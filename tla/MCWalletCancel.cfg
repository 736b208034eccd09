SPECIFICATION Spec
CONSTANTS
    Owners = {"A", "B"}
    Primary = "A"
    Outputs = {"a2", "b1"}
    Owner <- MCOwner
    Unlock <- MCUnlock
    Txs = {"pay", "s"}
    In <- MCIn
    Out <- MCOut
    External = {"pay"}
    Interval = 2
    ScanHeights = {2}
    MaxHeight = 4
    MaxForks = 0
    MaxPauses = 0
    MaxCrashes = 0
CHECK_DEADLOCK FALSE
INVARIANT
    LockedInputHasTransaction
