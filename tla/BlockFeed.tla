------------------------------ MODULE BlockFeed ------------------------------
(***************************************************************************)
(* What the wallet's synchronizer promises about the blocks it downloads,  *)
(* whatever its threads do: they wait in the order of the chain, each is   *)
(* applied when it is the oldest one waiting, and the wallet always holds  *)
(* the transactions of an unbroken run of blocks.  A block may be fetched  *)
(* and applied a second time, never skipped.  WalletThreads implements     *)
(* this specification.                                                     *)
(***************************************************************************)
EXTENDS Integers, Sequences

CONSTANT MaxHeight  \* the height of the daemon's chain

VARIABLES
    waiting,        \* heights downloaded and not applied, oldest first
    held            \* heights whose transactions are in the wallet

feedVars == <<waiting, held>>

Init ==
    /\ waiting = <<>>
    /\ held = {}

\* A run of blocks joins those waiting.  It continues them; when none waits it
\* continues the blocks held, or repeats the last of them.
Download ==
    \E last \in 1..MaxHeight : \E first \in 1..last :
        /\ waiting # <<>> => first = waiting[Len(waiting)] + 1
        /\ waiting = <<>> => first \in held \/ first - 1 \in held \cup {0}
        /\ waiting = <<>> => first + 1 \notin held
        /\ waiting' = waiting \o [i \in 1..(last - first + 1) |-> first + i - 1]
        /\ held' = held

Apply ==
    /\ waiting # <<>>
    /\ held' = 1..Head(waiting)
    /\ waiting' = Tail(waiting)

Next == Download \/ Apply

Spec == Init /\ [][Next]_feedVars
=============================================================================
