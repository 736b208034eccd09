----------------------------- MODULE SubWallets -----------------------------
(***************************************************************************)
(* The container of a wallet's subwallets (SubWallet.cpp, SubWallets.cpp)  *)
(* while three threads call it: the synchronizer applying blocks           *)
(* (WalletSynchronizer::completeBlockProcessing), a transfer               *)
(* (Transfer.cpp) and the calls of WalletBackend that pause the            *)
(* synchronizer.  Every call of the container takes its mutex, so a call   *)
(* is one step; a block or a transfer is a sequence of calls.              *)
(*                                                                         *)
(* An input is named by its output: output key, key image and owner are    *)
(* functions of it.  Amounts are left out.  Blocks come straight from the  *)
(* daemon, which hands out every block (skipCoinbaseTransactions off):     *)
(* downloading them is the subject of WalletSync and WalletThreads.        *)
(***************************************************************************)
EXTENDS Integers, Sequences, FiniteSets

CONSTANTS
    Owners,         \* spend keys of all subwallets there may be
    Primary,        \* the one of the primary address
    Outputs,        \* transaction outputs paid to them
    Owner,          \* spend key of every output
    Unlock,         \* unlock time of every output, a height
    Txs,            \* transactions
    In, Out,        \* the outputs of ours a transaction spends and creates
    External,       \* the transactions this wallet does not build itself
    Interval,       \* PRUNE_SPENT_INPUTS_INTERVAL
    ScanHeights,    \* heights a rescan may start from
    MaxHeight, MaxForks, MaxPauses, MaxCrashes   \* bounds

ASSUME ContainerAssumption ==
    /\ Primary \in Owners
    /\ Owner \in [Outputs -> Owners] /\ Unlock \in [Outputs -> Nat]
    /\ {In, Out} \subseteq [Txs -> SUBSET Outputs]
    /\ \A t, u \in Txs : t # u => Out[t] \cap Out[u] = {}
    /\ External \subseteq Txs
    /\ ScanHeights \subseteq Nat \ {0}
    /\ Interval \in Nat \ {0}
    /\ {MaxHeight, MaxForks, MaxPauses, MaxCrashes} \subseteq Nat

VARIABLES
    chain,          \* the daemon's main chain from height 1 on
    pool,           \* its transaction pool
    forks,          \* how often its main chain was cut back
    w,              \* the container: the fields of SubWallets and its SubWallets
    from,           \* m_startHeight
    height,         \* the synchronization status' height
    synced,         \* the blocks the status stands for
    sync,           \* the synchronizer's thread
    send,           \* the transfer's thread
    prepared,       \* m_preparedTransactions
    made,           \* transactions built so far
    saved,          \* the wallet file
    pauses, crashes \* calls that paused the synchronizer, ends of the process

daemonVars == <<chain, pool, forks>>
statusVars == <<from, height, synced>>
sendVars == <<send, prepared, made>>
boundVars == <<saved, pauses, crashes>>
vars == <<daemonVars, w, statusVars, sync, sendVars, boundVars>>

-----------------------------------------------------------------------------
\* The records of the container.

Heights == 1..MaxHeight
TransactionInput == [key : Outputs, blockHeight : Heights, spendHeight : 0..MaxHeight]
Transaction == [hash : Txs, blockHeight : Heights, transfers : SUBSET Owners]

Keys(inputs) == {i.key : i \in inputs}

LockedTransaction == [hash : Txs, transfers : SUBSET Owners]

NewContainer(owners) ==
    [owners |-> owners,                         \* m_subWallets, m_publicSpendKeys
     start |-> [o \in Owners |-> 0],            \* m_syncStartHeight of each
     unspent |-> {}, locked |-> {}, spent |-> {},
     unconfirmed |-> {},                        \* m_unconfirmedIncomingAmounts
     transactions |-> {}, lockedTransactions |-> {},
     keyImageOwners |-> {}]

\* The container's own state that is written to the wallet file: everything
\* but the map of key images.
toJSON(c) == [c EXCEPT !.keyImageOwners = {}]

\* Slip: the key images of spent inputs are not loaded.
KeyImagesStillOurs(c) ==
    [c EXCEPT !.keyImageOwners = Keys(c.unspent \cup c.locked)]

\* The key images are found again from the inputs of the loaded subwallets.
fromJSON(c) ==
    [c EXCEPT !.keyImageOwners = Keys(c.unspent \cup c.locked \cup c.spent)]

-----------------------------------------------------------------------------
\* What the calls of the container do, each under its mutex.

IsReceivedFrom(h, i) == i.blockHeight >= h

\* Slip: an input spent in the replaced block itself stays spent.
IsSpentAbove(h, i) == i.spendHeight > h

IsSpentFrom(h, i) == i.spendHeight >= h
NotSpent(i) == [i EXCEPT !.spendHeight = 0]

\* Slip: an input that returns keeps the height it was spent at.
removeForkedTransactionsKeepingHeights(c, h) ==
    LET all == c.unspent \cup c.locked \cup c.spent
        gone == {i \in all : IsReceivedFrom(h, i)}
        back == {i \in c.spent \ gone : IsSpentFrom(h, i)}
    IN  [c EXCEPT !.transactions = {t \in @ : t.blockHeight < h},
                  !.unconfirmed = {},
                  !.locked = @ \ gone,
                  !.unspent = (@ \ gone) \cup {i \in back : i.key \notin Keys(@ \ gone)},
                  !.spent = (@ \ gone) \ back,
                  !.keyImageOwners = @ \ Keys(gone)]

\* Inputs received from the fork's height on go, and so do their key images;
\* inputs only spent from there on are unspent again.
removeForkedTransactions(c, h) ==
    LET all == c.unspent \cup c.locked \cup c.spent
        gone == {i \in all : IsReceivedFrom(h, i)}
        back == {i \in c.spent \ gone : IsSpentFrom(h, i)}
    IN  [c EXCEPT !.transactions = {t \in @ : t.blockHeight < h},
                  !.unconfirmed = {},
                  !.locked = @ \ gone,
                  !.unspent = (@ \ gone) \cup
                                {NotSpent(i) : i \in {j \in back : j.key \notin Keys(@ \ gone)}},
                  !.spent = (@ \ gone) \ back,
                  !.keyImageOwners = @ \ Keys(gone)]

pruneSpentInputs(c, h) == [c EXCEPT !.spent = {i \in @ : i.spendHeight > h}]

addTransaction(c, tx) ==
    [c EXCEPT !.lockedTransactions = {t \in @ : t.hash # tx.hash},
              !.transactions =
                  @ \cup (IF \E t \in @ : t.hash = tx.hash THEN {} ELSE {tx})]

storeTransactionInput(c, i) ==
    [c EXCEPT !.keyImageOwners = @ \cup {i.key},
              !.unconfirmed = @ \ {i.key},
              !.unspent = @ \cup (IF i.key \in Keys(@) THEN {} ELSE {i})]

\* An input that is neither unspent nor locked is ignored.
markInputAsSpent(c, k, h) ==
    LET found == IF k \in Keys(c.unspent)
                 THEN {i \in c.unspent : i.key = k}
                 ELSE {i \in c.locked : i.key = k}
    IN  [c EXCEPT !.unspent = @ \ found,
                  !.locked = @ \ found,
                  !.spent = @ \cup {[i EXCEPT !.spendHeight = h] :
                                       i \in {j \in found : k \notin Keys(c.spent)}}]

markInputAsLocked(c, k) ==
    LET found == {i \in c.unspent : i.key = k}
    IN  [c EXCEPT !.unspent = @ \ found,
                  !.locked = @ \cup {i \in found : k \notin Keys(@)}]

addUnconfirmedTransaction(c, tx) ==
    [c EXCEPT !.lockedTransactions =
        @ \cup (IF \E t \in @ : t.hash = tx.hash THEN {} ELSE {tx})]

storeUnconfirmedIncomingInput(c, k) ==
    [c EXCEPT !.unconfirmed = @ \cup (IF Owner[k] \in c.owners THEN {k} ELSE {})]

\* A locked input is found by the transaction that created it.
removeCancelledTransactions(c, hashes) ==
    LET theirs == UNION {Out[t] : t \in hashes}
        back == {i \in c.locked : i.key \in theirs}
    IN  [c EXCEPT !.lockedTransactions = {t \in @ : t.hash \notin hashes},
                  !.locked = @ \ back,
                  !.unspent = @ \cup {NotSpent(i) : i \in back},
                  !.unconfirmed = @ \ theirs]

\* Slip: a transaction goes with its first deleted transfer.
deleteWholeTransactions(txs, o) == {t \in txs : o \notin t.transfers}

\* A transaction loses its transfer of the deleted subwallet, and goes with
\* its last one.
deleteAddressTransactions(txs, o) ==
    {[t EXCEPT !.transfers = @ \ {o}] : t \in {u \in txs : u.transfers # {o}}}

deleteSubWallet(c, o) ==
    LET kept(inputs) == {i \in inputs : Owner[i.key] # o}
    IN  [c EXCEPT !.owners = @ \ {o},
                  !.unspent = kept(@), !.locked = kept(@), !.spent = kept(@),
                  !.unconfirmed = {k \in @ : Owner[k] # o},
                  !.transactions = deleteAddressTransactions(@, o),
                  !.lockedTransactions = deleteAddressTransactions(@, o)]

addSubWallet(c, o, h) == [c EXCEPT !.owners = @ \cup {o}, !.start[o] = h]

\* The map of key images is not cleared.
resetContainer(c, h) ==
    [c EXCEPT !.start = [o \in Owners |-> IF o \in c.owners THEN h ELSE @[o]],
              !.unspent = {}, !.locked = {}, !.spent = {}, !.unconfirmed = {},
              !.transactions = {}, !.lockedTransactions = {}]

-----------------------------------------------------------------------------
\* The daemon.

TxsOf(c) == UNION {c[i].txs : i \in DOMAIN c}
SpentOn(c) == UNION {In[t] : t \in TxsOf(c)}
CreatedOn(c) == UNION {Out[t] : t \in TxsOf(c)}

\* isInputUnlocked, with CRYPTONOTE_LOCKED_TX_ALLOWED_DELTA_BLOCKS = 1.
isInputUnlocked(k) == Len(chain) + 1 >= Unlock[k]

IsValid(t) ==
    /\ t \notin TxsOf(chain)
    /\ In[t] \subseteq CreatedOn(chain) \ SpentOn(chain)
    /\ \A k \in In[t] : isInputUnlocked(k)

Accepts(t) ==
    /\ IsValid(t) /\ t \notin pool
    /\ \A u \in pool : In[t] \cap In[u] = {}

\* A block of valid transactions is added to the main chain.
DaemonAddsBlock ==
    /\ Len(chain) < MaxHeight
    /\ \E txs \in SUBSET (pool \cup External) :
        /\ \A t \in txs : IsValid(t)
        /\ \A t, u \in txs : t # u => In[t] \cap In[u] = {}
        /\ chain' = Append(chain, [branch |-> forks, txs |-> txs])
        /\ pool' = pool \ txs
    /\ UNCHANGED <<forks, w, statusVars, sync, sendVars, boundVars>>

\* The main chain loses its blocks above a height; their transactions may
\* return to the pool.  A fork is shallower than the pruning interval, and
\* does not reach below the height scanning starts at.
DaemonForks ==
    /\ forks < MaxForks
    /\ \E h \in 0..(Len(chain) - 1) :
        /\ \A s \in {synced, saved.synced} : h > Len(s) - Interval
        /\ \A f \in {from, saved.from} : h >= f - 1
        /\ chain' = SubSeq(chain, 1, h)
        /\ \E back \in SUBSET (TxsOf(chain) \ (TxsOf(chain') \cup External)) :
            pool' = pool \cup back
    /\ forks' = forks + 1
    /\ UNCHANGED <<w, statusVars, sync, sendVars, boundVars>>

\* A transaction leaves the pool without being in a block.
DaemonForgets ==
    /\ \E t \in pool : pool' = pool \ {t}
    /\ UNCHANGED <<chain, forks, w, statusVars, sync, sendVars, boundVars>>

-----------------------------------------------------------------------------
\* The synchronizer's thread.

Asleep == [pc |-> "idle", height |-> 0, block |-> [branch |-> 0, txs |-> {}],
           txs |-> {}, inputs |-> {}, spends |-> {}, hashes |-> {}]

IsIdle == sync.pc = "idle"

\* The height of the first block of the daemon's chain that the wallet has not.
NextHeight ==
    1 + CHOOSE n \in 0..Len(synced) :
            /\ n <= Len(chain)
            /\ SubSeq(synced, 1, n) = SubSeq(chain, 1, n)
            /\ \/ n \in {Len(synced), Len(chain)}
               \/ synced[n + 1] # chain[n + 1]

IsPruning(h) == h % Interval = 0 /\ h > Interval

\* processTransactionOutputs, for the subwallets there are.
processBlockOutputs(c, block, h) ==
    {[key |-> k, blockHeight |-> h, spendHeight |-> 0] :
        k \in {j \in UNION {Out[t] : t \in block.txs} : Owner[j] \in c.owners}}

\* processTransaction: the subwallets paid by a transaction, and those whose
\* key images it spends.
Transfers(c, t) ==
    {Owner[k] : k \in {j \in Out[t] : Owner[j] \in c.owners} \cup
                        (In[t] \cap c.keyImageOwners)}

processBlockTransactions(c, block, h) ==
    {[hash |-> t, blockHeight |-> h, transfers |-> Transfers(c, t)] :
        t \in {u \in block.txs : Transfers(c, u) # {}}}

\* completeBlockProcessing up to the first change of a list: the fork is
\* resolved, old inputs are pruned and the block's changes are computed.  No
\* other thread touches what the last two read and write.
BeginBlock ==
    /\ IsIdle
    /\ NextHeight <= Len(chain)
    /\ \E h \in {NextHeight} : \E block \in {chain[h]} :
        \E unforked \in {IF height >= h THEN removeForkedTransactions(w, h) ELSE w} :
        \E c \in {IF IsPruning(h) THEN pruneSpentInputs(unforked, h - Interval)
                                  ELSE unforked} :
            /\ w' = c
            /\ sync' = [Asleep EXCEPT
                !.pc = "block", !.height = h, !.block = block,
                !.txs = processBlockTransactions(c, block, h),
                !.inputs = processBlockOutputs(c, block, h),
                !.spends = (UNION {In[t] : t \in block.txs}) \cap c.keyImageOwners]
    /\ UNCHANGED <<daemonVars, statusVars, sendVars, boundVars>>

AddTransaction ==
    /\ sync.pc = "block"
    /\ \E tx \in sync.txs :
        /\ w' = addTransaction(w, tx)
        /\ sync' = [sync EXCEPT !.txs = @ \ {tx}]
    /\ UNCHANGED <<daemonVars, statusVars, sendVars, boundVars>>

StoreTransactionInput ==
    /\ sync.pc = "block" /\ sync.txs = {}
    /\ \E i \in sync.inputs :
        /\ w' = storeTransactionInput(w, i)
        /\ sync' = [sync EXCEPT !.inputs = @ \ {i}]
    /\ UNCHANGED <<daemonVars, statusVars, sendVars, boundVars>>

MarkInputAsSpent ==
    /\ sync.pc = "block" /\ sync.txs = {} /\ sync.inputs = {}
    /\ \E k \in sync.spends :
        /\ Owner[k] \in w.owners
        /\ w' = markInputAsSpent(w, k, sync.height)
        /\ sync' = [sync EXCEPT !.spends = @ \ {k}]
    /\ UNCHANGED <<daemonVars, statusVars, sendVars, boundVars>>

\* dropBlock: the block is stored in the synchronization status.
DropBlock ==
    /\ sync.pc = "block" /\ sync.txs = {} /\ sync.inputs = {} /\ sync.spends = {}
    /\ height' = sync.height
    /\ synced' = Append(SubSeq(synced, 1, sync.height - 1), sync.block)
    /\ sync' = Asleep
    /\ UNCHANGED <<daemonVars, w, from, sendVars, boundVars>>

\* checkLockedTransactions: the locked hashes are read, ...
CheckLockedTransactions ==
    /\ IsIdle
    /\ w.lockedTransactions # {}
    /\ sync' = [Asleep EXCEPT !.pc = "status",
                              !.hashes = {t.hash : t \in w.lockedTransactions}]
    /\ UNCHANGED <<daemonVars, w, statusVars, sendVars, boundVars>>

\* ... the daemon sorts out those it knows (Core::getTransactionsStatus), or
\* does not answer, ...
GetTransactionsStatus ==
    /\ sync.pc = "status"
    /\ \E unknown \in {sync.hashes \ (pool \cup TxsOf(chain)), {}} :
        sync' = IF unknown = {} THEN Asleep
                ELSE [sync EXCEPT !.pc = "cancel", !.hashes = unknown]
    /\ UNCHANGED <<daemonVars, w, statusVars, sendVars, boundVars>>

\* ... and the ones it does not know are removed.
RemoveCancelledTransactions ==
    /\ sync.pc = "cancel"
    /\ w' = removeCancelledTransactions(w, sync.hashes)
    /\ sync' = Asleep
    /\ UNCHANGED <<daemonVars, statusVars, sendVars, boundVars>>

-----------------------------------------------------------------------------
\* A transfer; m_transactionMutex lets one run at a time.

NoTransfer == [pc |-> "idle", tx |-> {}, outputs |-> {}, inputs |-> {}]

IsSending(p) == send.pc = p
Transfer == CHOOSE t \in send.tx : TRUE

\* getSpendableTransactionInputs and getFusionTransactionInputs: transfers
\* are built from the unlocked unspent inputs.
Spendable == {k \in Keys(w.unspent) : isInputUnlocked(k)}

Relaying(t) == [NoTransfer EXCEPT !.pc = "relay", !.tx = {t}]

\* Inputs are chosen and the transaction is built, to be relayed now ...
MakeTransaction ==
    /\ IsSending("idle")
    /\ \E t \in Txs \ (External \cup made) :
        /\ In[t] # {} /\ In[t] \subseteq Spendable
        /\ made' = made \cup {t}
        /\ send' = Relaying(t)
    /\ UNCHANGED <<daemonVars, w, statusVars, sync, prepared, boundVars>>

\* ... or kept for later.
PrepareTransaction ==
    /\ IsSending("idle")
    /\ \E t \in Txs \ (External \cup made) :
        /\ In[t] # {} /\ In[t] \subseteq Spendable
        /\ made' = made \cup {t}
        /\ prepared' = prepared \cup {t}
    /\ UNCHANGED <<daemonVars, w, statusVars, sync, send, boundVars>>

\* A prepared transaction has expired when an input is not spendable now.
SendPreparedTransaction ==
    /\ IsSending("idle")
    /\ \E t \in prepared :
        IF In[t] \subseteq Spendable
        THEN send' = Relaying(t) /\ UNCHANGED prepared
        ELSE prepared' = prepared \ {t} /\ UNCHANGED send
    /\ UNCHANGED <<daemonVars, w, statusVars, sync, made, boundVars>>

\* The daemon takes the transaction and says so, ...
RelayTransaction ==
    /\ IsSending("relay")
    /\ Accepts(Transfer)
    /\ pool' = pool \cup {Transfer}
    /\ send' = [send EXCEPT !.pc = "store"]
    /\ UNCHANGED <<chain, forks, w, statusVars, sync, prepared, made, boundVars>>

\* ... or the transfer fails: the daemon refused the transaction, was never
\* reached, or its answer is lost.
RelayFails ==
    /\ IsSending("relay")
    /\ \/ UNCHANGED pool
       \/ Accepts(Transfer) /\ pool' = pool \cup {Transfer}
    /\ send' = NoTransfer
    /\ UNCHANGED <<chain, forks, w, statusVars, sync, prepared, made, boundVars>>

\* The change is the part of a transfer that is ours.
StoreSentTransaction ==
    /\ IsSending("store")
    /\ w' = addUnconfirmedTransaction(w,
                [hash |-> Transfer,
                 transfers |-> {Owner[k] : k \in In[Transfer] \cup Out[Transfer]}])
    /\ send' = [send EXCEPT !.pc = "lock",
                            !.outputs = {k \in Out[Transfer] : Owner[k] \in w.owners},
                            !.inputs = In[Transfer]]
    /\ UNCHANGED <<daemonVars, statusVars, sync, prepared, made, boundVars>>

StoreUnconfirmedIncomingInputs ==
    /\ IsSending("lock")
    /\ \E k \in send.outputs :
        /\ w' = storeUnconfirmedIncomingInput(w, k)
        /\ send' = [send EXCEPT !.outputs = @ \ {k}]
    /\ UNCHANGED <<daemonVars, statusVars, sync, prepared, made, boundVars>>

\* at() throws when the subwallet was deleted meanwhile.
MarkInputAsLocked ==
    /\ IsSending("lock") /\ send.outputs = {}
    /\ \E k \in send.inputs :
        IF Owner[k] \in w.owners
        THEN w' = markInputAsLocked(w, k) /\ send' = [send EXCEPT !.inputs = @ \ {k}]
        ELSE send' = NoTransfer /\ UNCHANGED w
    /\ UNCHANGED <<daemonVars, statusVars, sync, prepared, made, boundVars>>

FinishTransfer ==
    /\ IsSending("lock") /\ send.outputs = {} /\ send.inputs = {}
    /\ prepared' = prepared \ send.tx
    /\ send' = NoTransfer
    /\ UNCHANGED <<daemonVars, w, statusVars, sync, made, boundVars>>

-----------------------------------------------------------------------------
\* Calls that run while the synchronizer is stopped, between two blocks.

Pause == IsIdle /\ pauses < MaxPauses /\ pauses' = pauses + 1

\* WalletSynchronizer::reset and SubWallets::reset.
Rescan(c, h) ==
    /\ Len(chain) >= h - 1
    /\ w' = resetContainer(c, h)
    /\ from' = h
    /\ height' = 0
    /\ synced' = SubSeq(chain, 1, h - 1)

File(c) == [container |-> toJSON(c), from |-> from', height |-> height', synced |-> synced']

ResetWallet ==
    /\ Pause
    /\ \E h \in ScanHeights : Rescan(w, h)
    /\ saved' = File(w')
    /\ UNCHANGED <<daemonVars, sync, sendVars, crashes>>

\* A new spend key: nothing was ever paid to it.
AddSubWallet ==
    /\ Pause
    /\ \E o \in Owners \ w.owners :
        /\ \A k \in Outputs : Owner[k] = o => k \notin CreatedOn(chain) \cup CreatedOn(synced)
        /\ w' = addSubWallet(w, o, 0)
    /\ UNCHANGED <<daemonVars, statusVars, sync, sendVars, saved, crashes>>

ImportSubWallet ==
    /\ Pause
    /\ \E o \in Owners \ w.owners, h \in ScanHeights :
        IF height >= h
        THEN Rescan(addSubWallet(w, o, h), h)
        ELSE w' = addSubWallet(w, o, h) /\ UNCHANGED statusVars
    /\ UNCHANGED <<daemonVars, sync, sendVars, saved, crashes>>

DeleteSubWallet ==
    /\ Pause
    /\ \E o \in w.owners \ {Primary} : w' = deleteSubWallet(w, o)
    /\ UNCHANGED <<daemonVars, statusVars, sync, sendVars, saved, crashes>>

SaveWallet ==
    /\ Pause
    /\ UNCHANGED <<daemonVars, w, statusVars, sync, sendVars, crashes>>
    /\ saved' = File(w)

\* A new process loads the wallet file.
Load ==
    /\ w' = fromJSON(saved.container)
    /\ from' = saved.from /\ height' = saved.height /\ synced' = saved.synced
    /\ sync' = Asleep
    /\ send' = NoTransfer
    /\ prepared' = {}

\* The process ended, at any step, without saving.
Reopen ==
    /\ crashes < MaxCrashes
    /\ crashes' = crashes + 1
    /\ Load
    /\ UNCHANGED <<daemonVars, made, saved, pauses>>

\* at() throws for the key image of a deleted subwallet, and nothing in the
\* synchronizer's thread catches it.
SynchronizerThrows ==
    /\ sync.pc = "block" /\ sync.txs = {} /\ sync.inputs = {}
    /\ \E k \in sync.spends : Owner[k] \notin w.owners
    /\ Load
    /\ UNCHANGED <<daemonVars, made, boundVars>>

-----------------------------------------------------------------------------
Init ==
    /\ chain = <<>> /\ pool = {} /\ forks = 0
    /\ w \in {NewContainer(owners) : owners \in {o \in SUBSET Owners : Primary \in o}}
    /\ from = 1 /\ height = 0 /\ synced = <<>>
    /\ sync = Asleep
    /\ send = NoTransfer /\ prepared = {} /\ made = {}
    /\ saved = [container |-> toJSON(w), from |-> 1, height |-> 0, synced |-> <<>>]
    /\ pauses = 0 /\ crashes = 0

SyncStep ==
    \/ BeginBlock \/ AddTransaction \/ StoreTransactionInput \/ MarkInputAsSpent
    \/ DropBlock \/ SynchronizerThrows
    \/ CheckLockedTransactions \/ GetTransactionsStatus \/ RemoveCancelledTransactions

SendStep ==
    \/ MakeTransaction \/ PrepareTransaction \/ SendPreparedTransaction
    \/ RelayTransaction \/ RelayFails
    \/ StoreSentTransaction \/ StoreUnconfirmedIncomingInputs \/ MarkInputAsLocked
    \/ FinishTransfer

BackendStep ==
    \/ ResetWallet \/ AddSubWallet \/ ImportSubWallet \/ DeleteSubWallet
    \/ SaveWallet \/ Reopen

Next ==
    \/ DaemonAddsBlock \/ DaemonForks \/ DaemonForgets
    \/ SyncStep \/ SendStep \/ BackendStep

Spec == Init /\ [][Next]_vars

-----------------------------------------------------------------------------
\* The lists hold inputs of subwallets the container has.  Only a spent
\* input has a spend height: an input that returns after a fork
\* (SubWallet::removeForkedInputs) has it reset.
SubWalletsTypeOK ==
    /\ w.owners \subseteq Owners /\ Primary \in w.owners
    /\ w.unspent \cup w.locked \cup w.spent \subseteq TransactionInput
    /\ \A i \in w.unspent \cup w.locked : i.spendHeight = 0
    /\ w.transactions \subseteq Transaction
    /\ w.lockedTransactions \subseteq LockedTransaction
    /\ w.unconfirmed \cup w.keyImageOwners \subseteq Outputs
    /\ \A i \in w.unspent \cup w.locked \cup w.spent : Owner[i.key] \in w.owners
    /\ sync.pc \in {"idle", "block", "status", "cancel"}
    /\ send.pc \in {"idle", "relay", "store", "lock"}

\* What the applied blocks say: the outputs they create and spend, each with
\* the height of its block.
AtHeights(F) ==
    UNION {UNION {F[t] \X {h} : t \in synced[h].txs} : h \in DOMAIN synced}

\* The outputs whose subwallet the wallet has, scanned from their height on.
MustBeHeld == {p \in AtHeights(Out) : Owner[p[1]] \in w.owners /\ p[2] >= w.start[Owner[p[1]]]}

\* What the lists say is true: an input was created and, if it is spent, spent
\* in the applied block of its height; it is listed once, in one list; and no
\* applied block spends an input that is unspent or locked.
ListsAreSound ==
    LET all == w.unspent \cup w.locked \cup w.spent
        spends == AtHeights(In)
    IN  /\ {<<i.key, i.blockHeight>> : i \in all} \subseteq AtHeights(Out)
        /\ {<<i.key, i.spendHeight>> : i \in w.spent} \subseteq spends
        /\ \A i, j \in all : i.key = j.key => i = j
        /\ w.unspent \cap w.locked = {}
        /\ \A p \in spends : p[1] \notin Keys(w.unspent \cup w.locked)

\* A listed transaction is in the applied block of its height, and listed once.
HistoryIsSound ==
    /\ \A tx \in w.transactions :
        tx.blockHeight <= Len(synced) /\ tx.hash \in synced[tx.blockHeight].txs
    /\ \A tx, ty \in w.transactions : tx.hash = ty.hash => tx = ty

\* Between two blocks the wallet claims nothing that the applied blocks do not
\* say: no output counts twice, none counts as spendable that a block has
\* spent, none stays spent whose spend a fork took back (removeForkedInputs,
\* markInputAsSpent).  So it is after every fork, rescan, pruning and reload,
\* however the calls of a transfer fell between those of a block.
WalletIsSound == IsIdle => ListsAreSound /\ HistoryIsSound

\* Between two blocks the wallet misses nothing that the applied blocks say:
\* an output of ours that none of them spends is unspent or locked, and every
\* transaction that pays or spends one is listed (storeTransactionInput,
\* addTransaction, removeForkedTransactions, deleteAddressTransactions).
WalletIsComplete ==
    IsIdle =>
        \A p \in MustBeHeld :
            /\ p[1] \in Keys(w.unspent \cup w.locked) \/ \E q \in AtHeights(In) : q[1] = p[1]
            /\ \A t \in TxsOf(synced) :
                p[1] \in In[t] \cup Out[t] => \E tx \in w.transactions : tx.hash = t

\* The key image of an input that may still be spent is known, so that the
\* block that spends it is recognised; the map is rebuilt from the lists when
\* the wallet is loaded and loses what a fork removes.
SpendsAreRecognised ==
    Keys(w.unspent \cup w.locked) \subseteq w.keyImageOwners

\* Between two blocks and two transfers, every locked input waits for a
\* transaction that spends it and that the wallet lists as unconfirmed.  The
\* inputs "used in the cancelled transactions" are to be returned "to our
\* wallet" (SubWallet::removeCancelledTransactions).
LockedInputHasTransaction ==
    IsIdle /\ IsSending("idle") =>
        \A k \in Keys(w.locked) :
            \E t \in {x.hash : x \in w.lockedTransactions} : k \in In[t]
=============================================================================
