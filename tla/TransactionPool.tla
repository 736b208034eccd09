-------------------------- MODULE TransactionPool --------------------------
(***************************************************************************)
(* The transaction pool and what Core does with it: transactions arrive    *)
(* and are validated before they are pushed, blocks remove what they make  *)
(* invalid, a chain switch returns the transactions of the chain it leaves *)
(* and the cleaner drops what is too old or has an outdated ring size.     *)
(* The chain itself is ForkChoice, which ChainSegments implements.         *)
(*                                                                         *)
(* The dispatcher thread and the RPC threads call Core directly and share  *)
(* the pool, every method of which takes its mutex: a step of a thread is  *)
(* one such method call together with the local work before it.  At most   *)
(* one thread at a time is inside addBlock; two would race on chainsLeaves *)
(* itself, which has no lock.                                              *)
(***************************************************************************)
EXTENDS ForkChoice, FiniteSets

CONSTANTS
    Transactions,   \* transactions that pass the checks on their own bytes
    OneTimeKeys,    \* every key image
    KeyImages,      \* key images a transaction spends
    TransactionsOf, \* transactions of a block, its base transaction left out
    MixinEnd,       \* height from which the ring size is no longer allowed
    Threads,        \* threads that call Core
    Dispatcher      \* the one that also runs transactionPoolCleaningProcedure

ASSUME PoolAssumption ==
    /\ KeyImages \in [Transactions -> SUBSET OneTimeKeys]
    /\ TransactionsOf \in [Blocks -> SUBSET Transactions]
    /\ MixinEnd \in [Transactions -> Nat]
    /\ Dispatcher \in Threads

VARIABLES
    pool,               \* transactionHashIndex
    poolState,          \* spentKeyImages of the pool's validator state
    recentlyDeleted,    \* recentlyDeletedTransactions
    job,                \* what every thread is in the middle of
    missing             \* a transaction that is not there has been dereferenced

poolVars == <<pool, poolState, recentlyDeleted, job, missing>>

vars == <<forkVars, poolVars>>

\* op is the operation, at the block it is about (the tip when cleaning began),
\* left the transactions it has yet to treat, back those a switch returns.
Jobs == [op : {"idle", "push", "submit", "check", "copy", "clean"},
         at : Blocks, left : SUBSET Transactions, back : SUBSET Transactions]

Job(op, at, left, back) == [op |-> op, at |-> at, left |-> left, back |-> back]

Idle == Job("idle", Genesis, {}, {})

SetJob(th, j) == job' = [job EXCEPT ![th] = j]

Treated(th, t) == SetJob(th, [job[th] EXCEPT !.left = @ \ {t}])

Running == up /\ ~missing

IsFree(th) == Running /\ job[th] = Idle

\* Slip: a thread that copies transactions back does not count.
CheckingBlock == \E th \in Threads : job[th].op = "check"

\* A thread is between pushing a block and the end of addBlock.
AddingBlock == \E th \in Threads : job[th].op \in {"check", "copy"}
-----------------------------------------------------------------------------
(* Validation *)

KeyImagesOf(T) == UNION {KeyImages[t] : t \in T}

TransactionsIn(B) == UNION {TransactionsOf[b] : b \in B}

BlockIndex(b) == Cardinality(ChainTo[b]) - 1

\* Mixins::validate
MixinIsValid(t, height) == height < MixinEnd[t]

\* validateTransaction against the chain that ends in a block: the ring size is
\* allowed on its height and no key image is spent on it.
IsValidOn(t, b) ==
    /\ MixinIsValid(t, BlockIndex(b))
    /\ KeyImages[t] \cap KeyImagesOf(TransactionsIn(ChainTo[b])) = {}

\* The transactions of a block share one validator state.
BlockIsValid(b) ==
    /\ \A t \in TransactionsOf[b] : IsValidOn(t, Prev[b])
    /\ \A t, u \in TransactionsOf[b] : t # u => KeyImages[t] \cap KeyImages[u] = {}
-----------------------------------------------------------------------------
(* TransactionPool and TransactionPoolCleanWrapper *)

\* Slip: key images are not compared.
MayPushAnyway(t) == t \notin recentlyDeleted /\ t \notin pool

\* Slip: what any chain holds, alternative ones included, is refused.
MayPushUnknown(t) ==
    /\ t \notin recentlyDeleted
    /\ t \notin pool
    /\ t \notin TransactionsIn(known)
    /\ KeyImages[t] \cap poolState = {}

MayPush(t) ==
    /\ t \notin recentlyDeleted
    /\ t \notin pool
    /\ KeyImages[t] \cap poolState = {}

\* Slip: the hash is merged into the state instead of the key images.
PushHash(t) ==
    /\ pool' = pool \cup {t}
    /\ poolState' = poolState \cup {t}

PushTransaction(t) ==
    /\ pool' = pool \cup {t}
    /\ poolState' = poolState \cup KeyImages[t]

\* Slip: the key images stay in the state.
RemoveHash(t) ==
    /\ pool' = pool \ {t}
    /\ UNCHANGED poolState

RemoveTransaction(t) ==
    /\ pool' = pool \ {t}
    /\ poolState' = IF t \in pool THEN poolState \ KeyImages[t] ELSE poolState
-----------------------------------------------------------------------------
(* Core::addTransactionToPool *)

\* The transaction is not in the pool and valid on the main chain of now ...
AddTransaction(th, t) ==
    /\ IsFree(th)
    /\ t \notin pool
    /\ IsValidOn(t, tip)
    /\ SetJob(th, Job("push", Genesis, {t}, {}))
    /\ UNCHANGED <<forkVars, pool, poolState, recentlyDeleted, missing>>

\* ... and is pushed later, when both may have changed.
FinishAddTransaction(th, t) ==
    /\ Running
    /\ job[th].op = "push"
    /\ t \in job[th].left
    /\ IF MayPush(t) THEN PushTransaction(t) ELSE UNCHANGED <<pool, poolState>>
    /\ SetJob(th, Idle)
    /\ UNCHANGED <<forkVars, recentlyDeleted, missing>>
-----------------------------------------------------------------------------
(* Core::addBlock *)

\* A transaction of the block is not valid where the block is: the block is
\* rejected and that transaction removed from the pool.
RejectBlock(th, b, t) ==
    /\ IsFree(th)
    /\ ~AddingBlock
    /\ b \notin known
    /\ Prev[b] \in known
    /\ t \in TransactionsOf[b]
    /\ \/ ~IsValidOn(t, Prev[b])
       \/ \E u \in TransactionsOf[b] \ {t} : KeyImages[t] \cap KeyImages[u] # {}
    /\ t \in pool
    /\ RemoveTransaction(t)
    /\ UNCHANGED <<forkVars, recentlyDeleted, job, missing>>

\* The block is stored.  Only when it ends the main chain is the pool looked
\* at, first for what has become invalid, then for what to bring back.
AddBlock(th, b) ==
    /\ IsFree(th)
    /\ ~AddingBlock
    /\ Receive(b)
    /\ BlockIsValid(b)
    /\ IF tip' = b
       THEN SetJob(th, Job("check", b, pool, TransactionsIn(ChainTo[tip] \ ChainTo[b])))
       ELSE UNCHANGED job
    /\ UNCHANGED <<pool, poolState, recentlyDeleted, missing>>

\* findSegmentContainingTransaction: main chain and alternative chains.
IsTransactionInChain(t) == t \in TransactionsIn(known)

\* Slip: the key images of the block are not compared.
IsOutdatedBy(t, b) ==
    \/ IsTransactionInChain(t)
    \/ ~MixinIsValid(t, BlockIndex(tip))

\* Slip: the ring size is checked one block too early.
IsInvalidatedEarlyBy(t, b) ==
    \/ IsTransactionInChain(t)
    \/ ~MixinIsValid(t, BlockIndex(tip) + 1)
    \/ KeyImages[t] \cap KeyImagesOf(TransactionsOf[b]) # {}

\* What makes checkAndRemoveInvalidPoolTransactions remove a transaction.
IsInvalidatedBy(t, b) ==
    \/ IsTransactionInChain(t)
    \/ ~MixinIsValid(t, BlockIndex(tip))
    \/ KeyImages[t] \cap KeyImagesOf(TransactionsOf[b]) # {}

CheckPoolTransaction(th, t) ==
    /\ Running
    /\ job[th].op = "check"
    /\ t \in job[th].left
    /\ IF t \in pool /\ IsInvalidatedBy(t, job[th].at)
       THEN RemoveTransaction(t)
       ELSE UNCHANGED <<pool, poolState>>
    /\ Treated(th, t)
    /\ UNCHANGED <<forkVars, recentlyDeleted, missing>>

FinishCheck(th) ==
    /\ Running
    /\ job[th].op = "check"
    /\ job[th].left = {}
    /\ SetJob(th, Job("copy", job[th].at, job[th].back, job[th].back))
    /\ UNCHANGED <<forkVars, pool, poolState, recentlyDeleted, missing>>

\* copyTransactionsToPool offers every transaction of the chain left to the
\* pool, by way of addTransactionToPool.
CopyTransaction(th, t) ==
    /\ Running
    /\ job[th].op = "copy"
    /\ t \in job[th].left
    /\ IF IsValidOn(t, tip) /\ MayPush(t)
       THEN PushTransaction(t)
       ELSE UNCHANGED <<pool, poolState>>
    /\ Treated(th, t)
    /\ UNCHANGED <<forkVars, recentlyDeleted, missing>>

FinishAddBlock(th) ==
    /\ Running
    /\ job[th].op = "copy"
    /\ job[th].left = {}
    /\ SetJob(th, Idle)
    /\ UNCHANGED <<forkVars, pool, poolState, recentlyDeleted, missing>>
-----------------------------------------------------------------------------
(* Core::submitBlock *)

\* Every transaction of the template is looked up ...
SubmitBlock(th, b) ==
    /\ IsFree(th)
    /\ \A other \in Threads : job[other].op # "submit"
    /\ TransactionsOf[b] # {}
    /\ TransactionsOf[b] \subseteq pool
    /\ SetJob(th, Job("submit", b, TransactionsOf[b], {}))
    /\ UNCHANGED <<forkVars, pool, poolState, recentlyDeleted, missing>>

\* ... and fetched by a second call.  The block is then added by AddBlock.
GetTransactions(th) ==
    /\ Running
    /\ job[th].op = "submit"
    /\ missing' = ~(job[th].left \subseteq pool)
    /\ SetJob(th, Idle)
    /\ UNCHANGED <<forkVars, pool, poolState, recentlyDeleted>>
-----------------------------------------------------------------------------
(* transactionPoolCleaningProcedure and TransactionPoolCleanWrapper::clean *)

StartCleaning ==
    /\ IsFree(Dispatcher)
    /\ SetJob(Dispatcher, Job("clean", tip, pool, {}))
    /\ UNCHANGED <<forkVars, pool, poolState, recentlyDeleted, missing>>

CleanJob(t) ==
    /\ Running
    /\ job[Dispatcher].op = "clean"
    /\ t \in job[Dispatcher].left

\* Young enough, ring size allowed on the height at which cleaning began.
KeepTransaction(t) ==
    /\ CleanJob(t)
    /\ t \in pool
    /\ MixinIsValid(t, BlockIndex(job[Dispatcher].at))
    /\ Treated(Dispatcher, t)
    /\ UNCHANGED <<forkVars, pool, poolState, recentlyDeleted, missing>>

DeleteInvalidTransaction(t) ==
    /\ CleanJob(t)
    /\ t \in pool
    /\ ~MixinIsValid(t, BlockIndex(job[Dispatcher].at))
    /\ RemoveTransaction(t)
    /\ recentlyDeleted' = recentlyDeleted \cup {t}
    /\ Treated(Dispatcher, t)
    /\ UNCHANGED <<forkVars, missing>>

\* Older than the timeout: it is removed, and then fetched from the pool again
\* for the check of its ring size.
DeleteExpiredTransaction(t) ==
    /\ CleanJob(t)
    /\ t \in pool
    /\ RemoveTransaction(t)
    /\ recentlyDeleted' = recentlyDeleted \cup {t}
    /\ missing' = TRUE
    /\ Treated(Dispatcher, t)
    /\ UNCHANGED forkVars

\* Another thread has removed the transaction: asking for its receive time.
CleanMissesTransaction(t) ==
    /\ CleanJob(t)
    /\ t \notin pool
    /\ missing' = TRUE
    /\ UNCHANGED <<forkVars, pool, poolState, recentlyDeleted, job>>

\* cleanRecentlyDeletedTransactions forgets those deleted a timeout ago.
FinishCleaning ==
    /\ Running
    /\ job[Dispatcher].op = "clean"
    /\ job[Dispatcher].left = {}
    /\ recentlyDeleted' \in SUBSET recentlyDeleted
    /\ SetJob(Dispatcher, Idle)
    /\ UNCHANGED <<forkVars, pool, poolState, missing>>
-----------------------------------------------------------------------------
(* The pool is not saved *)

PoolIsEmpty ==
    /\ pool' = {}
    /\ poolState' = {}
    /\ recentlyDeleted' = {}
    /\ job' = [th \in Threads |-> Idle]
    /\ missing' = FALSE

Stop ==
    /\ \A th \in Threads : IsFree(th)
    /\ Shutdown
    /\ PoolIsEmpty

Crash ==
    /\ up
    /\ Lose
    /\ PoolIsEmpty

Start == Boot /\ UNCHANGED poolVars

PoolInit ==
    /\ Init
    /\ pool = {}
    /\ poolState = {}
    /\ recentlyDeleted = {}
    /\ job = [th \in Threads |-> Idle]
    /\ missing = FALSE

PoolNext ==
    \/ \E th \in Threads :
        \/ \E t \in Transactions :
            \/ AddTransaction(th, t)
            \/ FinishAddTransaction(th, t)
            \/ CheckPoolTransaction(th, t)
            \/ CopyTransaction(th, t)
        \/ \E b \in Blocks \ {Genesis} :
            \/ AddBlock(th, b)
            \/ SubmitBlock(th, b)
            \/ \E t \in Transactions : RejectBlock(th, b, t)
        \/ FinishCheck(th)
        \/ FinishAddBlock(th)
        \/ GetTransactions(th)
    \/ StartCleaning
    \/ \E t \in Transactions :
        \/ KeepTransaction(t)
        \/ DeleteInvalidTransaction(t)
        \/ DeleteExpiredTransaction(t)
        \/ CleanMissesTransaction(t)
    \/ FinishCleaning
    \/ Stop
    \/ Crash
    \/ Start

PoolSpec == PoolInit /\ [][PoolNext]_vars
-----------------------------------------------------------------------------
(* Correctness *)

\* Every variable keeps its type; a job names transactions and a block.
PoolTypeOK ==
    /\ up \in BOOLEAN
    /\ known \subseteq Blocks
    /\ tip \in Blocks
    /\ pool \subseteq Transactions
    /\ poolState \subseteq OneTimeKeys
    /\ recentlyDeleted \subseteq Transactions
    /\ job \in [Threads -> Jobs]
    /\ missing \in BOOLEAN

\* The key images the pool refuses, kept incrementally by mergeStates and
\* excludeFromState, are exactly those of the transactions in it: none stays
\* behind to lock its output out of the pool for good, none is freed too early.
PoolStateIsExact == poolState = KeyImagesOf(pool)

\* No two transactions of the pool spend the same output, whichever threads and
\* chain switches put them there: a template can take any of them together.
PoolHasNoConflicts ==
    \A t, u \in pool : t # u => KeyImages[t] \cap KeyImages[u] = {}

\* A transaction is where it should be after a switch, or there is a reason:
\* the cleaner deleted it, it is not valid on the new main chain, or one that
\* spends the same output is in the pool.
IsAccountedFor(t) ==
    \/ t \in pool
    \/ t \in recentlyDeleted
    \/ ~IsValidOn(t, tip)
    \/ KeyImages[t] \cap poolState # {}

\* When the dispatcher ends addBlock after a chain switch, every transaction of
\* the chain left is accounted for, whatever other threads have pushed since.
SwitchReturnsTransactions ==
    [][FinishAddBlock(Dispatcher) =>
        \A t \in job[Dispatcher].back : IsAccountedFor(t)]_vars

\* No two threads are in addBlock, and the one that copies transactions back
\* has accounted for those it is done with.
CopyIsComplete ==
    /\ \A th, other \in Threads :
          (job[th].op \in {"check", "copy"} /\ job[other].op \in {"check", "copy"})
              => th = other
    /\ job[Dispatcher].op = "copy" =>
          \A t \in job[Dispatcher].back \ job[Dispatcher].left : IsAccountedFor(t)

\* Outside addBlock no transaction of the pool spends what the main chain has
\* spent: checkAndRemoveInvalidPoolTransactions is there for that.
PoolIsUnspent ==
    ~AddingBlock =>
        KeyImagesOf(pool) \cap KeyImagesOf(TransactionsIn(ChainTo[tip])) = {}

\* checkAndRemoveInvalidPoolTransactions removes what a block has invalidated,
\* and no transaction that addTransactionToPool would accept as it stands.
OnlyInvalidatedAreRemoved ==
    [][\A th \in Threads, t \in Transactions :
        (CheckPoolTransaction(th, t) /\ t \in pool \ pool') => ~IsValidOn(t, tip)]_vars
=============================================================================
