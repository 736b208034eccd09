----------------------- MODULE TransactionPoolProofs -----------------------
(***************************************************************************)
(* What the pool promises, for every set of transactions, blocks and       *)
(* threads: its two invariants first, then what a switch returns, then     *)
(* what a new block removes.                                               *)
(* The two invariants need each other: a transaction may be taken out of   *)
(* poolState by its own key images alone only because no other transaction *)
(* of the pool shares one, and it is kept out of conflicts only because    *)
(* poolState is exact.                                                     *)
(***************************************************************************)
EXTENDS TransactionPool, TLAPS

PoolIsSound == PoolStateIsExact /\ PoolHasNoConflicts

\* TransactionPool::pushTransaction keeps the pool sound.
LEMMA PushIsSound ==
    ASSUME PoolTypeOK, PoolIsSound,
           NEW t \in Transactions, MayPush(t), PushTransaction(t)
    PROVE  PoolIsSound' /\ pool' \subseteq Transactions /\ poolState' \subseteq OneTimeKeys
  <1>1. pool' \subseteq Transactions /\ poolState' \subseteq OneTimeKeys
    BY PoolAssumption, Zenon DEF PoolTypeOK, PushTransaction
  <1>2. PoolStateIsExact'
    BY Zenon DEF PoolIsSound, PoolStateIsExact, KeyImagesOf, PushTransaction
  <1>3. \A u \in pool : KeyImages[u] \subseteq poolState
    BY Zenon DEF PoolIsSound, PoolStateIsExact, KeyImagesOf
  <1>4. PoolHasNoConflicts'
    BY <1>3, Zenon DEF PoolIsSound, PoolHasNoConflicts, MayPush, PushTransaction
  <1> QED BY <1>1, <1>2, <1>4, Zenon DEF PoolIsSound

\* TransactionPool::removeTransaction keeps the pool sound: excludeFromState
\* erases no key image that another transaction of the pool still needs.
LEMMA RemoveIsSound ==
    ASSUME PoolTypeOK, PoolIsSound, NEW t \in Transactions, RemoveTransaction(t)
    PROVE  PoolIsSound' /\ pool' \subseteq Transactions /\ poolState' \subseteq OneTimeKeys
  <1>1. pool' \subseteq Transactions /\ poolState' \subseteq OneTimeKeys
    BY Zenon DEF PoolTypeOK, RemoveTransaction
  <1>2. PoolHasNoConflicts'
    BY Zenon DEF PoolIsSound, PoolHasNoConflicts, RemoveTransaction
  <1>3. CASE t \notin pool
    <2>1. pool' = pool /\ poolState' = poolState
      BY <1>3, Zenon DEF RemoveTransaction
    <2> QED BY <1>1, <1>2, <2>1, Zenon DEF PoolIsSound, PoolStateIsExact
  <1>4. CASE t \in pool
    <2>1. ASSUME NEW k
          PROVE  k \in poolState' <=> \E u \in pool' : k \in KeyImages[u]
      <3>1. k \in poolState <=> \E u \in pool : k \in KeyImages[u]
        BY Zenon DEF PoolIsSound, PoolStateIsExact, KeyImagesOf
      <3>2. \A u \in pool \ {t} : KeyImages[u] \cap KeyImages[t] = {}
        BY <1>4, Zenon DEF PoolIsSound, PoolHasNoConflicts
      <3> QED BY <1>4, <3>1, <3>2, Zenon DEF RemoveTransaction
    <2>2. PoolStateIsExact'
      BY <2>1, Zenon DEF PoolStateIsExact, KeyImagesOf
    <2> QED BY <1>1, <1>2, <2>2, Zenon DEF PoolIsSound
  <1> QED BY <1>3, <1>4, Zenon

\* What the two lemmas do not touch: a step that leaves the pool alone.
LEMMA SamePoolIsSound ==
    ASSUME PoolTypeOK, PoolIsSound, UNCHANGED <<pool, poolState>>
    PROVE  PoolIsSound' /\ pool' \subseteq Transactions /\ poolState' \subseteq OneTimeKeys
  BY Zenon DEF PoolTypeOK, PoolIsSound, PoolStateIsExact, PoolHasNoConflicts, KeyImagesOf

\* A job built from its parts is a job.
LEMMA JobType ==
    ASSUME NEW op \in {"idle", "push", "submit", "check", "copy", "clean"},
           NEW at \in Blocks,
           NEW left \in SUBSET Transactions, NEW back \in SUBSET Transactions
    PROVE  Job(op, at, left, back) \in Jobs
  BY Zenon DEF Job, Jobs

\* Giving one thread another job, or one transaction less to treat.
LEMMA SetJobType ==
    ASSUME job \in [Threads -> Jobs], NEW th \in Threads, NEW j \in Jobs, SetJob(th, j)
    PROVE  job' \in [Threads -> Jobs]
  BY Zenon DEF SetJob

\* Treating a transaction only shrinks what the job has left.
LEMMA TreatedType ==
    ASSUME job \in [Threads -> Jobs], NEW th \in Threads, NEW t, Treated(th, t)
    PROVE  job' \in [Threads -> Jobs]
  <1>1. job[th] \in Jobs
    BY Zenon
  <1>2. [job[th] EXCEPT !.left = @ \ {t}] \in Jobs
    BY <1>1, Zenon DEF Jobs
  <1> QED BY <1>2, Zenon DEF Treated, SetJob

\* The job of a thread outside Core.
LEMMA IdleType == Idle \in Jobs
  BY TreeAssumption, JobType, Zenon DEF Idle

\* What a step must keep of the chain and of the flags.
ChainTypeOK == up \in BOOLEAN /\ known \subseteq Blocks /\ tip \in Blocks

\* Storing a block and stopping keep the type of the chain.
LEMMA ChainType ==
    ASSUME ChainTypeOK,
           \/ \E b \in Blocks \ {Genesis} : Receive(b)
           \/ Shutdown
           \/ Lose
           \/ Boot
           \/ UNCHANGED forkVars
    PROVE  ChainTypeOK'
  <1>1. \A b \in Blocks : ChainTo[b] \subseteq Blocks
    BY TreeAssumption, Zenon
  <1> QED BY <1>1, Zenon DEF ChainTypeOK, Receive, Shutdown, Lose, Boot, forkVars

\* The invariant of the theorems.
PoolInvariant == PoolTypeOK /\ PoolIsSound

\* PoolTypeOK from its parts.
LEMMA TypeFromParts ==
    ASSUME ChainTypeOK', pool' \subseteq Transactions, poolState' \subseteq OneTimeKeys,
           recentlyDeleted' \subseteq Transactions, job' \in [Threads -> Jobs],
           missing' \in BOOLEAN
    PROVE  PoolTypeOK'
  BY Zenon DEF PoolTypeOK, ChainTypeOK

\* The steps of addTransactionToPool, submitBlock and the cleaner.
LEMMA OtherStep ==
    ASSUME PoolInvariant,
           NEW th \in Threads, NEW t, NEW b,
           \/ /\ t \in Transactions
              /\ \/ AddTransaction(th, t) \/ FinishAddTransaction(th, t)
                 \/ KeepTransaction(t) \/ DeleteInvalidTransaction(t)
                 \/ DeleteExpiredTransaction(t) \/ CleanMissesTransaction(t)
           \/ b \in Blocks /\ SubmitBlock(th, b)
           \/ GetTransactions(th)
           \/ StartCleaning
           \/ FinishCleaning
    PROVE  PoolInvariant'
  <1> USE DEF PoolInvariant
  <1>1. ChainTypeOK' /\ Dispatcher \in Threads /\ job \in [Threads -> Jobs]
    <2>1. UNCHANGED forkVars
      BY Zenon DEF AddTransaction, FinishAddTransaction, SubmitBlock, GetTransactions,
         StartCleaning, KeepTransaction, DeleteInvalidTransaction,
         DeleteExpiredTransaction, CleanMissesTransaction, FinishCleaning
    <2> QED BY <2>1, ChainType, PoolAssumption, Zenon DEF PoolTypeOK, ChainTypeOK
  <1>2. CASE t \in Transactions /\ AddTransaction(th, t)
    <2>1. Job("push", Genesis, {t}, {}) \in Jobs
      BY <1>2, TreeAssumption, JobType, Zenon
    <2> QED BY <1>1, <1>2, <2>1, SetJobType, SamePoolIsSound, TypeFromParts, Zenon DEF
               AddTransaction, PoolTypeOK
  <1>3. CASE t \in Transactions /\ FinishAddTransaction(th, t)
    <2>1. PoolIsSound' /\ pool' \subseteq Transactions /\ poolState' \subseteq OneTimeKeys
      BY <1>3, PushIsSound, SamePoolIsSound, Zenon DEF FinishAddTransaction
    <2>2. job' \in [Threads -> Jobs]
      BY <1>1, <1>3, IdleType, SetJobType, Zenon DEF FinishAddTransaction
    <2> QED BY <1>1, <1>3, <2>1, <2>2, TypeFromParts, Zenon DEF FinishAddTransaction,
               PoolTypeOK
  <1>4. CASE b \in Blocks /\ SubmitBlock(th, b)
    <2>1. Job("submit", b, TransactionsOf[b], {}) \in Jobs
      BY <1>4, PoolAssumption, JobType, Zenon
    <2> QED BY <1>1, <1>4, <2>1, SetJobType, SamePoolIsSound, TypeFromParts, Zenon DEF
               SubmitBlock, PoolTypeOK
  <1>5. CASE GetTransactions(th)
    BY <1>1, <1>5, IdleType, SetJobType, SamePoolIsSound, TypeFromParts, Zenon DEF
       GetTransactions, PoolTypeOK
  <1>6. CASE StartCleaning
    <2>1. Job("clean", tip, pool, {}) \in Jobs
      BY JobType, Zenon DEF PoolTypeOK
    <2> QED BY <1>1, <1>6, <2>1, SetJobType, SamePoolIsSound, TypeFromParts, Zenon DEF
               StartCleaning, PoolTypeOK
  <1>7. CASE t \in Transactions /\ KeepTransaction(t)
    BY <1>1, <1>7, TreatedType, SamePoolIsSound, TypeFromParts, Zenon DEF KeepTransaction,
       PoolTypeOK
  <1>8. CASE t \in Transactions /\ DeleteInvalidTransaction(t)
    BY <1>1, <1>8, TreatedType, RemoveIsSound, TypeFromParts, Zenon DEF
       DeleteInvalidTransaction, PoolTypeOK
  <1>9. CASE t \in Transactions /\ DeleteExpiredTransaction(t)
    BY <1>1, <1>9, TreatedType, RemoveIsSound, TypeFromParts, Zenon DEF
       DeleteExpiredTransaction, PoolTypeOK
  <1>10. CASE t \in Transactions /\ CleanMissesTransaction(t)
    BY <1>1, <1>10, SamePoolIsSound, TypeFromParts, Zenon DEF CleanMissesTransaction,
       PoolTypeOK
  <1>11. CASE FinishCleaning
    BY <1>1, <1>11, IdleType, SetJobType, SamePoolIsSound, TypeFromParts, Zenon DEF
       FinishCleaning, PoolTypeOK
  <1> QED BY <1>2, <1>3, <1>4, <1>5, <1>6, <1>7, <1>8, <1>9, <1>10, <1>11, Zenon

\* The steps of addBlock.
LEMMA AddBlockStep ==
    ASSUME PoolInvariant,
           NEW th \in Threads, NEW t, NEW b,
           \/ b \in Blocks \ {Genesis} /\ AddBlock(th, b)
           \/ /\ t \in Transactions
              /\ \/ RejectBlock(th, b, t)
                 \/ CheckPoolTransaction(th, t)
                 \/ CopyTransaction(th, t)
           \/ FinishCheck(th)
           \/ FinishAddBlock(th)
    PROVE  PoolInvariant'
  <1> USE DEF PoolInvariant
  <1>1. ChainTypeOK' /\ job \in [Threads -> Jobs]
    <2>1. (b \in Blocks \ {Genesis} /\ Receive(b)) \/ UNCHANGED forkVars
      BY Zenon DEF AddBlock, RejectBlock, CheckPoolTransaction, FinishCheck,
         CopyTransaction, FinishAddBlock
    <2> QED BY <2>1, ChainType, Zenon DEF PoolTypeOK, ChainTypeOK
  <1>2. CASE b \in Blocks \ {Genesis} /\ AddBlock(th, b)
    <2>1. TransactionsIn(ChainTo[tip] \ ChainTo[b]) \subseteq Transactions
      BY PoolAssumption, TreeAssumption DEF TransactionsIn, PoolTypeOK
    <2>2. Job("check", b, pool, TransactionsIn(ChainTo[tip] \ ChainTo[b])) \in Jobs
      BY <1>2, <2>1, JobType, Zenon DEF PoolTypeOK
    <2>3. job' \in [Threads -> Jobs]
      BY <1>1, <1>2, <2>2, SetJobType, Zenon DEF AddBlock
    <2> QED BY <1>1, <1>2, <2>3, SamePoolIsSound, TypeFromParts, Zenon DEF AddBlock, PoolTypeOK
  <1>3. CASE t \in Transactions /\ RejectBlock(th, b, t)
    BY <1>1, <1>3, RemoveIsSound, TypeFromParts, Zenon DEF RejectBlock, PoolTypeOK
  <1>4. CASE t \in Transactions /\ CheckPoolTransaction(th, t)
    <2>1. PoolIsSound' /\ pool' \subseteq Transactions /\ poolState' \subseteq OneTimeKeys
      BY <1>4, RemoveIsSound, SamePoolIsSound, Zenon DEF CheckPoolTransaction
    <2> QED BY <1>1, <1>4, <2>1, TreatedType, TypeFromParts, Zenon DEF
               CheckPoolTransaction, PoolTypeOK
  <1>5. CASE FinishCheck(th)
    <2>1. Job("copy", job[th].at, job[th].back, job[th].back) \in Jobs
      <3>1. job[th] \in Jobs
        BY <1>1, Zenon
      <3>2. job[th].at \in Blocks /\ job[th].back \in SUBSET Transactions
        BY <3>1, Zenon DEF Jobs
      <3> QED BY <3>2, JobType, Zenon
    <2> QED BY <1>1, <1>5, <2>1, SetJobType, SamePoolIsSound, TypeFromParts, Zenon DEF
               FinishCheck, PoolTypeOK
  <1>6. CASE t \in Transactions /\ CopyTransaction(th, t)
    <2>1. PoolIsSound' /\ pool' \subseteq Transactions /\ poolState' \subseteq OneTimeKeys
      BY <1>6, PushIsSound, SamePoolIsSound, Zenon DEF CopyTransaction
    <2> QED BY <1>1, <1>6, <2>1, TreatedType, TypeFromParts, Zenon DEF CopyTransaction,
               PoolTypeOK
  <1>7. CASE FinishAddBlock(th)
    BY <1>1, <1>7, IdleType, SetJobType, SamePoolIsSound, TypeFromParts, Zenon DEF
       FinishAddBlock, PoolTypeOK
  <1> QED BY <1>2, <1>3, <1>4, <1>5, <1>6, <1>7, Zenon

\* A process that ends takes the pool with it.
LEMMA EndStep ==
    ASSUME PoolInvariant, Stop \/ Crash \/ Start
    PROVE  PoolInvariant'
  <1> USE DEF PoolInvariant
  <1>1. ChainTypeOK'
    BY ChainType, Zenon DEF Stop, Crash, Start, PoolTypeOK, ChainTypeOK
  <1>2. CASE PoolIsEmpty
    <2>1. job' \in [Threads -> Jobs]
      BY <1>2, IdleType, Zenon DEF PoolIsEmpty
    <2>2. PoolIsSound'
      BY <1>2, Zenon DEF PoolIsEmpty, PoolIsSound, PoolStateIsExact, PoolHasNoConflicts,
         KeyImagesOf
    <2> QED BY <1>1, <1>2, <2>1, <2>2, TypeFromParts, Zenon DEF PoolIsEmpty
  <1>3. CASE UNCHANGED poolVars
    BY <1>1, <1>3, SamePoolIsSound, TypeFromParts, Zenon DEF poolVars, PoolTypeOK
  <1> QED BY <1>2, <1>3, Zenon DEF Stop, Crash, Start

\* The invariant holds at the first start.
LEMMA InitIsSound == PoolInit => PoolInvariant
  <1> SUFFICES ASSUME PoolInit PROVE PoolInvariant
    BY Zenon
  <1>1. PoolTypeOK
    BY TreeAssumption, IdleType, Zenon DEF PoolInit, Init, PoolTypeOK
  <1>2. PoolIsSound
    BY Zenon DEF PoolInit, PoolIsSound, PoolStateIsExact, PoolHasNoConflicts, KeyImagesOf
  <1> QED BY <1>1, <1>2, Zenon DEF PoolInvariant

\* Every step of every thread keeps it.
LEMMA NextIsSound == PoolInvariant /\ [PoolNext]_vars => PoolInvariant'
  <1> SUFFICES ASSUME PoolInvariant, [PoolNext]_vars PROVE PoolInvariant'
    BY Zenon
  <1>1. CASE UNCHANGED vars
    BY <1>1, SamePoolIsSound, Zenon DEF vars, forkVars, poolVars, PoolInvariant, PoolTypeOK
  <1>2. CASE PoolNext
    BY <1>2, OtherStep, AddBlockStep, EndStep, TreeAssumption, PoolAssumption, Zenon DEF PoolNext
  <1> QED BY <1>1, <1>2, Zenon

\* For any transactions, blocks and threads, in every reachable state of the
\* daemon: types are kept, the pool's set of spent key images is exactly that
\* of its transactions, and no two of them conflict.
THEOREM PoolStaysSound == PoolSpec => [](PoolTypeOK /\ PoolIsSound)
  BY InitIsSound, NextIsSound, PTL DEF PoolSpec, PoolInvariant

\* Every variable keeps its type, for any constants.
THEOREM PoolTypeCorrect == PoolSpec => []PoolTypeOK
  BY PoolStaysSound, PTL

\* mergeStates and excludeFromState keep the pool's key images exact, in any
\* interleaving of pushes, removals, blocks, switches and cleaning.
THEOREM PoolStateStaysExact == PoolSpec => []PoolStateIsExact
  BY PoolStaysSound, PTL DEF PoolIsSound

\* No two transactions of the pool ever spend the same output.
THEOREM PoolStaysConflictFree == PoolSpec => []PoolHasNoConflicts
  BY PoolStaysSound, PTL DEF PoolIsSound
-----------------------------------------------------------------------------
(***************************************************************************)
(* A chain switch loses no transaction.  While the dispatcher copies the   *)
(* transactions of the chain it has left, no other thread is in addBlock   *)
(* and the cleaner, which is the dispatcher's own, does not run: the chain *)
(* stays and the pool only grows, so that what has been accounted for once *)
(* stays accounted for.                                                    *)
(***************************************************************************)

IsAdding(th) == job[th].op \in {"check", "copy"}

\* No two threads are in addBlock.
OneAdder == \A th, other \in Threads : IsAdding(th) /\ IsAdding(other) => th = other

\* A step gives at most one thread another job.
LEMMA OneJobChanges ==
    ASSUME job \in [Threads -> Jobs], NEW th \in Threads, NEW j, SetJob(th, j)
    PROVE  job'[th] = j /\ \A other \in Threads \ {th} : job'[other] = job[other]
  BY Zenon DEF SetJob

\* The operation a thread is in after a step that treats a transaction.
LEMMA TreatedKeepsOp ==
    ASSUME job \in [Threads -> Jobs], NEW th \in Threads, NEW t, Treated(th, t)
    PROVE  /\ job'[th].op = job[th].op
           /\ job'[th].at = job[th].at
           /\ job'[th].back = job[th].back
           /\ job'[th].left = job[th].left \ {t}
           /\ \A other \in Threads \ {th} : job'[other] = job[other]
  <1>1. job[th] \in Jobs
    BY Zenon
  <1>2. job'[th] = [job[th] EXCEPT !.left = @ \ {t}]
    BY OneJobChanges, Zenon DEF Treated
  <1>3. \A other \in Threads \ {th} : job'[other] = job[other]
    BY OneJobChanges, Zenon DEF Treated
  <1> QED BY <1>1, <1>2, <1>3, Zenon DEF Jobs

\* The parts of a job.
LEMMA OpOfJob ==
    ASSUME NEW op, NEW at, NEW left, NEW back
    PROVE  /\ Job(op, at, left, back).op = op
           /\ Job(op, at, left, back).at = at
           /\ Job(op, at, left, back).left = left
           /\ Job(op, at, left, back).back = back
  BY Zenon DEF Job

\* addBlock begins only when no thread is in it, and no step else enters it.
LEMMA OneAdderStep ==
    ASSUME PoolTypeOK, OneAdder, [PoolNext]_vars
    PROVE  OneAdder'
  <1> job \in [Threads -> Jobs] /\ Dispatcher \in Threads
    BY PoolAssumption, Zenon DEF PoolTypeOK
  <1>1. ASSUME NEW th \in Threads, NEW j, SetJob(th, j),
               j.op \in {"check", "copy"} => IsAdding(th) \/ ~AddingBlock
        PROVE  OneAdder'
    <2>1. job'[th] = j /\ \A other \in Threads \ {th} : job'[other] = job[other]
      BY <1>1, OneJobChanges, Zenon
    <2> QED BY <1>1, <2>1, Zenon DEF OneAdder, IsAdding, AddingBlock
  <1>2. ASSUME NEW th \in Threads, NEW t, Treated(th, t)
        PROVE  OneAdder'
    BY <1>2, TreatedKeepsOp DEF OneAdder, IsAdding
  <1>3. ASSUME UNCHANGED job
        PROVE  OneAdder'
    BY <1>3, Zenon DEF OneAdder, IsAdding
  <1>4. Idle.op = "idle"
    BY OpOfJob DEF Idle
  <1>5. ASSUME NEW th \in Threads, NEW t \in Transactions,
               \/ AddTransaction(th, t) \/ FinishAddTransaction(th, t)
               \/ CheckPoolTransaction(th, t) \/ CopyTransaction(th, t)
        PROVE  OneAdder'
    <2>1. CASE AddTransaction(th, t)
      BY <1>1, <2>1, OpOfJob DEF AddTransaction
    <2>2. CASE FinishAddTransaction(th, t)
      BY <1>1, <1>4, <2>2, Zenon DEF FinishAddTransaction
    <2>3. CASE CheckPoolTransaction(th, t)
      BY <1>2, <2>3, Zenon DEF CheckPoolTransaction
    <2>4. CASE CopyTransaction(th, t)
      BY <1>2, <2>4, Zenon DEF CopyTransaction
    <2> QED BY <1>5, <2>1, <2>2, <2>3, <2>4, Zenon
  <1>6. ASSUME NEW th \in Threads, NEW b \in Blocks \ {Genesis}, AddBlock(th, b)
        PROVE  OneAdder'
    BY <1>1, <1>3, <1>6, Zenon DEF AddBlock
  <1>7. ASSUME NEW th \in Threads, NEW b \in Blocks \ {Genesis},
               SubmitBlock(th, b) \/ \E t \in Transactions : RejectBlock(th, b, t)
        PROVE  OneAdder'
    BY <1>1, <1>3, <1>7, OpOfJob, Zenon DEF SubmitBlock, RejectBlock
  <1>8. ASSUME NEW th \in Threads, FinishCheck(th) \/ FinishAddBlock(th) \/ GetTransactions(th)
        PROVE  OneAdder'
    BY <1>1, <1>4, <1>8, Zenon DEF FinishCheck, FinishAddBlock, GetTransactions, IsAdding
  <1>9. ASSUME StartCleaning \/ FinishCleaning
        PROVE  OneAdder'
    BY <1>1, <1>4, <1>9, OpOfJob DEF StartCleaning, FinishCleaning
  <1>10. ASSUME NEW t \in Transactions,
                \/ KeepTransaction(t) \/ DeleteInvalidTransaction(t)
                \/ DeleteExpiredTransaction(t) \/ CleanMissesTransaction(t)
         PROVE  OneAdder'
    BY <1>2, <1>3, <1>10, Zenon DEF KeepTransaction, DeleteInvalidTransaction,
       DeleteExpiredTransaction, CleanMissesTransaction
  <1>11. ASSUME Stop \/ Crash
         PROVE  OneAdder'
    BY <1>4, <1>11, Zenon DEF Stop, Crash, PoolIsEmpty, OneAdder, IsAdding
  <1>12. ASSUME Start \/ UNCHANGED vars
         PROVE  OneAdder'
    BY <1>3, <1>12, Zenon DEF Start, vars, poolVars
  <1> QED BY <1>5, <1>6, <1>7, <1>8, <1>9, <1>10, <1>11, <1>12, Zenon DEF PoolNext

\* The chain stays and the pool only grows.
PoolGrows ==
    /\ tip' = tip
    /\ pool \subseteq pool'
    /\ poolState \subseteq poolState'
    /\ recentlyDeleted \subseteq recentlyDeleted'

\* What is accounted for stays accounted for while the pool only grows.
LEMMA AccountedForStays ==
    ASSUME PoolGrows, NEW t, IsAccountedFor(t)
    PROVE  IsAccountedFor(t)'
  BY Zenon DEF PoolGrows, IsAccountedFor, IsValidOn

\* One step of copyTransactionsToPool accounts for its transaction.
LEMMA CopyAccounts ==
    ASSUME NEW th \in Threads, NEW t, CopyTransaction(th, t)
    PROVE  PoolGrows /\ IsAccountedFor(t)'
  <1>1. PoolGrows
    BY Zenon DEF CopyTransaction, PushTransaction, PoolGrows, forkVars
  <1>2. CASE IsValidOn(t, tip) /\ MayPush(t)
    BY <1>1, <1>2, Zenon DEF CopyTransaction, PushTransaction, IsAccountedFor
  <1>3. CASE ~(IsValidOn(t, tip) /\ MayPush(t))
    <2>1. IsAccountedFor(t)
      BY <1>3, Zenon DEF IsAccountedFor, MayPush
    <2> QED BY <1>1, <2>1, AccountedForStays, Zenon
  <1> QED BY <1>1, <1>2, <1>3, Zenon

\* While the dispatcher copies, every step either is one of its own or leaves
\* its job alone; either way the pool only grows.
LEMMA CopyingPoolGrows ==
    ASSUME PoolTypeOK, OneAdder, [PoolNext]_vars,
           job[Dispatcher].op = "copy", job'[Dispatcher].op = "copy"
    PROVE  \/ \E t \in Transactions : CopyTransaction(Dispatcher, t)
           \/ PoolGrows /\ job'[Dispatcher] = job[Dispatcher]
  <1> job \in [Threads -> Jobs] /\ Dispatcher \in Threads
    BY PoolAssumption, Zenon DEF PoolTypeOK
  <1> DEFINE Goal == \/ \E t \in Transactions : CopyTransaction(Dispatcher, t)
                     \/ PoolGrows /\ job'[Dispatcher] = job[Dispatcher]
  <1>1. Idle.op = "idle" /\ job[Dispatcher] # Idle /\ AddingBlock
    BY OpOfJob DEF Idle, AddingBlock
  <1>2. \A th \in Threads : IsAdding(th) => th = Dispatcher
    BY Zenon DEF OneAdder, IsAdding
  <1>3. ASSUME NEW th \in Threads, NEW t \in Transactions, AddTransaction(th, t)
        PROVE  Goal
    <2>1. th # Dispatcher
      BY <1>1, <1>3, Zenon DEF AddTransaction, IsFree
    <2> QED BY <1>3, <2>1, OneJobChanges, Zenon DEF AddTransaction, PoolGrows, forkVars
  <1>4. ASSUME NEW th \in Threads, NEW t \in Transactions, FinishAddTransaction(th, t)
        PROVE  Goal
    <2>1. th # Dispatcher
      BY <1>4, Zenon DEF FinishAddTransaction
    <2>2. PoolGrows
      BY <1>4, Zenon DEF FinishAddTransaction, PushTransaction, PoolGrows, forkVars
    <2> QED BY <1>4, <2>1, <2>2, OneJobChanges, Zenon DEF FinishAddTransaction
  <1>5. ASSUME NEW th \in Threads, NEW t \in Transactions,
               CheckPoolTransaction(th, t) \/ CopyTransaction(th, t)
        PROVE  Goal
    BY <1>2, <1>5, Zenon DEF CheckPoolTransaction, CopyTransaction, IsAdding
  <1>6. ASSUME NEW th \in Threads, NEW b \in Blocks,
               AddBlock(th, b) \/ \E t \in Transactions : RejectBlock(th, b, t)
        PROVE  Goal
    BY <1>1, <1>6, Zenon DEF AddBlock, RejectBlock
  <1>7. ASSUME NEW th \in Threads, NEW b \in Blocks, SubmitBlock(th, b)
        PROVE  Goal
    <2>1. th # Dispatcher
      BY <1>1, <1>7, Zenon DEF SubmitBlock, IsFree
    <2> QED BY <1>7, <2>1, OneJobChanges, Zenon DEF SubmitBlock, PoolGrows, forkVars
  <1>8. ASSUME NEW th \in Threads, GetTransactions(th)
        PROVE  Goal
    <2>1. th # Dispatcher
      BY <1>8, Zenon DEF GetTransactions
    <2> QED BY <1>8, <2>1, OneJobChanges, Zenon DEF GetTransactions, PoolGrows, forkVars
  <1>9. ASSUME NEW th \in Threads, FinishCheck(th) \/ FinishAddBlock(th)
        PROVE  Goal
    <2>1. th = Dispatcher /\ FinishAddBlock(th)
      BY <1>2, <1>9, Zenon DEF FinishCheck, FinishAddBlock, IsAdding
    <2> QED BY <1>1, <2>1, OneJobChanges, Zenon DEF FinishAddBlock
  <1>10. ~StartCleaning /\ ~FinishCleaning /\ ~Stop
    BY <1>1, Zenon DEF StartCleaning, FinishCleaning, Stop, IsFree
  <1>11. \A t : ~CleanJob(t)
    BY Zenon DEF CleanJob
  <1>12. \A t : /\ ~KeepTransaction(t) /\ ~DeleteInvalidTransaction(t)
                /\ ~DeleteExpiredTransaction(t) /\ ~CleanMissesTransaction(t)
    BY <1>11, Zenon DEF KeepTransaction, DeleteInvalidTransaction,
       DeleteExpiredTransaction, CleanMissesTransaction
  <1>13. ~Crash
    BY <1>1, Zenon DEF Crash, PoolIsEmpty
  <1>14. ASSUME Start \/ UNCHANGED vars
         PROVE  Goal
    BY <1>14, Zenon DEF Start, Boot, vars, poolVars, forkVars, PoolGrows
  <1> HIDE DEF Goal
  <1>15. Goal
    BY <1>3, <1>4, <1>5, <1>6, <1>7, <1>8, <1>9, <1>10, <1>12, <1>13, <1>14, Zenon DEF PoolNext
  <1> QED BY <1>15, Zenon DEF Goal

\* The dispatcher begins to copy with all the transactions before it.
LEMMA CopyBegins ==
    ASSUME PoolTypeOK, [PoolNext]_vars,
           job[Dispatcher].op # "copy", job'[Dispatcher].op = "copy"
    PROVE  job'[Dispatcher].left = job'[Dispatcher].back
  <1> job \in [Threads -> Jobs] /\ Dispatcher \in Threads
    BY PoolAssumption, Zenon DEF PoolTypeOK
  <1> DEFINE Goal == job'[Dispatcher].left = job'[Dispatcher].back
  <1>1. ASSUME NEW th \in Threads, NEW j, SetJob(th, j), j.op # "copy"
        PROVE  FALSE
    <2>1. job'[th] = j /\ \A other \in Threads \ {th} : job'[other] = job[other]
      BY <1>1, OneJobChanges, Zenon
    <2> QED BY <1>1, <2>1, Zenon
  <1>2. ASSUME NEW th \in Threads, NEW t, Treated(th, t)
        PROVE  FALSE
    <2>1. /\ job'[th].op = job[th].op
          /\ \A other \in Threads \ {th} : job'[other] = job[other]
      BY <1>2, TreatedKeepsOp, Zenon
    <2> QED BY <2>1, Zenon
  <1>3. Idle.op = "idle"
    BY OpOfJob DEF Idle
  <1>4. ASSUME NEW th \in Threads, NEW t \in Transactions,
               \/ AddTransaction(th, t) \/ FinishAddTransaction(th, t)
               \/ CheckPoolTransaction(th, t) \/ CopyTransaction(th, t)
        PROVE  FALSE
    <2>1. CASE AddTransaction(th, t)
      BY <1>1, <2>1, OpOfJob DEF AddTransaction
    <2>2. CASE FinishAddTransaction(th, t)
      BY <1>1, <1>3, <2>2, Zenon DEF FinishAddTransaction
    <2>3. CASE CheckPoolTransaction(th, t)
      BY <1>2, <2>3, Zenon DEF CheckPoolTransaction
    <2>4. CASE CopyTransaction(th, t)
      BY <1>2, <2>4, Zenon DEF CopyTransaction
    <2> QED BY <1>4, <2>1, <2>2, <2>3, <2>4, Zenon
  <1>5. ASSUME NEW th \in Threads, NEW b \in Blocks,
               \/ AddBlock(th, b) \/ SubmitBlock(th, b)
               \/ \E t \in Transactions : RejectBlock(th, b, t)
        PROVE  FALSE
    <2>1. CASE AddBlock(th, b)
      <3>1. CASE UNCHANGED job
        BY <3>1, Zenon
      <3>2. CASE ~UNCHANGED job
        BY <1>1, <2>1, <3>2, OpOfJob DEF AddBlock
      <3> QED BY <3>1, <3>2, Zenon
    <2>2. CASE SubmitBlock(th, b)
      BY <1>1, <2>2, OpOfJob DEF SubmitBlock
    <2>3. CASE \E t \in Transactions : RejectBlock(th, b, t)
      BY <2>3, Zenon DEF RejectBlock
    <2> QED BY <1>5, <2>1, <2>2, <2>3, Zenon
  <1>6. ASSUME NEW th \in Threads, FinishAddBlock(th) \/ GetTransactions(th)
        PROVE  FALSE
    BY <1>1, <1>3, <1>6, Zenon DEF FinishAddBlock, GetTransactions
  <1>7. ASSUME NEW th \in Threads, FinishCheck(th)
        PROVE  Goal
    <2>1. CASE th = Dispatcher
      BY <1>7, <2>1, OneJobChanges, OpOfJob DEF FinishCheck
    <2>2. CASE th # Dispatcher
      BY <1>7, <2>2, OneJobChanges DEF FinishCheck
    <2> QED BY <2>1, <2>2, Zenon
  <1>8. ASSUME StartCleaning \/ FinishCleaning
        PROVE  FALSE
    BY <1>1, <1>3, <1>8, OpOfJob DEF StartCleaning, FinishCleaning
  <1>9. ASSUME NEW t \in Transactions,
               \/ KeepTransaction(t) \/ DeleteInvalidTransaction(t)
               \/ DeleteExpiredTransaction(t) \/ CleanMissesTransaction(t)
        PROVE  FALSE
    BY <1>2, <1>9, Zenon DEF KeepTransaction, DeleteInvalidTransaction,
       DeleteExpiredTransaction, CleanMissesTransaction
  <1>10. ~Stop /\ ~Crash
    BY <1>3, Zenon DEF Stop, Crash, PoolIsEmpty
  <1>11. ~Start /\ ~UNCHANGED vars
    BY Zenon DEF Start, vars, poolVars
  <1> HIDE DEF Goal
  <1>12. Goal
    BY <1>4, <1>5, <1>6, <1>7, <1>8, <1>9, <1>10, <1>11, Zenon DEF PoolNext
  <1> QED BY <1>12, Zenon DEF Goal

\* Every step keeps the account of the copied transactions.
LEMMA CopyStaysComplete ==
    ASSUME PoolTypeOK, CopyIsComplete, [PoolNext]_vars
    PROVE  CopyIsComplete'
  <1> job \in [Threads -> Jobs] /\ Dispatcher \in Threads
    BY PoolAssumption, Zenon DEF PoolTypeOK
  <1>1. OneAdder
    BY Zenon DEF CopyIsComplete, OneAdder, IsAdding
  <1>2. OneAdder'
    BY <1>1, OneAdderStep, Zenon
  <1>3. ASSUME job'[Dispatcher].op = "copy",
               NEW t \in job'[Dispatcher].back \ job'[Dispatcher].left
        PROVE  IsAccountedFor(t)'
    <2>1. job[Dispatcher].op = "copy"
      BY <1>3, CopyBegins, Zenon
    <2>2. \A u \in job[Dispatcher].back \ job[Dispatcher].left : IsAccountedFor(u)
      BY <2>1, Zenon DEF CopyIsComplete
    <2>3. CASE PoolGrows /\ job'[Dispatcher] = job[Dispatcher]
      BY <1>3, <2>2, <2>3, AccountedForStays, Zenon
    <2>4. ASSUME NEW u \in Transactions, CopyTransaction(Dispatcher, u)
          PROVE  IsAccountedFor(t)'
      <3>1. PoolGrows /\ IsAccountedFor(u)'
        BY <2>4, CopyAccounts, Zenon
      <3>2. /\ job'[Dispatcher].back = job[Dispatcher].back
            /\ job'[Dispatcher].left = job[Dispatcher].left \ {u}
        BY <2>4, TreatedKeepsOp, Zenon DEF CopyTransaction
      <3>3. t = u \/ t \in job[Dispatcher].back \ job[Dispatcher].left
        BY <1>3, <3>2, Zenon
      <3> QED BY <2>2, <3>1, <3>3, AccountedForStays, Zenon
    <2> QED BY <1>1, <1>3, <2>1, <2>3, <2>4, CopyingPoolGrows, Zenon
  <1>4. \A th, other \in Threads :
          (job'[th].op \in {"check", "copy"} /\ job'[other].op \in {"check", "copy"})
              => th = other
    BY <1>2, Zenon DEF OneAdder, IsAdding
  <1> QED BY <1>3, <1>4, Zenon DEF CopyIsComplete

\* No two threads are in addBlock, and what copyTransactionsToPool is done with
\* is accounted for, in every reachable state and for any constants.
THEOREM CopyIsAlwaysComplete == PoolSpec => []CopyIsComplete
  <1>1. PoolInit => CopyIsComplete
    <2>1. Idle.op = "idle"
      BY OpOfJob DEF Idle
    <2>2. PoolInit => \A th \in Threads : job[th].op = "idle"
      BY <2>1, Zenon DEF PoolInit
    <2> QED BY <2>2, PoolAssumption, Zenon DEF CopyIsComplete
  <1>2. PoolTypeOK /\ CopyIsComplete /\ [PoolNext]_vars => CopyIsComplete'
    BY CopyStaysComplete, Zenon
  <1> QED BY <1>1, <1>2, PoolTypeCorrect, PTL DEF PoolSpec

\* When the dispatcher ends addBlock after a chain switch, every transaction of
\* the chain left is in the pool or there is a reason why it is not.
THEOREM SwitchesReturnTransactions == PoolSpec => SwitchReturnsTransactions
  <1>1. CopyIsComplete /\ [PoolNext]_vars =>
          [FinishAddBlock(Dispatcher) =>
              \A t \in job[Dispatcher].back : IsAccountedFor(t)]_vars
    BY Zenon DEF CopyIsComplete, FinishAddBlock
  <1> QED BY <1>1, CopyIsAlwaysComplete, PTL DEF PoolSpec, SwitchReturnsTransactions
-----------------------------------------------------------------------------
(***************************************************************************)
(* checkAndRemoveInvalidPoolTransactions looks at the last block only, and *)
(* counts what alternative chains hold as stored.  Both are right as long  *)
(* as no alternative block is known.  The thread in addBlock then checks   *)
(* the pool against the one block that has come on top of the chain the    *)
(* pool was valid on.                                                      *)
(***************************************************************************)

\* Every block stored is on the main chain.
NoAlternatives == known = ChainTo[tip]

\* The block of a thread that checks the pool is the top of the main chain.
CheckedIsTip == \A th \in Threads : job[th].op = "check" => job[th].at = tip

\* While a thread checks the pool, no other one moves the main chain.
LEMMA CheckedIsTipStep ==
    ASSUME PoolTypeOK, CheckedIsTip, [PoolNext]_vars
    PROVE  CheckedIsTip'
  <1> job \in [Threads -> Jobs] /\ Dispatcher \in Threads
    BY PoolAssumption, Zenon DEF PoolTypeOK
  <1>1. ASSUME NEW th \in Threads, NEW j, SetJob(th, j), tip' = tip, j.op # "check"
        PROVE  CheckedIsTip'
    <2>1. job'[th] = j /\ \A other \in Threads \ {th} : job'[other] = job[other]
      BY <1>1, OneJobChanges, Zenon
    <2> QED BY <1>1, <2>1, Zenon DEF CheckedIsTip
  <1>2. ASSUME NEW th \in Threads, NEW t, Treated(th, t), tip' = tip
        PROVE  CheckedIsTip'
    BY <1>2, TreatedKeepsOp DEF CheckedIsTip
  <1>3. ASSUME UNCHANGED <<job, tip>>
        PROVE  CheckedIsTip'
    BY <1>3, Zenon DEF CheckedIsTip
  <1>4. Idle.op = "idle"
    BY OpOfJob DEF Idle
  <1>5. ASSUME NEW th \in Threads, NEW t \in Transactions,
               \/ AddTransaction(th, t) \/ FinishAddTransaction(th, t)
               \/ CheckPoolTransaction(th, t) \/ CopyTransaction(th, t)
        PROVE  CheckedIsTip'
    <2>1. CASE AddTransaction(th, t)
      BY <1>1, <2>1, OpOfJob DEF AddTransaction, forkVars
    <2>2. CASE FinishAddTransaction(th, t)
      BY <1>1, <1>4, <2>2, Zenon DEF FinishAddTransaction, forkVars
    <2>3. CASE CheckPoolTransaction(th, t)
      BY <1>2, <2>3, Zenon DEF CheckPoolTransaction, forkVars
    <2>4. CASE CopyTransaction(th, t)
      BY <1>2, <2>4, Zenon DEF CopyTransaction, forkVars
    <2> QED BY <1>5, <2>1, <2>2, <2>3, <2>4, Zenon
  <1>6. ASSUME NEW th \in Threads, NEW b \in Blocks \ {Genesis}, AddBlock(th, b)
        PROVE  CheckedIsTip'
    <2>1. \A other \in Threads : job[other].op # "check"
      BY <1>6, Zenon DEF AddBlock, AddingBlock
    <2>2. CASE tip' = b
      <3> DEFINE j == Job("check", b, pool, TransactionsIn(ChainTo[tip] \ ChainTo[b]))
      <3>1. SetJob(th, j)
        BY <1>6, <2>2, Zenon DEF AddBlock
      <3>2. j.at = b
        BY OpOfJob
      <3> HIDE DEF j
      <3>3. job'[th] = j /\ \A other \in Threads \ {th} : job'[other] = job[other]
        BY <3>1, OneJobChanges, Zenon
      <3> QED BY <2>1, <2>2, <3>2, <3>3, Zenon DEF CheckedIsTip
    <2>3. CASE tip' # b
      BY <1>6, <2>1, <2>3, Zenon DEF AddBlock, CheckedIsTip
    <2> QED BY <2>2, <2>3, Zenon
  <1>7. ASSUME NEW th \in Threads, NEW b \in Blocks \ {Genesis},
               SubmitBlock(th, b) \/ \E t \in Transactions : RejectBlock(th, b, t)
        PROVE  CheckedIsTip'
    BY <1>1, <1>3, <1>7, OpOfJob, Zenon DEF SubmitBlock, RejectBlock, forkVars
  <1>8. ASSUME NEW th \in Threads, FinishCheck(th) \/ FinishAddBlock(th) \/ GetTransactions(th)
        PROVE  CheckedIsTip'
    <2>1. CASE FinishCheck(th)
      <3> DEFINE j == Job("copy", job[th].at, job[th].back, job[th].back)
      <3>1. SetJob(th, j) /\ UNCHANGED tip
        BY <2>1, Zenon DEF FinishCheck, forkVars
      <3>2. j.op = "copy"
        BY Zenon DEF Job
      <3> HIDE DEF j
      <3> QED BY <1>1, <3>1, <3>2, Zenon
    <2>2. CASE FinishAddBlock(th) \/ GetTransactions(th)
      <3>1. SetJob(th, Idle) /\ UNCHANGED tip
        BY <2>2, Zenon DEF FinishAddBlock, GetTransactions, forkVars
      <3> QED BY <1>1, <1>4, <3>1, Zenon
    <2> QED BY <1>8, <2>1, <2>2, Zenon
  <1>9. ASSUME StartCleaning \/ FinishCleaning
        PROVE  CheckedIsTip'
    BY <1>1, <1>4, <1>9, OpOfJob DEF StartCleaning, FinishCleaning, forkVars
  <1>10. ASSUME NEW t \in Transactions,
                \/ KeepTransaction(t) \/ DeleteInvalidTransaction(t)
                \/ DeleteExpiredTransaction(t) \/ CleanMissesTransaction(t)
         PROVE  CheckedIsTip'
    BY <1>2, <1>3, <1>10, Zenon DEF KeepTransaction, DeleteInvalidTransaction,
       DeleteExpiredTransaction, CleanMissesTransaction, forkVars
  <1>11. ASSUME Stop \/ Crash
         PROVE  CheckedIsTip'
    BY <1>4, <1>11, Zenon DEF Stop, Crash, PoolIsEmpty, CheckedIsTip
  <1>12. ASSUME Start \/ UNCHANGED vars
         PROVE  CheckedIsTip'
    BY <1>3, <1>12, Zenon DEF Start, Boot, vars, poolVars, forkVars
  <1> QED BY <1>5, <1>6, <1>7, <1>8, <1>9, <1>10, <1>11, <1>12, Zenon DEF PoolNext

\* The thread that checks the pool checks it against the top of the main chain.
LEMMA CheckedIsAlwaysTip == PoolSpec => []CheckedIsTip
  <1>1. PoolInit => CheckedIsTip
    BY OpOfJob DEF PoolInit, CheckedIsTip, Idle
  <1>2. PoolTypeOK /\ CheckedIsTip /\ [PoolNext]_vars => CheckedIsTip'
    BY CheckedIsTipStep, Zenon
  <1> QED BY <1>1, <1>2, PoolTypeCorrect, PTL DEF PoolSpec

\* A block is on the chain that ends in it.
LEMMA BlockIsOnItsChain ==
    ASSUME NEW b \in Blocks
    PROVE  b \in ChainTo[b]
  BY TreeAssumption, Zenon

\* Every transaction has an input: validateTransactionInputs refuses others.
EveryTransactionSpends == \A t \in Transactions : KeyImages[t] # {}

\* Without alternative blocks, what the check removes is not valid on the main
\* chain, for any transactions, blocks and number of threads.
THEOREM OnlyInvalidAreChecked ==
    EveryTransactionSpends /\ PoolSpec /\ []NoAlternatives => OnlyInvalidatedAreRemoved
  <1>1. ASSUME EveryTransactionSpends, PoolTypeOK, CheckedIsTip, NoAlternatives,
               NEW th \in Threads, NEW t \in Transactions,
               CheckPoolTransaction(th, t), t \in pool \ pool'
        PROVE  ~IsValidOn(t, tip)
    <2>1. IsInvalidatedBy(t, tip)
      BY <1>1, Zenon DEF CheckPoolTransaction, CheckedIsTip
    <2>2. CASE IsTransactionInChain(t)
      <3>1. PICK b \in ChainTo[tip] : t \in TransactionsOf[b]
        BY <1>1, <2>2, Zenon DEF IsTransactionInChain, NoAlternatives, TransactionsIn
      <3>2. KeyImages[t] \subseteq KeyImagesOf(TransactionsIn(ChainTo[tip]))
        BY <3>1, Zenon DEF KeyImagesOf, TransactionsIn
      <3> QED BY <1>1, <3>2, Zenon DEF IsValidOn, EveryTransactionSpends
    <2>3. CASE ~MixinIsValid(t, BlockIndex(tip))
      BY <2>3, Zenon DEF IsValidOn
    <2>4. CASE KeyImages[t] \cap KeyImagesOf(TransactionsOf[tip]) # {}
      <3>1. tip \in ChainTo[tip]
        BY <1>1, BlockIsOnItsChain, Zenon DEF PoolTypeOK
      <3>2. KeyImagesOf(TransactionsOf[tip]) \subseteq KeyImagesOf(TransactionsIn(ChainTo[tip]))
        BY <3>1, Zenon DEF KeyImagesOf, TransactionsIn
      <3> QED BY <2>4, <3>2, Zenon DEF IsValidOn
    <2> QED BY <2>1, <2>2, <2>3, <2>4, Zenon DEF IsInvalidatedBy
  <1>2. EveryTransactionSpends /\ PoolTypeOK /\ CheckedIsTip /\ NoAlternatives =>
          [\A th \in Threads, t \in Transactions :
              (CheckPoolTransaction(th, t) /\ t \in pool \ pool') => ~IsValidOn(t, tip)]_vars
    BY <1>1, Zenon
  <1>3. EveryTransactionSpends /\ [PoolNext]_vars => EveryTransactionSpends'
    BY Zenon DEF EveryTransactionSpends
  <1> QED BY <1>2, <1>3, PoolTypeCorrect, CheckedIsAlwaysTip, PTL
          DEF PoolSpec, OnlyInvalidatedAreRemoved

\* The transaction spends nothing that the chain up to a block has spent.
IsUnspentOn(t, B) == KeyImages[t] \cap KeyImagesOf(TransactionsIn(B)) = {}

\* Between two calls of the one thread the pool is unspent; while that thread
\* checks, what is spent is before it, and spent in the last block.
UnspentInv ==
    /\ \A t \in pool :
          \/ IsUnspentOn(t, ChainTo[tip])
          \/ /\ job[Dispatcher].op = "check" /\ t \in job[Dispatcher].left
             /\ IsUnspentOn(t, ChainTo[tip] \ {tip})
    /\ job[Dispatcher].op = "push" =>
          \A t \in job[Dispatcher].left : IsUnspentOn(t, ChainTo[tip])

\* Neither the chain nor the pool changes, or the pool only shrinks.
LEMMA UnspentStays ==
    ASSUME UnspentInv, tip' = tip, pool' \subseteq pool,
           job[Dispatcher].op # "check", job'[Dispatcher].op # "push"
    PROVE  UnspentInv'
  BY Zenon DEF UnspentInv, IsUnspentOn

\* One more transaction in the pool, unspent on the main chain.
LEMMA UnspentGrows ==
    ASSUME UnspentInv, tip' = tip, NEW t, IsUnspentOn(t, ChainTo[tip]),
           pool' \subseteq pool \cup {t},
           job[Dispatcher].op # "check", job'[Dispatcher].op # "push"
    PROVE  UnspentInv'
  BY Zenon DEF UnspentInv, IsUnspentOn

\* What is spent on a chain is spent below its last block or in it.
LEMMA SpentBelowOrLast ==
    ASSUME NEW t, NEW B, NEW b, IsUnspentOn(t, B \ {b}),
           KeyImages[t] \cap KeyImagesOf(TransactionsOf[b]) = {}
    PROVE  IsUnspentOn(t, B)
  <1>1. ASSUME NEW k \in KeyImagesOf(TransactionsIn(B)) PROVE k \notin KeyImages[t]
    <2>1. PICK u \in TransactionsIn(B) : k \in KeyImages[u]
      BY Zenon DEF KeyImagesOf
    <2>2. PICK c \in B : u \in TransactionsOf[c]
      BY Zenon DEF TransactionsIn
    <2>3. CASE c = b
      BY <2>1, <2>2, <2>3, Zenon DEF KeyImagesOf
    <2>4. CASE c # b
      BY <2>1, <2>2, <2>4 DEF KeyImagesOf, TransactionsIn, IsUnspentOn
    <2> QED BY <2>3, <2>4, Zenon
  <1> QED BY <1>1, Zenon DEF IsUnspentOn

\* What is unspent on a chain is unspent on a part of it.
LEMMA UnspentOnPart ==
    ASSUME NEW t, NEW B, NEW C, C \subseteq B, IsUnspentOn(t, B)
    PROVE  IsUnspentOn(t, C)
  BY DEF IsUnspentOn, KeyImagesOf, TransactionsIn

\* The steps of addBlock keep the pool unspent.
LEMMA AddBlockUnspent ==
    ASSUME PoolTypeOK, CheckedIsTip, UnspentInv, NoAlternatives, NoAlternatives',
           \/ \E b \in Blocks \ {Genesis} :
                 AddBlock(Dispatcher, b) \/ \E t \in Transactions : RejectBlock(Dispatcher, b, t)
           \/ \E t \in Transactions :
                 CheckPoolTransaction(Dispatcher, t) \/ CopyTransaction(Dispatcher, t)
           \/ FinishCheck(Dispatcher) \/ FinishAddBlock(Dispatcher)
    PROVE  UnspentInv'
  <1> job \in [Threads -> Jobs] /\ Dispatcher \in Threads
    BY PoolAssumption, Zenon DEF PoolTypeOK
  <1>1. Idle.op = "idle"
    BY OpOfJob DEF Idle
  <1>2. ASSUME NEW b \in Blocks \ {Genesis}, AddBlock(Dispatcher, b) PROVE UnspentInv'
    <2>1. Receive(b) /\ UNCHANGED pool /\ job[Dispatcher].op = "idle"
      BY <1>1, <1>2, Zenon DEF AddBlock, IsFree
    <2>2. tip' = b
      BY <2>1, Zenon DEF Receive, NoAlternatives
    <2>3. ChainTo[tip'] \ {tip'} \subseteq ChainTo[tip]
      BY <2>1, <2>2, Zenon DEF Receive, NoAlternatives
    <2> DEFINE j == Job("check", b, pool, TransactionsIn(ChainTo[tip] \ ChainTo[b]))
    <2>4. SetJob(Dispatcher, j) /\ j.op = "check" /\ j.left = pool
      <3>1. SetJob(Dispatcher, j)
        BY <1>2, <2>2, Zenon DEF AddBlock
      <3>2. j.op = "check" /\ j.left = pool
        BY Zenon DEF Job
      <3> QED BY <3>1, <3>2, Zenon
    <2> HIDE DEF j
    <2>5. job'[Dispatcher] = j
      BY <2>4, OneJobChanges, Zenon
    <2>6. \A t \in pool : IsUnspentOn(t, ChainTo[tip])
      BY <2>1, Zenon DEF UnspentInv
    <2>7. \A t \in pool' : IsUnspentOn(t, ChainTo[tip'] \ {tip'})
      BY <2>1, <2>3, <2>6, UnspentOnPart, Zenon
    <2>8. job'[Dispatcher].op = "check" /\ job'[Dispatcher].op # "push"
      BY <2>4, <2>5, Zenon
    <2>9. \A t \in pool' : t \in job'[Dispatcher].left
      BY <2>1, <2>4, <2>5, Zenon
    <2> QED BY <2>7, <2>8, <2>9, Zenon DEF UnspentInv
  <1>3. ASSUME NEW b \in Blocks, NEW t \in Transactions, RejectBlock(Dispatcher, b, t)
        PROVE  UnspentInv'
    <2>1. job[Dispatcher].op = "idle" /\ UNCHANGED <<job, tip>> /\ pool' \subseteq pool
      BY <1>1, <1>3, Zenon DEF RejectBlock, IsFree, RemoveTransaction, forkVars
    <2> QED BY <2>1, UnspentStays, Zenon
  <1>4. ASSUME NEW t \in Transactions, CheckPoolTransaction(Dispatcher, t) PROVE UnspentInv'
    <2>1. /\ job'[Dispatcher].op = "check" /\ job[Dispatcher].op = "check"
          /\ job'[Dispatcher].left = job[Dispatcher].left \ {t}
          /\ tip' = tip /\ pool' \subseteq pool
      BY <1>4, TreatedKeepsOp, Zenon DEF CheckPoolTransaction, RemoveTransaction, forkVars
    <2>2. t \in pool' => IsUnspentOn(t, ChainTo[tip])
      <3> SUFFICES ASSUME t \in pool' PROVE IsUnspentOn(t, ChainTo[tip])
        BY Zenon
      <3>1. ~IsInvalidatedBy(t, tip) /\ t \in pool
        BY <1>4, <2>1, Zenon DEF CheckPoolTransaction, RemoveTransaction, CheckedIsTip
      <3>2. KeyImages[t] \cap KeyImagesOf(TransactionsOf[tip]) = {}
        BY <3>1, Zenon DEF IsInvalidatedBy
      <3>3. IsUnspentOn(t, ChainTo[tip]) \/ IsUnspentOn(t, ChainTo[tip] \ {tip})
        BY <3>1, Zenon DEF UnspentInv
      <3> QED BY <3>2, <3>3, SpentBelowOrLast, Zenon
    <2>3. \A u \in pool' \ {t} :
             \/ IsUnspentOn(u, ChainTo[tip])
             \/ u \in job'[Dispatcher].left /\ IsUnspentOn(u, ChainTo[tip] \ {tip})
      BY <2>1, Zenon DEF UnspentInv
    <2>4. job'[Dispatcher].op # "push"
      BY <2>1, Zenon
    <2> QED BY <2>1, <2>2, <2>3, <2>4, Zenon DEF UnspentInv
  <1>5. ASSUME NEW t \in Transactions, CopyTransaction(Dispatcher, t) PROVE UnspentInv'
    <2>1. job[Dispatcher].op = "copy" /\ job'[Dispatcher].op = "copy" /\ tip' = tip
      BY <1>5, TreatedKeepsOp, Zenon DEF CopyTransaction, forkVars
    <2>2. CASE IsValidOn(t, tip) /\ MayPush(t)
      <3>1. IsUnspentOn(t, ChainTo[tip]) /\ pool' \subseteq pool \cup {t}
        BY <1>5, <2>2, Zenon DEF CopyTransaction, PushTransaction, IsValidOn, IsUnspentOn
      <3> QED BY <2>1, <3>1, UnspentGrows, Zenon
    <2>3. CASE ~(IsValidOn(t, tip) /\ MayPush(t))
      <3>1. pool' \subseteq pool
        BY <1>5, <2>3, Zenon DEF CopyTransaction
      <3> QED BY <2>1, <3>1, UnspentStays, Zenon
    <2> QED BY <2>2, <2>3, Zenon
  <1>6. ASSUME FinishCheck(Dispatcher) PROVE UnspentInv'
    <2>1. job'[Dispatcher].op = "copy" /\ UNCHANGED <<pool, tip>> /\ job[Dispatcher].left = {}
      BY <1>6, OneJobChanges, OpOfJob DEF FinishCheck, forkVars
    <2> QED BY <2>1, Zenon DEF UnspentInv, IsUnspentOn
  <1>7. ASSUME FinishAddBlock(Dispatcher) PROVE UnspentInv'
    <2>1. job'[Dispatcher].op = "idle" /\ UNCHANGED <<pool, tip>> /\ job[Dispatcher].op = "copy"
      BY <1>1, <1>7, OneJobChanges, Zenon DEF FinishAddBlock, forkVars
    <2> QED BY <2>1, UnspentStays, Zenon
  <1> QED BY <1>2, <1>3, <1>4, <1>5, <1>6, <1>7, Zenon

\* A thread alone validates and pushes on one chain.
LEMMA UnspentStep ==
    ASSUME Threads = {Dispatcher}, PoolTypeOK, CheckedIsTip, UnspentInv,
           NoAlternatives, NoAlternatives', [PoolNext]_vars
    PROVE  UnspentInv'
  <1> job \in [Threads -> Jobs] /\ Dispatcher \in Threads
    BY PoolAssumption, Zenon DEF PoolTypeOK
  <1>1. Idle.op = "idle"
    BY OpOfJob DEF Idle
  <1>2. ASSUME NEW t \in Transactions, AddTransaction(Dispatcher, t) PROVE UnspentInv'
    <2> DEFINE j == Job("push", Genesis, {t}, {})
    <2>1. /\ job[Dispatcher].op = "idle" /\ UNCHANGED <<pool, tip>>
          /\ SetJob(Dispatcher, j) /\ IsUnspentOn(t, ChainTo[tip])
      BY <1>1, <1>2, Zenon DEF AddTransaction, IsFree, IsValidOn, IsUnspentOn, forkVars
    <2>2. j.op = "push" /\ j.left = {t}
      BY OpOfJob
    <2> HIDE DEF j
    <2>3. job'[Dispatcher] = j
      BY <2>1, OneJobChanges, Zenon
    <2> QED BY <2>1, <2>2, <2>3, Zenon DEF UnspentInv, IsUnspentOn
  <1>3. ASSUME NEW t \in Transactions, FinishAddTransaction(Dispatcher, t) PROVE UnspentInv'
    <2>1. /\ job[Dispatcher].op = "push" /\ job'[Dispatcher].op = "idle" /\ tip' = tip
          /\ t \in job[Dispatcher].left /\ pool' \subseteq pool \cup {t}
      BY <1>1, <1>3, OneJobChanges, Zenon DEF FinishAddTransaction, PushTransaction, forkVars
    <2>2. IsUnspentOn(t, ChainTo[tip])
      BY <2>1, Zenon DEF UnspentInv
    <2> QED BY <2>1, <2>2, UnspentGrows, Zenon
  <1>4. ASSUME NEW b \in Blocks, SubmitBlock(Dispatcher, b) PROVE UnspentInv'
    <2>1. /\ job[Dispatcher].op = "idle" /\ job'[Dispatcher].op = "submit"
          /\ UNCHANGED <<pool, tip>>
      BY <1>1, <1>4, OneJobChanges, OpOfJob DEF SubmitBlock, IsFree, forkVars
    <2> QED BY <2>1, UnspentStays, Zenon
  <1>5. ASSUME GetTransactions(Dispatcher) \/ FinishCleaning PROVE UnspentInv'
    <2>1. /\ job[Dispatcher].op \in {"submit", "clean"} /\ job'[Dispatcher].op = "idle"
          /\ UNCHANGED <<pool, tip>>
      BY <1>1, <1>5, OneJobChanges, Zenon DEF GetTransactions, FinishCleaning, forkVars
    <2> QED BY <2>1, UnspentStays, Zenon
  <1>6. ASSUME StartCleaning PROVE UnspentInv'
    <2>1. /\ job[Dispatcher].op = "idle" /\ job'[Dispatcher].op = "clean"
          /\ UNCHANGED <<pool, tip>>
      BY <1>1, <1>6, OneJobChanges, OpOfJob DEF StartCleaning, IsFree, forkVars
    <2> QED BY <2>1, UnspentStays, Zenon
  <1>7. ASSUME NEW t \in Transactions,
               \/ KeepTransaction(t) \/ DeleteInvalidTransaction(t)
               \/ DeleteExpiredTransaction(t) \/ CleanMissesTransaction(t)
        PROVE  UnspentInv'
    <2>1. job[Dispatcher].op = "clean" /\ tip' = tip /\ pool' \subseteq pool
      BY <1>7, Zenon DEF KeepTransaction, DeleteInvalidTransaction,
         DeleteExpiredTransaction, CleanMissesTransaction, CleanJob, RemoveTransaction,
         forkVars
    <2>2. Treated(Dispatcher, t) \/ UNCHANGED job
      BY <1>7, Zenon DEF KeepTransaction, DeleteInvalidTransaction,
         DeleteExpiredTransaction, CleanMissesTransaction
    <2>3. job'[Dispatcher].op = "clean"
      BY <2>1, <2>2, TreatedKeepsOp, Zenon
    <2> QED BY <2>1, <2>3, UnspentStays, Zenon
  <1>8. ASSUME Stop \/ Crash PROVE UnspentInv'
    BY <1>1, <1>8, Zenon DEF Stop, Crash, PoolIsEmpty, UnspentInv
  <1>9. ASSUME Start \/ UNCHANGED vars PROVE UnspentInv'
    <2>1. UNCHANGED <<pool, tip, job>>
      BY <1>9, Zenon DEF Start, Boot, vars, poolVars, forkVars
    <2> QED BY <2>1, Zenon DEF UnspentInv, IsUnspentOn
  <1> QED BY <1>2, <1>3, <1>4, <1>5, <1>6, <1>7, <1>8, <1>9, AddBlockUnspent, Zenon DEF
             PoolNext

\* A single thread that calls Core keeps the pool free of what the main chain
\* has spent, as long as no alternative block is known, for any transactions
\* and blocks.  A switch (the run pool_switch) breaks this, and so does a second
\* thread that validates a transaction before a block and pushes it after.
THEOREM PoolStaysUnspent ==
    Threads = {Dispatcher} /\ PoolSpec /\ []NoAlternatives => []PoolIsUnspent
  <1> DEFINE Inv == Threads = {Dispatcher} /\ PoolTypeOK /\ CheckedIsTip /\ UnspentInv
  <1>1. Threads = {Dispatcher} /\ PoolInit => Inv
    <2> SUFFICES ASSUME Threads = {Dispatcher}, PoolInit PROVE Inv
      BY Zenon
    <2>1. PoolTypeOK
      BY InitIsSound, Zenon DEF PoolInvariant
    <2>2. pool = {} /\ \A th \in Threads : job[th].op = "idle"
      BY OpOfJob DEF PoolInit, Idle
    <2> QED BY <2>1, <2>2, PoolAssumption, Zenon DEF CheckedIsTip, UnspentInv
  <1>2. Inv /\ PoolTypeOK' /\ NoAlternatives /\ NoAlternatives' /\ [PoolNext]_vars => Inv'
    BY CheckedIsTipStep, UnspentStep, Zenon
  <1>3. Inv => PoolIsUnspent
    <2> SUFFICES ASSUME Inv, ~AddingBlock
                 PROVE  KeyImagesOf(pool) \cap KeyImagesOf(TransactionsIn(ChainTo[tip])) = {}
      BY Zenon DEF PoolIsUnspent
    <2>1. job[Dispatcher].op # "check"
      BY PoolAssumption, Zenon DEF AddingBlock
    <2>2. \A t \in pool : IsUnspentOn(t, ChainTo[tip])
      BY <2>1, Zenon DEF UnspentInv
    <2> QED BY <2>2, Zenon DEF IsUnspentOn, KeyImagesOf
  <1> HIDE DEF Inv
  <1> QED BY <1>1, <1>2, <1>3, PoolTypeCorrect, PTL DEF PoolSpec
=============================================================================
