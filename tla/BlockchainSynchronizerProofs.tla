-------------------- MODULE BlockchainSynchronizerProofs --------------------
(***************************************************************************)
(* For any number of consumers, blocks and transactions: a synchroniser    *)
(* that has stopped is quiet, its members keep their types, and no answer  *)
(* starts above the blocks of a consumer.                                  *)
(*                                                                         *)
(* StoppedIsQuiet is not inductive: it says nothing of what may be next.   *)
(* QuietInv adds that a thread that has ended left both states at          *)
(* "stopped", so that no task is accepted and no event starts anything,    *)
(* and that the first state after a start is one that attaches the         *)
(* observer: an event of the pool that arrives late cannot replace it.     *)
(***************************************************************************)
EXTENDS BlockchainSynchronizer, FiniteSetTheorems, WellFoundedInduction,
        TLAPS

Fields == {"current", "future", "wasStarted", "observer", "adds", "removes", "last",
           "members", "thread"}

Attaching == {"deleteOldTxs", "blockchainSync"}

QuietInv ==
    /\ DOMAIN sync = Fields
    /\ DOMAIN proxy = {"tail", "known", "event", "called"}
    /\ proxy.called => proxy.event \in {"blockchainSync", "poolSync"}
    /\ proxy.event \in {"none", "blockchainSync", "poolSync"}
    /\ sync.current \in States /\ sync.future \in States /\ sync.thread \in Places
    /\ sync.observer \in BOOLEAN
    /\ sync.observer <=> sync.current # "stopped"
    /\ sync.thread = "none" => /\ sync.current = "stopped" /\ sync.future = "stopped"
                               /\ sync.adds = {} /\ sync.removes = {}
    /\ sync.current = "stopped" => sync.future \in Attaching \cup {"stopped"}
    /\ sync.current = "stopped" => sync.thread \in {"none", "loop"}

\* The invariant is about sync and the event of the proxy only.
LEMMA OnlySync ==
    ASSUME QuietInv, sync' = sync, proxy' = proxy
    PROVE  QuietInv'
  BY Zenon DEF QuietInv

\* An event, and every state the working thread asks for, leaves "stopped" and
\* the states above it alone.
LEMMA FutureStateOf ==
    ASSUME NEW s, DOMAIN s = Fields, s.future \in States,
           NEW f \in {"blockchainSync", "poolSync"}
    PROVE  /\ DOMAIN setFutureState(s, f) = Fields
           /\ setFutureState(s, f).future \in States
           /\ setFutureState(s, f).future \in {s.future, f}
           /\ s.future \in Attaching \cup {"stopped"} =>
                setFutureState(s, f).future = s.future
           /\ \A g \in Fields \ {"future"} : setFutureState(s, f)[g] = s[g]
  BY DEF setFutureState, States, Rank, Fields, Attaching

\* A request that fails leaves "stopped" alone as well.
LEMMA GiveUpOf ==
    ASSUME NEW s, DOMAIN s = Fields, s.future \in States
    PROVE  /\ DOMAIN GiveUp(s) = Fields
           /\ GiveUp(s).future \in {"idle", "stopped"}
           /\ s.future = "stopped" => GiveUp(s).future = "stopped"
           /\ \A g \in Fields \ {"future"} : GiveUp(s)[g] = s[g]
  BY Zenon DEF GiveUp, States, Fields

\* The synchroniser is stopped at first.
LEMMA InitQuiet == Init => QuietInv
  BY DEF Init, QuietInv, Fields, States, Places, Attaching

\* The wallet changes the consumers of a stopped synchroniser only, and hands
\* tasks to a running one only.
LEMMA WalletQuiet ==
    ASSUME QuietInv, WalletStep PROVE QuietInv'
<1>1. CASE addConsumer BY <1>1, Zenon DEF addConsumer, QuietInv, Fields
<1>2. CASE removeConsumer BY <1>2, Zenon DEF removeConsumer, QuietInv, Fields
<1>3. CASE start
  BY <1>3, Zenon DEF start, Owner, checkIfStopped, QuietInv, Fields, States, Places, Attaching
<1>4. CASE stop
  BY <1>4, Zenon DEF stop, Owner, setFutureState, Rank, QuietInv, Fields, States
<1>5. CASE Reopen
  BY <1>5, Zenon DEF Reopen, QuietInv, Fields
<1>6. CASE addUnconfirmedTransaction
  BY <1>6, Zenon DEF addUnconfirmedTransaction, Owner, QuietInv, Fields
<1>7. CASE removeUnconfirmedTransaction
  BY <1>7, Zenon DEF removeUnconfirmedTransaction, Owner, QuietInv, Fields
<1> QED BY <1>1, <1>2, <1>3, <1>4, <1>5, <1>6, <1>7, Zenon DEF WalletStep

\* An event that arrives after stop() does not start anything.
LEMMA ProxyQuiet ==
    ASSUME QuietInv, ProxyThread PROVE QuietInv'
<1>1. CASE updateBlockchainStatus
  BY <1>1, Zenon DEF updateBlockchainStatus, ProxyStep, QuietInv
<1>2. CASE updatePoolStatus
  BY <1>2, Zenon DEF updatePoolStatus, ProxyStep, QuietInv
<1>3. CASE notify BY <1>3, Zenon DEF notify, ProxyStep, QuietInv
<1>4. CASE observerCalled
  <2>1. sync' = setFutureState(sync, proxy.event)
    BY <1>4, Zenon DEF observerCalled
  <2>2. proxy.event \in {"blockchainSync", "poolSync"}
    BY <1>4, Zenon DEF observerCalled, QuietInv
  <2>3. /\ proxy'.event = "none" /\ proxy'.called = FALSE
        /\ DOMAIN proxy' = DOMAIN proxy
    BY <1>4, Zenon DEF observerCalled, ProxyStep, QuietInv
  <2> QED BY <2>1, <2>2, <2>3, FutureStateOf DEF QuietInv, Fields, Attaching
<1> QED BY <1>1, <1>2, <1>3, <1>4, Zenon DEF ProxyThread

\* A thread that is in a state other than "stopped" keeps the invariant with any
\* next state, as long as it stays in that state and does not end.
Keeps(s, t) ==
    /\ DOMAIN s = Fields /\ t \in Places \ {"none"}
    /\ s.future \in States
    /\ \A g \in Fields \ {"future", "last", "thread"} : s[g] = sync[g]

\* Such a step keeps the invariant.
LEMMA RunningKeeps ==
    ASSUME QuietInv, sync.current # "stopped",
           NEW s, NEW t, Keeps(s, t), Working(s, t)
    PROVE  QuietInv'
  BY Zenon DEF QuietInv, Keeps, Working, Fields

\* Outside the top of its loop the thread is in a state other than "stopped",
\* and the next states it asks for are such steps.
LEMMA IsRunning ==
    ASSUME QuietInv, sync.thread \notin {"none", "loop"}
    PROVE  /\ sync.current # "stopped"
           /\ \A t \in Places \ {"none"} :
                /\ Keeps(sync, t) /\ Keeps(GiveUp(sync), t)
                /\ Keeps(setFutureState(sync, "blockchainSync"), t)
<1>1. sync.current # "stopped" BY Zenon DEF QuietInv
<1>2. ASSUME NEW t \in Places \ {"none"}
      PROVE  /\ Keeps(sync, t) /\ Keeps(GiveUp(sync), t)
             /\ Keeps(setFutureState(sync, "blockchainSync"), t)
  <2>1. DOMAIN sync = Fields /\ sync.future \in States BY Zenon DEF QuietInv
  <2>2. Keeps(sync, t) BY <2>1, Zenon DEF Keeps
  <2>3. Keeps(GiveUp(sync), t) BY <2>1, GiveUpOf, Zenon DEF Keeps, States
  <2>4. Keeps(setFutureState(sync, "blockchainSync"), t)
    BY <2>1, FutureStateOf DEF Keeps
  <2> QED BY <2>2, <2>3, <2>4, Zenon
<1> QED BY <1>1, <1>2, Zenon

\* The observer follows the state that is entered, and no task is left.
LEMMA ActualizedOf ==
    ASSUME QuietInv
    PROVE  /\ DOMAIN Actualized = Fields
           /\ Actualized.current = sync.future /\ Actualized.future = sync.future
           /\ Actualized.observer \in BOOLEAN
           /\ Actualized.observer <=> sync.future # "stopped"
           /\ Actualized.adds = {} /\ Actualized.removes = {}
  BY Zenon DEF Actualized, QuietInv, Fields, States, Attaching

\* The thread enters the state that is next, and ends in "stopped" only.
LEMMA ActualizeQuiet ==
    ASSUME QuietInv, actualizeFutureState PROVE QuietInv'
<1> DEFINE s == Actualized
<1>0. /\ DOMAIN s = Fields
      /\ s.current = sync.future /\ s.future = sync.future
      /\ s.observer \in BOOLEAN /\ (s.observer <=> sync.future # "stopped")
      /\ s.adds = {} /\ s.removes = {}
  BY ActualizedOf, Zenon
<1> HIDE DEF s
<1>1. PICK f \in States, t \in Places :
        /\ DOMAIN sync' = Fields /\ sync'.future = f /\ sync'.thread = t
        /\ \A g \in Fields \ {"future", "thread"} : sync'[g] = s[g]
        /\ proxy' = proxy
        /\ t = "none" <=> sync.future = "stopped"
        /\ sync.future = "stopped" => f = "stopped"
  <2>1. CASE sync.future \in {"stopped", "idle"}
    BY <1>0, <2>1, Zenon DEF actualizeFutureState, Working, States, Places, Fields, s
  <2>2. CASE sync.future \notin {"stopped", "idle"}
    BY <1>0, <2>2, Zenon DEF actualizeFutureState, Working, States, Places, Fields, s
  <2> QED BY <2>1, <2>2, Zenon
<1> QED BY <1>0, <1>1 DEF QuietInv, Fields, States, Places

\* Blocks, or the failure to get them, leave the thread in its loop.
LEMMA BlocksQuiet ==
    ASSUME QuietInv, startBlockchainSync \/ queryBlocksFails PROVE QuietInv'
<1> USE IsRunning DEF Places
<1>0. sync.thread = "blocks" BY Zenon DEF startBlockchainSync, queryBlocksFails
<1>1. CASE queryBlocksFails
  BY <1>0, <1>1, RunningKeeps DEF queryBlocksFails
<1>2. CASE startBlockchainSync
  <2>1. PICK answer, new, all : processBlocks(answer, new, all)
    BY <1>2, Zenon DEF startBlockchainSync
  <2>2. CASE Working(sync, "loop") BY <1>0, <2>2, RunningKeeps
  <2>3. ASSUME NEW last, NEW s \in {GiveUp(sync), setFutureState(sync, "blockchainSync")},
               Working([s EXCEPT !.last = last], "loop")
        PROVE  QuietInv'
    <3>1. Keeps([s EXCEPT !.last = last], "loop")
      BY <1>0, Zenon DEF Keeps, Fields
    <3> QED BY <1>0, <2>3, <3>1, RunningKeeps, Zenon
  <2> QED BY <2>1, <2>2, <2>3, Zenon DEF processBlocks
<1> QED BY <1>1, <1>2, Zenon

\* So do the pool and the retry after RETRY_TIMEOUT.
LEMMA PoolQuiet ==
    ASSUME QuietInv,
           \/ removeOutdatedTransactions \/ removeOutdatedFails \/ retryOutdated
           \/ startPoolSync \/ intersectionAnswered \/ poolRequestFails
           \/ processPoolTxs
    PROVE  QuietInv'
<1> USE IsRunning, RunningKeeps DEF Places
<1>1. CASE removeOutdatedTransactions BY <1>1 DEF removeOutdatedTransactions
<1>2. CASE removeOutdatedFails BY <1>2 DEF removeOutdatedFails
<1>3. CASE retryOutdated
  <2> DEFINE s == [sync EXCEPT !.future = IF @ = "stopped" THEN @ ELSE "deleteOldTxs"]
  <2>1. sync.thread = "retry" /\ Working(s, "loop") BY <1>3, Zenon DEF retryOutdated
  <2>2. Keeps(s, "loop") BY Zenon DEF QuietInv, Keeps, Fields, States
  <2> QED BY <2>1, <2>2, Zenon
<1>4. CASE startPoolSync BY <1>4 DEF startPoolSync
<1>5. CASE intersectionAnswered BY <1>5 DEF intersectionAnswered
<1>6. CASE poolRequestFails BY <1>6 DEF poolRequestFails
<1>7. CASE processPoolTxs BY <1>7 DEF processPoolTxs
<1> QED BY <1>1, <1>2, <1>3, <1>4, <1>5, <1>6, <1>7, Zenon

\* Every step keeps the invariant.
LEMMA NextQuiet == QuietInv /\ [Next]_vars => QuietInv'
<1> SUFFICES ASSUME QuietInv, [Next]_vars PROVE QuietInv' BY Zenon
<1>1. CASE DaemonStep
  <2>1. sync' = sync /\ proxy' = proxy
    BY <1>1, Zenon DEF DaemonStep, DaemonReceives, TransactionEnters, TransactionLeaves
  <2> QED BY <2>1, OnlySync, Zenon
<1>2. CASE WalletStep BY <1>2, WalletQuiet, Zenon
<1>3. CASE ProxyThread BY <1>3, ProxyQuiet, Zenon
<1>4. CASE WorkingThread
  BY <1>4, ActualizeQuiet, BlocksQuiet, PoolQuiet, Zenon DEF WorkingThread
<1>5. CASE UNCHANGED vars BY <1>5, OnlySync, Zenon DEF vars
<1> QED BY <1>1, <1>2, <1>3, <1>4, <1>5, Zenon DEF Next

\* A synchroniser that has stopped is called by nobody and owes no answer: the
\* observer is attached exactly while m_currentState is not "stopped", and when
\* stop() has returned no task waits for its promise.
THEOREM StoppedSynchronizerIsQuiet == Spec => []StoppedIsQuiet
<1>1. QuietInv => StoppedIsQuiet
  BY Zenon DEF QuietInv, StoppedIsQuiet, HasTasks
<1> QED BY <1>1, InitQuiet, NextQuiet, PTL DEF Spec

-----------------------------------------------------------------------------
(* The members of the synchroniser keep their types.  lastBlockId is looked  *)
(* up in an answer, at a place that is counted from m_blockchain of a        *)
(* consumer: it is there because no answer starts above the blocks of any    *)
(* consumer.  The history that is sent is that of a shortest one, and a      *)
(* block never stands lower in m_blockchain than on its chain.               *)

\* A block may stand too high in m_blockchain: the genesis hash is recorded
\* twice.
IsConsumer(x) ==
    /\ DOMAIN x = {"blockchain", "record", "pool"}
    /\ x.blockchain \in Seq(Blocks) /\ Len(x.blockchain) > 0
    /\ x.blockchain[1] = Genesis
    /\ \A i \in 1..Len(x.blockchain) : Height(x.blockchain[i]) < i

DaemonOK ==
    /\ DOMAIN daemon = {"top", "pool", "gone"}
    /\ daemon.top \in Blocks /\ daemon.pool \subseteq Txs

SyncOK ==
    /\ proxy.tail \in Blocks \cup {NoBlock}
    /\ sync.last \in Blocks \cup {NoBlock} /\ sync.members \subseteq Consumers

\* The thread is in the state that m_currentState names.
PlaceOK ==
    /\ sync.thread \in {"deleting", "retry"} => sync.current = "deleteOldTxs"
    /\ sync.thread = "blocks" => sync.current = "blockchainSync"
    /\ sync.thread \in {"pool", "pool2", "update"} => sync.current = "poolSync"
    /\ sync.thread = "idle" => sync.current = "idle"

CallOK ==
    /\ DOMAIN call = {"history", "added", "deleted", "left"}
    /\ call.left \subseteq sync.members
    /\ sync.thread \notin {"pool2", "update"} => call.left = {}

ConsumersOK == DOMAIN consumer = Consumers /\ \A c \in Consumers : IsConsumer(consumer[c])

\* Every block of the history that is sent is below the end of every consumer.
HistoryOK ==
    sync.thread = "blocks" =>
        /\ call.history \in Seq(Blocks)
        /\ \A i \in 1..Len(call.history) : \A c \in sync.members :
              Height(call.history[i]) < Len(consumer[c].blockchain)

MembersInv ==
    QuietInv /\ DaemonOK /\ SyncOK /\ PlaceOK /\ CallOK /\ ConsumersOK /\ HistoryOK

\* A set of naturals has a least element.
LEMMA LeastNatural ==
    ASSUME NEW S \in SUBSET Nat, S # {}
    PROVE  \E x \in S : \A y \in S : x <= y
  <1> DEFINE R == {ss \in Nat \X Nat : ss[1] < ss[2]}
  <1>1. IsWellFoundedOn(R, Nat)
    BY NatLessThanWellFounded, Zenon DEF OpToRel
  <1> HIDE DEF R
  <1>2. PICK x \in S : \A y \in S : <<y, x>> \notin R
    BY <1>1, WFMin, Zenon
  <1>3. \A y \in S : ~(y < x)
    BY <1>2, Zenon DEF R
  <1> QED BY <1>3

\* Min of FiniteSetsExt is that element.
LEMMA MinIsLeast ==
    ASSUME NEW S \in SUBSET Nat, S # {}
    PROVE  Min(S) \in S /\ \A y \in S : Min(S) <= y
  <1>1. \E x \in S : \A y \in S : x <= y
    BY LeastNatural, Zenon
  <1> QED BY <1>1, Zenon DEF Min

\* Heights count from the genesis block.
LEMMA HeightIsNatural ==
    /\ \A b \in Blocks : Height(b) \in Nat /\ Len(Path[b]) = Height(b) + 1
    /\ Height(Genesis) = 0
  <1>1. \A b \in Blocks : Path[b] \in Seq(Blocks) /\ Len(Path[b]) > 0
    BY SynchronizerAssumption, Zenon
  <1>2. \A b \in Blocks : Height(b) \in Nat /\ Len(Path[b]) = Height(b) + 1
    BY <1>1 DEF Height
  <1>3. Genesis \in Blocks /\ Path[Genesis][1] = Genesis /\ 1 \in 1..Len(Path[Genesis])
    BY <1>1, SynchronizerAssumption
  <1>4. Len(Path[Genesis]) = 1
    BY <1>3, SynchronizerAssumption, Zenon
  <1> QED BY <1>2, <1>4 DEF Height

\* The offsets of the loop are positive numbers.
LEMMA BackIsPositive ==
    ASSUME NEW n \in Nat \ {0}
    PROVE  Back(n) \in Nat \ {0}
  <1>1. CASE n <= Recent
    BY <1>1, Zenon DEF Back
  <1>2. CASE ~(n <= Recent)
    <2>1. Recent \in Nat \ {0} /\ n - Recent \in Nat \ {0} /\ n - Recent >= 1
      BY <1>2, SynchronizerAssumption
    <2>2. IsFiniteSet(1..(n - Recent)) /\ Cardinality(1..(n - Recent)) = n - Recent
      BY <2>1, FS_Interval
    <2>3. /\ IsFiniteSet(SUBSET (1..(n - Recent)))
          /\ Cardinality(SUBSET (1..(n - Recent))) = 2^(n - Recent)
      BY <2>2, FS_SUBSET, Zenon
    <2>4. Cardinality(SUBSET (1..(n - Recent))) \in Nat \ {0}
      <3>1. SUBSET (1..(n - Recent)) # {}
        BY Zenon
      <3> QED BY <2>3, <3>1, FS_CardinalityType, FS_EmptySet, Zenon
    <2>5. 2^(n - Recent) \in Nat \ {0} /\ Back(n) = Recent - 1 + 2^(n - Recent)
      BY <1>2, <2>3, <2>4, Zenon DEF Back
    <2> QED BY <2>1, <2>5
  <1> QED BY <1>1, <1>2, Zenon

\* The loop makes its turns one after the other.
LEMMA TurnsAreFirst ==
    ASSUME NEW size \in Nat \ {0}
    PROVE  \E m \in Nat : Turns(size) = 1..m
  <1> DEFINE S == {n \in 1..size : n \notin Turns(size)}
  <1>1. S \in SUBSET Nat /\ size \in S
    BY DEF Turns
  <1>2. PICK n \in S : \A y \in S : n <= y
    BY <1>1, LeastNatural, Zenon
  <1>3. n \in 1..size /\ n \notin Turns(size)
    BY <1>2, Zenon
  <1>4. \A k \in 1..(n - 1) : k \in Turns(size)
    BY <1>2, <1>3
  <1>5. \A k \in Turns(size) : k <= n - 1
    <2> SUFFICES ASSUME NEW k \in Turns(size), k >= n PROVE FALSE
      BY <1>3 DEF Turns
    <2>1. k \in 1..size - 1 /\ \A j \in 1..k : Back(j) < size
      BY Zenon DEF Turns
    <2>2. n \in 1..size - 1 /\ \A j \in 1..n : Back(j) < size
      BY <1>3, <2>1
    <2> QED BY <1>3, <2>2, Zenon DEF Turns
  <1>6. Turns(size) = 1..(n - 1) /\ n - 1 \in Nat
    BY <1>3, <1>4, <1>5 DEF Turns
  <1> QED BY <1>6, Zenon

\* The history of a consumer names blocks that it has.
LEMMA ShortHistoryOf ==
    ASSUME SyncOK, NEW x, IsConsumer(x)
    PROVE  /\ getShortHistory(x.blockchain) \in Seq(Blocks)
           /\ \A i \in 1..Len(getShortHistory(x.blockchain)) :
                 Height(getShortHistory(x.blockchain)[i]) < Len(x.blockchain)
  <1> DEFINE bc == x.blockchain
             local == IF proxy.tail = NoBlock THEN 0 ELSE Height(proxy.tail)
             size == Min({Len(bc), local + 1})
             named == [n \in Turns(size) |-> bc[size - Back(n) + 1]]
  <1>1. /\ bc \in Seq(Blocks) /\ Len(bc) \in Nat \ {0} /\ bc[1] = Genesis
        /\ \A i \in 1..Len(bc) : bc[i] \in Blocks /\ Height(bc[i]) \in Nat /\ Height(bc[i]) < i
    BY HeightIsNatural DEF IsConsumer
  <1>2. local \in Nat
    BY HeightIsNatural, Zenon DEF SyncOK
  <1>3. size \in Nat \ {0} /\ size <= Len(bc)
    <2> HIDE DEF local, bc
    <2>1. {Len(bc), local + 1} \in SUBSET (Nat \ {0}) /\ {Len(bc), local + 1} # {}
      BY <1>1, <1>2
    <2> QED BY <2>1, MinIsLeast
  <1>4. getShortHistory(bc) = Append(named, bc[1])
    BY Zenon DEF getShortHistory
  <1> HIDE DEF size, bc
  <1>5. PICK m \in Nat : Turns(size) = 1..m
    BY <1>3, TurnsAreFirst, Zenon
  <1>6. \A n \in 1..m : size - Back(n) + 1 \in 1..Len(bc)
    <2> SUFFICES ASSUME NEW n \in 1..m PROVE size - Back(n) + 1 \in 1..Len(bc)
      BY Zenon
    <2>1. n \in 1..n /\ n \in Nat \ {0} /\ n \in Turns(size)
      BY <1>5
    <2>2. Back(n) < size /\ Back(n) \in Nat \ {0}
      BY <2>1, BackIsPositive, Zenon DEF Turns
    <2> QED BY <1>1, <1>3, <2>2
  <1>7. /\ named \in Seq(Blocks) /\ Len(named) = m
        /\ \A n \in 1..m : named[n] = bc[size - Back(n) + 1]
    BY <1>1, <1>5, <1>6
  <1> HIDE DEF named
  <1>8. /\ Append(named, bc[1]) \in Seq(Blocks) /\ Len(Append(named, bc[1])) = m + 1
        /\ \A n \in 1..m : Append(named, bc[1])[n] = named[n]
        /\ Append(named, bc[1])[m + 1] = bc[1]
    BY <1>1, <1>7
  <1>9. ASSUME NEW i \in 1..m + 1 PROVE Height(Append(named, bc[1])[i]) < Len(bc)
    <2>1. CASE i = m + 1
      BY <1>1, <1>8, <2>1, HeightIsNatural
    <2>2. CASE i \in 1..m
      <3>1. Append(named, bc[1])[i] = bc[size - Back(i) + 1]
        BY <1>7, <1>8, <2>2, Zenon
      <3>2. size - Back(i) + 1 \in 1..Len(bc)
        BY <1>6, <2>2, Zenon
      <3>3. Height(bc[size - Back(i) + 1]) < Len(bc)
        BY <1>1, <3>2
      <3> QED BY <3>1, <3>3, Zenon
    <2>3. i = m + 1 \/ i \in 1..m
      OBVIOUS
    <2> QED BY <2>1, <2>2, <2>3, Zenon
  <1> QED BY <1>4, <1>8, <1>9, Zenon DEF bc

\* The blocks of an answer follow each other on a chain.
IsAnswer(a) ==
    /\ a.from \in Nat /\ a.blocks \in Seq(Blocks)
    /\ \A i \in 1..Len(a.blocks) : Height(a.blocks[i]) = a.from + i - 1
    /\ a.from = 0 => \A i \in 1..Len(a.blocks) : i = 1 => a.blocks[i] = Genesis

\* The daemon answers from a block of the history on.
LEMMA AnswerOf ==
    ASSUME DaemonOK, NEW history \in Seq(Blocks), IsKnown(history)
    PROVE  /\ IsAnswer(queryBlocksLite(Supplement(history)))
           /\ \E i \in 1..Len(history) :
                 queryBlocksLite(Supplement(history)).from = Height(history[i])
  <1> DEFINE IsFirst(i) == OnChain(history[i]) /\ \A j \in 1..i - 1 : ~OnChain(history[j])
             S == {i \in 1..Len(history) : OnChain(history[i])}
             from == Supplement(history)
             top == Min({from + BatchSize, Len(Chain)})
  <1>1. PICK n \in S : \A y \in S : n <= y
    <2>1. S \in SUBSET Nat /\ S # {}
      BY DEF IsKnown
    <2> QED BY <2>1, LeastNatural, Zenon
  <1>2. n \in 1..Len(history) /\ IsFirst(n)
    BY <1>1
  <1>3. PICK first \in 1..Len(history) : IsFirst(first) /\ from = Height(history[first])
    <2> HIDE DEF IsFirst
    <2>1. from = Height(history[CHOOSE i \in 1..Len(history) : IsFirst(i)])
      BY Zenon DEF Supplement, IsFirst
    <2> QED BY <1>2, <2>1, Zenon
  <1>4. history[first] \in Blocks /\ from \in Nat /\ from < Len(Chain)
    BY <1>3, HeightIsNatural DEF OnChain
  <1>5. /\ Chain \in Seq(Blocks) /\ Len(Chain) \in Nat
        /\ \A k \in 1..Len(Chain) : Chain[k] \in Blocks /\ Height(Chain[k]) = k - 1
        /\ Chain[1] = Genesis
    <2>1. Chain \in Seq(Blocks) /\ Len(Chain) \in Nat /\ Chain[1] = Genesis
      BY SynchronizerAssumption DEF Chain, DaemonOK
    <2>2. \A k \in 1..Len(Chain) : Chain[k] \in Blocks
      BY <2>1
    <2>3. \A b \in Blocks : \A k \in 1..Len(Path[b]) : Len(Path[Path[b][k]]) = k
      BY SynchronizerAssumption, Zenon
    <2>4. \A k \in 1..Len(Chain) : Len(Path[Chain[k]]) = k
      BY <2>3, Zenon DEF Chain, DaemonOK
    <2> QED BY <2>1, <2>2, <2>4, Zenon DEF Height
  <1>6. top \in Nat /\ top <= Len(Chain)
    <2> HIDE DEF from
    <2>1. BatchSize \in Nat
      BY SynchronizerAssumption, Zenon
    <2>2. {from + BatchSize, Len(Chain)} \in SUBSET Nat /\ {from + BatchSize, Len(Chain)} # {}
      BY <1>4, <1>5, <2>1
    <2> QED BY <2>2, MinIsLeast, Zenon
  <1> DEFINE part == SubSeq(Chain, from + 1, top)
  <1>7. queryBlocksLite(from) = [from |-> from, blocks |-> part]
    BY Zenon DEF queryBlocksLite
  <1> HIDE DEF from, top
  <1>8. /\ part \in Seq(Blocks)
        /\ \A i \in 1..Len(part) : i + from \in 1..Len(Chain) /\ part[i] = Chain[i + from]
    BY <1>4, <1>5, <1>6
  <1> HIDE DEF part
  <1>9. \A i \in 1..Len(part) : Height(part[i]) = from + i - 1
    BY <1>4, <1>5, <1>8
  <1>10. from = 0 => \A i \in 1..Len(part) : i = 1 => part[i] = Genesis
    BY <1>4, <1>5, <1>8
  <1>11. IsAnswer(queryBlocksLite(from))
    BY <1>4, <1>7, <1>8, <1>9, <1>10 DEF IsAnswer
  <1> QED BY <1>3, <1>7, <1>11 DEF from

\* What checkInterval finds lies between the beginning of the answer and the end
\* of m_blockchain, and leaves the genesis block alone.
IsFound(f, bc, a) ==
    /\ f.new \in BOOLEAN /\ f.detach \in BOOLEAN
    /\ f.detach => f.new
    /\ f.new => /\ f.height \in Nat \ {0}
                /\ a.from <= f.height /\ f.height <= Len(bc)
    /\ f.new /\ ~f.detach => f.height = Len(bc)
    /\ ~f.new => f.height = 0

\* Every answer that starts inside m_blockchain is compared that way.
LEMMA CheckIntervalOf ==
    ASSUME NEW x, IsConsumer(x), NEW a, IsAnswer(a), a.from < Len(x.blockchain)
    PROVE  IsFound(checkInterval(x.blockchain, a), x.blockchain, a)
  <1> DEFINE bc == x.blockchain
             end == a.from + Len(a.blocks)
             both == Min({Len(bc), end})
             differ == {h \in a.from..both - 1 : bc[h + 1] # a.blocks[h - a.from + 1]}
  <1>1. /\ bc \in Seq(Blocks) /\ Len(bc) \in Nat \ {0} /\ bc[1] = Genesis
        /\ a.from \in Nat /\ a.from < Len(bc) /\ Len(a.blocks) \in Nat
    BY DEF IsConsumer, IsAnswer
  <1>2. both \in Nat /\ both <= Len(bc) /\ both <= end
    <2>1. {Len(bc), end} \in SUBSET Nat /\ {Len(bc), end} # {}
      BY <1>1
    <2> QED BY <2>1, MinIsLeast, Zenon
  <1> HIDE DEF both
  <1>3. \A h \in differ : h \in Nat /\ a.from <= h /\ h < Len(bc)
    BY <1>1, <1>2
  <1>4. 0 \notin differ
    <2> SUFFICES ASSUME 0 \in differ PROVE FALSE
      BY Zenon
    <2>1. a.from = 0 /\ 0 <= both - 1
      BY <1>1, <1>2
    <2>2. 1 \in 1..Len(a.blocks)
      BY <1>1, <1>2, <2>1
    <2>3. bc[1] # a.blocks[1]
      BY <2>1
    <2> QED BY <1>1, <2>1, <2>2, <2>3, Zenon DEF IsAnswer
  <1> DEFINE f == checkInterval(bc, a)
  <1>5. f = CASE differ # {} ->
                   [detach |-> TRUE, new |-> TRUE, height |-> Min(differ)]
              [] differ = {} /\ end > Len(bc) ->
                   [detach |-> FALSE, new |-> TRUE, height |-> Len(bc)]
              [] OTHER ->
                   [detach |-> FALSE, new |-> FALSE, height |-> 0]
    BY Zenon DEF checkInterval, both
  <1> HIDE DEF f, differ, end, bc
  <1>6. CASE differ # {}
    <2>1. differ \in SUBSET Nat
      BY <1>3, Zenon
    <2>2. Min(differ) \in differ
      BY <1>6, <2>1, MinIsLeast, Zenon
    <2>3. Min(differ) \in Nat \ {0} /\ a.from <= Min(differ) /\ Min(differ) <= Len(bc)
      BY <1>1, <1>3, <1>4, <2>2
    <2>4. f = [detach |-> TRUE, new |-> TRUE, height |-> Min(differ)]
      BY <1>5, <1>6, Zenon
    <2> QED BY <2>3, <2>4 DEF IsFound, f, bc
  <1>7. CASE differ = {} /\ end > Len(bc)
    <2>1. f = [detach |-> FALSE, new |-> TRUE, height |-> Len(bc)]
      BY <1>5, <1>7, Zenon
    <2> QED BY <1>1, <2>1 DEF IsFound, f, bc
  <1>8. CASE differ = {} /\ ~(end > Len(bc))
    <2>1. f = [detach |-> FALSE, new |-> FALSE, height |-> 0]
      BY <1>5, <1>8, Zenon
    <2> QED BY <2>1 DEF IsFound, f, bc
  <1> QED BY <1>6, <1>7, <1>8, Zenon

\* The blocks for a consumer are a part of the answer, and none of them gets a
\* place below its height.
IsNew(n, bc, a) ==
    /\ n.new \in BOOLEAN /\ n.detach \in BOOLEAN
    /\ n.detach => n.new
    /\ n.blocks \in Seq(Blocks)
    /\ n.new => /\ n.offset \in Nat
                /\ n.at \in Nat \ {0} /\ n.at <= Len(bc)
                /\ \A i \in 1..Len(n.blocks) :
                      /\ n.offset + i \in 1..Len(a.blocks)
                      /\ Height(n.blocks[i]) < n.at + i
    /\ n.new /\ ~n.detach => n.at = Len(bc)

\* A sequence without its first k elements.
LEMMA RestOf ==
    ASSUME NEW S, NEW s \in Seq(S), NEW k \in Nat
    PROVE  /\ SubSeq(s, k + 1, Len(s)) \in Seq(S)
           /\ \A i \in 1..Len(SubSeq(s, k + 1, Len(s))) :
                 k + i \in 1..Len(s) /\ SubSeq(s, k + 1, Len(s))[i] = s[k + i]
  <1>1. CASE k < Len(s)
    <2>1. SubSeq(s, k + 1, Len(s)) \in Seq(S) /\ Len(SubSeq(s, k + 1, Len(s))) = Len(s) - k
      BY <1>1
    <2>2. \A i \in 1..Len(s) - k : SubSeq(s, k + 1, Len(s))[i] = s[k + i]
      BY <1>1
    <2>3. Len(s) \in Nat /\ \A i \in 1..Len(s) - k : k + i \in 1..Len(s)
      BY <1>1
    <2> QED BY <2>1, <2>2, <2>3, Zenon
  <1>2. CASE ~(k < Len(s))
    <2> DEFINE r == SubSeq(s, k + 1, Len(s))
    <2>1. r = << >>
      BY <1>2
    <2> HIDE DEF r
    <2>2. r \in Seq(S) /\ 1..Len(r) = {}
      BY <2>1
    <2> QED BY <2>2, Zenon DEF r
  <1> QED BY <1>1, <1>2, Zenon

\* The first k elements of a sequence.
LEMMA FirstOf ==
    ASSUME NEW S, NEW s \in Seq(S), NEW k \in Nat, k <= Len(s)
    PROVE  /\ SubSeq(s, 1, k) \in Seq(S) /\ Len(SubSeq(s, 1, k)) = k
           /\ \A i \in 1..k : SubSeq(s, 1, k)[i] = s[i]
  OBVIOUS

\* updateConsumers cuts the answer that way.
LEMMA NewBlocksOf ==
    ASSUME NEW bc, NEW a, IsAnswer(a), NEW f, IsFound(f, bc, a), Len(bc) \in Nat
    PROVE  IsNew(NewBlocks(f, a), bc, a)
  <1> DEFINE height == IF f.height = 1 THEN 0 ELSE f.height
             offset == IF height = 0 THEN 0 ELSE height - a.from
             part == SubSeq(a.blocks, offset + 1, Len(a.blocks))
  <1>1. NewBlocks(f, a) = [detach |-> f.detach, at |-> f.height, new |-> f.new,
                           height |-> height, offset |-> offset, blocks |-> part]
    BY Zenon DEF NewBlocks
  <1>2. a.from \in Nat /\ a.blocks \in Seq(Blocks) /\ Len(a.blocks) \in Nat
    BY DEF IsAnswer
  <1>3. CASE f.new
    <2>1. /\ f.height \in Nat \ {0} /\ a.from <= f.height
          /\ f.height <= Len(bc)
      BY <1>3, Zenon DEF IsFound
    <2>2. offset \in Nat /\ a.from + offset <= f.height
      BY <1>2, <2>1
    <2> HIDE DEF offset, height
    <2>3. /\ part \in Seq(Blocks)
          /\ \A i \in 1..Len(part) : /\ offset + i \in 1..Len(a.blocks)
                                     /\ part[i] = a.blocks[offset + i]
      BY <1>2, <2>2, RestOf, Zenon
    <2> HIDE DEF part
    <2>4. ASSUME NEW i \in 1..Len(part) PROVE Height(part[i]) < f.height + i
      <3>1. Height(part[i]) = a.from + (offset + i) - 1
        BY <2>3, Zenon DEF IsAnswer
      <3>2. i \in Nat
        BY <2>3
      <3> QED BY <1>2, <2>1, <2>2, <3>1, <3>2
    <2> QED BY <1>1, <1>3, <2>1, <2>2, <2>3, <2>4 DEF IsNew, IsFound
  <1>4. CASE ~f.new
    <2>1. offset = 0
      BY <1>4, Zenon DEF IsFound
    <2> HIDE DEF offset
    <2>2. part \in Seq(Blocks)
      BY <1>2, <2>1, RestOf, Zenon
    <2> QED BY <1>1, <1>4, <2>2 DEF IsNew, IsFound
  <1> QED BY <1>3, <1>4, Zenon DEF IsFound

\* Two sequences, one after the other.
LEMMA JoinOf ==
    ASSUME NEW S, NEW s \in Seq(S), NEW t \in Seq(S)
    PROVE  /\ s \o t \in Seq(S) /\ Len(s \o t) = Len(s) + Len(t)
           /\ \A i \in 1..Len(s) : (s \o t)[i] = s[i]
           /\ \A i \in Len(s) + 1..Len(s) + Len(t) : (s \o t)[i] = t[i - Len(s)]
  OBVIOUS

\* A consumer that takes some of its new blocks stays well formed.
LEMMA UpdateConsumerOf ==
    ASSUME NEW x, IsConsumer(x), NEW a, NEW new, IsNew(new, x.blockchain, a),
           NEW n \in 0..Len(new.blocks)
    PROVE  IsConsumer(UpdateConsumer(x, new, n))
  <1> DEFINE before == IF new.detach THEN detach(x, new.at) ELSE x
             after == onNewBlocks(before, new.blocks, new.height, n)
             bc == before.blockchain
             more == SubSeq(new.blocks, 1, n)
  <1>1. /\ x.blockchain \in Seq(Blocks) /\ Len(x.blockchain) \in Nat \ {0}
        /\ x.blockchain[1] = Genesis
        /\ \A i \in 1..Len(x.blockchain) : Height(x.blockchain[i]) < i
        /\ DOMAIN x = {"blockchain", "record", "pool"}
    BY DEF IsConsumer
  <1>2. IsConsumer(before) /\ (new.new => Len(bc) = new.at)
    <2>1. CASE new.detach
      <3>1. new.at \in Nat \ {0} /\ new.at <= Len(x.blockchain)
        BY <2>1, Zenon DEF IsNew
      <3>2. DOMAIN before = {"blockchain", "record", "pool"}
        BY <1>1, <2>1, Zenon DEF detach, onBlockchainDetach
      <3>3. bc = SubSeq(x.blockchain, 1, new.at)
        BY <1>1, <2>1, Zenon DEF detach, onBlockchainDetach
      <3> HIDE DEF bc, before
      <3>4. /\ bc \in Seq(Blocks) /\ Len(bc) = new.at
            /\ \A i \in 1..new.at : bc[i] = x.blockchain[i]
        <4>1. new.at \in Nat
          BY <3>1
        <4> QED BY <1>1, <3>1, <3>3, <4>1, FirstOf, Zenon
      <3> QED BY <1>1, <3>1, <3>2, <3>4 DEF IsConsumer, bc
    <2>2. CASE ~new.detach
      BY <2>2, Zenon DEF IsNew
    <2> QED BY <2>1, <2>2, Zenon
  <1>3. CASE ~new.new
    BY <1>2, <1>3, Zenon DEF UpdateConsumer
  <1>4. CASE new.new
    <2> DEFINE y == UpdateConsumer(x, new, n)
    <2>1. /\ DOMAIN after = {"blockchain", "record", "pool"}
          /\ after.blockchain = bc
      BY <1>2, Zenon DEF onNewBlocks, onBlockchainDetach, IsConsumer
    <2>2. y = [after EXCEPT !.blockchain = @ \o more]
      BY <1>4, Zenon DEF UpdateConsumer
    <2>3. DOMAIN y = {"blockchain", "record", "pool"} /\ y.blockchain = bc \o more
      <3> HIDE DEF y, after, bc, more
      <3> QED BY <2>1, <2>2, Zenon
    <2>4. /\ new.blocks \in Seq(Blocks)
          /\ \A i \in 1..Len(new.blocks) : Height(new.blocks[i]) < new.at + i
      BY <1>4, Zenon DEF IsNew
    <2>5. /\ more \in Seq(Blocks) /\ Len(more) = n /\ n \in Nat
          /\ \A i \in 1..n : more[i] = new.blocks[i]
      BY <2>4
    <2>6. /\ bc \in Seq(Blocks) /\ Len(bc) = new.at /\ new.at \in Nat \ {0} /\ bc[1] = Genesis
          /\ \A i \in 1..new.at : Height(bc[i]) < i
      BY <1>2, <1>4, Zenon DEF IsConsumer, IsNew
    <2> HIDE DEF y, bc, more
    <2>7. /\ bc \o more \in Seq(Blocks) /\ Len(bc \o more) = new.at + n
          /\ \A i \in 1..new.at : (bc \o more)[i] = bc[i]
          /\ \A i \in new.at + 1..new.at + n : (bc \o more)[i] = more[i - new.at]
      <3>1. /\ bc \o more \in Seq(Blocks) /\ Len(bc \o more) = Len(bc) + Len(more)
            /\ \A i \in 1..Len(bc) : (bc \o more)[i] = bc[i]
            /\ \A i \in Len(bc) + 1..Len(bc) + Len(more) : (bc \o more)[i] = more[i - Len(bc)]
        BY <2>5, <2>6, JoinOf, Zenon
      <3>2. Len(bc) = new.at /\ Len(more) = n
        BY <2>5, <2>6, Zenon
      <3> QED BY <3>1, <3>2, Zenon
    <2>8. ASSUME NEW i \in 1..new.at + n PROVE Height((bc \o more)[i]) < i
      <3>1. CASE i \in 1..new.at
        BY <2>6, <2>7, <3>1, Zenon
      <3>2. CASE i \in new.at + 1..new.at + n
        <4>1. i - new.at \in 1..n /\ i - new.at \in 1..Len(new.blocks) /\ new.at + (i - new.at) = i
          BY <2>5, <2>6, <3>2
        <4>2. (bc \o more)[i] = new.blocks[i - new.at]
          BY <2>5, <2>7, <3>2, <4>1, Zenon
        <4>3. Height(new.blocks[i - new.at]) < new.at + (i - new.at)
          BY <2>4, <4>1, Zenon
        <4> QED BY <4>1, <4>2, <4>3, Zenon
      <3>3. i \in 1..new.at \/ i \in new.at + 1..new.at + n
        BY <2>5, <2>6
      <3> QED BY <3>1, <3>2, <3>3, Zenon
    <2>9. (bc \o more)[1] = Genesis /\ Len(bc \o more) > 0
      BY <2>5, <2>6, <2>7
    <2>10. IsConsumer(y)
      BY <2>3, <2>7, <2>8, <2>9, Zenon DEF IsConsumer
    <2> QED BY <2>10, Zenon DEF y
  <1> QED BY <1>3, <1>4, Zenon DEF IsNew

\* lastBlockId is a block of the answer.
LEMMA LastBlockOf ==
    ASSUME SyncOK, NEW a, IsAnswer(a), NEW new, NEW taken,
           \A c \in sync.members :
              /\ \E bc : IsNew(new[c], bc, a)
              /\ taken[c] \in 0..Len(new[c].blocks)
    PROVE  LastBlock(a, new, taken) \in Blocks \cup {NoBlock}
  <1> DEFINE takers == {c \in sync.members : new[c].new /\ taken[c] > 0}
             ends == {new[c].offset + taken[c] : c \in takers}
  <1>1. ASSUME NEW c \in takers PROVE new[c].offset + taken[c] \in 1..Len(a.blocks)
    <2>1. PICK bc : IsNew(new[c], bc, a)
      BY Zenon
    <2>2. taken[c] \in 1..Len(new[c].blocks) /\ new[c].new
      BY <2>1 DEF IsNew
    <2> QED BY <2>1, <2>2, Zenon DEF IsNew
  <1>2. \A e \in ends : e \in 1..Len(a.blocks)
    BY <1>1, Zenon
  <1>3. CASE ends = {}
    BY <1>3, Zenon DEF LastBlock, SyncOK
  <1>4. CASE ends # {}
    <2>1. LastBlock(a, new, taken) = a.blocks[Min(ends)]
      BY <1>4, Zenon DEF LastBlock
    <2> HIDE DEF ends
    <2>2. a.blocks \in Seq(Blocks) /\ Len(a.blocks) \in Nat
      BY DEF IsAnswer
    <2>3. ends \in SUBSET Nat
      BY <1>2, <2>2
    <2>4. Min(ends) \in ends
      BY <1>4, <2>3, MinIsLeast, Zenon
    <2> QED BY <1>2, <2>1, <2>2, <2>4
  <1> QED BY <1>3, <1>4, Zenon

\* The daemon moves on its own.
LEMMA DaemonMembers ==
    ASSUME MembersInv, QuietInv', DaemonStep PROVE MembersInv'
  <1>1. UNCHANGED <<proxy, sync, consumer, call>>
    BY Zenon DEF DaemonStep, DaemonReceives, TransactionEnters, TransactionLeaves
  <1>2. DaemonOK'
    <2>1. CASE DaemonReceives
      BY <2>1, SynchronizerAssumption DEF MembersInv, DaemonOK, DaemonReceives
    <2>2. CASE TransactionEnters
      BY <2>2, Zenon DEF MembersInv, DaemonOK, TransactionEnters
    <2>3. CASE TransactionLeaves
      BY <2>3, Zenon DEF MembersInv, DaemonOK, TransactionLeaves
    <2> QED BY <2>1, <2>2, <2>3, Zenon DEF DaemonStep
  <1>3. SyncOK' /\ PlaceOK' /\ CallOK' /\ ConsumersOK'
    BY <1>1, Zenon DEF MembersInv, SyncOK, PlaceOK, CallOK, ConsumersOK
  <1>4. HistoryOK'
    BY <1>1, Zenon DEF MembersInv, HistoryOK
  <1> QED BY <1>2, <1>3, <1>4, Zenon DEF MembersInv

\* A step of the wallet or the proxy leaves the thread in its state.
IsOutside ==
    /\ UNCHANGED <<daemon, call, consumer>>
    /\ proxy'.tail \in Blocks \cup {NoBlock}
    /\ sync'.last = sync.last
    /\ sync'.members = sync.members /\ sync'.current = sync.current
    /\ sync'.thread # sync.thread => sync'.thread = "loop" /\ sync.thread = "none"

\* Such a step keeps the types.
LEMMA OutsideMembers ==
    ASSUME MembersInv, QuietInv', IsOutside PROVE MembersInv'
  <1>1. DaemonOK' /\ ConsumersOK'
    BY Zenon DEF MembersInv, DaemonOK, ConsumersOK, IsOutside
  <1>2. SyncOK' /\ PlaceOK' /\ CallOK'
    BY Zenon DEF MembersInv, SyncOK, PlaceOK, CallOK, IsOutside
  <1>3. HistoryOK'
    BY Zenon DEF MembersInv, HistoryOK, IsOutside
  <1> QED BY <1>1, <1>2, <1>3, Zenon DEF MembersInv

\* A new consumer has the genesis block.
LEMMA NewConsumerOf == IsConsumer(NewConsumer)
  <1>1. <<Genesis>> \in Seq(Blocks) /\ Len(<<Genesis>>) = 1 /\ <<Genesis>>[1] = Genesis
    BY SynchronizerAssumption
  <1>2. \A i \in 1..1 : Height(<<Genesis>>[i]) < i
    BY <1>1, HeightIsNatural
  <1> QED BY <1>1, <1>2 DEF IsConsumer, NewConsumer

\* Consumers come and go while the synchroniser is stopped.
LEMMA ChangeMembers ==
    ASSUME MembersInv, QuietInv', addConsumer \/ removeConsumer PROVE MembersInv'
  <1>1. sync.current = "stopped" /\ UNCHANGED <<daemon, proxy, call>>
    BY Zenon DEF addConsumer, removeConsumer, checkIfStopped
  <1>2. DOMAIN sync = Fields /\ sync.thread \in {"none", "loop"}
    BY <1>1, Zenon DEF MembersInv, QuietInv
  <1>3. PICK c \in Consumers, M \in SUBSET Consumers :
          /\ sync' = [sync EXCEPT !.members = M]
          /\ consumer' = [consumer EXCEPT ![c] = NewConsumer]
    <2>1. sync.members \subseteq Consumers
      BY Zenon DEF MembersInv, SyncOK
    <2>2. CASE addConsumer
      <3>1. PICK c \in Consumers \ sync.members :
              /\ sync' = [sync EXCEPT !.members = sync.members \cup {c}]
              /\ consumer' = [consumer EXCEPT ![c] = NewConsumer]
        BY <2>2, Zenon DEF addConsumer
      <3>2. sync.members \cup {c} \in SUBSET Consumers
        BY <2>1, Zenon
      <3> QED BY <3>1, <3>2, Zenon
    <2>3. CASE removeConsumer
      <3>1. PICK c \in sync.members :
              /\ sync' = [sync EXCEPT !.members = sync.members \ {c}]
              /\ consumer' = [consumer EXCEPT ![c] = NewConsumer]
        BY <2>3, Zenon DEF removeConsumer
      <3>2. sync.members \ {c} \in SUBSET Consumers /\ c \in Consumers
        BY <2>1, Zenon
      <3> QED BY <3>1, <3>2, Zenon
    <2> QED BY <2>2, <2>3, Zenon
  <1>4. sync'.members = M /\ \A g \in Fields \ {"members"} : sync'[g] = sync[g]
    BY <1>2, <1>3, Zenon DEF Fields
  <1>5. ConsumersOK'
    BY <1>3, NewConsumerOf, Zenon DEF MembersInv, ConsumersOK
  <1>6. CallOK'
    BY <1>1, <1>2, <1>4, Zenon DEF MembersInv, CallOK, Fields
  <1>7. SyncOK' /\ PlaceOK' /\ DaemonOK'
    BY <1>1, <1>2, <1>4, Zenon DEF MembersInv, SyncOK, PlaceOK, DaemonOK, Fields
  <1>8. HistoryOK'
    BY <1>2, <1>4, Zenon DEF HistoryOK, Fields
  <1> QED BY <1>5, <1>6, <1>7, <1>8, Zenon DEF MembersInv

\* The other calls of the wallet.
LEMMA WalletMembers ==
    ASSUME MembersInv, QuietInv', WalletStep PROVE MembersInv'
  <1>1. /\ DOMAIN sync = Fields /\ DOMAIN proxy = {"tail", "known", "event", "called"}
        /\ proxy.tail \in Blocks \cup {NoBlock} /\ sync.last \in Blocks \cup {NoBlock}
    BY Zenon DEF MembersInv, QuietInv, SyncOK
  <1>2. CASE addConsumer \/ removeConsumer
    BY <1>2, ChangeMembers, Zenon
  <1>3. CASE start
    <2>1. IsOutside
      BY <1>1, <1>3, Zenon DEF IsOutside, start, Owner, Fields
    <2> QED BY <2>1, OutsideMembers, Zenon
  <1>4. CASE stop
    <2>1. IsOutside
      BY <1>1, <1>4, Zenon DEF IsOutside, stop, Owner, setFutureState, Fields
    <2> QED BY <2>1, OutsideMembers, Zenon
  <1>5. CASE addUnconfirmedTransaction
    <2>1. IsOutside
      BY <1>1, <1>5, Zenon DEF IsOutside, addUnconfirmedTransaction, Owner, Fields
    <2> QED BY <2>1, OutsideMembers, Zenon
  <1>6. CASE removeUnconfirmedTransaction
    <2>1. IsOutside
      BY <1>1, <1>6, Zenon DEF IsOutside, removeUnconfirmedTransaction, Owner, Fields
    <2> QED BY <2>1, OutsideMembers, Zenon
  <1>7. CASE Reopen
    <2>1. /\ sync' = [sync EXCEPT !.wasStarted = FALSE, !.last = NoBlock]
          /\ proxy'.tail = NoBlock /\ sync.thread = "none" /\ UNCHANGED <<daemon, call>>
      BY <1>1, <1>7, Zenon DEF Reopen
    <2>2. PICK gone : consumer' = [c \in Consumers |-> [consumer[c] EXCEPT !.pool = @ \ gone]]
      BY <1>7, Zenon DEF Reopen
    <2>3. ConsumersOK'
      BY <2>2, Zenon DEF MembersInv, ConsumersOK, IsConsumer
    <2>4. sync'.last = NoBlock /\ \A g \in Fields \ {"wasStarted", "last"} : sync'[g] = sync[g]
      BY <1>1, <2>1, Zenon DEF Fields
    <2>5. SyncOK' /\ PlaceOK' /\ DaemonOK' /\ CallOK'
      BY <2>1, <2>4, Zenon DEF MembersInv, SyncOK, PlaceOK, DaemonOK, CallOK, Fields
    <2>6. HistoryOK'
      BY <2>1, <2>4, Zenon DEF HistoryOK, Fields
    <2> QED BY <2>3, <2>5, <2>6, Zenon DEF MembersInv
  <1> QED BY <1>2, <1>3, <1>4, <1>5, <1>6, <1>7, Zenon DEF WalletStep

\* The proxy sees the top block, and raises the next state.
LEMMA ProxyMembers ==
    ASSUME MembersInv, QuietInv', ProxyThread PROVE MembersInv'
  <1>1. /\ DOMAIN sync = Fields /\ DOMAIN proxy = {"tail", "known", "event", "called"}
        /\ proxy.tail \in Blocks \cup {NoBlock} /\ sync.last \in Blocks \cup {NoBlock}
        /\ daemon.top \in Blocks
    BY Zenon DEF MembersInv, QuietInv, SyncOK, DaemonOK
  <1>2. CASE updateBlockchainStatus
    <2>1. IsOutside
      BY <1>1, <1>2, Zenon DEF IsOutside, updateBlockchainStatus, ProxyStep
    <2> QED BY <2>1, OutsideMembers, Zenon
  <1>3. CASE updatePoolStatus
    <2>1. IsOutside
      BY <1>1, <1>3, Zenon DEF IsOutside, updatePoolStatus, ProxyStep
    <2> QED BY <2>1, OutsideMembers, Zenon
  <1>4. CASE notify
    <2>1. IsOutside
      BY <1>1, <1>4, Zenon DEF IsOutside, notify, ProxyStep
    <2> QED BY <2>1, OutsideMembers, Zenon
  <1>5. CASE observerCalled
    <2>1. IsOutside
      BY <1>1, <1>5, Zenon DEF IsOutside, observerCalled, ProxyStep, setFutureState, Fields
    <2> QED BY <2>1, OutsideMembers, Zenon
  <1> QED BY <1>2, <1>3, <1>4, <1>5, Zenon DEF ProxyThread

\* The thread enters the state that is next.  For blockchainSync it takes the
\* history of a consumer with the fewest blocks.
LEMMA ActualizeMembers ==
    ASSUME MembersInv, QuietInv', actualizeFutureState PROVE MembersInv'
  <1> DEFINE s == Actualized
             Entered(state, t) == sync.future = state /\ sync'.thread = t
             Asked(c) == call' = [NoCall EXCEPT !.history = getShortHistory(consumer[c].blockchain)]
  <1>1. /\ DOMAIN s = Fields /\ s.current = sync.future
        /\ s.last = sync.last /\ s.members = sync.members
    BY Zenon DEF Actualized, MembersInv, QuietInv, Fields
  <1>2. UNCHANGED <<daemon, proxy, consumer>>
    BY Zenon DEF actualizeFutureState, Working
  <1> HIDE DEF s
  <1>3. /\ sync'.current = sync.future
        /\ sync'.last = sync.last /\ sync'.members = sync.members
        /\ \/ (\/ Entered("stopped", "none") \/ Entered("deleteOldTxs", "deleting")
               \/ Entered("poolSync", "pool") \/ Entered("idle", "idle")) /\ call' = NoCall
           \/ Entered("blockchainSync", "blocks") /\ \E c \in Shortest : Asked(c)
    <2>1. CASE sync.future = "blockchainSync"
      BY <1>1, <2>1, Zenon DEF actualizeFutureState, Working, Fields, s
    <2>2. CASE sync.future # "blockchainSync"
      BY <1>1, <2>2, Zenon DEF actualizeFutureState, Working, Fields, s
    <2> QED BY <2>1, <2>2, Zenon
  <1>4. DaemonOK' /\ ConsumersOK'
    BY <1>2, Zenon DEF MembersInv, DaemonOK, ConsumersOK
  <1>5. SyncOK' /\ PlaceOK'
    BY <1>2, <1>3, Zenon DEF MembersInv, SyncOK, PlaceOK
  <1>6. CallOK'
    BY <1>3 DEF CallOK, NoCall
  <1>7. HistoryOK'
    <2> SUFFICES ASSUME sync'.thread = "blocks" PROVE HistoryOK'
      BY Zenon DEF HistoryOK
    <2>1. PICK c \in Shortest : Asked(c)
      BY <1>3, Zenon
    <2>2. call'.history = getShortHistory(consumer[c].blockchain)
      BY <2>1, Zenon DEF NoCall
    <2>3. /\ c \in sync.members /\ c \in Consumers
          /\ \A d \in sync.members :
                Len(consumer[c].blockchain) <= Len(consumer[d].blockchain)
      BY Zenon DEF Shortest, MembersInv, SyncOK
    <2>4. \A d \in Consumers : IsConsumer(consumer[d])
      BY Zenon DEF MembersInv, ConsumersOK
    <2>5. /\ call'.history \in Seq(Blocks)
          /\ \A i \in 1..Len(call'.history) :
                Height(call'.history[i]) < Len(consumer[c].blockchain)
      BY <2>2, <2>3, <2>4, ShortHistoryOf, Zenon DEF MembersInv
    <2>6. \A d \in sync.members : Len(consumer[d].blockchain) \in Nat
      BY <2>4 DEF MembersInv, SyncOK, IsConsumer
    <2>7. \A i \in 1..Len(call'.history) :
             call'.history[i] \in Blocks /\ Height(call'.history[i]) \in Nat
      BY <2>5, HeightIsNatural
    <2>8. ASSUME NEW i \in 1..Len(call'.history), NEW d \in sync.members
          PROVE  Height(call'.history[i]) < Len(consumer[d].blockchain)
      BY <2>3, <2>5, <2>6, <2>7
    <2> QED BY <1>2, <1>3, <2>5, <2>8, Zenon DEF HistoryOK, Height
  <1> QED BY <1>4, <1>5, <1>6, <1>7, Zenon DEF MembersInv

\* A step inside a state leads to the top of the loop, or to another place of
\* the same state.
IsInside(s, t) ==
    /\ Working(s, t) /\ Keeps(s, t)
    /\ s.last \in Blocks \cup {NoBlock}
    /\ \/ t = "loop" /\ call'.left = {}
       \/ t = "retry" /\ sync.thread = "deleting" /\ call'.left = {}
       \/ t \in {"pool2", "update"} /\ sync.thread \in {"pool", "pool2", "update"}
    /\ DOMAIN call' = {"history", "added", "deleted", "left"}
    /\ call'.left \subseteq sync.members

\* Such a step keeps the types if it keeps the consumers.
LEMMA InsideMembers ==
    ASSUME MembersInv, QuietInv', ConsumersOK', NEW s, NEW t, IsInside(s, t)
    PROVE  MembersInv'
  <1>1. UNCHANGED <<daemon, proxy>> /\ DOMAIN s = Fields /\ sync' = [s EXCEPT !.thread = t]
    BY Zenon DEF IsInside, Working, Keeps
  <1>2. /\ sync'.last = s.last /\ sync'.thread = t
        /\ sync'.current = sync.current /\ sync'.members = sync.members
    BY <1>1, Zenon DEF IsInside, Keeps, Fields
  <1>3. DaemonOK' /\ SyncOK'
    BY <1>1, <1>2, Zenon DEF MembersInv, DaemonOK, SyncOK, IsInside
  <1>4. PlaceOK' /\ CallOK'
    BY <1>2, Zenon DEF MembersInv, PlaceOK, CallOK, IsInside
  <1>5. HistoryOK'
    BY <1>2, Zenon DEF HistoryOK, IsInside
  <1> QED BY <1>3, <1>4, <1>5, Zenon DEF MembersInv

\* The answer of the daemon, as every consumer finds it.
LEMMA AnswerForConsumers ==
    ASSUME MembersInv, sync.thread = "blocks", IsKnown(call.history), NEW answer,
           answer = queryBlocksLite(Supplement(call.history))
    PROVE  /\ IsAnswer(answer)
           /\ \A c \in sync.members : answer.from < Len(consumer[c].blockchain)
  <1>1. /\ call.history \in Seq(Blocks)
        /\ \A i \in 1..Len(call.history) : \A c \in sync.members :
              Height(call.history[i]) < Len(consumer[c].blockchain)
    BY Zenon DEF MembersInv, HistoryOK
  <1>2. DaemonOK
    BY Zenon DEF MembersInv
  <1>3. IsAnswer(answer) /\ \E i \in 1..Len(call.history) : answer.from = Height(call.history[i])
    BY <1>1, <1>2, AnswerOf, Zenon
  <1> QED BY <1>1, <1>3, Zenon

\* What each consumer may be given, and how much of it.
AreNew(new, taken, a) ==
    \A c \in sync.members : /\ IsNew(new[c], consumer[c].blockchain, a)
                            /\ taken[c] \in 0..Len(new[c].blocks)

\* updateConsumers keeps every consumer well formed.
LEMMA UpdatedOf ==
    ASSUME ConsumersOK, SyncOK, NEW a, NEW new, NEW taken, AreNew(new, taken, a)
    PROVE  /\ DOMAIN Updated(new, taken) = Consumers
           /\ \A c \in Consumers : IsConsumer(Updated(new, taken)[c])
  <1>1. DOMAIN Updated(new, taken) = Consumers
    BY Zenon DEF Updated
  <1>2. ASSUME NEW c \in Consumers PROVE IsConsumer(Updated(new, taken)[c])
    <2>1. IsConsumer(consumer[c])
      BY Zenon DEF ConsumersOK
    <2>2. CASE c \in sync.members
      <3>1. IsNew(new[c], consumer[c].blockchain, a) /\ taken[c] \in 0..Len(new[c].blocks)
        BY <2>2, Zenon DEF AreNew
      <3>2. IsConsumer(UpdateConsumer(consumer[c], new[c], taken[c]))
        BY <2>1, <3>1, UpdateConsumerOf, Zenon
      <3>3. Updated(new, taken)[c] = UpdateConsumer(consumer[c], new[c], taken[c])
        BY <2>2, Zenon DEF Updated
      <3> QED BY <3>2, <3>3, Zenon
    <2>3. CASE c \notin sync.members
      BY <2>1, <2>3, Zenon DEF Updated
    <2> QED BY <2>2, <2>3, Zenon
  <1> QED BY <1>1, <1>2, Zenon

\* A transaction that a consumer failed to confirm may be dropped.
LEMMA PoolOfConsumer ==
    ASSUME NEW f, DOMAIN f = Consumers, \A c \in Consumers : IsConsumer(f[c]),
           NEW c \in Consumers, NEW P
    PROVE  LET g == [f EXCEPT ![c] = [f[c] EXCEPT !.pool = P]]
           IN  DOMAIN g = Consumers /\ \A d \in Consumers : IsConsumer(g[d])
  BY Zenon DEF IsConsumer

\* An answer is applied to all consumers, or to the first of them up to a
\* failure.
LEMMA ProcessBlocksMembers ==
    ASSUME MembersInv, QuietInv', sync.thread = "blocks", call' = NoCall,
           NEW answer, NEW new, NEW all, IsAnswer(answer), AreNew(new, all, answer),
           DOMAIN all = sync.members,
           processBlocks(answer, new, all)
    PROVE  MembersInv'
  <1>1. /\ ConsumersOK /\ SyncOK /\ sync.last \in Blocks \cup {NoBlock}
        /\ sync.members \subseteq Consumers /\ "loop" \in Places \ {"none"}
    BY Zenon DEF MembersInv, SyncOK, Places
  <1>2. DOMAIN call' = {"history", "added", "deleted", "left"} /\ call'.left = {}
    BY Zenon DEF NoCall
  <1>3. Keeps(sync, "loop") /\ Keeps(GiveUp(sync), "loop")
        /\ Keeps(setFutureState(sync, "blockchainSync"), "loop")
    BY <1>1, IsRunning, Zenon DEF MembersInv
  <1>4. ASSUME NEW s \in {GiveUp(sync), setFutureState(sync, "blockchainSync")}, NEW taken,
               AreNew(new, taken, answer),
               Working([s EXCEPT !.last = LastBlock(answer, new, taken)], "loop")
        PROVE  IsInside([s EXCEPT !.last = LastBlock(answer, new, taken)], "loop")
    <2> DEFINE last == LastBlock(answer, new, taken)
    <2>1. last \in Blocks \cup {NoBlock}
      BY <1>1, <1>4, LastBlockOf, Zenon DEF AreNew
    <2> HIDE DEF last
    <2>2. Keeps(s, "loop")
      BY <1>3, Zenon
    <2>3. Keeps([s EXCEPT !.last = last], "loop") /\ [s EXCEPT !.last = last].last = last
      BY <2>2, Zenon DEF Keeps, Fields
    <2> QED BY <1>2, <1>4, <2>1, <2>3, Zenon DEF IsInside, last
  <1>5. CASE Working(sync, "loop") /\ UNCHANGED consumer
    <2>1. IsInside(sync, "loop")
      BY <1>1, <1>2, <1>3, <1>5, Zenon DEF IsInside
    <2>2. ConsumersOK'
      BY <1>1, <1>5, Zenon DEF ConsumersOK
    <2> QED BY <2>1, <2>2, InsideMembers, Zenon
  <1>6. CASE /\ consumer' = Updated(new, all)
             /\ \/ Working([setFutureState(sync, "blockchainSync") EXCEPT
                              !.last = LastBlock(answer, new, all)], "loop")
                \/ Working(sync, "loop")
    <2>1. ConsumersOK'
      BY <1>1, <1>6, UpdatedOf, Zenon DEF ConsumersOK
    <2>2. CASE Working(sync, "loop")
      <3>1. IsInside(sync, "loop")
        BY <1>1, <1>2, <1>3, <2>2, Zenon DEF IsInside
      <3> QED BY <2>1, <3>1, InsideMembers, Zenon
    <2>3. CASE Working([setFutureState(sync, "blockchainSync") EXCEPT
                          !.last = LastBlock(answer, new, all)], "loop")
      BY <1>4, <2>1, <2>3, InsideMembers, Zenon
    <2> QED BY <1>6, <2>2, <2>3, Zenon
  <1>7. ASSUME NEW c \in sync.members, NEW n \in 0..all[c] - 1, NEW taken, NEW lost,
               taken = [all EXCEPT ![c] = n],
               consumer' = [Updated(new, taken) EXCEPT ![c].pool = @ \ lost],
               Working([GiveUp(sync) EXCEPT !.last = LastBlock(answer, new, taken)], "loop")
        PROVE  MembersInv'
    <2>1. AreNew(new, taken, answer)
      <3> SUFFICES ASSUME NEW d \in sync.members
                   PROVE  IsNew(new[d], consumer[d].blockchain, answer)
                          /\ taken[d] \in 0..Len(new[d].blocks)
        BY Zenon DEF AreNew
      <3>1. IsNew(new[d], consumer[d].blockchain, answer) /\ all[d] \in 0..Len(new[d].blocks)
        BY Zenon DEF AreNew
      <3>2. taken[d] = IF d = c THEN n ELSE all[d]
        BY <1>7, Zenon
      <3>3. Len(new[d].blocks) \in Nat
        BY <3>1 DEF IsNew
      <3> QED BY <3>1, <3>2, <3>3
    <2>2. /\ DOMAIN Updated(new, taken) = Consumers
          /\ \A d \in Consumers : IsConsumer(Updated(new, taken)[d])
      BY <1>1, <2>1, UpdatedOf, Zenon
    <2>3. ConsumersOK'
      <3> DEFINE f == Updated(new, taken)
      <3>1. consumer' = [f EXCEPT ![c] = [f[c] EXCEPT !.pool = f[c].pool \ lost]]
        BY <1>7, Zenon
      <3> HIDE DEF f
      <3>2. c \in Consumers /\ DOMAIN f = Consumers /\ \A d \in Consumers : IsConsumer(f[d])
        BY <1>1, <2>2, Zenon DEF f
      <3> QED BY <3>1, <3>2, PoolOfConsumer DEF ConsumersOK
    <2> QED BY <1>4, <1>7, <2>1, <2>3, InsideMembers, Zenon
  <1>8. CASE /\ sync.future # "stopped" /\ MayFail /\ Fails
             /\ \E c \in {c \in sync.members : new[c].new} :
                  \E n \in Partial \cap 0..all[c] - 1 :
                     \E taken \in {[all EXCEPT ![c] = n]} :
                        /\ \E lost \in {{}} \cup {{t} : t \in consumer[c].pool} :
                             consumer' = [Updated(new, taken) EXCEPT ![c].pool = @ \ lost]
                        /\ Working([GiveUp(sync) EXCEPT
                                      !.last = LastBlock(answer, new, taken)], "loop")
    BY <1>7, <1>8, Zenon
  <1> QED BY <1>5, <1>6, <1>8, Zenon DEF processBlocks

\* The answer comes, or the request fails.
LEMMA BlocksMembers ==
    ASSUME MembersInv, QuietInv', startBlockchainSync \/ queryBlocksFails PROVE MembersInv'
  <1>1. sync.thread = "blocks" /\ call' = NoCall
    BY Zenon DEF startBlockchainSync, queryBlocksFails
  <1>2. CASE queryBlocksFails
    <2>1. Working(GiveUp(sync), "loop") /\ UNCHANGED consumer
      BY <1>2, Zenon DEF queryBlocksFails
    <2>2. Keeps(GiveUp(sync), "loop")
      BY <1>1, IsRunning DEF MembersInv, Places
    <2>3. DOMAIN sync = Fields /\ sync.future \in States /\ sync.last \in Blocks \cup {NoBlock}
      BY Zenon DEF MembersInv, QuietInv, SyncOK
    <2>4. GiveUp(sync).last = sync.last
      BY <2>3, GiveUpOf, Zenon DEF Fields
    <2>5. IsInside(GiveUp(sync), "loop")
      BY <1>1, <2>1, <2>2, <2>3, <2>4, Zenon DEF IsInside, NoCall
    <2>6. ConsumersOK'
      BY <2>1, Zenon DEF MembersInv, ConsumersOK
    <2> QED BY <2>5, <2>6, InsideMembers, Zenon
  <1>3. CASE startBlockchainSync
    <2>1. PICK answer, found, new, all :
            /\ IsKnown(call.history) /\ answer = queryBlocksLite(Supplement(call.history))
            /\ found = [c \in sync.members |-> checkInterval(consumer[c].blockchain, answer)]
            /\ new = [c \in sync.members |-> NewBlocks(found[c], answer)]
            /\ all = [c \in sync.members |-> Len(new[c].blocks)]
            /\ processBlocks(answer, new, all)
      BY <1>3, Zenon DEF startBlockchainSync
    <2>2. IsAnswer(answer) /\ \A c \in sync.members : answer.from < Len(consumer[c].blockchain)
      BY <1>1, <2>1, AnswerForConsumers, Zenon
    <2>3. ASSUME NEW c \in sync.members
          PROVE  /\ IsNew(new[c], consumer[c].blockchain, answer)
                 /\ all[c] \in 0..Len(new[c].blocks)
      <3>1. IsConsumer(consumer[c])
        BY Zenon DEF MembersInv, SyncOK, ConsumersOK
      <3>2. found[c] = checkInterval(consumer[c].blockchain, answer)
        BY <2>1, Zenon
      <3>3. IsFound(found[c], consumer[c].blockchain, answer)
        BY <2>2, <3>1, <3>2, CheckIntervalOf, Zenon
      <3>4. new[c] = NewBlocks(found[c], answer) /\ all[c] = Len(new[c].blocks)
        BY <2>1, Zenon
      <3>5. Len(consumer[c].blockchain) \in Nat
        BY <3>1 DEF IsConsumer
      <3>6. IsNew(new[c], consumer[c].blockchain, answer)
        BY <2>2, <3>3, <3>4, <3>5, NewBlocksOf, Zenon
      <3>7. Len(new[c].blocks) \in Nat
        BY <3>6 DEF IsNew
      <3> QED BY <3>4, <3>6, <3>7
    <2>4. AreNew(new, all, answer) /\ DOMAIN all = sync.members
      BY <2>1, <2>3, Zenon DEF AreNew
    <2> QED BY <1>1, <2>1, <2>2, <2>4, ProcessBlocksMembers, Zenon
  <1> QED BY <1>2, <1>3, Zenon

\* The steps of the pool touch m_poolTxs only.
LEMMA PoolMembers ==
    ASSUME MembersInv, QuietInv',
           \/ removeOutdatedTransactions \/ removeOutdatedFails \/ retryOutdated
           \/ startPoolSync \/ intersectionAnswered \/ poolRequestFails
           \/ processPoolTxs
    PROVE  MembersInv'
  <1>1. /\ DOMAIN sync = Fields /\ sync.last \in Blocks \cup {NoBlock}
        /\ sync.future \in States
        /\ DOMAIN call = {"history", "added", "deleted", "left"}
        /\ call.left \subseteq sync.members /\ sync.members \subseteq Consumers
        /\ sync.thread \notin {"pool2", "update"} => call.left = {}
        /\ DOMAIN consumer = Consumers /\ \A c \in Consumers : IsConsumer(consumer[c])
    BY Zenon DEF MembersInv, QuietInv, SyncOK, CallOK, ConsumersOK
  <1>2. sync.thread \notin {"none", "loop"} =>
           \A t \in {"loop", "retry", "pool2", "update"} :
              /\ Keeps(sync, t) /\ Keeps(GiveUp(sync), t)
              /\ Keeps(setFutureState(sync, "blockchainSync"), t)
    BY IsRunning, Zenon DEF MembersInv, Places
  <1>3. GiveUp(sync).last = sync.last /\ setFutureState(sync, "blockchainSync").last = sync.last
    <2>1. "last" \in Fields \ {"future"}
      BY Zenon DEF Fields
    <2>2. GiveUp(sync)["last"] = sync["last"]
      BY <1>1, <2>1, GiveUpOf, Zenon
    <2>3. setFutureState(sync, "blockchainSync")["last"] = sync["last"]
      BY <1>1, <2>1, Zenon DEF setFutureState
    <2> QED BY <2>2, <2>3, Zenon
  <1>4. UNCHANGED consumer => ConsumersOK'
    BY <1>1, Zenon DEF ConsumersOK
  <1>5. ASSUME NEW c \in Consumers, NEW P,
               consumer' = [consumer EXCEPT ![c] = [consumer[c] EXCEPT !.pool = P]]
        PROVE  ConsumersOK'
    BY <1>1, <1>5, PoolOfConsumer, Zenon DEF ConsumersOK
  <1>6. NoCall.left = {} /\ DOMAIN NoCall = {"history", "added", "deleted", "left"}
    BY Zenon DEF NoCall
  <1>7. CASE removeOutdatedTransactions
    <2>1. IsInside(sync, "loop")
      BY <1>1, <1>2, <1>7, Zenon DEF removeOutdatedTransactions, IsInside
    <2>2. ConsumersOK'
      BY <1>1, <1>7, Zenon DEF removeOutdatedTransactions, ConsumersOK, onPoolUpdated,
         IsConsumer
    <2> QED BY <2>1, <2>2, InsideMembers, Zenon
  <1>8. CASE removeOutdatedFails
    <2>1. IsInside(sync, "retry")
      BY <1>1, <1>2, <1>8, Zenon DEF removeOutdatedFails, IsInside
    <2> QED BY <1>4, <1>8, <2>1, InsideMembers, Zenon DEF removeOutdatedFails
  <1>9. CASE retryOutdated
    <2> DEFINE s == [sync EXCEPT !.future = IF @ = "stopped" THEN @ ELSE "deleteOldTxs"]
    <2>1. sync.thread = "retry" /\ Working(s, "loop") /\ UNCHANGED <<consumer, call>>
      BY <1>9, Zenon DEF retryOutdated
    <2>2. Keeps(s, "loop") /\ s.last = sync.last
      BY <1>1, Zenon DEF Keeps, Fields, States, Places
    <2> HIDE DEF s
    <2>3. IsInside(s, "loop")
      BY <1>1, <2>1, <2>2, Zenon DEF IsInside
    <2> QED BY <1>4, <2>1, <2>3, InsideMembers, Zenon
  <1>10. CASE startPoolSync
    <2>1. sync.thread = "pool" /\ UNCHANGED consumer
      BY <1>10, Zenon DEF startPoolSync
    <2>2. CASE getPoolChanges(Union).actual
      <3>1. PICK t \in {"update", "pool2"} : Working(sync, t)
        BY <1>10, <2>2, Zenon DEF startPoolSync
      <3>2. DOMAIN call' = {"history", "added", "deleted", "left"} /\ call'.left = sync.members
        BY <1>10, <2>2, Zenon DEF startPoolSync, NoCall
      <3>3. IsInside(sync, t)
        BY <1>1, <1>2, <2>1, <3>1, <3>2, Zenon DEF IsInside
      <3> QED BY <1>4, <2>1, <3>3, InsideMembers, Zenon
    <2>3. CASE ~getPoolChanges(Union).actual
      <3>1. Working(setFutureState(sync, "blockchainSync"), "loop") /\ UNCHANGED call
        BY <1>10, <2>3, Zenon DEF startPoolSync
      <3>2. IsInside(setFutureState(sync, "blockchainSync"), "loop")
        BY <1>1, <1>2, <1>3, <2>1, <3>1, Zenon DEF IsInside
      <3> QED BY <1>4, <2>1, <3>2, InsideMembers, Zenon
    <2> QED BY <2>2, <2>3, Zenon
  <1>11. CASE intersectionAnswered
    <2>1. sync.thread = "pool2" /\ UNCHANGED consumer
      BY <1>11, Zenon DEF intersectionAnswered
    <2>2. CASE getPoolChanges(Intersection).actual
      <3>1. Working(sync, "update")
        BY <1>11, <2>2, Zenon DEF intersectionAnswered
      <3>2. DOMAIN call' = DOMAIN call /\ call'.left = call.left
        BY <1>1, <1>11, <2>2, Zenon DEF intersectionAnswered
      <3>3. IsInside(sync, "update")
        BY <1>1, <1>2, <2>1, <3>1, <3>2, Zenon DEF IsInside
      <3> QED BY <1>4, <2>1, <3>3, InsideMembers, Zenon
    <2>3. CASE ~getPoolChanges(Intersection).actual
      <3>1. Working(setFutureState(sync, "blockchainSync"), "loop") /\ call' = NoCall
        BY <1>11, <2>3, Zenon DEF intersectionAnswered
      <3>2. IsInside(setFutureState(sync, "blockchainSync"), "loop")
        BY <1>1, <1>2, <1>3, <1>6, <2>1, <3>1, Zenon DEF IsInside
      <3> QED BY <1>4, <2>1, <3>2, InsideMembers, Zenon
    <2> QED BY <2>2, <2>3, Zenon
  <1>12. CASE poolRequestFails
    <2>1. /\ sync.thread \in {"pool", "pool2"} /\ UNCHANGED consumer
          /\ Working(GiveUp(sync), "loop") /\ call' = NoCall
      BY <1>12, Zenon DEF poolRequestFails
    <2>2. IsInside(GiveUp(sync), "loop")
      BY <1>1, <1>2, <1>3, <1>6, <2>1, Zenon DEF IsInside
    <2> QED BY <1>4, <2>1, <2>2, InsideMembers, Zenon
  <1>13. CASE processPoolTxs
    <2>1. sync.thread = "update"
      BY <1>13, Zenon DEF processPoolTxs
    <2>2. ASSUME ConsumersOK', Working(sync, "loop"), call' = NoCall PROVE MembersInv'
      <3>1. IsInside(sync, "loop")
        BY <1>1, <1>2, <1>6, <2>1, <2>2, Zenon DEF IsInside
      <3> QED BY <2>2, <3>1, InsideMembers, Zenon
    <2>3. ASSUME ConsumersOK', Working(sync, "update"), NEW c, call' = [call EXCEPT !.left = @ \ {c}]
          PROVE  MembersInv'
      <3>1. DOMAIN call' = DOMAIN call /\ call'.left \subseteq call.left
        BY <1>1, <2>3, Zenon
      <3>2. IsInside(sync, "update")
        BY <1>1, <1>2, <2>1, <2>3, <3>1, Zenon DEF IsInside
      <3> QED BY <2>3, <3>2, InsideMembers, Zenon
    <2>4. CASE sync.future = "stopped"
      BY <1>4, <1>13, <2>2, <2>4, Zenon DEF processPoolTxs
    <2>5. CASE sync.future # "stopped"
      <3>1. \E c \in call.left : \E P :
               consumer' = [consumer EXCEPT ![c] = [consumer[c] EXCEPT !.pool = P]]
        <4>1. ASSUME NEW c \in call.left,
                     consumer' = [consumer EXCEPT ![c] = onPoolUpdated(@, call.added, call.deleted)]
              PROVE  consumer' = [consumer EXCEPT ![c] =
                                    [consumer[c] EXCEPT !.pool = (consumer[c].pool \cup call.added) \ call.deleted]]
          BY <1>1, <4>1, Zenon DEF onPoolUpdated
        <4>2. ASSUME NEW c \in call.left, NEW t, NEW done,
                     consumer' = [consumer EXCEPT ![c].pool = @ \cup done \cup {t}]
              PROVE  consumer' = [consumer EXCEPT ![c] =
                                    [consumer[c] EXCEPT !.pool = consumer[c].pool \cup done \cup {t}]]
          BY <1>1, <4>2, Zenon
        <4> QED BY <1>13, <2>5, <4>1, <4>2, Zenon DEF processPoolTxs
      <3>2. ConsumersOK'
        BY <1>1, <1>5, <3>1, Zenon
      <3> QED BY <1>13, <2>2, <2>3, <2>5, <3>2, Zenon DEF processPoolTxs
    <2> QED BY <2>4, <2>5, Zenon
  <1> QED BY <1>7, <1>8, <1>9, <1>10, <1>11, <1>12, <1>13, Zenon

\* Every step keeps the types.
LEMMA NextMembers == MembersInv /\ [Next]_vars => MembersInv'
  <1> SUFFICES ASSUME MembersInv, [Next]_vars PROVE MembersInv'
    BY Zenon
  <1>1. QuietInv'
    BY NextQuiet, Zenon DEF MembersInv
  <1>2. CASE DaemonStep
    BY <1>1, <1>2, DaemonMembers, Zenon
  <1>3. CASE WalletStep
    BY <1>1, <1>3, WalletMembers, Zenon
  <1>4. CASE ProxyThread
    BY <1>1, <1>4, ProxyMembers, Zenon
  <1>5. CASE WorkingThread
    BY <1>1, <1>5, ActualizeMembers, BlocksMembers, PoolMembers, Zenon DEF WorkingThread
  <1>6. CASE UNCHANGED vars
    <2>1. UNCHANGED <<daemon, proxy, sync, consumer, call>>
      BY <1>6, Zenon DEF vars
    <2>2. IsOutside
      BY <2>1, Zenon DEF IsOutside, MembersInv, SyncOK
    <2> QED BY <1>1, <2>2, OutsideMembers, Zenon
  <1> QED BY <1>2, <1>3, <1>4, <1>5, <1>6, Zenon DEF Next

LEMMA InitMembers == Init => MembersInv
  <1> SUFFICES ASSUME Init PROVE MembersInv
    BY Zenon
  <1>1. QuietInv
    BY InitQuiet, Zenon
  <1>2. DaemonOK /\ SyncOK /\ PlaceOK /\ CallOK /\ HistoryOK
    BY SynchronizerAssumption, Zenon DEF Init, DaemonOK, SyncOK, PlaceOK, CallOK,
       HistoryOK, NoCall
  <1>3. ConsumersOK
    BY NewConsumerOf, Zenon DEF Init, ConsumersOK
  <1> QED BY <1>1, <1>2, <1>3, Zenon DEF MembersInv

\* The members of the synchroniser and the locals of its thread have the values
\* their types allow, lastBlockId is a block, and the thread is in the state
\* that m_currentState names, for any consumers, chains and failures.
THEOREM SynchronizerTypeCorrect == Spec => []SynchronizerTypeOK
  <1>1. MembersInv => SynchronizerTypeOK
    <2> SUFFICES ASSUME MembersInv PROVE SynchronizerTypeOK
      BY Zenon
    <2>1. /\ sync.thread \in Places /\ proxy.event \in {"none", "blockchainSync", "poolSync"}
          /\ proxy.called => proxy.event # "none"
          /\ sync.current \in States /\ sync.future \in States
          /\ sync.thread = "none" => sync.current = "stopped"
      BY Zenon DEF MembersInv, QuietInv
    <2> QED BY <2>1, Zenon DEF MembersInv, DaemonOK, SyncOK, PlaceOK, CallOK,
               SynchronizerTypeOK
  <1> QED BY <1>1, InitMembers, NextMembers, PTL DEF Spec

\* No answer starts above the blocks of a consumer: checkInterval asserts
\* interval.startHeight <= m_blockchain.size() of every consumer, though the
\* answer was asked for with the history of another one, before the daemon moved.
AnswersStartInside ==
    sync.thread = "blocks" /\ IsKnown(call.history) =>
        \A c \in sync.members :
           queryBlocksLite(Supplement(call.history)).from <= Len(consumer[c].blockchain)

\* The assertion of checkInterval holds, for any consumers, chains and failures.
THEOREM CheckIntervalAsserts == Spec => []AnswersStartInside
  <1>1. MembersInv => AnswersStartInside
    <2> SUFFICES ASSUME MembersInv, sync.thread = "blocks", IsKnown(call.history),
                        NEW c \in sync.members
                 PROVE  queryBlocksLite(Supplement(call.history)).from
                           <= Len(consumer[c].blockchain)
      BY Zenon DEF AnswersStartInside
    <2> DEFINE answer == queryBlocksLite(Supplement(call.history))
    <2>1. IsAnswer(answer) /\ answer.from < Len(consumer[c].blockchain)
      BY AnswerForConsumers, Zenon
    <2>2. IsConsumer(consumer[c])
      BY Zenon DEF MembersInv, SyncOK, ConsumersOK
    <2>3. answer.from \in Nat /\ Len(consumer[c].blockchain) \in Nat
      BY <2>1, <2>2 DEF IsAnswer, IsConsumer
    <2> QED BY <2>1, <2>3
  <1> QED BY <1>1, InitMembers, NextMembers, PTL DEF Spec
=============================================================================
