----------------------- MODULE BlockchainSynchronizer -----------------------
(***************************************************************************)
(* The synchroniser of the legacy wallet (BlockchainSynchronizer), with    *)
(* the blocks each consumer is known to have (SynchronizationState) and    *)
(* the node proxy that tells it of new blocks (NodeRpcProxy).              *)
(*                                                                         *)
(* Three threads meet here.  The wallet starts and stops the synchroniser  *)
(* and hands it transactions; the working thread goes from state to state, *)
(* and waits for the daemon in three of them; the thread of the proxy      *)
(* polls the daemon and raises m_futureState from its callbacks.  A        *)
(* section under m_stateMutex is one step.  The consumers are touched by   *)
(* the working thread alone while it runs, so what it does between two     *)
(* waits is one step as well.                                              *)
(***************************************************************************)
EXTENDS Integers, Sequences, FiniteSets, FiniteSetsExt, Functions

CONSTANTS
    Consumers,      \* the consumers the wallet may have
    First,          \* the one it is opened with
    Blocks, Genesis,
    Path,           \* the chain from the genesis block to a block
    Start,          \* the tip of the daemon at first
    NextTips,       \* the tips the daemon may move to from a tip
    Txs,
    BatchSize,      \* BLOCKS_SYNCHRONIZING_DEFAULT_COUNT
    Recent,         \* how many of the last blocks a history names one by one
    NoBlock,
    Partial,        \* how many blocks a consumer that fails may have taken
    MaxFaults,      \* how many requests and updates fail
    MaxChanges      \* how often the wallet stops, changes or uses the synchroniser

IsLast(b) == NextTips[b] = {}

\* The chain is longer than a batch and branches start above its first batch,
\* as they do in a network of some age.  A consumer may be given blocks one
\* height too low when an answer starts at the block after the genesis block
\* (NewBlocks); it is out of reach when no consumer fails right after that
\* block, and when the first batch is long enough for the failures: each of
\* them may take two of the known blocks away.
ASSUME SynchronizerAssumption ==
    /\ First \in Consumers
    /\ Genesis \in Blocks /\ Start \in Blocks /\ NoBlock \notin Blocks
    /\ Path \in [Blocks -> Seq(Blocks)]
    /\ \A b \in Blocks :
         /\ Len(Path[b]) > 0 /\ Path[b][1] = Genesis
         /\ \A i \in 1..Len(Path[b]) : Len(Path[Path[b][i]]) = i
    /\ NextTips \in [Blocks -> SUBSET Blocks]
    /\ MaxFaults \in Nat /\ MaxChanges \in Nat
    /\ Recent \in Nat \ {0} /\ Partial \subseteq Nat \ {2}
    /\ BatchSize \in Nat /\ BatchSize >= 2 * MaxFaults + 4
    /\ Len(Path[Start]) > BatchSize
    /\ \A b \in Blocks : \A n \in NextTips[b] :
         /\ Len(Path[n]) > Len(Path[b])
         /\ SubSeq(Path[n], 1, BatchSize) = SubSeq(Path[b], 1, BatchSize)

VARIABLES
    daemon,         \* its tip, its pool, and the transactions that left the pool
    proxy,          \* what the node proxy last saw, and the event it delivers
    sync,           \* the members of BlockchainSynchronizer
    consumer,       \* for each consumer its m_blockchain, and what it holds
    call,           \* the locals of the state the working thread is in
    used            \* faults and changes so far

vars == <<daemon, proxy, sync, consumer, call, used>>

-----------------------------------------------------------------------------
(* The daemon, as the requests see it. *)

Chain == Path[daemon.top]

DaemonReceives ==
    /\ \E b \in NextTips[daemon.top] : daemon' = [daemon EXCEPT !.top = b]
    /\ UNCHANGED <<proxy, sync, consumer, call, used>>

\* A transaction that has left the pool does not come back.
TransactionEnters ==
    \E t \in Txs \ (daemon.pool \cup daemon.gone) :
       /\ daemon' = [daemon EXCEPT !.pool = @ \cup {t}]
       /\ UNCHANGED <<proxy, sync, consumer, call, used>>

TransactionLeaves ==
    \E t \in daemon.pool :
       /\ daemon' = [daemon EXCEPT !.pool = @ \ {t}, !.gone = @ \cup {t}]
       /\ UNCHANGED <<proxy, sync, consumer, call, used>>

\* The first known hash on the main chain, and a batch from that block on.
Height(b) == Len(Path[b]) - 1
OnChain(b) == Height(b) < Len(Chain) /\ Chain[Height(b) + 1] = b
IsKnown(history) == \E i \in 1..Len(history) : OnChain(history[i])
Supplement(history) ==
    LET first == CHOOSE i \in 1..Len(history) :
                    OnChain(history[i]) /\ \A j \in 1..i - 1 : ~OnChain(history[j])
    IN  Height(history[first])
queryBlocksLite(from) ==
    [from   |-> from,
     blocks |-> SubSeq(Chain, from + 1, Min({from + BatchSize, Len(Chain)}))]

getPoolChanges(known) ==
    [added   |-> daemon.pool \ known,
     deleted |-> known \ daemon.pool,
     actual  |-> sync.last = daemon.top]

\* Requests and updates fail only while the daemon has blocks yet to come.
MayFail == used.faults < MaxFaults /\ ~IsLast(daemon.top)
Fails == used' = [used EXCEPT !.faults = @ + 1]

-----------------------------------------------------------------------------
(* States and tasks. *)

States == {"idle", "poolSync", "blockchainSync", "deleteOldTxs", "stopped"}
Rank(state) ==
    CASE state = "idle"           -> 0
      [] state = "poolSync"       -> 1
      [] state = "blockchainSync" -> 2
      [] state = "deleteOldTxs"   -> 3
      [] state = "stopped"        -> 4

\* Where the working thread is: at the top of its loop, asleep, or in a state.
Places == {"none", "loop", "idle", "deleting", "retry", "blocks", "pool", "pool2",
           "update"}

setFutureState(s, f) ==
    [s EXCEPT !.future = IF Rank(f) > Rank(@) THEN f ELSE @]

\* setFutureStateIf(State::idle, m_futureState != State::stopped)
GiveUp(s) == [s EXCEPT !.future = IF @ = "stopped" THEN @ ELSE "idle"]

HasTasks(s) == s.adds # {} \/ s.removes # {}

checkIfStopped == sync.current = "stopped" /\ sync.future = "stopped"

NewConsumer ==
    [blockchain |-> <<Genesis>>,    \* SynchronizationState::m_blockchain
     record     |-> {},             \* the blocks of its transfers, with heights
     pool       |-> {}]             \* m_poolTxs

NoCall == [history |-> << >>, added |-> {}, deleted |-> {}, left |-> {}]

-----------------------------------------------------------------------------
(* The wallet. *)

Owner(s) == sync' = s /\ UNCHANGED <<daemon, proxy, consumer, call>>

Change ==
    used.changes < MaxChanges /\ used' = [used EXCEPT !.changes = @ + 1]

addConsumer ==
    /\ checkIfStopped /\ Change
    /\ \E c \in Consumers \ sync.members :
         /\ sync' = [sync EXCEPT !.members = @ \cup {c}]
         /\ consumer' = [consumer EXCEPT ![c] = NewConsumer]
    /\ UNCHANGED <<daemon, proxy, call>>

\* Slip: a consumer may be removed while the synchroniser runs.
removeConsumerUnchecked ==
    /\ Change
    /\ \E c \in sync.members :
         /\ sync' = [sync EXCEPT !.members = @ \ {c}]
         /\ consumer' = [consumer EXCEPT ![c] = NewConsumer]
    /\ UNCHANGED <<daemon, proxy, call>>

removeConsumer ==
    /\ checkIfStopped /\ Change
    /\ \E c \in sync.members :
         /\ sync' = [sync EXCEPT !.members = @ \ {c}]
         /\ consumer' = [consumer EXCEPT ![c] = NewConsumer]
    /\ UNCHANGED <<daemon, proxy, call>>

start ==
    /\ checkIfStopped /\ sync.thread = "none" /\ sync.members # {}
    /\ Owner([sync EXCEPT !.future = IF sync.wasStarted THEN "blockchainSync"
                                                        ELSE "deleteOldTxs",
                          !.wasStarted = TRUE,
                          !.thread = "loop"])
    /\ UNCHANGED used

\* stop() returns once the working thread has ended.
stop ==
    /\ sync.thread # "none" /\ sync.future # "stopped"
    /\ Change
    /\ Owner(setFutureState(sync, "stopped"))

\* Slip: nobody asks whether the synchroniser runs.
addUnconfirmedUnchecked ==
    /\ Change
    /\ \E t \in Txs \ sync.adds : Owner([sync EXCEPT !.adds = @ \cup {t}])

addUnconfirmedTransaction ==
    /\ sync.current # "stopped" /\ sync.future # "stopped"
    /\ Change
    /\ \E t \in Txs \ sync.adds : Owner([sync EXCEPT !.adds = @ \cup {t}])

removeUnconfirmedTransaction ==
    /\ sync.current # "stopped" /\ sync.future # "stopped"
    /\ Change
    /\ \E t \in Txs \ sync.removes : Owner([sync EXCEPT !.removes = @ \cup {t}])

\* The wallet is saved, closed and loaded again.  The file keeps m_blockchain
\* and the transfers of every consumer.  lastBlockId is not in it, and m_poolTxs
\* is made again from the transfers that are still unconfirmed.
Reopen ==
    /\ checkIfStopped /\ sync.thread = "none" /\ ~IsLast(daemon.top)
    /\ Change
    /\ sync' = [sync EXCEPT !.wasStarted = FALSE, !.last = NoBlock]
    /\ \E confirmed \in SUBSET Txs :
         consumer' = [c \in Consumers |-> [consumer[c] EXCEPT !.pool = @ \ confirmed]]
    /\ proxy' = [proxy EXCEPT !.tail = NoBlock, !.known = {}, !.event = "none",
                              !.called = FALSE]
    /\ UNCHANGED <<daemon, call>>

-----------------------------------------------------------------------------
(* The proxy.  notify copies the observers before it calls them. *)

ProxyStep(p) == proxy' = p /\ UNCHANGED <<daemon, consumer, call, used>>

\* A new height of the network raises the same state as a new header does.
updateBlockchainStatus ==
    /\ proxy.event = "none" /\ proxy.tail # daemon.top
    /\ ProxyStep([proxy EXCEPT !.tail = daemon.top, !.event = "blockchainSync"])
    /\ UNCHANGED sync

updatePoolStatus ==
    /\ proxy.event = "none"
    /\ proxy.tail = daemon.top /\ proxy.known # daemon.pool
    /\ ProxyStep([proxy EXCEPT !.known = daemon.pool, !.event = "poolSync"])
    /\ UNCHANGED sync

notify ==
    /\ proxy.event # "none" /\ ~proxy.called
    /\ ProxyStep(IF sync.observer THEN [proxy EXCEPT !.called = TRUE]
                                  ELSE [proxy EXCEPT !.event = "none"])
    /\ UNCHANGED sync

\* localBlockchainUpdated, lastKnownBlockHeightUpdated and poolChanged.
observerCalled ==
    /\ proxy.called
    /\ sync' = setFutureState(sync, proxy.event)
    /\ ProxyStep([proxy EXCEPT !.event = "none", !.called = FALSE])

-----------------------------------------------------------------------------
(* What a consumer is known to have (SynchronizationState). *)

\* The last Recent blocks, then blocks ever further apart, and the first one.
\* Blocks the proxy has not heard of are left out.
Back(n) == IF n <= Recent THEN n ELSE Recent - 1 + 2^(n - Recent)

\* The turns of the loop over the blocks, while the offset is inside.
Turns(size) == {n \in 1..size - 1 : \A k \in 1..n : Back(k) < size}

\* Slip: the first block is left out.
getRecentHistory(blockchain) ==
    LET local == IF proxy.tail = NoBlock THEN 0 ELSE Height(proxy.tail)
        size == Min({Len(blockchain), local + 1})
    IN  [n \in Turns(size) |-> blockchain[size - Back(n) + 1]]

getShortHistory(blockchain) ==
    LET local == IF proxy.tail = NoBlock THEN 0 ELSE Height(proxy.tail)
        size == Min({Len(blockchain), local + 1})
    IN  Append([n \in Turns(size) |-> blockchain[size - Back(n) + 1]], blockchain[1])

\* From which height on the consumer needs the blocks of an answer, and
\* whether it leaves a branch there.
checkInterval(blockchain, answer) ==
    LET end == answer.from + Len(answer.blocks)
        differ == {h \in answer.from..Min({Len(blockchain), end}) - 1 :
                     blockchain[h + 1] # answer.blocks[h - answer.from + 1]}
    IN  CASE differ # {} ->
               [detach |-> TRUE, new |-> TRUE, height |-> Min(differ)]
          [] differ = {} /\ end > Len(blockchain) ->
               [detach |-> FALSE, new |-> TRUE, height |-> Len(blockchain)]
          [] OTHER ->
               [detach |-> FALSE, new |-> FALSE, height |-> 0]

-----------------------------------------------------------------------------
(* What a consumer does (TransfersConsumer). *)

\* Everything at a height and above goes.
onBlockchainDetach(x, height) ==
    [x EXCEPT !.record = {entry \in @ : entry.height < height}]

\* The first n blocks are taken; the rest leaves nothing behind.
Numbered(blocks, height) ==
    {[height |-> height + i - 1, block |-> blocks[i]] : i \in 1..Len(blocks)}
onNewBlocks(x, blocks, height, n) ==
    LET clean == IF n = Len(blocks) THEN x ELSE onBlockchainDetach(x, height + n)
    IN  [clean EXCEPT !.record = @ \cup Numbered(SubSeq(blocks, 1, n), height)]

onPoolUpdated(x, added, deleted) == [x EXCEPT !.pool = (@ \cup added) \ deleted]

-----------------------------------------------------------------------------
(* The working thread. *)

Working(s, t) == sync' = [s EXCEPT !.thread = t] /\ UNCHANGED <<daemon, proxy>>

\* The consumers with the fewest blocks; m_consumers is ordered by address.
Shortest ==
    {c \in sync.members : \A d \in sync.members :
        Len(consumer[c].blockchain) <= Len(consumer[d].blockchain)}

IsAwake ==
    \/ sync.thread = "loop"
    \/ sync.thread = "idle" /\ (sync.future # "idle" \/ HasTasks(sync))

\* The observer is attached or detached, and every task is answered: its
\* transaction goes to or from the transfers of the consumers, or the error does
\* to the wallet.
Actualized ==
    [sync EXCEPT
       !.observer = CASE sync.current = "stopped"
                           /\ sync.future \in {"deleteOldTxs", "blockchainSync"} -> TRUE
                      [] sync.current # "stopped" /\ sync.future = "stopped" -> FALSE
                      [] OTHER -> @,
       !.adds = {}, !.removes = {}, !.current = sync.future]

\* workingProcedure, up to the point where actualizeFutureState lets go of
\* m_stateMutex.
actualizeFutureState ==
    /\ IsAwake
    /\ \/ sync.future = "stopped" /\ Working(Actualized, "none") /\ call' = NoCall
       \/ /\ sync.future = "deleteOldTxs"
          /\ Working([Actualized EXCEPT !.future = "blockchainSync"], "deleting")
          /\ call' = NoCall
       \/ /\ sync.future = "blockchainSync"
          /\ Working([Actualized EXCEPT !.future = "poolSync"], "blocks")
          /\ \E c \in Shortest :
               call' = [NoCall EXCEPT !.history = getShortHistory(consumer[c].blockchain)]
       \/ /\ sync.future = "poolSync"
          /\ Working([Actualized EXCEPT !.future = "idle"], "pool")
          /\ call' = NoCall
       \/ sync.future = "idle" /\ Working(Actualized, "idle") /\ call' = NoCall
    /\ UNCHANGED <<consumer, used>>

-----------------------------------------------------------------------------
(* State::blockchainSync. *)

\* Where the blocks for a consumer begin: their height, and their place in the
\* answer.  A consumer that has the genesis block only gets it once more.
NewBlocks(found, answer) ==
    LET height == IF found.height = 1 THEN 0 ELSE found.height
        offset == IF height = 0 THEN 0 ELSE height - answer.from
    IN  [detach |-> found.detach,
         at     |-> found.height,
         new    |-> found.new,
         height |-> height,
         offset |-> offset,
         blocks |-> SubSeq(answer.blocks, offset + 1, Len(answer.blocks))]

\* Slip: the hashes are cut off, and the consumer is not told.
detachHashes(x, height) == [x EXCEPT !.blockchain = SubSeq(@, 1, height)]

detach(x, height) ==
    [onBlockchainDetach(x, height) EXCEPT !.blockchain = SubSeq(@, 1, height)]

\* The consumer takes up to n of its new blocks.
UpdateConsumer(x, new, n) ==
    LET before == IF new.detach THEN detach(x, new.at) ELSE x
        after == onNewBlocks(before, new.blocks, new.height, n)
    IN  CASE ~new.new -> before
          [] new.new  -> [after EXCEPT !.blockchain = @ \o SubSeq(new.blocks, 1, n)]

\* lastBlockId: the last block that every consumer with new blocks has taken.
LastBlock(answer, new, taken) ==
    LET ends == {new[c].offset + taken[c] :
                   c \in {c \in sync.members : new[c].new /\ taken[c] > 0}}
    IN  IF ends = {} THEN sync.last ELSE answer.blocks[Min(ends)]

\* updateConsumers: what each consumer takes of its new blocks.
Updated(new, taken) ==
    [c \in Consumers |->
       IF c \in sync.members THEN UpdateConsumer(consumer[c], new[c], taken[c])
                             ELSE consumer[c]]

\* A consumer that fails may drop the transaction it failed to confirm.
processBlocks(answer, new, all) ==
    \/ /\ sync.future = "stopped"
       /\ Working(sync, "loop") /\ UNCHANGED <<consumer, used>>
    \/ /\ sync.future # "stopped"
       /\ consumer' = Updated(new, all) /\ UNCHANGED used
       /\ IF \E c \in sync.members : new[c].new
          THEN Working([setFutureState(sync, "blockchainSync") EXCEPT
                          !.last = LastBlock(answer, new, all)], "loop")
          ELSE Working(sync, "loop")
    \/ /\ sync.future # "stopped" /\ MayFail /\ Fails
       /\ \E c \in {c \in sync.members : new[c].new} :
            \E n \in Partial \cap 0..all[c] - 1 :
               \E taken \in {[all EXCEPT ![c] = n]} :
                  /\ \E lost \in {{}} \cup {{t} : t \in consumer[c].pool} :
                       consumer' = [Updated(new, taken) EXCEPT ![c].pool = @ \ lost]
                  /\ Working([GiveUp(sync) EXCEPT
                                !.last = LastBlock(answer, new, taken)], "loop")

startBlockchainSync ==
    /\ sync.thread = "blocks"
    /\ IsKnown(call.history)
    /\ \E answer \in {queryBlocksLite(Supplement(call.history))} :
         \E found \in {[c \in sync.members |->
                          checkInterval(consumer[c].blockchain, answer)]} :
            \E new \in {[c \in sync.members |-> NewBlocks(found[c], answer)]} :
               \E all \in {[c \in sync.members |-> Len(new[c].blocks)]} :
                  processBlocks(answer, new, all)
    /\ call' = NoCall

\* The request fails.
queryBlocksFails ==
    /\ sync.thread = "blocks"
    /\ \/ MayFail /\ Fails
       \/ ~IsKnown(call.history) /\ UNCHANGED used
    /\ Working(GiveUp(sync), "loop")
    /\ call' = NoCall /\ UNCHANGED consumer

-----------------------------------------------------------------------------
(* State::deleteOldTxs and State::poolSync. *)

Union == UNION {consumer[c].pool : c \in sync.members}
Intersection == {t \in Union : \A c \in sync.members : t \in consumer[c].pool}

removeOutdatedTransactions ==
    /\ sync.thread = "deleting"
    /\ consumer' = [c \in Consumers |->
         IF c \in sync.members
         THEN onPoolUpdated(consumer[c], {}, getPoolChanges(Union).deleted)
         ELSE consumer[c]]
    /\ Working(sync, "loop")
    /\ UNCHANGED <<call, used>>

removeOutdatedFails ==
    /\ sync.thread = "deleting" /\ MayFail /\ Fails
    /\ Working(sync, "retry")
    /\ UNCHANGED <<consumer, call>>

\* Slip: the retry replaces whatever state is next.
retryAlways ==
    /\ sync.thread = "retry"
    /\ Working([sync EXCEPT !.future = "deleteOldTxs"], "loop")
    /\ UNCHANGED <<consumer, call, used>>

\* After RETRY_TIMEOUT seconds, or as soon as stop() is called.
retryOutdated ==
    /\ sync.thread = "retry"
    /\ Working([sync EXCEPT !.future = IF @ = "stopped" THEN @ ELSE "deleteOldTxs"],
               "loop")
    /\ UNCHANGED <<consumer, call, used>>

\* The answer to the union; consumers that differ need a second one.
startPoolSync ==
    LET answer == getPoolChanges(Union)
        same == Union = Intersection
    IN  /\ sync.thread = "pool"
        /\ IF answer.actual
           THEN /\ Working(sync, IF same THEN "update" ELSE "pool2")
                /\ call' = [NoCall EXCEPT !.deleted = answer.deleted,
                                          !.added = IF same THEN answer.added ELSE {},
                                          !.left = sync.members]
           ELSE /\ Working(setFutureState(sync, "blockchainSync"), "loop")
                /\ UNCHANGED call
        /\ UNCHANGED <<consumer, used>>

\* What is new counts from the intersection, what is gone from the union.
intersectionAnswered ==
    LET answer == getPoolChanges(Intersection)
    IN  /\ sync.thread = "pool2"
        /\ IF answer.actual
           THEN /\ Working(sync, "update")
                /\ call' = [call EXCEPT !.added = answer.added]
           ELSE /\ Working(setFutureState(sync, "blockchainSync"), "loop")
                /\ call' = NoCall
        /\ UNCHANGED <<consumer, used>>

poolRequestFails ==
    /\ sync.thread \in {"pool", "pool2"} /\ MayFail /\ Fails
    /\ Working(GiveUp(sync), "loop")
    /\ call' = NoCall /\ UNCHANGED consumer

\* One consumer after the other, until stop() is called or one of them fails.
processPoolTxs ==
    /\ sync.thread = "update"
    /\ \/ /\ sync.future = "stopped"
          /\ Working(sync, "loop") /\ call' = NoCall /\ UNCHANGED <<consumer, used>>
       \/ /\ sync.future # "stopped" /\ UNCHANGED used
          /\ \E c \in call.left :
               /\ consumer' = [consumer EXCEPT
                                 ![c] = onPoolUpdated(@, call.added, call.deleted)]
               /\ IF call.left = {c}
                  THEN Working(sync, "loop") /\ call' = NoCall
                  ELSE Working(sync, "update") /\ call' = [call EXCEPT !.left = @ \ {c}]
       \/ /\ sync.future # "stopped" /\ MayFail /\ Fails
          /\ \E c \in call.left, t \in call.added, done \in SUBSET call.added :
               /\ t \notin done
               /\ consumer' = [consumer EXCEPT ![c].pool = @ \cup done \cup {t}]
          /\ Working(sync, "loop") /\ call' = NoCall

-----------------------------------------------------------------------------

Init ==
    /\ daemon = [top |-> Start, pool |-> {}, gone |-> {}]
    /\ proxy = [tail |-> NoBlock, known |-> {}, event |-> "none", called |-> FALSE]
    /\ sync = [current |-> "stopped", future |-> "stopped", wasStarted |-> FALSE,
               observer |-> FALSE, adds |-> {}, removes |-> {}, last |-> NoBlock,
               members |-> {First}, thread |-> "none"]
    /\ consumer = [c \in Consumers |-> NewConsumer]
    /\ call = NoCall
    /\ used = [faults |-> 0, changes |-> 0]

DaemonStep == DaemonReceives \/ TransactionEnters \/ TransactionLeaves

WalletStep ==
    \/ addConsumer \/ removeConsumer \/ start \/ stop \/ Reopen
    \/ addUnconfirmedTransaction \/ removeUnconfirmedTransaction

ProxyThread ==
    \/ updateBlockchainStatus \/ updatePoolStatus
    \/ notify \/ observerCalled

WorkingThread ==
    \/ actualizeFutureState
    \/ startBlockchainSync \/ queryBlocksFails
    \/ removeOutdatedTransactions \/ removeOutdatedFails \/ retryOutdated
    \/ startPoolSync \/ intersectionAnswered \/ poolRequestFails
    \/ processPoolTxs

Next == DaemonStep \/ WalletStep \/ ProxyThread \/ WorkingThread

Spec == Init /\ [][Next]_vars

\* The working thread has something to do.
CanRun == IsAwake \/ sync.thread \notin {"none", "idle", "loop"}

\* The working thread runs on and the daemon answers it: it never stays for
\* ever at a place it can leave.  This is WF_vars(WorkingThread), whose steps
\* leave their place or shrink call.left or the tasks, without its ENABLED.  The
\* proxy delivers its event, and polls the daemon again.
FairSpec ==
    /\ Spec
    /\ \A place \in Places : []<>~(sync.thread = place /\ CanRun)
    /\ WF_vars(notify \/ observerCalled)
    /\ SF_vars(updateBlockchainStatus)

-----------------------------------------------------------------------------
(* Properties. *)

\* The members of the synchroniser and the locals of its thread have the
\* values their types allow, and the thread is in the state that
\* m_currentState names.
SynchronizerTypeOK ==
    /\ daemon.top \in Blocks /\ daemon.pool \subseteq Txs
    /\ proxy.tail \in Blocks \cup {NoBlock}
    /\ proxy.event \in {"none", "blockchainSync", "poolSync"}
    /\ proxy.called => proxy.event # "none"
    /\ sync.current \in States /\ sync.future \in States
    /\ sync.last \in Blocks \cup {NoBlock}
    /\ call.left \subseteq sync.members /\ sync.members \subseteq Consumers
    /\ sync.current =
         CASE sync.thread \in {"deleting", "retry"}         -> "deleteOldTxs"
           [] sync.thread = "blocks"                        -> "blockchainSync"
           [] sync.thread \in {"pool", "pool2", "update"}   -> "poolSync"
           [] sync.thread = "idle"                          -> "idle"
           [] sync.thread = "none"                          -> "stopped"
           [] OTHER                                         -> sync.current

\* Every consumer holds the blocks of one chain, each at its own height and
\* with none left out, and the hashes it is known by name blocks it holds:
\* however answers, reorganisations, failures and restarts follow each other,
\* updateConsumers cuts off a branch before it adds to another one.
ConsumersFollowOneChain ==
    \A c \in sync.members :
       LET x == consumer[c]
       IN  /\ x.record = {} \/ \E b \in Blocks : x.record = Numbered(Path[b], 0)
           /\ Range(x.blockchain) \ {Genesis} \subseteq {entry.block : entry \in x.record}

\* The node calls the synchroniser only while it runs, and a transaction is
\* handed over only to be answered: a synchroniser that has stopped has
\* detached its observer and left no promise of a task open.
StoppedIsQuiet ==
    /\ sync.observer <=> sync.current # "stopped"
    /\ sync.thread = "none" => ~HasTasks(sync)

\* stop() always returns: the working thread ends, whatever it waits for.
StopReturns == [](sync.future = "stopped" => <>(sync.thread = "none"))

HasCaughtUp == \A c \in sync.members : consumer[c].record = Numbered(Chain, 0)

\* A synchroniser that is left running brings every consumer to the tip of the
\* daemon, once the last block has come.
ConsumersCatchUp ==
    <>[](IsLast(daemon.top) /\ sync.future # "stopped") => <>[]HasCaughtUp
=============================================================================
