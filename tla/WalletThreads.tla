---------------------------- MODULE WalletThreads ----------------------------
(***************************************************************************)
(* The threads of a wallet's synchronizer (WalletSynchronizer.cpp,         *)
(* BlockDownloader.cpp) on a daemon whose chain does not fork:             *)
(*   - the downloader appends what the daemon returns to m_storedBlocks;   *)
(*   - the main loop hands a chunk of the stored blocks to the workers,    *)
(*     waits for all of it, applies it in arrival order, dropping every    *)
(*     applied block from the store;                                       *)
(*   - the workers scan blocks of m_blockProcessingQueue in parallel and   *)
(*     push what they found to m_processedBlocks;                          *)
(*   - the owner pauses the synchronizer: stop(), an operation, start().   *)
(*                                                                         *)
(* A step is what one thread does between two points at which another can  *)
(* interfere.  A wait on a condition variable is three of them: test the   *)
(* predicate under the mutex, give up the mutex and fall asleep, be woken  *)
(* and test again.  Who notifies WITHOUT the mutex can do so between the   *)
(* first and the second.                                                   *)
(***************************************************************************)
EXTENDS Integers, Sequences, FiniteSets, FiniteSetsExt, Functions

CONSTANTS
    Workers,        \* the block processing threads
    ChunkSize,      \* BLOCK_PROCESSING_CHUNK
    BatchSize,      \* most blocks in one answer of the daemon
    StoreLimit,     \* blockStoreMemoryLimit, in blocks
    MaxHeight,      \* the height of the daemon's chain
    MaxStops        \* bound on the calls of stop()

ASSUME ThreadAssumption ==
    /\ IsFiniteSet(Workers) /\ Workers # {}
    /\ Workers \cap {"main", "downloader", "owner"} = {}
    /\ {ChunkSize, BatchSize, StoreLimit, MaxHeight} \subseteq Nat \ {0}
    /\ MaxStops \in Nat

VARIABLES
    flags,          \* the m_shouldStop flags that are raised, by their owner
    stored,         \* m_storedBlocks, as heights
    queue,          \* m_blockProcessingQueue: <<arrival index, height>>
    processed,      \* m_processedBlocks, a priority queue by arrival index
    consumed,       \* m_consumedData
    recent,         \* height of the newest of m_lastKnownBlockHashes
    wallet,         \* heights whose transactions the wallet holds
    chunk,          \* main loop: the blocks fetched from the store
    current,        \* main loop: the block being completed
    known,          \* downloader: the newest block named in its request
    job,            \* worker: the blocks it took from the queue
    done,           \* worker: its processedBlocks
    pc,             \* where every thread is
    stops           \* calls of stop() so far

dataVars == <<stored, queue, processed, consumed, recent, wallet>>
localVars == <<chunk, current, known, job, done>>
vars == <<flags, dataVars, localVars, pc, stops>>

Main == "main"
Downloader == "downloader"
Owner == "owner"
Threads == {Main, Downloader, Owner} \cup Workers

Items == (1..ChunkSize) \X (1..MaxHeight)

\* Every stop flag: of the synchronizer, of the downloader, of its store and
\* of the two queues.
Flags == {"sync", "downloader", "stored", "queue", "processed"}

\* blockProcessingThread: half of an even share each time, everything at once
\* when there is only one thread.
WorkerChunk ==
    IF Cardinality(Workers) = 1
    THEN ChunkSize
    ELSE Max({1, (ChunkSize \div Cardinality(Workers)) \div 2})

Prefix(s, n) == SubSeq(s, 1, Min({n, Len(s)}))
Suffix(s, n) == SubSeq(s, Min({n, Len(s)}) + 1, Len(s))

Goto(t, place) == pc' = [pc EXCEPT ![t] = place]

\* Thread t moves on; the threads of T that sleep wake up and test again.
GotoNotifying(t, place, T) ==
    pc' = [u \in Threads |->
              IF u = t THEN place
              ELSE IF u \in T /\ pc[u] = "asleep" THEN "test" ELSE pc[u]]

\* m_mutex of the synchronizer is shared by the main loop and the workers, the
\* downloader has one of its own.  It is held from a failed test to the sleep.
MutexIsFree == \A u \in {Main} \cup Workers : pc[u] # "tested"
DownloaderMutexIsFree == pc[Downloader] # "tested"

Init ==
    /\ flags = {}
    /\ stored = <<>>
    /\ queue = <<>>
    /\ processed = {}
    /\ consumed = TRUE
    /\ recent = 0
    /\ wallet = {}
    /\ chunk = <<>>
    /\ current = 0
    /\ known = 0
    /\ job = [w \in Workers |-> <<>>]
    /\ done = [w \in Workers |-> {}]
    /\ pc = [t \in Threads |->
                CASE t = Main -> "loop" [] t = Owner -> "idle" [] OTHER -> "test"]
    /\ stops = 0

-----------------------------------------------------------------------------
(* Waiting on a condition variable. *)

\* The predicate holds when the thread must stop or has something to do.
TestPredicate(t, stopFlag, ready, place) ==
    /\ pc[t] = "test"
    /\ Goto(t, IF stopFlag \in flags THEN "done" ELSE IF ready THEN place ELSE "tested")
    /\ UNCHANGED <<flags, dataVars, current, known, job, done, stops>>

FallAsleep(t) ==
    /\ pc[t] = "tested"
    /\ Goto(t, "asleep")
    /\ UNCHANGED <<flags, dataVars, localVars, stops>>

\* std::condition_variable::wait may return without a notification.
WakeSpuriously(t) ==
    /\ pc[t] = "asleep"
    /\ Goto(t, "test")
    /\ UNCHANGED <<flags, dataVars, localVars, stops>>

MainTest ==
    /\ MutexIsFree
    /\ TestPredicate(Main, "sync", Cardinality(processed) = Len(chunk), "drain")
    /\ chunk' = IF pc'[Main] = "tested" THEN chunk ELSE <<>>

WorkerTest(w) ==
    /\ MutexIsFree
    /\ TestPredicate(w, "sync", Len(queue) > 0, "take")
    /\ UNCHANGED chunk

DownloaderTest ==
    /\ TestPredicate(Downloader, "downloader", consumed, "ask")
    /\ UNCHANGED chunk

-----------------------------------------------------------------------------
(* The main loop. *)

\* while (!m_shouldStop), and fetchBlocks: the blocks stay in the store.
FetchBlocks ==
    /\ pc[Main] = "loop"
    /\ IF "sync" \in flags
       THEN Goto(Main, "done") /\ UNCHANGED chunk
       ELSE IF stored = <<>>
       THEN Goto(Main, "starved") /\ UNCHANGED chunk
       ELSE /\ chunk' = [i \in 1..Min({ChunkSize, Len(stored)}) |-> <<i, stored[i]>>]
            /\ Goto(Main, "push")
    /\ UNCHANGED <<flags, dataVars, current, known, job, done, stops>>

\* fetchBlocks found the store empty and asks for more, under the mutex.
AskForBlocks ==
    /\ pc[Main] = "starved"
    /\ DownloaderMutexIsFree
    /\ consumed' = TRUE
    /\ GotoNotifying(Main, "loop", {Downloader})
    /\ UNCHANGED <<flags, stored, queue, processed, recent, wallet, localVars, stops>>

\* A queue that was stopped takes nothing and says so; nobody looks.
PushChunk ==
    /\ pc[Main] = "push"
    /\ queue' = IF "queue" \in flags THEN queue ELSE queue \o chunk
    /\ Goto(Main, "notify")
    /\ UNCHANGED <<flags, stored, processed, consumed, recent, wallet, localVars, stops>>

NotifyWorkers ==
    /\ pc[Main] = "notify"
    /\ GotoNotifying(Main, "test", Workers)
    /\ UNCHANGED <<flags, dataVars, localVars, stops>>

\* Slip: the priority queue compares the other way round.
Bottom == CHOOSE item \in processed : \A other \in processed : item[1] >= other[1]

\* Top of the priority queue: the least arrival index.
Top == CHOOSE item \in processed : \A other \in processed : item[1] <= other[1]

\* Slip: the emptiness is not tested again before pop_unsafe().
TestStopOnly ==
    /\ pc[Main] \in {"drain", "completed"}
    /\ Goto(Main, IF "sync" \notin flags
                  THEN (IF pc[Main] = "drain" THEN "top" ELSE "pop")
                  ELSE (IF pc[Main] = "drain" THEN "loop" ELSE "drain"))
    /\ UNCHANGED <<flags, dataVars, localVars, stops>>

\* empty_unsafe() and m_shouldStop, before top_unsafe() ("top") and before
\* pop_unsafe() ("pop").
TestProcessed ==
    /\ pc[Main] \in {"drain", "completed"}
    /\ Goto(Main, IF processed # {} /\ "sync" \notin flags
                  THEN (IF pc[Main] = "drain" THEN "top" ELSE "pop")
                  ELSE (IF pc[Main] = "drain" THEN "loop" ELSE "drain"))
    /\ UNCHANGED <<flags, dataVars, localVars, stops>>

\* completeBlockProcessing up to dropBlock.  A block that is not above the
\* wallet's height is taken for a fork: what is as high or higher goes first.
CompleteBlock ==
    /\ pc[Main] = "top"
    /\ processed # {}
    /\ current' = Top[2]
    /\ wallet' = {Top[2]} \cup
                 (IF recent >= Top[2] THEN {h \in wallet : h < Top[2]} ELSE wallet)
    /\ Goto(Main, "drop")
    /\ UNCHANGED <<flags, stored, queue, processed, consumed, recent, chunk, known, job, done, stops>>

\* dropBlock: the store, the status and the wish for more, one by one.
DropFront ==
    /\ pc[Main] = "drop"
    /\ stored' = Tail(stored)
    /\ Goto(Main, "hash")
    /\ UNCHANGED <<flags, queue, processed, consumed, recent, wallet, localVars, stops>>

StoreBlockHash ==
    /\ pc[Main] = "hash"
    /\ recent' = current
    /\ current' = 0
    /\ Goto(Main, "signal")
    /\ UNCHANGED <<flags, stored, queue, processed, consumed, wallet, chunk, known, job, done, stops>>

SignalConsumed ==
    /\ pc[Main] = "signal"
    /\ DownloaderMutexIsFree
    /\ consumed' = TRUE
    /\ GotoNotifying(Main, "completed", {Downloader})
    /\ UNCHANGED <<flags, stored, queue, processed, recent, wallet, localVars, stops>>

PopProcessed ==
    /\ pc[Main] = "pop"
    /\ processed # {}
    /\ processed' = processed \ {Top}
    /\ Goto(Main, "drain")
    /\ UNCHANGED <<flags, stored, queue, consumed, recent, wallet, localVars, stops>>

\* top_unsafe() or pop_unsafe() on a queue that is empty by now: undefined
\* behaviour.  Nothing is said about the process from here on.
ReadNothing ==
    /\ pc[Main] \in {"top", "pop"}
    /\ processed = {}
    /\ Goto(Main, "undefined")
    /\ UNCHANGED <<flags, dataVars, localVars, stops>>

-----------------------------------------------------------------------------
(* The block processing threads. *)

\* Slip: front_n, the blocks stay in the queue.
CopyJob(w) ==
    /\ pc[w] = "take"
    /\ job' = [job EXCEPT ![w] = Prefix(queue, WorkerChunk)]
    /\ Goto(w, IF queue # <<>> /\ "sync" \notin flags THEN "process" ELSE "result")
    /\ UNCHANGED <<flags, dataVars, chunk, current, known, done, stops>>

\* front_n_and_remove, and the loop condition that follows it.
TakeJob(w) ==
    /\ pc[w] = "take"
    /\ queue' = Suffix(queue, WorkerChunk)
    /\ job' = [job EXCEPT ![w] = Prefix(queue, WorkerChunk)]
    /\ Goto(w, IF queue # <<>> /\ "sync" \notin flags THEN "process" ELSE "result")
    /\ UNCHANGED <<flags, stored, processed, consumed, recent, wallet, chunk, current, known, done, stops>>

\* The blocks of the job are scanned, and their global indexes are known.
ProcessJob(w) ==
    /\ pc[w] = "process"
    /\ done' = [done EXCEPT ![w] = @ \cup Range(job[w])]
    /\ job' = [job EXCEPT ![w] = <<>>]
    /\ Goto(w, "take")
    /\ UNCHANGED <<flags, dataVars, chunk, current, known, stops>>

\* The daemon does not know the global indexes yet, and the thread must stop.
GiveUpJob(w) ==
    /\ pc[w] = "process"
    /\ "sync" \in flags
    /\ Goto(w, "done")
    /\ UNCHANGED <<flags, dataVars, localVars, stops>>

\* push_n, which a stopped queue refuses.
PushProcessed(w) ==
    /\ pc[w] = "result"
    /\ processed' = IF "processed" \in flags THEN processed ELSE processed \cup done[w]
    /\ done' = [done EXCEPT ![w] = {}]
    /\ Goto(w, IF done[w] = {} THEN "test" ELSE "notify")
    /\ UNCHANGED <<flags, stored, queue, consumed, recent, wallet, chunk, current, known, job, stops>>

NotifyMain(w) ==
    /\ pc[w] = "notify"
    /\ GotoNotifying(w, "test", {Main})
    /\ UNCHANGED <<flags, dataVars, localVars, stops>>

-----------------------------------------------------------------------------
(* The downloader. *)

\* shouldFetchMoreBlocks, and the first half of getBlockCheckpoints.
ReadStored ==
    /\ pc[Downloader] = "ask"
    /\ IF Len(stored) >= StoreLimit \/ "downloader" \in flags
       THEN Goto(Downloader, "rest") /\ UNCHANGED known
       ELSE /\ known' = IF stored = <<>> THEN 0 ELSE stored[Len(stored)]
            /\ Goto(Downloader, "recent")
    /\ UNCHANGED <<flags, dataVars, chunk, current, job, done, stops>>

\* The second half: the hashes of the blocks the wallet has processed.
ReadRecent ==
    /\ pc[Downloader] = "recent"
    /\ known' = IF known = 0 THEN recent ELSE known
    /\ Goto(Downloader, "answer")
    /\ UNCHANGED <<flags, dataVars, chunk, current, job, done, stops>>

\* Slip: the daemon's end index is taken for a number of blocks.
StoreOneTooMany ==
    /\ pc[Downloader] = "answer"
    /\ \E n \in 1..BatchSize :
           /\ known + n <= MaxHeight + 1
           /\ stored' = IF "stored" \in flags THEN stored
                        ELSE stored \o [i \in 1..n |-> known + i]
    /\ known' = 0
    /\ Goto(Downloader, "ask")
    /\ UNCHANGED <<flags, queue, processed, consumed, recent, wallet, chunk, current, job, done, stops>>

\* The daemon returns the blocks that follow the newest one it was told of.
StoreBlocks ==
    /\ pc[Downloader] = "answer"
    /\ \E n \in 1..BatchSize :
           /\ known + n <= MaxHeight
           /\ stored' = IF "stored" \in flags THEN stored
                        ELSE stored \o [i \in 1..n |-> known + i]
    /\ known' = 0
    /\ Goto(Downloader, "ask")
    /\ UNCHANGED <<flags, queue, processed, consumed, recent, wallet, chunk, current, job, done, stops>>

\* No blocks: the daemon fails, or is at its top block, whose hash is kept
\* when nothing waits to be applied.
StoreTopBlock ==
    /\ pc[Downloader] = "answer"
    /\ recent' \in {recent} \cup
                   (IF known = MaxHeight /\ stored = <<>> THEN {MaxHeight} ELSE {})
    /\ known' = 0
    /\ Goto(Downloader, "rest")
    /\ UNCHANGED <<flags, stored, queue, processed, consumed, wallet, chunk, current, job, done, stops>>

\* Whatever was consumed since the test is forgotten.
ForgetConsumed ==
    /\ pc[Downloader] = "rest"
    /\ consumed' = FALSE
    /\ Goto(Downloader, "test")
    /\ UNCHANGED <<flags, stored, queue, processed, recent, wallet, localVars, stops>>

-----------------------------------------------------------------------------
(* The owner of the synchronizer: stop(), an operation, start(). *)

RaiseStop ==
    /\ pc[Owner] = "idle"
    /\ stops < MaxStops
    /\ stops' = stops + 1
    /\ flags' = flags \cup {"sync"}
    /\ Goto(Owner, "stopDownloader")
    /\ UNCHANGED <<dataVars, localVars>>

StopDownloader ==
    /\ pc[Owner] = "stopDownloader"
    /\ flags' = flags \cup {"downloader"}
    /\ Goto(Owner, "notifyDownloader")
    /\ UNCHANGED <<dataVars, localVars, stops>>

NotifyDownloader ==
    /\ pc[Owner] = "notifyDownloader"
    /\ consumed' = TRUE
    /\ flags' = flags \cup {"stored"}
    /\ GotoNotifying(Owner, "joinDownloader", {Downloader})
    /\ UNCHANGED <<stored, queue, processed, recent, wallet, localVars, stops>>

JoinDownloader ==
    /\ pc[Owner] = "joinDownloader"
    /\ pc[Downloader] = "done"
    /\ flags' = flags \cup {"queue", "processed"}
    /\ Goto(Owner, "notifyAll")
    /\ UNCHANGED <<dataVars, localVars, stops>>

NotifyAll ==
    /\ pc[Owner] = "notifyAll"
    /\ GotoNotifying(Owner, "clear", {Main} \cup Workers)
    /\ UNCHANGED <<flags, dataVars, localVars, stops>>

ClearQueues ==
    /\ pc[Owner] = "clear"
    /\ queue' = <<>>
    /\ processed' = {}
    /\ Goto(Owner, "join")
    /\ UNCHANGED <<flags, stored, consumed, recent, wallet, localVars, stops>>

\* The last join of stop(); the operation runs; start() clears the flags and
\* creates the threads, with locals of their own.
Restart ==
    /\ pc[Owner] = "join"
    /\ \A t \in {Main} \cup Workers : pc[t] = "done"
    /\ flags' = {}
    /\ chunk' = <<>>
    /\ current' = 0
    /\ known' = 0
    /\ job' = [w \in Workers |-> <<>>]
    /\ done' = [w \in Workers |-> {}]
    /\ pc' = [t \in Threads |->
                 CASE t = Main -> "loop" [] t = Owner -> "idle" [] OTHER -> "test"]
    /\ UNCHANGED <<dataVars, stops>>

-----------------------------------------------------------------------------
MainStep ==
    \/ MainTest \/ FetchBlocks \/ AskForBlocks \/ PushChunk \/ NotifyWorkers
    \/ TestProcessed \/ CompleteBlock \/ DropFront \/ StoreBlockHash
    \/ SignalConsumed \/ PopProcessed \/ ReadNothing
    \/ FallAsleep(Main)

WorkerStep(w) ==
    \/ WorkerTest(w) \/ TakeJob(w) \/ ProcessJob(w) \/ GiveUpJob(w)
    \/ PushProcessed(w) \/ NotifyMain(w) \/ FallAsleep(w)

DownloaderStep ==
    \/ DownloaderTest \/ ReadStored \/ ReadRecent \/ StoreBlocks \/ StoreTopBlock
    \/ ForgetConsumed \/ FallAsleep(Downloader)

OwnerStep ==
    \/ RaiseStop \/ StopDownloader \/ NotifyDownloader \/ JoinDownloader
    \/ NotifyAll \/ ClearQueues \/ Restart

\* Undefined behaviour ends the model of the process.
Undefined == pc[Main] = "undefined"

Stay == Undefined /\ UNCHANGED vars

Next ==
    \/ /\ ~Undefined
       /\ \/ MainStep
          \/ \E w \in Workers : WorkerStep(w)
          \/ DownloaderStep
          \/ OwnerStep
          \/ \E t \in {Main, Downloader} \cup Workers : WakeSpuriously(t)
    \/ Stay

\* Every thread that can move again and again does: a mutex that is released
\* is given to who waits for it, and a daemon that is asked returns blocks.  No
\* fairness for spurious wakeups, nor for calls of stop().
Fairness ==
    /\ SF_vars(~Undefined /\ MainStep)
    /\ \A w \in Workers : SF_vars(~Undefined /\ WorkerStep(w))
    /\ WF_vars(~Undefined /\ DownloaderStep)
    /\ SF_vars(~Undefined /\ StoreBlocks)

Spec == Init /\ [][Next]_vars

FairSpec == Spec /\ Fairness

-----------------------------------------------------------------------------
(* Properties. *)

Places == {"test", "tested", "asleep", "loop", "starved", "push", "notify", "drain",
           "top", "drop", "hash", "signal", "completed", "pop", "undefined", "take",
           "process", "result", "ask", "recent", "answer", "rest", "idle",
           "stopDownloader", "notifyDownloader", "joinDownloader", "notifyAll",
           "clear", "join", "done"}

\* Types of the queues, the flags and the threads' local variables.
ThreadsTypeOK ==
    /\ flags \subseteq Flags
    /\ stored \in Seq(1..MaxHeight)
    /\ queue \in Seq(Items)
    /\ processed \subseteq Items
    /\ consumed \in BOOLEAN
    /\ {recent, current, known} \subseteq 0..MaxHeight
    /\ wallet \subseteq 1..MaxHeight
    /\ chunk \in Seq(Items)
    /\ job \in [Workers -> Seq(Items)]
    /\ done \in [Workers -> SUBSET Items]
    /\ pc \in [Threads -> Places]
    /\ stops \in 0..MaxStops

Feed == INSTANCE BlockFeed WITH
    waiting <- IF pc[Main] = "drop" THEN Tail(stored) ELSE stored,
    held <- wallet

\* However the threads interleave and whenever they are stopped, the wallet
\* applies every block, in the order of the chain, and drops from the store
\* the block it applied (completeBlockProcessing, dropBlock, stop, start).
ImplementsFeed == Feed!Spec

Stopping == "sync" \in flags

MainWaits == pc[Main] \in {"notify", "test", "tested", "asleep"}

\* While the main loop waits for m_processedBlocks.size() == chunkSize, every
\* block of the chunk is in exactly one place: the queue, the hands of one
\* worker, or m_processedBlocks.  A lost one would be waited for forever, and
\* with one too many the test for equality would never succeed.
ChunkIsConserved ==
    MainWaits /\ ~Stopping /\ ~Undefined =>
        LET Taken(w) == IF pc[w] = "process" THEN Range(job[w]) ELSE {}
            held == [w \in Workers |-> Taken(w) \cup done[w]]
        IN  /\ Range(queue) \cup processed \cup UNION {held[w] : w \in Workers}
                   = Range(chunk)
            /\ Range(queue) \cap processed = {}
            /\ \A w \in Workers :
                   /\ Taken(w) \cap done[w] = {}
                   /\ held[w] \cap (Range(queue) \cup processed) = {}
                   /\ \A v \in Workers \ {w} : held[w] \cap held[v] = {}

\* The main loop reads m_processedBlocks without its mutex.  That is safe
\* except against a clear() of stop() (mainLoop's top_unsafe and pop_unsafe).
UndefinedOnlyWhileStopping ==
    Undefined => Stopping /\ pc[Owner] = "join"

\* Once the main loop has told the worker threads to wake up, the chunk gets
\* processed or the synchronizer is stopped (mainLoop, blockProcessingThread).
ChunkIsProcessed ==
    MainWaits ~> (~MainWaits \/ Stopping)
=============================================================================
