----------------------------- MODULE WalletSync -----------------------------
(***************************************************************************)
(* A wallet follows a daemon whose main chain may switch to another        *)
(* branch: BlockDownloader.cpp, SynchronizationStatus.cpp, the fork        *)
(* handling of WalletSynchronizer.cpp and what Core::getWalletSyncData     *)
(* answers.  The daemon is ForkChoice, the specification its block tree is *)
(* shown to implement.                                                     *)
(*                                                                         *)
(* The wallet's transactions are modelled by the blocks they came from.    *)
(* Threads are WalletThreads' subject: here a request, its answer, the     *)
(* scan of a block and its completion are one step each.                   *)
(***************************************************************************)
EXTENDS Integers, Sequences, FiniteSetsExt, Functions

CONSTANTS
    Blocks, Genesis, Prev, ChainTo, Work,   \* the tree of ForkChoice
    Height,         \* block index of every block
    NonEmpty,       \* blocks with transactions besides the coinbase one
    Ours,           \* blocks with an output of this wallet
    SkipEmpty,      \* skipCoinbaseTransactions
    RecentSize,     \* LAST_KNOWN_BLOCK_HASHES_SIZE
    Interval,       \* BLOCK_HASH_CHECKPOINTS_INTERVAL
    ChunkSize,      \* BLOCK_PROCESSING_CHUNK
    BatchSize,      \* blocks in one answer of the daemon
    StoreLimit,     \* blockStoreMemoryLimit, in blocks
    ScanHeights,    \* the heights a wallet may be told to scan from
    MayReturn,      \* may the daemon's chain return to a branch that it left?
    MaxPauses       \* bound on the calls that pause the synchronizer

ASSUME SyncAssumption ==
    /\ Genesis \in Blocks
    /\ Prev \in [Blocks \ {Genesis} -> Blocks]
    /\ Height \in [Blocks -> Nat]
    /\ Height[Genesis] = 0
    /\ \A b \in Blocks \ {Genesis} : Height[b] = Height[Prev[b]] + 1
    /\ ChainTo \in [Blocks -> SUBSET Blocks]
    /\ ChainTo[Genesis] = {Genesis}
    /\ \A b \in Blocks \ {Genesis} : ChainTo[b] = ChainTo[Prev[b]] \cup {b}
    /\ Work \in [Blocks -> Int]
    /\ NonEmpty \subseteq Blocks
    /\ Ours \subseteq NonEmpty
    /\ {SkipEmpty, MayReturn} \subseteq BOOLEAN
    /\ {RecentSize, ChunkSize, BatchSize, StoreLimit} \subseteq Nat \ {0}
    /\ ScanHeights \subseteq Nat /\ ScanHeights # {}
    /\ {Interval, MaxPauses} \subseteq Nat

VARIABLES
    up, known, tip, \* the daemon
    left,           \* blocks that were in its main chain and are not any more
    startHeight,    \* m_startHeight
    stored,         \* m_storedBlocks
    status,         \* m_synchronizationStatus
    request,        \* the hashes sent to the daemon, as <<list>>; <<>> if none
    chunk,          \* blocks at the front of the store handed to the workers
    scanned,        \* how many of them the workers are done with
    wallet,         \* blocks whose transactions the wallet holds
    saved,          \* the wallet file
    pauses          \* calls that paused the synchronizer so far

daemonVars == <<up, known, tip, left>>
storeVars == <<stored, request, chunk, scanned>>
walletVars == <<startHeight, status, wallet>>
vars == <<daemonVars, storeVars, walletVars, saved, pauses>>

Daemon == INSTANCE ForkChoice

MainChain == ChainTo[tip]

\* The main chain from a height on, lowest block first.
MainChainFrom(h) ==
    [i \in 1..(Height[tip] - h + 1) |-> CHOOSE b \in MainChain : Height[b] = h + i - 1]

\* The hashes of m_storedBlocks are taken from its back to its front.
NewestFirst(s) == [i \in DOMAIN s |-> s[Len(s) - i + 1]]

FirstOf(s, n) == SubSeq(s, 1, IF n < Len(s) THEN n ELSE Len(s))

NewStatus == [height |-> 0, recent |-> <<>>, checkpoints |-> <<>>, checkpointAt |-> 0]

Init ==
    /\ Daemon!Init
    /\ left = {}
    /\ startHeight \in ScanHeights
    /\ stored = <<>>
    /\ status = NewStatus
    /\ request = <<>>
    /\ chunk = 0
    /\ scanned = 0
    /\ wallet = {}
    /\ saved = [startHeight |-> startHeight, status |-> NewStatus, wallet |-> {}]
    /\ pauses = 0

-----------------------------------------------------------------------------
(* SynchronizationStatus *)

\* Slip: the oldest hash is not removed.
StoreEveryHash(b) ==
    status' = [status EXCEPT !.height = Height[b],
                             !.recent = <<b>> \o @,
                             !.checkpoints = <<b>> \o @]

\* storeBlockHash.  The newest hash is at the front of the list; the test for
\* a hash that is already there looks at the back, at the oldest.
StoreBlockHash(b) ==
    LET isCheckpoint == status.checkpointAt + Interval < Height[b] IN
    status' =
        IF status.recent # <<>> /\ status.recent[Len(status.recent)] = b
        THEN [status EXCEPT !.height = Height[b]]
        ELSE [height       |-> Height[b],
              recent       |-> FirstOf(<<b>> \o status.recent, RecentSize),
              checkpoints  |-> IF isCheckpoint THEN <<b>> \o status.checkpoints
                               ELSE status.checkpoints,
              checkpointAt |-> IF isCheckpoint THEN Height[b] ELSE status.checkpointAt]

-----------------------------------------------------------------------------
(* BlockDownloader *)

\* Slip: no infrequent checkpoints.
RecentBlocks ==
    LET unprocessed == FirstOf(NewestFirst(stored), RecentSize)
    IN  FirstOf(unprocessed \o status.recent, RecentSize)

\* getBlockCheckpoints: blocks that wait, newest first, then recent blocks up
\* to the size of that list, then the infrequent checkpoints.
BlockCheckpoints ==
    LET unprocessed == FirstOf(NewestFirst(stored), RecentSize)
    IN  FirstOf(unprocessed \o status.recent, RecentSize) \o status.checkpoints

\* downloadBlocks, up to the call of the daemon.
AskDaemon ==
    /\ request = <<>>
    /\ Len(stored) < StoreLimit
    /\ Height[tip] >= status.height
    /\ request' = <<BlockCheckpoints>>
    /\ UNCHANGED <<daemonVars, stored, chunk, scanned, walletVars, saved, pauses>>

\* findBlockchainSupplement: the first hash of the list that is in the main
\* chain; it throws when there is none.
Supplement(hashes) ==
    Height[hashes[Min({i \in DOMAIN hashes : hashes[i] \in MainChain})]]

CanAnswer(hashes) == hashes = <<>> \/ Range(hashes) \cap MainChain # {}

\* getWalletSyncData: from the block after the newest known one, or from the
\* start height if that is higher.
StartIndex(hashes) ==
    LET lastKnown == IF hashes = <<>> THEN 0 ELSE Supplement(hashes)
    IN  Max({IF lastKnown = 0 THEN 0 ELSE lastKnown + 1, startHeight})

WalletSyncData(hashes) ==
    LET main == MainChainFrom(StartIndex(hashes))
    IN  FirstOf(IF SkipEmpty THEN SelectSeq(main, LAMBDA b : b \in NonEmpty) ELSE main,
                BatchSize)

\* The rest of downloadBlocks.  Without blocks to add, and with none waiting,
\* the daemon's top block counts as processed.
Answer ==
    /\ request # <<>>
    /\ CanAnswer(request[1])
    /\ \E blocks \in {WalletSyncData(request[1])} :
           /\ stored' = stored \o blocks
           /\ IF blocks = <<>> /\ stored = <<>>
              THEN StoreBlockHash(tip) ELSE UNCHANGED status
    /\ request' = <<>>
    /\ UNCHANGED <<daemonVars, chunk, scanned, startHeight, wallet, saved, pauses>>

\* The call fails: no connection, a time out, or no hash of the list is known.
AnswerFails ==
    /\ request # <<>>
    /\ request' = <<>>
    /\ UNCHANGED <<daemonVars, stored, chunk, scanned, walletVars, saved, pauses>>

-----------------------------------------------------------------------------
(* WalletSynchronizer *)

\* The main loop hands the next blocks to the workers.
FetchBlocks ==
    /\ chunk = 0
    /\ stored # <<>>
    /\ chunk' = Min({ChunkSize, Len(stored)})
    /\ scanned' = 0
    /\ UNCHANGED <<daemonVars, stored, request, walletVars, saved, pauses>>

\* A worker scans a block.  It asks for the global indexes of the wallet's own
\* outputs until the daemon, which knows those of its main chain, returns them.
ScanBlock ==
    /\ scanned < chunk
    /\ LET b == stored[scanned + 1] IN b \in Ours => b \in MainChain
    /\ scanned' = scanned + 1
    /\ UNCHANGED <<daemonVars, stored, request, chunk, walletVars, saved, pauses>>

\* Slip: a block as high as the wallet is not taken for a fork.
IsBelow(b) == status.height > Height[b]

IsFork(b) == status.height >= Height[b] /\ Height[b] # 0

\* completeBlockProcessing: forked transactions go, those of the block come,
\* and the block is dropped from the store.
CompleteBlock ==
    /\ chunk > 0
    /\ scanned = chunk
    /\ LET b == Head(stored) IN
       /\ wallet' = {b} \cup {x \in wallet : IsFork(b) => Height[x] < Height[b]}
       /\ StoreBlockHash(b)
    /\ stored' = Tail(stored)
    /\ chunk' = chunk - 1
    /\ scanned' = scanned - 1
    /\ UNCHANGED <<daemonVars, request, startHeight, saved, pauses>>

-----------------------------------------------------------------------------
(* WalletBackend *)

\* The synchronizer is stopped for the operation: the chunk is abandoned, the
\* stored blocks stay, the answer of a request is refused.
Pause ==
    /\ pauses < MaxPauses
    /\ pauses' = pauses + 1
    /\ chunk' = 0
    /\ scanned' = 0
    /\ request' = <<>>
    /\ UNCHANGED daemonVars

\* save: toJSON of the synchronizer and of the subwallets.
SaveWallet ==
    /\ Pause
    /\ saved' = [startHeight |-> startHeight, status |-> status, wallet |-> wallet]
    /\ UNCHANGED <<stored, walletVars>>

\* The process ends at any time and the wallet is opened again.  fromJSON does
\* not restore m_lastSavedCheckpointAt.
OpenWallet ==
    /\ Pause
    /\ startHeight' = saved.startHeight
    /\ status' = [saved.status EXCEPT !.checkpointAt = 0]
    /\ wallet' = saved.wallet
    /\ stored' = <<>>
    /\ UNCHANGED saved

\* reset: scan again from a height, and save.
ResetWallet ==
    /\ Pause
    /\ startHeight' \in ScanHeights
    /\ status' = NewStatus
    /\ wallet' = {}
    /\ stored' = <<>>
    /\ saved' = [startHeight |-> startHeight', status |-> NewStatus, wallet |-> {}]

\* importSubWallet: the wallet starts over, for all its subwallets, unless it
\* has not come to the height yet.  Nothing is saved.
ImportSubWallet ==
    /\ Pause
    /\ startHeight' \in {h \in ScanHeights : status.height >= h}
    /\ status' = NewStatus
    /\ wallet' = {}
    /\ stored' = <<>>
    /\ UNCHANGED saved

-----------------------------------------------------------------------------
DaemonReceives ==
    /\ \E b \in Blocks \ {Genesis} : Daemon!Receive(b)
    /\ MayReturn \/ ChainTo[tip'] \cap left = {}
    /\ left' = (left \cup MainChain) \ ChainTo[tip']
    /\ UNCHANGED <<storeVars, walletVars, saved, pauses>>

Next ==
    \/ DaemonReceives
    \/ AskDaemon
    \/ Answer
    \/ AnswerFails
    \/ FetchBlocks
    \/ ScanBlock
    \/ CompleteBlock
    \/ SaveWallet
    \/ OpenWallet
    \/ ResetWallet
    \/ ImportSubWallet

Spec == Init /\ [][Next]_vars

\* The threads run, and a daemon that can answer again and again does: the
\* strong fairness of Answer, written out.
DaemonAnswers ==
    []<>(request # <<>> /\ CanAnswer(request[1])) => []<><<Answer>>_vars

Fairness ==
    /\ WF_vars(AskDaemon)
    /\ DaemonAnswers
    /\ WF_vars(FetchBlocks)
    /\ WF_vars(ScanBlock)
    /\ WF_vars(CompleteBlock)

FairSpec == Spec /\ Fairness

-----------------------------------------------------------------------------
(* Properties. *)

StatusType ==
    [height : Nat, recent : Seq(Blocks), checkpoints : Seq(Blocks), checkpointAt : Nat]

\* Types; a request carries at most RecentSize hashes besides the checkpoints.
SyncTypeOK ==
    /\ tip \in known /\ known \subseteq Blocks
    /\ startHeight \in ScanHeights
    /\ stored \in Seq(Blocks)
    /\ status \in StatusType
    /\ Len(status.recent) <= RecentSize
    /\ request \in Seq(Seq(Blocks)) /\ Len(request) <= 1
    /\ chunk \in 0..Len(stored)
    /\ scanned \in 0..chunk
    /\ wallet \subseteq Blocks
    /\ pauses \in 0..MaxPauses

IsRelevant(b) == Height[b] >= startHeight /\ (SkipEmpty => b \in NonEmpty)

\* "Chain forked, invalidate previous transactions" (completeBlockProcessing):
\* the wallet's transactions are those of ONE chain, all of them from the start
\* height up to the last block applied, never of two branches.
WalletIsOneChain ==
    wallet # {} =>
        \E last \in wallet : wallet = {b \in ChainTo[last] : IsRelevant(b)}

\* When the daemon's chain settles the wallet ends up with exactly that chain,
\* whatever branches it had downloaded, scanned or saved before; except that
\* it waits for a daemon that is not as high as the wallet was (downloadBlocks).
WalletCatchesUp ==
    <>[](\/ wallet = {b \in MainChain : IsRelevant(b)}
         \/ Height[tip] < status.height)
=============================================================================
