--------------------------- MODULE ChainSegments ---------------------------
(***************************************************************************)
(* The block tree of the daemon's Core: a tree of chain segments.  The     *)
(* root segment lives in the database (DatabaseBlockchainCache), all the   *)
(* others in memory only (BlockchainCache).  Core::addBlock pushes blocks  *)
(* onto leaf segments, splits segments where a fork starts and moves the   *)
(* main chain to a heavier leaf; Core::save folds the main chain back into *)
(* the database when the daemon stops.                                     *)
(*                                                                         *)
(* chainsLeaves is modelled by chainsLeaves[0] (mainLeaf) and the set of   *)
(* the others (altLeaves): the code uses their order only to search them   *)
(* all and to delete them one by one.  The blocks of a segment are a set,  *)
(* ordered by Height.  A segment is named by its lowest block, which it    *)
(* keeps from its creation to its end; the root segment by the genesis     *)
(* block.  A failed assert ends the process in a phase of its own, as in a *)
(* build with asserts; one without goes on, and nothing is claimed of it   *)
(* from there.                                                             *)
(***************************************************************************)
EXTENDS Integers, FiniteSets

CONSTANTS
    Blocks,         \* blocks that pass the checks on their own bytes
    Genesis,        \* currency.genesisBlock()
    Prev,           \* previousBlockHash
    Height,         \* CachedBlock::getBlockIndex
    NextDifficulty, \* difficulty required of the successors of a block
    KeyImagesOf,    \* key images spent by the transactions of a block
    Checkpoints,    \* checkpoints: a function from heights to blocks
    None,           \* the null pointer
    Dangling,       \* a child pointer to a destroyed segment
    MaxRewind       \* MAX_BLOCK_ALLOWED_TO_REWIND

\* Segments are named by their lowest block.
SegmentIds == Blocks

\* The database segment.
Root == Genesis

Phases == {"running", "deleting", "merging", "stopped", "assertFailed", "nullParent"}

ASSUME BlockAssumption ==
    /\ Genesis \in Blocks
    /\ Prev \in [Blocks \ {Genesis} -> Blocks]
    /\ Height \in [Blocks -> Nat]
    /\ Height[Genesis] = 0
    /\ \A b \in Blocks \ {Genesis} : Height[b] = Height[Prev[b]] + 1
    /\ NextDifficulty \in [Blocks -> Nat]

ASSUME PointerAssumption ==
    /\ None \notin Blocks
    /\ Dangling \notin Blocks

ASSUME CheckpointAssumption ==
    /\ DOMAIN Checkpoints \subseteq Nat
    /\ IsFiniteSet(DOMAIN Checkpoints)
    /\ MaxRewind \in Nat

VARIABLES
    phase,                  \* what the process is doing
    storage,                \* chainsStorage: the live segments
    blocks,                 \* blockInfos of every segment; blocks[Root] is on disk
    parent,                 \* parent pointer of every segment
    children,               \* children of every segment
    mainLeaf,               \* chainsLeaves[0]
    altLeaves,              \* the rest of chainsLeaves
    mainChainSet,           \* segments of the main chain
    cumulativeDifficulty    \* as stored with every known block

chainVars == <<phase, storage, blocks, parent, children, mainLeaf, altLeaves,
               mainChainSet, cumulativeDifficulty>>
-----------------------------------------------------------------------------
(* Reading the tree *)

Known == UNION {blocks[s] : s \in storage}

Leaves == {mainLeaf} \cup altLeaves

Highest(B) == CHOOSE b \in B : \A c \in B : Height[c] <= Height[b]

TopBlock(s) == Highest(blocks[s])

TopBlockIndex(s) == Height[TopBlock(s)]

\* getParent() until nullptr, as updateMainChainSet and the other walks do.
Paths(par) ==
    LET path[s \in SegmentIds] ==
            IF par[s] = None THEN {s} ELSE {s} \cup path[par[s]]
    IN  path

PathFrom(leaf, par) == {s \in SegmentIds : s \in Paths(par)[leaf]}

\* Slip: the parent is never asked.
CheckOwnSegmentOnly(seg, keyImage, blockIndex) ==
    \E b \in blocks[seg] : keyImage \in KeyImagesOf[b] /\ Height[b] <= blockIndex

\* A segment answers for its own blocks and asks its parent otherwise; a hit in
\* a segment is final, even when it lies above the index asked for.
CheckIfSpent(seg, keyImage, blockIndex) ==
    LET spent[s \in SegmentIds] ==
            LET hits == {b \in blocks[s] : keyImage \in KeyImagesOf[b]}
                below == \A b \in blocks[s] : blockIndex < Height[b]
                asks == parent[s] # None /\ spent[parent[s]]
            IN  IF below \/ hits = {} THEN asks
                ELSE \E b \in hits : Height[b] <= blockIndex
    IN  spent[seg]

IsInCheckpointZone(index) == \E point \in DOMAIN Checkpoints : index <= point

CheckBlock(b) == Height[b] \in DOMAIN Checkpoints => Checkpoints[Height[b]] = b
-----------------------------------------------------------------------------
(* Core::addBlock *)

\* The checks before anything changes: the block is new, the segment holds its
\* predecessor, and no key image of it is spent below it on that chain.  In the
\* checkpoint zone the key images are not looked up.
Accepts(b, s) ==
    /\ phase = "running"
    /\ b \notin Known
    /\ s \in storage
    /\ Prev[b] \in blocks[s]
    /\ NextDifficulty[Prev[b]] # 0
    /\ CheckBlock(b)
    /\ \/ IsInCheckpointZone(Height[b])
       \/ \A k \in KeyImagesOf[b] : ~CheckIfSpent(s, k, Height[Prev[b]])

AddOnTop(b, s) == TopBlockIndex(s) = Height[Prev[b]]

\* pushBlock adds the block's difficulty to what the block below it has stored.
StoreDifficulty(b) ==
    cumulativeDifficulty' = [cumulativeDifficulty EXCEPT
        ![b] = cumulativeDifficulty[Prev[b]] + NextDifficulty[Prev[b]]]

PushOnLeaf(b, s) ==
    /\ Accepts(b, s)
    /\ AddOnTop(b, s)
    /\ children[s] = {}
    /\ blocks' = [blocks EXCEPT ![s] = @ \cup {b}]
    /\ StoreDifficulty(b)
    /\ UNCHANGED <<phase, storage, parent, children>>

\* ADDED_TO_MAIN
AddToMain(b, s) ==
    /\ s = mainLeaf
    /\ PushOnLeaf(b, s)
    /\ UNCHANGED <<mainLeaf, altLeaves, mainChainSet>>

\* Slip: a chain as heavy as the main chain replaces it.
IsHeavierOrEqual(b) == cumulativeDifficulty'[b] >= cumulativeDifficulty[TopBlock(mainLeaf)]

\* Slip: the longer chain wins, not the heavier one.
IsLonger(b) == Height[b] > TopBlockIndex(mainLeaf)

\* Slip: the operands are swapped.
IsLighter(b) == cumulativeDifficulty[TopBlock(mainLeaf)] > cumulativeDifficulty'[b]

IsHeavier(b) == cumulativeDifficulty'[b] > cumulativeDifficulty[TopBlock(mainLeaf)]

\* ADDED_TO_ALTERNATIVE, on top of an alternative leaf
AddToAlternative(b, s) ==
    /\ s # mainLeaf
    /\ PushOnLeaf(b, s)
    /\ ~IsHeavier(b)
    /\ UNCHANGED <<mainLeaf, altLeaves, mainChainSet>>

\* ADDED_TO_ALTERNATIVE_AND_SWITCHED
SwitchMainChain(b, s) ==
    /\ s # mainLeaf
    /\ PushOnLeaf(b, s)
    /\ IsHeavier(b)
    /\ mainLeaf' = s
    /\ altLeaves' = (altLeaves \ {s}) \cup {mainLeaf}
    /\ mainChainSet' = PathFrom(s, parent)

\* ADDED_TO_ALTERNATIVE, beside the children of an inner segment
AddBesideChildren(b, s) ==
    /\ Accepts(b, s)
    /\ AddOnTop(b, s)
    /\ children[s] # {}
    /\ storage' = storage \cup {b}
    /\ blocks' = [blocks EXCEPT ![b] = {b}]
    /\ parent' = [parent EXCEPT ![b] = s]
    /\ children' = [children EXCEPT ![s] = @ \cup {b}]
    /\ altLeaves' = altLeaves \cup {b}
    /\ mainChainSet' = PathFrom(mainLeaf, parent')
    /\ StoreDifficulty(b)
    /\ UNCHANGED <<phase, mainLeaf>>

Upper(b, s) == {c \in blocks[s] : Height[c] > Height[Prev[b]]}

\* Slip: the lower part keeps the first block of the upper one.
LowerAndOneMore(b, s) == {c \in blocks[s] : Height[c] <= Height[Prev[b]] + 1}

Lower(b, s) == {c \in blocks[s] : Height[c] <= Height[Prev[b]]}

\* BlockchainCache::split hands its children to the upper segment;
\* DatabaseBlockchainCache::split keeps them.
ChildrenOfUpper(s) == IF s = Root THEN {} ELSE children[s]

\* ADDED_TO_ALTERNATIVE, forking inside a segment: the segment keeps its lower
\* part and gets two children, its upper part and the new block.
ForkInside(b, s) ==
    /\ Accepts(b, s)
    /\ ~AddOnTop(b, s)
    /\ ChildrenOfUpper(s) = {} => s \in Leaves
    /\ LET upper == CHOOSE c \in blocks[s] : Height[c] = Height[Prev[b]] + 1 IN
        /\ storage' = storage \cup {upper, b}
        /\ blocks' = [blocks EXCEPT ![s] = Lower(b, s),
                                    ![upper] = Upper(b, s),
                                    ![b] = {b}]
        /\ parent' = [x \in SegmentIds |->
                        IF x \in {upper, b} THEN s
                        ELSE IF x \in ChildrenOfUpper(s) THEN upper
                        ELSE parent[x]]
        /\ children' = [children EXCEPT
                        ![s] = (@ \ ChildrenOfUpper(s)) \cup {upper, b},
                        ![upper] = ChildrenOfUpper(s)]
        /\ mainLeaf' = IF ChildrenOfUpper(s) = {} /\ mainLeaf = s THEN upper ELSE mainLeaf
        /\ altLeaves' = {b} \cup (IF ChildrenOfUpper(s) = {} /\ s \in altLeaves
                                  THEN (altLeaves \ {s}) \cup {upper}
                                  ELSE altLeaves)
        /\ mainChainSet' = PathFrom(mainLeaf', parent')
    /\ StoreDifficulty(b)
    /\ UNCHANGED phase

\* The split has cut the segment when assert(found != chainsLeaves.end()) fails.
ForkAssertFails(b, s) ==
    /\ Accepts(b, s)
    /\ ~AddOnTop(b, s)
    /\ ChildrenOfUpper(s) = {} /\ s \notin Leaves
    /\ blocks' = [blocks EXCEPT ![s] = Lower(b, s)]
    /\ phase' = "assertFailed"
    /\ UNCHANGED <<storage, parent, children, mainLeaf, altLeaves, mainChainSet,
                   cumulativeDifficulty>>

AddBlock ==
    \E b \in Blocks \ {Genesis}, s \in SegmentIds :
        \/ AddToMain(b, s)
        \/ AddToAlternative(b, s)
        \/ SwitchMainChain(b, s)
        \/ AddBesideChildren(b, s)
        \/ ForkInside(b, s)
        \/ ForkAssertFails(b, s)
-----------------------------------------------------------------------------
(* Core::save, at the end of main(); one step per database write, so that a *)
(* crash can fall between two of them.                                      *)

Save ==
    /\ phase = "running"
    /\ phase' = "deleting"
    /\ UNCHANGED <<storage, blocks, parent, children, mainLeaf, altLeaves,
                   mainChainSet, cumulativeDifficulty>>

\* Slip: the parent of the parent becomes a leaf.
NewLeavesTooHigh(leaf) ==
    IF children[parent[leaf]] = {leaf} THEN {parent[parent[leaf]]} ELSE {}

\* Slip: a parent that loses its last child is forgotten.
NoNewLeaves(leaf) == {}

\* Slip: a parent becomes a leaf while it still has children.
NewLeavesTooEarly(leaf) == {parent[leaf]}

\* A parent that loses its last child becomes a leaf itself.
NewLeaves(leaf) == {p \in {parent[leaf]} : children[p] = {leaf}}

\* deleteAlternativeChains, deleteLeaf
DeleteLeaf ==
    /\ phase = "deleting"
    /\ \E leaf \in altLeaves :
        /\ parent[leaf] # None
        /\ children' = [children EXCEPT ![parent[leaf]] = @ \ {leaf}]
        /\ storage' = storage \ {leaf}
        /\ blocks' = [blocks EXCEPT ![leaf] = {}]
        /\ parent' = [parent EXCEPT ![leaf] = None]
        /\ altLeaves' = (altLeaves \ {leaf}) \cup NewLeaves(leaf)
    /\ UNCHANGED <<phase, mainLeaf, mainChainSet, cumulativeDifficulty>>

\* deleteLeaf asks the parent of a leaf that has none.
DeleteLeafFails ==
    /\ phase = "deleting"
    /\ \E leaf \in altLeaves : parent[leaf] = None
    /\ phase' = "nullParent"
    /\ UNCHANGED <<storage, blocks, parent, children, mainLeaf, altLeaves,
                   mainChainSet, cumulativeDifficulty>>

MainChainBlocks == UNION {blocks[s] : s \in PathFrom(mainLeaf, parent)}

\* Slip: any block above the root segment may be next.
IsAboveRoot(b) == Height[b] > TopBlockIndex(Root)

IsNextToMerge(b) == Height[b] = TopBlockIndex(Root) + 1

\* mergeSegments pushes the next block of the main chain onto the root segment.
MergeBlock ==
    /\ \/ phase = "deleting" /\ altLeaves = {}
       \/ phase = "merging"
    /\ phase' = "merging"
    /\ \E b \in MainChainBlocks :
        /\ IsNextToMerge(b)
        /\ blocks' = [blocks EXCEPT ![Root] = @ \cup {b}]
    /\ UNCHANGED <<storage, parent, children, mainLeaf, altLeaves, mainChainSet,
                   cumulativeDifficulty>>

\* mergeSegments asserts that the next segment starts right above the root.
MergeAssertFails ==
    /\ \/ phase = "deleting" /\ altLeaves = {}
       \/ phase = "merging"
    /\ \E b \in MainChainBlocks : Height[b] > TopBlockIndex(Root)
    /\ \A b \in MainChainBlocks : ~IsNextToMerge(b)
    /\ phase' = "assertFailed"
    /\ UNCHANGED <<storage, blocks, parent, children, mainLeaf, altLeaves,
                   mainChainSet, cumulativeDifficulty>>

\* What a process that ends leaves behind: the root segment, nothing else.
OnlyRootIsLeft ==
    /\ phase' = "stopped"
    /\ storage' = {Root}
    /\ blocks' = [s \in SegmentIds |-> IF s = Root THEN blocks[Root] ELSE {}]
    /\ parent' = [s \in SegmentIds |-> None]
    /\ children' = [s \in SegmentIds |-> {}]
    /\ mainLeaf' = Root
    /\ altLeaves' = {}
    /\ mainChainSet' = {Root}
    /\ cumulativeDifficulty' = [b \in Blocks |->
                                   IF b \in blocks[Root] THEN cumulativeDifficulty[b] ELSE 0]

\* Slip: main() returns before all blocks are merged.
FinishSaveEarly ==
    /\ \/ phase = "deleting" /\ altLeaves = {}
       \/ phase = "merging"
    /\ OnlyRootIsLeft

\* mergeMainChainSegments is done; main() returns.
FinishSave ==
    /\ \/ phase = "deleting" /\ altLeaves = {}
       \/ phase = "merging"
    /\ \A b \in MainChainBlocks : Height[b] <= TopBlockIndex(Root)
    /\ OnlyRootIsLeft

SaveStep == DeleteLeaf \/ DeleteLeafFails \/ MergeBlock \/ MergeAssertFails \/ FinishSave

\* The process dies without saving.
Crash ==
    /\ phase # "stopped"
    /\ OnlyRootIsLeft
-----------------------------------------------------------------------------
(* Starting: Core::load, and Core::rewind when --rewind-to-height is given *)

Load ==
    /\ phase = "stopped"
    /\ phase' = "running"
    /\ UNCHANGED <<storage, blocks, parent, children, mainLeaf, altLeaves,
                   mainChainSet, cumulativeDifficulty>>

\* DatabaseBlockchainCache::rewind copies the blocks it removes to a segment
\* that it adds to its children and destroys when it returns.
LoadAndRewind(height) ==
    /\ phase = "stopped"
    /\ TopBlockIndex(Root) > height
    /\ TopBlockIndex(Root) - height <= MaxRewind
    /\ TopBlockIndex(Root) >= MaxRewind
    /\ height > 1
    /\ phase' = "running"
    /\ blocks' = [blocks EXCEPT ![Root] = {b \in @ : Height[b] < height}]
    /\ children' = [children EXCEPT ![Root] = {Dangling}]
    /\ cumulativeDifficulty' = [b \in Blocks |->
                                   IF b \in blocks'[Root] THEN cumulativeDifficulty[b] ELSE 0]
    /\ UNCHANGED <<storage, parent, mainLeaf, altLeaves, mainChainSet>>
-----------------------------------------------------------------------------
\* The first start: the database holds the genesis block.
Init ==
    /\ phase = "running"
    /\ storage = {Root}
    /\ blocks = [s \in SegmentIds |-> IF s = Root THEN {Genesis} ELSE {}]
    /\ parent = [s \in SegmentIds |-> None]
    /\ children = [s \in SegmentIds |-> {}]
    /\ mainLeaf = Root
    /\ altLeaves = {}
    /\ mainChainSet = {Root}
    /\ cumulativeDifficulty = [b \in Blocks |-> IF b = Genesis THEN 1 ELSE 0]

Next == AddBlock \/ Save \/ SaveStep \/ Crash \/ Load

Spec == Init /\ [][Next]_chainVars

\* main() runs save() to its end once it has begun it.
FairSpec == Spec /\ WF_chainVars(SaveStep)

\* The daemon may also be started with --rewind-to-height.
RewindNext == Next \/ \E height \in 0..Cardinality(Blocks) : LoadAndRewind(height)

RewindSpec == Init /\ [][RewindNext]_chainVars
-----------------------------------------------------------------------------
(* Correctness *)

\* Every variable keeps its type: pointers point to segments, leaves are live.
TypeOK ==
    /\ phase \in Phases
    /\ storage \subseteq SegmentIds
    /\ blocks \in [SegmentIds -> SUBSET Blocks]
    /\ parent \in [SegmentIds -> SegmentIds \cup {None}]
    /\ children \in [SegmentIds -> SUBSET (SegmentIds \cup {Dangling})]
    /\ mainLeaf \in SegmentIds
    /\ altLeaves \subseteq SegmentIds
    /\ mainChainSet \subseteq SegmentIds
    /\ cumulativeDifficulty \in [Blocks -> Nat]

\* One segment: it starts with the block that names it, has a top block, holds
\* one block for every height between the two, each on top of the one below.
SegmentIsChain(s) ==
    /\ s \in blocks[s]
    /\ \E b \in blocks[s] : \A c \in blocks[s] : Height[c] <= Height[b]
    /\ \A b \in blocks[s] : Height[s] <= Height[b]
    /\ \A b \in blocks[s] \ {s} : Prev[b] \in blocks[s]
    /\ \A b, c \in blocks[s] : Height[b] = Height[c] => b = c
    /\ \A b \in blocks[s] : \A h \in Height[s] .. Height[b] :
          \E c \in blocks[s] : Height[c] = h

\* The difficulty stored with a block is that of its predecessor plus its own.
AddsUp(b) == b # Genesis =>
    cumulativeDifficulty[b] = cumulativeDifficulty[Prev[b]] + NextDifficulty[Prev[b]]

\* The segments: every one is a chain, no two share a block, and an in-memory
\* segment starts right above the top block of its parent.
SegmentsAreLinked ==
    /\ Root \in storage
    /\ \A s \in storage : SegmentIsChain(s)
    /\ \A s, t \in storage : \A b \in blocks[s] : b \in blocks[t] => s = t
    /\ parent[Root] = None
    /\ \A s \in storage \ {Root} :
          parent[s] \in storage /\ Prev[s] = TopBlock(parent[s])
    /\ \A s \in SegmentIds \ storage : parent[s] = None

\* The pointers: child and parent pointers agree, and chainsLeaves lists exactly
\* the segments without children.
LeavesAreChildless ==
    /\ \A s \in SegmentIds : \A t \in children[s] :
          s \in storage /\ t \in storage /\ parent[t] = s
    /\ \A t \in storage \ {Root} : t \in children[parent[t]]
    /\ mainLeaf \in storage
    /\ altLeaves \subseteq storage
    /\ mainLeaf \notin altLeaves
    /\ \A s \in storage : s \in Leaves <=> children[s] = {}

\* addBlock never stores a block in two segments, nor two blocks of one height
\* in one segment, however splits and switches interleave.
BlocksAreStoredOnce ==
    phase = "running" =>
        \A s, t \in storage : \A b \in blocks[s], c \in blocks[t] :
            /\ b = c => s = t
            /\ s = t /\ Height[b] = Height[c] => b = c

\* mainChainSet, which decides what a switch returns to the pool, is exactly
\* the set of ancestors of chainsLeaves[0].
MainChainSetIsMainChain ==
    phase = "running" => mainChainSet = PathFrom(mainLeaf, parent)

\* The main chain has at least the work of every block known, although only a
\* push on an alternative leaf ever compares chains: forking inside a segment
\* or beside its children never has to switch.
MainChainIsHeaviest ==
    phase = "running" =>
        \A b \in Known : cumulativeDifficulty[b] <= cumulativeDifficulty[TopBlock(mainLeaf)]

\* Even after a rewind the main chain is at most one block behind: the
\* predecessor of every known block has no more work than the main chain.
MainChainIsAtMostOneBehind ==
    phase = "running" =>
        \A b \in Known \ {Genesis} :
            cumulativeDifficulty[Prev[b]] <= cumulativeDifficulty[TopBlock(mainLeaf)]

\* Above the checkpoints no chain of the tree, main or alternative, spends a
\* key image twice.
NoDoubleSpend ==
    phase = "running" =>
        \A leaf \in Leaves :
            LET chain == UNION {blocks[s] : s \in PathFrom(leaf, parent)} IN
            \A b, c \in chain :
                (Height[b] < Height[c] /\ ~IsInCheckpointZone(Height[c]))
                    => KeyImagesOf[b] \cap KeyImagesOf[c] = {}

\* At every moment, also in the middle of save() and when a failed assert has
\* ended the process, the database alone is one unbroken chain from the genesis
\* block: a crash between any two writes leaves what the next start can extend.
DatabaseIsOneChain ==
    /\ Genesis \in blocks[Root]
    /\ \A b \in blocks[Root] \ {Genesis} : Prev[b] \in blocks[Root]
    /\ \A b, c \in blocks[Root] : Height[b] = Height[c] => b = c

\* What save() relies on while it merges: the main chain is one chain that the
\* root segment is part of, and stays one while the root takes its blocks over.
MergeIsSafe ==
    /\ Root \in PathFrom(mainLeaf, parent)
    /\ \A b \in MainChainBlocks : AddsUp(b) /\ (b # Genesis => Prev[b] \in MainChainBlocks)
    /\ \A b, c \in MainChainBlocks : Height[b] = Height[c] => b = c

\* Between two runs of the daemon only the database is left.
OnlyRootExists ==
    /\ storage = {Root}
    /\ parent = [s \in SegmentIds |-> None]
    /\ children = [s \in SegmentIds |-> {}]
    /\ mainLeaf = Root
    /\ altLeaves = {}
    /\ mainChainSet = {Root}

\* The inductive invariant behind the safety properties: what holds of the
\* database always, and of the tree in memory in each phase of the process.
TreeIsConsistent ==
    /\ SegmentIsChain(Root)
    /\ \A b \in blocks[Root] : AddsUp(b)
    /\ phase \in {"running", "deleting"} =>
          SegmentsAreLinked /\ LeavesAreChildless /\ \A b \in Known : AddsUp(b)
    /\ phase = "running" => MainChainIsHeaviest /\ MainChainSetIsMainChain
    /\ phase = "merging" => MergeIsSafe
    /\ phase = "stopped" => OnlyRootExists

\* A save that comes to its end has written the whole main chain.
SaveKeepsMainChain ==
    [][FinishSave => MainChainBlocks \subseteq blocks'[Root]]_chainVars

\* save() ends: deleteAlternativeChains does not chase the leaves it creates.
SaveEnds == phase = "deleting" ~> phase = "stopped"

\* previousBlockHash until the genesis block: the chain that ends in a block.
ChainTo == [b \in Blocks |-> PathFrom(b, [c \in Blocks |-> IF c = Genesis THEN None ELSE Prev[c]])]

\* The cumulative difficulty of that chain, from the blocks alone.
Work ==
    LET work[b \in Blocks] ==
            IF b = Genesis THEN 1 ELSE work[Prev[b]] + NextDifficulty[Prev[b]]
    IN  work

\* The abstract view: the tree is what the segments hold together, the tip is
\* the top of the main leaf; once the process saves, alternative chains do not
\* count any more, and once it is gone only the database does.
AbstractTip == IF phase \in {"running", "deleting", "merging"} THEN TopBlock(mainLeaf)
               ELSE TopBlock(Root)

AbstractKnown == IF phase = "running" THEN Known ELSE ChainTo[AbstractTip]

Abstract == INSTANCE ForkChoice WITH
    up <- phase = "running",
    known <- AbstractKnown,
    tip <- AbstractTip

\* The segment tree implements the fork choice of ForkChoice: known blocks are
\* never forgotten while the daemon runs, the tip is the first block seen with
\* the most work, and a crash costs only a suffix of the main chain.
ImplementsForkChoice == Abstract!Spec
=============================================================================
