---------------------------- MODULE ChainLemmas ----------------------------
(***************************************************************************)
(* Lemmas about the operators of ChainSegments (pushing a block on a       *)
(* segment, splitting a segment), and the proof that every case of         *)
(* Core::addBlock keeps the type invariant and TreeIsConsistent, the       *)
(* inductive invariant of ChainSegments.                                   *)
(***************************************************************************)
EXTENDS ChainSegments, TLAPS
-----------------------------------------------------------------------------
(* The top block of a segment *)

\* A set of blocks with a highest block has a top block.
LEMMA HighestIsHighest ==
    ASSUME NEW B, \E b \in B : \A c \in B : Height[c] <= Height[b]
    PROVE  Highest(B) \in B /\ \A c \in B : Height[c] <= Height[Highest(B)]
  BY Zenon DEF Highest

\* The same for the blocks of a segment, as getTopBlockIndex reads them.
LEMMA TopBlockIsHighest ==
    ASSUME NEW s, \E b \in blocks[s] : \A c \in blocks[s] : Height[c] <= Height[b]
    PROVE  /\ TopBlock(s) \in blocks[s]
           /\ \A c \in blocks[s] : Height[c] <= Height[TopBlock(s)]
  BY HighestIsHighest, Zenon DEF TopBlock

\* The highest block is the only one, when the blocks differ in height.
LEMMA HighestIs ==
    ASSUME NEW B \in SUBSET Blocks,
           \A b, c \in B : Height[b] = Height[c] => b = c,
           NEW t \in B, \A c \in B : Height[c] <= Height[t]
    PROVE  Highest(B) = t
  <1>1. Highest(B) \in B /\ \A c \in B : Height[c] <= Height[Highest(B)]
    BY HighestIsHighest, Zenon
  <1>2. Height[t] \in Nat /\ Height[Highest(B)] \in Nat
    BY <1>1, BlockAssumption, Zenon
  <1> QED BY <1>1, <1>2

-----------------------------------------------------------------------------
(* Pushing a block *)

\* The predecessor of every known block is known: addBlock takes no orphans.
LEMMA KnownIsClosed ==
    ASSUME TypeOK, SegmentsAreLinked, NEW c \in Known, c # Genesis
    PROVE  Prev[c] \in Known
  <1> USE DEF SegmentIds, Root
  <1>1. PICK s \in storage : c \in blocks[s]
    BY Zenon DEF Known
  <1>2. CASE c # s
    BY <1>1, <1>2 DEF SegmentsAreLinked, SegmentIsChain, Known
  <1>3. CASE c = s
    <2>1. parent[s] \in storage /\ Prev[s] = TopBlock(parent[s])
      BY <1>3, Zenon DEF SegmentsAreLinked
    <2>2. TopBlock(parent[s]) \in blocks[parent[s]]
      BY <2>1, TopBlockIsHighest, Zenon DEF SegmentsAreLinked, SegmentIsChain
    <2> QED BY <1>3, <2>1, <2>2, Zenon DEF Known
  <1> QED BY <1>2, <1>3, Zenon

\* The block a block is added on top of is the top block of the segment.
LEMMA PushIsOnTopBlock ==
    ASSUME TypeOK, NEW s \in SegmentIds, SegmentIsChain(s),
           NEW b \in Blocks \ {Genesis}, Prev[b] \in blocks[s], AddOnTop(b, s)
    PROVE  /\ TopBlock(s) = Prev[b]
           /\ \A c \in blocks[s] : Height[c] < Height[b]
  <1>1. TopBlock(s) \in blocks[s] /\ \A c \in blocks[s] : Height[c] <= Height[TopBlock(s)]
    BY TopBlockIsHighest, Zenon DEF SegmentIsChain
  <1>2. TopBlock(s) = Prev[b]
    BY <1>1, Zenon DEF AddOnTop, TopBlockIndex, SegmentIsChain
  <1>3. Height[b] = Height[Prev[b]] + 1 /\ \A c \in blocks[s] : Height[c] \in Nat
    BY BlockAssumption, Zenon DEF TypeOK, SegmentIds
  <1> QED BY <1>1, <1>2, <1>3

\* pushBlock on a leaf extends its chain by one block.
LEMMA PushExtendsChain ==
    ASSUME TypeOK, NEW s \in SegmentIds, SegmentIsChain(s),
           NEW b \in Blocks \ {Genesis}, Prev[b] \in blocks[s], AddOnTop(b, s),
           blocks' = [blocks EXCEPT ![s] = @ \cup {b}]
    PROVE  SegmentIsChain(s)' /\ TopBlock(s)' = b
  <1> USE DEF SegmentIds
  <1>1. blocks'[s] = blocks[s] \cup {b}
    BY Zenon DEF TypeOK
  <1> USE <1>1
  <1>2. \A c \in blocks[s] : Height[c] < Height[b]
    BY PushIsOnTopBlock, Zenon
  <1>3. Height \in [Blocks -> Nat] /\ Height[b] = Height[Prev[b]] + 1
        /\ blocks[s] \in SUBSET Blocks
    BY BlockAssumption, Zenon DEF TypeOK
  <1> USE <1>3
  <1>4. \A c \in blocks'[s] : Height[c] <= Height[b]
    BY <1>2
  <1>5. \A c, d \in blocks'[s] : Height[c] = Height[d] => c = d
    BY <1>2 DEF SegmentIsChain
  <1>6. s \in blocks'[s] /\ \A c \in blocks'[s] : Height[s] <= Height[c]
    BY <1>2 DEF SegmentIsChain
  <1>7. \A c \in blocks'[s] \ {s} : Prev[c] \in blocks'[s]
    BY Zenon DEF SegmentIsChain
  <1>8. ASSUME NEW c \in blocks'[s], NEW h \in Height[s] .. Height[c]
        PROVE  \E d \in blocks'[s] : Height[d] = h
    <2>1. CASE c \in blocks[s]
      BY <2>1, Zenon DEF SegmentIsChain
    <2>2. CASE c = b /\ h = Height[b]
      BY <2>2, Zenon
    <2>3. CASE c = b /\ h # Height[b]
      <3>1. h \in Height[s] .. Height[Prev[b]]
        BY <2>3 DEF SegmentIsChain
      <3> QED BY <3>1, Zenon DEF SegmentIsChain
    <2> QED BY <2>1, <2>2, <2>3, Zenon
  <1>9. SegmentIsChain(s)'
    BY <1>4, <1>5, <1>6, <1>7, <1>8, Zenon DEF SegmentIsChain
  <1>10. TopBlock(s)' = b
    <2>1. blocks'[s] \in SUBSET Blocks /\ b \in blocks'[s]
      BY Zenon
    <2>2. Highest(blocks'[s]) = b
      BY <2>1, <1>4, <1>5, HighestIs, Zenon
    <2> QED BY <2>2, Zenon DEF TopBlock
  <1> QED BY <1>9, <1>10, Zenon

\* The difficulty stored with a new block fits those stored before.
LEMMA StoredDifficulty ==
    ASSUME TypeOK, SegmentsAreLinked, \A c \in Known : AddsUp(c),
           NEW b \in Blocks \ {Genesis}, b \notin Known, Prev[b] \in Known,
           StoreDifficulty(b), Known' = Known \cup {b}
    PROVE  /\ cumulativeDifficulty' \in [Blocks -> Nat]
           /\ \A c \in Known : cumulativeDifficulty'[c] = cumulativeDifficulty[c]
           /\ cumulativeDifficulty'[b] =
                 cumulativeDifficulty[Prev[b]] + NextDifficulty[Prev[b]]
           /\ \A c \in Known' : AddsUp(c)'
  <1>1. /\ cumulativeDifficulty \in [Blocks -> Nat]
        /\ Known \in SUBSET Blocks
        /\ Prev[b] \in Blocks
        /\ NextDifficulty[Prev[b]] \in Nat
    BY BlockAssumption DEF TypeOK, Known, SegmentIds
  <1>2. /\ cumulativeDifficulty' \in [Blocks -> Nat]
        /\ \A c \in Known : cumulativeDifficulty'[c] = cumulativeDifficulty[c]
        /\ cumulativeDifficulty'[b] =
              cumulativeDifficulty[Prev[b]] + NextDifficulty[Prev[b]]
    BY <1>1 DEF StoreDifficulty
  <1>3. ASSUME NEW c \in Known', c # Genesis
        PROVE  cumulativeDifficulty'[c] =
                  cumulativeDifficulty'[Prev[c]] + NextDifficulty[Prev[c]]
    <2>1. CASE c = b
      BY <2>1, <1>2, Zenon
    <2>2. CASE c \in Known
      BY <2>2, <1>2, <1>3, KnownIsClosed, Zenon DEF AddsUp
    <2> QED BY <2>1, <2>2, Zenon
  <1> QED BY <1>2, <1>3, Zenon DEF AddsUp

\* Pushing a block on a leaf keeps the segments linked.
LEMMA PushKeepsLinks ==
    ASSUME TypeOK, SegmentsAreLinked, LeavesAreChildless,
           NEW b \in Blocks \ {Genesis}, NEW s \in SegmentIds, PushOnLeaf(b, s)
    PROVE  /\ blocks' \in [SegmentIds -> SUBSET Blocks]
           /\ Known' = Known \cup {b}
           /\ Prev[b] = TopBlock(s)
           /\ TopBlock(s)' = b
           /\ \A t \in storage \ {s} : TopBlock(t)' = TopBlock(t)
           /\ SegmentsAreLinked'
  <1> USE DEF SegmentIds, Root
  <1>1. /\ s \in storage
        /\ b \notin Known
        /\ Prev[b] \in blocks[s]
        /\ AddOnTop(b, s)
        /\ children[s] = {}
        /\ blocks' = [blocks EXCEPT ![s] = @ \cup {b}]
        /\ UNCHANGED <<storage, parent>>
    BY Zenon DEF PushOnLeaf, Accepts
  <1> USE <1>1
  <1>2. blocks' \in [Blocks -> SUBSET Blocks] /\ blocks'[s] = blocks[s] \cup {b}
        /\ \A t \in Blocks \ {s} : blocks'[t] = blocks[t]
    BY Zenon DEF TypeOK
  <1> USE <1>2
  <1>3. storage \in SUBSET Blocks
    BY Zenon DEF TypeOK
  <1> USE <1>3
  <1>4. Known' = Known \cup {b}
    BY DEF Known
  <1>5. SegmentIsChain(s)' /\ TopBlock(s)' = b /\ Prev[b] = TopBlock(s)
    BY PushExtendsChain, PushIsOnTopBlock, Zenon DEF SegmentsAreLinked
  <1>6. \A t \in storage \ {s} : TopBlock(t)' = TopBlock(t)
    BY Zenon DEF TopBlock
  <1>7. \A t \in storage' : SegmentIsChain(t)'
    <2>1. \A t \in storage \ {s} : SegmentIsChain(t)'
      BY DEF SegmentsAreLinked, SegmentIsChain
    <2> QED BY <2>1, <1>5, Zenon
  <1>8. \A t, u \in storage' : \A c \in blocks'[t] : c \in blocks'[u] => t = u
    BY DEF SegmentsAreLinked, Known
  <1>9. \A t \in storage' \ {Root} :
           parent'[t] \in storage' /\ Prev[t] = TopBlock(parent[t])'
    <2> SUFFICES ASSUME NEW t \in storage \ {Root}
                 PROVE  parent[t] \in storage /\ Prev[t] = TopBlock(parent[t])'
      BY Zenon
    <2>1. parent[t] # s
      BY Zenon DEF LeavesAreChildless
    <2> QED BY <2>1, Zenon DEF SegmentsAreLinked, TopBlock
  <1>10. SegmentsAreLinked'
    BY <1>7, <1>8, <1>9, Zenon DEF SegmentsAreLinked
  <1> QED BY <1>4, <1>5, <1>6, <1>10, Zenon
-----------------------------------------------------------------------------
(* Splitting a segment *)

\* The first block of the upper part when a fork starts inside a segment.
SplitBlock(b, s) == CHOOSE c \in blocks[s] : Height[c] = Height[Prev[b]] + 1

\* It exists, above the block that the fork starts from.
LEMMA SplitPoint ==
    ASSUME TypeOK, NEW s \in SegmentIds, SegmentIsChain(s),
           NEW b \in Blocks \ {Genesis}, Prev[b] \in blocks[s], ~AddOnTop(b, s),
           NEW u, u = SplitBlock(b, s)
    PROVE  /\ u \in blocks[s] /\ u # s /\ u # Genesis
           /\ Height[u] = Height[Prev[b]] + 1
           /\ Prev[u] = Prev[b]
           /\ TopBlock(s) \in Upper(b, s)
  <1> USE DEF SegmentIds
  <1>1. blocks[s] \in SUBSET Blocks /\ Height \in [Blocks -> Nat]
    BY BlockAssumption, Zenon DEF TypeOK
  <1> USE <1>1
  <1>2. TopBlock(s) \in blocks[s] /\ \A c \in blocks[s] : Height[c] <= Height[TopBlock(s)]
    BY TopBlockIsHighest, Zenon DEF SegmentIsChain
  <1> USE <1>2
  <1>3. Height[Prev[b]] < Height[TopBlock(s)]
    BY DEF AddOnTop, TopBlockIndex
  <1>4. Height[s] <= Height[Prev[b]] /\ s \in Blocks
    BY Zenon DEF SegmentIsChain
  <1>5. Height[Prev[b]] + 1 \in Height[s] .. Height[TopBlock(s)]
    BY <1>3, <1>4
  <1>6. \E c \in blocks[s] : Height[c] = Height[Prev[b]] + 1
    BY <1>5 DEF SegmentIsChain
  <1>7. u \in blocks[s] /\ Height[u] = Height[Prev[b]] + 1
    BY <1>6, Zenon DEF SplitBlock
  <1> USE <1>7
  <1>8. u # s /\ u # Genesis
    BY <1>4, BlockAssumption
  <1>9. Prev[u] = Prev[b]
    <2>1. Prev[u] \in blocks[s]
      BY <1>8, Zenon DEF SegmentIsChain
    <2>2. Height[Prev[u]] = Height[Prev[b]]
      BY <1>8, <2>1, BlockAssumption
    <2> QED BY <2>1, <2>2 DEF SegmentIsChain
  <1> QED BY <1>3, <1>8, <1>9, Zenon DEF Upper

\* split: the lower part is a chain that ends below the new block.
LEMMA LowerIsChain ==
    ASSUME TypeOK, NEW s \in SegmentIds, SegmentIsChain(s),
           NEW b \in Blocks \ {Genesis}, Prev[b] \in blocks[s],
           blocks'[s] = Lower(b, s)
    PROVE  SegmentIsChain(s)' /\ TopBlock(s)' = Prev[b]
  <1> USE DEF SegmentIds
  <1>1. blocks[s] \in SUBSET Blocks /\ Height \in [Blocks -> Nat] /\ Lower(b, s) \subseteq blocks[s]
    BY BlockAssumption, Zenon DEF TypeOK, Lower
  <1> USE <1>1
  <1>2. Prev[b] \in Lower(b, s) /\ \A c \in Lower(b, s) : Height[c] <= Height[Prev[b]]
    BY DEF Lower
  <1> USE <1>2
  <1>3. \A c, d \in Lower(b, s) : Height[c] = Height[d] => c = d
    BY Zenon DEF SegmentIsChain
  <1>4. s \in Lower(b, s) /\ \A c \in Lower(b, s) : Height[s] <= Height[c]
    BY Zenon DEF SegmentIsChain, Lower
  <1>5. ASSUME NEW c \in Lower(b, s) \ {s} PROVE Prev[c] \in Lower(b, s)
    <2>1. Prev[c] \in blocks[s] /\ c \in Blocks
      BY Zenon DEF SegmentIsChain
    <2>2. c # Genesis
      <3>1. s \in blocks[s] /\ Height[s] <= Height[c]
        BY Zenon DEF SegmentIsChain
      <3>2. c = Genesis => Height[s] = Height[c]
        BY <3>1, BlockAssumption
      <3> QED BY <3>1, <3>2, Zenon DEF SegmentIsChain
    <2>3. Height[c] = Height[Prev[c]] + 1
      BY <2>1, <2>2, BlockAssumption, Zenon
    <2> QED BY <2>1, <2>3 DEF Lower
  <1>6. ASSUME NEW c \in Lower(b, s), NEW h \in Height[s] .. Height[c]
        PROVE  \E d \in Lower(b, s) : Height[d] = h
    <2>1. PICK d \in blocks[s] : Height[d] = h
      BY Zenon DEF SegmentIsChain
    <2>2. Height[d] <= Height[Prev[b]]
      BY <1>4, <2>1
    <2> QED BY <2>1, <2>2, Zenon DEF Lower
  <1>7. SegmentIsChain(s)'
    BY <1>3, <1>4, <1>5, <1>6 DEF SegmentIsChain
  <1>8. TopBlock(s)' = Prev[b]
    BY <1>3, HighestIs, Zenon DEF TopBlock
  <1> QED BY <1>7, <1>8, Zenon

\* split: the upper part is a chain that keeps the top block.
LEMMA UpperIsChain ==
    ASSUME TypeOK, NEW s \in SegmentIds, SegmentIsChain(s),
           NEW b \in Blocks \ {Genesis}, Prev[b] \in blocks[s],
           NEW u \in blocks[s], Height[u] = Height[Prev[b]] + 1,
           TopBlock(s) \in Upper(b, s), blocks'[u] = Upper(b, s)
    PROVE  SegmentIsChain(u)' /\ TopBlock(u)' = TopBlock(s)
  <1> USE DEF SegmentIds
  <1> DEFINE U == Upper(b, s)
  <1>1. blocks[s] \in SUBSET Blocks /\ Height \in [Blocks -> Nat] /\ U \subseteq blocks[s]
    BY BlockAssumption, Zenon DEF TypeOK, Upper
  <1> USE <1>1
  <1>2. u \in blocks[s] /\ Height[u] = Height[Prev[b]] + 1 /\ TopBlock(s) \in U
    BY Zenon
  <1> USE <1>2
  <1>3. u \in U
    BY DEF Upper
  <1>4. \A c \in U : Height[c] <= Height[TopBlock(s)]
    BY TopBlockIsHighest, Zenon DEF SegmentIsChain
  <1>5. \A c \in U : Height[u] <= Height[c]
    BY DEF Upper
  <1>6. \A c, d \in U : Height[c] = Height[d] => c = d
    BY Zenon DEF SegmentIsChain
  <1>7. ASSUME NEW c \in U \ {u} PROVE Prev[c] \in U
    <2>1. Height[c] > Height[u]
      BY <1>3, <1>5, <1>6
    <2>2. Height[s] \in Nat /\ Height[u] \in Nat /\ Height[s] <= Height[u]
      BY DEF SegmentIsChain
    <2>3. c # s /\ c # Genesis
      BY <2>1, <2>2, BlockAssumption
    <2>4. Prev[c] \in blocks[s] /\ Height[c] = Height[Prev[c]] + 1
      BY <2>3, BlockAssumption, Zenon DEF SegmentIsChain
    <2> QED BY <2>1, <2>4 DEF Upper
  <1>8. ASSUME NEW c \in U, NEW h \in Height[u] .. Height[c]
        PROVE  \E d \in U : Height[d] = h
    <2>1. h \in Height[s] .. Height[c]
      BY DEF SegmentIsChain
    <2>2. PICK d \in blocks[s] : Height[d] = h
      BY <2>1, Zenon DEF SegmentIsChain
    <2>3. Height[d] > Height[Prev[b]]
      BY <2>2
    <2> QED BY <2>2, <2>3, Zenon DEF Upper
  <1>9. SegmentIsChain(u)'
    <2>1. blocks'[u] = U
      BY Zenon
    <2>2. \E d \in U : \A c \in U : Height[c] <= Height[d]
      BY <1>4, Zenon
    <2>3. \A c \in U \ {u} : Prev[c] \in U
      BY <1>7, Zenon
    <2>4. \A c \in U : \A h \in Height[u] .. Height[c] : \E d \in U : Height[d] = h
      BY <1>8, Zenon
    <2> HIDE DEF U
    <2>5. /\ u \in blocks'[u]
          /\ \E d \in blocks'[u] : \A c \in blocks'[u] : Height[c] <= Height[d]
          /\ \A c \in blocks'[u] : Height[u] <= Height[c]
          /\ \A c \in blocks'[u] \ {u} : Prev[c] \in blocks'[u]
      BY <1>3, <1>5, <2>1, <2>2, <2>3, Zenon
    <2>6. /\ \A c, d \in blocks'[u] : Height[c] = Height[d] => c = d
          /\ \A c \in blocks'[u] : \A h \in Height[u] .. Height[c] :
                \E d \in blocks'[u] : Height[d] = h
      BY <1>6, <2>1, <2>4, Zenon
    <2> QED BY <2>5, <2>6, Zenon DEF SegmentIsChain
  <1>10. TopBlock(u)' = TopBlock(s)
    BY <1>4, <1>6, HighestIs, Zenon DEF TopBlock
  <1> QED BY <1>9, <1>10, Zenon
-----------------------------------------------------------------------------
(* Core::addBlock on top of a segment *)

\* While the daemon runs, the tree in memory decides: the database part of the
\* invariant is the part of the tree that the root segment holds.
LEMMA RunningIsConsistent ==
    ASSUME phase' = "running", SegmentsAreLinked', LeavesAreChildless',
           \A b \in Known' : AddsUp(b)', MainChainIsHeaviest', MainChainSetIsMainChain'
    PROVE  TreeIsConsistent'
  BY Zenon DEF TreeIsConsistent, SegmentsAreLinked, Known

\* Three cases of addBlock push on a leaf; what they have in common.
PushEffect(b, s) ==
    /\ phase = "running" /\ phase' = "running"
    /\ b \notin Known /\ Prev[b] = TopBlock(s) /\ NextDifficulty[Prev[b]] # 0
    /\ SegmentsAreLinked /\ LeavesAreChildless
    /\ blocks' \in [SegmentIds -> SUBSET Blocks]
    /\ cumulativeDifficulty' \in [Blocks -> Nat]
    /\ SegmentsAreLinked'
    /\ \A c \in Known' : AddsUp(c)'
    /\ Known \in SUBSET Blocks
    /\ Known' = Known \cup {b}
    /\ \A c \in Known : cumulativeDifficulty'[c] = cumulativeDifficulty[c]
    /\ \A c \in Known :
          cumulativeDifficulty[c] <= cumulativeDifficulty[TopBlock(mainLeaf)]
    /\ cumulativeDifficulty'[b] =
          cumulativeDifficulty[TopBlock(s)] + NextDifficulty[TopBlock(s)]
    /\ TopBlock(s)' = b
    /\ s \in storage /\ mainLeaf \in storage
    /\ \A t \in storage : TopBlock(t) \in Known

\* What PushOnLeaf leaves behind is what PushEffect says.
LEMMA PushStep ==
    ASSUME TypeOK, TreeIsConsistent,
           NEW b \in Blocks \ {Genesis}, NEW s \in SegmentIds, PushOnLeaf(b, s)
    PROVE  PushEffect(b, s)
  <1>1. phase = "running" /\ phase' = "running" /\ b \notin Known /\ StoreDifficulty(b)
        /\ Prev[b] \in Known /\ NextDifficulty[Prev[b]] # 0
    BY Zenon DEF PushOnLeaf, Accepts, Known
  <1> USE <1>1
  <1>2. /\ SegmentsAreLinked /\ LeavesAreChildless /\ MainChainIsHeaviest
        /\ \A c \in Known : AddsUp(c)
    BY Zenon DEF TreeIsConsistent
  <1> USE <1>2
  <1>3. /\ blocks' \in [SegmentIds -> SUBSET Blocks]
        /\ Known' = Known \cup {b}
        /\ Prev[b] = TopBlock(s)
        /\ TopBlock(s)' = b
        /\ \A t \in storage \ {s} : TopBlock(t)' = TopBlock(t)
        /\ SegmentsAreLinked'
    BY PushKeepsLinks, Zenon
  <1>4. /\ cumulativeDifficulty' \in [Blocks -> Nat]
        /\ \A c \in Known : cumulativeDifficulty'[c] = cumulativeDifficulty[c]
        /\ cumulativeDifficulty'[b] =
              cumulativeDifficulty[Prev[b]] + NextDifficulty[Prev[b]]
        /\ \A c \in Known' : AddsUp(c)'
    BY <1>3, StoredDifficulty, Zenon
  <1>5. \A t \in storage : TopBlock(t) \in Known
    BY TopBlockIsHighest DEF SegmentsAreLinked, SegmentIsChain, Known
  <1>6. \A c \in Known :
           cumulativeDifficulty[c] <= cumulativeDifficulty[TopBlock(mainLeaf)]
    BY Zenon DEF MainChainIsHeaviest
  <1>7. s \in storage /\ mainLeaf \in storage /\ Known \in SUBSET Blocks
    BY DEF PushOnLeaf, Accepts, LeavesAreChildless, Known, TypeOK, SegmentIds
  <1> QED BY <1>3, <1>4, <1>5, <1>6, <1>7, Zenon DEF PushEffect

\* What a block that addBlock stores does to the tree as a whole: it is known,
\* and the main chain ends where it ended or, if its chain is heavier, in it.
BlockIsReceived(b) ==
    /\ phase = "running" /\ phase' = "running"
    /\ b \notin Known /\ Prev[b] \in Known
    /\ Known' = Known \cup {b}
    /\ \/ TopBlock(mainLeaf)' = TopBlock(mainLeaf)
       \/ /\ TopBlock(mainLeaf)' = b
          /\ cumulativeDifficulty'[b] > cumulativeDifficulty[TopBlock(mainLeaf)]

\* addBlock on the main leaf.
LEMMA AddToMainStep ==
    ASSUME TypeOK, TreeIsConsistent,
           NEW b \in Blocks \ {Genesis}, NEW s \in SegmentIds, AddToMain(b, s)
    PROVE  TypeOK' /\ TreeIsConsistent' /\ BlockIsReceived(b)
  <1>1. /\ s = mainLeaf /\ mainLeaf' = mainLeaf
        /\ UNCHANGED <<phase, storage, parent, children, altLeaves, mainChainSet>>
    BY Zenon DEF AddToMain, PushOnLeaf
  <1> USE <1>1
  <1>2. PushEffect(b, s)
    BY PushStep, Zenon DEF AddToMain
  <1> USE <1>2
  <1>3. TypeOK'
    BY Zenon DEF TypeOK, PushEffect
  <1>4. LeavesAreChildless'
    BY Zenon DEF LeavesAreChildless, Leaves, PushEffect
  <1>5. MainChainSetIsMainChain'
    BY Zenon DEF MainChainSetIsMainChain, TreeIsConsistent, PushEffect
  <1>6. MainChainIsHeaviest'
    <2>1. TopBlock(mainLeaf)' = b
      BY Zenon DEF TopBlock, PushEffect
    <2>2. TopBlock(s) \in Blocks
      BY Zenon DEF PushEffect
    <2>3. \A c \in Known : cumulativeDifficulty'[c] <= cumulativeDifficulty'[b]
      <3>1. \A c \in Known : cumulativeDifficulty'[c] <= cumulativeDifficulty[TopBlock(s)]
        BY Zenon DEF PushEffect
      <3>2. /\ \A c \in Known : cumulativeDifficulty'[c] \in Nat
            /\ cumulativeDifficulty[TopBlock(s)] \in Nat
            /\ NextDifficulty[TopBlock(s)] \in Nat
        BY <2>2, BlockAssumption, Zenon DEF TypeOK, PushEffect
      <3>3. cumulativeDifficulty'[b] =
               cumulativeDifficulty[TopBlock(s)] + NextDifficulty[TopBlock(s)]
        BY Zenon DEF PushEffect
      <3> QED BY <3>1, <3>2, <3>3
    <2>4. cumulativeDifficulty'[b] \in Nat /\ Known' = Known \cup {b}
      BY Zenon DEF PushEffect
    <2> QED BY <2>1, <2>3, <2>4 DEF MainChainIsHeaviest
  <1>7. phase' = "running" /\ SegmentsAreLinked' /\ \A c \in Known' : AddsUp(c)'
    BY Zenon DEF PushEffect
  <1>8. TreeIsConsistent'
    BY <1>4, <1>5, <1>6, <1>7, RunningIsConsistent, Zenon
  <1>9. BlockIsReceived(b)
    <2>1. TopBlock(mainLeaf)' = b
      BY Zenon DEF TopBlock, PushEffect
    <2>2. TopBlock(s) \in Known /\ TopBlock(s) \in Blocks
      BY Zenon DEF PushEffect
    <2>3. cumulativeDifficulty[TopBlock(s)] \in Nat /\ NextDifficulty[TopBlock(s)] \in Nat
      BY <2>2, BlockAssumption, Zenon DEF TypeOK
    <2>4. cumulativeDifficulty'[b] > cumulativeDifficulty[TopBlock(s)]
      BY <2>3 DEF PushEffect
    <2> QED BY <2>1, <2>2, <2>4, Zenon DEF PushEffect, BlockIsReceived
  <1> QED BY <1>3, <1>8, <1>9, Zenon

\* addBlock on an alternative leaf that does not become heavier.
LEMMA AddToAlternativeStep ==
    ASSUME TypeOK, TreeIsConsistent,
           NEW b \in Blocks \ {Genesis}, NEW s \in SegmentIds, AddToAlternative(b, s)
    PROVE  TypeOK' /\ TreeIsConsistent' /\ BlockIsReceived(b)
  <1>1. /\ s # mainLeaf /\ mainLeaf' = mainLeaf
        /\ ~(cumulativeDifficulty'[b] > cumulativeDifficulty[TopBlock(mainLeaf)])
        /\ blocks' = [blocks EXCEPT ![s] = @ \cup {b}]
        /\ UNCHANGED <<phase, storage, parent, children, altLeaves, mainChainSet>>
    BY Zenon DEF AddToAlternative, PushOnLeaf, IsHeavier
  <1> USE <1>1
  <1>2. PushEffect(b, s)
    BY PushStep, Zenon DEF AddToAlternative
  <1> USE <1>2
  <1>3. TypeOK'
    BY Zenon DEF TypeOK, PushEffect
  <1>4. LeavesAreChildless'
    BY Zenon DEF LeavesAreChildless, Leaves, PushEffect
  <1>5. MainChainSetIsMainChain'
    BY Zenon DEF MainChainSetIsMainChain, TreeIsConsistent, PushEffect
  <1>6. MainChainIsHeaviest'
    <2>1. TopBlock(mainLeaf)' = TopBlock(mainLeaf)
      <3>1. blocks'[mainLeaf] = blocks[mainLeaf]
        BY Zenon DEF TypeOK
      <3> QED BY <3>1, Zenon DEF TopBlock
    <2>2. /\ Known' = Known \cup {b}
          /\ TopBlock(mainLeaf) \in Known
          /\ \A c \in Known : cumulativeDifficulty'[c] = cumulativeDifficulty[c]
          /\ \A c \in Known :
                cumulativeDifficulty[c] <= cumulativeDifficulty[TopBlock(mainLeaf)]
      BY Zenon DEF PushEffect
    <2>3. cumulativeDifficulty'[b] <= cumulativeDifficulty[TopBlock(mainLeaf)]
      <3>1. cumulativeDifficulty'[b] \in Nat /\ cumulativeDifficulty[TopBlock(mainLeaf)] \in Nat
        BY <2>2, Zenon DEF PushEffect, TypeOK
      <3> QED BY <3>1
    <2> QED BY <2>1, <2>2, <2>3, Zenon DEF MainChainIsHeaviest
  <1>7. phase' = "running" /\ SegmentsAreLinked' /\ \A c \in Known' : AddsUp(c)'
    BY Zenon DEF PushEffect
  <1>8. TreeIsConsistent'
    BY <1>4, <1>5, <1>6, <1>7, RunningIsConsistent, Zenon
  <1>9. BlockIsReceived(b)
    <2>1. TopBlock(mainLeaf)' = TopBlock(mainLeaf)
      <3>1. blocks'[mainLeaf] = blocks[mainLeaf]
        BY Zenon DEF TypeOK
      <3> QED BY <3>1, Zenon DEF TopBlock
    <2> QED BY <2>1, Zenon DEF PushEffect, BlockIsReceived
  <1> QED BY <1>3, <1>8, <1>9, Zenon

\* addBlock on an alternative leaf that becomes the heaviest.
LEMMA SwitchMainChainStep ==
    ASSUME TypeOK, TreeIsConsistent,
           NEW b \in Blocks \ {Genesis}, NEW s \in SegmentIds, SwitchMainChain(b, s)
    PROVE  TypeOK' /\ TreeIsConsistent' /\ BlockIsReceived(b)
  <1>1. /\ s # mainLeaf /\ mainLeaf' = s
        /\ cumulativeDifficulty'[b] > cumulativeDifficulty[TopBlock(mainLeaf)]
        /\ altLeaves' = (altLeaves \ {s}) \cup {mainLeaf}
        /\ mainChainSet' = PathFrom(s, parent)
        /\ children[s] = {}
        /\ UNCHANGED <<phase, storage, parent, children>>
    BY Zenon DEF SwitchMainChain, PushOnLeaf, IsHeavier
  <1> USE <1>1
  <1>2. PushEffect(b, s)
    BY PushStep, Zenon DEF SwitchMainChain
  <1> USE <1>2
  <1>3. TypeOK'
    <2>1. mainChainSet' \in SUBSET SegmentIds
      BY Zenon DEF PathFrom
    <2> QED BY <2>1, Zenon DEF TypeOK, PushEffect
  <1>4. LeavesAreChildless'
    <2>1. LeavesAreChildless /\ s \in storage
      BY Zenon DEF PushEffect
    <2>2. s \in altLeaves
      BY <2>1, Zenon DEF LeavesAreChildless, Leaves
    <2>3. Leaves' = Leaves
      BY <2>2, Zenon DEF Leaves
    <2> QED BY <2>1, <2>2, <2>3 DEF LeavesAreChildless
  <1>5. MainChainSetIsMainChain'
    BY Zenon DEF MainChainSetIsMainChain
  <1>6. MainChainIsHeaviest'
    <2>1. TopBlock(mainLeaf)' = b
      BY Zenon DEF TopBlock, PushEffect
    <2>2. /\ Known' = Known \cup {b} /\ Known \in SUBSET Blocks
          /\ TopBlock(mainLeaf) \in Known
          /\ \A c \in Known : cumulativeDifficulty'[c] = cumulativeDifficulty[c]
          /\ \A c \in Known :
                cumulativeDifficulty[c] <= cumulativeDifficulty[TopBlock(mainLeaf)]
          /\ cumulativeDifficulty' \in [Blocks -> Nat]
      BY Zenon DEF PushEffect
    <2> USE <2>2
    <2>3. \A c \in Known : cumulativeDifficulty'[c] <= cumulativeDifficulty'[b]
      <3>1. /\ \A c \in Known : cumulativeDifficulty[c] \in Nat
            /\ cumulativeDifficulty'[b] \in Nat
        BY Zenon DEF TypeOK
      <3> QED BY <3>1
    <2>4. cumulativeDifficulty'[b] \in Nat
      BY Zenon
    <2> QED BY <2>1, <2>3, <2>4 DEF MainChainIsHeaviest
  <1>7. phase' = "running" /\ SegmentsAreLinked' /\ \A c \in Known' : AddsUp(c)'
    BY Zenon DEF PushEffect
  <1>8. TreeIsConsistent'
    BY <1>4, <1>5, <1>6, <1>7, RunningIsConsistent, Zenon
  <1>9. BlockIsReceived(b)
    <2>1. TopBlock(mainLeaf)' = b
      BY Zenon DEF TopBlock, PushEffect
    <2> QED BY <2>1, Zenon DEF PushEffect, BlockIsReceived
  <1> QED BY <1>3, <1>8, <1>9, Zenon

\* addBlock on top of a segment that has children: the new block is a segment.
LEMMA AddBesideChildrenStep ==
    ASSUME TypeOK, TreeIsConsistent,
           NEW b \in Blocks \ {Genesis}, NEW s \in SegmentIds, AddBesideChildren(b, s)
    PROVE  TypeOK' /\ TreeIsConsistent' /\ BlockIsReceived(b)
  <1> USE DEF SegmentIds, Root
  <1>1. /\ phase = "running" /\ b \notin Known /\ s \in storage /\ Prev[b] \in blocks[s]
        /\ AddOnTop(b, s)
        /\ children[s] # {}
        /\ storage' = storage \cup {b}
        /\ blocks' = [blocks EXCEPT ![b] = {b}]
        /\ parent' = [parent EXCEPT ![b] = s]
        /\ children' = [children EXCEPT ![s] = @ \cup {b}]
        /\ altLeaves' = altLeaves \cup {b}
        /\ mainChainSet' = PathFrom(mainLeaf, parent')
        /\ StoreDifficulty(b)
        /\ UNCHANGED <<phase, mainLeaf>>
    BY Zenon DEF AddBesideChildren, Accepts
  <1>2. /\ SegmentsAreLinked /\ LeavesAreChildless /\ MainChainIsHeaviest
        /\ \A c \in Known : AddsUp(c)
    BY <1>1, Zenon DEF TreeIsConsistent
  <1>3. b \notin storage /\ storage \in SUBSET Blocks /\ Prev[b] \in Known
    <2>1. \A t \in storage : t \in blocks[t]
      BY <1>2, Zenon DEF SegmentsAreLinked, SegmentIsChain
    <2>2. b \notin storage /\ Prev[b] \in Known
      BY <1>1, <2>1, Zenon DEF Known
    <2> QED BY <2>2, Zenon DEF TypeOK
  <1>4. /\ blocks' \in [Blocks -> SUBSET Blocks] /\ blocks'[b] = {b}
        /\ \A t \in Blocks \ {b} : blocks'[t] = blocks[t]
    BY <1>1, Zenon DEF TypeOK
  <1> USE <1>4
  <1>5. /\ parent' \in [Blocks -> Blocks \cup {None}] /\ parent'[b] = s
        /\ \A t \in Blocks \ {b} : parent'[t] = parent[t]
    BY <1>1, Zenon DEF TypeOK
  <1> USE <1>5
  <1>6. Known' = Known \cup {b}
    BY <1>1, <1>3 DEF Known
  <1>7. /\ cumulativeDifficulty' \in [Blocks -> Nat]
        /\ \A c \in Known : cumulativeDifficulty'[c] = cumulativeDifficulty[c]
        /\ cumulativeDifficulty'[b] =
              cumulativeDifficulty[Prev[b]] + NextDifficulty[Prev[b]]
        /\ \A c \in Known' : AddsUp(c)'
    BY <1>1, <1>2, <1>3, <1>6, StoredDifficulty, Zenon
  <1> USE <1>7
  <1>8. Prev[b] = TopBlock(s)
    BY <1>1, <1>2, PushIsOnTopBlock, Zenon DEF SegmentsAreLinked
  <1>9. TypeOK'
    <2>1. /\ storage' \in SUBSET Blocks /\ altLeaves' \in SUBSET Blocks
          /\ mainLeaf' \in Blocks /\ phase' \in Phases
      BY <1>1, <1>3, Zenon DEF TypeOK
    <2>2. children' \in [Blocks -> SUBSET (Blocks \cup {Dangling})]
      BY <1>1 DEF TypeOK
    <2>3. mainChainSet' \in SUBSET Blocks
      BY <1>1, Zenon DEF PathFrom
    <2> QED BY <2>1, <2>2, <2>3, Zenon DEF TypeOK
  <1>10. SegmentsAreLinked'
    <2>1. \A t \in storage' : SegmentIsChain(t)'
      <3>1. SegmentIsChain(b)'
        BY BlockAssumption DEF SegmentIsChain
      <3>2. \A t \in storage : SegmentIsChain(t)'
        BY <1>2, <1>3 DEF SegmentsAreLinked, SegmentIsChain
      <3> QED BY <1>1, <3>1, <3>2, Zenon
    <2>2. \A t, u \in storage' : \A c \in blocks'[t] : c \in blocks'[u] => t = u
      BY <1>1, <1>2, <1>3 DEF SegmentsAreLinked, Known
    <2>3. ASSUME NEW t \in storage' \ {Root}
          PROVE  parent'[t] \in storage' /\ Prev[t] = TopBlock(parent[t])'
      <3>1. CASE t = b
        BY <3>1, <1>1, <1>3, <1>8, Zenon DEF TopBlock
      <3>2. CASE t # b
        BY <3>2, <1>1, <1>2, <1>3, SMTT(30) DEF SegmentsAreLinked, TopBlock
      <3> QED BY <3>1, <3>2, Zenon
    <2>4. parent'[Root] = None /\ Root \in storage'
          /\ \A t \in SegmentIds \ storage' : parent'[t] = None
      BY <1>1, <1>2, BlockAssumption, Zenon DEF SegmentsAreLinked
    <2> QED BY <2>1, <2>2, <2>3, <2>4, Zenon DEF SegmentsAreLinked
  <1>11. LeavesAreChildless'
    <2>1. /\ children'[s] = children[s] \cup {b} /\ children'[b] = {}
          /\ \A t \in Blocks \ {s} : children'[t] = children[t]
      BY <1>1, <1>2, <1>3, SMTT(30) DEF TypeOK, LeavesAreChildless
    <2> USE <2>1
    <2>2. \A u \in SegmentIds : \A t \in children'[u] :
             u \in storage' /\ t \in storage' /\ parent'[t] = u
      BY <1>1, <1>2, <1>3, SMTT(30) DEF LeavesAreChildless
    <2>3. ASSUME NEW t \in storage' \ {Root}
          PROVE  t \in children'[parent'[t]]
      <3>1. CASE t = b
        BY <3>1, Zenon
      <3>2. CASE t # b
        <4>1. t \in storage \ {Root} /\ parent'[t] = parent[t] /\ parent[t] \in storage
          BY <3>2, <1>1, <1>2, <1>3, Zenon DEF SegmentsAreLinked
        <4>2. t \in children[parent[t]]
          BY <4>1, <1>2, Zenon DEF LeavesAreChildless
        <4> QED BY <4>1, <4>2, <1>3
      <3> QED BY <3>1, <3>2, Zenon
    <2>4. \A t \in storage' : t \in Leaves' <=> children'[t] = {}
      BY <1>1, <1>2, <1>3, SMTT(30) DEF LeavesAreChildless, Leaves
    <2> QED BY <1>1, <1>2, <1>3, <2>2, <2>3, <2>4, SMTT(30) DEF LeavesAreChildless
  <1>12. MainChainIsHeaviest'
    <2>1. PICK t \in children[s] : TRUE
      BY <1>1, Zenon
    <2>2. t \in storage /\ parent[t] = s
      BY <2>1, <1>2, Zenon DEF LeavesAreChildless
    <2>3. t # Genesis
      BY <2>2, <1>2, PointerAssumption, Zenon DEF SegmentsAreLinked
    <2>4. Prev[t] = Prev[b] /\ t \in Known
      <3>1. Prev[t] = TopBlock(parent[t]) /\ t \in blocks[t]
        BY <1>2, <2>2, <2>3, Zenon DEF SegmentsAreLinked, SegmentIsChain
      <3> QED BY <1>8, <2>2, <3>1, Zenon DEF Known
    <2>5. cumulativeDifficulty'[b] = cumulativeDifficulty[t]
      BY <1>2, <2>3, <2>4, Zenon DEF AddsUp
    <2>6. TopBlock(mainLeaf)' = TopBlock(mainLeaf) /\ TopBlock(mainLeaf) \in Known
      <3>1. mainLeaf \in storage /\ blocks[mainLeaf] \in SUBSET Blocks
            /\ SegmentIsChain(mainLeaf)
        BY <1>2, <1>3, Zenon DEF LeavesAreChildless, SegmentsAreLinked, TypeOK
      <3>2. TopBlock(mainLeaf) \in blocks[mainLeaf]
        BY <3>1, TopBlockIsHighest, Zenon DEF SegmentIsChain
      <3>3. mainLeaf' = mainLeaf /\ blocks'[mainLeaf] = blocks[mainLeaf]
        BY <3>1, <1>1, <1>3, Zenon
      <3> QED BY <3>1, <3>2, <3>3, Zenon DEF TopBlock, Known
    <2>7. \A c \in Known :
             cumulativeDifficulty[c] <= cumulativeDifficulty[TopBlock(mainLeaf)]
      BY <1>1, <1>2, Zenon DEF MainChainIsHeaviest
    <2> QED BY <1>6, <2>4, <2>5, <2>6, <2>7, Zenon DEF MainChainIsHeaviest
  <1>13. MainChainSetIsMainChain'
    BY <1>1, Zenon DEF MainChainSetIsMainChain
  <1>14. TreeIsConsistent'
    BY <1>1, <1>10, <1>11, <1>12, <1>13, RunningIsConsistent, Zenon
  <1>15. BlockIsReceived(b)
    <2>1. TopBlock(mainLeaf)' = TopBlock(mainLeaf)
      <3>1. mainLeaf \in storage /\ mainLeaf' = mainLeaf
        BY <1>1, <1>2, Zenon DEF LeavesAreChildless
      <3>2. blocks'[mainLeaf] = blocks[mainLeaf]
        BY <3>1, <1>3, Zenon
      <3> QED BY <3>1, <3>2, Zenon DEF TopBlock
    <2> QED BY <1>1, <1>3, <1>6, <2>1, Zenon DEF BlockIsReceived
  <1> QED BY <1>9, <1>14, <1>15, Zenon
-----------------------------------------------------------------------------
(* Core::addBlock inside a segment *)

\* addBlock inside a segment: the segment is split and the new block, like the
\* upper part, becomes a child of the lower part.
LEMMA ForkInsideStep ==
    ASSUME TypeOK, TreeIsConsistent,
           NEW b \in Blocks \ {Genesis}, NEW s \in SegmentIds, ForkInside(b, s)
    PROVE  TypeOK' /\ TreeIsConsistent' /\ BlockIsReceived(b)
  <1> USE DEF SegmentIds, Root
  <1> DEFINE C == children[s]
  <1>0. PICK u : u = SplitBlock(b, s)
    BY Zenon
  <1>1. /\ phase = "running" /\ b \notin Known /\ s \in storage /\ Prev[b] \in blocks[s]
        /\ ~AddOnTop(b, s)
        /\ ChildrenOfUpper(s) = {} => s \in Leaves
        /\ StoreDifficulty(b)
        /\ UNCHANGED phase
    BY Zenon DEF ForkInside, Accepts
  <1>2. /\ SegmentsAreLinked /\ LeavesAreChildless /\ MainChainIsHeaviest
        /\ \A c \in Known : AddsUp(c)
    BY <1>1, Zenon DEF TreeIsConsistent
  <1>3. ChildrenOfUpper(s) = C
    BY <1>1, <1>2, Zenon DEF LeavesAreChildless, ChildrenOfUpper
  <1>4. /\ storage' = storage \cup {u, b}
        /\ blocks' = [blocks EXCEPT ![s] = Lower(b, s), ![u] = Upper(b, s), ![b] = {b}]
        /\ parent' = [x \in Blocks |-> IF x \in {u, b} THEN s
                                       ELSE IF x \in C THEN u ELSE parent[x]]
        /\ children' = [children EXCEPT ![s] = (@ \ C) \cup {u, b}, ![u] = C]
        /\ mainLeaf' = IF C = {} /\ mainLeaf = s THEN u ELSE mainLeaf
        /\ altLeaves' = {b} \cup (IF C = {} /\ s \in altLeaves
                                  THEN (altLeaves \ {s}) \cup {u} ELSE altLeaves)
        /\ mainChainSet' = PathFrom(mainLeaf', parent')
    BY <1>0, <1>3 DEF ForkInside, SplitBlock
  <1>5. SegmentIsChain(s) /\ storage \in SUBSET Blocks /\ blocks[s] \in SUBSET Blocks
    BY <1>1, <1>2, Zenon DEF SegmentsAreLinked, TypeOK
  <1>6. /\ u \in blocks[s] /\ u # s /\ u # Genesis
        /\ Height[u] = Height[Prev[b]] + 1
        /\ Prev[u] = Prev[b]
        /\ TopBlock(s) \in Upper(b, s)
    BY <1>0, <1>1, <1>5, SplitPoint, SMTT(30)
  <1>7. /\ b \notin storage /\ u \notin storage /\ u # b /\ u \in Blocks
        /\ u \in Known /\ Prev[b] \in Known /\ s # b
    <2>1. b \notin storage /\ s # b
      BY <1>1, <1>2, SMTT(30) DEF SegmentsAreLinked, SegmentIsChain, Known
    <2>2. u \in Known /\ Prev[b] \in Known
      BY <1>1, <1>6, Zenon DEF Known
    <2>3. u \notin storage
      BY <1>1, <1>2, <1>6, Zenon DEF SegmentsAreLinked, SegmentIsChain
    <2> QED BY <1>1, <1>5, <1>6, <2>1, <2>2, <2>3, Zenon
  <1>8. /\ blocks' \in [Blocks -> SUBSET Blocks]
        /\ blocks'[s] = Lower(b, s) /\ blocks'[u] = Upper(b, s) /\ blocks'[b] = {b}
        /\ \A t \in Blocks \ {s, u, b} : blocks'[t] = blocks[t]
    <2>1. blocks \in [Blocks -> SUBSET Blocks]
      BY Zenon DEF TypeOK
    <2>2. Lower(b, s) \in SUBSET Blocks /\ Upper(b, s) \in SUBSET Blocks
      BY <1>5, Zenon DEF Lower, Upper
    <2> QED BY <1>4, <1>6, <1>7, <2>1, <2>2, Zenon
  <1>9. /\ Lower(b, s) \cup Upper(b, s) = blocks[s]
        /\ Lower(b, s) \cap Upper(b, s) = {}
    <2>1. \A c \in blocks[s] : Height[c] \in Nat
      BY <1>5, BlockAssumption, Zenon
    <2>2. Prev[b] \in Blocks /\ Height[Prev[b]] \in Nat
      BY <1>1, <1>5, BlockAssumption, Zenon
    <2> QED BY <2>1, <2>2 DEF Lower, Upper
  <1>10. Known' = Known \cup {b}
    <2>1. \A c : c \in Known' <=> \E t \in storage' : c \in blocks'[t]
      BY Zenon DEF Known
    <2>2. \A c : c \in Known <=> \E t \in storage : c \in blocks[t]
      BY Zenon DEF Known
    <2>3. ASSUME NEW c, c \in Known' PROVE c \in Known \cup {b}
      BY <1>1, <1>4, <1>5, <1>7, <1>8, <1>9, <2>1, <2>2, <2>3
    <2>4. ASSUME NEW c, c \in Known \cup {b} PROVE c \in Known'
      BY <1>1, <1>4, <1>5, <1>7, <1>8, <1>9, <2>1, <2>2, <2>4
    <2> QED BY <2>3, <2>4, Zenon
  <1>11. /\ cumulativeDifficulty' \in [Blocks -> Nat]
         /\ \A c \in Known : cumulativeDifficulty'[c] = cumulativeDifficulty[c]
         /\ cumulativeDifficulty'[b] =
               cumulativeDifficulty[Prev[b]] + NextDifficulty[Prev[b]]
         /\ \A c \in Known' : AddsUp(c)'
    BY <1>1, <1>2, <1>7, <1>10, StoredDifficulty, Zenon
  <1>12. SegmentIsChain(s)' /\ TopBlock(s)' = Prev[b]
    BY <1>1, <1>5, <1>8, LowerIsChain, Zenon
  <1>13. SegmentIsChain(u)' /\ TopBlock(u)' = TopBlock(s)
    BY <1>1, <1>5, <1>6, <1>8, UpperIsChain, Zenon
  <1>14. /\ parent' \in [Blocks -> Blocks \cup {None}]
         /\ parent'[u] = s /\ parent'[b] = s
         /\ \A t \in C : t \in storage /\ parent[t] = s /\ parent'[t] = u
         /\ \A t \in Blocks \ ({u, b} \cup C) : parent'[t] = parent[t]
    <2>1. parent \in [Blocks -> Blocks \cup {None}]
      BY Zenon DEF TypeOK
    <2>2. \A t \in C : t \in storage /\ parent[t] = s
      BY <1>2, Zenon DEF LeavesAreChildless
    <2>3. parent' \in [Blocks -> Blocks \cup {None}]
      BY <1>4, <1>7, <2>1, Zenon
    <2> QED BY <1>4, <1>5, <1>7, <2>2, <2>3, Zenon
  <1>15. mainLeaf' \in Blocks /\ altLeaves' \in SUBSET Blocks /\ mainLeaf \in storage
         /\ altLeaves \subseteq storage
    BY <1>2, <1>4, <1>5, <1>7 DEF LeavesAreChildless
  <1>16. /\ children' \in [Blocks -> SUBSET (Blocks \cup {Dangling})]
         /\ children'[s] = {u, b} /\ children'[u] = C /\ children'[b] = {}
         /\ \A t \in Blocks \ {s, u} : children'[t] = children[t]
    <2>1. children \in [Blocks -> SUBSET (Blocks \cup {Dangling})] /\ children[b] = {}
      BY <1>2, <1>7 DEF TypeOK, LeavesAreChildless
    <2> QED BY <1>4, <1>6, <1>7, <2>1, Zenon
  <1>17. TypeOK'
    <2>1. storage' \in SUBSET Blocks /\ mainChainSet' \in SUBSET Blocks /\ phase' \in Phases
      BY <1>1, <1>4, <1>5, <1>7, Zenon DEF PathFrom, TypeOK
    <2> QED BY <1>8, <1>11, <1>14, <1>15, <1>16, <2>1, Zenon DEF TypeOK
  <1>18. SegmentsAreLinked'
    <2>1. \A t \in storage' : SegmentIsChain(t)'
      <3>1. SegmentIsChain(b)'
        BY <1>8, BlockAssumption, SMTT(30) DEF SegmentIsChain
      <3>2. ASSUME NEW t \in storage \ {s} PROVE SegmentIsChain(t)'
        <4>1. SegmentIsChain(t) /\ blocks'[t] = blocks[t]
          BY <1>2, <1>5, <1>7, <1>8, Zenon DEF SegmentsAreLinked
        <4> QED BY <4>1, Zenon DEF SegmentIsChain
      <3> QED BY <1>4, <1>12, <1>13, <3>1, <3>2, Zenon
    <2>2. ASSUME NEW t \in storage', NEW v \in storage', NEW c \in blocks'[t], c \in blocks'[v]
          PROVE  t = v
      <3>1. \A x, y \in storage : \A d \in blocks[x] : d \in blocks[y] => x = y
        BY <1>2, Zenon DEF SegmentsAreLinked
      <3>2. \A x \in storage : b \notin blocks[x]
        BY <1>1, Zenon DEF Known
      <3> QED BY <1>1, <1>4, <1>5, <1>7, <1>8, <1>9, <2>2, <3>1, <3>2
    <2>3. ASSUME NEW t \in storage' \ {Root}
          PROVE  parent'[t] \in storage' /\ Prev[t] = TopBlock(parent[t])'
      <3>1. CASE t \in {u, b}
        BY <3>1, <1>1, <1>4, <1>6, <1>12, <1>14, SMTT(30) DEF TopBlock
      <3>2. CASE t \in C
        <4>1. Prev[t] = TopBlock(s)
          BY <3>2, <1>2, <1>14, <2>3, Zenon DEF SegmentsAreLinked
        <4> QED BY <3>2, <1>4, <1>13, <1>14, <4>1 DEF TopBlock
      <3>3. CASE t \notin {u, b} \cup C
        <4>1. t \in storage /\ parent[t] \in storage /\ Prev[t] = TopBlock(parent[t])
          BY <3>3, <2>3, <1>2, <1>4, Zenon DEF SegmentsAreLinked
        <4>2. parent[t] # s
          BY <3>3, <2>3, <4>1, <1>2, Zenon DEF LeavesAreChildless
        <4>3. blocks'[parent[t]] = blocks[parent[t]] /\ parent'[t] = parent[t]
          BY <3>3, <4>1, <4>2, <1>5, <1>7, <1>8, <1>14, Zenon
        <4> QED BY <4>1, <4>3, <1>4 DEF TopBlock
      <3> QED BY <3>1, <3>2, <3>3, Zenon
    <2>4. Root \in storage' /\ parent'[Root] = None
      <3>1. parent[Genesis] = None /\ Genesis \in storage
        BY <1>2, Zenon DEF SegmentsAreLinked
      <3>2. Genesis \notin C
        <4>1. \A t \in C : parent[t] = s
          BY <1>2, Zenon DEF LeavesAreChildless
        <4> QED BY <3>1, <4>1, PointerAssumption, Zenon
      <3> QED BY <1>4, <1>6, <1>14, <3>1, <3>2, BlockAssumption, Zenon
    <2>5. \A t \in SegmentIds \ storage' : parent'[t] = None
      BY <1>2, <1>4, <1>14, Zenon DEF SegmentsAreLinked
    <2> QED BY <2>1, <2>2, <2>3, <2>4, <2>5, Zenon DEF SegmentsAreLinked
  <1>19. LeavesAreChildless'
    <2>1. \A v \in SegmentIds : \A t \in children'[v] :
             v \in storage' /\ t \in storage' /\ parent'[t] = v
      <3> SUFFICES ASSUME NEW v \in Blocks, NEW t \in children'[v]
                   PROVE  v \in storage' /\ t \in storage' /\ parent'[t] = v
        BY Zenon
      <3>1. CASE v \in {s, u}
        BY <3>1, <1>1, <1>4, <1>14, <1>16, Zenon
      <3>2. CASE v \notin {s, u}
        <4>1. t \in children[v] /\ v \in storage /\ t \in storage /\ parent[t] = v
          BY <3>2, <1>2, <1>16, Zenon DEF LeavesAreChildless
        <4>2. t \notin C /\ t \notin {u, b} /\ t \in Blocks
          BY <3>2, <4>1, <1>5, <1>7, <1>14, Zenon
        <4> QED BY <4>1, <4>2, <1>4, <1>14, Zenon
      <3> QED BY <3>1, <3>2, Zenon
    <2>2. ASSUME NEW t \in storage' \ {Root} PROVE t \in children'[parent'[t]]
      <3>1. CASE t \in {u, b} \cup C
        BY <3>1, <1>14, <1>16, Zenon
      <3>2. CASE t \notin {u, b} \cup C
        <4>1. t \in children[parent[t]] /\ parent[t] \in storage /\ t \in storage
          BY <3>2, <2>2, <1>2, <1>4, Zenon DEF LeavesAreChildless, SegmentsAreLinked
        <4>2. parent[t] # s /\ parent[t] # u /\ parent'[t] = parent[t]
          BY <3>2, <4>1, <1>5, <1>7, <1>14, Zenon
        <4> QED BY <4>1, <4>2, <1>5, <1>16, Zenon
      <3> QED BY <3>1, <3>2, Zenon
    <2>3. \A t \in storage : t \in Leaves <=> children[t] = {}
      BY <1>2, Zenon DEF LeavesAreChildless
    <2>4. mainLeaf \notin altLeaves
      BY <1>2, Zenon DEF LeavesAreChildless
    <2>5. ASSUME NEW t \in storage' PROVE t \in Leaves' <=> children'[t] = {}
      <3>1. CASE t = s
        BY <3>1, <1>1, <1>4, <1>6, <1>7, <1>16, <2>3, Zenon DEF Leaves
      <3>2. CASE t = u
        BY <3>2, <1>1, <1>4, <1>7, <1>15, <1>16, <2>3, Zenon DEF Leaves
      <3>3. CASE t = b
        BY <3>3, <1>4, <1>16, Zenon DEF Leaves
      <3>4. CASE t \notin {s, u, b}
        BY <3>4, <1>4, <1>5, <1>16, <2>3, Zenon DEF Leaves
      <3> QED BY <3>1, <3>2, <3>3, <3>4, Zenon
    <2>6. mainLeaf' \in storage' /\ altLeaves' \subseteq storage' /\ mainLeaf' \notin altLeaves'
      BY <1>4, <1>7, <1>15, <2>4, Zenon
    <2> QED BY <2>1, <2>2, <2>5, <2>6, Zenon DEF LeavesAreChildless
  <1>20. TopBlock(mainLeaf)' = TopBlock(mainLeaf)
    <2>1. CASE mainLeaf = s
      <3>1. mainLeaf' = u
        BY <2>1, <1>2, <1>4, <1>15, Zenon DEF LeavesAreChildless, Leaves
      <3> QED BY <2>1, <3>1, <1>13, Zenon DEF TopBlock
    <2>2. CASE mainLeaf # s
      BY <2>2, <1>4, <1>5, <1>7, <1>8, <1>15, Zenon DEF TopBlock
    <2> QED BY <2>1, <2>2, Zenon
  <1>21. MainChainIsHeaviest'
    <2>1. TopBlock(mainLeaf) \in Known
      BY <1>2, <1>15, TopBlockIsHighest DEF SegmentsAreLinked, SegmentIsChain, Known
    <2>2. \A c \in Known :
             cumulativeDifficulty[c] <= cumulativeDifficulty[TopBlock(mainLeaf)]
      BY <1>1, <1>2, Zenon DEF MainChainIsHeaviest
    <2>3. cumulativeDifficulty'[b] = cumulativeDifficulty[u]
      BY <1>2, <1>6, <1>7, <1>11, Zenon DEF AddsUp
    <2> QED BY <1>7, <1>10, <1>11, <1>20, <2>1, <2>2, <2>3, Zenon DEF MainChainIsHeaviest
  <1>22. MainChainSetIsMainChain'
    BY <1>4, Zenon DEF MainChainSetIsMainChain
  <1>23. TreeIsConsistent'
    BY <1>1, <1>11, <1>18, <1>19, <1>21, <1>22, RunningIsConsistent, Zenon
  <1>24. BlockIsReceived(b)
    BY <1>1, <1>7, <1>10, <1>20, Zenon DEF BlockIsReceived
  <1> QED BY <1>17, <1>23, <1>24, Zenon

\* addBlock when the assert fails: the database keeps the lower part.
LEMMA ForkAssertFailsStep ==
    ASSUME TypeOK, TreeIsConsistent,
           NEW b \in Blocks \ {Genesis}, NEW s \in SegmentIds, ForkAssertFails(b, s)
    PROVE  TypeOK' /\ TreeIsConsistent'
  <1> USE DEF SegmentIds, Root
  <1>1. /\ phase = "running" /\ s \in storage /\ Prev[b] \in blocks[s]
        /\ blocks' = [blocks EXCEPT ![s] = Lower(b, s)]
        /\ phase' = "assertFailed"
        /\ UNCHANGED <<storage, parent, children, mainLeaf, altLeaves, mainChainSet,
                       cumulativeDifficulty>>
    BY Zenon DEF ForkAssertFails, Accepts
  <1> USE <1>1
  <1>2. SegmentIsChain(s) /\ SegmentIsChain(Root) /\ \A c \in blocks[Root] : AddsUp(c)
    BY Zenon DEF TreeIsConsistent, SegmentsAreLinked
  <1>3. /\ blocks' \in [Blocks -> SUBSET Blocks]
        /\ blocks'[s] = Lower(b, s)
        /\ \A t \in Blocks \ {s} : blocks'[t] = blocks[t]
        /\ Lower(b, s) \subseteq blocks[s]
    BY Zenon DEF TypeOK, Lower
  <1> USE <1>3
  <1>4. TypeOK'
    BY Zenon DEF TypeOK, Phases
  <1>5. SegmentIsChain(Root)'
    <2>1. CASE s = Root
      BY <2>1, <1>2, LowerIsChain, Zenon
    <2>2. CASE s # Root
      BY <2>2, <1>2, BlockAssumption, Zenon DEF SegmentIsChain
    <2> QED BY <2>1, <2>2, Zenon
  <1>6. blocks'[Root] \subseteq blocks[Root]
    BY BlockAssumption, Zenon
  <1>7. \A c \in blocks'[Root] : AddsUp(c)'
    BY <1>2, <1>6, Zenon DEF AddsUp
  <1> QED BY <1>4, <1>5, <1>7, Zenon DEF TreeIsConsistent

\* Every case of addBlock.
LEMMA AddBlockStep ==
    ASSUME TypeOK, TreeIsConsistent, AddBlock
    PROVE  TypeOK' /\ TreeIsConsistent'
  BY AddToMainStep, AddToAlternativeStep, SwitchMainChainStep, AddBesideChildrenStep,
     ForkInsideStep, ForkAssertFailsStep, Zenon DEF AddBlock

\* Unless the assert fails, addBlock receives the block.
LEMMA AddBlockReceives ==
    ASSUME TypeOK, TreeIsConsistent, AddBlock, phase' # "assertFailed"
    PROVE  \E b \in Blocks \ {Genesis} : BlockIsReceived(b)
  BY AddToMainStep, AddToAlternativeStep, SwitchMainChainStep, AddBesideChildrenStep,
     ForkInsideStep, Zenon DEF AddBlock, ForkAssertFails
=============================================================================
