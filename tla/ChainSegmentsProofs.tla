------------------------ MODULE ChainSegmentsProofs ------------------------
(***************************************************************************)
(* Theorems about ChainSegments, for every tree of blocks: type            *)
(* correctness, the inductive invariant TreeIsConsistent, and what follows *)
(* from it.                                                                *)
(***************************************************************************)
EXTENDS ChainLemmas, WellFoundedInduction
-----------------------------------------------------------------------------
(* Walking the parent pointers *)

\* The walk of getParent() calls that updateMainChainSet and
\* mergeMainChainSegments make is defined for every assignment of parents.
LEMMA PathsUnfold ==
    ASSUME NEW par \in [SegmentIds -> SegmentIds \cup {None}]
    PROVE  Paths(par) = [s \in SegmentIds |->
               IF par[s] = None THEN {s} ELSE {s} \cup Paths(par)[par[s]]]
  <1> DEFINE Closed(P) == \A x \in P : par[x] # None => par[x] \in P
             G(s) == {t \in SegmentIds :
                         \A P \in SUBSET SegmentIds : s \in P /\ Closed(P) => t \in P}
             f == [s \in SegmentIds |-> G(s)]
             Step(g) == [s \in SegmentIds |->
                            IF par[s] = None THEN {s} ELSE {s} \cup g[par[s]]]
  <1>1. ASSUME NEW s \in SegmentIds, par[s] = None PROVE G(s) = {s}
    <2>1. Closed({s})
      BY <1>1, Zenon
    <2> QED BY <2>1, Zenon
  <1>2. ASSUME NEW s \in SegmentIds, par[s] # None PROVE G(s) = {s} \cup G(par[s])
    <2>1. par[s] \in SegmentIds
      BY <1>2, Zenon
    <2>2. G(par[s]) \subseteq G(s)
      BY <2>1, <1>2, Zenon
    <2>3. Closed({s} \cup G(par[s])) /\ {s} \cup G(par[s]) \in SUBSET SegmentIds
      <3>1. par[s] \in G(par[s])
        BY <2>1, Zenon
      <3>2. ASSUME NEW x \in G(par[s]), par[x] # None PROVE par[x] \in G(par[s])
        BY <3>2, <2>1, Zenon
      <3> QED BY <3>1, <3>2, Zenon
    <2>4. G(s) \subseteq {s} \cup G(par[s])
      BY <2>3, Zenon
    <2>5. s \in G(s)
      BY Zenon
    <2> QED BY <2>2, <2>4, <2>5, Zenon
  <1>3. f = Step(f)
    <2>1. ASSUME NEW s \in SegmentIds PROVE f[s] = Step(f)[s]
      <3> HIDE DEF G
      <3>1. CASE par[s] = None
        BY <3>1, <1>1, Zenon
      <3>2. CASE par[s] # None
        BY <3>2, <1>2, Zenon
      <3> QED BY <3>1, <3>2, Zenon
    <2> HIDE DEF G
    <2> QED BY <2>1, Zenon
  <1> HIDE DEF f
  <1>4. Paths(par) = CHOOSE g : g = Step(g)
    BY Zenon DEF Paths
  <1> QED BY <1>3, <1>4, Zenon

\* Every non-empty set of heights has a least element.
LEMMA LeastNatural ==
    ASSUME NEW T \in SUBSET Nat, T # {}
    PROVE  \E x \in T : \A y \in T : x <= y
  <1> DEFINE R == {ss \in Nat \X Nat : ss[1] < ss[2]}
  <1>1. IsWellFoundedOn(R, Nat)
    BY NatLessThanWellFounded, Zenon DEF OpToRel
  <1> HIDE DEF R
  <1>2. PICK x \in T : \A y \in T : <<y, x>> \notin R
    BY <1>1, WFMin, Zenon
  <1>3. ASSUME NEW y \in T PROVE x <= y
    <2>1. ~(y < x)
      BY <1>2, Zenon DEF R
    <2> QED BY <2>1
  <1> QED BY <1>3, Zenon

\* Unfolding PathFrom by one step of getParent().
LEMMA PathFromUnfold ==
    ASSUME NEW par \in [SegmentIds -> SegmentIds \cup {None}], NEW s \in SegmentIds
    PROVE  /\ par[s] = None => PathFrom(s, par) = {s}
           /\ par[s] # None => PathFrom(s, par) = {s} \cup PathFrom(par[s], par)
  <1> DEFINE P == Paths(par)
  <1>1. P = [x \in SegmentIds |-> IF par[x] = None THEN {x} ELSE {x} \cup P[par[x]]]
    BY PathsUnfold, Zenon
  <1> HIDE DEF P
  <1>2. P[s] = IF par[s] = None THEN {s} ELSE {s} \cup P[par[s]]
    BY <1>1, Zenon
  <1>3. \A x : PathFrom(x, par) = {t \in SegmentIds : t \in P[x]}
    BY Zenon DEF PathFrom, P
  <1> QED BY <1>2, <1>3

\* What the walk from a live segment finds, in a tree whose segments are linked.
PathIsSound(s) ==
    /\ PathFrom(s, parent) \subseteq storage
    /\ s \in PathFrom(s, parent)
    /\ Root \in PathFrom(s, parent)
    /\ \A t \in PathFrom(s, parent) \ {Root} : parent[t] \in PathFrom(s, parent)
    /\ \A t \in PathFrom(s, parent) \ {s} : \A c \in blocks[t] : Height[c] < Height[s]
    /\ \A t, u \in PathFrom(s, parent) : \A b \in blocks[t], c \in blocks[u] :
          Height[b] = Height[c] => b = c

\* From a live segment the walk reaches the root, through live segments only,
\* and the blocks it passes all differ in height.
LEMMA PathsAreSound ==
    ASSUME TypeOK, SegmentsAreLinked, NEW s \in storage
    PROVE  PathIsSound(s)
  <1> USE DEF SegmentIds, Root
  <1> DEFINE Bad == {x \in storage : ~PathIsSound(x)}
             H == {Height[x] : x \in Bad}
  <1> SUFFICES ASSUME Bad # {} PROVE FALSE
    BY Zenon
  <1>1. storage \in SUBSET Blocks /\ parent \in [Blocks -> Blocks \cup {None}]
        /\ blocks \in [Blocks -> SUBSET Blocks]
    BY Zenon DEF TypeOK
  <1>2. PICK x \in Bad : \A y \in Bad : Height[x] <= Height[y]
    <2>1. H \in SUBSET Nat /\ H # {}
      BY <1>1, BlockAssumption
    <2>2. PICK h \in H : \A y \in H : h <= y
      <3> HIDE DEF H
      <3> QED BY <2>1, LeastNatural, Zenon
    <2> QED BY <2>2, Zenon
  <1>3. CASE x = Root
    <2>1. PathFrom(x, parent) = {x}
      BY <1>1, <1>3, PathFromUnfold, BlockAssumption, Zenon DEF SegmentsAreLinked
    <2>2. PathIsSound(x)
      BY <2>1, <1>3 DEF PathIsSound, SegmentsAreLinked, SegmentIsChain
    <2> QED BY <2>2, Zenon
  <1>4. CASE x # Root
    <2> DEFINE p == parent[x]
    <2>1. p \in storage /\ p # None /\ Prev[x] = TopBlock(p) /\ x \in Blocks \ {Genesis}
      BY <1>1, <1>4, PointerAssumption, Zenon DEF SegmentsAreLinked
    <2>2. SegmentIsChain(x) /\ SegmentIsChain(p)
      BY <2>1, Zenon DEF SegmentsAreLinked
    <2>3. Height[x] = Height[Prev[x]] + 1
      BY <2>1, BlockAssumption, Zenon
    <2>4. \A c \in blocks[p] : Height[c] < Height[x]
      <3>1. \A c \in blocks[p] : Height[c] <= Height[Prev[x]]
        BY <2>1, <2>2, TopBlockIsHighest, Zenon DEF SegmentIsChain
      <3>2. Height[Prev[x]] \in Nat /\ \A c \in blocks[p] : Height[c] \in Nat
        BY <2>1, <1>1, BlockAssumption, Zenon
      <3> QED BY <3>1, <3>2, <2>3
    <2>5. Height[p] < Height[x]
      BY <2>2, <2>4, Zenon DEF SegmentIsChain
    <2>6. PathIsSound(p)
      BY <2>1, <2>5, <1>1, <1>2, BlockAssumption
    <2>7. PathFrom(x, parent) = {x} \cup PathFrom(p, parent)
      BY <1>1, <2>1, PathFromUnfold, Zenon
    <2>8. \A t \in PathFrom(p, parent) : \A c \in blocks[t] : Height[c] < Height[x]
      <3> SUFFICES ASSUME NEW t \in PathFrom(p, parent), NEW c \in blocks[t]
                   PROVE  Height[c] < Height[x]
        BY Zenon
      <3>1. CASE t = p
        BY <3>1, <2>4, Zenon
      <3>2. CASE t # p
        <4>1. Height[c] < Height[p]
          BY <3>2, <2>6, Zenon DEF PathIsSound
        <4>2. Height[c] \in Nat /\ Height[p] \in Nat /\ Height[x] \in Nat
          BY <2>6, <2>1, <1>1, BlockAssumption DEF PathIsSound
        <4> QED BY <4>1, <4>2, <2>5
      <3> QED BY <3>1, <3>2, Zenon
    <2>9. \A b \in blocks[x] : Height[x] <= Height[b]
      BY <2>2, Zenon DEF SegmentIsChain
    <2>10. ASSUME NEW t \in PathFrom(p, parent), NEW c \in blocks[t], NEW b \in blocks[x]
           PROVE  Height[c] # Height[b]
      <3>1. Height[c] \in Nat /\ Height[b] \in Nat /\ Height[x] \in Nat
        BY <2>6, <1>1, BlockAssumption DEF PathIsSound
      <3> QED BY <2>8, <2>9, <3>1
    <2>11. \A b, c \in blocks[x] : Height[b] = Height[c] => b = c
      BY <2>2, Zenon DEF SegmentIsChain
    <2>12. PathIsSound(x)
      <3>1. \A t, u \in PathFrom(x, parent) : \A b \in blocks[t], c \in blocks[u] :
               Height[b] = Height[c] => b = c
        <4>1. \A t, u \in PathFrom(p, parent) : \A b \in blocks[t], c \in blocks[u] :
                 Height[b] = Height[c] => b = c
          BY <2>6, Zenon DEF PathIsSound
        <4> QED BY <2>7, <2>10, <2>11, <4>1, Zenon
      <3>2. \A t \in PathFrom(x, parent) \ {Root} : parent[t] \in PathFrom(x, parent)
        BY <2>6, <2>7, Zenon DEF PathIsSound
      <3> QED BY <2>6, <2>7, <2>8, <3>1, <3>2, Zenon DEF PathIsSound
    <2> QED BY <2>12, Zenon
  <1> QED BY <1>3, <1>4, Zenon

-----------------------------------------------------------------------------
(* Core::save, the end of the process, and Core::load *)

\* Steps that change no segment: the database stays as it is.
LEMMA PhaseStep ==
    ASSUME TypeOK, TreeIsConsistent, phase' \in Phases,
           phase' \notin {"running", "deleting", "merging", "stopped"},
           UNCHANGED <<storage, blocks, parent, children, mainLeaf, altLeaves,
                       mainChainSet, cumulativeDifficulty>>
    PROVE  TypeOK' /\ TreeIsConsistent'
  <1>1. TypeOK'
    BY Zenon DEF TypeOK
  <1>2. SegmentIsChain(Root)' /\ \A b \in blocks'[Root] : AddsUp(b)'
    BY Zenon DEF TreeIsConsistent, SegmentIsChain, AddsUp
  <1> QED BY <1>1, <1>2, Zenon DEF TreeIsConsistent

\* The beginning of save().
LEMMA SaveBegins ==
    ASSUME TypeOK, TreeIsConsistent, Save
    PROVE  TypeOK' /\ TreeIsConsistent'
  <1>1. phase = "running" /\ phase' = "deleting"
        /\ UNCHANGED <<storage, blocks, parent, children, mainLeaf, altLeaves,
                       mainChainSet, cumulativeDifficulty>>
    BY Zenon DEF Save
  <1>2. TypeOK'
    BY <1>1, Zenon DEF TypeOK, Phases
  <1>3. SegmentIsChain(Root)' /\ \A b \in blocks'[Root] : AddsUp(b)'
    BY <1>1, Zenon DEF TreeIsConsistent, SegmentIsChain, AddsUp
  <1>4. SegmentsAreLinked' /\ LeavesAreChildless' /\ \A b \in Known' : AddsUp(b)'
    <2>1. SegmentsAreLinked'
      BY <1>1 DEF TreeIsConsistent, SegmentsAreLinked, SegmentIsChain, TopBlock
    <2>2. LeavesAreChildless'
      BY <1>1, Zenon DEF TreeIsConsistent, LeavesAreChildless, Leaves
    <2>3. \A b \in Known' : AddsUp(b)'
      BY <1>1, Zenon DEF TreeIsConsistent, AddsUp, Known
    <2> QED BY <2>1, <2>2, <2>3, Zenon
  <1> QED BY <1>1, <1>2, <1>3, <1>4, Zenon DEF TreeIsConsistent

\* deleteLeaf takes a childless segment out of the tree.
LEMMA DeleteLeafStep ==
    ASSUME TypeOK, TreeIsConsistent, DeleteLeaf
    PROVE  TypeOK' /\ TreeIsConsistent'
  <1> USE DEF SegmentIds, Root
  <1>1. PICK leaf \in altLeaves :
           /\ parent[leaf] # None
           /\ children' = [children EXCEPT ![parent[leaf]] = @ \ {leaf}]
           /\ storage' = storage \ {leaf}
           /\ blocks' = [blocks EXCEPT ![leaf] = {}]
           /\ parent' = [parent EXCEPT ![leaf] = None]
           /\ altLeaves' = (altLeaves \ {leaf}) \cup
                              {p \in {parent[leaf]} : children[p] = {leaf}}
    BY Zenon DEF DeleteLeaf, NewLeaves
  <1>2. phase = "deleting" /\ UNCHANGED <<phase, mainLeaf, mainChainSet, cumulativeDifficulty>>
    BY Zenon DEF DeleteLeaf, NewLeaves
  <1>3. SegmentsAreLinked /\ LeavesAreChildless /\ \A b \in Known : AddsUp(b)
    BY <1>2, Zenon DEF TreeIsConsistent
  <1> DEFINE p == parent[leaf]
  <1>4. /\ leaf \in storage /\ leaf # Root /\ children[leaf] = {} /\ leaf # mainLeaf
        /\ p \in storage /\ leaf \in children[p] /\ p # leaf
        /\ storage \in SUBSET Blocks
    <2>1. leaf \in storage /\ leaf # Root /\ children[leaf] = {} /\ leaf # mainLeaf
      BY <1>1, <1>3, Zenon DEF LeavesAreChildless, SegmentsAreLinked, Leaves
    <2>2. p \in storage /\ leaf \in children[p]
      BY <1>3, <2>1, Zenon DEF LeavesAreChildless, SegmentsAreLinked
    <2> QED BY <2>1, <2>2, Zenon DEF TypeOK
  <1>5. /\ blocks' \in [Blocks -> SUBSET Blocks]
        /\ \A t \in Blocks \ {leaf} : blocks'[t] = blocks[t] /\ parent'[t] = parent[t]
        /\ parent' \in [Blocks -> Blocks \cup {None}] /\ parent'[leaf] = None
        /\ children' \in [Blocks -> SUBSET (Blocks \cup {Dangling})]
        /\ children'[p] = children[p] \ {leaf}
        /\ \A t \in Blocks \ {p} : children'[t] = children[t]
    BY <1>1, <1>4, Zenon DEF TypeOK
  <1>6. TypeOK'
    BY <1>1, <1>2, <1>4, <1>5 DEF TypeOK
  <1>7. SegmentsAreLinked'
    <2>1. \A t \in storage' : SegmentIsChain(t)'
      BY <1>1, <1>3, <1>4, <1>5 DEF SegmentsAreLinked, SegmentIsChain
    <2>2. \A t, u \in storage' : \A b \in blocks'[t] : b \in blocks'[u] => t = u
      BY <1>1, <1>3, <1>4, <1>5, Zenon DEF SegmentsAreLinked
    <2>3. ASSUME NEW t \in storage' \ {Root}
          PROVE  parent'[t] \in storage' /\ Prev[t] = TopBlock(parent[t])'
      <3>1. parent[t] # leaf /\ parent[t] \in storage /\ Prev[t] = TopBlock(parent[t])
        BY <1>1, <1>3, <1>4, Zenon DEF SegmentsAreLinked, LeavesAreChildless
      <3> QED BY <1>1, <1>4, <1>5, <3>1, Zenon DEF TopBlock
    <2>4. Root \in storage' /\ parent'[Root] = None
          /\ \A t \in Blocks \ storage' : parent'[t] = None
      BY <1>1, <1>3, <1>4, <1>5, BlockAssumption DEF SegmentsAreLinked
    <2> QED BY <2>1, <2>2, <2>3, <2>4, Zenon DEF SegmentsAreLinked
  <1>8. LeavesAreChildless'
    <2>1. \A v \in Blocks : \A t \in children'[v] :
             v \in storage' /\ t \in storage' /\ parent'[t] = v
      BY <1>1, <1>3, <1>4, <1>5 DEF LeavesAreChildless
    <2>2. \A t \in storage' \ {Root} : t \in children'[parent'[t]]
      BY <1>1, <1>3, <1>4, <1>5, Zenon DEF LeavesAreChildless, SegmentsAreLinked
    <2>3. mainLeaf' \in storage' /\ altLeaves' \subseteq storage' /\ mainLeaf' \notin altLeaves'
      BY <1>1, <1>2, <1>3, <1>4, Zenon DEF LeavesAreChildless, Leaves
    <2>4. \A t \in storage' : t \in Leaves' <=> children'[t] = {}
      BY <1>1, <1>2, <1>3, <1>4, <1>5 DEF LeavesAreChildless, Leaves
    <2> QED BY <2>1, <2>2, <2>3, <2>4, Zenon DEF LeavesAreChildless
  <1>9. \A b \in Known' : AddsUp(b)'
    <2>1. Known' \subseteq Known
      BY <1>1, <1>4, <1>5 DEF Known
    <2> QED BY <1>2, <1>3, <2>1, Zenon DEF AddsUp
  <1>10. SegmentIsChain(Root)' /\ \A b \in blocks'[Root] : AddsUp(b)'
    BY <1>7, <1>9, Zenon DEF SegmentsAreLinked, Known
  <1> QED BY <1>2, <1>6, <1>7, <1>8, <1>9, <1>10, Zenon DEF TreeIsConsistent

\* When the alternative chains are gone the main chain can be merged.
LEMMA MergeMayBegin ==
    ASSUME TypeOK, TreeIsConsistent, phase = "deleting"
    PROVE  MergeIsSafe
  <1> USE DEF SegmentIds, Root
  <1>1. SegmentsAreLinked /\ LeavesAreChildless /\ \A b \in Known : AddsUp(b)
    BY Zenon DEF TreeIsConsistent
  <1> DEFINE P == PathFrom(mainLeaf, parent)
  <1>2. PathIsSound(mainLeaf)
    BY <1>1, PathsAreSound, Zenon DEF LeavesAreChildless
  <1>3. \A b : b \in MainChainBlocks <=> \E t \in P : b \in blocks[t]
    BY Zenon DEF MainChainBlocks
  <1>4. ASSUME NEW b \in MainChainBlocks, b # Genesis PROVE Prev[b] \in MainChainBlocks
    <2>1. PICK t \in P : b \in blocks[t]
      BY <1>3, Zenon
    <2>2. t \in storage
      BY <1>2, Zenon DEF PathIsSound
    <2>3. CASE b # t
      BY <2>1, <2>2, <2>3, <1>1, <1>3, Zenon DEF SegmentsAreLinked, SegmentIsChain
    <2>4. CASE b = t
      <3>1. parent[t] \in P /\ parent[t] \in storage /\ Prev[t] = TopBlock(parent[t])
        BY <2>2, <2>4, <1>1, <1>2, <1>4, Zenon DEF PathIsSound, SegmentsAreLinked
      <3>2. TopBlock(parent[t]) \in blocks[parent[t]]
        BY <3>1, <1>1, TopBlockIsHighest, Zenon DEF SegmentsAreLinked, SegmentIsChain
      <3> QED BY <2>4, <3>1, <3>2, <1>3, Zenon
    <2> QED BY <2>3, <2>4, Zenon
  <1>5. MainChainBlocks \subseteq Known
    BY <1>2, <1>3 DEF PathIsSound, Known
  <1>6. \A b, c \in MainChainBlocks : Height[b] = Height[c] => b = c
    BY <1>2, <1>3 DEF PathIsSound
  <1>7. Root \in P
    BY <1>2, Zenon DEF PathIsSound
  <1> QED BY <1>1, <1>4, <1>5, <1>6, <1>7, Zenon DEF MergeIsSafe

\* mergeSegments pushes the right block onto the root segment.
LEMMA MergeBlockStep ==
    ASSUME TypeOK, TreeIsConsistent, MergeBlock
    PROVE  TypeOK' /\ TreeIsConsistent'
  <1> USE DEF SegmentIds, Root
  <1>1. /\ phase' = "merging"
        /\ UNCHANGED <<storage, parent, children, mainLeaf, altLeaves, mainChainSet,
                       cumulativeDifficulty>>
    BY Zenon DEF MergeBlock, IsNextToMerge
  <1>2. PICK b \in MainChainBlocks :
           /\ Height[b] = TopBlockIndex(Root) + 1
           /\ blocks' = [blocks EXCEPT ![Root] = @ \cup {b}]
    BY Zenon DEF MergeBlock, IsNextToMerge
  <1>3. MergeIsSafe /\ SegmentIsChain(Root) /\ \A c \in blocks[Root] : AddsUp(c)
    BY MergeMayBegin, Zenon DEF MergeBlock, TreeIsConsistent
  <1> DEFINE P == PathFrom(mainLeaf, parent)
  <1>4. /\ Genesis \in P /\ P \in SUBSET Blocks
        /\ \A c : c \in MainChainBlocks <=> \E t \in P : c \in blocks[t]
    BY <1>3 DEF MergeIsSafe, PathFrom, MainChainBlocks
  <1>5. MainChainBlocks \in SUBSET Blocks /\ blocks[Root] \subseteq MainChainBlocks
        /\ Genesis \in Blocks /\ Height \in [Blocks -> Nat]
    BY <1>4, BlockAssumption, Zenon DEF TypeOK
  <1>6. TopBlock(Root) \in blocks[Root]
    BY <1>3, TopBlockIsHighest, Zenon DEF SegmentIsChain
  <1>7. b \in Blocks \ {Genesis}
    BY <1>2, <1>5, <1>6, BlockAssumption DEF TopBlockIndex
  <1>8. Prev[b] = TopBlock(Root)
    <2>1. Prev[b] \in MainChainBlocks
      BY <1>3, <1>7, Zenon DEF MergeIsSafe
    <2>2. Height[Prev[b]] = Height[TopBlock(Root)]
      BY <1>2, <1>5, <1>6, <1>7, <2>1, BlockAssumption DEF TopBlockIndex
    <2> QED BY <1>3, <1>5, <1>6, <2>1, <2>2, Zenon DEF MergeIsSafe
  <1>9. SegmentIsChain(Root)'
    BY <1>2, <1>3, <1>5, <1>6, <1>7, <1>8, PushExtendsChain, Zenon DEF AddOnTop, TopBlockIndex
  <1>10. /\ blocks' \in [Blocks -> SUBSET Blocks]
         /\ blocks'[Root] = blocks[Root] \cup {b}
         /\ \A t \in Blocks \ {Root} : blocks'[t] = blocks[t]
    BY <1>2, <1>5, <1>7, Zenon DEF TypeOK
  <1>11. \A c \in blocks'[Root] : AddsUp(c)'
    BY <1>1, <1>3, <1>10, Zenon DEF AddsUp, MergeIsSafe
  <1>12. PathFrom(mainLeaf, parent)' = P
    BY <1>1, Zenon
  <1>13. MainChainBlocks' = MainChainBlocks
    <2>1. \A c : c \in MainChainBlocks' <=> \E t \in P : c \in blocks'[t]
      BY <1>12, Zenon DEF MainChainBlocks
    <2> HIDE DEF P
    <2>2. ASSUME NEW c, c \in MainChainBlocks PROVE c \in MainChainBlocks'
      BY <1>4, <1>10, <2>1, <2>2, Zenon
    <2>3. ASSUME NEW c, c \in MainChainBlocks' PROVE c \in MainChainBlocks
      BY <1>2, <1>4, <1>10, <2>1, <2>3, Zenon
    <2> QED BY <2>2, <2>3, Zenon
  <1>14. MergeIsSafe'
    BY <1>1, <1>3, <1>12, <1>13, Zenon DEF MergeIsSafe, AddsUp
  <1>15. TypeOK'
    BY <1>1, <1>10, Zenon DEF TypeOK, Phases
  <1> QED BY <1>1, <1>9, <1>11, <1>14, <1>15, Zenon DEF TreeIsConsistent

\* The process ends, in an orderly way or not: the database is what is left.
LEMMA EndStep ==
    ASSUME TypeOK, TreeIsConsistent, OnlyRootIsLeft
    PROVE  TypeOK' /\ TreeIsConsistent'
  <1> USE DEF SegmentIds, Root
  <1>1. Genesis \in Blocks /\ blocks' \in [Blocks -> SUBSET Blocks]
        /\ blocks'[Root] = blocks[Root]
    BY BlockAssumption, Zenon DEF OnlyRootIsLeft, TypeOK
  <1>2. TypeOK'
    BY <1>1, Zenon DEF OnlyRootIsLeft, TypeOK, Phases
  <1>3. SegmentIsChain(Root)'
    BY <1>1, Zenon DEF TreeIsConsistent, SegmentIsChain
  <1>4. ASSUME NEW b \in blocks'[Root] PROVE AddsUp(b)'
    <2>1. b \in Blocks /\ b \in blocks[Root] /\ AddsUp(b)
      BY <1>1, Zenon DEF TreeIsConsistent
    <2>2. b # Genesis => Prev[b] \in blocks[Root] /\ Prev[b] \in Blocks
      BY <2>1, BlockAssumption, Zenon DEF TreeIsConsistent, SegmentIsChain
    <2>3. \A c \in blocks[Root] : c \in Blocks =>
             cumulativeDifficulty'[c] = cumulativeDifficulty[c]
      BY Zenon DEF OnlyRootIsLeft
    <2> QED BY <2>1, <2>2, <2>3, Zenon DEF AddsUp
  <1>5. OnlyRootExists' /\ phase' = "stopped"
    BY Zenon DEF OnlyRootIsLeft, OnlyRootExists
  <1> QED BY <1>2, <1>3, <1>4, <1>5, Zenon DEF TreeIsConsistent

\* Along the chain in the database the work only grows: its top block is the
\* heaviest, so load() need not compare anything.
LEMMA TopOfRootIsHeaviest ==
    ASSUME TypeOK, SegmentIsChain(Root), \A b \in blocks[Root] : AddsUp(b),
           NEW x \in blocks[Root]
    PROVE  cumulativeDifficulty[x] <= cumulativeDifficulty[TopBlock(Root)]
  <1> USE DEF SegmentIds, Root
  <1> DEFINE B == blocks[Root]
             top == TopBlock(Root)
             Bad == {b \in B : ~(cumulativeDifficulty[b] <= cumulativeDifficulty[top])}
             D == {Height[top] - Height[b] : b \in Bad}
  <1> SUFFICES ASSUME Bad # {} PROVE FALSE
    BY Zenon
  <1>1. /\ B \in SUBSET Blocks /\ Height \in [Blocks -> Nat] /\ Genesis \in Blocks
        /\ cumulativeDifficulty \in [Blocks -> Nat]
    BY BlockAssumption, Zenon DEF TypeOK
  <1>2. top \in B /\ \A c \in B : Height[c] <= Height[top]
    BY TopBlockIsHighest, Zenon DEF SegmentIsChain
  <1> HIDE DEF top
  <1>3. PICK b \in Bad : \A c \in Bad : Height[top] - Height[b] <= Height[top] - Height[c]
    <2>1. D \in SUBSET Nat /\ D # {}
      BY <1>1, <1>2
    <2>2. PICK d \in D : \A y \in D : d <= y
      <3> HIDE DEF D
      <3> QED BY <2>1, LeastNatural, Zenon
    <2> QED BY <2>2, Zenon
  <1>4. b \in B /\ b # top /\ Height[b] < Height[top]
    <2>1. b \in B /\ b # top
      BY <1>1, <1>2
    <2>2. Height[b] # Height[top]
      BY <1>2, <2>1, Zenon DEF SegmentIsChain
    <2> QED BY <1>1, <1>2, <2>1, <2>2
  <1>5. PICK c \in B : Height[c] = Height[b] + 1
    <2>1. Height[b] + 1 \in Height[Root] .. Height[top]
      BY <1>1, <1>2, <1>4, BlockAssumption
    <2> QED BY <1>2, <2>1, Zenon DEF SegmentIsChain
  <1>6. c # Genesis /\ c \in Blocks
    BY <1>1, <1>4, <1>5, BlockAssumption
  <1>7. Prev[c] = b
    <2>1. Prev[c] \in B
      BY <1>5, <1>6, Zenon DEF SegmentIsChain
    <2>2. Height[Prev[c]] = Height[b]
      BY <1>1, <1>4, <1>5, <1>6, <2>1, BlockAssumption
    <2> QED BY <1>4, <2>1, <2>2, Zenon DEF SegmentIsChain
  <1>8. cumulativeDifficulty[c] = cumulativeDifficulty[b] + NextDifficulty[b]
        /\ NextDifficulty[b] \in Nat
    BY <1>1, <1>4, <1>5, <1>6, <1>7, BlockAssumption, Zenon DEF AddsUp
  <1>9. c \in Bad
    <2>1. cumulativeDifficulty[b] \in Nat /\ cumulativeDifficulty[top] \in Nat
      BY <1>1, <1>2, <1>4, Zenon
    <2> QED BY <1>5, <1>8, <2>1
  <1>10. Height[b] \in Nat /\ Height[c] \in Nat /\ Height[top] \in Nat
    BY <1>1, <1>2, <1>4, <1>6, Zenon
  <1> QED BY <1>3, <1>5, <1>9, <1>10

\* load() starts from what the database holds.
LEMMA LoadStep ==
    ASSUME TypeOK, TreeIsConsistent, Load
    PROVE  TypeOK' /\ TreeIsConsistent'
  <1> USE DEF SegmentIds, Root
  <1>1. phase = "stopped" /\ phase' = "running" /\ OnlyRootExists
        /\ UNCHANGED <<storage, blocks, parent, children, mainLeaf, altLeaves,
                       mainChainSet, cumulativeDifficulty>>
    BY Zenon DEF Load, TreeIsConsistent
  <1>2. TypeOK'
    BY <1>1, Zenon DEF TypeOK, Phases
  <1>3. SegmentIsChain(Root) /\ Genesis \in Blocks /\ \A b \in blocks[Root] : AddsUp(b)
    BY BlockAssumption, Zenon DEF TreeIsConsistent
  <1>4. SegmentsAreLinked'
    BY <1>1, <1>3, Zenon DEF OnlyRootExists, SegmentsAreLinked, SegmentIsChain
  <1>5. LeavesAreChildless'
    BY <1>1, <1>3, Zenon DEF OnlyRootExists, LeavesAreChildless, Leaves
  <1>6. Known' = blocks[Root]
    BY <1>1, Zenon DEF OnlyRootExists, Known
  <1>7. \A b \in Known' : AddsUp(b)'
    BY <1>1, <1>3, <1>6, Zenon DEF AddsUp
  <1>8. MainChainSetIsMainChain'
    <2>1. PathFrom(Root, parent) = {Root}
      BY <1>1, <1>3, PathFromUnfold, Zenon DEF OnlyRootExists, TypeOK
    <2>2. PathFrom(mainLeaf, parent)' = PathFrom(Root, parent)
      BY <1>1, Zenon DEF OnlyRootExists
    <2> QED BY <1>1, <2>1, <2>2, Zenon DEF MainChainSetIsMainChain, OnlyRootExists
  <1>9. MainChainIsHeaviest'
    <2>1. \A b \in blocks[Root] : cumulativeDifficulty[b] <= cumulativeDifficulty[TopBlock(Root)]
      BY <1>3, TopOfRootIsHeaviest, Zenon
    <2>2. TopBlock(mainLeaf)' = TopBlock(Root)
      BY <1>1, Zenon DEF OnlyRootExists, TopBlock
    <2> QED BY <1>1, <1>6, <2>1, <2>2, Zenon DEF MainChainIsHeaviest
  <1> QED BY <1>1, <1>2, <1>4, <1>5, <1>7, <1>8, <1>9, RunningIsConsistent, Zenon

-----------------------------------------------------------------------------
(* The theorems *)

\* The first start of the daemon: one root segment with the genesis block.
LEMMA InitIsConsistent == Init => TypeOK /\ TreeIsConsistent
  <1> USE DEF SegmentIds, Root
  <1> SUFFICES ASSUME Init PROVE TypeOK /\ TreeIsConsistent
    BY Zenon
  <1>1. Genesis \in Blocks /\ Height[Genesis] \in Nat
    BY BlockAssumption, Zenon
  <1>2. TypeOK
    BY <1>1, Zenon DEF Init, TypeOK, Phases
  <1>3. blocks[Root] = {Genesis} /\ Known = {Genesis}
    BY <1>1, Zenon DEF Init, Known
  <1>4. SegmentIsChain(Root) /\ \A b \in Known : AddsUp(b)
    BY <1>1, <1>3 DEF SegmentIsChain, AddsUp
  <1>5. SegmentsAreLinked
    BY <1>1, <1>3, <1>4, Zenon DEF Init, SegmentsAreLinked
  <1>6. LeavesAreChildless
    BY <1>1, Zenon DEF Init, LeavesAreChildless, Leaves
  <1>7. MainChainIsHeaviest
    <2>1. TopBlock(mainLeaf) = Genesis
      BY <1>1, <1>3, HighestIs DEF Init, TopBlock
    <2> QED BY <1>1, <1>2, <1>3, <2>1 DEF MainChainIsHeaviest, TypeOK
  <1>8. MainChainSetIsMainChain
    <2>1. PathFrom(Root, parent) = {Root}
      BY <1>1, <1>2, PathFromUnfold, Zenon DEF Init, TypeOK
    <2> QED BY <2>1, Zenon DEF Init, MainChainSetIsMainChain
  <1> QED BY <1>2, <1>3, <1>4, <1>5, <1>6, <1>7, <1>8, Zenon DEF Init, TreeIsConsistent

\* Every step of addBlock, save, a crash or load keeps the invariant.
LEMMA NextKeepsConsistent ==
    TypeOK /\ TreeIsConsistent /\ [Next]_chainVars => TypeOK' /\ TreeIsConsistent'
  <1> SUFFICES ASSUME TypeOK, TreeIsConsistent, [Next]_chainVars
               PROVE  TypeOK' /\ TreeIsConsistent'
    BY Zenon
  <1>1. CASE AddBlock
    BY <1>1, AddBlockStep, Zenon
  <1>2. CASE Save
    BY <1>2, SaveBegins, Zenon
  <1>3. CASE DeleteLeaf
    BY <1>3, DeleteLeafStep, Zenon
  <1>4. CASE DeleteLeafFails
    BY <1>4, PhaseStep, Zenon DEF DeleteLeafFails, Phases
  <1>5. CASE MergeBlock
    BY <1>5, MergeBlockStep, Zenon
  <1>6. CASE MergeAssertFails
    BY <1>6, PhaseStep, Zenon DEF MergeAssertFails, Phases
  <1>7. CASE FinishSave
    BY <1>7, EndStep, Zenon DEF FinishSave
  <1>8. CASE Crash
    BY <1>8, EndStep, Zenon DEF Crash
  <1>9. CASE Load
    BY <1>9, LoadStep, Zenon
  <1>10. CASE UNCHANGED chainVars
    <2>1. TypeOK'
      BY <1>10, Zenon DEF chainVars, TypeOK
    <2>2. /\ SegmentIsChain(Root)' <=> SegmentIsChain(Root)
          /\ \A b \in blocks[Root] : AddsUp(b)' <=> AddsUp(b)
          /\ \A b \in Known : AddsUp(b)' <=> AddsUp(b)
      BY <1>10, Zenon DEF chainVars, SegmentIsChain, AddsUp
    <2>3. SegmentsAreLinked' <=> SegmentsAreLinked
      <3>1. \A s \in storage : SegmentIsChain(s)' <=> SegmentIsChain(s)
        BY <1>10, Zenon DEF chainVars, SegmentIsChain
      <3>2. \A s \in storage : TopBlock(parent[s])' = TopBlock(parent[s])
        BY <1>10, Zenon DEF chainVars, TopBlock
      <3> QED BY <1>10, <3>1, <3>2, Zenon DEF chainVars, SegmentsAreLinked
    <2>4. (LeavesAreChildless' <=> LeavesAreChildless) /\ (OnlyRootExists' <=> OnlyRootExists)
      BY <1>10 DEF chainVars, LeavesAreChildless, Leaves, OnlyRootExists
    <2>5. Known' = Known /\ MainChainBlocks' = MainChainBlocks
      BY <1>10, Zenon DEF chainVars, Known, MainChainBlocks
    <2>6. MainChainIsHeaviest' <=> MainChainIsHeaviest
      BY <1>10, <2>5, Zenon DEF chainVars, MainChainIsHeaviest, TopBlock
    <2>7. MainChainSetIsMainChain' <=> MainChainSetIsMainChain
      BY <1>10, Zenon DEF chainVars, MainChainSetIsMainChain
    <2>8. MergeIsSafe' <=> MergeIsSafe
      BY <1>10, <2>5, Zenon DEF chainVars, MergeIsSafe, AddsUp
    <2>9. TreeIsConsistent'
      BY <1>10, <2>2, <2>3, <2>4, <2>5, <2>6, <2>7, <2>8, Zenon DEF chainVars, TreeIsConsistent
    <2> QED BY <2>1, <2>9, Zenon
  <1> QED BY <1>1, <1>2, <1>3, <1>4, <1>5, <1>6, <1>7, <1>8, <1>9, <1>10, Zenon DEF Next,
             SaveStep

\* Type correctness of the segment tree, and the inductive invariant behind
\* everything else: in every phase of the process, segments, pointers, leaves
\* and stored difficulties fit together.
THEOREM TreeStaysConsistent == Spec => [](TypeOK /\ TreeIsConsistent)
  BY InitIsConsistent, NextKeepsConsistent, PTL DEF Spec

\* Every variable of Core's block tree keeps its type.
THEOREM TypeCorrect == Spec => []TypeOK
  BY TreeStaysConsistent, PTL

\* No chain known to the running daemon has more work than its main chain,
\* whatever the blocks and their order of arrival, although addBlock compares
\* chains in one of its four cases only.
THEOREM MainChainStaysHeaviest == Spec => []MainChainIsHeaviest
  <1>1. TreeIsConsistent => MainChainIsHeaviest
    <2>1. CASE phase = "running"
      BY <2>1, Zenon DEF TreeIsConsistent
    <2>2. CASE phase # "running"
      BY <2>2, Zenon DEF MainChainIsHeaviest
    <2> QED BY <2>1, <2>2, Zenon
  <1> QED BY <1>1, TreeStaysConsistent, PTL

\* The database is one unbroken chain at every moment: while blocks are added,
\* between any two writes of save() and after any crash.
THEOREM DatabaseStaysOneChain == Spec => []DatabaseIsOneChain
  <1>1. TreeIsConsistent => DatabaseIsOneChain
    BY Zenon DEF TreeIsConsistent, SegmentIsChain, DatabaseIsOneChain, Root
  <1> QED BY <1>1, TreeStaysConsistent, PTL

\* addBlock never stores a block twice, nor two blocks of one height in one
\* segment.
THEOREM BlocksStayStoredOnce == Spec => []BlocksAreStoredOnce
  <1>1. TreeIsConsistent => BlocksAreStoredOnce
    <2> SUFFICES ASSUME TreeIsConsistent, phase = "running",
                        NEW s \in storage, NEW t \in storage,
                        NEW b \in blocks[s], NEW c \in blocks[t]
                 PROVE  /\ b = c => s = t
                        /\ s = t /\ Height[b] = Height[c] => b = c
      BY Zenon DEF BlocksAreStoredOnce
    <2>1. SegmentsAreLinked
      BY Zenon DEF TreeIsConsistent
    <2>2. b = c => s = t
      BY <2>1, Zenon DEF SegmentsAreLinked
    <2>3. s = t /\ Height[b] = Height[c] => b = c
      BY <2>1, Zenon DEF SegmentsAreLinked, SegmentIsChain
    <2> QED BY <2>2, <2>3, Zenon
  <1> QED BY <1>1, TreeStaysConsistent, PTL

\* A save() that comes to its end has the whole main chain in the database.
THEOREM SavedMainChain == Spec => SaveKeepsMainChain
  <1> USE DEF SegmentIds, Root
  <1>1. ASSUME TypeOK, TreeIsConsistent, FinishSave
        PROVE  MainChainBlocks \subseteq blocks'[Root]
    <2>1. MergeIsSafe /\ SegmentIsChain(Root) /\ \A b \in MainChainBlocks : Height[b] <= TopBlockIndex(Root)
      BY <1>1, MergeMayBegin, Zenon DEF FinishSave, TreeIsConsistent
    <2>2. /\ blocks'[Root] = blocks[Root] /\ blocks[Root] \subseteq MainChainBlocks
          /\ MainChainBlocks \in SUBSET Blocks
      BY <1>1, <2>1, BlockAssumption
      DEF FinishSave, OnlyRootIsLeft, MergeIsSafe, MainChainBlocks, TypeOK, PathFrom
    <2>3. TopBlock(Root) \in blocks[Root]
      BY <2>1, TopBlockIsHighest, Zenon DEF SegmentIsChain
    <2>4. ASSUME NEW b \in MainChainBlocks PROVE b \in blocks[Root]
      <3>1. Height[b] \in Height[Root] .. Height[TopBlock(Root)]
        BY <2>1, <2>2, <2>3, BlockAssumption DEF TopBlockIndex
      <3>2. PICK c \in blocks[Root] : Height[c] = Height[b]
        BY <2>1, <2>3, <3>1, Zenon DEF SegmentIsChain
      <3> QED BY <2>1, <2>2, <3>2, Zenon DEF MergeIsSafe
    <2> QED BY <2>2, <2>4, Zenon
  <1>2. TypeOK /\ TreeIsConsistent /\ [Next]_chainVars
           => [FinishSave => MainChainBlocks \subseteq blocks'[Root]]_chainVars
    BY <1>1, Zenon
  <1> QED BY <1>2, TreeStaysConsistent, PTL DEF Spec, SaveKeepsMainChain
-----------------------------------------------------------------------------
(* The chain that ends in a block *)

\* Following previousBlockHash by one block.
LEMMA ChainToUnfold ==
    ASSUME NEW b \in Blocks
    PROVE  /\ ChainTo[b] \in SUBSET Blocks
           /\ ChainTo[Genesis] = {Genesis}
           /\ b # Genesis => ChainTo[b] = {b} \cup ChainTo[Prev[b]] /\ Prev[b] \in Blocks
  <1> DEFINE par == [c \in Blocks |-> IF c = Genesis THEN None ELSE Prev[c]]
  <1>1. par \in [SegmentIds -> SegmentIds \cup {None}] /\ Genesis \in SegmentIds
    BY BlockAssumption, Zenon DEF SegmentIds
  <1>2. par[Genesis] = None /\ (b # Genesis => par[b] = Prev[b] /\ Prev[b] \in Blocks)
        /\ (b # Genesis => par[b] # None)
    BY BlockAssumption, PointerAssumption, Zenon
  <1>3. \A c \in Blocks : ChainTo[c] = PathFrom(c, par)
    BY Zenon DEF ChainTo
  <1> HIDE DEF par
  <1>4. ChainTo[b] \in SUBSET Blocks
    BY <1>3, Zenon DEF PathFrom, SegmentIds
  <1>5. PathFrom(Genesis, par) = {Genesis}
        /\ (b # Genesis => PathFrom(b, par) = {b} \cup PathFrom(Prev[b], par))
    BY <1>1, <1>2, PathFromUnfold, Zenon DEF SegmentIds
  <1> QED BY <1>2, <1>3, <1>4, <1>5, BlockAssumption, Zenon

\* A set of blocks that holds the predecessor of every block in it.
IsClosed(C) ==
    /\ C \in SUBSET Blocks
    /\ \A b \in C : b # Genesis => Prev[b] \in C

\* A predicate of blocks that holds of the genesis block, and of every block
\* when it holds of its predecessor, holds of all the blocks of a closed set.
LEMMA BlockInduction ==
    ASSUME NEW C, IsClosed(C), NEW Good,
           Genesis \in C => Genesis \in Good,
           \A b \in C \ {Genesis} : Prev[b] \in Good => b \in Good
    PROVE  C \subseteq Good
  <1> DEFINE Bad == {b \in C : b \notin Good}
             H == {Height[b] : b \in Bad}
  <1> SUFFICES ASSUME Bad # {} PROVE FALSE
    BY Zenon
  <1>1. Bad \in SUBSET Blocks /\ C \in SUBSET Blocks
    BY Zenon DEF IsClosed
  <1>2. PICK b \in Bad : \A c \in Bad : Height[b] <= Height[c]
    <2>1. H \in SUBSET Nat /\ H # {}
      BY <1>1, BlockAssumption
    <2>2. PICK h \in H : \A y \in H : h <= y
      <3> HIDE DEF H
      <3> QED BY <2>1, LeastNatural, Zenon
    <2> QED BY <2>2
  <1>3. b \in C \ {Genesis} /\ Prev[b] \in C /\ Prev[b] \notin Good
    BY <1>2, Zenon DEF IsClosed
  <1>4. Height[b] = Height[Prev[b]] + 1 /\ Height[Prev[b]] \in Nat
    BY <1>1, <1>3, BlockAssumption
  <1> QED BY <1>2, <1>3, <1>4

\* A closed set holds the chain to each of its blocks.
LEMMA ClosedHoldsChain ==
    ASSUME NEW C, IsClosed(C), NEW b \in C
    PROVE  ChainTo[b] \subseteq C
  <1> DEFINE Good == {c \in C : ChainTo[c] \subseteq C}
  <1>1. Genesis \in C => Genesis \in Good
    BY ChainToUnfold, BlockAssumption, Zenon
  <1>2. \A c \in C \ {Genesis} : Prev[c] \in Good => c \in Good
    BY ChainToUnfold, Zenon DEF IsClosed
  <1> HIDE DEF Good
  <1>3. C \subseteq Good
    BY <1>1, <1>2, BlockInduction, Zenon
  <1> QED BY <1>3, Zenon DEF Good

\* The blocks of the chain to b: b is the highest, and there is a block of
\* every height below it.
LEMMA ChainToHeights ==
    ASSUME NEW b \in Blocks
    PROVE  /\ b \in ChainTo[b]
           /\ \A c \in ChainTo[b] : Height[c] <= Height[b]
           /\ \A h \in 0 .. Height[b] : \E c \in ChainTo[b] : Height[c] = h
  <1> DEFINE Sound(c) == /\ c \in ChainTo[c]
                         /\ \A d \in ChainTo[c] : Height[d] <= Height[c]
                         /\ \A h \in 0 .. Height[c] : \E d \in ChainTo[c] : Height[d] = h
             Good == {c \in Blocks : Sound(c)}
  <1>1. Genesis \in Good
    BY ChainToUnfold, BlockAssumption
  <1>2. ASSUME NEW c \in Blocks \ {Genesis}, Prev[c] \in Good PROVE Sound(c)
    <2>1. ChainTo[c] = {c} \cup ChainTo[Prev[c]] /\ Height[c] = Height[Prev[c]] + 1
          /\ Prev[c] \in Blocks /\ Height \in [Blocks -> Nat]
          /\ ChainTo[Prev[c]] \in SUBSET Blocks
      BY ChainToUnfold, BlockAssumption, Zenon
    <2>2. \A d \in ChainTo[c] : Height[d] <= Height[c]
      BY <1>2, <2>1
    <2>3. ASSUME NEW h \in 0 .. Height[c] PROVE \E d \in ChainTo[c] : Height[d] = h
      <3>1. CASE h = Height[c]
        BY <2>1, <3>1, Zenon
      <3>2. CASE h # Height[c]
        <4>1. h \in 0 .. Height[Prev[c]]
          BY <2>1, <3>2
        <4> QED BY <1>2, <2>1, <4>1, Zenon
      <3> QED BY <3>1, <3>2, Zenon
    <2> QED BY <2>1, <2>2, <2>3, Zenon
  <1>3. IsClosed(Blocks)
    BY BlockAssumption, Zenon DEF IsClosed
  <1> HIDE DEF Sound
  <1>4. \A c \in Blocks \ {Genesis} : Prev[c] \in Good => c \in Good
    BY <1>2, Zenon
  <1> HIDE DEF Good
  <1>5. Blocks \subseteq Good
    BY <1>1, <1>3, <1>4, BlockInduction, Zenon
  <1> QED BY <1>5, Zenon DEF Good, Sound

\* In a closed set whose blocks differ in height, the chain to a block is what
\* lies no higher than it.
LEMMA ChainInClosedSet ==
    ASSUME NEW C, IsClosed(C), \A b, c \in C : Height[b] = Height[c] => b = c, NEW b \in C
    PROVE  ChainTo[b] = {c \in C : Height[c] <= Height[b]}
  <1>1. ChainTo[b] \subseteq C /\ b \in Blocks /\ C \subseteq Blocks
    BY ClosedHoldsChain, Zenon DEF IsClosed
  <1>2. \A c \in ChainTo[b] : Height[c] <= Height[b]
    BY <1>1, ChainToHeights, Zenon
  <1>3. ASSUME NEW c \in C, Height[c] <= Height[b] PROVE c \in ChainTo[b]
    <2>1. Height[c] \in 0 .. Height[b]
      BY <1>1, <1>3, BlockAssumption
    <2>2. PICK d \in ChainTo[b] : Height[d] = Height[c]
      BY <1>1, <2>1, ChainToHeights, Zenon
    <2> QED BY <1>1, <2>2, Zenon
  <1> QED BY <1>1, <1>2, <1>3, Zenon
-----------------------------------------------------------------------------
(* No chain spends a key image twice *)

\* The blocks of the chain that ends in a segment, and what the walk over its
\* segments says of them.
SegmentChain(s) == UNION {blocks[t] : t \in PathFrom(s, parent)}

\* The segments from one of them to the root hold a chain, one block per height.
LEMMA SegmentChainIsChain ==
    ASSUME TypeOK, SegmentsAreLinked, NEW s \in storage
    PROVE  /\ IsClosed(SegmentChain(s))
           /\ SegmentChain(s) \subseteq Known
           /\ \A b, c \in SegmentChain(s) : Height[b] = Height[c] => b = c
           /\ TopBlock(s) \in SegmentChain(s)
           /\ \A b \in SegmentChain(s) : Height[b] <= Height[TopBlock(s)]
  <1> USE DEF SegmentIds, Root
  <1> DEFINE P == PathFrom(s, parent)
  <1>1. PathIsSound(s)
    BY PathsAreSound, Zenon
  <1>2. \A b : b \in SegmentChain(s) <=> \E t \in P : b \in blocks[t]
    BY Zenon DEF SegmentChain
  <1>3. /\ P \subseteq storage /\ storage \in SUBSET Blocks /\ s \in P
        /\ blocks \in [Blocks -> SUBSET Blocks] /\ Height \in [Blocks -> Nat]
    BY <1>1, BlockAssumption, Zenon DEF PathIsSound, TypeOK
  <1>4. ASSUME NEW b \in SegmentChain(s), b # Genesis PROVE Prev[b] \in SegmentChain(s)
    <2>1. PICK t \in P : b \in blocks[t]
      BY <1>2, Zenon
    <2>2. CASE b # t
      BY <2>1, <2>2, <1>2, <1>3, Zenon DEF SegmentsAreLinked, SegmentIsChain
    <2>3. CASE b = t
      <3>1. parent[t] \in P /\ parent[t] \in storage /\ Prev[t] = TopBlock(parent[t])
        BY <2>3, <1>1, <1>3, <1>4, Zenon DEF PathIsSound, SegmentsAreLinked
      <3>2. TopBlock(parent[t]) \in blocks[parent[t]]
        BY <3>1, TopBlockIsHighest, Zenon DEF SegmentsAreLinked, SegmentIsChain
      <3> QED BY <2>3, <3>1, <3>2, <1>2, Zenon
    <2> QED BY <2>2, <2>3, Zenon
  <1>5. IsClosed(SegmentChain(s))
    BY <1>2, <1>3, <1>4, Zenon DEF IsClosed
  <1>6. SegmentChain(s) \subseteq Known
    BY <1>2, <1>3, Zenon DEF Known
  <1>7. \A b, c \in SegmentChain(s) : Height[b] = Height[c] => b = c
    BY <1>1, <1>2 DEF PathIsSound
  <1>8. TopBlock(s) \in blocks[s] /\ \A c \in blocks[s] : Height[c] <= Height[TopBlock(s)]
    BY TopBlockIsHighest, Zenon DEF SegmentsAreLinked, SegmentIsChain
  <1>9. ASSUME NEW b \in SegmentChain(s) PROVE Height[b] <= Height[TopBlock(s)]
    <2>1. PICK t \in P : b \in blocks[t]
      BY <1>2, Zenon
    <2>2. CASE t = s
      BY <2>1, <2>2, <1>8, Zenon
    <2>3. CASE t # s
      <3>1. Height[b] < Height[s]
        BY <2>1, <2>3, <1>1, Zenon DEF PathIsSound
      <3>2. Height[s] <= Height[TopBlock(s)]
        BY <1>8, Zenon DEF SegmentsAreLinked, SegmentIsChain
      <3>3. b \in Blocks /\ s \in Blocks /\ TopBlock(s) \in Blocks
        BY <2>1, <1>3, <1>8, Zenon
      <3> QED BY <3>1, <3>2, <3>3, <1>3
    <2> QED BY <2>2, <2>3, Zenon
  <1> QED BY <1>2, <1>3, <1>5, <1>6, <1>7, <1>8, <1>9, Zenon

\* checkIfSpent asks its parent: one step of the recursion.
LEMMA CheckIfSpentUnfold ==
    ASSUME parent \in [SegmentIds -> SegmentIds \cup {None}], NEW k, NEW i,
           NEW s \in SegmentIds
    PROVE  CheckIfSpent(s, k, i) <=>
               IF (\A b \in blocks[s] : i < Height[b])
                     \/ {b \in blocks[s] : k \in KeyImagesOf[b]} = {}
               THEN parent[s] # None /\ CheckIfSpent(parent[s], k, i)
               ELSE \E b \in {c \in blocks[s] : k \in KeyImagesOf[c]} : Height[b] <= i
  <1> DEFINE Asks(t) == (\A b \in blocks[t] : i < Height[b])
                           \/ {b \in blocks[t] : k \in KeyImagesOf[b]} = {}
             Hit(t) == \E b \in {c \in blocks[t] : k \in KeyImagesOf[c]} : Height[b] <= i
             Step(g) == [t \in SegmentIds |->
                            IF Asks(t) THEN parent[t] # None /\ g[parent[t]] ELSE Hit(t)]
             Closed(P) == \A t \in SegmentIds :
                             /\ ~Asks(t) /\ Hit(t) => t \in P
                             /\ Asks(t) /\ parent[t] # None /\ parent[t] \in P => t \in P
             F(t) == \A P \in SUBSET SegmentIds : Closed(P) => t \in P
             f == [t \in SegmentIds |-> F(t)]
             spent == CHOOSE g : g = Step(g)
  <1>1. \A t : CheckIfSpent(t, k, i) = spent[t]
    BY Zenon DEF CheckIfSpent
  <1> HIDE DEF Asks, Hit
  <1>2. ASSUME NEW t \in SegmentIds, ~Asks(t) PROVE F(t) <=> Hit(t)
    <2>1. CASE Hit(t)
      BY <1>2, <2>1, Zenon
    <2>2. CASE ~Hit(t)
      <3>1. Closed(SegmentIds \ {t})
        BY <1>2, <2>2, Zenon
      <3> QED BY <2>2, <3>1, Zenon
    <2> QED BY <2>1, <2>2, Zenon
  <1>3. ASSUME NEW t \in SegmentIds, Asks(t) PROVE F(t) <=> parent[t] # None /\ F(parent[t])
    <2>1. ASSUME parent[t] # None, F(parent[t]) PROVE F(t)
      BY <1>3, <2>1, Zenon
    <2>2. ASSUME F(t) PROVE parent[t] # None
      <3> SUFFICES ASSUME parent[t] = None PROVE FALSE
        BY Zenon
      <3>1. Closed(SegmentIds \ {t})
        BY <1>3, Zenon
      <3> QED BY <2>2, <3>1, Zenon
    <2>3. ASSUME F(t), parent[t] # None, NEW P \in SUBSET SegmentIds, Closed(P), parent[t] \notin P
          PROVE  FALSE
      <3>1. Closed(P \ {t})
        BY <1>3, <2>3, Zenon
      <3>2. P \ {t} \in SUBSET SegmentIds
        BY Zenon
      <3> QED BY <2>3, <3>1, <3>2, Zenon
    <2> QED BY <2>1, <2>2, <2>3, Zenon
  <1>4. f = Step(f)
    <2> HIDE DEF F
    <2>1. ASSUME NEW t \in SegmentIds
          PROVE  F(t) = IF Asks(t) THEN parent[t] # None /\ f[parent[t]] ELSE Hit(t)
      <3>1. CASE Asks(t)
        <4>1. parent[t] # None => f[parent[t]] = F(parent[t])
          BY Zenon
        <4>2. F(t) \in BOOLEAN /\ (parent[t] # None => F(parent[t]) \in BOOLEAN)
          BY Zenon DEF F
        <4> QED BY <1>3, <3>1, <4>1, <4>2, Zenon
      <3>2. CASE ~Asks(t)
        <4>1. F(t) \in BOOLEAN /\ Hit(t) \in BOOLEAN
          BY Zenon DEF F, Hit
        <4> QED BY <1>2, <3>2, <4>1, Zenon
      <3> QED BY <3>1, <3>2, Zenon
    <2> QED BY <2>1, Zenon
  <1> HIDE DEF f
  <1>5. spent = Step(spent)
    BY <1>4, Zenon
  <1> HIDE DEF spent
  <1>6. spent[s] = IF Asks(s) THEN parent[s] # None /\ spent[parent[s]] ELSE Hit(s)
    BY <1>5, Zenon
  <1> QED BY <1>1, <1>6, Zenon DEF Asks, Hit

\* Outside the checkpoint zone, a block spends no key image that the chain
\* below it has spent.
SpendsOnce(c) ==
    c # Genesis /\ ~IsInCheckpointZone(Height[c]) =>
        \A b \in ChainTo[Prev[c]] : KeyImagesOf[b] \cap KeyImagesOf[c] = {}

\* The inductive invariant: every block in any segment does so, in every phase.
EveryBlockSpendsOnce == \A s \in SegmentIds : \A c \in blocks[s] : SpendsOnce(c)

\* On the chain of a segment, what lies below a block is the chain to its
\* predecessor.
LEMMA BelowOnSegmentChain ==
    ASSUME TypeOK, SegmentsAreLinked, NEW s \in storage,
           NEW b \in SegmentChain(s), NEW c \in SegmentChain(s), Height[b] < Height[c]
    PROVE  c # Genesis /\ b \in ChainTo[Prev[c]]
  <1>1. IsClosed(SegmentChain(s))
        /\ \A x, y \in SegmentChain(s) : Height[x] = Height[y] => x = y
    BY SegmentChainIsChain, Zenon
  <1>2. b \in Blocks /\ c \in Blocks
    BY <1>1, Zenon DEF IsClosed
  <1>3. c # Genesis
    BY <1>2, BlockAssumption
  <1>4. Prev[c] \in SegmentChain(s)
    BY <1>1, <1>3, Zenon DEF IsClosed
  <1>5. Height[b] <= Height[Prev[c]]
    BY <1>2, <1>3, BlockAssumption
  <1> QED BY <1>1, <1>3, <1>4, <1>5, ChainInClosedSet

\* If a block x of the chain, at most as high as index i, spends k, checkIfSpent
\* finds it: every segment between the one asked and that of x either holds no
\* other spend of k, or one that is not above i.
LEMMA CheckIfSpentFinds ==
    ASSUME TypeOK, SegmentsAreLinked, EveryBlockSpendsOnce,
           NEW s \in storage, NEW i \in Nat, ~IsInCheckpointZone(i + 1),
           NEW x \in SegmentChain(s), Height[x] <= i, NEW k \in KeyImagesOf[x]
    PROVE  CheckIfSpent(s, k, i)
  <1> USE DEF SegmentIds, Root
  <1> DEFINE P == PathFrom(s, parent)
             Spent(t) == CheckIfSpent(t, k, i)
             Hits(t) == {b \in blocks[t] : k \in KeyImagesOf[b]}
  <1>1. /\ PathIsSound(s)
        /\ storage \in SUBSET Blocks /\ P \subseteq storage /\ s \in P
        /\ blocks \in [Blocks -> SUBSET Blocks] /\ Height \in [Blocks -> Nat]
        /\ parent \in [Blocks -> Blocks \cup {None}]
    BY PathsAreSound, BlockAssumption, Zenon DEF TypeOK, PathIsSound
  <1>2. PICK u \in P : x \in blocks[u]
    BY Zenon DEF SegmentChain
  <1>3. \A t \in P : \A b \in blocks[t] : b \in SegmentChain(s)
    BY Zenon DEF SegmentChain
  <1>4. \A t \in P : SegmentIsChain(t)
    BY <1>1, Zenon DEF SegmentsAreLinked
  <1>5. \A t, v \in P : \A b \in blocks[t], c \in blocks[v] : Height[b] = Height[c] => b = c
    BY <1>1, Zenon DEF PathIsSound
  <1>6. \A t, v \in P : \A b \in blocks[t] : b \in blocks[v] => t = v
    BY <1>1, Zenon DEF SegmentsAreLinked
  <1>7. ASSUME NEW t \in P, NEW y \in Hits(t) PROVE Height[y] <= i
    <2> SUFFICES ASSUME ~(Height[y] <= i) PROVE FALSE
      BY Zenon
    <2>1. y \in SegmentChain(s) /\ y \in Blocks /\ x \in Blocks /\ t \in Blocks
      BY <1>1, <1>2, <1>3, Zenon
    <2>2. Height[x] < Height[y] /\ i + 1 <= Height[y] /\ Height[y] \in Nat
      BY <1>1, <2>1
    <2>3. y # Genesis /\ x \in ChainTo[Prev[y]]
      BY <2>1, <2>2, BelowOnSegmentChain, Zenon
    <2>4. ~IsInCheckpointZone(Height[y])
      BY <2>2, CheckpointAssumption DEF IsInCheckpointZone
    <2>5. SpendsOnce(y)
      BY <2>1, Zenon DEF EveryBlockSpendsOnce
    <2> QED BY <2>3, <2>4, <2>5, Zenon DEF SpendsOnce
  <1>8. ASSUME NEW t \in P, Hits(t) # {} PROVE Spent(t)
    <2>1. PICK y \in Hits(t) : Height[y] <= i
      BY <1>7, <1>8, Zenon
    <2>2. ~(\A b \in blocks[t] : i < Height[b])
      BY <1>1, <2>1
    <2>3. t \in SegmentIds /\ parent \in [SegmentIds -> SegmentIds \cup {None}]
      BY <1>1, Zenon
    <2> QED BY <1>8, <2>1, <2>2, <2>3, CheckIfSpentUnfold, Zenon
  <1>9. ASSUME NEW t \in P, Height[u] < Height[t], Spent(parent[t]) PROVE Spent(t)
    <2>1. CASE Hits(t) # {}
      BY <1>8, <2>1, Zenon
    <2>2. CASE Hits(t) = {}
      <3>1. t # Root /\ t \in storage
        BY <1>1, <1>2, <1>9, BlockAssumption
      <3>2. parent[t] # None
        BY <1>1, <3>1, PointerAssumption, Zenon DEF SegmentsAreLinked
      <3>3. t \in SegmentIds /\ parent \in [SegmentIds -> SegmentIds \cup {None}]
        BY <1>1, Zenon
      <3> QED BY <1>9, <2>2, <3>2, <3>3, CheckIfSpentUnfold, Zenon
    <2> QED BY <2>1, <2>2, Zenon
  <1>10. ASSUME NEW t \in P, Height[u] < Height[t]
         PROVE  parent[t] \in P /\ Height[u] <= Height[parent[t]] /\ Height[parent[t]] < Height[t]
    <2> DEFINE p == parent[t]
    <2>1. t # Root /\ t \in storage /\ u \in Blocks /\ t \in Blocks
      BY <1>1, <1>2, <1>10, BlockAssumption
    <2>2. p \in P /\ Prev[t] = TopBlock(p) /\ p \in Blocks
      BY <1>1, <2>1, Zenon DEF PathIsSound, SegmentsAreLinked
    <2>3. SegmentIsChain(p) /\ TopBlock(p) \in blocks[p]
      BY <1>4, <2>2, TopBlockIsHighest, Zenon DEF SegmentIsChain
    <2>4. Height[t] = Height[TopBlock(p)] + 1 /\ TopBlock(p) \in Blocks
      BY <1>1, <2>1, <2>2, <2>3, BlockAssumption, Zenon
    <2>5. Height[p] <= Height[TopBlock(p)]
      BY <2>3, Zenon DEF SegmentIsChain
    <2>6. Height[u] \in Nat /\ Height[t] \in Nat /\ Height[p] \in Nat /\ Height[TopBlock(p)] \in Nat
      BY <1>1, <2>1, <2>2, <2>4, Zenon
    <2>7. Height[u] <= Height[p]
      <3> SUFFICES ASSUME Height[p] < Height[u] PROVE FALSE
        BY <2>6
      <3>1. Height[u] \in Height[p] .. Height[TopBlock(p)]
        BY <1>10, <2>4, <2>6
      <3>2. PICK c \in blocks[p] : Height[c] = Height[u]
        BY <2>3, <3>1, Zenon DEF SegmentIsChain
      <3>3. u \in blocks[u]
        BY <1>4, <1>2, Zenon DEF SegmentIsChain
      <3>4. c = u
        BY <1>5, <1>2, <2>2, <3>2, <3>3, Zenon
      <3>5. p = u
        BY <1>6, <1>2, <2>2, <3>2, <3>3, <3>4, Zenon
      <3> QED BY <2>6, <3>5
    <2> QED BY <2>2, <2>4, <2>5, <2>6, <2>7
  <1> DEFINE Bad == {t \in P : Height[u] <= Height[t] /\ ~Spent(t)}
             H == {Height[t] : t \in Bad}
  <1> HIDE DEF P, Spent, Hits
  <1>11. Bad = {}
    <2> SUFFICES ASSUME Bad # {} PROVE FALSE
      BY Zenon
    <2>1. PICK t \in Bad : \A v \in Bad : Height[t] <= Height[v]
      <3>1. H \in SUBSET Nat /\ H # {}
        BY <1>1, Zenon
      <3>2. PICK h \in H : \A y \in H : h <= y
        <4> HIDE DEF H
        <4> QED BY <3>1, LeastNatural, Zenon
      <3> QED BY <3>2, Zenon
    <2>2. t \in P /\ u \in P /\ t \in Blocks /\ u \in Blocks /\ Height[u] <= Height[t] /\ ~Spent(t)
      BY <1>1, <1>2, Zenon
    <2>3. CASE t = u
      <3>1. x \in Hits(u)
        BY <1>2, Zenon DEF Hits
      <3> QED BY <1>8, <2>2, <2>3, <3>1, Zenon
    <2>4. CASE t # u
      <3>1. t \in blocks[t] /\ u \in blocks[u]
        BY <1>4, <2>2, Zenon DEF SegmentIsChain
      <3>2. Height[u] # Height[t]
        BY <1>5, <2>2, <2>4, <3>1, Zenon
      <3>3. Height[u] < Height[t]
        BY <1>1, <2>2, <3>2
      <3>4. parent[t] \in P /\ Height[u] <= Height[parent[t]] /\ Height[parent[t]] < Height[t]
        BY <1>10, <2>2, <3>3, Zenon
      <3>5. ~Spent(parent[t])
        BY <1>9, <2>2, <3>3, Zenon
      <3>6. Height[parent[t]] \in Nat /\ Height[t] \in Nat
        BY <1>1, <2>2, <3>4, Zenon
      <3> QED BY <2>1, <3>4, <3>5, <3>6
    <2> QED BY <2>3, <2>4, Zenon
  <1>12. Height[u] <= Height[s]
    <2>1. CASE u = s
      BY <1>1, <1>2, <2>1
    <2>2. CASE u # s
      <3>1. u \in blocks[u] /\ Height[u] < Height[s]
        BY <1>1, <1>2, <1>4, <2>2, Zenon DEF PathIsSound, SegmentIsChain, P
      <3> QED BY <1>1, <1>2, <3>1
    <2> QED BY <2>1, <2>2, Zenon
  <1> QED BY <1>1, <1>11, <1>12, Zenon DEF Spent

\* What addBlock accepts spends nothing that its chain has spent.
LEMMA AcceptedSpendsOnce ==
    ASSUME TypeOK, SegmentsAreLinked, EveryBlockSpendsOnce,
           NEW b \in Blocks \ {Genesis}, NEW s \in SegmentIds, Accepts(b, s)
    PROVE  SpendsOnce(b)
  <1> SUFFICES ASSUME ~IsInCheckpointZone(Height[b]), NEW x \in ChainTo[Prev[b]],
                      NEW k \in KeyImagesOf[x], k \in KeyImagesOf[b]
               PROVE  FALSE
    BY Zenon DEF SpendsOnce
  <1>1. s \in storage /\ Prev[b] \in blocks[s] /\ ~CheckIfSpent(s, k, Height[Prev[b]])
    BY Zenon DEF Accepts
  <1>2. Prev[b] \in Blocks /\ Height[Prev[b]] \in Nat /\ Height[b] = Height[Prev[b]] + 1
    BY BlockAssumption, Zenon
  <1>3. Prev[b] \in SegmentChain(s)
    <2>1. s \in PathFrom(s, parent)
      BY <1>1, PathsAreSound, Zenon DEF PathIsSound
    <2> QED BY <1>1, <2>1, Zenon DEF SegmentChain
  <1>4. x \in SegmentChain(s) /\ Height[x] <= Height[Prev[b]]
    BY <1>1, <1>2, <1>3, SegmentChainIsChain, ClosedHoldsChain, ChainToHeights, Zenon
  <1> QED BY <1>1, <1>2, <1>4, CheckIfSpentFinds, Zenon

\* The blocks that addBlock leaves in the segments: those that were there and
\* the one it accepts.
LEMMA AddBlockAddsOne ==
    ASSUME TypeOK, TreeIsConsistent, NEW b \in Blocks \ {Genesis}, NEW s \in SegmentIds,
           \/ AddToMain(b, s) \/ AddToAlternative(b, s) \/ SwitchMainChain(b, s)
           \/ AddBesideChildren(b, s) \/ ForkInside(b, s) \/ ForkAssertFails(b, s)
    PROVE  /\ Accepts(b, s)
           /\ \A t \in SegmentIds : \A c \in blocks'[t] :
                 c = b \/ \E u \in SegmentIds : c \in blocks[u]
  <1> USE DEF SegmentIds
  <1>1. blocks \in [Blocks -> SUBSET Blocks]
    BY Zenon DEF TypeOK
  <1>2. CASE AddToMain(b, s) \/ AddToAlternative(b, s) \/ SwitchMainChain(b, s)
    <2>1. PushOnLeaf(b, s)
      BY <1>2, Zenon DEF AddToMain, AddToAlternative, SwitchMainChain
    <2> QED BY <1>1, <2>1, Zenon DEF PushOnLeaf
  <1>3. CASE AddBesideChildren(b, s)
    BY <1>1, <1>3, Zenon DEF AddBesideChildren
  <1>4. CASE ForkInside(b, s)
    <2> DEFINE upper == CHOOSE c \in blocks[s] : Height[c] = Height[Prev[b]] + 1
    <2>1. Accepts(b, s) /\ blocks' = [blocks EXCEPT ![s] = Lower(b, s), ![upper] = Upper(b, s),
                                                    ![b] = {b}]
      BY <1>4, Zenon DEF ForkInside
    <2>2. Lower(b, s) \subseteq blocks[s] /\ Upper(b, s) \subseteq blocks[s]
      BY Zenon DEF Lower, Upper
    <2> HIDE DEF upper
    <2> QED BY <1>1, <2>1, <2>2, Zenon
  <1>5. CASE ForkAssertFails(b, s)
    BY <1>1, <1>5, Zenon DEF ForkAssertFails, Lower
  <1> QED BY <1>2, <1>3, <1>4, <1>5, Zenon

\* Every step keeps the invariant: only addBlock brings a block in.
LEMMA NextKeepsSpendsOnce ==
    ASSUME TypeOK, TreeIsConsistent, EveryBlockSpendsOnce, [Next]_chainVars
    PROVE  EveryBlockSpendsOnce'
  <1> USE DEF SegmentIds, Root
  <1>1. blocks \in [Blocks -> SUBSET Blocks] /\ Genesis \in Blocks
    BY BlockAssumption, Zenon DEF TypeOK
  <1>2. ASSUME \A t \in Blocks : \A c \in blocks'[t] : \E u \in Blocks : c \in blocks[u]
        PROVE  EveryBlockSpendsOnce'
    BY <1>2, Zenon DEF EveryBlockSpendsOnce
  <1>3. CASE AddBlock
    <2>1. PICK b \in Blocks \ {Genesis}, s \in Blocks :
              \/ AddToMain(b, s) \/ AddToAlternative(b, s) \/ SwitchMainChain(b, s)
              \/ AddBesideChildren(b, s) \/ ForkInside(b, s) \/ ForkAssertFails(b, s)
      BY <1>3, Zenon DEF AddBlock
    <2>2. /\ Accepts(b, s)
          /\ \A t \in Blocks : \A c \in blocks'[t] : c = b \/ \E u \in Blocks : c \in blocks[u]
      BY <2>1, AddBlockAddsOne, Zenon
    <2>3. SegmentsAreLinked
      BY <2>2, Zenon DEF Accepts, TreeIsConsistent
    <2>4. SpendsOnce(b)
      BY <2>2, <2>3, AcceptedSpendsOnce, Zenon
    <2> QED BY <2>2, <2>4, Zenon DEF EveryBlockSpendsOnce
  <1>4. CASE DeleteLeaf
    BY <1>1, <1>2, <1>4, Zenon DEF DeleteLeaf
  <1>5. CASE MergeBlock
    <2>1. MainChainBlocks \subseteq UNION {blocks[t] : t \in Blocks}
      BY Zenon DEF MainChainBlocks, PathFrom
    <2> QED BY <1>1, <1>2, <1>5, <2>1 DEF MergeBlock
  <1>6. CASE FinishSave \/ Crash
    BY <1>1, <1>2, <1>6, Zenon DEF FinishSave, Crash, OnlyRootIsLeft
  <1>7. CASE Save \/ DeleteLeafFails \/ MergeAssertFails \/ Load \/ UNCHANGED chainVars
    BY <1>2, <1>7, Zenon DEF Save, DeleteLeafFails, MergeAssertFails, Load, chainVars
  <1> QED BY <1>3, <1>4, <1>5, <1>6, <1>7, Zenon DEF Next, SaveStep

\* No chain of the tree, main or alternative, spends a key image twice above the
\* checkpoints, although a segment that knows a spend above the index asked for
\* answers without asking its parent.
THEOREM NoChainSpendsTwice == Spec => []NoDoubleSpend
  <1>1. Init => EveryBlockSpendsOnce
    BY DEF Init, EveryBlockSpendsOnce, SpendsOnce, SegmentIds
  <1>2. ASSUME TypeOK, TreeIsConsistent, EveryBlockSpendsOnce PROVE NoDoubleSpend
    <2> SUFFICES ASSUME phase = "running", NEW leaf \in Leaves,
                        NEW b \in SegmentChain(leaf), NEW c \in SegmentChain(leaf),
                        Height[b] < Height[c], ~IsInCheckpointZone(Height[c])
                 PROVE  KeyImagesOf[b] \cap KeyImagesOf[c] = {}
      BY Zenon DEF NoDoubleSpend, SegmentChain
    <2>1. SegmentsAreLinked /\ leaf \in storage
      BY <1>2, Zenon DEF TreeIsConsistent, LeavesAreChildless, Leaves
    <2>2. c # Genesis /\ b \in ChainTo[Prev[c]]
      BY <1>2, <2>1, BelowOnSegmentChain, Zenon
    <2>3. SpendsOnce(c)
      BY <1>2, Zenon DEF EveryBlockSpendsOnce, SegmentChain, PathFrom
    <2> QED BY <2>2, <2>3, Zenon DEF SpendsOnce
  <1> QED BY <1>1, <1>2, NextKeepsSpendsOnce, TreeStaysConsistent, PTL DEF Spec
-----------------------------------------------------------------------------
(* The segment tree implements the fork choice *)

\* The work of a chain is defined for every tree of blocks.
LEMMA WorkUnfold ==
    /\ Work \in [Blocks -> Nat]
    /\ Work[Genesis] = 1
    /\ \A b \in Blocks \ {Genesis} : Work[b] = Work[Prev[b]] + NextDifficulty[Prev[b]]
  <1> DEFINE d(b) == NextDifficulty[Prev[b]]
             Pairs == Blocks \X Nat
             Closed(Q) == /\ <<Genesis, 1>> \in Q
                          /\ \A b \in Blocks \ {Genesis}, n \in Nat :
                                <<Prev[b], n>> \in Q => <<b, n + d(b)>> \in Q
             R(b, n) == \A Q \in SUBSET Pairs : Closed(Q) => <<b, n>> \in Q
             Has(b) == \E n \in Nat : R(b, n) /\ \A m \in Nat : R(b, m) => m = n
             Good == {b \in Blocks : Has(b)}
             f == [b \in Blocks |-> CHOOSE n \in Nat : R(b, n)]
             Step(g) == [b \in Blocks |->
                            IF b = Genesis THEN 1 ELSE g[Prev[b]] + NextDifficulty[Prev[b]]]
  <1>1. Genesis \in Blocks /\ \A b \in Blocks \ {Genesis} : Prev[b] \in Blocks /\ d(b) \in Nat
    BY BlockAssumption, Zenon
  <1>2. R(Genesis, 1) /\ \A m \in Nat : R(Genesis, m) => m = 1
    <2>1. R(Genesis, 1)
      BY Zenon
    <2>2. ASSUME NEW m \in Nat, R(Genesis, m), m # 1 PROVE FALSE
      <3> DEFINE Q == Pairs \ {<<Genesis, m>>}
      <3>1. <<Genesis, 1>> \in Q
        BY <1>1, <2>2, Zenon
      <3>2. ASSUME NEW b \in Blocks \ {Genesis}, NEW n \in Nat PROVE <<b, n + d(b)>> \in Q
        <4>1. n + d(b) \in Nat
          BY <1>1
        <4> HIDE DEF d
        <4> QED BY <4>1, Zenon
      <3>3. Closed(Q) /\ Q \in SUBSET Pairs
        BY <3>1, <3>2, Zenon
      <3> QED BY <2>2, <3>3, Zenon
    <2> QED BY <2>1, <2>2, Zenon
  <1>3. ASSUME NEW b \in Blocks \ {Genesis}, NEW n \in Nat, R(Prev[b], n),
               \A m \in Nat : R(Prev[b], m) => m = n
        PROVE  R(b, n + d(b)) /\ \A m \in Nat : R(b, m) => m = n + d(b)
    <2>1. n + d(b) \in Nat /\ Prev[b] \in Blocks
      BY <1>1
    <2>2. R(b, n + d(b))
      BY <1>3, Zenon
    <2>3. ASSUME NEW m \in Nat, R(b, m), m # n + d(b) PROVE FALSE
      <3> DEFINE Q == {p \in Pairs : R(p[1], p[2]) /\ p # <<b, m>>}
      <3> HIDE DEF R
      <3>1. <<Genesis, 1>> \in Q
        BY <1>1, <1>2, Zenon
      <3>2. ASSUME NEW c \in Blocks \ {Genesis}, NEW j \in Nat, <<Prev[c], j>> \in Q
            PROVE  <<c, j + d(c)>> \in Q
        <4>1. R(Prev[c], j)
          BY <3>2, Zenon
        <4>2. R(c, j + d(c))
          BY <4>1, Zenon DEF R
        <4>3. c = b => j = n
          BY <1>3, <4>1, Zenon
        <4>4. j + d(c) \in Nat
          BY <1>1
        <4>5. <<c, j + d(c)>> # <<b, m>>
          BY <2>3, <4>3, Zenon
        <4> HIDE DEF d
        <4> QED BY <4>2, <4>4, <4>5, Zenon
      <3>3. Closed(Q) /\ Q \in SUBSET Pairs
        BY <3>1, <3>2, Zenon
      <3>4. <<b, m>> \in Q
        <4> HIDE DEF Q
        <4> QED BY <2>3, <3>3, Zenon DEF R
      <3> QED BY <3>4, Zenon
    <2> QED BY <2>2, <2>3, Zenon
  <1>4. ASSUME NEW b \in Blocks \ {Genesis}, Prev[b] \in Good PROVE b \in Good
    <2> HIDE DEF R
    <2>1. PICK n \in Nat : R(Prev[b], n) /\ \A m \in Nat : R(Prev[b], m) => m = n
      BY <1>4, Zenon
    <2>2. n + d(b) \in Nat
      BY <1>1
    <2> HIDE DEF d
    <2> QED BY <1>3, <2>1, <2>2, Zenon
  <1>5. Blocks \subseteq Good
    <2>1. IsClosed(Blocks) /\ Genesis \in Good
      BY <1>1, <1>2, Zenon DEF IsClosed
    <2> HIDE DEF Good
    <2> QED BY <1>4, <2>1, BlockInduction, Zenon
  <1> HIDE DEF R
  <1>6. \A b \in Blocks : f[b] \in Nat /\ R(b, f[b]) /\ \A m \in Nat : R(b, m) => m = f[b]
    BY <1>5, Zenon
  <1>7. f[Genesis] = 1
    BY <1>1, <1>2, <1>6, Zenon
  <1>8. ASSUME NEW b \in Blocks \ {Genesis} PROVE f[b] = f[Prev[b]] + NextDifficulty[Prev[b]]
    <2> HIDE DEF f
    <2>1. Prev[b] \in Blocks /\ f[Prev[b]] + d(b) \in Nat
      BY <1>1, <1>6
    <2>2. R(b, f[Prev[b]] + d(b))
      BY <1>3, <1>6, <2>1, Zenon
    <2> QED BY <1>6, <2>1, <2>2, Zenon
  <1>9. f = Step(f)
    <2>1. f = [b \in Blocks |-> f[b]]
      OBVIOUS
    <2> HIDE DEF f
    <2> QED BY <1>7, <1>8, <2>1, Zenon
  <1> HIDE DEF f
  <1>10. Work = CHOOSE g : g = Step(g)
    BY Zenon DEF Work
  <1>11. Work = Step(Work)
    BY <1>9, <1>10, Zenon
  <1> DEFINE Nats == {b \in Blocks : Work[b] \in Nat}
  <1>12. /\ Work[Genesis] = 1
         /\ \A b \in Blocks \ {Genesis} : Work[b] = Work[Prev[b]] + NextDifficulty[Prev[b]]
    BY <1>1, <1>11, Zenon
  <1>13. Blocks \subseteq Nats
    <2>1. IsClosed(Blocks) /\ Genesis \in Nats
      BY <1>1, <1>12 DEF IsClosed
    <2>2. \A b \in Blocks \ {Genesis} : Prev[b] \in Nats => b \in Nats
      BY <1>1, <1>12
    <2> HIDE DEF Nats
    <2> QED BY <2>1, <2>2, BlockInduction, Zenon
  <1>14. Work \in [Blocks -> Nat]
    <2>1. Work = [b \in Blocks |-> Work[b]]
      BY <1>11, Zenon
    <2> QED BY <1>13, <2>1, Zenon
  <1> QED BY <1>12, <1>14, Zenon

\* The top of the main leaf is the top of the main chain.
TipIsOnTop ==
    /\ TopBlock(mainLeaf) \in MainChainBlocks
    /\ \A b \in MainChainBlocks : Height[b] <= Height[TopBlock(mainLeaf)]

\* What the refinement needs beside TreeIsConsistent: the genesis block counts
\* one, and merging does not move the tip.
RefinementInv ==
    /\ cumulativeDifficulty[Genesis] = 1
    /\ phase = "merging" => TipIsOnTop

\* Until the process ends, the main chain is the chain to the tip, and the
\* database holds a part of it.
LEMMA MainChainIsChainToTip ==
    ASSUME TypeOK, TreeIsConsistent, RefinementInv, phase \in {"running", "deleting", "merging"}
    PROVE  /\ TipIsOnTop
           /\ MainChainBlocks = ChainTo[TopBlock(mainLeaf)]
           /\ blocks[Root] \subseteq MainChainBlocks
  <1> USE DEF SegmentIds, Root
  <1>1. /\ TipIsOnTop /\ IsClosed(MainChainBlocks) /\ Root \in PathFrom(mainLeaf, parent)
        /\ \A b, c \in MainChainBlocks : Height[b] = Height[c] => b = c
    <2>1. CASE phase \in {"running", "deleting"}
      <3>1. SegmentsAreLinked /\ mainLeaf \in storage
        BY <2>1, Zenon DEF TreeIsConsistent, LeavesAreChildless
      <3>2. MainChainBlocks = SegmentChain(mainLeaf)
        BY Zenon DEF MainChainBlocks, SegmentChain
      <3>3. Root \in PathFrom(mainLeaf, parent)
        BY <3>1, PathsAreSound, Zenon DEF PathIsSound
      <3> QED BY <3>1, <3>2, <3>3, SegmentChainIsChain, Zenon DEF TipIsOnTop
    <2>2. CASE phase = "merging"
      <3>1. MergeIsSafe /\ TipIsOnTop
        BY <2>2, Zenon DEF TreeIsConsistent, RefinementInv
      <3>2. MainChainBlocks \in SUBSET Blocks
        BY DEF MainChainBlocks, PathFrom, TypeOK
      <3> QED BY <3>1, <3>2, Zenon DEF MergeIsSafe, IsClosed
    <2> QED BY <2>1, <2>2, Zenon
  <1>2. blocks[Root] \subseteq MainChainBlocks
    BY <1>1, Zenon DEF MainChainBlocks
  <1>3. ChainTo[TopBlock(mainLeaf)] = {c \in MainChainBlocks : Height[c] <= Height[TopBlock(mainLeaf)]}
    BY <1>1, ChainInClosedSet, Zenon DEF TipIsOnTop
  <1> QED BY <1>1, <1>2, <1>3, Zenon DEF TipIsOnTop

\* The database is the chain to its top block.
LEMMA RootIsChainToTop ==
    ASSUME TypeOK, SegmentIsChain(Root)
    PROVE  /\ TopBlock(Root) \in blocks[Root] /\ TopBlock(Root) \in Blocks
           /\ ChainTo[TopBlock(Root)] = blocks[Root]
           /\ TopBlock(Root) \in ChainTo[TopBlock(Root)]
  <1> USE DEF SegmentIds, Root
  <1>1. TopBlock(Root) \in blocks[Root] /\ \A c \in blocks[Root] : Height[c] <= Height[TopBlock(Root)]
    BY TopBlockIsHighest, Zenon DEF SegmentIsChain
  <1>2. blocks[Root] \in SUBSET Blocks
    BY BlockAssumption, Zenon DEF TypeOK
  <1>3. IsClosed(blocks[Root])
    BY <1>2, Zenon DEF IsClosed, SegmentIsChain
  <1>4. ChainTo[TopBlock(Root)] = {c \in blocks[Root] : Height[c] <= Height[TopBlock(Root)]}
    BY <1>1, <1>3, ChainInClosedSet DEF SegmentIsChain
  <1> QED BY <1>1, <1>2, <1>4, Zenon

\* While the daemon runs, the difficulty stored with a block is the work of its
\* chain.
DifficultyIsWork == phase = "running" => \A b \in Known : cumulativeDifficulty[b] = Work[b]

\* What pushBlock has added up along the segments is the work of the chain.
LEMMA StoredDifficultyIsWork ==
    TypeOK /\ TreeIsConsistent /\ RefinementInv => DifficultyIsWork
  <1> SUFFICES ASSUME TypeOK, TreeIsConsistent, RefinementInv, phase = "running"
               PROVE  \A b \in Known : cumulativeDifficulty[b] = Work[b]
    BY Zenon DEF DifficultyIsWork
  <1> DEFINE Good == {c \in Known : cumulativeDifficulty[c] = Work[c]}
  <1>1. SegmentsAreLinked /\ \A c \in Known : AddsUp(c)
    BY Zenon DEF TreeIsConsistent
  <1>2. IsClosed(Known)
    <2>1. Known \in SUBSET Blocks
      BY DEF Known, TypeOK
    <2> QED BY <1>1, <2>1, KnownIsClosed, Zenon DEF IsClosed
  <1>3. Genesis \in Known => Genesis \in Good
    BY WorkUnfold, Zenon DEF RefinementInv
  <1>4. \A c \in Known \ {Genesis} : Prev[c] \in Good => c \in Good
    BY <1>1, <1>2, WorkUnfold, Zenon DEF AddsUp, IsClosed
  <1>5. Known \subseteq Good
    <2> HIDE DEF Good
    <2> QED BY <1>2, <1>3, <1>4, BlockInduction, Zenon
  <1> QED BY <1>5, Zenon

\* addBlock stores the difficulty of the new block and goes on running, or it
\* stops at the assert with no difficulty stored.
LEMMA AddBlockStores ==
    ASSUME AddBlock
    PROVE  \E b \in Blocks \ {Genesis} :
              \/ StoreDifficulty(b) /\ phase = "running" /\ phase' = phase
              \/ /\ \E s \in SegmentIds : ForkAssertFails(b, s)
                 /\ UNCHANGED cumulativeDifficulty /\ phase' = "assertFailed"
  <1> DEFINE Stored(b) == StoreDifficulty(b) /\ phase = "running" /\ phase' = phase
  <1>1. PICK b \in Blocks \ {Genesis}, s \in SegmentIds :
           \/ AddToMain(b, s) \/ AddToAlternative(b, s) \/ SwitchMainChain(b, s)
           \/ AddBesideChildren(b, s) \/ ForkInside(b, s) \/ ForkAssertFails(b, s)
    BY Zenon DEF AddBlock
  <1>2. Accepts(b, s) => phase = "running"
    BY Zenon DEF Accepts
  <1>3. ASSUME PushOnLeaf(b, s) PROVE Stored(b)
    BY <1>2, <1>3, Zenon DEF PushOnLeaf
  <1>4. ASSUME AddToMain(b, s) \/ AddToAlternative(b, s) \/ SwitchMainChain(b, s)
        PROVE  Stored(b)
    <2> HIDE DEF Stored
    <2> QED BY <1>3, <1>4, Zenon DEF AddToMain, AddToAlternative, SwitchMainChain
  <1>5. ASSUME AddBesideChildren(b, s) PROVE Stored(b)
    BY <1>2, <1>5, Zenon DEF AddBesideChildren
  <1>6. ASSUME ForkInside(b, s) PROVE Stored(b)
    BY <1>2, <1>6, Zenon DEF ForkInside
  <1>7. ASSUME ForkAssertFails(b, s)
        PROVE  UNCHANGED cumulativeDifficulty /\ phase' = "assertFailed"
    BY <1>7, Zenon DEF ForkAssertFails
  <1>8. CASE ForkAssertFails(b, s)
    BY <1>7, <1>8, Zenon
  <1>9. CASE ~ForkAssertFails(b, s)
    <2>1. Stored(b)
      <3> HIDE DEF Stored
      <3> QED BY <1>1, <1>4, <1>5, <1>6, <1>9, Zenon
    <2> QED BY <2>1, Zenon
  <1> QED BY <1>8, <1>9, Zenon

\* Every step keeps what the refinement needs.
LEMMA NextKeepsRefinementInv ==
    ASSUME TypeOK, TreeIsConsistent, RefinementInv, [Next]_chainVars
    PROVE  RefinementInv'
  <1> USE DEF SegmentIds, Root
  <1>1. Genesis \in Blocks /\ Genesis \in blocks[Root] /\ cumulativeDifficulty[Genesis] = 1
        /\ cumulativeDifficulty \in [Blocks -> Nat]
    BY BlockAssumption, Zenon DEF TreeIsConsistent, SegmentIsChain, RefinementInv, TypeOK
  <1>2. CASE AddBlock
    <2>1. PICK b \in Blocks \ {Genesis} :
             /\ StoreDifficulty(b) \/ UNCHANGED cumulativeDifficulty
             /\ phase' \in {"running", "assertFailed"}
      BY <1>2, AddBlockStores, Zenon
    <2>2. cumulativeDifficulty'[Genesis] = 1
      BY <1>1, <2>1, Zenon DEF StoreDifficulty
    <2>3. phase' # "merging"
      BY <2>1, Zenon
    <2> QED BY <2>2, <2>3, Zenon DEF RefinementInv
  <1>3. CASE MergeBlock
    <2>1. phase' = "merging" /\ UNCHANGED <<parent, mainLeaf, cumulativeDifficulty>>
          /\ phase \in {"deleting", "merging"}
      BY <1>3, Zenon DEF MergeBlock
    <2>2. PICK b \in MainChainBlocks :
             Height[b] = TopBlockIndex(Root) + 1 /\ blocks' = [blocks EXCEPT ![Root] = @ \cup {b}]
      BY <1>3, Zenon DEF MergeBlock, IsNextToMerge
    <2>3. TipIsOnTop /\ blocks[Root] \subseteq MainChainBlocks
      BY <2>1, MainChainIsChainToTip, Zenon
    <2>4. MainChainBlocks \in SUBSET Blocks /\ blocks \in [Blocks -> SUBSET Blocks]
          /\ mainLeaf \in Blocks
      BY DEF MainChainBlocks, PathFrom, TypeOK
    <2>5. mainLeaf # Root
      <3>1. Height[TopBlock(mainLeaf)] \in Nat /\ Height[b] <= Height[TopBlock(mainLeaf)]
        BY <2>3, <2>4, BlockAssumption, Zenon DEF TipIsOnTop
      <3> QED BY <2>2, <3>1 DEF TopBlockIndex
    <2>6. TopBlock(mainLeaf)' = TopBlock(mainLeaf)
      BY <2>1, <2>2, <2>4, <2>5, Zenon DEF TopBlock
    <2>7. MainChainBlocks' \subseteq MainChainBlocks /\ MainChainBlocks \subseteq MainChainBlocks'
      <3> DEFINE P == PathFrom(mainLeaf, parent)
      <3>1. P \in SUBSET Blocks /\ PathFrom(mainLeaf, parent)' = P
        BY <2>1, Zenon DEF PathFrom
      <3>2. \A c : c \in MainChainBlocks' <=> \E t \in P : c \in blocks'[t]
        BY <3>1, Zenon DEF MainChainBlocks
      <3>3. \A c : c \in MainChainBlocks <=> \E t \in P : c \in blocks[t]
        BY Zenon DEF MainChainBlocks
      <3> HIDE DEF P
      <3>4. \A t \in P : blocks[t] \subseteq blocks'[t] /\ blocks'[t] \subseteq blocks[t] \cup {b}
        BY <2>2, <2>4, <3>1, Zenon
      <3> QED BY <2>2, <3>2, <3>3, <3>4
    <2> QED BY <1>1, <2>1, <2>3, <2>6, <2>7, Zenon DEF RefinementInv, TipIsOnTop
  <1>4. CASE FinishSave \/ Crash
    BY <1>1, <1>4, Zenon DEF FinishSave, Crash, OnlyRootIsLeft, RefinementInv
  <1>5. CASE Save \/ DeleteLeaf \/ DeleteLeafFails \/ MergeAssertFails \/ Load
    BY <1>1, <1>5, Zenon DEF Save, DeleteLeaf, DeleteLeafFails, MergeAssertFails, Load,
       RefinementInv
  <1>6. CASE UNCHANGED chainVars
    <2>1. MainChainBlocks' = MainChainBlocks /\ TopBlock(mainLeaf)' = TopBlock(mainLeaf)
      BY <1>6, Zenon DEF chainVars, MainChainBlocks, TopBlock
    <2> QED BY <1>6, <2>1, Zenon DEF chainVars, RefinementInv, TipIsOnTop
  <1> QED BY <1>2, <1>3, <1>4, <1>5, <1>6, Zenon DEF Next, SaveStep

\* addBlock that stores a block is Receive.
LEMMA ReceiveRefines ==
    ASSUME TypeOK, TreeIsConsistent, TreeIsConsistent', DifficultyIsWork, DifficultyIsWork',
           NEW b \in Blocks \ {Genesis}, BlockIsReceived(b)
    PROVE  Abstract!Receive(b)
  <1> DEFINE tip == TopBlock(mainLeaf)
  <1>1. phase = "running" /\ phase' = "running" /\ b \notin Known /\ Prev[b] \in Known
        /\ Known' = Known \cup {b}
    BY Zenon DEF BlockIsReceived
  <1>2. /\ AbstractKnown = Known /\ AbstractTip = tip
        /\ AbstractKnown' = Known' /\ AbstractTip' = tip'
    BY <1>1, Zenon DEF AbstractKnown, AbstractTip
  <1>3. tip \in Known
    <2>1. SegmentsAreLinked /\ mainLeaf \in storage
      BY <1>1, Zenon DEF TreeIsConsistent, LeavesAreChildless
    <2> QED BY <2>1, TopBlockIsHighest DEF SegmentsAreLinked, SegmentIsChain, Known
  <1>4. cumulativeDifficulty[tip] = Work[tip]
    BY <1>1, <1>3, Zenon DEF DifficultyIsWork
  <1>5. \A c \in Known' : cumulativeDifficulty'[c] = Work[c]
    BY <1>1, Zenon DEF DifficultyIsWork
  <1>6. Work[b] \in Nat /\ Work[tip] \in Nat
    <2>1. Known \in SUBSET Blocks
      BY DEF Known, TypeOK
    <2> QED BY <1>3, <2>1, WorkUnfold, Zenon
  <1>7. tip' = IF Work[b] > Work[tip] THEN b ELSE tip
    <2>1. CASE tip' = tip
      <3>1. cumulativeDifficulty'[b] <= cumulativeDifficulty'[tip]
        BY <1>1, <2>1, Zenon DEF TreeIsConsistent, MainChainIsHeaviest
      <3>2. Work[b] <= Work[tip]
        BY <1>1, <1>3, <1>5, <3>1, Zenon
      <3>3. ~(Work[b] > Work[tip])
        <4> HIDE DEF tip
        <4> QED BY <1>6, <3>2
      <3> QED BY <2>1, <3>3, Zenon
    <2>2. CASE tip' = b /\ cumulativeDifficulty'[b] > cumulativeDifficulty[tip]
      BY <1>1, <1>4, <1>5, <2>2, Zenon
    <2> QED BY <2>1, <2>2, Zenon DEF BlockIsReceived
  <1> QED BY <1>1, <1>2, <1>7, Zenon DEF Abstract!Receive

\* A step that leaves a part of the main chain in the database, and nothing
\* else, is Lose: a failed assert, a crash, or the end of save().
LEMMA LoseRefines ==
    ASSUME TypeOK, TreeIsConsistent, RefinementInv, TypeOK', SegmentIsChain(Root)',
           blocks'[Root] \subseteq blocks[Root],
           phase' \in {"stopped", "assertFailed", "nullParent"}
    PROVE  Abstract!Lose
  <1>1. phase' # "running" /\ AbstractTip' = TopBlock(Root)' /\ AbstractKnown' = ChainTo[AbstractTip']
    <2>1. phase' \notin {"running", "deleting", "merging"}
      BY Zenon
    <2> QED BY <2>1, Zenon DEF AbstractTip, AbstractKnown
  <1>2. TopBlock(Root)' \in blocks'[Root]
    BY TopBlockIsHighest, Zenon DEF SegmentIsChain, TopBlock, Highest
  <1>3. blocks[Root] \subseteq ChainTo[AbstractTip]
    <2>1. CASE phase \in {"running", "deleting", "merging"}
      BY <2>1, MainChainIsChainToTip, Zenon DEF AbstractTip
    <2>2. CASE phase \notin {"running", "deleting", "merging"}
      BY <2>2, RootIsChainToTop, Zenon DEF AbstractTip, TreeIsConsistent
    <2> QED BY <2>1, <2>2, Zenon
  <1> QED BY <1>1, <1>2, <1>3, Zenon DEF Abstract!Lose

\* Every step of the segment tree is a step of the fork choice, or none.
LEMMA NextRefinesForkChoice ==
    ASSUME TypeOK, TreeIsConsistent, RefinementInv, DifficultyIsWork,
           TypeOK', TreeIsConsistent', DifficultyIsWork', [Next]_chainVars
    PROVE  [Abstract!Next]_(Abstract!forkVars)
  <1> USE DEF SegmentIds, Root
  <1>1. SegmentIsChain(Root)' /\ Genesis \in Blocks /\ blocks \in [Blocks -> SUBSET Blocks]
    BY BlockAssumption, Zenon DEF TreeIsConsistent, TypeOK
  <1>2. CASE AddBlock /\ phase' # "assertFailed"
    <2>1. PICK b \in Blocks \ {Genesis} : BlockIsReceived(b)
      BY <1>2, AddBlockReceives, Zenon
    <2>2. Abstract!Receive(b)
      BY <2>1, ReceiveRefines, Zenon
    <2> QED BY <2>2, Zenon DEF Abstract!Next
  <1>3. CASE AddBlock /\ phase' = "assertFailed"
    <2>1. PICK b \in Blocks, s \in Blocks : ForkAssertFails(b, s)
      BY <1>3, AddBlockStores, Zenon
    <2>2. blocks'[Root] \subseteq blocks[Root]
      BY <1>1, <2>1, Zenon DEF ForkAssertFails, Lower
    <2> QED BY <1>1, <1>3, <2>2, LoseRefines, Zenon DEF Abstract!Next
  <1>4. CASE Save
    <2>1. /\ phase = "running" /\ phase' = "deleting"
          /\ UNCHANGED <<blocks, mainLeaf>>
      BY <1>4, Zenon DEF Save
    <2>2. AbstractTip' = AbstractTip /\ AbstractKnown' = ChainTo[AbstractTip']
      BY <2>1, Zenon DEF AbstractTip, AbstractKnown, TopBlock
    <2> QED BY <2>1, <2>2, Zenon DEF Abstract!Next, Abstract!Shutdown
  <1>5. CASE DeleteLeaf
    <2>1. PICK leaf \in altLeaves : blocks' = [blocks EXCEPT ![leaf] = {}]
      BY <1>5, Zenon DEF DeleteLeaf
    <2>2. phase = "deleting" /\ phase' = phase /\ mainLeaf' = mainLeaf
      BY <1>5, Zenon DEF DeleteLeaf
    <2>3. leaf # mainLeaf /\ mainLeaf \in Blocks
      BY <2>2 DEF TreeIsConsistent, LeavesAreChildless, TypeOK
    <2>4. blocks'[mainLeaf] = blocks[mainLeaf]
      BY <1>1, <2>1, <2>3, Zenon
    <2>5. AbstractTip' = AbstractTip /\ AbstractKnown' = AbstractKnown
      BY <2>2, <2>4, Zenon DEF AbstractTip, AbstractKnown, TopBlock
    <2> QED BY <2>2, <2>5, Zenon DEF Abstract!forkVars
  <1>6. CASE MergeBlock
    <2>1. phase' = "merging" /\ phase \in {"deleting", "merging"} /\ mainLeaf' = mainLeaf
      BY <1>6, Zenon DEF MergeBlock
    <2>2. PICK b \in MainChainBlocks :
             Height[b] = TopBlockIndex(Root) + 1 /\ blocks' = [blocks EXCEPT ![Root] = @ \cup {b}]
      BY <1>6, Zenon DEF MergeBlock, IsNextToMerge
    <2>3. mainLeaf # Root
      <3>1. TipIsOnTop
        BY <2>1, MainChainIsChainToTip, Zenon
      <3>2. MainChainBlocks \in SUBSET Blocks
        BY <1>1, Zenon DEF MainChainBlocks, PathFrom
      <3>3. Height[TopBlock(mainLeaf)] \in Nat /\ Height[b] <= Height[TopBlock(mainLeaf)]
        BY <2>2, <3>1, <3>2, BlockAssumption, Zenon DEF TipIsOnTop
      <3> QED BY <2>2, <3>3 DEF TopBlockIndex
    <2>4. blocks'[mainLeaf] = blocks[mainLeaf]
      BY <1>1, <2>2, <2>3, Zenon DEF TypeOK
    <2>5. AbstractTip' = AbstractTip /\ AbstractKnown' = AbstractKnown
      BY <2>1, <2>4, Zenon DEF AbstractTip, AbstractKnown, TopBlock
    <2> QED BY <2>1, <2>5, Zenon DEF Abstract!forkVars
  <1>7. CASE DeleteLeafFails \/ MergeAssertFails \/ FinishSave \/ Crash
    <2>1. blocks'[Root] = blocks[Root] /\ phase' \in {"stopped", "assertFailed", "nullParent"}
      BY <1>1, <1>7, Zenon DEF DeleteLeafFails, MergeAssertFails, FinishSave, Crash,
         OnlyRootIsLeft
    <2> QED BY <1>1, <2>1, LoseRefines, Zenon DEF Abstract!Next
  <1>8. CASE Load
    <2>1. phase = "stopped" /\ phase' = "running" /\ OnlyRootExists
          /\ UNCHANGED <<storage, blocks, mainLeaf>>
      BY <1>8, Zenon DEF Load, TreeIsConsistent
    <2>2. AbstractTip = TopBlock(Root) /\ AbstractTip' = TopBlock(Root)
      BY <2>1, Zenon DEF AbstractTip, OnlyRootExists, TopBlock
    <2>3. AbstractKnown = ChainTo[TopBlock(Root)] /\ AbstractKnown' = blocks[Root]
      BY <2>1, <2>2, Zenon DEF AbstractKnown, Known, OnlyRootExists
    <2>4. ChainTo[TopBlock(Root)] = blocks[Root]
      BY RootIsChainToTop, Zenon DEF TreeIsConsistent
    <2> QED BY <2>1, <2>2, <2>3, <2>4, Zenon DEF Abstract!Next, Abstract!Boot
  <1>9. CASE UNCHANGED chainVars
    <2>1. AbstractTip' = AbstractTip /\ AbstractKnown' = AbstractKnown
      BY <1>9, Zenon DEF chainVars, AbstractTip, AbstractKnown, TopBlock, Known
    <2> QED BY <1>9, <2>1, Zenon DEF chainVars, Abstract!forkVars
  <1> QED BY <1>2, <1>3, <1>4, <1>5, <1>6, <1>7, <1>8, <1>9, Zenon DEF Next, SaveStep

\* The segment tree, its splits, switches, saves and crashes included, is the
\* fork choice: the main chain ends in the first block seen with the most work,
\* and the end of the process costs a suffix of the main chain at most.
THEOREM SegmentsImplementForkChoice == Spec => ImplementsForkChoice
  <1>1. Init => RefinementInv
    BY BlockAssumption, Zenon DEF Init, RefinementInv
  <1>2. ASSUME Init PROVE Abstract!Init
    <2>1. blocks[Root] = {Genesis} /\ Known = {Genesis} /\ phase = "running" /\ mainLeaf = Root
      BY <1>2, BlockAssumption, Zenon DEF Init, Known, SegmentIds, Root
    <2>2. TopBlock(mainLeaf) = Genesis
      BY <2>1, BlockAssumption, HighestIs DEF TopBlock
    <2> QED BY <2>1, <2>2, Zenon DEF Abstract!Init, AbstractKnown, AbstractTip
  <1>3. TypeOK /\ TreeIsConsistent /\ RefinementInv /\ [Next]_chainVars => RefinementInv'
    BY NextKeepsRefinementInv, Zenon
  <1>4. TypeOK /\ TreeIsConsistent /\ RefinementInv /\ DifficultyIsWork /\ DifficultyIsWork'
        /\ [Next]_chainVars => [Abstract!Next]_(Abstract!forkVars)
    BY NextKeepsConsistent, NextRefinesForkChoice, Zenon
  <1> QED BY <1>1, <1>2, <1>3, <1>4, TreeStaysConsistent, StoredDifficultyIsWork, PTL
          DEF Spec, ImplementsForkChoice, Abstract!Spec
=============================================================================
