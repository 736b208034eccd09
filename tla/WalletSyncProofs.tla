-------------------------- MODULE WalletSyncProofs --------------------------
(***************************************************************************)
(* The wallet holds the transactions of one chain, for any block tree, any *)
(* sizes of the lists and of the answers, and any number of saves, resets  *)
(* and crashes.                                                            *)
(*                                                                         *)
(* WalletIsOneChain says nothing of the blocks that wait in the store, nor *)
(* of the hashes the daemon is asked with.  The inductive invariant orders *)
(* all blocks the wallet has seen, newest first: the store, then the       *)
(* recent hashes.  Every block extends the chain of the one seen before    *)
(* it; and among RecentSize + 1 blocks that follow each other, an older    *)
(* one is on the chain of a newer one unless the daemon has left its       *)
(* branch.  So the first hash of a request that is in the main chain is on *)
(* the chain of the newest block, and the answer can be added to it.       *)
(***************************************************************************)
EXTENDS WalletSync, WellFoundedInduction, TLAPS

(* Where the theorem applies.  Every block is downloaded, and the daemon   *)
(* does not return to a branch that it left.  A heavier chain is not       *)
(* shorter: otherwise the daemon may be below the start height again, and  *)
(* its top block is stored as processed while the wallet holds blocks of   *)
(* another branch.  For a wallet that scans from height 0 there is one     *)
(* block above the genesis block: the genesis block is not taken for a     *)
(* fork (IsFork), and would leave the blocks of another branch in place.   *)
Regular ==
    /\ ~SkipEmpty /\ ~MayReturn
    /\ \A a, b \in Blocks : Work[a] > Work[b] => Height[a] >= Height[b]
    /\ 0 \in ScanHeights => \A a, b \in Blocks : Height[a] = 1 /\ Height[b] = 1 => a = b

\* The blocks the wallet has seen, newest first.
Seen(queue, recent) ==
    [i \in 1..Len(queue) + Len(recent) |->
       IF i <= Len(queue) THEN queue[Len(queue) - i + 1] ELSE recent[i - Len(queue)]]

\* A block the daemon had in its main chain when the wallet heard of it: top is
\* the daemon's top block, gone the blocks it has left.
IsMain(top, gone, b) == b \in ChainTo[top] \cup gone /\ Height[b] <= Height[top]

\* The blocks are on one chain, or the daemon has left the older one.
Near(gone, old, new) ==
    old \in gone \/ old \in ChainTo[new] \/ new \in ChainTo[old]

\* A block can follow another one: it is the first one to be scanned, or below
\* that, or extends the chain of the other one.
CanFollow(from, old, new) ==
    \/ new = old
    \/ Height[new] <= from /\ from # 0
    \/ new # Genesis /\ Prev[new] \in ChainTo[old]

IsOrdered(gone, from, seen) ==
    \A i, k \in DOMAIN seen : i < k =>
        /\ Near(gone, seen[k], seen[i])
        /\ k <= i + RecentSize => seen[k] \in gone \cup ChainTo[seen[i]]
        /\ k <= i + RecentSize /\ seen[k] = seen[i] => \A j \in i..k : seen[j] = seen[i]
        /\ k = i + 1 => CanFollow(from, seen[k], seen[i])

\* What the wallet holds ends in the newest recent hash.  A wallet that holds
\* nothing has only stored top blocks below its start height.
HoldsChain(from, queue, st, held) ==
    IF held = {}
    THEN /\ \A b \in Range(st.recent) \cup Range(st.checkpoints) : Height[b] < from
         /\ queue # <<>> => Height[queue[1]] = from
    ELSE /\ st.recent # <<>>
         /\ held = {b \in ChainTo[st.recent[1]] : Height[b] >= from}
         /\ Height[st.recent[1]] >= from
         /\ st.height = Height[st.recent[1]]

\* The checkpoints are near every block that waits and the last one processed.
ChecksAreNear(top, gone, queue, st) ==
    \A c \in Range(st.checkpoints) :
       /\ IsMain(top, gone, c) /\ c # Genesis
       /\ \A b \in Range(queue) : Near(gone, c, b)
       /\ st.recent # <<>> => Near(gone, c, st.recent[1])

StatusInv(top, gone, from, queue, st, held) ==
    /\ \A b \in Range(queue) \cup Range(st.recent) : IsMain(top, gone, b)
    /\ \A b \in Range(queue) : Height[b] >= from
    /\ ChecksAreNear(top, gone, queue, st)
    /\ IsOrdered(gone, from, Seen(queue, st.recent))
    /\ HoldsChain(from, queue, st, held)

\* A request names the RecentSize newest blocks, in that order.
RequestInv(top, gone, from, isNew, hashes, seen) ==
    /\ \A k \in DOMAIN seen : k <= RecentSize =>
         k \in DOMAIN hashes /\ hashes[k] = seen[k]
    /\ \A k \in DOMAIN hashes :
         /\ IsMain(top, gone, hashes[k])
         /\ seen # <<>> => Near(gone, hashes[k], seen[1])
         /\ hashes[k] = Genesis =>
              \E j \in DOMAIN seen : j <= k /\ j <= RecentSize /\ seen[j] = Genesis
         /\ isNew => Height[hashes[k]] < from

SavedType == [startHeight : ScanHeights, status : StatusType, wallet : SUBSET Blocks]

TypeInv ==
    /\ SyncTypeOK
    /\ saved \in SavedType /\ Len(saved.status.recent) <= RecentSize
    /\ left \subseteq Blocks

SyncInv ==
    /\ TypeInv
    /\ MainChain \cap left = {}
    /\ StatusInv(tip, left, startHeight, stored, status, wallet)
    /\ StatusInv(tip, left, saved.startHeight, <<>>, saved.status, saved.wallet)
    /\ request # <<>> =>
         RequestInv(tip, left, startHeight, wallet = {} /\ stored = <<>>, request[1],
                    Seen(stored, status.recent))

-----------------------------------------------------------------------------
(* The block tree. *)

\* Every nonempty set of naturals has a least element.
LEMMA LeastNatural ==
    ASSUME NEW T \in SUBSET Nat, T # {}
    PROVE  \E x \in T : \A y \in T : x <= y
  <1> DEFINE R == {ss \in Nat \X Nat : ss[1] < ss[2]}
  <1>1. IsWellFoundedOn(R, Nat)
    BY NatLessThanWellFounded, Zenon DEF OpToRel
  <1> HIDE DEF R
  <1>2. PICK x \in T : \A y \in T : <<y, x>> \notin R
    BY <1>1, WFMin, Zenon
  <1>3. ASSUME NEW y \in T PROVE x <= y
    <2>1. ~(y < x)
      BY <1>2, Zenon DEF R
    <2> QED BY <2>1
  <1> QED BY <1>3, Zenon

\* A chain holds one block of every height, up to its last block, and with a
\* block all blocks below it.
ChainIsSound(b) ==
    /\ b \in ChainTo[b] /\ Genesis \in ChainTo[b]
    /\ \A x \in ChainTo[b] : Height[x] <= Height[b] /\ ChainTo[x] \subseteq ChainTo[b]
    /\ \A x \in ChainTo[b] : Height[x] = Height[b] => x = b
    /\ \A x, y \in ChainTo[b] : Height[x] <= Height[y] => x \in ChainTo[y]
    /\ \A h \in 0..Height[b] : \E x \in ChainTo[b] : Height[x] = h

\* The chain to a block, from the chain to its predecessor.
LEMMA ChainStep ==
    ASSUME NEW b \in Blocks \ {Genesis}, ChainIsSound(Prev[b])
    PROVE  ChainIsSound(b)
<1> DEFINE p == Prev[b]
<1>1. /\ p \in Blocks /\ ChainTo[p] \subseteq Blocks /\ ChainTo[b] = ChainTo[p] \cup {b}
      /\ Height[b] = Height[p] + 1 /\ Height[p] \in Nat
      /\ \A x \in Blocks : Height[x] \in Nat
  BY SyncAssumption, Zenon
<1> USE <1>1
<1> HIDE DEF p
<1>2. ChainIsSound(p) BY Zenon DEF p
<1> USE <1>2
<1>3. b \in ChainTo[b] /\ Genesis \in ChainTo[b]
  BY Zenon DEF ChainIsSound
<1>4. ASSUME NEW x \in ChainTo[p]
      PROVE  x \in Blocks /\ Height[x] < Height[b] /\ ChainTo[x] \subseteq ChainTo[b]
  BY DEF ChainIsSound
<1> USE <1>4
<1>5. \A x \in ChainTo[b] : Height[x] <= Height[b] /\ ChainTo[x] \subseteq ChainTo[b]
  OBVIOUS
<1>6. \A x \in ChainTo[b] : Height[x] = Height[b] => x = b
  OBVIOUS
<1>7. \A x, y \in ChainTo[b] : Height[x] <= Height[y] => x \in ChainTo[y]
  <2> SUFFICES ASSUME NEW x \in ChainTo[b], NEW y \in ChainTo[b], Height[x] <= Height[y]
               PROVE  x \in ChainTo[y]
    BY Zenon
  <2>1. CASE y = b BY <2>1, Zenon
  <2>2. CASE y # b
    <3>1. y \in ChainTo[p] BY <2>2
    <3>2. x # b BY <3>1
    <3> QED BY <3>1, <3>2 DEF ChainIsSound
  <2> QED BY <2>1, <2>2, Zenon
<1>8. \A h \in 0..Height[b] : \E x \in ChainTo[b] : Height[x] = h
  <2> SUFFICES ASSUME NEW h \in 0..Height[b] PROVE \E x \in ChainTo[b] : Height[x] = h
    BY Zenon
  <2>1. CASE h = Height[b] BY <2>1, <1>3, Zenon
  <2>2. CASE h # Height[b]
    <3>1. h \in 0..Height[p] BY <2>2
    <3> QED BY <3>1, Zenon DEF ChainIsSound
  <2> QED BY <2>1, <2>2, Zenon
<1> QED BY <1>3, <1>5, <1>6, <1>7, <1>8, Zenon DEF ChainIsSound

\* Every chain is sound: a lowest block whose chain is not would have a
\* predecessor whose chain is.
LEMMA ChainsAreSound == \A b \in Blocks : ChainIsSound(b)
<1> SUFFICES ASSUME NEW bad \in Blocks, ~ChainIsSound(bad) PROVE FALSE
  BY Zenon
<1> DEFINE T == {h \in Nat : \E b \in Blocks : Height[b] = h /\ ~ChainIsSound(b)}
<1>1. T # {} /\ T \in SUBSET Nat BY SyncAssumption, Zenon
<1>2. PICK h \in T : \A y \in T : h <= y BY <1>1, LeastNatural, Zenon
<1>3. PICK b \in Blocks : Height[b] = h /\ ~ChainIsSound(b) BY <1>2, Zenon
<1> USE <1>3
<1>4. b # Genesis
  <2>1. ChainIsSound(Genesis)
    BY SyncAssumption DEF ChainIsSound
  <2> QED BY <2>1, Zenon
<1>5. Prev[b] \in Blocks /\ Height[Prev[b]] \in Nat /\ h = Height[Prev[b]] + 1
  BY <1>4, SyncAssumption, Zenon
<1>6. ChainIsSound(Prev[b])
  <2>1. Height[Prev[b]] \notin T BY <1>5, <1>2
  <2> QED BY <2>1, <1>5, Zenon
<1> QED BY <1>4, <1>6, ChainStep, Zenon

\* What the proofs below use of a chain.
LEMMA ChainFacts ==
    ASSUME NEW b \in Blocks
    PROVE  /\ ChainTo[b] \subseteq Blocks /\ b \in ChainTo[b] /\ Genesis \in ChainTo[b]
           /\ Height[b] \in Nat
           /\ \A x \in ChainTo[b] : Height[x] <= Height[b] /\ ChainTo[x] \subseteq ChainTo[b]
           /\ \A x, y \in ChainTo[b] : Height[x] <= Height[y] => x \in ChainTo[y]
           /\ \A x, y \in ChainTo[b] : Height[x] = Height[y] => x = y
           /\ \A h \in 0..Height[b] : \E x \in ChainTo[b] : Height[x] = h
<1>1. /\ ChainTo[b] \subseteq Blocks /\ Height[b] \in Nat
      /\ \A x \in Blocks : Height[x] \in Nat
  BY SyncAssumption, Zenon
<1> USE <1>1
<1>2. ASSUME NEW x \in ChainTo[b], NEW y \in ChainTo[b], Height[x] = Height[y]
      PROVE  x = y
  <2>1. x \in ChainTo[y] BY <1>2, ChainsAreSound, Zenon DEF ChainIsSound
  <2> QED BY <2>1, <1>2, ChainsAreSound, Zenon DEF ChainIsSound
<1> QED BY <1>2, ChainsAreSound, Zenon DEF ChainIsSound

\* A block that is not the genesis block is above its predecessor.
LEMMA PrevFacts ==
    ASSUME NEW b \in Blocks, b # Genesis
    PROVE  /\ Prev[b] \in Blocks /\ Prev[b] \in ChainTo[b]
           /\ Height[b] = Height[Prev[b]] + 1 /\ Height[b] # 0
  BY SyncAssumption, ChainFacts
-----------------------------------------------------------------------------
(* Lists, requests and answers. *)

\* The front of a list.
LEMMA FirstOfFacts ==
    ASSUME NEW S, NEW s \in Seq(S), NEW n \in Nat
    PROVE  /\ FirstOf(s, n) \in Seq(S)
           /\ Len(FirstOf(s, n)) = IF n < Len(s) THEN n ELSE Len(s)
           /\ \A i \in 1..Len(FirstOf(s, n)) : FirstOf(s, n)[i] = s[i]
  BY DEF FirstOf

\* A list with one more at the front.
LEMMA PushFacts ==
    ASSUME NEW S, NEW s \in Seq(S), NEW b \in S
    PROVE  /\ <<b>> \o s \in Seq(S) /\ Len(<<b>> \o s) = Len(s) + 1
           /\ \A i \in 1..Len(s) + 1 :
                (<<b>> \o s)[i] = IF i = 1 THEN b ELSE s[i - 1]
  OBVIOUS

\* Max of two numbers.
LEMMA MaxOfTwo ==
    ASSUME NEW a \in Nat, NEW b \in Nat
    PROVE  Max({a, b}) = IF a >= b THEN a ELSE b
<1> DEFINE m == IF a >= b THEN a ELSE b
<1>1. m \in {a, b} /\ \A y \in {a, b} : m >= y OBVIOUS
<1>2. ASSUME NEW x \in {a, b}, \A y \in {a, b} : x >= y PROVE x = m
  BY <1>2
<1> QED BY <1>1, <1>2, Zenon DEF Max

\* The least of a set of naturals.
LEMMA MinIsLeast ==
    ASSUME NEW T \in SUBSET Nat, T # {}
    PROVE  Min(T) \in T /\ \A y \in T : Min(T) <= y
  BY LeastNatural, Zenon DEF Min

\* What the daemon sends is a part of its main chain without gaps.
LEMMA MainChainFromFacts ==
    ASSUME tip \in Blocks, NEW h \in Nat
    PROVE  LET main == MainChainFrom(h)
           IN  /\ main \in Seq(Blocks)
               /\ Len(main) = IF h <= Height[tip] THEN Height[tip] - h + 1 ELSE 0
               /\ \A i \in 1..Len(main) :
                    main[i] \in MainChain /\ Height[main[i]] = h + i - 1
<1> DEFINE n == IF h <= Height[tip] THEN Height[tip] - h + 1 ELSE 0
           F(i) == CHOOSE b \in MainChain : Height[b] = h + i - 1
<1>1. Height[tip] \in Nat /\ n \in Nat BY SyncAssumption
<1> USE <1>1
<1>2. 1..(Height[tip] - h + 1) = 1..n OBVIOUS
<1>3. \A i \in 1..n : F(i) \in MainChain /\ Height[F(i)] = h + i - 1
  <2> SUFFICES ASSUME NEW i \in 1..n PROVE F(i) \in MainChain /\ Height[F(i)] = h + i - 1
    BY Zenon
  <2>1. h + i - 1 \in 0..Height[tip] OBVIOUS
  <2>2. \E b \in MainChain : Height[b] = h + i - 1 BY <2>1, ChainFacts DEF MainChain
  <2> QED BY <2>2, Zenon
<1>4. MainChain \subseteq Blocks BY SyncAssumption, Zenon DEF MainChain
<1> HIDE DEF n
<1>5. MainChainFrom(h) = [i \in 1..n |-> F(i)] BY <1>2, Zenon DEF MainChainFrom
<1> HIDE DEF F
<1>6. [i \in 1..n |-> F(i)] \in Seq(Blocks) /\ Len([i \in 1..n |-> F(i)]) = n
  BY <1>3, <1>4
<1> QED BY <1>3, <1>5, <1>6, Zenon DEF n

\* Where an answer starts: after the first hash that is in the main chain.
LEMMA StartFacts ==
    ASSUME tip \in Blocks, startHeight \in Nat, NEW hashes \in Seq(Blocks),
           CanAnswer(hashes)
    PROVE  /\ StartIndex(hashes) \in Nat
           /\ hashes = <<>> => StartIndex(hashes) = startHeight
           /\ hashes # <<>> =>
                \E m \in DOMAIN hashes :
                   /\ hashes[m] \in MainChain
                   /\ \A j \in DOMAIN hashes : j < m => hashes[j] \notin MainChain
                   /\ LET h == Height[hashes[m]]
                      IN  StartIndex(hashes) = IF h = 0 \/ startHeight >= h + 1
                                               THEN startHeight ELSE h + 1
<1>1. CASE hashes = <<>>
  BY <1>1, MaxOfTwo DEF StartIndex
<1>2. CASE hashes # <<>>
  <2> USE <1>2
  <2> DEFINE T == {i \in DOMAIN hashes : hashes[i] \in MainChain}
             m == Min(T)
  <2>1. T # {} /\ T \in SUBSET Nat
    BY DEF CanAnswer, Range
  <2>2. m \in T /\ \A j \in T : m <= j
    BY <2>1, MinIsLeast, Zenon
  <2> USE <2>2
  <2>3. Height[hashes[m]] \in Nat
    BY SyncAssumption
  <2>4. StartIndex(hashes) =
          Max({IF Height[hashes[m]] = 0 THEN 0 ELSE Height[hashes[m]] + 1, startHeight})
    BY Zenon DEF StartIndex, Supplement
  <2> HIDE DEF m
  <2>5. StartIndex(hashes) = IF Height[hashes[m]] = 0 \/ startHeight >= Height[hashes[m]] + 1
                             THEN startHeight ELSE Height[hashes[m]] + 1
    BY <2>3, <2>4, MaxOfTwo
  <2>6. \A j \in DOMAIN hashes : j < m => hashes[j] \notin MainChain
    OBVIOUS
  <2> QED BY <2>3, <2>5, <2>6
<1> QED BY <1>1, <1>2, Zenon

\* The answer itself, when every block is sent.
LEMMA AnswerFacts ==
    ASSUME tip \in Blocks, NEW hashes, StartIndex(hashes) \in Nat, ~SkipEmpty
    PROVE  LET blocks == WalletSyncData(hashes)
           IN  /\ blocks \in Seq(Blocks)
               /\ blocks = <<>> <=> StartIndex(hashes) > Height[tip]
               /\ \A i \in 1..Len(blocks) :
                    /\ blocks[i] \in MainChain
                    /\ Height[blocks[i]] = StartIndex(hashes) + i - 1
<1> DEFINE h == StartIndex(hashes)
           main == MainChainFrom(h)
<1>1. h \in Nat /\ WalletSyncData(hashes) = FirstOf(main, BatchSize)
  BY Zenon DEF WalletSyncData
<1>2. /\ main \in Seq(Blocks)
      /\ Len(main) = IF h <= Height[tip] THEN Height[tip] - h + 1 ELSE 0
      /\ \A i \in 1..Len(main) : main[i] \in MainChain /\ Height[main[i]] = h + i - 1
  BY <1>1, MainChainFromFacts, Zenon
<1> USE <1>2
<1> HIDE DEF h, main
<1>3. Height[tip] \in Nat /\ BatchSize \in Nat \ {0} BY SyncAssumption, Zenon
<1>4. /\ FirstOf(main, BatchSize) \in Seq(Blocks)
      /\ Len(FirstOf(main, BatchSize)) = IF BatchSize < Len(main) THEN BatchSize ELSE Len(main)
      /\ \A i \in 1..Len(FirstOf(main, BatchSize)) : FirstOf(main, BatchSize)[i] = main[i]
  BY <1>3, FirstOfFacts, Zenon
<1> USE <1>4
<1> DEFINE f == FirstOf(main, BatchSize)
<1>5. Len(f) = 0 <=> h > Height[tip]
  <2>1. Len(main) \in Nat /\ (Len(main) = 0 <=> h > Height[tip])
    BY ONLY <1>1, <1>2, <1>3
  <2>2. Len(f) = 0 <=> Len(main) = 0
    BY ONLY <2>1, <1>3, <1>4
  <2> QED BY ONLY <2>1, <2>2, Zenon
<1>6. Len(f) <= Len(main) /\ Len(f) \in Nat
  BY <1>3
<1>7. \A i \in 1..Len(f) : f[i] \in MainChain /\ Height[f[i]] = h + i - 1
  BY <1>6
<1>8. f = <<>> <=> Len(f) = 0
  OBVIOUS
<1> QED BY <1>1, <1>5, <1>7, <1>8, Zenon DEF h

\* A stored hash goes to the front of both lists, unless it is the oldest one.
LEMMA StoreFacts ==
    ASSUME status \in StatusType, Len(status.recent) <= RecentSize,
           NEW b \in Blocks, StoreBlockHash(b)
    PROVE  /\ status' \in StatusType /\ Len(status'.recent) <= RecentSize
           /\ status'.height = Height[b]
           /\ IF status.recent # <<>> /\ status.recent[Len(status.recent)] = b
              THEN /\ status'.recent = status.recent
                   /\ status'.checkpoints = status.checkpoints
              ELSE /\ status'.recent = FirstOf(<<b>> \o status.recent, RecentSize)
                   /\ \/ status'.checkpoints = status.checkpoints
                      \/ status'.checkpoints = <<b>> \o status.checkpoints /\ Height[b] # 0
<1>1. Height[b] \in Nat /\ RecentSize \in Nat /\ Interval \in Nat
  BY SyncAssumption, Zenon
<1> USE <1>1
<1>2. /\ status.recent \in Seq(Blocks) /\ status.checkpoints \in Seq(Blocks)
      /\ status.checkpointAt \in Nat
  BY Zenon DEF StatusType
<1> USE <1>2
<1>3. CASE status.recent # <<>> /\ status.recent[Len(status.recent)] = b
  <2>1. status' = [status EXCEPT !.height = Height[b]]
    BY <1>3, Zenon DEF StoreBlockHash
  <2> QED BY <1>3, <2>1, Zenon DEF StatusType
<1>4. CASE ~(status.recent # <<>> /\ status.recent[Len(status.recent)] = b)
  <2> DEFINE r == FirstOf(<<b>> \o status.recent, RecentSize)
             isCheckpoint == status.checkpointAt + Interval < Height[b]
             cs == IF isCheckpoint THEN <<b>> \o status.checkpoints
                   ELSE status.checkpoints
  <2>1. r \in Seq(Blocks) /\ Len(r) <= RecentSize
    <3> DEFINE s == <<b>> \o status.recent
    <3>1. s \in Seq(Blocks) /\ Len(s) \in Nat BY PushFacts
    <3> HIDE DEF s
    <3>2. /\ FirstOf(s, RecentSize) \in Seq(Blocks)
          /\ Len(FirstOf(s, RecentSize)) <= RecentSize
      BY <3>1, FirstOfFacts
    <3> QED BY <3>2, Zenon DEF s
  <2>2. cs \in Seq(Blocks) /\ (isCheckpoint => Height[b] # 0)
    BY PushFacts
  <2>3. status' = [height |-> Height[b], recent |-> r, checkpoints |-> cs,
                   checkpointAt |-> IF isCheckpoint THEN Height[b]
                                    ELSE status.checkpointAt]
    BY <1>4, Zenon DEF StoreBlockHash
  <2>4. cs = status.checkpoints \/ (cs = <<b>> \o status.checkpoints /\ Height[b] # 0)
    BY <2>2, Zenon
  <2> HIDE DEF r, cs, isCheckpoint
  <2>5. status' \in StatusType BY <2>1, <2>2, <2>3, Zenon DEF StatusType
  <2> QED BY <1>4, <2>1, <2>3, <2>4, <2>5, Zenon DEF r
<1> QED BY <1>3, <1>4, Zenon

\* The blocks the wallet has seen, as a list.
LEMMA SeenFacts ==
    ASSUME NEW queue \in Seq(Blocks), NEW recent \in Seq(Blocks)
    PROVE  /\ Seen(queue, recent) \in Seq(Blocks)
           /\ Len(Seen(queue, recent)) = Len(queue) + Len(recent)
           /\ DOMAIN Seen(queue, recent) = 1..Len(queue) + Len(recent)
           /\ \A i \in 1..Len(queue) + Len(recent) :
                Seen(queue, recent)[i] = IF i <= Len(queue) THEN queue[Len(queue) - i + 1]
                                         ELSE recent[i - Len(queue)]
<1> DEFINE n == Len(queue) + Len(recent)
           F(i) == IF i <= Len(queue) THEN queue[Len(queue) - i + 1]
                   ELSE recent[i - Len(queue)]
<1>1. n \in Nat /\ \A i \in 1..n : F(i) \in Blocks OBVIOUS
<1>2. Seen(queue, recent) = [i \in 1..n |-> F(i)] BY Zenon DEF Seen
<1> HIDE DEF n, F
<1>3. [i \in 1..n |-> F(i)] \in Seq(Blocks) /\ Len([i \in 1..n |-> F(i)]) = n
  BY <1>1
<1>4. DOMAIN [i \in 1..n |-> F(i)] = 1..n /\ \A i \in 1..n : [j \in 1..n |-> F(j)][i] = F(i)
  BY Zenon
<1> QED BY <1>2, <1>3, <1>4, Zenon DEF n, F

\* One list after another.
LEMMA ConcatFacts ==
    ASSUME NEW S, NEW s \in Seq(S), NEW t \in Seq(S)
    PROVE  /\ s \o t \in Seq(S) /\ Len(s \o t) = Len(s) + Len(t)
           /\ \A i \in 1..Len(s) + Len(t) :
                (s \o t)[i] = IF i <= Len(s) THEN s[i] ELSE t[i - Len(s)]
  OBVIOUS

\* The same list turned round.
LEMMA NewestFirstFacts ==
    ASSUME NEW S, NEW s \in Seq(S)
    PROVE  /\ NewestFirst(s) \in Seq(S) /\ Len(NewestFirst(s)) = Len(s)
           /\ \A i \in 1..Len(s) : NewestFirst(s)[i] = s[Len(s) - i + 1]
<1>1. DOMAIN s = 1..Len(s) /\ Len(s) \in Nat OBVIOUS
<1>2. \A i \in 1..Len(s) : s[Len(s) - i + 1] \in S OBVIOUS
<1>3. NewestFirst(s) = [i \in 1..Len(s) |-> s[Len(s) - i + 1]]
  BY <1>1, Zenon DEF NewestFirst
<1> QED BY <1>1, <1>2, <1>3

\* A request names the newest blocks that were seen, then the checkpoints.
LEMMA CheckpointsFacts ==
    ASSUME stored \in Seq(Blocks), status \in StatusType
    PROVE  LET seen == Seen(stored, status.recent)
               n == IF RecentSize < Len(seen) THEN RecentSize ELSE Len(seen)
           IN  /\ BlockCheckpoints \in Seq(Blocks)
               /\ Len(BlockCheckpoints) = n + Len(status.checkpoints)
               /\ \A k \in 1..n : BlockCheckpoints[k] = seen[k]
               /\ \A k \in 1..Len(status.checkpoints) :
                    BlockCheckpoints[n + k] = status.checkpoints[k]
<1> DEFINE R == RecentSize
           recent == status.recent
           cs == status.checkpoints
           seen == Seen(stored, recent)
           n == IF R < Len(seen) THEN R ELSE Len(seen)
           rev == NewestFirst(stored)
           front == FirstOf(rev, R)
           both == front \o recent
           part == FirstOf(both, R)
<1>1. recent \in Seq(Blocks) /\ cs \in Seq(Blocks) BY Zenon DEF StatusType
<1>2. R \in Nat BY SyncAssumption, Zenon
<1>3. BlockCheckpoints = part \o cs BY Zenon DEF BlockCheckpoints
<1>4. /\ rev \in Seq(Blocks) /\ Len(rev) = Len(stored)
      /\ \A i \in 1..Len(stored) : rev[i] = stored[Len(stored) - i + 1]
  BY NewestFirstFacts, Zenon
<1>5. /\ seen \in Seq(Blocks) /\ Len(seen) = Len(stored) + Len(recent)
      /\ \A i \in 1..Len(stored) + Len(recent) :
           seen[i] = IF i <= Len(stored) THEN stored[Len(stored) - i + 1]
                     ELSE recent[i - Len(stored)]
  BY <1>1, SeenFacts, Zenon
<1> HIDE DEF R, recent, cs, seen, rev
<1>6. /\ front \in Seq(Blocks) /\ Len(front) = IF R < Len(rev) THEN R ELSE Len(rev)
      /\ \A i \in 1..Len(front) : front[i] = rev[i]
  BY <1>2, <1>4, FirstOfFacts, Zenon
<1> HIDE DEF front
<1>7. /\ both \in Seq(Blocks) /\ Len(both) = Len(front) + Len(recent)
      /\ \A i \in 1..Len(front) + Len(recent) :
           both[i] = IF i <= Len(front) THEN front[i] ELSE recent[i - Len(front)]
  <2>1. front \in Seq(Blocks) /\ recent \in Seq(Blocks) BY <1>1, <1>6, Zenon
  <2> QED BY ONLY <2>1, ConcatFacts, Zenon
<1> HIDE DEF both
<1>8. /\ part \in Seq(Blocks) /\ Len(part) = IF R < Len(both) THEN R ELSE Len(both)
      /\ \A i \in 1..Len(part) : part[i] = both[i]
  BY <1>2, <1>7, FirstOfFacts, Zenon
<1> HIDE DEF part
<1>9. Len(stored) \in Nat /\ Len(recent) \in Nat /\ Len(cs) \in Nat BY <1>1
<1> USE <1>9
<1>10. Len(part) = n
  BY <1>2, <1>4, <1>5, <1>6, <1>7, <1>8
<1>11. ASSUME NEW k \in 1..n PROVE part[k] = seen[k]
  <2>1. k \in 1..Len(part) /\ k <= R /\ k \in 1..Len(both) /\ part[k] = both[k]
    BY <1>2, <1>5, <1>7, <1>8, <1>10
  <2> USE <2>1
  <2>2. k \in 1..Len(stored) + Len(recent) BY <1>5, <1>2
  <2>3. CASE k <= Len(stored)
    <3>1. k \in 1..Len(front) /\ k \in 1..Len(stored)
      BY <2>3, <1>6, <1>4, <1>2
    <3> USE <3>1
    <3>0. k \in 1..Len(front) + Len(recent) /\ k <= Len(front)
      BY <1>6, <1>7
    <3>2. both[k] = front[k] /\ front[k] = rev[k] BY <3>0, <1>6, <1>7, Zenon
    <3>3. both[k] = stored[Len(stored) - k + 1] BY <3>2, <1>4, Zenon
    <3> QED BY <2>2, <2>3, <3>3, <1>5, Zenon
  <2>4. CASE k > Len(stored)
    <3>1. Len(front) = Len(stored) BY <2>4, <1>6, <1>4, <1>2
    <3>2. both[k] = recent[k - Len(stored)] BY <3>1, <2>4, <1>7
    <3>3. ~(k <= Len(stored)) BY <2>4
    <3> QED BY <2>2, <3>2, <3>3, <1>5, Zenon
  <2> QED BY <2>3, <2>4
<1>12. /\ part \o cs \in Seq(Blocks) /\ Len(part \o cs) = n + Len(cs)
       /\ \A k \in 1..n : (part \o cs)[k] = part[k]
       /\ \A k \in 1..Len(cs) : (part \o cs)[n + k] = cs[k]
  <2>1. part \in Seq(Blocks) /\ cs \in Seq(Blocks) BY <1>1, <1>8, Zenon
  <2>2. /\ part \o cs \in Seq(Blocks) /\ Len(part \o cs) = Len(part) + Len(cs)
        /\ \A k \in 1..Len(part) + Len(cs) :
             (part \o cs)[k] = IF k <= Len(part) THEN part[k] ELSE cs[k - Len(part)]
    BY ONLY <2>1, ConcatFacts, Zenon
  <2> USE <2>2
  <2>3. Len(part) \in Nat BY <2>1
  <2> HIDE DEF n
  <2>4. \A k \in 1..n : (part \o cs)[k] = part[k]
    BY <2>3, <1>10
  <2>5. \A k \in 1..Len(cs) : (part \o cs)[n + k] = cs[k]
    <3> SUFFICES ASSUME NEW k \in 1..Len(cs) PROVE (part \o cs)[n + k] = cs[k]
      BY Zenon
    <3>1. /\ n + k \in 1..Len(part) + Len(cs)
          /\ ~(n + k <= Len(part)) /\ (n + k) - Len(part) = k
      BY ONLY <2>3, <1>9, <1>10, k \in 1..Len(cs)
    <3> QED BY <3>1, Zenon
  <2> QED BY <2>4, <2>5, <1>10, Zenon
<1> HIDE DEF n
<1>13. /\ BlockCheckpoints \in Seq(Blocks) /\ Len(BlockCheckpoints) = n + Len(cs)
       /\ \A k \in 1..n : BlockCheckpoints[k] = seen[k]
       /\ \A k \in 1..Len(cs) : BlockCheckpoints[n + k] = cs[k]
  BY <1>3, <1>11, <1>12, Zenon
<1> QED BY <1>13, Zenon DEF n, seen, recent, cs, R
-----------------------------------------------------------------------------
(* Types. *)

\* The wallet file before and after a step.
LEMMA InitTypes == Init => TypeInv
<1> SUFFICES ASSUME Init PROVE TypeInv BY Zenon
<1>1. NewStatus \in StatusType /\ NewStatus.recent = <<>>
  BY DEF NewStatus, StatusType
<1> USE <1>1
<1>2. /\ Genesis \in Blocks /\ ScanHeights \subseteq Nat /\ MaxPauses \in Nat
      /\ RecentSize \in Nat
  BY SyncAssumption, Zenon
<1>3. SyncTypeOK BY <1>2 DEF Init, Daemon!Init, SyncTypeOK
<1>4. saved \in SavedType BY Zenon DEF Init, SavedType
<1>5. Len(saved.status.recent) <= RecentSize /\ left \subseteq Blocks
  BY <1>2 DEF Init
<1> QED BY <1>3, <1>4, <1>5, Zenon DEF TypeInv

\* A pause abandons the chunk and the request.
LEMMA PauseTypes ==
    ASSUME TypeInv, Pause,
           startHeight' \in ScanHeights, stored' \in Seq(Blocks),
           status' \in StatusType, Len(status'.recent) <= RecentSize,
           wallet' \subseteq Blocks,
           saved' \in SavedType, Len(saved'.status.recent) <= RecentSize
    PROVE  TypeInv'
<1>1. /\ pauses' \in 0..MaxPauses /\ chunk' = 0 /\ scanned' = 0 /\ request' = <<>>
      /\ known' = known /\ tip' = tip /\ left' = left
  <2>1. /\ pauses < MaxPauses /\ pauses' = pauses + 1 /\ chunk' = 0 /\ scanned' = 0
        /\ request' = <<>> /\ known' = known /\ tip' = tip /\ left' = left
    BY Zenon DEF Pause, daemonVars
  <2>2. pauses \in 0..MaxPauses BY Zenon DEF TypeInv, SyncTypeOK
  <2> QED BY <2>1, <2>2, SyncAssumption
<1> USE <1>1
<1>2. chunk' \in 0..Len(stored') /\ scanned' \in 0..chunk' OBVIOUS
<1>3. SyncTypeOK' BY <1>2 DEF TypeInv, SyncTypeOK
<1> QED BY <1>3, Zenon DEF TypeInv

\* Every step keeps the types.
LEMMA NextTypes ==
    ASSUME TypeInv, ~SkipEmpty, [Next]_vars PROVE TypeInv'
<1> USE DEF daemonVars, storeVars, walletVars
<1>0. /\ SyncTypeOK /\ saved \in SavedType /\ Len(saved.status.recent) <= RecentSize
      /\ left \subseteq Blocks
  BY Zenon DEF TypeInv
<1> USE <1>0
<1>a. /\ tip \in Blocks /\ MainChain \subseteq Blocks /\ startHeight \in Nat
      /\ {RecentSize, ChunkSize, BatchSize, StoreLimit} \subseteq Nat \ {0}
  BY SyncAssumption, Zenon DEF SyncTypeOK, MainChain
<1>b. NewStatus \in StatusType /\ NewStatus.recent = <<>>
  BY DEF NewStatus, StatusType
<1>1. CASE DaemonReceives
  <2> USE <1>1
  <2>1. PICK b \in Blocks \ {Genesis} : Daemon!Receive(b) BY Zenon DEF DaemonReceives
  <2>2. known' = known \cup {b} /\ tip' \in {b, tip} BY <2>1, Zenon DEF Daemon!Receive
  <2>3. tip' \in known' /\ known' \subseteq Blocks BY <2>2, Zenon DEF SyncTypeOK
  <2>4. left' \subseteq Blocks BY <1>a, Zenon DEF DaemonReceives
  <2>5. UNCHANGED <<storeVars, walletVars, saved, pauses>> BY Zenon DEF DaemonReceives
  <2>6. SyncTypeOK' BY <2>3, <2>5, Zenon DEF SyncTypeOK
  <2> QED BY <2>4, <2>5, <2>6, Zenon DEF TypeInv
<1>2. CASE AskDaemon
  <2>1. BlockCheckpoints \in Seq(Blocks) BY CheckpointsFacts, Zenon DEF SyncTypeOK
  <2>2. request' \in Seq(Seq(Blocks)) /\ Len(request') <= 1
    BY <1>2, <2>1 DEF AskDaemon
  <2>3. UNCHANGED <<daemonVars, stored, chunk, scanned, walletVars, saved, pauses>>
    BY <1>2, Zenon DEF AskDaemon
  <2>4. SyncTypeOK' BY <2>2, <2>3, Zenon DEF SyncTypeOK
  <2> QED BY <2>3, <2>4, Zenon DEF TypeInv
<1>3. CASE Answer
  <2> DEFINE blocks == WalletSyncData(request[1])
  <2>1. request[1] \in Seq(Blocks) /\ CanAnswer(request[1])
    BY <1>3 DEF Answer, SyncTypeOK
  <2>2. StartIndex(request[1]) \in Nat BY <2>1, <1>a, StartFacts, Zenon
  <2>3. blocks \in Seq(Blocks) BY <2>2, <1>a, AnswerFacts, Zenon
  <2>4. /\ stored' = stored \o blocks
        /\ StoreBlockHash(tip) \/ status' = status
        /\ request' = <<>>
        /\ UNCHANGED <<daemonVars, chunk, scanned, startHeight, wallet, saved, pauses>>
    BY <1>3, Zenon DEF Answer
  <2> USE <2>4
  <2> HIDE DEF blocks
  <2>5. status' \in StatusType /\ Len(status'.recent) <= RecentSize
    BY <1>a, StoreFacts, Zenon DEF SyncTypeOK
  <2>6. stored' \in Seq(Blocks) /\ chunk' \in 0..Len(stored')
    <3>1. stored \in Seq(Blocks) /\ chunk \in 0..Len(stored) BY Zenon DEF SyncTypeOK
    <3> QED BY <3>1, <2>3
  <2>7. SyncTypeOK' BY <2>5, <2>6 DEF SyncTypeOK
  <2> QED BY <2>7, Zenon DEF TypeInv
<1>4. CASE AnswerFails
  BY <1>4 DEF AnswerFails, TypeInv, SyncTypeOK
<1>5. CASE FetchBlocks
  <2>1. stored \in Seq(Blocks) /\ Len(stored) \in Nat \ {0}
    BY <1>5 DEF SyncTypeOK, FetchBlocks
  <2>2. {ChunkSize, Len(stored)} \in SUBSET Nat /\ {ChunkSize, Len(stored)} # {}
    BY <2>1, <1>a, Zenon
  <2>3. /\ Min({ChunkSize, Len(stored)}) \in {ChunkSize, Len(stored)}
        /\ Min({ChunkSize, Len(stored)}) <= Len(stored)
    <3>1. /\ Min({ChunkSize, Len(stored)}) \in {ChunkSize, Len(stored)}
          /\ \A y \in {ChunkSize, Len(stored)} : Min({ChunkSize, Len(stored)}) <= y
      BY <2>2, MinIsLeast, Zenon
    <3> QED BY <3>1, Zenon
  <2>4. chunk' = Min({ChunkSize, Len(stored)}) /\ scanned' = 0
    BY <1>5, Zenon DEF FetchBlocks
  <2>5. chunk' \in 0..Len(stored) /\ scanned' \in 0..chunk'
    BY <2>1, <2>2, <2>3, <2>4
  <2>6. UNCHANGED <<daemonVars, stored, request, walletVars, saved, pauses>>
    BY <1>5, Zenon DEF FetchBlocks
  <2>7. SyncTypeOK' BY <2>5, <2>6, Zenon DEF SyncTypeOK
  <2> QED BY <2>6, <2>7, Zenon DEF TypeInv
<1>6. CASE ScanBlock
  <2>1. scanned' \in 0..chunk BY <1>6 DEF SyncTypeOK, ScanBlock
  <2>2. UNCHANGED <<daemonVars, stored, request, chunk, walletVars, saved, pauses>>
    BY <1>6, Zenon DEF ScanBlock
  <2>3. SyncTypeOK' BY <2>1, <2>2, Zenon DEF SyncTypeOK
  <2> QED BY <2>2, <2>3, Zenon DEF TypeInv
<1>7. CASE CompleteBlock
  <2> DEFINE b == Head(stored)
  <2>1. /\ stored \in Seq(Blocks) /\ chunk \in 1..Len(stored) /\ scanned = chunk
    BY <1>7 DEF SyncTypeOK, CompleteBlock
  <2>2. b \in Blocks /\ Tail(stored) \in Seq(Blocks) /\ Len(Tail(stored)) = Len(stored) - 1
    BY <2>1
  <2> USE <2>2
  <2>3. /\ wallet' \subseteq {b} \cup wallet /\ StoreBlockHash(b)
        /\ stored' = Tail(stored) /\ chunk' = chunk - 1 /\ scanned' = scanned - 1
        /\ UNCHANGED <<daemonVars, request, startHeight, saved, pauses>>
    BY <1>7, Zenon DEF CompleteBlock
  <2> USE <2>3
  <2> HIDE DEF b
  <2>4. status' \in StatusType /\ Len(status'.recent) <= RecentSize
    BY StoreFacts, Zenon DEF SyncTypeOK
  <2>5. chunk' \in 0..Len(stored') /\ scanned' \in 0..chunk'
    BY <2>1
  <2>6. wallet' \subseteq Blocks BY Zenon DEF SyncTypeOK
  <2>7. SyncTypeOK' BY <2>4, <2>5, <2>6, Zenon DEF SyncTypeOK
  <2> QED BY <2>7, Zenon DEF TypeInv
<1>8. CASE SaveWallet
  <2>1. /\ startHeight' = startHeight /\ stored' = stored /\ status' = status
        /\ wallet' = wallet /\ Pause
        /\ saved' = [startHeight |-> startHeight, status |-> status, wallet |-> wallet]
    BY <1>8, Zenon DEF SaveWallet
  <2>2. saved' \in SavedType /\ saved'.status = status
    BY <2>1, Zenon DEF SavedType, SyncTypeOK
  <2> QED BY <2>1, <2>2, PauseTypes, Zenon DEF SyncTypeOK
<1>9. CASE OpenWallet
  <2>1. /\ Pause /\ startHeight' = saved.startHeight /\ wallet' = saved.wallet
        /\ status' = [saved.status EXCEPT !.checkpointAt = 0]
        /\ stored' = <<>> /\ saved' = saved
    BY <1>9, Zenon DEF OpenWallet
  <2>2. saved.status \in StatusType /\ saved.startHeight \in ScanHeights
        /\ saved.wallet \subseteq Blocks
    BY Zenon DEF SavedType
  <2>3. status' \in StatusType /\ status'.recent = saved.status.recent
    BY <2>1, <2>2, Zenon DEF StatusType
  <2> QED BY <2>1, <2>2, <2>3, PauseTypes
<1>10. CASE ResetWallet
  <2>1. /\ Pause /\ startHeight' \in ScanHeights /\ wallet' = {}
        /\ status' = NewStatus /\ stored' = <<>>
        /\ saved' = [startHeight |-> startHeight', status |-> NewStatus, wallet |-> {}]
    BY <1>10, Zenon DEF ResetWallet
  <2>2. saved' \in SavedType /\ saved'.status = NewStatus
    BY <2>1, <1>b, Zenon DEF SavedType
  <2> QED BY <2>1, <2>2, <1>a, <1>b, PauseTypes
<1>11. CASE ImportSubWallet
  <2>1. /\ Pause /\ startHeight' \in ScanHeights /\ wallet' = {}
        /\ status' = NewStatus /\ stored' = <<>> /\ saved' = saved
    BY <1>11, Zenon DEF ImportSubWallet
  <2> QED BY <2>1, <1>a, <1>b, PauseTypes
<1>12. CASE UNCHANGED vars
  BY <1>12, Zenon DEF vars, TypeInv, SyncTypeOK
<1> QED BY <1>1, <1>2, <1>3, <1>4, <1>5, <1>6, <1>7, <1>8, <1>9, <1>10, <1>11, <1>12, Zenon
           DEF Next

\* When every block is downloaded the members of the downloader and of the
\* synchronizer keep their types, no chunk is larger than the store, and a
\* request never carries more than RecentSize hashes besides the checkpoints.
THEOREM SyncTypeCorrect == ~SkipEmpty /\ Spec => []SyncTypeOK
<1> DEFINE Inv == ~SkipEmpty /\ TypeInv
<1>1. ~SkipEmpty /\ Init => Inv BY InitTypes, Zenon
<1>2. Inv /\ [Next]_vars => Inv' BY NextTypes, Zenon
<1>3. Inv => SyncTypeOK BY Zenon DEF TypeInv
<1> HIDE DEF Inv
<1> QED BY <1>1, <1>2, <1>3, PTL DEF Spec
-----------------------------------------------------------------------------
(* What the invariant says of the blocks seen stays true. *)

\* The daemon's chain grows or is left for a heavier one.
LEMMA DaemonMoves ==
    ASSUME NEW top, NEW gone, NEW top2, NEW gone2, gone \subseteq gone2,
           ChainTo[top] \subseteq ChainTo[top2] \cup gone2,
           \A b \in Blocks : Height[b] <= Height[top] => Height[b] <= Height[top2],
           ChainTo[top] \cup gone \subseteq Blocks
    PROVE  /\ \A b : IsMain(top, gone, b) => IsMain(top2, gone2, b)
           /\ \A old, new : Near(gone, old, new) => Near(gone2, old, new)
           /\ \A from, seen : IsOrdered(gone, from, seen) => IsOrdered(gone2, from, seen)
           /\ \A from, queue, st, held :
                StatusInv(top, gone, from, queue, st, held) =>
                  StatusInv(top2, gone2, from, queue, st, held)
           /\ \A from, isNew, hashes, seen :
                RequestInv(top, gone, from, isNew, hashes, seen) =>
                  RequestInv(top2, gone2, from, isNew, hashes, seen)
<1>1. \A b : IsMain(top, gone, b) => IsMain(top2, gone2, b)
  BY Zenon DEF IsMain
<1> USE <1>1
<1>2. \A old, new : Near(gone, old, new) => Near(gone2, old, new)
  BY Zenon DEF Near
<1> USE <1>2
<1>3. ASSUME NEW from, NEW seen, IsOrdered(gone, from, seen)
      PROVE  IsOrdered(gone2, from, seen)
  BY <1>3, Zenon DEF IsOrdered
<1>4. ASSUME NEW from, NEW queue, NEW st, NEW held,
             StatusInv(top, gone, from, queue, st, held)
      PROVE  StatusInv(top2, gone2, from, queue, st, held)
  <2>1. ChecksAreNear(top2, gone2, queue, st)
    BY <1>4, Zenon DEF StatusInv, ChecksAreNear
  <2> QED BY <2>1, <1>3, <1>4, Zenon DEF StatusInv
<1>5. ASSUME NEW from, NEW isNew, NEW hashes, NEW seen,
             RequestInv(top, gone, from, isNew, hashes, seen)
      PROVE  RequestInv(top2, gone2, from, isNew, hashes, seen)
  BY <1>5, Zenon DEF RequestInv
<1> QED BY <1>3, <1>4, <1>5, Zenon

\* The oldest blocks are forgotten.
LEMMA PrefixIsOrdered ==
    ASSUME NEW gone, NEW from, NEW seen, NEW part, NEW n \in Nat,
           IsOrdered(gone, from, seen),
           DOMAIN part = 1..n, 1..n \subseteq DOMAIN seen,
           \A i \in 1..n : part[i] = seen[i]
    PROVE  IsOrdered(gone, from, part)
<1> SUFFICES ASSUME NEW i \in 1..n, NEW k \in 1..n, i < k
             PROVE  /\ Near(gone, part[k], part[i])
                    /\ k <= i + RecentSize => part[k] \in gone \cup ChainTo[part[i]]
                    /\ k <= i + RecentSize /\ part[k] = part[i] =>
                         \A j \in i..k : part[j] = part[i]
                    /\ k = i + 1 => CanFollow(from, part[k], part[i])
  BY Zenon DEF IsOrdered
<1>1. part[i] = seen[i] /\ part[k] = seen[k] /\ i \in DOMAIN seen /\ k \in DOMAIN seen
  BY Zenon
<1>2. \A j \in i..k : part[j] = seen[j] OBVIOUS
<1> QED BY <1>1, <1>2, Zenon DEF IsOrdered

\* The blocks that wait are given up.
LEMMA SuffixIsOrdered ==
    ASSUME NEW gone, NEW from, NEW seen, NEW part, NEW n \in Nat, NEW m \in Nat,
           IsOrdered(gone, from, seen), RecentSize \in Nat,
           DOMAIN part = 1..n, DOMAIN seen = 1..m + n,
           \A i \in 1..n : part[i] = seen[m + i]
    PROVE  IsOrdered(gone, from, part)
<1> SUFFICES ASSUME NEW i \in 1..n, NEW k \in 1..n, i < k
             PROVE  /\ Near(gone, part[k], part[i])
                    /\ k <= i + RecentSize => part[k] \in gone \cup ChainTo[part[i]]
                    /\ k <= i + RecentSize /\ part[k] = part[i] =>
                         \A j \in i..k : part[j] = part[i]
                    /\ k = i + 1 => CanFollow(from, part[k], part[i])
  BY Zenon DEF IsOrdered
<1> DEFINE x == m + i
           y == m + k
<1>1. /\ part[i] = seen[x] /\ part[k] = seen[y] /\ x \in DOMAIN seen /\ y \in DOMAIN seen
      /\ x < y /\ (k <= i + RecentSize => y <= x + RecentSize) /\ (k = i + 1 => y = x + 1)
  OBVIOUS
<1>2. \A j \in i..k : part[j] = seen[m + j] /\ m + j \in x..y OBVIOUS
<1> HIDE DEF x, y
<1>3. /\ Near(gone, seen[y], seen[x])
      /\ y <= x + RecentSize => seen[y] \in gone \cup ChainTo[seen[x]]
      /\ y <= x + RecentSize /\ seen[y] = seen[x] => \A j \in x..y : seen[j] = seen[x]
      /\ y = x + 1 => CanFollow(from, seen[y], seen[x])
  BY <1>1, Zenon DEF IsOrdered
<1> QED BY <1>1, <1>2, <1>3, Zenon

\* When the hash of a block is not stored, because it is the oldest one, all
\* recent hashes are this one.
LEMMA OldestIsAlone ==
    ASSUME NEW gone, NEW from, NEW queue \in Seq(Blocks), NEW recent \in Seq(Blocks),
           queue # <<>>, recent # <<>>, Len(recent) <= RecentSize,
           recent[Len(recent)] = queue[1],
           IsOrdered(gone, from, Seen(queue, recent))
    PROVE  \A j \in 1..Len(recent) : recent[j] = queue[1]
<1> DEFINE seen == Seen(queue, recent)
           i == Len(queue)
           k == Len(queue) + Len(recent)
<1>a. Len(queue) \in Nat \ {0} /\ Len(recent) \in Nat \ {0} OBVIOUS
<1>b. RecentSize \in Nat BY SyncAssumption, Zenon
<1>1. /\ i \in Nat \ {0} /\ k \in Nat /\ i < k /\ RecentSize \in Nat /\ k <= i + RecentSize
      /\ i \in 1..k /\ k \in 1..k /\ Len(recent) \in Nat
  BY <1>a, <1>b
<1>2. /\ DOMAIN seen = 1..k
      /\ \A j \in 1..k : seen[j] = IF j <= i THEN queue[i - j + 1] ELSE recent[j - i]
  BY SeenFacts, Zenon
<1> USE <1>2
<1> HIDE DEF seen
<1>3. seen[i] = queue[1] /\ seen[k] = recent[Len(recent)]
  BY <1>1
<1> HIDE DEF i, k
<1>4. \A j \in i..k : seen[j] = seen[i]
  BY <1>1, <1>3, Zenon DEF IsOrdered, seen
<1>5. ASSUME NEW j \in 1..Len(recent) PROVE recent[j] = queue[1]
  <2>1. i + j \in 1..k /\ i + j \in i..k /\ ~(i + j <= i) /\ (i + j) - i = j
    BY <1>1 DEF i, k
  <2> QED BY <2>1, <1>3, <1>4, Zenon
<1> QED BY <1>5, Zenon

\* The recent hashes after a block is stored: it is the newest of them.
RecentAfter(recent, b) ==
    IF recent # <<>> /\ recent[Len(recent)] = b THEN recent
    ELSE FirstOf(<<b>> \o recent, RecentSize)

IsProcessed(queue, recent) ==
    LET b == queue[1]
        recent2 == RecentAfter(recent, b)
        seen == Seen(queue, recent)
        seen2 == Seen(Tail(queue), recent2)
    IN  /\ recent2 \in Seq(Blocks) /\ recent2 # <<>> /\ recent2[1] = b
        /\ Len(recent2) <= RecentSize
        /\ \A i \in 1..Len(recent2) : recent2[i] = b \/ recent2[i] \in Range(recent)
        /\ seen2 \in Seq(Blocks) /\ Len(seen2) <= Len(seen)
        /\ \A i \in 1..Len(seen2) : seen2[i] = seen[i]
        /\ \A j \in 1..Len(seen) : j <= RecentSize =>
             \/ j <= Len(seen2)
             \/ j - 1 \in 1..Len(seen2) /\ seen[j - 1] = seen[j]

\* A block is processed: it moves from the store to the recent hashes, and the
\* blocks seen are the same, but for the oldest ones.
LEMMA ProcessedSeen ==
    ASSUME NEW gone, NEW from, NEW queue \in Seq(Blocks), NEW recent \in Seq(Blocks),
           queue # <<>>, Len(recent) <= RecentSize,
           IsOrdered(gone, from, Seen(queue, recent))
    PROVE  IsProcessed(queue, recent)
<1> USE DEF IsProcessed
<1> DEFINE b == queue[1]
           recent2 == RecentAfter(recent, b)
           queue2 == Tail(queue)
           seen == Seen(queue, recent)
           seen2 == Seen(queue2, recent2)
           n == Len(queue)
           r == Len(recent)
<1>1. n \in Nat \ {0} /\ r \in Nat /\ b \in Blocks OBVIOUS
<1>2. RecentSize \in Nat \ {0} BY SyncAssumption, Zenon
<1>3. /\ queue2 \in Seq(Blocks) /\ Len(queue2) = n - 1
      /\ \A i \in 1..n - 1 : queue2[i] = queue[i + 1]
  OBVIOUS
<1>4. /\ seen \in Seq(Blocks) /\ Len(seen) = n + r
      /\ \A i \in 1..n + r : seen[i] = IF i <= n THEN queue[n - i + 1] ELSE recent[i - n]
  BY SeenFacts, Zenon
<1>5. CASE recent # <<>> /\ recent[Len(recent)] = b
  <2>1. recent2 = recent /\ r # 0 BY <1>5 DEF RecentAfter
  <2>2. \A j \in 1..r : recent[j] = b BY <1>5, OldestIsAlone, Zenon
  <2> USE <2>2
  <2>3. /\ seen2 \in Seq(Blocks) /\ Len(seen2) = n - 1 + r
        /\ \A i \in 1..n - 1 + r : seen2[i] = IF i <= n - 1 THEN queue2[n - 1 - i + 1]
                                              ELSE recent[i - (n - 1)]
    <3>1. queue2 \in Seq(Blocks) /\ recent2 \in Seq(Blocks) BY <1>3, <2>1, Zenon
    <3>2. Len(queue2) = n - 1 /\ Len(recent2) = r BY <1>3, <2>1, Zenon
    <3> HIDE DEF queue2, recent2, n, r
    <3>3. /\ Seen(queue2, recent2) \in Seq(Blocks)
          /\ Len(Seen(queue2, recent2)) = Len(queue2) + Len(recent2)
          /\ \A i \in 1..Len(queue2) + Len(recent2) :
               Seen(queue2, recent2)[i] = IF i <= Len(queue2)
                                          THEN queue2[Len(queue2) - i + 1]
                                          ELSE recent2[i - Len(queue2)]
      BY ONLY <3>1, SeenFacts, Zenon
    <3> QED BY ONLY <2>1, <3>2, <3>3
  <2> HIDE DEF queue2, recent2, seen, seen2, n, r, b
  <2>4. ASSUME NEW i \in 1..n - 1 + r PROVE seen2[i] = seen[i]
    <3>1. CASE i <= n - 1
      <4>1. i \in 1..n + r /\ i <= n /\ n - i \in 1..n - 1 /\ n - 1 - i + 1 = n - i
        BY <3>1, <1>1
      <4>2. seen2[i] = queue2[n - i] /\ seen[i] = queue[n - i + 1]
        BY <3>1, <4>1, <2>3, <1>4, Zenon
      <4> QED BY <4>1, <4>2, <1>3, Zenon
    <3>2. CASE i > n - 1
      <4>1. /\ i \in 1..n + r /\ ~(i <= n - 1) /\ i - (n - 1) \in 1..r
            /\ (i <= n => n - i + 1 = 1) /\ (~(i <= n) => i - n \in 1..r)
        BY <3>2, <1>1
      <4>2. seen2[i] = b BY <4>1, <2>3, Zenon
      <4>3. seen[i] = b BY <4>1, <1>4, Zenon DEF b
      <4> QED BY <4>2, <4>3, Zenon
    <3> QED BY <3>1, <3>2, <1>1
  <2>5. ASSUME NEW j \in 1..n + r, j <= RecentSize
        PROVE  \/ j <= n - 1 + r
               \/ j - 1 \in 1..n - 1 + r /\ seen[j - 1] = seen[j]
    <3> SUFFICES ASSUME ~(j <= n - 1 + r)
                 PROVE  j - 1 \in 1..n - 1 + r /\ seen[j - 1] = seen[j]
      BY Zenon
    <3>1. j = n + r /\ j - 1 \in 1..n - 1 + r /\ j - 1 \in 1..n + r BY <1>1, <2>1
    <3> USE <3>1
    <3>2. seen[j] = b
      <4>1. ~(j <= n) /\ j - n \in 1..r BY <1>1, <2>1
      <4> QED BY <4>1, <1>4, Zenon
    <3>3. seen[j - 1] = b
      <4>1. (j - 1 <= n => n - (j - 1) + 1 = 1) /\ (~(j - 1 <= n) => j - 1 - n \in 1..r)
        BY <1>1, <2>1
      <4> QED BY <4>1, <1>4, Zenon DEF b
    <3> QED BY <3>2, <3>3, Zenon
  <2>6. \A i \in 1..Len(recent2) : recent2[i] = b BY <2>1, Zenon DEF r
  <2>7. recent2 \in Seq(Blocks) /\ recent2 # <<>> /\ Len(recent2) <= RecentSize
        /\ recent2[1] = b
    BY <1>5, <2>1, <1>1 DEF r
  <2>8. Len(seen2) <= Len(seen) BY <2>3, <1>4, <1>1
  <2> QED BY <2>3, <2>4, <2>5, <2>6, <2>7, <2>8, <1>4, Zenon DEF seen, seen2, queue2,
             recent2, b, n, r
<1>6. CASE ~(recent # <<>> /\ recent[Len(recent)] = b)
  <2> DEFINE q == IF RecentSize < r + 1 THEN RecentSize ELSE r + 1
  <2>1. /\ recent2 \in Seq(Blocks) /\ Len(recent2) = q
        /\ \A i \in 1..q : recent2[i] = IF i = 1 THEN b ELSE recent[i - 1]
    <3> DEFINE s == <<b>> \o recent
    <3>1. /\ s \in Seq(Blocks) /\ Len(s) = r + 1
          /\ \A i \in 1..r + 1 : s[i] = IF i = 1 THEN b ELSE recent[i - 1]
      <4>1. b \in Blocks BY <1>1, Zenon
      <4> HIDE DEF b
      <4> QED BY <4>1, PushFacts
    <3>2. recent2 = FirstOf(s, RecentSize) BY <1>6, Zenon DEF RecentAfter
    <3> HIDE DEF s, b, recent2
    <3>3. /\ FirstOf(s, RecentSize) \in Seq(Blocks)
          /\ Len(FirstOf(s, RecentSize)) = q
          /\ \A i \in 1..q : FirstOf(s, RecentSize)[i] = s[i]
      BY <3>1, <1>2, FirstOfFacts
    <3>4. \A i \in 1..q : i \in 1..r + 1 BY <1>1, <1>2
    <3> QED BY <3>1, <3>2, <3>3, <3>4, Zenon
  <2> HIDE DEF recent2
  <2>2. q \in Nat \ {0} /\ q <= RecentSize /\ q <= r + 1 BY <1>1, <1>2
  <2>3. /\ seen2 \in Seq(Blocks) /\ Len(seen2) = n - 1 + q
        /\ \A i \in 1..n - 1 + q : seen2[i] = IF i <= n - 1 THEN queue2[n - 1 - i + 1]
                                              ELSE recent2[i - (n - 1)]
    <3>1. queue2 \in Seq(Blocks) /\ recent2 \in Seq(Blocks) BY <1>3, <2>1, Zenon
    <3>2. Len(queue2) = n - 1 /\ Len(recent2) = q BY <1>3, <2>1, Zenon
    <3> HIDE DEF queue2, n, q
    <3>3. /\ Seen(queue2, recent2) \in Seq(Blocks)
          /\ Len(Seen(queue2, recent2)) = Len(queue2) + Len(recent2)
          /\ \A i \in 1..Len(queue2) + Len(recent2) :
               Seen(queue2, recent2)[i] = IF i <= Len(queue2)
                                          THEN queue2[Len(queue2) - i + 1]
                                          ELSE recent2[i - Len(queue2)]
      BY ONLY <3>1, SeenFacts, Zenon
    <3> QED BY ONLY <3>2, <3>3, Zenon
  <2> HIDE DEF queue2, seen, seen2, n, r, b, q
  <2>4. ASSUME NEW i \in 1..n - 1 + q PROVE seen2[i] = seen[i]
    <3>1. CASE i <= n - 1
      <4>1. i \in 1..n + r /\ i <= n /\ n - i \in 1..n - 1 /\ n - 1 - i + 1 = n - i
        BY <3>1, <1>1, <2>2
      <4>2. seen2[i] = queue2[n - i] /\ seen[i] = queue[n - i + 1]
        BY <3>1, <4>1, <2>3, <1>4, Zenon
      <4> QED BY <4>1, <4>2, <1>3, Zenon
    <3>2. CASE i = n
      <4>1. i \in 1..n + r /\ ~(i <= n - 1) /\ i - (n - 1) = 1 /\ 1 \in 1..q /\ n - i + 1 = 1
        BY <3>2, <1>1, <2>2
      <4>2. seen2[i] = recent2[1] /\ seen[i] = queue[1]
        BY <3>2, <4>1, <2>3, <1>4, <1>1
      <4> QED BY <4>1, <4>2, <2>1, Zenon DEF b
    <3>3. CASE i > n
      <4>1. /\ i \in 1..n + r /\ ~(i <= n - 1) /\ ~(i <= n) /\ i - (n - 1) \in 1..q
            /\ i - (n - 1) # 1 /\ i - (n - 1) - 1 = i - n
        BY <3>3, <1>1, <2>2
      <4>2. seen2[i] = recent2[i - (n - 1)] /\ seen[i] = recent[i - n]
        BY <4>1, <2>3, <1>4, Zenon
      <4> QED BY <4>1, <4>2, <2>1, Zenon
    <3> QED BY <3>1, <3>2, <3>3, <1>1
  <2>5. ASSUME NEW j \in 1..n + r, j <= RecentSize PROVE j <= n - 1 + q
    BY <2>5, <1>1, <1>2 DEF q
  <2>6. ASSUME NEW i \in 1..q PROVE recent2[i] = b \/ recent2[i] \in Range(recent)
    <3>1. CASE i = 1 BY <3>1, <2>1, Zenon
    <3>2. CASE i # 1
      <4>1. i - 1 \in 1..Len(recent) BY <3>2, <2>2, <1>1 DEF r
      <4> QED BY <4>1, <3>2, <2>1 DEF Range
    <3> QED BY <3>1, <3>2, Zenon
  <2>7. recent2 # <<>> /\ recent2[1] = b BY <2>1, <2>2
  <2>8. n - 1 + q <= n + r BY <1>1, <2>2
  <2>9. /\ recent2 \in Seq(Blocks) /\ Len(recent2) <= RecentSize
        /\ \A i \in 1..Len(recent2) : recent2[i] = b \/ recent2[i] \in Range(recent)
        /\ seen2 \in Seq(Blocks) /\ Len(seen2) <= Len(seen)
        /\ \A i \in 1..Len(seen2) : seen2[i] = seen[i]
        /\ \A j \in 1..Len(seen) : j <= RecentSize => j <= Len(seen2)
    BY <2>1, <2>2, <2>3, <2>4, <2>5, <2>6, <2>8, <1>4, Zenon
  <2> QED BY <2>7, <2>9, Zenon DEF seen, seen2, queue2, recent2, b
<1> QED BY <1>5, <1>6, Zenon
-----------------------------------------------------------------------------
(* A block is processed. *)

\* The wallet holds the chain that ends in the block, once the forked blocks are
\* gone.
LEMMA HoldsAfter ==
    ASSUME NEW from \in Nat, NEW b \in Blocks, NEW last \in Blocks,
           Height[b] >= from, Height[last] >= from, CanFollow(from, last, b)
    PROVE  {b} \cup {x \in {y \in ChainTo[last] : Height[y] >= from} :
                       Height[last] >= Height[b] /\ Height[b] # 0 => Height[x] < Height[b]}
             = {x \in ChainTo[b] : Height[x] >= from}
<1> DEFINE held == {y \in ChainTo[last] : Height[y] >= from}
           after == {b} \cup {x \in held : Height[last] >= Height[b] /\ Height[b] # 0
                                              => Height[x] < Height[b]}
           chain == {x \in ChainTo[b] : Height[x] >= from}
<1>1. \A x \in Blocks : Height[x] \in Nat BY SyncAssumption, Zenon
<1> USE <1>1
<1>2. /\ ChainTo[last] \subseteq Blocks /\ last \in ChainTo[last]
      /\ ChainTo[b] \subseteq Blocks /\ b \in ChainTo[b]
      /\ \A x \in ChainTo[b] : Height[x] <= Height[b]
      /\ \A x \in ChainTo[last] : Height[x] <= Height[last]
      /\ \A x, y \in ChainTo[b] : Height[x] = Height[y] => x = y
      /\ \A x, y \in ChainTo[last] : Height[x] = Height[y] => x = y
  BY ChainFacts, Zenon
<1> USE <1>2
<1>3. CASE b = last
  <2> USE <1>3
  <2>1. CASE Height[b] = 0
    <3>1. from = 0 /\ after = {b} \cup held BY <2>1
    <3> QED BY <3>1, Zenon
  <2>2. CASE Height[b] # 0
    <3>1. after = {b} \cup {x \in held : Height[x] < Height[b]} BY <2>2, Zenon
    <3>2. ASSUME NEW x \in chain PROVE x \in after
      <4>1. x = b \/ Height[x] < Height[b] OBVIOUS
      <4> QED BY <3>1, <4>1, Zenon
    <3>3. after \subseteq chain BY <3>1, Zenon
    <3> QED BY <3>2, <3>3, Zenon
  <2> QED BY <2>1, <2>2, Zenon
<1>4. CASE Height[b] <= from /\ from # 0
  <2>1. Height[b] = from /\ Height[last] >= Height[b] /\ Height[b] # 0 BY <1>4
  <2>2. after = {b} BY <2>1
  <2>3. chain = {b} BY <2>1
  <2> QED BY <2>2, <2>3, Zenon
<1>5. CASE b # Genesis /\ Prev[b] \in ChainTo[last]
  <2> DEFINE p == Prev[b]
  <2>1. /\ p \in Blocks /\ Height[b] = Height[p] + 1 /\ ChainTo[b] = ChainTo[p] \cup {b}
        /\ ChainTo[p] \subseteq ChainTo[last]
        /\ \A x \in ChainTo[last] : Height[x] <= Height[p] => x \in ChainTo[p]
        /\ \A x \in ChainTo[p] : Height[x] <= Height[p]
    BY <1>5, SyncAssumption, ChainFacts
  <2> USE <2>1
  <2>2. p \in ChainTo[last] BY <1>5, Zenon
  <2> HIDE DEF p
  <2>3. CASE Height[b] > Height[last]
    <3>1. p = last BY <2>2, <2>3
    <3>2. ~(Height[last] >= Height[b]) BY <2>3
    <3>3. after = {b} \cup held BY <3>2, Zenon
    <3> QED BY <3>1, <3>3, Zenon
  <2>4. CASE ~(Height[b] > Height[last])
    <3>1. Height[last] >= Height[b] /\ Height[b] # 0 BY <2>4
    <3>2. after = {b} \cup {x \in held : Height[x] < Height[b]} BY <3>1, Zenon
    <3>3. \A x \in ChainTo[last] : x \in ChainTo[p] <=> Height[x] < Height[b]
      OBVIOUS
    <3> QED BY <3>2, <3>3, Zenon
  <2> QED BY <2>3, <2>4, Zenon
<1> QED BY <1>3, <1>4, <1>5, Zenon DEF CanFollow

\* The first block that is scanned.
LEMMA HoldsFirst ==
    ASSUME NEW from \in Nat, NEW b \in Blocks, Height[b] = from
    PROVE  {b} = {x \in ChainTo[b] : Height[x] >= from}
<1>1. /\ b \in ChainTo[b] /\ ChainTo[b] \subseteq Blocks
      /\ \A x \in ChainTo[b] : Height[x] <= Height[b]
      /\ \A x, y \in ChainTo[b] : Height[x] = Height[y] => x = y
  BY ChainFacts, Zenon
<1>2. \A x \in Blocks : Height[x] \in Nat BY SyncAssumption, Zenon
<1> QED BY <1>1, <1>2

\* A block is processed: the wallet holds its chain, and what a request under
\* way names is what the wallet still knows.
LEMMA CompleteStep ==
    ASSUME SyncInv, CompleteBlock
    PROVE  /\ StatusInv(tip, left, startHeight, stored', status', wallet')
           /\ request # <<>> =>
                RequestInv(tip, left, startHeight, wallet' = {} /\ stored' = <<>>,
                           request[1], Seen(stored', status'.recent))
<1> DEFINE b == stored[1]
           n == Len(stored)
           recent == status.recent
           seen == Seen(stored, recent)
           seen2 == Seen(stored', status'.recent)
<1>1. /\ stored \in Seq(Blocks) /\ stored # <<>> /\ status \in StatusType
      /\ recent \in Seq(Blocks) /\ Len(recent) <= RecentSize /\ startHeight \in Nat
      /\ status.checkpoints \in Seq(Blocks) /\ b \in Blocks /\ n \in Nat \ {0}
      /\ Height[b] \in Nat
  <2>0. /\ stored \in Seq(Blocks) /\ status \in StatusType /\ Len(recent) <= RecentSize
        /\ startHeight \in ScanHeights /\ chunk \in 0..Len(stored) /\ chunk > 0
    BY Zenon DEF SyncInv, TypeInv, SyncTypeOK, CompleteBlock
  <2>1. /\ stored \in Seq(Blocks) /\ status \in StatusType
        /\ Len(recent) <= RecentSize /\ startHeight \in Nat /\ chunk \in 1..Len(stored)
    BY <2>0, SyncAssumption
  <2> USE <2>1
  <2>2. recent \in Seq(Blocks) /\ status.checkpoints \in Seq(Blocks)
    BY Zenon DEF StatusType
  <2>3. n \in Nat \ {0} /\ stored # <<>> /\ b \in Blocks OBVIOUS
  <2> QED BY <2>2, <2>3, SyncAssumption, Zenon
<1>2. StatusInv(tip, left, startHeight, stored, status, wallet) BY Zenon DEF SyncInv
<1>3. IsOrdered(left, startHeight, seen) BY <1>2, Zenon DEF StatusInv
<1>4. /\ stored' = Tail(stored)
      /\ wallet' = {b} \cup {x \in wallet : IsFork(b) => Height[x] < Height[b]}
      /\ StoreBlockHash(b)
  BY <1>1 DEF CompleteBlock
<1>5. /\ status' \in StatusType /\ status'.height = Height[b]
      /\ status'.recent = RecentAfter(recent, b)
      /\ \/ status'.checkpoints = status.checkpoints
         \/ status'.checkpoints = <<b>> \o status.checkpoints /\ Height[b] # 0
  BY <1>1, <1>4, StoreFacts, Zenon DEF RecentAfter
<1>6. /\ status'.recent \in Seq(Blocks) /\ status'.recent # <<>> /\ status'.recent[1] = b
      /\ \A i \in 1..Len(status'.recent) :
           status'.recent[i] = b \/ status'.recent[i] \in Range(recent)
      /\ seen2 \in Seq(Blocks) /\ Len(seen2) <= Len(seen)
      /\ \A i \in 1..Len(seen2) : seen2[i] = seen[i]
      /\ \A j \in 1..Len(seen) : j <= RecentSize =>
           \/ j <= Len(seen2)
           \/ j - 1 \in 1..Len(seen2) /\ seen[j - 1] = seen[j]
  <2> DEFINE r2 == RecentAfter(recent, b)
             s2 == Seen(Tail(stored), r2)
  <2>1. status'.recent = r2 /\ seen2 = s2 BY <1>4, <1>5, Zenon
  <2>2. /\ r2 \in Seq(Blocks) /\ r2 # <<>> /\ r2[1] = b
        /\ \A i \in 1..Len(r2) : r2[i] = b \/ r2[i] \in Range(recent)
        /\ s2 \in Seq(Blocks) /\ Len(s2) <= Len(seen)
        /\ \A i \in 1..Len(s2) : s2[i] = seen[i]
        /\ \A j \in 1..Len(seen) : j <= RecentSize =>
             \/ j <= Len(s2)
             \/ j - 1 \in 1..Len(s2) /\ seen[j - 1] = seen[j]
    <3>1. /\ stored \in Seq(Blocks) /\ recent \in Seq(Blocks) /\ stored # <<>>
          /\ Len(recent) <= RecentSize
          /\ IsOrdered(left, startHeight, Seen(stored, recent))
      BY <1>1, <1>3, Zenon
    <3>2. IsProcessed(stored, recent) BY <3>1, ProcessedSeen, Zenon
    <3> QED BY ONLY <3>2, Zenon DEF IsProcessed
  <2> HIDE DEF r2, s2, seen2, seen, b
  <2> QED BY ONLY <2>1, <2>2, Zenon
<1>7. /\ seen \in Seq(Blocks) /\ Len(seen) = n + Len(recent)
      /\ DOMAIN seen = 1..n + Len(recent)
      /\ \A i \in 1..n + Len(recent) : seen[i] = IF i <= n THEN stored[n - i + 1]
                                                 ELSE recent[i - n]
  BY <1>1, SeenFacts, Zenon
<1>8. /\ Tail(stored) \in Seq(Blocks) /\ Len(Tail(stored)) = n - 1
      /\ \A i \in 1..n - 1 : Tail(stored)[i] = stored[i + 1]
  BY <1>1
<1>9. b \in Range(stored) /\ Range(stored') \subseteq Range(stored)
      /\ Range(status'.recent) \subseteq Range(recent) \cup {b}
  <2>1. b \in Range(stored) BY <1>1 DEF Range
  <2>2. Range(stored') \subseteq Range(stored) BY <1>1, <1>4, <1>8 DEF Range
  <2>3. Range(status'.recent) \subseteq Range(recent) \cup {b} BY <1>6 DEF Range
  <2> QED BY <2>1, <2>2, <2>3, Zenon
<1> HIDE DEF b, n, recent, seen, seen2
<1>10. \A x \in Range(stored') \cup Range(status'.recent) : IsMain(tip, left, x)
  BY <1>2, <1>9, Zenon DEF StatusInv, recent
<1>11. \A x \in Range(stored') : Height[x] >= startHeight
  BY <1>2, <1>9, Zenon DEF StatusInv
<1>12. ChecksAreNear(tip, left, stored', status')
  <2>1. ASSUME NEW c \in Range(status.checkpoints)
        PROVE  /\ IsMain(tip, left, c) /\ c # Genesis
               /\ \A x \in Range(stored') : Near(left, c, x)
               /\ Near(left, c, b)
    BY <1>2, <1>9, Zenon DEF StatusInv, ChecksAreNear
  <2>2. ASSUME Height[b] # 0
        PROVE  /\ IsMain(tip, left, b) /\ b # Genesis
               /\ \A x \in Range(stored') : Near(left, b, x)
               /\ Near(left, b, b)
    <3>1. IsMain(tip, left, b) BY <1>2, <1>9, Zenon DEF StatusInv
    <3>2. b # Genesis BY <2>2, SyncAssumption, Zenon
    <3>3. Near(left, b, b) BY <1>1, ChainFacts, Zenon DEF Near
    <3>4. ASSUME NEW x \in Range(stored') PROVE Near(left, b, x)
      <4>1. PICK j \in 1..n - 1 : x = stored[j + 1] BY <1>4, <1>8 DEF Range
      <4>2. /\ n - j \in DOMAIN seen /\ n \in DOMAIN seen /\ n - j < n
            /\ n - j <= n /\ n - (n - j) + 1 = j + 1 /\ n <= n /\ n - n + 1 = 1
            /\ n - j \in 1..n + Len(recent) /\ n \in 1..n + Len(recent)
        BY <1>1, <1>7
      <4>3. seen[n - j] = x /\ seen[n] = b BY <4>1, <4>2, <1>7, Zenon DEF b
      <4> QED BY <4>2, <4>3, <1>3, Zenon DEF IsOrdered
    <3> QED BY <3>1, <3>2, <3>3, <3>4, Zenon
  <2>3. ASSUME NEW c \in Range(status'.checkpoints)
        PROVE  c \in Range(status.checkpoints) \/ (c = b /\ Height[b] # 0)
    <3>1. CASE status'.checkpoints = status.checkpoints BY <3>1, Zenon
    <3>2. CASE status'.checkpoints = <<b>> \o status.checkpoints /\ Height[b] # 0
      BY <3>2, <1>1, PushFacts DEF Range
    <3> QED BY <3>1, <3>2, <1>5, Zenon
  <2> QED BY <2>1, <2>2, <2>3, <1>6, Zenon DEF ChecksAreNear
<1>13. IsOrdered(left, startHeight, seen2)
  <2>1. /\ Len(seen2) \in Nat /\ DOMAIN seen2 = 1..Len(seen2)
        /\ 1..Len(seen2) \subseteq DOMAIN seen
    BY <1>6, <1>7, <1>1
  <2> QED BY <2>1, <1>3, <1>6, PrefixIsOrdered, Zenon
<1>14. HoldsChain(startHeight, stored', status', wallet')
  <2>1. HoldsChain(startHeight, stored, status, wallet) BY <1>2, Zenon DEF StatusInv
  <2>2. Height[b] >= startHeight BY <1>2, <1>9, Zenon DEF StatusInv
  <2>3. wallet' = {x \in ChainTo[b] : Height[x] >= startHeight}
    <3>1. CASE wallet = {}
      <4>1. wallet' = {b} BY <3>1, <1>4, Zenon
      <4>2. Height[b] = startHeight BY <2>1, <3>1, <1>1, Zenon DEF HoldsChain, b
      <4> QED BY <4>1, <4>2, <1>1, HoldsFirst, Zenon
    <3>2. CASE wallet # {}
      <4> DEFINE last == recent[1]
      <4>1. /\ recent # <<>> /\ wallet = {x \in ChainTo[last] : Height[x] >= startHeight}
            /\ Height[last] >= startHeight /\ status.height = Height[last]
        BY <2>1, <3>2, Zenon DEF HoldsChain, recent
      <4>2. last \in Blocks /\ Len(recent) \in Nat \ {0} BY <4>1, <1>1
      <4>3. CanFollow(startHeight, last, b)
        <5>1. /\ n \in DOMAIN seen /\ n + 1 \in DOMAIN seen /\ n < n + 1
              /\ n \in 1..n + Len(recent) /\ n + 1 \in 1..n + Len(recent)
              /\ n - n + 1 = 1 /\ n <= n /\ ~(n + 1 <= n) /\ n + 1 - n = 1
          BY <4>2, <1>1, <1>7
        <5>2. seen[n] = b /\ seen[n + 1] = last BY <5>1, <1>7 DEF b
        <5> QED BY <5>1, <5>2, <1>3, Zenon DEF IsOrdered
      <4>4. IsFork(b) <=> Height[last] >= Height[b] /\ Height[b] # 0
        BY <4>1, Zenon DEF IsFork
      <4> HIDE DEF last
      <4>5. wallet' = {b} \cup {x \in {y \in ChainTo[last] : Height[y] >= startHeight} :
                         Height[last] >= Height[b] /\ Height[b] # 0 => Height[x] < Height[b]}
        BY <4>1, <4>4, <1>4, Zenon
      <4> QED BY <4>1, <4>2, <4>3, <4>5, <1>1, <2>2, HoldsAfter, Zenon
    <3> QED BY <3>1, <3>2, Zenon
  <2>4. wallet' # {} BY <1>4, Zenon
  <2> QED BY <2>2, <2>3, <2>4, <1>5, <1>6, Zenon DEF HoldsChain
<1>15. StatusInv(tip, left, startHeight, stored', status', wallet')
  BY <1>10, <1>11, <1>12, <1>13, <1>14, Zenon DEF StatusInv, seen2
<1>16. ASSUME request # <<>>
       PROVE  RequestInv(tip, left, startHeight, wallet' = {} /\ stored' = <<>>,
                         request[1], seen2)
  <2> DEFINE hashes == request[1]
  <2>1. RequestInv(tip, left, startHeight, wallet = {} /\ stored = <<>>, hashes, seen)
    BY <1>16, Zenon DEF SyncInv, seen, recent
  <2> HIDE DEF hashes
  <2>2. wallet' # {} BY <1>4, Zenon
  <2>3. DOMAIN seen2 = 1..Len(seen2) /\ DOMAIN seen = 1..Len(seen) BY <1>6, <1>7
  <2>4. \A k \in DOMAIN seen2 : k \in DOMAIN seen /\ seen2[k] = seen[k]
    BY <2>3, <1>6, <1>7, <1>1
  <2>5. seen2 # <<>> => seen # <<>> /\ seen2[1] = seen[1]
    BY <2>3, <1>6, <1>7, <1>1
  <2>6. ASSUME NEW k \in DOMAIN hashes, hashes[k] = Genesis, k \in Int
        PROVE  \E j \in DOMAIN seen2 : j <= k /\ j <= RecentSize /\ seen2[j] = Genesis
    <3>1. PICK j \in DOMAIN seen : j <= k /\ j <= RecentSize /\ seen[j] = Genesis
      BY <2>1, <2>6, Zenon DEF RequestInv
    <3> USE <3>1
    <3>2. RecentSize \in Nat /\ j \in Nat BY <2>3, SyncAssumption
    <3>3. CASE j <= Len(seen2)
      BY <3>3, <2>3, <1>6
    <3>4. CASE j - 1 \in 1..Len(seen2) /\ seen[j - 1] = seen[j]
      <4>1. j - 1 <= k /\ j - 1 <= RecentSize BY <3>2, <2>6
      <4> QED BY <3>4, <4>1, <2>3, <1>6, Zenon
    <3> QED BY <3>3, <3>4, <2>3, <1>6, Zenon
  <2>7. hashes \in Seq(Blocks) BY <1>16 DEF SyncInv, TypeInv, SyncTypeOK, hashes
  <2>8. \A k \in DOMAIN hashes : k \in Int BY <2>7
  <2>9. RequestInv(tip, left, startHeight, wallet' = {} /\ stored' = <<>>, hashes, seen2)
    BY <2>1, <2>2, <2>4, <2>5, <2>6, <2>8, Zenon DEF RequestInv
  <2> QED BY <2>9, Zenon DEF hashes
<1> QED BY <1>15, <1>16, Zenon DEF seen2
-----------------------------------------------------------------------------
(* The daemon is asked, and the wallet is saved. *)

\* What was seen is in the store or among the recent hashes.
LEMMA SeenElements ==
    ASSUME NEW queue \in Seq(Blocks), NEW recent \in Seq(Blocks)
    PROVE  \A i \in DOMAIN Seen(queue, recent) :
             Seen(queue, recent)[i] \in Range(queue) \cup Range(recent)
<1> DEFINE n == Len(queue)
<1>1. /\ DOMAIN Seen(queue, recent) = 1..n + Len(recent)
      /\ \A i \in 1..n + Len(recent) :
           Seen(queue, recent)[i] = IF i <= n THEN queue[n - i + 1] ELSE recent[i - n]
  BY SeenFacts, Zenon
<1> USE <1>1
<1>3. n \in Nat /\ Len(recent) \in Nat OBVIOUS
<1> HIDE DEF n
<1>2. ASSUME NEW i \in 1..n + Len(recent)
      PROVE  Seen(queue, recent)[i] \in Range(queue) \cup Range(recent)
  <2>1. CASE i <= n
    <3>1. n - i + 1 \in DOMAIN queue BY <2>1, <1>3 DEF n
    <3> QED BY <3>1, <2>1, Zenon DEF Range
  <2>2. CASE ~(i <= n)
    <3>1. i - n \in DOMAIN recent BY <2>2, <1>3
    <3> QED BY <3>1, <2>2, Zenon DEF Range
  <2> QED BY <2>1, <2>2, Zenon
<1> QED BY <1>2, Zenon

\* The newest block that was seen.
LEMMA SeenFirst ==
    ASSUME NEW queue \in Seq(Blocks), NEW recent \in Seq(Blocks),
           Seen(queue, recent) # <<>>
    PROVE  /\ 1 \in DOMAIN Seen(queue, recent)
           /\ queue # <<>> => Seen(queue, recent)[1] \in Range(queue)
           /\ queue = <<>> => recent # <<>> /\ Seen(queue, recent)[1] = recent[1]
<1> DEFINE n == Len(queue)
           seen == Seen(queue, recent)
<1>1. /\ seen \in Seq(Blocks) /\ DOMAIN seen = 1..n + Len(recent)
      /\ Len(seen) = n + Len(recent)
      /\ \A i \in 1..n + Len(recent) :
           seen[i] = IF i <= n THEN queue[n - i + 1] ELSE recent[i - n]
      /\ n \in Nat /\ Len(recent) \in Nat
  <2>1. n \in Nat /\ Len(recent) \in Nat OBVIOUS
  <2>2. /\ seen \in Seq(Blocks) /\ DOMAIN seen = 1..n + Len(recent)
        /\ Len(seen) = n + Len(recent)
        /\ \A i \in 1..n + Len(recent) :
             seen[i] = IF i <= n THEN queue[n - i + 1] ELSE recent[i - n]
    BY SeenFacts, Zenon
  <2> QED BY <2>1, <2>2, Zenon
<1> USE <1>1
<1>2. Len(seen) # 0 OBVIOUS
<1>3. 1 \in 1..n + Len(recent) BY <1>2
<1> USE <1>3
<1>4. ASSUME queue # <<>> PROVE seen[1] \in Range(queue)
  <2>1. n # 0 /\ DOMAIN queue = 1..n BY <1>4
  <2>2. 1 <= n /\ n - 1 + 1 \in 1..n BY <2>1
  <2> HIDE DEF n, seen
  <2> QED BY <2>1, <2>2, Zenon DEF Range
<1>5. ASSUME queue = <<>> PROVE recent # <<>> /\ seen[1] = recent[1]
  <2>1. n = 0 BY <1>5, Zenon
  <2>2. ~(1 <= n) /\ 1 - n = 1 /\ Len(recent) # 0 BY <2>1, <1>2
  <2> HIDE DEF n, seen
  <2> QED BY <2>2
<1> QED BY <1>4, <1>5, Zenon

\* A block of the main chain is near every block the wallet has seen.
LEMMA MainIsNear ==
    ASSUME NEW top \in Blocks, NEW gone, NEW old, NEW new \in ChainTo[top],
           IsMain(top, gone, old)
    PROVE  Near(gone, old, new)
<1>1. CASE old \in gone BY <1>1, Zenon DEF Near
<1>2. CASE old \in ChainTo[top]
  <2>1. /\ \A x, y \in ChainTo[top] : Height[x] <= Height[y] => x \in ChainTo[y]
        /\ old \in Blocks /\ new \in Blocks
    BY <1>2, ChainFacts, Zenon
  <2>2. Height[old] \in Nat /\ Height[new] \in Nat BY <2>1, SyncAssumption, Zenon
  <2>3. Height[old] <= Height[new] \/ Height[new] <= Height[old] BY <2>2
  <2> QED BY <2>1, <2>3, <1>2, Zenon DEF Near
<1> QED BY <1>1, <1>2, Zenon DEF IsMain

\* What the proofs of the steps use of the types.
LEMMA SyncTypes ==
    ASSUME SyncInv
    PROVE  /\ stored \in Seq(Blocks) /\ status \in StatusType
           /\ status.recent \in Seq(Blocks) /\ status.checkpoints \in Seq(Blocks)
           /\ Len(status.recent) <= RecentSize /\ RecentSize \in Nat \ {0}
           /\ startHeight \in ScanHeights /\ startHeight \in Nat
           /\ tip \in Blocks /\ left \subseteq Blocks
           /\ Height[tip] \in Nat /\ MainChain = ChainTo[tip] /\ MainChain \subseteq Blocks
           /\ request # <<>> => request[1] \in Seq(Blocks)
<1>1. SyncTypeOK /\ left \subseteq Blocks BY Zenon DEF SyncInv, TypeInv
<1>2. /\ stored \in Seq(Blocks) /\ status \in StatusType /\ startHeight \in ScanHeights
      /\ Len(status.recent) <= RecentSize /\ tip \in Blocks
      /\ request \in Seq(Seq(Blocks))
  BY <1>1, Zenon DEF SyncTypeOK
<1> USE <1>2
<1>3. status.recent \in Seq(Blocks) /\ status.checkpoints \in Seq(Blocks)
  BY Zenon DEF StatusType
<1>4. request # <<>> => request[1] \in Seq(Blocks) OBVIOUS
<1> QED BY <1>1, <1>3, <1>4, SyncAssumption, Zenon DEF MainChain

\* The daemon is asked with the newest blocks and the checkpoints.
LEMMA AskStep ==
    ASSUME SyncInv
    PROVE  RequestInv(tip, left, startHeight, wallet = {} /\ stored = <<>>,
                      BlockCheckpoints, Seen(stored, status.recent))
<1> DEFINE seen == Seen(stored, status.recent)
           hashes == BlockCheckpoints
           cs == status.checkpoints
           n == IF RecentSize < Len(seen) THEN RecentSize ELSE Len(seen)
           isNew == wallet = {} /\ stored = <<>>
<1>1. /\ stored \in Seq(Blocks) /\ status \in StatusType /\ status.recent \in Seq(Blocks)
      /\ cs \in Seq(Blocks) /\ RecentSize \in Nat \ {0}
  BY SyncTypes, Zenon
<1> USE <1>1
<1>2. /\ hashes \in Seq(Blocks) /\ Len(hashes) = n + Len(cs)
      /\ \A k \in 1..n : hashes[k] = seen[k]
      /\ \A k \in 1..Len(cs) : hashes[n + k] = cs[k]
  BY CheckpointsFacts, Zenon
<1> USE <1>2
<1>3. /\ seen \in Seq(Blocks) /\ DOMAIN seen = 1..Len(seen)
      /\ \A i \in DOMAIN seen : seen[i] \in Range(stored) \cup Range(status.recent)
  <2>1. /\ seen \in Seq(Blocks)
        /\ \A i \in DOMAIN seen : seen[i] \in Range(stored) \cup Range(status.recent)
    BY SeenFacts, SeenElements, Zenon
  <2> HIDE DEF seen
  <2> QED BY ONLY <2>1
<1> USE <1>3
<1>4. StatusInv(tip, left, startHeight, stored, status, wallet) BY Zenon DEF SyncInv
<1> USE <1>4
<1>5. IsOrdered(left, startHeight, seen) BY Zenon DEF StatusInv
<1>6. isNew => \A b \in Range(status.recent) \cup Range(cs) : Height[b] < startHeight
  BY Zenon DEF StatusInv, HoldsChain
<1>7. isNew => Range(stored) = {} BY DEF Range
<1>8. seen # <<>> =>
        /\ 1 \in DOMAIN seen
        /\ stored # <<>> => seen[1] \in Range(stored)
        /\ stored = <<>> => status.recent # <<>> /\ seen[1] = status.recent[1]
  BY SeenFirst, Zenon
<1> HIDE DEF seen, hashes, cs, isNew
<1>9. n \in Nat /\ Len(cs) \in Nat /\ n <= RecentSize /\ 1..n \subseteq DOMAIN seen
      /\ DOMAIN hashes = 1..n + Len(cs)
  OBVIOUS
<1> USE <1>9
<1>10. ASSUME NEW k \in DOMAIN seen, k <= RecentSize
       PROVE  k \in DOMAIN hashes /\ hashes[k] = seen[k]
  <2>1. k \in 1..n BY <1>10
  <2> QED BY <2>1
<1>11. ASSUME NEW k \in 1..n
       PROVE  /\ IsMain(tip, left, hashes[k])
              /\ seen # <<>> => Near(left, hashes[k], seen[1])
              /\ hashes[k] = Genesis =>
                   \E j \in DOMAIN seen : j <= k /\ j <= RecentSize /\ seen[j] = Genesis
              /\ isNew => Height[hashes[k]] < startHeight
  <2>1. k \in DOMAIN seen /\ hashes[k] = seen[k] /\ k <= RecentSize /\ k \in Nat \ {0}
    OBVIOUS
  <2> USE <2>1
  <2>2. seen[k] \in Range(stored) \cup Range(status.recent) BY Zenon
  <2>3. IsMain(tip, left, seen[k]) BY <2>2, Zenon DEF StatusInv
  <2>4. 1 \in DOMAIN seen OBVIOUS
  <2>5. Near(left, seen[k], seen[1])
    <3>1. CASE k = 1
      <4>1. seen[1] \in Blocks BY <2>4
      <4> QED BY <3>1, <4>1, ChainFacts, Zenon DEF Near
    <3>2. CASE k # 1
      <4>1. 1 < k BY <3>2
      <4> QED BY <4>1, <2>4, <1>5, Zenon DEF IsOrdered
    <3> QED BY <3>1, <3>2, Zenon
  <2>6. isNew => Height[seen[k]] < startHeight BY <2>2, <1>6, <1>7, Zenon
  <2>7. k <= k OBVIOUS
  <2> QED BY <2>3, <2>5, <2>6, <2>7, Zenon
<1>12. ASSUME NEW k \in 1..Len(cs)
       PROVE  /\ IsMain(tip, left, cs[k]) /\ cs[k] # Genesis
              /\ seen # <<>> => Near(left, cs[k], seen[1])
              /\ isNew => Height[cs[k]] < startHeight
  <2>1. cs[k] \in Range(cs) BY DEF Range
  <2>2. ChecksAreNear(tip, left, stored, status) BY Zenon DEF StatusInv
  <2> QED BY <2>1, <2>2, <1>6, <1>8, Zenon DEF ChecksAreNear, cs
<1>13. ASSUME NEW k \in DOMAIN hashes
       PROVE  /\ IsMain(tip, left, hashes[k])
              /\ seen # <<>> => Near(left, hashes[k], seen[1])
              /\ hashes[k] = Genesis =>
                   \E j \in DOMAIN seen : j <= k /\ j <= RecentSize /\ seen[j] = Genesis
              /\ isNew => Height[hashes[k]] < startHeight
  <2>1. CASE k \in 1..n BY <2>1, <1>11, Zenon
  <2>2. CASE k \notin 1..n
    <3> HIDE DEF n
    <3>1. k - n \in 1..Len(cs) /\ k = n + (k - n) BY <2>2
    <3>2. hashes[k] = cs[k - n] BY <3>1, Zenon
    <3> QED BY <3>1, <3>2, <1>12, Zenon
  <2> QED BY <2>1, <2>2, Zenon
<1>14. RequestInv(tip, left, startHeight, isNew, hashes, seen)
  BY <1>10, <1>13, Zenon DEF RequestInv
<1> QED BY <1>14, Zenon DEF isNew, hashes, seen

\* A saved wallet is one that has no blocks waiting.
LEMMA SavedStatus ==
    ASSUME NEW top, NEW gone, NEW from, NEW queue \in Seq(Blocks), NEW st, NEW held,
           st.recent \in Seq(Blocks), StatusInv(top, gone, from, queue, st, held)
    PROVE  StatusInv(top, gone, from, <<>>, st, held)
<1> DEFINE part == Seen(<<>>, st.recent)
           seen == Seen(queue, st.recent)
           m == Len(queue)
           n == Len(st.recent)
<1>1. m \in Nat /\ n \in Nat /\ RecentSize \in Nat BY SyncAssumption
<1>2. DOMAIN seen = 1..m + n
      /\ \A i \in 1..m + n : seen[i] = IF i <= m THEN queue[m - i + 1] ELSE st.recent[i - m]
  BY SeenFacts, Zenon
<1>3. DOMAIN part = 1..n /\ \A i \in 1..n : part[i] = st.recent[i]
  BY <1>1 DEF Seen
<1> HIDE DEF m, n, part, seen
<1>4. ASSUME NEW i \in 1..n PROVE part[i] = seen[m + i]
  <2>1. m + i \in 1..m + n /\ ~(m + i <= m) /\ m + i - m = i BY <1>1
  <2> QED BY <2>1, <1>1, <1>2, <1>3
<1>5. IsOrdered(gone, from, seen) BY Zenon DEF StatusInv, seen
<1>6. IsOrdered(gone, from, part)
  BY ONLY <1>1, <1>2, <1>3, <1>4, <1>5, SuffixIsOrdered
<1>7. Range(<<>>) = {} BY DEF Range
<1>8. ChecksAreNear(top, gone, <<>>, st) BY <1>7, Zenon DEF StatusInv, ChecksAreNear
<1>9. HoldsChain(from, <<>>, st, held) BY Zenon DEF StatusInv, HoldsChain
<1> QED BY <1>6, <1>7, <1>8, <1>9, Zenon DEF StatusInv, part
-----------------------------------------------------------------------------
(* The daemon answers. *)

\* The block the answer starts after: x is in the main chain and in the chain of
\* the newest block seen, and the newest such block among the recent ones.
IsCommon(top, from, start, seen, x) ==
    /\ x \in ChainTo[top] /\ x \in ChainTo[seen[1]]
    /\ \A q \in DOMAIN seen : q <= RecentSize /\ seen[q] \in ChainTo[top] =>
         seen[q] \in ChainTo[x]
    /\ start = from \/ start = Height[x] + 1
    /\ \/ start > Height[x]
       \/ start = 0 /\ from = 0 /\ x = Genesis /\ seen[1] = Genesis

\* A fork just above the genesis block does not happen: when the genesis block
\* is the first hash in the main chain it is the newest block seen.
LEMMA GenesisIsNewest ==
    ASSUME Regular, 0 \in ScanHeights,
           NEW top \in Blocks, NEW gone, NEW n \in Nat \ {0}, NEW seen,
           DOMAIN seen = 1..n, IsOrdered(gone, 0, seen),
           \A i \in 1..n : seen[i] \in Blocks /\ IsMain(top, gone, seen[i]),
           NEW m \in 1..n, seen[m] = Genesis,
           \A i \in 1..n : i < m => seen[i] \notin ChainTo[top]
    PROVE  seen[1] = Genesis
<1>1. CASE m = 1 BY <1>1, Zenon
<1>2. CASE m # 1
  <2> DEFINE r == seen[m - 1]
  <2>1. m - 1 \in 1..n /\ m - 1 < m /\ m = (m - 1) + 1 BY <1>2
  <2>2. r \in Blocks /\ IsMain(top, gone, r) /\ r \notin ChainTo[top] BY <2>1, Zenon
  <2> USE <2>2
  <2>3. CanFollow(0, Genesis, r) BY <2>1, Zenon DEF IsOrdered
  <2> HIDE DEF r
  <2>4. Genesis \in ChainTo[top] BY ChainFacts, Zenon
  <2>5. r # Genesis /\ Prev[r] \in ChainTo[Genesis] BY <2>3, <2>4, Zenon DEF CanFollow
  <2>6. Prev[r] = Genesis /\ Height[Genesis] = 0 /\ Height[Prev[r]] + 1 = Height[r]
    BY <2>5, SyncAssumption, PrevFacts, Zenon
  <2>7. Height[r] = 1 BY <2>6
  <2>8. Height[top] \in Nat /\ 1 <= Height[top] BY <2>7, ChainFacts, Zenon DEF IsMain
  <2>9. 1 \in 0..Height[top] BY <2>8
  <2>10. PICK y \in ChainTo[top] : Height[y] = 1 BY <2>9, ChainFacts, Zenon
  <2>11. y \in Blocks BY ChainFacts, Zenon
  <2>12. y = r BY <2>7, <2>10, <2>11, Zenon DEF Regular
  <2> QED BY <2>12, Zenon
<1> QED BY <1>1, <1>2, Zenon

\* The first hash of the request that is in the main chain is that block.
LEMMA FirstKnown ==
    ASSUME Regular, NEW top \in Blocks, NEW gone, NEW from \in ScanHeights, NEW isNew,
           NEW hashes \in Seq(Blocks), NEW n \in Nat \ {0}, NEW seen, NEW start,
           DOMAIN seen = 1..n, IsOrdered(gone, from, seen),
           \A i \in 1..n : seen[i] \in Blocks /\ IsMain(top, gone, seen[i]),
           RequestInv(top, gone, from, isNew, hashes, seen),
           ChainTo[top] \cap gone = {},
           NEW m \in DOMAIN hashes, hashes[m] \in ChainTo[top],
           \A j \in DOMAIN hashes : j < m => hashes[j] \notin ChainTo[top],
           start = IF Height[hashes[m]] = 0 \/ from >= Height[hashes[m]] + 1
                   THEN from ELSE Height[hashes[m]] + 1
    PROVE  IsCommon(top, from, start, seen, hashes[m])
<1> DEFINE x == hashes[m]
<1>1. x \in Blocks /\ Height[x] \in Nat /\ m \in Nat \ {0} /\ RecentSize \in Nat \ {0}
  <2>1. x \in Blocks /\ m \in Nat \ {0} BY SMTT(30)
  <2> QED BY <2>1, SyncAssumption, Zenon
<1> USE <1>1
<1>a. from \in Nat BY SyncAssumption, Zenon
<1>2. ASSUME NEW k \in 1..n, k <= RecentSize
      PROVE  k \in DOMAIN hashes /\ hashes[k] = seen[k]
  BY <1>2, Zenon DEF RequestInv
<1>3. 1 \in 1..n /\ 1 <= RecentSize OBVIOUS
<1>4. 1 \in DOMAIN hashes /\ hashes[1] = seen[1] BY <1>2, <1>3, Zenon
<1>5. x \in ChainTo[seen[1]]
  <2>1. CASE m = 1 BY <2>1, <1>4, ChainFacts, Zenon
  <2>2. CASE m # 1
    <3>1. 1 < m BY <2>2
    <3>2. seen[1] \notin ChainTo[top] BY <3>1, <1>4, Zenon
    <3>3. seen # <<>> BY <1>3
    <3>4. Near(gone, x, seen[1]) BY <3>3, Zenon DEF RequestInv
    <3>5. ChainTo[x] \subseteq ChainTo[top] BY ChainFacts, Zenon
    <3> QED BY <3>2, <3>4, <3>5, Zenon DEF Near
  <2> QED BY <2>1, <2>2, Zenon
<1>6. ASSUME NEW q \in 1..n, q <= RecentSize, seen[q] \in ChainTo[top]
      PROVE  /\ m <= q /\ m \in 1..n /\ m <= RecentSize /\ seen[m] = x
             /\ seen[q] \in ChainTo[x]
  <2> USE <1>6
  <2>1. q \in DOMAIN hashes /\ hashes[q] = seen[q] BY <1>2, Zenon
  <2>2. ~(q < m) BY <2>1, Zenon
  <2>3. m <= q /\ m \in 1..n /\ m <= RecentSize /\ q <= m + RecentSize
    BY <2>2
  <2> USE <2>3
  <2>4. seen[m] = x BY <1>2, Zenon
  <2>5. CASE q = m BY <2>4, <2>5, ChainFacts, Zenon
  <2>6. CASE q # m
    <3>1. m < q BY <2>6
    <3>2. seen[q] \in gone \cup ChainTo[seen[m]] BY <3>1, Zenon DEF IsOrdered
    <3> QED BY <3>2, <2>4, Zenon
  <2> QED BY <2>4, <2>5, <2>6, Zenon
<1> HIDE DEF x
<1>7. start = IF Height[x] = 0 \/ from >= Height[x] + 1 THEN from ELSE Height[x] + 1
  BY Zenon DEF x
<1>8. start = from \/ start = Height[x] + 1 BY <1>7, Zenon
<1>9. start > Height[x] \/ (start = 0 /\ from = 0 /\ Height[x] = 0) BY <1>7, <1>a
<1>10. ASSUME from = 0, Height[x] = 0 PROVE x = Genesis /\ seen[1] = Genesis
  <2>1. x = Genesis BY <1>10, PrevFacts, Zenon
  <2>2. PICK j \in DOMAIN seen : j <= m /\ j <= RecentSize /\ seen[j] = Genesis
    BY <2>1, Zenon DEF RequestInv, x
  <2>3. Genesis \in ChainTo[top] BY ChainFacts, Zenon
  <2>4. m \in 1..n /\ m <= RecentSize /\ seen[m] = Genesis
    BY <2>1, <2>2, <2>3, <1>6, Zenon
  <2>5. ASSUME NEW i \in 1..n, i < m PROVE seen[i] \notin ChainTo[top]
    <3>1. i <= RecentSize BY <2>4, <2>5
    <3> QED BY <3>1, <2>5, <1>2, Zenon
  <2>6. seen[1] = Genesis
    <3>1. IsOrdered(gone, 0, seen) /\ 0 \in ScanHeights BY <1>10, Zenon
    <3>2. m \in 1..n /\ seen[m] = Genesis BY <2>4, Zenon
    <3>3. \A i \in 1..n : i < m => seen[i] \notin ChainTo[top] BY <2>5, Zenon
    <3> QED BY <3>1, <3>2, <3>3, GenesisIsNewest, Zenon
  <2> QED BY <2>1, <2>6, Zenon
<1>11. IsCommon(top, from, start, seen, x)
  BY <1>5, <1>6, <1>8, <1>9, <1>10, Zenon DEF IsCommon, x
<1> QED BY <1>11, Zenon DEF x

\* Two blocks of the answer.
LEMMA AnswerIsOrdered ==
    ASSUME NEW top \in Blocks, NEW old \in ChainTo[top], NEW new \in ChainTo[top],
           Height[old] < Height[new]
    PROVE  /\ old \in ChainTo[new] /\ old # new
           /\ Height[new] = Height[old] + 1 => new # Genesis /\ Prev[new] \in ChainTo[old]
<1>1. old \in Blocks /\ new \in Blocks BY ChainFacts, Zenon
<1> USE <1>1
<1>2. Height[old] \in Nat /\ Height[new] \in Nat BY SyncAssumption, Zenon
<1> USE <1>2
<1>3. old \in ChainTo[new] /\ old # new BY ChainFacts
<1>4. ASSUME Height[new] = Height[old] + 1
      PROVE  new # Genesis /\ Prev[new] \in ChainTo[old]
  <2>1. Height[new] # 0 BY <1>4
  <2>2. new # Genesis BY <2>1, SyncAssumption, Zenon
  <2>3. Prev[new] \in Blocks /\ Prev[new] \in ChainTo[new]
        /\ Height[new] = Height[Prev[new]] + 1
    BY <2>2, PrevFacts, Zenon
  <2> USE <2>3
  <2>4. Height[Prev[new]] \in Nat BY SyncAssumption, Zenon
  <2>5. Height[Prev[new]] = Height[old] BY <2>4, <1>4
  <2>6. Prev[new] \in ChainTo[top] BY ChainFacts, Zenon
  <2>7. Prev[new] = old BY <2>5, <2>6, ChainFacts
  <2> QED BY <2>2, <2>7, ChainFacts, Zenon
<1> QED BY <1>3, <1>4, Zenon

\* A block of the answer, d blocks above its first one, and a block seen before.
ComesAfter(gone, from, seen, new, d, q) ==
    /\ q + d <= RecentSize => seen[q] \in gone \cup ChainTo[new]
    /\ q + d <= RecentSize /\ seen[q] = new => d = 0 /\ \A j \in 1..q : seen[j] = new
    /\ d = 0 => CanFollow(from, seen[1], new)

\* The answer comes after what was seen.
LEMMA NewAndOld ==
    ASSUME NEW top \in Blocks, NEW gone, NEW from \in Nat, NEW start \in Nat,
           NEW n \in Nat \ {0}, NEW seen, NEW x,
           DOMAIN seen = 1..n, IsOrdered(gone, from, seen),
           \A i \in 1..n : seen[i] \in Blocks /\ IsMain(top, gone, seen[i]),
           IsCommon(top, from, start, seen, x),
           NEW new \in ChainTo[top], NEW d \in Nat, Height[new] = start + d,
           NEW q \in 1..n
    PROVE  ComesAfter(gone, from, seen, new, d, q)
<1>1. /\ x \in Blocks /\ new \in Blocks /\ seen[q] \in Blocks /\ RecentSize \in Nat
      /\ 1 \in 1..n /\ seen[1] \in Blocks
  BY ChainFacts, SyncAssumption DEF IsCommon
<1> USE <1>1
<1>2. Height[x] \in Nat /\ Height[new] \in Nat /\ Height[seen[q]] \in Nat
  BY SyncAssumption, Zenon
<1> USE <1>2
<1>3. start >= Height[x]
  <2>1. Height[Genesis] = 0 BY SyncAssumption, Zenon
  <2>2. start > Height[x] \/ (start = 0 /\ x = Genesis) BY Zenon DEF IsCommon
  <2> QED BY <2>1, <2>2
<1>4. x \in ChainTo[new]
  <2>1. Height[x] <= Height[new] BY <1>3
  <2> QED BY <2>1, ChainFacts, Zenon DEF IsCommon
<1>5. ASSUME q + d <= RecentSize, seen[q] \in ChainTo[top]
      PROVE  seen[q] \in ChainTo[x] /\ Height[seen[q]] <= Height[x]
  <2>1. q <= RecentSize BY <1>5
  <2>2. seen[q] \in ChainTo[x] BY <2>1, <1>5, Zenon DEF IsCommon
  <2> QED BY <2>2, ChainFacts, Zenon
<1>6. ASSUME q + d <= RecentSize PROVE seen[q] \in gone \cup ChainTo[new]
  <2>1. CASE seen[q] \in gone BY <2>1, Zenon
  <2>2. CASE seen[q] \in ChainTo[top]
    <3>1. ChainTo[x] \subseteq ChainTo[new] BY <1>4, ChainFacts, Zenon
    <3> QED BY <3>1, <2>2, <1>5, <1>6, Zenon
  <2> QED BY <2>1, <2>2, Zenon DEF IsMain
<1>7. ASSUME q + d <= RecentSize, seen[q] = new
      PROVE  d = 0 /\ \A j \in 1..q : seen[j] = new
  <2> USE <1>7
  <2>1. Height[new] <= Height[x] BY <1>5, Zenon
  <2>2. start <= Height[x] /\ d = 0 BY <2>1, <1>3
  <2>3. ~(start > Height[x]) BY <2>2
  <2>4. start = 0 /\ seen[1] = Genesis BY <2>3, Zenon DEF IsCommon
  <2> USE <2>4
  <2>5. Height[new] = 0 BY <2>2
  <2>6. new = Genesis BY <2>5, PrevFacts, Zenon
  <2>7. CASE q = 1 BY <2>7, <2>2
  <2>8. CASE q # 1
    <3>1. 1 < q /\ q <= 1 + RecentSize BY <2>8
    <3>2. \A j \in 1..q : seen[j] = seen[1]
      BY <3>1, <2>6 DEF IsOrdered
    <3> QED BY <3>2, <2>2, <2>6, Zenon
  <2> QED BY <2>7, <2>8, Zenon
<1>8. ASSUME d = 0 PROVE CanFollow(from, seen[1], new)
  <2>1. Height[new] = start BY <1>8
  <2> USE <2>1
  <2>2. CASE start > Height[x] /\ start = Height[x] + 1
    <3>1. new # Genesis /\ Prev[new] \in ChainTo[x]
      BY <2>2, AnswerIsOrdered, Zenon DEF IsCommon
    <3>2. ChainTo[x] \subseteq ChainTo[seen[1]] BY ChainFacts, Zenon DEF IsCommon
    <3> QED BY <3>1, <3>2, Zenon DEF CanFollow
  <2>3. CASE start > Height[x] /\ start = from
    <3>1. Height[new] <= from /\ from # 0 BY <2>3
    <3> QED BY <3>1, Zenon DEF CanFollow
  <2>4. CASE start = 0 /\ seen[1] = Genesis
    <3>1. new = Genesis BY <2>4, PrevFacts, Zenon
    <3> QED BY <3>1, <2>4, Zenon DEF CanFollow
  <2> QED BY <2>2, <2>3, <2>4, Zenon DEF IsCommon
<1> QED BY <1>6, <1>7, <1>8, Zenon DEF ComesAfter

\* The m blocks of an answer are put before the n blocks seen.
IsAdded(top, gone, from, start, seen, n, blocks, m, both) ==
    /\ top \in Blocks /\ from \in Nat /\ start \in Nat /\ m \in Nat /\ n \in Nat
    /\ DOMAIN seen = 1..n /\ IsOrdered(gone, from, seen)
    /\ \A i \in 1..n : seen[i] \in Blocks /\ IsMain(top, gone, seen[i])
    /\ \A i \in 1..m : blocks[i] \in ChainTo[top] /\ Height[blocks[i]] = start + i - 1
    /\ DOMAIN both = 1..m + n
    /\ \A i \in 1..m : both[i] = blocks[m - i + 1]
    /\ \A i \in 1..n : both[m + i] = seen[i]
    /\ n # 0 => \E x : IsCommon(top, from, start, seen, x)

\* The answer extends what was seen.
LEMMA AddedIsOrdered ==
    ASSUME NEW top, NEW gone, NEW from, NEW start, NEW seen, NEW n, NEW blocks, NEW m,
           NEW both, IsAdded(top, gone, from, start, seen, n, blocks, m, both)
    PROVE  IsOrdered(gone, from, both)
<1> SUFFICES ASSUME top \in Blocks, from \in Nat, start \in Nat, m \in Nat, n \in Nat,
                    DOMAIN seen = 1..n, IsOrdered(gone, from, seen),
                    \A i \in 1..n : seen[i] \in Blocks /\ IsMain(top, gone, seen[i]),
                    \A i \in 1..m : /\ blocks[i] \in ChainTo[top]
                                    /\ Height[blocks[i]] = start + i - 1,
                    DOMAIN both = 1..m + n,
                    \A i \in 1..m : both[i] = blocks[m - i + 1],
                    \A i \in 1..n : both[m + i] = seen[i],
                    n # 0 => \E x : IsCommon(top, from, start, seen, x)
             PROVE  IsOrdered(gone, from, both)
  BY Zenon DEF IsAdded
<1>1. RecentSize \in Nat BY SyncAssumption, Zenon
<1>2. ASSUME NEW i \in 1..m
      PROVE  both[i] \in ChainTo[top] /\ Height[both[i]] = start + (m - i)
  <2>1. m - i + 1 \in 1..m /\ start + (m - i + 1) - 1 = start + (m - i) OBVIOUS
  <2> QED BY <2>1, Zenon
<1> SUFFICES ASSUME NEW i \in 1..m + n, NEW k \in 1..m + n, i < k
             PROVE  /\ Near(gone, both[k], both[i])
                    /\ k <= i + RecentSize => both[k] \in gone \cup ChainTo[both[i]]
                    /\ k <= i + RecentSize /\ both[k] = both[i] =>
                         \A j \in i..k : both[j] = both[i]
                    /\ k = i + 1 => CanFollow(from, both[k], both[i])
  BY Zenon DEF IsOrdered
<1>3. CASE k <= m
  <2>1. i \in 1..m /\ k \in 1..m BY <1>3
  <2> USE <2>1
  <2>2. /\ both[i] \in ChainTo[top] /\ both[k] \in ChainTo[top]
        /\ Height[both[i]] = start + (m - i) /\ Height[both[k]] = start + (m - k)
    BY <1>2, Zenon
  <2>3. Height[both[k]] < Height[both[i]] BY <2>2
  <2>4. k = i + 1 => Height[both[i]] = Height[both[k]] + 1 BY <2>2
  <2>5. /\ both[k] \in ChainTo[both[i]] /\ both[k] # both[i]
        /\ k = i + 1 => both[i] # Genesis /\ Prev[both[i]] \in ChainTo[both[k]]
    <3>1. top \in Blocks BY Zenon
    <3> QED BY ONLY <3>1, <2>2, <2>3, <2>4, AnswerIsOrdered, Zenon
  <2> QED BY <2>5, Zenon DEF Near, CanFollow
<1>4. CASE i <= m /\ m < k
  <2> DEFINE q == k - m
             d == m - i
  <2>1. i \in 1..m /\ q \in 1..n /\ d \in Nat /\ n \in Nat \ {0} /\ m + q = k
        /\ (k <= i + RecentSize => q + d <= RecentSize)
        /\ (k = i + 1 => d = 0 /\ q = 1)
    BY <1>1, <1>4
  <2>2. both[k] = seen[q] BY <2>1, Zenon
  <2>3. both[i] \in ChainTo[top] /\ Height[both[i]] = start + d BY <2>1, <1>2, Zenon
  <2> HIDE DEF q, d
  <2>4. PICK x : IsCommon(top, from, start, seen, x) BY <2>1, Zenon
  <2>5. /\ q + d <= RecentSize => seen[q] \in gone \cup ChainTo[both[i]]
        /\ q + d <= RecentSize /\ seen[q] = both[i] =>
             d = 0 /\ \A j \in 1..q : seen[j] = both[i]
        /\ d = 0 => CanFollow(from, seen[1], both[i])
    <3>1. /\ top \in Blocks /\ from \in Nat /\ start \in Nat
          /\ DOMAIN seen = 1..n /\ IsOrdered(gone, from, seen)
          /\ \A l \in 1..n : seen[l] \in Blocks /\ IsMain(top, gone, seen[l])
      BY Zenon
    <3>2. PICK new : new = both[i] BY Zenon
    <3>3. new \in ChainTo[top] /\ Height[new] = start + d BY <3>2, <2>3, Zenon
    <3>4. n \in Nat \ {0} /\ d \in Nat /\ q \in 1..n BY <2>1, Zenon
    <3>5. ComesAfter(gone, from, seen, new, d, q)
      BY ONLY <3>1, <3>3, <3>4, <2>4, NewAndOld, Zenon
    <3> QED BY <3>2, <3>5, Zenon DEF ComesAfter
  <2>6. Near(gone, both[k], both[i]) BY <2>1, <2>2, <2>3, MainIsNear, Zenon
  <2>7. ASSUME k <= i + RecentSize, both[k] = both[i], NEW j \in i..k
        PROVE  both[j] = both[i]
    <3>1. d = 0 /\ \A l \in 1..q : seen[l] = both[i] BY <2>1, <2>2, <2>5, <2>7, Zenon
    <3>2. i = m BY ONLY <3>1, i \in Int, m \in Int DEF d
    <3>3. CASE j = i BY <3>3, Zenon
    <3>4. CASE j # i
      <4>1. j - m \in 1..q /\ j - m \in 1..n /\ m + (j - m) = j
        BY <2>1, <3>2, <3>4, SMTT(30) DEF q
      <4> QED BY <4>1, <3>1, SMTT(30)
    <3> QED BY <3>3, <3>4, Zenon
  <2> QED BY <2>1, <2>2, <2>5, <2>6, <2>7, Zenon
<1>5. CASE m < i
  <2> DEFINE p == i - m
             q == k - m
  <2>1. /\ p \in 1..n /\ q \in 1..n /\ p < q /\ m + p = i /\ m + q = k
        /\ k <= i + RecentSize => q <= p + RecentSize
        /\ k = i + 1 => q = p + 1
    <3>1. i \in Nat /\ k \in Nat /\ i < k /\ k <= m + n OBVIOUS
    <3> USE <3>1
    <3>2. p \in 1..n /\ q \in 1..n /\ p < q BY ONLY <3>1, <1>5, m \in Nat, n \in Nat
    <3>3. m + p = i /\ m + q = k OBVIOUS
    <3>4. k <= i + RecentSize => q <= p + RecentSize BY <1>1
    <3>5. k = i + 1 => q = p + 1 OBVIOUS
    <3> QED BY <3>2, <3>3, <3>4, <3>5, Zenon
  <2> USE <2>1
  <2>2. both[i] = seen[p] /\ both[k] = seen[q] BY Zenon
  <2>3. \A j \in i..k : j - m \in p..q /\ j - m \in 1..n /\ m + (j - m) = j BY <1>5
  <2>4. \A j \in i..k : j - m \in p..q /\ both[j] = seen[j - m] BY <2>3, Zenon
  <2> HIDE DEF p, q
  <2>5. /\ Near(gone, seen[q], seen[p])
        /\ q <= p + RecentSize => seen[q] \in gone \cup ChainTo[seen[p]]
        /\ q <= p + RecentSize /\ seen[q] = seen[p] => \A j \in p..q : seen[j] = seen[p]
        /\ q = p + 1 => CanFollow(from, seen[q], seen[p])
    BY Zenon DEF IsOrdered
  <2> QED BY <2>2, <2>4, <2>5, Zenon
<1>6. k <= m \/ (i <= m /\ m < k) \/ m < i
  BY ONLY i \in Int, k \in Int, m \in Int
<1> QED BY <1>3, <1>4, <1>5, <1>6, Zenon

\* Where the answer to a request of the wallet starts.
LEMMA AnswerStart ==
    ASSUME Regular, SyncInv, request # <<>>, CanAnswer(request[1])
    PROVE  /\ StartIndex(request[1]) \in Nat /\ StartIndex(request[1]) >= startHeight
           /\ wallet = {} /\ stored = <<>> => StartIndex(request[1]) = startHeight
           /\ Seen(stored, status.recent) # <<>> =>
                \E x : IsCommon(tip, startHeight, StartIndex(request[1]),
                                Seen(stored, status.recent), x)
<1> DEFINE hashes == request[1]
           seen == Seen(stored, status.recent)
           start == StartIndex(hashes)
           isNew == wallet = {} /\ stored = <<>>
<1>1. /\ tip \in Blocks /\ startHeight \in ScanHeights /\ startHeight \in Nat
      /\ hashes \in Seq(Blocks)
      /\ stored \in Seq(Blocks) /\ status.recent \in Seq(Blocks)
      /\ MainChain = ChainTo[tip] /\ RecentSize \in Nat \ {0}
  BY SyncTypes, Zenon
<1> USE <1>1
<1>2. /\ start \in Nat
      /\ hashes = <<>> => start = startHeight
      /\ hashes # <<>> =>
           \E m \in DOMAIN hashes :
              /\ hashes[m] \in MainChain
              /\ \A j \in DOMAIN hashes : j < m => hashes[j] \notin MainChain
              /\ start = IF Height[hashes[m]] = 0 \/ startHeight >= Height[hashes[m]] + 1
                         THEN startHeight ELSE Height[hashes[m]] + 1
  <2>1. CanAnswer(hashes) BY Zenon
  <2> QED BY ONLY <2>1, <1>1, StartFacts, Zenon
<1> USE <1>2
<1>3. RequestInv(tip, left, startHeight, isNew, hashes, seen) BY Zenon DEF SyncInv
<1>4. /\ StatusInv(tip, left, startHeight, stored, status, wallet)
      /\ ChainTo[tip] \cap left = {}
  BY Zenon DEF SyncInv
<1>5. /\ IsOrdered(left, startHeight, seen)
      /\ \A b \in Range(stored) \cup Range(status.recent) : IsMain(tip, left, b)
  BY <1>4, Zenon DEF StatusInv
<1>6. /\ seen \in Seq(Blocks) /\ DOMAIN seen = 1..Len(seen) /\ Len(seen) \in Nat
      /\ \A i \in DOMAIN seen : seen[i] \in Range(stored) \cup Range(status.recent)
  <2>1. seen \in Seq(Blocks) BY ONLY <1>1, SeenFacts, Zenon
  <2>2. \A i \in DOMAIN seen : seen[i] \in Range(stored) \cup Range(status.recent)
    BY ONLY <1>1, SeenElements, Zenon
  <2> HIDE DEF seen
  <2>3. DOMAIN seen = 1..Len(seen) /\ Len(seen) \in Nat BY <2>1
  <2> QED BY <2>1, <2>2, <2>3, Zenon
<1> USE <1>6
<1> HIDE DEF hashes, seen, start, isNew
<1>7. \A i \in 1..Len(seen) : seen[i] \in Blocks /\ IsMain(tip, left, seen[i])
  BY <1>5
<1>8. CASE hashes = <<>>
  <2> USE <1>8
  <2>1. ASSUME seen # <<>> PROVE FALSE
    <3>1. 1 \in DOMAIN seen /\ 1 <= RecentSize BY <2>1
    <3>2. 1 \in DOMAIN hashes BY <3>1, <1>3, Zenon DEF RequestInv
    <3> QED BY <3>2
  <2>2. start >= startHeight OBVIOUS
  <2> QED BY <2>1, <2>2, Zenon DEF start, hashes, seen
<1>9. CASE hashes # <<>>
  <2>1. PICK m \in DOMAIN hashes :
          /\ hashes[m] \in MainChain
          /\ \A j \in DOMAIN hashes : j < m => hashes[j] \notin MainChain
          /\ start = IF Height[hashes[m]] = 0 \/ startHeight >= Height[hashes[m]] + 1
                     THEN startHeight ELSE Height[hashes[m]] + 1
    BY <1>9, Zenon
  <2> USE <2>1
  <2>2. hashes[m] \in Blocks OBVIOUS
  <2>3. Height[hashes[m]] \in Nat BY <2>2, SyncAssumption, Zenon
  <2>4. start >= startHeight BY <2>3
  <2>5. ASSUME isNew PROVE start = startHeight
    <3>1. Height[hashes[m]] < startHeight BY <2>5, <1>3, Zenon DEF RequestInv
    <3> QED BY <3>1, <2>3
  <2>6. ASSUME seen # <<>> PROVE IsCommon(tip, startHeight, start, seen, hashes[m])
    <3>1. Len(seen) \in Nat \ {0} BY <2>6
    <3>2. /\ m \in DOMAIN hashes /\ hashes[m] \in ChainTo[tip]
          /\ \A j \in DOMAIN hashes : j < m => hashes[j] \notin ChainTo[tip]
          /\ start = IF Height[hashes[m]] = 0 \/ startHeight >= Height[hashes[m]] + 1
                     THEN startHeight ELSE Height[hashes[m]] + 1
      BY Zenon
    <3>3. Regular /\ DOMAIN seen = 1..Len(seen) BY Zenon
    <3> QED BY ONLY <3>1, <3>2, <3>3, <1>1, <1>3, <1>4, <1>5, <1>7, FirstKnown, Zenon
  <2> QED BY <2>4, <2>5, <2>6, Zenon DEF start, hashes, seen, isNew
<1> QED BY <1>8, <1>9, Zenon

\* The blocks of the answer are stored.
LEMMA BlocksStored ==
    ASSUME Regular, SyncInv, request # <<>>, CanAnswer(request[1]),
           NEW blocks, blocks = WalletSyncData(request[1]), blocks # <<>>
    PROVE  StatusInv(tip, left, startHeight, stored \o blocks, status, wallet)
<1> DEFINE seen == Seen(stored, status.recent)
           queue == stored \o blocks
           both == Seen(queue, status.recent)
           start == StartIndex(request[1])
           m == Len(blocks)
           n == Len(seen)
           r == status.recent
<1>1. /\ tip \in Blocks /\ startHeight \in Nat
      /\ stored \in Seq(Blocks) /\ r \in Seq(Blocks)
      /\ MainChain = ChainTo[tip] /\ RecentSize \in Nat \ {0}
  BY SyncTypes, Zenon
<1>2. /\ start \in Nat /\ start >= startHeight
      /\ wallet = {} /\ stored = <<>> => start = startHeight
      /\ seen # <<>> => \E x : IsCommon(tip, startHeight, start, seen, x)
  BY AnswerStart, Zenon
<1>3. /\ blocks \in Seq(Blocks)
      /\ \A i \in 1..m : blocks[i] \in ChainTo[tip] /\ Height[blocks[i]] = start + i - 1
  <2>1. ~SkipEmpty BY Zenon DEF Regular
  <2> QED BY <2>1, <1>1, <1>2, AnswerFacts, Zenon
<1>4. StatusInv(tip, left, startHeight, stored, status, wallet)
  BY Zenon DEF SyncInv
<1>5. /\ IsOrdered(left, startHeight, seen)
      /\ \A b \in Range(stored) \cup Range(r) : IsMain(tip, left, b)
  BY <1>4, Zenon DEF StatusInv
<1>6. /\ seen \in Seq(Blocks) /\ n = Len(stored) + Len(r) /\ DOMAIN seen = 1..n
      /\ n \in Nat /\ Len(stored) \in Nat /\ Len(r) \in Nat
      /\ \A i \in 1..n : seen[i] = IF i <= Len(stored) THEN stored[Len(stored) - i + 1]
                                   ELSE r[i - Len(stored)]
      /\ \A i \in 1..n : seen[i] \in Range(stored) \cup Range(r)
  <2>1. /\ seen \in Seq(Blocks) /\ n = Len(stored) + Len(r)
        /\ DOMAIN seen = 1..Len(stored) + Len(r)
        /\ \A i \in 1..Len(stored) + Len(r) :
             seen[i] = IF i <= Len(stored) THEN stored[Len(stored) - i + 1]
                       ELSE r[i - Len(stored)]
    BY ONLY <1>1, SeenFacts, Zenon
  <2>2. \A i \in DOMAIN seen : seen[i] \in Range(stored) \cup Range(r)
    BY ONLY <1>1, SeenElements, Zenon
  <2>3. n \in Nat /\ Len(stored) \in Nat /\ Len(r) \in Nat BY <1>1, <2>1
  <2> QED BY <2>1, <2>2, <2>3, Zenon
<1>7. m \in Nat \ {0} /\ 1 \in 1..m
  <2>1. m # 0 /\ m \in Nat BY <1>3
  <2> QED BY <2>1
<1> HIDE DEF start, m, n, seen
<1>8. /\ queue \in Seq(Blocks) /\ Len(queue) = Len(stored) + m
      /\ \A i \in 1..Len(stored) : queue[i] = stored[i]
      /\ \A i \in 1..m : queue[Len(stored) + i] = blocks[i]
  BY <1>1, <1>3, ConcatFacts DEF m
<1> HIDE DEF queue
<1>9. /\ DOMAIN both = 1..m + n
      /\ \A i \in 1..m : both[i] = blocks[m - i + 1]
      /\ \A i \in 1..n : both[m + i] = seen[i]
  <2>1. /\ DOMAIN both = 1..Len(queue) + Len(r)
        /\ \A i \in 1..Len(queue) + Len(r) :
             both[i] = IF i <= Len(queue) THEN queue[Len(queue) - i + 1]
                       ELSE r[i - Len(queue)]
    BY ONLY <1>1, <1>8, SeenFacts, Zenon
  <2> HIDE DEF both, r
  <2>2. Len(queue) + Len(r) = m + n /\ Len(queue) = Len(stored) + m BY <1>6, <1>7, <1>8
  <2>3. ASSUME NEW i \in 1..m PROVE both[i] = blocks[m - i + 1]
    <3>1. /\ i \in 1..Len(queue) + Len(r) /\ i <= Len(queue) /\ m - i + 1 \in 1..m
          /\ Len(queue) - i + 1 = Len(stored) + (m - i + 1)
      BY <2>2, <1>6, <1>7
    <3>2. both[i] = queue[Len(queue) - i + 1] BY <3>1, <2>1, Zenon
    <3> QED BY <3>1, <3>2, <1>8, Zenon
  <2>4. ASSUME NEW i \in 1..n PROVE both[m + i] = seen[i]
    <3>1. m + i \in 1..Len(queue) + Len(r) BY <2>2, <1>6, <1>7
    <3>2. CASE i <= Len(stored)
      <4>1. /\ m + i <= Len(queue) /\ Len(stored) - i + 1 \in 1..Len(stored)
            /\ Len(queue) - (m + i) + 1 = Len(stored) - i + 1
        BY <3>2, <2>2, <1>6, <1>7
      <4>2. both[m + i] = queue[Len(queue) - (m + i) + 1] BY <4>1, <3>1, <2>1, Zenon
      <4>3. both[m + i] = stored[Len(stored) - i + 1] BY <4>1, <4>2, <1>8, Zenon
      <4> QED BY <4>3, <3>2, <1>6, Zenon
    <3>3. CASE ~(i <= Len(stored))
      <4>1. ~(m + i <= Len(queue)) /\ (m + i) - Len(queue) = i - Len(stored)
        BY <3>3, <2>2, <1>6, <1>7
      <4>2. both[m + i] = r[(m + i) - Len(queue)] BY <4>1, <3>1, <2>1, Zenon
      <4> QED BY <4>1, <4>2, <3>3, <1>6, Zenon
    <3> QED BY <3>2, <3>3, Zenon
  <2> QED BY <2>1, <2>2, <2>3, <2>4, Zenon
<1> HIDE DEF both
<1>10. IsOrdered(left, startHeight, both)
  <2>1. \A i \in 1..n : seen[i] \in Blocks /\ IsMain(tip, left, seen[i])
    BY <1>5, <1>6
  <2>2. n # 0 => \E x : IsCommon(tip, startHeight, start, seen, x) BY <1>2 DEF n
  <2>3. m \in Nat /\ DOMAIN seen = 1..n /\ n \in Nat /\ start \in Nat
    BY <1>2, <1>6, <1>7, Zenon
  <2>4. IsAdded(tip, left, startHeight, start, seen, n, blocks, m, both)
    BY <2>1, <2>2, <2>3, <1>1, <1>3, <1>5, <1>9, Zenon DEF IsAdded
  <2> QED BY <2>4, AddedIsOrdered, Zenon
<1>11. ASSUME NEW b \in Range(queue)
       PROVE  b \in Range(stored) \/ (b \in ChainTo[tip] /\ Height[b] >= startHeight)
  <2>1. PICK i \in 1..Len(stored) + m : b = queue[i] BY <1>8 DEF Range
  <2>2. CASE i \in 1..Len(stored) BY <2>1, <2>2, <1>1, <1>8 DEF Range
  <2>3. CASE i \notin 1..Len(stored)
    <3>1. i - Len(stored) \in 1..m /\ i = Len(stored) + (i - Len(stored))
      BY <2>1, <2>3, <1>6, <1>7
    <3> USE <3>1
    <3>2. b = blocks[i - Len(stored)] BY <2>1, <1>8, Zenon
    <3>3. b \in ChainTo[tip] /\ Height[b] = start + (i - Len(stored)) - 1
      BY <3>2, <1>3, Zenon
    <3>4. Height[b] >= startHeight BY <3>3, <1>1, <1>2
    <3> QED BY <3>3, <3>4, Zenon
  <2> QED BY <2>2, <2>3, Zenon
<1>12. \A b \in Range(queue) : IsMain(tip, left, b) /\ Height[b] >= startHeight
  <2>1. \A b \in ChainTo[tip] : IsMain(tip, left, b) BY <1>1, ChainFacts, Zenon DEF IsMain
  <2> QED BY <2>1, <1>4, <1>11, Zenon DEF StatusInv
<1>13. ChecksAreNear(tip, left, queue, status)
  <2>1. ChecksAreNear(tip, left, stored, status) BY <1>4, Zenon DEF StatusInv
  <2>2. ASSUME NEW c \in Range(status.checkpoints), NEW b \in Range(queue)
        PROVE  Near(left, c, b)
    BY <2>1, <1>1, <1>11, MainIsNear, Zenon DEF ChecksAreNear
  <2> QED BY <2>1, <2>2, Zenon DEF ChecksAreNear
<1>14. HoldsChain(startHeight, queue, status, wallet)
  <2>1. HoldsChain(startHeight, stored, status, wallet) BY <1>4, Zenon DEF StatusInv
  <2>2. ASSUME wallet = {} PROVE Height[queue[1]] = startHeight
    <3>1. CASE stored = <<>>
      <4>1. Len(stored) = 0 BY <3>1, Zenon
      <4>2. Len(stored) + 1 = 1 BY <4>1
      <4>3. queue[1] = blocks[1] BY <4>2, <1>7, <1>8, Zenon
      <4>4. Height[blocks[1]] = start + 1 - 1 BY <1>3, <1>7, Zenon
      <4>5. start + 1 - 1 = startHeight BY <3>1, <2>2, <1>1, <1>2
      <4> QED BY <4>3, <4>4, <4>5, Zenon
    <3>2. CASE stored # <<>>
      <4>1. Len(stored) # 0 BY <3>2, <1>1
      <4>2. 1 \in 1..Len(stored) BY <4>1, <1>6
      <4> QED BY <4>2, <3>2, <2>1, <2>2, <1>8, Zenon DEF HoldsChain
    <3> QED BY <3>1, <3>2, Zenon
  <2> QED BY <2>1, <2>2, Zenon DEF HoldsChain
<1>15. StatusInv(tip, left, startHeight, queue, status, wallet)
  BY <1>5, <1>10, <1>12, <1>13, <1>14, Zenon DEF StatusInv, both
<1> QED BY <1>15, Zenon DEF queue

\* The daemon's top block counts as seen.
LEMMA TopIsOrdered ==
    ASSUME NEW top \in Blocks, NEW gone, NEW from, NEW n \in Nat, NEW seen, NEW both,
           DOMAIN seen = 1..n, IsOrdered(gone, from, seen),
           \A i \in 1..n : seen[i] \in Blocks /\ IsMain(top, gone, seen[i]),
           DOMAIN both = 1..1 + n, both[1] = top,
           \A i \in 1..n : both[1 + i] = seen[i],
           ChainTo[top] \cap gone = {}, n # 0 => CanFollow(from, seen[1], top)
    PROVE  IsOrdered(gone, from, both)
<1>1. RecentSize \in Nat /\ top \in ChainTo[top] /\ Height[top] \in Nat
  BY SyncAssumption, ChainFacts, Zenon
<1> SUFFICES ASSUME NEW i \in 1..1 + n, NEW k \in 1..1 + n, i < k
             PROVE  /\ Near(gone, both[k], both[i])
                    /\ k <= i + RecentSize => both[k] \in gone \cup ChainTo[both[i]]
                    /\ k <= i + RecentSize /\ both[k] = both[i] =>
                         \A j \in i..k : both[j] = both[i]
                    /\ k = i + 1 => CanFollow(from, both[k], both[i])
  BY Zenon DEF IsOrdered
<1> DEFINE q == k - 1
<1>2. q \in 1..n /\ 1 + q = k /\ q \in Nat OBVIOUS
<1> USE <1>2
<1>3. both[k] = seen[q] BY Zenon
<1> HIDE DEF q
<1>4. CASE i = 1
  <2>1. both[i] = top BY <1>4, Zenon
  <2>2. seen[q] \in gone \cup ChainTo[top] BY Zenon DEF IsMain
  <2>3. Near(gone, seen[q], top) BY <2>2, Zenon DEF Near
  <2>4. k = i + 1 => CanFollow(from, seen[q], top) BY <1>4
  <2>5. ASSUME k <= i + RecentSize, seen[q] = top, NEW j \in i..k
        PROVE  both[j] = top
    <3>1. CASE j = 1 BY <3>1, Zenon
    <3>2. CASE j = k BY <3>2, <2>5, <1>3, Zenon
    <3>3. CASE j # 1 /\ j # k
      <4> DEFINE p == j - 1
      <4>1. p \in 1..n /\ 1 + p = j /\ p < q /\ q <= p + RecentSize
        BY <3>3, <2>5, <1>1, <1>4
      <4>2. both[j] = seen[p] BY <4>1, Zenon
      <4> HIDE DEF p
      <4>3. top \in gone \cup ChainTo[seen[p]]
        <5>1. seen[q] \in gone \cup ChainTo[seen[p]] BY <4>1, Zenon DEF IsOrdered
        <5> QED BY <5>1, <2>5, Zenon
      <4>4. top \in ChainTo[seen[p]] BY <4>3, <1>1, Zenon
      <4>5. /\ seen[p] \in Blocks /\ Height[seen[p]] <= Height[top]
            /\ seen[p] \in ChainTo[seen[p]] /\ Height[top] <= Height[seen[p]]
            /\ Height[seen[p]] \in Nat
        BY <4>1, <4>4, ChainFacts, SMTT(30) DEF IsMain
      <4>6. Height[seen[p]] = Height[top] BY ONLY <4>5, <1>1
      <4>7. seen[p] = top BY <4>4, <4>5, <4>6, ChainFacts, SMTT(30)
      <4> QED BY <4>2, <4>7, Zenon
    <3> QED BY <3>1, <3>2, <3>3, Zenon
  <2> QED BY <2>1, <2>2, <2>3, <2>4, <2>5, <1>3, Zenon
<1>5. CASE i # 1
  <2> DEFINE p == i - 1
  <2>1. /\ p \in 1..n /\ 1 + p = i /\ p < q
        /\ k <= i + RecentSize => q <= p + RecentSize
        /\ k = i + 1 => q = p + 1
    BY <1>1, <1>5, SMTT(30)
  <2> USE <2>1
  <2>2. both[i] = seen[p] BY Zenon
  <2>3. \A j \in i..k : j - 1 \in p..q /\ j - 1 \in 1..n /\ 1 + (j - 1) = j
    BY <1>5
  <2>4. \A j \in i..k : j - 1 \in p..q /\ both[j] = seen[j - 1] BY <2>3, Zenon
  <2> HIDE DEF p
  <2>5. /\ Near(gone, seen[q], seen[p])
        /\ q <= p + RecentSize => seen[q] \in gone \cup ChainTo[seen[p]]
        /\ q <= p + RecentSize /\ seen[q] = seen[p] => \A j \in p..q : seen[j] = seen[p]
        /\ q = p + 1 => CanFollow(from, seen[q], seen[p])
    BY Zenon DEF IsOrdered
  <2> QED BY <2>2, <2>4, <2>5, <1>3, Zenon
<1> QED BY <1>4, <1>5, Zenon

\* No block to send: the wallet is at the daemon's top block, or the daemon is
\* below the wallet's start height.
LEMMA NothingToSend ==
    ASSUME Regular, SyncInv, request # <<>>, CanAnswer(request[1]), stored = <<>>,
           StartIndex(request[1]) > Height[tip]
    PROVE  /\ wallet = {} => Height[tip] < startHeight
           /\ wallet # {} => status.recent # <<>> /\ status.recent[1] = tip
<1> DEFINE start == StartIndex(request[1])
           seen == Seen(stored, status.recent)
           last == status.recent[1]
<1>1. /\ tip \in Blocks /\ startHeight \in Nat /\ Height[tip] \in Nat
      /\ stored \in Seq(Blocks) /\ status.recent \in Seq(Blocks)
  BY SyncTypes, Zenon
<1> USE <1>1
<1>2. /\ start \in Nat
      /\ wallet = {} /\ stored = <<>> => start = startHeight
      /\ seen # <<>> => \E x : IsCommon(tip, startHeight, start, seen, x)
  BY AnswerStart, Zenon
<1> USE <1>2
<1>3. start > Height[tip] BY Zenon
<1>4. ASSUME wallet # {} PROVE status.recent # <<>> /\ last = tip
  <2>1. StatusInv(tip, left, startHeight, stored, status, wallet) BY Zenon DEF SyncInv
  <2>2. status.recent # <<>> /\ Height[last] >= startHeight
    BY <2>1, <1>4, Zenon DEF StatusInv, HoldsChain
  <2>3. Len(status.recent) \in Nat \ {0} BY <2>2
  <2>4. last \in Blocks /\ last \in Range(status.recent) BY <2>3 DEF Range
  <2> USE <2>4
  <2>5. seen \in Seq(Blocks) /\ Len(seen) = Len(stored) + Len(status.recent)
    BY ONLY <1>1, SeenFacts, Zenon
  <2>6. Len(stored) = 0 BY Zenon
  <2>7. seen # <<>> BY <2>3, <2>5, <2>6
  <2>8. seen[1] = last BY <2>7, SeenFirst, Zenon
  <2>9. PICK x : IsCommon(tip, startHeight, start, seen, x) BY <2>7, Zenon
  <2> HIDE DEF start, seen, last
  <2>10. x \in ChainTo[tip] /\ x \in ChainTo[last] BY <2>8, <2>9, Zenon DEF IsCommon
  <2> USE <2>10
  <2>11. x \in Blocks /\ Height[x] <= Height[last] BY ChainFacts, Zenon
  <2>12. Height[x] \in Nat /\ Height[last] \in Nat BY <2>11, SyncAssumption, Zenon
  <2>13. Height[last] <= Height[tip] BY <2>1, Zenon DEF StatusInv, IsMain
  <2>14. start = startHeight \/ start = Height[x] + 1 BY <2>9, Zenon DEF IsCommon
  <2>15. Height[x] = Height[tip] /\ Height[x] = Height[last]
    <3>1. start = startHeight \/ start = Height[x] + 1 BY <2>14, Zenon
    <3>2. start \in Nat /\ startHeight \in Nat /\ Height[tip] \in Nat /\ start > Height[tip]
      BY <1>3, Zenon
    <3> QED BY ONLY <2>2, <2>11, <2>12, <2>13, <3>1, <3>2
  <2>16. x = tip BY <2>15, ChainFacts, Zenon
  <2>17. x = last BY <2>15, ChainFacts, Zenon
  <2> QED BY <2>2, <2>16, <2>17, Zenon
<1>5. ASSUME wallet = {} PROVE Height[tip] < startHeight
  BY <1>3, <1>5, Zenon
<1> QED BY <1>4, <1>5, Zenon

\* The daemon's top block is stored as processed.
LEMMA TopStored ==
    ASSUME Regular, SyncInv, request # <<>>, CanAnswer(request[1]), stored = <<>>,
           StartIndex(request[1]) > Height[tip], StoreBlockHash(tip)
    PROVE  StatusInv(tip, left, startHeight, <<>>, status', wallet)
<1> DEFINE r == status.recent
           one == <<tip>>
           both == Seen(one, r)
           r2 == RecentAfter(r, tip)
           seen2 == Seen(<<>>, r2)
           n == Len(r)
<1>1. /\ tip \in Blocks /\ status \in StatusType /\ r \in Seq(Blocks)
      /\ status.checkpoints \in Seq(Blocks) /\ Len(r) <= RecentSize
      /\ MainChain = ChainTo[tip] /\ RecentSize \in Nat \ {0} /\ startHeight \in Nat
      /\ Height[tip] \in Nat
  BY SyncTypes, Zenon
<1>2. /\ wallet = {} => Height[tip] < startHeight
      /\ wallet # {} => r # <<>> /\ r[1] = tip
  BY NothingToSend, Zenon
<1>3. /\ status'.height = Height[tip] /\ status'.recent = r2
      /\ \/ status'.checkpoints = status.checkpoints
         \/ status'.checkpoints = <<tip>> \o status.checkpoints /\ Height[tip] # 0
  BY <1>1, StoreFacts, Zenon DEF RecentAfter
<1>4. StatusInv(tip, left, startHeight, stored, status, wallet)
      /\ ChainTo[tip] \cap left = {}
  BY <1>1, Zenon DEF SyncInv
<1>5. /\ ChecksAreNear(tip, left, stored, status)
      /\ IsOrdered(left, startHeight, Seen(stored, r))
      /\ HoldsChain(startHeight, stored, status, wallet)
      /\ \A b \in Range(r) : IsMain(tip, left, b)
  BY <1>4, Zenon DEF StatusInv
<1>6. n \in Nat /\ DOMAIN r = 1..n BY <1>1
<1>7. /\ one \in Seq(Blocks) /\ one # <<>> /\ Len(one) = 1 /\ one[1] = tip
      /\ Tail(one) = <<>>
  BY <1>1
<1>8. Seen(stored, r) = r
  <2>1. stored = <<>> BY Zenon
  <2>2. Len(stored) = 0 BY <2>1
  <2>3. Seen(stored, r) = [i \in 1..n |-> r[i]] BY <2>2, <1>6 DEF Seen
  <2>4. r = [i \in 1..n |-> r[i]] BY <1>1, <1>6
  <2> QED BY <2>3, <2>4, Zenon
<1> HIDE DEF r, one, r2, n
<1>9. DOMAIN both = 1..1 + n /\ both[1] = tip /\ \A i \in 1..n : both[1 + i] = r[i]
  <2>1. /\ DOMAIN both = 1..Len(one) + Len(r)
        /\ \A i \in 1..Len(one) + Len(r) :
             both[i] = IF i <= Len(one) THEN one[Len(one) - i + 1] ELSE r[i - Len(one)]
    BY ONLY <1>1, <1>7, SeenFacts, Zenon
  <2> HIDE DEF both
  <2>2. /\ DOMAIN both = 1..1 + n
        /\ \A i \in 1..1 + n : both[i] = IF i <= 1 THEN one[1 - i + 1] ELSE r[i - 1]
    BY <2>1, <1>7, Zenon DEF n
  <2> USE <2>2
  <2>3. both[1] = tip BY <1>6, <1>7
  <2>4. ASSUME NEW i \in 1..n PROVE both[1 + i] = r[i]
    <3>1. 1 + i \in 1..1 + n /\ ~(1 + i <= 1) /\ (1 + i) - 1 = i BY <1>6
    <3>2. both[1 + i] = r[(1 + i) - 1] BY <3>1, <1>6, Zenon
    <3> QED BY <3>1, <3>2, Zenon
  <2> QED BY <2>3, <2>4, Zenon
<1> HIDE DEF both
<1>10. n # 0 => CanFollow(startHeight, r[1], tip)
  <2>1. CASE wallet = {}
    <3>1. Height[tip] <= startHeight /\ startHeight # 0 BY <2>1, <1>1, <1>2
    <3> QED BY <3>1, Zenon DEF CanFollow
  <2>2. CASE wallet # {} BY <2>2, <1>2, Zenon DEF CanFollow
  <2> QED BY <2>1, <2>2, Zenon
<1>11. IsOrdered(left, startHeight, both)
  <2>1. \A i \in 1..n : r[i] \in Blocks /\ IsMain(tip, left, r[i])
    BY <1>1, <1>5, <1>6, SMTT(30) DEF Range
  <2>2. IsOrdered(left, startHeight, r) BY <1>5, <1>8, Zenon
  <2> QED BY ONLY <2>1, <2>2, <1>1, <1>4, <1>6, <1>9, <1>10, TopIsOrdered, Zenon
<1>12. /\ r2 \in Seq(Blocks) /\ r2 # <<>> /\ r2[1] = tip
       /\ \A i \in 1..Len(r2) : r2[i] = tip \/ r2[i] \in Range(r)
       /\ seen2 \in Seq(Blocks) /\ Len(seen2) <= Len(both)
       /\ \A i \in 1..Len(seen2) : seen2[i] = both[i]
  <2>1. IsOrdered(left, startHeight, Seen(one, r)) BY <1>11, Zenon DEF both
  <2>2. IsProcessed(one, r) BY ONLY <2>1, <1>1, <1>7, ProcessedSeen, Zenon
  <2> QED BY ONLY <2>2, <1>7, Zenon DEF IsProcessed, both, r2
<1> HIDE DEF seen2
<1>13. IsOrdered(left, startHeight, seen2)
  <2>1. Len(both) = 1 + n
    <3>1. both \in Seq(Blocks) BY ONLY <1>1, <1>7, SeenFacts, Zenon DEF both
    <3> QED BY <3>1, <1>6, <1>9
  <2>2. /\ Len(seen2) \in Nat /\ DOMAIN seen2 = 1..Len(seen2)
        /\ 1..Len(seen2) \subseteq DOMAIN both
    BY <2>1, <1>6, <1>9, <1>12, SMTT(30)
  <2> QED BY ONLY <2>2, <1>11, <1>12, PrefixIsOrdered, Zenon
<1>14. Range(<<>>) = {} BY DEF Range
<1>15. IsMain(tip, left, tip) BY <1>1, ChainFacts, Zenon DEF IsMain
<1>16. \A b \in Range(r2) : b = tip \/ b \in Range(r) BY <1>12 DEF Range
<1>17. ASSUME NEW c \in Range(status'.checkpoints)
       PROVE  c \in Range(status.checkpoints) \/ (c = tip /\ Height[tip] # 0)
  <2>1. CASE status'.checkpoints = status.checkpoints BY <2>1, Zenon
  <2>2. CASE status'.checkpoints = <<tip>> \o status.checkpoints /\ Height[tip] # 0
    BY <2>2, <1>1, PushFacts DEF Range
  <2> QED BY <2>1, <2>2, <1>3, Zenon
<1>18. ChecksAreNear(tip, left, <<>>, status')
  <2>1. ASSUME NEW c \in Range(status'.checkpoints)
        PROVE  IsMain(tip, left, c) /\ c # Genesis
    BY <1>5, <1>15, <1>17, SyncAssumption, Zenon DEF ChecksAreNear
  <2>2. tip \in ChainTo[tip] BY <1>1, ChainFacts, Zenon
  <2>3. ASSUME NEW c \in Range(status'.checkpoints) PROVE Near(left, c, tip)
    BY <2>1, <2>2, <1>1, MainIsNear, Zenon
  <2> QED BY <2>1, <2>3, <1>3, <1>12, <1>14, Zenon DEF ChecksAreNear
<1>19. HoldsChain(startHeight, <<>>, status', wallet)
  <2>1. CASE wallet = {}
    <3>1. \A b \in Range(r2) \cup Range(status'.checkpoints) : Height[b] < startHeight
      BY <2>1, <1>2, <1>5, <1>16, <1>17, Zenon DEF HoldsChain, r
    <3> QED BY <3>1, <2>1, <1>3, Zenon DEF HoldsChain
  <2>2. CASE wallet # {}
    BY <2>2, <1>2, <1>3, <1>5, <1>12, Zenon DEF HoldsChain, r
  <2> QED BY <2>1, <2>2, Zenon
<1> QED BY <1>3, <1>5, <1>13, <1>14, <1>15, <1>16, <1>18, <1>19, Zenon DEF StatusInv, seen2

\* The daemon answers.
LEMMA AnswerStep ==
    ASSUME Regular, SyncInv, Answer
    PROVE  StatusInv(tip, left, startHeight, stored', status', wallet)
<1> DEFINE blocks == WalletSyncData(request[1])
<1>1. /\ request # <<>> /\ CanAnswer(request[1]) /\ stored' = stored \o blocks
      /\ IF blocks = <<>> /\ stored = <<>> THEN StoreBlockHash(tip) ELSE status' = status
  BY Zenon DEF Answer
<1> USE <1>1
<1>2. StatusInv(tip, left, startHeight, stored, status, wallet) BY Zenon DEF SyncInv
<1>3. stored \in Seq(Blocks) /\ tip \in Blocks BY SyncTypes, Zenon
<1>4. StartIndex(request[1]) \in Nat BY AnswerStart, Zenon
<1>5. ~SkipEmpty BY Zenon DEF Regular
<1>6. blocks = <<>> <=> StartIndex(request[1]) > Height[tip]
  BY ONLY <1>3, <1>4, <1>5, AnswerFacts, Zenon
<1> HIDE DEF blocks
<1>7. CASE blocks # <<>>
  BY <1>7, BlocksStored, Zenon DEF blocks
<1>8. CASE blocks = <<>> /\ stored # <<>>
  <2>1. stored' = stored BY <1>3, <1>8
  <2> QED BY <2>1, <1>2, <1>8, Zenon
<1>9. CASE blocks = <<>> /\ stored = <<>>
  <2>1. stored' = <<>> BY <1>9
  <2>2. StatusInv(tip, left, startHeight, <<>>, status', wallet)
    BY <1>6, <1>9, TopStored, Zenon
  <2> QED BY <2>1, <2>2, Zenon
<1> QED BY <1>7, <1>8, <1>9, Zenon
-----------------------------------------------------------------------------
(* The invariant. *)

\* A new wallet.
LEMMA NewWallet ==
    ASSUME NEW top, NEW gone, NEW from
    PROVE  StatusInv(top, gone, from, <<>>, NewStatus, {})
<1>1. NewStatus.recent = <<>> /\ NewStatus.checkpoints = <<>> BY Zenon DEF NewStatus
<1> USE <1>1
<1>2. Range(<<>>) = {} BY DEF Range
<1> USE <1>2
<1>3. DOMAIN Seen(<<>>, <<>>) = {} BY DEF Seen
<1>4. IsOrdered(gone, from, Seen(<<>>, <<>>)) BY <1>3, Zenon DEF IsOrdered
<1>5. ChecksAreNear(top, gone, <<>>, NewStatus) BY Zenon DEF ChecksAreNear
<1>6. HoldsChain(from, <<>>, NewStatus, {}) BY Zenon DEF HoldsChain
<1> QED BY <1>4, <1>5, <1>6, Zenon DEF StatusInv

\* The invariant depends on the lists of hashes and on the height alone, not on
\* where the last checkpoint was stored.
LEMMA SameLists ==
    ASSUME NEW top, NEW gone, NEW from, NEW queue, NEW st, NEW st2, NEW held,
           StatusInv(top, gone, from, queue, st, held), st2.recent = st.recent,
           st2.checkpoints = st.checkpoints, st2.height = st.height
    PROVE  StatusInv(top, gone, from, queue, st2, held)
<1>1. ChecksAreNear(top, gone, queue, st2) BY Zenon DEF StatusInv, ChecksAreNear
<1>2. HoldsChain(from, queue, st2, held) BY Zenon DEF StatusInv, HoldsChain
<1> QED BY <1>1, <1>2, Zenon DEF StatusInv

\* The daemon's step.
LEMMA DaemonStep ==
    ASSUME Regular, SyncInv, TypeInv', DaemonReceives
    PROVE  SyncInv'
<1>1. /\ UNCHANGED <<startHeight, stored, status, wallet, request, saved>>
      /\ left' = (left \cup MainChain) \ ChainTo[tip']
  BY Zenon DEF DaemonReceives, storeVars, walletVars
<1> USE <1>1
<1>2. ChainTo[tip'] \cap left = {} BY Zenon DEF DaemonReceives, Regular
<1>3. tip \in Blocks /\ left \subseteq Blocks /\ MainChain = ChainTo[tip]
  BY SyncTypes, Zenon
<1> USE <1>3
<1>4. tip' \in Blocks /\ (tip' = tip \/ Work[tip'] > Work[tip])
  <2>1. PICK b \in Blocks \ {Genesis} : Daemon!Receive(b) BY Zenon DEF DaemonReceives
  <2>2. tip' = tip \/ (tip' = b /\ Work[b] > Work[tip])
    BY <2>1, Zenon DEF Daemon!Receive
  <2> QED BY <2>2, Zenon
<1>5. \A b \in Blocks : Height[b] \in Nat BY SyncAssumption, Zenon
<1>6. Height[tip] <= Height[tip'] BY <1>4, <1>5 DEF Regular
<1>7. \A b \in Blocks : Height[b] <= Height[tip] => Height[b] <= Height[tip']
  BY <1>4, <1>5, <1>6
<1>8. /\ left \subseteq left' /\ ChainTo[tip] \subseteq ChainTo[tip'] \cup left'
      /\ ChainTo[tip] \cup left \subseteq Blocks
  BY <1>2, ChainFacts, Zenon
<1>9. /\ \A from, queue, st, held :
           StatusInv(tip, left, from, queue, st, held) =>
             StatusInv(tip', left', from, queue, st, held)
      /\ \A from, isNew, hashes, seen :
           RequestInv(tip, left, from, isNew, hashes, seen) =>
             RequestInv(tip', left', from, isNew, hashes, seen)
  BY ONLY <1>7, <1>8, DaemonMoves, Zenon
<1>10. MainChain' \cap left' = {} BY Zenon DEF MainChain
<1>11. StatusInv(tip', left', startHeight', stored', status', wallet')
  BY <1>9, Zenon DEF SyncInv
<1>12. StatusInv(tip', left', saved'.startHeight, <<>>, saved'.status, saved'.wallet)
  BY <1>9, Zenon DEF SyncInv
<1>13. request' # <<>> =>
         RequestInv(tip', left', startHeight', wallet' = {} /\ stored' = <<>>, request'[1],
                    Seen(stored', status'.recent))
  BY <1>9, Zenon DEF SyncInv
<1> QED BY <1>10, <1>11, <1>12, <1>13, Zenon DEF SyncInv

\* The operations of the wallet, which stop the synchronizer.
LEMMA PauseStep ==
    ASSUME SyncInv, TypeInv', SaveWallet \/ OpenWallet \/ ResetWallet \/ ImportSubWallet
    PROVE  SyncInv'
<1>1. tip' = tip /\ left' = left /\ request' = <<>>
  BY Zenon DEF SaveWallet, OpenWallet, ResetWallet, ImportSubWallet, Pause, daemonVars
<1>2. MainChain' \cap left' = {} BY <1>1, Zenon DEF SyncInv, MainChain
<1>3. /\ StatusInv(tip, left, startHeight, stored, status, wallet)
      /\ StatusInv(tip, left, saved.startHeight, <<>>, saved.status, saved.wallet)
  BY Zenon DEF SyncInv
<1> USE <1>3
<1>4. stored \in Seq(Blocks) /\ status.recent \in Seq(Blocks) BY SyncTypes, Zenon
<1>5. /\ StatusInv(tip, left, startHeight', stored', status', wallet')
      /\ StatusInv(tip, left, saved'.startHeight, <<>>, saved'.status, saved'.wallet)
  <2>1. CASE SaveWallet
    <3>1. /\ UNCHANGED <<startHeight, stored, status, wallet>>
          /\ saved' = [startHeight |-> startHeight, status |-> status, wallet |-> wallet]
      BY <2>1, Zenon DEF SaveWallet, walletVars
    <3>2. StatusInv(tip, left, startHeight, <<>>, status, wallet)
      BY <1>4, SavedStatus, Zenon
    <3> QED BY <3>1, <3>2, Zenon
  <2>2. CASE OpenWallet
    <3>1. /\ startHeight' = saved.startHeight /\ wallet' = saved.wallet
          /\ stored' = <<>> /\ saved' = saved
          /\ status' = [saved.status EXCEPT !.checkpointAt = 0]
      BY <2>2, Zenon DEF OpenWallet
    <3>2. saved.status \in StatusType BY Zenon DEF SyncInv, TypeInv, SavedType
    <3>3. /\ status'.recent = saved.status.recent /\ status'.height = saved.status.height
          /\ status'.checkpoints = saved.status.checkpoints
      BY <3>1, <3>2, Zenon DEF StatusType
    <3>4. StatusInv(tip, left, saved.startHeight, <<>>, status', saved.wallet)
      BY <3>3, SameLists, Zenon
    <3> QED BY <3>1, <3>4, Zenon
  <2>3. CASE ResetWallet
    <3>1. /\ stored' = <<>> /\ status' = NewStatus /\ wallet' = {}
          /\ saved' = [startHeight |-> startHeight', status |-> NewStatus, wallet |-> {}]
      BY <2>3, Zenon DEF ResetWallet
    <3> QED BY <3>1, NewWallet, Zenon
  <2>4. CASE ImportSubWallet
    <3>1. stored' = <<>> /\ status' = NewStatus /\ wallet' = {} /\ saved' = saved
      BY <2>4, Zenon DEF ImportSubWallet
    <3> QED BY <3>1, NewWallet, Zenon
  <2> QED BY <2>1, <2>2, <2>3, <2>4, Zenon
<1> QED BY <1>1, <1>2, <1>5, Zenon DEF SyncInv

\* Every step preserves the invariant.
LEMMA SyncStep ==
    ASSUME Regular, SyncInv, [Next]_vars
    PROVE  SyncInv'
<1>1. TypeInv'
  <2>1. ~SkipEmpty /\ TypeInv BY Zenon DEF Regular, SyncInv
  <2> QED BY <2>1, NextTypes, Zenon
<1> USE <1>1
<1>2. CASE DaemonReceives BY <1>2, DaemonStep, Zenon
<1>3. CASE SaveWallet \/ OpenWallet \/ ResetWallet \/ ImportSubWallet
  BY <1>3, PauseStep, Zenon
<1>4. CASE AskDaemon
  <2>1. /\ UNCHANGED <<tip, left, startHeight, stored, status, wallet, saved>>
        /\ request' = <<BlockCheckpoints>>
    BY <1>4, Zenon DEF AskDaemon, daemonVars, walletVars
  <2> USE <2>1
  <2>2. MainChain' = MainChain BY Zenon DEF MainChain
  <2>3. request'[1] = BlockCheckpoints BY Zenon
  <2>4. RequestInv(tip', left', startHeight', wallet' = {} /\ stored' = <<>>, request'[1],
                   Seen(stored', status'.recent))
    BY <2>3, AskStep, Zenon
  <2> QED BY <2>2, <2>4, Zenon DEF SyncInv
<1>5. CASE Answer
  <2>1. UNCHANGED <<tip, left, startHeight, wallet, saved>> /\ request' = <<>>
    BY <1>5, Zenon DEF Answer, daemonVars
  <2>2. MainChain' = MainChain BY <2>1, Zenon DEF MainChain
  <2>3. StatusInv(tip, left, startHeight, stored', status', wallet)
    BY <1>5, AnswerStep, Zenon
  <2> QED BY <2>1, <2>2, <2>3, Zenon DEF SyncInv
<1>6. CASE AnswerFails
  <2>1. /\ UNCHANGED <<tip, left, startHeight, stored, status, wallet, saved>>
        /\ request' = <<>>
    BY <1>6, Zenon DEF AnswerFails, daemonVars, walletVars
  <2>2. MainChain' = MainChain BY <2>1, Zenon DEF MainChain
  <2> QED BY <2>1, <2>2, Zenon DEF SyncInv
<1>7. CASE CompleteBlock
  <2>1. UNCHANGED <<tip, left, startHeight, request, saved>>
    BY <1>7, Zenon DEF CompleteBlock, daemonVars
  <2>2. MainChain' = MainChain BY <2>1, Zenon DEF MainChain
  <2>3. /\ StatusInv(tip, left, startHeight, stored', status', wallet')
        /\ request # <<>> =>
             RequestInv(tip, left, startHeight, wallet' = {} /\ stored' = <<>>,
                        request[1], Seen(stored', status'.recent))
    BY <1>7, CompleteStep, Zenon
  <2> QED BY <2>1, <2>2, <2>3, Zenon DEF SyncInv
<1>8. CASE FetchBlocks \/ ScanBlock \/ UNCHANGED vars
  <2>1. UNCHANGED <<tip, left, startHeight, stored, status, wallet, saved, request>>
    BY <1>8, Zenon DEF FetchBlocks, ScanBlock, vars, daemonVars, storeVars, walletVars
  <2>2. MainChain' = MainChain BY <2>1, Zenon DEF MainChain
  <2> QED BY <2>1, <2>2, Zenon DEF SyncInv
<1> QED BY <1>2, <1>3, <1>4, <1>5, <1>6, <1>7, <1>8, Zenon DEF Next

\* The invariant holds of a new wallet.
LEMMA InitSync == Init => SyncInv
<1> SUFFICES ASSUME Init PROVE SyncInv BY Zenon
<1>1. TypeInv BY InitTypes, Zenon
<1>2. /\ left = {} /\ stored = <<>> /\ status = NewStatus /\ wallet = {} /\ request = <<>>
      /\ saved = [startHeight |-> startHeight, status |-> NewStatus, wallet |-> {}]
  BY Zenon DEF Init
<1>3. /\ StatusInv(tip, left, startHeight, stored, status, wallet)
      /\ StatusInv(tip, left, saved.startHeight, <<>>, saved.status, saved.wallet)
  BY <1>2, NewWallet, Zenon
<1> QED BY <1>1, <1>2, <1>3, Zenon DEF SyncInv

\* completeBlockProcessing, with storeBlockHash, getBlockCheckpoints and the
\* daemon's getWalletSyncData: whatever branches the daemon moves between, and
\* whenever the wallet is saved, reset or opened again, it holds the blocks of
\* one chain from its start height on.
THEOREM WalletStaysOneChain == Regular /\ Spec => []WalletIsOneChain
<1> DEFINE Inv == Regular /\ SyncInv
<1>1. Regular /\ Init => Inv BY InitSync, Zenon
<1>2. Inv /\ [Next]_vars => Inv' BY SyncStep, Zenon DEF Regular
<1>3. Inv => WalletIsOneChain
  <2> SUFFICES ASSUME Regular, SyncInv, wallet # {}
               PROVE  \E last \in wallet : wallet = {b \in ChainTo[last] : IsRelevant(b)}
    BY Zenon DEF WalletIsOneChain
  <2> DEFINE last == status.recent[1]
  <2>1. /\ status.recent # <<>> /\ Height[last] >= startHeight
        /\ wallet = {b \in ChainTo[last] : Height[b] >= startHeight}
    BY Zenon DEF SyncInv, StatusInv, HoldsChain
  <2>2. status.recent \in Seq(Blocks) BY SyncTypes, Zenon
  <2>3. last \in Blocks BY <2>1, <2>2
  <2>4. last \in wallet BY <2>1, <2>3, ChainFacts, Zenon
  <2>5. \A b : IsRelevant(b) <=> Height[b] >= startHeight BY Zenon DEF IsRelevant, Regular
  <2> QED BY <2>1, <2>4, <2>5, Zenon
<1> HIDE DEF Inv
<1> QED BY <1>1, <1>2, <1>3, PTL DEF Spec
=============================================================================
