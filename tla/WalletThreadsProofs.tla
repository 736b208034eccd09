------------------------- MODULE WalletThreadsProofs -------------------------
(***************************************************************************)
(* Proofs about WalletThreads, for any number of workers, any sizes of     *)
(* chunks, answers and store, and any number of stops: the inductive       *)
(* invariant, facts about the sequences and sets it speaks of, the steps   *)
(* of the workers, the downloader, the main loop and the owner, what       *)
(* follows from the invariant, and that WalletThreads implements           *)
(* BlockFeed.                                                              *)
(***************************************************************************)
EXTENDS WalletThreads, FiniteSetTheorems, TLAPS

(***************************************************************************)
(* The inductive invariant.                                                *)
(***************************************************************************)

\* The blocks worker w has taken from the queue and not delivered.
Taken(w) == IF pc[w] = "process" THEN Range(job[w]) ELSE {}
Held(w) == Taken(w) \cup done[w]

\* stop() raises the flags one after the other; where it is says which.
OwnerInv ==
    /\ \/ pc[Owner] = "idle" /\ flags = {}
       \/ pc[Owner] = "stopDownloader" /\ flags = {"sync"}
       \/ pc[Owner] = "notifyDownloader" /\ flags = {"sync", "downloader"}
       \/ pc[Owner] = "joinDownloader" /\ flags = {"sync", "downloader", "stored"}
       \/ pc[Owner] \in {"notifyAll", "clear", "join"} /\ flags = Flags
    /\ pc[Owner] = "join" => queue = <<>> /\ processed = {}

\* The last block applied.  Its hash is stored after the block is dropped.
Applied == IF pc[Main] \in {"drop", "hash"} THEN current ELSE recent

IsRun(s) == \A i, j \in 1..Len(s) : s[j] - s[i] = j - i

\* The store holds consecutive blocks, the first of which comes after the last
\* one applied, or is that one; the wallet has everything up to the latter.
FeedInv ==
    /\ wallet = 1..Applied
    /\ pc[Main] \in {"drop", "hash"} => current > 0 /\ recent \in {current - 1, current}
    /\ IsRun(stored)
    /\ stored # <<>> => stored[1] \in {Applied, Applied + 1}
    /\ pc[Main] = "drop" => stored # <<>> /\ stored[1] = current

\* The downloader asks for the blocks after the last one stored, even when all
\* that is stored has been applied since it looked.
DownloaderInv ==
    /\ pc[Downloader] = "recent" /\ known = 0 => stored = <<>>
    /\ pc[Downloader] = "answer" \/ (pc[Downloader] = "recent" /\ known # 0) =>
           IF stored = <<>> THEN known \in {Applied - 1, Applied}
                            ELSE known = stored[Len(stored)]

\* S holds the first blocks of s, in the order of their arrival indexes.
IsFront(S, s) ==
    \E k \in Nat : \E n \in 0..Len(s) : S = {<<k + j, s[j]>> : j \in 1..n}

WorkersAreEmpty == queue = <<>> /\ \A w \in Workers : Held(w) = {}

\* The chunk is the beginning of the store, each block with its position.
IsChunk ==
    /\ Len(chunk) \in 1..Len(stored)
    /\ \A i \in 1..Len(chunk) : chunk[i] = <<i, stored[i]>>

Distinct(s) == \A i, j \in 1..Len(s) : s[i] = s[j] => i = j

\* ChunkIsConserved, while the main loop waits.
Conserved ==
    /\ Range(queue) \cup processed \cup UNION {Held(w) : w \in Workers} = Range(chunk)
    /\ Range(queue) \cap processed = {}
    /\ \A w \in Workers :
           /\ Taken(w) \cap done[w] = {}
           /\ Held(w) \cap (Range(queue) \cup processed) = {}
           /\ \A v \in Workers \ {w} : Held(w) \cap Held(v) = {}

\* What the main loop may rely on, by where it is.
ChunkInv ==
    /\ pc[Main] \in {"loop", "starved", "push"} /\ ~Stopping =>
           WorkersAreEmpty /\ processed = {}
    /\ pc[Main] = "push" \/ MainWaits => IsChunk
    /\ MainWaits /\ ~Stopping => Distinct(queue) /\ Conserved
    /\ pc[Main] \in {"drain", "top", "drop", "hash", "signal", "completed", "pop"} =>
           WorkersAreEmpty
    /\ pc[Main] = "drain" /\ ~Stopping => IsFront(processed, stored)
    /\ pc[Main] \in {"top", "drop"} => IsFront(processed, stored)
    /\ pc[Main] \in {"hash", "signal", "completed", "pop"} =>
           \E h \in 1..MaxHeight : IsFront(processed, <<h>> \o stored)
    /\ pc[Main] \in {"top", "pop"} => processed # {} \/ pc[Owner] = "join"

ThreadsInv ==
    /\ ThreadsTypeOK
    /\ OwnerInv
    /\ FeedInv
    /\ DownloaderInv
    /\ ChunkInv
    /\ Undefined => pc[Owner] = "join"

-----------------------------------------------------------------------------
(* Sequences, and the blocks of a chunk. *)

\* A sequence without its first element.
LEMMA TailOf ==
    ASSUME NEW S, NEW s \in Seq(S), s # <<>>
    PROVE  /\ Tail(s) \in Seq(S)
           /\ Len(s) \in Nat \ {0}
           /\ Len(Tail(s)) = Len(s) - 1
           /\ \A i \in 1..(Len(s) - 1) : Tail(s)[i] = s[i + 1]
  OBVIOUS

\* Its last element stays where it was.
LEMMA EndOfTail ==
    ASSUME NEW S, NEW s \in Seq(S), s # <<>>
    PROVE  /\ Tail(s) = <<>> => Len(s) = 1
           /\ Tail(s) # <<>> => Tail(s)[Len(Tail(s))] = s[Len(s)]
  <1>1. /\ Tail(s) \in Seq(S) /\ Len(s) \in Nat \ {0} /\ Len(Tail(s)) = Len(s) - 1
        /\ \A i \in 1..(Len(s) - 1) : Tail(s)[i] = s[i + 1]
    BY TailOf, Zenon
  <1>2. Tail(s) = <<>> => Len(s) = 1
    <2> HAVE Tail(s) = <<>>
    <2>1. \A q : q = <<>> => Len(q) = 0
      OBVIOUS
    <2>2. Len(Tail(s)) = 0
      BY <2>1, Zenon
    <2> QED BY <1>1, <2>2
  <1>3. Tail(s) # <<>> => Len(s) - 1 \in 1..(Len(s) - 1) /\ (Len(s) - 1) + 1 = Len(s)
    BY <1>1
  <1> QED BY <1>1, <1>2, <1>3, Zenon

\* Two sequences, one after the other.
LEMMA ConcatOf ==
    ASSUME NEW S, NEW s \in Seq(S), NEW t \in Seq(S)
    PROVE  /\ s \o t \in Seq(S)
           /\ Len(s \o t) = Len(s) + Len(t)
           /\ \A i \in 1..Len(s) : (s \o t)[i] = s[i]
           /\ \A i \in (Len(s) + 1)..(Len(s) + Len(t)) : (s \o t)[i] = t[i - Len(s)]
  OBVIOUS

\* The elements of a sequence are in the set it is over.
LEMMA ElementOf ==
    ASSUME NEW S, NEW s \in Seq(S)
    PROVE  Len(s) \in Nat /\ \A i \in 1..Len(s) : s[i] \in S
  OBVIOUS

\* The range of a sequence, and when it is empty.
LEMMA RangeOf ==
    ASSUME NEW S, NEW s \in Seq(S)
    PROVE  /\ Range(s) = {s[i] : i \in 1..Len(s)}
           /\ Range(s) = {} => s = <<>>
  <1>1. DOMAIN s = 1..Len(s) /\ Len(s) \in Nat
    OBVIOUS
  <1>2. Range(s) = {s[i] : i \in 1..Len(s)}
    BY <1>1, Zenon DEF Range
  <1>3. s # <<>> => s[1] \in Range(s)
    BY <1>1, <1>2
  <1> QED BY <1>2, <1>3, Zenon

\* So is its last element.
LEMMA LastOf ==
    ASSUME NEW S, NEW s \in Seq(S), s # <<>>
    PROVE  s[Len(s)] \in S
  <1>1. Len(s) \in 1..Len(s)
    BY TailOf
  <1> QED BY <1>1, ElementOf, Zenon

\* Adding to the back commutes with dropping the front.
LEMMA TailOfConcat ==
    ASSUME NEW S, NEW s \in Seq(S), NEW t \in Seq(S), s # <<>>
    PROVE  Tail(s \o t) = Tail(s) \o t
  <1> DEFINE L == Tail(s \o t)
             R == Tail(s) \o t
  <1>1. s \o t \in Seq(S) /\ s \o t # <<>>
    BY ConcatOf
  <1>2. L \in Seq(S) /\ Len(L) = Len(s) + Len(t) - 1
    BY <1>1, ConcatOf, TailOf
  <1>3. R \in Seq(S) /\ Len(R) = Len(s) + Len(t) - 1
    BY ConcatOf, TailOf
  <1>4. ASSUME NEW i \in 1..Len(L) PROVE L[i] = R[i]
    <2>1. L[i] = (s \o t)[i + 1]
      BY <1>1, <1>2, ConcatOf, TailOf, Zenon
    <2>2. CASE i <= Len(s) - 1
      BY <2>1, <2>2, <1>2, ConcatOf, TailOf
    <2>3. CASE i > Len(s) - 1
      BY <2>1, <2>3, <1>2, ConcatOf, TailOf
    <2> QED BY <2>2, <2>3, <1>2, TailOf
  <1> QED BY <1>2, <1>3, <1>4

\* The smaller one of two numbers.
LEMMA MinOf ==
    ASSUME NEW a \in Nat, NEW b \in Nat
    PROVE  Min({a, b}) = IF a <= b THEN a ELSE b
  <1>1. \A x, y \in {a, b} :
            (\A z \in {a, b} : x =< z) /\ (\A z \in {a, b} : y =< z) => x = y
    OBVIOUS
  <1>2. \E x \in {a, b} : \A z \in {a, b} : x =< z
    OBVIOUS
  <1> QED BY <1>1, <1>2 DEF Min

\* The larger one of two numbers.
LEMMA MaxOf ==
    ASSUME NEW a \in Nat, NEW b \in Nat
    PROVE  Max({a, b}) \in Nat
  <1>1. \E x \in {a, b} : \A z \in {a, b} : x >= z
    OBVIOUS
  <1> QED BY <1>1, Zenon DEF Max

\* A worker takes some number of blocks.
LEMMA WorkerChunkIsNat == WorkerChunk \in Nat
  <1>1. Cardinality(Workers) \in Nat \ {0}
    BY ThreadAssumption, FS_CardinalityType, FS_EmptySet, Zenon
  <1>2. ChunkSize \div Cardinality(Workers) \in Nat
    BY <1>1, ThreadAssumption
  <1>3. (ChunkSize \div Cardinality(Workers)) \div 2 \in Nat
    BY <1>2
  <1> QED BY <1>3, MaxOf, ThreadAssumption, Zenon DEF WorkerChunk

\* front_n_and_remove splits the queue: nothing is in both parts, and the
\* two together are all of it.
LEMMA SplitOf ==
    ASSUME NEW S, NEW s \in Seq(S), NEW n \in Nat
    PROVE  /\ Prefix(s, n) \in Seq(S)
           /\ Suffix(s, n) \in Seq(S)
           /\ Range(s) = Range(Prefix(s, n)) \cup Range(Suffix(s, n))
           /\ Distinct(s) => /\ Distinct(Suffix(s, n))
                             /\ Range(Prefix(s, n)) \cap Range(Suffix(s, n)) = {}
           /\ s = <<>> => Prefix(s, n) = <<>> /\ Suffix(s, n) = <<>>
  <1> DEFINE m == Min({n, Len(s)})
             p == SubSeq(s, 1, m)
             q == SubSeq(s, m + 1, Len(s))
  <1>1. m \in 0..Len(s)
    BY MinOf
  <1> HIDE DEF m
  <1>2. /\ p \in Seq(S) /\ Len(p) = m
        /\ \A i \in 1..m : p[i] = s[i]
    BY <1>1
  <1>3. /\ q \in Seq(S) /\ Len(q) = Len(s) - m
        /\ \A i \in 1..(Len(s) - m) : q[i] = s[m + i]
    BY <1>1
  <1> HIDE DEF p, q
  <1>4. Range(s) \subseteq Range(p) \cup Range(q)
    <2> SUFFICES ASSUME NEW i \in 1..Len(s) PROVE s[i] \in Range(p) \cup Range(q)
      BY DEF Range
    <2>1. CASE i <= m
      BY <2>1, <1>1, <1>2 DEF Range
    <2>2. CASE i > m
      <3>1. i - m \in 1..(Len(s) - m) /\ q[i - m] = s[i]
        BY <2>2, <1>1, <1>3
      <3> QED BY <3>1, <1>3 DEF Range
    <2> QED BY <2>1, <2>2, <1>1
  <1>5. Range(p) \cup Range(q) \subseteq Range(s)
    <2>1. \A i \in 1..m : p[i] \in Range(s)
      BY <1>1, <1>2 DEF Range
    <2>2. \A i \in 1..(Len(s) - m) : q[i] \in Range(s)
      <3> TAKE i \in 1..(Len(s) - m)
      <3>1. m + i \in 1..Len(s) /\ q[i] = s[m + i]
        BY <1>1, <1>3
      <3> QED BY <3>1, RangeOf, Zenon
    <2> QED BY <2>1, <2>2, <1>2, <1>3 DEF Range
  <1>6. ASSUME Distinct(s) PROVE Distinct(q) /\ Range(p) \cap Range(q) = {}
    <2>1. Distinct(q)
      BY <1>1, <1>3, <1>6 DEF Distinct
    <2>2. ASSUME NEW i \in 1..m, NEW j \in 1..(Len(s) - m) PROVE p[i] # q[j]
      BY <1>1, <1>2, <1>3, <1>6 DEF Distinct
    <2> QED BY <2>1, <2>2, <1>2, <1>3 DEF Range
  <1>7. s = <<>> => p = <<>> /\ q = <<>>
    BY <1>1, <1>2, <1>3
  <1> QED BY <1>2, <1>3, <1>4, <1>5, <1>6, <1>7, Zenon DEF Prefix, Suffix, m, p, q

\* What is first in the store stays first when blocks are added.
LEMMA FrontOfLonger ==
    ASSUME NEW T, NEW S, NEW s \in Seq(S), NEW t \in Seq(S), IsFront(T, s)
    PROVE  IsFront(T, s \o t)
  <1>1. PICK k \in Nat, n \in 0..Len(s) : T = {<<k + j, s[j]>> : j \in 1..n}
    BY Zenon DEF IsFront
  <1>2. n \in 0..Len(s \o t) /\ \A j \in 1..n : (s \o t)[j] = s[j]
    BY ConcatOf
  <1>3. T = {<<k + j, (s \o t)[j]>> : j \in 1..n}
    BY <1>1, <1>2, Zenon
  <1> QED BY <1>2, <1>3, Zenon DEF IsFront

\* No blocks are the first blocks of anything.
LEMMA EmptyFront ==
    ASSUME NEW S, NEW s \in Seq(S)
    PROVE  IsFront({}, s)
  <1>1. {} = {<<0 + j, s[j]>> : j \in 1..0}
    OBVIOUS
  <1> QED BY <1>1 DEF IsFront

\* The item of the least arrival index is the first block; the others are the
\* first of the rest.
LEMMA TopOfFront ==
    ASSUME NEW T, NEW S, NEW s \in Seq(S), IsFront(T, s),
           NEW top \in T, \A y \in T : top[1] <= y[1]
    PROVE  /\ s # <<>>
           /\ top[2] = s[1]
           /\ IsFront(T \ {top}, Tail(s))
  <1>1. PICK k \in Nat, n \in 0..Len(s) : T = {<<k + j, s[j]>> : j \in 1..n}
    BY Zenon DEF IsFront
  <1>2. n \in 1..Len(s) /\ s # <<>> /\ Len(s) \in Nat
    BY <1>1
  <1>3. <<k + 1, s[1]>> \in T /\ \A y \in T : <<k + 1, s[1]>>[1] <= y[1]
    BY <1>1, <1>2
  <1>5. top = <<k + 1, s[1]>>
    <2>1. PICK j \in 1..n : top = <<k + j, s[j]>>
      BY <1>1, Zenon
    <2>2. top[1] <= k + 1
      BY <1>3, Zenon
    <2>3. j = 1
      BY <2>1, <2>2, <1>2
    <2> QED BY <2>1, <2>3, Zenon
  <1>6. /\ n - 1 \in 0..Len(Tail(s)) /\ k + 1 \in Nat
        /\ \A j \in 1..(n - 1) : Tail(s)[j] = s[j + 1]
    BY <1>2, TailOf
  <1>7. T \ {top} = {<<(k + 1) + j, Tail(s)[j]>> : j \in 1..(n - 1)}
    <2>1. ASSUME NEW j \in 1..(n - 1)
          PROVE  <<(k + 1) + j, Tail(s)[j]>> \in T \ {top}
      <3>1. j + 1 \in 1..n /\ <<(k + 1) + j, Tail(s)[j]>> = <<k + (j + 1), s[j + 1]>>
        BY <1>2, <1>6
      <3>2. <<k + (j + 1), s[j + 1]>> # top
        BY <1>5
      <3> QED BY <3>1, <3>2, <1>1, Zenon
    <2>2. ASSUME NEW x \in T \ {top}
          PROVE  \E j \in 1..(n - 1) : x = <<(k + 1) + j, Tail(s)[j]>>
      <3>1. PICK j \in 1..n : x = <<k + j, s[j]>>
        BY <1>1, Zenon
      <3>2. j # 1
        BY <3>1, <1>5, Zenon
      <3>3. /\ j - 1 \in 1..(n - 1)
            /\ (k + 1) + (j - 1) = k + j
            /\ Tail(s)[j - 1] = s[j]
        <4>1. j - 1 \in 1..(n - 1) /\ (j - 1) + 1 = j
          BY <3>2, <1>2
        <4>2. Tail(s)[j - 1] = s[(j - 1) + 1]
          BY <4>1, <1>6, Zenon
        <4> QED BY <4>1, <4>2
      <3> QED BY <3>1, <3>3, Zenon
    <2> QED BY <2>1, <2>2, Zenon
  <1>8. IsFront(T \ {top}, Tail(s))
    BY <1>6, <1>7, Zenon DEF IsFront
  <1> QED BY <1>2, <1>5, <1>8, Zenon

\* Processed blocks that are a front have a first one.
LEMMA FrontHasTop ==
    ASSUME NEW T, NEW S, NEW s \in Seq(S), IsFront(T, s), T # {}
    PROVE  \E x \in T : \A y \in T : x[1] <= y[1]
  <1>1. PICK k \in Nat, n \in 0..Len(s) : T = {<<k + j, s[j]>> : j \in 1..n}
    BY Zenon DEF IsFront
  <1>2. n \in 1..Len(s) /\ Len(s) \in Nat
    BY <1>1
  <1>3. <<k + 1, s[1]>> \in T /\ \A y \in T : <<k + 1, s[1]>>[1] <= y[1]
    BY <1>1, <1>2
  <1> QED BY <1>3, Zenon

-----------------------------------------------------------------------------
(* What a step leaves alone. *)

\* Thread t moves to a place; of the others some may wake up.
Moves(t, place) ==
    /\ pc' \in [Threads -> Places]
    /\ pc'[t] = place
    /\ \A u \in Threads \ {t} : pc'[u] = pc[u] \/ (pc[u] = "asleep" /\ pc'[u] = "test")

\* A thread that goes elsewhere moves no other thread.
LEMMA GotoMoves ==
    ASSUME ThreadsTypeOK, NEW t \in Threads, NEW place \in Places, Goto(t, place)
    PROVE  Moves(t, place)
  BY Zenon DEF ThreadsTypeOK, Goto, Moves

\* Nor does it when it notifies, but for threads that slept.
LEMMA GotoNotifyingMoves ==
    ASSUME ThreadsTypeOK, NEW t \in Threads, NEW place \in Places, NEW T,
           GotoNotifying(t, place, T)
    PROVE  Moves(t, place)
  BY DEF ThreadsTypeOK, GotoNotifying, Moves, Places

\* Main loop, downloader, owner and workers are different threads.
LEMMA ThreadsDiffer ==
    /\ Main \in Threads /\ Downloader \in Threads /\ Owner \in Threads
    /\ Main # Downloader /\ Main # Owner /\ Downloader # Owner
    /\ \A w \in Workers : w \in Threads /\ w # Main /\ w # Downloader /\ w # Owner
  BY ThreadAssumption, Zenon DEF Threads, Main, Downloader, Owner

\* A thread that is still where it was, or waits before and after the step.
WaitPlaces == {"notify", "test", "tested", "asleep"}
StaysOrWaits(t) == pc'[t] = pc[t] \/ {pc[t], pc'[t]} \subseteq WaitPlaces

\* What the owner relies on, when it does not move.
LEMMA OwnerFrame ==
    ASSUME OwnerInv, UNCHANGED flags, StaysOrWaits(Owner),
           pc[Owner] = "join" => queue' = <<>> /\ processed' = {}
    PROVE  OwnerInv' /\ pc'[Owner] = pc[Owner]
  BY Zenon DEF OwnerInv, StaysOrWaits, WaitPlaces

\* What the wallet and the store have, when neither changes.
LEMMA FeedFrame ==
    ASSUME FeedInv, UNCHANGED <<wallet, current, recent, stored>>,
           pc'[Main] = "drop" <=> pc[Main] = "drop",
           pc'[Main] = "hash" <=> pc[Main] = "hash"
    PROVE  FeedInv' /\ Applied' = Applied
  BY Zenon DEF FeedInv, Applied, IsRun

\* What the downloader knows, when nothing is stored or applied.
LEMMA DownloaderFrame ==
    ASSUME DownloaderInv, UNCHANGED <<known, stored>>, Applied' = Applied,
           StaysOrWaits(Downloader)
    PROVE  DownloaderInv'
  BY Zenon DEF DownloaderInv, StaysOrWaits, WaitPlaces

\* What a worker holds, when it only waits.
LEMMA HeldFrame ==
    ASSUME NEW w \in Workers, StaysOrWaits(w), job'[w] = job[w], done'[w] = done[w]
    PROVE  Taken(w)' = Taken(w) /\ Held(w)' = Held(w)
  BY Zenon DEF Taken, Held, StaysOrWaits, WaitPlaces, Range

\* Where the blocks of a chunk are, when no block moves.
LEMMA ConservedFrame ==
    ASSUME Conserved, UNCHANGED <<queue, processed, chunk>>,
           \A w \in Workers : /\ Taken(w)' = Taken(w)
                              /\ Held(w)' = Held(w)
                              /\ done'[w] = done[w]
    PROVE  Conserved'
  BY Zenon DEF Conserved

\* What the main loop relies on, when no block moves.
LEMMA ChunkFrame ==
    ASSUME ChunkInv, UNCHANGED <<queue, processed, chunk, stored, flags>>,
           StaysOrWaits(Main), pc'[Owner] = pc[Owner],
           \A w \in Workers : /\ Taken(w)' = Taken(w)
                              /\ Held(w)' = Held(w)
                              /\ done'[w] = done[w]
    PROVE  ChunkInv'
  <1>1. WorkersAreEmpty => WorkersAreEmpty'
    BY Zenon DEF WorkersAreEmpty
  <1>2. IsChunk => IsChunk'
    BY Zenon DEF IsChunk
  <1>3. Conserved => Conserved'
    BY ConservedFrame, Zenon
  <1>4. Distinct(queue) => Distinct(queue')
    BY Zenon DEF Distinct
  <1>5. MainWaits' <=> MainWaits
    BY Zenon DEF MainWaits, StaysOrWaits, WaitPlaces
  <1>6. Stopping' <=> Stopping
    BY Zenon DEF Stopping
  <1>7. \A x \in {"loop", "starved", "push", "drain", "top", "drop", "hash",
                  "signal", "completed", "pop"} : pc'[Main] = x <=> pc[Main] = x
    BY Zenon DEF StaysOrWaits, WaitPlaces
  <1> QED BY <1>1, <1>2, <1>3, <1>4, <1>5, <1>6, <1>7, Zenon DEF ChunkInv

\* Where the other threads are after a step of one.
LEMMA MovesStay ==
    ASSUME NEW t \in Threads, NEW place, Moves(t, place)
    PROVE  \A u \in Threads \ {t} : StaysOrWaits(u)
  BY Zenon DEF Moves, StaysOrWaits, WaitPlaces

\* A step that only lets threads wait elsewhere.
LEMMA WaitingStep ==
    ASSUME ThreadsInv, UNCHANGED <<flags, dataVars, localVars, stops>>,
           pc' \in [Threads -> Places], \A t \in Threads : StaysOrWaits(t)
    PROVE  ThreadsInv'
  <1> USE ThreadsDiffer
  <1>1. ThreadsTypeOK'
    BY Zenon DEF ThreadsInv, ThreadsTypeOK, dataVars, localVars
  <1>2. OwnerInv' /\ pc'[Owner] = pc[Owner]
    BY OwnerFrame, Zenon DEF ThreadsInv, OwnerInv, dataVars
  <1>3. FeedInv' /\ Applied' = Applied
    BY FeedFrame, Zenon DEF ThreadsInv, dataVars, localVars, StaysOrWaits, WaitPlaces
  <1>4. DownloaderInv'
    BY <1>3, DownloaderFrame, Zenon DEF ThreadsInv, dataVars, localVars
  <1>5. \A w \in Workers : /\ Taken(w)' = Taken(w)
                           /\ Held(w)' = Held(w)
                           /\ done'[w] = done[w]
    BY HeldFrame, Zenon DEF localVars
  <1>6. ChunkInv'
    BY <1>2, <1>5, ChunkFrame, Zenon DEF ThreadsInv, dataVars, localVars
  <1>7. Undefined' => Undefined
    BY Zenon DEF Undefined, StaysOrWaits, WaitPlaces
  <1> QED BY <1>1, <1>2, <1>3, <1>4, <1>6, <1>7, Zenon DEF ThreadsInv

-----------------------------------------------------------------------------
(* Steps of a worker. *)

\* A step of a worker keeps the invariant if it keeps the blocks of the chunk.
LEMMA WorkerFrame ==
    ASSUME ThreadsInv, NEW w \in Workers, NEW place, Moves(w, place),
           UNCHANGED <<flags, stored, consumed, recent, wallet, chunk, current, known, stops>>,
           queue' \in Seq(Items), processed' \subseteq Items,
           job' \in [Workers -> Seq(Items)], done' \in [Workers -> SUBSET Items],
           pc[Owner] = "join" => queue' = <<>> /\ processed' = {},
           WorkersAreEmpty => WorkersAreEmpty' /\ processed' = processed,
           ~Stopping /\ Distinct(queue) /\ Conserved => Distinct(queue') /\ Conserved'
    PROVE  ThreadsInv'
  <1> USE ThreadsDiffer
  <1>1. ThreadsTypeOK'
    BY Zenon DEF ThreadsInv, ThreadsTypeOK, Moves
  <1>2. \A t \in Threads \ {w} : StaysOrWaits(t)
    BY MovesStay, Zenon
  <1>3. OwnerInv' /\ pc'[Owner] = pc[Owner]
    BY <1>2, OwnerFrame, Zenon DEF ThreadsInv
  <1>4. FeedInv' /\ Applied' = Applied
    BY <1>2, FeedFrame, Zenon DEF ThreadsInv, StaysOrWaits, WaitPlaces
  <1>5. DownloaderInv'
    BY <1>2, <1>4, DownloaderFrame, Zenon DEF ThreadsInv
  <1>6. ChunkInv'
    <2>1. IsChunk => IsChunk'
      BY Zenon DEF IsChunk
    <2>2. MainWaits' <=> MainWaits
      BY <1>2, Zenon DEF MainWaits, StaysOrWaits, WaitPlaces
    <2>3. Stopping' <=> Stopping
      BY Zenon DEF Stopping
    <2>4. \A x \in {"loop", "starved", "push", "drain", "top", "drop", "hash",
                    "signal", "completed", "pop"} : pc'[Main] = x <=> pc[Main] = x
      BY <1>2, Zenon DEF StaysOrWaits, WaitPlaces
    <2> QED BY <1>3, <2>1, <2>2, <2>3, <2>4, Zenon DEF ChunkInv, ThreadsInv
  <1>7. Undefined' => Undefined
    BY <1>2, Zenon DEF Undefined, StaysOrWaits, WaitPlaces
  <1> QED BY <1>1, <1>3, <1>4, <1>5, <1>6, <1>7, Zenon DEF ThreadsInv

\* Worker w moves, and takes, delivers and forgets nothing.
LEMMA WorkerMoves ==
    ASSUME ThreadsInv, NEW w \in Workers, NEW place, Moves(w, place),
           UNCHANGED <<flags, dataVars, localVars, stops>>,
           pc[w] # "process", place # "process"
    PROVE  ThreadsInv'
  <1> USE ThreadsDiffer
  <1>1. ASSUME NEW v \in Workers
        PROVE  Taken(v)' = Taken(v) /\ Held(v)' = Held(v) /\ done'[v] = done[v]
    <2>1. CASE v = w
      BY <2>1, Zenon DEF Moves, Taken, Held, localVars
    <2>2. CASE v # w
      BY <2>2, MovesStay, HeldFrame, Zenon DEF localVars
    <2> QED BY <2>1, <2>2, Zenon
  <1>2. WorkersAreEmpty => WorkersAreEmpty' /\ processed' = processed
    BY <1>1, Zenon DEF WorkersAreEmpty, dataVars
  <1>3. Conserved => Conserved'
    BY <1>1, ConservedFrame, Zenon DEF dataVars, localVars
  <1>4. Distinct(queue) => Distinct(queue')
    BY Zenon DEF dataVars
  <1>5. /\ queue' \in Seq(Items) /\ processed' \subseteq Items
        /\ job' \in [Workers -> Seq(Items)] /\ done' \in [Workers -> SUBSET Items]
        /\ pc[Owner] = "join" => queue' = <<>> /\ processed' = {}
    BY Zenon DEF ThreadsInv, ThreadsTypeOK, OwnerInv, dataVars, localVars
  <1> QED BY <1>2, <1>3, <1>4, <1>5, WorkerFrame, Zenon DEF dataVars, localVars

\* A worker tests its condition.
LEMMA WorkerTestStep ==
    ASSUME ThreadsInv, NEW w \in Workers, WorkerTest(w)
    PROVE  ThreadsInv'
  <1> DEFINE place == IF "sync" \in flags THEN "done"
                      ELSE IF Len(queue) > 0 THEN "take" ELSE "tested"
  <1>1. pc[w] = "test" /\ Goto(w, place) /\ UNCHANGED <<flags, dataVars, localVars, stops>>
    BY Zenon DEF WorkerTest, TestPredicate, localVars
  <1>2. place \in Places /\ place # "process"
    BY Zenon DEF Places
  <1> HIDE DEF place
  <1>3. Moves(w, place)
    BY <1>1, <1>2, GotoMoves, ThreadsDiffer, Zenon DEF ThreadsInv
  <1> QED BY <1>1, <1>2, <1>3, WorkerMoves, Zenon

\* A worker wakes the main loop.
LEMMA NotifyMainStep ==
    ASSUME ThreadsInv, NEW w \in Workers, NotifyMain(w)
    PROVE  ThreadsInv'
  <1>1. Moves(w, "test")
    BY GotoNotifyingMoves, ThreadsDiffer, Zenon DEF ThreadsInv, NotifyMain, Places
  <1> QED BY <1>1, WorkerMoves, Zenon DEF NotifyMain

\* front_n_and_remove: what leaves the queue is in the hands of w, unless the
\* wallet stops.
LEMMA TakeJobStep ==
    ASSUME ThreadsInv, NEW w \in Workers, TakeJob(w)
    PROVE  ThreadsInv'
  <1> USE ThreadsDiffer
  <1> DEFINE place == IF queue # <<>> /\ "sync" \notin flags THEN "process" ELSE "result"
             front == Prefix(queue, WorkerChunk)
             rest == Suffix(queue, WorkerChunk)
  <1>1. /\ pc[w] = "take" /\ Goto(w, place)
        /\ queue' = rest /\ job' = [job EXCEPT ![w] = front]
        /\ UNCHANGED <<flags, stored, processed, consumed, recent, wallet, chunk,
                       current, known, done, stops>>
    BY Zenon DEF TakeJob
  <1>2. place \in Places
    BY Zenon DEF Places
  <1>3. Moves(w, place)
    BY <1>1, <1>2, GotoMoves, Zenon DEF ThreadsInv
  <1>4. /\ queue \in Seq(Items) /\ processed \subseteq Items
        /\ job \in [Workers -> Seq(Items)] /\ done \in [Workers -> SUBSET Items]
    BY Zenon DEF ThreadsInv, ThreadsTypeOK
  <1>5. /\ front \in Seq(Items) /\ rest \in Seq(Items)
        /\ Range(queue) = Range(front) \cup Range(rest)
        /\ Distinct(queue) => Distinct(rest) /\ Range(front) \cap Range(rest) = {}
        /\ queue = <<>> => front = <<>> /\ rest = <<>>
    BY <1>4, SplitOf, WorkerChunkIsNat, Zenon
  <1> HIDE DEF front, rest
  <1>6. \A v \in Workers \ {w} : Taken(v)' = Taken(v) /\ Held(v)' = Held(v)
    BY <1>1, <1>3, <1>4, MovesStay, HeldFrame, Zenon
  <1>7. Taken(w) = {} /\ Held(w) = done[w] /\ done' = done
    BY <1>1, Zenon DEF Taken, Held
  <1>8. /\ Taken(w)' = IF place = "process" THEN Range(front) ELSE {}
        /\ Held(w)' = Taken(w)' \cup done[w]
    BY <1>1, <1>3, <1>4, Zenon DEF Taken, Held, Moves, Range
  <1>9. WorkersAreEmpty => WorkersAreEmpty' /\ processed' = processed
    <2> HAVE WorkersAreEmpty
    <2>1. queue' = <<>> /\ place = "result"
      BY <1>1, <1>5, Zenon DEF WorkersAreEmpty
    <2>2. Held(w)' = {}
      BY <2>1, <1>7, <1>8, Zenon DEF WorkersAreEmpty
    <2> QED BY <2>1, <2>2, <1>1, <1>6, Zenon DEF WorkersAreEmpty
  <1>10. ASSUME ~Stopping, Distinct(queue), Conserved
         PROVE  Distinct(queue') /\ Conserved'
    <2>1. Taken(w)' = Range(front) /\ Held(w)' = Range(front) \cup done[w]
      <3>1. CASE queue = <<>>
        BY <3>1, <1>5, <1>8 DEF Range
      <3>2. CASE queue # <<>>
        BY <3>2, <1>8, <1>10, Zenon DEF Stopping
      <3> QED BY <3>1, <3>2, Zenon
    <2>2. Range(front) \cap Range(rest) = {} /\ Distinct(rest)
      BY <1>5, <1>10, Zenon
    <2>3. /\ Held(w) = done[w] /\ Range(queue)' = Range(rest)
          /\ processed' = processed /\ Range(chunk)' = Range(chunk)
      BY <1>1, <1>7, Zenon DEF Range
    <2>4. Range(rest) \cup processed \cup UNION {Held(v)' : v \in Workers} = Range(chunk)
      BY <2>1, <2>3, <1>5, <1>6, <1>10 DEF Conserved
    <2>5. Range(rest) \cap processed = {}
      BY <1>5, <1>10, Zenon DEF Conserved
    <2>6. ASSUME NEW v \in Workers
          PROVE  /\ Taken(v)' \cap done[v] = {}
                 /\ Held(v)' \cap (Range(rest) \cup processed) = {}
                 /\ \A u \in Workers \ {v} : Held(v)' \cap Held(u)' = {}
      BY <2>1, <2>2, <2>3, <1>5, <1>6, <1>7, <1>10 DEF Conserved
    <2> QED BY <1>1, <1>7, <2>2, <2>3, <2>4, <2>5, <2>6, Zenon DEF Conserved
  <1>11. /\ queue' \in Seq(Items) /\ processed' \subseteq Items
         /\ job' \in [Workers -> Seq(Items)] /\ done' \in [Workers -> SUBSET Items]
         /\ pc[Owner] = "join" => queue' = <<>> /\ processed' = {}
    BY <1>1, <1>4, <1>5, Zenon DEF ThreadsInv, OwnerInv
  <1> QED BY <1>1, <1>3, <1>9, <1>10, <1>11, WorkerFrame, Zenon

\* A worker scans its blocks.
LEMMA ProcessJobStep ==
    ASSUME ThreadsInv, NEW w \in Workers, ProcessJob(w)
    PROVE  ThreadsInv'
  <1> USE ThreadsDiffer
  <1>1. /\ pc[w] = "process" /\ Moves(w, "take")
        /\ job' = [job EXCEPT ![w] = <<>>]
        /\ done' = [done EXCEPT ![w] = @ \cup Range(job[w])]
        /\ UNCHANGED <<flags, dataVars, chunk, current, known, stops>>
    BY GotoMoves, Zenon DEF ThreadsInv, ProcessJob, Places
  <1>2. /\ queue \in Seq(Items) /\ processed \subseteq Items
        /\ job \in [Workers -> Seq(Items)] /\ done \in [Workers -> SUBSET Items]
    BY Zenon DEF ThreadsInv, ThreadsTypeOK
  <1>3. Range(job[w]) \subseteq Items
    BY <1>2 DEF Range
  <1>4. \A v \in Workers \ {w} : /\ Taken(v)' = Taken(v) /\ Held(v)' = Held(v)
                                 /\ done'[v] = done[v]
    BY <1>1, <1>2, MovesStay, HeldFrame, Zenon
  <1>5. Taken(w) = Range(job[w]) /\ Held(w) = Range(job[w]) \cup done[w]
    BY <1>1, Zenon DEF Taken, Held
  <1>6. Taken(w)' = {} /\ done'[w] = Held(w) /\ Held(w)' = Held(w)
    BY <1>1, <1>2, <1>5, Zenon DEF Taken, Held, Moves
  <1>7. WorkersAreEmpty => WorkersAreEmpty' /\ processed' = processed
    BY <1>1, <1>4, <1>6, Zenon DEF WorkersAreEmpty, dataVars
  <1>8. Conserved => Conserved'
    <2> HAVE Conserved
    <2>1. \A v \in Workers : Held(v)' = Held(v) /\ Taken(v)' \cap done'[v] = {}
      BY <1>4, <1>6, Zenon DEF Conserved
    <2>2. Range(queue)' = Range(queue) /\ processed' = processed /\ Range(chunk)' = Range(chunk)
      BY <1>1, Zenon DEF dataVars, Range
    <2> QED BY <2>1, <2>2 DEF Conserved
  <1>9. /\ queue' \in Seq(Items) /\ processed' \subseteq Items
        /\ job' \in [Workers -> Seq(Items)]
        /\ pc[Owner] = "join" => queue' = <<>> /\ processed' = {}
        /\ Distinct(queue) => Distinct(queue')
    BY <1>1, <1>2 DEF ThreadsInv, OwnerInv, dataVars
  <1>10. done' \in [Workers -> SUBSET Items]
    BY <1>1, <1>2, <1>3, Zenon
  <1> QED BY <1>1, <1>7, <1>8, <1>9, <1>10, WorkerFrame, Zenon DEF dataVars

\* A worker that is stopped drops its blocks.
LEMMA GiveUpJobStep ==
    ASSUME ThreadsInv, NEW w \in Workers, GiveUpJob(w)
    PROVE  ThreadsInv'
  <1> USE ThreadsDiffer
  <1>1. /\ pc[w] = "process" /\ Moves(w, "done") /\ Stopping
        /\ UNCHANGED <<flags, dataVars, localVars, stops>>
    BY GotoMoves, Zenon DEF ThreadsInv, GiveUpJob, Places, Stopping
  <1>2. \A v \in Workers \ {w} : Held(v)' = Held(v)
    BY <1>1, MovesStay, HeldFrame, Zenon DEF localVars
  <1>3. Held(w)' \subseteq Held(w)
    BY <1>1, Zenon DEF Held, Taken, Moves, localVars
  <1>4. WorkersAreEmpty => WorkersAreEmpty' /\ processed' = processed
    BY <1>1, <1>2, <1>3, Zenon DEF WorkersAreEmpty, dataVars
  <1>5. /\ queue' \in Seq(Items) /\ processed' \subseteq Items
        /\ job' \in [Workers -> Seq(Items)] /\ done' \in [Workers -> SUBSET Items]
        /\ pc[Owner] = "join" => queue' = <<>> /\ processed' = {}
    BY <1>1, Zenon DEF ThreadsInv, ThreadsTypeOK, OwnerInv, dataVars, localVars
  <1> QED BY <1>1, <1>4, <1>5, WorkerFrame, Zenon DEF dataVars, localVars

\* push_n: what w delivers is in m_processedBlocks, unless the wallet stops.
LEMMA PushProcessedStep ==
    ASSUME ThreadsInv, NEW w \in Workers, PushProcessed(w)
    PROVE  ThreadsInv'
  <1> USE ThreadsDiffer
  <1> DEFINE place == IF done[w] = {} THEN "test" ELSE "notify"
  <1>1. /\ pc[w] = "result" /\ Goto(w, place)
        /\ processed' = IF "processed" \in flags THEN processed ELSE processed \cup done[w]
        /\ done' = [done EXCEPT ![w] = {}]
        /\ UNCHANGED <<flags, stored, queue, consumed, recent, wallet, chunk, current,
                       known, job, stops>>
    BY Zenon DEF PushProcessed
  <1>2. place \in Places /\ place # "process"
    BY Zenon DEF Places
  <1>3. Moves(w, place)
    BY <1>1, <1>2, GotoMoves, Zenon DEF ThreadsInv
  <1> HIDE DEF place
  <1>4. /\ queue \in Seq(Items) /\ processed \subseteq Items
        /\ job \in [Workers -> Seq(Items)] /\ done \in [Workers -> SUBSET Items]
    BY Zenon DEF ThreadsInv, ThreadsTypeOK
  <1>5. \A v \in Workers \ {w} : /\ Taken(v)' = Taken(v) /\ Held(v)' = Held(v)
                                 /\ done'[v] = done[v]
    BY <1>1, <1>3, <1>4, MovesStay, HeldFrame, Zenon
  <1>6. Taken(w) = {} /\ Held(w) = done[w]
    BY <1>1, Zenon DEF Taken, Held
  <1>7. Taken(w)' = {} /\ Held(w)' = {} /\ done'[w] = {}
    BY <1>1, <1>2, <1>3, <1>4, Zenon DEF Taken, Held, Moves
  <1>8. WorkersAreEmpty => WorkersAreEmpty' /\ processed' = processed
    BY <1>1, <1>5, <1>6, <1>7, Zenon DEF WorkersAreEmpty
  <1>9. ASSUME ~Stopping, Distinct(queue), Conserved
        PROVE  Distinct(queue') /\ Conserved'
    <2>1. processed' = processed \cup Held(w)
      BY <1>1, <1>6, <1>9, Zenon DEF ThreadsInv, OwnerInv, Stopping, Flags
    <2>2. Range(queue)' = Range(queue) /\ Range(chunk)' = Range(chunk) /\ Distinct(queue')
      BY <1>1, <1>9, Zenon DEF Range
    <2>3. Range(queue) \cup processed' \cup UNION {Held(v)' : v \in Workers} = Range(chunk)
      BY <2>1, <1>5, <1>7, <1>9 DEF Conserved
    <2>4. ASSUME NEW v \in Workers
          PROVE  /\ Taken(v)' \cap done'[v] = {}
                 /\ Held(v)' \cap (Range(queue) \cup processed') = {}
                 /\ \A u \in Workers \ {v} : Held(v)' \cap Held(u)' = {}
      BY <2>1, <1>5, <1>7, <1>9 DEF Conserved
    <2>5. Range(queue) \cap processed' = {}
      BY <2>1, <1>9, Zenon DEF Conserved
    <2> QED BY <2>2, <2>3, <2>4, <2>5, Zenon DEF Conserved
  <1>10. /\ queue' \in Seq(Items) /\ processed' \subseteq Items
         /\ job' \in [Workers -> Seq(Items)] /\ done' \in [Workers -> SUBSET Items]
    BY <1>1, <1>4, Zenon
  <1>11. pc[Owner] = "join" => queue' = <<>> /\ processed' = {}
    BY <1>1, Zenon DEF ThreadsInv, OwnerInv, Flags
  <1> QED BY <1>1, <1>3, <1>8, <1>9, <1>10, <1>11, WorkerFrame, Zenon

-----------------------------------------------------------------------------
(* Steps of the downloader. *)

\* Storing more blocks does not change which ones come first.
LEMMA LongerStore ==
    ASSUME NEW t \in Seq(1..MaxHeight), stored \in Seq(1..MaxHeight),
           NEW h \in 1..MaxHeight, NEW T, IsFront(T, <<h>> \o stored)
    PROVE  IsFront(T, <<h>> \o (stored \o t))
  <1>1. <<h>> \o (stored \o t) = (<<h>> \o stored) \o t
    OBVIOUS
  <1>2. <<h>> \o stored \in Seq(1..MaxHeight)
    OBVIOUS
  <1> QED BY <1>1, <1>2, FrontOfLonger, Zenon

\* A step of the downloader keeps the invariant if it keeps the store in order.
LEMMA DownloaderStepFrame ==
    ASSUME ThreadsInv, NEW place, Moves(Downloader, place),
           UNCHANGED <<flags, queue, processed, wallet, chunk, current, job, done, stops>>,
           consumed' \in BOOLEAN, {recent', known'} \subseteq 0..MaxHeight,
           \E t \in Seq(1..MaxHeight) : stored' = stored \o t,
           FeedInv', DownloaderInv'
    PROVE  ThreadsInv'
  <1> USE ThreadsDiffer
  <1>1. PICK t \in Seq(1..MaxHeight) : stored' = stored \o t
    BY Zenon
  <1>2. stored \in Seq(1..MaxHeight) /\ stored' \in Seq(1..MaxHeight)
    BY <1>1, ConcatOf, Zenon DEF ThreadsInv, ThreadsTypeOK
  <1>3. ThreadsTypeOK'
    BY <1>2, Zenon DEF ThreadsInv, ThreadsTypeOK, Moves
  <1>4. \A u \in Threads \ {Downloader} : StaysOrWaits(u)
    BY MovesStay, Zenon
  <1>5. OwnerInv' /\ pc'[Owner] = pc[Owner]
    BY <1>4, OwnerFrame, Zenon DEF ThreadsInv, OwnerInv
  <1>6. \A w \in Workers : /\ Taken(w)' = Taken(w)
                           /\ Held(w)' = Held(w)
                           /\ done'[w] = done[w]
    BY <1>4, HeldFrame, Zenon
  <1>7. ChunkInv'
    <2>1. WorkersAreEmpty => WorkersAreEmpty'
      BY <1>6, Zenon DEF WorkersAreEmpty
    <2>2. IsChunk => IsChunk'
      <3> HAVE IsChunk
      <3>1. Len(chunk) \in 1..Len(stored) /\ Len(stored) \in Nat /\ Len(t) \in Nat
        BY <1>2 DEF IsChunk
      <3>2. Len(stored') = Len(stored) + Len(t) /\ \A j \in 1..Len(stored) : stored'[j] = stored[j]
        BY <1>1, <1>2, ConcatOf
      <3> QED BY <3>1, <3>2 DEF IsChunk
    <2>3. Conserved => Conserved'
      BY <1>6, ConservedFrame, Zenon
    <2>4. MainWaits' <=> MainWaits
      BY <1>4, Zenon DEF MainWaits, StaysOrWaits, WaitPlaces
    <2>5. Stopping' <=> Stopping
      BY Zenon DEF Stopping
    <2>6. \A x \in {"loop", "starved", "push", "drain", "top", "drop", "hash",
                    "signal", "completed", "pop"} : pc'[Main] = x <=> pc[Main] = x
      BY <1>4, Zenon DEF StaysOrWaits, WaitPlaces
    <2>7. IsFront(processed, stored) => IsFront(processed', stored')
      BY <1>1, <1>2, FrontOfLonger, Zenon
    <2>8. ASSUME NEW h \in 1..MaxHeight, IsFront(processed, <<h>> \o stored)
          PROVE  IsFront(processed', <<h>> \o stored')
      BY <1>1, <1>2, <2>8, LongerStore, Zenon
    <2> QED
      BY <1>5, <2>1, <2>2, <2>3, <2>4, <2>5, <2>6, <2>7, <2>8, Zenon DEF ChunkInv, ThreadsInv
  <1>8. Undefined' => Undefined
    BY <1>4, Zenon DEF Undefined, StaysOrWaits, WaitPlaces
  <1> QED BY <1>3, <1>5, <1>7, <1>8, Zenon DEF ThreadsInv

\* The store is as it was, and so is what was applied.
LEMMA DownloaderLooks ==
    ASSUME ThreadsInv, NEW place, Moves(Downloader, place),
           UNCHANGED <<flags, queue, processed, wallet, chunk, current, job, done, stops,
                       stored, recent>>,
           consumed' \in BOOLEAN, known' \in 0..MaxHeight,
           Applied' = Applied => DownloaderInv'
    PROVE  ThreadsInv'
  <1>1. StaysOrWaits(Main)
    BY MovesStay, ThreadsDiffer, Zenon
  <1>2. FeedInv' /\ Applied' = Applied
    BY <1>1, FeedFrame, Zenon DEF ThreadsInv, StaysOrWaits, WaitPlaces
  <1>3. stored' = stored \o <<>> /\ <<>> \in Seq(1..MaxHeight)
    BY DEF ThreadsInv, ThreadsTypeOK
  <1>4. {recent', known'} \subseteq 0..MaxHeight
    BY Zenon DEF ThreadsInv, ThreadsTypeOK
  <1> QED BY <1>2, <1>3, <1>4, DownloaderStepFrame, Zenon

\* The downloader tests its condition.
LEMMA DownloaderTestStep ==
    ASSUME ThreadsInv, DownloaderTest
    PROVE  ThreadsInv'
  <1> DEFINE place == IF "downloader" \in flags THEN "done"
                      ELSE IF consumed THEN "ask" ELSE "tested"
  <1>1. Goto(Downloader, place) /\ UNCHANGED <<flags, dataVars, localVars, stops>>
    BY Zenon DEF DownloaderTest, TestPredicate, localVars
  <1>2. place \in Places /\ place \notin {"recent", "answer"}
    BY Zenon DEF Places
  <1> HIDE DEF place
  <1>3. Moves(Downloader, place)
    BY <1>1, <1>2, GotoMoves, ThreadsDiffer, Zenon DEF ThreadsInv
  <1>4. DownloaderInv'
    BY <1>2, <1>3, Zenon DEF DownloaderInv, Moves
  <1>5. consumed' \in BOOLEAN /\ known' \in 0..MaxHeight
    BY <1>1, Zenon DEF ThreadsInv, ThreadsTypeOK, dataVars, localVars
  <1> QED BY <1>1, <1>3, <1>4, <1>5, DownloaderLooks, Zenon DEF dataVars, localVars

\* The downloader resets m_shouldTryFetch.
LEMMA ForgetConsumedStep ==
    ASSUME ThreadsInv, ForgetConsumed
    PROVE  ThreadsInv'
  <1>1. Moves(Downloader, "test")
    BY GotoMoves, ThreadsDiffer, Zenon DEF ThreadsInv, ForgetConsumed, Places
  <1>2. DownloaderInv'
    BY <1>1, Zenon DEF DownloaderInv, Moves
  <1>3. consumed' \in BOOLEAN /\ known' \in 0..MaxHeight
    BY Zenon DEF ForgetConsumed, ThreadsInv, ThreadsTypeOK, localVars
  <1> QED BY <1>1, <1>2, <1>3, DownloaderLooks, Zenon DEF ForgetConsumed, localVars

\* The downloader reads the last block of the store.
LEMMA ReadStoredStep ==
    ASSUME ThreadsInv, ReadStored
    PROVE  ThreadsInv'
  <1>1. consumed' \in BOOLEAN /\ stored \in Seq(1..MaxHeight) /\ known \in 0..MaxHeight
    BY Zenon DEF ThreadsInv, ThreadsTypeOK, ReadStored, dataVars
  <1>2. CASE Len(stored) >= StoreLimit \/ "downloader" \in flags
    <2>1. Moves(Downloader, "rest") /\ known' = known
      BY <1>2, GotoMoves, ThreadsDiffer, Zenon DEF ThreadsInv, ReadStored, Places
    <2>2. DownloaderInv'
      BY <2>1, Zenon DEF DownloaderInv, Moves
    <2> QED BY <1>1, <2>1, <2>2, DownloaderLooks, Zenon DEF ReadStored, dataVars
  <1>3. CASE ~(Len(stored) >= StoreLimit \/ "downloader" \in flags)
    <2>1. /\ Moves(Downloader, "recent")
          /\ known' = IF stored = <<>> THEN 0 ELSE stored[Len(stored)]
      BY <1>3, GotoMoves, ThreadsDiffer, Zenon DEF ThreadsInv, ReadStored, Places
    <2>2. stored # <<>> => stored[Len(stored)] \in 1..MaxHeight
      BY <1>1, LastOf, Zenon
    <2>3. known' \in 0..MaxHeight
      BY <2>1, <2>2, ThreadAssumption
    <2>4. DownloaderInv'
      BY <2>1, <2>2 DEF DownloaderInv, Moves, ReadStored, dataVars
    <2> QED BY <1>1, <2>1, <2>3, <2>4, DownloaderLooks, Zenon DEF ReadStored, dataVars
  <1> QED BY <1>2, <1>3, Zenon

\* The downloader reads the last block that was processed.
LEMMA ReadRecentStep ==
    ASSUME ThreadsInv, ReadRecent
    PROVE  ThreadsInv'
  <1>1. Moves(Downloader, "answer")
    BY GotoMoves, ThreadsDiffer, Zenon DEF ThreadsInv, ReadRecent, Places
  <1>2. /\ consumed' \in BOOLEAN /\ known \in 0..MaxHeight /\ recent \in 0..MaxHeight
        /\ stored' = stored
    BY Zenon DEF ThreadsInv, ThreadsTypeOK, ReadRecent, dataVars
  <1>3. known' = IF known = 0 THEN recent ELSE known
    BY Zenon DEF ReadRecent
  <1>4. recent \in {Applied - 1, Applied}
    BY <1>2, Zenon DEF ThreadsInv, FeedInv, Applied
  <1>5. Applied' = Applied => DownloaderInv'
    BY <1>1, <1>2, <1>3, <1>4, Zenon DEF ThreadsInv, DownloaderInv, Moves, ReadRecent
  <1> QED BY <1>1, <1>2, <1>3, <1>5, DownloaderLooks, Zenon DEF ReadRecent, dataVars

\* A fact of arithmetic, for the heights of a run of blocks.
LEMMA Rearranged ==
    \A x \in Int : \A k, l, b \in Int : k - x = l - b => x = k - l + b
  OBVIOUS

\* The blocks that are stored, and those the daemon returns after them.
LEMMA AnswerContinues ==
    ASSUME stored \in Seq(1..MaxHeight), IsRun(stored), known \in 0..MaxHeight,
           stored # <<>> => known = stored[Len(stored)],
           NEW n \in Nat \ {0}, known + n <= MaxHeight,
           NEW t, t = [i \in 1..n |-> known + i]
    PROVE  /\ t \in Seq(1..MaxHeight) /\ Len(t) = n
           /\ \A i \in 1..n : t[i] = known + i
           /\ IsRun(stored \o t)
           /\ stored \o t # <<>>
           /\ (stored \o t)[1] = IF stored = <<>> THEN known + 1 ELSE stored[1]
  <1>1. /\ t \in Seq(1..MaxHeight) /\ Len(t) = n
        /\ \A i \in 1..n : t[i] = known + i
    BY ThreadAssumption
  <1> DEFINE u == stored \o t
             m == Len(stored)
  <1>2. /\ m \in Nat
        /\ u \in Seq(1..MaxHeight)
        /\ Len(u) = m + n
        /\ \A i \in 1..m : u[i] = stored[i]
        /\ \A i \in (m + 1)..(m + n) : u[i] = known + (i - m)
    <2>1. \A i \in (m + 1)..(m + n) : u[i] = t[i - m] /\ i - m \in 1..n
      BY <1>1, ConcatOf
    <2>2. m \in Nat
      OBVIOUS
    <2>3. u \in Seq(1..MaxHeight) /\ Len(u) = m + n /\ \A i \in 1..m : u[i] = stored[i]
      BY <1>1, ConcatOf
    <2>4. ASSUME NEW i \in (m + 1)..(m + n) PROVE u[i] = known + (i - m)
      BY <2>1, <1>1, Zenon
    <2> QED BY <2>2, <2>3, <2>4, Zenon
  <1>3. m > 0 => known = stored[m]
    OBVIOUS
  <1>4. \A i \in 1..m : stored[i] \in Int
    <2>1. \A i \in 1..m : stored[i] \in 1..MaxHeight
      BY ElementOf, Zenon
    <2> QED BY <2>1
  <1> HIDE DEF u, m
  <1>5. m = Len(stored)
    BY Zenon DEF m
  <1>6. ASSUME NEW i \in 1..(m + n), NEW j \in 1..(m + n) PROVE u[j] - u[i] = j - i
    <2>1. ASSUME NEW a \in 1..m PROVE stored[m] - stored[a] = m - a
      <3>1. m \in 1..m
        BY <1>2
      <3> QED BY <3>1, <1>5, Zenon DEF IsRun
    <2>2. ASSUME NEW a \in 1..(m + n), m > 0 PROVE u[a] = known - m + a
      <3>1. CASE a <= m
        <4>1. a \in 1..m /\ u[a] = stored[a] /\ stored[a] \in Int
          BY <3>1, <1>2, <1>4
        <4>2. known - stored[a] = m - a
          BY <4>1, <2>1, <2>2, <1>3, Zenon
        <4>3. known \in Int /\ m \in Int /\ a \in Int
          BY <1>2, ThreadAssumption
        <4>4. \A k, l, b \in Int : k - stored[a] = l - b => stored[a] = k - l + b
          <5>1. stored[a] \in Int
            BY <4>1, Zenon
          <5> QED BY <5>1, Rearranged, Zenon
        <4>5. stored[a] = known - m + a
          BY <4>2, <4>3, <4>4, Zenon
        <4> QED BY <4>1, <4>5, Zenon
      <3>2. CASE a > m
        <4>1. a \in (m + 1)..(m + n)
          BY <3>2, <1>2
        <4> QED BY <4>1, <1>2
      <3> QED BY <3>1, <3>2, <1>2
    <2>3. \A a \in 1..(m + n) : m = 0 => u[a] = known + a
      BY <1>2
    <2>4. known \in Int /\ m \in Int /\ i \in Int /\ j \in Int
      BY <1>2, ThreadAssumption
    <2>5. CASE m > 0
      <3>1. u[i] = known - m + i /\ u[j] = known - m + j
        BY <2>2, <2>5, Zenon
      <3>2. (known - m + j) - (known - m + i) = j - i
        BY <2>4
      <3> QED BY <3>1, <3>2, Zenon
    <2>6. CASE m = 0
      <3>1. u[i] = known + i /\ u[j] = known + j
        BY <2>3, <2>6, Zenon
      <3>2. (known + j) - (known + i) = j - i
        BY <2>4
      <3> QED BY <3>1, <3>2, Zenon
    <2> QED BY <2>5, <2>6, <1>2
  <1>7. IsRun(u)
    BY <1>2, <1>6, Zenon DEF IsRun
  <1>8. u # <<>> /\ u[1] = IF stored = <<>> THEN known + 1 ELSE stored[1]
    <2>1. CASE m = 0
      BY <2>1, <1>2, <1>5
    <2>2. CASE m > 0
      BY <2>2, <1>2, <1>5
    <2> QED BY <2>1, <2>2, <1>2
  <1> QED BY <1>1, <1>7, <1>8, Zenon DEF u

\* The downloader stores an answer.
LEMMA StoreBlocksStep ==
    ASSUME ThreadsInv, StoreBlocks
    PROVE  ThreadsInv'
  <1>1. /\ Moves(Downloader, "ask") /\ pc[Downloader] = "answer" /\ known' = 0
        /\ UNCHANGED <<flags, queue, processed, consumed, recent, wallet, chunk, current,
                       job, done, stops>>
    BY GotoMoves, ThreadsDiffer, Zenon DEF ThreadsInv, StoreBlocks, Places
  <1>2. /\ consumed' \in BOOLEAN /\ known \in 0..MaxHeight /\ recent \in 0..MaxHeight
        /\ current \in 0..MaxHeight
        /\ known' \in 0..MaxHeight
        /\ stored \in Seq(1..MaxHeight)
    BY <1>1, ThreadAssumption DEF ThreadsInv, ThreadsTypeOK
  <1>3. DownloaderInv'
    BY <1>1, Zenon DEF DownloaderInv, Moves
  <1>4. CASE "stored" \in flags
    <2>1. stored' = stored
      BY <1>4, Zenon DEF StoreBlocks
    <2> QED BY <1>1, <1>2, <1>3, <2>1, DownloaderLooks, Zenon
  <1>5. CASE "stored" \notin flags
    <2>1. PICK n \in 1..BatchSize : /\ known + n <= MaxHeight
                                    /\ stored' = stored \o [i \in 1..n |-> known + i]
      BY <1>5, Zenon DEF StoreBlocks
    <2>2. n \in Nat \ {0}
      BY ThreadAssumption
    <2>3. stored # <<>> => known = stored[Len(stored)]
      BY <1>1, Zenon DEF ThreadsInv, DownloaderInv
    <2>4. PICK t \in Seq(1..MaxHeight) :
              /\ stored' = stored \o t /\ IsRun(stored \o t) /\ stored \o t # <<>>
              /\ (stored \o t)[1] = IF stored = <<>> THEN known + 1 ELSE stored[1]
      BY <1>2, <2>1, <2>2, <2>3, AnswerContinues, Zenon DEF ThreadsInv, FeedInv
    <2>5. StaysOrWaits(Main)
      BY <1>1, MovesStay, ThreadsDiffer, Zenon
    <2>6. Applied' = Applied
      BY <1>1, <2>5, Zenon DEF Applied, StaysOrWaits, WaitPlaces
    <2>7. stored = <<>> => known \in {Applied - 1, Applied}
      BY <1>1, Zenon DEF ThreadsInv, DownloaderInv
    <2>8. stored'[1] \in {Applied, Applied + 1} /\ (stored # <<>> => stored'[1] = stored[1])
      BY <1>2, <2>4, <2>7 DEF ThreadsInv, FeedInv, Applied
    <2>9. FeedInv'
      <3>1. wallet' = 1..Applied'
        BY <1>1, <2>6, Zenon DEF ThreadsInv, FeedInv
      <3>2. /\ pc'[Main] = "drop" <=> pc[Main] = "drop"
            /\ pc'[Main] = "hash" <=> pc[Main] = "hash"
        BY <2>5, Zenon DEF StaysOrWaits, WaitPlaces
      <3>3. pc'[Main] \in {"drop", "hash"} => current' > 0 /\ recent' \in {current' - 1, current'}
        BY <1>1, <3>2, Zenon DEF ThreadsInv, FeedInv
      <3>4. IsRun(stored') /\ stored' # <<>>
        BY <2>4, Zenon
      <3>5. stored'[1] \in {Applied', Applied' + 1}
        BY <2>6, <2>8, Zenon
      <3>6. pc'[Main] = "drop" => stored'[1] = current'
        BY <1>1, <2>8, <3>2, Zenon DEF ThreadsInv, FeedInv
      <3> QED BY <3>1, <3>3, <3>4, <3>5, <3>6, Zenon DEF FeedInv
    <2> QED BY <1>1, <1>2, <1>3, <2>4, <2>9, DownloaderStepFrame, Zenon
  <1> QED BY <1>4, <1>5, Zenon

\* The downloader stores the top block for a synced wallet.
LEMMA StoreTopBlockStep ==
    ASSUME ThreadsInv, StoreTopBlock
    PROVE  ThreadsInv'
  <1>1. /\ Moves(Downloader, "rest") /\ pc[Downloader] = "answer" /\ known' = 0
        /\ UNCHANGED <<flags, stored, queue, processed, consumed, wallet, chunk, current,
                       job, done, stops>>
    BY GotoMoves, ThreadsDiffer, Zenon DEF ThreadsInv, StoreTopBlock, Places
  <1>2. /\ consumed' \in BOOLEAN /\ recent \in 0..MaxHeight /\ current \in 0..MaxHeight
        /\ known' \in 0..MaxHeight
        /\ stored \in Seq(1..MaxHeight) /\ MaxHeight \in Nat
    BY <1>1, ThreadAssumption DEF ThreadsInv, ThreadsTypeOK
  <1>3. DownloaderInv'
    BY <1>1, Zenon DEF DownloaderInv, Moves
  <1>4. CASE recent' = recent
    BY <1>1, <1>2, <1>3, <1>4, DownloaderLooks, Zenon
  <1>5. CASE recent' = MaxHeight /\ known = MaxHeight /\ stored = <<>>
    <2>1. known \in {Applied - 1, Applied}
      BY <1>1, <1>5, Zenon DEF ThreadsInv, DownloaderInv
    <2>2. Applied = MaxHeight
      BY <1>2, <1>5, <2>1 DEF Applied
    <2>3. StaysOrWaits(Main)
      BY <1>1, MovesStay, ThreadsDiffer, Zenon
    <2>4. /\ pc'[Main] = "drop" <=> pc[Main] = "drop"
          /\ pc'[Main] = "hash" <=> pc[Main] = "hash"
      BY <2>3, Zenon DEF StaysOrWaits, WaitPlaces
    <2>5. Applied' = Applied
      BY <1>1, <1>5, <2>2, <2>4, Zenon DEF Applied
    <2>6. pc[Main] # "drop"
      BY <1>5, Zenon DEF ThreadsInv, FeedInv
    <2>7. pc[Main] = "hash" => current = MaxHeight
      BY <2>2, Zenon DEF Applied
    <2>8. FeedInv'
      BY <1>1, <1>2, <1>5, <2>4, <2>5, <2>6, <2>7 DEF ThreadsInv, FeedInv, IsRun
    <2>9. \E t \in Seq(1..MaxHeight) : stored' = stored \o t
      <3>1. stored' = stored \o <<>> /\ <<>> \in Seq(1..MaxHeight)
        BY <1>1, <1>2
      <3> QED BY <3>1, Zenon
    <2>10. {recent', known'} \subseteq 0..MaxHeight
      BY <1>2, <1>5
    <2> QED BY <1>1, <1>2, <1>3, <2>8, <2>9, <2>10, DownloaderStepFrame, Zenon
  <1>6. recent' = recent \/ (recent' = MaxHeight /\ known = MaxHeight /\ stored = <<>>)
    BY Zenon DEF StoreTopBlock
  <1> QED BY <1>4, <1>5, <1>6, Zenon

-----------------------------------------------------------------------------
(* Steps of the main loop. *)

\* What every step of the main loop leaves to the others.
LEMMA MainFrame ==
    ASSUME ThreadsInv, NEW place, Moves(Main, place), place # "undefined",
           UNCHANGED <<flags, known, job, done, stops>>,
           consumed' \in BOOLEAN, stored' \in Seq(1..MaxHeight),
           queue' \in Seq(Items), processed' \subseteq Items, wallet' \subseteq 1..MaxHeight,
           {recent', current'} \subseteq 0..MaxHeight, chunk' \in Seq(Items),
           pc[Owner] = "join" => queue' = <<>> /\ processed' = {},
           FeedInv', DownloaderInv', pc'[Owner] = pc[Owner] => ChunkInv'
    PROVE  ThreadsInv'
  <1> USE ThreadsDiffer
  <1>1. ThreadsTypeOK'
    BY Zenon DEF ThreadsInv, ThreadsTypeOK, Moves
  <1>2. StaysOrWaits(Owner)
    BY MovesStay, Zenon
  <1>3. OwnerInv' /\ pc'[Owner] = pc[Owner]
    BY <1>2, OwnerFrame, Zenon DEF ThreadsInv
  <1>4. ~Undefined'
    BY Zenon DEF Undefined, Moves
  <1> QED BY <1>1, <1>3, <1>4, Zenon DEF ThreadsInv

\* The main loop leaves the hands of the workers alone.
LEMMA MainLeavesWorkers ==
    ASSUME NEW place, Moves(Main, place), UNCHANGED <<job, done>>
    PROVE  \A w \in Workers : /\ Taken(w)' = Taken(w)
                              /\ Held(w)' = Held(w)
                              /\ done'[w] = done[w]
  <1>1. \A w \in Workers : StaysOrWaits(w)
    BY MovesStay, ThreadsDiffer, Zenon
  <1> QED BY <1>1, HeldFrame, Zenon

\* The main loop leaves what the downloader knows alone.
LEMMA MainLeavesDownloader ==
    ASSUME DownloaderInv, NEW place, Moves(Main, place), UNCHANGED <<known, stored>>,
           Applied' = Applied
    PROVE  DownloaderInv'
  <1>1. StaysOrWaits(Downloader)
    BY MovesStay, ThreadsDiffer, Zenon
  <1> QED BY <1>1, DownloaderFrame, Zenon

\* A step of the main loop that changes no shared data but the wish for more.
LEMMA MainLooks ==
    ASSUME ThreadsInv, NEW place, Moves(Main, place), place # "undefined",
           {pc[Main], place} \cap {"drop", "hash"} = {},
           UNCHANGED <<flags, stored, queue, processed, recent, wallet, current, known,
                       job, done, stops>>,
           consumed' \in BOOLEAN, chunk' \in Seq(Items),
           /\ pc'[Main] = place
           /\ pc'[Owner] = pc[Owner]
           /\ \A w \in Workers : /\ Taken(w)' = Taken(w)
                                 /\ Held(w)' = Held(w)
                                 /\ done'[w] = done[w]
           => ChunkInv'
    PROVE  ThreadsInv'
  <1>1. FeedInv' /\ Applied' = Applied
    BY FeedFrame, Zenon DEF ThreadsInv, Moves
  <1>2. DownloaderInv'
    BY <1>1, MainLeavesDownloader, Zenon DEF ThreadsInv
  <1>3. pc'[Owner] = pc[Owner] => ChunkInv'
    BY MainLeavesWorkers, Zenon DEF Moves
  <1>4. /\ stored' \in Seq(1..MaxHeight) /\ queue' \in Seq(Items)
        /\ processed' \subseteq Items /\ wallet' \subseteq 1..MaxHeight
        /\ {recent', current'} \subseteq 0..MaxHeight
        /\ pc[Owner] = "join" => queue' = <<>> /\ processed' = {}
    BY Zenon DEF ThreadsInv, ThreadsTypeOK, OwnerInv
  <1> QED BY <1>1, <1>2, <1>3, <1>4, MainFrame, Zenon

\* The main loop wakes the workers.
LEMMA NotifyWorkersStep ==
    ASSUME ThreadsInv, NotifyWorkers
    PROVE  ThreadsInv'
  <1>1. Moves(Main, "test") /\ pc[Main] = "notify"
    BY GotoNotifyingMoves, ThreadsDiffer, Zenon DEF ThreadsInv, NotifyWorkers, Places
  <1>2. pc' \in [Threads -> Places] /\ \A t \in Threads : StaysOrWaits(t)
    BY <1>1, MovesStay, ThreadsDiffer, Zenon DEF Moves, StaysOrWaits, WaitPlaces
  <1> QED BY <1>2, WaitingStep, Zenon DEF NotifyWorkers

\* The items of a sequence are as many as it has elements.
LEMMA NumberedCardinality ==
    ASSUME NEW n \in Nat, NEW s
    PROVE  /\ IsFiniteSet({<<j, s[j]>> : j \in 1..n})
           /\ Cardinality({<<j, s[j]>> : j \in 1..n}) = n
  <1> DEFINE C == {<<j, s[j]>> : j \in 1..n}
             f == [j \in 1..n |-> <<j, s[j]>>]
  <1>1. f \in [1..n -> C]
    BY Zenon
  <1>2. f \in Injection(1..n, C)
    <2>1. \A i, j \in 1..n : f[i] = f[j] => i = j
      BY Zenon
    <2> QED BY <1>1, <2>1, Zenon DEF Injection, IsInjective
  <1>3. f \in Surjection(1..n, C)
    <2>1. \A t \in C : \E j \in 1..n : f[j] = t
      BY Zenon
    <2> QED BY <1>1, <2>1, Zenon DEF Surjection
  <1>4. ExistsBijection(1..n, C)
    BY <1>2, <1>3, Zenon DEF ExistsBijection, Bijection
  <1>5. IsFiniteSet(1..n) /\ Cardinality(1..n) = n
    BY FS_Interval
  <1> QED BY <1>4, <1>5, FS_Bijection, Zenon

\* As many processed blocks as the chunk has are the blocks of the chunk.
LEMMA AllProcessed ==
    ASSUME ThreadsTypeOK, IsChunk, Conserved, Cardinality(processed) = Len(chunk)
    PROVE  WorkersAreEmpty /\ IsFront(processed, stored)
  <1> DEFINE n == Len(chunk)
             C == {<<j, stored[j]>> : j \in 1..n}
  <1>1. /\ n \in Nat /\ n \in 0..Len(stored)
        /\ \A i \in 1..n : chunk[i] = <<i, stored[i]>>
    BY DEF ThreadsTypeOK, IsChunk
  <1>2. Range(chunk) = C
    <2>1. Range(chunk) = {chunk[i] : i \in 1..n}
      BY RangeOf, Zenon DEF ThreadsTypeOK
    <2> QED BY <2>1, <1>1, Zenon
  <1>3. IsFiniteSet(C) /\ Cardinality(C) = n
    BY <1>1, NumberedCardinality, Zenon
  <1> HIDE DEF C
  <1>4. processed \in SUBSET C
    BY <1>2, Zenon DEF Conserved
  <1>5. processed = C
    BY <1>3, <1>4, FS_Subset, Zenon
  <1>6. IsFront(processed, stored)
    <2>1. C = {<<0 + j, stored[j]>> : j \in 1..n}
      BY <1>1 DEF C
    <2> QED BY <1>1, <1>5, <2>1, Zenon DEF IsFront
  <1>7. \A w \in Workers : Held(w) = {}
    BY <1>2, <1>5 DEF Conserved
  <1>8. Range(queue) = {}
    BY <1>2, <1>5, Zenon DEF Conserved
  <1>9. queue = <<>>
    BY <1>8, RangeOf, Zenon DEF ThreadsTypeOK
  <1> QED BY <1>6, <1>7, <1>9, Zenon DEF WorkersAreEmpty

\* The main loop tests whether the chunk is processed.
LEMMA MainTestStep ==
    ASSUME ThreadsInv, MainTest
    PROVE  ThreadsInv'
  <1> DEFINE place == IF "sync" \in flags THEN "done"
                      ELSE IF Cardinality(processed) = Len(chunk) THEN "drain" ELSE "tested"
  <1>1. /\ pc[Main] = "test" /\ Goto(Main, place)
        /\ chunk' = IF pc'[Main] = "tested" THEN chunk ELSE <<>>
        /\ UNCHANGED <<flags, dataVars, current, known, job, done, stops>>
    BY Zenon DEF MainTest, TestPredicate
  <1>2. place \in {"done", "drain", "tested"}
    BY Zenon
  <1>3. place = "drain" => ~Stopping /\ Cardinality(processed) = Len(chunk)
    BY Zenon DEF Stopping
  <1> HIDE DEF place
  <1>4. Moves(Main, place)
    BY <1>1, <1>2, GotoMoves, ThreadsDiffer, Zenon DEF ThreadsInv, Places
  <1>5. IsChunk /\ (~Stopping => Distinct(queue) /\ Conserved)
    BY <1>1, Zenon DEF ThreadsInv, ChunkInv, MainWaits
  <1>6. ASSUME pc'[Main] = place, pc'[Owner] = pc[Owner],
               \A w \in Workers : /\ Taken(w)' = Taken(w)
                                  /\ Held(w)' = Held(w)
                                  /\ done'[w] = done[w]
        PROVE  ChunkInv'
    <2>1. CASE place = "done"
      BY <2>1, <1>6, Zenon DEF ChunkInv, MainWaits
    <2>2. CASE place = "drain"
      <3>1. WorkersAreEmpty /\ IsFront(processed, stored)
        BY <2>2, <1>3, <1>5, AllProcessed, Zenon DEF ThreadsInv
      <3>2. WorkersAreEmpty' /\ IsFront(processed', stored')
        BY <3>1, <1>1, <1>6, Zenon DEF WorkersAreEmpty, dataVars
      <3> QED BY <2>2, <3>2, <1>6, Zenon DEF ChunkInv, MainWaits
    <2>3. CASE place = "tested"
      <3>1. StaysOrWaits(Main) /\ UNCHANGED <<queue, processed, chunk, stored, flags>>
        BY <2>3, <1>1, <1>6, Zenon DEF StaysOrWaits, WaitPlaces, dataVars
      <3> QED BY <3>1, <1>6, ChunkFrame, Zenon DEF ThreadsInv
    <2> QED BY <2>1, <2>2, <2>3, <1>2, Zenon
  <1>7. chunk' \in Seq(Items) /\ consumed' \in BOOLEAN
    BY <1>1 DEF ThreadsInv, ThreadsTypeOK, dataVars
  <1>8. /\ place # "undefined" /\ {pc[Main], place} \cap {"drop", "hash"} = {}
        /\ UNCHANGED <<flags, stored, queue, processed, recent, wallet, current, known,
                       job, done, stops>>
    BY <1>1, <1>2, Zenon DEF dataVars
  <1> QED BY <1>4, <1>6, <1>7, <1>8, MainLooks, Zenon

\* The main loop takes a chunk from the store.
LEMMA FetchBlocksStep ==
    ASSUME ThreadsInv, FetchBlocks
    PROVE  ThreadsInv'
  <1>1. /\ pc[Main] = "loop"
        /\ UNCHANGED <<flags, stored, queue, processed, consumed, recent, wallet, current,
                       known, job, done, stops>>
    BY Zenon DEF FetchBlocks, dataVars
  <1>2. PICK place \in {"done", "starved", "push"} :
            /\ Goto(Main, place)
            /\ place # "push" => chunk' = chunk
            /\ place = "push" =>
                   /\ stored # <<>>
                   /\ chunk' = [i \in 1..Min({ChunkSize, Len(stored)}) |-> <<i, stored[i]>>]
    BY Zenon DEF FetchBlocks
  <1>3. Moves(Main, place)
    BY <1>2, GotoMoves, ThreadsDiffer, Zenon DEF ThreadsInv, Places
  <1>4. stored \in Seq(1..MaxHeight) /\ chunk \in Seq(Items) /\ consumed \in BOOLEAN
    BY Zenon DEF ThreadsInv, ThreadsTypeOK
  <1>5. ASSUME place = "push" PROVE chunk' \in Seq(Items) /\ IsChunk'
    <2> DEFINE n == Min({ChunkSize, Len(stored)})
    <2>1. n \in 1..Len(stored) /\ n \in 1..ChunkSize
      <3>1. Len(stored) \in Nat \ {0} /\ ChunkSize \in Nat \ {0}
        BY <1>2, <1>4, <1>5, TailOf, ThreadAssumption, Zenon
      <3> QED BY <3>1, MinOf
    <2> HIDE DEF n
    <2>2. chunk' = [i \in 1..n |-> <<i, stored[i]>>]
      BY <1>2, <1>5, Zenon DEF n
    <2>3. \A i \in 1..n : <<i, stored[i]>> \in Items
      <3>1. \A i \in 1..n : i \in 1..Len(stored) /\ i \in 1..ChunkSize
        BY <2>1, <1>4, ElementOf, ThreadAssumption
      <3> QED BY <3>1, <1>4, ElementOf, Zenon DEF Items
    <2>4. chunk' \in Seq(Items) /\ Len(chunk') = n /\ \A i \in 1..n : chunk'[i] = <<i, stored[i]>>
      BY <2>1, <2>2, <2>3
    <2> QED BY <2>1, <2>4, <1>1, Zenon DEF IsChunk
  <1>6. ~Stopping => WorkersAreEmpty /\ processed = {}
    BY <1>1, Zenon DEF ThreadsInv, ChunkInv
  <1>7. ASSUME pc'[Main] = place,
               \A w \in Workers : Held(w)' = Held(w)
        PROVE  ChunkInv'
    <2>1. ~Stopping' => WorkersAreEmpty' /\ processed' = {}
      BY <1>1, <1>6, <1>7, Zenon DEF WorkersAreEmpty, Stopping
    <2> QED BY <2>1, <1>2, <1>5, <1>7, Zenon DEF ChunkInv, MainWaits
  <1>8. chunk' \in Seq(Items) /\ consumed' \in BOOLEAN
    BY <1>1, <1>2, <1>4, <1>5, Zenon
  <1>9. place # "undefined" /\ {pc[Main], place} \cap {"drop", "hash"} = {}
    BY <1>1, Zenon
  <1> QED BY <1>1, <1>3, <1>7, <1>8, <1>9, MainLooks, Zenon

\* The main loop finds too little and asks for more.
LEMMA AskForBlocksStep ==
    ASSUME ThreadsInv, AskForBlocks
    PROVE  ThreadsInv'
  <1>1. /\ pc[Main] = "starved" /\ consumed' = TRUE
        /\ UNCHANGED <<flags, stored, queue, processed, recent, wallet, chunk, current,
                       known, job, done, stops>>
    BY Zenon DEF AskForBlocks, localVars
  <1>2. Moves(Main, "loop")
    BY GotoNotifyingMoves, ThreadsDiffer, Zenon DEF ThreadsInv, AskForBlocks, Places
  <1>3. ~Stopping => WorkersAreEmpty /\ processed = {}
    BY <1>1, Zenon DEF ThreadsInv, ChunkInv
  <1>4. ASSUME pc'[Main] = "loop", \A w \in Workers : Held(w)' = Held(w)
        PROVE  ChunkInv'
    <2>1. ~Stopping' => WorkersAreEmpty' /\ processed' = {}
      BY <1>1, <1>3, <1>4, Zenon DEF WorkersAreEmpty, Stopping
    <2> QED BY <2>1, <1>4, Zenon DEF ChunkInv, MainWaits
  <1>5. chunk' \in Seq(Items) /\ {pc[Main], "loop"} \cap {"drop", "hash"} = {}
    BY <1>1, Zenon DEF ThreadsInv, ThreadsTypeOK
  <1> QED BY <1>1, <1>2, <1>4, <1>5, MainLooks, Zenon

\* All of the chunk is in the queue, and nothing of it anywhere else.
LEMMA PushChunkStep ==
    ASSUME ThreadsInv, PushChunk
    PROVE  ThreadsInv'
  <1>1. /\ pc[Main] = "push"
        /\ queue' = IF "queue" \in flags THEN queue ELSE queue \o chunk
        /\ UNCHANGED <<flags, stored, processed, consumed, recent, wallet, chunk, current,
                       known, job, done, stops>>
    BY Zenon DEF PushChunk, localVars
  <1>2. Moves(Main, "notify")
    BY GotoMoves, ThreadsDiffer, Zenon DEF ThreadsInv, PushChunk, Places
  <1>3. /\ queue \in Seq(Items) /\ chunk \in Seq(Items) /\ processed \subseteq Items
        /\ consumed \in BOOLEAN /\ stored \in Seq(1..MaxHeight)
        /\ wallet \subseteq 1..MaxHeight /\ {recent, current} \subseteq 0..MaxHeight
    BY Zenon DEF ThreadsInv, ThreadsTypeOK
  <1>4. queue' \in Seq(Items)
    BY <1>1, <1>3, ConcatOf, Zenon
  <1>5. IsChunk /\ (~Stopping => WorkersAreEmpty /\ processed = {})
    BY <1>1, Zenon DEF ThreadsInv, ChunkInv
  <1>6. /\ "queue" \in flags => Stopping
        /\ pc[Owner] = "join" => queue' = <<>> /\ processed' = {}
    BY <1>1, Zenon DEF ThreadsInv, OwnerInv, Stopping, Flags
  <1>7. \A w \in Workers : /\ Taken(w)' = Taken(w)
                           /\ Held(w)' = Held(w)
                           /\ done'[w] = done[w]
    BY <1>1, <1>2, MainLeavesWorkers, Zenon
  <1>8. IsChunk'
    BY <1>1, <1>5, Zenon DEF IsChunk
  <1>9. ASSUME ~Stopping PROVE Distinct(queue') /\ Conserved'
    <2>1. queue = <<>> /\ processed = {} /\ \A w \in Workers : Held(w) = {}
      BY <1>5, <1>9, Zenon DEF WorkersAreEmpty
    <2>2. queue' = chunk
      BY <1>1, <1>3, <1>6, <1>9, <2>1
    <2>3. Distinct(queue')
      BY <2>2, <1>3, <1>5 DEF Distinct, IsChunk
    <2>4. \A w \in Workers : Held(w)' = {} /\ Taken(w)' = {} /\ done'[w] = {}
      BY <2>1, <1>7, Zenon DEF Held
    <2>5. Range(queue') = Range(chunk') /\ processed' = {}
      BY <2>1, <2>2, <1>1, Zenon
    <2> QED BY <2>3, <2>4, <2>5, Zenon DEF Conserved
  <1>10. ChunkInv'
    <2>1. pc'[Main] = "notify" /\ (Stopping' <=> Stopping)
      BY <1>1, <1>2, Zenon DEF Moves, Stopping
    <2> QED BY <2>1, <1>8, <1>9, Zenon DEF ChunkInv, MainWaits
  <1>11. FeedInv' /\ Applied' = Applied
    BY <1>1, <1>2, FeedFrame, Zenon DEF ThreadsInv, Moves
  <1>12. DownloaderInv'
    BY <1>1, <1>2, <1>11, MainLeavesDownloader, Zenon DEF ThreadsInv
  <1> QED BY <1>1, <1>2, <1>3, <1>4, <1>6, <1>10, <1>11, <1>12, MainFrame, Zenon

\* The main loop looks for the next processed block.
LEMMA TestProcessedStep ==
    ASSUME ThreadsInv, TestProcessed
    PROVE  ThreadsInv'
  <1>1. /\ pc[Main] \in {"drain", "completed"}
        /\ UNCHANGED <<flags, stored, queue, processed, consumed, recent, wallet, chunk,
                       current, known, job, done, stops>>
    BY Zenon DEF TestProcessed, dataVars, localVars
  <1>2. PICK place \in {"top", "pop", "loop", "drain"} :
            /\ Goto(Main, place)
            /\ place \in {"top", "pop"} => processed # {} /\ ~Stopping
            /\ place \in {"loop", "drain"} => processed = {} \/ Stopping
            /\ pc[Main] = "drain" <=> place \in {"top", "loop"}
    BY <1>1, Zenon DEF TestProcessed, Stopping
  <1>3. Moves(Main, place)
    BY <1>2, GotoMoves, ThreadsDiffer, Zenon DEF ThreadsInv, Places
  <1>4. stored \in Seq(1..MaxHeight) /\ chunk \in Seq(Items) /\ consumed \in BOOLEAN
    BY Zenon DEF ThreadsInv, ThreadsTypeOK
  <1>5. /\ WorkersAreEmpty
        /\ pc[Main] = "drain" /\ ~Stopping => IsFront(processed, stored)
        /\ pc[Main] = "completed" => \E h \in 1..MaxHeight : IsFront(processed, <<h>> \o stored)
    BY <1>1, Zenon DEF ThreadsInv, ChunkInv
  <1>6. ASSUME pc'[Main] = place, pc'[Owner] = pc[Owner],
               \A w \in Workers : Held(w)' = Held(w)
        PROVE  ChunkInv'
    <2>1. WorkersAreEmpty' /\ (Stopping' <=> Stopping) /\ UNCHANGED <<processed, stored>>
      BY <1>1, <1>5, <1>6, Zenon DEF WorkersAreEmpty, Stopping
    <2>2. CASE place = "top"
      BY <2>1, <2>2, <1>1, <1>2, <1>5, <1>6, Zenon DEF ChunkInv, MainWaits
    <2>3. CASE place = "loop"
      BY <2>1, <2>3, <1>2, <1>6, Zenon DEF ChunkInv, MainWaits
    <2>4. CASE place = "pop"
      BY <2>1, <2>4, <1>1, <1>2, <1>5, <1>6, Zenon DEF ChunkInv, MainWaits
    <2>5. CASE place = "drain"
      <3>1. ~Stopping => IsFront(processed', stored')
        BY <2>1, <2>5, <1>2, <1>4, EmptyFront, Zenon
      <3> QED BY <2>1, <2>5, <3>1, <1>6, Zenon DEF ChunkInv, MainWaits
    <2> QED BY <2>2, <2>3, <2>4, <2>5, Zenon
  <1>7. place # "undefined" /\ {pc[Main], place} \cap {"drop", "hash"} = {}
    BY <1>1, Zenon
  <1> QED BY <1>1, <1>3, <1>4, <1>6, <1>7, MainLooks, Zenon

\* dropBlock wakes the downloader.
LEMMA SignalConsumedStep ==
    ASSUME ThreadsInv, SignalConsumed
    PROVE  ThreadsInv'
  <1>1. /\ pc[Main] = "signal" /\ consumed' = TRUE
        /\ UNCHANGED <<flags, stored, queue, processed, recent, wallet, chunk, current,
                       known, job, done, stops>>
    BY Zenon DEF SignalConsumed, localVars
  <1>2. Moves(Main, "completed")
    BY GotoNotifyingMoves, ThreadsDiffer, Zenon DEF ThreadsInv, SignalConsumed, Places
  <1>3. WorkersAreEmpty /\ \E h \in 1..MaxHeight : IsFront(processed, <<h>> \o stored)
    BY <1>1, Zenon DEF ThreadsInv, ChunkInv
  <1>4. ASSUME pc'[Main] = "completed", \A w \in Workers : Held(w)' = Held(w)
        PROVE  ChunkInv'
    <2>1. WorkersAreEmpty' /\ \E h \in 1..MaxHeight : IsFront(processed', <<h>> \o stored')
      BY <1>1, <1>3, <1>4, Zenon DEF WorkersAreEmpty
    <2> QED BY <2>1, <1>4, Zenon DEF ChunkInv, MainWaits
  <1>5. chunk' \in Seq(Items) /\ {pc[Main], "completed"} \cap {"drop", "hash"} = {}
    BY <1>1, Zenon DEF ThreadsInv, ThreadsTypeOK
  <1> QED BY <1>1, <1>2, <1>4, <1>5, MainLooks, Zenon

\* The top of m_processedBlocks is the first block of what they were taken from.
LEMMA TopIsFirst ==
    ASSUME NEW S, NEW s \in Seq(S), IsFront(processed, s), processed # {}
    PROVE  /\ s # <<>> /\ Top \in processed /\ Top[2] = s[1]
           /\ IsFront(processed \ {Top}, Tail(s))
  <1>1. \E x \in processed : \A y \in processed : x[1] <= y[1]
    BY FrontHasTop, Zenon
  <1>2. Top \in processed /\ \A y \in processed : Top[1] <= y[1]
    BY <1>1, Zenon DEF Top
  <1> QED BY <1>2, TopOfFront

\* The wallet gets the block that follows the last one applied, or that one
\* again: completeBlockProcessing rewinds to below it first.
LEMMA CompleteBlockFeeds ==
    ASSUME ThreadsInv, CompleteBlock
    PROVE  /\ stored # <<>> /\ stored[1] \in 1..MaxHeight
           /\ current' = stored[1] /\ wallet' = 1..stored[1]
           /\ recent \in {stored[1] - 1, stored[1]}
  <1>1. pc[Main] = "top" /\ processed # {} /\ IsFront(processed, stored)
    BY Zenon DEF CompleteBlock, ThreadsInv, ChunkInv
  <1>2. stored \in Seq(1..MaxHeight) /\ recent \in 0..MaxHeight
    BY Zenon DEF ThreadsInv, ThreadsTypeOK
  <1>3. stored # <<>> /\ Top[2] = stored[1]
    BY <1>1, <1>2, TopIsFirst, Zenon
  <1> DEFINE h == stored[1]
  <1>4. h \in 1..MaxHeight
    <2>1. 1 \in 1..Len(stored)
      BY <1>2, <1>3, TailOf
    <2> QED BY <2>1, <1>2, ElementOf, Zenon
  <1>5. wallet = 1..recent /\ h \in {recent, recent + 1}
    BY <1>1, <1>3, Zenon DEF ThreadsInv, FeedInv, Applied
  <1>6. /\ current' = h
        /\ wallet' = {h} \cup (IF recent >= h THEN {x \in wallet : x < h} ELSE wallet)
    BY <1>3, Zenon DEF CompleteBlock
  <1> HIDE DEF h
  <1>7. wallet' = 1..h
    <2>1. CASE h = recent
      BY <2>1, <1>2, <1>4, <1>5, <1>6, ThreadAssumption
    <2>2. CASE h = recent + 1
      BY <2>2, <1>2, <1>4, <1>5, <1>6, ThreadAssumption
    <2> QED BY <2>1, <2>2, <1>5, Zenon
  <1>8. recent \in {h - 1, h}
    BY <1>2, <1>5, ThreadAssumption
  <1> QED BY <1>3, <1>4, <1>6, <1>7, <1>8, Zenon DEF h

\* completeBlockProcessing keeps the invariant.
LEMMA CompleteBlockStep ==
    ASSUME ThreadsInv, CompleteBlock
    PROVE  ThreadsInv'
  <1>1. /\ pc[Main] = "top"
        /\ UNCHANGED <<flags, stored, queue, processed, consumed, recent, chunk, known, job,
                       done, stops>>
    BY Zenon DEF CompleteBlock
  <1>2. Moves(Main, "drop")
    BY GotoMoves, ThreadsDiffer, Zenon DEF ThreadsInv, CompleteBlock, Places
  <1>3. /\ stored # <<>> /\ stored[1] \in 1..MaxHeight
        /\ current' = stored[1] /\ wallet' = 1..stored[1]
        /\ recent \in {stored[1] - 1, stored[1]}
    BY CompleteBlockFeeds, Zenon
  <1>4. /\ stored \in Seq(1..MaxHeight) /\ queue \in Seq(Items) /\ processed \subseteq Items
        /\ consumed \in BOOLEAN /\ chunk \in Seq(Items) /\ recent \in 0..MaxHeight
        /\ pc[Owner] = "join" => queue = <<>> /\ processed = {}
    BY Zenon DEF ThreadsInv, ThreadsTypeOK, OwnerInv
  <1>5. {recent', current'} \subseteq 0..MaxHeight /\ wallet' \subseteq 1..MaxHeight
    <2> DEFINE h == stored[1]
    <2>1. h \in 1..MaxHeight /\ current' = h /\ wallet' = 1..h /\ recent' = recent
      BY <1>1, <1>3, Zenon
    <2> HIDE DEF h
    <2>2. 1..h \subseteq 1..MaxHeight /\ h \in 0..MaxHeight
      BY ONLY <2>1, ThreadAssumption
    <2> QED BY <1>4, <2>1, <2>2
  <1>6. pc'[Main] = "drop"
    BY <1>2, Zenon DEF Moves
  <1>7. FeedInv'
    <2>1. Applied' = stored[1] /\ current' > 0
      BY <1>3, <1>6 DEF Applied
    <2>2. IsRun(stored')
      BY <1>1, Zenon DEF ThreadsInv, FeedInv
    <2> QED BY <2>1, <2>2, <1>1, <1>3, <1>6, Zenon DEF FeedInv
  <1>8. DownloaderInv'
    <2>1. StaysOrWaits(Downloader)
      BY <1>2, MovesStay, ThreadsDiffer, Zenon
    <2> QED BY <2>1, <1>1, <1>3, Zenon DEF ThreadsInv, DownloaderInv, StaysOrWaits, WaitPlaces
  <1>9. ChunkInv'
    <2>1. WorkersAreEmpty /\ IsFront(processed, stored)
      BY <1>1, Zenon DEF ThreadsInv, ChunkInv
    <2>2. WorkersAreEmpty' /\ IsFront(processed', stored')
      BY <2>1, <1>1, <1>2, MainLeavesWorkers, Zenon DEF WorkersAreEmpty
    <2> QED BY <2>2, <1>6, Zenon DEF ChunkInv, MainWaits
  <1> QED BY <1>1, <1>2, <1>4, <1>5, <1>7, <1>8, <1>9, MainFrame, Zenon

\* dropBlock drops the block that was applied.
LEMMA DropFrontStep ==
    ASSUME ThreadsInv, DropFront
    PROVE  ThreadsInv'
  <1>1. /\ pc[Main] = "drop" /\ stored' = Tail(stored)
        /\ UNCHANGED <<flags, queue, processed, consumed, recent, wallet, chunk, current,
                       known, job, done, stops>>
    BY Zenon DEF DropFront, localVars
  <1>2. Moves(Main, "hash")
    BY GotoMoves, ThreadsDiffer, Zenon DEF ThreadsInv, DropFront, Places
  <1>3. /\ stored \in Seq(1..MaxHeight) /\ queue' \in Seq(Items) /\ processed' \subseteq Items
        /\ consumed' \in BOOLEAN /\ chunk' \in Seq(Items) /\ wallet' \subseteq 1..MaxHeight
        /\ {recent', current'} \subseteq 0..MaxHeight
        /\ pc[Owner] = "join" => queue' = <<>> /\ processed' = {}
    BY <1>1, Zenon DEF ThreadsInv, ThreadsTypeOK, OwnerInv
  <1>4. stored # <<>> /\ stored[1] = current /\ IsRun(stored)
    BY <1>1, Zenon DEF ThreadsInv, FeedInv
  <1> DEFINE n == Len(stored)
  <1>5. /\ stored' \in Seq(1..MaxHeight) /\ n \in Nat \ {0} /\ Len(stored') = n - 1
        /\ \A i \in 1..(n - 1) : stored'[i] = stored[i + 1]
        /\ \A i \in 1..n : stored[i] \in 1..MaxHeight
    BY <1>1, <1>3, <1>4, TailOf, ElementOf, Zenon
  <1>6. pc'[Main] = "hash"
    BY <1>2, Zenon DEF Moves
  <1>7. Applied' = current /\ Applied = current
    BY <1>1, <1>6, Zenon DEF Applied
  <1>8. \A i, j \in 1..n : stored[j] - stored[i] = j - i
    BY <1>4, Zenon DEF IsRun
  <1> HIDE DEF n
  <1>9. IsRun(stored')
    <2>1. ASSUME NEW i \in 1..(n - 1), NEW j \in 1..(n - 1)
          PROVE  stored'[j] - stored'[i] = j - i
      <3>1. i + 1 \in 1..n /\ j + 1 \in 1..n /\ (j + 1) - (i + 1) = j - i
        BY <1>5
      <3>2. stored[j + 1] - stored[i + 1] = (j + 1) - (i + 1)
        BY <3>1, <1>8, Zenon
      <3> QED BY <3>1, <3>2, <1>5, Zenon
    <2> QED BY <2>1, <1>5, Zenon DEF IsRun
  <1>10. stored' # <<>> => stored'[1] = current + 1
    <2> HAVE stored' # <<>>
    <2>1. 1 \in 1..(n - 1) /\ 1 \in 1..n /\ 2 \in 1..n
      BY <1>5
    <2>2. stored[2] - stored[1] = 2 - 1 /\ stored'[1] = stored[1 + 1]
      BY <2>1, <1>5, <1>8, Zenon
    <2>3. stored[2] \in Int /\ stored[1] \in Int /\ stored'[1] = stored[2]
      BY <2>1, <2>2, <1>5
    <2>4. stored[2] = stored[1] + 1
      BY <2>2, <2>3
    <2> QED BY <2>3, <2>4, <1>4, Zenon
  <1>11. FeedInv'
    BY <1>1, <1>6, <1>7, <1>9, <1>10, Zenon DEF ThreadsInv, FeedInv
  <1>12. DownloaderInv'
    <2>1. StaysOrWaits(Downloader)
      BY <1>2, MovesStay, ThreadsDiffer, Zenon
    <2>2. ASSUME known = stored[n]
          PROVE  IF stored' = <<>> THEN known = current ELSE known = stored'[Len(stored')]
      <3>1. CASE n = 1
        BY <3>1, <2>2, <1>4, <1>5
      <3>2. CASE n > 1
        <4>1. n - 1 \in 1..(n - 1) /\ stored' # <<>>
          BY <3>2, <1>5
        <4>2. stored'[n - 1] = stored[(n - 1) + 1] /\ (n - 1) + 1 = n
          BY <4>1, <1>5
        <4> QED BY <4>1, <4>2, <2>2, <1>5, Zenon
      <3> QED BY <3>1, <3>2, <1>5
    <2>3. pc'[Downloader] = "answer" \/ (pc'[Downloader] = "recent" /\ known' # 0) =>
              IF stored' = <<>> THEN known' = current ELSE known' = stored'[Len(stored')]
      BY <2>1, <2>2, <1>1, <1>4, Zenon DEF ThreadsInv, DownloaderInv, StaysOrWaits,
         WaitPlaces, n
    <2>4. ~(pc'[Downloader] = "recent" /\ known' = 0)
      BY <2>1, <1>1, <1>4, Zenon DEF ThreadsInv, DownloaderInv, StaysOrWaits, WaitPlaces
    <2> QED BY <2>3, <2>4, <1>7, Zenon DEF DownloaderInv
  <1>13. ChunkInv'
    <2>1. WorkersAreEmpty /\ IsFront(processed, stored)
      BY <1>1, Zenon DEF ThreadsInv, ChunkInv
    <2>2. WorkersAreEmpty'
      BY <2>1, <1>1, <1>2, MainLeavesWorkers, Zenon DEF WorkersAreEmpty
    <2>3. current \in 1..MaxHeight /\ stored = <<current>> \o stored'
      <3>1. 1 \in 1..n
        BY <1>5
      <3>2. stored[1] \in 1..MaxHeight
        BY <3>1, <1>5, Zenon
      <3> QED BY <3>2, <1>1, <1>3, <1>4
    <2>4. \E h \in 1..MaxHeight : IsFront(processed', <<h>> \o stored')
      BY <2>1, <2>3, <1>1, Zenon
    <2> QED BY <2>2, <2>4, <1>6, Zenon DEF ChunkInv, MainWaits
  <1> QED BY <1>1, <1>2, <1>3, <1>5, <1>11, <1>12, <1>13, MainFrame, Zenon

\* dropBlock records the hash of the block.
LEMMA StoreBlockHashStep ==
    ASSUME ThreadsInv, StoreBlockHash
    PROVE  ThreadsInv'
  <1>1. /\ pc[Main] = "hash" /\ recent' = current /\ current' = 0
        /\ UNCHANGED <<flags, stored, queue, processed, consumed, wallet, chunk, known,
                       job, done, stops>>
    BY Zenon DEF StoreBlockHash
  <1>2. Moves(Main, "signal")
    BY GotoMoves, ThreadsDiffer, Zenon DEF ThreadsInv, StoreBlockHash, Places
  <1>3. /\ stored' \in Seq(1..MaxHeight) /\ queue' \in Seq(Items) /\ processed' \subseteq Items
        /\ consumed' \in BOOLEAN /\ chunk' \in Seq(Items) /\ wallet' \subseteq 1..MaxHeight
        /\ {recent', current'} \subseteq 0..MaxHeight
        /\ pc[Owner] = "join" => queue' = <<>> /\ processed' = {}
    BY <1>1, ThreadAssumption DEF ThreadsInv, ThreadsTypeOK, OwnerInv
  <1>4. pc'[Main] = "signal" /\ Applied' = Applied
    BY <1>1, <1>2, Zenon DEF Moves, Applied
  <1>5. FeedInv'
    BY <1>1, <1>4, Zenon DEF ThreadsInv, FeedInv
  <1>6. DownloaderInv'
    BY <1>1, <1>2, <1>4, MainLeavesDownloader, Zenon DEF ThreadsInv
  <1>7. ChunkInv'
    <2>1. WorkersAreEmpty /\ \E h \in 1..MaxHeight : IsFront(processed, <<h>> \o stored)
      BY <1>1, Zenon DEF ThreadsInv, ChunkInv
    <2>2. WorkersAreEmpty' /\ \E h \in 1..MaxHeight : IsFront(processed', <<h>> \o stored')
      BY <2>1, <1>1, <1>2, MainLeavesWorkers, Zenon DEF WorkersAreEmpty
    <2> QED BY <2>2, <1>4, Zenon DEF ChunkInv, MainWaits
  <1> QED BY <1>1, <1>2, <1>3, <1>5, <1>6, <1>7, MainFrame, Zenon

\* The main loop removes the block it has completed.
LEMMA PopProcessedStep ==
    ASSUME ThreadsInv, PopProcessed
    PROVE  ThreadsInv'
  <1>1. /\ pc[Main] = "pop" /\ processed # {} /\ processed' = processed \ {Top}
        /\ UNCHANGED <<flags, stored, queue, consumed, recent, wallet, chunk, current,
                       known, job, done, stops>>
    BY Zenon DEF PopProcessed, localVars
  <1>2. Moves(Main, "drain")
    BY GotoMoves, ThreadsDiffer, Zenon DEF ThreadsInv, PopProcessed, Places
  <1>3. /\ stored' \in Seq(1..MaxHeight) /\ queue' \in Seq(Items) /\ processed' \subseteq Items
        /\ consumed' \in BOOLEAN /\ chunk' \in Seq(Items) /\ wallet' \subseteq 1..MaxHeight
        /\ {recent', current'} \subseteq 0..MaxHeight
        /\ pc[Owner] # "join"
    BY <1>1, Zenon DEF ThreadsInv, ThreadsTypeOK, OwnerInv
  <1>4. pc'[Main] = "drain"
    BY <1>2, Zenon DEF Moves
  <1>5. FeedInv' /\ Applied' = Applied
    BY <1>1, <1>4, FeedFrame, Zenon DEF ThreadsInv
  <1>6. DownloaderInv'
    BY <1>1, <1>2, <1>5, MainLeavesDownloader, Zenon DEF ThreadsInv
  <1>7. ChunkInv'
    <2>1. PICK h \in 1..MaxHeight : IsFront(processed, <<h>> \o stored)
      BY <1>1, Zenon DEF ThreadsInv, ChunkInv
    <2>2. <<h>> \o stored \in Seq(1..MaxHeight) /\ Tail(<<h>> \o stored) = stored
      BY <1>1, <1>3
    <2>3. IsFront(processed \ {Top}, Tail(<<h>> \o stored))
      BY <2>1, <2>2, <1>1, TopIsFirst, Zenon
    <2>4. IsFront(processed', stored')
      BY <2>2, <2>3, <1>1, Zenon
    <2>5. WorkersAreEmpty
      BY <1>1, Zenon DEF ThreadsInv, ChunkInv
    <2>6. WorkersAreEmpty'
      BY <2>5, <1>1, <1>2, MainLeavesWorkers, Zenon DEF WorkersAreEmpty
    <2> QED BY <2>4, <2>6, <1>4, Zenon DEF ChunkInv, MainWaits
  <1> QED BY <1>1, <1>2, <1>3, <1>5, <1>6, <1>7, MainFrame, Zenon

\* Only clear() of stop() empties the queue between the test and the read.
LEMMA ReadNothingStep ==
    ASSUME ThreadsInv, ReadNothing
    PROVE  ThreadsInv'
  <1> USE ThreadsDiffer
  <1>1. /\ pc[Main] \in {"top", "pop"} /\ processed = {}
        /\ UNCHANGED <<flags, stored, queue, processed, consumed, recent, wallet, chunk,
                       current, known, job, done, stops>>
    BY Zenon DEF ReadNothing, dataVars, localVars
  <1>2. Moves(Main, "undefined")
    BY GotoMoves, Zenon DEF ThreadsInv, ReadNothing, Places
  <1>3. ThreadsTypeOK'
    BY <1>1, <1>2, Zenon DEF ThreadsInv, ThreadsTypeOK, Moves
  <1>4. StaysOrWaits(Owner)
    BY <1>2, MovesStay, Zenon
  <1>5. OwnerInv' /\ pc'[Owner] = pc[Owner]
    BY <1>1, <1>4, OwnerFrame, Zenon DEF ThreadsInv, OwnerInv
  <1>6. pc'[Main] = "undefined"
    BY <1>2, Zenon DEF Moves
  <1>7. FeedInv' /\ Applied' = Applied
    BY <1>1, <1>6, FeedFrame, Zenon DEF ThreadsInv
  <1>8. DownloaderInv'
    BY <1>1, <1>2, <1>7, MainLeavesDownloader, Zenon DEF ThreadsInv
  <1>9. ChunkInv'
    BY <1>6, Zenon DEF ChunkInv, MainWaits
  <1>10. pc[Owner] = "join"
    BY <1>1, Zenon DEF ThreadsInv, ChunkInv
  <1> QED BY <1>3, <1>5, <1>7, <1>8, <1>9, <1>10, Zenon DEF ThreadsInv

-----------------------------------------------------------------------------
(* Steps of the owner. *)

\* The owner raises flags, wakes threads and asks for blocks.
LEMMA OwnerStepFrame ==
    ASSUME ThreadsInv, NEW place, Moves(Owner, place), pc[Owner] # "join", place # "join",
           UNCHANGED <<stored, queue, processed, recent, wallet, localVars>>,
           consumed' \in BOOLEAN, stops' \in 0..MaxStops,
           flags \subseteq flags', flags' \subseteq Flags, OwnerInv'
    PROVE  ThreadsInv'
  <1> USE ThreadsDiffer
  <1>1. ThreadsTypeOK'
    BY Zenon DEF ThreadsInv, ThreadsTypeOK, Moves, localVars
  <1>2. \A t \in Threads \ {Owner} : StaysOrWaits(t)
    BY MovesStay, Zenon
  <1>3. FeedInv' /\ Applied' = Applied
    BY <1>2, FeedFrame, Zenon DEF ThreadsInv, StaysOrWaits, WaitPlaces, localVars
  <1>4. DownloaderInv'
    BY <1>2, <1>3, DownloaderFrame, Zenon DEF ThreadsInv, localVars
  <1>5. \A w \in Workers : /\ Taken(w)' = Taken(w)
                           /\ Held(w)' = Held(w)
                           /\ done'[w] = done[w]
    BY <1>2, HeldFrame, Zenon DEF localVars
  <1>6. ChunkInv'
    <2>1. (WorkersAreEmpty => WorkersAreEmpty') /\ (IsChunk => IsChunk')
      BY <1>5, Zenon DEF WorkersAreEmpty, IsChunk, localVars
    <2>2. (Conserved => Conserved') /\ (Distinct(queue) => Distinct(queue'))
      BY <1>5, ConservedFrame, Zenon DEF localVars
    <2>3. MainWaits' <=> MainWaits
      BY <1>2, Zenon DEF MainWaits, StaysOrWaits, WaitPlaces
    <2>4. Stopping => Stopping'
      BY Zenon DEF Stopping
    <2>5. \A x \in {"loop", "starved", "push", "drain", "top", "drop", "hash",
                    "signal", "completed", "pop"} : pc'[Main] = x <=> pc[Main] = x
      BY <1>2, Zenon DEF StaysOrWaits, WaitPlaces
    <2> QED BY <2>1, <2>2, <2>3, <2>4, <2>5, Zenon DEF ChunkInv, ThreadsInv
  <1>7. ~Undefined'
    BY <1>2, Zenon DEF ThreadsInv, Undefined, StaysOrWaits, WaitPlaces
  <1> QED BY <1>1, <1>3, <1>4, <1>6, <1>7, Zenon DEF ThreadsInv

\* The steps of stop() that do not touch a queue.
LEMMA StopSteps ==
    ASSUME ThreadsInv,
           RaiseStop \/ StopDownloader \/ NotifyDownloader \/ JoinDownloader \/ NotifyAll
    PROVE  ThreadsInv'
  <1> USE ThreadsDiffer
  <1>1. ThreadsTypeOK /\ OwnerInv /\ consumed \in BOOLEAN /\ stops \in 0..MaxStops
    BY Zenon DEF ThreadsInv, ThreadsTypeOK
  <1>2. CASE RaiseStop
    <2>1. Moves(Owner, "stopDownloader")
      BY <1>1, <1>2, GotoMoves, Zenon DEF RaiseStop, Places
    <2>2. pc[Owner] = "idle" /\ flags = {} /\ flags' = {"sync"}
      BY <1>1, <1>2, Zenon DEF RaiseStop, OwnerInv
    <2>3. OwnerInv'
      BY <2>1, <2>2, Zenon DEF OwnerInv, Moves
    <2>4. stops' \in 0..MaxStops
      <3>1. stops < MaxStops /\ stops' = stops + 1
        BY <1>2, Zenon DEF RaiseStop
      <3>2. MaxStops \in Nat
        BY ThreadAssumption, Zenon
      <3> QED BY <3>1, <3>2, <1>1
    <2> QED BY <1>1, <1>2, <2>1, <2>2, <2>3, <2>4, OwnerStepFrame, Zenon DEF RaiseStop,
               Flags, dataVars
  <1>3. CASE StopDownloader
    <2>1. Moves(Owner, "notifyDownloader")
      BY <1>1, <1>3, GotoMoves, Zenon DEF StopDownloader, Places
    <2>2. /\ pc[Owner] = "stopDownloader" /\ flags = {"sync"}
          /\ flags' = {"sync", "downloader"}
      BY <1>1, <1>3, Zenon DEF StopDownloader, OwnerInv
    <2>3. OwnerInv'
      BY <2>1, <2>2, Zenon DEF OwnerInv, Moves
    <2> QED BY <1>1, <1>3, <2>1, <2>2, <2>3, OwnerStepFrame, Zenon DEF StopDownloader,
               Flags, dataVars
  <1>4. CASE NotifyDownloader
    <2>1. Moves(Owner, "joinDownloader")
      BY <1>1, <1>4, GotoNotifyingMoves, Zenon DEF NotifyDownloader, Places
    <2>2. /\ pc[Owner] = "notifyDownloader" /\ flags = {"sync", "downloader"}
          /\ flags' = {"sync", "downloader", "stored"} /\ consumed' = TRUE
      BY <1>1, <1>4, Zenon DEF NotifyDownloader, OwnerInv
    <2>3. OwnerInv'
      BY <2>1, <2>2, Zenon DEF OwnerInv, Moves
    <2> QED BY <1>1, <1>4, <2>1, <2>2, <2>3, OwnerStepFrame, Zenon DEF NotifyDownloader, Flags
  <1>5. CASE JoinDownloader
    <2>1. Moves(Owner, "notifyAll")
      BY <1>1, <1>5, GotoMoves, Zenon DEF JoinDownloader, Places
    <2>2. /\ pc[Owner] = "joinDownloader" /\ flags = {"sync", "downloader", "stored"}
          /\ flags' = Flags
      BY <1>1, <1>5, Zenon DEF JoinDownloader, OwnerInv, Flags
    <2>3. OwnerInv'
      BY <2>1, <2>2, Zenon DEF OwnerInv, Moves
    <2> QED BY <1>1, <1>5, <2>1, <2>2, <2>3, OwnerStepFrame, Zenon DEF JoinDownloader,
               Flags, dataVars
  <1>6. CASE NotifyAll
    <2>1. Moves(Owner, "clear")
      BY <1>1, <1>6, GotoNotifyingMoves, Zenon DEF NotifyAll, Places
    <2>2. pc[Owner] = "notifyAll" /\ flags = Flags /\ flags' = Flags
      BY <1>1, <1>6, Zenon DEF NotifyAll, OwnerInv
    <2>3. OwnerInv'
      BY <2>1, <2>2, Zenon DEF OwnerInv, Moves
    <2> QED BY <1>1, <1>6, <2>1, <2>2, <2>3, OwnerStepFrame, Zenon DEF NotifyAll, dataVars
  <1> QED BY <1>2, <1>3, <1>4, <1>5, <1>6, Zenon

\* clear() takes from the main loop what it was about to read.
LEMMA ClearQueuesStep ==
    ASSUME ThreadsInv, ClearQueues
    PROVE  ThreadsInv'
  <1> USE ThreadsDiffer
  <1>1. /\ pc[Owner] = "clear" /\ queue' = <<>> /\ processed' = {}
        /\ UNCHANGED <<flags, stored, consumed, recent, wallet, localVars, stops>>
    BY Zenon DEF ClearQueues
  <1>2. Moves(Owner, "join")
    BY GotoMoves, Zenon DEF ThreadsInv, ClearQueues, Places
  <1>3. ThreadsTypeOK'
    BY <1>1, <1>2 DEF ThreadsInv, ThreadsTypeOK, Moves, localVars
  <1>4. flags = Flags /\ Stopping'
    BY <1>1, Zenon DEF ThreadsInv, OwnerInv, Stopping, Flags
  <1>5. OwnerInv' /\ pc'[Owner] = "join"
    BY <1>1, <1>2, <1>4, Zenon DEF OwnerInv, Moves
  <1>6. \A t \in Threads \ {Owner} : StaysOrWaits(t)
    BY <1>2, MovesStay, Zenon
  <1>7. FeedInv' /\ Applied' = Applied
    BY <1>1, <1>6, FeedFrame, Zenon DEF ThreadsInv, StaysOrWaits, WaitPlaces, localVars
  <1>8. DownloaderInv'
    BY <1>1, <1>6, <1>7, DownloaderFrame, Zenon DEF ThreadsInv, localVars
  <1>9. \A w \in Workers : Held(w)' = Held(w)
    BY <1>1, <1>6, HeldFrame, Zenon DEF localVars
  <1>10. ChunkInv'
    <2>1. (WorkersAreEmpty => WorkersAreEmpty') /\ (IsChunk => IsChunk')
      BY <1>1, <1>9, Zenon DEF WorkersAreEmpty, IsChunk, localVars
    <2>2. MainWaits' <=> MainWaits
      BY <1>6, Zenon DEF MainWaits, StaysOrWaits, WaitPlaces
    <2>3. \A x \in {"loop", "starved", "push", "drain", "top", "drop", "hash",
                    "signal", "completed", "pop"} : pc'[Main] = x <=> pc[Main] = x
      BY <1>6, Zenon DEF StaysOrWaits, WaitPlaces
    <2>4. stored' \in Seq(1..MaxHeight)
      BY <1>3, Zenon DEF ThreadsTypeOK
    <2>5. IsFront(processed', stored')
      BY <2>4, <1>1, EmptyFront, Zenon
    <2>6. \A h \in 1..MaxHeight : IsFront(processed', <<h>> \o stored')
      <3> TAKE h \in 1..MaxHeight
      <3>1. <<h>> \o stored' \in Seq(1..MaxHeight)
        BY <2>4
      <3> QED BY <3>1, <1>1, EmptyFront, Zenon
    <2> QED BY <2>1, <2>2, <2>3, <2>5, <2>6, <1>4, <1>5, Zenon DEF ChunkInv, ThreadsInv
  <1> QED BY <1>3, <1>5, <1>7, <1>8, <1>10, Zenon DEF ThreadsInv

\* The owner starts the threads again.
LEMMA RestartStep ==
    ASSUME ThreadsInv, Restart
    PROVE  ThreadsInv'
  <1> USE ThreadsDiffer
  <1>1. /\ pc[Owner] = "join" /\ pc[Main] = "done" /\ flags' = {} /\ chunk' = <<>>
        /\ current' = 0 /\ known' = 0 /\ job' = [w \in Workers |-> <<>>]
        /\ done' = [w \in Workers |-> {}]
        /\ UNCHANGED <<stored, queue, processed, consumed, recent, wallet, stops>>
    BY Zenon DEF Restart, dataVars
  <1>2. /\ pc'[Main] = "loop" /\ pc'[Owner] = "idle" /\ pc'[Downloader] = "test"
        /\ \A w \in Workers : pc'[w] = "test"
        /\ pc' \in [Threads -> Places]
    BY Zenon DEF Restart, Places
  <1>3. ThreadsTypeOK'
    <2>1. 0 \in 0..MaxHeight
      BY ThreadAssumption
    <2>2. flags' \subseteq Flags /\ chunk' \in Seq(Items)
      BY <1>1
    <2>3. job' \in [Workers -> Seq(Items)] /\ done' \in [Workers -> SUBSET Items]
      BY <1>1
    <2>4. {recent', current', known'} \subseteq 0..MaxHeight
      BY <1>1, <2>1, Zenon DEF ThreadsInv, ThreadsTypeOK
    <2> QED BY <1>1, <1>2, <2>2, <2>3, <2>4, Zenon DEF ThreadsInv, ThreadsTypeOK
  <1>4. OwnerInv' /\ queue = <<>> /\ processed = {}
    BY <1>1, <1>2, Zenon DEF ThreadsInv, OwnerInv
  <1>5. FeedInv'
    BY <1>1, <1>2, Zenon DEF ThreadsInv, FeedInv, Applied
  <1>6. DownloaderInv'
    BY <1>2, Zenon DEF DownloaderInv
  <1>7. ChunkInv'
    <2>1. WorkersAreEmpty' /\ processed' = {}
      BY <1>1, <1>2, <1>4, Zenon DEF WorkersAreEmpty, Held, Taken
    <2> QED BY <2>1, <1>2, Zenon DEF ChunkInv, MainWaits
  <1>8. ~Undefined'
    BY <1>2, Zenon DEF Undefined
  <1> QED BY <1>3, <1>4, <1>5, <1>6, <1>7, <1>8, Zenon DEF ThreadsInv

-----------------------------------------------------------------------------
(* The invariant holds. *)

\* The invariant holds when the threads start.
LEMMA InitEstablishesInv ==
    ASSUME Init
    PROVE  ThreadsInv
  <1> USE ThreadsDiffer
  <1>1. /\ pc[Main] = "loop" /\ pc[Owner] = "idle" /\ pc[Downloader] = "test"
        /\ \A w \in Workers : pc[w] = "test"
        /\ pc \in [Threads -> Places]
    BY Zenon DEF Init, Places
  <1>2. ThreadsTypeOK
    BY <1>1, ThreadAssumption DEF Init, ThreadsTypeOK
  <1>3. OwnerInv /\ DownloaderInv /\ ~Undefined
    BY <1>1, Zenon DEF Init, OwnerInv, DownloaderInv, Undefined
  <1>4. FeedInv
    BY <1>1 DEF Init, FeedInv, Applied, IsRun
  <1>5. ChunkInv
    <2>1. WorkersAreEmpty /\ processed = {}
      BY <1>1, Zenon DEF Init, WorkersAreEmpty, Held, Taken
    <2> QED BY <2>1, <1>1, Zenon DEF ChunkInv, MainWaits
  <1> QED BY <1>2, <1>3, <1>4, <1>5, Zenon DEF ThreadsInv

\* Falling asleep and spurious wake-ups keep the invariant.
LEMMA SleepSteps ==
    ASSUME ThreadsInv, NEW t \in Threads, FallAsleep(t) \/ WakeSpuriously(t)
    PROVE  ThreadsInv'
  <1>1. UNCHANGED <<flags, dataVars, localVars, stops>>
    BY Zenon DEF FallAsleep, WakeSpuriously
  <1>2. pc' \in [Threads -> Places] /\ \A u \in Threads : StaysOrWaits(u)
    BY Zenon DEF ThreadsInv, ThreadsTypeOK, FallAsleep, WakeSpuriously, Goto, StaysOrWaits,
           WaitPlaces, Places
  <1> QED BY <1>1, <1>2, WaitingStep, Zenon

\* Every step keeps the invariant.
LEMMA NextKeepsInv ==
    ASSUME ThreadsInv, [Next]_vars
    PROVE  ThreadsInv'
  <1> USE ThreadsDiffer
  <1>1. CASE MainStep
    BY <1>1, MainTestStep, FetchBlocksStep, AskForBlocksStep, PushChunkStep,
       NotifyWorkersStep, TestProcessedStep, CompleteBlockStep, DropFrontStep,
       StoreBlockHashStep, SignalConsumedStep, PopProcessedStep, ReadNothingStep,
       SleepSteps, Zenon DEF MainStep
  <1>2. ASSUME NEW w \in Workers, WorkerStep(w) PROVE ThreadsInv'
    BY <1>2, WorkerTestStep, TakeJobStep, ProcessJobStep, GiveUpJobStep, PushProcessedStep,
       NotifyMainStep, SleepSteps, Zenon DEF WorkerStep
  <1>3. CASE DownloaderStep
    BY <1>3, DownloaderTestStep, ReadStoredStep, ReadRecentStep, StoreBlocksStep,
       StoreTopBlockStep, ForgetConsumedStep, SleepSteps, Zenon DEF DownloaderStep
  <1>4. CASE OwnerStep
    BY <1>4, StopSteps, ClearQueuesStep, RestartStep, Zenon DEF OwnerStep
  <1>5. ASSUME NEW t \in {Main, Downloader} \cup Workers, WakeSpuriously(t)
        PROVE  ThreadsInv'
    BY <1>5, SleepSteps, Zenon
  <1>6. CASE UNCHANGED vars
    <2>1. /\ UNCHANGED <<flags, dataVars, localVars, stops>>
          /\ pc' \in [Threads -> Places] /\ \A t \in Threads : StaysOrWaits(t)
      BY <1>6, Zenon DEF vars, dataVars, localVars, ThreadsInv, ThreadsTypeOK, StaysOrWaits
    <2> QED BY <2>1, WaitingStep, Zenon
  <1> QED BY <1>1, <1>2, <1>3, <1>4, <1>5, <1>6, Zenon DEF Next, Stay

\* Every step of the four threads keeps the inductive invariant: the queue is a
\* run of blocks from where the wallet is, and the chunk in flight is conserved.
THEOREM ThreadsInvariance == Spec => []ThreadsInv
  <1>1. Init => ThreadsInv
    BY InitEstablishesInv, Zenon
  <1>2. ThreadsInv /\ [Next]_vars => ThreadsInv'
    BY NextKeepsInv, Zenon
  <1> QED BY <1>1, <1>2, PTL DEF Spec

\* The queues, the store and the local variables of every thread have their
\* types (WalletSynchronizer, BlockDownloader).
THEOREM ThreadsTypeCorrect == Spec => []ThreadsTypeOK
  <1>1. ThreadsInv => ThreadsTypeOK
    BY Zenon DEF ThreadsInv
  <1> QED BY <1>1, ThreadsInvariance, PTL

\* However many workers scan the chunk, each of its blocks is in exactly one
\* place until the main loop has all of them (blockProcessingThread, mainLoop).
THEOREM ChunkIsAlwaysConserved == Spec => []ChunkIsConserved
  <1>1. ThreadsInv => ChunkIsConserved
    <2> SUFFICES ASSUME ThreadsInv, MainWaits, ~Stopping PROVE ChunkIsConserved
      BY Zenon DEF ChunkIsConserved
    <2>1. Conserved
      BY Zenon DEF ThreadsInv, ChunkInv
    <2>2. \A w \in Workers : Held(w) = (IF pc[w] = "process" THEN Range(job[w]) ELSE {}) \cup done[w]
      BY Zenon DEF Held, Taken
    <2> QED BY <2>1, <2>2, Zenon DEF ChunkIsConserved, Conserved, Held, Taken
  <1> QED BY <1>1, ThreadsInvariance, PTL

\* The main loop's reads outside the mutex find a block, unless stop() has
\* cleared m_processedBlocks under it (top_unsafe, pop_unsafe).
THEOREM UndefinedOnlyAfterClear == Spec => []UndefinedOnlyWhileStopping
  <1>1. ThreadsInv => UndefinedOnlyWhileStopping
    BY Zenon DEF ThreadsInv, OwnerInv, UndefinedOnlyWhileStopping, Stopping, Flags
  <1> QED BY <1>1, ThreadsInvariance, PTL

-----------------------------------------------------------------------------
(* WalletThreads implements BlockFeed. *)

\* A step that leaves wallet and store alone is a stutter of BlockFeed.
LEMMA FeedStutters ==
    ASSUME UNCHANGED <<stored, wallet>>, pc'[Main] = "drop" <=> pc[Main] = "drop"
    PROVE  UNCHANGED Feed!feedVars
  BY Zenon DEF Feed!feedVars

\* Another thread than the main loop moves, and leaves store and wallet alone.
LEMMA OtherThreadStutters ==
    ASSUME ThreadsTypeOK, NEW t \in Threads \ {Main}, NEW place, NEW T,
           Goto(t, place) \/ GotoNotifying(t, place, T),
           UNCHANGED <<stored, wallet>>
    PROVE  UNCHANGED Feed!feedVars
  <1>1. pc'[Main] = "drop" <=> pc[Main] = "drop"
    BY ThreadsDiffer, Zenon DEF ThreadsTypeOK, Goto, GotoNotifying
  <1> QED BY <1>1, FeedStutters, Zenon

\* The steps of a worker are stutters.
LEMMA WorkerStutters ==
    ASSUME ThreadsInv, NEW w \in Workers, WorkerStep(w) \/ WakeSpuriously(w)
    PROVE  UNCHANGED Feed!feedVars
  <1>1. w \in Threads \ {Main} /\ ThreadsTypeOK
    BY ThreadsDiffer, Zenon DEF ThreadsInv
  <1>2. UNCHANGED <<stored, wallet>>
    BY Zenon DEF WorkerStep, WorkerTest, TestPredicate, TakeJob, ProcessJob, GiveUpJob,
           PushProcessed, NotifyMain, FallAsleep, WakeSpuriously, dataVars
  <1>3. (\E place : Goto(w, place)) \/ (\E place, T : GotoNotifying(w, place, T))
    BY Zenon DEF WorkerStep, WorkerTest, TestPredicate, TakeJob, ProcessJob, GiveUpJob,
           PushProcessed, NotifyMain, FallAsleep, WakeSpuriously
  <1> QED BY <1>1, <1>2, <1>3, OtherThreadStutters, Zenon

\* The steps of the owner are stutters.
LEMMA OwnerStutters ==
    ASSUME ThreadsInv, OwnerStep
    PROVE  UNCHANGED Feed!feedVars
  <1>1. Owner \in Threads \ {Main} /\ ThreadsTypeOK
    BY ThreadsDiffer, Zenon DEF ThreadsInv
  <1>2. UNCHANGED <<stored, wallet>>
    BY Zenon DEF OwnerStep, RaiseStop, StopDownloader, NotifyDownloader, JoinDownloader,
       NotifyAll, ClearQueues, Restart, dataVars
  <1>3. CASE Restart
    <2>1. pc[Main] = "done" /\ pc'[Main] = "loop"
      BY <1>3, ThreadsDiffer, Zenon DEF Restart
    <2> QED BY <2>1, <1>2, FeedStutters, Zenon
  <1>4. CASE ~Restart
    <2>1. (\E place : Goto(Owner, place)) \/ (\E place, T : GotoNotifying(Owner, place, T))
      BY <1>4, Zenon DEF OwnerStep, RaiseStop, StopDownloader, NotifyDownloader,
         JoinDownloader, NotifyAll, ClearQueues
    <2> QED BY <2>1, <1>1, <1>2, OtherThreadStutters, Zenon
  <1> QED BY <1>3, <1>4, Zenon

\* The blocks of an answer join those waiting, and continue them.
LEMMA StoreBlocksDownloads ==
    ASSUME ThreadsInv, StoreBlocks
    PROVE  Feed!Next \/ UNCHANGED Feed!feedVars
  <1>1. /\ pc[Downloader] = "answer" /\ wallet' = wallet
        /\ Downloader \in Threads \ {Main} /\ ThreadsTypeOK
        /\ Goto(Downloader, "ask")
    BY ThreadsDiffer, Zenon DEF StoreBlocks, ThreadsInv
  <1>2. CASE "stored" \in flags
    <2>1. stored' = stored
      BY <1>2, Zenon DEF StoreBlocks
    <2> QED BY <2>1, <1>1, OtherThreadStutters, Zenon
  <1>3. CASE "stored" \notin flags
    <2>1. PICK n \in 1..BatchSize : /\ known + n <= MaxHeight
                                    /\ stored' = stored \o [i \in 1..n |-> known + i]
      BY <1>3, Zenon DEF StoreBlocks
    <2> DEFINE t == [i \in 1..n |-> known + i]
               waiting == IF pc[Main] = "drop" THEN Tail(stored) ELSE stored
               first == known + 1
               last == known + n
    <2>2. /\ n \in Nat \ {0} /\ known \in 0..MaxHeight /\ MaxHeight \in Nat
          /\ stored \in Seq(1..MaxHeight) /\ recent \in 0..MaxHeight
          /\ current \in 0..MaxHeight
      BY ThreadAssumption DEF ThreadsInv, ThreadsTypeOK
    <2>3. t \in Seq(1..MaxHeight)
      BY <2>1, <2>2
    <2>4. pc'[Main] = pc[Main]
      BY <1>1 DEF Goto, ThreadsTypeOK
    <2>5. pc[Main] = "drop" => stored # <<>> /\ stored[1] = current
      BY Zenon DEF ThreadsInv, FeedInv
    <2>6. (IF pc'[Main] = "drop" THEN Tail(stored') ELSE stored') = waiting \o t
      <3>1. CASE pc[Main] = "drop"
        BY <3>1, <2>1, <2>2, <2>3, <2>4, <2>5, TailOfConcat, Zenon
      <3>2. CASE pc[Main] # "drop"
        BY <3>2, <2>1, <2>4, Zenon
      <3> QED BY <3>1, <3>2, Zenon
    <2>7. t = [i \in 1..(last - first + 1) |-> first + i - 1]
      <3>1. last - first + 1 = n
        BY <2>2
      <3>2. \A i \in 1..n : first + i - 1 = known + i
        BY <2>2
      <3> QED BY <3>1, <3>2, Zenon
    <2>8. last \in 1..MaxHeight /\ first \in 1..last
      BY <2>1, <2>2
    <2>9. wallet = 1..Applied /\ Applied \in 0..MaxHeight
      BY <2>2, Zenon DEF ThreadsInv, FeedInv, Applied
    <2>10. IF stored = <<>> THEN known \in {Applied - 1, Applied}
                            ELSE known = stored[Len(stored)]
      BY <1>1, Zenon DEF ThreadsInv, DownloaderInv
    <2>11. waiting # <<>> => first = waiting[Len(waiting)] + 1
      <3> HAVE waiting # <<>>
      <3>1. CASE pc[Main] = "drop"
        <4>1. waiting = Tail(stored)
          BY <3>1, Zenon
        <4>2. waiting[Len(waiting)] = stored[Len(stored)]
          BY <4>1, <2>2, <2>5, <3>1, EndOfTail, Zenon
        <4> QED BY <4>2, <2>5, <2>10, <3>1, Zenon
      <3>2. CASE pc[Main] # "drop"
        BY <3>2, <2>10, Zenon
      <3> QED BY <3>1, <3>2, Zenon
    <2>12. waiting = <<>> => known \in {Applied - 1, Applied}
      <3> HAVE waiting = <<>>
      <3>1. CASE pc[Main] = "drop"
        <4>1. Len(stored) = 1
          <5>1. Tail(stored) = <<>>
            BY <3>1, Zenon
          <5> QED BY <5>1, <3>1, <2>2, <2>5, EndOfTail, Zenon
        <4> QED BY <4>1, <3>1, <2>2, <2>5, <2>10, Zenon DEF Applied
      <3>2. CASE pc[Main] # "drop"
        BY <3>2, <2>10, Zenon
      <3> QED BY <3>1, <3>2, Zenon
    <2>13. waiting = <<>> => /\ first \in wallet \/ first - 1 \in wallet \cup {0}
                             /\ first + 1 \notin wallet
      <3> HIDE DEF waiting
      <3> HAVE waiting = <<>>
      <3>1. known \in {Applied - 1, Applied}
        BY <2>12, Zenon
      <3> QED BY <3>1, <2>2, <2>9
    <2>14. Feed!Download
      <3> HIDE DEF t, first, last
      <3> QED BY <2>6, <2>7, <2>8, <2>11, <2>13, <1>1, Zenon DEF Feed!Download
    <2> QED BY <2>14, Zenon DEF Feed!Next
  <1> QED BY <1>2, <1>3, Zenon

\* The steps of the downloader download blocks or stutter.
LEMMA DownloaderRefines ==
    ASSUME ThreadsInv, DownloaderStep \/ WakeSpuriously(Downloader)
    PROVE  Feed!Next \/ UNCHANGED Feed!feedVars
  <1>1. Downloader \in Threads \ {Main} /\ ThreadsTypeOK
    BY ThreadsDiffer, Zenon DEF ThreadsInv
  <1>2. CASE ~StoreBlocks
    <2>1. UNCHANGED <<stored, wallet>>
      BY <1>2, Zenon DEF DownloaderStep, DownloaderTest, TestPredicate, ReadStored,
         ReadRecent, StoreTopBlock, ForgetConsumed, FallAsleep, WakeSpuriously, dataVars
    <2>2. \E place : Goto(Downloader, place)
      BY <1>2, Zenon DEF DownloaderStep, DownloaderTest, TestPredicate, ReadStored,
         ReadRecent, StoreTopBlock, ForgetConsumed, FallAsleep, WakeSpuriously
    <2> QED BY <2>1, <2>2, <1>1, OtherThreadStutters, Zenon
  <1>3. CASE StoreBlocks
    BY <1>3, StoreBlocksDownloads, Zenon
  <1> QED BY <1>2, <1>3, Zenon

\* The steps of the main loop apply a block or stutter.
LEMMA MainRefines ==
    ASSUME ThreadsInv, MainStep \/ WakeSpuriously(Main)
    PROVE  Feed!Next \/ UNCHANGED Feed!feedVars
  <1> USE ThreadsDiffer
  <1>1. pc \in [Threads -> Places]
    BY Zenon DEF ThreadsInv, ThreadsTypeOK
  <1>2. CASE CompleteBlock
    <2>1. stored # <<>> /\ wallet' = 1..stored[1]
      BY <1>2, CompleteBlockFeeds, Zenon
    <2>2. pc[Main] = "top" /\ pc'[Main] = "drop" /\ stored' = stored
      BY <1>1, <1>2, Zenon DEF CompleteBlock, Goto
    <2>3. Head(stored) = stored[1]
      BY <2>1 DEF ThreadsInv, ThreadsTypeOK
    <2> QED BY <2>1, <2>2, <2>3, Zenon DEF Feed!Next, Feed!Apply
  <1>3. CASE DropFront
    <2>1. /\ pc[Main] = "drop" /\ pc'[Main] = "hash"
          /\ stored' = Tail(stored) /\ wallet' = wallet
      BY <1>1, <1>3, Zenon DEF DropFront, Goto
    <2> QED BY <2>1, Zenon DEF Feed!feedVars
  <1>4. CASE ~CompleteBlock /\ ~DropFront
    <2>1. UNCHANGED <<stored, wallet>>
      BY <1>4, Zenon DEF MainStep, MainTest, TestPredicate, FetchBlocks, AskForBlocks, PushChunk,
                  NotifyWorkers, TestProcessed, StoreBlockHash, SignalConsumed,
                  PopProcessed, ReadNothing, FallAsleep, WakeSpuriously, dataVars
    <2>2. /\ pc[Main] # "drop"
          /\ \E place \in Places \ {"drop"} :
                 Goto(Main, place) \/ \E T : GotoNotifying(Main, place, T)
      BY <1>4, Zenon DEF MainStep, MainTest, TestPredicate, FetchBlocks, AskForBlocks, PushChunk,
                  NotifyWorkers, TestProcessed, StoreBlockHash, SignalConsumed,
                  PopProcessed, ReadNothing, FallAsleep, WakeSpuriously, Places
    <2>3. pc'[Main] # "drop"
      BY <1>1, <2>2, Zenon DEF Goto, GotoNotifying
    <2> QED BY <2>1, <2>2, <2>3, FeedStutters, Zenon
  <1> QED BY <1>2, <1>3, <1>4, Zenon

\* Every step is a step of BlockFeed or a stutter.
LEMMA NextRefines ==
    ASSUME ThreadsInv, [Next]_vars
    PROVE  [Feed!Next]_(Feed!feedVars)
  <1>1. CASE UNCHANGED vars
    <2>1. UNCHANGED <<stored, wallet, pc>>
      BY <1>1, Zenon DEF vars, dataVars
    <2> QED BY <2>1, FeedStutters, Zenon
  <1>2. CASE ~Undefined /\ Next
    BY <1>2, MainRefines, WorkerStutters, DownloaderRefines, OwnerStutters, Zenon DEF Next,
       Stay
  <1> QED BY <1>1, <1>2, Zenon DEF Next, Stay

\* Whatever the threads do and whenever they are stopped, every block is
\* applied, in the order of the chain, before it leaves the store
\* (completeBlockProcessing, dropBlock, downloadBlocks).
THEOREM ThreadsImplementFeed == Spec => ImplementsFeed
  <1>1. Init => Feed!Init
    BY ThreadsDiffer, Zenon DEF Init, Feed!Init
  <1>2. ThreadsInv /\ [Next]_vars => [Feed!Next]_(Feed!feedVars)
    BY NextRefines, Zenon
  <1> QED BY <1>1, <1>2, ThreadsInvariance, PTL DEF Spec, ImplementsFeed, Feed!Spec

=============================================================================
