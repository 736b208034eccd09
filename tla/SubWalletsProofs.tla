-------------------------- MODULE SubWalletsProofs --------------------------
(***************************************************************************)
(* Theorems about SubWallets, for every set of subwallets, outputs and     *)
(* transactions and every bound.                                           *)
(*                                                                         *)
(* The lists of the container are compared with the blocks the wallet      *)
(* stands for.  While a block is applied these are the blocks below it     *)
(* and the block itself, of which some spends are still to be marked       *)
(* (View, Pending).  The invariant SubInv says that these blocks form a    *)
(* chain on which an output is created once, spent at most once and only   *)
(* above its creation; that every record of the container names the block  *)
(* that created and the block that spent its output; and that a fork, a    *)
(* reload or a transfer between two calls of a block keeps it so.          *)
(***************************************************************************)
EXTENDS SubWallets, WellFoundedInduction, TLAPS

-----------------------------------------------------------------------------
(* The invariant. *)

Block == [branch : Nat, txs : SUBSET Txs]

\* Height h of the blocks b creates, or spends, the output k.
Created(b, k, h) == h \in DOMAIN b /\ \E t \in b[h].txs : k \in Out[t]
SpentAt(b, k, h) == h \in DOMAIN b /\ \E t \in b[h].txs : k \in In[t]

\* What the daemon's checks make of every chain (Core::addBlock).
IsChain(b) ==
    /\ b \in Seq(Block)
    /\ \A g, h \in DOMAIN b : \A t \in b[g].txs : t \in b[h].txs => g = h
    /\ \A k \in Outputs : \A g, h \in DOMAIN b :
          SpentAt(b, k, g) /\ SpentAt(b, k, h) => g = h
    /\ \A k \in Outputs : \A h \in DOMAIN b :
          SpentAt(b, k, h) => \E g \in DOMAIN b : g < h /\ Created(b, k, g)

Container ==
    [owners : SUBSET Owners, start : [Owners -> Nat],
     unspent : SUBSET TransactionInput, locked : SUBSET TransactionInput,
     spent : SUBSET TransactionInput, unconfirmed : SUBSET Outputs,
     transactions : SUBSET Transaction, lockedTransactions : SUBSET LockedTransaction,
     keyImageOwners : SUBSET Outputs]

Listed(c) == c.unspent \cup c.locked \cup c.spent

\* Every record names the blocks that created and spent its output.
ListInv(c, b, top) ==
    /\ \A i \in Listed(c) :
          /\ i.blockHeight <= top /\ Created(b, i.key, i.blockHeight)
          /\ Owner[i.key] \in c.owners
    /\ \A i \in c.spent : i.spendHeight <= top /\ SpentAt(b, i.key, i.spendHeight)
    /\ \A i \in c.unspent \cup c.locked : i.spendHeight = 0
    /\ \A i, j \in Listed(c) : i.key = j.key => i = j
    /\ c.unspent \cap c.locked = {}

HistoryInv(c, b, top) ==
    /\ \A tx \in c.transactions :
          /\ tx.blockHeight <= top /\ tx.blockHeight \in DOMAIN b
          /\ tx.hash \in b[tx.blockHeight].txs
    /\ \A tx, ty \in c.transactions : tx.hash = ty.hash => tx = ty

\* The blocks spend no unspent or locked input but those still to be marked.
NotSpentInv(c, b, top, pending) ==
    \A i \in c.unspent \cup c.locked : \A h \in DOMAIN b :
        SpentAt(b, i.key, h) => h = top /\ i.key \in pending

WalletInv(c, b, top, pending) ==
    /\ c \in Container /\ Primary \in c.owners
    /\ ListInv(c, b, top) /\ HistoryInv(c, b, top)
    /\ NotSpentInv(c, b, top, pending)

\* The key image of every listed input is known.
Recognised(c) == Keys(Listed(c)) \subseteq c.keyImageOwners

IsInBlock == sync.pc = "block"
View == IF IsInBlock THEN Append(SubSeq(synced, 1, sync.height - 1), sync.block)
        ELSE synced
Top == IF IsInBlock THEN sync.height ELSE height
Pending == IF IsInBlock THEN sync.spends ELSE {}

\* What is left to do of the block being applied.
BlockInv ==
    /\ sync.height \in Heights /\ sync.height <= Len(synced) + 1
    /\ sync.block \in Block
    /\ \A tx \in sync.txs :
          tx \in Transaction /\ tx.blockHeight = sync.height /\ tx.hash \in sync.block.txs
    /\ \A i \in sync.inputs :
          /\ i \in TransactionInput /\ i.blockHeight = sync.height /\ i.spendHeight = 0
          /\ Owner[i.key] \in w.owners
          /\ \E t \in sync.block.txs : i.key \in Out[t]
          /\ i.key \notin Keys(Listed(w))
    /\ \A k \in sync.spends : \E t \in sync.block.txs : k \in In[t]

SyncRecord ==
    [pc : {"idle", "block", "status", "cancel"}, height : Nat, block : Block,
     txs : SUBSET Transaction, inputs : SUBSET TransactionInput,
     spends : SUBSET Outputs, hashes : SUBSET Txs]

SyncInv ==
    /\ sync \in SyncRecord
    /\ IsInBlock => BlockInv

SendRecord ==
    [pc : {"idle", "relay", "store", "lock"}, tx : SUBSET Txs,
     outputs : SUBSET Outputs, inputs : SUBSET Outputs]

SendInv ==
    /\ send \in SendRecord
    /\ send.pc # "idle" => send.tx # {}
    /\ prepared \subseteq Txs

DaemonInv ==
    /\ IsChain(chain) /\ Len(chain) <= MaxHeight
    /\ pool \subseteq Txs /\ forks \in Nat

SavedInv ==
    /\ saved \in [container : Container, from : Nat, height : Nat, synced : Seq(Block)]
    /\ IsChain(saved.synced)
    /\ WalletInv(saved.container, saved.synced, saved.height, {})

SubInv ==
    /\ DaemonInv /\ SyncInv /\ SendInv /\ SavedInv
    /\ from \in Nat /\ height \in Nat /\ synced \in Seq(Block)
    /\ IsChain(View)
    /\ WalletInv(w, View, Top, Pending)
    /\ Recognised(w)
-----------------------------------------------------------------------------
(* Blocks. *)

\* Every nonempty set of naturals has a least element.
LEMMA LeastNatural ==
    ASSUME NEW T \in SUBSET Nat, T # {}
    PROVE  \E x \in T : \A y \in T : x <= y
<1> DEFINE R == {ss \in Nat \X Nat : ss[1] < ss[2]}
<1>1. IsWellFoundedOn(R, Nat) BY NatLessThanWellFounded, Zenon DEF OpToRel
<1> HIDE DEF R
<1>2. PICK x \in T : \A y \in T : <<y, x>> \notin R BY <1>1, WFMin, Zenon
<1>3. ASSUME NEW y \in T PROVE x <= y
  <2>1. ~(y < x) BY <1>2, Zenon DEF R
  <2> QED BY <2>1
<1> QED BY <1>3, Zenon

\* Two sequences of blocks have the same first n blocks.
Agree(a, b, n) ==
    /\ n \in Nat /\ n <= Len(a) /\ n <= Len(b)
    /\ \A i \in 1..n : a[i] = b[i]

LEMMA AgreeFacts ==
    ASSUME NEW a \in Seq(Block), NEW b \in Seq(Block), NEW n, Agree(a, b, n),
           NEW k, NEW h \in 1..n
    PROVE  /\ h \in DOMAIN a /\ h \in DOMAIN b /\ a[h] = b[h]
           /\ Created(a, k, h) <=> Created(b, k, h)
           /\ SpentAt(a, k, h) <=> SpentAt(b, k, h)
<1>1. n \in Nat /\ n <= Len(a) /\ n <= Len(b) /\ a[h] = b[h] BY Zenon DEF Agree
<1>2. h \in DOMAIN a /\ h \in DOMAIN b BY <1>1
<1> QED BY <1>1, <1>2, Zenon DEF Created, SpentAt

\* A chain cut off at any height is a chain.
LEMMA AgreeIsChain ==
    ASSUME NEW a, IsChain(a), NEW b \in Seq(Block), Agree(a, b, Len(b))
    PROVE  IsChain(b)
<1>1. a \in Seq(Block) /\ DOMAIN b = 1..Len(b) BY DEF IsChain
<1>2. ASSUME NEW h \in DOMAIN b, NEW k
      PROVE  /\ h \in DOMAIN a /\ a[h] = b[h]
             /\ Created(a, k, h) <=> Created(b, k, h)
             /\ SpentAt(a, k, h) <=> SpentAt(b, k, h)
  BY <1>1, AgreeFacts, ZenonT(30)
<1>3. \A g, h \in DOMAIN b : \A t \in b[g].txs : t \in b[h].txs => g = h
  BY <1>2, Zenon DEF IsChain
<1>4. \A k \in Outputs : \A g, h \in DOMAIN b :
        SpentAt(b, k, g) /\ SpentAt(b, k, h) => g = h
  BY <1>2, Zenon DEF IsChain
<1>5. ASSUME NEW k \in Outputs, NEW h \in DOMAIN b, SpentAt(b, k, h)
      PROVE  \E g \in DOMAIN b : g < h /\ Created(b, k, g)
  <2>1. h \in DOMAIN a /\ SpentAt(a, k, h) BY <1>2, <1>5, Zenon
  <2>2. PICK g \in DOMAIN a : g < h /\ Created(a, k, g) BY <2>1, Zenon DEF IsChain
  <2>3. g \in DOMAIN b
    <3>1. g \in Nat /\ g >= 1 /\ h <= Len(b) BY <1>1
    <3> QED BY <3>1, <2>2, <1>1
  <2> QED BY <1>2, <2>2, <2>3, Zenon
<1> QED BY <1>3, <1>4, <1>5, Zenon DEF IsChain

LEMMA CutFacts ==
    ASSUME NEW a \in Seq(Block), NEW n \in 0..Len(a)
    PROVE  /\ SubSeq(a, 1, n) \in Seq(Block) /\ Len(SubSeq(a, 1, n)) = n
           /\ Agree(a, SubSeq(a, 1, n), n)
  BY DEF Agree

LEMMA CutIsChain ==
    ASSUME NEW a, IsChain(a), NEW n \in 0..Len(a)
    PROVE  IsChain(SubSeq(a, 1, n))
<1>1. a \in Seq(Block) BY Zenon DEF IsChain
<1>2. /\ SubSeq(a, 1, n) \in Seq(Block) /\ Len(SubSeq(a, 1, n)) = n
      /\ Agree(a, SubSeq(a, 1, n), n)
  BY <1>1, CutFacts, Zenon
<1> QED BY <1>2, AgreeIsChain, Zenon

\* No two transactions create the same output.
LEMMA CreatedOnce ==
    ASSUME NEW b, IsChain(b), NEW k, NEW g, NEW h, Created(b, k, g), Created(b, k, h)
    PROVE  g = h
<1>1. b \in Seq(Block) /\ g \in DOMAIN b /\ h \in DOMAIN b BY Zenon DEF IsChain, Created
<1>2. PICK t \in b[g].txs : k \in Out[t] BY Zenon DEF Created
<1>3. PICK u \in b[h].txs : k \in Out[u] BY Zenon DEF Created
<1>4. t \in Txs /\ u \in Txs
  <2>1. b[g] \in Block /\ b[h] \in Block BY <1>1
  <2> QED BY <2>1, Zenon DEF Block
<1>5. t = u BY <1>2, <1>3, <1>4, ContainerAssumption, Zenon
<1> QED BY <1>1, <1>5, Zenon DEF IsChain

LEMMA OutputsOf ==
    ASSUME NEW t \in Txs
    PROVE  In[t] \subseteq Outputs /\ Out[t] \subseteq Outputs
  BY ContainerAssumption, Zenon

\* The daemon's next block, of valid transactions, makes a longer chain.
LEMMA AddedIsChain ==
    ASSUME IsChain(chain), forks \in Nat, NEW txs \in SUBSET Txs,
           \A t \in txs : IsValid(t),
           \A t, u \in txs : t # u => In[t] \cap In[u] = {}
    PROVE  IsChain(Append(chain, [branch |-> forks, txs |-> txs]))
<1> DEFINE n == Len(chain)
           last == [branch |-> forks, txs |-> txs]
           b == Append(chain, last)
<1>1. chain \in Seq(Block) /\ n \in Nat BY DEF IsChain
<1>2. last \in Block /\ last.txs = txs BY Zenon DEF Block
<1> HIDE DEF last
<1>3. /\ b \in Seq(Block) /\ Len(b) = n + 1 /\ DOMAIN b = 1..(n + 1) /\ b[n + 1] = last
      /\ DOMAIN chain = 1..n /\ \A i \in 1..n : b[i] = chain[i]
  BY <1>1, <1>2
<1> HIDE DEF b, n
<1>4. ASSUME NEW h \in DOMAIN b PROVE h \in DOMAIN chain \/ h = n + 1
  BY <1>1, <1>3
<1>5. ASSUME NEW h \in DOMAIN chain, NEW k
      PROVE  /\ h \in DOMAIN b /\ h # n + 1 /\ h < n + 1 /\ b[h] = chain[h]
             /\ Created(chain, k, h) <=> Created(b, k, h)
             /\ SpentAt(chain, k, h) <=> SpentAt(b, k, h)
  <2>1. h \in DOMAIN b /\ h # n + 1 /\ h < n + 1 /\ b[h] = chain[h] BY <1>1, <1>3
  <2> QED BY <2>1, Zenon DEF Created, SpentAt
<1>6. ASSUME NEW h \in DOMAIN chain, NEW t \in chain[h].txs PROVE t \notin txs
  <2>1. t \in TxsOf(chain) BY Zenon DEF TxsOf
  <2> QED BY <2>1, Zenon DEF IsValid
<1>7. ASSUME NEW g \in DOMAIN b, NEW h \in DOMAIN b, NEW t \in b[g].txs, t \in b[h].txs
      PROVE  g = h
  <2>1. CASE g \in DOMAIN chain /\ h \in DOMAIN chain
    BY <2>1, <1>5, <1>7, Zenon DEF IsChain
  <2>2. CASE g \in DOMAIN chain /\ h = n + 1 BY <2>2, <1>2, <1>3, <1>5, <1>6, <1>7, Zenon
  <2>3. CASE g = n + 1 /\ h \in DOMAIN chain BY <2>3, <1>2, <1>3, <1>5, <1>6, <1>7, Zenon
  <2> QED BY <2>1, <2>2, <2>3, <1>4, Zenon
<1>8. ASSUME NEW k, SpentAt(b, k, n + 1)
      PROVE  /\ \E g \in DOMAIN chain : Created(chain, k, g)
             /\ \A h \in DOMAIN chain : ~SpentAt(chain, k, h)
  <2>1. PICK t \in txs : k \in In[t] BY <1>2, <1>3, <1>8, Zenon DEF SpentAt
  <2>2. k \in CreatedOn(chain) /\ k \notin SpentOn(chain) BY <2>1, Zenon DEF IsValid
  <2>3. \E g \in DOMAIN chain : Created(chain, k, g)
    <3>1. PICK u \in TxsOf(chain) : k \in Out[u] BY <2>2, Zenon DEF CreatedOn
    <3>2. PICK g \in DOMAIN chain : u \in chain[g].txs BY <3>1, Zenon DEF TxsOf
    <3> QED BY <3>1, <3>2, Zenon DEF Created
  <2>4. \A h \in DOMAIN chain : ~SpentAt(chain, k, h)
    BY <2>2, Zenon DEF SpentOn, TxsOf, SpentAt
  <2> QED BY <2>3, <2>4, Zenon
<1>9. ASSUME NEW k \in Outputs, NEW g \in DOMAIN b, NEW h \in DOMAIN b,
             SpentAt(b, k, g), SpentAt(b, k, h)
      PROVE  g = h
  <2>1. CASE g \in DOMAIN chain /\ h \in DOMAIN chain
    BY <2>1, <1>5, <1>9, Zenon DEF IsChain
  <2>2. CASE g \in DOMAIN chain /\ h = n + 1 BY <2>2, <1>5, <1>8, <1>9, Zenon
  <2>3. CASE g = n + 1 /\ h \in DOMAIN chain BY <2>3, <1>5, <1>8, <1>9, Zenon
  <2> QED BY <2>1, <2>2, <2>3, <1>4, Zenon
<1>10. ASSUME NEW k \in Outputs, NEW h \in DOMAIN b, SpentAt(b, k, h)
       PROVE  \E g \in DOMAIN b : g < h /\ Created(b, k, g)
  <2>1. CASE h \in DOMAIN chain
    <3>1. PICK g \in DOMAIN chain : g < h /\ Created(chain, k, g)
      BY <2>1, <1>5, <1>10, Zenon DEF IsChain
    <3> QED BY <3>1, <1>5, Zenon
  <2>2. CASE h = n + 1 BY <2>2, <1>5, <1>8, <1>10, Zenon
  <2> QED BY <2>1, <2>2, <1>4, Zenon
<1>11. IsChain(b) BY <1>3, <1>7, <1>9, <1>10, Zenon DEF IsChain
<1> QED BY <1>11, Zenon DEF b, last

\* The first block the wallet has not, right above those it shares with the
\* daemon's chain.
LEMMA NextHeightFacts ==
    ASSUME chain \in Seq(Block), synced \in Seq(Block)
    PROVE  /\ NextHeight \in Nat \ {0} /\ NextHeight <= Len(synced) + 1
           /\ Agree(synced, chain, NextHeight - 1)
<1> DEFINE Good(n) == /\ n <= Len(chain)
                      /\ SubSeq(synced, 1, n) = SubSeq(chain, 1, n)
                      /\ \/ n \in {Len(synced), Len(chain)}
                         \/ synced[n + 1] # chain[n + 1]
           T == {n \in Nat : \/ n \in {Len(synced), Len(chain)}
                             \/ synced[n + 1] # chain[n + 1]}
           first == CHOOSE n \in 0..Len(synced) : Good(n)
<1>1. Len(synced) \in Nat /\ Len(chain) \in Nat OBVIOUS
<1>2. Len(synced) \in T /\ Len(chain) \in T BY <1>1, Zenon
<1>3. PICK x \in T : \A y \in T : x <= y BY <1>2, LeastNatural, Zenon
<1>4. x \in Nat /\ x <= Len(synced) /\ x <= Len(chain) BY <1>1, <1>2, <1>3, Zenon
<1>5. ASSUME NEW i \in 1..x PROVE synced[i] = chain[i]
  <2>1. i - 1 \in Nat /\ ~(x <= i - 1) /\ (i - 1) + 1 = i BY <1>4
  <2>2. i - 1 \notin T BY <2>1, <1>3, Zenon
  <2> QED BY <2>1, <2>2, Zenon
<1>6. SubSeq(synced, 1, x) = SubSeq(chain, 1, x) BY <1>4, <1>5
<1>7. Good(x) BY <1>3, <1>4, <1>6, Zenon
<1>8. x \in 0..Len(synced) BY <1>4
<1>9. first \in 0..Len(synced) /\ Good(first)
  <2> HIDE DEF Good
  <2> QED BY <1>7, <1>8, Zenon
<1>10. NextHeight = 1 + first BY Zenon DEF NextHeight
<1> HIDE DEF first
<1>11. first \in Nat /\ first <= Len(synced) /\ first <= Len(chain) BY <1>9, <1>1
<1>12. ASSUME NEW i \in 1..first PROVE synced[i] = chain[i]
  <2>1. SubSeq(synced, 1, first) = SubSeq(chain, 1, first) BY <1>9, Zenon
  <2>2. SubSeq(synced, 1, first)[i] = synced[i] /\ SubSeq(chain, 1, first)[i] = chain[i]
    BY <1>11
  <2> QED BY <2>1, <2>2, Zenon
<1>13. NextHeight - 1 = first /\ NextHeight \in Nat \ {0} /\ NextHeight <= Len(synced) + 1
  BY <1>10, <1>11, <1>1
<1> QED BY <1>11, <1>12, <1>13, Zenon DEF Agree

-----------------------------------------------------------------------------
(* The calls of the container. *)

LEMMA NotSpentFacts ==
    ASSUME NEW i \in TransactionInput
    PROVE  /\ NotSpent(i) \in TransactionInput /\ NotSpent(i).key = i.key
           /\ NotSpent(i).blockHeight = i.blockHeight /\ NotSpent(i).spendHeight = 0
           /\ i.spendHeight = 0 => NotSpent(i) = i
<1>1. MaxHeight \in Nat BY ContainerAssumption, Zenon
<1> QED BY <1>1 DEF NotSpent, TransactionInput

LEMMA ListedFacts ==
    ASSUME NEW c \in Container
    PROVE  /\ Listed(c) \subseteq TransactionInput /\ Keys(Listed(c)) \subseteq Outputs
           /\ c.owners \subseteq Owners /\ c.keyImageOwners \subseteq Outputs
           /\ c.unspent \subseteq Listed(c) /\ c.locked \subseteq Listed(c)
           /\ c.spent \subseteq Listed(c)
<1>1. Listed(c) \subseteq TransactionInput /\ c.owners \subseteq Owners
      /\ c.keyImageOwners \subseteq Outputs
  BY Zenon DEF Container, Listed
<1>2. \A i \in TransactionInput : i.key \in Outputs BY Zenon DEF TransactionInput
<1> QED BY <1>1, <1>2, Zenon DEF Keys, Listed

LEMMA RemoveForkedFields ==
    ASSUME NEW c \in Container, NEW h \in Nat
    PROVE  LET d == removeForkedTransactions(c, h)
               gone == {i \in Listed(c) : i.blockHeight >= h}
               back == {i \in c.spent \ gone : i.spendHeight >= h}
           IN  /\ d \in Container /\ d.owners = c.owners /\ d.start = c.start
               /\ d.locked = c.locked \ gone
               /\ d.unspent = (c.unspent \ gone) \cup
                    {NotSpent(i) : i \in {j \in back : j.key \notin Keys(c.unspent \ gone)}}
               /\ d.spent = (c.spent \ gone) \ back
               /\ d.transactions = {t \in c.transactions : t.blockHeight < h}
               /\ d.keyImageOwners = c.keyImageOwners \ Keys(gone)
<1> DEFINE gone == {i \in Listed(c) : i.blockHeight >= h}
           back == {i \in c.spent \ gone : i.spendHeight >= h}
           more == {NotSpent(i) : i \in {j \in back : j.key \notin Keys(c.unspent \ gone)}}
           d == removeForkedTransactions(c, h)
<1>1. more \subseteq TransactionInput
  <2>1. \A i \in back : i \in TransactionInput BY ListedFacts, Zenon
  <2> HIDE DEF back
  <2> QED BY <2>1, NotSpentFacts, Zenon
<1>2. d = [c EXCEPT !.transactions = {t \in @ : t.blockHeight < h},
                    !.unconfirmed = {}, !.locked = @ \ gone,
                    !.unspent = (@ \ gone) \cup more, !.spent = (@ \ gone) \ back,
                    !.keyImageOwners = @ \ Keys(gone)]
  BY Zenon DEF removeForkedTransactions, IsReceivedFrom, IsSpentFrom, Listed
<1> HIDE DEF d, gone, back, more
<1>3. /\ d \in Container /\ d.owners = c.owners /\ d.start = c.start
      /\ d.locked = c.locked \ gone /\ d.unspent = (c.unspent \ gone) \cup more
      /\ d.spent = (c.spent \ gone) \ back
      /\ d.transactions = {t \in c.transactions : t.blockHeight < h}
      /\ d.keyImageOwners = c.keyImageOwners \ Keys(gone)
  BY <1>1, <1>2, Zenon DEF Container
<1> QED BY <1>3, Zenon DEF d, gone, back, more

LEMMA PruneFields ==
    ASSUME NEW c \in Container, NEW h
    PROVE  LET d == pruneSpentInputs(c, h)
           IN  /\ d \in Container /\ d.owners = c.owners /\ d.locked = c.locked
               /\ d.unspent = c.unspent /\ d.spent \subseteq c.spent
               /\ d.transactions = c.transactions /\ d.keyImageOwners = c.keyImageOwners
  BY Zenon DEF pruneSpentInputs, Container

LEMMA AddTransactionFields ==
    ASSUME NEW c \in Container, NEW tx \in Transaction
    PROVE  LET d == addTransaction(c, tx)
           IN  /\ d \in Container /\ d.owners = c.owners /\ d.locked = c.locked
               /\ d.unspent = c.unspent /\ d.spent = c.spent
               /\ d.transactions = c.transactions \cup
                    (IF \E t \in c.transactions : t.hash = tx.hash THEN {} ELSE {tx})
               /\ d.keyImageOwners = c.keyImageOwners
<1> DEFINE more == IF \E t \in c.transactions : t.hash = tx.hash THEN {} ELSE {tx}
           d == addTransaction(c, tx)
<1>1. more \subseteq Transaction BY Zenon
<1>2. d = [c EXCEPT !.lockedTransactions = {t \in @ : t.hash # tx.hash},
                    !.transactions = @ \cup more]
  BY Zenon DEF addTransaction
<1> HIDE DEF d, more
<1>3. /\ d \in Container /\ d.owners = c.owners /\ d.locked = c.locked
      /\ d.unspent = c.unspent /\ d.spent = c.spent
      /\ d.transactions = c.transactions \cup more
      /\ d.keyImageOwners = c.keyImageOwners
  BY <1>1, <1>2, Zenon DEF Container
<1> QED BY <1>3, Zenon DEF d, more

LEMMA StoreInputFields ==
    ASSUME NEW c \in Container, NEW i \in TransactionInput
    PROVE  LET d == storeTransactionInput(c, i)
           IN  /\ d \in Container /\ d.owners = c.owners /\ d.locked = c.locked
               /\ d.unspent = c.unspent \cup (IF i.key \in Keys(c.unspent) THEN {} ELSE {i})
               /\ d.spent = c.spent /\ d.transactions = c.transactions
               /\ d.keyImageOwners = c.keyImageOwners \cup {i.key}
<1> DEFINE more == IF i.key \in Keys(c.unspent) THEN {} ELSE {i}
           d == storeTransactionInput(c, i)
<1>1. more \subseteq TransactionInput /\ i.key \in Outputs BY Zenon DEF TransactionInput
<1>2. d = [c EXCEPT !.keyImageOwners = @ \cup {i.key}, !.unconfirmed = @ \ {i.key},
                    !.unspent = @ \cup more]
  BY Zenon DEF storeTransactionInput
<1> HIDE DEF d, more
<1>3. /\ d \in Container /\ d.owners = c.owners /\ d.locked = c.locked
      /\ d.unspent = c.unspent \cup more
      /\ d.spent = c.spent /\ d.transactions = c.transactions
      /\ d.keyImageOwners = c.keyImageOwners \cup {i.key}
  BY <1>1, <1>2, Zenon DEF Container
<1> QED BY <1>3, Zenon DEF d, more

\* The inputs that markInputAsSpent and markInputAsLocked find.
WithKey(inputs, k) == {i \in inputs : i.key = k}

\* The inputs that markInputAsSpent takes, and the spent ones it makes of them.
Found(c, k) ==
    IF k \in Keys(c.unspent) THEN WithKey(c.unspent, k) ELSE WithKey(c.locked, k)
Marked(c, k, h) ==
    {[i EXCEPT !.spendHeight = h] : i \in {j \in Found(c, k) : k \notin Keys(c.spent)}}

LEMMA MarkSpentFields ==
    ASSUME NEW c \in Container, NEW k, NEW h \in Heights
    PROVE  LET d == markInputAsSpent(c, k, h)
           IN  /\ d \in Container /\ d.owners = c.owners
               /\ d.unspent = c.unspent \ Found(c, k) /\ d.locked = c.locked \ Found(c, k)
               /\ d.spent = c.spent \cup Marked(c, k, h)
               /\ d.transactions = c.transactions /\ d.keyImageOwners = c.keyImageOwners
<1> DEFINE found == Found(c, k)
           more == Marked(c, k, h)
           d == markInputAsSpent(c, k, h)
<1>1. \A i \in TransactionInput : [i EXCEPT !.spendHeight = h] \in TransactionInput
  <2>1. h \in 0..MaxHeight BY ContainerAssumption DEF Heights
  <2> QED BY <2>1, Zenon DEF TransactionInput
<1>2. found \subseteq TransactionInput BY Zenon DEF Found, WithKey, Container
<1>3. more \subseteq TransactionInput
  <2> HIDE DEF found
  <2> QED BY <1>1, <1>2, Zenon DEF Marked, found
<1>4. d = [c EXCEPT !.unspent = @ \ found, !.locked = @ \ found, !.spent = @ \cup more]
  BY Zenon DEF markInputAsSpent, WithKey, Found, Marked
<1> HIDE DEF d, found, more
<1>5. /\ d \in Container /\ d.owners = c.owners
      /\ d.unspent = c.unspent \ found /\ d.locked = c.locked \ found
      /\ d.spent = c.spent \cup more
      /\ d.transactions = c.transactions /\ d.keyImageOwners = c.keyImageOwners
  BY <1>3, <1>4, Zenon DEF Container
<1> QED BY <1>5, Zenon DEF d, found, more

LEMMA MarkLockedFields ==
    ASSUME NEW c \in Container, NEW k
    PROVE  LET d == markInputAsLocked(c, k)
               found == WithKey(c.unspent, k)
           IN  /\ d \in Container /\ d.owners = c.owners
               /\ d.unspent = c.unspent \ found
               /\ d.locked = c.locked \cup {i \in found : k \notin Keys(c.locked)}
               /\ d.spent = c.spent
               /\ d.transactions = c.transactions /\ d.keyImageOwners = c.keyImageOwners
<1> DEFINE found == WithKey(c.unspent, k)
           more == {i \in found : k \notin Keys(c.locked)}
           d == markInputAsLocked(c, k)
<1>1. more \subseteq TransactionInput BY Zenon DEF WithKey, Container
<1>2. d = [c EXCEPT !.unspent = @ \ found, !.locked = @ \cup more]
  BY Zenon DEF markInputAsLocked, WithKey
<1> HIDE DEF d, found, more
<1>3. /\ d \in Container /\ d.owners = c.owners
      /\ d.unspent = c.unspent \ found /\ d.locked = c.locked \cup more /\ d.spent = c.spent
      /\ d.transactions = c.transactions /\ d.keyImageOwners = c.keyImageOwners
  BY <1>1, <1>2, Zenon DEF Container
<1> QED BY <1>3, Zenon DEF d, found, more

LEMMA RemoveCancelledFields ==
    ASSUME NEW c \in Container, NEW hashes \in SUBSET Txs
    PROVE  LET d == removeCancelledTransactions(c, hashes)
               back == {i \in c.locked : i.key \in UNION {Out[t] : t \in hashes}}
           IN  /\ d \in Container /\ d.owners = c.owners
               /\ d.unspent = c.unspent \cup {NotSpent(i) : i \in back}
               /\ d.locked = c.locked \ back /\ d.spent = c.spent
               /\ d.transactions = c.transactions /\ d.keyImageOwners = c.keyImageOwners
<1> DEFINE theirs == UNION {Out[t] : t \in hashes}
           back == {i \in c.locked : i.key \in theirs}
           more == {NotSpent(i) : i \in back}
           d == removeCancelledTransactions(c, hashes)
<1>1. more \subseteq TransactionInput
  <2>1. back \subseteq TransactionInput BY Zenon DEF Container
  <2> HIDE DEF back
  <2> QED BY <2>1, NotSpentFacts, Zenon
<1>2. d = [c EXCEPT !.lockedTransactions = {t \in @ : t.hash \notin hashes},
                    !.locked = @ \ back, !.unspent = @ \cup more, !.unconfirmed = @ \ theirs]
  BY Zenon DEF removeCancelledTransactions
<1> HIDE DEF d, theirs, back, more
<1>3. /\ d \in Container /\ d.owners = c.owners
      /\ d.unspent = c.unspent \cup more /\ d.locked = c.locked \ back /\ d.spent = c.spent
      /\ d.transactions = c.transactions /\ d.keyImageOwners = c.keyImageOwners
  BY <1>1, <1>2, Zenon DEF Container
<1> QED BY <1>3, Zenon DEF d, theirs, back, more

\* The calls about what is not confirmed leave lists and history alone.
LEMMA UnconfirmedFields ==
    ASSUME NEW c \in Container,
           NEW d \in {addUnconfirmedTransaction(c, tx) : tx \in LockedTransaction} \cup
                     {storeUnconfirmedIncomingInput(c, k) : k \in Outputs}
    PROVE  /\ d \in Container /\ d.owners = c.owners
           /\ d.unspent = c.unspent /\ d.locked = c.locked /\ d.spent = c.spent
           /\ d.transactions = c.transactions /\ d.keyImageOwners = c.keyImageOwners
<1>1. ASSUME NEW tx \in LockedTransaction, d = addUnconfirmedTransaction(c, tx)
      PROVE  /\ d \in Container /\ d.owners = c.owners
             /\ d.unspent = c.unspent /\ d.locked = c.locked /\ d.spent = c.spent
             /\ d.transactions = c.transactions /\ d.keyImageOwners = c.keyImageOwners
  <2> DEFINE more == IF \E t \in c.lockedTransactions : t.hash = tx.hash THEN {} ELSE {tx}
  <2>1. more \subseteq LockedTransaction BY Zenon
  <2>2. d = [c EXCEPT !.lockedTransactions = @ \cup more]
    BY <1>1, Zenon DEF addUnconfirmedTransaction
  <2> HIDE DEF more
  <2> QED BY <2>1, <2>2, Zenon DEF Container
<1>2. ASSUME NEW k \in Outputs, d = storeUnconfirmedIncomingInput(c, k)
      PROVE  /\ d \in Container /\ d.owners = c.owners
             /\ d.unspent = c.unspent /\ d.locked = c.locked /\ d.spent = c.spent
             /\ d.transactions = c.transactions /\ d.keyImageOwners = c.keyImageOwners
  <2> DEFINE more == IF Owner[k] \in c.owners THEN {k} ELSE {}
  <2>1. more \subseteq Outputs BY Zenon
  <2>2. d = [c EXCEPT !.unconfirmed = @ \cup more]
    BY <1>2, Zenon DEF storeUnconfirmedIncomingInput
  <2> HIDE DEF more
  <2> QED BY <2>1, <2>2, Zenon DEF Container
<1> QED BY <1>1, <1>2, Zenon

\* Deleting a subwallet edits the transfers of a transaction, nothing else.
LEMMA DeleteTransactionsFacts ==
    ASSUME NEW txs, NEW o
    PROVE  /\ txs \subseteq Transaction => deleteAddressTransactions(txs, o) \subseteq Transaction
           /\ txs \subseteq LockedTransaction =>
                deleteAddressTransactions(txs, o) \subseteq LockedTransaction
<1>1. ASSUME NEW t \in Transaction
      PROVE  [t EXCEPT !.transfers = @ \ {o}] \in Transaction
  BY Zenon DEF Transaction
<1>2. ASSUME NEW t \in LockedTransaction
      PROVE  [t EXCEPT !.transfers = @ \ {o}] \in LockedTransaction
  BY Zenon DEF LockedTransaction
<1>3. ASSUME NEW d \in deleteAddressTransactions(txs, o)
      PROVE  \E t \in txs : d = [t EXCEPT !.transfers = @ \ {o}]
  BY Zenon DEF deleteAddressTransactions
<1>4. ASSUME txs \subseteq Transaction, NEW d \in deleteAddressTransactions(txs, o)
      PROVE  d \in Transaction
  <2>1. PICK t \in txs : d = [t EXCEPT !.transfers = @ \ {o}] BY <1>3, Zenon
  <2>2. t \in Transaction BY <1>4, Zenon
  <2> QED BY <1>1, <2>1, <2>2, Zenon
<1>5. ASSUME txs \subseteq LockedTransaction, NEW d \in deleteAddressTransactions(txs, o)
      PROVE  d \in LockedTransaction
  <2>1. PICK t \in txs : d = [t EXCEPT !.transfers = @ \ {o}] BY <1>3, Zenon
  <2>2. t \in LockedTransaction BY <1>5, Zenon
  <2> QED BY <1>2, <2>1, <2>2, Zenon
<1> QED BY <1>4, <1>5, Zenon

LEMMA DeleteFields ==
    ASSUME NEW c \in Container, NEW o
    PROVE  LET d == deleteSubWallet(c, o)
           IN  /\ d \in Container /\ d.owners = c.owners \ {o}
               /\ d.unspent = {i \in c.unspent : Owner[i.key] # o}
               /\ d.locked = {i \in c.locked : Owner[i.key] # o}
               /\ d.spent = {i \in c.spent : Owner[i.key] # o}
               /\ d.transactions = deleteAddressTransactions(c.transactions, o)
               /\ d.keyImageOwners = c.keyImageOwners
<1> DEFINE d == deleteSubWallet(c, o)
           txs == deleteAddressTransactions(c.transactions, o)
           ltxs == deleteAddressTransactions(c.lockedTransactions, o)
<1>1. txs \subseteq Transaction /\ ltxs \subseteq LockedTransaction
  <2>1. c.transactions \subseteq Transaction /\ c.lockedTransactions \subseteq LockedTransaction
    BY Zenon DEF Container
  <2> QED BY <2>1, DeleteTransactionsFacts, Zenon
<1>2. d = [c EXCEPT !.owners = @ \ {o},
                    !.unspent = {i \in @ : Owner[i.key] # o},
                    !.locked = {i \in @ : Owner[i.key] # o},
                    !.spent = {i \in @ : Owner[i.key] # o},
                    !.unconfirmed = {k \in @ : Owner[k] # o},
                    !.transactions = txs, !.lockedTransactions = ltxs]
  BY Zenon DEF deleteSubWallet
<1> HIDE DEF d, txs, ltxs
<1>3. /\ d \in Container /\ d.owners = c.owners \ {o}
      /\ d.unspent = {i \in c.unspent : Owner[i.key] # o}
      /\ d.locked = {i \in c.locked : Owner[i.key] # o}
      /\ d.spent = {i \in c.spent : Owner[i.key] # o}
      /\ d.transactions = txs /\ d.keyImageOwners = c.keyImageOwners
  BY <1>1, <1>2, Zenon DEF Container
<1> QED BY <1>3, Zenon DEF d, txs

LEMMA AddFields ==
    ASSUME NEW c \in Container, NEW o \in Owners, NEW h \in Nat
    PROVE  LET d == addSubWallet(c, o, h)
           IN  /\ d \in Container /\ d.owners = c.owners \cup {o}
               /\ d.unspent = c.unspent /\ d.locked = c.locked /\ d.spent = c.spent
               /\ d.transactions = c.transactions /\ d.keyImageOwners = c.keyImageOwners
<1> DEFINE d == addSubWallet(c, o, h)
           start == [c.start EXCEPT ![o] = h]
<1>1. start \in [Owners -> Nat] BY Zenon DEF Container
<1>2. d = [c EXCEPT !.owners = @ \cup {o}, !.start = start]
  BY Zenon DEF addSubWallet, Container
<1> HIDE DEF d, start
<1>3. /\ d \in Container /\ d.owners = c.owners \cup {o}
      /\ d.unspent = c.unspent /\ d.locked = c.locked /\ d.spent = c.spent
      /\ d.transactions = c.transactions /\ d.keyImageOwners = c.keyImageOwners
  BY <1>1, <1>2, Zenon DEF Container
<1> QED BY <1>3, Zenon DEF d

LEMMA ResetFields ==
    ASSUME NEW c \in Container, NEW h \in Nat
    PROVE  LET d == resetContainer(c, h)
           IN  /\ d \in Container /\ d.owners = c.owners
               /\ d.unspent = {} /\ d.locked = {} /\ d.spent = {} /\ d.transactions = {}
<1> DEFINE d == resetContainer(c, h)
           start == [o \in Owners |-> IF o \in c.owners THEN h ELSE c.start[o]]
<1>1. start \in [Owners -> Nat] BY Zenon DEF Container
<1>2. d = [c EXCEPT !.start = start, !.unspent = {}, !.locked = {}, !.spent = {},
                    !.unconfirmed = {}, !.transactions = {}, !.lockedTransactions = {}]
  BY Zenon DEF resetContainer
<1> HIDE DEF d, start
<1>3. /\ d \in Container /\ d.owners = c.owners
      /\ d.unspent = {} /\ d.locked = {} /\ d.spent = {} /\ d.transactions = {}
  BY <1>1, <1>2, Zenon DEF Container
<1> QED BY <1>3, Zenon DEF d

LEMMA FileFields ==
    ASSUME NEW c \in Container, NEW d \in {toJSON(c), fromJSON(c)}
    PROVE  /\ d \in Container /\ d.owners = c.owners
           /\ d.unspent = c.unspent /\ d.locked = c.locked /\ d.spent = c.spent
           /\ d.transactions = c.transactions
           /\ d = fromJSON(c) => d.keyImageOwners = Keys(Listed(c))
<1>1. Keys(Listed(c)) \subseteq Outputs BY ListedFacts, Zenon
<1>2. CASE d = toJSON(c)
  <2>1. d = [c EXCEPT !.keyImageOwners = {}] BY <1>2, Zenon DEF toJSON
  <2>2. /\ d \in Container /\ d.owners = c.owners
        /\ d.unspent = c.unspent /\ d.locked = c.locked /\ d.spent = c.spent
        /\ d.transactions = c.transactions
    BY <2>1, Zenon DEF Container
  <2>3. d = fromJSON(c) => d.keyImageOwners = Keys(Listed(c))
    BY Zenon DEF fromJSON, Container, Listed
  <2> QED BY <2>2, <2>3, Zenon
<1>3. CASE d = fromJSON(c)
  <2> DEFINE keys == Keys(Listed(c))
  <2>1. d = [c EXCEPT !.keyImageOwners = keys] BY <1>3, Zenon DEF fromJSON, Listed
  <2> HIDE DEF keys
  <2>2. /\ d \in Container /\ d.owners = c.owners
        /\ d.unspent = c.unspent /\ d.locked = c.locked /\ d.spent = c.spent
        /\ d.transactions = c.transactions /\ d.keyImageOwners = keys
    BY <1>1, <2>1, Zenon DEF Container, keys
  <2> QED BY <2>2, Zenon DEF keys
<1> QED BY <1>2, <1>3, Zenon

-----------------------------------------------------------------------------
(* Calls that move inputs between the lists or forget some. *)

\* Every input of d was in c, on the same side of unspent and spent.
Moved(c, d) ==
    /\ d \in Container /\ c.owners \subseteq d.owners
    /\ d.unspent \cup d.locked \subseteq c.unspent \cup c.locked
    /\ d.spent \subseteq c.spent
    /\ d.unspent \cap d.locked = {}
    /\ d.transactions \subseteq c.transactions

LEMMA MovedInv ==
    ASSUME NEW c, NEW d, NEW b, NEW top, NEW pending,
           WalletInv(c, b, top, pending), Moved(c, d)
    PROVE  /\ WalletInv(d, b, top, pending)
           /\ Listed(d) \subseteq Listed(c) /\ Keys(Listed(d)) \subseteq Keys(Listed(c))
           /\ Recognised(c) /\ c.keyImageOwners \subseteq d.keyImageOwners => Recognised(d)
<1>1. /\ c \in Container /\ Primary \in c.owners /\ ListInv(c, b, top)
      /\ HistoryInv(c, b, top) /\ NotSpentInv(c, b, top, pending)
  BY Zenon DEF WalletInv
<1>2. /\ d \in Container /\ c.owners \subseteq d.owners
      /\ d.unspent \cup d.locked \subseteq c.unspent \cup c.locked
      /\ d.spent \subseteq c.spent /\ d.unspent \cap d.locked = {}
      /\ d.transactions \subseteq c.transactions
  BY Zenon DEF Moved
<1>3. Listed(d) \subseteq Listed(c) BY <1>2, Zenon DEF Listed
<1>4. Keys(Listed(d)) \subseteq Keys(Listed(c)) BY <1>3, Zenon DEF Keys
<1>5. ListInv(d, b, top) BY <1>1, <1>2, <1>3, Zenon DEF ListInv
<1>6. HistoryInv(d, b, top) BY <1>1, <1>2, Zenon DEF HistoryInv
<1>7. NotSpentInv(d, b, top, pending) BY <1>1, <1>2, Zenon DEF NotSpentInv
<1>8. Primary \in d.owners BY <1>1, <1>2, Zenon
<1>9. Recognised(c) /\ c.keyImageOwners \subseteq d.keyImageOwners => Recognised(d)
  BY <1>4, Zenon DEF Recognised
<1> QED BY <1>2, <1>3, <1>4, <1>5, <1>6, <1>7, <1>8, <1>9, Zenon DEF WalletInv

LEMMA SameListsMove ==
    ASSUME NEW c \in Container, NEW d \in Container, c.owners \subseteq d.owners,
           d.unspent = c.unspent, d.locked = c.locked, d.spent \subseteq c.spent,
           d.transactions = c.transactions, c.unspent \cap c.locked = {}
    PROVE  Moved(c, d)
  BY Zenon DEF Moved

LEMMA LockMoves ==
    ASSUME NEW c, NEW b, NEW top, NEW pending, WalletInv(c, b, top, pending), NEW k
    PROVE  /\ Moved(c, markInputAsLocked(c, k))
           /\ markInputAsLocked(c, k).owners = c.owners
           /\ markInputAsLocked(c, k).keyImageOwners = c.keyImageOwners
<1> DEFINE d == markInputAsLocked(c, k)
           found == WithKey(c.unspent, k)
<1>1. c \in Container /\ c.unspent \cap c.locked = {} BY Zenon DEF WalletInv, ListInv
<1>2. /\ d \in Container /\ d.owners = c.owners
      /\ d.unspent = c.unspent \ found
      /\ d.locked = c.locked \cup {i \in found : k \notin Keys(c.locked)}
      /\ d.spent = c.spent
      /\ d.transactions = c.transactions /\ d.keyImageOwners = c.keyImageOwners
  BY <1>1, MarkLockedFields, Zenon
<1>3. found \subseteq c.unspent BY Zenon DEF WithKey
<1> HIDE DEF d, found
<1>4. Moved(c, d) BY <1>1, <1>2, <1>3, Zenon DEF Moved
<1> QED BY <1>2, <1>4, Zenon DEF d

LEMMA CancelMoves ==
    ASSUME NEW c, NEW b, NEW top, NEW pending, WalletInv(c, b, top, pending),
           NEW hashes \in SUBSET Txs
    PROVE  /\ Moved(c, removeCancelledTransactions(c, hashes))
           /\ removeCancelledTransactions(c, hashes).owners = c.owners
           /\ removeCancelledTransactions(c, hashes).keyImageOwners = c.keyImageOwners
<1> DEFINE d == removeCancelledTransactions(c, hashes)
           back == {i \in c.locked : i.key \in UNION {Out[t] : t \in hashes}}
           returned == {NotSpent(i) : i \in back}
<1>1. /\ c \in Container /\ c.unspent \cap c.locked = {}
      /\ \A i \in c.locked : i.spendHeight = 0
  BY Zenon DEF WalletInv, ListInv
<1>2. c.locked \subseteq TransactionInput BY <1>1, Zenon DEF Container
<1>3. back \subseteq c.locked BY Zenon
<1>4. returned = back
  <2>1. \A i \in back : NotSpent(i) = i BY <1>1, <1>2, NotSpentFacts, Zenon
  <2> HIDE DEF back
  <2> QED BY <2>1, Zenon
<1>5. /\ d \in Container /\ d.owners = c.owners
      /\ d.unspent = c.unspent \cup returned
      /\ d.locked = c.locked \ back /\ d.spent = c.spent
      /\ d.transactions = c.transactions /\ d.keyImageOwners = c.keyImageOwners
  BY <1>1, RemoveCancelledFields, Zenon
<1> HIDE DEF d, back, returned
<1>6. Moved(c, d) BY <1>1, <1>3, <1>4, <1>5, Zenon DEF Moved
<1> QED BY <1>5, <1>6, Zenon DEF d

LEMMA DeleteInv ==
    ASSUME NEW c, NEW b, NEW top, NEW pending, WalletInv(c, b, top, pending),
           NEW o, o # Primary
    PROVE  LET d == deleteSubWallet(c, o)
           IN  /\ WalletInv(d, b, top, pending)
               /\ Recognised(c) => Recognised(d)
<1> DEFINE d == deleteSubWallet(c, o)
<1>1. /\ c \in Container /\ Primary \in c.owners /\ ListInv(c, b, top)
      /\ HistoryInv(c, b, top) /\ NotSpentInv(c, b, top, pending)
  BY Zenon DEF WalletInv
<1>2. /\ d \in Container /\ d.owners = c.owners \ {o}
      /\ d.unspent = {i \in c.unspent : Owner[i.key] # o}
      /\ d.locked = {i \in c.locked : Owner[i.key] # o}
      /\ d.spent = {i \in c.spent : Owner[i.key] # o}
      /\ d.transactions = deleteAddressTransactions(c.transactions, o)
      /\ d.keyImageOwners = c.keyImageOwners
  BY <1>1, DeleteFields, Zenon
<1> HIDE DEF d
<1>3. Listed(d) \subseteq Listed(c) /\ \A i \in Listed(d) : Owner[i.key] # o
  BY <1>2, Zenon DEF Listed
<1>4. ListInv(d, b, top) BY <1>1, <1>2, <1>3, Zenon DEF ListInv
<1>5. NotSpentInv(d, b, top, pending) BY <1>1, <1>2, Zenon DEF NotSpentInv
<1>6. ASSUME NEW x \in d.transactions
      PROVE  \E t \in c.transactions : /\ x = [t EXCEPT !.transfers = @ \ {o}]
                                       /\ x.hash = t.hash /\ x.blockHeight = t.blockHeight
  <2>1. c.transactions \subseteq Transaction BY <1>1, Zenon DEF Container
  <2>2. x \in deleteAddressTransactions(c.transactions, o) BY <1>2, Zenon
  <2>3. PICK t \in c.transactions : x = [t EXCEPT !.transfers = @ \ {o}]
    BY <2>2, Zenon DEF deleteAddressTransactions
  <2>4. t \in Transaction BY <2>1, Zenon
  <2>5. x.hash = t.hash /\ x.blockHeight = t.blockHeight BY <2>3, <2>4, Zenon DEF Transaction
  <2> QED BY <2>3, <2>5, Zenon
<1>7. HistoryInv(d, b, top)
  <2>1. ASSUME NEW x \in d.transactions
        PROVE  /\ x.blockHeight <= top /\ x.blockHeight \in DOMAIN b
               /\ x.hash \in b[x.blockHeight].txs
    <3>1. PICK t \in c.transactions : x.hash = t.hash /\ x.blockHeight = t.blockHeight
      BY <1>6, Zenon
    <3> QED BY <1>1, <3>1, Zenon DEF HistoryInv
  <2>2. ASSUME NEW x \in d.transactions, NEW y \in d.transactions, x.hash = y.hash
        PROVE  x = y
    <3>1. PICK t \in c.transactions : x = [t EXCEPT !.transfers = @ \ {o}] /\ x.hash = t.hash
      BY <1>6, Zenon
    <3>2. PICK u \in c.transactions : y = [u EXCEPT !.transfers = @ \ {o}] /\ y.hash = u.hash
      BY <1>6, Zenon
    <3>3. t = u BY <1>1, <2>2, <3>1, <3>2, Zenon DEF HistoryInv
    <3> QED BY <3>1, <3>2, <3>3, Zenon
  <2> QED BY <2>1, <2>2, Zenon DEF HistoryInv
<1>8. Primary \in d.owners BY <1>1, <1>2, Zenon
<1>9. Recognised(c) => Recognised(d)
  <2>1. Keys(Listed(d)) \subseteq Keys(Listed(c)) BY <1>3, Zenon DEF Keys
  <2> QED BY <1>2, <2>1, Zenon DEF Recognised
<1>10. WalletInv(d, b, top, pending) BY <1>2, <1>4, <1>5, <1>7, <1>8, Zenon DEF WalletInv
<1> QED BY <1>9, <1>10, Zenon DEF d

\* A container whose lists are empty claims nothing.
LEMMA EmptyInv ==
    ASSUME NEW d \in Container, Primary \in d.owners, d.unspent = {}, d.locked = {},
           d.spent = {}, d.transactions = {}, NEW b, NEW top, NEW pending
    PROVE  WalletInv(d, b, top, pending) /\ Recognised(d)
<1>1. Listed(d) = {} BY Zenon DEF Listed
<1>2. ListInv(d, b, top) BY <1>1, Zenon DEF ListInv
<1>3. HistoryInv(d, b, top) /\ NotSpentInv(d, b, top, pending)
  BY Zenon DEF HistoryInv, NotSpentInv
<1>4. Recognised(d) BY <1>1, Zenon DEF Recognised, Keys
<1> QED BY <1>2, <1>3, <1>4, Zenon DEF WalletInv

-----------------------------------------------------------------------------
(* Applying a block: the fork is resolved, then the block becomes the last  *)
(* one of the view.                                                         *)

\* What a record says of a height both sequences share stays true.
LEMMA SharedRecords ==
    ASSUME NEW b, IsChain(b), NEW p \in Seq(Block), NEW h \in Nat \ {0}, Len(p) = h - 1,
           Agree(b, p, h - 1), NEW k, NEW g
    PROVE  /\ Created(b, k, g) /\ g < h => Created(p, k, g) /\ g <= h - 1
           /\ SpentAt(b, k, g) /\ g < h => SpentAt(p, k, g) /\ g <= h - 1
           /\ g \in DOMAIN p => g \in Nat /\ g < h /\ g \in DOMAIN b
           /\ SpentAt(p, k, g) => SpentAt(b, k, g)
           /\ g \in DOMAIN b /\ g < h => g \in DOMAIN p /\ g <= h - 1 /\ b[g] = p[g]
<1>1. b \in Seq(Block) BY Zenon DEF IsChain
<1>2. DOMAIN b = 1..Len(b) /\ DOMAIN p = 1..(h - 1) BY <1>1
<1>3. ASSUME g \in 1..(h - 1)
      PROVE  /\ g \in DOMAIN b /\ g \in DOMAIN p /\ b[g] = p[g]
             /\ Created(b, k, g) <=> Created(p, k, g)
             /\ SpentAt(b, k, g) <=> SpentAt(p, k, g)
  BY ONLY <1>1, <1>3, AgreeFacts, Agree(b, p, h - 1), p \in Seq(Block), Zenon
<1>4. g \in DOMAIN b /\ g < h => g \in 1..(h - 1) /\ g <= h - 1 BY <1>1, <1>2
<1>5. g \in DOMAIN p => g \in 1..(h - 1) /\ g \in Nat /\ g < h BY <1>2
<1>6. /\ Created(b, k, g) => g \in DOMAIN b
      /\ SpentAt(b, k, g) => g \in DOMAIN b
      /\ SpentAt(p, k, g) => g \in DOMAIN p
  BY Zenon DEF Created, SpentAt
<1> QED BY ONLY <1>3, <1>4, <1>5, <1>6, Zenon

LEMMA NoForkInv ==
    ASSUME NEW b, IsChain(b), NEW p \in Seq(Block), NEW h \in Nat \ {0}, Len(p) = h - 1,
           Agree(b, p, h - 1), NEW c, NEW top \in Nat, top < h, WalletInv(c, b, top, {})
    PROVE  WalletInv(c, p, h - 1, {})
<1>1. /\ c \in Container /\ Primary \in c.owners /\ ListInv(c, b, top)
      /\ HistoryInv(c, b, top) /\ NotSpentInv(c, b, top, {})
  BY Zenon DEF WalletInv
<1>2. /\ Listed(c) \subseteq TransactionInput /\ c.spent \subseteq TransactionInput
      /\ c.transactions \subseteq Transaction
  BY <1>1, ListedFacts, Zenon DEF Container
<1>3. ASSUME NEW g \in Int, g <= top PROVE g < h BY <1>3
<1>4. \A i \in Listed(c) : i.blockHeight \in Int /\ i.spendHeight \in Int
  BY <1>2 DEF TransactionInput, Heights
<1>5. \A tx \in c.transactions : tx.blockHeight \in Int BY <1>2 DEF Transaction, Heights
<1>6. ListInv(c, p, h - 1)
  <2>1. ASSUME NEW i \in Listed(c)
        PROVE  i.blockHeight <= h - 1 /\ Created(p, i.key, i.blockHeight)
    <3>1. i.blockHeight <= top /\ Created(b, i.key, i.blockHeight) BY <1>1, Zenon DEF ListInv
    <3>2. i.blockHeight < h BY <1>3, <1>4, <3>1, Zenon
    <3> QED BY <3>1, <3>2, SharedRecords, Zenon
  <2>2. ASSUME NEW i \in c.spent
        PROVE  i.spendHeight <= h - 1 /\ SpentAt(p, i.key, i.spendHeight)
    <3>0. i \in Listed(c) BY Zenon DEF Listed
    <3>1. i.spendHeight <= top /\ SpentAt(b, i.key, i.spendHeight) BY <1>1, Zenon DEF ListInv
    <3>2. i.spendHeight < h BY <1>3, <1>4, <3>0, <3>1, Zenon
    <3> QED BY <3>1, <3>2, SharedRecords, Zenon
  <2> QED BY <1>1, <2>1, <2>2, Zenon DEF ListInv
<1>7. HistoryInv(c, p, h - 1)
  <2>1. ASSUME NEW tx \in c.transactions
        PROVE  /\ tx.blockHeight <= h - 1 /\ tx.blockHeight \in DOMAIN p
               /\ tx.hash \in p[tx.blockHeight].txs
    <3>1. /\ tx.blockHeight <= top /\ tx.blockHeight \in DOMAIN b
          /\ tx.hash \in b[tx.blockHeight].txs
      BY <1>1, Zenon DEF HistoryInv
    <3>2. tx.blockHeight < h BY <1>3, <1>5, <3>1, Zenon
    <3>3. /\ tx.blockHeight \in DOMAIN p /\ tx.blockHeight <= h - 1
          /\ b[tx.blockHeight] = p[tx.blockHeight]
      BY <3>1, <3>2, SharedRecords, Zenon
    <3> QED BY <3>1, <3>3, Zenon
  <2> QED BY <1>1, <2>1, Zenon DEF HistoryInv
<1>8. NotSpentInv(c, p, h - 1, {})
  <2>1. ASSUME NEW i \in c.unspent \cup c.locked, NEW g \in DOMAIN p, SpentAt(p, i.key, g)
        PROVE  FALSE
    <3>1. g \in DOMAIN b /\ SpentAt(b, i.key, g) BY <2>1, SharedRecords, Zenon
    <3> QED BY <1>1, <2>1, <3>1, Zenon DEF NotSpentInv
  <2> QED BY <2>1, Zenon DEF NotSpentInv
<1> QED BY <1>1, <1>6, <1>7, <1>8, Zenon DEF WalletInv

\* A record that removeForkedTransactions leaves is an old one, or an input
\* whose spend the fork took back.
Returned(c, h, i) == \E j \in c.spent : j.blockHeight < h /\ j.spendHeight >= h /\ i = NotSpent(j)

LEMMA ForkedRecords ==
    ASSUME NEW c, NEW b, NEW top, WalletInv(c, b, top, {}), NEW h \in Nat \ {0}
    PROVE  LET d == removeForkedTransactions(c, h)
           IN  /\ \A i \in d.locked : i \in c.locked /\ i.blockHeight < h
               /\ \A i \in d.spent : i \in c.spent /\ i.blockHeight < h /\ i.spendHeight < h
               /\ \A i \in d.unspent : (i \in c.unspent /\ i.blockHeight < h) \/ Returned(c, h, i)
               /\ \A i \in Listed(d) :
                    \/ i \in Listed(c) /\ i.blockHeight < h /\ i.spendHeight < h
                    \/ Returned(c, h, i)
<1> DEFINE d == removeForkedTransactions(c, h)
           gone == {i \in Listed(c) : i.blockHeight >= h}
           back == {i \in c.spent \ gone : i.spendHeight >= h}
           more == {NotSpent(i) : i \in {j \in back : j.key \notin Keys(c.unspent \ gone)}}
<1>1. c \in Container /\ \A i \in c.unspent \cup c.locked : i.spendHeight = 0
  BY Zenon DEF WalletInv, ListInv
<1>2. \A i \in Listed(c) : i.blockHeight \in Int /\ i.spendHeight \in Int
  BY <1>1, ListedFacts DEF TransactionInput, Heights
<1>3. /\ d.locked = c.locked \ gone /\ d.unspent = (c.unspent \ gone) \cup more
      /\ d.spent = (c.spent \ gone) \ back
  BY <1>1, RemoveForkedFields, Zenon
<1>4. /\ c.locked \subseteq Listed(c) /\ c.unspent \subseteq Listed(c)
      /\ c.spent \subseteq Listed(c)
  BY Zenon DEF Listed
<1>5. \A i \in Listed(c) : /\ i \notin gone => i.blockHeight < h
                           /\ ~(i.spendHeight >= h) => i.spendHeight < h
                           /\ i.spendHeight = 0 => i.spendHeight < h
  BY <1>2
<1>6. \A i \in more : Returned(c, h, i)
  <2>1. \A j \in back : j \in c.spent /\ j \notin gone /\ j.spendHeight >= h BY Zenon
  <2> HIDE DEF gone, back
  <2> QED BY <1>4, <1>5, <2>1, Zenon DEF Returned
<1>7. \A i \in c.spent : i \notin gone /\ i \notin back => i.spendHeight < h
  <2>1. \A i \in c.spent : i \notin gone /\ i \notin back => ~(i.spendHeight >= h) BY Zenon
  <2> HIDE DEF gone, back
  <2> QED BY <1>4, <1>5, <2>1, Zenon
<1> HIDE DEF d, gone, back, more
<1>8. /\ \A i \in d.locked : i \in c.locked /\ i.blockHeight < h
      /\ \A i \in d.spent : i \in c.spent /\ i.blockHeight < h /\ i.spendHeight < h
      /\ \A i \in d.unspent : (i \in c.unspent /\ i.blockHeight < h) \/ Returned(c, h, i)
  BY <1>3, <1>4, <1>5, <1>6, <1>7, Zenon
<1>9. ASSUME NEW i \in Listed(d)
      PROVE  \/ i \in Listed(c) /\ i.blockHeight < h /\ i.spendHeight < h
             \/ Returned(c, h, i)
  <2>1. CASE i \in d.unspent BY <1>1, <1>4, <1>5, <1>8, <2>1, Zenon
  <2>2. CASE i \in d.locked BY <1>1, <1>4, <1>5, <1>8, <2>2, Zenon
  <2>3. CASE i \in d.spent BY <1>4, <1>8, <2>3, Zenon
  <2> QED BY <2>1, <2>2, <2>3, Zenon DEF Listed
<1> QED BY <1>8, <1>9, Zenon DEF d

\* After removeForkedTransactions the container stands for the blocks below h.
LEMMA ForkedInv ==
    ASSUME NEW b, IsChain(b), NEW p \in Seq(Block), NEW h \in Nat \ {0}, Len(p) = h - 1,
           Agree(b, p, h - 1), NEW c, NEW top, WalletInv(c, b, top, {}), Recognised(c)
    PROVE  LET d == removeForkedTransactions(c, h)
           IN  WalletInv(d, p, h - 1, {}) /\ Recognised(d)
<1> DEFINE d == removeForkedTransactions(c, h)
           gone == {i \in Listed(c) : i.blockHeight >= h}
<1>1. /\ c \in Container /\ Primary \in c.owners /\ ListInv(c, b, top)
      /\ HistoryInv(c, b, top) /\ NotSpentInv(c, b, top, {})
  BY Zenon DEF WalletInv
<1>2. /\ d \in Container /\ d.owners = c.owners
      /\ d.transactions = {t \in c.transactions : t.blockHeight < h}
      /\ d.keyImageOwners = c.keyImageOwners \ Keys(gone)
  BY <1>1, RemoveForkedFields, Zenon
<1>3. /\ \A i \in d.locked : i \in c.locked /\ i.blockHeight < h
      /\ \A i \in d.spent : i \in c.spent /\ i.blockHeight < h /\ i.spendHeight < h
      /\ \A i \in d.unspent : (i \in c.unspent /\ i.blockHeight < h) \/ Returned(c, h, i)
      /\ \A i \in Listed(d) : \/ i \in Listed(c) /\ i.blockHeight < h /\ i.spendHeight < h
                              \/ Returned(c, h, i)
  BY ForkedRecords, Zenon
<1> HIDE DEF d, gone
<1>4. /\ c.locked \subseteq Listed(c) /\ c.unspent \subseteq Listed(c)
      /\ c.spent \subseteq Listed(c) /\ Listed(c) \subseteq TransactionInput
  BY <1>1, ListedFacts, Zenon
<1>5. \A i \in Listed(c) : ~(i.spendHeight >= h /\ i.spendHeight < h)
  BY <1>4 DEF TransactionInput, Heights
<1>6. ASSUME NEW i, Returned(c, h, i)
      PROVE  \E j \in c.spent : /\ j.blockHeight < h /\ j.spendHeight >= h /\ i = NotSpent(j)
                                /\ i.key = j.key /\ i.blockHeight = j.blockHeight
                                /\ i.spendHeight = 0
  BY <1>4, <1>6, NotSpentFacts, Zenon DEF Returned
<1>7. ASSUME NEW i \in Listed(d)
      PROVE  \E j \in Listed(c) :
                j.blockHeight < h /\ i.key = j.key /\ i.blockHeight = j.blockHeight
  BY <1>3, <1>4, <1>6, Zenon
<1>8. ListInv(d, p, h - 1)
  <2>1. ASSUME NEW i \in Listed(d)
        PROVE  /\ i.blockHeight <= h - 1 /\ Created(p, i.key, i.blockHeight)
               /\ Owner[i.key] \in d.owners
    <3>1. PICK j \in Listed(c) :
            j.blockHeight < h /\ i.key = j.key /\ i.blockHeight = j.blockHeight
      BY <1>7, Zenon
    <3>2. Created(b, j.key, j.blockHeight) /\ Owner[j.key] \in c.owners
      BY <1>1, Zenon DEF ListInv
    <3>3. j.blockHeight <= h - 1 /\ Created(p, j.key, j.blockHeight)
      BY <3>1, <3>2, SharedRecords, ZenonT(30)
    <3> QED BY <1>2, <3>1, <3>2, <3>3, Zenon
  <2>2. ASSUME NEW i \in d.spent
        PROVE  i.spendHeight <= h - 1 /\ SpentAt(p, i.key, i.spendHeight)
    <3>1. SpentAt(b, i.key, i.spendHeight) /\ i.spendHeight < h
      BY <1>1, <1>3, Zenon DEF ListInv
    <3> QED BY <3>1, SharedRecords, Zenon
  <2>3. \A i \in d.unspent \cup d.locked : i.spendHeight = 0
    BY <1>1, <1>3, <1>6, Zenon DEF ListInv
  <2>4. ASSUME NEW i \in Listed(d), NEW j \in Listed(d), i.key = j.key PROVE i = j
    <3>1. \A x, y \in Listed(c) : x.key = y.key => x = y BY <1>1, Zenon DEF ListInv
    <3>2. ASSUME NEW x \in Listed(d), NEW y \in Listed(d), x.key = y.key,
                 x \in Listed(c), x.spendHeight < h, Returned(c, h, y)
          PROVE  FALSE
      <4>1. PICK z \in c.spent : z.spendHeight >= h /\ y.key = z.key BY <1>6, <3>2, Zenon
      <4>2. x = z BY <1>4, <3>1, <3>2, <4>1, Zenon
      <4> QED BY <1>5, <3>2, <4>1, <4>2, Zenon
    <3>3. CASE i \in Listed(c) /\ j \in Listed(c) BY <2>4, <3>1, <3>3, Zenon
    <3>4. CASE Returned(c, h, i) /\ Returned(c, h, j)
      <4>1. PICK x \in c.spent : i = NotSpent(x) /\ i.key = x.key BY <1>6, <3>4, Zenon
      <4>2. PICK y \in c.spent : j = NotSpent(y) /\ j.key = y.key BY <1>6, <3>4, Zenon
      <4>3. x = y BY <1>4, <2>4, <3>1, <4>1, <4>2, Zenon
      <4> QED BY <4>1, <4>2, <4>3, Zenon
    <3> QED BY <1>3, <2>4, <3>2, <3>3, <3>4, Zenon
  <2>5. ASSUME NEW i \in d.unspent, i \in d.locked PROVE FALSE
    <3>1. i \in c.locked BY <1>3, <2>5, Zenon
    <3>2. CASE i \in c.unspent BY <1>1, <3>1, <3>2, Zenon DEF ListInv
    <3>3. CASE Returned(c, h, i)
      <4>1. PICK z \in c.spent : /\ z.spendHeight >= h /\ i.key = z.key
        BY <1>6, <3>3, Zenon
      <4>2. i = z BY <1>1, <1>4, <3>1, <4>1, Zenon DEF ListInv
      <4>3. i.spendHeight = 0 BY <1>1, <3>1, Zenon DEF ListInv
      <4> QED BY <4>1, <4>2, <4>3
    <3> QED BY <1>3, <3>2, <3>3, Zenon
  <2> QED BY <2>1, <2>2, <2>3, <2>4, <2>5, Zenon DEF ListInv
<1>9. HistoryInv(d, p, h - 1)
  <2>1. ASSUME NEW tx \in d.transactions
        PROVE  /\ tx.blockHeight <= h - 1 /\ tx.blockHeight \in DOMAIN p
               /\ tx.hash \in p[tx.blockHeight].txs
    <3>1. /\ tx.blockHeight < h /\ tx.blockHeight \in DOMAIN b
          /\ tx.hash \in b[tx.blockHeight].txs
      BY <1>1, <1>2, Zenon DEF HistoryInv
    <3>2. /\ tx.blockHeight \in DOMAIN p /\ tx.blockHeight <= h - 1
          /\ b[tx.blockHeight] = p[tx.blockHeight]
      BY <3>1, SharedRecords, Zenon
    <3> QED BY <3>1, <3>2, Zenon
  <2> QED BY <1>1, <1>2, <2>1, Zenon DEF HistoryInv
<1>10. NotSpentInv(d, p, h - 1, {})
  <2>1. ASSUME NEW i \in d.unspent \cup d.locked, NEW g \in DOMAIN p, SpentAt(p, i.key, g)
        PROVE  FALSE
    <3>1. g \in Nat /\ g < h /\ g \in DOMAIN b /\ SpentAt(b, i.key, g)
      BY <2>1, SharedRecords, Zenon
    <3>2. CASE i \in c.unspent \cup c.locked BY <1>1, <3>1, <3>2, Zenon DEF NotSpentInv
    <3>3. CASE Returned(c, h, i)
      <4>1. PICK z \in c.spent : z.spendHeight >= h /\ i.key = z.key BY <1>6, <3>3, Zenon
      <4>2. SpentAt(b, z.key, z.spendHeight) BY <1>1, Zenon DEF ListInv
      <4>3. z.key \in Outputs /\ z.spendHeight \in DOMAIN b
        BY <1>4, <4>2, Zenon DEF TransactionInput, SpentAt
      <4>4. g = z.spendHeight BY <3>1, <4>1, <4>2, <4>3, Zenon DEF IsChain
      <4> QED BY <3>1, <4>1, <4>4
    <3> QED BY <1>3, <2>1, <3>2, <3>3, Zenon
  <2> QED BY <2>1, Zenon DEF NotSpentInv
<1>11. Recognised(d)
  <2>1. ASSUME NEW i \in Listed(d) PROVE i.key \in d.keyImageOwners
    <3>1. PICK j \in Listed(c) : j.blockHeight < h /\ i.key = j.key BY <1>7, Zenon
    <3>2. j.key \in c.keyImageOwners BY Zenon DEF Recognised, Keys
    <3>3. ASSUME j.key \in Keys(gone) PROVE FALSE
      <4>1. PICK x \in gone : x.key = j.key BY <3>3, Zenon DEF Keys
      <4>2. x \in Listed(c) /\ x.blockHeight >= h BY <4>1, Zenon DEF gone
      <4>3. x = j BY <1>1, <4>1, <4>2, Zenon DEF ListInv
      <4>4. j.blockHeight \in Int BY <1>4 DEF TransactionInput, Heights
      <4> QED BY <3>1, <4>2, <4>3, <4>4
    <3> QED BY <1>2, <3>1, <3>2, <3>3, Zenon
  <2> QED BY <2>1, Zenon DEF Recognised, Keys
<1>12. WalletInv(d, p, h - 1, {}) BY <1>1, <1>2, <1>8, <1>9, <1>10, Zenon DEF WalletInv
<1> QED BY <1>11, <1>12, Zenon DEF d

\* The block of height h becomes the last one of the view: its spends of known
\* key images are to be marked, and it creates no output that is listed.
LEMMA ExtendInv ==
    ASSUME NEW v, IsChain(v), NEW p \in Seq(Block), NEW h \in Nat \ {0}, Len(v) = h,
           Len(p) = h - 1, Agree(v, p, h - 1), NEW c, WalletInv(c, p, h - 1, {}),
           Recognised(c), NEW spends,
           \A k \in c.keyImageOwners : (\E t \in v[h].txs : k \in In[t]) => k \in spends
    PROVE  /\ WalletInv(c, v, h, spends)
           /\ \A k : (\E t \in v[h].txs : k \in Out[t]) => k \notin Keys(Listed(c))
<1>1. /\ c \in Container /\ Primary \in c.owners /\ ListInv(c, p, h - 1)
      /\ HistoryInv(c, p, h - 1) /\ NotSpentInv(c, p, h - 1, {})
  BY Zenon DEF WalletInv
<1>2. v \in Seq(Block) BY Zenon DEF IsChain
<1>3. DOMAIN v = 1..h /\ DOMAIN p = 1..(h - 1) BY <1>2
<1>4. \A g \in DOMAIN p : g \in 1..(h - 1) /\ g \in DOMAIN v /\ g <= h /\ g # h BY <1>3
<1>5. \A g \in DOMAIN v : g = h \/ g \in DOMAIN p BY <1>3
<1>6. ASSUME NEW k, NEW g \in DOMAIN p
      PROVE  /\ g \in DOMAIN v /\ g \in DOMAIN p /\ v[g] = p[g]
             /\ Created(v, k, g) <=> Created(p, k, g)
             /\ SpentAt(v, k, g) <=> SpentAt(p, k, g)
  <2>1. g \in 1..(h - 1) BY <1>4, Zenon
  <2> QED BY ONLY <1>2, <2>1, AgreeFacts, Agree(v, p, h - 1), p \in Seq(Block), Zenon
<1>7. ASSUME NEW i \in Listed(c)
      PROVE  /\ i.blockHeight \in DOMAIN p /\ Created(v, i.key, i.blockHeight)
             /\ i.blockHeight <= h /\ i.blockHeight # h
  <2>1. Created(p, i.key, i.blockHeight) BY <1>1, Zenon DEF ListInv
  <2>2. i.blockHeight \in DOMAIN p BY <2>1, Zenon DEF Created
  <2> QED BY <1>4, <1>6, <2>1, <2>2, Zenon
<1>8. ListInv(c, v, h)
  <2>1. ASSUME NEW i \in c.spent PROVE i.spendHeight <= h /\ SpentAt(v, i.key, i.spendHeight)
    <3>1. SpentAt(p, i.key, i.spendHeight) BY <1>1, Zenon DEF ListInv
    <3>2. i.spendHeight \in DOMAIN p BY <3>1, Zenon DEF SpentAt
    <3> QED BY <1>4, <1>6, <3>1, <3>2, Zenon
  <2> QED BY <1>1, <1>7, <2>1, Zenon DEF ListInv
<1>9. HistoryInv(c, v, h) BY <1>1, <1>4, <1>6, Zenon DEF HistoryInv
<1>10. NotSpentInv(c, v, h, spends)
  <2>1. ASSUME NEW i \in c.unspent \cup c.locked, NEW g \in DOMAIN v, SpentAt(v, i.key, g)
        PROVE  g = h /\ i.key \in spends
    <3>1. g = h BY <1>1, <1>5, <1>6, <2>1, Zenon DEF NotSpentInv
    <3>2. i.key \in c.keyImageOwners BY <2>1, Zenon DEF Recognised, Keys, Listed
    <3>3. \E t \in v[h].txs : i.key \in In[t] BY <2>1, <3>1, Zenon DEF SpentAt
    <3> QED BY <3>1, <3>2, <3>3, Zenon
  <2> QED BY <2>1, Zenon DEF NotSpentInv
<1>11. ASSUME NEW k, \E t \in v[h].txs : k \in Out[t], k \in Keys(Listed(c)) PROVE FALSE
  <2>1. PICK i \in Listed(c) : i.key = k BY <1>11, Zenon DEF Keys
  <2>2. Created(v, k, h)
    <3>1. h \in DOMAIN v BY <1>3
    <3> QED BY <1>11, <3>1, Zenon DEF Created
  <2>3. Created(v, k, i.blockHeight) /\ i.blockHeight # h BY <1>7, <2>1, Zenon
  <2> QED BY <2>2, <2>3, CreatedOnce, Zenon
<1>12. WalletInv(c, v, h, spends) BY <1>1, <1>8, <1>9, <1>10, Zenon DEF WalletInv
<1> QED BY <1>11, <1>12, Zenon

\* The blocks below h and the daemon's block h make a chain of length h.
LEMMA ViewFacts ==
    ASSUME NEW s \in Seq(Block), NEW h \in Nat \ {0}, h <= Len(s) + 1, NEW block \in Block
    PROVE  LET v == Append(SubSeq(s, 1, h - 1), block)
           IN  /\ v \in Seq(Block) /\ Len(v) = h /\ v[h] = block /\ DOMAIN v = 1..h
               /\ SubSeq(s, 1, h - 1) \in Seq(Block) /\ Len(SubSeq(s, 1, h - 1)) = h - 1
               /\ Agree(v, SubSeq(s, 1, h - 1), h - 1)
               /\ Agree(s, SubSeq(s, 1, h - 1), h - 1)
<1> DEFINE p == SubSeq(s, 1, h - 1)
           v == Append(p, block)
<1>1. h - 1 \in 0..Len(s) OBVIOUS
<1>2. p \in Seq(Block) /\ Len(p) = h - 1 /\ Agree(s, p, h - 1) BY <1>1, CutFacts, Zenon
<1> HIDE DEF p
<1>3. /\ v \in Seq(Block) /\ Len(v) = h /\ v[h] = block /\ DOMAIN v = 1..h
      /\ \A i \in 1..(h - 1) : v[i] = p[i]
  BY <1>2
<1>4. Agree(v, p, h - 1)
  <2>1. h - 1 \in Nat /\ h - 1 <= Len(v) /\ h - 1 <= Len(p) BY <1>2, <1>3
  <2> HIDE DEF v
  <2> QED BY <1>3, <2>1, Zenon DEF Agree
<1> QED BY <1>2, <1>3, <1>4, Zenon DEF p

LEMMA ViewIsChain ==
    ASSUME NEW a, IsChain(a), NEW s \in Seq(Block), NEW h \in Nat \ {0}, h <= Len(s) + 1,
           h <= Len(a), Agree(s, a, h - 1)
    PROVE  IsChain(Append(SubSeq(s, 1, h - 1), a[h])) /\ a[h] \in Block
<1> DEFINE p == SubSeq(s, 1, h - 1)
           v == Append(p, a[h])
<1>1. a \in Seq(Block) BY Zenon DEF IsChain
<1>2. a[h] \in Block BY <1>1
<1>3. v \in Seq(Block) /\ Len(v) = h /\ v[h] = a[h] /\ Agree(v, p, h - 1) /\ Agree(s, p, h - 1)
  BY <1>2, ViewFacts, Zenon
<1> HIDE DEF p, v
<1>4. \A i \in 1..(h - 1) : v[i] = a[i] BY <1>3, Zenon DEF Agree
<1>5. Agree(a, v, h)
  <2>1. \A i \in 1..h : i = h \/ i \in 1..(h - 1) OBVIOUS
  <2>2. \A i \in 1..h : a[i] = v[i] BY <1>3, <1>4, <2>1, Zenon
  <2>3. h <= Len(v) /\ h \in Nat BY <1>3
  <2> QED BY <2>2, <2>3, Zenon DEF Agree
<1>6. IsChain(v) BY <1>3, <1>5, AgreeIsChain, Zenon
<1> QED BY <1>2, <1>6, Zenon DEF p, v

-----------------------------------------------------------------------------
(* The synchronizer's steps. *)

LEMMA IdleView ==
    ASSUME SubInv, ~IsInBlock
    PROVE  /\ View = synced /\ Top = height /\ Pending = {}
           /\ IsChain(synced) /\ WalletInv(w, synced, height, {})
  BY Zenon DEF SubInv, View, Top, Pending

\* What a step leaves alone stays as it was.
LEMMA Frame ==
    ASSUME SubInv
    PROVE  /\ UNCHANGED daemonVars => DaemonInv'
           /\ UNCHANGED sendVars => SendInv'
           /\ UNCHANGED saved => SavedInv'
           /\ UNCHANGED statusVars => from' \in Nat /\ height' \in Nat /\ synced' \in Seq(Block)
<1>1. UNCHANGED daemonVars => DaemonInv' BY Zenon DEF SubInv, DaemonInv, daemonVars
<1>2. UNCHANGED sendVars => SendInv' BY Zenon DEF SubInv, SendInv, sendVars
<1>3. UNCHANGED saved => SavedInv' BY Zenon DEF SubInv, SavedInv
<1>4. UNCHANGED statusVars => from' \in Nat /\ height' \in Nat /\ synced' \in Seq(Block)
  BY Zenon DEF SubInv, statusVars
<1> QED BY <1>1, <1>2, <1>3, <1>4, Zenon

LEMMA BlockRecords ==
    ASSUME NEW c \in Container, NEW block \in Block, NEW h \in Heights
    PROVE  /\ \A tx \in processBlockTransactions(c, block, h) :
                 tx \in Transaction /\ tx.blockHeight = h /\ tx.hash \in block.txs
           /\ \A i \in processBlockOutputs(c, block, h) :
                 /\ i \in TransactionInput /\ i.blockHeight = h /\ i.spendHeight = 0
                 /\ Owner[i.key] \in c.owners
                 /\ \E t \in block.txs : i.key \in Out[t]
<1>1. block.txs \subseteq Txs /\ c.owners \subseteq Owners /\ c.keyImageOwners \subseteq Outputs
  BY Zenon DEF Block, Container
<1>2. \A k \in Outputs : Owner[k] \in Owners BY ContainerAssumption, Zenon
<1>3. ASSUME NEW tx \in processBlockTransactions(c, block, h)
      PROVE  tx \in Transaction /\ tx.blockHeight = h /\ tx.hash \in block.txs
  <2>1. PICK t \in block.txs : tx = [hash |-> t, blockHeight |-> h, transfers |-> Transfers(c, t)]
    BY <1>3, Zenon DEF processBlockTransactions
  <2>2. t \in Txs BY <1>1, Zenon
  <2>3. Transfers(c, t) \subseteq Owners
    BY <1>1, <1>2, <2>2, OutputsOf, Zenon DEF Transfers
  <2> QED BY <2>1, <2>2, <2>3, Zenon DEF Transaction
<1>4. ASSUME NEW i \in processBlockOutputs(c, block, h)
      PROVE  /\ i \in TransactionInput /\ i.blockHeight = h /\ i.spendHeight = 0
             /\ Owner[i.key] \in c.owners
             /\ \E t \in block.txs : i.key \in Out[t]
  <2>1. PICK k : /\ i = [key |-> k, blockHeight |-> h, spendHeight |-> 0]
                 /\ Owner[k] \in c.owners /\ k \in UNION {Out[t] : t \in block.txs}
    BY <1>4, Zenon DEF processBlockOutputs
  <2>2. PICK t \in block.txs : k \in Out[t] BY <2>1, Zenon
  <2>3. k \in Outputs BY <1>1, <2>2, OutputsOf, Zenon
  <2>4. 0 \in 0..MaxHeight BY ContainerAssumption
  <2>5. i \in TransactionInput BY <2>1, <2>3, <2>4, Zenon DEF TransactionInput
  <2>6. i.key = k /\ i.blockHeight = h /\ i.spendHeight = 0 BY <2>1, Zenon
  <2> QED BY <2>1, <2>2, <2>5, <2>6, Zenon
<1> QED BY <1>3, <1>4, Zenon

LEMMA BeginBlockInv ==
    ASSUME SubInv, BeginBlock
    PROVE  SubInv'
<1> DEFINE h == NextHeight
           block == chain[h]
           p == SubSeq(synced, 1, h - 1)
           v == Append(p, block)
           unforked == IF height >= h THEN removeForkedTransactions(w, h) ELSE w
           c == IF IsPruning(h) THEN pruneSpentInputs(unforked, h - Interval) ELSE unforked
           txs == processBlockTransactions(c, block, h)
           inputs == processBlockOutputs(c, block, h)
           spends == (UNION {In[t] : t \in block.txs}) \cap c.keyImageOwners
<1>1. IsIdle /\ ~IsInBlock BY Zenon DEF BeginBlock, IsIdle, IsInBlock
<1>2. /\ h <= Len(chain) /\ w' = c
      /\ sync' = [Asleep EXCEPT !.pc = "block", !.height = h, !.block = block,
                                !.txs = txs, !.inputs = inputs, !.spends = spends]
      /\ UNCHANGED <<daemonVars, statusVars, sendVars, boundVars>>
  BY ZenonT(30) DEF BeginBlock
<1>3. /\ IsChain(synced) /\ WalletInv(w, synced, height, {}) /\ Recognised(w)
      /\ IsChain(chain) /\ Len(chain) <= MaxHeight /\ height \in Nat
  BY <1>1, IdleView, Zenon DEF SubInv, DaemonInv
<1>4. synced \in Seq(Block) /\ chain \in Seq(Block) BY <1>3, Zenon DEF IsChain
<1>5. h \in Nat \ {0} /\ h <= Len(synced) + 1 /\ Agree(synced, chain, h - 1)
  BY <1>4, NextHeightFacts, Zenon
<1> HIDE DEF h
<1>6. h \in Heights BY <1>2, <1>3, <1>4, <1>5, ContainerAssumption DEF Heights
<1>7. IsChain(v) /\ block \in Block BY <1>2, <1>3, <1>4, <1>5, ViewIsChain, Zenon
<1>8. /\ v \in Seq(Block) /\ Len(v) = h /\ v[h] = block
      /\ p \in Seq(Block) /\ Len(p) = h - 1 /\ Agree(v, p, h - 1) /\ Agree(synced, p, h - 1)
  BY <1>4, <1>5, <1>7, ViewFacts, Zenon
<1> HIDE DEF block, p, v
<1>9. WalletInv(unforked, p, h - 1, {}) /\ Recognised(unforked)
  <2>1. CASE height >= h
    <3>1. unforked = removeForkedTransactions(w, h) BY <2>1, Zenon
    <3> HIDE DEF unforked
    <3> QED BY <1>3, <1>5, <1>8, <3>1, ForkedInv, Zenon
  <2>2. CASE ~(height >= h)
    <3>1. unforked = w BY <2>2, Zenon
    <3>2. height < h BY <1>3, <1>5, <2>2
    <3> HIDE DEF unforked
    <3> QED BY <1>3, <1>5, <1>8, <3>1, <3>2, NoForkInv, Zenon
  <2> QED BY <2>1, <2>2, Zenon
<1> HIDE DEF unforked
<1>10. WalletInv(c, p, h - 1, {}) /\ Recognised(c) /\ c \in Container
  <2>1. unforked \in Container /\ unforked.unspent \cap unforked.locked = {}
    BY <1>9, Zenon DEF WalletInv, ListInv
  <2>2. CASE IsPruning(h)
    <3>1. c = pruneSpentInputs(unforked, h - Interval) BY <2>2, Zenon
    <3> HIDE DEF c
    <3>2. /\ c \in Container /\ c.owners = unforked.owners /\ c.locked = unforked.locked
          /\ c.unspent = unforked.unspent /\ c.spent \subseteq unforked.spent
          /\ c.transactions = unforked.transactions
          /\ c.keyImageOwners = unforked.keyImageOwners
      BY <2>1, <3>1, PruneFields, Zenon
    <3>3. Moved(unforked, c) BY <2>1, <3>2, SameListsMove, Zenon
    <3> QED BY <1>9, <3>2, <3>3, MovedInv, Zenon
  <2>3. CASE ~IsPruning(h) BY <1>9, <2>1, <2>3, Zenon
  <2> QED BY <2>2, <2>3, Zenon
<1> HIDE DEF c
<1>11. \A k \in c.keyImageOwners : (\E t \in v[h].txs : k \in In[t]) => k \in spends
  <2>1. v[h] = block BY <1>8, Zenon
  <2>2. \A k \in c.keyImageOwners : (\E t \in block.txs : k \in In[t]) => k \in spends
    BY Zenon
  <2> QED BY ONLY <2>1, <2>2, Zenon
<1>12. \A k \in spends : \E t \in block.txs : k \in In[t] BY Zenon
<1>13. spends \subseteq Outputs
  <2>1. c.keyImageOwners \subseteq Outputs BY <1>10, ListedFacts, Zenon
  <2> QED BY <2>1, Zenon
<1> HIDE DEF spends
<1>14. WalletInv(c, v, h, spends) /\
       \A k : (\E t \in block.txs : k \in Out[t]) => k \notin Keys(Listed(c))
  <2>1. v[h] = block BY <1>8, Zenon
  <2>2. /\ WalletInv(c, v, h, spends)
        /\ \A k : (\E t \in v[h].txs : k \in Out[t]) => k \notin Keys(Listed(c))
    BY <1>5, <1>7, <1>8, <1>10, <1>11, ExtendInv, Zenon
  <2> QED BY <2>1, <2>2, Zenon
<1>15. /\ \A tx \in txs : tx \in Transaction /\ tx.blockHeight = h /\ tx.hash \in block.txs
       /\ \A i \in inputs : /\ i \in TransactionInput /\ i.blockHeight = h /\ i.spendHeight = 0
                            /\ Owner[i.key] \in c.owners
                            /\ \E t \in block.txs : i.key \in Out[t]
  BY ONLY <1>6, <1>7, <1>10, BlockRecords
<1> HIDE DEF txs, inputs
<1>16. /\ sync'.pc = "block" /\ sync'.height = h /\ sync'.block = block /\ sync'.txs = txs
       /\ sync'.inputs = inputs /\ sync'.spends = spends
       /\ sync' \in SyncRecord
  BY <1>2, <1>5, <1>7, <1>13, <1>15, Zenon DEF Asleep, SyncRecord
<1>17. synced' = synced BY <1>2, Zenon DEF statusVars
<1>18. IsInBlock' /\ View' = v /\ Top' = h /\ Pending' = spends
  BY <1>16, <1>17, Zenon DEF IsInBlock, View, Top, Pending, v, p
<1>19. BlockInv'
  BY <1>2, <1>5, <1>6, <1>7, <1>12, <1>14, <1>15, <1>16, <1>17, Zenon DEF BlockInv
<1>20. SyncInv' BY <1>16, <1>19, Zenon DEF SyncInv
<1>21. DaemonInv' /\ SendInv' /\ SavedInv' /\ from' \in Nat /\ height' \in Nat
       /\ synced' \in Seq(Block)
  BY <1>2, Frame, Zenon DEF boundVars
<1>22. IsChain(View') /\ WalletInv(w', View', Top', Pending') /\ Recognised(w')
  BY <1>2, <1>7, <1>10, <1>14, <1>18, Zenon
<1> QED BY <1>20, <1>21, <1>22, Zenon DEF SubInv

LEMMA AddTransactionKeeps ==
    ASSUME NEW v, NEW h \in DOMAIN v, h <= h, NEW c, NEW pending, WalletInv(c, v, h, pending),
           NEW tx \in Transaction, tx.blockHeight = h, tx.hash \in v[h].txs
    PROVE  LET d == addTransaction(c, tx)
           IN  /\ WalletInv(d, v, h, pending) /\ d.owners = c.owners
               /\ Listed(d) = Listed(c) /\ d.keyImageOwners = c.keyImageOwners
<1> DEFINE d == addTransaction(c, tx)
           more == IF \E t \in c.transactions : t.hash = tx.hash THEN {} ELSE {tx}
<1>1. /\ c \in Container /\ Primary \in c.owners /\ ListInv(c, v, h)
      /\ HistoryInv(c, v, h) /\ NotSpentInv(c, v, h, pending)
  BY Zenon DEF WalletInv
<1>2. /\ d \in Container /\ d.owners = c.owners /\ d.locked = c.locked
      /\ d.unspent = c.unspent /\ d.spent = c.spent
      /\ d.transactions = c.transactions \cup more
      /\ d.keyImageOwners = c.keyImageOwners
  BY <1>1, AddTransactionFields, Zenon
<1>3. \A x \in more : x = tx /\ \A t \in c.transactions : t.hash # x.hash BY Zenon
<1> HIDE DEF d, more
<1>4. Listed(d) = Listed(c) BY <1>2, Zenon DEF Listed
<1>5. ListInv(d, v, h) BY <1>1, <1>2, <1>4, Zenon DEF ListInv
<1>6. NotSpentInv(d, v, h, pending) BY <1>1, <1>2, Zenon DEF NotSpentInv
<1>7. HistoryInv(d, v, h)
  <2>1. ASSUME NEW x \in d.transactions
        PROVE  x.blockHeight <= h /\ x.blockHeight \in DOMAIN v /\ x.hash \in v[x.blockHeight].txs
    <3>1. CASE x \in c.transactions BY <1>1, <3>1, Zenon DEF HistoryInv
    <3>2. CASE x = tx BY <3>2, Zenon
    <3> QED BY <1>2, <1>3, <3>1, <3>2, Zenon
  <2>2. \A x, y \in d.transactions : x.hash = y.hash => x = y
    BY <1>1, <1>2, <1>3, Zenon DEF HistoryInv
  <2> QED BY <2>1, <2>2, Zenon DEF HistoryInv
<1>8. WalletInv(d, v, h, pending) BY <1>1, <1>2, <1>5, <1>6, <1>7, Zenon DEF WalletInv
<1> QED BY <1>2, <1>4, <1>8, Zenon DEF d

LEMMA StoreInputKeeps ==
    ASSUME NEW v, IsChain(v), NEW h \in Nat, Len(v) = h, NEW c, NEW pending,
           WalletInv(c, v, h, pending), Recognised(c),
           NEW i \in TransactionInput, i.blockHeight = h, i.spendHeight = 0,
           Owner[i.key] \in c.owners, Created(v, i.key, h), i.key \notin Keys(Listed(c))
    PROVE  LET d == storeTransactionInput(c, i)
           IN  /\ WalletInv(d, v, h, pending) /\ Recognised(d) /\ d.owners = c.owners
               /\ Listed(d) = Listed(c) \cup {i}
<1> DEFINE d == storeTransactionInput(c, i)
<1>1. /\ c \in Container /\ Primary \in c.owners /\ ListInv(c, v, h)
      /\ HistoryInv(c, v, h) /\ NotSpentInv(c, v, h, pending)
  BY Zenon DEF WalletInv
<1>2. \A j \in Listed(c) : j.key # i.key BY Zenon DEF Keys
<1>3. i.key \notin Keys(c.unspent) BY <1>2, Zenon DEF Keys, Listed
<1>4. /\ d \in Container /\ d.owners = c.owners /\ d.locked = c.locked
      /\ d.unspent = c.unspent \cup {i}
      /\ d.spent = c.spent /\ d.transactions = c.transactions
      /\ d.keyImageOwners = c.keyImageOwners \cup {i.key}
  BY <1>1, <1>3, StoreInputFields, Zenon
<1> HIDE DEF d
<1>5. Listed(d) = Listed(c) \cup {i} BY <1>4, Zenon DEF Listed
<1>6. ListInv(d, v, h)
  <2>1. h <= h OBVIOUS
  <2>2. \A j \in Listed(d) : /\ j.blockHeight <= h /\ Created(v, j.key, j.blockHeight)
                             /\ Owner[j.key] \in d.owners
    BY <1>1, <1>4, <1>5, <2>1, Zenon DEF ListInv
  <2>3. \A j, k \in Listed(d) : j.key = k.key => j = k BY <1>1, <1>2, <1>5, Zenon DEF ListInv
  <2>4. d.unspent \cap d.locked = {}
    BY <1>1, <1>2, <1>4, Zenon DEF ListInv, Listed
  <2> QED BY <1>1, <1>4, <2>2, <2>3, <2>4, Zenon DEF ListInv
<1>7. HistoryInv(d, v, h) BY <1>1, <1>4, Zenon DEF HistoryInv
<1>8. ASSUME NEW g \in DOMAIN v, SpentAt(v, i.key, g) PROVE FALSE
  <2>1. i.key \in Outputs BY Zenon DEF TransactionInput
  <2>2. PICK f \in DOMAIN v : f < g /\ Created(v, i.key, f) BY <1>8, <2>1, Zenon DEF IsChain
  <2>3. f = h BY <2>2, CreatedOnce, Zenon
  <2>4. v \in Seq(Block) BY Zenon DEF IsChain
  <2> QED BY <2>2, <2>3, <2>4
<1>9. NotSpentInv(d, v, h, pending) BY <1>1, <1>4, <1>8, Zenon DEF NotSpentInv
<1>10. Recognised(d) BY <1>4, <1>5, Zenon DEF Recognised, Keys
<1>11. WalletInv(d, v, h, pending) BY <1>1, <1>4, <1>6, <1>7, <1>9, Zenon DEF WalletInv
<1> QED BY <1>4, <1>5, <1>10, <1>11, Zenon DEF d

LEMMA MarkSpentKeeps ==
    ASSUME NEW v, NEW h \in Heights, h <= h, NEW c, NEW pending,
           WalletInv(c, v, h, pending), Recognised(c), NEW k, SpentAt(v, k, h)
    PROVE  LET d == markInputAsSpent(c, k, h)
           IN  /\ WalletInv(d, v, h, pending \ {k}) /\ Recognised(d) /\ d.owners = c.owners
<1> DEFINE d == markInputAsSpent(c, k, h)
           found == Found(c, k)
           more == Marked(c, k, h)
<1>1. /\ c \in Container /\ Primary \in c.owners /\ ListInv(c, v, h)
      /\ HistoryInv(c, v, h) /\ NotSpentInv(c, v, h, pending)
  BY Zenon DEF WalletInv
<1>2. /\ d \in Container /\ d.owners = c.owners
      /\ d.unspent = c.unspent \ found /\ d.locked = c.locked \ found
      /\ d.spent = c.spent \cup more
      /\ d.transactions = c.transactions /\ d.keyImageOwners = c.keyImageOwners
  BY <1>1, MarkSpentFields
<1>3. /\ c.unspent \subseteq Listed(c) /\ c.locked \subseteq Listed(c)
      /\ c.spent \subseteq Listed(c) /\ Listed(c) \subseteq TransactionInput
      /\ \A i, j \in Listed(c) : i.key = j.key => i = j
      /\ c.unspent \cap c.locked = {}
  BY <1>1, ListedFacts, Zenon DEF ListInv
<1>4. \A i \in found : i \in c.unspent \cup c.locked /\ i.key = k BY Zenon DEF Found, WithKey
<1>5. ASSUME NEW i \in c.unspent \cup c.locked, i.key = k PROVE i \in found
  <2>1. CASE k \in Keys(c.unspent)
    <3>1. PICK j \in c.unspent : j.key = k BY <2>1, Zenon DEF Keys
    <3>2. i = j BY <1>3, <1>5, <3>1, Zenon
    <3> QED BY <2>1, <3>1, <3>2, Zenon DEF Found, WithKey
  <2>2. CASE k \notin Keys(c.unspent)
    <3>1. i \in c.locked BY <1>5, <2>2, Zenon DEF Keys
    <3> QED BY <1>5, <2>2, <3>1, Zenon DEF Found, WithKey
  <2> QED BY <2>1, <2>2, Zenon
<1>6. \A x \in more : \E i \in found : x = [i EXCEPT !.spendHeight = h] /\ k \notin Keys(c.spent)
  BY Zenon DEF Marked
<1> HIDE DEF d, found, more
<1>7. ASSUME NEW i \in found, NEW x, x = [i EXCEPT !.spendHeight = h]
      PROVE  x.key = k /\ x.blockHeight = i.blockHeight /\ x.spendHeight = h /\ i \in Listed(c)
  <2>1. i \in TransactionInput /\ i.key = k /\ i \in Listed(c) BY <1>3, <1>4, Zenon
  <2> QED BY <1>7, <2>1, Zenon DEF TransactionInput
<1>8. \A x \in Listed(d) : x \in Listed(c) \/ x \in more BY <1>2, <1>3, Zenon DEF Listed
<1>9. ASSUME NEW x \in Listed(d)
      PROVE  \E i \in Listed(c) : x.key = i.key /\ x.blockHeight = i.blockHeight
  <2>1. CASE x \in more
    <3>1. PICK i \in found : x = [i EXCEPT !.spendHeight = h] BY <1>6, <2>1, Zenon
    <3>2. i.key = k BY <1>4, Zenon
    <3> QED BY <1>7, <3>1, <3>2, Zenon
  <2> QED BY <1>8, <2>1, Zenon
<1>10. ListInv(d, v, h)
  <2>1. ASSUME NEW x \in Listed(d)
        PROVE  /\ x.blockHeight <= h /\ Created(v, x.key, x.blockHeight)
               /\ Owner[x.key] \in d.owners
    <3>1. PICK i \in Listed(c) : x.key = i.key /\ x.blockHeight = i.blockHeight BY <1>9, Zenon
    <3>2. /\ i.blockHeight <= h /\ Created(v, i.key, i.blockHeight)
          /\ Owner[i.key] \in c.owners
      BY <1>1, Zenon DEF ListInv
    <3> QED BY <1>2, <3>1, <3>2, Zenon
  <2>2. ASSUME NEW x \in d.spent PROVE x.spendHeight <= h /\ SpentAt(v, x.key, x.spendHeight)
    <3>1. CASE x \in c.spent BY <1>1, <3>1, Zenon DEF ListInv
    <3>2. CASE x \in more
      <4>1. PICK i \in found : x = [i EXCEPT !.spendHeight = h] BY <1>6, <3>2, Zenon
      <4>2. x.key = k /\ x.spendHeight = h BY <1>7, <4>1, Zenon
      <4> QED BY <4>2, Zenon
    <3> QED BY <1>2, <3>1, <3>2, Zenon
  <2>3. \A x \in d.unspent \cup d.locked : x.spendHeight = 0 BY <1>1, <1>2, Zenon DEF ListInv
  <2>4. ASSUME NEW x \in more, NEW y \in Listed(d), x.key = y.key PROVE x = y
    <3>1. PICK i \in found : x = [i EXCEPT !.spendHeight = h] /\ k \notin Keys(c.spent)
      BY <1>6, Zenon
    <3>2. x.key = k /\ i \in Listed(c) /\ i.key = k BY <1>4, <1>7, <3>1, Zenon
    <3>3. CASE y \in more
      <4>1. PICK j \in found : y = [j EXCEPT !.spendHeight = h] BY <1>6, <3>3, Zenon
      <4>2. j \in Listed(c) /\ j.key = k BY <1>4, <1>7, <4>1, Zenon
      <4>3. i = j BY <1>3, <3>2, <4>2, Zenon
      <4> QED BY <3>1, <4>1, <4>3, Zenon
    <3>4. CASE y \in c.spent BY <2>4, <3>1, <3>2, <3>4, Zenon DEF Keys
    <3>5. CASE y \in d.unspent \cup d.locked
      <4>1. y \in c.unspent \cup c.locked /\ y \notin found BY <1>2, <3>5, Zenon
      <4> QED BY <1>5, <2>4, <3>2, <4>1, Zenon
    <3> QED BY <1>2, <3>3, <3>4, <3>5, Zenon DEF Listed
  <2>5. \A x, y \in Listed(d) : x.key = y.key => x = y BY <1>3, <1>8, <2>4, Zenon
  <2>6. d.unspent \cap d.locked = {} BY <1>2, <1>3, Zenon
  <2> QED BY <2>1, <2>2, <2>3, <2>5, <2>6, Zenon DEF ListInv
<1>11. HistoryInv(d, v, h) BY <1>1, <1>2, Zenon DEF HistoryInv
<1>12. NotSpentInv(d, v, h, pending \ {k})
  <2>1. ASSUME NEW i \in d.unspent \cup d.locked, NEW g \in DOMAIN v, SpentAt(v, i.key, g)
        PROVE  g = h /\ i.key \in pending \ {k}
    <3>1. i \in c.unspent \cup c.locked /\ i \notin found BY <1>2, Zenon
    <3>2. g = h /\ i.key \in pending BY <1>1, <2>1, <3>1, Zenon DEF NotSpentInv
    <3> QED BY <1>5, <3>1, <3>2, Zenon
  <2> QED BY <2>1, Zenon DEF NotSpentInv
<1>13. Recognised(d) BY <1>2, <1>9, Zenon DEF Recognised, Keys
<1>14. WalletInv(d, v, h, pending \ {k})
  BY <1>1, <1>2, <1>10, <1>11, <1>12, Zenon DEF WalletInv
<1> QED BY <1>2, <1>13, <1>14, Zenon DEF d

\* What the invariant says while a block is applied.
LEMMA InBlockView ==
    ASSUME SubInv, IsInBlock
    PROVE  /\ sync.height \in Heights /\ sync.height \in Nat /\ sync.height <= sync.height
           /\ sync.height \in DOMAIN View /\ Len(View) = sync.height
           /\ View[sync.height] = sync.block /\ IsChain(View)
           /\ WalletInv(w, View, sync.height, sync.spends) /\ Recognised(w)
           /\ BlockInv /\ sync \in SyncRecord
<1>1. /\ sync \in SyncRecord /\ BlockInv /\ synced \in Seq(Block)
      /\ IsChain(View) /\ WalletInv(w, View, Top, Pending) /\ Recognised(w)
  BY Zenon DEF SubInv, SyncInv
<1>2. /\ View = Append(SubSeq(synced, 1, sync.height - 1), sync.block)
      /\ Top = sync.height /\ Pending = sync.spends
  BY Zenon DEF View, Top, Pending
<1>3. sync.height \in Heights /\ sync.height <= Len(synced) + 1 /\ sync.block \in Block
  BY <1>1, Zenon DEF BlockInv
<1>4. sync.height \in Nat \ {0} /\ sync.height <= sync.height /\ sync.height \in 1..sync.height
  BY <1>3, ContainerAssumption DEF Heights
<1>5. /\ Len(View) = sync.height /\ View[sync.height] = sync.block
      /\ DOMAIN View = 1..sync.height
  <2>1. LET v == Append(SubSeq(synced, 1, sync.height - 1), sync.block)
        IN  Len(v) = sync.height /\ v[sync.height] = sync.block /\ DOMAIN v = 1..sync.height
    BY <1>1, <1>3, <1>4, ViewFacts
  <2> QED BY <1>2, <2>1, Zenon
<1>6. sync.height \in DOMAIN View BY <1>4, <1>5, Zenon
<1> QED BY <1>1, <1>2, <1>3, <1>4, <1>5, <1>6, Zenon

\* A step between two calls of a block leaves the view alone.
LEMMA SameView ==
    ASSUME IsInBlock, IsInBlock', sync'.height = sync.height, sync'.block = sync.block,
           synced' = synced
    PROVE  View' = View /\ Top' = sync.height /\ Pending' = sync'.spends
  BY Zenon DEF View, Top, Pending

LEMMA AddTransactionInv ==
    ASSUME SubInv, AddTransaction
    PROVE  SubInv'
<1>1. IsInBlock BY Zenon DEF AddTransaction, IsInBlock
<1>2. PICK tx \in sync.txs :
        /\ w' = addTransaction(w, tx) /\ sync' = [sync EXCEPT !.txs = @ \ {tx}]
        /\ UNCHANGED <<daemonVars, statusVars, sendVars, boundVars>>
  BY Zenon DEF AddTransaction
<1>3. /\ sync.height \in DOMAIN View /\ sync.height <= sync.height
      /\ View[sync.height] = sync.block /\ IsChain(View)
      /\ WalletInv(w, View, sync.height, sync.spends) /\ Recognised(w)
      /\ BlockInv /\ sync \in SyncRecord
  BY <1>1, InBlockView, Zenon
<1>4. tx \in Transaction /\ tx.blockHeight = sync.height /\ tx.hash \in sync.block.txs
  BY <1>3, Zenon DEF BlockInv
<1>5. /\ WalletInv(w', View, sync.height, sync.spends) /\ w'.owners = w.owners
      /\ Listed(w') = Listed(w) /\ w'.keyImageOwners = w.keyImageOwners
  <2>1. LET d == addTransaction(w, tx)
        IN  /\ WalletInv(d, View, sync.height, sync.spends) /\ d.owners = w.owners
            /\ Listed(d) = Listed(w) /\ d.keyImageOwners = w.keyImageOwners
    BY <1>3, <1>4, AddTransactionKeeps
  <2> QED BY <1>2, <2>1, Zenon
<1>6. /\ sync' \in SyncRecord /\ sync'.pc = sync.pc /\ sync'.height = sync.height
      /\ sync'.block = sync.block /\ sync'.txs = sync.txs \ {tx}
      /\ sync'.inputs = sync.inputs /\ sync'.spends = sync.spends
  BY <1>2, <1>3, Zenon DEF SyncRecord
<1>7. IsInBlock' /\ synced' = synced BY <1>1, <1>2, <1>6, Zenon DEF IsInBlock, statusVars
<1>8. View' = View /\ Top' = sync.height /\ Pending' = sync.spends
  BY <1>1, <1>6, <1>7, SameView, Zenon
<1>9. BlockInv' BY <1>3, <1>5, <1>6, <1>7, Zenon DEF BlockInv
<1>10. SyncInv' BY <1>6, <1>9, Zenon DEF SyncInv
<1>11. /\ DaemonInv' /\ SendInv' /\ SavedInv' /\ from' \in Nat /\ height' \in Nat
       /\ synced' \in Seq(Block)
  BY <1>2, Frame, Zenon DEF boundVars
<1>12. Recognised(w') BY <1>3, <1>5, Zenon DEF Recognised
<1>13. IsChain(View') /\ WalletInv(w', View', Top', Pending') BY <1>3, <1>5, <1>8, Zenon
<1> QED BY <1>10, <1>11, <1>12, <1>13, Zenon DEF SubInv

LEMMA StoreTransactionInputInv ==
    ASSUME SubInv, StoreTransactionInput
    PROVE  SubInv'
<1>1. IsInBlock BY Zenon DEF StoreTransactionInput, IsInBlock
<1>2. PICK i \in sync.inputs :
        /\ w' = storeTransactionInput(w, i) /\ sync' = [sync EXCEPT !.inputs = @ \ {i}]
        /\ UNCHANGED <<daemonVars, statusVars, sendVars, boundVars>>
  BY Zenon DEF StoreTransactionInput
<1>3. /\ sync.height \in DOMAIN View /\ sync.height \in Nat /\ Len(View) = sync.height
      /\ View[sync.height] = sync.block /\ IsChain(View)
      /\ WalletInv(w, View, sync.height, sync.spends) /\ Recognised(w)
      /\ BlockInv /\ sync \in SyncRecord
  BY <1>1, InBlockView, Zenon
<1>4. /\ i \in TransactionInput /\ i.blockHeight = sync.height /\ i.spendHeight = 0
      /\ Owner[i.key] \in w.owners /\ i.key \notin Keys(Listed(w))
      /\ \E t \in sync.block.txs : i.key \in Out[t]
  BY <1>3, Zenon DEF BlockInv
<1>5. Created(View, i.key, sync.height) BY <1>3, <1>4, Zenon DEF Created
<1>6. /\ WalletInv(w', View, sync.height, sync.spends) /\ Recognised(w')
      /\ w'.owners = w.owners /\ Listed(w') = Listed(w) \cup {i}
  <2>1. LET d == storeTransactionInput(w, i)
        IN  /\ WalletInv(d, View, sync.height, sync.spends) /\ Recognised(d)
            /\ d.owners = w.owners /\ Listed(d) = Listed(w) \cup {i}
    BY <1>3, <1>4, <1>5, StoreInputKeeps
  <2> QED BY <1>2, <2>1, Zenon
<1>7. /\ sync' \in SyncRecord /\ sync'.pc = sync.pc /\ sync'.height = sync.height
      /\ sync'.block = sync.block /\ sync'.txs = sync.txs
      /\ sync'.inputs = sync.inputs \ {i} /\ sync'.spends = sync.spends
  BY <1>2, <1>3, Zenon DEF SyncRecord
<1>8. IsInBlock' /\ synced' = synced BY <1>1, <1>2, <1>7, Zenon DEF IsInBlock, statusVars
<1>9. View' = View /\ Top' = sync.height /\ Pending' = sync.spends
  BY <1>1, <1>7, <1>8, SameView, Zenon
<1>10. ASSUME NEW j \in sync'.inputs PROVE j.key \notin Keys(Listed(w'))
  <2>1. /\ j \in sync.inputs /\ j # i BY <1>7, <1>10, Zenon
  <2>2. /\ j \in TransactionInput /\ j.blockHeight = i.blockHeight
        /\ j.spendHeight = i.spendHeight /\ j.key \notin Keys(Listed(w))
    BY <1>3, <1>4, <2>1, Zenon DEF BlockInv
  <2>3. j.key # i.key BY <1>4, <2>1, <2>2 DEF TransactionInput
  <2> QED BY <1>6, <2>2, <2>3, Zenon DEF Keys
<1>11. BlockInv' BY <1>3, <1>6, <1>7, <1>8, <1>10, Zenon DEF BlockInv
<1>12. SyncInv' BY <1>7, <1>11, Zenon DEF SyncInv
<1>13. /\ DaemonInv' /\ SendInv' /\ SavedInv' /\ from' \in Nat /\ height' \in Nat
       /\ synced' \in Seq(Block)
  BY <1>2, Frame, Zenon DEF boundVars
<1>14. IsChain(View') /\ WalletInv(w', View', Top', Pending') BY <1>3, <1>6, <1>9, Zenon
<1> QED BY <1>6, <1>12, <1>13, <1>14, Zenon DEF SubInv

LEMMA MarkInputAsSpentInv ==
    ASSUME SubInv, MarkInputAsSpent
    PROVE  SubInv'
<1>1. IsInBlock /\ sync.inputs = {} BY Zenon DEF MarkInputAsSpent, IsInBlock
<1>2. PICK k \in sync.spends :
        /\ w' = markInputAsSpent(w, k, sync.height) /\ sync' = [sync EXCEPT !.spends = @ \ {k}]
        /\ UNCHANGED <<daemonVars, statusVars, sendVars, boundVars>>
  BY Zenon DEF MarkInputAsSpent
<1>3. /\ sync.height \in DOMAIN View /\ sync.height \in Heights /\ sync.height <= sync.height
      /\ View[sync.height] = sync.block /\ IsChain(View)
      /\ WalletInv(w, View, sync.height, sync.spends) /\ Recognised(w)
      /\ BlockInv /\ sync \in SyncRecord
  BY <1>1, InBlockView, Zenon
<1>4. SpentAt(View, k, sync.height)
  <2>1. \E t \in sync.block.txs : k \in In[t] BY <1>3, Zenon DEF BlockInv
  <2> QED BY <1>3, <2>1, Zenon DEF SpentAt
<1>5. /\ WalletInv(w', View, sync.height, sync.spends \ {k}) /\ Recognised(w')
      /\ w'.owners = w.owners
  <2>1. LET d == markInputAsSpent(w, k, sync.height)
        IN  /\ WalletInv(d, View, sync.height, sync.spends \ {k}) /\ Recognised(d)
            /\ d.owners = w.owners
    BY <1>3, <1>4, MarkSpentKeeps
  <2> QED BY <1>2, <2>1, Zenon
<1>6. /\ sync' \in SyncRecord /\ sync'.pc = sync.pc /\ sync'.height = sync.height
      /\ sync'.block = sync.block /\ sync'.txs = sync.txs
      /\ sync'.inputs = sync.inputs /\ sync'.spends = sync.spends \ {k}
  BY <1>2, <1>3, Zenon DEF SyncRecord
<1>7. IsInBlock' /\ synced' = synced BY <1>1, <1>2, <1>6, Zenon DEF IsInBlock, statusVars
<1>8. View' = View /\ Top' = sync.height /\ Pending' = sync.spends \ {k}
  BY <1>1, <1>6, <1>7, SameView, Zenon
<1>9. BlockInv' BY <1>1, <1>3, <1>5, <1>6, <1>7, Zenon DEF BlockInv
<1>10. SyncInv' BY <1>6, <1>9, Zenon DEF SyncInv
<1>11. /\ DaemonInv' /\ SendInv' /\ SavedInv' /\ from' \in Nat /\ height' \in Nat
       /\ synced' \in Seq(Block)
  BY <1>2, Frame, Zenon DEF boundVars
<1>12. IsChain(View') /\ WalletInv(w', View', Top', Pending') BY <1>3, <1>5, <1>8, Zenon
<1> QED BY <1>5, <1>10, <1>11, <1>12, Zenon DEF SubInv

LEMMA AsleepFacts ==
    /\ Asleep \in SyncRecord /\ Asleep.pc = "idle" /\ NoTransfer.pc = "idle"
    /\ NoTransfer \in SendRecord
  BY Zenon DEF Asleep, NoTransfer, SyncRecord, SendRecord, Block

LEMMA DropBlockInv ==
    ASSUME SubInv, DropBlock
    PROVE  SubInv'
<1>1. IsInBlock BY Zenon DEF DropBlock, IsInBlock
<1>2. /\ sync.spends = {} /\ height' = sync.height /\ sync' = Asleep /\ w' = w
      /\ synced' = Append(SubSeq(synced, 1, sync.height - 1), sync.block)
      /\ UNCHANGED <<daemonVars, from, sendVars, boundVars>>
  BY Zenon DEF DropBlock
<1>3. /\ sync.height \in Nat /\ IsChain(View)
      /\ WalletInv(w, View, sync.height, sync.spends) /\ Recognised(w)
  BY <1>1, InBlockView, Zenon
<1>4. synced' = View BY <1>1, <1>2, Zenon DEF View
<1>5. ~IsInBlock' /\ sync' \in SyncRecord BY <1>2, AsleepFacts, Zenon DEF IsInBlock
<1>6. View' = View /\ Top' = sync.height /\ Pending' = {}
  BY <1>2, <1>4, <1>5, Zenon DEF View, Top, Pending
<1>7. SyncInv' BY <1>5, Zenon DEF SyncInv
<1>8. DaemonInv' /\ SendInv' /\ SavedInv' BY <1>2, Frame, Zenon DEF boundVars
<1>9. from' \in Nat /\ height' \in Nat /\ synced' \in Seq(Block)
  BY <1>2, <1>3, <1>4, Zenon DEF SubInv, IsChain
<1>10. IsChain(View') /\ WalletInv(w', View', Top', Pending') /\ Recognised(w')
  BY <1>2, <1>3, <1>6, Zenon
<1> QED BY <1>7, <1>8, <1>9, <1>10, Zenon DEF SubInv

\* A step outside a block that leaves the status alone.
LEMMA IdleStep ==
    ASSUME SubInv, ~IsInBlock, sync' \in SyncRecord, sync'.pc # "block",
           height' = height, synced' = synced,
           WalletInv(w', synced, height, {})
    PROVE  /\ SyncInv' /\ IsChain(View') /\ WalletInv(w', View', Top', Pending')
<1>1. IsChain(synced) BY IdleView, Zenon
<1>2. ~IsInBlock' BY Zenon DEF IsInBlock
<1>3. View' = synced /\ Top' = height /\ Pending' = {}
  BY <1>2, Zenon DEF View, Top, Pending
<1>4. SyncInv' BY <1>2, Zenon DEF SyncInv
<1> QED BY <1>1, <1>3, <1>4, Zenon

LEMMA CheckLockedTransactionsInv ==
    ASSUME SubInv, CheckLockedTransactions \/ GetTransactionsStatus
    PROVE  SubInv'
<1>1. /\ ~IsInBlock /\ w' = w /\ sync.pc # "block"
      /\ UNCHANGED <<daemonVars, statusVars, sendVars, boundVars>>
  BY Zenon DEF CheckLockedTransactions, GetTransactionsStatus, IsIdle, IsInBlock
<1>2. /\ sync \in SyncRecord /\ w \in Container /\ WalletInv(w, synced, height, {})
      /\ Recognised(w)
  BY <1>1, IdleView, Zenon DEF SubInv, SyncInv, WalletInv
<1>3. sync' \in SyncRecord /\ sync'.pc # "block"
  <2>1. CASE CheckLockedTransactions
    <3> DEFINE hashes == {t.hash : t \in w.lockedTransactions}
    <3>1. sync' = [Asleep EXCEPT !.pc = "status", !.hashes = hashes]
      BY <2>1, Zenon DEF CheckLockedTransactions
    <3>2. hashes \subseteq Txs
      <4>1. w.lockedTransactions \subseteq LockedTransaction BY <1>2, Zenon DEF Container
      <4>2. \A t \in LockedTransaction : t.hash \in Txs BY Zenon DEF LockedTransaction
      <4> QED BY <4>1, <4>2, Zenon
    <3> HIDE DEF hashes
    <3> QED BY <3>1, <3>2, AsleepFacts, Zenon DEF SyncRecord
  <2>2. CASE GetTransactionsStatus
    <3>1. PICK unknown \in {sync.hashes \ (pool \cup TxsOf(chain)), {}} :
            sync' = IF unknown = {} THEN Asleep
                    ELSE [sync EXCEPT !.pc = "cancel", !.hashes = unknown]
      BY <2>2, Zenon DEF GetTransactionsStatus
    <3>2. unknown \subseteq Txs BY <1>2, <3>1, Zenon DEF SyncRecord
    <3>3. CASE unknown = {} BY <3>1, <3>3, AsleepFacts, Zenon
    <3>4. CASE unknown # {}
      <4>1. sync' = [sync EXCEPT !.pc = "cancel", !.hashes = unknown] BY <3>1, <3>4, Zenon
      <4> QED BY ONLY <1>2, <3>2, <4>1, Zenon DEF SyncRecord
    <3> QED BY <3>3, <3>4, Zenon
  <2> QED BY <2>1, <2>2, Zenon
<1>4. height' = height /\ synced' = synced BY <1>1, Zenon DEF statusVars
<1>5. SyncInv' /\ IsChain(View') /\ WalletInv(w', View', Top', Pending')
  BY <1>1, <1>2, <1>3, <1>4, IdleStep, Zenon
<1>6. /\ DaemonInv' /\ SendInv' /\ SavedInv' /\ from' \in Nat /\ height' \in Nat
      /\ synced' \in Seq(Block)
  BY <1>1, Frame, Zenon DEF boundVars
<1> QED BY <1>1, <1>2, <1>5, <1>6, Zenon DEF SubInv

LEMMA RemoveCancelledTransactionsInv ==
    ASSUME SubInv, RemoveCancelledTransactions
    PROVE  SubInv'
<1>1. /\ ~IsInBlock /\ w' = removeCancelledTransactions(w, sync.hashes) /\ sync' = Asleep
      /\ UNCHANGED <<daemonVars, statusVars, sendVars, boundVars>>
  BY Zenon DEF RemoveCancelledTransactions, IsInBlock
<1>2. sync \in SyncRecord /\ WalletInv(w, synced, height, {}) /\ Recognised(w)
  BY <1>1, IdleView, Zenon DEF SubInv, SyncInv
<1>3. sync.hashes \in SUBSET Txs BY <1>2, Zenon DEF SyncRecord
<1>4. Moved(w, w') /\ w'.keyImageOwners = w.keyImageOwners
  BY <1>1, <1>2, <1>3, CancelMoves, Zenon
<1>5. WalletInv(w', synced, height, {}) /\ Recognised(w') BY <1>2, <1>4, MovedInv, Zenon
<1>6. /\ height' = height /\ synced' = synced /\ sync' \in SyncRecord /\ sync'.pc # "block"
  BY <1>1, AsleepFacts, Zenon DEF statusVars
<1>7. SyncInv' /\ IsChain(View') /\ WalletInv(w', View', Top', Pending')
  BY <1>1, <1>5, <1>6, IdleStep, Zenon
<1>8. /\ DaemonInv' /\ SendInv' /\ SavedInv' /\ from' \in Nat /\ height' \in Nat
      /\ synced' \in Seq(Block)
  BY <1>1, Frame, Zenon DEF boundVars
<1> QED BY <1>5, <1>7, <1>8, Zenon DEF SubInv

\* A new process stands where the wallet file does.
LEMMA LoadInv ==
    ASSUME SubInv, Load, UNCHANGED daemonVars, UNCHANGED saved
    PROVE  SubInv'
<1>1. /\ w' = fromJSON(saved.container) /\ from' = saved.from /\ height' = saved.height
      /\ synced' = saved.synced /\ sync' = Asleep /\ send' = NoTransfer /\ prepared' = {}
  BY Zenon DEF Load
<1>2. /\ saved \in [container : Container, from : Nat, height : Nat, synced : Seq(Block)]
      /\ IsChain(saved.synced) /\ WalletInv(saved.container, saved.synced, saved.height, {})
  BY Zenon DEF SubInv, SavedInv
<1>3. from' \in Nat /\ height' \in Nat /\ synced' \in Seq(Block) /\ saved.container \in Container
  BY <1>1, <1>2, Zenon
<1> DEFINE c == saved.container
<1>4. /\ w' \in Container /\ w'.owners = c.owners
      /\ w'.unspent = c.unspent /\ w'.locked = c.locked /\ w'.spent = c.spent
      /\ w'.transactions = c.transactions /\ w'.keyImageOwners = Keys(Listed(c))
  BY <1>1, <1>3, FileFields, Zenon
<1>5. c.unspent \cap c.locked = {} BY <1>2, Zenon DEF WalletInv, ListInv
<1>6. Moved(c, w') BY <1>3, <1>4, <1>5, Zenon DEF Moved
<1>7. WalletInv(w', saved.synced, saved.height, {}) BY <1>2, <1>6, MovedInv, Zenon
<1>8. Recognised(w')
  <2>1. Listed(w') = Listed(c) BY <1>4, Zenon DEF Listed
  <2> QED BY <1>4, <2>1, Zenon DEF Recognised
<1>9. ~IsInBlock' /\ SyncInv' /\ SendInv'
  BY <1>1, AsleepFacts, Zenon DEF IsInBlock, SyncInv, SendInv
<1>10. View' = synced' /\ Top' = height' /\ Pending' = {}
  BY <1>9, Zenon DEF View, Top, Pending
<1>11. IsChain(View') /\ WalletInv(w', View', Top', Pending') BY <1>1, <1>2, <1>7, <1>10, Zenon
<1>12. DaemonInv' /\ SavedInv' BY Frame, Zenon
<1> QED BY <1>3, <1>8, <1>9, <1>11, <1>12, Zenon DEF SubInv

-----------------------------------------------------------------------------
(* The transfer's steps, which fall between the calls of a block. *)

LEMMA MovedStep ==
    ASSUME SubInv, Moved(w, w'), w'.owners = w.owners, w'.keyImageOwners = w.keyImageOwners,
           UNCHANGED <<statusVars, sync, saved>>, DaemonInv', SendInv'
    PROVE  SubInv'
<1>1. /\ SyncInv /\ IsChain(View) /\ WalletInv(w, View, Top, Pending) /\ Recognised(w)
  BY Zenon DEF SubInv
<1>2. sync' = sync /\ synced' = synced /\ height' = height BY Zenon DEF statusVars
<1>3. /\ WalletInv(w', View, Top, Pending) /\ Recognised(w')
      /\ Keys(Listed(w')) \subseteq Keys(Listed(w))
  BY <1>1, MovedInv, Zenon
<1>4. /\ IsInBlock' = IsInBlock /\ View' = View /\ Top' = Top /\ Pending' = Pending
  BY <1>2, Zenon DEF IsInBlock, View, Top, Pending
<1>5. BlockInv => BlockInv' BY <1>2, <1>3, Zenon DEF BlockInv
<1>6. SyncInv' BY <1>1, <1>2, <1>4, <1>5, Zenon DEF SyncInv
<1>7. SavedInv' /\ from' \in Nat /\ height' \in Nat /\ synced' \in Seq(Block)
  BY Frame, Zenon
<1> QED BY <1>1, <1>3, <1>4, <1>6, <1>7, Zenon DEF SubInv

LEMMA SameStep ==
    ASSUME SubInv, UNCHANGED <<w, statusVars, sync, saved>>, DaemonInv', SendInv'
    PROVE  SubInv'
<1>1. w \in Container /\ w.unspent \cap w.locked = {}
  BY Zenon DEF SubInv, WalletInv, ListInv
<1>2. Moved(w, w') BY <1>1, Zenon DEF Moved
<1>3. w'.owners = w.owners /\ w'.keyImageOwners = w.keyImageOwners BY Zenon
<1> QED BY <1>2, <1>3, MovedStep, Zenon

LEMMA TransferFacts ==
    ASSUME SubInv, send.pc # "idle"
    PROVE  /\ Transfer \in Txs /\ In[Transfer] \subseteq Outputs /\ Out[Transfer] \subseteq Outputs
           /\ send \in SendRecord /\ send.tx # {}
<1>1. send \in SendRecord /\ send.tx # {} BY Zenon DEF SubInv, SendInv
<1>2. send.tx \subseteq Txs BY <1>1, Zenon DEF SendRecord
<1>3. Transfer \in send.tx BY <1>1, Zenon DEF Transfer
<1>4. Transfer \in Txs BY <1>2, <1>3, Zenon
<1>5. In[Transfer] \subseteq Outputs /\ Out[Transfer] \subseteq Outputs
  BY <1>4, OutputsOf, Zenon
<1> QED BY <1>1, <1>4, <1>5, Zenon

LEMMA RelayingFacts ==
    ASSUME NEW t \in Txs
    PROVE  Relaying(t) \in SendRecord /\ Relaying(t).tx # {}
  BY Zenon DEF Relaying, NoTransfer, SendRecord

\* Steps that touch neither the container nor the synchronizer.
LEMMA RelayStepInv ==
    ASSUME SubInv, \/ MakeTransaction \/ PrepareTransaction \/ SendPreparedTransaction
                   \/ RelayTransaction \/ RelayFails \/ FinishTransfer
    PROVE  SubInv'
<1>1. UNCHANGED <<w, statusVars, sync, saved>>
  BY Zenon DEF MakeTransaction, PrepareTransaction, SendPreparedTransaction,
     RelayTransaction, RelayFails, FinishTransfer, boundVars
<1>2. /\ send \in SendRecord /\ prepared \subseteq Txs /\ pool \subseteq Txs /\ DaemonInv
      /\ (send.pc # "idle" => send.tx # {})
  BY Zenon DEF SubInv, SendInv, DaemonInv
<1>3. NoTransfer \in SendRecord /\ NoTransfer.pc = "idle" BY AsleepFacts, Zenon
<1>4. CASE MakeTransaction
  <2>1. PICK t \in Txs : send' = Relaying(t) /\ prepared' = prepared /\ UNCHANGED daemonVars
    BY <1>4, Zenon DEF MakeTransaction
  <2>2. SendInv' BY <1>2, <2>1, RelayingFacts, Zenon DEF SendInv
  <2> QED BY <1>1, <2>1, <2>2, Frame, SameStep, Zenon
<1>5. CASE PrepareTransaction
  <2>1. PICK t \in Txs : prepared' = prepared \cup {t} /\ send' = send /\ UNCHANGED daemonVars
    BY <1>5, Zenon DEF PrepareTransaction
  <2>2. SendInv' BY <1>2, <2>1, Zenon DEF SendInv
  <2> QED BY <1>1, <2>1, <2>2, Frame, SameStep, Zenon
<1>6. CASE SendPreparedTransaction
  <2>1. UNCHANGED daemonVars BY <1>6, Zenon DEF SendPreparedTransaction
  <2>2. PICK t \in prepared : \/ send' = Relaying(t) /\ prepared' = prepared
                              \/ prepared' = prepared \ {t} /\ send' = send
    BY <1>6, Zenon DEF SendPreparedTransaction
  <2>3. t \in Txs BY <1>2, Zenon
  <2>4. SendInv' BY <1>2, <2>2, <2>3, RelayingFacts, Zenon DEF SendInv
  <2> QED BY <1>1, <2>1, <2>4, Frame, SameStep, Zenon
<1>7. CASE RelayTransaction
  <2>1. /\ send.pc = "relay" /\ pool' = pool \cup {Transfer}
        /\ send' = [send EXCEPT !.pc = "store"] /\ UNCHANGED <<chain, forks, prepared>>
    BY <1>7, Zenon DEF RelayTransaction, IsSending
  <2>2. send.pc # "idle" BY <2>1, Zenon
  <2>3. Transfer \in Txs /\ send.tx # {} BY <2>2, TransferFacts, Zenon
  <2>4. DaemonInv' BY <1>2, <2>1, <2>3, Zenon DEF DaemonInv
  <2>5. send' \in SendRecord /\ send'.tx = send.tx BY <1>2, <2>1, Zenon DEF SendRecord
  <2>6. SendInv' BY <1>2, <2>1, <2>3, <2>5, Zenon DEF SendInv
  <2> QED BY <1>1, <2>4, <2>6, SameStep, Zenon
<1>8. CASE RelayFails
  <2>1. /\ send.pc = "relay" /\ (pool' = pool \/ pool' = pool \cup {Transfer})
        /\ send' = NoTransfer /\ UNCHANGED <<chain, forks, prepared>>
    BY <1>8, Zenon DEF RelayFails, IsSending
  <2>2. send.pc # "idle" BY <2>1, Zenon
  <2>3. Transfer \in Txs BY <2>2, TransferFacts, Zenon
  <2>4. DaemonInv' BY <1>2, <2>1, <2>3, Zenon DEF DaemonInv
  <2>5. SendInv' BY <1>2, <1>3, <2>1, Zenon DEF SendInv
  <2> QED BY <1>1, <2>4, <2>5, SameStep, Zenon
<1>9. CASE FinishTransfer
  <2>1. prepared' \subseteq prepared /\ send' = NoTransfer /\ UNCHANGED daemonVars
    BY <1>9, Zenon DEF FinishTransfer
  <2>2. SendInv' BY <1>2, <1>3, <2>1, Zenon DEF SendInv
  <2> QED BY <1>1, <2>1, <2>2, Frame, SameStep, Zenon
<1> QED BY <1>4, <1>5, <1>6, <1>7, <1>8, <1>9, Zenon

LEMMA StoreSentInv ==
    ASSUME SubInv, StoreSentTransaction \/ StoreUnconfirmedIncomingInputs
    PROVE  SubInv'
<1> DEFINE calls == {addUnconfirmedTransaction(w, tx) : tx \in LockedTransaction} \cup
                    {storeUnconfirmedIncomingInput(w, k) : k \in Outputs}
<1>1. /\ w \in Container /\ w.unspent \cap w.locked = {} /\ prepared \subseteq Txs
  BY Zenon DEF SubInv, SendInv, WalletInv, ListInv
<1>2. /\ UNCHANGED <<daemonVars, statusVars, sync, prepared, boundVars>>
      /\ send.pc \in {"store", "lock"}
  BY Zenon DEF StoreSentTransaction, StoreUnconfirmedIncomingInputs, IsSending
<1>3. send.pc # "idle" BY <1>2, Zenon
<1>4. /\ Transfer \in Txs /\ In[Transfer] \subseteq Outputs /\ Out[Transfer] \subseteq Outputs
      /\ send \in SendRecord /\ send.tx # {}
  BY <1>3, TransferFacts, Zenon
<1>5. w' \in calls /\ send' \in SendRecord /\ send'.tx = send.tx
  <2>1. CASE StoreSentTransaction
    <3> DEFINE owners == {Owner[k] : k \in In[Transfer] \cup Out[Transfer]}
               outs == {k \in Out[Transfer] : Owner[k] \in w.owners}
    <3>1. /\ w' = addUnconfirmedTransaction(w, [hash |-> Transfer, transfers |-> owners])
          /\ send' = [send EXCEPT !.pc = "lock", !.outputs = outs, !.inputs = In[Transfer]]
      BY <2>1, Zenon DEF StoreSentTransaction
    <3>2. \A k \in Outputs : Owner[k] \in Owners BY ContainerAssumption, Zenon
    <3>3. owners \subseteq Owners /\ outs \subseteq Outputs BY <1>4, <3>2, Zenon
    <3> HIDE DEF owners, outs
    <3>4. [hash |-> Transfer, transfers |-> owners] \in LockedTransaction
      BY <1>4, <3>3, Zenon DEF LockedTransaction
    <3>5. send' \in SendRecord /\ send'.tx = send.tx
      BY <1>4, <3>1, <3>3, Zenon DEF SendRecord
    <3> QED BY <3>1, <3>4, <3>5, Zenon
  <2>2. CASE StoreUnconfirmedIncomingInputs
    <3>1. PICK k \in send.outputs : /\ w' = storeUnconfirmedIncomingInput(w, k)
                                    /\ send' = [send EXCEPT !.outputs = @ \ {k}]
      BY <2>2, Zenon DEF StoreUnconfirmedIncomingInputs
    <3>2. k \in Outputs BY <1>4, Zenon DEF SendRecord
    <3>3. send' \in SendRecord /\ send'.tx = send.tx BY <1>4, <3>1, Zenon DEF SendRecord
    <3> QED BY <3>1, <3>2, <3>3, Zenon
  <2> QED BY <2>1, <2>2, Zenon
<1>6. /\ w' \in Container /\ w'.owners = w.owners
      /\ w'.unspent = w.unspent /\ w'.locked = w.locked /\ w'.spent = w.spent
      /\ w'.transactions = w.transactions /\ w'.keyImageOwners = w.keyImageOwners
  BY <1>1, <1>5, UnconfirmedFields, Zenon
<1> HIDE DEF calls
<1>7. Moved(w, w') BY <1>1, <1>6, Zenon DEF Moved
<1>8. SendInv' BY <1>1, <1>2, <1>4, <1>5, Zenon DEF SendInv
<1>9. DaemonInv' BY <1>2, Frame, Zenon
<1>10. UNCHANGED <<statusVars, sync, saved>> BY <1>2, Zenon DEF boundVars
<1> QED BY <1>6, <1>7, <1>8, <1>9, <1>10, MovedStep, Zenon

LEMMA MarkInputAsLockedInv ==
    ASSUME SubInv, MarkInputAsLocked
    PROVE  SubInv'
<1>1. /\ UNCHANGED <<daemonVars, statusVars, sync, prepared, boundVars>> /\ send.pc = "lock"
  BY Zenon DEF MarkInputAsLocked, IsSending
<1>2. /\ prepared \subseteq Txs /\ send \in SendRecord /\ send.tx # {}
      /\ WalletInv(w, View, Top, Pending)
  <2>1. send.pc # "idle" BY <1>1, Zenon
  <2> QED BY <2>1, TransferFacts, Zenon DEF SubInv, SendInv
<1>3. UNCHANGED <<statusVars, sync, saved>> /\ DaemonInv' BY <1>1, Frame, Zenon DEF boundVars
<1>4. PICK k \in send.inputs :
        \/ w' = markInputAsLocked(w, k) /\ send' = [send EXCEPT !.inputs = @ \ {k}]
        \/ send' = NoTransfer /\ w' = w
  BY Zenon DEF MarkInputAsLocked
<1>5. CASE send' = NoTransfer /\ w' = w
  <2>1. SendInv' BY <1>1, <1>2, <1>5, AsleepFacts, Zenon DEF SendInv
  <2>2. UNCHANGED <<w, statusVars, sync, saved>> BY <1>3, <1>5, Zenon
  <2> QED BY <1>3, <2>1, <2>2, SameStep, Zenon
<1>6. CASE w' = markInputAsLocked(w, k) /\ send' = [send EXCEPT !.inputs = @ \ {k}]
  <2>1. send' \in SendRecord /\ send'.tx = send.tx BY <1>2, <1>6, Zenon DEF SendRecord
  <2>2. SendInv' BY <1>1, <1>2, <2>1, Zenon DEF SendInv
  <2>3. Moved(w, w') /\ w'.owners = w.owners /\ w'.keyImageOwners = w.keyImageOwners
    BY <1>2, <1>6, LockMoves, Zenon
  <2> QED BY <1>3, <2>2, <2>3, MovedStep, Zenon
<1> QED BY <1>4, <1>5, <1>6, Zenon

-----------------------------------------------------------------------------
(* The calls that pause the synchronizer, and the daemon's steps. *)

\* A call made while the synchronizer is stopped.
LEMMA PausedStep ==
    ASSUME SubInv, IsIdle, UNCHANGED <<daemonVars, sync, sendVars>>,
           from' \in Nat, height' \in Nat, IsChain(synced'),
           WalletInv(w', synced', height', {}), Recognised(w'), SavedInv'
    PROVE  SubInv'
<1>1. sync' = sync /\ sync.pc = "idle" BY Zenon DEF IsIdle
<1>2. ~IsInBlock /\ ~IsInBlock' BY <1>1, Zenon DEF IsInBlock
<1>3. View' = synced' /\ Top' = height' /\ Pending' = {} BY <1>2, Zenon DEF View, Top, Pending
<1>4. SyncInv' BY <1>1, <1>2, Zenon DEF SubInv, SyncInv
<1>5. synced' \in Seq(Block) BY Zenon DEF IsChain
<1>6. DaemonInv' /\ SendInv' BY Frame, Zenon
<1> QED BY <1>3, <1>4, <1>5, <1>6, Zenon DEF SubInv

\* The wallet file says what the container says.
LEMMA SavedFile ==
    ASSUME WalletInv(w', synced', height', {}), IsChain(synced'),
           from' \in Nat, height' \in Nat, saved' = File(w')
    PROVE  SavedInv'
<1> DEFINE d == toJSON(w')
<1>1. w' \in Container /\ w'.unspent \cap w'.locked = {} BY Zenon DEF WalletInv, ListInv
<1>2. /\ d \in Container /\ d.owners = w'.owners
      /\ d.unspent = w'.unspent /\ d.locked = w'.locked /\ d.spent = w'.spent
      /\ d.transactions = w'.transactions
  BY <1>1, FileFields, Zenon
<1>3. saved' = [container |-> d, from |-> from', height |-> height', synced |-> synced']
  BY Zenon DEF File
<1> HIDE DEF d
<1>4. Moved(w', d) BY <1>1, <1>2, Zenon DEF Moved
<1>5. WalletInv(d, synced', height', {}) BY <1>4, MovedInv, Zenon
<1>6. synced' \in Seq(Block) BY Zenon DEF IsChain
<1>7. /\ saved' \in [container : Container, from : Nat, height : Nat, synced : Seq(Block)]
      /\ saved'.container = d /\ saved'.height = height' /\ saved'.synced = synced'
  BY <1>2, <1>3, <1>6
<1> QED BY <1>5, <1>7, Zenon DEF SavedInv

LEMMA RescanFacts ==
    ASSUME SubInv, NEW c \in Container, Primary \in c.owners, NEW h \in ScanHeights, Rescan(c, h)
    PROVE  /\ WalletInv(w', synced', height', {}) /\ Recognised(w') /\ IsChain(synced')
           /\ from' \in Nat /\ height' \in Nat
<1>1. /\ Len(chain) >= h - 1 /\ w' = resetContainer(c, h) /\ from' = h /\ height' = 0
      /\ synced' = SubSeq(chain, 1, h - 1)
  BY Zenon DEF Rescan
<1>2. h \in Nat \ {0} BY ContainerAssumption, Zenon
<1>3. IsChain(chain) /\ chain \in Seq(Block) BY Zenon DEF SubInv, DaemonInv, IsChain
<1>4. h - 1 \in 0..Len(chain) BY <1>1, <1>2, <1>3
<1>5. IsChain(synced') BY <1>1, <1>3, <1>4, CutIsChain, Zenon
<1>6. /\ w' \in Container /\ w'.owners = c.owners
      /\ w'.unspent = {} /\ w'.locked = {} /\ w'.spent = {} /\ w'.transactions = {}
  BY <1>1, <1>2, ResetFields, Zenon
<1>7. Primary \in w'.owners BY <1>6, Zenon
<1>8. WalletInv(w', synced', height', {}) /\ Recognised(w') BY <1>6, <1>7, EmptyInv, Zenon
<1>9. from' \in Nat /\ height' \in Nat BY <1>1, <1>2, Zenon
<1> QED BY <1>5, <1>8, <1>9, Zenon

LEMMA AddFacts ==
    ASSUME SubInv, NEW b, NEW top, WalletInv(w, b, top, {}), NEW o \in Owners, NEW h \in Nat
    PROVE  LET d == addSubWallet(w, o, h)
           IN  /\ d \in Container /\ Primary \in d.owners
               /\ WalletInv(d, b, top, {}) /\ Recognised(d)
<1> DEFINE d == addSubWallet(w, o, h)
<1>1. w \in Container /\ w.unspent \cap w.locked = {} /\ Recognised(w)
  BY Zenon DEF SubInv, WalletInv, ListInv
<1>2. /\ d \in Container /\ d.owners = w.owners \cup {o}
      /\ d.unspent = w.unspent /\ d.locked = w.locked /\ d.spent = w.spent
      /\ d.transactions = w.transactions /\ d.keyImageOwners = w.keyImageOwners
  BY <1>1, AddFields, Zenon
<1> HIDE DEF d
<1>3. Moved(w, d) BY <1>1, <1>2, Zenon DEF Moved
<1>4. WalletInv(d, b, top, {}) /\ Recognised(d) BY <1>1, <1>2, <1>3, MovedInv, Zenon
<1> QED BY <1>2, <1>4, Zenon DEF d, WalletInv

LEMMA BackendStepInv ==
    ASSUME SubInv, BackendStep
    PROVE  SubInv'
<1>1. CASE Reopen BY <1>1, LoadInv, Zenon DEF Reopen
<1>2. ASSUME ~Reopen
      PROVE  /\ IsIdle /\ ~IsInBlock /\ UNCHANGED <<daemonVars, sync, sendVars>>
             /\ WalletInv(w, synced, height, {}) /\ Recognised(w) /\ IsChain(synced)
             /\ from \in Nat /\ height \in Nat /\ w \in Container /\ Primary \in w.owners
  <2>1. IsIdle /\ UNCHANGED <<daemonVars, sync, sendVars>>
    BY <1>2, Zenon DEF BackendStep, ResetWallet, AddSubWallet, ImportSubWallet,
       DeleteSubWallet, SaveWallet, Pause
  <2>2. ~IsInBlock BY <2>1, Zenon DEF IsIdle, IsInBlock
  <2>3. WalletInv(w, synced, height, {}) /\ IsChain(synced) BY <2>2, IdleView, Zenon
  <2> QED BY <2>1, <2>2, <2>3, Zenon DEF SubInv, WalletInv
<1>3. ASSUME ~Reopen, UNCHANGED statusVars
      PROVE  /\ from' \in Nat /\ height' \in Nat /\ IsChain(synced')
             /\ synced' = synced /\ height' = height
  BY <1>2, <1>3, Zenon DEF statusVars
<1>4. CASE ResetWallet /\ ~Reopen
  <2>1. PICK h \in ScanHeights : Rescan(w, h) BY <1>4, Zenon DEF ResetWallet
  <2>2. /\ WalletInv(w', synced', height', {}) /\ Recognised(w') /\ IsChain(synced')
        /\ from' \in Nat /\ height' \in Nat
    BY <1>2, <1>4, <2>1, RescanFacts, Zenon
  <2>3. saved' = File(w') BY <1>4, Zenon DEF ResetWallet
  <2>4. SavedInv' BY <2>2, <2>3, SavedFile, Zenon
  <2> QED BY <1>2, <1>4, <2>2, <2>4, PausedStep, Zenon
<1>5. CASE AddSubWallet /\ ~Reopen
  <2>1. PICK o \in Owners : w' = addSubWallet(w, o, 0) BY <1>5, Zenon DEF AddSubWallet
  <2>2. WalletInv(w', synced, height, {}) /\ Recognised(w')
    BY <1>2, <1>5, <2>1, AddFacts, Zenon
  <2>3. UNCHANGED statusVars /\ saved' = saved BY <1>5, Zenon DEF AddSubWallet
  <2>4. WalletInv(w', synced', height', {}) BY <1>3, <1>5, <2>2, <2>3, Zenon
  <2>5. SavedInv' BY <2>3, Frame, Zenon
  <2> QED BY <1>2, <1>3, <1>5, <2>2, <2>3, <2>4, <2>5, PausedStep, Zenon
<1>6. CASE ImportSubWallet /\ ~Reopen
  <2>1. PICK o \in Owners, h \in ScanHeights :
          \/ Rescan(addSubWallet(w, o, h), h)
          \/ w' = addSubWallet(w, o, h) /\ UNCHANGED statusVars
    BY <1>6, Zenon DEF ImportSubWallet
  <2>2. h \in Nat BY ContainerAssumption, Zenon
  <2>3. LET d == addSubWallet(w, o, h)
        IN  /\ d \in Container /\ Primary \in d.owners
            /\ WalletInv(d, synced, height, {}) /\ Recognised(d)
    BY <1>2, <1>6, <2>2, AddFacts, Zenon
  <2>4. saved' = saved BY <1>6, Zenon DEF ImportSubWallet
  <2>5. SavedInv' BY <2>4, Frame, Zenon
  <2>6. CASE Rescan(addSubWallet(w, o, h), h)
    <3>1. /\ WalletInv(w', synced', height', {}) /\ Recognised(w') /\ IsChain(synced')
          /\ from' \in Nat /\ height' \in Nat
      BY <2>3, <2>6, RescanFacts, Zenon
    <3> QED BY <1>2, <1>6, <2>5, <3>1, PausedStep, Zenon
  <2>7. CASE w' = addSubWallet(w, o, h) /\ UNCHANGED statusVars
    <3>1. WalletInv(w', synced', height', {}) /\ Recognised(w')
      BY <1>3, <1>6, <2>3, <2>7, Zenon
    <3> QED BY <1>2, <1>3, <1>6, <2>5, <2>7, <3>1, PausedStep, Zenon
  <2> QED BY <2>1, <2>6, <2>7, Zenon
<1>7. CASE DeleteSubWallet /\ ~Reopen
  <2>1. PICK o : o # Primary /\ w' = deleteSubWallet(w, o) BY <1>7, Zenon DEF DeleteSubWallet
  <2>2. WalletInv(w', synced, height, {}) /\ Recognised(w')
    BY <1>2, <1>7, <2>1, DeleteInv, Zenon
  <2>3. UNCHANGED statusVars /\ saved' = saved BY <1>7, Zenon DEF DeleteSubWallet
  <2>4. WalletInv(w', synced', height', {}) BY <1>3, <1>7, <2>2, <2>3, Zenon
  <2>5. SavedInv' BY <2>3, Frame, Zenon
  <2> QED BY <1>2, <1>3, <1>7, <2>2, <2>3, <2>4, <2>5, PausedStep, Zenon
<1>8. CASE SaveWallet /\ ~Reopen
  <2>1. w' = w /\ UNCHANGED statusVars /\ saved' = File(w') BY <1>8, Zenon DEF SaveWallet
  <2>2. WalletInv(w', synced', height', {}) /\ Recognised(w')
    BY <1>2, <1>3, <1>8, <2>1, Zenon
  <2>3. SavedInv' BY <1>3, <1>8, <2>1, <2>2, SavedFile, Zenon
  <2> QED BY <1>2, <1>3, <1>8, <2>1, <2>2, <2>3, PausedStep, Zenon
<1> QED BY <1>1, <1>4, <1>5, <1>6, <1>7, <1>8, Zenon DEF BackendStep

LEMMA DaemonStepInv ==
    ASSUME SubInv, DaemonAddsBlock \/ DaemonForks \/ DaemonForgets
    PROVE  SubInv'
<1>1. /\ IsChain(chain) /\ Len(chain) <= MaxHeight /\ pool \subseteq Txs /\ forks \in Nat
      /\ chain \in Seq(Block)
  BY Zenon DEF SubInv, DaemonInv, IsChain
<1>2. UNCHANGED <<w, statusVars, sync, saved>> /\ UNCHANGED sendVars
  BY Zenon DEF DaemonAddsBlock, DaemonForks, DaemonForgets, boundVars
<1>3. SendInv' BY <1>2, Frame, Zenon
<1>4. CASE DaemonAddsBlock
  <2>1. Len(chain) < MaxHeight /\ forks' = forks BY <1>4, Zenon DEF DaemonAddsBlock
  <2>2. PICK txs \in SUBSET (pool \cup External) :
          /\ \A t \in txs : IsValid(t)
          /\ \A t, u \in txs : t # u => In[t] \cap In[u] = {}
          /\ chain' = Append(chain, [branch |-> forks, txs |-> txs]) /\ pool' = pool \ txs
    BY <1>4, Zenon DEF DaemonAddsBlock
  <2>3. txs \in SUBSET Txs BY <1>1, <2>2, ContainerAssumption, Zenon
  <2>4. IsChain(chain') BY <1>1, <2>2, <2>3, AddedIsChain, Zenon
  <2>5. Len(chain') <= MaxHeight
    <3>1. Len(chain') = Len(chain) + 1 BY <1>1, <2>2
    <3> QED BY <1>1, <2>1, <3>1, ContainerAssumption
  <2>6. DaemonInv' BY <1>1, <2>1, <2>2, <2>4, <2>5, Zenon DEF DaemonInv
  <2> QED BY <1>2, <1>3, <2>6, SameStep, Zenon
<1>5. CASE DaemonForks
  <2>1. PICK h \in 0..(Len(chain) - 1) :
          /\ chain' = SubSeq(chain, 1, h)
          /\ \E back \in SUBSET (TxsOf(chain) \ (TxsOf(chain') \cup External)) :
                pool' = pool \cup back
    BY <1>5, Zenon DEF DaemonForks
  <2>2. h \in 0..Len(chain) /\ forks' \in Nat /\ h <= Len(chain)
    BY <1>1, <1>5 DEF DaemonForks
  <2>3. IsChain(chain') BY <1>1, <2>1, <2>2, CutIsChain, Zenon
  <2>4. Len(chain') <= MaxHeight
    <3>1. Len(chain') = h BY <1>1, <2>1, <2>2, CutFacts, Zenon
    <3> QED BY <1>1, <2>2, <3>1, ContainerAssumption
  <2>5. pool' \subseteq Txs
    <3>1. \A i \in DOMAIN chain : chain[i].txs \subseteq Txs
      <4>1. \A i \in DOMAIN chain : chain[i] \in Block BY <1>1
      <4>2. \A b \in Block : b.txs \subseteq Txs BY Zenon DEF Block
      <4> QED BY <4>1, <4>2, Zenon
    <3>2. TxsOf(chain) \subseteq Txs BY <3>1, Zenon DEF TxsOf
    <3> QED BY <1>1, <2>1, <3>2, Zenon
  <2>6. DaemonInv' BY <2>2, <2>3, <2>4, <2>5, Zenon DEF DaemonInv
  <2> QED BY <1>2, <1>3, <2>6, SameStep, Zenon
<1>6. CASE DaemonForgets
  <2>1. chain' = chain /\ forks' = forks /\ pool' \subseteq pool BY <1>6, Zenon DEF DaemonForgets
  <2>2. DaemonInv' BY <1>1, <2>1, Zenon DEF DaemonInv
  <2> QED BY <1>2, <1>3, <2>2, SameStep, Zenon
<1> QED BY <1>4, <1>5, <1>6, Zenon

-----------------------------------------------------------------------------
(* The theorems. *)

LEMMA EmptyIsChain == IsChain(<<>>)
<1>1. <<>> \in Seq(Block) /\ DOMAIN <<>> = {} OBVIOUS
<1> QED BY <1>1, Zenon DEF IsChain

LEMMA InitSub == Init => SubInv
<1> SUFFICES ASSUME Init PROVE SubInv
  BY Zenon
<1>1. PICK owners \in SUBSET Owners : Primary \in owners /\ w = NewContainer(owners)
  BY Zenon DEF Init
<1>2. /\ w \in Container /\ w.owners = owners
      /\ w.unspent = {} /\ w.locked = {} /\ w.spent = {} /\ w.transactions = {}
  <2>1. [o \in Owners |-> 0] \in [Owners -> Nat] BY Zenon
  <2> QED BY <1>1, <2>1, Zenon DEF NewContainer, Container
<1>3. /\ chain = <<>> /\ pool = {} /\ forks = 0 /\ from = 1 /\ height = 0 /\ synced = <<>>
      /\ sync = Asleep /\ send = NoTransfer /\ prepared = {}
      /\ saved = [container |-> toJSON(w), from |-> 1, height |-> 0, synced |-> <<>>]
  BY Zenon DEF Init
<1>4. DaemonInv
  <2>1. Len(<<>>) <= MaxHeight /\ 0 \in Nat BY ContainerAssumption
  <2> QED BY <1>3, <2>1, EmptyIsChain, Zenon DEF DaemonInv
<1>5. SyncInv /\ SendInv /\ ~IsInBlock
  BY <1>3, AsleepFacts, Zenon DEF SyncInv, SendInv, IsInBlock
<1>6. from \in Nat /\ height \in Nat /\ synced \in Seq(Block) BY <1>3
<1>7. WalletInv(w, synced, height, {}) /\ Recognised(w)
  BY <1>1, <1>2, EmptyInv, Zenon
<1>8. SavedInv
  <2> DEFINE d == toJSON(w)
  <2>1. /\ d \in Container /\ d.owners = w.owners /\ d.unspent = w.unspent
        /\ d.locked = w.locked /\ d.spent = w.spent /\ d.transactions = w.transactions
    BY <1>2, FileFields, Zenon
  <2> HIDE DEF d
  <2>2. WalletInv(d, <<>>, 0, {}) BY <1>1, <1>2, <2>1, EmptyInv, Zenon
  <2>3. /\ saved \in [container : Container, from : Nat, height : Nat, synced : Seq(Block)]
        /\ saved.container = d /\ saved.height = 0 /\ saved.synced = <<>>
    BY <1>3, <2>1 DEF d
  <2> QED BY <2>2, <2>3, EmptyIsChain, Zenon DEF SavedInv
<1>9. View = synced /\ Top = height /\ Pending = {} BY <1>5, Zenon DEF View, Top, Pending
<1> QED BY <1>3, <1>4, <1>5, <1>6, <1>7, <1>8, <1>9, EmptyIsChain, Zenon DEF SubInv

LEMMA NextSub == SubInv /\ [Next]_vars => SubInv'
<1> SUFFICES ASSUME SubInv, [Next]_vars PROVE SubInv'
  BY Zenon
<1>1. CASE UNCHANGED vars
  <2>1. /\ UNCHANGED daemonVars /\ UNCHANGED sendVars
        /\ UNCHANGED <<w, statusVars, sync, saved>>
    BY <1>1, Zenon DEF vars, boundVars
  <2> QED BY <2>1, Frame, SameStep, Zenon
<1>2. CASE DaemonAddsBlock \/ DaemonForks \/ DaemonForgets BY <1>2, DaemonStepInv, Zenon
<1>3. CASE SyncStep
  <2>1. CASE SynchronizerThrows
    BY <2>1, LoadInv, Zenon DEF SynchronizerThrows, boundVars
  <2> QED BY <1>3, <2>1, BeginBlockInv, AddTransactionInv, StoreTransactionInputInv,
             MarkInputAsSpentInv, DropBlockInv, CheckLockedTransactionsInv,
             RemoveCancelledTransactionsInv, Zenon DEF SyncStep
<1>4. CASE SendStep
  BY <1>4, RelayStepInv, StoreSentInv, MarkInputAsLockedInv, Zenon DEF SendStep
<1>5. CASE BackendStep BY <1>5, BackendStepInv, Zenon
<1> QED BY <1>1, <1>2, <1>3, <1>4, <1>5, Zenon DEF Next

LEMMA SubInvariant == Spec => []SubInv
  BY InitSub, NextSub, PTL DEF Spec

\* A pair of AtHeights(F) names a height and what a transaction of it has.
LEMMA PairsAtHeights ==
    ASSUME NEW F, NEW k, NEW h
    PROVE  <<k, h>> \in AtHeights(F) <=>
              h \in DOMAIN synced /\ \E t \in synced[h].txs : k \in F[t]
<1> DEFINE At(g) == UNION {F[t] \X {g} : t \in synced[g].txs}
<1>1. AtHeights(F) = UNION {At(g) : g \in DOMAIN synced} BY Zenon DEF AtHeights
<1>2. ASSUME NEW g PROVE <<k, h>> \in At(g) <=> g = h /\ \E t \in synced[g].txs : k \in F[t]
  <2>1. \A t : <<k, h>> \in F[t] \X {g} <=> k \in F[t] /\ g = h BY Zenon
  <2> QED BY <2>1, Zenon
<1> HIDE DEF At
<1>3. <<k, h>> \in AtHeights(F) <=> \E g \in DOMAIN synced : <<k, h>> \in At(g)
  BY <1>1, Zenon
<1> QED BY <1>2, <1>3, Zenon

LEMMA AtHeightsArePairs ==
    ASSUME NEW F, NEW p \in AtHeights(F)
    PROVE  p = <<p[1], p[2]>>
<1>1. PICK h \in DOMAIN synced : p \in UNION {F[t] \X {h} : t \in synced[h].txs}
  BY Zenon DEF AtHeights
<1>2. PICK t \in synced[h].txs : p \in F[t] \X {h} BY <1>1, Zenon
<1> QED BY <1>2

LEMMA SubInvSound == SubInv => WalletIsSound
<1> SUFFICES ASSUME SubInv, IsIdle PROVE ListsAreSound /\ HistoryIsSound
  BY Zenon DEF WalletIsSound
<1>1. ~IsInBlock BY Zenon DEF IsIdle, IsInBlock
<1>2. IsChain(synced) /\ WalletInv(w, synced, height, {}) BY <1>1, IdleView, Zenon
<1>3. /\ ListInv(w, synced, height) /\ HistoryInv(w, synced, height)
      /\ NotSpentInv(w, synced, height, {}) /\ synced \in Seq(Block)
  BY <1>2, Zenon DEF WalletInv, IsChain
<1>4. \A i \in Listed(w) : <<i.key, i.blockHeight>> \in AtHeights(Out)
  BY <1>3, PairsAtHeights, Zenon DEF ListInv, Created
<1>5. \A i \in w.spent : <<i.key, i.spendHeight>> \in AtHeights(In)
  BY <1>3, PairsAtHeights, Zenon DEF ListInv, SpentAt
<1>6. ASSUME NEW p \in AtHeights(In), p[1] \in Keys(w.unspent \cup w.locked) PROVE FALSE
  <2>1. <<p[1], p[2]>> \in AtHeights(In) BY AtHeightsArePairs, Zenon
  <2>2. SpentAt(synced, p[1], p[2]) /\ p[2] \in DOMAIN synced
    BY <2>1, PairsAtHeights, Zenon DEF SpentAt
  <2>3. PICK i \in w.unspent \cup w.locked : i.key = p[1] BY <1>6, Zenon DEF Keys
  <2> QED BY <1>3, <2>2, <2>3, Zenon DEF NotSpentInv
<1>7. ListsAreSound
  BY <1>3, <1>4, <1>5, <1>6, Zenon DEF ListsAreSound, ListInv, Listed
<1>8. \A h \in DOMAIN synced : h <= Len(synced) BY <1>3
<1>9. HistoryIsSound BY <1>3, <1>8, Zenon DEF HistoryIsSound, HistoryInv
<1> QED BY <1>7, <1>9, Zenon

LEMMA SubInvType == SubInv => SubWalletsTypeOK
<1> SUFFICES ASSUME SubInv PROVE SubWalletsTypeOK
  BY Zenon
<1>1. /\ w \in Container /\ Primary \in w.owners /\ ListInv(w, View, Top)
      /\ sync \in SyncRecord /\ send \in SendRecord
  BY Zenon DEF SubInv, WalletInv, SyncInv, SendInv
<1>2. /\ w.owners \subseteq Owners /\ w.transactions \subseteq Transaction
      /\ w.unspent \cup w.locked \cup w.spent \subseteq TransactionInput
      /\ w.lockedTransactions \subseteq LockedTransaction
      /\ w.unconfirmed \cup w.keyImageOwners \subseteq Outputs
  BY <1>1, Zenon DEF Container
<1>3. /\ \A i \in w.unspent \cup w.locked : i.spendHeight = 0
      /\ \A i \in w.unspent \cup w.locked \cup w.spent : Owner[i.key] \in w.owners
  BY <1>1, Zenon DEF ListInv, Listed
<1>4. sync.pc \in {"idle", "block", "status", "cancel"} BY <1>1, Zenon DEF SyncRecord
<1>5. send.pc \in {"idle", "relay", "store", "lock"} BY <1>1, Zenon DEF SendRecord
<1> QED BY <1>1, <1>2, <1>3, <1>4, <1>5, Zenon DEF SubWalletsTypeOK

\* The lists hold inputs of subwallets the container has, and only a spent
\* input has a spend height, whatever the three threads do.
THEOREM SubWalletsTypeCorrect == Spec => []SubWalletsTypeOK
  BY SubInvariant, SubInvType, PTL

\* The key image of an input that may still be spent is always known: a fork
\* takes away only those of the inputs it removes, and loading the wallet
\* finds all of them again.
THEOREM SpendsStayRecognised == Spec => []SpendsAreRecognised
<1>1. SubInv => SpendsAreRecognised
  BY Zenon DEF SubInv, Recognised, SpendsAreRecognised, Keys, Listed
<1> QED BY <1>1, SubInvariant, PTL

\* Between two blocks the container claims nothing that the applied blocks do
\* not say, for any number of forks, rescans, reloads and transfers: every
\* record names the block that created its output and the one that spent it,
\* and none that may be spent has been.
THEOREM WalletStaysSound == Spec => []WalletIsSound
  BY SubInvariant, SubInvSound, PTL
=============================================================================
