--------------------------- MODULE ProtocolHandler ---------------------------
(***************************************************************************)
(* How a node downloads the block chain from its peers                     *)
(* (CryptoNoteProtocolHandler, and the connection handlers of NodeServer   *)
(* that drive it).  Every connection has a coroutine of its own on one     *)
(* dispatcher: it reads a command, runs its handler to the end, and gives  *)
(* way to the other connections only while it waits for a command or       *)
(* between two blocks of a batch (m_dispatcher.yield).  Peers run the same *)
(* program; of a peer the model has what its handlers answer and what it   *)
(* tells on its own.  Both directions of a connection are streams.         *)
(*                                                                         *)
(* The state of a block tree is what ForkChoice promises of Core.          *)
(***************************************************************************)
EXTENDS Integers, Sequences, FiniteSets, FiniteSetsExt

CONSTANTS
    Us,             \* the node whose handler is modelled
    Peers,          \* the nodes it is connected to
    LitePeers,      \* those of P2P_LITE_BLOCKS_PROPOGATION_VERSION and above
    Blocks, Genesis,
    Prev,           \* previousBlockHash
    Path,           \* the chain from the genesis block to a block
    Work,           \* cumulative difficulty of that chain
    Txs,
    BlockTxs,       \* transactionHashes of a block
    BatchSize,      \* BLOCKS_SYNCHRONIZING_DEFAULT_COUNT
    IdsSize,        \* BLOCKS_IDS_SYNCHRONIZING_DEFAULT_COUNT
    Start,          \* the tip every node starts with
    Reach,          \* the blocks and transactions that reach a peer
    NoBlock,
    MaxCuts         \* how often the network ends a connection

ASSUME HandlerAssumption ==
    /\ Us \notin Peers /\ LitePeers \subseteq Peers
    /\ Genesis \in Blocks /\ NoBlock \notin Blocks
    /\ Prev \in [Blocks \ {Genesis} -> Blocks]
    /\ Path \in [Blocks -> Seq(Blocks)] /\ Path[Genesis] = <<Genesis>>
    /\ \A b \in Blocks \ {Genesis} : Path[b] = Append(Path[Prev[b]], b)
    /\ Work \in [Blocks -> Nat]
    /\ BlockTxs \in [Blocks -> SUBSET Txs]
    /\ Start \in [{Us} \cup Peers -> Blocks]
    /\ Reach \in [Peers -> SUBSET ((Blocks \ {Genesis}) \cup Txs)]
    /\ BatchSize \in Nat \ {0} /\ IdsSize \in Nat \ {0} /\ MaxCuts \in Nat

VARIABLES
    node,           \* the block tree and the pool of every node
    ctx,            \* our CryptoNoteConnectionContext of every peer
    inbox,          \* what each peer has sent to us
    outbox,         \* what we have sent to each peer
    cuts

vars == <<node, ctx, inbox, outbox, cuts>>

-----------------------------------------------------------------------------
(* Core, as the handlers see it. *)

Core == [known : SUBSET Blocks, tip : Blocks, pool : SUBSET Txs]

NewCore(b) == [known |-> {Path[b][i] : i \in 1..Len(Path[b])}, tip |-> b, pool |-> {}]

BlockHeight(b) == Len(Path[b])
OnMainChain(c, b) ==
    BlockHeight(b) <= BlockHeight(c.tip) /\ Path[c.tip][BlockHeight(b)] = b
TransactionsUpTo(b) == UNION {BlockTxs[Path[b][i]] : i \in 1..BlockHeight(b)}

\* Core::getTransaction looks in every segment, and in the pool.
HasTransaction(c, t) == t \in c.pool \/ \E b \in c.known : t \in BlockTxs[b]

AddResult(c, b) ==
    CASE b \in c.known             -> "exists"
      [] Prev[b] \notin c.known    -> "orphan"
      [] Prev[b] = c.tip           -> "main"
      [] Work[b] > Work[c.tip]     -> "switched"
      [] OTHER                     -> "alternative"

\* A block that becomes the tip takes its transactions out of the pool; a
\* switch puts those of the branch it leaves back.
AddBlock(c, b) ==
    CASE AddResult(c, b) \in {"exists", "orphan"} -> c
      [] AddResult(c, b) = "alternative" -> [c EXCEPT !.known = @ \cup {b}]
      [] OTHER ->
           [known |-> c.known \cup {b},
            tip   |-> b,
            pool  |-> (c.pool \cup TransactionsUpTo(c.tip)) \ TransactionsUpTo(b)]

addTransactionsToPool(c, txs) ==
    [c EXCEPT !.pool = @ \cup (txs \ TransactionsUpTo(c.tip))]

\* The tip, the blocks 1, 2, 4, ... below it, and the genesis block.
buildSparseChain(c) ==
    LET top == BlockHeight(c.tip) - 1
        steps == {i \in 1..top : i < top /\ \E k \in 0..top : i = 2^k}
    IN  {Path[c.tip][top - i + 1] : i \in {0, top} \cup steps}

\* The first hash of the request on the main chain, and the blocks after it.
findBlockchainSupplement(c, ids) ==
    LET first == Max({BlockHeight(b) : b \in {b \in ids : OnMainChain(c, b)}})
        last == Min({first + IdsSize - 1, BlockHeight(c.tip)})
    IN  [type  |-> "chain_entry",
         ids   |-> SubSeq(Path[c.tip], first, last),
         start |-> first - 1,
         total |-> BlockHeight(c.tip)]

-----------------------------------------------------------------------------
(* Messages and connections. *)

TimedSyncMessage == [type |-> "timed_sync"]
RequestChain(c) == [type |-> "request_chain", ids |-> buildSparseChain(c)]
RequestObjects(blocks) == [type |-> "request_objects", blocks |-> blocks]
RequestPool(c) == [type |-> "request_pool", txs |-> c.pool]
MissingTxs(txs) == [type |-> "missing_txs", txs |-> txs]

\* What a handshake and a timed sync tell of a node.
SyncData(c) == [type |-> "sync_data", top |-> c.tip, height |-> BlockHeight(c.tip)]
NewTransactions(txs) == [type |-> "new_transactions", txs |-> txs]
NewBlock(p, b) ==
    [type   |-> IF p \in LitePeers THEN "new_lite_block" ELSE "new_block",
     block  |-> b,
     height |-> BlockHeight(b)]

States == {"closed", "synchronizing", "idle", "normal", "sync_required",
           "pool_sync_required", "shutdown"}

NoPending == [block |-> NoBlock, missed |-> {}]

Context ==
    [state      : States,
     needed     : Seq(Blocks),          \* m_needed_objects
     requested  : SUBSET Blocks,        \* m_requested_objects
     last       : Int,                  \* m_last_response_height
     remote     : Nat,                  \* m_remote_blockchain_height
     pending    : [block : Blocks \cup {NoBlock}, missed : SUBSET Txs],
     processing : BOOLEAN,              \* the coroutine is in processObjects
     objects    : Seq(Blocks)]          \* the blocks it has yet to add

Closed ==
    [state |-> "closed", needed |-> <<>>, requested |-> {}, last |-> 0,
     remote |-> 0, pending |-> NoPending, processing |-> FALSE, objects |-> <<>>]

\* Slip: the blocks it still had to ask for stay in the context.
IdleWithRequests(x) == [x EXCEPT !.state = "idle",
                                 !.processing = FALSE, !.objects = <<>>]

Idle(x) == [x EXCEPT !.state = "idle", !.needed = <<>>, !.requested = {},
                     !.processing = FALSE, !.objects = <<>>]
Shutdown(x) == [x EXCEPT !.state = "shutdown", !.processing = FALSE,
                         !.objects = <<>>]

\* The coroutine of p goes on with context x, having sent ms.
Continue(p, x, ms) ==
    /\ ctx' = [ctx EXCEPT ![p] = x]
    /\ outbox' = [outbox EXCEPT ![p] = @ \o ms]

\* The first message from p is of type t and its handler runs: the coroutine
\* waits in readCommand.
Reads(p, t) ==
    /\ ctx[p].state \in {"synchronizing", "idle", "normal"}
    /\ ~ctx[p].processing
    /\ inbox[p] # <<>>
    /\ Head(inbox[p]).type = t
    /\ inbox' = [inbox EXCEPT ![p] = Tail(@)]
    /\ cuts' = cuts

-----------------------------------------------------------------------------
(* Downloading the chain. *)

\* The shortest prefix of the needed blocks that holds a batch of blocks to
\* ask for; with check, those Core has by now are passed over.
Wanted(c, blocks, check) ==
    SelectSeq(blocks, LAMBDA b : ~(check /\ b \in c.known))
BatchEnd(c, needed, check) ==
    Min({Len(needed)} \cup
        {n \in 1..Len(needed) :
            Len(Wanted(c, SubSeq(needed, 1, n), check)) = BatchSize})

\* Asks for the next batch of blocks, else for more hashes, else the
\* connection is synchronized.  When the final condition fails the code logs
\* it and leaves the context as it is.
request_missing_objects(p, x, c, check) ==
    LET end == BatchEnd(c, x.needed, check)
        batch == Wanted(c, SubSeq(x.needed, 1, end), check)
    IN  \/ /\ x.needed # <<>>
           /\ Continue(p,
                  [x EXCEPT !.needed = SubSeq(@, end + 1, Len(@)),
                            !.requested = @ \cup {batch[i] : i \in 1..Len(batch)}],
                  <<RequestObjects(batch)>>)
        \/ /\ x.needed = <<>> /\ x.last < x.remote - 1
           /\ Continue(p, x, <<RequestChain(c)>>)
        \/ /\ x.needed = <<>> /\ x.last = x.remote - 1 /\ x.requested = {}
           /\ Continue(p, [x EXCEPT !.state = "normal"], <<RequestPool(c)>>)
        \/ /\ x.needed = <<>> /\ x.last >= x.remote - 1
           /\ ~(x.last = x.remote - 1 /\ x.requested = {})
           /\ Continue(p, x, <<>>)

\* The blocks after the last one we know, in the order of the peer's chain.
handle_response_chain_entry(p) ==
    /\ Reads(p, "chain_entry")
    /\ node' = node
    /\ LET m == Head(inbox[p])
           c == node[Us]
           last == m.start + Len(m.ids) - 1
           unknown == {i \in 1..Len(m.ids) : m.ids[i] \notin c.known}
           needed == IF unknown = {} THEN <<>>
                     ELSE SubSeq(m.ids, Min(unknown), Len(m.ids))
       IN  IF m.ids = <<>> \/ Head(m.ids) \notin c.known
           THEN Continue(p, Shutdown(ctx[p]), <<>>)
           ELSE request_missing_objects(p,
                    [ctx[p] EXCEPT !.remote = m.total,
                                   !.last = last,
                                   !.needed = @ \o needed,
                                   !.state = IF last > m.total THEN "shutdown" ELSE @],
                    c, FALSE)

\* Slip: a block that another peer brought counts as a wrong one.
ProcessNewObject(p, x) ==
    LET b == Head(x.objects)
        result == AddResult(node[Us], b)
    IN  /\ node' = [node EXCEPT ![Us] = AddBlock(@, b)]
        /\ Continue(p,
               IF result \in {"orphan", "exists"}
               THEN Shutdown(x)
               ELSE [x EXCEPT !.objects = Tail(@)],
               <<>>)

\* One turn of the loop of processObjects: a block is added and the coroutine
\* yields.
ProcessObject(p, x) ==
    LET b == Head(x.objects)
        result == AddResult(node[Us], b)
    IN  /\ node' = [node EXCEPT ![Us] = AddBlock(@, b)]
        /\ Continue(p,
               CASE result = "orphan" -> Shutdown(x)
                 [] result = "exists" -> Idle(x)
                 [] OTHER -> [x EXCEPT !.objects = Tail(@)],
               <<>>)

\* Slip: asks for blocks, but not for more hashes.
AfterLastObjects(p, x, c) ==
    IF x.state = "synchronizing" /\ x.needed # <<>>
    THEN request_missing_objects(p, x, c, TRUE)
    ELSE Continue(p, x, <<>>)

\* After a batch, unless its blocks sent the connection elsewhere.
AfterObjects(p, x, c) ==
    IF x.state = "synchronizing"
    THEN request_missing_objects(p, x, c, TRUE)
    ELSE Continue(p, x, <<>>)

\* The second block of a batch is no longer new to us.
IsKnownBatch(x, c, m) ==
    /\ x.last <= m.height
    /\ Len(m.blocks) > 1
    /\ m.blocks[1] \in x.requested
    /\ m.blocks[2] \in c.known

\* Every block was asked for, and none that was asked for is left out.
IsWholeBatch(x, m) ==
    /\ x.last <= m.height
    /\ x.requested = {m.blocks[i] : i \in 1..Len(m.blocks)}
    /\ Cardinality(x.requested) = Len(m.blocks)

handle_response_get_objects(p) ==
    /\ Reads(p, "objects")
    /\ LET m == Head(inbox[p])
           c == node[Us]
           x == [ctx[p] EXCEPT !.remote = m.height]
       IN  \/ /\ IsKnownBatch(x, c, m)
              /\ Continue(p, Idle(x), <<>>)
              /\ node' = node
           \/ /\ ~IsKnownBatch(x, c, m) /\ ~IsWholeBatch(x, m)
              /\ Continue(p, Shutdown(x), <<>>)
              /\ node' = node
           \/ /\ ~IsKnownBatch(x, c, m) /\ IsWholeBatch(x, m)
              /\ m.blocks = <<>>
              /\ AfterObjects(p, x, c)
              /\ node' = node
           \/ /\ ~IsKnownBatch(x, c, m) /\ IsWholeBatch(x, m)
              /\ m.blocks # <<>>
              /\ ProcessObject(p, [x EXCEPT !.requested = {}, !.processing = TRUE,
                                            !.objects = m.blocks])

\* The coroutine of p goes on after it yielded between two blocks ...
processObjects(p) ==
    /\ ctx[p].processing
    /\ ctx[p].objects # <<>>
    /\ ProcessObject(p, ctx[p])
    /\ UNCHANGED <<inbox, cuts>>

\* ... or after the last block of the batch.
FinishObjects(p) ==
    /\ ctx[p].processing
    /\ ctx[p].objects = <<>>
    /\ AfterObjects(p, [ctx[p] EXCEPT !.processing = FALSE], node[Us])
    /\ UNCHANGED <<node, inbox, cuts>>

\* The top of the loop of connectionHandler.
start_sync(p) ==
    /\ ctx[p].state = "sync_required"
    /\ Continue(p, [ctx[p] EXCEPT !.state = "synchronizing"],
                <<RequestChain(node[Us])>>)
    /\ UNCHANGED <<node, inbox, cuts>>

requestMissingPoolTransactions(p) ==
    /\ ctx[p].state = "pool_sync_required"
    /\ Continue(p, [ctx[p] EXCEPT !.state = "normal"], <<RequestPool(node[Us])>>)
    /\ UNCHANGED <<node, inbox, cuts>>

-----------------------------------------------------------------------------
(* What a peer tells about its chain, and new blocks and transactions. *)

process_payload_sync_data(x, c, m, isInitial) ==
    [x EXCEPT
        !.remote = m.height,
        !.state = CASE @ = "synchronizing" -> @
                    [] @ # "synchronizing" /\ m.top \notin c.known -> "sync_required"
                    [] OTHER -> IF isInitial THEN "pool_sync_required" ELSE "normal"]

handle_sync_data(p) ==
    /\ Reads(p, "sync_data")
    /\ Continue(p, process_payload_sync_data(ctx[p], node[Us], Head(inbox[p]), FALSE),
                <<>>)
    /\ node' = node

\* A block that a peer tells of goes to Core; an orphan starts a download.
PushBlock(p, x, b) ==
    LET result == AddResult(node[Us], b)
        c == AddBlock(node[Us], b)
    IN  /\ node' = [node EXCEPT ![Us] = c]
        /\ CASE result = "orphan" ->
                  Continue(p, [x EXCEPT !.state = "synchronizing"], <<RequestChain(c)>>)
             [] result = "switched" -> Continue(p, x, <<RequestPool(c)>>)
             [] OTHER -> Continue(p, x, <<>>)

handle_notify_new_block(p) ==
    /\ Reads(p, "new_block")
    /\ LET x == [ctx[p] EXCEPT !.remote = Head(inbox[p]).height]
       IN  IF x.state = "normal"
           THEN PushBlock(p, x, Head(inbox[p]).block)
           ELSE Continue(p, x, <<>>) /\ node' = node

\* Slip: does not note which transactions it asked for.
doPushLiteBlockBlindly(p, x, b, provided) ==
    LET need == {t \in BlockTxs[b] : t \notin provided /\ ~HasTransaction(node[Us], t)}
    IN  \/ /\ need = {}
           /\ PushBlock(p, [x EXCEPT !.pending = NoPending], b)
        \/ /\ need # {}
           /\ Continue(p, [x EXCEPT !.pending = [block |-> b, missed |-> {}]],
                       <<MissingTxs(need)>>)
           /\ node' = node

\* A block without its transactions: those we lack are asked for, and the
\* block waits for them in the context.
doPushLiteBlock(p, x, b, provided) ==
    LET need == {t \in BlockTxs[b] : t \notin provided /\ ~HasTransaction(node[Us], t)}
        drops == \/ ~(x.pending.missed \subseteq provided)
                 \/ need # {} /\ x.pending # NoPending
    IN  \/ /\ drops
           /\ Continue(p, Shutdown([x EXCEPT !.pending = NoPending]), <<>>)
           /\ node' = node
        \/ /\ ~drops /\ need = {}
           /\ PushBlock(p, [x EXCEPT !.pending = NoPending], b)
        \/ /\ ~drops /\ need # {}
           /\ Continue(p, [x EXCEPT !.pending = [block |-> b, missed |-> need]],
                       <<MissingTxs(need)>>)
           /\ node' = node

handle_notify_new_lite_block(p) ==
    /\ Reads(p, "new_lite_block")
    /\ LET x == [ctx[p] EXCEPT !.remote = Head(inbox[p]).height]
       IN  IF x.state = "normal"
           THEN doPushLiteBlock(p, x, Head(inbox[p]).block, {})
           ELSE Continue(p, x, <<>>) /\ node' = node

\* While a lite block waits, any transactions are taken as its missing ones.
handle_notify_new_transactions(p) ==
    /\ Reads(p, "new_transactions")
    /\ LET txs == Head(inbox[p]).txs
       IN  \/ /\ ctx[p].state # "normal"
              /\ Continue(p, ctx[p], <<>>)
              /\ node' = node
           \/ /\ ctx[p].state = "normal" /\ ctx[p].pending # NoPending
              /\ doPushLiteBlock(p, ctx[p], ctx[p].pending.block, txs)
           \/ /\ ctx[p].state = "normal" /\ ctx[p].pending = NoPending
              /\ Continue(p, ctx[p], <<>>)
              /\ node' = [node EXCEPT ![Us] = addTransactionsToPool(@, txs)]

-----------------------------------------------------------------------------
(* Connections come and go. *)

\* The handshake.
Connect(p) ==
    /\ ctx[p].state = "closed"
    /\ ctx' = [ctx EXCEPT ![p] =
                  process_payload_sync_data(@, node[Us], SyncData(node[p]), TRUE)]
    /\ UNCHANGED <<node, inbox, outbox, cuts>>

Disconnect(p) ==
    /\ ctx' = [ctx EXCEPT ![p] = Closed]
    /\ inbox' = [inbox EXCEPT ![p] = <<>>]
    /\ outbox' = [outbox EXCEPT ![p] = <<>>]
    /\ node' = node

\* connectionHandler leaves its loop.
Close(p) ==
    /\ ctx[p].state = "shutdown"
    /\ Disconnect(p)
    /\ cuts' = cuts

\* The network or the peer ends the connection, wherever its coroutine waits.
Cut(p) ==
    /\ ctx[p].state \notin {"closed", "shutdown"}
    /\ cuts < MaxCuts
    /\ cuts' = cuts + 1
    /\ Disconnect(p)

IsWaiting(messages, t) == \E i \in 1..Len(messages) : messages[i].type = t

\* Every P2P_DEFAULT_HANDSHAKE_INTERVAL; by then the last answers are in.
TimedSyncDue ==
    /\ \E p \in Peers : ctx[p].state \in {"normal", "idle"}
    /\ \A p \in Peers : /\ ~IsWaiting(outbox[p], "timed_sync")
                        /\ ~IsWaiting(inbox[p], "sync_data")

\* Slip: leaves idle connections alone.
timedSyncOfNormal ==
    /\ TimedSyncDue
    /\ outbox' = [p \in Peers |-> IF ctx[p].state = "normal"
                                  THEN Append(outbox[p], TimedSyncMessage)
                                  ELSE outbox[p]]
    /\ UNCHANGED <<node, ctx, inbox, cuts>>

timedSync ==
    /\ TimedSyncDue
    /\ outbox' = [p \in Peers |-> IF ctx[p].state \in {"normal", "idle"}
                                  THEN Append(outbox[p], TimedSyncMessage)
                                  ELSE outbox[p]]
    /\ UNCHANGED <<node, ctx, inbox, cuts>>

-----------------------------------------------------------------------------
(* A peer: the answers of its handlers, and what reaches it from elsewhere. *)

Tell(p, ms) == inbox' = [inbox EXCEPT ![p] = @ \o ms]

IsAsked(p, t) == outbox[p] # <<>> /\ Head(outbox[p]).type = t

\* The first message to p is of type t and is answered with ms.
Answers(p, t, ms) ==
    /\ IsAsked(p, t)
    /\ outbox' = [outbox EXCEPT ![p] = Tail(@)]
    /\ Tell(p, ms)
    /\ UNCHANGED <<node, ctx, cuts>>

handle_timed_sync(p) == Answers(p, "timed_sync", <<SyncData(node[p])>>)

handle_request_chain(p) ==
    Answers(p, "request_chain",
        <<findBlockchainSupplement(node[p], Head(outbox[p]).ids)>>)

\* Core::getBlocks finds the blocks of every segment.
handle_request_get_objects(p) ==
    Answers(p, "request_objects",
        <<[type   |-> "objects",
           blocks |-> SelectSeq(Head(outbox[p]).blocks, LAMBDA b : b \in node[p].known),
           height |-> BlockHeight(node[p].tip)]>>)

handleRequestTxPool(p) ==
    LET txs == node[p].pool \ Head(outbox[p]).txs
    IN  Answers(p, "request_pool", IF txs = {} THEN <<>> ELSE <<NewTransactions(txs)>>)

\* (A peer that cannot serve them ends the connection.)
handle_notify_missing_txs(p) ==
    /\ IsAsked(p, "missing_txs")
    /\ \A t \in Head(outbox[p]).txs : HasTransaction(node[p], t)
    /\ Answers(p, "missing_txs", <<NewTransactions(Head(outbox[p]).txs)>>)

\* A block reaches p.  One that becomes its tip is relayed, unless it came
\* with a download or p is not yet done with us.
PeerReceivesBlock(p, b) ==
    /\ AddResult(node[p], b) \notin {"exists", "orphan"}
    /\ node' = [node EXCEPT ![p] = AddBlock(@, b)]
    /\ \/ inbox' = inbox
       \/ /\ node'[p].tip = b
          /\ ctx[p].state # "closed"
          /\ Tell(p, <<NewBlock(p, b)>>)
    /\ UNCHANGED <<ctx, outbox, cuts>>

PeerReceivesTransaction(p, t) ==
    /\ t \notin node[p].pool \cup TransactionsUpTo(node[p].tip)
    /\ node' = [node EXCEPT ![p].pool = @ \cup {t}]
    /\ \/ inbox' = inbox
       \/ ctx[p].state # "closed" /\ Tell(p, <<NewTransactions({t})>>)
    /\ UNCHANGED <<ctx, outbox, cuts>>

-----------------------------------------------------------------------------

Init ==
    /\ node = [n \in {Us} \cup Peers |-> NewCore(Start[n])]
    /\ ctx = [p \in Peers |-> Closed]
    /\ inbox = [p \in Peers |-> <<>>]
    /\ outbox = [p \in Peers |-> <<>>]
    /\ cuts = 0

\* The coroutine of a connection takes its next step.
Handle(p) ==
    \/ handle_response_chain_entry(p)
    \/ handle_response_get_objects(p)
    \/ processObjects(p)
    \/ FinishObjects(p)
    \/ start_sync(p)
    \/ requestMissingPoolTransactions(p)
    \/ handle_sync_data(p)
    \/ handle_notify_new_block(p)
    \/ handle_notify_new_lite_block(p)
    \/ handle_notify_new_transactions(p)
    \/ Close(p)

PeerAnswers(p) ==
    \/ handle_timed_sync(p)
    \/ handle_request_chain(p)
    \/ handle_request_get_objects(p)
    \/ handleRequestTxPool(p)
    \/ handle_notify_missing_txs(p)

Next ==
    \/ timedSync
    \/ \E p \in Peers :
          \/ Handle(p)
          \/ PeerAnswers(p)
          \/ Connect(p)
          \/ Cut(p)
          \/ \E b \in Reach[p] \cap Blocks : PeerReceivesBlock(p, b)
          \/ \E t \in Reach[p] \cap Txs : PeerReceivesTransaction(p, t)

Spec == Init /\ [][Next]_vars

\* The dispatcher resumes every coroutine that can run, the timers fire, the
\* connections maker reconnects, and messages arrive.  No fairness for what
\* reaches a peer or for cuts.
CanHandle(p) ==
    \/ ctx[p].state \in {"sync_required", "pool_sync_required", "shutdown"}
    \/ ctx[p].processing
    \/ ctx[p].state # "closed" /\ inbox[p] # <<>>

FairSpec ==
    /\ Spec
    /\ <>[]TimedSyncDue => []<><<timedSync>>_vars
    /\ \A p \in Peers :
          /\ <>[]CanHandle(p) => []<><<Handle(p)>>_vars
          /\ <>[](outbox[p] # <<>>) => []<><<PeerAnswers(p)>>_vars
          /\ <>[](ctx[p].state = "closed") => []<><<Connect(p)>>_vars

-----------------------------------------------------------------------------
(* Properties. *)

Messages(s, types) == \A i \in 1..Len(s) : s[i].type \in types

\* Types of the nodes, the contexts and the streams.  A lite block that waits
\* in a context (doPushLiteBlock) names the transactions it waits for.
ProtocolTypeOK ==
    /\ node \in [{Us} \cup Peers -> Core]
    /\ cuts \in 0..MaxCuts
    /\ \A p \in Peers :
          /\ ctx[p].state \in States
          /\ ctx[p].needed \in Seq(Blocks) /\ ctx[p].objects \in Seq(Blocks)
          /\ ctx[p].requested \subseteq Blocks
          /\ ctx[p].remote \in Nat /\ ctx[p].last \in Nat
          /\ \/ ctx[p].pending = NoPending
             \/ /\ ctx[p].pending.missed # {}
                /\ ctx[p].pending.missed \subseteq BlockTxs[ctx[p].pending.block]
          /\ Messages(inbox[p], {"sync_data", "chain_entry", "objects", "new_block",
                                 "new_lite_block", "new_transactions"})
          /\ Messages(outbox[p], {"timed_sync", "request_chain", "request_objects",
                                  "request_pool", "missing_txs"})

Waiting(messages, types) == {i \in 1..Len(messages) : messages[i].type \in types}

\* The requests of the download that are on their way to p, answered and
\* unread, or being worked on.
Awaited(p) ==
    {<<"request", i>> : i \in Waiting(outbox[p], {"request_chain", "request_objects"})}
      \cup {<<"answer", i>> : i \in Waiting(inbox[p], {"chain_entry", "objects"})}
      \cup (IF ctx[p].processing THEN {<<"batch", 1>>} ELSE {})

\* start_sync asserts that nothing is left of an earlier download: a
\* connection that does not synchronize has no blocks to ask for and awaits
\* none, and one that does awaits one answer at a time.
OneDownload ==
    \A p \in Peers :
        /\ ctx[p].state = "synchronizing" => \A a, b \in Awaited(p) : a = b
        /\ ctx[p].state \notin {"synchronizing", "shutdown"} =>
              Awaited(p) = {} /\ ctx[p].needed = <<>> /\ ctx[p].requested = {}

\* A connection that synchronizes has a request under way: nothing else moves
\* it on, as neither timed syncs nor new blocks touch a connection in that
\* state (the final condition of request_missing_objects).
SynchronizingAsks ==
    \A p \in Peers : ctx[p].state = "synchronizing" => Awaited(p) # {}

\* Downloads from several peers never make the handler end the connection of
\* a peer that answers as the program does, whatever blocks the others
\* brought in between; only a waiting lite block may.
DownloadsKeepPeers ==
    [][\A p \in Peers :
          /\ ctx[p].state # "shutdown"
          /\ ctx'[p].state = "shutdown"
          => ctx[p].pending # NoPending]_vars

\* Whatever chain a peer moves to, we have it in the end.
CatchesUp == \A p \in Peers : []<>(node[p].tip \in node[Us].known)
=============================================================================
