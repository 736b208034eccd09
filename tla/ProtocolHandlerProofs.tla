----------------------- MODULE ProtocolHandlerProofs -----------------------
(***************************************************************************)
(* A connection downloads one thing at a time, and the assertions of       *)
(* start_sync hold, for any number of peers, any block tree and any sizes  *)
(* of the batches.                                                         *)
(***************************************************************************)
EXTENDS ProtocolHandler, TLAPS

RequestTypes == {"request_chain", "request_objects"}
AnswerTypes == {"chain_entry", "objects"}

\* Lemmas on streams of messages, whatever the messages carry.

IsStream(s) == \E S : s \in Seq(S)

\* Nothing waits in a connection that has just been opened or closed.
LEMMA EmptyStream ==
    /\ IsStream(<<>>)
    /\ \A T : Waiting(<<>>, T) = {}
  <1>1. <<>> \in Seq({})  OBVIOUS
  <1>2. \A T : Waiting(<<>>, T) = {}  BY DEF Waiting
  <1> QED  BY <1>1, <1>2, Zenon DEF IsStream

\* A handler that sends nothing leaves the stream as it is.
LEMMA NothingSent ==
    ASSUME NEW s, IsStream(s)
    PROVE  s \o <<>> = s
  <1> PICK S : s \in Seq(S)  BY Zenon DEF IsStream
  <1> QED  OBVIOUS

\* A message that is sent waits at the end of the stream; the others stay
\* where they are.
LEMMA OneSent ==
    ASSUME NEW s, IsStream(s), NEW m, NEW T
    PROVE  /\ IsStream(s \o <<m>>)
           /\ m.type \in T => Waiting(s \o <<m>>, T) = Waiting(s, T) \cup {Len(s) + 1}
           /\ m.type \notin T => Waiting(s \o <<m>>, T) = Waiting(s, T)
  <1> PICK S : s \in Seq(S)  BY Zenon DEF IsStream
  <1> DEFINE U == S \cup {m}
  <1>1. s \in Seq(U) /\ <<m>> \in Seq(U)  OBVIOUS
  <1>2. s \o <<m>> \in Seq(U)  BY <1>1
  <1>3. Len(s \o <<m>>) = Len(s) + 1 /\ Len(s) \in Nat  BY <1>1
  <1>4. \A i \in 1..Len(s) : (s \o <<m>>)[i] = s[i]  BY <1>1
  <1>5. (s \o <<m>>)[Len(s) + 1] = m  BY <1>1
  <1> HIDE DEF U
  <1> QED  BY <1>2, <1>3, <1>4, <1>5 DEF IsStream, Waiting

\* A message that is read leaves the stream; of two that wait it was the only
\* one.
LEMMA OneRead ==
    ASSUME NEW s, IsStream(s), s # <<>>, NEW T
    PROVE  /\ IsStream(Tail(s))
           /\ Waiting(s, T) = {} => Waiting(Tail(s), T) = {}
           /\ (\A i, j \in Waiting(s, T) : i = j) =>
                 /\ \A i, j \in Waiting(Tail(s), T) : i = j
                 /\ Head(s).type \in T => Waiting(Tail(s), T) = {}
  <1> PICK S : s \in Seq(S)  BY Zenon DEF IsStream
  <1>1. Tail(s) \in Seq(S) /\ Len(Tail(s)) = Len(s) - 1 /\ Len(s) \in Nat \ {0}
    OBVIOUS
  <1>2. \A i \in 1..Len(Tail(s)) : Tail(s)[i] = s[i + 1]  OBVIOUS
  <1>3. \A i \in Waiting(Tail(s), T) : i \in Nat \ {0} /\ i + 1 \in Waiting(s, T)
    BY <1>1, <1>2 DEF Waiting
  <1>4. Head(s).type \in T => 1 \in Waiting(s, T)
    BY <1>1 DEF Waiting
  <1> QED  BY <1>1, <1>3, <1>4 DEF IsStream

-----------------------------------------------------------------------------
(* The inductive invariant, one connection at a time. *)

Fields == {"state", "needed", "requested", "last", "remote", "pending",
           "processing", "objects"}

\* Nothing of a download: no request, no answer, no batch, no blocks.
Quiet(x, out, in) ==
    /\ Waiting(out, RequestTypes) = {}
    /\ Waiting(in, AnswerTypes) = {}
    /\ ~x.processing
    /\ x.needed = <<>>
    /\ x.requested = {}

\* One request, or one answer, or one batch.
AtMostOne(x, out, in) ==
    /\ \A i, j \in Waiting(out, RequestTypes) : i = j
    /\ \A i, j \in Waiting(in, AnswerTypes) : i = j
    /\ Waiting(out, RequestTypes) = {} \/ Waiting(in, AnswerTypes) = {}
    /\ x.processing => /\ Waiting(out, RequestTypes) = {}
                       /\ Waiting(in, AnswerTypes) = {}

\* A batch is worked on only while the connection synchronizes: processing
\* ends with every state the loop can leave for.
ConnectionInv(x, out, in) ==
    /\ DOMAIN x = Fields
    /\ x.processing \in BOOLEAN
    /\ x.processing => x.state = "synchronizing"
    /\ IsStream(out) /\ IsStream(in)
    /\ x.state \notin {"synchronizing", "shutdown"} => Quiet(x, out, in)
    /\ x.state = "synchronizing" => AtMostOne(x, out, in)

DownloadInv ==
    /\ DOMAIN ctx = Peers /\ DOMAIN inbox = Peers /\ DOMAIN outbox = Peers
    /\ \A p \in Peers : ConnectionInv(ctx[p], outbox[p], inbox[p])

\* The inductive invariant is strong enough for the property.
LEMMA DownloadInvImplies == DownloadInv => OneDownload
  <1> SUFFICES ASSUME DownloadInv, NEW p \in Peers
               PROVE  /\ ctx[p].state = "synchronizing" =>
                            \A a, b \in Awaited(p) : a = b
                      /\ ctx[p].state \notin {"synchronizing", "shutdown"} =>
                            /\ Awaited(p) = {}
                            /\ ctx[p].needed = <<>> /\ ctx[p].requested = {}
    BY Zenon DEF OneDownload
  <1> DEFINE o == Waiting(outbox[p], RequestTypes)
             i == Waiting(inbox[p], AnswerTypes)
  <1>1. Awaited(p) = {<<"request", n>> : n \in o} \cup {<<"answer", n>> : n \in i}
                       \cup (IF ctx[p].processing THEN {<<"batch", 1>>} ELSE {})
    BY Zenon DEF Awaited, RequestTypes, AnswerTypes
  <1>2. ConnectionInv(ctx[p], outbox[p], inbox[p])  BY Zenon DEF DownloadInv
  <1> HIDE DEF o, i
  <1>3. CASE ctx[p].state = "synchronizing"
    <2>1. AtMostOne(ctx[p], outbox[p], inbox[p])  BY <1>2, <1>3, Zenon DEF ConnectionInv
    <2>2. /\ \A m, n \in o : m = n
          /\ \A m, n \in i : m = n
          /\ o = {} \/ i = {}
          /\ ctx[p].processing => o = {} /\ i = {}
      BY <2>1, Zenon DEF AtMostOne, o, i
    <2> QED  BY <1>1, <1>3, <2>2, Zenon
  <1>4. CASE ctx[p].state \notin {"synchronizing", "shutdown"}
    <2>1. Quiet(ctx[p], outbox[p], inbox[p])  BY <1>2, <1>4, Zenon DEF ConnectionInv
    <2>2. o = {} /\ i = {} /\ ~ctx[p].processing
      BY <2>1, Zenon DEF Quiet, o, i
    <2> QED  BY <1>1, <1>4, <2>1, <2>2, Zenon DEF Quiet
  <1> QED  BY <1>3, <1>4, Zenon

\* No connection is open at first.
LEMMA InitDownload == Init => DownloadInv
  <1> SUFFICES ASSUME Init PROVE DownloadInv  BY Zenon
  <1>1. DOMAIN ctx = Peers /\ DOMAIN inbox = Peers /\ DOMAIN outbox = Peers
    BY Zenon DEF Init
  <1>2. ASSUME NEW p \in Peers
        PROVE  ConnectionInv(ctx[p], outbox[p], inbox[p])
    <2>1. ctx[p] = Closed /\ outbox[p] = <<>> /\ inbox[p] = <<>>  BY Zenon DEF Init
    <2> QED  BY <2>1, EmptyStream DEF ConnectionInv, Quiet, Closed, Fields
  <1> QED  BY <1>1, <1>2, Zenon DEF DownloadInv

\* Reading a message: an answer was the one thing awaited.
LEMMA ReadDownload ==
    ASSUME DownloadInv, NEW p \in Peers, NEW t, Reads(p, t)
    PROVE  /\ DOMAIN inbox' = Peers
           /\ \A r \in Peers \ {p} : inbox'[r] = inbox[r]
           /\ ~ctx[p].processing
           /\ ConnectionInv(ctx[p], outbox[p], inbox'[p])
           /\ t \in AnswerTypes =>
                 /\ ctx[p].state = "synchronizing"
                 /\ Waiting(outbox[p], RequestTypes) = {}
                 /\ Waiting(inbox'[p], AnswerTypes) = {}
  <1> DEFINE in == inbox[p]
  <1>1. /\ in # <<>> /\ Head(in).type = t /\ ~ctx[p].processing
        /\ ctx[p].state \in {"synchronizing", "idle", "normal"}
    BY Zenon DEF Reads
  <1>2. /\ DOMAIN inbox' = Peers /\ inbox'[p] = Tail(in)
        /\ \A r \in Peers \ {p} : inbox'[r] = inbox[r]
    BY Zenon DEF Reads, DownloadInv
  <1>3. ConnectionInv(ctx[p], outbox[p], in)  BY Zenon DEF DownloadInv
  <1>4. IsStream(in)  BY <1>3, Zenon DEF ConnectionInv
  <1>5. t \in AnswerTypes => Waiting(in, AnswerTypes) # {}
    <2> PICK S : in \in Seq(S)  BY <1>4, Zenon DEF IsStream
    <2> QED  BY <1>1 DEF Waiting
  <1>6. CASE ctx[p].state = "synchronizing"
    <2>1. AtMostOne(ctx[p], outbox[p], in)  BY <1>3, <1>6, Zenon DEF ConnectionInv
    <2>2. /\ IsStream(Tail(in))
          /\ Waiting(in, AnswerTypes) = {} => Waiting(Tail(in), AnswerTypes) = {}
          /\ \A i, j \in Waiting(Tail(in), AnswerTypes) : i = j
          /\ t \in AnswerTypes => Waiting(Tail(in), AnswerTypes) = {}
      BY <1>1, <1>4, <2>1, OneRead, Zenon DEF AtMostOne
    <2>3. AtMostOne(ctx[p], outbox[p], Tail(in))  BY <2>1, <2>2, Zenon DEF AtMostOne
    <2>4. ConnectionInv(ctx[p], outbox[p], Tail(in))
      BY <1>3, <1>6, <2>2, <2>3, Zenon DEF ConnectionInv
    <2> QED  BY <1>1, <1>2, <1>5, <1>6, <2>1, <2>2, <2>4, Zenon DEF AtMostOne
  <1>7. CASE ctx[p].state # "synchronizing"
    <2>1. Quiet(ctx[p], outbox[p], in)  BY <1>1, <1>3, <1>7, Zenon DEF ConnectionInv
    <2>2. IsStream(Tail(in)) /\ Waiting(Tail(in), AnswerTypes) = {}
      BY <1>1, <1>4, <2>1, OneRead, Zenon DEF Quiet
    <2>3. ConnectionInv(ctx[p], outbox[p], Tail(in))
      BY <1>3, <1>7, <2>1, <2>2, Zenon DEF ConnectionInv, Quiet
    <2> QED  BY <1>1, <1>2, <1>5, <2>1, <2>3, Zenon DEF Quiet
  <1> QED  BY <1>6, <1>7, Zenon

-----------------------------------------------------------------------------
(* What a handler may do to the context of its connection. *)

\* A handler changes one connection: it is enough to look at that one.
LEMMA Continued ==
    ASSUME DownloadInv, NEW p \in Peers, NEW x, NEW ms, Continue(p, x, ms),
           DOMAIN inbox' = Peers,
           \A r \in Peers \ {p} : inbox'[r] = inbox[r],
           ConnectionInv(x, outbox[p] \o ms, inbox'[p])
    PROVE  DownloadInv'
  <1>1. /\ DOMAIN ctx' = Peers /\ DOMAIN outbox' = Peers
        /\ ctx'[p] = x /\ outbox'[p] = outbox[p] \o ms
        /\ \A r \in Peers \ {p} : ctx'[r] = ctx[r] /\ outbox'[r] = outbox[r]
    BY Zenon DEF Continue, DownloadInv
  <1>2. ASSUME NEW r \in Peers
        PROVE  ConnectionInv(ctx'[r], outbox'[r], inbox'[r])
    <2>1. CASE r = p  BY <1>1, <2>1, Zenon
    <2>2. CASE r # p
      <3>1. ConnectionInv(ctx[r], outbox[r], inbox[r])  BY Zenon DEF DownloadInv
      <3> QED  BY <1>1, <2>2, <3>1, Zenon
    <2> QED  BY <2>1, <2>2, Zenon
  <1> QED  BY <1>1, <1>2, Zenon DEF DownloadInv

\* Sending a message that is no request of a download changes nothing.
LEMMA OtherSent ==
    ASSUME NEW x, NEW out, NEW in, NEW m, m.type \notin RequestTypes,
           ConnectionInv(x, out, in)
    PROVE  ConnectionInv(x, out \o <<m>>, in)
  <1>1. /\ IsStream(out \o <<m>>)
        /\ Waiting(out \o <<m>>, RequestTypes) = Waiting(out, RequestTypes)
    BY OneSent, Zenon DEF ConnectionInv
  <1> QED  BY <1>1, Zenon DEF ConnectionInv, Quiet, AtMostOne

\* A request may be sent when nothing else is awaited.
LEMMA RequestSent ==
    ASSUME NEW x, NEW out, NEW in, NEW m, m.type \in RequestTypes,
           DOMAIN x = Fields, x.processing = FALSE,
           x.state \in {"synchronizing", "shutdown"},
           IsStream(out), IsStream(in),
           Waiting(out, RequestTypes) = {}, Waiting(in, AnswerTypes) = {}
    PROVE  ConnectionInv(x, out \o <<m>>, in)
  <1>1. /\ IsStream(out \o <<m>>)
        /\ Waiting(out \o <<m>>, RequestTypes) = {Len(out) + 1}
    BY OneSent
  <1> QED  BY <1>1, Zenon DEF ConnectionInv, AtMostOne

\* request_missing_objects asks for one thing, or the download is over.
LEMMA RequestMissing ==
    ASSUME NEW p \in Peers, NEW x, NEW c, NEW check, NEW in,
           request_missing_objects(p, x, c, check),
           DOMAIN x = Fields, x.processing = FALSE,
           x.state \in {"synchronizing", "shutdown"},
           IsStream(outbox[p]), IsStream(in),
           Waiting(outbox[p], RequestTypes) = {}, Waiting(in, AnswerTypes) = {}
    PROVE  \E y, ms : /\ Continue(p, y, ms)
                      /\ ConnectionInv(y, outbox[p] \o ms, in)
  <1> DEFINE out == outbox[p]
             end == BatchEnd(c, x.needed, check)
             batch == Wanted(c, SubSeq(x.needed, 1, end), check)
             y1 == [x EXCEPT !.needed = SubSeq(@, end + 1, Len(@)),
                             !.requested = @ \cup {batch[i] : i \in 1..Len(batch)}]
             y3 == [x EXCEPT !.state = "normal"]
  <1>1. CASE Continue(p, y1, <<RequestObjects(batch)>>)
    <2>1. /\ DOMAIN y1 = Fields /\ y1.processing = FALSE
          /\ y1.state \in {"synchronizing", "shutdown"}
      BY Zenon DEF Fields
    <2>2. RequestObjects(batch).type \in RequestTypes
      BY Zenon DEF RequestObjects, RequestTypes
    <2> HIDE DEF y1, batch
    <2>3. ConnectionInv(y1, out \o <<RequestObjects(batch)>>, in)
      BY <2>1, <2>2, RequestSent, Zenon
    <2> QED  BY <1>1, <2>3, Zenon
  <1>2. CASE Continue(p, x, <<RequestChain(c)>>)
    <2>1. RequestChain(c).type \in RequestTypes
      BY Zenon DEF RequestChain, RequestTypes
    <2>2. ConnectionInv(x, out \o <<RequestChain(c)>>, in)
      BY <2>1, RequestSent, Zenon
    <2> QED  BY <1>2, <2>2, Zenon
  <1>3. CASE /\ x.needed = <<>> /\ x.requested = {}
             /\ Continue(p, y3, <<RequestPool(c)>>)
    <2>1. ConnectionInv(y3, out, in)
      BY <1>3, Zenon DEF ConnectionInv, Quiet, Fields
    <2>2. RequestPool(c).type \notin RequestTypes
      BY Zenon DEF RequestPool, RequestTypes
    <2> HIDE DEF y3
    <2>3. ConnectionInv(y3, out \o <<RequestPool(c)>>, in)
      BY <2>1, <2>2, OtherSent, Zenon
    <2> QED  BY <1>3, <2>3, Zenon
  <1>4. CASE Continue(p, x, <<>>)
    <2>1. ConnectionInv(x, out, in)  BY Zenon DEF ConnectionInv, AtMostOne
    <2> QED  BY <1>4, <2>1, NothingSent, Zenon
  <1> QED  BY <1>1, <1>2, <1>3, <1>4, Zenon DEF request_missing_objects

-----------------------------------------------------------------------------
(* The handlers of a download. *)

\* The two states a download can be left for in the middle of a batch.
LEMMA LeaveDownload ==
    ASSUME NEW x, NEW out, NEW in, DOMAIN x = Fields,
           IsStream(out), IsStream(in),
           Waiting(out, RequestTypes) = {}, Waiting(in, AnswerTypes) = {}
    PROVE  /\ ConnectionInv(Idle(x), out, in)
           /\ ConnectionInv(Shutdown(x), out, in)
  <1>1. /\ DOMAIN Idle(x) = Fields /\ Idle(x).state = "idle"
        /\ Idle(x).processing = FALSE
        /\ Idle(x).needed = <<>> /\ Idle(x).requested = {}
    BY Zenon DEF Idle, Fields
  <1>2. /\ DOMAIN Shutdown(x) = Fields /\ Shutdown(x).state = "shutdown"
        /\ Shutdown(x).processing = FALSE
    BY Zenon DEF Shutdown, Fields
  <1> QED  BY <1>1, <1>2, Zenon DEF ConnectionInv, Quiet

\* The answer to the chain request is replaced by the request for its first
\* objects, by nothing at the end of the chain, or by the end of the connection.
LEMMA ChainEntryStep ==
    ASSUME DownloadInv, NEW p \in Peers, handle_response_chain_entry(p)
    PROVE  DownloadInv'
  <1> DEFINE m == Head(inbox[p])
             c == node[Us]
             last == m.start + Len(m.ids) - 1
             unknown == {i \in 1..Len(m.ids) : m.ids[i] \notin c.known}
             needed == IF unknown = {} THEN <<>>
                       ELSE SubSeq(m.ids, Min(unknown), Len(m.ids))
             x == [ctx[p] EXCEPT !.remote = m.total, !.last = last,
                                 !.needed = @ \o needed,
                                 !.state = IF last > m.total THEN "shutdown" ELSE @]
  <1>1. Reads(p, "chain_entry")  BY Zenon DEF handle_response_chain_entry
  <1>2. /\ DOMAIN inbox' = Peers
        /\ \A r \in Peers \ {p} : inbox'[r] = inbox[r]
        /\ ConnectionInv(ctx[p], outbox[p], inbox'[p])
        /\ ctx[p].state = "synchronizing" /\ ~ctx[p].processing
        /\ Waiting(outbox[p], RequestTypes) = {}
        /\ Waiting(inbox'[p], AnswerTypes) = {}
    BY <1>1, ReadDownload, Zenon DEF AnswerTypes
  <1>3. DOMAIN ctx[p] = Fields /\ IsStream(outbox[p]) /\ IsStream(inbox'[p])
        /\ ctx[p].processing = FALSE
    BY <1>2, Zenon DEF ConnectionInv
  <1>4. CASE Continue(p, Shutdown(ctx[p]), <<>>)
    <2>1. ConnectionInv(Shutdown(ctx[p]), outbox[p] \o <<>>, inbox'[p])
      BY <1>2, <1>3, LeaveDownload, NothingSent, Zenon
    <2> QED  BY <1>2, <1>4, <2>1, Continued, Zenon
  <1>5. CASE request_missing_objects(p, x, c, FALSE)
    <2>1. /\ DOMAIN x = Fields /\ x.processing = FALSE
          /\ x.state \in {"synchronizing", "shutdown"}
      BY <1>2, <1>3, Zenon DEF Fields
    <2> HIDE DEF x, c
    <2>2. PICK y, ms : /\ Continue(p, y, ms)
                       /\ ConnectionInv(y, outbox[p] \o ms, inbox'[p])
      BY <1>2, <1>3, <1>5, <2>1, RequestMissing, Zenon
    <2> QED  BY <1>2, <2>2, Continued, Zenon
  <1> QED  BY <1>4, <1>5, Zenon DEF handle_response_chain_entry

\* A turn of the loop of processObjects.
LEMMA ProcessStep ==
    ASSUME DownloadInv, NEW p \in Peers, NEW x, ProcessObject(p, x),
           DOMAIN inbox' = Peers,
           \A r \in Peers \ {p} : inbox'[r] = inbox[r],
           DOMAIN x = Fields, x.processing = TRUE, x.state = "synchronizing",
           IsStream(outbox[p]), IsStream(inbox'[p]),
           Waiting(outbox[p], RequestTypes) = {},
           Waiting(inbox'[p], AnswerTypes) = {}
    PROVE  DownloadInv'
  <1> DEFINE z == [x EXCEPT !.objects = Tail(@)]
  <1>1. /\ ConnectionInv(Idle(x), outbox[p] \o <<>>, inbox'[p])
        /\ ConnectionInv(Shutdown(x), outbox[p] \o <<>>, inbox'[p])
    BY LeaveDownload, NothingSent, Zenon
  <1>2. ConnectionInv(z, outbox[p] \o <<>>, inbox'[p])
    <2>1. DOMAIN z = Fields /\ z.processing = TRUE /\ z.state = "synchronizing"
      BY Zenon DEF Fields
    <2> HIDE DEF z
    <2> QED  BY <2>1, NothingSent, Zenon DEF ConnectionInv, AtMostOne
  <1>3. \/ Continue(p, Idle(x), <<>>)
        \/ Continue(p, Shutdown(x), <<>>)
        \/ Continue(p, z, <<>>)
    BY Zenon DEF ProcessObject
  <1> HIDE DEF z
  <1> QED  BY <1>1, <1>2, <1>3, Continued, Zenon

\* Once a batch is in, request_missing_objects asks for the next one.
LEMMA AfterObjectsStep ==
    ASSUME DownloadInv, NEW p \in Peers, NEW x, NEW c, AfterObjects(p, x, c),
           DOMAIN inbox' = Peers,
           \A r \in Peers \ {p} : inbox'[r] = inbox[r],
           DOMAIN x = Fields, x.processing = FALSE, x.state = "synchronizing",
           IsStream(outbox[p]), IsStream(inbox'[p]),
           Waiting(outbox[p], RequestTypes) = {},
           Waiting(inbox'[p], AnswerTypes) = {}
    PROVE  DownloadInv'
  <1>1. request_missing_objects(p, x, c, TRUE)  BY Zenon DEF AfterObjects
  <1>2. PICK y, ms : /\ Continue(p, y, ms)
                     /\ ConnectionInv(y, outbox[p] \o ms, inbox'[p])
    BY <1>1, RequestMissing, Zenon
  <1> QED  BY <1>2, Continued, Zenon

\* An answer with objects is taken in one go, or begins a batch that no other
\* request runs beside.
LEMMA ObjectsStep ==
    ASSUME DownloadInv, NEW p \in Peers, handle_response_get_objects(p)
    PROVE  DownloadInv'
  <1> DEFINE m == Head(inbox[p])
             x == [ctx[p] EXCEPT !.remote = m.height]
             y == [x EXCEPT !.requested = {}, !.processing = TRUE,
                            !.objects = m.blocks]
  <1>1. Reads(p, "objects")  BY Zenon DEF handle_response_get_objects
  <1>2. /\ DOMAIN inbox' = Peers
        /\ \A r \in Peers \ {p} : inbox'[r] = inbox[r]
        /\ ConnectionInv(ctx[p], outbox[p], inbox'[p])
        /\ ctx[p].state = "synchronizing" /\ ~ctx[p].processing
        /\ Waiting(outbox[p], RequestTypes) = {}
        /\ Waiting(inbox'[p], AnswerTypes) = {}
    BY <1>1, ReadDownload, Zenon DEF AnswerTypes
  <1>3. DOMAIN ctx[p] = Fields /\ IsStream(outbox[p]) /\ IsStream(inbox'[p])
        /\ ctx[p].processing = FALSE
    BY <1>2, Zenon DEF ConnectionInv
  <1>4. DOMAIN x = Fields /\ x.processing = FALSE /\ x.state = "synchronizing"
    BY <1>2, <1>3, Zenon DEF Fields
  <1>5. DOMAIN y = Fields /\ y.processing = TRUE /\ y.state = "synchronizing"
    BY <1>4, Zenon DEF Fields
  <1>6. \/ Continue(p, Idle(x), <<>>)
        \/ Continue(p, Shutdown(x), <<>>)
        \/ AfterObjects(p, x, node[Us])
        \/ ProcessObject(p, y)
    BY Zenon DEF handle_response_get_objects
  <1> HIDE DEF x, y
  <1>7. /\ ConnectionInv(Idle(x), outbox[p] \o <<>>, inbox'[p])
        /\ ConnectionInv(Shutdown(x), outbox[p] \o <<>>, inbox'[p])
    BY <1>2, <1>3, <1>4, LeaveDownload, NothingSent, Zenon
  <1>8. CASE Continue(p, Idle(x), <<>>)  BY <1>2, <1>7, <1>8, Continued, Zenon
  <1>9. CASE Continue(p, Shutdown(x), <<>>)  BY <1>2, <1>7, <1>9, Continued, Zenon
  <1>10. CASE AfterObjects(p, x, node[Us])
    BY <1>2, <1>3, <1>4, <1>10, AfterObjectsStep, Zenon
  <1>11. CASE ProcessObject(p, y)  BY <1>2, <1>3, <1>5, <1>11, ProcessStep, Zenon
  <1> QED  BY <1>6, <1>8, <1>9, <1>10, <1>11, Zenon

\* The coroutine goes on in the middle, or at the end, of a batch.
LEMMA BatchStep ==
    ASSUME DownloadInv, NEW p \in Peers, processObjects(p) \/ FinishObjects(p)
    PROVE  DownloadInv'
  <1> DEFINE x == [ctx[p] EXCEPT !.processing = FALSE]
  <1>1. ctx[p].processing /\ inbox' = inbox
    BY Zenon DEF processObjects, FinishObjects
  <1>2. ConnectionInv(ctx[p], outbox[p], inbox[p])  BY Zenon DEF DownloadInv
  <1>3. /\ DOMAIN ctx[p] = Fields /\ ctx[p].processing = TRUE
        /\ ctx[p].state = "synchronizing"
        /\ IsStream(outbox[p]) /\ IsStream(inbox[p])
        /\ AtMostOne(ctx[p], outbox[p], inbox[p])
    BY <1>1, <1>2, Zenon DEF ConnectionInv
  <1>4. /\ Waiting(outbox[p], RequestTypes) = {}
        /\ Waiting(inbox[p], AnswerTypes) = {}
    BY <1>1, <1>3, Zenon DEF AtMostOne
  <1>5. DOMAIN inbox' = Peers /\ \A r \in Peers \ {p} : inbox'[r] = inbox[r]
    BY <1>1, Zenon DEF DownloadInv
  <1>6. CASE processObjects(p)
    <2>1. ProcessObject(p, ctx[p])  BY <1>6, Zenon DEF processObjects
    <2> QED  BY <1>1, <1>3, <1>4, <1>5, <2>1, ProcessStep, Zenon
  <1>7. CASE FinishObjects(p)
    <2>1. AfterObjects(p, x, node[Us])  BY <1>7, Zenon DEF FinishObjects
    <2>2. DOMAIN x = Fields /\ x.processing = FALSE /\ x.state = "synchronizing"
      BY <1>3, Zenon DEF Fields
    <2> HIDE DEF x
    <2> QED  BY <1>1, <1>3, <1>4, <1>5, <2>1, <2>2, AfterObjectsStep, Zenon
  <1> QED  BY <1>6, <1>7, Zenon

\* The two states the loop of connectionHandler acts on: the assertions of
\* start_sync hold there, as the connection is quiet.
LEMMA LoopStep ==
    ASSUME DownloadInv, NEW p \in Peers,
           start_sync(p) \/ requestMissingPoolTransactions(p)
    PROVE  DownloadInv'
  <1> DEFINE x == [ctx[p] EXCEPT !.state = "synchronizing"]
             y == [ctx[p] EXCEPT !.state = "normal"]
             c == node[Us]
  <1>1. ctx[p].state \in {"sync_required", "pool_sync_required"} /\ inbox' = inbox
    BY Zenon DEF start_sync, requestMissingPoolTransactions
  <1>2. ConnectionInv(ctx[p], outbox[p], inbox[p])  BY Zenon DEF DownloadInv
  <1>3. /\ DOMAIN ctx[p] = Fields /\ ctx[p].processing = FALSE
        /\ IsStream(outbox[p]) /\ IsStream(inbox[p])
        /\ Quiet(ctx[p], outbox[p], inbox[p])
    BY <1>1, <1>2, Zenon DEF ConnectionInv
  <1>4. DOMAIN inbox' = Peers /\ \A r \in Peers \ {p} : inbox'[r] = inbox[r]
    BY <1>1, Zenon DEF DownloadInv
  <1>5. CASE start_sync(p)
    <2>1. Continue(p, x, <<RequestChain(c)>>)  BY <1>5, Zenon DEF start_sync
    <2>2. DOMAIN x = Fields /\ x.processing = FALSE /\ x.state = "synchronizing"
      BY <1>3, Zenon DEF Fields
    <2>3. RequestChain(c).type \in RequestTypes  BY Zenon DEF RequestChain, RequestTypes
    <2> HIDE DEF x, c
    <2>4. ConnectionInv(x, outbox[p] \o <<RequestChain(c)>>, inbox[p])
      BY <1>3, <2>2, <2>3, RequestSent, Zenon DEF Quiet
    <2> QED  BY <1>1, <1>4, <2>1, <2>4, Continued, Zenon
  <1>6. CASE requestMissingPoolTransactions(p)
    <2>1. Continue(p, y, <<RequestPool(c)>>)
      BY <1>6, Zenon DEF requestMissingPoolTransactions
    <2>2. ConnectionInv(y, outbox[p], inbox[p])
      BY <1>3, Zenon DEF ConnectionInv, Quiet, Fields
    <2>3. RequestPool(c).type \notin RequestTypes  BY Zenon DEF RequestPool, RequestTypes
    <2> HIDE DEF y, c
    <2>4. ConnectionInv(y, outbox[p] \o <<RequestPool(c)>>, inbox[p])
      BY <2>2, <2>3, OtherSent, Zenon
    <2> QED  BY <1>1, <1>4, <2>1, <2>4, Continued, Zenon
  <1> QED  BY <1>5, <1>6, Zenon

-----------------------------------------------------------------------------
(* The handlers of what a peer tells on its own. *)

\* The answer to a timed sync starts no download: it only marks the connection,
\* and the loop of the connection starts it.
LEMMA SyncDataStep ==
    ASSUME DownloadInv, NEW p \in Peers, handle_sync_data(p)
    PROVE  DownloadInv'
  <1> DEFINE x == process_payload_sync_data(ctx[p], node[Us], Head(inbox[p]), FALSE)
  <1>1. Reads(p, "sync_data") /\ Continue(p, x, <<>>)  BY Zenon DEF handle_sync_data
  <1>2. /\ DOMAIN inbox' = Peers
        /\ \A r \in Peers \ {p} : inbox'[r] = inbox[r]
        /\ ConnectionInv(ctx[p], outbox[p], inbox'[p])
        /\ ctx[p].state \in {"synchronizing", "idle", "normal"}
    BY <1>1, ReadDownload, Zenon DEF Reads
  <1>3. DOMAIN ctx[p] = Fields  BY <1>2, Zenon DEF ConnectionInv
  <1>4. /\ DOMAIN x = Fields /\ x.processing = ctx[p].processing
        /\ x.needed = ctx[p].needed /\ x.requested = ctx[p].requested
        /\ ctx[p].state = "synchronizing" => x.state = "synchronizing"
        /\ ctx[p].state # "synchronizing" => x.state \in {"sync_required", "normal"}
    BY <1>3, Zenon DEF process_payload_sync_data, Fields
  <1> HIDE DEF x
  <1>5. ConnectionInv(x, outbox[p], inbox'[p])
    BY <1>2, <1>4, Zenon DEF ConnectionInv, Quiet, AtMostOne
  <1>6. ConnectionInv(x, outbox[p] \o <<>>, inbox'[p])
    BY <1>5, NothingSent, Zenon DEF ConnectionInv
  <1> QED  BY <1>1, <1>2, <1>6, Continued, Zenon

\* A context that differs from that of a quiet, normal connection in nothing
\* that belongs to a download.
IsNormal(x, out, in) ==
    /\ DOMAIN x = Fields /\ x.processing = FALSE
    /\ x.state = "normal"
    /\ IsStream(out) /\ IsStream(in)
    /\ Quiet(x, out, in)

\* A connection that has nothing on its way satisfies the invariant.
LEMMA NormalInv ==
    ASSUME NEW x, NEW out, NEW in, IsNormal(x, out, in)
    PROVE  ConnectionInv(x, out, in)
  BY Zenon DEF IsNormal, ConnectionInv

\* A block that was pushed and has no parent here starts a download from the
\* normal state only.
LEMMA PushStep ==
    ASSUME DownloadInv, NEW p \in Peers, NEW x, NEW b, PushBlock(p, x, b),
           DOMAIN inbox' = Peers,
           \A r \in Peers \ {p} : inbox'[r] = inbox[r],
           IsNormal(x, outbox[p], inbox'[p])
    PROVE  DownloadInv'
  <1> DEFINE c == AddBlock(node[Us], b)
             y == [x EXCEPT !.state = "synchronizing"]
  <1>1. \/ Continue(p, y, <<RequestChain(c)>>)
        \/ Continue(p, x, <<RequestPool(c)>>)
        \/ Continue(p, x, <<>>)
    BY Zenon DEF PushBlock
  <1>2. DOMAIN y = Fields /\ y.processing = FALSE /\ y.state = "synchronizing"
    BY Zenon DEF IsNormal, Fields
  <1>3. /\ RequestChain(c).type \in RequestTypes
        /\ RequestPool(c).type \notin RequestTypes
    BY Zenon DEF RequestChain, RequestPool, RequestTypes
  <1> HIDE DEF y, c
  <1>4. ConnectionInv(y, outbox[p] \o <<RequestChain(c)>>, inbox'[p])
    BY <1>2, <1>3, RequestSent, Zenon DEF IsNormal, Quiet
  <1>5. ConnectionInv(x, outbox[p] \o <<RequestPool(c)>>, inbox'[p])
    BY <1>3, NormalInv, OtherSent, Zenon
  <1>6. ConnectionInv(x, outbox[p] \o <<>>, inbox'[p])
    BY NormalInv, NothingSent, Zenon DEF IsNormal
  <1> QED  BY <1>1, <1>4, <1>5, <1>6, Continued, Zenon

\* New blocks and transactions: a connection that synchronizes, or is idle,
\* only notes the height; a normal one is quiet.
LEMMA NotifyStep ==
    ASSUME DownloadInv, NEW p \in Peers,
           \/ handle_notify_new_block(p)
           \/ handle_notify_new_lite_block(p)
           \/ handle_notify_new_transactions(p)
    PROVE  DownloadInv'
  <1> DEFINE m == Head(inbox[p])
             x == [ctx[p] EXCEPT !.remote = m.height]
  <1>1. PICK t \in {"new_block", "new_lite_block", "new_transactions"} : Reads(p, t)
    BY Zenon DEF handle_notify_new_block, handle_notify_new_lite_block,
       handle_notify_new_transactions
  <1>2. /\ DOMAIN inbox' = Peers
        /\ \A r \in Peers \ {p} : inbox'[r] = inbox[r]
        /\ ConnectionInv(ctx[p], outbox[p], inbox'[p])
        /\ ~ctx[p].processing
    BY <1>1, ReadDownload, Zenon
  <1>3. DOMAIN ctx[p] = Fields /\ IsStream(outbox[p])  BY <1>2, Zenon DEF ConnectionInv
  <1>4. /\ DOMAIN x = Fields /\ x.state = ctx[p].state
        /\ x.processing = ctx[p].processing
        /\ x.needed = ctx[p].needed /\ x.requested = ctx[p].requested
    BY <1>3, Zenon DEF Fields
  <1> HIDE DEF x
  <1>5. ConnectionInv(x, outbox[p], inbox'[p])
    BY <1>2, <1>4, Zenon DEF ConnectionInv, Quiet, AtMostOne
  <1>6. /\ ConnectionInv(x, outbox[p] \o <<>>, inbox'[p])
        /\ ConnectionInv(ctx[p], outbox[p] \o <<>>, inbox'[p])
    BY <1>2, <1>3, <1>5, NothingSent, Zenon
  <1>7. ASSUME NEW y \in {ctx[p], x}, NEW b, NEW txs, y.state = "normal",
               PushBlock(p, y, b) \/ doPushLiteBlock(p, y, b, txs)
        PROVE  DownloadInv'
    <2> DEFINE z == [y EXCEPT !.pending = NoPending]
               need == {u \in BlockTxs[b] : u \notin txs /\ ~HasTransaction(node[Us], u)}
               w == [y EXCEPT !.pending = [block |-> b, missed |-> need]]
    <2>1. IsNormal(y, outbox[p], inbox'[p])
      BY <1>2, <1>4, <1>5, <1>7, Zenon DEF IsNormal, ConnectionInv
    <2>2. IsNormal(z, outbox[p], inbox'[p]) /\ IsNormal(w, outbox[p], inbox'[p])
      BY <2>1, Zenon DEF IsNormal, Quiet, Fields
    <2>3. MissingTxs(need).type \notin RequestTypes
      BY Zenon DEF MissingTxs, RequestTypes
    <2>4. \/ PushBlock(p, y, b)
          \/ PushBlock(p, z, b)
          \/ Continue(p, Shutdown(z), <<>>)
          \/ Continue(p, w, <<MissingTxs(need)>>)
      BY <1>7, Zenon DEF doPushLiteBlock
    <2> HIDE DEF z, w, need
    <2>5. CASE PushBlock(p, y, b) \/ PushBlock(p, z, b)
      BY <1>2, <2>1, <2>2, <2>5, PushStep, Zenon
    <2>6. CASE Continue(p, Shutdown(z), <<>>)
      <3>1. ConnectionInv(Shutdown(z), outbox[p] \o <<>>, inbox'[p])
        BY <2>2, LeaveDownload, NothingSent, Zenon DEF IsNormal, Quiet
      <3> QED  BY <1>2, <2>6, <3>1, Continued, Zenon
    <2>7. CASE Continue(p, w, <<MissingTxs(need)>>)
      <3>1. ConnectionInv(w, outbox[p] \o <<MissingTxs(need)>>, inbox'[p])
        BY <2>2, <2>3, NormalInv, OtherSent, Zenon
      <3> QED  BY <1>2, <2>7, <3>1, Continued, Zenon
    <2> QED  BY <2>4, <2>5, <2>6, <2>7, Zenon
  <1>8. \/ Continue(p, x, <<>>)
        \/ Continue(p, ctx[p], <<>>)
        \/ x.state = "normal" /\ PushBlock(p, x, m.block)
        \/ x.state = "normal" /\ doPushLiteBlock(p, x, m.block, {})
        \/ /\ ctx[p].state = "normal"
           /\ doPushLiteBlock(p, ctx[p], ctx[p].pending.block, m.txs)
    BY Zenon DEF handle_notify_new_block, handle_notify_new_lite_block,
       handle_notify_new_transactions, x
  <1>9. CASE Continue(p, x, <<>>) \/ Continue(p, ctx[p], <<>>)
    BY <1>2, <1>6, <1>9, Continued, Zenon
  <1> QED  BY <1>7, <1>8, <1>9, Zenon

-----------------------------------------------------------------------------
(* Connections and peers. *)

\* A connection begins with nothing asked.
LEMMA ConnectStep ==
    ASSUME DownloadInv, NEW p \in Peers, Connect(p)
    PROVE  DownloadInv'
  <1> DEFINE x == process_payload_sync_data(ctx[p], node[Us], SyncData(node[p]), TRUE)
  <1>1. /\ ctx[p].state = "closed" /\ inbox' = inbox
        /\ ctx' = [ctx EXCEPT ![p] = x] /\ outbox' = outbox
    BY Zenon DEF Connect
  <1>2. ConnectionInv(ctx[p], outbox[p], inbox[p])  BY Zenon DEF DownloadInv
  <1>3. DOMAIN ctx[p] = Fields /\ Quiet(ctx[p], outbox[p], inbox[p])
    BY <1>1, <1>2, Zenon DEF ConnectionInv
  <1>4. /\ DOMAIN x = Fields /\ x.processing = ctx[p].processing
        /\ x.needed = ctx[p].needed /\ x.requested = ctx[p].requested
        /\ x.state \in {"sync_required", "pool_sync_required"}
    BY <1>1, <1>3, Zenon DEF process_payload_sync_data, Fields
  <1> HIDE DEF x
  <1>5. ConnectionInv(x, outbox[p], inbox[p])
    BY <1>2, <1>3, <1>4, Zenon DEF ConnectionInv, Quiet
  <1>6. ASSUME NEW r \in Peers
        PROVE  ConnectionInv(ctx'[r], outbox'[r], inbox'[r])
    BY <1>1, <1>5, Zenon DEF DownloadInv
  <1> QED  BY <1>1, <1>6, Zenon DEF DownloadInv

\* A connection that ends takes its requests with it.
LEMMA DisconnectStep ==
    ASSUME DownloadInv, NEW p \in Peers, Disconnect(p)
    PROVE  DownloadInv'
  <1>1. /\ DOMAIN ctx' = Peers /\ DOMAIN inbox' = Peers /\ DOMAIN outbox' = Peers
        /\ ctx'[p] = Closed /\ inbox'[p] = <<>> /\ outbox'[p] = <<>>
        /\ \A r \in Peers \ {p} : /\ ctx'[r] = ctx[r] /\ inbox'[r] = inbox[r]
                                  /\ outbox'[r] = outbox[r]
    BY Zenon DEF Disconnect, DownloadInv
  <1>2. ConnectionInv(Closed, <<>>, <<>>)
    BY EmptyStream, Zenon DEF ConnectionInv, Quiet, Closed, Fields
  <1>3. ASSUME NEW r \in Peers
        PROVE  ConnectionInv(ctx'[r], outbox'[r], inbox'[r])
    BY <1>1, <1>2, Zenon DEF DownloadInv
  <1> QED  BY <1>1, <1>3, Zenon DEF DownloadInv

\* The timed sync of a connection is not a request for blocks.
LEMMA TimedSyncStep ==
    ASSUME DownloadInv, timedSync
    PROVE  DownloadInv'
  <1>1. /\ DOMAIN outbox' = Peers /\ ctx' = ctx /\ inbox' = inbox
        /\ \A p \in Peers : \/ outbox'[p] = outbox[p]
                            \/ outbox'[p] = Append(outbox[p], TimedSyncMessage)
    BY Zenon DEF timedSync
  <1>2. TimedSyncMessage.type \notin RequestTypes
    BY Zenon DEF TimedSyncMessage, RequestTypes
  <1>3. ASSUME NEW p \in Peers
        PROVE  ConnectionInv(ctx'[p], outbox'[p], inbox'[p])
    <2>1. ConnectionInv(ctx[p], outbox[p], inbox[p])  BY Zenon DEF DownloadInv
    <2>2. Append(outbox[p], TimedSyncMessage) = outbox[p] \o <<TimedSyncMessage>>
      <3> PICK S : outbox[p] \in Seq(S)  BY <2>1, Zenon DEF ConnectionInv, IsStream
      <3> QED  OBVIOUS
    <2>3. ConnectionInv(ctx[p], outbox[p] \o <<TimedSyncMessage>>, inbox[p])
      BY <1>2, <2>1, OtherSent, Zenon
    <2> QED  BY <1>1, <2>1, <2>2, <2>3, Zenon
  <1> QED  BY <1>1, <1>3, Zenon DEF DownloadInv

\* A peer tells something that answers no request.
LEMMA TellStep ==
    ASSUME DownloadInv, NEW p \in Peers, NEW m, Tell(p, <<m>>),
           m.type \notin AnswerTypes, ctx' = ctx, outbox' = outbox
    PROVE  DownloadInv'
  <1>1. /\ DOMAIN inbox' = Peers /\ inbox'[p] = inbox[p] \o <<m>>
        /\ \A r \in Peers \ {p} : inbox'[r] = inbox[r]
    BY Zenon DEF Tell, DownloadInv
  <1>2. ConnectionInv(ctx[p], outbox[p], inbox[p])  BY Zenon DEF DownloadInv
  <1>3. /\ IsStream(inbox[p] \o <<m>>)
        /\ Waiting(inbox[p] \o <<m>>, AnswerTypes) = Waiting(inbox[p], AnswerTypes)
    BY <1>2, OneSent DEF ConnectionInv
  <1>4. ConnectionInv(ctx[p], outbox[p], inbox[p] \o <<m>>)
    BY <1>2, <1>3, Zenon DEF ConnectionInv, Quiet, AtMostOne
  <1>5. ASSUME NEW r \in Peers
        PROVE  ConnectionInv(ctx'[r], outbox'[r], inbox'[r])
    BY <1>1, <1>4, Zenon DEF DownloadInv
  <1> QED  BY <1>1, <1>5, Zenon DEF DownloadInv

\* A request leaves the one stream when its answer enters the other.
LEMMA AnswerStep ==
    ASSUME DownloadInv, NEW p \in Peers, NEW t, NEW ms, Answers(p, t, ms),
           ms = <<>> \/ \E m : ms = <<m>> /\ (t \notin RequestTypes =>
                                               m.type \notin AnswerTypes)
    PROVE  DownloadInv'
  <1> DEFINE out == outbox[p]
             in == inbox[p]
  <1>1. /\ out # <<>> /\ Head(out).type = t /\ ctx' = ctx
        /\ DOMAIN inbox' = Peers /\ DOMAIN outbox' = Peers
        /\ outbox'[p] = Tail(out) /\ inbox'[p] = in \o ms
        /\ \A r \in Peers \ {p} : inbox'[r] = inbox[r] /\ outbox'[r] = outbox[r]
    BY Zenon DEF Answers, IsAsked, Tell, DownloadInv
  <1>2. ConnectionInv(ctx[p], out, in)  BY Zenon DEF DownloadInv
  <1>3. IsStream(out) /\ IsStream(in)  BY <1>2, Zenon DEF ConnectionInv
  <1>4. t \in RequestTypes => Waiting(out, RequestTypes) # {}
    <2> PICK S : out \in Seq(S)  BY <1>3, Zenon DEF IsStream
    <2> QED  BY <1>1 DEF Waiting
  <1>5. /\ IsStream(Tail(out))
        /\ Waiting(out, RequestTypes) = {} => Waiting(Tail(out), RequestTypes) = {}
        /\ (\A i, j \in Waiting(out, RequestTypes) : i = j) =>
              /\ \A i, j \in Waiting(Tail(out), RequestTypes) : i = j
              /\ t \in RequestTypes => Waiting(Tail(out), RequestTypes) = {}
    BY <1>1, <1>3, OneRead, Zenon
  <1>6. /\ IsStream(in \o ms)
        /\ \/ Waiting(in \o ms, AnswerTypes) = Waiting(in, AnswerTypes)
           \/ /\ t \in RequestTypes
              /\ Waiting(in \o ms, AnswerTypes) =
                    Waiting(in, AnswerTypes) \cup {Len(in) + 1}
    <2>1. CASE ms = <<>>  BY <1>3, <2>1, NothingSent, Zenon
    <2>2. ASSUME NEW m, ms = <<m>>, t \notin RequestTypes => m.type \notin AnswerTypes
          PROVE  <1>6
      <3>1. /\ IsStream(in \o <<m>>)
            /\ m.type \in AnswerTypes => Waiting(in \o <<m>>, AnswerTypes) =
                  Waiting(in, AnswerTypes) \cup {Len(in) + 1}
            /\ m.type \notin AnswerTypes =>
                  Waiting(in \o <<m>>, AnswerTypes) = Waiting(in, AnswerTypes)
        BY <1>3, OneSent, Zenon
      <3> QED  BY <2>2, <3>1, Zenon
    <2> QED  BY <2>1, <2>2, Zenon
  <1>7. ConnectionInv(ctx[p], Tail(out), in \o ms)
    <2>1. CASE ctx[p].state = "synchronizing"
      <3>1. AtMostOne(ctx[p], out, in)  BY <1>2, <2>1, Zenon DEF ConnectionInv
      <3>2. AtMostOne(ctx[p], Tail(out), in \o ms)
        BY <1>4, <1>5, <1>6, <3>1, Zenon DEF AtMostOne
      <3> QED  BY <1>2, <1>5, <1>6, <2>1, <3>2, Zenon DEF ConnectionInv
    <2>2. CASE ctx[p].state = "shutdown"
      BY <1>2, <1>5, <1>6, <2>2, Zenon DEF ConnectionInv
    <2>3. CASE ctx[p].state \notin {"synchronizing", "shutdown"}
      <3>1. Quiet(ctx[p], out, in)  BY <1>2, <2>3, Zenon DEF ConnectionInv
      <3>2. Quiet(ctx[p], Tail(out), in \o ms)
        BY <1>4, <1>5, <1>6, <3>1, Zenon DEF Quiet
      <3> QED  BY <1>2, <1>5, <1>6, <2>3, <3>2, Zenon DEF ConnectionInv
    <2> QED  BY <2>1, <2>2, <2>3, Zenon
  <1>8. ASSUME NEW r \in Peers
        PROVE  ConnectionInv(ctx'[r], outbox'[r], inbox'[r])
    BY <1>1, <1>7, Zenon DEF DownloadInv
  <1> QED  BY <1>1, <1>8, Zenon DEF DownloadInv

\* A peer answers a request once.
LEMMA PeerAnswersStep ==
    ASSUME DownloadInv, NEW p \in Peers, PeerAnswers(p)
    PROVE  DownloadInv'
  <1>1. CASE handle_timed_sync(p)
    <2>1. SyncData(node[p]).type \notin AnswerTypes  BY Zenon DEF SyncData, AnswerTypes
    <2> QED  BY <1>1, <2>1, AnswerStep, Zenon DEF handle_timed_sync
  <1>2. CASE handle_request_chain(p)
    BY <1>2, AnswerStep, Zenon DEF handle_request_chain, RequestTypes
  <1>3. CASE handle_request_get_objects(p)
    BY <1>3, AnswerStep, Zenon DEF handle_request_get_objects, RequestTypes
  <1>4. CASE handleRequestTxPool(p)
    <2> DEFINE txs == node[p].pool \ Head(outbox[p]).txs
    <2>1. NewTransactions(txs).type \notin AnswerTypes
      BY Zenon DEF NewTransactions, AnswerTypes
    <2>2. \/ Answers(p, "request_pool", <<>>)
          \/ Answers(p, "request_pool", <<NewTransactions(txs)>>)
      BY <1>4, Zenon DEF handleRequestTxPool
    <2> HIDE DEF txs
    <2> QED  BY <2>1, <2>2, AnswerStep, Zenon
  <1>5. CASE handle_notify_missing_txs(p)
    <2> DEFINE txs == Head(outbox[p]).txs
    <2>1. NewTransactions(txs).type \notin AnswerTypes
      BY Zenon DEF NewTransactions, AnswerTypes
    <2>2. Answers(p, "missing_txs", <<NewTransactions(txs)>>)
      BY <1>5, Zenon DEF handle_notify_missing_txs
    <2> HIDE DEF txs
    <2> QED  BY <2>1, <2>2, AnswerStep, Zenon
  <1> QED  BY <1>1, <1>2, <1>3, <1>4, <1>5, Zenon DEF PeerAnswers

\* What only concerns block trees and pools.
LEMMA UnchangedStep ==
    ASSUME DownloadInv, UNCHANGED <<ctx, inbox, outbox>>
    PROVE  DownloadInv'
  BY Zenon DEF DownloadInv

\* What a peer tells on its own answers no request.
LEMMA PeerReceivesStep ==
    ASSUME DownloadInv, NEW p \in Peers, NEW v,
           PeerReceivesBlock(p, v) \/ PeerReceivesTransaction(p, v)
    PROVE  DownloadInv'
  <1>1. /\ NewBlock(p, v).type \notin AnswerTypes
        /\ NewTransactions({v}).type \notin AnswerTypes
    BY Zenon DEF NewBlock, NewTransactions, AnswerTypes
  <1>2. /\ ctx' = ctx /\ outbox' = outbox
        /\ \/ inbox' = inbox
           \/ Tell(p, <<NewBlock(p, v)>>)
           \/ Tell(p, <<NewTransactions({v})>>)
    BY Zenon DEF PeerReceivesBlock, PeerReceivesTransaction
  <1> QED  BY <1>1, <1>2, TellStep, UnchangedStep, Zenon

\* Every step keeps the invariant.
LEMMA NextDownload == DownloadInv /\ [Next]_vars => DownloadInv'
  <1> SUFFICES ASSUME DownloadInv, [Next]_vars PROVE DownloadInv'  BY Zenon
  <1>1. ASSUME NEW p \in Peers, Handle(p) PROVE DownloadInv'
    <2>1. CASE handle_response_chain_entry(p)  BY <2>1, ChainEntryStep, Zenon
    <2>2. CASE handle_response_get_objects(p)  BY <2>2, ObjectsStep, Zenon
    <2>3. CASE processObjects(p) \/ FinishObjects(p)  BY <2>3, BatchStep, Zenon
    <2>4. CASE start_sync(p) \/ requestMissingPoolTransactions(p)  BY <2>4, LoopStep, Zenon
    <2>5. CASE handle_sync_data(p)  BY <2>5, SyncDataStep, Zenon
    <2>6. CASE \/ handle_notify_new_block(p)
               \/ handle_notify_new_lite_block(p)
               \/ handle_notify_new_transactions(p)
      BY <2>6, NotifyStep, Zenon
    <2>7. CASE Close(p)  BY <2>7, DisconnectStep, Zenon DEF Close
    <2> QED  BY <1>1, <2>1, <2>2, <2>3, <2>4, <2>5, <2>6, <2>7, Zenon DEF Handle
  <1>2. CASE UNCHANGED vars  BY <1>2, UnchangedStep, Zenon DEF vars
  <1>3. CASE timedSync  BY <1>3, TimedSyncStep, Zenon
  <1>4. ASSUME NEW p \in Peers, PeerAnswers(p) PROVE DownloadInv'
    BY <1>4, PeerAnswersStep, Zenon
  <1>5. ASSUME NEW p \in Peers, Connect(p) PROVE DownloadInv'
    BY <1>5, ConnectStep, Zenon
  <1>6. ASSUME NEW p \in Peers, Cut(p) PROVE DownloadInv'
    BY <1>6, DisconnectStep, Zenon DEF Cut
  <1>7. ASSUME NEW p \in Peers, NEW v,
               PeerReceivesBlock(p, v) \/ PeerReceivesTransaction(p, v)
        PROVE  DownloadInv'
    BY <1>7, PeerReceivesStep, Zenon
  <1> QED  BY <1>1, <1>2, <1>3, <1>4, <1>5, <1>6, <1>7, Zenon DEF Next

\* The assertions of start_sync (CryptoNoteProtocolHandler.cpp:257) hold, and
\* a connection downloads one thing at a time, whatever the peers, the tree,
\* the batches and the order in which the coroutines run.
THEOREM DownloadIsSingle == Spec => []OneDownload
  <1>1. Init => DownloadInv  BY InitDownload, Zenon
  <1>2. DownloadInv /\ [Next]_vars => DownloadInv'  BY NextDownload, Zenon
  <1>3. DownloadInv => OneDownload  BY DownloadInvImplies, Zenon
  <1> QED  BY <1>1, <1>2, <1>3, PTL DEF Spec
=============================================================================
