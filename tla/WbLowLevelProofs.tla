-------------------------- MODULE WbLowLevelProofs --------------------------
(* Proofs about WbLowLevel, for any contexts, requests, numbers of mailboxes and requests
   of the firmware, and any timeouts.

   What the firmware says of a context and is not processed yet is in three places: the
   context's data queue, the mailbox, and the firmware.  Put behind each other they are
   the context's stream, which no move between them changes: whoever waits for the other
   mailbox only moves what is behind.  The invariant says what a stream may be, one
   context at a time: the rest of a response, which is that of the queue's head, and of a
   request, in either order; and where a request is on its way: to be written, in the
   mailbox, with the firmware, or answered in the stream. *)
EXTENDS WbLowLevel, SequenceTheorems, TLAPS

-----------------------------------------------------------------------------
(* The invariant *)

Part == [kind : {"rqt", "resp"}, ctx : Ctxts, of : Rqts \cup Nat, n : Nat \ {0}, last : BOOLEAN]

\* What the proofs rest on: every message fills a mailbox, and no part is the mark of an
\* empty one.
LlHyp ==
    /\ KContexts \in Nat \ {0}
    /\ RqtContext \in [Rqts -> Ctxts]
    /\ RqtParts \in [Rqts -> Nat \ {0}] /\ RespParts \in [Rqts -> Nat \ {0}]
    /\ Events \in [Ctxts -> Seq(Nat \ {0})]
    /\ NoPart \notin Part

Node == [rqt : Rqts, state : {"QUEUED", "WAITING"}, resp : Seq(Part)]
Frame ==
    [op : {"wait"}, rqt : Rqts] \cup [op : {"next"}, ctx : Ctxts]
    \cup [op : {"one"}, parts : Seq(Part)]
    \cup [op : {"handler"}, at : {"entry", "start", "more"}, ctx : Ctxts] \cup {Crashed}
Lls == [queue : [Ctxts -> Seq(Node)], has_last : [Ctxts -> BOOLEAN],
        data_queue : [Ctxts -> Seq(Part)], rqt_index : [Ctxts -> Nat],
        req : [Ctxts -> Seq(Part)], queued_data : BOOLEAN]
Boxes == [mcu : Part \cup {NoPart}, p0 : Part \cup {NoPart}]
Firmwares == [says : Seq(Part), part : [Ctxts -> Seq(Part)], open : SUBSET Rqts,
              asked : [Ctxts -> Nat], waits : [Ctxts -> BOOLEAN]]
Outcomes == [ret : Results, resp : Seq(Part)]

Typed ==
    /\ ll \in Lls /\ box \in Boxes /\ frames \in Seq(Frame) /\ firmware \in Firmwares
    /\ results \in [Rqts -> Outcomes] /\ events \in [Ctxts -> Seq(Seq(Part))]
    /\ late \in [send : Nat, reply : Nat]

\* The parts of messages.
IsResponsePart(p) ==
    p.kind = "resp" /\ p.of \in Rqts /\ p.n \in 1..RespParts[p.of] /\ p = ResponseMessage(p.of)[p.n]
IsRequestPart(p) ==
    p.kind = "rqt" /\ p.of \in Rqts /\ p.n \in 1..RqtParts[p.of] /\ p = RequestMessage(p.of)[p.n]
IsEventPart(p, c, asked) ==
    /\ p.kind = "rqt" /\ p.of = asked /\ asked \in 1..Len(Events[c])
    /\ p.n \in 1..Events[c][asked] /\ p = EventMessage(c, asked)[p.n]
IsStatusPart(p) == p.kind = "resp" /\ p.last

\* The calls that run: one of CyAsSendOne() sends a status, or the rest of a request for
\* the CyAsLLSendNextRequest() below it; of the handlers one works at a time, the last one
\* called.
Active(f) == f.op = "handler" /\ f.at # "entry"
Handles(f) == f.op = "handler"
Passive(fr) == \A k \in 1..Len(fr) : ~Active(fr[k])
SendsStatus(parts) == Len(parts) = 1 /\ IsStatusPart(parts[1])
SendsRequest(parts) ==
    LET p == parts[1]
    IN  /\ parts # <<>> /\ IsRequestPart(p) /\ Len(parts) = RqtParts[p.of] - p.n + 1
        /\ \A i \in 1..Len(parts) : parts[i] = RequestMessage(p.of)[p.n + i - 1]
CallOK(f, below) ==
    f.op = "one" => \/ SendsStatus(f.parts)
                    \/ SendsRequest(f.parts) /\ below.op = "next"
CallsOK(fr) ==
    /\ \A k \in 1..Len(fr) : fr[k].op = "one" => k > 1 /\ CallOK(fr[k], fr[k - 1])
    /\ \A j, k \in 1..Len(fr) : j < k /\ Active(fr[j]) => ~Handles(fr[k])

\* A context's stream.
Works(f, c) == f.op = "handler" /\ f.at = "more" /\ f.ctx = c
Processing(fr) == {c \in Ctxts : \E k \in 1..Len(fr) : Works(fr[k], c)}
Unread(data, index) == SubSeq(data, index + 1, Len(data))
InBox(p, c) == IF p # NoPart /\ p.ctx = c THEN <<p>> ELSE <<>>
Said(says, c) == IF says # <<>> /\ says[1].ctx = c THEN says ELSE <<>>
Stream(data, index, p0, says, c) == Unread(data, index) \o (InBox(p0, c) \o Said(says, c))

Index(c) == IF c \in Processing(frames) THEN ll.rqt_index[c] ELSE 0
StreamOf(c) == Stream(ll.data_queue[c], Index(c), box.p0, firmware.says, c)

DataOK ==
    /\ \A i \in 1..Len(firmware.says) : firmware.says[i].ctx = firmware.says[1].ctx
    /\ \A c \in Ctxts : Index(c) <= Len(ll.data_queue[c])
    /\ box.mcu # NoPart => IsRequestPart(box.mcu) \/ IsStatusPart(box.mcu)

\* The parts of a message follow each other, and what is stored of it goes on with the first.
Follows(p, q) ==
    IF p.last THEN q.n = 1 ELSE q.kind = p.kind /\ q.of = p.of /\ q.n = p.n + 1
WellFormed(s) ==
    /\ \A i \in 1..(Len(s) - 1) : Follows(s[i], s[i + 1])
    /\ s # <<>> => s[Len(s)].last
StreamIs(c, s, asked) ==
    /\ WellFormed(s)
    /\ \A i \in 1..Len(s) : s[i].ctx = c /\ (IsResponsePart(s[i]) \/ IsEventPart(s[i], c, asked))
Has(s, kind) == \E i \in 1..Len(s) : s[i].kind = kind
Once(s, kind) ==
    \A i, j \in 1..Len(s) : i < j /\ s[i].kind = kind /\ s[j].kind = kind => s[i].n < s[j].n
Stored(s, kind, parts) ==
    /\ s # <<>> /\ s[1].kind = kind => s[1].n = Len(parts) + 1
    /\ parts # <<>> => s # <<>> /\ s[1].kind = kind

\* Where a context's message to the firmware is, with what it is of: the call that writes
\* it, or the mailbox, once its last part is there.
IsOne(f, kind, c) == f.op = "one" /\ f.parts[1].kind = kind /\ f.parts[1].ctx = c
OnesIn(fr, kind, c) ==
    {<<k, fr[k].parts[1].of>> : k \in {j \in 1..Len(fr) : IsOne(fr[j], kind, c)}}
InMail(mcu, kind, c) ==
    IF mcu # NoPart /\ mcu.kind = kind /\ mcu.last /\ mcu.ctx = c THEN {<<0, mcu.of>>} ELSE {}
Places(fr, mcu, kind, c) == OnesIn(fr, kind, c) \cup InMail(mcu, kind, c)

\* A context's stream s and the firmware's requests: what is stored of the one that comes,
\* those given to the callback, how many were asked, whether the firmware waits for the
\* status, and where that is.
EventsOK(c, s, req, given, asked, waits, places) ==
    /\ StreamIs(c, s, asked)
    /\ asked <= Len(Events[c]) /\ asked = Len(given) + (IF Has(s, "rqt") THEN 1 ELSE 0)
    /\ \A k \in 1..Len(given) : given[k] = EventMessage(c, k)
    /\ Has(s, "rqt") => waits /\ places = {}
    /\ places # {} => waits
    /\ \A x, y \in places : x = y
    /\ Once(s, "rqt") /\ Stored(s, "rqt", req)
    /\ \A k \in 1..Len(req) : req[k] = EventMessage(c, asked)[k]
EventsAreOK(c) ==
    EventsOK(c, StreamOf(c), ll.req[c], events[c], firmware.asked[c], firmware.waits[c],
             Places(frames, box.mcu, "resp", c))

\* A context's queue: its nodes are sent requests.
NodesOK(c, q, rets) ==
    /\ \A k \in 1..Len(q) :
           /\ RqtContext[q[k].rqt] = c /\ rets[q[k].rqt].ret = "sent"
           /\ k > 1 => q[k].state = "QUEUED"
           /\ q[k].state = "QUEUED" => q[k].resp = <<>>
    /\ \A j, k \in 1..Len(q) : q[j].rqt = q[k].rqt => j = k
\* The request that is on its way is its head: in one of the places, with the firmware, or
\* answered in the stream.
Waits(q, r) == q # <<>> /\ q[1].state = "WAITING" /\ q[1].rqt = r
Unheard(s, q) == ~Has(s, "resp") /\ q[1].resp = <<>>
QueueOK(s, q, open, places) ==
    /\ \A x, y \in places : x = y
    /\ \A x \in places : Waits(q, x[2]) /\ open = {} /\ Unheard(s, q)
    /\ \A r \in open : Waits(q, r) /\ open = {r} /\ Unheard(s, q)
    /\ \A i \in 1..Len(s) : s[i].kind = "resp" => Waits(q, s[i].of)
    /\ Once(s, "resp")
    /\ q # <<>> => /\ Stored(s, "resp", q[1].resp)
                   /\ \A k \in 1..Len(q[1].resp) : q[1].resp[k] = ResponseMessage(q[1].rqt)[k]
OpenIn(open, c) == {r \in open : RqtContext[r] = c}
QueueIsOK(c) ==
    /\ ll.has_last[c] /\ NodesOK(c, ll.queue[c], results)
    /\ QueueOK(StreamOf(c), ll.queue[c], OpenIn(firmware.open, c), Places(frames, box.mcu, "rqt", c))
ResultsOK == ResponseIsOwn /\ \A r \in Rqts : results[r].ret = "sent" => IsInQueue(r)

LlInv ==
    /\ Typed /\ CallsOK(frames) /\ DataOK /\ \A c \in Ctxts : EventsAreOK(c)
    /\ late.reply = 0 => (\A c \in Ctxts : QueueIsOK(c)) /\ ResultsOK

-----------------------------------------------------------------------------
(* Parts and messages *)

\* A message is a sequence of parts, numbered.
MessageOf(m, kind, c, of, n) ==
    /\ m \in Seq(Part) /\ Len(m) = n /\ n \in Nat \ {0} /\ m # <<>>
    /\ \A k \in 1..n : m[k] \in Part /\ m[k].kind = kind /\ m[k].ctx = c /\ m[k].of = of
                       /\ m[k].n = k /\ m[k].last = (k = n)
LEMMA MessageIs ==
    ASSUME NEW kind \in {"rqt", "resp"}, NEW c \in Ctxts, NEW of \in Rqts \cup Nat, NEW n \in Nat \ {0}
    PROVE  MessageOf(Message(kind, c, of, n), kind, c, of, n)
<1> DEFINE m == Message(kind, c, of, n)
<1>1. m = [k \in 1..n |-> [kind |-> kind, ctx |-> c, of |-> of, n |-> k, last |-> k = n]]
  BY DEF Message
<1> HIDE DEF m
<1>2. \A k \in 1..n : m[k] = [kind |-> kind, ctx |-> c, of |-> of, n |-> k, last |-> k = n]
  BY <1>1
<1>3. ASSUME NEW k \in 1..n
      PROVE  /\ m[k] \in Part /\ m[k].kind = kind /\ m[k].ctx = c /\ m[k].of = of /\ m[k].n = k
             /\ m[k].last = (k = n)
  <2>1. k \in Nat \ {0} /\ (k = n) \in BOOLEAN
    BY <1>3
  <2>2. [kind |-> kind, ctx |-> c, of |-> of, n |-> k, last |-> k = n] \in Part
    BY <2>1 DEF Part
  <2> QED
    BY <1>2, <2>2
<1>4. m \in Seq(Part) /\ Len(m) = n
  <2>1. m \in [1..n -> Part]
    BY <1>1, <1>2, <1>3
  <2> QED
    BY <2>1
<1>5. m # <<>>
  BY <1>4
<1> QED
  BY <1>3, <1>4, <1>5 DEF MessageOf, m

\* The messages of the protocol.
LEMMA MessagesAre ==
    ASSUME LlHyp
    PROVE  /\ \A r \in Rqts :
                  /\ MessageOf(RequestMessage(r), "rqt", RqtContext[r], r, RqtParts[r])
                  /\ MessageOf(ResponseMessage(r), "resp", RqtContext[r], r, RespParts[r])
           /\ \A c \in Ctxts : \A k \in 1..Len(Events[c]) :
                  MessageOf(EventMessage(c, k), "rqt", c, k, Events[c][k])
           /\ \A c \in Ctxts, k \in Nat : MessageOf(StatusMessage(c, k), "resp", c, k, 1)
<1>1. ASSUME NEW r \in Rqts
      PROVE  /\ MessageOf(RequestMessage(r), "rqt", RqtContext[r], r, RqtParts[r])
             /\ MessageOf(ResponseMessage(r), "resp", RqtContext[r], r, RespParts[r])
  <2>1. RqtContext[r] \in Ctxts /\ RqtParts[r] \in Nat \ {0} /\ RespParts[r] \in Nat \ {0}
    BY DEF LlHyp
  <2> QED
    BY <2>1, MessageIs DEF RequestMessage, ResponseMessage
<1>2. ASSUME NEW c \in Ctxts, NEW k \in 1..Len(Events[c])
      PROVE  MessageOf(EventMessage(c, k), "rqt", c, k, Events[c][k])
  <2>1. Events[c] \in Seq(Nat \ {0})
    BY DEF LlHyp
  <2>2. Events[c][k] \in Nat \ {0} /\ k \in Nat
    BY <2>1
  <2> QED
    BY <2>2, MessageIs DEF EventMessage
<1>3. ASSUME NEW c \in Ctxts, NEW k \in Nat
      PROVE  MessageOf(StatusMessage(c, k), "resp", c, k, 1)
  BY MessageIs DEF StatusMessage
<1> QED
  BY <1>1, <1>2, <1>3

\* Parts, as they are known by their numbers.
LEMMA PartsAre ==
    ASSUME LlHyp
    PROVE  /\ \A p : IsResponsePart(p) => /\ p \in Part /\ p.kind = "resp" /\ p.of \in Rqts
                                          /\ p.ctx = RqtContext[p.of] /\ p.last = (p.n = RespParts[p.of])
                                          /\ p.n \in 1..RespParts[p.of]
           /\ \A p : IsRequestPart(p) => /\ p \in Part /\ p.kind = "rqt" /\ p.of \in Rqts
                                         /\ p.ctx = RqtContext[p.of] /\ p.last = (p.n = RqtParts[p.of])
                                         /\ p.n \in 1..RqtParts[p.of]
           /\ \A p : \A c \in Ctxts : \A a \in Nat : IsEventPart(p, c, a) =>
                  /\ p \in Part /\ p.kind = "rqt" /\ p.of = a /\ a \in 1..Len(Events[c])
                  /\ p.ctx = c /\ p.last = (p.n = Events[c][a]) /\ p.n \in 1..Events[c][a]
<1>1. ASSUME NEW p, IsResponsePart(p)
      PROVE  /\ p \in Part /\ p.kind = "resp" /\ p.of \in Rqts
             /\ p.ctx = RqtContext[p.of] /\ p.last = (p.n = RespParts[p.of]) /\ p.n \in 1..RespParts[p.of]
  BY <1>1, MessagesAre DEF IsResponsePart, MessageOf
<1>2. ASSUME NEW p, IsRequestPart(p)
      PROVE  /\ p \in Part /\ p.kind = "rqt" /\ p.of \in Rqts
             /\ p.ctx = RqtContext[p.of] /\ p.last = (p.n = RqtParts[p.of]) /\ p.n \in 1..RqtParts[p.of]
  BY <1>2, MessagesAre DEF IsRequestPart, MessageOf
<1>3. ASSUME NEW p, NEW c \in Ctxts, NEW a \in Nat, IsEventPart(p, c, a)
      PROVE  /\ p \in Part /\ p.kind = "rqt" /\ p.of = a /\ a \in 1..Len(Events[c])
             /\ p.ctx = c /\ p.last = (p.n = Events[c][a]) /\ p.n \in 1..Events[c][a]
  BY <1>3, MessagesAre DEF IsEventPart, MessageOf
<1> QED
  BY <1>1, <1>2, <1>3

-----------------------------------------------------------------------------
(* Streams *)

\* The first part of a stream is taken out.
Shifted(s, t) == Len(t) = Len(s) - 1 /\ \A i \in 1..Len(t) : i + 1 \in 1..Len(s) /\ t[i] = s[i + 1]
LEMMA TailIs ==
    ASSUME NEW S, NEW s \in Seq(S), s # <<>>
    PROVE  /\ Tail(s) \in Seq(S) /\ Len(s) \in Nat \ {0} /\ s[1] \in S /\ Shifted(s, Tail(s))
           /\ Head(s) = s[1]
<1>1. Len(s) \in Nat \ {0} /\ s[1] \in S /\ Head(s) = s[1]
  BY EmptySeq
<1>2. /\ Tail(s) \in Seq(S) /\ Len(Tail(s)) = Len(s) - 1
      /\ \A i \in 1..Len(Tail(s)) : Tail(s)[i] = s[i + 1]
  BY HeadTailProperties
<1> QED
  BY <1>1, <1>2 DEF Shifted

\* What is left is a stream, of which the part's message goes on or is over.
Consumed(s, t) ==
    /\ \A kind \in {"rqt", "resp"} : Once(s, kind) => Once(t, kind)
    /\ \A kind \in {"rqt", "resp"} : kind # s[1].kind =>
          /\ Has(t, kind) <=> Has(s, kind)
          /\ \A parts : Stored(s, kind, parts) => Stored(t, kind, parts)
    /\ ~s[1].last =>
          /\ Has(t, s[1].kind)
          /\ \A parts \in Seq(Part) : Stored(s, s[1].kind, parts) =>
                 Stored(t, s[1].kind, Append(parts, s[1]))
    /\ s[1].last => Stored(t, s[1].kind, <<>>)
    /\ Has(s, s[1].kind)
LEMMA ConsumedIs ==
    ASSUME NEW s \in Seq(Part), NEW t \in Seq(Part), s # <<>>, Len(s) \in Nat \ {0}, Shifted(s, t),
           WellFormed(s)
    PROVE  Consumed(s, t) /\ WellFormed(t)
<1>1. Len(t) \in Nat /\ Len(t) + 1 = Len(s) /\ \A i \in 1..Len(t) : i + 1 \in 1..Len(s) /\ t[i] = s[i + 1]
  BY DEF Shifted
<1>2. s[1] \in Part /\ s[1].kind \in {"rqt", "resp"} /\ s[1].last \in BOOLEAN /\ 1 \in 1..Len(s)
  <2>1. s[1] \in Part /\ 1 \in 1..Len(s)
    OBVIOUS
  <2> QED
    BY <2>1 DEF Part
<1>3. t # <<>> => Len(t) \in Nat \ {0} /\ t[1] = s[2] /\ Follows(s[1], t[1]) /\ t[1] \in Part /\ Len(s) > 1
  <2>1. t # <<>> => Len(t) \in Nat \ {0}
    BY EmptySeq
  <2> QED
    BY <1>1, <2>1 DEF WellFormed
<1>4. WellFormed(t)
  <2>1. ASSUME NEW i \in 1..(Len(t) - 1)
        PROVE  Follows(t[i], t[i + 1])
    <3>1. i \in 1..Len(t) /\ i + 1 \in 1..Len(t) /\ i + 1 \in 1..(Len(s) - 1)
      BY <1>1
    <3>2. t[i] = s[i + 1] /\ t[i + 1] = s[(i + 1) + 1]
      BY <1>1, <3>1
    <3>3. Follows(s[i + 1], s[(i + 1) + 1])
      BY <3>1 DEF WellFormed
    <3> QED
      BY <3>2, <3>3
  <2>2. t # <<>> => t[Len(t)].last
    <3>1. t # <<>> => Len(t) \in 1..Len(t) /\ t[Len(t)] = s[Len(s)]
      BY <1>1, <1>3
    <3> QED
      BY <3>1 DEF WellFormed
  <2> QED
    BY <2>1, <2>2 DEF WellFormed
<1>5. ASSUME NEW kind \in {"rqt", "resp"}, Once(s, kind)
      PROVE  Once(t, kind)
  <2> SUFFICES ASSUME NEW i \in 1..Len(t), NEW j \in 1..Len(t), i < j, t[i].kind = kind, t[j].kind = kind
               PROVE  t[i].n < t[j].n
    BY DEF Once
  <2>1. i + 1 \in 1..Len(s) /\ j + 1 \in 1..Len(s) /\ i + 1 < j + 1
    BY <1>1
  <2> QED
    BY <1>1, <1>5, <2>1 DEF Once
<1>6. ASSUME NEW kind \in {"rqt", "resp"}, kind # s[1].kind
      PROVE  /\ Has(t, kind) <=> Has(s, kind)
             /\ \A parts : Stored(s, kind, parts) => Stored(t, kind, parts)
  <2>1. Has(t, kind) => Has(s, kind)
    BY <1>1 DEF Has
  <2>2. Has(s, kind) => Has(t, kind)
    <3> SUFFICES ASSUME NEW i \in 1..Len(s), s[i].kind = kind
                 PROVE  Has(t, kind)
      BY DEF Has
    <3>1. i # 1
      BY <1>6
    <3>2. i - 1 \in 1..Len(t) /\ (i - 1) + 1 = i
      BY <1>1, <3>1
    <3>3. t[i - 1] = s[i]
      BY <1>1, <3>2
    <3> QED
      BY <3>2, <3>3 DEF Has
  <2>3. ASSUME NEW parts, Stored(s, kind, parts)
        PROVE  Stored(t, kind, parts)
    <3>1. parts = <<>> /\ Len(parts) = 0
      BY <1>6, <2>3, EmptySeq DEF Stored
    <3>2. t # <<>> /\ t[1].kind = kind => t[1].n = 1
      BY <1>3, <1>6 DEF Follows
    <3> QED
      BY <3>1, <3>2 DEF Stored
  <2> QED
    BY <2>1, <2>2, <2>3
<1>7. ASSUME ~s[1].last
      PROVE  /\ Has(t, s[1].kind)
             /\ \A parts \in Seq(Part) : Stored(s, s[1].kind, parts) =>
                    Stored(t, s[1].kind, Append(parts, s[1]))
  <2>1. t # <<>>
    <3>1. Len(s) # 1
      BY <1>7 DEF WellFormed
    <3> QED
      BY <1>1, <3>1
  <2>2. t[1].kind = s[1].kind /\ t[1].n = s[1].n + 1
    BY <1>3, <1>7, <2>1 DEF Follows
  <2>3. 1 \in 1..Len(t)
    BY <1>3, <2>1
  <2>4. ASSUME NEW parts \in Seq(Part), Stored(s, s[1].kind, parts)
        PROVE  Stored(t, s[1].kind, Append(parts, s[1]))
    <3>1. s[1].n = Len(parts) + 1
      BY <2>4 DEF Stored
    <3>2. Len(Append(parts, s[1])) = Len(parts) + 1
      BY <1>2
    <3> QED
      BY <2>1, <2>2, <3>1, <3>2 DEF Stored
  <2> QED
    BY <2>2, <2>3, <2>4 DEF Has
<1>8. ASSUME s[1].last
      PROVE  Stored(t, s[1].kind, <<>>)
  <2>1. t # <<>> => t[1].n = 1
    BY <1>3, <1>8 DEF Follows
  <2>2. Len(<<>>) + 1 = 1
    OBVIOUS
  <2> QED
    BY <2>1, <2>2 DEF Stored
<1>9. Has(s, s[1].kind)
  BY <1>2 DEF Has
<1> QED
  BY <1>4, <1>5, <1>6, <1>7, <1>8, <1>9 DEF Consumed

\* What is left of a context's stream is one; the end of a message is the last of its kind.
LEMMA StreamConsumed ==
    ASSUME LlHyp, NEW c \in Ctxts, NEW a \in Nat, NEW s \in Seq(Part), NEW t \in Seq(Part),
           s # <<>>, Len(s) \in Nat \ {0}, Shifted(s, t), StreamIs(c, s, a)
    PROVE  /\ StreamIs(c, t, a) /\ Consumed(s, t)
           /\ s[1].last /\ s[1].kind = "rqt" /\ Once(s, "rqt") => ~Has(t, "rqt")
           /\ s[1].last /\ s[1].kind = "resp" /\ Once(s, "resp")
              /\ (\A i \in 1..Len(s) : s[i].kind = "resp" => s[i].of = s[1].of) => ~Has(t, "resp")
<1>1. Consumed(s, t) /\ WellFormed(t)
  BY ConsumedIs DEF StreamIs
<1>2. /\ Len(t) \in Nat /\ \A i \in 1..Len(t) : i + 1 \in 1..Len(s) /\ 1 < i + 1 /\ t[i] = s[i + 1]
      /\ 1 \in 1..Len(s)
  BY DEF Shifted
<1>3. \A i \in 1..Len(s) : s[i].ctx = c /\ (IsResponsePart(s[i]) \/ IsEventPart(s[i], c, a))
  BY DEF StreamIs
<1>4. StreamIs(c, t, a)
  BY <1>1, <1>2, <1>3 DEF StreamIs
<1>5. ASSUME s[1].last, s[1].kind = "rqt", Once(s, "rqt")
      PROVE  ~Has(t, "rqt")
  <2> SUFFICES ASSUME NEW i \in 1..Len(t), t[i].kind = "rqt"
               PROVE  FALSE
    BY DEF Has
  <2>1. s[i + 1].kind = "rqt" /\ s[1].n < s[i + 1].n
    BY <1>2, <1>5 DEF Once
  <2>2. IsEventPart(s[1], c, a) /\ IsEventPart(s[i + 1], c, a)
    BY <1>2, <1>3, <1>5, <2>1 DEF IsResponsePart
  <2>3. s[1].n = Events[c][a] /\ s[i + 1].n \in 1..Events[c][a] /\ Events[c][a] \in Nat
    <3>1. Events[c] \in Seq(Nat \ {0})
      BY DEF LlHyp
    <3>2. a \in 1..Len(Events[c])
      BY <2>2 DEF IsEventPart
    <3>3. s[1].last = (s[1].n = Events[c][a]) /\ s[i + 1].n \in 1..Events[c][a]
      BY <2>2, PartsAre
    <3>4. Events[c][a] \in Nat \ {0}
      BY <3>1, <3>2
    <3> QED
      BY <1>5, <3>3, <3>4
  <2> QED
    BY <2>1, <2>3
<1>6. ASSUME s[1].last, s[1].kind = "resp", Once(s, "resp"),
             \A i \in 1..Len(s) : s[i].kind = "resp" => s[i].of = s[1].of
      PROVE  ~Has(t, "resp")
  <2> SUFFICES ASSUME NEW i \in 1..Len(t), t[i].kind = "resp"
               PROVE  FALSE
    BY DEF Has
  <2>1. s[i + 1].kind = "resp" /\ s[1].n < s[i + 1].n /\ s[i + 1].of = s[1].of
    BY <1>2, <1>6 DEF Once
  <2>2. IsResponsePart(s[1]) /\ IsResponsePart(s[i + 1])
    BY <1>2, <1>3, <1>6, <2>1 DEF IsEventPart
  <2>3. s[1].n = RespParts[s[1].of] /\ s[i + 1].n \in 1..RespParts[s[1].of] /\ RespParts[s[1].of] \in Nat
    <3>1. RespParts[s[1].of] \in Nat \ {0}
      BY <2>2 DEF LlHyp, IsResponsePart
    <3>2. s[1].last = (s[1].n = RespParts[s[1].of]) /\ s[i + 1].n \in 1..RespParts[s[i + 1].of]
      BY <2>2, PartsAre
    <3> QED
      BY <1>6, <2>1, <3>1, <3>2
  <2> QED
    BY <2>1, <2>3
<1> QED
  BY <1>1, <1>4, <1>5, <1>6

\* A message is put behind a stream, which may have none of its kind.
Added(s, u, kind) ==
    /\ Has(u, kind)
    /\ \A other \in {"rqt", "resp"} : other # kind =>
          /\ Once(s, other) => Once(u, other)
          /\ Has(u, other) <=> Has(s, other)
          /\ \A parts : Stored(s, other, parts) => Stored(u, other, parts)
    /\ ~Has(s, kind) =>
          /\ Once(u, kind)
          /\ \A parts : Stored(s, kind, parts) => parts = <<>> /\ Stored(u, kind, parts)
Joined(s, m, u) ==
    /\ Len(u) = Len(s) + Len(m)
    /\ \A i \in 1..Len(u) : \/ i \in 1..Len(s) /\ u[i] = s[i]
                            \/ i - Len(s) \in 1..Len(m) /\ u[i] = m[i - Len(s)]
    /\ \A i \in 1..Len(s) : i \in 1..Len(u) /\ u[i] = s[i]
    /\ \A i \in 1..Len(m) : i + Len(s) \in 1..Len(u) /\ u[i + Len(s)] = m[i]
LEMMA JoinedIs ==
    ASSUME NEW S, NEW s \in Seq(S), NEW m \in Seq(S)
    PROVE  s \o m \in Seq(S) /\ Len(s) \in Nat /\ Len(m) \in Nat /\ Joined(s, m, s \o m)
<1> DEFINE u == s \o m
<1>1. /\ u \in Seq(S) /\ Len(u) = Len(s) + Len(m)
      /\ \A i \in 1..Len(s) + Len(m) : u[i] = IF i <= Len(s) THEN s[i] ELSE m[i - Len(s)]
  BY ConcatProperties
<1>2. Len(s) \in Nat /\ Len(m) \in Nat
  OBVIOUS
<1> HIDE DEF u
<1>3. ASSUME NEW i \in 1..Len(u)
      PROVE  \/ i \in 1..Len(s) /\ u[i] = s[i]
             \/ i - Len(s) \in 1..Len(m) /\ u[i] = m[i - Len(s)]
  <2>1. i <= Len(s) \/ i - Len(s) \in 1..Len(m)
    BY <1>1, <1>2
  <2> QED
    BY <1>1, <1>2, <2>1
<1>4. ASSUME NEW i \in 1..Len(s)
      PROVE  i \in 1..Len(u) /\ u[i] = s[i]
  BY <1>1, <1>2
<1>5. ASSUME NEW i \in 1..Len(m)
      PROVE  i + Len(s) \in 1..Len(u) /\ u[i + Len(s)] = m[i]
  <2>1. i + Len(s) \in 1..Len(u) /\ ~(i + Len(s) <= Len(s)) /\ (i + Len(s)) - Len(s) = i
    BY <1>1, <1>2
  <2> QED
    BY <1>1, <2>1
<1> QED
  BY <1>1, <1>2, <1>3, <1>4, <1>5 DEF Joined, u

LEMMA AddedIs ==
    ASSUME NEW s \in Seq(Part), NEW m \in Seq(Part), NEW u \in Seq(Part), Joined(s, m, u),
           WellFormed(s), NEW kind \in {"rqt", "resp"},
           NEW c, NEW of, NEW n, MessageOf(m, kind, c, of, n)
    PROVE  Added(s, u, kind) /\ WellFormed(u)
<1>1. Len(s) \in Nat /\ Len(m) \in Nat \ {0} /\ Len(m) = n /\ Len(u) \in Nat /\ n \in Nat \ {0}
  BY DEF MessageOf
<1>2. \A k \in 1..n : /\ m[k].kind = kind /\ m[k].of = of /\ m[k].n = k /\ m[k].last = (k = n)
                      /\ m[k].kind \in {"rqt", "resp"} /\ k + Len(s) \in 1..Len(u)
                      /\ u[k + Len(s)] = m[k]
  BY <1>1 DEF MessageOf, Joined
<1>3. Len(u) = Len(s) + n
      /\ \A i \in 1..Len(u) : \/ i \in 1..Len(s) /\ u[i] = s[i] /\ (~Has(s, kind) => u[i].kind # kind)
                              \/ i - Len(s) \in 1..n /\ u[i] = m[i - Len(s)] /\ u[i].kind = kind
  BY <1>1, <1>2 DEF Joined, Has
<1>4. WellFormed(u)
  <2>1. ASSUME NEW i \in 1..(Len(u) - 1)
        PROVE  Follows(u[i], u[i + 1])
    <3>1. CASE i < Len(s)
      <4>1. i \in 1..Len(s) /\ i + 1 \in 1..Len(s) /\ i \in 1..(Len(s) - 1)
        BY <1>1, <3>1
      <4>2. u[i] = s[i] /\ u[i + 1] = s[i + 1]
        BY <4>1 DEF Joined
      <4> QED
        BY <4>1, <4>2 DEF WellFormed
    <3>2. CASE i = Len(s)
      <4>1. i \in 1..Len(s) /\ 1 \in 1..n /\ i + 1 = 1 + Len(s) /\ s # <<>>
        BY <1>1, <3>2
      <4>2. u[i] = s[Len(s)] /\ u[i + 1] = m[1] /\ m[1].n = 1
        BY <1>2, <3>2, <4>1 DEF Joined
      <4>3. s[Len(s)].last
        BY <4>1 DEF WellFormed
      <4> QED
        BY <4>2, <4>3 DEF Follows
    <3>3. CASE i > Len(s)
      <4> DEFINE k == i - Len(s)
      <4>1. k \in 1..n /\ k + 1 \in 1..n /\ i = k + Len(s) /\ i + 1 = (k + 1) + Len(s) /\ k # n
        BY <1>1, <1>3, <3>3
      <4> HIDE DEF k
      <4>2. u[i] = m[k] /\ u[i + 1] = m[k + 1]
        BY <1>2, <4>1
      <4>3. ~m[k].last /\ m[k + 1].kind = m[k].kind /\ m[k + 1].of = m[k].of /\ m[k + 1].n = m[k].n + 1
        BY <1>2, <4>1
      <4> QED
        BY <4>2, <4>3 DEF Follows
    <3> QED
      BY <1>1, <3>1, <3>2, <3>3
  <2>2. u[Len(u)].last
    <3>1. n \in 1..n /\ Len(u) = n + Len(s)
      BY <1>1, <1>3
    <3> QED
      BY <1>2, <3>1
  <2> QED
    BY <2>1, <2>2 DEF WellFormed
<1>5. Has(u, kind)
  <2>1. 1 \in 1..n
    BY <1>1
  <2> QED
    BY <1>2, <2>1 DEF Has
<1>6. ASSUME ~Has(s, kind)
      PROVE  Once(u, kind)
  <2> SUFFICES ASSUME NEW i \in 1..Len(u), NEW j \in 1..Len(u), i < j, u[i].kind = kind, u[j].kind = kind
               PROVE  u[i].n < u[j].n
    BY DEF Once
  <2>1. /\ i - Len(s) \in 1..n /\ u[i] = m[i - Len(s)]
        /\ j - Len(s) \in 1..n /\ u[j] = m[j - Len(s)]
    BY <1>3, <1>6
  <2>2. u[i].n = i - Len(s) /\ u[j].n = j - Len(s)
    BY <1>2, <2>1
  <2> QED
    BY <1>1, <2>2
<1>7. u[1] = IF s = <<>> THEN m[1] ELSE s[1]
  <2>1. s = <<>> => u[1 + Len(s)] = m[1] /\ 1 + Len(s) = 1
    BY <1>1, <1>2
  <2>2. s # <<>> => 1 \in 1..Len(s)
    BY <1>1
  <2> QED
    BY <2>1, <2>2 DEF Joined
<1>8. m[1].kind = kind /\ m[1].n = 1 /\ u # <<>> /\ (~Has(s, kind) => (s # <<>> => s[1].kind # kind))
  <2>1. 1 \in 1..n /\ (s # <<>> => 1 \in 1..Len(s)) /\ Len(u) # 0
    BY <1>1, <1>3
  <2> QED
    BY <1>2, <2>1 DEF Has
<1>9. ASSUME NEW other \in {"rqt", "resp"}, other # kind
      PROVE  /\ Once(s, other) => Once(u, other)
             /\ Has(u, other) <=> Has(s, other)
             /\ \A parts : Stored(s, other, parts) => Stored(u, other, parts)
  <2>1. \A i \in 1..Len(u) : u[i].kind = other => i \in 1..Len(s) /\ u[i] = s[i]
    BY <1>3, <1>9
  <2>2. Once(s, other) => Once(u, other)
    BY <2>1 DEF Once
  <2>3. Has(u, other) <=> Has(s, other)
    BY <2>1 DEF Has, Joined
  <2>4. ASSUME NEW parts, Stored(s, other, parts)
        PROVE  Stored(u, other, parts)
    BY <1>7, <1>8, <1>9, <2>4 DEF Stored
  <2> QED
    BY <2>2, <2>3, <2>4
<1>10. ASSUME ~Has(s, kind), NEW parts, Stored(s, kind, parts)
       PROVE  parts = <<>> /\ Stored(u, kind, parts)
  <2>1. parts = <<>>
    BY <1>8, <1>10, Zenon DEF Stored
  <2>2. u[1].kind = kind => u[1].n = Len(<<>>) + 1
    <3>1. u[1].kind = kind => u[1] = m[1]
      BY <1>7, <1>8, <1>10, Zenon
    <3>2. Len(<<>>) + 1 = 1
      OBVIOUS
    <3> QED
      BY <1>8, <3>1, <3>2
  <2> QED
    BY <2>1, <2>2 DEF Stored
<1> QED
  BY <1>4, <1>5, <1>6, <1>9, <1>10 DEF Added

-----------------------------------------------------------------------------
(* The stack of calls *)

\* What calls have, by their kind.
FrameFields(f) ==
    /\ f.op \in {"wait", "next", "one", "handler", "crashed"}
    /\ f.op = "wait" => f.rqt \in Rqts
    /\ f.op = "next" => f.ctx \in Ctxts
    /\ f.op = "one" => f.parts \in Seq(Part)
    /\ f.op = "handler" => f.at \in {"entry", "start", "more"} /\ f.ctx \in Ctxts
LEMMA FrameIs ==
    ASSUME NEW f \in Frame
    PROVE  FrameFields(f)
<1>1. CASE f \in [op : {"wait"}, rqt : Rqts]
  BY <1>1 DEF FrameFields
<1>2. CASE f \in [op : {"next"}, ctx : Ctxts]
  BY <1>2 DEF FrameFields
<1>3. CASE f \in [op : {"one"}, parts : Seq(Part)]
  BY <1>3 DEF FrameFields
<1>4. CASE f \in [op : {"handler"}, at : {"entry", "start", "more"}, ctx : Ctxts]
  BY <1>4 DEF FrameFields
<1>5. CASE f = Crashed
  BY <1>5 DEF FrameFields, Crashed
<1> QED
  BY <1>1, <1>2, <1>3, <1>4, <1>5 DEF Frame

\* And how they are made.
LEMMA FramesMade ==
    /\ \A r \in Rqts : Wait(r) \in Frame /\ Wait(r).op = "wait"
    /\ \A c \in Ctxts : SendNext(c) \in Frame /\ SendNext(c).op = "next" /\ SendNext(c).ctx = c
    /\ \A parts \in Seq(Part) :
           SendOne(parts) \in Frame /\ SendOne(parts).op = "one" /\ SendOne(parts).parts = parts
    /\ \A at \in {"entry", "start", "more"}, c \in Ctxts :
           /\ Handler(at, c) \in Frame /\ Handler(at, c).op = "handler"
           /\ Handler(at, c).at = at /\ Handler(at, c).ctx = c
    /\ Crashed \in Frame /\ Crashed.op = "crashed"
<1>1. ASSUME NEW r \in Rqts
      PROVE  Wait(r) \in Frame /\ Wait(r).op = "wait"
  <2>1. Wait(r) \in [op : {"wait"}, rqt : Rqts]
    BY DEF Wait
  <2> QED
    BY <2>1 DEF Frame
<1>2. ASSUME NEW c \in Ctxts
      PROVE  SendNext(c) \in Frame /\ SendNext(c).op = "next" /\ SendNext(c).ctx = c
  <2>1. SendNext(c) \in [op : {"next"}, ctx : Ctxts]
    BY DEF SendNext
  <2>2. SendNext(c).ctx = c
    BY DEF SendNext
  <2> QED
    BY <2>1, <2>2 DEF Frame
<1>3. ASSUME NEW parts \in Seq(Part)
      PROVE  SendOne(parts) \in Frame /\ SendOne(parts).op = "one" /\ SendOne(parts).parts = parts
  <2>1. SendOne(parts) \in [op : {"one"}, parts : Seq(Part)]
    BY DEF SendOne
  <2>2. SendOne(parts).parts = parts
    BY DEF SendOne
  <2> QED
    BY <2>1, <2>2 DEF Frame
<1>4. ASSUME NEW at \in {"entry", "start", "more"}, NEW c \in Ctxts
      PROVE  /\ Handler(at, c) \in Frame /\ Handler(at, c).op = "handler"
             /\ Handler(at, c).at = at /\ Handler(at, c).ctx = c
  <2>1. Handler(at, c) \in [op : {"handler"}, at : {"entry", "start", "more"}, ctx : Ctxts]
    BY DEF Handler
  <2>2. Handler(at, c).at = at /\ Handler(at, c).ctx = c
    BY DEF Handler
  <2> QED
    BY <2>1, <2>2 DEF Frame
<1>5. Crashed \in Frame /\ Crashed.op = "crashed"
  BY DEF Frame, Crashed
<1> QED
  BY <1>1, <1>2, <1>3, <1>4, <1>5

\* Stack g is stack b with call f on top: what is said of stacks is said of b and f.
TopOK(b, f) ==
    /\ f.op = "one" => b # <<>> /\ CallOK(f, b[Len(b)])
    /\ Handles(f) => Passive(b)
OneOf(f, kind, c, k) == IF IsOne(f, kind, c) THEN {<<k, f.parts[1].of>>} ELSE {}
Pushed(b, f, g) ==
    /\ CallsOK(g) <=> CallsOK(b) /\ TopOK(b, f)
    /\ Passive(g) <=> Passive(b) /\ ~Active(f)
    /\ \A c \in Ctxts : c \in Processing(g) <=> c \in Processing(b) \/ Works(f, c)
    /\ \A kind \in {"rqt", "resp"}, c \in Ctxts :
           /\ OnesIn(g, kind, c) = OnesIn(b, kind, c) \cup OneOf(f, kind, c, Len(b) + 1)
           /\ \A x \in OnesIn(b, kind, c) : x[1] # Len(b) + 1 /\ x[1] # 0
    /\ Passive(b) => \A c \in Ctxts : c \notin Processing(b)
LEMMA PushedIs ==
    ASSUME NEW b \in Seq(Frame), NEW f \in Frame
    PROVE  /\ Append(b, f) \in Seq(Frame) /\ Pushed(b, f, Append(b, f)) /\ Append(b, f) # <<>>
           /\ Len(Append(b, f)) = Len(b) + 1 /\ Append(b, f)[Len(b) + 1] = f
<1> DEFINE g == Append(b, f)
           n == Len(b) + 1
<1>1. /\ g \in Seq(Frame) /\ g # <<>> /\ Len(g) = n /\ g[n] = f
      /\ \A k \in 1..Len(b) : g[k] = b[k]
  BY AppendProperties
<1>2. Len(b) \in Nat /\ n = Len(b) + 1
  OBVIOUS
<1> HIDE DEF g, n
<1>3. /\ \A k \in 1..Len(g) : (k \in 1..Len(b) /\ g[k] = b[k]) \/ (k = n /\ g[k] = f)
      /\ \A k \in 1..Len(b) : k \in 1..Len(g) /\ g[k] = b[k] /\ k < n /\ k # n
      /\ n \in 1..Len(g) /\ g[n] = f
  <2>1. \A k \in 1..Len(g) : k \in 1..Len(b) \/ k = n
    BY <1>1, <1>2
  <2>2. \A k \in 1..Len(b) : k \in 1..Len(g) /\ k < n /\ k # n
    BY <1>1, <1>2
  <2>3. n \in 1..Len(g)
    BY <1>1, <1>2
  <2> QED
    BY <1>1, <2>1, <2>2, <2>3, Zenon
<1>4. Passive(g) <=> Passive(b) /\ ~Active(f)
  BY <1>3 DEF Passive
<1>5. ASSUME NEW c \in Ctxts
      PROVE  c \in Processing(g) <=> c \in Processing(b) \/ Works(f, c)
  BY <1>3 DEF Processing
<1>6. ASSUME NEW kind \in {"rqt", "resp"}, NEW c \in Ctxts
      PROVE  /\ OnesIn(g, kind, c) = OnesIn(b, kind, c) \cup OneOf(f, kind, c, n)
             /\ \A x \in OnesIn(b, kind, c) : x[1] # n /\ x[1] # 0
  <2>1. \A x : x \in OnesIn(g, kind, c) <=>
                  \E k \in 1..Len(g) : IsOne(g[k], kind, c) /\ x = <<k, g[k].parts[1].of>>
    BY DEF OnesIn
  <2>2. \A x : x \in OnesIn(b, kind, c) <=>
                  \E k \in 1..Len(b) : IsOne(b[k], kind, c) /\ x = <<k, b[k].parts[1].of>>
    BY DEF OnesIn
  <2>3. \A x : x \in OneOf(f, kind, c, n) <=> IsOne(f, kind, c) /\ x = <<n, f.parts[1].of>>
    BY DEF OneOf
  <2>4. OnesIn(g, kind, c) = OnesIn(b, kind, c) \cup OneOf(f, kind, c, n)
    BY <1>3, <2>1, <2>2, <2>3
  <2>5. ASSUME NEW x \in OnesIn(b, kind, c)
        PROVE  x[1] # n /\ x[1] # 0
    <3>1. PICK k \in 1..Len(b) : x = <<k, b[k].parts[1].of>>
      BY <2>2
    <3>2. x[1] = k
      BY <3>1
    <3> QED
      BY <1>2, <3>2
  <2> QED
    BY <2>4, <2>5
<1>7. CallsOK(g) <=> CallsOK(b) /\ TopOK(b, f)
  <2>1. ASSUME CallsOK(g)
        PROVE  CallsOK(b) /\ TopOK(b, f)
    <3>1. ASSUME NEW k \in 1..Len(b), b[k].op = "one"
          PROVE  k > 1 /\ CallOK(b[k], b[k - 1])
      <4>1. k > 1 /\ CallOK(g[k], g[k - 1])
        BY <1>3, <2>1, <3>1 DEF CallsOK
      <4>2. k - 1 \in 1..Len(b)
        BY <1>2, <4>1
      <4> QED
        BY <1>3, <4>1, <4>2
    <3>2. \A j, k \in 1..Len(b) : j < k /\ Active(b[j]) => ~Handles(b[k])
      BY <1>3, <2>1 DEF CallsOK
    <3>3. f.op = "one" => b # <<>> /\ CallOK(f, b[Len(b)])
      <4>1. f.op = "one" => n > 1 /\ CallOK(f, g[n - 1])
        BY <1>3, <2>1 DEF CallsOK
      <4>2. n - 1 = Len(b) /\ (n > 1 => Len(b) \in 1..Len(b) /\ b # <<>>)
        BY <1>2
      <4> QED
        BY <1>3, <4>1, <4>2
    <3>4. Handles(f) => Passive(b)
      BY <1>3, <2>1 DEF CallsOK, Passive
    <3> QED
      BY <3>1, <3>2, <3>3, <3>4 DEF CallsOK, TopOK
  <2>2. ASSUME CallsOK(b), TopOK(b, f)
        PROVE  CallsOK(g)
    <3>1. ASSUME NEW k \in 1..Len(g), g[k].op = "one"
          PROVE  k > 1 /\ CallOK(g[k], g[k - 1])
      <4>1. CASE k \in 1..Len(b) /\ g[k] = b[k]
        <5>1. k > 1 /\ CallOK(b[k], b[k - 1])
          BY <2>2, <3>1, <4>1 DEF CallsOK
        <5>2. k - 1 \in 1..Len(b)
          BY <1>2, <4>1, <5>1
        <5> QED
          BY <1>3, <4>1, <5>1, <5>2
      <4>2. CASE k = n /\ g[k] = f
        <5>1. b # <<>> /\ CallOK(f, b[Len(b)])
          BY <2>2, <3>1, <4>2 DEF TopOK
        <5>2. Len(b) \in 1..Len(b) /\ n > 1 /\ n - 1 = Len(b)
          BY <1>2, <5>1, EmptySeq
        <5> QED
          BY <1>3, <4>2, <5>1, <5>2
      <4> QED
        BY <1>3, <4>1, <4>2
    <3>2. ASSUME NEW j \in 1..Len(g), NEW k \in 1..Len(g), j < k, Active(g[j])
          PROVE  ~Handles(g[k])
      <4>1. j \in 1..Len(b) /\ g[j] = b[j]
        BY <1>2, <1>3, <3>2
      <4>2. CASE k \in 1..Len(b) /\ g[k] = b[k]
        BY <2>2, <3>2, <4>1, <4>2 DEF CallsOK
      <4>3. CASE k = n /\ g[k] = f
        BY <2>2, <3>2, <4>1, <4>3 DEF TopOK, Passive
      <4> QED
        BY <1>3, <4>2, <4>3
    <3> QED
      BY <3>1, <3>2 DEF CallsOK
  <2> QED
    BY <2>1, <2>2
<1>8. Passive(b) => \A c \in Ctxts : c \notin Processing(b)
  BY DEF Passive, Processing, Works, Active
<1> QED
  BY <1>1, <1>4, <1>5, <1>6, <1>7, <1>8 DEF Pushed, g, n

\* A stack that is not empty is one with its top pushed.
LEMMA TopIs ==
    ASSUME NEW g \in Seq(Frame), g # <<>>
    PROVE  /\ Front(g) \in Seq(Frame) /\ Last(g) \in Frame /\ Pushed(Front(g), Last(g), g)
           /\ Len(g) = Len(Front(g)) + 1 /\ g = Append(Front(g), Last(g))
           /\ (Front(g) # <<>> => Last(Front(g)) = Front(g)[Len(Front(g))])
<1> DEFINE b == Front(g)
           f == Last(g)
<1>1. Len(g) \in Nat \ {0}
  BY EmptySeq
<1>2. f \in Frame
  BY <1>1 DEF Last
<1>3. b \in Seq(Frame) /\ Len(b) = Len(g) - 1 /\ \A i \in 1..(Len(g) - 1) : b[i] = g[i]
  <2>1. b = SubSeq(g, 1, Len(g) - 1)
    BY DEF Front
  <2>2. \A i \in 1..(Len(g) - 1) : g[i] \in Frame
    BY <1>1
  <2> DEFINE n == Len(g) - 1
  <2>3. 1 \in Int /\ n \in Int /\ n \in Nat
    BY <1>1
  <2> HIDE DEF n
  <2>4. /\ SubSeq(g, 1, n) \in Seq(Frame)
        /\ Len(SubSeq(g, 1, n)) = IF 1 <= n THEN n - 1 + 1 ELSE 0
        /\ \A i \in 1..(n - 1 + 1) : SubSeq(g, 1, n)[i] = g[1 + i - 1]
    BY <2>2, <2>3, SubSeqProperties DEF n
  <2>5. Len(SubSeq(g, 1, n)) = n
    BY <2>3, <2>4
  <2>6. \A i \in 1..n : i \in 1..(n - 1 + 1) /\ 1 + i - 1 = i
    BY <2>3
  <2>7. \A i \in 1..n : SubSeq(g, 1, n)[i] = g[i]
    BY <2>4, <2>6
  <2> QED
    BY <2>1, <2>4, <2>5, <2>7, Zenon DEF n
<1> HIDE DEF b
<1>4. g = Append(b, f)
  <2>1. /\ Append(b, f) \in Seq(Frame) /\ Len(Append(b, f)) = Len(b) + 1
        /\ \A i \in 1..Len(b) : Append(b, f)[i] = b[i]
        /\ Append(b, f)[Len(b) + 1] = f
    BY <1>2, <1>3, AppendProperties
  <2>2. \A i \in 1..Len(g) : g[i] = Append(b, f)[i]
    BY <1>1, <1>3, <2>1 DEF Last
  <2>3. Len(g) = Len(Append(b, f))
    BY <1>1, <1>3, <2>1
  <2> QED
    BY <2>1, <2>2, <2>3, SeqEqual
<1> HIDE DEF f
<1>5. Pushed(b, f, g) /\ Len(g) = Len(b) + 1
  BY <1>2, <1>3, <1>4, PushedIs
<1> QED
  BY <1>2, <1>3, <1>4, <1>5 DEF b, f, Last

-----------------------------------------------------------------------------
(* Moves of the streams *)

\* What is not read of a data queue.
Rest(data, index, u) ==
    /\ u \in Seq(Part) /\ Len(u) = Len(data) - index /\ Len(u) \in Nat
    /\ \A i \in 1..Len(u) : index + i \in 1..Len(data) /\ u[i] = data[index + i]
LEMMA UnreadIs ==
    ASSUME NEW data \in Seq(Part), NEW index \in Nat, index <= Len(data)
    PROVE  Rest(data, index, Unread(data, index))
<1> DEFINE u == SubSeq(data, index + 1, Len(data))
<1>1. Len(data) \in Nat /\ index + 1 \in Int /\ Len(data) \in Int
  OBVIOUS
<1>2. \A i \in (index + 1)..Len(data) : data[i] \in Part
  BY <1>1
<1>3. /\ u \in Seq(Part) /\ Len(u) = IF index + 1 <= Len(data) THEN Len(data) - (index + 1) + 1 ELSE 0
      /\ \A i \in 1..(Len(data) - (index + 1) + 1) : u[i] = data[index + 1 + i - 1]
  BY <1>1, <1>2, SubSeqProperties
<1> HIDE DEF u
<1>4. Len(u) = Len(data) - index
  BY <1>1, <1>3
<1>5. ASSUME NEW i \in 1..Len(u)
      PROVE  index + i \in 1..Len(data) /\ u[i] = data[index + i]
  <2>1. index + i \in 1..Len(data) /\ i \in 1..(Len(data) - (index + 1) + 1) /\ index + 1 + i - 1 = index + i
    BY <1>1, <1>4
  <2> QED
    BY <1>3, <2>1
<1> QED
  BY <1>1, <1>3, <1>4, <1>5 DEF Rest, Unread, u

\* Streams are sequences of parts, in three pieces.
LEMMA Pieces ==
    ASSUME NEW data \in Seq(Part), NEW index \in Nat, index <= Len(data),
           NEW p0 \in Part \cup {NoPart}, NEW says \in Seq(Part), NEW c
    PROVE  /\ Unread(data, index) \in Seq(Part) /\ InBox(p0, c) \in Seq(Part) /\ Said(says, c) \in Seq(Part)
           /\ InBox(p0, c) \o Said(says, c) \in Seq(Part)
           /\ Stream(data, index, p0, says, c) \in Seq(Part)
           /\ InBox(NoPart, c) = <<>> /\ Said(<<>>, c) = <<>>
<1>1. Unread(data, index) \in Seq(Part)
  BY UnreadIs DEF Rest
<1>2. InBox(p0, c) \in Seq(Part) /\ InBox(NoPart, c) = <<>>
  BY DEF InBox
<1>3. Said(says, c) \in Seq(Part) /\ Said(<<>>, c) = <<>>
  BY DEF Said
<1>4. InBox(p0, c) \o Said(says, c) \in Seq(Part)
  BY <1>2, <1>3, ConcatProperties
<1> QED
  BY <1>1, <1>2, <1>3, <1>4, ConcatProperties DEF Stream

\* The firmware's mailbox is queued as data of its context.
LEMMA DataQueued ==
    ASSUME LlHyp, NEW data \in Seq(Part), NEW index \in Nat, index <= Len(data),
           NEW p \in Part, NEW says \in Seq(Part), NEW c
    PROVE  /\ p.ctx = c => Stream(Append(data, p), index, NoPart, says, c) = Stream(data, index, p, says, c)
           /\ p.ctx # c => Stream(data, index, NoPart, says, c) = Stream(data, index, p, says, c)
<1> DEFINE u == Unread(data, index)
           d == Append(data, p)
           v == Unread(d, index)
           said == Said(says, c)
<1>1. p # NoPart
  BY DEF LlHyp
<1>2. u \in Seq(Part) /\ said \in Seq(Part) /\ InBox(NoPart, c) = <<>> /\ <<p>> \in Seq(Part)
  BY Pieces
<1>3. ASSUME p.ctx = c
      PROVE  Stream(d, index, NoPart, says, c) = Stream(data, index, p, says, c)
  <2>1. InBox(p, c) = <<p>>
    BY <1>1, <1>3 DEF InBox
  <2>2. /\ d \in Seq(Part) /\ Len(d) = Len(data) + 1 /\ \A i \in 1..Len(data) : d[i] = data[i]
        /\ d[Len(data) + 1] = p
    BY AppendProperties
  <2>3. Len(data) \in Nat
    OBVIOUS
  <2> HIDE DEF d
  <2>4. index <= Len(d)
    BY <2>2, <2>3
  <2>5. /\ u \in Seq(Part) /\ Len(u) = Len(data) - index /\ Len(u) \in Nat
        /\ \A i \in 1..Len(u) : index + i \in 1..Len(data) /\ u[i] = data[index + i]
    BY UnreadIs DEF Rest
  <2>6. /\ v \in Seq(Part) /\ Len(v) = Len(d) - index /\ Len(v) \in Nat
        /\ \A i \in 1..Len(v) : index + i \in 1..Len(d) /\ v[i] = d[index + i]
    BY <2>2, <2>4, UnreadIs DEF Rest
  <2> HIDE DEF u, v
  <2>7. /\ Append(u, p) \in Seq(Part) /\ Len(Append(u, p)) = Len(u) + 1
        /\ \A i \in 1..Len(u) : Append(u, p)[i] = u[i]
        /\ Append(u, p)[Len(u) + 1] = p
    BY <2>5, AppendProperties
  <2>8. v = Append(u, p)
    <3>1. Len(v) = Len(Append(u, p))
      BY <2>2, <2>3, <2>5, <2>6, <2>7
    <3>2. ASSUME NEW i \in 1..Len(v)
          PROVE  v[i] = Append(u, p)[i]
      <4>1. CASE i \in 1..Len(u)
        BY <2>2, <2>5, <2>6, <2>7, <4>1
      <4>2. CASE i = Len(u) + 1
        <5>1. index + i = Len(data) + 1
          BY <2>3, <2>5, <4>2
        <5> QED
          BY <2>2, <2>6, <2>7, <4>2, <5>1
      <4>3. i \in 1..Len(u) \/ i = Len(u) + 1
        BY <2>5, <2>7, <3>1
      <4> QED
        BY <4>1, <4>2, <4>3
    <3> QED
      BY <2>6, <2>7, <3>1, <3>2, SeqEqual
  <2>9. v = u \o <<p>>
    BY <2>5, <2>8, AppendIsConcat
  <2> HIDE DEF said
  <2>10. v \o (<<>> \o said) = u \o (<<p>> \o said)
    <3>1. <<>> \o said = said
      BY <1>2, ConcatEmptySeq
    <3>2. (u \o <<p>>) \o said = u \o (<<p>> \o said)
      BY <1>2, <2>5, ConcatAssociative
    <3> QED
      BY <2>9, <3>1, <3>2, Zenon
  <2> QED
    BY <1>2, <2>1, <2>10 DEF Stream, u, v, said
<1>4. ASSUME p.ctx # c
      PROVE  Stream(data, index, NoPart, says, c) = Stream(data, index, p, says, c)
  BY <1>2, <1>4 DEF Stream, InBox
<1> QED
  BY <1>3, <1>4

\* The firmware puts the next part into the mailbox.
LEMMA PartPut ==
    ASSUME LlHyp, NEW data \in Seq(Part), NEW index \in Nat, index <= Len(data),
           NEW says \in Seq(Part), says # <<>>, \A i \in 1..Len(says) : says[i].ctx = says[1].ctx, NEW c
    PROVE  Stream(data, index, Head(says), Tail(says), c) = Stream(data, index, NoPart, says, c)
<1> DEFINE h == Head(says)
           tl == Tail(says)
<1>1. tl \in Seq(Part) /\ Len(says) \in Nat \ {0} /\ says[1] \in Part /\ Shifted(says, tl) /\ h = says[1]
  BY TailIs
<1>2. h # NoPart /\ InBox(NoPart, c) = <<>>
  BY <1>1, Pieces DEF LlHyp
<1> HIDE DEF h, tl
<1>3. CASE h.ctx = c
  <2>1. InBox(h, c) = <<h>> /\ Said(says, c) = says
    BY <1>1, <1>2, <1>3 DEF InBox, Said
  <2>2. Said(tl, c) = tl
    <3>1. tl # <<>> => tl[1] = says[2] /\ 2 \in 1..Len(says)
      BY <1>1 DEF Shifted
    <3> QED
      BY <1>1, <1>3, <3>1 DEF Said
  <2>3. <<h>> \o tl = says
    <3>1. /\ <<h>> \o tl \in Seq(Part) /\ Len(<<h>> \o tl) = 1 + Len(tl)
          /\ \A i \in 1..(1 + Len(tl)) : (<<h>> \o tl)[i] = IF i <= 1 THEN <<h>>[i] ELSE tl[i - 1]
      <4>1. <<h>> \in Seq(Part) /\ Len(<<h>>) = 1
        BY <1>1
      <4> QED
        BY <1>1, <4>1, ConcatProperties
    <3>2. Len(tl) + 1 = Len(says) /\ Len(tl) \in Nat /\ \A i \in 1..Len(tl) : tl[i] = says[i + 1]
      BY <1>1 DEF Shifted
    <3>3. ASSUME NEW i \in 1..Len(says)
          PROVE  (<<h>> \o tl)[i] = says[i]
      <4>1. CASE i = 1
        BY <1>1, <3>1, <3>2, <4>1
      <4>2. CASE i # 1
        <5>1. i - 1 \in 1..Len(tl) /\ (i - 1) + 1 = i /\ i \in 1..(1 + Len(tl)) /\ ~(i <= 1)
          BY <3>2, <4>2
        <5> QED
          BY <3>1, <3>2, <5>1
      <4> QED
        BY <4>1, <4>2
    <3>4. Len(<<h>> \o tl) = Len(says)
      BY <3>1, <3>2
    <3> QED
      BY <3>1, <3>3, <3>4, SeqEqual
  <2>4. <<>> \o says = says
    BY ConcatEmptySeq
  <2> QED
    BY <1>2, <2>1, <2>2, <2>3, <2>4, Zenon DEF Stream, h, tl
<1>4. CASE h.ctx # c
  <2>1. InBox(h, c) = <<>> /\ Said(says, c) = <<>>
    BY <1>1, <1>2, <1>4 DEF InBox, Said
  <2>2. Said(tl, c) = <<>>
    <3>1. tl # <<>> => tl[1] = says[2] /\ 2 \in 1..Len(says)
      BY <1>1 DEF Shifted
    <3> QED
      BY <1>1, <1>4, <3>1 DEF Said
  <2> QED
    BY <1>2, <2>1, <2>2, Zenon DEF Stream, h, tl
<1> QED
  BY <1>3, <1>4

\* The handler reads a mailbox of the data queue, or moves it out of it.
Taken(data, index, p0, says, c, s, t) ==
    /\ s \in Seq(Part) /\ t \in Seq(Part) /\ s # <<>> /\ Len(s) \in Nat \ {0} /\ Shifted(s, t)
    /\ s[1] = data[index + 1] /\ s[1] \in Part
    /\ SubSeq(data, (index + 1) + 1, Len(data)) \in Seq(Part)
    /\ Stream(SubSeq(data, (index + 1) + 1, Len(data)), 0, p0, says, c) = t
LEMMA DataRead ==
    ASSUME LlHyp, NEW data \in Seq(Part), NEW index \in Nat, index < Len(data),
           NEW p0 \in Part \cup {NoPart}, NEW says \in Seq(Part), NEW c
    PROVE  Taken(data, index, p0, says, c,
                 Stream(data, index, p0, says, c), Stream(data, index + 1, p0, says, c))
<1> SUFFICES ASSUME NEW s, s = Stream(data, index, p0, says, c),
                    NEW t, t = Stream(data, index + 1, p0, says, c)
             PROVE  Taken(data, index, p0, says, c, s, t)
  BY Zenon
<1> DEFINE u == Unread(data, index)
           v == Unread(data, index + 1)
           w == InBox(p0, c) \o Said(says, c)
<1>1. Len(data) \in Nat /\ index <= Len(data) /\ index + 1 <= Len(data) /\ index + 1 \in Nat
  OBVIOUS
<1>2. /\ u \in Seq(Part) /\ Len(u) = Len(data) - index /\ Len(u) \in Nat
      /\ \A i \in 1..Len(u) : index + i \in 1..Len(data) /\ u[i] = data[index + i]
  BY <1>1, UnreadIs DEF Rest
<1>3. /\ v \in Seq(Part) /\ Len(v) = Len(data) - (index + 1) /\ Len(v) \in Nat
      /\ \A i \in 1..Len(v) : (index + 1) + i \in 1..Len(data) /\ v[i] = data[(index + 1) + i]
  BY <1>1, UnreadIs DEF Rest
<1>4. w \in Seq(Part) /\ Len(w) \in Nat /\ s \in Seq(Part) /\ t \in Seq(Part)
  BY <1>1, Pieces
<1>5. s = u \o w /\ t = v \o w /\ v = SubSeq(data, (index + 1) + 1, Len(data))
  BY DEF Stream, Unread
<1> HIDE DEF u, v, w
<1>6. /\ Len(s) = Len(u) + Len(w)
      /\ \A i \in 1..(Len(u) + Len(w)) : s[i] = IF i <= Len(u) THEN u[i] ELSE w[i - Len(u)]
  <2>1. /\ Len(u \o w) = Len(u) + Len(w)
        /\ \A i \in 1..(Len(u) + Len(w)) : (u \o w)[i] = IF i <= Len(u) THEN u[i] ELSE w[i - Len(u)]
    BY <1>2, <1>4, ConcatProperties
  <2> QED
    BY <1>5, <2>1, Zenon
<1>7. /\ Len(t) = Len(v) + Len(w)
      /\ \A i \in 1..(Len(v) + Len(w)) : t[i] = IF i <= Len(v) THEN v[i] ELSE w[i - Len(v)]
  <2>1. /\ Len(v \o w) = Len(v) + Len(w)
        /\ \A i \in 1..(Len(v) + Len(w)) : (v \o w)[i] = IF i <= Len(v) THEN v[i] ELSE w[i - Len(v)]
    BY <1>3, <1>4, ConcatProperties
  <2> QED
    BY <1>5, <2>1, Zenon
<1>8. Len(s) \in Nat \ {0} /\ s # <<>> /\ Len(t) = Len(s) - 1 /\ 1 \in 1..Len(u) /\ 1 \in 1..Len(s) /\ Len(u) = Len(v) + 1
  <2>1. Len(s) \in Nat \ {0} /\ Len(t) = Len(s) - 1 /\ 1 \in 1..Len(u) /\ 1 \in 1..Len(s) /\ Len(u) = Len(v) + 1
    BY <1>1, <1>2, <1>3, <1>4, <1>6, <1>7
  <2>2. s # <<>>
    BY <2>1, EmptySeq
  <2> QED
    BY <2>1, <2>2
<1>9. s[1] = data[index + 1] /\ s[1] \in Part
  <2>1. 1 <= Len(u) /\ 1 \in 1..(Len(u) + Len(w))
    BY <1>2, <1>4, <1>8
  <2>2. s[1] = u[1] /\ u[1] = data[index + 1]
    BY <1>2, <1>6, <1>8, <2>1
  <2> QED
    BY <1>4, <1>8, <2>2
<1>10. ASSUME NEW i \in 1..Len(t)
       PROVE  i + 1 \in 1..Len(s) /\ t[i] = s[i + 1]
  <2>1. i + 1 \in 1..Len(s) /\ i \in 1..(Len(v) + Len(w)) /\ i + 1 \in 1..(Len(u) + Len(w))
    BY <1>3, <1>4, <1>6, <1>7, <1>8
  <2>2. CASE i <= Len(v)
    <3>1. i \in 1..Len(v) /\ i + 1 \in 1..Len(u) /\ i + 1 <= Len(u) /\ index + (i + 1) = (index + 1) + i
      BY <1>2, <1>3, <1>8, <2>2
    <3>2. t[i] = v[i] /\ v[i] = data[(index + 1) + i]
      BY <1>3, <1>7, <2>1, <2>2, <3>1
    <3>3. s[i + 1] = u[i + 1] /\ u[i + 1] = data[index + (i + 1)]
      BY <1>2, <1>6, <2>1, <3>1
    <3> QED
      BY <2>1, <3>1, <3>2, <3>3
  <2>3. CASE ~(i <= Len(v))
    <3>1. ~(i + 1 <= Len(u)) /\ i - Len(v) = (i + 1) - Len(u)
      BY <1>2, <1>3, <1>8, <2>3
    <3> QED
      BY <1>6, <1>7, <2>1, <2>3, <3>1
  <2> QED
    BY <2>1, <2>2, <2>3
<1>11. Stream(v, 0, p0, says, c) = t
  <2>1. Unread(v, 0) = v
    <3>1. SubSeq(v, 1, Len(v)) = v
      BY <1>3, SubSeqFull
    <3>2. 0 + 1 = 1
      OBVIOUS
    <3> QED
      BY <3>1, <3>2 DEF Unread
  <2> QED
    BY <1>5, <2>1, Zenon DEF Stream, w
<1> QED
  BY <1>3, <1>4, <1>5, <1>8, <1>9, <1>10, <1>11 DEF Shifted, Taken

\* A data queue that is read is emptied.
LEMMA DataEmptied ==
    ASSUME NEW data \in Seq(Part), NEW p0, NEW says, NEW c
    PROVE  Stream(<<>>, 0, p0, says, c) = Stream(data, Len(data), p0, says, c)
<1>1. Unread(data, Len(data)) = <<>>
  BY SubSeqEmpty DEF Unread
<1>2. Unread(<<>>, 0) = <<>>
  <2>1. Len(<<>>) = 0
    OBVIOUS
  <2>2. SubSeq(<<>>, 0 + 1, 0) = <<>>
    BY SubSeqEmpty
  <2> QED
    BY <2>1, <2>2 DEF Unread
<1> QED
  BY <1>1, <1>2, Zenon DEF Stream

\* The firmware says a message.
LEMMA MessageSaid ==
    ASSUME LlHyp, NEW data \in Seq(Part), NEW index \in Nat, index <= Len(data),
           NEW p0 \in Part \cup {NoPart}, NEW m \in Seq(Part), m # <<>>, NEW c
    PROVE  /\ m[1].ctx # c => Stream(data, index, p0, m, c) = Stream(data, index, p0, <<>>, c)
           /\ m[1].ctx = c => Joined(Stream(data, index, p0, <<>>, c), m, Stream(data, index, p0, m, c))
<1> DEFINE u == Unread(data, index)
           b == InBox(p0, c)
<1>1. u \in Seq(Part) /\ b \in Seq(Part) /\ Said(<<>>, c) = <<>> /\ b \o <<>> = b
  <2>1. u \in Seq(Part) /\ b \in Seq(Part) /\ Said(<<>>, c) = <<>>
    <3>1. <<>> \in Seq(Part)
      OBVIOUS
    <3> QED
      BY <3>1, Pieces
  <2> HIDE DEF b, u
  <2> QED
    BY <2>1, ConcatEmptySeq
<1>2. m[1].ctx # c => Said(m, c) = <<>>
  BY DEF Said
<1>3. ASSUME m[1].ctx = c
      PROVE  Joined(Stream(data, index, p0, <<>>, c), m, Stream(data, index, p0, m, c))
  <2>1. Said(m, c) = m
    BY <1>3 DEF Said
  <2>2. (u \o b) \o m = u \o (b \o m)
    <3> HIDE DEF b, u
    <3> QED
      BY <1>1, ConcatAssociative
  <2>3. u \o b \in Seq(Part)
    <3> HIDE DEF b, u
    <3> QED
      BY <1>1, ConcatProperties
  <2>4. Joined(u \o b, m, (u \o b) \o m)
    <3> HIDE DEF b, u
    <3> QED
      BY <2>3, JoinedIs
  <2> QED
    BY <1>1, <2>1, <2>2, <2>4, Zenon DEF Stream
<1> QED
  BY <1>1, <1>2, <1>3, Zenon DEF Stream
-----------------------------------------------------------------------------
(* Calls and returns *)

\* Two stacks of which the same is said.
Same(g, h) ==
    /\ h \in Seq(Frame) /\ CallsOK(h)
    /\ \A c \in Ctxts : c \in Processing(h) <=> c \in Processing(g)
    /\ \A kind \in {"rqt", "resp"}, c \in Ctxts : OnesIn(h, kind, c) = OnesIn(g, kind, c)

\* A call that sends nothing and reads nothing.
Idle(f) == f.op # "one" /\ \A c \in Ctxts : ~Works(f, c)
LEMMA IdleCall ==
    ASSUME NEW b \in Seq(Frame), CallsOK(b), NEW f \in Frame, Idle(f), Handles(f) => Passive(b)
    PROVE  Same(b, Append(b, f))
<1>1. Append(b, f) \in Seq(Frame) /\ Pushed(b, f, Append(b, f))
  BY PushedIs
<1>2. TopOK(b, f)
  BY DEF TopOK, Idle
<1>3. \A kind \in {"rqt", "resp"}, c \in Ctxts : OneOf(f, kind, c, Len(b) + 1) = {}
  BY DEF OneOf, IsOne, Idle
<1> QED
  BY <1>1, <1>2, <1>3 DEF Pushed, Same, Idle
LEMMA IdleReturn ==
    ASSUME NEW g \in Seq(Frame), g # <<>>, CallsOK(g), Idle(Last(g))
    PROVE  Same(g, Front(g)) /\ TopOK(Front(g), Last(g))
<1>1. Front(g) \in Seq(Frame) /\ Pushed(Front(g), Last(g), g)
  BY TopIs
<1>2. \A kind \in {"rqt", "resp"}, c \in Ctxts : OneOf(Last(g), kind, c, Len(Front(g)) + 1) = {}
  BY DEF OneOf, IsOne, Idle
<1>3. CallsOK(Front(g)) /\ TopOK(Front(g), Last(g))
  BY <1>1 DEF Pushed
<1> QED
  BY <1>1, <1>2, <1>3 DEF Pushed, Same, Idle
LEMMA IdleGoesOn ==
    ASSUME NEW g \in Seq(Frame), g # <<>>, CallsOK(g), Idle(Last(g)),
           NEW f \in Frame, Idle(f), Handles(f) => Handles(Last(g))
    PROVE  Same(g, Append(Front(g), f))
<1>1. Same(g, Front(g)) /\ TopOK(Front(g), Last(g))
  BY IdleReturn
<1>2. Front(g) \in Seq(Frame) /\ CallsOK(Front(g)) /\ (Handles(f) => Passive(Front(g)))
  BY <1>1 DEF Same, TopOK
<1>3. Same(Front(g), Append(Front(g), f))
  BY <1>2, IdleCall
<1> QED
  BY <1>1, <1>3 DEF Same

\* A call on top of one that goes on.
LEMMA TwoCalls ==
    ASSUME NEW b \in Seq(Frame), NEW f \in Frame, NEW g \in Frame
    PROVE  b \o <<f, g>> = Append(Append(b, f), g)
<1>1. <<f>> \in Seq(Frame) /\ <<g>> \in Seq(Frame)
  OBVIOUS
<1>2. <<f>> \o <<g>> = <<f, g>>
  <2>1. Len(<<f>>) = 1 /\ Len(<<g>>) = 1 /\ <<f>>[1] = f /\ <<g>>[1] = g
    OBVIOUS
  <2>2. <<f, g>> \in Seq(Frame) /\ Len(<<f, g>>) = 2 /\ <<f, g>>[1] = f /\ <<f, g>>[2] = g
    OBVIOUS
  <2> DEFINE e == <<f>>
             h == <<g>>
             k == <<f, g>>
  <2> HIDE DEF e, h, k
  <2>3. /\ e \o h \in Seq(Frame) /\ Len(e \o h) = Len(e) + Len(h)
        /\ \A i \in 1..Len(e) + Len(h) : (e \o h)[i] = IF i <= Len(e) THEN e[i] ELSE h[i - Len(e)]
    BY <1>1, ConcatProperties DEF e, h
  <2>4. Len(e) = 1 /\ Len(h) = 1 /\ e[1] = f /\ h[1] = g
    BY <2>1, Zenon DEF e, h
  <2>5. k \in Seq(Frame) /\ Len(k) = 2 /\ k[1] = f /\ k[2] = g
    BY <2>2, Zenon DEF k
  <2>6. Len(e \o h) = Len(k) /\ \A i \in 1..Len(e \o h) : (e \o h)[i] = k[i]
    <3>1. Len(e \o h) = Len(k)
      BY <2>3, <2>4, <2>5
    <3>2. (e \o h)[1] = k[1] /\ (e \o h)[2] = k[2]
      BY <2>3, <2>4, <2>5
    <3>3. \A i \in 1..Len(e \o h) : i = 1 \/ i = 2
      BY <2>5, <3>1
    <3> QED
      BY <3>1, <3>2, <3>3, Zenon
  <2>7. e \o h = k
    BY <2>3, <2>5, <2>6, SeqEqual
  <2> QED
    BY <2>7, Zenon DEF e, h, k
<1>3. Append(b, f) \in Seq(Frame) /\ Append(b, f) = b \o <<f>>
  BY AppendProperties, AppendIsConcat
<1>4. Append(Append(b, f), g) = Append(b, f) \o <<g>>
  BY <1>3, AppendIsConcat
<1>5. (b \o <<f>>) \o <<g>> = b \o (<<f>> \o <<g>>)
  BY <1>1, ConcatAssociative
<1> QED
  BY <1>2, <1>3, <1>4, <1>5, Zenon

\* The handler on top is the one that works, and goes on.
LEMMA HandlerGoesOn ==
    ASSUME NEW g \in Seq(Frame), g # <<>>, CallsOK(g), Last(g).op = "handler", NEW c \in Ctxts
    PROVE  /\ \A d \in Ctxts : d \in Processing(g) <=> Works(Last(g), d)
           /\ Append(Front(g), Handler("more", c)) \in Seq(Frame)
           /\ CallsOK(Append(Front(g), Handler("more", c)))
           /\ \A d \in Ctxts : d \in Processing(Append(Front(g), Handler("more", c))) <=> d = c
           /\ \A kind \in {"rqt", "resp"}, d \in Ctxts :
                  OnesIn(Append(Front(g), Handler("more", c)), kind, d) = OnesIn(g, kind, d)
<1> DEFINE b == Front(g)
           f == Handler("more", c)
           h == Append(b, f)
<1>1. b \in Seq(Frame) /\ Pushed(b, Last(g), g)
  BY TopIs
<1>2. f \in Frame /\ f.op = "handler" /\ f.at = "more" /\ f.ctx = c
  BY FramesMade
<1> HIDE DEF f, b
<1>3. h \in Seq(Frame) /\ Pushed(b, f, h)
  BY <1>1, <1>2, PushedIs
<1> HIDE DEF h
<1>4. CallsOK(b) /\ Passive(b) /\ \A d \in Ctxts : d \notin Processing(b)
  BY <1>1 DEF Pushed, TopOK, Handles
<1>5. TopOK(b, f)
  BY <1>2, <1>4 DEF TopOK, Handles
<1>6. \A kind \in {"rqt", "resp"}, d \in Ctxts : OnesIn(h, kind, d) = OnesIn(g, kind, d)
  <2>1. \A kind \in {"rqt", "resp"}, d \in Ctxts :
            OneOf(Last(g), kind, d, Len(b) + 1) = {} /\ OneOf(f, kind, d, Len(b) + 1) = {}
    BY <1>2 DEF OneOf, IsOne
  <2> QED
    BY <1>1, <1>3, <2>1 DEF Pushed
<1>7. \A d \in Ctxts : d \in Processing(g) <=> Works(Last(g), d)
  BY <1>1, <1>4 DEF Pushed
<1>8. \A d \in Ctxts : d \in Processing(h) <=> d = c
  <2>1. \A d \in Ctxts : Works(f, d) <=> d = c
    BY <1>2 DEF Works
  <2> QED
    BY <1>3, <1>4, <2>1 DEF Pushed
<1>9. CallsOK(h)
  BY <1>3, <1>4, <1>5 DEF Pushed
<1> QED
  BY <1>3, <1>6, <1>7, <1>8, <1>9 DEF b, f, h

\* Stack h is stack b with a call of CyAsSendOne() on top, whose first part is p.
Sends(b, h, p) ==
    /\ h \in Seq(Frame) /\ CallsOK(h)
    /\ \A c \in Ctxts : c \in Processing(h) <=> c \in Processing(b)
    /\ \A kind \in {"rqt", "resp"}, c \in Ctxts :
           /\ OnesIn(h, kind, c) =
                  OnesIn(b, kind, c) \cup
                  IF p.kind = kind /\ p.ctx = c THEN {<<Len(b) + 1, p.of>>} ELSE {}
           /\ \A x \in OnesIn(b, kind, c) : x[1] # Len(b) + 1 /\ x[1] # 0
LEMMA SendingCall ==
    ASSUME NEW b \in Seq(Frame), b # <<>>, CallsOK(b), NEW parts \in Seq(Part),
           SendsStatus(parts) \/ (SendsRequest(parts) /\ b[Len(b)].op = "next")
    PROVE  Sends(b, Append(b, SendOne(parts)), parts[1])
<1> DEFINE f == SendOne(parts)
<1>1. f \in Frame /\ f.op = "one" /\ f.parts = parts
  BY FramesMade
<1> HIDE DEF f
<1>2. Append(b, f) \in Seq(Frame) /\ Pushed(b, f, Append(b, f))
  BY <1>1, PushedIs
<1>3. TopOK(b, f)
  BY <1>1 DEF TopOK, CallOK, Handles
<1>4. ~Active(f) /\ \A c \in Ctxts : ~Works(f, c)
  BY <1>1 DEF Active, Works
<1>5. \A kind \in {"rqt", "resp"}, c \in Ctxts :
          OneOf(f, kind, c, Len(b) + 1) =
              IF parts[1].kind = kind /\ parts[1].ctx = c THEN {<<Len(b) + 1, parts[1].of>>} ELSE {}
  BY <1>1 DEF OneOf, IsOne
<1> QED
  BY <1>2, <1>3, <1>4, <1>5 DEF Pushed, Sends, f

\* CyAsSendOne() on top of the stack.
LEMMA SendingTop ==
    ASSUME NEW g \in Seq(Frame), g # <<>>, CallsOK(g), Last(g).op = "one"
    PROVE  /\ Front(g) \in Seq(Frame) /\ Front(g) # <<>> /\ CallsOK(Front(g))
           /\ Last(g).parts \in Seq(Part)
           /\ \/ SendsStatus(Last(g).parts)
              \/ (SendsRequest(Last(g).parts) /\ Last(Front(g)).op = "next")
           /\ Last(Front(g)) = Front(g)[Len(Front(g))]
           /\ Sends(Front(g), g, Last(g).parts[1])
<1> DEFINE b == Front(g)
           f == Last(g)
<1>1. /\ b \in Seq(Frame) /\ Pushed(b, f, g) /\ f \in Frame
      /\ (b # <<>> => Last(b) = b[Len(b)])
  BY TopIs
<1>2. f.parts \in Seq(Part)
  BY <1>1, FrameIs DEF FrameFields
<1> HIDE DEF f, b
<1>3. f.op = "one"
  BY DEF f
<1>4. CallsOK(b) /\ b # <<>> /\ CallOK(f, b[Len(b)])
  BY <1>1, <1>3 DEF Pushed, TopOK
<1>5. SendsStatus(f.parts) \/ (SendsRequest(f.parts) /\ Last(b).op = "next")
  BY <1>1, <1>3, <1>4, Zenon DEF CallOK
<1>6. ~Active(f) /\ \A c \in Ctxts : ~Works(f, c)
  BY <1>3 DEF Active, Works
<1>7. \A kind \in {"rqt", "resp"}, c \in Ctxts :
          OneOf(f, kind, c, Len(b) + 1) =
              IF f.parts[1].kind = kind /\ f.parts[1].ctx = c THEN {<<Len(b) + 1, f.parts[1].of>>} ELSE {}
  BY <1>3 DEF OneOf, IsOne
<1>8. Sends(b, g, f.parts[1])
  BY <1>1, <1>6, <1>7 DEF Pushed, Sends
<1> QED
  BY <1>1, <1>2, <1>4, <1>5, <1>8 DEF f, b
-----------------------------------------------------------------------------
(* What does not change *)

\* The variables' components.
LEMMA Fields ==
    ASSUME Typed
    PROVE  /\ \A c \in Ctxts :
                  /\ ll.queue[c] \in Seq(Node) /\ ll.has_last[c] \in BOOLEAN
                  /\ ll.data_queue[c] \in Seq(Part) /\ Len(ll.data_queue[c]) \in Nat
                  /\ ll.rqt_index[c] \in Nat /\ ll.req[c] \in Seq(Part) /\ Index(c) \in Nat
                  /\ firmware.part[c] \in Seq(Part) /\ firmware.asked[c] \in Nat
                  /\ firmware.waits[c] \in BOOLEAN /\ events[c] \in Seq(Seq(Part))
           /\ ll.queued_data \in BOOLEAN /\ box.mcu \in Part \cup {NoPart}
           /\ box.p0 \in Part \cup {NoPart} /\ firmware.says \in Seq(Part)
           /\ firmware.open \in SUBSET Rqts /\ frames \in Seq(Frame)
           /\ \A r \in Rqts : results[r].ret \in Results /\ results[r].resp \in Seq(Part)
           /\ late.send \in Nat /\ late.reply \in Nat
<1>1. /\ ll.queue \in [Ctxts -> Seq(Node)] /\ ll.has_last \in [Ctxts -> BOOLEAN]
      /\ ll.data_queue \in [Ctxts -> Seq(Part)] /\ ll.rqt_index \in [Ctxts -> Nat]
      /\ ll.req \in [Ctxts -> Seq(Part)] /\ ll.queued_data \in BOOLEAN
  BY DEF Typed, Lls
<1>2. /\ firmware.says \in Seq(Part) /\ firmware.part \in [Ctxts -> Seq(Part)]
      /\ firmware.open \in SUBSET Rqts /\ firmware.asked \in [Ctxts -> Nat]
      /\ firmware.waits \in [Ctxts -> BOOLEAN]
  BY DEF Typed, Firmwares
<1>3. /\ events \in [Ctxts -> Seq(Seq(Part))] /\ frames \in Seq(Frame)
      /\ results \in [Rqts -> Outcomes] /\ late \in [send : Nat, reply : Nat]
  BY DEF Typed
<1>4. box.mcu \in Part \cup {NoPart} /\ box.p0 \in Part \cup {NoPart}
  BY DEF Typed, Boxes
<1>5. \A c \in Ctxts : Len(ll.data_queue[c]) \in Nat /\ Index(c) \in Nat
  BY <1>1 DEF Index
<1>6. \A r \in Rqts : results[r].ret \in Results /\ results[r].resp \in Seq(Part)
  BY <1>3 DEF Outcomes
<1>7. late.send \in Nat /\ late.reply \in Nat
  BY <1>3
<1> QED
  BY <1>1, <1>2, <1>3, <1>4, <1>5, <1>6, <1>7

LEMMA StreamIn ==
    ASSUME Typed, DataOK, NEW c \in Ctxts
    PROVE  StreamOf(c) \in Seq(Part) /\ Len(StreamOf(c)) \in Nat
<1>1. /\ ll.data_queue[c] \in Seq(Part) /\ Index(c) \in Nat /\ Index(c) <= Len(ll.data_queue[c])
      /\ box.p0 \in Part \cup {NoPart} /\ firmware.says \in Seq(Part)
  BY Fields DEF DataOK
<1>2. Stream(ll.data_queue[c], Index(c), box.p0, firmware.says, c) \in Seq(Part)
  BY <1>1, Pieces
<1>3. StreamOf(c) \in Seq(Part)
  BY <1>2 DEF StreamOf
<1> HIDE <1>1, <1>2
<1> QED
  BY <1>3

\* What is on its way from a context, or no more.
EventsKept(c) ==
    /\ StreamOf(c)' = StreamOf(c) /\ ll'.req[c] = ll.req[c] /\ events'[c] = events[c]
    /\ firmware'.asked[c] = firmware.asked[c] /\ firmware'.waits[c] = firmware.waits[c]
    /\ Places(frames', box'.mcu, "resp", c) \subseteq Places(frames, box.mcu, "resp", c)
LEMMA EventsAreKept ==
    ASSUME NEW c \in Ctxts, EventsAreOK(c), EventsKept(c)
    PROVE  EventsAreOK(c)'
<1> DEFINE s == StreamOf(c)
           p == Places(frames, box.mcu, "resp", c)
           q == Places(frames', box'.mcu, "resp", c)
<1>1. EventsOK(c, s, ll.req[c], events[c], firmware.asked[c], firmware.waits[c], p)
  BY Zenon DEF EventsAreOK
<1>2. q \subseteq p
  BY DEF EventsKept
<1> HIDE DEF p, q, s
<1>3. EventsOK(c, s, ll.req[c], events[c], firmware.asked[c], firmware.waits[c], q)
  BY <1>1, <1>2, Zenon DEF EventsOK
<1>4. EventsOK(c, StreamOf(c)', ll'.req[c], events'[c], firmware'.asked[c], firmware'.waits[c], q)
  BY <1>3, Zenon DEF EventsKept, s
<1> QED
  BY <1>4, Zenon DEF EventsAreOK, q

\* The queue of a context, and where its head is.
QueueKept(c) ==
    /\ StreamOf(c)' = StreamOf(c) /\ ll'.queue[c] = ll.queue[c] /\ (ll.has_last[c] => ll'.has_last[c])
    /\ OpenIn(firmware'.open, c) = OpenIn(firmware.open, c)
    /\ Places(frames', box'.mcu, "rqt", c) \subseteq Places(frames, box.mcu, "rqt", c)
    /\ \A r \in Rqts : RqtContext[r] = c => results'[r].ret = results[r].ret
LEMMA QueueIsKept ==
    ASSUME Typed, NEW c \in Ctxts, QueueIsOK(c), QueueKept(c)
    PROVE  QueueIsOK(c)'
<1> DEFINE s == StreamOf(c)
           o == OpenIn(firmware.open, c)
           p == Places(frames, box.mcu, "rqt", c)
           q == Places(frames', box'.mcu, "rqt", c)
<1>1. /\ ll.has_last[c] /\ NodesOK(c, ll.queue[c], results)
      /\ QueueOK(s, ll.queue[c], o, p)
  BY Zenon DEF QueueIsOK
<1>2. q \subseteq p
  BY DEF QueueKept
<1>3. \A k \in 1..Len(ll.queue[c]) : ll.queue[c][k].rqt \in Rqts
  <2>1. ll.queue[c] \in Seq(Node)
    BY Fields
  <2>2. \A k \in 1..Len(ll.queue[c]) : ll.queue[c][k] \in Node
    BY <2>1
  <2> QED
    BY <2>2 DEF Node
<1> HIDE DEF p, q, s, o
<1>4. NodesOK(c, ll.queue[c], results')
  BY <1>1, <1>3, Zenon DEF NodesOK, QueueKept
<1>5. QueueOK(s, ll.queue[c], o, q)
  BY <1>1, <1>2, Zenon DEF QueueOK
<1>6. ll'.has_last[c] /\ NodesOK(c, ll'.queue[c], results')
  BY <1>1, <1>4, Zenon DEF QueueKept
<1>7. QueueOK(StreamOf(c)', ll'.queue[c], OpenIn(firmware'.open, c), q)
  BY <1>5, Zenon DEF QueueKept, s, o
<1> QED
  BY <1>6, <1>7, Zenon DEF QueueIsOK, q

\* The places in a stack of which the same is said.
LEMMA PlacesKept ==
    ASSUME NEW g, NEW h, Same(g, h), NEW mcu
    PROVE  \A kind \in {"rqt", "resp"}, c \in Ctxts : Places(h, mcu, kind, c) = Places(g, mcu, kind, c)
BY Zenon DEF Places, Same

\* The stream of a context does not change with the stack and the data of others.
LEMMA StreamKept ==
    ASSUME NEW c \in Ctxts, c \in Processing(frames') <=> c \in Processing(frames),
           ll'.data_queue[c] = ll.data_queue[c], ll'.rqt_index[c] = ll.rqt_index[c],
           box'.p0 = box.p0, firmware'.says = firmware.says
    PROVE  StreamOf(c)' = StreamOf(c) /\ Index(c)' = Index(c)
<1>1. Index(c)' = Index(c)
  BY DEF Index
<1> QED
  BY <1>1, Zenon DEF StreamOf

\* Requests that are sent are in their queues.
LEMMA ResultsKept ==
    ASSUME ResultsOK, results' = results, \A c \in Ctxts : ll'.queue[c] = ll.queue[c], LlHyp
    PROVE  ResultsOK'
<1>1. \A r \in Rqts : IsInQueue(r)' = IsInQueue(r)
  BY DEF IsInQueue, LlHyp
<1>2. ResponseIsOwn'
  BY DEF ResultsOK, ResponseIsOwn
<1> QED
  BY <1>1, <1>2 DEF ResultsOK
-----------------------------------------------------------------------------
(* The firmware's requests, one context at a time *)

\* A part of a response is read.
LEMMA EventsRead ==
    ASSUME LlHyp, NEW c \in Ctxts, NEW a \in Nat, NEW s \in Seq(Part), NEW t \in Seq(Part),
           s # <<>>, Len(s) \in Nat \ {0}, Shifted(s, t), s[1].kind = "resp",
           NEW req, NEW given, NEW w, NEW P, EventsOK(c, s, req, given, a, w, P)
    PROVE  EventsOK(c, t, req, given, a, w, P)
<1>1. StreamIs(c, t, a) /\ Consumed(s, t)
  BY StreamConsumed DEF EventsOK
<1>2. /\ Has(t, "rqt") <=> Has(s, "rqt")
      /\ Once(s, "rqt") => Once(t, "rqt")
      /\ Stored(s, "rqt", req) => Stored(t, "rqt", req)
  BY <1>1 DEF Consumed
<1> QED
  BY <1>1, <1>2, Zenon DEF EventsOK

\* A part of a request is read: it is stored, or the whole request given to the callback.
Given(c, t, given, a, w) == \A Q : (\A x, y \in Q : x = y) => EventsOK(c, t, <<>>, given, a, w, Q)
LEMMA EventRead ==
    ASSUME LlHyp, NEW c \in Ctxts, NEW a \in Nat, NEW s \in Seq(Part), NEW t \in Seq(Part),
           s # <<>>, Len(s) \in Nat \ {0}, Shifted(s, t), s[1].kind = "rqt",
           NEW req \in Seq(Part), NEW given \in Seq(Seq(Part)), NEW w, NEW P,
           EventsOK(c, s, req, given, a, w, P)
    PROVE  /\ w /\ P = {} /\ s[1].of = a /\ a \in 1..Len(Events[c])
           /\ ~s[1].last => EventsOK(c, t, Append(req, s[1]), given, a, w, P)
           /\ s[1].last => Given(c, t, Append(given, Append(req, s[1])), a, w)
<1> DEFINE p == s[1]
           more == Append(req, p)
           m == EventMessage(c, a)
<1>1. /\ StreamIs(c, s, a) /\ a <= Len(Events[c]) /\ a = Len(given) + (IF Has(s, "rqt") THEN 1 ELSE 0)
      /\ \A k \in 1..Len(given) : given[k] = EventMessage(c, k)
      /\ Has(s, "rqt") => w /\ P = {}
      /\ Once(s, "rqt") /\ Stored(s, "rqt", req)
      /\ \A k \in 1..Len(req) : req[k] = m[k]
  BY DEF EventsOK
<1>2. StreamIs(c, t, a) /\ Consumed(s, t) /\ (p.last => ~Has(t, "rqt"))
  BY <1>1, StreamConsumed
<1>3. p \in Part /\ 1 \in 1..Len(s)
  OBVIOUS
<1>4. IsEventPart(p, c, a)
  <2>1. IsResponsePart(p) \/ IsEventPart(p, c, a)
    BY <1>1, <1>3, Zenon DEF StreamIs
  <2>2. ~IsResponsePart(p)
    BY DEF IsResponsePart
  <2> QED
    BY <2>1, <2>2
<1>5. /\ p.of = a /\ a \in 1..Len(Events[c]) /\ p.last = (p.n = Events[c][a]) /\ p.n \in 1..Events[c][a]
      /\ p = m[p.n]
  <2>1. /\ p.of = a /\ a \in 1..Len(Events[c]) /\ p.last = (p.n = Events[c][a])
        /\ p.n \in 1..Events[c][a]
    BY <1>4, PartsAre
  <2>2. p = m[p.n]
    BY <1>4, Zenon DEF IsEventPart
  <2> QED
    BY <2>1, <2>2
<1>6. MessageOf(m, "rqt", c, a, Events[c][a])
  BY <1>5, MessagesAre
<1>7. p.n = Len(req) + 1 /\ Len(req) \in Nat /\ Len(given) \in Nat
  BY <1>1 DEF Stored
<1>8. /\ more \in Seq(Part) /\ Len(more) = Len(req) + 1 /\ more[Len(req) + 1] = p
      /\ \A k \in 1..Len(req) : more[k] = req[k]
  BY <1>3, AppendProperties
<1> HIDE DEF more, m
<1>9. \A k \in 1..Len(more) : more[k] = m[k]
  <2>1. \A k \in 1..Len(more) : k \in 1..Len(req) \/ k = Len(req) + 1
    BY <1>7, <1>8
  <2> QED
    BY <1>1, <1>5, <1>7, <1>8, <2>1
<1>10. Has(s, "rqt") /\ w /\ P = {} /\ a = Len(given) + 1
  <2>1. Has(s, "rqt")
    BY <1>3 DEF Has
  <2> QED
    BY <1>1, <2>1
<1>11. Once(t, "rqt")
  BY <1>1, <1>2 DEF Consumed
<1>12. ASSUME ~p.last
       PROVE  EventsOK(c, t, more, given, a, w, P)
  <2>1. Has(t, "rqt") /\ Stored(t, "rqt", more)
    BY <1>1, <1>2, <1>12 DEF Consumed, more
  <2>2. a = Len(given) + (IF Has(t, "rqt") THEN 1 ELSE 0)
    BY <1>10, <2>1
  <2>3. P = {} /\ \A x, y \in P : x = y
    BY <1>10
  <2> QED
    BY <1>1, <1>2, <1>9, <1>10, <1>11, <2>1, <2>2, <2>3, Zenon DEF EventsOK, m
<1>13. ASSUME p.last, NEW Q, \A x, y \in Q : x = y
       PROVE  EventsOK(c, t, <<>>, Append(given, more), a, w, Q)
  <2>1. ~Has(t, "rqt") /\ Stored(t, "rqt", <<>>)
    BY <1>2, <1>13 DEF Consumed
  <2>2. more = m
    <3>1. m \in Seq(Part) /\ Len(m) = Events[c][a]
      BY <1>6 DEF MessageOf
    <3>2. Len(more) = Len(m)
      BY <1>5, <1>7, <1>8, <1>13, <3>1
    <3> QED
      BY <1>8, <1>9, <3>1, <3>2, SeqEqual
  <2>3. /\ Len(Append(given, more)) = Len(given) + 1
        /\ \A k \in 1..Len(given) : Append(given, more)[k] = given[k]
        /\ Append(given, more)[Len(given) + 1] = more
    BY <1>8, AppendProperties
  <2>4. ASSUME NEW k \in 1..Len(Append(given, more))
        PROVE  Append(given, more)[k] = EventMessage(c, k)
    <3>1. k \in 1..Len(given) \/ k = Len(given) + 1
      BY <1>7, <2>3
    <3> QED
      BY <1>1, <1>10, <2>2, <2>3, <3>1 DEF m
  <2>5. a = Len(Append(given, more)) + (IF Has(t, "rqt") THEN 1 ELSE 0)
    BY <1>7, <1>10, <2>1, <2>3
  <2>6. \A k \in 1..Len(<<>>) : <<>>[k] = EventMessage(c, a)[k]
    OBVIOUS
  <2> QED
    BY <1>1, <1>2, <1>10, <1>11, <1>13, <2>1, <2>4, <2>5, <2>6, Zenon DEF EventsOK
<1>14. ASSUME p.last
       PROVE  Given(c, t, Append(given, more), a, w)
  BY <1>13, <1>14, Zenon DEF Given
<1> QED
  BY <1>5, <1>10, <1>12, <1>14 DEF more

\* The firmware answers a request of the host.
LEMMA EventsAnswered ==
    ASSUME LlHyp, NEW c \in Ctxts, NEW a \in Nat, NEW s \in Seq(Part), NEW u \in Seq(Part),
           NEW r \in Rqts, RqtContext[r] = c, Joined(s, ResponseMessage(r), u),
           NEW req, NEW given, NEW w, NEW P, EventsOK(c, s, req, given, a, w, P)
    PROVE  EventsOK(c, u, req, given, a, w, P)
<1> DEFINE m == ResponseMessage(r)
<1>1. MessageOf(m, "resp", c, r, RespParts[r]) /\ m \in Seq(Part)
  BY MessagesAre DEF MessageOf
<1>2. StreamIs(c, s, a) /\ WellFormed(s)
  BY DEF EventsOK, StreamIs
<1> HIDE DEF m
<1>3. Joined(s, m, u)
  BY DEF m
<1>4. Added(s, u, "resp") /\ WellFormed(u)
  BY <1>1, <1>2, <1>3, AddedIs
<1>5. ASSUME NEW i \in 1..Len(u)
      PROVE  u[i].ctx = c /\ (IsResponsePart(u[i]) \/ IsEventPart(u[i], c, a))
  <2>1. CASE i \in 1..Len(s) /\ u[i] = s[i]
    BY <1>2, <2>1 DEF StreamIs
  <2>2. CASE i - Len(s) \in 1..Len(m) /\ u[i] = m[i - Len(s)]
    <3>1. \A k \in 1..Len(m) : m[k].ctx = c /\ IsResponsePart(m[k])
      BY <1>1 DEF MessageOf, IsResponsePart, m
    <3> QED
      BY <2>2, <3>1
  <2> QED
    BY <1>3, <2>1, <2>2 DEF Joined
<1>6. StreamIs(c, u, a)
  BY <1>4, <1>5 DEF StreamIs
<1>7. /\ Has(u, "rqt") <=> Has(s, "rqt")
      /\ Once(s, "rqt") => Once(u, "rqt")
      /\ Stored(s, "rqt", req) => Stored(u, "rqt", req)
  BY <1>4 DEF Added
<1> QED
  BY <1>6, <1>7, Zenon DEF EventsOK

\* The firmware asks for something: it waits for the status, which nothing holds up.
LEMMA EventAsked ==
    ASSUME LlHyp, NEW c \in Ctxts, NEW a \in Nat, NEW s \in Seq(Part), NEW u \in Seq(Part),
           a + 1 <= Len(Events[c]), Joined(s, EventMessage(c, a + 1), u),
           NEW req, NEW given \in Seq(Seq(Part)), NEW P, EventsOK(c, s, req, given, a, FALSE, P)
    PROVE  EventsOK(c, u, req, given, a + 1, TRUE, P)
<1> DEFINE m == EventMessage(c, a + 1)
           n == Events[c][a + 1]
<1>1. Events[c] \in Seq(Nat \ {0}) /\ a + 1 \in 1..Len(Events[c]) /\ a + 1 \in Nat
  <2>1. Events[c] \in Seq(Nat \ {0})
    BY DEF LlHyp
  <2> QED
    BY <2>1
<1>2. MessageOf(m, "rqt", c, a + 1, n) /\ m \in Seq(Part)
  BY <1>1, MessagesAre DEF MessageOf
<1>3. /\ StreamIs(c, s, a) /\ WellFormed(s) /\ ~Has(s, "rqt") /\ P = {} /\ a = Len(given)
      /\ \A k \in 1..Len(given) : given[k] = EventMessage(c, k)
      /\ Once(s, "rqt") /\ Stored(s, "rqt", req)
  <2>1. ~Has(s, "rqt") /\ a = Len(given) + (IF Has(s, "rqt") THEN 1 ELSE 0) /\ Len(given) \in Nat
    BY DEF EventsOK
  <2>2. a = Len(given)
    BY <2>1
  <2> QED
    BY <2>1, <2>2, Zenon DEF EventsOK, StreamIs
<1> HIDE DEF m, n
<1>4. Joined(s, m, u)
  BY DEF m
<1>5. Added(s, u, "rqt") /\ WellFormed(u)
  BY <1>2, <1>3, <1>4, AddedIs
<1>6. ASSUME NEW i \in 1..Len(u)
      PROVE  u[i].ctx = c /\ (IsResponsePart(u[i]) \/ IsEventPart(u[i], c, a + 1))
  <2>1. CASE i \in 1..Len(s) /\ u[i] = s[i]
    BY <1>3, <2>1 DEF StreamIs, Has, IsEventPart
  <2>2. CASE i - Len(s) \in 1..Len(m) /\ u[i] = m[i - Len(s)]
    <3>1. \A k \in 1..Len(m) : m[k].ctx = c /\ IsEventPart(m[k], c, a + 1)
      BY <1>1, <1>2 DEF MessageOf, IsEventPart, m, n
    <3> QED
      BY <2>2, <3>1
  <2> QED
    BY <1>4, <2>1, <2>2 DEF Joined
<1>7. StreamIs(c, u, a + 1)
  BY <1>5, <1>6 DEF StreamIs
<1>8. Has(u, "rqt") /\ Once(u, "rqt") /\ req = <<>> /\ Stored(u, "rqt", req)
  BY <1>3, <1>5 DEF Added
<1>9. a + 1 = Len(given) + (IF Has(u, "rqt") THEN 1 ELSE 0)
  BY <1>3, <1>8
<1>10. \A k \in 1..Len(req) : req[k] = EventMessage(c, a + 1)[k]
  <2>1. \A k : k \notin 1..Len(req)
    BY <1>8
  <2> QED
    BY <2>1
<1> QED
  BY <1>3, <1>7, <1>8, <1>9, <1>10, Zenon DEF EventsOK
-----------------------------------------------------------------------------
(* The queue of a context *)

\* Nodes, and their order.
NodeFields(n) == n.rqt \in Rqts /\ n.state \in {"QUEUED", "WAITING"} /\ n.resp \in Seq(Part)
LEMMA NodesAre ==
    ASSUME NEW q \in Seq(Node)
    PROVE  /\ Len(q) \in Nat /\ (q # <<>> => Len(q) \in Nat \ {0} /\ 1 \in 1..Len(q) /\ Head(q) = q[1])
           /\ \A k \in 1..Len(q) : NodeFields(q[k])
<1>1. Len(q) \in Nat /\ (q # <<>> => Len(q) \in Nat \ {0} /\ 1 \in 1..Len(q) /\ Head(q) = q[1])
  <2>1. q # <<>> => Len(q) \in Nat \ {0} /\ Head(q) = q[1]
    BY EmptySeq
  <2> QED
    BY <2>1
<1>2. \A k \in 1..Len(q) : q[k] \in Node
  OBVIOUS
<1> QED
  BY <1>1, <1>2 DEF NodeFields, Node

\* A request is queued.
LEMMA NodeQueued ==
    ASSUME NEW q \in Seq(Node), NEW n \in Node, n.state = "QUEUED", n.resp = <<>>,
           NEW s \in Seq(Part), NEW o, NEW P, QueueOK(s, q, o, P)
    PROVE  QueueOK(s, Append(q, n), o, P)
<1> DEFINE q2 == Append(q, n)
<1>1. /\ q2 \in Seq(Node) /\ q2 # <<>> /\ Len(q2) = Len(q) + 1 /\ q2[Len(q) + 1] = n
      /\ \A k \in 1..Len(q) : q2[k] = q[k]
  BY AppendProperties
<1>2. Len(q) \in Nat /\ (q # <<>> => 1 \in 1..Len(q))
  BY NodesAre
<1> HIDE DEF q2
<1>3. CASE q # <<>>
  <2>1. q2[1] = q[1]
    BY <1>1, <1>2, <1>3
  <2>2. Unheard(s, q2) <=> Unheard(s, q)
    BY <2>1 DEF Unheard
  <2>3. \A r : Waits(q2, r) <=> Waits(q, r)
    BY <1>1, <1>3, <2>1 DEF Waits
  <2> QED
    BY <1>3, <2>1, <2>2, <2>3, Zenon DEF QueueOK, q2
<1>4. CASE q = <<>>
  <2>1. q2[1] = n
    BY <1>1, <1>4
  <2>2. \A r : ~Waits(q, r)
    BY <1>4 DEF Waits
  <2>3. P = {} /\ o = {} /\ \A i \in 1..Len(s) : s[i].kind # "resp"
    BY <2>2 DEF QueueOK
  <2>4. Stored(s, "resp", <<>>)
    <3>1. s # <<>> => 1 \in 1..Len(s)
      BY EmptySeq
    <3> QED
      BY <2>3, <3>1 DEF Stored
  <2>5. \A k \in 1..Len(n.resp) : n.resp[k] = ResponseMessage(n.rqt)[k]
    <3>1. \A k : k \notin 1..Len(n.resp)
      OBVIOUS
    <3> QED
      BY <3>1
  <2>6. Once(s, "resp")
    BY DEF QueueOK
  <2> QED
    BY <2>1, <2>3, <2>4, <2>5, <2>6 DEF QueueOK, q2
<1> QED
  BY <1>3, <1>4
LEMMA NodesQueued ==
    ASSUME NEW c, NEW q \in Seq(Node), NEW n \in Node, n.state = "QUEUED", n.resp = <<>>,
           RqtContext[n.rqt] = c, NEW rets, NEW rets2, NodesOK(c, q, rets),
           rets[n.rqt].ret # "sent", rets2[n.rqt].ret = "sent",
           \A r \in Rqts : r # n.rqt => rets2[r].ret = rets[r].ret
    PROVE  NodesOK(c, Append(q, n), rets2)
<1> DEFINE q2 == Append(q, n)
<1>1. /\ Len(q2) = Len(q) + 1 /\ q2[Len(q) + 1] = n
      /\ \A k \in 1..Len(q) : q2[k] = q[k]
  BY AppendProperties
<1>2. Len(q) \in Nat /\ \A k \in 1..Len(q) : q[k].rqt \in Rqts
  BY NodesAre DEF NodeFields
<1> HIDE DEF q2
<1>3. /\ \A k \in 1..Len(q2) : k \in 1..Len(q) \/ k = Len(q) + 1
      /\ \A k \in 1..Len(q) : q[k].rqt # n.rqt /\ k # Len(q) + 1
  <2>1. \A k \in 1..Len(q) : rets[q[k].rqt].ret = "sent"
    BY DEF NodesOK
  <2> QED
    BY <1>1, <1>2, <2>1
<1>4. ASSUME NEW k \in 1..Len(q2)
      PROVE  /\ RqtContext[q2[k].rqt] = c /\ rets2[q2[k].rqt].ret = "sent"
             /\ k > 1 => q2[k].state = "QUEUED"
             /\ q2[k].state = "QUEUED" => q2[k].resp = <<>>
  BY <1>1, <1>2, <1>3 DEF NodesOK
<1>5. ASSUME NEW j \in 1..Len(q2), NEW k \in 1..Len(q2), q2[j].rqt = q2[k].rqt
      PROVE  j = k
  BY <1>1, <1>3, <1>5 DEF NodesOK
<1> QED
  BY <1>4, <1>5 DEF NodesOK, q2

\* The head is sent: until then nothing is on its way.
LEMMA HeadSent ==
    ASSUME NEW q \in Seq(Node), q # <<>>, q[1].state = "QUEUED", NEW c, NEW rets,
           NEW s \in Seq(Part), NEW o, NEW P, QueueOK(s, q, o, P), NodesOK(c, q, rets)
    PROVE  /\ P = {} /\ o = {} /\ [q EXCEPT ![1].state = "WAITING"] \in Seq(Node)
           /\ NodesOK(c, [q EXCEPT ![1].state = "WAITING"], rets)
           /\ \A Q : (\A x, y \in Q : x = y) /\ (\A x \in Q : x[2] = q[1].rqt) =>
                  QueueOK(s, [q EXCEPT ![1].state = "WAITING"], o, Q)
<1> DEFINE n == [q[1] EXCEPT !.state = "WAITING"]
           q2 == [q EXCEPT ![1] = n]
<1>1. q[1] \in Node /\ 1 \in 1..Len(q)
  BY NodesAre
<1>2. n \in Node /\ n.rqt = q[1].rqt /\ n.state = "WAITING" /\ n.resp = q[1].resp
  <2>1. n.rqt = q[1].rqt /\ n.state = "WAITING" /\ n.resp = q[1].resp
    BY <1>1 DEF Node
  <2>2. n \in Node
    BY <1>1 DEF Node
  <2> QED
    BY <2>1, <2>2
<1>3. [q EXCEPT ![1].state = "WAITING"] = q2
  BY <1>1
<1> HIDE DEF n
<1>4. /\ q2 \in Seq(Node) /\ Len(q2) = Len(q)
      /\ \A j \in 1..Len(q) : q2[j] = IF j = 1 THEN n ELSE q[j]
  BY <1>1, <1>2, ExceptSeq
<1> HIDE DEF q2
<1>5. q2[1] = n /\ q2 # <<>>
  BY <1>1, <1>4, EmptySeq
<1>6. \A r : ~Waits(q, r)
  BY DEF Waits
<1>7. P = {} /\ o = {} /\ \A i \in 1..Len(s) : s[i].kind # "resp"
  BY <1>6 DEF QueueOK
<1>8. q[1].resp = <<>>
  BY <1>1 DEF NodesOK
<1>9. NodesOK(c, q2, rets)
  <2>1. \A j \in 1..Len(q2) : /\ q2[j].rqt = q[j].rqt /\ q2[j].resp = q[j].resp
                              /\ (j # 1 => q2[j].state = q[j].state) /\ j \in 1..Len(q)
    BY <1>2, <1>4
  <2>2. q2[1].state = "WAITING"
    BY <1>2, <1>5
  <2> QED
    BY <1>1, <2>1, <2>2 DEF NodesOK
<1>10. ASSUME NEW Q, \A x, y \in Q : x = y, \A x \in Q : x[2] = q[1].rqt
       PROVE  QueueOK(s, q2, o, Q)
  <2>1. \A x \in Q : Waits(q2, x[2])
    BY <1>2, <1>5, <1>10 DEF Waits
  <2>2. Unheard(s, q2)
    BY <1>2, <1>5, <1>7, <1>8 DEF Unheard, Has
  <2>3. Stored(s, "resp", q[1].resp) /\ Once(s, "resp")
    BY DEF QueueOK
  <2>4. \A k \in 1..Len(q[1].resp) : q[1].resp[k] = ResponseMessage(q[1].rqt)[k]
    BY DEF QueueOK
  <2> QED
    BY <1>2, <1>5, <1>7, <1>10, <2>1, <2>2, <2>3, <2>4 DEF QueueOK
<1> QED
  BY <1>3, <1>4, <1>7, <1>9, <1>10

\* The head is removed, with nothing of it on its way.
LEMMA HeadGone ==
    ASSUME NEW q \in Seq(Node), q # <<>>, NEW c, NEW rets, NEW rets2, NodesOK(c, q, rets),
           NEW s \in Seq(Part), ~Has(s, "resp"), Once(s, "resp"),
           \A r \in Rqts : r # q[1].rqt => rets2[r].ret = rets[r].ret
    PROVE  /\ Tail(q) \in Seq(Node) /\ NodesOK(c, Tail(q), rets2) /\ QueueOK(s, Tail(q), {}, {})
           /\ \A k \in 1..Len(q) : q[k].rqt # q[1].rqt => \E j \in 1..Len(Tail(q)) : Tail(q)[j] = q[k]
<1> DEFINE q2 == Tail(q)
<1>1. q2 \in Seq(Node) /\ Shifted(q, q2) /\ Len(q) \in Nat \ {0}
  BY TailIs
<1> HIDE DEF q2
<1>2. /\ Len(q2) \in Nat /\ Len(q2) + 1 = Len(q)
      /\ \A i \in 1..Len(q2) : i + 1 \in 1..Len(q) /\ i + 1 > 1 /\ q2[i] = q[i + 1]
  BY <1>1 DEF Shifted
<1>3. \A k \in 1..Len(q) : q[k].rqt \in Rqts
  BY NodesAre DEF NodeFields
<1>4. \A i \in 1..Len(q2) : /\ q2[i].state = "QUEUED" /\ q2[i].resp = <<>> /\ q2[i].rqt # q[1].rqt
                            /\ RqtContext[q2[i].rqt] = c /\ rets2[q2[i].rqt].ret = "sent"
  <2> SUFFICES ASSUME NEW i \in 1..Len(q2)
               PROVE  /\ q2[i].state = "QUEUED" /\ q2[i].resp = <<>> /\ q2[i].rqt # q[1].rqt
                      /\ RqtContext[q2[i].rqt] = c /\ rets2[q2[i].rqt].ret = "sent"
    OBVIOUS
  <2>1. i + 1 \in 1..Len(q) /\ i + 1 > 1 /\ 1 \in 1..Len(q) /\ i + 1 # 1 /\ q2[i] = q[i + 1]
    BY <1>1, <1>2
  <2> QED
    BY <1>3, <2>1 DEF NodesOK
<1>5. NodesOK(c, q2, rets2)
  <2>1. ASSUME NEW j \in 1..Len(q2), NEW k \in 1..Len(q2), q2[j].rqt = q2[k].rqt
        PROVE  j = k
    <3>1. j + 1 = k + 1
      BY <1>2, <2>1 DEF NodesOK
    <3> QED
      BY <1>2, <3>1
  <2> QED
    BY <1>4, <2>1 DEF NodesOK
<1>6. QueueOK(s, q2, {}, {})
  <2>1. Stored(s, "resp", <<>>)
    <3>1. s # <<>> => 1 \in 1..Len(s)
      BY EmptySeq
    <3> QED
      BY <3>1 DEF Stored, Has
  <2>2. q2 # <<>> => q2[1].resp = <<>>
    <3>1. q2 # <<>> => 1 \in 1..Len(q2)
      BY <1>1, EmptySeq
    <3> QED
      BY <1>4, <3>1
  <2>3. \A i \in 1..Len(s) : s[i].kind # "resp"
    BY DEF Has
  <2>4. Len(<<>>) = 0
    OBVIOUS
  <2> QED
    BY <2>1, <2>2, <2>3, <2>4 DEF QueueOK
<1>7. ASSUME NEW k \in 1..Len(q), q[k].rqt # q[1].rqt
      PROVE  \E j \in 1..Len(q2) : q2[j] = q[k]
  <2>1. k # 1
    BY <1>7
  <2>2. k - 1 \in 1..Len(q2) /\ (k - 1) + 1 = k
    BY <1>2, <2>1
  <2>3. q2[k - 1] = q[k]
    BY <1>2, <2>2
  <2> QED
    BY <2>2, <2>3
<1> QED
  BY <1>1, <1>5, <1>6, <1>7 DEF q2

\* A part of a request of the firmware is read.
LEMMA QueueRead ==
    ASSUME NEW s \in Seq(Part), NEW t \in Seq(Part), Consumed(s, t), Shifted(s, t), s[1].kind = "rqt",
           NEW q, NEW o, NEW P, QueueOK(s, q, o, P)
    PROVE  QueueOK(t, q, o, P)
<1>1. /\ Has(t, "resp") <=> Has(s, "resp")
      /\ Once(s, "resp") => Once(t, "resp")
      /\ \A parts : Stored(s, "resp", parts) => Stored(t, "resp", parts)
  BY DEF Consumed
<1>2. \A i \in 1..Len(t) : i + 1 \in 1..Len(s) /\ t[i] = s[i + 1]
  BY DEF Shifted
<1>3. \A i \in 1..Len(t) : t[i].kind = "resp" => Waits(q, t[i].of)
  BY <1>2 DEF QueueOK
<1>4. Unheard(t, q) <=> Unheard(s, q)
  BY <1>1 DEF Unheard
<1> QED
  BY <1>1, <1>3, <1>4, Zenon DEF QueueOK

\* A part of a response is read: the head stores it, or has the response whole.
LEMMA ResponseRead ==
    ASSUME LlHyp, NEW c \in Ctxts, NEW a \in Nat, NEW s \in Seq(Part), NEW t \in Seq(Part),
           s # <<>>, Len(s) \in Nat \ {0}, Shifted(s, t), StreamIs(c, s, a), s[1].kind = "resp",
           NEW q \in Seq(Node), NEW rets, NEW o, NEW P, QueueOK(s, q, o, P), NodesOK(c, q, rets)
    PROVE  /\ q # <<>> /\ q[1].state = "WAITING" /\ P = {} /\ o = {}
           /\ ~s[1].last =>
                  /\ [q EXCEPT ![1].resp = Append(q[1].resp, s[1])] \in Seq(Node)
                  /\ NodesOK(c, [q EXCEPT ![1].resp = Append(q[1].resp, s[1])], rets)
                  /\ QueueOK(t, [q EXCEPT ![1].resp = Append(q[1].resp, s[1])], {}, {})
           /\ s[1].last => /\ ~Has(t, "resp") /\ Once(t, "resp")
                           /\ Append(q[1].resp, s[1]) = ResponseMessage(q[1].rqt)
<1> DEFINE p == s[1]
           resp == Append(q[1].resp, p)
           r == q[1].rqt
<1>1. p \in Part /\ 1 \in 1..Len(s)
  OBVIOUS
<1>2. Has(s, "resp") /\ Waits(q, p.of)
  BY <1>1 DEF QueueOK, Has
<1>3. q # <<>> /\ q[1].state = "WAITING" /\ p.of = r /\ q[1] \in Node /\ 1 \in 1..Len(q)
      /\ q[1].resp \in Seq(Part) /\ r \in Rqts
  BY <1>2, NodesAre DEF Waits, NodeFields
<1>4. P = {} /\ o = {}
  BY <1>2 DEF QueueOK, Unheard
<1>5. IsResponsePart(p)
  BY <1>1 DEF StreamIs, IsEventPart
<1>6. p.n \in 1..RespParts[r] /\ p.last = (p.n = RespParts[r]) /\ p = ResponseMessage(r)[p.n]
  BY <1>3, <1>5, PartsAre DEF IsResponsePart
<1>7. p.n = Len(q[1].resp) + 1
  BY <1>3 DEF QueueOK, Stored
<1>8. \A i \in 1..Len(s) : s[i].kind = "resp" => s[i].of = p.of
  BY <1>2 DEF QueueOK, Waits
<1>9. Once(s, "resp") /\ Stored(s, "resp", q[1].resp)
      /\ \A k \in 1..Len(q[1].resp) : q[1].resp[k] = ResponseMessage(r)[k]
  BY <1>3 DEF QueueOK
<1>10. Consumed(s, t) /\ (p.last => ~Has(t, "resp"))
  BY <1>8, <1>9, StreamConsumed
<1>11. /\ resp \in Seq(Part) /\ Len(resp) = Len(q[1].resp) + 1 /\ resp[Len(q[1].resp) + 1] = p
       /\ \A k \in 1..Len(q[1].resp) : resp[k] = q[1].resp[k]
  BY <1>1, <1>3, AppendProperties
<1> HIDE DEF resp
<1>12. Len(q[1].resp) \in Nat /\ \A k \in 1..Len(resp) : resp[k] = ResponseMessage(r)[k]
  <2>1. Len(q[1].resp) \in Nat
    BY <1>3
  <2>2. \A k \in 1..Len(resp) : k \in 1..Len(q[1].resp) \/ k = Len(q[1].resp) + 1
    BY <1>11, <2>1
  <2> QED
    BY <1>6, <1>7, <1>9, <1>11, <2>1, <2>2
<1>13. Once(t, "resp")
  BY <1>9, <1>10 DEF Consumed
<1>14. ASSUME ~p.last
       PROVE  /\ [q EXCEPT ![1].resp = resp] \in Seq(Node)
              /\ NodesOK(c, [q EXCEPT ![1].resp = resp], rets)
              /\ QueueOK(t, [q EXCEPT ![1].resp = resp], {}, {})
  <2> DEFINE n == [q[1] EXCEPT !.resp = resp]
             q2 == [q EXCEPT ![1] = n]
  <2>1. n \in Node /\ n.rqt = r /\ n.state = "WAITING" /\ n.resp = resp
    <3>1. n.rqt = r /\ n.state = "WAITING" /\ n.resp = resp
      BY <1>3 DEF Node
    <3>2. n \in Node
      BY <1>3, <1>11 DEF Node
    <3> QED
      BY <3>1, <3>2
  <2>2. [q EXCEPT ![1].resp = resp] = q2
    BY <1>3
  <2> HIDE DEF n
  <2>3. /\ q2 \in Seq(Node) /\ Len(q2) = Len(q)
        /\ \A j \in 1..Len(q) : q2[j] = IF j = 1 THEN n ELSE q[j]
    BY <1>3, <2>1, ExceptSeq
  <2> HIDE DEF q2
  <2>4. q2[1] = n
    BY <1>3, <2>3
  <2>5. NodesOK(c, q2, rets)
    <3>1. \A j \in 1..Len(q2) : /\ q2[j].rqt = q[j].rqt /\ j \in 1..Len(q)
                                /\ (j # 1 => q2[j] = q[j])
      BY <2>1, <2>3
    <3> QED
      BY <1>3, <2>1, <2>4, <3>1 DEF NodesOK
  <2>6. Stored(t, "resp", resp)
    BY <1>3, <1>9, <1>10, <1>14 DEF Consumed, resp
  <2>7. \A i \in 1..Len(t) : t[i].kind = "resp" => Waits(q2, t[i].of)
    <3>1. Waits(q2, r)
      <4>1. q2 # <<>>
        BY <1>3, <2>3, EmptySeq
      <4> QED
        BY <2>1, <2>4, <4>1 DEF Waits
    <3>2. \A i \in 1..Len(t) : i + 1 \in 1..Len(s) /\ t[i] = s[i + 1]
      BY DEF Shifted
    <3> QED
      BY <1>3, <1>8, <3>1, <3>2
  <2>8. QueueOK(t, q2, {}, {})
    BY <1>12, <1>13, <2>1, <2>4, <2>6, <2>7 DEF QueueOK
  <2> QED
    BY <2>2, <2>3, <2>5, <2>8
<1>15. ASSUME p.last
       PROVE  resp = ResponseMessage(r)
  <2>1. ResponseMessage(r) \in Seq(Part) /\ Len(ResponseMessage(r)) = RespParts[r]
    BY <1>3, MessagesAre DEF MessageOf
  <2>2. Len(resp) = Len(ResponseMessage(r))
    BY <1>6, <1>7, <1>11, <1>15, <2>1
  <2> QED
    BY <1>11, <1>12, <2>1, <2>2, SeqEqual
<1> QED
  BY <1>3, <1>4, <1>10, <1>13, <1>14, <1>15 DEF resp

\* The firmware answers the head's request.
LEMMA HeadAnswered ==
    ASSUME LlHyp, NEW c \in Ctxts, NEW s \in Seq(Part), NEW u \in Seq(Part),
           NEW r \in Rqts, RqtContext[r] = c, WellFormed(s), Joined(s, ResponseMessage(r), u),
           NEW q \in Seq(Node), NEW o, NEW P, r \in o, QueueOK(s, q, o, P)
    PROVE  o = {r} /\ QueueOK(u, q, {}, P)
<1> DEFINE m == ResponseMessage(r)
<1>1. MessageOf(m, "resp", c, r, RespParts[r]) /\ m \in Seq(Part)
  <2>1. MessageOf(ResponseMessage(r), "resp", RqtContext[r], r, RespParts[r])
    BY MessagesAre
  <2> QED
    BY <2>1 DEF MessageOf
<1>2. /\ Waits(q, r) /\ o = {r} /\ ~Has(s, "resp") /\ q[1].resp = <<>> /\ P = {} /\ q # <<>>
      /\ Stored(s, "resp", q[1].resp)
  BY DEF QueueOK, Unheard, Waits
<1> HIDE DEF m
<1>3. Joined(s, m, u)
  BY DEF m
<1>4. Added(s, u, "resp")
  BY <1>1, <1>3, AddedIs
<1>5. Once(u, "resp") /\ Stored(u, "resp", q[1].resp)
  BY <1>2, <1>4 DEF Added
<1>6. ASSUME NEW i \in 1..Len(u), u[i].kind = "resp"
      PROVE  Waits(q, u[i].of)
  <2>1. \A k \in 1..Len(m) : m[k].of = r
    BY <1>1 DEF MessageOf
  <2>2. CASE i \in 1..Len(s) /\ u[i] = s[i]
    BY <1>2, <1>6, <2>2, Zenon DEF Has
  <2>3. CASE i - Len(s) \in 1..Len(m) /\ u[i] = m[i - Len(s)]
    BY <1>2, <2>1, <2>3, Zenon
  <2> QED
    BY <1>3, <2>2, <2>3, Zenon DEF Joined
<1>7. \A k \in 1..Len(q[1].resp) : q[1].resp[k] = ResponseMessage(q[1].rqt)[k]
  BY <1>2 DEF QueueOK
<1> QED
  BY <1>2, <1>5, <1>6, <1>7 DEF QueueOK
-----------------------------------------------------------------------------
(* Steps of the thread and of the calls *)

LEMMA InvParts ==
    ASSUME LlInv
    PROVE  /\ Typed /\ CallsOK(frames) /\ DataOK /\ \A c \in Ctxts : EventsAreOK(c)
           /\ late.reply = 0 => (\A c \in Ctxts : QueueIsOK(c)) /\ ResultsOK
BY DEF LlInv

\* What is known of DataOK when neither data nor mailboxes change.
LEMMA DataKept ==
    ASSUME DataOK, box' = box, firmware'.says = firmware.says,
           \A c \in Ctxts : ll'.data_queue[c] = ll.data_queue[c] /\ Index(c)' = Index(c)
    PROVE  DataOK'
BY DEF DataOK

\* Calls come and go that neither send nor process.
LEMMA QuietStep ==
    ASSUME LlHyp, LlInv, Same(frames, frames'), Typed',
           \A c \in Ctxts : /\ ll'.queue[c] = ll.queue[c] /\ ll'.has_last[c] = ll.has_last[c]
                            /\ ll'.data_queue[c] = ll.data_queue[c]
                            /\ ll'.rqt_index[c] = ll.rqt_index[c] /\ ll'.req[c] = ll.req[c],
           box' = box, firmware' = firmware, results' = results, events' = events, late' = late
    PROVE  LlInv'
<1>1. \A c \in Ctxts : StreamOf(c)' = StreamOf(c) /\ Index(c)' = Index(c)
  <2> SUFFICES ASSUME NEW c \in Ctxts
               PROVE  StreamOf(c)' = StreamOf(c) /\ Index(c)' = Index(c)
    OBVIOUS
  <2>1. c \in Processing(frames') <=> c \in Processing(frames)
    BY DEF Same
  <2> QED
    BY <2>1, StreamKept
<1>2. \A kind \in {"rqt", "resp"}, c \in Ctxts :
          Places(frames', box'.mcu, kind, c) = Places(frames, box.mcu, kind, c)
  BY PlacesKept
<1>3. DataOK'
  BY <1>1, InvParts, DataKept
<1>4. ASSUME NEW c \in Ctxts
      PROVE  EventsAreOK(c)'
  <2>1. EventsKept(c)
    BY <1>1, <1>2 DEF EventsKept
  <2> QED
    BY <2>1, InvParts, EventsAreKept
<1>5. ASSUME late.reply = 0
      PROVE  (\A c \in Ctxts : QueueIsOK(c)') /\ ResultsOK'
  <2>1. ASSUME NEW c \in Ctxts
        PROVE  QueueIsOK(c)'
    <3>1. QueueKept(c)
      BY <1>1, <1>2 DEF QueueKept
    <3> QED
      BY <1>5, <3>1, InvParts, QueueIsKept
  <2>2. ResultsOK'
    BY <1>5, InvParts, ResultsKept
  <2> QED
    BY <2>1, <2>2
<1>6. CallsOK(frames')
  BY DEF Same
<1> QED
  BY <1>3, <1>4, <1>5, <1>6 DEF LlInv

LEMMA ReplyCameStep ==
    ASSUME LlHyp, LlInv, ReplyCame
    PROVE  LlInv'
<1>1. frames \in Seq(Frame) /\ frames # <<>> /\ Last(frames).op = "wait" /\ frames' = Front(frames)
      /\ UNCHANGED <<ll, box, firmware, results, events, late>>
  BY InvParts, Fields DEF ReplyCame, Runs, Top, Pops
<1>2. Idle(Last(frames))
  BY <1>1 DEF Idle, Works
<1>3. Same(frames, frames')
  BY <1>1, <1>2, InvParts, IdleReturn
<1>4. Typed'
  BY <1>1, <1>3, InvParts DEF Typed, Same
<1> QED
  BY <1>1, <1>3, <1>4, QuietStep

LEMMA EnterHandlerStep ==
    ASSUME LlHyp, LlInv, EnterHandler
    PROVE  LlInv'
<1>1. frames \in Seq(Frame) /\ frames # <<>> /\ Last(frames).op = "handler" /\ Last(frames).at = "entry"
      /\ UNCHANGED <<box, firmware, results, events, late>> /\ CallsOK(frames)
      /\ IF ll.queued_data
         THEN ll' = [ll EXCEPT !.queued_data = FALSE] /\ frames' = Append(Front(frames), Handler("start", 0))
         ELSE frames' = Front(frames) /\ ll' = ll
  BY InvParts, Fields DEF EnterHandler, Runs, Top, Pops, TopBecomes
<1>2. Idle(Last(frames))
  BY <1>1 DEF Idle, Works
<1>3. 0 \in Ctxts
  BY DEF LlHyp, Ctxts
<1>4. Handler("start", 0) \in Frame /\ Handler("start", 0).op = "handler" /\ Handler("start", 0).at = "start"
  BY <1>3, FramesMade
<1>5. Idle(Handler("start", 0))
  BY <1>4 DEF Idle, Works
<1>6. Same(frames, frames')
  BY <1>1, <1>2, <1>4, <1>5, IdleReturn, IdleGoesOn DEF Handles
<1>7. /\ ll' \in Lls /\ ll'.queue = ll.queue /\ ll'.has_last = ll.has_last
      /\ ll'.data_queue = ll.data_queue /\ ll'.rqt_index = ll.rqt_index /\ ll'.req = ll.req
  <2>1. ll \in Lls
    BY InvParts DEF Typed
  <2> QED
    BY <1>1, <2>1 DEF Lls
<1>8. Typed'
  BY <1>1, <1>6, <1>7, InvParts DEF Typed, Same
<1> QED
  BY <1>1, <1>6, <1>7, <1>8, QuietStep

\* A request is queued, and calls are begun.
LEMMA LLSendRequestStep ==
    ASSUME LlHyp, LlInv, NEW r \in Rqts, LLSendRequest(r)
    PROVE  LlInv'
<1> DEFINE c == RqtContext[r]
           q == ll.queue[c]
           n == [rqt |-> r, state |-> "QUEUED", resp |-> <<>>]
           q2 == IF q = <<>> THEN <<n>> ELSE IF ll.has_last[c] THEN Append(q, n) ELSE q
           begun == IF r \in Waited THEN <<Wait(r)>> ELSE <<>>
           calls == <<Handler("entry", 0), SendNext(c)>>
<1>1. c \in Ctxts /\ 0 \in Ctxts
  BY DEF LlHyp, Ctxts
<1>2. n \in Node /\ n.state = "QUEUED" /\ n.resp = <<>> /\ n.rqt = r
  BY DEF Node
<1>3. /\ frames = <<>> /\ results[r].ret = "not sent" /\ results' = [results EXCEPT ![r].ret = "sent"]
      /\ ll' = IF q = <<>>
               THEN [ll EXCEPT !.queue[c] = <<n>>, !.has_last[c] = TRUE]
               ELSE IF ll.has_last[c] THEN [ll EXCEPT !.queue[c] = Append(q, n)] ELSE ll
      /\ frames' = IF r \in Waited THEN <<Wait(r)>> \o calls ELSE calls
      /\ UNCHANGED <<box, firmware, events, late>>
  BY DEF LLSendRequest
<1>4. ll \in Lls /\ q \in Seq(Node) /\ ll.queue \in [Ctxts -> Seq(Node)] /\ results \in [Rqts -> Outcomes]
      /\ ll.has_last \in [Ctxts -> BOOLEAN]
  BY <1>1, InvParts, Fields DEF Typed, Lls
<1> HIDE DEF n
<1>5. q2 \in Seq(Node) /\ (ll.has_last[c] => q2 = Append(q, n))
  <2>1. Append(q, n) \in Seq(Node)
    BY <1>2, <1>4, AppendProperties
  <2>2. q = <<>> => Append(q, n) = <<n>>
    BY <1>2
  <2>3. <<n>> \in Seq(Node)
    BY <1>2
  <2> QED
    BY <1>4, <2>1, <2>2, <2>3
<1>6. /\ ll' \in Lls /\ ll'.queue = [ll.queue EXCEPT ![c] = q2]
      /\ ll'.data_queue = ll.data_queue /\ ll'.rqt_index = ll.rqt_index /\ ll'.req = ll.req
      /\ \A d \in Ctxts : ll.has_last[d] => ll'.has_last[d]
  <2>1. CASE q = <<>>
    <3>1. ll' = [ll EXCEPT !.queue[c] = <<n>>, !.has_last[c] = TRUE] /\ q2 = <<n>>
      BY <1>3, <2>1
    <3> HIDE DEF q, q2
    <3>2. /\ ll'.queue = [ll.queue EXCEPT ![c] = q2] /\ ll'.has_last = [ll.has_last EXCEPT ![c] = TRUE]
          /\ ll'.data_queue = ll.data_queue /\ ll'.rqt_index = ll.rqt_index /\ ll'.req = ll.req
      BY <1>4, <3>1 DEF Lls
    <3>3. ll' \in Lls
      BY <1>1, <1>4, <1>5, <3>1 DEF Lls
    <3> QED
      BY <1>1, <1>4, <3>2, <3>3
  <2>2. CASE q # <<>> /\ ll.has_last[c]
    <3>1. ll' = [ll EXCEPT !.queue[c] = q2]
      BY <1>3, <2>2
    <3> HIDE DEF q, q2
    <3>2. /\ ll'.queue = [ll.queue EXCEPT ![c] = q2] /\ ll'.has_last = ll.has_last
          /\ ll'.data_queue = ll.data_queue /\ ll'.rqt_index = ll.rqt_index /\ ll'.req = ll.req
      BY <1>4, <3>1 DEF Lls
    <3>3. ll' \in Lls
      BY <1>1, <1>4, <1>5, <3>1 DEF Lls
    <3> QED
      BY <1>1, <1>4, <3>2, <3>3
  <2>3. CASE q # <<>> /\ ~ll.has_last[c]
    <3>1. ll' = ll /\ q2 = q
      BY <1>3, <2>3
    <3>2. [ll.queue EXCEPT ![c] = q] = ll.queue
      BY <1>4
    <3> QED
      BY <1>4, <3>1, <3>2
  <2> QED
    BY <2>1, <2>2, <2>3
<1> HIDE DEF q2
<1>7. ll'.queue[c] = q2 /\ \A d \in Ctxts : d # c => ll'.queue[d] = ll.queue[d]
  BY <1>1, <1>4, <1>6
<1>8. Same(frames, frames')
  <2> DEFINE h == Handler("entry", 0)
             m == SendNext(c)
             w == Wait(r)
  <2>1. /\ h \in Frame /\ h.op = "handler" /\ h.at = "entry" /\ m \in Frame /\ m.op = "next"
        /\ w \in Frame /\ w.op = "wait"
    BY <1>1, FramesMade
  <2>2. frames' = begun \o <<h, m>>
    <3>1. <<>> \o <<h, m>> = <<h, m>>
      <4>1. <<h, m>> \in Seq(Frame)
        BY <2>1
      <4> QED
        BY <4>1, ConcatEmptySeq
    <3> QED
      BY <1>3, <3>1
  <2> HIDE DEF h, m, w
  <2>3. Idle(h) /\ Idle(m) /\ Idle(w)
    BY <2>1 DEF Idle, Works
  <2>4. <<>> \in Seq(Frame) /\ CallsOK(<<>>) /\ Passive(<<>>)
    BY DEF CallsOK, Passive
  <2>5. begun \in Seq(Frame) /\ Same(<<>>, begun) /\ Passive(begun)
    <3>1. Same(<<>>, <<>>)
      BY <2>4 DEF Same
    <3>2. Append(<<>>, w) = <<w>> /\ Append(<<>>, w) \in Seq(Frame)
      BY <2>1
    <3>3. Same(<<>>, Append(<<>>, w))
      BY <2>1, <2>3, <2>4, IdleCall DEF Handles
    <3>4. Passive(Append(<<>>, w))
      <4>1. Pushed(<<>>, w, Append(<<>>, w))
        BY <2>1, <2>4, PushedIs
      <4> QED
        BY <2>1, <2>4, <4>1 DEF Pushed, Active
    <3> QED
      BY <2>4, <3>1, <3>2, <3>3, <3>4 DEF w
  <2> HIDE DEF begun
  <2>6. Same(begun, Append(begun, h))
    BY <2>1, <2>3, <2>5, IdleCall DEF Same
  <2>7. Same(Append(begun, h), Append(Append(begun, h), m))
    BY <2>1, <2>3, <2>6, IdleCall DEF Same, Handles
  <2>8. frames' = Append(Append(begun, h), m)
    BY <2>1, <2>2, <2>5, TwoCalls
  <2> QED
    BY <1>3, <2>5, <2>6, <2>7, <2>8 DEF Same
<1>9. /\ results' \in [Rqts -> Outcomes] /\ results'[r].ret = "sent"
      /\ \A x \in Rqts : x # r => results'[x] = results[x]
  <2>1. results[r] \in Outcomes
    BY <1>4
  <2>2. [results[r] EXCEPT !.ret = "sent"] \in Outcomes /\ [results[r] EXCEPT !.ret = "sent"].ret = "sent"
    BY <2>1 DEF Outcomes, Results
  <2>3. results' = [results EXCEPT ![r] = [results[r] EXCEPT !.ret = "sent"]]
    BY <1>3, <1>4
  <2> QED
    BY <1>4, <2>2, <2>3
<1>10. Typed'
  BY <1>3, <1>6, <1>8, <1>9, InvParts DEF Typed, Same
<1>11. \A d \in Ctxts : StreamOf(d)' = StreamOf(d) /\ Index(d)' = Index(d)
  <2> SUFFICES ASSUME NEW d \in Ctxts
               PROVE  StreamOf(d)' = StreamOf(d) /\ Index(d)' = Index(d)
    OBVIOUS
  <2>1. d \in Processing(frames') <=> d \in Processing(frames)
    BY <1>8 DEF Same
  <2> QED
    BY <1>3, <1>6, <2>1, StreamKept
<1>12. \A kind \in {"rqt", "resp"}, d \in Ctxts :
           Places(frames', box'.mcu, kind, d) = Places(frames, box.mcu, kind, d)
  <2>1. box'.mcu = box.mcu
    BY <1>3
  <2>2. \A kind \in {"rqt", "resp"}, d \in Ctxts :
            Places(frames', box.mcu, kind, d) = Places(frames, box.mcu, kind, d)
    BY <1>8, PlacesKept
  <2> QED
    BY <2>1, <2>2, Zenon
<1>13. DataOK'
  BY <1>3, <1>6, <1>11, InvParts, DataKept
<1>14. ASSUME NEW d \in Ctxts
       PROVE  EventsAreOK(d)'
  <2>1. EventsKept(d)
    BY <1>3, <1>6, <1>11, <1>12 DEF EventsKept
  <2> QED
    BY <2>1, InvParts, EventsAreKept
<1>15. ASSUME late.reply = 0
       PROVE  (\A d \in Ctxts : QueueIsOK(d)') /\ ResultsOK'
  <2>1. ASSUME NEW d \in Ctxts, d # c
        PROVE  QueueIsOK(d)'
    <3>1. QueueKept(d)
      BY <1>3, <1>6, <1>7, <1>9, <1>11, <1>12, <2>1 DEF QueueKept
    <3> QED
      BY <1>15, <3>1, InvParts, QueueIsKept
  <2>2. QueueIsOK(c)'
    <3> DEFINE s == StreamOf(c)
               o == OpenIn(firmware.open, c)
               p == Places(frames, box.mcu, "rqt", c)
    <3>1. ll.has_last[c] /\ NodesOK(c, q, results) /\ QueueOK(s, q, o, p) /\ s \in Seq(Part)
      BY <1>1, <1>15, InvParts, StreamIn DEF QueueIsOK
    <3>2. q2 = Append(q, n) /\ ll'.has_last[c]
      BY <1>1, <1>5, <1>6, <3>1
    <3> HIDE DEF s, o, p
    <3>3. QueueOK(s, Append(q, n), o, p)
      BY <1>2, <1>4, <3>1, NodeQueued
    <3>4. NodesOK(c, Append(q, n), results')
      BY <1>2, <1>3, <1>4, <1>9, <3>1, NodesQueued
    <3>5. QueueOK(StreamOf(c)', ll'.queue[c], OpenIn(firmware'.open, c), Places(frames', box'.mcu, "rqt", c))
      BY <1>1, <1>3, <1>7, <1>11, <1>12, <3>2, <3>3 DEF s, o, p
    <3> QED
      BY <1>7, <3>2, <3>4, <3>5 DEF QueueIsOK
  <2>3. ResultsOK'
    <3>1. ASSUME NEW x \in Rqts, results'[x].ret = "sent"
          PROVE  IsInQueue(x)'
      <4>1. CASE x = r
        <5>1. ll.has_last[c] /\ q2 = Append(q, n)
          BY <1>1, <1>5, <1>15, InvParts DEF QueueIsOK
        <5>2. Len(q2) \in Nat /\ Len(q2) \in DOMAIN q2 /\ q2[Len(q2)] = n
          <6>1. /\ Append(q, n) \in Seq(Node) /\ Len(Append(q, n)) = Len(q) + 1
                /\ Append(q, n)[Len(q) + 1] = n
            BY <1>2, <1>4, AppendProperties
          <6>2. Len(q) \in Nat /\ DOMAIN Append(q, n) = 1..(Len(q) + 1)
            BY <1>4, <6>1
          <6> QED
            BY <5>1, <6>1, <6>2
        <5> QED
          BY <1>2, <1>7, <4>1, <5>2 DEF IsInQueue
      <4>2. CASE x # r
        <5>1. IsInQueue(x)
          BY <1>9, <1>15, <3>1, <4>2, InvParts DEF ResultsOK
        <5>2. RqtContext[x] \in Ctxts
          BY DEF LlHyp
        <5>3. CASE RqtContext[x] # c
          BY <1>7, <5>1, <5>2, <5>3 DEF IsInQueue
        <5>4. CASE RqtContext[x] = c
          <6>1. PICK k \in DOMAIN q : q[k].rqt = x
            BY <5>1, <5>4 DEF IsInQueue
          <6>2. k \in 1..Len(q) /\ Len(q) \in Nat
            BY <1>4
          <6>3. q2 = Append(q, n)
            BY <1>1, <1>5, <1>15, InvParts DEF QueueIsOK
          <6>4. /\ Append(q, n) \in Seq(Node) /\ Len(Append(q, n)) = Len(q) + 1
                /\ Append(q, n)[k] = q[k]
            BY <1>2, <1>4, <6>2, AppendProperties
          <6>5. k \in DOMAIN q2 /\ q2[k].rqt = x
            BY <6>1, <6>2, <6>3, <6>4
          <6> QED
            BY <1>7, <5>4, <6>5 DEF IsInQueue
        <5> QED
          BY <5>3, <5>4
      <4> QED
        BY <4>1, <4>2
    <3>2. ResponseIsOwn'
      BY <1>9, <1>15, InvParts DEF ResultsOK, ResponseIsOwn
    <3> QED
      BY <3>1, <3>2 DEF ResultsOK
  <2> QED
    BY <2>1, <2>2, <2>3
<1>16. CallsOK(frames') /\ late' = late
  BY <1>3, <1>8 DEF Same
<1> QED
  BY <1>10, <1>13, <1>14, <1>15, <1>16 DEF LlInv
-----------------------------------------------------------------------------
(* Steps of CyAsLLSendNextRequest() and CyAsSendOne() *)

\* What a call of CyAsSendOne() adds to the places, or its return takes from them.
LEMMA PlacesSent ==
    ASSUME NEW b, NEW h, NEW p, Sends(b, h, p), NEW mcu
    PROVE  \A kind \in {"rqt", "resp"}, c \in Ctxts :
               /\ Places(h, mcu, kind, c) =
                      Places(b, mcu, kind, c) \cup
                      IF p.kind = kind /\ p.ctx = c THEN {<<Len(b) + 1, p.of>>} ELSE {}
               /\ \A x \in Places(b, NoPart, kind, c) : x[1] # Len(b) + 1 /\ x[1] # 0
<1> SUFFICES ASSUME NEW kind \in {"rqt", "resp"}, NEW c \in Ctxts
             PROVE  /\ Places(h, mcu, kind, c) =
                           Places(b, mcu, kind, c) \cup
                           IF p.kind = kind /\ p.ctx = c THEN {<<Len(b) + 1, p.of>>} ELSE {}
                    /\ \A x \in Places(b, NoPart, kind, c) : x[1] # Len(b) + 1 /\ x[1] # 0
  OBVIOUS
<1>1. /\ OnesIn(h, kind, c) =
             OnesIn(b, kind, c) \cup
             IF p.kind = kind /\ p.ctx = c THEN {<<Len(b) + 1, p.of>>} ELSE {}
      /\ \A x \in OnesIn(b, kind, c) : x[1] # Len(b) + 1 /\ x[1] # 0
  BY DEF Sends
<1>2. InMail(NoPart, kind, c) = {}
  BY DEF InMail
<1> QED
  BY <1>1, <1>2 DEF Places

LEMMA SendNextRequestStep ==
    ASSUME LlHyp, LlInv, NEW c \in Ctxts, SendNextRequest, c = Top.ctx
    PROVE  LlInv'
<1> DEFINE q == ll.queue[c]
           r == q[1].rqt
           q2 == [q EXCEPT ![1].state = "WAITING"]
           m == RequestMessage(r)
<1>1. /\ frames \in Seq(Frame) /\ frames # <<>> /\ Last(frames).op = "next" /\ CallsOK(frames)
      /\ UNCHANGED <<box, firmware, results, events, late>>
      /\ q \in Seq(Node) /\ ll \in Lls /\ ll.queue \in [Ctxts -> Seq(Node)]
      /\ Last(frames) = Top
  BY InvParts, Fields DEF SendNextRequest, Runs, Top, Typed, Lls
<1>2. Idle(Last(frames))
  BY <1>1 DEF Idle, Works
<1>3. ASSUME ~Sendable(q)
      PROVE  LlInv'
  <2>1. frames' = Front(frames) /\ ll' = ll
    BY <1>3 DEF SendNextRequest, Pops
  <2>2. Same(frames, frames')
    BY <1>1, <1>2, <2>1, IdleReturn
  <2>3. Typed'
    BY <1>1, <2>1, <2>2, InvParts DEF Typed, Same
  <2> QED
    BY <1>1, <2>1, <2>2, <2>3, QuietStep
<1>4. ASSUME Sendable(q)
      PROVE  LlInv'
  <2>1. /\ q # <<>> /\ Head(q) = q[1] /\ q[1].state = "QUEUED" /\ q[1] \in Node /\ r \in Rqts
        /\ 1 \in 1..Len(q)
    BY <1>1, <1>4, NodesAre DEF Sendable, NodeFields
  <2>2. ll' = [ll EXCEPT !.queue[c][1].state = "WAITING"] /\ frames' = Front(frames) \o <<Last(frames), SendOne(m)>>
    <3>1. Head(ll.queue[Top.ctx]).rqt = r
      BY <2>1
    <3>2. /\ ll' = [ll EXCEPT !.queue[Top.ctx][1].state = "WAITING"]
          /\ frames' = Front(frames) \o <<Top, SendOne(RequestMessage(Head(ll.queue[Top.ctx]).rqt))>>
      BY <1>4, Zenon DEF SendNextRequest, Calls
    <3> QED
      BY <1>1, <3>1, <3>2, Zenon
  <2>3. MessageOf(m, "rqt", RqtContext[r], r, RqtParts[r]) /\ m \in Seq(Part)
    BY <2>1, MessagesAre DEF MessageOf
  <2> HIDE DEF m
  <2>4. frames' = Append(frames, SendOne(m))
    <3>1. /\ Front(frames) \in Seq(Frame) /\ Last(frames) \in Frame
          /\ frames = Append(Front(frames), Last(frames))
      BY <1>1, TopIs
    <3>2. SendOne(m) \in Frame
      BY <2>3, FramesMade
    <3>3. frames' = Append(Append(Front(frames), Last(frames)), SendOne(m))
      BY <2>2, <3>1, <3>2, TwoCalls
    <3> QED
      BY <3>1, <3>3, Zenon
  <2>5. SendsRequest(m)
    <3>1. /\ m # <<>> /\ Len(m) = RqtParts[r] /\ RqtParts[r] \in Nat \ {0} /\ m[1] \in Part /\ m[1].kind = "rqt"
          /\ m[1].of = r /\ m[1].n = 1
      BY <2>3 DEF MessageOf
    <3>2. 1 \in 1..RqtParts[r] /\ Len(m) = RqtParts[r] - 1 + 1 /\ \A i \in 1..Len(m) : 1 + i - 1 = i
      BY <3>1
    <3>3. IsRequestPart(m[1])
      BY <2>1, <3>1, <3>2 DEF IsRequestPart, m
    <3> QED
      BY <3>1, <3>2, <3>3 DEF SendsRequest, m
  <2>6. Sends(frames, frames', m[1])
    <3>1. frames[Len(frames)].op = "next"
      BY <1>1 DEF Last
    <3> QED
      BY <1>1, <2>3, <2>4, <2>5, <3>1, SendingCall
  <2>7. m[1].kind = "rqt" /\ m[1].ctx = RqtContext[r] /\ m[1].of = r
    BY <2>3 DEF MessageOf
  <2>8. q2 \in Seq(Node)
    <3> DEFINE n == [q[1] EXCEPT !.state = "WAITING"]
    <3>1. n \in Node
      BY <2>1 DEF Node
    <3>2. q2 = [q EXCEPT ![1] = n]
      BY <2>1
    <3> HIDE DEF n
    <3> QED
      BY <1>1, <2>1, <3>1, <3>2, ExceptSeq
  <2>9. /\ ll' \in Lls /\ ll'.queue = [ll.queue EXCEPT ![c] = q2] /\ ll'.has_last = ll.has_last
        /\ ll'.data_queue = ll.data_queue /\ ll'.rqt_index = ll.rqt_index /\ ll'.req = ll.req
    <3>1. ll' = [ll EXCEPT !.queue[c] = q2]
      BY <2>2
    <3> HIDE DEF q2
    <3>2. /\ ll'.queue = [ll.queue EXCEPT ![c] = q2] /\ ll'.has_last = ll.has_last
          /\ ll'.data_queue = ll.data_queue /\ ll'.rqt_index = ll.rqt_index /\ ll'.req = ll.req
      BY <1>1, <3>1 DEF Lls
    <3>3. ll' \in Lls
      BY <1>1, <2>8, <3>1 DEF Lls
    <3> QED
      BY <3>2, <3>3
  <2>10. ll'.queue[c] = q2 /\ \A d \in Ctxts : d # c => ll'.queue[d] = ll.queue[d]
    BY <1>1, <2>9
  <2>11. Typed'
    BY <1>1, <2>6, <2>9, InvParts DEF Typed, Sends
  <2>12. \A d \in Ctxts : StreamOf(d)' = StreamOf(d) /\ Index(d)' = Index(d)
    <3> SUFFICES ASSUME NEW d \in Ctxts
                 PROVE  StreamOf(d)' = StreamOf(d) /\ Index(d)' = Index(d)
      OBVIOUS
    <3>1. d \in Processing(frames') <=> d \in Processing(frames)
      BY <2>6 DEF Sends
    <3> QED
      BY <1>1, <2>9, <3>1, StreamKept
  <2>13. DataOK'
    BY <1>1, <2>9, <2>12, InvParts, DataKept
  <2>14. \A kind \in {"rqt", "resp"}, d \in Ctxts :
             Places(frames', box'.mcu, kind, d) =
                 Places(frames, box.mcu, kind, d) \cup
                 IF kind = "rqt" /\ d = RqtContext[r] THEN {<<Len(frames) + 1, r>>} ELSE {}
    <3>1. box'.mcu = box.mcu
      BY <1>1
    <3>2. \A kind \in {"rqt", "resp"}, d \in Ctxts :
              Places(frames', box.mcu, kind, d) =
                  Places(frames, box.mcu, kind, d) \cup
                  IF m[1].kind = kind /\ m[1].ctx = d THEN {<<Len(frames) + 1, m[1].of>>} ELSE {}
      BY <2>6, PlacesSent
    <3> QED
      BY <2>7, <3>1, <3>2
  <2>15. ASSUME NEW d \in Ctxts
         PROVE  EventsAreOK(d)'
    <3>1. EventsKept(d)
      BY <1>1, <2>9, <2>12, <2>14 DEF EventsKept
    <3> QED
      BY <3>1, InvParts, EventsAreKept
  <2>16. ASSUME late.reply = 0
         PROVE  (\A d \in Ctxts : QueueIsOK(d)') /\ ResultsOK'
    <3> DEFINE s == StreamOf(c)
               o == OpenIn(firmware.open, c)
               p == Places(frames, box.mcu, "rqt", c)
    <3>1. ll.has_last[c] /\ NodesOK(c, q, results) /\ QueueOK(s, q, o, p) /\ s \in Seq(Part)
      BY <2>16, InvParts, StreamIn DEF QueueIsOK
    <3>2. RqtContext[r] = c
      BY <2>1, <3>1 DEF NodesOK
    <3>3. ASSUME NEW d \in Ctxts, d # c
          PROVE  QueueIsOK(d)'
      <4>1. QueueKept(d)
        BY <1>1, <2>9, <2>10, <2>12, <2>14, <3>2, <3>3 DEF QueueKept
      <4> QED
        BY <2>16, <4>1, InvParts, QueueIsKept
    <3>4. QueueIsOK(c)'
      <4> HIDE DEF s, o, p, q
      <4>1. /\ p = {} /\ NodesOK(c, q2, results)
            /\ \A Q : (\A x, y \in Q : x = y) /\ (\A x \in Q : x[2] = r) => QueueOK(s, q2, o, Q)
        BY <1>1, <2>1, <3>1, HeadSent
      <4>2. Places(frames', box'.mcu, "rqt", c) = {<<Len(frames) + 1, r>>}
        BY <2>14, <3>2, <4>1 DEF p
      <4> HIDE DEF q2, r
      <4>3. QueueOK(s, q2, o, {<<Len(frames) + 1, r>>})
        BY <4>1
      <4>4. QueueOK(StreamOf(c)', ll'.queue[c], OpenIn(firmware'.open, c), Places(frames', box'.mcu, "rqt", c))
        <5>1. StreamOf(c)' = s /\ OpenIn(firmware'.open, c) = o /\ ll'.queue[c] = q2
          BY <1>1, <2>10, <2>12 DEF s, o
        <5> QED
          BY <4>2, <4>3, <5>1, Zenon
      <4>5. ll'.has_last[c] /\ NodesOK(c, ll'.queue[c], results')
        BY <1>1, <2>9, <2>10, <3>1, <4>1
      <4> QED
        BY <4>4, <4>5 DEF QueueIsOK
    <3>5. ResultsOK'
      <4>1. ASSUME NEW x \in Rqts, results'[x].ret = "sent"
            PROVE  IsInQueue(x)'
        <5>1. IsInQueue(x) /\ RqtContext[x] \in Ctxts
          BY <1>1, <2>16, <4>1, InvParts DEF ResultsOK, LlHyp
        <5>2. CASE RqtContext[x] # c
          BY <2>10, <5>1, <5>2 DEF IsInQueue
        <5>3. CASE RqtContext[x] = c
          <6>1. PICK k \in DOMAIN q : q[k].rqt = x
            BY <5>1, <5>3 DEF IsInQueue
          <6>2. k \in DOMAIN q2 /\ q2[k].rqt = x
            <7>1. DOMAIN q2 = DOMAIN q
              OBVIOUS
            <7>2. CASE k = 1
              BY <2>1, <6>1, <7>1, <7>2 DEF Node
            <7>3. CASE k # 1
              BY <6>1, <7>1, <7>3
            <7> QED
              BY <7>2, <7>3
          <6> HIDE DEF q2
          <6> QED
            BY <2>10, <5>3, <6>2 DEF IsInQueue
        <5> QED
          BY <5>2, <5>3
      <4>2. ResponseIsOwn'
        BY <1>1, <2>16, InvParts DEF ResultsOK, ResponseIsOwn
      <4> QED
        BY <4>1, <4>2 DEF ResultsOK
    <3> QED
      BY <3>3, <3>4, <3>5
  <2>17. CallsOK(frames') /\ late' = late
    BY <1>1, <2>6 DEF Sends
  <2> QED
    BY <2>11, <2>13, <2>15, <2>16, <2>17 DEF LlInv
<1> QED
  BY <1>3, <1>4
-----------------------------------------------------------------------------
(* Steps that read the firmware's mailbox *)

\* The mailbox goes to the end of its context's data.
LEMMA QueuedStep ==
    ASSUME LlHyp, LlInv, NEW p \in Part, p = box.p0, box' = [box EXCEPT !.p0 = NoPart],
           ll' \in Lls, ll'.data_queue = [ll.data_queue EXCEPT ![p.ctx] = Append(ll.data_queue[p.ctx], p)],
           ll'.queue = ll.queue, ll'.has_last = ll.has_last, ll'.rqt_index = ll.rqt_index, ll'.req = ll.req,
           Same(frames, frames'), UNCHANGED <<firmware, results, events, late>>
    PROVE  LlInv'
<1>1. /\ box' \in Boxes /\ box'.mcu = box.mcu /\ box'.p0 = NoPart /\ p.ctx \in Ctxts
      /\ ll.data_queue \in [Ctxts -> Seq(Part)] /\ firmware.says \in Seq(Part)
  <2>1. p.ctx \in Ctxts
    BY DEF Part
  <2>2. box \in Boxes
    BY InvParts DEF Typed
  <2>3. box' \in Boxes /\ box'.mcu = box.mcu /\ box'.p0 = NoPart
    BY <2>2 DEF Boxes
  <2>4. ll.data_queue \in [Ctxts -> Seq(Part)] /\ firmware.says \in Seq(Part)
    BY InvParts DEF Typed, Lls, Firmwares
  <2> QED
    BY <2>1, <2>3, <2>4
<1>2. Typed'
  BY <1>1, InvParts DEF Typed, Same
<1>3. ASSUME NEW c \in Ctxts
      PROVE  StreamOf(c)' = StreamOf(c) /\ Index(c)' = Index(c) /\ Index(c) <= Len(ll'.data_queue[c])
  <2>1. Index(c)' = Index(c)
    BY DEF Index, Same
  <2>2. /\ Index(c) \in Nat /\ Index(c) <= Len(ll.data_queue[c]) /\ ll.data_queue[c] \in Seq(Part)
        /\ Len(ll.data_queue[c]) \in Nat
    BY InvParts, Fields DEF DataOK
  <2> DEFINE d == ll.data_queue[c]
             i == Index(c)
             says == firmware.says
  <2>3. StreamOf(c) = Stream(d, i, p, says, c)
        /\ StreamOf(c)' = Stream(ll'.data_queue[c], i, NoPart, says, c)
    BY <1>1, <2>1 DEF StreamOf
  <2>4. /\ p.ctx = c => ll'.data_queue[c] = Append(d, p)
        /\ p.ctx # c => ll'.data_queue[c] = d
    BY <1>1
  <2> HIDE DEF i, d, says
  <2>5. /\ p.ctx = c => Stream(Append(d, p), i, NoPart, says, c) = Stream(d, i, p, says, c)
        /\ p.ctx # c => Stream(d, i, NoPart, says, c) = Stream(d, i, p, says, c)
    <3>1. d \in Seq(Part) /\ i \in Nat /\ i <= Len(d) /\ says \in Seq(Part)
      BY <1>1, <2>2 DEF d, i, says
    <3> QED
      BY <3>1, DataQueued
  <2>6. StreamOf(c)' = StreamOf(c)
    <3>1. CASE p.ctx = c
      BY <2>3, <2>4, <2>5, <3>1, Zenon
    <3>2. CASE p.ctx # c
      BY <2>3, <2>4, <2>5, <3>2, Zenon
    <3> QED
      BY <3>1, <3>2
  <2>7. i <= Len(ll'.data_queue[c])
    <3>1. Len(Append(d, p)) = Len(d) + 1 /\ Len(d) \in Nat /\ i \in Nat /\ i <= Len(d)
      BY <2>2, AppendProperties DEF d, i
    <3>2. CASE p.ctx = c
      BY <2>4, <3>1, <3>2
    <3>3. CASE p.ctx # c
      BY <2>4, <3>1, <3>3
    <3> QED
      BY <3>2, <3>3
  <2> QED
    BY <2>1, <2>6, <2>7 DEF i
<1>4. DataOK'
  BY <1>1, <1>3, InvParts DEF DataOK
<1>5. \A kind \in {"rqt", "resp"}, c \in Ctxts :
          Places(frames', box'.mcu, kind, c) = Places(frames, box.mcu, kind, c)
  <2>1. \A kind \in {"rqt", "resp"}, c \in Ctxts :
            Places(frames', box.mcu, kind, c) = Places(frames, box.mcu, kind, c)
    BY PlacesKept
  <2> QED
    BY <1>1, <2>1, Zenon
<1>6. ASSUME NEW c \in Ctxts
      PROVE  EventsAreOK(c)'
  <2>1. EventsKept(c)
    BY <1>3, <1>5 DEF EventsKept
  <2> QED
    BY <2>1, InvParts, EventsAreKept
<1>7. ASSUME late.reply = 0
      PROVE  (\A c \in Ctxts : QueueIsOK(c)') /\ ResultsOK'
  <2>1. ASSUME NEW c \in Ctxts
        PROVE  QueueIsOK(c)'
    <3>1. QueueKept(c)
      BY <1>3, <1>5 DEF QueueKept
    <3> QED
      BY <1>7, <3>1, InvParts, QueueIsKept
  <2>2. ResultsOK'
    BY <1>7, InvParts, ResultsKept
  <2> QED
    BY <2>1, <2>2
<1>8. CallsOK(frames')
  BY DEF Same
<1> QED
  BY <1>2, <1>4, <1>6, <1>7, <1>8 DEF LlInv

LEMMA QueuedIs ==
    ASSUME Typed, NEW p \in Part
    PROVE  /\ Queued(p) \in Lls /\ [Queued(p) EXCEPT !.queued_data = FALSE] \in Lls
           /\ \A l \in {Queued(p), [Queued(p) EXCEPT !.queued_data = FALSE]} :
                  /\ l.data_queue = [ll.data_queue EXCEPT ![p.ctx] = Append(ll.data_queue[p.ctx], p)]
                  /\ l.queue = ll.queue /\ l.has_last = ll.has_last /\ l.rqt_index = ll.rqt_index
                  /\ l.req = ll.req
<1> DEFINE d == [ll.data_queue EXCEPT ![p.ctx] = Append(ll.data_queue[p.ctx], p)]
<1>1. ll \in Lls /\ ll.data_queue \in [Ctxts -> Seq(Part)] /\ p.ctx \in Ctxts
  BY DEF Typed, Lls, Part
<1>2. d \in [Ctxts -> Seq(Part)]
  <2>1. Append(ll.data_queue[p.ctx], p) \in Seq(Part)
    BY <1>1
  <2> QED
    BY <1>1, <2>1
<1>3. Queued(p) = [ll EXCEPT !.data_queue = d, !.queued_data = TRUE]
  BY DEF Queued
<1> HIDE DEF d
<1>4. /\ Queued(p) \in Lls /\ Queued(p).data_queue = d /\ Queued(p).queue = ll.queue
      /\ Queued(p).has_last = ll.has_last /\ Queued(p).rqt_index = ll.rqt_index
      /\ Queued(p).req = ll.req
  BY <1>1, <1>2, <1>3 DEF Lls
<1> DEFINE l == Queued(p)
           l2 == [l EXCEPT !.queued_data = FALSE]
<1> HIDE DEF l
<1>5. /\ l2 \in Lls /\ l2.data_queue = l.data_queue /\ l2.queue = l.queue
      /\ l2.has_last = l.has_last /\ l2.rqt_index = l.rqt_index /\ l2.req = l.req
  BY <1>4 DEF Lls, l
<1> QED
  BY <1>4, <1>5 DEF d, l

LEMMA ReadIntrStatusStep ==
    ASSUME LlHyp, LlInv, ReadIntrStatus
    PROVE  LlInv'
<1>1. /\ box.p0 \in Part /\ ll' = Queued(box.p0) /\ box' = [box EXCEPT !.p0 = NoPart]
      /\ UNCHANGED <<frames, firmware, results, events, late>>
  BY InvParts, Fields DEF ReadIntrStatus
<1>2. Same(frames, frames')
  BY <1>1, InvParts, Fields DEF Same
<1>3. ASSUME NEW p \in Part, p = box.p0
      PROVE  LlInv'
  <2>1. ll' = Queued(p)
    BY <1>1, <1>3
  <2>2. /\ ll' \in Lls /\ ll'.data_queue = [ll.data_queue EXCEPT ![p.ctx] = Append(ll.data_queue[p.ctx], p)]
        /\ ll'.queue = ll.queue /\ ll'.has_last = ll.has_last /\ ll'.rqt_index = ll.rqt_index
        /\ ll'.req = ll.req
    BY <2>1, InvParts, QueuedIs
  <2> QED
    BY <1>1, <1>2, <1>3, <2>2, QueuedStep
<1> QED
  BY <1>1, <1>3

LEMMA MailBoxInterruptStep ==
    ASSUME LlHyp, LlInv, MailBoxInterrupt
    PROVE  LlInv'
<1>1. /\ box.p0 \in Part /\ ll' = [Queued(box.p0) EXCEPT !.queued_data = FALSE]
      /\ box' = [box EXCEPT !.p0 = NoPart] /\ frames' = Append(frames, Handler("start", 0)) /\ ~Masked
      /\ UNCHANGED <<firmware, results, events, late>>
      /\ frames \in Seq(Frame) /\ CallsOK(frames)
  BY InvParts, Fields DEF MailBoxInterrupt
<1>2. Same(frames, frames')
  <2>1. 0 \in Ctxts
    BY DEF LlHyp, Ctxts
  <2>2. Handler("start", 0) \in Frame /\ Handler("start", 0).op = "handler" /\ Handler("start", 0).at = "start"
    BY <2>1, FramesMade
  <2>3. Idle(Handler("start", 0))
    BY <2>2 DEF Idle, Works
  <2>4. Passive(frames)
    <3>1. DOMAIN frames = 1..Len(frames)
      BY <1>1
    <3> QED
      BY <1>1, <3>1 DEF Masked, Passive, Active
  <2> QED
    BY <1>1, <2>2, <2>3, <2>4, IdleCall
<1>3. ASSUME NEW p \in Part, p = box.p0
      PROVE  LlInv'
  <2>1. ll' = [Queued(p) EXCEPT !.queued_data = FALSE]
    BY <1>1, <1>3
  <2>2. /\ ll' \in Lls /\ ll'.data_queue = [ll.data_queue EXCEPT ![p.ctx] = Append(ll.data_queue[p.ctx], p)]
        /\ ll'.queue = ll.queue /\ ll'.has_last = ll.has_last /\ ll'.rqt_index = ll.rqt_index
        /\ ll'.req = ll.req
    BY <2>1, InvParts, QueuedIs
  <2> QED
    BY <1>1, <1>2, <1>3, <2>2, QueuedStep
<1> QED
  BY <1>1, <1>3
\* The rest of a request is one.
LEMMA RequestGoesOn ==
    ASSUME LlHyp, NEW parts \in Seq(Part), SendsRequest(parts), ~parts[1].last
    PROVE  /\ Tail(parts) \in Seq(Part) /\ SendsRequest(Tail(parts))
           /\ Tail(parts)[1].kind = parts[1].kind /\ Tail(parts)[1].ctx = parts[1].ctx
           /\ Tail(parts)[1].of = parts[1].of
<1> DEFINE p == parts[1]
           t == Tail(parts)
           size == RqtParts[p.of]
           m == RequestMessage(p.of)
<1>1. /\ parts # <<>> /\ IsRequestPart(p) /\ Len(parts) = size - p.n + 1
      /\ \A i \in 1..Len(parts) : parts[i] = m[p.n + i - 1]
  BY DEF SendsRequest
<1>2. t \in Seq(Part) /\ Shifted(parts, t) /\ Len(parts) \in Nat \ {0}
  BY <1>1, TailIs
<1>3. /\ p.of \in Rqts /\ size \in Nat \ {0} /\ p.n \in 1..size /\ p.n # size /\ MessageOf(m, "rqt", RqtContext[p.of], p.of, size)
      /\ p.kind = "rqt" /\ p.ctx = RqtContext[p.of]
  <2>1. /\ p.kind = "rqt" /\ p.of \in Rqts /\ p.ctx = RqtContext[p.of] /\ p.last = (p.n = size)
        /\ p.n \in 1..size
    BY <1>1, PartsAre
  <2> QED
    BY <2>1, MessagesAre DEF LlHyp
<1> HIDE DEF size, m, t, p
<1>4. Len(t) = size - p.n /\ Len(t) \in Nat \ {0} /\ p.n + 1 \in 1..size
  <2> DEFINE k == p.n
             j == Len(t)
             l == Len(parts)
  <2>1. k \in Nat /\ size \in Nat /\ k < size /\ k \in 1..size
    BY <1>3
  <2>2. j = l - 1 /\ l = (size - k) + 1
    BY <1>1, <1>2 DEF Shifted
  <2> HIDE DEF k, j, l
  <2>3. j = size - k
    BY <2>1, <2>2
  <2>4. j \in Nat \ {0} /\ k + 1 \in 1..size
    BY <2>1, <2>3
  <2> QED
    BY <2>3, <2>4 DEF k, j
<1>5. \A i \in 1..Len(t) : t[i] = m[(p.n + 1) + i - 1]
  <2> SUFFICES ASSUME NEW i \in 1..Len(t)
               PROVE  t[i] = m[(p.n + 1) + i - 1]
    OBVIOUS
  <2>1. i + 1 \in 1..Len(parts) /\ t[i] = parts[i + 1]
    BY <1>2 DEF Shifted
  <2>2. parts[i + 1] = m[p.n + (i + 1) - 1]
    BY <1>1, <2>1
  <2>3. p.n + (i + 1) - 1 = (p.n + 1) + i - 1
    BY <1>3, <1>4
  <2> QED
    BY <2>1, <2>2, <2>3
<1>6. t[1] = m[p.n + 1]
  <2>1. 1 \in 1..Len(t) /\ (p.n + 1) + 1 - 1 = p.n + 1
    BY <1>3, <1>4
  <2> QED
    BY <1>5, <2>1
<1>7. /\ t[1].kind = "rqt" /\ t[1].ctx = RqtContext[p.of] /\ t[1].of = p.of /\ t[1].n = p.n + 1
      /\ t[1] = m[t[1].n]
  BY <1>3, <1>4, <1>6 DEF MessageOf
<1>8. IsRequestPart(t[1])
  BY <1>3, <1>4, <1>7 DEF IsRequestPart, m, size
<1>9. Len(t) = RqtParts[t[1].of] - t[1].n + 1
  <2>1. RqtParts[t[1].of] = size
    BY <1>7 DEF size
  <2>2. size - p.n = size - (p.n + 1) + 1
    BY <1>3
  <2> QED
    BY <1>4, <1>7, <2>1, <2>2
<1>10. \A i \in 1..Len(t) : t[i] = RequestMessage(t[1].of)[t[1].n + i - 1]
  BY <1>5, <1>7 DEF m
<1>11. t # <<>>
  BY <1>4
<1> QED
  BY <1>2, <1>3, <1>7, <1>8, <1>9, <1>10, <1>11 DEF SendsRequest, t, p

\* A message that was in one place is in another one.
Moved(P, Q) ==
    /\ (P = {} <=> Q = {}) /\ \A x, y \in Q : x = y
    /\ \A x \in Q : \E y \in P : x[2] = y[2]
LEMMA EventsMoved ==
    ASSUME NEW c, NEW s, NEW req, NEW given, NEW a, NEW w, NEW P, NEW Q, Moved(P, Q),
           EventsOK(c, s, req, given, a, w, P)
    PROVE  EventsOK(c, s, req, given, a, w, Q)
BY Zenon DEF EventsOK, Moved
LEMMA QueueMoved ==
    ASSUME NEW s, NEW q, NEW o, NEW P, NEW Q, Moved(P, Q), QueueOK(s, q, o, P)
    PROVE  QueueOK(s, q, o, Q)
<1>1. \A x \in Q : Waits(q, x[2]) /\ o = {} /\ Unheard(s, q)
  BY Zenon DEF QueueOK, Moved
<1> QED
  BY <1>1, Zenon DEF QueueOK, Moved

\* The top of the stack sends part p.
Sender(p) ==
    /\ frames \in Seq(Frame) /\ frames # <<>> /\ CallsOK(frames)
    /\ Front(frames) \in Seq(Frame) /\ Front(frames) # <<>> /\ CallsOK(Front(frames))
    /\ Last(frames).parts \in Seq(Part) /\ Last(frames).parts # <<>>
    /\ p = Last(frames).parts[1] /\ p = Head(Last(frames).parts) /\ p \in Part
    /\ p.kind \in {"rqt", "resp"} /\ p.ctx \in Ctxts
    /\ Sends(Front(frames), frames, p)
    /\ \/ p.kind = "resp" /\ IsStatusPart(p)
       \/ /\ p.kind = "rqt" /\ IsRequestPart(p) /\ p.of \in Rqts /\ p.ctx = RqtContext[p.of]
          /\ SendsRequest(Last(frames).parts) /\ Idle(Last(Front(frames)))
          /\ Last(Front(frames)).op = "next"
          /\ Last(Front(frames)) = Front(frames)[Len(Front(frames))]
LEMMA SenderIs ==
    ASSUME LlHyp, LlInv, Runs("one")
    PROVE  Sender(Head(Top.parts))
<1> DEFINE parts == Last(frames).parts
<1>1. frames \in Seq(Frame) /\ frames # <<>> /\ CallsOK(frames) /\ Last(frames).op = "one" /\ Top = Last(frames)
  BY InvParts, Fields DEF Runs, Top
<1>2. /\ Front(frames) \in Seq(Frame) /\ Front(frames) # <<>> /\ CallsOK(Front(frames))
      /\ parts \in Seq(Part)
      /\ \/ SendsStatus(parts)
         \/ (SendsRequest(parts) /\ Last(Front(frames)).op = "next")
      /\ Last(Front(frames)) = Front(frames)[Len(Front(frames))]
      /\ Sends(Front(frames), frames, parts[1])
  BY <1>1, SendingTop
<1> HIDE DEF parts
<1>3. parts # <<>>
  BY <1>2 DEF SendsStatus, SendsRequest
<1>4. Head(parts) = parts[1] /\ parts[1] \in Part
  BY <1>2, <1>3, TailIs
<1>5. parts[1].kind \in {"rqt", "resp"} /\ parts[1].ctx \in Ctxts
  BY <1>4 DEF Part
<1>6. \/ parts[1].kind = "resp" /\ IsStatusPart(parts[1])
      \/ /\ parts[1].kind = "rqt" /\ IsRequestPart(parts[1]) /\ parts[1].of \in Rqts
         /\ parts[1].ctx = RqtContext[parts[1].of]
         /\ SendsRequest(parts) /\ Idle(Last(Front(frames)))
         /\ Last(Front(frames)).op = "next"
  <2>1. CASE SendsStatus(parts)
    BY <2>1 DEF SendsStatus, IsStatusPart
  <2>2. CASE SendsRequest(parts) /\ Last(Front(frames)).op = "next"
    <3>1. IsRequestPart(parts[1])
      BY <2>2 DEF SendsRequest
    <3>2. parts[1].kind = "rqt" /\ parts[1].of \in Rqts /\ parts[1].ctx = RqtContext[parts[1].of]
      BY <3>1, PartsAre
    <3>3. Idle(Last(Front(frames)))
      BY <2>2 DEF Idle, Works
    <3> QED
      BY <2>2, <3>1, <3>2, <3>3
  <2> QED
    BY <1>2, <2>1, <2>2
<1> QED
  BY <1>1, <1>2, <1>3, <1>4, <1>5, <1>6, Zenon DEF Sender, parts

LEMMA WriteMailboxStep ==
    ASSUME LlHyp, LlInv, WriteMailbox
    PROVE  LlInv'
<1>1. PICK p : p = Head(Top.parts)
  OBVIOUS
<1> DEFINE b == Front(frames)
           t == Tail(Last(frames).parts)
<1>2. Sender(p)
  BY <1>1, SenderIs DEF WriteMailbox
<1>3. /\ box.mcu = NoPart /\ box' = [box EXCEPT !.mcu = p]
      /\ frames' = IF ~p.last THEN Append(b, SendOne(t))
                   ELSE IF p.kind = "rqt" THEN Front(b) ELSE b
      /\ UNCHANGED <<ll, firmware, results, events, late>>
  BY <1>1 DEF WriteMailbox, Top
<1>4. box' \in Boxes /\ box'.mcu = p /\ box'.p0 = box.p0
  <2>1. box \in Boxes /\ p \in Part
    BY <1>2, InvParts DEF Typed, Sender
  <2> QED
    BY <1>3, <2>1 DEF Boxes
<1>5. p # NoPart
  BY <1>2 DEF Sender, LlHyp
<1>6. \A kind \in {"rqt", "resp"}, d \in Ctxts :
          /\ Places(frames, box.mcu, kind, d) =
                 OnesIn(b, kind, d) \cup
                 IF p.kind = kind /\ p.ctx = d THEN {<<Len(b) + 1, p.of>>} ELSE {}
          /\ \A x \in OnesIn(b, kind, d) : x[1] # Len(b) + 1 /\ x[1] # 0
  <2>1. Sends(b, frames, p)
    BY <1>2 DEF Sender
  <2>2. \A kind, d : InMail(NoPart, kind, d) = {}
    BY DEF InMail
  <2>3. \A kind \in {"rqt", "resp"}, d \in Ctxts :
            /\ OnesIn(frames, kind, d) =
                   OnesIn(b, kind, d) \cup
                   IF p.kind = kind /\ p.ctx = d THEN {<<Len(b) + 1, p.of>>} ELSE {}
            /\ \A x \in OnesIn(b, kind, d) : x[1] # Len(b) + 1 /\ x[1] # 0
    BY <2>1 DEF Sends
  <2> QED
    BY <1>3, <2>2, <2>3 DEF Places
\* What the stack is then.
<1>7. /\ frames' \in Seq(Frame) /\ CallsOK(frames')
      /\ \A d \in Ctxts : d \in Processing(frames') <=> d \in Processing(frames)
      /\ \A kind \in {"rqt", "resp"}, d \in Ctxts :
             \/ Places(frames', box'.mcu, kind, d) = Places(frames, box.mcu, kind, d)
             \/ /\ p.kind = kind /\ p.ctx = d
                /\ Places(frames', box'.mcu, kind, d) = OnesIn(b, kind, d) \cup {<<0, p.of>>}
  <2>1. /\ b \in Seq(Frame) /\ b # <<>> /\ CallsOK(b)
        /\ \A d \in Ctxts : d \in Processing(frames) <=> d \in Processing(b)
    BY <1>2 DEF Sender, Sends
  <2>2. CASE ~p.last
    <3>1. /\ p.kind = "rqt" /\ SendsRequest(Last(frames).parts) /\ Last(frames).parts \in Seq(Part)
          /\ p = Last(frames).parts[1] /\ Last(b).op = "next" /\ Last(b) = b[Len(b)]
      BY <1>2, <2>2 DEF Sender, IsStatusPart
    <3>2. t \in Seq(Part) /\ SendsRequest(t) /\ t[1].kind = p.kind /\ t[1].ctx = p.ctx /\ t[1].of = p.of
      BY <2>2, <3>1, RequestGoesOn
    <3> HIDE DEF t, b
    <3>3. Sends(b, Append(b, SendOne(t)), t[1])
      BY <2>1, <3>1, <3>2, SendingCall
    <3>4. Sends(b, frames', t[1])
      BY <1>3, <2>2, <3>3
    <3>5. \A kind, d : InMail(p, kind, d) = {}
      BY <2>2 DEF InMail
    <3>6. \A kind \in {"rqt", "resp"}, d \in Ctxts :
              Places(frames', box'.mcu, kind, d) = Places(frames, box.mcu, kind, d)
      <4>1. \A kind \in {"rqt", "resp"}, d \in Ctxts :
                OnesIn(frames', kind, d) =
                    OnesIn(b, kind, d) \cup
                    IF p.kind = kind /\ p.ctx = d THEN {<<Len(b) + 1, p.of>>} ELSE {}
        BY <3>2, <3>4 DEF Sends
      <4>2. \A kind \in {"rqt", "resp"}, d \in Ctxts : Places(frames', p, kind, d) = OnesIn(frames', kind, d)
        BY <3>5 DEF Places
      <4>3. \A kind \in {"rqt", "resp"}, d \in Ctxts :
                Places(frames', box'.mcu, kind, d) = Places(frames', p, kind, d)
        BY <1>4, Zenon
      <4> SUFFICES ASSUME NEW kind \in {"rqt", "resp"}, NEW d \in Ctxts
                   PROVE  Places(frames', box'.mcu, kind, d) = Places(frames, box.mcu, kind, d)
        OBVIOUS
      <4> DEFINE u == OnesIn(b, kind, d) \cup
                          IF p.kind = kind /\ p.ctx = d THEN {<<Len(b) + 1, p.of>>} ELSE {}
      <4>4. Places(frames, box.mcu, kind, d) = u
        BY <1>6
      <4>5. OnesIn(frames', kind, d) = u
        BY <4>1
      <4> HIDE DEF u
      <4> QED
        BY <4>2, <4>3, <4>4, <4>5, Zenon
    <3> QED
      BY <2>1, <3>4, <3>6 DEF Sends
  <2>3. CASE p.last
    <3>1. Same(b, frames')
      <4>1. CASE p.kind = "rqt"
        <5>1. frames' = Front(b) /\ Idle(Last(b))
          BY <1>2, <1>3, <2>3, <4>1 DEF Sender
        <5> HIDE DEF b
        <5> QED
          BY <2>1, <5>1, IdleReturn
      <4>2. CASE p.kind # "rqt"
        <5>1. frames' = b
          BY <1>3, <2>3, <4>2
        <5> QED
          BY <2>1, <5>1 DEF Same
      <4> QED
        BY <4>1, <4>2
    <3> HIDE DEF b
    <3>2. \A kind \in {"rqt", "resp"}, d \in Ctxts :
              /\ OnesIn(frames', kind, d) = OnesIn(b, kind, d)
              /\ InMail(box'.mcu, kind, d) = IF p.kind = kind /\ p.ctx = d THEN {<<0, p.of>>} ELSE {}
      BY <1>4, <1>5, <2>3, <3>1 DEF Same, InMail
    <3>3. ASSUME NEW kind \in {"rqt", "resp"}, NEW d \in Ctxts
          PROVE  \/ Places(frames', box'.mcu, kind, d) = Places(frames, box.mcu, kind, d)
                 \/ /\ p.kind = kind /\ p.ctx = d
                    /\ Places(frames', box'.mcu, kind, d) = OnesIn(b, kind, d) \cup {<<0, p.of>>}
      <4>1. CASE p.kind = kind /\ p.ctx = d
        BY <3>2, <4>1 DEF Places
      <4>2. CASE ~(p.kind = kind /\ p.ctx = d)
        <5>1. Places(frames', box'.mcu, kind, d) = OnesIn(b, kind, d)
          BY <3>2, <4>2 DEF Places
        <5>2. Places(frames, box.mcu, kind, d) = OnesIn(b, kind, d)
          BY <1>6, <4>2
        <5> QED
          BY <5>1, <5>2
      <4> QED
        BY <4>1, <4>2
    <3>4. /\ frames' \in Seq(Frame) /\ CallsOK(frames')
          /\ \A d \in Ctxts : d \in Processing(frames') <=> d \in Processing(frames)
      BY <2>1, <3>1 DEF Same
    <3> QED
      BY <3>3, <3>4
  <2> QED
    BY <2>2, <2>3
<1>8. ASSUME NEW kind \in {"rqt", "resp"}, NEW d \in Ctxts,
             \A x, y \in Places(frames, box.mcu, kind, d) : x = y
      PROVE  Moved(Places(frames, box.mcu, kind, d), Places(frames', box'.mcu, kind, d))
  <2> DEFINE P == Places(frames, box.mcu, kind, d)
             Q == Places(frames', box'.mcu, kind, d)
             O == OnesIn(b, kind, d)
             x0 == <<Len(b) + 1, p.of>>
             y0 == <<0, p.of>>
  <2>1. CASE Q = P
    BY <1>8, <2>1 DEF Moved
  <2>2. CASE p.kind = kind /\ p.ctx = d /\ Q = O \cup {y0}
    <3>1. P = O \cup {x0} /\ \A x \in O : x[1] # Len(b) + 1
      BY <1>6, <2>2
    <3>2. x0[1] = Len(b) + 1 /\ x0[2] = p.of /\ y0[2] = p.of
      OBVIOUS
    <3> HIDE DEF P, Q, O, x0, y0
    <3>3. O = {}
      BY <1>8, <3>1, <3>2 DEF P
    <3>4. P = {x0} /\ Q = {y0}
      BY <2>2, <3>1, <3>3
    <3> QED
      BY <3>2, <3>4 DEF Moved, P, Q
  <2> QED
    BY <1>7, <2>1, <2>2
<1> HIDE DEF b, t
<1>9. Typed'
  BY <1>3, <1>4, <1>7, InvParts DEF Typed
<1>10. \A d \in Ctxts : StreamOf(d)' = StreamOf(d) /\ Index(d)' = Index(d)
  <2> SUFFICES ASSUME NEW d \in Ctxts
               PROVE  StreamOf(d)' = StreamOf(d) /\ Index(d)' = Index(d)
    OBVIOUS
  <2> QED
    BY <1>3, <1>4, <1>7, StreamKept
<1>11. DataOK'
  <2>1. IsRequestPart(p) \/ IsStatusPart(p)
    BY <1>2 DEF Sender
  <2>2. /\ \A i \in 1..Len(firmware.says) : firmware.says[i].ctx = firmware.says[1].ctx
        /\ \A c \in Ctxts : Index(c) <= Len(ll.data_queue[c])
    BY InvParts DEF DataOK
  <2>3. \A c \in Ctxts : Index(c)' <= Len(ll'.data_queue[c])
    BY <1>3, <1>10, <2>2
  <2>4. \A i \in 1..Len(firmware'.says) : firmware'.says[i].ctx = firmware'.says[1].ctx
    BY <1>3, <2>2
  <2> QED
    BY <1>4, <2>1, <2>3, <2>4 DEF DataOK
<1>12. ASSUME NEW d \in Ctxts
       PROVE  EventsAreOK(d)'
  <2> DEFINE P == Places(frames, box.mcu, "resp", d)
             Q == Places(frames', box'.mcu, "resp", d)
             s == StreamOf(d)
  <2>1. EventsOK(d, s, ll.req[d], events[d], firmware.asked[d], firmware.waits[d], P)
    BY InvParts DEF EventsAreOK
  <2>2. \A x, y \in P : x = y
    BY <2>1, Zenon DEF EventsOK
  <2>3. Moved(P, Q)
    BY <1>8, <2>2
  <2> HIDE DEF P, Q, s
  <2>4. EventsOK(d, s, ll.req[d], events[d], firmware.asked[d], firmware.waits[d], Q)
    BY <2>1, <2>3, EventsMoved
  <2>5. StreamOf(d)' = s /\ UNCHANGED <<ll, events, firmware>>
    BY <1>3, <1>10 DEF s
  <2> QED
    BY <2>4, <2>5 DEF EventsAreOK, Q
<1>13. ASSUME late.reply = 0
       PROVE  (\A d \in Ctxts : QueueIsOK(d)') /\ ResultsOK'
  <2>1. ASSUME NEW d \in Ctxts
        PROVE  QueueIsOK(d)'
    <3> DEFINE P == Places(frames, box.mcu, "rqt", d)
               Q == Places(frames', box'.mcu, "rqt", d)
               s == StreamOf(d)
               o == OpenIn(firmware.open, d)
    <3>1. ll.has_last[d] /\ NodesOK(d, ll.queue[d], results) /\ QueueOK(s, ll.queue[d], o, P)
      BY <1>13, InvParts DEF QueueIsOK
    <3>2. \A x, y \in P : x = y
      BY <3>1, Zenon DEF QueueOK
    <3>3. Moved(P, Q)
      BY <1>8, <3>2
    <3> HIDE DEF P, Q, s, o
    <3>4. QueueOK(s, ll.queue[d], o, Q)
      BY <3>1, <3>3, QueueMoved
    <3>5. StreamOf(d)' = s /\ OpenIn(firmware'.open, d) = o /\ UNCHANGED <<ll, results>>
      BY <1>3, <1>10 DEF s, o
    <3> QED
      BY <3>1, <3>4, <3>5 DEF QueueIsOK, Q
  <2>2. ResultsOK'
    BY <1>3, <1>13, InvParts, ResultsKept
  <2> QED
    BY <2>1, <2>2
<1>14. late' = late
  BY <1>3
<1> QED
  BY <1>7, <1>9, <1>11, <1>12, <1>13, <1>14 DEF LlInv
-----------------------------------------------------------------------------
(* Timeouts *)

\* Calls return, and of what the firmware says nothing changes.
LEMMA StackStep ==
    ASSUME LlHyp, LlInv,
           \A c \in Ctxts :
               /\ c \in Processing(frames') <=> c \in Processing(frames)
               /\ Places(frames', box.mcu, "resp", c) \subseteq Places(frames, box.mcu, "resp", c)
               /\ ll'.data_queue[c] = ll.data_queue[c] /\ ll'.rqt_index[c] = ll.rqt_index[c]
               /\ ll'.req[c] = ll.req[c],
           box' = box, firmware' = firmware, events' = events
    PROVE  /\ DataOK'
           /\ \A c \in Ctxts : EventsAreOK(c)' /\ StreamOf(c)' = StreamOf(c)
<1>1. \A c \in Ctxts : StreamOf(c)' = StreamOf(c) /\ Index(c)' = Index(c)
  <2> SUFFICES ASSUME NEW c \in Ctxts
               PROVE  StreamOf(c)' = StreamOf(c) /\ Index(c)' = Index(c)
    OBVIOUS
  <2> QED
    BY StreamKept
<1>2. DataOK'
  BY <1>1, InvParts, DataKept
<1>3. ASSUME NEW c \in Ctxts
      PROVE  EventsAreOK(c)'
  <2>1. Places(frames', box'.mcu, "resp", c) \subseteq Places(frames, box.mcu, "resp", c)
    <3>1. box'.mcu = box.mcu
      OBVIOUS
    <3>2. Places(frames', box.mcu, "resp", c) \subseteq Places(frames, box.mcu, "resp", c)
      OBVIOUS
    <3> QED
      BY <3>1, <3>2, Zenon
  <2>2. EventsKept(c)
    BY <1>1, <2>1 DEF EventsKept
  <2> QED
    BY <2>2, InvParts, EventsAreKept
<1> QED
  BY <1>1, <1>2, <1>3

\* The rest of a queue.
LEMMA RestOf ==
    ASSUME NEW S, NEW q \in Seq(S)
    PROVE  SubSeq(q, 2, Len(q)) \in Seq(S) /\ (q # <<>> => SubSeq(q, 2, Len(q)) = Tail(q))
<1>1. CASE q = <<>>
  <2>1. SubSeq(q, 2, Len(q)) = <<>>
    BY <1>1
  <2> QED
    BY <1>1, <2>1
<1>2. CASE q # <<>>
  <2>1. Tail(q) \in Seq(S) /\ Len(q) \in Nat \ {0} /\ Shifted(q, Tail(q))
    BY <1>2, TailIs
  <2> DEFINE u == SubSeq(q, 2, Len(q))
             k == Len(q)
  <2>2. \A i \in 2..k : q[i] \in S
    <3>1. \A i \in 1..Len(q) : q[i] \in S
      OBVIOUS
    <3> QED
      BY <2>1, <3>1
  <2>3. /\ u \in Seq(S) /\ Len(u) = IF 2 <= k THEN k - 2 + 1 ELSE 0
        /\ \A i \in 1..(k - 2 + 1) : u[i] = q[2 + i - 1]
    BY <2>1, <2>2, SubSeqProperties
  <2> HIDE DEF u, k
  <2>4. k \in Nat \ {0}
    BY <2>1 DEF k
  <2>5. Len(u) = k - 1 /\ \A i \in 1..(k - 1) : u[i] = q[i + 1]
    <3>1. Len(u) = k - 1 /\ k - 2 + 1 = k - 1
      BY <2>3, <2>4
    <3>2. \A i \in 1..(k - 1) : 2 + i - 1 = i + 1
      BY <2>4
    <3> QED
      BY <2>3, <3>1, <3>2
  <2>6. Len(Tail(q)) = k - 1 /\ \A i \in 1..(k - 1) : Tail(q)[i] = q[i + 1]
    BY <2>1 DEF Shifted, k
  <2>7. u = Tail(q)
    <3>1. Len(u) = Len(Tail(q)) /\ \A i \in 1..Len(u) : u[i] = Tail(q)[i]
      BY <2>5, <2>6
    <3> QED
      BY <2>1, <2>3, <3>1, SeqEqual
  <2> QED
    BY <2>3, <2>7 DEF u, k
<1> QED
  BY <1>1, <1>2

LEMMA LLSendTimeoutStep ==
    ASSUME LlHyp, LlInv, LLSendTimeout
    PROVE  LlInv'
<1>1. PICK p : p = Head(Top.parts)
  OBVIOUS
<1> DEFINE b == Front(frames)
           c == p.ctx
           q == ll.queue[c]
<1>2. Sender(p)
  BY <1>1, SenderIs DEF LLSendTimeout
<1>3. /\ box.mcu # NoPart /\ late' = [late EXCEPT !.send = @ + 1]
      /\ \/ p.kind = "resp" /\ frames' = b /\ ll' = ll /\ results' = results
         \/ /\ p.kind = "rqt" /\ results' = [results EXCEPT ![p.of].ret = "TIMEOUT"]
            /\ ll' = [ll EXCEPT !.queue[c] = SubSeq(q, 2, Len(q))]
            /\ frames' = IF q = <<>> THEN Append(b, Crashed) ELSE b
      /\ box' = box /\ firmware' = firmware /\ events' = events
  BY <1>1, <1>2 DEF LLSendTimeout, Top, Pops, TopBecomes, Sender
<1>4. /\ b \in Seq(Frame) /\ b # <<>> /\ CallsOK(b) /\ c \in Ctxts /\ p \in Part
      /\ Sends(b, frames, p)
  BY <1>2 DEF Sender
<1>5. Same(b, frames')
  <2>1. Same(b, b)
    BY <1>4 DEF Same
  <2>2. Same(b, Append(b, Crashed))
    <3>1. Crashed \in Frame /\ Crashed.op = "crashed"
      BY FramesMade
    <3>2. Idle(Crashed)
      BY <3>1 DEF Idle, Works
    <3> HIDE DEF b
    <3> QED
      BY <1>4, <3>1, <3>2, IdleCall DEF Handles
  <2>3. frames' = b \/ frames' = Append(b, Crashed)
    BY <1>3
  <2> QED
    BY <2>1, <2>2, <2>3
<1>6. \A kind \in {"rqt", "resp"}, d \in Ctxts :
          /\ Places(frames, box.mcu, kind, d) =
                 Places(frames', box.mcu, kind, d) \cup
                 IF p.kind = kind /\ p.ctx = d THEN {<<Len(b) + 1, p.of>>} ELSE {}
          /\ \A x \in Places(frames', box.mcu, kind, d) : x[1] # Len(b) + 1
  <2> SUFFICES ASSUME NEW kind \in {"rqt", "resp"}, NEW d \in Ctxts
               PROVE  /\ Places(frames, box.mcu, kind, d) =
                             Places(frames', box.mcu, kind, d) \cup
                             IF p.kind = kind /\ p.ctx = d THEN {<<Len(b) + 1, p.of>>} ELSE {}
                      /\ \A x \in Places(frames', box.mcu, kind, d) : x[1] # Len(b) + 1
    OBVIOUS
  <2>1. OnesIn(frames', kind, d) = OnesIn(b, kind, d)
    BY <1>5 DEF Same
  <2>2. /\ OnesIn(frames, kind, d) =
               OnesIn(b, kind, d) \cup
               IF p.kind = kind /\ p.ctx = d THEN {<<Len(b) + 1, p.of>>} ELSE {}
        /\ \A x \in OnesIn(b, kind, d) : x[1] # Len(b) + 1 /\ x[1] # 0
    BY <1>4 DEF Sends
  <2>3. \A x \in InMail(box.mcu, kind, d) : x[1] = 0
    BY DEF InMail
  <2>4. Len(b) + 1 # 0
    <3>1. Len(b) \in Nat
      BY <1>4
    <3> HIDE DEF b
    <3> QED
      BY <3>1
  <2> HIDE DEF b
  <2>5. Places(frames, box.mcu, kind, d) =
            Places(frames', box.mcu, kind, d) \cup
            IF p.kind = kind /\ p.ctx = d THEN {<<Len(b) + 1, p.of>>} ELSE {}
    BY <2>1, <2>2 DEF Places
  <2>6. ASSUME NEW x \in Places(frames', box.mcu, kind, d)
        PROVE  x[1] # Len(b) + 1
    <3>1. x \in OnesIn(b, kind, d) \/ x \in InMail(box.mcu, kind, d)
      BY <2>1, <2>6 DEF Places
    <3> QED
      BY <2>2, <2>3, <2>4, <3>1
  <2> QED
    BY <2>5, <2>6
<1>7. /\ ll \in Lls /\ ll.queue \in [Ctxts -> Seq(Node)] /\ q \in Seq(Node)
      /\ results \in [Rqts -> Outcomes] /\ late \in [send : Nat, reply : Nat]
  BY <1>4, InvParts, Fields DEF Typed, Lls
<1>8. SubSeq(q, 2, Len(q)) \in Seq(Node) /\ (q # <<>> => SubSeq(q, 2, Len(q)) = Tail(q))
  BY <1>7, RestOf
<1>9. /\ ll' \in Lls /\ ll'.has_last = ll.has_last
      /\ ll'.data_queue = ll.data_queue /\ ll'.rqt_index = ll.rqt_index /\ ll'.req = ll.req
      /\ p.kind = "resp" => ll'.queue = ll.queue
      /\ p.kind = "rqt" => ll'.queue[c] = SubSeq(q, 2, Len(q)) /\ \A d \in Ctxts : d # c => ll'.queue[d] = ll.queue[d]
  <2>1. CASE ll' = ll /\ p.kind = "resp"
    BY <1>7, <2>1
  <2>2. CASE ll' = [ll EXCEPT !.queue[c] = SubSeq(q, 2, Len(q))] /\ p.kind = "rqt"
    <3> DEFINE q2 == SubSeq(q, 2, Len(q))
    <3>1. ll' = [ll EXCEPT !.queue[c] = q2] /\ q2 \in Seq(Node)
      BY <1>8, <2>2
    <3> HIDE DEF q2
    <3>2. /\ ll'.queue = [ll.queue EXCEPT ![c] = q2] /\ ll'.has_last = ll.has_last
          /\ ll'.data_queue = ll.data_queue /\ ll'.rqt_index = ll.rqt_index /\ ll'.req = ll.req
      BY <1>7, <3>1 DEF Lls
    <3>3. ll' \in Lls
      BY <1>4, <1>7, <3>1 DEF Lls
    <3>4. ll'.queue[c] = q2 /\ \A d \in Ctxts : d # c => ll'.queue[d] = ll.queue[d]
      BY <1>4, <1>7, <3>2
    <3> QED
      BY <2>2, <3>2, <3>3, <3>4 DEF q2
  <2> QED
    BY <1>3, <2>1, <2>2
<1>10. /\ results' \in [Rqts -> Outcomes] /\ late' \in [send : Nat, reply : Nat] /\ late'.reply = late.reply
       /\ p.kind = "resp" => results' = results
       /\ p.kind = "rqt" => /\ p.of \in Rqts /\ results'[p.of].ret = "TIMEOUT" /\ RqtContext[p.of] = c
                            /\ \A r \in Rqts : r # p.of => results'[r] = results[r]
  <2>1. late' \in [send : Nat, reply : Nat] /\ late'.reply = late.reply
    BY <1>3, <1>7
  <2>2. CASE p.kind = "resp"
    BY <1>3, <1>7, <2>1, <2>2
  <2>3. CASE p.kind = "rqt"
    <3>1. p.of \in Rqts /\ RqtContext[p.of] = c /\ results' = [results EXCEPT ![p.of].ret = "TIMEOUT"]
      BY <1>2, <1>3, <2>3 DEF Sender
    <3> DEFINE o == [results[p.of] EXCEPT !.ret = "TIMEOUT"]
    <3>2. results[p.of] \in Outcomes
      BY <1>7, <3>1
    <3>3. o \in Outcomes /\ o.ret = "TIMEOUT"
      BY <3>2 DEF Outcomes, Results
    <3>4. results' = [results EXCEPT ![p.of] = o]
      BY <3>1
    <3> HIDE DEF o
    <3>5. /\ results' \in [Rqts -> Outcomes] /\ results'[p.of].ret = "TIMEOUT"
          /\ \A r \in Rqts : r # p.of => results'[r] = results[r]
      BY <1>7, <3>1, <3>3, <3>4
    <3> QED
      BY <2>1, <2>3, <3>1, <3>5
  <2> QED
    BY <1>3, <2>2, <2>3
<1>11. Typed'
  BY <1>3, <1>5, <1>9, <1>10, InvParts DEF Typed, Same
<1>12. \A d \in Ctxts : d \in Processing(frames') <=> d \in Processing(frames)
  BY <1>4, <1>5 DEF Same, Sends
<1>13. DataOK' /\ \A d \in Ctxts : EventsAreOK(d)' /\ StreamOf(d)' = StreamOf(d)
  <2>1. \A d \in Ctxts : Places(frames', box.mcu, "resp", d) \subseteq Places(frames, box.mcu, "resp", d)
    BY <1>6
  <2> QED
    BY <1>3, <1>9, <1>12, <2>1, StackStep
<1>14. ASSUME late.reply = 0
       PROVE  (\A d \in Ctxts : QueueIsOK(d)') /\ ResultsOK'
  <2>1. ASSUME NEW d \in Ctxts, ~(p.kind = "rqt" /\ d = c)
        PROVE  QueueIsOK(d)'
    <3>1. Places(frames', box'.mcu, "rqt", d) \subseteq Places(frames, box.mcu, "rqt", d)
      <4>1. box'.mcu = box.mcu
        BY <1>3
      <4>2. Places(frames', box.mcu, "rqt", d) \subseteq Places(frames, box.mcu, "rqt", d)
        BY <1>6
      <4> QED
        BY <4>1, <4>2, Zenon
    <3>2. ll'.queue[d] = ll.queue[d]
      BY <1>3, <1>9, <2>1
    <3>3. \A r \in Rqts : RqtContext[r] = d => results'[r].ret = results[r].ret
      BY <1>3, <1>10, <2>1
    <3>4. QueueKept(d)
      BY <1>3, <1>9, <1>13, <3>1, <3>2, <3>3 DEF QueueKept
    <3> QED
      BY <1>14, <3>4, InvParts, QueueIsKept
  <2>2. CASE p.kind = "resp"
    <3>1. ResultsOK'
      BY <1>9, <1>10, <1>14, <2>2, InvParts, ResultsKept
    <3> QED
      BY <2>1, <2>2, <3>1
  <2>3. CASE p.kind = "rqt"
    <3> DEFINE s == StreamOf(c)
               o == OpenIn(firmware.open, c)
               P == Places(frames, box.mcu, "rqt", c)
               Q == Places(frames', box.mcu, "rqt", c)
    <3>1. ll.has_last[c] /\ NodesOK(c, q, results) /\ QueueOK(s, q, o, P) /\ s \in Seq(Part)
      BY <1>4, <1>14, InvParts, StreamIn DEF QueueIsOK
    <3>2. P = Q \cup {<<Len(b) + 1, p.of>>} /\ \A x \in Q : x[1] # Len(b) + 1
      BY <1>4, <1>6, <2>3
    <3> HIDE DEF s, o, P, Q, q, b, c
    <3>3. /\ Waits(q, p.of) /\ o = {} /\ ~Has(s, "resp") /\ Once(s, "resp")
          /\ \A x, y \in P : x = y
      <4>1. <<Len(b) + 1, p.of>> \in P /\ <<Len(b) + 1, p.of>>[2] = p.of
        BY <3>2
      <4>2. Waits(q, p.of) /\ o = {} /\ Unheard(s, q)
        BY <3>1, <4>1 DEF QueueOK
      <4> QED
        BY <3>1, <4>2, Zenon DEF QueueOK, Unheard
    <3>4. Q = {}
      <4>1. \A x \in Q : x = <<Len(b) + 1, p.of>>
        BY <3>2, <3>3
      <4>2. <<Len(b) + 1, p.of>>[1] = Len(b) + 1
        OBVIOUS
      <4> QED
        BY <3>2, <4>1, <4>2
    <3>5. q # <<>> /\ q[1].rqt = p.of
      BY <3>3 DEF Waits
    <3>6. /\ Tail(q) \in Seq(Node) /\ NodesOK(c, Tail(q), results') /\ QueueOK(s, Tail(q), {}, {})
          /\ \A k \in 1..Len(q) : q[k].rqt # q[1].rqt => \E j \in 1..Len(Tail(q)) : Tail(q)[j] = q[k]
      <4>1. \A r \in Rqts : r # q[1].rqt => results'[r].ret = results[r].ret
        BY <1>10, <2>3, <3>5
      <4> QED
        BY <1>7, <3>1, <3>3, <3>5, <4>1, HeadGone
    <3>7. ll'.queue[c] = Tail(q) /\ \A d \in Ctxts : d # c => ll'.queue[d] = ll.queue[d]
      BY <1>8, <1>9, <2>3, <3>5, Zenon DEF q, c
    <3>8. QueueIsOK(c)'
      <4>1. Places(frames', box'.mcu, "rqt", c) = {}
        <5>1. box'.mcu = box.mcu
          BY <1>3
        <5> QED
          BY <3>4, <5>1, Zenon DEF Q
      <4>2. OpenIn(firmware'.open, c) = {} /\ StreamOf(c)' = s
        BY <1>3, <1>4, <1>13, <3>3 DEF o, s, c
      <4>3. QueueOK(StreamOf(c)', ll'.queue[c], OpenIn(firmware'.open, c), Places(frames', box'.mcu, "rqt", c))
        BY <3>6, <3>7, <4>1, <4>2, Zenon
      <4>4. ll'.has_last[c] /\ NodesOK(c, ll'.queue[c], results')
        BY <1>9, <3>1, <3>6, <3>7
      <4> QED
        BY <4>3, <4>4 DEF QueueIsOK
    <3>9. ResultsOK'
      <4>1. ASSUME NEW x \in Rqts, results'[x].ret = "sent"
            PROVE  IsInQueue(x)'
        <5>1. x # p.of /\ results[x].ret = "sent"
          BY <1>10, <2>3, <4>1
        <5>2. IsInQueue(x) /\ RqtContext[x] \in Ctxts
          BY <1>14, <5>1, InvParts DEF ResultsOK, LlHyp
        <5>3. CASE RqtContext[x] # c
          BY <3>7, <5>2, <5>3 DEF IsInQueue
        <5>4. CASE RqtContext[x] = c
          <6>1. PICK k \in DOMAIN q : q[k].rqt = x
            BY <5>2, <5>4 DEF IsInQueue, q
          <6>2. DOMAIN q = 1..Len(q) /\ DOMAIN Tail(q) = 1..Len(Tail(q))
            BY <1>7, <3>6
          <6>3. PICK j \in 1..Len(Tail(q)) : Tail(q)[j] = q[k]
            BY <3>5, <3>6, <5>1, <6>1, <6>2
          <6> QED
            BY <3>7, <5>4, <6>1, <6>2, <6>3 DEF IsInQueue
        <5> QED
          BY <5>3, <5>4
      <4>2. ResponseIsOwn'
        <5>1. \A r \in Rqts : results[r].ret = "SUCCESS" => results[r].resp = ResponseMessage(r)
          BY <1>14, InvParts DEF ResultsOK, ResponseIsOwn
        <5> QED
          BY <1>10, <2>3, <5>1 DEF ResponseIsOwn
      <4> QED
        BY <4>1, <4>2 DEF ResultsOK
    <3>10. \A d \in Ctxts : QueueIsOK(d)'
      <4>1. \A d \in Ctxts : d # c => QueueIsOK(d)'
        BY <2>1 DEF c
      <4> QED
        BY <3>8, <4>1
    <3> QED
      BY <3>9, <3>10
  <2> QED
    BY <1>3, <2>2, <2>3
<1>15. CallsOK(frames')
  BY <1>5 DEF Same
<1> QED
  BY <1>10, <1>11, <1>13, <1>14, <1>15 DEF LlInv
-----------------------------------------------------------------------------
(* The handler reads a mailbox *)

\* The handler is at index i of context c.
Handling(c, i) ==
    /\ frames \in Seq(Frame) /\ frames # <<>> /\ CallsOK(frames) /\ Last(frames).op = "handler"
    /\ c \in Ctxts /\ i \in Nat /\ Index(c) = i /\ \A d \in Ctxts : d # c => Index(d) = 0
    /\ ll.data_queue[c] \in Seq(Part) /\ i <= Len(ll.data_queue[c]) /\ Len(ll.data_queue[c]) \in Nat
    /\ \A d \in Ctxts : d \in Processing(frames) <=> Works(Last(frames), d)
LEMMA HandlingIs ==
    ASSUME LlHyp, LlInv, Runs("handler"), Top.at # "entry"
    PROVE  Handling(Top.ctx, Offset)
<1> DEFINE c == Last(frames).ctx
<1>1. /\ frames \in Seq(Frame) /\ frames # <<>> /\ CallsOK(frames) /\ Last(frames).op = "handler"
      /\ Top = Last(frames)
  BY InvParts, Fields DEF Runs, Top
<1>2. c \in Ctxts /\ Last(frames).at \in {"entry", "start", "more"}
  BY <1>1, TopIs, FrameIs DEF FrameFields
<1>3. \A d \in Ctxts : d \in Processing(frames) <=> Works(Last(frames), d)
  BY <1>1, <1>2, HandlerGoesOn
<1>4. Index(c) = Offset /\ \A d \in Ctxts : d # c => Index(d) = 0
  <2>1. Last(frames).at = "more" \/ Last(frames).at = "start"
    BY <1>1, <1>2
  <2> QED
    BY <1>1, <1>2, <1>3, <2>1 DEF Index, Works, Offset
<1>5. /\ Index(c) \in Nat /\ Index(c) <= Len(ll.data_queue[c])
      /\ ll.data_queue[c] \in Seq(Part) /\ Len(ll.data_queue[c]) \in Nat
  BY <1>2, InvParts, Fields DEF DataOK
<1> QED
  BY <1>1, <1>2, <1>3, <1>4, <1>5 DEF Handling

\* What the handler writes.
Rewrites(l, c, q2, d2, i2, r2) ==
    /\ l \in Lls /\ l.queue[c] = q2 /\ l.data_queue[c] = d2 /\ l.rqt_index[c] = i2 /\ l.req[c] = r2
    /\ \A d \in Ctxts : /\ l.has_last[d] = ll.has_last[d]
                        /\ d # c => /\ l.queue[d] = ll.queue[d] /\ l.data_queue[d] = ll.data_queue[d]
                                    /\ l.rqt_index[d] = ll.rqt_index[d] /\ l.req[d] = ll.req[d]
LEMMA RewritesAre ==
    ASSUME Typed, NEW c \in Ctxts, NEW j \in Nat, NEW q2 \in Seq(Node), NEW r2 \in Seq(Part),
           NEW d2, d2 = SubSeq(ll.data_queue[c], j + 1, Len(ll.data_queue[c])), d2 \in Seq(Part)
    PROVE  /\ Rewrites([ll EXCEPT !.rqt_index[c] = j], c, ll.queue[c], ll.data_queue[c], j, ll.req[c])
           /\ Rewrites([[ll EXCEPT !.rqt_index[c] = j] EXCEPT !.queue[c] = q2],
                       c, q2, ll.data_queue[c], j, ll.req[c])
           /\ Rewrites([MovedOut(c, j) EXCEPT !.queue[c] = q2], c, q2, d2, 0, ll.req[c])
           /\ Rewrites([ll EXCEPT !.rqt_index[c] = j, !.req[c] = r2],
                       c, ll.queue[c], ll.data_queue[c], j, r2)
           /\ Rewrites([MovedOut(c, j) EXCEPT !.req[c] = r2], c, ll.queue[c], d2, 0, r2)
           /\ MovedOut(c, j).queue = ll.queue
<1>1. /\ ll \in Lls /\ ll.queue \in [Ctxts -> Seq(Node)] /\ ll.has_last \in [Ctxts -> BOOLEAN]
      /\ ll.data_queue \in [Ctxts -> Seq(Part)] /\ ll.rqt_index \in [Ctxts -> Nat]
      /\ ll.req \in [Ctxts -> Seq(Part)]
  BY DEF Typed, Lls
<1> DEFINE m == [ll EXCEPT !.data_queue[c] = d2, !.rqt_index[c] = 0]
<1>2. MovedOut(c, j) = m
  BY DEF MovedOut, Restart
<1>3. Rewrites([ll EXCEPT !.rqt_index[c] = j], c, ll.queue[c], ll.data_queue[c], j, ll.req[c])
  <2> DEFINE l == [ll EXCEPT !.rqt_index[c] = j]
  <2>1. l \in Lls
    BY <1>1 DEF Lls
  <2>2. /\ l.queue = ll.queue /\ l.has_last = ll.has_last /\ l.data_queue = ll.data_queue
        /\ l.rqt_index = [ll.rqt_index EXCEPT ![c] = j] /\ l.req = ll.req
    BY <1>1 DEF Lls
  <2> HIDE DEF l
  <2> QED
    BY <1>1, <2>1, <2>2 DEF Rewrites, l
<1>4. Rewrites([[ll EXCEPT !.rqt_index[c] = j] EXCEPT !.queue[c] = q2],
               c, q2, ll.data_queue[c], j, ll.req[c])
  <2> DEFINE k == [ll EXCEPT !.rqt_index[c] = j]
             l == [k EXCEPT !.queue[c] = q2]
  <2>1. k \in Lls
    BY <1>1 DEF Lls
  <2>2. /\ k.queue = ll.queue /\ k.has_last = ll.has_last /\ k.data_queue = ll.data_queue
        /\ k.rqt_index = [ll.rqt_index EXCEPT ![c] = j] /\ k.req = ll.req
    BY <1>1 DEF Lls
  <2> HIDE DEF k
  <2>3. l \in Lls
    BY <1>1, <2>1 DEF Lls
  <2>4. /\ l.queue = [k.queue EXCEPT ![c] = q2] /\ l.has_last = k.has_last /\ l.data_queue = k.data_queue
        /\ l.rqt_index = k.rqt_index /\ l.req = k.req
    BY <2>1 DEF Lls
  <2> HIDE DEF l
  <2> QED
    BY <1>1, <2>2, <2>3, <2>4 DEF Rewrites, l, k
<1>5. /\ m \in Lls /\ m.queue = ll.queue /\ m.has_last = ll.has_last
      /\ m.data_queue = [ll.data_queue EXCEPT ![c] = d2]
      /\ m.rqt_index = [ll.rqt_index EXCEPT ![c] = 0] /\ m.req = ll.req
  BY <1>1 DEF Lls
<1> HIDE DEF m
<1>6. Rewrites([m EXCEPT !.queue[c] = q2], c, q2, d2, 0, ll.req[c])
  <2> DEFINE l == [m EXCEPT !.queue[c] = q2]
  <2>1. l \in Lls
    BY <1>1, <1>5 DEF Lls
  <2>2. /\ l.queue = [m.queue EXCEPT ![c] = q2] /\ l.has_last = m.has_last /\ l.data_queue = m.data_queue
        /\ l.rqt_index = m.rqt_index /\ l.req = m.req
    BY <1>5 DEF Lls
  <2> HIDE DEF l
  <2>3. Rewrites(l, c, q2, d2, 0, ll.req[c])
    <3>1. l.data_queue = [ll.data_queue EXCEPT ![c] = d2] /\ l.rqt_index = [ll.rqt_index EXCEPT ![c] = 0]
          /\ l.has_last = ll.has_last
      BY <1>5, <2>2
    <3>2. l.queue = [ll.queue EXCEPT ![c] = q2] /\ l.req = ll.req
      BY <1>5, <2>2
    <3>3. l.data_queue[c] = d2 /\ \A d \in Ctxts : d # c => l.data_queue[d] = ll.data_queue[d]
      BY <1>1, <3>1
    <3>4. l.rqt_index[c] = 0 /\ \A d \in Ctxts : d # c => l.rqt_index[d] = ll.rqt_index[d]
      BY <1>1, <3>1
    <3>5. /\ l.queue[c] = q2 /\ \A d \in Ctxts : d # c => l.queue[d] = ll.queue[d]
          /\ l.req[c] = ll.req[c] /\ \A d \in Ctxts : d # c => l.req[d] = ll.req[d]
      BY <1>1, <3>2
    <3> QED
      BY <2>1, <3>1, <3>3, <3>4, <3>5, Zenon DEF Rewrites
  <2> QED
    BY <2>3 DEF l
<1>7. Rewrites([ll EXCEPT !.rqt_index[c] = j, !.req[c] = r2], c, ll.queue[c], ll.data_queue[c], j, r2)
  <2> DEFINE l == [ll EXCEPT !.rqt_index[c] = j, !.req[c] = r2]
  <2>1. l \in Lls
    BY <1>1 DEF Lls
  <2>2. /\ l.queue = ll.queue /\ l.has_last = ll.has_last /\ l.data_queue = ll.data_queue
        /\ l.rqt_index = [ll.rqt_index EXCEPT ![c] = j] /\ l.req = [ll.req EXCEPT ![c] = r2]
    BY <1>1 DEF Lls
  <2> HIDE DEF l
  <2> QED
    BY <1>1, <2>1, <2>2 DEF Rewrites, l
<1>8. Rewrites([m EXCEPT !.req[c] = r2], c, ll.queue[c], d2, 0, r2)
  <2> DEFINE l == [m EXCEPT !.req[c] = r2]
  <2>1. l \in Lls
    BY <1>1, <1>5 DEF Lls
  <2>2. /\ l.queue = m.queue /\ l.has_last = m.has_last /\ l.data_queue = m.data_queue
        /\ l.rqt_index = m.rqt_index /\ l.req = [m.req EXCEPT ![c] = r2]
    BY <1>5 DEF Lls
  <2> HIDE DEF l
  <2>3. Rewrites(l, c, ll.queue[c], d2, 0, r2)
    <3>1. l.data_queue = [ll.data_queue EXCEPT ![c] = d2] /\ l.rqt_index = [ll.rqt_index EXCEPT ![c] = 0]
          /\ l.has_last = ll.has_last
      BY <1>5, <2>2
    <3>2. l.req = [ll.req EXCEPT ![c] = r2] /\ l.queue = ll.queue
      BY <1>5, <2>2
    <3>3. l.data_queue[c] = d2 /\ \A d \in Ctxts : d # c => l.data_queue[d] = ll.data_queue[d]
      BY <1>1, <3>1
    <3>4. l.rqt_index[c] = 0 /\ \A d \in Ctxts : d # c => l.rqt_index[d] = ll.rqt_index[d]
      BY <1>1, <3>1
    <3>5. /\ l.queue[c] = ll.queue[c] /\ \A d \in Ctxts : d # c => l.queue[d] = ll.queue[d]
          /\ l.req[c] = r2 /\ \A d \in Ctxts : d # c => l.req[d] = ll.req[d]
      BY <1>1, <3>2
    <3> QED
      BY <2>1, <3>1, <3>3, <3>4, <3>5, Zenon DEF Rewrites
  <2> QED
    BY <2>3 DEF l
<1> QED
  BY <1>2, <1>3, <1>4, <1>5, <1>6, <1>7, <1>8

\* The streams then: that of c without its first part.
Reads(c, i) ==
    /\ DataOK' /\ \A d \in Ctxts : d # c => StreamOf(d)' = StreamOf(d)
    /\ StreamOf(c) \in Seq(Part) /\ StreamOf(c) # <<>> /\ Len(StreamOf(c)) \in Nat \ {0}
    /\ StreamOf(c)' \in Seq(Part) /\ Shifted(StreamOf(c), StreamOf(c)')
    /\ StreamOf(c)[1] = ll.data_queue[c][i + 1]
LEMMA ReadStreams ==
    ASSUME LlHyp, LlInv, NEW c, NEW i, Handling(c, i), i < Len(ll.data_queue[c]),
           NEW q2, NEW d2, NEW i2, NEW r2, Rewrites(ll', c, q2, d2, i2, r2),
           \/ d2 = ll.data_queue[c] /\ i2 = i + 1
           \/ d2 = SubSeq(ll.data_queue[c], (i + 1) + 1, Len(ll.data_queue[c])) /\ i2 = 0,
           \A d \in Ctxts : d \in Processing(frames') <=> d = c,
           box' = box, firmware' = firmware
    PROVE  Reads(c, i)
<1> DEFINE data == ll.data_queue[c]
           p0 == box.p0
           says == firmware.says
           s == Stream(data, i, p0, says, c)
           t == Stream(data, i + 1, p0, says, c)
<1>1. /\ c \in Ctxts /\ i \in Nat /\ data \in Seq(Part) /\ Len(data) \in Nat /\ i < Len(data)
      /\ Index(c) = i /\ p0 \in Part \cup {NoPart} /\ says \in Seq(Part)
      /\ \A d \in Ctxts : d # c => Index(d) = 0
  BY InvParts, Fields DEF Handling
<1>2. StreamOf(c) = s
  BY <1>1 DEF StreamOf
<1>3. /\ s \in Seq(Part) /\ t \in Seq(Part) /\ s # <<>> /\ Len(s) \in Nat \ {0} /\ Shifted(s, t)
      /\ s[1] = data[i + 1] /\ s[1] \in Part
      /\ SubSeq(data, (i + 1) + 1, Len(data)) \in Seq(Part)
      /\ Stream(SubSeq(data, (i + 1) + 1, Len(data)), 0, p0, says, c) = t
  <2>1. Taken(data, i, p0, says, c, s, t)
    <3> HIDE DEF data, p0, says
    <3> QED
      BY <1>1, DataRead
  <2> QED
    BY <2>1, Zenon DEF Taken
<1>4. ll'.data_queue[c] = d2 /\ Index(c)' = i2
  BY <1>1 DEF Rewrites, Index
<1>5. StreamOf(c)' = Stream(d2, i2, p0, says, c)
  <2>1. box'.p0 = p0 /\ firmware'.says = says
    OBVIOUS
  <2> HIDE DEF p0, says
  <2> QED
    BY <1>4, <2>1, Zenon DEF StreamOf
<1>6. StreamOf(c)' = t
  BY <1>3, <1>5
<1>7. ASSUME NEW d \in Ctxts, d # c
      PROVE  StreamOf(d)' = StreamOf(d) /\ Index(d)' = 0 /\ ll'.data_queue[d] = ll.data_queue[d]
  <2>1. Index(d)' = 0 /\ Index(d) = 0
    BY <1>1, <1>7 DEF Index
  <2>2. ll'.data_queue[d] = ll.data_queue[d] /\ box'.p0 = box.p0 /\ firmware'.says = firmware.says
    BY <1>7 DEF Rewrites
  <2> QED
    BY <2>1, <2>2, Zenon DEF StreamOf
<1>8. \A d \in Ctxts : Index(d)' <= Len(ll'.data_queue[d])
  <2>1. i2 <= Len(d2)
    <3>1. CASE d2 = data /\ i2 = i + 1
      BY <1>1, <3>1
    <3>2. CASE d2 = SubSeq(data, (i + 1) + 1, Len(data)) /\ i2 = 0
      <4>1. d2 \in Seq(Part)
        BY <1>3, <3>2
      <4>2. Len(d2) \in Nat
        BY <4>1
      <4>3. i2 = 0
        BY <3>2
      <4> HIDE <3>2
      <4> QED
        BY <4>2, <4>3
    <3> QED
      BY <3>1, <3>2
  <2>2. \A d \in Ctxts : d # c => Index(d)' <= Len(ll'.data_queue[d])
    <3>1. \A d \in Ctxts : Len(ll.data_queue[d]) \in Nat
      BY InvParts, Fields
    <3> QED
      BY <1>7, <3>1
  <2> QED
    BY <1>4, <2>1, <2>2
<1>9. DataOK'
  BY <1>8, InvParts DEF DataOK
<1> HIDE DEF s, t
<1> QED
  BY <1>2, <1>3, <1>6, <1>7, <1>9 DEF Reads

\* Who was in a queue and is not the head that is answered is in it.
LEMMA InQueueLeft ==
    ASSUME LlHyp, NEW c \in Ctxts, NEW q, q = ll.queue[c], q \in Seq(Node), ll'.queue[c] \in Seq(Node),
           \A d \in Ctxts : d # c => ll'.queue[d] = ll.queue[d],
           NEW x \in Rqts, IsInQueue(x),
           \A k \in 1..Len(q) : q[k].rqt = x => \E j \in 1..Len(ll'.queue[c]) : ll'.queue[c][j].rqt = x
    PROVE  IsInQueue(x)'
<1>1. RqtContext[x] \in Ctxts
  BY DEF LlHyp
<1>2. CASE RqtContext[x] # c
  BY <1>1, <1>2 DEF IsInQueue
<1>3. CASE RqtContext[x] = c
  <2>1. PICK k \in DOMAIN q : q[k].rqt = x
    BY <1>3 DEF IsInQueue
  <2>2. DOMAIN q = 1..Len(q) /\ DOMAIN ll'.queue[c] = 1..Len(ll'.queue[c])
    OBVIOUS
  <2> QED
    BY <1>3, <2>1, <2>2 DEF IsInQueue
<1> QED
  BY <1>2, <1>3
LEMMA DataLeft ==
    ASSUME LlHyp, LlInv, NEW c, NEW i, Handling(c, i), i < Len(ll.data_queue[c])
    PROVE  /\ ll.data_queue[c][i + 1] \in Part /\ i + 1 \in Nat
           /\ SubSeq(ll.data_queue[c], (i + 1) + 1, Len(ll.data_queue[c])) \in Seq(Part)
<1> DEFINE data == ll.data_queue[c]
<1>1. data \in Seq(Part) /\ i \in Nat /\ i < Len(data) /\ box.p0 \in Part \cup {NoPart} /\ firmware.says \in Seq(Part)
  BY InvParts, Fields DEF Handling
<1>2. Taken(data, i, box.p0, firmware.says, c,
            Stream(data, i, box.p0, firmware.says, c), Stream(data, i + 1, box.p0, firmware.says, c))
  <2> HIDE DEF data
  <2> QED
    BY <1>1, DataRead
<1> QED
  BY <1>1, <1>2 DEF Taken

\* The head of a queue stores a part, or is removed.
Storing(q, p) == [q EXCEPT ![1].resp = Append(q[1].resp, p)]
LEMMA StoringIs ==
    ASSUME NEW q \in Seq(Node), q # <<>>, NEW p \in Part
    PROVE  /\ Storing(q, p) \in Seq(Node) /\ Tail(q) \in Seq(Node) /\ Append(q[1].resp, p) \in Seq(Part)
           /\ Len(Storing(q, p)) = Len(q) /\ q[1].rqt \in Rqts /\ Head(q) = q[1]
           /\ \A k \in 1..Len(q) : Storing(q, p)[k].rqt = q[k].rqt
<1>1. /\ 1 \in 1..Len(q) /\ q[1] \in Node /\ q[1].resp \in Seq(Part) /\ Head(q) = q[1] /\ q[1].rqt \in Rqts
      /\ Tail(q) \in Seq(Node)
  <2>1. 1 \in 1..Len(q) /\ Head(q) = q[1]
    BY NodesAre
  <2>2. NodeFields(q[1]) /\ q[1] \in Node
    BY <2>1, NodesAre
  <2> QED
    BY <2>1, <2>2, TailIs DEF NodeFields
<1> DEFINE r == Append(q[1].resp, p)
           n == [q[1] EXCEPT !.resp = r]
<1>2. r \in Seq(Part)
  BY <1>1
<1> HIDE DEF r
<1>3. n \in Node /\ n.rqt = q[1].rqt
  BY <1>1, <1>2 DEF Node
<1>4. Storing(q, p) = [q EXCEPT ![1] = n]
  BY <1>1 DEF Storing, r
<1> HIDE DEF n
<1>5. Storing(q, p) \in Seq(Node) /\ Len(Storing(q, p)) = Len(q)
  BY <1>1, <1>3, <1>4, ExceptSeq
<1>6. \A k \in 1..Len(q) : Storing(q, p)[k].rqt = q[k].rqt
  BY <1>1, <1>3, <1>4
<1> QED
  BY <1>1, <1>2, <1>5, <1>6 DEF r

\* The three cases of a response.
AnswerIgnored(c, q, p) == (q = <<>> \/ q[1].state # "WAITING") /\ ll'.queue[c] = q /\ results' = results
AnswerStored(c, q, p) ==
    /\ q # <<>> /\ ~p.last /\ ll'.queue[c] = Storing(q, p) /\ results' = results
AnswerWhole(c, q, p) ==
    /\ q # <<>> /\ p.last /\ ll'.queue[c] = Tail(q)
    /\ results' = [results EXCEPT ![q[1].rqt] = [ret |-> "SUCCESS", resp |-> Append(q[1].resp, p)]]
AnswerRead(c, i, q, p) ==
    /\ \E q2, d2, i2 :
           /\ Rewrites(ll', c, q2, d2, i2, ll.req[c])
           /\ \/ d2 = ll.data_queue[c] /\ i2 = i + 1
              \/ d2 = SubSeq(ll.data_queue[c], (i + 1) + 1, Len(ll.data_queue[c])) /\ i2 = 0
    /\ AnswerIgnored(c, q, p) \/ AnswerStored(c, q, p) \/ AnswerWhole(c, q, p)
    /\ frames' \in Seq(Frame) /\ CallsOK(frames')
    /\ \A d \in Ctxts : d \in Processing(frames') <=> d = c
    /\ \A kind \in {"rqt", "resp"}, d \in Ctxts : OnesIn(frames', kind, d) = OnesIn(frames, kind, d)
LEMMA AnswerIsRead ==
    ASSUME LlHyp, LlInv, NEW c, NEW i, Handling(c, i), i < Len(ll.data_queue[c]),
           NEW p, p = ll.data_queue[c][i + 1], ProcessResponse(c, i + 1, p)
    PROVE  AnswerRead(c, i, ll.queue[c], p) /\ events' = events
<1> DEFINE q == ll.queue[c]
           j == i + 1
           data == ll.data_queue[c]
           d2 == SubSeq(data, j + 1, Len(data))
           h == Append(Front(frames), Handler("more", c))
<1>1. /\ c \in Ctxts /\ frames \in Seq(Frame) /\ frames # <<>> /\ CallsOK(frames)
      /\ Last(frames).op = "handler" /\ Typed /\ q \in Seq(Node) /\ ll.req[c] \in Seq(Part)
  BY InvParts, Fields DEF Handling
<1>2. j \in Nat /\ p \in Part /\ d2 \in Seq(Part)
  BY DataLeft
<1>3. /\ h \in Seq(Frame) /\ CallsOK(h) /\ \A d \in Ctxts : d \in Processing(h) <=> d = c
      /\ \A kind \in {"rqt", "resp"}, d \in Ctxts : OnesIn(h, kind, d) = OnesIn(frames, kind, d)
  BY <1>1, HandlerGoesOn
<1>4. Same(h, Append(h, SendNext(c)))
  <2>1. SendNext(c) \in Frame /\ SendNext(c).op = "next"
    BY <1>1, FramesMade
  <2>2. Idle(SendNext(c))
    BY <2>1 DEF Idle, Works
  <2> HIDE DEF h
  <2> QED
    BY <1>3, <2>1, <2>2, IdleCall DEF Handles
<1>5. /\ Front(frames) \in Seq(Frame) /\ Handler("more", c) \in Frame /\ SendNext(c) \in Frame
  BY <1>1, TopIs, FramesMade
<1>6. Front(frames) \o <<Handler("more", c), SendNext(c)>> = Append(h, SendNext(c))
  BY <1>5, TwoCalls
<1> DEFINE at == [ll EXCEPT !.rqt_index[c] = j]
<1>7. \/ /\ q = <<>> \/ Head(q).state # "WAITING"
         /\ ll' = at /\ frames' = h /\ results' = results
      \/ /\ q # <<>> /\ ~p.last /\ frames' = h /\ results' = results
         /\ ll' = [at EXCEPT !.queue[c][1].resp = Append(Head(q).resp, p)]
      \/ /\ q # <<>> /\ p.last /\ frames' = Append(h, SendNext(c))
         /\ ll' = [MovedOut(c, j) EXCEPT !.queue[c] = Tail(@)]
         /\ results' = [results EXCEPT ![Head(q).rqt] = [ret |-> "SUCCESS", resp |-> Append(Head(q).resp, p)]]
  <2> HIDE DEF h
  <2> QED
    BY <1>6 DEF ProcessResponse, TopBecomes, Calls, h
<1>8. events' = events
  BY DEF ProcessResponse
<1>9. \A q2 \in Seq(Node) :
          /\ Rewrites(at, c, q, data, j, ll.req[c])
          /\ Rewrites([at EXCEPT !.queue[c] = q2], c, q2, data, j, ll.req[c])
          /\ Rewrites([MovedOut(c, j) EXCEPT !.queue[c] = q2], c, q2, d2, 0, ll.req[c])
          /\ MovedOut(c, j).queue = ll.queue
  BY <1>1, <1>2, RewritesAre
<1>10. \A l, q2, e, k : Rewrites(l, c, q2, e, k, ll.req[c]) => l.queue[c] = q2
  BY DEF Rewrites
<1>11. q # <<>> => /\ Storing(q, p) \in Seq(Node) /\ Tail(q) \in Seq(Node) /\ Head(q) = q[1]
  BY <1>1, <1>2, StoringIs
<1>12. CASE /\ q = <<>> \/ Head(q).state # "WAITING"
            /\ ll' = at /\ frames' = h /\ results' = results
  <2>1. Rewrites(ll', c, q, data, j, ll.req[c])
    <3>1. Rewrites(at, c, q, data, j, ll.req[c])
      BY <1>1, <1>9
    <3> HIDE DEF at
    <3> QED
      BY <1>12, <3>1, Zenon
  <2>2. AnswerIgnored(c, q, p)
    <3>1. ll'.queue[c] = q
      BY <1>10, <2>1
    <3>2. q = <<>> \/ q[1].state # "WAITING"
      BY <1>11, <1>12
    <3> QED
      BY <1>12, <3>1, <3>2 DEF AnswerIgnored
  <2> HIDE DEF h, q
  <2> QED
    BY <1>3, <1>8, <1>12, <2>1, <2>2, Zenon DEF AnswerRead, q
<1>13. CASE /\ q # <<>> /\ ~p.last /\ frames' = h /\ results' = results
            /\ ll' = [at EXCEPT !.queue[c][1].resp = Append(Head(q).resp, p)]
  <2>1. Rewrites(ll', c, Storing(q, p), data, j, ll.req[c])
    <3>1. Rewrites([at EXCEPT !.queue[c] = Storing(q, p)], c, Storing(q, p), data, j, ll.req[c])
      BY <1>9, <1>11, <1>13
    <3>2. at.queue = ll.queue
      <4>1. ll \in Lls
        BY <1>1 DEF Typed
      <4> QED
        BY <4>1 DEF Lls
    <3>3. Head(q).resp = q[1].resp
      BY <1>11, <1>13
    <3> HIDE DEF at
    <3>4. ll' = [at EXCEPT !.queue[c] = Storing(q, p)]
      BY <1>13, <3>2, <3>3 DEF Storing
    <3> QED
      BY <3>1, <3>4, Zenon
  <2>2. AnswerStored(c, q, p)
    <3>1. ll'.queue[c] = Storing(q, p)
      BY <1>10, <2>1
    <3> QED
      BY <1>13, <3>1 DEF AnswerStored
  <2> HIDE DEF h, q
  <2> QED
    BY <1>3, <1>8, <1>13, <2>1, <2>2, Zenon DEF AnswerRead, q
<1>14. CASE /\ q # <<>> /\ p.last /\ frames' = Append(h, SendNext(c))
            /\ ll' = [MovedOut(c, j) EXCEPT !.queue[c] = Tail(@)]
            /\ results' = [results EXCEPT ![Head(q).rqt] = [ret |-> "SUCCESS", resp |-> Append(Head(q).resp, p)]]
  <2>1. Rewrites(ll', c, Tail(q), d2, 0, ll.req[c])
    <3>1. Rewrites([MovedOut(c, j) EXCEPT !.queue[c] = Tail(q)], c, Tail(q), d2, 0, ll.req[c])
      BY <1>9, <1>11, <1>14
    <3>2. MovedOut(c, j).queue = ll.queue
      BY <1>1, <1>9
    <3>3. ll' = [MovedOut(c, j) EXCEPT !.queue[c] = Tail(q)]
      BY <1>14, <3>2
    <3> QED
      BY <3>1, <3>3, Zenon
  <2>2. AnswerWhole(c, q, p)
    <3>1. ll'.queue[c] = Tail(q)
      BY <1>10, <2>1
    <3>2. Head(q) = q[1]
      BY <1>11, <1>14
    <3> QED
      BY <1>14, <3>1, <3>2 DEF AnswerWhole
  <2> HIDE DEF h, q
  <2>3. /\ frames' \in Seq(Frame) /\ CallsOK(frames')
        /\ \A d \in Ctxts : d \in Processing(frames') <=> d = c
        /\ \A kind \in {"rqt", "resp"}, d \in Ctxts : OnesIn(frames', kind, d) = OnesIn(frames, kind, d)
    BY <1>3, <1>4, <1>14 DEF Same
  <2> QED
    BY <1>8, <2>1, <2>2, <2>3, Zenon DEF AnswerRead, q
<1> QED
  BY <1>7, <1>12, <1>13, <1>14

LEMMA ProcessResponseStep ==
    ASSUME LlHyp, LlInv, NEW c, NEW i, Handling(c, i), i < Len(ll.data_queue[c]),
           NEW p, p = ll.data_queue[c][i + 1], p.kind = "resp", ProcessResponse(c, i + 1, p),
           box' = box, firmware' = firmware, late' = late
    PROVE  LlInv'
<1> DEFINE q == ll.queue[c]
           s == StreamOf(c)
           t == StreamOf(c)'
           a == firmware.asked[c]
<1>1. AnswerRead(c, i, q, p) /\ events' = events /\ c \in Ctxts /\ Typed
  BY AnswerIsRead, InvParts DEF Handling
<1>2. PICK q2, d2, i2 :
          /\ Rewrites(ll', c, q2, d2, i2, ll.req[c])
          /\ \/ d2 = ll.data_queue[c] /\ i2 = i + 1
             \/ d2 = SubSeq(ll.data_queue[c], (i + 1) + 1, Len(ll.data_queue[c])) /\ i2 = 0
  BY <1>1, Zenon DEF AnswerRead
<1>3. /\ AnswerIgnored(c, q, p) \/ AnswerStored(c, q, p) \/ AnswerWhole(c, q, p)
      /\ frames' \in Seq(Frame) /\ CallsOK(frames')
      /\ \A d \in Ctxts : d \in Processing(frames') <=> d = c
      /\ \A kind \in {"rqt", "resp"}, d \in Ctxts : OnesIn(frames', kind, d) = OnesIn(frames, kind, d)
  BY <1>1, Zenon DEF AnswerRead
<1>4. Reads(c, i)
  BY <1>2, <1>3, ReadStreams
<1>5. /\ s \in Seq(Part) /\ s # <<>> /\ Len(s) \in Nat \ {0} /\ t \in Seq(Part) /\ Shifted(s, t)
      /\ s[1] = p /\ DataOK' /\ \A d \in Ctxts : d # c => StreamOf(d)' = StreamOf(d)
  BY <1>4 DEF Reads
<1>6. \A kind \in {"rqt", "resp"}, d \in Ctxts :
          Places(frames', box'.mcu, kind, d) = Places(frames, box.mcu, kind, d)
  <2>1. box'.mcu = box.mcu
    OBVIOUS
  <2> QED
    BY <1>3, <2>1, Zenon DEF Places
<1>7. /\ ll' \in Lls /\ ll'.req[c] = ll.req[c] /\ \A d \in Ctxts : ll'.has_last[d] = ll.has_last[d]
      /\ \A d \in Ctxts : d # c => ll'.queue[d] = ll.queue[d] /\ ll'.req[d] = ll.req[d]
  BY <1>2 DEF Rewrites
<1>8. q \in Seq(Node) /\ p \in Part /\ a \in Nat
  BY <1>1, DataLeft, Fields
<1>9. results' \in [Rqts -> Outcomes]
  <2>1. results \in [Rqts -> Outcomes]
    BY <1>1 DEF Typed
  <2>2. ASSUME AnswerWhole(c, q, p)
        PROVE  results' \in [Rqts -> Outcomes]
    <3> DEFINE r == q[1].rqt
               o == [ret |-> "SUCCESS", resp |-> Append(q[1].resp, p)]
    <3>1. r \in Rqts /\ Append(q[1].resp, p) \in Seq(Part)
      BY <1>8, <2>2, StoringIs DEF AnswerWhole
    <3>2. o \in Outcomes
      BY <3>1 DEF Outcomes, Results
    <3>3. results' = [results EXCEPT ![r] = o]
      BY <2>2 DEF AnswerWhole
    <3> HIDE DEF o, r
    <3> QED
      BY <2>1, <3>2, <3>3
  <2> QED
    BY <1>3, <2>1, <2>2 DEF AnswerIgnored, AnswerStored
<1>10. Typed'
  BY <1>1, <1>3, <1>7, <1>9 DEF Typed
<1> HIDE DEF s, t, a, q
<1>11. EventsOK(c, s, ll.req[c], events[c], a, firmware.waits[c], Places(frames, box.mcu, "resp", c))
  BY <1>1, InvParts DEF EventsAreOK, s, a
<1>12. ASSUME NEW d \in Ctxts
       PROVE  EventsAreOK(d)'
  <2>1. CASE d = c
    <3> DEFINE P == Places(frames, box.mcu, "resp", c)
               req == ll.req[c]
               given == events[c]
               w == firmware.waits[c]
    <3> HIDE DEF P, req, given, w
    <3>1. EventsOK(c, s, req, given, a, w, P)
      BY <1>11 DEF P, req, given, w
    <3>2. EventsOK(c, t, req, given, a, w, P)
      BY <1>1, <1>5, <1>8, <3>1, EventsRead
    <3>3. /\ ll'.req[c] = req /\ events'[c] = given /\ firmware'.asked[c] = a /\ firmware'.waits[c] = w
          /\ Places(frames', box'.mcu, "resp", c) = P
      BY <1>1, <1>6, <1>7 DEF P, req, given, w, a
    <3>4. EventsAreOK(c)'
      BY <3>2, <3>3, Zenon DEF EventsAreOK, t
    <3> QED
      BY <2>1, <3>4
  <2>2. CASE d # c
    <3>1. EventsKept(d)
      BY <1>1, <1>5, <1>6, <1>7, <2>2 DEF EventsKept
    <3> QED
      BY <3>1, InvParts, EventsAreKept
  <2> QED
    BY <2>1, <2>2
<1>13. ASSUME late.reply = 0
       PROVE  (\A d \in Ctxts : QueueIsOK(d)') /\ ResultsOK'
  <2> DEFINE o == OpenIn(firmware.open, c)
             P == Places(frames, box.mcu, "rqt", c)
  <2>1. ll.has_last[c] /\ NodesOK(c, q, results) /\ QueueOK(s, q, o, P)
    BY <1>1, <1>13, InvParts DEF QueueIsOK, s, q
  <2>2. OpenIn(firmware'.open, c) = o /\ Places(frames', box'.mcu, "rqt", c) = P
    BY <1>1, <1>6
  <2> HIDE DEF o, P
  <2>3. /\ q # <<>> /\ q[1].state = "WAITING" /\ P = {} /\ o = {}
        /\ ~p.last => NodesOK(c, Storing(q, p), results) /\ QueueOK(t, Storing(q, p), {}, {})
        /\ p.last => /\ ~Has(t, "resp") /\ Once(t, "resp")
                     /\ Append(q[1].resp, p) = ResponseMessage(q[1].rqt)
    <3>1. StreamIs(c, s, a)
      BY <1>11 DEF EventsOK
    <3>2. s[1].kind = "resp" /\ s \in Seq(Part) /\ t \in Seq(Part) /\ s # <<>> /\ Len(s) \in Nat \ {0} /\ Shifted(s, t)
      BY <1>5
    <3>3. /\ q # <<>> /\ q[1].state = "WAITING" /\ P = {} /\ o = {}
          /\ ~s[1].last =>
                 /\ NodesOK(c, [q EXCEPT ![1].resp = Append(q[1].resp, s[1])], results)
                 /\ QueueOK(t, [q EXCEPT ![1].resp = Append(q[1].resp, s[1])], {}, {})
          /\ s[1].last => /\ ~Has(t, "resp") /\ Once(t, "resp")
                          /\ Append(q[1].resp, s[1]) = ResponseMessage(q[1].rqt)
      BY <1>1, <1>8, <2>1, <3>1, <3>2, ResponseRead
    <3>4. s[1] = p
      BY <1>5
    <3> QED
      BY <3>3, <3>4, Zenon DEF Storing
  <2>4. /\ q[1].rqt \in Rqts /\ Storing(q, p) \in Seq(Node) /\ Len(Storing(q, p)) = Len(q)
        /\ \A k \in 1..Len(q) : Storing(q, p)[k].rqt = q[k].rqt
    BY <1>8, <2>3, StoringIs
  <2>5. CASE AnswerStored(c, q, p)
    <3>1. ll'.queue[c] = Storing(q, p) /\ results' = results /\ ~p.last
      BY <2>5 DEF AnswerStored
    <3>2. QueueIsOK(c)'
      <4>1. QueueOK(StreamOf(c)', ll'.queue[c], OpenIn(firmware'.open, c), Places(frames', box'.mcu, "rqt", c))
        BY <2>2, <2>3, <3>1, Zenon DEF t
      <4>2. ll'.has_last[c] /\ NodesOK(c, ll'.queue[c], results')
        BY <1>1, <1>7, <2>1, <2>3, <3>1
      <4> QED
        BY <4>1, <4>2 DEF QueueIsOK
    <3>3. \A d \in Ctxts : QueueIsOK(d)'
      <4>1. ASSUME NEW d \in Ctxts, d # c
            PROVE  QueueIsOK(d)'
        <5>1. QueueKept(d)
          BY <1>5, <1>6, <1>7, <3>1, <4>1 DEF QueueKept
        <5> QED
          BY <1>13, <5>1, InvParts, QueueIsKept
      <4> QED
        BY <3>2, <4>1
    <3>4. ResultsOK'
      <4>1. ASSUME NEW x \in Rqts, results'[x].ret = "sent"
            PROVE  IsInQueue(x)'
        <5>1. IsInQueue(x)
          BY <1>13, <3>1, <4>1, InvParts DEF ResultsOK
        <5>2. \A k \in 1..Len(q) : q[k].rqt = x => \E j \in 1..Len(ll'.queue[c]) : ll'.queue[c][j].rqt = x
          BY <2>4, <3>1
        <5>3. ll'.queue[c] \in Seq(Node) /\ q = ll.queue[c]
          BY <2>4, <3>1 DEF q
        <5> QED
          BY <1>1, <1>7, <1>8, <5>1, <5>2, <5>3, InQueueLeft
      <4>2. ResponseIsOwn'
        BY <1>13, <3>1, InvParts DEF ResultsOK, ResponseIsOwn
      <4> QED
        BY <4>1, <4>2 DEF ResultsOK
    <3> QED
      BY <3>3, <3>4
  <2>6. CASE AnswerWhole(c, q, p)
    <3> DEFINE r == q[1].rqt
               out == [ret |-> "SUCCESS", resp |-> Append(q[1].resp, p)]
    <3>1. /\ ll'.queue[c] = Tail(q) /\ p.last /\ results' = [results EXCEPT ![r] = out]
          /\ out.ret = "SUCCESS" /\ out.resp = ResponseMessage(r)
      BY <2>3, <2>6 DEF AnswerWhole
    <3> HIDE DEF out
    <3>2. results'[r] = out /\ \A x \in Rqts : x # r => results'[x] = results[x]
      <4>1. results \in [Rqts -> Outcomes]
        BY <1>1 DEF Typed
      <4> QED
        BY <2>4, <3>1, <4>1
    <3>3. RqtContext[r] = c
      <4>1. 1 \in 1..Len(q)
        BY <1>8, <2>3, NodesAre
      <4> QED
        BY <2>1, <4>1 DEF NodesOK
    <3>4. /\ Tail(q) \in Seq(Node) /\ NodesOK(c, Tail(q), results') /\ QueueOK(t, Tail(q), {}, {})
          /\ \A k \in 1..Len(q) : q[k].rqt # q[1].rqt => \E j \in 1..Len(Tail(q)) : Tail(q)[j] = q[k]
      <4>1. \A x \in Rqts : x # q[1].rqt => results'[x].ret = results[x].ret
        BY <3>2
      <4>2. ~Has(t, "resp") /\ Once(t, "resp")
        BY <2>3, <3>1
      <4> HIDE DEF r
      <4> QED
        BY <1>5, <1>8, <2>1, <2>3, <4>1, <4>2, HeadGone
    <3>5. QueueIsOK(c)'
      <4>1. QueueOK(StreamOf(c)', ll'.queue[c], OpenIn(firmware'.open, c), Places(frames', box'.mcu, "rqt", c))
        BY <2>2, <2>3, <3>1, <3>4, Zenon DEF t
      <4>2. ll'.has_last[c] /\ NodesOK(c, ll'.queue[c], results')
        BY <1>1, <1>7, <2>1, <3>1, <3>4
      <4> QED
        BY <4>1, <4>2 DEF QueueIsOK
    <3>6. \A d \in Ctxts : QueueIsOK(d)'
      <4>1. ASSUME NEW d \in Ctxts, d # c
            PROVE  QueueIsOK(d)'
        <5>1. \A x \in Rqts : RqtContext[x] = d => results'[x].ret = results[x].ret
          BY <3>2, <3>3, <4>1
        <5>2. QueueKept(d)
          BY <1>5, <1>6, <1>7, <4>1, <5>1 DEF QueueKept
        <5> QED
          BY <1>13, <5>2, InvParts, QueueIsKept
      <4> QED
        BY <3>5, <4>1
    <3>7. ResultsOK'
      <4>1. ASSUME NEW x \in Rqts, results'[x].ret = "sent"
            PROVE  IsInQueue(x)'
        <5>1. x # r
          BY <3>1, <3>2, <4>1
        <5>2. IsInQueue(x)
          BY <1>13, <3>2, <4>1, <5>1, InvParts DEF ResultsOK
        <5>3. \A k \in 1..Len(q) : q[k].rqt = x => \E j \in 1..Len(ll'.queue[c]) : ll'.queue[c][j].rqt = x
          <6> SUFFICES ASSUME NEW k \in 1..Len(q), q[k].rqt = x
                       PROVE  \E j \in 1..Len(ll'.queue[c]) : ll'.queue[c][j].rqt = x
            OBVIOUS
          <6>1. PICK j \in 1..Len(Tail(q)) : Tail(q)[j] = q[k]
            BY <3>4, <5>1
          <6> QED
            BY <3>1, <6>1
        <5>4. ll'.queue[c] \in Seq(Node) /\ q = ll.queue[c]
          BY <3>1, <3>4 DEF q
        <5> QED
          BY <1>1, <1>7, <1>8, <5>2, <5>3, <5>4, InQueueLeft
      <4>2. ResponseIsOwn'
        <5>1. \A x \in Rqts : results[x].ret = "SUCCESS" => results[x].resp = ResponseMessage(x)
          BY <1>13, InvParts DEF ResultsOK, ResponseIsOwn
        <5> QED
          BY <3>1, <3>2, <5>1 DEF ResponseIsOwn
      <4> QED
        BY <4>1, <4>2 DEF ResultsOK
    <3> QED
      BY <3>6, <3>7
  <2>7. ~AnswerIgnored(c, q, p)
    BY <2>3 DEF AnswerIgnored
  <2> QED
    BY <1>3, <2>5, <2>6, <2>7
<1> QED
  BY <1>3, <1>5, <1>10, <1>12, <1>13 DEF LlInv
\* A request that is read is the one that the firmware asked for last.
LEMMA RequestAsked ==
    ASSUME LlHyp, LlInv, NEW c, NEW i, Handling(c, i), i < Len(ll.data_queue[c]),
           NEW p, p = ll.data_queue[c][i + 1], p.kind = "rqt"
    PROVE  p.of = firmware.asked[c] /\ p.of \in Nat
<1> DEFINE data == ll.data_queue[c]
           p0 == box.p0
           says == firmware.says
           s == StreamOf(c)
           a == firmware.asked[c]
<1>1. /\ data \in Seq(Part) /\ i \in Nat /\ i < Len(data) /\ p0 \in Part \cup {NoPart} /\ says \in Seq(Part)
      /\ Index(c) = i /\ c \in Ctxts /\ a \in Nat
  BY InvParts, Fields DEF Handling
<1>2. s = Stream(data, i, p0, says, c)
  BY <1>1 DEF StreamOf
<1> HIDE DEF data, p0, says, s
<1>3. Taken(data, i, p0, says, c, s, Stream(data, i + 1, p0, says, c))
  BY <1>1, <1>2, DataRead
<1>4. s # <<>> /\ Len(s) \in Nat \ {0} /\ s[1] = p
  BY <1>3 DEF Taken, data
<1>5. StreamIs(c, s, a)
  BY <1>1, InvParts DEF EventsAreOK, EventsOK, s
<1>6. IsResponsePart(p) \/ IsEventPart(p, c, a)
  <2>1. 1 \in 1..Len(s)
    BY <1>4
  <2> QED
    BY <1>4, <1>5, <2>1 DEF StreamIs
<1>7. IsEventPart(p, c, a)
  BY <1>6 DEF IsResponsePart
<1> QED
  BY <1>1, <1>7 DEF IsEventPart

\* The two cases of a request of the firmware.
RequestStored(c, p) ==
    /\ ~p.last /\ ll'.req[c] = Append(ll.req[c], p) /\ events' = events
    /\ \A kind \in {"rqt", "resp"}, d \in Ctxts : OnesIn(frames', kind, d) = OnesIn(frames, kind, d)
RequestWhole(c, p) ==
    /\ p.last /\ ll'.req[c] = <<>> /\ events' = [events EXCEPT ![c] = Append(events[c], Append(ll.req[c], p))]
    /\ \E k \in Nat : \A kind \in {"rqt", "resp"}, d \in Ctxts :
           OnesIn(frames', kind, d) =
               OnesIn(frames, kind, d) \cup IF kind = "resp" /\ d = c THEN {<<k, p.of>>} ELSE {}
RequestRead(c, i, p) ==
    /\ \E d2, i2, r2 :
           /\ Rewrites(ll', c, ll.queue[c], d2, i2, r2)
           /\ \/ d2 = ll.data_queue[c] /\ i2 = i + 1
              \/ d2 = SubSeq(ll.data_queue[c], (i + 1) + 1, Len(ll.data_queue[c])) /\ i2 = 0
    /\ RequestStored(c, p) \/ RequestWhole(c, p)
    /\ frames' \in Seq(Frame) /\ CallsOK(frames')
    /\ \A d \in Ctxts : d \in Processing(frames') <=> d = c
LEMMA RequestIsRead ==
    ASSUME LlHyp, LlInv, NEW c, NEW i, Handling(c, i), i < Len(ll.data_queue[c]),
           NEW p, p = ll.data_queue[c][i + 1], p.kind = "rqt", ProcessRequest(c, i + 1, p)
    PROVE  RequestRead(c, i, p) /\ results' = results
<1> DEFINE j == i + 1
           q == ll.queue[c]
           data == ll.data_queue[c]
           d2 == SubSeq(data, j + 1, Len(data))
           h == Append(Front(frames), Handler("more", c))
           r2 == Append(ll.req[c], p)
           m == StatusMessage(c, p.of)
<1>1. /\ c \in Ctxts /\ frames \in Seq(Frame) /\ frames # <<>> /\ CallsOK(frames)
      /\ Last(frames).op = "handler" /\ Typed /\ q \in Seq(Node) /\ ll.req[c] \in Seq(Part)
  BY InvParts, Fields DEF Handling
<1>2. j \in Nat /\ p \in Part /\ d2 \in Seq(Part) /\ p.of \in Nat
  BY DataLeft, RequestAsked
<1>3. /\ h \in Seq(Frame) /\ CallsOK(h) /\ \A d \in Ctxts : d \in Processing(h) <=> d = c
      /\ \A kind \in {"rqt", "resp"}, d \in Ctxts : OnesIn(h, kind, d) = OnesIn(frames, kind, d)
  BY <1>1, HandlerGoesOn
<1>4. /\ Front(frames) \in Seq(Frame) /\ Handler("more", c) \in Frame
  BY <1>1, TopIs, FramesMade
<1>5. MessageOf(m, "resp", c, p.of, 1) /\ m \in Seq(Part)
  BY <1>1, <1>2, MessagesAre DEF MessageOf
<1> HIDE DEF m
<1>6. /\ SendOne(m) \in Frame /\ h # <<>>
      /\ Front(frames) \o <<Handler("more", c), SendOne(m)>> = Append(h, SendOne(m))
  <2>1. SendOne(m) \in Frame
    BY <1>5, FramesMade
  <2>2. h # <<>>
    BY <1>4, PushedIs
  <2> QED
    BY <1>4, <2>1, <2>2, TwoCalls
<1>7. m[1].kind = "resp" /\ m[1].ctx = c /\ m[1].of = p.of /\ SendsStatus(m)
  <2>1. 1 \in 1..1
    OBVIOUS
  <2>2. m[1].kind = "resp" /\ m[1].ctx = c /\ m[1].of = p.of /\ m[1].last = (1 = 1) /\ Len(m) = 1
    BY <1>5, <2>1 DEF MessageOf
  <2> QED
    BY <2>2 DEF SendsStatus, IsStatusPart
<1> HIDE DEF h
<1>8. Sends(h, Append(h, SendOne(m)), m[1])
  BY <1>3, <1>5, <1>6, <1>7, SendingCall
<1>9. \/ /\ ~p.last /\ frames' = h /\ events' = events
         /\ ll' = [ll EXCEPT !.rqt_index[c] = j, !.req[c] = r2]
      \/ /\ p.last /\ frames' = Append(h, SendOne(m)) /\ events' = [events EXCEPT ![c] = Append(events[c], r2)]
         /\ ll' = [MovedOut(c, j) EXCEPT !.req[c] = <<>>]
  BY <1>6 DEF ProcessRequest, TopBecomes, Calls, h, m
<1>10. results' = results
  BY DEF ProcessRequest
<1>11. r2 \in Seq(Part) /\ <<>> \in Seq(Part)
  BY <1>1, <1>2
<1> HIDE DEF r2
<1>12. \A r \in Seq(Part) :
           /\ Rewrites([ll EXCEPT !.rqt_index[c] = j, !.req[c] = r], c, q, data, j, r)
           /\ Rewrites([MovedOut(c, j) EXCEPT !.req[c] = r], c, q, d2, 0, r)
  BY <1>1, <1>2, RewritesAre
<1>13. \A l, e, k, r : Rewrites(l, c, q, e, k, r) => l.req[c] = r
  BY DEF Rewrites
<1>14. CASE /\ ~p.last /\ frames' = h /\ events' = events
            /\ ll' = [ll EXCEPT !.rqt_index[c] = j, !.req[c] = r2]
  <2>1. Rewrites(ll', c, q, data, j, r2)
    <3>1. Rewrites([ll EXCEPT !.rqt_index[c] = j, !.req[c] = r2], c, q, data, j, r2)
      BY <1>11, <1>12
    <3> QED
      BY <1>14, <3>1, Zenon
  <2>2. ll'.req[c] = r2
    BY <1>13, <2>1
  <2>3. RequestStored(c, p)
    BY <1>3, <1>14, <2>2, Zenon DEF RequestStored, r2
  <2>4. frames' \in Seq(Frame) /\ CallsOK(frames') /\ \A d \in Ctxts : d \in Processing(frames') <=> d = c
    BY <1>3, <1>14
  <2> HIDE DEF q
  <2> QED
    BY <1>10, <2>1, <2>3, <2>4, Zenon DEF RequestRead, q
<1>15. CASE /\ p.last /\ frames' = Append(h, SendOne(m)) /\ events' = [events EXCEPT ![c] = Append(events[c], r2)]
            /\ ll' = [MovedOut(c, j) EXCEPT !.req[c] = <<>>]
  <2>1. Rewrites(ll', c, q, d2, 0, <<>>)
    <3>1. Rewrites([MovedOut(c, j) EXCEPT !.req[c] = <<>>], c, q, d2, 0, <<>>)
      BY <1>11, <1>12
    <3> QED
      BY <1>15, <3>1, Zenon
  <2>2. ll'.req[c] = <<>>
    BY <1>13, <2>1
  <2>3. /\ frames' \in Seq(Frame) /\ CallsOK(frames')
        /\ \A d \in Ctxts : d \in Processing(frames') <=> d = c
    BY <1>3, <1>8, <1>15 DEF Sends
  <2>4. \A kind \in {"rqt", "resp"}, d \in Ctxts :
            OnesIn(frames', kind, d) =
                OnesIn(frames, kind, d) \cup IF kind = "resp" /\ d = c THEN {<<Len(h) + 1, p.of>>} ELSE {}
    <3> SUFFICES ASSUME NEW kind \in {"rqt", "resp"}, NEW d \in Ctxts
                 PROVE  OnesIn(frames', kind, d) =
                            OnesIn(frames, kind, d) \cup
                            IF kind = "resp" /\ d = c THEN {<<Len(h) + 1, p.of>>} ELSE {}
      OBVIOUS
    <3>1. OnesIn(frames', kind, d) =
              OnesIn(h, kind, d) \cup IF m[1].kind = kind /\ m[1].ctx = d THEN {<<Len(h) + 1, m[1].of>>} ELSE {}
      BY <1>8, <1>15 DEF Sends
    <3>2. OnesIn(h, kind, d) = OnesIn(frames, kind, d)
      BY <1>3
    <3> QED
      BY <1>7, <3>1, <3>2
  <2>5. Len(h) + 1 \in Nat
    BY <1>3
  <2>6. RequestWhole(c, p)
    BY <1>15, <2>2, <2>4, <2>5, Zenon DEF RequestWhole, r2
  <2> HIDE DEF q
  <2> QED
    BY <1>10, <2>1, <2>3, <2>6, Zenon DEF RequestRead, q
<1> QED
  BY <1>9, <1>14, <1>15

LEMMA ProcessRequestStep ==
    ASSUME LlHyp, LlInv, NEW c, NEW i, Handling(c, i), i < Len(ll.data_queue[c]),
           NEW p, p = ll.data_queue[c][i + 1], p.kind = "rqt", ProcessRequest(c, i + 1, p),
           box' = box, firmware' = firmware, late' = late
    PROVE  LlInv'
<1> DEFINE q == ll.queue[c]
           s == StreamOf(c)
           t == StreamOf(c)'
           a == firmware.asked[c]
           req == ll.req[c]
           given == events[c]
           w == firmware.waits[c]
           P == Places(frames, box.mcu, "resp", c)
<1>1. RequestRead(c, i, p) /\ results' = results /\ c \in Ctxts /\ Typed
  BY RequestIsRead, InvParts DEF Handling
<1>2. PICK d2, i2, r2 :
          /\ Rewrites(ll', c, ll.queue[c], d2, i2, r2)
          /\ \/ d2 = ll.data_queue[c] /\ i2 = i + 1
             \/ d2 = SubSeq(ll.data_queue[c], (i + 1) + 1, Len(ll.data_queue[c])) /\ i2 = 0
  BY <1>1, Zenon DEF RequestRead
<1>3. /\ RequestStored(c, p) \/ RequestWhole(c, p)
      /\ frames' \in Seq(Frame) /\ CallsOK(frames')
      /\ \A d \in Ctxts : d \in Processing(frames') <=> d = c
  BY <1>1, Zenon DEF RequestRead
<1>4. Reads(c, i)
  BY <1>2, <1>3, ReadStreams
<1>5. /\ s \in Seq(Part) /\ s # <<>> /\ Len(s) \in Nat \ {0} /\ t \in Seq(Part) /\ Shifted(s, t)
      /\ s[1] = p /\ DataOK' /\ \A d \in Ctxts : d # c => StreamOf(d)' = StreamOf(d)
  BY <1>4 DEF Reads
<1>6. \A kind \in {"rqt", "resp"}, d \in Ctxts : kind = "rqt" \/ d # c =>
          Places(frames', box'.mcu, kind, d) = Places(frames, box.mcu, kind, d)
  <2>1. box'.mcu = box.mcu
    OBVIOUS
  <2>2. \A kind \in {"rqt", "resp"}, d \in Ctxts : kind = "rqt" \/ d # c =>
            OnesIn(frames', kind, d) = OnesIn(frames, kind, d)
    <3>1. CASE RequestStored(c, p)
      BY <3>1 DEF RequestStored
    <3>2. CASE RequestWhole(c, p)
      <4>1. PICK k \in Nat : \A kind \in {"rqt", "resp"}, d \in Ctxts :
                OnesIn(frames', kind, d) =
                    OnesIn(frames, kind, d) \cup IF kind = "resp" /\ d = c THEN {<<k, p.of>>} ELSE {}
        BY <3>2, Zenon DEF RequestWhole
      <4> SUFFICES ASSUME NEW kind \in {"rqt", "resp"}, NEW d \in Ctxts, kind = "rqt" \/ d # c
                   PROVE  OnesIn(frames', kind, d) = OnesIn(frames, kind, d)
        OBVIOUS
      <4>2. ~(kind = "resp" /\ d = c)
        OBVIOUS
      <4>3. OnesIn(frames', kind, d) = OnesIn(frames, kind, d) \cup {}
        BY <4>1, <4>2
      <4> QED
        BY <4>3
    <3> QED
      BY <1>3, <3>1, <3>2
  <2> QED
    BY <2>1, <2>2, Zenon DEF Places
<1>7. /\ ll' \in Lls /\ \A d \in Ctxts : ll'.has_last[d] = ll.has_last[d] /\ ll'.queue[d] = ll.queue[d]
      /\ \A d \in Ctxts : d # c => ll'.req[d] = ll.req[d]
  BY <1>1, <1>2 DEF Rewrites
<1>8. p \in Part /\ a \in Nat /\ req \in Seq(Part) /\ given \in Seq(Seq(Part)) /\ events \in [Ctxts -> Seq(Seq(Part))]
  BY <1>1, DataLeft, Fields DEF Typed
<1>9. Append(req, p) \in Seq(Part)
  BY <1>8
<1>10. /\ events' \in [Ctxts -> Seq(Seq(Part))] /\ \A d \in Ctxts : d # c => events'[d] = events[d]
       /\ RequestWhole(c, p) => events'[c] = Append(given, Append(req, p))
  <2>1. CASE RequestStored(c, p)
    <3>1. events' = events /\ ~p.last
      BY <2>1 DEF RequestStored
    <3> QED
      BY <1>8, <3>1 DEF RequestWhole
  <2>2. CASE RequestWhole(c, p)
    <3> DEFINE g == Append(given, Append(req, p))
    <3>1. g \in Seq(Seq(Part))
      BY <1>8, <1>9
    <3>2. events' = [events EXCEPT ![c] = g]
      BY <2>2 DEF RequestWhole
    <3> HIDE DEF g
    <3>3. events' \in [Ctxts -> Seq(Seq(Part))] /\ events'[c] = g /\ \A d \in Ctxts : d # c => events'[d] = events[d]
      BY <1>1, <1>8, <3>1, <3>2
    <3> QED
      BY <3>3 DEF g
  <2> QED
    BY <1>3, <2>1, <2>2
<1>11. Typed'
  BY <1>1, <1>3, <1>7, <1>10 DEF Typed
<1>12. EventsOK(c, s, req, given, a, w, P)
  BY <1>1, InvParts DEF EventsAreOK
<1> HIDE DEF s, t, a, q, req, given, w, P
<1>13. /\ w /\ P = {}
       /\ ~p.last => EventsOK(c, t, Append(req, p), given, a, w, P)
       /\ p.last => \A Q : (\A x, y \in Q : x = y) =>
              EventsOK(c, t, <<>>, Append(given, Append(req, p)), a, w, Q)
  <2>1. s[1].kind = "rqt" /\ s \in Seq(Part) /\ t \in Seq(Part) /\ s # <<>> /\ Len(s) \in Nat \ {0} /\ Shifted(s, t)
    BY <1>5
  <2>2. /\ w /\ P = {}
        /\ ~s[1].last => EventsOK(c, t, Append(req, s[1]), given, a, w, P)
        /\ s[1].last => \A Q : (\A x, y \in Q : x = y) =>
               EventsOK(c, t, <<>>, Append(given, Append(req, s[1])), a, w, Q)
    <3>1. s \in Seq(Part) /\ t \in Seq(Part)
      BY <2>1
    <3>2. a \in Nat /\ req \in Seq(Part) /\ given \in Seq(Seq(Part)) /\ c \in Ctxts
      BY <1>1, <1>8
    <3>3. /\ w /\ P = {}
          /\ ~s[1].last => EventsOK(c, t, Append(req, s[1]), given, a, w, P)
      BY <1>12, <2>1, <3>1, <3>2, EventRead
    <3>4. s[1].last => Given(c, t, Append(given, Append(req, s[1])), a, w)
      BY <1>12, <2>1, <3>1, <3>2, EventRead
    <3> QED
      BY <3>3, <3>4 DEF Given
  <2>3. s[1] = p
    BY <1>5
  <2> QED
    BY <2>2, <2>3, Zenon
<1>14. EventsAreOK(c)'
  <2> DEFINE Q == Places(frames', box'.mcu, "resp", c)
  <2>1. firmware'.asked[c] = a /\ firmware'.waits[c] = w
    BY DEF a, w
  <2>2. CASE RequestStored(c, p)
    <3>1. ~p.last /\ ll'.req[c] = Append(req, p) /\ events'[c] = given
      BY <2>2 DEF RequestStored, req, given
    <3>2. Q = P
      <4>1. OnesIn(frames', "resp", c) = OnesIn(frames, "resp", c)
        BY <1>1, <2>2 DEF RequestStored
      <4>2. box'.mcu = box.mcu
        OBVIOUS
      <4> QED
        BY <4>1, <4>2, Zenon DEF Places, P
    <3> HIDE DEF Q
    <3>3. EventsOK(c, t, Append(req, p), given, a, w, Q)
      BY <1>13, <3>1, <3>2
    <3> QED
      BY <2>1, <3>1, <3>3, Zenon DEF EventsAreOK, t, Q
  <2>3. CASE RequestWhole(c, p)
    <3>1. p.last /\ ll'.req[c] = <<>> /\ events'[c] = Append(given, Append(req, p))
      BY <1>10, <2>3 DEF RequestWhole
    <3>2. \A x, y \in Q : x = y
      <4>1. PICK k \in Nat : OnesIn(frames', "resp", c) = OnesIn(frames, "resp", c) \cup {<<k, p.of>>}
        BY <1>1, <2>3 DEF RequestWhole
      <4>2. OnesIn(frames, "resp", c) = {} /\ InMail(box.mcu, "resp", c) = {}
        BY <1>13 DEF P, Places
      <4>3. Q = OnesIn(frames', "resp", c) \cup InMail(box.mcu, "resp", c)
        <5>1. box'.mcu = box.mcu
          OBVIOUS
        <5> QED
          BY <5>1, Zenon DEF Places
      <4> HIDE DEF Q
      <4>4. Q = {<<k, p.of>>}
        BY <4>1, <4>2, <4>3
      <4> QED
        BY <4>4
    <3> HIDE DEF Q
    <3>3. EventsOK(c, t, <<>>, Append(given, Append(req, p)), a, w, Q)
      BY <1>13, <3>1, <3>2
    <3> QED
      BY <2>1, <3>1, <3>3, Zenon DEF EventsAreOK, t, Q
  <2> QED
    BY <1>3, <2>2, <2>3
<1>15. ASSUME NEW d \in Ctxts
       PROVE  EventsAreOK(d)'
  <2>1. CASE d = c
    BY <1>14, <2>1
  <2>2. CASE d # c
    <3>1. EventsKept(d)
      BY <1>5, <1>6, <1>7, <1>10, <2>2 DEF EventsKept
    <3> QED
      BY <3>1, InvParts, EventsAreKept
  <2> QED
    BY <2>1, <2>2
<1>16. ASSUME late.reply = 0
       PROVE  (\A d \in Ctxts : QueueIsOK(d)') /\ ResultsOK'
  <2>1. QueueIsOK(c)'
    <3> DEFINE o == OpenIn(firmware.open, c)
               R == Places(frames, box.mcu, "rqt", c)
    <3>1. ll.has_last[c] /\ NodesOK(c, q, results) /\ QueueOK(s, q, o, R)
      BY <1>1, <1>16, InvParts DEF QueueIsOK, s, q
    <3>2. OpenIn(firmware'.open, c) = o /\ Places(frames', box'.mcu, "rqt", c) = R
      BY <1>1, <1>6
    <3> HIDE DEF o, R
    <3>3. s[1].kind = "rqt" /\ s \in Seq(Part) /\ t \in Seq(Part) /\ s # <<>> /\ Len(s) \in Nat \ {0} /\ Shifted(s, t)
      BY <1>5
    <3>4. Consumed(s, t)
      <4>1. StreamIs(c, s, a)
        BY <1>12 DEF EventsOK
      <4> QED
        BY <1>1, <1>8, <3>3, <4>1, StreamConsumed
    <3>5. QueueOK(t, q, o, R)
      BY <3>1, <3>3, <3>4, QueueRead
    <3>6. ll'.queue[c] = q
      BY <1>1, <1>7 DEF q
    <3>7. QueueOK(StreamOf(c)', ll'.queue[c], OpenIn(firmware'.open, c), Places(frames', box'.mcu, "rqt", c))
      BY <3>2, <3>5, <3>6, Zenon DEF t
    <3>8. ll'.has_last[c] /\ NodesOK(c, ll'.queue[c], results')
      BY <1>1, <1>7, <3>1, <3>6
    <3> QED
      BY <3>7, <3>8 DEF QueueIsOK
  <2>2. ASSUME NEW d \in Ctxts, d # c
        PROVE  QueueIsOK(d)'
    <3>1. QueueKept(d)
      BY <1>1, <1>5, <1>6, <1>7, <2>2 DEF QueueKept
    <3> QED
      BY <1>16, <3>1, InvParts, QueueIsKept
  <2>3. ResultsOK'
    BY <1>1, <1>7, <1>16, InvParts, ResultsKept
  <2> QED
    BY <2>1, <2>2, <2>3
<1> QED
  BY <1>3, <1>5, <1>11, <1>15, <1>16 DEF LlInv

LEMMA ProcessDataStep ==
    ASSUME LlHyp, LlInv, ProcessData
    PROVE  LlInv'
<1>1. PICK c : c = Top.ctx
  OBVIOUS
<1>2. PICK i : i = Offset
  OBVIOUS
<1>3. PICK p : p = ll.data_queue[c][i + 1]
  OBVIOUS
<1>4. /\ Runs("handler") /\ Top.at # "entry" /\ i < Len(ll.data_queue[c])
      /\ IF p.kind = "resp" THEN ProcessResponse(c, i + 1, p) ELSE ProcessRequest(c, i + 1, p)
      /\ UNCHANGED <<box, firmware, late>>
  BY <1>1, <1>2, <1>3, Zenon DEF ProcessData
<1>5. Handling(c, i)
  BY <1>1, <1>2, <1>4, HandlingIs
<1>6. p.kind = "resp" \/ p.kind = "rqt"
  <2>1. p \in Part
    BY <1>3, <1>4, <1>5, DataLeft
  <2> QED
    BY <2>1 DEF Part
<1>7. CASE p.kind = "resp"
  BY <1>3, <1>4, <1>5, <1>7, ProcessResponseStep
<1>8. CASE p.kind = "rqt"
  BY <1>3, <1>4, <1>5, <1>8, ProcessRequestStep
<1> QED
  BY <1>6, <1>7, <1>8
-----------------------------------------------------------------------------
(* The handler goes to the next context, and a reply is given up *)

LEMMA NextContextStep ==
    ASSUME LlHyp, LlInv, NextContext
    PROVE  LlInv'
<1>1. PICK c : c = Top.ctx
  OBVIOUS
<1>2. PICK i : i = Offset
  OBVIOUS
<1>3. PICK again \in BOOLEAN : again = (c = KContexts - 1 /\ ll.queued_data)
  OBVIOUS
<1>4. /\ Runs("handler") /\ Top.at # "entry" /\ i >= Len(ll.data_queue[c])
      /\ ll' = [ll EXCEPT !.data_queue[c] = <<>>, !.queued_data = IF again THEN FALSE ELSE @]
      /\ \/ frames' = Append(Front(frames), Handler("start", 0))
         \/ frames' = Front(frames)
         \/ c # KContexts - 1 /\ frames' = Append(Front(frames), Handler("start", c + 1))
      /\ UNCHANGED <<box, firmware, results, events, late>>
  BY <1>1, <1>2, <1>3 DEF NextContext, Pops, TopBecomes
<1>5. Handling(c, i)
  BY <1>1, <1>2, <1>4, HandlingIs
<1>6. /\ frames \in Seq(Frame) /\ frames # <<>> /\ CallsOK(frames) /\ Last(frames).op = "handler"
      /\ c \in Ctxts /\ i = Len(ll.data_queue[c]) /\ Index(c) = i /\ ll.data_queue[c] \in Seq(Part)
      /\ \A d \in Ctxts : d # c => Index(d) = 0
  BY <1>4, <1>5 DEF Handling
<1> DEFINE b == Front(frames)
<1>7. /\ b \in Seq(Frame) /\ CallsOK(b) /\ Passive(b) /\ \A d \in Ctxts : d \notin Processing(b)
      /\ \A kind \in {"rqt", "resp"}, d \in Ctxts : OnesIn(frames, kind, d) = OnesIn(b, kind, d)
  <2>1. b \in Seq(Frame) /\ Pushed(b, Last(frames), frames)
    BY <1>6, TopIs
  <2> HIDE DEF b
  <2>2. CallsOK(b) /\ Passive(b) /\ \A d \in Ctxts : d \notin Processing(b)
    BY <1>6, <2>1 DEF Pushed, TopOK, Handles
  <2>3. \A kind \in {"rqt", "resp"}, d \in Ctxts : OneOf(Last(frames), kind, d, Len(b) + 1) = {}
    BY <1>6 DEF OneOf, IsOne
  <2>4. \A kind \in {"rqt", "resp"}, d \in Ctxts : OnesIn(frames, kind, d) = OnesIn(b, kind, d)
    BY <2>1, <2>3 DEF Pushed
  <2> QED
    BY <2>1, <2>2, <2>4
<1>8. Same(b, frames')
  <2>1. 0 \in Ctxts /\ (c # KContexts - 1 => c + 1 \in Ctxts)
    <3>1. KContexts \in Nat \ {0} /\ c \in 0..(KContexts - 1)
      BY <1>6 DEF LlHyp, Ctxts
    <3> QED
      BY <3>1 DEF Ctxts
  <2>2. ASSUME NEW d \in Ctxts
        PROVE  Same(b, Append(b, Handler("start", d)))
    <3>1. Handler("start", d) \in Frame /\ Handler("start", d).op = "handler" /\ Handler("start", d).at = "start"
      BY FramesMade
    <3>2. Idle(Handler("start", d))
      BY <3>1 DEF Idle, Works
    <3> HIDE DEF b
    <3> QED
      BY <1>7, <3>1, <3>2, IdleCall
  <2>3. Same(b, b)
    BY <1>7 DEF Same
  <2> QED
    BY <1>4, <2>1, <2>2, <2>3
<1> HIDE DEF b
<1>9. /\ \A d \in Ctxts : d \notin Processing(frames')
      /\ \A kind \in {"rqt", "resp"}, d \in Ctxts :
             Places(frames', box'.mcu, kind, d) = Places(frames, box.mcu, kind, d)
  <2>1. \A d \in Ctxts : d \notin Processing(frames')
    BY <1>7, <1>8 DEF Same
  <2>2. \A kind \in {"rqt", "resp"}, d \in Ctxts : OnesIn(frames', kind, d) = OnesIn(frames, kind, d)
    BY <1>7, <1>8 DEF Same
  <2>3. box'.mcu = box.mcu
    BY <1>4
  <2> QED
    BY <2>1, <2>2, <2>3, Zenon DEF Places
<1>10. /\ ll' \in Lls /\ ll'.queue = ll.queue /\ ll'.has_last = ll.has_last
       /\ ll'.rqt_index = ll.rqt_index /\ ll'.req = ll.req
       /\ ll'.data_queue[c] = <<>> /\ \A d \in Ctxts : d # c => ll'.data_queue[d] = ll.data_queue[d]
  <2>1. ll \in Lls /\ ll.data_queue \in [Ctxts -> Seq(Part)]
    BY InvParts DEF Typed, Lls
  <2> DEFINE e == <<>>
  <2>2. ll' = [ll EXCEPT !.data_queue[c] = e, !.queued_data = IF again THEN FALSE ELSE @] /\ e \in Seq(Part)
    BY <1>4
  <2> HIDE DEF e
  <2>3. /\ ll'.queue = ll.queue /\ ll'.has_last = ll.has_last /\ ll'.rqt_index = ll.rqt_index /\ ll'.req = ll.req
        /\ ll'.data_queue = [ll.data_queue EXCEPT ![c] = e]
    BY <2>1, <2>2 DEF Lls
  <2>4. ll' \in Lls
    BY <1>6, <2>1, <2>2 DEF Lls
  <2>5. ll'.data_queue[c] = e /\ \A d \in Ctxts : d # c => ll'.data_queue[d] = ll.data_queue[d]
    BY <1>6, <2>1, <2>3
  <2> QED
    BY <2>3, <2>4, <2>5 DEF e
<1>11. Typed'
  BY <1>4, <1>8, <1>10, InvParts DEF Typed, Same
<1>12. \A d \in Ctxts : Index(d)' = 0
  BY <1>9 DEF Index
<1>13. \A d \in Ctxts : StreamOf(d)' = StreamOf(d)
  <2> SUFFICES ASSUME NEW d \in Ctxts
               PROVE  StreamOf(d)' = StreamOf(d)
    OBVIOUS
  <2>1. box'.p0 = box.p0 /\ firmware'.says = firmware.says
    BY <1>4
  <2>2. StreamOf(d)' = Stream(ll'.data_queue[d], 0, box.p0, firmware.says, d)
    BY <1>12, <2>1, Zenon DEF StreamOf
  <2>3. CASE d = c
    <3>1. Stream(<<>>, 0, box.p0, firmware.says, c) = Stream(ll.data_queue[c], Len(ll.data_queue[c]), box.p0, firmware.says, c)
      BY <1>6, DataEmptied
    <3>2. StreamOf(c) = Stream(ll.data_queue[c], Len(ll.data_queue[c]), box.p0, firmware.says, c)
      BY <1>6, Zenon DEF StreamOf
    <3>3. StreamOf(c)' = Stream(<<>>, 0, box.p0, firmware.says, c)
      BY <1>10, <2>2, <2>3, Zenon
    <3> QED
      BY <2>3, <3>1, <3>2, <3>3, Zenon
  <2>4. CASE d # c
    <3>1. Index(d) = 0 /\ ll'.data_queue[d] = ll.data_queue[d]
      BY <1>6, <1>10, <2>4
    <3> QED
      BY <2>2, <3>1, Zenon DEF StreamOf
  <2> QED
    BY <2>3, <2>4
<1>14. DataOK'
  <2>1. \A d \in Ctxts : ll'.data_queue[d] \in Seq(Part)
    BY <1>10 DEF Lls
  <2>2. \A d \in Ctxts : Index(d)' <= Len(ll'.data_queue[d])
    <3> SUFFICES ASSUME NEW d \in Ctxts
                 PROVE  Index(d)' <= Len(ll'.data_queue[d])
      OBVIOUS
    <3>1. Len(ll'.data_queue[d]) \in Nat /\ Index(d)' = 0
      BY <1>12, <2>1
    <3> QED
      BY <3>1
  <2> QED
    BY <1>4, <2>2, InvParts DEF DataOK
<1>15. ASSUME NEW d \in Ctxts
       PROVE  EventsAreOK(d)'
  <2>1. EventsKept(d)
    BY <1>4, <1>9, <1>10, <1>13 DEF EventsKept
  <2> QED
    BY <2>1, InvParts, EventsAreKept
<1>16. ASSUME late.reply = 0
       PROVE  (\A d \in Ctxts : QueueIsOK(d)') /\ ResultsOK'
  <2>1. ASSUME NEW d \in Ctxts
        PROVE  QueueIsOK(d)'
    <3>1. QueueKept(d)
      BY <1>4, <1>9, <1>10, <1>13 DEF QueueKept
    <3> QED
      BY <1>16, <3>1, InvParts, QueueIsKept
  <2>2. ResultsOK'
    BY <1>4, <1>10, <1>16, InvParts, ResultsKept
  <2> QED
    BY <2>1, <2>2
<1>17. CallsOK(frames') /\ late' = late
  BY <1>4, <1>8 DEF Same
<1> QED
  BY <1>11, <1>14, <1>15, <1>16, <1>17 DEF LlInv

\* A queue without one of its nodes.
LEMMA RemovedIs ==
    ASSUME NEW S, NEW q \in Seq(S), NEW at \in DOMAIN q
    PROVE  RemoveAt(q, at) \in Seq(S)
<1>1. Len(q) \in Nat /\ at \in 1..Len(q) /\ \A k \in 1..Len(q) : q[k] \in S
  OBVIOUS
<1>2. SubSeq(q, 1, at - 1) \in Seq(S) /\ SubSeq(q, at + 1, Len(q)) \in Seq(S)
  <2>1. 1 \in Int /\ at - 1 \in Int /\ at + 1 \in Int /\ Len(q) \in Int
    BY <1>1
  <2>2. (\A k \in 1..(at - 1) : q[k] \in S) /\ (\A k \in (at + 1)..Len(q) : q[k] \in S)
    BY <1>1
  <2> QED
    BY <2>1, <2>2, SubSeqProperties
<1> QED
  BY <1>2 DEF RemoveAt

\* A reply is late: what may be said of queues then is nothing, of the firmware's
\* requests the same.
LEMMA LLReplyTimeoutStep ==
    ASSUME LlHyp, LlInv, LLReplyTimeout
    PROVE  LlInv'
<1>1. PICK r : r = Top.rqt
  OBVIOUS
<1> DEFINE c == RqtContext[r]
           q == ll.queue[c]
           at == CHOOSE k \in DOMAIN q : q[k].rqt = r
<1>2. /\ frames \in Seq(Frame) /\ frames # <<>> /\ Last(frames).op = "wait" /\ frames' = Front(frames)
      /\ IsInQueue(r) /\ late' = [late EXCEPT !.reply = @ + 1] /\ CallsOK(frames)
      /\ ll' = [ll EXCEPT !.queue[c] = RemoveAt(q, at),
                          !.has_last[c] = @ /\ (at < Len(q) \/ Len(q) = 1)]
      /\ results' = [results EXCEPT ![r].ret = "CANCELED"]
      /\ box' = box /\ firmware' = firmware /\ events' = events /\ r = Last(frames).rqt
  BY <1>1, InvParts, Fields DEF LLReplyTimeout, Runs, Top, Pops
<1>3. r \in Rqts /\ c \in Ctxts
  BY <1>2, TopIs, FrameIs DEF FrameFields, LlHyp
<1>4. Idle(Last(frames))
  BY <1>2 DEF Idle, Works
<1>5. Same(frames, frames')
  BY <1>2, <1>4, IdleReturn
<1>6. at \in DOMAIN q
  BY <1>2 DEF IsInQueue
<1>7. /\ ll \in Lls /\ ll.queue \in [Ctxts -> Seq(Node)] /\ q \in Seq(Node)
      /\ ll.has_last \in [Ctxts -> BOOLEAN] /\ results \in [Rqts -> Outcomes]
      /\ late \in [send : Nat, reply : Nat]
  BY <1>3, InvParts, Fields DEF Typed, Lls
<1> HIDE DEF at
<1>8. /\ ll' \in Lls /\ ll'.data_queue = ll.data_queue /\ ll'.rqt_index = ll.rqt_index /\ ll'.req = ll.req
  <2> DEFINE q2 == RemoveAt(q, at)
             h2 == ll.has_last[c] /\ (at < Len(q) \/ Len(q) = 1)
  <2>1. q2 \in Seq(Node)
    BY <1>6, <1>7, RemovedIs
  <2>2. h2 \in BOOLEAN
    OBVIOUS
  <2>3. ll' = [ll EXCEPT !.queue[c] = q2, !.has_last[c] = h2]
    <3>1. ll' = [ll EXCEPT !.queue[c] = q2, !.has_last[c] = @ /\ (at < Len(q) \/ Len(q) = 1)]
      BY <1>2
    <3> QED
      BY <1>7, <3>1
  <2> HIDE DEF q2, h2
  <2>4. ll' \in Lls
    BY <1>3, <1>7, <2>1, <2>2, <2>3 DEF Lls
  <2>5. ll'.data_queue = ll.data_queue /\ ll'.rqt_index = ll.rqt_index /\ ll'.req = ll.req
    BY <1>7, <2>3 DEF Lls
  <2> QED
    BY <2>4, <2>5
<1>9. /\ results' \in [Rqts -> Outcomes] /\ late' \in [send : Nat, reply : Nat] /\ late'.reply # 0
  <2>1. late' \in [send : Nat, reply : Nat] /\ late'.reply # 0
    BY <1>2, <1>7
  <2> DEFINE o == [results[r] EXCEPT !.ret = "CANCELED"]
  <2>2. results[r] \in Outcomes
    BY <1>3, <1>7
  <2>3. o \in Outcomes
    BY <2>2 DEF Outcomes, Results
  <2>4. results' = [results EXCEPT ![r] = o]
    BY <1>2
  <2> HIDE DEF o
  <2>5. results' \in [Rqts -> Outcomes]
    BY <1>3, <1>7, <2>3, <2>4
  <2> QED
    BY <2>1, <2>5
<1>10. Typed'
  BY <1>2, <1>5, <1>8, <1>9, InvParts DEF Typed, Same
<1>11. DataOK' /\ \A d \in Ctxts : EventsAreOK(d)'
  <2>1. \A kind \in {"rqt", "resp"}, d \in Ctxts : Places(frames', box.mcu, kind, d) = Places(frames, box.mcu, kind, d)
    BY <1>5, PlacesKept
  <2>2. \A d \in Ctxts : d \in Processing(frames') <=> d \in Processing(frames)
    BY <1>5 DEF Same
  <2> QED
    BY <1>2, <1>8, <2>1, <2>2, StackStep
<1>12. CallsOK(frames')
  BY <1>5 DEF Same
<1> QED
  BY <1>9, <1>10, <1>11, <1>12 DEF LlInv
-----------------------------------------------------------------------------
(* Steps of the firmware *)

LEMMA FirmwarePutsStep ==
    ASSUME LlHyp, LlInv, FirmwarePuts
    PROVE  LlInv'
<1> DEFINE says == firmware.says
<1>1. /\ says # <<>> /\ box.p0 = NoPart /\ box' = [box EXCEPT !.p0 = Head(says)]
      /\ firmware' = [firmware EXCEPT !.says = Tail(says)]
      /\ UNCHANGED <<ll, frames, results, events, late>>
  BY DEF FirmwarePuts
<1>2. /\ says \in Seq(Part) /\ firmware \in Firmwares /\ box \in Boxes
      /\ \A k \in 1..Len(says) : says[k].ctx = says[1].ctx
  BY InvParts, Fields DEF Typed, DataOK
<1>3. Tail(says) \in Seq(Part) /\ Head(says) \in Part /\ Shifted(says, Tail(says)) /\ Len(says) \in Nat \ {0}
  BY <1>1, <1>2, TailIs
<1> HIDE DEF says
<1>4. box' \in Boxes /\ box'.mcu = box.mcu /\ box'.p0 = Head(says)
  BY <1>1, <1>2, <1>3 DEF Boxes
<1>5. /\ firmware' \in Firmwares /\ firmware'.says = Tail(says) /\ firmware'.open = firmware.open
      /\ firmware'.asked = firmware.asked /\ firmware'.waits = firmware.waits
  BY <1>1, <1>2, <1>3 DEF Firmwares
<1>6. Typed'
  BY <1>1, <1>4, <1>5, InvParts DEF Typed
<1>7. \A c \in Ctxts : StreamOf(c)' = StreamOf(c) /\ Index(c)' = Index(c)
  <2> SUFFICES ASSUME NEW c \in Ctxts
               PROVE  StreamOf(c)' = StreamOf(c) /\ Index(c)' = Index(c)
    OBVIOUS
  <2>1. Index(c)' = Index(c)
    BY <1>1 DEF Index
  <2> DEFINE d == ll.data_queue[c]
             i == Index(c)
  <2>2. d \in Seq(Part) /\ i \in Nat /\ i <= Len(d)
    BY InvParts, Fields DEF DataOK
  <2>3. StreamOf(c)' = Stream(d, i, Head(says), Tail(says), c)
    BY <1>1, <1>4, <1>5, <2>1 DEF StreamOf
  <2>4. StreamOf(c) = Stream(d, i, NoPart, says, c)
    BY <1>1 DEF StreamOf, says
  <2> HIDE DEF d, i
  <2>5. Stream(d, i, Head(says), Tail(says), c) = Stream(d, i, NoPart, says, c)
    BY <1>1, <1>2, <2>2, PartPut
  <2> QED
    BY <2>1, <2>3, <2>4, <2>5, Zenon
<1>8. DataOK'
  <2>1. \A k \in 1..Len(firmware'.says) : firmware'.says[k].ctx = firmware'.says[1].ctx
    <3> DEFINE t == Tail(says)
    <3>1. \A k \in 1..Len(t) : k + 1 \in 1..Len(says) /\ t[k] = says[k + 1]
      BY <1>3 DEF Shifted
    <3>2. \A k \in 1..Len(t) : t[k].ctx = says[1].ctx
      BY <1>2, <3>1
    <3>3. t \in Seq(Part)
      BY <1>3
    <3> HIDE DEF t
    <3>4. \A k \in 1..Len(t) : 1 \in 1..Len(t)
      BY <3>3
    <3>5. \A k \in 1..Len(t) : t[k].ctx = t[1].ctx
      BY <3>2, <3>4
    <3> QED
      BY <1>5, <3>5 DEF t
  <2> QED
    BY <1>1, <1>4, <1>7, <2>1, InvParts DEF DataOK
<1>9. \A kind \in {"rqt", "resp"}, c \in Ctxts :
          Places(frames', box'.mcu, kind, c) = Places(frames, box.mcu, kind, c)
  BY <1>1, <1>4
<1>10. ASSUME NEW c \in Ctxts
       PROVE  EventsAreOK(c)'
  <2>1. EventsKept(c)
    BY <1>1, <1>5, <1>7, <1>9 DEF EventsKept
  <2> QED
    BY <2>1, InvParts, EventsAreKept
<1>11. ASSUME late.reply = 0
       PROVE  (\A c \in Ctxts : QueueIsOK(c)') /\ ResultsOK'
  <2>1. ASSUME NEW c \in Ctxts
        PROVE  QueueIsOK(c)'
    <3>1. QueueKept(c)
      BY <1>1, <1>5, <1>7, <1>9 DEF QueueKept
    <3> QED
      BY <1>11, <3>1, InvParts, QueueIsKept
  <2>2. ResultsOK'
    BY <1>1, <1>11, InvParts, ResultsKept
  <2> QED
    BY <2>1, <2>2
<1>12. CallsOK(frames') /\ late' = late
  BY <1>1, InvParts
<1> QED
  BY <1>6, <1>8, <1>10, <1>11, <1>12 DEF LlInv

\* The firmware says a message that it has not said.
LEMMA SaidStreams ==
    ASSUME LlHyp, LlInv, NEW c \in Ctxts, NEW m \in Seq(Part), m # <<>>,
           \A k \in 1..Len(m) : m[k].ctx = c, 1 \in 1..Len(m),
           firmware.says = <<>>, firmware'.says = m, UNCHANGED <<ll, box, frames>>
    PROVE  /\ DataOK'
           /\ \A d \in Ctxts : d # c => StreamOf(d)' = StreamOf(d)
           /\ StreamOf(c)' \in Seq(Part) /\ Joined(StreamOf(c), m, StreamOf(c)')
<1>1. m[1].ctx = c
  OBVIOUS
<1>2. \A d \in Ctxts : Index(d)' = Index(d)
  BY DEF Index
<1>3. DataOK'
  BY <1>2, InvParts DEF DataOK
<1>4. ASSUME NEW d \in Ctxts
      PROVE  /\ d # c => StreamOf(d)' = StreamOf(d)
             /\ d = c => StreamOf(d)' \in Seq(Part) /\ Joined(StreamOf(d), m, StreamOf(d)')
  <2> DEFINE data == ll.data_queue[d]
             i == Index(d)
             p0 == box.p0
  <2>1. data \in Seq(Part) /\ i \in Nat /\ i <= Len(data) /\ p0 \in Part \cup {NoPart}
    BY InvParts, Fields DEF DataOK
  <2>2. StreamOf(d)' = Stream(data, i, p0, m, d) /\ StreamOf(d) = Stream(data, i, p0, <<>>, d)
    BY <1>2 DEF StreamOf
  <2> HIDE DEF data, i, p0
  <2>3. /\ m[1].ctx # d => Stream(data, i, p0, m, d) = Stream(data, i, p0, <<>>, d)
        /\ m[1].ctx = d => Joined(Stream(data, i, p0, <<>>, d), m, Stream(data, i, p0, m, d))
    <3>1. /\ m[1].ctx # d => Stream(data, i, p0, m, d) = Stream(data, i, p0, <<>>, d)
      BY <2>1, MessageSaid
    <3>2. m[1].ctx = d => Joined(Stream(data, i, p0, <<>>, d), m, Stream(data, i, p0, m, d))
      BY <2>1, MessageSaid
    <3> QED
      BY <3>1, <3>2
  <2>4. Stream(data, i, p0, m, d) \in Seq(Part)
    BY <2>1, Pieces
  <2> QED
    BY <1>1, <2>2, <2>3, <2>4, Zenon
<1> QED
  BY <1>3, <1>4

LEMMA FirmwareAnswersStep ==
    ASSUME LlHyp, LlInv, NEW r \in Rqts, FirmwareAnswers(r)
    PROVE  LlInv'
<1> DEFINE m == ResponseMessage(r)
           c == RqtContext[r]
<1>1. /\ r \in firmware.open /\ firmware.says = <<>>
      /\ firmware' = [firmware EXCEPT !.says = m, !.open = firmware.open \ {r}]
      /\ UNCHANGED <<ll, box, frames, results, events, late>>
  BY DEF FirmwareAnswers
<1>2. MessageOf(m, "resp", c, r, RespParts[r]) /\ c \in Ctxts /\ firmware \in Firmwares
  BY MessagesAre, InvParts DEF LlHyp, Typed
<1> HIDE DEF m, c
<1>3. /\ m \in Seq(Part) /\ m # <<>> /\ 1 \in 1..Len(m) /\ \A k \in 1..Len(m) : m[k].ctx = c
  BY <1>2 DEF MessageOf
<1>4. /\ firmware' \in Firmwares /\ firmware'.says = m /\ firmware'.open = firmware.open \ {r}
      /\ firmware'.asked = firmware.asked /\ firmware'.waits = firmware.waits
  BY <1>1, <1>2, <1>3 DEF Firmwares
<1>5. Typed'
  BY <1>1, <1>4, InvParts DEF Typed
<1>6. /\ DataOK' /\ \A d \in Ctxts : d # c => StreamOf(d)' = StreamOf(d)
      /\ StreamOf(c)' \in Seq(Part) /\ Joined(StreamOf(c), m, StreamOf(c)')
  BY <1>1, <1>2, <1>3, <1>4, SaidStreams
<1>7. \A kind \in {"rqt", "resp"}, d \in Ctxts :
          Places(frames', box'.mcu, kind, d) = Places(frames, box.mcu, kind, d)
  BY <1>1
<1> DEFINE s == StreamOf(c)
           u == StreamOf(c)'
           a == firmware.asked[c]
<1>8. s \in Seq(Part) /\ a \in Nat
  BY <1>2, InvParts, StreamIn, Fields
<1>9. ASSUME NEW d \in Ctxts
      PROVE  EventsAreOK(d)'
  <2>1. CASE d # c
    <3>1. EventsKept(d)
      BY <1>1, <1>4, <1>6, <1>7, <2>1 DEF EventsKept
    <3> QED
      BY <3>1, InvParts, EventsAreKept
  <2>2. CASE d = c
    <3> DEFINE P == Places(frames, box.mcu, "resp", c)
               req == ll.req[c]
               given == events[c]
               w == firmware.waits[c]
    <3>1. EventsOK(c, s, req, given, a, w, P)
      BY <1>2, InvParts DEF EventsAreOK
    <3>2. /\ ll'.req[c] = req /\ events'[c] = given /\ firmware'.asked[c] = a /\ firmware'.waits[c] = w
          /\ Places(frames', box'.mcu, "resp", c) = P
      BY <1>1, <1>2, <1>4, <1>7
    <3> HIDE DEF s, u, a, P, req, given, w
    <3>3. Joined(s, ResponseMessage(r), u) /\ RqtContext[r] = c /\ u \in Seq(Part)
      BY <1>6 DEF m, c, s, u
    <3>4. EventsOK(c, u, req, given, a, w, P)
      BY <1>2, <1>8, <3>1, <3>3, EventsAnswered
    <3>5. EventsAreOK(c)'
      BY <3>2, <3>4, Zenon DEF EventsAreOK, u
    <3> QED
      BY <2>2, <3>5
  <2> QED
    BY <2>1, <2>2
<1>10. \A d \in Ctxts : d # c => OpenIn(firmware'.open, d) = OpenIn(firmware.open, d)
  BY <1>4 DEF OpenIn, c
<1>11. ASSUME late.reply = 0
       PROVE  (\A d \in Ctxts : QueueIsOK(d)') /\ ResultsOK'
  <2>1. ASSUME NEW d \in Ctxts, d # c
        PROVE  QueueIsOK(d)'
    <3>1. QueueKept(d)
      BY <1>1, <1>6, <1>7, <1>10, <2>1 DEF QueueKept
    <3> QED
      BY <1>11, <3>1, InvParts, QueueIsKept
  <2>2. QueueIsOK(c)'
    <3> DEFINE q == ll.queue[c]
               o == OpenIn(firmware.open, c)
               P == Places(frames, box.mcu, "rqt", c)
    <3>1. ll.has_last[c] /\ NodesOK(c, q, results) /\ QueueOK(s, q, o, P) /\ q \in Seq(Node)
      BY <1>2, <1>11, InvParts, Fields DEF QueueIsOK
    <3>2. r \in o /\ OpenIn(firmware'.open, c) = o \ {r}
      BY <1>1, <1>4 DEF OpenIn, c
    <3>3. WellFormed(s)
      BY <1>2, InvParts DEF EventsAreOK, EventsOK, StreamIs
    <3>4. Places(frames', box'.mcu, "rqt", c) = P /\ ll'.queue[c] = q /\ UNCHANGED <<ll, results>>
      BY <1>1, <1>2, <1>7
    <3> HIDE DEF s, u, q, o, P
    <3>5. Joined(s, ResponseMessage(r), u) /\ RqtContext[r] = c /\ u \in Seq(Part)
      BY <1>6 DEF m, c, s, u
    <3>6. o = {r} /\ QueueOK(u, q, {}, P)
      BY <1>2, <1>8, <3>1, <3>2, <3>3, <3>5, HeadAnswered
    <3>7. OpenIn(firmware'.open, c) = {}
      BY <3>2, <3>6
    <3>8. QueueOK(StreamOf(c)', ll'.queue[c], OpenIn(firmware'.open, c), Places(frames', box'.mcu, "rqt", c))
      BY <3>4, <3>6, <3>7, Zenon DEF u
    <3> QED
      BY <3>1, <3>4, <3>8 DEF QueueIsOK
  <2>3. ResultsOK'
    BY <1>1, <1>11, InvParts, ResultsKept
  <2> QED
    BY <2>1, <2>2, <2>3
<1>12. CallsOK(frames') /\ late' = late
  BY <1>1, InvParts
<1> QED
  BY <1>5, <1>6, <1>9, <1>11, <1>12 DEF LlInv

\* A queue's head is not answered by a request of the firmware.
LEMMA QueueAsked ==
    ASSUME LlHyp, NEW s \in Seq(Part), NEW u \in Seq(Part), NEW m, NEW c, NEW of, NEW n,
           MessageOf(m, "rqt", c, of, n), Joined(s, m, u), WellFormed(s),
           NEW q, NEW o, NEW P, QueueOK(s, q, o, P)
    PROVE  QueueOK(u, q, o, P)
<1>1. Added(s, u, "rqt") /\ m \in Seq(Part)
  <2>1. m \in Seq(Part)
    BY DEF MessageOf
  <2> QED
    BY <2>1, AddedIs
<1>2. /\ Once(s, "resp") => Once(u, "resp")
      /\ Has(u, "resp") <=> Has(s, "resp")
      /\ \A parts : Stored(s, "resp", parts) => Stored(u, "resp", parts)
  BY <1>1 DEF Added
<1>3. \A i \in 1..Len(u) : u[i].kind = "resp" => Waits(q, u[i].of)
  <2> SUFFICES ASSUME NEW i \in 1..Len(u), u[i].kind = "resp"
               PROVE  Waits(q, u[i].of)
    OBVIOUS
  <2>1. \/ i \in 1..Len(s) /\ u[i] = s[i]
        \/ i - Len(s) \in 1..Len(m) /\ u[i] = m[i - Len(s)]
    BY DEF Joined
  <2>2. CASE i \in 1..Len(s) /\ u[i] = s[i]
    BY <2>2 DEF QueueOK
  <2>3. CASE i - Len(s) \in 1..Len(m) /\ u[i] = m[i - Len(s)]
    <3>1. m[i - Len(s)].kind = "rqt"
      BY <2>3 DEF MessageOf
    <3> QED
      BY <2>3, <3>1
  <2> QED
    BY <2>1, <2>2, <2>3
<1>4. Unheard(u, q) <=> Unheard(s, q)
  BY <1>2 DEF Unheard
<1> QED
  BY <1>2, <1>3, <1>4, Zenon DEF QueueOK

LEMMA FirmwareAsksStep ==
    ASSUME LlHyp, LlInv, NEW c \in Ctxts, FirmwareAsks(c)
    PROVE  LlInv'
<1> DEFINE a == firmware.asked[c]
           k == a + 1
           m == EventMessage(c, k)
<1>1. /\ k <= Len(Events[c]) /\ ~firmware.waits[c] /\ firmware.says = <<>>
      /\ firmware' = [firmware EXCEPT !.says = m, !.asked[c] = k, !.waits[c] = TRUE]
      /\ UNCHANGED <<ll, box, frames, results, events, late>>
  BY DEF FirmwareAsks
<1>2. /\ firmware \in Firmwares /\ a \in Nat /\ firmware.waits[c] \in BOOLEAN
      /\ firmware.asked \in [Ctxts -> Nat] /\ firmware.waits \in [Ctxts -> BOOLEAN]
  BY InvParts, Fields DEF Typed, Firmwares
<1>3. k \in 1..Len(Events[c]) /\ k \in Nat
  <2>1. Len(Events[c]) \in Nat
    BY DEF LlHyp
  <2> QED
    BY <1>1, <1>2, <2>1
<1>4. MessageOf(m, "rqt", c, k, Events[c][k])
  BY <1>3, MessagesAre
<1> HIDE DEF m, k
<1>5. /\ m \in Seq(Part) /\ m # <<>> /\ 1 \in 1..Len(m) /\ \A i \in 1..Len(m) : m[i].ctx = c
  BY <1>4 DEF MessageOf
<1>6. /\ firmware' \in Firmwares /\ firmware'.says = m /\ firmware'.open = firmware.open
      /\ firmware'.asked = [firmware.asked EXCEPT ![c] = k] /\ firmware'.waits = [firmware.waits EXCEPT ![c] = TRUE]
  BY <1>1, <1>2, <1>3, <1>5 DEF Firmwares
<1>7. /\ firmware'.asked[c] = k /\ firmware'.waits[c] = TRUE
      /\ \A d \in Ctxts : d # c => firmware'.asked[d] = firmware.asked[d] /\ firmware'.waits[d] = firmware.waits[d]
  BY <1>2, <1>6
<1>8. Typed'
  BY <1>1, <1>6, InvParts DEF Typed
<1>9. /\ DataOK' /\ \A d \in Ctxts : d # c => StreamOf(d)' = StreamOf(d)
      /\ StreamOf(c)' \in Seq(Part) /\ Joined(StreamOf(c), m, StreamOf(c)')
  BY <1>1, <1>5, <1>6, SaidStreams
<1>10. \A kind \in {"rqt", "resp"}, d \in Ctxts :
           Places(frames', box'.mcu, kind, d) = Places(frames, box.mcu, kind, d)
  BY <1>1
<1> DEFINE s == StreamOf(c)
           u == StreamOf(c)'
<1>11. s \in Seq(Part)
  BY InvParts, StreamIn
<1>12. ASSUME NEW d \in Ctxts
       PROVE  EventsAreOK(d)'
  <2>1. CASE d # c
    <3>1. EventsKept(d)
      BY <1>1, <1>7, <1>9, <1>10, <2>1 DEF EventsKept
    <3> QED
      BY <3>1, InvParts, EventsAreKept
  <2>2. CASE d = c
    <3> DEFINE P == Places(frames, box.mcu, "resp", c)
               req == ll.req[c]
               given == events[c]
    <3>1. EventsOK(c, s, req, given, a, FALSE, P)
      <4>1. EventsOK(c, s, req, given, a, firmware.waits[c], P)
        BY InvParts DEF EventsAreOK
      <4>2. firmware.waits[c] = FALSE
        BY <1>1, <1>2
      <4> QED
        BY <4>1, <4>2
    <3>2. ll'.req[c] = req /\ events'[c] = given /\ Places(frames', box'.mcu, "resp", c) = P
      BY <1>1, <1>10
    <3>3. given \in Seq(Seq(Part))
      BY InvParts, Fields
    <3> HIDE DEF s, u, a, P, req, given
    <3>4. Joined(s, EventMessage(c, a + 1), u) /\ u \in Seq(Part) /\ a + 1 <= Len(Events[c])
      BY <1>1, <1>9 DEF m, k, s, u
    <3>5. EventsOK(c, u, req, given, a + 1, TRUE, P)
      BY <1>2, <1>11, <3>1, <3>3, <3>4, EventAsked
    <3>6. EventsAreOK(c)'
      BY <1>7, <3>2, <3>5, Zenon DEF EventsAreOK, u, k
    <3> QED
      BY <2>2, <3>6
  <2> QED
    BY <2>1, <2>2
<1>13. ASSUME late.reply = 0
       PROVE  (\A d \in Ctxts : QueueIsOK(d)') /\ ResultsOK'
  <2>1. ASSUME NEW d \in Ctxts, d # c
        PROVE  QueueIsOK(d)'
    <3>1. QueueKept(d)
      BY <1>1, <1>6, <1>9, <1>10, <2>1 DEF QueueKept
    <3> QED
      BY <1>13, <3>1, InvParts, QueueIsKept
  <2>2. QueueIsOK(c)'
    <3> DEFINE q == ll.queue[c]
               o == OpenIn(firmware.open, c)
               P == Places(frames, box.mcu, "rqt", c)
    <3>1. ll.has_last[c] /\ NodesOK(c, q, results) /\ QueueOK(s, q, o, P)
      BY <1>13, InvParts DEF QueueIsOK
    <3>2. WellFormed(s)
      BY InvParts DEF EventsAreOK, EventsOK, StreamIs
    <3>3. /\ Places(frames', box'.mcu, "rqt", c) = P /\ ll'.queue[c] = q /\ OpenIn(firmware'.open, c) = o
          /\ UNCHANGED <<ll, results>>
      BY <1>1, <1>6, <1>10
    <3>4. Joined(s, m, u) /\ u \in Seq(Part)
      BY <1>9
    <3> HIDE DEF s, u, q, o, P
    <3>5. QueueOK(u, q, o, P)
      BY <1>4, <1>11, <3>1, <3>2, <3>4, QueueAsked
    <3>6. QueueOK(StreamOf(c)', ll'.queue[c], OpenIn(firmware'.open, c), Places(frames', box'.mcu, "rqt", c))
      BY <3>3, <3>5, Zenon DEF u
    <3> QED
      BY <3>1, <3>3, <3>6 DEF QueueIsOK
  <2>3. ResultsOK'
    BY <1>1, <1>13, InvParts, ResultsKept
  <2> QED
    BY <2>1, <2>2, <2>3
<1>14. CallsOK(frames') /\ late' = late
  BY <1>1, InvParts
<1> QED
  BY <1>8, <1>9, <1>12, <1>13, <1>14 DEF LlInv
\* The firmware takes the mailbox.
LEMMA FirmwareTakesStep ==
    ASSUME LlHyp, LlInv, FirmwareTakes
    PROVE  LlInv'
<1>1. PICK p : p = box.mcu
  OBVIOUS
<1> DEFINE c == p.ctx
           whole == IF p.n = 1 THEN <<p>> ELSE Append(firmware.part[c], p)
           part2 == IF p.last THEN <<>> ELSE whole
           open2 == IF p.last THEN firmware.open \cup {p.of} ELSE firmware.open
<1>2. /\ p # NoPart /\ box.mcu = p /\ firmware.says = <<>> /\ box' = [box EXCEPT !.mcu = NoPart]
      /\ firmware' = IF p.kind = "resp" THEN [firmware EXCEPT !.waits[c] = FALSE]
                     ELSE [firmware EXCEPT !.part[c] = part2, !.open = open2]
      /\ UNCHANGED <<ll, frames, results, events, late>>
  BY <1>1 DEF FirmwareTakes
<1>3. /\ p \in Part /\ c \in Ctxts /\ box \in Boxes /\ firmware \in Firmwares
      /\ IsRequestPart(p) \/ IsStatusPart(p)
  <2>1. p \in Part /\ (IsRequestPart(p) \/ IsStatusPart(p))
    BY <1>2, InvParts, Fields DEF DataOK
  <2> QED
    BY <2>1, InvParts DEF Typed, Part
<1>4. \/ p.kind = "resp" /\ p.last
      \/ p.kind = "rqt" /\ p.of \in Rqts /\ RqtContext[p.of] = c
  <2>1. CASE IsRequestPart(p)
    BY <2>1, PartsAre
  <2>2. CASE IsStatusPart(p)
    BY <2>2 DEF IsStatusPart
  <2> QED
    BY <1>3, <2>1, <2>2
<1>5. box' \in Boxes /\ box'.mcu = NoPart /\ box'.p0 = box.p0
  BY <1>2, <1>3 DEF Boxes
<1>6. /\ firmware' \in Firmwares /\ firmware'.says = firmware.says /\ firmware'.asked = firmware.asked
      /\ p.kind = "resp" => /\ firmware'.open = firmware.open
                            /\ firmware'.waits = [firmware.waits EXCEPT ![c] = FALSE]
      /\ p.kind = "rqt" => firmware'.open = open2 /\ firmware'.waits = firmware.waits
  <2>1. CASE p.kind = "resp"
    <3>1. firmware' = [firmware EXCEPT !.waits[c] = FALSE]
      BY <1>2, <2>1
    <3> HIDE DEF open2
    <3> QED
      BY <1>3, <2>1, <3>1 DEF Firmwares
  <2>2. CASE p.kind = "rqt"
    <3>1. firmware.part[c] \in Seq(Part) /\ firmware.open \in SUBSET Rqts
      BY <1>3, InvParts, Fields
    <3>2. whole \in Seq(Part)
      BY <1>3, <3>1
    <3>3. open2 \in SUBSET Rqts
      BY <1>4, <2>2, <3>1
    <3> HIDE DEF whole
    <3>4. part2 \in Seq(Part)
      BY <3>2
    <3>5. firmware' = [firmware EXCEPT !.part[c] = part2, !.open = open2]
      BY <1>2, <2>2
    <3> HIDE DEF part2, open2
    <3> QED
      BY <1>3, <2>2, <3>3, <3>4, <3>5 DEF Firmwares
  <2> QED
    BY <1>4, <2>1, <2>2
<1> HIDE DEF part2, whole
<1>7. Typed'
  BY <1>2, <1>5, <1>6, InvParts DEF Typed
<1>8. \A d \in Ctxts : StreamOf(d)' = StreamOf(d) /\ Index(d)' = Index(d)
  <2> SUFFICES ASSUME NEW d \in Ctxts
               PROVE  StreamOf(d)' = StreamOf(d) /\ Index(d)' = Index(d)
    OBVIOUS
  <2> QED
    BY <1>2, <1>5, <1>6, StreamKept
<1>9. DataOK'
  BY <1>2, <1>5, <1>6, <1>8, InvParts DEF DataOK
\* The mailbox is the place of what it ends; there is none of a message that goes on.
<1>10. ASSUME NEW kind \in {"rqt", "resp"}, NEW d \in Ctxts
       PROVE  /\ Places(frames', box'.mcu, kind, d) = OnesIn(frames, kind, d)
              /\ OnesIn(frames, kind, d) \subseteq Places(frames, box.mcu, kind, d)
              /\ p.last /\ p.kind = kind /\ c = d =>
                     /\ <<0, p.of>> \in Places(frames, box.mcu, kind, d)
                     /\ <<0, p.of>> \notin OnesIn(frames, kind, d)
  <2>1. InMail(NoPart, kind, d) = {}
    BY DEF InMail
  <2>2. Places(frames', box'.mcu, kind, d) = OnesIn(frames, kind, d)
    <3>1. Places(frames, NoPart, kind, d) = OnesIn(frames, kind, d)
      BY <2>1 DEF Places
    <3>2. frames' = frames /\ box'.mcu = NoPart
      BY <1>2, <1>5
    <3> QED
      BY <3>1, <3>2, Zenon
  <2>3. \A x \in OnesIn(frames, kind, d) : x[1] # 0
    <3>1. Len(frames) \in Nat
      BY InvParts, Fields
    <3>2. ASSUME NEW x \in OnesIn(frames, kind, d)
          PROVE  x[1] # 0
      <4>1. PICK k \in 1..Len(frames) : x = <<k, frames[k].parts[1].of>>
        BY <3>2 DEF OnesIn
      <4>2. x[1] = k
        BY <4>1
      <4> QED
        BY <3>1, <4>2
    <3> QED
      BY <3>2
  <2>4. p.last /\ p.kind = kind /\ c = d => <<0, p.of>> \in InMail(p, kind, d)
    BY <1>2 DEF InMail
  <2>5. <<0, p.of>>[1] = 0
    OBVIOUS
  <2> QED
    BY <1>2, <2>2, <2>3, <2>4, <2>5 DEF Places
<1>11. ASSUME NEW kind \in {"rqt", "resp"}, NEW d \in Ctxts,
              \A x, y \in Places(frames, box.mcu, kind, d) : x = y, p.last, p.kind = kind, c = d
       PROVE  Places(frames', box'.mcu, kind, d) = {}
  <2> DEFINE P == Places(frames, box.mcu, kind, d)
             O == OnesIn(frames, kind, d)
             y == <<0, p.of>>
  <2>1. Places(frames', box'.mcu, kind, d) = O /\ O \subseteq P /\ y \in P /\ y \notin O
    BY <1>10, <1>11
  <2>2. \A x1, x2 \in P : x1 = x2
    BY <1>11
  <2> HIDE DEF P, O, y
  <2> QED
    BY <2>1, <2>2
<1>12. ASSUME NEW d \in Ctxts
       PROVE  EventsAreOK(d)'
  <2>1. CASE p.kind = "rqt" \/ d # c
    <3>1. firmware'.waits[d] = firmware.waits[d]
      <4>1. firmware.waits \in [Ctxts -> BOOLEAN]
        BY <1>3 DEF Firmwares
      <4> QED
        BY <1>4, <1>6, <2>1, <4>1
    <3>2. Places(frames', box'.mcu, "resp", d) \subseteq Places(frames, box.mcu, "resp", d)
      BY <1>10
    <3>3. EventsKept(d)
      BY <1>2, <1>6, <1>8, <3>1, <3>2 DEF EventsKept
    <3> QED
      BY <3>3, InvParts, EventsAreKept
  <2>2. CASE p.kind = "resp" /\ d = c
    <3> DEFINE P == Places(frames, box.mcu, "resp", c)
               Q == Places(frames', box'.mcu, "resp", c)
               s == StreamOf(c)
               req == ll.req[c]
               given == events[c]
               a == firmware.asked[c]
               w == firmware.waits[c]
    <3>1. EventsOK(c, s, req, given, a, w, P)
      BY <1>3, InvParts DEF EventsAreOK
    <3>2. \A x, y \in P : x = y
      BY <3>1, Zenon DEF EventsOK
    <3>3. p.last
      BY <1>4, <2>2
    <3>4. Q = {} /\ P # {}
      <4>1. Q = {}
        BY <1>3, <1>11, <2>2, <3>2, <3>3
      <4>2. <<0, p.of>> \in P
        BY <1>3, <1>10, <2>2, <3>3
      <4> QED
        BY <4>1, <4>2
    <3>5. firmware'.waits[c] = FALSE /\ firmware'.asked[c] = a
      <4>1. firmware.waits \in [Ctxts -> BOOLEAN]
        BY <1>3 DEF Firmwares
      <4> QED
        BY <1>3, <1>6, <2>2, <4>1
    <3>6. StreamOf(c)' = s /\ ll'.req[c] = req /\ events'[c] = given
      BY <1>2, <1>3, <1>8
    <3> HIDE DEF P, Q, s, req, given, a, w
    <3>7. ~Has(s, "rqt")
      BY <3>1, <3>4 DEF EventsOK
    <3>8. EventsOK(c, s, req, given, a, FALSE, Q)
      <4>1. \A x, y \in Q : x = y
        BY <3>4
      <4> QED
        BY <3>1, <3>4, <3>7, <4>1, Zenon DEF EventsOK
    <3>9. EventsAreOK(c)'
      BY <3>5, <3>6, <3>8, Zenon DEF EventsAreOK, Q
    <3> QED
      BY <2>2, <3>9
  <2> QED
    BY <1>4, <2>1, <2>2
<1>13. ASSUME late.reply = 0
       PROVE  (\A d \in Ctxts : QueueIsOK(d)') /\ ResultsOK'
  <2>1. ASSUME NEW d \in Ctxts, ~(p.kind = "rqt" /\ p.last /\ d = c)
        PROVE  QueueIsOK(d)'
    <3>1. OpenIn(firmware'.open, d) = OpenIn(firmware.open, d)
      <4>1. CASE p.kind = "resp"
        BY <1>6, <4>1
      <4>2. CASE p.kind = "rqt"
        <5>1. firmware'.open = firmware.open \/ (d # c /\ firmware'.open = firmware.open \cup {p.of})
          BY <1>6, <2>1, <4>2
        <5>2. RqtContext[p.of] = c
          BY <1>4, <4>2
        <5> QED
          BY <5>1, <5>2 DEF OpenIn
      <4> QED
        BY <1>4, <4>1, <4>2
    <3>2. Places(frames', box'.mcu, "rqt", d) \subseteq Places(frames, box.mcu, "rqt", d)
      BY <1>10
    <3>3. QueueKept(d)
      BY <1>2, <1>8, <3>1, <3>2 DEF QueueKept
    <3> QED
      BY <1>13, <3>3, InvParts, QueueIsKept
  <2>2. ASSUME p.kind = "rqt", p.last
        PROVE  QueueIsOK(c)'
    <3> DEFINE q == ll.queue[c]
               o == OpenIn(firmware.open, c)
               P == Places(frames, box.mcu, "rqt", c)
               Q == Places(frames', box'.mcu, "rqt", c)
               s == StreamOf(c)
    <3>1. ll.has_last[c] /\ NodesOK(c, q, results) /\ QueueOK(s, q, o, P)
      BY <1>3, <1>13, InvParts DEF QueueIsOK
    <3>2. \A x, y \in P : x = y
      BY <3>1, Zenon DEF QueueOK
    <3>3. Q = {} /\ <<0, p.of>> \in P /\ <<0, p.of>>[2] = p.of
      <4>1. Q = {}
        BY <1>3, <1>11, <2>2, <3>2
      <4>2. <<0, p.of>> \in P
        BY <1>3, <1>10, <2>2
      <4> QED
        BY <4>1, <4>2
    <3>4. firmware'.open = firmware.open \cup {p.of} /\ p.of \in Rqts /\ RqtContext[p.of] = c
      BY <1>4, <1>6, <2>2
    <3>5. OpenIn(firmware'.open, c) = o \cup {p.of}
      BY <3>4 DEF OpenIn
    <3>6. StreamOf(c)' = s /\ ll'.queue[c] = q /\ UNCHANGED <<ll, results>>
      BY <1>2, <1>3, <1>8
    <3> HIDE DEF q, o, P, Q, s
    <3>7. Waits(q, p.of) /\ o = {} /\ Unheard(s, q)
      BY <3>1, <3>3, Zenon DEF QueueOK
    <3>8. OpenIn(firmware'.open, c) = {p.of}
      BY <3>5, <3>7
    <3>9. QueueOK(s, q, {p.of}, Q)
      <4>1. \A r \in {p.of} : Waits(q, r) /\ {p.of} = {r} /\ Unheard(s, q)
        BY <3>7
      <4>2. \A x, y \in Q : x = y
        BY <3>3
      <4>3. \A x \in Q : Waits(q, x[2]) /\ {p.of} = {} /\ Unheard(s, q)
        BY <3>3
      <4> QED
        BY <3>1, <4>1, <4>2, <4>3, Zenon DEF QueueOK
    <3>10. QueueOK(StreamOf(c)', ll'.queue[c], OpenIn(firmware'.open, c), Places(frames', box'.mcu, "rqt", c))
      BY <3>6, <3>8, <3>9, Zenon DEF Q
    <3> QED
      BY <3>1, <3>6, <3>10 DEF QueueIsOK
  <2>3. \A d \in Ctxts : QueueIsOK(d)'
    BY <2>1, <2>2
  <2>4. ResultsOK'
    BY <1>2, <1>13, InvParts, ResultsKept
  <2> QED
    BY <2>3, <2>4
<1>14. CallsOK(frames') /\ late' = late
  BY <1>2, InvParts
<1> QED
  BY <1>7, <1>9, <1>12, <1>13, <1>14 DEF LlInv

-----------------------------------------------------------------------------
(* The theorem *)

LEMMA Initially ==
    ASSUME LlHyp, LlInit
    PROVE  LlInv
<1>1. /\ ll = [queue |-> [c \in Ctxts |-> <<>>], has_last |-> [c \in Ctxts |-> TRUE],
               data_queue |-> [c \in Ctxts |-> <<>>], rqt_index |-> [c \in Ctxts |-> 0],
               req |-> [c \in Ctxts |-> <<>>], queued_data |-> FALSE]
      /\ box = [mcu |-> NoPart, p0 |-> NoPart] /\ frames = <<>>
      /\ firmware = [says |-> <<>>, part |-> [c \in Ctxts |-> <<>>], open |-> {},
                     asked |-> [c \in Ctxts |-> 0], waits |-> [c \in Ctxts |-> FALSE]]
      /\ results = [r \in Rqts |-> [ret |-> "not sent", resp |-> <<>>]]
      /\ events = [c \in Ctxts |-> <<>>] /\ late = [send |-> 0, reply |-> 0]
  BY DEF LlInit
<1>2. Typed
  <2>1. ll \in Lls
    <3>1. /\ [c \in Ctxts |-> <<>>] \in [Ctxts -> Seq(Node)] /\ [c \in Ctxts |-> TRUE] \in [Ctxts -> BOOLEAN]
          /\ [c \in Ctxts |-> <<>>] \in [Ctxts -> Seq(Part)] /\ [c \in Ctxts |-> 0] \in [Ctxts -> Nat]
      OBVIOUS
    <3> QED
      BY <1>1, <3>1 DEF Lls
  <2>2. firmware \in Firmwares
    <3>1. /\ <<>> \in Seq(Part) /\ [c \in Ctxts |-> <<>>] \in [Ctxts -> Seq(Part)] /\ {} \in SUBSET Rqts
          /\ [c \in Ctxts |-> 0] \in [Ctxts -> Nat] /\ [c \in Ctxts |-> FALSE] \in [Ctxts -> BOOLEAN]
      OBVIOUS
    <3> QED
      BY <1>1, <3>1 DEF Firmwares
  <2>3. box \in Boxes
    BY <1>1 DEF Boxes
  <2>4. results \in [Rqts -> Outcomes]
    <3>1. [ret |-> "not sent", resp |-> <<>>] \in Outcomes
      BY DEF Outcomes, Results
    <3> QED
      BY <1>1, <3>1
  <2>5. events \in [Ctxts -> Seq(Seq(Part))]
    <3>1. <<>> \in Seq(Seq(Part))
      OBVIOUS
    <3> QED
      BY <1>1, <3>1
  <2>6. frames \in Seq(Frame) /\ late \in [send : Nat, reply : Nat]
    <3>1. <<>> \in Seq(Frame) /\ [send |-> 0, reply |-> 0] \in [send : Nat, reply : Nat]
      OBVIOUS
    <3>2. frames = <<>> /\ late = [send |-> 0, reply |-> 0]
      BY <1>1
    <3> QED
      BY <3>1, <3>2, Zenon
  <2> QED
    BY <2>1, <2>2, <2>3, <2>4, <2>5, <2>6 DEF Typed
<1>3. CallsOK(frames)
  <2>1. CallsOK(<<>>)
    BY DEF CallsOK
  <2>2. frames = <<>>
    BY <1>1
  <2> QED
    BY <2>1, <2>2, Zenon
<1>4. \A c \in Ctxts : ll.data_queue[c] = <<>> /\ Index(c) = 0 /\ c \notin Processing(frames)
  <2> SUFFICES ASSUME NEW c \in Ctxts
               PROVE  ll.data_queue[c] = <<>> /\ Index(c) = 0 /\ c \notin Processing(frames)
    OBVIOUS
  <2>1. Processing(<<>>) = {}
    BY DEF Processing
  <2>2. frames = <<>>
    BY <1>1
  <2>3. c \notin Processing(frames)
    BY <2>1, <2>2
  <2>4. Index(c) = 0
    BY <2>3 DEF Index
  <2>5. ll.data_queue = [d \in Ctxts |-> <<>>]
    BY <1>1
  <2> QED
    BY <2>3, <2>4, <2>5
<1>5. DataOK
  <2>1. firmware.says = <<>> /\ box.mcu = NoPart
    BY <1>1
  <2> QED
    BY <1>4, <2>1 DEF DataOK
<1>6. \A c \in Ctxts : StreamOf(c) = <<>>
  <2> SUFFICES ASSUME NEW c \in Ctxts
               PROVE  StreamOf(c) = <<>>
    OBVIOUS
  <2>1. StreamOf(c) = Stream(<<>>, 0, NoPart, <<>>, c)
    <3>1. box.p0 = NoPart /\ firmware.says = <<>>
      BY <1>1
    <3> QED
      BY <1>4, <3>1 DEF StreamOf
  <2>2. Unread(<<>>, 0) = <<>>
    <3>1. <<>> \in Seq(Part) /\ 0 \in Nat /\ 0 <= Len(<<>>)
      OBVIOUS
    <3>2. Rest(<<>>, 0, Unread(<<>>, 0))
      BY <3>1, UnreadIs
    <3>3. Len(Unread(<<>>, 0)) = 0 /\ Unread(<<>>, 0) \in Seq(Part)
      BY <3>2 DEF Rest
    <3> QED
      BY <3>3, EmptySeq
  <2>3. InBox(NoPart, c) = <<>> /\ Said(<<>>, c) = <<>>
    BY DEF InBox, Said
  <2>4. Stream(<<>>, 0, NoPart, <<>>, c) = <<>> \o (<<>> \o <<>>)
    BY <2>2, <2>3, Zenon DEF Stream
  <2>5. <<>> \o (<<>> \o <<>>) = <<>>
    OBVIOUS
  <2> QED
    BY <2>1, <2>4, <2>5
<1>7. \A kind \in {"rqt", "resp"}, c \in Ctxts : Places(frames, box.mcu, kind, c) = {}
  <2> SUFFICES ASSUME NEW kind \in {"rqt", "resp"}, NEW c \in Ctxts
               PROVE  Places(frames, box.mcu, kind, c) = {}
    OBVIOUS
  <2>1. OnesIn(<<>>, kind, c) = {}
    BY DEF OnesIn
  <2>2. InMail(NoPart, kind, c) = {}
    BY DEF InMail
  <2>3. Places(<<>>, NoPart, kind, c) = {}
    BY <2>1, <2>2 DEF Places
  <2>4. frames = <<>> /\ box.mcu = NoPart
    BY <1>1
  <2> QED
    BY <2>3, <2>4, Zenon
<1>8. ASSUME NEW c \in Ctxts
      PROVE  EventsAreOK(c)
  <2>1. /\ ll.req[c] = <<>> /\ events[c] = <<>> /\ firmware.asked[c] = 0 /\ firmware.waits[c] = FALSE
        /\ Places(frames, box.mcu, "resp", c) = {} /\ StreamOf(c) = <<>>
    BY <1>1, <1>6, <1>7
  <2>2. EventsOK(c, <<>>, <<>>, <<>>, 0, FALSE, {})
    <3>1. StreamIs(c, <<>>, 0) /\ ~Has(<<>>, "rqt") /\ Once(<<>>, "rqt") /\ Stored(<<>>, "rqt", <<>>)
      BY DEF StreamIs, WellFormed, Has, Once, Stored
    <3>2. Len(Events[c]) \in Nat /\ Len(<<>>) = 0
      BY DEF LlHyp
    <3> QED
      BY <3>1, <3>2 DEF EventsOK
  <2> QED
    BY <2>1, <2>2, Zenon DEF EventsAreOK
<1>9. ASSUME NEW c \in Ctxts
      PROVE  QueueIsOK(c)
  <2>1. /\ ll.has_last[c] /\ ll.queue[c] = <<>> /\ OpenIn(firmware.open, c) = {}
        /\ Places(frames, box.mcu, "rqt", c) = {} /\ StreamOf(c) = <<>>
    BY <1>1, <1>6, <1>7 DEF OpenIn
  <2>2. QueueOK(<<>>, <<>>, {}, {})
    BY DEF QueueOK, Once
  <2>3. NodesOK(c, <<>>, results)
    BY DEF NodesOK
  <2> QED
    BY <2>1, <2>2, <2>3, Zenon DEF QueueIsOK
<1>10. ResultsOK
  BY <1>1 DEF ResultsOK, ResponseIsOwn
<1> QED
  BY <1>2, <1>3, <1>5, <1>8, <1>9, <1>10 DEF LlInv

LEMMA Idling ==
    ASSUME LlHyp, LlInv, UNCHANGED llVars
    PROVE  LlInv'
<1>1. /\ ll' = ll /\ box' = box /\ frames' = frames /\ firmware' = firmware
      /\ results' = results /\ events' = events /\ late' = late
  BY DEF llVars
<1>2. Same(frames, frames')
  BY <1>1, InvParts, Fields DEF Same
<1>3. Typed'
  BY <1>1, InvParts DEF Typed
<1> QED
  BY <1>1, <1>2, <1>3, QuietStep

LEMMA Steps ==
    ASSUME LlHyp, LlInv, [LlNext]_llVars
    PROVE  LlInv'
<1>1. ASSUME NEW r \in Rqts, LLSendRequest(r)
      PROVE  LlInv'
  BY <1>1, LLSendRequestStep
<1>2. CASE SendNextRequest
  <2>1. Top.ctx \in Ctxts
    <3>1. frames \in Seq(Frame) /\ frames # <<>> /\ Top = Last(frames) /\ Top.op = "next"
      BY <1>2, InvParts, Fields DEF SendNextRequest, Runs, Top
    <3>2. Top \in Frame
      BY <3>1, TopIs
    <3> QED
      BY <3>1, <3>2, FrameIs DEF FrameFields
  <2> QED
    BY <1>2, <2>1, SendNextRequestStep
<1>3. CASE Host
  BY <1>2, <1>3, ReadIntrStatusStep, WriteMailboxStep, EnterHandlerStep, ProcessDataStep,
     NextContextStep, ReplyCameStep DEF Host
<1>4. CASE Firmware
  BY <1>4, FirmwarePutsStep, FirmwareTakesStep, FirmwareAnswersStep DEF Firmware
<1>5. CASE MailBoxInterrupt
  BY <1>5, MailBoxInterruptStep
<1>6. CASE LLSendTimeout
  BY <1>6, LLSendTimeoutStep
<1>7. CASE LLReplyTimeout
  BY <1>7, LLReplyTimeoutStep
<1>8. ASSUME NEW c \in Ctxts, FirmwareAsks(c)
      PROVE  LlInv'
  BY <1>8, FirmwareAsksStep
<1>9. CASE UNCHANGED llVars
  BY <1>9, Idling
<1> QED
  BY <1>1, <1>3, <1>4, <1>5, <1>6, <1>7, <1>8, <1>9 DEF LlNext

\* Requests of the firmware are given to their callbacks whole and in order, responses to
\* their own requests, and none is forgotten.
LEMMA MailboxImplied ==
    ASSUME LlHyp, LlInv
    PROVE  MailboxIsTrue
<1>1. ASSUME NEW c \in Ctxts
      PROVE  /\ Len(events[c]) <= firmware.asked[c]
             /\ \A k \in DOMAIN events[c] : events[c][k] = EventMessage(c, k)
  <2> DEFINE given == events[c]
             a == firmware.asked[c]
             s == StreamOf(c)
  <2>1. given \in Seq(Seq(Part)) /\ a \in Nat
    BY InvParts, Fields
  <2>2. /\ a = Len(given) + (IF Has(s, "rqt") THEN 1 ELSE 0)
        /\ \A k \in 1..Len(given) : given[k] = EventMessage(c, k)
    BY InvParts DEF EventsAreOK, EventsOK
  <2> HIDE DEF given, a, s
  <2>3. Len(given) \in Nat /\ DOMAIN given = 1..Len(given)
    BY <2>1
  <2>4. Len(given) <= a
    <3>1. a = Len(given) + 1 \/ a = Len(given) + 0
      <4>1. CASE Has(s, "rqt")
        BY <2>2, <4>1, Zenon
      <4>2. CASE ~Has(s, "rqt")
        BY <2>2, <4>2, Zenon
      <4> QED
        BY <4>1, <4>2
    <3> DEFINE n == Len(given)
    <3>2. n \in Nat /\ a \in Nat /\ (a = n + 1 \/ a = n + 0)
      BY <2>1, <2>3, <3>1
    <3> HIDE DEF n
    <3>3. n <= a
      BY <3>2
    <3> QED
      BY <3>3 DEF n
  <2> QED
    BY <2>2, <2>3, <2>4 DEF given, a
<1>2. late.reply = 0 => ResponseIsOwn /\ \A r \in Rqts : results[r].ret = "sent" => IsInQueue(r)
  BY InvParts DEF ResultsOK
<1> QED
  BY <1>1, <1>2 DEF MailboxIsTrue

\* For any contexts, requests, messages and timeouts: whatever is queued while somebody
\* waits for the mailbox, each request of the firmware reaches its callback once, whole and
\* in order, and as long as no reply is late each response reaches its own request and
\* every request that is sent is in its queue (cyaslowlevel.c).
THEOREM MailboxResult == ASSUME LlHyp PROVE LlSpec => []MailboxIsTrue
<1>1. LlInit => LlInv
  BY Initially
<1>2. LlInv /\ [LlNext]_llVars => LlInv'
  BY Steps
<1>3. LlInv => MailboxIsTrue
  BY MailboxImplied
<1> QED
  BY <1>1, <1>2, <1>3, PTL DEF LlSpec
=============================================================================
