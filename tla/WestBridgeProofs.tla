-------------------------- MODULE WestBridgeProofs --------------------------
(* Proofs about the services of the West Bridge's storage: each call is given the answer
   to its own request, and each callback is called once; the library knows when the storage
   runs, and what media there are.

   WbServices, for any devices, media, numbers of calls and of changes, and any kinds of
   calls from the thread and from callbacks, whenever they come.  The library does not say
   whom a reply is for: it is handled as that of the first request, and given to the first
   node of func_cbs_stor.  So the invariant is about order: the nodes are those of the open
   asynchronous calls, and as many as there are asynchronous requests, but for that of the
   thread while it has inserted its node and not sent its request.  The node and the
   request of the same place are of one call, or both of calls that have overtaken one
   another: then each is called once, and may be given the other's answer.

   What is known is true until something happens that the code leaves open.  There is one
   start or stop under way, or one read: the tests at the beginning of a call see to it.  A
   reply tells what was true when it was sent; whatever has changed since is told behind
   it, and a device whose change is told is forgotten before it is used. *)
EXTENDS WbServices, TLAPS

-----------------------------------------------------------------------------
(* The invariant *)

Ways == {"sync", "async"}
Places == {"idle", "begin", "send", "wait", "woken", "use", "drain"}
Rets == {"none", "SUCCESS", "INVALID_RESPONSE", "NOT_ACQUIRED", "NOT_RELEASED", "ERROR"}
Replies == [ok : BOOLEAN, value : Nat]
CallRecords == [kind : Services, device : Devices, way : Ways, ret : Rets, data : Nat, times : Nat,
                size : Nat, said : Replies]
Requests == [code : Services \cup {"size"}, of : Nat, device : Devices, way : Ways]
Messages == [changed : BOOLEAN, device : Devices, reply : Replies]

SvcFields == {"count", "pending", "info", "rw", "wait", "async", "registered", "nodes", "failed"}
StateTypes(s) ==
    /\ DOMAIN s = {"svc", "rqts", "calls"} /\ DOMAIN s.svc = SvcFields
    /\ s.svc.count \in Int /\ s.svc.info \in [Devices -> Nat] /\ s.svc.nodes \in Seq(Nat)
    /\ s.calls \in Seq(CallRecords) /\ s.rqts \in Seq(Requests)
\* What the library knows differs in these fields only.
Differ(s, t, fields) == \A f \in SvcFields \ fields : t.svc[f] = s.svc[f]
Grown(q, r, x) == Len(r) = Len(q) + 1 /\ r[Len(q) + 1] = x /\ \A m \in 1..Len(q) : r[m] = q[m]
Altered(q, r, n, x) == Len(r) = Len(q) /\ r[n] = x /\ \A m \in 1..Len(q) : m # n => r[m] = q[m]
SameLists(s, t) == t.rqts = s.rqts /\ t.calls = s.calls
SvcTypes ==
    /\ DOMAIN svc = SvcFields
    /\ svc.count \in Int /\ svc.info \in [Devices -> Nat] /\ svc.nodes \in Seq(Nat)
CardTypes ==
    /\ DOMAIN card = {"running", "media", "mail", "told", "changes"}
    /\ card.media \in [Devices -> Nat] /\ card.mail \in Seq(Messages)
    /\ card.running \in BOOLEAN
SeqTypes == calls \in Seq(CallRecords) /\ rqts \in Seq(Requests)
ThreadTypes == svcThread \in [at : Places, call : Nat]
Types == SvcTypes /\ CardTypes /\ SeqTypes /\ ThreadTypes

\* The thread has a call that is not queued.
Holds(n) == svcThread.at \in {"send", "woken", "use"} /\ svcThread.call = n
Away == svcThread.at \in {"idle", "begin"}
Inserted(k) == rqts[k].way = "async" /\ rqts[k].code # "read"

\* A request is of a call, and of an open one unless a callback comes between.
RequestFits(k) ==
    LET n == rqts[k].of
        c == calls[n]
    IN  /\ n \in 1..Len(calls) /\ c.way = rqts[k].way /\ c.device = rqts[k].device
        /\ rqts[k].code = c.kind \/ (rqts[k].code = "size" /\ c.kind = "read" /\ c.way = "sync")
        /\ ~Inserted(k) => c.ret = "none" /\ ~Holds(n)
RequestsFit ==
    /\ \A k \in 1..Len(rqts) : RequestFits(k)
    /\ \A j, k \in 1..Len(rqts) : ~Inserted(j) /\ rqts[j].of = rqts[k].of => j = k
    /\ \A k \in 1..Len(rqts) : rqts[k].way = "sync" /\ rqts[k].code # "read" =>
           svcThread.at = "wait" /\ svcThread.call = rqts[k].of

ThreadFits ==
    ~Away =>
        /\ svcThread.call \in 1..Len(calls)
        /\ svcThread.at = "wait" =>
               \E k \in 1..Len(rqts) : rqts[k].of = svcThread.call /\ rqts[k].code # "read"
        /\ LET c == calls[svcThread.call]
           IN  /\ svcThread.at \in {"wait", "woken", "use"} => c.ret = "none"
               /\ svcThread.at = "send" => c.way = "async" /\ c.kind # "read"
               /\ svcThread.at \in {"wait", "woken", "drain"} => c.way = "sync"
               /\ svcThread.at \in {"use", "drain"} => c.kind = "read"
BegunFits == svcThread.at = "begin" => begun.kind \in Services \cap {"start", "stop"} /\ begun.way \in Ways

\* The nodes are of open asynchronous calls, each of one.
NodeFits(n) ==
    n \in 1..Len(calls) /\ calls[n].ret = "none" /\ calls[n].way = "async" /\ calls[n].kind # "read"
NodesFit ==
    /\ \A i, j \in 1..Len(svc.nodes) : i < j => svc.nodes[i] < svc.nodes[j]
    /\ \A i \in 1..Len(svc.nodes) : NodeFits(svc.nodes[i])
LateFit == \A n \in lateStops : n \in 1..Len(calls) /\ calls[n].ret # "none"

\* f tells the place of an asynchronous request among them: the node of this place is its
\* own, or that of one that it has overtaken or been overtaken by.
Mated(set, m, n) == m = n \/ (m \in set /\ n \in set)
Sent == IF svcThread.at = "send" THEN Len(svc.nodes) - 1 ELSE Len(svc.nodes)
Mates(f) ==
    /\ \A k \in 1..Len(rqts) : Inserted(k) => f[k] \in 1..Sent /\ Mated(overtaken, svc.nodes[f[k]], rqts[k].of)
    /\ \A j, k \in 1..Len(rqts) : j < k /\ Inserted(j) /\ Inserted(k) => f[j] < f[k]
    /\ \A i \in 1..Sent : \E k \in 1..Len(rqts) : Inserted(k) /\ f[k] = i
HandFits == svcThread.at = "send" => svc.nodes # <<>> /\ Mated(overtaken, svc.nodes[Len(svc.nodes)], svcThread.call)
NodesMate == HandFits /\ \E f : Mates(f)

IsReply(k) == ~card.mail[k].changed
RepliesAreDue ==
    \A k \in 1..Len(card.mail) : IsReply(k) =>
        rqts # <<>> /\ \A j \in 1..Len(card.mail) : IsReply(j) => j = k

ListsFit == RequestsFit /\ ThreadFits /\ NodesFit /\ NodesMate
AInv == Types /\ BegunFits /\ ListsFit /\ LateFit /\ RepliesAreDue /\ CallbacksAreOwn

\* When nothing has been overtaken, every request is of an open call, each of one.
RequestIsOwn(k) == RequestFits(k) /\ ~Holds(rqts[k].of) /\ calls[rqts[k].of].ret = "none"
RequestsAreOwn ==
    /\ \A k \in 1..Len(rqts) : RequestIsOwn(k)
    /\ \A j, k \in 1..Len(rqts) : rqts[j].of = rqts[k].of => j = k
    /\ \A k \in 1..Len(rqts) : rqts[k].way = "sync" /\ rqts[k].code # "read" =>
           svcThread.at = "wait" /\ svcThread.call = rqts[k].of
ThreadIsOwn == ThreadFits /\ (~Away /\ svcThread.at # "drain" => calls[svcThread.call].ret = "none")
OwnInv == RequestsAreOwn /\ ThreadIsOwn

-----------------------------------------------------------------------------
(* The invariant of what is known: the count, the descriptions *)

Change2 == {"start", "stop"}
Queries == {"device", "unit", "size"}

\* A call that is not answered, of the thread or of a callback.
Pend(n) == n \in 1..Len(calls) /\ calls[n].ret = "none"
Starts(n) == Pend(n) /\ calls[n].kind = "start"
Stops(n) == Pend(n) /\ calls[n].kind = "stop"
Reads(n) == Pend(n) /\ calls[n].kind = "read"
IsQueued(n) == \E k \in 1..Len(rqts) : rqts[k].of = n
\* The firmware's reply to it is there, and not handled.
Answered(n) == \/ svcThread.at = "woken" /\ svcThread.call = n
               \/ \E k \in 1..Len(card.mail) : IsReply(k) /\ rqts[1].of = n

Placed == \A n : Pend(n) => IsQueued(n) \/ Holds(n)

\* One start or stop is pending, if any.
PendingIsOne ==
    /\ \A n : Starts(n) \/ Stops(n) => svc.pending
    /\ \A m, n : (Starts(m) \/ Stops(m)) /\ (Starts(n) \/ Stops(n)) => m = n
    /\ svc.pending => \E n : Starts(n) \/ Stops(n)

\* The count is that of the firmware's state, but for a start or a stop under way.
CountIsKept ==
    /\ \A n : Starts(n) => svc.count = 0 /\ (card.running <=> Answered(n))
    /\ \A n : Stops(n) => svc.count = 1 /\ (card.running <=> ~Answered(n))
    /\ ~svc.pending => (svc.count > 0 <=> card.running)
    /\ svc.count >= 0
    /\ svc.count > 0 => svc.rw /\ svc.registered
    /\ ~svc.failed

\* One read is under way, if any, and no start or stop then.
ReadIsOne ==
    /\ \A m, n : Reads(m) /\ Reads(n) => m = n
    /\ \A m, n : Reads(m) => ~Starts(n) /\ ~Stops(n)
    /\ \A n : Reads(n) => svc.count > 0
ReadsAreSized ==
    /\ \A k \in 1..Len(rqts) : rqts[k].code = "read" => svc.wait /\ calls[rqts[k].of].size # 0
    /\ svcThread.at = "use" => svc.info[calls[svcThread.call].device] # 0

\* A description is true, or a change is told behind the message k.
ToldBehind(d, k) == \E j \in 1..Len(card.mail) : k < j /\ card.mail[j].changed /\ card.mail[j].device = d
Current(d, v, k) == v # 0 /\ (v = card.media[d] \/ ToldBehind(d, k))
KnownIsTrue == svc.count > 0 /\ card.running => \A d \in Devices : svc.info[d] = 0 \/ Current(d, svc.info[d], 0)
MailIsTrue ==
    \A k \in 1..Len(card.mail) : IsReply(k) /\ rqts[1].code \in Queries /\ card.mail[k].reply.ok =>
        card.running /\ Current(rqts[1].device, card.mail[k].reply.value, k)
SaidIsTrue ==
    LET c == calls[svcThread.call]
    IN  svcThread.at = "woken" /\ c.said.ok /\ c.kind \in Queries \cup {"read"} => Current(c.device, c.said.value, 0)

DInv == /\ Placed /\ PendingIsOne /\ CountIsKept /\ ReadIsOne /\ ReadsAreSized
        /\ KnownIsTrue /\ MailIsTrue /\ SaidIsTrue

\* A reply is a result, and no call is given "none".
LEMMA RepliesAreResults ==
    ASSUME NEW code, NEW reply \in Replies
    PROVE  /\ Success(code, reply) \in Rets \ {"none"} /\ Result(code, reply) \in Rets \ {"none"}
           /\ Data(code, reply) \in Nat
<1>1. Success(code, reply) \in Rets \ {"none"}
  BY DEF Success, Rets
<1>2. Result(code, reply) \in Rets \ {"none"}
  BY <1>1 DEF Result, Rets
<1>3. reply.value \in Nat
  BY DEF Replies
<1>4. Data(code, reply) \in Nat
  BY <1>3 DEF Data
<1> QED
  BY <1>1, <1>2, <1>4

\* What the library makes of a reply, by the kind of its request.
HandledAre(s, rqt, reply, t) ==
    /\ StateTypes(t) /\ SameLists(s, t)
    /\ rqt.code = "start" =>
           /\ Differ(s, t, {"info", "count", "pending", "rw", "registered"})
           /\ t.svc.info = IF s.svc.count = 0 THEN [d \in Devices |-> 0] ELSE s.svc.info
           /\ t.svc.count = s.svc.count + 1
           /\ ~t.svc.pending /\ t.svc.rw /\ t.svc.registered
    /\ rqt.code = "stop" =>
           /\ Differ(s, t, {"count", "pending", "rw", "failed"})
           /\ t.svc.count = s.svc.count - 1 /\ ~t.svc.pending
           /\ t.svc.failed <=> s.svc.failed \/ ~s.svc.rw \/ \E k \in DOMAIN rqts : rqts[k].code = "read"
    /\ rqt.code \in Queries /\ reply.ok =>
           /\ Differ(s, t, {"info"})
           /\ t.svc.info = [s.svc.info EXCEPT ![rqt.device] = reply.value]
    /\ rqt.code \notin Change2 /\ ~(rqt.code \in Queries /\ reply.ok) => t = s

\* Handled() is one of these, by the code of the request.
LEMMA HandledIs ==
    ASSUME NEW s, StateTypes(s), NEW rqt, rqt.device \in Devices, NEW reply \in Replies,
           NEW t, t = Handled(s, rqt, reply)
    PROVE  HandledAre(s, rqt, reply, t)
<1>1. CASE rqt.code = "start"
  <2>1. t = Started(s)
    BY <1>1 DEF Handled
  <2>2. /\ DOMAIN t = DOMAIN s /\ t.rqts = s.rqts /\ t.calls = s.calls
        /\ t.svc = [s.svc EXCEPT !.info = IF s.svc.count = 0 THEN [d \in Devices |-> 0] ELSE @,
                                 !.count = @ + 1, !.pending = FALSE, !.rw = TRUE,
                                 !.registered = TRUE]
    BY <2>1 DEF Started, StateTypes
  <2>3. /\ DOMAIN t.svc = SvcFields
        /\ t.svc.info = IF s.svc.count = 0 THEN [d \in Devices |-> 0] ELSE s.svc.info
        /\ t.svc.count = s.svc.count + 1
        /\ ~t.svc.pending /\ t.svc.rw /\ t.svc.registered
        /\ \A f \in SvcFields \ {"info", "count", "pending", "rw", "registered"} : t.svc[f] = s.svc[f]
    BY <2>2 DEF SvcFields, StateTypes
  <2>4. /\ s.svc.info \in [Devices -> Nat] /\ s.svc.count \in Int
        /\ [d \in Devices |-> 0] \in [Devices -> Nat]
    BY DEF StateTypes
  <2>5. t.svc.info \in [Devices -> Nat] /\ t.svc.count \in Int /\ t.svc.nodes = s.svc.nodes
    BY <2>3, <2>4 DEF SvcFields
  <2> QED
    BY <1>1, <2>2, <2>3, <2>5 DEF HandledAre, StateTypes, SameLists, Differ, Change2, Queries
<1>2. CASE rqt.code = "stop"
  <2>1. t = Stopped(s)
    BY <1>2 DEF Handled
  <2>2. /\ DOMAIN t = DOMAIN s /\ t.rqts = s.rqts /\ t.calls = s.calls
        /\ t.svc = [s.svc EXCEPT !.count = @ - 1, !.pending = FALSE, !.rw = FALSE,
                                 !.failed = @ \/ ~s.svc.rw \/ \E k \in DOMAIN rqts : rqts[k].code = "read"]
    BY <2>1 DEF Stopped, StateTypes
  <2>3. /\ DOMAIN t.svc = SvcFields
        /\ t.svc.count = s.svc.count - 1 /\ ~t.svc.pending
        /\ t.svc.failed <=> s.svc.failed \/ ~s.svc.rw \/ \E k \in DOMAIN rqts : rqts[k].code = "read"
        /\ \A f \in SvcFields \ {"count", "pending", "rw", "failed"} : t.svc[f] = s.svc[f]
    BY <2>2 DEF SvcFields, StateTypes
  <2>4. t.svc.info = s.svc.info /\ t.svc.count \in Int /\ t.svc.nodes = s.svc.nodes
    BY <2>3 DEF SvcFields, StateTypes
  <2> QED
    BY <1>2, <2>2, <2>3, <2>4 DEF HandledAre, StateTypes, SameLists, Differ, Change2, Queries
<1>3. CASE rqt.code \in Queries /\ reply.ok
  <2>1. t = [s EXCEPT !.svc.info[rqt.device] = reply.value]
    BY <1>3 DEF Handled, Described, Queries
  <2>2. /\ DOMAIN t = DOMAIN s /\ t.rqts = s.rqts /\ t.calls = s.calls
        /\ t.svc = [s.svc EXCEPT !.info = [s.svc.info EXCEPT ![rqt.device] = reply.value]]
    BY <2>1 DEF StateTypes, SvcFields
  <2>3. /\ DOMAIN t.svc = SvcFields
        /\ t.svc.info = [s.svc.info EXCEPT ![rqt.device] = reply.value]
        /\ \A f \in SvcFields \ {"info"} : t.svc[f] = s.svc[f]
    BY <2>2 DEF SvcFields, StateTypes
  <2>4. reply.value \in Nat
    BY DEF Replies
  <2>5. /\ t.svc.info \in [Devices -> Nat] /\ t.svc.count = s.svc.count
        /\ t.svc.nodes = s.svc.nodes
    BY <2>3, <2>4 DEF SvcFields, StateTypes
  <2> QED
    BY <1>3, <2>2, <2>3, <2>5 DEF HandledAre, StateTypes, SameLists, Differ, Change2, Queries
<1>4. CASE rqt.code \notin Change2 /\ ~(rqt.code \in Queries /\ reply.ok)
  <2>1. t = s
    BY <1>4 DEF Handled, Described, Queries, Change2
  <2> QED
    BY <1>4, <2>1 DEF HandledAre, SameLists, Change2
<1> QED
  BY <1>1, <1>2, <1>3, <1>4 DEF Change2

\* The sequences of the state with one element changed or one more.
LEMMA OneChanged ==
    ASSUME NEW S, NEW q \in Seq(S), NEW n \in 1..Len(q), NEW x \in S, NEW r, r = [q EXCEPT ![n] = x]
    PROVE  /\ r \in Seq(S) /\ Len(r) = Len(q) /\ r[n] = x
           /\ \A m \in 1..Len(q) : m # n => r[m] = q[m]
  OBVIOUS

\* One more element.
LEMMA OneMore ==
    ASSUME NEW S, NEW q \in Seq(S), NEW x \in S, NEW r, r = Append(q, x)
    PROVE  /\ r \in Seq(S) /\ Len(r) = Len(q) + 1 /\ r[Len(q) + 1] = x /\ Len(q) \in Nat
           /\ \A m \in 1..Len(q) : r[m] = q[m] /\ m \in 1..Len(r) /\ m # Len(q) + 1
           /\ \A m \in 1..Len(r) : m \in 1..Len(q) \/ m = Len(q) + 1
  OBVIOUS

\* The first element taken.
LEMMA OneLess ==
    ASSUME NEW S, NEW q \in Seq(S), q # <<>>, NEW r, r = Tail(q)
    PROVE  /\ r \in Seq(S) /\ Len(q) = Len(r) + 1 /\ Len(r) \in Nat /\ Head(q) = q[1] /\ q[1] \in S
           /\ 1 \in 1..Len(q)
           /\ \A k \in 1..Len(r) : r[k] = q[k + 1] /\ k + 1 \in 1..Len(q) /\ k + 1 # 1
           /\ \A k \in 1..Len(q) : k = 1 \/ (k - 1 \in 1..Len(r) /\ k = (k - 1) + 1)
  OBVIOUS

\* Fields of one element, changed one after the other.
LEMMA FieldsChanged ==
    ASSUME NEW q, NEW n \in DOMAIN q, NEW x, NEW y
    PROVE  [[q EXCEPT ![n] = x] EXCEPT ![n] = y] = [q EXCEPT ![n] = y]
  OBVIOUS

\* The first node is called back.
CalledBack(s, n, rqt, reply, t, r) ==
    /\ StateTypes(r) /\ r.rqts = s.rqts /\ Differ(t, r, {"nodes"})
    /\ r.svc.nodes = Tail(s.svc.nodes)
    /\ r.calls = [s.calls EXCEPT ![n] = [s.calls[n] EXCEPT !.ret = Result(rqt.code, reply),
                                                          !.data = Data(rqt.code, reply),
                                                          !.times = s.calls[n].times + 1]]

\* CyAsStorageFuncCallback(), when a node is there.
LEMMA FuncCallbackIs ==
    ASSUME NEW s, StateTypes(s), NEW rqt, rqt.device \in Devices, NEW reply \in Replies,
           s.svc.nodes # <<>>, NEW n, n = Head(s.svc.nodes), n \in 1..Len(s.calls),
           NEW r, r = FuncCallback(s, rqt, reply), NEW t, t = Handled(s, rqt, reply)
    PROVE  CalledBack(s, n, rqt, reply, t, r)
<1>1. StateTypes(t) /\ SameLists(s, t) /\ t.svc.nodes = s.svc.nodes
  <2>1. StateTypes(t) /\ SameLists(s, t)
    BY HandledIs DEF HandledAre
  <2>2. t = s \/ \E fields : "nodes" \notin fields /\ Differ(s, t, fields)
    <3>1. CASE rqt.code = "start"
      <4>1. Differ(s, t, {"info", "count", "pending", "rw", "registered"})
        BY <3>1, HandledIs DEF HandledAre
      <4> QED
        BY <4>1
    <3>2. CASE rqt.code = "stop"
      <4>1. Differ(s, t, {"count", "pending", "rw", "failed"})
        BY <3>2, HandledIs DEF HandledAre
      <4> QED
        BY <4>1
    <3>3. CASE rqt.code \in Queries /\ reply.ok
      <4>1. Differ(s, t, {"info"})
        BY <3>3, HandledIs DEF HandledAre
      <4> QED
        BY <4>1
    <3>4. CASE rqt.code \notin Change2 /\ ~(rqt.code \in Queries /\ reply.ok)
      BY <3>4, HandledIs DEF HandledAre
    <3> QED
      BY <3>1, <3>2, <3>3, <3>4 DEF Change2
  <2>3. "nodes" \in SvcFields
    BY DEF SvcFields
  <2> QED
    BY <2>1, <2>2, <2>3 DEF Differ
<1>2. r = [t EXCEPT !.calls[n].ret = Result(rqt.code, reply), !.calls[n].data = Data(rqt.code, reply),
                    !.calls[n].times = @ + 1, !.svc.nodes = Tail(@)]
  BY DEF FuncCallback
<1> HIDE DEF FuncCallback, Handled
<1>3. /\ DOMAIN r = {"svc", "rqts", "calls"} /\ r.rqts = t.rqts
      /\ r.svc = [t.svc EXCEPT !.nodes = Tail(@)]
      /\ r.calls = [t.calls EXCEPT ![n] = [t.calls[n] EXCEPT !.ret = Result(rqt.code, reply),
                                                           !.data = Data(rqt.code, reply),
                                                           !.times = t.calls[n].times + 1]]
  <2>1. PICK ret, data : ret = Result(rqt.code, reply) /\ data = Data(rqt.code, reply)
    OBVIOUS
  <2>2. r = [t EXCEPT !.calls[n].ret = ret, !.calls[n].data = data, !.calls[n].times = @ + 1,
                      !.svc.nodes = Tail(@)]
    BY <1>2, <2>1
  <2>3. n \in DOMAIN t.calls /\ t.calls \in Seq(CallRecords) /\ t.calls[n] \in CallRecords
    BY <1>1 DEF SameLists, StateTypes
  <2>4. DOMAIN t = {"svc", "rqts", "calls"} /\ DOMAIN t.svc = SvcFields
    BY <1>1 DEF StateTypes
  <2>5. /\ DOMAIN r = {"svc", "rqts", "calls"} /\ r.rqts = t.rqts
        /\ r.svc = [t.svc EXCEPT !.nodes = Tail(@)]
    BY <2>2, <2>4 DEF SvcFields
  <2>6. r.calls = [t.calls EXCEPT ![n] = [t.calls[n] EXCEPT !.ret = ret, !.data = data,
                                                           !.times = t.calls[n].times + 1]]
    <3>1. PICK c \in CallRecords : c = t.calls[n]
      BY <2>3
    <3>2. PICK q1 : q1 = [t.calls EXCEPT ![n] = [c EXCEPT !.ret = ret]]
      OBVIOUS
    <3>3. PICK q2 : q2 = [q1 EXCEPT ![n] = [q1[n] EXCEPT !.data = data]]
      OBVIOUS
    <3>4. r.calls = [q2 EXCEPT ![n] = [q2[n] EXCEPT !.times = c.times + 1]]
      <4>1. PICK t1 : t1 = [t EXCEPT !.calls[n].ret = ret]
        OBVIOUS
      <4>2. PICK t2 : t2 = [t1 EXCEPT !.calls[n].data = data]
        OBVIOUS
      <4>4. t1.calls = q1 /\ DOMAIN t1 = DOMAIN t
        BY <2>4, <3>1, <3>2, <4>1
      <4>5. t2.calls = q2 /\ DOMAIN t2 = DOMAIN t
        BY <2>4, <3>3, <4>2, <4>4
      <4>6. r = [t2 EXCEPT !.calls[n].times = t.calls[n].times + 1, !.svc.nodes = Tail(t.svc.nodes)]
        BY <2>2, <4>1, <4>2
      <4> QED
        BY <2>4, <3>1, <4>5, <4>6
    <3>5. n \in DOMAIN q1 /\ q1[n] = [c EXCEPT !.ret = ret]
      BY <2>3, <3>2
    <3>6. q2 = [t.calls EXCEPT ![n] = [c EXCEPT !.ret = ret, !.data = data]]
      BY <2>3, <3>2, <3>3, <3>5, FieldsChanged
    <3>7. q2[n] = [c EXCEPT !.ret = ret, !.data = data]
      BY <2>3, <3>6
    <3>8. [q2[n] EXCEPT !.times = c.times + 1] =
              [c EXCEPT !.ret = ret, !.data = data, !.times = c.times + 1]
      BY <3>7
    <3> QED
      BY <2>3, <3>1, <3>4, <3>6, <3>8, FieldsChanged
  <2> QED
    BY <2>1, <2>5, <2>6
<1>4. /\ DOMAIN r.svc = SvcFields /\ r.svc.nodes = Tail(s.svc.nodes)
      /\ \A f \in SvcFields \ {"nodes"} : r.svc[f] = t.svc[f]
  BY <1>1, <1>3 DEF SvcFields, StateTypes
<1>5. r.svc.nodes \in Seq(Nat)
  BY <1>4 DEF StateTypes
<1>6. /\ r.svc.count \in Int /\ r.svc.info \in [Devices -> Nat]
  BY <1>1, <1>4 DEF StateTypes, SvcFields
<1>7. r.calls \in Seq(CallRecords)
  <2>1. /\ s.calls \in Seq(CallRecords) /\ t.calls = s.calls
    BY <1>1 DEF StateTypes, SameLists
  <2>2. PICK c \in CallRecords : c = t.calls[n]
    BY <2>1
  <2>3. Result(rqt.code, reply) \in Rets /\ Data(rqt.code, reply) \in Nat
    BY RepliesAreResults
  <2>4. c.times + 1 \in Nat
    BY DEF CallRecords
  <2>5. [c EXCEPT !.ret = Result(rqt.code, reply), !.data = Data(rqt.code, reply), !.times = c.times + 1]
            \in CallRecords
    BY <2>3, <2>4 DEF CallRecords
  <2> QED
    BY <1>3, <2>1, <2>2, <2>5, OneChanged
<1> QED
  BY <1>1, <1>3, <1>4, <1>5, <1>6, <1>7 DEF CalledBack, StateTypes, SameLists, Differ

\* The reply of a read.
ReadDone(s, n, reply, r) ==
    /\ StateTypes(r) /\ r.rqts = s.rqts /\ Differ(s, r, {"wait", "async"}) /\ ~r.svc.wait
    /\ r.calls = [s.calls EXCEPT ![n] =
                      [s.calls[n] EXCEPT !.ret = IF reply.ok THEN "SUCCESS" ELSE "ERROR",
                                         !.times = s.calls[n].times + IF s.calls[n].way = "async"
                                                                      THEN 1 ELSE 0]]

\* CyAsAsyncStorageReplyCallback() and CyAsSyncStorageReplyCallback().
LEMMA ReadRepliedIs ==
    ASSUME NEW s, StateTypes(s), NEW n \in 1..Len(s.calls), NEW reply \in Replies,
           NEW r, r = ReadReplied(s, n, reply)
    PROVE  ReadDone(s, n, reply, r)
<1>1. PICK ret, more : /\ ret = (IF reply.ok THEN "SUCCESS" ELSE "ERROR")
                       /\ more = (IF s.calls[n].way = "async" THEN 1 ELSE 0)
  OBVIOUS
<1>2. ret \in Rets /\ more \in Nat
  BY <1>1 DEF Rets
<1>3. r = [s EXCEPT !.svc.wait = FALSE, !.svc.async = FALSE, !.calls[n].ret = ret,
                    !.calls[n].times = @ + more]
  BY <1>1 DEF ReadReplied
<1>4. /\ DOMAIN s = {"svc", "rqts", "calls"} /\ DOMAIN s.svc = SvcFields /\ n \in DOMAIN s.calls
      /\ s.calls \in Seq(CallRecords) /\ s.calls[n] \in CallRecords
  BY DEF StateTypes
<1>5. /\ DOMAIN r = {"svc", "rqts", "calls"} /\ r.rqts = s.rqts
      /\ r.svc = [s.svc EXCEPT !.wait = FALSE, !.async = FALSE]
  BY <1>3, <1>4 DEF SvcFields
<1>6. r.calls = [s.calls EXCEPT ![n] = [s.calls[n] EXCEPT !.ret = ret, !.times = s.calls[n].times + more]]
  <2>1. PICK c \in CallRecords : c = s.calls[n]
    BY <1>4
  <2>2. PICK q1 : q1 = [s.calls EXCEPT ![n] = [c EXCEPT !.ret = ret]]
    OBVIOUS
  <2>3. r.calls = [q1 EXCEPT ![n] = [q1[n] EXCEPT !.times = q1[n].times + more]]
    BY <1>3, <1>4, <2>1, <2>2
  <2>4. q1[n] = [c EXCEPT !.ret = ret] /\ q1[n].times = c.times
    BY <1>4, <2>2 DEF CallRecords
  <2>5. [q1[n] EXCEPT !.times = q1[n].times + more] = [c EXCEPT !.ret = ret, !.times = c.times + more]
    BY <2>4
  <2> QED
    BY <1>4, <2>1, <2>2, <2>3, <2>5, FieldsChanged
<1>7. /\ DOMAIN r.svc = SvcFields /\ ~r.svc.wait
      /\ \A f \in SvcFields \ {"wait", "async"} : r.svc[f] = s.svc[f]
  BY <1>4, <1>5 DEF SvcFields
<1>8. /\ r.svc.count \in Int /\ r.svc.info \in [Devices -> Nat] /\ r.svc.nodes \in Seq(Nat)
  BY <1>7 DEF StateTypes, SvcFields
<1>9. r.calls \in Seq(CallRecords)
  <2>1. PICK c \in CallRecords : c = s.calls[n]
    BY <1>4
  <2>2. c.times + more \in Nat
    BY <1>2 DEF CallRecords
  <2>3. [c EXCEPT !.ret = ret, !.times = c.times + more] \in CallRecords
    BY <1>2, <2>2 DEF CallRecords
  <2> QED
    BY <1>4, <1>6, <2>1, <2>3, OneChanged
<1> QED
  BY <1>1, <1>5, <1>6, <1>7, <1>8, <1>9 DEF ReadDone, StateTypes, Differ

\* A request behind the others.
LEMMA QueueIs ==
    ASSUME NEW s, StateTypes(s), NEW code \in Services \cup {"size"}, NEW n \in Nat,
           NEW d \in Devices, NEW way \in Ways, NEW r, r = Queue(s, code, n, d, way)
    PROVE  /\ StateTypes(r) /\ r.svc = s.svc /\ r.calls = s.calls
           /\ r.rqts = Append(s.rqts, [code |-> code, of |-> n, device |-> d, way |-> way])
           /\ [code |-> code, of |-> n, device |-> d, way |-> way] \in Requests
<1>1. [code |-> code, of |-> n, device |-> d, way |-> way] \in Requests
  BY DEF Requests
<1>2. /\ DOMAIN r = DOMAIN s /\ r.svc = s.svc /\ r.calls = s.calls
      /\ r.rqts = Append(s.rqts, [code |-> code, of |-> n, device |-> d, way |-> way])
  BY DEF Queue, StateTypes
<1>3. r.rqts \in Seq(Requests)
  BY <1>1, <1>2 DEF StateTypes
<1> QED
  BY <1>1, <1>2, <1>3 DEF StateTypes

\* The request of a read.
LEMMA OperIs ==
    ASSUME NEW s, StateTypes(s), NEW n \in 1..Len(s.calls), "read" \in Services, NEW r, r = Oper(s, n)
    PROVE  LET c == s.calls[n]
           IN  /\ StateTypes(r) /\ Differ(s, r, {"wait", "failed"}) /\ r.svc.wait
               /\ r.svc.failed <=> \/ s.svc.failed \/ ~s.svc.rw
                                   \/ \E k \in DOMAIN s.rqts : s.rqts[k].code = "read"
               /\ r.calls = [s.calls EXCEPT ![n] = [c EXCEPT !.size = s.svc.info[c.device]]]
               /\ s.svc.info[c.device] \in Nat
               /\ r.rqts = Append(s.rqts, [code |-> "read", of |-> n, device |-> c.device, way |-> c.way])
               /\ [code |-> "read", of |-> n, device |-> c.device, way |-> c.way] \in Requests
<1>1. PICK c \in CallRecords : c = s.calls[n]
  BY DEF StateTypes
<1>2. PICK size : size = s.svc.info[c.device]
  OBVIOUS
<1>3. PICK t : t = [s EXCEPT !.svc.wait = TRUE, !.calls[n].size = size,
                             !.svc.failed = @ \/ ~s.svc.rw \/ \E k \in DOMAIN s.rqts : s.rqts[k].code = "read"]
  OBVIOUS
<1>4. r = Queue(t, "read", n, c.device, c.way)
  BY <1>1, <1>2, <1>3 DEF Oper
<1>5. /\ DOMAIN s = {"svc", "rqts", "calls"} /\ DOMAIN s.svc = SvcFields /\ n \in DOMAIN s.calls
      /\ s.calls \in Seq(CallRecords) /\ n \in Nat
  BY DEF StateTypes
<1>6. /\ DOMAIN t = {"svc", "rqts", "calls"} /\ t.rqts = s.rqts
      /\ t.calls = [s.calls EXCEPT ![n] = [c EXCEPT !.size = size]]
  BY <1>1, <1>3, <1>5
<1>7. /\ DOMAIN t.svc = SvcFields /\ t.svc.wait
      /\ \A f \in SvcFields \ {"wait", "failed"} : t.svc[f] = s.svc[f]
  BY <1>3, <1>5 DEF SvcFields
<1>8. t.svc.failed <=> s.svc.failed \/ ~s.svc.rw \/ \E k \in DOMAIN s.rqts : s.rqts[k].code = "read"
  BY <1>3, <1>5 DEF SvcFields
<1>9. c.device \in Devices /\ c.way \in Ways /\ size \in Nat
  BY <1>2 DEF StateTypes, CallRecords
<1>10. StateTypes(t)
  <2>1. /\ t.svc.count \in Int /\ t.svc.info \in [Devices -> Nat] /\ t.svc.nodes \in Seq(Nat)
    BY <1>7 DEF StateTypes, SvcFields
  <2>2. [c EXCEPT !.size = size] \in CallRecords
    BY <1>9 DEF CallRecords
  <2>3. t.calls \in Seq(CallRecords)
    BY <1>5, <1>6, <2>2, OneChanged
  <2> QED
    BY <1>6, <1>7, <2>1, <2>3 DEF StateTypes
<1>11. /\ StateTypes(r) /\ r.svc = t.svc /\ r.calls = t.calls
       /\ r.rqts = Append(t.rqts, [code |-> "read", of |-> n, device |-> c.device, way |-> c.way])
       /\ [code |-> "read", of |-> n, device |-> c.device, way |-> c.way] \in Requests
  BY <1>4, <1>5, <1>9, <1>10, QueueIs
<1> QED
  BY <1>1, <1>2, <1>6, <1>7, <1>8, <1>9, <1>11 DEF Differ

\* A new call, counted at once or to be sent.
Once(c, kind) == c.times = IF c.way = "async" /\ c.ret # "none" /\ IsLate(kind) = {} THEN 1 ELSE 0
CountedAs(kind, count) ==
    /\ kind \in Change2
    /\ \/ kind = "start" /\ svc.count # 0 /\ count = svc.count + 1
       \/ kind = "stop" /\ svc.count > 1 /\ count = svc.count - 1
       \/ kind = "stop" /\ svc.count < 1 /\ count = svc.count
PreparedAs(kind, d, way, r, c) ==
    /\ StateTypes(r) /\ r.rqts = rqts /\ Grown(calls, r.calls, c)
    /\ c.kind = kind /\ c.device = d /\ c.way = way /\ c.size = 0 /\ Once(c, kind)
    /\ c.kind \in {"claim", "release", "bus", "device", "unit"} => c.ret = "none"
    /\ c.ret # "none" =>
           Differ(Now, r, {"count", "pending"}) /\ ~r.svc.pending /\ CountedAs(kind, r.svc.count)
    /\ c.ret = "none" =>
           /\ Differ(Now, r, {"pending", "async", "nodes"}) /\ IsLate(kind) = {}
           /\ r.svc.pending <=> svc.pending \/ kind \in Change2
           /\ r.svc.nodes = IF way = "async" /\ kind # "read"
                            THEN Append(svc.nodes, Len(calls) + 1) ELSE svc.nodes
           /\ kind = "start" => svc.count = 0
           /\ kind = "stop" => svc.count = 1

\* Prepared() is one of the two, for any kind of call.
LEMMA PreparedIs ==
    ASSUME StateTypes(Now), NEW kind \in Services, NEW d \in Devices, NEW way \in Ways,
           NEW r, r = Prepared(kind, d, way)
    PROVE  \E c \in CallRecords : PreparedAs(kind, d, way, r, c)
<1> DEFINE n == Len(calls) + 1
           c0 == Call(kind, d, way)
<1>1. /\ calls \in Seq(CallRecords) /\ rqts \in Seq(Requests) /\ DOMAIN svc = SvcFields
      /\ svc.count \in Int /\ svc.info \in [Devices -> Nat] /\ svc.nodes \in Seq(Nat) /\ n \in Nat
  BY DEF StateTypes, Now
<1>2. /\ c0 \in CallRecords /\ c0.kind = kind /\ c0.device = d /\ c0.way = way /\ c0.size = 0
      /\ c0.ret = "none" /\ c0.times = 0
  BY DEF Call, CallRecords, Rets, Replies
<1>3. PICK s : s = [Now EXCEPT !.calls = Append(@, c0)]
  OBVIOUS
<1>4. DOMAIN s = {"svc", "rqts", "calls"} /\ s.svc = svc /\ s.rqts = rqts /\ s.calls = Append(calls, c0)
  BY <1>3 DEF Now
<1>5. /\ Append(calls, c0) \in Seq(CallRecords) /\ n \in DOMAIN Append(calls, c0) /\ Append(calls, c0)[n] = c0
  BY <1>1, <1>2
<1>6. /\ IsSent(kind) => (kind = "start" => svc.count = 0) /\ (kind = "stop" => svc.count = 1) /\ IsLate(kind) = {}
      /\ ~IsSent(kind) => CountedAs(kind, svc.count + Counts(kind)) /\ (Counts(kind) # 0 <=> IsLate(kind) = {})
  BY <1>1 DEF IsSent, Counts, CountedAs, IsLate, Change2
<1>7. r = IF ~IsSent(kind)
          THEN [s EXCEPT !.svc.count = @ + Counts(kind), !.svc.pending = FALSE, !.calls[n].ret = "SUCCESS",
                         !.calls[n].times = IF way = "async" /\ Counts(kind) # 0 THEN 1 ELSE 0]
          ELSE [s EXCEPT !.svc.pending = @ \/ kind \in {"start", "stop"},
                         !.svc.async = @ \/ (way = "async" /\ kind = "read"),
                         !.svc.nodes = IF way = "async" /\ kind # "read" THEN Append(@, n) ELSE @]
  BY <1>3 DEF Prepared
<1> HIDE DEF n, c0
<1>8. CASE ~IsSent(kind)
  <2>1. PICK once, counts : /\ once = (IF way = "async" /\ Counts(kind) # 0 THEN 1 ELSE 0)
                            /\ counts = Counts(kind)
    OBVIOUS
  <2>2. PICK c : c = [c0 EXCEPT !.ret = "SUCCESS", !.times = once]
    OBVIOUS
  <2>3. /\ c \in CallRecords /\ c.kind = kind /\ c.device = d /\ c.way = way /\ c.size = 0
        /\ c.ret = "SUCCESS" /\ c.times = once
    <3>1. once \in Nat /\ "SUCCESS" \in Rets
      BY <2>1 DEF Rets
    <3> QED
      BY <1>2, <2>2, <3>1 DEF CallRecords
  <2>4. r = [s EXCEPT !.svc.count = @ + counts, !.svc.pending = FALSE, !.calls[n].ret = "SUCCESS",
                      !.calls[n].times = once]
    BY <1>7, <1>8, <2>1
  <2>5. /\ DOMAIN r = {"svc", "rqts", "calls"} /\ r.rqts = rqts
        /\ r.svc = [svc EXCEPT !.count = svc.count + counts, !.pending = FALSE]
    BY <1>4, <2>4
  <2>6. r.calls = [Append(calls, c0) EXCEPT ![n] = c]
    <3>1. PICK q1 : q1 = [Append(calls, c0) EXCEPT ![n] = [c0 EXCEPT !.ret = "SUCCESS"]]
      OBVIOUS
    <3>2. r.calls = [q1 EXCEPT ![n] = [q1[n] EXCEPT !.times = once]]
      <4>1. PICK s1 : s1 = [s EXCEPT !.svc.count = @ + counts, !.svc.pending = FALSE]
        OBVIOUS
      <4>2. PICK s2 : s2 = [s1 EXCEPT !.calls[n].ret = "SUCCESS"]
        OBVIOUS
      <4>3. DOMAIN s1 = DOMAIN s /\ s1.calls = Append(calls, c0)
        BY <1>4, <4>1
      <4>4. DOMAIN s2 = DOMAIN s /\ s2.calls = q1
        BY <1>4, <1>5, <3>1, <4>2, <4>3
      <4>5. r = [s2 EXCEPT !.calls[n].times = once]
        BY <2>4, <4>1, <4>2
      <4> QED
        BY <1>4, <4>4, <4>5
    <3>3. q1[n] = [c0 EXCEPT !.ret = "SUCCESS"]
      BY <1>5, <3>1
    <3> QED
      BY <1>5, <2>2, <3>1, <3>2, <3>3, FieldsChanged
  <2>7. Grown(calls, r.calls, c)
    <3>1. PICK q : q = Append(calls, c0)
      OBVIOUS
    <3>2. q \in Seq(CallRecords) /\ Len(q) = n /\ \A m \in 1..Len(calls) : q[m] = calls[m]
      BY <1>1, <1>2, <3>1 DEF n
    <3>3. r.calls \in Seq(CallRecords) /\ Len(r.calls) = n /\ r.calls[n] = c
          /\ \A m \in 1..Len(q) : m # n => r.calls[m] = q[m]
      <4>1. n \in 1..Len(q) /\ c \in CallRecords /\ r.calls = [q EXCEPT ![n] = c]
        BY <1>5, <2>3, <2>6, <3>1, <3>2
      <4> QED
        BY <3>2, <4>1, OneChanged
    <3>4. \A m \in 1..Len(calls) : m \in 1..n /\ m # n
      BY <1>1 DEF n
    <3> QED
      BY <3>2, <3>3, <3>4 DEF n, Grown
  <2>8. /\ DOMAIN r.svc = SvcFields /\ r.svc.count = svc.count + counts /\ ~r.svc.pending
        /\ \A f \in SvcFields \ {"count", "pending"} : r.svc[f] = svc[f]
    BY <1>1, <2>5 DEF SvcFields
  <2>9. StateTypes(r)
    <3>1. r.svc.info = svc.info /\ r.svc.nodes = svc.nodes
      BY <2>8 DEF SvcFields
    <3>2. r.svc.count \in Int
      BY <1>1, <2>1, <2>8 DEF Counts
    <3>3. r.calls \in Seq(CallRecords)
      BY <1>5, <2>3, <2>6
    <3> QED
      BY <1>1, <2>5, <2>8, <3>1, <3>2, <3>3 DEF StateTypes
  <2>10. Differ(Now, r, {"count", "pending"})
    BY <2>8 DEF Differ, Now
  <2>11. CountedAs(kind, r.svc.count)
    BY <1>6, <1>8, <2>1, <2>8
  <2>12. Once(c, kind) /\ c.kind \notin {"claim", "release", "bus", "device", "unit"}
    <3>1. Counts(kind) # 0 <=> IsLate(kind) = {}
      BY <1>6, <1>8
    <3>2. kind \in Change2
      BY <2>11 DEF CountedAs
    <3> QED
      BY <2>1, <2>3, <3>1, <3>2 DEF Once, Change2
  <2> QED
    BY <2>3, <2>5, <2>7, <2>8, <2>9, <2>10, <2>11, <2>12 DEF PreparedAs
<1>9. CASE IsSent(kind)
  <2>1. r = [s EXCEPT !.svc.pending = @ \/ kind \in {"start", "stop"},
                      !.svc.async = @ \/ (way = "async" /\ kind = "read"),
                      !.svc.nodes = IF way = "async" /\ kind # "read" THEN Append(@, n) ELSE @]
    BY <1>7, <1>9
  <2>2. /\ DOMAIN r = {"svc", "rqts", "calls"} /\ r.rqts = rqts /\ r.calls = Append(calls, c0)
        /\ r.svc = [svc EXCEPT !.pending = @ \/ kind \in {"start", "stop"},
                               !.async = @ \/ (way = "async" /\ kind = "read"),
                               !.nodes = IF way = "async" /\ kind # "read" THEN Append(@, n) ELSE @]
    BY <1>4, <2>1
  <2>3. /\ DOMAIN r.svc = SvcFields
        /\ r.svc.nodes = IF way = "async" /\ kind # "read" THEN Append(svc.nodes, n) ELSE svc.nodes
        /\ \A f \in SvcFields \ {"pending", "async", "nodes"} : r.svc[f] = svc[f]
    BY <1>1, <2>2 DEF SvcFields
  <2>4. r.svc.pending <=> svc.pending \/ kind \in Change2
    BY <1>1, <2>2 DEF SvcFields, Change2
  <2>5. StateTypes(r)
    <3>1. r.svc.info = svc.info /\ r.svc.count = svc.count
      BY <2>3 DEF SvcFields
    <3>2. r.svc.nodes \in Seq(Nat)
      BY <1>1, <2>3
    <3> QED
      BY <1>1, <1>5, <2>2, <2>3, <3>1, <3>2 DEF StateTypes
  <2>6. Differ(Now, r, {"pending", "async", "nodes"})
    BY <2>3 DEF Differ, Now
  <2>7. (kind = "start" => svc.count = 0) /\ (kind = "stop" => svc.count = 1) /\ IsLate(kind) = {}
    BY <1>6, <1>9
  <2>8. Once(c0, kind)
    BY <1>2 DEF Once
  <2>9. Grown(calls, r.calls, c0)
    BY <1>1, <1>2, <2>2 DEF Grown
  <2> QED
    BY <1>2, <2>2, <2>3, <2>4, <2>5, <2>6, <2>7, <2>8, <2>9 DEF n, PreparedAs
<1> QED
  BY <1>8, <1>9

-----------------------------------------------------------------------------
(* The steps, by what they do to the calls, the requests and the thread *)

\* A call stays what it is, and is not answered.
Kept(m) == /\ m \in 1..Len(calls') /\ calls'[m].kind = calls[m].kind
           /\ calls'[m].way = calls[m].way /\ calls'[m].device = calls[m].device
Open(m) == calls'[m].ret = calls[m].ret
CallsKept == \A m \in 1..Len(calls) : Kept(m)
CallsOpen == \A m \in 1..Len(calls) : Open(m)

\* What has been mated stays so, as long as the nodes of what is sent and the requests do.
LEMMA MatesStay ==
    ASSUME Types, NodesMate, rqts' = rqts, overtaken \subseteq overtaken', Sent' = Sent,
           \A i \in 1..Sent : svc'.nodes[i] = svc.nodes[i]
    PROVE  \E f : Mates(f)'
<1>1. PICK f : Mates(f)
  BY DEF NodesMate
<1>2. \A m, n : Mated(overtaken, m, n) => Mated(overtaken', m, n)
  BY DEF Mated
<1>3. \A k \in 1..Len(rqts) : Inserted(k)' <=> Inserted(k)
  BY DEF Inserted
<1>4. ASSUME NEW k \in 1..Len(rqts), Inserted(k)
      PROVE  f[k] \in 1..Sent /\ Mated(overtaken', svc'.nodes[f[k]], rqts[k].of)
  <2>1. f[k] \in 1..Sent /\ Mated(overtaken, svc.nodes[f[k]], rqts[k].of)
    BY <1>1, <1>4 DEF Mates
  <2>2. svc'.nodes[f[k]] = svc.nodes[f[k]]
    BY <2>1
  <2> QED
    BY <2>1, <2>2 DEF Mated
<1>5. Mates(f)'
  BY <1>1, <1>3, <1>4 DEF Mates
<1> QED
  BY <1>5

\* Nothing is sent, answered or given to the thread.
LEMMA StillFits ==
    ASSUME Types, ListsFit, rqts' = rqts, svc'.nodes = svc.nodes, CallsKept, CallsOpen,
           overtaken \subseteq overtaken',
           \/ svcThread' = svcThread
           \/ svcThread.at \in {"idle", "begin", "drain"} /\ svcThread'.at \in {"idle", "begin"}
    PROVE  ListsFit'
<1>1. /\ \A n : Holds(n)' <=> Holds(n)
      /\ ~Away' => svcThread' = svcThread
      /\ \A k \in 1..Len(rqts) : ~(svcThread.at = "drain" /\ rqts[k].way = "sync" /\ rqts[k].code # "read")
      /\ \A k \in 1..Len(rqts) : Inserted(k)' <=> Inserted(k)
  BY DEF Holds, Away, ListsFit, RequestsFit, Inserted
<1>2. RequestsFit'
  <2>1. \A k \in 1..Len(rqts) : RequestFits(k)'
    <3> SUFFICES ASSUME NEW k \in 1..Len(rqts) PROVE RequestFits(k)'
      OBVIOUS
    <3>1. RequestFits(k)
      BY DEF ListsFit, RequestsFit
    <3> QED
      BY <1>1, <3>1 DEF RequestFits, CallsKept, Kept, CallsOpen, Open
  <2>2. \A j, k \in 1..Len(rqts) : ~Inserted(j)' /\ rqts[j].of = rqts[k].of => j = k
    BY <1>1 DEF ListsFit, RequestsFit
  <2>3. \A k \in 1..Len(rqts) : rqts[k].way = "sync" /\ rqts[k].code # "read" =>
            svcThread'.at = "wait" /\ svcThread'.call = rqts[k].of
    BY <1>1 DEF ListsFit, RequestsFit
  <2> QED
    BY <2>1, <2>2, <2>3 DEF RequestsFit
<1>3. ThreadFits'
  BY <1>1 DEF ListsFit, ThreadFits, Away, CallsKept, Kept, CallsOpen, Open
<1>4. NodesFit'
  BY DEF ListsFit, NodesFit, NodeFits, CallsKept, Kept, CallsOpen, Open
<1>5. NodesMate'
  <2>1. (svcThread'.at = "send" <=> svcThread.at = "send") /\ (svcThread.at = "send" => svcThread' = svcThread)
    OBVIOUS
  <2>2. Sent' = Sent
    BY <2>1 DEF Sent
  <2>3. \E f : Mates(f)'
    BY <2>2, MatesStay DEF ListsFit
  <2>4. HandFits'
    BY <2>1 DEF ListsFit, NodesMate, HandFits, Mated
  <2> QED
    BY <2>3, <2>4 DEF NodesMate
<1> QED
  BY <1>2, <1>3, <1>4, <1>5 DEF ListsFit

\* Those late are what they were, and one that is counted at once may be.
LEMMA LateStays ==
    ASSUME Types, LateFit, CallsKept, \A m \in 1..Len(calls) : calls[m].ret # "none" => Open(m),
           NEW n, lateStops' \subseteq lateStops \cup {n}, n \in lateStops' => n \in 1..Len(calls') /\ calls'[n].ret # "none"
    PROVE  LateFit'
  BY DEF LateFit, CallsKept, Kept, Open

\* A new call is the last one, and nothing refers to it yet.
NewCall(c) ==
    /\ Grown(calls, calls', c) /\ c \in CallRecords /\ c.ret = "none"
    /\ CallsKept /\ CallsOpen

\* No request, node or thread refers to a call that is not there yet.
LEMMA NothingRefersToNew ==
    ASSUME Types, ListsFit
    PROVE  /\ Len(calls) + 1 \in Nat
           /\ \A k \in 1..Len(rqts) : rqts[k].of < Len(calls) + 1 /\ rqts[k].of # Len(calls) + 1
           /\ ~Away => svcThread.call < Len(calls) + 1 /\ svcThread.call # Len(calls) + 1
           /\ \A i \in 1..Len(svc.nodes) : svc.nodes[i] < Len(calls) + 1
<1>1. Len(calls) \in Nat
  BY DEF Types, SeqTypes
<1>2. \A m \in 1..Len(calls) : m < Len(calls) + 1 /\ m # Len(calls) + 1
  BY <1>1
<1>3. \A k \in 1..Len(rqts) : rqts[k].of \in 1..Len(calls)
  BY DEF ListsFit, RequestsFit, RequestFits
<1>4. ~Away => svcThread.call \in 1..Len(calls)
  BY DEF ListsFit, ThreadFits
<1>5. \A i \in 1..Len(svc.nodes) : svc.nodes[i] \in 1..Len(calls)
  BY DEF ListsFit, NodesFit, NodeFits
<1> QED
  BY <1>1, <1>2, <1>3, <1>4, <1>5

\* The node of a new call comes last.
LEMMA NodeAppended ==
    ASSUME Types, ListsFit, NEW c, NewCall(c), c.way = "async", c.kind # "read",
           svc'.nodes = Append(svc.nodes, Len(calls) + 1)
    PROVE  /\ NodesFit' /\ Len(svc.nodes) \in Nat /\ Len(svc'.nodes) = Len(svc.nodes) + 1
           /\ svc'.nodes[Len(svc.nodes) + 1] = Len(calls) + 1
           /\ \A i \in 1..Len(svc.nodes) : svc'.nodes[i] = svc.nodes[i]
<1> DEFINE n == Len(calls) + 1
<1>1. svc.nodes \in Seq(Nat) /\ n \in Nat /\ \A i \in 1..Len(svc.nodes) : svc.nodes[i] < n
  BY NothingRefersToNew DEF Types, SvcTypes
<1>2. n \in 1..Len(calls') /\ calls'[n] = c /\ c.ret = "none"
  BY NothingRefersToNew DEF NewCall, Grown
<1> HIDE DEF n
<1>3. PICK q, r : q = svc.nodes /\ r = svc'.nodes
  OBVIOUS
<1>4. /\ Len(r) = Len(q) + 1 /\ r[Len(q) + 1] = n /\ Len(q) \in Nat
      /\ \A m \in 1..Len(q) : r[m] = q[m] /\ m \in 1..Len(r) /\ m # Len(q) + 1
      /\ \A m \in 1..Len(r) : m \in 1..Len(q) \/ m = Len(q) + 1
  <2>1. q \in Seq(Nat) /\ r = Append(q, n)
    BY <1>1, <1>3 DEF n
  <2> QED
    BY <1>1, <2>1, OneMore
<1>5. \A i, j \in 1..Len(r) : i < j => r[i] < r[j]
  <2> SUFFICES ASSUME NEW i \in 1..Len(r), NEW j \in 1..Len(r), i < j PROVE r[i] < r[j]
    OBVIOUS
  <2>1. i \in 1..Len(q)
    BY <1>4
  <2>2. CASE j \in 1..Len(q)
    BY <1>3, <1>4, <2>1, <2>2 DEF ListsFit, NodesFit
  <2>3. CASE j = Len(q) + 1
    BY <1>1, <1>3, <1>4, <2>1, <2>3
  <2> QED
    BY <1>4, <2>2, <2>3
<1>6. \A i \in 1..Len(r) : NodeFits(r[i])'
  <2> SUFFICES ASSUME NEW i \in 1..Len(r) PROVE NodeFits(r[i])'
    OBVIOUS
  <2>1. CASE i \in 1..Len(q)
    <3>1. NodeFits(q[i]) /\ r[i] = q[i]
      BY <1>3, <1>4, <2>1 DEF ListsFit, NodesFit
    <3> QED
      BY <3>1 DEF NodeFits, NewCall, CallsKept, Kept, CallsOpen, Open
  <2>2. CASE i = Len(q) + 1
    BY <1>2, <1>4, <2>2 DEF NodeFits
  <2> QED
    BY <1>4, <2>1, <2>2
<1> QED
  BY <1>3, <1>4, <1>5, <1>6 DEF NodesFit, n

\* The thread takes a new call, which it has not sent.
LEMMA TakenFits ==
    ASSUME Types, ListsFit, NEW c, NewCall(c), Away, rqts' = rqts, overtaken' = overtaken,
           svcThread'.call = Len(calls) + 1, Types',
           \/ svcThread'.at = "use" /\ c.kind = "read" /\ svc'.nodes = svc.nodes
           \/ /\ svcThread'.at = "send" /\ c.way = "async" /\ c.kind # "read"
              /\ svc'.nodes = Append(svc.nodes, Len(calls) + 1)
    PROVE  ListsFit'
<1> DEFINE n == Len(calls) + 1
<1>1. /\ n \in 1..Len(calls') /\ calls'[n] = c /\ c.ret = "none"
      /\ \A m : Holds(m)' <=> m = n
      /\ \A k \in 1..Len(rqts) : rqts[k].of < n /\ rqts[k].of # n
      /\ \A k \in 1..Len(rqts) : Inserted(k)' <=> Inserted(k)
      /\ svc.nodes \in Seq(Nat) /\ n \in Nat
  <2>1. n \in 1..Len(calls') /\ calls'[n] = c /\ c.ret = "none"
    BY NothingRefersToNew DEF NewCall, Grown
  <2>2. \A m : Holds(m)' <=> m = n
    BY DEF Holds
  <2>3. svc.nodes \in Seq(Nat)
    BY DEF Types, SvcTypes
  <2>4. \A k \in 1..Len(rqts) : Inserted(k)' <=> Inserted(k)
    BY DEF Inserted
  <2> QED
    BY <2>1, <2>2, <2>3, <2>4, NothingRefersToNew
<1> HIDE DEF n
<1>2. RequestsFit'
  <2>1. \A k \in 1..Len(rqts) : RequestFits(k)'
    <3> SUFFICES ASSUME NEW k \in 1..Len(rqts) PROVE RequestFits(k)'
      OBVIOUS
    <3>1. RequestFits(k) /\ rqts[k].of # n
      BY <1>1 DEF ListsFit, RequestsFit
    <3> QED
      BY <1>1, <3>1 DEF RequestFits, NewCall, CallsKept, Kept, CallsOpen, Open
  <2>2. \A k \in 1..Len(rqts) : ~(rqts[k].way = "sync" /\ rqts[k].code # "read")
    BY DEF ListsFit, RequestsFit, Away
  <2>3. \A j, k \in 1..Len(rqts) : ~Inserted(j)' /\ rqts[j].of = rqts[k].of => j = k
    BY <1>1 DEF ListsFit, RequestsFit
  <2> QED
    BY <2>1, <2>2, <2>3 DEF RequestsFit
<1>3. ThreadFits'
  BY <1>1 DEF ThreadFits, n
<1>4. NodesFit'
  <2>1. CASE svc'.nodes = svc.nodes
    <3>1. \A m : NodeFits(m) => NodeFits(m)'
      BY DEF NodeFits, NewCall, CallsKept, Kept, CallsOpen, Open
    <3>2. NodesFit
      BY DEF ListsFit
    <3> QED
      BY <2>1, <3>1, <3>2 DEF NodesFit
  <2>2. CASE svc'.nodes = Append(svc.nodes, Len(calls) + 1) /\ c.way = "async" /\ c.kind # "read"
    BY <2>2, NodeAppended
  <2> QED
    BY <2>1, <2>2
<1>5. NodesMate'
  <2>1. Sent = Len(svc.nodes)
    BY DEF Sent, Away
  <2>2. Sent' = Sent /\ (\A i \in 1..Sent : svc'.nodes[i] = svc.nodes[i]) /\ HandFits'
    <3>1. CASE svcThread'.at = "use" /\ svc'.nodes = svc.nodes
      BY <2>1, <3>1 DEF Sent, HandFits
    <3>2. CASE /\ svcThread'.at = "send" /\ c.way = "async" /\ c.kind # "read"
               /\ svc'.nodes = Append(svc.nodes, Len(calls) + 1)
      <4>1. /\ Len(svc.nodes) \in Nat /\ Len(svc'.nodes) = Len(svc.nodes) + 1
            /\ svc'.nodes[Len(svc.nodes) + 1] = Len(calls) + 1
            /\ \A i \in 1..Len(svc.nodes) : svc'.nodes[i] = svc.nodes[i]
        BY <3>2, NodeAppended
      <4>2. Sent' = Sent
        BY <2>1, <3>2, <4>1 DEF Sent
      <4>3. svc'.nodes # <<>> /\ svc'.nodes[Len(svc'.nodes)] = svcThread'.call
        BY <4>1
      <4>4. HandFits'
        BY <4>3 DEF HandFits, Mated
      <4> QED
        BY <2>1, <4>1, <4>2, <4>4
    <3> QED
      BY <3>1, <3>2
  <2>3. \E f : Mates(f)'
    BY <2>2, MatesStay DEF ListsFit
  <2> QED
    BY <2>2, <2>3 DEF NodesMate
<1> QED
  BY <1>2, <1>3, <1>4, <1>5 DEF ListsFit

\* One more request, behind the others.
IsInserted(x) == x.way = "async" /\ x.code # "read"

\* A request behind the others keeps them.
LEMMA QueueGrows ==
    ASSUME Types, Types', NEW x, Grown(rqts, rqts', x)
    PROVE  /\ Len(rqts) + 1 \in 1..Len(rqts') /\ rqts'[Len(rqts) + 1] = x
           /\ \A k \in 1..Len(rqts') : k \in 1..Len(rqts) \/ k = Len(rqts) + 1
           /\ \A k \in 1..Len(rqts) : /\ k \in 1..Len(rqts') /\ rqts'[k] = rqts[k] /\ k # Len(rqts) + 1
                                      /\ k < Len(rqts) + 1 /\ ~(Len(rqts) + 1 < k)
                                      /\ (Inserted(k)' <=> Inserted(k))
           /\ \A k \in 1..Len(rqts') : k = Len(rqts) + 1 => (Inserted(k)' <=> IsInserted(x))
<1>1. /\ Len(rqts) \in Nat /\ Len(rqts') = Len(rqts) + 1
  BY DEF Types, SeqTypes, Grown
<1>2. /\ Len(rqts) + 1 \in 1..Len(rqts') /\ rqts'[Len(rqts) + 1] = x
      /\ \A k \in 1..Len(rqts') : k \in 1..Len(rqts) \/ k = Len(rqts) + 1
      /\ \A k \in 1..Len(rqts) : /\ k \in 1..Len(rqts') /\ rqts'[k] = rqts[k] /\ k # Len(rqts) + 1
                                 /\ k < Len(rqts) + 1 /\ ~(Len(rqts) + 1 < k)
  BY <1>1 DEF Grown
<1>3. /\ \A k \in 1..Len(rqts) : Inserted(k)' <=> Inserted(k)
      /\ \A k \in 1..Len(rqts') : k = Len(rqts) + 1 => (Inserted(k)' <=> IsInserted(x))
  BY <1>2 DEF Inserted, IsInserted
<1> QED
  BY <1>2, <1>3

\* It is mated when the next node is its own, or has been overtaken with it.
LEMMA MatesGrow ==
    ASSUME Types, Types', NodesMate, NEW x, Grown(rqts, rqts', x), overtaken \subseteq overtaken',
           Sent \in Nat, \A i \in 1..Sent : svc'.nodes[i] = svc.nodes[i],
           \/ ~IsInserted(x) /\ Sent' = Sent
           \/ IsInserted(x) /\ Sent' = Sent + 1 /\ Mated(overtaken', svc'.nodes[Sent + 1], x.of)
    PROVE  \E f : Mates(f)'
<1>1. PICK f : Mates(f)
  BY DEF NodesMate
<1>2. PICK last, sent : last = Len(rqts) + 1 /\ sent = Sent
  OBVIOUS
<1>3. PICK g : g = [k \in 1..last |-> IF k = last THEN sent + 1 ELSE f[k]]
  OBVIOUS
<1>4. /\ last \in 1..Len(rqts') /\ rqts'[last] = x
      /\ \A k \in 1..Len(rqts') : k \in 1..Len(rqts) \/ k = last
      /\ \A k \in 1..Len(rqts) : /\ k \in 1..Len(rqts') /\ rqts'[k] = rqts[k] /\ k # last
                                 /\ k < last /\ ~(last < k)
                                 /\ (Inserted(k)' <=> Inserted(k))
      /\ Inserted(last)' <=> IsInserted(x)
  BY <1>2, QueueGrows
<1>5. g[last] = sent + 1 /\ \A k \in 1..Len(rqts) : g[k] = f[k]
  <2>1. last \in 1..last /\ \A k \in 1..Len(rqts) : k \in 1..last
    <3>1. Len(rqts) \in Nat
      BY DEF Types, SeqTypes
    <3> QED
      BY <1>2, <3>1
  <2> QED
    BY <1>3, <1>4, <2>1
<1>6. /\ sent \in Nat /\ Sent' \in Nat /\ \A i \in 1..sent : i \in 1..Sent' /\ i < sent + 1
      /\ IsInserted(x) => sent + 1 \in 1..Sent'
      /\ \A i \in 1..Sent' : i \in 1..sent \/ (IsInserted(x) /\ i = sent + 1)
  BY <1>2
<1>7. ASSUME NEW k \in 1..Len(rqts), Inserted(k)
      PROVE  f[k] \in 1..sent /\ Mated(overtaken', svc'.nodes[f[k]], rqts[k].of)
  <2>1. f[k] \in 1..sent /\ Mated(overtaken, svc.nodes[f[k]], rqts[k].of)
    BY <1>1, <1>2, <1>7 DEF Mates
  <2>2. svc'.nodes[f[k]] = svc.nodes[f[k]]
    BY <1>2, <2>1
  <2>3. rqts'[k].of = rqts[k].of
    BY <1>4
  <2> QED
    BY <2>1, <2>2, <2>3 DEF Mated
<1>8. ASSUME NEW k \in 1..Len(rqts'), Inserted(k)'
      PROVE  g[k] \in 1..Sent' /\ Mated(overtaken', svc'.nodes[g[k]], rqts'[k].of)
  <2>1. CASE k \in 1..Len(rqts)
    <3>1. f[k] \in 1..sent /\ Mated(overtaken', svc'.nodes[f[k]], rqts[k].of) /\ g[k] = f[k] /\ rqts'[k] = rqts[k]
      BY <1>4, <1>5, <1>7, <1>8, <2>1
    <3> QED
      BY <1>6, <3>1
  <2>2. CASE k = last
    <3>1. IsInserted(x) /\ g[k] = sent + 1 /\ rqts'[k] = x
      BY <1>4, <1>5, <1>8, <2>2
    <3>2. Mated(overtaken', svc'.nodes[sent + 1], x.of)
      BY <1>2, <3>1
    <3>3. svc'.nodes[g[k]] = svc'.nodes[sent + 1] /\ rqts'[k].of = x.of
      BY <3>1
    <3>4. Mated(overtaken', svc'.nodes[g[k]], rqts'[k].of)
      BY <3>2, <3>3 DEF Mated
    <3> QED
      BY <1>6, <3>1, <3>4
  <2> QED
    BY <1>4, <2>1, <2>2
<1>9. ASSUME NEW j \in 1..Len(rqts'), NEW k \in 1..Len(rqts'), j < k, Inserted(j)', Inserted(k)'
      PROVE  g[j] < g[k]
  <2>1. j \in 1..Len(rqts)
    BY <1>4, <1>9
  <2>2. f[j] \in 1..sent /\ g[j] = f[j] /\ Inserted(j)
    BY <1>4, <1>5, <1>7, <1>9, <2>1
  <2>3. CASE k \in 1..Len(rqts)
    <3>1. Inserted(k) /\ g[k] = f[k]
      BY <1>4, <1>5, <1>9, <2>3
    <3>2. f[j] < f[k]
      BY <1>1, <1>9, <2>1, <2>2, <2>3, <3>1 DEF Mates
    <3> QED
      BY <2>2, <3>1, <3>2
  <2>4. CASE k = last
    BY <1>5, <1>6, <2>2, <2>4
  <2> QED
    BY <1>4, <2>3, <2>4
<1>10. ASSUME NEW i \in 1..Sent' PROVE \E k \in 1..Len(rqts') : Inserted(k)' /\ g[k] = i
  <2>1. CASE i \in 1..sent
    <3>1. PICK k \in 1..Len(rqts) : Inserted(k) /\ f[k] = i
      BY <1>1, <1>2, <2>1 DEF Mates
    <3> QED
      BY <1>4, <1>5, <3>1
  <2>2. CASE IsInserted(x) /\ i = sent + 1
    BY <1>4, <1>5, <2>2
  <2> QED
    BY <1>6, <2>1, <2>2
<1>11. Mates(g)'
  BY <1>8, <1>9, <1>10 DEF Mates
<1> QED
  BY <1>11

\* What is sent is of a call that has no other request, and of an open one if it has no node.
LEMMA SentFits ==
    ASSUME Types, Types', ListsFit, NEW x, Grown(rqts, rqts', x), CallsKept, CallsOpen,
           \A k \in 1..Len(rqts) : ~Inserted(k) \/ ~IsInserted(x) => rqts[k].of # x.of,
           x.of \in 1..Len(calls'), calls'[x.of].way = x.way, calls'[x.of].device = x.device,
           \/ x.code = calls'[x.of].kind
           \/ x.code = "size" /\ calls'[x.of].kind = "read" /\ calls'[x.of].way = "sync",
           ~IsInserted(x) => calls'[x.of].ret = "none",
           \A m : Holds(m)' => Holds(m) /\ m # x.of,
           x.way = "sync" /\ x.code # "read" => svcThread'.at = "wait" /\ svcThread'.call = x.of,
           svcThread' = svcThread \/ svcThread.at # "wait"
    PROVE  RequestsFit'
<1>1. \A k \in 1..Len(rqts) : RequestFits(k)'
  <2> SUFFICES ASSUME NEW k \in 1..Len(rqts) PROVE RequestFits(k)'
    OBVIOUS
  <2>1. RequestFits(k) /\ rqts'[k] = rqts[k] /\ (Inserted(k)' <=> Inserted(k))
    BY QueueGrows DEF ListsFit, RequestsFit
  <2> QED
    BY <2>1 DEF RequestFits, CallsKept, Kept, CallsOpen, Open
<1>2. ASSUME NEW k \in 1..Len(rqts'), k = Len(rqts) + 1 PROVE RequestFits(k)'
  <2>1. rqts'[k] = x /\ (Inserted(k)' <=> IsInserted(x))
    BY <1>2, QueueGrows
  <2> QED
    BY <2>1 DEF RequestFits
<1>3. \A k \in 1..Len(rqts') : RequestFits(k)'
  BY <1>1, <1>2, QueueGrows
<1>4. ASSUME NEW j \in 1..Len(rqts'), NEW k \in 1..Len(rqts'), ~Inserted(j)', rqts'[j].of = rqts'[k].of
      PROVE  j = k
  <2>1. \A i \in 1..Len(rqts') : i \in 1..Len(rqts) \/ i = Len(rqts) + 1
    BY QueueGrows
  <2>2. /\ rqts'[Len(rqts) + 1] = x
        /\ \A i \in 1..Len(rqts) : rqts'[i] = rqts[i] /\ (Inserted(i)' <=> Inserted(i))
    BY QueueGrows
  <2>3. CASE j \in 1..Len(rqts) /\ k \in 1..Len(rqts)
    BY <1>4, <2>2, <2>3 DEF ListsFit, RequestsFit
  <2>4. CASE j \in 1..Len(rqts) /\ k = Len(rqts) + 1
    BY <1>4, <2>2, <2>4
  <2>5. CASE j = Len(rqts) + 1 /\ k \in 1..Len(rqts)
    <3>1. ~IsInserted(x)
      BY <1>4, <2>5, QueueGrows
    <3> QED
      BY <1>4, <2>2, <2>5, <3>1
  <2> QED
    BY <2>1, <2>3, <2>4, <2>5
<1>5. \A k \in 1..Len(rqts') : rqts'[k].way = "sync" /\ rqts'[k].code # "read" =>
          svcThread'.at = "wait" /\ svcThread'.call = rqts'[k].of
  <2> SUFFICES ASSUME NEW k \in 1..Len(rqts'), rqts'[k].way = "sync", rqts'[k].code # "read"
               PROVE  svcThread'.at = "wait" /\ svcThread'.call = rqts'[k].of
    OBVIOUS
  <2>1. CASE k \in 1..Len(rqts)
    <3>1. rqts'[k] = rqts[k]
      BY <2>1, QueueGrows
    <3>2. svcThread.at = "wait" /\ svcThread.call = rqts[k].of
      BY <2>1, <3>1 DEF ListsFit, RequestsFit
    <3> QED
      BY <3>1, <3>2
  <2>2. CASE k = Len(rqts) + 1
    BY <2>2, QueueGrows
  <2> QED
    BY <2>1, <2>2, QueueGrows
<1> QED
  BY <1>3, <1>4, <1>5 DEF RequestsFit

\* There is as much sent as there are nodes, but for that of the thread.
LEMMA SentIs ==
    ASSUME Types, ListsFit
    PROVE  /\ Len(svc.nodes) \in Nat /\ Sent \in Nat
           /\ svcThread.at = "send" => Len(svc.nodes) = Sent + 1
           /\ svcThread.at # "send" => Len(svc.nodes) = Sent
<1>1. svc.nodes \in Seq(Nat)
  BY DEF Types, SvcTypes
<1>2. svcThread.at = "send" => svc.nodes # <<>>
  BY DEF ListsFit, NodesMate, HandFits
<1>3. svcThread.at = "send" => Len(svc.nodes) # 0
  BY <1>1, <1>2
<1> QED
  BY <1>1, <1>3 DEF Sent

\* The thread sends a new synchronous call, and waits.
LEMMA WaitFits ==
    ASSUME Types, Types', ListsFit, NEW c, NewCall(c), Away, NEW x, Grown(rqts, rqts', x),
           x.of = Len(calls) + 1, x.way = "sync", c.way = "sync", x.device = c.device, x.code # "read",
           x.code = c.kind \/ (x.code = "size" /\ c.kind = "read"), overtaken' = overtaken,
           svcThread'.at = "wait", svcThread'.call = Len(calls) + 1, svc'.nodes = svc.nodes
    PROVE  ListsFit'
<1> DEFINE n == Len(calls) + 1
<1>1. /\ n \in 1..Len(calls') /\ calls'[n] = c /\ c.ret = "none"
      /\ \A m : ~Holds(m)' /\ ~Holds(m)
      /\ \A k \in 1..Len(rqts) : rqts[k].of # n
  <2>1. n \in 1..Len(calls') /\ calls'[n] = c /\ c.ret = "none"
    BY NothingRefersToNew DEF NewCall, Grown
  <2>2. \A m : ~Holds(m)' /\ ~Holds(m)
    BY DEF Holds, Away
  <2> QED
    BY <2>1, <2>2, NothingRefersToNew
<1>2. RequestsFit'
  BY <1>1, SentFits DEF NewCall, Away
<1>3. ThreadFits'
  <2>1. \E k \in 1..Len(rqts') : rqts'[k].of = svcThread'.call /\ rqts'[k].code # "read"
    BY QueueGrows
  <2> QED
    BY <1>1, <2>1 DEF ThreadFits
<1>4. NodesFit'
  <2>1. \A m : NodeFits(m) => NodeFits(m)'
    BY DEF NodeFits, NewCall, CallsKept, Kept, CallsOpen, Open
  <2>2. NodesFit
    BY DEF ListsFit
  <2> QED
    BY <2>1, <2>2 DEF NodesFit
<1>5. NodesMate'
  <2>1. ~IsInserted(x) /\ Sent' = Sent /\ Sent \in Nat
    <3>1. svcThread.at # "send"
      BY DEF Away
    <3> QED
      BY <3>1, SentIs DEF IsInserted, Sent
  <2>2. \E f : Mates(f)'
    BY <2>1, MatesGrow DEF ListsFit
  <2>3. HandFits'
    BY DEF HandFits
  <2> QED
    BY <2>2, <2>3 DEF NodesMate
<1> QED
  BY <1>2, <1>3, <1>4, <1>5 DEF ListsFit

\* A callback's call is sent at once.  It overtakes that of which the thread has inserted
\* the node.
LEMMA CallbackFits ==
    ASSUME Types, Types', ListsFit, NEW c, NewCall(c), NEW x, Grown(rqts, rqts', x), c.way = "async",
           x.of = Len(calls) + 1, x.way = "async", x.device = c.device, x.code = c.kind,
           svcThread' = svcThread, overtaken \subseteq overtaken',
           \/ c.kind = "read" /\ svc'.nodes = svc.nodes
           \/ /\ c.kind # "read" /\ svc'.nodes = Append(svc.nodes, Len(calls) + 1)
              /\ svcThread.at = "send" => {svcThread.call, Len(calls) + 1} \subseteq overtaken'
    PROVE  ListsFit'
<1> DEFINE n == Len(calls) + 1
<1>1. /\ n \in 1..Len(calls') /\ calls'[n] = c /\ c.ret = "none" /\ n \in Nat
      /\ \A m : Holds(m)' => Holds(m) /\ m # n
      /\ \A k \in 1..Len(rqts) : rqts[k].of # n /\ rqts[k].of < n
      /\ ~Away => svcThread.call # n
  <2>1. n \in 1..Len(calls') /\ calls'[n] = c /\ c.ret = "none"
    BY NothingRefersToNew DEF NewCall, Grown
  <2>2. \A m : Holds(m)' => Holds(m) /\ m # n
    BY NothingRefersToNew DEF Holds, Away
  <2> QED
    BY <2>1, <2>2, NothingRefersToNew
<1> HIDE DEF n
<1>2. RequestsFit'
  BY <1>1, SentFits DEF NewCall, n
<1>3. ThreadFits'
  <2>1. svcThread.at = "wait" =>
            \E k \in 1..Len(rqts') : rqts'[k].of = svcThread.call /\ rqts'[k].code # "read"
    BY QueueGrows DEF ListsFit, ThreadFits, Away
  <2> QED
    BY <1>1, <2>1 DEF ListsFit, ThreadFits, Away, NewCall, CallsKept, Kept, CallsOpen, Open
<1>4. NodesFit'
  <2>1. CASE svc'.nodes = svc.nodes
    <3>1. \A m : NodeFits(m) => NodeFits(m)'
      BY DEF NodeFits, NewCall, CallsKept, Kept, CallsOpen, Open
    <3>2. NodesFit
      BY DEF ListsFit
    <3> QED
      BY <2>1, <3>1, <3>2 DEF NodesFit
  <2>2. CASE svc'.nodes = Append(svc.nodes, Len(calls) + 1) /\ c.kind # "read"
    BY <2>2, NodeAppended
  <2> QED
    BY <2>1, <2>2
<1>5. NodesMate'
  <2>1. CASE c.kind = "read" /\ svc'.nodes = svc.nodes
    <3>1. ~IsInserted(x) /\ Sent' = Sent /\ Sent \in Nat
      BY <2>1, SentIs DEF IsInserted, Sent
    <3>2. \E f : Mates(f)'
      BY <2>1, <3>1, MatesGrow DEF ListsFit
    <3>3. HandFits'
      BY <2>1 DEF ListsFit, NodesMate, HandFits, Mated
    <3> QED
      BY <3>2, <3>3 DEF NodesMate
  <2>2. CASE c.kind # "read" /\ svc'.nodes = Append(svc.nodes, n)
    <3>1. /\ Len(svc.nodes) \in Nat /\ Len(svc'.nodes) = Len(svc.nodes) + 1
          /\ svc'.nodes[Len(svc.nodes) + 1] = n
          /\ \A i \in 1..Len(svc.nodes) : svc'.nodes[i] = svc.nodes[i]
      BY <2>2, NodeAppended DEF n
    <3>2. IsInserted(x) /\ x.of = n /\ Sent \in Nat
      BY <2>2, SentIs DEF IsInserted, n
    <3>3. Sent' = Sent + 1
      BY <3>1, SentIs DEF Sent
    <3>4. Mated(overtaken', svc'.nodes[Sent + 1], n) /\ \A i \in 1..Sent : svc'.nodes[i] = svc.nodes[i]
      <4>1. CASE svcThread.at # "send"
        <5>1. Sent = Len(svc.nodes)
          BY <4>1, SentIs
        <5> QED
          BY <3>1, <5>1 DEF Mated
      <4>2. CASE svcThread.at = "send"
        <5>1. Len(svc.nodes) = Sent + 1 /\ Len(svc.nodes) \in 1..Len(svc.nodes) /\ \A i \in 1..Sent : i \in 1..Len(svc.nodes)
          BY <3>2, <4>2, SentIs
        <5>2. svc'.nodes[Sent + 1] = svc.nodes[Len(svc.nodes)]
          BY <3>1, <5>1
        <5>3. Mated(overtaken, svc.nodes[Len(svc.nodes)], svcThread.call)
          BY <4>2 DEF ListsFit, NodesMate, HandFits
        <5>4. svcThread.call \in overtaken' /\ n \in overtaken'
          BY <2>2, <4>2, <3>1 DEF n
        <5> QED
          BY <3>1, <5>1, <5>2, <5>3, <5>4 DEF Mated
      <4> QED
        BY <4>1, <4>2
    <3>5. \E f : Mates(f)'
      BY <3>2, <3>3, <3>4, MatesGrow DEF ListsFit
    <3>6. HandFits'
      <4>1. svc'.nodes # <<>> /\ svc'.nodes[Len(svc'.nodes)] = n
        BY <3>1
      <4>2. svcThread.at = "send" => svcThread.call \in overtaken' /\ n \in overtaken'
        BY <2>2, <3>1 DEF n
      <4> QED
        BY <4>1, <4>2 DEF HandFits, Mated
    <3> QED
      BY <3>5, <3>6 DEF NodesMate
  <2> QED
    BY <2>1, <2>2 DEF n
<1> QED
  BY <1>2, <1>3, <1>4, <1>5 DEF ListsFit

\* The nodes stay those of open calls.
LEMMA NodesStay ==
    ASSUME NodesFit, svc'.nodes = svc.nodes, CallsKept,
           \A m \in 1..Len(calls) : calls[m].way = "async" => Open(m)
    PROVE  NodesFit'
<1>1. ASSUME NEW i \in 1..Len(svc.nodes) PROVE NodeFits(svc.nodes[i])'
  <2>1. NodeFits(svc.nodes[i])
    BY DEF NodesFit
  <2>2. PICK n : n = svc.nodes[i]
    OBVIOUS
  <2>3. n \in 1..Len(calls) /\ calls[n].ret = "none" /\ calls[n].way = "async" /\ calls[n].kind # "read"
    BY <2>1, <2>2 DEF NodeFits
  <2>4. n \in 1..Len(calls') /\ calls'[n].ret = "none" /\ calls'[n].way = "async" /\ calls'[n].kind # "read"
    BY <2>3 DEF CallsKept, Kept, Open
  <2> QED
    BY <2>2, <2>4 DEF NodeFits
<1> QED
  BY <1>1 DEF NodesFit

\* The thread sends the call it holds.
LEMMA HeldFits ==
    ASSUME Types, Types', ListsFit, svcThread.at \in {"send", "use"}, NEW x, Grown(rqts, rqts', x),
           CallsKept, CallsOpen, x.of = svcThread.call, x.way = calls[x.of].way,
           x.device = calls[x.of].device, x.code = calls[x.of].kind,
           svcThread'.call = svcThread.call, svc'.nodes = svc.nodes, overtaken' = overtaken,
           \/ svcThread'.at = "idle" /\ calls[x.of].way = "async"
           \/ svcThread'.at = "drain" /\ calls[x.of].way = "sync" /\ x.code = "read"
    PROVE  ListsFit'
<1> DEFINE n == svcThread.call
<1>1. /\ n \in 1..Len(calls) /\ n \in 1..Len(calls')
      /\ calls'[n].way = calls[n].way /\ calls'[n].device = calls[n].device
      /\ calls'[n].kind = calls[n].kind
      /\ svcThread.at = "send" => calls[n].way = "async" /\ calls[n].kind # "read"
      /\ svcThread.at = "use" => calls[n].kind = "read" /\ calls'[n].ret = "none"
  BY DEF ListsFit, ThreadFits, Away, CallsKept, Kept, CallsOpen, Open
<1>2. \A m : ~Holds(m)'
  BY DEF Holds
<1>3. ASSUME NEW k \in 1..Len(rqts), ~Inserted(k) \/ ~IsInserted(x) PROVE rqts[k].of # n
  <2>1. RequestFits(k)
    BY DEF ListsFit, RequestsFit
  <2>2. CASE ~Inserted(k)
    BY <2>1, <2>2 DEF RequestFits, Holds
  <2>3. CASE Inserted(k) /\ ~IsInserted(x)
    <3>1. svcThread.at = "use"
      BY <1>1, <2>3 DEF IsInserted
    <3>2. calls[n].kind = "read" /\ rqts[k].code # "read" /\ rqts[k].way # "sync"
      BY <1>1, <2>3, <3>1 DEF Inserted
    <3> QED
      BY <2>1, <3>2 DEF RequestFits
  <2> QED
    BY <1>3, <2>2, <2>3
<1>4. ~IsInserted(x) => svcThread.at = "use"
  BY <1>1 DEF IsInserted
<1>5. RequestsFit'
  <2>1. ~IsInserted(x) => calls'[n].ret = "none"
    BY <1>1, <1>4
  <2>2. \A m : Holds(m)' => Holds(m) /\ m # x.of
    BY <1>2
  <2>3. x.code = calls'[n].kind /\ calls'[n].way = x.way /\ calls'[n].device = x.device
    BY <1>1
  <2>4. x.way = "sync" /\ x.code # "read" => svcThread'.at = "wait" /\ svcThread'.call = x.of
    OBVIOUS
  <2> QED
    BY <1>1, <1>3, <2>1, <2>2, <2>3, <2>4, SentFits
<1>6. ThreadFits'
  BY <1>1 DEF ThreadFits, Away
<1>7. NodesFit'
  BY NodesStay DEF ListsFit, CallsOpen
<1>8. NodesMate'
  <2>1. CASE svcThread.at = "send"
    <3>1. IsInserted(x)
      BY <1>1, <2>1 DEF IsInserted
    <3>2. Sent \in Nat /\ Len(svc.nodes) = Sent + 1 /\ Sent' = Sent + 1
      BY <2>1, SentIs DEF Sent
    <3>3. Mated(overtaken', svc'.nodes[Sent + 1], x.of)
      <4>1. Mated(overtaken, svc.nodes[Len(svc.nodes)], svcThread.call)
        BY <2>1 DEF ListsFit, NodesMate, HandFits
      <4> QED
        BY <3>2, <4>1
    <3>4. \E f : Mates(f)'
      BY <3>1, <3>2, <3>3, MatesGrow DEF ListsFit
    <3> QED
      BY <3>4 DEF NodesMate, HandFits
  <2>2. CASE svcThread.at = "use"
    <3>1. ~IsInserted(x) /\ Sent \in Nat /\ Sent' = Sent
      BY <1>1, <2>2, SentIs DEF IsInserted, Sent
    <3>2. \E f : Mates(f)'
      BY <3>1, MatesGrow DEF ListsFit
    <3> QED
      BY <3>2 DEF NodesMate, HandFits
  <2> QED
    BY <2>1, <2>2
<1> QED
  BY <1>5, <1>6, <1>7, <1>8 DEF ListsFit

\* The thread is answered: it goes on with a read or its call ends.
LEMMA WokenFits ==
    ASSUME Types, ListsFit, svcThread.at = "woken", rqts' = rqts, svc'.nodes = svc.nodes, CallsKept,
           \A m \in 1..Len(calls) : m # svcThread.call => Open(m),
           svcThread'.call = svcThread.call, overtaken' = overtaken,
           \/ svcThread'.at = "idle"
           \/ svcThread'.at = "use" /\ calls[svcThread.call].kind = "read" /\ Open(svcThread.call)
    PROVE  ListsFit'
<1> DEFINE n == svcThread.call
<1>1. /\ n \in 1..Len(calls) /\ calls[n].ret = "none" /\ calls[n].way = "sync"
      /\ \A m : Holds(m)' => m = n
      /\ \A k \in 1..Len(rqts) : Inserted(k)' <=> Inserted(k)
      /\ \A k \in 1..Len(rqts) : ~Inserted(k) => rqts[k].of # n
  BY DEF ListsFit, ThreadFits, Away, Holds, RequestsFit, RequestFits, Inserted
<1>2. RequestsFit'
  <2>1. \A k \in 1..Len(rqts) : RequestFits(k)'
    <3> SUFFICES ASSUME NEW k \in 1..Len(rqts) PROVE RequestFits(k)'
      OBVIOUS
    <3>1. RequestFits(k) /\ (~Inserted(k) => rqts[k].of # n)
      BY <1>1 DEF ListsFit, RequestsFit
    <3> QED
      BY <1>1, <3>1 DEF RequestFits, CallsKept, Kept, Open
  <2>2. \A k \in 1..Len(rqts) : ~(rqts[k].way = "sync" /\ rqts[k].code # "read")
    BY DEF ListsFit, RequestsFit
  <2>3. \A j, k \in 1..Len(rqts) : ~Inserted(j)' /\ rqts[j].of = rqts[k].of => j = k
    BY <1>1 DEF ListsFit, RequestsFit
  <2> QED
    BY <2>1, <2>2, <2>3 DEF RequestsFit
<1>3. ThreadFits'
  BY <1>1 DEF ThreadFits, Away, CallsKept, Kept, Open
<1>4. NodesFit'
  <2>1. \A m \in 1..Len(calls) : calls[m].way = "async" => Open(m)
    BY <1>1
  <2> QED
    BY <2>1, NodesStay DEF ListsFit
<1>5. NodesMate'
  <2>1. Sent' = Sent
    BY DEF Sent
  <2>2. \E f : Mates(f)'
    BY <2>1, MatesStay DEF ListsFit
  <2> QED
    BY <2>2 DEF NodesMate, HandFits
<1> QED
  BY <1>2, <1>3, <1>4, <1>5 DEF ListsFit

\* The first request is answered.
LEMMA QueueShrinks ==
    ASSUME Types, Types', ListsFit, rqts # <<>>, rqts' = Tail(rqts)
    PROVE  /\ 1 \in 1..Len(rqts) /\ Len(rqts') \in Nat /\ Head(rqts) = rqts[1]
           /\ \A k \in 1..Len(rqts') : /\ rqts'[k] = rqts[k + 1] /\ k + 1 \in 1..Len(rqts) /\ k + 1 # 1
                                       /\ (Inserted(k)' <=> Inserted(k + 1))
           /\ \A k \in 1..Len(rqts) : k = 1 \/ (k - 1 \in 1..Len(rqts') /\ k = (k - 1) + 1)
<1>1. rqts \in Seq(Requests)
  BY DEF Types, SeqTypes
<1>2. /\ 1 \in 1..Len(rqts) /\ Len(rqts') \in Nat /\ Head(rqts) = rqts[1]
      /\ \A k \in 1..Len(rqts') : rqts'[k] = rqts[k + 1] /\ k + 1 \in 1..Len(rqts) /\ k + 1 # 1
      /\ \A k \in 1..Len(rqts) : k = 1 \/ (k - 1 \in 1..Len(rqts') /\ k = (k - 1) + 1)
  BY <1>1, OneLess
<1>3. \A k \in 1..Len(rqts') : Inserted(k)' <=> Inserted(k + 1)
  BY <1>2 DEF Inserted
<1> QED
  BY <1>2, <1>3

\* The callback that is called is that of the first request, or of one that it has overtaken
\* or been overtaken by.
LEMMA FirstIsCalled ==
    ASSUME Types, ListsFit, rqts # <<>>, IsInserted(rqts[1])
    PROVE  /\ svc.nodes # <<>> /\ Head(svc.nodes) = svc.nodes[1] /\ 1 \in 1..Len(svc.nodes)
           /\ Mated(overtaken, svc.nodes[1], rqts[1].of) /\ NodeFits(svc.nodes[1])
           /\ \A f : Mates(f) => f[1] = 1
<1>1. rqts \in Seq(Requests) /\ 1 \in 1..Len(rqts) /\ svc.nodes \in Seq(Nat) /\ Inserted(1)
      /\ \A k \in 1..Len(rqts) : k # 1 => 1 < k
  BY DEF Types, SeqTypes, SvcTypes, Inserted, IsInserted
<1>2. ASSUME NEW f, Mates(f) PROVE f[1] = 1 /\ f[1] \in 1..Sent
  <2>1. f[1] \in 1..Sent /\ Sent \in Nat
    BY <1>1, <1>2, SentIs DEF Mates
  <2>2. 1 \in 1..Sent
    BY <2>1
  <2>3. PICK k \in 1..Len(rqts) : Inserted(k) /\ f[k] = 1
    BY <1>2, <2>2 DEF Mates
  <2>4. k # 1 => f[1] < f[k]
    BY <1>1, <1>2, <2>3 DEF Mates
  <2> QED
    BY <2>1, <2>3, <2>4
<1>3. PICK f : Mates(f)
  BY DEF ListsFit, NodesMate
<1>4. f[1] = 1 /\ 1 \in 1..Sent /\ Mated(overtaken, svc.nodes[f[1]], rqts[1].of)
  <2>1. f[1] = 1 /\ f[1] \in 1..Sent
    BY <1>2, <1>3
  <2>2. Mated(overtaken, svc.nodes[f[1]], rqts[1].of)
    BY <1>1, <1>3 DEF Mates
  <2> QED
    BY <2>1, <2>2
<1>5. 1 \in 1..Len(svc.nodes)
  BY <1>4, SentIs
<1>6. svc.nodes # <<>> /\ Head(svc.nodes) = svc.nodes[1]
  BY <1>1, <1>5
<1>7. NodeFits(svc.nodes[1])
  BY <1>5 DEF ListsFit, NodesFit
<1> QED
  BY <1>2, <1>4, <1>5, <1>6, <1>7

\* The node and the request of the same place go together.
LEMMA MatesShrink ==
    ASSUME Types, Types', ListsFit, rqts # <<>>, rqts' = Tail(rqts), overtaken' = overtaken,
           \/ ~IsInserted(rqts[1]) /\ svc'.nodes = svc.nodes /\ Sent' = Sent
           \/ IsInserted(rqts[1]) /\ svc'.nodes = Tail(svc.nodes) /\ Sent' = Sent - 1
    PROVE  \E f : Mates(f)'
<1>1. PICK f : Mates(f)
  BY DEF ListsFit, NodesMate
<1>2. PICK gone, sent : gone = (IF IsInserted(rqts[1]) THEN 1 ELSE 0) /\ sent = Sent
  OBVIOUS
<1>3. PICK g : g = [k \in 1..Len(rqts') |-> f[k + 1] - gone]
  OBVIOUS
<1>4. /\ 1 \in 1..Len(rqts) /\ Len(rqts') \in Nat
      /\ \A k \in 1..Len(rqts') : /\ rqts'[k] = rqts[k + 1] /\ k + 1 \in 1..Len(rqts) /\ k + 1 # 1
                                  /\ (Inserted(k)' <=> Inserted(k + 1)) /\ 1 < k + 1
      /\ \A k \in 1..Len(rqts) : k = 1 \/ (k - 1 \in 1..Len(rqts') /\ k = (k - 1) + 1)
  BY QueueShrinks
<1>5. sent \in Nat /\ gone \in {0, 1} /\ Sent' = sent - gone /\ (gone = 1 <=> IsInserted(rqts[1]))
      /\ (Inserted(1) <=> IsInserted(rqts[1]))
  BY <1>2, SentIs DEF Inserted, IsInserted
<1>6. gone = 1 => f[1] = 1
  BY <1>1, <1>5, FirstIsCalled
<1>7. ASSUME NEW k \in 1..Len(rqts), k # 1, Inserted(k) PROVE f[k] - gone \in 1..Sent' /\ f[k] \in 1..sent
  <2>1. f[k] \in 1..sent
    BY <1>1, <1>2, <1>7 DEF Mates
  <2>2. gone = 1 => f[1] < f[k]
    <3>1. 1 < k
      BY <1>4, <1>7
    <3> QED
      BY <1>1, <1>4, <1>5, <1>7, <3>1 DEF Mates
  <2> QED
    BY <1>5, <1>6, <2>1, <2>2
<1>8. ASSUME NEW i \in 1..Sent' PROVE i + gone \in 1..Len(svc.nodes) /\ svc'.nodes[i] = svc.nodes[i + gone]
  <2>1. i + gone \in 1..Len(svc.nodes) /\ i \in Nat
    BY <1>5, SentIs
  <2>2. CASE gone = 0
    BY <1>5, <2>1, <2>2
  <2>3. CASE gone = 1
    <3>1. svc'.nodes = Tail(svc.nodes) /\ svc.nodes \in Seq(Nat)
      BY <1>5, <2>3 DEF Types, SvcTypes
    <3>2. i \in 1..Len(Tail(svc.nodes))
      BY <2>1, <2>3, <3>1
    <3> QED
      BY <2>1, <2>3, <3>1, <3>2
  <2> QED
    BY <1>5, <2>2, <2>3
<1>9. ASSUME NEW k \in 1..Len(rqts'), Inserted(k)'
      PROVE  g[k] \in 1..Sent' /\ Mated(overtaken', svc'.nodes[g[k]], rqts'[k].of)
  <2>1. Inserted(k + 1) /\ k + 1 \in 1..Len(rqts) /\ k + 1 # 1 /\ rqts'[k] = rqts[k + 1]
    BY <1>4, <1>9
  <2>2. g[k] = f[k + 1] - gone /\ g[k] \in 1..Sent' /\ f[k + 1] \in 1..sent
    BY <1>3, <1>7, <2>1
  <2>3. g[k] + gone = f[k + 1]
    BY <1>5, <2>2
  <2>4. svc'.nodes[g[k]] = svc.nodes[f[k + 1]]
    BY <1>8, <2>2, <2>3
  <2>5. Mated(overtaken, svc.nodes[f[k + 1]], rqts[k + 1].of)
    BY <1>1, <2>1 DEF Mates
  <2> QED
    BY <2>1, <2>2, <2>4, <2>5
<1>10. ASSUME NEW j \in 1..Len(rqts'), NEW k \in 1..Len(rqts'), j < k, Inserted(j)', Inserted(k)'
       PROVE  g[j] < g[k]
  <2>1. /\ Inserted(j + 1) /\ Inserted(k + 1) /\ j + 1 < k + 1
        /\ j + 1 \in 1..Len(rqts) /\ k + 1 \in 1..Len(rqts) /\ j + 1 # 1 /\ k + 1 # 1
    BY <1>4, <1>10
  <2>2. f[j + 1] < f[k + 1]
    BY <1>1, <2>1 DEF Mates
  <2>3. f[j + 1] \in 1..sent /\ f[k + 1] \in 1..sent
    BY <1>7, <2>1
  <2> QED
    BY <1>3, <1>5, <2>2, <2>3
<1>11. ASSUME NEW i \in 1..Sent' PROVE \E k \in 1..Len(rqts') : Inserted(k)' /\ g[k] = i
  <2>1. i + gone \in 1..sent /\ i \in Nat
    BY <1>5
  <2>2. PICK l \in 1..Len(rqts) : Inserted(l) /\ f[l] = i + gone
    BY <1>1, <1>2, <2>1 DEF Mates
  <2>3. l # 1
    <3>1. gone = 1 => f[l] # 1
      BY <2>1, <2>2, <1>11
    <3> QED
      BY <1>5, <1>6, <2>2, <3>1
  <2>4. PICK k \in 1..Len(rqts') : l = k + 1
    BY <1>4, <2>3
  <2>5. g[k] = f[l] - gone
    BY <1>3, <2>4
  <2>6. g[k] = i
    BY <1>5, <2>1, <2>2, <2>5
  <2> QED
    BY <1>4, <2>2, <2>4, <2>6
<1>12. Mates(g)'
  BY <1>9, <1>10, <1>11 DEF Mates
<1> QED
  BY <1>12

\* The answered request is gone: what it leaves still fits.
LEMMA AnsweredFits ==
    ASSUME Types, Types', ListsFit, rqts # <<>>, rqts' = Tail(rqts), CallsKept, overtaken' = overtaken,
           \/ /\ ~IsInserted(rqts[1]) /\ svc'.nodes = svc.nodes
              /\ rqts[1].code = "read" /\ svcThread' = svcThread
              /\ \A m \in 1..Len(calls) : m # rqts[1].of => Open(m)
           \/ /\ ~IsInserted(rqts[1]) /\ svc'.nodes = svc.nodes /\ CallsOpen
              /\ rqts[1].way = "sync" /\ rqts[1].code # "read"
              /\ svcThread'.at = "woken" /\ svcThread'.call = svcThread.call
           \/ /\ IsInserted(rqts[1]) /\ svc'.nodes = Tail(svc.nodes) /\ svcThread' = svcThread
              /\ \A m \in 1..Len(calls) : m # svc.nodes[1] => Open(m)
    PROVE  ListsFit'
<1> DEFINE n == rqts[1].of
           \* Whom the answer is given to.
           m0 == IF IsInserted(rqts[1]) THEN svc.nodes[1] ELSE rqts[1].of
<1>1. RequestFits(1) /\ 1 \in 1..Len(rqts) /\ n \in 1..Len(calls) /\ (Inserted(1) <=> IsInserted(rqts[1]))
  BY QueueShrinks DEF ListsFit, RequestsFit, RequestFits, Inserted, IsInserted
<1>2. rqts[1].way = "sync" /\ rqts[1].code # "read" => svcThread.at = "wait" /\ svcThread.call = n
  BY <1>1 DEF ListsFit, RequestsFit
<1>3. \A m : Holds(m)' => Holds(m) \/ (m = n /\ ~IsInserted(rqts[1]))
  BY <1>2 DEF Holds
<1>4. \A m \in 1..Len(calls) : m # m0 => Open(m)
  BY DEF CallsOpen
<1>5. IsInserted(rqts[1]) => NodeFits(m0)
  BY FirstIsCalled
<1>6. ASSUME NEW k \in 1..Len(rqts), k # 1
      PROVE  /\ ~Inserted(k) => rqts[k].of # m0
             /\ ~IsInserted(rqts[1]) => rqts[k].of # n
  <2>1. ~IsInserted(rqts[1]) => rqts[k].of # n
    BY <1>1, <1>6 DEF ListsFit, RequestsFit
  <2>2. CASE IsInserted(rqts[1]) /\ ~Inserted(k)
    <3>1. RequestFits(k)
      BY DEF ListsFit, RequestsFit
    <3>2. calls[m0].way = "async" /\ calls[m0].kind # "read"
      BY <1>5, <2>2 DEF NodeFits
    <3>3. rqts[k].way # "async" \/ rqts[k].code = "read"
      BY <2>2 DEF Inserted
    <3>4. rqts[k].of = m0 => rqts[k].way = "async" /\ rqts[k].code # "read"
      BY <3>1, <3>2 DEF RequestFits
    <3> QED
      BY <2>2, <3>3, <3>4
  <2> QED
    BY <2>1, <2>2
<1>7. RequestsFit'
  <2>1. \A k \in 1..Len(rqts') : RequestFits(k)'
    <3> SUFFICES ASSUME NEW k \in 1..Len(rqts') PROVE RequestFits(k)'
      OBVIOUS
    <3>1. PICK i : i = k + 1
      OBVIOUS
    <3>2. RequestFits(i) /\ rqts'[k] = rqts[i] /\ i \in 1..Len(rqts) /\ i # 1 /\ (Inserted(k)' <=> Inserted(i))
      BY <3>1, QueueShrinks DEF ListsFit, RequestsFit
    <3>3. CASE Inserted(i)
      <4>1. PICK a : a = rqts[i].of
        OBVIOUS
      <4>2. a \in 1..Len(calls) /\ Kept(a)
        BY <3>2, <4>1 DEF RequestFits, CallsKept
      <4> QED
        BY <3>2, <3>3, <4>1, <4>2 DEF RequestFits, Kept
    <3>4. CASE ~Inserted(i)
      <4>1. PICK a : a = rqts[i].of
        OBVIOUS
      <4>2. /\ a # m0 /\ a \in 1..Len(calls) /\ (~IsInserted(rqts[1]) => a # n)
            /\ calls[a].ret = "none" /\ ~Holds(a)
        BY <1>6, <3>2, <3>4, <4>1 DEF RequestFits
      <4>3. Open(a)
        BY <1>4, <4>2
      <4>4. ~Holds(a)'
        BY <1>3, <4>2
      <4>5. Kept(a)
        BY <4>2 DEF CallsKept
      <4> QED
        BY <3>2, <3>4, <4>1, <4>2, <4>3, <4>4, <4>5 DEF RequestFits, Kept, Open
    <3> QED
      BY <3>3, <3>4
  <2>2. ASSUME NEW j \in 1..Len(rqts'), NEW k \in 1..Len(rqts'), ~Inserted(j)', rqts'[j].of = rqts'[k].of
        PROVE  j = k
    <3>1. ~Inserted(j + 1) /\ rqts[j + 1].of = rqts[k + 1].of /\ j + 1 \in 1..Len(rqts) /\ k + 1 \in 1..Len(rqts)
      BY <2>2, QueueShrinks
    <3>2. j + 1 = k + 1
      BY <3>1 DEF ListsFit, RequestsFit
    <3> QED
      BY <3>2
  <2>3. ASSUME NEW k \in 1..Len(rqts'), rqts'[k].way = "sync", rqts'[k].code # "read"
        PROVE  svcThread'.at = "wait" /\ svcThread'.call = rqts'[k].of
    <3>1. k + 1 \in 1..Len(rqts) /\ k + 1 # 1 /\ rqts'[k] = rqts[k + 1]
      BY QueueShrinks
    <3>2. svcThread.at = "wait" /\ svcThread.call = rqts[k + 1].of
      BY <2>3, <3>1 DEF ListsFit, RequestsFit
    <3>3. svcThread' = svcThread
      BY <1>2, <1>6, <3>1, <3>2
    <3> QED
      BY <3>1, <3>2, <3>3
  <2> QED
    BY <2>1, <2>2, <2>3 DEF RequestsFit
<1>8. ThreadFits'
  <2>1. svcThread.at \in {"woken", "use"} /\ ~Away => svcThread.call # m0
    <3>1. svcThread.at \in {"woken", "use"} => Holds(svcThread.call)
      BY DEF Holds
    <3>2. svcThread.at \in {"woken", "use"} => calls[svcThread.call].way = "sync" \/ calls[svcThread.call].kind = "read"
      BY DEF ListsFit, ThreadFits, Away
    <3>3. CASE IsInserted(rqts[1])
      BY <1>5, <3>2, <3>3 DEF NodeFits
    <3>4. CASE ~IsInserted(rqts[1])
      BY <1>1, <3>1, <3>4 DEF RequestFits
    <3> QED
      BY <3>3, <3>4
  <2>2. ASSUME svcThread.at = "wait", svcThread' = svcThread
        PROVE  /\ svcThread.call # m0
               /\ \E k \in 1..Len(rqts') : rqts'[k].of = svcThread.call /\ rqts'[k].code # "read"
    <3>1. PICK k \in 1..Len(rqts) : rqts[k].of = svcThread.call /\ rqts[k].code # "read"
      BY <2>2 DEF ListsFit, ThreadFits, Away
    <3>2. RequestFits(k) /\ calls[svcThread.call].way = "sync"
      BY <2>2 DEF ListsFit, ThreadFits, RequestsFit, Away
    <3>3. rqts[k].way = "sync" /\ k # 1 /\ ~Inserted(k)
      BY <2>2, <3>1, <3>2 DEF RequestFits, IsInserted, Inserted
    <3>4. svcThread.call # m0
      BY <1>6, <3>1, <3>3
    <3>5. k - 1 \in 1..Len(rqts') /\ k = (k - 1) + 1
      BY <3>3, QueueShrinks
    <3>6. rqts'[k - 1] = rqts[k]
      BY <3>5, QueueShrinks
    <3> QED
      BY <3>1, <3>4, <3>5, <3>6
  <2>3. svcThread' = svcThread \/ svcThread'.at = "woken"
    OBVIOUS
  <2>4. CASE svcThread' = svcThread
    <3>1. svcThread.at \in {"wait", "woken", "use"} => svcThread.call # m0
      BY <2>1, <2>2, <2>4 DEF Away
    <3>2. ~Away => svcThread.call \in 1..Len(calls) /\ Kept(svcThread.call)
      BY DEF ListsFit, ThreadFits, CallsKept
    <3>3. svcThread.at \in {"wait", "woken", "use"} => Open(svcThread.call)
      BY <1>4, <3>1, <3>2 DEF Away
    <3>4. ~Away' <=> ~Away
      BY <2>4 DEF Away
    <3>5. svcThread.at = "wait" => \E k \in 1..Len(rqts') : rqts'[k].of = svcThread.call /\ rqts'[k].code # "read"
      BY <2>2, <2>4
    <3> QED
      BY <2>4, <3>2, <3>3, <3>4, <3>5 DEF ListsFit, ThreadFits, Kept, Open
  <2>5. CASE svcThread'.at = "woken" /\ svcThread' # svcThread
    <3>1. svcThread.at = "wait" /\ svcThread'.call = n /\ Open(n) /\ calls[n].way = "sync" /\ calls[n].ret = "none"
      BY <1>1, <1>2, <2>5 DEF RequestFits, CallsOpen, IsInserted
    <3> QED
      BY <1>1, <2>5, <3>1 DEF ThreadFits, Away, CallsKept, Kept, Open
  <2> QED
    BY <2>3, <2>4, <2>5
<1>9. NodesFit'
  <2>1. CASE ~IsInserted(rqts[1])
    <3>1. ASSUME NEW m \in 1..Len(calls), calls[m].way = "async", calls[m].kind # "read" PROVE Open(m)
      <4>1. m # n \/ CallsOpen
        BY <1>1, <2>1, <3>1 DEF RequestFits, IsInserted
      <4> QED
        BY <1>4, <2>1, <4>1 DEF CallsOpen
    <3>2. svc'.nodes = svc.nodes
      BY <2>1
    <3>3. ASSUME NEW i \in 1..Len(svc.nodes) PROVE NodeFits(svc.nodes[i])'
      <4>1. NodeFits(svc.nodes[i])
        BY DEF ListsFit, NodesFit
      <4>2. PICK m : m = svc.nodes[i]
        OBVIOUS
      <4>3. NodeFits(m) /\ Open(m) /\ Kept(m)
        BY <3>1, <4>1, <4>2 DEF NodeFits, CallsKept
      <4> QED
        BY <3>2, <4>2, <4>3 DEF NodeFits, Kept, Open
    <3> QED
      BY <3>2, <3>3 DEF ListsFit, NodesFit
  <2>2. CASE IsInserted(rqts[1])
    <3>1. svc.nodes \in Seq(Nat) /\ 1 \in 1..Len(svc.nodes) /\ svc'.nodes = Tail(svc.nodes)
      BY <2>2, FirstIsCalled DEF Types, SvcTypes
    <3>2. PICK q, r : q = svc.nodes /\ r = svc'.nodes
      OBVIOUS
    <3>3. /\ \A k \in 1..Len(r) : r[k] = q[k + 1] /\ k + 1 \in 1..Len(q) /\ 1 < k + 1
          /\ \A j, k \in 1..Len(r) : j < k => j + 1 < k + 1
      BY <3>1, <3>2
    <3>4. \A i, j \in 1..Len(q) : i < j => q[i] < q[j]
      BY <3>2 DEF ListsFit, NodesFit
    <3>5. \A i, j \in 1..Len(r) : i < j => r[i] < r[j]
      BY <3>3, <3>4
    <3>6. ASSUME NEW i \in 1..Len(r) PROVE NodeFits(r[i])'
      <4>1. NodeFits(q[i + 1]) /\ q[1] < q[i + 1] /\ q[1] \in Nat /\ q[i + 1] \in Nat
        BY <3>1, <3>2, <3>3, <3>4 DEF ListsFit, NodesFit
      <4>2. PICK m : m = r[i]
        OBVIOUS
      <4>3. NodeFits(m) /\ m # m0
        <5>1. m = q[i + 1] /\ m0 = q[1]
          BY <2>2, <3>2, <3>3, <4>2
        <5> QED
          BY <4>1, <5>1
      <4>4. Open(m) /\ Kept(m)
        BY <1>4, <4>3 DEF NodeFits, CallsKept
      <4> QED
        BY <4>2, <4>3, <4>4 DEF NodeFits, Kept, Open
    <3> QED
      BY <3>2, <3>5, <3>6 DEF NodesFit
  <2> QED
    BY <2>1, <2>2
<1>10. NodesMate'
  <2>1. CASE ~IsInserted(rqts[1])
    <3>1. (svcThread'.at = "send" <=> svcThread.at = "send") /\ (svcThread.at = "send" => svcThread' = svcThread)
      BY <1>2, <2>1
    <3>2. Sent' = Sent
      BY <2>1, <3>1 DEF Sent
    <3>3. \E f : Mates(f)'
      BY <2>1, <3>2, MatesShrink
    <3>4. HandFits'
      BY <2>1, <3>1 DEF ListsFit, NodesMate, HandFits
    <3> QED
      BY <3>3, <3>4 DEF NodesMate
  <2>2. CASE IsInserted(rqts[1])
    <3>1. svc.nodes \in Seq(Nat) /\ 1 \in 1..Len(svc.nodes) /\ svc'.nodes = Tail(svc.nodes) /\ svcThread' = svcThread
      BY <2>2, FirstIsCalled DEF Types, SvcTypes
    <3>2. Len(svc.nodes) \in Nat /\ Len(svc'.nodes) = Len(svc.nodes) - 1
      BY <3>1
    <3>3. Sent' = Sent - 1
      BY <3>1, <3>2 DEF Sent
    <3>4. \E f : Mates(f)'
      BY <2>2, <3>1, <3>3, MatesShrink
    <3>5. HandFits'
      <4> SUFFICES ASSUME svcThread.at = "send"
                   PROVE  svc'.nodes # <<>> /\ Mated(overtaken, svc'.nodes[Len(svc'.nodes)], svcThread.call)
        BY <3>1 DEF HandFits
      <4>1. PICK f : Mates(f)
        BY DEF ListsFit, NodesMate
      <4>2. 1 \in 1..Sent
        <5>1. f[1] = 1 /\ f[1] \in 1..Sent
          BY <1>1, <2>2, <4>1, FirstIsCalled DEF Mates
        <5> QED
          BY <5>1
      <4>3. Len(svc.nodes) = Sent + 1 /\ Sent \in Nat
        BY SentIs
      <4>4. Len(svc'.nodes) \in 1..Len(svc'.nodes) /\ svc'.nodes[Len(svc'.nodes)] = svc.nodes[Len(svc.nodes)]
        BY <3>1, <3>2, <4>2, <4>3
      <4> QED
        BY <4>4 DEF ListsFit, NodesMate, HandFits
    <3> QED
      BY <3>4, <3>5 DEF NodesMate
  <2> QED
    BY <2>1, <2>2
<1> QED
  BY <1>7, <1>8, <1>9, <1>10 DEF ListsFit

\* When nothing has been overtaken, a request is of the call whose node is in its place.
LEMMA OwnWhenNoneOvertakes ==
    ASSUME Types, ListsFit, overtaken = {}
    PROVE  OwnInv
<1>1. PICK f : Mates(f)
  BY DEF ListsFit, NodesMate
<1>2. \A m, n : Mated(overtaken, m, n) => m = n
  BY DEF Mated
<1>3. ASSUME NEW k \in 1..Len(rqts), Inserted(k)
      PROVE  f[k] \in 1..Sent /\ svc.nodes[f[k]] = rqts[k].of /\ f[k] \in 1..Len(svc.nodes)
  <2>1. f[k] \in 1..Sent /\ svc.nodes[f[k]] = rqts[k].of
    BY <1>1, <1>2, <1>3 DEF Mates
  <2> QED
    BY <2>1, SentIs
<1>4. \A i, j \in 1..Len(svc.nodes) : i < j => svc.nodes[i] # svc.nodes[j]
  <2>1. \A i \in 1..Len(svc.nodes) : svc.nodes[i] \in Nat
    BY DEF Types, SvcTypes
  <2> QED
    BY <2>1 DEF ListsFit, NodesFit
<1>5. svcThread.at = "send" =>
          Len(svc.nodes) \in 1..Len(svc.nodes) /\ svc.nodes[Len(svc.nodes)] = svcThread.call
  <2>1. svcThread.at = "send" => Mated(overtaken, svc.nodes[Len(svc.nodes)], svcThread.call)
    BY DEF ListsFit, NodesMate, HandFits
  <2> QED
    BY <1>2, <2>1, SentIs
<1>6. ASSUME NEW k \in 1..Len(rqts), Inserted(k) PROVE ~Holds(rqts[k].of)
  <2>1. NodeFits(rqts[k].of)
    BY <1>3, <1>6 DEF ListsFit, NodesFit
  <2>2. CASE svcThread.at = "send"
    <3>1. f[k] < Len(svc.nodes) /\ Len(svc.nodes) \in 1..Len(svc.nodes)
      BY <1>3, <1>5, <1>6, <2>2, SentIs
    <3>2. svc.nodes[f[k]] # svc.nodes[Len(svc.nodes)]
      BY <1>3, <1>4, <1>6, <3>1
    <3> QED
      BY <1>3, <1>5, <1>6, <2>2, <3>2 DEF Holds
  <2>3. CASE svcThread.at # "send"
    <3>1. svcThread.at \in {"woken", "use"} => calls[svcThread.call].way = "sync" \/ calls[svcThread.call].kind = "read"
      BY DEF ListsFit, ThreadFits, Away
    <3> QED
      BY <2>1, <2>3, <3>1 DEF Holds, NodeFits
  <2> QED
    BY <2>2, <2>3
<1>7. ASSUME NEW k \in 1..Len(rqts) PROVE RequestIsOwn(k)
  <2>1. RequestFits(k)
    BY DEF ListsFit, RequestsFit
  <2>2. CASE Inserted(k)
    <3>1. calls[rqts[k].of].ret = "none"
      BY <1>3, <2>2 DEF ListsFit, NodesFit, NodeFits
    <3> QED
      BY <1>6, <2>1, <2>2, <3>1 DEF RequestIsOwn
  <2>3. CASE ~Inserted(k)
    BY <2>1, <2>3 DEF RequestFits, RequestIsOwn
  <2> QED
    BY <2>2, <2>3
<1>8. ASSUME NEW j \in 1..Len(rqts), NEW k \in 1..Len(rqts), rqts[j].of = rqts[k].of PROVE j = k
  <2>1. CASE ~Inserted(j) \/ ~Inserted(k)
    BY <1>8, <2>1 DEF ListsFit, RequestsFit
  <2>2. ASSUME NEW a \in 1..Len(rqts), NEW b \in 1..Len(rqts), Inserted(a), Inserted(b), a < b
        PROVE  rqts[a].of # rqts[b].of
    <3>1. f[a] < f[b]
      BY <1>1, <2>2 DEF Mates
    <3> QED
      BY <1>3, <1>4, <2>2, <3>1
  <2>3. j < k \/ k < j \/ j = k
    OBVIOUS
  <2> QED
    BY <1>8, <2>1, <2>2, <2>3
<1>9. RequestsAreOwn
  BY <1>7, <1>8 DEF RequestsAreOwn, ListsFit, RequestsFit
<1>10. ThreadIsOwn
  <2>1. svcThread.at = "send" => calls[svcThread.call].ret = "none"
    BY <1>5 DEF ListsFit, NodesFit, NodeFits
  <2>2. svcThread.at \in Places
    BY DEF Types, ThreadTypes
  <2> QED
    BY <2>1, <2>2 DEF ThreadIsOwn, ListsFit, ThreadFits, Away, Places
<1> QED
  BY <1>9, <1>10 DEF OwnInv

-----------------------------------------------------------------------------
(* The steps of the code *)

SvcDiffer(fields) == \A f \in SvcFields \ fields : svc'[f] = svc[f]
IsNew(c, kind, d, way) ==
    /\ c \in CallRecords /\ c.kind = kind /\ c.device = d /\ c.way = way
    /\ Once(c, kind)
    /\ c.kind \in {"claim", "release", "bus", "device", "unit"} => c.ret = "none"
\* A start of what runs, a stop of what others use, or one that comes too late.
Counted(kind) ==
    /\ SvcDiffer({"count", "pending"}) /\ ~svc'.pending
    /\ CountedAs(kind, svc'.count)
ToBeSent(kind, fields) ==
    /\ SvcDiffer({"pending", "async", "nodes"} \cup fields)
    /\ svc'.pending <=> svc.pending \/ kind \in Change2
    /\ kind = "start" => svc.count = 0
    /\ kind = "stop" => svc.count = 1
    /\ IsLate(kind) = {}
HistoryStays == met' = met /\ overtaken' = overtaken /\ lateStops' = lateStops
NodeOf(n, inserted) == svc'.nodes = IF inserted THEN Append(svc.nodes, n) ELSE svc.nodes

\* The state that the operators work on has its types.
LEMMA NowIs ==
    ASSUME Types
    PROVE  StateTypes(Now) /\ Now.svc = svc /\ Now.rqts = rqts /\ Now.calls = calls
  BY DEF Types, SvcTypes, SeqTypes, StateTypes, Now

\* The state they make is the next one.
LEMMA BecomesIs ==
    ASSUME NEW s, StateTypes(s), Becomes(s)
    PROVE  /\ svc' = s.svc /\ rqts' = s.rqts /\ calls' = s.calls
           /\ SvcTypes' /\ SeqTypes'
  BY DEF Becomes, StateTypes, SvcTypes, SeqTypes

\* A call behind the others keeps them.
LEMMA GrownKeeps ==
    ASSUME Types, NEW c, Grown(calls, calls', c), c.ret = "none" => c \in CallRecords
    PROVE  /\ CallsKept /\ CallsOpen /\ (c.ret = "none" => NewCall(c))
           /\ Len(calls') = Len(calls) + 1 /\ Len(calls) \in Nat
           /\ Len(calls) + 1 \in 1..Len(calls') /\ calls'[Len(calls) + 1] = c
           /\ \A m \in 1..Len(calls') : m \in 1..Len(calls) \/ m = Len(calls) + 1
           /\ \A m \in 1..Len(calls) : calls'[m] = calls[m]
<1>1. Len(calls) \in Nat /\ Len(calls') = Len(calls) + 1 /\ \A m \in 1..Len(calls) : calls'[m] = calls[m]
  BY DEF Types, SeqTypes, Grown
<1>2. /\ \A m \in 1..Len(calls) : m \in 1..Len(calls')
      /\ \A m \in 1..Len(calls') : m \in 1..Len(calls) \/ m = Len(calls) + 1
      /\ Len(calls) + 1 \in 1..Len(calls')
  BY <1>1
<1>3. CallsKept /\ CallsOpen
  BY <1>1, <1>2 DEF CallsKept, CallsOpen, Kept, Open
<1> QED
  BY <1>1, <1>2, <1>3 DEF NewCall, Grown

\* What a call of the thread does: it is over, taken by the thread, or sent.
ThreadCalls(kind, d, way, c) ==
    /\ IsNew(c, kind, d, way) /\ Grown(calls, calls', c)
    /\ \/ /\ c.ret # "none" /\ Counted(kind)
          /\ rqts' = rqts /\ svcThread'.at = "idle" /\ NodeOf(Len(calls) + 1, FALSE)
       \/ /\ c.ret = "none" /\ ToBeSent(kind, {})
          /\ svcThread'.call = Len(calls) + 1
          /\ \/ /\ svcThread'.at = "use" /\ kind = "read" /\ rqts' = rqts
                /\ way = "sync" => svc.info[d] # 0
                /\ NodeOf(Len(calls) + 1, FALSE)
             \/ /\ svcThread'.at = "send" /\ way = "async" /\ kind # "read" /\ rqts' = rqts
                /\ NodeOf(Len(calls) + 1, TRUE)
             \/ /\ svcThread'.at = "wait" /\ way = "sync"
                /\ NodeOf(Len(calls) + 1, FALSE)
                /\ \E x : /\ Grown(rqts, rqts', x) /\ x.of = Len(calls) + 1
                          /\ x.way = "sync" /\ x.device = d /\ x.code # "read"
                          /\ x.code = kind \/ (x.code = "size" /\ kind = "read")

\* A call of the thread.
LEMMA CallGoesIs ==
    ASSUME Types, NEW kind \in Services, NEW d \in Devices, NEW way \in Ways, CallGoes(kind, d, way)
    PROVE  /\ card' = card /\ begun' = begun /\ Types' /\ overtaken' = overtaken
           /\ met' = met \cup Meets(kind) /\ lateStops' = lateStops \cup IsLate(kind)
           /\ \E c : ThreadCalls(kind, d, way, c)
<1> DEFINE n == Len(calls) + 1
           code == IF kind = "read" THEN "size" ELSE kind
<1>1. /\ card' = card /\ begun' = begun /\ overtaken' = overtaken
      /\ met' = met \cup Meets(kind) /\ lateStops' = lateStops \cup IsLate(kind)
  BY DEF CallGoes
<1>2. PICK r : r = Prepared(kind, d, way)
  OBVIOUS
<1>3. PICK c \in CallRecords : PreparedAs(kind, d, way, r, c)
  BY <1>2, NowIs, PreparedIs
<1>4. IsNew(c, kind, d, way) /\ r.calls[n] = c /\ n \in Nat
  BY <1>3 DEF IsNew, Grown, Types, SeqTypes, PreparedAs
<1>5. /\ IF c.ret # "none" THEN Becomes(r) /\ svcThread' = [svcThread EXCEPT !.at = "idle"]
         ELSE /\ svcThread' = [call |-> n,
                               at |-> IF kind = "read" /\ ~(way = "sync" /\ svc.info[d] = 0) THEN "use"
                                      ELSE IF way = "sync" THEN "wait" ELSE "send"]
              /\ Becomes(IF way = "async" \/ (kind = "read" /\ svc.info[d] # 0) THEN r
                         ELSE Queue(r, code, n, d, "sync"))
  BY <1>2, <1>4 DEF CallGoes, ThreadGoes
<1>6. CardTypes'
  BY <1>1 DEF Types, CardTypes
<1>7. CASE c.ret # "none"
  <2>1. svc' = r.svc /\ rqts' = rqts /\ calls' = r.calls /\ SvcTypes' /\ SeqTypes'
    BY <1>3, <1>5, <1>7, BecomesIs DEF PreparedAs
  <2>2. Counted(kind)
    BY <1>3, <1>7, <2>1, NowIs DEF Counted, SvcDiffer, Differ, PreparedAs
  <2>3. NodeOf(n, FALSE)
    BY <2>2 DEF NodeOf, Counted, SvcDiffer, SvcFields
  <2>4. ThreadTypes' /\ svcThread'.at = "idle"
    BY <1>5, <1>7 DEF Types, ThreadTypes, Places
  <2>5. Types'
    BY <1>6, <2>1, <2>4 DEF Types
  <2> QED
    BY <1>1, <1>3, <1>4, <1>7, <2>1, <2>2, <2>3, <2>4, <2>5 DEF ThreadCalls, PreparedAs
<1>8. CASE c.ret = "none"
  <2>1. ThreadTypes' /\ svcThread'.call = n
    BY <1>4, <1>5, <1>8 DEF ThreadTypes, Places
  <2>2. CASE way = "async" \/ (kind = "read" /\ svc.info[d] # 0)
    <3>1. svc' = r.svc /\ rqts' = rqts /\ calls' = r.calls /\ SvcTypes' /\ SeqTypes'
      BY <1>3, <1>5, <1>8, <2>2, BecomesIs DEF PreparedAs
    <3>2. ToBeSent(kind, {})
      BY <1>3, <1>8, <3>1, NowIs DEF ToBeSent, SvcDiffer, Differ, PreparedAs
    <3>3. NodeOf(n, way = "async" /\ kind # "read")
      BY <1>3, <1>8, <3>1 DEF NodeOf, PreparedAs
    <3>4. \/ svcThread'.at = "use" /\ kind = "read" /\ (way = "sync" => svc.info[d] # 0)
          \/ svcThread'.at = "send" /\ way = "async" /\ kind # "read"
      BY <1>5, <1>8, <2>2
    <3>5. Types'
      BY <1>6, <2>1, <3>1 DEF Types
    <3>6. \/ kind = "read" /\ NodeOf(n, FALSE)
          \/ way = "async" /\ kind # "read" /\ NodeOf(n, TRUE)
      BY <3>3, <3>4 DEF NodeOf
    <3> QED
      BY <1>1, <1>3, <1>4, <1>8, <2>1, <3>1, <3>2, <3>4, <3>5, <3>6 DEF ThreadCalls, PreparedAs
  <2>3. CASE way = "sync" /\ ~(kind = "read" /\ svc.info[d] # 0)
    <3>1. PICK q : q = Queue(r, code, n, d, "sync")
      OBVIOUS
    <3>2. /\ StateTypes(q) /\ q.svc = r.svc /\ q.calls = r.calls
          /\ q.rqts = Append(rqts, [code |-> code, of |-> n, device |-> d, way |-> "sync"])
          /\ [code |-> code, of |-> n, device |-> d, way |-> "sync"] \in Requests
      <4>1. code \in Services \cup {"size"} /\ "sync" \in Ways
        BY DEF Ways
      <4>2. StateTypes(r) /\ r.rqts = rqts /\ n \in Nat
        BY <1>3, <1>4 DEF PreparedAs
      <4> HIDE DEF code, n
      <4>3. /\ StateTypes(q) /\ q.svc = r.svc /\ q.calls = r.calls
            /\ q.rqts = Append(r.rqts, [code |-> code, of |-> n, device |-> d, way |-> "sync"])
            /\ [code |-> code, of |-> n, device |-> d, way |-> "sync"] \in Requests
        BY <3>1, <4>1, <4>2, QueueIs
      <4> QED
        BY <4>2, <4>3
    <3>3. Becomes(q)
      BY <1>5, <1>8, <2>3, <3>1
    <3>4. svc' = r.svc /\ rqts' = q.rqts /\ calls' = r.calls /\ SvcTypes' /\ SeqTypes'
      BY <3>2, <3>3, BecomesIs
    <3>5. PICK x \in Requests : x = [code |-> code, of |-> n, device |-> d, way |-> "sync"]
      BY <3>2
    <3>6. /\ Grown(rqts, rqts', x) /\ x.of = n /\ x.way = "sync" /\ x.device = d /\ x.code # "read"
          /\ x.code = kind \/ (x.code = "size" /\ kind = "read")
      <4>1. rqts \in Seq(Requests) /\ rqts' = Append(rqts, x)
        BY <3>2, <3>4, <3>5 DEF Types, SeqTypes
      <4>2. Grown(rqts, rqts', x)
        BY <4>1, OneMore DEF Grown
      <4> QED
        BY <3>5, <4>2
    <3>7. ToBeSent(kind, {}) /\ NodeOf(n, FALSE)
      BY <1>3, <1>8, <2>3, <3>4, NowIs DEF ToBeSent, SvcDiffer, Differ, NodeOf, PreparedAs
    <3>8. svcThread'.at = "wait"
      BY <1>5, <1>8, <2>3
    <3>9. Types'
      BY <1>6, <2>1, <3>4 DEF Types
    <3> QED
      BY <1>1, <1>3, <1>4, <1>8, <2>1, <2>3, <3>4, <3>6, <3>7, <3>8, <3>9 DEF ThreadCalls, PreparedAs
  <2> QED
    BY <2>2, <2>3 DEF Ways
<1> QED
  BY <1>7, <1>8

\* What a call of a callback does: it is over, or sent.
CallbackCalls(kind, d, c) ==
    /\ IsNew(c, kind, d, "async") /\ Grown(calls, calls', c)
    /\ \/ /\ c.ret # "none" /\ Counted(kind) /\ rqts' = rqts
          /\ NodeOf(Len(calls) + 1, FALSE)
       \/ /\ c.ret = "none"
          /\ \E x : /\ Grown(rqts, rqts', x) /\ x.of = Len(calls) + 1
                    /\ x.way = "async" /\ x.device = d /\ x.code = kind
          /\ \/ /\ kind # "read" /\ ToBeSent(kind, {})
                /\ NodeOf(Len(calls) + 1, TRUE)
             \/ /\ kind = "read" /\ ToBeSent(kind, {"wait", "failed"})
                /\ svc'.wait /\ c.size = svc.info[d]
                /\ svc'.failed <=> ~svc.rw \/ \E k \in 1..Len(rqts) : rqts[k].code = "read"
                /\ NodeOf(Len(calls) + 1, FALSE)

CallbackOvertakes(kind, d, c) ==
    /\ CallbackCalls(kind, d, c)
    /\ svcThread.at = "send" /\ c.ret = "none" /\ kind # "read" =>
           {svcThread.call, Len(calls) + 1} \subseteq overtaken'

\* A call of a callback.
LEMMA CallInCallbackIs ==
    ASSUME Types, NEW kind \in Services, NEW d \in Devices, CallInCallback(kind, d)
    PROVE  /\ ~svc.failed /\ card' = card /\ svcThread' = svcThread /\ begun' = begun /\ Types'
           /\ Accepted(kind, d, "async") /\ lateStops' = lateStops \cup IsLate(kind)
           /\ Meets(kind) \subseteq met' /\ (kind = "read" /\ SyncReadBegun => "read" \in met')
           /\ met \subseteq met' /\ overtaken \subseteq overtaken'
           /\ \E c : CallbackOvertakes(kind, d, c)
<1> DEFINE n == Len(calls) + 1
<1>1. /\ ~svc.failed /\ card' = card /\ svcThread' = svcThread /\ begun' = begun
      /\ Accepted(kind, d, "async") /\ lateStops' = lateStops \cup IsLate(kind)
      /\ Meets(kind) \subseteq met' /\ (kind = "read" /\ SyncReadBegun => "read" \in met')
      /\ met \subseteq met' /\ overtaken \subseteq overtaken'
  BY DEF CallInCallback
<1>2. PICK r : r = Prepared(kind, d, "async")
  OBVIOUS
<1>3. PICK c \in CallRecords : PreparedAs(kind, d, "async", r, c)
  <2>1. "async" \in Ways
    BY DEF Ways
  <2> QED
    BY <1>2, <2>1, NowIs, PreparedIs
<1>4. /\ IsNew(c, kind, d, "async") /\ r.calls[n] = c /\ n \in Nat /\ n \in 1..Len(r.calls)
      /\ Len(calls) \in Nat
  BY <1>3 DEF IsNew, Grown, Types, SeqTypes, PreparedAs
<1>5. /\ Becomes(IF c.ret # "none" THEN r
                 ELSE IF kind = "read" THEN Oper(r, n) ELSE Queue(r, kind, n, d, "async"))
      /\ svcThread.at = "send" /\ c.ret = "none" /\ kind # "read" => {svcThread.call, n} \subseteq overtaken'
  BY <1>2, <1>4 DEF CallInCallback
<1>6. CardTypes' /\ ThreadTypes'
  BY <1>1 DEF Types, CardTypes, ThreadTypes
<1>7. CASE c.ret # "none"
  <2>1. svc' = r.svc /\ rqts' = rqts /\ calls' = r.calls /\ SvcTypes' /\ SeqTypes'
    BY <1>3, <1>5, <1>7, BecomesIs DEF PreparedAs
  <2>2. Counted(kind)
    BY <1>3, <1>7, <2>1, NowIs DEF Counted, SvcDiffer, Differ, PreparedAs
  <2>3. NodeOf(n, FALSE)
    BY <2>2 DEF NodeOf, Counted, SvcDiffer, SvcFields
  <2>4. Types'
    BY <1>6, <2>1 DEF Types
  <2> QED
    BY <1>1, <1>3, <1>4, <1>7, <2>1, <2>2, <2>3, <2>4 DEF CallbackOvertakes, CallbackCalls, PreparedAs
<1>8. CASE c.ret = "none" /\ kind # "read"
  <2>1. PICK q : q = Queue(r, kind, n, d, "async")
    OBVIOUS
  <2>2. /\ StateTypes(q) /\ q.svc = r.svc /\ q.calls = r.calls
        /\ q.rqts = Append(rqts, [code |-> kind, of |-> n, device |-> d, way |-> "async"])
        /\ [code |-> kind, of |-> n, device |-> d, way |-> "async"] \in Requests
    <3>1. "async" \in Ways /\ kind \in Services \cup {"size"} /\ StateTypes(r) /\ r.rqts = rqts /\ n \in Nat
      BY <1>3, <1>4 DEF Ways, PreparedAs
    <3> HIDE DEF n
    <3>2. /\ StateTypes(q) /\ q.svc = r.svc /\ q.calls = r.calls
          /\ q.rqts = Append(r.rqts, [code |-> kind, of |-> n, device |-> d, way |-> "async"])
          /\ [code |-> kind, of |-> n, device |-> d, way |-> "async"] \in Requests
      BY <2>1, <3>1, QueueIs
    <3> QED
      BY <3>1, <3>2
  <2>3. svc' = r.svc /\ rqts' = q.rqts /\ calls' = r.calls /\ SvcTypes' /\ SeqTypes'
    <3>1. Becomes(q)
      BY <1>5, <1>8, <2>1
    <3> QED
      BY <2>2, <3>1, BecomesIs
  <2>4. PICK x \in Requests : x = [code |-> kind, of |-> n, device |-> d, way |-> "async"]
    BY <2>2
  <2>5. Grown(rqts, rqts', x) /\ x.of = n /\ x.way = "async" /\ x.device = d /\ x.code = kind
    <3>1. rqts \in Seq(Requests) /\ rqts' = Append(rqts, x)
      BY <2>2, <2>3, <2>4 DEF Types, SeqTypes
    <3>2. Grown(rqts, rqts', x)
      BY <3>1, OneMore DEF Grown
    <3> QED
      BY <2>4, <3>2
  <2>6. ToBeSent(kind, {}) /\ NodeOf(n, TRUE)
    BY <1>3, <1>8, <2>3, NowIs DEF ToBeSent, SvcDiffer, Differ, NodeOf, PreparedAs
  <2>7. Types'
    BY <1>6, <2>3 DEF Types
  <2> QED
    BY <1>1, <1>3, <1>4, <1>5, <1>8, <2>3, <2>5, <2>6, <2>7 DEF CallbackOvertakes, CallbackCalls, PreparedAs
<1>9. CASE c.ret = "none" /\ kind = "read"
  <2>1. PICK q : q = Oper(r, n)
    OBVIOUS
  <2>2. /\ StateTypes(q) /\ Differ(r, q, {"wait", "failed"}) /\ q.svc.wait
        /\ q.svc.failed <=> \/ r.svc.failed \/ ~r.svc.rw
                            \/ \E k \in DOMAIN rqts : rqts[k].code = "read"
        /\ q.calls = [r.calls EXCEPT ![n] = [c EXCEPT !.size = r.svc.info[d]]]
        /\ r.svc.info[d] \in Nat
        /\ q.rqts = Append(rqts, [code |-> "read", of |-> n, device |-> d, way |-> "async"])
        /\ [code |-> "read", of |-> n, device |-> d, way |-> "async"] \in Requests
    <3>1. /\ "read" \in Services /\ r.rqts = rqts /\ StateTypes(r) /\ n \in 1..Len(r.calls) /\ r.calls[n] = c
          /\ c.device = d /\ c.way = "async"
      BY <1>3, <1>4, <1>9 DEF PreparedAs
    <3> HIDE DEF n
    <3>2. LET c0 == r.calls[n]
          IN  /\ StateTypes(q) /\ Differ(r, q, {"wait", "failed"}) /\ q.svc.wait
              /\ q.svc.failed <=> \/ r.svc.failed \/ ~r.svc.rw
                                  \/ \E k \in DOMAIN r.rqts : r.rqts[k].code = "read"
              /\ q.calls = [r.calls EXCEPT ![n] = [c0 EXCEPT !.size = r.svc.info[c0.device]]]
              /\ r.svc.info[c0.device] \in Nat
              /\ q.rqts = Append(r.rqts, [code |-> "read", of |-> n, device |-> c0.device, way |-> c0.way])
              /\ [code |-> "read", of |-> n, device |-> c0.device, way |-> c0.way] \in Requests
      BY <2>1, <3>1, OperIs
    <3> QED
      BY <3>1, <3>2
  <2>3. svc' = q.svc /\ rqts' = q.rqts /\ calls' = q.calls /\ SvcTypes' /\ SeqTypes'
    <3>1. Becomes(q)
      BY <1>5, <1>9, <2>1
    <3> QED
      BY <2>2, <3>1, BecomesIs
  <2>4. PICK x \in Requests : x = [code |-> "read", of |-> n, device |-> d, way |-> "async"]
    BY <2>2
  <2>5. Grown(rqts, rqts', x) /\ x.of = n /\ x.way = "async" /\ x.device = d /\ x.code = kind
    <3>1. rqts \in Seq(Requests) /\ rqts' = Append(rqts, x)
      BY <2>2, <2>3, <2>4 DEF Types, SeqTypes
    <3>2. Grown(rqts, rqts', x)
      BY <3>1, OneMore DEF Grown
    <3> QED
      BY <1>9, <2>4, <3>2
  <2>6. Differ(Now, r, {"pending", "async", "nodes"}) /\ r.svc.nodes = svc.nodes
    BY <1>3, <1>9 DEF PreparedAs
  <2>7. /\ r.svc.info = svc.info /\ (r.svc.failed <=> svc.failed) /\ (r.svc.rw <=> svc.rw)
    BY <2>6, NowIs DEF Differ, SvcFields
  <2>8. /\ SvcDiffer({"pending", "async", "nodes", "wait", "failed"})
        /\ q.svc.pending = r.svc.pending /\ q.svc.nodes = r.svc.nodes
    BY <2>2, <2>3, <2>6, NowIs DEF SvcDiffer, Differ, SvcFields
  <2>9. ToBeSent(kind, {"wait", "failed"}) /\ NodeOf(n, FALSE)
    <3>1. {"pending", "async", "nodes", "wait", "failed"} = {"pending", "async", "nodes"} \cup {"wait", "failed"}
      OBVIOUS
    <3>2. SvcDiffer({"pending", "async", "nodes"} \cup {"wait", "failed"})
      BY <2>8, <3>1
    <3>3. svc'.pending = r.svc.pending /\ svc'.nodes = svc.nodes
      BY <2>3, <2>6, <2>8
    <3> QED
      BY <1>3, <1>9, <3>2, <3>3 DEF ToBeSent, NodeOf, PreparedAs
  <2>10. PICK c2 : c2 = [c EXCEPT !.size = svc.info[d]]
    OBVIOUS
  <2>11. /\ c2 \in CallRecords /\ c2.kind = kind /\ c2.device = d /\ c2.way = "async" /\ c2.ret = "none"
         /\ c2.times = c.times /\ c2.size = svc.info[d]
    <3>1. svc.info[d] \in Nat
      BY <2>2, <2>7
    <3> QED
      BY <1>3, <1>9, <2>10, <3>1 DEF CallRecords, PreparedAs
  <2>12. Grown(calls, calls', c2)
    <3>1. r.calls \in Seq(CallRecords) /\ calls' = [r.calls EXCEPT ![n] = c2]
      BY <1>3, <2>2, <2>3, <2>7, <2>10 DEF StateTypes, PreparedAs
    <3>2. Len(calls') = Len(r.calls) /\ calls'[n] = c2 /\ \A m \in 1..Len(r.calls) : m # n => calls'[m] = r.calls[m]
      BY <1>4, <2>11, <3>1, OneChanged
    <3>3. \A m \in 1..Len(calls) : m \in 1..Len(r.calls) /\ m # n /\ r.calls[m] = calls[m]
      BY <1>3, <1>4 DEF Grown, PreparedAs
    <3>4. Len(r.calls) = Len(calls) + 1
      BY <1>3 DEF Grown, PreparedAs
    <3> QED
      BY <3>2, <3>3, <3>4 DEF Grown
  <2>13. IsNew(c2, kind, d, "async")
    <3>1. Once(c, kind)
      BY <1>3 DEF PreparedAs
    <3>2. Once(c2, kind)
      BY <1>9, <2>11, <3>1 DEF Once
    <3> QED
      BY <2>11, <3>2 DEF IsNew
  <2>14. svc'.wait /\ (svc'.failed <=> ~svc.rw \/ \E k \in 1..Len(rqts) : rqts[k].code = "read")
    <3>1. DOMAIN rqts = 1..Len(rqts)
      BY DEF Types, SeqTypes
    <3> QED
      BY <1>1, <2>2, <2>3, <2>7, <3>1
  <2>15. Types'
    BY <1>6, <2>3 DEF Types
  <2> QED
    BY <1>1, <1>9, <2>5, <2>9, <2>11, <2>12, <2>13, <2>14, <2>15 DEF CallbackOvertakes, CallbackCalls, PreparedAs
<1> QED
  BY <1>7, <1>8, <1>9

\* What a reply changes of what is known, the nodes aside.
HandledAs(code, d, reply, more) ==
    /\ code = "start" =>
           /\ SvcDiffer({"info", "count", "pending", "rw", "registered"} \cup more)
           /\ svc'.info = IF svc.count = 0 THEN [e \in Devices |-> 0] ELSE svc.info
           /\ svc'.count = svc.count + 1 /\ ~svc'.pending /\ svc'.rw /\ svc'.registered
    /\ code = "stop" =>
           /\ SvcDiffer({"count", "pending", "rw", "failed"} \cup more)
           /\ svc'.count = svc.count - 1 /\ ~svc'.pending
           /\ svc'.failed <=> svc.failed \/ ~svc.rw \/ \E k \in 1..Len(rqts) : rqts[k].code = "read"
    /\ code \in Queries /\ reply.ok =>
           /\ SvcDiffer({"info"} \cup more)
           /\ svc'.info = [svc.info EXCEPT ![d] = reply.value]
    /\ code \notin Change2 /\ ~(code \in Queries /\ reply.ok) => SvcDiffer(more)

\* What Handled() makes of the state, told of the next one.
LEMMA HandledIsKnown ==
    ASSUME Types, NEW s, StateTypes(s), s.svc = svc, NEW rqt, rqt.device \in Devices, NEW reply \in Replies,
           NEW t, t = Handled(s, rqt, reply), NEW more, more = {} \/ more = {"nodes"},
           \A f \in SvcFields \ more : svc'[f] = t.svc[f]
    PROVE  HandledAs(rqt.code, rqt.device, reply, more)
<1>0. HandledAre(s, rqt, reply, t)
  BY HandledIs
<1>1. /\ svc'.info = t.svc.info /\ svc'.count = t.svc.count /\ svc'.pending = t.svc.pending
      /\ svc'.rw = t.svc.rw /\ svc'.registered = t.svc.registered /\ svc'.failed = t.svc.failed
  BY DEF SvcFields
<1>2. DOMAIN rqts = 1..Len(rqts)
  BY DEF Types, SeqTypes
<1>3. \A fields : Differ(s, t, fields) => SvcDiffer(fields \cup more)
  BY DEF Differ, SvcDiffer
<1>4. ASSUME rqt.code = "start"
      PROVE  /\ SvcDiffer({"info", "count", "pending", "rw", "registered"} \cup more)
             /\ svc'.info = IF svc.count = 0 THEN [e \in Devices |-> 0] ELSE svc.info
             /\ svc'.count = svc.count + 1 /\ ~svc'.pending /\ svc'.rw /\ svc'.registered
  <2>1. /\ Differ(s, t, {"info", "count", "pending", "rw", "registered"})
        /\ t.svc.info = IF s.svc.count = 0 THEN [d \in Devices |-> 0] ELSE s.svc.info
        /\ t.svc.count = s.svc.count + 1
        /\ ~t.svc.pending /\ t.svc.rw /\ t.svc.registered
    BY <1>0, <1>4 DEF HandledAre
  <2>2. SvcDiffer({"info", "count", "pending", "rw", "registered"} \cup more)
    BY <1>3, <2>1
  <2>3. ~svc'.pending /\ svc'.rw /\ svc'.registered
    BY <1>1, <2>1, Zenon
  <2>4. svc'.info = IF svc.count = 0 THEN [e \in Devices |-> 0] ELSE svc.info
    BY <1>1, <2>1
  <2>5. svc'.count = svc.count + 1
    BY <1>1, <2>1
  <2> QED
    BY <2>2, <2>3, <2>4, <2>5
<1>5. ASSUME rqt.code = "stop"
      PROVE  /\ SvcDiffer({"count", "pending", "rw", "failed"} \cup more)
             /\ svc'.count = svc.count - 1 /\ ~svc'.pending
             /\ svc'.failed <=> svc.failed \/ ~svc.rw \/ \E k \in 1..Len(rqts) : rqts[k].code = "read"
  <2>1. /\ Differ(s, t, {"count", "pending", "rw", "failed"})
        /\ t.svc.count = s.svc.count - 1 /\ ~t.svc.pending
        /\ t.svc.failed <=> s.svc.failed \/ ~s.svc.rw \/ \E k \in DOMAIN rqts : rqts[k].code = "read"
    BY <1>0, <1>5 DEF HandledAre
  <2>2. SvcDiffer({"count", "pending", "rw", "failed"} \cup more)
    BY <1>3, <2>1
  <2>3. /\ ~svc'.pending
        /\ svc'.failed <=> svc.failed \/ ~svc.rw \/ \E k \in 1..Len(rqts) : rqts[k].code = "read"
    BY <1>1, <1>2, <2>1, Zenon
  <2>4. svc'.count = svc.count - 1
    BY <1>1, <2>1
  <2> QED
    BY <2>2, <2>3, <2>4
<1>6. rqt.code \in Queries /\ reply.ok =>
          /\ SvcDiffer({"info"} \cup more)
          /\ svc'.info = [svc.info EXCEPT ![rqt.device] = reply.value]
  BY <1>0, <1>1, <1>3 DEF HandledAre
<1>7. rqt.code \notin Change2 /\ ~(rqt.code \in Queries /\ reply.ok) => SvcDiffer(more)
  <2> SUFFICES ASSUME rqt.code \notin Change2, ~(rqt.code \in Queries /\ reply.ok) PROVE SvcDiffer(more)
    OBVIOUS
  <2>1. t = s
    BY <1>0 DEF HandledAre
  <2> QED
    BY <2>1 DEF SvcDiffer
<1> QED
  BY <1>4, <1>5, <1>6, <1>7 DEF HandledAs

\* The end of CyAsMiscSendRequest().
LEMMA SendRequestIs ==
    ASSUME Types, ListsFit, SendRequest
    PROVE  /\ svcThread.at = "send" /\ ~svc.failed /\ svc' = svc /\ card' = card /\ calls' = calls /\ HistoryStays
           /\ svcThread'.at = "idle" /\ svcThread'.call = svcThread.call /\ Types'
           /\ LET c == calls[svcThread.call]
              IN  \E x : /\ Grown(rqts, rqts', x) /\ x.of = svcThread.call /\ x.way = c.way
                         /\ x.device = c.device /\ x.code = c.kind
<1> DEFINE n == svcThread.call
<1>1. /\ svcThread.at = "send" /\ ~svc.failed /\ card' = card /\ svcThread' = [svcThread EXCEPT !.at = "idle"]
      /\ HistoryStays
  BY DEF SendRequest, At, ThreadGoes, HistoryStays
<1>2. n \in 1..Len(calls) /\ calls[n] \in CallRecords /\ calls[n].way = "async" /\ n \in Nat
  BY <1>1 DEF ListsFit, ThreadFits, Away, Types, SeqTypes, ThreadTypes
<1>3. PICK c \in CallRecords : c = calls[n]
  BY <1>2
<1>4. PICK kind \in Services \cup {"size"}, d \in Devices : kind = c.kind /\ d = c.device
  BY DEF CallRecords
<1>5. PICK q : q = Queue(Now, kind, n, d, "async")
  OBVIOUS
<1>6. /\ StateTypes(q) /\ q.svc = svc /\ q.calls = calls
      /\ q.rqts = Append(rqts, [code |-> kind, of |-> n, device |-> d, way |-> "async"])
      /\ [code |-> kind, of |-> n, device |-> d, way |-> "async"] \in Requests
  <2>1. StateTypes(Now) /\ n \in Nat /\ "async" \in Ways
    BY <1>2, NowIs DEF Ways
  <2> HIDE DEF n
  <2>2. /\ StateTypes(q) /\ q.svc = Now.svc /\ q.calls = Now.calls
        /\ q.rqts = Append(Now.rqts, [code |-> kind, of |-> n, device |-> d, way |-> "async"])
        /\ [code |-> kind, of |-> n, device |-> d, way |-> "async"] \in Requests
    BY <1>5, <2>1, QueueIs
  <2> QED
    BY <2>2, NowIs
<1>7. Becomes(q)
  BY <1>3, <1>4, <1>5 DEF SendRequest
<1>8. svc' = svc /\ calls' = calls /\ rqts' = q.rqts /\ SvcTypes' /\ SeqTypes'
  BY <1>6, <1>7, BecomesIs
<1>9. PICK x \in Requests : x = [code |-> kind, of |-> n, device |-> d, way |-> "async"]
  BY <1>6
<1>10. Grown(rqts, rqts', x)
  <2>1. rqts \in Seq(Requests) /\ rqts' = Append(rqts, x)
    BY <1>6, <1>8, <1>9 DEF Types, SeqTypes
  <2> QED
    BY <2>1, OneMore DEF Grown
<1>11. CardTypes' /\ ThreadTypes' /\ svcThread'.at = "idle" /\ svcThread'.call = n
  BY <1>1 DEF Types, CardTypes, ThreadTypes, Places
<1> QED
  BY <1>1, <1>2, <1>3, <1>4, <1>8, <1>9, <1>10, <1>11 DEF Types

\* The request of a read by the thread.
LEMMA UseIs ==
    ASSUME Types, ListsFit, Use
    PROVE  LET n == svcThread.call
               c == calls[n]
           IN  /\ svcThread.at = "use" /\ ~svc.failed /\ card' = card /\ Types' /\ HistoryStays
               /\ SvcDiffer({"wait", "failed"}) /\ svc'.wait
               /\ svc'.failed <=> ~svc.rw \/ \E k \in 1..Len(rqts) : rqts[k].code = "read"
               /\ calls' = [calls EXCEPT ![n] = [c EXCEPT !.size = svc.info[c.device]]]
               /\ [c EXCEPT !.size = svc.info[c.device]] \in CallRecords
               /\ svcThread'.call = n
               /\ \/ svcThread'.at = "idle" /\ c.way = "async"
                  \/ svcThread'.at = "drain" /\ c.way = "sync"
               /\ \E x : /\ Grown(rqts, rqts', x) /\ x.of = n /\ x.way = c.way
                         /\ x.device = c.device /\ x.code = "read"
<1> DEFINE n == svcThread.call
<1>1. /\ svcThread.at = "use" /\ ~svc.failed /\ card' = card /\ Becomes(Oper(Now, n)) /\ HistoryStays
      /\ svcThread' = [svcThread EXCEPT !.at = IF calls[n].way = "sync" THEN "drain" ELSE "idle"]
  BY DEF Use, At, ThreadGoes, HistoryStays
<1>2. n \in 1..Len(calls) /\ calls[n].kind = "read" /\ calls \in Seq(CallRecords)
  BY <1>1 DEF ListsFit, ThreadFits, Away, Types, SeqTypes
<1>3. PICK c \in CallRecords : c = calls[n]
  BY <1>2
<1>4. "read" \in Services /\ c.way \in Ways
  BY <1>2, <1>3 DEF CallRecords
<1>5. PICK q : q = Oper(Now, n)
  OBVIOUS
<1>6. /\ StateTypes(q) /\ Differ(Now, q, {"wait", "failed"}) /\ q.svc.wait
      /\ q.svc.failed <=> svc.failed \/ ~svc.rw \/ \E k \in DOMAIN rqts : rqts[k].code = "read"
      /\ q.calls = [calls EXCEPT ![n] = [c EXCEPT !.size = svc.info[c.device]]]
      /\ svc.info[c.device] \in Nat
      /\ q.rqts = Append(rqts, [code |-> "read", of |-> n, device |-> c.device, way |-> c.way])
      /\ [code |-> "read", of |-> n, device |-> c.device, way |-> c.way] \in Requests
  <2>1. n \in 1..Len(Now.calls) /\ StateTypes(Now) /\ Now.calls[n] = c
    BY <1>2, <1>3, NowIs
  <2> HIDE DEF n
  <2>2. LET c0 == Now.calls[n]
        IN  /\ StateTypes(q) /\ Differ(Now, q, {"wait", "failed"}) /\ q.svc.wait
            /\ q.svc.failed <=> \/ Now.svc.failed \/ ~Now.svc.rw
                                \/ \E k \in DOMAIN Now.rqts : Now.rqts[k].code = "read"
            /\ q.calls = [Now.calls EXCEPT ![n] = [c0 EXCEPT !.size = Now.svc.info[c0.device]]]
            /\ Now.svc.info[c0.device] \in Nat
            /\ q.rqts = Append(Now.rqts, [code |-> "read", of |-> n, device |-> c0.device, way |-> c0.way])
            /\ [code |-> "read", of |-> n, device |-> c0.device, way |-> c0.way] \in Requests
    BY <1>4, <1>5, <2>1, OperIs
  <2> QED
    BY <2>1, <2>2, NowIs
<1>7. svc' = q.svc /\ rqts' = q.rqts /\ calls' = q.calls /\ SvcTypes' /\ SeqTypes'
  BY <1>1, <1>5, <1>6, BecomesIs
<1>8. PICK x \in Requests : x = [code |-> "read", of |-> n, device |-> c.device, way |-> c.way]
  BY <1>6
<1>9. Grown(rqts, rqts', x)
  <2>1. rqts \in Seq(Requests) /\ rqts' = Append(rqts, x)
    BY <1>6, <1>7, <1>8 DEF Types, SeqTypes
  <2> QED
    BY <2>1, OneMore DEF Grown
<1>10. SvcDiffer({"wait", "failed"}) /\ svc'.wait
       /\ (svc'.failed <=> ~svc.rw \/ \E k \in 1..Len(rqts) : rqts[k].code = "read")
  <2>1. DOMAIN rqts = 1..Len(rqts)
    BY DEF Types, SeqTypes
  <2> QED
    BY <1>1, <1>6, <1>7, <2>1, NowIs DEF SvcDiffer, Differ
<1>11. /\ CardTypes' /\ ThreadTypes' /\ svcThread'.call = n
       /\ \/ svcThread'.at = "idle" /\ c.way = "async"
          \/ svcThread'.at = "drain" /\ c.way = "sync"
  BY <1>1, <1>3, <1>4 DEF Types, CardTypes, ThreadTypes, Places, Ways
<1>12. Types' /\ [c EXCEPT !.size = svc.info[c.device]] \in CallRecords
  BY <1>6, <1>7, <1>11 DEF Types, CallRecords
<1> QED
  BY <1>1, <1>3, <1>6, <1>7, <1>8, <1>9, <1>10, <1>11, <1>12

\* The thread, awake, handles its reply.
LEMMA WokenIs ==
    ASSUME Types, ListsFit, Woken
    PROVE  LET n == svcThread.call
               c == calls[n]
           IN  /\ svcThread.at = "woken" /\ ~svc.failed /\ card' = card /\ rqts' = rqts /\ Types' /\ HistoryStays
               /\ n \in 1..Len(calls) /\ c \in CallRecords
               /\ svcThread'.call = n /\ HandledAs(IF c.kind = "read" THEN "size" ELSE c.kind, c.device, c.said, {})
               /\ \/ /\ c.kind # "read" /\ svcThread'.at = "idle"
                     /\ \E x \in CallRecords :
                            /\ Altered(calls, calls', n, x)
                            /\ x = [c EXCEPT !.ret = Result(c.kind, c.said), !.data = Data(c.kind, c.said)]
                  \/ c.kind = "read" /\ c.said.ok /\ svcThread'.at = "use" /\ calls' = calls
                  \/ /\ c.kind = "read" /\ ~c.said.ok /\ svcThread'.at = "idle"
                     /\ \E x \in CallRecords :
                            Altered(calls, calls', n, x) /\ x = [c EXCEPT !.ret = "INVALID_RESPONSE"]
<1> DEFINE n == svcThread.call
<1>1. /\ svcThread.at = "woken" /\ ~svc.failed /\ card' = card /\ HistoryStays
      /\ n \in 1..Len(calls) /\ calls \in Seq(CallRecords)
  BY DEF Woken, At, HistoryStays, ListsFit, ThreadFits, Away, Types, SeqTypes
<1>2. PICK c \in CallRecords : c = calls[n]
  BY <1>1
<1>3. PICK rqt : rqt = [code |-> IF c.kind = "read" THEN "size" ELSE c.kind, device |-> c.device]
  OBVIOUS
<1>4. rqt.device \in Devices /\ c.said \in Replies /\ rqt.device = c.device
  BY <1>3 DEF CallRecords
<1>5. PICK t : t = Handled(Now, rqt, c.said)
  OBVIOUS
<1>6. PICK ret, data : ret = Result(c.kind, c.said) /\ data = Data(c.kind, c.said)
  OBVIOUS
<1>7. ret \in Rets /\ data \in Nat /\ "INVALID_RESPONSE" \in Rets
  BY <1>4, <1>6, RepliesAreResults DEF Rets
<1>8. StateTypes(t) /\ t.rqts = rqts /\ t.calls = calls
  <2>1. HandledAre(Now, rqt, c.said, t)
    BY <1>4, <1>5, NowIs, HandledIs
  <2> QED
    BY <2>1, NowIs DEF HandledAre, SameLists
<1>9. PICK s : s = IF c.kind # "read"
                   THEN [t EXCEPT !.calls[n].ret = ret, !.calls[n].data = data]
                   ELSE IF c.said.ok THEN t
                   ELSE [t EXCEPT !.calls[n].ret = "INVALID_RESPONSE"]
  OBVIOUS
<1>10. /\ Becomes(s)
       /\ svcThread' = [svcThread EXCEPT !.at = IF c.kind = "read" /\ c.said.ok THEN "use" ELSE "idle"]
  <2>1. t = Handled(Now, [code |-> IF calls[n].kind = "read" THEN "size" ELSE calls[n].kind,
                          device |-> calls[n].device], calls[n].said)
    BY <1>2, <1>3, <1>5
  <2> HIDE DEF Handled
  <2> QED
    BY <1>2, <1>6, <1>9, <2>1 DEF Woken, ThreadGoes
<1>11. DOMAIN t = {"svc", "rqts", "calls"} /\ n \in DOMAIN calls
  BY <1>1, <1>8 DEF StateTypes
<1>12. ASSUME c.kind # "read"
       PROVE  /\ DOMAIN s = {"svc", "rqts", "calls"} /\ s.svc = t.svc /\ s.rqts = rqts
              /\ s.calls = [calls EXCEPT ![n] = [c EXCEPT !.ret = ret, !.data = data]]
  <2>1. s = [t EXCEPT !.calls[n].ret = ret, !.calls[n].data = data]
    BY <1>9, <1>12
  <2>2. PICK s1 : s1 = [t EXCEPT !.calls[n].ret = ret]
    OBVIOUS
  <2>3. PICK q1 : q1 = [calls EXCEPT ![n] = [c EXCEPT !.ret = ret]]
    OBVIOUS
  <2>4. s = [s1 EXCEPT !.calls[n].data = data]
    BY <2>1, <2>2
  <2>5. DOMAIN s1 = DOMAIN t /\ s1.svc = t.svc /\ s1.rqts = rqts /\ s1.calls = q1
    BY <1>2, <1>8, <1>11, <2>2, <2>3
  <2>6. q1[n] = [c EXCEPT !.ret = ret]
    BY <1>11, <2>3
  <2>7. /\ DOMAIN s = {"svc", "rqts", "calls"} /\ s.svc = t.svc /\ s.rqts = rqts
        /\ s.calls = [q1 EXCEPT ![n] = [q1[n] EXCEPT !.data = data]]
    BY <1>11, <2>4, <2>5
  <2>8. [q1[n] EXCEPT !.data = data] = [c EXCEPT !.ret = ret, !.data = data]
    BY <2>6
  <2> QED
    BY <1>11, <2>3, <2>7, <2>8, FieldsChanged
<1>13. ASSUME c.kind = "read", ~c.said.ok
       PROVE  /\ DOMAIN s = {"svc", "rqts", "calls"} /\ s.svc = t.svc /\ s.rqts = rqts
              /\ s.calls = [calls EXCEPT ![n] = [c EXCEPT !.ret = "INVALID_RESPONSE"]]
  <2>1. s = [t EXCEPT !.calls[n].ret = "INVALID_RESPONSE"]
    BY <1>9, <1>13
  <2> QED
    BY <1>2, <1>8, <1>11, <2>1
<1>14. PICK x \in CallRecords : x = IF c.kind # "read" THEN [c EXCEPT !.ret = ret, !.data = data]
                                    ELSE [c EXCEPT !.ret = "INVALID_RESPONSE"]
  BY <1>7 DEF CallRecords
<1>15. /\ s.svc = t.svc /\ s.rqts = rqts /\ DOMAIN s = {"svc", "rqts", "calls"}
       /\ (c.kind = "read" /\ c.said.ok) => s.calls = calls
       /\ ~(c.kind = "read" /\ c.said.ok) => s.calls = [calls EXCEPT ![n] = x]
  <2>1. CASE c.kind = "read" /\ c.said.ok
    BY <1>8, <1>9, <1>11, <2>1
  <2>2. CASE c.kind # "read"
    BY <1>12, <1>14, <2>2
  <2>3. CASE c.kind = "read" /\ ~c.said.ok
    BY <1>13, <1>14, <2>3
  <2> QED
    BY <2>1, <2>2, <2>3
<1>16. StateTypes(s) /\ (~(c.kind = "read" /\ c.said.ok) => Altered(calls, s.calls, n, x))
  <2>1. CASE c.kind = "read" /\ c.said.ok
    BY <1>1, <1>8, <1>15, <2>1 DEF StateTypes
  <2>2. CASE ~(c.kind = "read" /\ c.said.ok)
    <3>1. s.calls = [calls EXCEPT ![n] = x]
      BY <1>15, <2>2
    <3>2. s.calls \in Seq(CallRecords) /\ Altered(calls, s.calls, n, x)
      BY <1>1, <3>1, OneChanged DEF Altered
    <3> QED
      BY <1>8, <1>15, <3>2 DEF StateTypes
  <2> QED
    BY <2>1, <2>2
<1>17. svc' = t.svc /\ rqts' = rqts /\ calls' = s.calls /\ SvcTypes' /\ SeqTypes'
  BY <1>10, <1>15, <1>16, BecomesIs
<1>18. HandledAs(rqt.code, rqt.device, c.said, {})
  <2>1. \A f \in SvcFields \ {} : svc'[f] = t.svc[f]
    BY <1>17
  <2>2. StateTypes(Now) /\ Now.svc = svc
    BY NowIs
  <2> QED
    BY <1>4, <1>5, <2>1, <2>2, HandledIsKnown
<1>19. /\ CardTypes' /\ ThreadTypes' /\ svcThread'.call = n
       /\ svcThread'.at = IF c.kind = "read" /\ c.said.ok THEN "use" ELSE "idle"
  <2>1. svcThread \in [at : Places, call : Nat] /\ CardTypes
    BY DEF Types, ThreadTypes
  <2>2. CardTypes'
    BY <1>1, <2>1 DEF CardTypes
  <2>3. PICK p \in Places : p = IF c.kind = "read" /\ c.said.ok THEN "use" ELSE "idle"
    BY DEF Places
  <2>4. svcThread' = [svcThread EXCEPT !.at = p]
    BY <1>10, <2>3
  <2> QED
    BY <2>1, <2>2, <2>3, <2>4 DEF ThreadTypes
<1>20. Types'
  BY <1>17, <1>19 DEF Types
<1>21. rqt.code = IF c.kind = "read" THEN "size" ELSE c.kind
  BY <1>3
<1>22. CASE c.kind # "read"
  <2>1. Altered(calls, calls', n, x) /\ svcThread'.at = "idle"
    BY <1>16, <1>17, <1>19, <1>22
  <2>2. x = [c EXCEPT !.ret = Result(c.kind, c.said), !.data = Data(c.kind, c.said)]
    BY <1>6, <1>14, <1>22
  <2> QED
    BY <1>1, <1>2, <1>4, <1>17, <1>18, <1>19, <1>20, <1>21, <1>22, <2>1, <2>2
<1>23. CASE c.kind = "read" /\ c.said.ok
  BY <1>1, <1>2, <1>4, <1>15, <1>17, <1>18, <1>19, <1>20, <1>21, <1>23
<1>24. CASE c.kind = "read" /\ ~c.said.ok
  <2>1. Altered(calls, calls', n, x) /\ svcThread'.at = "idle"
    BY <1>16, <1>17, <1>19, <1>24
  <2>2. x = [c EXCEPT !.ret = "INVALID_RESPONSE"]
    BY <1>14, <1>24
  <2> QED
    BY <1>1, <1>2, <1>4, <1>17, <1>18, <1>19, <1>20, <1>21, <1>24, <2>1, <2>2
<1> QED
  BY <1>22, <1>23, <1>24

\* A synchronous read has its reply.
LEMMA DrainedIs ==
    ASSUME Types, Drained
    PROVE  /\ svcThread.at = "drain" /\ calls[svcThread.call].ret # "none" /\ ~svc.failed /\ HistoryStays
           /\ svc' = svc /\ rqts' = rqts /\ calls' = calls /\ card' = card /\ Types'
           /\ svcThread'.at = "idle"
<1>1. /\ svcThread.at = "drain" /\ calls[svcThread.call].ret # "none" /\ ~svc.failed /\ HistoryStays
      /\ svc' = svc /\ rqts' = rqts /\ calls' = calls /\ card' = card
      /\ svcThread' = [svcThread EXCEPT !.at = "idle"]
  BY DEF Drained, At, ThreadGoes, HistoryStays
<1>2. svcThread'.at = "idle" /\ ThreadTypes'
  BY <1>1 DEF Types, ThreadTypes, Places
<1>3. SvcTypes' /\ CardTypes' /\ SeqTypes'
  BY <1>1 DEF Types, SvcTypes, CardTypes, SeqTypes
<1> QED
  BY <1>1, <1>2, <1>3 DEF Types

\* A change of a medium is told.
LEMMA MediaChangedIs ==
    ASSUME Types, card.mail # <<>>, ~svc.failed, NEW d, d = Head(card.mail).device, MediaChanged(d)
    PROVE  /\ (Disturbs => "change" \in met') /\ met \subseteq met' /\ overtaken' = overtaken /\ lateStops' = lateStops
           /\ d \in Devices /\ rqts' = rqts /\ calls' = calls /\ svcThread' = svcThread
           /\ Types' /\ SvcDiffer({"info"})
           /\ svc'.info = IF svc.registered THEN [svc.info EXCEPT ![d] = 0] ELSE svc.info
           /\ card' = [card EXCEPT !.mail = Tail(@), !.told = svc.registered]
<1>1. /\ (Disturbs => "change" \in met') /\ met \subseteq met' /\ overtaken' = overtaken /\ lateStops' = lateStops
      /\ svcThread' = svcThread
      /\ Becomes(IF svc.registered THEN Forgotten(Now, d) ELSE Now)
      /\ card' = [card EXCEPT !.mail = Tail(@), !.told = svc.registered]
  BY DEF MediaChanged
<1>2. /\ card.mail \in Seq(Messages) /\ Head(card.mail) \in Messages /\ Tail(card.mail) \in Seq(Messages)
      /\ DOMAIN card = {"running", "media", "mail", "told", "changes"}
  BY DEF Types, CardTypes
<1>3. d \in Devices
  BY <1>2 DEF Messages
<1>4. PICK s : s = IF svc.registered THEN Forgotten(Now, d) ELSE Now
  OBVIOUS
<1>5. /\ DOMAIN s = {"svc", "rqts", "calls"} /\ s.rqts = rqts /\ s.calls = calls
      /\ s.svc = IF svc.registered THEN [svc EXCEPT !.info = [svc.info EXCEPT ![d] = 0]] ELSE svc
  BY <1>4 DEF Forgotten, Now
<1>6. DOMAIN svc = SvcFields /\ svc.info \in [Devices -> Nat] /\ svc.nodes \in Seq(Nat) /\ svc.count \in Int
  BY DEF Types, SvcTypes
<1>7. /\ DOMAIN s.svc = SvcFields /\ \A f \in SvcFields \ {"info"} : s.svc[f] = svc[f]
      /\ s.svc.info = IF svc.registered THEN [svc.info EXCEPT ![d] = 0] ELSE svc.info
  BY <1>5, <1>6 DEF SvcFields
<1>8. s.svc.info \in [Devices -> Nat] /\ s.svc.nodes = svc.nodes /\ s.svc.count = svc.count
  BY <1>3, <1>6, <1>7 DEF SvcFields
<1>9. StateTypes(s)
  BY <1>5, <1>6, <1>7, <1>8 DEF StateTypes, Types, SeqTypes
<1>10. svc' = s.svc /\ rqts' = rqts /\ calls' = calls /\ SvcTypes' /\ SeqTypes'
  BY <1>1, <1>4, <1>5, <1>9, BecomesIs
<1>11. CardTypes' /\ ThreadTypes'
  <2>1. /\ DOMAIN card' = DOMAIN card /\ card'.media = card.media /\ card'.mail = Tail(card.mail)
        /\ card'.running = card.running
    BY <1>1, <1>2
  <2> QED
    BY <1>1, <1>2, <2>1 DEF Types, CardTypes, ThreadTypes
<1>12. SvcDiffer({"info"})
  BY <1>7, <1>10 DEF SvcDiffer
<1> QED
  BY <1>1, <1>3, <1>7, <1>10, <1>11, <1>12 DEF Types

\* A call with its reply: what it was stays.
Given(c, x, reply) ==
    /\ x \in CallRecords /\ x.kind = c.kind /\ x.way = c.way /\ x.device = c.device
    /\ x.size = c.size /\ x.said = reply
Unanswered(c, x, reply) == Given(c, x, reply) /\ x.ret = c.ret /\ x.data = c.data /\ x.times = c.times
\* A call that is called back.
CallsBack(c, y, code, reply) ==
    /\ y \in CallRecords /\ y.kind = c.kind /\ y.way = c.way /\ y.device = c.device
    /\ y.size = c.size /\ y.said = c.said
    /\ y.ret = Result(code, reply) /\ y.data = Data(code, reply) /\ y.times = c.times + 1
\* The reply is that to the request of n; the one that is called back is m.
Answers2(n, m, code, reply) ==
    \E q, x, y : /\ Unanswered(calls[n], x, reply) /\ Altered(calls, q, n, x)
                 /\ CallsBack(q[m], y, code, reply) /\ Altered(q, calls', m, y)
Reads2(n, reply) ==
    \E x : /\ Given(calls[n], x, reply) /\ Altered(calls, calls', n, x)
           /\ x.ret \in {"SUCCESS", "ERROR"} /\ x.data = calls[n].data
           /\ x.times = calls[n].times + IF calls[n].way = "async" THEN 1 ELSE 0

\* A response.
LEMMA ResponseIs ==
    ASSUME Types, ListsFit, rqts # <<>>, card.mail # <<>>, NEW reply, reply = Head(card.mail).reply,
           Response(reply)
    PROVE  LET rqt == rqts[1]
               n == rqt.of
               c == calls[n]
           IN  /\ reply \in Replies /\ n \in 1..Len(calls) /\ c \in CallRecords /\ RequestFits(1)
               /\ rqts' = Tail(rqts) /\ card' = [card EXCEPT !.mail = Tail(@)] /\ Types' /\ HistoryStays
               /\ \/ /\ rqt.code = "read" /\ svcThread' = svcThread
                     /\ SvcDiffer({"wait", "async"}) /\ ~svc'.wait /\ Reads2(n, reply)
                  \/ /\ rqt.code # "read" /\ rqt.way = "sync" /\ svc' = svc
                     /\ svcThread'.at = "woken" /\ svcThread'.call = svcThread.call
                     /\ \E x : Unanswered(c, x, reply) /\ Altered(calls, calls', n, x)
                  \/ /\ IsInserted(rqt) /\ svcThread' = svcThread
                     /\ HandledAs(rqt.code, rqt.device, reply, {"nodes"})
                     /\ svc'.nodes = Tail(svc.nodes) /\ svc.nodes[1] \in 1..Len(calls)
                     /\ Answers2(n, svc.nodes[1], rqt.code, reply)
<1>1. /\ card.mail \in Seq(Messages) /\ Head(card.mail) \in Messages /\ Tail(card.mail) \in Seq(Messages)
      /\ DOMAIN card = {"running", "media", "mail", "told", "changes"}
      /\ rqts \in Seq(Requests) /\ Tail(rqts) \in Seq(Requests) /\ Head(rqts) = rqts[1] /\ rqts[1] \in Requests
      /\ calls \in Seq(CallRecords) /\ 1 \in 1..Len(rqts)
  BY DEF Types, CardTypes, SeqTypes
<1>2. reply \in Replies
  BY <1>1 DEF Messages
<1>3. RequestFits(1) /\ HistoryStays
  BY <1>1 DEF ListsFit, RequestsFit, Response, HistoryStays
<1>4. PICK rqt \in Requests : rqt = rqts[1]
  BY <1>1
<1>5. PICK n \in 1..Len(calls) : n = rqt.of
  BY <1>3, <1>4 DEF RequestFits
<1>6. PICK c \in CallRecords : c = calls[n]
  BY <1>1
<1>7. PICK c0 \in CallRecords : c0 = [c EXCEPT !.said = reply]
  BY <1>2 DEF CallRecords
<1>8. /\ c0.kind = c.kind /\ c0.way = c.way /\ c0.device = c.device /\ c0.size = c.size /\ c0.said = reply
      /\ c0.ret = c.ret /\ c0.data = c.data /\ c0.times = c.times
  BY <1>7 DEF CallRecords
<1>9. PICK s : s = [Now EXCEPT !.rqts = Tail(@), !.calls[rqt.of].said = reply]
  OBVIOUS
<1>10. /\ DOMAIN s = {"svc", "rqts", "calls"} /\ s.svc = svc /\ s.rqts = Tail(rqts)
       /\ s.calls = [calls EXCEPT ![n] = c0]
  BY <1>5, <1>6, <1>7, <1>9 DEF Now
<1>11. /\ s.calls \in Seq(CallRecords) /\ Altered(calls, s.calls, n, c0)
  BY <1>1, <1>10, OneChanged DEF Altered
<1>12. StateTypes(s) /\ n \in 1..Len(s.calls) /\ s.calls[n] = c0
  BY <1>1, <1>10, <1>11 DEF StateTypes, Types, SvcTypes, Altered
<1>13. /\ CASE rqt.code = "read"  -> Becomes(ReadReplied(s, n, reply)) /\ UNCHANGED svcThread
            [] rqt.way = "sync" /\ rqt.code # "read" -> Becomes(s) /\ ThreadGoes("woken")
            [] OTHER -> Becomes(FuncCallback(s, rqt, reply)) /\ UNCHANGED svcThread
       /\ card' = [card EXCEPT !.mail = Tail(@)]
  BY <1>1, <1>4, <1>5, <1>9 DEF Response, Replied
<1>14. CardTypes'
  <2>1. /\ DOMAIN card' = DOMAIN card /\ card'.media = card.media /\ card'.mail = Tail(card.mail)
        /\ card'.running = card.running
    BY <1>1, <1>13
  <2> QED
    BY <1>1, <2>1 DEF Types, CardTypes
<1>15. /\ svcThread \in [at : Places, call : Nat] /\ (UNCHANGED svcThread => ThreadTypes')
  BY DEF Types, ThreadTypes
<1>16. \A x, y : Altered(calls, s.calls, n, x) /\ s.calls # <<>> =>
           \A q : Altered(s.calls, q, n, y) => Altered(calls, q, n, y)
  BY DEF Altered
<1>17. s.calls # <<>>
  BY <1>12
<1>18. CASE rqt.code = "read"
  <2>1. PICK r : r = ReadReplied(s, n, reply)
    OBVIOUS
  <2>2. Becomes(r) /\ svcThread' = svcThread
    BY <1>13, <1>18, <2>1
  <2>3. PICK ret, more : /\ ret = (IF reply.ok THEN "SUCCESS" ELSE "ERROR")
                         /\ more = (IF c.way = "async" THEN 1 ELSE 0)
    OBVIOUS
  <2>4. /\ StateTypes(r) /\ r.rqts = s.rqts /\ Differ(s, r, {"wait", "async"}) /\ ~r.svc.wait
        /\ r.calls = [s.calls EXCEPT ![n] = [c0 EXCEPT !.ret = ret, !.times = c0.times + more]]
    <3>1. ReadDone(s, n, reply, r)
      BY <1>2, <1>12, <2>1, ReadRepliedIs
    <3> QED
      BY <1>8, <1>12, <2>3, <3>1 DEF ReadDone
  <2>5. PICK x : x = [c0 EXCEPT !.ret = ret, !.times = c0.times + more]
    OBVIOUS
  <2>6. /\ x \in CallRecords /\ x.kind = c.kind /\ x.way = c.way /\ x.device = c.device
        /\ x.size = c.size /\ x.said = reply /\ x.ret = ret /\ x.data = c.data /\ x.times = c.times + more
    <3>1. ret \in Rets /\ more \in Nat /\ c0.times \in Nat
      BY <2>3 DEF Rets, CallRecords
    <3>2. c0.times + more \in Nat
      BY <3>1
    <3> QED
      BY <1>8, <2>5, <3>1, <3>2 DEF CallRecords
  <2>7. svc' = r.svc /\ rqts' = Tail(rqts) /\ calls' = r.calls /\ SvcTypes' /\ SeqTypes'
    BY <1>10, <2>2, <2>4, BecomesIs
  <2>8. Altered(calls, calls', n, x)
    <3>1. Altered(s.calls, calls', n, x)
      BY <1>11, <1>12, <2>4, <2>5, <2>6, <2>7, OneChanged DEF Altered
    <3> QED
      BY <1>11, <1>16, <1>17, <3>1
  <2>9. SvcDiffer({"wait", "async"}) /\ ~svc'.wait
    BY <1>10, <2>4, <2>7 DEF SvcDiffer, Differ
  <2>10. Types'
    BY <1>14, <1>15, <2>2, <2>7 DEF Types
  <2>11. x.ret \in {"SUCCESS", "ERROR"} /\ x.times = c.times + IF c.way = "async" THEN 1 ELSE 0
    BY <2>3, <2>6
  <2> QED
    BY <1>2, <1>3, <1>4, <1>5, <1>6, <1>13, <1>18, <2>2, <2>6, <2>7, <2>8, <2>9, <2>10, <2>11 DEF Given, Reads2
<1>19. CASE rqt.code # "read" /\ rqt.way = "sync"
  <2>1. Becomes(s) /\ svcThread' = [svcThread EXCEPT !.at = "woken"]
    BY <1>13, <1>19 DEF ThreadGoes
  <2>2. svc' = svc /\ rqts' = Tail(rqts) /\ calls' = s.calls /\ SvcTypes' /\ SeqTypes'
    BY <1>10, <1>12, <2>1, BecomesIs
  <2>3. svcThread'.at = "woken" /\ svcThread'.call = svcThread.call /\ ThreadTypes'
    BY <1>15, <2>1 DEF ThreadTypes, Places
  <2>4. Types' /\ Unanswered(c, c0, reply)
    BY <1>8, <1>14, <2>2, <2>3 DEF Types, Given, Unanswered
  <2> QED
    BY <1>2, <1>3, <1>4, <1>5, <1>6, <1>8, <1>11, <1>13, <1>19, <2>2, <2>3, <2>4
<1>20. CASE rqt.code # "read" /\ rqt.way = "async"
  <2>1. PICK r : r = FuncCallback(s, rqt, reply)
    OBVIOUS
  <2>2. Becomes(r) /\ svcThread' = svcThread /\ IsInserted(rqt)
    BY <1>13, <1>20, <2>1 DEF IsInserted
  <2>3. PICK m : m = svc.nodes[1]
    OBVIOUS
  <2>4. svc.nodes # <<>> /\ Head(svc.nodes) = m /\ m \in 1..Len(calls)
    BY <1>4, <2>2, <2>3, FirstIsCalled DEF NodeFits
  <2>5. PICK t : t = Handled(s, rqt, reply)
    OBVIOUS
  <2>6. rqt.device \in Devices
    BY DEF Requests
  <2>7. PICK q : q = s.calls
    OBVIOUS
  <2>8. q \in Seq(CallRecords) /\ m \in 1..Len(q) /\ Altered(calls, q, n, c0)
    BY <1>11, <2>4, <2>7 DEF Altered
  <2>9. PICK c1 \in CallRecords : c1 = q[m]
    BY <2>8
  <2>10. PICK ret, data : ret = Result(rqt.code, reply) /\ data = Data(rqt.code, reply)
    OBVIOUS
  <2>11. PICK y : y = [c1 EXCEPT !.ret = ret, !.data = data, !.times = c1.times + 1]
    OBVIOUS
  <2>12. /\ StateTypes(r) /\ r.rqts = s.rqts /\ Differ(t, r, {"nodes"})
         /\ r.svc.nodes = Tail(s.svc.nodes) /\ r.calls = [q EXCEPT ![m] = y]
    <3>1. s.svc.nodes # <<>> /\ m = Head(s.svc.nodes) /\ m \in 1..Len(s.calls)
      BY <1>10, <2>4, <2>7, <2>8
    <3>2. CalledBack(s, m, rqt, reply, t, r)
      BY <1>2, <1>12, <2>1, <2>5, <2>6, <3>1, FuncCallbackIs
    <3> QED
      BY <2>7, <2>9, <2>10, <2>11, <3>2 DEF CalledBack
  <2>13. CallsBack(c1, y, rqt.code, reply)
    <3>1. ret \in Rets /\ data \in Nat
      BY <1>2, <2>10, RepliesAreResults
    <3>2. c1.times \in Nat /\ c1.times + 1 \in Nat
      BY DEF CallRecords
    <3> QED
      BY <2>10, <2>11, <3>1, <3>2 DEF CallRecords, CallsBack
  <2>14. svc' = r.svc /\ rqts' = Tail(rqts) /\ calls' = r.calls /\ SvcTypes' /\ SeqTypes'
    BY <1>10, <2>2, <2>12, BecomesIs
  <2>15. Altered(q, calls', m, y)
    BY <2>8, <2>12, <2>13, <2>14, OneChanged DEF Altered, CallsBack
  <2>16. Answers2(n, m, rqt.code, reply)
    <3>1. Unanswered(calls[n], c0, reply)
      BY <1>6, <1>8 DEF Unanswered, Given
    <3> QED
      BY <2>8, <2>9, <2>13, <2>15, <3>1 DEF Answers2
  <2>17. svc'.nodes = Tail(svc.nodes)
    BY <1>10, <2>12, <2>14
  <2>18. HandledAs(rqt.code, rqt.device, reply, {"nodes"})
    <3>1. PICK more : more = {"nodes"}
      OBVIOUS
    <3>2. \A f \in SvcFields \ more : svc'[f] = t.svc[f]
      BY <2>12, <2>14, <3>1 DEF Differ
    <3>3. StateTypes(s) /\ s.svc = svc
      BY <1>10, <1>12
    <3>4. HandledAs(rqt.code, rqt.device, reply, more)
      BY <1>2, <2>5, <2>6, <3>1, <3>2, <3>3, HandledIsKnown, ZenonT(60)
    <3> QED
      BY <3>1, <3>4
  <2>19. Types'
    BY <1>14, <1>15, <2>2, <2>14 DEF Types
  <2> QED
    BY <1>2, <1>3, <1>4, <1>5, <1>6, <1>13, <2>2, <2>3, <2>4, <2>14, <2>16, <2>17, <2>18, <2>19
<1>21. rqt.way \in Ways
  BY DEF Requests
<1> QED
  BY <1>18, <1>19, <1>20, <1>21 DEF Ways

\* When nothing has been overtaken, the one called back is the one whose request it was.
LEMMA ResponseIsOwn ==
    ASSUME Types, ListsFit, overtaken = {}, rqts # <<>>, card.mail # <<>>,
           NEW reply, reply = Head(card.mail).reply, Response(reply)
    PROVE  LET rqt == rqts[1]
               n == rqt.of
               c == calls[n]
           IN  /\ reply \in Replies /\ n \in 1..Len(calls) /\ c \in CallRecords /\ RequestIsOwn(1)
               /\ rqts' = Tail(rqts) /\ card' = [card EXCEPT !.mail = Tail(@)] /\ Types'
               /\ \E x : /\ Given(c, x, reply) /\ Altered(calls, calls', n, x)
                         /\ \/ /\ rqt.code = "read" /\ svcThread' = svcThread
                               /\ SvcDiffer({"wait", "async"}) /\ ~svc'.wait
                               /\ x.ret \in {"SUCCESS", "ERROR"} /\ x.data = c.data
                               /\ x.times = c.times + IF c.way = "async" THEN 1 ELSE 0
                            \/ /\ rqt.code # "read" /\ rqt.way = "sync" /\ svc' = svc
                               /\ svcThread'.at = "woken" /\ svcThread'.call = svcThread.call
                               /\ x.ret = c.ret /\ x.data = c.data /\ x.times = c.times
                            \/ /\ IsInserted(rqt) /\ svcThread' = svcThread
                               /\ HandledAs(rqt.code, rqt.device, reply, {"nodes"})
                               /\ svc'.nodes = Tail(svc.nodes)
                               /\ x.ret = Result(rqt.code, reply) /\ x.data = Data(rqt.code, reply)
                               /\ x.times = c.times + 1
<1>1. RequestIsOwn(1)
  <2>1. 1 \in 1..Len(rqts)
    BY DEF Types, SeqTypes
  <2> QED
    BY <2>1, OwnWhenNoneOvertakes DEF OwnInv, RequestsAreOwn
<1>2. PICK rqt, n, c : rqt = rqts[1] /\ n = rqt.of /\ c = calls[n]
  OBVIOUS
<1>3. /\ reply \in Replies /\ n \in 1..Len(calls) /\ c \in CallRecords
      /\ rqts' = Tail(rqts) /\ card' = [card EXCEPT !.mail = Tail(@)] /\ Types'
      /\ \/ /\ rqt.code = "read" /\ svcThread' = svcThread
            /\ SvcDiffer({"wait", "async"}) /\ ~svc'.wait /\ Reads2(n, reply)
         \/ /\ rqt.code # "read" /\ rqt.way = "sync" /\ svc' = svc
            /\ svcThread'.at = "woken" /\ svcThread'.call = svcThread.call
            /\ \E x : Unanswered(c, x, reply) /\ Altered(calls, calls', n, x)
         \/ /\ IsInserted(rqt) /\ svcThread' = svcThread
            /\ HandledAs(rqt.code, rqt.device, reply, {"nodes"})
            /\ svc'.nodes = Tail(svc.nodes) /\ svc.nodes[1] \in 1..Len(calls)
            /\ Answers2(n, svc.nodes[1], rqt.code, reply)
  BY <1>2, ResponseIs
<1>4. CASE /\ rqt.code = "read" /\ svcThread' = svcThread
           /\ SvcDiffer({"wait", "async"}) /\ ~svc'.wait /\ Reads2(n, reply)
  BY <1>1, <1>2, <1>3, <1>4 DEF Reads2
<1>5. CASE /\ rqt.code # "read" /\ rqt.way = "sync" /\ svc' = svc
           /\ svcThread'.at = "woken" /\ svcThread'.call = svcThread.call
           /\ \E x : Unanswered(c, x, reply) /\ Altered(calls, calls', n, x)
  BY <1>1, <1>2, <1>3, <1>5 DEF Unanswered
<1>6. CASE /\ IsInserted(rqt) /\ svcThread' = svcThread
           /\ HandledAs(rqt.code, rqt.device, reply, {"nodes"})
           /\ svc'.nodes = Tail(svc.nodes) /\ Answers2(n, svc.nodes[1], rqt.code, reply)
  <2>1. svc.nodes[1] = n
    BY <1>2, <1>6, FirstIsCalled DEF Mated
  <2>2. PICK q, x, y : /\ Unanswered(c, x, reply) /\ Altered(calls, q, n, x)
                       /\ CallsBack(q[n], y, rqt.code, reply) /\ Altered(q, calls', n, y)
    BY <1>2, <1>6, <2>1 DEF Answers2
  <2>3. Altered(calls, calls', n, y) /\ q[n] = x
    BY <2>2 DEF Altered
  <2>4. /\ Given(c, y, reply) /\ y.ret = Result(rqt.code, reply) /\ y.data = Data(rqt.code, reply)
        /\ y.times = c.times + 1
    BY <2>2, <2>3 DEF Unanswered, Given, CallsBack
  <2> QED
    BY <1>1, <1>2, <1>3, <1>6, <2>3, <2>4
<1> QED
  BY <1>3, <1>4, <1>5, <1>6

\* The firmware's reply, and the changes of its media.
LEMMA FirmwareRepliesIs ==
    ASSUME Types, FirmwareReplies
    PROVE  /\ Awaits /\ 1 \in 1..Len(rqts) /\ Head(rqts) = rqts[1]
           /\ UNCHANGED <<svc, rqts, calls, svcThread>> /\ Types'
           /\ card'.media = card.media /\ card'.told = card.told
           /\ met \subseteq met' /\ overtaken' = overtaken /\ lateStops' = lateStops
           /\ \E m \in Messages :
                  /\ rqts[1].code = "start" /\ ~m.reply.ok => "refused" \in met'
                  /\ ~m.changed /\ m.reply \in Answers(rqts[1]) /\ Grown(card.mail, card'.mail, m)
                  /\ card'.running = CASE rqts[1].code = "start" -> m.reply.ok \/ card.running
                                       [] rqts[1].code = "stop"  -> FALSE
                                       [] OTHER                  -> card.running
<1>1. /\ Awaits /\ UNCHANGED <<svc, rqts, calls, svcThread>>
      /\ met \subseteq met' /\ overtaken' = overtaken /\ lateStops' = lateStops
  BY DEF FirmwareReplies
<1>2. /\ rqts \in Seq(Requests) /\ rqts # <<>> /\ 1 \in 1..Len(rqts) /\ Head(rqts) = rqts[1]
      /\ rqts[1] \in Requests
  BY <1>1 DEF Awaits, Types, SeqTypes
<1>3. /\ card.mail \in Seq(Messages) /\ card.media \in [Devices -> Nat] /\ card.running \in BOOLEAN
      /\ DOMAIN card = {"running", "media", "mail", "told", "changes"}
  BY DEF Types, CardTypes
<1>4. PICK reply \in Answers(rqts[1]) :
          /\ rqts[1].code = "start" /\ ~reply.ok => "refused" \in met'
          /\ card' = [card EXCEPT !.mail = Append(@, [changed |-> FALSE, device |-> rqts[1].device,
                                                      reply |-> reply]),
                                  !.running = CASE rqts[1].code = "start" -> reply.ok \/ @
                                                [] rqts[1].code = "stop"  -> FALSE
                                                [] OTHER                  -> @]
  BY <1>2 DEF FirmwareReplies
<1>5. rqts[1].device \in Devices /\ card.media[rqts[1].device] \in Nat
  BY <1>2, <1>3 DEF Requests
<1>6. /\ reply \in Replies
  <2>1. PICK size \in Nat : size = card.media[rqts[1].device]
    BY <1>5
  <2>2. \A ok \in BOOLEAN, v \in Nat : Reply(ok, v) \in Replies
    BY DEF Reply, Replies
  <2>3. (rqts[1].code = "stop") \in BOOLEAN /\ (size # 0) \in BOOLEAN
        /\ (IF size = 0 THEN 0 ELSE 1) \in Nat
    OBVIOUS
  <2>4. \/ reply = Reply(TRUE, 0) \/ reply = Reply(FALSE, 0) \/ reply = Reply(TRUE, 1)
        \/ reply = Reply(rqts[1].code = "stop", 0)
        \/ reply = Reply(TRUE, IF size = 0 THEN 0 ELSE 1)
        \/ reply = Reply(size # 0, 0) \/ reply = Reply(size # 0, size)
    BY <1>4, <2>1 DEF Answers
  <2> QED
    BY <2>2, <2>3, <2>4
<1>7. PICK m \in Messages : m = [changed |-> FALSE, device |-> rqts[1].device, reply |-> reply]
  BY <1>5, <1>6 DEF Messages
<1>8. /\ ~m.changed /\ m.reply = reply
  BY <1>7
<1>9. PICK on \in BOOLEAN : on = CASE rqts[1].code = "start" -> reply.ok \/ card.running
                                   [] rqts[1].code = "stop"  -> FALSE
                                   [] OTHER                  -> card.running
  BY <1>3, <1>6 DEF Replies
<1>10. card' = [card EXCEPT !.mail = Append(card.mail, m), !.running = on]
  BY <1>4, <1>7, <1>9
<1>11. /\ DOMAIN card' = DOMAIN card /\ card'.media = card.media /\ card'.told = card.told
       /\ card'.mail = Append(card.mail, m) /\ card'.running = on
  BY <1>3, <1>10
<1>12. card'.mail \in Seq(Messages) /\ Grown(card.mail, card'.mail, m)
  BY <1>3, <1>11, OneMore DEF Grown
<1>13. Types'
  <2>1. CardTypes'
    BY <1>3, <1>11, <1>12 DEF CardTypes
  <2> QED
    BY <1>1, <2>1 DEF Types, SvcTypes, SeqTypes, ThreadTypes
<1> QED
  BY <1>1, <1>2, <1>4, <1>8, <1>9, <1>11, <1>12, <1>13

\* A change of a medium, told when the storage runs.
LEMMA ChangeIs ==
    ASSUME Types, NEW d \in Devices, NEW size \in Nat, Change(d, size)
    PROVE  /\ UNCHANGED <<svc, rqts, calls, svcThread>> /\ Types' /\ size # card.media[d]
           /\ (~card.running /\ Disturbs => "change" \in met')
           /\ met \subseteq met' /\ overtaken' = overtaken /\ lateStops' = lateStops
           /\ card'.running = card.running /\ card'.media = [card.media EXCEPT ![d] = size]
           /\ card'.told <=> ~card.running
           /\ \/ ~card.running /\ card'.mail = card.mail
              \/ \E m \in Messages : card.running /\ m.changed /\ m.device = d /\ Grown(card.mail, card'.mail, m)
<1>1. /\ UNCHANGED <<svc, rqts, calls, svcThread>> /\ size # card.media[d]
      /\ (~card.running /\ Disturbs => "change" \in met')
      /\ met \subseteq met' /\ overtaken' = overtaken /\ lateStops' = lateStops
  BY DEF Change
<1>2. /\ card.mail \in Seq(Messages) /\ card.media \in [Devices -> Nat] /\ card.running \in BOOLEAN
      /\ DOMAIN card = {"running", "media", "mail", "told", "changes"}
  BY DEF Types, CardTypes
<1>3. PICK m \in Messages : m = [changed |-> TRUE, device |-> d, reply |-> Reply(TRUE, 0)]
  BY DEF Messages, Replies, Reply
<1>4. m.changed /\ m.device = d
  BY <1>3
<1>5. /\ DOMAIN card' = DOMAIN card /\ card'.running = card.running
      /\ card'.media = [card.media EXCEPT ![d] = size] /\ card'.told = ~card.running
      /\ card'.mail = IF card.running THEN Append(card.mail, m) ELSE card.mail
  BY <1>2, <1>3 DEF Change
<1>6. card'.media \in [Devices -> Nat]
  BY <1>2, <1>5
<1>7. /\ card'.mail \in Seq(Messages)
      /\ card.running => Grown(card.mail, card'.mail, m)
  BY <1>2, <1>5, OneMore DEF Grown
<1>8. Types'
  <2>1. CardTypes'
    BY <1>2, <1>5, <1>6, <1>7 DEF CardTypes
  <2> QED
    BY <1>1, <2>1 DEF Types, SvcTypes, SeqTypes, ThreadTypes
<1> QED
  BY <1>1, <1>2, <1>4, <1>5, <1>7, <1>8


-----------------------------------------------------------------------------
(* Callbacks are those of their calls *)

CallIsOwn(c, n, tooLate, mixed) ==
    /\ c.times = IF c.way = "async" /\ c.ret # "none" /\ n \notin tooLate THEN 1 ELSE 0
    /\ n \notin mixed /\ c.kind \in {"claim", "release", "bus", "device", "unit"} /\ c.ret # "none" =>
           c.ret = Success(c.kind, c.said) /\ c.data = Data(c.kind, c.said)
AllAreOwn(q, tooLate, mixed) == \A n \in 1..Len(q) : CallIsOwn(q[n], n, tooLate, mixed)

\* The property, call by call.
LEMMA OwnByCall ==
    SeqTypes => (CallbacksAreOwn <=> AllAreOwn(calls, lateStops, overtaken))
<1> SUFFICES ASSUME SeqTypes
             PROVE  CallbacksAreOwn <=> AllAreOwn(calls, lateStops, overtaken)
  OBVIOUS
<1>1. DOMAIN calls = 1..Len(calls)
  BY DEF SeqTypes
<1> QED
  BY <1>1 DEF CallbacksAreOwn, CallIsOwn, AllAreOwn

\* And after a step.
LEMMA OwnByCallNext ==
    ASSUME Types'
    PROVE  CallbacksAreOwn' <=> AllAreOwn(calls', lateStops', overtaken')
<1>1. (DOMAIN calls = 1..Len(calls))'
  BY DEF Types, SeqTypes
<1> QED
  BY <1>1 DEF CallbacksAreOwn, CallIsOwn, AllAreOwn

\* One call is changed.
LEMMA AlteredIsOwn ==
    ASSUME NEW q, NEW r, NEW l, NEW o, AllAreOwn(q, l, o), NEW n, NEW x, Altered(q, r, n, x), CallIsOwn(x, n, l, o)
    PROVE  AllAreOwn(r, l, o)
  BY DEF AllAreOwn, Altered

\* It stays what it is, and an answer stays: so do the stops that came too late.
LEMMA AlteredKeeps ==
    ASSUME Types, Types', LateFit, CallbacksAreOwn, lateStops' = lateStops, overtaken' = overtaken,
           NEW n \in 1..Len(calls), NEW x, Altered(calls, calls', n, x), CallIsOwn(x, n, lateStops, overtaken),
           x.kind = calls[n].kind, x.way = calls[n].way, x.device = calls[n].device,
           calls[n].ret # "none" => x.ret = calls[n].ret
    PROVE  /\ CallbacksAreOwn' /\ LateFit' /\ CallsKept /\ (x.ret = calls[n].ret => CallsOpen)
           /\ \A m \in 1..Len(calls) : m # n => Open(m)
<1>1. AllAreOwn(calls', lateStops', overtaken')
  BY OwnByCall, AlteredIsOwn DEF Types
<1>2. /\ CallsKept /\ (x.ret = calls[n].ret => CallsOpen)
      /\ \A m \in 1..Len(calls) : m # n => Open(m)
  BY DEF Altered, CallsKept, CallsOpen, Kept, Open
<1>3. \A m \in 1..Len(calls) : calls[m].ret # "none" => Open(m)
  BY <1>2 DEF Altered, Open
<1>4. LateFit'
  <2>1. lateStops' \subseteq lateStops \cup {0} /\ (0 \in lateStops' => 0 \in 1..Len(calls'))
    BY DEF LateFit
  <2> QED
    BY <1>2, <1>3, <2>1, LateStays
<1> QED
  BY <1>1, <1>2, <1>4, OwnByCallNext

\* The calls and what has become of them stay.
LEMMA SameCalls ==
    ASSUME Types', LateFit, CallbacksAreOwn, calls' = calls, lateStops' = lateStops, overtaken' = overtaken
    PROVE  CallbacksAreOwn' /\ LateFit' /\ CallsKept /\ CallsOpen
  BY DEF CallbacksAreOwn, LateFit, CallsKept, CallsOpen, Kept, Open

\* One more call: it is called back if it has ended, unless it is a stop that is too late.
LEMMA AddedKeeps ==
    ASSUME Types, Types', LateFit, CallbacksAreOwn, NEW kind, NEW d, NEW way, NEW c,
           IsNew(c, kind, d, way), Grown(calls, calls', c), lateStops' = lateStops \cup IsLate(kind),
           c.ret = "none" => IsLate(kind) = {}, overtaken \subseteq overtaken'
    PROVE  /\ CallbacksAreOwn' /\ LateFit' /\ CallsKept /\ CallsOpen
           /\ (c.ret = "none" => NewCall(c))
<1>1. PICK n : n = Len(calls) + 1
  OBVIOUS
<1>2. /\ CallsKept /\ CallsOpen /\ (c.ret = "none" => NewCall(c))
      /\ n \in 1..Len(calls') /\ calls'[n] = c /\ n \in Nat /\ n \notin 1..Len(calls)
      /\ \A m \in 1..Len(calls') : m \in 1..Len(calls) \/ m = n
      /\ \A m \in 1..Len(calls) : calls'[m] = calls[m]
  BY <1>1, GrownKeeps DEF IsNew
<1>3. IsLate(kind) = {} \/ IsLate(kind) = {n}
  BY <1>1 DEF IsLate
<1>4. LateFit'
  <2>1. lateStops' \subseteq lateStops \cup {n} /\ (n \in lateStops' => n \in 1..Len(calls') /\ calls'[n].ret # "none")
    BY <1>2, <1>3 DEF LateFit
  <2>2. \A m \in 1..Len(calls) : calls[m].ret # "none" => Open(m)
    BY <1>2 DEF CallsOpen
  <2> QED
    BY <1>2, <2>1, <2>2, LateStays
<1>5. \A m \in 1..Len(calls) : m \in lateStops' <=> m \in lateStops
  BY <1>2, <1>3
<1>6. n \in lateStops' <=> IsLate(kind) # {}
  BY <1>2, <1>3 DEF LateFit
<1>7. CallIsOwn(c, n, lateStops', overtaken')
  <2>1. c.times = IF c.way = "async" /\ c.ret # "none" /\ n \notin lateStops' THEN 1 ELSE 0
    BY <1>6 DEF IsNew, Once
  <2>2. c.kind \in {"claim", "release", "bus", "device", "unit"} => c.ret = "none"
    BY DEF IsNew
  <2> QED
    BY <2>1, <2>2 DEF CallIsOwn
<1>8. AllAreOwn(calls', lateStops', overtaken')
  <2> SUFFICES ASSUME NEW m \in 1..Len(calls')
               PROVE  CallIsOwn(calls'[m], m, lateStops', overtaken')
    BY DEF AllAreOwn
  <2>1. CASE m = n
    BY <1>2, <1>7, <2>1
  <2>2. CASE m \in 1..Len(calls)
    <3>1. CallIsOwn(calls[m], m, lateStops, overtaken)
      BY <2>2, OwnByCall DEF AllAreOwn, Types
    <3>2. (m \in lateStops' <=> m \in lateStops) /\ (m \notin overtaken' => m \notin overtaken)
      BY <1>5, <2>2
    <3>3. CallIsOwn(calls[m], m, lateStops', overtaken')
      BY <3>1, <3>2 DEF CallIsOwn
    <3> QED
      BY <1>2, <2>2, <3>3
  <2> QED
    BY <1>2, <2>1, <2>2
<1> QED
  BY <1>2, <1>4, <1>8, OwnByCallNext

\* A reply in the mail is due as long as its request is there.
LEMMA StillDue ==
    ASSUME Types, Types', RepliesAreDue, card' = card, rqts' = rqts \/ \E x : Grown(rqts, rqts', x)
    PROVE  RepliesAreDue'
<1>1. rqts # <<>> => rqts' # <<>>
  <2>1. rqts \in Seq(Requests) /\ rqts' \in Seq(Requests)
    BY DEF Types, SeqTypes
  <2> QED
    BY <2>1 DEF Grown
<1> QED
  BY <1>1 DEF RepliesAreDue, IsReply

\* A call of the thread, from its tests on.
LEMMA CallGoesKeeps ==
    ASSUME AInv, Away, NEW kind \in Services, NEW d \in Devices, NEW way \in Ways, CallGoes(kind, d, way)
    PROVE  AInv'
<1> USE DEF AInv
<1>1. PICK c : ThreadCalls(kind, d, way, c)
  BY CallGoesIs
<1>2. /\ Types' /\ card' = card /\ begun' = begun /\ overtaken' = overtaken /\ lateStops' = lateStops \cup IsLate(kind)
      /\ c \in CallRecords /\ c.kind = kind /\ c.device = d /\ c.way = way
  BY <1>1, CallGoesIs DEF IsNew, ThreadCalls
<1>3. /\ CallsKept /\ CallsOpen /\ (c.ret = "none" => NewCall(c)) /\ CallbacksAreOwn' /\ LateFit'
  <2>1. IsNew(c, kind, d, way) /\ Grown(calls, calls', c) /\ (c.ret = "none" => IsLate(kind) = {})
    BY <1>1 DEF ThreadCalls, ToBeSent
  <2> QED
    BY <1>2, <2>1, AddedKeeps
<1>4. ListsFit'
  <2>1. CASE c.ret # "none"
    <3>1. rqts' = rqts /\ svcThread'.at = "idle" /\ svc'.nodes = svc.nodes
      BY <1>1, <2>1 DEF NodeOf, ThreadCalls
    <3> QED
      BY <1>2, <1>3, <3>1, StillFits DEF Away
  <2>2. CASE c.ret = "none" /\ svcThread'.at = "use"
    <3>1. svcThread'.call = Len(calls) + 1 /\ c.kind = "read" /\ rqts' = rqts /\ svc'.nodes = svc.nodes
      BY <1>1, <1>2, <2>2 DEF NodeOf, ThreadCalls
    <3> QED
      BY <1>2, <1>3, <2>2, <3>1, TakenFits
  <2>3. CASE c.ret = "none" /\ svcThread'.at = "send"
    <3>1. /\ svcThread'.call = Len(calls) + 1 /\ c.way = "async" /\ c.kind # "read" /\ rqts' = rqts
          /\ svc'.nodes = Append(svc.nodes, Len(calls) + 1)
      BY <1>1, <1>2, <2>3 DEF NodeOf, ThreadCalls
    <3> QED
      BY <1>2, <1>3, <2>3, <3>1, TakenFits
  <2>4. CASE c.ret = "none" /\ svcThread'.at = "wait"
    <3>1. svcThread'.call = Len(calls) + 1 /\ c.way = "sync" /\ svc'.nodes = svc.nodes
      BY <1>1, <1>2, <2>4 DEF NodeOf, ThreadCalls
    <3>2. PICK x : /\ Grown(rqts, rqts', x) /\ x.of = Len(calls) + 1
                   /\ x.way = "sync" /\ x.device = d /\ x.code # "read"
                   /\ x.code = kind \/ (x.code = "size" /\ kind = "read")
      BY <1>1, <2>4 DEF ThreadCalls
    <3> QED
      BY <1>2, <1>3, <2>4, <3>1, <3>2, WaitFits
  <2> QED
    BY <1>1, <2>1, <2>2, <2>3, <2>4 DEF ThreadCalls
<1>5. RepliesAreDue'
  <2>1. rqts' = rqts \/ \E x : Grown(rqts, rqts', x)
    BY <1>1 DEF ThreadCalls
  <2> QED
    BY <1>2, <2>1, StillDue
<1>6. BegunFits'
  BY <1>1 DEF ThreadCalls, BegunFits
<1> QED
  BY <1>2, <1>3, <1>4, <1>5, <1>6

\* A start or a stop as far as its tests.
LEMMA ChangeBeginsKeeps ==
    ASSUME AInv, NEW kind \in Services, NEW d \in Devices, NEW way \in Ways, ChangeBegins(kind, d, way)
    PROVE  AInv'
<1> USE DEF AInv
<1>1. /\ svcThread.at = "idle" /\ svcThread' = [svcThread EXCEPT !.at = "begin"]
      /\ begun' = [kind |-> kind, way |-> way]
      /\ svc' = svc /\ rqts' = rqts /\ calls' = calls /\ card' = card
      /\ overtaken' = overtaken /\ lateStops' = lateStops
  BY DEF ChangeBegins, At, ThreadGoes
<1>2. svcThread'.at = "begin" /\ Types'
  <2>1. svcThread' \in [at : Places, call : Nat] /\ svcThread'.at = "begin"
    BY <1>1 DEF Types, ThreadTypes, Places
  <2> QED
    BY <1>1, <2>1 DEF Types, SvcTypes, CardTypes, SeqTypes, ThreadTypes
<1>3. CallbacksAreOwn' /\ LateFit' /\ CallsKept /\ CallsOpen
  BY <1>1, <1>2, SameCalls
<1>4. ListsFit'
  BY <1>1, <1>2, <1>3, StillFits
<1>5. RepliesAreDue'
  BY <1>1, <1>2, StillDue
<1>6. BegunFits'
  <2>1. kind \in {"start", "stop"}
    BY DEF ChangeBegins
  <2> QED
    BY <1>1, <2>1 DEF BegunFits
<1> QED
  BY <1>2, <1>3, <1>4, <1>5, <1>6

\* A call of a callback, wherever the thread is.
LEMMA CallInCallbackKeeps ==
    ASSUME AInv, NEW kind \in Services, NEW d \in Devices, CallInCallback(kind, d)
    PROVE  AInv'
<1>0. Types
  BY DEF AInv
<1>a. PICK c : CallbackOvertakes(kind, d, c)
  BY <1>0, CallInCallbackIs
<1>1. /\ CallbackCalls(kind, d, c)
      /\ svcThread.at = "send" /\ c.ret = "none" /\ kind # "read" =>
             {svcThread.call, Len(calls) + 1} \subseteq overtaken'
  BY <1>a DEF CallbackOvertakes
<1> USE DEF AInv
<1>2. /\ Types' /\ card' = card /\ svcThread' = svcThread /\ begun' = begun
      /\ overtaken \subseteq overtaken' /\ lateStops' = lateStops \cup IsLate(kind)
      /\ c \in CallRecords /\ c.kind = kind /\ c.device = d /\ c.way = "async"
  BY <1>1, CallInCallbackIs DEF IsNew, CallbackCalls
<1>3. /\ CallsKept /\ CallsOpen /\ (c.ret = "none" => NewCall(c)) /\ CallbacksAreOwn' /\ LateFit'
  <2>1. IsNew(c, kind, d, "async") /\ Grown(calls, calls', c) /\ (c.ret = "none" => IsLate(kind) = {})
    BY <1>1 DEF CallbackCalls, ToBeSent
  <2> QED
    BY <1>2, <2>1, AddedKeeps
<1>4. ListsFit'
  <2>1. CASE c.ret # "none"
    <3>1. rqts' = rqts /\ svc'.nodes = svc.nodes
      BY <1>1, <2>1 DEF NodeOf, CallbackCalls
    <3> QED
      BY <1>2, <1>3, <3>1, StillFits
  <2>2. CASE c.ret = "none"
    <3>1. PICK x : /\ Grown(rqts, rqts', x) /\ x.of = Len(calls) + 1
                   /\ x.way = "async" /\ x.device = d /\ x.code = kind
      BY <1>1, <2>2 DEF CallbackCalls
    <3>2. \/ c.kind = "read" /\ svc'.nodes = svc.nodes
          \/ /\ c.kind # "read" /\ svc'.nodes = Append(svc.nodes, Len(calls) + 1)
             /\ svcThread.at = "send" => {svcThread.call, Len(calls) + 1} \subseteq overtaken'
      BY <1>1, <1>2, <2>2 DEF NodeOf, CallbackCalls
    <3> QED
      BY <1>2, <1>3, <2>2, <3>1, <3>2, CallbackFits
  <2> QED
    BY <2>1, <2>2
<1>5. RepliesAreDue'
  <2>1. rqts' = rqts \/ \E x : Grown(rqts, rqts', x)
    BY <1>1 DEF CallbackCalls
  <2> QED
    BY <1>2, <2>1, StillDue
<1>6. BegunFits'
  BY <1>2 DEF BegunFits
<1> QED
  BY <1>2, <1>3, <1>4, <1>5, <1>6

\* The thread sends what it has inserted.
LEMMA SendRequestKeeps ==
    ASSUME AInv, SendRequest
    PROVE  AInv'
<1> USE DEF AInv
<1>1. /\ svcThread.at = "send" /\ svc' = svc /\ card' = card /\ calls' = calls /\ HistoryStays
      /\ svcThread'.at = "idle" /\ svcThread'.call = svcThread.call /\ Types'
  BY SendRequestIs
<1>2. PICK x : /\ Grown(rqts, rqts', x) /\ x.of = svcThread.call /\ x.way = calls[svcThread.call].way
               /\ x.device = calls[svcThread.call].device /\ x.code = calls[svcThread.call].kind
  BY SendRequestIs
<1>3. CallbacksAreOwn' /\ LateFit' /\ CallsKept /\ CallsOpen
  BY <1>1, SameCalls DEF HistoryStays
<1>4. calls[svcThread.call].way = "async"
  BY <1>1 DEF ListsFit, ThreadFits, Away
<1>5. ListsFit'
  BY <1>1, <1>2, <1>3, <1>4, HeldFits DEF HistoryStays
<1>6. RepliesAreDue'
  BY <1>1, <1>2, StillDue
<1>7. BegunFits'
  BY <1>1 DEF BegunFits
<1> QED
  BY <1>1, <1>3, <1>5, <1>6, <1>7

\* The thread asks for a read.
LEMMA UseKeeps ==
    ASSUME AInv, Use
    PROVE  AInv'
<1> USE DEF AInv
<1>1. PICK n : n = svcThread.call
  OBVIOUS
<1>2. /\ svcThread.at = "use" /\ card' = card /\ Types' /\ SvcDiffer({"wait", "failed"}) /\ HistoryStays
      /\ calls' = [calls EXCEPT ![n] = [calls[n] EXCEPT !.size = svc.info[calls[n].device]]]
      /\ [calls[n] EXCEPT !.size = svc.info[calls[n].device]] \in CallRecords
      /\ svcThread'.call = n
      /\ \/ svcThread'.at = "idle" /\ calls[n].way = "async"
         \/ svcThread'.at = "drain" /\ calls[n].way = "sync"
  BY <1>1, UseIs
<1>3. PICK y : /\ Grown(rqts, rqts', y) /\ y.of = n /\ y.way = calls[n].way
               /\ y.device = calls[n].device /\ y.code = "read"
  BY <1>1, UseIs
<1>4. n \in 1..Len(calls) /\ calls[n].kind = "read" /\ calls \in Seq(CallRecords)
  BY <1>1, <1>2 DEF ListsFit, ThreadFits, Away, Types, SeqTypes
<1>5. PICK x \in CallRecords : x = [calls[n] EXCEPT !.size = svc.info[calls[n].device]]
  BY <1>2
<1>6. Altered(calls, calls', n, x)
  BY <1>2, <1>4, <1>5, OneChanged DEF Altered
<1>7. /\ x.kind = calls[n].kind /\ x.way = calls[n].way /\ x.device = calls[n].device /\ x.ret = calls[n].ret
      /\ x.times = calls[n].times /\ x.said = calls[n].said /\ x.data = calls[n].data
  <2>1. calls[n] \in CallRecords
    BY <1>4
  <2> QED
    BY <1>5, <2>1 DEF CallRecords
<1>8. CallIsOwn(x, n, lateStops, overtaken)
  <2>1. CallIsOwn(calls[n], n, lateStops, overtaken)
    BY <1>4, OwnByCall DEF AllAreOwn, Types
  <2> QED
    BY <1>7, <2>1 DEF CallIsOwn
<1>9. CallbacksAreOwn' /\ LateFit' /\ CallsKept /\ CallsOpen
  BY <1>2, <1>4, <1>6, <1>7, <1>8, AlteredKeeps DEF HistoryStays
<1>10. svc'.nodes = svc.nodes
  BY <1>2 DEF SvcDiffer, SvcFields
<1>11. ListsFit'
  BY <1>1, <1>2, <1>3, <1>4, <1>9, <1>10, HeldFits DEF HistoryStays
<1>12. RepliesAreDue'
  BY <1>2, <1>3, StillDue
<1>13. BegunFits'
  BY <1>2 DEF BegunFits
<1> QED
  BY <1>2, <1>9, <1>11, <1>12, <1>13

\* What a reply changes of what is known is not the nodes.
LEMMA HandledHasNodes ==
    ASSUME NEW code, NEW d, NEW reply, HandledAs(code, d, reply, {})
    PROVE  svc'.nodes = svc.nodes
<1>1. \A fields : "nodes" \notin fields /\ SvcDiffer(fields) => svc'.nodes = svc.nodes
  BY DEF SvcDiffer, SvcFields
<1>2. CASE code = "start"
  <2>1. SvcDiffer({"info", "count", "pending", "rw", "registered"} \cup {})
    BY <1>2 DEF HandledAs
  <2> QED
    BY <1>1, <2>1
<1>3. CASE code = "stop"
  <2>1. SvcDiffer({"count", "pending", "rw", "failed"} \cup {})
    BY <1>3 DEF HandledAs
  <2> QED
    BY <1>1, <2>1
<1>4. CASE code \in Queries /\ reply.ok
  <2>1. SvcDiffer({"info"} \cup {})
    BY <1>4 DEF HandledAs
  <2> QED
    BY <1>1, <2>1
<1>5. CASE code \notin Change2 /\ ~(code \in Queries /\ reply.ok)
  <2>1. SvcDiffer({})
    BY <1>5 DEF HandledAs
  <2> QED
    BY <1>1, <2>1
<1> QED
  BY <1>2, <1>3, <1>4, <1>5 DEF Change2

\* The thread handles its reply.
LEMMA WokenKeeps ==
    ASSUME AInv, Woken
    PROVE  AInv'
<1> USE DEF AInv
<1>1. PICK n : n = svcThread.call
  OBVIOUS
<1>2. /\ svcThread.at = "woken" /\ card' = card /\ rqts' = rqts /\ Types' /\ svcThread'.call = n /\ HistoryStays
      /\ n \in 1..Len(calls) /\ calls[n] \in CallRecords
  BY <1>1, WokenIs
<1>3. svc'.nodes = svc.nodes
  <2>1. HandledAs(IF calls[n].kind = "read" THEN "size" ELSE calls[n].kind, calls[n].device, calls[n].said, {})
    BY <1>1, WokenIs
  <2> QED
    BY <2>1, HandledHasNodes
<1>4. calls[n].way = "sync" /\ calls[n].ret = "none" /\ CallIsOwn(calls[n], n, lateStops, overtaken)
  <2>1. calls[n].way = "sync" /\ calls[n].ret = "none"
    BY <1>1, <1>2 DEF ListsFit, ThreadFits, Away
  <2> QED
    BY <1>2, <2>1, OwnByCall DEF AllAreOwn, Types
<1>5. /\ CallsKept /\ CallbacksAreOwn' /\ LateFit' /\ \A m \in 1..Len(calls) : m # n => Open(m)
      /\ \/ svcThread'.at = "idle"
         \/ svcThread'.at = "use" /\ calls[n].kind = "read" /\ Open(n)
  <2>1. CASE calls[n].kind # "read" /\ svcThread'.at = "idle"
    <3>1. PICK x \in CallRecords :
              /\ Altered(calls, calls', n, x)
              /\ x = [calls[n] EXCEPT !.ret = Result(calls[n].kind, calls[n].said),
                                      !.data = Data(calls[n].kind, calls[n].said)]
      BY <1>1, <2>1, WokenIs
    <3>2. /\ x.kind = calls[n].kind /\ x.way = calls[n].way /\ x.device = calls[n].device
          /\ x.times = calls[n].times /\ x.said = calls[n].said
          /\ x.ret = Result(calls[n].kind, calls[n].said) /\ x.data = Data(calls[n].kind, calls[n].said)
      BY <1>2, <3>1 DEF CallRecords
    <3>3. CallIsOwn(x, n, lateStops, overtaken)
      BY <1>4, <3>2 DEF CallIsOwn, Result
    <3> QED
      BY <1>2, <1>4, <2>1, <3>1, <3>2, <3>3, AlteredKeeps DEF HistoryStays
  <2>2. CASE calls[n].kind = "read" /\ svcThread'.at = "use" /\ calls' = calls
    <3>1. CallbacksAreOwn' /\ LateFit' /\ CallsKept /\ CallsOpen
      BY <1>2, <2>2, SameCalls DEF HistoryStays
    <3> QED
      BY <1>2, <2>2, <3>1 DEF CallsOpen
  <2>3. CASE calls[n].kind = "read" /\ ~calls[n].said.ok /\ svcThread'.at = "idle"
    <3>1. PICK x \in CallRecords :
              Altered(calls, calls', n, x) /\ x = [calls[n] EXCEPT !.ret = "INVALID_RESPONSE"]
      BY <1>1, <2>3, WokenIs
    <3>2. /\ x.kind = calls[n].kind /\ x.way = calls[n].way /\ x.device = calls[n].device
          /\ x.times = calls[n].times /\ x.said = calls[n].said
      BY <1>2, <3>1 DEF CallRecords
    <3>3. CallIsOwn(x, n, lateStops, overtaken)
      BY <1>4, <2>3, <3>2 DEF CallIsOwn
    <3> QED
      BY <1>2, <1>4, <2>3, <3>1, <3>2, <3>3, AlteredKeeps DEF HistoryStays
  <2> QED
    BY <1>1, <2>1, <2>2, <2>3, WokenIs
<1>6. ListsFit'
  BY <1>1, <1>2, <1>3, <1>5, WokenFits DEF HistoryStays
<1>7. RepliesAreDue'
  BY <1>2, StillDue
<1>8. BegunFits'
  BY <1>5 DEF BegunFits
<1> QED
  BY <1>2, <1>5, <1>6, <1>7, <1>8

\* The thread leaves a read.
LEMMA DrainedKeeps ==
    ASSUME AInv, Drained
    PROVE  AInv'
<1> USE DEF AInv
<1>1. /\ svcThread.at = "drain" /\ svc' = svc /\ rqts' = rqts /\ calls' = calls /\ card' = card /\ Types'
      /\ svcThread'.at = "idle" /\ HistoryStays
  BY DrainedIs
<1>2. CallbacksAreOwn' /\ LateFit' /\ CallsKept /\ CallsOpen
  BY <1>1, SameCalls DEF HistoryStays
<1>3. ListsFit'
  BY <1>1, <1>2, StillFits DEF HistoryStays
<1>4. RepliesAreDue'
  BY <1>1, StillDue
<1>5. BegunFits'
  BY <1>1 DEF BegunFits
<1> QED
  BY <1>1, <1>2, <1>3, <1>4, <1>5

\* The first message is taken.
LEMMA MailShrinks ==
    ASSUME Types, card.mail # <<>>, card'.mail = Tail(card.mail)
    PROVE  /\ 1 \in 1..Len(card.mail) /\ Head(card.mail) = card.mail[1] /\ card.mail[1] \in Messages
           /\ Len(card'.mail) \in Nat /\ Len(card.mail) = Len(card'.mail) + 1
           /\ \A k \in 1..Len(card'.mail) : card'.mail[k] = card.mail[k + 1] /\ k + 1 \in 1..Len(card.mail)
           /\ \A k \in 1..Len(card'.mail) : k + 1 # 1 /\ (IsReply(k)' <=> IsReply(k + 1))
<1>1. card.mail \in Seq(Messages)
  BY DEF Types, CardTypes
<1>2. /\ 1 \in 1..Len(card.mail) /\ Head(card.mail) = card.mail[1] /\ card.mail[1] \in Messages
      /\ Len(card'.mail) \in Nat /\ Len(card.mail) = Len(card'.mail) + 1
      /\ \A k \in 1..Len(card'.mail) :
             card'.mail[k] = card.mail[k + 1] /\ k + 1 \in 1..Len(card.mail) /\ k + 1 # 1
  BY <1>1, OneLess
<1> QED
  BY <1>2 DEF IsReply

\* One more message.
LEMMA MailGrows ==
    ASSUME Types, NEW m, Grown(card.mail, card'.mail, m)
    PROVE  /\ Len(card.mail) + 1 \in 1..Len(card'.mail) /\ card'.mail[Len(card.mail) + 1] = m
           /\ \A k \in 1..Len(card'.mail) : k \in 1..Len(card.mail) \/ k = Len(card.mail) + 1
           /\ \A k \in 1..Len(card.mail) : /\ k \in 1..Len(card'.mail) /\ card'.mail[k] = card.mail[k]
                                           /\ (IsReply(k)' <=> IsReply(k)) /\ k < Len(card.mail) + 1
           /\ \A k \in 1..Len(card'.mail) : k = Len(card.mail) + 1 => (IsReply(k)' <=> ~m.changed)
<1>1. Len(card.mail) \in Nat
  BY DEF Types, CardTypes
<1>2. /\ Len(card.mail) + 1 \in 1..Len(card'.mail) /\ card'.mail[Len(card.mail) + 1] = m
      /\ \A k \in 1..Len(card'.mail) : k \in 1..Len(card.mail) \/ k = Len(card.mail) + 1
      /\ \A k \in 1..Len(card.mail) : /\ k \in 1..Len(card'.mail) /\ card'.mail[k] = card.mail[k]
                                      /\ k < Len(card.mail) + 1
  BY <1>1 DEF Grown
<1> QED
  BY <1>2 DEF IsReply

\* A change that is told is no reply.
LEMMA MediaChangedKeeps ==
    ASSUME AInv, card.mail # <<>>, ~svc.failed, MediaChanged(Head(card.mail).device), Head(card.mail).changed
    PROVE  AInv'
<1> USE DEF AInv
<1>1. /\ rqts' = rqts /\ calls' = calls /\ svcThread' = svcThread /\ Types' /\ SvcDiffer({"info"})
      /\ card' = [card EXCEPT !.mail = Tail(@), !.told = svc.registered] /\ overtaken' = overtaken /\ lateStops' = lateStops
  BY MediaChangedIs
<1>2. CallbacksAreOwn' /\ LateFit' /\ CallsKept /\ CallsOpen /\ svc'.nodes = svc.nodes
  BY <1>1, SameCalls DEF SvcDiffer, SvcFields
<1>3. ListsFit'
  BY <1>1, <1>2, StillFits
<1>4. card'.mail = Tail(card.mail)
  BY <1>1 DEF Types, CardTypes
<1>5. RepliesAreDue'
  <2> SUFFICES ASSUME NEW k \in 1..Len(card'.mail), IsReply(k)'
               PROVE  rqts # <<>> /\ \A j \in 1..Len(card'.mail) : IsReply(j)' => j = k
    BY <1>1 DEF RepliesAreDue
  <2>1. /\ \A j \in 1..Len(card'.mail) : j + 1 \in 1..Len(card.mail) /\ (IsReply(j)' <=> IsReply(j + 1))
    BY <1>4, MailShrinks
  <2>2. rqts # <<>> /\ \A j \in 1..Len(card'.mail) : IsReply(j)' => j + 1 = k + 1
    BY <2>1 DEF RepliesAreDue
  <2> QED
    BY <2>2
<1>6. BegunFits'
  <2>1. begun' = begun
    BY DEF MediaChanged
  <2> QED
    BY <1>1, <2>1 DEF BegunFits
<1> QED
  BY <1>1, <1>2, <1>3, <1>5, <1>6

\* A reply that is given to the first node: to the call that asked, unless it is one of
\* those that have overtaken one another.
LEMMA AnswerIsOwn ==
    ASSUME Types, Types', ListsFit, LateFit, CallbacksAreOwn, HistoryStays,
           rqts # <<>>, IsInserted(rqts[1]), RequestFits(1), NEW reply \in Replies,
           NEW n, n = rqts[1].of, NEW m, m = svc.nodes[1], Answers2(n, m, rqts[1].code, reply)
    PROVE  /\ CallbacksAreOwn' /\ LateFit' /\ CallsKept
           /\ \A k \in 1..Len(calls) : k # m => Open(k)
<1>1. /\ n \in 1..Len(calls) /\ calls[n].way = "async"
      /\ rqts[1].code = calls[n].kind
  BY DEF RequestFits, IsInserted
<1>2. /\ m \in 1..Len(calls) /\ calls[m].ret = "none" /\ calls[m].way = "async" /\ calls[m].kind # "read"
      /\ m = n \/ (m \in overtaken /\ n \in overtaken)
  BY FirstIsCalled DEF NodeFits, Mated
<1>3. m \notin lateStops
  BY <1>2 DEF LateFit
<1>4. AllAreOwn(calls, lateStops, overtaken)
  BY OwnByCall DEF Types
<1>5. PICK q, x, y : /\ Unanswered(calls[n], x, reply) /\ Altered(calls, q, n, x)
                     /\ CallsBack(q[m], y, rqts[1].code, reply) /\ Altered(q, calls', m, y)
  BY DEF Answers2
<1>6. /\ x.kind = calls[n].kind /\ x.way = calls[n].way /\ x.device = calls[n].device /\ x.said = reply
      /\ x.ret = calls[n].ret /\ x.data = calls[n].data /\ x.times = calls[n].times
  BY <1>5 DEF Unanswered, Given
<1>7. /\ y.kind = q[m].kind /\ y.way = q[m].way /\ y.device = q[m].device /\ y.said = q[m].said
      /\ y.ret = Result(rqts[1].code, reply) /\ y.data = Data(rqts[1].code, reply) /\ y.times = q[m].times + 1
  BY <1>5 DEF CallsBack
<1>8. /\ Len(q) = Len(calls) /\ q[n] = x /\ \A k \in 1..Len(calls) : k # n => q[k] = calls[k]
  BY <1>5 DEF Altered
<1>9. /\ Len(calls') = Len(calls) /\ calls'[m] = y /\ \A k \in 1..Len(calls) : k # m => calls'[k] = q[k]
  BY <1>5, <1>8 DEF Altered
<1>10. /\ q[m].ret = "none" /\ q[m].way = "async" /\ q[m].kind = calls[m].kind /\ q[m].device = calls[m].device
       /\ q[m].times = calls[m].times
  BY <1>2, <1>6, <1>8
<1>11. q[m].times = 0
  <2>1. CallIsOwn(calls[m], m, lateStops, overtaken)
    BY <1>2, <1>4 DEF AllAreOwn
  <2> QED
    BY <1>2, <1>10, <2>1 DEF CallIsOwn
<1>12. CallIsOwn(y, m, lateStops, overtaken)
  <2>1. y.ret # "none" /\ y.times = 1 /\ y.way = "async"
    BY <1>7, <1>10, <1>11, RepliesAreResults
  <2>2. CASE m = n
    <3>1. y.said = reply /\ y.kind = calls[n].kind
      BY <1>6, <1>7, <1>8, <2>2
    <3>2. y.kind \notin Change2 => y.ret = Success(y.kind, y.said) /\ y.data = Data(y.kind, y.said)
      BY <1>1, <1>7, <3>1 DEF Result, Change2
    <3> QED
      BY <1>3, <2>1, <3>2 DEF CallIsOwn, Change2
  <2>3. CASE m \in overtaken
    BY <1>3, <2>1, <2>3 DEF CallIsOwn
  <2> QED
    BY <1>2, <2>2, <2>3
<1>13. AllAreOwn(calls', lateStops, overtaken)
  <2> SUFFICES ASSUME NEW k \in 1..Len(calls)
               PROVE  CallIsOwn(calls'[k], k, lateStops, overtaken)
    BY <1>9 DEF AllAreOwn
  <2>1. CASE k = m
    BY <1>9, <1>12, <2>1
  <2>2. CASE k # m /\ k # n
    BY <1>4, <1>8, <1>9, <2>2 DEF AllAreOwn
  <2>3. CASE k # m /\ k = n
    <3>1. calls'[k] = x /\ k \in overtaken /\ CallIsOwn(calls[k], k, lateStops, overtaken)
      BY <1>2, <1>4, <1>8, <1>9, <2>3 DEF AllAreOwn
    <3> QED
      BY <1>6, <2>3, <3>1 DEF CallIsOwn
  <2> QED
    BY <2>1, <2>2, <2>3
<1>14. \A k \in 1..Len(calls) : k # m => Open(k)
  BY <1>6, <1>8, <1>9 DEF Open
<1>15. CallsKept
  <2> SUFFICES ASSUME NEW k \in 1..Len(calls)
               PROVE  Kept(k)
    BY DEF CallsKept
  <2>1. q[k].kind = calls[k].kind /\ q[k].way = calls[k].way /\ q[k].device = calls[k].device
    BY <1>6, <1>8
  <2>2. k = m => calls'[k].kind = q[k].kind /\ calls'[k].way = q[k].way /\ calls'[k].device = q[k].device
    BY <1>7, <1>9
  <2> QED
    BY <1>9, <2>1, <2>2 DEF Kept
<1>16. LateFit'
  <2>1. lateStops' \subseteq lateStops \cup {0} /\ (0 \in lateStops' => 0 \in 1..Len(calls'))
    BY DEF LateFit, HistoryStays
  <2>2. \A k \in 1..Len(calls) : calls[k].ret # "none" => Open(k)
    BY <1>2, <1>14
  <2> QED
    BY <1>15, <2>1, <2>2, LateStays
<1>17. CallbacksAreOwn'
  BY <1>13, OwnByCallNext DEF HistoryStays
<1> QED
  BY <1>14, <1>15, <1>16, <1>17

\* A response is of the first request, and no other is due then.
LEMMA ResponseKeeps ==
    ASSUME AInv, card.mail # <<>>, ~Head(card.mail).changed, Response(Head(card.mail).reply)
    PROVE  AInv'
<1> USE DEF AInv
<1>1. 1 \in 1..Len(card.mail) /\ IsReply(1) /\ rqts # <<>>
  <2>1. card.mail \in Seq(Messages)
    BY DEF Types, CardTypes
  <2>2. 1 \in 1..Len(card.mail) /\ Head(card.mail) = card.mail[1]
    BY <2>1
  <2> QED
    BY <2>2 DEF RepliesAreDue, IsReply
<1>2. PICK reply, rqt, n, c : reply = Head(card.mail).reply /\ rqt = rqts[1] /\ n = rqt.of /\ c = calls[n]
  OBVIOUS
<1>3. /\ n \in 1..Len(calls) /\ c \in CallRecords /\ RequestFits(1) /\ reply \in Replies
      /\ rqts' = Tail(rqts) /\ card' = [card EXCEPT !.mail = Tail(@)] /\ Types' /\ HistoryStays
      /\ \/ /\ rqt.code = "read" /\ svcThread' = svcThread
            /\ SvcDiffer({"wait", "async"}) /\ ~svc'.wait /\ Reads2(n, reply)
         \/ /\ rqt.code # "read" /\ rqt.way = "sync" /\ svc' = svc
            /\ svcThread'.at = "woken" /\ svcThread'.call = svcThread.call
            /\ \E x : Unanswered(c, x, reply) /\ Altered(calls, calls', n, x)
         \/ /\ IsInserted(rqt) /\ svcThread' = svcThread
            /\ HandledAs(rqt.code, rqt.device, reply, {"nodes"})
            /\ svc'.nodes = Tail(svc.nodes) /\ svc.nodes[1] \in 1..Len(calls)
            /\ Answers2(n, svc.nodes[1], rqt.code, reply)
  BY <1>1, <1>2, ResponseIs
<1>4. CallIsOwn(c, n, lateStops, overtaken)
  BY <1>2, <1>3, OwnByCall DEF AllAreOwn, Types
<1>5. ~IsInserted(rqt) => c.ret = "none" /\ n \notin lateStops /\ c.times = 0
  <2>1. ~IsInserted(rqt) => c.ret = "none"
    BY <1>2, <1>3 DEF RequestFits, Inserted, IsInserted
  <2> QED
    BY <1>2, <1>4, <2>1 DEF CallIsOwn, LateFit
<1>6. CallbacksAreOwn' /\ LateFit' /\ ListsFit'
  <2>1. CASE /\ rqt.code = "read" /\ svcThread' = svcThread
             /\ SvcDiffer({"wait", "async"}) /\ ~svc'.wait /\ Reads2(n, reply)
    <3>1. PICK x : /\ Given(c, x, reply) /\ Altered(calls, calls', n, x)
                   /\ x.ret \in {"SUCCESS", "ERROR"} /\ x.data = c.data
                   /\ x.times = c.times + IF c.way = "async" THEN 1 ELSE 0
      BY <1>2, <2>1 DEF Reads2
    <3>2. x.kind = c.kind /\ x.way = c.way /\ x.device = c.device /\ c.kind = "read"
      BY <1>2, <1>3, <2>1, <3>1 DEF Given, RequestFits
    <3>3. ~IsInserted(rqt) /\ svc'.nodes = svc.nodes
      BY <2>1 DEF IsInserted, SvcDiffer, SvcFields
    <3>4. CallIsOwn(x, n, lateStops, overtaken)
      BY <1>5, <3>1, <3>2, <3>3 DEF CallIsOwn
    <3>5. CallbacksAreOwn' /\ LateFit' /\ CallsKept /\ \A m \in 1..Len(calls) : m # n => Open(m)
      BY <1>2, <1>3, <1>5, <3>1, <3>2, <3>3, <3>4, AlteredKeeps DEF HistoryStays
    <3> QED
      BY <1>1, <1>2, <1>3, <2>1, <3>3, <3>5, AnsweredFits DEF HistoryStays
  <2>2. CASE /\ rqt.code # "read" /\ rqt.way = "sync" /\ svc' = svc
             /\ svcThread'.at = "woken" /\ svcThread'.call = svcThread.call
             /\ \E x : Unanswered(c, x, reply) /\ Altered(calls, calls', n, x)
    <3>1. PICK x : Unanswered(c, x, reply) /\ Altered(calls, calls', n, x)
      BY <2>2
    <3>2. /\ x.kind = c.kind /\ x.way = c.way /\ x.device = c.device /\ x.ret = c.ret /\ x.times = c.times
      BY <3>1 DEF Given, Unanswered
    <3>3. ~IsInserted(rqt) /\ svc'.nodes = svc.nodes
      BY <2>2 DEF IsInserted
    <3>4. CallIsOwn(x, n, lateStops, overtaken)
      BY <1>5, <3>2, <3>3 DEF CallIsOwn
    <3>5. CallbacksAreOwn' /\ LateFit' /\ CallsKept /\ CallsOpen
      BY <1>2, <1>3, <1>5, <3>1, <3>2, <3>3, <3>4, AlteredKeeps DEF HistoryStays
    <3> QED
      BY <1>1, <1>2, <1>3, <2>2, <3>3, <3>5, AnsweredFits DEF HistoryStays
  <2>3. CASE /\ IsInserted(rqt) /\ svcThread' = svcThread
             /\ svc'.nodes = Tail(svc.nodes) /\ Answers2(n, svc.nodes[1], rqt.code, reply)
    <3>1. /\ CallbacksAreOwn' /\ LateFit' /\ CallsKept
          /\ \A k \in 1..Len(calls) : k # svc.nodes[1] => Open(k)
      BY <1>1, <1>2, <1>3, <2>3, AnswerIsOwn
    <3> QED
      BY <1>1, <1>2, <1>3, <2>3, <3>1, AnsweredFits DEF HistoryStays
  <2> QED
    BY <1>3, <2>1, <2>2, <2>3
<1>7. RepliesAreDue'
  <2>1. card'.mail = Tail(card.mail)
    BY <1>3 DEF Types, CardTypes
  <2>2. \A k \in 1..Len(card'.mail) : ~IsReply(k)'
    <3>1. \A k \in 1..Len(card'.mail) : k + 1 \in 1..Len(card.mail) /\ k + 1 # 1 /\ (IsReply(k)' <=> IsReply(k + 1))
      BY <2>1, MailShrinks
    <3> QED
      BY <1>1, <3>1 DEF RepliesAreDue
  <2> QED
    BY <2>2 DEF RepliesAreDue
<1>8. BegunFits'
  <2>1. begun' = begun /\ (svcThread' = svcThread \/ svcThread'.at = "woken")
    BY <1>3 DEF Response
  <2> QED
    BY <2>1 DEF BegunFits
<1> QED
  BY <1>3, <1>6, <1>7, <1>8

\* The firmware replies when no reply is on its way.
LEMMA FirmwareRepliesKeeps ==
    ASSUME AInv, FirmwareReplies
    PROVE  AInv'
<1> USE DEF AInv
<1>1. Awaits /\ UNCHANGED <<svc, rqts, calls, svcThread>> /\ Types' /\ overtaken' = overtaken /\ lateStops' = lateStops
  BY FirmwareRepliesIs
<1>2. PICK m : Grown(card.mail, card'.mail, m)
  BY FirmwareRepliesIs
<1>3. CallbacksAreOwn' /\ LateFit' /\ CallsKept /\ CallsOpen
  BY <1>1, SameCalls
<1>4. ListsFit'
  BY <1>1, <1>3, StillFits
<1>5. RepliesAreDue'
  <2>1. rqts' # <<>> /\ \A k \in 1..Len(card.mail) : ~IsReply(k)
    BY <1>1 DEF Awaits, IsReply, Types, CardTypes
  <2>2. \A k \in 1..Len(card'.mail) : IsReply(k)' => k = Len(card.mail) + 1
    BY <1>2, <2>1, MailGrows
  <2> QED
    BY <2>1, <2>2 DEF RepliesAreDue
<1>6. BegunFits'
  <2>1. begun' = begun
    BY DEF FirmwareReplies
  <2> QED
    BY <1>1, <2>1 DEF BegunFits
<1> QED
  BY <1>1, <1>3, <1>4, <1>5, <1>6

\* A change of a medium is no reply.
LEMMA ChangeKeeps ==
    ASSUME AInv, NEW d \in Devices, NEW size \in Nat, Change(d, size)
    PROVE  AInv'
<1> USE DEF AInv
<1>1. /\ UNCHANGED <<svc, rqts, calls, svcThread>> /\ Types' /\ overtaken' = overtaken /\ lateStops' = lateStops
      /\ \/ card'.mail = card.mail
         \/ \E m \in Messages : m.changed /\ Grown(card.mail, card'.mail, m)
  BY ChangeIs
<1>2. CallbacksAreOwn' /\ LateFit' /\ CallsKept /\ CallsOpen
  BY <1>1, SameCalls
<1>3. ListsFit'
  BY <1>1, <1>2, StillFits
<1>4. RepliesAreDue'
  <2>1. CASE card'.mail = card.mail
    BY <1>1, <2>1 DEF RepliesAreDue, IsReply
  <2>2. CASE \E m \in Messages : m.changed /\ Grown(card.mail, card'.mail, m)
    <3>1. PICK m : m.changed /\ Grown(card.mail, card'.mail, m)
      BY <2>2
    <3>2. \A k \in 1..Len(card'.mail) : IsReply(k)' => k \in 1..Len(card.mail) /\ IsReply(k)
      BY <3>1, MailGrows
    <3> QED
      BY <1>1, <3>2 DEF RepliesAreDue
  <2> QED
    BY <1>1, <2>1, <2>2
<1>5. BegunFits'
  <2>1. begun' = begun
    BY DEF Change
  <2> QED
    BY <1>1, <2>1 DEF BegunFits
<1> QED
  BY <1>1, <1>2, <1>3, <1>4, <1>5

\* Steps of others.
LEMMA StutterKeeps ==
    ASSUME AInv, UNCHANGED servicesVars
    PROVE  AInv'
<1> USE DEF AInv
<1>1. /\ svc' = svc /\ rqts' = rqts /\ calls' = calls /\ svcThread' = svcThread /\ card' = card
      /\ begun' = begun /\ overtaken' = overtaken /\ lateStops' = lateStops
  BY DEF servicesVars
<1>2. Types'
  BY <1>1 DEF Types, SvcTypes, CardTypes, SeqTypes, ThreadTypes
<1>3. CallbacksAreOwn' /\ LateFit' /\ CallsKept /\ CallsOpen
  BY <1>1, <1>2, SameCalls
<1>4. ListsFit'
  BY <1>1, <1>3, StillFits
<1>5. RepliesAreDue' /\ BegunFits'
  BY <1>1, <1>2, StillDue DEF BegunFits
<1> QED
  BY <1>2, <1>3, <1>4, <1>5

\* Whatever is sent, answered and told, in whatever order: the requests are those of
\* calls, and the callbacks that wait are as many as the answers that are due to them.
LEMMA ServicesStep ==
    ASSUME BlockSizes \subseteq Nat, AInv, [ServicesNext]_servicesVars
    PROVE  AInv'
<1>1. ASSUME NEW kind \in Services, NEW d \in Devices, CallInCallback(kind, d) PROVE AInv'
  BY <1>1, CallInCallbackKeeps
<1>2. ASSUME NEW kind \in Services, NEW d \in Devices, NEW way \in {"sync", "async"}, CallBegins(kind, d, way)
      PROVE  AInv'
  <2>1. way \in Ways /\ Away /\ CallGoes(kind, d, way)
    BY <1>2 DEF Ways, CallBegins, At, Away
  <2> QED
    BY <2>1, CallGoesKeeps
<1>3. ASSUME NEW kind \in Services, NEW d \in Devices, NEW way \in {"sync", "async"}, ChangeBegins(kind, d, way)
      PROVE  AInv'
  <2>1. way \in Ways
    BY DEF Ways
  <2> QED
    BY <1>3, <2>1, ChangeBeginsKeeps
<1>4. ASSUME NEW d \in Devices, ChangeGoesOn(d) PROVE AInv'
  <2>1. /\ svcThread.at = "begin" /\ CallGoes(begun.kind, d, begun.way)
    BY <1>4 DEF ChangeGoesOn, At
  <2>2. Away /\ begun.kind \in Services /\ begun.way \in Ways
    BY <2>1 DEF Away, AInv, BegunFits
  <2> QED
    BY <2>1, <2>2, CallGoesKeeps
<1>5. ASSUME Thread PROVE AInv'
  BY <1>4, <1>5, SendRequestKeeps, WokenKeeps, UseKeeps, DrainedKeeps DEF Thread
<1>6. ASSUME Dfc PROVE AInv'
  <2>1. CASE Head(card.mail).changed
    <3>1. card.mail # <<>> /\ ~svc.failed /\ MediaChanged(Head(card.mail).device)
      BY <1>6, <2>1 DEF Dfc
    <3> QED
      BY <2>1, <3>1, MediaChangedKeeps
  <2>2. CASE ~Head(card.mail).changed
    <3>1. card.mail # <<>> /\ Response(Head(card.mail).reply)
      BY <1>6, <2>2 DEF Dfc
    <3> QED
      BY <2>2, <3>1, ResponseKeeps
  <2> QED
    BY <2>1, <2>2
<1>7. ASSUME NEW d \in Devices, NEW size \in BlockSizes \cup {0}, Change(d, size) PROVE AInv'
  BY <1>7, ChangeKeeps
<1>8. CASE FirmwareReplies
  BY <1>8, FirmwareRepliesKeeps
<1>9. CASE UNCHANGED servicesVars
  BY <1>9, StutterKeeps
<1>10. CASE ServicesNext
  BY <1>1, <1>2, <1>3, <1>5, <1>6, <1>7, <1>8, <1>10 DEF ServicesNext
<1> QED
  BY <1>9, <1>10

\* Nothing is asked or answered at first.
LEMMA ServicesStart ==
    ASSUME BlockSizes \subseteq Nat, ServicesInit
    PROVE  AInv
<1>1. PICK started \in BOOLEAN, size \in BlockSizes :
          /\ svc = [count |-> IF started THEN 1 ELSE 0, pending |-> FALSE,
                    info |-> [d \in Devices |-> 0], rw |-> started, wait |-> FALSE, async |-> FALSE,
                    registered |-> started, nodes |-> <<>>, failed |-> FALSE]
          /\ rqts = <<>> /\ calls = <<>> /\ svcThread = [at |-> "idle", call |-> 0]
          /\ overtaken = {} /\ lateStops = {}
          /\ card = [running |-> started, media |-> [d \in Devices |-> size],
                     mail |-> <<>>, told |-> TRUE, changes |-> 0]
  BY DEF ServicesInit
<1>2. /\ DOMAIN svc = SvcFields /\ svc.nodes = <<>> /\ svc.info = [d \in Devices |-> 0]
      /\ svc.count = IF started THEN 1 ELSE 0
  BY <1>1 DEF SvcFields
<1>3. SvcTypes
  <2>1. svc.nodes \in Seq(Nat) /\ svc.info \in [Devices -> Nat] /\ svc.count \in Int
    BY <1>2
  <2> QED
    BY <1>2, <2>1 DEF SvcTypes
<1>4. CardTypes
  BY <1>1 DEF CardTypes
<1>5. SeqTypes /\ ThreadTypes
  BY <1>1 DEF SeqTypes, ThreadTypes, Places
<1>6. Len(calls) = 0 /\ Len(rqts) = 0 /\ Len(svc.nodes) = 0 /\ Len(card.mail) = 0 /\ 1..0 = {}
      /\ svcThread.at = "idle" /\ DOMAIN calls = {}
  BY <1>1, <1>2
<1>7. ListsFit
  <2>1. RequestsFit /\ ThreadFits /\ NodesFit
    BY <1>6 DEF RequestsFit, ThreadFits, NodesFit, Away
  <2>2. Sent = 0 /\ HandFits
    BY <1>6 DEF Sent, HandFits
  <2>3. \E f : Mates(f)
    BY <1>6, <2>2 DEF Mates
  <2> QED
    BY <2>1, <2>2, <2>3 DEF ListsFit, NodesMate
<1>8. RepliesAreDue /\ CallbacksAreOwn /\ LateFit /\ BegunFits
  BY <1>1, <1>6 DEF RepliesAreDue, CallbacksAreOwn, LateFit, BegunFits
<1> QED
  BY <1>3, <1>4, <1>5, <1>7, <1>8 DEF AInv, Types

\* Every asynchronous call, of the thread or of a callback, is called back exactly once,
\* unless it is a stop that comes too late, for which the code calls nobody; and every call
\* is given the answer to its own request, unless a callback's call and the thread's have
\* come between each other's node and request.
THEOREM EachCallItsAnswer ==
    ASSUME BlockSizes \subseteq Nat
    PROVE  ServicesSpec => []CallbacksAreOwn
<1>1. ServicesInit => AInv
  BY ServicesStart
<1>2. AInv /\ [ServicesNext]_servicesVars => AInv'
  BY ServicesStep
<1>3. AInv => CallbacksAreOwn
  BY DEF AInv
<1> QED
  BY <1>1, <1>2, <1>3, PTL DEF ServicesSpec

-----------------------------------------------------------------------------
(* The description of the devices and the count are true *)

\* As long as nothing has been overtaken.
CInv == Types /\ BegunFits /\ ListsFit /\ OwnInv /\ RepliesAreDue /\ overtaken = {}

\* Then every request is of an open call.
LEMMA OwnWhenOrdered ==
    ASSUME AInv, overtaken = {}
    PROVE  CInv
  BY OwnWhenNoneOvertakes DEF AInv, CInv

\* The open calls, when there is one more, and when one has changed.
LEMMA PendAdded ==
    ASSUME Types, NEW c, Grown(calls, calls', c), c \in CallRecords, NEW n, n = Len(calls) + 1
    PROVE  /\ \A m : Pend(m)' <=> Pend(m) \/ (m = n /\ c.ret = "none")
           /\ \A m : Pend(m) => m \in 1..Len(calls) /\ m # n /\ calls'[m] = calls[m]
           /\ calls'[n] = c
<1>1. /\ n \in 1..Len(calls') /\ calls'[n] = c
      /\ \A m \in 1..Len(calls') : m \in 1..Len(calls) \/ m = n
      /\ \A m \in 1..Len(calls) : calls'[m] = calls[m] /\ m \in 1..Len(calls') /\ m # n
  <2>1. \A m \in 1..Len(calls) : m \in 1..Len(calls') /\ m # n
    BY GrownKeeps
  <2> QED
    BY <2>1, GrownKeeps
<1> QED
  BY <1>1 DEF Pend

\* And when one is changed.
LEMMA PendAltered ==
    ASSUME Types, NEW n \in 1..Len(calls), NEW x, Altered(calls, calls', n, x)
    PROVE  /\ \A m : m # n => (Pend(m)' <=> Pend(m))
           /\ Pend(n)' <=> x.ret = "none"
           /\ \A m \in 1..Len(calls) : m # n => calls'[m] = calls[m]
           /\ calls'[n] = x
<1>1. /\ Len(calls') = Len(calls) /\ calls'[n] = x
      /\ \A m \in 1..Len(calls) : m # n => calls'[m] = calls[m]
  BY DEF Altered
<1> QED
  BY <1>1 DEF Pend

\* Requests are only added.
QueueStays == rqts' = rqts \/ \E x : Grown(rqts, rqts', x)

\* Requests that are only added leave the first one first.
LEMMA FirstStays ==
    ASSUME Types, Types', RepliesAreDue, QueueStays
    PROVE  /\ \A k \in 1..Len(card.mail) : IsReply(k) => rqts'[1] = rqts[1] /\ 1 \in 1..Len(rqts)
           /\ \A m : IsQueued(m) => IsQueued(m)'
<1>1. rqts \in Seq(Requests) /\ Len(rqts) \in Nat /\ (rqts # <<>> => 1 \in 1..Len(rqts))
  BY DEF Types, SeqTypes
<1>2. \A k \in 1..Len(rqts) : k \in 1..Len(rqts') /\ rqts'[k] = rqts[k]
  <2>1. CASE rqts' = rqts
    BY <2>1
  <2>2. CASE \E x : Grown(rqts, rqts', x)
    <3>1. PICK x : Grown(rqts, rqts', x)
      BY <2>2
    <3> QED
      BY <3>1, QueueGrows
  <2> QED
    BY <2>1, <2>2 DEF QueueStays
<1> QED
  BY <1>1, <1>2 DEF RepliesAreDue, IsQueued

\* The replies that are there stay those of the same calls.
LEMMA AnsweredStays ==
    ASSUME Types, Types', RepliesAreDue, QueueStays, card' = card,
           svcThread' = svcThread \/ (svcThread.at # "woken" /\ svcThread'.at # "woken")
    PROVE  \A m : Answered(m)' <=> Answered(m)
<1>1. \A k \in 1..Len(card.mail) : (IsReply(k)' <=> IsReply(k)) /\ (IsReply(k) => rqts'[1] = rqts[1])
  BY FirstStays DEF IsReply
<1> QED
  BY <1>1 DEF Answered

\* Messages stay true.
LEMMA MailStays ==
    ASSUME Types, Types', RepliesAreDue, QueueStays, card' = card, MailIsTrue
    PROVE  MailIsTrue'
<1>1. \A k \in 1..Len(card.mail) : (IsReply(k)' <=> IsReply(k)) /\ (IsReply(k) => rqts'[1] = rqts[1])
  BY FirstStays DEF IsReply
<1> QED
  BY <1>1 DEF MailIsTrue, Current, ToldBehind

\* Descriptions stay true.
LEMMA KnownStays ==
    ASSUME Types, card' = card, svc'.info = svc.info, svc'.count > 0 => svc.count > 0, KnownIsTrue
    PROVE  KnownIsTrue'
  BY DEF KnownIsTrue, Current, ToldBehind

\* What is true stays so when one more message is there, and the media stay but for what it tells.
LEMMA CurrentGrows ==
    ASSUME Types, NEW y, Grown(card.mail, card'.mail, y),
           \A d \in Devices : card'.media[d] = card.media[d] \/ (y.changed /\ y.device = d)
    PROVE  /\ \A d \in Devices : \A v, k : k < Len(card.mail) + 1 /\ Current(d, v, k) => Current(d, v, k)'
           /\ \A d, k : k < Len(card.mail) + 1 /\ y.changed /\ y.device = d => ToldBehind(d, k)'
<1>1. /\ Len(card.mail) + 1 \in 1..Len(card'.mail) /\ card'.mail[Len(card.mail) + 1] = y
      /\ \A j \in 1..Len(card.mail) : j \in 1..Len(card'.mail) /\ card'.mail[j] = card.mail[j]
  BY MailGrows
<1>2. \A d, k : k < Len(card.mail) + 1 /\ y.changed /\ y.device = d => ToldBehind(d, k)'
  BY <1>1 DEF ToldBehind
<1>3. \A d, k : ToldBehind(d, k) => ToldBehind(d, k)'
  BY <1>1 DEF ToldBehind
<1> QED
  BY <1>2, <1>3 DEF Current

\* What is true stays so when a message is taken, but for what that tells.
LEMMA CurrentShrinks ==
    ASSUME Types, card.mail # <<>>, card'.mail = Tail(card.mail), card'.media = card.media
    PROVE  /\ \A d, v : \A k \in Nat : Current(d, v, k + 1) => Current(d, v, k)'
           /\ \A d, v : ~(card.mail[1].changed /\ card.mail[1].device = d) /\ Current(d, v, 0) => Current(d, v, 0)'
<1>1. /\ \A k \in 1..Len(card'.mail) : card'.mail[k] = card.mail[k + 1] /\ k + 1 \in 1..Len(card.mail)
      /\ Len(card.mail) = Len(card'.mail) + 1 /\ Len(card'.mail) \in Nat
  BY MailShrinks
<1>2. \A j \in 1..Len(card.mail) : j # 1 =>
          /\ j - 1 \in 1..Len(card'.mail) /\ card'.mail[j - 1] = card.mail[j]
          /\ \A k \in Nat : k + 1 < j => k < j - 1
  <2> SUFFICES ASSUME NEW j \in 1..Len(card.mail), j # 1
               PROVE  /\ j - 1 \in 1..Len(card'.mail) /\ card'.mail[j - 1] = card.mail[j]
                      /\ \A k \in Nat : k + 1 < j => k < j - 1
    OBVIOUS
  <2>1. j - 1 \in 1..Len(card'.mail) /\ (j - 1) + 1 = j /\ \A k \in Nat : k + 1 < j => k < j - 1
    BY <1>1
  <2> QED
    BY <1>1, <2>1
<1>3. \A d : \A k \in Nat : ToldBehind(d, k + 1) => ToldBehind(d, k)'
  <2> SUFFICES ASSUME NEW d, NEW k \in Nat, ToldBehind(d, k + 1) PROVE ToldBehind(d, k)'
    OBVIOUS
  <2>1. PICK j \in 1..Len(card.mail) : k + 1 < j /\ card.mail[j].changed /\ card.mail[j].device = d
    BY DEF ToldBehind
  <2>2. j # 1
    BY <2>1
  <2> QED
    BY <1>2, <2>1, <2>2 DEF ToldBehind
<1>4. \A d : ~(card.mail[1].changed /\ card.mail[1].device = d) /\ ToldBehind(d, 0) => ToldBehind(d, 0)'
  <2> SUFFICES ASSUME NEW d, ~(card.mail[1].changed /\ card.mail[1].device = d), ToldBehind(d, 0)
               PROVE  ToldBehind(d, 0)'
    OBVIOUS
  <2>1. PICK j \in 1..Len(card.mail) : card.mail[j].changed /\ card.mail[j].device = d
    BY DEF ToldBehind
  <2>2. j # 1
    BY <2>1
  <2>3. j - 1 \in 1..Len(card'.mail) /\ card'.mail[j - 1] = card.mail[j] /\ 0 < j - 1
    BY <1>2, <2>2
  <2> QED
    BY <2>1, <2>3 DEF ToldBehind
<1> QED
  BY <1>3, <1>4 DEF Current

\* A read that may begin is the only one.
LEMMA NoReads ==
    ASSUME CInv, DInv, ~svc.wait, ~SyncReadBegun
    PROVE  \A m : ~Reads(m)
<1> SUFFICES ASSUME NEW m, Reads(m) PROVE FALSE
  OBVIOUS
<1>1. CASE IsQueued(m)
  <2>1. PICK k \in 1..Len(rqts) : rqts[k].of = m
    BY <1>1 DEF IsQueued
  <2>2. RequestIsOwn(k) /\ calls[m].kind = "read" /\ rqts[k].code # "read"
    BY <2>1 DEF CInv, OwnInv, RequestsAreOwn, Reads, DInv, ReadsAreSized
  <2>3. rqts[k].way = "sync"
    BY <2>1, <2>2 DEF RequestIsOwn, RequestFits
  <2>4. svcThread.at = "wait" /\ svcThread.call = m
    BY <2>1, <2>2, <2>3 DEF CInv, OwnInv, RequestsAreOwn
  <2> QED
    BY <2>2, <2>4 DEF SyncReadBegun
<1>2. CASE Holds(m)
  <2>1. svcThread.at # "send"
    BY <1>2 DEF Holds, CInv, OwnInv, ThreadIsOwn, ThreadFits, Away, Reads
  <2> QED
    BY <1>2, <2>1 DEF Holds, Reads, SyncReadBegun
<1> QED
  BY <1>1, <1>2 DEF DInv, Placed, Reads

\* The starts and stops that are open stay so, and no read begins.
SameOpen == \A m : (Starts(m)' <=> Starts(m)) /\ (Stops(m)' <=> Stops(m)) /\ (Reads(m)' => Reads(m))
\* What is known stays, the descriptions and the reads aside.
SameKnown ==
    /\ svc'.count = svc.count /\ (svc'.pending <=> svc.pending) /\ (svc'.rw <=> svc.rw)
    /\ (svc'.registered <=> svc.registered) /\ ~svc'.failed

\* Only these fields change.
LEMMA SameKnownIs ==
    ASSUME NEW fields, SvcDiffer(fields), fields \subseteq {"info", "wait", "async", "nodes", "failed"},
           "failed" \in fields => ~svc'.failed, ~svc.failed
    PROVE  SameKnown
<1>1. /\ \A f \in {"count", "pending", "rw", "registered"} : f \in SvcFields \ fields
      /\ "failed" \notin fields => "failed" \in SvcFields \ fields
  BY DEF SvcFields
<1>2. \A f \in {"count", "pending", "rw", "registered"} : svc'[f] = svc[f]
  BY <1>1 DEF SvcDiffer
<1>3. ~svc'.failed
  BY <1>1 DEF SvcDiffer
<1> QED
  BY <1>2, <1>3 DEF SameKnown

\* The calls stay as they are.
LEMMA SameCallsOpen ==
    ASSUME Types, calls' = calls
    PROVE  SameOpen /\ \A m : Pend(m)' <=> Pend(m)
  BY DEF SameOpen, Starts, Stops, Reads, Pend

\* A call that is neither ends, or is changed otherwise.
LEMMA OneEnds ==
    ASSUME Types, NEW n \in 1..Len(calls), NEW x, Altered(calls, calls', n, x), x.kind = calls[n].kind,
           Pend(n), x.ret = "none" \/ calls[n].kind \notin Change2
    PROVE  SameOpen
<1>1. /\ \A m : m # n => (Pend(m)' <=> Pend(m))
      /\ Pend(n)' <=> x.ret = "none"
      /\ \A m \in 1..Len(calls) : m # n => calls'[m] = calls[m]
      /\ calls'[n] = x
  BY PendAltered
<1>2. \A m : Pend(m) => m \in 1..Len(calls)
  BY DEF Pend
<1>3. \A m : m # n => /\ Starts(m)' <=> Starts(m)
                      /\ Stops(m)' <=> Stops(m)
                      /\ Reads(m)' <=> Reads(m)
  BY <1>1, <1>2 DEF Starts, Stops, Reads
<1>4. /\ Starts(n)' <=> Starts(n)
      /\ Stops(n)' <=> Stops(n)
      /\ Reads(n)' => Reads(n)
  BY <1>1 DEF Starts, Stops, Reads, Change2
<1> QED
  BY <1>3, <1>4 DEF SameOpen

\* No start or stop begins or ends.
LEMMA PendingStays ==
    ASSUME SameOpen, SameKnown, PendingIsOne
    PROVE  PendingIsOne'
  BY DEF SameOpen, SameKnown, PendingIsOne

\* Nor is the count changed.
LEMMA CountStays ==
    ASSUME SameOpen, SameKnown, CountIsKept, card'.running = card.running,
           \A m : Starts(m) \/ Stops(m) => (Answered(m)' <=> Answered(m))
    PROVE  CountIsKept'
<1> USE DEF CountIsKept, SameOpen, SameKnown
<1>1. \A n : Starts(n)' => svc'.count = 0 /\ (card'.running <=> Answered(n)')
  OBVIOUS
<1>2. \A n : Stops(n)' => svc'.count = 1 /\ (card'.running <=> ~Answered(n)')
  OBVIOUS
<1>3. /\ ~svc'.pending => (svc'.count > 0 <=> card'.running)
      /\ svc'.count >= 0
      /\ svc'.count > 0 => svc'.rw /\ svc'.registered
      /\ ~svc'.failed
  OBVIOUS
<1> QED
  BY <1>1, <1>2, <1>3

\* No read begins.
LEMMA ReadStays ==
    ASSUME SameOpen, SameKnown, ReadIsOne
    PROVE  ReadIsOne'
  BY DEF SameOpen, SameKnown, ReadIsOne

\* Who is placed stays so, when only requests are added.
LEMMA PlacedStays ==
    ASSUME CInv, Types', Placed, QueueStays, \A m : Pend(m)' => Pend(m) \/ IsQueued(m)' \/ Holds(m)',
           \A m : Pend(m) /\ Holds(m) => ~Pend(m)' \/ IsQueued(m)' \/ Holds(m)'
    PROVE  Placed'
<1>1. \A m : IsQueued(m) => IsQueued(m)'
  BY FirstStays DEF CInv
<1> QED
  BY <1>1 DEF Placed

\* No read is sent, and none is about to be.
LEMMA SizedStays ==
    ASSUME CInv, Types', ReadsAreSized, rqts' = rqts \/ \E x : Grown(rqts, rqts', x) /\ x.code # "read",
           svc'.wait <=> svc.wait, svc'.info = svc.info, svcThread'.at = "use" => svcThread' = svcThread,
           \A m \in 1..Len(calls) : calls'[m] = calls[m]
    PROVE  ReadsAreSized'
<1>1. \A k \in 1..Len(rqts') : rqts'[k].code = "read" => k \in 1..Len(rqts) /\ rqts'[k] = rqts[k]
  <2>1. CASE rqts' = rqts
    BY <2>1
  <2>2. CASE \E x : Grown(rqts, rqts', x) /\ x.code # "read"
    <3>1. PICK x : Grown(rqts, rqts', x) /\ x.code # "read"
      BY <2>2
    <3> QED
      BY <3>1, QueueGrows DEF CInv
  <2> QED
    BY <2>1, <2>2
<1>2. \A k \in 1..Len(rqts) : calls'[rqts[k].of] = calls[rqts[k].of]
  BY DEF CInv, OwnInv, RequestsAreOwn, RequestIsOwn, RequestFits
<1>3. svcThread'.at = "use" => calls'[svcThread'.call] = calls[svcThread.call]
  BY DEF CInv, OwnInv, ThreadIsOwn, ThreadFits, Away
<1>4. \A k \in 1..Len(rqts') : rqts'[k].code = "read" => svc'.wait /\ calls'[rqts'[k].of].size # 0
  BY <1>1, <1>2 DEF ReadsAreSized
<1>5. svcThread'.at = "use" => svc'.info[calls'[svcThread'.call].device] # 0
  BY <1>3 DEF ReadsAreSized
<1> QED
  BY <1>4, <1>5 DEF ReadsAreSized

\* The thread is not woken: what it was told stays true.
LEMMA SaidStays ==
    ASSUME CInv, SaidIsTrue, card' = card, svcThread' = svcThread \/ svcThread'.at # "woken",
           \A m \in 1..Len(calls) : calls'[m] = calls[m]
    PROVE  SaidIsTrue'
<1>1. CASE svcThread'.at # "woken"
  BY <1>1 DEF SaidIsTrue
<1>2. CASE svcThread'.at = "woken"
  <2>1. svcThread' = svcThread /\ svcThread.call \in 1..Len(calls)
    BY <1>2 DEF CInv, OwnInv, ThreadIsOwn, ThreadFits, Away
  <2>2. calls'[svcThread'.call] = calls[svcThread.call]
    BY <2>1
  <2>3. \A d, v : Current(d, v, 0)' <=> Current(d, v, 0)
    BY DEF Current, ToldBehind
  <2> QED
    BY <2>1, <2>2, <2>3 DEF SaidIsTrue
<1> QED
  BY <1>1, <1>2

\* A start that is counted finds the storage running, and a stop leaves it so.
LEMMA CountedKnows ==
    ASSUME CInv, DInv, Types', NEW kind \in Change2, Counted(kind), NEW c, Grown(calls, calls', c),
           c \in CallRecords, c.ret # "none", ~svc.pending, ~svc.failed,
           rqts' = rqts, card' = card, svcThread' = svcThread \/ (Away /\ svcThread'.at = "idle")
    PROVE  DInv'
<1>1. /\ \A m : Pend(m)' <=> Pend(m)
      /\ \A m \in 1..Len(calls) : calls'[m] = calls[m]
  <2>1. \A m : Pend(m)' <=> Pend(m)
    BY PendAdded DEF CInv
  <2> QED
    BY <2>1, GrownKeeps DEF CInv
<1>2. SameOpen
  <2>1. \A m : Pend(m) => m \in 1..Len(calls)
    BY DEF Pend
  <2> QED
    BY <1>1, <2>1 DEF SameOpen, Starts, Stops, Reads
<1>3. /\ (svc'.count > 0 <=> svc.count > 0) /\ svc'.count >= 0 /\ svc'.info = svc.info
      /\ (svc'.pending <=> svc.pending) /\ (svc'.rw <=> svc.rw) /\ (svc'.registered <=> svc.registered)
      /\ (svc'.failed <=> svc.failed) /\ (svc'.wait <=> svc.wait)
  <2>1. svc.count \in Int /\ svc.count >= 0
    BY DEF CInv, Types, SvcTypes, DInv, CountIsKept
  <2>2. (svc'.count > 0 <=> svc.count > 0) /\ svc'.count >= 0
    BY <2>1 DEF Counted, CountedAs
  <2> QED
    BY <2>2 DEF Counted, SvcDiffer, SvcFields
<1>4. \A m : ~Starts(m) /\ ~Stops(m)
  BY DEF DInv, PendingIsOne
<1>5. Placed'
  <2>1. QueueStays /\ \A m : Holds(m)' <=> Holds(m)
    BY DEF QueueStays, Holds, Away
  <2> QED
    BY <1>1, <2>1, PlacedStays DEF DInv
<1>6. PendingIsOne'
  BY <1>2, <1>3, <1>4 DEF SameOpen, PendingIsOne
<1>7. CountIsKept'
  <2> QED
    BY <1>2, <1>3, <1>4 DEF SameOpen, DInv, CountIsKept
<1>8. ReadIsOne'
  BY <1>2, <1>3 DEF SameOpen, DInv, ReadIsOne
<1>9. ReadsAreSized'
  BY <1>1, <1>3, SizedStays DEF DInv
<1>10. KnownIsTrue'
  BY <1>3, KnownStays DEF DInv, CInv
<1>11. MailIsTrue'
  BY MailStays DEF QueueStays, DInv, CInv
<1>12. SaidIsTrue'
  BY <1>1, SaidStays DEF DInv
<1> QED
  BY <1>5, <1>6, <1>7, <1>8, <1>9, <1>10, <1>11, <1>12 DEF DInv

\* A call that is to be sent: the first start and the last stop wait for no other, and a
\* read for no read.
LEMMA NewKnows ==
    ASSUME CInv, DInv, Types', NEW kind \in Services, NEW d \in Devices, NEW way \in Ways,
           kind \notin Change2 => Accepted(kind, d, way), kind \in Change2 => ~svc.pending,
           ~Overlaps(kind), kind = "read" => ~SyncReadBegun,
           NEW c, Grown(calls, calls', c), IsNew(c, kind, d, way), c.ret = "none",
           kind = "start" => svc.count = 0, kind = "stop" => svc.count = 1,
           svc'.count = svc.count, svc'.pending <=> svc.pending \/ kind \in Change2,
           svc'.rw <=> svc.rw, svc'.registered <=> svc.registered, svc'.info = svc.info, ~svc'.failed,
           QueueStays, card' = card, svcThread' = svcThread \/ (svcThread.at # "woken" /\ svcThread'.at # "woken")
    PROVE  /\ PendingIsOne' /\ CountIsKept' /\ ReadIsOne' /\ KnownIsTrue' /\ MailIsTrue'
           /\ \A m : Pend(m)' <=> Pend(m) \/ m = Len(calls) + 1
           /\ \A m \in 1..Len(calls) : calls'[m] = calls[m]
           /\ calls'[Len(calls) + 1] = c
<1>1. PICK n : n = Len(calls) + 1
  OBVIOUS
<1>2. c.kind = kind /\ c.device = d /\ c \in CallRecords
  BY DEF IsNew
<1>3. /\ \A m : Pend(m)' <=> Pend(m) \/ m = n
      /\ \A m : Pend(m) => m \in 1..Len(calls) /\ m # n /\ calls'[m] = calls[m]
      /\ calls'[n] = c
  BY <1>1, <1>2, PendAdded DEF CInv
<1>4. /\ \A m : Starts(m)' <=> Starts(m) \/ (m = n /\ kind = "start")
      /\ \A m : Stops(m)' <=> Stops(m) \/ (m = n /\ kind = "stop")
      /\ \A m : Reads(m)' <=> Reads(m) \/ (m = n /\ kind = "read")
      /\ ~Starts(n) /\ ~Stops(n) /\ ~Reads(n)
  BY <1>2, <1>3 DEF Starts, Stops, Reads
<1>5. kind \in Change2 => ~svc.pending /\ \A m : ~Starts(m) /\ ~Stops(m)
  BY DEF Change2, DInv, PendingIsOne
<1>6. /\ kind = "start" => svc.count = 0 /\ ~card.running
      /\ kind = "stop" => svc.count = 1 /\ card.running
      /\ kind # "start" => svc.count > 0
  <2>1. kind \in Change2 => (svc.count > 0 <=> card.running)
    BY <1>5 DEF DInv, CountIsKept
  <2>2. kind # "start" => svc.count > 0
    <3>1. svc.count >= 0 /\ svc.count \in Int
      BY DEF CInv, Types, SvcTypes, DInv, CountIsKept
    <3>2. CASE kind \notin Change2
      BY <3>1, <3>2 DEF Accepted, Change2
    <3>3. CASE kind \in Change2
      BY <3>3 DEF Change2
    <3> QED
      BY <3>2, <3>3
  <2>3. /\ kind = "start" => ~card.running
        /\ kind = "stop" => card.running
    BY <2>1 DEF Change2
  <2> QED
    BY <2>2, <2>3
<1>7. ~Answered(n) /\ \A m : Answered(m)' <=> Answered(m)
  <2>1. \A m : Answered(m)' <=> Answered(m)
    BY AnsweredStays DEF CInv
  <2>2. svcThread.at = "woken" => svcThread.call # n
    <3>1. svcThread.at = "woken" => ~Away
      BY DEF Away
    <3>2. Types /\ ListsFit
      BY DEF CInv
    <3> QED
      BY <1>1, <3>1, <3>2, NothingRefersToNew
  <2>3. \A k \in 1..Len(card.mail) : IsReply(k) => rqts[1].of # n
    <3>1. \A k \in 1..Len(card.mail) : IsReply(k) => 1 \in 1..Len(rqts)
      BY FirstStays DEF CInv
    <3> QED
      BY <1>1, <3>1, NothingRefersToNew DEF CInv
  <2> QED
    BY <2>1, <2>2, <2>3 DEF Answered
<1>8. PendingIsOne'
  <2>1. CASE kind \in Change2
    BY <1>4, <1>5, <2>1 DEF PendingIsOne, Change2
  <2>2. CASE kind \notin Change2
    BY <1>4, <2>2 DEF PendingIsOne, Change2, DInv
  <2> QED
    BY <2>1, <2>2
<1>9. CountIsKept'
  <2>1. \A m : Starts(m)' => svc'.count = 0 /\ (card'.running <=> Answered(m)')
    BY <1>4, <1>6, <1>7 DEF DInv, CountIsKept
  <2>2. \A m : Stops(m)' => svc'.count = 1 /\ (card'.running <=> ~Answered(m)')
    BY <1>4, <1>6, <1>7 DEF DInv, CountIsKept
  <2>3. ~svc'.pending => (svc'.count > 0 <=> card'.running)
    BY DEF DInv, CountIsKept
  <2>4. /\ svc'.count >= 0
        /\ svc'.count > 0 => svc'.rw /\ svc'.registered
        /\ ~svc'.failed
    BY DEF DInv, CountIsKept
  <2> QED
    BY <2>1, <2>2, <2>3, <2>4 DEF CountIsKept
<1>10. ReadIsOne'
  <2>1. CASE kind = "read"
    <3>1. \A m : ~Reads(m)
      BY <2>1, NoReads DEF Accepted, Change2
    <3>2. \A m : ~Stops(m)
      <4>1. ~StopPending
        BY <2>1 DEF Overlaps
      <4>2. \A m : Pend(m) => m \in DOMAIN calls
        BY DEF Pend, CInv, Types, SeqTypes
      <4> QED
        BY <4>1, <4>2 DEF StopPending, Stops, Pend
    <3>3. \A m : ~Starts(m)
      BY <1>6, <2>1 DEF DInv, CountIsKept
    <3> QED
      BY <1>4, <1>6, <2>1, <3>1, <3>2, <3>3 DEF ReadIsOne
  <2>2. CASE kind \in Change2
    <3>1. \A m : ~Reads(m)
      <4>1. CASE kind = "start"
        BY <1>6, <4>1 DEF DInv, ReadIsOne
      <4>2. CASE kind = "stop"
        <5>1. ~ReadPending
          BY <4>2 DEF Overlaps
        <5>2. \A m : Pend(m) => m \in DOMAIN calls
          BY DEF Pend, CInv, Types, SeqTypes
        <5> QED
          BY <5>1, <5>2 DEF ReadPending, Reads, Pend
      <4> QED
        BY <2>2, <4>1, <4>2 DEF Change2
    <3> QED
      BY <1>4, <2>2, <3>1 DEF ReadIsOne, Change2
  <2>3. CASE kind # "read" /\ kind \notin Change2
    BY <1>4, <2>3 DEF ReadIsOne, DInv, Change2
  <2> QED
    BY <2>1, <2>2, <2>3
<1>11. KnownIsTrue' /\ MailIsTrue'
  BY KnownStays, MailStays DEF DInv, CInv
<1>12. \A m \in 1..Len(calls) : calls'[m] = calls[m]
  BY <1>2, GrownKeeps DEF CInv
<1> QED
  BY <1>1, <1>3, <1>8, <1>9, <1>10, <1>11, <1>12

\* What a call that is to be sent leaves as it is.
LEMMA ToBeSentKnows ==
    ASSUME NEW kind, NEW fields, ToBeSent(kind, fields), fields \subseteq {"wait", "failed"},
           ~svc.failed, "failed" \in fields => ~svc'.failed
    PROVE  /\ svc'.count = svc.count /\ (svc'.pending <=> svc.pending \/ kind \in Change2)
           /\ svc'.rw <=> svc.rw
           /\ svc'.registered <=> svc.registered
           /\ svc'.info = svc.info /\ ~svc'.failed
           /\ "wait" \notin fields => svc'.wait = svc.wait
<1>1. /\ \A f \in {"count", "rw", "registered", "info"} :
             f \in SvcFields \ ({"pending", "async", "nodes"} \cup fields)
      /\ \A f \in {"wait", "failed"} : f \notin fields => f \in SvcFields \ ({"pending", "async", "nodes"} \cup fields)
  BY DEF SvcFields
<1>2. \A f \in {"count", "rw", "registered", "info"} : svc'[f] = svc[f]
  BY <1>1 DEF ToBeSent, SvcDiffer
<1>3. \A f \in {"wait", "failed"} : f \notin fields => svc'[f] = svc[f]
  BY <1>1 DEF ToBeSent, SvcDiffer
<1> QED
  BY <1>2, <1>3 DEF ToBeSent

\* A call of the thread.
LEMMA CallGoesKnows ==
    ASSUME CInv, DInv, met' = {}, Away, ~svc.failed, NEW kind \in Services, NEW d \in Devices, NEW way \in Ways,
           kind \notin Change2 => Accepted(kind, d, way), CallGoes(kind, d, way)
    PROVE  DInv'
<1>1. /\ card' = card /\ Types' /\ ~Overlaps(kind)
      /\ kind \in Change2 => ~svc.pending
      /\ \E c : ThreadCalls(kind, d, way, c)
  <2>1. /\ card' = card /\ Types' /\ met' = met \cup Meets(kind)
        /\ \E c : ThreadCalls(kind, d, way, c)
    BY CallGoesIs DEF CInv
  <2>2. Meets(kind) = {}
    BY <2>1
  <2> QED
    BY <2>1, <2>2 DEF Meets, Change2
<1>2. PICK c : ThreadCalls(kind, d, way, c)
  BY <1>1
<1>3. Grown(calls, calls', c) /\ IsNew(c, kind, d, way) /\ c \in CallRecords
  BY <1>2 DEF ThreadCalls, IsNew
<1>4. CASE c.ret # "none"
  <2>1. Counted(kind) /\ rqts' = rqts /\ svcThread'.at = "idle"
    BY <1>2, <1>4 DEF ThreadCalls
  <2>2. kind \in Change2 /\ ~svc.pending
    BY <1>1, <2>1 DEF Counted, CountedAs
  <2> QED
    BY <1>1, <1>3, <1>4, <2>1, <2>2, CountedKnows
<1>5. CASE c.ret = "none"
  <2>1. PICK n : n = Len(calls) + 1
    OBVIOUS
  <2>2. /\ ToBeSent(kind, {}) /\ svcThread'.call = n
        /\ \/ /\ svcThread'.at = "use" /\ kind = "read" /\ rqts' = rqts
              /\ way = "sync" => svc.info[d] # 0
           \/ svcThread'.at = "send" /\ way = "async" /\ kind # "read" /\ rqts' = rqts
           \/ /\ svcThread'.at = "wait"
              /\ \E x : Grown(rqts, rqts', x) /\ x.of = n /\ x.code # "read"
    BY <1>2, <1>5, <2>1 DEF ThreadCalls
  <2>3. /\ svc'.count = svc.count /\ (svc'.pending <=> svc.pending \/ kind \in Change2)
        /\ svc'.rw <=> svc.rw
        /\ svc'.registered <=> svc.registered
        /\ svc'.info = svc.info /\ ~svc'.failed /\ svc'.wait = svc.wait
    BY <1>1, <2>2, ToBeSentKnows
  <2>4. QueueStays /\ (rqts' = rqts \/ \E x : Grown(rqts, rqts', x) /\ x.code # "read")
    BY <2>2 DEF QueueStays
  <2>5. ~SyncReadBegun /\ svcThread.at # "woken" /\ svcThread'.at # "woken"
    BY <1>1, <2>2 DEF SyncReadBegun, Away
  <2>6. /\ kind = "start" => svc.count = 0
        /\ kind = "stop" => svc.count = 1
    BY <2>2 DEF ToBeSent
  <2>7. /\ PendingIsOne' /\ CountIsKept' /\ ReadIsOne' /\ KnownIsTrue' /\ MailIsTrue'
        /\ \A m : Pend(m)' <=> Pend(m) \/ m = n
        /\ \A m \in 1..Len(calls) : calls'[m] = calls[m]
        /\ calls'[n] = c
    BY <1>1, <1>3, <1>5, <2>1, <2>3, <2>4, <2>5, <2>6, NewKnows
  <2>8. Placed'
    <3>1. \A m : ~Holds(m)
      BY DEF Holds, Away
    <3>2. IsQueued(n)' \/ Holds(n)'
      <4>1. CASE svcThread'.at = "wait"
        <5>1. PICK x : Grown(rqts, rqts', x) /\ x.of = n
          BY <2>2, <4>1
        <5> QED
          BY <1>1, <5>1, QueueGrows DEF CInv, IsQueued
      <4>2. CASE svcThread'.at # "wait"
        BY <2>2, <4>2 DEF Holds
      <4> QED
        BY <4>1, <4>2
    <3> QED
      BY <1>1, <2>4, <2>7, <3>1, <3>2, PlacedStays DEF DInv
  <2>9. ReadsAreSized'
    <3>1. CASE svcThread'.at # "use"
      BY <1>1, <2>3, <2>4, <2>7, <3>1, SizedStays DEF DInv
    <3>2. CASE svcThread'.at = "use"
      <4>1. rqts' = rqts /\ kind = "read" /\ (way = "sync" => svc.info[d] # 0)
        BY <2>2, <3>2
      <4>2. svc.info[d] # 0
        BY <1>1, <4>1 DEF Accepted, Ways, Change2
      <4>3. calls'[svcThread'.call].device = d
        BY <1>3, <2>2, <2>7 DEF IsNew
      <4>4. \A k \in 1..Len(rqts) : calls'[rqts[k].of] = calls[rqts[k].of]
        BY <2>7 DEF CInv, OwnInv, RequestsAreOwn, RequestIsOwn, RequestFits
      <4> QED
        BY <2>3, <4>1, <4>2, <4>3, <4>4 DEF DInv, ReadsAreSized
    <3> QED
      BY <3>1, <3>2
  <2>10. SaidIsTrue'
    BY <1>1, <2>5, <2>7, SaidStays DEF DInv
  <2> QED
    BY <2>7, <2>8, <2>9, <2>10 DEF DInv
<1> QED
  BY <1>4, <1>5

\* A start or a stop as far as its tests.
LEMMA ChangeBeginsKnows ==
    ASSUME CInv, DInv, NEW kind \in Services, NEW d \in Devices, NEW way \in Ways, ChangeBegins(kind, d, way)
    PROVE  DInv'
<1>1. /\ svcThread.at = "idle" /\ ~svc.failed /\ svc' = svc /\ card' = card /\ calls' = calls /\ rqts' = rqts
      /\ svcThread'.at = "begin" /\ Types'
  <2>1. /\ svcThread.at = "idle" /\ ~svc.failed /\ svc' = svc /\ card' = card /\ calls' = calls /\ rqts' = rqts
        /\ svcThread' = [svcThread EXCEPT !.at = "begin"]
    BY DEF ChangeBegins, At, ThreadGoes
  <2>2. svcThread' \in [at : Places, call : Nat] /\ svcThread'.at = "begin"
    BY <2>1 DEF CInv, Types, ThreadTypes, Places
  <2> QED
    BY <2>1, <2>2 DEF CInv, Types, SvcTypes, CardTypes, SeqTypes, ThreadTypes
<1>2. SameOpen /\ (\A m : Pend(m)' <=> Pend(m)) /\ SameKnown /\ QueueStays
  <2>1. SameOpen /\ \A m : Pend(m)' <=> Pend(m)
    BY <1>1, SameCallsOpen DEF CInv
  <2>2. SameKnown /\ QueueStays
    BY <1>1 DEF SameKnown, QueueStays
  <2> QED
    BY <2>1, <2>2
<1>3. Placed'
  <2>1. \A m : ~Holds(m)
    BY <1>1 DEF Holds
  <2> QED
    BY <1>1, <1>2, <2>1, PlacedStays DEF DInv
<1>4. PendingIsOne' /\ ReadIsOne'
  BY <1>2, PendingStays, ReadStays DEF DInv
<1>5. CountIsKept'
  <2>1. \A m : Answered(m)' <=> Answered(m)
    BY <1>1, <1>2, AnsweredStays DEF CInv
  <2> QED
    BY <1>1, <1>2, <2>1, CountStays DEF DInv
<1>6. ReadsAreSized'
  BY <1>1, SizedStays DEF DInv
<1>7. KnownIsTrue' /\ MailIsTrue'
  BY <1>1, <1>2, KnownStays, MailStays DEF DInv, CInv
<1>8. SaidIsTrue'
  BY <1>1, SaidStays DEF DInv
<1> QED
  BY <1>3, <1>4, <1>5, <1>6, <1>7, <1>8 DEF DInv

\* A call of a callback.
LEMMA CallInCallbackKnows ==
    ASSUME CInv, DInv, met' = {}, NEW kind \in Services, NEW d \in Devices, CallInCallback(kind, d)
    PROVE  DInv'
<1>1. /\ ~svc.failed /\ card' = card /\ svcThread' = svcThread /\ Types'
      /\ Accepted(kind, d, "async") /\ ~Overlaps(kind)
      /\ kind = "read" => ~SyncReadBegun
      /\ kind \in Change2 => ~svc.pending
      /\ \E c : CallbackCalls(kind, d, c)
  <2>1. /\ ~svc.failed /\ card' = card /\ svcThread' = svcThread /\ Types'
        /\ Accepted(kind, d, "async") /\ Meets(kind) \subseteq met'
        /\ (kind = "read" /\ SyncReadBegun => "read" \in met')
        /\ \E c : CallbackCalls(kind, d, c)
    <3>1. Types
      BY DEF CInv
    <3>2. \E c : CallbackCalls(kind, d, c)
      BY <3>1, CallInCallbackIs DEF CallbackOvertakes
    <3> QED
      BY <3>1, <3>2, CallInCallbackIs
  <2>2. Meets(kind) = {}
    BY <2>1
  <2>3. ~Overlaps(kind) /\ (kind = "read" => ~SyncReadBegun)
    BY <2>1, <2>2 DEF Meets
  <2>4. kind \in Change2 => ~svc.pending
    BY <2>1 DEF Accepted, Change2
  <2> QED
    BY <2>1, <2>3, <2>4
<1>2. PICK c : CallbackCalls(kind, d, c)
  BY <1>1
<1>3. Grown(calls, calls', c) /\ IsNew(c, kind, d, "async") /\ c \in CallRecords /\ "async" \in Ways
  BY <1>2 DEF CallbackCalls, IsNew, Ways
<1>4. CASE c.ret # "none"
  <2>1. Counted(kind) /\ rqts' = rqts
    BY <1>2, <1>4 DEF CallbackCalls
  <2>2. kind \in Change2 /\ ~svc.pending
    BY <1>1, <2>1 DEF Counted, CountedAs
  <2> QED
    BY <1>1, <1>3, <1>4, <2>1, <2>2, CountedKnows
<1>5. CASE c.ret = "none"
  <2>1. PICK n : n = Len(calls) + 1
    OBVIOUS
  <2>2. PICK x : Grown(rqts, rqts', x) /\ x.of = n /\ x.code = kind
    BY <1>2, <1>5, <2>1 DEF CallbackCalls
  <2>3. /\ kind # "read" => ToBeSent(kind, {})
        /\ kind = "read" => /\ ToBeSent(kind, {"wait", "failed"}) /\ svc'.wait /\ c.size = svc.info[d]
                            /\ svc'.failed <=> ~svc.rw \/ \E k \in 1..Len(rqts) : rqts[k].code = "read"
    BY <1>2, <1>5 DEF CallbackCalls
  <2>4. kind = "read" => ~svc'.failed
    <3>1. kind = "read" => svc.rw
      <4>1. kind = "read" => svc.count # 0
        BY <1>1 DEF Accepted
      <4>2. svc.count \in Int
        BY DEF CInv, Types, SvcTypes
      <4> QED
        BY <4>1, <4>2 DEF DInv, CountIsKept
    <3>2. kind = "read" => \A k \in 1..Len(rqts) : rqts[k].code # "read"
      BY <1>1 DEF Accepted, DInv, ReadsAreSized
    <3> QED
      BY <2>3, <3>1, <3>2
  <2>5. /\ svc'.count = svc.count /\ (svc'.pending <=> svc.pending \/ kind \in Change2)
        /\ svc'.rw <=> svc.rw
        /\ svc'.registered <=> svc.registered
        /\ svc'.info = svc.info /\ ~svc'.failed
        /\ kind # "read" => svc'.wait = svc.wait
    <3>1. CASE kind = "read"
      <4>1. ToBeSent(kind, {"wait", "failed"}) /\ ~svc'.failed
        BY <2>3, <2>4, <3>1
      <4> QED
        BY <1>1, <3>1, <4>1, ToBeSentKnows
    <3>2. CASE kind # "read"
      <4>1. ToBeSent(kind, {})
        BY <2>3, <3>2
      <4> QED
        BY <1>1, <3>2, <4>1, ToBeSentKnows
    <3> QED
      BY <3>1, <3>2
  <2>6. /\ kind = "start" => svc.count = 0
        /\ kind = "stop" => svc.count = 1
    BY <2>3 DEF ToBeSent
  <2>7. QueueStays
    BY <2>2 DEF QueueStays
  <2>8. /\ PendingIsOne' /\ CountIsKept' /\ ReadIsOne' /\ KnownIsTrue' /\ MailIsTrue'
        /\ \A m : Pend(m)' <=> Pend(m) \/ m = n
        /\ \A m \in 1..Len(calls) : calls'[m] = calls[m]
        /\ calls'[n] = c
    BY <1>1, <1>3, <1>5, <2>1, <2>5, <2>6, <2>7, NewKnows
  <2>9. Placed'
    <3>1. IsQueued(n)' /\ \A m : Holds(m)' <=> Holds(m)
      BY <1>1, <2>2, QueueGrows DEF CInv, IsQueued, Holds
    <3> QED
      BY <1>1, <2>7, <2>8, <3>1, PlacedStays DEF DInv
  <2>10. ReadsAreSized'
    <3>1. CASE kind # "read"
      BY <1>1, <2>2, <2>5, <2>8, <3>1, SizedStays DEF DInv
    <3>2. CASE kind = "read"
      <4>1. c.size # 0 /\ svc'.wait
        BY <1>1, <2>3, <3>2 DEF Accepted
      <4>2. \A k \in 1..Len(rqts) : calls'[rqts[k].of] = calls[rqts[k].of]
        BY <2>8 DEF CInv, OwnInv, RequestsAreOwn, RequestIsOwn, RequestFits
      <4>3. svcThread.at = "use" => calls'[svcThread.call] = calls[svcThread.call]
        BY <2>8 DEF CInv, OwnInv, ThreadIsOwn, ThreadFits, Away
      <4>4. /\ rqts'[Len(rqts) + 1] = x
            /\ \A k \in 1..Len(rqts') : k \in 1..Len(rqts) \/ k = Len(rqts) + 1
            /\ \A k \in 1..Len(rqts) : rqts'[k] = rqts[k]
        BY <1>1, <2>2, QueueGrows DEF CInv
      <4>5. \A k \in 1..Len(rqts') : rqts'[k].code = "read" => calls'[rqts'[k].of].size # 0
        BY <2>2, <2>8, <4>1, <4>2, <4>4 DEF DInv, ReadsAreSized
      <4>6. svcThread'.at = "use" => svc'.info[calls'[svcThread'.call].device] # 0
        BY <1>1, <2>5, <4>3 DEF DInv, ReadsAreSized
      <4> QED
        BY <4>1, <4>5, <4>6 DEF ReadsAreSized
    <3> QED
      BY <3>1, <3>2
  <2>11. SaidIsTrue'
    BY <1>1, <2>8, SaidStays DEF DInv
  <2> QED
    BY <2>8, <2>9, <2>10, <2>11 DEF DInv
<1> QED
  BY <1>4, <1>5

\* The thread sends what it has inserted.
LEMMA SendRequestKnows ==
    ASSUME CInv, DInv, SendRequest
    PROVE  DInv'
<1>1. /\ svcThread.at = "send" /\ ~svc.failed /\ svc' = svc /\ card' = card /\ calls' = calls
      /\ svcThread'.at = "idle" /\ svcThread'.call = svcThread.call /\ Types'
  BY SendRequestIs DEF CInv
<1>2. PICK x : /\ Grown(rqts, rqts', x) /\ x.of = svcThread.call /\ x.code = calls[svcThread.call].kind
  BY SendRequestIs DEF CInv
<1>3. x.code # "read"
  BY <1>1, <1>2 DEF CInv, OwnInv, ThreadIsOwn, ThreadFits, Away
<1>4. SameOpen /\ (\A m : Pend(m)' <=> Pend(m)) /\ SameKnown /\ QueueStays
  <2>1. SameOpen /\ \A m : Pend(m)' <=> Pend(m)
    BY <1>1, SameCallsOpen DEF CInv
  <2>2. SameKnown /\ QueueStays
    BY <1>1, <1>2 DEF SameKnown, QueueStays
  <2> QED
    BY <2>1, <2>2
<1>5. Placed'
  <2>1. IsQueued(x.of)'
    BY <1>1, <1>2, QueueGrows DEF CInv, IsQueued
  <2>2. \A m : Holds(m) => m = x.of
    BY <1>2 DEF Holds
  <2> QED
    BY <1>1, <1>4, <2>1, <2>2, PlacedStays DEF DInv
<1>6. PendingIsOne' /\ ReadIsOne'
  BY <1>4, PendingStays, ReadStays DEF DInv
<1>7. CountIsKept'
  <2>1. \A m : Answered(m)' <=> Answered(m)
    BY <1>1, <1>4, AnsweredStays DEF CInv
  <2> QED
    BY <1>1, <1>4, <2>1, CountStays DEF DInv
<1>8. ReadsAreSized'
  BY <1>1, <1>2, <1>3, SizedStays DEF DInv
<1>9. KnownIsTrue' /\ MailIsTrue'
  BY <1>1, <1>4, KnownStays, MailStays DEF DInv, CInv
<1>10. SaidIsTrue'
  BY <1>1, SaidStays DEF DInv
<1> QED
  BY <1>5, <1>6, <1>7, <1>8, <1>9, <1>10 DEF DInv

\* The thread leaves a read.
LEMMA DrainedKnows ==
    ASSUME CInv, DInv, Drained
    PROVE  DInv'
<1>1. /\ svcThread.at = "drain" /\ ~svc.failed /\ svc' = svc /\ card' = card /\ calls' = calls /\ rqts' = rqts
      /\ svcThread'.at = "idle" /\ Types'
  BY DrainedIs DEF CInv
<1>2. SameOpen /\ (\A m : Pend(m)' <=> Pend(m)) /\ SameKnown /\ QueueStays
  <2>1. SameOpen /\ \A m : Pend(m)' <=> Pend(m)
    BY <1>1, SameCallsOpen DEF CInv
  <2>2. SameKnown /\ QueueStays
    BY <1>1 DEF SameKnown, QueueStays
  <2> QED
    BY <2>1, <2>2
<1>3. Placed'
  <2>1. \A m : ~Holds(m)
    BY <1>1 DEF Holds
  <2> QED
    BY <1>1, <1>2, <2>1, PlacedStays DEF DInv
<1>4. PendingIsOne' /\ ReadIsOne'
  BY <1>2, PendingStays, ReadStays DEF DInv
<1>5. CountIsKept'
  <2>1. \A m : Answered(m)' <=> Answered(m)
    BY <1>1, <1>2, AnsweredStays DEF CInv
  <2> QED
    BY <1>1, <1>2, <2>1, CountStays DEF DInv
<1>6. ReadsAreSized'
  BY <1>1, SizedStays DEF DInv
<1>7. KnownIsTrue' /\ MailIsTrue'
  BY <1>1, <1>2, KnownStays, MailStays DEF DInv, CInv
<1>8. SaidIsTrue'
  BY <1>1, SaidStays DEF DInv
<1> QED
  BY <1>3, <1>4, <1>5, <1>6, <1>7, <1>8 DEF DInv

\* The thread asks for its read: no other is under way.
LEMMA UseKnows ==
    ASSUME CInv, DInv, Use
    PROVE  DInv'
<1>1. PICK n, c : n = svcThread.call /\ c = calls[n]
  OBVIOUS
<1>2. /\ svcThread.at = "use" /\ ~svc.failed /\ card' = card /\ Types' /\ SvcDiffer({"wait", "failed"})
      /\ svc'.wait /\ svcThread'.call = n /\ svcThread'.at \in {"idle", "drain"}
      /\ svc'.failed <=> ~svc.rw \/ \E k \in 1..Len(rqts) : rqts[k].code = "read"
      /\ calls' = [calls EXCEPT ![n] = [c EXCEPT !.size = svc.info[c.device]]]
      /\ [c EXCEPT !.size = svc.info[c.device]] \in CallRecords
  BY <1>1, UseIs DEF CInv
<1>3. PICK y : Grown(rqts, rqts', y) /\ y.of = n /\ y.code = "read"
  BY <1>1, UseIs DEF CInv
<1>4. n \in 1..Len(calls) /\ c.kind = "read" /\ c.ret = "none" /\ calls \in Seq(CallRecords) /\ c \in CallRecords
  BY <1>1, <1>2 DEF CInv, OwnInv, ThreadIsOwn, ThreadFits, Away, Types, SeqTypes
<1>5. PICK x \in CallRecords : x = [c EXCEPT !.size = svc.info[c.device]]
  BY <1>2
<1>6. x.kind = c.kind /\ x.device = c.device /\ x.ret = c.ret /\ x.size = svc.info[c.device]
  BY <1>4, <1>5 DEF CallRecords
<1>7. Altered(calls, calls', n, x)
  BY <1>2, <1>4, <1>5, OneChanged DEF Altered
<1>8. Pend(n) /\ Reads(n) /\ Holds(n)
  BY <1>1, <1>2, <1>4 DEF Pend, Reads, Holds
<1>9. /\ SameOpen
      /\ \A m : Pend(m)' <=> Pend(m)
      /\ \A m \in 1..Len(calls) : m # n => calls'[m] = calls[m]
      /\ calls'[n] = x
  <2>1. SameOpen
    BY <1>1, <1>4, <1>6, <1>7, <1>8, OneEnds DEF CInv
  <2>2. /\ \A m : m # n => (Pend(m)' <=> Pend(m))
        /\ Pend(n)' <=> x.ret = "none"
        /\ \A m \in 1..Len(calls) : m # n => calls'[m] = calls[m]
        /\ calls'[n] = x
    BY <1>4, <1>7, PendAltered DEF CInv
  <2> QED
    BY <1>4, <1>6, <1>8, <2>1, <2>2
<1>10. \A k \in 1..Len(rqts) : rqts[k].code # "read"
  <2> SUFFICES ASSUME NEW k \in 1..Len(rqts), rqts[k].code = "read" PROVE FALSE
    OBVIOUS
  <2>1. RequestIsOwn(k)
    BY DEF CInv, OwnInv, RequestsAreOwn
  <2>2. Reads(rqts[k].of) /\ ~Holds(rqts[k].of)
    BY <2>1 DEF RequestIsOwn, RequestFits, Reads, Pend
  <2> QED
    BY <1>8, <2>2 DEF DInv, ReadIsOne
<1>11. SameKnown /\ svc'.info = svc.info
  <2>1. ~svc'.failed
    BY <1>2, <1>8, <1>10 DEF DInv, ReadIsOne, CountIsKept
  <2> QED
    BY <1>2, <2>1, SameKnownIs DEF SvcDiffer, SvcFields
<1>12. QueueStays
  BY <1>3 DEF QueueStays
<1>13. Placed'
  <2>1. IsQueued(n)'
    BY <1>2, <1>3, QueueGrows DEF CInv, IsQueued
  <2>2. \A m : Holds(m) => m = n
    BY <1>1 DEF Holds
  <2> QED
    BY <1>2, <1>9, <1>12, <2>1, <2>2, PlacedStays DEF DInv
<1>14. PendingIsOne' /\ ReadIsOne'
  BY <1>9, <1>11, PendingStays, ReadStays DEF DInv
<1>15. CountIsKept'
  <2>1. \A m : Answered(m)' <=> Answered(m)
    BY <1>2, <1>12, AnsweredStays DEF CInv
  <2> QED
    BY <1>2, <1>9, <1>11, <2>1, CountStays DEF DInv
<1>16. ReadsAreSized'
  <2>1. x.size # 0
    BY <1>1, <1>2, <1>6 DEF DInv, ReadsAreSized
  <2>2. /\ rqts'[Len(rqts) + 1] = y
        /\ \A k \in 1..Len(rqts') : k \in 1..Len(rqts) \/ k = Len(rqts) + 1
        /\ \A k \in 1..Len(rqts) : rqts'[k] = rqts[k]
    BY <1>2, <1>3, QueueGrows DEF CInv
  <2>3. \A k \in 1..Len(rqts') : rqts'[k].code = "read" => calls'[rqts'[k].of].size # 0
    BY <1>3, <1>9, <1>10, <2>1, <2>2
  <2> QED
    BY <1>2, <2>3 DEF ReadsAreSized
<1>17. KnownIsTrue' /\ MailIsTrue'
  BY <1>2, <1>11, <1>12, KnownStays, MailStays DEF DInv, CInv, SameKnown
<1>18. SaidIsTrue'
  BY <1>2 DEF SaidIsTrue
<1> QED
  BY <1>13, <1>14, <1>15, <1>16, <1>17, <1>18 DEF DInv

\* No start or stop is under way with a read, and only one is.
LEMMA Alone ==
    ASSUME DInv
    PROVE  /\ \A n : Starts(n) \/ Stops(n) => \A m : ~Reads(m) /\ (Starts(m) \/ Stops(m) => m = n)
           /\ \A n : ~(Starts(n) /\ Stops(n)) /\ ~(Starts(n) /\ Reads(n)) /\ ~(Stops(n) /\ Reads(n))
<1>1. \A n : ~(Starts(n) /\ Stops(n)) /\ ~(Starts(n) /\ Reads(n)) /\ ~(Stops(n) /\ Reads(n))
  BY DEF Starts, Stops, Reads
<1> QED
  BY <1>1 DEF DInv, PendingIsOne, ReadIsOne

\* No read is queued when there is none.
LEMMA NoneQueued ==
    ASSUME CInv, \A m : ~Reads(m)
    PROVE  /\ \A k \in 1..Len(rqts) : rqts[k].code # "read"
           /\ svcThread.at # "use"
<1>1. \A k \in 1..Len(rqts) : rqts[k].code # "read"
  <2> SUFFICES ASSUME NEW k \in 1..Len(rqts), rqts[k].code = "read" PROVE FALSE
    OBVIOUS
  <2>1. RequestIsOwn(k)
    BY DEF CInv, OwnInv, RequestsAreOwn
  <2>2. Reads(rqts[k].of)
    BY <2>1 DEF RequestIsOwn, RequestFits, Reads, Pend
  <2> QED
    BY <2>2
<1>2. svcThread.at # "use"
  <2> SUFFICES ASSUME svcThread.at = "use" PROVE FALSE
    OBVIOUS
  <2>1. Reads(svcThread.call)
    BY DEF CInv, OwnInv, ThreadIsOwn, ThreadFits, Away, Reads, Pend
  <2> QED
    BY <2>1
<1> QED
  BY <1>1, <1>2

\* A call has its answer: a start and a stop are what the firmware has made of them.
LEMMA AnswerKnows ==
    ASSUME CInv, DInv, Types', NEW n, Pend(n), Answered(n), ~Pend(n)', \A m : m # n => (Pend(m)' <=> Pend(m)),
           \A m \in 1..Len(calls) : m # n => calls'[m] = calls[m],
           \A m : m # n => (Answered(m)' <=> Answered(m)), card'.running = card.running,
           NEW code, code = calls[n].kind \/ (code = "size" /\ calls[n].kind = "read"),
           NEW d, NEW reply, NEW more, more = {} \/ more = {"nodes"}, HandledAs(code, d, reply, more)
    PROVE  PendingIsOne' /\ CountIsKept' /\ ReadIsOne'
<1>1. \A m : Pend(m) => m \in 1..Len(calls)
  BY DEF Pend
<1>2. /\ \A m : m # n => (Starts(m)' <=> Starts(m)) /\ (Stops(m)' <=> Stops(m)) /\ (Reads(m)' <=> Reads(m))
      /\ ~Starts(n)' /\ ~Stops(n)' /\ ~Reads(n)'
  BY <1>1 DEF Starts, Stops, Reads
<1>3. svc.count \in Int /\ svc'.count \in Int
  BY DEF CInv, Types, SvcTypes
<1>4. CASE code \in Change2
  <2>1. Starts(n) \/ Stops(n)
    BY <1>4 DEF Starts, Stops, Change2
  <2>2. \A m : ~Starts(m)' /\ ~Stops(m)' /\ ~Reads(m)' /\ ~Reads(m)
    BY <1>2, <2>1, Alone
  <2>3. ~svc'.pending
    BY <1>4 DEF HandledAs, Change2
  <2>4. PendingIsOne' /\ ReadIsOne'
    BY <2>2, <2>3 DEF PendingIsOne, ReadIsOne
  <2>5. CASE code = "start"
    <3>1. Starts(n) /\ svc.count = 0 /\ card.running
      BY <2>5 DEF Starts, DInv, CountIsKept
    <3>2. /\ SvcDiffer({"info", "count", "pending", "rw", "registered"} \cup more)
          /\ svc'.count = svc.count + 1 /\ svc'.rw /\ svc'.registered
      BY <2>5 DEF HandledAs
    <3>3. ~svc'.failed
      <4>1. "failed" \in SvcFields \ ({"info", "count", "pending", "rw", "registered"} \cup more)
        BY DEF SvcFields
      <4> QED
        BY <3>2, <4>1 DEF SvcDiffer, DInv, CountIsKept
    <3>4. svc'.count = 1
      BY <3>1, <3>2
    <3> QED
      BY <2>2, <2>4, <3>1, <3>2, <3>3, <3>4 DEF CountIsKept
  <2>6. CASE code = "stop"
    <3>1. Stops(n) /\ svc.count = 1 /\ ~card.running
      BY <2>6 DEF Stops, DInv, CountIsKept
    <3>2. svc'.count = svc.count - 1 /\ (svc'.failed <=> svc.failed \/ \E k \in 1..Len(rqts) : rqts[k].code = "read")
      <4>1. svc.rw
        BY <3>1 DEF DInv, CountIsKept
      <4>2. /\ svc'.count = svc.count - 1
            /\ svc'.failed <=> svc.failed \/ ~svc.rw \/ \E k \in 1..Len(rqts) : rqts[k].code = "read"
        BY <2>6 DEF HandledAs
      <4> QED
        BY <4>1, <4>2
    <3>3. ~svc'.failed
      BY <2>2, <3>2, NoneQueued DEF DInv, CountIsKept
    <3>4. svc'.count = 0
      BY <3>1, <3>2
    <3> QED
      BY <2>2, <2>4, <3>1, <3>3, <3>4 DEF CountIsKept
  <2> QED
    BY <1>4, <2>5, <2>6 DEF Change2
<1>5. CASE code \notin Change2
  <2>1. SameOpen
    <3>1. ~Starts(n) /\ ~Stops(n)
      BY <1>5 DEF Starts, Stops, Change2
    <3> QED
      BY <1>2, <3>1 DEF SameOpen
  <2>2. SvcDiffer({"info"} \cup more) \/ SvcDiffer(more)
    BY <1>5 DEF HandledAs, Change2
  <2>3. SameKnown
    <3>1. ~svc.failed
      BY DEF DInv, CountIsKept
    <3>2. CASE SvcDiffer({"info"} \cup more)
      BY <3>1, <3>2, SameKnownIs
    <3>3. CASE SvcDiffer(more)
      BY <3>1, <3>3, SameKnownIs
    <3> QED
      BY <2>2, <3>2, <3>3
  <2>4. \A m : Starts(m) \/ Stops(m) => m # n
    BY <1>5 DEF Starts, Stops, Change2
  <2> QED
    BY <2>1, <2>3, <2>4, PendingStays, CountStays, ReadStays DEF DInv
<1> QED
  BY <1>4, <1>5

\* What the answer says of a device is true, and the other descriptions stay.
LEMMA AnswerDescribes ==
    ASSUME CInv, DInv, Types', NEW n, Pend(n), Answered(n), card'.running = card.running,
           NEW code, code = calls[n].kind \/ (code = "size" /\ calls[n].kind = "read"),
           NEW d \in Devices, NEW reply, NEW more, more = {} \/ more = {"nodes"}, HandledAs(code, d, reply, more),
           \A e \in Devices : \A v : Current(e, v, 0) => Current(e, v, 0)',
           code \in Queries /\ reply.ok => Current(d, reply.value, 0)'
    PROVE  /\ KnownIsTrue'
           /\ svc'.wait = svc.wait
           /\ code \notin Change2 => \A e \in Devices : svc.info[e] # 0 => svc'.info[e] # 0
<1>1. svc.info \in [Devices -> Nat] /\ svc'.info \in [Devices -> Nat] /\ svc.count \in Int
  BY DEF CInv, Types, SvcTypes
<1>2. CASE code = "start"
  <2>1. Starts(n) /\ svc.count = 0
    BY <1>2 DEF Starts, DInv, CountIsKept
  <2>2. /\ SvcDiffer({"info", "count", "pending", "rw", "registered"} \cup more)
        /\ svc'.info = [e \in Devices |-> 0]
    BY <1>2, <2>1 DEF HandledAs
  <2>3. KnownIsTrue'
    BY <2>2 DEF KnownIsTrue
  <2>4. svc'.wait = svc.wait
    BY <2>2 DEF SvcDiffer, SvcFields
  <2> QED
    BY <1>2, <2>3, <2>4 DEF Change2
<1>3. CASE code = "stop"
  <2>1. Stops(n) /\ svc.count = 1
    BY <1>3 DEF Stops, DInv, CountIsKept
  <2>2. /\ SvcDiffer({"count", "pending", "rw", "failed"} \cup more)
        /\ svc'.count = svc.count - 1
    BY <1>3 DEF HandledAs
  <2>3. svc'.count = 0
    BY <2>1, <2>2
  <2>4. KnownIsTrue'
    BY <2>3 DEF KnownIsTrue
  <2>5. svc'.wait = svc.wait
    BY <2>2 DEF SvcDiffer, SvcFields
  <2> QED
    BY <1>3, <2>4, <2>5 DEF Change2
<1>4. CASE code \in Queries /\ reply.ok
  <2>1. SvcDiffer({"info"} \cup more) /\ svc'.info = [svc.info EXCEPT ![d] = reply.value]
    BY <1>4 DEF HandledAs
  <2>2. svc'.wait = svc.wait /\ svc'.count = svc.count
    BY <2>1 DEF SvcDiffer, SvcFields
  <2>3. svc'.info[d] = reply.value /\ \A e \in Devices : e # d => svc'.info[e] = svc.info[e]
    BY <1>1, <2>1
  <2>4. reply.value # 0
    BY <1>4 DEF Current
  <2>5. KnownIsTrue'
    BY <1>4, <2>2, <2>3 DEF DInv, KnownIsTrue
  <2> QED
    BY <2>2, <2>3, <2>4, <2>5
<1>5. CASE code \notin Change2 /\ ~(code \in Queries /\ reply.ok)
  <2>1. SvcDiffer(more)
    BY <1>5 DEF HandledAs
  <2>2. svc'.wait = svc.wait /\ svc'.count = svc.count /\ svc'.info = svc.info
    BY <2>1 DEF SvcDiffer, SvcFields
  <2>3. KnownIsTrue'
    BY <2>2 DEF DInv, KnownIsTrue
  <2> QED
    BY <2>2, <2>3
<1> QED
  BY <1>2, <1>3, <1>4, <1>5 DEF Change2

\* The descriptions, device by device, and the messages, one by one.
LEMMA KnownByDevice ==
    ASSUME svc'.count > 0 /\ card'.running =>
               \A e \in Devices : \A v : v = svc'.info[e] => v = 0 \/ Current(e, v, 0)'
    PROVE  KnownIsTrue'
  BY DEF KnownIsTrue

\* The messages, one by one.
LEMMA MailByMessage ==
    ASSUME \A k \in 1..Len(card'.mail) : \A d, v :
               /\ IsReply(k)' /\ rqts'[1].code \in Queries /\ card'.mail[k].reply.ok
               /\ d = rqts'[1].device /\ v = card'.mail[k].reply.value
               => card'.running /\ Current(d, v, k)'
    PROVE  MailIsTrue'
  BY DEF MailIsTrue

\* What the thread handles is no answer to another call.
LEMMA AnsweredLeft ==
    ASSUME CInv, Types', svcThread.at = "woken", svcThread'.at # "woken", card' = card, rqts' = rqts
    PROVE  \A m : m # svcThread.call => (Answered(m)' <=> Answered(m))
<1>1. \A k \in 1..Len(card.mail) : IsReply(k)' <=> IsReply(k)
  BY DEF IsReply
<1> QED
  BY <1>1 DEF Answered

\* The thread handles its reply.
LEMMA WokenKnows ==
    ASSUME CInv, DInv, Woken
    PROVE  DInv'
<1>1. PICK n, c, code, d, said :
          /\ n = svcThread.call /\ c = calls[n] /\ d = c.device /\ said = c.said
          /\ code = IF c.kind = "read" THEN "size" ELSE c.kind
  OBVIOUS
<1>2. /\ svcThread.at = "woken" /\ ~svc.failed /\ card' = card /\ rqts' = rqts /\ Types'
      /\ n \in 1..Len(calls) /\ c \in CallRecords
      /\ svcThread'.call = n /\ HandledAs(code, d, said, {})
  BY <1>1, WokenIs DEF CInv
<1>3. /\ d \in Devices /\ c.ret = "none" /\ Pend(n)
      /\ code = c.kind \/ (code = "size" /\ c.kind = "read")
  BY <1>1, <1>2 DEF CallRecords, CInv, OwnInv, ThreadIsOwn, ThreadFits, Away, Pend
<1>4. QueueStays /\ Answered(n) /\ \A m : m # n => (Answered(m)' <=> Answered(m)) \/ svcThread'.at = "woken"
  <2>1. QueueStays /\ Answered(n)
    BY <1>1, <1>2 DEF QueueStays, Answered
  <2>2. svcThread'.at # "woken" => \A m : m # n => (Answered(m)' <=> Answered(m))
    BY <1>1, <1>2, AnsweredLeft
  <2> QED
    BY <2>1, <2>2
<1>5. \A e \in Devices : \A v : Current(e, v, 0) => Current(e, v, 0)'
  BY <1>2 DEF Current, ToldBehind
<1>6. code \in Queries /\ said.ok => Current(d, said.value, 0)'
  <2>1. code \in Queries => c.kind \in Queries \cup {"read"}
    BY <1>3
  <2> QED
    BY <1>1, <1>2, <1>3, <1>5, <2>1 DEF DInv, SaidIsTrue
<1>7. /\ KnownIsTrue'
      /\ svc'.wait = svc.wait
      /\ code \notin Change2 => \A e \in Devices : svc.info[e] # 0 => svc'.info[e] # 0
  BY <1>1, <1>2, <1>3, <1>4, <1>5, <1>6, AnswerDescribes
<1>8. MailIsTrue'
  BY <1>2, <1>4, MailStays DEF DInv, CInv
<1>9. \A k \in 1..Len(rqts) : rqts[k].of \in 1..Len(calls) /\ rqts[k].of # n
  <2>1. Holds(n)
    BY <1>1, <1>2 DEF Holds
  <2> QED
    BY <2>1 DEF CInv, OwnInv, RequestsAreOwn, RequestIsOwn, RequestFits
\* The call ends.
<1>10. ASSUME NEW x \in CallRecords, Altered(calls, calls', n, x), x.ret # "none", svcThread'.at = "idle"
       PROVE  DInv'
  <2>1. /\ \A m : m # n => (Pend(m)' <=> Pend(m))
        /\ ~Pend(n)'
        /\ \A m \in 1..Len(calls) : m # n => calls'[m] = calls[m]
    BY <1>2, <1>10, PendAltered DEF CInv
  <2>2. PendingIsOne' /\ CountIsKept' /\ ReadIsOne'
    <3>1. \A m : m # n => (Answered(m)' <=> Answered(m))
      BY <1>4, <1>10
    <3>2. card'.running = card.running /\ (code = calls[n].kind \/ (code = "size" /\ calls[n].kind = "read"))
      BY <1>1, <1>2, <1>3
    <3> HIDE DEF Answered, Pend
    <3> QED
      BY <1>2, <1>3, <1>4, <2>1, <3>1, <3>2, AnswerKnows
  <2>3. Placed'
    <3>1. \A m : Holds(m) => m = n
      BY <1>1 DEF Holds
    <3>2. \A m : Pend(m)' => Pend(m)
      BY <1>3, <2>1
    <3> QED
      BY <1>2, <1>4, <2>1, <3>1, <3>2, PlacedStays DEF DInv
  <2>4. ReadsAreSized'
    BY <1>2, <1>7, <1>9, <1>10, <2>1 DEF DInv, ReadsAreSized
  <2>5. SaidIsTrue'
    BY <1>10 DEF SaidIsTrue
  <2> QED
    BY <1>7, <1>8, <2>2, <2>3, <2>4, <2>5 DEF DInv
\* A read goes on with the size that it has asked for.
<1>11. CASE c.kind = "read" /\ said.ok /\ svcThread'.at = "use" /\ calls' = calls
  <2>1. SameOpen /\ \A m : Pend(m)' <=> Pend(m)
    BY <1>11, SameCallsOpen DEF CInv
  <2>2. code = "size" /\ code \in Queries /\ SvcDiffer({"info"}) /\ svc'.info = [svc.info EXCEPT ![d] = said.value]
    <3>1. code = "size" /\ code \in Queries
      BY <1>1, <1>11 DEF Queries
    <3>2. SvcDiffer({"info"} \cup {}) /\ svc'.info = [svc.info EXCEPT ![d] = said.value]
      BY <1>2, <1>11, <3>1 DEF HandledAs
    <3> QED
      BY <3>1, <3>2
  <2>3. SameKnown
    BY <1>2, <2>2, SameKnownIs
  <2>4. Placed'
    <3>1. \A m : Holds(m)' <=> Holds(m)
      BY <1>1, <1>2, <1>11 DEF Holds
    <3> QED
      BY <1>2, <1>4, <2>1, <3>1, PlacedStays DEF DInv
  <2>5. PendingIsOne' /\ ReadIsOne'
    BY <2>1, <2>3, PendingStays, ReadStays DEF DInv
  <2>6. CountIsKept'
    <3>1. \A m : Starts(m) \/ Stops(m) => m # n
      BY <1>1, <1>11 DEF Starts, Stops
    <3>2. \A m : Starts(m) \/ Stops(m) => (Answered(m)' <=> Answered(m))
      BY <1>4, <1>11, <3>1
    <3> QED
      BY <1>2, <2>1, <2>3, <3>2, CountStays DEF DInv
  <2>7. ReadsAreSized'
    <3>1. svc'.info[d] = said.value
      BY <1>3, <2>2 DEF CInv, Types, SvcTypes
    <3>2. said.value # 0
      BY <1>6, <1>11, <2>2 DEF Current
    <3>3. svc'.info[calls'[svcThread'.call].device] # 0
      BY <1>1, <1>2, <1>11, <3>1, <3>2
    <3> QED
      BY <1>2, <1>7, <1>11, <3>3 DEF DInv, ReadsAreSized
  <2>8. SaidIsTrue'
    BY <1>11 DEF SaidIsTrue
  <2> QED
    BY <1>7, <1>8, <2>4, <2>5, <2>6, <2>7, <2>8 DEF DInv
<1>12. CASE c.kind # "read" /\ svcThread'.at = "idle"
  <2>1. PICK x \in CallRecords :
            /\ Altered(calls, calls', n, x)
            /\ x = [c EXCEPT !.ret = Result(c.kind, said), !.data = Data(c.kind, said)]
    BY <1>1, <1>12, WokenIs DEF CInv
  <2>2. x.ret = Result(c.kind, said) /\ said \in Replies
    BY <1>1, <1>2, <2>1 DEF CallRecords
  <2>3. x.ret # "none"
    BY <2>2, RepliesAreResults
  <2> QED
    BY <1>10, <1>12, <2>1, <2>3
<1>13. CASE c.kind = "read" /\ ~said.ok /\ svcThread'.at = "idle"
  <2>1. PICK x \in CallRecords : Altered(calls, calls', n, x) /\ x = [c EXCEPT !.ret = "INVALID_RESPONSE"]
    BY <1>1, <1>13, WokenIs DEF CInv
  <2>2. x.ret # "none"
    BY <1>2, <2>1 DEF CallRecords
  <2> QED
    BY <1>10, <1>13, <2>1, <2>2
<1> QED
  BY <1>1, <1>11, <1>12, <1>13, WokenIs DEF CInv

\* A change of a medium is told.
LEMMA MediaChangedKnows ==
    ASSUME CInv, DInv, met' = {}, card.mail # <<>>, ~svc.failed, MediaChanged(Head(card.mail).device),
           Head(card.mail).changed
    PROVE  DInv'
<1>1. PICK d : d = Head(card.mail).device
  OBVIOUS
<1>2. /\ ~Disturbs /\ d \in Devices /\ rqts' = rqts /\ calls' = calls /\ svcThread' = svcThread
      /\ Types' /\ SvcDiffer({"info"})
      /\ svc'.info = IF svc.registered THEN [svc.info EXCEPT ![d] = 0] ELSE svc.info
      /\ card' = [card EXCEPT !.mail = Tail(@), !.told = svc.registered]
  BY <1>1, MediaChangedIs DEF CInv
<1>3. card'.mail = Tail(card.mail) /\ card'.media = card.media /\ card'.running = card.running
  BY <1>2 DEF CInv, Types, CardTypes
<1>4. svcThread.at \notin {"woken", "use"}
  BY <1>2 DEF Disturbs
<1>5. /\ card.mail[1].device = d /\ ~IsReply(1)
      /\ \A k \in 1..Len(card'.mail) : /\ card'.mail[k] = card.mail[k + 1] /\ k + 1 \in 1..Len(card.mail)
                                       /\ IsReply(k)' <=> IsReply(k + 1)
      /\ \A k \in 1..Len(card.mail) : k = 1 \/ (k - 1 \in 1..Len(card'.mail) /\ (k - 1) + 1 = k)
  <2>1. card.mail \in Seq(Messages) /\ Head(card.mail) = card.mail[1]
    BY <1>3, MailShrinks DEF CInv, Types, CardTypes
  <2>2. \A k \in 1..Len(card.mail) : k = 1 \/ (k - 1 \in 1..Len(card'.mail) /\ k = (k - 1) + 1)
    BY <1>3, <2>1, OneLess
  <2>3. \A k \in 1..Len(card'.mail) : /\ card'.mail[k] = card.mail[k + 1] /\ k + 1 \in 1..Len(card.mail)
                                      /\ IsReply(k)' <=> IsReply(k + 1)
    BY <1>3, MailShrinks DEF CInv
  <2> QED
    BY <1>1, <2>1, <2>2, <2>3 DEF IsReply
<1>6. SameOpen /\ (\A m : Pend(m)' <=> Pend(m)) /\ SameKnown /\ QueueStays
  <2>1. SameOpen /\ \A m : Pend(m)' <=> Pend(m)
    BY <1>2, SameCallsOpen DEF CInv
  <2>2. SameKnown
    BY <1>2, SameKnownIs
  <2> QED
    BY <1>2, <2>1, <2>2 DEF QueueStays
<1>7. Placed'
  <2>1. \A m : Holds(m)' <=> Holds(m)
    BY <1>2 DEF Holds
  <2> QED
    BY <1>2, <1>6, <2>1, PlacedStays DEF DInv
<1>8. PendingIsOne' /\ ReadIsOne'
  BY <1>6, PendingStays, ReadStays DEF DInv
<1>9. CountIsKept'
  <2>1. \A m : Answered(m)' <=> Answered(m)
    <3> SUFFICES ASSUME NEW m PROVE Answered(m)' <=> Answered(m)
      OBVIOUS
    <3>1. (\E k \in 1..Len(card'.mail) : IsReply(k)') <=> (\E k \in 1..Len(card.mail) : IsReply(k))
      <4>1. ASSUME NEW k \in 1..Len(card.mail), IsReply(k) PROVE \E j \in 1..Len(card'.mail) : IsReply(j)'
        <5>1. k # 1
          BY <1>5, <4>1
        <5>2. k - 1 \in 1..Len(card'.mail) /\ (k - 1) + 1 = k
          BY <1>5, <5>1
        <5>3. PICK j : j = k - 1
          OBVIOUS
        <5>4. j \in 1..Len(card'.mail) /\ j + 1 = k
          BY <5>2, <5>3
        <5>5. IsReply(j + 1)
          BY <4>1, <5>4
        <5> QED
          BY <1>5, <5>4, <5>5
      <4>2. ASSUME NEW k \in 1..Len(card'.mail), IsReply(k)' PROVE \E j \in 1..Len(card.mail) : IsReply(j)
        BY <1>5, <4>2
      <4> QED
        BY <4>1, <4>2
    <3> QED
      BY <1>2, <3>1 DEF Answered
  <2> QED
    BY <1>3, <1>6, <2>1, CountStays DEF DInv
<1>10. ReadsAreSized'
  <2>1. svc'.wait = svc.wait
    BY <1>2 DEF SvcDiffer, SvcFields
  <2> QED
    BY <1>2, <1>4, <2>1 DEF DInv, ReadsAreSized
<1>11. /\ \A e, v : \A k \in Nat : Current(e, v, k + 1) => Current(e, v, k)'
       /\ \A e, v : e # d /\ Current(e, v, 0) => Current(e, v, 0)'
  <2>1. /\ \A e, v : \A k \in Nat : Current(e, v, k + 1) => Current(e, v, k)'
        /\ \A e, v : ~(card.mail[1].changed /\ card.mail[1].device = e) /\ Current(e, v, 0) => Current(e, v, 0)'
    BY <1>3, CurrentShrinks DEF CInv
  <2> QED
    BY <1>5, <2>1
<1>12. KnownIsTrue'
  <2> SUFFICES ASSUME svc'.count > 0, card'.running, NEW e \in Devices, NEW v, v = svc'.info[e], v # 0
               PROVE  Current(e, v, 0)'
    BY KnownByDevice
  <2>1. svc.count > 0 /\ svc.registered /\ svc.info \in [Devices -> Nat]
    BY <1>6 DEF SameKnown, DInv, CountIsKept, CInv, Types, SvcTypes
  <2>2. svc'.info = [svc.info EXCEPT ![d] = 0]
    BY <1>2, <2>1
  <2>3. e # d /\ v = svc.info[e]
    BY <1>2, <2>1, <2>2
  <2>4. Current(e, v, 0)
    BY <1>3, <2>1, <2>3 DEF DInv, KnownIsTrue
  <2> QED
    BY <1>11, <2>3, <2>4
<1>13. MailIsTrue'
  <2> SUFFICES ASSUME NEW k \in 1..Len(card'.mail), NEW e, NEW v, IsReply(k)', rqts'[1].code \in Queries,
                      card'.mail[k].reply.ok, e = rqts'[1].device, v = card'.mail[k].reply.value
               PROVE  card'.running /\ Current(e, v, k)'
    BY MailByMessage
  <2>1. card'.mail[k] = card.mail[k + 1] /\ k + 1 \in 1..Len(card.mail) /\ IsReply(k + 1) /\ k \in Nat
    BY <1>5
  <2>2. card.running /\ Current(e, v, k + 1)
    BY <1>2, <2>1 DEF DInv, MailIsTrue
  <2> QED
    BY <1>3, <1>11, <2>1, <2>2
<1>14. SaidIsTrue'
  BY <1>2, <1>4 DEF SaidIsTrue
<1> QED
  BY <1>7, <1>8, <1>9, <1>10, <1>12, <1>13, <1>14 DEF DInv

\* The devices are those of the buses.
LEMMA DevicesAre ==
    ASSUME CInv
    PROVE  /\ \A m : Pend(m) => calls[m].device \in Devices
           /\ svcThread.at = "woken" => calls[svcThread.call].device \in Devices
           /\ \A k \in 1..Len(rqts) : rqts[k].device \in Devices
<1>1. \A m \in 1..Len(calls) : calls[m] \in CallRecords
  BY DEF CInv, Types, SeqTypes
<1>2. \A k \in 1..Len(rqts) : rqts[k] \in Requests
  BY DEF CInv, Types, SeqTypes
<1>3. svcThread.at = "woken" => svcThread.call \in 1..Len(calls)
  BY DEF CInv, OwnInv, ThreadIsOwn, ThreadFits, Away
<1> QED
  BY <1>1, <1>2, <1>3 DEF Pend, CallRecords, Requests

\* A response takes the first request from the queue, and the reply from the mail.
LEMMA ResponseTakes ==
    ASSUME CInv, Types', card.mail # <<>>, ~Head(card.mail).changed, rqts # <<>>, rqts' = Tail(rqts),
           card'.mail = Tail(card.mail), card'.media = card.media
    PROVE  /\ 1 \in 1..Len(card.mail) /\ Head(card.mail) = card.mail[1] /\ IsReply(1)
           /\ \A k \in 1..Len(card'.mail) : ~IsReply(k)'
           /\ \A k \in 1..Len(card.mail) : IsReply(k) => k = 1
           /\ \A e, v : Current(e, v, 1) \/ Current(e, v, 0) => Current(e, v, 0)'
           /\ \A k \in 1..Len(rqts') : /\ rqts'[k] = rqts[k + 1] /\ k + 1 \in 1..Len(rqts)
                                       /\ rqts'[k].of # rqts[1].of
           /\ \A m : IsQueued(m) => m = rqts[1].of \/ IsQueued(m)'
           /\ MailIsTrue'
<1> USE DEF CInv
<1>1. /\ 1 \in 1..Len(card.mail) /\ Head(card.mail) = card.mail[1]
      /\ \A k \in 1..Len(card'.mail) : k + 1 \in 1..Len(card.mail) /\ k + 1 # 1 /\ (IsReply(k)' <=> IsReply(k + 1))
  BY MailShrinks
<1>2. IsReply(1)
  BY <1>1 DEF IsReply
<1>3. \A k \in 1..Len(card.mail) : IsReply(k) => k = 1
  BY <1>1, <1>2 DEF RepliesAreDue
<1>4. \A k \in 1..Len(card'.mail) : ~IsReply(k)'
  BY <1>1, <1>3
<1>5. \A e, v : Current(e, v, 1) \/ Current(e, v, 0) => Current(e, v, 0)'
  <2>1. /\ \A e, v : \A k \in Nat : Current(e, v, k + 1) => Current(e, v, k)'
        /\ \A e, v : ~(card.mail[1].changed /\ card.mail[1].device = e) /\ Current(e, v, 0) => Current(e, v, 0)'
    BY CurrentShrinks
  <2>2. \A e, v : Current(e, v, 0 + 1) => Current(e, v, 0)'
    BY <2>1
  <2> QED
    BY <1>1, <2>1, <2>2
<1>6. \A k \in 1..Len(rqts') : /\ rqts'[k] = rqts[k + 1] /\ k + 1 \in 1..Len(rqts)
                               /\ rqts'[k].of # rqts[1].of
  <2>1. /\ 1 \in 1..Len(rqts)
        /\ \A k \in 1..Len(rqts') : rqts'[k] = rqts[k + 1] /\ k + 1 \in 1..Len(rqts) /\ k + 1 # 1
    BY QueueShrinks
  <2>2. \A j, k \in 1..Len(rqts) : rqts[j].of = rqts[k].of => j = k
    BY DEF OwnInv, RequestsAreOwn
  <2> QED
    BY <2>1, <2>2
<1>7. \A m : IsQueued(m) => m = rqts[1].of \/ IsQueued(m)'
  <2> SUFFICES ASSUME NEW m, IsQueued(m), m # rqts[1].of PROVE IsQueued(m)'
    OBVIOUS
  <2>1. PICK k \in 1..Len(rqts) : rqts[k].of = m
    BY DEF IsQueued
  <2>2. k # 1
    BY <2>1
  <2>3. PICK j : j = k - 1
    OBVIOUS
  <2>4. j \in 1..Len(rqts') /\ j + 1 = k
    <3>1. rqts \in Seq(Requests)
      BY DEF Types, SeqTypes
    <3>2. k - 1 \in 1..Len(rqts') /\ k = (k - 1) + 1
      BY <2>2, <3>1, OneLess
    <3> QED
      BY <2>3, <3>2
  <2>5. rqts'[j].of = m
    BY <1>6, <2>1, <2>4
  <2> QED
    BY <2>4, <2>5 DEF IsQueued
<1>8. MailIsTrue'
  BY <1>4 DEF MailIsTrue
<1> QED
  BY <1>1, <1>2, <1>3, <1>4, <1>5, <1>6, <1>7, <1>8

\* A response is that of a read, of the waiting thread, or of a callback.
LEMMA ResponseKnows ==
    ASSUME CInv, DInv, card.mail # <<>>, ~svc.failed, ~Head(card.mail).changed, Response(Head(card.mail).reply)
    PROVE  DInv'
<1>1. rqts # <<>>
  <2>1. card.mail \in Seq(Messages)
    BY DEF CInv, Types, CardTypes
  <2>2. 1 \in 1..Len(card.mail) /\ Head(card.mail) = card.mail[1]
    BY <2>1
  <2> QED
    BY <2>2 DEF CInv, RepliesAreDue, IsReply
<1>2. PICK rqt, n, c, reply : /\ rqt = rqts[1] /\ n = rqt.of /\ c = calls[n]
                              /\ reply = Head(card.mail).reply
  OBVIOUS
<1>3. /\ reply \in Replies /\ n \in 1..Len(calls) /\ c \in CallRecords /\ RequestIsOwn(1)
      /\ rqts' = Tail(rqts) /\ card' = [card EXCEPT !.mail = Tail(@)] /\ Types'
  BY <1>1, <1>2, ResponseIsOwn DEF CInv
<1>4. PICK x : /\ Given(c, x, reply) /\ Altered(calls, calls', n, x)
               /\ \/ /\ rqt.code = "read" /\ svcThread' = svcThread
                     /\ SvcDiffer({"wait", "async"}) /\ x.ret \in {"SUCCESS", "ERROR"}
                  \/ /\ rqt.code # "read" /\ rqt.way = "sync" /\ svc' = svc
                     /\ svcThread'.at = "woken" /\ svcThread'.call = svcThread.call
                     /\ x.ret = c.ret
                  \/ /\ IsInserted(rqt) /\ svcThread' = svcThread
                     /\ HandledAs(rqt.code, rqt.device, reply, {"nodes"})
                     /\ x.ret = Result(rqt.code, reply)
  BY <1>1, <1>2, ResponseIsOwn DEF CInv
<1>5. card'.mail = Tail(card.mail) /\ card'.media = card.media /\ card'.running = card.running
  BY <1>3 DEF CInv, Types, CardTypes
<1>6. /\ 1 \in 1..Len(card.mail) /\ Head(card.mail) = card.mail[1] /\ IsReply(1)
      /\ \A k \in 1..Len(card'.mail) : ~IsReply(k)'
      /\ \A k \in 1..Len(card.mail) : IsReply(k) => k = 1
      /\ \A e, v : Current(e, v, 1) \/ Current(e, v, 0) => Current(e, v, 0)'
      /\ \A k \in 1..Len(rqts') : /\ rqts'[k] = rqts[k + 1] /\ k + 1 \in 1..Len(rqts) /\ rqts'[k].of # n
      /\ \A m : IsQueued(m) => m = n \/ IsQueued(m)'
      /\ MailIsTrue'
  BY <1>1, <1>2, <1>3, <1>5, ResponseTakes
<1>7. /\ c.ret = "none" /\ c.way = rqt.way /\ c.device = rqt.device /\ ~Holds(n) /\ Pend(n)
      /\ rqt.code = c.kind \/ (rqt.code = "size" /\ c.kind = "read" /\ c.way = "sync")
      /\ x.kind = c.kind /\ x.device = c.device /\ x.said = reply /\ rqt.device \in Devices
  BY <1>2, <1>3, <1>4 DEF RequestIsOwn, RequestFits, Given, Pend, CallRecords
<1>8. /\ \A m : m # n => (Pend(m)' <=> Pend(m))
      /\ Pend(n)' <=> x.ret = "none"
      /\ \A m \in 1..Len(calls) : m # n => calls'[m] = calls[m]
      /\ calls'[n] = x
  BY <1>3, <1>4, PendAltered DEF CInv
<1>9. Answered(n)
  BY <1>2, <1>6 DEF Answered
<1>10. \A k \in 1..Len(rqts') : calls'[rqts'[k].of] = calls[rqts[k + 1].of] /\ rqts[k + 1].of \in 1..Len(calls)
  <2>1. \A k \in 1..Len(rqts) : rqts[k].of \in 1..Len(calls)
    BY DEF CInv, OwnInv, RequestsAreOwn, RequestIsOwn, RequestFits
  <2> QED
    BY <1>6, <1>8, <2>1
\* The thread goes on as it was: what it holds is another call.
<1>11. ASSUME svcThread' = svcThread
       PROVE  /\ SaidIsTrue'
              /\ \A m : m # n => (Answered(m)' <=> Answered(m))
              /\ svcThread.at = "use" => /\ svcThread.call # n /\ Reads(svcThread.call)
                                         /\ calls'[svcThread'.call] = calls[svcThread.call]
  <2>1. svcThread.at \in {"woken", "use"} => svcThread.call # n /\ svcThread.call \in 1..Len(calls)
    BY <1>7 DEF Holds, CInv, OwnInv, ThreadIsOwn, ThreadFits, Away
  <2>2. svcThread.at \in {"woken", "use"} => calls'[svcThread'.call] = calls[svcThread.call]
    BY <1>8, <1>11, <2>1
  <2>3. SaidIsTrue'
    BY <1>6, <1>11, <2>2 DEF SaidIsTrue, DInv
  <2>4. \A m : m # n => (Answered(m)' <=> Answered(m))
    BY <1>2, <1>6, <1>11 DEF Answered
  <2>5. svcThread.at = "use" => Reads(svcThread.call)
    BY <2>1 DEF CInv, OwnInv, ThreadIsOwn, ThreadFits, Away, Reads, Pend
  <2> QED
    BY <2>1, <2>2, <2>3, <2>4, <2>5
<1>12. ASSUME svcThread' = svcThread, x.ret # "none"
       PROVE  Placed'
  <2>1. \A m : Holds(m)' <=> Holds(m)
    BY <1>12 DEF Holds
  <2> QED
    BY <1>6, <1>8, <1>12, <2>1 DEF DInv, Placed
<1>13. CASE rqt.code = "read"
  <2>1. svcThread' = svcThread /\ SvcDiffer({"wait", "async"}) /\ x.ret # "none"
    BY <1>4, <1>13 DEF IsInserted
  <2>2. c.kind = "read" /\ Reads(n)
    BY <1>2, <1>7, <1>13 DEF Reads
  <2>3. SameOpen
    BY <1>2, <1>3, <1>4, <1>7, <2>2, OneEnds DEF CInv, Change2
  <2>4. SameKnown /\ svc'.info = svc.info
    <3>1. SameKnown
      BY <2>1, SameKnownIs
    <3> QED
      BY <2>1, <3>1 DEF SvcDiffer, SvcFields
  <2>5. PendingIsOne' /\ ReadIsOne'
    BY <2>3, <2>4, PendingStays, ReadStays DEF DInv
  <2>6. CountIsKept'
    <3>1. \A m : Starts(m) \/ Stops(m) => m # n
      BY <1>2, <2>2 DEF Starts, Stops
    <3> QED
      BY <1>5, <1>11, <2>1, <2>3, <2>4, <3>1, CountStays DEF DInv
  <2>7. ReadsAreSized'
    <3>1. svcThread.at # "use"
      BY <1>11, <2>1, <2>2 DEF DInv, ReadIsOne
    <3>2. \A k \in 1..Len(rqts') : rqts'[k].code # "read"
      <4> SUFFICES ASSUME NEW k \in 1..Len(rqts'), rqts'[k].code = "read" PROVE FALSE
        OBVIOUS
      <4>1. PICK j \in 1..Len(rqts) : rqts[j] = rqts'[k]
        BY <1>6
      <4>2. RequestIsOwn(j) /\ rqts[j].of # n
        BY <1>6, <4>1 DEF CInv, OwnInv, RequestsAreOwn
      <4>3. Reads(rqts[j].of)
        BY <4>1, <4>2 DEF RequestIsOwn, RequestFits, Reads, Pend
      <4> QED
        BY <2>2, <4>2, <4>3 DEF DInv, ReadIsOne
    <3> QED
      BY <2>1, <3>1, <3>2 DEF ReadsAreSized
  <2>8. KnownIsTrue'
    BY <1>5, <1>6, <2>4 DEF DInv, KnownIsTrue, SameKnown
  <2> QED
    BY <1>6, <1>11, <1>12, <2>1, <2>5, <2>6, <2>7, <2>8 DEF DInv
<1>14. CASE rqt.code # "read" /\ rqt.way = "sync"
  <2>1. /\ svc' = svc /\ svcThread'.at = "woken" /\ svcThread'.call = svcThread.call
        /\ x.ret = "none" /\ svcThread.at = "wait" /\ svcThread.call = n
    <3>1. svcThread.at = "wait" /\ svcThread.call = n
      <4>1. 1 \in 1..Len(rqts)
        BY <1>1 DEF CInv, Types, SeqTypes
      <4>2. \A k \in 1..Len(rqts) : rqts[k].way = "sync" /\ rqts[k].code # "read" =>
                svcThread.at = "wait" /\ svcThread.call = rqts[k].of
        BY DEF CInv, OwnInv, RequestsAreOwn
      <4> QED
        BY <1>2, <1>14, <4>1, <4>2
    <3> QED
      BY <1>4, <1>7, <1>14, <3>1 DEF IsInserted
  <2>2. (\A m : Pend(m)' <=> Pend(m)) /\ SameOpen
    <3>1. SameOpen
      BY <1>2, <1>3, <1>4, <1>7, <2>1, OneEnds DEF CInv
    <3> QED
      BY <1>7, <1>8, <2>1, <3>1
  <2>3. SameKnown
    BY <2>1 DEF SameKnown
  <2>4. Placed'
    <3>1. Holds(n)' /\ \A m : ~Holds(m)
      BY <2>1 DEF Holds
    <3> QED
      BY <1>6, <2>2, <3>1 DEF DInv, Placed
  <2>5. PendingIsOne' /\ ReadIsOne'
    BY <2>2, <2>3, PendingStays, ReadStays DEF DInv
  <2>6. CountIsKept'
    <3>1. \A m : (Answered(m)' <=> m = n) /\ (Answered(m) <=> m = n)
      BY <1>2, <1>6, <2>1 DEF Answered
    <3> QED
      BY <1>5, <2>2, <2>3, <3>1, CountStays DEF DInv
  <2>7. ReadsAreSized'
    BY <1>6, <1>10, <2>1 DEF DInv, ReadsAreSized
  <2>8. KnownIsTrue'
    BY <1>5, <1>6, <2>1 DEF DInv, KnownIsTrue
  <2>9. SaidIsTrue'
    <3>1. x.kind \in Queries \cup {"read"} => rqt.code \in Queries
      BY <1>7, <1>14 DEF Queries
    <3>2. reply.ok /\ rqt.code \in Queries => Current(rqt.device, reply.value, 1)
      BY <1>2, <1>6 DEF DInv, MailIsTrue
    <3>3. x.said.ok /\ x.kind \in Queries \cup {"read"} => Current(x.device, x.said.value, 0)'
      BY <1>6, <1>7, <3>1, <3>2
    <3>4. calls'[svcThread'.call] = x
      BY <1>8, <2>1
    <3> QED
      BY <3>3, <3>4 DEF SaidIsTrue
  <2> QED
    BY <1>6, <2>4, <2>5, <2>6, <2>7, <2>8, <2>9 DEF DInv
<1>15. CASE IsInserted(rqt)
  <2>1. /\ svcThread' = svcThread /\ HandledAs(rqt.code, rqt.device, reply, {"nodes"})
        /\ x.ret = Result(rqt.code, reply) /\ rqt.code = c.kind
    BY <1>4, <1>7, <1>15 DEF IsInserted
  <2>2. x.ret # "none"
    BY <1>3, <2>1, RepliesAreResults
  <2>3. PendingIsOne' /\ CountIsKept' /\ ReadIsOne'
    <3>1. ~Pend(n)' /\ \A m : m # n => (Pend(m)' <=> Pend(m))
      BY <1>8, <2>2
    <3>2. \A m : m # n => (Answered(m)' <=> Answered(m))
      BY <1>11, <2>1
    <3>3. PICK more : more = {"nodes"}
      OBVIOUS
    <3>4. HandledAs(rqt.code, rqt.device, reply, more)
      BY <2>1, <3>3
    <3> QED
      BY <1>2, <1>3, <1>5, <1>7, <1>8, <1>9, <2>1, <3>1, <3>2, <3>3, <3>4, AnswerKnows
  <2>4. rqt.code \in Queries /\ reply.ok => Current(rqt.device, reply.value, 0)'
    BY <1>2, <1>6 DEF DInv, MailIsTrue
  <2>5. /\ KnownIsTrue' /\ svc'.wait = svc.wait
        /\ rqt.code \notin Change2 => \A e \in Devices : svc.info[e] # 0 => svc'.info[e] # 0
    <3>1. PICK more : more = {"nodes"}
      OBVIOUS
    <3>2. HandledAs(rqt.code, rqt.device, reply, more)
      BY <2>1, <3>1
    <3>3. \A e \in Devices : \A v : Current(e, v, 0) => Current(e, v, 0)'
      BY <1>6
    <3> QED
      BY <1>2, <1>3, <1>5, <1>7, <1>9, <2>1, <2>4, <3>1, <3>2, <3>3, AnswerDescribes
  <2>6. ReadsAreSized'
    <3>1. \A k \in 1..Len(rqts') : rqts'[k].code = "read" => svc'.wait /\ calls'[rqts'[k].of].size # 0
      BY <1>6, <1>10, <2>5 DEF DInv, ReadsAreSized
    <3>2. svcThread'.at = "use" => svc'.info[calls'[svcThread'.call].device] # 0
      <4> SUFFICES ASSUME svcThread.at = "use" PROVE svc'.info[calls[svcThread.call].device] # 0
        BY <1>11, <2>1
      <4>1. PICK m : m = svcThread.call
        OBVIOUS
      <4>2. Reads(m)
        BY <1>11, <2>1, <4>1
      <4>3. rqt.code \notin Change2
        <5>1. rqt.code \in Change2 => Starts(n) \/ Stops(n)
          BY <1>2, <1>7, <2>1 DEF Starts, Stops, Change2
        <5> QED
          BY <4>2, <5>1, Alone
      <4>4. calls[m].device \in Devices
        BY <4>2, DevicesAre DEF Reads
      <4> QED
        BY <2>5, <4>1, <4>3, <4>4 DEF DInv, ReadsAreSized
    <3> QED
      BY <3>1, <3>2 DEF ReadsAreSized
  <2> QED
    BY <1>6, <1>11, <1>12, <2>1, <2>2, <2>3, <2>5, <2>6 DEF DInv
<1> QED
  BY <1>4, <1>13, <1>14, <1>15

\* The firmware replies: a start and a stop are what its storage has become.
LEMMA FirmwareRepliesKnows ==
    ASSUME CInv, DInv, met' = {}, FirmwareReplies
    PROVE  DInv'
<1>1. PICK rqt, n, last : rqt = rqts[1] /\ n = rqt.of /\ last = Len(card.mail) + 1
  OBVIOUS
<1>2. /\ Awaits /\ 1 \in 1..Len(rqts) /\ svc' = svc /\ rqts' = rqts /\ calls' = calls /\ svcThread' = svcThread
      /\ Types' /\ card'.media = card.media
  BY FirmwareRepliesIs DEF CInv
<1>3. PICK m \in Messages :
          /\ rqt.code = "start" => m.reply.ok
          /\ ~m.changed /\ m.reply \in Answers(rqt) /\ Grown(card.mail, card'.mail, m)
          /\ card'.running = CASE rqt.code = "start" -> m.reply.ok \/ card.running
                               [] rqt.code = "stop"  -> FALSE
                               [] OTHER              -> card.running
  BY <1>1, FirmwareRepliesIs DEF CInv
<1>4. RequestIsOwn(1) /\ rqt.device \in Devices /\ Pend(n) /\ IsQueued(n) /\ ~Holds(n)
      /\ (rqt.code = calls[n].kind \/ (rqt.code = "size" /\ calls[n].kind = "read"))
  <2>1. RequestIsOwn(1) /\ rqts[1] \in Requests
    BY <1>2 DEF CInv, OwnInv, RequestsAreOwn, Types, SeqTypes
  <2> QED
    BY <1>1, <1>2, <2>1 DEF RequestIsOwn, RequestFits, Requests, Pend, IsQueued
<1>5. \A k \in 1..Len(card.mail) : ~IsReply(k)
  BY <1>2 DEF Awaits, IsReply, CInv, Types, CardTypes
<1>6. /\ last \in 1..Len(card'.mail) /\ card'.mail[last] = m /\ IsReply(last)'
      /\ \A k \in 1..Len(card'.mail) : IsReply(k)' => k = last
  <2>1. /\ last \in 1..Len(card'.mail) /\ card'.mail[last] = m
        /\ \A k \in 1..Len(card'.mail) : k \in 1..Len(card.mail) \/ k = last
        /\ \A k \in 1..Len(card.mail) : IsReply(k)' <=> IsReply(k)
    BY <1>1, <1>3, MailGrows DEF CInv
  <2> QED
    BY <1>3, <1>5, <2>1 DEF IsReply
<1>7. \A e \in Devices : \A v : Current(e, v, 0) => Current(e, v, 0)'
  <2>1. \A e \in Devices : \A v, k : k < Len(card.mail) + 1 /\ Current(e, v, k) => Current(e, v, k)'
    BY <1>2, <1>3, CurrentGrows DEF CInv
  <2>2. 0 < Len(card.mail) + 1
    BY DEF CInv, Types, CardTypes
  <2> QED
    BY <2>1, <2>2
<1>8. SameOpen /\ (\A i : Pend(i)' <=> Pend(i)) /\ SameKnown
  <2>1. SameOpen /\ \A i : Pend(i)' <=> Pend(i)
    BY <1>2, SameCallsOpen DEF CInv
  <2> QED
    BY <1>2, <2>1 DEF SameKnown, DInv, CountIsKept
<1>9. Placed'
  <2>1. \A i : (Holds(i)' <=> Holds(i)) /\ (IsQueued(i)' <=> IsQueued(i))
    BY <1>2 DEF Holds, IsQueued
  <2> QED
    BY <1>8, <2>1 DEF Placed, DInv
<1>10. PendingIsOne' /\ ReadIsOne'
  BY <1>8, PendingStays, ReadStays DEF DInv
<1>11. /\ Answered(n)' /\ ~Answered(n)
       /\ \A i : i # n => (Answered(i)' <=> Answered(i))
  <2>1. \A i : Answered(i)' <=> i = n \/ (svcThread.at = "woken" /\ svcThread.call = i)
    BY <1>1, <1>2, <1>6 DEF Answered
  <2>2. \A i : Answered(i) <=> svcThread.at = "woken" /\ svcThread.call = i
    BY <1>5 DEF Answered
  <2>3. ~(svcThread.at = "woken" /\ svcThread.call = n)
    BY <1>4 DEF Holds
  <2> QED
    BY <2>1, <2>2, <2>3
<1>12. /\ rqt.code = "start" => card'.running
       /\ rqt.code = "stop" => ~card'.running
       /\ rqt.code \notin Change2 => card'.running = card.running
       /\ rqt.code = "start" <=> Starts(n)
       /\ rqt.code = "stop" <=> Stops(n)
  <2>1. rqt.code = "start" => m.reply.ok
    BY <1>3
  <2>2. /\ rqt.code = "start" <=> Starts(n)
        /\ rqt.code = "stop" <=> Stops(n)
    BY <1>4 DEF Starts, Stops
  <2> QED
    BY <1>3, <2>1, <2>2 DEF Change2
<1>13. CountIsKept'
  <2>1. \A i : i # n /\ (Starts(i) \/ Stops(i)) => rqt.code \notin Change2
    BY <1>12, Alone DEF Change2
  <2>2. \A i : Starts(i)' => svc'.count = 0 /\ (card'.running <=> Answered(i)')
    BY <1>2, <1>8, <1>11, <1>12, <2>1 DEF SameOpen, DInv, CountIsKept
  <2>3. \A i : Stops(i)' => svc'.count = 1 /\ (card'.running <=> ~Answered(i)')
    BY <1>2, <1>8, <1>11, <1>12, <2>1 DEF SameOpen, DInv, CountIsKept
  <2>4. ~svc'.pending => (svc'.count > 0 <=> card'.running)
    <3>1. ~svc.pending => rqt.code \notin Change2
      BY <1>12 DEF Change2, DInv, PendingIsOne
    <3> QED
      BY <1>2, <1>12, <3>1 DEF DInv, CountIsKept
  <2> QED
    BY <1>2, <2>2, <2>3, <2>4 DEF DInv, CountIsKept
<1>14. ReadsAreSized'
  BY <1>2 DEF DInv, ReadsAreSized
<1>15. KnownIsTrue'
  <2>1. svc.count > 0 /\ card'.running => card.running
    <3>1. svc.count > 0 => rqt.code # "start"
      BY <1>12 DEF DInv, CountIsKept
    <3> QED
      BY <1>12, <3>1 DEF Change2
  <2> QED
    BY <1>2, <1>7, <2>1 DEF DInv, KnownIsTrue
<1>16. MailIsTrue'
  <2> SUFFICES ASSUME NEW k \in 1..Len(card'.mail), NEW e, NEW v, IsReply(k)', rqts'[1].code \in Queries,
                      card'.mail[k].reply.ok, e = rqts'[1].device, v = card'.mail[k].reply.value
               PROVE  card'.running /\ Current(e, v, k)'
    BY MailByMessage
  <2>1. rqt.code \in Queries /\ m.reply.ok /\ e = rqt.device /\ v = m.reply.value
    BY <1>1, <1>2, <1>6
  <2>2. rqt.code \notin Change2 \cup {"claim", "release", "bus", "read"}
    BY <2>1 DEF Queries, Change2
  <2>3. card.running
    <3>1. ~card.running => Answers(rqt) = {Reply(FALSE, 0)}
      BY <2>2 DEF Answers, Change2
    <3> QED
      BY <1>3, <2>1, <3>1 DEF Reply
  <2>4. m.reply = Reply(card.media[e] # 0, card.media[e])
    <3>1. Answers(rqt) = {Reply(card.media[rqt.device] # 0, card.media[rqt.device])}
      BY <2>2, <2>3 DEF Answers, Change2
    <3> QED
      BY <1>3, <2>1, <3>1
  <2>5. v # 0 /\ v = card'.media[e]
    <3>1. PICK there, size : there = (card.media[e] # 0) /\ size = card.media[e]
      OBVIOUS
    <3>2. m.reply.ok = there /\ m.reply.value = size
      BY <2>4, <3>1 DEF Reply
    <3> QED
      BY <1>2, <2>1, <3>1, <3>2
  <2> QED
    BY <1>12, <2>2, <2>3, <2>5 DEF Current
<1>17. SaidIsTrue'
  <2>1. svcThread.at = "woken" => calls[svcThread.call].device \in Devices
    BY DevicesAre
  <2> QED
    BY <1>2, <1>7, <2>1 DEF DInv, SaidIsTrue
<1> QED
  BY <1>9, <1>10, <1>13, <1>14, <1>15, <1>16, <1>17 DEF DInv

\* A change of a medium is told, when the storage runs.
LEMMA ChangeKnows ==
    ASSUME CInv, DInv, met' = {}, NEW d \in Devices, NEW size \in Nat, Change(d, size)
    PROVE  DInv'
<1>1. /\ svc' = svc /\ rqts' = rqts /\ calls' = calls /\ svcThread' = svcThread /\ Types'
      /\ ~card.running => ~Disturbs
      /\ card'.running = card.running /\ card'.media = [card.media EXCEPT ![d] = size]
      /\ \/ ~card.running /\ card'.mail = card.mail
         \/ \E m \in Messages : card.running /\ m.changed /\ m.device = d /\ Grown(card.mail, card'.mail, m)
  BY ChangeIs DEF CInv
<1>2. SameOpen /\ (\A i : Pend(i)' <=> Pend(i)) /\ SameKnown
  <2>1. SameOpen /\ \A i : Pend(i)' <=> Pend(i)
    BY <1>1, SameCallsOpen DEF CInv
  <2> QED
    BY <1>1, <2>1 DEF SameKnown, DInv, CountIsKept
<1>3. Placed'
  <2>1. \A i : (Holds(i)' <=> Holds(i)) /\ (IsQueued(i)' <=> IsQueued(i))
    BY <1>1 DEF Holds, IsQueued
  <2> QED
    BY <1>2, <2>1 DEF Placed, DInv
<1>4. PendingIsOne' /\ ReadIsOne'
  BY <1>2, PendingStays, ReadStays DEF DInv
<1>5. ReadsAreSized'
  BY <1>1 DEF DInv, ReadsAreSized
<1>6. CASE ~card.running /\ card'.mail = card.mail
  <2>1. \A i : Answered(i)' <=> Answered(i)
    BY <1>1, <1>6 DEF Answered, IsReply
  <2>2. CountIsKept'
    BY <1>1, <1>2, <2>1, CountStays DEF DInv
  <2>3. KnownIsTrue'
    BY <1>1, <1>6 DEF KnownIsTrue
  <2>4. MailIsTrue'
    <3> SUFFICES ASSUME NEW k \in 1..Len(card.mail), IsReply(k), rqts[1].code \in Queries, card.mail[k].reply.ok
                 PROVE  FALSE
      BY <1>1, <1>6, MailByMessage DEF IsReply
    <3> QED
      BY <1>6 DEF DInv, MailIsTrue
  <2>5. SaidIsTrue'
    BY <1>1, <1>6 DEF Disturbs, SaidIsTrue
  <2> QED
    BY <1>3, <1>4, <1>5, <2>2, <2>3, <2>4, <2>5 DEF DInv
<1>7. ASSUME NEW m \in Messages, card.running, m.changed, m.device = d, Grown(card.mail, card'.mail, m)
      PROVE  DInv'
  <2>1. /\ \A k \in 1..Len(card'.mail) : k \in 1..Len(card.mail) \/ ~IsReply(k)'
        /\ \A k \in 1..Len(card.mail) : /\ k \in 1..Len(card'.mail) /\ card'.mail[k] = card.mail[k]
                                        /\ (IsReply(k)' <=> IsReply(k)) /\ k < Len(card.mail) + 1
    BY <1>7, MailGrows DEF CInv
  <2>2. \A e \in Devices : \A v, k : k < Len(card.mail) + 1 /\ Current(e, v, k) => Current(e, v, k)'
    <3>1. \A e \in Devices : card'.media[e] = card.media[e] \/ (m.changed /\ m.device = e)
      BY <1>1, <1>7 DEF CInv, Types, CardTypes
    <3> QED
      BY <1>7, <3>1, CurrentGrows DEF CInv
  <2>3. 0 < Len(card.mail) + 1
    BY DEF CInv, Types, CardTypes
  <2>4. \A i : Answered(i)' <=> Answered(i)
    BY <1>1, <2>1 DEF Answered
  <2>5. CountIsKept'
    BY <1>1, <1>2, <2>4, CountStays DEF DInv
  <2>6. KnownIsTrue'
    BY <1>1, <2>2, <2>3 DEF DInv, KnownIsTrue
  <2>7. MailIsTrue'
    <3> SUFFICES ASSUME NEW k \in 1..Len(card'.mail), NEW e, NEW v, IsReply(k)', rqts'[1].code \in Queries,
                        card'.mail[k].reply.ok, e = rqts'[1].device, v = card'.mail[k].reply.value
                 PROVE  card'.running /\ Current(e, v, k)'
      BY MailByMessage
    <3>1. k \in 1..Len(card.mail) /\ IsReply(k) /\ card'.mail[k] = card.mail[k] /\ k < Len(card.mail) + 1
      BY <2>1
    <3>2. Current(e, v, k)
      BY <1>1, <3>1 DEF DInv, MailIsTrue
    <3>3. e \in Devices
      <4>1. 1 \in 1..Len(rqts)
        BY <3>1, FirstStays, <1>1 DEF CInv, QueueStays
      <4> QED
        BY <1>1, <4>1, DevicesAre
    <3> QED
      BY <1>1, <1>7, <2>2, <3>1, <3>2, <3>3
  <2>8. SaidIsTrue'
    <3>1. svcThread.at = "woken" => calls[svcThread.call].device \in Devices
      BY DevicesAre
    <3> QED
      BY <1>1, <2>2, <2>3, <3>1 DEF DInv, SaidIsTrue
  <2> QED
    BY <1>3, <1>4, <1>5, <2>5, <2>6, <2>7, <2>8 DEF DInv
<1> QED
  BY <1>1, <1>6, <1>7

\* Steps of others.
LEMMA StutterKnows ==
    ASSUME CInv, DInv, UNCHANGED servicesVars
    PROVE  DInv'
<1>1. svc' = svc /\ rqts' = rqts /\ calls' = calls /\ svcThread' = svcThread /\ card' = card
  BY DEF servicesVars
<1>2. Placed' /\ PendingIsOne'
  BY <1>1 DEF DInv, Placed, PendingIsOne, Pend, IsQueued, Holds, Starts, Stops
<1>3. CountIsKept'
  BY <1>1 DEF DInv, CountIsKept, Pend, Starts, Stops, Answered, IsReply
<1>4. ReadIsOne' /\ ReadsAreSized'
  BY <1>1 DEF DInv, ReadIsOne, ReadsAreSized, Pend, Starts, Stops, Reads
<1>5. KnownIsTrue' /\ MailIsTrue' /\ SaidIsTrue'
  BY <1>1 DEF DInv, KnownIsTrue, MailIsTrue, SaidIsTrue, IsReply, Current, ToldBehind
<1> QED
  BY <1>2, <1>3, <1>4, <1>5 DEF DInv

\* What has happened has happened.
LEMMA HistoryGrows ==
    ASSUME ServicesNext
    PROVE  met \subseteq met' /\ overtaken \subseteq overtaken'
<1>1. ASSUME NEW kind, NEW d, NEW way, CallGoes(kind, d, way) PROVE met \subseteq met' /\ overtaken \subseteq overtaken'
  BY <1>1 DEF CallGoes
<1>2. ASSUME NEW kind \in Services, NEW d \in Devices,
             CallInCallback(kind, d) \/ \E way \in {"sync", "async"} : CallBegins(kind, d, way) \/ ChangeBegins(kind, d, way)
      PROVE  met \subseteq met' /\ overtaken \subseteq overtaken'
  BY <1>1, <1>2 DEF CallInCallback, CallBegins, ChangeBegins
<1>3. CASE Thread
  <2>1. CASE \E d \in Devices : ChangeGoesOn(d)
    BY <1>1, <2>1 DEF ChangeGoesOn
  <2>2. CASE SendRequest \/ Woken \/ Use \/ Drained
    <3>1. met' = met /\ overtaken' = overtaken
      BY <2>2 DEF SendRequest, Woken, Use, Drained
    <3> QED
      BY <3>1
  <2> QED
    BY <1>3, <2>1, <2>2 DEF Thread
<1>4. CASE Dfc
  BY <1>4 DEF Dfc, MediaChanged, Response
<1>5. CASE FirmwareReplies
  BY <1>5 DEF FirmwareReplies
<1>6. ASSUME NEW d \in Devices, NEW size \in BlockSizes \cup {0}, Change(d, size)
      PROVE  met \subseteq met' /\ overtaken \subseteq overtaken'
  BY <1>6 DEF Change
<1> QED
  BY <1>2, <1>3, <1>4, <1>5, <1>6 DEF ServicesNext

\* The library knows the count, and what it knows of a device is true, whatever the order
\* of the calls, the replies and the changes, until something happens that it leaves open.
Undisturbed == met = {} /\ overtaken = {}
LEMMA KnowledgeStep ==
    ASSUME BlockSizes \subseteq Nat, AInv, Undisturbed => DInv, [ServicesNext]_servicesVars
    PROVE  AInv' /\ (Undisturbed' => DInv')
<1>1. AInv'
  BY ServicesStep
<1> SUFFICES ASSUME Undisturbed' PROVE DInv'
  BY <1>1
<1>2. met' = {} /\ overtaken' = {}
  BY DEF Undisturbed
<1>3. CInv /\ DInv
  <2>1. ServicesNext => met \subseteq met' /\ overtaken \subseteq overtaken'
    BY HistoryGrows
  <2>2. UNCHANGED servicesVars => met \subseteq met' /\ overtaken \subseteq overtaken'
    BY DEF servicesVars
  <2>3. met = {} /\ overtaken = {}
    BY <1>2, <2>1, <2>2
  <2> QED
    BY <2>3, OwnWhenOrdered DEF Undisturbed
<1>4. ASSUME NEW kind \in Services, NEW d \in Devices, CallInCallback(kind, d) PROVE DInv'
  BY <1>2, <1>3, <1>4, CallInCallbackKnows
<1>5. ASSUME NEW kind \in Services, NEW d \in Devices, NEW way \in {"sync", "async"}, CallBegins(kind, d, way)
      PROVE  DInv'
  <2>1. way \in Ways /\ Away /\ ~svc.failed /\ Accepted(kind, d, way) /\ CallGoes(kind, d, way)
    BY <1>5 DEF Ways, CallBegins, At, Away
  <2> QED
    BY <1>2, <1>3, <2>1, CallGoesKnows
<1>6. ASSUME NEW kind \in Services, NEW d \in Devices, NEW way \in {"sync", "async"}, ChangeBegins(kind, d, way)
      PROVE  DInv'
  <2>1. way \in Ways
    BY DEF Ways
  <2> QED
    BY <1>3, <1>6, <2>1, ChangeBeginsKnows
<1>7. ASSUME NEW d \in Devices, ChangeGoesOn(d) PROVE DInv'
  <2>1. svcThread.at = "begin" /\ ~svc.failed /\ CallGoes(begun.kind, d, begun.way)
    BY <1>7 DEF ChangeGoesOn, At
  <2>2. Away /\ begun.kind \in Services /\ begun.way \in Ways
    BY <1>3, <2>1 DEF Away, CInv, BegunFits
  <2>3. begun.kind \in Change2
    BY <1>3, <2>1 DEF CInv, BegunFits, Change2
  <2> QED
    BY <1>2, <1>3, <2>1, <2>2, <2>3, CallGoesKnows
<1>8. ASSUME Thread PROVE DInv'
  BY <1>3, <1>7, <1>8, SendRequestKnows, WokenKnows, UseKnows, DrainedKnows DEF Thread
<1>9. ASSUME Dfc PROVE DInv'
  <2>1. card.mail # <<>> /\ ~svc.failed
    BY <1>9 DEF Dfc
  <2>2. CASE Head(card.mail).changed
    <3>1. MediaChanged(Head(card.mail).device)
      BY <1>9, <2>2 DEF Dfc
    <3> QED
      BY <1>2, <1>3, <2>1, <2>2, <3>1, MediaChangedKnows
  <2>3. CASE ~Head(card.mail).changed
    <3>1. Response(Head(card.mail).reply)
      BY <1>9, <2>3 DEF Dfc
    <3> QED
      BY <1>3, <2>1, <2>3, <3>1, ResponseKnows
  <2> QED
    BY <2>2, <2>3
<1>10. ASSUME NEW d \in Devices, NEW size \in BlockSizes \cup {0}, Change(d, size) PROVE DInv'
  <2>1. size \in Nat
    OBVIOUS
  <2> QED
    BY <1>2, <1>3, <1>10, <2>1, ChangeKnows
<1>11. ASSUME FirmwareReplies PROVE DInv'
  BY <1>2, <1>3, <1>11, FirmwareRepliesKnows
<1>12. ASSUME UNCHANGED servicesVars PROVE DInv'
  BY <1>3, <1>12, StutterKnows
<1>13. ASSUME ServicesNext PROVE DInv'
  BY <1>4, <1>5, <1>6, <1>8, <1>9, <1>10, <1>11, <1>13 DEF ServicesNext
<1> QED
  BY <1>12, <1>13

\* Nothing is known at first, and nothing is under way.
LEMMA KnowledgeStart ==
    ASSUME BlockSizes \subseteq Nat, ServicesInit
    PROVE  DInv
<1>1. PICK started \in BOOLEAN, size \in BlockSizes :
          /\ svc = [count |-> IF started THEN 1 ELSE 0, pending |-> FALSE,
                    info |-> [d \in Devices |-> 0], rw |-> started, wait |-> FALSE, async |-> FALSE,
                    registered |-> started, nodes |-> <<>>, failed |-> FALSE]
          /\ rqts = <<>> /\ calls = <<>> /\ svcThread = [at |-> "idle", call |-> 0]
          /\ card = [running |-> started, media |-> [d \in Devices |-> size],
                     mail |-> <<>>, told |-> TRUE, changes |-> 0]
  BY DEF ServicesInit
<1>2. /\ Len(calls) = 0 /\ Len(rqts) = 0 /\ Len(card.mail) = 0 /\ 1..0 = {} /\ svcThread.at = "idle"
      /\ svc.info = [d \in Devices |-> 0]
  BY <1>1
<1>3. \A n : ~Pend(n) /\ ~Starts(n) /\ ~Stops(n) /\ ~Reads(n)
  BY <1>2 DEF Pend, Starts, Stops, Reads
<1>4. /\ svc.pending = FALSE /\ svc.failed = FALSE /\ card.running = started
      /\ svc.rw = started /\ svc.registered = started /\ svc.count = IF started THEN 1 ELSE 0
  BY <1>1
<1>5. CountIsKept
  <2>1. CASE started
    BY <1>3, <1>4, <2>1 DEF CountIsKept
  <2>2. CASE ~started
    BY <1>3, <1>4, <2>2 DEF CountIsKept
  <2> QED
    BY <2>1, <2>2
<1>6. Placed /\ PendingIsOne /\ ReadIsOne
  BY <1>3, <1>4 DEF Placed, PendingIsOne, ReadIsOne
<1>7. ReadsAreSized /\ MailIsTrue /\ SaidIsTrue
  BY <1>2 DEF ReadsAreSized, MailIsTrue, SaidIsTrue
<1>8. KnownIsTrue
  BY <1>2 DEF KnownIsTrue
<1> QED
  BY <1>5, <1>6, <1>7, <1>8 DEF DInv

\* The properties follow.
LEMMA KnowledgeIsTrue ==
    ASSUME AInv, Undisturbed => DInv
    PROVE  ServicesAreTrue
<1> SUFFICES ASSUME Undisturbed PROVE DescriptionIsCurrent /\ CountIsTrue
  BY DEF Undisturbed, ServicesAreTrue
<1> USE OwnWhenOrdered DEF Undisturbed
<1>1. svc.count \in Int /\ calls \in Seq(CallRecords) /\ rqts \in Seq(Requests) /\ card.mail \in Seq(Messages)
      /\ card.running \in BOOLEAN
  BY DEF CInv, Types, SvcTypes, SeqTypes, CardTypes
<1>2. \A d : ToldBehind(d, 0) => Announced(d)
  BY <1>1 DEF ToldBehind, Announced
<1>3. DescriptionIsCurrent
  <2>1. svc.count > 0 /\ card.running => \A d \in Devices : svc.info[d] \in {0, card.media[d]} \/ Announced(d)
    BY <1>2 DEF DInv, KnownIsTrue, Current
  <2>2. \A k \in DOMAIN rqts : rqts[k].code = "read" => calls[rqts[k].of].size # 0
    BY <1>1 DEF DInv, ReadsAreSized
  <2> QED
    BY <2>1, <2>2 DEF DescriptionIsCurrent
<1>4. CountIsTrue
  <2>1. Running => \A n : ~Starts(n) /\ ~Stops(n)
    <3> SUFFICES ASSUME NEW n, Starts(n) \/ Stops(n), Running PROVE FALSE
      OBVIOUS
    <3>1. n \in {k \in DOMAIN calls : calls[k].ret = "none"} /\ calls[n].kind \in {"start", "stop"}
      BY <1>1 DEF Starts, Stops, Pend
    <3> QED
      BY <3>1 DEF Running
  <2>2. Running => ~svc.pending
    BY <2>1 DEF DInv, PendingIsOne
  <2>3. (svc.count > 0) \in BOOLEAN
    BY <1>1
  <2>4. Running => (svc.count > 0) = card.running
    BY <1>1, <2>2, <2>3 DEF DInv, CountIsKept
  <2> QED
    BY <2>4 DEF DInv, CountIsKept, CountIsTrue
<1> QED
  BY <1>3, <1>4

\* The count is zero exactly when the firmware's storage is stopped, a device's description
\* is that of the medium there, or a change is on its way, and what is freed is not used:
\* in every order of calls, replies and changes, until one of the things happens that the
\* code leaves open (met, overtaken).
THEOREM WhatIsKnownIsTrue ==
    ASSUME BlockSizes \subseteq Nat
    PROVE  ServicesSpec => []ServicesAreTrue
<1>1. ServicesInit => AInv /\ (Undisturbed => DInv)
  BY ServicesStart, KnowledgeStart
<1>2. AInv /\ (Undisturbed => DInv) /\ [ServicesNext]_servicesVars => AInv' /\ (Undisturbed => DInv)'
  BY KnowledgeStep
<1>3. AInv /\ (Undisturbed => DInv) => ServicesAreTrue
  BY KnowledgeIsTrue
<1> QED
  BY <1>1, <1>2, <1>3, PTL DEF ServicesSpec
=============================================================================
