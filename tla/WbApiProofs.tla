---------------------------- MODULE WbApiProofs ----------------------------
(* Proofs about the two users of the West Bridge's mailbox that keep more than a request
   under way.

   WbStorage, for any numbers of operations and blocks, any kinds of operations and any
   failures of the firmware, which asks for no blocks while the thread cancels.  The
   property alone is not inductive.  That an operation which succeeds has moved its blocks
   needs that the queue, the request, the callback and the interrupt are all of the
   caller's operation; that the blocks the firmware has moved are those the entry of the
   queue has counted; and that a success which is told second finds the first's result.

   WbControl, for any numbers of packets, of data in a write and of resets, and hosts that
   abandon writes and stalls only.  The invariant says which message of an answer the
   library is at: its counts, callbacks, queue and requests follow from that and from
   whether an old stall is in front; the two mailboxes hold what is under way then; and
   what the firmware has got is what comes before that message. *)
EXTENDS WbStorage, WbControl, SequenceTheorems, TLAPS

-----------------------------------------------------------------------------
(* The invariant *)

Errors == {"SUCCESS", "TIMEOUT", "CANCELED"} \cup Failures
Rets == {"none", "ASYNC_PENDING"} \cup Errors
Operations == [kind : {"sync", "async"}, ep : Endpoints, size : Nat \ {0}, ret : Rets,
               calls : Nat, moved : Nat]
Entries == [op : Nat, size : Nat, offset : Nat]
Devices == [storage_wait : BOOLEAN, storage_error : Errors, storage_oper : Endpoints,
            async_pending : BOOLEAN, storage_cb : Nat, rqt : Nat, failed : BOOLEAN]
DmaEndpoints == [queue : Seq(Entries), enabled : BOOLEAN, running : BOOLEAN,
                 in_transit : BOOLEAN, drq : BOOLEAN, buffer_valid : BOOLEAN,
                 misordered : BOOLEAN]
States == [dev : Devices, dma : [Endpoints -> DmaEndpoints], ops : Seq(Operations)]
Callers == [at : {"idle", "send", "drain", "sleep", "cancel", "reply"}, op : Nat, ret : Errors]
Requests == [op : Nat, ep : Endpoints, size : Nat]
Cards == [rqts : Seq(Requests), asked : BOOLEAN, moved : Nat]

\* What the code and the firmware give: kinds, sizes and errors are those of the headers,
\* and the firmware does not ask while the thread cancels.
StorageHyp ==
    /\ StorageKinds \subseteq {"sync", "async"} /\ Sizes \subseteq Nat \ {0}
    /\ Failures \subseteq {"ERROR", "INVALID_RESPONSE"} /\ ~LateStarts

TimedOut(s, n) == \E j \in 1..(n - 1) : s.ops[j].ret = "TIMEOUT"

AtRest(d) == d.queue = <<>> /\ ~d.drq /\ ~d.buffer_valid
OpOf(s, cl) == s.ops[cl.op]
EndpointOf(s, cl) == s.dma[s.ops[cl.op].ep]

OthersAreQuiet(s, cl) ==
    /\ cl.op \in 0..Len(s.ops)
    /\ \A i \in 1..Len(s.ops) : i > cl.op => s.ops[i].ret = "ASYNC_PENDING"
    /\ \A e \in Endpoints : cl.op = 0 \/ e # OpOf(s, cl).ep => AtRest(s.dma[e])
    /\ cl.op = 0 => cl.at = "idle" /\ ~s.dev.async_pending /\ s.dev.storage_cb = 0
    /\ s.dev.storage_wait = (s.dev.rqt # 0)
    /\ s.dev.storage_wait => cl.op # 0

ThreadIsAt(o, cl) ==
    /\ cl.at \in {"drain", "sleep", "cancel", "reply"} => o.kind = "sync"
    /\ cl.at # "idle" /\ o.kind = "sync" => o.ret = "none"
QueueIsCurrent(v, d, o, cl) ==
    /\ d.queue # <<>> =>
          /\ o.ret = "none" /\ Len(d.queue) = 1 /\ d.queue[1].op = cl.op
          /\ d.queue[1].size = o.size /\ d.queue[1].offset < o.size
    /\ v.storage_oper = o.ep
    /\ v.async_pending = (o.kind = "async" /\ d.queue # <<>>)
    /\ o.kind = "sync" /\ cl.at \in {"idle", "reply"} => d.queue = <<>>
RequestIsCurrent(v, o, cl) ==
    /\ v.storage_wait => v.rqt = cl.op /\ cl.at # "send"
    /\ v.storage_cb # 0 =>
          /\ v.storage_cb = cl.op /\ o.kind = "async" /\ o.ret = "none"
          /\ v.async_pending \/ v.storage_wait \/ cl.at = "send"
BuffersAreSent(d, cl) ==
    /\ d.drq => d.queue # <<>> /\ cl.at # "cancel"
    /\ d.buffer_valid => d.in_transit /\ d.queue # <<>> /\ cl.at # "cancel"
IsCurrent(s, cl) ==
    cl.op # 0 =>
        /\ ThreadIsAt(OpOf(s, cl), cl)
        /\ QueueIsCurrent(s.dev, EndpointOf(s, cl), OpOf(s, cl), cl)
        /\ RequestIsCurrent(s.dev, OpOf(s, cl), cl)
        /\ BuffersAreSent(EndpointOf(s, cl), cl)
CalledOnce(s) ==
    \A i \in 1..Len(s.ops) : s.ops[i].kind = "async" =>
        s.ops[i].calls = IF s.ops[i].ret \in {"none", "ASYNC_PENDING"} THEN 0 ELSE 1
MovedAll(s) ==
    \A i \in 1..Len(s.ops) : ~TimedOut(s, i) /\ s.ops[i].ret = "SUCCESS" => s.ops[i].moved = s.ops[i].size

RequestIsOwn(v, o, cl, cd) ==
    /\ cd.rqts = IF v.storage_wait THEN <<[op |-> cl.op, ep |-> o.ep, size |-> o.size]>> ELSE <<>>
    /\ cd.rqts = <<>> => cd.moved = 0 /\ ~cd.asked
    /\ o.kind = "async" /\ o.ret = "none" => v.storage_cb = cl.op /\ (cl.at = "send" \/ v.storage_wait)
    /\ o.kind = "sync" /\ cl.at = "idle" => o.ret # "none"
BlocksAreCounted(v, d, o, cl, cd) ==
    /\ cl.at = "send" => /\ d.queue # <<>> /\ d.queue[1].offset = 0
                         /\ o.moved = 0 /\ ~d.buffer_valid
    /\ v.storage_wait /\ d.queue # <<>> =>
          d.queue[1].offset = cd.moved /\ o.moved = cd.moved /\ (d.buffer_valid => cd.asked)
    /\ v.storage_wait /\ d.queue = <<>> =>
          \/ o.moved = o.size /\ (o.kind = "async" => v.storage_error = "SUCCESS")
          \/ o.kind = "sync" /\ cl.ret = "TIMEOUT"
    /\ o.kind = "sync" /\ cl.at \notin {"send", "idle"} /\ ~v.storage_wait /\ v.storage_error = "SUCCESS" =>
          o.moved = o.size \/ cl.ret = "TIMEOUT" \/ cl.at = "cancel"
IsInOrder(s, cl, cd) ==
    ~TimedOut(s, cl.op) =>
       /\ ~s.dev.failed /\ \A e \in Endpoints : ~s.dma[e].misordered
       /\ cl.at = "send" \/ s.dev.storage_wait => OpOf(s, cl).ret = "none"
       /\ cl.op # 0 /\ OpOf(s, cl).ret # "TIMEOUT" =>
              /\ RequestIsOwn(s.dev, OpOf(s, cl), cl, cd)
              /\ BlocksAreCounted(s.dev, EndpointOf(s, cl), OpOf(s, cl), cl, cd)
       /\ cl.op = 0 => cd.rqts = <<>> /\ ~cd.asked /\ cd.moved = 0

Holds(s, cl, cd) ==
    /\ s \in States /\ cl \in Callers /\ cd \in Cards
    /\ OthersAreQuiet(s, cl) /\ IsCurrent(s, cl) /\ CalledOnce(s) /\ MovedAll(s)
    /\ IsInOrder(s, cl, cd)
IInv == Holds(StorageNow, caller, storageCard)

-----------------------------------------------------------------------------
(* What the callbacks do *)

\* Only operation n and endpoint e are touched.
Only(s, t, n, e) ==
    /\ s \in States /\ t \in States /\ Len(t.ops) = Len(s.ops)
    /\ n \in 1..Len(s.ops) /\ e \in Endpoints
    /\ \A i \in 1..Len(s.ops) : i # n => t.ops[i] = s.ops[i]
    /\ \A f \in Endpoints : f # e => t.dma[f] = s.dma[f]
    /\ t.ops[n].kind = s.ops[n].kind /\ t.ops[n].ep = s.ops[n].ep /\ t.ops[n].size = s.ops[n].size

\* A sequence without elements.
LEMMA EmptySequence ==
    ASSUME NEW S, NEW q \in Seq(S), Len(q) = 0
    PROVE  q = <<>>
  OBVIOUS

\* One element of a sequence changed.
LEMMA OneChanged ==
    ASSUME NEW S, NEW q \in Seq(S), NEW n \in 1..Len(q), NEW x \in S, NEW r, r = [q EXCEPT ![n] = x]
    PROVE  /\ r \in Seq(S) /\ Len(r) = Len(q) /\ r[n] = x
           /\ \A m \in 1..Len(q) : m # n => r[m] = q[m]
  OBVIOUS

\* One operation changed.
OpSet(s, t, n, o) ==
    /\ t \in States /\ t.dev = s.dev /\ t.dma = s.dma /\ Len(t.ops) = Len(s.ops)
    /\ t.ops[n] = o /\ \A i \in 1..Len(s.ops) : i # n => t.ops[i] = s.ops[i]
LEMMA OpChanged ==
    ASSUME NEW s \in States, NEW n \in 1..Len(s.ops), NEW o \in Operations
    PROVE  OpSet(s, [s EXCEPT !.ops[n] = o], n, o)
<1> DEFINE t == [s EXCEPT !.ops[n] = o]
<1>1. /\ DOMAIN s = {"dev", "dma", "ops"} /\ DOMAIN t = DOMAIN s
      /\ t.dev = s.dev /\ t.dma = s.dma /\ t.ops = [s.ops EXCEPT ![n] = o]
      /\ s.ops \in Seq(Operations)
  BY DEF States
<1>2. /\ t.ops \in Seq(Operations) /\ Len(t.ops) = Len(s.ops) /\ t.ops[n] = o
      /\ \A i \in 1..Len(s.ops) : i # n => t.ops[i] = s.ops[i]
  <2> HIDE DEF t
  <2> QED
    BY <1>1, OneChanged
<1>3. t \in States
  <2>1. s.dev \in Devices /\ s.dma \in [Endpoints -> DmaEndpoints]
    BY DEF States
  <2>2. t = [s EXCEPT !.ops = t.ops]
    BY <1>1, <2>1
  <2> HIDE DEF t
  <2> QED
    BY <1>2, <2>2 DEF States
<1> HIDE DEF t
<1> QED
  BY <1>1, <1>2, <1>3 DEF OpSet, t

\* The endpoint is stopped; a buffer that is not in transit keeps its place.
LEMMA HaltedIs ==
    ASSUME NEW s \in States, NEW e \in Endpoints, NEW t, t = Halted(s, e)
    PROVE  /\ t \in States /\ t.dev = s.dev /\ t.ops = s.ops
           /\ \A f \in Endpoints : f # e => t.dma[f] = s.dma[f]
           /\ t.dma[e].queue = s.dma[e].queue /\ t.dma[e].misordered = s.dma[e].misordered
           /\ ~t.dma[e].drq /\ ~t.dma[e].in_transit
           /\ t.dma[e].buffer_valid = (s.dma[e].buffer_valid /\ ~s.dma[e].in_transit)
<1> DEFINE halted == [s.dma[e] EXCEPT !.drq = FALSE, !.running = FALSE, !.in_transit = FALSE,
                                 !.buffer_valid = s.dma[e].buffer_valid /\ ~s.dma[e].in_transit]
<1>1. s.dma[e] \in DmaEndpoints
  BY DEF States
<1>2. halted \in DmaEndpoints
  BY <1>1 DEF DmaEndpoints
<1>3. t = [s EXCEPT !.dma[e] = halted]
  BY Zenon DEF Halted, States
<1>4. /\ halted.queue = s.dma[e].queue /\ halted.misordered = s.dma[e].misordered
      /\ ~halted.drq /\ ~halted.in_transit
      /\ halted.buffer_valid = (s.dma[e].buffer_valid /\ ~s.dma[e].in_transit)
  BY <1>1 DEF DmaEndpoints
<1> HIDE DEF halted
<1>5. /\ t \in States /\ t.dev = s.dev /\ t.ops = s.ops /\ t.dma[e] = halted
      /\ \A f \in Endpoints : f # e => t.dma[f] = s.dma[f]
  BY <1>2, <1>3 DEF States
<1> QED
  BY <1>4, <1>5

\* Of the operations only n is touched.
OnlyOp(s, t, n) ==
    /\ t \in States /\ Len(t.ops) = Len(s.ops)
    /\ \A i \in 1..Len(s.ops) : i # n => t.ops[i] = s.ops[i]
    /\ t.ops[n].kind = s.ops[n].kind /\ t.ops[n].ep = s.ops[n].ep /\ t.ops[n].size = s.ops[n].size
SameMarks(s, t) ==
    t.dev.storage_wait = s.dev.storage_wait /\ t.dev.rqt = s.dev.rqt
    /\ t.dev.storage_oper = s.dev.storage_oper
\* What becomes of the callback and of the operation's result.
SameResult(s, t, n) ==
    /\ t.dev.storage_cb = s.dev.storage_cb /\ t.dev.failed = s.dev.failed
    /\ t.ops[n].ret = s.ops[n].ret /\ t.ops[n].calls = s.ops[n].calls
CalledBack(s, t, n, ret) ==
    /\ t.dev.storage_cb = 0
    /\ s.dev.storage_cb = 0 => t.dev.failed /\ t.ops[n].ret = s.ops[n].ret
                               /\ t.ops[n].calls = s.ops[n].calls
    /\ s.dev.storage_cb # 0 => /\ t.dev.failed = s.dev.failed
                               /\ t.ops[n].ret = ret /\ t.ops[n].calls = s.ops[n].calls + 1

\* The callback is called once, or missed.
LEMMA UserCallbackIs ==
    ASSUME NEW s \in States, NEW n \in 1..Len(s.ops), s.dev.storage_cb \in {0, n},
           NEW ret \in Errors, NEW t, t = UserCallback(s, ret)
    PROVE  /\ OnlyOp(s, t, n) /\ SameMarks(s, t) /\ t.dev.async_pending = s.dev.async_pending
           /\ CalledBack(s, t, n, ret) /\ t.dma = s.dma /\ t.ops[n].moved = s.ops[n].moved
<1>1. CASE s.dev.storage_cb = 0
  <2>1. t = [s EXCEPT !.dev.failed = TRUE]
    BY <1>1 DEF UserCallback
  <2>2. t \in States /\ t.dma = s.dma /\ t.ops = s.ops /\ t.dev = [s.dev EXCEPT !.failed = TRUE]
    BY <2>1 DEF States, Devices
  <2> QED
    BY <1>1, <2>2 DEF OnlyOp, SameMarks, CalledBack, States, Devices
<1>2. CASE s.dev.storage_cb = n
  <2> DEFINE o == [s.ops[n] EXCEPT !.ret = ret, !.calls = @ + 1]
             u == [s EXCEPT !.dev.storage_cb = 0]
  <2>1. n # 0 /\ s.ops[n] \in Operations
    BY DEF States
  <2>2. o \in Operations
    <3>1. ret \in Rets /\ s.ops[n].calls + 1 \in Nat
      BY <2>1 DEF Operations, Rets
    <3> QED
      BY <2>1, <3>1 DEF Operations
  <2>3. u \in States /\ u.dma = s.dma /\ u.ops = s.ops /\ u.dev = [s.dev EXCEPT !.storage_cb = 0]
    BY DEF States, Devices
  <2>4. t = [u EXCEPT !.ops[n] = o]
    <3>1. t = [s EXCEPT !.ops[n].ret = ret, !.ops[n].calls = @ + 1, !.dev.storage_cb = 0]
      BY <1>2, <2>1 DEF UserCallback
    <3>2. DOMAIN s = {"dev", "dma", "ops"} /\ n \in DOMAIN s.ops
      BY DEF States
    <3>3. t = [s EXCEPT !.ops = [s.ops EXCEPT ![n] = o], !.dev.storage_cb = 0]
      BY <2>1, <3>1, <3>2 DEF Operations
    <3> QED
      BY <3>2, <3>3
  <2>5. /\ t \in States /\ t.dev = u.dev /\ t.dma = u.dma /\ Len(t.ops) = Len(u.ops)
        /\ t.ops[n] = o /\ \A i \in 1..Len(u.ops) : i # n => t.ops[i] = u.ops[i]
    <3> HIDE DEF o, u
    <3>1. OpSet(u, [u EXCEPT !.ops[n] = o], n, o)
      BY <2>2, <2>3, OpChanged
    <3> QED
      BY <2>4, <3>1 DEF OpSet
  <2>6. /\ o.kind = s.ops[n].kind /\ o.ep = s.ops[n].ep /\ o.size = s.ops[n].size
        /\ o.moved = s.ops[n].moved /\ o.ret = ret /\ o.calls = s.ops[n].calls + 1
    BY <2>1 DEF Operations
  <2>7. s.dev \in Devices
    BY DEF States
  <2> HIDE DEF o, u
  <2> QED
    BY <1>2, <2>1, <2>3, <2>5, <2>6, <2>7 DEF OnlyOp, SameMarks, CalledBack, Devices
<1> QED
  BY <1>1, <1>2

\* A success is told only if both are.
LEMMA WorstIs ==
    ASSUME NEW s \in States, NEW ret \in Errors
    PROVE  /\ Worst(s, ret) \in Errors
           /\ Worst(s, ret) = "SUCCESS" => ret = "SUCCESS" /\ s.dev.storage_error = "SUCCESS"
  BY DEF Worst, States, Devices

\* A DMA request of operation n has ended.
DmaEnded(s, t, n, ret) ==
    /\ OnlyOp(s, t, n) /\ SameMarks(s, t)
    /\ s.ops[n].kind = "sync" =>
           /\ t.dev.async_pending = s.dev.async_pending /\ t.dev.storage_error = ret
           /\ SameResult(s, t, n)
    /\ s.ops[n].kind = "async" => ~t.dev.async_pending
    /\ s.ops[n].kind = "async" /\ s.dev.storage_wait =>
           t.dev.storage_error = ret /\ SameResult(s, t, n)
    /\ s.ops[n].kind = "async" /\ ~s.dev.storage_wait => CalledBack(s, t, n, Worst(s, ret))

\* The callbacks of a DMA request.
LEMMA DmaCallbackIs ==
    ASSUME NEW s \in States, NEW n \in 1..Len(s.ops), s.dev.storage_cb \in {0, n},
           NEW ret \in Errors, NEW t, t = DmaCallback(s, n, ret)
    PROVE  DmaEnded(s, t, n, ret) /\ t.dma = s.dma /\ t.ops[n].moved = s.ops[n].moved
<1>1. s.ops[n] \in Operations
  BY DEF States
<1>4. s.ops[n].kind \in {"sync", "async"}
  BY <1>1 DEF Operations
<1>2. CASE s.ops[n].kind = "sync"
  <2>1. t = [s EXCEPT !.dev.storage_error = ret]
    BY <1>2 DEF DmaCallback
  <2>2. /\ t \in States /\ t.dma = s.dma /\ t.ops = s.ops
        /\ t.dev = [s.dev EXCEPT !.storage_error = ret]
    BY <2>1 DEF States, Devices
  <2>3. s.dev \in Devices
    BY DEF States
  <2> QED
    BY <1>2, <2>2, <2>3 DEF DmaEnded, OnlyOp, SameMarks, SameResult, Devices
<1>3. CASE s.ops[n].kind = "async"
  <2> DEFINE u == [s EXCEPT !.dev.async_pending = FALSE]
  <2>1. /\ u \in States /\ u.dma = s.dma /\ u.ops = s.ops
        /\ u.dev = [s.dev EXCEPT !.async_pending = FALSE]
    BY DEF States, Devices
  <2>2. s.dev \in Devices
    BY DEF States
  <2>3. /\ u.dev.storage_wait = s.dev.storage_wait /\ u.dev.storage_error = s.dev.storage_error
        /\ u.dev.storage_oper = s.dev.storage_oper /\ u.dev.storage_cb = s.dev.storage_cb
        /\ u.dev.rqt = s.dev.rqt /\ u.dev.failed = s.dev.failed /\ ~u.dev.async_pending
    BY <2>1, <2>2 DEF Devices
  <2>4. t = IF ~u.dev.storage_wait THEN UserCallback(u, Worst(u, ret))
            ELSE [u EXCEPT !.dev.storage_error = ret]
    BY <1>3 DEF DmaCallback, RepliedFirst
  <2> HIDE DEF u
  <2>5. CASE s.dev.storage_wait
    <3>1. /\ t \in States /\ t.dma = u.dma /\ t.ops = u.ops
          /\ t.dev = [u.dev EXCEPT !.storage_error = ret]
      <4>1. t = [u EXCEPT !.dev.storage_error = ret]
        BY <2>3, <2>4, <2>5
      <4> QED
        BY <2>1, <4>1, ZenonT(40) DEF States, Devices
    <3>2. u.dev \in Devices
      BY <2>1 DEF States
    <3> QED
      BY <1>3, <2>1, <2>3, <2>5, <3>1, <3>2 DEF DmaEnded, OnlyOp, SameMarks, SameResult, Devices
  <2>6. CASE ~s.dev.storage_wait
    <3>1. Worst(u, ret) = Worst(s, ret) /\ Worst(u, ret) \in Errors
      BY <2>1, <2>3, WorstIs DEF Worst
    <3>2. t = UserCallback(u, Worst(s, ret))
      BY <2>3, <2>4, <2>6, <3>1
    <3>3. /\ OnlyOp(u, t, n) /\ SameMarks(u, t) /\ t.dev.async_pending = u.dev.async_pending
          /\ CalledBack(u, t, n, Worst(s, ret)) /\ t.dma = u.dma /\ t.ops[n].moved = u.ops[n].moved
      <4>1. u \in States /\ n \in 1..Len(u.ops) /\ u.dev.storage_cb \in {0, n}
        BY <2>1, <2>3
      <4> QED
        BY <3>1, <3>2, <4>1, UserCallbackIs
    <3> QED
      BY <1>3, <2>1, <2>3, <2>6, <3>3 DEF DmaEnded, OnlyOp, SameMarks, CalledBack
  <2> QED
    BY <2>5, <2>6
<1> QED
  BY <1>2, <1>3, <1>4

OthersSame(s, t, e) == \A f \in Endpoints : f # e => t.dma[f] = s.dma[f]
SameBuffers(c, d) ==
    /\ d.drq = c.drq /\ d.in_transit = c.in_transit /\ d.buffer_valid = c.buffer_valid
    /\ d.misordered = c.misordered

\* The queue is emptied and its request, if there is one, told the error.
EmptiedAre(s, t, n, e, err) ==
    /\ t.dma[e].queue = <<>> /\ SameBuffers(s.dma[e], t.dma[e]) /\ OthersSame(s, t, e)
    /\ s.dma[e].queue = <<>> => t \in States /\ t.dev = s.dev /\ t.ops = s.ops
    /\ s.dma[e].queue # <<>> => DmaEnded(s, t, n, err) /\ t.ops[n].moved = s.ops[n].moved
LEMMA EmptiedIs ==
    ASSUME NEW s \in States, NEW n \in 1..Len(s.ops), s.dev.storage_cb \in {0, n},
           NEW e \in Endpoints, NEW err \in Errors,
           s.dma[e].queue # <<>> => s.dma[e].queue[1].op = n
    PROVE  EmptiedAre(s, Emptied(s, e, err), n, e, err)
<1> DEFINE t == Emptied(s, e, err)
           d == [s.dma[e] EXCEPT !.queue = <<>>]
           u == [s EXCEPT !.dma[e] = d]
<1>1. s.dma[e] \in DmaEndpoints
  BY DEF States
<1>2. d \in DmaEndpoints /\ d.queue = <<>> /\ SameBuffers(s.dma[e], d)
  <2>1. <<>> \in Seq(Entries)
    OBVIOUS
  <2> QED
    BY <1>1, <2>1 DEF DmaEndpoints, SameBuffers
<1>3. u = [s EXCEPT !.dma[e].queue = <<>>]
  BY DEF States
<1>4. t = IF s.dma[e].queue = <<>> THEN u ELSE DmaCallback(u, Head(s.dma[e].queue).op, err)
  BY <1>3 DEF Emptied
<1> HIDE DEF d, t
<1>5. /\ u \in States /\ u.dev = s.dev /\ u.ops = s.ops /\ u.dma[e] = d /\ OthersSame(s, u, e)
  BY <1>2 DEF States, OthersSame
<1> HIDE DEF u
<1> SUFFICES EmptiedAre(s, t, n, e, err)
  BY DEF t
<1>6. CASE s.dma[e].queue = <<>>
  BY <1>2, <1>4, <1>5, <1>6 DEF OthersSame, EmptiedAre
<1>7. CASE s.dma[e].queue # <<>>
  <2>1. Head(s.dma[e].queue).op = n
    <3>1. s.dma[e].queue \in Seq(Entries)
      BY <1>1 DEF DmaEndpoints
    <3> QED
      BY <1>7, <3>1
  <2>2. t = DmaCallback(u, n, err)
    BY <1>4, <1>7, <2>1
  <2>3. DmaEnded(u, t, n, err) /\ t.dma = u.dma /\ t.ops[n].moved = u.ops[n].moved
    BY <1>5, <2>2, DmaCallbackIs
  <2>4. DmaEnded(s, t, n, err)
    BY <1>5, <2>3 DEF DmaEnded, OnlyOp, SameMarks, SameResult, CalledBack, Worst
  <2> QED
    BY <1>2, <1>5, <1>7, <2>3, <2>4 DEF OthersSame, EmptiedAre
<1> QED
  BY <1>6, <1>7

\* The next block is sent, if there is one.
BufferSent(c, d) ==
    /\ d.queue = c.queue
    /\ c.queue = <<>> => /\ ~d.drq /\ d.in_transit = c.in_transit
                         /\ d.buffer_valid = c.buffer_valid /\ d.misordered = c.misordered
    /\ c.queue # <<>> => /\ d.drq /\ d.in_transit /\ d.buffer_valid
                         /\ d.misordered = (c.misordered \/ c.buffer_valid)
NextSent(s, t, e) ==
    /\ t \in States /\ t.dev = s.dev /\ t.ops = s.ops /\ OthersSame(s, t, e)
    /\ BufferSent(s.dma[e], t.dma[e])
LEMMA SendNextDmaIs ==
    ASSUME NEW s \in States, NEW e \in Endpoints
    PROVE  NextSent(s, SendNextDma(s, e), e)
<1> DEFINE t == SendNextDma(s, e)
<1> HIDE DEF t
<1> SUFFICES NextSent(s, t, e)
  BY DEF t
<1>1. s.dma[e] \in DmaEndpoints
  BY DEF States
<1>2. CASE s.dma[e].queue = <<>>
  <2> DEFINE d == [s.dma[e] EXCEPT !.drq = FALSE]
  <2>1. t = [s EXCEPT !.dma[e] = d]
    BY <1>2 DEF SendNextDma, States, t
  <2>2. /\ d \in DmaEndpoints /\ ~d.drq /\ d.in_transit = s.dma[e].in_transit
        /\ d.buffer_valid = s.dma[e].buffer_valid /\ d.misordered = s.dma[e].misordered
        /\ d.queue = s.dma[e].queue
    BY <1>1 DEF DmaEndpoints
  <2> HIDE DEF d
  <2>3. t \in States /\ t.dev = s.dev /\ t.ops = s.ops /\ t.dma[e] = d /\ OthersSame(s, t, e)
    BY <2>1, <2>2 DEF States, OthersSame
  <2> QED
    BY <1>2, <2>2, <2>3 DEF NextSent, BufferSent
<1>3. CASE s.dma[e].queue # <<>>
  <2> DEFINE d == [s.dma[e] EXCEPT !.running = TRUE, !.in_transit = TRUE,
                                   !.misordered = s.dma[e].misordered \/ s.dma[e].buffer_valid,
                                   !.buffer_valid = TRUE, !.drq = TRUE]
  <2>1. t = [s EXCEPT !.dma[e] = d]
    <3>1. t = [s EXCEPT !.dma[e].running = TRUE, !.dma[e].in_transit = TRUE,
                        !.dma[e].misordered = @ \/ s.dma[e].buffer_valid,
                        !.dma[e].buffer_valid = TRUE, !.dma[e].drq = TRUE]
      BY <1>3 DEF SendNextDma, t
    <3>2. /\ DOMAIN s = {"dev", "dma", "ops"} /\ DOMAIN s.dma = Endpoints
          /\ DOMAIN s.dma[e] = {"queue", "enabled", "running", "in_transit", "drq",
                               "buffer_valid", "misordered"}
      BY <1>1 DEF States, DmaEndpoints
    <3> DEFINE c == [s.dma[e] EXCEPT !.running = TRUE, !.in_transit = TRUE,
                                     !.misordered = s.dma[e].misordered \/ s.dma[e].buffer_valid]
               u == [s EXCEPT !.dma[e] = c]
    <3>3. u = [s EXCEPT !.dma[e].running = TRUE, !.dma[e].in_transit = TRUE,
                        !.dma[e].misordered = @ \/ s.dma[e].buffer_valid]
      BY <3>2
    <3>4. t = [u EXCEPT !.dma[e].buffer_valid = TRUE, !.dma[e].drq = TRUE]
      BY <3>1, <3>3
    <3>5. d = [c EXCEPT !.buffer_valid = TRUE, !.drq = TRUE]
      BY <3>2
    <3> HIDE DEF c, d
    <3>6. [u EXCEPT !.dma[e].buffer_valid = TRUE, !.dma[e].drq = TRUE]
            = [s EXCEPT !.dma[e] = [c EXCEPT !.buffer_valid = TRUE, !.drq = TRUE]]
      BY <3>2
    <3> QED
      BY <3>4, <3>5, <3>6
  <2>2. /\ d \in DmaEndpoints /\ d.drq /\ d.in_transit /\ d.buffer_valid
        /\ d.misordered = (s.dma[e].misordered \/ s.dma[e].buffer_valid)
        /\ d.queue = s.dma[e].queue
    BY <1>1 DEF DmaEndpoints
  <2> HIDE DEF d
  <2>3. t \in States /\ t.dev = s.dev /\ t.ops = s.ops /\ t.dma[e] = d /\ OthersSame(s, t, e)
    BY <2>1, <2>2 DEF States, OthersSame
  <2> QED
    BY <1>3, <2>2, <2>3 DEF NextSent, BufferSent
<1> QED
  BY <1>2, <1>3

\* A block of the queue's request has been done: it is the last, or the next is sent.
BlockDone(s, t, n, e, rqt, c, d) ==
    /\ OthersSame(s, t, e) /\ d.misordered = c.misordered
    /\ t.ops[n].moved = s.ops[n].moved + IF n = rqt THEN 1 ELSE 0
    /\ c.queue[1].offset + 1 = c.queue[1].size =>
           DmaEnded(s, t, n, "SUCCESS") /\ d.queue = <<>> /\ ~d.drq /\ ~d.buffer_valid
    /\ c.queue[1].offset + 1 # c.queue[1].size =>
           /\ OnlyOp(s, t, n) /\ t.dev = s.dev /\ SameResult(s, t, n)
           /\ Len(d.queue) = 1 /\ d.queue[1].op = n /\ d.queue[1].size = c.queue[1].size
           /\ d.queue[1].offset = c.queue[1].offset + 1
           /\ d.drq /\ d.in_transit /\ d.buffer_valid
LEMMA CompletedIs ==
    ASSUME NEW s \in States, NEW n \in 1..Len(s.ops), s.dev.storage_cb \in {0, n},
           NEW e \in Endpoints, NEW rqt, NEW t, t = Completed(s, e, rqt),
           Len(s.dma[e].queue) = 1, s.dma[e].queue[1].op = n
    PROVE  BlockDone(s, t, n, e, rqt, s.dma[e], t.dma[e])
<1> DEFINE q == s.dma[e].queue
           r == Head(q)
           k == IF n = rqt THEN 1 ELSE 0
           o == [s.ops[n] EXCEPT !.moved = s.ops[n].moved + k]
           c == [s.dma[e] EXCEPT !.buffer_valid = FALSE]
           u == [s EXCEPT !.dma[e] = c, !.ops[n] = o]
<1>1. s.dma[e] \in DmaEndpoints /\ s.ops[n] \in Operations
  BY DEF States
<1>2. q \in Seq(Entries) /\ q # <<>> /\ q[1] = r /\ Tail(q) = <<>> /\ r \in Entries
  <2>1. q \in Seq(Entries) /\ Len(q) = 1
    BY <1>1 DEF DmaEndpoints
  <2> HIDE DEF q
  <2>2. q # <<>> /\ q[1] = r /\ r \in Entries
    BY <2>1
  <2>3. Tail(q) = <<>>
    <3>1. Tail(q) \in Seq(Entries) /\ Len(Tail(q)) = 0
      BY <2>1
    <3> QED
      BY <3>1, EmptySequence
  <2> QED
    BY <2>1, <2>2, <2>3
<1>3. /\ o \in Operations /\ o.moved = s.ops[n].moved + k /\ o.kind = s.ops[n].kind
      /\ o.ep = s.ops[n].ep /\ o.size = s.ops[n].size /\ o.ret = s.ops[n].ret
      /\ o.calls = s.ops[n].calls
  <2>1. s.ops[n].moved + k \in Nat
    BY <1>1 DEF Operations
  <2> QED
    BY <1>1, <2>1 DEF Operations
<1>4. /\ c \in DmaEndpoints /\ c.queue = q /\ c.misordered = s.dma[e].misordered
      /\ ~c.buffer_valid
  BY <1>1 DEF DmaEndpoints
<1>5. /\ u \in States /\ u.dev = s.dev /\ u.dma[e] = c /\ OthersSame(s, u, e)
      /\ Len(u.ops) = Len(s.ops) /\ u.ops[n] = o
      /\ \A i \in 1..Len(s.ops) : i # n => u.ops[i] = s.ops[i]
  <2> DEFINE w == [s EXCEPT !.dma[e] = c]
  <2> HIDE DEF o, c
  <2>1. w \in States /\ w.dev = s.dev /\ w.ops = s.ops /\ w.dma[e] = c /\ OthersSame(s, w, e)
    BY <1>4 DEF States, OthersSame
  <2>2. u = [w EXCEPT !.ops[n] = o]
    OBVIOUS
  <2> HIDE DEF w, u
  <2>3. OpSet(w, [w EXCEPT !.ops[n] = o], n, o)
    BY <1>3, <2>1, OpChanged
  <2> QED
    BY <2>1, <2>2, <2>3 DEF OpSet, OthersSame
<1> DEFINE v == [s EXCEPT !.dma[e].buffer_valid = FALSE,
                          !.ops[r.op].moved = @ + IF r.op = rqt THEN 1 ELSE 0]
<1>6. u = v
  <2> DEFINE w == [s EXCEPT !.dma[e].buffer_valid = FALSE]
  <2>1. /\ DOMAIN s = {"dev", "dma", "ops"} /\ DOMAIN s.dma = Endpoints
        /\ n \in DOMAIN s.ops /\ r.op = n
    BY <1>2 DEF States
  <2>2. "moved" \in DOMAIN s.ops[n] /\ "buffer_valid" \in DOMAIN s.dma[e]
    BY <1>1 DEF Operations, DmaEndpoints
  <2>3. w = [s EXCEPT !.dma[e] = c] /\ w.ops = s.ops /\ DOMAIN w = DOMAIN s
    BY <2>1, <2>2
  <2>4. v = [w EXCEPT !.ops[n].moved = @ + k]
    BY <2>1, Zenon
  <2>5. [w EXCEPT !.ops[n].moved = @ + k] = [w EXCEPT !.ops[n] = o]
    <3> HIDE DEF w, k
    <3> QED
      BY <2>1, <2>2, <2>3
  <2> HIDE DEF c, o, k
  <2> QED
    BY <2>3, <2>4, <2>5, Zenon
<1> DEFINE last == [v EXCEPT !.dma[e].in_transit = FALSE, !.dma[e].queue = Tail(@),
                             !.dma[e].drq = FALSE, !.dma[e].running = FALSE]
           next == [v EXCEPT !.dma[e].queue[1].offset = @ + 1]
<1>7. t = IF AllMoved(r) THEN DmaCallback(last, n, "SUCCESS") ELSE SendNextDma(next, e)
  <2>1. s.dma[e].queue # <<>> /\ r.op = n
    BY <1>2
  <2>2. t = IF s.dma[e].queue = <<>> THEN [s EXCEPT !.dev.failed = TRUE]
            ELSE IF AllMoved(r) THEN DmaCallback(last, r.op, "SUCCESS") ELSE SendNextDma(next, e)
    BY Zenon DEF Completed
  <2> HIDE DEF r, q
  <2> QED
    BY <2>1, <2>2
<1> HIDE DEF v, u, o
<1>8. CASE r.offset + 1 = r.size
  <2> DEFINE d == [c EXCEPT !.in_transit = FALSE, !.queue = Tail(@), !.drq = FALSE,
                            !.running = FALSE]
  <2>1. /\ d \in DmaEndpoints /\ d.queue = <<>> /\ ~d.drq /\ ~d.buffer_valid
        /\ d.misordered = s.dma[e].misordered
    <3>1. c.queue = q /\ Tail(c.queue) = <<>> /\ <<>> \in Seq(Entries)
      BY <1>2, <1>4
    <3> HIDE DEF c, q
    <3> QED
      BY <1>4, <3>1 DEF DmaEndpoints
  <2>2. last = [u EXCEPT !.dma[e] = d]
    <3> HIDE DEF c
    <3>1. /\ DOMAIN u = {"dev", "dma", "ops"} /\ DOMAIN u.dma = Endpoints /\ u.dma[e] = c
      BY <1>5 DEF States
    <3>2. last = [u EXCEPT !.dma[e].in_transit = FALSE, !.dma[e].queue = Tail(@),
                           !.dma[e].drq = FALSE, !.dma[e].running = FALSE]
      BY <1>6
    <3> DEFINE b == [c EXCEPT !.in_transit = FALSE, !.queue = Tail(@)]
               w == [u EXCEPT !.dma[e] = b]
    <3>3. w = [u EXCEPT !.dma[e].in_transit = FALSE, !.dma[e].queue = Tail(@)]
      BY <3>1
    <3>4. last = [w EXCEPT !.dma[e].drq = FALSE, !.dma[e].running = FALSE]
      BY <3>2, <3>3
    <3>5. d = [b EXCEPT !.drq = FALSE, !.running = FALSE]
      OBVIOUS
    <3> HIDE DEF b, d
    <3>6. [w EXCEPT !.dma[e].drq = FALSE, !.dma[e].running = FALSE]
            = [u EXCEPT !.dma[e] = [b EXCEPT !.drq = FALSE, !.running = FALSE]]
      BY <3>1
    <3> QED
      BY <3>4, <3>5, <3>6
  <2> HIDE DEF d, last, c
  <2>3. /\ last \in States /\ last.dev = u.dev /\ last.ops = u.ops /\ last.dma[e] = d
        /\ OthersSame(u, last, e)
    BY <1>5, <2>1, <2>2 DEF States, OthersSame
  <2>4. t = DmaCallback(last, n, "SUCCESS")
    BY <1>7, <1>8 DEF AllMoved
  <2>5. DmaEnded(last, t, n, "SUCCESS") /\ t.dma = last.dma /\ t.ops[n].moved = last.ops[n].moved
    <3>1. n \in 1..Len(last.ops) /\ last.dev.storage_cb \in {0, n} /\ "SUCCESS" \in Errors
      BY <1>5, <2>3 DEF Errors
    <3> QED
      BY <2>3, <2>4, <3>1, DmaCallbackIs
  <2>6. DmaEnded(s, t, n, "SUCCESS")
    BY <1>3, <1>5, <2>3, <2>5 DEF DmaEnded, OnlyOp, SameMarks, SameResult, CalledBack, Worst
  <2> QED
    BY <1>2, <1>3, <1>5, <1>8, <2>1, <2>3, <2>5, <2>6 DEF OthersSame, BlockDone
<1>9. CASE r.offset + 1 # r.size
  <2> DEFINE x == [r EXCEPT !.offset = r.offset + 1]
             p == [q EXCEPT ![1] = x]
             d == [c EXCEPT !.queue = p]
  <2>1. x \in Entries /\ x.op = n /\ x.size = r.size /\ x.offset = r.offset + 1
    <3>1. r \in Entries /\ r.op = n
      BY <1>2
    <3> HIDE DEF r
    <3> QED
      BY <3>1 DEF Entries
  <2>2. p \in Seq(Entries) /\ Len(p) = 1 /\ p[1] = x
    <3>1. q \in Seq(Entries) /\ 1 \in 1..Len(q) /\ Len(q) = 1
      BY <1>2
    <3> HIDE DEF q, x
    <3> QED
      BY <2>1, <3>1, OneChanged
  <2>3. d \in DmaEndpoints /\ d.queue = p /\ ~d.buffer_valid /\ d.misordered = s.dma[e].misordered
    <3> HIDE DEF c, p
    <3> QED
      BY <1>4, <2>2 DEF DmaEndpoints
  <2>4. next = [u EXCEPT !.dma[e] = d]
    <3>1. /\ DOMAIN u = {"dev", "dma", "ops"} /\ DOMAIN u.dma = Endpoints /\ u.dma[e] = c
          /\ "queue" \in DOMAIN c
      <4> HIDE DEF c
      <4> QED
        BY <1>4, <1>5 DEF States, DmaEndpoints
    <3>2. next = [u EXCEPT !.dma[e].queue[1].offset = @ + 1]
      BY <1>6
    <3>3. c.queue = q /\ 1 \in DOMAIN q /\ "offset" \in DOMAIN r
      <4>1. r \in Entries
        BY <1>2
      <4>2. 1 \in DOMAIN q
        BY <1>2
      <4> HIDE DEF r, q, c
      <4> QED
        BY <1>4, <4>1, <4>2 DEF Entries
    <3> HIDE DEF c, next
    <3>4. next = [u EXCEPT !.dma[e] = [c EXCEPT !.queue[1].offset = @ + 1]]
      BY <3>1, <3>2
    <3>5. [c EXCEPT !.queue[1].offset = @ + 1] = d
      BY <3>1, <3>3
    <3> QED
      BY <3>4, <3>5
  <2> HIDE DEF d, next, c, p, x
  <2>5. /\ next \in States /\ next.dev = u.dev /\ next.ops = u.ops /\ next.dma[e] = d
        /\ OthersSame(u, next, e)
    BY <1>5, <2>3, <2>4 DEF States, OthersSame
  <2>6. t = SendNextDma(next, e)
    BY <1>7, <1>9 DEF AllMoved
  <2>7. /\ t \in States /\ t.dev = next.dev /\ t.ops = next.ops /\ OthersSame(next, t, e)
        /\ t.dma[e].queue = p /\ t.dma[e].drq /\ t.dma[e].in_transit /\ t.dma[e].buffer_valid
        /\ t.dma[e].misordered = s.dma[e].misordered
    <3>1. next.dma[e].queue # <<>>
      BY <2>2, <2>3, <2>5
    <3> HIDE DEF q, r
    <3>2. /\ t \in States /\ t.dev = next.dev /\ t.ops = next.ops /\ OthersSame(next, t, e)
          /\ t.dma[e].queue = next.dma[e].queue
          /\ t.dma[e].drq /\ t.dma[e].in_transit /\ t.dma[e].buffer_valid
          /\ t.dma[e].misordered = (next.dma[e].misordered \/ next.dma[e].buffer_valid)
      <4>1. NextSent(next, SendNextDma(next, e), e)
        BY <2>5, SendNextDmaIs
      <4> QED
        BY <2>6, <3>1, <4>1 DEF NextSent, BufferSent
    <3>3. d \in DmaEndpoints
      BY <2>3
    <3> QED
      BY <2>3, <2>5, <3>2, <3>3 DEF DmaEndpoints
  <2>8. OnlyOp(s, t, n) /\ SameResult(s, t, n) /\ t.dev = s.dev
    BY <1>3, <1>5, <2>5, <2>7 DEF OnlyOp, SameResult
  <2> QED
    BY <1>2, <1>3, <1>5, <1>9, <2>1, <2>2, <2>5, <2>7, <2>8 DEF OthersSame, BlockDone
<1> QED
  BY <1>2, <1>8, <1>9

\* The endpoint has been stopped and its queue emptied.
Stopped(c, d) ==
    /\ d.queue = <<>> /\ ~d.drq /\ d.misordered = c.misordered
    /\ d.buffer_valid = (c.buffer_valid /\ ~c.in_transit)

\* CyAsDmaCancel(), while the request waits for its reply.
LEMMA CancelledIs ==
    ASSUME NEW s \in States, NEW n \in 1..Len(s.ops), s.dev.storage_cb \in {0, n},
           NEW e \in Endpoints, NEW err \in Errors, NEW t, t = DmaCancelled(s, e, err),
           s.dma[e].queue # <<>> => s.dma[e].queue[1].op = n, s.dev.storage_wait
    PROVE  /\ OnlyOp(s, t, n) /\ SameMarks(s, t) /\ SameResult(s, t, n)
           /\ Stopped(s.dma[e], t.dma[e]) /\ OthersSame(s, t, e)
           /\ t.ops[n].moved = s.ops[n].moved
           /\ s.ops[n].kind = "sync" => t.dev.async_pending = s.dev.async_pending
           /\ s.ops[n].kind = "async" /\ s.dma[e].queue # <<>> => ~t.dev.async_pending
           /\ s.dma[e].queue = <<>> => t.dev.async_pending = s.dev.async_pending
<1> DEFINE u == Halted(s, e)
<1>1. /\ u \in States /\ u.dev = s.dev /\ u.ops = s.ops /\ OthersSame(s, u, e)
      /\ u.dma[e].queue = s.dma[e].queue /\ u.dma[e].misordered = s.dma[e].misordered
      /\ ~u.dma[e].drq
      /\ u.dma[e].buffer_valid = (s.dma[e].buffer_valid /\ ~s.dma[e].in_transit)
  BY HaltedIs DEF OthersSame
<1>2. t = Emptied(u, e, err)
  BY DEF DmaCancelled
<1> HIDE DEF u
<1>3. /\ t.dma[e].queue = <<>> /\ SameBuffers(u.dma[e], t.dma[e]) /\ OthersSame(u, t, e)
      /\ u.dma[e].queue = <<>> => t \in States /\ t.dev = u.dev /\ t.ops = u.ops
      /\ u.dma[e].queue # <<>> => DmaEnded(u, t, n, err) /\ t.ops[n].moved = u.ops[n].moved
  <2>1. /\ n \in 1..Len(u.ops) /\ u.dev.storage_cb \in {0, n}
        /\ u.dma[e].queue # <<>> => u.dma[e].queue[1].op = n
    BY <1>1
  <2>2. EmptiedAre(u, Emptied(u, e, err), n, e, err)
    BY <1>1, <2>1, EmptiedIs
  <2> QED
    BY <1>2, <2>2 DEF EmptiedAre
<1>4. Stopped(s.dma[e], t.dma[e]) /\ OthersSame(s, t, e)
  BY <1>1, <1>3 DEF Stopped, SameBuffers, OthersSame
<1>5. s.ops[n].kind \in {"sync", "async"}
  <2>1. s.ops[n] \in Operations
    BY DEF States
  <2> QED
    BY <2>1 DEF Operations
<1>6. CASE s.dma[e].queue = <<>>
  BY <1>1, <1>3, <1>4, <1>6 DEF OnlyOp, SameMarks, SameResult
<1>7. CASE s.dma[e].queue # <<>>
  <2>1. DmaEnded(u, t, n, err) /\ t.ops[n].moved = u.ops[n].moved
    BY <1>1, <1>3, <1>7
  <2>2. OnlyOp(s, t, n) /\ SameMarks(s, t) /\ t.ops[n].moved = s.ops[n].moved
    BY <1>1, <2>1 DEF DmaEnded, OnlyOp, SameMarks
  <2>3. SameResult(s, t, n) /\ (s.ops[n].kind = "sync" => t.dev.async_pending = s.dev.async_pending)
    BY <1>1, <1>5, <2>1 DEF DmaEnded, SameResult
  <2>4. s.ops[n].kind = "async" => ~t.dev.async_pending
    BY <1>1, <2>1 DEF DmaEnded
  <2> QED
    BY <1>4, <1>7, <2>2, <2>3, <2>4
<1> QED
  BY <1>6, <1>7

\* The reply to the request of operation n has come.
Replied(s, t, n, ret) ==
    LET e == s.ops[n].ep
        stops == IF s.ops[n].kind = "sync" THEN ret = "ERROR" ELSE ret # "SUCCESS"
        ends == s.ops[n].kind = "async"
                /\ (ret # "SUCCESS" \/ ~s.dev.async_pending)
    IN  /\ OnlyOp(s, t, n) /\ t.ops[n].moved = s.ops[n].moved /\ OthersSame(s, t, e)
        /\ ~t.dev.storage_wait /\ t.dev.rqt = 0 /\ t.dev.storage_oper = s.dev.storage_oper
        /\ stops => Stopped(s.dma[e], t.dma[e])
        /\ ~stops => t.dma[e] = s.dma[e]
        /\ s.ops[n].kind = "async" /\ ret # "SUCCESS" => ~t.dev.async_pending
        /\ s.ops[n].kind = "sync" \/ ret = "SUCCESS" => t.dev.async_pending = s.dev.async_pending
        /\ ~ends => t.dev.storage_error = ret /\ SameResult(s, t, n)
        /\ ends /\ ret # "SUCCESS" => CalledBack(s, t, n, ret)
        /\ ends /\ ret = "SUCCESS" => CalledBack(s, t, n, s.dev.storage_error)

\* The same for operation n.
ReplyOf(s, n, ret) ==
    LET e == s.ops[n].ep
        sync == s.ops[n].kind = "sync"
        stops == IF sync THEN ret = "ERROR" ELSE ret # "SUCCESS"
        c == IF stops THEN DmaCancelled(s, e, ret) ELSE s
        u == [c EXCEPT !.dev.rqt = 0, !.dev.storage_wait = FALSE]
    IN  IF ~sync /\ ~u.dev.async_pending THEN UserCallback(u, Worst(u, ret))
        ELSE [u EXCEPT !.dev.storage_error = ret]
LEMMA ReplyUnfolds ==
    ASSUME NEW s, NEW ret
    PROVE  ReplyCallback(s, ret) = ReplyOf(s, s.dev.rqt, ret)
  BY Zenon DEF ReplyCallback, ReplyOf

\* The callbacks of a reply.
LEMMA ReplyCallbackIs ==
    ASSUME NEW s \in States, NEW n \in 1..Len(s.ops), s.dev.storage_cb \in {0, n},
           s.dev.rqt = n, s.dev.storage_wait, NEW ret \in Errors,
           NEW t, t = ReplyCallback(s, ret),
           LET d == s.dma[s.ops[n].ep]
           IN  /\ d.queue # <<>> => d.queue[1].op = n
               /\ s.dev.async_pending = (s.ops[n].kind = "async" /\ d.queue # <<>>)
    PROVE  Replied(s, t, n, ret)
<1> DEFINE e == s.ops[n].ep
           sync == s.ops[n].kind = "sync"
           stops == IF sync THEN ret = "ERROR" ELSE ret # "SUCCESS"
           c == IF stops THEN DmaCancelled(s, e, ret) ELSE s
           u == [c EXCEPT !.dev.rqt = 0, !.dev.storage_wait = FALSE]
<1>1. e \in Endpoints /\ s.ops[n].kind \in {"sync", "async"}
  <2>1. s.ops[n] \in Operations
    BY DEF States
  <2> QED
    BY <2>1 DEF Operations
<1>2. t = IF ~sync /\ ~u.dev.async_pending THEN UserCallback(u, Worst(u, ret))
          ELSE [u EXCEPT !.dev.storage_error = ret]
  <2>1. t = ReplyOf(s, n, ret)
    BY ReplyUnfolds
  <2> QED
    BY <2>1, Zenon DEF ReplyOf
<1>3. /\ OnlyOp(s, c, n) /\ SameMarks(s, c) /\ SameResult(s, c, n)
      /\ OthersSame(s, c, e) /\ c.ops[n].moved = s.ops[n].moved
      /\ stops => Stopped(s.dma[e], c.dma[e])
      /\ ~stops => c.dma[e] = s.dma[e] /\ c.dev = s.dev
      /\ sync \/ ret = "SUCCESS" => c.dev.async_pending = s.dev.async_pending
      /\ ~sync /\ ret # "SUCCESS" => ~c.dev.async_pending
  <2>1. CASE stops
    <3>1. c = DmaCancelled(s, e, ret)
      BY <2>1
    <3> HIDE DEF c
    <3>2. /\ OnlyOp(s, c, n) /\ SameMarks(s, c) /\ SameResult(s, c, n)
          /\ Stopped(s.dma[e], c.dma[e]) /\ OthersSame(s, c, e)
          /\ c.ops[n].moved = s.ops[n].moved
          /\ s.ops[n].kind = "sync" => c.dev.async_pending = s.dev.async_pending
          /\ s.ops[n].kind = "async" /\ s.dma[e].queue # <<>> => ~c.dev.async_pending
          /\ s.dma[e].queue = <<>> => c.dev.async_pending = s.dev.async_pending
      BY <1>1, <3>1, CancelledIs
    <3> QED
      BY <1>1, <2>1, <3>2
  <2>2. CASE ~stops
    <3>1. c = s
      BY <2>2
    <3> HIDE DEF c
    <3> QED
      BY <1>1, <2>2, <3>1 DEF OnlyOp, SameMarks, SameResult, OthersSame
  <2> QED
    BY <2>1, <2>2
<1> HIDE DEF c
<1>8. c \in States /\ c.dev \in Devices
  BY <1>3 DEF OnlyOp, States
<1>4. /\ u \in States /\ u.ops = c.ops /\ u.dma = c.dma
      /\ u.dev = [c.dev EXCEPT !.rqt = 0, !.storage_wait = FALSE]
  BY <1>8 DEF States, Devices
<1>5. /\ ~u.dev.storage_wait /\ u.dev.rqt = 0 /\ u.dev.storage_oper = c.dev.storage_oper
      /\ u.dev.storage_error = c.dev.storage_error /\ u.dev.failed = c.dev.failed
      /\ u.dev.storage_cb = c.dev.storage_cb /\ u.dev.async_pending = c.dev.async_pending
  <2>1. u.dev = [c.dev EXCEPT !.rqt = 0, !.storage_wait = FALSE]
    BY <1>4
  <2> HIDE DEF u
  <2> QED
    BY <1>8, <2>1 DEF Devices
<1> HIDE DEF u
<1>6. CASE ~sync /\ ~u.dev.async_pending
  <2>1. t = UserCallback(u, Worst(u, ret)) /\ Worst(u, ret) \in Errors
    BY <1>2, <1>4, <1>6, WorstIs
  <2>2. n \in 1..Len(u.ops) /\ u.dev.storage_cb \in {0, n}
    BY <1>3, <1>4, <1>5 DEF OnlyOp, SameResult
  <2>3. /\ OnlyOp(u, t, n) /\ SameMarks(u, t) /\ t.dev.async_pending = u.dev.async_pending
        /\ CalledBack(u, t, n, Worst(u, ret)) /\ t.dma = u.dma /\ t.ops[n].moved = u.ops[n].moved
    <3>1. u \in States
      BY <1>4
    <3> QED
      BY <2>1, <2>2, <3>1, UserCallbackIs
  <2>4. /\ ret # "SUCCESS" => Worst(u, ret) = ret
        /\ ret = "SUCCESS" => Worst(u, ret) = s.dev.storage_error
    BY <1>3, <1>5, <1>6 DEF Worst
  <2>5. OnlyOp(s, t, n) /\ OthersSame(s, t, e) /\ t.ops[n].moved = s.ops[n].moved
    BY <1>3, <1>4, <2>3 DEF OnlyOp, OthersSame
  <2>6. CalledBack(s, t, n, Worst(u, ret))
    BY <1>3, <1>4, <1>5, <2>3 DEF CalledBack, SameResult
  <2>7. /\ ~t.dev.storage_wait /\ t.dev.rqt = 0 /\ t.dev.storage_oper = s.dev.storage_oper
        /\ ~t.dev.async_pending
    BY <1>3, <1>5, <1>6, <2>3, Zenon DEF SameMarks
  <2>8. /\ stops => Stopped(s.dma[e], t.dma[e])
        /\ ~stops => t.dma[e] = s.dma[e]
    BY <1>3, <1>4, <2>3, Zenon
  <2>9. sync \/ ret = "SUCCESS" => t.dev.async_pending = s.dev.async_pending
    BY <1>3, <1>5, <2>3, Zenon
  <2>10. /\ ret # "SUCCESS" => CalledBack(s, t, n, ret)
         /\ ret = "SUCCESS" => CalledBack(s, t, n, s.dev.storage_error)
    BY <2>4, <2>6, Zenon
  <2>11. ret = "SUCCESS" => ~s.dev.async_pending
    BY <2>7, <2>9, Zenon
  <2>12. s.ops[n].kind = "async" /\ s.ops[n].kind # "sync"
    BY <1>1, <1>6
  <2> QED
    BY <2>5, <2>7, <2>8, <2>9, <2>10, <2>11, <2>12, Zenon DEF Replied
<1>7. CASE sync \/ u.dev.async_pending
  <2>1. t = [u EXCEPT !.dev.storage_error = ret]
    BY <1>2, <1>7
  <2>2. /\ t \in States /\ t.dma = u.dma /\ t.ops = u.ops
        /\ t.dev = [u.dev EXCEPT !.storage_error = ret]
    <3>1. u \in States
      BY <1>4
    <3> QED
      BY <2>1, <3>1 DEF States, Devices
  <2>3. u.dev \in Devices
    BY <1>4 DEF States
  <2>4. /\ t.dev.storage_error = ret /\ t.dev.storage_wait = u.dev.storage_wait
        /\ t.dev.rqt = u.dev.rqt /\ t.dev.storage_oper = u.dev.storage_oper
        /\ t.dev.storage_cb = u.dev.storage_cb /\ t.dev.failed = u.dev.failed
        /\ t.dev.async_pending = u.dev.async_pending
    BY <2>2, <2>3 DEF Devices
  <2>5. OnlyOp(s, t, n) /\ OthersSame(s, t, e) /\ t.ops[n].moved = s.ops[n].moved /\ SameResult(s, t, n)
    BY <1>3, <1>4, <1>5, <2>2, <2>4 DEF OnlyOp, OthersSame, SameResult
  <2> QED
    BY <1>1, <1>3, <1>4, <1>5, <1>7, <2>2, <2>4, <2>5 DEF Replied, SameMarks
<1> QED
  BY <1>6, <1>7

-----------------------------------------------------------------------------
(* What the invariant says, and how it is kept *)

\* Initially.
LEMMA InitHolds ==
    ASSUME StorageInit
    PROVE  IInv
<1>1. StorageNow.dev \in Devices
  <2>1. "SUCCESS" \in Errors /\ "read" \in Endpoints
    BY DEF Errors, Endpoints
  <2> QED
    BY <2>1 DEF StorageInit, StorageNow, Devices
<1>2. StorageNow.dma \in [Endpoints -> DmaEndpoints]
  <2>1. <<>> \in Seq(Entries)
    OBVIOUS
  <2> QED
    BY <2>1 DEF StorageInit, StorageNow, DmaEndpoints
<1>3. StorageNow.ops \in Seq(Operations) /\ Len(StorageNow.ops) = 0
  BY DEF StorageInit, StorageNow
<1>4. StorageNow \in States
  BY <1>1, <1>2, <1>3 DEF States, StorageNow
<1>5. caller \in Callers /\ caller.op = 0 /\ caller.at = "idle"
  BY DEF StorageInit, Callers, Errors
<1>6. storageCard \in Cards /\ storageCard.rqts = <<>> /\ ~storageCard.asked /\ storageCard.moved = 0
  <2>1. <<>> \in Seq(Requests)
    OBVIOUS
  <2> QED
    BY <2>1 DEF StorageInit, Cards
<1>7. /\ StorageNow.dev.rqt = 0 /\ StorageNow.dev.storage_cb = 0
      /\ ~StorageNow.dev.async_pending /\ StorageNow.dev.storage_wait = FALSE /\ ~StorageNow.dev.failed
  BY DEF StorageInit, StorageNow
<1>8. \A e \in Endpoints : AtRest(StorageNow.dma[e]) /\ ~StorageNow.dma[e].misordered
  BY DEF StorageInit, StorageNow, AtRest
<1>9. OthersAreQuiet(StorageNow, caller)
  <2>1. \A i \in 1..Len(StorageNow.ops) : FALSE
    BY <1>3
  <2> QED
    <3>1. caller.op \in 0..Len(StorageNow.ops)
      BY <1>3, <1>5
    <3>2. \A i \in 1..Len(StorageNow.ops) : i > caller.op => StorageNow.ops[i].ret = "ASYNC_PENDING"
      BY <2>1
    <3>3. StorageNow.dev.storage_wait = (StorageNow.dev.rqt # 0)
      BY <1>7, Zenon
    <3> QED
      BY <1>5, <1>7, <1>8, <3>1, <3>2, <3>3 DEF OthersAreQuiet
<1>10. IsCurrent(StorageNow, caller) /\ CalledOnce(StorageNow) /\ MovedAll(StorageNow)
  BY <1>3, <1>5 DEF IsCurrent, CalledOnce, MovedAll
<1>11. IsInOrder(StorageNow, caller, storageCard)
  BY <1>5, <1>6, <1>7, <1>8 DEF IsInOrder
<1> QED
  BY <1>4, <1>5, <1>6, <1>9, <1>10, <1>11 DEF IInv, Holds

\* The invariant says what the run checks.
LEMMA ResultFollows ==
    ASSUME IInv
    PROVE  StorageResultIsTrue
<1> USE DEF StorageNow
<1>1. /\ StorageNow \in States /\ OthersAreQuiet(StorageNow, caller) /\ CalledOnce(StorageNow) /\ MovedAll(StorageNow)
      /\ IsInOrder(StorageNow, caller, storageCard) /\ caller \in Callers
  BY DEF IInv, Holds
<1>2. DOMAIN ops = 1..Len(ops) /\ Len(ops) \in Nat /\ caller.op \in 0..Len(ops)
  BY <1>1 DEF States, OthersAreQuiet
<1>3. ASSUME NEW i \in DOMAIN ops, ~TimedOutBefore(i)
      PROVE  /\ ops[i].ret = "SUCCESS" => ops[i].moved = ops[i].size
             /\ ops[i].kind = "async" /\ ops[i].ret # "ASYNC_PENDING" =>
                    ops[i].calls = IF ops[i].ret = "none" THEN 0 ELSE 1
  <2>1. ~TimedOut(StorageNow, i)
    BY <1>3 DEF TimedOut, TimedOutBefore
  <2>2. i \in 1..Len(StorageNow.ops)
    BY <1>2
  <2> QED
    BY <1>1, <2>1, <2>2 DEF CalledOnce, MovedAll
<1>4. ASSUME ~TimedOutBefore(Len(ops))
      PROVE  ~dev.failed /\ \A e \in Endpoints : ~dma[e].misordered
  <2>1. ~TimedOut(StorageNow, caller.op)
    BY <1>2, <1>4 DEF TimedOut, TimedOutBefore
  <2> QED
    BY <1>1, <2>1 DEF IsInOrder
<1> QED
  BY <1>3, <1>4 DEF StorageResultIsTrue

\* What holds of the caller's operation, spelled out.
OperationFacts(s, cl, cd, n, o, d) ==
    /\ s \in States /\ s.dev \in Devices /\ n = cl.op /\ n \in 1..Len(s.ops) /\ n \in Nat /\ n # 0
    /\ o \in Operations /\ o.ep \in Endpoints /\ d \in DmaEndpoints
    /\ ThreadIsAt(o, cl) /\ QueueIsCurrent(s.dev, d, o, cl)
    /\ RequestIsCurrent(s.dev, o, cl) /\ BuffersAreSent(d, cl)
    /\ s.dev.storage_wait = (s.dev.rqt # 0)
    /\ s.dev.storage_cb \in {0, n}
    /\ d.queue # <<>> => d.queue[1].op = n
    /\ o.kind = "async" => o.calls = IF o.ret \in {"none", "ASYNC_PENDING"} THEN 0 ELSE 1
    /\ ~TimedOut(s, n) =>
           /\ ~s.dev.failed /\ ~d.misordered
           /\ cl.at = "send" \/ s.dev.storage_wait => o.ret = "none"
           /\ o.ret # "TIMEOUT" => /\ RequestIsOwn(s.dev, o, cl, cd)
                                   /\ BlocksAreCounted(s.dev, d, o, cl, cd)
           /\ o.ret = "SUCCESS" => o.moved = o.size
LEMMA OperationIs ==
    ASSUME NEW s, NEW cl, NEW cd, Holds(s, cl, cd), cl.op # 0
    PROVE  OperationFacts(s, cl, cd, cl.op, s.ops[cl.op], s.dma[s.ops[cl.op].ep])
<1> DEFINE n == cl.op
           o == s.ops[n]
           d == s.dma[o.ep]
<1>1. s \in States /\ s.dev \in Devices /\ s.dma \in [Endpoints -> DmaEndpoints] /\ s.ops \in Seq(Operations)
  BY DEF Holds, States
<1>2. n \in 1..Len(s.ops) /\ n \in Nat
  BY <1>1 DEF Holds, OthersAreQuiet
<1>3. o \in Operations
  BY <1>1, <1>2
<1>4. o.ep \in Endpoints
  BY <1>3 DEF Operations
<1>5. d \in DmaEndpoints
  BY <1>1, <1>4
<1>6. /\ ThreadIsAt(o, cl) /\ QueueIsCurrent(s.dev, d, o, cl)
      /\ RequestIsCurrent(s.dev, o, cl) /\ BuffersAreSent(d, cl)
  BY DEF Holds, IsCurrent, OpOf, EndpointOf
<1>7. s.dev.storage_wait = (s.dev.rqt # 0)
  BY DEF Holds, OthersAreQuiet
<1>8. s.dev.storage_cb \in {0, n} /\ (d.queue # <<>> => d.queue[1].op = n)
  BY <1>6, Zenon DEF RequestIsCurrent, QueueIsCurrent
<1>9. o.kind = "async" => o.calls = IF o.ret \in {"none", "ASYNC_PENDING"} THEN 0 ELSE 1
  BY <1>2 DEF Holds, CalledOnce
<1>10. ASSUME ~TimedOut(s, n)
       PROVE  /\ ~s.dev.failed /\ ~d.misordered
              /\ cl.at = "send" \/ s.dev.storage_wait => o.ret = "none"
              /\ o.ret # "TIMEOUT" => /\ RequestIsOwn(s.dev, o, cl, cd)
                                      /\ BlocksAreCounted(s.dev, d, o, cl, cd)
              /\ o.ret = "SUCCESS" => o.moved = o.size
  BY <1>2, <1>4, <1>10 DEF Holds, IsInOrder, MovedAll, OpOf, EndpointOf
<1> HIDE DEF o, d
<1> QED
  BY <1>1, <1>2, <1>3, <1>4, <1>5, <1>6, <1>7, <1>8, <1>9, <1>10, Zenon DEF OperationFacts, o, d

\* What must be shown of the caller's operation after a step that touches no other.
Kept(s, t, dl, dd, n, o, d) ==
    /\ OnlyOp(s, t, n) /\ OthersSame(s, t, o.ep)
    /\ t.dev.storage_wait = (t.dev.rqt # 0)
    /\ ThreadIsAt(o, dl) /\ QueueIsCurrent(t.dev, d, o, dl) /\ RequestIsCurrent(t.dev, o, dl)
    /\ BuffersAreSent(d, dl)
    /\ o.kind = "async" => o.calls = IF o.ret \in {"none", "ASYNC_PENDING"} THEN 0 ELSE 1
    /\ ~TimedOut(s, n) =>
           /\ ~t.dev.failed /\ ~d.misordered
           /\ dl.at = "send" \/ t.dev.storage_wait => o.ret = "none"
           /\ o.ret # "TIMEOUT" => /\ RequestIsOwn(t.dev, o, dl, dd)
                                   /\ BlocksAreCounted(t.dev, d, o, dl, dd)
           /\ o.ret = "SUCCESS" => o.moved = o.size
LEMMA OperationKeeps ==
    ASSUME NEW s, NEW cl, NEW cd, Holds(s, cl, cd), cl.op # 0,
           NEW t, NEW dl \in Callers, NEW dd \in Cards, dl.op = cl.op,
           Kept(s, t, dl, dd, cl.op, t.ops[cl.op], t.dma[t.ops[cl.op].ep])
    PROVE  Holds(t, dl, dd)
<1> DEFINE n == cl.op
           o == t.ops[n]
           d == t.dma[o.ep]
<1>0. /\ OnlyOp(s, t, n) /\ OthersSame(s, t, o.ep) /\ t.dev.storage_wait = (t.dev.rqt # 0)
      /\ ThreadIsAt(o, dl) /\ QueueIsCurrent(t.dev, d, o, dl) /\ RequestIsCurrent(t.dev, o, dl)
      /\ BuffersAreSent(d, dl)
      /\ o.kind = "async" => o.calls = IF o.ret \in {"none", "ASYNC_PENDING"} THEN 0 ELSE 1
  BY Zenon DEF Kept
<1>0a. ASSUME ~TimedOut(s, n)
       PROVE  /\ ~t.dev.failed /\ ~d.misordered
              /\ dl.at = "send" \/ t.dev.storage_wait => o.ret = "none"
              /\ o.ret # "TIMEOUT" => /\ RequestIsOwn(t.dev, o, dl, dd)
                                      /\ BlocksAreCounted(t.dev, d, o, dl, dd)
              /\ o.ret = "SUCCESS" => o.moved = o.size
  BY <1>0a, Zenon DEF Kept
<1>1. /\ s \in States /\ n \in 1..Len(s.ops) /\ n \in Nat /\ s.ops[n].ep \in Endpoints
      /\ s.ops[n] \in Operations
  BY OperationIs, Zenon DEF OperationFacts
<1>2. /\ t \in States /\ Len(t.ops) = Len(s.ops) /\ o.ep = s.ops[n].ep
      /\ \A i \in 1..Len(s.ops) : i # n => t.ops[i] = s.ops[i]
  BY <1>0, Zenon DEF OnlyOp
<1>3. Len(s.ops) \in Nat
  <2>1. s.ops \in Seq(Operations)
    BY <1>1, Zenon DEF States
  <2> QED
    BY <2>1
<1>4. \A i \in 1..n : TimedOut(t, i) <=> TimedOut(s, i)
  <2> SUFFICES ASSUME NEW i \in 1..n
               PROVE  TimedOut(t, i) <=> TimedOut(s, i)
    OBVIOUS
  <2>1. \A j \in 1..(i - 1) : t.ops[j] = s.ops[j]
    BY <1>1, <1>2, <1>3
  <2> QED
    BY <2>1 DEF TimedOut
<1>5. OthersAreQuiet(t, dl)
  <2>1. \A i \in 1..Len(t.ops) : i > n => t.ops[i].ret = "ASYNC_PENDING"
    BY <1>1, <1>2, <1>3 DEF Holds, OthersAreQuiet
  <2>2. \A e \in Endpoints : e # o.ep => AtRest(t.dma[e])
    BY <1>0, <1>2, Zenon DEF Holds, OthersAreQuiet, OthersSame, OpOf
  <2>3. t.dev.storage_wait = (t.dev.rqt # 0) /\ dl.op = n /\ n # 0
    BY <1>0
  <2>4. dl.op \in 0..Len(t.ops)
    BY <1>1, <1>2, <1>3
  <2> HIDE DEF n, o
  <2> QED
    BY <2>1, <2>2, <2>3, <2>4 DEF OthersAreQuiet, OpOf, o
<1>6. IsCurrent(t, dl)
  BY <1>0 DEF IsCurrent, OpOf, EndpointOf
<1>7. CalledOnce(t)
  BY <1>0, <1>2 DEF Holds, CalledOnce
<1>8. MovedAll(t)
  <2> SUFFICES ASSUME NEW i \in 1..Len(t.ops), ~TimedOut(t, i), t.ops[i].ret = "SUCCESS"
               PROVE  t.ops[i].moved = t.ops[i].size
    BY DEF MovedAll
  <2>1. CASE i = n
    BY <1>0a, <1>1, <1>4, <2>1
  <2>2. CASE i < n
    BY <1>1, <1>2, <1>3, <1>4, <2>2 DEF Holds, MovedAll
  <2>3. CASE i > n
    BY <1>1, <1>2, <1>3, <2>3 DEF Holds, OthersAreQuiet
  <2> QED
    BY <1>1, <1>2, <1>3, <2>1, <2>2, <2>3
<1>9. IsInOrder(t, dl, dd)
  <2> SUFFICES ASSUME ~TimedOut(t, dl.op)
               PROVE  /\ ~t.dev.failed /\ \A e \in Endpoints : ~t.dma[e].misordered
                      /\ dl.at = "send" \/ t.dev.storage_wait => OpOf(t, dl).ret = "none"
                      /\ OpOf(t, dl).ret # "TIMEOUT" =>
                             /\ RequestIsOwn(t.dev, OpOf(t, dl), dl, dd)
                             /\ BlocksAreCounted(t.dev, EndpointOf(t, dl), OpOf(t, dl), dl, dd)
    BY DEF IsInOrder
  <2>1. ~TimedOut(s, n)
    BY <1>1, <1>4
  <2>2. \A e \in Endpoints : ~s.dma[e].misordered
    BY <2>1 DEF Holds, IsInOrder
  <2>3. \A e \in Endpoints : ~t.dma[e].misordered
    BY <1>0, <1>0a, <1>1, <1>2, <2>1, <2>2, Zenon DEF OthersSame
  <2> QED
    BY <1>0a, <2>1, <2>3 DEF OpOf, EndpointOf
<1> QED
  BY <1>2, <1>5, <1>6, <1>7, <1>8, <1>9 DEF Holds

-----------------------------------------------------------------------------
(* The steps *)

\* The firmware's reply to the request of the caller's operation.
LEMMA AnswerHolds ==
    ASSUME StorageHyp, NEW s, NEW cl \in Callers, NEW cd, Holds(s, cl, cd), cl.op # 0, ~s.dev.failed,
           s.dev.rqt = cl.op, s.dev.storage_wait,
           NEW ret \in {"SUCCESS", "ERROR", "INVALID_RESPONSE"} \cap Errors,
           NEW t, t = ReplyCallback(s, ret), NEW dd \in Cards,
           ~TimedOut(s, cl.op) /\ s.ops[cl.op].ret # "TIMEOUT" =>
               /\ dd.rqts = <<>> /\ dd.moved = 0 /\ ~dd.asked
               /\ ret = "SUCCESS" => cd.moved = s.ops[cl.op].size
    PROVE  Holds(t, cl, dd)
<1> DEFINE n == cl.op
           o == s.ops[n]
           d == s.dma[o.ep]
           p == t.ops[n]
           b == t.dma[p.ep]
<1>1. OperationFacts(s, cl, cd, n, o, d)
  BY OperationIs
<1>2. Replied(s, t, n, ret)
  <2>1. /\ s \in States /\ n \in 1..Len(s.ops) /\ s.dev.storage_cb \in {0, n} /\ ret \in Errors
        /\ d.queue # <<>> => d.queue[1].op = n
        /\ s.dev.async_pending = (o.kind = "async" /\ d.queue # <<>>)
    BY <1>1, Zenon DEF OperationFacts, QueueIsCurrent
  <2> QED
    BY <2>1, ReplyCallbackIs, Zenon
<1>3. p.kind = o.kind /\ p.ep = o.ep /\ p.size = o.size /\ b = t.dma[o.ep]
  BY <1>2 DEF Replied, OnlyOp
<1> DEFINE stops == IF o.kind = "sync" THEN ret = "ERROR" ELSE ret # "SUCCESS"
           ends == o.kind = "async" /\ (ret # "SUCCESS" \/ ~s.dev.async_pending)
<1>4. /\ OnlyOp(s, t, n) /\ p.moved = o.moved /\ OthersSame(s, t, o.ep)
      /\ ~t.dev.storage_wait /\ t.dev.rqt = 0 /\ t.dev.storage_oper = s.dev.storage_oper
      /\ stops => Stopped(d, b)
      /\ ~stops => b = d
      /\ o.kind = "async" /\ ret # "SUCCESS" => ~t.dev.async_pending
      /\ o.kind = "sync" \/ ret = "SUCCESS" => t.dev.async_pending = s.dev.async_pending
      /\ ~ends => t.dev.storage_error = ret /\ SameResult(s, t, n)
      /\ ends /\ ret # "SUCCESS" => CalledBack(s, t, n, ret)
      /\ ends /\ ret = "SUCCESS" => CalledBack(s, t, n, s.dev.storage_error)
  BY <1>2, <1>3 DEF Replied
<1>5. /\ ~ends => p.ret = o.ret /\ p.calls = o.calls /\ t.dev.storage_cb = s.dev.storage_cb
                  /\ t.dev.failed = s.dev.failed
      /\ ends => /\ t.dev.storage_cb = 0
                 /\ s.dev.storage_cb = 0 => t.dev.failed /\ p.ret = o.ret /\ p.calls = o.calls
                 /\ s.dev.storage_cb # 0 =>
                       /\ t.dev.failed = s.dev.failed /\ p.calls = o.calls + 1
                       /\ p.ret = IF ret = "SUCCESS" THEN s.dev.storage_error ELSE ret
  BY <1>4 DEF SameResult, CalledBack
<1>6. OnlyOp(s, t, n) /\ OthersSame(s, t, p.ep)
  BY <1>3, <1>4
<1>7. t.dev.async_pending \in BOOLEAN /\ s.dev.async_pending \in BOOLEAN /\ t.dev \in Devices
  <2>1. t.dev \in Devices
    BY <1>4 DEF OnlyOp, States
  <2> QED
    BY <1>1, <2>1, Zenon DEF OperationFacts, Devices
<1> HIDE DEF n, o, d, p, b
<1>13. o.kind \in {"sync", "async"}
  BY <1>1 DEF OperationFacts, Operations
<1>8. ThreadIsAt(p, cl)
  BY <1>1, <1>3, <1>5 DEF OperationFacts, ThreadIsAt
<1>9. QueueIsCurrent(t.dev, b, p, cl)
  <2>1. QueueIsCurrent(s.dev, d, o, cl)
    BY <1>1 DEF OperationFacts
  <2>2. CASE stops
    <3>1. b.queue = <<>>
      BY <1>4, <2>2 DEF Stopped
    <3>2. t.dev.async_pending = (p.kind = "async" /\ b.queue # <<>>)
      <4>1. CASE o.kind = "sync"
        BY <1>3, <1>4, <1>7, <2>1, <3>1, <4>1 DEF QueueIsCurrent
      <4>2. CASE o.kind = "async"
        BY <1>4, <1>7, <2>2, <3>1, <4>2
      <4> QED
        BY <1>13, <4>1, <4>2
    <3> QED
      BY <1>3, <1>4, <2>1, <3>1, <3>2 DEF QueueIsCurrent
  <2>3. CASE ~stops
    <3>1. b = d /\ t.dev.async_pending = s.dev.async_pending
      BY <1>4, <1>13, <2>3
    <3>2. d.queue # <<>> => ~ends
      BY <1>7, <1>13, <2>1, <2>3 DEF QueueIsCurrent
    <3> QED
      BY <1>3, <1>4, <1>5, <2>1, <3>1, <3>2 DEF QueueIsCurrent
  <2> QED
    BY <2>2, <2>3
<1>10. RequestIsCurrent(t.dev, p, cl)
  BY <1>1, <1>3, <1>4, <1>5 DEF OperationFacts, RequestIsCurrent
<1>11. BuffersAreSent(b, cl)
  BY <1>1, <1>4 DEF OperationFacts, BuffersAreSent, Stopped
<1>12. p.kind = "async" => p.calls = IF p.ret \in {"none", "ASYNC_PENDING"} THEN 0 ELSE 1
  <2>1. s.dev.storage_error \in Errors
    BY <1>1 DEF OperationFacts, Devices
  <2>2. s.dev.storage_error \notin {"none", "ASYNC_PENDING"} /\ ret \notin {"none", "ASYNC_PENDING"}
    BY <2>1 DEF StorageHyp, Errors
  <2> QED
    BY <1>1, <1>3, <1>5, <2>2 DEF OperationFacts, RequestIsCurrent
<1>14. ASSUME ~TimedOut(s, n)
       PROVE  /\ ~t.dev.failed /\ ~b.misordered
              /\ p.ret # "TIMEOUT" => /\ RequestIsOwn(t.dev, p, cl, dd)
                                      /\ BlocksAreCounted(t.dev, b, p, cl, dd)
              /\ p.ret = "SUCCESS" => p.moved = p.size
  <2>1. /\ o.ret = "none" /\ cl.at # "send" /\ RequestIsOwn(s.dev, o, cl, cd)
        /\ BlocksAreCounted(s.dev, d, o, cl, cd) /\ ~s.dev.failed /\ ~d.misordered
    BY <1>1, <1>14 DEF OperationFacts, RequestIsCurrent
  <2>2. ~b.misordered
    BY <1>4, <2>1 DEF Stopped
  <2>3. o.kind = "async" => s.dev.storage_cb = n /\ n # 0
    BY <1>1, <2>1 DEF RequestIsOwn, OperationFacts
  <2>4. ~t.dev.failed
    BY <1>5, <2>1, <2>3
  <2>5. dd.rqts = <<>> /\ dd.moved = 0 /\ ~dd.asked /\ (ret = "SUCCESS" => cd.moved = o.size)
    BY <1>14, <2>1 DEF n, o
  <2>6. ret = "SUCCESS" => d.queue = <<>>
    <3> SUFFICES ASSUME ret = "SUCCESS", d.queue # <<>>
                 PROVE  FALSE
      OBVIOUS
    <3>1. d.queue[1].offset = cd.moved /\ d.queue[1].offset < o.size
      BY <1>1, <2>1 DEF BlocksAreCounted, OperationFacts, QueueIsCurrent
    <3>2. o.size \in Nat
      BY <1>1 DEF OperationFacts, Operations
    <3> QED
      BY <2>5, <3>1, <3>2
  <2>7. ret = "SUCCESS" => \/ o.moved = o.size
                           \/ o.kind = "sync" /\ cl.ret = "TIMEOUT"
    BY <2>1, <2>6 DEF BlocksAreCounted
  <2>8. ret = "SUCCESS" => s.dev.async_pending = FALSE
    BY <1>1, <1>7, <2>6 DEF OperationFacts, QueueIsCurrent
  <2>9. RequestIsOwn(t.dev, p, cl, dd)
    <3>1. p.kind = "async" => p.ret # "none"
      <4>1. o.kind = "async" => ends
        BY <2>8
      <4>2. s.dev.storage_error \in Errors /\ "none" \notin Errors
        BY <1>1 DEF OperationFacts, Devices, StorageHyp, Errors
      <4> QED
        BY <1>3, <1>5, <2>3, <4>1, <4>2
    <3>2. p.kind = "sync" => cl.at # "idle"
      BY <1>3, <2>1 DEF RequestIsOwn
    <3> QED
      BY <1>4, <2>5, <3>1, <3>2 DEF RequestIsOwn
  <2>10. BlocksAreCounted(t.dev, b, p, cl, dd)
    BY <1>3, <1>4, <1>13, <2>1, <2>7 DEF BlocksAreCounted
  <2>11. p.ret = "SUCCESS" => p.moved = p.size
    BY <1>3, <1>4, <1>5, <1>13, <2>1, <2>3, <2>7
  <2> QED
    BY <2>2, <2>4, <2>9, <2>10, <2>11
<1>15. t.dev.storage_wait = (t.dev.rqt # 0)
  <2>1. t.dev.storage_wait \in BOOLEAN
    BY <1>7 DEF Devices
  <2> QED
    BY <1>4, <2>1
<1>16. Kept(s, t, cl, dd, n, p, b)
  <2>1. cl.at # "send" /\ ~t.dev.storage_wait
    BY <1>1, <1>4 DEF OperationFacts, RequestIsCurrent
  <2> QED
    BY <1>6, <1>8, <1>9, <1>10, <1>11, <1>12, <1>14, <1>15, <2>1 DEF Kept
<1> QED
  BY <1>16, OperationKeeps DEF n, p, b

\* The marks of a request that is given to the mailbox.
Marked(v, w, n) ==
    /\ w.storage_wait = TRUE /\ w.rqt = n
    /\ w.storage_oper = v.storage_oper /\ w.storage_error = v.storage_error
    /\ w.failed = v.failed /\ w.storage_cb = v.storage_cb /\ w.async_pending = v.async_pending
LEMMA MarkedIs ==
    ASSUME NEW v \in Devices, NEW n \in Nat
    PROVE  Marked(v, [v EXCEPT !.storage_wait = TRUE, !.rqt = n], n)
  BY DEF Devices, Marked

\* The request cannot be sent: an asynchronous operation ends, a synchronous one goes on.
LEMMA SendTimeoutHolds ==
    ASSUME StorageHyp, NEW s, NEW cl \in Callers, NEW cd \in Cards, Holds(s, cl, cd),
           cl.at = "send", NEW v, v = [s EXCEPT !.dev.storage_wait = TRUE, !.dev.rqt = cl.op],
           NEW t, t = ReplyCallback(v, "TIMEOUT"), NEW dl \in Callers,
           dl = [cl EXCEPT !.at = IF s.ops[cl.op].kind = "sync" THEN "drain" ELSE "idle"]
    PROVE  Holds(t, dl, cd)
<1> DEFINE n == cl.op
           o == s.ops[n]
           d == s.dma[o.ep]
           p == t.ops[n]
           b == t.dma[p.ep]
<1>0. n # 0
  BY DEF Holds, OthersAreQuiet
<1>1. OperationFacts(s, cl, cd, n, o, d)
  BY <1>0, OperationIs
<1>1a. s \in States /\ s.dev \in Devices /\ n \in Nat /\ n \in 1..Len(s.ops)
  BY <1>1, Zenon DEF OperationFacts
<1>2. /\ v \in States /\ v.ops = s.ops /\ v.dma = s.dma
      /\ v.dev = [s.dev EXCEPT !.storage_wait = TRUE, !.rqt = n]
  BY <1>1a DEF States, Devices
<1>3. /\ v.dev.storage_wait /\ v.dev.rqt = n /\ v.dev.storage_oper = s.dev.storage_oper
      /\ v.dev.storage_error = s.dev.storage_error /\ v.dev.failed = s.dev.failed
      /\ v.dev.storage_cb = s.dev.storage_cb /\ v.dev.async_pending = s.dev.async_pending
  <2>1. Marked(s.dev, [s.dev EXCEPT !.storage_wait = TRUE, !.rqt = n], n)
    BY <1>1a, MarkedIs
  <2> QED
    BY <1>2, <2>1, Zenon DEF Marked
<1>4. Replied(v, t, n, "TIMEOUT")
  <2>1. /\ n \in 1..Len(v.ops) /\ v.dev.storage_cb \in {0, n} /\ "TIMEOUT" \in Errors
        /\ v.dma[v.ops[n].ep].queue # <<>> => v.dma[v.ops[n].ep].queue[1].op = n
        /\ v.dev.async_pending = (v.ops[n].kind = "async" /\ v.dma[v.ops[n].ep].queue # <<>>)
    <3>1. /\ s.dev.storage_cb \in {0, n} /\ (d.queue # <<>> => d.queue[1].op = n)
          /\ s.dev.async_pending = (o.kind = "async" /\ d.queue # <<>>)
      BY <1>1, Zenon DEF OperationFacts, QueueIsCurrent
    <3>2. v.dma[v.ops[n].ep] = d /\ v.ops[n] = o
      BY <1>2
    <3>3. "TIMEOUT" \in Errors
      BY DEF Errors
    <3> HIDE DEF n, o, d
    <3> QED
      BY <1>1a, <1>2, <1>3, <3>1, <3>2, <3>3
  <2> QED
    BY <1>2, <1>3, <2>1, ReplyCallbackIs, Zenon
<1>5. p.kind = o.kind /\ p.ep = o.ep /\ p.size = o.size /\ b = t.dma[o.ep]
  BY <1>2, <1>4 DEF Replied, OnlyOp
<1>6. /\ OnlyOp(s, t, n) /\ p.moved = o.moved /\ OthersSame(s, t, p.ep)
      /\ ~t.dev.storage_wait /\ t.dev.rqt = 0 /\ t.dev.storage_oper = s.dev.storage_oper
      /\ o.kind = "sync" => /\ b = d /\ t.dev.async_pending = s.dev.async_pending
                            /\ t.dev.storage_error = "TIMEOUT" /\ SameResult(v, t, n)
      /\ o.kind # "sync" => Stopped(d, b)
      /\ o.kind = "async" => ~t.dev.async_pending /\ CalledBack(v, t, n, "TIMEOUT")
  <2>1. v.ops[n] = o /\ v.dma[v.ops[n].ep] = d
    BY <1>2
  <2>2. OnlyOp(v, t, n) /\ OthersSame(v, t, o.ep)
    BY <1>4, <2>1 DEF Replied
  <2>3. OnlyOp(s, t, n) /\ OthersSame(s, t, p.ep)
    BY <1>2, <1>5, <2>2, ZenonT(40) DEF OnlyOp, OthersSame
  <2>4. /\ p.moved = o.moved /\ ~t.dev.storage_wait /\ t.dev.rqt = 0
        /\ t.dev.storage_oper = s.dev.storage_oper
    BY <1>3, <1>4, <2>1 DEF Replied
  <2>5. o.kind = "sync" => /\ b = d /\ t.dev.async_pending = s.dev.async_pending
                           /\ t.dev.storage_error = "TIMEOUT" /\ SameResult(v, t, n)
    BY <1>3, <1>4, <1>5, <2>1 DEF Replied
  <2>6. o.kind # "sync" => Stopped(d, b)
    BY <1>4, <1>5, <2>1, Zenon DEF Replied
  <2>7. o.kind = "async" => ~t.dev.async_pending /\ CalledBack(v, t, n, "TIMEOUT")
    BY <1>4, <2>1 DEF Replied
  <2> QED
    BY <2>3, <2>4, <2>5, <2>6, <2>7, Zenon
<1>7. /\ o.kind = "sync" => p.ret = o.ret /\ p.calls = o.calls /\ t.dev.failed = s.dev.failed
                            /\ t.dev.storage_cb = s.dev.storage_cb
      /\ o.kind = "async" =>
             /\ t.dev.storage_cb = 0
             /\ s.dev.storage_cb = 0 => p.ret = o.ret /\ p.calls = o.calls
             /\ s.dev.storage_cb # 0 => /\ t.dev.failed = s.dev.failed /\ p.calls = o.calls + 1
                                        /\ p.ret = "TIMEOUT"
  <2>1. /\ v.ops[n] = s.ops[n] /\ v.dev.storage_cb = s.dev.storage_cb
        /\ v.dev.failed = s.dev.failed
    BY <1>2, <1>3, Zenon
  <2>2. /\ SameResult(v, t, n) => SameResult(s, t, n)
        /\ CalledBack(v, t, n, "TIMEOUT") => CalledBack(s, t, n, "TIMEOUT")
    BY <2>1, Zenon DEF SameResult, CalledBack
  <2>3. /\ o.kind = "sync" => SameResult(s, t, n)
        /\ o.kind = "async" => CalledBack(s, t, n, "TIMEOUT")
    BY <1>6, <2>2, Zenon
  <2> QED
    BY <2>3, Zenon DEF SameResult, CalledBack
<1>8. /\ t.dev.async_pending \in BOOLEAN /\ t.dev.storage_wait \in BOOLEAN
      /\ s.dev.async_pending \in BOOLEAN /\ o.kind \in {"sync", "async"}
  <2>1. t.dev \in Devices
    BY <1>6 DEF OnlyOp, States
  <2> QED
    BY <1>1, <2>1, Zenon DEF OperationFacts, Devices, Operations
<1>9. dl.op = n /\ dl.ret = cl.ret /\ dl.at = IF o.kind = "sync" THEN "drain" ELSE "idle"
  BY DEF Callers
<1> HIDE DEF n, o, d, p, b
<1>10. ThreadIsAt(p, dl)
  BY <1>1, <1>5, <1>7, <1>8, <1>9 DEF OperationFacts, ThreadIsAt
<1>11. QueueIsCurrent(t.dev, b, p, dl)
  <2>1. QueueIsCurrent(s.dev, d, o, cl)
    BY <1>1 DEF OperationFacts
  <2>2. CASE o.kind = "sync"
    <3>1. t.dev.async_pending = (p.kind = "async" /\ b.queue # <<>>)
      BY <1>5, <1>6, <1>8, <2>1, <2>2 DEF QueueIsCurrent
    <3> QED
      BY <1>1, <1>5, <1>6, <1>7, <1>9, <2>1, <2>2, <3>1 DEF QueueIsCurrent, OperationFacts
  <2>3. CASE o.kind = "async"
    <3>1. b.queue = <<>>
      BY <1>6, <2>3 DEF Stopped
    <3>2. t.dev.async_pending = (p.kind = "async" /\ b.queue # <<>>)
      BY <1>6, <1>8, <2>3, <3>1
    <3> QED
      BY <1>5, <1>6, <2>1, <3>1, <3>2 DEF QueueIsCurrent
  <2> QED
    BY <1>8, <2>2, <2>3
<1>12. RequestIsCurrent(t.dev, p, dl)
  BY <1>1, <1>5, <1>6, <1>7, <1>8 DEF OperationFacts, RequestIsCurrent
<1>13. BuffersAreSent(b, dl)
  BY <1>1, <1>6, <1>8, <1>9 DEF OperationFacts, BuffersAreSent, Stopped
<1>14. p.kind = "async" => p.calls = IF p.ret \in {"none", "ASYNC_PENDING"} THEN 0 ELSE 1
  BY <1>1, <1>5, <1>7 DEF OperationFacts, RequestIsCurrent
<1>15. ASSUME ~TimedOut(s, n)
       PROVE  /\ ~t.dev.failed /\ ~b.misordered
              /\ p.ret # "TIMEOUT" => /\ RequestIsOwn(t.dev, p, dl, cd)
                                      /\ BlocksAreCounted(t.dev, b, p, dl, cd)
              /\ p.ret = "SUCCESS" => p.moved = p.size
  <2>1. /\ o.ret = "none" /\ RequestIsOwn(s.dev, o, cl, cd) /\ ~s.dev.failed /\ ~d.misordered
        /\ ~s.dev.storage_wait
    BY <1>1, <1>15 DEF OperationFacts, RequestIsCurrent
  <2>2. o.kind = "async" => s.dev.storage_cb # 0
    BY <1>1, <2>1 DEF RequestIsOwn, OperationFacts
  <2>3. ~t.dev.failed /\ ~b.misordered
    BY <1>6, <1>7, <1>8, <2>1, <2>2 DEF Stopped
  <2>4. p.ret # "TIMEOUT" => o.kind = "sync" /\ p.ret = "none"
    BY <1>7, <1>8, <2>1, <2>2
  <2>5. RequestIsOwn(t.dev, p, dl, cd) \/ p.ret = "TIMEOUT"
    BY <1>5, <1>6, <1>9, <2>1, <2>4 DEF RequestIsOwn
  <2>6. BlocksAreCounted(t.dev, b, p, dl, cd) \/ p.ret = "TIMEOUT"
    BY <1>5, <1>6, <1>9, <2>1, <2>4 DEF BlocksAreCounted
  <2> QED
    BY <2>3, <2>4, <2>5, <2>6
<1>16. t.dev.storage_wait = (t.dev.rqt # 0)
  BY <1>6, <1>8
<1>17. Kept(s, t, dl, cd, n, p, b)
  <2>1. dl.at # "send" /\ ~t.dev.storage_wait
    BY <1>6, <1>9
  <2> QED
    BY <1>6, <1>10, <1>11, <1>12, <1>13, <1>14, <1>15, <1>16, <2>1 DEF Kept
<1> QED
  BY <1>0, <1>9, <1>17, OperationKeeps, Zenon DEF n, p, b

\* The request is sent: it is the first of the firmware's, unless one was given up.
SendsFrom(s, cl, cd, t, dl, dd) ==
    /\ cl.at = "send" /\ t = [s EXCEPT !.dev = [s.dev EXCEPT !.storage_wait = TRUE, !.rqt = cl.op]]
    /\ dl = [cl EXCEPT !.at = IF s.ops[cl.op].kind = "sync" THEN "drain" ELSE "idle"]
    /\ cd.rqts = <<>> => dd.rqts = <<[op |-> cl.op, ep |-> s.ops[cl.op].ep,
                                       size |-> s.ops[cl.op].size]>>
    /\ dd.moved = cd.moved
LEMMA SendRequestHolds ==
    ASSUME StorageHyp, NEW s, NEW cl \in Callers, NEW cd \in Cards, Holds(s, cl, cd),
           NEW t, NEW dl \in Callers, NEW dd \in Cards, SendsFrom(s, cl, cd, t, dl, dd)
    PROVE  Holds(t, dl, dd)
<1> USE DEF SendsFrom
<1> DEFINE n == cl.op
           o == s.ops[n]
           d == s.dma[o.ep]
           p == t.ops[n]
           b == t.dma[p.ep]
<1>0. n # 0
  BY DEF Holds, OthersAreQuiet
<1>1. OperationFacts(s, cl, cd, n, o, d)
  BY <1>0, OperationIs
<1>1a. s \in States /\ s.dev \in Devices /\ n \in Nat /\ n \in 1..Len(s.ops)
  BY <1>1, Zenon DEF OperationFacts
<1>2. /\ t \in States /\ t.ops = s.ops /\ t.dma = s.dma
      /\ t.dev = [s.dev EXCEPT !.storage_wait = TRUE, !.rqt = n]
  BY <1>1a DEF States, Devices
<1>3. /\ t.dev.storage_wait = TRUE /\ t.dev.rqt = n /\ t.dev.storage_oper = s.dev.storage_oper
      /\ t.dev.storage_error = s.dev.storage_error /\ t.dev.failed = s.dev.failed
      /\ t.dev.storage_cb = s.dev.storage_cb /\ t.dev.async_pending = s.dev.async_pending
  <2>1. Marked(s.dev, [s.dev EXCEPT !.storage_wait = TRUE, !.rqt = n], n)
    BY <1>1a, MarkedIs
  <2> QED
    BY <1>2, <2>1, Zenon DEF Marked
<1>4. p = o /\ b = d /\ OnlyOp(s, t, n) /\ OthersSame(s, t, o.ep)
  BY <1>2 DEF OnlyOp, OthersSame
<1>5. dl.op = n /\ dl.ret = cl.ret /\ dl.at = IF o.kind = "sync" THEN "drain" ELSE "idle"
  BY DEF Callers
<1>6. o.kind \in {"sync", "async"}
  BY <1>1, Zenon DEF OperationFacts, Operations
<1>7. cd.rqts = <<>> => dd.rqts = <<[op |-> n, ep |-> o.ep, size |-> o.size]>>
  OBVIOUS
<1>8. ~TimedOut(s, n) => o.ret = "none"
  BY <1>1, Zenon DEF OperationFacts
<1> HIDE DEF n, o, d, p, b
<1>9. ThreadIsAt(o, dl)
  BY <1>1, <1>5, <1>6 DEF OperationFacts, ThreadIsAt
<1>10. QueueIsCurrent(t.dev, d, o, dl)
  BY <1>1, <1>3, <1>5 DEF OperationFacts, QueueIsCurrent
<1>11. RequestIsCurrent(t.dev, o, dl)
  BY <1>1, <1>3, <1>5 DEF OperationFacts, RequestIsCurrent
<1>12. BuffersAreSent(d, dl)
  BY <1>1, <1>5 DEF OperationFacts, BuffersAreSent
<1>13. ASSUME ~TimedOut(s, n)
       PROVE  RequestIsOwn(t.dev, o, dl, dd) /\ BlocksAreCounted(t.dev, d, o, dl, dd)
  <2>1. /\ RequestIsOwn(s.dev, o, cl, cd) /\ BlocksAreCounted(s.dev, d, o, cl, cd)
        /\ ~s.dev.storage_wait
    BY <1>1, <1>8, <1>13 DEF OperationFacts, RequestIsCurrent
  <2>2. cd.rqts = <<>> /\ cd.moved = 0
    BY <2>1 DEF RequestIsOwn
  <2>3. dd.rqts = <<[op |-> n, ep |-> o.ep, size |-> o.size]>> /\ dd.rqts # <<>>
    <3>1. <<[op |-> n, ep |-> o.ep, size |-> o.size]>> # <<>>
      OBVIOUS
    <3> QED
      BY <1>7, <2>2, <3>1, Zenon
  <2>4. RequestIsOwn(t.dev, o, dl, dd)
    BY <1>3, <1>5, <1>6, <2>1, <2>3 DEF RequestIsOwn
  <2>5. BlocksAreCounted(t.dev, d, o, dl, dd)
    BY <1>3, <1>5, <2>1, <2>2 DEF BlocksAreCounted
  <2> QED
    BY <2>4, <2>5
<1>14. t.dev.storage_wait = (t.dev.rqt # 0)
  BY <1>0, <1>3
<1>15. Kept(s, t, dl, dd, n, o, d)
  BY <1>1, <1>3, <1>4, <1>8, <1>9, <1>10, <1>11, <1>12, <1>13, <1>14 DEF Kept, OperationFacts
<1> QED
  <2>1. Kept(s, t, dl, dd, n, p, b)
    BY <1>4, <1>15
  <2> QED
    BY <1>0, <1>5, <2>1, OperationKeeps DEF n, p, b

\* The thread waits for the queue: it changes the endpoint, and gives no block.
LEMMA DrainStepHolds ==
    ASSUME NEW s, NEW cl \in Callers, NEW cd \in Cards, Holds(s, cl, cd),
           cl.at \in {"drain", "sleep"}, NEW o, o = s.ops[cl.op], NEW d, d = s.dma[o.ep],
           NEW t \in States, t.dev = s.dev, t.ops = s.ops, OthersSame(s, t, o.ep),
           NEW b, b = t.dma[o.ep], b.queue = d.queue, b.misordered = d.misordered,
           b.drq => d.drq,
           b.buffer_valid => /\ d.buffer_valid
                             /\ \/ b.in_transit = d.in_transit
                                \/ d.queue = <<>>
                                \/ ~d.in_transit,
           NEW dl \in Callers, dl.op = cl.op, dl.ret = cl.ret, dl.at \in {"sleep", "cancel", "reply"},
           dl.at = "reply" => d.queue = <<>>,
           dl.at = "cancel" => ~b.drq /\ (b.buffer_valid => ~d.in_transit)
    PROVE  Holds(t, dl, cd)
<1> DEFINE n == cl.op
<1>0. n # 0
  BY Zenon DEF Holds, OthersAreQuiet
<1>1. OperationFacts(s, cl, cd, n, o, d)
  BY <1>0, OperationIs, Zenon
<1>2. OnlyOp(s, t, n)
  BY Zenon DEF OnlyOp
<1>3. o.kind = "sync" /\ o.ret = "none"
  BY <1>1, Zenon DEF OperationFacts, ThreadIsAt
<1> HIDE DEF n
<1>4. ThreadIsAt(o, dl)
  BY <1>3, Zenon DEF ThreadIsAt
<1>5. QueueIsCurrent(t.dev, b, o, dl)
  BY <1>1, <1>3, Zenon DEF OperationFacts, QueueIsCurrent, n
<1>6. RequestIsCurrent(t.dev, o, dl)
  BY <1>1, <1>3, Zenon DEF OperationFacts, RequestIsCurrent, n
<1>7. BuffersAreSent(b, dl)
  BY <1>1, Zenon DEF OperationFacts, BuffersAreSent
<1>8. ASSUME ~TimedOut(s, n)
      PROVE  /\ ~t.dev.failed /\ ~b.misordered
             /\ RequestIsOwn(t.dev, o, dl, cd) /\ BlocksAreCounted(t.dev, b, o, dl, cd)
  <2>1. /\ RequestIsOwn(s.dev, o, cl, cd) /\ BlocksAreCounted(s.dev, d, o, cl, cd)
        /\ ~s.dev.failed /\ ~d.misordered
    BY <1>1, <1>3, <1>8, Zenon DEF OperationFacts
  <2>2. RequestIsOwn(t.dev, o, dl, cd)
    BY <1>3, <2>1, Zenon DEF RequestIsOwn
  <2>3. BlocksAreCounted(t.dev, b, o, dl, cd)
    BY <1>3, <2>1, Zenon DEF BlocksAreCounted
  <2> QED
    BY <2>1, <2>2, <2>3, Zenon
<1>9. Kept(s, t, dl, cd, n, o, b)
  BY <1>1, <1>2, <1>3, <1>4, <1>5, <1>6, <1>7, <1>8, Zenon DEF Kept, OperationFacts
<1>10. Kept(s, t, dl, cd, n, t.ops[n], t.dma[t.ops[n].ep])
  BY <1>9, Zenon DEF n
<1> QED
  BY <1>0, <1>10, OperationKeeps, Zenon DEF n

\* The thread empties the queue.
LEMMA CancelHolds ==
    ASSUME StorageHyp, NEW s, NEW cl \in Callers, NEW cd \in Cards, Holds(s, cl, cd),
           cl.at = "cancel", NEW v, v = Emptied(s, s.ops[cl.op].ep, "TIMEOUT"),
           NEW t, t = [v EXCEPT !.dma[s.ops[cl.op].ep].enabled = TRUE],
           NEW dl \in Callers, dl = [cl EXCEPT !.at = "reply", !.ret = "TIMEOUT"]
    PROVE  Holds(t, dl, cd)
<1> DEFINE n == cl.op
           o == s.ops[n]
           d == s.dma[o.ep]
           p == t.ops[n]
           b == t.dma[p.ep]
<1>0. n # 0
  BY Zenon DEF Holds, OthersAreQuiet
<1>1. OperationFacts(s, cl, cd, n, o, d)
  BY <1>0, OperationIs, Zenon
<1>2. /\ s \in States /\ s.dev \in Devices /\ n \in Nat /\ n \in 1..Len(s.ops) /\ o.ep \in Endpoints
      /\ s.dev.storage_cb \in {0, n} /\ (d.queue # <<>> => d.queue[1].op = n)
      /\ o.kind = "sync" /\ o.ret = "none"
  BY <1>1, Zenon DEF OperationFacts, ThreadIsAt
<1>3. /\ v.dma[o.ep].queue = <<>> /\ SameBuffers(d, v.dma[o.ep]) /\ OthersSame(s, v, o.ep)
      /\ d.queue = <<>> => v \in States /\ v.dev = s.dev /\ v.ops = s.ops
      /\ d.queue # <<>> => DmaEnded(s, v, n, "TIMEOUT") /\ v.ops[n].moved = o.moved
  <2>1. "TIMEOUT" \in Errors
    BY Zenon DEF Errors
  <2>2. EmptiedAre(s, Emptied(s, o.ep, "TIMEOUT"), n, o.ep, "TIMEOUT")
    BY <1>2, <2>1, EmptiedIs, Zenon
  <2> QED
    BY <2>2, Zenon DEF EmptiedAre
<1>4. /\ OnlyOp(s, v, n) /\ SameMarks(s, v) /\ SameResult(s, v, n)
      /\ v.ops[n].moved = o.moved /\ v.dev.async_pending = s.dev.async_pending
  <2>1. CASE d.queue = <<>>
    BY <1>2, <1>3, <2>1, Zenon DEF OnlyOp, SameMarks, SameResult
  <2>2. CASE d.queue # <<>>
    BY <1>2, <1>3, <2>2, Zenon DEF DmaEnded
  <2> QED
    BY <2>1, <2>2, Zenon
<1>5. /\ t \in States /\ t.dev = v.dev /\ t.ops = v.ops /\ OthersSame(v, t, o.ep)
      /\ t.dma[o.ep].queue = <<>> /\ SameBuffers(v.dma[o.ep], t.dma[o.ep])
  <2> DEFINE c == [v.dma[o.ep] EXCEPT !.enabled = TRUE]
  <2>1. v \in States /\ v.dma[o.ep] \in DmaEndpoints
    BY <1>2, <1>4, Zenon DEF OnlyOp, States
  <2>2. c \in DmaEndpoints /\ c.queue = v.dma[o.ep].queue /\ SameBuffers(v.dma[o.ep], c)
    BY <2>1, Zenon DEF DmaEndpoints, SameBuffers
  <2>3. t = [v EXCEPT !.dma[o.ep] = c]
    BY <1>2, <2>1, Zenon DEF States
  <2> HIDE DEF c, o
  <2>4. t \in States /\ t.dev = v.dev /\ t.ops = v.ops /\ OthersSame(v, t, o.ep) /\ t.dma[o.ep] = c
    <3>1. v \in States /\ c \in DmaEndpoints
      BY <2>1, <2>2, Zenon
    <3>2. v.dev \in Devices /\ v.dma \in [Endpoints -> DmaEndpoints] /\ v.ops \in Seq(Operations)
          /\ DOMAIN v = {"dev", "dma", "ops"}
      BY <3>1, Zenon DEF States
    <3>3. t.dev = v.dev /\ t.ops = v.ops /\ t.dma = [v.dma EXCEPT ![o.ep] = c]
      BY <2>3, <3>2, Zenon
    <3>4. t \in States
      <4>1. t.dma \in [Endpoints -> DmaEndpoints]
        BY <3>1, <3>2, <3>3, Zenon
      <4>2. t = [v EXCEPT !.dma = t.dma]
        BY <2>3, <3>2, <3>3, Zenon
      <4> QED
        BY <3>2, <4>1, <4>2, Zenon DEF States
    <3> QED
      BY <1>2, <3>2, <3>3, <3>4, Zenon DEF OthersSame
  <2> QED
    BY <1>3, <2>2, <2>4, Zenon
<1>6. /\ OnlyOp(s, t, n) /\ OthersSame(s, t, o.ep)
      /\ p.kind = o.kind /\ p.ep = o.ep /\ p.size = o.size /\ p.ret = o.ret /\ p.calls = o.calls
      /\ p.moved = o.moved /\ b = t.dma[o.ep] /\ b.queue = <<>>
  BY <1>3, <1>4, <1>5, ZenonT(40) DEF OnlyOp, OthersSame, SameResult
<1>7. /\ b.drq = d.drq /\ b.buffer_valid = d.buffer_valid /\ b.misordered = d.misordered
      /\ b.in_transit = d.in_transit
  BY <1>3, <1>5, <1>6, Zenon DEF SameBuffers
<1>8. /\ t.dev.storage_wait = s.dev.storage_wait /\ t.dev.rqt = s.dev.rqt
      /\ t.dev.storage_oper = s.dev.storage_oper /\ t.dev.storage_cb = s.dev.storage_cb
      /\ t.dev.failed = s.dev.failed /\ t.dev.async_pending = s.dev.async_pending
  BY <1>4, <1>5, Zenon DEF SameMarks, SameResult
<1>9. dl.op = n /\ dl.ret = "TIMEOUT" /\ dl.at = "reply"
  BY Zenon DEF Callers
<1> HIDE DEF n, o, d, p, b
<1>10. ThreadIsAt(p, dl)
  BY <1>2, <1>6, Zenon DEF ThreadIsAt
<1>11. QueueIsCurrent(t.dev, b, p, dl)
  BY <1>1, <1>2, <1>6, <1>8, Zenon DEF OperationFacts, QueueIsCurrent
<1>12. RequestIsCurrent(t.dev, p, dl)
  <2>1. RequestIsCurrent(s.dev, o, cl) /\ n = cl.op
    BY <1>1, Zenon DEF OperationFacts
  <2>2. s.dev.storage_cb = 0
    BY <1>2, <2>1, Zenon DEF RequestIsCurrent
  <2>3. s.dev.storage_wait => s.dev.rqt = n
    BY <2>1, Zenon DEF RequestIsCurrent
  <2>4. dl.at # "send"
    BY <1>9, Zenon
  <2> QED
    BY <1>8, <1>9, <2>2, <2>3, <2>4, Zenon DEF RequestIsCurrent
<1>13. BuffersAreSent(b, dl)
  BY <1>1, <1>7, Zenon DEF OperationFacts, BuffersAreSent
<1>14. ASSUME ~TimedOut(s, n)
       PROVE  /\ ~t.dev.failed /\ ~b.misordered
              /\ RequestIsOwn(t.dev, p, dl, cd) /\ BlocksAreCounted(t.dev, b, p, dl, cd)
  <2>1. /\ RequestIsOwn(s.dev, o, cl, cd) /\ ~s.dev.failed /\ ~d.misordered
    BY <1>1, <1>2, <1>14, Zenon DEF OperationFacts
  <2>2. RequestIsOwn(t.dev, p, dl, cd)
    BY <1>2, <1>6, <1>8, <1>9, <2>1, Zenon DEF RequestIsOwn, n
  <2>3. BlocksAreCounted(t.dev, b, p, dl, cd)
    BY <1>2, <1>6, <1>9, Zenon DEF BlocksAreCounted
  <2> QED
    BY <1>7, <1>8, <2>1, <2>2, <2>3, Zenon
<1>15. Kept(s, t, dl, cd, n, p, b)
  BY <1>1, <1>2, <1>6, <1>8, <1>10, <1>11, <1>12, <1>13, <1>14, Zenon DEF Kept, OperationFacts
<1> QED
  BY <1>0, <1>9, <1>15, OperationKeeps, Zenon DEF n, p, b

\* The thread ends the operation, by the reply or without it.
LEMMA EndHolds ==
    ASSUME StorageHyp, NEW s, NEW cl \in Callers, NEW cd \in Cards, Holds(s, cl, cd),
           cl.at = "reply", NEW ret \in Errors,
           NEW v \in Devices, v.async_pending = s.dev.async_pending,
           v.storage_oper = s.dev.storage_oper, v.storage_cb = s.dev.storage_cb,
           v.failed = s.dev.failed, ~v.storage_wait, v.rqt = 0,
           s.dev.storage_wait => ret = "TIMEOUT",
           ret = "SUCCESS" => cl.ret = "SUCCESS" /\ s.dev.storage_error = "SUCCESS",
           NEW t, t = [s EXCEPT !.dev = v, !.ops[cl.op].ret = ret],
           NEW dl \in Callers, dl = [cl EXCEPT !.at = "idle"]
    PROVE  Holds(t, dl, cd)
<1> DEFINE n == cl.op
           o == s.ops[n]
           d == s.dma[o.ep]
           p == t.ops[n]
           b == t.dma[p.ep]
<1>0. n # 0
  BY DEF Holds, OthersAreQuiet
<1>1. OperationFacts(s, cl, cd, n, o, d)
  BY <1>0, OperationIs
<1>2. /\ s \in States /\ n \in Nat /\ n \in 1..Len(s.ops) /\ o \in Operations
      /\ o.kind = "sync" /\ o.ret = "none"
  BY <1>1, Zenon DEF OperationFacts, ThreadIsAt
<1>3. /\ t \in States /\ t.dev = v /\ t.dma = s.dma /\ OnlyOp(s, t, n)
      /\ p.ret = ret /\ p.calls = o.calls /\ p.moved = o.moved
  <2> DEFINE x == [o EXCEPT !.ret = ret]
             u == [s EXCEPT !.dev = v]
  <2>1. /\ x \in Operations /\ x.ret = ret /\ x.calls = o.calls /\ x.moved = o.moved
        /\ x.kind = o.kind /\ x.ep = o.ep /\ x.size = o.size
    <3>1. ret \in Rets
      BY DEF Rets
    <3> QED
      BY <1>2, <3>1 DEF Operations
  <2>2. u \in States /\ u.dev = v /\ u.dma = s.dma /\ u.ops = s.ops
    BY <1>2 DEF States
  <2>3. t = [u EXCEPT !.ops[n] = x]
    BY <1>2 DEF States
  <2> HIDE DEF x, u, o, n
  <2>4. /\ t \in States /\ t.dev = u.dev /\ t.dma = u.dma /\ Len(t.ops) = Len(u.ops)
        /\ t.ops[n] = x /\ \A i \in 1..Len(u.ops) : i # n => t.ops[i] = u.ops[i]
    <3>1. n \in 1..Len(u.ops)
      BY <1>2, <2>2
    <3>2. OpSet(u, [u EXCEPT !.ops[n] = x], n, x)
      BY <2>1, <2>2, <3>1, OpChanged
    <3> QED
      BY <2>3, <3>2 DEF OpSet
  <2> QED
    BY <2>1, <2>2, <2>4 DEF OnlyOp, o
<1>4. /\ p.kind = o.kind /\ p.ep = o.ep /\ p.size = o.size /\ b = d /\ OthersSame(s, t, p.ep)
  BY <1>3 DEF OnlyOp, OthersSame
<1>5. dl.op = n /\ dl.at = "idle"
  BY DEF Callers
<1> HIDE DEF n, o, d, p, b
<1>6. ThreadIsAt(p, dl)
  BY <1>5 DEF ThreadIsAt
<1>7. QueueIsCurrent(t.dev, b, p, dl)
  BY <1>1, <1>2, <1>3, <1>4 DEF OperationFacts, QueueIsCurrent
<1>8. RequestIsCurrent(t.dev, p, dl)
  BY <1>1, <1>2, <1>3, <1>4, <1>5 DEF OperationFacts, RequestIsCurrent
<1>9. BuffersAreSent(b, dl)
  BY <1>1, <1>4, <1>5 DEF OperationFacts, BuffersAreSent
<1>10. ASSUME ~TimedOut(s, n)
       PROVE  /\ ~t.dev.failed /\ ~b.misordered
              /\ p.ret # "TIMEOUT" => /\ RequestIsOwn(t.dev, p, dl, cd)
                                      /\ BlocksAreCounted(t.dev, b, p, dl, cd)
              /\ p.ret = "SUCCESS" => p.moved = p.size
  <2>1. /\ RequestIsOwn(s.dev, o, cl, cd) /\ BlocksAreCounted(s.dev, d, o, cl, cd)
        /\ ~s.dev.failed /\ ~d.misordered
    BY <1>1, <1>2, <1>10 DEF OperationFacts
  <2>2. p.ret # "TIMEOUT" => RequestIsOwn(t.dev, p, dl, cd)
    <3> SUFFICES ASSUME p.ret # "TIMEOUT"
                 PROVE  RequestIsOwn(t.dev, p, dl, cd)
      OBVIOUS
    <3>1. ~s.dev.storage_wait /\ p.ret # "none"
      BY <1>3 DEF Errors, StorageHyp
    <3> QED
      BY <1>2, <1>3, <1>4, <2>1, <3>1 DEF RequestIsOwn
  <2>3. BlocksAreCounted(t.dev, b, p, dl, cd)
    BY <1>3, <1>5 DEF BlocksAreCounted
  <2>4. p.ret = "SUCCESS" => p.moved = p.size
    BY <1>2, <1>3, <1>4, <2>1 DEF BlocksAreCounted
  <2> QED
    BY <1>3, <1>4, <2>1, <2>2, <2>3, <2>4
<1>11. t.dev.storage_wait = (t.dev.rqt # 0)
  <2>1. v.storage_wait \in BOOLEAN
    BY DEF Devices
  <2> QED
    BY <1>3, <2>1
<1>12. Kept(s, t, dl, cd, n, p, b)
  BY <1>2, <1>3, <1>4, <1>5, <1>6, <1>7, <1>8, <1>9, <1>10, <1>11 DEF Kept
<1> QED
  BY <1>0, <1>5, <1>12, OperationKeeps, Zenon DEF n, p, b

\* The firmware asks for the blocks of its request.
LEMMA DmaStartHolds ==
    ASSUME NEW s, NEW cl \in Callers, NEW cd \in Cards, Holds(s, cl, cd),
           ~s.dev.failed, cl.at # "cancel", cd.rqts # <<>>, ~cd.asked,
           NEW e, e = s.dev.storage_oper, NEW v, v = [s EXCEPT !.dma[e].running = FALSE],
           NEW t, t = SendNextDma(v, e), NEW dd \in Cards, dd = [cd EXCEPT !.asked = TRUE]
    PROVE  Holds(t, cl, dd)
<1> DEFINE n == cl.op
           o == s.ops[n]
           d == s.dma[o.ep]
           p == t.ops[n]
           b == t.dma[p.ep]
<1>0. n # 0
  <2>1. \A j \in 1..(0 - 1) : FALSE
    OBVIOUS
  <2>2. ~TimedOut(s, 0)
    BY <2>1 DEF TimedOut
  <2> QED
    BY <2>2 DEF Holds, IsInOrder
<1>1. OperationFacts(s, cl, cd, n, o, d)
  BY <1>0, OperationIs
<1>2. s \in States /\ n \in 1..Len(s.ops) /\ o.ep \in Endpoints /\ o.ep = e
  BY <1>1, Zenon DEF OperationFacts, QueueIsCurrent
<1>3. /\ v \in States /\ v.dev = s.dev /\ v.ops = s.ops /\ OthersSame(s, v, e)
      /\ v.dma[e].queue = d.queue /\ SameBuffers(d, v.dma[e])
  <2> DEFINE c == [d EXCEPT !.running = FALSE]
  <2>1. d \in DmaEndpoints
    BY <1>1, Zenon DEF OperationFacts
  <2>2. c \in DmaEndpoints /\ c.queue = d.queue /\ SameBuffers(d, c)
    BY <2>1, Zenon DEF DmaEndpoints, SameBuffers
  <2>3. v = [s EXCEPT !.dma[e] = c]
    BY <1>2 DEF States
  <2> HIDE DEF c, o
  <2>4. v \in States /\ v.dev = s.dev /\ v.ops = s.ops /\ OthersSame(s, v, e) /\ v.dma[e] = c
    BY <1>2, <2>2, <2>3 DEF States, OthersSame
  <2> QED
    BY <2>2, <2>4, Zenon
<1>4. NextSent(v, t, e)
  BY <1>2, <1>3, SendNextDmaIs
<1>5. /\ p = o /\ b = t.dma[e] /\ t.dev = s.dev /\ OnlyOp(s, t, n) /\ OthersSame(s, t, o.ep)
      /\ b.queue = d.queue
  <2>1. t \in States /\ t.dev = s.dev /\ t.ops = s.ops /\ OthersSame(v, t, e)
    BY <1>3, <1>4, Zenon DEF NextSent
  <2>2. p = o /\ b = t.dma[e]
    BY <1>2, <2>1, Zenon
  <2>3. OthersSame(s, t, o.ep)
    BY <1>2, <1>3, <2>1, Zenon DEF OthersSame
  <2>4. t.dma[e].queue = d.queue
    BY <1>3, <1>4, Zenon DEF NextSent, BufferSent
  <2> QED
    BY <2>1, <2>2, <2>3, <2>4, Zenon DEF OnlyOp
<1>6. BufferSent(d, b)
  <2>1. BufferSent(v.dma[e], b)
    BY <1>4, <1>5, Zenon DEF NextSent
  <2> HIDE DEF d, b
  <2> QED
    BY <1>3, <2>1 DEF BufferSent, SameBuffers
<1>7. dd.rqts = cd.rqts /\ dd.moved = cd.moved /\ dd.asked
  BY DEF Cards
<1> HIDE DEF n, o, d, p, b
<1>8. QueueIsCurrent(t.dev, b, o, cl)
  BY <1>1, <1>5, Zenon DEF OperationFacts, QueueIsCurrent
<1>9. BuffersAreSent(b, cl)
  BY <1>1, <1>5, <1>6, Zenon DEF OperationFacts, BuffersAreSent, BufferSent
<1>10. ASSUME ~TimedOut(s, n)
       PROVE  /\ ~t.dev.failed /\ ~b.misordered
              /\ o.ret # "TIMEOUT" => /\ RequestIsOwn(t.dev, o, cl, dd)
                                      /\ BlocksAreCounted(t.dev, b, o, cl, dd)
  <2>1. ~s.dev.failed /\ ~d.misordered
    BY <1>1, <1>10 DEF OperationFacts
  <2>2. ASSUME o.ret # "TIMEOUT"
        PROVE  /\ ~d.buffer_valid /\ RequestIsOwn(t.dev, o, cl, dd)
               /\ BlocksAreCounted(t.dev, b, o, cl, dd)
    <3>1. RequestIsOwn(s.dev, o, cl, cd) /\ BlocksAreCounted(s.dev, d, o, cl, cd)
      BY <1>1, <1>10, <2>2 DEF OperationFacts
    <3>2. s.dev.storage_wait
      BY <3>1 DEF RequestIsOwn
    <3>3. ~d.buffer_valid
      BY <1>1, <3>1, <3>2 DEF BlocksAreCounted, OperationFacts, BuffersAreSent
    <3>4. RequestIsOwn(t.dev, o, cl, dd)
      BY <1>5, <1>7, <3>1 DEF RequestIsOwn
    <3>5. cl.at # "send"
      BY <1>1, <3>2 DEF OperationFacts, RequestIsCurrent
    <3>6. BlocksAreCounted(t.dev, b, o, cl, dd)
      BY <1>5, <1>7, <3>1, <3>2, <3>5, Zenon DEF BlocksAreCounted
    <3> QED
      BY <3>3, <3>4, <3>6
  <2>3. d.queue # <<>> => o.ret # "TIMEOUT"
    BY <1>1 DEF OperationFacts, QueueIsCurrent
  <2>4. ~b.misordered
    BY <1>6, <2>1, <2>2, <2>3, Zenon DEF BufferSent
  <2> QED
    BY <1>5, <2>1, <2>2, <2>4
<1>11. Kept(s, t, cl, dd, n, o, b)
  BY <1>1, <1>5, <1>8, <1>9, <1>10, Zenon DEF Kept, OperationFacts
<1>12. Kept(s, t, cl, dd, n, p, b)
  BY <1>5, <1>11
<1> QED
  BY <1>0, <1>12, OperationKeeps, Zenon DEF n, p, b

\* A block has moved.
LEMMA DrqHolds ==
    ASSUME StorageHyp, NEW s, NEW cl \in Callers, NEW cd \in Cards, Holds(s, cl, cd),
           ~s.dev.failed, cd.rqts # <<>>, cd.asked,
           NEW rqt, rqt = Head(cd.rqts), s.dma[rqt.ep].drq,
           NEW t, t = Completed(s, rqt.ep, rqt.op),
           NEW dd \in Cards, dd = [cd EXCEPT !.moved = @ + 1]
    PROVE  Holds(t, cl, dd)
<1> DEFINE n == cl.op
           o == s.ops[n]
           e == rqt.ep
           d == s.dma[e]
           p == t.ops[n]
           b == t.dma[p.ep]
<1>0. e \in Endpoints /\ n # 0 /\ o.ep = e
  <2>1. rqt \in Requests
    BY DEF Cards
  <2>2. e \in Endpoints
    BY <2>1 DEF Requests
  <2> QED
    BY <2>2 DEF Holds, OthersAreQuiet, OpOf, AtRest
<1>1. OperationFacts(s, cl, cd, n, o, d)
  <2>1. OperationFacts(s, cl, cd, n, o, s.dma[o.ep])
    BY <1>0, OperationIs
  <2> QED
    BY <1>0, <2>1
<1>2. /\ s \in States /\ n \in 1..Len(s.ops) /\ n \in Nat /\ s.dev.storage_cb \in {0, n}
      /\ o \in Operations /\ o.kind \in {"sync", "async"} /\ o.moved \in Nat /\ o.size \in Nat
      /\ d \in DmaEndpoints /\ cd.moved \in Nat
  BY <1>1, Zenon DEF OperationFacts, Operations, Cards
<1>3. /\ o.ret = "none" /\ Len(d.queue) = 1 /\ d.queue[1].op = n
      /\ d.queue[1].size = o.size /\ d.queue[1].offset < o.size /\ d.queue[1].offset \in Nat
      /\ d.queue # <<>>
  <2>1. d.queue # <<>>
    BY <1>1 DEF OperationFacts, BuffersAreSent
  <2>2. /\ o.ret = "none" /\ Len(d.queue) = 1 /\ d.queue[1].op = n
        /\ d.queue[1].size = o.size /\ d.queue[1].offset < o.size
    BY <1>1, <2>1, Zenon DEF OperationFacts, QueueIsCurrent
  <2>3. d.queue \in Seq(Entries)
    BY <1>2 DEF DmaEndpoints
  <2>4. d.queue[1] \in Entries
    BY <2>2, <2>3
  <2> QED
    BY <2>1, <2>2, <2>4, Zenon DEF Entries
<1> DEFINE last == d.queue[1].offset + 1 = o.size
           k == IF n = rqt.op THEN 1 ELSE 0
<1>4. /\ OthersSame(s, t, e) /\ b = t.dma[e] /\ t.dma[e].misordered = d.misordered
      /\ p.moved = o.moved + k /\ OnlyOp(s, t, n)
      /\ p.kind = o.kind /\ p.ep = o.ep /\ p.size = o.size
      /\ last => /\ DmaEnded(s, t, n, "SUCCESS") /\ b.queue = <<>> /\ ~b.drq /\ ~b.buffer_valid
      /\ ~last => /\ t.dev = s.dev /\ SameResult(s, t, n) /\ Len(b.queue) = 1
                  /\ b.queue[1].op = n /\ b.queue[1].size = o.size
                  /\ b.queue[1].offset = d.queue[1].offset + 1
                  /\ b.drq /\ b.in_transit /\ b.buffer_valid
  <2> HIDE DEF o, d, n
  <2>1. BlockDone(s, t, n, e, rqt.op, s.dma[e], t.dma[e]) /\ d = s.dma[e]
    BY <1>0, <1>2, <1>3, CompletedIs, Zenon DEF d
  <2>2. OnlyOp(s, t, n) /\ d.queue[1].size = o.size /\ p.moved = o.moved + k
    BY <1>3, <2>1, Zenon DEF BlockDone, DmaEnded, o
  <2>3. p.kind = o.kind /\ p.ep = o.ep /\ p.size = o.size /\ b = t.dma[e]
    BY <1>0, <2>2, Zenon DEF OnlyOp, o
  <2> HIDE DEF b, p
  <2> QED
    BY <2>1, <2>2, <2>3, Zenon DEF BlockDone
<1>20. ~last => b.queue # <<>>
  <2>1. ~last => Len(b.queue) = 1
    BY <1>4, Zenon
  <2> HIDE DEF b, last
  <2>2. Len(<<>>) # 1
    OBVIOUS
  <2> QED
    BY <2>1, <2>2
<1>21. ~last => d.queue[1].offset + 1 < o.size
  <2> HIDE DEF d, o
  <2> QED
    BY <1>2, <1>3
<1> DEFINE v == t.dev
           u == s.dev
<1>5. /\ v.storage_wait = u.storage_wait /\ v.rqt = u.rqt /\ v.storage_oper = u.storage_oper
      /\ v \in Devices /\ u \in Devices
  <2>1. v \in Devices /\ u \in Devices
    BY <1>2, <1>4, Zenon DEF OnlyOp, States
  <2> QED
    BY <1>4, <2>1, Zenon DEF DmaEnded, SameMarks
<1>6. last /\ o.kind = "sync" => /\ v.async_pending = u.async_pending /\ v.storage_error = "SUCCESS"
                                 /\ v.storage_cb = u.storage_cb /\ v.failed = u.failed
                                 /\ p.ret = o.ret /\ p.calls = o.calls
  BY <1>4, Zenon DEF DmaEnded, SameResult
<1>7. last /\ o.kind = "async" => v.async_pending = FALSE
  <2>1. v.async_pending \in BOOLEAN
    BY <1>5 DEF Devices
  <2> QED
    BY <1>4, <2>1, Zenon DEF DmaEnded
<1>8. last /\ o.kind = "async" /\ u.storage_wait =>
          /\ v.storage_error = "SUCCESS" /\ v.storage_cb = u.storage_cb /\ v.failed = u.failed
          /\ p.ret = o.ret /\ p.calls = o.calls
  BY <1>4, Zenon DEF DmaEnded, SameResult
<1>9. last /\ o.kind = "async" /\ ~u.storage_wait =>
          /\ v.storage_cb = 0
          /\ u.storage_cb = 0 => p.ret = o.ret /\ p.calls = o.calls
          /\ u.storage_cb # 0 => /\ v.failed = u.failed /\ p.calls = o.calls + 1
                                 /\ p.ret = u.storage_error
  BY <1>4, Zenon DEF DmaEnded, CalledBack, Worst
<1>10. ~last => v = u /\ p.ret = o.ret /\ p.calls = o.calls
  BY <1>4, Zenon DEF SameResult
<1>11. dd.rqts = cd.rqts /\ dd.moved = cd.moved + 1 /\ dd.asked
  BY DEF Cards
<1>12. k = 1 \/ k = 0
  OBVIOUS
<1> HIDE DEF n, o, d, p, b, last, k, v, u
<1>13. ThreadIsAt(p, cl)
  BY <1>1, <1>2, <1>4, <1>6, <1>10, Zenon DEF OperationFacts, ThreadIsAt
<1>14. QueueIsCurrent(v, b, p, cl)
  <2>1. QueueIsCurrent(u, d, o, cl) /\ n = cl.op
    BY <1>1 DEF OperationFacts, u, n
  <2>2. CASE last
    <3>1. v.async_pending = (p.kind = "async" /\ b.queue # <<>>)
      <4>1. CASE o.kind = "sync"
        BY <1>3, <1>4, <1>6, <2>1, <2>2, <4>1, Zenon DEF QueueIsCurrent
      <4>2. CASE o.kind = "async"
        BY <1>4, <1>7, <2>2, <4>2, Zenon
      <4> QED
        BY <1>2, <4>1, <4>2
    <3> QED
      BY <1>4, <1>5, <2>1, <2>2, <3>1, Zenon DEF QueueIsCurrent
  <2>3. CASE ~last
    <3>1. b.queue # <<>>
      BY <1>20, <2>3
    <3>2. v.async_pending = (p.kind = "async" /\ b.queue # <<>>)
      BY <1>3, <1>4, <1>10, <2>1, <2>3, <3>1, Zenon DEF QueueIsCurrent
    <3>3. b.queue[1].offset < p.size
      BY <1>4, <1>21, <2>3, Zenon
    <3> QED
      BY <1>3, <1>4, <1>5, <1>10, <2>1, <2>3, <3>2, <3>3, Zenon DEF QueueIsCurrent
  <2> QED
    BY <2>2, <2>3
<1>15. RequestIsCurrent(v, p, cl)
  <2>1. RequestIsCurrent(u, o, cl) /\ n = cl.op
    BY <1>1 DEF OperationFacts, u, n
  <2>2. CASE ~last
    BY <1>4, <1>10, <2>1, <2>2, Zenon DEF RequestIsCurrent
  <2>3. CASE last /\ o.kind = "sync"
    BY <1>4, <1>5, <1>6, <2>1, <2>3, Zenon DEF RequestIsCurrent
  <2>4. CASE last /\ o.kind = "async" /\ u.storage_wait
    BY <1>4, <1>5, <1>8, <2>1, <2>4, Zenon DEF RequestIsCurrent
  <2>5. CASE last /\ o.kind = "async" /\ ~u.storage_wait
    BY <1>4, <1>5, <1>9, <2>1, <2>5, Zenon DEF RequestIsCurrent
  <2> QED
    BY <1>2, <2>2, <2>3, <2>4, <2>5
<1>16. BuffersAreSent(b, cl)
  <2>1. BuffersAreSent(d, cl) /\ cl.at # "cancel"
    BY <1>1 DEF OperationFacts, BuffersAreSent, d
  <2>2. CASE last
    BY <1>4, <2>2, Zenon DEF BuffersAreSent
  <2>3. CASE ~last
    BY <1>4, <1>20, <2>1, <2>3, Zenon DEF BuffersAreSent
  <2> QED
    BY <2>2, <2>3
<1>17. p.kind = "async" => p.calls = IF p.ret \in {"none", "ASYNC_PENDING"} THEN 0 ELSE 1
  <2>1. u.storage_error \in Errors
    BY <1>5 DEF Devices
  <2>2. u.storage_error \notin {"none", "ASYNC_PENDING"}
    BY <2>1 DEF StorageHyp, Errors
  <2>3. o.kind = "async" => o.calls = 0
    BY <1>1, <1>3 DEF OperationFacts
  <2>4. CASE p.ret = o.ret /\ p.calls = o.calls
    BY <1>3, <1>4, <2>3, <2>4, Zenon
  <2>5. CASE last /\ o.kind = "async" /\ ~u.storage_wait /\ u.storage_cb # 0
    <3>1. p.ret = u.storage_error /\ p.calls = o.calls + 1
      BY <1>9, <2>5
    <3>2. o.calls = 0
      BY <2>3, <2>5
    <3>3. p.calls = 1
      BY <3>1, <3>2
    <3> QED
      BY <2>2, <3>1, <3>3
  <2> QED
    BY <1>2, <1>4, <1>6, <1>8, <1>9, <1>10, <2>4, <2>5, Zenon
<1>18. ASSUME ~TimedOut(s, n)
       PROVE  /\ ~v.failed /\ ~b.misordered /\ p.ret = "none"
              /\ RequestIsOwn(v, p, cl, dd) /\ BlocksAreCounted(v, b, p, cl, dd)
  <2>1. /\ ~u.failed /\ ~d.misordered /\ RequestIsOwn(u, o, cl, cd)
        /\ BlocksAreCounted(u, d, o, cl, cd) /\ n = cl.op
    BY <1>1, <1>3, <1>18 DEF OperationFacts, u, n
  <2>2. u.storage_wait /\ cd.rqts = <<[op |-> n, ep |-> o.ep, size |-> o.size]>>
    BY <2>1 DEF RequestIsOwn
  <2>3. rqt.op = n /\ k = 1
    BY <2>2 DEF k
  <2>4. /\ cl.at # "send" /\ d.queue[1].offset = cd.moved /\ o.moved = cd.moved
    BY <1>1, <1>3, <2>1, <2>2 DEF OperationFacts, RequestIsCurrent, BlocksAreCounted, u
  <2>5. p.ret = "none" /\ ~v.failed /\ v.storage_cb = u.storage_cb
    BY <1>2, <1>3, <1>6, <1>8, <1>10, <2>1, <2>2
  <2>6. RequestIsOwn(v, p, cl, dd)
    <3>1. dd.rqts = IF v.storage_wait THEN <<[op |-> cl.op, ep |-> p.ep, size |-> p.size]>> ELSE <<>>
      BY <1>4, <1>5, <1>11, <2>1, <2>2
    <3>2. p.kind = "sync" => cl.at # "idle"
      BY <1>3, <1>4, <2>1, Zenon DEF RequestIsOwn
    <3>3. p.kind = "async" => v.storage_cb = cl.op /\ v.storage_wait
      BY <1>3, <1>4, <1>5, <2>1, <2>2, <2>5 DEF RequestIsOwn
    <3>4. dd.rqts # <<>>
      BY <1>11
    <3> QED
      BY <3>1, <3>2, <3>3, <3>4 DEF RequestIsOwn
  <2>7. p.moved = dd.moved
    BY <1>4, <1>11, <2>3, <2>4, Zenon
  <2>8. BlocksAreCounted(v, b, p, cl, dd)
    <3>1. CASE last
      <4>1. p.moved = p.size
        BY <1>2, <1>4, <1>11, <2>4, <2>7, <3>1, ZenonT(40) DEF last
      <4>2. b.queue = <<>> /\ (p.kind = "async" => v.storage_error = "SUCCESS")
        BY <1>4, <1>8, <2>2, <3>1
      <4> QED
        BY <1>5, <2>2, <2>4, <4>1, <4>2 DEF BlocksAreCounted
    <3>2. CASE ~last
      <4>1. b.queue # <<>> /\ b.queue[1].offset = dd.moved
        <5>1. b.queue[1].offset = d.queue[1].offset + 1
          BY <1>4, <3>2, Zenon
        <5> QED
          BY <1>11, <1>20, <2>4, <3>2, <5>1
      <4> QED
        BY <1>5, <1>11, <2>2, <2>4, <2>7, <4>1 DEF BlocksAreCounted
    <3> QED
      BY <3>1, <3>2
  <2> QED
    BY <1>4, <2>1, <2>5, <2>6, <2>8, Zenon
<1>19. Kept(s, t, cl, dd, n, p, b)
  <2>1. /\ OnlyOp(s, t, n) /\ OthersSame(s, t, p.ep) /\ t.dev.storage_wait = (t.dev.rqt # 0)
    <3>1. u.storage_wait = (u.rqt # 0)
      BY <1>1 DEF OperationFacts, u
    <3>2. v.storage_wait = (v.rqt # 0)
      BY <1>5, <3>1
    <3>3. OthersSame(s, t, p.ep)
      BY <1>0, <1>4, Zenon DEF o
    <3> QED
      BY <1>4, <3>2, <3>3, Zenon DEF v
  <2> QED
    BY <1>13, <1>14, <1>15, <1>16, <1>17, <1>18, <2>1 DEF Kept, v
<1> QED
  BY <1>0, <1>19, OperationKeeps, Zenon DEF n, p, b

\* One more element.
LEMMA OneMore ==
    ASSUME NEW S, NEW q \in Seq(S), NEW x \in S, NEW r, r = Append(q, x)
    PROVE  /\ r \in Seq(S) /\ Len(r) = Len(q) + 1 /\ r[Len(q) + 1] = x /\ Len(q) \in Nat
           /\ \A m \in 1..Len(q) : r[m] = q[m] /\ m \in 1..Len(r) /\ m # Len(q) + 1
           /\ \A m \in 1..Len(r) : m \in 1..Len(q) \/ m = Len(q) + 1
  OBVIOUS

\* The first k operations are as they were, and so is what has timed out before each.
FirstAreSame(s, t, k) == \A m \in 1..k : t.ops[m] = s.ops[m]
LEMMA BeforeSame ==
    ASSUME NEW s, NEW t, NEW k \in Nat, FirstAreSame(s, t, k)
    PROVE  \A i \in 1..(k + 1) : TimedOut(t, i) <=> TimedOut(s, i)
<1> SUFFICES ASSUME NEW i \in 1..(k + 1)
             PROVE  TimedOut(t, i) <=> TimedOut(s, i)
  OBVIOUS
<1>1. \A j \in 1..(i - 1) : t.ops[j] = s.ops[j]
  BY DEF FirstAreSame
<1> QED
  BY <1>1 DEF TimedOut

\* An operation is refused while another is under way.
LEMMA RefusedHolds ==
    ASSUME StorageHyp, NEW s, NEW cl, NEW cd, Holds(s, cl, cd), NEW x \in Operations,
           x.ret = "ASYNC_PENDING", x.calls = 0, NEW t, t = [s EXCEPT !.ops = Append(s.ops, x)]
    PROVE  Holds(t, cl, cd)
<1>1. s \in States /\ s.ops \in Seq(Operations) /\ Len(s.ops) \in Nat
  <2>1. s \in States
    BY DEF Holds
  <2>2. s.ops \in Seq(Operations)
    BY <2>1 DEF States
  <2> QED
    BY <2>1, <2>2
<1>2. t.dev = s.dev /\ t.dma = s.dma /\ t.ops = Append(s.ops, x)
  BY <1>1 DEF States
<1>3. /\ t.ops \in Seq(Operations) /\ Len(t.ops) = Len(s.ops) + 1 /\ t.ops[Len(s.ops) + 1] = x
      /\ \A m \in 1..Len(s.ops) : t.ops[m] = s.ops[m]
      /\ \A m \in 1..Len(t.ops) : m \in 1..Len(s.ops) \/ m = Len(s.ops) + 1
  BY <1>1, <1>2, OneMore
<1>4. t \in States
  BY <1>1, <1>3 DEF States
<1>5. cl.op # 0 => cl.op \in 1..(Len(s.ops) + 1)
  BY <1>1 DEF Holds, OthersAreQuiet
<1>6. \A i \in 1..(Len(s.ops) + 1) : TimedOut(t, i) <=> TimedOut(s, i)
  <2>1. FirstAreSame(s, t, Len(s.ops))
    BY <1>3 DEF FirstAreSame
  <2> QED
    BY <1>1, <2>1, BeforeSame
<1>7. cl.op # 0 => t.ops[cl.op] = s.ops[cl.op] /\ cl.op \in 1..Len(s.ops)
  BY <1>1, <1>3 DEF Holds, OthersAreQuiet
<1>8. OthersAreQuiet(t, cl)
  <2>1. cl.op \in 0..Len(t.ops)
    BY <1>1, <1>3 DEF Holds, OthersAreQuiet
  <2>2. \A i \in 1..Len(t.ops) : i > cl.op => t.ops[i].ret = "ASYNC_PENDING"
    BY <1>3 DEF Holds, OthersAreQuiet
  <2>3. \A f \in Endpoints : cl.op = 0 \/ f # OpOf(t, cl).ep => AtRest(t.dma[f])
    BY <1>2, <1>7 DEF Holds, OthersAreQuiet, OpOf
  <2> QED
    BY <1>2, <2>1, <2>2, <2>3 DEF Holds, OthersAreQuiet
<1>9. IsCurrent(t, cl)
  BY <1>2, <1>7 DEF Holds, IsCurrent, OpOf, EndpointOf
<1>10. CalledOnce(t)
  BY <1>3 DEF Holds, CalledOnce
<1>11. MovedAll(t)
  <2> SUFFICES ASSUME NEW i \in 1..Len(t.ops), ~TimedOut(t, i), t.ops[i].ret = "SUCCESS"
               PROVE  t.ops[i].moved = t.ops[i].size
    BY DEF MovedAll
  <2>1. i \in 1..Len(s.ops)
    BY <1>3
  <2>2. ~TimedOut(s, i)
    <3>1. i \in 1..(Len(s.ops) + 1)
      BY <1>1, <2>1
    <3> QED
      BY <1>6, <3>1
  <2> QED
    BY <1>3, <2>1, <2>2 DEF Holds, MovedAll
<1>12. IsInOrder(t, cl, cd)
  <2> SUFFICES ASSUME ~TimedOut(t, cl.op)
               PROVE  IsInOrder(t, cl, cd)
    BY DEF IsInOrder
  <2>1. CASE cl.op = 0
    <3>1. \A j \in 1..(0 - 1) : FALSE
      OBVIOUS
    <3>2. ~TimedOut(s, cl.op)
      BY <2>1, <3>1 DEF TimedOut
    <3>3. cl.at = "idle" /\ ~s.dev.storage_wait
      BY <2>1 DEF Holds, OthersAreQuiet
    <3> QED
      BY <1>2, <2>1, <3>2, <3>3 DEF Holds, IsInOrder
  <2>2. CASE cl.op # 0
    <3>1. ~TimedOut(s, cl.op)
      BY <1>5, <1>6, <2>2
    <3> QED
      BY <1>2, <1>7, <2>2, <3>1 DEF Holds, IsInOrder, OpOf, EndpointOf
  <2> QED
    BY <2>1, <2>2
<1> QED
  BY <1>4, <1>8, <1>9, <1>10, <1>11, <1>12 DEF Holds

\* Nothing is left of the operation before when the next begins.
LEMMA NothingIsLeft ==
    ASSUME NEW s, NEW cl, NEW cd, Holds(s, cl, cd), cl.at = "idle",
           ~s.dev.async_pending, ~s.dev.storage_wait
    PROVE  /\ \A e \in Endpoints : AtRest(s.dma[e])
           /\ s.dev.storage_cb = 0
           /\ (\A j \in 1..Len(s.ops) : s.ops[j].ret # "TIMEOUT") =>
                  /\ ~s.dev.failed /\ \A e \in Endpoints : ~s.dma[e].misordered
                  /\ cd.rqts = <<>> /\ cd.moved = 0 /\ ~cd.asked
<1>1. CASE cl.op = 0
  <2>1. \A j \in 1..(0 - 1) : FALSE
    OBVIOUS
  <2>2. ~TimedOut(s, cl.op)
    BY <1>1, <2>1 DEF TimedOut
  <2> QED
    BY <1>1, <2>2 DEF Holds, OthersAreQuiet, IsInOrder
<1>2. CASE cl.op # 0
  <2> DEFINE n == cl.op
             o == s.ops[n]
             d == s.dma[o.ep]
  <2>1. OperationFacts(s, cl, cd, n, o, d)
    BY <1>2, OperationIs
  <2>2. \A e \in Endpoints : e # o.ep => AtRest(s.dma[e])
    BY DEF Holds, OthersAreQuiet, OpOf
  <2>3. Len(s.ops) \in Nat /\ n \in 1..Len(s.ops)
    <3>1. s \in States /\ n \in 1..Len(s.ops)
      BY <2>1, Zenon DEF OperationFacts
    <3>2. s.ops \in Seq(Operations)
      BY <3>1 DEF States
    <3> QED
      BY <3>1, <3>2
  <2>4. (\A j \in 1..Len(s.ops) : s.ops[j].ret # "TIMEOUT") => ~TimedOut(s, n) /\ o.ret # "TIMEOUT"
    BY <2>3 DEF TimedOut
  <2>5. ~TimedOut(s, n) => ~s.dev.failed /\ \A e \in Endpoints : ~s.dma[e].misordered
    BY DEF Holds, IsInOrder
  <2> HIDE DEF o, d, n
  <2>6. o.kind \in {"sync", "async"}
    BY <2>1 DEF OperationFacts, Operations
  <2>7. d.queue = <<>>
    BY <2>1, <2>6 DEF OperationFacts, QueueIsCurrent
  <2>8. AtRest(d)
    BY <2>1, <2>7 DEF OperationFacts, BuffersAreSent, AtRest
  <2>9. s.dev.storage_cb = 0
    BY <2>1 DEF OperationFacts, RequestIsCurrent
  <2>10. ~TimedOut(s, n) /\ o.ret # "TIMEOUT" => cd.rqts = <<>> /\ cd.moved = 0 /\ ~cd.asked
    BY <2>1 DEF OperationFacts, RequestIsOwn
  <2>11. \A e \in Endpoints : AtRest(s.dma[e])
    BY <2>2, <2>8 DEF d
  <2> QED
    BY <2>4, <2>5, <2>9, <2>10, <2>11 DEF n
<1> QED
  BY <1>1, <1>2

\* An operation begins: n is its number, x it and r its entry.
BeginsFrom(s, cl, t, dl, n, x, r) ==
    /\ cl.at = "idle" /\ ~s.dev.async_pending /\ ~s.dev.storage_wait /\ n = Len(s.ops) + 1
    /\ x \in Operations /\ x.ret = "none" /\ x.calls = 0 /\ x.moved = 0
    /\ r \in Entries /\ r.op = n /\ r.size = x.size /\ r.offset = 0
    /\ t.dev = [s.dev EXCEPT !.storage_oper = x.ep, !.async_pending = (x.kind = "async"),
                             !.storage_cb = IF x.kind = "async" THEN n ELSE @]
    /\ t.dma = [s.dma EXCEPT ![x.ep].queue = Append(@, r)] /\ t.ops = Append(s.ops, x)
    /\ t = [dev |-> t.dev, dma |-> t.dma, ops |-> t.ops]
    /\ dl \in Callers /\ dl.at = "send" /\ dl.op = n
LEMMA BegunHolds ==
    ASSUME StorageHyp, NEW s, NEW cl, NEW cd, Holds(s, cl, cd), NEW t, NEW dl, NEW n, NEW x, NEW r,
           BeginsFrom(s, cl, t, dl, n, x, r)
    PROVE  Holds(t, dl, cd)
<1> USE DEF BeginsFrom
<1>1. /\ s \in States /\ s.ops \in Seq(Operations) /\ Len(s.ops) \in Nat /\ s.dev \in Devices
      /\ s.dma \in [Endpoints -> DmaEndpoints] /\ cd \in Cards
  <2>1. s \in States /\ cd \in Cards
    BY DEF Holds
  <2>2. s.ops \in Seq(Operations) /\ s.dev \in Devices /\ s.dma \in [Endpoints -> DmaEndpoints]
    BY <2>1 DEF States
  <2> QED
    BY <2>1, <2>2
<1>2. /\ \A e \in Endpoints : AtRest(s.dma[e])
      /\ s.dev.storage_cb = 0
      /\ (\A j \in 1..Len(s.ops) : s.ops[j].ret # "TIMEOUT") =>
             /\ ~s.dev.failed /\ \A e \in Endpoints : ~s.dma[e].misordered
             /\ cd.rqts = <<>> /\ cd.moved = 0 /\ ~cd.asked
  BY NothingIsLeft
<1>3. x.ep \in Endpoints /\ x.kind \in {"sync", "async"} /\ x.size \in Nat /\ x.size # 0
  BY DEF Operations
<1>4. /\ t.ops \in Seq(Operations) /\ Len(t.ops) = n /\ t.ops[n] = x /\ n \in Nat /\ n # 0
      /\ \A m \in 1..Len(s.ops) : t.ops[m] = s.ops[m]
      /\ \A m \in 1..Len(t.ops) : m \in 1..Len(s.ops) \/ m = n
  BY <1>1, OneMore
<1> DEFINE e == x.ep
           d == s.dma[e]
           b == t.dma[e]
           v == t.dev
<1>5. /\ v \in Devices /\ v.storage_oper = e /\ v.async_pending = (x.kind = "async")
      /\ v.storage_cb = (IF x.kind = "async" THEN n ELSE 0) /\ v.failed = s.dev.failed
      /\ v.storage_wait = s.dev.storage_wait /\ v.rqt = s.dev.rqt
      /\ v.storage_error = s.dev.storage_error
  <2>1. v = [s.dev EXCEPT !.storage_oper = x.ep, !.async_pending = (x.kind = "async"),
                          !.storage_cb = IF x.kind = "async" THEN n ELSE 0]
    BY <1>2
  <2> HIDE DEF v
  <2> QED
    BY <1>1, <1>3, <1>4, <2>1 DEF Devices
<1>6. d \in DmaEndpoints /\ d.queue = <<>> /\ ~d.drq /\ ~d.buffer_valid
  BY <1>1, <1>2, <1>3 DEF AtRest
<1>7. Append(d.queue, r) = <<r>> /\ <<r>> \in Seq(Entries) /\ Len(<<r>>) = 1 /\ <<r>>[1] = r
  BY <1>6
<1> DEFINE c == [d EXCEPT !.queue = <<r>>]
<1>8. /\ c \in DmaEndpoints /\ c.queue = <<r>> /\ ~c.drq /\ ~c.buffer_valid
      /\ c.misordered = d.misordered
  BY <1>6, <1>7 DEF DmaEndpoints
<1>9. t.dma = [s.dma EXCEPT ![e] = c]
  BY <1>1, <1>3, <1>7
<1> HIDE DEF c
<1>10. /\ t.dma \in [Endpoints -> DmaEndpoints] /\ b = c
       /\ \A f \in Endpoints : f # e => t.dma[f] = s.dma[f]
  BY <1>1, <1>3, <1>8, <1>9
<1>11. t \in States
  BY <1>4, <1>5, <1>10 DEF States
<1>12. /\ Len(b.queue) = 1 /\ b.queue # <<>> /\ b.queue[1] = r /\ ~b.drq /\ ~b.buffer_valid
       /\ b.misordered = d.misordered
  <2>1. b.queue = <<r>> /\ ~b.drq /\ ~b.buffer_valid /\ b.misordered = d.misordered
    BY <1>8, <1>10
  <2>2. <<r>> # <<>>
    OBVIOUS
  <2> HIDE DEF b, d
  <2> QED
    BY <1>7, <2>1, <2>2
<1> HIDE DEF b, d, v
<1>13. OthersAreQuiet(t, dl)
  <2>1. dl.op \in 0..Len(t.ops) /\ dl.op # 0
    BY <1>4
  <2>2. \A i \in 1..Len(t.ops) : ~(i > dl.op)
    BY <1>4
  <2>3. \A f \in Endpoints : f # OpOf(t, dl).ep => AtRest(t.dma[f])
    BY <1>2, <1>4, <1>10 DEF OpOf
  <2>4. t.dev.storage_wait = (t.dev.rqt # 0)
    BY <1>5 DEF Holds, OthersAreQuiet, v
  <2> QED
    BY <2>1, <2>2, <2>3, <2>4 DEF OthersAreQuiet
<1>14. IsCurrent(t, dl)
  <2>1. ThreadIsAt(x, dl)
    BY DEF ThreadIsAt
  <2>2. QueueIsCurrent(v, b, x, dl)
    BY <1>3, <1>5, <1>12 DEF QueueIsCurrent
  <2>3. RequestIsCurrent(v, x, dl)
    BY <1>3, <1>5 DEF RequestIsCurrent
  <2>4. BuffersAreSent(b, dl)
    BY <1>12 DEF BuffersAreSent
  <2> QED
    BY <1>4, <2>1, <2>2, <2>3, <2>4 DEF IsCurrent, OpOf, EndpointOf, v, b
<1>15. CalledOnce(t)
  BY <1>4 DEF Holds, CalledOnce
<1>16. \A i \in 1..(Len(s.ops) + 1) : TimedOut(t, i) <=> TimedOut(s, i)
  <2>1. FirstAreSame(s, t, Len(s.ops))
    BY <1>4 DEF FirstAreSame
  <2> QED
    BY <1>1, <2>1, BeforeSame
<1>17. MovedAll(t)
  <2> SUFFICES ASSUME NEW i \in 1..Len(t.ops), ~TimedOut(t, i), t.ops[i].ret = "SUCCESS"
               PROVE  t.ops[i].moved = t.ops[i].size
    BY DEF MovedAll
  <2>1. i \in 1..Len(s.ops)
    BY <1>4
  <2>2. ~TimedOut(s, i)
    <3>1. i \in 1..(Len(s.ops) + 1)
      BY <1>1, <2>1
    <3> QED
      BY <1>16, <3>1
  <2> QED
    BY <1>4, <2>1, <2>2 DEF Holds, MovedAll
<1>18. IsInOrder(t, dl, cd)
  <2> SUFFICES ASSUME ~TimedOut(t, n)
               PROVE  /\ ~v.failed /\ \A f \in Endpoints : ~t.dma[f].misordered
                      /\ RequestIsOwn(v, x, dl, cd) /\ BlocksAreCounted(v, b, x, dl, cd)
    BY <1>4 DEF IsInOrder, OpOf, EndpointOf, v, b
  <2>1. \A j \in 1..Len(s.ops) : s.ops[j].ret # "TIMEOUT"
    BY <1>1, <1>4 DEF TimedOut
  <2>2. /\ ~v.failed /\ (\A f \in Endpoints : ~s.dma[f].misordered)
        /\ cd.rqts = <<>> /\ cd.moved = 0 /\ ~cd.asked
    BY <1>2, <1>5, <2>1
  <2>3. \A f \in Endpoints : ~t.dma[f].misordered
    BY <1>3, <1>10, <1>12, <2>2 DEF b, d
  <2>4. RequestIsOwn(v, x, dl, cd)
    BY <1>3, <1>5, <2>2 DEF RequestIsOwn
  <2>5. BlocksAreCounted(v, b, x, dl, cd)
    BY <1>5, <1>12 DEF BlocksAreCounted
  <2> QED
    BY <2>2, <2>3, <2>4, <2>5
<1> QED
  BY <1>1, <1>11, <1>13, <1>14, <1>15, <1>17, <1>18 DEF Holds

-----------------------------------------------------------------------------
(* The steps *)

\* What the invariant says of the types.
LEMMA IInvTypes ==
    ASSUME IInv
    PROVE  /\ StorageNow \in States /\ caller \in Callers /\ storageCard \in Cards /\ Holds(StorageNow, caller, storageCard)
           /\ StorageNow.dev = dev /\ StorageNow.dma = dma /\ StorageNow.ops = ops
           /\ dev \in Devices /\ dma \in [Endpoints -> DmaEndpoints] /\ ops \in Seq(Operations)
           /\ caller.op \in 0..Len(ops) /\ Len(ops) \in Nat
           /\ caller.op = 0 => caller.at = "idle"
           /\ dev.storage_wait = (dev.rqt # 0) /\ (dev.storage_wait => caller.op # 0)
<1>1. StorageNow \in States /\ caller \in Callers /\ storageCard \in Cards /\ Holds(StorageNow, caller, storageCard)
  BY DEF IInv, Holds
<1>2. StorageNow.dev = dev /\ StorageNow.dma = dma /\ StorageNow.ops = ops
  BY DEF StorageNow
<1>3. dev \in Devices /\ dma \in [Endpoints -> DmaEndpoints] /\ ops \in Seq(Operations)
  BY <1>1, <1>2 DEF States
<1>4. OthersAreQuiet(StorageNow, caller)
  BY DEF IInv, Holds
<1> QED
  BY <1>1, <1>2, <1>3, <1>4 DEF OthersAreQuiet

\* What the callbacks leave is the next state.
LEMMA Becoming ==
    ASSUME NEW t, StorageBecomes(t), Holds(t, caller', storageCard')
    PROVE  IInv'
<1>1. t \in States
  BY DEF Holds
<1>2. t = [dev |-> t.dev, dma |-> t.dma, ops |-> t.ops]
  BY <1>1 DEF States
<1>3. StorageNow' = t
  BY <1>2 DEF StorageNow, StorageBecomes
<1> QED
  BY <1>3 DEF IInv

\* The thread goes on: it is of the same operation.
LEMMA Going ==
    ASSUME caller \in Callers, NEW p \in {"idle", "send", "drain", "sleep", "cancel", "reply"}, Goes(p)
    PROVE  /\ caller' \in Callers /\ caller' = [caller EXCEPT !.at = p]
           /\ caller'.at = p /\ caller'.op = caller.op /\ caller'.ret = caller.ret
  BY DEF Goes, Callers

\* A state is its three parts.
LEMMA PartsOfNow ==
    /\ \A q : [StorageNow EXCEPT !.ops = q] = [dev |-> dev, dma |-> dma, ops |-> q]
    /\ \A v : [StorageNow EXCEPT !.dev = v] = [dev |-> v, dma |-> dma, ops |-> ops]
    /\ StorageNow' = [dev |-> dev', dma |-> dma', ops |-> ops']
<1>1. StorageNow = [dev |-> dev, dma |-> dma, ops |-> ops] /\ StorageNow' = [dev |-> dev', dma |-> dma', ops |-> ops']
  BY DEF StorageNow
<1> QED
  BY <1>1

\* BeginOper keeps the invariant.
LEMMA BeginKeeps ==
    ASSUME StorageHyp, IInv, NEW kind \in StorageKinds, NEW e \in Endpoints, NEW size \in Sizes,
           BeginOper(kind, e, size)
    PROVE  IInv'
<1> DEFINE Rec(ret) == [kind |-> kind, ep |-> e, size |-> size, ret |-> ret, calls |-> 0, moved |-> 0]
           n == Len(ops) + 1
           r == [op |-> n, size |-> size, offset |-> 0]
<1>1. /\ Holds(StorageNow, caller, storageCard) /\ StorageNow.dev = dev /\ StorageNow.dma = dma /\ StorageNow.ops = ops
      /\ dev \in Devices /\ StorageNow \in States /\ Len(ops) \in Nat
  BY IInvTypes
<1>2. Rec("none") \in Operations /\ Rec("ASYNC_PENDING") \in Operations /\ r \in Entries
  BY <1>1 DEF StorageHyp, Operations, Rets, Entries
<1>3. caller.at = "idle" /\ storageCard' = storageCard
  BY DEF BeginOper, ThreadAt
<1>4. CASE Busy
  <2> DEFINE x == Rec("ASYNC_PENDING")
             t == [StorageNow EXCEPT !.ops = Append(StorageNow.ops, x)]
  <2>1. ops' = Append(ops, x) /\ UNCHANGED <<dev, dma, caller>>
    BY <1>4 DEF BeginOper
  <2>2. x.ret = "ASYNC_PENDING" /\ x.calls = 0
    OBVIOUS
  <2>3. StorageNow' = t
    <3> DEFINE q == Append(ops, x)
    <3>1. dev' = dev /\ dma' = dma /\ ops' = q
      BY <2>1
    <3>2. t = [StorageNow EXCEPT !.ops = q]
      BY <1>1
    <3> HIDE DEF x, t, q
    <3> QED
      BY <3>1, <3>2, PartsOfNow
  <2> HIDE DEF x
  <2>4. Holds(t, caller, storageCard)
    BY <1>1, <1>2, <2>2, RefusedHolds DEF x
  <2> QED
    BY <1>3, <2>1, <2>3, <2>4 DEF IInv
<1>5. CASE ~Busy
  <2> DEFINE x == Rec("none")
             t == StorageNow'
             dl == caller'
  <2>1. /\ ops' = Append(ops, x)
        /\ dma' = [dma EXCEPT ![e].queue = Append(@, r)]
        /\ dev' = [dev EXCEPT !.storage_oper = e, !.async_pending = (kind = "async"),
                              !.storage_cb = IF kind = "async" THEN n ELSE @]
        /\ caller' = [at |-> "send", op |-> n, ret |-> "SUCCESS"]
    BY <1>5 DEF BeginOper
  <2>2. /\ x.ret = "none" /\ x.calls = 0 /\ x.moved = 0 /\ x.ep = e /\ x.kind = kind /\ x.size = size
        /\ r.op = n /\ r.size = size /\ r.offset = 0
    OBVIOUS
  <2>3. ~StorageNow.dev.async_pending /\ ~StorageNow.dev.storage_wait
    BY <1>1, <1>5 DEF Busy
  <2>4. t.dev = dev' /\ t.dma = dma' /\ t.ops = ops' /\ t = [dev |-> t.dev, dma |-> t.dma, ops |-> t.ops]
    BY DEF StorageNow
  <2>5. dl \in Callers /\ dl.at = "send" /\ dl.op = n
    BY <1>1, <2>1 DEF Callers, Errors
  <2> HIDE DEF x, r, dl, t, n
  <2>6. /\ t.dev = [StorageNow.dev EXCEPT !.storage_oper = x.ep, !.async_pending = (x.kind = "async"),
                                   !.storage_cb = IF x.kind = "async" THEN n ELSE @]
        /\ t.dma = [StorageNow.dma EXCEPT ![x.ep].queue = Append(@, r)] /\ t.ops = Append(StorageNow.ops, x)
    BY <1>1, <2>1, <2>2, <2>4, Zenon
  <2>7. x \in Operations /\ r \in Entries /\ r.size = x.size /\ n = Len(StorageNow.ops) + 1
    BY <1>1, <1>2, <2>2 DEF x, r, n
  <2>8. BeginsFrom(StorageNow, caller, t, dl, n, x, r)
    BY <1>3, <2>2, <2>3, <2>4, <2>5, <2>6, <2>7, Zenon DEF BeginsFrom
  <2>9. Holds(t, dl, storageCard)
    BY <1>1, <2>8, BegunHolds
  <2> QED
    BY <1>3, <2>9 DEF IInv, t, dl
<1> QED
  BY <1>4, <1>5

\* SendOperation keeps the invariant.
LEMMA SendRequestKeeps ==
    ASSUME StorageHyp, IInv, SendOperation
    PROVE  IInv'
<1> DEFINE x == [op |-> caller.op, ep |-> Op.ep, size |-> Op.size]
           v == [dev EXCEPT !.storage_wait = TRUE, !.rqt = caller.op]
           t == [StorageNow EXCEPT !.dev = v]
<1>1. /\ Holds(StorageNow, caller, storageCard) /\ StorageNow.ops = ops /\ StorageNow.dev = dev /\ caller \in Callers /\ storageCard \in Cards
      /\ caller.op \in 0..Len(ops) /\ caller.op # 0 /\ ops \in Seq(Operations) /\ caller.at = "send"
  BY IInvTypes DEF SendOperation, ThreadAt
<1>2. Op \in Operations /\ Op = StorageNow.ops[caller.op]
  BY <1>1 DEF Op
<1>3. caller' \in Callers /\ caller' = [caller EXCEPT !.at = Sent]
  BY <1>1, Going DEF SendOperation, Sent
<1>4. x \in Requests
  BY <1>1, <1>2 DEF Requests, Operations
<1>5. storageCard' = [storageCard EXCEPT !.rqts = Append(@, x)]
  BY DEF SendOperation
<1>6. StorageNow' = t
  <2>1. dev' = v /\ dma' = dma /\ ops' = ops
    BY DEF SendOperation
  <2> HIDE DEF v
  <2> QED
    BY <2>1, PartsOfNow
<1> HIDE DEF x, t
<1>7. /\ storageCard' \in Cards /\ storageCard'.moved = storageCard.moved
      /\ storageCard'.rqts = Append(storageCard.rqts, x)
  <2>1. storageCard.rqts \in Seq(Requests)
    BY <1>1 DEF Cards
  <2>2. Append(storageCard.rqts, x) \in Seq(Requests)
    BY <1>4, <2>1
  <2> DEFINE q == Append(storageCard.rqts, x)
  <2>3. storageCard' = [storageCard EXCEPT !.rqts = q]
    BY <1>5
  <2> HIDE DEF q
  <2>4. q \in Seq(Requests)
    BY <2>2 DEF q
  <2>5. storageCard' \in Cards /\ storageCard'.moved = storageCard.moved /\ storageCard'.rqts = q
    BY <1>1, <2>3, <2>4 DEF Cards
  <2> QED
    BY <2>5 DEF q
<1>8. storageCard.rqts = <<>> => storageCard'.rqts = <<x>>
  BY <1>7
<1>9. storageCard.rqts = <<>> => storageCard'.rqts = <<[op |-> caller.op, ep |-> StorageNow.ops[caller.op].ep,
                                          size |-> StorageNow.ops[caller.op].size]>>
  BY <1>2, <1>8, Zenon DEF x
<1>10. caller' = [caller EXCEPT !.at = IF StorageNow.ops[caller.op].kind = "sync" THEN "drain" ELSE "idle"]
  BY <1>2, <1>3, Zenon DEF Sent
<1>11. SendsFrom(StorageNow, caller, storageCard, t, caller', storageCard')
  BY <1>1, <1>7, <1>9, <1>10, Zenon DEF SendsFrom, t
<1>12. Holds(t, caller', storageCard')
  BY <1>1, <1>3, <1>7, <1>11, SendRequestHolds
<1> QED
  BY <1>6, <1>12 DEF IInv

\* SendTimeout keeps the invariant.
LEMMA SendTimeoutKeeps ==
    ASSUME StorageHyp, IInv, SendTimeout
    PROVE  IInv'
<1> DEFINE v == [StorageNow EXCEPT !.dev.storage_wait = TRUE, !.dev.rqt = caller.op]
           t == ReplyCallback(v, "TIMEOUT")
<1>1. /\ Holds(StorageNow, caller, storageCard) /\ StorageNow.ops = ops /\ caller \in Callers /\ storageCard \in Cards
      /\ caller.at = "send"
  BY IInvTypes DEF SendTimeout, ThreadAt
<1>2. caller' \in Callers /\ caller' = [caller EXCEPT !.at = Sent]
  BY <1>1, Going DEF SendTimeout, Sent
<1>3. caller' = [caller EXCEPT !.at = IF StorageNow.ops[caller.op].kind = "sync" THEN "drain" ELSE "idle"]
  BY <1>1, <1>2, Zenon DEF Sent, Op
<1>4. StorageBecomes(t) /\ storageCard' = storageCard
  BY DEF SendTimeout
<1> HIDE DEF t
<1>5. Holds(t, caller', storageCard)
  BY <1>1, <1>2, <1>3, SendTimeoutHolds DEF t
<1> QED
  BY <1>4, <1>5, Becoming

\* Drain, QueueDrained and DrainTimeout keep the invariant.
LEMMA DrainKeeps ==
    ASSUME StorageHyp, IInv, Drain \/ QueueDrained \/ DrainTimeout
    PROVE  IInv'
<1> DEFINE o == StorageNow.ops[caller.op]
           e == o.ep
           d == StorageNow.dma[e]
           b == StorageNow'.dma[e]
<1>1. /\ Holds(StorageNow, caller, storageCard) /\ StorageNow.ops = ops /\ StorageNow.dma = dma /\ StorageNow.dev = dev /\ StorageNow \in States
      /\ caller \in Callers /\ storageCard \in Cards /\ caller.at \in {"drain", "sleep"} /\ storageCard' = storageCard
      /\ ops \in Seq(Operations) /\ caller.op \in 0..Len(ops) /\ caller.op # 0
      /\ dma \in [Endpoints -> DmaEndpoints] /\ dev \in Devices
  BY IInvTypes DEF Drain, QueueDrained, DrainTimeout, ThreadAt
<1>2. Op = o /\ Op.ep = e /\ e \in Endpoints /\ d = dma[e] /\ d \in DmaEndpoints
  <2>1. caller.op \in 1..Len(ops) /\ Op = ops[caller.op]
    BY <1>1 DEF Op
  <2>2. Op \in Operations
    BY <1>1, <2>1
  <2>3. Op.ep \in Endpoints
    BY <2>2 DEF Operations
  <2> QED
    BY <1>1, <2>1, <2>3
<1>3. /\ caller' \in Callers /\ caller'.op = caller.op /\ caller'.ret = caller.ret
      /\ caller'.at \in {"sleep", "cancel", "reply"}
      /\ caller'.at = "reply" => d.queue = <<>>
      /\ caller'.at = "cancel" => DrainTimeout
  BY <1>1, <1>2 DEF Drain, QueueDrained, DrainTimeout, Goes, Callers, ThreadAt
<1>4. /\ StorageNow' \in States /\ StorageNow'.dev = StorageNow.dev /\ StorageNow'.ops = StorageNow.ops
      /\ OthersSame(StorageNow, StorageNow', e)
      /\ b.queue = d.queue /\ b.misordered = d.misordered /\ (b.drq => d.drq)
      /\ b.buffer_valid => /\ d.buffer_valid
                           /\ \/ b.in_transit = d.in_transit
                              \/ d.queue = <<>>
                              \/ ~d.in_transit
      /\ caller'.at = "cancel" => ~b.drq /\ (b.buffer_valid => ~d.in_transit)
  <2>1. StorageNow'.dev = dev' /\ StorageNow'.dma = dma' /\ StorageNow'.ops = ops'
        /\ StorageNow' = [dev |-> dev', dma |-> dma', ops |-> ops']
    BY DEF StorageNow
  <2>2. CASE Drain
    <3> DEFINE c == [d EXCEPT !.enabled = (d.queue = <<>>)]
    <3>1. dma' = [dma EXCEPT ![e] = c] /\ dev' = dev /\ ops' = ops
      BY <1>2, <2>2, Zenon DEF Drain
    <3>2. /\ c \in DmaEndpoints /\ c.queue = d.queue /\ c.misordered = d.misordered /\ c.drq = d.drq
          /\ c.buffer_valid = d.buffer_valid /\ c.in_transit = d.in_transit
      BY <1>2 DEF DmaEndpoints
    <3>3. caller'.at # "cancel"
      BY <2>2, <1>1 DEF Drain, Goes, Callers
    <3> HIDE DEF c
    <3>4. dma' \in [Endpoints -> DmaEndpoints] /\ b = c /\ \A f \in Endpoints : f # e => dma'[f] = dma[f]
      BY <1>1, <1>2, <2>1, <3>1, <3>2
    <3> HIDE DEF b, d, e, o
    <3>5. StorageNow' \in States
      BY <1>1, <2>1, <3>1, <3>4 DEF States
    <3> QED
      BY <1>1, <2>1, <3>1, <3>2, <3>3, <3>4, <3>5 DEF OthersSame
  <2>3. CASE QueueDrained
    <3> DEFINE c == [d EXCEPT !.in_transit = FALSE, !.running = FALSE, !.enabled = TRUE]
    <3>1. dma' = [dma EXCEPT ![e] = c] /\ dev' = dev /\ ops' = ops
      <4>1. dma' = [dma EXCEPT ![e].in_transit = FALSE, ![e].running = FALSE, ![e].enabled = TRUE]
            /\ dev' = dev /\ ops' = ops
        BY <1>2, <2>3, Zenon DEF QueueDrained
      <4> HIDE DEF e
      <4> QED
        BY <1>1, <1>2, <4>1, Zenon
    <3>2. /\ c \in DmaEndpoints /\ c.queue = d.queue /\ c.misordered = d.misordered /\ c.drq = d.drq
          /\ c.buffer_valid = d.buffer_valid /\ d.queue = <<>>
      BY <1>2, <2>3, Zenon DEF DmaEndpoints, QueueDrained
    <3>3. caller'.at # "cancel"
      BY <2>3, <1>1 DEF QueueDrained, Goes, Callers
    <3> HIDE DEF c
    <3>4. dma' \in [Endpoints -> DmaEndpoints] /\ b = c /\ \A f \in Endpoints : f # e => dma'[f] = dma[f]
      BY <1>1, <1>2, <2>1, <3>1, <3>2
    <3> HIDE DEF b, d, e, o
    <3>5. StorageNow' \in States
      BY <1>1, <2>1, <3>1, <3>4 DEF States
    <3> QED
      BY <1>1, <2>1, <3>1, <3>2, <3>3, <3>4, <3>5 DEF OthersSame
  <2>4. CASE DrainTimeout
    <3> DEFINE t == Halted(StorageNow, e)
    <3>1. StorageBecomes(t)
      BY <1>2, <2>4, Zenon DEF DrainTimeout
    <3>2. /\ t \in States /\ t.dev = StorageNow.dev /\ t.ops = StorageNow.ops
          /\ \A f \in Endpoints : f # e => t.dma[f] = StorageNow.dma[f]
          /\ t.dma[e].queue = d.queue /\ t.dma[e].misordered = d.misordered
          /\ ~t.dma[e].drq /\ ~t.dma[e].in_transit
          /\ t.dma[e].buffer_valid = (d.buffer_valid /\ ~d.in_transit)
      BY <1>1, <1>2, HaltedIs
    <3> HIDE DEF t
    <3>3. StorageNow' = t
      <4>1. t = [dev |-> t.dev, dma |-> t.dma, ops |-> t.ops]
        BY <3>2, Zenon DEF States
      <4> QED
        BY <3>1, <4>1 DEF StorageNow, StorageBecomes
    <3>4. d.buffer_valid \in BOOLEAN /\ d.in_transit \in BOOLEAN
      BY <1>2 DEF DmaEndpoints
    <3>5. b = t.dma[e]
      BY <3>3
    <3> HIDE DEF b, d, e, o
    <3> QED
      BY <3>2, <3>3, <3>4, <3>5 DEF OthersSame
  <2> QED
    BY <2>2, <2>3, <2>4, Zenon
<1>5. Holds(StorageNow', caller', storageCard)
  <2> HIDE DEF o, d, b
  <2> QED
    BY <1>1, <1>3, <1>4, DrainStepHolds DEF o, d, b
<1> QED
  BY <1>1, <1>5 DEF IInv

\* CancelQueue keeps the invariant.
LEMMA CancelQueueKeeps ==
    ASSUME StorageHyp, IInv, CancelQueue
    PROVE  IInv'
<1> DEFINE v == Emptied(StorageNow, StorageNow.ops[caller.op].ep, "TIMEOUT")
           t == [v EXCEPT !.dma[StorageNow.ops[caller.op].ep].enabled = TRUE]
<1>1. /\ Holds(StorageNow, caller, storageCard) /\ StorageNow.ops = ops /\ caller \in Callers /\ storageCard \in Cards
      /\ caller.at = "cancel"
  BY IInvTypes DEF CancelQueue, ThreadAt
<1>2. StorageNow.ops[caller.op].ep = Op.ep
  BY <1>1, Zenon DEF Op
<1>3. StorageBecomes(t) /\ storageCard' = storageCard /\ caller' = [caller EXCEPT !.at = "reply", !.ret = "TIMEOUT"]
  BY <1>2, Zenon DEF CancelQueue
<1>4. caller' \in Callers
  BY <1>1, <1>3, Zenon DEF Callers, Errors
<1> HIDE DEF t
<1>5. Holds(t, caller', storageCard)
  BY <1>1, <1>3, <1>4, CancelHolds, Zenon DEF t
<1> QED
  BY <1>3, <1>5, Becoming

\* OperReply and ReplyTimeout keep the invariant.
LEMMA ReplyKeeps ==
    ASSUME StorageHyp, IInv, OperReply \/ ReplyTimeout
    PROVE  IInv'
<1> DEFINE ret == IF dev.storage_wait THEN "TIMEOUT" ELSE OperResult
           o == [ops[caller.op] EXCEPT !.ret = ret]
           v == dev'
           t == [StorageNow EXCEPT !.dev = v, !.ops[caller.op].ret = ret]
<1>1. /\ Holds(StorageNow, caller, storageCard) /\ StorageNow.ops = ops /\ StorageNow.dev = dev /\ caller \in Callers /\ storageCard \in Cards
      /\ dev \in Devices /\ ops \in Seq(Operations) /\ caller.at = "reply"
      /\ dev.storage_wait = (dev.rqt # 0)
  BY IInvTypes DEF OperReply, ReplyTimeout, ThreadAt
<1>2. caller' \in Callers /\ caller' = [caller EXCEPT !.at = "idle"]
  BY <1>1, Going DEF OperReply, ReplyTimeout
<1>3. /\ v \in Devices /\ v.async_pending = dev.async_pending
      /\ v.storage_oper = dev.storage_oper /\ v.storage_cb = dev.storage_cb
      /\ v.failed = dev.failed /\ ~v.storage_wait /\ v.rqt = 0
  <2>1. CASE OperReply
    <3>1. v = dev /\ ~dev.storage_wait
      BY <2>1 DEF OperReply
    <3>2. dev.rqt = 0
      BY <1>1, <3>1
    <3> QED
      BY <1>1, <3>1, <3>2
  <2>2. CASE ReplyTimeout
    <3>1. v = [dev EXCEPT !.storage_wait = FALSE, !.rqt = 0, !.storage_error = "CANCELED"]
      BY <2>2 DEF ReplyTimeout
    <3> HIDE DEF v
    <3> QED
      BY <1>1, <3>1 DEF Devices, Errors
  <2> QED
    BY <2>1, <2>2
<1>4. /\ ret \in Errors /\ (dev.storage_wait => ret = "TIMEOUT")
      /\ ret = "SUCCESS" => caller.ret = "SUCCESS" /\ dev.storage_error = "SUCCESS"
  BY <1>1 DEF OperResult, Callers, Devices, Errors
<1>5. ops' = [ops EXCEPT ![caller.op].ret = ret] /\ dma' = dma /\ storageCard' = storageCard
  BY DEF OperReply, ReplyTimeout, Ends
<1>6. StorageNow' = t
  <2> DEFINE q == [ops EXCEPT ![caller.op].ret = ret]
  <2>1. t = [StorageNow EXCEPT !.dev = v, !.ops = q]
    BY <1>1
  <2>2. StorageNow = [dev |-> dev, dma |-> dma, ops |-> ops] /\ StorageNow' = [dev |-> dev', dma |-> dma', ops |-> ops']
    BY DEF StorageNow
  <2> HIDE DEF q, t, ret
  <2>3. ops' = q
    BY <1>5 DEF q
  <2> QED
    BY <1>5, <2>1, <2>2, <2>3
<1> HIDE DEF t, ret, v
<1>7. Holds(t, caller', storageCard)
  BY <1>1, <1>2, <1>3, <1>4, EndHolds DEF t
<1> QED
  BY <1>5, <1>6, <1>7 DEF IInv

\* DmaStart keeps the invariant.
LEMMA DmaStartKeeps ==
    ASSUME StorageHyp, IInv, DmaStart
    PROVE  IInv'
<1> DEFINE e == StorageNow.dev.storage_oper
           v == [StorageNow EXCEPT !.dma[e].running = FALSE]
           t == SendNextDma(v, e)
<1>1. /\ Holds(StorageNow, caller, storageCard) /\ StorageNow.dev = dev /\ caller \in Callers /\ storageCard \in Cards
  BY IInvTypes
<1>2. ~StorageNow.dev.failed /\ caller.at # "cancel" /\ storageCard.rqts # <<>> /\ ~storageCard.asked /\ caller' = caller
  BY <1>1 DEF DmaStart, Serves, ThreadAt, StorageHyp
<1>3. storageCard' = [storageCard EXCEPT !.asked = TRUE]
  BY DEF DmaStart
<1>4. storageCard' \in Cards
  BY <1>1, <1>3 DEF Cards
<1>5. StorageBecomes(t)
  BY <1>1, Zenon DEF DmaStart
<1> HIDE DEF t
<1>6. Holds(t, caller, storageCard')
  BY <1>1, <1>2, <1>3, <1>4, DmaStartHolds DEF t
<1> QED
  BY <1>2, <1>5, <1>6, Becoming

\* Drq keeps the invariant.
LEMMA DrqKeeps ==
    ASSUME StorageHyp, IInv, Drq
    PROVE  IInv'
<1> DEFINE t == Completed(StorageNow, Rqt.ep, Rqt.op)
<1>1. /\ Holds(StorageNow, caller, storageCard) /\ StorageNow.dev = dev /\ StorageNow.dma = dma /\ caller \in Callers /\ storageCard \in Cards
  BY IInvTypes
<1>2. /\ ~StorageNow.dev.failed /\ storageCard.rqts # <<>> /\ storageCard.asked /\ StorageNow.dma[Rqt.ep].drq /\ caller' = caller
      /\ Rqt = Head(storageCard.rqts)
  BY <1>1 DEF Drq, Serves, Rqt
<1>3. storageCard' = [storageCard EXCEPT !.moved = @ + 1]
  BY DEF Drq
<1>4. storageCard' \in Cards
  BY <1>1, <1>3 DEF Cards
<1>5. StorageBecomes(t)
  BY Zenon DEF Drq
<1> HIDE DEF t
<1>6. Holds(t, caller, storageCard')
  BY <1>1, <1>2, <1>3, <1>4, DrqHolds DEF t
<1> QED
  BY <1>2, <1>5, <1>6, Becoming

\* Answer keeps the invariant: a reply that nobody awaits is of an operation given up.
LEMMA AnswerKeeps ==
    ASSUME StorageHyp, IInv, NEW ret \in {"SUCCESS"} \cup Failures, Answer(ret)
    PROVE  IInv'
<1> DEFINE t == ReplyCallback(StorageNow, ret)
           n == caller.op
           o == StorageNow.ops[n]
           d == StorageNow.dma[o.ep]
<1>1. /\ Holds(StorageNow, caller, storageCard) /\ StorageNow.dev = dev /\ StorageNow.dma = dma /\ StorageNow.ops = ops /\ caller \in Callers
      /\ storageCard \in Cards /\ dev.storage_wait = (dev.rqt # 0) /\ (dev.storage_wait => n # 0)
  BY IInvTypes
<1>2. ~StorageNow.dev.failed /\ storageCard.rqts # <<>> /\ (ret = "SUCCESS" => storageCard.moved = Rqt.size) /\ caller' = caller
  BY <1>1 DEF Answer, Serves
<1>3. storageCard' = [rqts |-> Tail(storageCard.rqts), asked |-> FALSE, moved |-> 0]
  BY DEF Answer
<1>4. storageCard' \in Cards /\ storageCard'.rqts = Tail(storageCard.rqts) /\ storageCard'.moved = 0 /\ ~storageCard'.asked
  <2>1. storageCard.rqts \in Seq(Requests)
    BY <1>1 DEF Cards
  <2>2. Tail(storageCard.rqts) \in Seq(Requests)
    BY <1>2, <2>1
  <2> QED
    BY <1>3, <2>2 DEF Cards
<1>5. n # 0 => OperationFacts(StorageNow, caller, storageCard, n, o, d)
  BY <1>1, OperationIs
<1>6. ~TimedOut(StorageNow, n) /\ n # 0 /\ o.ret # "TIMEOUT" => RequestIsOwn(StorageNow.dev, o, caller, storageCard)
  BY <1>5 DEF OperationFacts
<1>7. CASE dev.rqt = 0
  <2>1. StorageNow' = StorageNow
    BY <1>7 DEF Answer, StorageNow
  <2>2. ~TimedOut(StorageNow, n) => n # 0 /\ o.ret = "TIMEOUT"
    <3>1. ~TimedOut(StorageNow, n) /\ n = 0 => storageCard.rqts = <<>>
      BY <1>1 DEF Holds, IsInOrder
    <3>2. ~StorageNow.dev.storage_wait
      BY <1>1, <1>7
    <3>3. ~TimedOut(StorageNow, n) /\ n # 0 /\ o.ret # "TIMEOUT" => storageCard.rqts = <<>>
      BY <1>6, <3>2 DEF RequestIsOwn
    <3> QED
      BY <1>2, <3>1, <3>3
  <2>3. IsInOrder(StorageNow, caller, storageCard')
    BY <1>1, <2>2 DEF Holds, IsInOrder, OpOf
  <2>4. Holds(StorageNow, caller, storageCard')
    BY <1>1, <1>4, <2>3 DEF Holds
  <2> QED
    BY <1>2, <2>1, <2>4 DEF IInv
<1>8. CASE dev.rqt # 0
  <2>1. n # 0 /\ StorageNow.dev.storage_wait
    BY <1>1, <1>8
  <2>2. StorageNow.dev.rqt = n
    BY <1>5, <2>1 DEF OperationFacts, RequestIsCurrent
  <2>3. StorageBecomes(t)
    BY <1>8 DEF Answer
  <2>4. ret \in {"SUCCESS", "ERROR", "INVALID_RESPONSE"} \cap Errors
    BY DEF StorageHyp, Errors
  <2>5. ASSUME ~TimedOut(StorageNow, n), o.ret # "TIMEOUT"
        PROVE  storageCard'.rqts = <<>> /\ (ret = "SUCCESS" => storageCard.moved = o.size)
    <3> DEFINE x == [op |-> n, ep |-> o.ep, size |-> o.size]
    <3>1. storageCard.rqts = <<x>>
      BY <1>6, <2>1, <2>5 DEF RequestIsOwn
    <3>2. x.size = o.size
      OBVIOUS
    <3> HIDE DEF x
    <3>3. Tail(<<x>>) = <<>> /\ Head(<<x>>) = x
      OBVIOUS
    <3> QED
      BY <1>2, <1>4, <3>1, <3>2, <3>3 DEF Rqt
  <2> HIDE DEF t
  <2>6. Holds(t, caller, storageCard')
    BY <1>1, <1>2, <1>4, <2>1, <2>2, <2>4, <2>5, AnswerHolds DEF t
  <2> QED
    BY <1>2, <2>3, <2>6, Becoming
<1> QED
  BY <1>7, <1>8

\* Every step keeps the invariant.
LEMMA NextKeeps ==
    ASSUME StorageHyp, IInv, [StorageNext]_storageVars
    PROVE  IInv'
<1>1. CASE UNCHANGED storageVars
  BY <1>1 DEF storageVars, IInv, StorageNow
<1>2. ASSUME NEW kind \in StorageKinds, NEW e \in Endpoints, NEW size \in Sizes, BeginOper(kind, e, size)
      PROVE  IInv'
  BY <1>2, BeginKeeps
<1>3. CASE OperThread
  BY <1>3, SendRequestKeeps, DrainKeeps, CancelQueueKeeps, ReplyKeeps DEF OperThread
<1>4. CASE SendTimeout
  BY <1>4, SendTimeoutKeeps
<1>5. CASE Card
  BY <1>5, DmaStartKeeps, DrqKeeps, AnswerKeeps DEF Card
<1> QED
  BY <1>1, <1>2, <1>3, <1>4, <1>5 DEF StorageNext

\* Whichever of the reply and the DMA ends first or fails, an operation that succeeds has
\* moved its own blocks, all of them; an asynchronous one is told of once; no callback uses
\* what is not there and no block is given before the one before is done: until an
\* operation has timed out (CyAsStorageSyncOper(), CyAsStorageAsyncOper()).
THEOREM StorageResult ==
    ASSUME StorageHyp
    PROVE  StorageSpec => []StorageResultIsTrue
<1>1. StorageInit => IInv
  BY InitHolds
<1>2. IInv /\ [StorageNext]_storageVars => IInv'
  BY NextKeeps
<1>3. IInv => StorageResultIsTrue
  BY ResultFollows
<1> QED
  BY <1>1, <1>2, <1>3, PTL DEF StorageSpec

-----------------------------------------------------------------------------
(* Control transfers: what the library has under way *)

CtlHyp ==
    /\ KPackets \in Nat /\ KParts \in Nat
    /\ PacketKinds \subseteq {"write", "plain", "stall", "feature", "config"}
    /\ GivesUp \subseteq {"write", "stall"}

CtlRqts == [code : {"DATA", "ACK", "STALL", "FEATURE"}, of : Nat, delay : BOOLEAN,
            state : {"QUEUED", "WAITING", "RECEIVED"}]
CtlUsbs == [delay_ack : Int, setup : BOOLEAN, ep0_stalled : BOOLEAN, async : BOOLEAN, cb : Nat,
            pending : Nat, cbs : Seq({"UsbAckCallback", "StallCallback", "StallCallbackEX"}),
            queue : Seq([of : Nat, left : Nat]), running : BOOLEAN, dma_req : BOOLEAN,
            calls : [1..KPackets -> Nat], failed : BOOLEAN]
CtlMessages == [code : {"DATA", "ACK", "STALL", "FEATURE", "status"}, of : Nat]
Libs == [usb : CtlUsbs, rqts : Seq(CtlRqts), mcu : Seq(CtlMessages)]

\* The answer the library is at: its next message, of which packet, and how many data follow.
Answers == [stage : {"none", "data", "sync", "ack", "stall", "feature", "config"}, of : Nat, left : Nat]
NoAnswer == [stage |-> "none", of |-> 0, left |-> 0]
Stage(stage, k, left) == [stage |-> stage, of |-> k, left |-> left]
WritesData(o) == o.stage \in {"data", "sync"}
DelaysAck(o) == o.stage \in {"data", "sync", "feature", "config"}
CodeOf(o) ==
    CASE o.stage = "data" -> "DATA"
      [] o.stage \in {"sync", "ack"} -> "ACK"
      [] o.stage = "stall" -> "STALL"
      [] OTHER -> "FEATURE"
CallbackOf(o) ==
    CASE o.stage \in {"sync", "ack"} -> "UsbAckCallback"
      [] o.stage \in {"stall", "feature"} -> "StallCallback"
      [] OTHER -> "StallCallbackEX"
CtlRqt(o, state) ==
    [code |-> CodeOf(o), of |-> o.of, delay |-> o.stage \in {"feature", "config"}, state |-> state]
OldStall(j) == [code |-> "STALL", of |-> j, delay |-> FALSE, state |-> "WAITING"]

\* In front of it may be the stall of a packet j before, of which the library knows no end.
RqtsOf(j, o) ==
    IF j = 0 THEN (IF o.stage = "none" THEN <<>> ELSE <<CtlRqt(o, "WAITING")>>)
    ELSE IF o.stage = "none" THEN <<OldStall(j)>> ELSE <<OldStall(j), CtlRqt(o, "QUEUED")>>
CbsOf(j, o) ==
    IF j = 0 THEN (IF o.stage \in {"none", "data"} THEN <<>> ELSE <<CallbackOf(o)>>)
    ELSE IF o.stage \in {"none", "data"} THEN <<"StallCallback">>
    ELSE <<"StallCallback", CallbackOf(o)>>

UsbIs(u, j, o) ==
    /\ u.delay_ack = (IF DelaysAck(o) THEN 1 ELSE 0)
    /\ (u.async <=> WritesData(o)) /\ u.cb = (IF WritesData(o) THEN o.of ELSE 0)
    /\ u.pending = (IF o.stage = "sync" THEN o.of ELSE 0)
    /\ u.queue = (IF o.stage = "data" THEN <<[of |-> o.of, left |-> o.left]>> ELSE <<>>)
    /\ (u.running <=> o.stage = "data") /\ (u.dma_req <=> o.stage # "data")
    /\ u.cbs = CbsOf(j, o) /\ (o.stage = "config" => u.setup) /\ ~u.failed
    /\ WritesData(o) => u.calls[o.of] = 0
LibIs(s, j, o) == s \in Libs /\ UsbIs(s.usb, j, o) /\ s.rqts = RqtsOf(j, o)

CtlMessage(o) == [code |-> CodeOf(o), of |-> o.of]
Messages(o) == IF o.stage = "none" THEN <<>> ELSE <<CtlMessage(o)>>

-----------------------------------------------------------------------------
(* What the library's functions do *)

LEMMA Pairs ==
    ASSUME NEW a, NEW b
    PROVE  /\ Append(<<>>, a) = <<a>> /\ Append(<<a>>, b) = <<a, b>>
           /\ Tail(<<a>>) = <<>> /\ Tail(<<a, b>>) = <<b>>
           /\ Head(<<a>>) = a /\ Head(<<a, b>>) = a /\ <<a>>[1] = a /\ <<a, b>>[1] = a
           /\ <<a>> # <<>> /\ <<a, b>> # <<>>
<1>1. Append(<<>>, a) = <<a>>
  OBVIOUS
<1>2. Append(<<a>>, b) = <<a, b>>
  <2> DEFINE S == {a, b}
             u == Append(<<a>>, b)
             v == <<a, b>>
  <2>1. <<a>> \in Seq(S) /\ v \in Seq(S) /\ b \in S /\ Len(<<a>>) = 1 /\ Len(v) = 2 /\ v[1] = a /\ v[2] = b
        /\ <<a>>[1] = a
    OBVIOUS
  <2> HIDE DEF S
  <2>2. u \in Seq(S) /\ Len(u) = 2 /\ u[1] = a /\ u[2] = b
    BY <2>1, AppendProperties
  <2> HIDE DEF u, v
  <2>3. \A i \in 1..Len(u) : u[i] = v[i]
    <3>1. \A i \in 1..Len(u) : i = 1 \/ i = 2
      BY <2>2
    <3> QED
      BY <2>1, <2>2, <3>1
  <2> QED
    BY <2>1, <2>2, <2>3, SeqEqual DEF u, v
<1>3. Tail(<<a>>) = <<>>
  OBVIOUS
<1>4. Tail(<<a, b>>) = <<b>>
  OBVIOUS
<1>5. Head(<<a>>) = a /\ Head(<<a, b>>) = a
  OBVIOUS
<1>6. <<a>>[1] = a /\ <<a, b>>[1] = a
  OBVIOUS
<1>7. <<a>> # <<>> /\ <<a, b>> # <<>>
  OBVIOUS
<1> QED
  BY <1>1, <1>2, <1>3, <1>4, <1>5, <1>6, <1>7

LEMMA SecondIsAppended ==
    ASSUME NEW a, NEW b
    PROVE  Append(<<a>>, b) = <<a, b>>
  BY Pairs

\* A request is queued, and sent when it is the first.
QueuedRqt(code, of, delay) == [code |-> code, of |-> of, delay |-> delay, state |-> "QUEUED"]
LEMMA SendNextDoes ==
    ASSUME NEW s \in Libs, NEW r \in CtlRqts, s.rqts = <<r>>, r.state = "QUEUED"
    PROVE  /\ SendNextRqt(s) \in Libs /\ SendNextRqt(s).usb = s.usb
           /\ SendNextRqt(s).rqts = <<[r EXCEPT !.state = "WAITING"]>>
           /\ SendNextRqt(s).mcu = Append(s.mcu, [code |-> r.code, of |-> r.of])
<1> DEFINE t == SendNextRqt(s)
           w == [r EXCEPT !.state = "WAITING"]
           m == [code |-> r.code, of |-> r.of]
<1>1. w \in CtlRqts /\ m \in CtlMessages
  BY DEF CtlRqts, CtlMessages
<1>2. Head(s.rqts) = r /\ s.rqts # <<>> /\ [s.rqts EXCEPT ![1].state = "WAITING"] = <<w>>
  BY Pairs
<1>3. t = [s EXCEPT !.rqts[1].state = "WAITING", !.mcu = Append(@, [code |-> r.code, of |-> r.of])]
  BY <1>2 DEF SendNextRqt
<1>4. t = [s EXCEPT !.rqts = <<w>>, !.mcu = Append(s.mcu, m)]
  BY <1>2, <1>3 DEF Libs
<1> HIDE DEF t, w, m
<1>5. <<w>> \in Seq(CtlRqts) /\ Append(s.mcu, m) \in Seq(CtlMessages)
  BY <1>1 DEF Libs
<1>6. t \in Libs /\ t.usb = s.usb /\ t.rqts = <<w>> /\ t.mcu = Append(s.mcu, m)
  BY <1>4, <1>5 DEF Libs
<1> QED
  BY <1>6 DEF t, w, m

\* t is s with a request more: sent, or behind the one that was sent.
RequestSent(s, t, code, of, delay) ==
    /\ t \in Libs /\ t.usb = s.usb
    /\ t.rqts = <<[QueuedRqt(code, of, delay) EXCEPT !.state = "WAITING"]>>
    /\ t.mcu = Append(s.mcu, [code |-> code, of |-> of])
RequestBehind(s, t, h, code, of, delay) ==
    t \in Libs /\ t.usb = s.usb /\ t.mcu = s.mcu /\ t.rqts = <<h, QueuedRqt(code, of, delay)>>

LEMMA RequestIsSent ==
    ASSUME NEW s \in Libs, NEW code \in {"DATA", "ACK", "STALL", "FEATURE"}, NEW of \in Nat,
           NEW delay \in BOOLEAN, s.rqts = <<>>
    PROVE  RequestSent(s, SendUsbRequest(s, code, of, delay), code, of, delay)
<1> DEFINE r == QueuedRqt(code, of, delay)
           q == [s EXCEPT !.rqts = Append(s.rqts, r)]
           t == SendUsbRequest(s, code, of, delay)
<1>1. r \in CtlRqts /\ r.state = "QUEUED" /\ r.code = code /\ r.of = of
  BY DEF CtlRqts, QueuedRqt
<1>2. t = SendNextRqt(q)
  BY DEF SendUsbRequest, QueuedRqt
<1> HIDE DEF t
<1>3. Append(s.rqts, r) = <<r>> /\ <<r>> \in Seq(CtlRqts)
  BY <1>1, Pairs
<1>4. q \in Libs /\ q.usb = s.usb /\ q.mcu = s.mcu /\ q.rqts = <<r>>
  <2> HIDE DEF r
  <2> QED
    BY <1>3 DEF Libs
<1> HIDE DEF r, q
<1>5. /\ t \in Libs /\ t.usb = q.usb
      /\ t.rqts = <<[r EXCEPT !.state = "WAITING"]>>
      /\ t.mcu = Append(q.mcu, [code |-> r.code, of |-> r.of])
  BY <1>1, <1>2, <1>4, SendNextDoes
<1>6. t.usb = s.usb /\ t.mcu = Append(s.mcu, [code |-> code, of |-> of])
  BY <1>1, <1>4, <1>5
<1> QED
  BY <1>5, <1>6 DEF RequestSent, t, r

LEMMA RequestIsBehind ==
    ASSUME NEW s \in Libs, NEW code \in {"DATA", "ACK", "STALL", "FEATURE"}, NEW of \in Nat,
           NEW delay \in BOOLEAN, NEW h \in CtlRqts, s.rqts = <<h>>, h.state # "QUEUED"
    PROVE  RequestBehind(s, SendUsbRequest(s, code, of, delay), h, code, of, delay)
<1> DEFINE r == QueuedRqt(code, of, delay)
           q == [s EXCEPT !.rqts = Append(s.rqts, r)]
           t == SendUsbRequest(s, code, of, delay)
<1>1. r \in CtlRqts
  BY DEF CtlRqts, QueuedRqt
<1>2. t = SendNextRqt(q)
  BY DEF SendUsbRequest, QueuedRqt
<1> HIDE DEF t, r
<1>3. Append(s.rqts, r) = <<h, r>> /\ <<h, r>> \in Seq(CtlRqts)
  <2>1. Append(s.rqts, r) = <<h, r>>
    BY Pairs
  <2>2. <<h, r>> \in Seq(CtlRqts)
    BY <1>1
  <2> QED
    BY <2>1, <2>2
<1>4. q \in Libs /\ q.usb = s.usb /\ q.mcu = s.mcu /\ q.rqts = <<h, r>>
  BY <1>3 DEF Libs
<1> HIDE DEF q
<1>5. Head(q.rqts) = h
  BY <1>4, Pairs
<1>6. t = q
  BY <1>2, <1>5 DEF SendNextRqt
<1> QED
  BY <1>4, <1>6 DEF RequestBehind, t, r

LEMMA RqtStates ==
    ASSUME NEW o \in Answers, o.stage # "none"
    PROVE  LET q == QueuedRqt(CodeOf(o), o.of, o.stage \in {"feature", "config"})
           IN  /\ CodeOf(o) \in {"DATA", "ACK", "STALL", "FEATURE"} /\ o.of \in Nat
               /\ q = CtlRqt(o, "QUEUED") /\ q.state = "QUEUED" /\ q.code = CodeOf(o) /\ q.of = o.of
               /\ [q EXCEPT !.state = "WAITING"] = CtlRqt(o, "WAITING")
               /\ CtlRqt(o, "QUEUED") \in CtlRqts /\ CtlRqt(o, "WAITING") \in CtlRqts
<1> DEFINE c == CodeOf(o)
           d == o.stage \in {"feature", "config"}
           q == QueuedRqt(c, o.of, d)
<1>1. c \in {"DATA", "ACK", "STALL", "FEATURE"} /\ o.of \in Nat /\ d \in BOOLEAN
  BY DEF Answers, CodeOf
<1>2. q = CtlRqt(o, "QUEUED") /\ [q EXCEPT !.state = "WAITING"] = CtlRqt(o, "WAITING")
  BY DEF QueuedRqt, CtlRqt
<1>3. CtlRqt(o, "QUEUED") \in CtlRqts /\ CtlRqt(o, "WAITING") \in CtlRqts
  <2>1. \A state \in {"QUEUED", "WAITING"} : CtlRqt(o, state) = [code |-> c, of |-> o.of, delay |-> d, state |-> state]
    BY DEF CtlRqt
  <2> HIDE DEF c, d
  <2> QED
    BY <1>1, <2>1 DEF CtlRqts
<1>4. q.state = "QUEUED" /\ q.code = c /\ q.of = o.of
  BY DEF QueuedRqt
<1> QED
  BY <1>1, <1>2, <1>3, <1>4

LEMMA OldStallIs ==
    ASSUME NEW j \in Nat
    PROVE  OldStall(j) \in CtlRqts
  BY DEF CtlRqts, OldStall

\* What the library knows of endpoint 0 changes, and nothing else.
WithUsb(s, u) == [s EXCEPT !.usb = u]
LEMMA WithUsbIs ==
    ASSUME NEW s \in Libs, NEW u \in CtlUsbs
    PROVE  WithUsb(s, u) \in Libs /\ WithUsb(s, u).usb = u /\ WithUsb(s, u).rqts = s.rqts
           /\ WithUsb(s, u).mcu = s.mcu
  BY DEF Libs, WithUsb

\* The head of the queue is answered, removed, and the next request sent.
Received(s) == [s EXCEPT !.rqts[1].state = "RECEIVED"]
Removed(x) == SendNextRqt([x EXCEPT !.rqts = Tail(@)])

LEMMA ReceivedIs ==
    ASSUME NEW s \in Libs, NEW h \in CtlRqts, s.rqts = <<h>> \/ \E q \in CtlRqts : s.rqts = <<h, q>>
    PROVE  LET g == [h EXCEPT !.state = "RECEIVED"]
           IN  /\ Received(s) \in Libs /\ Received(s).usb = s.usb /\ Received(s).mcu = s.mcu
               /\ g \in CtlRqts /\ g.state # "QUEUED" /\ Head(s.rqts) = h
               /\ s.rqts = <<h>> => Received(s).rqts = <<g>>
               /\ \A q \in CtlRqts : s.rqts = <<h, q>> => Received(s).rqts = <<g, q>>
<1> DEFINE g == [h EXCEPT !.state = "RECEIVED"]
           v == [s.rqts EXCEPT ![1].state = "RECEIVED"]
<1>1. g \in CtlRqts /\ g.state # "QUEUED"
  BY DEF CtlRqts
<1>2. Received(s) = [s EXCEPT !.rqts = v]
  BY DEF Received
<1>3. s.rqts = <<h>> => v = <<g>> /\ v \in Seq(CtlRqts) /\ Head(s.rqts) = h
  <2> SUFFICES ASSUME s.rqts = <<h>>
               PROVE  v = <<g>> /\ v \in Seq(CtlRqts) /\ Head(s.rqts) = h
    OBVIOUS
  <2>1. v = <<g>>
    OBVIOUS
  <2> HIDE DEF g, v
  <2>2. <<g>> \in Seq(CtlRqts)
    BY <1>1
  <2> QED
    BY <2>1, <2>2
<1>4. ASSUME NEW q \in CtlRqts, s.rqts = <<h, q>>
      PROVE  v = <<g, q>> /\ v \in Seq(CtlRqts) /\ Head(s.rqts) = h
  <2>1. v = <<g, q>>
    BY <1>4
  <2> HIDE DEF g, v
  <2>2. <<g, q>> \in Seq(CtlRqts)
    BY <1>1
  <2>3. Head(s.rqts) = h
    BY <1>4, Pairs
  <2> QED
    BY <2>1, <2>2, <2>3
<1> HIDE DEF v
<1>5. v \in Seq(CtlRqts) /\ Head(s.rqts) = h
  BY <1>3, <1>4
<1>6. Received(s) \in Libs /\ Received(s).usb = s.usb /\ Received(s).mcu = s.mcu /\ Received(s).rqts = v
  BY <1>2, <1>5 DEF Libs
<1> HIDE DEF g
<1>7. \A q \in CtlRqts : s.rqts = <<h, q>> => Received(s).rqts = <<g, q>>
  BY <1>4, <1>6
<1>8. s.rqts = <<h>> => Received(s).rqts = <<g>>
  BY <1>3, <1>6
<1> QED
  BY <1>1, <1>5, <1>6, <1>7, <1>8 DEF g

LEMMA LastIsRemoved ==
    ASSUME NEW x \in Libs, NEW h, x.rqts = <<h>>
    PROVE  Removed(x) \in Libs /\ Removed(x).usb = x.usb /\ Removed(x).mcu = x.mcu /\ Removed(x).rqts = <<>>
<1> DEFINE y == [x EXCEPT !.rqts = Tail(@)]
<1>1. Tail(x.rqts) = <<>> /\ <<>> \in Seq(CtlRqts)
  BY Pairs
<1>2. y \in Libs /\ y.usb = x.usb /\ y.mcu = x.mcu /\ y.rqts = <<>>
  BY <1>1 DEF Libs
<1>3. SendNextRqt(y) = y
  BY <1>2 DEF SendNextRqt
<1> QED
  BY <1>2, <1>3 DEF Removed

LEMMA NextIsSent ==
    ASSUME NEW x \in Libs, NEW h, NEW q \in CtlRqts, x.rqts = <<h, q>>, q.state = "QUEUED"
    PROVE  /\ Removed(x) \in Libs /\ Removed(x).usb = x.usb
           /\ Removed(x).rqts = <<[q EXCEPT !.state = "WAITING"]>>
           /\ Removed(x).mcu = Append(x.mcu, [code |-> q.code, of |-> q.of])
<1> DEFINE y == [x EXCEPT !.rqts = Tail(@)]
<1>1. Tail(x.rqts) = <<q>> /\ <<q>> \in Seq(CtlRqts)
  <2>1. Tail(x.rqts) = <<q>>
    BY Pairs
  <2> QED
    BY <2>1
<1>2. y \in Libs /\ y.usb = x.usb /\ y.mcu = x.mcu /\ y.rqts = <<q>>
  BY <1>1 DEF Libs
<1> HIDE DEF y
<1>3. Removed(x) = SendNextRqt(y)
  BY DEF Removed, y
<1> QED
  BY <1>2, <1>3, SendNextDoes

-----------------------------------------------------------------------------
(* Replies *)

Answered(s) ==
    LET rqt == Head(s.rqts)
        t == CASE rqt.code = "ACK" -> AckCallback(Received(s), rqt.of)
               [] rqt.code = "DATA" -> DmaCompleted([Received(s) EXCEPT !.usb.dma_req = TRUE])
               [] OTHER -> UsbFuncCallback(Received(s), rqt)
    IN  Removed(t)
After(t, o) == LibIs(t, 0, o) /\ t.mcu = Messages(o)

LEMMA LibHas ==
    ASSUME NEW s \in Libs
    PROVE  s.usb \in CtlUsbs /\ s.rqts \in Seq(CtlRqts) /\ s.mcu \in Seq(CtlMessages)
  BY DEF Libs

\* A callback of the driver that does nothing.
LEMMA StallCallbackIs ==
    ASSUME NEW s \in Libs, NEW rest, NEW of, s.usb.cbs # <<>>, Head(s.usb.cbs) = "StallCallback",
           Tail(s.usb.cbs) = rest
    PROVE  /\ CallBack(s, of) = WithUsb(s, [s.usb EXCEPT !.cbs = rest])
           /\ [s.usb EXCEPT !.cbs = rest] \in CtlUsbs
<1>1. CallBack(s, of) = [s EXCEPT !.usb.cbs = Tail(@)]
  BY DEF CallBack
<1>2. CallBack(s, of) = WithUsb(s, [s.usb EXCEPT !.cbs = rest])
  BY <1>1, LibHas DEF WithUsb, Libs
<1>3. rest \in Seq({"UsbAckCallback", "StallCallback", "StallCallbackEX"})
  <2>1. s.usb.cbs \in Seq({"UsbAckCallback", "StallCallback", "StallCallbackEX"})
    BY LibHas DEF CtlUsbs
  <2> QED
    BY <2>1, HeadTailProperties
<1> QED
  BY <1>2, <1>3, LibHas DEF CtlUsbs

\* The messages with the one of the answer behind them.
Behind(m, o) == IF o.stage = "none" THEN m ELSE Append(m, CtlMessage(o))
LEMMA OldStallEnds ==
    ASSUME NEW s, NEW j \in Nat \ {0}, NEW o \in Answers, LibIs(s, j, o)
    PROVE  /\ LibIs(Answered(s), 0, o) /\ Answered(s).mcu = Behind(s.mcu, o)
           /\ Answered(s).usb.calls = s.usb.calls
<1> DEFINE h == OldStall(j)
           g == [h EXCEPT !.state = "RECEIVED"]
           r == Received(s)
           rest == CbsOf(0, o)
           u == [s.usb EXCEPT !.cbs = rest]
           x == WithUsb(r, u)
           t == Answered(s)
<1>1. s \in Libs /\ UsbIs(s.usb, j, o) /\ s.rqts = RqtsOf(j, o)
  BY DEF LibIs
<1>2. h \in CtlRqts /\ h.code = "STALL" /\ h.delay = FALSE /\ h.of = j
  BY OldStallIs DEF OldStall
<1>3. /\ o.stage = "none" => s.rqts = <<h>>
      /\ o.stage # "none" => s.rqts = <<h, CtlRqt(o, "QUEUED")>> /\ CtlRqt(o, "QUEUED") \in CtlRqts
  BY <1>1, RqtStates DEF RqtsOf
<1> HIDE DEF h
<1>4. /\ r \in Libs /\ r.usb = s.usb /\ r.mcu = s.mcu /\ Head(s.rqts) = h
      /\ o.stage = "none" => r.rqts = <<g>>
      /\ o.stage # "none" => r.rqts = <<g, CtlRqt(o, "QUEUED")>>
  <2> HIDE DEF r, g
  <2>1. s.rqts = <<h>> \/ \E q \in CtlRqts : s.rqts = <<h, q>>
    BY <1>3
  <2> QED
    BY <1>1, <1>2, <1>3, <2>1, ReceivedIs DEF r, g
<1>5. s.usb.cbs # <<>> /\ Head(s.usb.cbs) = "StallCallback" /\ Tail(s.usb.cbs) = rest
  <2>1. s.usb.cbs = CbsOf(j, o)
    BY <1>1 DEF UsbIs
  <2> QED
    BY <2>1, Pairs DEF CbsOf
<1> HIDE DEF r, rest, g
<1>6. CallBack(r, h.of) = x /\ u \in CtlUsbs
  <2> HIDE DEF x, u
  <2>1. CallBack(r, h.of) = WithUsb(r, [r.usb EXCEPT !.cbs = rest]) /\ [r.usb EXCEPT !.cbs = rest] \in CtlUsbs
    BY <1>4, <1>5, StallCallbackIs
  <2> QED
    BY <1>4, <2>1 DEF x, u
<1>7. t = Removed(x)
  <2>1. UsbFuncCallback(r, h) = x
    BY <1>2, <1>6, Zenon DEF UsbFuncCallback
  <2> HIDE DEF x
  <2> QED
    BY <1>2, <1>4, <2>1 DEF Answered, r
<1>8. x \in Libs /\ x.usb = u /\ x.rqts = r.rqts /\ x.mcu = s.mcu
  BY <1>4, <1>6, WithUsbIs
<1> HIDE DEF x, t
<1>9. /\ t \in Libs /\ t.usb = u
      /\ o.stage = "none" => t.rqts = <<>> /\ t.mcu = s.mcu
      /\ o.stage # "none" => t.rqts = <<CtlRqt(o, "WAITING")>> /\ t.mcu = Append(s.mcu, CtlMessage(o))
  <2>1. CASE o.stage = "none"
    BY <1>4, <1>7, <1>8, <2>1, LastIsRemoved
  <2>2. CASE o.stage # "none"
    <3> DEFINE q == CtlRqt(o, "QUEUED")
    <3>1. q \in CtlRqts /\ q.state = "QUEUED" /\ q.code = CodeOf(o) /\ q.of = o.of
          /\ [q EXCEPT !.state = "WAITING"] = CtlRqt(o, "WAITING")
      BY <2>2, RqtStates
    <3> HIDE DEF q
    <3>2. x.rqts = <<g, q>>
      BY <1>4, <1>8, <2>2 DEF q
    <3>3. /\ t \in Libs /\ t.usb = x.usb /\ t.rqts = <<[q EXCEPT !.state = "WAITING"]>>
          /\ t.mcu = Append(x.mcu, [code |-> q.code, of |-> q.of])
      BY <1>7, <1>8, <3>1, <3>2, NextIsSent
    <3> QED
      BY <1>8, <2>2, <3>1, <3>3, Pairs DEF CtlMessage
  <2> QED
    BY <2>1, <2>2
<1>10. UsbIs(u, 0, o) /\ u.calls = s.usb.calls
  BY <1>1, LibHas DEF UsbIs, CtlUsbs, rest
<1> HIDE DEF u
<1> QED
  BY <1>9, <1>10 DEF Behind, LibIs, RqtsOf, t

Answering(s, o, h, g, r) ==
    /\ s \in Libs /\ s.usb \in CtlUsbs /\ UsbIs(s.usb, 0, o)
    /\ Head(s.rqts) = h /\ h.code = CodeOf(o) /\ h.of = o.of /\ o.of \in Nat
    /\ (h.delay <=> o.stage \in {"feature", "config"})
    /\ r \in Libs /\ r.usb = s.usb /\ r.mcu = <<>> /\ r.rqts = <<g>> /\ g \in CtlRqts /\ g.state # "QUEUED"

LEMMA HeadAnswered ==
    ASSUME NEW s, NEW o \in Answers, LibIs(s, 0, o), o.stage # "none", s.mcu = <<>>
    PROVE  \E h, g : Answering(s, o, h, g, Received(s))
<1> DEFINE h == CtlRqt(o, "WAITING")
           g == [h EXCEPT !.state = "RECEIVED"]
           r == Received(s)
<1>1. s \in Libs /\ UsbIs(s.usb, 0, o) /\ s.rqts = <<h>> /\ s.usb \in CtlUsbs
  BY LibHas DEF LibIs, RqtsOf
<1>2. h \in CtlRqts /\ h.code = CodeOf(o) /\ h.of = o.of /\ o.of \in Nat
      /\ (h.delay <=> o.stage \in {"feature", "config"})
  BY RqtStates DEF CtlRqt
<1> HIDE DEF h
<1>3. /\ r \in Libs /\ r.usb = s.usb /\ r.mcu = s.mcu /\ r.rqts = <<g>> /\ g \in CtlRqts /\ g.state # "QUEUED"
      /\ Head(s.rqts) = h
  <2> HIDE DEF r, g
  <2> QED
    BY <1>1, <1>2, ReceivedIs DEF r, g
<1> HIDE DEF r, g
<1>4. Answering(s, o, h, g, r)
  BY <1>1, <1>2, <1>3 DEF Answering
<1> QED
  BY <1>4 DEF r

\* The setup packet is acknowledged.
WithAck(u) == [u EXCEPT !.cbs = Append(@, "UsbAckCallback")]
LEMMA AckIsRequest ==
    ASSUME NEW s \in Libs, NEW of \in Nat
    PROVE  /\ WithAck(s.usb) \in CtlUsbs
           /\ AckSetupPacket(s, of) = SendUsbRequest(WithUsb(s, WithAck(s.usb)), "ACK", of, FALSE)
<1>1. s.usb \in CtlUsbs /\ s.usb.cbs \in Seq({"UsbAckCallback", "StallCallback", "StallCallbackEX"})
  BY LibHas DEF CtlUsbs
<1>2. Append(s.usb.cbs, "UsbAckCallback") \in Seq({"UsbAckCallback", "StallCallback", "StallCallbackEX"})
  BY <1>1
<1>3. WithAck(s.usb) \in CtlUsbs
  BY <1>1, <1>2 DEF CtlUsbs, WithAck
<1>4. [s EXCEPT !.usb.cbs = Append(@, "UsbAckCallback")] = WithUsb(s, WithAck(s.usb))
  BY <1>1 DEF WithUsb, WithAck, Libs
<1> QED
  BY <1>3, <1>4 DEF AckSetupPacket

LEMMA AckIsBehind ==
    ASSUME NEW s \in Libs, NEW g \in CtlRqts, s.rqts = <<g>>, g.state # "QUEUED", NEW of \in Nat
    PROVE  /\ AckSetupPacket(s, of) \in Libs /\ AckSetupPacket(s, of).usb = WithAck(s.usb)
           /\ AckSetupPacket(s, of).mcu = s.mcu
           /\ AckSetupPacket(s, of).rqts = <<g, QueuedRqt("ACK", of, FALSE)>>
<1> DEFINE u == WithAck(s.usb)
           x == WithUsb(s, u)
           t == AckSetupPacket(s, of)
<1>1. u \in CtlUsbs /\ t = SendUsbRequest(x, "ACK", of, FALSE)
  BY AckIsRequest
<1> HIDE DEF u, t
<1>2. x \in Libs /\ x.usb = u /\ x.rqts = <<g>> /\ x.mcu = s.mcu
  BY <1>1, WithUsbIs
<1> HIDE DEF x
<1>3. RequestBehind(x, t, g, "ACK", of, FALSE)
  BY <1>1, <1>2, RequestIsBehind
<1>4. t \in Libs /\ t.usb = u /\ t.mcu = s.mcu /\ t.rqts = <<g, QueuedRqt("ACK", of, FALSE)>>
  BY <1>2, <1>3 DEF RequestBehind
<1> QED
  BY <1>4 DEF t, u

\* A request that was made behind the answered one is what the library is at.
LEMMA NextAnswer ==
    ASSUME NEW x \in Libs, NEW g, NEW o \in Answers, o.stage # "none", UsbIs(x.usb, 0, o), x.mcu = <<>>,
           x.rqts = <<g, QueuedRqt(CodeOf(o), o.of, o.stage \in {"feature", "config"})>>
    PROVE  After(Removed(x), o) /\ Removed(x).usb = x.usb
<1> DEFINE q == QueuedRqt(CodeOf(o), o.of, o.stage \in {"feature", "config"})
           t == Removed(x)
<1>1. q \in CtlRqts /\ q.state = "QUEUED" /\ q.code = CodeOf(o) /\ q.of = o.of
      /\ [q EXCEPT !.state = "WAITING"] = CtlRqt(o, "WAITING")
  BY RqtStates
<1>2. x.rqts = <<g, q>>
  OBVIOUS
<1> HIDE DEF q, t
<1>3. /\ t \in Libs /\ t.usb = x.usb /\ t.rqts = <<[q EXCEPT !.state = "WAITING"]>>
      /\ t.mcu = Append(x.mcu, [code |-> q.code, of |-> q.of])
  BY <1>1, <1>2, NextIsSent DEF t
<1>4. t.mcu = <<CtlMessage(o)>> /\ t.rqts = <<CtlRqt(o, "WAITING")>>
  BY <1>1, <1>3, Pairs DEF CtlMessage
<1> QED
  BY <1>3, <1>4 DEF After, LibIs, RqtsOf, Messages, t

\* Nothing is left of the answer.
LEMMA NoMore ==
    ASSUME NEW x \in Libs, NEW g, x.rqts = <<g>>, x.mcu = <<>>, UsbIs(x.usb, 0, NoAnswer)
    PROVE  After(Removed(x), NoAnswer) /\ Removed(x).usb = x.usb
<1>1. Removed(x) \in Libs /\ Removed(x).usb = x.usb /\ Removed(x).mcu = x.mcu /\ Removed(x).rqts = <<>>
  BY LastIsRemoved
<1> QED
  BY <1>1 DEF After, LibIs, RqtsOf, Messages, NoAnswer

LEMMA DataGoOn ==
    ASSUME NEW s, NEW o \in Answers, LibIs(s, 0, o), o.stage = "data", o.left > 1, s.mcu = <<>>
    PROVE  /\ After(Answered(s), Stage("data", o.of, o.left - 1))
           /\ Answered(s).usb.calls = s.usb.calls
<1> DEFINE n == Stage("data", o.of, o.left - 1)
           t == Answered(s)
           r == Received(s)
           u1 == [s.usb EXCEPT !.dma_req = TRUE]
           r1 == WithUsb(r, u1)
           u2 == [u1 EXCEPT !.queue = <<[of |-> o.of, left |-> o.left - 1]>>]
           r2 == WithUsb(r1, u2)
           u3 == [u2 EXCEPT !.running = TRUE, !.dma_req = FALSE]
           r3 == WithUsb(r2, u3)
           x == SendUsbRequest(r3, "DATA", o.of, FALSE)
<1>1. PICK h, g : Answering(s, o, h, g, r)
  BY HeadAnswered
<1>2. o.of \in Nat /\ o.left \in Nat /\ o.left - 1 \in Nat
  BY DEF Answers
<1>3. n \in Answers /\ n.stage = "data" /\ n.of = o.of /\ n.left = o.left - 1
  BY <1>2 DEF Stage, Answers
<1>4. s.usb \in CtlUsbs /\ s.usb.queue = <<[of |-> o.of, left |-> o.left]>>
  BY <1>1 DEF Answering, UsbIs
<1>5. u1 \in CtlUsbs /\ u1.queue = s.usb.queue
  BY <1>4 DEF CtlUsbs
<1>6. u2 \in CtlUsbs
  <2>1. [of |-> o.of, left |-> o.left - 1] \in [of : Nat, left : Nat]
    BY <1>2
  <2>2. <<[of |-> o.of, left |-> o.left - 1]>> \in Seq([of : Nat, left : Nat])
    BY <2>1
  <2> HIDE DEF u1
  <2> QED
    BY <1>5, <2>2 DEF CtlUsbs
<1>7. u3 \in CtlUsbs
  <2> HIDE DEF u1, u2
  <2> QED
    BY <1>6 DEF CtlUsbs
<1>8. /\ u3.queue = <<[of |-> o.of, left |-> o.left - 1]>> /\ u3.running = TRUE /\ u3.dma_req = FALSE
      /\ u3.delay_ack = s.usb.delay_ack /\ u3.async = s.usb.async /\ u3.cb = s.usb.cb /\ u3.pending = s.usb.pending
      /\ u3.cbs = s.usb.cbs /\ u3.setup = s.usb.setup /\ u3.failed = s.usb.failed /\ u3.calls = s.usb.calls
      /\ u2.queue = u3.queue /\ u2.dma_req = TRUE
  BY <1>4 DEF CtlUsbs
<1> HIDE DEF u1, u2, u3, r
<1>9. r1 \in Libs /\ r1.usb = u1 /\ r1.rqts = <<g>> /\ r1.mcu = <<>>
  BY <1>1, <1>5, WithUsbIs DEF Answering
<1> HIDE DEF r1
<1>10. r2 \in Libs /\ r2.usb = u2 /\ r2.rqts = <<g>> /\ r2.mcu = <<>>
  BY <1>6, <1>9, WithUsbIs
<1> HIDE DEF r2
<1>11. r3 \in Libs /\ r3.usb = u3 /\ r3.rqts = <<g>> /\ r3.mcu = <<>>
  BY <1>7, <1>10, WithUsbIs
<1> HIDE DEF r3, x
<1>12. RequestBehind(r3, x, g, "DATA", o.of, FALSE)
  BY <1>1, <1>2, <1>11, RequestIsBehind DEF Answering, x
<1>13. t = Removed(x)
  <2>1. [r EXCEPT !.usb.dma_req = TRUE] = r1
    <3>1. r.usb = s.usb /\ r \in Libs
      BY <1>1 DEF Answering
    <3> QED
      BY <3>1, Zenon DEF WithUsb, r1, u1
  <2>2. r1.usb.queue # <<>> /\ Head(r1.usb.queue).left > 1
    <3> DEFINE e == [of |-> o.of, left |-> o.left]
    <3>1. r1.usb.queue = <<e>> /\ e.left > 1
      BY <1>4, <1>5, <1>9
    <3> HIDE DEF e
    <3> QED
      BY <3>1, Pairs
  <2>3. [r1 EXCEPT !.usb.queue[1].left = @ - 1] = r2
    <3>1. [r1.usb.queue EXCEPT ![1].left = @ - 1] = <<[of |-> o.of, left |-> o.left - 1]>>
      BY <1>4, <1>5, <1>9
    <3> DEFINE v == [r1.usb EXCEPT !.queue = [r1.usb.queue EXCEPT ![1].left = @ - 1]]
    <3>2. [r1 EXCEPT !.usb.queue[1].left = @ - 1] = [r1 EXCEPT !.usb = v]
      BY <1>5, <1>9 DEF Libs, CtlUsbs
    <3>3. v = u2
      BY <1>9, <3>1, Zenon DEF u2
    <3> HIDE DEF v
    <3> QED
      BY <3>2, <3>3 DEF WithUsb, r2
  <2>4. DmaCompleted(r1) = SendEp0Dma(r2)
    BY <2>2, <2>3, Zenon DEF DmaCompleted
  <2>5. r2.usb.queue # <<>> /\ Head(r2.usb.queue).of = o.of /\ r2.usb.dma_req
    BY <1>8, <1>10, Pairs
  <2>6. [r2 EXCEPT !.usb.running = TRUE, !.usb.dma_req = FALSE] = r3
    BY <1>6, <1>10 DEF WithUsb, Libs, r3, u3
  <2>7. SendEp0Dma(r2) = x
    BY <2>5, <2>6 DEF SendEp0Dma, Asserts, x
  <2>8. Head(s.rqts).code = "DATA"
    BY <1>1 DEF Answering, CodeOf
  <2> QED
    BY <2>1, <2>4, <2>7, <2>8 DEF Answered, r
<1>14. UsbIs(u3, 0, n)
  BY <1>1, <1>3, <1>8 DEF Answering, UsbIs, CbsOf, WritesData, DelaysAck
<1>15. CodeOf(n) = "DATA" /\ (n.stage \in {"feature", "config"}) = FALSE
  BY <1>3 DEF CodeOf
<1> HIDE DEF n, t
<1>16. After(Removed(x), n) /\ Removed(x).usb = x.usb
  BY <1>3, <1>11, <1>12, <1>14, <1>15, NextAnswer DEF RequestBehind
<1> QED
  BY <1>8, <1>11, <1>12, <1>13, <1>16 DEF RequestBehind, n, t

\* The last data have gone: the acknowledgement that they have delayed.
LEMMA DataEnd ==
    ASSUME NEW s, NEW o \in Answers, LibIs(s, 0, o), o.stage = "data", ~(o.left > 1), s.mcu = <<>>
    PROVE  After(Answered(s), Stage("sync", o.of, 0)) /\ Answered(s).usb.calls = s.usb.calls
<1> DEFINE n == Stage("sync", o.of, 0)
           t == Answered(s)
           r == Received(s)
           u1 == [s.usb EXCEPT !.dma_req = TRUE]
           r1 == WithUsb(r, u1)
           u2 == [u1 EXCEPT !.queue = <<>>]
           r2 == WithUsb(r1, u2)
           u3 == [u2 EXCEPT !.pending = o.of]
           r3 == WithUsb(r2, u3)
           u4 == WithAck(u3)
           x4 == AckSetupPacket(r3, o.of)
           u5 == [u4 EXCEPT !.running = FALSE]
           x == WithUsb(x4, u5)
<1>1. PICK h, g : Answering(s, o, h, g, r)
  BY HeadAnswered
<1>2. o.of \in Nat
  BY DEF Answers
<1>3. n \in Answers /\ n.stage = "sync" /\ n.of = o.of
  BY <1>2 DEF Stage, Answers
<1>4. s.usb \in CtlUsbs /\ s.usb.queue = <<[of |-> o.of, left |-> o.left]>> /\ s.usb.delay_ack = 1 /\ s.usb.cbs = <<>>
  BY <1>1 DEF Answering, UsbIs, DelaysAck, CbsOf
<1>5. u1 \in CtlUsbs /\ u1.queue = s.usb.queue
  BY <1>4 DEF CtlUsbs
<1>6. u3 \in CtlUsbs /\ u2 \in CtlUsbs /\ u2.delay_ack = 1
  <2>1. <<>> \in Seq([of : Nat, left : Nat])
    OBVIOUS
  <2> QED
    BY <1>2, <1>4, <2>1 DEF CtlUsbs
<1>7. u3.cbs = <<>> /\ u4.cbs = <<"UsbAckCallback">> /\ u4 \in CtlUsbs
  <2>1. u3.cbs = <<>>
    BY <1>4 DEF CtlUsbs
  <2> HIDE DEF u3
  <2>2. Append(u3.cbs, "UsbAckCallback") = <<"UsbAckCallback">>
    BY <2>1, Pairs
  <2>3. <<"UsbAckCallback">> \in Seq({"UsbAckCallback", "StallCallback", "StallCallbackEX"})
    OBVIOUS
  <2>4. u4 = [u3 EXCEPT !.cbs = <<"UsbAckCallback">>]
    BY <2>2, Zenon DEF WithAck
  <2> QED
    BY <1>6, <2>1, <2>3, <2>4 DEF CtlUsbs
<1>8. u5 \in CtlUsbs /\ u5.cbs = <<"UsbAckCallback">>
  <2> HIDE DEF u4
  <2> QED
    BY <1>7 DEF CtlUsbs
<1>9. /\ u5.queue = <<>> /\ u5.running = FALSE /\ u5.dma_req = TRUE
      /\ u5.delay_ack = 1 /\ u5.async = s.usb.async /\ u5.cb = s.usb.cb /\ u5.pending = o.of
      /\ u5.setup = s.usb.setup /\ u5.failed = s.usb.failed /\ u5.calls = s.usb.calls /\ u4.queue = <<>>
  BY <1>4 DEF CtlUsbs, WithAck
<1> HIDE DEF u1, u2, u3, u4, u5, r
<1>10. r1 \in Libs /\ r1.usb = u1 /\ r1.rqts = <<g>> /\ r1.mcu = <<>>
  BY <1>1, <1>5, WithUsbIs DEF Answering
<1> HIDE DEF r1
<1>11. r2 \in Libs /\ r2.usb = u2 /\ r2.rqts = <<g>> /\ r2.mcu = <<>>
  BY <1>6, <1>10, WithUsbIs
<1> HIDE DEF r2
<1>12. r3 \in Libs /\ r3.usb = u3 /\ r3.rqts = <<g>> /\ r3.mcu = <<>>
  BY <1>6, <1>11, WithUsbIs
<1> HIDE DEF r3, x4
<1>13. x4 \in Libs /\ x4.usb = u4 /\ x4.mcu = <<>> /\ x4.rqts = <<g, QueuedRqt("ACK", o.of, FALSE)>>
  BY <1>1, <1>2, <1>12, AckIsBehind DEF Answering, x4, u4
<1>14. x \in Libs /\ x.usb = u5 /\ x.mcu = <<>> /\ x.rqts = <<g, QueuedRqt("ACK", o.of, FALSE)>>
  BY <1>8, <1>13, WithUsbIs
<1>15. t = Removed(x)
  <2>1. [r EXCEPT !.usb.dma_req = TRUE] = r1
    <3>1. r.usb = s.usb /\ r \in Libs
      BY <1>1 DEF Answering
    <3> QED
      BY <3>1, Zenon DEF WithUsb, r1, u1
  <2>2. r1.usb.queue # <<>> /\ Head(r1.usb.queue).left = o.left /\ Head(r1.usb.queue).of = o.of
        /\ Tail(r1.usb.queue) = <<>>
    <3> DEFINE e == [of |-> o.of, left |-> o.left]
    <3>1. r1.usb.queue = <<e>> /\ e.left = o.left /\ e.of = o.of
      BY <1>4, <1>5, <1>10
    <3> HIDE DEF e
    <3> QED
      BY <3>1, Pairs
  <2>3. [r1 EXCEPT !.usb.queue = Tail(r1.usb.queue)] = r2
    BY <1>10, <2>2, Zenon DEF WithUsb, r2, u2
  <2>4. [r2 EXCEPT !.usb.pending = o.of] = r3
    BY <1>11, Zenon DEF WithUsb, r3, u3
  <2>5. WriteCallback(r2, o.of) = x4
    <3>1. r2.usb.delay_ack > 0
      BY <1>6, <1>11
    <3> QED
      BY <2>4, <3>1, Zenon DEF WriteCallback, x4
  <2>6. [x4 EXCEPT !.usb.running = FALSE] = x
    BY <1>13, Zenon DEF WithUsb, u5
  <2>7. x4.usb.queue = <<>> /\ ~(Head(r1.usb.queue).left > 1)
    BY <1>9, <1>13, <2>2
  <2>8. DmaCompleted(r1) = x
    <3> DEFINE e == Head(r1.usb.queue)
    <3>1. WriteCallback([r1 EXCEPT !.usb.queue = Tail(r1.usb.queue)], e.of) = x4
      BY <2>2, <2>3, <2>5, Zenon
    <3> QED
      BY <2>2, <2>6, <2>7, <3>1, Zenon DEF DmaCompleted
  <2>9. Head(s.rqts).code = "DATA"
    BY <1>1 DEF Answering, CodeOf
  <2> QED
    BY <2>1, <2>8, <2>9 DEF Answered, r
<1>16. UsbIs(u5, 0, n)
  BY <1>1, <1>3, <1>8, <1>9 DEF Answering, UsbIs, CbsOf, CallbackOf, WritesData, DelaysAck
<1>17. CodeOf(n) = "ACK" /\ (n.stage \in {"feature", "config"}) = FALSE
  BY <1>3 DEF CodeOf
<1> HIDE DEF n, t, x
<1>18. After(Removed(x), n) /\ Removed(x).usb = x.usb
  BY <1>3, <1>14, <1>16, <1>17, NextAnswer
<1> QED
  BY <1>9, <1>14, <1>15, <1>18 DEF n, t

LEMMA UndelayedIs ==
    ASSUME NEW u \in CtlUsbs, NEW n \in Int
    PROVE  [u EXCEPT !.delay_ack = n] \in CtlUsbs /\ [u EXCEPT !.delay_ack = n].delay_ack = n
  BY DEF CtlUsbs

\* The acknowledgement's own callback: the setup packet is done, and the write that waited
\* for it.
UsbAcked(u, o) ==
    IF o.stage = "sync"
    THEN [u EXCEPT !.cb = 0, !.async = FALSE, !.calls = [u.calls EXCEPT ![o.of] = @ + 1], !.pending = 0,
                   !.setup = FALSE, !.cbs = <<>>, !.delay_ack = 0]
    ELSE [u EXCEPT !.setup = FALSE, !.cbs = <<>>, !.delay_ack = 0]
LEMMA AckCallbackDoes ==
    ASSUME NEW r \in Libs, NEW o \in Answers, NEW of, o.stage \in {"sync", "ack"}, o.of \in 1..KPackets,
           KPackets \in Nat,
           r.usb.pending = (IF o.stage = "sync" THEN o.of ELSE 0),
           o.stage = "sync" => r.usb.cb = o.of,
           r.usb.cbs = <<"UsbAckCallback">>
    PROVE  UsbAcked(r.usb, o) \in CtlUsbs /\ AckCallback(r, of) = WithUsb(r, UsbAcked(r.usb, o))
<1>1. r.usb \in CtlUsbs /\ r.usb.cbs # <<>> /\ Head(r.usb.cbs) = "UsbAckCallback" /\ Tail(r.usb.cbs) = <<>>
  BY LibHas, Pairs
<1>s. <<>> \in Seq({"UsbAckCallback", "StallCallback", "StallCallbackEX"})
  OBVIOUS
<1>2. AckCallback(r, of) = [[UsbAckCallback(r) EXCEPT !.usb.cbs = Tail(@)] EXCEPT !.usb.delay_ack = 0]
  BY <1>1 DEF AckCallback, CallBack
<1>3. CASE o.stage = "ack"
  <2> DEFINE u1 == [r.usb EXCEPT !.setup = FALSE]
             u2 == [u1 EXCEPT !.cbs = <<>>]
             u3 == [u2 EXCEPT !.delay_ack = 0]
  <2>1. UsbAckCallback(r) = WithUsb(r, u1)
    <3>1. r.usb.pending = 0
      BY <1>3
    <3>2. UsbAckCallback(r) = [r EXCEPT !.usb.setup = FALSE]
      BY <3>1 DEF UsbAckCallback
    <3> QED
      BY <3>2 DEF WithUsb, Libs
  <2>2. u1 \in CtlUsbs /\ u2 \in CtlUsbs /\ u1.cbs = r.usb.cbs
    BY <1>1, <1>s DEF CtlUsbs
  <2>3. u3 = UsbAcked(r.usb, o) /\ u3 \in CtlUsbs
    <3>1. u3 \in CtlUsbs
      <4>1. u2 \in CtlUsbs /\ 0 \in Int
        BY <2>2
      <4> HIDE DEF u1, u2
      <4>2. [u2 EXCEPT !.delay_ack = 0] \in CtlUsbs
        BY <4>1, UndelayedIs
      <4> QED
        BY <4>2
    <3>2. u3 = [r.usb EXCEPT !.setup = FALSE, !.cbs = <<>>, !.delay_ack = 0]
      BY <1>1 DEF CtlUsbs
    <3> QED
      BY <1>3, <3>1, <3>2 DEF UsbAcked
  <2> HIDE DEF u1
  <2>4. WithUsb(r, u1).usb = u1 /\ WithUsb(r, u1) \in Libs
    BY <2>2, WithUsbIs
  <2>5. Tail(u1.cbs) = <<>>
    BY <1>1, <2>2
  <2>6. [WithUsb(r, u1) EXCEPT !.usb.cbs = Tail(@)] = WithUsb(r, u2)
    BY <2>4, <2>5 DEF WithUsb, Libs
  <2> HIDE DEF u2
  <2>7. WithUsb(r, u2).usb = u2 /\ WithUsb(r, u2) \in Libs
    BY <2>2, WithUsbIs
  <2>8. [WithUsb(r, u2) EXCEPT !.usb.delay_ack = 0] = WithUsb(r, u3)
    BY <2>7 DEF WithUsb, Libs
  <2> QED
    BY <1>2, <2>1, <2>3, <2>6, <2>8, Zenon
<1>4. CASE o.stage = "sync"
  <2> DEFINE k == o.of
             calls == [r.usb.calls EXCEPT ![k] = @ + 1]
             u1 == [r.usb EXCEPT !.cb = 0, !.async = FALSE, !.calls = calls]
             u2 == [u1 EXCEPT !.pending = 0]
             u3 == [u2 EXCEPT !.setup = FALSE]
             u4 == [u3 EXCEPT !.cbs = <<>>]
             u5 == [u4 EXCEPT !.delay_ack = 0]
  <2>1. r.usb.pending = k /\ r.usb.cb = k /\ k # 0 /\ k \in 1..KPackets
    BY <1>4
  <2>2. calls \in [1..KPackets -> Nat]
    BY <1>1, <2>1 DEF CtlUsbs
  <2>3. EndWrite(r) = WithUsb(r, u1)
    <3>1. EndWrite(r) = [[r EXCEPT !.usb.cb = 0, !.usb.async = FALSE] EXCEPT !.usb.calls[k] = @ + 1]
      BY <2>1 DEF EndWrite
    <3>2. [r EXCEPT !.usb.cb = 0, !.usb.async = FALSE] = WithUsb(r, [r.usb EXCEPT !.cb = 0, !.async = FALSE])
      BY <1>1 DEF WithUsb, Libs
    <3> DEFINE u0 == [r.usb EXCEPT !.cb = 0, !.async = FALSE]
    <3>3. u0 \in CtlUsbs /\ u0.calls = r.usb.calls /\ u1 = [u0 EXCEPT !.calls = calls]
      <4> HIDE DEF calls
      <4> QED
        BY <1>1 DEF CtlUsbs
    <3> HIDE DEF u0
    <3>4. WithUsb(r, u0).usb = u0 /\ WithUsb(r, u0) \in Libs
      BY <3>3, WithUsbIs
    <3>5. [WithUsb(r, u0) EXCEPT !.usb.calls[k] = @ + 1] = WithUsb(r, [u0 EXCEPT !.calls = calls])
      BY <3>3, <3>4 DEF WithUsb, Libs
    <3> QED
      BY <3>1, <3>2, <3>3, <3>5, Zenon DEF u0
  <2> HIDE DEF calls
  <2>4. u1 \in CtlUsbs /\ u2 \in CtlUsbs /\ u3 \in CtlUsbs /\ u4 \in CtlUsbs /\ u3.cbs = r.usb.cbs
    <3>1. u1 \in CtlUsbs /\ u1.cbs = r.usb.cbs
      BY <1>1, <2>2 DEF CtlUsbs
    <3> HIDE DEF u1
    <3>2. u2 \in CtlUsbs /\ u2.cbs = r.usb.cbs
      BY <3>1 DEF CtlUsbs
    <3> HIDE DEF u2
    <3>3. u3 \in CtlUsbs /\ u3.cbs = r.usb.cbs
      BY <3>2 DEF CtlUsbs
    <3> HIDE DEF u3
    <3>4. u4 \in CtlUsbs
      BY <1>s, <3>3 DEF CtlUsbs
    <3> QED
      BY <3>1, <3>2, <3>3, <3>4
  <2>5. u5 = UsbAcked(r.usb, o) /\ u5 \in CtlUsbs
    <3>1. u5 \in CtlUsbs
      <4>1. u4 \in CtlUsbs /\ 0 \in Int
        BY <2>4
      <4> HIDE DEF u1, u2, u3, u4
      <4>2. [u4 EXCEPT !.delay_ack = 0] \in CtlUsbs
        BY <4>1, UndelayedIs
      <4> QED
        BY <4>2
    <3>2. UsbAcked(r.usb, o) = [r.usb EXCEPT !.cb = 0, !.async = FALSE, !.calls = calls, !.pending = 0,
                                             !.setup = FALSE, !.cbs = <<>>, !.delay_ack = 0]
      BY <1>4, Zenon DEF UsbAcked, calls
    <3>3. u5 = [r.usb EXCEPT !.cb = 0, !.async = FALSE, !.calls = calls, !.pending = 0,
                             !.setup = FALSE, !.cbs = <<>>, !.delay_ack = 0]
      BY <1>1 DEF CtlUsbs
    <3> QED
      BY <3>1, <3>2, <3>3
  <2> HIDE DEF u1
  <2>6. WithUsb(r, u1).usb = u1 /\ WithUsb(r, u1) \in Libs
    BY <2>4, WithUsbIs
  <2>7. [WithUsb(r, u1) EXCEPT !.usb.pending = 0] = WithUsb(r, u2)
    BY <2>6 DEF WithUsb, Libs
  <2> HIDE DEF u2
  <2>8. WithUsb(r, u2).usb = u2 /\ WithUsb(r, u2) \in Libs
    BY <2>4, WithUsbIs
  <2>9. UsbAckCallback(r) = WithUsb(r, u3)
    <3>1. UsbAckCallback(r) = [WithUsb(r, u2) EXCEPT !.usb.setup = FALSE]
      BY <2>1, <2>3, <2>7 DEF UsbAckCallback
    <3> QED
      BY <2>8, <3>1 DEF WithUsb, Libs
  <2> HIDE DEF u3
  <2>10. WithUsb(r, u3).usb = u3 /\ WithUsb(r, u3) \in Libs /\ Tail(u3.cbs) = <<>>
    BY <1>1, <2>4, WithUsbIs
  <2>11. [WithUsb(r, u3) EXCEPT !.usb.cbs = Tail(@)] = WithUsb(r, u4)
    BY <2>10 DEF WithUsb, Libs
  <2> HIDE DEF u4
  <2>12. WithUsb(r, u4).usb = u4 /\ WithUsb(r, u4) \in Libs
    BY <2>4, WithUsbIs
  <2>13. [WithUsb(r, u4) EXCEPT !.usb.delay_ack = 0] = WithUsb(r, u5)
    BY <2>12 DEF WithUsb, Libs
  <2> QED
    BY <1>2, <2>5, <2>9, <2>11, <2>13, Zenon
<1> QED
  BY <1>3, <1>4

\* The setup packet is acknowledged.
LEMMA AckEnds ==
    ASSUME NEW s, NEW o \in Answers, LibIs(s, 0, o), o.stage \in {"sync", "ack"}, s.mcu = <<>>,
           KPackets \in Nat, o.of \in 1..KPackets
    PROVE  /\ After(Answered(s), NoAnswer)
           /\ Answered(s).usb.calls = IF o.stage = "sync" THEN [s.usb.calls EXCEPT ![o.of] = @ + 1]
                                      ELSE s.usb.calls
<1> DEFINE t == Answered(s)
           r == Received(s)
           u == UsbAcked(s.usb, o)
           x == WithUsb(r, u)
<1>1. PICK h, g : Answering(s, o, h, g, r)
  BY HeadAnswered
<1>2. /\ s.usb \in CtlUsbs /\ s.usb.pending = (IF o.stage = "sync" THEN o.of ELSE 0)
      /\ o.stage = "sync" => s.usb.cb = o.of
      /\ s.usb.cbs = <<"UsbAckCallback">>
  BY <1>1 DEF Answering, UsbIs, WritesData, CbsOf, CallbackOf
<1>3. r \in Libs /\ r.usb = s.usb /\ r.mcu = <<>> /\ r.rqts = <<g>>
  BY <1>1 DEF Answering
<1> HIDE DEF r
<1>4. u \in CtlUsbs /\ AckCallback(r, h.of) = x
  BY <1>2, <1>3, AckCallbackDoes
<1>5. t = Removed(x)
  <2>1. Head(s.rqts) = h /\ h.code = "ACK"
    BY <1>1 DEF Answering, CodeOf
  <2> QED
    BY <1>4, <2>1 DEF Answered, r
<1>6. UsbIs(u, 0, NoAnswer)
  <2>1. UsbIs(s.usb, 0, o)
    BY <1>1 DEF Answering
  <2>2. CASE o.stage = "sync"
    <3> DEFINE calls == [s.usb.calls EXCEPT ![o.of] = @ + 1]
    <3>1. u = [s.usb EXCEPT !.cb = 0, !.async = FALSE, !.calls = calls, !.pending = 0,
                            !.setup = FALSE, !.cbs = <<>>, !.delay_ack = 0]
      BY <2>2, Zenon DEF UsbAcked
    <3> HIDE DEF u, calls
    <3>2. /\ u.cb = 0 /\ u.async = FALSE /\ u.pending = 0 /\ u.cbs = <<>> /\ u.delay_ack = 0
          /\ u.queue = s.usb.queue /\ u.running = s.usb.running /\ u.dma_req = s.usb.dma_req
          /\ u.failed = s.usb.failed
      BY <1>2, <3>1 DEF CtlUsbs
    <3> QED
      BY <2>1, <2>2, <3>2 DEF UsbIs, NoAnswer, WritesData, DelaysAck, CbsOf
  <2>3. CASE o.stage = "ack"
    <3>1. u = [s.usb EXCEPT !.setup = FALSE, !.cbs = <<>>, !.delay_ack = 0]
      BY <2>3 DEF UsbAcked
    <3> HIDE DEF u
    <3>2. /\ u.cb = s.usb.cb /\ u.async = s.usb.async /\ u.pending = s.usb.pending /\ u.cbs = <<>> /\ u.delay_ack = 0
          /\ u.queue = s.usb.queue /\ u.running = s.usb.running /\ u.dma_req = s.usb.dma_req
          /\ u.failed = s.usb.failed
      BY <1>2, <3>1 DEF CtlUsbs
    <3> QED
      BY <2>1, <2>3, <3>2 DEF UsbIs, NoAnswer, WritesData, DelaysAck, CbsOf
  <2> QED
    BY <2>2, <2>3
<1>7. u.calls = IF o.stage = "sync" THEN [s.usb.calls EXCEPT ![o.of] = @ + 1] ELSE s.usb.calls
  BY <1>2 DEF CtlUsbs, UsbAcked
<1> HIDE DEF u, t
<1>8. x \in Libs /\ x.usb = u /\ x.rqts = <<g>> /\ x.mcu = <<>>
  BY <1>3, <1>4, WithUsbIs
<1> HIDE DEF x
<1>9. After(Removed(x), NoAnswer) /\ Removed(x).usb = x.usb
  BY <1>6, <1>8, NoMore
<1> QED
  BY <1>5, <1>7, <1>8, <1>9 DEF t

\* A stall needs no acknowledgement.
LEMMA StallEnds ==
    ASSUME NEW s, NEW o \in Answers, LibIs(s, 0, o), o.stage = "stall", s.mcu = <<>>
    PROVE  After(Answered(s), NoAnswer) /\ Answered(s).usb.calls = s.usb.calls
<1> DEFINE t == Answered(s)
           r == Received(s)
           u == [s.usb EXCEPT !.cbs = <<>>]
           x == WithUsb(r, u)
<1>1. PICK h, g : Answering(s, o, h, g, r)
  BY HeadAnswered
<1>2. s.usb \in CtlUsbs /\ s.usb.cbs = <<"StallCallback">> /\ UsbIs(s.usb, 0, o)
  BY <1>1 DEF Answering, UsbIs, CbsOf, CallbackOf
<1>3. r \in Libs /\ r.usb = s.usb /\ r.mcu = <<>> /\ r.rqts = <<g>>
  BY <1>1 DEF Answering
<1> HIDE DEF r
<1>4. u \in CtlUsbs /\ CallBack(r, h.of) = x
  <2>1. r.usb.cbs # <<>> /\ Head(r.usb.cbs) = "StallCallback" /\ Tail(r.usb.cbs) = <<>>
    <3>1. r.usb.cbs = <<"StallCallback">>
      BY <1>2, <1>3
    <3> QED
      BY <3>1, Pairs
  <2>2. CallBack(r, h.of) = WithUsb(r, [r.usb EXCEPT !.cbs = <<>>]) /\ [r.usb EXCEPT !.cbs = <<>>] \in CtlUsbs
    BY <1>3, <2>1, StallCallbackIs
  <2> QED
    BY <1>3, <2>2
<1>5. t = Removed(x)
  <2>1. Head(s.rqts) = h /\ h.code = "STALL" /\ ~h.delay
    BY <1>1 DEF Answering, CodeOf
  <2>2. UsbFuncCallback(r, h) = x
    BY <1>4, <2>1, Zenon DEF UsbFuncCallback
  <2> QED
    BY <2>1, <2>2 DEF Answered, r
<1>6. UsbIs(u, 0, NoAnswer) /\ u.calls = s.usb.calls
  BY <1>2 DEF CtlUsbs, UsbIs, NoAnswer, WritesData, DelaysAck, CbsOf
<1> HIDE DEF u, t
<1>7. x \in Libs /\ x.usb = u /\ x.rqts = <<g>> /\ x.mcu = <<>>
  BY <1>3, <1>4, WithUsbIs
<1> HIDE DEF x
<1>8. After(Removed(x), NoAnswer) /\ Removed(x).usb = x.usb
  BY <1>6, <1>7, NoMore
<1> QED
  BY <1>5, <1>6, <1>7, <1>8 DEF t

\* The stall or clear that has delayed the acknowledgement is done.
LEMMA FeatureEnds ==
    ASSUME NEW s, NEW o \in Answers, LibIs(s, 0, o), o.stage = "feature", s.mcu = <<>>
    PROVE  After(Answered(s), Stage("ack", o.of, 0)) /\ Answered(s).usb.calls = s.usb.calls
<1> DEFINE n == Stage("ack", o.of, 0)
           t == Answered(s)
           r == Received(s)
           u1 == [s.usb EXCEPT !.cbs = <<>>]
           r1 == WithUsb(r, u1)
           u2 == [u1 EXCEPT !.delay_ack = 0]
           r2 == WithUsb(r1, u2)
           u3 == WithAck(u2)
           x == AckSetupPacket(r2, o.of)
<1>1. PICK h, g : Answering(s, o, h, g, r)
  BY HeadAnswered
<1>2. n \in Answers /\ n.stage = "ack" /\ n.of = o.of /\ o.of \in Nat
  BY DEF Stage, Answers
<1>3. s.usb \in CtlUsbs /\ s.usb.cbs = <<"StallCallback">> /\ UsbIs(s.usb, 0, o) /\ s.usb.delay_ack = 1
  BY <1>1 DEF Answering, UsbIs, CbsOf, CallbackOf, DelaysAck
<1>4. r \in Libs /\ r.usb = s.usb /\ r.mcu = <<>> /\ r.rqts = <<g>> /\ g \in CtlRqts /\ g.state # "QUEUED"
  BY <1>1 DEF Answering
<1>5. Head(s.rqts) = h /\ h.code = "FEATURE" /\ h.delay /\ h.of = o.of
  BY <1>1 DEF Answering, CodeOf
<1> HIDE DEF r
<1>6. u1 \in CtlUsbs /\ CallBack(r, h.of) = r1
  <2>1. r.usb.cbs # <<>> /\ Head(r.usb.cbs) = "StallCallback" /\ Tail(r.usb.cbs) = <<>>
    <3>1. r.usb.cbs = <<"StallCallback">>
      BY <1>3, <1>4
    <3> QED
      BY <3>1, Pairs
  <2>2. CallBack(r, h.of) = WithUsb(r, [r.usb EXCEPT !.cbs = <<>>]) /\ [r.usb EXCEPT !.cbs = <<>>] \in CtlUsbs
    BY <1>4, <2>1, StallCallbackIs
  <2> QED
    BY <1>4, <2>2
<1>7. /\ u1.delay_ack = 1 /\ u2.delay_ack = 0 /\ u2.cbs = <<>> /\ u2.async = s.usb.async /\ u2.cb = s.usb.cb
      /\ u2.pending = s.usb.pending /\ u2.queue = s.usb.queue /\ u2.running = s.usb.running
      /\ u2.dma_req = s.usb.dma_req /\ u2.failed = s.usb.failed /\ u2.calls = s.usb.calls
  BY <1>3 DEF CtlUsbs
<1> HIDE DEF u1
<1>8. u2 \in CtlUsbs
  <2>1. u1 \in CtlUsbs /\ 0 \in Int
    BY <1>6
  <2> QED
    BY <2>1, UndelayedIs
<1>9. /\ u3.delay_ack = 0 /\ u3.cbs = <<"UsbAckCallback">> /\ u3.async = s.usb.async /\ u3.cb = s.usb.cb
      /\ u3.pending = s.usb.pending /\ u3.queue = s.usb.queue /\ u3.running = s.usb.running
      /\ u3.dma_req = s.usb.dma_req /\ u3.failed = s.usb.failed /\ u3.calls = s.usb.calls
  <2> HIDE DEF u2
  <2>1. Append(u2.cbs, "UsbAckCallback") = <<"UsbAckCallback">>
    BY <1>7, Pairs
  <2>2. u3 = [u2 EXCEPT !.cbs = <<"UsbAckCallback">>]
    BY <2>1, Zenon DEF WithAck
  <2> QED
    BY <1>7, <1>8, <2>2 DEF CtlUsbs
<1>10. r1 \in Libs /\ r1.usb = u1 /\ r1.rqts = <<g>> /\ r1.mcu = <<>>
  BY <1>4, <1>6, WithUsbIs
<1> HIDE DEF r1
<1>11. r2 \in Libs /\ r2.usb = u2 /\ r2.rqts = <<g>> /\ r2.mcu = <<>>
  BY <1>8, <1>10, WithUsbIs
<1>12. t = Removed(x)
  <2>1. Asserts(r1.usb.delay_ack > 0, r1) = r1
    BY <1>7, <1>10 DEF Asserts
  <2>2. [r1 EXCEPT !.usb.delay_ack = @ - 1] = r2
    <3>1. r1.usb.delay_ack - 1 = 0
      BY <1>7, <1>10
    <3> QED
      BY <1>10, <3>1, Zenon DEF WithUsb, u2
  <2>3. ~(r2.usb.delay_ack > 0)
    <3>1. r2.usb.delay_ack = 0
      BY <1>7, <1>11, Zenon
    <3> QED
      BY <3>1
  <2> HIDE DEF r2
  <2>4. UsbFuncCallback(r, h) = x
    BY <1>5, <1>6, <2>1, <2>2, <2>3, Zenon DEF UsbFuncCallback
  <2> HIDE DEF x
  <2> QED
    BY <1>5, <2>4 DEF Answered, r
<1> HIDE DEF r2, u2, x
<1>13. x \in Libs /\ x.usb = u3 /\ x.mcu = <<>> /\ x.rqts = <<g, QueuedRqt("ACK", o.of, FALSE)>>
  BY <1>2, <1>4, <1>11, AckIsBehind DEF x
<1>14. UsbIs(u3, 0, n)
  <2> HIDE DEF u3
  <2> QED
    BY <1>2, <1>3, <1>9 DEF UsbIs, CbsOf, CallbackOf, WritesData, DelaysAck
<1>15. CodeOf(n) = "ACK" /\ (n.stage \in {"feature", "config"}) = FALSE
  BY <1>2 DEF CodeOf
<1> HIDE DEF n, t, u3
<1>16. After(Removed(x), n) /\ Removed(x).usb = x.usb
  BY <1>2, <1>13, <1>14, <1>15, NextAnswer
<1> QED
  BY <1>9, <1>12, <1>13, <1>16 DEF n, t

\* A stall or clear, while a setup packet is being answered.
NakUsb(u, code, cb) ==
    [u EXCEPT !.cbs = Append(u.cbs, cb),
              !.delay_ack = IF code # "STALL" THEN u.delay_ack + 1 ELSE u.delay_ack,
              !.ep0_stalled = (u.ep0_stalled \/ code = "STALL")]
NakMade(s, u, code, of, cb) ==
    /\ u \in CtlUsbs /\ u.cbs = Append(s.usb.cbs, cb)
    /\ u.delay_ack = (IF code # "STALL" THEN s.usb.delay_ack + 1 ELSE s.usb.delay_ack)
    /\ (u.ep0_stalled <=> s.usb.ep0_stalled \/ code = "STALL")
    /\ u.async = s.usb.async /\ u.cb = s.usb.cb /\ u.pending = s.usb.pending /\ u.queue = s.usb.queue
    /\ u.running = s.usb.running /\ u.dma_req = s.usb.dma_req /\ u.failed = s.usb.failed
    /\ u.calls = s.usb.calls /\ u.setup = s.usb.setup
    /\ NakStallRequest(s, code, of, cb) = SendUsbRequest(WithUsb(s, u), code, of, code = "FEATURE")
LEMMA NakStallIs ==
    ASSUME NEW s \in Libs, NEW code \in {"STALL", "FEATURE"}, NEW of \in Nat,
           NEW cb \in {"UsbAckCallback", "StallCallback", "StallCallbackEX"}, s.usb.setup
    PROVE  NakMade(s, NakUsb(s.usb, code, cb), code, of, cb)
<1> DEFINE c == Append(s.usb.cbs, cb)
           d == IF code # "STALL" THEN s.usb.delay_ack + 1 ELSE s.usb.delay_ack
           e == (s.usb.ep0_stalled \/ code = "STALL")
           u == NakUsb(s.usb, code, cb)
<1>1. s.usb \in CtlUsbs /\ s.usb.cbs \in Seq({"UsbAckCallback", "StallCallback", "StallCallbackEX"})
      /\ s.usb.delay_ack \in Int
  BY LibHas DEF CtlUsbs
<1>2. c \in Seq({"UsbAckCallback", "StallCallback", "StallCallbackEX"}) /\ d \in Int /\ e \in BOOLEAN
  <2>1. c \in Seq({"UsbAckCallback", "StallCallback", "StallCallbackEX"})
    BY <1>1
  <2>2. d \in Int
    BY <1>1
  <2> QED
    BY <2>1, <2>2
<1>3. u = [s.usb EXCEPT !.cbs = c, !.delay_ack = d, !.ep0_stalled = e]
  BY Zenon DEF NakUsb
<1>4. NakStallRequest(s, code, of, cb) = SendUsbRequest(WithUsb(s, u), code, of, code = "FEATURE")
  <2>1. (s.usb.setup /\ code # "STALL") = (code = "FEATURE") /\ (s.usb.setup /\ code # "STALL" <=> code # "STALL")
    OBVIOUS
  <2> DEFINE f == (s.usb.setup /\ code = "STALL")
  <2>2. (s.usb.ep0_stalled \/ f) = e
    OBVIOUS
  <2>3. NakStallRequest(s, code, of, cb)
            = SendUsbRequest([s EXCEPT !.usb.cbs = Append(@, cb),
                                       !.usb.delay_ack = IF s.usb.setup /\ code # "STALL" THEN @ + 1 ELSE @,
                                       !.usb.ep0_stalled = @ \/ f],
                             code, of, s.usb.setup /\ code # "STALL")
    BY DEF NakStallRequest
  <2>4. [s EXCEPT !.usb.cbs = Append(@, cb),
                  !.usb.delay_ack = IF s.usb.setup /\ code # "STALL" THEN @ + 1 ELSE @,
                  !.usb.ep0_stalled = @ \/ f] = WithUsb(s, u)
    <3> DEFINE w == [s EXCEPT !.usb.cbs = Append(@, cb),
                              !.usb.delay_ack = IF s.usb.setup /\ code # "STALL" THEN @ + 1 ELSE @,
                              !.usb.ep0_stalled = @ \/ f]
    <3>1. w = [s EXCEPT !.usb.cbs = c, !.usb.delay_ack = d, !.usb.ep0_stalled = e]
      BY <1>1, <2>1, <2>2 DEF Libs, CtlUsbs
    <3> HIDE DEF w, c, d, e
    <3>2. w = [s EXCEPT !.usb = [s.usb EXCEPT !.cbs = c, !.delay_ack = d, !.ep0_stalled = e]]
      BY <1>1, <3>1 DEF Libs, CtlUsbs
    <3>3. w = [s EXCEPT !.usb = u]
      BY <1>3, <3>2, Zenon
    <3> QED
      BY <3>3 DEF WithUsb, w
  <2> QED
    BY <2>1, <2>3, <2>4, Zenon
<1> HIDE DEF c, d, u
<1>5. /\ u \in CtlUsbs /\ u.cbs = c /\ u.delay_ack = d /\ (u.ep0_stalled <=> e)
      /\ u.async = s.usb.async /\ u.cb = s.usb.cb /\ u.pending = s.usb.pending /\ u.queue = s.usb.queue
      /\ u.running = s.usb.running /\ u.dma_req = s.usb.dma_req /\ u.failed = s.usb.failed
      /\ u.calls = s.usb.calls /\ u.setup = s.usb.setup
  <2> HIDE DEF e
  <2> QED
    BY <1>1, <1>2, <1>3 DEF CtlUsbs
<1> QED
  BY <1>4, <1>5 DEF NakMade, c, d, u

\* SET_CONFIGURATION's stall is done; its callback clears it.
LEMMA ConfigGoesOn ==
    ASSUME NEW s, NEW o \in Answers, LibIs(s, 0, o), o.stage = "config", s.mcu = <<>>
    PROVE  After(Answered(s), Stage("feature", o.of, 0)) /\ Answered(s).usb.calls = s.usb.calls
<1> DEFINE n == Stage("feature", o.of, 0)
           t == Answered(s)
           r == Received(s)
           u1 == NakUsb(s.usb, "FEATURE", "StallCallback")
           r1 == WithUsb(r, u1)
           x1 == NakStallRequest(r, "FEATURE", o.of, "StallCallback")
           u2 == [u1 EXCEPT !.cbs = <<"StallCallback">>]
           x2 == WithUsb(x1, u2)
           u3 == [u2 EXCEPT !.delay_ack = 1]
           x3 == WithUsb(x2, u3)
<1>1. PICK h, g : Answering(s, o, h, g, r)
  BY HeadAnswered
<1>2. n \in Answers /\ n.stage = "feature" /\ n.of = o.of /\ o.of \in Nat
  BY DEF Stage, Answers
<1>3. s.usb \in CtlUsbs /\ s.usb.cbs = <<"StallCallbackEX">> /\ UsbIs(s.usb, 0, o) /\ s.usb.delay_ack = 1 /\ s.usb.setup
  BY <1>1 DEF Answering, UsbIs, CbsOf, CallbackOf, DelaysAck
<1>4. r \in Libs /\ r.usb = s.usb /\ r.mcu = <<>> /\ r.rqts = <<g>> /\ g \in CtlRqts /\ g.state # "QUEUED"
  BY <1>1 DEF Answering
<1>5. Head(s.rqts) = h /\ h.code = "FEATURE" /\ h.delay /\ h.of = o.of
  BY <1>1 DEF Answering, CodeOf
<1> HIDE DEF r
<1>6. /\ u1 \in CtlUsbs /\ u1.cbs = Append(s.usb.cbs, "StallCallback") /\ u1.delay_ack = s.usb.delay_ack + 1
      /\ u1.async = s.usb.async /\ u1.cb = s.usb.cb /\ u1.pending = s.usb.pending /\ u1.queue = s.usb.queue
      /\ u1.running = s.usb.running /\ u1.dma_req = s.usb.dma_req /\ u1.failed = s.usb.failed
      /\ u1.calls = s.usb.calls
      /\ x1 = SendUsbRequest(r1, "FEATURE", o.of, TRUE)
  <2> DEFINE v == NakUsb(r.usb, "FEATURE", "StallCallback")
  <2>1. r.usb.setup
    BY <1>3, <1>4
  <2> HIDE DEF r1, x1
  <2>2. NakMade(r, v, "FEATURE", o.of, "StallCallback")
    BY <1>2, <1>4, <2>1, NakStallIs
  <2>3. v = u1
    BY <1>4
  <2>4. "FEATURE" # "STALL" /\ ("FEATURE" = "FEATURE") = TRUE
    OBVIOUS
  <2> HIDE DEF v, u1
  <2>5. x1 = SendUsbRequest(r1, "FEATURE", o.of, TRUE)
    BY <2>2, <2>3, <2>4, Zenon DEF NakMade, x1, r1
  <2> QED
    BY <1>4, <2>2, <2>3, <2>4, <2>5 DEF NakMade
<1>7. u1.cbs = <<"StallCallbackEX", "StallCallback">> /\ u1.delay_ack = 2
  <2>1. Append(<<"StallCallbackEX">>, "StallCallback") = <<"StallCallbackEX", "StallCallback">>
    BY Pairs
  <2> QED
    BY <1>3, <1>6, <2>1
<1> HIDE DEF u1, x1
<1>8. u2 \in CtlUsbs
  <2>1. <<"StallCallback">> \in Seq({"UsbAckCallback", "StallCallback", "StallCallbackEX"})
    OBVIOUS
  <2> QED
    BY <1>6, <2>1 DEF CtlUsbs
<1>9. u2.delay_ack = 2 /\ u3.delay_ack = 1
      /\ u3.async = s.usb.async /\ u3.cb = s.usb.cb /\ u3.pending = s.usb.pending /\ u3.queue = s.usb.queue
      /\ u3.running = s.usb.running /\ u3.dma_req = s.usb.dma_req /\ u3.failed = s.usb.failed
      /\ u3.calls = s.usb.calls /\ u3.cbs = <<"StallCallback">>
  BY <1>6, <1>7 DEF CtlUsbs
<1> HIDE DEF u2
<1>10. u3 \in CtlUsbs
  <2>1. u2 \in CtlUsbs /\ 1 \in Int
    BY <1>8
  <2> QED
    BY <2>1, UndelayedIs
<1> HIDE DEF u3
<1>11. r1 \in Libs /\ r1.usb = u1 /\ r1.rqts = <<g>> /\ r1.mcu = <<>>
  BY <1>4, <1>6, WithUsbIs
<1> HIDE DEF r1
<1>12. RequestBehind(r1, x1, g, "FEATURE", o.of, TRUE)
  BY <1>2, <1>4, <1>6, <1>11, RequestIsBehind
<1>13. x1 \in Libs /\ x1.usb = u1 /\ x1.mcu = <<>> /\ x1.rqts = <<g, QueuedRqt("FEATURE", o.of, TRUE)>>
  BY <1>11, <1>12 DEF RequestBehind
<1>14. x2 \in Libs /\ x2.usb = u2 /\ x2.mcu = <<>> /\ x2.rqts = <<g, QueuedRqt("FEATURE", o.of, TRUE)>>
  BY <1>8, <1>13, WithUsbIs
<1>15. CallBack(r, h.of) = x2
  <2>1. r.usb.cbs # <<>> /\ Head(r.usb.cbs) = "StallCallbackEX"
    <3>1. r.usb.cbs = <<"StallCallbackEX">>
      BY <1>3, <1>4
    <3> QED
      BY <3>1, Pairs
  <2>2. CallBack(r, o.of) = [x1 EXCEPT !.usb.cbs = Tail(@)]
    BY <2>1 DEF CallBack, x1
  <2>3. Tail(x1.usb.cbs) = <<"StallCallback">>
    <3>1. x1.usb.cbs = <<"StallCallbackEX", "StallCallback">>
      BY <1>7, <1>13
    <3> QED
      BY <3>1, Pairs
  <2>4. [x1 EXCEPT !.usb.cbs = Tail(@)] = x2
    BY <1>13, <2>3, Zenon DEF WithUsb, u2
  <2> QED
    BY <1>5, <2>2, <2>4
<1> HIDE DEF x2
<1>16. x3 \in Libs /\ x3.usb = u3 /\ x3.mcu = <<>> /\ x3.rqts = <<g, QueuedRqt("FEATURE", o.of, TRUE)>>
  BY <1>10, <1>14, WithUsbIs
<1>17. t = Removed(x3)
  <2>1. Asserts(x2.usb.delay_ack > 0, x2) = x2
    <3>1. x2.usb.delay_ack = 2
      BY <1>9, <1>14
    <3> QED
      BY <3>1 DEF Asserts
  <2>2. [x2 EXCEPT !.usb.delay_ack = @ - 1] = x3
    <3>1. x2.usb.delay_ack - 1 = 1
      BY <1>9, <1>14
    <3> QED
      BY <1>14, <3>1, Zenon DEF WithUsb, u3
  <2>3. x3.usb.delay_ack > 0
    BY <1>9, <1>16
  <2> HIDE DEF x3
  <2>4. UsbFuncCallback(r, h) = x3
    BY <1>5, <1>15, <2>1, <2>2, <2>3, Zenon DEF UsbFuncCallback
  <2> QED
    BY <1>5, <2>4 DEF Answered, r
<1> HIDE DEF x3
<1>18. UsbIs(u3, 0, n)
  BY <1>2, <1>3, <1>9 DEF UsbIs, CbsOf, CallbackOf, WritesData, DelaysAck
<1>19. CodeOf(n) = "FEATURE" /\ (n.stage \in {"feature", "config"}) = TRUE
  BY <1>2 DEF CodeOf
<1> HIDE DEF n, t
<1>20. After(Removed(x3), n) /\ Removed(x3).usb = x3.usb
  BY <1>2, <1>16, <1>18, <1>19, NextAnswer
<1> QED
  BY <1>9, <1>16, <1>17, <1>20 DEF n, t


-----------------------------------------------------------------------------
(* A setup packet is answered *)

\* The request of an answer: sent, or behind the stall of a packet before.
Begun(s, t, j, o) ==
    /\ LibIs(t, j, o) /\ t.usb.calls = s.usb.calls
    /\ t.mcu = IF j = 0 THEN Append(s.mcu, CtlMessage(o)) ELSE s.mcu
LEMMA RequestMade ==
    ASSUME NEW y \in Libs, NEW j \in Nat, NEW o \in Answers, o.stage # "none", UsbIs(y.usb, j, o),
           y.rqts = RqtsOf(j, NoAnswer)
    PROVE  LET x == SendUsbRequest(y, CodeOf(o), o.of, o.stage \in {"feature", "config"})
           IN  Begun(y, x, j, o) /\ x.usb = y.usb
<1> DEFINE c == CodeOf(o)
           d == o.stage \in {"feature", "config"}
           q == QueuedRqt(c, o.of, d)
           x == SendUsbRequest(y, c, o.of, d)
<1>1. /\ c \in {"DATA", "ACK", "STALL", "FEATURE"} /\ o.of \in Nat /\ d \in BOOLEAN
      /\ q = CtlRqt(o, "QUEUED") /\ [q EXCEPT !.state = "WAITING"] = CtlRqt(o, "WAITING")
      /\ CtlMessage(o) = [code |-> c, of |-> o.of]
  BY RqtStates DEF CtlMessage
<1> HIDE DEF c, d
<1>2. CASE j = 0
  <2>1. y.rqts = <<>>
    BY <1>2 DEF RqtsOf, NoAnswer
  <2>2. RequestSent(y, x, c, o.of, d)
    BY <1>1, <2>1, RequestIsSent
  <2> HIDE DEF x
  <2>3. x \in Libs /\ x.usb = y.usb /\ x.rqts = RqtsOf(j, o) /\ x.mcu = Append(y.mcu, CtlMessage(o))
    <3> HIDE DEF q
    <3> QED
      BY <1>1, <1>2, <2>2 DEF RequestSent, RqtsOf, q
  <2> QED
    BY <1>2, <2>3 DEF Begun, LibIs, x, c, d
<1>3. CASE j # 0
  <2>1. y.rqts = <<OldStall(j)>> /\ OldStall(j) \in CtlRqts /\ OldStall(j).state # "QUEUED"
    BY <1>3, OldStallIs DEF RqtsOf, NoAnswer, OldStall
  <2>2. RequestBehind(y, x, OldStall(j), c, o.of, d)
    BY <1>1, <2>1, RequestIsBehind
  <2> HIDE DEF x
  <2>3. x \in Libs /\ x.usb = y.usb /\ x.rqts = RqtsOf(j, o) /\ x.mcu = y.mcu
    <3> HIDE DEF q
    <3> QED
      BY <1>1, <1>3, <2>2 DEF RequestBehind, RqtsOf, q
  <2> QED
    BY <1>3, <2>3 DEF Begun, LibIs, x, c, d
<1> QED
  BY <1>2, <1>3

\* The library is at no answer: what it knows of endpoint 0.
LEMMA NothingKnown ==
    ASSUME NEW s, NEW j \in Nat, LibIs(s, j, NoAnswer)
    PROVE  /\ s \in Libs /\ s.usb \in CtlUsbs /\ s.rqts = RqtsOf(j, NoAnswer)
           /\ s.usb.delay_ack = 0 /\ ~s.usb.async /\ s.usb.cb = 0 /\ s.usb.pending = 0 /\ s.usb.queue = <<>>
           /\ ~s.usb.running /\ s.usb.dma_req /\ ~s.usb.failed
           /\ s.usb.cbs = (IF j = 0 THEN <<>> ELSE <<"StallCallback">>)
  BY LibHas DEF LibIs, UsbIs, NoAnswer, CbsOf, WritesData, DelaysAck

LEMMA CallbackBehind ==
    ASSUME NEW s, NEW j \in Nat, LibIs(s, j, NoAnswer), NEW o \in Answers, o.stage \notin {"none", "data"}
    PROVE  Append(s.usb.cbs, CallbackOf(o)) = CbsOf(j, o)
<1> DEFINE c == CallbackOf(o)
<1>1. s.usb.cbs = (IF j = 0 THEN <<>> ELSE <<"StallCallback">>)
  BY NothingKnown
<1>2. CbsOf(j, o) = IF j = 0 THEN <<c>> ELSE <<"StallCallback", c>>
  BY DEF CbsOf
<1> HIDE DEF c
<1>3. Append(s.usb.cbs, c) = IF j = 0 THEN <<c>> ELSE <<"StallCallback", c>>
  <2>1. CASE j = 0
    BY <1>1, <2>1, Pairs
  <2>2. CASE j # 0
    <3>1. s.usb.cbs = <<"StallCallback">> /\ Append(<<"StallCallback">>, c) = <<"StallCallback", c>>
      BY <1>1, <2>2, Pairs
    <3> QED
      BY <2>2, <3>1
  <2> QED
    BY <2>1, <2>2
<1> QED
  BY <1>2, <1>3 DEF c

LEMMA NakBegins ==
    ASSUME NEW s, NEW j \in Nat, LibIs(s, j, NoAnswer), s.usb.setup, ~s.usb.ep0_stalled,
           NEW o \in Answers, o.stage \in {"stall", "feature", "config"}
    PROVE  LET t == NakStallRequest(s, CodeOf(o), o.of, CallbackOf(o))
           IN  Begun(s, t, j, o) /\ (t.usb.ep0_stalled <=> o.stage = "stall")
<1> DEFINE c == CodeOf(o)
           b == CallbackOf(o)
           d == o.stage \in {"feature", "config"}
           u == NakUsb(s.usb, c, b)
           y == WithUsb(s, u)
           t == NakStallRequest(s, c, o.of, b)
<1>1. /\ s \in Libs /\ s.usb \in CtlUsbs /\ s.rqts = RqtsOf(j, NoAnswer)
      /\ s.usb.delay_ack = 0 /\ ~s.usb.async /\ s.usb.cb = 0 /\ s.usb.pending = 0 /\ s.usb.queue = <<>>
      /\ ~s.usb.running /\ s.usb.dma_req /\ ~s.usb.failed
  BY NothingKnown
<1>2. c \in {"STALL", "FEATURE"} /\ b \in {"UsbAckCallback", "StallCallback", "StallCallbackEX"} /\ o.of \in Nat
      /\ (c = "STALL" <=> o.stage = "stall") /\ (c = "FEATURE") = d
  BY DEF Answers, CodeOf, CallbackOf
<1>3. Append(s.usb.cbs, b) = CbsOf(j, o)
  BY CallbackBehind
<1> HIDE DEF c, b, d
<1>4. NakMade(s, u, c, o.of, b)
  BY <1>1, <1>2, NakStallIs
<1> HIDE DEF u, t
<1>5. y \in Libs /\ y.usb = u /\ y.rqts = s.rqts /\ y.mcu = s.mcu
  BY <1>1, <1>4, WithUsbIs DEF NakMade
<1>6. UsbIs(u, j, o)
  <2>1. u.delay_ack = IF DelaysAck(o) THEN 1 ELSE 0
    BY <1>1, <1>2, <1>4 DEF NakMade, DelaysAck
  <2>2. WritesData(o) <=> FALSE
    BY DEF WritesData
  <2> QED
    BY <1>1, <1>3, <1>4, <2>1, <2>2 DEF NakMade, UsbIs
<1>7. t = SendUsbRequest(y, c, o.of, d)
  BY <1>2, <1>4, Zenon DEF NakMade, t
<1> HIDE DEF y
<1>8. Begun(y, t, j, o) /\ t.usb = y.usb
  BY <1>1, <1>5, <1>6, <1>7, RequestMade DEF c, d
<1>9. Begun(s, t, j, o)
  BY <1>4, <1>5, <1>8 DEF NakMade, Begun
<1> QED
  BY <1>1, <1>2, <1>4, <1>5, <1>8, <1>9 DEF NakMade, t, c, b

LEMMA AckBegins ==
    ASSUME NEW s, NEW j \in Nat, LibIs(s, j, NoAnswer), NEW o \in Answers, o.stage = "ack"
    PROVE  Begun(s, AckSetupPacket(s, o.of), j, o)
<1> DEFINE u == WithAck(s.usb)
           y == WithUsb(s, u)
           t == AckSetupPacket(s, o.of)
<1>1. /\ s \in Libs /\ s.usb \in CtlUsbs /\ s.rqts = RqtsOf(j, NoAnswer)
      /\ s.usb.delay_ack = 0 /\ ~s.usb.async /\ s.usb.cb = 0 /\ s.usb.pending = 0 /\ s.usb.queue = <<>>
      /\ ~s.usb.running /\ s.usb.dma_req /\ ~s.usb.failed
  BY NothingKnown
<1>2. o.of \in Nat /\ CodeOf(o) = "ACK" /\ CallbackOf(o) = "UsbAckCallback" /\ (o.stage \in {"feature", "config"}) = FALSE
  BY DEF Answers, CodeOf, CallbackOf
<1>3. Append(s.usb.cbs, "UsbAckCallback") = CbsOf(j, o)
  BY <1>2, CallbackBehind
<1>4. u \in CtlUsbs /\ t = SendUsbRequest(y, "ACK", o.of, FALSE)
  BY <1>1, <1>2, AckIsRequest
<1>5. UsbIs(u, j, o) /\ u.calls = s.usb.calls
  <2>1. /\ u.cbs = CbsOf(j, o) /\ u.delay_ack = 0 /\ ~u.async /\ u.cb = 0 /\ u.pending = 0 /\ u.queue = <<>>
        /\ ~u.running /\ u.dma_req /\ ~u.failed /\ u.calls = s.usb.calls
    BY <1>1, <1>3 DEF CtlUsbs, WithAck
  <2> HIDE DEF u
  <2> QED
    BY <2>1 DEF UsbIs, WritesData, DelaysAck
<1> HIDE DEF u, t
<1>6. y \in Libs /\ y.usb = u /\ y.rqts = s.rqts /\ y.mcu = s.mcu
  BY <1>1, <1>4, WithUsbIs
<1> HIDE DEF y
<1>7. Begun(y, t, j, o)
  BY <1>1, <1>2, <1>4, <1>5, <1>6, RequestMade
<1> QED
  BY <1>5, <1>6, <1>7 DEF Begun, t

LEMMA WriteBegins ==
    ASSUME NEW s, NEW j \in Nat, LibIs(s, j, NoAnswer), NEW o \in Answers, o.stage = "data", s.usb.calls[o.of] = 0
    PROVE  Begun(s, WriteDataAsync(s, o.of, o.left), j, o)
<1> DEFINE e == [of |-> o.of, left |-> o.left]
           u1 == [s.usb EXCEPT !.async = TRUE, !.delay_ack = 1, !.cb = o.of, !.queue = <<e>>]
           y1 == WithUsb(s, u1)
           u2 == [u1 EXCEPT !.running = TRUE, !.dma_req = FALSE]
           y2 == WithUsb(y1, u2)
           t == WriteDataAsync(s, o.of, o.left)
<1>1. /\ s \in Libs /\ s.usb \in CtlUsbs /\ s.rqts = RqtsOf(j, NoAnswer)
      /\ s.usb.delay_ack = 0 /\ ~s.usb.async /\ s.usb.cb = 0 /\ s.usb.pending = 0 /\ s.usb.queue = <<>>
      /\ ~s.usb.running /\ s.usb.dma_req /\ ~s.usb.failed
      /\ s.usb.cbs = (IF j = 0 THEN <<>> ELSE <<"StallCallback">>)
  BY NothingKnown
<1>2. o.of \in Nat /\ o.left \in Nat /\ CodeOf(o) = "DATA" /\ (o.stage \in {"feature", "config"}) = FALSE
  BY DEF Answers, CodeOf
<1>3. e \in [of : Nat, left : Nat] /\ e.of = o.of
  BY <1>2
<1> HIDE DEF e
<1>4. Append(s.usb.queue, e) = <<e>> /\ <<e>> \in Seq([of : Nat, left : Nat])
  BY <1>1, <1>3, Pairs
<1>5. u1 \in CtlUsbs
  <2> DEFINE v1 == [s.usb EXCEPT !.async = TRUE]
             v2 == [v1 EXCEPT !.delay_ack = 1]
             v3 == [v2 EXCEPT !.cb = o.of]
             v4 == [v3 EXCEPT !.queue = <<e>>]
  <2>1. v1 \in CtlUsbs
    BY <1>1 DEF CtlUsbs
  <2>5. u1 = v4
    BY <1>1 DEF CtlUsbs
  <2> HIDE DEF v1
  <2>2. v2 \in CtlUsbs
    <3>1. 1 \in Int
      OBVIOUS
    <3> QED
      BY <2>1, <3>1, UndelayedIs
  <2> HIDE DEF v2
  <2>3. v3 \in CtlUsbs
    BY <1>2, <2>2 DEF CtlUsbs
  <2> HIDE DEF v3
  <2>4. v4 \in CtlUsbs
    BY <1>4, <2>3 DEF CtlUsbs
  <2> HIDE DEF u1, v4
  <2> QED
    BY <2>4, <2>5
<1>6. /\ u1.queue = <<e>> /\ u1.dma_req = TRUE /\ ~u1.running /\ u1.async /\ u1.delay_ack = 1 /\ u1.cb = o.of
      /\ u1.pending = 0 /\ ~u1.failed /\ u1.cbs = s.usb.cbs /\ u1.calls = s.usb.calls
  BY <1>1 DEF CtlUsbs
<1>7. t = SendEp0Dma(y1)
  <2>1. [s EXCEPT !.usb.async = TRUE, !.usb.delay_ack = @ + 1, !.usb.cb = o.of,
                  !.usb.queue = Append(@, e)] = y1
    <3> DEFINE w == [s EXCEPT !.usb.async = TRUE, !.usb.delay_ack = @ + 1, !.usb.cb = o.of,
                              !.usb.queue = Append(@, e)]
    <3>1. s.usb.delay_ack + 1 = 1
      BY <1>1
    <3>2. w = [s EXCEPT !.usb = [s.usb EXCEPT !.async = TRUE, !.delay_ack = s.usb.delay_ack + 1, !.cb = o.of,
                                              !.queue = Append(s.usb.queue, e)]]
      BY <1>1 DEF Libs, CtlUsbs
    <3> HIDE DEF w
    <3>3. w = [s EXCEPT !.usb = u1]
      BY <1>4, <3>1, <3>2, Zenon
    <3> QED
      BY <3>3 DEF WithUsb, w
  <2>2. Asserts(s.usb.cb = 0, s) = s /\ y1.usb = u1
    BY <1>1, <1>5, WithUsbIs DEF Asserts
  <2>4. ~y1.usb.running
    BY <1>6, <2>2
  <2>3. [Asserts(s.usb.cb = 0, s) EXCEPT !.usb.async = TRUE, !.usb.delay_ack = @ + 1, !.usb.cb = o.of,
                  !.usb.queue = Append(@, e)] = y1
    <3> HIDE DEF y1
    <3> QED
      BY <2>1, <2>2, Zenon
  <2> HIDE DEF y1, u1
  <2> QED
    BY <1>1, <2>2, <2>3, <2>4, Zenon DEF WriteDataAsync, e
<1> HIDE DEF u1, t
<1>8. y1 \in Libs /\ y1.usb = u1 /\ y1.rqts = s.rqts /\ y1.mcu = s.mcu
  BY <1>1, <1>5, WithUsbIs
<1>9. u2 \in CtlUsbs
  BY <1>5 DEF CtlUsbs
<1>10. /\ u2.queue = <<e>> /\ u2.dma_req = FALSE /\ u2.running = TRUE /\ u2.async = u1.async
       /\ u2.delay_ack = u1.delay_ack /\ u2.cb = u1.cb /\ u2.pending = u1.pending /\ u2.failed = u1.failed
       /\ u2.cbs = u1.cbs /\ u2.calls = u1.calls /\ u2.setup = u1.setup
  BY <1>5, <1>6 DEF CtlUsbs
<1> HIDE DEF y1
<1>11. t = SendUsbRequest(y2, "DATA", o.of, FALSE)
  <2>1. y1.usb.queue # <<>> /\ Head(y1.usb.queue).of = o.of /\ y1.usb.dma_req
    <3>1. y1.usb.queue = <<e>> /\ y1.usb.dma_req
      BY <1>6, <1>8
    <3>2. y1.usb.queue # <<>> /\ Head(y1.usb.queue) = e
      BY <3>1, Pairs
    <3> QED
      BY <1>3, <3>1, <3>2
  <2>2. [y1 EXCEPT !.usb.running = TRUE, !.usb.dma_req = FALSE] = y2
    BY <1>5, <1>8 DEF WithUsb, Libs
  <2> HIDE DEF y2
  <2>3. SendEp0Dma(y1) = SendUsbRequest(y2, "DATA", o.of, FALSE)
    BY <2>1, <2>2, Zenon DEF SendEp0Dma, Asserts
  <2> QED
    BY <1>6, <1>7, <2>3
<1>12. UsbIs(u2, j, o)
  <2> HIDE DEF u2
  <2> QED
    BY <1>1, <1>6, <1>10 DEF UsbIs, WritesData, DelaysAck, CbsOf, e
<1> HIDE DEF u2
<1>13. y2 \in Libs /\ y2.usb = u2 /\ y2.rqts = s.rqts /\ y2.mcu = s.mcu
  BY <1>8, <1>9, WithUsbIs
<1> HIDE DEF y2
<1>14. Begun(y2, t, j, o)
  BY <1>1, <1>2, <1>11, <1>12, <1>13, RequestMade
<1> QED
  BY <1>6, <1>10, <1>13, <1>14 DEF Begun, t

-----------------------------------------------------------------------------
(* A transfer that is abandoned *)

LEMMA HeadIsCancelled ==
    ASSUME NEW s \in Libs, NEW h \in CtlRqts, s.rqts = <<h>>, h.state = "WAITING", h.code \in {"DATA", "ACK"}
    PROVE  RemoveEpDataRequests(s) = [Ep0Cancelled(s, h) EXCEPT !.rqts = Tail(@)]
<1> DEFINE related == {k \in DOMAIN s.rqts : s.rqts[k].code \in {"DATA", "ACK"}}
           k == CHOOSE i \in related : \A j \in related : i <= j
<1>1. s.rqts # <<>> /\ Head(s.rqts) = h /\ s.rqts[1] = h
  BY Pairs
<1>2. DOMAIN s.rqts = {1}
  OBVIOUS
<1>3. related = {1}
  BY <1>1, <1>2
<1>4. k = 1
  <2> HIDE DEF related
  <2>1. \E i \in related : \A j \in related : i <= j
    BY <1>3
  <2>2. k \in related
    BY <2>1
  <2> QED
    BY <1>3, <2>2
<1>5. s.rqts[k].state = "WAITING"
  BY <1>1, <1>4
<1> QED
  BY <1>1, <1>5, Zenon DEF RemoveEpDataRequests

LEMMA CancelEnds ==
    ASSUME NEW a \in Libs, NEW h \in CtlRqts, a.rqts = <<h>>, h.state = "WAITING", h.code \in {"DATA", "ACK"},
           NEW v \in CtlUsbs, Ep0Cancelled(a, h) = WithUsb(a, v),
           v.delay_ack = 0, v.queue = <<>>, ~v.running, v.dma_req, ~v.failed, v.cbs = <<>>
    PROVE  LET x == [[RemoveEpDataRequests(a) EXCEPT !.usb.cb = 0, !.usb.async = FALSE] EXCEPT !.usb.pending = 0]
           IN  LibIs(x, 0, NoAnswer) /\ x.mcu = a.mcu /\ x.usb.calls = v.calls
<1> DEFINE b == WithUsb(a, v)
           c == [b EXCEPT !.rqts = <<>>]
           w1 == [v EXCEPT !.cb = 0, !.async = FALSE]
           w2 == [w1 EXCEPT !.pending = 0]
           x == [[RemoveEpDataRequests(a) EXCEPT !.usb.cb = 0, !.usb.async = FALSE] EXCEPT !.usb.pending = 0]
<1>1. b \in Libs /\ b.usb = v /\ b.rqts = <<h>> /\ b.mcu = a.mcu
  BY WithUsbIs
<1>2. RemoveEpDataRequests(a) = c
  <2>1. RemoveEpDataRequests(a) = [b EXCEPT !.rqts = Tail(@)]
    BY HeadIsCancelled
  <2>2. Tail(b.rqts) = <<>>
    BY <1>1, Pairs
  <2> QED
    BY <2>1, <2>2
<1> HIDE DEF b
<1>3. c \in Libs /\ c.usb = v /\ c.rqts = <<>> /\ c.mcu = a.mcu
  <2>1. <<>> \in Seq(CtlRqts)
    OBVIOUS
  <2> QED
    BY <1>1, <2>1 DEF Libs
<1>4. w1 \in CtlUsbs /\ w2 \in CtlUsbs
  <2>1. w1 \in CtlUsbs
    BY DEF CtlUsbs
  <2> HIDE DEF w1
  <2>2. w2 \in CtlUsbs
    BY <2>1 DEF CtlUsbs
  <2> QED
    BY <2>1, <2>2
<1>5. /\ w2.cb = 0 /\ ~w2.async /\ w2.pending = 0 /\ w2.delay_ack = 0 /\ w2.queue = <<>> /\ ~w2.running
      /\ w2.dma_req /\ ~w2.failed /\ w2.cbs = <<>> /\ w2.calls = v.calls
  BY DEF CtlUsbs
<1> HIDE DEF c
<1>6. x = WithUsb(WithUsb(c, w1), w2)
  <2>1. [c EXCEPT !.usb.cb = 0, !.usb.async = FALSE] = WithUsb(c, w1)
    BY <1>3 DEF WithUsb, Libs
  <2>2. WithUsb(c, w1).usb = w1
    BY <1>3, <1>4, WithUsbIs
  <2>3. [WithUsb(c, w1) EXCEPT !.usb.pending = 0] = WithUsb(WithUsb(c, w1), w2)
    <3> DEFINE d == WithUsb(c, w1)
    <3>1. d.usb = w1
      BY <2>2
    <3> HIDE DEF d, w1
    <3>2. [d EXCEPT !.usb.pending = 0] = WithUsb(d, w2)
      BY <3>1, Zenon DEF WithUsb
    <3> QED
      BY <3>2 DEF d
  <2> QED
    BY <1>2, <2>1, <2>3, Zenon
<1> HIDE DEF w1, w2, x
<1>7. WithUsb(c, w1) \in Libs /\ WithUsb(c, w1).rqts = <<>> /\ WithUsb(c, w1).mcu = a.mcu
  BY <1>3, <1>4, WithUsbIs
<1>8. x \in Libs /\ x.usb = w2 /\ x.rqts = <<>> /\ x.mcu = a.mcu
  BY <1>4, <1>6, <1>7, WithUsbIs
<1>9. UsbIs(w2, 0, NoAnswer)
  BY <1>5 DEF UsbIs, NoAnswer, WritesData, DelaysAck, CbsOf
<1> QED
  BY <1>5, <1>8, <1>9 DEF LibIs, RqtsOf, NoAnswer, x

EndUsb(u, k) == [u EXCEPT !.cb = 0, !.async = FALSE, !.calls = [u.calls EXCEPT ![k] = @ + 1]]
LEMMA EndWriteIs ==
    ASSUME NEW s \in Libs, KPackets \in Nat, NEW k \in 1..KPackets, s.usb.cb = k
    PROVE  LET u == EndUsb(s.usb, k)
           IN  /\ u \in CtlUsbs /\ EndWrite(s) = WithUsb(s, u) /\ u.calls = [s.usb.calls EXCEPT ![k] = @ + 1]
               /\ u.delay_ack = s.usb.delay_ack /\ u.queue = s.usb.queue /\ u.running = s.usb.running
               /\ u.dma_req = s.usb.dma_req /\ u.failed = s.usb.failed /\ u.cbs = s.usb.cbs
<1> DEFINE calls == [s.usb.calls EXCEPT ![k] = @ + 1]
           u0 == [s.usb EXCEPT !.cb = 0, !.async = FALSE]
           u == [u0 EXCEPT !.calls = calls]
<1>1. s.usb \in CtlUsbs /\ calls \in [1..KPackets -> Nat]
  BY LibHas DEF CtlUsbs
<1>2. u0 \in CtlUsbs /\ u0.calls = s.usb.calls
  BY <1>1 DEF CtlUsbs
<1>3. EndWrite(s) = [[s EXCEPT !.usb.cb = 0, !.usb.async = FALSE] EXCEPT !.usb.calls[k] = @ + 1]
  BY DEF EndWrite
<1>4. [s EXCEPT !.usb.cb = 0, !.usb.async = FALSE] = WithUsb(s, u0)
  BY <1>1 DEF WithUsb, Libs
<1>5. WithUsb(s, u0).usb = u0 /\ WithUsb(s, u0) \in Libs
  BY <1>2, WithUsbIs
<1>6. [WithUsb(s, u0) EXCEPT !.usb.calls[k] = @ + 1] = WithUsb(s, u)
  <2> HIDE DEF u0
  <2> QED
    BY <1>2, <1>5 DEF WithUsb, Libs
<1>7. u = EndUsb(s.usb, k)
  <2> HIDE DEF calls
  <2> QED
    BY <1>1 DEF EndUsb, CtlUsbs, calls
<1>8. u \in CtlUsbs
  <2> HIDE DEF u0, calls
  <2> QED
    BY <1>1, <1>2 DEF CtlUsbs
<1>9. /\ u.calls = calls
      /\ u.delay_ack = s.usb.delay_ack /\ u.queue = s.usb.queue /\ u.running = s.usb.running
      /\ u.dma_req = s.usb.dma_req /\ u.failed = s.usb.failed /\ u.cbs = s.usb.cbs
  <2> HIDE DEF calls
  <2> QED
    BY <1>1 DEF CtlUsbs
<1> HIDE DEF u0
<1>10. EndWrite(s) = WithUsb(s, u)
  BY <1>3, <1>4, <1>6, Zenon
<1> QED
  BY <1>7, <1>8, <1>9, <1>10

\* Nothing is left of a write that is cancelled but its callback, which comes.
LEMMA WriteIsAbandoned ==
    ASSUME NEW s, NEW o \in Answers, LibIs(s, 0, o), WritesData(o), KPackets \in Nat, o.of \in 1..KPackets
    PROVE  /\ LibIs(ResetIfDelayed(s), 0, NoAnswer) /\ ResetIfDelayed(s).mcu = s.mcu
           /\ ResetIfDelayed(s).usb.calls = [s.usb.calls EXCEPT ![o.of] = @ + 1]
<1> DEFINE h == CtlRqt(o, "WAITING")
           k == o.of
           u0 == [s.usb EXCEPT !.delay_ack = 0, !.setup = FALSE]
           t == WithUsb(s, u0)
           u1 == [u0 EXCEPT !.running = FALSE, !.queue = <<>>]
           stopped == WithUsb(t, u1)
           told == IF t.usb.queue = <<>> THEN stopped ELSE WriteCallback(stopped, Head(t.usb.queue).of)
           x == [[RemoveEpDataRequests(told) EXCEPT !.usb.cb = 0, !.usb.async = FALSE] EXCEPT !.usb.pending = 0]
<1>1. /\ s \in Libs /\ s.usb \in CtlUsbs /\ UsbIs(s.usb, 0, o) /\ s.rqts = <<h>>
      /\ h \in CtlRqts /\ h.state = "WAITING" /\ h.code = CodeOf(o) /\ h.of = k
      /\ o.stage \in {"data", "sync"} /\ CodeOf(o) \in {"DATA", "ACK"}
  BY LibHas, RqtStates DEF LibIs, RqtsOf, CtlRqt, WritesData, CodeOf
<1>2. /\ s.usb.delay_ack = 1 /\ s.usb.async /\ s.usb.cb = k /\ s.usb.pending = (IF o.stage = "sync" THEN k ELSE 0)
      /\ s.usb.queue = (IF o.stage = "data" THEN <<[of |-> k, left |-> o.left]>> ELSE <<>>)
      /\ (s.usb.dma_req <=> o.stage # "data") /\ ~s.usb.failed
      /\ s.usb.cbs = (IF o.stage = "data" THEN <<>> ELSE <<"UsbAckCallback">>)
  BY <1>1 DEF UsbIs, WritesData, DelaysAck, CbsOf, CallbackOf
<1>3. /\ u0 \in CtlUsbs /\ u0.delay_ack = 0 /\ u0.async /\ u0.queue = s.usb.queue
      /\ u1 \in CtlUsbs /\ u1.delay_ack = 0 /\ u1.queue = <<>> /\ ~u1.running /\ u1.cb = k
      /\ u1.pending = s.usb.pending /\ u1.dma_req = s.usb.dma_req /\ ~u1.failed /\ u1.cbs = s.usb.cbs
      /\ u1.calls = s.usb.calls
  <2>1. u0 \in CtlUsbs
    <3>1. [s.usb EXCEPT !.delay_ack = 0] \in CtlUsbs
      <4>1. 0 \in Int
        OBVIOUS
      <4> QED
        BY <1>1, <4>1, UndelayedIs
    <3>2. u0 = [[s.usb EXCEPT !.delay_ack = 0] EXCEPT !.setup = FALSE]
      BY <1>1 DEF CtlUsbs
    <3> DEFINE v == [s.usb EXCEPT !.delay_ack = 0]
    <3> HIDE DEF v
    <3>3. [v EXCEPT !.setup = FALSE] \in CtlUsbs
      BY <3>1 DEF CtlUsbs, v
    <3> QED
      BY <3>2, <3>3 DEF v
  <2>2. u0.delay_ack = 0 /\ u0.async /\ u0.queue = s.usb.queue /\ u0.cb = k /\ u0.pending = s.usb.pending
        /\ u0.dma_req = s.usb.dma_req /\ ~u0.failed /\ u0.cbs = s.usb.cbs /\ u0.calls = s.usb.calls
    BY <1>1, <1>2 DEF CtlUsbs
  <2> HIDE DEF u0
  <2>3. <<>> \in Seq([of : Nat, left : Nat])
    OBVIOUS
  <2>4. u1 \in CtlUsbs
    BY <2>1, <2>3 DEF CtlUsbs
  <2>5. u1.delay_ack = 0 /\ u1.queue = <<>> /\ ~u1.running /\ u1.cb = k
      /\ u1.pending = s.usb.pending /\ u1.dma_req = s.usb.dma_req /\ ~u1.failed /\ u1.cbs = s.usb.cbs
      /\ u1.calls = s.usb.calls
    BY <2>1, <2>2 DEF CtlUsbs
  <2> QED
    BY <2>1, <2>2, <2>4, <2>5
<1>4. t \in Libs /\ t.usb = u0 /\ t.rqts = <<h>> /\ t.mcu = s.mcu
  BY <1>1, <1>3, WithUsbIs
<1>5. [s EXCEPT !.usb.delay_ack = 0, !.usb.setup = FALSE] = t
  BY <1>1 DEF WithUsb, Libs
<1> HIDE DEF h, t, u0
<1>6. stopped \in Libs /\ stopped.usb = u1 /\ stopped.rqts = <<h>> /\ stopped.mcu = s.mcu
  BY <1>3, <1>4, WithUsbIs
<1>7. [t EXCEPT !.usb.running = FALSE, !.usb.queue = <<>>] = stopped
  BY <1>3, <1>4 DEF WithUsb, Libs
<1> HIDE DEF stopped, u1
<1>8. ResetIfDelayed(s) = x
  <2>1. CancelAsync(t) = [RemoveEpDataRequests(told) EXCEPT !.usb.cb = 0, !.usb.async = FALSE]
    <3> DEFINE c == [t EXCEPT !.usb.running = FALSE, !.usb.queue = <<>>]
               d == IF t.usb.queue = <<>> THEN c ELSE WriteCallback(c, Head(t.usb.queue).of)
    <3>1. c = stopped
      BY <1>7
    <3>2. CancelAsync(t) = [RemoveEpDataRequests(d) EXCEPT !.usb.cb = 0, !.usb.async = FALSE]
      BY DEF CancelAsync
    <3> HIDE DEF c
    <3>3. d = told
      BY <3>1
    <3> HIDE DEF d, told
    <3> QED
      BY <3>2, <3>3
  <2> HIDE DEF told
  <2>2. ResetEP0State(s) = [CancelAsync(t) EXCEPT !.usb.pending = 0]
    <3>1. t.usb.async
      BY <1>3, <1>4
    <3> QED
      BY <1>5, <3>1, Zenon DEF ResetEP0State
  <2>3. s.usb.delay_ack > 0
    BY <1>2
  <2> QED
    BY <2>1, <2>2, <2>3, Zenon DEF ResetIfDelayed
<1>9. CASE o.stage = "data"
  <2> DEFINE u2 == EndUsb(stopped.usb, k)
             u3 == [u2 EXCEPT !.dma_req = TRUE]
  <2>1. /\ u2 \in CtlUsbs /\ EndWrite(stopped) = WithUsb(stopped, u2) /\ u2.calls = [s.usb.calls EXCEPT ![k] = @ + 1]
        /\ u2.delay_ack = 0 /\ u2.queue = <<>> /\ ~u2.running /\ ~u2.failed /\ u2.cbs = <<>>
    <3>1. stopped.usb.cb = k /\ stopped.usb.calls = s.usb.calls /\ stopped.usb.delay_ack = 0
          /\ stopped.usb.queue = <<>> /\ ~stopped.usb.running /\ ~stopped.usb.failed /\ stopped.usb.cbs = <<>>
      BY <1>2, <1>3, <1>6, <1>9
    <3>2. /\ u2 \in CtlUsbs /\ EndWrite(stopped) = WithUsb(stopped, u2)
          /\ u2.calls = [stopped.usb.calls EXCEPT ![k] = @ + 1]
          /\ u2.delay_ack = stopped.usb.delay_ack /\ u2.queue = stopped.usb.queue
          /\ u2.running = stopped.usb.running
          /\ u2.dma_req = stopped.usb.dma_req /\ u2.failed = stopped.usb.failed /\ u2.cbs = stopped.usb.cbs
      <4> HIDE DEF u2, k
      <4>1. k \in 1..KPackets
        BY DEF k
      <4> QED
        BY <1>6, <3>1, <4>1, EndWriteIs DEF u2
    <3> QED
      BY <3>1, <3>2
  <2>2. told = WithUsb(stopped, u2)
    <3>1. t.usb.queue # <<>>
      <4> DEFINE e == [of |-> k, left |-> o.left]
      <4>1. t.usb.queue = <<e>>
        BY <1>2, <1>3, <1>4, <1>9
      <4> HIDE DEF e
      <4> QED
        BY <4>1, Pairs
    <3>2. ~(stopped.usb.delay_ack > 0)
      BY <1>3, <1>6
    <3> QED
      BY <2>1, <3>1, <3>2, Zenon DEF WriteCallback
  <2> HIDE DEF u2, told
  <2>3. told \in Libs /\ told.usb = u2 /\ told.rqts = <<h>> /\ told.mcu = s.mcu
    BY <1>6, <2>1, <2>2, WithUsbIs
  <2>4. /\ u3 \in CtlUsbs /\ u3.calls = u2.calls /\ u3.delay_ack = 0 /\ u3.queue = <<>> /\ ~u3.running /\ ~u3.failed
        /\ u3.cbs = <<>> /\ u3.dma_req
    BY <2>1 DEF CtlUsbs
  <2>5. Ep0Cancelled(told, h) = WithUsb(told, u3)
    <3>1. h.code # "ACK"
      BY <1>1, <1>9 DEF CodeOf
    <3>2. [told EXCEPT !.usb.dma_req = TRUE] = WithUsb(told, u3)
      BY <2>3, Zenon DEF WithUsb
    <3> QED
      BY <3>1, <3>2, Zenon DEF Ep0Cancelled
  <2> HIDE DEF u3
  <2>6. LibIs(x, 0, NoAnswer) /\ x.mcu = told.mcu /\ x.usb.calls = u3.calls
    <3> HIDE DEF x
    <3> QED
      BY <1>1, <2>3, <2>4, <2>5, CancelEnds DEF x
  <2> QED
    BY <1>8, <2>1, <2>3, <2>4, <2>6
<1>10. CASE o.stage = "sync"
  <2> DEFINE v == UsbAcked(stopped.usb, o)
             calls == [s.usb.calls EXCEPT ![k] = @ + 1]
  <2>1. /\ stopped.usb \in CtlUsbs /\ stopped.usb.pending = k /\ stopped.usb.cb = k
        /\ stopped.usb.cbs = <<"UsbAckCallback">> /\ stopped.usb.calls = s.usb.calls
        /\ stopped.usb.delay_ack = 0 /\ stopped.usb.queue = <<>> /\ ~stopped.usb.running
        /\ ~stopped.usb.failed /\ stopped.usb.dma_req
    BY <1>2, <1>3, <1>6, <1>10
  <2>2. v \in CtlUsbs /\ AckCallback(stopped, h.of) = WithUsb(stopped, v)
    BY <1>6, <1>10, <2>1, AckCallbackDoes
  <2>3. /\ v.calls = calls /\ v.delay_ack = 0 /\ v.queue = <<>> /\ ~v.running /\ ~v.failed
        /\ v.cbs = <<>> /\ v.dma_req
    <3> DEFINE r == [stopped.usb.calls EXCEPT ![k] = @ + 1]
    <3>1. v = [stopped.usb EXCEPT !.cb = 0, !.async = FALSE, !.calls = r, !.pending = 0,
                                  !.setup = FALSE, !.cbs = <<>>, !.delay_ack = 0]
      BY <1>10, Zenon DEF UsbAcked
    <3>2. r = calls
      BY <2>1
    <3> HIDE DEF v, calls, r
    <3> QED
      BY <2>1, <3>1, <3>2 DEF CtlUsbs
  <2> HIDE DEF v
  <2>4. told = stopped
    BY <1>2, <1>3, <1>4, <1>10
  <2> HIDE DEF told
  <2>5. Ep0Cancelled(told, h) = WithUsb(told, v)
    <3>1. h.code = "ACK"
      BY <1>1, <1>10 DEF CodeOf
    <3> QED
      BY <2>2, <2>4, <3>1 DEF Ep0Cancelled
  <2>6. told \in Libs /\ told.rqts = <<h>> /\ told.mcu = s.mcu
    BY <1>6, <2>4
  <2>7. LibIs(x, 0, NoAnswer) /\ x.mcu = told.mcu /\ x.usb.calls = v.calls
    <3> HIDE DEF x
    <3> QED
      BY <1>1, <2>2, <2>3, <2>5, <2>6, CancelEnds DEF x
  <2> QED
    BY <1>8, <2>3, <2>6, <2>7
<1> QED
  BY <1>1, <1>9, <1>10

-----------------------------------------------------------------------------
(* What is said of a packet *)

Packets == [kind : {"write", "plain", "stall", "feature", "config"}, parts : Nat \ {0}]
KindsOf(stage) ==
    CASE stage \in {"data", "sync"} -> {"write"}
      [] stage = "stall" -> {"stall"}
      [] stage = "config" -> {"config"}
      [] stage = "feature" -> {"feature", "config"}
      [] OTHER -> {"plain", "feature", "config"}
\* The answer is one to packet p.
Fits(p, o) == p.kind \in KindsOf(o.stage) /\ (o.stage = "data" => o.left \in 1..p.parts)
\* How many messages come before the one of the answer.
Pos(p, o) ==
    CASE o.stage = "data" -> p.parts - o.left
      [] o.stage = "sync" -> p.parts
      [] o.stage = "ack" -> IF p.kind = "plain" THEN 0 ELSE IF p.kind = "feature" THEN 1 ELSE 2
      [] o.stage = "feature" -> IF p.kind = "feature" THEN 0 ELSE 1
      [] OTHER -> 0
FirstAnswer(p, k) ==
    CASE p.kind = "write"   -> Stage("data", k, p.parts)
      [] p.kind = "stall"   -> Stage("stall", k, 0)
      [] p.kind = "feature" -> Stage("feature", k, 0)
      [] p.kind = "config"  -> Stage("config", k, 0)
      [] OTHER              -> Stage("ack", k, 0)
NextOf(j, o) ==
    IF j # 0 THEN o
    ELSE CASE o.stage = "data"    -> IF o.left > 1 THEN Stage("data", o.of, o.left - 1) ELSE Stage("sync", o.of, 0)
           [] o.stage = "feature" -> Stage("ack", o.of, 0)
           [] o.stage = "config"  -> Stage("feature", o.of, 0)
           [] OTHER               -> NoAnswer

\* Expected() of a packet that is there: its length, and each message.
Requested(k) == [code |-> "DATA", of |-> k]
LEMMA ExpectedIs ==
    ASSUME NEW k, NEW p \in Packets, fw.packets[k] = p
    PROVE  Expected(k) = CASE p.kind = "write"   -> [i \in 1..p.parts |-> Requested(k)] \o <<[code |-> "ACK", of |-> k]>>
                           [] p.kind = "stall"   -> <<[code |-> "STALL", of |-> k]>>
                           [] p.kind = "feature" -> <<[code |-> "FEATURE", of |-> k], [code |-> "ACK", of |-> k]>>
                           [] p.kind = "config"  -> <<[code |-> "FEATURE", of |-> k], [code |-> "FEATURE", of |-> k],
                                                      [code |-> "ACK", of |-> k]>>
                           [] OTHER              -> <<[code |-> "ACK", of |-> k]>>
  BY DEF Expected, Requested

Lengths(p) ==
    CASE p.kind = "write" -> p.parts + 1
      [] p.kind = "feature" -> 2
      [] p.kind = "config" -> 3
      [] OTHER -> 1
LEMMA ExpectedLength ==
    ASSUME NEW k \in Nat, NEW p \in Packets, fw.packets[k] = p
    PROVE  /\ Expected(k) \in Seq(CtlMessages) /\ Len(Expected(k)) = Lengths(p)
           /\ p.kind = "write" => /\ \A i \in 1..p.parts : Expected(k)[i] = Requested(k)
                                  /\ Expected(k)[p.parts + 1] = [code |-> "ACK", of |-> k]
<1> DEFINE a == [code |-> "ACK", of |-> k]
           f == [code |-> "FEATURE", of |-> k]
           s == [code |-> "STALL", of |-> k]
           d == Requested(k)
<1>1. a \in CtlMessages /\ f \in CtlMessages /\ s \in CtlMessages /\ d \in CtlMessages
  BY DEF CtlMessages, Requested
<1>2. p.kind \in {"write", "plain", "stall", "feature", "config"} /\ p.parts \in Nat
  BY DEF Packets
<1> HIDE DEF a, f, s, d
<1>3. CASE p.kind = "write"
  <2> DEFINE w == [i \in 1..p.parts |-> d]
  <2>1. Expected(k) = w \o <<a>>
    BY <1>3, ExpectedIs DEF a, d
  <2>2. w \in Seq(CtlMessages) /\ Len(w) = p.parts /\ \A i \in 1..p.parts : w[i] = d
    BY <1>1, <1>2
  <2> HIDE DEF w
  <2>3. w \o <<a>> = Append(w, a)
    BY <1>1, <2>2, AppendIsConcat
  <2>4. /\ Append(w, a) \in Seq(CtlMessages) /\ Len(Append(w, a)) = p.parts + 1
        /\ (\A i \in 1..p.parts : Append(w, a)[i] = d) /\ Append(w, a)[p.parts + 1] = a
    BY <1>1, <2>2, AppendProperties
  <2> QED
    BY <1>3, <2>1, <2>3, <2>4 DEF Lengths, a, d
<1>4. CASE p.kind = "stall"
  <2>1. Expected(k) = <<s>>
    BY <1>4, ExpectedIs DEF s
  <2> QED
    BY <1>1, <1>4, <2>1 DEF Lengths
<1>5. CASE p.kind = "feature"
  <2>1. Expected(k) = <<f, a>>
    BY <1>5, ExpectedIs DEF f, a
  <2> QED
    BY <1>1, <1>5, <2>1 DEF Lengths
<1>6. CASE p.kind = "config"
  <2>1. Expected(k) = <<f, f, a>>
    BY <1>6, ExpectedIs DEF f, a
  <2> QED
    BY <1>1, <1>6, <2>1 DEF Lengths
<1>7. CASE p.kind = "plain"
  <2>1. Expected(k) = <<a>>
    BY <1>7, ExpectedIs DEF a
  <2> QED
    BY <1>1, <1>7, <2>1 DEF Lengths
<1> QED
  BY <1>2, <1>3, <1>4, <1>5, <1>6, <1>7

\* The message of an answer is the one that is expected there.
LEMMA MessageIsExpected ==
    ASSUME NEW o \in Answers, o.stage # "none", NEW p \in Packets, fw.packets[o.of] = p, Fits(p, o)
    PROVE  /\ Pos(p, o) \in Nat /\ Pos(p, o) + 1 <= Len(Expected(o.of)) /\ CtlMessage(o) \in CtlMessages
           /\ Expected(o.of)[Pos(p, o) + 1] = CtlMessage(o)
<1> DEFINE k == o.of
           m == CtlMessage(o)
           e == Expected(k)
<1>1. k \in Nat /\ o.left \in Nat /\ p.parts \in Nat
  BY DEF Answers, Packets
<1>2. m = [code |-> CodeOf(o), of |-> k] /\ m \in CtlMessages
  BY <1>1 DEF CtlMessage, CodeOf, CtlMessages
<1>3. /\ Len(e) = Lengths(p)
      /\ p.kind = "write" => /\ \A i \in 1..p.parts : e[i] = Requested(k)
                             /\ e[p.parts + 1] = [code |-> "ACK", of |-> k]
  BY <1>1, ExpectedLength
<1> HIDE DEF m, k
<1>4. o.stage \in {"data", "sync", "ack", "stall", "feature", "config"}
  BY DEF Answers
<1>5. CASE o.stage = "data"
  <2>1. p.kind = "write" /\ o.left \in 1..p.parts /\ Pos(p, o) = p.parts - o.left /\ Lengths(p) = p.parts + 1
    BY <1>5 DEF Fits, KindsOf, Pos, Lengths
  <2>2. Pos(p, o) \in Nat /\ Pos(p, o) + 1 \in 1..p.parts
    BY <1>1, <2>1
  <2>3. m = Requested(k)
    BY <1>2, <1>5 DEF CodeOf, Requested
  <2>4. e[Pos(p, o) + 1] = m
    BY <1>3, <2>1, <2>2, <2>3
  <2>5. Pos(p, o) + 1 <= Len(e)
    BY <1>1, <1>3, <2>1, <2>2
  <2> QED
    BY <1>2, <2>2, <2>4, <2>5 DEF k, m
<1>6. CASE o.stage = "sync"
  <2>1. p.kind = "write" /\ Pos(p, o) = p.parts /\ Lengths(p) = p.parts + 1
    BY <1>6 DEF Fits, KindsOf, Pos, Lengths
  <2>2. m = [code |-> "ACK", of |-> k]
    BY <1>2, <1>6 DEF CodeOf
  <2> QED
    BY <1>1, <1>2, <1>3, <2>1, <2>2 DEF k, m
<1>7. CASE o.stage = "ack"
  <2>1. p.kind \in {"plain", "feature", "config"} /\ m = [code |-> "ACK", of |-> k]
    BY <1>2, <1>7 DEF Fits, KindsOf, CodeOf
  <2>2. e = CASE p.kind = "feature" -> <<[code |-> "FEATURE", of |-> k], [code |-> "ACK", of |-> k]>>
              [] p.kind = "config"  -> <<[code |-> "FEATURE", of |-> k], [code |-> "FEATURE", of |-> k],
                                         [code |-> "ACK", of |-> k]>>
              [] OTHER              -> <<[code |-> "ACK", of |-> k]>>
    BY <2>1, ExpectedIs DEF k
  <2>3. Pos(p, o) = IF p.kind = "plain" THEN 0 ELSE IF p.kind = "feature" THEN 1 ELSE 2
    BY <1>7 DEF Pos
  <2> HIDE DEF e
  <2> QED
    BY <1>2, <2>1, <2>2, <2>3 DEF k, m, e
<1>8. CASE o.stage = "feature"
  <2>1. p.kind \in {"feature", "config"} /\ m = [code |-> "FEATURE", of |-> k]
    BY <1>2, <1>8 DEF Fits, KindsOf, CodeOf
  <2>2. e = CASE p.kind = "feature" -> <<[code |-> "FEATURE", of |-> k], [code |-> "ACK", of |-> k]>>
              [] OTHER              -> <<[code |-> "FEATURE", of |-> k], [code |-> "FEATURE", of |-> k],
                                         [code |-> "ACK", of |-> k]>>
    BY <2>1, ExpectedIs DEF k
  <2>3. Pos(p, o) = IF p.kind = "feature" THEN 0 ELSE 1
    BY <1>8 DEF Pos
  <2> HIDE DEF e
  <2> QED
    BY <1>2, <2>1, <2>2, <2>3 DEF k, m, e
<1>9. CASE o.stage = "config"
  <2>1. p.kind = "config" /\ m = [code |-> "FEATURE", of |-> k] /\ Pos(p, o) = 0
    BY <1>2, <1>9 DEF Fits, KindsOf, CodeOf, Pos
  <2>2. e = <<[code |-> "FEATURE", of |-> k], [code |-> "FEATURE", of |-> k], [code |-> "ACK", of |-> k]>>
    BY <2>1, ExpectedIs DEF k
  <2> HIDE DEF e
  <2> QED
    BY <1>2, <2>1, <2>2 DEF k, m, e
<1>10. CASE o.stage = "stall"
  <2>1. p.kind = "stall" /\ m = [code |-> "STALL", of |-> k] /\ Pos(p, o) = 0
    BY <1>2, <1>10 DEF Fits, KindsOf, CodeOf, Pos
  <2>2. e = <<[code |-> "STALL", of |-> k]>>
    BY <2>1, ExpectedIs DEF k
  <2> HIDE DEF e
  <2> QED
    BY <1>2, <2>1, <2>2 DEF k, m, e
<1> QED
  BY <1>4, <1>5, <1>6, <1>7, <1>8, <1>9, <1>10

\* What the answer is at next, and where the firmware is to get it.
LEMMA NextFits ==
    ASSUME NEW j \in Nat, NEW o \in Answers, o.stage # "none"
    PROVE  /\ NextOf(j, o) \in Answers
           /\ NextOf(j, o).stage # "none" => NextOf(j, o).of = o.of
           /\ \A p \in Packets : Fits(p, o) /\ NextOf(j, o).stage # "none" =>
                /\ Fits(p, NextOf(j, o)) /\ Pos(p, NextOf(j, o)) = (IF j = 0 THEN Pos(p, o) + 1 ELSE Pos(p, o))
<1>1. CASE j # 0
  BY <1>1 DEF NextOf
<1>2. CASE j = 0
  <2>1. o.stage \in {"data", "sync", "ack", "stall", "feature", "config"} /\ o.of \in Nat /\ o.left \in Nat
    BY DEF Answers
  <2>2. CASE o.stage = "data" /\ o.left > 1
    <3> DEFINE n == Stage("data", o.of, o.left - 1)
    <3>1. NextOf(j, o) = n
      BY <1>2, <2>2 DEF NextOf
    <3>2. n \in Answers /\ n.stage = "data" /\ n.of = o.of /\ n.left = o.left - 1
      BY <2>1, <2>2 DEF Stage, Answers
    <3> HIDE DEF n
    <3>3. ASSUME NEW p \in Packets, Fits(p, o)
          PROVE  Fits(p, n) /\ Pos(p, n) = Pos(p, o) + 1
      <4>1. p.kind \in KindsOf("data") /\ o.left \in 1..p.parts /\ p.parts \in Nat
        BY <2>2, <3>3 DEF Fits, Packets
      <4>2. Pos(p, o) = p.parts - o.left /\ Pos(p, n) = p.parts - (o.left - 1)
        BY <2>2, <3>2 DEF Pos
      <4> QED
        BY <2>1, <2>2, <3>2, <4>1, <4>2 DEF Fits
    <3> QED
      BY <1>2, <3>1, <3>2, <3>3
  <2>3. CASE o.stage = "data" /\ ~(o.left > 1)
    <3> DEFINE n == Stage("sync", o.of, 0)
    <3>1. NextOf(j, o) = n
      BY <1>2, <2>3 DEF NextOf
    <3>2. n \in Answers /\ n.stage = "sync" /\ n.of = o.of
      BY <2>1 DEF Stage, Answers
    <3> HIDE DEF n
    <3>3. ASSUME NEW p \in Packets, Fits(p, o)
          PROVE  Fits(p, n) /\ Pos(p, n) = Pos(p, o) + 1
      <4>1. p.kind = "write" /\ o.left \in 1..p.parts /\ p.parts \in Nat
        BY <2>3, <3>3 DEF Fits, Packets, KindsOf
      <4>2. Pos(p, o) = p.parts - o.left /\ Pos(p, n) = p.parts
        BY <2>3, <3>2 DEF Pos
      <4>3. o.left = 1
        BY <2>1, <2>3, <4>1
      <4> QED
        BY <3>2, <4>1, <4>2, <4>3 DEF Fits, KindsOf
    <3> QED
      BY <1>2, <3>1, <3>2, <3>3
  <2>4. CASE o.stage \in {"sync", "ack", "stall"}
    BY <1>2, <2>4 DEF NextOf, NoAnswer, Answers
  <2>5. CASE o.stage = "feature"
    <3> DEFINE n == Stage("ack", o.of, 0)
    <3>1. NextOf(j, o) = n
      BY <1>2, <2>5 DEF NextOf
    <3>2. n \in Answers /\ n.stage = "ack" /\ n.of = o.of
      BY <2>1 DEF Stage, Answers
    <3> HIDE DEF n
    <3> QED
      BY <1>2, <2>5, <3>1, <3>2 DEF Fits, KindsOf, Pos
  <2>6. CASE o.stage = "config"
    <3> DEFINE n == Stage("feature", o.of, 0)
    <3>1. NextOf(j, o) = n
      BY <1>2, <2>6 DEF NextOf
    <3>2. n \in Answers /\ n.stage = "feature" /\ n.of = o.of
      BY <2>1 DEF Stage, Answers
    <3> HIDE DEF n
    <3> QED
      BY <1>2, <2>6, <3>1, <3>2 DEF Fits, KindsOf, Pos
  <2> QED
    BY <2>1, <2>2, <2>3, <2>4, <2>5, <2>6
<1> QED
  BY <1>1, <1>2

LEMMA FirstFits ==
    ASSUME NEW k \in Nat, NEW p \in Packets
    PROVE  /\ FirstAnswer(p, k) \in Answers /\ FirstAnswer(p, k).stage # "none" /\ FirstAnswer(p, k).stage # "sync"
           /\ FirstAnswer(p, k).of = k /\ Fits(p, FirstAnswer(p, k)) /\ Pos(p, FirstAnswer(p, k)) = 0
<1> DEFINE o == FirstAnswer(p, k)
<1>1. p.kind \in {"write", "plain", "stall", "feature", "config"} /\ p.parts \in Nat /\ p.parts \in 1..p.parts
  BY DEF Packets
<1>2. o = Stage(CASE p.kind = "write" -> "data" [] p.kind = "plain" -> "ack" [] OTHER -> p.kind, k,
                IF p.kind = "write" THEN p.parts ELSE 0)
  BY <1>1 DEF FirstAnswer
<1>3. /\ o \in Answers /\ o.of = k /\ o.left = (IF p.kind = "write" THEN p.parts ELSE 0)
      /\ o.stage = CASE p.kind = "write" -> "data" [] p.kind = "plain" -> "ack" [] OTHER -> p.kind
  BY <1>1, <1>2 DEF Stage, Answers
<1> HIDE DEF o
<1> QED
  BY <1>1, <1>3 DEF Fits, KindsOf, Pos, o

-----------------------------------------------------------------------------
(* The DFC's handlers *)

LEMMA MessagesBehind ==
    ASSUME NEW o \in Answers
    PROVE  Messages(o) = Behind(<<>>, o)
  BY Pairs DEF Messages, Behind

\* A reply: the answer goes on.
LEMMA AnswerGoesOn ==
    ASSUME NEW s, NEW j \in Nat, NEW o \in Answers, LibIs(s, j, o), j # 0 \/ o.stage # "none",
           j = 0 => s.mcu = <<>>, KPackets \in Nat, o.stage # "none" => o.of \in 1..KPackets
    PROVE  /\ LibIs(Answered(s), 0, NextOf(j, o)) /\ Answered(s).mcu = Behind(s.mcu, NextOf(j, o))
           /\ Answered(s).usb.calls = IF j = 0 /\ o.stage = "sync" THEN [s.usb.calls EXCEPT ![o.of] = @ + 1]
                                      ELSE s.usb.calls
<1> DEFINE t == Answered(s)
           n == NextOf(j, o)
<1> HIDE DEF t
<1>1. CASE j # 0
  <2>1. LibIs(t, 0, o) /\ t.mcu = Behind(s.mcu, o) /\ t.usb.calls = s.usb.calls
    BY <1>1, OldStallEnds DEF t
  <2>2. n = o
    BY <1>1 DEF NextOf
  <2> HIDE DEF n
  <2> QED
    BY <1>1, <2>1, <2>2 DEF t, n
<1>2. CASE j = 0
  <2>1. s.mcu = <<>> /\ LibIs(s, 0, o) /\ o.of \in 1..KPackets /\ o.stage # "none"
    BY <1>2
  <2>2. o.stage \in {"data", "sync", "ack", "stall", "feature", "config"} /\ n \in Answers
    BY <2>1, NextFits DEF Answers
  <2>3. After(t, n) /\ t.usb.calls = IF o.stage = "sync" THEN [s.usb.calls EXCEPT ![o.of] = @ + 1] ELSE s.usb.calls
    <3>1. CASE o.stage = "data"
      <4>1. n = IF o.left > 1 THEN Stage("data", o.of, o.left - 1) ELSE Stage("sync", o.of, 0)
        BY <1>2, <3>1 DEF NextOf
      <4> HIDE DEF n
      <4>2. CASE o.left > 1
        BY <2>1, <3>1, <4>1, <4>2, DataGoOn DEF t
      <4>3. CASE ~(o.left > 1)
        BY <2>1, <3>1, <4>1, <4>3, DataEnd DEF t
      <4> QED
        BY <4>2, <4>3
    <3>2. CASE o.stage \in {"sync", "ack"}
      <4>1. n = NoAnswer
        BY <1>2, <3>2 DEF NextOf
      <4> HIDE DEF n
      <4> QED
        BY <2>1, <3>2, <4>1, AckEnds DEF t
    <3>3. CASE o.stage = "stall"
      <4>1. n = NoAnswer
        BY <1>2, <3>3 DEF NextOf
      <4> HIDE DEF n
      <4> QED
        BY <2>1, <3>3, <4>1, StallEnds DEF t
    <3>4. CASE o.stage = "feature"
      <4>1. n = Stage("ack", o.of, 0)
        BY <1>2, <3>4 DEF NextOf
      <4> HIDE DEF n
      <4> QED
        BY <2>1, <3>4, <4>1, FeatureEnds DEF t
    <3>5. CASE o.stage = "config"
      <4>1. n = Stage("feature", o.of, 0)
        BY <1>2, <3>5 DEF NextOf
      <4> HIDE DEF n
      <4> QED
        BY <2>1, <3>5, <4>1, ConfigGoesOn DEF t
    <3> QED
      BY <2>2, <3>1, <3>2, <3>3, <3>4, <3>5
  <2> HIDE DEF n
  <2>4. t.mcu = Behind(<<>>, n)
    BY <2>2, <2>3, MessagesBehind DEF After
  <2> QED
    BY <1>2, <2>1, <2>3, <2>4 DEF After, t, n
<1> QED
  BY <1>1, <1>2

\* The request that is answered is the one that has been sent.
LEMMA ResponseIsAnswer ==
    ASSUME NEW j \in Nat, NEW o \in Answers, LibIs(UsbNow, j, o), j # 0 \/ o.stage # "none", ResponseCame
    PROVE  Leaves(Answered(UsbNow))
<1> DEFINE h == IF j = 0 THEN CtlRqt(o, "WAITING") ELSE OldStall(j)
<1>1. ctlRqts = RqtsOf(j, o)
  BY DEF LibIs, UsbNow
<1>2. h.state = "WAITING"
  BY DEF CtlRqt, OldStall
<1>3. ctlRqts = <<h>> \/ \E q : ctlRqts = <<h, q>>
  BY <1>1 DEF RqtsOf
<1> HIDE DEF h
<1>4. ctlRqts # <<>> /\ Head(ctlRqts) = h
  BY <1>3, Pairs
<1>5. UsbNow.rqts = ctlRqts
  BY DEF UsbNow
<1> QED
  BY <1>2, <1>4, <1>5, Zenon DEF ResponseCame, Answered, Received, Removed

\* A reset or a setup packet: the transfer before is abandoned.
OldStallOf(o) == IF o.stage = "stall" THEN o.of ELSE 0
Abandons(o) == o.stage \in {"none", "data", "sync", "stall"}
LEMMA TransferIsAbandoned ==
    ASSUME NEW s, NEW o \in Answers, LibIs(s, 0, o), Abandons(o), KPackets \in Nat,
           o.stage # "none" => o.of \in 1..KPackets
    PROVE  /\ LibIs(ResetIfDelayed(s), OldStallOf(o), NoAnswer) /\ ResetIfDelayed(s).mcu = s.mcu
           /\ ResetIfDelayed(s).usb.calls = IF WritesData(o) THEN [s.usb.calls EXCEPT ![o.of] = @ + 1]
                                            ELSE s.usb.calls
<1>1. CASE WritesData(o)
  <2>1. o.of \in 1..KPackets /\ OldStallOf(o) = 0
    BY <1>1 DEF WritesData, OldStallOf
  <2> QED
    BY <1>1, <2>1, WriteIsAbandoned
<1>2. CASE ~WritesData(o)
  <2>1. o.stage \in {"none", "stall"}
    BY <1>2 DEF WritesData, Abandons
  <2>2. s.usb.delay_ack = 0
    BY <2>1 DEF LibIs, UsbIs, DelaysAck
  <2>3. ResetIfDelayed(s) = s
    BY <2>2 DEF ResetIfDelayed
  <2>4. LibIs(s, OldStallOf(o), NoAnswer)
    <3>1. CASE o.stage = "none"
      BY <3>1 DEF LibIs, UsbIs, RqtsOf, CbsOf, OldStallOf, NoAnswer, WritesData, DelaysAck
    <3>2. CASE o.stage = "stall"
      <4>1. o.of # 0 /\ OldStallOf(o) = o.of
        BY <3>2 DEF OldStallOf
      <4>2. RqtsOf(0, o) = <<CtlRqt(o, "WAITING")>> /\ CtlRqt(o, "WAITING") = OldStall(o.of)
        <5>1. RqtsOf(0, o) = <<CtlRqt(o, "WAITING")>>
          BY <3>2 DEF RqtsOf
        <5>2. CodeOf(o) = "STALL" /\ (o.stage \in {"feature", "config"}) = FALSE
          BY <3>2 DEF CodeOf
        <5>3. CtlRqt(o, "WAITING") = OldStall(o.of)
          BY <5>2 DEF CtlRqt, OldStall
        <5> QED
          BY <5>1, <5>3
      <4>3. RqtsOf(o.of, NoAnswer) = <<OldStall(o.of)>>
        BY <4>1 DEF RqtsOf, NoAnswer
      <4>4. CbsOf(0, o) = CbsOf(o.of, NoAnswer)
        BY <3>2, <4>1 DEF CbsOf, CallbackOf, NoAnswer
      <4> QED
        BY <3>2, <4>1, <4>2, <4>3, <4>4 DEF LibIs, UsbIs, NoAnswer, WritesData, DelaysAck
    <3> QED
      BY <2>1, <3>1, <3>2
  <2> QED
    BY <1>2, <2>3, <2>4
<1> QED
  BY <1>1, <1>2

Status == [code |-> "status", of |-> 0]
LEMMA StatusIsSent ==
    ASSUME NEW s, NEW j \in Nat, NEW o \in Answers, LibIs(s, j, o)
    PROVE  LET t == SendStatusResponse(s)
           IN  LibIs(t, j, o) /\ t.mcu = Append(s.mcu, Status) /\ t.usb = s.usb
<1> DEFINE t == SendStatusResponse(s)
<1>1. s \in Libs /\ s.mcu \in Seq(CtlMessages) /\ Status \in CtlMessages
  BY LibHas DEF LibIs, CtlMessages, Status
<1>2. Append(s.mcu, Status) \in Seq(CtlMessages)
  <2> HIDE DEF Status
  <2> QED
    BY <1>1
<1>3. t \in Libs /\ t.usb = s.usb /\ t.rqts = s.rqts /\ t.mcu = Append(s.mcu, Status)
  BY <1>1, <1>2 DEF SendStatusResponse, Libs, Status
<1> HIDE DEF t
<1> QED
  BY <1>3 DEF LibIs, t

Prepared(s) == [s EXCEPT !.usb.ep0_stalled = FALSE, !.usb.setup = TRUE]
LEMMA PreparedIs ==
    ASSUME NEW s, NEW j \in Nat, LibIs(s, j, NoAnswer)
    PROVE  /\ LibIs(Prepared(s), j, NoAnswer) /\ Prepared(s).mcu = s.mcu /\ Prepared(s).usb.calls = s.usb.calls
           /\ Prepared(s).usb.setup /\ ~Prepared(s).usb.ep0_stalled
<1> DEFINE u == [s.usb EXCEPT !.ep0_stalled = FALSE, !.setup = TRUE]
           t == WithUsb(s, u)
<1>1. s \in Libs /\ s.usb \in CtlUsbs /\ s.rqts = RqtsOf(j, NoAnswer) /\ UsbIs(s.usb, j, NoAnswer)
  BY LibHas DEF LibIs
<1>2. u \in CtlUsbs /\ u.calls = s.usb.calls /\ u.setup /\ ~u.ep0_stalled
  BY <1>1 DEF CtlUsbs
<1>3. UsbIs(u, j, NoAnswer)
  BY <1>1, <1>2 DEF UsbIs, CtlUsbs, NoAnswer, WritesData
<1>4. Prepared(s) = t
  BY <1>1 DEF Prepared, WithUsb, Libs
<1> HIDE DEF u
<1>5. t \in Libs /\ t.usb = u /\ t.rqts = s.rqts /\ t.mcu = s.mcu
  BY <1>1, <1>2, WithUsbIs
<1> QED
  BY <1>1, <1>2, <1>3, <1>4, <1>5 DEF LibIs

\* ProcessSetupPacket() and the acknowledgement that may follow it.
SetupDone(s, k) ==
    LET t == ProcessSetupPacket(s, k)
    IN  IF t.usb.delay_ack <= 0 /\ ~t.usb.ep0_stalled THEN AckSetupPacket(t, k) ELSE t
LEMMA PacketIsAnswered ==
    ASSUME NEW s, NEW j \in Nat, LibIs(s, j, NoAnswer), s.usb.setup, ~s.usb.ep0_stalled,
           NEW k \in Nat, NEW p \in Packets, fw.packets[k] = p, s.usb.calls[k] = 0
    PROVE  Begun(s, SetupDone(s, k), j, FirstAnswer(p, k))
<1> DEFINE o == FirstAnswer(p, k)
           t == ProcessSetupPacket(s, k)
<1>1. o \in Answers /\ o.of = k /\ p.kind \in {"write", "plain", "stall", "feature", "config"}
  BY FirstFits DEF Packets
<1>2. CASE p.kind = "write"
  <2>1. o.stage = "data" /\ o.left = p.parts
    BY <1>2 DEF FirstAnswer, Stage
  <2> HIDE DEF o
  <2>2. t = WriteDataAsync(s, o.of, o.left)
    BY <1>1, <1>2, <2>1 DEF ProcessSetupPacket
  <2> HIDE DEF t
  <2>3. Begun(s, t, j, o)
    BY <1>1, <2>1, <2>2, WriteBegins
  <2>4. t.usb.delay_ack = 1
    BY <2>1, <2>3 DEF Begun, LibIs, UsbIs, DelaysAck
  <2>5. SetupDone(s, k) = t
    BY <2>4 DEF SetupDone, t
  <2> QED
    BY <2>3, <2>5 DEF o
<1>3. CASE p.kind \in {"stall", "feature", "config"}
  <2>1. o.stage = p.kind
    BY <1>3 DEF FirstAnswer, Stage
  <2> HIDE DEF o
  <2>2. t = NakStallRequest(s, CodeOf(o), o.of, CallbackOf(o))
    <3>1. CASE p.kind = "stall"
      <4>1. CodeOf(o) = "STALL" /\ CallbackOf(o) = "StallCallback"
        BY <2>1, <3>1 DEF CodeOf, CallbackOf
      <4>2. t = NakStallRequest(s, "STALL", k, "StallCallback")
        BY <3>1 DEF ProcessSetupPacket
      <4> QED
        BY <1>1, <4>1, <4>2
    <3>2. CASE p.kind = "feature"
      <4>1. CodeOf(o) = "FEATURE" /\ CallbackOf(o) = "StallCallback"
        BY <2>1, <3>2 DEF CodeOf, CallbackOf
      <4>2. t = NakStallRequest(s, "FEATURE", k, "StallCallback")
        BY <3>2 DEF ProcessSetupPacket
      <4> QED
        BY <1>1, <4>1, <4>2
    <3>3. CASE p.kind = "config"
      <4>1. CodeOf(o) = "FEATURE" /\ CallbackOf(o) = "StallCallbackEX"
        BY <2>1, <3>3 DEF CodeOf, CallbackOf
      <4>2. t = NakStallRequest(s, "FEATURE", k, "StallCallbackEX")
        BY <3>3 DEF ProcessSetupPacket
      <4> QED
        BY <1>1, <4>1, <4>2
    <3> QED
      BY <1>3, <3>1, <3>2, <3>3
  <2> HIDE DEF t
  <2>3. Begun(s, t, j, o) /\ (t.usb.ep0_stalled <=> o.stage = "stall")
    BY <1>1, <1>3, <2>1, <2>2, NakBegins
  <2>4. t.usb.delay_ack = (IF o.stage = "stall" THEN 0 ELSE 1)
    BY <1>3, <2>1, <2>3 DEF Begun, LibIs, UsbIs, DelaysAck
  <2>5. SetupDone(s, k) = t
    BY <2>3, <2>4 DEF SetupDone, t
  <2> QED
    BY <2>3, <2>5 DEF o
<1>4. CASE p.kind = "plain"
  <2>1. o.stage = "ack"
    BY <1>4 DEF FirstAnswer, Stage
  <2> HIDE DEF o
  <2>2. t = s
    BY <1>4 DEF ProcessSetupPacket
  <2>3. s.usb.delay_ack = 0
    BY NothingKnown
  <2> HIDE DEF t
  <2>4. SetupDone(s, k) = AckSetupPacket(s, o.of)
    BY <1>1, <2>2, <2>3 DEF SetupDone, t
  <2> QED
    BY <1>1, <2>1, <2>4, AckBegins DEF o
<1> QED
  BY <1>1, <1>2, <1>3, <1>4

\* The handler of a setup packet, after an answer that it abandons.
SetupHandled(s, k) == SetupDone(SendStatusResponse(Prepared(ResetIfDelayed(s))), k)
LEMMA SetupIsHandled ==
    ASSUME NEW s, NEW o \in Answers, LibIs(s, 0, o), Abandons(o), KPackets \in Nat,
           o.stage # "none" => o.of \in 1..KPackets,
           NEW k \in Nat, NEW p \in Packets, fw.packets[k] = p, s.usb.calls[k] = 0, o.stage # "none" => o.of # k
    PROVE  /\ LibIs(SetupHandled(s, k), OldStallOf(o), FirstAnswer(p, k))
           /\ SetupHandled(s, k).usb.calls = IF WritesData(o) THEN [s.usb.calls EXCEPT ![o.of] = @ + 1]
                                             ELSE s.usb.calls
           /\ SetupHandled(s, k).mcu = IF OldStallOf(o) = 0
                                       THEN Behind(Append(s.mcu, Status), FirstAnswer(p, k))
                                       ELSE Append(s.mcu, Status)
<1> DEFINE j == OldStallOf(o)
           a == ResetIfDelayed(s)
           b == Prepared(a)
           c == SendStatusResponse(b)
           d == SetupDone(c, k)
           n == FirstAnswer(p, k)
<1>1. j \in Nat
  BY DEF OldStallOf, Answers
<1>2. /\ LibIs(a, j, NoAnswer) /\ a.mcu = s.mcu
      /\ a.usb.calls = IF WritesData(o) THEN [s.usb.calls EXCEPT ![o.of] = @ + 1] ELSE s.usb.calls
  BY TransferIsAbandoned
<1>3. a.usb.calls[k] = 0
  <2>1. s.usb.calls \in [1..KPackets -> Nat]
    BY LibHas DEF LibIs, CtlUsbs
  <2>2. WritesData(o) => o.of # k
    BY DEF WritesData
  <2> QED
    BY <1>2, <2>1, <2>2
<1> HIDE DEF j, a
<1>4. LibIs(b, j, NoAnswer) /\ b.mcu = a.mcu /\ b.usb.calls = a.usb.calls /\ b.usb.setup /\ ~b.usb.ep0_stalled
  BY <1>1, <1>2, PreparedIs
<1> HIDE DEF b
<1>5. NoAnswer \in Answers
  BY DEF NoAnswer, Answers
<1>6. LibIs(c, j, NoAnswer) /\ c.mcu = Append(b.mcu, Status) /\ c.usb = b.usb
  BY <1>1, <1>4, <1>5, StatusIsSent
<1> HIDE DEF c, n
<1>7. Begun(c, d, j, n)
  BY <1>1, <1>3, <1>4, <1>6, PacketIsAnswered DEF n
<1>8. d = SetupHandled(s, k)
  BY Zenon DEF SetupHandled, a, b, c
<1> HIDE DEF d
<1>9. n.stage # "none"
  BY FirstFits DEF n
<1>10. LibIs(d, j, n) /\ d.usb.calls = a.usb.calls
       /\ d.mcu = IF j = 0 THEN Behind(Append(s.mcu, Status), n) ELSE Append(s.mcu, Status)
  BY <1>2, <1>4, <1>6, <1>7, <1>9 DEF Begun, Behind
<1> QED
  BY <1>2, <1>8, <1>10 DEF j, n

-----------------------------------------------------------------------------
(* Which phase a transfer is in *)

CtlFws == [packets : Seq(Packets), got : [1..KPackets -> Seq(CtlMessages)], event : BOOLEAN, resets : Nat]
CtlCalls ==
    \A k \in 1..KPackets :
        usb.calls[k] \in {0, 1} /\ (k > Packet => usb.calls[k] = 0 /\ fw.got[k] = <<>>)
CtlPrefixes == \A k \in 1..Packet : IsPrefix(fw.got[k], Expected(k))
CtlHistory == fw \in CtlFws /\ Packet <= KPackets /\ CtlCalls /\ CtlPrefixes

Fitting(j, o) ==
    /\ o.stage # "none" => o.of \in 1..Packet /\ Fits(fw.packets[o.of], o)
    /\ j # 0 => o.stage # "sync"
\* The firmware has got n of the packet's messages beyond those before the answer's.
AtPos(o, n) ==
    o.stage # "none" => o.of = Packet /\ Len(fw.got[Packet]) = Pos(fw.packets[Packet], o) + n

SetupMail(k) == [code |-> "setup", of |-> k]
ResetMail == [code |-> "reset", of |-> 0]
ReplyMail(k) == [code |-> "reply", of |-> k]
StallMessage(j) == [code |-> "STALL", of |-> j]
FirstOf(j, o) == IF j = 0 THEN o.of ELSE j
Rests(j, o) == j = 0 /\ o.stage = "none"

\* The firmware has made no request of its own.
Resting(j, o) == ~fw.event /\ Rests(j, o) /\ mcu = <<>> /\ mail = <<>>
Sending(j, o) ==
    ~fw.event /\ j = 0 /\ o.stage # "none" /\ mcu = <<CtlMessage(o)>> /\ mail = <<>> /\ AtPos(o, 0)
Replying(j, o) ==
    /\ ~fw.event /\ ~Rests(j, o) /\ mcu = <<>> /\ mail = <<ReplyMail(FirstOf(j, o))>>
    /\ AtPos(o, IF j = 0 THEN 1 ELSE 0)

\* It has made one that the library has not seen, perhaps behind a reply.
IsEvent(m, o) ==
    \/ m = ResetMail
    \/ /\ m = SetupMail(Packet) /\ Packet > 0 /\ fw.got[Packet] = <<>> /\ usb.calls[Packet] = 0
       /\ o.stage # "none" => o.of < Packet
Interrupting(m, j, o) ==
    /\ fw.event /\ ~Rests(j, o) /\ IsEvent(m, o) /\ mcu = <<>> /\ mail = <<ReplyMail(FirstOf(j, o)), m>>
    /\ IF j = 0 THEN o.stage \in {"data", "sync", "stall", "ack"} ELSE o.stage \in {"none", "data", "stall"}
EventDue(m, j, o) ==
    /\ fw.event /\ j = 0 /\ IsEvent(m, o) /\ Abandons(o)
    /\ \/ o.stage = "none" /\ mcu = <<>> /\ mail = <<m>>
       \/ o.stage # "none" /\ mcu = <<CtlMessage(o)>> /\ mail = <<m>>
       \/ WritesData(o) /\ mcu = <<>> /\ mail = <<m>>
       \/ o.stage = "stall" /\ mcu = <<>> /\ mail = <<m, ReplyMail(o.of)>>

\* The library has seen it; its status response is under way.
Said(j, o) ==
    /\ fw.event /\ AtPos(o, 0)
    /\ \/ j = 0 /\ mail = <<>> /\ mcu = Behind(<<Status>>, o)
       \/ /\ j = 0 /\ mail = <<>>
          /\ \E d \in CtlMessages : d.code \in {"DATA", "ACK"} /\ mcu = Behind(<<d, Status>>, o)
       \/ j # 0 /\ mail = <<>> /\ mcu = <<StallMessage(j), Status>>
       \/ j # 0 /\ mail = <<ReplyMail(j)>> /\ mcu = <<Status>>

CtlPhase(j, o) ==
    \/ Resting(j, o) \/ Sending(j, o) \/ Replying(j, o)
    \/ \E m : Interrupting(m, j, o) \/ EventDue(m, j, o)
    \/ Said(j, o)
CtlInv ==
    /\ CtlHistory
    /\ \E j \in Nat, o \in Answers : LibIs(UsbNow, j, o) /\ Fitting(j, o) /\ CtlPhase(j, o)

-----------------------------------------------------------------------------
(* The DFC's steps *)

LEMMA PrefixesKept ==
    ASSUME CtlPrefixes, fw' = fw
    PROVE  CtlPrefixes'
<1>1. Packet' = Packet
  BY DEF Packet
<1>2. \A k : Expected(k)' = Expected(k)
  BY Zenon DEF Expected
<1> QED
  BY <1>1, <1>2, Zenon DEF CtlPrefixes

\* A write callback that comes is the first one of its packet.
LEMMA HistoryKept ==
    ASSUME CtlHistory, fw' = fw, usb.calls \in [1..KPackets -> Nat], KPackets \in Nat,
           \/ usb'.calls = usb.calls
           \/ \E k \in 1..Packet : usb.calls[k] = 0 /\ usb'.calls = [usb.calls EXCEPT ![k] = @ + 1]
    PROVE  CtlHistory'
<1>1. fw \in CtlFws /\ Packet <= KPackets /\ CtlCalls /\ CtlPrefixes /\ Packet \in Nat
  BY DEF CtlHistory, CtlFws, Packet
<1>2. Packet' = Packet
  BY DEF Packet
<1>3. CtlFws' = CtlFws
  BY DEF CtlFws
<1>4. CtlCalls'
  <2>1. CASE usb'.calls = usb.calls
    BY <1>1, <1>2, <2>1, Zenon DEF CtlCalls
  <2>2. ASSUME NEW k \in 1..Packet, usb.calls[k] = 0, usb'.calls = [usb.calls EXCEPT ![k] = @ + 1]
        PROVE  CtlCalls'
    <3>1. k \in 1..KPackets
      BY <1>1
    <3>2. usb'.calls[k] = 1 /\ \A i \in 1..KPackets : i # k => usb'.calls[i] = usb.calls[i]
      BY <2>2, <3>1
    <3>3. ASSUME NEW i \in 1..KPackets
          PROVE  usb'.calls[i] \in {0, 1} /\ (i > Packet => usb'.calls[i] = 0 /\ fw.got[i] = <<>>)
      <4>1. usb.calls[i] \in {0, 1} /\ (i > Packet => usb.calls[i] = 0 /\ fw.got[i] = <<>>)
        BY <1>1 DEF CtlCalls
      <4>2. k <= Packet
        OBVIOUS
      <4>3. i = k => ~(i > Packet)
        BY <1>1, <4>2
      <4> QED
        BY <3>2, <4>1, <4>3
    <3> QED
      BY <1>2, <3>3 DEF CtlCalls
  <2> QED
    BY <2>1, <2>2
<1> QED
  BY <1>1, <1>2, <1>3, <1>4, PrefixesKept DEF CtlHistory

LEMMA FittingKept ==
    ASSUME NEW j, NEW o, Fitting(j, o), fw' = fw
    PROVE  Fitting(j, o)'
  BY DEF Fitting, Packet

LEMMA LeavesIs ==
    ASSUME NEW t \in Libs, Leaves(t)
    PROVE  UsbNow' = t
  BY DEF Libs, Leaves, UsbNow

LEMMA NowIs ==
    ASSUME NEW j, NEW o, LibIs(UsbNow, j, o)
    PROVE  /\ UsbNow.usb = usb /\ UsbNow.mcu = mcu /\ UsbNow.rqts = ctlRqts
           /\ usb.calls \in [1..KPackets -> Nat] /\ (WritesData(o) => usb.calls[o.of] = 0)
  BY LibHas DEF LibIs, UsbNow, UsbIs, CtlUsbs

\* Where a step of the DFC leaves the library.
LibLeft(j, o) == LibIs(UsbNow, j, o)' /\ Fitting(j, o)' /\ CtlHistory'
LEMMA ReplyHandled ==
    ASSUME NEW j \in Nat, NEW o \in Answers, LibIs(UsbNow, j, o), Fitting(j, o), ~Rests(j, o), CtlHistory,
           KPackets \in Nat, j = 0 => mcu = <<>>, ResponseCame, fw' = fw
    PROVE  /\ NextOf(j, o) \in Answers /\ LibLeft(0, NextOf(j, o)) /\ mcu' = Behind(mcu, NextOf(j, o))
           /\ usb'.calls = IF j = 0 /\ o.stage = "sync" THEN [usb.calls EXCEPT ![o.of] = @ + 1] ELSE usb.calls
<1> DEFINE t == Answered(UsbNow)
           n == NextOf(j, o)
<1>1. /\ UsbNow.usb = usb /\ UsbNow.mcu = mcu
      /\ usb.calls \in [1..KPackets -> Nat] /\ (WritesData(o) => usb.calls[o.of] = 0)
  BY NowIs
<1>2. Packet \in Nat /\ Packet <= KPackets /\ fw.packets \in Seq(Packets)
  BY DEF CtlHistory, CtlFws, Packet
<1>3. o.stage # "none" => o.of \in 1..KPackets /\ o.of \in 1..Packet
  BY <1>2 DEF Fitting
<1>4. Leaves(t)
  BY ResponseIsAnswer DEF Rests
<1> HIDE DEF t, n
<1>5. /\ LibIs(t, 0, n) /\ t.mcu = Behind(mcu, n)
      /\ t.usb.calls = IF j = 0 /\ o.stage = "sync" THEN [usb.calls EXCEPT ![o.of] = @ + 1] ELSE usb.calls
  <2>1. (j # 0 \/ o.stage # "none") /\ (j = 0 => UsbNow.mcu = <<>>)
    BY <1>1 DEF Rests
  <2>2. /\ LibIs(Answered(UsbNow), 0, NextOf(j, o)) /\ Answered(UsbNow).mcu = Behind(UsbNow.mcu, NextOf(j, o))
        /\ Answered(UsbNow).usb.calls = IF j = 0 /\ o.stage = "sync" THEN [UsbNow.usb.calls EXCEPT ![o.of] = @ + 1]
                                        ELSE UsbNow.usb.calls
    BY <1>3, <2>1, AnswerGoesOn
  <2> QED
    BY <1>1, <2>2, Zenon DEF t, n
<1>6. UsbNow' = t
  BY <1>4, <1>5, LeavesIs DEF LibIs
<1>7. mcu' = Behind(mcu, n) /\ usb'.calls = t.usb.calls
  BY <1>4, <1>5 DEF Leaves
<1>8. n \in Answers /\ (n.stage # "none" => n.of = o.of)
  <2>1. CASE o.stage = "none"
    BY <2>1 DEF NextOf, Rests, n
  <2>2. CASE o.stage # "none"
    BY <2>2, NextFits DEF n
  <2> QED
    BY <2>1, <2>2
<1>9. Fitting(0, n)
  <2>1. ASSUME n.stage # "none"
        PROVE  n.of \in 1..Packet /\ Fits(fw.packets[n.of], n)
    <3>1. CASE o.stage = "none"
      BY <2>1, <3>1 DEF NextOf, Rests, n
    <3>2. CASE o.stage # "none"
      <4>1. o.of \in 1..Packet /\ Fits(fw.packets[o.of], o) /\ fw.packets[o.of] \in Packets
        BY <1>2, <3>2 DEF Fitting, Packet
      <4> QED
        BY <1>8, <2>1, <3>2, <4>1, NextFits DEF n
    <3> QED
      BY <3>1, <3>2
  <2> QED
    BY <2>1 DEF Fitting
<1>10. CtlHistory'
  <2>1. \/ usb'.calls = usb.calls
        \/ \E k \in 1..Packet : usb.calls[k] = 0 /\ usb'.calls = [usb.calls EXCEPT ![k] = @ + 1]
    BY <1>1, <1>3, <1>5, <1>7 DEF WritesData
  <2> QED
    BY <1>1, <2>1, HistoryKept
<1>11. Fitting(0, n)'
  BY <1>9, FittingKept
<1>12. LibIs(UsbNow', 0, n)
  BY <1>5, <1>6
<1> QED
  BY <1>5, <1>7, <1>8, <1>10, <1>11, <1>12 DEF LibLeft, n, LibIs

LEMMA DfcReplies ==
    ASSUME NEW x, NEW rest, UsbDfc, Head(mail) = ReplyMail(x), Tail(mail) = rest
    PROVE  ResponseCame /\ mail' = rest /\ fw' = fw
<1>1. Head(mail).code = "reply"
  BY DEF ReplyMail
<1> QED
  BY <1>1 DEF UsbDfc

LEMMA AnswerHas ==
    ASSUME NEW j \in Nat, NEW o \in Answers, o.stage # "none", Fitting(j, o), CtlHistory, KPackets \in Nat
    PROVE  /\ o.of \in 1..Packet /\ o.of \in 1..KPackets /\ fw.packets[o.of] \in Packets /\ Packet \in Nat
           /\ Fits(fw.packets[o.of], o) /\ Pos(fw.packets[o.of], o) \in Nat
           /\ fw.got[o.of] \in Seq(CtlMessages) /\ Expected(o.of)[Pos(fw.packets[o.of], o) + 1] = CtlMessage(o)
           /\ Pos(fw.packets[o.of], o) + 1 <= Len(Expected(o.of)) /\ CtlMessage(o) \in CtlMessages
<1> DEFINE p == fw.packets[o.of]
<1>1. Packet \in Nat /\ Packet <= KPackets /\ fw \in CtlFws /\ fw.packets \in Seq(Packets) /\ Len(fw.packets) = Packet
  BY DEF CtlHistory, CtlFws, Packet
<1>2. o.of \in 1..Packet /\ Fits(p, o)
  BY DEF Fitting
<1>3. p \in Packets /\ o.of \in 1..KPackets
  BY <1>1, <1>2
<1>4. fw.got[o.of] \in Seq(CtlMessages)
  BY <1>1, <1>3 DEF CtlFws
<1> HIDE DEF p
<1>5. /\ Pos(p, o) \in Nat /\ Pos(p, o) + 1 <= Len(Expected(o.of)) /\ CtlMessage(o) \in CtlMessages
      /\ Expected(o.of)[Pos(p, o) + 1] = CtlMessage(o)
  BY <1>2, <1>3, MessageIsExpected DEF p
<1> QED
  BY <1>1, <1>2, <1>3, <1>4, <1>5 DEF p

LEMMA ReplyingKeeps ==
    ASSUME NEW j \in Nat, NEW o \in Answers, LibIs(UsbNow, j, o), Fitting(j, o), CtlHistory, KPackets \in Nat,
           Replying(j, o), UsbDfc
    PROVE  \E n \in Answers : LibLeft(0, n) /\ CtlPhase(0, n)'
<1> DEFINE n == NextOf(j, o)
<1>1. /\ ~fw.event /\ ~Rests(j, o) /\ mcu = <<>> /\ mail = <<ReplyMail(FirstOf(j, o))>>
      /\ AtPos(o, IF j = 0 THEN 1 ELSE 0)
  BY DEF Replying
<1>2. Head(mail) = ReplyMail(FirstOf(j, o)) /\ Tail(mail) = <<>>
  BY <1>1, Pairs
<1>3. ResponseCame /\ mail' = <<>> /\ fw' = fw
  BY <1>2, DfcReplies
<1> HIDE DEF n
<1>4. n \in Answers /\ LibLeft(0, n) /\ mcu' = Behind(mcu, n)
  BY <1>1, <1>3, ReplyHandled DEF n
<1>5. CASE n.stage = "none"
  <2>1. mcu' = <<>>
    BY <1>1, <1>4, <1>5 DEF Behind
  <2>2. Resting(0, n)'
    BY <1>1, <1>3, <1>5, <2>1 DEF Resting, Rests
  <2> QED
    BY <1>4, <2>2 DEF CtlPhase
<1>6. CASE n.stage # "none"
  <2>1. o.stage # "none"
    BY <1>1, <1>6 DEF NextOf, Rests, n
  <2>2. mcu' = <<CtlMessage(n)>>
    BY <1>1, <1>4, <1>6, Pairs DEF Behind
  <2> DEFINE p == fw.packets[Packet]
  <2>3. o.of = Packet /\ Len(fw.got[Packet]) = Pos(p, o) + (IF j = 0 THEN 1 ELSE 0)
    BY <1>1, <2>1 DEF AtPos
  <2>4. p \in Packets /\ Fits(p, o) /\ Pos(p, o) \in Nat
    BY <2>1, <2>3, AnswerHas
  <2> HIDE DEF p
  <2>5. n.of = o.of /\ Pos(p, n) = (IF j = 0 THEN Pos(p, o) + 1 ELSE Pos(p, o))
    BY <1>6, <2>1, <2>4, NextFits DEF n
  <2>6. Len(fw.got[Packet]) = Pos(p, n) + 0
    BY <2>3, <2>4, <2>5
  <2>7. AtPos(n, 0)'
    BY <1>3, <2>3, <2>5, <2>6 DEF AtPos, Packet, p
  <2>8. Sending(0, n)'
    BY <1>1, <1>3, <1>6, <2>2, <2>7 DEF Sending
  <2> QED
    BY <1>4, <2>8 DEF CtlPhase
<1> QED
  BY <1>5, <1>6

LEMMA EventKept ==
    ASSUME NEW m, NEW o, NEW n, IsEvent(m, o), fw' = fw,
           n.stage # "none" => o.stage # "none" /\ n.of = o.of,
           usb'.calls = usb.calls \/ (o.stage # "none" /\ usb'.calls = [usb.calls EXCEPT ![o.of] = @ + 1]),
           Packet \in Nat, usb.calls \in [1..KPackets -> Nat], Packet <= KPackets, KPackets \in Nat,
           o.stage # "none" => o.of \in 1..KPackets
    PROVE  IsEvent(m, n)'
<1>1. Packet' = Packet
  BY DEF Packet
<1>2. CASE m = ResetMail
  BY <1>2 DEF IsEvent
<1>3. CASE m # ResetMail
  <2>1. /\ m = SetupMail(Packet) /\ Packet > 0 /\ fw.got[Packet] = <<>> /\ usb.calls[Packet] = 0
        /\ o.stage # "none" => o.of < Packet
    BY <1>3 DEF IsEvent
  <2>2. Packet \in 1..KPackets
    BY <2>1
  <2>3. usb'.calls[Packet] = 0
    <3>1. CASE usb'.calls = usb.calls
      BY <2>1, <3>1
    <3>2. CASE o.stage # "none" /\ usb'.calls = [usb.calls EXCEPT ![o.of] = @ + 1]
      <4>1. o.of # Packet
        BY <2>1, <3>2
      <4> QED
        BY <2>1, <2>2, <3>2, <4>1
    <3> QED
      BY <3>1, <3>2
  <2>4. n.stage # "none" => n.of < Packet
    BY <2>1
  <2> QED
    BY <1>1, <2>1, <2>3, <2>4 DEF IsEvent
<1> QED
  BY <1>2, <1>3

LEMMA InterruptingKeeps ==
    ASSUME NEW m, NEW j \in Nat, NEW o \in Answers, LibIs(UsbNow, j, o), Fitting(j, o), CtlHistory, KPackets \in Nat,
           Interrupting(m, j, o), UsbDfc
    PROVE  \E n \in Answers : LibLeft(0, n) /\ CtlPhase(0, n)'
<1> DEFINE n == NextOf(j, o)
           r == ReplyMail(FirstOf(j, o))
<1>1. /\ fw.event /\ ~Rests(j, o) /\ IsEvent(m, o) /\ mcu = <<>> /\ mail = <<r, m>>
      /\ IF j = 0 THEN o.stage \in {"data", "sync", "stall", "ack"} ELSE o.stage \in {"none", "data", "stall"}
  BY DEF Interrupting
<1> HIDE DEF r
<1>2. Head(mail) = r /\ Tail(mail) = <<m>>
  BY <1>1, Pairs
<1>3. ResponseCame /\ mail' = <<m>> /\ fw' = fw
  BY <1>2, DfcReplies DEF r
<1> HIDE DEF n
<1>4. /\ n \in Answers /\ LibLeft(0, n) /\ mcu' = Behind(mcu, n)
      /\ usb'.calls = IF j = 0 /\ o.stage = "sync" THEN [usb.calls EXCEPT ![o.of] = @ + 1] ELSE usb.calls
  BY <1>1, <1>3, ReplyHandled DEF n
<1>5. Abandons(n)
  <2>1. CASE j # 0
    BY <1>1, <2>1 DEF NextOf, Abandons, n
  <2>2. CASE j = 0
    <3>1. o.stage \in {"data", "sync", "stall", "ack"}
      BY <1>1, <2>2
    <3>2. n.stage \in {"data", "sync", "none"}
      BY <2>2, <3>1 DEF NextOf, Stage, NoAnswer, n
    <3> QED
      BY <3>2 DEF Abandons
  <2> QED
    BY <2>1, <2>2
<1>6. IsEvent(m, n)'
  <2>1. n.stage # "none" => o.stage # "none" /\ n.of = o.of
    <3>1. CASE o.stage = "none"
      BY <1>1, <3>1 DEF NextOf, Rests, n
    <3>2. CASE o.stage # "none"
      BY <3>2, NextFits DEF n
    <3> QED
      BY <3>1, <3>2
  <2>2. Packet \in Nat /\ Packet <= KPackets /\ usb.calls \in [1..KPackets -> Nat]
    BY NowIs DEF CtlHistory, CtlFws, Packet
  <2>3. o.stage # "none" => o.of \in 1..KPackets
    BY AnswerHas
  <2>4. usb'.calls = usb.calls \/ (o.stage # "none" /\ usb'.calls = [usb.calls EXCEPT ![o.of] = @ + 1])
    BY <1>4
  <2> QED
    BY <1>1, <1>3, <2>1, <2>2, <2>3, <2>4, EventKept
<1>7. CASE n.stage = "none"
  <2>1. mcu' = <<>>
    BY <1>1, <1>4, <1>7 DEF Behind
  <2>2. EventDue(m, 0, n)'
    BY <1>1, <1>3, <1>5, <1>6, <1>7, <2>1 DEF EventDue
  <2> QED
    BY <1>4, <2>2 DEF CtlPhase
<1>8. CASE n.stage # "none"
  <2>1. mcu' = <<CtlMessage(n)>>
    BY <1>1, <1>4, <1>8, Pairs DEF Behind
  <2>2. EventDue(m, 0, n)'
    BY <1>1, <1>3, <1>5, <1>6, <1>8, <2>1 DEF EventDue
  <2> QED
    BY <1>4, <2>2 DEF CtlPhase
<1> QED
  BY <1>7, <1>8

\* The reply to an old stall, after the status response has been sent.
LEMMA SaidKeeps ==
    ASSUME NEW j \in Nat, NEW o \in Answers, LibIs(UsbNow, j, o), Fitting(j, o), CtlHistory, KPackets \in Nat,
           Said(j, o), UsbDfc
    PROVE  \E n \in Answers : LibLeft(0, n) /\ CtlPhase(0, n)'
<1>1. mail # <<>>
  BY DEF UsbDfc
<1>2. fw.event /\ AtPos(o, 0) /\ j # 0 /\ mail = <<ReplyMail(j)>> /\ mcu = <<Status>>
  BY <1>1 DEF Said
<1>3. Head(mail) = ReplyMail(j) /\ Tail(mail) = <<>>
  BY <1>2, Pairs
<1>4. ResponseCame /\ mail' = <<>> /\ fw' = fw
  BY <1>3, DfcReplies
<1>5. NextOf(j, o) = o
  BY <1>2 DEF NextOf
<1>6. LibLeft(0, o) /\ mcu' = Behind(mcu, o)
  BY <1>2, <1>4, <1>5, ReplyHandled DEF Rests
<1>7. AtPos(o, 0)'
  BY <1>2, <1>4 DEF AtPos, Packet
<1>8. Said(0, o)'
  <2>1. mcu' = Behind(<<Status>>, o)'
    BY <1>2, <1>6
  <2> QED
    BY <1>2, <1>4, <1>7, <2>1 DEF Said
<1> QED
  BY <1>6, <1>8 DEF CtlPhase

\* A request of the firmware's is handled: what is under way then.
LEMMA EventIsSaid ==
    ASSUME NEW m, NEW o \in Answers, NEW n \in Answers, EventDue(m, 0, o), CtlMessage(o) \in CtlMessages,
           mail' = Tail(mail), fw' = fw, AtPos(n, 0),
           mcu' = IF OldStallOf(o) = 0 THEN Behind(Append(mcu, Status), n) ELSE Append(mcu, Status),
           o.stage = "stall" => o.of # 0
    PROVE  Said(OldStallOf(o), n)'
<1> DEFINE j == OldStallOf(o)
           s == Status
           c == CtlMessage(o)
           r == ReplyMail(o.of)
<1>1. fw'.event /\ AtPos(n, 0)'
  BY DEF EventDue, AtPos, Packet
<1>2. mcu' = IF j = 0 THEN Behind(Append(mcu, s), n) ELSE Append(mcu, s)
  OBVIOUS
<1>3. Abandons(o) /\ (o.stage = "stall" => j = o.of /\ j # 0) /\ (o.stage # "stall" => j = 0)
  BY DEF EventDue, OldStallOf
<1>4. \/ o.stage = "none" /\ mcu = <<>> /\ mail = <<m>>
      \/ o.stage # "none" /\ mcu = <<c>> /\ mail = <<m>>
      \/ WritesData(o) /\ mcu = <<>> /\ mail = <<m>>
      \/ o.stage = "stall" /\ mcu = <<>> /\ mail = <<m, r>>
  BY DEF EventDue
<1>5. WritesData(o) => o.stage # "stall" /\ c.code \in {"DATA", "ACK"}
  BY DEF WritesData, CtlMessage, CodeOf
<1>6. o.stage = "stall" => c = StallMessage(j) /\ r = ReplyMail(j)
  BY <1>3 DEF CtlMessage, CodeOf, StallMessage
<1> HIDE DEF j, s, c, r
<1>7. CASE mcu = <<>> /\ mail = <<m>> /\ o.stage # "stall"
  <2>1. mail' = <<>> /\ mcu' = Behind(<<s>>, n) /\ j = 0
    BY <1>2, <1>3, <1>7, Pairs
  <2>2. mcu' = Behind(<<Status>>, n)'
    BY <2>1 DEF s
  <2> QED
    BY <1>1, <2>1, <2>2 DEF Said, j
<1>8. CASE mcu = <<c>> /\ mail = <<m>> /\ WritesData(o)
  <2>1. mail' = <<>> /\ mcu' = Behind(<<c, s>>, n) /\ j = 0
    <3>1. Append(<<c>>, s) = <<c, s>> /\ Tail(<<m>>) = <<>>
      <4>1. Append(<<c>>, s) = <<c, s>>
        BY SecondIsAppended, Zenon
      <4>2. Tail(<<m>>) = <<>>
        BY Pairs
      <4> QED
        BY <4>1, <4>2
    <3> QED
      <4>1. Append(mcu, s) = <<c, s>>
        BY <1>8, <3>1
      <4>2. j = 0
        BY <1>3, <1>5, <1>8
      <4> QED
        BY <1>2, <1>8, <3>1, <4>1, <4>2
  <2>2. mcu' = Behind(<<c, Status>>, n)'
    BY <2>1 DEF s
  <2>3. c \in CtlMessages' /\ c.code \in {"DATA", "ACK"}
    BY <1>5, <1>8 DEF c, CtlMessages
  <2> QED
    BY <1>1, <2>1, <2>2, <2>3 DEF Said, j
<1>9. CASE mcu = <<c>> /\ mail = <<m>> /\ o.stage = "stall"
  <2>1. Append(<<c>>, s) = <<c, s>> /\ Tail(<<m>>) = <<>>
    <3>1. Append(<<c>>, s) = <<c, s>>
      BY SecondIsAppended, Zenon
    <3>2. Tail(<<m>>) = <<>>
      BY Pairs
    <3> QED
      BY <3>1, <3>2
  <2>2. mail' = <<>> /\ mcu' = <<c, s>> /\ j # 0
    <3>1. Append(mcu, s) = <<c, s>>
      BY <1>9, <2>1
    <3>2. j # 0
      BY <1>3, <1>9
    <3> QED
      BY <1>2, <1>9, <2>1, <3>1, <3>2
  <2>3. mcu' = <<StallMessage(j), Status>>
    BY <1>6, <1>9, <2>2 DEF s
  <2> QED
    BY <1>1, <2>2, <2>3 DEF Said, j
<1>10. CASE o.stage = "stall" /\ mcu = <<>> /\ mail = <<m, r>>
  <2>1. Append(<<>>, s) = <<s>> /\ Tail(<<m, r>>) = <<r>>
    BY Pairs
  <2>2. mail' = <<r>> /\ mcu' = <<s>> /\ j # 0
    BY <1>2, <1>3, <1>10, <2>1
  <2>3. mcu' = <<Status>> /\ mail' = <<ReplyMail(j)>>
    BY <1>6, <1>10, <2>2 DEF s
  <2> QED
    BY <1>1, <2>2, <2>3 DEF Said, j
<1>11. o.stage # "none" /\ o.stage # "stall" => WritesData(o)
  BY <1>3 DEF Abandons, WritesData
<1> QED
  BY <1>4, <1>5, <1>7, <1>8, <1>9, <1>10, <1>11

LEMMA EventKeeps ==
    ASSUME NEW m, NEW o \in Answers, LibIs(UsbNow, 0, o), Fitting(0, o), CtlHistory, KPackets \in Nat,
           EventDue(m, 0, o), UsbDfc
    PROVE  \E j \in Nat, n \in Answers : LibLeft(j, n) /\ CtlPhase(j, n)'
<1> DEFINE j == OldStallOf(o)
<1>1. IsEvent(m, o) /\ Abandons(o) /\ Head(mail) = m /\ fw.event
  <2>1. mail = <<m>> \/ mail = <<m, ReplyMail(o.of)>>
    BY DEF EventDue
  <2>2. Head(mail) = m
    BY <2>1, Pairs
  <2> QED
    BY <2>2 DEF EventDue
<1>2. mail' = Tail(mail) /\ fw' = fw
  BY DEF UsbDfc
<1>3. /\ UsbNow.usb = usb /\ UsbNow.mcu = mcu
      /\ usb.calls \in [1..KPackets -> Nat] /\ (WritesData(o) => usb.calls[o.of] = 0)
  BY NowIs
<1>4. Packet \in Nat /\ Packet <= KPackets /\ fw.packets \in Seq(Packets) /\ Len(fw.packets) = Packet
  BY DEF CtlHistory, CtlFws, Packet
<1>5. o.stage # "none" => o.of \in 1..KPackets /\ o.of \in 1..Packet
  BY <1>4 DEF Fitting
<1>6. CtlMessage(o) \in CtlMessages /\ j \in Nat /\ (o.stage = "stall" => o.of # 0)
  BY <1>5 DEF CtlMessage, CodeOf, CtlMessages, OldStallOf, Answers
<1>7. ASSUME NEW t, NEW n \in Answers, LibIs(t, j, n), Leaves(t), n.stage # "sync", AtPos(n, 0),
             n.stage # "none" => n.of \in 1..Packet /\ Fits(fw.packets[n.of], n),
             t.mcu = IF j = 0 THEN Behind(Append(mcu, Status), n) ELSE Append(mcu, Status),
             t.usb.calls = IF WritesData(o) THEN [usb.calls EXCEPT ![o.of] = @ + 1] ELSE usb.calls
      PROVE  LibLeft(j, n) /\ CtlPhase(j, n)'
  <2>1. UsbNow' = t /\ usb' = t.usb /\ mcu' = t.mcu
    BY <1>7, LeavesIs DEF LibIs, Leaves
  <2>2. LibIs(UsbNow', j, n)
    BY <1>7, <2>1
  <2>3. CtlHistory'
    <3>1. \/ usb'.calls = usb.calls
          \/ \E k \in 1..Packet : usb.calls[k] = 0 /\ usb'.calls = [usb.calls EXCEPT ![k] = @ + 1]
      BY <1>3, <1>5, <1>7, <2>1 DEF WritesData
    <3> QED
      BY <1>2, <1>3, <3>1, HistoryKept
  <2>4. Fitting(j, n)'
    <3>1. Fitting(j, n)
      BY <1>7 DEF Fitting
    <3> QED
      BY <1>2, <3>1, FittingKept
  <2>5. Said(j, n)'
    BY <1>2, <1>6, <1>7, <2>1, EventIsSaid
  <2>6. LibIs(UsbNow, j, n)'
    BY <2>2 DEF LibIs
  <2> QED
    BY <2>3, <2>4, <2>5, <2>6 DEF LibLeft, CtlPhase
<1>8. CASE m = ResetMail
  <2> DEFINE a == ResetIfDelayed(UsbNow)
             t == SendStatusResponse(a)
  <2>1. Leaves(t)
    BY <1>1, <1>8 DEF UsbDfc, UsbReset, ResetMail
  <2>2. /\ LibIs(a, j, NoAnswer) /\ a.mcu = mcu
        /\ a.usb.calls = IF WritesData(o) THEN [usb.calls EXCEPT ![o.of] = @ + 1] ELSE usb.calls
    <3>1. /\ LibIs(a, j, NoAnswer) /\ a.mcu = UsbNow.mcu
          /\ a.usb.calls = IF WritesData(o) THEN [UsbNow.usb.calls EXCEPT ![o.of] = @ + 1] ELSE UsbNow.usb.calls
      BY <1>1, <1>5, TransferIsAbandoned
    <3> QED
      BY <1>3, <3>1, Zenon
  <2> HIDE DEF a, j
  <2>3. NoAnswer \in Answers /\ NoAnswer.stage = "none"
    BY DEF NoAnswer, Answers
  <2>4. LibIs(t, j, NoAnswer) /\ t.mcu = Append(a.mcu, Status) /\ t.usb = a.usb
    BY <1>6, <2>2, <2>3, StatusIsSent
  <2> HIDE DEF t
  <2>5. Behind(Append(mcu, Status), NoAnswer) = Append(mcu, Status) /\ AtPos(NoAnswer, 0)
    BY <2>3 DEF Behind, AtPos
  <2>6. LibLeft(j, NoAnswer) /\ CtlPhase(j, NoAnswer)'
    BY <1>7, <2>1, <2>2, <2>3, <2>4, <2>5
  <2> QED
    BY <1>6, <2>3, <2>6
<1>9. CASE m # ResetMail
  <2>a. PICK k : k = Packet
    OBVIOUS
  <2>b. PICK p : p = fw.packets[k]
    OBVIOUS
  <2> DEFINE n == FirstAnswer(p, k)
             t == SetupHandled(UsbNow, k)
  <2>1. /\ m = SetupMail(k) /\ k > 0 /\ fw.got[k] = <<>> /\ usb.calls[k] = 0
        /\ o.stage # "none" => o.of < k
    BY <1>1, <1>9, <2>a DEF IsEvent
  <2>2. k \in Nat /\ k \in 1..Packet /\ p \in Packets
    <3>1. k \in Nat /\ k \in 1..Packet
      BY <1>4, <2>1, <2>a
    <3>2. fw.packets[k] \in Packets
      BY <1>4, <3>1
    <3> QED
      BY <2>b, <3>1, <3>2
  <2>3. /\ n \in Answers /\ n.stage # "none" /\ n.stage # "sync"
        /\ n.of = k /\ Fits(p, n) /\ Pos(p, n) = 0
    BY <2>2, FirstFits
  <2>4. Leaves(t)
    <3>1. SetupPacket(k)
      BY <1>1, <2>1 DEF UsbDfc, SetupMail
    <3> QED
      BY <3>1 DEF SetupPacket, SetupHandled, SetupDone, Prepared
  <2>5. o.stage # "none" => o.of # k
    BY <1>5, <1>4, <2>1, <2>2
  <2> HIDE DEF t, j, n
  <2>6. /\ LibIs(t, j, n)
        /\ t.usb.calls = IF WritesData(o) THEN [usb.calls EXCEPT ![o.of] = @ + 1] ELSE usb.calls
        /\ t.mcu = IF j = 0 THEN Behind(Append(mcu, Status), n) ELSE Append(mcu, Status)
    <3>1. UsbNow.usb.calls[k] = 0 /\ fw.packets[k] = p
      BY <1>3, <2>1, <2>b
    <3>2. /\ LibIs(SetupHandled(UsbNow, k), OldStallOf(o), FirstAnswer(p, k))
          /\ SetupHandled(UsbNow, k).usb.calls = IF WritesData(o) THEN [UsbNow.usb.calls EXCEPT ![o.of] = @ + 1]
                                                 ELSE UsbNow.usb.calls
          /\ SetupHandled(UsbNow, k).mcu = IF OldStallOf(o) = 0
                                           THEN Behind(Append(UsbNow.mcu, Status), FirstAnswer(p, k))
                                           ELSE Append(UsbNow.mcu, Status)
      BY <1>1, <1>5, <2>2, <2>5, <3>1, SetupIsHandled
    <3> QED
      BY <1>3, <3>2, Zenon DEF t, j, n
  <2>7. AtPos(n, 0)
    <3>1. Len(fw.got[k]) = 0
      BY <2>1
    <3>2. Len(fw.got[Packet]) = Pos(fw.packets[Packet], n) + 0
      BY <2>3, <2>a, <2>b, <3>1
    <3> QED
      BY <2>3, <2>a, <3>2 DEF AtPos
  <2>8. n.of \in 1..Packet /\ Fits(fw.packets[n.of], n)
    BY <2>2, <2>3, <2>b
  <2>9. LibLeft(j, n) /\ CtlPhase(j, n)'
    BY <1>7, <2>3, <2>4, <2>6, <2>7, <2>8
  <2> QED
    BY <1>6, <2>3, <2>9 DEF j
<1> QED
  BY <1>8, <1>9

LEMMA DfcKeeps ==
    ASSUME CtlInv, KPackets \in Nat, UsbDfc
    PROVE  CtlInv'
<1>1. PICK j \in Nat, o \in Answers : LibIs(UsbNow, j, o) /\ Fitting(j, o) /\ CtlPhase(j, o)
  BY DEF CtlInv
<1>2. CtlHistory /\ mail # <<>>
  BY DEF CtlInv, UsbDfc
<1>3. 0 \in Nat
  OBVIOUS
<1>4. \E i \in Nat, n \in Answers : LibLeft(i, n) /\ CtlPhase(i, n)'
  <2>1. CASE Resting(j, o) \/ Sending(j, o)
    BY <1>2, <2>1 DEF Resting, Sending
  <2>2. CASE Replying(j, o)
    BY <1>1, <1>2, <1>3, <2>2, ReplyingKeeps
  <2>3. ASSUME NEW m, Interrupting(m, j, o)
        PROVE  \E i \in Nat, n \in Answers : LibLeft(i, n) /\ CtlPhase(i, n)'
    BY <1>1, <1>2, <1>3, <2>3, InterruptingKeeps
  <2>4. ASSUME NEW m, EventDue(m, j, o)
        PROVE  \E i \in Nat, n \in Answers : LibLeft(i, n) /\ CtlPhase(i, n)'
    <3>1. j = 0
      BY <2>4 DEF EventDue
    <3> QED
      BY <1>1, <1>2, <2>4, <3>1, EventKeeps
  <2>5. CASE Said(j, o)
    BY <1>1, <1>2, <1>3, <2>5, SaidKeeps
  <2> QED
    BY <1>1, <2>1, <2>2, <2>3, <2>4, <2>5 DEF CtlPhase
<1> QED
  BY <1>4 DEF LibLeft, CtlInv, Answers

-----------------------------------------------------------------------------
(* The firmware's steps *)

\* The messages are typed, so the library still is when they have been taken.
LEMMA LibKept ==
    ASSUME NEW j, NEW o, LibIs(UsbNow, j, o), usb' = usb, ctlRqts' = ctlRqts, mcu' \in Seq(CtlMessages)
    PROVE  LibIs(UsbNow, j, o)'
<1>1. UsbNow' = [UsbNow EXCEPT !.mcu = mcu']
  BY DEF UsbNow
<1>2. UsbNow' \in Libs /\ UsbNow'.usb = UsbNow.usb /\ UsbNow'.rqts = UsbNow.rqts
  BY <1>1 DEF LibIs, Libs
<1>3. LibIs(UsbNow', j, o)
  BY <1>2 DEF LibIs
<1> QED
  BY <1>3 DEF LibIs

\* What is said of the packets depends on these only.
LEMMA PacketsKept ==
    ASSUME NEW j, NEW o, NEW n, CtlHistory, Fitting(j, o), fw' \in CtlFws, fw'.packets = fw.packets, fw'.got = fw.got,
           usb' = usb
    PROVE  Packet' = Packet /\ CtlHistory' /\ Fitting(j, o)' /\ (AtPos(o, n) => AtPos(o, n)')
<1>1. Packet' = Packet
  BY DEF Packet
<1>2. \A k : Expected(k)' = Expected(k)
  BY Zenon DEF Expected
<1>3. CtlPrefixes'
  BY <1>1, <1>2, Zenon DEF CtlHistory, CtlPrefixes
<1>4. CtlCalls'
  BY <1>1, Zenon DEF CtlHistory, CtlCalls
<1>5. fw' \in CtlFws'
  BY DEF CtlFws
<1>6. Fitting(j, o)'
  BY <1>1 DEF Fitting
<1>7. AtPos(o, n) => AtPos(o, n)'
  BY <1>1 DEF AtPos
<1> QED
  BY <1>1, <1>3, <1>4, <1>5, <1>6, <1>7 DEF CtlHistory

LEMMA PrefixGrows ==
    ASSUME NEW g \in Seq(CtlMessages), NEW e \in Seq(CtlMessages), NEW m \in CtlMessages,
           IsPrefix(g, e), Len(g) + 1 <= Len(e), e[Len(g) + 1] = m
    PROVE  IsPrefix(Append(g, m), e)
<1> DEFINE n == Len(g)
           a == Append(g, m)
<1>1. n \in Nat /\ Len(e) \in Nat /\ n + 1 \in 1..Len(e)
  BY LenProperties
<1>2. a \in Seq(CtlMessages) /\ Len(a) = n + 1 /\ (\A i \in 1..n : a[i] = g[i]) /\ a[n + 1] = m
  BY AppendProperties
<1>3. \A i \in 1..n : g[i] = e[i]
  <2>1. SubSeq(g, 1, n) = SubSeq(e, 1, n)
    BY DEF IsPrefix
  <2> HIDE DEF n
  <2>2. ASSUME NEW i \in 1..n
        PROVE  SubSeq(g, 1, n)[i] = g[i] /\ SubSeq(e, 1, n)[i] = e[i]
    BY <1>1, <2>2, SubSeqProperties DEF n
  <2> QED
    BY <2>1, <2>2
<1> HIDE DEF n, a
<1>4. \A i \in 1..(n + 1) : a[i] = e[i]
  <2>1. \A i \in 1..(n + 1) : i \in 1..n \/ i = n + 1
    BY <1>1
  <2> QED
    BY <1>2, <1>3, <2>1 DEF n
<1>5. SubSeq(a, 1, n + 1) = SubSeq(e, 1, n + 1)
  <2> DEFINE x == SubSeq(a, 1, n + 1)
             y == SubSeq(e, 1, n + 1)
  <2>1. /\ x \in Seq(CtlMessages) /\ Len(x) = n + 1 /\ \A i \in 1..(n + 1) : x[i] = a[i]
        /\ y \in Seq(CtlMessages) /\ Len(y) = n + 1 /\ \A i \in 1..(n + 1) : y[i] = e[i]
    BY <1>1, <1>2, SubSeqProperties
  <2> HIDE DEF x, y
  <2>2. \A i \in 1..Len(x) : x[i] = y[i]
    BY <1>4, <2>1
  <2> QED
    BY <2>1, <2>2, SeqEqual DEF x, y
<1> QED
  BY <1>1, <1>2, <1>5 DEF IsPrefix, a, n

LEMMA MessageIsNoStatus ==
    ASSUME NEW o
    PROVE  CtlMessage(o).code # "status" /\ CtlMessage(o).of = o.of
           /\ (CtlMessage(o).code \in {"DATA", "ACK"} <=> o.stage \in {"data", "sync", "ack"})
  BY DEF CtlMessage, CodeOf

\* The firmware takes a message of the answer.
LEMMA SendingKeeps ==
    ASSUME NEW j \in Nat, NEW o \in Answers, LibIs(UsbNow, j, o), Fitting(j, o), CtlHistory, KPackets \in Nat,
           Sending(j, o), ChipTakes
    PROVE  LibLeft(j, o) /\ CtlPhase(j, o)'
<1> DEFINE k == o.of
           m == CtlMessage(o)
           g == fw.got[k]
           p == fw.packets[k]
<1>1. ~fw.event /\ j = 0 /\ o.stage # "none" /\ mcu = <<m>> /\ mail = <<>> /\ AtPos(o, 0)
  BY DEF Sending
<1>2. /\ k \in 1..Packet /\ k \in 1..KPackets /\ p \in Packets /\ Packet \in Nat
      /\ Fits(p, o) /\ Pos(p, o) \in Nat /\ g \in Seq(CtlMessages)
      /\ Expected(k)[Pos(p, o) + 1] = m /\ Pos(p, o) + 1 <= Len(Expected(k)) /\ m \in CtlMessages
  BY <1>1, AnswerHas
<1>3. k = Packet /\ Len(g) = Pos(p, o)
  BY <1>1, <1>2 DEF AtPos
<1>4. m.code # "status" /\ m.of = k
  BY MessageIsNoStatus
<1>5. fw \in CtlFws /\ Packet <= KPackets /\ CtlCalls /\ CtlPrefixes
  BY DEF CtlHistory
<1> HIDE DEF m
<1>6. Head(mcu) = m /\ Tail(mcu) = <<>> /\ Append(mail, ReplyMail(k)) = <<ReplyMail(k)>>
  <2>1. Head(mcu) = m /\ Tail(mcu) = <<>>
    BY <1>1, Pairs
  <2> DEFINE r == ReplyMail(k)
  <2> HIDE DEF r
  <2>2. Append(mail, r) = <<r>>
    BY <1>1, Pairs
  <2> QED
    BY <2>1, <2>2 DEF r
<1>7. /\ fw' = [fw EXCEPT !.got[Packet] = Append(@, m)]
      /\ mcu' = <<>> /\ mail' = <<ReplyMail(k)>> /\ usb' = usb /\ ctlRqts' = ctlRqts
  <2>1. Packet # 0
    BY <1>2, <1>3
  <2> QED
    BY <1>1, <1>4, <1>6, <2>1 DEF ChipTakes, ReplyMail
<1>8. Append(g, m) \in Seq(CtlMessages) /\ Len(Append(g, m)) = Pos(p, o) + 1
  <2> HIDE DEF g, p, k
  <2> QED
    BY <1>2, <1>3, AppendProperties
<1> DEFINE a == Append(g, m)
           got == [fw.got EXCEPT ![k] = a]
<1>9. /\ fw' = [fw EXCEPT !.got = got] /\ fw'.got = got /\ fw'.packets = fw.packets /\ fw'.event = fw.event
      /\ fw' \in CtlFws
  <2>1. got \in [1..KPackets -> Seq(CtlMessages)]
    <3> HIDE DEF a, k
    <3> QED
      BY <1>2, <1>5, <1>8 DEF CtlFws, a
  <2>2. fw' = [fw EXCEPT !.got = got]
    BY <1>3, <1>5, <1>7 DEF CtlFws
  <2> HIDE DEF got
  <2> QED
    BY <1>5, <2>1, <2>2 DEF CtlFws
<1>10. got[k] = a /\ \A i \in 1..KPackets : i # k => got[i] = fw.got[i]
  <2> HIDE DEF a, k
  <2> QED
    BY <1>2, <1>5 DEF CtlFws
<1> HIDE DEF got, a
<1>11. Packet' = Packet /\ \A i : Expected(i)' = Expected(i)
  <2>1. Packet' = Packet
    BY <1>9 DEF Packet
  <2>2. \A i : Expected(i)' = Expected(i)
    BY <1>9, Zenon DEF Expected
  <2> QED
    BY <2>1, <2>2
<1>12. CtlPrefixes'
  <2>1. ASSUME NEW i \in 1..Packet
        PROVE  IsPrefix(got[i], Expected(i))
    <3>1. IsPrefix(fw.got[i], Expected(i))
      BY <1>5 DEF CtlPrefixes
    <3>2. CASE i = k
      <4>1. Expected(k) \in Seq(CtlMessages) /\ k \in Nat
        <5>1. k \in Nat /\ fw.packets[k] = p /\ p \in Packets
          BY <1>2
        <5> HIDE DEF k, p
        <5> QED
          BY <5>1, ExpectedLength
      <4>2. IsPrefix(g, Expected(k)) /\ Len(g) + 1 <= Len(Expected(k)) /\ Expected(k)[Len(g) + 1] = m
        BY <1>2, <1>3, <3>1, <3>2
      <4> HIDE DEF g, k
      <4>3. IsPrefix(Append(g, m), Expected(k))
        BY <1>2, <4>1, <4>2, PrefixGrows
      <4> QED
        BY <1>10, <3>2, <4>3 DEF a
    <3>3. CASE i # k
      <4>1. i \in 1..KPackets
        BY <1>2, <1>5
      <4> QED
        BY <1>10, <3>1, <3>3, <4>1
    <3> QED
      BY <3>2, <3>3
  <2> QED
    BY <1>9, <1>11, <2>1 DEF CtlPrefixes
<1>13. CtlCalls'
  <2>1. ASSUME NEW i \in 1..KPackets
        PROVE  usb.calls[i] \in {0, 1} /\ (i > Packet => usb.calls[i] = 0 /\ got[i] = <<>>)
    <3>1. usb.calls[i] \in {0, 1} /\ (i > Packet => usb.calls[i] = 0 /\ fw.got[i] = <<>>)
      BY <1>5 DEF CtlCalls
    <3>2. i > Packet => i # k
      BY <1>2, <1>3
    <3> QED
      BY <1>10, <3>1, <3>2
  <2> QED
    BY <1>7, <1>9, <1>11, <2>1 DEF CtlCalls
<1>14. CtlHistory'
  <2>1. fw' \in CtlFws'
    BY <1>9 DEF CtlFws
  <2> QED
    BY <1>5, <1>11, <1>12, <1>13, <2>1 DEF CtlHistory
<1>15. Fitting(j, o)'
  BY <1>9, <1>11 DEF Fitting
<1>16. LibIs(UsbNow, j, o)'
  <2>1. <<>> \in Seq(CtlMessages)
    OBVIOUS
  <2> QED
    BY <1>7, <2>1, LibKept
<1>17. Replying(j, o)'
  <2>1. fw'.got[Packet] = a /\ Len(a) = Pos(p, o) + 1
    BY <1>3, <1>8, <1>9, <1>10 DEF a
  <2>2. AtPos(o, 1)'
    BY <1>3, <1>9, <1>11, <2>1 DEF AtPos
  <2>3. ~Rests(j, o) /\ FirstOf(j, o) = k
    BY <1>1 DEF Rests, FirstOf
  <2> HIDE DEF k, p
  <2>4. mail' = <<ReplyMail(FirstOf(j, o))>> /\ ~fw'.event
    BY <1>1, <1>7, <1>9, <2>3
  <2> QED
    BY <1>1, <1>7, <2>2, <2>3, <2>4 DEF Replying
<1> QED
  BY <1>14, <1>15, <1>16, <1>17 DEF LibLeft, CtlPhase

\* It takes one after its own request: data and acknowledgements are dropped.
LEMMA DueKeeps ==
    ASSUME NEW m, NEW j \in Nat, NEW o \in Answers, LibIs(UsbNow, j, o), Fitting(j, o), CtlHistory,
           EventDue(m, j, o), ChipTakes
    PROVE  LibLeft(j, o) /\ CtlPhase(j, o)'
<1> DEFINE c == CtlMessage(o)
<1>1. mcu # <<>>
  BY DEF ChipTakes
<1>2. /\ fw.event /\ j = 0 /\ IsEvent(m, o) /\ Abandons(o)
      /\ o.stage # "none" /\ mcu = <<c>> /\ mail = <<m>>
  BY <1>1 DEF EventDue
<1>3. c.code # "status" /\ c.of = o.of /\ (c.code \in {"DATA", "ACK"} <=> o.stage \in {"data", "sync"})
  BY <1>2, MessageIsNoStatus DEF Abandons
<1> HIDE DEF c
<1>4. Head(mcu) = c /\ Tail(mcu) = <<>>
  BY <1>2, Pairs
<1>5. /\ fw' = fw /\ mcu' = <<>> /\ usb' = usb /\ ctlRqts' = ctlRqts
      /\ mail' = IF c.code \in {"DATA", "ACK"} THEN mail ELSE Append(mail, ReplyMail(c.of))
  BY <1>2, <1>3, <1>4 DEF ChipTakes, ReplyMail
<1>6. Packet' = Packet /\ CtlHistory' /\ Fitting(j, o)'
  BY <1>5, PacketsKept DEF CtlHistory
<1>7. LibIs(UsbNow, j, o)'
  <2>1. <<>> \in Seq(CtlMessages)
    OBVIOUS
  <2> QED
    BY <1>5, <2>1, LibKept
<1>8. IsEvent(m, o)'
  BY <1>2, <1>5, <1>6 DEF IsEvent
<1>9. EventDue(m, j, o)'
  <2>1. CASE o.stage \in {"data", "sync"}
    <3>1. mail' = <<m>>
      BY <1>2, <1>3, <1>5, <2>1
    <3> QED
      BY <1>2, <1>5, <1>8, <2>1, <3>1 DEF EventDue, WritesData
  <2>2. CASE o.stage = "stall"
    <3> DEFINE r == ReplyMail(o.of)
    <3>1. mail' = Append(<<m>>, r)
      BY <1>2, <1>3, <1>5, <2>2
    <3>2. mail' = <<m, r>>
      <4> HIDE DEF r
      <4> QED
        BY <3>1, SecondIsAppended
    <3> QED
      BY <1>2, <1>5, <1>8, <2>2, <3>2 DEF EventDue
  <2> QED
    BY <1>2, <2>1, <2>2 DEF Abandons
<1> QED
  BY <1>6, <1>7, <1>9 DEF LibLeft, CtlPhase

LEMMA BehindHas ==
    ASSUME NEW o \in Answers, NEW a, NEW b
    PROVE  /\ Head(Behind(<<a>>, o)) = a /\ Tail(Behind(<<a>>, o)) = Messages(o)
           /\ Head(Behind(<<a, b>>, o)) = a /\ Tail(Behind(<<a, b>>, o)) = Behind(<<b>>, o)
<1> DEFINE c == CtlMessage(o)
<1>1. CASE o.stage = "none"
  BY <1>1, Pairs DEF Behind, Messages
<1>2. CASE o.stage # "none"
  <2>1. Behind(<<a>>, o) = Append(<<a>>, c) /\ Behind(<<a, b>>, o) = Append(<<a, b>>, c)
        /\ Behind(<<b>>, o) = Append(<<b>>, c) /\ Messages(o) = <<c>>
    BY <1>2 DEF Behind, Messages
  <2> HIDE DEF c
  <2>2. Head(Append(<<a>>, c)) = a /\ Tail(Append(<<a>>, c)) = <<c>>
    <3>1. Append(<<a>>, c) = <<a, c>>
      BY SecondIsAppended, Zenon
    <3>2. Head(<<a, c>>) = a
      BY Pairs
    <3>3. Tail(<<a, c>>) = <<c>>
      BY Pairs
    <3> QED
      BY <3>1, <3>2, <3>3, Zenon
  <2>3. Head(Append(<<a, b>>, c)) = a /\ Tail(Append(<<a, b>>, c)) = Append(<<b>>, c)
    <3> DEFINE S == {a, b}
    <3>1. <<a, b>> \in Seq(S) /\ <<a, b>> # <<>> /\ Head(<<a, b>>) = a /\ Tail(<<a, b>>) = <<b>>
      BY Pairs
    <3> HIDE DEF S
    <3> DEFINE q == <<a, b>>
    <3> HIDE DEF q
    <3>2. q \in Seq(S) /\ q # <<>> /\ Head(q) = a /\ Tail(q) = <<b>>
      BY <3>1 DEF q
    <3>3. Head(Append(q, c)) = Head(q) /\ Tail(Append(q, c)) = Append(Tail(q), c)
      BY <3>2, HeadTailAppend
    <3> QED
      BY <3>2, <3>3 DEF q
  <2> QED
    BY <2>1, <2>2, <2>3
<1> QED
  BY <1>1, <1>2

LEMMA SaidTaken ==
    ASSUME NEW j \in Nat, NEW o \in Answers, LibIs(UsbNow, j, o), Fitting(j, o), CtlHistory, Said(j, o), ChipTakes
    PROVE  LibLeft(j, o) /\ CtlPhase(j, o)'
<1>1. fw.event /\ AtPos(o, 0) /\ fw \in CtlFws /\ usb' = usb /\ ctlRqts' = ctlRqts /\ mcu' = Tail(mcu) /\ mcu # <<>>
  BY DEF Said, CtlHistory, ChipTakes
<1>2. mcu' \in Seq(CtlMessages)
  <2>1. mcu \in Seq(CtlMessages)
    BY DEF LibIs, Libs, UsbNow
  <2> QED
    BY <1>1, <2>1, HeadTailProperties
<1>3. LibIs(UsbNow, j, o)'
  BY <1>1, <1>2, LibKept
<1>4. ASSUME Head(mcu) = Status
      PROVE  /\ mail' = mail /\ ~fw'.event /\ LibLeft(j, o) /\ AtPos(o, 0)'
  <2>1. fw' = [fw EXCEPT !.event = FALSE] /\ mail' = mail
    BY <1>4 DEF ChipTakes, Status
  <2>2. fw' \in CtlFws /\ fw'.packets = fw.packets /\ fw'.got = fw.got /\ ~fw'.event
    BY <1>1, <2>1 DEF CtlFws
  <2>3. CtlHistory' /\ Fitting(j, o)' /\ AtPos(o, 0)'
    BY <1>1, <2>2, PacketsKept
  <2> QED
    BY <1>3, <2>1, <2>2, <2>3 DEF LibLeft
<1>5. ASSUME NEW m, Head(mcu) = m, m.code # "status"
      PROVE  /\ fw' = fw /\ LibLeft(j, o) /\ AtPos(o, 0)'
             /\ mail' = IF m.code \in {"DATA", "ACK"} THEN mail ELSE Append(mail, ReplyMail(m.of))
  <2>1. fw' = fw /\ mail' = IF m.code \in {"DATA", "ACK"} THEN mail ELSE Append(mail, ReplyMail(m.of))
    BY <1>1, <1>5 DEF ChipTakes, ReplyMail
  <2>2. CtlHistory' /\ Fitting(j, o)' /\ AtPos(o, 0)'
    BY <1>1, <2>1, PacketsKept
  <2> QED
    BY <1>3, <2>1, <2>2 DEF LibLeft
<1>6. CASE j = 0 /\ mail = <<>> /\ mcu = Behind(<<Status>>, o)
  <2>1. Head(mcu) = Status /\ mcu' = Messages(o)
    BY <1>1, <1>6, BehindHas
  <2>2. mail' = mail /\ ~fw'.event /\ LibLeft(j, o) /\ AtPos(o, 0)'
    BY <1>4, <2>1
  <2>3. Resting(j, o)' \/ Sending(j, o)'
    BY <1>6, <2>1, <2>2 DEF Messages, Resting, Sending, Rests
  <2> QED
    BY <2>2, <2>3 DEF CtlPhase
<1>7. ASSUME NEW d \in CtlMessages, j = 0, mail = <<>>, d.code \in {"DATA", "ACK"}, mcu = Behind(<<d, Status>>, o)
      PROVE  LibLeft(j, o) /\ CtlPhase(j, o)'
  <2>1. Head(mcu) = d /\ mcu' = Behind(<<Status>>, o)
    BY <1>1, <1>7, BehindHas
  <2>2. fw' = fw /\ LibLeft(j, o) /\ AtPos(o, 0)' /\ mail' = mail
    BY <1>5, <1>7, <2>1
  <2>3. mcu' = Behind(<<Status>>, o)'
    BY <2>1
  <2>4. Said(j, o)'
    BY <1>1, <1>7, <2>2, <2>3 DEF Said
  <2> QED
    BY <2>2, <2>4 DEF CtlPhase
<1>8. CASE j # 0 /\ mail = <<>> /\ mcu = <<StallMessage(j), Status>>
  <2> DEFINE m == StallMessage(j)
             r == ReplyMail(j)
  <2>1. m.code = "STALL" /\ m.of = j
    BY DEF StallMessage
  <2> HIDE DEF m
  <2>2. Head(mcu) = m /\ mcu' = <<Status>>
    <3>1. mcu = <<m, Status>>
      BY <1>8 DEF m
    <3> QED
      BY <1>1, <3>1, Pairs
  <2>3. fw' = fw /\ LibLeft(j, o) /\ AtPos(o, 0)' /\ mail' = Append(mail, r)
    BY <1>5, <2>1, <2>2
  <2> HIDE DEF r
  <2>4. mail' = <<r>>
    BY <1>8, <2>3, Pairs
  <2>5. Said(j, o)'
    BY <1>1, <1>8, <2>2, <2>3, <2>4 DEF Said, r
  <2> QED
    BY <2>3, <2>5 DEF CtlPhase
<1>9. CASE j # 0 /\ mail = <<ReplyMail(j)>> /\ mcu = <<Status>>
  <2>1. Head(mcu) = Status /\ mcu' = <<>>
    BY <1>1, <1>9, Pairs
  <2>2. mail' = mail /\ ~fw'.event /\ LibLeft(j, o) /\ AtPos(o, 0)'
    BY <1>4, <2>1
  <2>3. Replying(j, o)'
    BY <1>9, <2>1, <2>2 DEF Replying, Rests, FirstOf
  <2> QED
    BY <2>2, <2>3 DEF CtlPhase
<1> QED
  BY <1>6, <1>7, <1>8, <1>9 DEF Said

LEMMA ChipKeeps ==
    ASSUME CtlInv, KPackets \in Nat, ChipTakes
    PROVE  CtlInv'
<1>1. PICK j \in Nat, o \in Answers : LibIs(UsbNow, j, o) /\ Fitting(j, o) /\ CtlPhase(j, o)
  BY DEF CtlInv
<1>2. CtlHistory /\ mcu # <<>>
  BY DEF CtlInv, ChipTakes
<1>3. LibLeft(j, o) /\ CtlPhase(j, o)'
  <2>1. CASE Resting(j, o) \/ Replying(j, o)
    BY <1>2, <2>1 DEF Resting, Replying
  <2>2. CASE Sending(j, o)
    BY <1>1, <1>2, <2>2, SendingKeeps
  <2>3. ASSUME NEW m, Interrupting(m, j, o)
        PROVE  FALSE
    BY <1>2, <2>3 DEF Interrupting
  <2>4. ASSUME NEW m, EventDue(m, j, o)
        PROVE  LibLeft(j, o) /\ CtlPhase(j, o)'
    BY <1>1, <1>2, <2>4, DueKeeps
  <2>5. CASE Said(j, o)
    BY <1>1, <1>2, <2>5, SaidTaken
  <2> QED
    BY <1>1, <2>1, <2>2, <2>3, <2>4, <2>5 DEF CtlPhase
<1> QED
  BY <1>3 DEF LibLeft, CtlInv, Answers

-----------------------------------------------------------------------------
(* The host's steps *)

\* The host goes on after the last message of an answer, or when it gives up a transfer.
LEMMA MayGoOn ==
    ASSUME CtlHyp, NEW j \in Nat, NEW o \in Answers, o.stage # "none", Fitting(j, o), CtlHistory, HostMayGoOn,
           NEW n \in {0, 1}, AtPos(o, n)
    PROVE  o.stage \in {"data", "sync", "stall"} \/ (n = 1 /\ o.stage = "ack")
<1> DEFINE k == o.of
           p == fw.packets[k]
           got == Len(fw.got[k])
<1>1. /\ k \in 1..Packet /\ p \in Packets /\ Packet \in Nat /\ Fits(p, o) /\ Pos(p, o) \in Nat
      /\ Pos(p, o) + 1 <= Len(Expected(k))
  BY AnswerHas DEF CtlHyp
<1>2. k = Packet /\ got = Pos(p, o) + n
  BY DEF AtPos
<1>3. Packet > 0
  BY <1>1, <1>2
<1>4. got >= Len(Expected(k)) \/ p.kind \in GivesUp
  BY <1>2, <1>3 DEF HostMayGoOn, Done
<1>5. Len(Expected(k)) = Lengths(p)
  <2>1. k \in Nat /\ fw.packets[k] = p
    BY <1>1
  <2> HIDE DEF k, p
  <2> QED
    BY <1>1, <2>1, ExpectedLength
<1> HIDE DEF k, p, got
<1>6. SUFFICES ASSUME o.stage \in {"ack", "feature", "config"}
               PROVE  n = 1 /\ o.stage = "ack"
  BY DEF Answers
<1>7. p.kind \in {"plain", "feature", "config"}
  BY <1>1, <1>6 DEF Fits, KindsOf
<1>8. p.kind \notin GivesUp
  BY <1>7 DEF CtlHyp
<1>9. got >= Lengths(p)
  BY <1>4, <1>5, <1>8
<1>10. CASE o.stage = "ack"
  BY <1>1, <1>2, <1>5, <1>9, <1>10
<1>11. CASE o.stage = "feature"
  <2>1. p.kind \in {"feature", "config"}
    BY <1>1, <1>11 DEF Fits, KindsOf
  <2>2. Pos(p, o) + 2 = Lengths(p)
    BY <1>11, <2>1 DEF Pos, Lengths
  <2> QED
    BY <1>1, <1>2, <1>9, <2>2
<1>12. CASE o.stage = "config"
  <2>1. p.kind = "config"
    BY <1>1, <1>12 DEF Fits, KindsOf
  <2>2. Pos(p, o) = 0 /\ Lengths(p) = 3
    BY <1>12, <2>1 DEF Pos, Lengths
  <2> QED
    BY <1>2, <1>9, <2>2
<1> QED
  BY <1>6, <1>10, <1>11, <1>12

\* A request of the firmware's own goes behind what is in the mailbox.
LEMMA EventComes ==
    ASSUME CtlHyp, NEW m, NEW j \in Nat, NEW o \in Answers, Fitting(j, o), CtlHistory, HostMayGoOn,
           Resting(j, o) \/ Sending(j, o) \/ Replying(j, o),
           fw'.event, IsEvent(m, o)', mcu' = mcu, mail' = Append(mail, m)
    PROVE  CtlPhase(j, o)'
<1> DEFINE c == CtlMessage(o)
           r == ReplyMail(FirstOf(j, o))
<1>1. CASE Resting(j, o)
  <2>1. mail' = <<m>>
    BY <1>1, Pairs DEF Resting
  <2>2. EventDue(m, j, o)'
    BY <1>1, <2>1 DEF Resting, Rests, EventDue, Abandons
  <2> QED
    BY <2>2 DEF CtlPhase
<1>2. CASE Sending(j, o)
  <2>1. j = 0 /\ o.stage # "none" /\ mcu = <<c>> /\ mail = <<>> /\ AtPos(o, 0)
    BY <1>2 DEF Sending
  <2>2. o.stage \in {"data", "sync", "stall"}
    <3>1. 0 \in {0, 1} /\ 0 # 1
      OBVIOUS
    <3> QED
      BY <2>1, <3>1, MayGoOn
  <2> HIDE DEF c
  <2>3. mail' = <<m>> /\ mcu' = <<c>>
    BY <2>1, Pairs
  <2>4. EventDue(m, j, o)'
    BY <2>1, <2>2, <2>3 DEF EventDue, Abandons, c
  <2> QED
    BY <2>4 DEF CtlPhase
<1>3. CASE Replying(j, o)
  <2>1. ~Rests(j, o) /\ mcu = <<>> /\ mail = <<r>> /\ AtPos(o, IF j = 0 THEN 1 ELSE 0)
    BY <1>3 DEF Replying
  <2>2. IF j = 0 THEN o.stage \in {"data", "sync", "stall", "ack"} ELSE o.stage \in {"none", "data", "stall"}
    <3>1. CASE j = 0
      <4>1. o.stage # "none" /\ AtPos(o, 1) /\ 1 \in {0, 1}
        BY <2>1, <3>1 DEF Rests
      <4>2. o.stage \in {"data", "sync", "stall"} \/ o.stage = "ack"
        BY <4>1, MayGoOn
      <4> QED
        BY <3>1, <4>2
    <3>2. CASE j # 0 /\ o.stage # "none"
      <4>1. AtPos(o, 0) /\ 0 \in {0, 1} /\ 0 # 1
        BY <2>1, <3>2
      <4>2. o.stage \in {"data", "sync", "stall"}
        BY <3>2, <4>1, MayGoOn
      <4>3. o.stage # "sync"
        BY <3>2 DEF Fitting
      <4> QED
        BY <3>2, <4>2, <4>3
    <3> QED
      BY <3>1, <3>2
  <2> HIDE DEF r
  <2>3. mail' = <<r, m>>
    <3>1. Append(<<r>>, m) = <<r, m>>
      BY SecondIsAppended, Zenon
    <3> QED
      BY <2>1, <3>1
  <2>4. Interrupting(m, j, o)'
    BY <2>1, <2>2, <2>3 DEF Interrupting, r
  <2> QED
    BY <2>4 DEF CtlPhase
<1> QED
  BY <1>1, <1>2, <1>3

\* The host goes on while the firmware has no request of its own.
LEMMA HostFinds ==
    ASSUME NEW j, NEW o, CtlPhase(j, o), HostMayGoOn
    PROVE  Resting(j, o) \/ Sending(j, o) \/ Replying(j, o)
  BY DEF CtlPhase, HostMayGoOn, Interrupting, EventDue, Said

LEMMA HostResetKeeps ==
    ASSUME CtlInv, CtlHyp, HostReset
    PROVE  CtlInv'
<1>1. PICK j \in Nat, o \in Answers : LibIs(UsbNow, j, o) /\ Fitting(j, o) /\ CtlPhase(j, o)
  BY DEF CtlInv
<1>2. /\ HostMayGoOn /\ mail' = Append(mail, ResetMail) /\ usb' = usb /\ ctlRqts' = ctlRqts /\ mcu' = mcu
      /\ fw' = [fw EXCEPT !.resets = @ + 1, !.event = TRUE]
  BY DEF HostReset, ResetMail
<1>3. CtlHistory /\ fw \in CtlFws
  BY DEF CtlInv, CtlHistory
<1>4. fw' \in CtlFws /\ fw'.packets = fw.packets /\ fw'.got = fw.got /\ fw'.event
  <2>1. PICK n : n = fw.resets + 1
    OBVIOUS
  <2>2. n \in Nat
    BY <1>3, <2>1 DEF CtlFws
  <2>3. fw' = [fw EXCEPT !.resets = n, !.event = TRUE]
    BY <1>2, <1>3, <2>1 DEF CtlFws
  <2> QED
    BY <1>3, <2>2, <2>3 DEF CtlFws
<1>5. CtlHistory' /\ Fitting(j, o)'
  BY <1>1, <1>2, <1>3, <1>4, PacketsKept
<1>6. LibIs(UsbNow, j, o)'
  <2>1. mcu \in Seq(CtlMessages)
    BY <1>1 DEF LibIs, Libs, UsbNow
  <2> QED
    BY <1>1, <1>2, <2>1, LibKept
<1>7. IsEvent(ResetMail, o)'
  BY DEF IsEvent
<1>8. CtlPhase(j, o)'
  <2>1. Resting(j, o) \/ Sending(j, o) \/ Replying(j, o)
    BY <1>1, <1>2, HostFinds
  <2> QED
    BY <1>1, <1>2, <1>3, <1>4, <1>7, <2>1, EventComes
<1> QED
  BY <1>5, <1>6, <1>8 DEF CtlInv, Answers

\* Nothing is the beginning of what is expected.
ExpectedBegins == \A k \in Nat : fw.packets[k] \in Packets => IsPrefix(<<>>, Expected(k))
LEMMA ExpectedDoes == ExpectedBegins
<1> SUFFICES ASSUME NEW k \in Nat, NEW p \in Packets, fw.packets[k] = p
             PROVE  IsPrefix(<<>>, Expected(k))
  BY DEF ExpectedBegins
<1>1. Expected(k) \in Seq(CtlMessages)
  BY ExpectedLength
<1>2. PICK e \in Seq(CtlMessages) : e = Expected(k)
  BY <1>1
<1>3. Len(<<>>) = 0 /\ Len(e) \in Nat /\ SubSeq(<<>>, 1, 0) = SubSeq(e, 1, 0)
  <2>1. SubSeq(e, 1, 0) = <<>> /\ SubSeq(<<>>, 1, 0) = <<>>
    BY SubSeqProperties, EmptySeq
  <2> QED
    BY <2>1
<1> QED
  BY <1>2, <1>3 DEF IsPrefix

\* A packet more: what is said of the earlier ones stays true.
LEMMA PacketComes ==
    ASSUME NEW j, NEW o, CtlHistory, Fitting(j, o), usb' = usb, NEW p \in Packets, Packet < KPackets, KPackets \in Nat,
           fw' \in CtlFws, fw'.packets = Append(fw.packets, p), fw'.got = fw.got
    PROVE  /\ Packet \in Nat /\ Packet' = Packet + 1 /\ CtlHistory' /\ Fitting(j, o)'
           /\ fw.got[Packet + 1] = <<>> /\ usb.calls[Packet + 1] = 0
<1>a. PICK n : n = Packet + 1
  OBVIOUS
<1>1. /\ fw \in CtlFws /\ CtlCalls /\ CtlPrefixes /\ Packet \in Nat /\ fw.packets \in Seq(Packets)
      /\ Len(fw.packets) = Packet
  BY DEF CtlHistory, CtlFws, Packet
<1>2. /\ Packet' = n /\ (\A i \in 1..Packet : fw'.packets[i] = fw.packets[i]) /\ fw'.packets[n] = p
  <2>1. PICK q \in Seq(Packets) : q = fw.packets
    BY <1>1
  <2>2. /\ Append(q, p) \in Seq(Packets) /\ Len(Append(q, p)) = Len(q) + 1
        /\ (\A i \in 1..Len(q) : Append(q, p)[i] = q[i]) /\ Append(q, p)[Len(q) + 1] = p
    BY AppendProperties
  <2> QED
    BY <1>a, <1>1, <2>1, <2>2 DEF Packet
<1>3. n \in 1..KPackets /\ n > Packet
  BY <1>a, <1>1
<1>4. fw.got[n] = <<>> /\ usb.calls[n] = 0
  BY <1>1, <1>3 DEF CtlCalls
<1>5. \A i \in 1..Packet : Expected(i)' = Expected(i)
  <2> TAKE i \in 1..Packet
  <2>1. fw'.packets[i] = fw.packets[i]
    BY <1>2
  <2> QED
    BY <2>1, Zenon DEF Expected
<1>6. IsPrefix(<<>>, Expected(n)')
  <2>1. ExpectedBegins'
    BY ExpectedDoes, PTL
  <2>2. n \in Nat /\ fw'.packets[n] \in Packets'
    BY <1>2, <1>3 DEF Packets
  <2> QED
    BY <2>1, <2>2 DEF ExpectedBegins
<1>7. CtlPrefixes'
  <2>1. ASSUME NEW i \in 1..n
        PROVE  IsPrefix(fw'.got[i], Expected(i)')
    <3>1. CASE i = n
      BY <1>4, <1>6, <3>1
    <3>2. CASE i # n
      <4>1. i \in 1..Packet
        BY <1>a, <1>1, <3>2
      <4>2. IsPrefix(fw.got[i], Expected(i))
        BY <1>1, <4>1 DEF CtlPrefixes
      <4> QED
        BY <1>5, <4>1, <4>2
    <3> QED
      BY <3>1, <3>2
  <2> QED
    BY <1>2, <2>1 DEF CtlPrefixes
<1>8. CtlCalls'
  <2>1. ASSUME NEW i \in 1..KPackets
        PROVE  usb.calls[i] \in {0, 1} /\ (i > n => usb.calls[i] = 0 /\ fw.got[i] = <<>>)
    <3>1. usb.calls[i] \in {0, 1} /\ (i > Packet => usb.calls[i] = 0 /\ fw.got[i] = <<>>)
      BY <1>1 DEF CtlCalls
    <3>2. i > n => i > Packet
      BY <1>a, <1>1
    <3> QED
      BY <3>1, <3>2
  <2> QED
    BY <1>2, <2>1 DEF CtlCalls
<1>9. CtlHistory'
  <2>1. fw' \in CtlFws' /\ n <= KPackets
    BY <1>3 DEF CtlFws
  <2> QED
    BY <1>2, <1>7, <1>8, <2>1 DEF CtlHistory
<1>10. Fitting(j, o)'
  <2>1. o.stage # "none" => o.of \in 1..Packet /\ Fits(fw.packets[o.of], o)
    BY DEF Fitting
  <2>2. o.stage # "none" => o.of \in 1..n /\ Fits(fw'.packets[o.of], o)
    <3>1. \A i \in 1..Packet : i \in 1..n
      BY <1>a, <1>1
    <3> QED
      BY <1>2, <2>1, <3>1
  <2> QED
    BY <1>2, <2>2 DEF Fitting
<1> QED
  BY <1>a, <1>1, <1>2, <1>4, <1>9, <1>10

LEMMA HostSetupKeeps ==
    ASSUME CtlInv, CtlHyp, NEW kind \in PacketKinds, NEW parts \in 1..KParts, HostSetup(kind, parts)
    PROVE  CtlInv'
<1> DEFINE p == [kind |-> kind, parts |-> parts]
<1>1. PICK j \in Nat, o \in Answers : LibIs(UsbNow, j, o) /\ Fitting(j, o) /\ CtlPhase(j, o)
  BY DEF CtlInv
<1>2. PICK k : k = Packet + 1
  OBVIOUS
<1>3. p \in Packets
  BY DEF CtlHyp, Packets
<1> HIDE DEF p
<1>4. /\ Packet < KPackets /\ HostMayGoOn /\ mail' = Append(mail, SetupMail(k))
      /\ usb' = usb /\ ctlRqts' = ctlRqts /\ mcu' = mcu
      /\ fw' = [fw EXCEPT !.packets = Append(@, p), !.event = TRUE]
  BY <1>2 DEF HostSetup, SetupMail, p
<1>5. CtlHistory /\ fw \in CtlFws
  BY DEF CtlInv, CtlHistory
<1>6. fw' \in CtlFws /\ fw'.packets = Append(fw.packets, p) /\ fw'.got = fw.got /\ fw'.event
  <2>1. fw.packets \in Seq(Packets)
    BY <1>5 DEF CtlFws
  <2>2. PICK q : q = Append(fw.packets, p)
    OBVIOUS
  <2>3. q \in Seq(Packets)
    BY <1>3, <2>1, <2>2, AppendProperties
  <2>4. fw' = [fw EXCEPT !.packets = q, !.event = TRUE]
    BY <1>4, <1>5, <2>2 DEF CtlFws
  <2> QED
    BY <1>5, <2>2, <2>3, <2>4 DEF CtlFws
<1>7. /\ Packet \in Nat /\ Packet' = k /\ CtlHistory' /\ Fitting(j, o)'
      /\ fw.got[k] = <<>> /\ usb.calls[k] = 0
  BY <1>1, <1>2, <1>3, <1>4, <1>5, <1>6, PacketComes DEF CtlHyp
<1>8. LibIs(UsbNow, j, o)'
  <2>1. mcu \in Seq(CtlMessages)
    BY <1>1 DEF LibIs, Libs, UsbNow
  <2> QED
    BY <1>1, <1>4, <2>1, LibKept
<1>9. IsEvent(SetupMail(k), o)'
  <2>1. k > 0 /\ (o.stage # "none" => o.of < k)
    BY <1>1, <1>2, <1>7 DEF Fitting
  <2>2. fw'.got[k] = <<>> /\ usb'.calls[k] = 0
    BY <1>4, <1>6, <1>7
  <2> QED
    BY <1>7, <2>1, <2>2 DEF IsEvent
<1>10. CtlPhase(j, o)'
  <2>1. Resting(j, o) \/ Sending(j, o) \/ Replying(j, o)
    BY <1>1, <1>4, HostFinds
  <2> QED
    BY <1>1, <1>4, <1>5, <1>6, <1>9, <2>1, EventComes
<1> QED
  BY <1>7, <1>8, <1>10 DEF CtlInv, Answers

-----------------------------------------------------------------------------
(* The theorem *)

LEMMA CtlBegins ==
    ASSUME CtlHyp, ControlInit
    PROVE  CtlInv
<1> DEFINE calls == [k \in 1..KPackets |-> 0]
           got == [k \in 1..KPackets |-> <<>>]
<1>1. /\ <<>> \in Seq(CtlMessages) /\ <<>> \in Seq(CtlRqts) /\ <<>> \in Seq([of : Nat, left : Nat])
      /\ <<>> \in Seq({"UsbAckCallback", "StallCallback", "StallCallbackEX"}) /\ <<>> \in Seq(Packets)
  OBVIOUS
<1>2. calls \in [1..KPackets -> Nat] /\ got \in [1..KPackets -> Seq(CtlMessages)]
  BY <1>1
<1>3. /\ \A k \in 1..KPackets : calls[k] = 0 /\ got[k] = <<>>
      /\ usb.calls = calls /\ fw.got = got /\ fw.packets = <<>> /\ ~fw.event
      /\ ctlRqts = <<>> /\ mcu = <<>> /\ mail = <<>>
  BY DEF ControlInit
<1>4. fw = [packets |-> <<>>, got |-> got, event |-> FALSE, resets |-> 0]
  BY DEF ControlInit
<1>5. usb = [delay_ack |-> 0, setup |-> FALSE, ep0_stalled |-> FALSE, async |-> FALSE, cb |-> 0, pending |-> 0,
             cbs |-> <<>>, queue |-> <<>>, running |-> FALSE, dma_req |-> TRUE, calls |-> calls, failed |-> FALSE]
  BY DEF ControlInit
<1> HIDE DEF calls, got
<1>6. fw \in CtlFws
  BY <1>1, <1>2, <1>4 DEF CtlFws
<1>7. Packet = 0
  BY <1>3 DEF Packet
<1>8. CtlHistory
  <2>1. CtlCalls
    BY <1>3 DEF CtlCalls
  <2>2. CtlPrefixes
    BY <1>7 DEF CtlPrefixes
  <2> QED
    BY <1>6, <1>7, <2>1, <2>2 DEF CtlHistory, CtlHyp
<1>9. usb \in CtlUsbs
  <2>1. 0 \in Int /\ 0 \in Nat
    OBVIOUS
  <2> QED
    BY <1>1, <1>2, <1>5, <2>1 DEF CtlUsbs
<1>10. UsbNow \in Libs /\ UsbNow.usb = usb /\ UsbNow.rqts = <<>>
  BY <1>1, <1>3, <1>9 DEF Libs, UsbNow
<1>11. NoAnswer \in Answers /\ NoAnswer.stage = "none"
  BY DEF Answers, NoAnswer
<1>12. UsbIs(usb, 0, NoAnswer)
  BY <1>5, <1>11 DEF UsbIs, DelaysAck, WritesData, CbsOf
<1>13. RqtsOf(0, NoAnswer) = <<>>
  BY <1>11 DEF RqtsOf
<1>14. LibIs(UsbNow, 0, NoAnswer)
  BY <1>10, <1>12, <1>13 DEF LibIs
<1>15. Fitting(0, NoAnswer) /\ Resting(0, NoAnswer)
  BY <1>3, <1>11 DEF Fitting, Resting, Rests
<1>16. CtlPhase(0, NoAnswer)
  BY <1>15 DEF CtlPhase
<1> QED
  BY <1>8, <1>11, <1>14, <1>15, <1>16 DEF CtlInv

LEMMA CtlStutters ==
    ASSUME CtlInv, UNCHANGED controlVars
    PROVE  CtlInv'
<1>1. usb' = usb /\ ctlRqts' = ctlRqts /\ mcu' = mcu /\ mail' = mail /\ fw' = fw
  BY DEF controlVars
<1>2. PICK j \in Nat, o \in Answers : LibIs(UsbNow, j, o) /\ Fitting(j, o) /\ CtlPhase(j, o)
  BY DEF CtlInv
<1>3. CtlHistory /\ fw \in CtlFws
  BY DEF CtlInv, CtlHistory
<1>4. CtlHistory' /\ Fitting(j, o)' /\ Packet' = Packet
  BY <1>1, <1>2, <1>3, PacketsKept
<1>5. mcu \in Seq(CtlMessages)
  BY <1>2 DEF LibIs, Libs, UsbNow
<1>6. LibIs(UsbNow, j, o)'
  BY <1>1, <1>2, <1>5, LibKept
<1>7. \A n : AtPos(o, n) => AtPos(o, n)'
  BY <1>1, <1>4 DEF AtPos
<1>8. \A m : IsEvent(m, o) => IsEvent(m, o)'
  BY <1>1, <1>4 DEF IsEvent
<1>9. CASE Resting(j, o)
  BY <1>1, <1>4, <1>6, <1>9 DEF CtlInv, CtlPhase, Resting
<1>10. CASE Sending(j, o)
  BY <1>1, <1>4, <1>6, <1>7, <1>10 DEF CtlInv, CtlPhase, Sending
<1>11. CASE Replying(j, o)
  <2>1. Replying(j, o)'
    BY <1>1, <1>7, <1>11 DEF Replying
  <2> QED
    BY <1>4, <1>6, <2>1 DEF CtlInv, CtlPhase
<1>12. ASSUME NEW m, Interrupting(m, j, o)
       PROVE  CtlInv'
  <2>1. Interrupting(m, j, o)'
    BY <1>1, <1>8, <1>12 DEF Interrupting
  <2> QED
    BY <1>4, <1>6, <2>1 DEF CtlInv, CtlPhase
<1>13. ASSUME NEW m, EventDue(m, j, o)
       PROVE  CtlInv'
  <2>1. EventDue(m, j, o)'
    BY <1>1, <1>8, <1>13 DEF EventDue
  <2> QED
    BY <1>4, <1>6, <2>1 DEF CtlInv, CtlPhase
<1>14. CASE Said(j, o)
  <2>1. Said(j, o)'
    BY <1>1, <1>7, <1>14 DEF Said
  <2> QED
    BY <1>4, <1>6, <2>1 DEF CtlInv, CtlPhase
<1> QED
  BY <1>2, <1>9, <1>10, <1>11, <1>12, <1>13, <1>14 DEF CtlPhase

LEMMA CtlGoesOn ==
    ASSUME CtlInv, CtlHyp, [ControlNext]_controlVars
    PROVE  CtlInv'
<1>1. CASE UsbDfc
  BY <1>1, DfcKeeps DEF CtlHyp
<1>2. CASE ChipTakes
  BY <1>2, ChipKeeps DEF CtlHyp
<1>3. ASSUME NEW kind \in PacketKinds, NEW parts \in 1..KParts, HostSetup(kind, parts)
      PROVE  CtlInv'
  BY <1>3, HostSetupKeeps
<1>4. CASE HostReset
  BY <1>4, HostResetKeeps
<1>5. CASE UNCHANGED controlVars
  BY <1>5, CtlStutters
<1> QED
  BY <1>1, <1>2, <1>3, <1>4, <1>5 DEF ControlNext

LEMMA CtlIsAnswered ==
    ASSUME CtlInv, CtlHyp
    PROVE  ControlIsAnswered
<1>1. PICK j \in Nat, o \in Answers : LibIs(UsbNow, j, o) /\ Fitting(j, o) /\ CtlPhase(j, o)
  BY DEF CtlInv
<1>2. CtlHistory /\ Packet \in Nat
  BY DEF CtlInv, CtlHistory, CtlFws, Packet
<1>3. UsbIs(usb, j, o) /\ ctlRqts = RqtsOf(j, o)
  BY <1>1, NowIs DEF LibIs
<1>4. ~usb.failed /\ usb.delay_ack >= 0
  BY <1>3 DEF UsbIs
<1>5. \A k \in 1..Packet : IsPrefix(fw.got[k], Expected(k)) /\ usb.calls[k] <= 1
  <2>1. \A k \in 1..Packet : IsPrefix(fw.got[k], Expected(k))
    BY <1>2 DEF CtlHistory, CtlPrefixes
  <2>2. ASSUME NEW k \in 1..Packet
        PROVE  usb.calls[k] <= 1
    <3>1. k \in 1..KPackets
      BY <1>2 DEF CtlHistory, CtlHyp
    <3>2. usb.calls[k] \in {0, 1}
      BY <1>2, <3>1 DEF CtlHistory, CtlCalls
    <3> QED
      BY <3>2
  <2> QED
    BY <2>1, <2>2
<1>6. ASSUME Quiet
      PROVE  ctlRqts = <<>> /\ usb.cbs = <<>> /\ usb.delay_ack = 0 /\ ~usb.async /\ usb.pending = 0
  <2>1. mail = <<>> /\ mcu = <<>>
    BY <1>6 DEF Quiet
  <2>2. j = 0 /\ o.stage = "none"
    <3> DEFINE c == CtlMessage(o)
               r == ReplyMail(FirstOf(j, o))
    <3>1. CASE Resting(j, o)
      BY <3>1 DEF Resting, Rests
    <3>2. CASE Sending(j, o)
      <4>1. mcu = <<c>>
        BY <3>2 DEF Sending
      <4> HIDE DEF c
      <4> QED
        BY <2>1, <4>1, Pairs
    <3>3. CASE Replying(j, o)
      <4>1. mail = <<r>>
        BY <3>3 DEF Replying
      <4> HIDE DEF r
      <4> QED
        BY <2>1, <4>1, Pairs
    <3>4. ASSUME NEW m, Interrupting(m, j, o)
          PROVE  FALSE
      <4>1. mail = <<r, m>>
        BY <3>4 DEF Interrupting
      <4> HIDE DEF r
      <4> QED
        BY <2>1, <4>1, Pairs
    <3>5. ASSUME NEW m, EventDue(m, j, o)
          PROVE  FALSE
      <4>1. mail = <<m>> \/ mail = <<m, ReplyMail(o.of)>>
        BY <3>5 DEF EventDue
      <4> QED
        BY <2>1, <4>1, Pairs
    <3>6. CASE Said(j, o)
      <4>1. \/ mcu = Behind(<<Status>>, o) \/ (\E d : mcu = Behind(<<d, Status>>, o))
            \/ mcu = <<StallMessage(j), Status>> \/ mcu = <<Status>>
        BY <3>6 DEF Said
      <4>2. \A a, b : <<a>> # <<>> /\ <<a, b>> # <<>> /\ Append(<<a>>, c) # <<>> /\ Append(<<a, b>>, c) # <<>>
        <5> HIDE DEF c
        <5> TAKE a, b
        <5>1. <<a>> # <<>> /\ <<a, b>> # <<>>
          BY Pairs
        <5>2. Append(<<a>>, c) # <<>>
          BY Pairs
        <5>3. Append(<<a, b>>, c) # <<>>
          <6>1. <<a, b>> \in Seq({a, b})
            OBVIOUS
          <6> QED
            BY <6>1
        <5> QED
          BY <5>1, <5>2, <5>3
      <4> QED
        BY <2>1, <4>1, <4>2, Zenon DEF Behind
    <3> QED
      BY <1>1, <3>1, <3>2, <3>3, <3>4, <3>5, <3>6 DEF CtlPhase
  <2> QED
    BY <1>3, <2>2 DEF UsbIs, RqtsOf, CbsOf, DelaysAck, WritesData
<1> QED
  BY <1>4, <1>5, <1>6 DEF ControlIsAnswered

\* ControlIsAnswered for any number of packets, of data in a write and of resets: whichever
\* packet comes while another one is being answered, the firmware gets of each packet what
\* it asks for, in order and once, no assertion of the library fails, and nothing is left of
\* a transfer that is over (cyasusb.c, cyasdma.c).
THEOREM ControlResult ==
    ASSUME CtlHyp
    PROVE  ControlSpec => []ControlIsAnswered
<1>1. ControlInit => CtlInv
  BY CtlBegins
<1>2. CtlInv /\ [ControlNext]_controlVars => CtlInv'
  BY CtlGoesOn
<1>3. CtlInv => ControlIsAnswered
  BY CtlIsAnswered
<1> QED
  BY <1>1, <1>2, <1>3, PTL DEF ControlSpec
=============================================================================
