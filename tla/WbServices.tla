----------------------------- MODULE WbServices -----------------------------
(***************************************************************************)
(* The services of the West Bridge's storage: start and stop, ownership,   *)
(* queries, and the description of each device that the queries keep and   *)
(* the reads rely on (wb/api/src/cyasstorage.c); the queue of callbacks of *)
(* the asynchronous calls (cyasmisc.c).                                    *)
(*                                                                         *)
(* A call is synchronous, and its thread then sleeps until the reply is    *)
(* there, or asynchronous, and the reply is handled in the DFC of the      *)
(* chip's interrupt.  Callbacks may make asynchronous calls themselves, so *)
(* these come between any two steps of the thread.                         *)
(*                                                                         *)
(* A start or a stop tests that no other is pending, and sets that one is, *)
(* in two steps: nothing protects them (a read's are protected).           *)
(*                                                                         *)
(* Memory is there, and the device is configured and not suspended.  The   *)
(* mailbox is a sequence, as in WbLowLevel, without its timeouts; the DMA  *)
(* of a read is left to WbStorage.                                         *)
(*                                                                         *)
(* External: the callers and the firmware.  The firmware tells of a change *)
(* of a medium when the one before has been acknowledged.                  *)
(***************************************************************************)
EXTENDS Integers, SequencesExt

CONSTANTS
    Devices,        \* the devices of the buses
    BlockSizes,     \* of media; 0 when there is none
    Services,       \* kinds of calls
    Refusals,       \* those that the firmware may refuse
    KCalls,         \* the thread calls no more, nor do callbacks
    KChanges

VARIABLES
    svc,        \* CyAsDevice: what it knows of the storage
    rqts,       \* the storage context's requests; the first one is sent
    calls,      \* the calls so far, with what was answered and what was given back
    svcThread,  \* where the thread is
    begun,      \* the start or the stop that it has begun
    card,       \* the firmware: its state, media and messages
    met,        \* history: what the code does not exclude, and has happened:
                \*   "change": a medium changes between a reply and its use
                \*   "read": a callback reads while the thread prepares a read
                \*   "stop": a read and a stop overlap
                \*   "pending": a start or a stop goes on while another is pending
                \*   "refused": a start that the firmware refuses is counted
    overtaken,  \* history: the calls whose nodes and requests may differ in order
    lateStops   \* history: the stops that found nothing to stop

servicesVars == <<svc, rqts, calls, svcThread, begun, card, met, overtaken, lateStops>>

\* The storage is stopped, or one caller has started it.
ServicesInit == \E started \in BOOLEAN, size \in BlockSizes :
    /\ svc = [count |-> IF started THEN 1 ELSE 0,   \* storage_count
              pending |-> FALSE,                    \* a start or a stop is
              info |-> [d \in Devices |-> 0],       \* storage_device_info: block_size
              rw |-> started,                       \* storage_rw_req_p is there
              wait |-> FALSE,                       \* storage_wait
              async |-> FALSE,                      \* "storage async pending"
              registered |-> started,               \* MyStorageRequestCallback
              nodes |-> <<>>,                       \* func_cbs_stor
              failed |-> FALSE]                     \* what was freed is used
    /\ rqts = <<>> /\ calls = <<>>
    /\ svcThread = [at |-> "idle", call |-> 0] /\ begun = [kind |-> "none", way |-> "none"]
    /\ met = {} /\ overtaken = {} /\ lateStops = {}
    /\ card = [running |-> started, media |-> [d \in Devices |-> size],
               mail |-> <<>>,
               told |-> TRUE,       \* no change is unacknowledged
               changes |-> 0]

\* What the library changes, as one record.
Now == [svc |-> svc, rqts |-> rqts, calls |-> calls]
Becomes(s) == svc' = s.svc /\ rqts' = s.rqts /\ calls' = s.calls

-----------------------------------------------------------------------------
(* Replies *)

Success(kind, reply) ==
    IF ~reply.ok THEN "INVALID_RESPONSE"
    ELSE CASE kind = "claim"   -> IF reply.value = 1 THEN "SUCCESS" ELSE "NOT_ACQUIRED"
           [] kind = "release" -> IF reply.value = 0 THEN "SUCCESS" ELSE "NOT_RELEASED"
           [] OTHER            -> "SUCCESS"

\* MyHandleResponseStorageStart(): what the firmware says is overwritten by the results
\* of the settings of the endpoints.
Started(s) ==
    [s EXCEPT !.svc.info = IF s.svc.count = 0 THEN [d \in Devices |-> 0] ELSE @,
              !.svc.count = @ + 1, !.svc.pending = FALSE,
              !.svc.rw = TRUE, !.svc.registered = TRUE]

\* MyHandleResponseStorageStop() frees the request of reads and writes.
Stopped(s) ==
    [s EXCEPT !.svc.count = @ - 1, !.svc.pending = FALSE, !.svc.rw = FALSE,
              !.svc.failed = @ \/ ~s.svc.rw \/ \E k \in DOMAIN rqts : rqts[k].code = "read"]

\* MyHandleResponseStorageQueryDevice(), ...QueryUnit() and CyAsGetBlockSize()
Described(s, d, reply) == IF reply.ok THEN [s EXCEPT !.svc.info[d] = reply.value] ELSE s

Handled(s, rqt, reply) ==
    CASE rqt.code = "start"                       -> Started(s)
      [] rqt.code = "stop"                        -> Stopped(s)
      [] rqt.code \in {"device", "unit", "size"}  -> Described(s, rqt.device, reply)
      [] OTHER                                    -> s

Result(code, reply) == IF code \in {"start", "stop"} THEN "SUCCESS" ELSE Success(code, reply)
Data(code, reply) == IF code \in {"bus", "device", "unit"} /\ reply.ok THEN reply.value ELSE 0

\* CyAsStorageFuncCallback(): the request says how the reply is read, and the first
\* node of func_cbs_stor whom it is for.
FuncCallback(s, rqt, reply) ==
    LET node == Head(s.svc.nodes)
        t == Handled(s, rqt, reply)
    IN  IF s.svc.nodes = <<>> THEN [s EXCEPT !.svc.failed = TRUE]
        ELSE [t EXCEPT !.calls[node].ret = Result(rqt.code, reply),
                       !.calls[node].data = Data(rqt.code, reply),
                       !.calls[node].times = @ + 1,
                       !.svc.nodes = Tail(@)]

\* CyAsAsyncStorageReplyCallback() and CyAsSyncStorageReplyCallback()
ReadReplied(s, n, reply) ==
    [s EXCEPT !.svc.wait = FALSE, !.svc.async = FALSE,
              !.calls[n].ret = IF reply.ok THEN "SUCCESS" ELSE "ERROR",
              !.calls[n].times = @ + IF s.calls[n].way = "async" THEN 1 ELSE 0]

-----------------------------------------------------------------------------
(* Calls *)

Call(kind, d, way) ==
    [kind |-> kind, device |-> d, way |-> way, ret |-> "none", data |-> 0, times |-> 0,
     size |-> 0,        \* of a read: of the blocks of its DMA
     said |-> [ok |-> FALSE, value |-> 0]]  \* the firmware's reply

\* IsStorageActive() and the tests that follow.  A call that is refused changes nothing,
\* and is not recorded.
Accepted(kind, d, way) ==
    /\ kind # "start" => svc.count # 0
    /\ kind \in {"start", "stop"} => ~svc.pending
    /\ kind = "stop" => ~svc.async
    /\ kind = "read" => ~svc.async /\ ~svc.wait
    /\ kind = "read" /\ way = "async" => svc.info[d] # 0

\* The first that starts and the last that stops ask the firmware; a start of what runs
\* and a stop of what others use are counted, no more; and what has been stopped since the
\* tests is not stopped again, nor is its callback called.
IsSent(kind) ==
    CASE kind = "start" -> svc.count = 0
      [] kind = "stop"  -> svc.count = 1
      [] OTHER          -> TRUE
Counts(kind) ==
    CASE kind = "start"                -> 1
      [] kind = "stop" /\ svc.count > 1 -> -1
      [] OTHER                         -> 0

Queue(s, code, n, d, way) ==
    [s EXCEPT !.rqts = Append(@, [code |-> code, of |-> n, device |-> d, way |-> way])]

\* CyAsStorageAsyncOper() and the end of CyAsStorageSyncOper(): the DMA request is of
\* the size known, the other one that of storage_rw_req_p.
Oper(s, n) ==
    LET c == s.calls[n]
    IN  Queue([s EXCEPT !.svc.wait = TRUE, !.calls[n].size = s.svc.info[c.device],
                        !.svc.failed = @ \/ ~s.svc.rw \/ \E k \in DOMAIN s.rqts : s.rqts[k].code = "read"],
              "read", n, c.device, c.way)

\* A call until its request is to be sent, and the node of its callback inserted.
Prepared(kind, d, way) ==
    LET n == Len(calls) + 1
        s == [Now EXCEPT !.calls = Append(@, Call(kind, d, way))]
    IN  IF ~IsSent(kind)
        THEN [s EXCEPT !.svc.count = @ + Counts(kind), !.svc.pending = FALSE, !.calls[n].ret = "SUCCESS",
                       !.calls[n].times = IF way = "async" /\ Counts(kind) # 0 THEN 1 ELSE 0]
        ELSE [s EXCEPT !.svc.pending = @ \/ kind \in {"start", "stop"},
                       !.svc.async = @ \/ (way = "async" /\ kind = "read"),
                       !.svc.nodes = IF way = "async" /\ kind # "read" THEN Append(@, n) ELSE @]

StopPending == \E n \in DOMAIN calls : calls[n].kind = "stop" /\ calls[n].ret = "none"
ReadPending == \E n \in DOMAIN calls : calls[n].kind = "read" /\ calls[n].ret = "none"
\* Its tests are done, and its request is not sent.
SyncReadBegun == svcThread.at \in {"wait", "woken", "use"} /\ calls[svcThread.call].kind = "read"

\* What a call meets, and whether it is a stop that comes too late.
IsLate(kind) == IF kind = "stop" /\ svc.count < 1 THEN {Len(calls) + 1} ELSE {}
Overlaps(kind) == (kind = "read" /\ StopPending) \/ (kind = "stop" /\ svc.count = 1 /\ ReadPending)
Meets(kind) ==
    (IF Overlaps(kind) THEN {"stop"} ELSE {})
    \cup (IF kind \in {"start", "stop"} /\ svc.pending THEN {"pending"} ELSE {})

At(place) == svcThread.at = place /\ ~svc.failed
ThreadGoes(place) == svcThread' = [svcThread EXCEPT !.at = place]

\* A call of the thread from its tests on.  A synchronous read asks for the size that is
\* not known.
CallGoes(kind, d, way) ==
    LET n == Len(calls) + 1
        s == Prepared(kind, d, way)
        unknown == svc.info[d] = 0
    IN  /\ IF s.calls[n].ret # "none" THEN Becomes(s) /\ ThreadGoes("idle")
           ELSE /\ svcThread' = [call |-> n,
                              at |-> IF kind = "read" /\ ~(way = "sync" /\ unknown) THEN "use"
                                     ELSE IF way = "sync" THEN "wait" ELSE "send"]
                /\ Becomes(IF way = "async" \/ (kind = "read" /\ ~unknown) THEN s
                           ELSE Queue(s, IF kind = "read" THEN "size" ELSE kind, n, d, "sync"))
        /\ met' = met \cup Meets(kind)
        /\ lateStops' = lateStops \cup IsLate(kind)
        /\ UNCHANGED <<card, begun, overtaken>>

CallBegins(kind, d, way) ==
    /\ At("idle") /\ kind \notin {"start", "stop"} /\ Len(calls) < KCalls
    /\ Accepted(kind, d, way) /\ CallGoes(kind, d, way)

\* CyAsStorageStart() and CyAsStorageStop() as far as their tests; and from there, where
\* they set that a start or a stop is pending, whatever has happened since.
ChangeBegins(kind, d, way) ==
    /\ At("idle") /\ kind \in {"start", "stop"} /\ Len(calls) < KCalls
    /\ Accepted(kind, d, way)
    /\ ThreadGoes("begin") /\ begun' = [kind |-> kind, way |-> way]
    /\ UNCHANGED <<svc, rqts, calls, card, met, overtaken, lateStops>>
ChangeGoesOn(d) == At("begin") /\ CallGoes(begun.kind, d, begun.way)

\* A call of a callback, in the DFC: nothing of the thread is between its tests and what
\* follows.  Its node and its request come together, whatever the thread has inserted.
CallInCallback(kind, d) ==
    LET n == Len(calls) + 1
        s == Prepared(kind, d, "async")
        sends == s.calls[n].ret = "none" /\ kind # "read"
    IN  /\ ~svc.failed /\ n <= KCalls /\ Accepted(kind, d, "async")
        /\ Becomes(IF s.calls[n].ret # "none" THEN s
                   ELSE IF kind = "read" THEN Oper(s, n) ELSE Queue(s, kind, n, d, "async"))
        /\ met' = met \cup Meets(kind) \cup (IF kind = "read" /\ SyncReadBegun THEN {"read"} ELSE {})
        /\ overtaken' = overtaken \cup (IF svcThread.at = "send" /\ sends THEN {svcThread.call, n} ELSE {})
        /\ lateStops' = lateStops \cup IsLate(kind)
        /\ UNCHANGED <<svcThread, begun, card>>

\* CyAsMiscSendRequest(), after the insertion of the node.
SendRequest ==
    LET c == calls[svcThread.call]
    IN  /\ At("send") /\ ThreadGoes("idle")
        /\ Becomes(Queue(Now, c.kind, svcThread.call, c.device, "async"))
        /\ UNCHANGED <<card, begun, met, overtaken, lateStops>>

\* The reply has left the queue: it is handled by the thread.
Woken ==
    LET c == calls[svcThread.call]
        reads == c.kind = "read"
        s == Handled(Now, [code |-> IF reads THEN "size" ELSE c.kind, device |-> c.device], c.said)
    IN  /\ At("woken")
        /\ ThreadGoes(IF reads /\ c.said.ok THEN "use" ELSE "idle")
        /\ Becomes(IF ~reads
                   THEN [s EXCEPT !.calls[svcThread.call].ret = Result(c.kind, c.said),
                                  !.calls[svcThread.call].data = Data(c.kind, c.said)]
                   ELSE IF c.said.ok THEN s
                   ELSE [s EXCEPT !.calls[svcThread.call].ret = "INVALID_RESPONSE"])
        /\ UNCHANGED <<card, begun, met, overtaken, lateStops>>

\* The request of a read; a synchronous one waits for its reply.
Use ==
    /\ At("use")
    /\ Becomes(Oper(Now, svcThread.call))
    /\ ThreadGoes(IF calls[svcThread.call].way = "sync" THEN "drain" ELSE "idle")
    /\ UNCHANGED <<card, begun, met, overtaken, lateStops>>

Drained ==
    /\ At("drain") /\ calls[svcThread.call].ret # "none" /\ ThreadGoes("idle")
    /\ UNCHANGED <<svc, rqts, calls, card, begun, met, overtaken, lateStops>>

Thread == (\E d \in Devices : ChangeGoesOn(d)) \/ SendRequest \/ Woken \/ Use \/ Drained

-----------------------------------------------------------------------------
(* The DFC *)

\* Mutant: a description outlives its medium.
Forgotten_Not(s, d) == s
Forgotten(s, d) == [s EXCEPT !.svc.info[d] = 0]

\* CY_RQT_MEDIA_CHANGED of MyStorageRequestCallback(); a request that finds no callback
\* is dropped, and not acknowledged.
Disturbs == svcThread.at \in {"woken", "use"}
MediaChanged(d) ==
    /\ met' = met \cup (IF Disturbs THEN {"change"} ELSE {})
    /\ Becomes(IF svc.registered THEN Forgotten(Now, d) ELSE Now)
    /\ card' = [card EXCEPT !.mail = Tail(@), !.told = svc.registered]
    /\ UNCHANGED <<svcThread, begun, overtaken, lateStops>>

\* Mutant: the callback that came last is called.
Replied_Last(s, rqt, reply) ==
    IF s.svc.nodes = <<>> THEN s
    ELSE FuncCallback([s EXCEPT !.svc.nodes = <<Last(@)>> \o Front(@)], rqt, reply)
Replied(s, rqt, reply) == FuncCallback(s, rqt, reply)

\* CyAsMailBoxProcessData() of a response, with the callback of the first request.
Response(reply) ==
    LET rqt == Head(rqts)
        s == [Now EXCEPT !.rqts = Tail(@), !.calls[rqt.of].said = reply]
    IN  /\ CASE rqt.code = "read"  -> Becomes(ReadReplied(s, rqt.of, reply)) /\ UNCHANGED svcThread
             [] rqt.way = "sync" /\ rqt.code # "read" -> Becomes(s) /\ ThreadGoes("woken")
             [] OTHER -> Becomes(Replied(s, rqt, reply)) /\ UNCHANGED svcThread
        /\ card' = [card EXCEPT !.mail = Tail(@)]
        /\ UNCHANGED <<begun, met, overtaken, lateStops>>

Dfc ==
    /\ card.mail # <<>> /\ ~svc.failed
    /\ LET m == Head(card.mail)
       IN  IF m.changed THEN MediaChanged(m.device) ELSE Response(m.reply)

-----------------------------------------------------------------------------
(* The firmware *)

Reply(ok, value) == [ok |-> ok, value |-> value]

Awaits == rqts # <<>> /\ \A k \in DOMAIN card.mail : card.mail[k].changed

\* What it may answer: a query with what is there.
Answers(rqt) ==
    LET size == card.media[rqt.device]
        refuses == rqt.code \in Refusals
    IN  IF ~card.running /\ rqt.code # "start" THEN {Reply(rqt.code = "stop", 0)}
        ELSE CASE rqt.code = "start"   -> {Reply(TRUE, 0)} \cup (IF refuses THEN {Reply(FALSE, 0)} ELSE {})
               [] rqt.code = "claim"   -> {Reply(TRUE, 1)} \cup (IF refuses THEN {Reply(TRUE, 0)} ELSE {})
               [] rqt.code = "release" -> {Reply(TRUE, 0)} \cup (IF refuses THEN {Reply(TRUE, 1)} ELSE {})
               [] rqt.code = "bus"     -> {Reply(TRUE, IF size = 0 THEN 0 ELSE 1)}
               [] rqt.code = "stop"    -> {Reply(TRUE, 0)}
               [] rqt.code = "read"    -> {Reply(size # 0, 0)}
               [] OTHER                -> {Reply(size # 0, size)}

FirmwareReplies ==
    /\ Awaits
    /\ \E reply \in Answers(Head(rqts)) :
         /\ card' = [card EXCEPT !.mail = Append(@, [changed |-> FALSE, device |-> Head(rqts).device,
                                                    reply |-> reply]),
                                !.running = CASE Head(rqts).code = "start" -> reply.ok \/ @
                                              [] Head(rqts).code = "stop"  -> FALSE
                                              [] OTHER                     -> @]
         /\ met' = met \cup (IF Head(rqts).code = "start" /\ ~reply.ok THEN {"refused"} ELSE {})
    /\ UNCHANGED <<svc, rqts, calls, svcThread, begun, overtaken, lateStops>>

\* A medium is inserted, removed or exchanged.
Change(d, size) ==
    /\ card.changes < KChanges /\ size # card.media[d] /\ card.told
    /\ met' = met \cup (IF ~card.running /\ Disturbs THEN {"change"} ELSE {})
    /\ card' = [card EXCEPT !.media[d] = size, !.changes = @ + 1, !.told = ~card.running,
                            !.mail = IF card.running
                                     THEN Append(@, [changed |-> TRUE, device |-> d, reply |-> Reply(TRUE, 0)])
                                     ELSE @]
    /\ UNCHANGED <<svc, rqts, calls, svcThread, begun, overtaken, lateStops>>

-----------------------------------------------------------------------------
ServicesNext ==
    \/ \E kind \in Services, d \in Devices :
           \/ CallInCallback(kind, d)
           \/ \E way \in {"sync", "async"} : CallBegins(kind, d, way) \/ ChangeBegins(kind, d, way)
    \/ Thread \/ Dfc \/ FirmwareReplies
    \/ \E d \in Devices, size \in BlockSizes \cup {0} : Change(d, size)

\* The thread, the DFC and the firmware go on.
ServicesFair == WF_servicesVars(Thread) /\ WF_servicesVars(Dfc) /\ WF_servicesVars(FirmwareReplies)
ServicesSpec == ServicesInit /\ [][ServicesNext]_servicesVars /\ ServicesFair

-----------------------------------------------------------------------------
Running == {"start", "stop"} \cap {calls[n].kind : n \in {k \in DOMAIN calls : calls[k].ret = "none"}} = {}
Announced(d) == \E k \in DOMAIN card.mail : card.mail[k].changed /\ card.mail[k].device = d

\* Whoever else asks meanwhile, from a thread or a callback: an asynchronous call is called
\* back exactly once, unless it is a stop that finds the storage stopped since its tests;
\* and a call is given the answer to its own request, unless a callback's call has come
\* between its node and its request, or between those of the thread.
CallbacksAreOwn ==
    \A n \in DOMAIN calls :
        LET c == calls[n]
        IN  /\ c.times = IF c.way = "async" /\ c.ret # "none" /\ n \notin lateStops THEN 1 ELSE 0
            /\ n \notin overtaken /\ c.kind \in {"claim", "release", "bus", "device", "unit"} /\ c.ret # "none" =>
                   c.ret = Success(c.kind, c.said) /\ c.data = Data(c.kind, c.said)

\* While the storage runs, a device's description is that of the medium there, or there is none, unless a
\* change is about to be told; reads have a size.
DescriptionIsCurrent ==
    /\ svc.count > 0 /\ card.running => \A d \in Devices : svc.info[d] \in {0, card.media[d]} \/ Announced(d)
    /\ \A k \in DOMAIN rqts : rqts[k].code = "read" => calls[rqts[k].of].size # 0

\* The count is zero exactly when the firmware's storage is stopped, and the request of
\* reads and writes is there as long as it is used.
CountIsTrue ==
    /\ ~svc.failed /\ svc.count >= 0
    /\ svc.count > 0 => svc.rw
    /\ Running => (svc.count > 0) = card.running

\* Both, in every order of starts, stops, queries, reads and changes of media, until one of
\* the things happens that the code leaves open: each of them breaks it (README).
ServicesAreTrue == met = {} /\ overtaken = {} => DescriptionIsCurrent /\ CountIsTrue

\* Every call ends, unless what was freed is used.
Unended == {n \in DOMAIN calls : calls[n].ret = "none"}
ServicesEnd == Unended # {} ~> Unended = {} \/ svc.failed
=============================================================================
