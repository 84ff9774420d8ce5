----------------------------- MODULE WbLowLevel -----------------------------
(***************************************************************************)
(* The mailbox of the West Bridge chip (wb/api/src/cyaslowlevel.c): the    *)
(* requests of the thread, queued by context, their responses, and the     *)
(* requests of the firmware, each answered by its callback.                *)
(*                                                                         *)
(* The DFC of the chip's interrupt preempts the thread, except where the   *)
(* thread has masked the chip's interrupts.  Either may wait in            *)
(* CyAsSendOne() while the firmware goes on, so what runs is a stack of    *)
(* calls whose top goes on.                                                *)
(*                                                                         *)
(* External: the thread, which sends each request once, one call at a time *)
(* (the storage driver holds WbApiMutex), and the firmware.  The firmware  *)
(* waits until its own message is read before it takes another one, which  *)
(* is the deadlock that the comment of CyAsReadIntrStatus() speaks of.     *)
(***************************************************************************)
EXTENDS Integers, SequencesExt

CONSTANTS
    KContexts,      \* CY_RQT_CONTEXT_COUNT: contexts are numbered from 0
    Rqts,           \* the requests of the thread
    RqtContext,     \* [Rqts -> context]
    RqtParts,       \* [Rqts -> mailboxes that the request fills]
    RespParts,      \* [Rqts -> mailboxes that its response fills]
    Waited,         \* those sent by CyAsLLSendRequestWaitReply()
    Events,         \* [context -> sequence: mailboxes of the firmware's requests]
    KSendTimeouts,  \* times that the firmware lets a mailbox lie for too long
    KReplyTimeouts, \* times that a reply takes longer than the thread waits
    NoPart

Ctxts == 0..(KContexts - 1)

VARIABLES
    ll,         \* the contexts: queues, data queues, requests being received
    box,        \* the mailboxes: to the firmware (MCU) and to the host (P0)
    frames,     \* the calls that run, the last one on top
    firmware,   \* what it is saying, has received and has asked for
    results,    \* [Rqts -> the result its callback was given, with the response]
    events,     \* [context -> the requests given to the request callback]
    late        \* timeouts so far

llVars == <<ll, box, frames, firmware, results, events, late>>

\* A message fills mailboxes one after another, the last one marked.
Message(kind, c, of, n) ==
    [k \in 1..n |-> [kind |-> kind, ctx |-> c, of |-> of, n |-> k, last |-> k = n]]
RequestMessage(r) == Message("rqt", RqtContext[r], r, RqtParts[r])
ResponseMessage(r) == Message("resp", RqtContext[r], r, RespParts[r])
EventMessage(c, k) == Message("rqt", c, k, Events[c][k])
StatusMessage(c, k) == Message("resp", c, k, 1)

LlInit ==
    /\ ll = [queue |-> [c \in Ctxts |-> <<>>],          \* request_queue_p
             has_last |-> [c \in Ctxts |-> TRUE],       \* last_node_p is in the queue
             data_queue |-> [c \in Ctxts |-> <<>>],
             rqt_index |-> [c \in Ctxts |-> 0],         \* in mailboxes, of four words
             req |-> [c \in Ctxts |-> <<>>],            \* req_p: what is stored
             queued_data |-> FALSE]
    /\ box = [mcu |-> NoPart, p0 |-> NoPart]
    /\ frames = <<>>
    /\ firmware = [says |-> <<>>, part |-> [c \in Ctxts |-> <<>>], open |-> {},
                   asked |-> [c \in Ctxts |-> 0], waits |-> [c \in Ctxts |-> FALSE]]
    /\ results = [r \in Rqts |-> [ret |-> "not sent", resp |-> <<>>]]
    /\ events = [c \in Ctxts |-> <<>>]
    /\ late = [send |-> 0, reply |-> 0]

Top == Last(frames)
Runs(op) == frames # <<>> /\ Top.op = op
Pops == frames' = Front(frames)
TopBecomes(f) == frames' = Append(Front(frames), f)
Calls(f, g) == frames' = Front(frames) \o <<f, g>>

\* Frames: the wait of the thread, CyAsLLSendNextRequest(), CyAsSendOne() and
\* CyAsMailBoxQueuedDataHandler(), which runs with interrupts masked or in the DFC.
Wait(r) == [op |-> "wait", rqt |-> r]
SendNext(c) == [op |-> "next", ctx |-> c]
SendOne(parts) == [op |-> "one", parts |-> parts]
Handler(at, c) == [op |-> "handler", at |-> at, ctx |-> c]

Crashed == [op |-> "crashed"]
Masked == \E k \in DOMAIN frames :
    frames[k] = Crashed \/ (frames[k].op = "handler" /\ frames[k].at # "entry")

-----------------------------------------------------------------------------
(* Sending *)

\* CyAsLLSendRequest(): the node is queued, the next one sent if it can be, and
\* what the sending has queued is processed.  A node is added behind last_node_p,
\* which may have been freed: the node is then not in the queue.
LLSendRequest(r) ==
    LET c == RqtContext[r]
        q == ll.queue[c]
        node == [rqt |-> r, state |-> "QUEUED", resp |-> <<>>]
        calls == <<Handler("entry", 0), SendNext(c)>>
    IN  /\ frames = <<>> /\ results[r].ret = "not sent"
        /\ results' = [results EXCEPT ![r].ret = "sent"]
        /\ ll' = IF q = <<>>
                 THEN [ll EXCEPT !.queue[c] = <<node>>, !.has_last[c] = TRUE]
                 ELSE IF ll.has_last[c] THEN [ll EXCEPT !.queue[c] = Append(q, node)] ELSE ll
        /\ frames' = IF r \in Waited THEN <<Wait(r)>> \o calls ELSE calls
        /\ UNCHANGED <<box, firmware, events, late>>

\* Mutant: the head is tested for the other state.
Sendable_Waiting(q) == q # <<>> /\ Head(q).state = "WAITING"
Sendable(q) == q # <<>> /\ Head(q).state = "QUEUED"

\* CyAsLLSendNextRequest(), from its loop's start to the call of CyAsSendOne().
SendNextRequest ==
    LET c == Top.ctx
        q == ll.queue[c]
    IN  /\ Runs("next")
        /\ IF Sendable(q)
           THEN /\ ll' = [ll EXCEPT !.queue[c][1].state = "WAITING"]
                /\ Calls(Top, SendOne(RequestMessage(Head(q).rqt)))
           ELSE Pops /\ UNCHANGED ll
        /\ UNCHANGED <<box, firmware, results, events, late>>

\* CyAsLLQueueMailboxData()
Queued(part) ==
    [ll EXCEPT !.data_queue[part.ctx] = Append(@, part), !.queued_data = TRUE]

\* CyAsReadIntrStatus(), called until the firmware has taken the mailbox: what the
\* firmware says meanwhile is queued for later.
ReadIntrStatus ==
    /\ Runs("one") /\ box.p0 # NoPart
    /\ ll' = Queued(box.p0)
    /\ box' = [box EXCEPT !.p0 = NoPart]
    /\ UNCHANGED <<frames, firmware, results, events, late>>

\* The mailbox is found free with interrupts masked, and filled.  Once a request is
\* sent, CyAsLLSendNextRequest() returns too.
WriteMailbox ==
    /\ Runs("one") /\ box.mcu = NoPart
    /\ LET part == Head(Top.parts)
           sent == Front(frames)
       IN  /\ box' = [box EXCEPT !.mcu = part]
           /\ frames' = IF ~part.last THEN Append(sent, SendOne(Tail(Top.parts)))
                        ELSE IF part.kind = "rqt" THEN Front(sent) ELSE sent
    /\ UNCHANGED <<ll, firmware, results, events, late>>

\* CyAsSendOne() gives up: a request's callback is told, the head of the queue is
\* removed, which is taken for granted, and the next one is tried; of a response
\* nothing more is heard.
LLSendTimeout ==
    /\ Runs("one") /\ box.mcu # NoPart /\ late.send < KSendTimeouts
    /\ late' = [late EXCEPT !.send = @ + 1]
    /\ LET part == Head(Top.parts)
           c == part.ctx
       IN  IF part.kind = "resp" THEN Pops /\ UNCHANGED <<ll, results>>
           ELSE /\ results' = [results EXCEPT ![part.of].ret = "TIMEOUT"]
                /\ ll' = [ll EXCEPT !.queue[c] = SubSeq(@, 2, Len(@))]
                /\ IF ll.queue[c] = <<>> THEN TopBecomes(Crashed) ELSE Pops
    /\ UNCHANGED <<box, firmware, events>>

-----------------------------------------------------------------------------
(* Receiving *)

\* CyAsHalDisableInterrupts() keeps the DFC away; elsewhere it preempts the thread.
\* CyAsMailBoxInterruptHandler() queues the mailbox and processes what is queued.
MailBoxInterrupt ==
    /\ box.p0 # NoPart /\ ~Masked
    /\ ll' = [Queued(box.p0) EXCEPT !.queued_data = FALSE]
    /\ box' = [box EXCEPT !.p0 = NoPart]
    /\ frames' = Append(frames, Handler("start", 0))
    /\ UNCHANGED <<firmware, results, events, late>>

\* Mutant: the index stays behind the message that is moved out.
Restart_Not(index) == index
Restart(index) == 0

\* A complete message is moved out of the queue before its callback is called, so
\* that what the callback's sending queues has room: the handler goes on at 0.
MovedOut(c, index) ==
    [ll EXCEPT !.data_queue[c] = SubSeq(@, index + 1, Len(@)), !.rqt_index[c] = Restart(index)]

\* CyAsMailBoxProcessData() of a response: the head of the queue gets it, if it waits
\* for one.
ProcessResponse(c, index, part) ==
    LET q == ll.queue[c]
        resp == Append(Head(q).resp, part)
        at == [ll EXCEPT !.rqt_index[c] = index]
    IN  /\ IF q = <<>> \/ Head(q).state # "WAITING"
           THEN ll' = at /\ TopBecomes(Handler("more", c)) /\ UNCHANGED results
           ELSE IF ~part.last
           THEN /\ ll' = [at EXCEPT !.queue[c][1].resp = resp]
                /\ TopBecomes(Handler("more", c)) /\ UNCHANGED results
           ELSE /\ ll' = [MovedOut(c, index) EXCEPT !.queue[c] = Tail(@)]
                /\ results' = [results EXCEPT ![Head(q).rqt] = [ret |-> "SUCCESS", resp |-> resp]]
                /\ Calls(Handler("more", c), SendNext(c))
        /\ UNCHANGED events

\* And of a request: the callback of the context answers it (MyStorageRequestCallback()
\* and the others).
ProcessRequest(c, index, part) ==
    LET req == Append(ll.req[c], part)
    IN  /\ IF ~part.last
           THEN /\ ll' = [ll EXCEPT !.rqt_index[c] = index, !.req[c] = req]
                /\ TopBecomes(Handler("more", c)) /\ UNCHANGED events
           ELSE /\ ll' = [MovedOut(c, index) EXCEPT !.req[c] = <<>>]
                /\ events' = [events EXCEPT ![c] = Append(@, req)]
                /\ Calls(Handler("more", c), SendOne(StatusMessage(c, part.of)))
        /\ UNCHANGED results

\* CyAsMailBoxQueuedDataHandler(): entered, one mailbox of a context, or its end.
EnterHandler ==
    /\ Runs("handler") /\ Top.at = "entry"
    /\ IF ll.queued_data
       THEN /\ ll' = [ll EXCEPT !.queued_data = FALSE]
            /\ TopBecomes(Handler("start", 0))
       ELSE Pops /\ UNCHANGED ll
    /\ UNCHANGED <<box, firmware, results, events, late>>

Offset == IF Top.at = "start" THEN 0 ELSE ll.rqt_index[Top.ctx]

ProcessData ==
    /\ Runs("handler") /\ Top.at # "entry" /\ Offset < Len(ll.data_queue[Top.ctx])
    /\ LET part == ll.data_queue[Top.ctx][Offset + 1]
       IN  IF part.kind = "resp" THEN ProcessResponse(Top.ctx, Offset + 1, part)
           ELSE ProcessRequest(Top.ctx, Offset + 1, part)
    /\ UNCHANGED <<box, firmware, late>>

NextContext ==
    LET c == Top.ctx
        again == c = KContexts - 1 /\ ll.queued_data
    IN  /\ Runs("handler") /\ Top.at # "entry" /\ Offset >= Len(ll.data_queue[c])
        /\ ll' = [ll EXCEPT !.data_queue[c] = <<>>,
                            !.queued_data = IF again THEN FALSE ELSE @]
        /\ IF again THEN TopBecomes(Handler("start", 0))
           ELSE IF c = KContexts - 1 THEN Pops
           ELSE TopBecomes(Handler("start", c + 1))
        /\ UNCHANGED <<box, firmware, results, events, late>>

-----------------------------------------------------------------------------
(* CyAsLLSendRequestWaitReply() *)

IsInQueue(r) == \E k \in DOMAIN ll.queue[RqtContext[r]] : ll.queue[RqtContext[r]][k].rqt = r

ReplyCame ==
    /\ Runs("wait") /\ ~IsInQueue(Top.rqt)
    /\ Pops
    /\ UNCHANGED <<ll, box, firmware, results, events, late>>

\* CyAsLLRemoveRequest(), forced: the request may be on its way, the one behind it is
\* not sent, and last_node_p is left.
LLReplyTimeout ==
    /\ Runs("wait") /\ IsInQueue(Top.rqt) /\ late.reply < KReplyTimeouts
    /\ late' = [late EXCEPT !.reply = @ + 1]
    /\ Pops
    /\ LET r == Top.rqt
           c == RqtContext[r]
           q == ll.queue[c]
           at == CHOOSE k \in DOMAIN q : q[k].rqt = r
       IN  /\ ll' = [ll EXCEPT !.queue[c] = RemoveAt(q, at),
                               !.has_last[c] = @ /\ (at < Len(q) \/ Len(q) = 1)]
           /\ results' = [results EXCEPT ![r].ret = "CANCELED"]
    /\ UNCHANGED <<box, firmware, events>>

-----------------------------------------------------------------------------
(* The firmware *)

Says(message) == firmware.says = <<>> /\ firmware' = [firmware EXCEPT !.says = message]

FirmwarePuts ==
    /\ firmware.says # <<>> /\ box.p0 = NoPart
    /\ box' = [box EXCEPT !.p0 = Head(firmware.says)]
    /\ firmware' = [firmware EXCEPT !.says = Tail(@)]
    /\ UNCHANGED <<ll, frames, results, events, late>>

\* A message is put together by context; the first part starts another one.
FirmwareTakes ==
    LET part == box.mcu
        whole == IF part.n = 1 THEN <<part>> ELSE Append(firmware.part[part.ctx], part)
    IN  /\ part # NoPart /\ firmware.says = <<>> /\ box.p0 = NoPart
        /\ box' = [box EXCEPT !.mcu = NoPart]
        /\ firmware' = IF part.kind = "resp"
                       THEN [firmware EXCEPT !.waits[part.ctx] = FALSE]
                       ELSE [firmware EXCEPT !.part[part.ctx] = IF part.last THEN <<>> ELSE whole,
                                             !.open = IF part.last THEN @ \cup {part.of} ELSE @]
        /\ UNCHANGED <<ll, frames, results, events, late>>

FirmwareAnswers(r) ==
    /\ r \in firmware.open /\ firmware.says = <<>>
    /\ firmware' = [firmware EXCEPT !.says = ResponseMessage(r), !.open = @ \ {r}]
    /\ UNCHANGED <<ll, box, frames, results, events, late>>

\* The next request of a context waits for the response to the one before.
FirmwareAsks(c) ==
    LET k == firmware.asked[c] + 1
    IN  /\ k <= Len(Events[c]) /\ ~firmware.waits[c] /\ firmware.says = <<>>
        /\ firmware' = [firmware EXCEPT !.says = EventMessage(c, k), !.asked[c] = k, !.waits[c] = TRUE]
        /\ UNCHANGED <<ll, box, frames, results, events, late>>

-----------------------------------------------------------------------------
Host == \/ SendNextRequest \/ ReadIntrStatus \/ WriteMailbox \/ EnterHandler
        \/ ProcessData \/ NextContext \/ ReplyCame
Firmware == FirmwarePuts \/ FirmwareTakes \/ \E r \in Rqts : FirmwareAnswers(r)

LlNext ==
    \/ \E r \in Rqts : LLSendRequest(r)
    \/ Host \/ MailBoxInterrupt \/ LLSendTimeout \/ LLReplyTimeout
    \/ Firmware \/ \E c \in Ctxts : FirmwareAsks(c)

\* What runs goes on, as does the firmware; the DFC runs when it may.  Nobody has to
\* send a request or to time out.
LlFair == WF_llVars(Host) /\ WF_llVars(MailBoxInterrupt) /\ WF_llVars(Firmware)
LlSpec == LlInit /\ [][LlNext]_llVars /\ LlFair

-----------------------------------------------------------------------------
Results == {"not sent", "sent", "SUCCESS", "TIMEOUT", "CANCELED"}
LlTypeOK ==
    /\ \A c \in Ctxts : \A k \in DOMAIN ll.queue[c] :
           ll.queue[c][k].rqt \in Rqts /\ ll.queue[c][k].state \in {"QUEUED", "WAITING"}
    /\ ll.queued_data \in BOOLEAN
    /\ \A r \in Rqts : results[r].ret \in Results

\* A successful request has the response to itself, whole: the callback of the request
\* that generated the response is the one that is called (CyAsMailBoxInterruptHandler()).
\* A reply that comes after the thread has given up waiting for it breaks this.
ResponseIsOwn ==
    \A r \in Rqts : results[r].ret = "SUCCESS" => results[r].resp = ResponseMessage(r)

\* Whatever is queued while somebody waits for the mailbox, each request of the
\* firmware reaches its callback once, whole and in order, and as long as no reply is
\* late each response reaches its own request; the queue holds the requests that are
\* still to be answered, so none is forgotten (cyaslowlevel.c).
MailboxIsTrue ==
    /\ \A c \in Ctxts : /\ Len(events[c]) <= firmware.asked[c]
                        /\ \A k \in DOMAIN events[c] : events[c][k] = EventMessage(c, k)
    /\ late.reply = 0 =>
           ResponseIsOwn /\ \A r \in Rqts : results[r].ret = "sent" => IsInQueue(r)

\* Requests that are sent are answered or given up: the host and the firmware never
\* wait for each other, because who waits for the mailbox reads the other one
\* (CyAsReadIntrStatus()).  A late reply leaves requests behind: CyAsLLRemoveRequest()
\* does not send the next one.
Unanswered == {r \in Rqts : results[r].ret = "sent"}
RequestsAnswered == Unanswered # {} ~> Unanswered = {} \/ late.reply > 0
=============================================================================
