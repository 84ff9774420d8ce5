----------------------------- MODULE WbStorage -----------------------------
(***************************************************************************)
(* Reads and writes of the West Bridge's storage: the synchronous and the  *)
(* asynchronous operation (wb/api/src/cyasstorage.c), the DMA queue of the *)
(* endpoint (cyasdma.c) and the HAL that moves the blocks                  *)
(* (wb/api/hal/cyashalbeagleboard.cpp).  An operation is a request to the  *)
(* firmware, whose reply comes by the mailbox, and a DMA request, whose    *)
(* blocks the firmware asks for: either may end first or fail.             *)
(*                                                                         *)
(* The callbacks run in the DFC of the chip's interrupt, to their end; the *)
(* thread is preempted between its steps.                                  *)
(*                                                                         *)
(* External: the firmware, and the caller, who has one operation prepared  *)
(* at a time.  The mailbox's queues are those of WbLowLevel: a reply goes  *)
(* to the request that waits, if there is one.                             *)
(***************************************************************************)
EXTENDS Integers, SequencesExt

CONSTANTS
    StorageKinds,   \* "sync", "async"
    Sizes,          \* blocks of an operation
    Failures,       \* replies other than success: "ERROR" or "INVALID_RESPONSE"
    LateStarts,     \* the firmware may ask for the blocks while the thread cancels
    KOps            \* operations

Endpoints == {"read", "write"}

VARIABLES
    dev,        \* CyAsDevice: what it knows of the operation
    dma,        \* [endpoint -> CyAsDmaEndPoint and the HAL's endpoint]
    ops,        \* the operations so far, with their results
    caller,     \* where the thread is
    storageCard \* the firmware: requests, and progress of the first one

storageVars == <<dev, dma, ops, caller, storageCard>>

StorageInit ==
    /\ dev = [storage_wait |-> FALSE, storage_error |-> "SUCCESS", storage_oper |-> "read",
              async_pending |-> FALSE, storage_cb |-> 0,
              rqt |-> 0,        \* the operation whose request waits for its reply
              failed |-> FALSE] \* a null pointer was used
    /\ dma = [e \in Endpoints |->
                [queue |-> <<>>, enabled |-> TRUE, running |-> FALSE, in_transit |-> FALSE,
                 drq |-> FALSE, buffer_valid |-> FALSE, misordered |-> FALSE]]
    /\ ops = <<>>
    /\ caller = [at |-> "idle", op |-> 0, ret |-> "SUCCESS"]
    /\ storageCard = [rqts |-> <<>>, asked |-> FALSE, moved |-> 0]

\* What the callbacks change, as one record.
StorageNow == [dev |-> dev, dma |-> dma, ops |-> ops]
StorageBecomes(s) == dev' = s.dev /\ dma' = s.dma /\ ops' = s.ops

-----------------------------------------------------------------------------
(* The callbacks *)

\* The callback is taken for granted (CyAsHalAssert()).
UserCallback(s, ret) ==
    IF s.dev.storage_cb = 0 THEN [s EXCEPT !.dev.failed = TRUE] ELSE
    [s EXCEPT !.ops[s.dev.storage_cb].ret = ret, !.ops[s.dev.storage_cb].calls = @ + 1,
              !.dev.storage_cb = 0]

\* The result that comes second is reported, unless it is a success: then the first.
Worst(s, ret) == IF ret = "SUCCESS" THEN s.dev.storage_error ELSE ret

\* Mutant: the reply is not awaited.
RepliedFirst_Always(s) == TRUE
RepliedFirst(s) == ~s.dev.storage_wait

\* CyAsAsyncStorageCallback() and CyAsSyncStorageCallback(), of a DMA request.
DmaCallback(s, op, ret) ==
    IF s.ops[op].kind = "sync" THEN [s EXCEPT !.dev.storage_error = ret]
    ELSE LET t == [s EXCEPT !.dev.async_pending = FALSE]
         IN  IF RepliedFirst(t) THEN UserCallback(t, Worst(t, ret))
             ELSE [t EXCEPT !.dev.storage_error = ret]

\* CyAsDmaCancel(): the HAL and the interrupts of the endpoint first, then the queue.
Halted(s, e) ==
    [s EXCEPT !.dma[e].drq = FALSE, !.dma[e].running = FALSE, !.dma[e].in_transit = FALSE,
              !.dma[e].buffer_valid = @ /\ ~s.dma[e].in_transit]
Emptied(s, e, err) ==
    LET q == s.dma[e].queue
        t == [s EXCEPT !.dma[e].queue = <<>>]
    IN  IF q = <<>> THEN t ELSE DmaCallback(t, Head(q).op, err)
DmaCancelled(s, e, err) == Emptied(Halted(s, e), e, err)

\* CyAsSyncStorageReplyCallback() and CyAsAsyncStorageReplyCallback(): only an error of
\* the firmware cancels the DMA of a synchronous operation.
ReplyCallback(s, ret) ==
    LET op == s.ops[s.dev.rqt]
        sync == op.kind = "sync"
        cancels == IF sync THEN ret = "ERROR" ELSE ret # "SUCCESS"
        t == [IF cancels THEN DmaCancelled(s, op.ep, ret) ELSE s
                 EXCEPT !.dev.rqt = 0, !.dev.storage_wait = FALSE]
    IN  IF ~sync /\ ~t.dev.async_pending THEN UserCallback(t, Worst(t, ret))
        ELSE [t EXCEPT !.dev.storage_error = ret]

\* CyAsDmaSendNextDmaRequest() with CyAsHalDmaSetupRead() or CyAsHalDmaSetupWrite(),
\* which assert that the buffer before has been serviced.
SendNextDma(s, e) ==
    IF s.dma[e].queue = <<>> THEN [s EXCEPT !.dma[e].drq = FALSE]
    ELSE [s EXCEPT !.dma[e].running = TRUE, !.dma[e].in_transit = TRUE,
                   !.dma[e].misordered = @ \/ s.dma[e].buffer_valid,
                   !.dma[e].buffer_valid = TRUE, !.dma[e].drq = TRUE]

AllMoved(r) == r.offset + 1 = r.size

\* CyAsDmaCompletedCallback() of a block takes an entry of the queue for granted;
\* rqt: the request whose block it is.
Completed(s, e, rqt) ==
    IF s.dma[e].queue = <<>> THEN [s EXCEPT !.dev.failed = TRUE] ELSE
    LET r == Head(s.dma[e].queue)
        t == [s EXCEPT !.dma[e].buffer_valid = FALSE,
                       !.ops[r.op].moved = @ + IF r.op = rqt THEN 1 ELSE 0]
        last == [t EXCEPT !.dma[e].in_transit = FALSE, !.dma[e].queue = Tail(@),
                          !.dma[e].drq = FALSE, !.dma[e].running = FALSE]
    IN  IF AllMoved(r) THEN DmaCallback(last, r.op, "SUCCESS")
        ELSE SendNextDma([t EXCEPT !.dma[e].queue[1].offset = @ + 1], e)

-----------------------------------------------------------------------------
(* The caller's thread: CyAsStorageSyncOper() and CyAsStorageAsyncOper() *)

ThreadAt(place) == caller.at = place /\ ~dev.failed
Goes(place) == caller' = [caller EXCEPT !.at = place]
Op == ops[caller.op]

Busy == dev.async_pending \/ dev.storage_wait

\* The tests, the marks of an operation and CyAsDmaQueueRequest().
BeginOper(kind, e, size) ==
    LET n == Len(ops) + 1
        New(ret) == ops' = Append(ops, [kind |-> kind, ep |-> e, size |-> size, ret |-> ret,
                                        calls |-> 0, moved |-> 0])
    IN  /\ ThreadAt("idle") /\ Len(ops) < KOps
        /\ IF Busy THEN New("ASYNC_PENDING") /\ UNCHANGED <<dev, dma, caller>>
           ELSE /\ New("none")
                /\ dma' = [dma EXCEPT ![e].queue =
                             Append(@, [op |-> n, size |-> size, offset |-> 0])]
                /\ dev' = [dev EXCEPT !.storage_oper = e, !.async_pending = kind = "async",
                                      !.storage_cb = IF kind = "async" THEN n ELSE @]
                /\ caller' = [at |-> "send", op |-> n, ret |-> "SUCCESS"]
        /\ UNCHANGED storageCard

\* CyAsLLSendRequest() sends it, or tells the callback that it could not.
Sent == IF Op.kind = "sync" THEN "drain" ELSE "idle"
SendOperation ==
    /\ ThreadAt("send") /\ Goes(Sent)
    /\ dev' = [dev EXCEPT !.storage_wait = TRUE, !.rqt = caller.op]
    /\ storageCard' = [storageCard EXCEPT !.rqts = Append(@, [op |-> caller.op, ep |-> Op.ep, size |-> Op.size])]
    /\ UNCHANGED <<dma, ops>>
SendTimeout ==
    /\ ThreadAt("send") /\ Goes(Sent)
    /\ StorageBecomes(ReplyCallback([StorageNow EXCEPT !.dev.storage_wait = TRUE, !.dev.rqt = caller.op], "TIMEOUT"))
    /\ UNCHANGED storageCard

\* CyAsDmaDrainQueue(): the endpoint takes no requests until its queue is empty.
Drain ==
    /\ ThreadAt("drain") /\ Goes(IF dma[Op.ep].queue = <<>> THEN "reply" ELSE "sleep")
    /\ dma' = [dma EXCEPT ![Op.ep].enabled = dma[Op.ep].queue = <<>>]
    /\ UNCHANGED <<dev, ops, storageCard>>
QueueDrained ==
    /\ ThreadAt("sleep") /\ dma[Op.ep].queue = <<>> /\ Goes("reply")
    /\ dma' = [dma EXCEPT ![Op.ep].in_transit = FALSE, ![Op.ep].running = FALSE,
                          ![Op.ep].enabled = TRUE]
    /\ UNCHANGED <<dev, ops, storageCard>>

\* After 10 seconds it is cancelled; the DFC may come before the queue is emptied.
DrainTimeout ==
    /\ ThreadAt("sleep") /\ dma[Op.ep].queue # <<>> /\ Goes("cancel")
    /\ StorageBecomes(Halted(StorageNow, Op.ep))
    /\ UNCHANGED storageCard
CancelQueue ==
    /\ ThreadAt("cancel")
    /\ StorageBecomes([Emptied(StorageNow, Op.ep, "TIMEOUT") EXCEPT !.dma[Op.ep].enabled = TRUE])
    /\ caller' = [caller EXCEPT !.at = "reply", !.ret = "TIMEOUT"]
    /\ UNCHANGED storageCard

Ends(ret) == ops' = [ops EXCEPT ![caller.op].ret = ret]
OperResult == IF caller.ret = "SUCCESS" THEN dev.storage_error ELSE caller.ret

OperReply ==
    /\ ThreadAt("reply") /\ ~dev.storage_wait /\ Goes("idle")
    /\ Ends(OperResult)
    /\ UNCHANGED <<dev, dma, storageCard>>

\* After 2 seconds more the request is removed from its queue.
ReplyTimeout ==
    /\ ThreadAt("reply") /\ dev.storage_wait /\ Goes("idle")
    /\ Ends("TIMEOUT")
    /\ dev' = [dev EXCEPT !.storage_wait = FALSE, !.rqt = 0, !.storage_error = "CANCELED"]
    /\ UNCHANGED <<dma, storageCard>>

-----------------------------------------------------------------------------
(* The firmware, and the DFC it has run *)

Serves == storageCard.rqts # <<>> /\ ~dev.failed
Rqt == Head(storageCard.rqts)

\* CY_RQT_P2S_DMA_START: the endpoint of the last operation is started
\* (MyStorageRequestCallback(), CyAsDmaKickStart()).
DmaStart ==
    LET e == dev.storage_oper
    IN  /\ Serves /\ ~storageCard.asked /\ (ThreadAt("cancel") => LateStarts)
        /\ storageCard' = [storageCard EXCEPT !.asked = TRUE]
        /\ StorageBecomes(SendNextDma([StorageNow EXCEPT !.dma[e].running = FALSE], e))
        /\ UNCHANGED caller

\* CyHandleDRQInterrupt(): a block.
Drq ==
    /\ Serves /\ storageCard.asked /\ storageCard.moved < Rqt.size /\ dma[Rqt.ep].drq
    /\ storageCard' = [storageCard EXCEPT !.moved = @ + 1]
    /\ StorageBecomes(Completed(StorageNow, Rqt.ep, Rqt.op))
    /\ UNCHANGED caller

\* The reply: success when the blocks have moved.
Answer(ret) ==
    /\ Serves /\ (ret = "SUCCESS" => storageCard.moved = Rqt.size)
    /\ storageCard' = [rqts |-> Tail(storageCard.rqts), asked |-> FALSE, moved |-> 0]
    /\ IF dev.rqt = 0 THEN UNCHANGED <<dev, dma, ops>> ELSE StorageBecomes(ReplyCallback(StorageNow, ret))
    /\ UNCHANGED caller

-----------------------------------------------------------------------------
OperThread == SendOperation \/ Drain \/ QueueDrained \/ DrainTimeout \/ CancelQueue \/ OperReply \/ ReplyTimeout
Card == DmaStart \/ Drq \/ \E ret \in {"SUCCESS"} \cup Failures : Answer(ret)

StorageNext ==
    \/ \E kind \in StorageKinds, e \in Endpoints, size \in Sizes : BeginOper(kind, e, size)
    \/ OperThread \/ SendTimeout
    \/ Card

\* The thread's loops are counted, so its timeouts come; the firmware goes on, or
\* gives up.
StorageFair == WF_storageVars(OperThread) /\ WF_storageVars(Card)
StorageSpec == StorageInit /\ [][StorageNext]_storageVars /\ StorageFair

-----------------------------------------------------------------------------
StorageTypeOK ==
    /\ dev.rqt \in 0..Len(ops) /\ dev.storage_cb \in 0..Len(ops)
    /\ \A e \in Endpoints : Len(dma[e].queue) <= 1
    /\ caller.at \in {"idle", "send", "drain", "sleep", "cancel", "reply"}

\* After a timeout the firmware still serves the request it was given.
TimedOutBefore(i) == \E j \in 1..(i - 1) : ops[j].ret = "TIMEOUT"

\* Whichever of the reply and the DMA ends first or fails: an operation that succeeds
\* has moved all its blocks, its own ones, an asynchronous one has its callback called
\* once, no callback uses what is not there, and the HAL is given no block before it
\* has done the one before ("an ordering problem", CyAsHalDmaSetupWrite()).  All of this as long as no operation
\* before has timed out: nothing tells the firmware to give up its request, and its
\* blocks and its reply are then taken for the next operation's (cyasstorage.c).
StorageResultIsTrue ==
    /\ \A i \in DOMAIN ops : ~TimedOutBefore(i) =>
        /\ ops[i].ret = "SUCCESS" => ops[i].moved = ops[i].size
        /\ ops[i].kind = "async" /\ ops[i].ret # "ASYNC_PENDING" =>
               ops[i].calls = IF ops[i].ret = "none" THEN 0 ELSE 1
    /\ ~TimedOutBefore(Len(ops)) =>
           ~dev.failed /\ \A e \in Endpoints : ~dma[e].misordered

\* Operations end, by the firmware or by the thread's timeouts, unless one before has
\* timed out.
UnendedOpers == {i \in DOMAIN ops : ops[i].ret = "none" /\ ~TimedOutBefore(i)}
StorageEnds == UnendedOpers # {} ~> UnendedOpers = {}
=============================================================================
