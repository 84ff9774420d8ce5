------------------------------ MODULE WbControl ------------------------------
(***************************************************************************)
(* Control transfers over the West Bridge: setup packets come as requests  *)
(* of the firmware, the driver answers them with data, a stall or other    *)
(* requests, and the library acknowledges the packet when that is done     *)
(* (wb/api/src/cyasusb.c, the mailbox part of cyasdma.c, and               *)
(* wb/drivers/cyasusbinit.cpp).  While an answer is under way the          *)
(* acknowledgement is delayed; usb_delay_ack_count counts what delays it.  *)
(*                                                                         *)
(* Everything here runs in the DFC of the chip's interrupt, to its end.    *)
(* The library's functions are operators from a record to a record.        *)
(* Errors are left out: the stack is active and memory is there.  The      *)
(* mailbox is a sequence in each direction (WbLowLevel).                   *)
(*                                                                         *)
(* External: the firmware and the host.  The firmware replies to each      *)
(* request, but drops data and acknowledgements that it finds before the   *)
(* status response of its next setup packet: it has "already terminated    *)
(* this transfer" (CyAsLLRemoveEpDataRequests()).                          *)
(***************************************************************************)
EXTENDS Integers, SequencesExt

CONSTANTS
    PacketKinds,    \* subset of "write", "plain", "stall", "feature", "config"
    KParts,         \* EP_DATA requests of a write at most
    GivesUp,        \* kinds whose transfer the host may abandon
    KPackets,
    KResets

VARIABLES
    usb,        \* CyAsDevice: what it knows of endpoint 0
    ctlRqts,    \* the USB context's requests, the first one sent
    mcu, mail,  \* messages to the firmware and to the host processor
    fw          \* the firmware: the packets, what it has got for each, resets

controlVars == <<usb, ctlRqts, mcu, mail, fw>>

ControlInit ==
    /\ usb = [delay_ack |-> 0,      \* usb_delay_ack_count
              setup |-> FALSE, ep0_stalled |-> FALSE,
              async |-> FALSE,      \* the endpoint's "async pending"
              cb |-> 0,             \* usb_cb[0]: the packet whose write it ends
              pending |-> 0,        \* usb_pending_buffer, likewise
              cbs |-> <<>>,         \* func_cbs_usb
              queue |-> <<>>, running |-> FALSE,    \* the endpoint's DMA queue
              dma_req |-> TRUE,     \* usb_ep0_dma_req is there
              calls |-> [k \in 1..KPackets |-> 0],  \* of SetupWriteCallback()
              failed |-> FALSE]     \* an assertion failed
    /\ ctlRqts = <<>> /\ mcu = <<>> /\ mail = <<>>
    /\ fw = [packets |-> <<>>, got |-> [k \in 1..KPackets |-> <<>>],
             event |-> FALSE,       \* a request of its own is not answered
             resets |-> 0]

\* What the library changes, as one record.
UsbNow == [usb |-> usb, rqts |-> ctlRqts, mcu |-> mcu]
Leaves(s) == usb' = s.usb /\ ctlRqts' = s.rqts /\ mcu' = s.mcu
Asserts(condition, s) == IF condition THEN s ELSE [s EXCEPT !.usb.failed = TRUE]

-----------------------------------------------------------------------------
(* Requests and acknowledgements *)

SendNextRqt(s) ==
    IF s.rqts = <<>> \/ Head(s.rqts).state # "QUEUED" THEN s
    ELSE [s EXCEPT !.rqts[1].state = "WAITING",
                   !.mcu = Append(@, [code |-> Head(s.rqts).code, of |-> Head(s.rqts).of])]

\* of: the packet that the request is made for.
SendUsbRequest(s, code, of, delay) ==
    SendNextRqt([s EXCEPT !.rqts =
        Append(@, [code |-> code, of |-> of, delay |-> delay, state |-> "QUEUED"])])

\* CyAsUsbAckSetupPacket()
AckSetupPacket(s, of) ==
    SendUsbRequest([s EXCEPT !.usb.cbs = Append(@, "UsbAckCallback")], "ACK", of, FALSE)

\* CyAsUsbNakStallRequest() with a callback: only a stall of endpoint 0 needs no ack.
NakStallRequest(s, code, of, cb) ==
    LET delays == s.usb.setup /\ code # "STALL"
        t == [s EXCEPT !.usb.cbs = Append(@, cb),
                       !.usb.delay_ack = IF delays THEN @ + 1 ELSE @,
                       !.usb.ep0_stalled = @ \/ (s.usb.setup /\ code = "STALL")]
    IN  SendUsbRequest(t, code, of, delays)

\* The end of a write: its callback, if it is still registered.
EndWrite(s) ==
    LET cb == s.usb.cb
        t == [s EXCEPT !.usb.cb = 0, !.usb.async = FALSE]
    IN  IF cb = 0 THEN t ELSE [t EXCEPT !.usb.calls[cb] = @ + 1]

UsbAckCallback(s) ==
    LET t == IF s.usb.pending = 0 THEN s ELSE [EndWrite(s) EXCEPT !.usb.pending = 0]
    IN  [t EXCEPT !.usb.setup = FALSE]

\* The callback at the head of func_cbs_usb; StallCallbackEX() clears the stall that
\* SET_CONFIGURATION has set.
CallBack(s, of) ==
    LET node == Head(s.usb.cbs)
        t == CASE node = "UsbAckCallback" -> UsbAckCallback(s)
               [] node = "StallCallbackEX" -> NakStallRequest(s, "FEATURE", of, "StallCallback")
               [] OTHER -> s
    IN  IF s.usb.cbs = <<>> THEN Asserts(FALSE, s) ELSE [t EXCEPT !.usb.cbs = Tail(@)]

\* CyAsUsbAckCallback() and CyAsUsbFuncCallback()
AckCallback(s, of) == [CallBack(s, of) EXCEPT !.usb.delay_ack = 0]
UsbFuncCallback(s, rqt) ==
    LET t == CallBack(s, rqt.of)
        u == [Asserts(t.usb.delay_ack > 0, t) EXCEPT !.usb.delay_ack = @ - 1]
    IN  IF ~rqt.delay THEN t
        ELSE IF u.usb.delay_ack > 0 THEN u ELSE AckSetupPacket(u, rqt.of)

-----------------------------------------------------------------------------
(* Writes, which go as EP_DATA requests *)

\* CyAsDmaSendNextDmaRequest(): one request is kept for endpoint 0.
SendEp0Dma(s) ==
    IF s.usb.queue = <<>> THEN s
    ELSE SendUsbRequest([Asserts(s.usb.dma_req, s) EXCEPT !.usb.running = TRUE, !.usb.dma_req = FALSE],
                     "DATA", Head(s.usb.queue).of, FALSE)

\* AsyncWriteRequestCallback()
WriteCallback(s, of) ==
    IF s.usb.delay_ack > 0 THEN AckSetupPacket([s EXCEPT !.usb.pending = of], of) ELSE EndWrite(s)

\* CyAsDmaRequestCallback() and CyAsDmaCompletedCallback()
DmaCompleted(s) ==
    LET r == Head(s.usb.queue)
        t == WriteCallback([s EXCEPT !.usb.queue = Tail(@)], r.of)
    IN  IF s.usb.queue = <<>> THEN Asserts(FALSE, s)
        ELSE IF r.left > 1 THEN SendEp0Dma([s EXCEPT !.usb.queue[1].left = @ - 1])
        ELSE IF t.usb.queue = <<>> THEN [t EXCEPT !.usb.running = FALSE] ELSE SendEp0Dma(t)

\* CyAsUsbWriteDataAsync() of endpoint 0, called by SetupWrite()
WriteDataAsync(s, of, parts) ==
    LET t == [Asserts(s.usb.cb = 0, s) EXCEPT
                 !.usb.async = TRUE, !.usb.delay_ack = @ + 1, !.usb.cb = of,
                 !.usb.queue = Append(@, [of |-> of, left |-> parts])]
    IN  IF s.usb.async THEN s ELSE IF t.usb.running THEN t ELSE SendEp0Dma(t)

-----------------------------------------------------------------------------
(* A transfer that is abandoned *)

\* A request of endpoint 0 ends with CY_AS_ERROR_CANCELED.
Ep0Cancelled(s, rqt) ==
    IF rqt.code = "ACK" THEN AckCallback(s, rqt.of) ELSE [s EXCEPT !.usb.dma_req = TRUE]

\* CyAsLLRemoveEpDataRequests(): the first of them that waits to be sent, and the one
\* that has been sent; the next request is not sent.
RemoveEpDataRequests(s) ==
    LET related == {k \in DOMAIN s.rqts : s.rqts[k].code \in {"DATA", "ACK"}}
        k == CHOOSE i \in related : \A j \in related : i <= j
        t == IF related = {} \/ s.rqts[k].state = "WAITING" THEN s
             ELSE [Ep0Cancelled(s, s.rqts[k]) EXCEPT !.rqts = RemoveAt(@, k)]
        sent == t.rqts # <<>> /\ Head(t.rqts).state = "WAITING" /\ Head(t.rqts).code \in {"DATA", "ACK"}
    IN  IF sent THEN [Ep0Cancelled(t, Head(t.rqts)) EXCEPT !.rqts = Tail(@)] ELSE t

\* CyAsDmaCancel() and CyAsUsbCancelAsync() of endpoint 0
CancelAsync(s) ==
    LET stopped == [s EXCEPT !.usb.running = FALSE, !.usb.queue = <<>>]
        told == IF s.usb.queue = <<>> THEN stopped ELSE WriteCallback(stopped, Head(s.usb.queue).of)
    IN  [RemoveEpDataRequests(told) EXCEPT !.usb.cb = 0, !.usb.async = FALSE]

\* Mutant: a pending write is not cancelled.
Reset_Keeps(s) == [s EXCEPT !.usb.delay_ack = 0, !.usb.setup = FALSE, !.usb.pending = 0]

\* CyAsUsbResetEP0State()
ResetEP0State(s) ==
    LET t == [s EXCEPT !.usb.delay_ack = 0, !.usb.setup = FALSE]
    IN  [IF t.usb.async THEN CancelAsync(t) ELSE t EXCEPT !.usb.pending = 0]
ResetIfDelayed(s) == IF s.usb.delay_ack > 0 THEN ResetEP0State(s) ELSE s

-----------------------------------------------------------------------------
(* The DFC *)

SendStatusResponse(s) == [s EXCEPT !.mcu = Append(@, [code |-> "status", of |-> 0])]

\* ProcessSetupPacketRequest() of the driver
ProcessSetupPacket(s, k) ==
    LET packet == fw.packets[k]
    IN  CASE packet.kind = "write"   -> WriteDataAsync(s, k, packet.parts)
          [] packet.kind = "stall"   -> NakStallRequest(s, "STALL", k, "StallCallback")
          [] packet.kind = "feature" -> NakStallRequest(s, "FEATURE", k, "StallCallback")
          [] packet.kind = "config"  -> NakStallRequest(s, "FEATURE", k, "StallCallbackEX")
          [] OTHER                   -> s

\* MyUsbRequestCallbackUsbData() of a setup packet
SetupPacket(k) ==
    LET s == [ResetIfDelayed(UsbNow) EXCEPT !.usb.ep0_stalled = FALSE, !.usb.setup = TRUE]
        t == ProcessSetupPacket(SendStatusResponse(s), k)
    IN  Leaves(IF t.usb.delay_ack <= 0 /\ ~t.usb.ep0_stalled THEN AckSetupPacket(t, k) ELSE t)

\* MyUsbRequestCallbackUsbEvent() of a reset
UsbReset == Leaves(SendStatusResponse(ResetIfDelayed(UsbNow)))

\* CyAsMailBoxProcessData() of a response
ResponseCame ==
    LET rqt == Head(ctlRqts)
        s == [UsbNow EXCEPT !.rqts[1].state = "RECEIVED"]
        t == CASE rqt.code = "ACK" -> AckCallback(s, rqt.of)
               [] rqt.code = "DATA" -> DmaCompleted([s EXCEPT !.usb.dma_req = TRUE])
               [] OTHER -> UsbFuncCallback(s, rqt)
    IN  IF ctlRqts = <<>> \/ rqt.state # "WAITING" THEN UNCHANGED <<usb, ctlRqts, mcu>>
        ELSE Leaves(SendNextRqt([t EXCEPT !.rqts = Tail(@)]))

UsbDfc ==
    /\ mail # <<>> /\ ~usb.failed
    /\ LET m == Head(mail)
       IN  CASE m.code = "setup" -> SetupPacket(m.of)
             [] m.code = "reset" -> UsbReset
             [] OTHER -> ResponseCame
    /\ mail' = Tail(mail)
    /\ UNCHANGED fw

-----------------------------------------------------------------------------
(* The host and the firmware *)

Packet == Len(fw.packets)

\* What the firmware is to get for a packet, and has got.
Expected(k) ==
    LET Own(code) == [code |-> code, of |-> k]
        p == fw.packets[k]
    IN  CASE p.kind = "write"   -> [i \in 1..p.parts |-> Own("DATA")] \o <<Own("ACK")>>
          [] p.kind = "stall"   -> <<Own("STALL")>>
          [] p.kind = "feature" -> <<Own("FEATURE"), Own("ACK")>>
          [] p.kind = "config"  -> <<Own("FEATURE"), Own("FEATURE"), Own("ACK")>>
          [] OTHER              -> <<Own("ACK")>>
Done(k) == Len(fw.got[k]) >= Len(Expected(k))

HostMayGoOn == ~fw.event /\ (Packet > 0 => Done(Packet) \/ fw.packets[Packet].kind \in GivesUp)

HostSetup(kind, parts) ==
    /\ Packet < KPackets /\ HostMayGoOn /\ (kind # "write" => parts = 1)
    /\ fw' = [fw EXCEPT !.packets = Append(@, [kind |-> kind, parts |-> parts]), !.event = TRUE]
    /\ mail' = Append(mail, [code |-> "setup", of |-> Packet + 1])
    /\ UNCHANGED <<usb, ctlRqts, mcu>>

HostReset ==
    /\ fw.resets < KResets /\ HostMayGoOn
    /\ fw' = [fw EXCEPT !.resets = @ + 1, !.event = TRUE]
    /\ mail' = Append(mail, [code |-> "reset", of |-> 0])
    /\ UNCHANGED <<usb, ctlRqts, mcu>>

ChipTakes ==
    /\ mcu # <<>>
    /\ mcu' = Tail(mcu)
    /\ LET m == Head(mcu)
           dropped == m.code = "status" \/ (fw.event /\ m.code \in {"DATA", "ACK"})
       IN  /\ fw' = IF m.code = "status" THEN [fw EXCEPT !.event = FALSE]
                    ELSE IF fw.event \/ Packet = 0 THEN fw
                    ELSE [fw EXCEPT !.got[Packet] = Append(@, m)]
           /\ mail' = IF dropped THEN mail ELSE Append(mail, [code |-> "reply", of |-> m.of])
    /\ UNCHANGED <<usb, ctlRqts>>

-----------------------------------------------------------------------------
ControlNext ==
    \/ UsbDfc \/ ChipTakes
    \/ \E kind \in PacketKinds, parts \in 1..KParts : HostSetup(kind, parts)
    \/ HostReset

\* The DFC and the firmware go on; the host need not.  Only UsbDfc takes from mail, and
\* only ChipTakes from mcu.
DfcTakes == mail # <<>> /\ ~usb.failed /\ mail' = Tail(mail)
RequestTaken == mcu # <<>> /\ mcu' = Tail(mcu)
ControlFair == WF_mail(DfcTakes) /\ WF_mcu(RequestTaken)
ControlSpec == ControlInit /\ [][ControlNext]_controlVars /\ ControlFair

-----------------------------------------------------------------------------
Quiet == mail = <<>> /\ mcu = <<>>

\* Whichever packet comes while another one is being answered: what the firmware gets
\* for a packet is what this packet asks for, in order and once (the acknowledgement
\* after the data or the stall that delays it, none for a packet that stalls), the write
\* callback comes at most once, no assertion fails, and nothing is left of a transfer
\* that is over (cyasusb.c, CyAsUsbResetEP0State()).
ControlIsAnswered ==
    /\ ~usb.failed /\ usb.delay_ack >= 0
    /\ \A k \in 1..Packet : IsPrefix(fw.got[k], Expected(k)) /\ usb.calls[k] <= 1
    /\ Quiet => ctlRqts = <<>> /\ usb.cbs = <<>> /\ usb.delay_ack = 0 /\ ~usb.async /\ usb.pending = 0

\* The last packet is answered in the end, unless there is a reset: the host need not
\* send another one.
AnswerDue == Packet > 0 /\ ~Done(Packet) /\ fw.resets = 0
ControlEnds == AnswerDue ~> ~AnswerDue
=============================================================================
