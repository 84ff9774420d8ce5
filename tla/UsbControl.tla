----------------------------- MODULE UsbControl -----------------------------
(***************************************************************************)
(* The control endpoint of the USB client controller                       *)
(* (omap3530_drivers/usbcc/pa_usbc.cpp): Ep0IntService() and what it calls,*)
(* and the requests of the layer above it.                                 *)
(*                                                                         *)
(* That layer is external: it takes a setup packet or its data, reads      *)
(* again at once, and answers a control read within the ISR or later; the  *)
(* host is as well.  A packet is the number of its transfer and its length,*)
(* in units of half a packet.                                              *)
(***************************************************************************)
EXTENDS Naturals

CONSTANTS
    Wants,          \* wLength of the host's reads; a write has one packet
    Answers,        \* lengths of what is sent for them, if so much is wanted
    SendsStatus,    \* a write is answered by SendEp0ZeroByteStatusPacket()
    KMaxSetups      \* the host makes so many requests, numbered from 1

KEp0MaxPktSz == 2

VARIABLES
    e0,         \* the endpoint and its registers, see Ep0TypeOK
    host0,      \* the host's current transfer
    misread,    \* a setup packet was taken for data
    mishaps     \* history: "late" answers, "lost" interrupts

ep0Vars == <<e0, host0, misread, mishaps>>

NoPkt == [setup |-> 0, kind |-> "none", bytes |-> 0]
NoTransfer == [setup |-> 0, kind |-> "none", want |-> 0, got |-> 0, own |-> TRUE,
               stage |-> "none"]

Ep0Init ==
    /\ e0 = [iEp0State |-> "EP0_IDLE",
             iTxBuf |-> 0,              \* the setup it answers, or 0
             iTransmitted |-> 0, iLength |-> 0, iZlpReqd |-> FALSE,
             asked |-> NoPkt,           \* the setup packet read last
             owed |-> FALSE,            \* a write has not been completed
             rx |-> NoPkt,              \* RXPKTRDY and the packet
             tx |-> NoPkt,              \* TXPKTRDY and the packet
             dataEnd |-> FALSE, setupEnd |-> FALSE,
             stall |-> {},              \* SENDSTALL, SENTSTALL
             isr |-> FALSE,             \* before ClearEndpointInterrupt(0)
             pending |-> FALSE]         \* bit of INTRTX
    /\ host0 = NoTransfer
    /\ misread = FALSE /\ mishaps = {}

-----------------------------------------------------------------------------
(* The driver's functions, from endpoint to endpoint *)

Loaded(e, n) == [e EXCEPT !.tx = [setup |-> e.iTxBuf, kind |-> "data", bytes |-> n]]

Full(e, sent) == sent = e.iLength /\ ~e.iZlpReqd

Ep0Transmit(e) ==
    LET left == e.iLength - e.iTransmitted
        n == IF left < KEp0MaxPktSz THEN left ELSE KEp0MaxPktSz
        sent == [Loaded(e, n) EXCEPT !.iTransmitted = @ + n]
        ends == [sent EXCEPT !.iEp0State = "EP0_END_XFER"]
    IN  IF e.iTxBuf = 0 THEN e
        ELSE IF n = KEp0MaxPktSz THEN IF Full(e, e.iTransmitted + n) THEN ends ELSE sent
        ELSE IF n > 0 THEN ends
        ELSE IF e.iZlpReqd THEN [ends EXCEPT !.iZlpReqd = FALSE, !.dataEnd = TRUE]
        ELSE e

\* Mutant: the buffer stays.
Completed_Keeps(e) == [e EXCEPT !.owed = FALSE]
\* Ep0RequestComplete(KEp0_In).
Completed(e) == [e EXCEPT !.iTxBuf = 0, !.owed = FALSE]

Ep0EndXfer(e) ==
    [Completed(e) EXCEPT !.iEp0State = "EP0_IDLE", !.dataEnd = TRUE, !.rx = NoPkt]

Ep0Cancel(e) ==
    [(IF e.iTxBuf # 0 THEN Completed(e) ELSE e) EXCEPT !.iEp0State = "EP0_IDLE"]

SetupEnded(e) == IF e.setupEnd THEN [Ep0Cancel(e) EXCEPT !.setupEnd = FALSE] ELSE e
StallSent(e) == [e EXCEPT !.stall = @ \ {"sent"}]

\* EnquireEp0NextState() of the layer above decides by the setup packet.
NextEp0State(pkt) ==
    CASE pkt.kind = "nodata" -> "EP0_IDLE"
      [] pkt.kind = "read" -> "EP0_IN_DATA_PHASE"
      [] OTHER -> "EP0_OUT_DATA_PHASE"

\* iRxBuf is there: the layer above reads again as soon as it has been given data.
Ep0ReadSetupPkt(e) ==
    [e EXCEPT !.rx = NoPkt, !.asked = e.rx, !.iEp0State = NextEp0State(e.rx)]

Ep0Receive(e) == [e EXCEPT !.rx = NoPkt]

-----------------------------------------------------------------------------
(* The layer above *)

\* SetupEndpointZeroWrite(); an answer that is shorter than wanted and full to its
\* last packet is followed by an empty one.
Ep0Write(e, len) ==
    Ep0Transmit([e EXCEPT !.iTxBuf = e.asked.setup, !.iTransmitted = 0, !.iLength = len,
                          !.iZlpReqd = len < e.asked.bytes /\ len % KEp0MaxPktSz = 0,
                          !.asked = NoPkt, !.owed = TRUE])
Ep0Stall(e) == [e EXCEPT !.stall = @ \cup {"send"}, !.asked = NoPkt]

Above(e) ==
    {e} \cup
    (IF e.asked.kind = "read" /\ e.iTxBuf = 0
     THEN {Ep0Write(e, len) : len \in {a \in Answers : a <= e.asked.bytes}} \cup {Ep0Stall(e)}
     ELSE {})

\* SendEp0ZeroByteStatusPacket(), for a request that is not a standard one.
StatusPacket(e) ==
    IF SendsStatus /\ e.rx.kind = "data"
    THEN [Ep0Receive(e) EXCEPT !.tx = [setup |-> e.rx.setup, kind |-> "status", bytes |-> 0],
                               !.dataEnd = TRUE]
    ELSE Ep0Receive(e)

-----------------------------------------------------------------------------
(* Interrupts *)

\* In the IDLE state without a packet this is Ep0StatusIn().
Served(e) ==
    CASE e.iEp0State = "EP0_END_XFER" -> {Ep0EndXfer(e)}
      [] e.iEp0State = "EP0_IDLE" -> IF e.rx # NoPkt THEN Above(Ep0ReadSetupPkt(e)) ELSE {e}
      [] e.iEp0State = "EP0_OUT_DATA_PHASE" -> {StatusPacket(e)}
      [] e.iEp0State = "EP0_IN_DATA_PHASE" -> {Ep0Transmit(e)}

\* UdcInterruptService() has cleared INTRTX by reading it.
Ep0IntService ==
    /\ e0.pending /\ ~e0.isr
    /\ LET e == StallSent(SetupEnded([e0 EXCEPT !.pending = FALSE, !.isr = TRUE]))
       IN  /\ \E served \in Served(e) : e0' = served
           /\ misread' = (misread \/ (e.iEp0State = "EP0_OUT_DATA_PHASE"
                                      /\ e.rx.kind \in {"read", "write", "nodata"}))
    /\ UNCHANGED <<host0, mishaps>>

\* Whatever has become pending meanwhile is cleared with it.
ClearEndpointInterrupt ==
    /\ e0.isr
    /\ e0' = [e0 EXCEPT !.isr = FALSE, !.pending = FALSE]
    /\ mishaps' = mishaps \cup IF e0.pending THEN {"lost"} ELSE {}
    /\ UNCHANGED <<host0, misread>>

\* The layer above answers later: it may not have been told yet that the host gave up.
AnswersLater ==
    /\ ~e0.isr
    /\ e0.iEp0State = "EP0_IN_DATA_PHASE"
    /\ e0' \in Above(e0) \ {e0}
    /\ mishaps' = mishaps \cup IF e0.setupEnd THEN {"late"} ELSE {}
    /\ UNCHANGED <<host0, misread>>

-----------------------------------------------------------------------------
(* The host and the controller *)

\* A setup packet is always taken; it ends what was under way.
HostSetup(kind, want) ==
    /\ host0.setup < KMaxSetups
    /\ LET setup == host0.setup + 1
       IN  /\ host0' = [setup |-> setup, kind |-> kind, want |-> want, got |-> 0, own |-> TRUE,
                        stage |-> IF kind = "nodata" THEN "status" ELSE "data"]
           /\ e0' = [e0 EXCEPT !.rx = [setup |-> setup, kind |-> kind, bytes |-> want],
                               !.tx = NoPkt, !.stall = @ \ {"send"}, !.pending = TRUE,
                               !.dataEnd = FALSE,
                               !.setupEnd = @ \/ host0.stage # "none"]
    /\ UNCHANGED <<misread, mishaps>>

\* The data stage of a read ends with a short packet or with what was wanted.
HostIn ==
    /\ host0.kind = "read" /\ host0.stage = "data" /\ e0.tx.kind = "data"
    /\ LET got == host0.got + e0.tx.bytes
       IN  host0' = [host0 EXCEPT !.got = got, !.own = @ /\ e0.tx.setup = host0.setup,
                        !.stage = IF e0.tx.bytes < KEp0MaxPktSz \/ got >= host0.want
                                  THEN "status" ELSE "data"]
    /\ e0' = [e0 EXCEPT !.tx = NoPkt, !.pending = TRUE]
    /\ UNCHANGED <<misread, mishaps>>

HostOut ==
    /\ host0.kind = "write" /\ host0.stage = "data" /\ e0.rx = NoPkt
    /\ host0' = [host0 EXCEPT !.stage = "status"]
    /\ e0' = [e0 EXCEPT !.rx = [setup |-> host0.setup, kind |-> "data", bytes |-> 1],
                        !.pending = TRUE]
    /\ UNCHANGED <<misread, mishaps>>

\* The status stage.  A write's waits for a status packet.
HostStatus ==
    /\ host0.stage = "status" /\ e0.rx = NoPkt
    /\ host0.kind = "write" => e0.tx.kind = "status"
    /\ host0' = [host0 EXCEPT !.stage = "none"]
    /\ e0' = [e0 EXCEPT !.tx = NoPkt, !.setupEnd = @ \/ ~e0.dataEnd, !.dataEnd = FALSE,
                        !.pending = TRUE]
    /\ UNCHANGED <<misread, mishaps>>

HostSeesStall ==
    /\ "send" \in e0.stall /\ host0.stage # "none"
    /\ host0' = [host0 EXCEPT !.stage = "none"]
    /\ e0' = [e0 EXCEPT !.stall = {"sent"}, !.pending = TRUE]
    /\ UNCHANGED <<misread, mishaps>>

Ep0Next ==
    \/ Ep0IntService \/ ClearEndpointInterrupt \/ AnswersLater
    \/ \E want \in Wants : HostSetup("read", want)
    \/ HostSetup("write", 1) \/ HostSetup("nodata", 0)
    \/ HostIn \/ HostOut \/ HostStatus \/ HostSeesStall

Ep0Spec == Ep0Init /\ [][Ep0Next]_ep0Vars

\* The interrupt is taken, its service routine ends, and the host goes on.
Ep0Fair ==
    /\ WF_ep0Vars(Ep0IntService) /\ WF_ep0Vars(ClearEndpointInterrupt)
    /\ WF_ep0Vars(HostIn)
-----------------------------------------------------------------------------
(* Properties *)

Ep0TypeOK ==
    /\ e0.iEp0State \in {"EP0_IDLE", "EP0_IN_DATA_PHASE", "EP0_OUT_DATA_PHASE", "EP0_END_XFER"}
    /\ e0.iTransmitted \in 0..e0.iLength
    /\ e0.stall \subseteq {"send", "sent"}

\* What the host has been sent in a control read answers that read and no other,
\* though the host may give up at any time and ask for something else, in the ISR too;
\* and each write of the layer above is completed once (Ep0Cancel(), Ep0EndXfer()): until
\* that layer gives an answer when SETUPEND is set and the ISR has not read it.
AnswersAreOwn == "late" \notin mishaps => host0.own /\ e0.owed = (e0.iTxBuf # 0)

\* A control read for which there is an answer comes to its status stage: the host
\* gets all packets, and an empty one where it could not know the end otherwise.  That
\* ends with a late answer, and with an interrupt that comes before the ISR clears it.
ReadEnds ==
    \A setup \in 1..KMaxSetups :
        LET Waits == host0.setup = setup /\ host0.stage = "data"
        IN  Waits /\ (e0.iTxBuf = setup \/ host0.got > 0) ~> ~Waits \/ mishaps # {}

\* "Called from the Ep0 ISR when a data packet has been received" (Ep0Receive(),
\* pa_usbc.cpp:1608): a setup packet is read as one, whatever went before.
SetupIsRead == ~misread
=============================================================================
