----------------------------- MODULE UsbBulkOut -----------------------------
(***************************************************************************)
(* One bulk OUT endpoint of the USB client controller                      *)
(* (omap3530_drivers/usbcc/pa_usbc.cpp): SetupEndpointRead(),              *)
(* CancelEndpointRead(), the endpoint's ISR BulkReceive(), BulkReadRxFifo()*)
(* and the timer that ends a read when no further packet comes.            *)
(*                                                                         *)
(* The two ISRs do not interrupt each other.  A call of the client is taken*)
(* as one step: the driver does not hold interrupts off while it assigns   *)
(* the fields of TEndpoint, the layer above it is expected to.  The        *)
(* endpoint and its part of the controller are the record usb, and the     *)
(* functions of the driver are operators from record to record.            *)
(***************************************************************************)
EXTENDS Naturals, Sequences

CONSTANTS
    Lengths,        \* lengths of the client's buffers, in units of half a packet
    LateCancel,     \* a read may be cancelled after data has come for it
    Shared,         \* interrupts of other endpoints occur
    KMaxPackets     \* the host sends so many packets, numbered from 1

KBlkMaxPktSz == 2
Sizes == 0..KBlkMaxPktSz

VARIABLES
    usb,        \* the endpoint (TEndpoint) and its registers, see OutTypeOK
    sizes,      \* sizes of the packets sent so far
    done        \* the reads completed: what was reported, what was read

outVars == <<usb, sizes, done>>

NoPacket == 0
Packet == 1..KMaxPackets

OutInit ==
    /\ usb = [iRxBuf |-> FALSE,         \* a buffer is there
              iReceived |-> 0, iLength |-> 0, iPackets |-> 0,
              iNoBuffer |-> FALSE, iDisabled |-> FALSE,
              iRxTimerSet |-> FALSE, iRxMoreDataRcvd |-> FALSE,
              timer |-> FALSE,          \* iRxTimer is queued
              fifo |-> NoPacket,        \* the packet with RXPKTRDY
              pending |-> FALSE,        \* bit of INTRRX
              enabled |-> TRUE,         \* bit of INTRRXE
              stall |-> {},             \* SENDSTALL, SENTSTALL
              into |-> <<>>,            \* packets read into the buffer
              dropped |-> {}]           \* packets flushed or read for a cancelled read
    /\ sizes = <<>>
    /\ done = <<>>

-----------------------------------------------------------------------------
(* The functions of the driver: the endpoint, and the reads they complete *)

Still(u) == [u |-> u, completed |-> <<>>]

\* Mutant: the flag outlives the read.
RxComplete_KeepsFlag(u) ==
    [u |-> [u EXCEPT !.iRxBuf = FALSE, !.iRxMoreDataRcvd = FALSE, !.into = <<>>],
     completed |-> <<[size |-> u.iReceived, packets |-> u.iPackets, data |-> u.into]>>]
\* iPacketSize[0] has been set to iReceived.
RxComplete(u) ==
    [u |-> [u EXCEPT !.iRxBuf = FALSE, !.iRxTimerSet = FALSE,
                     !.iRxMoreDataRcvd = FALSE, !.into = <<>>],
     completed |-> <<[size |-> u.iReceived, packets |-> u.iPackets, data |-> u.into]>>]

StopRxTimer(u) ==
    IF u.iRxTimerSet THEN [u EXCEPT !.timer = FALSE, !.iRxTimerSet = FALSE] ELSE u

\* A full packet that leaves room: another one may follow.
AwaitMore(u) ==
    IF u.iRxTimerSet THEN [u EXCEPT !.iRxMoreDataRcvd = TRUE]
    ELSE [u EXCEPT !.iRxTimerSet = TRUE, !.timer = TRUE]

\* RXCOUNT: without a packet it reads 0, as for a zero-length packet.
Bytes(u) == IF u.fifo = NoPacket THEN 0 ELSE sizes[u.fifo]
Lost(u) == {u.fifo} \ {NoPacket}

\* Mutant: a packet that does not fit is read as far as the buffer goes.
Fits_Always(u) == TRUE
Fits(u) == u.iReceived + Bytes(u) <= u.iLength

\* A zero-length packet behind data is counted as a packet of its own.
ReadFifo(u) ==
    [u EXCEPT !.iReceived = @ + Bytes(u), !.into = IF u.fifo = NoPacket THEN @ ELSE Append(@, u.fifo),
              !.iPackets = IF Bytes(u) = 0 /\ u.iReceived > 0 THEN @ + 1 ELSE @]

Ends(u, bytes) == bytes < KBlkMaxPktSz \/ u.iReceived = u.iLength

FifoReleased(r) == [r EXCEPT !.u.fifo = NoPacket]
SwitchedOff(r) == [r EXCEPT !.u.enabled = FALSE, !.u.iDisabled = TRUE]

\* From the ISR, the endpoint's interrupt is disabled when its buffer is full.
\* (calledFromISR is always 0: == binds before &.)
PacketTaken(u, inIsr) ==
    LET read == ReadFifo(u)
    IN  FifoReleased(IF ~Ends(read, Bytes(u)) THEN Still(AwaitMore(read))
                     ELSE IF inIsr THEN SwitchedOff(RxComplete(StopRxTimer(read)))
                     ELSE RxComplete(read))

\* The packet stays in the FIFO for the next read.
TooLong(u, inIsr) ==
    RxComplete([(IF inIsr THEN StopRxTimer(u) ELSE u) EXCEPT !.iNoBuffer = TRUE])

PacketRefused(u) ==
    Still([u EXCEPT !.iNoBuffer = TRUE, !.iDisabled = TRUE, !.enabled = FALSE,
                    !.pending = FALSE])

\* The interrupt comes with a packet, or with a stall handshake.
BulkReceive(u) ==
    IF "sent" \in u.stall THEN Still([u EXCEPT !.stall = @ \ {"sent"}])
    ELSE IF "send" \in u.stall THEN Still(u)
    ELSE IF ~u.iRxBuf THEN PacketRefused(u)
    ELSE IF Fits(u) THEN PacketTaken(u, TRUE)
    ELSE TooLong(u, TRUE)

\* It tests for SENTSTALL twice and for SENDSTALL not at all.
BulkReadRxFifo(u) ==
    IF "sent" \in u.stall THEN Still([u EXCEPT !.stall = @ \ {"sent"}])
    ELSE IF Fits(u) THEN PacketTaken(u, FALSE)
    ELSE TooLong(u, FALSE)

Results(r) == usb' = r.u /\ done' = done \o r.completed

-----------------------------------------------------------------------------
(* Calls of the client *)

NewRead(len) ==
    [usb EXCEPT !.iRxBuf = TRUE, !.iReceived = 0, !.iLength = len, !.iPackets = 1]

\* A read behind a refused packet resets iDisabled and leaves iNoBuffer set.
SetupEndpointRead(len) ==
    /\ ~usb.iRxBuf
    /\ LET new == NewRead(len)
       IN  Results(IF new.iDisabled
                   THEN Still([new EXCEPT !.iDisabled = FALSE, !.enabled = TRUE])
                   ELSE IF new.iNoBuffer
                   THEN BulkReadRxFifo([new EXCEPT !.iNoBuffer = FALSE])
                   ELSE Still(new))
    /\ UNCHANGED sizes

\* The FIFO is flushed.  The timer and its flags are left as they are.
CancelEndpointRead ==
    /\ usb.iRxBuf
    /\ LateCancel \/ usb.iReceived = 0
    /\ usb' = [usb EXCEPT !.iRxBuf = FALSE, !.iReceived = 0, !.iNoBuffer = FALSE,
                          !.fifo = NoPacket, !.into = <<>>,
                          !.dropped = @ \cup Lost(usb) \cup
                              {usb.into[i] : i \in DOMAIN usb.into}]
    /\ UNCHANGED <<sizes, done>>

StallEndpoint ==
    /\ "send" \notin usb.stall
    /\ usb' = [usb EXCEPT !.stall = @ \cup {"send"}]
    /\ UNCHANGED <<sizes, done>>

ClearStallEndpoint ==
    /\ "send" \in usb.stall
    /\ usb' = [usb EXCEPT !.stall = @ \ {"send"}]
    /\ UNCHANGED <<sizes, done>>

\* DeConfigureEndpoint() and then ConfigureEndpoint(), on a new configuration;
\* no read is outstanding.
ConfigureEndpoint ==
    /\ ~usb.iRxBuf
    /\ usb' = [usb EXCEPT !.enabled = ~usb.iDisabled, !.iNoBuffer = FALSE,
                          !.fifo = NoPacket, !.dropped = @ \cup Lost(usb)]
    /\ UNCHANGED <<sizes, done>>

-----------------------------------------------------------------------------
(* Interrupts *)

\* Reading INTRRX clears it, and every endpoint whose bit is set is served: one
\* whose interrupt is disabled as well, when another endpoint interrupts.
UdcInterruptService ==
    /\ usb.pending
    /\ usb.enabled \/ Shared
    /\ Results(BulkReceive([usb EXCEPT !.pending = FALSE]))
    /\ UNCHANGED sizes

\* The timer is not stopped when a read completes by itself: it finds
\* iRxTimerSet or iRxBuf cleared.
RxTimerCallback ==
    /\ usb.timer
    /\ LET fired == [usb EXCEPT !.timer = FALSE]
       IN  IF ~fired.iRxTimerSet \/ ~fired.iRxBuf THEN Results(Still(fired))
           ELSE IF fired.iRxMoreDataRcvd
           THEN Results(Still([fired EXCEPT !.iRxMoreDataRcvd = FALSE, !.timer = TRUE]))
           ELSE Results(RxComplete(fired))
    /\ UNCHANGED sizes

-----------------------------------------------------------------------------
(* The host.  It is answered NAK while a packet is in the FIFO. *)

HostSends(size) ==
    /\ usb.fifo = NoPacket
    /\ "send" \notin usb.stall
    /\ Len(sizes) < KMaxPackets
    /\ sizes' = Append(sizes, size)
    /\ usb' = [usb EXCEPT !.fifo = Len(sizes) + 1, !.pending = TRUE]
    /\ UNCHANGED done

HostIsStalled ==
    /\ usb.stall = {"send"}
    /\ usb.fifo = NoPacket
    /\ usb' = [usb EXCEPT !.stall = @ \cup {"sent"}, !.pending = TRUE]
    /\ UNCHANGED <<sizes, done>>

-----------------------------------------------------------------------------
OutNext ==
    \/ \E len \in Lengths : SetupEndpointRead(len)
    \/ CancelEndpointRead
    \/ StallEndpoint
    \/ ClearStallEndpoint
    \/ ConfigureEndpoint
    \/ UdcInterruptService
    \/ RxTimerCallback
    \/ \E size \in Sizes : HostSends(size)
    \/ HostIsStalled

OutSpec == OutInit /\ [][OutNext]_outVars

\* A timer expires.  Nothing else is assumed: no further packet, no client.
OutFair == WF_outVars(RxTimerCallback)
OutFairSpec == OutSpec /\ OutFair
-----------------------------------------------------------------------------
(* Properties *)

\* All packets of a read but the last are full: a short one ends it.
TotalSize(data) ==
    IF data = <<>> THEN 0 ELSE KBlkMaxPktSz * (Len(data) - 1) + sizes[data[Len(data)]]

OutTypeOK ==
    /\ usb.iReceived \in Nat /\ usb.iLength \in Lengths \cup {0}
    /\ usb.iPackets \in 0..2
    /\ usb.fifo \in Packet \cup {NoPacket}
    /\ usb.into \in Seq(Packet) /\ usb.dropped \subseteq Packet
    /\ usb.stall \subseteq {"send", "sent"}
    /\ sizes \in Seq(Sizes)
    /\ \A i \in DOMAIN done : done[i].data \in Seq(Packet)

\* Every packet of the host reaches one read, in the order sent, unless it is
\* flushed or its read cancelled; each read fits its buffer (RxComplete(),
\* iReceived, the packet left in the FIFO by BulkReceive()).
ReadsMade == [i \in DOMAIN done |-> done[i].data] \o <<usb.into>>
ReadExactly(data, size) ==
    /\ size = TotalSize(data)
    /\ \A i \in 1..(Len(data) - 1) : sizes[data[i]] = KBlkMaxPktSz
EachPacketOnce ==
    LET kept == UNION {{ReadsMade[r][i] : i \in DOMAIN ReadsMade[r]} : r \in DOMAIN ReadsMade}
    IN  /\ \A r, s \in DOMAIN ReadsMade :
            \A i \in DOMAIN ReadsMade[r], j \in DOMAIN ReadsMade[s] :
                r < s \/ (r = s /\ i < j) => ReadsMade[r][i] < ReadsMade[s][j]
        /\ 1..Len(sizes) = kept \cup usb.dropped \cup Lost(usb)
        /\ kept \cap (usb.dropped \cup Lost(usb)) = {}
        /\ \A r \in DOMAIN done : ReadExactly(done[r].data, done[r].size)
        /\ usb.iRxBuf => ReadExactly(usb.into, usb.iReceived) /\ usb.iReceived <= usb.iLength

\* A read that has data is completed, whether or not more comes: by its buffer
\* being full, by a short packet or by the timer (KRxTimerTimeout).
DataIsReported == (usb.iRxBuf /\ usb.iReceived > 0) ~> ~usb.iRxBuf

\* A packet that came before the read is there for it: nothing waits in the FIFO
\* while a buffer is there, unless its interrupt is due (iNoBuffer).
PacketFindsRead == usb.iRxBuf /\ usb.fifo # NoPacket /\ usb.stall = {} => usb.pending
=============================================================================
