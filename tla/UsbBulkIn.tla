----------------------------- MODULE UsbBulkIn -----------------------------
(***************************************************************************)
(* One bulk IN endpoint of the USB client controller                       *)
(* (omap3530_drivers/usbcc/pa_usbc.cpp): SetupEndpointWrite(),             *)
(* CancelEndpointWrite() and BulkTransmit(), which both the call and the   *)
(* endpoint's ISR run.  As in UsbBulkOut a call is one step; it starts     *)
(* with interrupts on, so that none that is enabled is due.                *)
(***************************************************************************)
EXTENDS Naturals

CONSTANTS
    Lengths,        \* lengths of the client's buffers, in units of half a packet
    KMaxWrites      \* bound on the client's writes, numbered from 1

KBlkMaxPktSz == 2

VARIABLES
    tx,         \* the endpoint (TEndpoint) and its registers, see TxTypeOK
    host,       \* what the host has of the current write
    finished    \* the write that was completed last, and what the host had

txVars == <<tx, host, finished>>

Empty == [write |-> 0, bytes |-> 0, zlp |-> FALSE]

TxInit ==
    /\ tx = [write |-> 0,               \* number of the latest write
             iTxBuf |-> FALSE, iTransmitted |-> 0, iLength |-> 0,
             iPackets |-> 0, iZlpReqd |-> FALSE, asked |-> FALSE,
             iDisabled |-> FALSE,
             ready |-> FALSE,           \* TXPKTRDY
             fifo |-> Empty,            \* the bytes loaded
             pending |-> FALSE,         \* bit of INTRTX
             enabled |-> TRUE,          \* bit of INTRTXE
             stall |-> {}]              \* SENDSTALL, SENTSTALL
    /\ host = Empty
    /\ finished = Empty

-----------------------------------------------------------------------------
(* BulkTransmit() *)

\* Bytes written to the FIFO add to what is there.
Loaded(u, n) ==
    [u EXCEPT !.ready = TRUE,
              !.fifo = [write |-> u.write,
                        bytes |-> n + (IF u.ready THEN u.fifo.bytes ELSE 0),
                        zlp |-> n = 0]]

\* Mutant: an empty write is taken for one that is sent.
AllSent_Empty(u) == u.iTransmitted >= u.iLength
\* A write of no bytes is not done before its one packet has gone.
AllSent(u) == u.iTransmitted >= u.iLength /\ (u.iLength > 0 \/ u.iPackets > 0)

NextPacket(u) ==
    LET left == u.iLength - u.iTransmitted
        n == IF left >= KBlkMaxPktSz THEN KBlkMaxPktSz ELSE left
    IN  [Loaded(u, n) EXCEPT !.iTransmitted = @ + n, !.iPackets = @ + 1]

Handshake(u) == [u EXCEPT !.stall = @ \ {"sent"}]
Off(u) == [u EXCEPT !.enabled = FALSE, !.iDisabled = TRUE, !.pending = FALSE]

Finish(u) ==
    /\ tx' = [u EXCEPT !.iTxBuf = FALSE]
    /\ finished' = host
    /\ UNCHANGED host
Goes(u) == tx' = u /\ UNCHANGED <<host, finished>>

BulkTransmit(u) ==
    IF "sent" \in u.stall THEN Goes(Handshake(u))
    ELSE IF "send" \in u.stall THEN Goes(u)
    ELSE IF ~u.iTxBuf THEN Goes(Off(u))
    ELSE IF ~AllSent(u) THEN Goes(NextPacket(u))
    ELSE IF u.iZlpReqd THEN Goes([Loaded(u, 0) EXCEPT !.iZlpReqd = FALSE])
    ELSE Finish(u)

-----------------------------------------------------------------------------
SetupEndpointWrite(len, zlp) ==
    /\ ~tx.iTxBuf
    /\ ~(tx.pending /\ tx.enabled)
    /\ tx.write < KMaxWrites
    /\ LET new == [tx EXCEPT !.write = @ + 1, !.iTxBuf = TRUE, !.iTransmitted = 0,
                             !.iLength = len, !.iPackets = 0, !.iZlpReqd = zlp,
                             !.asked = zlp,
                             !.enabled = @ \/ tx.iDisabled, !.iDisabled = FALSE]
       IN  BulkTransmit(new)

CancelEndpointWrite ==
    /\ tx.iTxBuf
    /\ Goes([tx EXCEPT !.iTxBuf = FALSE, !.iTransmitted = 0, !.ready = FALSE,
                       !.fifo = Empty])

StallTx ==
    /\ "send" \notin tx.stall
    /\ Goes([tx EXCEPT !.stall = @ \cup {"send"}])

ClearStallTx ==
    /\ "send" \in tx.stall
    /\ Goes([tx EXCEPT !.stall = @ \ {"send"}])

TxInterrupt ==
    /\ tx.pending /\ tx.enabled
    /\ BulkTransmit([tx EXCEPT !.pending = FALSE])

\* The host takes a packet, and the controller asks for the next.
HostReads ==
    /\ tx.ready
    /\ "send" \notin tx.stall
    /\ host' = [write |-> tx.fifo.write,
                bytes |-> tx.fifo.bytes + (IF host.write = tx.fifo.write
                                           THEN host.bytes ELSE 0),
                zlp |-> tx.fifo.zlp]
    /\ tx' = [tx EXCEPT !.ready = FALSE, !.fifo = Empty, !.pending = TRUE]
    /\ UNCHANGED finished

HostReadsStalled ==
    /\ tx.stall = {"send"}
    /\ Goes([tx EXCEPT !.stall = @ \cup {"sent"}, !.pending = TRUE])

TxNext ==
    \/ \E len \in Lengths, zlp \in BOOLEAN : SetupEndpointWrite(len, zlp)
    \/ CancelEndpointWrite
    \/ StallTx
    \/ ClearStallTx
    \/ TxInterrupt
    \/ HostReads
    \/ HostReadsStalled

TxSpec == TxInit /\ [][TxNext]_txVars
-----------------------------------------------------------------------------
(* Properties *)

TxTypeOK ==
    /\ tx.iTransmitted \in 0..tx.iLength
    /\ tx.fifo \in [write : Nat, bytes : Nat, zlp : BOOLEAN]
    /\ tx.stall \subseteq {"send", "sent"}

\* A write is completed when the host has its bytes, and the zero-length packet
\* if one was asked for or the write is empty.
WriteIsSent ==
    [][finished' # finished =>
          /\ host.write = tx.write
          /\ host.bytes = tx.iLength
          /\ host.zlp = (tx.asked \/ tx.iLength = 0)]_txVars
=============================================================================
