---------------------------- MODULE UartTransmit ----------------------------
(***************************************************************************)
(* Sending and flow control of the extended UART driver                    *)
(* (omap3530_drivers/euart/euart.cpp, built with TX_POLLING_HACK):         *)
(* EnableTransmit() sends until there is no more, on the thread of the     *)
(* layer above or, when the receiving interrupt brings an XON, within that *)
(* interrupt, which may come between any two steps of the thread.          *)
(*                                                                         *)
(* External: the layer above, whose TransmitIsr() gives the next byte or a *)
(* negative number, and the other end of the line.  Power stays good, so   *)
(* that the transmit interrupt is never enabled.                           *)
(***************************************************************************)
EXTENDS Integers, SequencesExt

CONSTANTS
    KMaxBytes,      \* the layer above sends so many, numbered from 1
    KFifo,          \* bytes that the transmit FIFO holds
    KRx,            \* bytes that one interrupt reads
    Received,       \* bytes and flow control characters that the other end sends
    XonAtEnd        \* an XON may come when the thread has found no more to send

VARIABLES
    euart,      \* the driver and the UART, see EuartTypeOK
    above,      \* the layer above: bytes given, bytes taken, flow control
    goes        \* where the thread and the interrupt are

euartVars == <<euart, above, goes>>

Contexts == {"thread", "isr"}

EuartInit ==
    /\ euart = [iTransmitting |-> FALSE,
                fifo |-> <<>>, sent |-> <<>>,           \* transmit
                rx |-> <<>>]                            \* receive
    /\ above = [given |-> 0, taken |-> 0, held |-> FALSE]
    /\ goes = [c \in Contexts |-> [at |-> "idle", r |-> 0]]

Runs(c) == c = "isr" \/ goes["isr"].at = "idle"
Goes(c, from, to, r) ==
    /\ Runs(c)
    /\ goes[c].at = from
    /\ goes' = [goes EXCEPT ![c] = [at |-> to, r |-> r]]

\* Mutant: the swap's result is ignored.
Entered_Always(c) == goes' = [goes EXCEPT ![c] = [at |-> "loop", r |-> 0]]
\* SafeSwap() of iTransmitting: whoever finds it set leaves at once.
Entered(c) ==
    goes' = [goes EXCEPT ![c] = [at |-> IF euart.iTransmitting THEN "idle" ELSE "loop", r |-> 0]]

-----------------------------------------------------------------------------
(* EnableTransmit() *)

\* The layer above has more to send and says so.
LayerWrites ==
    /\ Runs("thread") /\ goes["thread"].at = "idle"
    /\ \E n \in (above.given + 1)..KMaxBytes : above' = [above EXCEPT !.given = n]
    /\ Entered("thread")
    /\ euart' = [euart EXCEPT !.iTransmitting = TRUE]

TransmitIsr(c) ==
    /\ goes[c].at = "loop"
    /\ IF above.held \/ above.taken = above.given
       THEN Goes(c, "loop", "no more", 0) /\ UNCHANGED above
       ELSE /\ Goes(c, "loop", "got", above.taken + 1)
            /\ above' = [above EXCEPT !.taken = @ + 1]
    /\ UNCHANGED euart

\* It has waited while TxFifoFull().
Write(c) ==
    /\ Goes(c, "got", "loop", 0) /\ Len(euart.fifo) < KFifo
    /\ euart' = [euart EXCEPT !.fifo = Append(@, goes[c].r)]
    /\ UNCHANGED above

\* Mutant: the flag stays.
SendEnded_Keeps(e) == e
SendEnded(e) == [e EXCEPT !.iTransmitting = FALSE]

NoMore(c) ==
    /\ Goes(c, "no more", "idle", 0)
    /\ euart' = SendEnded(euart)
    /\ UNCHANGED above

-----------------------------------------------------------------------------
(* Isr(), the receiving part *)

Flow(rx) == SelectSeq(rx, LAMBDA ch : ch \in {"xon", "xoff"})

\* The data are taken to the layer above; the last flow control character counts.
ReceiveIsr ==
    LET read == SubSeq(euart.rx, 1, IF Len(euart.rx) < KRx THEN Len(euart.rx) ELSE KRx)
        flow == Flow(read)
        xon == flow # <<>> /\ Last(flow) = "xon"
    IN  /\ euart.rx # <<>> /\ goes["isr"].at = "idle"
        /\ XonAtEnd \/ ~xon \/ goes["thread"].at # "no more"
        /\ above' = IF flow = <<>> THEN above ELSE [above EXCEPT !.held = ~xon]
        /\ IF xon THEN Entered("isr") ELSE UNCHANGED goes
        /\ euart' = [euart EXCEPT !.rx = SubSeq(@, Len(read) + 1, Len(@)),
                                  !.iTransmitting = @ \/ xon]

-----------------------------------------------------------------------------
(* The line *)

LineSends ==
    /\ euart.fifo # <<>>
    /\ euart' = [euart EXCEPT !.fifo = Tail(@), !.sent = Append(@, Head(euart.fifo))]
    /\ UNCHANGED <<above, goes>>

LineReceives(ch) ==
    /\ Len(euart.rx) < KFifo
    /\ euart' = [euart EXCEPT !.rx = Append(@, ch)]
    /\ UNCHANGED <<above, goes>>

EuartNext ==
    \/ LayerWrites \/ ReceiveIsr \/ LineSends
    \/ \E c \in Contexts : TransmitIsr(c) \/ Write(c) \/ NoMore(c)
    \/ \E ch \in Received : LineReceives(ch)

EuartSpec == EuartInit /\ [][EuartNext]_euartVars

\* Thread and interrupt go on, and the line takes what is in the FIFO.
EuartFair ==
    /\ \A c \in Contexts : WF_euartVars(TransmitIsr(c) \/ Write(c) \/ NoMore(c))
    /\ WF_euartVars(ReceiveIsr) /\ WF_euartVars(LineSends)
-----------------------------------------------------------------------------
(* Properties *)

EuartTypeOK ==
    /\ euart.iTransmitting \in BOOLEAN
    /\ Len(euart.fifo) <= KFifo /\ Len(euart.rx) <= KFifo
    /\ \A c \in Contexts : goes[c].at \in {"idle", "loop", "got", "no more"}

\* The bytes are sent once each and in order, though the interrupt may enter
\* EnableTransmit() between the thread's taking a byte and writing it.
BytesInOrder ==
    LET all == euart.sent \o euart.fifo IN \A i \in 1..Len(all) : all[i] = i

\* A byte of the layer above is sent, unless the other end holds it back.
BytesAreSent ==
    \A n \in 1..KMaxBytes :
        (above.given >= n /\ ~above.held) ~> (Len(euart.sent) >= n \/ above.held)
=============================================================================
