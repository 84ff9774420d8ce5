---------------------------- MODULE SerialMouse ----------------------------
(***************************************************************************)
(* The serial mouse (beagle_drivers/serialmouse/serialmouse.cpp): its ISR  *)
(* takes one byte and its DFC puts the frames together.                    *)
(*                                                                         *)
(* A frame has three bytes, of which the first is marked; what they hold is*)
(* abstracted to the frame and the place in it.  External: the mouse, and  *)
(* the line, which may lose bytes.                                         *)
(***************************************************************************)
EXTENDS Naturals, Sequences

CONSTANTS
    KMaxFrames,     \* the mouse sends so many, numbered from 1
    KFifo,          \* bytes that the UART holds
    KApart,         \* so many bytes arrive before one is lost, and after it
    FirstByte       \* places at which the mouse may be when the driver starts

VARIABLES
    line,       \* the mouse and the UART
    mouse,      \* the driver
    reports     \* the frames it has reported, as triples of bytes

mouseVars == <<line, mouse, reports>>

Places == 0..2
NoByte == <<0, 0>>

MouseInit ==
    /\ \E place \in FirstByte :
          line = [next |-> <<1, place>>, fifo |-> <<>>,
                  kept |-> 0,           \* bytes since the start or the last that was lost
                  lost |-> {}]          \* frames that lost one
    /\ mouse = [iKey |-> NoByte, dfc |-> FALSE, enabled |-> TRUE,
                iByteIndex |-> 0, iB0 |-> NoByte, iB1 |-> NoByte]
    /\ reports = <<>>

\* Mutant: the interrupt stays enabled while a byte waits for the DFC.
Disabled_Not(m) == m
Disabled(m) == [m EXCEPT !.enabled = FALSE]

Isr ==
    /\ mouse.enabled /\ line.fifo # <<>>
    /\ mouse' = Disabled([mouse EXCEPT !.iKey = Head(line.fifo), !.dfc = TRUE])
    /\ line' = [line EXCEPT !.fifo = Tail(@)]
    /\ UNCHANGED reports

\* The byte index after a frame.
Ended(m) == [m EXCEPT !.iByteIndex = 3]     \* -1

KeyDfc ==
    LET b == mouse.iKey
        m == [mouse EXCEPT !.dfc = FALSE, !.enabled = TRUE]
    IN  /\ mouse.dfc
        /\ mouse' =
              IF b[2] = 0 THEN [m EXCEPT !.iByteIndex = 0, !.iB0 = b]
              ELSE IF m.iByteIndex = 0 THEN [m EXCEPT !.iByteIndex = 1, !.iB1 = b]
              ELSE IF m.iByteIndex = 1 THEN Ended(m)
              ELSE m
        /\ reports' = IF b[2] # 0 /\ m.iByteIndex = 1
                      THEN Append(reports, <<m.iB0, m.iB1, b>>) ELSE reports
        /\ UNCHANGED line

-----------------------------------------------------------------------------
(* The mouse and the line *)

Following(byte) ==
    IF byte[2] = 2 THEN <<byte[1] + 1, 0>> ELSE <<byte[1], byte[2] + 1>>

MouseSends ==
    /\ line.next[1] <= KMaxFrames /\ Len(line.fifo) < KFifo
    /\ line' = [line EXCEPT !.next = Following(@), !.fifo = Append(@, line.next),
                            !.kept = IF @ < KApart THEN @ + 1 ELSE @]
    /\ UNCHANGED <<mouse, reports>>

ByteIsLost ==
    /\ line.next[1] <= KMaxFrames /\ line.kept = KApart
    /\ line' = [line EXCEPT !.next = Following(@), !.kept = 0,
                            !.lost = @ \cup {line.next[1]}]
    /\ UNCHANGED <<mouse, reports>>

MouseNext == Isr \/ KeyDfc \/ MouseSends \/ ByteIsLost

MouseSpec == MouseInit /\ [][MouseNext]_mouseVars
-----------------------------------------------------------------------------
(* Properties *)

MouseTypeOK ==
    /\ mouse.iByteIndex \in 0..3 /\ line.kept \in 0..KApart
    /\ Len(line.fifo) <= KFifo

Frame(f) == <<<<f, 0>>, <<f, 1>>, <<f, 2>>>>

\* What is reported are frames that the mouse has sent, once each, and all that have
\* lost no byte, as long as of any few bytes only one is lost.
FramesAreTrue ==
    /\ \A i \in 1..Len(reports) : \E f \in 1..KMaxFrames : reports[i] = Frame(f)
    /\ \A i \in 1..Len(reports), j \in 1..Len(reports) : i # j => reports[i] # reports[j]
    /\ line.fifo = <<>> /\ ~mouse.dfc =>
          \A f \in 1..(line.next[1] - 1) \ line.lost :
              \E i \in 1..Len(reports) : reports[i] = Frame(f)
=============================================================================
