---------------------------- MODULE DriverProofs ----------------------------
(* Proofs about the drivers whose state is small and whose interleavings are not: the
   extended UART's transmission, the kernel tick, the display's buffers, the touch
   panel's samples, and the USB client controller's control endpoint and bulk OUT
   endpoints.  Each says for which constants. *)
EXTENDS UartTransmit, MsTick, LcdBuffers, TouchScreen, UsbControl, UsbBulkOut,
        SequenceTheorems, TLAPS

-----------------------------------------------------------------------------
(* UartTransmit: for any number of bytes, any sizes of the FIFO and of the
   interrupt's batch, and XON and XOFF at any time.

   The property alone is not inductive: that a byte is not overtaken needs that
   thread and interrupt are never both inside EnableTransmit(), which the swap of
   iTransmitting provides only if the flag is exactly the presence of one of them,
   and that whoever holds a byte holds the last. *)

Active(c) == goes[c].at # "idle"

\* The contents of the receive FIFO do not matter.
DataTypes ==
    /\ DOMAIN euart = {"iTransmitting", "fifo", "sent", "rx"}
    /\ euart.iTransmitting \in BOOLEAN
    /\ euart.fifo \in Seq(Nat) /\ euart.sent \in Seq(Nat)
    /\ DOMAIN above = {"given", "taken", "held"}
    /\ above.taken \in Nat

Place == [at : {"idle", "loop", "got", "no more"}, r : Nat]
PlaceTypes == goes \in [Contexts -> Place]

\* The flag is set exactly while one of the two is inside EnableTransmit().
OneInside ==
    /\ euart.iTransmitting <=> \E c \in Contexts : Active(c)
    /\ \A c, d \in Contexts : Active(c) /\ Active(d) => c = d

Moved == Len(euart.sent) + Len(euart.fifo)

\* All bytes that were taken are sent or in the FIFO, but one that is being written.
LastHeld ==
    /\ \A c \in Contexts :
          goes[c].at = "got" => goes[c].r = above.taken /\ Moved + 1 = above.taken
    /\ (\A c \in Contexts : goes[c].at # "got") => Moved = above.taken

\* The bytes sent are numbered from 1, those of the FIFO go on from them.
Numbered(sent, fifo) ==
    /\ \A i \in 1..Len(sent) : sent[i] = i
    /\ \A i \in 1..Len(fifo) : fifo[i] = Len(sent) + i

EInv == DataTypes /\ PlaceTypes /\ OneInside /\ LastHeld /\ Numbered(euart.sent, euart.fifo)

-----------------------------------------------------------------------------
(* Sequences *)

\* A byte that is written to the FIFO goes on with the numbers.
LEMMA WrittenIsNext ==
    ASSUME NEW sent \in Seq(Nat), NEW fifo \in Seq(Nat), NEW b \in Nat,
           Numbered(sent, fifo), b = Len(sent) + Len(fifo) + 1
    PROVE  /\ Append(fifo, b) \in Seq(Nat)
           /\ Len(Append(fifo, b)) = Len(fifo) + 1
           /\ Numbered(sent, Append(fifo, b))
<1>1. /\ Len(sent) \in Nat /\ Len(fifo) \in Nat
      /\ Append(fifo, b) \in Seq(Nat) /\ Len(Append(fifo, b)) = Len(fifo) + 1
      /\ \A i \in 1..(Len(fifo) + 1) :
            Append(fifo, b)[i] = IF i <= Len(fifo) THEN fifo[i] ELSE b
  OBVIOUS
<1>2. \A i \in 1..Len(Append(fifo, b)) : Append(fifo, b)[i] = Len(sent) + i
  <2> SUFFICES ASSUME NEW i \in 1..(Len(fifo) + 1)
               PROVE  Append(fifo, b)[i] = Len(sent) + i
    BY <1>1
  <2>1. CASE i = Len(fifo) + 1
    BY <1>1, <2>1
  <2>2. CASE i # Len(fifo) + 1
    <3>1. i \in 1..Len(fifo)
      BY <1>1, <2>2
    <3>2. Append(fifo, b)[i] = fifo[i]
      BY <1>1, <3>1
    <3> QED
      BY <3>1, <3>2 DEF Numbered
  <2> QED
    BY <2>1, <2>2
<1> QED
  BY <1>1, <1>2 DEF Numbered

\* A byte that goes from the FIFO to the line keeps its number.
LEMMA SentIsNext ==
    ASSUME NEW sent \in Seq(Nat), NEW fifo \in Seq(Nat), Numbered(sent, fifo), fifo # <<>>
    PROVE  /\ Append(sent, Head(fifo)) \in Seq(Nat) /\ Tail(fifo) \in Seq(Nat)
           /\ Len(Append(sent, Head(fifo))) = Len(sent) + 1
           /\ Len(Tail(fifo)) = Len(fifo) - 1
           /\ Numbered(Append(sent, Head(fifo)), Tail(fifo))
<1>1. /\ Head(fifo) = fifo[1] /\ Head(fifo) \in Nat /\ Len(fifo) \in Nat /\ Len(fifo) > 0
      /\ Tail(fifo) \in Seq(Nat) /\ Len(Tail(fifo)) = Len(fifo) - 1
      /\ \A i \in 1..(Len(fifo) - 1) : Tail(fifo)[i] = fifo[i + 1]
  OBVIOUS
<1>2. fifo[1] = Len(sent) + 1
  BY <1>1 DEF Numbered
<1> QED
  BY <1>1, <1>2 DEF Numbered

LEMMA JoinedInOrder ==
    ASSUME NEW sent \in Seq(Nat), NEW fifo \in Seq(Nat), Numbered(sent, fifo),
           NEW i \in 1..Len(sent \o fifo)
    PROVE  (sent \o fifo)[i] = i
<1>1. Len(sent) \in Nat /\ Len(fifo) \in Nat /\ Len(sent \o fifo) = Len(sent) + Len(fifo)
  OBVIOUS
<1>2. CASE i <= Len(sent)
  BY <1>1, <1>2 DEF Numbered
<1>3. CASE i > Len(sent)
  <2>1. /\ i - Len(sent) \in 1..Len(fifo)
        /\ (sent \o fifo)[i] = fifo[i - Len(sent)]
    BY <1>1, <1>3
  <2> QED
    BY <1>1, <2>1 DEF Numbered
<1> QED
  BY <1>1, <1>2, <1>3

-----------------------------------------------------------------------------
(* The steps *)

LEMMA UartInitially == EuartInit => EInv
BY DEF EuartInit, EInv, DataTypes, PlaceTypes, Place, OneInside, LastHeld, Moved, Numbered, Active, Contexts

LEMMA PlacesAre ==
    ASSUME NEW at \in {"idle", "loop", "got", "no more"}, NEW r \in Nat
    PROVE  [at |-> at, r |-> r] \in Place
BY DEF Place

LEMMA PlaceIs ==
    ASSUME NEW p, NEW at, NEW r, p = [at |-> at, r |-> r]
    PROVE  p.at = at /\ p.r = r
OBVIOUS

\* A context that goes elsewhere leaves the other where it is.
LEMMA Moves ==
    ASSUME PlaceTypes, NEW c \in Contexts, NEW p \in Place, goes' = [goes EXCEPT ![c] = p]
    PROVE  /\ PlaceTypes' /\ goes'[c] = p
           /\ \A d \in Contexts : d # c => goes'[d] = goes[d]
BY DEF PlaceTypes

\* A step that leaves bytes and places alone disturbs nothing.
LEMMA OthersKeep ==
    ASSUME EInv, DOMAIN euart' = DOMAIN euart, euart'.fifo = euart.fifo, euart'.sent = euart.sent,
           DOMAIN above' = DOMAIN above, above'.taken = above.taken,
           euart'.iTransmitting \in BOOLEAN
    PROVE  DataTypes' /\ Moved' = Moved /\ Numbered(euart'.sent, euart'.fifo)
BY DEF EInv, DataTypes, Moved

\* The layer above gives bytes: the thread enters unless the interrupt is inside.
LEMMA LayerWritesKeeps == EInv /\ LayerWrites => EInv'
<1> SUFFICES ASSUME EInv, LayerWrites
             PROVE  EInv'
  OBVIOUS
<1>1. /\ euart' = [euart EXCEPT !.iTransmitting = TRUE]
      /\ goes' = [goes EXCEPT !["thread"] =
                     [at |-> IF euart.iTransmitting THEN "idle" ELSE "loop", r |-> 0]]
      /\ \E n : above' = [above EXCEPT !.given = n]
      /\ goes["thread"].at = "idle" /\ goes["isr"].at = "idle"
  BY DEF LayerWrites, Runs, Entered
<1>2. /\ ~euart.iTransmitting
      /\ goes' = [goes EXCEPT !["thread"] = [at |-> "loop", r |-> 0]]
  BY <1>1 DEF EInv, OneInside, Active, Contexts
<1>3. /\ euart'.fifo = euart.fifo /\ euart'.sent = euart.sent /\ euart'.iTransmitting = TRUE
      /\ DOMAIN euart' = DOMAIN euart
      /\ above'.taken = above.taken /\ DOMAIN above' = DOMAIN above
  BY <1>1 DEF EInv, DataTypes
<1>4. /\ PlaceTypes' /\ goes'["isr"].at = "idle" /\ goes'["thread"].at = "loop"
  <2>1. [at |-> "loop", r |-> 0] \in Place
    BY PlacesAre
  <2> QED
    <3>1. "thread" \in Contexts /\ "isr" \in Contexts /\ "isr" # "thread" /\ PlaceTypes
      BY DEF EInv, Contexts
    <3>2. PlaceTypes' /\ goes'["thread"] = [at |-> "loop", r |-> 0] /\ goes'["isr"] = goes["isr"]
      BY <1>2, <2>1, <3>1, Moves
    <3> QED
      BY <1>1, <3>2
<1>5. OneInside'
  BY <1>3, <1>4 DEF OneInside, Active, Contexts
<1>6. DataTypes' /\ Moved' = Moved /\ Numbered(euart'.sent, euart'.fifo)
  BY <1>3, OthersKeep
<1>7. LastHeld'
  BY <1>1, <1>3, <1>4, <1>6 DEF EInv, LastHeld, Contexts
<1> QED
  BY <1>4, <1>5, <1>6, <1>7 DEF EInv

\* A byte is taken, or there is none.
LEMMA TransmitIsrKeeps ==
    ASSUME EInv, NEW c \in Contexts, TransmitIsr(c)
    PROVE  EInv'
<1>1. /\ goes[c].at = "loop" /\ euart' = euart
      /\ \/ above' = above /\ goes' = [goes EXCEPT ![c] = [at |-> "no more", r |-> 0]]
         \/ /\ above' = [above EXCEPT !.taken = above.taken + 1]
            /\ goes' = [goes EXCEPT ![c] = [at |-> "got", r |-> above.taken + 1]]
  BY DEF TransmitIsr, Goes
<1>2. \A d \in Contexts : d # c => goes[d].at = "idle" /\ goes'[d] = goes[d]
  BY <1>1 DEF EInv, PlaceTypes, OneInside, Active
<1>3. Moved = above.taken /\ Moved' = Moved /\ above.taken \in Nat
  BY <1>1, <1>2 DEF EInv, DataTypes, LastHeld, Moved
<1>4. DataTypes'
  <2>1. DOMAIN above' = DOMAIN above /\ above'.taken \in {above.taken, above.taken + 1}
    BY <1>1 DEF EInv, DataTypes
  <2>2. above'.taken \in Nat
    BY <1>3, <2>1
  <2> QED
    BY <1>1, <2>1, <2>2 DEF EInv, DataTypes
<1>5. PlaceTypes'
  <2>1. [at |-> "no more", r |-> 0] \in Place /\ [at |-> "got", r |-> above.taken + 1] \in Place
    <3>1. above.taken + 1 \in Nat
      BY <1>3
    <3> QED
      BY <3>1, PlacesAre
  <2> QED
    BY <1>1, <2>1, Moves DEF EInv
<1>6. /\ \/ above'.taken = above.taken /\ goes'[c] = [at |-> "no more", r |-> 0]
         \/ above'.taken = above.taken + 1 /\ goes'[c] = [at |-> "got", r |-> above.taken + 1]
  <2>1. DOMAIN above = {"given", "taken", "held"}
    BY DEF EInv, DataTypes
  <2>2. DOMAIN goes = Contexts
    BY DEF EInv, PlaceTypes
  <2> QED
    BY <1>1, <2>1, <2>2
<1>7. OneInside'
  <2>1. goes'[c].at # "idle" /\ goes[c].at # "idle"
    <3>1. goes'[c].at = "no more" \/ goes'[c].at = "got"
      <4>1. CASE goes'[c] = [at |-> "no more", r |-> 0]
        BY <4>1, PlaceIs
      <4>2. CASE goes'[c] = [at |-> "got", r |-> above.taken + 1]
        BY <4>2, PlaceIs
      <4> QED
        BY <1>6, <4>1, <4>2
    <3> QED
      BY <1>1, <3>1
  <2> QED
    BY <1>1, <1>2, <2>1 DEF EInv, OneInside, Active
<1>8. LastHeld'
  <2>1. CASE goes'[c] = [at |-> "no more", r |-> 0] /\ above'.taken = above.taken
    <3>1. \A d \in Contexts : goes'[d].at # "got"
      <4>1. goes'[c].at = "no more"
        BY <2>1, PlaceIs
      <4> QED
        BY <1>2, <4>1
    <3> QED
      BY <1>3, <2>1, <3>1 DEF LastHeld
  <2>2. CASE goes'[c] = [at |-> "got", r |-> above.taken + 1] /\ above'.taken = above.taken + 1
    <3>1. \A d \in Contexts : goes'[d].at = "got" => d = c
      BY <1>2, <2>2
    <3>2. goes'[c].at = "got" /\ goes'[c].r = above'.taken /\ Moved' + 1 = above'.taken
      BY <1>3, <2>2
    <3> QED
      BY <3>1, <3>2 DEF LastHeld
  <2> QED
    BY <1>6, <2>1, <2>2
<1> QED
  BY <1>1, <1>4, <1>5, <1>7, <1>8 DEF EInv

\* The byte taken is the next one of the FIFO.
LEMMA WriteKeeps ==
    ASSUME EInv, NEW c \in Contexts, Write(c)
    PROVE  EInv'
<1>1. /\ goes[c].at = "got" /\ above' = above
      /\ goes' = [goes EXCEPT ![c] = [at |-> "loop", r |-> 0]]
      /\ euart' = [euart EXCEPT !.fifo = Append(euart.fifo, goes[c].r)]
  BY DEF Write, Goes
<1>2. /\ \A d \in Contexts : d # c => goes[d].at = "idle" /\ goes'[d] = goes[d]
      /\ goes'[c] = [at |-> "loop", r |-> 0]
  BY <1>1 DEF EInv, PlaceTypes, OneInside, Active
<1>3. Moved + 1 = above.taken /\ goes[c].r = above.taken
  BY <1>1 DEF EInv, LastHeld
<1>4. /\ euart'.fifo = Append(euart.fifo, goes[c].r)
      /\ euart'.sent = euart.sent /\ euart'.iTransmitting = euart.iTransmitting
      /\ DOMAIN euart' = DOMAIN euart
  BY <1>1 DEF EInv, DataTypes
<1>5. /\ euart'.fifo \in Seq(Nat) /\ Len(euart'.fifo) = Len(euart.fifo) + 1
      /\ Numbered(euart.sent, euart'.fifo)
  <2>1. goes[c].r \in Nat /\ goes[c].r = Len(euart.sent) + Len(euart.fifo) + 1
    BY <1>3 DEF EInv, DataTypes, Moved
  <2>2. euart.sent \in Seq(Nat) /\ euart.fifo \in Seq(Nat) /\ Numbered(euart.sent, euart.fifo)
    BY DEF EInv, DataTypes
  <2>3. /\ Append(euart.fifo, goes[c].r) \in Seq(Nat)
        /\ Len(Append(euart.fifo, goes[c].r)) = Len(euart.fifo) + 1
        /\ Numbered(euart.sent, Append(euart.fifo, goes[c].r))
    <3> HIDE DEF Numbered
    <3> QED
      BY <2>1, <2>2, WrittenIsNext
  <2> QED
    BY <1>4, <2>3
<1>6. DataTypes'
  BY <1>1, <1>4, <1>5 DEF EInv, DataTypes
<1>7. PlaceTypes' /\ OneInside'
  <2>1. PlaceTypes'
    <3>1. [at |-> "loop", r |-> 0] \in Place /\ [at |-> "idle", r |-> 0] \in Place
      BY PlacesAre
    <3> QED
      BY <1>1, <3>1, Moves DEF EInv
  <2> QED
    BY <1>1, <1>2, <1>4, <2>1 DEF EInv, OneInside, Active
<1>8. Moved' = above.taken
  BY <1>3, <1>4, <1>5 DEF EInv, DataTypes, Moved
<1>9. LastHeld'
  BY <1>1, <1>2, <1>8 DEF LastHeld
<1> QED
  BY <1>4, <1>5, <1>6, <1>7, <1>9 DEF EInv

\* Whoever leaves clears the flag.
LEMMA NoMoreKeeps ==
    ASSUME EInv, NEW c \in Contexts, NoMore(c)
    PROVE  EInv'
<1>1. /\ goes[c].at = "no more" /\ above' = above
      /\ goes' = [goes EXCEPT ![c] = [at |-> "idle", r |-> 0]]
      /\ euart' = [euart EXCEPT !.iTransmitting = FALSE]
  BY DEF NoMore, Goes, SendEnded
<1>2. /\ \A d \in Contexts : d # c => goes[d].at = "idle" /\ goes'[d] = goes[d]
      /\ goes'[c] = [at |-> "idle", r |-> 0]
  BY <1>1 DEF EInv, PlaceTypes, OneInside, Active
<1>3. /\ euart'.fifo = euart.fifo /\ euart'.sent = euart.sent /\ euart'.iTransmitting = FALSE
      /\ DOMAIN euart' = DOMAIN euart
  BY <1>1 DEF EInv, DataTypes
<1>4. DataTypes' /\ Moved' = Moved /\ Numbered(euart'.sent, euart'.fifo)
  BY <1>1, <1>3, OthersKeep
<1>5. PlaceTypes' /\ OneInside'
  <2>1. PlaceTypes'
    <3>1. [at |-> "loop", r |-> 0] \in Place /\ [at |-> "idle", r |-> 0] \in Place
      BY PlacesAre
    <3> QED
      BY <1>1, <3>1, Moves DEF EInv
  <2> QED
    BY <1>2, <1>3, <2>1 DEF OneInside, Active
<1>6. LastHeld'
  <2>1. \A d \in Contexts : goes[d].at # "got" /\ goes'[d].at # "got"
    <3>1. goes'[c] = [at |-> "idle", r |-> 0]
      BY <1>2
    <3>2. goes'[c].at = "idle"
      BY <3>1, PlaceIs
    <3> QED
      BY <1>1, <1>2, <3>2
  <2> QED
    BY <1>1, <1>4, <2>1 DEF EInv, LastHeld
<1> QED
  BY <1>4, <1>5, <1>6 DEF EInv

\* The interrupt enters for an XON only if nobody is inside.
LEMMA ReceiveIsrKeeps == EInv /\ ReceiveIsr => EInv'
<1> SUFFICES ASSUME EInv, ReceiveIsr
             PROVE  EInv'
  OBVIOUS
<1> DEFINE read == SubSeq(euart.rx, 1, IF Len(euart.rx) < KRx THEN Len(euart.rx) ELSE KRx)
           flow == Flow(read)
           xon  == flow # <<>> /\ Last(flow) = "xon"
<1>1. /\ goes["isr"].at = "idle"
      /\ above' = IF flow = <<>> THEN above ELSE [above EXCEPT !.held = ~xon]
      /\ IF xon THEN Entered("isr") ELSE UNCHANGED goes
      /\ euart' = [euart EXCEPT !.rx = SubSeq(@, Len(read) + 1, Len(@)),
                                !.iTransmitting = @ \/ xon]
  BY DEF ReceiveIsr
<1>2. xon \in BOOLEAN
  BY DEF xon
<1>3. /\ euart'.fifo = euart.fifo /\ euart'.sent = euart.sent
      /\ euart'.iTransmitting = (euart.iTransmitting \/ xon)
      /\ DOMAIN euart' = DOMAIN euart
      /\ above'.taken = above.taken /\ DOMAIN above' = DOMAIN above
  BY <1>1 DEF EInv, DataTypes
<1> HIDE DEF xon, flow, read
<1>4. DataTypes' /\ Moved' = Moved /\ Numbered(euart'.sent, euart'.fifo)
  <2>1. euart'.iTransmitting \in BOOLEAN
    BY <1>2, <1>3 DEF EInv, DataTypes
  <2> QED
    BY <1>3, <2>1, OthersKeep
<1>5. CASE xon /\ ~euart.iTransmitting
  <2>1. /\ goes["thread"].at = "idle" /\ euart'.iTransmitting = TRUE
        /\ goes' = [goes EXCEPT !["isr"] = [at |-> "loop", r |-> 0]]
    BY <1>1, <1>3, <1>5 DEF EInv, OneInside, Entered, Active, Contexts
  <2>2. PlaceTypes' /\ goes'["thread"].at = "idle" /\ goes'["isr"].at = "loop"
    <3>1. /\ "thread" \in Contexts /\ "isr" \in Contexts /\ "isr" # "thread" /\ PlaceTypes
          /\ [at |-> "loop", r |-> 0] \in Place
      BY PlacesAre DEF EInv, Contexts
    <3>2. PlaceTypes' /\ goes'["isr"] = [at |-> "loop", r |-> 0] /\ goes'["thread"] = goes["thread"]
      BY <2>1, <3>1, Moves
    <3> QED
      BY <2>1, <3>2
  <2>3. OneInside'
    BY <2>1, <2>2 DEF OneInside, Active, Contexts
  <2>4. LastHeld'
    BY <1>1, <1>3, <1>4, <2>1, <2>2 DEF EInv, LastHeld, Contexts
  <2> QED
    BY <1>4, <2>2, <2>3, <2>4 DEF EInv
<1>6. CASE ~(xon /\ ~euart.iTransmitting)
  <2>1. euart'.iTransmitting = euart.iTransmitting
    BY <1>2, <1>3, <1>6 DEF EInv, DataTypes
  <2>2. goes' = goes \/ goes' = [goes EXCEPT !["isr"] = [at |-> "idle", r |-> 0]]
    BY <1>1, <1>6 DEF Entered
  <2>3. CASE goes' = goes
    BY <1>3, <1>4, <2>1, <2>3 DEF EInv, PlaceTypes, OneInside, LastHeld, Active
  <2>4. CASE goes' = [goes EXCEPT !["isr"] = [at |-> "idle", r |-> 0]]
    <3>1. [at |-> "idle", r |-> 0] \in Place
      BY PlacesAre
    <3>2. /\ PlaceTypes' /\ goes'["isr"].at = "idle"
          /\ goes'["thread"] = goes["thread"]
      <4>1. "thread" \in Contexts /\ "isr" \in Contexts /\ "isr" # "thread" /\ PlaceTypes
        BY DEF EInv, Contexts
      <4>2. PlaceTypes' /\ goes'["isr"] = [at |-> "idle", r |-> 0] /\ goes'["thread"] = goes["thread"]
        BY <2>4, <3>1, <4>1, Moves
      <4> QED
        BY <4>2
    <3>3. OneInside' /\ LastHeld'
      BY <1>1, <1>3, <1>4, <2>1, <3>2 DEF EInv, OneInside, LastHeld, Active, Contexts
    <3> QED
      BY <1>4, <3>2, <3>3 DEF EInv
  <2> QED
    BY <2>2, <2>3, <2>4
<1> QED
  BY <1>5, <1>6

\* The first byte of the FIFO becomes the last one sent.
LEMMA LineSendsKeeps == EInv /\ LineSends => EInv'
<1> SUFFICES ASSUME EInv, LineSends
             PROVE  EInv'
  OBVIOUS
<1>1. /\ euart.fifo # <<>> /\ above' = above /\ goes' = goes
      /\ euart' = [euart EXCEPT !.fifo = Tail(euart.fifo),
                                !.sent = Append(euart.sent, Head(euart.fifo))]
  BY DEF LineSends
<1>2. /\ euart'.fifo = Tail(euart.fifo) /\ euart'.sent = Append(euart.sent, Head(euart.fifo))
      /\ euart'.iTransmitting = euart.iTransmitting /\ DOMAIN euart' = DOMAIN euart
  BY <1>1 DEF EInv, DataTypes
<1>3. /\ euart'.sent \in Seq(Nat) /\ Len(euart'.sent) = Len(euart.sent) + 1
      /\ euart'.fifo \in Seq(Nat) /\ Len(euart'.fifo) = Len(euart.fifo) - 1
      /\ Numbered(euart'.sent, euart'.fifo)
  <2>1. euart.sent \in Seq(Nat) /\ euart.fifo \in Seq(Nat) /\ Numbered(euart.sent, euart.fifo)
    BY DEF EInv, DataTypes
  <2> QED
    BY <1>1, <1>2, <2>1, SentIsNext
<1>4. DataTypes'
  BY <1>1, <1>2, <1>3 DEF EInv, DataTypes
<1>5. PlaceTypes' /\ OneInside'
  BY <1>1, <1>2 DEF EInv, PlaceTypes, OneInside, Active
<1>6. Moved' = Moved
  BY <1>3 DEF EInv, DataTypes, Moved
<1>7. LastHeld'
  BY <1>1, <1>6 DEF EInv, LastHeld
<1> QED
  BY <1>3, <1>4, <1>5, <1>7 DEF EInv

LEMMA LineReceivesKeeps ==
    ASSUME EInv, NEW ch \in Received, LineReceives(ch)
    PROVE  EInv'
<1>1. /\ euart' = [euart EXCEPT !.rx = Append(euart.rx, ch)]
      /\ above' = above /\ goes' = goes
  BY DEF LineReceives
<1>2. /\ euart'.fifo = euart.fifo /\ euart'.sent = euart.sent
      /\ euart'.iTransmitting = euart.iTransmitting /\ DOMAIN euart' = DOMAIN euart
      /\ euart'.iTransmitting \in BOOLEAN
  BY <1>1 DEF EInv, DataTypes
<1>3. DataTypes' /\ Moved' = Moved /\ Numbered(euart'.sent, euart'.fifo)
  BY <1>1, <1>2, OthersKeep
<1> QED
  BY <1>1, <1>2, <1>3 DEF EInv, PlaceTypes, OneInside, LastHeld, Active

LEMMA UartImplied == EInv => BytesInOrder
BY JoinedInOrder DEF EInv, DataTypes, BytesInOrder

\* The bytes are sent once each and in the order given, though an interrupt with an XON may
\* enter EnableTransmit() between any two steps of the thread that is inside.
THEOREM SentInOrder == EuartSpec => []BytesInOrder
<1>1. EInv /\ [EuartNext]_euartVars => EInv'
  <2>1. CASE UNCHANGED euartVars
    BY <2>1 DEF euartVars, EInv, DataTypes, PlaceTypes, OneInside, LastHeld, Moved, Active
  <2> QED
    BY <2>1, LayerWritesKeeps, TransmitIsrKeeps, WriteKeeps, NoMoreKeeps, ReceiveIsrKeeps, LineSendsKeeps,
       LineReceivesKeeps DEF EuartNext
<1> QED
  BY <1>1, UartInitially, UartImplied, PTL DEF EuartSpec

-----------------------------------------------------------------------------
(* MsTick: for any lengths of sleep and any number of ticks, wherever the timer
   overflows *)

\* A sleep that is suppressed lasts two ticks at least, as in the code.
MsTickConstants ==
    /\ KMinSuppressTickCount \in Nat \ {0, 1}
    /\ KMaxIdleTicks \in Nat
    /\ KMinSuppressTickCount <= KMaxIdleTicks
    /\ SleepRequests \subseteq Nat

Places == {"running", "disabled", "wrapping", "asleep", "read", "readTisr", "readTocr",
           "unwrapped", "normal"}

TickTypes ==
    /\ timer \in [TOWR : Nat, TOCR : Nat, TISR : BOOLEAN]
    /\ idle \in [pc : Places, max : Nat, tisr : BOOLEAN, actual : Nat, wrapped : BOOLEAN]
    /\ elapsed \in Nat /\ isr \in Nat /\ slept \in Nat /\ lost \in Int

One(pending) == IF pending THEN 1 ELSE 0

Long == Target(idle.max) >= KMinSuppressTickCount

\* The milliseconds that neither the ISR nor a sleep has counted yet, and will.
Uncounted == elapsed - isr - slept - lost

Normal == timer.TOWR = 0 /\ timer.TOCR = 0

\* The timer ticks once a millisecond.
Ticking == Normal /\ Uncounted = One(timer.TISR)

\* The timer counts the overflows of a sleep, and returns to zero with the interrupt.
Counting ==
    /\ timer.TOWR = Target(idle.max) /\ Long
    /\ timer.TOCR < Target(idle.max)
    /\ timer.TISR => timer.TOCR = 0
    /\ Uncounted = IF timer.TISR THEN Target(idle.max) ELSE timer.TOCR

\* Before the sleep, a tick that comes is counted in TOCR, or its interrupt is cleared.
SettingUp ==
    /\ timer.TOWR = Target(idle.max) /\ Long
    /\ timer.TOCR < Target(idle.max) /\ Uncounted = timer.TOCR
    /\ ~idle.wrapped => timer.TOCR = 0

\* Between the reads of TCRR and TISR.
Waking ==
    /\ timer.TOWR = Target(idle.max) /\ Long
    /\ timer.TOCR < Target(idle.max)
    /\ timer.TISR /\ ~idle.wrapped => timer.TOCR = 0
    /\ Uncounted = IF timer.TISR THEN Target(idle.max) + One(idle.wrapped) ELSE timer.TOCR

\* What TISR was decides how a tick that came since TCRR was read is counted.
TisrRead ==
    /\ timer.TOWR = Target(idle.max) /\ Long
    /\ timer.TOCR < Target(idle.max)
    /\ idle.tisr /\ ~idle.wrapped => timer.TOCR = 0
    /\ IF idle.tisr THEN timer.TISR /\ Uncounted = Target(idle.max) + One(idle.wrapped)
       ELSE Uncounted = timer.TOCR + One(timer.TISR) /\ (timer.TISR => idle.wrapped)

\* The length of the sleep has been read from the registers, and the tick that was
\* pending then is left to the ISR.
LengthRead ==
    IF idle.tisr THEN timer.TISR /\ Uncounted = idle.actual + 1 + One(idle.wrapped)
    ELSE Uncounted = idle.actual + One(timer.TISR) /\ (timer.TISR => idle.wrapped)

\* What is true at each place of the idle thread.
AtPlace ==
    /\ idle.pc = "running" => Ticking
    /\ idle.pc = "disabled" => Normal /\ Uncounted = 0 /\ (timer.TISR <=> idle.wrapped) /\ Long
    /\ idle.pc = "wrapping" => SettingUp
    /\ idle.pc = "asleep" => IF Long THEN Counting ELSE Ticking
    /\ idle.pc = "read" => Waking
    /\ idle.pc = "readTisr" => TisrRead
    /\ idle.pc \in {"readTocr", "unwrapped", "normal"} => LengthRead
    /\ idle.pc = "unwrapped" => timer.TOWR = 0
    /\ idle.pc = "normal" => Normal

TickInv == TickTypes /\ AtPlace

\* A sleep is suppressed exactly where EndIdleTickSuppression() takes it to be.
LEMMA LongSleeps ==
    ASSUME MsTickConstants, NEW max \in Nat
    PROVE  /\ Target(max) \in Nat
           /\ Target(max) >= KMinSuppressTickCount <=> max >= KMinSuppressTickCount
           /\ Target(max) >= KMinSuppressTickCount => Target(max) >= 2
BY DEF MsTickConstants, Target

\* The boot state satisfies the invariant.
LEMMA TickInitially == MsTickInit => TickInv
BY DEF MsTickInit, TickInv, TickTypes, AtPlace, Places, Ticking, Normal, Uncounted, One

\* A millisecond passes: it is counted in TOCR, or the interrupt becomes pending.
LEMMA OverflowKeeps ==
    ASSUME MsTickConstants, TickInv, Overflow
    PROVE  TickInv'
<1>0. /\ TickTypes /\ AtPlace
      /\ elapsed' = elapsed + 1 /\ isr' = isr /\ slept' = slept
      /\ idle' = [idle EXCEPT !.wrapped = TRUE]
      /\ lost' = lost + LostHere
  BY DEF Overflow, TickInv
<1>1. /\ idle.pc \in Places
      /\ IF idle.pc \in {"running", "asleep"} THEN ~timer.TISR ELSE ~idle.wrapped
  BY <1>0 DEF Overflow, TickTypes
<1>2. /\ idle.max \in Nat /\ Target(idle.max) \in Nat /\ (Long => Target(idle.max) >= 2)
      /\ timer.TOCR \in Nat /\ timer.TOWR \in Nat /\ timer.TISR \in BOOLEAN
      /\ idle.actual \in Nat /\ idle.tisr \in BOOLEAN
  BY <1>0, LongSleeps DEF TickTypes, Long
<1>3. timer' = IF MatchMasked
               THEN [timer EXCEPT !.TOCR = timer.TOCR + 1]
               ELSE [timer EXCEPT !.TOCR = 0, !.TISR = TRUE]
  BY DEF Overflow
<1>4. LostHere \in Int
  BY <1>2 DEF LostHere
<1>5. TickTypes'
  <2>0. elapsed' \in Nat /\ isr' \in Nat /\ slept' \in Nat /\ lost' \in Int
    BY <1>0, <1>4 DEF TickTypes
  <2>1. idle' \in [pc : Places, max : Nat, tisr : BOOLEAN, actual : Nat, wrapped : BOOLEAN]
    <3>1. idle \in [pc : Places, max : Nat, tisr : BOOLEAN, actual : Nat, wrapped : BOOLEAN]
      BY <1>0 DEF TickTypes
    <3> QED
      BY <1>0, <3>1
  <2>2. CASE MatchMasked
    BY <1>0, <1>2, <1>3, <2>0, <2>1, <2>2 DEF TickTypes
  <2>3. CASE ~MatchMasked
    BY <1>0, <1>3, <2>0, <2>1, <2>3 DEF TickTypes
  <2> QED
    BY <2>2, <2>3
<1>6. /\ Uncounted' = Uncounted + 1 - LostHere /\ Uncounted \in Int
      /\ idle'.pc = idle.pc /\ idle'.max = idle.max /\ idle'.wrapped
      /\ idle'.tisr = idle.tisr /\ idle'.actual = idle.actual
  BY <1>0, <1>4 DEF TickTypes, Uncounted
<1>7. CASE MatchMasked
  <2>1. timer'.TOCR = timer.TOCR + 1 /\ timer'.TOWR = timer.TOWR /\ timer'.TISR = timer.TISR
    BY <1>0, <1>3, <1>7 DEF TickTypes
  <2> QED
    BY <1>0, <1>1, <1>2, <1>5, <1>6, <1>7, <2>1
       DEF TickInv, AtPlace, Places, LostHere, MatchMasked, Ticking, Normal, Counting, SettingUp,
           Waking, TisrRead, LengthRead, Long, Target, One
<1>8. CASE ~MatchMasked
  <2>1. timer'.TOCR = 0 /\ timer'.TOWR = timer.TOWR /\ timer'.TISR
    BY <1>0, <1>3, <1>8 DEF TickTypes
  <2> QED
    BY <1>0, <1>1, <1>2, <1>5, <1>6, <1>8, <2>1
       DEF TickInv, AtPlace, Places, LostHere, MatchMasked, Ticking, Normal, Counting, SettingUp,
           Waking, TisrRead, LengthRead, Long, Target, One
<1> QED
  BY <1>7, <1>8

\* The tick ISR counts the tick.
LEMMA TickIsrKeeps ==
    ASSUME TickInv, MsTickIsr
    PROVE  TickInv'
<1>1. TickTypes'
  <2>1. isr' \in Nat /\ idle' = idle /\ elapsed' = elapsed /\ slept' = slept /\ lost' = lost
    BY DEF TickInv, TickTypes, MsTickIsr
  <2>2. timer' \in [TOWR : Nat, TOCR : Nat, TISR : BOOLEAN]
    BY DEF TickInv, TickTypes, MsTickIsr
  <2> QED
    BY <2>1, <2>2 DEF TickInv, TickTypes
<1>2. Normal' /\ Uncounted' = Uncounted - 1 /\ ~timer'.TISR /\ idle' = idle
  BY DEF TickInv, TickTypes, MsTickIsr, AtPlace, Ticking, Normal, Uncounted
<1>3. Ticking' /\ idle.pc = "running"
  BY <1>2 DEF TickInv, MsTickIsr, AtPlace, Ticking, One
<1> QED
  BY <1>1, <1>2, <1>3 DEF TickInv, AtPlace

\* SuppressIdleTicks().
LEMMA SuppressKeeps ==
    ASSUME MsTickConstants, TickInv,
           (\E max \in SleepRequests : Suppress(max)) \/ SuppressWrap \/ SuppressClear
    PROVE  TickInv'
<1> USE DEF TickInv
<1>1. ASSUME NEW max \in SleepRequests, Suppress(max)
      PROVE  TickInv'
  <2>1. max \in Nat /\ TickTypes'
    BY <1>1 DEF Suppress, TickTypes, Places, MsTickConstants
  <2>2. Ticking' /\ ~timer'.TISR /\ ~idle'.wrapped /\ Normal' /\ Uncounted' = 0
    BY <1>1 DEF Suppress, AtPlace, Ticking, Normal, Uncounted, One, TickTypes
  <2>3. idle'.pc = (IF Long' THEN "disabled" ELSE "asleep")
    BY <1>1 DEF Suppress, TickTypes, Long, Target
  <2> QED
    BY <2>1, <2>2, <2>3 DEF AtPlace
<1>2. CASE SuppressWrap
  <2>1. TickTypes' /\ Target(idle.max) \in Nat /\ (Long => Target(idle.max) >= 2)
    BY <1>2, LongSleeps DEF SuppressWrap, IdleGoes, TickTypes, Places, Long
  <2>2. SettingUp'
    BY <1>2, <2>1 DEF SuppressWrap, IdleGoes, TickTypes, AtPlace, SettingUp, Normal, Long, Target,
                      Uncounted
  <2> QED
    BY <1>2, <2>1, <2>2 DEF SuppressWrap, IdleGoes, AtPlace, TickTypes
<1>3. CASE SuppressClear
  <2>1. TickTypes'
    BY <1>3 DEF SuppressClear, IdleGoes, TickTypes, Places
  <2>2. Counting' /\ Long'
    BY <1>3 DEF SuppressClear, IdleGoes, TickTypes, AtPlace, SettingUp, Counting, Long, Target, Uncounted
  <2> QED
    BY <1>3, <2>1, <2>2 DEF SuppressClear, IdleGoes, AtPlace, TickTypes
<1> QED
  BY <1>1, <1>2, <1>3

\* EndIdleTickSuppression() up to the writes.
LEMMA EndKeeps ==
    ASSUME MsTickConstants, TickInv, Wake \/ ReadTisr \/ ReadTocr
    PROVE  TickInv'
<1> USE DEF TickInv
<1>0. Target(idle.max) \in Nat /\ (Long <=> idle.max >= KMinSuppressTickCount)
  BY LongSleeps DEF TickTypes, Long
<1>1. CASE Wake
  <2>1. TickTypes'
    BY <1>1 DEF Wake, TickTypes, Places
  <2>2. CASE Long
    BY <1>0, <1>1, <2>1, <2>2 DEF Wake, TickTypes, AtPlace, Counting, Waking, Long, Target,
                                  Uncounted, One
  <2>3. CASE ~Long
    BY <1>0, <1>1, <2>1, <2>3 DEF Wake, TickTypes, AtPlace, Ticking, Normal, Uncounted, One
  <2> QED
    BY <2>2, <2>3
<1>2. CASE ReadTisr
  <2>1. /\ Waking /\ timer' = timer /\ Uncounted' = Uncounted
        /\ idle' = [idle EXCEPT !.pc = "readTisr", !.tisr = timer.TISR]
    BY <1>2 DEF ReadTisr, AtPlace, Uncounted
  <2>2. /\ idle'.tisr = timer.TISR /\ idle'.pc = "readTisr" /\ idle'.wrapped = idle.wrapped
        /\ idle'.max = idle.max /\ timer.TISR \in BOOLEAN /\ idle.wrapped \in BOOLEAN
        /\ timer.TOCR \in Nat
    BY <2>1 DEF TickTypes
  <2>3. TickTypes'
    BY <1>2 DEF ReadTisr, TickTypes, Places
  <2>4. TisrRead'
    BY <2>1, <2>2 DEF Waking, TisrRead, Long, Target, One
  <2> QED
    BY <2>2, <2>3, <2>4 DEF AtPlace
<1>3. CASE ReadTocr
  <2>1. TisrRead /\ timer' = timer
        /\ idle'.tisr = idle.tisr /\ idle'.pc = "readTocr" /\ idle'.wrapped = idle.wrapped
        /\ idle'.actual = (IF idle.tisr THEN Target(idle.max) - 1 ELSE timer.TOCR)
    BY <1>3 DEF ReadTocr, AtPlace, TickTypes, WholeSleep
  <2>2. Target(idle.max) - 1 \in Nat
    BY <1>0, <2>1 DEF TisrRead, Long, MsTickConstants
  <2>3. TickTypes'
    BY <1>3, <2>1, <2>2 DEF ReadTocr, TickTypes, Places, WholeSleep
  <2>4. Uncounted' = Uncounted
    BY <1>3 DEF ReadTocr, Uncounted
  <2>5. LengthRead'
    BY <1>0, <2>1, <2>4 DEF LengthRead, TisrRead, One, TickTypes
  <2> QED
    BY <2>1, <2>3, <2>5 DEF AtPlace
<1> QED
  BY <1>1, <1>2, <1>3

\* The timer is set back to normal, and the length of the sleep returned.
LEMMA ReturnKeeps ==
    ASSUME TickInv, WriteTowr \/ WriteTocr \/ IsrReturns
    PROVE  TickInv'
<1> USE DEF TickInv
<1>1. CASE WriteTowr
  BY <1>1 DEF WriteTowr, IdleGoes, TickTypes, Places, AtPlace, LengthRead, Uncounted
<1>2. CASE WriteTocr
  BY <1>2 DEF WriteTocr, IdleGoes, TickTypes, Places, AtPlace, LengthRead, Uncounted, Normal
<1>3. CASE IsrReturns
  <2>1. TickTypes'
    BY <1>3 DEF IsrReturns, IdleGoes, TickTypes, Places
  <2>2. Normal' /\ Normal
    BY <1>3 DEF IsrReturns, IdleGoes, AtPlace, Normal
  <2>3. Uncounted' = Uncounted - idle.actual - One(idle.wrapped /\ idle.tisr)
    BY <1>3 DEF IsrReturns, Uncounted, TickTypes, One
  <2>4. Uncounted' = One(timer.TISR)
    BY <1>3, <2>3 DEF IsrReturns, IdleGoes, AtPlace, LengthRead, TickTypes, One
  <2> QED
    BY <1>3, <2>1, <2>2, <2>4 DEF IsrReturns, IdleGoes, AtPlace, Ticking, TickTypes
<1> QED
  BY <1>1, <1>2, <1>3

\* Every step keeps the invariant.
LEMMA TickStep == MsTickConstants /\ TickInv /\ [MsTickNext]_msTickVars => TickInv'
<1> SUFFICES ASSUME MsTickConstants, TickInv, [MsTickNext]_msTickVars PROVE TickInv'
  OBVIOUS
<1>1. CASE UNCHANGED msTickVars
  BY <1>1 DEF msTickVars, TickInv, TickTypes, AtPlace, Ticking, Normal, Counting, SettingUp, Waking,
              TisrRead, LengthRead, Long, Target, Uncounted, One
<1> QED
  BY <1>1, OverflowKeeps, TickIsrKeeps, SuppressKeeps, EndKeeps, ReturnKeeps DEF MsTickNext

\* The invariant implies the property.
LEMMA TickImplied == TickInv => TicksAccounted
BY DEF TickInv, TickTypes, AtPlace, Ticking, Uncounted, One, TicksAccounted

\* No millisecond is lost or counted twice by tick suppression but in the places that
\* LostHere lists, and there by no more than it says: whatever the lengths of the sleeps,
\* wherever they are cut short and wherever the timer overflows.
THEOREM EveryTickCounted ==
    ASSUME MsTickConstants
    PROVE  MsTickSpec => []TicksAccounted
<1>1. TickInv /\ [MsTickNext]_msTickVars => TickInv'
  BY TickStep
<1> QED
  BY <1>1, TickInitially, TickImplied, PTL DEF MsTickSpec

-----------------------------------------------------------------------------
(* LcdBuffers: a request of the layer above ends once *)

\* The client's buffers are none of the driver's own.
LcdConstants == UserBuffers \cap (CompositionBuffers \cup {Legacy, NULL}) = {}

\* The property is inductive, with what the steps keep of the records.
LcdInv ==
    /\ DOMAIN lcd = {"iPendingBuffer", "iActiveBuffer", "iPostFlag", "dfc", "address"}
    /\ DOMAIN asked = {"user", "composition"}
    /\ replaced \in Nat
    /\ UserRequestsEnd

\* The boot state satisfies the invariant.
LEMMA LcdInitially == LcdConstants /\ LcdInit => LcdInv
BY DEF LcdConstants, LcdInit, LcdInv, UserRequestsEnd, OfUser

\* A buffer that is posted replaces the pending one, whose request is ended.
LEMMA PostKeeps ==
    ASSUME LcdConstants, LcdInv, NEW b \in CompositionBuffers \cup {Legacy}, Post(b)
    PROVE  LcdInv'
BY DEF LcdConstants, LcdInv, UserRequestsEnd, Post, Posted, Cancelled, OfUser

\* A user buffer is posted: the request of one that is pending is left.
LEMMA PostUserBufferKeeps ==
    ASSUME LcdConstants, LcdInv, NEW b \in UserBuffers, PostUserBuffer(b)
    PROVE  LcdInv'
BY DEF LcdConstants, LcdInv, UserRequestsEnd, PostUserBuffer, Posted, OfUser

\* The pending buffer becomes active, and the request of the one that was is ended.
LEMMA VSyncKeeps ==
    ASSUME LcdConstants, LcdInv, VSyncDfcFn
    PROVE  LcdInv'
<1>1. CASE lcd.iPostFlag
  <2>1. /\ lcd' = [lcd EXCEPT !.dfc = FALSE, !.iPostFlag = FALSE,
                              !.iActiveBuffer = lcd.iPendingBuffer, !.iPendingBuffer = NULL]
        /\ DOMAIN asked' = {"user", "composition"}
        /\ asked'.user = IF lcd.iActiveBuffer \in UserBuffers THEN asked.user - 1
                         ELSE asked.user
    BY <1>1 DEF VSyncDfcFn
  <2>2. replaced' = replaced
    BY DEF VSyncDfcFn
  <2> QED
    BY <2>1, <2>2 DEF LcdConstants, LcdInv, UserRequestsEnd, OfUser
<1>2. CASE ~lcd.iPostFlag
  BY <1>2 DEF VSyncDfcFn, LcdInv, UserRequestsEnd, OfUser
<1> QED
  BY <1>1, <1>2

\* Every step keeps the invariant.
LEMMA LcdStep == LcdConstants /\ LcdInv /\ [LcdNext]_lcdVars => LcdInv'
<1> SUFFICES ASSUME LcdConstants, LcdInv, [LcdNext]_lcdVars PROVE LcdInv'
  OBVIOUS
<1>1. CASE CloseMsg
  BY <1>1 DEF CloseMsg, LcdConstants, LcdInv, UserRequestsEnd, OfUser
<1>2. CASE GetCompositionBuffer
  BY <1>2 DEF GetCompositionBuffer, LcdInv, UserRequestsEnd, OfUser
<1>3. CASE UNCHANGED lcdVars
  BY <1>3 DEF lcdVars, LcdInv, UserRequestsEnd, OfUser
<1>4. ASSUME NEW b \in CompositionBuffers \cup {Legacy}, Post(b) PROVE LcdInv'
  BY <1>4, PostKeeps
<1> QED
  BY <1>1, <1>2, <1>3, <1>4, PostUserBufferKeeps, VSyncKeeps
     DEF LcdNext, PostCompositionBuffer, SetGceMode, PostLegacyBuffer, CompositionBuffers

\* The invariant implies the property.
LEMMA LcdImplied == LcdInv => UserRequestsEnd
BY DEF LcdInv

\* Every request for a user buffer is ended once, whether its buffer is replaced
\* before it is shown or after, but exactly those whose pending buffer another user
\* buffer replaced: for any user buffers, posted in any order.
THEOREM UserRequestsCounted ==
    ASSUME LcdConstants
    PROVE  LcdSpec => []UserRequestsEnd
<1>1. LcdInv /\ [LcdNext]_lcdVars => LcdInv'
  BY LcdStep
<1>2. LcdInit => LcdInv
  BY LcdInitially
<1> QED
  BY <1>1, <1>2, LcdImplied, PTL DEF LcdSpec

-----------------------------------------------------------------------------
(* TouchScreen: no sample is written behind the arrays *)

\* A group has a sample, and the arrays have room for one more than a group.
TouchConstants ==
    /\ KConfigXyNumXYSamples \in Nat \ {0} /\ KMaxXYSamples \in Nat
    /\ KConfigXyNumXYSamples < KMaxXYSamples
    /\ HeldAtStart \in BOOLEAN

TouchDfcs == {"reading", "samples", "penUp"}
TouchRecord ==
    [iState : {"E_HW_PowerUp", "E_HW_PenUpDebounce", "E_HW_CollectSample"},
     iSamplesCount : Nat, iPointerOn : BOOLEAN, iTimer : BOOLEAN, dfcs : Seq(TouchDfcs),
     sampling : BOOLEAN, enabled : BOOLEAN, started : BOOLEAN, told : {"up", "down", "off"},
     switches : Nat]

Has(q, dfc) == \E i \in 1..Len(q) : q[i] = dfc
NoTwice(q) == \A i, j \in 1..Len(q) : q[i] = q[j] => i = j
\* A reading comes before the layer above is given its samples.
ReadsFirst(q) == \E i, j \in 1..Len(q) : i < j /\ q[i] = "reading" /\ q[j] = "samples"

\* r is q without its k-th.
Without(r, q, k) ==
    Len(r) = Len(q) - 1 /\ \A i \in 1..Len(r) : r[i] = IF i < k THEN q[i] ELSE q[i + 1]

\* A group is full when it is handed over, and at most one more sample is taken until
\* the layer above has seen it: by a reading that was queued before, or is under way.
TouchOk(t) ==
    /\ t \in TouchRecord /\ NoTwice(t.dfcs)
    /\ ~Has(t.dfcs, "samples") => t.iSamplesCount < KConfigXyNumXYSamples
    /\ t.iSamplesCount <= KConfigXyNumXYSamples + 1
    /\ t.sampling \/ ReadsFirst(t.dfcs) => t.iSamplesCount <= KConfigXyNumXYSamples
    /\ Has(t.dfcs, "samples") /\ t.sampling => ~ReadsFirst(t.dfcs)

TouchInv == TouchOk(touch)

\* A DFC is added to those that wait: a reading does not come before what is there.
LEMMA Enqueued ==
    ASSUME NEW q \in Seq(TouchDfcs), NEW d \in TouchDfcs, ~Has(q, d), NoTwice(q)
    PROVE  /\ Append(q, d) \in Seq(TouchDfcs) /\ NoTwice(Append(q, d))
           /\ \A e : Has(Append(q, d), e) <=> Has(q, e) \/ e = d
           /\ ReadsFirst(Append(q, d)) => ReadsFirst(q) \/ d = "samples"
<1> DEFINE a == Append(q, d)
<1>1. /\ a \in Seq(TouchDfcs) /\ Len(a) = Len(q) + 1 /\ Len(q) \in Nat
      /\ \A i \in 1..Len(q) : a[i] = q[i]
      /\ a[Len(q) + 1] = d
  OBVIOUS
<1> HIDE DEF a
<1>2. \A i \in 1..Len(a) : i \in 1..Len(q) \/ i = Len(q) + 1
  BY <1>1
<1>3. 1..Len(q) \subseteq 1..Len(a) /\ Len(q) + 1 \in 1..Len(a)
  BY <1>1
<1>4. ASSUME NEW e PROVE Has(a, e) <=> Has(q, e) \/ e = d
  BY <1>1, <1>2, <1>3 DEF Has
<1>5. NoTwice(a)
  BY <1>1, <1>2 DEF NoTwice, Has
<1>6. ASSUME ReadsFirst(a), d # "samples" PROVE ReadsFirst(q)
  <2>1. PICK i \in 1..Len(a), j \in 1..Len(a) : i < j /\ a[i] = "reading" /\ a[j] = "samples"
    BY <1>6 DEF ReadsFirst
  <2>2. j \in 1..Len(q) /\ i \in 1..Len(q)
    BY <1>1, <1>2, <1>6, <2>1
  <2> QED
    BY <1>1, <2>1, <2>2 DEF ReadsFirst
<1> QED
  BY <1>1, <1>4, <1>5, <1>6 DEF a

\* A DFC leaves those that wait, and the others keep their order.
LEMMA TakenOut ==
    ASSUME NEW q \in Seq(TouchDfcs), NEW r \in Seq(TouchDfcs), NoTwice(q),
           NEW k \in 1..Len(q), Without(r, q, k)
    PROVE  /\ NoTwice(r)
           /\ \A e : Has(r, e) <=> Has(q, e) /\ e # q[k]
           /\ ReadsFirst(r) => ReadsFirst(q)
           /\ q[k] = "reading" => ~ReadsFirst(r)
<1> DEFINE From(i) == IF i < k THEN i ELSE i + 1
<1>1. \A i \in 1..Len(r) : From(i) \in 1..Len(q) /\ r[i] = q[From(i)] /\ From(i) # k
  BY DEF Without
<1>2. \A i, j \in 1..Len(r) : (From(i) = From(j) => i = j) /\ (i < j => From(i) < From(j))
  BY DEF Without
<1>3. \A n \in 1..Len(q) : n # k => \E i \in 1..Len(r) : From(i) = n
  <2> SUFFICES ASSUME NEW n \in 1..Len(q), n # k PROVE \E i \in 1..Len(r) : From(i) = n
    OBVIOUS
  <2>1. CASE n < k
    <3>1. n \in 1..Len(r) /\ From(n) = n
      BY <2>1 DEF Without
    <3> QED
      BY <3>1
  <2>2. CASE n > k
    <3>1. n - 1 \in 1..Len(r) /\ From(n - 1) = n
      BY <2>2 DEF Without
    <3> QED
      BY <3>1
  <2> QED
    BY <2>1, <2>2
<1> HIDE DEF From
<1>4. NoTwice(r)
  BY <1>1, <1>2 DEF NoTwice
<1>5. ASSUME NEW e PROVE Has(r, e) <=> Has(q, e) /\ e # q[k]
  <2>1. Has(r, e) => Has(q, e) /\ e # q[k]
    BY <1>1 DEF Has, NoTwice
  <2>2. ASSUME Has(q, e), e # q[k] PROVE Has(r, e)
    <3>1. PICK n \in 1..Len(q) : q[n] = e
      BY <2>2 DEF Has
    <3>2. PICK i \in 1..Len(r) : From(i) = n
      BY <1>3, <2>2, <3>1
    <3>3. r[i] = e
      BY <1>1, <3>1, <3>2
    <3> QED
      BY <3>3 DEF Has
  <2> QED
    BY <2>1, <2>2
<1>6. ReadsFirst(r) => ReadsFirst(q)
  BY <1>1, <1>2 DEF ReadsFirst
<1>7. q[k] = "reading" => ~ReadsFirst(r)
  BY <1>5 DEF ReadsFirst, Has
<1> QED
  BY <1>4, <1>5, <1>6, <1>7

\* What does not concern the queue, and a count that starts again.
LEMMA OtherFields ==
    ASSUME TouchConstants, NEW t, TouchOk(t), NEW u \in TouchRecord, u.dfcs = t.dfcs,
           u.iSamplesCount \in {0, t.iSamplesCount}, u.sampling => t.sampling
    PROVE  TouchOk(u)
BY DEF TouchConstants, TouchOk, TouchRecord

\* A reading or the layer's "up" is queued.
LEMMA EnqueOk ==
    ASSUME NEW t, TouchOk(t), NEW d \in {"reading", "penUp"}
    PROVE  /\ TouchOk(Enque(t, d)) /\ Enque(t, d).sampling = t.sampling
<1>1. CASE Has(t.dfcs, d)
  BY <1>1 DEF Enque, Contains, Has
<1>2. CASE ~Has(t.dfcs, d)
  <2> DEFINE q == Append(t.dfcs, d)
  <2>1. Enque(t, d) = [t EXCEPT !.dfcs = q]
    BY <1>2 DEF Enque, Contains, Has, TouchOk, TouchRecord
  <2>2. /\ q \in Seq(TouchDfcs) /\ NoTwice(q)
        /\ \A e : Has(q, e) <=> Has(t.dfcs, e) \/ e = d
        /\ ReadsFirst(q) => ReadsFirst(t.dfcs)
    BY <1>2, Enqueued DEF TouchOk, TouchRecord, TouchDfcs
  <2> HIDE DEF q
  <2>3. /\ Enque(t, d) \in TouchRecord /\ Enque(t, d).dfcs = q
        /\ Enque(t, d).iSamplesCount = t.iSamplesCount /\ Enque(t, d).sampling = t.sampling
    BY <2>1, <2>2 DEF TouchOk, TouchRecord
  <2> QED
    BY <2>2, <2>3 DEF TouchOk
<1> QED
  BY <1>1, <1>2

\* The head of the queue, or a reading that is cancelled, leaves it.
LEMMA RemovedOk ==
    ASSUME TouchConstants, NEW t, TouchOk(t), NEW k \in 1..Len(t.dfcs), NEW r \in Seq(TouchDfcs),
           Without(r, t.dfcs, k),
           NEW u \in TouchRecord, u.dfcs = r, u.sampling => t.sampling \/ t.dfcs[k] = "reading",
           u.iSamplesCount = IF t.dfcs[k] = "samples" THEN 0 ELSE t.iSamplesCount,
           u.sampling /\ ~t.sampling => ReadsFirst(t.dfcs) \/ ~Has(t.dfcs, "samples")
    PROVE  TouchOk(u)
<1>1. t.dfcs \in Seq(TouchDfcs) /\ NoTwice(t.dfcs) /\ t.iSamplesCount \in Nat
  BY DEF TouchOk, TouchRecord
<1>2. /\ NoTwice(r) /\ \A e : Has(r, e) <=> Has(t.dfcs, e) /\ e # t.dfcs[k]
      /\ ReadsFirst(r) => ReadsFirst(t.dfcs)
      /\ t.dfcs[k] = "reading" => ~ReadsFirst(r)
  BY <1>1, TakenOut
<1>3. ReadsFirst(r) => Has(r, "samples")
  BY DEF ReadsFirst, Has
<1>4. CASE t.dfcs[k] = "samples"
  BY <1>2, <1>3, <1>4 DEF TouchOk, TouchConstants
<1>5. CASE t.dfcs[k] # "samples"
  BY <1>1, <1>2, <1>5 DEF TouchOk, TouchConstants
<1> QED
  BY <1>4, <1>5

\* There is room for a sample, and for the layer above to see it.
RoomForSample(t) ==
    /\ t \in TouchRecord /\ NoTwice(t.dfcs) /\ ~t.sampling
    /\ t.iSamplesCount <= KConfigXyNumXYSamples
    /\ \/ t.iSamplesCount < KConfigXyNumXYSamples
       \/ Has(t.dfcs, "samples") /\ ~ReadsFirst(t.dfcs)

\* A sample has been taken, and may have filled the group.
LEMMA SampledOk ==
    ASSUME TouchConstants, NEW t, RoomForSample(t)
    PROVE  TouchOk(Sampled(t))
<1> DEFINE more == [t EXCEPT !.iSamplesCount = @ + 1]
           K == KConfigXyNumXYSamples
<1>0. /\ t \in TouchRecord /\ NoTwice(t.dfcs) /\ ~t.sampling
      /\ t.iSamplesCount <= K
      /\ \/ t.iSamplesCount < K
         \/ Has(t.dfcs, "samples") /\ ~ReadsFirst(t.dfcs)
  BY DEF RoomForSample
<1>1. /\ more \in TouchRecord /\ more.dfcs = t.dfcs /\ ~more.sampling
      /\ more.iSamplesCount = t.iSamplesCount + 1 /\ t.iSamplesCount \in Nat
      /\ t.dfcs \in Seq(TouchDfcs) /\ K \in Nat
  <2>1. t \in TouchRecord /\ t.iSamplesCount + 1 \in Nat
    BY <1>0 DEF TouchRecord
  <2> QED
    BY <1>0, <2>1 DEF TouchRecord, TouchConstants
<1>2. Sampled(t) = IF more.iSamplesCount < K THEN OneShot(more) ELSE RawSampleValid(more)
  BY DEF Sampled
<1> HIDE DEF more
<1>3. CASE more.iSamplesCount < K
  <2>1. /\ OneShot(more) \in TouchRecord /\ OneShot(more).dfcs = t.dfcs /\ ~OneShot(more).sampling
        /\ OneShot(more).iSamplesCount = more.iSamplesCount
    BY <1>0, <1>1 DEF OneShot, TouchRecord
  <2> QED
    BY <1>0, <1>1, <1>2, <1>3, <2>1 DEF TouchOk
<1>4. CASE more.iSamplesCount >= K
  <2> DEFINE u == RawSampleValid(more)
             q == IF Has(t.dfcs, "samples") THEN t.dfcs ELSE Append(t.dfcs, "samples")
  <2>1. q \in Seq(TouchDfcs) /\ NoTwice(q) /\ Has(q, "samples")
    BY <1>0, <1>1, Enqueued DEF TouchDfcs
  <2>2. Has(t.dfcs, "samples") /\ ~ReadsFirst(t.dfcs) => ~ReadsFirst(q)
    BY <1>0
  <2> HIDE DEF q
  <2>3. /\ u \in TouchRecord /\ u.dfcs = q /\ ~u.sampling
        /\ u.iSamplesCount = more.iSamplesCount
    <3>1. Contains(more.dfcs, "samples") <=> Has(t.dfcs, "samples")
      BY <1>0, <1>1 DEF Contains, Has
    <3>2. Enque(more, "samples") = [more EXCEPT !.dfcs = q]
      BY <1>0, <1>1, <3>1 DEF Enque, q, TouchRecord
    <3> QED
      BY <1>0, <1>1, <2>1, <3>2 DEF RawSampleValid, TouchRecord
  <2>4. u.iSamplesCount <= K + 1 /\ (ReadsFirst(q) => u.iSamplesCount <= K)
    BY <1>0, <1>1, <2>2, <2>3
  <2> QED
    BY <1>2, <1>4, <1>1, <2>1, <2>3, <2>4 DEF TouchOk
<1> QED
  BY <1>0, <1>1, <1>3, <1>4

\* The first of the DFCs that wait is taken.
LEMMA HeadTaken ==
    ASSUME TouchInv, touch.dfcs # <<>>
    PROVE  /\ Taken \in TouchRecord /\ Taken.dfcs = Tail(touch.dfcs)
           /\ Without(Tail(touch.dfcs), touch.dfcs, 1) /\ 1 \in 1..Len(touch.dfcs)
           /\ touch.dfcs[1] = Head(touch.dfcs)
           /\ Taken.iSamplesCount = touch.iSamplesCount /\ Taken.sampling = touch.sampling
<1>1. touch \in TouchRecord /\ touch.dfcs \in Seq(TouchDfcs)
  BY DEF TouchInv, TouchOk, TouchRecord
<1>2. /\ Tail(touch.dfcs) \in Seq(TouchDfcs) /\ Len(Tail(touch.dfcs)) = Len(touch.dfcs) - 1
      /\ \A i \in 1..Len(Tail(touch.dfcs)) : Tail(touch.dfcs)[i] = touch.dfcs[i + 1]
      /\ 1 \in 1..Len(touch.dfcs) /\ touch.dfcs[1] = Head(touch.dfcs)
  BY <1>1
<1>3. Without(Tail(touch.dfcs), touch.dfcs, 1)
  BY <1>2 DEF Without
<1> QED
  BY <1>1, <1>2, <1>3 DEF Taken, TouchRecord

LEMMA TakeReadingDfcKeeps ==
    ASSUME TouchConstants, TouchInv, TakeReadingDfc
    PROVE  TouchInv'
<1>1. ~touch.sampling /\ touch.dfcs # <<>> /\ Head(touch.dfcs) = "reading"
      /\ touch' = [Taken EXCEPT !.sampling = TRUE]
  BY DEF TakeReadingDfc, Waiting
<1>2. /\ touch' \in TouchRecord /\ touch'.dfcs = Tail(touch.dfcs)
      /\ touch'.iSamplesCount = touch.iSamplesCount /\ touch'.sampling
      /\ Tail(touch.dfcs) \in Seq(TouchDfcs)
  BY <1>1, HeadTaken DEF TouchRecord
<1>3. ReadsFirst(touch.dfcs) \/ ~Has(touch.dfcs, "samples")
  <2> SUFFICES ASSUME Has(touch.dfcs, "samples") PROVE ReadsFirst(touch.dfcs)
    OBVIOUS
  <2>1. PICK j \in 1..Len(touch.dfcs) : touch.dfcs[j] = "samples"
    BY DEF Has
  <2>2. 1 \in 1..Len(touch.dfcs) /\ touch.dfcs[1] = "reading"
    BY <1>1, HeadTaken
  <2>3. 1 < j
    BY <2>1, <2>2
  <2> QED
    BY <2>1, <2>2, <2>3 DEF ReadsFirst
<1>4. /\ Without(Tail(touch.dfcs), touch.dfcs, 1) /\ 1 \in 1..Len(touch.dfcs)
      /\ touch.dfcs[1] = "reading"
  BY <1>1, HeadTaken
<1>5. TouchOk(touch')
  BY <1>2, <1>3, <1>4, RemovedOk DEF TouchInv
<1> QED
  BY <1>5 DEF TouchInv

LEMMA WaitForPenUpKeeps ==
    ASSUME TouchConstants, TouchInv, WaitForPenUp
    PROVE  TouchInv'
<1>1. ~touch.sampling /\ touch.dfcs # <<>> /\ Head(touch.dfcs) = "samples"
      /\ touch' = OneShot(Collects(Taken))
  BY DEF WaitForPenUp, Waiting
<1>2. /\ touch' \in TouchRecord /\ touch'.dfcs = Tail(touch.dfcs)
      /\ touch'.iSamplesCount = 0 /\ touch'.sampling = touch.sampling
      /\ Tail(touch.dfcs) \in Seq(TouchDfcs)
  BY <1>1, HeadTaken DEF TouchRecord, OneShot, Collects
<1> QED
  BY <1>1, <1>2, HeadTaken, RemovedOk DEF TouchInv

LEMMA WaitForPenDownKeeps ==
    ASSUME TouchConstants, TouchInv, WaitForPenDown
    PROVE  TouchInv'
<1>1. CASE touch' = [Listens(touch) EXCEPT !.started = TRUE]
  <2>1. /\ touch' \in TouchRecord /\ touch'.dfcs = touch.dfcs
        /\ touch'.iSamplesCount = touch.iSamplesCount /\ touch'.sampling = touch.sampling
    BY <1>1 DEF TouchInv, TouchOk, TouchRecord, Listens
  <2> QED
    BY <2>1, OtherFields DEF TouchInv
<1>2. CASE Waiting("penUp") /\ touch' = Listens(Taken)
  <2>1. ~touch.sampling /\ touch.dfcs # <<>> /\ Head(touch.dfcs) = "penUp"
    BY <1>2 DEF Waiting
  <2>2. /\ touch' \in TouchRecord /\ touch'.dfcs = Tail(touch.dfcs)
        /\ touch'.iSamplesCount = touch.iSamplesCount /\ touch'.sampling = touch.sampling
        /\ Tail(touch.dfcs) \in Seq(TouchDfcs)
    BY <1>2, <2>1, HeadTaken DEF TouchRecord, Listens
  <2> QED
    BY <2>1, <2>2, HeadTaken, RemovedOk DEF TouchInv
<1> QED
  BY <1>1, <1>2 DEF WaitForPenDown

\* The layer above is told that the pen has gone up.
LEMMA PenUpOk ==
    ASSUME TouchConstants, NEW t, TouchOk(t)
    PROVE  TouchOk(PenUp(t))
<1>1. TouchOk(Enque(t, "penUp"))
  BY EnqueOk
<1> DEFINE e == Enque(t, "penUp")
<1>2. e \in TouchRecord
  BY <1>1 DEF TouchOk
<1>3. PenUp(t) = [e EXCEPT !.told = "up"]
  BY DEF PenUp
<1> HIDE DEF e
<1>4. /\ PenUp(t) \in TouchRecord /\ PenUp(t).dfcs = e.dfcs
      /\ PenUp(t).iSamplesCount = e.iSamplesCount /\ PenUp(t).sampling = e.sampling
  BY <1>2, <1>3 DEF TouchRecord
<1>5. TouchOk(e)
  BY <1>1 DEF e
<1> QED
  BY <1>4, <1>5, OtherFields

LEMMA TakeSampleKeeps ==
    ASSUME TouchConstants, TouchInv, NEW penDown, TakeSample(penDown)
    PROVE  TouchInv'
<1> DEFINE t == [touch EXCEPT !.sampling = FALSE]
<1>1. /\ touch.sampling /\ touch \in TouchRecord /\ TouchOk(touch)
      /\ NoTwice(touch.dfcs) /\ touch.iSamplesCount <= KConfigXyNumXYSamples
      /\ \/ touch.iSamplesCount < KConfigXyNumXYSamples
         \/ Has(touch.dfcs, "samples") /\ ~ReadsFirst(touch.dfcs)
  BY DEF TakeSample, TouchInv, TouchOk
<1>2. /\ t \in TouchRecord /\ t.dfcs = touch.dfcs /\ ~t.sampling
      /\ t.iSamplesCount = touch.iSamplesCount
      /\ t.iState \in {"E_HW_PowerUp", "E_HW_PenUpDebounce", "E_HW_CollectSample"}
  BY <1>1 DEF TouchRecord
<1>3. \/ touch' \in {OneShot(t), Collects(t), Lifted(t)}
      \/ touch' = Sampled(Collects(t))
      \/ touch' = PenUp(Collects(t))
      \/ touch' = Sampled(t)
  BY <1>2 DEF TakeSample
<1> HIDE DEF t
<1>4. TouchOk(t)
  BY <1>1, <1>2, OtherFields
<1>5. CASE touch' \in {OneShot(t), Collects(t), Lifted(t)}
  <2>1. /\ touch' \in TouchRecord /\ touch'.dfcs = t.dfcs /\ ~touch'.sampling
        /\ touch'.iSamplesCount \in {0, t.iSamplesCount}
    <3>1. CASE touch' = OneShot(t)
      BY <1>2, <3>1 DEF OneShot, TouchRecord
    <3>2. CASE touch' = Collects(t)
      BY <1>2, <3>2 DEF Collects, TouchRecord
    <3>3. CASE touch' = Lifted(t)
      BY <1>2, <3>3 DEF OneShot, Lifted, TouchRecord
    <3> QED
      BY <1>5, <3>1, <3>2, <3>3
  <2> QED
    BY <1>4, <2>1, OtherFields DEF TouchInv
<1>6. CASE touch' = Sampled(t)
  <2>1. RoomForSample(t)
    BY <1>1, <1>2 DEF RoomForSample
  <2> QED
    BY <1>6, <2>1, SampledOk DEF TouchInv
<1>7. /\ Collects(t) \in TouchRecord /\ Collects(t).dfcs = t.dfcs /\ ~Collects(t).sampling
      /\ Collects(t).iSamplesCount = 0
  BY <1>2 DEF Collects, TouchRecord
<1>8. CASE touch' = Sampled(Collects(t))
  <2>1. 0 <= KConfigXyNumXYSamples /\ 0 < KConfigXyNumXYSamples
    BY DEF TouchConstants
  <2> DEFINE c == Collects(t)
  <2> HIDE DEF c
  <2>2. RoomForSample(c)
    BY <1>1, <1>2, <1>7, <2>1 DEF c, RoomForSample
  <2>3. TouchOk(Sampled(c))
    BY <2>2, SampledOk
  <2> QED
    BY <1>8, <2>3 DEF TouchInv, c
<1>9. CASE touch' = PenUp(Collects(t))
  BY <1>4, <1>7, <1>9, OtherFields, PenUpOk DEF TouchInv
<1> QED
  BY <1>3, <1>5, <1>6, <1>8, <1>9

LEMMA InterruptsKeep ==
    ASSUME TouchConstants, TouchInv, PenInterrupt \/ TimerCallback
    PROVE  TouchInv'
<1>1. CASE PenInterrupt
  BY <1>1, EnqueOk DEF PenInterrupt, TouchInv
<1>2. CASE TimerCallback
  <2> DEFINE t == [touch EXCEPT !.iTimer = FALSE]
  <2>1. /\ t \in TouchRecord /\ t.dfcs = touch.dfcs /\ t.sampling = touch.sampling
        /\ t.iSamplesCount = touch.iSamplesCount
    BY DEF TouchInv, TouchOk, TouchRecord
  <2>2. touch' = Enque(t, "reading")
    BY <1>2 DEF TimerCallback
  <2> HIDE DEF t
  <2>3. TouchOk(t)
    BY <2>1, OtherFields DEF TouchInv
  <2> QED
    BY <2>2, <2>3, EnqueOk DEF TouchInv
<1> QED
  BY <1>1, <1>2

LEMMA DigitiserOnKeeps ==
    ASSUME TouchConstants, TouchInv, DigitiserOn
    PROVE  TouchInv'
<1> DEFINE t == [touch EXCEPT !.iPointerOn = TRUE, !.iState = "E_HW_PowerUp", !.told = "off"]
<1>1. /\ t \in TouchRecord /\ t.dfcs = touch.dfcs /\ t.sampling = touch.sampling
      /\ t.iSamplesCount = touch.iSamplesCount
  BY DEF TouchInv, TouchOk, TouchRecord
<1>2. touch' = Enque(t, "reading")
  BY DEF DigitiserOn
<1> HIDE DEF t
<1>3. TouchOk(t)
  BY <1>1, OtherFields DEF TouchInv
<1> QED
  BY <1>2, <1>3, EnqueOk DEF TouchInv

\* A reading that waits is cancelled.
LEMMA CancelOk ==
    ASSUME TouchConstants, NEW t, TouchOk(t)
    PROVE  TouchOk(Cancel(t, "reading"))
<1>1. t \in TouchRecord /\ t.dfcs \in Seq(TouchDfcs)
  BY DEF TouchOk, TouchRecord
<1>2. CASE ~Contains(t.dfcs, "reading")
  BY <1>2 DEF Cancel
<1>3. CASE Contains(t.dfcs, "reading")
  <2> DEFINE k == CHOOSE i \in 1..Len(t.dfcs) : t.dfcs[i] = "reading"
             r == RemoveAt(t.dfcs, k)
             u == [t EXCEPT !.dfcs = r]
  <2>1. k \in 1..Len(t.dfcs) /\ t.dfcs[k] = "reading"
    BY <1>3 DEF Contains
  <2>2. Cancel(t, "reading") = u
    BY <1>3 DEF Cancel
  <2> HIDE DEF k
  <2>3. r \in Seq(TouchDfcs) /\ Without(r, t.dfcs, k)
    <3> DEFINE front == SubSeq(t.dfcs, 1, k - 1)
               back == SubSeq(t.dfcs, k + 1, Len(t.dfcs))
               n == Len(t.dfcs)
    <3>1. /\ front \in Seq(TouchDfcs) /\ Len(front) = k - 1
          /\ \A i \in 1..(k - 1) : front[i] = t.dfcs[i]
      BY <1>1, <2>1
    <3>2. /\ back \in Seq(TouchDfcs) /\ Len(back) = n - k
          /\ \A i \in 1..(n - k) : back[i] = t.dfcs[k + i]
      BY <1>1, <2>1
    <3>3. r = front \o back /\ n \in Nat /\ k \in 1..n
      BY <1>1, <2>1 DEF RemoveAt
    <3> HIDE DEF front, back, r, n
    <3>4. r \in Seq(TouchDfcs) /\ Len(r) = n - 1
      <4>1. front \in Seq(TouchDfcs) /\ back \in Seq(TouchDfcs) /\ r = front \o back
        BY <3>1, <3>2, <3>3
      <4>2. r \in Seq(TouchDfcs) /\ Len(r) = Len(front) + Len(back)
        BY <4>1
      <4> QED
        BY <3>1, <3>2, <3>3, <4>2
    <3>5. ASSUME NEW i \in 1..Len(r), i < k PROVE r[i] = t.dfcs[i]
      BY <3>1, <3>2, <3>3, <3>4, <3>5
    <3>6. ASSUME NEW i \in 1..Len(r), i >= k PROVE r[i] = t.dfcs[i + 1]
      <4>1. i - (k - 1) \in 1..(n - k) /\ k + (i - (k - 1)) = i + 1
        BY <3>3, <3>4, <3>6
      <4>2. r[i] = back[i - (k - 1)]
        BY <3>1, <3>2, <3>3, <3>4, <3>6
      <4> QED
        BY <3>2, <4>1, <4>2
    <3> QED
      BY <3>3, <3>4, <3>5, <3>6 DEF Without, n
  <2> HIDE DEF r
  <2>4. /\ u \in TouchRecord /\ u.dfcs = r /\ u.sampling = t.sampling
        /\ u.iSamplesCount = t.iSamplesCount
    BY <1>1, <2>3 DEF TouchRecord
  <2> HIDE DEF u
  <2> QED
    BY <2>1, <2>2, <2>3, <2>4, RemovedOk
<1> QED
  BY <1>2, <1>3

LEMMA DigitiserOffKeeps ==
    ASSUME TouchConstants, TouchInv, DigitiserOff
    PROVE  TouchInv'
<1> DEFINE t == [touch EXCEPT !.iPointerOn = FALSE, !.iTimer = FALSE,
                              !.told = "off", !.switches = @ + 1]
           off == Cancel(t, "reading")
<1>1. /\ t \in TouchRecord /\ t.dfcs = touch.dfcs /\ t.sampling = touch.sampling
      /\ t.iSamplesCount = touch.iSamplesCount
  <2>1. touch \in TouchRecord /\ touch.switches + 1 \in Nat
    BY DEF TouchInv, TouchOk, TouchRecord
  <2> QED
    BY <2>1 DEF TouchRecord
<1>2. touch' = off \/ touch' = PenUp(off)
  BY DEF DigitiserOff
<1> HIDE DEF t
<1>3. TouchOk(off)
  BY <1>1, OtherFields, CancelOk DEF TouchInv
<1> QED
  BY <1>2, <1>3, PenUpOk DEF TouchInv

LEMMA TouchStep == TouchConstants /\ TouchInv /\ [TouchNext]_touchVars => TouchInv'
<1> SUFFICES ASSUME TouchConstants, TouchInv, [TouchNext]_touchVars PROVE TouchInv'
  OBVIOUS
<1>1. CASE PanelAnswers
  BY <1>1, TakeSampleKeeps DEF PanelAnswers
<1>2. CASE UserTouches \/ UNCHANGED touchVars
  BY <1>2 DEF UserTouches, touchVars, TouchInv
<1> QED
  BY <1>1, <1>2, TakeReadingDfcKeeps, WaitForPenUpKeeps, WaitForPenDownKeeps,
     InterruptsKeep, DigitiserOffKeeps, DigitiserOnKeeps DEF TouchNext

LEMMA TouchInitially == TouchConstants /\ TouchInit => TouchInv
<1> SUFFICES ASSUME TouchConstants, TouchInit PROVE TouchInv
  OBVIOUS
<1>1. touch \in TouchRecord /\ touch.dfcs = <<"reading">> /\ touch.iSamplesCount = 0
      /\ ~touch.sampling
  BY DEF TouchInit, TouchRecord, TouchDfcs
<1>2. Len(touch.dfcs) = 1 /\ touch.dfcs[1] = "reading"
  BY <1>1
<1> QED
  BY <1>1, <1>2 DEF TouchInv, TouchOk, TouchConstants, NoTwice, Has, ReadsFirst

LEMMA TouchImplied == TouchConstants /\ TouchInv => SamplesFit
BY DEF TouchConstants, TouchInv, TouchOk, TouchRecord, SamplesFit

\* No sample is written behind iX[] and iY[], for any size of a group below that of
\* the arrays, though readings are queued in the middle of a group and before the
\* layer above has seen it.
THEOREM SamplesStayWithin ==
    ASSUME TouchConstants
    PROVE  TouchSpec => []SamplesFit
<1>1. TouchInv /\ [TouchNext]_touchVars => TouchInv'
  BY TouchStep
<1>2. TouchInit => TouchInv
  BY TouchInitially
<1>3. TouchInv => SamplesFit
  BY TouchImplied
<1> QED
  BY <1>1, <1>2, <1>3, PTL DEF TouchSpec

-----------------------------------------------------------------------------
(* UsbControl: for hosts that ask for anything, give up at any time, in the ISR too, and
   take any number of turns, and for interrupts that are lost.

   The property alone is not inductive: an answer is its own because a request that is
   given up leaves SETUPEND behind, or nothing that could be sent. *)

CtlFields == {"iEp0State", "iTxBuf", "iTransmitted", "iLength", "iZlpReqd", "asked", "owed", "rx",
              "tx", "dataEnd", "setupEnd", "stall", "isr", "pending"}
CtlStates == {"EP0_IDLE", "EP0_IN_DATA_PHASE", "EP0_OUT_DATA_PHASE", "EP0_END_XFER"}
CtlTypes ==
    /\ DOMAIN e0 = CtlFields /\ e0.iEp0State \in CtlStates
    /\ DOMAIN host0 = {"setup", "kind", "want", "got", "own", "stage"} /\ host0.setup \in Nat

Answering(e) == e.iEp0State = "EP0_IN_DATA_PHASE"
\* The endpoint has nothing to send, and nothing to be answered.
Silent(e) == e.iTxBuf = 0 /\ e.asked.kind # "read"

\* The packets in the registers are of the host's transfer.
PacketsAreOwn(e, h) ==
    /\ e.rx # NoPkt => e.rx.setup = h.setup
    /\ e.rx.kind = "read" => /\ e.rx.setup # 0 /\ h.stage # "none"
                             /\ ~e.dataEnd /\ "send" \notin e.stall
    /\ e.tx.kind = "data" => e.tx.setup = h.setup

\* What is being answered is the host's transfer, or the ISR will find SETUPEND.
AnsweredIsOwn(e, h) ==
    /\ Answering(e) => ~e.dataEnd
    /\ Answering(e) /\ e.asked.kind = "read" => e.asked.setup # 0
    /\ Answering(e) /\ ~e.setupEnd /\ e.iTxBuf # 0 => e.iTxBuf = h.setup
    /\ Answering(e) /\ ~e.setupEnd /\ e.asked.kind = "read" => e.asked.setup = h.setup
    /\ Answering(e) /\ ~e.setupEnd /\ ~Silent(e) =>
           /\ h.stage # "none" /\ "send" \notin e.stall
           /\ e.rx.kind \notin {"read", "write", "nodata"}

CompletedOnce(e) ==
    /\ e.owed = (e.iTxBuf # 0)
    /\ e.iTxBuf # 0 => e.iEp0State \in {"EP0_IN_DATA_PHASE", "EP0_END_XFER"}

CtlInv ==
    "late" \notin mishaps => /\ CtlTypes /\ host0.own /\ PacketsAreOwn(e0, host0)
                            /\ AnsweredIsOwn(e0, host0) /\ CompletedOnce(e0)

\* What Ep0Transmit() leaves alone: it loads the FIFO from the buffer, if there is one,
\* and ends with the state END_XFER or without a change but to the transfer.
LEMMA TransmitSends ==
    ASSUME NEW e, DOMAIN e = CtlFields, NEW f, f = Ep0Transmit(e)
    PROVE  /\ DOMAIN f = CtlFields /\ f.iTxBuf = e.iTxBuf /\ f.asked = e.asked /\ f.owed = e.owed
           /\ f.rx = e.rx /\ f.setupEnd = e.setupEnd /\ f.stall = e.stall
           /\ f.isr = e.isr /\ f.pending = e.pending
           /\ f.tx = e.tx \/ f.tx.setup = e.iTxBuf
           /\ f.iEp0State = "EP0_END_XFER" \/ (f.iEp0State = e.iEp0State /\ f.dataEnd = e.dataEnd)
           /\ e.iTxBuf = 0 => f = e
<1> DEFINE left == e.iLength - e.iTransmitted
           n == IF left < KEp0MaxPktSz THEN left ELSE KEp0MaxPktSz
           sent == [Loaded(e, n) EXCEPT !.iTransmitted = @ + n]
           ends == [sent EXCEPT !.iEp0State = "EP0_END_XFER"]
           zlp == [ends EXCEPT !.iZlpReqd = FALSE, !.dataEnd = TRUE]
<1>1. f = e \/ f = sent \/ f = ends \/ f = zlp
  BY Zenon DEF Ep0Transmit
<1>2. e.iTxBuf = 0 => f = e
  BY DEF Ep0Transmit
<1>3. CASE f = e
  BY <1>3
<1> HIDE DEF n
<1>4. CASE f = sent
  BY <1>2, <1>4 DEF Loaded, CtlFields
<1>5. CASE f = ends
  BY <1>2, <1>5 DEF Loaded, CtlFields
<1>6. CASE f = zlp
  <2>1. /\ DOMAIN ends = CtlFields /\ ends.iTxBuf = e.iTxBuf /\ ends.asked = e.asked
        /\ ends.owed = e.owed /\ ends.rx = e.rx /\ ends.setupEnd = e.setupEnd
        /\ ends.stall = e.stall /\ ends.isr = e.isr /\ ends.pending = e.pending
        /\ ends.tx.setup = e.iTxBuf /\ ends.iEp0State = "EP0_END_XFER"
    <3> DEFINE load == Loaded(e, n)
    <3>1. /\ DOMAIN load = CtlFields /\ load.iTxBuf = e.iTxBuf /\ load.asked = e.asked
          /\ load.owed = e.owed /\ load.rx = e.rx /\ load.setupEnd = e.setupEnd
          /\ load.stall = e.stall /\ load.isr = e.isr /\ load.pending = e.pending
          /\ load.tx.setup = e.iTxBuf
      BY DEF Loaded, CtlFields
    <3> HIDE DEF load
    <3>2. sent = [load EXCEPT !.iTransmitted = @ + n]
      BY Zenon DEF load
    <3> HIDE DEF sent
    <3> QED
      BY <3>1, <3>2 DEF CtlFields
  <2> HIDE DEF ends
  <2> QED
    BY <1>2, <1>6, <2>1 DEF CtlFields
<1> QED
  BY <1>1, <1>3, <1>4, <1>5, <1>6

\* The layer above, asked for an answer to the host's transfer: it gives none, it sends
\* its own, or it stalls.
LEMMA AboveAnswers ==
    ASSUME NEW e, DOMAIN e = CtlFields, NEW f \in Above(e), f # e
    PROVE  /\ DOMAIN f = CtlFields /\ e.asked.kind = "read" /\ e.iTxBuf = 0 /\ f.asked.kind # "read"
           /\ f.rx = e.rx /\ f.setupEnd = e.setupEnd /\ f.isr = e.isr /\ f.pending = e.pending
           /\ \/ /\ f.iTxBuf = e.asked.setup /\ f.owed = TRUE /\ f.stall = e.stall
                 /\ f.tx = e.tx \/ f.tx.setup = e.asked.setup
                 /\ \/ f.iEp0State = "EP0_END_XFER"
                    \/ f.iEp0State = e.iEp0State /\ f.dataEnd = e.dataEnd
              \/ /\ f.iTxBuf = 0 /\ f.owed = e.owed /\ f.tx = e.tx
                 /\ f.iEp0State = e.iEp0State /\ f.dataEnd = e.dataEnd
<1>1. /\ e.asked.kind = "read" /\ e.iTxBuf = 0
      /\ \/ \E len \in Answers : f = Ep0Write(e, len)
         \/ f = Ep0Stall(e)
  BY DEF Above
<1>2. CASE f = Ep0Stall(e)
  BY <1>1, <1>2 DEF Ep0Stall, CtlFields, NoPkt
<1>3. ASSUME NEW len \in Answers, f = Ep0Write(e, len)
      PROVE  /\ DOMAIN f = CtlFields /\ f.asked = NoPkt
             /\ f.rx = e.rx /\ f.setupEnd = e.setupEnd /\ f.isr = e.isr /\ f.pending = e.pending
             /\ f.iTxBuf = e.asked.setup /\ f.owed = TRUE /\ f.stall = e.stall
             /\ f.tx = e.tx \/ f.tx.setup = e.asked.setup
             /\ \/ f.iEp0State = "EP0_END_XFER"
                \/ f.iEp0State = e.iEp0State /\ f.dataEnd = e.dataEnd
  <2> DEFINE g == [e EXCEPT !.iTxBuf = e.asked.setup, !.iTransmitted = 0, !.iLength = len,
                            !.iZlpReqd = len < e.asked.bytes /\ len % KEp0MaxPktSz = 0,
                            !.asked = NoPkt, !.owed = TRUE]
  <2>1. f = Ep0Transmit(g)
    BY <1>3 DEF Ep0Write
  <2>2. /\ DOMAIN g = CtlFields /\ g.iTxBuf = e.asked.setup /\ g.asked = NoPkt /\ g.owed = TRUE
        /\ g.rx = e.rx /\ g.setupEnd = e.setupEnd /\ g.stall = e.stall /\ g.isr = e.isr
        /\ g.pending = e.pending /\ g.tx = e.tx /\ g.iEp0State = e.iEp0State /\ g.dataEnd = e.dataEnd
    BY DEF CtlFields
  <2> HIDE DEF g
  <2> QED
    BY <2>1, <2>2, TransmitSends
<1>4. CASE \E len \in Answers : f = Ep0Write(e, len)
  <2>1. PICK len \in Answers : f = Ep0Write(e, len)
    BY <1>4
  <2>2. NoPkt.kind = "none"
    BY DEF NoPkt
  <2> QED
    BY <1>1, <1>3, <2>1, <2>2
<1> QED
  BY <1>1, <1>2, <1>4

\* The state of the endpoint alone, for a transfer of the host.
EndpointIsTrue(e, h) ==
    /\ DOMAIN e = CtlFields /\ e.iEp0State \in CtlStates
    /\ PacketsAreOwn(e, h) /\ AnsweredIsOwn(e, h) /\ CompletedOnce(e)

\* An answer that the layer above gives in time is the host's.
LEMMA AboveIsTrue ==
    ASSUME NEW e, NEW h, EndpointIsTrue(e, h), ~e.setupEnd, Answering(e), NEW f \in Above(e)
    PROVE  EndpointIsTrue(f, h)
<1>1. CASE f = e
  BY <1>1
<1>2. CASE f # e
  <2>1. DOMAIN e = CtlFields /\ ~e.setupEnd
    BY DEF EndpointIsTrue
  <2>2. /\ DOMAIN f = CtlFields /\ e.asked.kind = "read" /\ e.iTxBuf = 0 /\ f.asked.kind # "read"
        /\ f.rx = e.rx /\ f.setupEnd = e.setupEnd /\ f.isr = e.isr /\ f.pending = e.pending
        /\ \/ /\ f.iTxBuf = e.asked.setup /\ f.owed = TRUE /\ f.stall = e.stall
              /\ f.tx = e.tx \/ f.tx.setup = e.asked.setup
              /\ \/ f.iEp0State = "EP0_END_XFER"
                 \/ f.iEp0State = e.iEp0State /\ f.dataEnd = e.dataEnd
           \/ /\ f.iTxBuf = 0 /\ f.owed = e.owed /\ f.tx = e.tx
              /\ f.iEp0State = e.iEp0State /\ f.dataEnd = e.dataEnd
    BY <1>2, <2>1, AboveAnswers DEF Silent, CtlFields
  <2>3. e.asked.setup = h.setup /\ e.asked.setup # 0 /\ h.stage # "none" /\ "send" \notin e.stall
        /\ e.rx.kind \notin {"read", "write", "nodata"} /\ ~e.dataEnd
    BY <2>1, <2>2 DEF EndpointIsTrue, AnsweredIsOwn, Silent
  <2>4. PacketsAreOwn(f, h)
    BY <2>2, <2>3 DEF EndpointIsTrue, PacketsAreOwn
  <2>5. AnsweredIsOwn(f, h)
    BY <2>1, <2>2, <2>3 DEF AnsweredIsOwn, Answering, Silent
  <2>6. CompletedOnce(f)
    BY <2>1, <2>2, <2>3 DEF EndpointIsTrue, CompletedOnce, Answering
  <2>7. f.iEp0State \in CtlStates
    BY <2>2 DEF CtlStates, EndpointIsTrue
  <2> QED
    BY <2>2, <2>4, <2>5, <2>6, <2>7 DEF EndpointIsTrue
<1> QED
  BY <1>1, <1>2

\* The layer above is only asked in the ISR when the request has just been read.
LEMMA SetupIsAnswered ==
    ASSUME NEW e, NEW h, EndpointIsTrue(e, h), e.iEp0State = "EP0_IDLE", e.rx # NoPkt, ~e.setupEnd,
           NEW f \in Above(Ep0ReadSetupPkt(e))
    PROVE  EndpointIsTrue(f, h)
<1> DEFINE r == Ep0ReadSetupPkt(e)
<1>1. /\ DOMAIN r = CtlFields /\ r.rx = NoPkt /\ r.asked = e.rx
      /\ r.iEp0State = NextEp0State(e.rx) /\ r.iTxBuf = e.iTxBuf /\ r.owed = e.owed
      /\ r.tx = e.tx /\ r.dataEnd = e.dataEnd /\ r.setupEnd = e.setupEnd /\ r.stall = e.stall
      /\ r.isr = e.isr /\ r.pending = e.pending
  BY DEF Ep0ReadSetupPkt, EndpointIsTrue, CtlFields
<1> HIDE DEF r
<1>2. /\ r.iEp0State \in CtlStates /\ (r.iEp0State = "EP0_IN_DATA_PHASE" <=> e.rx.kind = "read")
      /\ NoPkt.kind = "none" /\ e.iTxBuf = 0
  BY <1>1 DEF NextEp0State, CtlStates, NoPkt, EndpointIsTrue, CompletedOnce
<1>3. PacketsAreOwn(r, h)
  BY <1>1, <1>2 DEF EndpointIsTrue, PacketsAreOwn
<1>4. AnsweredIsOwn(r, h)
  BY <1>1, <1>2 DEF EndpointIsTrue, PacketsAreOwn, AnsweredIsOwn, Answering, Silent
<1>5. CompletedOnce(r)
  BY <1>1, <1>2 DEF EndpointIsTrue, CompletedOnce
<1>6. EndpointIsTrue(r, h)
  BY <1>1, <1>2, <1>3, <1>4, <1>5 DEF EndpointIsTrue
<1>7. CASE f = r
  BY <1>6, <1>7
<1>8. CASE f # r
  <2>1. r.asked.kind = "read"
    BY <1>1, <1>8, AboveAnswers DEF r
  <2>2. Answering(r) /\ ~r.setupEnd
    BY <1>1, <1>2, <2>1 DEF Answering
  <2> QED
    BY <1>6, <2>2, AboveIsTrue DEF r
<1> QED
  BY <1>7, <1>8

\* The state the ISR finds: INTRTX is read, and a transfer the host has ended given up.
IsrEntered(e) == StallSent(SetupEnded([e EXCEPT !.pending = FALSE, !.isr = TRUE]))

\* What is given up is neither answered nor owed.
LEMMA IsrEnteredIsTrue ==
    ASSUME NEW e, NEW h, EndpointIsTrue(e, h)
    PROVE  EndpointIsTrue(IsrEntered(e), h) /\ ~IsrEntered(e).setupEnd
<1> DEFINE f == IsrEntered(e)
           g == SetupEnded([e EXCEPT !.pending = FALSE, !.isr = TRUE])
<1>1. /\ DOMAIN g = CtlFields /\ g.rx = e.rx /\ g.tx = e.tx /\ g.asked = e.asked
      /\ g.dataEnd = e.dataEnd /\ g.stall = e.stall /\ ~g.pending /\ ~g.setupEnd
      /\ IF e.setupEnd THEN g.iEp0State = "EP0_IDLE" /\ g.iTxBuf = 0
                            /\ g.owed = IF e.iTxBuf # 0 THEN FALSE ELSE e.owed
         ELSE g.iEp0State = e.iEp0State /\ g.iTxBuf = e.iTxBuf /\ g.owed = e.owed
  <2> DEFINE d == [e EXCEPT !.pending = FALSE, !.isr = TRUE]
  <2>1. /\ DOMAIN d = CtlFields /\ d.rx = e.rx /\ d.tx = e.tx /\ d.asked = e.asked
        /\ d.dataEnd = e.dataEnd /\ d.stall = e.stall /\ ~d.pending /\ d.setupEnd = e.setupEnd
        /\ d.iEp0State = e.iEp0State /\ d.iTxBuf = e.iTxBuf /\ d.owed = e.owed
    BY DEF EndpointIsTrue, CtlFields
  <2> HIDE DEF d
  <2>2. g = SetupEnded(d)
    BY DEF d
  <2> HIDE DEF g
  <2>3. CASE ~e.setupEnd
    BY <2>1, <2>2, <2>3 DEF SetupEnded
  <2>4. CASE e.setupEnd /\ e.iTxBuf = 0
    BY <2>1, <2>2, <2>4 DEF SetupEnded, Ep0Cancel, CtlFields
  <2>5. CASE e.setupEnd /\ e.iTxBuf # 0
    BY <2>1, <2>2, <2>5 DEF SetupEnded, Ep0Cancel, Completed, CtlFields
  <2> QED
    BY <2>3, <2>4, <2>5
<1> HIDE DEF g
<1>2. f = [g EXCEPT !.stall = @ \ {"sent"}]
  BY DEF IsrEntered, StallSent, g
<1>3. /\ DOMAIN f = CtlFields /\ f.rx = e.rx /\ f.tx = e.tx /\ f.asked = e.asked
      /\ f.dataEnd = e.dataEnd /\ ~f.pending /\ ~f.setupEnd
      /\ f.iEp0State = g.iEp0State /\ f.iTxBuf = g.iTxBuf /\ f.owed = g.owed
      /\ f.stall = e.stall \ {"sent"}
  BY <1>1, <1>2 DEF CtlFields
<1> HIDE DEF f
<1>4. "send" \in f.stall <=> "send" \in e.stall
  BY <1>3
<1>5. PacketsAreOwn(f, h)
  BY <1>3, <1>4 DEF EndpointIsTrue, PacketsAreOwn
<1>6. AnsweredIsOwn(f, h)
  BY <1>1, <1>3, <1>4 DEF EndpointIsTrue, AnsweredIsOwn, Answering, Silent
<1>7. CompletedOnce(f) /\ f.iEp0State \in CtlStates
  BY <1>1, <1>3 DEF EndpointIsTrue, CompletedOnce, CtlStates
<1> QED
  BY <1>3, <1>5, <1>6, <1>7 DEF EndpointIsTrue, f

\* Whatever the ISR does in its state is for the host's transfer.
LEMMA ServedIsTrue ==
    ASSUME NEW e, NEW h, EndpointIsTrue(e, h), ~e.setupEnd, NEW f \in Served(e)
    PROVE  EndpointIsTrue(f, h)
<1>1. DOMAIN e = CtlFields /\ e.iEp0State \in CtlStates /\ NoPkt.kind = "none"
  BY DEF EndpointIsTrue, NoPkt
<1>2. CASE e.iEp0State = "EP0_END_XFER"
  <2>1. f = Ep0EndXfer(e)
    BY <1>2 DEF Served
  <2>2. /\ DOMAIN f = CtlFields /\ f.rx = NoPkt /\ f.tx = e.tx /\ f.iEp0State = "EP0_IDLE"
        /\ f.iTxBuf = 0 /\ f.owed = FALSE /\ f.stall = e.stall /\ f.pending = e.pending
        /\ f.setupEnd = e.setupEnd
    BY <1>1, <2>1 DEF Ep0EndXfer, Completed, CtlFields
  <2>3. PacketsAreOwn(f, h) /\ AnsweredIsOwn(f, h)
    BY <1>1, <2>2 DEF EndpointIsTrue, PacketsAreOwn, AnsweredIsOwn, Answering
  <2>4. CompletedOnce(f) /\ f.iEp0State \in CtlStates
    BY <2>2 DEF CompletedOnce, CtlStates
  <2> QED
    BY <2>2, <2>3, <2>4 DEF EndpointIsTrue
<1>3. CASE e.iEp0State = "EP0_IDLE"
  <2>1. CASE e.rx # NoPkt
    BY <1>3, <2>1, SetupIsAnswered DEF Served
  <2>2. CASE e.rx = NoPkt
    BY <1>3, <2>2 DEF Served
  <2> QED
    BY <2>1, <2>2
<1>4. CASE e.iEp0State = "EP0_OUT_DATA_PHASE"
  <2>1. f = StatusPacket(e)
    BY <1>4 DEF Served
  <2>2. /\ DOMAIN f = CtlFields /\ f.rx = NoPkt /\ f.iEp0State = e.iEp0State
        /\ f.tx = e.tx \/ f.tx.kind = "status"
        /\ f.iTxBuf = e.iTxBuf /\ f.owed = e.owed /\ f.stall = e.stall /\ f.pending = e.pending
        /\ f.setupEnd = e.setupEnd
    BY <1>1, <2>1 DEF StatusPacket, Ep0Receive, CtlFields
  <2>3. PacketsAreOwn(f, h) /\ AnsweredIsOwn(f, h)
    BY <1>1, <1>4, <2>2 DEF EndpointIsTrue, PacketsAreOwn, AnsweredIsOwn, Answering
  <2>4. CompletedOnce(f) /\ f.iEp0State \in CtlStates
    BY <1>1, <2>2 DEF EndpointIsTrue, CompletedOnce
  <2> QED
    BY <2>2, <2>3, <2>4 DEF EndpointIsTrue
<1>5. CASE e.iEp0State = "EP0_IN_DATA_PHASE"
  <2>1. f = Ep0Transmit(e)
    BY <1>5 DEF Served
  <2>2. CASE e.iTxBuf = 0
    BY <1>1, <2>1, <2>2, TransmitSends
  <2>3. CASE e.iTxBuf # 0
    <3>1. /\ DOMAIN f = CtlFields /\ f.iTxBuf = e.iTxBuf /\ f.asked = e.asked /\ f.owed = e.owed
          /\ f.rx = e.rx /\ f.setupEnd = e.setupEnd /\ f.stall = e.stall /\ f.pending = e.pending
          /\ f.tx = e.tx \/ f.tx.setup = e.iTxBuf
          /\ f.iEp0State = "EP0_END_XFER" \/ (f.iEp0State = e.iEp0State /\ f.dataEnd = e.dataEnd)
      BY <1>1, <2>1, TransmitSends
    <3>2. e.iTxBuf = h.setup /\ e.rx.kind # "read"
      BY <1>5, <2>3 DEF EndpointIsTrue, AnsweredIsOwn, Answering, Silent
    <3>3. PacketsAreOwn(f, h)
      BY <3>1, <3>2 DEF EndpointIsTrue, PacketsAreOwn
    <3>4. AnsweredIsOwn(f, h)
      BY <1>5, <3>1 DEF EndpointIsTrue, AnsweredIsOwn, Answering, Silent
    <3>5. CompletedOnce(f) /\ f.iEp0State \in CtlStates
      BY <1>5, <3>1 DEF EndpointIsTrue, CompletedOnce, CtlStates
    <3> QED
      BY <3>1, <3>3, <3>4, <3>5 DEF EndpointIsTrue
  <2> QED
    BY <2>2, <2>3
<1> QED
  BY <1>1, <1>2, <1>3, <1>4, <1>5 DEF CtlStates

\* The host's steps, between the ISRs and within them.
LEMMA HostIsTrue ==
    ASSUME CtlInv, "late" \notin mishaps, NEW want,
           \/ HostSetup("read", want) \/ HostSetup("write", 1) \/ HostSetup("nodata", 0)
           \/ HostIn \/ HostOut \/ HostStatus \/ HostSeesStall
    PROVE  CtlInv'
<1> USE DEF CtlInv, CtlTypes
<1>1. NoPkt.kind = "none" /\ host0.setup \in Nat
  BY DEF NoPkt
<1>2. ASSUME NEW kind \in {"read", "write", "nodata"}, NEW w, HostSetup(kind, w)
      PROVE  CtlInv'
  <2> DEFINE s == host0.setup + 1
  <2>1. /\ DOMAIN host0' = DOMAIN host0 /\ host0'.setup = s /\ host0'.own = TRUE
        /\ host0'.stage \in {"status", "data"}
    BY <1>2 DEF HostSetup
  <2>2. /\ DOMAIN e0' = CtlFields /\ e0'.iEp0State = e0.iEp0State /\ e0'.iTxBuf = e0.iTxBuf
        /\ e0'.asked = e0.asked /\ e0'.owed = e0.owed /\ e0'.isr = e0.isr /\ e0'.pending = TRUE
        /\ e0'.rx.setup = s /\ e0'.rx.kind = kind /\ e0'.tx = NoPkt
        /\ e0'.stall = e0.stall \ {"send"} /\ e0'.dataEnd = FALSE
        /\ e0'.setupEnd = (e0.setupEnd \/ host0.stage # "none")
    BY <1>2 DEF HostSetup, CtlFields
  <2>3. s \in Nat /\ s # 0
    BY <1>1
  <2> HIDE DEF s
  <2>4. PacketsAreOwn(e0, host0)'
    BY <1>1, <2>1, <2>2, <2>3 DEF PacketsAreOwn
  <2>5. AnsweredIsOwn(e0, host0)'
    BY <1>2, <2>1, <2>2 DEF AnsweredIsOwn, Answering, Silent
  <2>6. CompletedOnce(e0)'
    BY <2>2 DEF CompletedOnce
  <2> QED
    BY <2>1, <2>2, <2>3, <2>4, <2>5, <2>6
<1>3. ASSUME HostIn PROVE CtlInv'
  <2>1. /\ e0.tx.kind = "data" /\ host0.stage = "data"
        /\ DOMAIN host0' = DOMAIN host0 /\ host0'.setup = host0.setup
        /\ host0'.own = (host0.own /\ e0.tx.setup = host0.setup)
        /\ host0'.stage \in {"status", "data"}
    BY <1>3 DEF HostIn
  <2>2. /\ DOMAIN e0' = CtlFields /\ e0'.iEp0State = e0.iEp0State /\ e0'.iTxBuf = e0.iTxBuf
        /\ e0'.asked = e0.asked /\ e0'.owed = e0.owed /\ e0'.isr = e0.isr /\ e0'.pending = TRUE
        /\ e0'.rx = e0.rx /\ e0'.tx = NoPkt /\ e0'.stall = e0.stall
        /\ e0'.dataEnd = e0.dataEnd /\ e0'.setupEnd = e0.setupEnd
    BY <1>3 DEF HostIn, CtlFields
  <2>3. PacketsAreOwn(e0, host0)'
    BY <1>1, <2>1, <2>2 DEF PacketsAreOwn
  <2>4. AnsweredIsOwn(e0, host0)'
    BY <2>1, <2>2 DEF AnsweredIsOwn, Answering, Silent
  <2>5. CompletedOnce(e0)'
    BY <1>3, <2>2 DEF CompletedOnce, HostIn
  <2>6. host0'.own
    BY <2>1 DEF PacketsAreOwn
  <2> QED
    BY <2>1, <2>2, <2>3, <2>4, <2>5, <2>6
<1>4. ASSUME HostOut PROVE CtlInv'
  <2>1. /\ host0.stage = "data" /\ e0.rx = NoPkt
        /\ DOMAIN host0' = DOMAIN host0 /\ host0'.setup = host0.setup
        /\ host0'.own = host0.own /\ host0'.stage = "status"
    BY <1>4 DEF HostOut
  <2>2. /\ DOMAIN e0' = CtlFields /\ e0'.iEp0State = e0.iEp0State /\ e0'.iTxBuf = e0.iTxBuf
        /\ e0'.asked = e0.asked /\ e0'.owed = e0.owed /\ e0'.isr = e0.isr /\ e0'.pending = TRUE
        /\ e0'.rx.setup = host0.setup /\ e0'.rx.kind = "data" /\ e0'.tx = e0.tx
        /\ e0'.stall = e0.stall /\ e0'.dataEnd = e0.dataEnd /\ e0'.setupEnd = e0.setupEnd
    BY <1>4 DEF HostOut, CtlFields
  <2>3. PacketsAreOwn(e0, host0)'
    BY <1>1, <2>1, <2>2 DEF PacketsAreOwn
  <2>4. AnsweredIsOwn(e0, host0)'
    BY <2>1, <2>2 DEF AnsweredIsOwn, Answering, Silent
  <2>5. CompletedOnce(e0)'
    BY <1>4, <2>2 DEF CompletedOnce, HostOut
  <2> QED
    BY <2>1, <2>2, <2>3, <2>4, <2>5
<1>5. ASSUME HostStatus PROVE CtlInv'
  <2>1. /\ e0.rx = NoPkt /\ DOMAIN host0' = DOMAIN host0 /\ host0'.setup = host0.setup
        /\ host0'.own = host0.own /\ host0'.stage = "none"
    BY <1>5 DEF HostStatus
  <2>2. /\ DOMAIN e0' = CtlFields /\ e0'.iEp0State = e0.iEp0State /\ e0'.iTxBuf = e0.iTxBuf
        /\ e0'.asked = e0.asked /\ e0'.owed = e0.owed /\ e0'.isr = e0.isr /\ e0'.pending = TRUE
        /\ e0'.rx = e0.rx /\ e0'.tx = NoPkt /\ e0'.stall = e0.stall /\ e0'.dataEnd = FALSE
        /\ e0'.setupEnd = (e0.setupEnd \/ ~e0.dataEnd)
    BY <1>5 DEF HostStatus, CtlFields
  <2>3. PacketsAreOwn(e0, host0)'
    BY <1>1, <2>1, <2>2 DEF PacketsAreOwn
  <2>4. AnsweredIsOwn(e0, host0)'
    BY <2>1, <2>2 DEF AnsweredIsOwn, Answering, Silent
  <2>5. CompletedOnce(e0)'
    BY <2>2 DEF CompletedOnce
  <2> QED
    BY <2>1, <2>2, <2>3, <2>4, <2>5
<1>6. ASSUME HostSeesStall PROVE CtlInv'
  <2>1. /\ "send" \in e0.stall /\ DOMAIN host0' = DOMAIN host0 /\ host0'.setup = host0.setup
        /\ host0'.own = host0.own /\ host0'.stage = "none"
    BY <1>6 DEF HostSeesStall
  <2>2. /\ DOMAIN e0' = CtlFields /\ e0'.iEp0State = e0.iEp0State /\ e0'.iTxBuf = e0.iTxBuf
        /\ e0'.asked = e0.asked /\ e0'.owed = e0.owed /\ e0'.isr = e0.isr /\ e0'.pending = TRUE
        /\ e0'.rx = e0.rx /\ e0'.tx = e0.tx /\ e0'.stall = {"sent"}
        /\ e0'.dataEnd = e0.dataEnd /\ e0'.setupEnd = e0.setupEnd
    BY <1>6 DEF HostSeesStall, CtlFields
  <2>3. PacketsAreOwn(e0, host0)'
    BY <2>1, <2>2 DEF PacketsAreOwn
  <2>4. AnsweredIsOwn(e0, host0)'
    BY <2>1, <2>2 DEF AnsweredIsOwn, Answering, Silent
  <2>5. CompletedOnce(e0)'
    BY <2>2 DEF CompletedOnce
  <2> QED
    BY <2>1, <2>2, <2>3, <2>4, <2>5
<1> QED
  BY <1>2, <1>3, <1>4, <1>5, <1>6

\* What has happened has happened.
LEMMA MishapsStay ==
    ASSUME [Ep0Next]_ep0Vars, "late" \in mishaps
    PROVE  "late" \in mishaps'
BY DEF Ep0Next, ep0Vars, Ep0IntService, ClearEndpointInterrupt, AnswersLater, HostSetup, HostIn,
       HostOut, HostStatus, HostSeesStall

\* Every step keeps the invariant.
LEMMA CtlStep ==
    ASSUME CtlInv, [Ep0Next]_ep0Vars
    PROVE  CtlInv'
<1> SUFFICES ASSUME "late" \notin mishaps' PROVE CtlInv'
  BY DEF CtlInv
<1>0. "late" \notin mishaps
  BY MishapsStay
<1>1. EndpointIsTrue(e0, host0) /\ CtlTypes /\ host0.own
  BY <1>0 DEF CtlInv, CtlTypes, EndpointIsTrue
<1>2. ASSUME EndpointIsTrue(e0', host0), host0' = host0
      PROVE  CtlInv'
  BY <1>1, <1>2 DEF CtlInv, CtlTypes, EndpointIsTrue
<1>3. CASE Ep0IntService
  <2>1. IsrEntered(e0) = StallSent(SetupEnded([e0 EXCEPT !.pending = FALSE, !.isr = TRUE]))
    BY DEF IsrEntered
  <2>2. PICK f \in Served(IsrEntered(e0)) : e0' = f
    BY <1>3, <2>1 DEF Ep0IntService
  <2>3. EndpointIsTrue(f, host0)
    BY <1>1, IsrEnteredIsTrue, ServedIsTrue
  <2> QED
    BY <1>2, <1>3, <2>2, <2>3 DEF Ep0IntService
<1>4. CASE ClearEndpointInterrupt
  <2>1. /\ e0.isr /\ DOMAIN e0' = CtlFields /\ e0'.rx = e0.rx /\ e0'.tx = e0.tx
        /\ e0'.asked = e0.asked /\ e0'.dataEnd = e0.dataEnd /\ e0'.stall = e0.stall
        /\ ~e0'.isr /\ ~e0'.pending /\ e0'.setupEnd = e0.setupEnd
        /\ e0'.iEp0State = e0.iEp0State /\ e0'.iTxBuf = e0.iTxBuf /\ e0'.owed = e0.owed
    BY <1>1, <1>4 DEF ClearEndpointInterrupt, EndpointIsTrue, CtlFields
  <2>2. PacketsAreOwn(e0', host0)
    BY <1>1, <2>1 DEF EndpointIsTrue, PacketsAreOwn
  <2>3. AnsweredIsOwn(e0', host0)
    BY <1>1, <2>1 DEF EndpointIsTrue, AnsweredIsOwn, Answering, Silent
  <2>4. CompletedOnce(e0')
    BY <1>1, <2>1 DEF EndpointIsTrue, CompletedOnce
  <2>5. EndpointIsTrue(e0', host0)
    BY <1>1, <2>1, <2>2, <2>3, <2>4 DEF EndpointIsTrue
  <2> QED
    BY <1>2, <1>4, <2>5 DEF ClearEndpointInterrupt
<1>5. CASE AnswersLater
  <2>1. ~e0.setupEnd
    BY <1>5 DEF AnswersLater
  <2>2. EndpointIsTrue(e0', host0)
    BY <1>1, <1>5, <2>1, AboveIsTrue DEF AnswersLater, Answering
  <2> QED
    BY <1>2, <1>5, <2>2 DEF AnswersLater
<1>6. CASE \/ \E want \in Wants : HostSetup("read", want)
           \/ HostSetup("write", 1) \/ HostSetup("nodata", 0)
           \/ HostIn \/ HostOut \/ HostStatus \/ HostSeesStall
  BY <1>0, <1>6, HostIsTrue
<1>7. CASE UNCHANGED ep0Vars
  BY <1>1, <1>2, <1>7 DEF ep0Vars
<1> QED
  BY <1>3, <1>4, <1>5, <1>6, <1>7 DEF Ep0Next

\* What the host is sent in a control read answers that read and no other, whatever it asks
\* and however often and wherever it gives up, until the layer above gives an answer though
\* SETUPEND is set, and the ISR has not read it.
THEOREM AnswersToTheHost == Ep0Spec => []AnswersAreOwn
<1>1. Ep0Init => CtlInv
  <2> SUFFICES ASSUME Ep0Init PROVE CtlInv
    OBVIOUS
  <2>1. CtlTypes
    BY DEF Ep0Init, CtlTypes, CtlFields, CtlStates, NoTransfer
  <2>2. /\ e0.rx = NoPkt /\ e0.tx = NoPkt /\ e0.iEp0State = "EP0_IDLE" /\ e0.iTxBuf = 0
        /\ e0.owed = FALSE /\ NoPkt.kind = "none" /\ host0.own = TRUE
    BY DEF Ep0Init, NoPkt, NoTransfer
  <2>3. PacketsAreOwn(e0, host0) /\ AnsweredIsOwn(e0, host0)
    BY <2>2 DEF PacketsAreOwn, AnsweredIsOwn, Answering
  <2>4. CompletedOnce(e0)
    BY <2>2 DEF CompletedOnce
  <2> QED
    BY <2>1, <2>2, <2>3, <2>4 DEF CtlInv
<1>2. CtlInv /\ [Ep0Next]_ep0Vars => CtlInv'
  BY CtlStep
<1>3. CtlInv => AnswersAreOwn
  BY DEF CtlInv, AnswersAreOwn, CompletedOnce
<1> QED
  BY <1>1, <1>2, <1>3, PTL DEF Ep0Spec
-----------------------------------------------------------------------------
(* UsbBulkOut: for any buffers, packets, cancellations and interrupts.

   The property alone is not inductive: while a read goes on its packets are all full,
   so that it can only go on with a packet behind them, and what is in the FIFO is the
   packet sent last. *)

OutFields == {"iRxBuf", "iReceived", "iLength", "iPackets", "iNoBuffer", "iDisabled",
              "iRxTimerSet", "iRxMoreDataRcvd", "timer", "fifo", "pending", "enabled", "stall",
              "into", "dropped"}
Completions == [size : Nat, packets : Nat, data : Seq(Nat)]
SizesTypes == sizes \in Seq(Sizes)

\* The endpoint u and the reads d completed so far.
OutTypes(u, d) ==
    /\ DOMAIN u = OutFields /\ u.iRxBuf \in BOOLEAN
    /\ u.iReceived \in Nat /\ u.iLength \in Nat /\ u.iPackets \in Nat
    /\ u.fifo \in {NoPacket, Len(sizes)}
    /\ u.into \in Seq(Nat) /\ d \in Seq(Completions)

ReadBy(q, p) == \E i \in 1..Len(q) : q[i] = p
InCompleted(d, p) == \E r \in 1..Len(d) : ReadBy(d[r].data, p)

\* Each packet sent is in one place.
PacketsAreSomewhere(u, d) ==
    /\ \A p \in 1..Len(sizes) :
           InCompleted(d, p) \/ ReadBy(u.into, p) \/ p \in u.dropped \/ p = u.fifo
    /\ \A p : InCompleted(d, p) \/ ReadBy(u.into, p) =>
                  p \in 1..Len(sizes) /\ p \notin u.dropped /\ p # u.fifo
    /\ u.dropped \subseteq 1..Len(sizes) /\ u.fifo \notin u.dropped

Increasing(q) == \A i, j \in 1..Len(q) : i < j => q[i] < q[j]
Before(q1, q2) == \A i \in 1..Len(q1), j \in 1..Len(q2) : q1[i] < q2[j]

PacketsInOrder(u, d) ==
    /\ \A r \in 1..Len(d) : Increasing(d[r].data) /\ Before(d[r].data, u.into)
    /\ \A r, s \in 1..Len(d) : r < s => Before(d[r].data, d[s].data)
    /\ Increasing(u.into)

\* The packets of a read that goes on are full.
ReadIsFull(u) ==
    IF u.iRxBuf
    THEN /\ u.iReceived = KBlkMaxPktSz * Len(u.into) /\ u.iReceived <= u.iLength
         /\ \A i \in 1..Len(u.into) : sizes[u.into[i]] = KBlkMaxPktSz
    ELSE u.into = <<>>

ReadsAreExact(d) == \A r \in 1..Len(d) : ReadExactly(d[r].data, d[r].size)

OutIsTrue(u, d) ==
    /\ OutTypes(u, d) /\ PacketsAreSomewhere(u, d) /\ PacketsInOrder(u, d)
    /\ ReadIsFull(u) /\ ReadsAreExact(d)
OutInv == SizesTypes /\ OutIsTrue(usb, done)

\* What a function of the driver may do with the read u: nothing, take the packet in the
\* FIFO and go on, or complete it, with that packet or without.
SameButData(u, r) ==
    /\ DOMAIN r.u = OutFields /\ r.u.dropped = u.dropped /\ r.u.iLength = u.iLength
    /\ r.u.iPackets \in Nat
Stays(u, r) ==
    /\ r.completed = <<>> /\ r.u.iRxBuf = u.iRxBuf /\ r.u.iReceived = u.iReceived
    /\ r.u.into = u.into /\ r.u.fifo = u.fifo
GoesOn(u, r) ==
    /\ u.iRxBuf /\ u.fifo # NoPacket /\ r.completed = <<>> /\ r.u.iRxBuf = TRUE
    /\ r.u.into = Append(u.into, u.fifo) /\ r.u.fifo = NoPacket
    /\ sizes[u.fifo] = KBlkMaxPktSz /\ r.u.iReceived = u.iReceived + KBlkMaxPktSz
    /\ r.u.iReceived <= u.iLength
Finishes(u, r) ==
    /\ u.iRxBuf /\ r.u.iRxBuf = FALSE /\ r.u.into = <<>> /\ r.u.fifo = u.fifo
    /\ r.u.iReceived = u.iReceived
    /\ \E n \in Nat : r.completed = <<[size |-> u.iReceived, packets |-> n, data |-> u.into]>>
FinishesWith(u, r) ==
    /\ u.iRxBuf /\ u.fifo # NoPacket /\ r.u.iRxBuf = FALSE /\ r.u.into = <<>>
    /\ r.u.fifo = NoPacket /\ r.u.iReceived = u.iReceived + sizes[u.fifo]
    /\ \E n \in Nat :
           r.completed = <<[size |-> u.iReceived + sizes[u.fifo], packets |-> n,
                            data |-> Append(u.into, u.fifo)]>>
Outcome(u, r) ==
    SameButData(u, r) /\ (Stays(u, r) \/ GoesOn(u, r) \/ Finishes(u, r) \/ FinishesWith(u, r))

\* The packet in the FIFO.
LEMMA PacketInFifo ==
    ASSUME SizesTypes, NEW u, NEW d, OutIsTrue(u, d), u.fifo # NoPacket
    PROVE  /\ u.fifo = Len(sizes) /\ u.fifo \in 1..Len(sizes) /\ u.fifo \in Nat
           /\ sizes[u.fifo] \in Sizes
           /\ \A p : InCompleted(d, p) \/ ReadBy(u.into, p) => p < u.fifo /\ p \in Nat
<1>1. u.fifo = Len(sizes) /\ Len(sizes) \in Nat
  BY DEF OutIsTrue, OutTypes, SizesTypes
<1>2. u.fifo \in 1..Len(sizes) /\ sizes[u.fifo] \in Sizes
  BY <1>1 DEF NoPacket, SizesTypes
<1>3. \A p : InCompleted(d, p) \/ ReadBy(u.into, p) => p \in 1..Len(sizes) /\ p # u.fifo
  BY DEF OutIsTrue, PacketsAreSomewhere
<1> QED
  BY <1>1, <1>2, <1>3

\* The data of a read that goes on, and of one that ends with one more packet.
LEMMA ReadSoFar ==
    ASSUME SizesTypes, NEW u, NEW d, OutIsTrue(u, d), u.iRxBuf
    PROVE  /\ ReadExactly(u.into, u.iReceived)
           /\ u.fifo # NoPacket =>
                  ReadExactly(Append(u.into, u.fifo), u.iReceived + sizes[u.fifo])
<1>1. /\ u.into \in Seq(Nat) /\ u.iReceived = KBlkMaxPktSz * Len(u.into)
      /\ \A i \in 1..Len(u.into) : sizes[u.into[i]] = KBlkMaxPktSz
      /\ KBlkMaxPktSz = 2 /\ Len(u.into) \in Nat
  BY DEF OutIsTrue, OutTypes, ReadIsFull, KBlkMaxPktSz
<1>2. ReadExactly(u.into, u.iReceived)
  <2>1. CASE u.into = <<>>
    BY <1>1, <2>1 DEF ReadExactly, TotalSize
  <2>2. CASE u.into # <<>>
    <3>1. Len(u.into) \in 1..Len(u.into)
      BY <1>1, <2>2
    <3>2. TotalSize(u.into) = 2 * (Len(u.into) - 1) + 2
      BY <1>1, <2>2, <3>1 DEF TotalSize
    <3> QED
      BY <1>1, <3>2 DEF ReadExactly
  <2> QED
    BY <2>1, <2>2
<1>3. ASSUME u.fifo # NoPacket
      PROVE  ReadExactly(Append(u.into, u.fifo), u.iReceived + sizes[u.fifo])
  <2> DEFINE q == Append(u.into, u.fifo)
  <2>1. u.fifo \in Nat /\ sizes[u.fifo] \in 0..2
    BY <1>1, <1>3, PacketInFifo DEF Sizes
  <2>2. /\ q # <<>> /\ Len(q) = Len(u.into) + 1 /\ q[Len(q)] = u.fifo
        /\ \A i \in 1..Len(u.into) : q[i] = u.into[i]
    BY <1>1, <2>1
  <2> HIDE DEF q
  <2>3. TotalSize(q) = 2 * Len(u.into) + sizes[u.fifo]
    BY <1>1, <2>2 DEF TotalSize
  <2>4. \A i \in 1..(Len(q) - 1) : sizes[q[i]] = KBlkMaxPktSz
    BY <1>1, <2>2
  <2>5. ReadExactly(q, u.iReceived + sizes[u.fifo])
    BY <1>1, <2>3, <2>4 DEF ReadExactly
  <2> QED
    BY <2>5 DEF q
<1> QED
  BY <1>2, <1>3

\* One more packet behind the others.
LEMMA OneMore ==
    ASSUME NEW q \in Seq(Nat), NEW p \in Nat, \A x : ReadBy(q, x) => x < p, Increasing(q)
    PROVE  /\ Append(q, p) \in Seq(Nat) /\ Increasing(Append(q, p))
           /\ \A x : ReadBy(Append(q, p), x) <=> ReadBy(q, x) \/ x = p
           /\ \A q0 : Before(q0, q) /\ (\A x : ReadBy(q0, x) => x < p) => Before(q0, Append(q, p))
<1> DEFINE a == Append(q, p)
<1>1. /\ a \in Seq(Nat) /\ Len(a) = Len(q) + 1 /\ a[Len(q) + 1] = p /\ Len(q) \in Nat
      /\ \A i \in 1..Len(q) : a[i] = q[i]
  OBVIOUS
<1>2. \A i \in 1..Len(a) : i \in 1..Len(q) \/ i = Len(q) + 1
  BY <1>1
<1>3. \A i \in 1..Len(q) : q[i] < p /\ i \in 1..Len(a)
  BY <1>1 DEF ReadBy
<1> HIDE DEF a
<1>4. Increasing(a)
  <2> SUFFICES ASSUME NEW i \in 1..Len(a), NEW j \in 1..Len(a), i < j PROVE a[i] < a[j]
    BY DEF Increasing
  <2>1. i \in 1..Len(q)
    BY <1>1
  <2>2. CASE j \in 1..Len(q)
    BY <1>1, <2>1, <2>2 DEF Increasing
  <2>3. CASE j = Len(q) + 1
    BY <1>1, <1>3, <2>1, <2>3
  <2> QED
    BY <1>2, <2>2, <2>3
<1>5. \A x : ReadBy(a, x) <=> ReadBy(q, x) \/ x = p
  <2>1. Len(q) + 1 \in 1..Len(a)
    BY <1>1
  <2> QED
    BY <1>1, <1>2, <1>3, <2>1 DEF ReadBy
<1>6. ASSUME NEW q0, Before(q0, q), \A x : ReadBy(q0, x) => x < p
      PROVE  Before(q0, a)
  <2>1. \A i \in 1..Len(q0) : q0[i] < p
    BY <1>6 DEF ReadBy
  <2> QED
    BY <1>1, <1>2, <1>6, <2>1 DEF Before
<1> QED
  BY <1>1, <1>4, <1>5, <1>6 DEF a

\* One more read completed, in the order of the packets.
LEMMA OneMoreRead ==
    ASSUME NEW d \in Seq(Completions), NEW x \in Completions
    PROVE  /\ d \o <<x>> \in Seq(Completions) /\ Len(d \o <<x>>) = Len(d) + 1
           /\ (d \o <<x>>)[Len(d) + 1] = x
           /\ \A r \in 1..Len(d) : (d \o <<x>>)[r] = d[r] /\ r \in 1..Len(d \o <<x>>)
           /\ \A r \in 1..Len(d \o <<x>>) : r \in 1..Len(d) \/ r = Len(d) + 1
           /\ \A p : InCompleted(d \o <<x>>, p) <=> InCompleted(d, p) \/ ReadBy(x.data, p)
<1> DEFINE e == d \o <<x>>
<1>1. /\ e \in Seq(Completions) /\ Len(e) = Len(d) + 1 /\ e[Len(d) + 1] = x /\ Len(d) \in Nat
      /\ \A r \in 1..Len(d) : e[r] = d[r]
  OBVIOUS
<1>2. /\ \A r \in 1..Len(d) : r \in 1..Len(e)
      /\ \A r \in 1..Len(e) : r \in 1..Len(d) \/ r = Len(d) + 1
      /\ Len(d) + 1 \in 1..Len(e)
  BY <1>1
<1> HIDE DEF e
<1>3. \A p : InCompleted(e, p) <=> InCompleted(d, p) \/ ReadBy(x.data, p)
  BY <1>1, <1>2 DEF InCompleted
<1> QED
  BY <1>1, <1>2, <1>3 DEF e

\* Each outcome keeps the packets in their places and in order.
LEMMA OutcomeIsTrue ==
    ASSUME SizesTypes, NEW u, NEW d, OutIsTrue(u, d), NEW r, Outcome(u, r)
    PROVE  OutIsTrue(r.u, d \o r.completed)
<1>1. /\ OutTypes(u, d) /\ PacketsAreSomewhere(u, d) /\ PacketsInOrder(u, d)
      /\ ReadIsFull(u) /\ ReadsAreExact(d) /\ SameButData(u, r)
      /\ d \in Seq(Completions) /\ u.into \in Seq(Nat) /\ d \o <<>> = d
      /\ u.iReceived \in Nat /\ u.iLength \in Nat
      /\ u.fifo \in {NoPacket, Len(sizes)} /\ Len(sizes) \in Nat /\ KBlkMaxPktSz = 2
  BY DEF OutIsTrue, Outcome, OutTypes, SizesTypes, KBlkMaxPktSz
<1>7. /\ DOMAIN r.u = OutFields /\ r.u.dropped = u.dropped /\ r.u.iLength = u.iLength
      /\ r.u.iLength \in Nat /\ r.u.iPackets \in Nat /\ <<>> \in Seq(Nat)
  BY <1>1 DEF SameButData
<1>8. \A p \in 1..Len(sizes) : p # NoPacket
  BY DEF NoPacket
<1>2. CASE Stays(u, r)
  <2>1. OutTypes(r.u, d) /\ PacketsAreSomewhere(r.u, d) /\ PacketsInOrder(r.u, d) /\ ReadIsFull(r.u)
    BY <1>1, <1>2
       DEF Stays, SameButData, OutTypes, PacketsAreSomewhere, PacketsInOrder, ReadIsFull
  <2> QED
    BY <1>1, <1>2, <2>1 DEF OutIsTrue, Stays
<1>3. CASE GoesOn(u, r)
  <2>1. /\ u.iRxBuf /\ u.fifo # NoPacket /\ r.u.iRxBuf = TRUE /\ r.completed = <<>>
        /\ r.u.into = Append(u.into, u.fifo) /\ r.u.fifo = NoPacket
        /\ sizes[u.fifo] = 2 /\ r.u.iReceived = u.iReceived + 2
        /\ r.u.iReceived <= u.iLength
    BY <1>1, <1>3 DEF GoesOn
  <2>2. /\ u.fifo \in 1..Len(sizes) /\ u.fifo \in Nat
        /\ \A p : InCompleted(d, p) \/ ReadBy(u.into, p) => p < u.fifo /\ p \in Nat
    BY <2>1, PacketInFifo
  <2>3. /\ r.u.into \in Seq(Nat) /\ Increasing(r.u.into)
        /\ \A x : ReadBy(r.u.into, x) <=> ReadBy(u.into, x) \/ x = u.fifo
        /\ \A q0 : Before(q0, u.into) /\ (\A x : ReadBy(q0, x) => x < u.fifo)
                       => Before(q0, r.u.into)
    BY <1>1, <2>1, <2>2, OneMore DEF PacketsInOrder
  <2>4. OutTypes(r.u, d)
    <3>0. r.u.iReceived \in Nat
      BY <1>1, <2>1
    <3>1. r.u.iReceived \in Nat /\ r.u.iRxBuf \in BOOLEAN /\ r.u.fifo \in {NoPacket, Len(sizes)}
      BY <2>1, <3>0, Zenon
    <3>2. r.u.into \in Seq(Nat) /\ d \in Seq(Completions)
      BY <1>1, <2>3
    <3> QED
      BY <1>7, <3>1, <3>2 DEF OutTypes
  <2>5. PacketsAreSomewhere(r.u, d)
    <3>1. /\ \A p \in 1..Len(sizes) :
                 InCompleted(d, p) \/ ReadBy(u.into, p) \/ p \in u.dropped \/ p = u.fifo
          /\ \A p : InCompleted(d, p) \/ ReadBy(u.into, p) =>
                        p \in 1..Len(sizes) /\ p \notin u.dropped /\ p # u.fifo
          /\ u.dropped \subseteq 1..Len(sizes) /\ u.fifo \notin u.dropped
      BY <1>1 DEF PacketsAreSomewhere
    <3>2. r.u.fifo \notin u.dropped
      BY <1>8, <2>1, <3>1
    <3>3. ASSUME NEW p, InCompleted(d, p) \/ ReadBy(r.u.into, p)
          PROVE  p \in 1..Len(sizes) /\ p \notin u.dropped /\ p # r.u.fifo
      BY <1>8, <2>1, <2>2, <2>3, <3>1, <3>3
    <3>4. \A p \in 1..Len(sizes) :
              InCompleted(d, p) \/ ReadBy(r.u.into, p) \/ p \in u.dropped
      BY <2>3, <3>1
    <3> QED
      BY <1>7, <3>1, <3>2, <3>3, <3>4 DEF PacketsAreSomewhere
  <2>6. PacketsInOrder(r.u, d)
    <3>1. \A s \in 1..Len(d) : \A x : ReadBy(d[s].data, x) => x < u.fifo
      BY <2>2 DEF InCompleted
    <3> QED
      BY <1>1, <2>3, <3>1 DEF PacketsInOrder
  <2>7. ReadIsFull(r.u)
    <3>1. /\ Len(r.u.into) = Len(u.into) + 1 /\ r.u.into[Len(u.into) + 1] = u.fifo
          /\ \A i \in 1..Len(u.into) : r.u.into[i] = u.into[i]
          /\ Len(u.into) \in Nat
      BY <1>1, <2>1, <2>2
    <3>2. \A i \in 1..Len(r.u.into) : i \in 1..Len(u.into) \/ i = Len(u.into) + 1
      BY <3>1
    <3>3. u.iReceived = 2 * Len(u.into) /\ \A i \in 1..Len(u.into) : sizes[u.into[i]] = 2
      BY <1>1, <2>1 DEF ReadIsFull
    <3> QED
      BY <1>1, <2>1, <3>1, <3>2, <3>3 DEF ReadIsFull, SameButData
  <2> QED
    BY <1>1, <2>1, <2>4, <2>5, <2>6, <2>7 DEF OutIsTrue
<1>4. ASSUME NEW q \in Seq(Nat), NEW size \in Nat, NEW n \in Nat,
             r.completed = <<[size |-> size, packets |-> n, data |-> q]>>, r.u.iRxBuf = FALSE,
             r.u.into = <<>>, r.u.iReceived \in Nat, ReadExactly(q, size), Increasing(q),
             r.u.fifo \in {NoPacket, u.fifo},
             \A x : ReadBy(q, x) <=> ReadBy(u.into, x) \/ (x = u.fifo /\ r.u.fifo # u.fifo),
             \A s \in 1..Len(d) : Before(d[s].data, q)
      PROVE  OutIsTrue(r.u, d \o r.completed)
  <2> DEFINE x == [size |-> size, packets |-> n, data |-> q]
             e == d \o <<x>>
  <2>1. x \in Completions /\ x.data = q /\ x.size = size
    BY DEF Completions
  <2> HIDE DEF x
  <2>2. /\ e \in Seq(Completions) /\ Len(e) = Len(d) + 1 /\ e[Len(d) + 1] = x
        /\ \A s \in 1..Len(d) : e[s] = d[s] /\ s \in 1..Len(e)
        /\ \A s \in 1..Len(e) : s \in 1..Len(d) \/ s = Len(d) + 1
        /\ \A p : InCompleted(e, p) <=> InCompleted(d, p) \/ ReadBy(q, p)
    BY <1>1, <2>1, OneMoreRead
  <2>3. d \o r.completed = e
    BY <1>4 DEF x
  <2> HIDE DEF e
  <2>4. OutTypes(r.u, e)
    <3>1. r.u.iRxBuf \in BOOLEAN /\ r.u.fifo \in {NoPacket, Len(sizes)}
      BY <1>1, <1>4
    <3> QED
      BY <1>4, <1>7, <2>2, <3>1 DEF OutTypes
  <2>5. (\A p : ~ReadBy(<<>>, p)) /\ Increasing(<<>>) /\ \A q0 : Before(q0, <<>>)
    BY DEF ReadBy, Increasing, Before
  <2>6. PacketsAreSomewhere(r.u, e)
    <3>1. /\ \A p \in 1..Len(sizes) :
                 InCompleted(d, p) \/ ReadBy(u.into, p) \/ p \in u.dropped \/ p = u.fifo
          /\ \A p : InCompleted(d, p) \/ ReadBy(u.into, p) =>
                        p \in 1..Len(sizes) /\ p \notin u.dropped /\ p # u.fifo
          /\ u.dropped \subseteq 1..Len(sizes) /\ u.fifo \notin u.dropped
          /\ u.fifo = NoPacket \/ u.fifo \in 1..Len(sizes)
      BY <1>1 DEF PacketsAreSomewhere, NoPacket
    <3>2. r.u.fifo \notin u.dropped
      BY <1>4, <1>8, <3>1
    <3>3. ASSUME NEW p, InCompleted(e, p) \/ ReadBy(<<>>, p)
          PROVE  p \in 1..Len(sizes) /\ p \notin u.dropped /\ p # r.u.fifo
      <4>1. InCompleted(d, p) \/ ReadBy(u.into, p) \/ (p = u.fifo /\ r.u.fifo # u.fifo)
        BY <1>4, <2>2, <2>5, <3>3
      <4> QED
        BY <1>4, <1>8, <3>1, <4>1
    <3>4. \A p \in 1..Len(sizes) : InCompleted(e, p) \/ p \in u.dropped \/ p = r.u.fifo
      BY <1>4, <2>2, <3>1
    <3> QED
      BY <1>4, <1>7, <3>1, <3>2, <3>3, <3>4 DEF PacketsAreSomewhere
  <2>7. PacketsInOrder(r.u, e)
    <3>1. \A s \in 1..Len(e) : Increasing(e[s].data)
      BY <1>1, <1>4, <2>1, <2>2 DEF PacketsInOrder
    <3>2. ASSUME NEW s \in 1..Len(e), NEW t \in 1..Len(e), s < t
          PROVE  Before(e[s].data, e[t].data)
      <4>0. Len(d) \in Nat
        BY <1>1
      <4>1. s \in 1..Len(d)
        BY <2>2, <3>2, <4>0
      <4>2. CASE t \in 1..Len(d)
        BY <1>1, <2>2, <3>2, <4>1, <4>2 DEF PacketsInOrder
      <4>3. CASE t = Len(d) + 1
        BY <1>4, <2>1, <2>2, <4>1, <4>3
      <4> QED
        BY <2>2, <4>2, <4>3
    <3> QED
      BY <1>4, <2>5, <3>1, <3>2 DEF PacketsInOrder
  <2>8. ReadIsFull(r.u) /\ ReadsAreExact(e)
    BY <1>1, <1>4, <2>1, <2>2 DEF ReadIsFull, ReadsAreExact
  <2> QED
    BY <2>3, <2>4, <2>6, <2>7, <2>8 DEF OutIsTrue
<1>5. CASE Finishes(u, r)
  <2>1. PICK n \in Nat : r.completed = <<[size |-> u.iReceived, packets |-> n, data |-> u.into]>>
    BY <1>5 DEF Finishes
  <2>2. u.iRxBuf /\ r.u.iRxBuf = FALSE /\ r.u.into = <<>> /\ r.u.fifo = u.fifo
        /\ r.u.iReceived = u.iReceived
    BY <1>5 DEF Finishes
  <2>3. ReadExactly(u.into, u.iReceived)
    BY <2>2, ReadSoFar
  <2>4. Increasing(u.into) /\ \A s \in 1..Len(d) : Before(d[s].data, u.into)
    BY <1>1 DEF PacketsInOrder
  <2> QED
    BY <1>1, <1>4, <2>1, <2>2, <2>3, <2>4
<1>6. CASE FinishesWith(u, r)
  <2> DEFINE q == Append(u.into, u.fifo)
  <2>1. PICK n \in Nat :
            r.completed = <<[size |-> u.iReceived + sizes[u.fifo], packets |-> n, data |-> q]>>
    BY <1>6 DEF FinishesWith
  <2>2. u.iRxBuf /\ r.u.iRxBuf = FALSE /\ r.u.into = <<>> /\ r.u.fifo = NoPacket
        /\ u.fifo # NoPacket /\ r.u.iReceived = u.iReceived + sizes[u.fifo]
    BY <1>6 DEF FinishesWith
  <2>3. ReadExactly(q, u.iReceived + sizes[u.fifo])
    BY <2>2, ReadSoFar
  <2>4. /\ u.fifo \in Nat /\ sizes[u.fifo] \in Sizes
        /\ \A p : InCompleted(d, p) \/ ReadBy(u.into, p) => p < u.fifo /\ p \in Nat
    BY <2>2, PacketInFifo
  <2>5. /\ q \in Seq(Nat) /\ Increasing(q)
        /\ \A x : ReadBy(q, x) <=> ReadBy(u.into, x) \/ x = u.fifo
        /\ \A q0 : Before(q0, u.into) /\ (\A x : ReadBy(q0, x) => x < u.fifo) => Before(q0, q)
    BY <1>1, <2>4, OneMore DEF PacketsInOrder
  <2>6. \A s \in 1..Len(d) : Before(d[s].data, q)
    <3>1. \A s \in 1..Len(d) : \A x : ReadBy(d[s].data, x) => x < u.fifo
      BY <2>4 DEF InCompleted
    <3> QED
      BY <1>1, <2>5, <3>1 DEF PacketsInOrder
  <2>7. u.iReceived + sizes[u.fifo] \in Nat
    BY <1>1, <2>4 DEF Sizes
  <2> HIDE DEF q
  <2> QED
    BY <1>4, <2>1, <2>2, <2>3, <2>5, <2>6, <2>7
<1> QED
  BY <1>2, <1>3, <1>5, <1>6 DEF Outcome

\* The functions of the driver, one by one: each has one of the outcomes.
LEMMA CompletesRead ==
    ASSUME NEW u, DOMAIN u = OutFields, u.iRxBuf, u.iPackets \in Nat, NEW r, r = RxComplete(u)
    PROVE  SameButData(u, r) /\ Finishes(u, r)
<1>1. /\ DOMAIN r.u = OutFields /\ r.u.iRxBuf = FALSE /\ r.u.into = <<>>
      /\ r.u.fifo = u.fifo /\ r.u.iReceived = u.iReceived /\ r.u.dropped = u.dropped
      /\ r.u.iLength = u.iLength /\ r.u.iPackets = u.iPackets
  BY DEF RxComplete, OutFields
<1>2. r.completed = <<[size |-> u.iReceived, packets |-> u.iPackets, data |-> u.into]>>
  BY DEF RxComplete
<1> QED
  BY <1>1, <1>2 DEF SameButData, Finishes

\* The fields that decide what becomes of the data.
SameRead(u, v) ==
    /\ DOMAIN v = OutFields /\ v.iRxBuf = u.iRxBuf /\ v.iReceived = u.iReceived
    /\ v.iLength = u.iLength /\ v.iPackets = u.iPackets /\ v.into = u.into
    /\ v.fifo = u.fifo /\ v.dropped = u.dropped

\* The timer does not touch it.
LEMMA TimerStops ==
    ASSUME NEW u, DOMAIN u = OutFields
    PROVE  SameRead(u, StopRxTimer(u)) /\ SameRead(u, AwaitMore(u))
<1>1. SameRead(u, StopRxTimer(u))
  BY DEF StopRxTimer, SameRead, OutFields
<1>2. SameRead(u, AwaitMore(u))
  BY DEF AwaitMore, SameRead, OutFields
<1> QED
  BY <1>1, <1>2

\* The packet in the FIFO is read into the buffer that is there.
LEMMA ReadsFifo ==
    ASSUME SizesTypes, NEW u, NEW d, OutIsTrue(u, d), u.iRxBuf, NEW v, v = ReadFifo(u)
    PROVE  /\ DOMAIN v = OutFields /\ v.iRxBuf = u.iRxBuf /\ v.iLength = u.iLength
           /\ v.iPackets \in Nat /\ v.dropped = u.dropped /\ v.fifo = u.fifo
           /\ u.fifo = NoPacket => v.iReceived = u.iReceived /\ v.into = u.into /\ Bytes(u) = 0
           /\ u.fifo # NoPacket => /\ v.iReceived = u.iReceived + sizes[u.fifo]
                                   /\ v.into = Append(u.into, u.fifo) /\ Bytes(u) = sizes[u.fifo]
<1>1. DOMAIN u = OutFields /\ u.iPackets \in Nat /\ u.iReceived \in Nat
  BY DEF OutIsTrue, OutTypes
<1> DEFINE into == IF u.fifo = NoPacket THEN u.into ELSE Append(u.into, u.fifo)
           packets == IF Bytes(u) = 0 /\ u.iReceived > 0 THEN u.iPackets + 1 ELSE u.iPackets
<1>2. v = [u EXCEPT !.iReceived = @ + Bytes(u), !.into = into, !.iPackets = packets]
  BY DEF ReadFifo
<1>3. packets \in Nat
  BY <1>1
<1>4. Bytes(u) = IF u.fifo = NoPacket THEN 0 ELSE sizes[u.fifo]
  BY DEF Bytes
<1>5. u.iReceived + 0 = u.iReceived
  BY <1>1
<1>6. into = IF u.fifo = NoPacket THEN u.into ELSE Append(u.into, u.fifo)
  OBVIOUS
<1> HIDE DEF into, packets
<1>7. /\ DOMAIN v = OutFields /\ v.iRxBuf = u.iRxBuf /\ v.iLength = u.iLength
      /\ v.iPackets = packets /\ v.dropped = u.dropped /\ v.fifo = u.fifo
      /\ v.iReceived = u.iReceived + Bytes(u) /\ v.into = into
  BY <1>1, <1>2 DEF OutFields
<1> QED
  BY <1>3, <1>4, <1>5, <1>6, <1>7

\* A packet that is taken ends the read, or is full and leaves room.
LEMMA TakesPacket ==
    ASSUME SizesTypes, NEW u, NEW d, OutIsTrue(u, d), u.iRxBuf, Fits(u), NEW inIsr \in BOOLEAN,
           NEW r, r = PacketTaken(u, inIsr)
    PROVE  Outcome(u, r)
<1> DEFINE v == ReadFifo(u)
           w == IF inIsr THEN StopRxTimer(v) ELSE v
           c == RxComplete(w)
           x == IF inIsr THEN SwitchedOff(c) ELSE c
<1>1. /\ DOMAIN v = OutFields /\ v.iRxBuf = u.iRxBuf /\ v.iLength = u.iLength
      /\ v.iPackets \in Nat /\ v.dropped = u.dropped /\ v.fifo = u.fifo
      /\ u.fifo = NoPacket => v.iReceived = u.iReceived /\ v.into = u.into /\ Bytes(u) = 0
      /\ u.fifo # NoPacket => /\ v.iReceived = u.iReceived + sizes[u.fifo]
                              /\ v.into = Append(u.into, u.fifo) /\ Bytes(u) = sizes[u.fifo]
  BY ReadsFifo
<1>2. /\ u.iReceived \in Nat /\ u.iLength \in Nat
      /\ u.fifo # NoPacket => sizes[u.fifo] \in Sizes
      /\ u.iReceived + Bytes(u) <= u.iLength
  BY PacketInFifo DEF OutIsTrue, OutTypes, Fits
<1>3. r = FifoReleased(IF ~Ends(v, Bytes(u)) THEN Still(AwaitMore(v)) ELSE x)
  BY DEF PacketTaken
<1> HIDE DEF v
<1>4. CASE ~Ends(v, Bytes(u))
  <2> DEFINE a == AwaitMore(v)
  <2>1. SameRead(v, a)
    BY <1>1, TimerStops
  <2>2. r = FifoReleased(Still(a))
    BY <1>3, <1>4
  <2> HIDE DEF a
  <2>3. /\ DOMAIN r.u = OutFields /\ r.u.iRxBuf = a.iRxBuf /\ r.u.iReceived = a.iReceived
        /\ r.u.iLength = a.iLength /\ r.u.iPackets = a.iPackets /\ r.u.into = a.into
        /\ r.u.dropped = a.dropped /\ r.u.fifo = NoPacket /\ r.completed = <<>>
    BY <2>1, <2>2 DEF FifoReleased, Still, SameRead, OutFields
  <2>4. u.fifo # NoPacket /\ sizes[u.fifo] = KBlkMaxPktSz
    BY <1>1, <1>2, <1>4 DEF Ends, Sizes, KBlkMaxPktSz
  <2>5. v.iReceived <= u.iLength
    BY <1>1, <1>2, <2>4
  <2>6. GoesOn(u, r)
    BY <1>1, <2>1, <2>3, <2>4, <2>5 DEF GoesOn, SameRead
  <2>7. SameButData(u, r)
    BY <1>1, <2>1, <2>3 DEF SameButData, SameRead
  <2> QED
    BY <2>6, <2>7 DEF Outcome
<1>5. CASE Ends(v, Bytes(u))
  <2>1. SameRead(v, w)
    BY <1>1, TimerStops DEF SameRead
  <2> HIDE DEF w
  <2>2. /\ DOMAIN c.u = OutFields /\ c.u.iRxBuf = FALSE /\ c.u.into = <<>>
        /\ c.u.fifo = w.fifo /\ c.u.iReceived = w.iReceived /\ c.u.dropped = w.dropped
        /\ c.u.iLength = w.iLength /\ c.u.iPackets = w.iPackets /\ DOMAIN c = {"u", "completed"}
        /\ c.completed = <<[size |-> w.iReceived, packets |-> w.iPackets, data |-> w.into]>>
    BY <2>1 DEF RxComplete, OutFields, SameRead
  <2> HIDE DEF c
  <2>3. /\ DOMAIN x.u = OutFields /\ x.u.iRxBuf = FALSE /\ x.u.into = <<>>
        /\ x.u.fifo = w.fifo /\ x.u.iReceived = w.iReceived /\ x.u.dropped = w.dropped
        /\ x.u.iLength = w.iLength /\ x.u.iPackets = w.iPackets /\ DOMAIN x = {"u", "completed"}
        /\ x.completed = c.completed
    BY <2>2 DEF SwitchedOff, OutFields
  <2>4. r = FifoReleased(x)
    BY <1>3, <1>5
  <2> HIDE DEF x
  <2>5. /\ DOMAIN r.u = OutFields /\ r.u.iRxBuf = FALSE /\ r.u.into = <<>>
        /\ r.u.fifo = NoPacket /\ r.u.iReceived = w.iReceived /\ r.u.dropped = w.dropped
        /\ r.u.iLength = w.iLength /\ r.u.iPackets = w.iPackets
        /\ r.completed = c.completed
    BY <2>3, <2>4 DEF FifoReleased, OutFields
  <2>6. SameButData(u, r)
    BY <1>1, <2>1, <2>5 DEF SameButData, SameRead
  <2>7. /\ w.iReceived = v.iReceived /\ w.into = v.into /\ w.iPackets \in Nat
    BY <1>1, <2>1 DEF SameRead
  <2>8. CASE u.fifo = NoPacket
    <3>1. Finishes(u, r)
      BY <1>1, <2>2, <2>5, <2>7, <2>8 DEF Finishes
    <3> QED
      BY <2>6, <3>1 DEF Outcome
  <2>9. CASE u.fifo # NoPacket
    <3>1. FinishesWith(u, r)
      BY <1>1, <2>2, <2>5, <2>7, <2>9 DEF FinishesWith
    <3> QED
      BY <2>6, <3>1 DEF Outcome
  <2> QED
    BY <2>8, <2>9
<1> QED
  BY <1>4, <1>5

\* A packet that does not fit completes the read without it.
LEMMA RefusesPacket ==
    ASSUME NEW u, NEW d, OutIsTrue(u, d), u.iRxBuf, NEW inIsr \in BOOLEAN, NEW r, r = TooLong(u, inIsr)
    PROVE  Outcome(u, r)
<1> DEFINE w == IF inIsr THEN StopRxTimer(u) ELSE u
           x == [w EXCEPT !.iNoBuffer = TRUE]
<1>1. DOMAIN u = OutFields /\ u.iPackets \in Nat
  BY DEF OutIsTrue, OutTypes
<1>2. SameRead(u, w)
  BY <1>1, TimerStops DEF SameRead
<1> HIDE DEF w
<1>3. SameRead(u, x)
  BY <1>2 DEF SameRead, OutFields
<1>4. r = RxComplete(x)
  BY DEF TooLong, w
<1> HIDE DEF x
<1>5. SameButData(x, r) /\ Finishes(x, r)
  BY <1>1, <1>3, <1>4, CompletesRead DEF SameRead
<1> QED
  BY <1>3, <1>5 DEF Outcome, SameButData, Finishes, SameRead

\* What the ISR and the client's call do with a packet.
LEMMA BulkReceives ==
    ASSUME SizesTypes, NEW u, NEW d, OutIsTrue(u, d)
    PROVE  /\ Outcome(u, BulkReceive(u))
           /\ u.iRxBuf => Outcome(u, BulkReadRxFifo(u))
<1>1. DOMAIN u = OutFields /\ u.iPackets \in Nat
  BY DEF OutIsTrue, OutTypes
<1>2. Outcome(u, Still(u)) /\ Outcome(u, Still([u EXCEPT !.stall = @ \ {"sent"}]))
  BY <1>1 DEF Outcome, Stays, SameButData, Still, OutFields
<1>3. Outcome(u, PacketRefused(u))
  BY <1>1 DEF Outcome, Stays, SameButData, Still, PacketRefused, OutFields
<1>4. ASSUME u.iRxBuf, NEW inIsr \in BOOLEAN
      PROVE  /\ Fits(u) => Outcome(u, PacketTaken(u, inIsr))
             /\ Outcome(u, TooLong(u, inIsr))
  BY <1>4, TakesPacket, RefusesPacket
<1>5. Outcome(u, BulkReceive(u))
  BY <1>2, <1>3, <1>4 DEF BulkReceive
<1>6. u.iRxBuf => Outcome(u, BulkReadRxFifo(u))
  BY <1>2, <1>4 DEF BulkReadRxFifo
<1> QED
  BY <1>5, <1>6

\* Other fields do not matter.
LEMMA OtherEndpointFields ==
    ASSUME NEW u, NEW v, NEW d, OutIsTrue(u, d), SameRead(u, v)
    PROVE  OutIsTrue(v, d)
<1>1. OutTypes(v, d) /\ PacketsAreSomewhere(v, d)
  BY DEF OutIsTrue, SameRead, OutTypes, PacketsAreSomewhere
<1>2. PacketsInOrder(v, d) /\ ReadIsFull(v)
  BY DEF OutIsTrue, SameRead, PacketsInOrder, ReadIsFull
<1> QED
  BY <1>1, <1>2 DEF OutIsTrue

\* A step that is one of the outcomes.
LEMMA StepIsTrue ==
    ASSUME OutInv, sizes' = sizes, NEW u, OutIsTrue(u, done), NEW r, Outcome(u, r), Results(r)
    PROVE  OutInv'
<1>1. usb' = r.u /\ done' = done \o r.completed
  BY DEF Results
<1>2. OutIsTrue(r.u, done \o r.completed)
  BY OutcomeIsTrue DEF OutInv
<1>3. ASSUME NEW v, NEW d, OutIsTrue(v, d)
      PROVE  OutTypes(v, d)' /\ PacketsAreSomewhere(v, d)' /\ PacketsInOrder(v, d)'
             /\ ReadIsFull(v)' /\ ReadsAreExact(d)'
  BY <1>3 DEF OutIsTrue, OutTypes, PacketsAreSomewhere, PacketsInOrder, ReadIsFull,
     ReadsAreExact, ReadExactly, TotalSize, InCompleted, ReadBy, Increasing, Before
<1>4. SizesTypes'
  BY DEF OutInv, SizesTypes
<1> QED
  BY <1>1, <1>2, <1>3, <1>4 DEF OutInv, OutIsTrue

\* A read begins with an empty buffer.
LEMMA SetupIsTrue ==
    ASSUME Lengths \subseteq Nat, OutInv, NEW len \in Lengths, SetupEndpointRead(len)
    PROVE  OutInv'
<1> DEFINE new == NewRead(len)
           on == [new EXCEPT !.iDisabled = FALSE, !.enabled = TRUE]
           took == [new EXCEPT !.iNoBuffer = FALSE]
<1>1. ~usb.iRxBuf /\ sizes' = sizes /\ OutIsTrue(usb, done)
  BY DEF SetupEndpointRead, OutInv
<1>2. /\ DOMAIN new = OutFields /\ new.iRxBuf = TRUE /\ new.iReceived = 0 /\ new.iLength = len
      /\ new.iPackets = 1 /\ new.into = usb.into /\ new.fifo = usb.fifo /\ new.dropped = usb.dropped
  BY <1>1 DEF NewRead, OutIsTrue, OutTypes, OutFields
<1>3. usb.into = <<>> /\ len \in Nat
  BY <1>1 DEF OutIsTrue, ReadIsFull
<1>4. IF new.iDisabled THEN Results(Still(on))
      ELSE IF new.iNoBuffer THEN Results(BulkReadRxFifo(took)) ELSE Results(Still(new))
  BY DEF SetupEndpointRead
<1> HIDE DEF new
<1>5. OutIsTrue(new, done)
  <2>1. OutTypes(new, done)
    <3>1. new.iReceived \in Nat /\ new.iLength \in Nat /\ new.iPackets \in Nat
      BY <1>2, <1>3
    <3>2. new.iRxBuf \in BOOLEAN
      BY <1>2
    <3> QED
      BY <1>1, <1>2, <3>1, <3>2 DEF OutIsTrue, OutTypes
  <2>2. PacketsAreSomewhere(new, done) /\ PacketsInOrder(new, done)
    BY <1>1, <1>2 DEF OutIsTrue, PacketsAreSomewhere, PacketsInOrder
  <2>3. ReadIsFull(new)
    <3>1. Len(<<>>) = 0 /\ KBlkMaxPktSz * 0 = 0
      BY DEF KBlkMaxPktSz
    <3> QED
      BY <1>2, <1>3, <3>1 DEF ReadIsFull
  <2> QED
    BY <1>1, <2>1, <2>2, <2>3 DEF OutIsTrue
<1>6. SameRead(new, on) /\ SameRead(new, took)
  BY <1>2 DEF SameRead, OutFields
<1>7. OutIsTrue(on, done) /\ OutIsTrue(took, done) /\ took.iRxBuf
  BY <1>2, <1>5, <1>6, OtherEndpointFields DEF SameRead
<1> HIDE DEF on, took
<1>8. \A u : OutIsTrue(u, done) => Outcome(u, Still(u))
  BY DEF OutIsTrue, OutTypes, Outcome, Stays, SameButData, Still
<1>9. Outcome(took, BulkReadRxFifo(took))
  BY <1>7, BulkReceives DEF OutInv
<1> QED
  BY <1>1, <1>4, <1>5, <1>7, <1>8, <1>9, StepIsTrue

\* A packet that is flushed, or read for a read that is cancelled, is dropped.
LEMMA DroppedIsTrue ==
    ASSUME OutInv, CancelEndpointRead \/ ConfigureEndpoint
    PROVE  OutInv'
<1>1. /\ OutTypes(usb, done) /\ PacketsAreSomewhere(usb, done) /\ PacketsInOrder(usb, done)
      /\ ReadIsFull(usb) /\ ReadsAreExact(done) /\ DOMAIN usb = OutFields
      /\ sizes' = sizes /\ done' = done
  BY DEF OutInv, OutIsTrue, OutTypes, CancelEndpointRead, ConfigureEndpoint
<1>2. /\ DOMAIN usb' = OutFields /\ usb'.iRxBuf = FALSE /\ usb'.into = <<>>
      /\ usb'.fifo = NoPacket /\ usb'.iLength = usb.iLength /\ usb'.iPackets = usb.iPackets
      /\ usb'.iReceived \in Nat
      /\ usb'.dropped = usb.dropped \cup Lost(usb) \cup {usb.into[i] : i \in 1..Len(usb.into)}
  <2>1. usb.into \in Seq(Nat) /\ usb.iReceived \in Nat
    BY <1>1 DEF OutTypes
  <2>2. DOMAIN usb.into = 1..Len(usb.into)
    BY <2>1
  <2>3. CASE CancelEndpointRead
    BY <1>1, <2>2, <2>3 DEF CancelEndpointRead, OutFields
  <2>4. CASE ConfigureEndpoint
    <3>1. ~usb.iRxBuf /\ usb.iRxBuf \in BOOLEAN /\ usb.into = <<>>
      BY <1>1, <2>4 DEF ConfigureEndpoint, ReadIsFull, OutTypes
    <3>2. {usb.into[i] : i \in 1..Len(usb.into)} = {}
      BY <3>1
    <3>3. /\ DOMAIN usb' = OutFields /\ usb'.iRxBuf = usb.iRxBuf /\ usb'.into = usb.into
          /\ usb'.fifo = NoPacket /\ usb'.iLength = usb.iLength /\ usb'.iPackets = usb.iPackets
          /\ usb'.iReceived = usb.iReceived /\ usb'.dropped = usb.dropped \cup Lost(usb)
      BY <1>1, <2>4 DEF ConfigureEndpoint, OutFields
    <3> QED
      BY <2>1, <3>1, <3>2, <3>3
  <2> QED
    BY <2>3, <2>4
<1>3. /\ \A p : p \in usb'.dropped <=>
                    p \in usb.dropped \/ (p = usb.fifo /\ p # NoPacket) \/ ReadBy(usb.into, p)
      /\ \A p : ~ReadBy(<<>>, p)
  BY <1>2 DEF Lost, ReadBy
<1>4. OutTypes(usb, done)'
  <2>1. usb'.iRxBuf \in BOOLEAN /\ usb'.into \in Seq(Nat)
    <3>1. <<>> \in Seq(Nat)
      OBVIOUS
    <3>2. usb'.iRxBuf = FALSE /\ usb'.into = <<>>
      BY <1>2
    <3> QED
      BY <3>1, <3>2
  <2>2. usb'.iReceived \in Nat /\ usb'.iLength \in Nat /\ usb'.iPackets \in Nat
    BY <1>1, <1>2 DEF OutTypes
  <2>3. done' \in Seq(Completions) /\ usb'.fifo = NoPacket
    BY <1>1, <1>2 DEF OutTypes
  <2> QED
    BY <1>2, <2>1, <2>2, <2>3 DEF OutTypes
<1>5. /\ \A p \in 1..Len(sizes) : p # NoPacket
      /\ usb.fifo = NoPacket \/ usb.fifo \in 1..Len(sizes)
  BY <1>1 DEF NoPacket, OutTypes, SizesTypes, OutInv
<1>6. PacketsAreSomewhere(usb, done)'
  <2>1. /\ \A p \in 1..Len(sizes) : InCompleted(done, p) \/ ReadBy(usb.into, p) \/ p \in usb.dropped
                                        \/ p = usb.fifo
        /\ \A p : InCompleted(done, p) \/ ReadBy(usb.into, p) =>
                      p \in 1..Len(sizes) /\ p \notin usb.dropped /\ p # usb.fifo
        /\ usb.dropped \subseteq 1..Len(sizes)
    BY <1>1 DEF PacketsAreSomewhere
  <2>2. \A p \in 1..Len(sizes) : InCompleted(done, p) \/ p \in usb'.dropped
    BY <1>3, <1>5, <2>1
  <2>3. ASSUME NEW p, InCompleted(done, p) PROVE p \in 1..Len(sizes) /\ p \notin usb'.dropped /\ p # NoPacket
    <3>1. ~ReadBy(usb.into, p)
      <4> SUFFICES ASSUME ReadBy(usb.into, p) PROVE FALSE
        OBVIOUS
      <4>1. PICK j \in 1..Len(usb.into) : usb.into[j] = p
        BY DEF ReadBy
      <4>2. PICK r \in 1..Len(done) : \E i \in 1..Len(done[r].data) : done[r].data[i] = p
        BY <2>3 DEF InCompleted, ReadBy
      <4>3. p < p
        BY <1>1, <4>1, <4>2 DEF PacketsInOrder, Before
      <4>4. p \in Nat
        BY <1>1, <4>1 DEF OutTypes
      <4> QED
        BY <4>3, <4>4
    <3> QED
      BY <1>3, <1>5, <2>1, <2>3, <3>1
  <2>4. usb'.dropped \subseteq 1..Len(sizes) /\ NoPacket \notin usb'.dropped
    BY <1>3, <1>5, <2>1
  <2>5. \A p : InCompleted(done, p)' <=> InCompleted(done, p)
    BY <1>1 DEF InCompleted, ReadBy
  <2>6. \A p : ~ReadBy(usb.into, p)'
    BY <1>2, <1>3 DEF ReadBy
  <2> QED
    BY <1>1, <1>2, <2>2, <2>3, <2>4, <2>5, <2>6 DEF PacketsAreSomewhere
<1>7. PacketsInOrder(usb, done)'
  <2>1. \A q0 : Before(q0, <<>>)
    BY DEF Before
  <2> QED
    BY <1>1, <1>2, <2>1 DEF PacketsInOrder, Before, Increasing
<1>8. ReadIsFull(usb)' /\ ReadsAreExact(done)' /\ SizesTypes'
  BY <1>1, <1>2 DEF ReadIsFull, ReadsAreExact, ReadExactly, TotalSize, SizesTypes, OutInv
<1> QED
  BY <1>4, <1>6, <1>7, <1>8 DEF OutInv, OutIsTrue

\* The host sends one more packet.
LEMMA SentIsTrue ==
    ASSUME OutInv, NEW size \in Sizes, HostSends(size)
    PROVE  OutInv'
<1>1. /\ OutTypes(usb, done) /\ PacketsAreSomewhere(usb, done) /\ PacketsInOrder(usb, done)
      /\ ReadIsFull(usb) /\ ReadsAreExact(done) /\ DOMAIN usb = OutFields
      /\ sizes' = Append(sizes, size) /\ done' = done /\ usb.fifo = NoPacket
      /\ sizes \in Seq(Sizes) /\ Len(sizes) \in Nat
  BY DEF OutInv, OutIsTrue, OutTypes, HostSends, SizesTypes
<1>2. /\ sizes' \in Seq(Sizes) /\ Len(sizes') = Len(sizes) + 1
      /\ \A p \in 1..Len(sizes) : sizes'[p] = sizes[p]
  BY <1>1
<1>3. /\ DOMAIN usb' = OutFields /\ usb'.iRxBuf = usb.iRxBuf /\ usb'.iReceived = usb.iReceived
      /\ usb'.iLength = usb.iLength /\ usb'.iPackets = usb.iPackets /\ usb'.into = usb.into
      /\ usb'.fifo = Len(sizes) + 1 /\ usb'.dropped = usb.dropped
  BY <1>1 DEF HostSends, OutFields
<1>4. \A p : /\ (p \in 1..(Len(sizes) + 1) <=> p \in 1..Len(sizes) \/ p = Len(sizes) + 1)
             /\ (p \in 1..Len(sizes) => p # Len(sizes) + 1)
  BY <1>1
<1>5. OutTypes(usb, done)'
  BY <1>1, <1>2, <1>3 DEF OutTypes
<1>6. PacketsAreSomewhere(usb, done)'
  <2>1. /\ \A p \in 1..Len(sizes) : InCompleted(done, p) \/ ReadBy(usb.into, p) \/ p \in usb.dropped
                                        \/ p = usb.fifo
        /\ \A p : InCompleted(done, p) \/ ReadBy(usb.into, p) =>
                      p \in 1..Len(sizes) /\ p \notin usb.dropped
        /\ usb.dropped \subseteq 1..Len(sizes) /\ \A p \in 1..Len(sizes) : p # usb.fifo
    BY <1>1 DEF PacketsAreSomewhere, NoPacket
  <2>2. /\ \A p : InCompleted(done, p)' <=> InCompleted(done, p)
        /\ \A p : ReadBy(usb.into, p)' <=> ReadBy(usb.into, p)
    BY <1>1, <1>3 DEF InCompleted, ReadBy
  <2> QED
    BY <1>1, <1>2, <1>3, <1>4, <2>1, <2>2 DEF PacketsAreSomewhere
<1>7. PacketsInOrder(usb, done)'
  BY <1>1, <1>3 DEF PacketsInOrder, Before, Increasing
<1>8. ReadIsFull(usb)'
  <2>1. \A i \in 1..Len(usb.into) : usb.into[i] \in 1..Len(sizes)
    BY <1>1 DEF PacketsAreSomewhere, ReadBy
  <2> QED
    BY <1>1, <1>2, <1>3, <2>1 DEF ReadIsFull
<1>9. ReadsAreExact(done)'
  <2> SUFFICES ASSUME NEW r \in 1..Len(done) PROVE ReadExactly(done[r].data, done[r].size)'
    BY <1>1 DEF ReadsAreExact
  <2>1. PICK q : q = done[r].data /\ q = done'[r].data
    BY <1>1
  <2>2. q \in Seq(Nat) /\ Len(q) \in Nat
    <3>1. done \in Seq(Completions)
      BY <1>1 DEF OutTypes
    <3>2. PICK c \in Completions : c = done[r]
      BY <3>1
    <3>3. c.data \in Seq(Nat)
      BY DEF Completions
    <3>4. q = c.data
      BY <2>1, <3>2
    <3>5. q \in Seq(Nat)
      BY <3>3, <3>4
    <3> QED
      BY <3>5
  <2>3. \A i \in 1..Len(q) : q[i] \in 1..Len(sizes)
    BY <1>1, <2>1 DEF PacketsAreSomewhere, InCompleted, ReadBy
  <2>4. ReadExactly(q, done[r].size)
    BY <1>1, <2>1 DEF ReadsAreExact
  <2>5. \A i \in 1..Len(q) : sizes'[q[i]] = sizes[q[i]]
    BY <1>2, <2>3
  <2>6. q # <<>> => Len(q) \in 1..Len(q)
    BY <2>2
  <2>7. TotalSize(q)' = TotalSize(q)
    BY <2>5, <2>6 DEF TotalSize
  <2>8. \A i \in 1..(Len(q) - 1) : i \in 1..Len(q)
    BY <2>2
  <2>9. ReadExactly(q, done[r].size)'
    BY <1>1, <2>4, <2>5, <2>7, <2>8 DEF ReadExactly
  <2> QED
    BY <2>1, <2>9
<1> QED
  BY <1>2, <1>5, <1>6, <1>7, <1>8, <1>9 DEF OutInv, OutIsTrue, SizesTypes

\* Every step keeps the packets in their places and in order.
LEMMA OutStep ==
    ASSUME Lengths \subseteq Nat, OutInv, [OutNext]_outVars
    PROVE  OutInv'
<1>1. OutIsTrue(usb, done) /\ DOMAIN usb = OutFields /\ SizesTypes /\ usb.iPackets \in Nat
  BY DEF OutInv, OutIsTrue, OutTypes
<1>2. ASSUME NEW v, SameRead(usb, v) PROVE OutIsTrue(v, done) /\ Outcome(v, Still(v))
  <2>1. OutIsTrue(v, done)
    BY <1>1, <1>2, OtherEndpointFields
  <2> QED
    BY <2>1 DEF OutIsTrue, OutTypes, Outcome, Stays, SameButData, Still
<1>3. ASSUME NEW v, SameRead(usb, v), usb' = v, done' = done, sizes' = sizes PROVE OutInv'
  <2>1. Results(Still(v))
    <3>1. done \o <<>> = done
      BY <1>1 DEF OutIsTrue, OutTypes
    <3> QED
      BY <1>3, <3>1 DEF Results, Still
  <2> QED
    BY <1>2, <1>3, <2>1, StepIsTrue
<1>4. CASE \E len \in Lengths : SetupEndpointRead(len)
  BY <1>4, SetupIsTrue
<1>5. CASE CancelEndpointRead \/ ConfigureEndpoint
  BY <1>5, DroppedIsTrue
<1>6. CASE StallEndpoint \/ ClearStallEndpoint \/ HostIsStalled
  <2>1. SameRead(usb, usb')
    BY <1>1, <1>6 DEF SameRead, StallEndpoint, ClearStallEndpoint, HostIsStalled, OutFields
  <2>2. done' = done /\ sizes' = sizes
    BY <1>6 DEF StallEndpoint, ClearStallEndpoint, HostIsStalled
  <2> QED
    BY <1>3, <2>1, <2>2
<1>7. CASE UdcInterruptService
  <2> DEFINE v == [usb EXCEPT !.pending = FALSE]
  <2>1. SameRead(usb, v)
    BY <1>1 DEF SameRead, OutFields
  <2>2. Results(BulkReceive(v)) /\ sizes' = sizes
    BY <1>7 DEF UdcInterruptService
  <2> HIDE DEF v
  <2>3. OutIsTrue(v, done) /\ Outcome(v, BulkReceive(v))
    BY <1>1, <1>2, <2>1, BulkReceives
  <2> QED
    BY <2>2, <2>3, StepIsTrue
<1>8. CASE RxTimerCallback
  <2> DEFINE v == [usb EXCEPT !.timer = FALSE]
             again == [v EXCEPT !.iRxMoreDataRcvd = FALSE, !.timer = TRUE]
  <2>1. SameRead(usb, v) /\ SameRead(usb, again)
    BY <1>1 DEF SameRead, OutFields
  <2>2. /\ sizes' = sizes
        /\ \/ Results(Still(v)) \/ Results(Still(again))
           \/ v.iRxBuf /\ Results(RxComplete(v))
    BY <1>8 DEF RxTimerCallback
  <2> HIDE DEF v, again
  <2>3. v.iRxBuf => Outcome(v, RxComplete(v))
    BY <1>1, <2>1, CompletesRead DEF SameRead, Outcome
  <2> QED
    BY <1>2, <2>1, <2>2, <2>3, StepIsTrue
<1>9. CASE \E size \in Sizes : HostSends(size)
  BY <1>9, SentIsTrue
<1>10. CASE UNCHANGED outVars
  <2>1. SameRead(usb, usb)
    BY <1>1 DEF SameRead
  <2> QED
    BY <1>3, <1>10, <2>1 DEF outVars
<1> QED
  BY <1>4, <1>5, <1>6, <1>7, <1>8, <1>9, <1>10 DEF OutNext

\* The packets of the reads made are those of the reads completed and of the one going on.
LEMMA ReadsMadeAre ==
    ASSUME OutInv
    PROVE  /\ DOMAIN ReadsMade = 1..(Len(done) + 1) /\ Len(done) \in Nat
           /\ \A r \in 1..Len(done) : ReadsMade[r] = done[r].data
           /\ ReadsMade[Len(done) + 1] = usb.into
           /\ \A r \in 1..(Len(done) + 1) : ReadsMade[r] \in Seq(Nat)
<1> DEFINE before == [i \in DOMAIN done |-> done[i].data]
<1>1. done \in Seq(Completions) /\ usb.into \in Seq(Nat)
  BY DEF OutInv, OutIsTrue, OutTypes
<1>2. Len(done) \in Nat /\ DOMAIN done = 1..Len(done)
  BY <1>1
<1>3. \A i \in 1..Len(done) : done[i].data \in Seq(Nat)
  <2> SUFFICES ASSUME NEW i \in 1..Len(done) PROVE done[i].data \in Seq(Nat)
    OBVIOUS
  <2>1. PICK c \in Completions : c = done[i]
    BY <1>1
  <2>2. c.data \in Seq(Nat)
    BY DEF Completions
  <2> QED
    BY <2>1, <2>2
<1>4. before \in Seq(Seq(Nat)) /\ Len(before) = Len(done)
  <2>1. before = [i \in 1..Len(done) |-> done[i].data]
    BY <1>2
  <2> HIDE DEF before
  <2>2. before \in Seq(Seq(Nat)) /\ DOMAIN before = 1..Len(done)
    BY <1>2, <1>3, <2>1
  <2> QED
    BY <1>2, <2>2
<1>5. \A i \in 1..Len(done) : before[i] = done[i].data
  BY <1>2
<1> HIDE DEF before
<1>6. <<usb.into>> \in Seq(Seq(Nat)) /\ Len(<<usb.into>>) = 1 /\ <<usb.into>>[1] = usb.into
  BY <1>1
<1>7. /\ DOMAIN (before \o <<usb.into>>) = 1..(Len(done) + 1)
      /\ \A i \in 1..Len(done) : (before \o <<usb.into>>)[i] = before[i]
      /\ (before \o <<usb.into>>)[Len(done) + 1] = usb.into
  <2>1. PICK b \in Seq(Seq(Nat)) : b = before
    BY <1>4
  <2>2. PICK last \in Seq(Seq(Nat)) : last = <<usb.into>>
    BY <1>6
  <2>3. /\ b \o last \in Seq(Seq(Nat)) /\ Len(b \o last) = Len(done) + 1
        /\ \A i \in 1..(Len(done) + 1) :
               (b \o last)[i] = IF i <= Len(done) THEN b[i] ELSE last[i - Len(done)]
    BY <1>2, <1>4, <1>6, <2>1, <2>2, ConcatProperties
  <2>4. DOMAIN (b \o last) = 1..(Len(done) + 1)
    <3>1. PICK q \in Seq(Seq(Nat)) : q = b \o last
      BY <2>3
    <3>2. DOMAIN q = 1..Len(q)
      OBVIOUS
    <3> QED
      BY <2>3, <3>1, <3>2
  <2>5. \A i \in 1..Len(done) : (b \o last)[i] = b[i]
    BY <1>2, <2>3
  <2>6. (b \o last)[Len(done) + 1] = last[1]
    <3>1. /\ Len(done) + 1 \in 1..(Len(done) + 1) /\ ~(Len(done) + 1 <= Len(done))
          /\ (Len(done) + 1) - Len(done) = 1
      BY <1>2
    <3> QED
      BY <2>3, <3>1
  <2> QED
    BY <1>6, <2>1, <2>2, <2>4, <2>5, <2>6
<1>8. ReadsMade = before \o <<usb.into>>
  BY DEF ReadsMade, before
<1>9. /\ DOMAIN ReadsMade = 1..(Len(done) + 1)
      /\ \A r \in 1..Len(done) : ReadsMade[r] = done[r].data
      /\ ReadsMade[Len(done) + 1] = usb.into
  BY <1>5, <1>7, <1>8
<1>10. \A r \in 1..(Len(done) + 1) : r \in 1..Len(done) \/ r = Len(done) + 1
  BY <1>2
<1>11. \A r \in 1..(Len(done) + 1) : ReadsMade[r] \in Seq(Nat)
  BY <1>1, <1>3, <1>9, <1>10
<1> QED
  BY <1>2, <1>9, <1>11

\* The invariant says what is claimed of the packets.
LEMMA EachIsOnce ==
    ASSUME OutInv
    PROVE  EachPacketOnce
<1> DEFINE R == ReadsMade
           n == Len(done)
           kept == UNION {{R[r][i] : i \in DOMAIN R[r]} : r \in DOMAIN R}
<1>1. /\ DOMAIN R = 1..(n + 1) /\ n \in Nat /\ R[n + 1] = usb.into
      /\ \A r \in 1..n : R[r] = done[r].data
      /\ \A r \in 1..(n + 1) : R[r] \in Seq(Nat) /\ DOMAIN R[r] = 1..Len(R[r])
  BY ReadsMadeAre
<1>2. DOMAIN done = 1..n
  BY DEF OutInv, OutIsTrue, OutTypes
<1> HIDE DEF R, n
<1>3. /\ OutTypes(usb, done) /\ PacketsAreSomewhere(usb, done) /\ PacketsInOrder(usb, done)
      /\ ReadIsFull(usb) /\ ReadsAreExact(done)
  BY DEF OutInv, OutIsTrue
<1>4. \A r \in 1..(n + 1) : r \in 1..n \/ r = n + 1
  BY <1>1
<1>5. ASSUME NEW r \in DOMAIN R, NEW s \in DOMAIN R, NEW i \in DOMAIN R[r], NEW j \in DOMAIN R[s],
             (r < s) \/ (r = s /\ i < j)
      PROVE  R[r][i] < R[s][j]
  <2>1. /\ r \in 1..(n + 1) /\ s \in 1..(n + 1) /\ i \in 1..Len(R[r]) /\ j \in 1..Len(R[s])
    BY <1>1
  <2>2. CASE r = s
    <3>1. i < j
      BY <1>1, <1>5, <2>1, <2>2
    <3>2. Increasing(R[r])
      BY <1>1, <1>3, <1>4, <2>1 DEF PacketsInOrder, n
    <3> QED
      BY <2>1, <2>2, <3>1, <3>2 DEF Increasing
  <2>3. CASE r # s
    <3>1. r < s /\ r \in 1..n
      BY <1>1, <1>5, <2>1, <2>3
    <3>2. Before(R[r], R[s])
      <4>1. CASE s \in 1..n
        BY <1>1, <1>3, <3>1, <4>1 DEF PacketsInOrder, n
      <4>2. CASE s = n + 1
        BY <1>1, <1>3, <3>1, <4>2 DEF PacketsInOrder, n
      <4> QED
        BY <1>4, <2>1, <4>1, <4>2
    <3> QED
      BY <2>1, <3>2 DEF Before
  <2> QED
    BY <2>2, <2>3
<1>6. \A p : p \in kept <=> InCompleted(done, p) \/ ReadBy(usb.into, p)
  <2>1. \A p : p \in kept <=> \E r \in 1..(n + 1) : ReadBy(R[r], p)
    BY <1>1 DEF ReadBy
  <2>2. n + 1 \in 1..(n + 1) /\ \A r \in 1..n : r \in 1..(n + 1)
    BY <1>1
  <2> HIDE DEF kept
  <2>3. \A p : (\E r \in 1..(n + 1) : ReadBy(R[r], p)) <=>
                   (\E r \in 1..n : ReadBy(R[r], p)) \/ ReadBy(usb.into, p)
    BY <1>1, <1>4, <2>2
  <2>4. \A p : InCompleted(done, p) <=> \E r \in 1..n : ReadBy(R[r], p)
    BY <1>1 DEF InCompleted, n
  <2> QED
    BY <2>1, <2>3, <2>4
<1> HIDE DEF kept
<1>7. usb.fifo = NoPacket \/ usb.fifo \in 1..Len(sizes)
  <2>1. Len(sizes) \in Nat /\ usb.fifo \in {NoPacket, Len(sizes)}
    BY <1>3 DEF OutInv, SizesTypes, OutTypes
  <2> QED
    BY <2>1 DEF NoPacket
<1>8. 1..Len(sizes) = kept \cup usb.dropped \cup Lost(usb)
  <2>1. NoPacket \notin 1..Len(sizes)
    BY DEF NoPacket
  <2> QED
    BY <1>3, <1>6, <1>7, <2>1 DEF PacketsAreSomewhere, Lost
<1>9. kept \cap (usb.dropped \cup Lost(usb)) = {}
  BY <1>3, <1>6 DEF PacketsAreSomewhere, Lost
<1>10. \A r \in DOMAIN done : ReadExactly(done[r].data, done[r].size)
  BY <1>2, <1>3 DEF ReadsAreExact, n
<1>11. ASSUME usb.iRxBuf
       PROVE  ReadExactly(usb.into, usb.iReceived) /\ usb.iReceived <= usb.iLength
  <2>1. PICK q \in Seq(Nat) : q = usb.into
    BY <1>3 DEF OutTypes
  <2>2. /\ usb.iReceived = KBlkMaxPktSz * Len(q) /\ usb.iReceived <= usb.iLength
        /\ \A i \in 1..Len(q) : sizes[q[i]] = KBlkMaxPktSz
    BY <1>3, <1>11, <2>1 DEF ReadIsFull
  <2>3. Len(q) \in Nat /\ (q = <<>> \/ Len(q) > 0) /\ (q = <<>> => Len(q) = 0)
    BY <2>1
  <2>4. q # <<>> => sizes[q[Len(q)]] = KBlkMaxPktSz
    BY <2>2, <2>3
  <2>5. KBlkMaxPktSz * Len(q) = TotalSize(q)
    BY <2>3, <2>4 DEF TotalSize, KBlkMaxPktSz
  <2>6. \A i \in 1..(Len(q) - 1) : i \in 1..Len(q)
    BY <2>3
  <2> QED
    BY <2>1, <2>2, <2>5, <2>6 DEF ReadExactly
<1>12. /\ \A r, s \in DOMAIN R : \A i \in DOMAIN R[r], j \in DOMAIN R[s] :
              r < s \/ (r = s /\ i < j) => R[r][i] < R[s][j]
  BY <1>5
<1> QED
  BY <1>8, <1>9, <1>10, <1>11, <1>12 DEF EachPacketOnce, kept, R

\* Every packet of the host reaches one read, in the order sent, unless it is flushed
\* or its read is cancelled, and each read reports what it has been given: for any
\* buffers and packets, cancelled reads, stalls and interrupts of other endpoints.
THEOREM PacketsReachOneRead ==
    ASSUME Lengths \subseteq Nat
    PROVE  OutSpec => []EachPacketOnce
<1>1. OutInit => OutInv
  <2> SUFFICES ASSUME OutInit PROVE OutInv
    OBVIOUS
  <2>1. /\ DOMAIN usb = OutFields /\ usb.iRxBuf = FALSE /\ usb.iReceived = 0 /\ usb.iLength = 0
        /\ usb.iPackets = 0 /\ usb.fifo = NoPacket /\ usb.into = <<>> /\ usb.dropped = {}
        /\ sizes = <<>> /\ done = <<>>
    BY DEF OutInit, OutFields
  <2>2. /\ <<>> \in Seq(Nat) /\ <<>> \in Seq(Completions) /\ <<>> \in Seq(Sizes) /\ Len(<<>>) = 0
        /\ 1..0 = {} /\ \A p : ~ReadBy(<<>>, p)
    BY DEF ReadBy
  <2>3. OutTypes(usb, done)
    <3>1. usb.iRxBuf \in BOOLEAN
      BY <2>1
    <3>2. usb.iReceived \in Nat /\ usb.iLength \in Nat /\ usb.iPackets \in Nat
      BY <2>1
    <3> QED
      BY <2>1, <2>2, <3>1, <3>2 DEF OutTypes
  <2>4. PacketsAreSomewhere(usb, done) /\ PacketsInOrder(usb, done) /\ ReadsAreExact(done)
    BY <2>1, <2>2 DEF PacketsAreSomewhere, InCompleted, PacketsInOrder, Increasing, ReadsAreExact
  <2> QED
    BY <2>1, <2>2, <2>3, <2>4 DEF OutInv, OutIsTrue, SizesTypes, ReadIsFull
<1>2. OutInv /\ [OutNext]_outVars => OutInv'
  BY OutStep
<1>3. OutInv => EachPacketOnce
  BY EachIsOnce
<1> QED
  BY <1>1, <1>2, <1>3, PTL DEF OutSpec
=============================================================================
