--------------------------- MODULE SpiMasterProofs ---------------------------
(* Proofs about SpiMaster, for any transactions and slaves. *)
EXTENDS SpiMaster, WellFoundedInduction, TLAPS

\* What the record spi may be.
Channel ==
    [iState : {"EIdle", "EBusy"}, iCurrSS : Slaves \cup {-1},
     iCurrTransaction : Transactions \cup {None}, at : Nat, op : SUBSET Flags,
     txLeft : Nat, rxLeft : Nat, sent : Nat, got : Nat,
     irq : BOOLEAN, dfc : BOOLEAN, timer : {"off", "running", "expired"},
     enabled : SUBSET Slaves, receive : BOOLEAN, selected : SUBSET Slaves, somi : BOOLEAN,
     txFull : BOOLEAN, shifting : BOOLEAN, rxFull : BOOLEAN,
     status : SUBSET Flags, ie : SUBSET Flags]

Results == {KErrNone, KErrArgument, KErrTimedOut}

\* Only what does not tell one request from another is changed.
Keeps(s, r) ==
    /\ r.iState = s.iState /\ r.iCurrSS = s.iCurrSS /\ r.timer = s.timer
    /\ r.iCurrTransaction = s.iCurrTransaction /\ r.selected = s.selected
    /\ r.at = s.at /\ r.op = s.op

\* A channel that is idle, with no slave selected and no timer running.
Quiet(s) == s.iState = "EIdle" /\ s.timer = "off" /\ s.selected = {}

\* The channel is set up for the slave of the request that is outstanding.
Serves ==
    /\ spi.timer # "off" => spi.iState = "EBusy"
    /\ spi.iState = "EBusy" =>
           current \in Transactions /\ SlaveAddr[current] \in Slaves
           /\ spi.iCurrSS = SlaveAddr[current]
    /\ spi.iState = "EIdle" => Quiet(spi)

IInv == spi \in Channel /\ current \in Transactions \cup {None} /\ Serves /\ OneRequest

-----------------------------------------------------------------------------
(* What the functions of the driver return *)

\* The registers and the pins.
LEMMA Registers ==
    ASSUME NEW s \in Channel
    PROVE  /\ SoftReset(s) \in Channel /\ Keeps(s, SoftReset(s))
           /\ SetCsInactive(s) \in Channel
           /\ SetCsInactive(s) = [s EXCEPT !.selected = @ \ {s.iCurrSS},
                                           !.somi = @ /\ s.iCurrSS # -1]
           /\ DisableChannel(s, 0) \in Channel /\ Keeps(s, DisableChannel(s, 0))
           /\ s.iCurrSS \in Slaves =>
                  SetCsActive(s) \in Channel
                  /\ SetCsActive(s) = [s EXCEPT !.selected = @ \cup {s.iCurrSS}]
<1>1. SoftReset(s) \in Channel /\ Keeps(s, SoftReset(s))
  BY DEF SoftReset, Channel, Keeps, Flags
<1>2. SetCsInactive(s) \in Channel
  BY DEF SetCsInactive, Channel
<1>3. DisableChannel(s, 0) \in Channel /\ Keeps(s, DisableChannel(s, 0))
  <2>1. CASE 0 \notin s.enabled
    BY <2>1 DEF DisableChannel, Keeps
  <2>2. CASE 0 \in s.enabled
    <3> DEFINE r == [s EXCEPT !.enabled = @ \ {0}, !.txFull = FALSE, !.shifting = FALSE,
                              !.rxFull = FALSE]
    <3>1. DisableChannel(s, 0) = r
      BY <2>2 DEF DisableChannel
    <3>2. r \in Channel /\ Keeps(s, r)
      BY DEF Channel, Keeps
    <3> QED
      BY <3>1, <3>2
  <2> QED
    BY <2>1, <2>2
<1>4. s.iCurrSS \in Slaves => SetCsActive(s) \in Channel
  BY DEF SetCsActive, Channel
<1> QED
  BY <1>1, <1>2, <1>3, <1>4 DEF SetCsInactive, SetCsActive

\* ExitComplete() leaves the channel idle, and on an error with no slave selected.
LEMMA Exits ==
    ASSUME NEW s \in Channel, NEW err \in Results,
           s.selected \subseteq {s.iCurrSS}, err = KErrNone => s.selected = {}
    PROVE  /\ ExitComplete(s, err) \in Channel /\ Quiet(ExitComplete(s, err))
           /\ ExitComplete(s, err).iCurrTransaction = s.iCurrTransaction
<1> DEFINE cs == SetCsInactive(s)
           rel == Released(s)
           open == IF err = KErrNone THEN s ELSE rel
<1>1. cs \in Channel /\ cs.selected = {} /\ cs.iCurrTransaction = s.iCurrTransaction
  <2>1. cs \in Channel /\ cs = [s EXCEPT !.selected = @ \ {s.iCurrSS},
                                       !.somi = @ /\ s.iCurrSS # -1]
    BY Registers
  <2>2. cs.selected = s.selected \ {s.iCurrSS} /\ cs.iCurrTransaction = s.iCurrTransaction
    BY <2>1 DEF Channel
  <2> QED
    BY <2>1, <2>2
<1>2. SoftReset(cs) \in Channel /\ Keeps(cs, SoftReset(cs))
  BY <1>1, Registers
<1>3. rel \in Channel /\ rel.selected = {} /\ rel.iCurrTransaction = s.iCurrTransaction
  <2>1. rel = [SoftReset(cs) EXCEPT !.iCurrSS = -1]
    BY DEF Released
  <2> HIDE DEF cs, rel
  <2> QED
    BY <1>1, <1>2, <2>1 DEF Channel, Keeps
<1>4. open \in Channel /\ open.selected = {} /\ open.iCurrTransaction = s.iCurrTransaction
  BY <1>3
<1>5. ExitComplete(s, err) = [Cancelled(open) EXCEPT !.iState = "EIdle"]
  BY DEF ExitComplete
<1> HIDE DEF open
<1>6. Cancelled(open) \in Channel /\ Cancelled(open).selected = {}
      /\ Cancelled(open).timer = "off"
      /\ Cancelled(open).iCurrTransaction = s.iCurrTransaction
  BY <1>4 DEF Cancelled, Channel
<1> QED
  BY <1>5, <1>6 DEF Quiet, Channel

\* What StartTransfer(), StartColumn() and ProcessNextTransfers() return: the channel
\* goes on with its slave, or is quiet.
Goes(s, res) ==
    /\ res.s \in Channel /\ res.r \in {KErrNone, KErrArgument}
    /\ res.s.iCurrTransaction = s.iCurrTransaction
    /\ res.r # KErrNone => Quiet(res.s)
    /\ res.r = KErrNone =>
           /\ res.s.iState = s.iState /\ res.s.iCurrSS = s.iCurrSS
           /\ res.s.timer = s.timer /\ res.s.at = s.at
           /\ res.s.selected \subseteq {s.iCurrSS}

\* A word is handed to the controller.
LEMMA WordWritten ==
    ASSUME NEW s \in Channel, s.txLeft # 0
    PROVE  WriteWord(s) \in Channel /\ Keeps(s, WriteWord(s))
<1>1. s.txLeft - 1 \in Nat /\ s.sent + 1 \in Nat
  BY DEF Channel
<1>2. WriteWord(s) = [s EXCEPT !.txFull = TRUE, !.txLeft = s.txLeft - 1, !.sent = s.sent + 1]
  BY DEF WriteWord
<1>3. WriteWord(s) \in Channel
  BY <1>1, <1>2 DEF Channel
<1>4. Keeps(s, WriteWord(s))
  BY <1>2 DEF Channel, Keeps
<1> QED
  BY <1>3, <1>4

\* A word is collected from it.
LEMMA WordRead ==
    ASSUME NEW s \in Channel, s.rxLeft # 0
    PROVE  ReadWord(s) \in Channel /\ Keeps(s, ReadWord(s))
<1>1. s.rxLeft - 1 \in Nat /\ s.got + 1 \in Nat
  BY DEF Channel
<1>2. ReadWord(s) = [s EXCEPT !.rxFull = FALSE, !.rxLeft = s.rxLeft - 1, !.got = s.got + 1]
  BY DEF ReadWord
<1>3. ReadWord(s) \in Channel
  BY <1>1, <1>2 DEF Channel
<1>4. Keeps(s, ReadWord(s))
  BY <1>2 DEF Channel, Keeps
<1> QED
  BY <1>3, <1>4

\* A transfer selects its slave.
LEMMA Starts ==
    ASSUME NEW s \in Channel, NEW type \in {"read", "write"}, NEW words \in Nat,
           NEW duplex \in BOOLEAN, s.iCurrSS \in Slaves, s.selected \subseteq {s.iCurrSS}
    PROVE  Goes(s, StartTransfer(s, type, words, duplex))
<1> DEFINE res == StartTransfer(s, type, words, duplex)
<1>0. KErrNone # KErrArgument /\ KErrArgument \in Results
  BY DEF KErrNone, KErrArgument, Results
<1>1. CASE words = 0
  <2>1. res = Refused(s)
    BY <1>1 DEF StartTransfer
  <2>2. Refused(s).s = ExitComplete(s, KErrArgument) /\ Refused(s).r = KErrArgument
    BY DEF Refused
  <2>3. /\ ExitComplete(s, KErrArgument) \in Channel /\ Quiet(ExitComplete(s, KErrArgument))
        /\ ExitComplete(s, KErrArgument).iCurrTransaction = s.iCurrTransaction
    BY <1>0, Exits
  <2> QED
    BY <1>0, <2>1, <2>2, <2>3 DEF Goes
<1>2. CASE words # 0 /\ type = "write"
  <2> DEFINE a == [s EXCEPT !.txLeft = words, !.op = @ \cup {"tx"}]
             b == [a EXCEPT !.status = {}]
             c == [b EXCEPT !.enabled = @ \cup {b.iCurrSS}, !.ie = @ \cup {"tx"}, !.irq = TRUE]
             d == SetCsActive(c)
             e == WriteWord(d)
  <2>1. res = Ok(e)
    BY <1>2 DEF StartTransfer, DoWrite, Enable
  <2>2. /\ b \in Channel /\ b.txLeft = words /\ b.iState = s.iState
        /\ b.iCurrSS = s.iCurrSS /\ b.timer = s.timer /\ b.at = s.at
        /\ b.iCurrTransaction = s.iCurrTransaction /\ b.selected = s.selected
    BY DEF Channel, Flags
  <2> HIDE DEF b
  <2>9. b.iCurrSS \in Slaves
    BY <2>2
  <2>3. c \in Channel /\ Keeps(b, c) /\ c.txLeft = words
    BY <2>2, <2>9 DEF Channel, Keeps, Flags
  <2> HIDE DEF c
  <2>4. c.iCurrSS \in Slaves
    BY <2>2, <2>3 DEF Keeps
  <2>5. d \in Channel /\ d = [c EXCEPT !.selected = @ \cup {c.iCurrSS}]
    BY <2>3, <2>4, Registers
  <2> HIDE DEF d
  <2>6. /\ d.txLeft = words /\ d.iState = s.iState /\ d.iCurrSS = s.iCurrSS
        /\ d.timer = s.timer /\ d.at = s.at /\ d.iCurrTransaction = s.iCurrTransaction
        /\ d.selected \subseteq {s.iCurrSS}
    BY <2>2, <2>3, <2>5 DEF Channel, Keeps
  <2>7. e \in Channel /\ Keeps(d, e)
    BY <1>2, <2>5, <2>6, WordWritten
  <2> HIDE DEF e
  <2> QED
    BY <2>1, <2>6, <2>7 DEF Ok, Goes, Keeps
<1>3. CASE words # 0 /\ type = "read"
  <2> DEFINE a == [s EXCEPT !.rxLeft = words, !.op = @ \cup {"rx"}]
  <2>1. res = Ok(DoRead(a, duplex))
    BY <1>3 DEF StartTransfer
  <2>2. /\ a \in Channel /\ a.iState = s.iState
        /\ a.iCurrSS = s.iCurrSS /\ a.timer = s.timer /\ a.at = s.at
        /\ a.iCurrTransaction = s.iCurrTransaction /\ a.selected = s.selected
    BY DEF Channel, Flags
  <2> HIDE DEF a
  <2>3. CASE duplex
    <3>1. DoRead(a, duplex) = [a EXCEPT !.receive = TRUE, !.status = {}, !.ie = {"rx"}]
      BY <2>3 DEF DoRead
    <3>2. DoRead(a, duplex) \in Channel /\ Keeps(a, DoRead(a, duplex))
      <4>1. {"rx"} \in SUBSET Flags /\ {} \in SUBSET Flags
        BY DEF Flags
      <4> QED
        BY <2>2, <3>1, <4>1 DEF Channel, Keeps
    <3> QED
      BY <2>1, <2>2, <3>2 DEF Ok, Goes, Keeps
  <2>4. CASE ~duplex
    <3> DEFINE b == [a EXCEPT !.receive = TRUE, !.status = {"tx"}]
               c == [b EXCEPT !.enabled = @ \cup {b.iCurrSS}, !.ie = @ \cup {"tx", "rx"},
                              !.irq = TRUE]
               d == SetCsActive(c)
    <3>1. DoRead(a, duplex) = d
      BY <2>4 DEF DoRead, Enable
    <3>2. b \in Channel /\ Keeps(a, b)
      BY <2>2 DEF Channel, Keeps, Flags
    <3> HIDE DEF b
    <3>3. b.iCurrSS \in Slaves
      BY <2>2, <3>2 DEF Keeps
    <3>4. c \in Channel /\ Keeps(b, c)
      BY <3>2, <3>3 DEF Channel, Keeps, Flags
    <3> HIDE DEF c
    <3>5. c.iCurrSS \in Slaves
      BY <3>3, <3>4 DEF Keeps
    <3>6. d \in Channel /\ d = [c EXCEPT !.selected = @ \cup {c.iCurrSS}]
      BY <3>4, <3>5, Registers
    <3> HIDE DEF d
    <3>7. /\ d.iState = s.iState /\ d.iCurrSS = s.iCurrSS
          /\ d.timer = s.timer /\ d.at = s.at /\ d.iCurrTransaction = s.iCurrTransaction
          /\ d.selected \subseteq {s.iCurrSS}
      BY <2>2, <3>2, <3>4, <3>6 DEF Channel, Keeps
    <3>8. res.s = d /\ res.r = KErrNone
      BY <2>1, <3>1 DEF Ok
    <3> QED
      BY <3>6, <3>7, <3>8 DEF Goes
  <2> QED
    BY <2>3, <2>4
<1> QED
  BY <1>1, <1>2, <1>3

\* Of a full-duplex column the write is not started behind a read that was refused.
LEMMA StartsColumn ==
    ASSUME NEW s \in Channel, NEW col \in Column,
           s.iCurrSS \in Slaves, s.selected \subseteq {s.iCurrSS}
    PROVE  Goes(s, StartColumn(s, col))
<1>0. col.type \in {"read", "write"} /\ col.words \in Nat /\ col.full \in Nat \cup {None}
  BY DEF Column
<1>1. CASE col.full = None
  BY <1>0, <1>1, Starts DEF StartColumn
<1>2. CASE col.full # None
  <2> DEFINE reads == IF col.type = "read" THEN col.words ELSE col.full
             writes == IF col.type = "read" THEN col.full ELSE col.words
             read == StartTransfer(s, "read", reads, TRUE)
             write == StartTransfer(read.s, "write", writes, TRUE)
  <2>1. reads \in Nat /\ writes \in Nat
    BY <1>0, <1>2
  <2>2. StartColumn(s, col) = IF read.r # KErrNone THEN read ELSE write
    BY <1>2 DEF StartColumn
  <2> HIDE DEF reads, writes
  <2>3. Goes(s, read)
    BY <2>1, Starts
  <2> HIDE DEF read
  <2>4. CASE read.r # KErrNone
    BY <2>2, <2>3, <2>4
  <2>5. CASE read.r = KErrNone
    <3>1. Goes(read.s, write)
      BY <2>1, <2>3, <2>5, Starts DEF Goes
    <3> HIDE DEF write
    <3>2. Goes(s, write)
      BY <2>3, <2>5, <3>1 DEF Goes
    <3> QED
      BY <2>2, <2>5, <3>2
  <2> QED
    BY <2>4, <2>5
<1> QED
  BY <1>1, <1>2

Proceeds(s, res) ==
    /\ res.s \in Channel /\ res.r \in {KErrNone, KErrArgument}
    /\ res.s.iCurrTransaction = s.iCurrTransaction
    /\ res.r # KErrNone \/ res.s.iState = "EIdle" => Quiet(res.s)
    /\ res.s.iState = "EBusy" => res.s.iCurrSS = s.iCurrSS
                                 /\ res.s.selected \subseteq {s.iCurrSS}
    /\ s.iState = "EIdle" /\ res.r = KErrNone => res.s.iState = "EBusy"

\* The next transfer of a channel that has no slave selected: it is started, or the
\* list is done, which it cannot be for a channel that was idle, or it is refused.
LEMMA Processes ==
    ASSUME NEW s \in Channel, s.iCurrTransaction \in Transactions, s.iCurrSS \in Slaves,
           s.selected = {}, s.iState = "EIdle" => s.timer = "off"
    PROVE  Proceeds(s, ProcessNextTransfers(s))
<1> DEFINE n == NextTransfer(s)
           b == Busy(n)
           res == ProcessNextTransfers(s)
           list == Transfers[s.iCurrTransaction]
<1> SUFFICES Proceeds(s, res)
  OBVIOUS
<1>1. /\ n \in Channel /\ n.iState = s.iState /\ n.iCurrSS = s.iCurrSS
      /\ n.iCurrTransaction = s.iCurrTransaction /\ n.selected = {} /\ n.timer = s.timer
      /\ n.at = IF s.iState = "EIdle" THEN 1 ELSE s.at + 1
  <2> DEFINE at == IF s.iState = "EIdle" THEN 1 ELSE s.at + 1
  <2>1. at \in Nat
    BY DEF Channel
  <2>2. n = [s EXCEPT !.op = {}, !.at = at]
    BY DEF NextTransfer
  <2> HIDE DEF at, n
  <2>3. n \in Channel /\ n.at = at
    BY <2>1, <2>2 DEF Channel
  <2>4. /\ n.iState = s.iState /\ n.iCurrSS = s.iCurrSS /\ n.selected = {}
        /\ n.iCurrTransaction = s.iCurrTransaction /\ n.timer = s.timer
    BY <2>2 DEF Channel
  <2> QED
    BY <2>3, <2>4 DEF at
<1>2. n.at \in Nat \ {0}
  BY <1>1 DEF Channel
<1> HIDE DEF n
<1>3. /\ b \in Channel /\ b.iState = "EBusy" /\ b.iCurrSS = s.iCurrSS
      /\ b.iCurrTransaction = s.iCurrTransaction /\ b.selected = {} /\ b.at = n.at
  <2>1. CASE n.iState = "EIdle"
    <3>1. b = [n EXCEPT !.iState = "EBusy", !.timer = "running", !.sent = 0, !.got = 0]
      BY <2>1 DEF Busy
    <3> HIDE DEF b
    <3>2. b \in Channel
      BY <1>1, <3>1 DEF Channel
    <3> QED
      BY <1>1, <3>1, <3>2 DEF Channel
  <2>2. CASE n.iState # "EIdle"
    BY <1>1, <2>2 DEF Busy, Channel
  <2> QED
    BY <2>1, <2>2
<1>4. res = IF LastDone(b) THEN Ok(ExitComplete(b, KErrNone)) ELSE StartColumn(b, list[b.at])
  BY <1>3 DEF ProcessNextTransfers, n
<1> HIDE DEF b, res
<1>5. list \in Seq(Column) /\ Len(list) > 0
  BY SpiAssumption
<1>6. CASE LastDone(b)
  <2> DEFINE e == ExitComplete(b, KErrNone)
  <2>1. e \in Channel /\ Quiet(e) /\ e.iCurrTransaction = s.iCurrTransaction
    BY <1>3, Exits DEF Results
  <2>2. res.s = e /\ res.r = KErrNone
    BY <1>4, <1>6 DEF Ok
  <2>3. s.iState # "EIdle"
    BY <1>1, <1>3, <1>5, <1>6 DEF LastDone
  <2>4. e.iState = "EIdle"
    BY <2>1 DEF Quiet
  <2> HIDE DEF e
  <2> QED
    BY <2>1, <2>2, <2>3, <2>4 DEF Proceeds
<1>7. CASE ~LastDone(b)
  <2>1. list[b.at] \in Column
    BY <1>2, <1>3, <1>5, <1>7 DEF LastDone
  <2>2. Goes(b, res)
    BY <1>3, <1>4, <1>7, <2>1, StartsColumn
  <2>3. res.r = KErrNone => res.s.iState = "EBusy"
    BY <1>3, <2>2 DEF Goes
  <2>4. res.r # KErrNone => Quiet(res.s) /\ res.s.iState = "EIdle"
    BY <2>2 DEF Goes, Quiet
  <2>5. res.s.iState = "EBusy" => res.s.iCurrSS = s.iCurrSS /\ res.s.selected \subseteq {s.iCurrSS}
    BY <1>3, <2>2, <2>4 DEF Goes
  <2>6. res.s \in Channel /\ res.r \in {KErrNone, KErrArgument}
        /\ res.s.iCurrTransaction = s.iCurrTransaction
    BY <1>3, <2>2 DEF Goes
  <2> QED
    BY <2>3, <2>4, <2>5, <2>6 DEF Proceeds
<1> QED
  BY <1>6, <1>7

-----------------------------------------------------------------------------
(* The steps *)

\* The boot state satisfies the invariant.
LEMMA Initially == Init => IInv
<1> SUFFICES ASSUME Init PROVE IInv
  OBVIOUS
<1>1. spi \in Channel
  BY DEF Init, Channel, Flags
<1>2. Serves /\ OneRequest /\ current = None
  BY SpiAssumption DEF Init, Serves, OneRequest, Quiet
<1> QED
  BY <1>1, <1>2 DEF IInv

\* A channel that is quiet, and no request outstanding.
LEMMA QuietInv ==
    ASSUME current' = None, spi' \in Channel, Quiet(spi'), stray' = FALSE
    PROVE  IInv'
BY SpiAssumption DEF IInv, Serves, OneRequest, Quiet

\* A channel that is busy, and its request outstanding.
LEMMA BusyInv ==
    ASSUME NEW t \in Transactions, current' = t, spi' \in Channel, stray' = FALSE,
           spi'.iState = "EBusy", spi'.iCurrTransaction = t,
           SlaveAddr[t] \in Slaves, spi'.iCurrSS = SlaveAddr[t],
           spi'.selected \subseteq {spi'.iCurrSS}
    PROVE  IInv'
BY SpiAssumption DEF IInv, Serves, OneRequest, Quiet

\* Where only words are moved the invariant stays.
LEMMA KeepsInv ==
    ASSUME IInv, spi' \in Channel, Keeps(spi, spi'), UNCHANGED pilVars
    PROVE  IInv'
BY DEF IInv, Serves, OneRequest, Quiet, Keeps, pilVars

\* DoRequest() refuses an address out of range, or configures the channel and starts
\* the first transfer.
LEMMA DoRequestKeeps ==
    ASSUME IInv, NEW t \in Transactions, DoRequest(t)
    PROVE  IInv'
<1> DEFINE set == [spi EXCEPT !.iCurrTransaction = t]
           c == Configured(spi, t)
           res == ProcessNextTransfers(c)
<1>1. spi \in Channel /\ Quiet(spi) /\ stray' = FALSE
  BY DEF IInv, Serves, OneRequest, DoRequest
<1>2. CASE SlaveAddr[t] \notin Slaves
  <2>1. set \in Channel /\ Quiet(set)
    BY <1>1 DEF Channel, Quiet
  <2>2. current' = None /\ spi' = set
    BY <1>2 DEF DoRequest, KErrNone, KErrArgument
  <2> QED
    BY <1>1, <2>1, <2>2, QuietInv
<1>3. CASE SlaveAddr[t] \in Slaves
  <2>1. /\ c \in Channel /\ c.iCurrTransaction = t /\ c.iCurrSS = SlaveAddr[t]
        /\ c.selected = {} /\ c.iState = "EIdle" /\ c.timer = "off"
    <3>1. SoftReset(spi) \in Channel /\ Keeps(spi, SoftReset(spi))
      BY <1>1, Registers
    <3>2. c = [SoftReset(spi) EXCEPT !.iCurrTransaction = t, !.iCurrSS = SlaveAddr[t]]
      BY DEF Configured
    <3> HIDE DEF c
    <3>3. c \in Channel
      BY <1>3, <3>1, <3>2 DEF Channel
    <3> QED
      BY <1>1, <3>1, <3>2, <3>3 DEF Channel, Keeps, Quiet
  <2>2. spi' = res.s /\ current' = IF res.r # KErrNone THEN None ELSE t
    BY <1>3 DEF DoRequest
  <2> HIDE DEF c
  <2>3. Proceeds(c, res)
    BY <1>3, <2>1, Processes
  <2> HIDE DEF res
  <2>4. CASE res.r # KErrNone
    BY <1>1, <2>2, <2>3, <2>4, QuietInv DEF Proceeds
  <2>5. CASE res.r = KErrNone
    <3>1. /\ res.s \in Channel /\ res.s.iState = "EBusy" /\ res.s.iCurrTransaction = t
          /\ res.s.iCurrSS = SlaveAddr[t] /\ res.s.selected \subseteq {res.s.iCurrSS}
      BY <2>1, <2>3, <2>5 DEF Proceeds
    <3> QED
      BY <1>1, <1>3, <2>2, <2>5, <3>1, BusyInv
  <2> QED
    BY <2>4, <2>5
<1> QED
  BY <1>2, <1>3

\* The channel is busy exactly while a request is outstanding.
LEMMA BusyServes ==
    ASSUME IInv, spi.iState = "EBusy"
    PROVE  /\ current \in Transactions /\ current # None /\ stray = FALSE
           /\ spi.iCurrTransaction = current /\ SlaveAddr[current] \in Slaves
           /\ spi.iCurrSS = SlaveAddr[current] /\ spi.selected \subseteq {spi.iCurrSS}
BY SpiAssumption DEF IInv, Serves, OneRequest

\* The request that is outstanding is completed once.
LEMMA Completed ==
    ASSUME IInv, spi.iState = "EBusy", NEW s, NEW err, CompleteRequest(s, err)
    PROVE  current' = None /\ stray' = FALSE
BY BusyServes DEF CompleteRequest

\* TransferEndDfc() deselects the slave, and goes on with the list if there is one.
LEMMA DfcKeeps ==
    ASSUME IInv, TransferEndDfc
    PROVE  IInv'
<1> DEFINE a == [spi EXCEPT !.dfc = FALSE]
           b == SetCsInactive(a)
           ended == DisableChannel(b, 0)
           next == ProcessNextTransfers(ended)
<1>0. spi \in Channel /\ spi.iState \in {"EIdle", "EBusy"}
  BY DEF IInv, Channel
<1>1. a \in Channel /\ Keeps(spi, a)
  BY <1>0 DEF Channel, Keeps
<1>2. /\ b \in Channel /\ b.selected = a.selected \ {a.iCurrSS} /\ b.iState = a.iState
      /\ b.iCurrSS = a.iCurrSS /\ b.timer = a.timer
      /\ b.iCurrTransaction = a.iCurrTransaction
  <2> HIDE DEF a
  <2>1. b \in Channel /\ b = [a EXCEPT !.selected = @ \ {a.iCurrSS},
                                       !.somi = @ /\ a.iCurrSS # -1]
    BY <1>1, Registers
  <2> QED
    BY <1>1, <2>1 DEF Channel
<1> HIDE DEF a, b
<1>3. ended \in Channel /\ Keeps(b, ended)
  BY <1>2, Registers
<1>4. /\ IF spi.iState # "EBusy"
         THEN spi' = ended /\ UNCHANGED pilVars
         ELSE IF next.r # KErrNone
         THEN /\ spi' = ExitComplete(next.s, next.r)
              /\ CompleteRequest(spi', next.r)
         ELSE /\ spi' = next.s
              /\ IF next.s.iState = "EIdle" THEN CompleteRequest(spi', KErrNone)
                 ELSE UNCHANGED pilVars
  BY DEF TransferEndDfc, ended, a, b
<1> HIDE DEF ended
<1>5. CASE spi.iState # "EBusy"
  <2>1. Quiet(spi) /\ stray = FALSE /\ current = None
    BY <1>0, <1>5 DEF IInv, Serves, OneRequest
  <2>2. Quiet(ended)
    BY <1>0, <1>1, <1>2, <1>3, <2>1 DEF Quiet, Keeps
  <2> QED
    BY <1>3, <1>4, <1>5, <2>1, <2>2, QuietInv DEF pilVars
<1>6. CASE spi.iState = "EBusy"
  <2>1. /\ current \in Transactions /\ current # None /\ stray = FALSE
        /\ spi.iCurrTransaction = current /\ SlaveAddr[current] \in Slaves
        /\ spi.iCurrSS = SlaveAddr[current] /\ spi.selected \subseteq {spi.iCurrSS}
    BY <1>6, BusyServes
  <2>2. /\ ended.iCurrTransaction = current /\ ended.iCurrSS = SlaveAddr[current]
        /\ ended.selected = {} /\ ended.iState = "EBusy"
    BY <1>1, <1>2, <1>3, <1>6, <2>1 DEF Keeps
  <2>3. Proceeds(ended, next)
    BY <1>3, <2>1, <2>2, Processes
  <2> HIDE DEF next
  <2>4. CASE next.r # KErrNone
    <3>1. next.s \in Channel /\ Quiet(next.s) /\ next.r \in Results
      BY <2>3, <2>4 DEF Proceeds, Results
    <3>2. ExitComplete(next.s, next.r) \in Channel /\ Quiet(ExitComplete(next.s, next.r))
      BY <3>1, Exits DEF Quiet
    <3>3. current' = None /\ stray' = FALSE
      BY <1>4, <1>6, <2>4, Completed
    <3> QED
      BY <1>4, <1>6, <2>4, <3>2, <3>3, QuietInv
  <2>5. CASE next.r = KErrNone /\ next.s.iState = "EIdle"
    <3>1. current' = None /\ stray' = FALSE
      BY <1>4, <1>6, <2>5, Completed
    <3> QED
      BY <1>4, <1>6, <2>3, <2>5, <3>1, QuietInv DEF Proceeds
  <2>6. CASE next.r = KErrNone /\ next.s.iState # "EIdle"
    <3>1. spi' = next.s /\ current' = current /\ stray' = FALSE
      BY <1>4, <1>6, <2>1, <2>6 DEF pilVars
    <3>2. next.s \in Channel /\ next.s.iState = "EBusy"
      BY <2>3, <2>6 DEF Proceeds, Channel
    <3> QED
      BY <2>1, <2>2, <2>3, <3>1, <3>2, BusyInv DEF Proceeds
  <2> QED
    BY <2>4, <2>5, <2>6
<1> QED
  BY <1>0, <1>5, <1>6

\* HandleSlaveTimeout() ends the request whose timer expired.
LEMMA TimeoutKeeps ==
    ASSUME IInv, HandleSlaveTimeout
    PROVE  IInv'
<1> DEFINE a == [spi EXCEPT !.timer = "off"]
<1>1. spi \in Channel /\ spi.iState = "EBusy"
  BY DEF IInv, Serves, HandleSlaveTimeout
<1>2. a \in Channel /\ a.selected = spi.selected /\ a.iCurrSS = spi.iCurrSS
  BY <1>1 DEF Channel
<1>3. spi.selected \subseteq {spi.iCurrSS}
  BY <1>1, BusyServes
<1>4. spi' = ExitComplete(a, KErrTimedOut) /\ CompleteRequest(spi', KErrTimedOut)
  BY DEF HandleSlaveTimeout
<1> HIDE DEF a
<1>5. ExitComplete(a, KErrTimedOut) \in Channel /\ Quiet(ExitComplete(a, KErrTimedOut))
  BY <1>2, <1>3, Exits DEF Results, KErrNone, KErrTimedOut
<1>6. current' = None /\ stray' = FALSE
  BY <1>1, <1>4, Completed
<1> QED
  BY <1>4, <1>5, <1>6, QuietInv

\* The end of a transfer disables the interrupt and queues the DFC.
LEMMA EndsTransfer ==
    ASSUME NEW s \in Channel
    PROVE  EndTransfer(s) \in Channel /\ Keeps(s, EndTransfer(s))
BY DEF EndTransfer, Channel, Keeps

\* The ISR moves words and ends transfers.
LEMMA IsrKeeps ==
    ASSUME IInv, Isr
    PROVE  IInv'
<1> DEFINE taken == [spi EXCEPT !.status = {}]
           tx == IF "tx" \in spi.status THEN IsrTx(taken) ELSE taken
           rx == IF "rx" \in spi.status THEN IsrRx(tx) ELSE tx
<1>1. spi \in Channel /\ spi' = rx /\ UNCHANGED pilVars
  BY DEF IInv, Isr
<1>2. taken \in Channel /\ Keeps(spi, taken)
  BY <1>1 DEF Channel, Keeps
<1>3. ASSUME NEW s \in Channel PROVE IsrTx(s) \in Channel /\ Keeps(s, IsrTx(s))
  <2>1. CASE "tx" \notin s.op
    BY <2>1 DEF IsrTx, Channel, Keeps
  <2>2. CASE "tx" \in s.op
    <3> DEFINE w == IF MoreToSend(s) THEN WriteWord(s) ELSE s
    <3>1. w \in Channel /\ Keeps(s, w)
      BY WordWritten DEF MoreToSend, Channel, Keeps
    <3>2. IsrTx(s) = IF TxDone(w) THEN EndTransfer(w) ELSE w
      BY <2>2 DEF IsrTx
    <3> HIDE DEF w
    <3> QED
      BY <3>1, <3>2, EndsTransfer DEF Keeps
  <2> QED
    BY <2>1, <2>2
<1>4. ASSUME NEW s \in Channel PROVE IsrRx(s) \in Channel /\ Keeps(s, IsrRx(s))
  <2>1. CASE "rx" \notin s.op
    BY <2>1 DEF IsrRx, Keeps
  <2>2. CASE "rx" \in s.op
    <3> DEFINE w == IF s.rxLeft > 0 THEN ReadWord(s) ELSE s
    <3>1. w \in Channel /\ Keeps(s, w)
      BY WordRead DEF Channel, Keeps
    <3>2. IsrRx(s) = IF w.rxLeft = 0 THEN EndTransfer(w) ELSE w
      BY <2>2 DEF IsrRx
    <3> HIDE DEF w
    <3> QED
      BY <3>1, <3>2, EndsTransfer DEF Keeps
  <2> QED
    BY <2>1, <2>2
<1> HIDE DEF taken
<1>5. tx \in Channel /\ Keeps(taken, tx)
  BY <1>2, <1>3 DEF Keeps
<1> HIDE DEF tx
<1>6. rx \in Channel /\ Keeps(tx, rx)
  BY <1>4, <1>5 DEF Keeps
<1> HIDE DEF rx
<1>7. Keeps(spi, rx)
  BY <1>2, <1>5, <1>6 DEF Keeps
<1> QED
  BY <1>1, <1>6, <1>7, KeepsInv

\* The controller moves words.
LEMMA HardwareKeeps ==
    ASSUME IInv, HwLoad \/ HwShifted
    PROVE  IInv'
<1>1. spi \in Channel /\ UNCHANGED pilVars
  BY DEF IInv, HwLoad, HwShifted
<1>2. CASE HwLoad
  <2>1. spi' = [spi EXCEPT !.txFull = FALSE, !.shifting = TRUE, !.status = @ \cup {"tx"}]
    BY <1>2 DEF HwLoad
  <2>2. spi' \in Channel
    BY <1>1, <2>1 DEF Channel, Flags
  <2>3. Keeps(spi, spi')
    BY <1>1, <2>1 DEF Channel, Keeps
  <2> QED
    BY <1>1, <2>2, <2>3, KeepsInv
<1>3. CASE HwShifted
  <2> DEFINE status == IF spi.receive THEN spi.status \cup {"rx"} ELSE spi.status
  <2>1. spi' = [spi EXCEPT !.shifting = FALSE, !.rxFull = spi.receive, !.status = status]
    BY <1>3 DEF HwShifted
  <2>2. status \in SUBSET Flags
    BY <1>1 DEF Channel, Flags
  <2> HIDE DEF status
  <2>3. spi' \in Channel
    BY <1>1, <2>1, <2>2 DEF Channel
  <2>4. Keeps(spi, spi')
    BY <1>1, <2>1 DEF Channel, Keeps
  <2> QED
    BY <1>1, <2>3, <2>4, KeepsInv
<1> QED
  BY <1>2, <1>3

\* The transaction's timer expires while the channel is busy.
LEMMA ExpiresKeeps ==
    ASSUME IInv, TimerExpires
    PROVE  IInv'
<1>1. spi \in Channel /\ spi' = [spi EXCEPT !.timer = "expired"] /\ UNCHANGED pilVars
      /\ spi.iState = "EBusy"
  BY DEF IInv, Serves, TimerExpires
<1>2. /\ spi' \in Channel /\ spi'.iState = "EBusy" /\ spi'.iCurrSS = spi.iCurrSS
      /\ spi'.iCurrTransaction = spi.iCurrTransaction /\ spi'.selected = spi.selected
  BY <1>1 DEF Channel
<1> QED
  BY <1>1, <1>2, BusyServes, BusyInv DEF pilVars

\* Every step keeps the invariant.
LEMMA StepKeeps == IInv /\ [Next]_vars => IInv'
<1> SUFFICES ASSUME IInv, [Next]_vars PROVE IInv'
  OBVIOUS
<1>1. CASE UNCHANGED vars
  BY <1>1 DEF vars, pilVars, IInv, Serves, OneRequest, Quiet
<1> QED
  BY <1>1, DoRequestKeeps, DfcKeeps, ExpiresKeeps, TimeoutKeeps, IsrKeeps, HardwareKeeps
     DEF Next

\* The channel serves one request, selects its slave only, and completes it once,
\* whatever the order of the interrupts, the timeout and the errors: for any
\* transactions, and any number of slaves.
THEOREM ServesOne == Spec => []OneRequest
<1>1. IInv => OneRequest
  BY DEF IInv
<1> QED
  BY <1>1, Initially, StepKeeps, PTL DEF Spec

-----------------------------------------------------------------------------
(* The words of a transaction.  That a success has moved them all needs that the words
   moved and those left always add up to those of the columns up to the current one, and
   of a full-duplex column that the last word in is not before the last word out: the
   words in the controller are counted. *)

\* What the counts of words rest on: a full-duplex column is of as many words in both
\* directions.
ColumnsFit ==
    \A t \in Transactions : \A i \in 1..Len(Transfers[t]) :
        Transfers[t][i].full # None => Transfers[t][i].full = Transfers[t][i].words

One(b) == IF b THEN 1 ELSE 0
Sends(col) == col.type = "write" \/ col.full # None
Receives(col) == col.type = "read" \/ col.full # None

\* The controller holds one word that has come in.
OneReceived(s) == (s.rxFull => s.receive) /\ ~(s.shifting /\ s.rxFull)

\* Of a full-duplex column at most one word comes in that is not the column's: that of an
\* earlier transfer which was on its way.
InStep(s) ==
    /\ s.txLeft + One(s.txFull) + One(s.shifting) + One(s.rxFull) <= s.rxLeft + 1
    /\ s.txLeft = 0 \/ s.txFull \/ "tx" \in s.status
    /\ "rx" \in s.status => s.rxFull

\* The words moved and those left are the column's and those before it.
Counted(s, col) ==
    /\ "tx" \in s.op <=> Sends(col)
    /\ "rx" \in s.op <=> Receives(col)
    /\ s.sent + (IF Sends(col) THEN s.txLeft ELSE 0)
           = WordsUpTo(s.iCurrTransaction, "write")[s.at]
    /\ s.got + (IF Receives(col) THEN s.rxLeft ELSE 0)
           = WordsUpTo(s.iCurrTransaction, "read")[s.at]
    /\ s.dfc => (Sends(col) => s.txLeft = 0) /\ (Receives(col) => s.rxLeft = 0)
    /\ col.full # None => InStep(s)
ColumnOf(s) == Transfers[s.iCurrTransaction][s.at]
AllCounted(s) ==
    /\ OneReceived(s)
    /\ s.iState = "EIdle" => ~s.dfc /\ ~s.irq
    /\ s.iState = "EBusy" =>
           s.at \in 1..Len(Transfers[s.iCurrTransaction]) /\ Counted(s, ColumnOf(s))

\* A set of numbers has a least one.
LEMMA LeastNumber ==
    ASSUME NEW T, T \subseteq Nat, T # {}
    PROVE  \E x \in T : \A y \in T : x <= y
<1> DEFINE R == {ss \in Nat \X Nat : ss[1] < ss[2]}
<1>1. IsWellFoundedOn(R, Nat)
  BY NatLessThanWellFounded DEF OpToRel
<1>2. \A x, y \in Nat : y < x => <<y, x>> \in R
  OBVIOUS
<1> HIDE DEF R
<1>3. PICK x \in T : \A y \in T : ~(<<y, x>> \in R)
  BY <1>1, WFMin
<1>4. ASSUME NEW y \in T
      PROVE  x <= y
  <2>1. x \in Nat /\ y \in Nat /\ ~(y < x)
    BY <1>2, <1>3
  <2> QED
    BY <2>1
<1> QED
  BY <1>4

\* Induction, stated of a set.
LEMMA SetInduction ==
    ASSUME NEW P, 0 \in P, \A n \in Nat : n \in P => n + 1 \in P
    PROVE  Nat \subseteq P
<1> DEFINE T == {n \in Nat : n \notin P}
<1> SUFFICES ASSUME T # {}
             PROVE  FALSE
  OBVIOUS
<1>1. T \subseteq Nat
  OBVIOUS
<1>2. PICK x \in T : \A y \in T : x <= y
  <2> HIDE DEF T
  <2> QED
    BY <1>1, LeastNumber
<1>3. x \in Nat /\ x # 0 /\ x \notin P
  OBVIOUS
<1>4. x - 1 \in Nat /\ x - 1 \notin T
  BY <1>2, <1>3
<1>5. (x - 1) + 1 \in P /\ (x - 1) + 1 = x
  BY <1>3, <1>4
<1> QED
  BY <1>3, <1>5

\* f adds up g from 1 to m.
AddsUp(f, g, m) ==
    f \in [0..m -> Nat] /\ f[0] = 0 /\ \A n \in 1..m : f[n] = f[n - 1] + g[n]

\* There is such a function.
LEMMA SumExists ==
    ASSUME NEW m \in Nat, NEW g \in [1..m -> Nat]
    PROVE  \E f : AddsUp(f, g, m)
<1> DEFINE P == {k \in Nat : k <= m => \E f : AddsUp(f, g, k)}
<1>1. 0 \in P
  <2>1. AddsUp([n \in 0..0 |-> 0], g, 0)
    BY DEF AddsUp
  <2> QED
    BY <2>1
<1>2. ASSUME NEW k \in Nat, k \in P
      PROVE  k + 1 \in P
  <2> SUFFICES ASSUME k + 1 <= m
               PROVE  \E f : AddsUp(f, g, k + 1)
    OBVIOUS
  <2>1. PICK f : AddsUp(f, g, k)
    BY <1>2
  <2> DEFINE h == [n \in 0..(k + 1) |-> IF n = k + 1 THEN f[k] + g[k + 1] ELSE f[n]]
  <2>2. f[k] \in Nat /\ g[k + 1] \in Nat
    BY <2>1 DEF AddsUp
  <2>3. h \in [0..(k + 1) -> Nat]
    BY <2>1, <2>2 DEF AddsUp
  <2>4. h[0] = 0
    BY <2>1 DEF AddsUp
  <2>5. ASSUME NEW n \in 1..(k + 1)
        PROVE  h[n] = h[n - 1] + g[n]
    <3>1. CASE n = k + 1
      BY <3>1
    <3>2. CASE n # k + 1
      <4>1. n \in 1..k /\ n \in 0..(k + 1) /\ n - 1 \in 0..(k + 1) /\ n - 1 # k + 1
        BY <3>2
      <4> QED
        BY <2>1, <3>2, <4>1 DEF AddsUp
    <3> QED
      BY <3>1, <3>2
  <2> HIDE DEF h
  <2>6. AddsUp(h, g, k + 1)
    BY <2>3, <2>4, <2>5 DEF AddsUp
  <2> QED
    BY <2>6
<1>3. Nat \subseteq P
  <2> HIDE DEF P
  <2> QED
    BY <1>1, <1>2, SetInduction
<1> QED
  BY <1>3

\* WordsUpTo() adds up the columns.
LEMMA WordsAddUp ==
    ASSUME NEW t \in Transactions, NEW type \in {"read", "write"}
    PROVE  AddsUp(WordsUpTo(t, type), [n \in 1..Len(Transfers[t]) |-> Words(Transfers[t][n], type)],
                  Len(Transfers[t]))
<1> DEFINE m == Len(Transfers[t])
           g == [n \in 1..m |-> Words(Transfers[t][n], type)]
<1>1. m \in Nat /\ \A n \in 1..m : Transfers[t][n] \in Column
  <2>1. Transfers[t] \in Seq(Column)
    BY SpiAssumption
  <2> QED
    BY <2>1
<1>2. g \in [1..m -> Nat]
  BY <1>1 DEF Words, Column
<1>3. WordsUpTo(t, type) = CHOOSE f : f = [n \in 0..m |-> IF n = 0 THEN 0
                                            ELSE f[n - 1] + Words(Transfers[t][n], type)]
  BY DEF WordsUpTo
<1> HIDE DEF m
<1>4. PICK f : AddsUp(f, g, m)
  <2> HIDE DEF g
  <2> QED
    BY <1>1, <1>2, SumExists
<1>5. f = [n \in 0..m |-> IF n = 0 THEN 0 ELSE f[n - 1] + Words(Transfers[t][n], type)]
  <2>1. \A n \in 1..m : f[n] = f[n - 1] + Words(Transfers[t][n], type)
    BY <1>4 DEF AddsUp
  <2>2. \A n \in 0..m : n = 0 \/ n \in 1..m
    BY <1>1
  <2> QED
    BY <1>4, <2>1, <2>2 DEF AddsUp
<1> DEFINE w == WordsUpTo(t, type)
<1>6. w = [n \in 0..m |-> IF n = 0 THEN 0 ELSE w[n - 1] + Words(Transfers[t][n], type)]
  BY <1>3, <1>5
<1> HIDE DEF w
<1>7. w[0] = 0 /\ \A n \in 1..m : w[n] = w[n - 1] + g[n]
  BY <1>1, <1>6
<1>8. \A n \in 0..m : w[n] \in Nat
  <2> DEFINE P == {n \in Nat : n <= m => w[n] \in Nat}
  <2>1. 0 \in P
    BY <1>7
  <2>2. ASSUME NEW n \in Nat, n \in P
        PROVE  n + 1 \in P
    <3> SUFFICES ASSUME n + 1 <= m
                 PROVE  w[n + 1] \in Nat
      OBVIOUS
    <3>1. n + 1 \in 1..m /\ (n + 1) - 1 = n /\ w[n] \in Nat
      BY <1>1, <2>2
    <3> HIDE DEF g
    <3> QED
      BY <1>2, <1>7, <3>1
  <2>3. Nat \subseteq P
    <3> HIDE DEF P
    <3> QED
      BY <2>1, <2>2, SetInduction
  <2> QED
    BY <1>1, <2>3
<1>9. w \in [0..m -> Nat]
  BY <1>6, <1>8
<1> HIDE DEF g
<1>10. AddsUp(w, g, m)
  BY <1>7, <1>9 DEF AddsUp
<1> QED
  BY <1>10 DEF w, g, m

\* A column's words are added to those before it.
LEMMA WordsOfColumn ==
    ASSUME NEW t \in Transactions, NEW type \in {"read", "write"}, NEW n \in 1..Len(Transfers[t])
    PROVE  /\ WordsUpTo(t, type)[0] = 0
           /\ WordsUpTo(t, type)[n] = WordsUpTo(t, type)[n - 1] + Words(Transfers[t][n], type)
           /\ WordsUpTo(t, type)[n] \in Nat /\ WordsUpTo(t, type)[n - 1] \in Nat
<1>1. Len(Transfers[t]) \in Nat
  <2>1. Transfers[t] \in Seq(Column)
    BY SpiAssumption
  <2> QED
    BY <2>1
<1>2. n \in 0..Len(Transfers[t]) /\ n - 1 \in 0..Len(Transfers[t])
  BY <1>1
<1> QED
  BY <1>2, WordsAddUp DEF AddsUp

\* The transfer and its counts are the same, and the channel is in the same state.
SameWords(s, r) ==
    /\ r.iCurrTransaction = s.iCurrTransaction /\ r.at = s.at /\ r.op = s.op
    /\ r.txLeft = s.txLeft /\ r.rxLeft = s.rxLeft /\ r.sent = s.sent /\ r.got = s.got
    /\ r.iState = s.iState /\ r.dfc = s.dfc /\ r.irq = s.irq

\* The words in the controller are the same.
SamePipe(s, r) ==
    /\ r.receive = s.receive /\ r.txFull = s.txFull /\ r.shifting = s.shifting
    /\ r.rxFull = s.rxFull /\ r.status = s.status

\* What the registers and the pins do to the words.
LEMMA RegisterWords ==
    ASSUME NEW s \in Channel
    PROVE  /\ SameWords(s, SoftReset(s)) /\ OneReceived(SoftReset(s))
           /\ SameWords(s, SetCsInactive(s)) /\ SamePipe(s, SetCsInactive(s))
           /\ SameWords(s, SetCsActive(s)) /\ SamePipe(s, SetCsActive(s))
           /\ SameWords(s, DisableChannel(s, 0))
           /\ OneReceived(s) => OneReceived(DisableChannel(s, 0))
<1>1. SameWords(s, SoftReset(s)) /\ OneReceived(SoftReset(s))
  BY DEF SoftReset, Channel, SameWords, OneReceived
<1>2. SameWords(s, SetCsInactive(s)) /\ SamePipe(s, SetCsInactive(s))
  BY DEF SetCsInactive, Channel, SameWords, SamePipe
<1>3. SameWords(s, SetCsActive(s)) /\ SamePipe(s, SetCsActive(s))
  BY DEF SetCsActive, Channel, SameWords, SamePipe
<1>4. /\ SameWords(s, DisableChannel(s, 0))
      /\ OneReceived(s) => OneReceived(DisableChannel(s, 0))
  <2>1. CASE 0 \notin s.enabled
    BY <2>1 DEF DisableChannel, SameWords
  <2>2. CASE 0 \in s.enabled
    <3> DEFINE r == [s EXCEPT !.enabled = @ \ {0}, !.txFull = FALSE, !.shifting = FALSE,
                              !.rxFull = FALSE]
    <3>1. DisableChannel(s, 0) = r
      BY <2>2 DEF DisableChannel
    <3>2. SameWords(s, r) /\ OneReceived(r)
      BY DEF Channel, SameWords, OneReceived
    <3> QED
      BY <3>1, <3>2
  <2> QED
    BY <2>1, <2>2
<1> QED
  BY <1>1, <1>2, <1>3, <1>4

\* An idle channel that keeps the counts of the request that ended.
Rests(s, r) ==
    /\ r.iState = "EIdle" /\ ~r.dfc /\ ~r.irq /\ OneReceived(r)
    /\ r.sent = s.sent /\ r.got = s.got

\* ExitComplete() keeps the counts.
LEMMA ExitRests ==
    ASSUME NEW s \in Channel, NEW err \in Results,
           s.selected \subseteq {s.iCurrSS}, err = KErrNone => s.selected = {},
           err = KErrNone => OneReceived(s)
    PROVE  Rests(s, ExitComplete(s, err))
<1> DEFINE cs == SetCsInactive(s)
           reset == SoftReset(cs)
           rel == Released(s)
           open == IF err = KErrNone THEN s ELSE rel
<1>1. cs \in Channel /\ SameWords(s, cs)
  BY Registers, RegisterWords
<1> HIDE DEF cs
<1>2. reset \in Channel /\ SameWords(cs, reset) /\ OneReceived(reset)
  BY <1>1, Registers, RegisterWords
<1>3. rel = [reset EXCEPT !.iCurrSS = -1]
  BY DEF Released, cs
<1> HIDE DEF reset, rel
<1>4. rel \in Channel /\ rel.sent = s.sent /\ rel.got = s.got /\ OneReceived(rel)
  BY <1>1, <1>2, <1>3 DEF Channel, SameWords, OneReceived
<1>5. open \in Channel /\ open.sent = s.sent /\ open.got = s.got /\ OneReceived(open)
  BY <1>4
<1>6. ExitComplete(s, err) = [Cancelled(open) EXCEPT !.iState = "EIdle"]
  BY DEF ExitComplete, rel
<1> HIDE DEF open
<1>7. ExitComplete(s, err) = [open EXCEPT !.irq = FALSE, !.timer = "off", !.dfc = FALSE,
                                          !.iState = "EIdle"]
  BY <1>5, <1>6 DEF Cancelled, Channel
<1> QED
  BY <1>5, <1>7 DEF Channel, Rests, OneReceived

\* What a transfer that is not refused does to the words.
Begins(s, r, type, words, duplex) ==
    /\ r.iCurrTransaction = s.iCurrTransaction /\ r.at = s.at
    /\ r.iState = s.iState /\ r.dfc = s.dfc
    /\ r.shifting = s.shifting /\ r.rxFull = s.rxFull /\ r.got = s.got
    /\ type = "write" =>
           /\ r.op = s.op \cup {"tx"} /\ r.txLeft = words - 1 /\ r.sent = s.sent + 1
           /\ r.rxLeft = s.rxLeft /\ r.receive = s.receive /\ r.txFull = TRUE
           /\ r.status = {}
    /\ type = "read" =>
           /\ r.op = s.op \cup {"rx"} /\ r.rxLeft = words /\ r.sent = s.sent
           /\ r.txLeft = s.txLeft /\ r.receive = TRUE /\ r.txFull = s.txFull
           /\ r.status = IF duplex THEN {} ELSE {"tx"}
StartsWords(s, res, type, words, duplex) ==
    /\ res.r = IF words = 0 THEN KErrArgument ELSE KErrNone
    /\ words = 0 => Rests(s, res.s)
    /\ words # 0 => Begins(s, res.s, type, words, duplex)

\* StartTransfer() sets up the count of its direction; a write hands over one word.
LEMMA StartWords ==
    ASSUME NEW s \in Channel, NEW type \in {"read", "write"}, NEW words \in Nat,
           NEW duplex \in BOOLEAN, s.iCurrSS \in Slaves, s.selected \subseteq {s.iCurrSS}
    PROVE  StartsWords(s, StartTransfer(s, type, words, duplex), type, words, duplex)
<1> DEFINE res == StartTransfer(s, type, words, duplex)
<1> SUFFICES StartsWords(s, res, type, words, duplex)
  OBVIOUS
<1>0. KErrNone # KErrArgument /\ KErrArgument \in Results
  BY DEF KErrNone, KErrArgument, Results
<1>1. CASE words = 0
  <2>1. res = Refused(s)
    BY <1>1 DEF StartTransfer
  <2>2. Refused(s).s = ExitComplete(s, KErrArgument) /\ Refused(s).r = KErrArgument
    BY DEF Refused
  <2>3. Rests(s, ExitComplete(s, KErrArgument))
    BY <1>0, ExitRests
  <2> HIDE DEF res
  <2> QED
    BY <1>1, <2>1, <2>2, <2>3 DEF StartsWords
<1>2. CASE words # 0 /\ type = "write"
  <2> DEFINE b == [[s EXCEPT !.txLeft = words, !.op = @ \cup {"tx"}] EXCEPT !.status = {}]
             c == [b EXCEPT !.enabled = @ \cup {b.iCurrSS}, !.ie = @ \cup {"tx"}, !.irq = TRUE]
             d == SetCsActive(c)
             e == WriteWord(d)
  <2>1. res = Ok(e)
    BY <1>2 DEF StartTransfer, DoWrite, Enable
  <2>2. b = [s EXCEPT !.txLeft = words, !.op = s.op \cup {"tx"}, !.status = {}]
    BY DEF Channel
  <2>3. b \in Channel
    BY <2>2 DEF Channel, Flags
  <2> HIDE DEF b
  <2>4. b.iCurrSS \in Slaves
    BY <2>2 DEF Channel
  <2>5. c \in Channel
    BY <2>3, <2>4 DEF Channel, Flags
  <2> HIDE DEF d
  <2>6. SameWords(c, d) /\ SamePipe(c, d)
    <3> HIDE DEF c
    <3> QED
      BY <2>5, RegisterWords DEF d
  <2>7. d \in Channel
    <3>1. c.iCurrSS \in Slaves
      BY <2>3, <2>4 DEF Channel
    <3> HIDE DEF c
    <3> QED
      BY <2>5, <3>1, Registers DEF d
  <2>8. /\ c.iCurrTransaction = s.iCurrTransaction /\ c.at = s.at
        /\ c.iState = s.iState /\ c.dfc = s.dfc
        /\ c.shifting = s.shifting /\ c.rxFull = s.rxFull /\ c.got = s.got
        /\ c.op = s.op \cup {"tx"} /\ c.txLeft = words /\ c.sent = s.sent
        /\ c.rxLeft = s.rxLeft /\ c.receive = s.receive /\ c.status = {}
    BY <2>2, <2>3 DEF Channel
  <2> HIDE DEF c
  <2>9. e = [d EXCEPT !.txFull = TRUE, !.txLeft = d.txLeft - 1, !.sent = d.sent + 1]
    BY DEF WriteWord
  <2> HIDE DEF e
  <2>10. /\ e.iCurrTransaction = d.iCurrTransaction /\ e.at = d.at
         /\ e.iState = d.iState /\ e.dfc = d.dfc
         /\ e.shifting = d.shifting /\ e.rxFull = d.rxFull /\ e.got = d.got
         /\ e.op = d.op /\ e.txLeft = d.txLeft - 1 /\ e.sent = d.sent + 1
         /\ e.rxLeft = d.rxLeft /\ e.receive = d.receive /\ e.status = d.status
         /\ e.txFull = TRUE
    BY <2>7, <2>9 DEF Channel
  <2>11. Begins(s, e, type, words, duplex)
    BY <1>2, <2>6, <2>8, <2>10 DEF SameWords, SamePipe, Begins
  <2>12. res.s = e /\ res.r = KErrNone
    BY <2>1 DEF Ok
  <2> HIDE DEF res
  <2> QED
    BY <1>2, <2>11, <2>12 DEF StartsWords
<1>3. CASE words # 0 /\ type = "read"
  <2> DEFINE a == [s EXCEPT !.rxLeft = words, !.op = s.op \cup {"rx"}]
             e == DoRead(a, duplex)
  <2>1. res.s = e /\ res.r = KErrNone
    BY <1>3 DEF StartTransfer, Ok
  <2>2. a \in Channel
    BY DEF Channel, Flags
  <2>3. /\ a.iCurrTransaction = s.iCurrTransaction /\ a.at = s.at
        /\ a.iState = s.iState /\ a.dfc = s.dfc /\ a.txFull = s.txFull
        /\ a.shifting = s.shifting /\ a.rxFull = s.rxFull /\ a.got = s.got
        /\ a.op = s.op \cup {"rx"} /\ a.txLeft = s.txLeft /\ a.sent = s.sent
        /\ a.rxLeft = words /\ a.iCurrSS = s.iCurrSS
    BY DEF Channel
  <2> HIDE DEF a
  <2>4. Begins(s, e, type, words, duplex)
    <3>1. CASE duplex
      <4>1. e = [a EXCEPT !.receive = TRUE, !.status = {}, !.ie = {"rx"}]
        BY <3>1 DEF DoRead
      <4> HIDE DEF e
      <4>2. /\ e.iCurrTransaction = a.iCurrTransaction /\ e.at = a.at
            /\ e.iState = a.iState /\ e.dfc = a.dfc /\ e.txFull = a.txFull
            /\ e.shifting = a.shifting /\ e.rxFull = a.rxFull /\ e.got = a.got
            /\ e.op = a.op /\ e.txLeft = a.txLeft /\ e.sent = a.sent
            /\ e.rxLeft = a.rxLeft /\ e.receive = TRUE /\ e.status = {}
        BY <2>2, <4>1 DEF Channel
      <4> QED
        BY <1>3, <2>3, <3>1, <4>2 DEF Begins
    <3>2. CASE ~duplex
      <4> DEFINE b == [a EXCEPT !.receive = TRUE, !.status = {"tx"}]
                 c == [b EXCEPT !.enabled = @ \cup {b.iCurrSS}, !.ie = @ \cup {"tx", "rx"},
                                !.irq = TRUE]
                 d == SetCsActive(c)
      <4>1. e = d
        BY <3>2 DEF DoRead, Enable
      <4>2. b \in Channel
        BY <2>2 DEF Channel, Flags
      <4>3. /\ b.iCurrTransaction = a.iCurrTransaction /\ b.at = a.at
            /\ b.iState = a.iState /\ b.dfc = a.dfc /\ b.txFull = a.txFull
            /\ b.shifting = a.shifting /\ b.rxFull = a.rxFull /\ b.got = a.got
            /\ b.op = a.op /\ b.txLeft = a.txLeft /\ b.sent = a.sent
            /\ b.rxLeft = a.rxLeft /\ b.receive = TRUE /\ b.status = {"tx"}
            /\ b.iCurrSS = a.iCurrSS
        BY <2>2 DEF Channel
      <4> HIDE DEF b
      <4>4. c \in Channel
        <5>1. b.iCurrSS \in Slaves
          BY <2>3, <4>3
        <5> QED
          BY <4>2, <5>1 DEF Channel, Flags
      <4>5. /\ c.iCurrTransaction = b.iCurrTransaction /\ c.at = b.at
            /\ c.iState = b.iState /\ c.dfc = b.dfc /\ c.txFull = b.txFull
            /\ c.shifting = b.shifting /\ c.rxFull = b.rxFull /\ c.got = b.got
            /\ c.op = b.op /\ c.txLeft = b.txLeft /\ c.sent = b.sent
            /\ c.rxLeft = b.rxLeft /\ c.receive = b.receive /\ c.status = b.status
        BY <4>2 DEF Channel
      <4> HIDE DEF c
      <4>6. SameWords(c, d) /\ SamePipe(c, d)
        BY <4>4, RegisterWords
      <4> HIDE DEF d, e
      <4>7. Begins(s, d, type, words, duplex)
        BY <1>3, <2>3, <3>2, <4>3, <4>5, <4>6 DEF SameWords, SamePipe, Begins
      <4> QED
        BY <4>1, <4>7
    <3> QED
      BY <3>1, <3>2
  <2> HIDE DEF e, res
  <2> QED
    BY <1>3, <2>1, <2>4 DEF StartsWords
<1> QED
  BY <1>1, <1>2, <1>3

\* The columns before the current one are done, and it has not begun.
Before(s) ==
    /\ s.op = {} /\ ~s.dfc /\ OneReceived(s)
    /\ s.sent = WordsUpTo(s.iCurrTransaction, "write")[s.at - 1]
    /\ s.got = WordsUpTo(s.iCurrTransaction, "read")[s.at - 1]

\* The current column has begun, or was refused.
Begun(s, res) ==
    IF res.r = KErrNone
    THEN res.s.iState = "EBusy" /\ res.s.at = s.at /\ OneReceived(res.s)
         /\ res.s.iCurrTransaction = s.iCurrTransaction /\ Counted(res.s, ColumnOf(s))
    ELSE Rests(s, res.s)

\* StartColumn() starts the counts of both directions.
LEMMA ColumnWords ==
    ASSUME ColumnsFit, NEW s \in Channel, s.iCurrTransaction \in Transactions,
           s.at \in 1..Len(Transfers[s.iCurrTransaction]), s.iState = "EBusy",
           s.iCurrSS \in Slaves, s.selected \subseteq {s.iCurrSS}, Before(s)
    PROVE  Begun(s, StartColumn(s, ColumnOf(s)))
<1> DEFINE t == s.iCurrTransaction
           col == Transfers[t][s.at]
           sent == WordsUpTo(t, "write")
           got == WordsUpTo(t, "read")
           res == StartColumn(s, col)
<1>0. ColumnOf(s) = col
  BY DEF ColumnOf
<1>1. col \in Column
  BY SpiAssumption
<1>2. col.type \in {"read", "write"} /\ col.words \in Nat /\ col.full \in Nat \cup {None}
      /\ None \notin Nat
  BY <1>1, SpiAssumption DEF Column
<1>3. col.full # None => col.full = col.words
  BY DEF ColumnsFit
<1>4. /\ sent[s.at] = sent[s.at - 1] + Words(col, "write") /\ sent[s.at - 1] \in Nat
      /\ got[s.at] = got[s.at - 1] + Words(col, "read") /\ got[s.at - 1] \in Nat
  BY WordsOfColumn
<1>5. /\ s.op = {} /\ ~s.dfc /\ OneReceived(s) /\ s.sent = sent[s.at - 1]
      /\ s.got = got[s.at - 1] /\ s.sent \in Nat /\ s.got \in Nat
      /\ s.txLeft \in Nat /\ s.rxLeft \in Nat
      /\ {s.receive, s.txFull, s.shifting, s.rxFull} \subseteq BOOLEAN
  BY DEF Before, Channel
<1>6. KErrNone # KErrArgument
  BY DEF KErrNone, KErrArgument
<1> HIDE DEF col, sent, got
<1>7. SUFFICES Begun(s, res)
  BY <1>0
<1>8. ASSUME NEW r, Counted(r, col), r.iState = "EBusy", r.at = s.at, OneReceived(r),
             r.iCurrTransaction = t, res.s = r, res.r = KErrNone
      PROVE  Begun(s, res)
  BY <1>0, <1>8 DEF Begun
<1>9. ASSUME NEW r, Rests(s, r), res.s = r, res.r = KErrArgument
      PROVE  Begun(s, res)
  BY <1>6, <1>9 DEF Begun
<1>10. CASE col.full = None
  <2>1. res = StartTransfer(s, col.type, col.words, FALSE)
    BY <1>10 DEF StartColumn
  <2>2. StartsWords(s, res, col.type, col.words, FALSE)
    BY <1>2, <2>1, StartWords
  <2> HIDE DEF res
  <2>3. CASE col.words = 0
    BY <1>9, <2>2, <2>3 DEF StartsWords
  <2>4. CASE col.words # 0
    <3> DEFINE r == res.s
    <3>1. res.r = KErrNone /\ Begins(s, r, col.type, col.words, FALSE)
      BY <2>2, <2>4 DEF StartsWords
    <3> HIDE DEF r
    <3>2. r.iState = "EBusy" /\ r.at = s.at /\ r.iCurrTransaction = t /\ ~r.dfc
      BY <1>5, <3>1 DEF Begins
    <3>3. CASE col.type = "write"
      <4>1. /\ r.op = {"tx"} /\ r.txLeft = col.words - 1 /\ r.sent = s.sent + 1
            /\ r.got = s.got /\ r.receive = s.receive /\ r.shifting = s.shifting
            /\ r.rxFull = s.rxFull
        BY <1>5, <3>1, <3>3 DEF Begins
      <4>2. Sends(col) /\ ~Receives(col) /\ Words(col, "write") = col.words
            /\ Words(col, "read") = 0
        BY <1>10, <3>3 DEF Sends, Receives, Words
      <4>3. r.sent + r.txLeft = sent[s.at] /\ r.got + 0 = got[s.at]
        <5>1. sent[s.at] = s.sent + col.words /\ got[s.at] = s.got + 0
          BY <1>4, <1>5, <4>2
        <5>2. (s.sent + 1) + (col.words - 1) = s.sent + col.words
          BY <1>2, <1>5
        <5> QED
          BY <1>5, <4>1, <5>1, <5>2
      <4>4. Counted(r, col)
        BY <1>10, <3>2, <4>1, <4>2, <4>3 DEF Counted, sent, got
      <4>5. OneReceived(r)
        BY <1>5, <4>1 DEF OneReceived
      <4> QED
        BY <1>8, <3>1, <3>2, <4>4, <4>5 DEF r
    <3>4. CASE col.type = "read"
      <4>1. /\ r.op = {"rx"} /\ r.rxLeft = col.words /\ r.sent = s.sent
            /\ r.got = s.got /\ r.receive = TRUE /\ r.shifting = s.shifting
            /\ r.rxFull = s.rxFull
        BY <1>5, <3>1, <3>4 DEF Begins
      <4>2. ~Sends(col) /\ Receives(col) /\ Words(col, "read") = col.words
            /\ Words(col, "write") = 0
        BY <1>10, <3>4 DEF Sends, Receives, Words
      <4>3. r.sent + 0 = sent[s.at] /\ r.got + r.rxLeft = got[s.at]
        BY <1>2, <1>4, <1>5, <4>1, <4>2
      <4>4. Counted(r, col)
        BY <1>10, <3>2, <4>1, <4>2, <4>3 DEF Counted, sent, got
      <4>5. OneReceived(r)
        BY <1>5, <4>1 DEF OneReceived
      <4> QED
        BY <1>8, <3>1, <3>2, <4>4, <4>5 DEF r
    <3> QED
      BY <1>2, <3>3, <3>4
  <2> QED
    BY <2>3, <2>4
<1>11. CASE col.full # None
  <2> DEFINE m == col.words
             read == StartTransfer(s, "read", m, TRUE)
             a == read.s
             write == StartTransfer(a, "write", m, TRUE)
  <2>1. res = IF read.r # KErrNone THEN read ELSE write
    BY <1>3, <1>11 DEF StartColumn
  <2>2. m \in Nat
    BY <1>2
  <2>3. Goes(s, read) /\ StartsWords(s, read, "read", m, TRUE)
    BY <2>2, Starts, StartWords
  <2>4. read.r = KErrNone =>
            /\ a \in Channel /\ a.iCurrSS \in Slaves /\ a.selected \subseteq {a.iCurrSS}
    BY <2>3 DEF Goes
  <2>5. read.r = KErrNone => StartsWords(a, write, "write", m, TRUE)
    BY <2>2, <2>4, StartWords
  <2> HIDE DEF a, read, write, res, m
  <2>6. CASE m = 0
    <3>1. read.r = KErrArgument /\ Rests(s, read.s)
      BY <2>3, <2>6 DEF StartsWords
    <3> QED
      BY <1>6, <1>9, <2>1, <3>1
  <2>7. CASE m # 0
    <3> DEFINE r == write.s
    <3>1. read.r = KErrNone /\ Begins(s, a, "read", m, TRUE)
      BY <2>3, <2>7 DEF StartsWords, a
    <3>2. write.r = KErrNone /\ Begins(a, r, "write", m, TRUE)
      BY <2>5, <2>7, <3>1 DEF StartsWords
    <3>3. res = write
      BY <2>1, <3>1
    <3> HIDE DEF r
    <3>4. /\ a.iState = "EBusy" /\ a.at = s.at /\ a.iCurrTransaction = t /\ ~a.dfc
          /\ a.op = {"rx"} /\ a.rxLeft = m /\ a.sent = s.sent
          /\ a.got = s.got /\ a.receive = TRUE /\ a.shifting = s.shifting
          /\ a.rxFull = s.rxFull
      BY <1>5, <3>1 DEF Begins
    <3>5. /\ r.iState = "EBusy" /\ r.at = s.at /\ r.iCurrTransaction = t /\ ~r.dfc
          /\ r.op = {"rx", "tx"} /\ r.rxLeft = m /\ r.txLeft = m - 1 /\ r.sent = s.sent + 1
          /\ r.got = s.got /\ r.receive = TRUE /\ r.shifting = s.shifting
          /\ r.rxFull = s.rxFull /\ r.txFull = TRUE /\ r.status = {}
      <4>1. r.op = a.op \cup {"tx"}
        BY <3>2 DEF Begins
      <4> QED
        BY <3>2, <3>4, <4>1 DEF Begins
    <3>6. Sends(col) /\ Receives(col) /\ Words(col, "read") = m /\ Words(col, "write") = m
      BY <1>2, <1>3, <1>11 DEF Sends, Receives, Words, m
    <3>7. r.sent + r.txLeft = sent[s.at] /\ r.got + r.rxLeft = got[s.at]
      <4>1. sent[s.at] = s.sent + m /\ got[s.at] = s.got + m
        BY <1>4, <1>5, <3>6
      <4>2. (s.sent + 1) + (m - 1) = s.sent + m
        BY <1>5, <2>2
      <4> QED
        BY <3>5, <4>1, <4>2
    <3>8. ~(r.shifting /\ r.rxFull)
      BY <1>5, <3>5 DEF OneReceived
    <3>9. InStep(r)
      BY <2>2, <2>7, <3>5, <3>8 DEF InStep, One
    <3>10. Counted(r, col)
      BY <3>5, <3>6, <3>7, <3>9 DEF Counted, sent, got
    <3>11. OneReceived(r)
      BY <3>5, <3>8 DEF OneReceived
    <3> QED
      BY <1>8, <3>2, <3>3, <3>5, <3>10, <3>11 DEF r
  <2> QED
    BY <2>6, <2>7
<1> QED
  BY <1>10, <1>11

\* The current column is done.
ColumnDone(s) ==
    /\ s.at \in 1..Len(Transfers[s.iCurrTransaction])
    /\ s.sent = WordsUpTo(s.iCurrTransaction, "write")[s.at]
    /\ s.got = WordsUpTo(s.iCurrTransaction, "read")[s.at]

\* What ProcessNextTransfers() makes of the words: when the list is done they are all
\* the transaction's.
GoesOn(s, res) ==
    /\ AllCounted(res.s)
    /\ res.r = KErrNone /\ res.s.iState = "EIdle" =>
           /\ res.s.sent = Total(s.iCurrTransaction, "write")
           /\ res.s.got = Total(s.iCurrTransaction, "read")

\* ProcessNextTransfers() goes on after a column that is done, or starts the first.
LEMMA ProcessWords ==
    ASSUME ColumnsFit, NEW s \in Channel, s.iCurrTransaction \in Transactions,
           s.iCurrSS \in Slaves, s.selected = {}, s.iState = "EIdle" => s.timer = "off",
           ~s.dfc, OneReceived(s), s.iState = "EBusy" => ColumnDone(s)
    PROVE  GoesOn(s, ProcessNextTransfers(s))
<1> DEFINE n == NextTransfer(s)
           b == Busy(n)
           res == ProcessNextTransfers(s)
           t == s.iCurrTransaction
           list == Transfers[t]
           at == IF s.iState = "EIdle" THEN 1 ELSE s.at + 1
<1> SUFFICES GoesOn(s, res)
  OBVIOUS
<1>0. s.iState \in {"EIdle", "EBusy"} /\ at \in Nat
  BY DEF Channel
<1>1. list \in Seq(Column) /\ Len(list) > 0 /\ Len(list) \in Nat
  BY SpiAssumption
<1>2. n = [s EXCEPT !.op = {}, !.at = at]
  BY DEF NextTransfer
<1>3. res = IF LastDone(b) THEN Ok(ExitComplete(b, KErrNone)) ELSE StartColumn(b, list[b.at])
  BY DEF ProcessNextTransfers
<1> HIDE DEF n, res
<1>4. /\ n \in Channel /\ n.iState = s.iState /\ n.iCurrSS = s.iCurrSS
      /\ n.iCurrTransaction = t /\ n.selected = {} /\ n.at = at /\ n.op = {}
      /\ n.dfc = s.dfc /\ n.sent = s.sent /\ n.got = s.got /\ n.receive = s.receive
      /\ n.rxFull = s.rxFull /\ n.shifting = s.shifting
  <2> HIDE DEF at
  <2>1. n \in Channel
    BY <1>0, <1>2 DEF Channel
  <2> QED
    BY <1>2, <2>1 DEF Channel
<1> DEFINE fresh == s.iState = "EIdle"
<1>5. /\ b \in Channel /\ b.iState = "EBusy" /\ b.iCurrSS = s.iCurrSS
      /\ b.iCurrTransaction = t /\ b.selected = {} /\ b.at = at /\ b.op = {}
      /\ ~b.dfc /\ OneReceived(b)
      /\ b.sent = (IF fresh THEN 0 ELSE s.sent) /\ b.got = (IF fresh THEN 0 ELSE s.got)
  <2> HIDE DEF at, t
  <2>1. CASE fresh
    <3>1. b = [n EXCEPT !.iState = "EBusy", !.timer = "running", !.sent = 0, !.got = 0]
      BY <1>4, <2>1 DEF Busy
    <3> HIDE DEF b
    <3>2. b \in Channel
      BY <1>4, <3>1 DEF Channel
    <3>3. /\ b.iState = "EBusy" /\ b.iCurrSS = n.iCurrSS
          /\ b.iCurrTransaction = n.iCurrTransaction /\ b.selected = n.selected
          /\ b.at = n.at /\ b.op = n.op /\ b.dfc = n.dfc /\ b.receive = n.receive
          /\ b.rxFull = n.rxFull /\ b.shifting = n.shifting /\ b.sent = 0 /\ b.got = 0
      BY <1>4, <3>1 DEF Channel
    <3> QED
      BY <1>4, <2>1, <3>2, <3>3 DEF OneReceived
  <2>2. CASE ~fresh
    <3>1. b = n
      BY <1>4, <2>2 DEF Busy
    <3> HIDE DEF b
    <3> QED
      BY <1>0, <1>4, <2>2, <3>1 DEF OneReceived
  <2> QED
    BY <2>1, <2>2
<1> HIDE DEF b
<1>6. fresh => 1 \in 1..Len(list)
  BY <1>1
<1>7. ~fresh => ColumnDone(s)
  BY <1>0
<1>8. CASE LastDone(b)
  <2> DEFINE e == ExitComplete(b, KErrNone)
  <2>1. e \in Channel /\ Quiet(e) /\ Rests(b, e)
    BY <1>5, Exits, ExitRests DEF Results
  <2>2. res.s = e /\ res.r = KErrNone
    BY <1>3, <1>8 DEF Ok
  <2>3. ~fresh /\ s.at = Len(list)
    <3>1. at > Len(list)
      BY <1>5, <1>8 DEF LastDone
    <3>2. ~fresh
      BY <1>1, <3>1
    <3> QED
      BY <1>1, <1>7, <3>1, <3>2 DEF ColumnDone
  <2>4. e.sent = Total(t, "write") /\ e.got = Total(t, "read")
    BY <1>5, <1>7, <2>1, <2>3 DEF ColumnDone, Rests, Total
  <2>5. AllCounted(e)
    BY <2>1 DEF Rests, AllCounted
  <2> HIDE DEF e
  <2> QED
    BY <2>2, <2>4, <2>5 DEF GoesOn
<1>9. CASE ~LastDone(b)
  <2>1. b.at \in 1..Len(list)
    <3>1. ~(at > Len(list))
      BY <1>5, <1>9 DEF LastDone
    <3> QED
      BY <1>1, <1>5, <1>7, <3>1 DEF ColumnDone
  <2>2. ColumnOf(b) = list[b.at]
    BY <1>5 DEF ColumnOf
  <2>3. /\ b.sent = WordsUpTo(t, "write")[b.at - 1]
        /\ b.got = WordsUpTo(t, "read")[b.at - 1]
    <3>1. CASE fresh
      <4>1. WordsUpTo(t, "write")[0] = 0 /\ WordsUpTo(t, "read")[0] = 0
        BY <2>1, WordsOfColumn
      <4>2. b.at - 1 = 0
        BY <1>5, <3>1
      <4> QED
        BY <1>5, <3>1, <4>1, <4>2
    <3>2. CASE ~fresh
      <4>1. b.at - 1 = s.at
        BY <1>5, <3>2 DEF Channel
      <4> QED
        BY <1>5, <1>7, <3>2, <4>1 DEF ColumnDone
    <3> QED
      BY <3>1, <3>2
  <2>4. Before(b)
    BY <1>5, <2>3 DEF Before
  <2> DEFINE begun == StartColumn(b, ColumnOf(b))
  <2>5. Begun(b, begun)
    <3>1. b.iCurrSS \in Slaves /\ b.selected \subseteq {b.iCurrSS}
      BY <1>5
    <3> QED
      BY <1>5, <2>1, <2>4, <3>1, ColumnWords
  <2>6. res = begun
    BY <1>3, <1>9, <2>2
  <2> HIDE DEF begun
  <2>7. CASE res.r = KErrNone
    <3> DEFINE r == res.s
    <3>1. r.iState = "EBusy" /\ r.at = b.at /\ OneReceived(r)
          /\ r.iCurrTransaction = b.iCurrTransaction /\ Counted(r, ColumnOf(b))
      BY <2>5, <2>6, <2>7 DEF Begun
    <3> HIDE DEF r
    <3>2. ColumnOf(r) = ColumnOf(b)
      BY <3>1 DEF ColumnOf
    <3>3. AllCounted(r)
      BY <1>5, <2>1, <3>1, <3>2 DEF AllCounted
    <3> QED
      BY <3>1, <3>3 DEF GoesOn, r
  <2>8. CASE res.r # KErrNone
    BY <2>5, <2>6, <2>8 DEF Begun, Rests, AllCounted, GoesOn
  <2> QED
    BY <2>7, <2>8
<1> QED
  BY <1>8, <1>9

-----------------------------------------------------------------------------
(* The steps, and the words *)

\* What a channel has counted is not changed by what leaves the words alone.
LEMMA SameCounts ==
    ASSUME NEW s, NEW r, AllCounted(s), SameWords(s, r), SamePipe(s, r)
    PROVE  AllCounted(r)
<1>1. ColumnOf(r) = ColumnOf(s)
  BY DEF ColumnOf, SameWords
<1>2. ASSUME NEW col, Counted(s, col) PROVE Counted(r, col)
  <2>1. InStep(s) => InStep(r)
    BY DEF InStep, SameWords, SamePipe
  <2> QED
    BY <1>2, <2>1 DEF Counted, SameWords
<1>3. OneReceived(r)
  BY DEF AllCounted, OneReceived, SamePipe
<1> QED
  BY <1>1, <1>2, <1>3 DEF AllCounted, SameWords

\* The words of a channel that keeps them.
WordsInv == AllCounted(spi) /\ SuccessMovedAll

\* A request that did not succeed says nothing of its words.
LEMMA NoSuccess ==
    ASSUME WordsInv, AllCounted(spi'), last' = last \/ last'.err # KErrNone
    PROVE  WordsInv'
BY DEF WordsInv, SuccessMovedAll

\* DoRequest() starts with nothing in the controller.
LEMMA DoRequestWords ==
    ASSUME ColumnsFit, IInv, WordsInv, NEW t \in Transactions, DoRequest(t)
    PROVE  WordsInv'
<1> DEFINE set == [spi EXCEPT !.iCurrTransaction = t]
           c == Configured(spi, t)
           res == ProcessNextTransfers(c)
<1>0. KErrNone # KErrArgument
  BY DEF KErrNone, KErrArgument
<1>1. spi \in Channel /\ Quiet(spi) /\ AllCounted(spi)
  BY DEF IInv, WordsInv, Serves, OneRequest, DoRequest
<1>2. spi.iState = "EIdle" /\ ~spi.dfc /\ ~spi.irq /\ OneReceived(spi)
  BY <1>1 DEF Quiet, AllCounted
<1>3. CASE SlaveAddr[t] \notin Slaves
  <2>1. /\ set.iState = "EIdle" /\ ~set.dfc /\ ~set.irq /\ set.receive = spi.receive
        /\ set.rxFull = spi.rxFull /\ set.shifting = spi.shifting
    BY <1>1, <1>2 DEF Channel
  <2>2. last' = Ended(t, set, KErrArgument) /\ spi' = set
    BY <1>0, <1>3 DEF DoRequest
  <2>3. last'.err # KErrNone
    BY <1>0, <2>2 DEF Ended
  <2> HIDE DEF set
  <2>4. AllCounted(set)
    BY <1>2, <2>1 DEF AllCounted, OneReceived
  <2> QED
    BY <2>2, <2>3, <2>4, NoSuccess
<1>4. CASE SlaveAddr[t] \in Slaves
  <2>1. /\ c \in Channel /\ c.iCurrTransaction = t /\ c.iCurrSS = SlaveAddr[t]
        /\ c.selected = {} /\ c.iState = "EIdle" /\ c.timer = "off"
        /\ ~c.dfc /\ OneReceived(c)
    <3> DEFINE reset == SoftReset(spi)
    <3>1. reset \in Channel /\ Keeps(spi, reset) /\ SameWords(spi, reset) /\ OneReceived(reset)
      BY <1>1, Registers, RegisterWords
    <3>2. c = [reset EXCEPT !.iCurrTransaction = t, !.iCurrSS = SlaveAddr[t]]
      BY DEF Configured
    <3> HIDE DEF c, reset
    <3>3. c \in Channel
      BY <1>4, <3>1, <3>2 DEF Channel
    <3>4. /\ c.iCurrTransaction = t /\ c.iCurrSS = SlaveAddr[t]
          /\ c.selected = reset.selected /\ c.iState = reset.iState /\ c.timer = reset.timer
          /\ c.dfc = reset.dfc /\ c.receive = reset.receive /\ c.rxFull = reset.rxFull
          /\ c.shifting = reset.shifting
      BY <3>1, <3>2 DEF Channel
    <3> QED
      BY <1>1, <1>2, <3>1, <3>3, <3>4 DEF Keeps, SameWords, Quiet, OneReceived
  <2>2. /\ spi' = res.s
        /\ last' = IF res.r # KErrNone THEN Ended(t, res.s, res.r) ELSE last
    BY <1>4 DEF DoRequest
  <2> HIDE DEF c
  <2>3. GoesOn(c, res)
    BY <1>4, <2>1, ProcessWords
  <2> HIDE DEF res
  <2>4. AllCounted(spi')
    BY <2>2, <2>3 DEF GoesOn
  <2>5. last' = last \/ last'.err # KErrNone
    BY <2>2 DEF Ended
  <2> QED
    BY <2>4, <2>5, NoSuccess
<1> QED
  BY <1>3, <1>4

\* TransferEndDfc() finds the words of the current column all moved.
LEMMA DfcWords ==
    ASSUME ColumnsFit, IInv, WordsInv, TransferEndDfc
    PROVE  WordsInv'
<1> DEFINE a == [spi EXCEPT !.dfc = FALSE]
           b == SetCsInactive(a)
           ended == DisableChannel(b, 0)
           next == ProcessNextTransfers(ended)
<1>0. spi \in Channel /\ AllCounted(spi) /\ spi.dfc
  BY DEF IInv, WordsInv, TransferEndDfc
<1>1. spi.iState = "EBusy"
  BY <1>0 DEF AllCounted, Channel
<1>2. /\ current \in Transactions /\ current # None
      /\ spi.iCurrTransaction = current /\ SlaveAddr[current] \in Slaves
      /\ spi.iCurrSS = SlaveAddr[current] /\ spi.selected \subseteq {spi.iCurrSS}
  BY <1>1, BusyServes
<1>3. /\ a \in Channel /\ a.iCurrTransaction = current /\ a.iCurrSS = spi.iCurrSS
      /\ a.selected = spi.selected /\ a.iState = "EBusy" /\ ~a.dfc
      /\ a.at = spi.at /\ a.sent = spi.sent /\ a.got = spi.got /\ a.receive = spi.receive
      /\ a.rxFull = spi.rxFull /\ a.shifting = spi.shifting
  BY <1>0, <1>1, <1>2 DEF Channel
<1> HIDE DEF a
<1>4. b \in Channel /\ SameWords(a, b) /\ SamePipe(a, b)
  BY <1>3, Registers, RegisterWords
<1>5. b.selected = {} /\ b.iCurrSS = SlaveAddr[current]
  <2>1. b = [a EXCEPT !.selected = @ \ {a.iCurrSS}, !.somi = @ /\ a.iCurrSS # -1]
    BY <1>3, Registers
  <2>2. b.selected = a.selected \ {a.iCurrSS} /\ b.iCurrSS = a.iCurrSS
    BY <1>3, <2>1 DEF Channel
  <2> QED
    BY <1>2, <1>3, <2>2
<1>6. OneReceived(b)
  BY <1>0, <1>3, <1>4 DEF AllCounted, OneReceived, SamePipe
<1> HIDE DEF b
<1>7. ended \in Channel /\ Keeps(b, ended) /\ SameWords(b, ended) /\ OneReceived(ended)
  BY <1>4, <1>6, Registers, RegisterWords
<1>8. /\ IF next.r # KErrNone
         THEN /\ spi' = ExitComplete(next.s, next.r)
              /\ CompleteRequest(spi', next.r)
         ELSE /\ spi' = next.s
              /\ IF next.s.iState = "EIdle" THEN CompleteRequest(spi', KErrNone)
                 ELSE UNCHANGED pilVars
  BY <1>1 DEF TransferEndDfc, ended, a, b
<1> HIDE DEF ended
<1>9. /\ ended.iCurrTransaction = current /\ ended.iCurrSS = SlaveAddr[current]
      /\ ended.selected = {} /\ ended.iState = "EBusy" /\ ~ended.dfc
      /\ ended.at = spi.at /\ ended.sent = spi.sent /\ ended.got = spi.got
  BY <1>3, <1>4, <1>5, <1>7 DEF Keeps, SameWords
<1>10. ColumnDone(ended)
  <2>1. spi.at \in 1..Len(Transfers[current]) /\ Counted(spi, ColumnOf(spi))
    BY <1>0, <1>1, <1>2 DEF AllCounted
  <2>2. spi.sent \in Nat /\ spi.got \in Nat
    BY <1>0 DEF Channel
  <2>3. /\ spi.sent + 0 = WordsUpTo(current, "write")[spi.at]
        /\ spi.got + 0 = WordsUpTo(current, "read")[spi.at]
    BY <1>0, <1>2, <2>1 DEF Counted
  <2> QED
    BY <1>9, <2>1, <2>2, <2>3 DEF ColumnDone
<1>11. GoesOn(ended, next) /\ Proceeds(ended, next)
  BY <1>2, <1>7, <1>9, <1>10, ProcessWords, Processes
<1> HIDE DEF next
<1>12. CASE next.r # KErrNone
  <2>1. next.s \in Channel /\ Quiet(next.s) /\ next.r \in Results
    BY <1>11, <1>12 DEF Proceeds, Results
  <2>2. Rests(next.s, ExitComplete(next.s, next.r))
    BY <1>12, <2>1, ExitRests DEF Quiet
  <2>3. AllCounted(spi')
    BY <1>8, <1>12, <2>2 DEF Rests, AllCounted
  <2>4. last' = Ended(current, spi', next.r)
    BY <1>2, <1>8, <1>12 DEF CompleteRequest
  <2>5. last'.err # KErrNone
    BY <1>12, <2>4 DEF Ended
  <2> QED
    BY <2>3, <2>5, NoSuccess
<1>13. CASE next.r = KErrNone
  <2>1. AllCounted(spi') /\ spi' = next.s
    BY <1>8, <1>11, <1>13 DEF GoesOn
  <2>2. CASE next.s.iState = "EIdle"
    <3>1. last' = Ended(current, spi', KErrNone)
      BY <1>2, <1>8, <1>13, <2>2 DEF CompleteRequest
    <3>2. last'.t = current /\ last'.sent = spi'.sent /\ last'.got = spi'.got
      BY <3>1 DEF Ended
    <3>3. spi'.sent = Total(current, "write") /\ spi'.got = Total(current, "read")
      BY <1>9, <1>11, <1>13, <2>1, <2>2 DEF GoesOn
    <3> QED
      BY <2>1, <3>2, <3>3 DEF WordsInv, SuccessMovedAll, Total, WordsUpTo
  <2>3. CASE next.s.iState # "EIdle"
    BY <1>8, <1>13, <2>1, <2>3, NoSuccess DEF pilVars
  <2> QED
    BY <2>2, <2>3
<1> QED
  BY <1>12, <1>13

\* A timeout ends the request without success.
LEMMA TimeoutWords ==
    ASSUME IInv, WordsInv, HandleSlaveTimeout
    PROVE  WordsInv'
<1> DEFINE a == [spi EXCEPT !.timer = "off"]
<1>0. KErrTimedOut # KErrNone /\ KErrTimedOut \in Results
  BY DEF KErrTimedOut, KErrNone, Results
<1>1. spi \in Channel /\ spi.iState = "EBusy"
  BY DEF IInv, Serves, HandleSlaveTimeout
<1>2. a \in Channel /\ a.selected = spi.selected /\ a.iCurrSS = spi.iCurrSS
  BY <1>1 DEF Channel
<1>3. spi.selected \subseteq {spi.iCurrSS} /\ current # None
  BY <1>1, BusyServes
<1>4. spi' = ExitComplete(a, KErrTimedOut) /\ last' = Ended(current, spi', KErrTimedOut)
  BY <1>3 DEF HandleSlaveTimeout, CompleteRequest
<1> HIDE DEF a
<1>5. Rests(a, ExitComplete(a, KErrTimedOut))
  BY <1>0, <1>2, <1>3, ExitRests
<1>6. AllCounted(spi')
  BY <1>4, <1>5 DEF Rests, AllCounted
<1>7. last'.err # KErrNone
  BY <1>0, <1>4 DEF Ended
<1> QED
  BY <1>6, <1>7, NoSuccess

\* The timer has nothing to do with the words.
LEMMA ExpiresWords ==
    ASSUME IInv, WordsInv, TimerExpires
    PROVE  WordsInv'
<1>1. spi \in Channel /\ spi' = [spi EXCEPT !.timer = "expired"] /\ last' = last
  BY DEF IInv, TimerExpires, pilVars
<1>2. SameWords(spi, spi') /\ SamePipe(spi, spi')
  BY <1>1 DEF Channel, SameWords, SamePipe
<1>3. AllCounted(spi')
  BY <1>2, SameCounts DEF WordsInv
<1> QED
  BY <1>1, <1>3, NoSuccess

\* The ISR has read the status; its part for words out, and then that for words in.
Taken(s, col) ==
    /\ s \in Channel /\ s.status = {} /\ s.iState = "EBusy" /\ OneReceived(s)
    /\ Counted(s, col)

\* The part for words out: of a full-duplex column the next word is handed over.
LEMMA TxWords ==
    ASSUME NEW col \in Column, NEW s \in Channel, s.iState = "EBusy", OneReceived(s),
           Counted(s, col), "tx" \in s.status
    PROVE  LET r == IsrTx([s EXCEPT !.status = {}])
           IN  /\ Taken(r, col) /\ r.at = s.at /\ r.iCurrTransaction = s.iCurrTransaction
               /\ r.rxFull = s.rxFull /\ r.op = s.op
<1> DEFINE k == [s EXCEPT !.status = {}]
           r == IsrTx(k)
<1> SUFFICES /\ Taken(r, col) /\ r.at = s.at /\ r.iCurrTransaction = s.iCurrTransaction
             /\ r.rxFull = s.rxFull /\ r.op = s.op
  OBVIOUS
<1>1. k \in Channel /\ SameWords(s, k) /\ k.status = {} /\ OneReceived(k)
      /\ k.txFull = s.txFull /\ k.shifting = s.shifting /\ k.rxFull = s.rxFull
      /\ k.receive = s.receive
  BY DEF Channel, SameWords, OneReceived
<1> HIDE DEF k
<1>2. /\ k.txLeft \in Nat /\ k.rxLeft \in Nat /\ k.sent \in Nat /\ k.got \in Nat
      /\ {k.txFull, k.shifting, k.rxFull} \subseteq BOOLEAN
  BY <1>1 DEF Channel
<1>3. CASE "tx" \notin k.op
  <2>1. r = [k EXCEPT !.txFull = TRUE]
    BY <1>3 DEF IsrTx
  <2> HIDE DEF r
  <2>2. r \in Channel /\ SameWords(k, r) /\ r.status = {} /\ r.rxFull = k.rxFull
        /\ r.receive = k.receive /\ r.shifting = k.shifting
    BY <1>1, <2>1 DEF Channel, SameWords
  <2>3. col.full = None /\ ~Sends(col)
    BY <1>1, <1>3 DEF Counted, Sends, SameWords
  <2>4. Counted(r, col)
    BY <1>1, <2>2, <2>3 DEF Counted, SameWords
  <2>5. OneReceived(r)
    BY <1>1, <2>2 DEF OneReceived
  <2> QED
    BY <1>1, <2>2, <2>4, <2>5 DEF Taken, SameWords
<1>4. CASE "tx" \in k.op
  <2> DEFINE w == IF MoreToSend(k) THEN WriteWord(k) ELSE k
  <2>1. r = IF TxDone(w) THEN EndTransfer(w) ELSE w
    BY <1>4 DEF IsrTx
  <2>2. w \in Channel
    BY <1>1, <1>2, WordWritten DEF MoreToSend
  <2>3. /\ w.iCurrTransaction = s.iCurrTransaction /\ w.at = s.at /\ w.op = s.op
        /\ w.rxLeft = s.rxLeft /\ w.got = s.got /\ w.iState = s.iState /\ w.dfc = s.dfc
        /\ w.receive = s.receive /\ w.shifting = s.shifting /\ w.rxFull = s.rxFull
        /\ w.status = {}
        /\ w.txLeft = (IF k.txLeft > 0 THEN s.txLeft - 1 ELSE s.txLeft)
        /\ w.sent = (IF k.txLeft > 0 THEN s.sent + 1 ELSE s.sent)
        /\ w.txFull = (IF k.txLeft > 0 THEN TRUE ELSE s.txFull)
    <3>1. CASE k.txLeft > 0
      <4>1. w = [k EXCEPT !.txFull = TRUE, !.txLeft = k.txLeft - 1, !.sent = k.sent + 1]
        BY <3>1 DEF MoreToSend, WriteWord
      <4> HIDE DEF w
      <4> QED
        BY <1>1, <3>1, <4>1 DEF Channel, SameWords
    <3>2. CASE ~(k.txLeft > 0)
      <4>1. w = k
        BY <3>2 DEF MoreToSend
      <4> HIDE DEF w
      <4> QED
        BY <1>1, <3>2, <4>1 DEF SameWords
    <3> QED
      BY <3>1, <3>2
  <2> HIDE DEF w
  <2>4. Sends(col) /\ s.txLeft \in Nat /\ s.sent \in Nat /\ s.rxLeft \in Nat /\ k.txLeft = s.txLeft
        /\ {s.txFull, s.shifting, s.rxFull} \subseteq BOOLEAN
    BY <1>1, <1>2, <1>4 DEF Counted, SameWords
  <2>5. w.sent + w.txLeft = s.sent + s.txLeft
    BY <2>3, <2>4
  <2>6. InStep(s) => InStep(w)
    BY <2>3, <2>4 DEF InStep, One
  <2>7. Counted(w, col)
    <3>1. w.dfc => (Sends(col) => w.txLeft = 0) /\ (Receives(col) => w.rxLeft = 0)
      BY <2>3, <2>4 DEF Counted
    <3>2. /\ w.sent + (IF Sends(col) THEN w.txLeft ELSE 0)
                 = WordsUpTo(w.iCurrTransaction, "write")[w.at]
          /\ w.got + (IF Receives(col) THEN w.rxLeft ELSE 0)
                 = WordsUpTo(w.iCurrTransaction, "read")[w.at]
      BY <2>3, <2>4, <2>5 DEF Counted
    <3> QED
      BY <2>3, <2>6, <3>1, <3>2 DEF Counted
  <2>8. OneReceived(w)
    BY <2>3 DEF OneReceived
  <2>9. CASE ~TxDone(w)
    BY <2>1, <2>2, <2>3, <2>7, <2>8, <2>9 DEF Taken
  <2>10. CASE TxDone(w)
    <3>1. r = [w EXCEPT !.irq = FALSE, !.dfc = TRUE]
      BY <2>1, <2>10 DEF EndTransfer
    <3> HIDE DEF r
    <3>2. r \in Channel
      BY <2>2, <3>1 DEF Channel
    <3>3. /\ r.iCurrTransaction = w.iCurrTransaction /\ r.at = w.at /\ r.op = w.op
          /\ r.rxLeft = w.rxLeft /\ r.got = w.got /\ r.iState = w.iState
          /\ r.receive = w.receive /\ r.shifting = w.shifting /\ r.rxFull = w.rxFull
          /\ r.status = w.status /\ r.txLeft = w.txLeft /\ r.sent = w.sent
          /\ r.txFull = w.txFull
      BY <2>2, <3>1 DEF Channel
    <3>4. w.txLeft = 0 /\ ~Receives(col) /\ col.full = None
      BY <2>7, <2>10 DEF TxDone, Counted, Receives
    <3>5. Counted(r, col)
      BY <2>7, <3>3, <3>4 DEF Counted
    <3>6. OneReceived(r)
      BY <2>8, <3>3 DEF OneReceived
    <3> QED
      BY <2>3, <3>2, <3>3, <3>5, <3>6 DEF Taken
  <2> QED
    BY <2>9, <2>10
<1> QED
  BY <1>3, <1>4

\* The part for words in: when the last of a full-duplex column is collected, the last
\* word out was handed over before.
LEMMA RxWords ==
    ASSUME NEW col \in Column, NEW s, Taken(s, col), col.full # None => s.rxFull
    PROVE  LET r == IsrRx(s)
           IN  Taken(r, col) /\ r.at = s.at /\ r.iCurrTransaction = s.iCurrTransaction
<1> DEFINE r == IsrRx(s)
<1> SUFFICES Taken(r, col) /\ r.at = s.at /\ r.iCurrTransaction = s.iCurrTransaction
  OBVIOUS
<1>1. /\ s \in Channel /\ s.status = {} /\ s.iState = "EBusy" /\ OneReceived(s)
      /\ Counted(s, col) /\ s.txLeft \in Nat /\ s.rxLeft \in Nat /\ s.sent \in Nat
      /\ s.got \in Nat /\ {s.txFull, s.shifting, s.rxFull} \subseteq BOOLEAN
  BY DEF Taken, Channel
<1>2. CASE "rx" \notin s.op
  BY <1>2 DEF IsrRx
<1>3. CASE "rx" \in s.op
  <2> DEFINE w == IF s.rxLeft > 0 THEN ReadWord(s) ELSE s
  <2>1. r = IF w.rxLeft = 0 THEN EndTransfer(w) ELSE w
    BY <1>3 DEF IsrRx
  <2>2. w \in Channel
    BY <1>1, WordRead
  <2>3. /\ w.iCurrTransaction = s.iCurrTransaction /\ w.at = s.at /\ w.op = s.op
        /\ w.txLeft = s.txLeft /\ w.sent = s.sent /\ w.iState = s.iState /\ w.dfc = s.dfc
        /\ w.receive = s.receive /\ w.shifting = s.shifting /\ w.txFull = s.txFull
        /\ w.status = {}
        /\ w.rxLeft = (IF s.rxLeft > 0 THEN s.rxLeft - 1 ELSE s.rxLeft)
        /\ w.got = (IF s.rxLeft > 0 THEN s.got + 1 ELSE s.got)
        /\ w.rxFull = (IF s.rxLeft > 0 THEN FALSE ELSE s.rxFull)
    <3>1. CASE s.rxLeft > 0
      <4>1. w = [s EXCEPT !.rxFull = FALSE, !.rxLeft = s.rxLeft - 1, !.got = s.got + 1]
        BY <3>1 DEF ReadWord
      <4> HIDE DEF w
      <4> QED
        BY <1>1, <3>1, <4>1 DEF Channel
    <3>2. CASE ~(s.rxLeft > 0)
      <4>1. w = s
        BY <3>2
      <4> HIDE DEF w
      <4> QED
        BY <1>1, <3>2, <4>1
    <3> QED
      BY <3>1, <3>2
  <2> HIDE DEF w
  <2>4. Receives(col)
    BY <1>1, <1>3 DEF Counted
  <2>5. w.got + w.rxLeft = s.got + s.rxLeft
    BY <1>1, <2>3
  <2>6. col.full # None =>
            InStep(w) /\ (w.rxLeft = 0 => w.txLeft = 0)
    <3>1. SUFFICES ASSUME col.full # None
                   PROVE  InStep(w) /\ (w.rxLeft = 0 => w.txLeft = 0)
      OBVIOUS
    <3>2. InStep(s) /\ s.rxFull
      BY <1>1, <3>1 DEF Counted
    <3>3. InStep(w)
      BY <1>1, <2>3, <3>2 DEF InStep, One
    <3>4. w.rxLeft = 0 => w.txLeft = 0
      BY <1>1, <2>3, <3>2 DEF InStep, One
    <3> QED
      BY <3>3, <3>4
  <2>7. Counted(w, col)
    <3>1. w.dfc => (Sends(col) => w.txLeft = 0) /\ (Receives(col) => w.rxLeft = 0)
      BY <1>1, <2>3, <2>4 DEF Counted
    <3>2. /\ w.sent + (IF Sends(col) THEN w.txLeft ELSE 0)
                 = WordsUpTo(w.iCurrTransaction, "write")[w.at]
          /\ w.got + (IF Receives(col) THEN w.rxLeft ELSE 0)
                 = WordsUpTo(w.iCurrTransaction, "read")[w.at]
      BY <1>1, <2>3, <2>4, <2>5 DEF Counted
    <3> QED
      BY <1>1, <2>3, <2>6, <3>1, <3>2 DEF Counted
  <2>8. OneReceived(w)
    BY <1>1, <2>3 DEF OneReceived
  <2>9. CASE w.rxLeft # 0
    BY <1>1, <2>1, <2>2, <2>3, <2>7, <2>8, <2>9 DEF Taken
  <2>10. CASE w.rxLeft = 0
    <3>1. r = [w EXCEPT !.irq = FALSE, !.dfc = TRUE]
      BY <2>1, <2>10 DEF EndTransfer
    <3> HIDE DEF r
    <3>2. r \in Channel
      BY <2>2, <3>1 DEF Channel
    <3>3. /\ r.iCurrTransaction = w.iCurrTransaction /\ r.at = w.at /\ r.op = w.op
          /\ r.rxLeft = w.rxLeft /\ r.got = w.got /\ r.iState = w.iState
          /\ r.receive = w.receive /\ r.shifting = w.shifting /\ r.rxFull = w.rxFull
          /\ r.status = w.status /\ r.txLeft = w.txLeft /\ r.sent = w.sent
          /\ r.txFull = w.txFull
      BY <2>2, <3>1 DEF Channel
    <3>4. Sends(col) => w.txLeft = 0
      <4>1. CASE col.full # None
        BY <2>6, <2>10, <4>1
      <4>2. CASE col.full = None
        <5>1. col.type = "read"
          BY <2>4, <4>2 DEF Receives
        <5> QED
          BY <4>2, <5>1 DEF Sends
      <4> QED
        BY <4>1, <4>2
    <3>5. InStep(w) => InStep(r)
      BY <3>3 DEF InStep
    <3>6. Counted(r, col)
      BY <2>7, <2>10, <3>3, <3>4, <3>5 DEF Counted
    <3>7. OneReceived(r)
      BY <2>8, <3>3 DEF OneReceived
    <3> QED
      BY <1>1, <2>3, <3>2, <3>3, <3>6, <3>7 DEF Taken
  <2> QED
    BY <2>9, <2>10
<1> QED
  BY <1>2, <1>3

\* The ISR counts every word it moves.
LEMMA IsrWords ==
    ASSUME IInv, WordsInv, Isr
    PROVE  WordsInv'
<1> DEFINE taken == [spi EXCEPT !.status = {}]
           tx == IF "tx" \in spi.status THEN IsrTx(taken) ELSE taken
           rx == IF "rx" \in spi.status THEN IsrRx(tx) ELSE tx
           col == ColumnOf(spi)
<1>1. spi \in Channel /\ spi' = rx /\ last' = last /\ spi.irq /\ AllCounted(spi)
  BY DEF IInv, WordsInv, Isr, pilVars
<1>2. spi.iState = "EBusy"
  BY <1>1 DEF AllCounted, Channel
<1>3. /\ spi.at \in 1..Len(Transfers[spi.iCurrTransaction])
      /\ Counted(spi, col) /\ OneReceived(spi)
  BY <1>1, <1>2 DEF AllCounted
<1>4. col \in Column
  <2>1. Transfers[spi.iCurrTransaction] \in Seq(Column)
    BY <1>2, BusyServes, SpiAssumption
  <2> QED
    BY <1>3, <2>1 DEF ColumnOf
<1> HIDE DEF col
<1>5. Taken(tx, col) /\ tx.at = spi.at /\ tx.iCurrTransaction = spi.iCurrTransaction
      /\ tx.rxFull = spi.rxFull
  <2>1. CASE "tx" \in spi.status
    <3>1. LET r == IsrTx([spi EXCEPT !.status = {}])
          IN  /\ Taken(r, col) /\ r.at = spi.at /\ r.iCurrTransaction = spi.iCurrTransaction
              /\ r.rxFull = spi.rxFull /\ r.op = spi.op
      BY <1>1, <1>2, <1>3, <1>4, <2>1, TxWords
    <3> QED
      BY <2>1, <3>1
  <2>2. CASE "tx" \notin spi.status
    <3>1. taken \in Channel /\ SameWords(spi, taken) /\ taken.status = {}
          /\ taken.txFull = spi.txFull /\ taken.shifting = spi.shifting
          /\ taken.rxFull = spi.rxFull /\ taken.receive = spi.receive
      BY <1>1 DEF Channel, SameWords
    <3> HIDE DEF taken
    <3>2. InStep(spi) => InStep(taken)
      BY <2>2, <3>1 DEF InStep, SameWords
    <3>3. Counted(taken, col)
      BY <1>3, <3>1, <3>2 DEF Counted, SameWords
    <3>4. OneReceived(taken)
      BY <1>3, <3>1 DEF OneReceived
    <3> QED
      BY <1>2, <2>2, <3>1, <3>3, <3>4 DEF Taken, SameWords
  <2> QED
    BY <2>1, <2>2
<1> HIDE DEF taken, tx
<1>6. Taken(rx, col) /\ rx.at = spi.at /\ rx.iCurrTransaction = spi.iCurrTransaction
  <2>1. CASE "rx" \in spi.status
    <3>1. col.full # None => tx.rxFull
      BY <1>3, <1>5, <2>1 DEF Counted, InStep
    <3>2. Taken(IsrRx(tx), col) /\ IsrRx(tx).at = tx.at
          /\ IsrRx(tx).iCurrTransaction = tx.iCurrTransaction
      BY <1>4, <1>5, <3>1, RxWords
    <3> QED
      BY <1>5, <2>1, <3>2
  <2>2. CASE "rx" \notin spi.status
    BY <1>5, <2>2
  <2> QED
    BY <2>1, <2>2
<1> HIDE DEF rx
<1>7. AllCounted(spi')
  <2>1. ColumnOf(rx) = col
    BY <1>6 DEF ColumnOf, col
  <2> QED
    BY <1>1, <1>3, <1>6, <2>1 DEF Taken, AllCounted
<1> QED
  BY <1>1, <1>7, NoSuccess

\* The controller takes a word from its register, or has sent it and received another.
LEMMA HardwareWords ==
    ASSUME IInv, WordsInv, HwLoad \/ HwShifted
    PROVE  WordsInv'
<1>1. spi \in Channel /\ last' = last /\ AllCounted(spi)
  BY DEF IInv, WordsInv, HwLoad, HwShifted, pilVars
<1>2. spi.txLeft \in Nat /\ spi.rxLeft \in Nat
      /\ {spi.txFull, spi.shifting, spi.rxFull, spi.receive} \subseteq BOOLEAN
  BY <1>1 DEF Channel
<1>3. OneReceived(spi)
  BY <1>1 DEF AllCounted
<1>4. SameWords(spi, spi') /\ OneReceived(spi') /\ (InStep(spi) => InStep(spi'))
  <2>1. CASE HwLoad
    <3>1. spi' = [spi EXCEPT !.txFull = FALSE, !.shifting = TRUE,
                             !.status = spi.status \cup {"tx"}]
          /\ spi.txFull /\ ~spi.shifting /\ (spi.receive => ~spi.rxFull)
      BY <2>1 DEF HwLoad
    <3>2. SameWords(spi, spi')
      BY <1>1, <3>1 DEF Channel, SameWords
    <3>3. /\ spi'.txFull = FALSE /\ spi'.shifting = TRUE /\ spi'.rxFull = spi.rxFull
          /\ spi'.receive = spi.receive /\ spi'.status = spi.status \cup {"tx"}
      BY <1>1, <3>1 DEF Channel
    <3>4. OneReceived(spi')
      BY <1>3, <3>1, <3>3 DEF OneReceived
    <3>5. InStep(spi) => InStep(spi')
      BY <1>2, <3>1, <3>2, <3>3 DEF InStep, One, SameWords
    <3> QED
      BY <3>2, <3>4, <3>5
  <2>2. CASE HwShifted
    <3> DEFINE status == IF spi.receive THEN spi.status \cup {"rx"} ELSE spi.status
    <3>1. spi' = [spi EXCEPT !.shifting = FALSE, !.rxFull = spi.receive, !.status = status]
          /\ spi.shifting
      BY <2>2 DEF HwShifted
    <3>2. /\ "rx" \in status => spi.receive \/ "rx" \in spi.status
          /\ "tx" \in spi.status => "tx" \in status
      OBVIOUS
    <3> HIDE DEF status
    <3>3. SameWords(spi, spi')
      BY <1>1, <3>1 DEF Channel, SameWords
    <3>4. /\ spi'.txFull = spi.txFull /\ spi'.shifting = FALSE /\ spi'.rxFull = spi.receive
          /\ spi'.receive = spi.receive /\ spi'.status = status
      BY <1>1, <3>1 DEF Channel
    <3>5. OneReceived(spi')
      BY <3>4 DEF OneReceived
    <3>6. InStep(spi) => InStep(spi')
      <4>1. ~spi.rxFull
        BY <1>3, <3>1 DEF OneReceived
      <4> QED
        BY <1>2, <3>1, <3>2, <3>3, <3>4, <4>1 DEF InStep, One, SameWords
    <3> QED
      BY <3>3, <3>5, <3>6
  <2> QED
    BY <2>1, <2>2
<1>5. AllCounted(spi')
  <2>1. ColumnOf(spi') = ColumnOf(spi)
    BY <1>4 DEF ColumnOf, SameWords
  <2>2. ASSUME NEW col, Counted(spi, col) PROVE Counted(spi', col)
    BY <1>4, <2>2 DEF Counted, SameWords
  <2> QED
    BY <1>1, <1>4, <2>1, <2>2 DEF AllCounted, SameWords
<1> QED
  BY <1>1, <1>5, NoSuccess

\* Success means that every word of every buffer has been handed to the controller or
\* collected from it, once: for any transactions, of any numbers of columns and of words,
\* and any number of slaves, if a full-duplex column is of as many words in both directions.
THEOREM SuccessIsWhole ==
    ASSUME ColumnsFit
    PROVE  Spec => []SuccessMovedAll
<1>1. Init => IInv /\ WordsInv
  <2> SUFFICES ASSUME Init PROVE WordsInv
    BY Initially
  <2>1. spi.iState = "EIdle" /\ ~spi.dfc /\ ~spi.irq /\ ~spi.rxFull /\ ~spi.shifting
        /\ last.t = None
    BY DEF Init
  <2> QED
    BY <2>1 DEF WordsInv, AllCounted, OneReceived, SuccessMovedAll
<1>2. IInv /\ WordsInv /\ [Next]_vars => (IInv /\ WordsInv)'
  <2> SUFFICES ASSUME IInv, WordsInv, [Next]_vars PROVE WordsInv'
    BY StepKeeps
  <2>1. CASE UNCHANGED vars
    <3>1. spi' = spi /\ last' = last
      BY <2>1 DEF vars
    <3>2. AllCounted(spi')
      BY <3>1 DEF WordsInv
    <3> QED
      BY <3>1, <3>2, NoSuccess
  <2> QED
    BY <2>1, DoRequestWords, DfcWords, ExpiresWords, TimeoutWords, IsrWords, HardwareWords
       DEF Next
<1>3. WordsInv => SuccessMovedAll
  BY DEF WordsInv
<1> QED
  BY <1>1, <1>2, <1>3, PTL DEF Spec
=============================================================================
