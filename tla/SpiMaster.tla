----------------------------- MODULE SpiMaster -----------------------------
(***************************************************************************)
(* One channel of the SPI master driver (omap3530_drivers/spi/master.cpp,  *)
(* SINGLE_MODE, no FIFO): DoRequest(), the ISR, TransferEndDfc() and       *)
(* HandleSlaveTimeout(), under the kernel's IIC layer (the PIL), which     *)
(* queues transactions, starts their timer and is told of their end.       *)
(*                                                                         *)
(* DoRequest(), the DFC and the timeout run one at a time on the channel's *)
(* DFC queue.  The ISR preempts them only where the interrupt is enabled:  *)
(* DoTransfer() enables it last, both ISR paths that queue the DFC disable *)
(* it first, and a word handled between the start of HandleSlaveTimeout()  *)
(* and its Interrupt::Disable() might as well be handled before.  So each  *)
(* is one step.  The state of driver and controller is the record spi, and *)
(* the functions of the driver are operators from record to record.        *)
(***************************************************************************)
EXTENDS Integers, SequencesExt

CONSTANTS
    Transactions,
    SlaveAddr,      \* [Transactions -> slave addresses]
    Transfers,      \* [Transactions -> Seq(Column)]: the linked transfers
    NumSlaves,      \* KMcSpiNumSupportedSlaves[iChannelNumber]
    None

Slaves == 0..(NumSlaves - 1)

\* The half-duplex transfer, and the words of the full-duplex transfer that runs
\* with it in the other direction.  No words: a buffer that is empty or not a
\* whole number of words.
Column == [type : {"read", "write"}, words : Nat, full : Nat \cup {None}]

ASSUME SpiAssumption ==
    /\ NumSlaves \in Nat \ {0}
    /\ SlaveAddr \in [Transactions -> Nat]
    /\ Transfers \in [Transactions -> Seq(Column)]
    /\ \A t \in Transactions : Len(Transfers[t]) > 0
    /\ None \notin Transactions \cup Nat

VARIABLES
    current,    \* the transaction the PIL has given to DoRequest()
    last,       \* the request that ended last: how, and the words moved
    stray,      \* CompleteRequest() was called with no request outstanding
    spi         \* the channel, see TypeOK

pilVars == <<current, last, stray>>
vars == <<current, last, stray, spi>>

KErrNone == "KErrNone"
KErrArgument == "KErrArgument"
KErrTimedOut == "KErrTimedOut"

Init ==
    /\ current = None
    /\ last = [t |-> None, err |-> KErrNone, sent |-> 0, got |-> 0]
    /\ stray = FALSE
    /\ spi = [iState |-> "EIdle", iCurrSS |-> -1, iCurrTransaction |-> None,
              at |-> 0,                 \* place of iHalfDTransfer in the list
              op |-> {},                \* iOperation: "tx", "rx"
              txLeft |-> 0, rxLeft |-> 0,   \* words up to iTxDataEnd, iRxDataEnd
              sent |-> 0, got |-> 0,    \* words moved for this transaction
              irq |-> FALSE, dfc |-> FALSE, timer |-> "off",
              enabled |-> {}, receive |-> FALSE, selected |-> {}, somi |-> TRUE,
              txFull |-> FALSE, shifting |-> FALSE, rxFull |-> FALSE,
              status |-> {}, ie |-> {}]

-----------------------------------------------------------------------------
(* The controller's registers, as the driver uses them *)

\* Soft reset of the module, at the start of ConfigureInterface() and after an
\* error.  The chip selects are pads and are not reset.
SoftReset(s) ==
    [s EXCEPT !.enabled = {}, !.receive = FALSE, !.txFull = FALSE,
              !.shifting = FALSE, !.rxFull = FALSE, !.status = {}, !.ie = {}]

\* MCSPI_CHxCTRL: what a channel holds is dropped when it is disabled.
DisableChannel(s, ch) ==
    IF ch \notin s.enabled THEN s
    ELSE [s EXCEPT !.enabled = @ \ {ch}, !.txFull = FALSE, !.shifting = FALSE,
                   !.rxFull = FALSE]

\* With iCurrSS at -1 the pad is iCs[-1], which is iSomi: the slaves' data line
\* becomes a GPIO until SetupSpiPins() is next called.
SetCsInactive(s) ==
    [s EXCEPT !.selected = @ \ {s.iCurrSS}, !.somi = @ /\ s.iCurrSS # -1]
SetCsActive(s) == [s EXCEPT !.selected = @ \cup {s.iCurrSS}]

-----------------------------------------------------------------------------
(* The functions of the driver *)

\* The interrupt is disabled, the timer and the DFC are cancelled.
Cancelled(s) == [s EXCEPT !.irq = FALSE, !.timer = "off", !.dfc = FALSE]

\* On an error the channel is reset.  A second error in a row finds iCurrSS at -1.
Released(s) ==
    [SoftReset(SetCsInactive(s)) EXCEPT !.iCurrSS = -1]

ExitComplete(s, err) ==
    [Cancelled(IF err = KErrNone THEN s ELSE Released(s)) EXCEPT !.iState = "EIdle"]

\* A word of the buffer is written to MCSPI_TXx.
WriteWord(s) == [s EXCEPT !.txFull = TRUE, !.txLeft = @ - 1, !.sent = @ + 1]

Enable(s, irqs) ==
    SetCsActive([s EXCEPT !.enabled = @ \cup {s.iCurrSS}, !.ie = @ \cup irqs, !.irq = TRUE])

\* DoTransfer(): a write hands over its first word.  A read alone relies on the
\* TX_EMPTY that enabling the channel raises; with a write it waits for that.
DoWrite(s) == WriteWord(Enable([s EXCEPT !.status = {}], {"tx"}))
DoRead(s, duplex) ==
    IF duplex THEN [s EXCEPT !.receive = TRUE, !.status = {}, !.ie = {"rx"}]
    ELSE Enable([s EXCEPT !.receive = TRUE, !.status = {"tx"}], {"tx", "rx"})

Ok(s) == [s |-> s, r |-> KErrNone]

\* Mutant: the error is not returned.
Refused_Silent(s) == Ok(ExitComplete(s, KErrArgument))
\* The buffer is not fit for the transfer.
Refused(s) == [s |-> ExitComplete(s, KErrArgument), r |-> KErrArgument]

StartTransfer(s, type, words, duplex) ==
    IF words = 0 THEN Refused(s)
    ELSE IF type = "write"
    THEN Ok(DoWrite([s EXCEPT !.txLeft = words, !.op = @ \cup {"tx"}]))
    ELSE Ok(DoRead([s EXCEPT !.rxLeft = words, !.op = @ \cup {"rx"}], duplex))

\* Of a full-duplex column the read is set up first.
StartColumn(s, col) ==
    IF col.full = None THEN StartTransfer(s, col.type, col.words, FALSE)
    ELSE LET reads == IF col.type = "read" THEN col.words ELSE col.full
             writes == IF col.type = "read" THEN col.full ELSE col.words
             read == StartTransfer(s, "read", reads, TRUE)
         IN  IF read.r # KErrNone THEN read
             ELSE StartTransfer(read.s, "write", writes, TRUE)

\* Mutant: the operation flags of the previous transfer stay set.
NextTransfer_KeepsFlags(s) ==
    [s EXCEPT !.at = IF s.iState = "EIdle" THEN 1 ELSE @ + 1]
\* The transfer to process: the list's first if the channel is idle.
NextTransfer(s) ==
    [s EXCEPT !.op = {}, !.at = IF s.iState = "EIdle" THEN 1 ELSE @ + 1]

\* The timer runs from the first transfer to ExitComplete().
Busy(s) ==
    IF s.iState = "EIdle"
    THEN [s EXCEPT !.iState = "EBusy", !.timer = "running", !.sent = 0, !.got = 0]
    ELSE s

LastDone(s) == s.at > Len(Transfers[s.iCurrTransaction])

ProcessNextTransfers(s) ==
    LET n == Busy(NextTransfer(s))
    IN  IF LastDone(n) THEN Ok(ExitComplete(n, KErrNone))
        ELSE StartColumn(n, Transfers[s.iCurrTransaction][n.at])

\* PrepareConfiguration() and ConfigureInterface().
Configured(s, t) ==
    [SoftReset(s) EXCEPT !.iCurrTransaction = t, !.iCurrSS = SlaveAddr[t]]

-----------------------------------------------------------------------------
(* The PIL, and the steps of the channel's thread *)

Ended(t, s, err) == [t |-> t, err |-> err, sent |-> s.sent, got |-> s.got]

\* The PIL gives any next transaction, which CheckHdr() has accepted, to an
\* idle channel.  An error that DoRequest() returns ends the request.
DoRequest(t) ==
    LET started == IF SlaveAddr[t] \notin Slaves
                   THEN [s |-> [spi EXCEPT !.iCurrTransaction = t], r |-> KErrArgument]
                   ELSE ProcessNextTransfers(Configured(spi, t))
        failed == started.r # KErrNone
    IN  /\ current = None
        /\ spi.iState = "EIdle"
        /\ spi' = started.s
        /\ current' = IF failed THEN None ELSE t
        /\ last' = IF failed THEN Ended(t, started.s, started.r) ELSE last
        /\ UNCHANGED stray

\* CompleteRequest(): the request the PIL has outstanding ends.
CompleteRequest(s, err) ==
    IF current = None
    THEN stray' = TRUE /\ UNCHANGED <<current, last>>
    ELSE /\ last' = Ended(current, s, err)
         /\ current' = None
         /\ UNCHANGED stray

\* The loops that should wait for the last word never do: their condition
\* is chanStatus & (expected != expected).  The channel that is disabled is
\* channel 0, whichever was used.
TransferEndDfc ==
    LET ended == DisableChannel(SetCsInactive([spi EXCEPT !.dfc = FALSE]), 0)
        next == ProcessNextTransfers(ended)
    IN  /\ spi.dfc
        /\ IF spi.iState # "EBusy"
           THEN spi' = ended /\ UNCHANGED pilVars
           ELSE IF next.r # KErrNone
           THEN /\ spi' = ExitComplete(next.s, next.r)
                /\ CompleteRequest(spi', next.r)
           ELSE /\ spi' = next.s
                /\ IF next.s.iState = "EIdle" THEN CompleteRequest(spi', KErrNone)
                   ELSE UNCHANGED pilVars

\* The transaction's timer, and the DFC with which the PIL calls back.
TimerExpires ==
    /\ spi.timer = "running"
    /\ spi' = [spi EXCEPT !.timer = "expired"]
    /\ UNCHANGED pilVars

HandleSlaveTimeout ==
    /\ spi.timer = "expired"
    /\ spi' = ExitComplete([spi EXCEPT !.timer = "off"], KErrTimedOut)
    /\ CompleteRequest(spi', KErrTimedOut)

-----------------------------------------------------------------------------
(* The ISR and the controller *)

\* Both ends of a transfer: the interrupt is disabled, the DFC queued.
EndTransfer(s) == [s EXCEPT !.irq = FALSE, !.dfc = TRUE]

\* Mutant: a transmission ends without regard to the reception.
TxDone_NoRx(s) == s.txLeft = 0
TxDone(s) == s.txLeft = 0 /\ "rx" \notin s.op

MoreToSend(s) == s.txLeft > 0

\* TX_EMPTY: the next word, or a dummy one to clock the slave's word in.
IsrTx(s) ==
    IF "tx" \notin s.op THEN [s EXCEPT !.txFull = TRUE]
    ELSE LET w == IF MoreToSend(s) THEN WriteWord(s) ELSE s
         IN  IF TxDone(w) THEN EndTransfer(w) ELSE w

\* A word is read from MCSPI_RXx into the buffer.
ReadWord(s) == [s EXCEPT !.rxFull = FALSE, !.rxLeft = @ - 1, !.got = @ + 1]

IsrRx(s) ==
    IF "rx" \notin s.op THEN s
    ELSE LET w == IF s.rxLeft > 0 THEN ReadWord(s) ELSE s
         IN  IF w.rxLeft = 0 THEN EndTransfer(w) ELSE w

Isr ==
    LET taken == [spi EXCEPT !.status = {}]
        tx == IF "tx" \in spi.status THEN IsrTx(taken) ELSE taken
    IN  /\ spi.irq /\ spi.status \cap spi.ie # {}
        /\ spi' = IF "rx" \in spi.status THEN IsrRx(tx) ELSE tx
        /\ UNCHANGED pilVars

\* The word in MCSPI_TXx moves to the shift register.  A master that receives
\* stops its clock while MCSPI_RXx is full; the driver has no other protection
\* against an overrun.
HwLoad ==
    /\ spi.txFull /\ ~spi.shifting /\ spi.iCurrSS \in spi.enabled
    /\ spi.receive => ~spi.rxFull
    /\ spi' = [spi EXCEPT !.txFull = FALSE, !.shifting = TRUE, !.status = @ \cup {"tx"}]
    /\ UNCHANGED pilVars

\* The word is on the wire, and the slave's word in MCSPI_RXx.
HwShifted ==
    /\ spi.shifting
    /\ spi' = [spi EXCEPT !.shifting = FALSE, !.rxFull = spi.receive,
                          !.status = IF spi.receive THEN @ \cup {"rx"} ELSE @]
    /\ UNCHANGED pilVars

-----------------------------------------------------------------------------
Next ==
    \/ \E t \in Transactions : DoRequest(t)
    \/ TransferEndDfc
    \/ TimerExpires \/ HandleSlaveTimeout
    \/ Isr
    \/ HwLoad \/ HwShifted

Spec == Init /\ [][Next]_vars

\* The channel's thread, the interrupt and the controller run; nothing says that
\* the timer ever expires, nor that there is another request.
FairSpec ==
    /\ Spec
    /\ WF_vars(TransferEndDfc) /\ WF_vars(HandleSlaveTimeout)
    /\ WF_vars(Isr) /\ WF_vars(HwLoad) /\ WF_vars(HwShifted)

-----------------------------------------------------------------------------
(* Properties *)

Flags == {"tx", "rx"}

TypeOK ==
    /\ current \in Transactions \cup {None}
    /\ last.t \in Transactions \cup {None}
    /\ last.err \in {KErrNone, KErrArgument, KErrTimedOut}
    /\ stray \in BOOLEAN
    /\ spi.iState \in {"EIdle", "EBusy"} /\ spi.iCurrSS \in Slaves \cup {-1}
    /\ spi.iCurrTransaction \in Transactions \cup {None} /\ spi.at \in Nat
    /\ spi.op \subseteq Flags /\ spi.status \subseteq Flags /\ spi.ie \subseteq Flags
    /\ {spi.txLeft, spi.rxLeft, spi.sent, spi.got, last.sent, last.got} \subseteq Nat
    /\ spi.timer \in {"off", "running", "expired"}
    /\ {spi.irq, spi.dfc, spi.receive, spi.txFull, spi.shifting, spi.rxFull, spi.somi}
           \subseteq BOOLEAN
    /\ spi.enabled \subseteq Slaves /\ spi.selected \subseteq Slaves

\* The channel serves one request: it is busy exactly while the PIL has a request
\* outstanding, with that request's transaction, and only that request's slave is
\* selected; no request is completed twice.  So it is whatever the order of the
\* timeout, the DFC and an error in the middle of the list.
OneRequest ==
    /\ ~stray
    /\ spi.selected \subseteq (IF current = None THEN {} ELSE {SlaveAddr[current]})
    /\ spi.iState = "EBusy" <=> current # None
    /\ current # None => spi.iCurrTransaction = current

\* The words of a column in one direction, of the first n columns, and of all of them.
Words(col, type) ==
    IF col.type = type THEN col.words ELSE IF col.full = None THEN 0 ELSE col.full
WordsUpTo(t, type) ==
    LET sum[n \in 0..Len(Transfers[t])] ==
            IF n = 0 THEN 0 ELSE sum[n - 1] + Words(Transfers[t][n], type)
    IN  sum
Total(t, type) == WordsUpTo(t, type)[Len(Transfers[t])]

\* Success means that every word of every buffer has been handed to the
\* controller or collected from it, once: no end of transfer was an earlier
\* transfer's.
SuccessMovedAll ==
    last.t # None /\ last.err = KErrNone =>
        last.sent = Total(last.t, "write") /\ last.got = Total(last.t, "read")

\* SetCsInactive() is never called for the slave address of a reset channel:
\* "don't try to use non-existing CS" (omap3530_spi.inl:30).
SomiConnected == spi.somi

\* Every request ends, and does not need its timer for that.
Completes == current # None ~> current = None
=============================================================================
