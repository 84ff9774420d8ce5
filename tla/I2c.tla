-------------------------------- MODULE I2c --------------------------------
(***************************************************************************)
(* One unit of the OMAP3530 I2C driver (omap3530_drivers/i2c/i2c.cpp):     *)
(* the table of open slave devices, the queue of transfers, the DFC and    *)
(* the ISR that drive the active transfer, and its completion.  The three  *)
(* units share no state, so one unit is the whole driver.                  *)
(*                                                                         *)
(* Threads: every client is a driver thread, the DFC is a thread of its    *)
(* own, and the ISR may come between any two steps.  The controller and    *)
(* the kernel's semaphores are outside the driver and modelled from how    *)
(* it uses them.                                                           *)
(***************************************************************************)
EXTENDS Integers, Sequences, FiniteSets

CONSTANTS
    Clients,            \* driver threads; each opens one slave device
    Address,            \* [Clients -> slave addresses]
    Config,             \* [Clients -> (role, mode, rate, exclusive client)]
    Supported,          \* the configurations the first Open() accepts
    Xfers,              \* transfer parameter blocks (first phase)
    Owner,              \* [Xfers -> Clients]
    SyncXfers,          \* those passed to TransferS(); the rest to TransferA()
    Phases,             \* [Xfers -> Seq([type, len])], linked by iNextPhase
    KMaxDevicesPerUnit,
    Threshold,          \* bytes per RRDY/XRDY, (I2C_BUF & 0x3f) + 1
    BusFaults,          \* subset of {"nack", "addrnack", "al"} the bus may produce
    QuiescentClose,     \* TRUE: no Close() overlaps another client's transfer
    NoAddress

\* What the driver reads of a TTransferPb: iType and iLength.
PhaseBlock == [type : {"read", "write"}, len : Nat \ {0}]

ASSUME ConstAssumption ==
    /\ Address \in [Clients -> Int]
    /\ NoAddress \notin Int
    /\ Owner \in [Xfers -> Clients]
    /\ SyncXfers \subseteq Xfers
    /\ \A x, y \in SyncXfers : Owner[x] = Owner[y] => x = y
    /\ \A x \in SyncXfers, y \in Xfers \ SyncXfers : Owner[x] # Owner[y]
    /\ KMaxDevicesPerUnit \in Nat \ {0}
    /\ Threshold \in Nat \ {0}
    /\ Phases \in [Xfers -> Seq(PhaseBlock)]
    /\ \A x \in Xfers : Len(Phases[x]) > 0
    /\ QuiescentClose \in BOOLEAN

VARIABLES
    handle,         \* [Clients -> what Open() left in the client's handle]
    thread,         \* [Clients -> "run" | "submitted" | "blocked" |
                    \*  "woken" | "closing"]
    iOpenMutex,     \* the unit's open mutex is held
    iNumDevices,
    iDevice,        \* the slots of the device table; closing leaves old ones
    iConfig,        \* iRole, iMode, iExclusiveClient and iRate
    iSyncSem,       \* [slots -> semaphore: count and owning thread]
    iDcb,           \* [Xfers -> the slot the transfer was submitted with]
    iTransferQ,     \* linked list from iTransferQ to iTransferQTail
    iCurrentPhase,  \* <<transfer, phase index>>
    iState,
    iData,          \* [Xfers -> bytes moved through iData, per phase]
    iResult,        \* [Xfers -> the last result stored in the block]
    life,           \* [Xfers -> "owned" | "queued" | "popped" | "signalled"]
    dfcQueued,      \* iDfc is on its DFC queue
    dfcPc,          \* where the running TheDfc() is
    stat,           \* TheDfc()'s stat, the I2C_STAT value it last read
    bound, enabled, \* Interrupt::Bind / Interrupt::Enable of the unit's IRQ
    hw              \* the controller

unitVars   == <<iOpenMutex, iNumDevices, iDevice, iConfig>>
clientVars == <<handle, thread>>
queueVars  == <<iTransferQ, iCurrentPhase, iState>>
blockVars  == <<iDcb, iData, iResult, life>>
dfcVars    == <<dfcQueued, dfcPc, stat>>
irqVars    == <<bound, enabled>>
vars == <<unitVars, clientVars, queueVars, blockVars, dfcVars, irqVars,
          iSyncSem, hw>>

KErrNone    == "KErrNone"
KErrGeneral == "KErrGeneral"
OpenErrors  == {"KErrArgument", "KErrInUse", "KErrTooBig"}
Slots       == 0..KMaxDevicesPerUnit      \* the last one lies past the array
StatBits    == {"nack", "al", "ardy", "rdr", "rrdy", "xdr", "xrdy", "bf"}
DataBits    == {"rdr", "rrdy", "xdr", "xrdy"}
Phase(p)    == Phases[p[1]][p[2]]
\* Mutant: iNextPhase is ignored.
LastPhase_Ignored(p) == TRUE
LastPhase(p) == p[2] = Len(Phases[p[1]])
Zeros(x)    == [k \in 1..Len(Phases[x]) |-> 0]

HwReset == [run |-> FALSE, busy |-> FALSE, cnt |-> 0, type |-> "read",
            mst |-> FALSE, stp |-> FALSE, sa |-> NoAddress, stat |-> {},
            clock |-> TRUE, fault |-> FALSE]

Init ==
    /\ handle = [c \in Clients |-> "closed"]
    /\ thread = [c \in Clients |-> "run"]
    /\ iOpenMutex = FALSE
    /\ iNumDevices = 0
    /\ iDevice = [s \in Slots |-> NoAddress]
    /\ iConfig = "none"
    /\ iSyncSem = [s \in Slots |-> [count |-> 0, owner |-> {}]]
    /\ iDcb = [x \in Xfers |-> 0]
    /\ iTransferQ = <<>>
    /\ iCurrentPhase = <<>>
    /\ iState = "EIdle"
    /\ iData = [x \in Xfers |-> Zeros(x)]
    /\ iResult = [x \in Xfers |-> KErrNone]
    /\ life = [x \in Xfers |-> "owned"]
    /\ dfcQueued = FALSE
    /\ dfcPc = "out"
    /\ stat = {}
    /\ bound = FALSE
    /\ enabled = FALSE
    /\ hw = [HwReset EXCEPT !.clock = FALSE]

-----------------------------------------------------------------------------
(* Open and close *)

Idle(c) == thread[c] = "run" /\ \A x \in Xfers : Owner[x] = c => life[x] = "owned"

\* Open() of the first device: the configuration is stored, the unit is
\* configured and the interrupt bound.
OpenFirst(c) ==
    /\ Idle(c) /\ handle[c] # "open" /\ ~iOpenMutex
    /\ iNumDevices = 0
    /\ IF Config[c] \in Supported
       THEN /\ iConfig' = Config[c]
            /\ iDevice' = [iDevice EXCEPT ![0] = Address[c]]
            /\ iNumDevices' = 1
            /\ handle' = [handle EXCEPT ![c] = "open"]
            /\ hw' = HwReset
            /\ bound' = TRUE
       ELSE /\ handle' = [handle EXCEPT ![c] = "KErrArgument"]
            /\ UNCHANGED <<iConfig, iDevice, iNumDevices, hw, bound>>
    /\ UNCHANGED <<iOpenMutex, thread, queueVars, blockVars, dfcVars, enabled,
                   iSyncSem>>

OpenError(c) ==
    CASE iNumDevices >= KMaxDevicesPerUnit -> "KErrTooBig"
      [] iNumDevices < KMaxDevicesPerUnit
         /\ \/ iConfig # Config[c]
            \/ \E i \in 0..(iNumDevices - 1) : iDevice[i] = Address[c]
           -> "KErrInUse"
      [] OTHER -> "open"

OpenAnother(c) ==
    /\ Idle(c) /\ handle[c] # "open" /\ ~iOpenMutex
    /\ iNumDevices > 0
    /\ handle' = [handle EXCEPT ![c] = OpenError(c)]
    /\ IF OpenError(c) = "open"
       THEN /\ iDevice' = [iDevice EXCEPT ![iNumDevices] = Address[c]]
            /\ iNumDevices' = iNumDevices + 1
       ELSE UNCHANGED <<iDevice, iNumDevices>>
    /\ UNCHANGED <<iOpenMutex, iConfig, thread, queueVars, blockVars, dfcVars,
                   irqVars, iSyncSem, hw>>

\* The slot DeviceCb() finds; when the address is not in the table the loop
\* runs off the open devices.
DeviceCb(c) ==
    LET found == {i \in 0..(iNumDevices - 1) : iDevice[i] = Address[c]}
    IN  IF found = {} THEN iNumDevices
        ELSE CHOOSE i \in found : \A j \in found : i <= j

UnitQuiet == \A x \in Xfers : life[x] = "owned"

\* Close() takes the mutex and drops the device ...
CloseFind(c) ==
    /\ Idle(c) /\ handle[c] = "open" /\ ~iOpenMutex
    /\ QuiescentClose => UnitQuiet
    /\ iOpenMutex' = TRUE
    /\ iNumDevices' = iNumDevices - 1
    /\ thread' = [thread EXCEPT ![c] = "closing"]
    /\ UNCHANGED <<handle, iDevice, iConfig, queueVars, blockVars, dfcVars,
                   irqVars, iSyncSem, hw>>

\* The slot whose content Close() leaves in slot s when it removes slot old.
\* Mutant: one slot too few is moved.
MovedFrom_Short(old, s) == IF s \in (old + 1)..(iNumDevices - 1) THEN s + 1 ELSE s
MovedFrom(old, s) == IF s \in old..(iNumDevices - 1) THEN s + 1 ELSE s

\* ... then moves the later slots down over it, semaphores included, and
\* shuts the unit down with its last device.
CloseShift(c) ==
    LET old == CHOOSE i \in Slots :
                    /\ iDevice[i] = Address[c]
                    /\ \A j \in Slots : j < i => iDevice[j] # Address[c]
    IN  /\ thread[c] = "closing"
        /\ iDevice' = [s \in Slots |-> iDevice[MovedFrom(old, s)]]
        /\ iSyncSem' = [s \in Slots |-> iSyncSem[MovedFrom(old, s)]]
        /\ bound' = (bound /\ iNumDevices # 0)
        /\ hw' = [hw EXCEPT !.clock = @ /\ iNumDevices # 0]
        /\ handle' = [handle EXCEPT ![c] = "closed"]
        /\ thread' = [thread EXCEPT ![c] = "run"]
        /\ iOpenMutex' = FALSE
        /\ UNCHANGED <<iNumDevices, iConfig, queueVars, blockVars, dfcVars,
                       enabled>>

-----------------------------------------------------------------------------
(* Submitting a transfer *)

AddToQueue(x) ==
    IF iTransferQ = <<>>
    THEN /\ iTransferQ' = <<x>>
         /\ iCurrentPhase' = <<x, 1>>
         /\ dfcQueued' = TRUE
    ELSE /\ iTransferQ' = Append(iTransferQ, x)
         /\ UNCHANGED <<iCurrentPhase, dfcQueued>>

CanTransfer(x) ==
    /\ handle[Owner[x]] = "open" /\ thread[Owner[x]] = "run" /\ life[x] = "owned"
    /\ QuiescentClose => ~iOpenMutex

\* The block as the caller hands it over, with its iData at "data".
Submit(x, data) ==
    /\ life' = [life EXCEPT ![x] = "queued"]
    /\ iData' = [iData EXCEPT ![x] = data]
    /\ iDcb' = [iDcb EXCEPT ![x] = DeviceCb(Owner[x])]
    /\ AddToQueue(x)
    /\ UNCHANGED <<unitVars, iResult, iState, handle, dfcPc, stat, irqVars, hw>>

\* TransferS() up to the wait: FSSetOwner makes the caller the owner of the
\* semaphore in its slot.
TransferS(x, data) ==
    /\ x \in SyncXfers /\ CanTransfer(x)
    /\ Submit(x, data)
    /\ iSyncSem' = [iSyncSem EXCEPT ![DeviceCb(Owner[x])].owner = {Owner[x]}]
    /\ thread' = [thread EXCEPT ![Owner[x]] = "submitted"]

\* FSWait in TransferS(); TransferS() returns once the semaphore is signalled.
FSWait(x) ==
    /\ x \in SyncXfers /\ thread[Owner[x]] = "submitted"
    /\ iSyncSem' = [iSyncSem EXCEPT ![iDcb[x]].count = @ - 1]
    /\ thread' = [thread EXCEPT ![Owner[x]] =
                    IF iSyncSem[iDcb[x]].count > 0 THEN "woken" ELSE "blocked"]
    /\ UNCHANGED <<unitVars, handle, queueVars, blockVars, dfcVars, irqVars, hw>>

TransferSReturn(c) ==
    /\ thread[c] = "woken"
    /\ thread' = [thread EXCEPT ![c] = "run"]
    /\ life' = [x \in Xfers |->
                    IF x \in SyncXfers /\ Owner[x] = c THEN "owned" ELSE life[x]]
    /\ UNCHANGED <<unitVars, handle, queueVars, iDcb, iData, iResult, dfcVars,
                   irqVars, iSyncSem, hw>>

TransferA(x, data) ==
    /\ x \in Xfers \ SyncXfers /\ CanTransfer(x)
    /\ Submit(x, data)
    /\ UNCHANGED <<iSyncSem, thread>>

\* The completion DFC runs on the client's thread: the block is the client's.
CompletionDfc(x) ==
    /\ x \in Xfers \ SyncXfers /\ life[x] = "signalled"
    /\ life' = [life EXCEPT ![x] = "owned"]
    /\ UNCHANGED <<unitVars, clientVars, queueVars, iDcb, iData, iResult,
                   dfcVars, irqVars, iSyncSem, hw>>

-----------------------------------------------------------------------------
(* TheDfc: starting a phase *)

\* Case EIdle: program the controller for the current phase and enable the
\* interrupt.  The bus must be free for a first phase.
DfcStart ==
    LET x == Head(iTransferQ)
        ph == Phase(iCurrentPhase)
        first == iCurrentPhase = <<x, 1>>
    IN  /\ dfcQueued /\ dfcPc = "out" /\ iState = "EIdle"
        /\ dfcQueued' = FALSE
        /\ hw' = [hw EXCEPT !.run = TRUE, !.busy = TRUE, !.cnt = ph.len,
                            !.type = ph.type, !.mst = TRUE,
                            !.stp = LastPhase(iCurrentPhase),
                            !.sa = iDevice[iDcb[x]],
                            !.fault = @ \/ (first /\ hw.busy)]
        /\ iState' = IF ph.type = "read" THEN "ERead" ELSE "EWrite"
        /\ enabled' = TRUE
        /\ UNCHANGED <<unitVars, clientVars, iTransferQ, iCurrentPhase,
                       blockVars, dfcPc, stat, bound, iSyncSem>>

(* TheDfc: cases ERead and EWrite, one action per way round the loop *)

DfcEnter ==
    /\ dfcQueued /\ dfcPc = "out" /\ iState # "EIdle"
    /\ dfcQueued' = FALSE
    /\ dfcPc' = "loop"
    /\ stat' = hw.stat
    /\ UNCHANGED <<unitVars, clientVars, queueVars, blockVars, irqVars,
                   iSyncSem, hw>>

\* The first half of Complete(): result and state, before the lock is taken.
\* TheDfc() returns from here without enabling the interrupt.
StartComplete(result) ==
    /\ iResult' = [iResult EXCEPT ![Head(iTransferQ)] = result]
    /\ iState' = "EIdle"
    /\ dfcPc' = "complete"
    /\ stat' = {}
    /\ UNCHANGED enabled

\* Mutant: the failed transfer is not reset away.
Configured_NoReset == [hw EXCEPT !.stat = @ \ {"nack"}]
Configured == [HwReset EXCEPT !.sa = hw.sa, !.fault = hw.fault]

\* No acknowledge: the unit is reset and the transfer fails.
LoopNack ==
    /\ dfcPc = "loop" /\ "nack" \in stat
    /\ hw' = Configured
    /\ StartComplete(KErrGeneral)
    /\ UNCHANGED <<unitVars, clientVars, iTransferQ, iCurrentPhase, iDcb,
                   iData, life, dfcQueued, bound, iSyncSem>>

\* Arbitration lost: the controller has left master mode.
Lost == "al" \in stat /\ ~hw.mst /\ ~hw.stp
ClearAl == IF "al" \in stat THEN {"al"} ELSE {}

LoopArbitrationLost ==
    /\ dfcPc = "loop" /\ "nack" \notin stat /\ Lost
    /\ hw' = [hw EXCEPT !.stat = @ \ {"al"}, !.stp = TRUE]
    /\ StartComplete(KErrGeneral)
    /\ UNCHANGED <<unitVars, clientVars, iTransferQ, iCurrentPhase, iDcb,
                   iData, life, dfcQueued, bound, iSyncSem>>

\* Access ready, another phase follows: it is started by a fresh DFC.
LoopNextPhase ==
    /\ dfcPc = "loop" /\ "nack" \notin stat /\ ~Lost /\ "ardy" \in stat
    /\ ~LastPhase(iCurrentPhase)
    /\ hw' = [hw EXCEPT !.stat = @ \ ({"ardy"} \union ClearAl)]
    /\ iCurrentPhase' = <<iCurrentPhase[1], iCurrentPhase[2] + 1>>
    /\ iState' = "EIdle"
    /\ dfcQueued' = TRUE
    /\ dfcPc' = "out"
    /\ stat' = {}
    /\ UNCHANGED <<unitVars, clientVars, iTransferQ, blockVars, irqVars,
                   iSyncSem>>

\* Access ready after the last phase: the transfer has succeeded.
LoopDone ==
    /\ dfcPc = "loop" /\ "nack" \notin stat /\ ~Lost /\ "ardy" \in stat
    /\ LastPhase(iCurrentPhase)
    /\ hw' = [hw EXCEPT !.stat = @ \ ({"ardy"} \union ClearAl)]
    /\ StartComplete(KErrNone)
    /\ UNCHANGED <<unitVars, clientVars, iTransferQ, iCurrentPhase, iDcb,
                   iData, life, dfcQueued, bound, iSyncSem>>

\* The FIFO is served: a "draining" bit moves what is left, a "ready" bit
\* Threshold bytes.  Then I2C_STAT is read again, and the loop ends when no
\* interrupt bit is set.
Moved(bits) ==
    IF bits \cap {"rdr", "xdr"} # {} THEN hw.cnt
    ELSE IF bits \cap {"rrdy", "xrdy"} # {} THEN Threshold ELSE 0

\* Mutant: the interrupt stays disabled after the loop.
LoopEnd_NoEnable(left) == UNCHANGED enabled
\* Mutant: the interrupt is enabled although the loop goes on.
LoopEnd_Always(left) == enabled' = TRUE
LoopEnd(left) == enabled' = (enabled \/ left = {})

LoopData ==
    LET served == stat \cap DataBits
        left == hw.stat \ (served \union ClearAl)
        wrongWay == IF iState = "ERead" THEN {"xdr", "xrdy"} ELSE {"rdr", "rrdy"}
    IN  /\ dfcPc = "loop" /\ stat \cap {"nack", "ardy"} = {} /\ ~Lost
        /\ iData' = [iData EXCEPT ![iCurrentPhase[1]][iCurrentPhase[2]] =
                                        @ + Moved(served)]
        /\ hw' = [hw EXCEPT !.stat = left, !.cnt = @ - Moved(served),
                            !.fault = @ \/ served \cap wrongWay # {}]
        /\ stat' = left
        /\ dfcPc' = IF left = {} THEN "out" ELSE "loop"
        /\ LoopEnd(left)
        /\ UNCHANGED <<unitVars, clientVars, queueVars, iDcb, iResult, life,
                       dfcQueued, bound, iSyncSem>>

\* Mutant: the whole list is dropped with its head.
Dequeued_All == <<>>
Dequeued == Tail(iTransferQ)

\* Complete(), under the lock: the head leaves the queue.  Nothing starts
\* the transfer behind it.
CompletePop ==
    /\ dfcPc = "complete"
    /\ life' = [life EXCEPT ![Head(iTransferQ)] = "popped"]
    /\ iTransferQ' = Dequeued
    /\ dfcPc' = "out"
    /\ UNCHANGED <<unitVars, clientVars, iCurrentPhase, iState, iDcb, iData,
                   iResult, dfcQueued, stat, irqVars, iSyncSem, hw>>

\* The end of Complete(), outside the lock.  A new transfer may already have
\* queued the DFC, on another thread.  FSSignal readies the semaphore's owner.
SignalSync(x) ==
    LET sem == iSyncSem[iDcb[x]]
    IN  /\ x \in SyncXfers /\ life[x] = "popped"
        /\ life' = [life EXCEPT ![x] = "signalled"]
        /\ iSyncSem' = [iSyncSem EXCEPT ![iDcb[x]].count = @ + 1]
        /\ thread' = [c \in Clients |->
                IF sem.count < 0 /\ c \in sem.owner /\ thread[c] = "blocked"
                THEN "woken" ELSE thread[c]]
        /\ UNCHANGED <<unitVars, handle, queueVars, iDcb, iData, iResult,
                       dfcVars, irqVars, hw>>

EnqueCompletion(x) ==
    /\ x \in Xfers \ SyncXfers /\ life[x] = "popped"
    /\ life' = [life EXCEPT ![x] = "signalled"]
    /\ UNCHANGED <<unitVars, clientVars, queueVars, iDcb, iData, iResult,
                   dfcVars, irqVars, iSyncSem, hw>>

-----------------------------------------------------------------------------
(* The interrupt and the controller *)

TheIsr ==
    /\ enabled /\ bound /\ hw.clock /\ hw.stat # {}
    /\ enabled' = FALSE
    /\ dfcQueued' = TRUE
    /\ UNCHANGED <<unitVars, clientVars, queueVars, blockVars, dfcPc, stat,
                   bound, iSyncSem, hw>>

Hw(next) ==
    /\ hw.clock /\ hw' = next
    /\ UNCHANGED <<unitVars, clientVars, queueVars, blockVars, dfcVars,
                   irqVars, iSyncSem>>

\* The FIFO has a threshold's worth of bytes to move, or the last few.
HwFifo ==
    /\ hw.run /\ hw.cnt > 0 /\ hw.stat \cap DataBits = {}
    /\ LET full == hw.cnt >= Threshold
           bit == IF hw.type = "read" THEN IF full THEN "rrdy" ELSE "rdr"
                                      ELSE IF full THEN "xrdy" ELSE "xdr"
       IN  Hw([hw EXCEPT !.stat = @ \union {bit}])

\* All bytes of the phase are through; with STP the bus is released too.
HwReady ==
    /\ hw.run /\ hw.cnt = 0 /\ hw.stat \cap DataBits = {}
    /\ Hw([hw EXCEPT !.run = FALSE, !.busy = ~hw.stp,
            !.stat = @ \union (IF hw.stp THEN {"ardy", "bf"} ELSE {"ardy"})])

\* A slave may refuse at any time; "addrnack" is only its address, before the
\* first byte of a transfer was asked for.
HwNack ==
    /\ hw.run
    /\ \/ "nack" \in BusFaults
       \/ /\ "addrnack" \in BusFaults /\ hw.stat \cap DataBits = {}
          /\ iCurrentPhase[2] = 1 /\ hw.cnt = Phase(iCurrentPhase).len
    /\ Hw([hw EXCEPT !.run = FALSE, !.stat = @ \union {"nack"}])

\* Another master wins the bus, or the bit is seen with the controller still
\* master (the code tests for both).
HwArbitrationLost ==
    /\ "al" \in BusFaults /\ hw.run /\ "al" \notin hw.stat
    /\ \/ Hw([hw EXCEPT !.run = FALSE, !.mst = FALSE, !.stp = FALSE,
                        !.stat = @ \union {"al"}])
       \/ Hw([hw EXCEPT !.stat = @ \union {"al"}])

OtherMasterStops ==
    /\ hw.busy /\ ~hw.run /\ ~hw.mst
    /\ Hw([hw EXCEPT !.busy = FALSE])

-----------------------------------------------------------------------------

DfcSteps == \/ DfcStart \/ DfcEnter
            \/ LoopNack \/ LoopArbitrationLost \/ LoopNextPhase \/ LoopDone
            \/ LoopData
            \/ CompletePop
            \/ \E x \in Xfers : SignalSync(x) \/ EnqueCompletion(x)
HwProgress == HwFifo \/ HwReady \/ OtherMasterStops

Next ==
    /\ ~hw.fault
    /\ \/ \E c \in Clients : \/ OpenFirst(c) \/ OpenAnother(c)
                             \/ CloseFind(c) \/ CloseShift(c)
                             \/ TransferSReturn(c)
       \/ \E x \in Xfers : \/ TransferS(x, Zeros(x)) \/ FSWait(x)
                           \/ TransferA(x, Zeros(x)) \/ CompletionDfc(x)
       \/ DfcSteps
       \/ TheIsr
       \/ HwProgress \/ HwNack \/ HwArbitrationLost

Spec == Init /\ [][Next]_vars

\* The DFC threads and the completion DFCs are scheduled, a thread inside
\* TransferS() or Close() runs on, a pending enabled interrupt is taken, and
\* the controller goes on with a transfer it has been given.
Fairness ==
    /\ WF_vars(DfcSteps)
    /\ WF_vars(TheIsr)
    /\ WF_vars(HwProgress)
    /\ \A x \in Xfers : WF_vars(FSWait(x)) /\ WF_vars(CompletionDfc(x))
    /\ \A c \in Clients : WF_vars(TransferSReturn(c)) /\ WF_vars(CloseShift(c))
FairSpec == Spec /\ Fairness

-----------------------------------------------------------------------------
(* Properties *)

Semaphores == [count : Int, owner : SUBSET Clients]
Controllers ==
    [run : BOOLEAN, busy : BOOLEAN, cnt : Int, type : {"read", "write"},
     mst : BOOLEAN, stp : BOOLEAN, sa : Int \union {NoAddress},
     stat : SUBSET StatBits, clock : BOOLEAN, fault : BOOLEAN]

\* The values the driver's state can take.
TypeOK ==
    /\ handle \in [Clients -> {"closed", "open"} \union OpenErrors]
    /\ thread \in [Clients -> {"run", "submitted", "blocked", "woken", "closing"}]
    /\ iOpenMutex \in BOOLEAN
    /\ iNumDevices \in 0..KMaxDevicesPerUnit
    /\ iDevice \in [Slots -> Int \union {NoAddress}]
    /\ iSyncSem \in [Slots -> Semaphores]
    /\ iDcb \in [Xfers -> Slots]
    /\ iTransferQ \in Seq(Xfers)
    /\ iState \in {"EIdle", "ERead", "EWrite"}
    /\ iResult \in [Xfers -> {KErrNone, KErrGeneral}]
    /\ life \in [Xfers -> {"owned", "queued", "popped", "signalled"}]
    /\ dfcQueued \in BOOLEAN
    /\ dfcPc \in {"out", "loop", "complete"}
    /\ stat \subseteq StatBits
    /\ bound \in BOOLEAN /\ enabled \in BOOLEAN
    /\ hw \in Controllers

Working == iState # "EIdle" \/ dfcQueued \/ dfcPc # "out" \/ enabled

\* While the driver works on a transfer, that transfer is the head of the
\* queue and the current phase is one of its phases ("the active transfer is
\* the head of the queue", i2c.cpp:84).
ActiveIsHead ==
    Working => /\ iTransferQ # <<>>
               /\ iCurrentPhase[1] = Head(iTransferQ)
               /\ iCurrentPhase[2] \in 1..Len(Phases[Head(iTransferQ)])

\* A block is on the queue exactly from its submission until Complete() takes
\* it off, and never twice: the list cannot be tied into a loop.
QueueHoldsSubmitted ==
    /\ \A i, j \in 1..Len(iTransferQ) : iTransferQ[i] = iTransferQ[j] => i = j
    /\ \A x \in Xfers : life[x] = "queued" <=>
                            \E i \in 1..Len(iTransferQ) : iTransferQ[i] = x

\* The interrupt is enabled only while the controller works for the driver and
\* no DFC is due: an interrupt never finds the unit idle, unbound or with its
\* clock off, and Enque() never meets a DFC that is running the state machine.
InterruptDiscipline ==
    enabled => /\ iState # "EIdle" /\ ~dfcQueued /\ dfcPc = "out"
               /\ bound /\ hw.clock

Finished(x) == life[x] \in {"popped", "signalled"}

\* A transfer reported as KErrNone has moved every byte of every phase, and
\* none moves a byte more than its length, whatever bits came together.
SuccessMovedAll ==
    \A x \in Xfers :
        /\ \A k \in 1..Len(Phases[x]) : iData[x][k] <= Phases[x][k].len
        /\ Finished(x) /\ iResult[x] = KErrNone =>
                \A k \in 1..Len(Phases[x]) : iData[x][k] = Phases[x][k].len

\* The slave addressed on the bus is the one the active transfer's client
\* opened (iAddress, i2c.cpp:49), across opens and closes of other devices.
RightSlave == hw.run => hw.sa = Address[Owner[Head(iTransferQ)]]

\* A thread returns from TransferS() only after its own transfer was completed.
WokenByOwnTransfer ==
    \A x \in SyncXfers : thread[Owner[x]] = "woken" => life[x] = "signalled"

\* Outside Close() the open handles and the slots of the device table match one
\* to one: no device is lost or doubled when the slots are moved down.
TableMatchesHandles ==
    LET open == {c \in Clients : handle[c] = "open"}
        slots == 0..(iNumDevices - 1)
    IN  ~iOpenMutex =>
            /\ \A c \in open : \E i \in slots : iDevice[i] = Address[c]
            /\ \A i \in slots : \E c \in open : iDevice[i] = Address[c]
            /\ \A i, j \in slots : iDevice[i] = iDevice[j] => i = j
            /\ \A c, d \in open : Address[c] = Address[d] => c = d

\* No kernel assertion of TheDfc() fails: the bus is free when a transfer
\* starts (i2c.cpp:411), and the FIFO asks in the phase's direction only.
NoAssertion == ~hw.fault

\* Every queued transfer is being worked on or waits behind one that is
\* (i2c.cpp:84): the queue never stands still with transfers on it.
HeadIsActive ==
    iTransferQ # <<>> => Working /\ iCurrentPhase[1] = Head(iTransferQ)

\* A submitted transfer is completed and its client gets the block back.
Completes == \A x \in Xfers : life[x] = "queued" ~> life[x] = "owned"

\* The driver is a first-in first-out service: transfers finish in the order
\* of their submission, each once, and each block goes back to its client once.
Status(x) == CASE life[x] = "owned" -> "owned"
               [] life[x] = "queued" -> "queued"
               [] OTHER -> "done"
Fifo == INSTANCE TransferQueue WITH Items <- Xfers, queue <- iTransferQ,
                                    status <- [x \in Xfers |-> Status(x)]
IsFifo == Fifo!Spec
=============================================================================
