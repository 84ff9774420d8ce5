----------------------------- MODULE I2cProofs -----------------------------
(***************************************************************************)
(* Proofs about I2c and I2cReg for any clients, transfers, phases and bus  *)
(* faults, by the invariants of I2cInvariant.                              *)
(***************************************************************************)
EXTENDS I2cReg, I2cInvariant, TLAPS, SequenceTheorems

-----------------------------------------------------------------------------
(* Facts used throughout *)

\* The head of a non-empty queue is a transfer, and a step that appends leaves
\* it in place.
LEMMA HeadTail ==
    ASSUME TypeOK, iTransferQ # <<>>
    PROVE  /\ Head(iTransferQ) \in Xfers /\ Head(iTransferQ) = iTransferQ[1]
           /\ Len(iTransferQ) \in Nat /\ Len(iTransferQ) >= 1
           /\ Tail(iTransferQ) \in Seq(Xfers)
           /\ \A x \in Xfers : /\ Append(iTransferQ, x) # <<>>
                               /\ Head(Append(iTransferQ, x)) = Head(iTransferQ)
<1>1. iTransferQ \in Seq(Xfers)
  BY DEF TypeOK
<1>2. Head(iTransferQ) \in Xfers /\ Tail(iTransferQ) \in Seq(Xfers)
  BY <1>1
<1>3. Head(iTransferQ) = iTransferQ[1] /\ Len(iTransferQ) \in Nat /\ Len(iTransferQ) >= 1
  BY <1>1
<1>4. ASSUME NEW x \in Xfers
      PROVE  Append(iTransferQ, x) # <<>> /\ Append(iTransferQ, x)[1] = iTransferQ[1]
             /\ Append(iTransferQ, x) \in Seq(Xfers)
  BY <1>1, <1>3
<1>5. ASSUME NEW x \in Xfers
      PROVE  Head(Append(iTransferQ, x)) = Append(iTransferQ, x)[1]
  BY <1>4
<1> QED  BY <1>2, <1>3, <1>4, <1>5

\* The phase being worked on is a phase of the head of the queue.
LEMMA CurrentPhase ==
    ASSUME TypeOK, ActiveIsHead, Working
    PROVE  /\ iTransferQ # <<>> /\ iCurrentPhase[1] = Head(iTransferQ)
           /\ Phase(iCurrentPhase).type \in {"read", "write"}
           /\ Phase(iCurrentPhase).len \in Nat \ {0}
           /\ LastPhase(iCurrentPhase) \in BOOLEAN
<1>1. iTransferQ # <<>> /\ iCurrentPhase[1] = Head(iTransferQ)
      /\ Head(iTransferQ) \in Xfers
  BY HeadTail DEF ActiveIsHead
<1>2. Phases[Head(iTransferQ)] \in Seq(PhaseBlock)
  BY <1>1, ConstAssumption
<1>3. iCurrentPhase[2] \in 1..Len(Phases[Head(iTransferQ)])
  BY DEF ActiveIsHead
<1>4. Phases[Head(iTransferQ)][iCurrentPhase[2]] \in PhaseBlock
  BY <1>2, <1>3, ElementOfSeq
<1> QED  BY <1>1, <1>4 DEF LastPhase, Phase, PhaseBlock

\* The slot DeviceCb() returns for an open device is the device's own.
LEMMA DeviceCbFinds ==
    ASSUME TypeOK, TableInv, NEW c \in Clients, handle[c] = "open", ~iOpenMutex
    PROVE  /\ DeviceCb(c) \in 0..(iNumDevices - 1)
           /\ DeviceCb(c) \in Slots
           /\ iDevice[DeviceCb(c)] = Address[c]
<1> DEFINE found == {i \in 0..(iNumDevices - 1) : iDevice[i] = Address[c]}
<1>1. PICK i \in 0..(iNumDevices - 1) : iDevice[i] = Address[c]
  BY DEF TableInv, InUse, Open, TypeOK
<1>2. \A j \in 0..(iNumDevices - 1) : iDevice[j] = Address[c] => j = i
  BY <1>1 DEF TableInv, InUse, TypeOK
<1>3. found = {i}
  BY <1>1, <1>2
<1>4. i <= i
  BY <1>1 DEF TypeOK
<1>5. (CHOOSE k \in found : \A j \in found : k <= j) = i
  BY <1>3, <1>4
<1>6. DeviceCb(c) = i
  BY <1>3, <1>5 DEF DeviceCb
<1> QED  BY <1>1, <1>6, ConstAssumption DEF Slots, TypeOK

-----------------------------------------------------------------------------
(* Every step preserves the types *)

LEMMA HwResetTyped == HwReset \in Controllers
  BY DEF HwReset, Controllers

\* The controller's own steps change nothing but the controller.
LEMMA HwTyped ==
    ASSUME TypeOK, HwProgress \/ HwNack \/ HwArbitrationLost
    PROVE  /\ hw' \in Controllers
           /\ UNCHANGED <<unitVars, clientVars, queueVars, blockVars, dfcVars,
                          irqVars, iSyncSem>>
<1>1. hw \in Controllers
  BY DEF TypeOK
<1>2. CASE HwFifo
  BY <1>1, <1>2 DEF HwFifo, Hw, Controllers, StatBits
<1>3. CASE HwReady
  BY <1>1, <1>3 DEF HwReady, Hw, Controllers, StatBits
<1>4. CASE OtherMasterStops
  BY <1>1, <1>4 DEF OtherMasterStops, Hw, Controllers
<1>5. CASE HwNack
  BY <1>1, <1>5 DEF HwNack, Hw, Controllers, StatBits
<1>6. CASE HwArbitrationLost
  BY <1>1, <1>6 DEF HwArbitrationLost, Hw, Controllers, StatBits
<1> QED  BY <1>2, <1>3, <1>4, <1>5, <1>6 DEF HwProgress

LEMMA SemaphoreTyped ==
    ASSUME NEW s \in Semaphores
    PROVE  /\ [s EXCEPT !.count = @ - 1] \in Semaphores
           /\ [s EXCEPT !.count = @ + 1] \in Semaphores
  BY DEF Semaphores

LEMMA AddToQueueTyped ==
    ASSUME TypeOK, NEW x \in Xfers, AddToQueue(x)
    PROVE  iTransferQ' \in Seq(Xfers) /\ dfcQueued' \in BOOLEAN
<1>1. iTransferQ \in Seq(Xfers) /\ dfcQueued \in BOOLEAN
  BY DEF TypeOK
<1>2. CASE iTransferQ = <<>>
  <2>1. iTransferQ' = <<x>> /\ dfcQueued' = TRUE
    BY <1>2 DEF AddToQueue
  <2>2. <<x>> \in Seq(Xfers)
    OBVIOUS
  <2> QED  BY <2>1, <2>2
<1>3. CASE iTransferQ # <<>>
  BY <1>1, <1>3 DEF AddToQueue
<1> QED  BY <1>2, <1>3

LEMMA TypeStep ==
    ASSUME TypeOK, ActiveIsHead, TableInv, CloseInv, WorkInv, Next
    PROVE  TypeOK'
<1> USE DEF TypeOK, vars, unitVars, clientVars, queueVars, blockVars, dfcVars,
            irqVars
<1>1. ASSUME NEW c \in Clients, OpenFirst(c)  PROVE TypeOK'
  <2>1. Address[c] \in Int /\ 0 \in Slots /\ 1 \in 0..KMaxDevicesPerUnit
    BY ConstAssumption DEF Slots
  <2>2. HwReset \in Controllers
    BY HwResetTyped
  <2>3. CASE Config[c] \in Supported
    BY <1>1, <2>1, <2>2, <2>3 DEF OpenFirst, OpenErrors
  <2>4. CASE Config[c] \notin Supported
    BY <1>1, <2>4 DEF OpenFirst, OpenErrors
  <2> QED  BY <2>3, <2>4
<1>2. ASSUME NEW c \in Clients, OpenAnother(c)  PROVE TypeOK'
  <2>1. OpenError(c) \in {"open"} \union OpenErrors
        /\ (OpenError(c) = "open" => iNumDevices < KMaxDevicesPerUnit)
    BY ConstAssumption DEF OpenError, OpenErrors
  <2>2. Address[c] \in Int
    BY ConstAssumption
  <2>3. CASE OpenError(c) = "open"
    <3>1. iNumDevices \in Slots /\ iNumDevices + 1 \in 0..KMaxDevicesPerUnit
      BY <2>1, <2>3, ConstAssumption DEF Slots
    <3> QED  BY <1>2, <2>2, <2>3, <3>1 DEF OpenAnother
  <2>4. CASE OpenError(c) # "open"
    BY <1>2, <2>1, <2>4 DEF OpenAnother
  <2> QED  BY <2>3, <2>4
<1>3. ASSUME NEW c \in Clients, CloseFind(c)  PROVE TypeOK'
  <2>1. iNumDevices >= 1
    BY <1>3 DEF CloseFind, TableInv, Open, InUse
  <2> QED  BY <1>3, <2>1, ConstAssumption DEF CloseFind
<1>4. ASSUME NEW c \in Clients, CloseShift(c)  PROVE TypeOK'
  <2> DEFINE old == CHOOSE i \in Slots : /\ iDevice[i] = Address[c]
                        /\ \A j \in Slots : j < i => iDevice[j] # Address[c]
  <2>1. ASSUME NEW s \in Slots  PROVE MovedFrom(old, s) \in Slots
    BY <2>1, ConstAssumption DEF MovedFrom, Slots
  <2>2. /\ iDevice' = [s \in Slots |-> iDevice[MovedFrom(old, s)]]
        /\ iSyncSem' = [s \in Slots |-> iSyncSem[MovedFrom(old, s)]]
    BY <1>4 DEF CloseShift
  <2> HIDE DEF old
  <2>3. iDevice' \in [Slots -> Int \union {NoAddress}]
    BY <2>1, <2>2
  <2>4. iSyncSem' \in [Slots -> Semaphores]
    BY <2>1, <2>2
  <2>5. hw' \in Controllers
    BY <1>4 DEF CloseShift, Controllers
  <2> QED  BY <1>4, <2>3, <2>4, <2>5 DEF CloseShift
<1>5. ASSUME NEW x \in Xfers, TransferS(x, Zeros(x))  PROVE TypeOK'
  <2>1. Owner[x] \in Clients /\ handle[Owner[x]] = "open" /\ ~iOpenMutex
    BY <1>5, ConstAssumption, QuietAssumption DEF TransferS, CanTransfer
  <2>2. DeviceCb(Owner[x]) \in Slots
    BY <2>1, DeviceCbFinds
  <2>3. iTransferQ' \in Seq(Xfers)
    BY <1>5, AddToQueueTyped DEF TransferS, Submit
  <2>4. dfcQueued' \in BOOLEAN
    BY <1>5, AddToQueueTyped DEF TransferS, Submit
  <2>5. iSyncSem' \in [Slots -> Semaphores]
    <3>1. {Owner[x]} \in SUBSET Clients
      BY <2>1
    <3> QED  BY <1>5, <2>2, <3>1 DEF TransferS, Semaphores
  <2>6. /\ thread' \in [Clients -> {"run", "submitted", "blocked", "woken", "closing"}]
        /\ iDcb' \in [Xfers -> Slots]
        /\ life' \in [Xfers -> {"owned", "queued", "popped", "signalled"}]
    BY <1>5, <2>1, <2>2 DEF TransferS, Submit
  <2> QED  BY <1>5, <2>3, <2>4, <2>5, <2>6 DEF TransferS, Submit
<1>6. ASSUME NEW x \in Xfers, TransferA(x, Zeros(x))  PROVE TypeOK'
  <2>1. Owner[x] \in Clients /\ handle[Owner[x]] = "open" /\ ~iOpenMutex
    BY <1>6, ConstAssumption, QuietAssumption DEF TransferA, CanTransfer
  <2>2. DeviceCb(Owner[x]) \in Slots
    BY <2>1, DeviceCbFinds
  <2>3. iTransferQ' \in Seq(Xfers)
    BY <1>6, AddToQueueTyped DEF TransferA, Submit
  <2>4. dfcQueued' \in BOOLEAN
    BY <1>6, AddToQueueTyped DEF TransferA, Submit
  <2>5. /\ iDcb' \in [Xfers -> Slots]
        /\ life' \in [Xfers -> {"owned", "queued", "popped", "signalled"}]
    BY <1>6, <2>2 DEF TransferA, Submit
  <2> QED  BY <1>6, <2>3, <2>4, <2>5 DEF TransferA, Submit
<1>7. ASSUME NEW x \in Xfers, FSWait(x)  PROVE TypeOK'
  <2>1. iDcb[x] \in Slots
    OBVIOUS
  <2>2. iSyncSem' \in [Slots -> Semaphores]
    <3> DEFINE sem == iSyncSem[iDcb[x]]
    <3>1. sem \in Semaphores
      BY <2>1
    <3>2. [sem EXCEPT !.count = @ - 1] \in Semaphores
      BY <3>1, SemaphoreTyped
    <3>3. iSyncSem' = [iSyncSem EXCEPT ![iDcb[x]] = [sem EXCEPT !.count = @ - 1]]
      BY <1>7 DEF FSWait
    <3> QED  BY <2>1, <3>2, <3>3
  <2>3. thread' \in [Clients -> {"run", "submitted", "blocked", "woken", "closing"}]
    BY <1>7, ConstAssumption DEF FSWait
  <2> QED  BY <1>7, <2>2, <2>3 DEF FSWait
<1>8. ASSUME NEW c \in Clients, TransferSReturn(c)  PROVE TypeOK'
  BY <1>8 DEF TransferSReturn
<1>9. ASSUME NEW x \in Xfers, CompletionDfc(x)  PROVE TypeOK'
  BY <1>9 DEF CompletionDfc
<1>10. CASE DfcStart
  <2>1. Working
    BY <1>10 DEF DfcStart, Working
  <2>2. Phase(iCurrentPhase).type \in {"read", "write"}
        /\ Phase(iCurrentPhase).len \in Int /\ LastPhase(iCurrentPhase) \in BOOLEAN
        /\ Head(iTransferQ) \in Xfers
    BY <2>1, CurrentPhase, HeadTail
  <2>3. hw' \in Controllers
    BY <1>10, <2>2 DEF DfcStart, Controllers
  <2> QED  BY <1>10, <2>3 DEF DfcStart
<1>11. CASE DfcEnter
  <2>1. stat' \subseteq StatBits
    BY <1>11 DEF DfcEnter, Controllers
  <2> QED  BY <1>11, <2>1 DEF DfcEnter
<1>12. CASE LoopNack
  <2>1. hw' \in Controllers
    BY <1>12, HwResetTyped DEF LoopNack, Configured, Controllers
  <2> QED  BY <1>12, <2>1 DEF LoopNack, StartComplete
<1>13. CASE LoopArbitrationLost
  <2>1. hw' \in Controllers
    BY <1>13 DEF LoopArbitrationLost, Controllers
  <2> QED  BY <1>13, <2>1 DEF LoopArbitrationLost, StartComplete
<1>14. CASE LoopNextPhase
  <2>1. hw' \in Controllers
    BY <1>14 DEF LoopNextPhase, Controllers
  <2> QED  BY <1>14, <2>1 DEF LoopNextPhase
<1>15. CASE LoopDone
  <2>1. hw' \in Controllers
    BY <1>15 DEF LoopDone, Controllers
  <2> QED  BY <1>15, <2>1 DEF LoopDone, StartComplete
<1>16. CASE LoopData
  <2> DEFINE served == stat \cap DataBits
             left == hw.stat \ (served \union ClearAl)
  <2>1. PICK f : hw' = [hw EXCEPT !.stat = left, !.cnt = @ - Moved(served),
                                  !.fault = @ \/ f]
    BY <1>16 DEF LoopData
  <2>2. left \subseteq StatBits /\ hw.cnt \in Int /\ hw.fault \in BOOLEAN
    BY DEF Controllers
  <2>3. Moved(served) \in Int
    BY <2>2, ConstAssumption DEF Moved
  <2>4. hw.cnt - Moved(served) \in Int
    BY <2>2, <2>3
  <2>5. hw' \in Controllers
    BY <2>1, <2>2, <2>4 DEF Controllers
  <2>6. stat' = left /\ dfcPc' \in {"out", "loop", "complete"}
    BY <1>16 DEF LoopData
  <2>7. enabled' \in BOOLEAN
    BY <1>16 DEF LoopData, LoopEnd
  <2> QED  BY <1>16, <2>2, <2>5, <2>6, <2>7 DEF LoopData
<1>17. CASE CompletePop
  <2>1. Working
    BY <1>17 DEF CompletePop, Working
  <2>2. Tail(iTransferQ) \in Seq(Xfers)
    BY <2>1, HeadTail DEF ActiveIsHead
  <2> QED  BY <1>17, <2>2 DEF CompletePop, Dequeued
<1>18. ASSUME NEW x \in Xfers, SignalSync(x)  PROVE TypeOK'
  <2>1. iDcb[x] \in Slots
    OBVIOUS
  <2>2. iSyncSem' \in [Slots -> Semaphores]
    <3> DEFINE sem == iSyncSem[iDcb[x]]
    <3>1. sem \in Semaphores
      BY <2>1
    <3>2. [sem EXCEPT !.count = @ + 1] \in Semaphores
      BY <3>1, SemaphoreTyped
    <3>3. iSyncSem' = [iSyncSem EXCEPT ![iDcb[x]] = [sem EXCEPT !.count = @ + 1]]
      BY <1>18 DEF SignalSync
    <3> QED  BY <2>1, <3>2, <3>3
  <2>3. thread' \in [Clients -> {"run", "submitted", "blocked", "woken", "closing"}]
    BY <1>18 DEF SignalSync
  <2> QED  BY <1>18, <2>2, <2>3 DEF SignalSync
<1>19. ASSUME NEW x \in Xfers, EnqueCompletion(x)  PROVE TypeOK'
  BY <1>19 DEF EnqueCompletion
<1>20. CASE TheIsr
  BY <1>20 DEF TheIsr
<1>21. CASE HwProgress \/ HwNack \/ HwArbitrationLost
  BY <1>21, HwTyped
<1> QED
  BY <1>1, <1>2, <1>3, <1>4, <1>5, <1>6, <1>7, <1>8, <1>9, <1>10, <1>11, <1>12,
     <1>13, <1>14, <1>15, <1>16, <1>17, <1>18, <1>19, <1>20, <1>21
  DEF Next, DfcSteps

-----------------------------------------------------------------------------
(* Every step keeps the interrupt, the DFC and the active transfer in step *)

\* The steps of clients, of the bus and of the end of Complete() leave the
\* state machine alone.
Bystander ==
    \/ \E c \in Clients : \/ OpenFirst(c) \/ OpenAnother(c) \/ CloseFind(c)
                          \/ CloseShift(c) \/ TransferSReturn(c)
    \/ \E x \in Xfers : \/ FSWait(x) \/ CompletionDfc(x)
                        \/ SignalSync(x) \/ EnqueCompletion(x)
    \/ HwProgress \/ HwNack \/ HwArbitrationLost

LEMMA BystanderUnchanged ==
    ASSUME Bystander PROVE UNCHANGED <<queueVars, dfcVars, enabled>>
  BY DEF Bystander, OpenFirst, OpenAnother, CloseFind, CloseShift,
         TransferSReturn, FSWait, CompletionDfc, SignalSync, EnqueCompletion,
         HwProgress, HwFifo, HwReady, OtherMasterStops, HwNack,
         HwArbitrationLost, Hw, queueVars, dfcVars, irqVars

\* Submitting to an empty queue finds the state machine at rest.
LEMMA SubmitSteps ==
    ASSUME TypeOK, NEW x \in Xfers,
           TransferS(x, Zeros(x)) \/ TransferA(x, Zeros(x))
    PROVE  /\ life[x] = "owned" /\ life' = [life EXCEPT ![x] = "queued"]
           /\ handle[Owner[x]] = "open" /\ thread[Owner[x]] = "run" /\ ~iOpenMutex
           /\ iDcb' = [iDcb EXCEPT ![x] = DeviceCb(Owner[x])]
           /\ AddToQueue(x)
           /\ UNCHANGED <<unitVars, handle, iState, dfcPc, stat, irqVars, hw>>
  BY QuietAssumption DEF TransferS, TransferA, Submit, CanTransfer, unitVars,
                         irqVars

LEMMA WorkStep ==
    ASSUME TypeOK, ActiveIsHead, WorkInv, Next
    PROVE  WorkInv'
<1> USE DEF WorkInv, queueVars, dfcVars, irqVars
<1>1. CASE Bystander
  BY <1>1, BystanderUnchanged
<1>2. ASSUME NEW x \in Xfers, TransferS(x, Zeros(x)) \/ TransferA(x, Zeros(x))
      PROVE  WorkInv'
  <2>1. AddToQueue(x) /\ UNCHANGED <<iState, dfcPc, irqVars>>
    BY <1>2, SubmitSteps
  <2>2. CASE iTransferQ = <<>>
    <3>1. ~Working
      BY <2>2 DEF ActiveIsHead
    <3> QED  BY <2>1, <3>1 DEF Working
  <2>3. CASE iTransferQ # <<>>
    BY <2>1, <2>3 DEF AddToQueue
  <2> QED  BY <2>2, <2>3
<1>3. CASE DfcStart
  BY <1>3 DEF DfcStart
<1>4. CASE DfcEnter
  BY <1>4 DEF DfcEnter
<1>5. CASE LoopNack \/ LoopArbitrationLost \/ LoopDone
  BY <1>5 DEF LoopNack, LoopArbitrationLost, LoopDone, StartComplete
<1>6. CASE LoopNextPhase
  BY <1>6 DEF LoopNextPhase
<1>7. CASE LoopData
  BY <1>7 DEF LoopData, LoopEnd
<1>8. CASE CompletePop
  BY <1>8 DEF CompletePop
<1>9. CASE TheIsr
  BY <1>9 DEF TheIsr
<1> QED
  BY <1>1, <1>2, <1>3, <1>4, <1>5, <1>6, <1>7, <1>8, <1>9
  DEF Next, DfcSteps, Bystander

LEMMA ActiveStep ==
    ASSUME TypeOK, ActiveIsHead, WorkInv, Next
    PROVE  ActiveIsHead'
<1> USE DEF ActiveIsHead, queueVars, dfcVars, irqVars
<1>1. CASE Bystander
  BY <1>1, BystanderUnchanged DEF Working
<1>2. ASSUME NEW x \in Xfers, TransferS(x, Zeros(x)) \/ TransferA(x, Zeros(x))
      PROVE  ActiveIsHead'
  <2>1. AddToQueue(x) /\ UNCHANGED <<iState, dfcPc, irqVars>>
    BY <1>2, SubmitSteps
  <2>2. CASE iTransferQ = <<>>
    <3>1. iTransferQ' = <<x>> /\ iCurrentPhase' = <<x, 1>>
      BY <2>1, <2>2 DEF AddToQueue
    <3>2. Head(<<x>>) = x /\ Len(Phases[x]) \in Nat /\ Len(Phases[x]) > 0
      BY ConstAssumption
    <3> QED  BY <3>1, <3>2
  <2>3. CASE iTransferQ # <<>>
    <3>1. iTransferQ' = Append(iTransferQ, x) /\ UNCHANGED <<iCurrentPhase, dfcQueued>>
      BY <2>1, <2>3 DEF AddToQueue
    <3>2. Head(iTransferQ') = Head(iTransferQ) /\ iTransferQ' # <<>>
      BY <2>3, <3>1, HeadTail
    <3>3. Working' => Working
      BY <2>1, <3>1 DEF Working
    <3> QED  BY <3>1, <3>2, <3>3
  <2> QED  BY <2>2, <2>3
<1>3. CASE DfcStart \/ DfcEnter \/ LoopNack \/ LoopArbitrationLost \/ LoopDone
           \/ LoopData \/ TheIsr
  <2>1. UNCHANGED <<iTransferQ, iCurrentPhase>>
    BY <1>3 DEF DfcStart, DfcEnter, LoopNack, LoopArbitrationLost, LoopDone,
                LoopData, TheIsr
  <2>2. Working
    BY <1>3 DEF DfcStart, DfcEnter, LoopNack, LoopArbitrationLost, LoopDone,
                LoopData, TheIsr, Working
  <2> QED  BY <2>1, <2>2
<1>4. CASE LoopNextPhase
  <2>1. Working /\ iTransferQ' = iTransferQ /\ ~LastPhase(iCurrentPhase)
        /\ iCurrentPhase' = <<iCurrentPhase[1], iCurrentPhase[2] + 1>>
    BY <1>4 DEF LoopNextPhase, Working
  <2>2. /\ iCurrentPhase[1] = Head(iTransferQ)
        /\ iCurrentPhase[2] \in 1..Len(Phases[Head(iTransferQ)])
        /\ iCurrentPhase[2] # Len(Phases[Head(iTransferQ)])
    BY <2>1 DEF LastPhase
  <2>3. Head(iTransferQ) \in Xfers
    BY <2>1, HeadTail
  <2>4. Len(Phases[Head(iTransferQ)]) \in Nat
    BY <2>3, ConstAssumption
  <2>5. iCurrentPhase[2] + 1 \in 1..Len(Phases[Head(iTransferQ)])
    BY <2>2, <2>4
  <2> QED  BY <2>1, <2>2, <2>5
<1>5. CASE CompletePop
  <2>1. ~Working'
    BY <1>5 DEF CompletePop, Working, WorkInv
  <2> QED  BY <2>1
<1> QED
  BY <1>1, <1>2, <1>3, <1>4, <1>5 DEF Next, DfcSteps, Bystander

-----------------------------------------------------------------------------
(* Every step keeps the device table *)

\* All but Open() and Close() leave the table, its handles and the power alone.
NotOpenClose == Next /\ ~ \E c \in Clients : \/ OpenFirst(c) \/ OpenAnother(c)
                                             \/ CloseFind(c) \/ CloseShift(c)

LEMMA TableUnchanged ==
    ASSUME TypeOK, NotOpenClose
    PROVE  UNCHANGED <<unitVars, handle, bound>> /\ (hw.clock => hw'.clock)
<1>h. hw \in Controllers
  BY DEF TypeOK
<1>1. CASE \/ \E c \in Clients : TransferSReturn(c)
           \/ \E x \in Xfers : \/ FSWait(x) \/ CompletionDfc(x)
                               \/ SignalSync(x) \/ EnqueCompletion(x)
           \/ DfcEnter \/ CompletePop \/ TheIsr
  BY <1>1 DEF TransferSReturn, FSWait, CompletionDfc, SignalSync,
              EnqueCompletion, DfcEnter, CompletePop, TheIsr, irqVars, clientVars
<1>2. CASE \E x \in Xfers : TransferS(x, Zeros(x)) \/ TransferA(x, Zeros(x))
  BY <1>2 DEF TransferS, TransferA, Submit, irqVars
<1>3. CASE DfcStart
  BY <1>h, <1>3 DEF DfcStart, Controllers, irqVars, clientVars
<1>4. CASE LoopNack
  BY <1>h, <1>4 DEF LoopNack, Configured, HwReset, irqVars, clientVars
<1>5. CASE LoopArbitrationLost \/ LoopDone
  BY <1>h, <1>5 DEF LoopArbitrationLost, LoopDone, Controllers, irqVars, clientVars
<1>6. CASE LoopNextPhase
  BY <1>h, <1>6 DEF LoopNextPhase, Controllers, irqVars, clientVars
<1>7. CASE LoopData
  BY <1>h, <1>7 DEF LoopData, Controllers, irqVars, clientVars
<1>8. CASE HwFifo \/ HwReady \/ OtherMasterStops
  BY <1>h, <1>8 DEF HwFifo, HwReady, OtherMasterStops, Hw, Controllers, irqVars,
                    clientVars
<1>9. CASE HwNack \/ HwArbitrationLost
  BY <1>h, <1>9 DEF HwNack, HwArbitrationLost, Hw, Controllers, irqVars, clientVars
<1> QED  BY <1>1, <1>2, <1>3, <1>4, <1>5, <1>6, <1>7, <1>8, <1>9
        DEF NotOpenClose, Next, DfcSteps, HwProgress

LEMMA TableStep ==
    ASSUME TypeOK, TableInv, CloseInv, Next
    PROVE  TableInv'
<1> USE DEF TableInv, InUse, Open, unitVars
<1>n. KMaxDevicesPerUnit \in Nat /\ iNumDevices \in 0..KMaxDevicesPerUnit
      /\ iNumDevices \in Nat /\ KMaxDevicesPerUnit >= 1
  BY ConstAssumption DEF TypeOK
<1>1. CASE NotOpenClose
  BY <1>1, TableUnchanged
<1>2. ASSUME NEW c \in Clients, OpenFirst(c)  PROVE TableInv'
  <2>1. ~iOpenMutex /\ iNumDevices = 0 /\ handle[c] # "open" /\ iOpenMutex' = iOpenMutex
    BY <1>2 DEF OpenFirst
  <2>2. \A d \in Clients : handle[d] # "open"
    BY <2>1
  <2>3. CASE Config[c] \in Supported
    <3>1. iNumDevices' = 1 /\ iDevice' = [iDevice EXCEPT ![0] = Address[c]]
          /\ handle' = [handle EXCEPT ![c] = "open"]
      BY <1>2, <2>3 DEF OpenFirst
    <3>2. iDevice'[0] = Address[c] /\ 0..(InUse' - 1) = {0} /\ InUse' = 1
      BY <2>1, <3>1, <1>n DEF TypeOK, Slots
    <3>3. Open' = {c}
      BY <2>2, <3>1 DEF TypeOK
    <3> QED  BY <3>2, <3>3, <1>n
  <2>4. CASE Config[c] \notin Supported
    <3>1. iNumDevices' = iNumDevices /\ handle' = [handle EXCEPT ![c] = "KErrArgument"]
          /\ iDevice' = iDevice
      BY <1>2, <2>4 DEF OpenFirst
    <3>2. Open' = {} /\ InUse' = 0
      BY <2>1, <2>2, <3>1 DEF TypeOK
    <3> QED  BY <3>2, <1>n
  <2> QED  BY <2>3, <2>4
<1>3. ASSUME NEW c \in Clients, OpenAnother(c)  PROVE TableInv'
  <2>1. ~iOpenMutex /\ handle[c] # "open" /\ iOpenMutex' = iOpenMutex
        /\ handle' = [handle EXCEPT ![c] = OpenError(c)]
    BY <1>3 DEF OpenAnother
  <2>2. CASE OpenError(c) = "open"
    <3>1. iDevice' = [iDevice EXCEPT ![iNumDevices] = Address[c]]
          /\ iNumDevices' = iNumDevices + 1
      BY <1>3, <2>2 DEF OpenAnother
    <3>2. iNumDevices < KMaxDevicesPerUnit
          /\ \A i \in 0..(iNumDevices - 1) : iDevice[i] # Address[c]
      BY <2>2, <1>n DEF OpenError
    <3>3. Open' = Open \union {c}
      BY <2>1, <2>2 DEF TypeOK
    <3>4. InUse = iNumDevices /\ InUse' = iNumDevices + 1
      BY <2>1, <3>1, <1>n
    <3>5. /\ \A i \in 0..(iNumDevices - 1) : iDevice'[i] = iDevice[i]
          /\ iDevice'[iNumDevices] = Address[c]
      BY <3>1, <1>n DEF TypeOK, Slots
    <3>6. \A d \in Open : Address[d] # Address[c]
      BY <3>2, <3>4
    <3>7. \A i \in 0..(InUse' - 1) : i \in 0..(iNumDevices - 1) \/ i = iNumDevices
      BY <3>4, <1>n
    <3>8. iNumDevices \in 0..(InUse' - 1)
          /\ \A i \in 0..(iNumDevices - 1) : i \in 0..(InUse' - 1)
      BY <3>4, <1>n
    <3>9. \A d \in Open' : \E i \in 0..(InUse' - 1) : iDevice'[i] = Address[d]
      BY <3>3, <3>4, <3>5, <3>8
    <3>10. \A i \in 0..(InUse' - 1) : \E d \in Open' : iDevice'[i] = Address[d]
      BY <3>3, <3>4, <3>5, <3>7
    <3>11. \A i, j \in 0..(InUse' - 1) : iDevice'[i] = iDevice'[j] => i = j
      BY <3>2, <3>4, <3>5, <3>7
    <3>12. \A d, e \in Open' : Address[d] = Address[e] => d = e
      BY <3>3, <3>6
    <3>13. InUse' <= KMaxDevicesPerUnit
      BY <3>2, <3>4, <1>n
    <3> QED  BY <3>9, <3>10, <3>11, <3>12, <3>13
  <2>3. CASE OpenError(c) # "open"
    <3>1. Open' = Open
      BY <2>1, <2>3 DEF TypeOK
    <3> QED  BY <1>3, <2>1, <2>3, <3>1 DEF OpenAnother
  <2> QED  BY <2>2, <2>3
<1>4. ASSUME NEW c \in Clients, CloseFind(c)  PROVE TableInv'
  <2>1. ~iOpenMutex /\ iOpenMutex' = TRUE /\ iNumDevices' = iNumDevices - 1
        /\ UNCHANGED <<handle, iDevice>>
    BY <1>4 DEF CloseFind
  <2>2. InUse' = InUse
    BY <2>1, <1>n
  <2> QED  BY <2>1, <2>2
<1>5. ASSUME NEW c \in Clients, CloseShift(c)  PROVE TableInv'
  <2> DEFINE old == CHOOSE i \in Slots : /\ iDevice[i] = Address[c]
                        /\ \A j \in Slots : j < i => iDevice[j] # Address[c]
             n == iNumDevices
  <2>1. iOpenMutex /\ handle[c] = "open" /\ iOpenMutex' = FALSE
        /\ iNumDevices' = n /\ handle' = [handle EXCEPT ![c] = "closed"]
        /\ iDevice' = [s \in Slots |-> iDevice[MovedFrom(old, s)]]
    BY <1>5 DEF CloseShift, CloseInv
  <2>2. /\ InUse = n + 1 /\ InUse' = n /\ n + 1 <= KMaxDevicesPerUnit
        /\ 0..(InUse - 1) = 0..n /\ 0..(InUse' - 1) = 0..(n - 1)
    BY <2>1, <1>n
  <2>3. PICK k \in 0..n : iDevice[k] = Address[c]
    BY <2>1, <2>2, <1>n
  <2>4. old = k
    <3>1. k \in Slots /\ \A j \in Slots : j < k => iDevice[j] # Address[c]
      BY <2>2, <2>3, <1>n DEF Slots
    <3>2. \A i \in Slots : (iDevice[i] = Address[c] /\ \A j \in Slots : j < i =>
                                iDevice[j] # Address[c]) => i = k
      BY <2>3, <3>1 DEF Slots
    <3>3. old \in Slots /\ iDevice[old] = Address[c]
          /\ \A j \in Slots : j < old => iDevice[j] # Address[c]
      BY <2>3, <3>1
    <3> QED  BY <3>2, <3>3
  <2> HIDE DEF old
  <2> DEFINE m(i) == IF i < k THEN i ELSE i + 1
  <2>5. \A i \in 0..(n - 1) : /\ m(i) \in 0..n /\ m(i) # k
                              /\ iDevice'[i] = iDevice[m(i)]
    BY <2>1, <2>2, <2>3, <2>4, <1>n DEF MovedFrom, Slots
  <2>6. \A i, j \in 0..(n - 1) : m(i) = m(j) => i = j
    BY <2>3, <1>n
  <2>7. \A j \in 0..n : j # k => \E i \in 0..(n - 1) : m(i) = j
    <3> SUFFICES ASSUME NEW j \in 0..n, j # k
                 PROVE  \E i \in 0..(n - 1) : m(i) = j
      OBVIOUS
    <3>1. CASE j < k
      BY <2>3, <3>1, <1>n
    <3>2. CASE j > k
      <4>1. j - 1 \in 0..(n - 1) /\ m(j - 1) = j
        BY <2>3, <3>2, <1>n
      <4> QED  BY <4>1
    <3> QED  BY <2>3, <3>1, <3>2, <1>n
  <2>8. Open' = Open \ {c}
    BY <2>1 DEF TypeOK
  <2> HIDE DEF m
  <2>12. \A i, j \in 0..n : iDevice[i] = iDevice[j] => i = j
    <3>1. \A i, j \in 0..(InUse - 1) : iDevice[i] = iDevice[j] => i = j
      OBVIOUS
    <3> QED  BY <3>1, <2>2
  <2>9. ASSUME NEW d \in Open'
        PROVE  \E i \in 0..(n - 1) : iDevice'[i] = Address[d]
    <3>1. d \in Open /\ d # c /\ c \in Open
      BY <2>1, <2>8, <2>9
    <3>2. PICK j \in 0..n : iDevice[j] = Address[d]
      <4>1. \E j \in 0..(InUse - 1) : iDevice[j] = Address[d]
        BY <3>1
      <4> QED  BY <4>1, <2>2
    <3>3. j # k
      BY <3>1, <3>2, <2>3
    <3> QED  BY <3>2, <3>3, <2>5, <2>7
  <2>10. ASSUME NEW i \in 0..(n - 1)
         PROVE  \E d \in Open' : iDevice'[i] = Address[d]
    <3>1. m(i) \in 0..n /\ m(i) # k /\ iDevice'[i] = iDevice[m(i)]
      BY <2>5
    <3>2. PICK d \in Open : iDevice[m(i)] = Address[d]
      <4>1. \A j \in 0..(InUse - 1) : \E d \in Open : iDevice[j] = Address[d]
        OBVIOUS
      <4> QED  BY <3>1, <4>1, <2>2
    <3>3. m(i) = k => FALSE
      BY <3>1
    <3>4. iDevice[m(i)] # Address[c]
      BY <3>1, <3>3, <2>3, <2>12
    <3>5. d # c
      BY <3>2, <3>4
    <3> QED  BY <3>1, <3>2, <3>5, <2>8
  <2>11. ASSUME NEW i \in 0..(n - 1), NEW j \in 0..(n - 1), iDevice'[i] = iDevice'[j]
         PROVE  i = j
    <3>1. m(i) \in 0..n /\ m(j) \in 0..n /\ iDevice[m(i)] = iDevice[m(j)]
      BY <2>5, <2>11
    <3> QED  BY <3>1, <2>6, <2>12
  <2> QED  BY <2>2, <2>8, <2>9, <2>10, <2>11, <1>n
<1> QED
  BY <1>1, <1>2, <1>3, <1>4, <1>5 DEF NotOpenClose

\* The state machine and the controller leave the clients alone.
LEMMA ControlUnchanged ==
    ASSUME \/ DfcStart \/ DfcEnter \/ LoopNack \/ LoopArbitrationLost
           \/ LoopNextPhase \/ LoopDone \/ LoopData \/ TheIsr \/ HwProgress
           \/ HwNack \/ HwArbitrationLost
    PROVE  UNCHANGED <<unitVars, clientVars, iTransferQ, iDcb, life, iSyncSem>>
  BY DEF DfcStart, DfcEnter, LoopNack, LoopArbitrationLost, LoopNextPhase,
         LoopDone, LoopData, TheIsr, HwProgress, HwFifo, HwReady,
         OtherMasterStops, HwNack, HwArbitrationLost, Hw, StartComplete,
         unitVars, clientVars, queueVars, blockVars

\* A transfer being completed is on the queue until CompletePop takes it off.
LEMMA HeadQueued ==
    ASSUME TypeOK, ActiveIsHead, QueueHoldsSubmitted, Working
    PROVE  /\ iTransferQ # <<>> /\ Head(iTransferQ) \in Xfers
           /\ life[Head(iTransferQ)] = "queued"
<1>1. iTransferQ # <<>>
  BY DEF ActiveIsHead
<1>2. Head(iTransferQ) \in Xfers /\ Head(iTransferQ) = iTransferQ[1]
      /\ 1 \in 1..Len(iTransferQ)
  BY <1>1, HeadTail
<1> QED  BY <1>1, <1>2 DEF QueueHoldsSubmitted

LEMMA CloseStep ==
    ASSUME TypeOK, ActiveIsHead, QueueHoldsSubmitted, CloseInv, Next
    PROVE  CloseInv'
<1> USE QuietAssumption DEF CloseInv, TypeOK, unitVars, clientVars, blockVars
<1>o. \A x \in Xfers : Owner[x] \in Clients
  BY ConstAssumption
<1>1. ASSUME NEW c \in Clients, OpenFirst(c) \/ OpenAnother(c)  PROVE CloseInv'
  <2>1. /\ handle[c] # "open" /\ thread[c] = "run"
        /\ UNCHANGED <<iOpenMutex, thread, life>>
        /\ \A d \in Clients : d # c => handle'[d] = handle[d]
    BY <1>1 DEF OpenFirst, OpenAnother, Idle
  <2> QED  BY <2>1, <1>o
<1>2. ASSUME NEW c \in Clients, CloseFind(c)  PROVE CloseInv'
  <2>1. /\ handle[c] = "open" /\ ~iOpenMutex /\ UnitQuiet
        /\ iOpenMutex' = TRUE /\ UNCHANGED <<handle, life>>
        /\ thread' = [thread EXCEPT ![c] = "closing"]
    BY <1>2 DEF CloseFind
  <2>2. \A d \in Clients : thread[d] # "closing"
    BY <2>1
  <2>3. \A d \in Clients : thread'[d] = "closing" <=> d = c
    BY <2>1, <2>2
  <2> QED  BY <2>1, <2>3, <1>o DEF UnitQuiet
<1>3. ASSUME NEW c \in Clients, CloseShift(c)  PROVE CloseInv'
  <2>1. /\ thread[c] = "closing" /\ iOpenMutex' = FALSE /\ life' = life
        /\ thread' = [thread EXCEPT ![c] = "run"]
        /\ handle' = [handle EXCEPT ![c] = "closed"]
    BY <1>3 DEF CloseShift
  <2>2. \A d \in Clients : thread'[d] # "closing"
    BY <2>1
  <2>3. \A x \in Xfers : life'[x] = "owned"
    BY <2>1
  <2> QED  BY <2>1, <2>2, <2>3
<1>4. ASSUME NEW x \in Xfers, TransferS(x, Zeros(x)) \/ TransferA(x, Zeros(x))
      PROVE  CloseInv'
  <2>1. /\ ~iOpenMutex /\ iOpenMutex' = iOpenMutex /\ handle' = handle
        /\ handle[Owner[x]] = "open" /\ thread[Owner[x]] = "run"
        /\ life' = [life EXCEPT ![x] = "queued"]
    BY <1>4, SubmitSteps
  <2>2. \A d \in Clients : thread[d] # "closing"
    BY <2>1
  <2>3. thread' \in {thread, [thread EXCEPT ![Owner[x]] = "submitted"]}
    BY <1>4 DEF TransferS, TransferA
  <2>4. \A d \in Clients : thread'[d] # "closing"
    BY <2>2, <2>3
  <2>5. \A y \in Xfers : life'[y] # "owned" => y = x \/ life[y] # "owned"
    BY <2>1
  <2> QED  BY <2>1, <2>4, <2>5, <1>o
<1>5. ASSUME NEW x \in Xfers, FSWait(x) \/ SignalSync(x)
      PROVE  CloseInv'
  <2>1. /\ UNCHANGED <<iOpenMutex, handle>>
        /\ \A d \in Clients : thread'[d] = "closing" <=> thread[d] = "closing"
        /\ \A y \in Xfers : life'[y] # "owned" <=> life[y] # "owned"
    BY <1>5, <1>o DEF FSWait, SignalSync
  <2> QED  BY <2>1, <1>o
<1>6. ASSUME NEW x \in Xfers, CompletionDfc(x) \/ EnqueCompletion(x)
      PROVE  CloseInv'
  <2>1. /\ UNCHANGED <<iOpenMutex, handle, thread>>
        /\ \A y \in Xfers : life'[y] # "owned" => life[y] # "owned"
    BY <1>6 DEF CompletionDfc, EnqueCompletion
  <2> QED  BY <2>1
<1>7. ASSUME NEW c \in Clients, TransferSReturn(c)  PROVE CloseInv'
  <2>1. /\ UNCHANGED <<iOpenMutex, handle>>
        /\ \A d \in Clients : thread'[d] = "closing" <=> thread[d] = "closing"
        /\ \A y \in Xfers : life'[y] # "owned" => life[y] # "owned"
    BY <1>7 DEF TransferSReturn
  <2> QED  BY <2>1, <1>o
<1>8. CASE CompletePop
  <2>1. /\ UNCHANGED <<iOpenMutex, handle, thread>>
        /\ dfcPc = "complete"
        /\ life' = [life EXCEPT ![Head(iTransferQ)] = "popped"]
    BY <1>8 DEF CompletePop
  <2>2. Head(iTransferQ) \in Xfers /\ life[Head(iTransferQ)] = "queued"
    BY <2>1, HeadQueued DEF Working
  <2>3. \A y \in Xfers : life'[y] # "owned" <=> life[y] # "owned"
    BY <2>1, <2>2
  <2> QED  BY <2>1, <2>3, <1>o
<1>9. CASE \/ DfcStart \/ DfcEnter \/ LoopNack \/ LoopArbitrationLost
           \/ LoopNextPhase \/ LoopDone \/ LoopData \/ TheIsr \/ HwProgress
           \/ HwNack \/ HwArbitrationLost
  BY <1>9, ControlUnchanged
<1> QED
  BY <1>1, <1>2, <1>3, <1>4, <1>5, <1>6, <1>7, <1>8, <1>9 DEF Next, DfcSteps

LEMMA PowerStep ==
    ASSUME TypeOK, CloseInv, TableInv, PowerInv, Next
    PROVE  PowerInv'
<1> USE DEF PowerInv, Open
<1>1. CASE NotOpenClose
  BY <1>1, TableUnchanged DEF unitVars
<1>2. ASSUME NEW c \in Clients, OpenFirst(c)  PROVE PowerInv'
  <2>1. CASE Config[c] \in Supported
    BY <1>2, <2>1 DEF OpenFirst, HwReset
  <2>2. CASE Config[c] \notin Supported
    BY <1>2, <2>2 DEF OpenFirst, TypeOK
  <2> QED  BY <2>1, <2>2
<1>3. ASSUME NEW c \in Clients, OpenAnother(c)  PROVE PowerInv'
  <2>1. iNumDevices > 0 /\ ~iOpenMutex /\ UNCHANGED <<bound, hw>>
    BY <1>3 DEF OpenAnother, irqVars
  <2>2. 0 \in 0..(InUse - 1)
    BY <2>1 DEF InUse, TypeOK
  <2>3. Open # {}
    BY <2>2 DEF TableInv
  <2> QED  BY <2>1, <2>3
<1>4. ASSUME NEW c \in Clients, CloseFind(c)  PROVE PowerInv'
  BY <1>4 DEF CloseFind, irqVars
<1>5. ASSUME NEW c \in Clients, CloseShift(c)  PROVE PowerInv'
  <2>1. /\ thread[c] = "closing" /\ handle[c] = "open" /\ iOpenMutex
        /\ handle' = [handle EXCEPT ![c] = "closed"]
        /\ bound' = (bound /\ iNumDevices # 0)
    BY <1>5 DEF CloseShift, CloseInv
  <2>2. hw'.clock = (hw.clock /\ iNumDevices # 0)
    BY <1>5 DEF CloseShift, TypeOK, Controllers
  <2>3. bound /\ hw.clock
    BY <2>1
  <2>4. ASSUME NEW d \in Open'  PROVE iNumDevices # 0
    <3>1. d \in Open /\ c \in Open /\ d # c
      BY <2>1, <2>4 DEF TypeOK
    <3>2. PICK i \in 0..(InUse - 1), j \in 0..(InUse - 1) :
                iDevice[i] = Address[c] /\ iDevice[j] = Address[d]
      BY <3>1 DEF TableInv
    <3>3. i # j
      BY <3>1, <3>2 DEF TableInv
    <3> QED  BY <2>1, <3>2, <3>3 DEF InUse, TypeOK
  <2> QED  BY <2>1, <2>2, <2>3, <2>4
<1> QED
  BY <1>1, <1>2, <1>3, <1>4, <1>5 DEF NotOpenClose

-----------------------------------------------------------------------------
(* Every step keeps the queue and the semaphores *)

LEMMA QueueStep ==
    ASSUME TypeOK, ActiveIsHead, QueueHoldsSubmitted, SemInv, Next
    PROVE  QueueHoldsSubmitted'
<1> USE DEF QueueHoldsSubmitted
<1>t. /\ iTransferQ \in Seq(Xfers) /\ Len(iTransferQ) \in Nat
      /\ life \in [Xfers -> {"owned", "queued", "popped", "signalled"}]
  BY DEF TypeOK
<1>1. ASSUME NEW c \in Clients, OpenFirst(c) \/ OpenAnother(c) \/ CloseFind(c)
                                \/ CloseShift(c)
      PROVE  QueueHoldsSubmitted'
  BY <1>1 DEF OpenFirst, OpenAnother, CloseFind, CloseShift, queueVars, blockVars
<1>2. ASSUME NEW x \in Xfers, TransferS(x, Zeros(x)) \/ TransferA(x, Zeros(x))
      PROVE  QueueHoldsSubmitted'
  <2> DEFINE n == Len(iTransferQ)
  <2>1. life[x] = "owned" /\ life' = [life EXCEPT ![x] = "queued"] /\ AddToQueue(x)
    BY <1>2, SubmitSteps
  <2>2. iTransferQ' = Append(iTransferQ, x)
    <3>1. iTransferQ = <<>> => Append(iTransferQ, x) = <<x>>
      OBVIOUS
    <3> QED  BY <2>1, <3>1 DEF AddToQueue
  <2>3. /\ Len(iTransferQ') = n + 1
        /\ \A i \in 1..n : iTransferQ'[i] = iTransferQ[i]
        /\ iTransferQ'[n + 1] = x
    BY <2>2, <1>t
  <2>4. \A i \in 1..n : iTransferQ[i] # x
    BY <2>1
  <2>5. \A i \in 1..(n + 1) : i \in 1..n \/ i = n + 1
    BY <1>t
  <2>6. 1..n \subseteq 1..(n + 1) /\ n + 1 \in 1..(n + 1)
    BY <1>t
  <2>7. \A i, j \in 1..(n + 1) : iTransferQ'[i] = iTransferQ'[j] => i = j
    BY <2>3, <2>4, <2>5
  <2>8. \A y \in Xfers : life'[y] = "queued" <=> y = x \/ life[y] = "queued"
    BY <2>1, <1>t
  <2>9. \A y \in Xfers : (\E i \in 1..(n + 1) : iTransferQ'[i] = y)
                            <=> y = x \/ \E i \in 1..n : iTransferQ[i] = y
    BY <2>3, <2>5, <2>6
  <2> QED  BY <2>3, <2>7, <2>8, <2>9
<1>3. ASSUME NEW x \in Xfers, FSWait(x) \/ CompletionDfc(x) \/ SignalSync(x)
                              \/ EnqueCompletion(x)
      PROVE  QueueHoldsSubmitted'
  <2>1. /\ iTransferQ' = iTransferQ
        /\ \A y \in Xfers : life'[y] = "queued" <=> life[y] = "queued"
    BY <1>3, <1>t DEF FSWait, CompletionDfc, SignalSync, EnqueCompletion,
                      queueVars, blockVars
  <2> QED  BY <2>1
<1>4. ASSUME NEW c \in Clients, TransferSReturn(c)  PROVE QueueHoldsSubmitted'
  <2>1. /\ thread[c] = "woken" /\ iTransferQ' = iTransferQ
        /\ life' = [x \in Xfers |->
                      IF x \in SyncXfers /\ Owner[x] = c THEN "owned" ELSE life[x]]
    BY <1>4 DEF TransferSReturn, queueVars
  <2>2. \A x \in SyncXfers : Owner[x] = c => life[x] = "signalled"
    BY <2>1 DEF SemInv
  <2>3. \A y \in Xfers : life'[y] = "queued" <=> life[y] = "queued"
    BY <2>1, <2>2
  <2> QED  BY <2>1, <2>3
<1>5. CASE CompletePop
  <2> DEFINE n == Len(iTransferQ)  h == Head(iTransferQ)
  <2>1. iTransferQ # <<>> /\ h \in Xfers /\ life[h] = "queued"
    BY <1>5, HeadQueued DEF CompletePop, Working
  <2>2. iTransferQ' = Tail(iTransferQ) /\ life' = [life EXCEPT ![h] = "popped"]
    BY <1>5 DEF CompletePop, Dequeued
  <2>3. h = iTransferQ[1] /\ n >= 1 /\ Len(iTransferQ') = n - 1
        /\ \A i \in 1..(n - 1) : iTransferQ'[i] = iTransferQ[i + 1]
    BY <2>1, <2>2, <1>t, HeadTail
  <2>4. \A i \in 1..(n - 1) : i + 1 \in 1..n /\ i + 1 # 1
    BY <1>t
  <2>5. \A i \in 1..n : i = 1 \/ (i - 1 \in 1..(n - 1) /\ (i - 1) + 1 = i)
    BY <1>t
  <2>6. \A i, j \in 1..(n - 1) : iTransferQ'[i] = iTransferQ'[j] => i = j
    <3>1. \A i, j \in 1..(n - 1) : iTransferQ[i + 1] = iTransferQ[j + 1]
                                        => i + 1 = j + 1
      BY <2>4
    <3> QED  BY <2>3, <3>1
  <2>7. \A y \in Xfers : life'[y] = "queued" <=> y # h /\ life[y] = "queued"
    BY <2>1, <2>2, <1>t
  <2>8. ASSUME NEW y \in Xfers
        PROVE  (\E i \in 1..(n - 1) : iTransferQ'[i] = y)
                   <=> y # h /\ \E i \in 1..n : iTransferQ[i] = y
    <3>1. ASSUME NEW i \in 1..(n - 1), iTransferQ'[i] = y
          PROVE  y # h /\ \E j \in 1..n : iTransferQ[j] = y
      <4>1. iTransferQ[i + 1] = y /\ i + 1 \in 1..n /\ i + 1 # 1 /\ 1 \in 1..n
        BY <2>3, <2>4, <3>1, <1>t
      <4> QED  BY <4>1, <2>3
    <3>2. ASSUME y # h, NEW j \in 1..n, iTransferQ[j] = y
          PROVE  \E i \in 1..(n - 1) : iTransferQ'[i] = y
      <4>1. j # 1
        BY <2>3, <3>2
      <4>2. j - 1 \in 1..(n - 1) /\ iTransferQ'[j - 1] = y
        BY <4>1, <2>3, <2>5, <3>2
      <4> QED  BY <4>2
    <3> QED  BY <3>1, <3>2
  <2> QED  BY <2>3, <2>6, <2>7, <2>8
<1>6. CASE \/ DfcStart \/ DfcEnter \/ LoopNack \/ LoopArbitrationLost
           \/ LoopNextPhase \/ LoopDone \/ LoopData \/ TheIsr \/ HwProgress
           \/ HwNack \/ HwArbitrationLost
  BY <1>6, ControlUnchanged
<1> QED
  BY <1>1, <1>2, <1>3, <1>4, <1>5, <1>6 DEF Next, DfcSteps

LEMMA SlotStep ==
    ASSUME TypeOK, ActiveIsHead, QueueHoldsSubmitted, TableInv, CloseInv, SlotInv,
           Next
    PROVE  SlotInv'
<1> USE DEF SlotInv
<1>t. /\ life \in [Xfers -> {"owned", "queued", "popped", "signalled"}]
      /\ iDcb \in [Xfers -> Slots] /\ iNumDevices \in Nat
      /\ iDevice \in [Slots -> Int \union {NoAddress}]
      /\ \A x \in Xfers : Owner[x] \in Clients
  BY ConstAssumption DEF TypeOK
<1>1. ASSUME NEW c \in Clients, OpenFirst(c) \/ OpenAnother(c)  PROVE SlotInv'
  <2>1. UNCHANGED <<life, iDcb>>
    BY <1>1 DEF OpenFirst, OpenAnother, blockVars
  <2>2. /\ iNumDevices' \in Nat /\ iNumDevices' >= iNumDevices
        /\ \A i \in 0..(iNumDevices - 1) : i \in Slots => iDevice'[i] = iDevice[i]
    BY <1>1, <1>t DEF OpenFirst, OpenAnother
  <2>3. 0..(iNumDevices - 1) \subseteq 0..(iNumDevices' - 1)
    BY <2>2, <1>t
  <2> QED  BY <2>1, <2>2, <2>3, <1>t
<1>2. ASSUME NEW c \in Clients, CloseFind(c) \/ CloseShift(c)  PROVE SlotInv'
  <2>1. \A x \in Xfers : life'[x] = "owned"
    BY <1>2, QuietAssumption DEF CloseFind, CloseShift, CloseInv, UnitQuiet, blockVars
  <2> QED  BY <2>1
<1>3. ASSUME NEW x \in Xfers, TransferS(x, Zeros(x)) \/ TransferA(x, Zeros(x))
      PROVE  SlotInv'
  <2>1. /\ life' = [life EXCEPT ![x] = "queued"]
        /\ handle[Owner[x]] = "open" /\ ~iOpenMutex
        /\ iDcb' = [iDcb EXCEPT ![x] = DeviceCb(Owner[x])]
        /\ UNCHANGED <<iNumDevices, iDevice>>
    BY <1>3, SubmitSteps DEF unitVars
  <2>2. /\ DeviceCb(Owner[x]) \in 0..(iNumDevices - 1)
        /\ iDevice[DeviceCb(Owner[x])] = Address[Owner[x]]
    BY <2>1, <1>t, DeviceCbFinds
  <2> QED  BY <2>1, <2>2, <1>t
<1>4. ASSUME NEW x \in Xfers, FSWait(x) \/ CompletionDfc(x) \/ SignalSync(x)
                              \/ EnqueCompletion(x)
      PROVE  SlotInv'
  BY <1>4, <1>t DEF FSWait, CompletionDfc, SignalSync, EnqueCompletion, unitVars,
                    blockVars
<1>5. ASSUME NEW c \in Clients, TransferSReturn(c)  PROVE SlotInv'
  BY <1>5, <1>t DEF TransferSReturn, unitVars
<1>6. CASE CompletePop
  <2>1. Head(iTransferQ) \in Xfers /\ life[Head(iTransferQ)] = "queued"
    BY <1>6, HeadQueued DEF CompletePop, Working
  <2> QED  BY <1>6, <2>1, <1>t DEF CompletePop, unitVars
<1>7. CASE \/ DfcStart \/ DfcEnter \/ LoopNack \/ LoopArbitrationLost
           \/ LoopNextPhase \/ LoopDone \/ LoopData \/ TheIsr \/ HwProgress
           \/ HwNack \/ HwArbitrationLost
  BY <1>7, ControlUnchanged DEF unitVars
<1> QED
  BY <1>1, <1>2, <1>3, <1>4, <1>5, <1>6, <1>7 DEF Next, DfcSteps

\* Two transfers under way on one slot are of the same client, so two
\* synchronous ones never share a semaphore.
LEMMA OwnSemaphore ==
    ASSUME TypeOK, TableInv, CloseInv, SlotInv,
           NEW x \in SyncXfers, NEW y \in SyncXfers,
           life[x] # "owned", life[y] # "owned", iDcb[x] = iDcb[y]
    PROVE  x = y
<1>1. x \in Xfers /\ y \in Xfers /\ Owner[x] \in Clients /\ Owner[y] \in Clients
  BY ConstAssumption
<1>2. Address[Owner[x]] = Address[Owner[y]]
  BY <1>1 DEF SlotInv
<1>3. Owner[x] \in Open /\ Owner[y] \in Open
  BY <1>1 DEF CloseInv, Open
<1>4. Owner[x] = Owner[y]
  BY <1>2, <1>3 DEF TableInv
<1> QED  BY <1>4, ConstAssumption

LEMMA SemStep ==
    ASSUME TypeOK, ActiveIsHead, QueueHoldsSubmitted, TableInv, CloseInv, SlotInv,
           SemInv, Next
    PROVE  SemInv'
<1>t. /\ life \in [Xfers -> {"owned", "queued", "popped", "signalled"}]
      /\ thread \in [Clients -> {"run", "submitted", "blocked", "woken", "closing"}]
      /\ iDcb \in [Xfers -> Slots] /\ iNumDevices \in Nat
      /\ iSyncSem \in [Slots -> Semaphores]
      /\ SyncXfers \subseteq Xfers
      /\ \A x \in Xfers : Owner[x] \in Clients
      /\ \A x, y \in SyncXfers : Owner[x] = Owner[y] => x = y
      /\ \A x \in SyncXfers, y \in Xfers \ SyncXfers : Owner[x] # Owner[y]
  BY ConstAssumption DEF TypeOK
<1>1. ASSUME NEW c \in Clients, OpenFirst(c) \/ OpenAnother(c)  PROVE SemInv'
  BY <1>1 DEF OpenFirst, OpenAnother, blockVars, SemInv
<1>2. ASSUME NEW c \in Clients, CloseFind(c)  PROVE SemInv'
  <2>1. /\ UNCHANGED <<life, iDcb, iSyncSem>> /\ thread[c] = "run"
        /\ thread' = [thread EXCEPT ![c] = "closing"]
        /\ \A x \in Xfers : life[x] = "owned"
    BY <1>2, QuietAssumption DEF CloseFind, Idle, UnitQuiet, blockVars
  <2> QED  BY <2>1, <1>t DEF SemInv
<1>3. ASSUME NEW c \in Clients, CloseShift(c)  PROVE SemInv'
  <2> DEFINE old == CHOOSE i \in Slots :
                      /\ iDevice[i] = Address[c]
                      /\ \A j \in Slots : j < i => iDevice[j] # Address[c]
  <2>1. iSyncSem' = [s \in Slots |-> iSyncSem[MovedFrom(old, s)]]
    BY <1>3 DEF CloseShift
  <2> HIDE DEF old
  <2>2. /\ UNCHANGED <<life, iDcb>> /\ thread[c] = "closing"
        /\ thread' = [thread EXCEPT ![c] = "run"]
        /\ \A x \in Xfers : life[x] = "owned"
    BY <1>3 DEF CloseShift, CloseInv, blockVars
  <2>3. \A s \in Slots : iSyncSem[s].count = 0
    BY <2>2, <1>t DEF SemInv
  <2>4. \A s \in Slots : MovedFrom(old, s) \in Slots
    BY ConstAssumption DEF MovedFrom, Slots, TypeOK
  <2>5. \A s \in Slots : iSyncSem'[s].count = 0
    BY <2>1, <2>3, <2>4
  <2> QED  BY <2>2, <2>5, <1>t DEF SemInv
<1>4. ASSUME NEW x \in Xfers, TransferS(x, Zeros(x))  PROVE SemInv'
  <2> DEFINE d == DeviceCb(Owner[x])
  <2>1. /\ x \in SyncXfers /\ life[x] = "owned" /\ thread[Owner[x]] = "run"
        /\ handle[Owner[x]] = "open" /\ ~iOpenMutex
        /\ life' = [life EXCEPT ![x] = "queued"]
        /\ iDcb' = [iDcb EXCEPT ![x] = d]
        /\ thread' = [thread EXCEPT ![Owner[x]] = "submitted"]
        /\ iSyncSem' = [iSyncSem EXCEPT ![d].owner = {Owner[x]}]
    BY <1>4, SubmitSteps DEF TransferS
  <2>2. d \in Slots /\ iDevice[d] = Address[Owner[x]]
    BY <2>1, <1>t, DeviceCbFinds
  <2> HIDE DEF d
  <2>3. \A y \in SyncXfers : life[y] # "owned" => iDcb[y] # d
    <3> SUFFICES ASSUME NEW y \in SyncXfers, life[y] # "owned", iDcb[y] = d
                 PROVE  FALSE
      OBVIOUS
    <3>1. Address[Owner[y]] = Address[Owner[x]]
      BY <2>2, <1>t DEF SlotInv
    <3>2. Owner[x] \in Open /\ Owner[y] \in Open
      BY <2>1, <1>t DEF CloseInv, Open
    <3>3. x = y
      BY <3>1, <3>2, <2>1, <1>t DEF TableInv
    <3> QED  BY <3>3, <2>1
  <2>4. iSyncSem[d].count = 0
    BY <2>2, <2>3 DEF SemInv
  <2>5. /\ iSyncSem'[d].count = 0 /\ iSyncSem'[d].owner = {Owner[x]}
        /\ \A s \in Slots : s # d => iSyncSem'[s] = iSyncSem[s]
    BY <2>1, <2>2, <2>4, <1>t DEF Semaphores
  <2>6. \A y \in SyncXfers : y # x =>
            /\ life'[y] = life[y] /\ thread'[Owner[y]] = thread[Owner[y]]
            /\ iDcb'[y] = iDcb[y]
            /\ life[y] # "owned" => iSyncSem'[iDcb[y]] = iSyncSem[iDcb[y]]
    BY <2>1, <2>3, <2>5, <1>t
  <2>7. ASSUME NEW y \in SyncXfers, y # x
        PROVE  LET t == thread'[Owner[y]]  sem == iSyncSem'[iDcb'[y]] IN
                /\ t \in {"run", "closing"} <=> life'[y] = "owned"
                /\ life'[y] # "owned" => sem.owner = {Owner[y]}
                /\ t = "submitted" => sem.count = IF life'[y] = "signalled" THEN 1 ELSE 0
                /\ t = "blocked" => life'[y] # "signalled" /\ sem.count = -1
                /\ t = "woken" => life'[y] = "signalled" /\ sem.count = 0
    BY <2>6, <2>7, <1>t DEF SemInv
  <2>8. /\ life'[x] = "queued" /\ thread'[Owner[x]] = "submitted" /\ iDcb'[x] = d
    BY <2>1, <1>t
  <2>9. ASSUME NEW s \in Slots,
               \A y \in SyncXfers : life'[y] # "owned" => iDcb'[y] # s
        PROVE  iSyncSem'[s].count = 0
    <3>1. s # d
      BY <2>1, <2>8, <2>9
    <3>2. \A y \in SyncXfers : life[y] # "owned" => iDcb[y] # s
      BY <2>1, <2>6, <2>9
    <3> QED  BY <3>1, <3>2, <2>5 DEF SemInv
  <2> QED  BY <2>5, <2>7, <2>8, <2>9 DEF SemInv
<1>5. ASSUME NEW x \in Xfers, TransferA(x, Zeros(x)) \/ CompletionDfc(x)
                              \/ EnqueCompletion(x)
      PROVE  SemInv'
  <2>1. /\ x \notin SyncXfers /\ UNCHANGED <<thread, iSyncSem>>
        /\ \A y \in Xfers : y # x => life'[y] = life[y] /\ iDcb'[y] = iDcb[y]
    BY <1>5, <1>t DEF TransferA, Submit, CompletionDfc, EnqueCompletion, clientVars
  <2> QED  BY <2>1, <1>t DEF SemInv
<1>6. ASSUME NEW x \in Xfers, FSWait(x) \/ SignalSync(x)  PROVE SemInv'
  <2> DEFINE d == iDcb[x]
  <2>1. x \in SyncXfers /\ d \in Slots /\ life[x] # "owned"
        /\ UNCHANGED iDcb
        /\ \A y \in Xfers : y # x => life'[y] = life[y]
    BY <1>6, <1>t DEF FSWait, SignalSync, blockVars, SemInv
  <2>2. \A y \in SyncXfers : y # x /\ life[y] # "owned" => iDcb[y] # d
    BY <2>1, OwnSemaphore
  <2>3. /\ \A s \in Slots : s # d => iSyncSem'[s] = iSyncSem[s]
        /\ iSyncSem'[d].owner = iSyncSem[d].owner
        /\ iSyncSem[d].count \in Int
    BY <1>6, <2>1, <1>t DEF FSWait, SignalSync, Semaphores
  <2>4. iSyncSem[d].owner = {Owner[x]}
    BY <2>1 DEF SemInv
  <2>5. \A y \in SyncXfers : y # x => thread'[Owner[y]] = thread[Owner[y]]
    BY <1>6, <2>1, <2>4, <1>t DEF FSWait, SignalSync
  <2>6. LET t == thread'[Owner[x]]  sem == iSyncSem'[d] IN
            /\ t \in {"submitted", "blocked", "woken"} /\ life'[x] # "owned"
            /\ t = "submitted" => sem.count = IF life'[x] = "signalled" THEN 1 ELSE 0
            /\ t = "blocked" => life'[x] # "signalled" /\ sem.count = -1
            /\ t = "woken" => life'[x] = "signalled" /\ sem.count = 0
    <3>1. CASE FSWait(x)
      <4>1. /\ thread[Owner[x]] = "submitted" /\ life' = life
            /\ iSyncSem'[d].count = iSyncSem[d].count - 1
            /\ thread'[Owner[x]] = IF iSyncSem[d].count > 0 THEN "woken" ELSE "blocked"
        BY <3>1, <2>1, <1>t DEF FSWait, blockVars, Semaphores
      <4>2. iSyncSem[d].count = IF life[x] = "signalled" THEN 1 ELSE 0
        BY <4>1, <2>1 DEF SemInv
      <4> QED  BY <4>1, <4>2, <2>1
    <3>2. CASE SignalSync(x)
      <4>1. /\ life[x] = "popped" /\ life'[x] = "signalled"
            /\ iSyncSem'[d].count = iSyncSem[d].count + 1
            /\ thread'[Owner[x]] =
                 IF iSyncSem[d].count < 0 /\ thread[Owner[x]] = "blocked"
                 THEN "woken" ELSE thread[Owner[x]]
        BY <3>2, <2>1, <2>4, <1>t DEF SignalSync, Semaphores
      <4>2. thread[Owner[x]] \in {"submitted", "blocked"}
        BY <4>1, <2>1, <1>t DEF SemInv
      <4>3. iSyncSem[d].count = IF thread[Owner[x]] = "submitted" THEN 0 ELSE -1
        BY <4>1, <4>2, <2>1 DEF SemInv
      <4> QED  BY <4>1, <4>2, <4>3
    <3> QED  BY <1>6, <3>1, <3>2
  <2>7. ASSUME NEW y \in SyncXfers, y # x
        PROVE  LET t == thread'[Owner[y]]  sem == iSyncSem'[iDcb'[y]] IN
                /\ t \in {"run", "closing"} <=> life'[y] = "owned"
                /\ life'[y] # "owned" => sem.owner = {Owner[y]}
                /\ t = "submitted" => sem.count = IF life'[y] = "signalled" THEN 1 ELSE 0
                /\ t = "blocked" => life'[y] # "signalled" /\ sem.count = -1
                /\ t = "woken" => life'[y] = "signalled" /\ sem.count = 0
    <3>1. life[y] # "owned" => iSyncSem'[iDcb[y]] = iSyncSem[iDcb[y]]
      BY <2>2, <2>3, <2>7, <1>t
    <3> QED  BY <3>1, <2>1, <2>5, <2>7, <1>t DEF SemInv
  <2>8. ASSUME NEW s \in Slots,
               \A y \in SyncXfers : life'[y] # "owned" => iDcb'[y] # s
        PROVE  iSyncSem'[s].count = 0
    <3>1. s # d
      BY <2>1, <2>6, <2>8
    <3>2. \A y \in SyncXfers : life[y] # "owned" => iDcb[y] # s
      BY <2>1, <2>6, <2>8, <1>t
    <3> QED  BY <3>1, <3>2, <2>3 DEF SemInv
  <2> QED  BY <2>1, <2>3, <2>4, <2>6, <2>7, <2>8 DEF SemInv
<1>7. ASSUME NEW c \in Clients, TransferSReturn(c)  PROVE SemInv'
  <2>1. /\ thread[c] = "woken" /\ UNCHANGED <<iDcb, iSyncSem>>
        /\ thread' = [thread EXCEPT ![c] = "run"]
        /\ life' = [x \in Xfers |->
                      IF x \in SyncXfers /\ Owner[x] = c THEN "owned" ELSE life[x]]
    BY <1>7 DEF TransferSReturn
  <2>2. \A s \in Slots :
            (\A x \in SyncXfers : life'[x] # "owned" => iDcb'[x] # s)
                => iSyncSem'[s].count = 0
    <3> SUFFICES ASSUME NEW s \in Slots,
                        \A x \in SyncXfers : life'[x] # "owned" => iDcb[x] # s
                 PROVE  iSyncSem[s].count = 0
      BY <2>1
    <3>1. CASE \E x \in SyncXfers : Owner[x] = c /\ iDcb[x] = s
      BY <3>1, <2>1 DEF SemInv
    <3>2. CASE \A x \in SyncXfers : Owner[x] = c => iDcb[x] # s
      <4>1. \A x \in SyncXfers : life[x] # "owned" => iDcb[x] # s
        BY <3>2, <2>1, <1>t
      <4> QED  BY <4>1 DEF SemInv
    <3> QED  BY <3>1, <3>2
  <2> QED  BY <2>1, <2>2, <1>t DEF SemInv
<1>8. CASE CompletePop
  <2>1. Head(iTransferQ) \in Xfers /\ life[Head(iTransferQ)] = "queued"
    BY <1>8, HeadQueued DEF CompletePop, Working
  <2>2. /\ UNCHANGED <<thread, iDcb, iSyncSem>>
        /\ \A y \in Xfers : /\ life'[y] = "owned" <=> life[y] = "owned"
                            /\ life'[y] = "signalled" <=> life[y] = "signalled"
    BY <1>8, <2>1, <1>t DEF CompletePop, clientVars
  <2> QED  BY <2>2, <1>t DEF SemInv
<1>9. CASE \/ DfcStart \/ DfcEnter \/ LoopNack \/ LoopArbitrationLost
           \/ LoopNextPhase \/ LoopDone \/ LoopData \/ TheIsr \/ HwProgress
           \/ HwNack \/ HwArbitrationLost
  BY <1>9, ControlUnchanged DEF clientVars, SemInv
<1> QED
  BY <1>1, <1>2, <1>3, <1>4, <1>5, <1>6, <1>7, <1>8, <1>9 DEF Next, DfcSteps

-----------------------------------------------------------------------------
(* Every step keeps the controller in the service of the active transfer *)

\* A step that leaves the driver's side and the controller alone, but for the
\* queue's tail and the unit's power.
LEMMA BusUnchanged ==
    ASSUME BusInv, UNCHANGED <<iState, stat>>, dfcPc' = "loop" => dfcPc = "loop",
           hw'.run = hw.run, hw'.mst = hw.mst, hw'.sa = hw.sa, hw'.stat = hw.stat,
           hw.run => Head(iTransferQ') = Head(iTransferQ)
    PROVE  BusInv'
  BY DEF BusInv

LEMMA BusHw ==
    ASSUME TypeOK, BusInv, HwProgress \/ HwNack \/ HwArbitrationLost
    PROVE  BusInv'
<1> USE DEF BusInv
<1>1. hw \in Controllers
  BY DEF TypeOK
<1>2. UNCHANGED <<iState, iTransferQ, dfcPc, stat>>
  BY HwTyped DEF queueVars, dfcVars
<1>3. CASE HwFifo
  BY <1>1, <1>2, <1>3 DEF HwFifo, Hw, Controllers
<1>4. CASE HwReady
  BY <1>1, <1>2, <1>4 DEF HwReady, Hw, Controllers
<1>5. CASE OtherMasterStops
  BY <1>1, <1>2, <1>5 DEF OtherMasterStops, Hw, Controllers
<1>6. CASE HwNack
  BY <1>1, <1>2, <1>6 DEF HwNack, Hw, Controllers
<1>7. CASE HwArbitrationLost
  <2>1. \/ hw' = [hw EXCEPT !.run = FALSE, !.mst = FALSE, !.stp = FALSE,
                           !.stat = @ \union {"al"}]
        \/ hw' = [hw EXCEPT !.stat = @ \union {"al"}]
    BY <1>7 DEF HwArbitrationLost, Hw
  <2>2. hw.run
    BY <1>7 DEF HwArbitrationLost
  <2>3. hw'.sa = hw.sa /\ (hw'.run => hw'.mst = hw.mst)
        /\ hw'.stat = hw.stat \union {"al"}
    BY <2>1, <1>1 DEF Controllers
  <2> QED  BY <1>2, <2>2, <2>3
<1> QED  BY <1>3, <1>4, <1>5, <1>6, <1>7 DEF HwProgress

LEMMA BusStep ==
    ASSUME TypeOK, ActiveIsHead, QueueHoldsSubmitted, TableInv, CloseInv, WorkInv,
           SlotInv, BusInv, Next
    PROVE  BusInv'
<1>h. hw \in Controllers
  BY DEF TypeOK
<1>1. ASSUME NEW c \in Clients, OpenFirst(c)  PROVE BusInv'
  <2>1. CASE Config[c] \in Supported
    <3>1. Open = {}
      BY <1>1 DEF OpenFirst, TableInv, InUse
    <3>2. \A x \in Xfers : life[x] = "owned"
      BY <3>1, ConstAssumption DEF CloseInv, Open
    <3>3. ~Working
      BY <3>2, HeadQueued
    <3>4. hw' = HwReset /\ iState' = "EIdle" /\ dfcPc' # "loop"
      BY <1>1, <2>1, <3>3 DEF OpenFirst, Working, queueVars, dfcVars
    <3> QED  BY <3>4 DEF BusInv, HwReset
  <2>2. CASE Config[c] \notin Supported
    BY <1>1, <2>2, BusUnchanged DEF OpenFirst, queueVars, dfcVars
  <2> QED  BY <2>1, <2>2
<1>2. ASSUME NEW c \in Clients,
             OpenAnother(c) \/ CloseFind(c) \/ TransferSReturn(c)
      PROVE  BusInv'
  BY <1>2, BusUnchanged DEF OpenAnother, CloseFind, TransferSReturn, queueVars, dfcVars
<1>3. ASSUME NEW c \in Clients, CloseShift(c)  PROVE BusInv'
  <2>1. hw' = [hw EXCEPT !.clock = @ /\ iNumDevices # 0]
        /\ UNCHANGED <<iTransferQ, iState, stat, dfcPc>>
    BY <1>3 DEF CloseShift, queueVars, dfcVars
  <2>2. hw'.run = hw.run /\ hw'.mst = hw.mst /\ hw'.sa = hw.sa /\ hw'.stat = hw.stat
    BY <2>1, <1>h DEF Controllers
  <2> QED  BY <2>1, <2>2, BusUnchanged
<1>4. ASSUME NEW x \in Xfers,
             FSWait(x) \/ CompletionDfc(x) \/ SignalSync(x) \/ EnqueCompletion(x)
      PROVE  BusInv'
  BY <1>4, BusUnchanged DEF FSWait, CompletionDfc, SignalSync, EnqueCompletion,
                            queueVars, dfcVars
<1>5. ASSUME NEW x \in Xfers, TransferS(x, Zeros(x)) \/ TransferA(x, Zeros(x))
      PROVE  BusInv'
  <2>1. UNCHANGED <<iState, stat, dfcPc, hw>> /\ AddToQueue(x)
    BY <1>5 DEF TransferS, TransferA, Submit
  <2>2. hw.run => iTransferQ # <<>>
    BY DEF BusInv, ActiveIsHead, Working
  <2>3. hw.run => Head(iTransferQ') = Head(iTransferQ)
    BY <2>1, <2>2, HeadTail DEF AddToQueue
  <2> QED  BY <2>1, <2>3, BusUnchanged
<1>6. CASE DfcStart
  <2> DEFINE x == Head(iTransferQ)
  <2>1. x \in Xfers /\ life[x] = "queued"
    BY <1>6, HeadQueued DEF DfcStart, Working
  <2>2. iDevice[iDcb[x]] = Address[Owner[x]]
    BY <2>1 DEF SlotInv
  <2>3. /\ hw'.mst /\ hw'.sa = Address[Owner[x]] /\ hw'.stat = hw.stat
        /\ iTransferQ' = iTransferQ /\ iState = "EIdle" /\ dfcPc' # "loop"
    BY <1>6, <2>2, <1>h DEF DfcStart, Controllers
  <2>4. iState' # "EIdle"
    BY <1>6 DEF DfcStart
  <2> QED  BY <2>3, <2>4 DEF BusInv
<1>7. CASE DfcEnter
  BY <1>7 DEF DfcEnter, BusInv, queueVars
<1>8. CASE LoopNack
  BY <1>8 DEF LoopNack, StartComplete, Configured, HwReset, BusInv
<1>9. CASE LoopArbitrationLost
  <2>1. ~hw.mst /\ iState' = "EIdle" /\ dfcPc' # "loop"
        /\ hw' = [hw EXCEPT !.stat = @ \ {"al"}, !.stp = TRUE]
    BY <1>9 DEF LoopArbitrationLost, Lost, StartComplete
  <2>2. hw'.run = hw.run /\ hw'.stat \subseteq hw.stat
    BY <2>1, <1>h DEF Controllers
  <2> QED  BY <2>1, <2>2 DEF BusInv
<1>10. CASE LoopNextPhase \/ LoopDone
  <2>1. "ardy" \in stat /\ dfcPc = "loop" /\ iState' = "EIdle" /\ dfcPc' # "loop"
        /\ hw' = [hw EXCEPT !.stat = @ \ ({"ardy"} \union ClearAl)]
    BY <1>10 DEF LoopNextPhase, LoopDone, StartComplete
  <2>2. hw'.run = hw.run /\ hw'.stat \subseteq hw.stat /\ "ardy" \notin hw'.stat
    BY <2>1, <1>h DEF Controllers
  <2>3. "ardy" \in hw.stat
    BY <2>1 DEF BusInv
  <2> QED  BY <2>1, <2>2, <2>3 DEF BusInv
<1>11. CASE LoopData
  <2>1. /\ hw'.run = hw.run /\ hw'.mst = hw.mst /\ hw'.sa = hw.sa
        /\ hw'.stat \subseteq hw.stat /\ stat' = hw'.stat
        /\ UNCHANGED <<iState, iTransferQ>>
    BY <1>11, <1>h DEF LoopData, Controllers, queueVars
  <2> QED  BY <2>1 DEF BusInv
<1>12. CASE CompletePop
  <2>1. UNCHANGED <<iState, stat, hw>> /\ iState = "EIdle" /\ dfcPc' # "loop"
    BY <1>12 DEF CompletePop, WorkInv
  <2> QED  BY <2>1 DEF BusInv
<1>13. CASE TheIsr
  BY <1>13, BusUnchanged DEF TheIsr, queueVars
<1>14. CASE HwProgress \/ HwNack \/ HwArbitrationLost
  BY <1>14, BusHw
<1> QED
  BY <1>1, <1>2, <1>3, <1>4, <1>5, <1>6, <1>7, <1>8, <1>9, <1>10, <1>11, <1>12,
     <1>13, <1>14 DEF Next, DfcSteps

-----------------------------------------------------------------------------
(* The invariant holds initially and of every step *)

LEMMA InitIInv == Init => IInv
<1> SUFFICES ASSUME Init PROVE IInv
  OBVIOUS
<1> USE DEF Init
<1>1. \A x \in Xfers : Owner[x] \in Clients
  BY ConstAssumption
<1>2. HwReset \in Controllers /\ hw \in Controllers /\ ~hw.run /\ hw.stat = {}
  <2>1. HwReset \in Controllers /\ ~HwReset.run /\ HwReset.stat = {}
    BY HwResetTyped DEF HwReset
  <2>2. hw = [HwReset EXCEPT !.clock = FALSE]
    OBVIOUS
  <2> QED  BY <2>1, <2>2 DEF Controllers
<1>3. <<>> \in Seq(Xfers) /\ 0 \in Slots /\ 0 \in 0..KMaxDevicesPerUnit
  BY ConstAssumption DEF Slots
<1>4. iSyncSem \in [Slots -> Semaphores]
  BY DEF Semaphores
<1>5. TypeOK
  BY <1>2, <1>3, <1>4 DEF TypeOK
<1>6. ActiveIsHead
  BY DEF ActiveIsHead, Working
<1>7. QueueHoldsSubmitted
  BY DEF QueueHoldsSubmitted
<1>8. Open = {} /\ InUse = 0
  BY DEF Open, InUse
<1>9. TableInv /\ PowerInv
  BY <1>8, ConstAssumption DEF TableInv, PowerInv
<1>10. CloseInv /\ WorkInv /\ SlotInv
  BY <1>1 DEF CloseInv, WorkInv, SlotInv
<1>11. SemInv
  BY <1>1, ConstAssumption DEF SemInv
<1>12. BusInv
  BY <1>2 DEF BusInv
<1> QED  BY <1>5, <1>6, <1>7, <1>9, <1>10, <1>11, <1>12 DEF IInv

LEMMA IInvStep == IInv /\ [Next]_vars => IInv'
<1> SUFFICES ASSUME IInv, [Next]_vars PROVE IInv'
  OBVIOUS
<1> USE DEF IInv
<1>1. CASE Next
  BY <1>1, TypeStep, ActiveStep, QueueStep, TableStep, CloseStep, PowerStep,
     WorkStep, SlotStep, SemStep, BusStep
<1>2. CASE UNCHANGED vars
  BY <1>2 DEF vars, unitVars, clientVars, queueVars, blockVars, dfcVars, irqVars,
     TypeOK, ActiveIsHead, Working, QueueHoldsSubmitted, TableInv, InUse, Open,
     CloseInv, PowerInv, WorkInv, SlotInv, SemInv, BusInv
<1> QED  BY <1>1, <1>2

\* The driver's inductive invariant holds in every reachable state, for any number of clients,
\* transfers and phases and any bus faults.
THEOREM Invariance == Spec => []IInv
  BY InitIInv, IInvStep, PTL DEF Spec

\* The driver's state always has its types.
THEOREM TypeCorrect == Spec => []TypeOK
<1>1. IInv => TypeOK
  BY DEF IInv
<1> QED  BY <1>1, Invariance, PTL

\* While the driver works on a transfer, it is the head of the queue and the
\* current phase is one of its phases (i2c.cpp:84).
THEOREM ActiveTransferIsHead == Spec => []ActiveIsHead
<1>1. IInv => ActiveIsHead
  BY DEF IInv
<1> QED  BY <1>1, Invariance, PTL

\* The list never holds a block twice, and holds exactly those submitted and not
\* yet taken off by Complete().
THEOREM QueueIsSubmitted == Spec => []QueueHoldsSubmitted
<1>1. IInv => QueueHoldsSubmitted
  BY DEF IInv
<1> QED  BY <1>1, Invariance, PTL

\* The interrupt is enabled only while the controller works for the driver and no
\* DFC is due; the unit is then bound and clocked, because the active transfer's
\* device is open.
THEOREM InterruptsDisciplined == Spec => []InterruptDiscipline
<1>1. IInv => InterruptDiscipline
  <2> SUFFICES ASSUME IInv, enabled PROVE bound /\ hw.clock
    BY DEF InterruptDiscipline, IInv, WorkInv
  <2>1. Head(iTransferQ) \in Xfers /\ life[Head(iTransferQ)] = "queued"
    BY HeadQueued DEF IInv, Working
  <2>2. Owner[Head(iTransferQ)] \in Open
    BY <2>1, ConstAssumption DEF IInv, CloseInv, Open
  <2> QED  BY <2>2 DEF IInv, PowerInv
<1> QED  BY <1>1, Invariance, PTL

\* The slave addressed on the bus is the one the active transfer's client opened.
THEOREM SlaveIsRight == Spec => []RightSlave
<1>1. IInv => RightSlave
  BY DEF IInv, BusInv, RightSlave
<1> QED  BY <1>1, Invariance, PTL

\* TransferS() returns only after its own transfer was completed.
THEOREM OwnTransferWakes == Spec => []WokenByOwnTransfer
<1>1. IInv => WokenByOwnTransfer
  BY DEF IInv, SemInv, WokenByOwnTransfer
<1> QED  BY <1>1, Invariance, PTL

\* Outside Close() the open handles and the slots in use match one to one.
THEOREM TableIsHandles == Spec => []TableMatchesHandles
<1>1. IInv => TableMatchesHandles
  <2> SUFFICES ASSUME IInv, ~iOpenMutex PROVE TableMatchesHandles
    BY DEF TableMatchesHandles
  <2>1. 0..(InUse - 1) = 0..(iNumDevices - 1)
    BY DEF InUse, IInv, TypeOK
  <2> QED  BY <2>1 DEF IInv, TableInv, TableMatchesHandles, Open
<1> QED  BY <1>1, Invariance, PTL

-----------------------------------------------------------------------------
(* Every byte of a transfer is moved once, and no kernel assertion fails, on a bus
   whose arbitration is never lost: with "al" in BusFaults both are false. *)

\* What a step may change without disturbing either.
LEMMA BytesUnchanged ==
    ASSUME PhaseInv, BytesInv, UNCHANGED <<iState, iCurrentPhase, iData, iResult>>,
           hw'.type = hw.type, hw'.stp = hw.stp, hw'.cnt = hw.cnt,
           hw'.stat = hw.stat, hw'.busy = hw.busy, hw'.fault = hw.fault,
           iState = "EIdle" => dfcQueued' = dfcQueued,
           dfcPc' = "complete" => dfcPc = "complete" /\ iTransferQ' = iTransferQ,
           \A x \in Xfers : Finished(x)' => Finished(x)
    PROVE  PhaseInv' /\ BytesInv'
<1>1. Phase(iCurrentPhase)' = Phase(iCurrentPhase) /\ LastPhase(iCurrentPhase)' = LastPhase(iCurrentPhase)
      /\ FifoBit' = FifoBit
  BY DEF Phase, LastPhase, FifoBit
<1>2. PhaseInv'
  BY <1>1 DEF PhaseInv
<1>3. Left' = Left /\ Progress' = Progress
  BY <1>1 DEF Left, Progress
<1>4. \A x \in Xfers : Whole(x)' = Whole(x)
  BY DEF Whole
<1>5. dfcPc' = "complete" => Head(iTransferQ)' = Head(iTransferQ)
                            /\ Whole(Head(iTransferQ))' = Whole(Head(iTransferQ))
  BY DEF Whole
<1>6. BytesInv'
  BY <1>3, <1>4, <1>5 DEF BytesInv
<1> QED  BY <1>2, <1>6

\* The phase being worked on, and what has been moved of it.
LEMMA WorkedOn ==
    ASSUME TypeOK, ActiveIsHead, QueueHoldsSubmitted, BytesInv,
           iState # "EIdle" \/ dfcQueued
    PROVE  /\ Working /\ iTransferQ # <<>>
           /\ iCurrentPhase[1] = Head(iTransferQ) /\ iCurrentPhase[1] \in Xfers
           /\ life[iCurrentPhase[1]] = "queued"
           /\ iCurrentPhase[2] \in 1..Len(Phases[iCurrentPhase[1]])
           /\ Len(Phases[iCurrentPhase[1]]) \in Nat
           /\ \A k \in 1..Len(Phases[iCurrentPhase[1]]) :
                  Phases[iCurrentPhase[1]][k] \in PhaseBlock
           /\ Phase(iCurrentPhase) = Phases[iCurrentPhase[1]][iCurrentPhase[2]]
           /\ Phase(iCurrentPhase) \in PhaseBlock
           /\ iData[iCurrentPhase[1]] \in [1..Len(Phases[iCurrentPhase[1]]) -> Nat]
           /\ LastPhase(iCurrentPhase) \in BOOLEAN
<1>1. Working
  BY DEF Working
<1>2. iTransferQ # <<>> /\ Head(iTransferQ) \in Xfers /\ life[Head(iTransferQ)] = "queued"
  BY <1>1, HeadQueued
<1>3. iCurrentPhase[1] = Head(iTransferQ)
      /\ iCurrentPhase[2] \in 1..Len(Phases[Head(iTransferQ)])
  BY <1>1 DEF ActiveIsHead
<1>4. Phases[Head(iTransferQ)] \in Seq(PhaseBlock)
  BY <1>2, ConstAssumption
<1>5. Len(Phases[Head(iTransferQ)]) \in Nat
      /\ \A k \in 1..Len(Phases[Head(iTransferQ)]) : Phases[Head(iTransferQ)][k] \in PhaseBlock
  BY <1>4, ElementOfSeq
<1> QED  BY <1>1, <1>2, <1>3, <1>5 DEF Phase, LastPhase, BytesInv

\* The lengths of a phase are positive numbers.
LEMMA Lengths ==
    ASSUME NEW x \in Xfers, NEW k \in 1..Len(Phases[x])
    PROVE  Phases[x][k].len \in Nat \ {0} /\ Phases[x][k].type \in {"read", "write"}
<1>1. Phases[x] \in Seq(PhaseBlock)
  BY ConstAssumption
<1>2. Phases[x][k] \in PhaseBlock
  BY <1>1, ElementOfSeq
<1> QED  BY <1>2 DEF PhaseBlock

\* A client hands its block over.
LEMMA BytesSubmit ==
    ASSUME IInv, PhaseInv, BytesInv, NEW x \in Xfers,
           TransferS(x, Zeros(x)) \/ TransferA(x, Zeros(x))
    PROVE  PhaseInv' /\ BytesInv'
<1> USE DEF IInv
<1>1. /\ life[x] = "owned" /\ life' = [life EXCEPT ![x] = "queued"] /\ AddToQueue(x)
      /\ UNCHANGED <<iState, dfcPc, hw>>
  BY SubmitSteps
<1>2. iData' = [iData EXCEPT ![x] = Zeros(x)] /\ iResult' = iResult
  BY DEF TransferS, TransferA, Submit
<1>3. DOMAIN iData' = Xfers /\ iData'[x] = Zeros(x)
      /\ \A y \in Xfers : y # x => iData'[y] = iData[y]
  BY <1>2 DEF BytesInv
<1>4. Zeros(x) \in [1..Len(Phases[x]) -> Nat] /\ \A k \in 1..Len(Phases[x]) : Zeros(x)[k] = 0
  BY DEF Zeros
<1>5. \A y \in Xfers : iData'[y] \in [1..Len(Phases[y]) -> Nat]
  BY <1>3, <1>4 DEF BytesInv
<1>6. \A y \in Xfers : \A k \in 1..Len(Phases[y]) : iData'[y][k] <= Phases[y][k].len
  <2>1. \A k \in 1..Len(Phases[x]) : iData'[x][k] <= Phases[x][k].len
    BY <1>3, <1>4, Lengths
  <2> QED  BY <1>3, <2>1 DEF BytesInv
<1>7. ~Finished(x)' /\ \A y \in Xfers : y # x => Finished(y)' = Finished(y)
  BY <1>1 DEF Finished, TypeOK
<1>8. \A y \in Xfers : y # x => Whole(y)' = Whole(y)
  BY <1>3 DEF Whole
<1>9. \A y \in Xfers : (Finished(y) /\ iResult[y] = KErrNone => Whole(y))'
  BY <1>2, <1>7, <1>8 DEF BytesInv
<1>10. CASE iTransferQ = <<>>
  <2>1. ~Working
    BY <1>10 DEF ActiveIsHead
  <2>2. iCurrentPhase' = <<x, 1>> /\ dfcQueued' = TRUE /\ iState = "EIdle" /\ dfcPc = "out"
        /\ ~hw.busy
    BY <1>1, <1>10, <2>1 DEF AddToQueue, Working, TypeOK, PhaseInv, WorkInv, Controllers
  <2>3. PhaseInv'
    BY <1>1, <2>2 DEF PhaseInv
  <2>4. Left' = Phases[x][1].len
    BY <1>1, <2>2 DEF Left, Phase
  <2>5. Progress'
    <3> SUFFICES ASSUME NEW k \in 1..Len(Phases[x])
                 PROVE  /\ ~(k < 1)
                        /\ k = 1 => iData'[x][k] + Left' = Phases[x][k].len
                        /\ k > 1 => iData'[x][k] = 0
      BY <2>2 DEF Progress
    <3>1. Len(Phases[x]) \in Nat
      BY ConstAssumption
    <3>2. iData'[x][k] = 0 /\ Phases[x][k].len \in Nat
      BY <1>3, <1>4, Lengths
    <3>3. ~(k < 1)
      BY <3>1
    <3>4. ASSUME k = 1 PROVE iData'[x][k] + Left' = Phases[x][k].len
      BY <2>4, <3>2, <3>4
    <3> QED  BY <3>2, <3>3, <3>4
  <2> QED  BY <1>1, <1>3, <1>5, <1>6, <1>9, <2>2, <2>3, <2>5 DEF BytesInv
<1>11. CASE iTransferQ # <<>>
  <2>1. UNCHANGED <<iCurrentPhase, dfcQueued>> /\ Head(iTransferQ') = Head(iTransferQ)
    BY <1>1, <1>11, HeadTail DEF AddToQueue
  <2>2. PhaseInv'
    BY <1>1, <2>1 DEF PhaseInv, FifoBit, Phase, LastPhase
  <2>3. dfcPc = "complete" => Head(iTransferQ) # x /\ Head(iTransferQ) \in Xfers
    BY <1>1, HeadQueued DEF Working
  <2>4. (dfcPc = "complete" /\ iResult[Head(iTransferQ)] = KErrNone => Whole(Head(iTransferQ)))'
    BY <1>1, <1>2, <1>8, <2>1, <2>3 DEF BytesInv
  <2>5. (iState # "EIdle" \/ dfcQueued) => Progress'
    <3> SUFFICES ASSUME iState # "EIdle" \/ dfcQueued PROVE Progress'
      OBVIOUS
    <3>1. iCurrentPhase[1] \in Xfers /\ iCurrentPhase[1] # x
      BY <1>1, WorkedOn
    <3>2. iData'[iCurrentPhase[1]] = iData[iCurrentPhase[1]] /\ Left' = Left
      BY <1>1, <1>3, <2>1, <3>1 DEF Left, Phase
    <3>3. Progress
      BY DEF BytesInv
    <3> QED  BY <2>1, <3>2, <3>3 DEF Progress
  <2> QED  BY <1>1, <1>3, <1>5, <1>6, <1>9, <2>1, <2>2, <2>4, <2>5 DEF BytesInv
<1> QED  BY <1>10, <1>11

\* The controller is programmed for the current phase.
LEMMA BytesStart ==
    ASSUME IInv, PhaseInv, BytesInv, DfcStart
    PROVE  PhaseInv' /\ BytesInv'
<1> USE DEF IInv
<1> DEFINE ph == Phase(iCurrentPhase)
           x == iCurrentPhase[1]
<1>1. dfcQueued /\ iState = "EIdle" /\ dfcPc = "out"
  BY DEF DfcStart
<1>2. /\ x = Head(iTransferQ) /\ x \in Xfers
      /\ iCurrentPhase[2] \in 1..Len(Phases[x]) /\ ph = Phases[x][iCurrentPhase[2]]
      /\ ph.len \in Nat \ {0} /\ ph.type \in {"read", "write"}
  BY <1>1, WorkedOn DEF PhaseBlock
<1>3. iCurrentPhase = <<x, 1>> => ~hw.busy
  <2>1. iCurrentPhase = <<x, 1>> => iCurrentPhase[2] = 1
    OBVIOUS
  <2> QED  BY <1>1, <2>1 DEF PhaseInv
<1>4. ~(iCurrentPhase = <<Head(iTransferQ), 1>> /\ hw.busy)
  BY <1>2, <1>3
<1>5. /\ hw'.cnt = ph.len /\ hw'.type = ph.type /\ hw'.stp = LastPhase(iCurrentPhase)
      /\ hw'.stat = hw.stat /\ ~hw'.fault /\ hw'.run
      /\ iState' = (IF ph.type = "read" THEN "ERead" ELSE "EWrite")
      /\ UNCHANGED <<iCurrentPhase, iTransferQ, iData, iResult, life, dfcPc>>
  <2>1. hw \in Controllers /\ ~hw.fault
    BY DEF TypeOK, PhaseInv
  <2> QED  BY <1>4, <2>1 DEF DfcStart, Controllers, blockVars, queueVars
<1>6. hw.stat \cap DataBits = {} /\ "al" \notin hw.stat /\ "ardy" \notin hw.stat
  BY <1>1 DEF PhaseInv, BusInv
<1>7. iState' # "EIdle" /\ Phase(iCurrentPhase)' = ph /\ LastPhase(iCurrentPhase)' = LastPhase(iCurrentPhase)
  BY <1>5 DEF Phase, LastPhase
<1>8. PhaseInv'
  BY <1>2, <1>5, <1>6, <1>7 DEF PhaseInv
<1>9. Left' = Left
  BY <1>1, <1>5, <1>7 DEF Left
<1>10. Progress'
  BY <1>1, <1>5, <1>9 DEF BytesInv, Progress
<1>11. \A y \in Xfers : Whole(y)' = Whole(y) /\ Finished(y)' = Finished(y)
  BY <1>5 DEF Whole, Finished
<1> QED  BY <1>1, <1>5, <1>8, <1>10, <1>11 DEF BytesInv

\* A transfer ends: with success only after its last phase.
LEMMA BytesEnd ==
    ASSUME IInv, PhaseInv, BytesInv, LoopNack \/ LoopDone
    PROVE  PhaseInv' /\ BytesInv'
<1> USE DEF IInv
<1> DEFINE x == iCurrentPhase[1]
<1>1. dfcPc = "loop" /\ iState # "EIdle" /\ ~dfcQueued /\ stat \subseteq hw.stat
  BY DEF LoopNack, LoopDone, WorkInv, BusInv
<1>2. /\ x = Head(iTransferQ) /\ x \in Xfers /\ life[x] = "queued"
      /\ iCurrentPhase[2] \in 1..Len(Phases[x]) /\ Len(Phases[x]) \in Nat
      /\ iData[x] \in [1..Len(Phases[x]) -> Nat]
  BY <1>1, WorkedOn
<1>3. /\ iState' = "EIdle" /\ dfcPc' = "complete" /\ dfcQueued' = FALSE
      /\ UNCHANGED <<iTransferQ, iCurrentPhase, iData, life>>
      /\ \E r \in {KErrNone, KErrGeneral} :
            /\ iResult' = [iResult EXCEPT ![x] = r]
            /\ r = KErrNone => LoopDone
  BY <1>1, <1>2 DEF LoopNack, LoopDone, StartComplete, KErrNone, KErrGeneral
<1>4. hw'.stat \subseteq hw.stat /\ "al" \notin hw'.stat /\ ~hw'.fault
      /\ hw'.stat \cap DataBits = {} /\ ~hw'.busy
  <2>1. hw \in Controllers /\ ~hw.fault /\ "al" \notin hw.stat
    BY DEF TypeOK, PhaseInv
  <2>2. CASE LoopNack
    BY <2>1, <2>2 DEF LoopNack, Configured, HwReset
  <2>3. CASE LoopDone
    <3>1. "ardy" \in hw.stat /\ LastPhase(iCurrentPhase)
          /\ hw' = [hw EXCEPT !.stat = @ \ ({"ardy"} \union ClearAl)]
      BY <1>1, <2>3 DEF LoopDone
    <3>2. hw.stat \cap DataBits = {} /\ ~hw.busy
      BY <1>1, <2>1, <3>1 DEF PhaseInv, Controllers
    <3>3. hw'.stat \subseteq hw.stat /\ hw'.busy = hw.busy /\ hw'.fault = hw.fault
      BY <2>1, <3>1 DEF Controllers
    <3> QED  BY <2>1, <3>2, <3>3
  <2> QED  BY <2>2, <2>3
<1>5. PhaseInv'
  BY <1>3, <1>4 DEF PhaseInv
<1>6. ASSUME LoopDone PROVE Whole(x)
  <2>1. "ardy" \in hw.stat /\ iCurrentPhase[2] = Len(Phases[x]) /\ hw.cnt = 0
    BY <1>1, <1>6 DEF LoopDone, LastPhase, PhaseInv
  <2>2. Progress /\ Left = 0
    BY <1>1, <2>1 DEF BytesInv, Left
  <2>3. ASSUME NEW k \in 1..Len(Phases[x]) PROVE iData[x][k] = Phases[x][k].len
    <3>1. iData[x][k] \in Nat /\ Phases[x][k].len \in Nat
      BY <1>2, Lengths
    <3>2. k < iCurrentPhase[2] \/ k = iCurrentPhase[2]
      BY <1>2, <2>1
    <3> QED  BY <2>2, <3>1, <3>2 DEF Progress
  <2> QED  BY <2>3 DEF Whole
<1>7. iResult' [x] = KErrNone => Whole(x)
  BY <1>2, <1>3, <1>6 DEF TypeOK, KErrNone, KErrGeneral
<1>8. \A y \in Xfers : Whole(y)' = Whole(y) /\ Finished(y)' = Finished(y)
  BY <1>3 DEF Whole, Finished
<1>9. ~Finished(x) /\ \A y \in Xfers : y # x => iResult'[y] = iResult[y]
  BY <1>2, <1>3 DEF Finished, TypeOK
<1>10. (dfcPc = "complete" /\ iResult[Head(iTransferQ)] = KErrNone => Whole(Head(iTransferQ)))'
  BY <1>2, <1>3, <1>7, <1>8
<1> QED  BY <1>3, <1>5, <1>8, <1>9, <1>10 DEF BytesInv

\* The next phase becomes the current one.
LEMMA BytesNextPhase ==
    ASSUME IInv, PhaseInv, BytesInv, LoopNextPhase
    PROVE  PhaseInv' /\ BytesInv'
<1> USE DEF IInv
<1> DEFINE x == iCurrentPhase[1]
           n == iCurrentPhase[2]
<1>1. dfcPc = "loop" /\ iState # "EIdle" /\ stat \subseteq hw.stat /\ "ardy" \in hw.stat
  BY DEF LoopNextPhase, WorkInv, BusInv
<1>2. /\ x \in Xfers /\ n \in 1..Len(Phases[x]) /\ Len(Phases[x]) \in Nat
      /\ iData[x] \in [1..Len(Phases[x]) -> Nat]
  BY <1>1, WorkedOn
<1>3. /\ iCurrentPhase' = <<x, n + 1>> /\ iState' = "EIdle" /\ dfcQueued' /\ dfcPc' = "out"
      /\ UNCHANGED <<iTransferQ, iData, iResult, life>> /\ n # Len(Phases[x])
      /\ hw' = [hw EXCEPT !.stat = @ \ ({"ardy"} \union ClearAl)]
  BY DEF LoopNextPhase, LastPhase, blockVars
<1>4. iCurrentPhase'[1] = x /\ iCurrentPhase'[2] = n + 1 /\ n + 1 \in 1..Len(Phases[x])
  BY <1>2, <1>3
<1>5. hw.cnt = 0 /\ hw.stat \cap DataBits = {} /\ "al" \notin hw.stat /\ ~hw.fault
  BY <1>1 DEF PhaseInv
<1>6. hw'.stat \subseteq hw.stat /\ hw'.fault = hw.fault
  BY <1>3 DEF TypeOK, Controllers
<1>7. PhaseInv'
  BY <1>2, <1>3, <1>4, <1>5, <1>6 DEF PhaseInv
<1>8. Progress /\ Left = 0
  BY <1>1, <1>5 DEF BytesInv, Left
<1>9. Left' = Phases[x][n + 1].len
  BY <1>3, <1>4 DEF Left, Phase
<1>10. Progress'
  <2> SUFFICES ASSUME NEW k \in 1..Len(Phases[x])
               PROVE  /\ k < n + 1 => iData[x][k] = Phases[x][k].len
                      /\ k = n + 1 => iData[x][k] + Phases[x][n + 1].len = Phases[x][k].len
                      /\ k > n + 1 => iData[x][k] = 0
    BY <1>3, <1>4, <1>9 DEF Progress
  <2>1. iData[x][k] \in Nat /\ Phases[x][k].len \in Nat
    BY <1>2, Lengths
  <2>2. /\ k < n => iData[x][k] = Phases[x][k].len
        /\ k = n => iData[x][k] + 0 = Phases[x][k].len
        /\ k > n => iData[x][k] = 0
    BY <1>8 DEF Progress
  <2> QED  BY <1>2, <2>1, <2>2
<1>11. \A y \in Xfers : Whole(y)' = Whole(y) /\ Finished(y)' = Finished(y)
  BY <1>3 DEF Whole, Finished
<1> QED  BY <1>3, <1>7, <1>10, <1>11 DEF BytesInv

\* A bit of the FIFO moves what is there to be moved, and no more than is left.
LEMMA MovedIsLeft ==
    ASSUME IInv, PhaseInv, iState # "EIdle", NEW bits, bits \subseteq hw.stat \cap DataBits
    PROVE  /\ Moved(bits) \in 0..hw.cnt
           /\ bits \cap (IF iState = "ERead" THEN {"xdr", "xrdy"} ELSE {"rdr", "rrdy"}) = {}
<1>1. bits \subseteq {FifoBit} /\ hw.cnt \in Nat
      /\ iState = (IF hw.type = "read" THEN "ERead" ELSE "EWrite")
  BY DEF PhaseInv
<1>2. Threshold \in Nat
  BY ConstAssumption
<1>3. CASE hw.type = "read"
  BY <1>1, <1>2, <1>3 DEF Moved, FifoBit
<1>4. CASE hw.type # "read"
  BY <1>1, <1>2, <1>4 DEF Moved, FifoBit
<1> QED  BY <1>3, <1>4

LEMMA BytesData ==
    ASSUME IInv, PhaseInv, BytesInv, LoopData
    PROVE  PhaseInv' /\ BytesInv'
<1> USE DEF IInv
<1> DEFINE x == iCurrentPhase[1]
           n == iCurrentPhase[2]
           served == stat \cap DataBits
           m == Moved(served)
           left == hw.stat \ (served \union ClearAl)
<1>1. dfcPc = "loop" /\ iState # "EIdle" /\ stat \subseteq hw.stat
  BY DEF LoopData, WorkInv, BusInv
<1>2. /\ x = Head(iTransferQ) /\ x \in Xfers /\ life[x] = "queued"
      /\ n \in 1..Len(Phases[x]) /\ Len(Phases[x]) \in Nat
      /\ iData[x] \in [1..Len(Phases[x]) -> Nat]
  BY <1>1, WorkedOn
<1>3. m \in 0..hw.cnt
      /\ served \cap (IF iState = "ERead" THEN {"xdr", "xrdy"} ELSE {"rdr", "rrdy"}) = {}
  BY <1>1, MovedIsLeft
<1>4. hw.cnt \in Nat /\ hw \in Controllers /\ ~hw.fault /\ "al" \notin hw.stat
  BY <1>1 DEF PhaseInv, TypeOK
<1>5. /\ iData' = [iData EXCEPT ![x][n] = @ + m]
      /\ hw' = [hw EXCEPT !.stat = left, !.cnt = @ - m,
            !.fault = @ \/ served \cap (IF iState = "ERead" THEN {"xdr", "xrdy"}
                                         ELSE {"rdr", "rrdy"}) # {}]
      /\ dfcPc' \in {"out", "loop"}
      /\ UNCHANGED <<iTransferQ, iCurrentPhase, iState, iResult, life, dfcQueued>>
  BY DEF LoopData, queueVars
<1> HIDE DEF m
<1>6. /\ hw'.stat = left /\ hw'.cnt = hw.cnt - m /\ hw'.cnt \in Nat /\ ~hw'.fault
      /\ hw'.type = hw.type /\ hw'.stp = hw.stp /\ hw'.busy = hw.busy
  BY <1>3, <1>4, <1>5 DEF Controllers
<1>7. left \cap DataBits = {} \/ served = {}
  BY <1>1 DEF PhaseInv
<1>8. served = {} => m = 0
  BY <1>4 DEF m, Moved
<1>9. PhaseInv'
  <2>1. Phase(iCurrentPhase)' = Phase(iCurrentPhase) /\ LastPhase(iCurrentPhase)' = LastPhase(iCurrentPhase)
    BY <1>5 DEF Phase, LastPhase
  <2>2. hw'.stat \cap DataBits \subseteq {FifoBit}'
    <3>1. CASE served = {}
      <4>1. FifoBit' = FifoBit
        BY <1>4, <1>6, <1>8, <3>1 DEF FifoBit
      <4> QED  BY <1>1, <1>6, <4>1 DEF PhaseInv
    <3>2. CASE served # {}
      BY <1>6, <1>7, <3>2
    <3> QED  BY <3>1, <3>2
  <2>3. "ardy" \in hw'.stat => hw'.cnt = 0 /\ hw'.stat \cap DataBits = {} /\ (hw'.busy => ~hw'.stp)
    <3> SUFFICES ASSUME "ardy" \in left
                 PROVE  hw'.cnt = 0 /\ left \cap DataBits = {} /\ (hw'.busy => ~hw'.stp)
      BY <1>6
    <3>1. "ardy" \in hw.stat /\ hw.cnt = 0 /\ hw.stat \cap DataBits = {} /\ (hw.busy => ~hw.stp)
      BY <1>1 DEF PhaseInv
    <3>2. m = 0
      BY <1>3, <3>1
    <3> QED  BY <1>6, <3>1, <3>2
  <2> QED  BY <1>1, <1>4, <1>5, <1>6, <2>1, <2>2, <2>3 DEF PhaseInv
<1>10. Progress /\ Left = hw.cnt
  BY <1>1 DEF BytesInv, Left
<1>11. iData[x][n] + hw.cnt = Phases[x][n].len /\ iData[x][n] \in Nat /\ Phases[x][n].len \in Nat
  BY <1>2, <1>10, Lengths DEF Progress
<1>12. /\ DOMAIN iData' = Xfers /\ \A y \in Xfers : y # x => iData'[y] = iData[y]
       /\ DOMAIN iData'[x] = 1..Len(Phases[x]) /\ iData'[x] \in [1..Len(Phases[x]) -> Nat]
       /\ iData'[x][n] = iData[x][n] + m
       /\ \A k \in 1..Len(Phases[x]) : k # n => iData'[x][k] = iData[x][k]
  <2>1. m \in Nat
    BY <1>3, <1>4
  <2>2. iData[x][n] + m \in Nat
    BY <1>11, <2>1
  <2>3. iData' = [iData EXCEPT ![x] = [iData[x] EXCEPT ![n] = iData[x][n] + m]]
    BY <1>5
  <2>4. DOMAIN iData = Xfers
    BY DEF BytesInv
  <2> QED  BY <1>2, <2>2, <2>3, <2>4
<1>13. \A y \in Xfers : iData'[y] \in [1..Len(Phases[y]) -> Nat]
  BY <1>12 DEF BytesInv
<1>14. \A y \in Xfers : \A k \in 1..Len(Phases[y]) : iData'[y][k] <= Phases[y][k].len
  <2>1. iData'[x][n] <= Phases[x][n].len
    BY <1>3, <1>4, <1>11, <1>12
  <2> QED  BY <1>2, <1>12, <2>1 DEF BytesInv
<1>15. Progress'
  <2>1. Left' = hw.cnt - m
    BY <1>1, <1>5, <1>6 DEF Left
  <2>2. iData'[x][n] + (hw.cnt - m) = Phases[x][n].len
    BY <1>3, <1>4, <1>11, <1>12
  <2>3. ASSUME NEW k \in 1..Len(Phases[x])
        PROVE  /\ k < n => iData'[x][k] = Phases[x][k].len
               /\ k = n => iData'[x][k] + (hw.cnt - m) = Phases[x][k].len
               /\ k > n => iData'[x][k] = 0
    BY <1>2, <1>10, <1>12, <2>2 DEF Progress
  <2> QED  BY <1>5, <2>1, <2>3 DEF Progress
<1>16. \A y \in Xfers : y # x => Whole(y)' = Whole(y)
  BY <1>12 DEF Whole
<1>17. ~Finished(x) /\ \A y \in Xfers : Finished(y)' = Finished(y)
  BY <1>2, <1>5 DEF Finished
<1> QED  BY <1>5, <1>9, <1>12, <1>13, <1>14, <1>15, <1>16, <1>17 DEF BytesInv

\* The controller's own steps.
LEMMA BytesHw ==
    ASSUME "al" \notin BusFaults, IInv, PhaseInv, BytesInv,
           HwProgress \/ HwNack \/ HwArbitrationLost
    PROVE  PhaseInv' /\ BytesInv'
<1> USE DEF IInv
<1>1. hw \in Controllers /\ Threshold \in Nat
  BY ConstAssumption DEF TypeOK
<1>2. UNCHANGED <<iState, iTransferQ, iCurrentPhase, iData, iResult, life, dfcPc, dfcQueued>>
  BY HwTyped DEF queueVars, dfcVars, blockVars
<1>3. hw'.cnt = hw.cnt /\ hw'.type = hw.type /\ hw'.stp = hw.stp /\ hw'.fault = hw.fault
  BY <1>1 DEF HwProgress, HwFifo, HwReady, OtherMasterStops, HwNack, HwArbitrationLost, Hw,
              Controllers
<1>4. FifoBit' = FifoBit /\ Phase(iCurrentPhase)' = Phase(iCurrentPhase)
      /\ LastPhase(iCurrentPhase)' = LastPhase(iCurrentPhase)
  BY <1>2, <1>3 DEF FifoBit, Phase, LastPhase
<1>5. PhaseInv'
  <2>1. CASE HwFifo
    <3>1. /\ hw.run /\ hw.stat \cap DataBits = {} /\ hw'.stat = hw.stat \cup {FifoBit}
          /\ hw'.busy = hw.busy
      BY <1>1, <2>1 DEF HwFifo, Hw, FifoBit, Controllers
    <3>2. iState # "EIdle" /\ "ardy" \notin hw.stat /\ FifoBit \notin {"al", "ardy"}
      BY <3>1 DEF BusInv, FifoBit
    <3> QED  BY <1>2, <1>3, <1>4, <3>1, <3>2 DEF PhaseInv
  <2>2. CASE HwReady
    <3>1. /\ hw.run /\ hw.stat \cap DataBits = {} /\ hw.cnt = 0 /\ hw'.busy = ~hw.stp
          /\ hw'.stat \in {hw.stat \cup {"ardy", "bf"}, hw.stat \cup {"ardy"}}
      BY <1>1, <2>2 DEF HwReady, Hw, Controllers
    <3>2. iState # "EIdle"
      BY <3>1 DEF BusInv
    <3>3. hw'.stat \cap DataBits = {} /\ ("al" \in hw'.stat => "al" \in hw.stat)
      BY <3>1 DEF DataBits
    <3>4. hw'.busy => ~hw'.stp
      BY <1>1, <1>3, <3>1 DEF Controllers
    <3> QED  BY <1>2, <1>3, <1>4, <3>1, <3>2, <3>3, <3>4 DEF PhaseInv
  <2>3. CASE OtherMasterStops
    <3>1. hw'.stat = hw.stat /\ ~hw'.busy
      BY <1>1, <2>3 DEF OtherMasterStops, Hw, Controllers
    <3> QED  BY <1>2, <1>3, <1>4, <3>1 DEF PhaseInv
  <2>4. CASE HwNack
    <3>1. hw.run /\ hw'.stat = hw.stat \cup {"nack"} /\ hw'.busy = hw.busy
      BY <1>1, <2>4 DEF HwNack, Hw, Controllers
    <3>2. iState # "EIdle" /\ "ardy" \notin hw.stat
      BY <3>1 DEF BusInv
    <3>3. hw'.stat \cap DataBits = hw.stat \cap DataBits /\ "ardy" \notin hw'.stat
          /\ ("al" \in hw'.stat => "al" \in hw.stat)
      BY <3>1, <3>2 DEF DataBits
    <3> QED  BY <1>2, <1>3, <1>4, <3>1, <3>2, <3>3 DEF PhaseInv
  <2>5. ~HwArbitrationLost
    BY DEF HwArbitrationLost
  <2> QED  BY <2>1, <2>2, <2>3, <2>4, <2>5 DEF HwProgress
<1>6. Left' = Left /\ Progress' = Progress
  BY <1>2, <1>3, <1>4 DEF Left, Progress
<1>7. \A y \in Xfers : Whole(y)' = Whole(y) /\ Finished(y)' = Finished(y)
  BY <1>2 DEF Whole, Finished
<1>8. Whole(Head(iTransferQ))' = Whole(Head(iTransferQ))
  BY <1>2 DEF Whole
<1> QED  BY <1>2, <1>5, <1>6, <1>7, <1>8 DEF BytesInv

\* Complete() takes the head off.
LEMMA BytesPop ==
    ASSUME IInv, PhaseInv, BytesInv, CompletePop
    PROVE  PhaseInv' /\ BytesInv'
<1> USE DEF IInv
<1> DEFINE x == Head(iTransferQ)
<1>1. dfcPc = "complete" /\ iState = "EIdle" /\ ~dfcQueued /\ x \in Xfers
  BY HeadQueued DEF CompletePop, WorkInv, Working
<1>2. /\ life' = [life EXCEPT ![x] = "popped"] /\ dfcPc' = "out"
      /\ UNCHANGED <<iCurrentPhase, iState, iData, iResult, dfcQueued, hw>>
  BY DEF CompletePop
<1>3. PhaseInv'
  BY <1>1, <1>2 DEF PhaseInv
<1>4. \A y \in Xfers : Whole(y)' = Whole(y)
  BY <1>2 DEF Whole
<1>5. \A y \in Xfers : y # x => Finished(y)' = Finished(y)
  BY <1>1, <1>2 DEF Finished, TypeOK
<1>6. iResult[x] = KErrNone => Whole(x)
  BY <1>1 DEF BytesInv
<1>7. \A y \in Xfers : (Finished(y) /\ iResult[y] = KErrNone => Whole(y))'
  BY <1>2, <1>4, <1>5, <1>6 DEF BytesInv
<1> QED  BY <1>1, <1>2, <1>3, <1>7 DEF BytesInv

LEMMA BytesStep ==
    ASSUME "al" \notin BusFaults, IInv, PhaseInv, BytesInv, [Next]_vars
    PROVE  PhaseInv' /\ BytesInv'
<1>t. TypeOK /\ hw \in Controllers
  BY DEF IInv, TypeOK
<1>1. ASSUME NEW c \in Clients, OpenFirst(c) PROVE PhaseInv' /\ BytesInv'
  <2>1. CASE Config[c] \in Supported
    <3>1. Open = {}
      BY <1>1, <1>t DEF OpenFirst, IInv, TableInv, InUse
    <3>2. \A x \in Xfers : life[x] = "owned"
      BY <3>1, ConstAssumption DEF IInv, CloseInv, Open
    <3>3. ~Working
      BY <3>2, HeadQueued DEF IInv
    <3>4. /\ hw' = HwReset /\ iState = "EIdle" /\ ~dfcQueued /\ dfcPc = "out"
          /\ UNCHANGED <<iState, dfcQueued, dfcPc, iData, iResult, life, iCurrentPhase>>
      BY <1>1, <1>t, <2>1, <3>3 DEF OpenFirst, Working, TypeOK, queueVars, dfcVars, blockVars
    <3>5. PhaseInv'
      BY <3>4 DEF PhaseInv, HwReset
    <3>6. \A x \in Xfers : Whole(x)' = Whole(x) /\ Finished(x)' = Finished(x)
      BY <3>4 DEF Whole, Finished
    <3> QED  BY <3>4, <3>5, <3>6 DEF BytesInv
  <2>2. CASE Config[c] \notin Supported
    BY <1>1, <2>2, BytesUnchanged DEF OpenFirst, queueVars, dfcVars, blockVars, Finished
  <2> QED  BY <2>1, <2>2
<1>2. ASSUME NEW c \in Clients, OpenAnother(c) \/ CloseFind(c)
      PROVE  PhaseInv' /\ BytesInv'
  BY <1>2, BytesUnchanged DEF OpenAnother, CloseFind, queueVars, dfcVars, blockVars, Finished
<1>3. ASSUME NEW c \in Clients, CloseShift(c) PROVE PhaseInv' /\ BytesInv'
  <2>1. hw' = [hw EXCEPT !.clock = @ /\ iNumDevices # 0]
        /\ UNCHANGED <<iTransferQ, iState, iCurrentPhase, dfcQueued, dfcPc, iData, iResult, life>>
    BY <1>3 DEF CloseShift, queueVars, dfcVars, blockVars
  <2>2. /\ hw'.type = hw.type /\ hw'.stp = hw.stp /\ hw'.cnt = hw.cnt
        /\ hw'.stat = hw.stat /\ hw'.busy = hw.busy /\ hw'.fault = hw.fault
    BY <2>1, <1>t DEF Controllers
  <2> QED  BY <2>1, <2>2, BytesUnchanged DEF Finished
<1>4. ASSUME NEW c \in Clients, TransferSReturn(c) PROVE PhaseInv' /\ BytesInv'
  <2>1. UNCHANGED <<iTransferQ, iState, iCurrentPhase, dfcQueued, dfcPc, iData, iResult, hw>>
        /\ \A x \in Xfers : life'[x] = "owned" \/ life'[x] = life[x]
    BY <1>4 DEF TransferSReturn, queueVars, dfcVars
  <2> QED  BY <2>1, BytesUnchanged DEF Finished
<1>5. ASSUME NEW x \in Xfers, FSWait(x) PROVE PhaseInv' /\ BytesInv'
  BY <1>5, BytesUnchanged DEF FSWait, queueVars, dfcVars, blockVars, Finished
<1>6. ASSUME NEW x \in Xfers, CompletionDfc(x) \/ SignalSync(x) \/ EnqueCompletion(x)
      PROVE  PhaseInv' /\ BytesInv'
  <2>1. UNCHANGED <<iTransferQ, iState, iCurrentPhase, dfcQueued, dfcPc, iData, iResult, hw>>
    BY <1>6 DEF CompletionDfc, SignalSync, EnqueCompletion, queueVars, dfcVars
  <2>2. \A y \in Xfers : Finished(y)' => Finished(y)
    BY <1>6, <1>t DEF CompletionDfc, SignalSync, EnqueCompletion, Finished, TypeOK
  <2> QED  BY <2>1, <2>2, BytesUnchanged
<1>7. ASSUME NEW x \in Xfers, TransferS(x, Zeros(x)) \/ TransferA(x, Zeros(x))
      PROVE  PhaseInv' /\ BytesInv'
  BY <1>7, BytesSubmit
<1>8. CASE DfcStart
  BY <1>8, BytesStart
<1>9. CASE DfcEnter \/ TheIsr
  <2>1. iState # "EIdle"
    BY <1>9 DEF DfcEnter, TheIsr, IInv, WorkInv
  <2>2. UNCHANGED <<iTransferQ, iState, iCurrentPhase, iData, iResult, life, hw>>
        /\ (dfcPc' = "complete" => dfcPc = "complete")
    BY <1>9 DEF DfcEnter, TheIsr, queueVars, blockVars
  <2> QED  BY <2>1, <2>2, BytesUnchanged DEF Finished
<1>10. CASE LoopNack \/ LoopDone
  BY <1>10, BytesEnd
<1>11. ~LoopArbitrationLost
  BY DEF LoopArbitrationLost, Lost, IInv, BusInv, PhaseInv
<1>12. CASE LoopNextPhase
  BY <1>12, BytesNextPhase
<1>13. CASE LoopData
  BY <1>13, BytesData
<1>14. CASE CompletePop
  BY <1>14, BytesPop
<1>15. CASE HwProgress \/ HwNack \/ HwArbitrationLost
  BY <1>15, BytesHw
<1>16. CASE UNCHANGED vars
  BY <1>16, BytesUnchanged DEF vars, queueVars, dfcVars, blockVars, Finished
<1> QED
  BY <1>1, <1>2, <1>3, <1>4, <1>5, <1>6, <1>7, <1>8, <1>9, <1>10, <1>11, <1>12,
     <1>13, <1>14, <1>15, <1>16 DEF Next, DfcSteps

LEMMA BytesInit == Init => PhaseInv /\ BytesInv
<1> SUFFICES ASSUME Init PROVE PhaseInv /\ BytesInv
  OBVIOUS
<1>1. /\ iState = "EIdle" /\ ~dfcQueued /\ dfcPc = "out" /\ hw = [HwReset EXCEPT !.clock = FALSE]
      /\ life = [x \in Xfers |-> "owned"] /\ iData = [x \in Xfers |-> Zeros(x)]
  BY DEF Init
<1>2. PhaseInv
  BY <1>1 DEF PhaseInv, HwReset
<1>3. \A x \in Xfers : iData[x] \in [1..Len(Phases[x]) -> Nat]
                       /\ \A k \in 1..Len(Phases[x]) : iData[x][k] = 0
  BY <1>1 DEF Zeros
<1>4. \A x \in Xfers : \A k \in 1..Len(Phases[x]) : iData[x][k] <= Phases[x][k].len
  BY <1>3, Lengths
<1> QED  BY <1>1, <1>2, <1>3, <1>4 DEF BytesInv, Finished

\* On a bus whose arbitration is never lost no kernel assertion of TheDfc() fails (i2c.cpp:411):
\* the bus is free when a transfer starts, and the FIFO asks in the phase's direction.
THEOREM AssertionsHold ==
    ASSUME "al" \notin BusFaults PROVE Spec => []NoAssertion
<1>1. PhaseInv => NoAssertion
  BY DEF PhaseInv, NoAssertion
<1>2. IInv /\ PhaseInv /\ BytesInv /\ [Next]_vars => PhaseInv' /\ BytesInv'
  BY BytesStep
<1> QED  BY <1>1, <1>2, BytesInit, Invariance, PTL DEF Spec

\* On such a bus a transfer that is reported as KErrNone has moved every byte of every phase,
\* and none moves a byte more than its length, whatever refusals the slaves make.
THEOREM SuccessIsWhole ==
    ASSUME "al" \notin BusFaults PROVE Spec => []SuccessMovedAll
<1>1. BytesInv => SuccessMovedAll
  BY DEF BytesInv, SuccessMovedAll, Whole
<1>2. IInv /\ PhaseInv /\ BytesInv /\ [Next]_vars => PhaseInv' /\ BytesInv'
  BY BytesStep
<1> QED  BY <1>1, <1>2, BytesInit, Invariance, PTL DEF Spec

-----------------------------------------------------------------------------
(* The retries of ReadB() and WriteB() (I2cReg): where a slave refuses nothing but its
   address, a refused attempt has moved nothing, so that the block of a retry is as
   good as a new one. *)

Untouched(x) == \A k \in 1..Len(Phases[x]) : iData[x][k] = 0

\* A refusal comes before the first byte.
NackIsFirst ==
    "nack" \in hw.stat => /\ hw.stat \cap DataBits = {} /\ iCurrentPhase[2] = 1
                          /\ hw.cnt = Phase(iCurrentPhase).len

\* The attempt that fails so leaves its block untouched until the next one.
RefusedInv ==
    /\ NackIsFirst
    /\ dfcPc = "complete" /\ iResult[Head(iTransferQ)] # KErrNone => Untouched(Head(iTransferQ))
    /\ \A x \in Xfers : Finished(x) /\ iResult[x] # KErrNone => Untouched(x)

\* Between two attempts the block tells how the last one ended; outside the loop it is
\* the caller's.
AccessInv ==
    \A x \in SyncXfers :
        /\ access[x] = "trying" /\ life[x] = "owned" =>
               IF iResult[x] = KErrNone THEN Whole(x) ELSE Untouched(x)
        /\ access[x] = "returned" => Whole(x)
        /\ access[x] # "trying" => life[x] = "owned"

RegInv == /\ IInv /\ PhaseInv /\ BytesInv /\ RefusedInv /\ AccessInv
          /\ DOMAIN access = SyncXfers

\* The blocks of transfers that the driver does not hold stay as they are, and the
\* driver gives a block back only when it is done with it.
LEMMA BlocksKept ==
    ASSUME IInv, DriverStep
    PROVE  /\ \A x \in Xfers : life[x] # "queued" =>
                  iResult'[x] = iResult[x] /\ (BytesInv => iData'[x] = iData[x])
           /\ \A x \in Xfers : /\ life'[x] = "owned" => life[x] \in {"owned", "signalled"}
                               /\ life[x] = "owned" => life'[x] = "owned"
                               /\ Finished(x)' => \/ Finished(x)
                                                  \/ CompletePop /\ x = Head(iTransferQ)
<1> USE DEF IInv
<1>1. CASE LoopNack \/ LoopArbitrationLost \/ LoopDone
  <2>1. Head(iTransferQ) \in Xfers /\ life[Head(iTransferQ)] = "queued"
    BY <1>1, HeadQueued DEF LoopNack, LoopArbitrationLost, LoopDone, Working
  <2>2. \A x \in Xfers : x # Head(iTransferQ) => iResult'[x] = iResult[x]
    BY <1>1 DEF LoopNack, LoopArbitrationLost, LoopDone, StartComplete, TypeOK
  <2>3. UNCHANGED <<iData, life>>
    BY <1>1 DEF LoopNack, LoopArbitrationLost, LoopDone
  <2> QED  BY <2>1, <2>2, <2>3 DEF Finished
<1>2. CASE LoopData
  <2>1. iState # "EIdle"
    BY <1>2 DEF LoopData, WorkInv
  <2>2. \E b : iData' = [iData EXCEPT ![iCurrentPhase[1]] = b]
    BY <1>2 DEF LoopData
  <2>3. BytesInv => \A x \in Xfers : x # iCurrentPhase[1] => iData'[x] = iData[x]
    BY <2>2 DEF BytesInv
  <2>4. BytesInv => life[iCurrentPhase[1]] = "queued"
    BY <2>1, WorkedOn
  <2>5. UNCHANGED <<iResult, life>>
    BY <1>2 DEF LoopData
  <2> QED  BY <2>3, <2>4, <2>5 DEF Finished
<1>3. CASE CompletePop
  <2>1. Head(iTransferQ) \in Xfers /\ life[Head(iTransferQ)] = "queued"
    BY <1>3, HeadQueued DEF CompletePop, Working
  <2>2. life' = [life EXCEPT ![Head(iTransferQ)] = "popped"] /\ UNCHANGED <<iData, iResult>>
    BY <1>3 DEF CompletePop
  <2> QED  BY <1>3, <2>1, <2>2 DEF Finished, TypeOK
<1>4. ASSUME NEW x \in Xfers, SignalSync(x) \/ EnqueCompletion(x)
      PROVE  /\ UNCHANGED <<iData, iResult>> /\ life[x] = "popped"
             /\ life' = [life EXCEPT ![x] = "signalled"]
  BY <1>4 DEF SignalSync, EnqueCompletion
<1>5. CASE \E x \in Xfers : SignalSync(x) \/ EnqueCompletion(x)
  BY <1>4, <1>5 DEF Finished, TypeOK
<1>6. ASSUME NEW c \in Clients, TransferSReturn(c)
      PROVE  /\ UNCHANGED <<iData, iResult>>
             /\ \A x \in Xfers : life'[x] = life[x] \/ (life'[x] = "owned" /\ life[x] = "signalled")
  <2>1. thread[c] = "woken" /\ UNCHANGED <<iData, iResult>>
        /\ life' = [x \in Xfers |-> IF x \in SyncXfers /\ Owner[x] = c THEN "owned" ELSE life[x]]
    BY <1>6 DEF TransferSReturn
  <2>2. \A x \in SyncXfers : Owner[x] = c => life[x] = "signalled"
    BY <2>1 DEF SemInv
  <2> QED  BY <2>1, <2>2
<1>7. CASE \E c \in Clients : TransferSReturn(c)
  BY <1>6, <1>7 DEF Finished
<1>8. CASE \/ \E c \in Clients : OpenFirst(c) \/ OpenAnother(c) \/ CloseFind(c) \/ CloseShift(c)
           \/ \E x \in Xfers : FSWait(x)
           \/ DfcStart \/ DfcEnter \/ LoopNextPhase \/ TheIsr \/ HwProgress \/ HwNack
  <2>1. UNCHANGED blockVars
    BY <1>8 DEF OpenFirst, OpenAnother, CloseFind, CloseShift, FSWait, DfcStart, DfcEnter,
                LoopNextPhase, TheIsr, HwProgress, HwFifo, HwReady, OtherMasterStops, HwNack, Hw
  <2> QED  BY <2>1 DEF blockVars, Finished
<1> QED  BY <1>1, <1>2, <1>3, <1>5, <1>7, <1>8 DEF DriverStep, DfcSteps

LEMMA NackUnchanged ==
    ASSUME NackIsFirst, UNCHANGED iCurrentPhase, hw'.stat = hw.stat, hw'.cnt = hw.cnt
    PROVE  NackIsFirst'
  BY DEF NackIsFirst, Phase

LEMMA NackStep ==
    ASSUME IInv, NackIsFirst, "nack" \notin BusFaults, DriverStep
    PROVE  NackIsFirst'
<1> USE DEF IInv
<1>h. hw \in Controllers
  BY DEF TypeOK
<1>1. ASSUME NEW c \in Clients, OpenFirst(c) PROVE NackIsFirst'
  <2>1. UNCHANGED iCurrentPhase /\ (hw' = HwReset \/ hw' = hw)
    BY <1>1 DEF OpenFirst, queueVars
  <2>2. CASE hw' = HwReset
    BY <2>2 DEF HwReset, NackIsFirst
  <2> QED  BY <2>1, <2>2, NackUnchanged
<1>2. ASSUME NEW c \in Clients, OpenAnother(c) \/ CloseFind(c) \/ TransferSReturn(c)
      PROVE  NackIsFirst'
  BY <1>2, NackUnchanged DEF OpenAnother, CloseFind, TransferSReturn, queueVars
<1>3. ASSUME NEW c \in Clients, CloseShift(c) PROVE NackIsFirst'
  <2>1. hw'.stat = hw.stat /\ hw'.cnt = hw.cnt /\ UNCHANGED iCurrentPhase
    BY <1>h, <1>3 DEF CloseShift, Controllers, queueVars
  <2> QED  BY <2>1, NackUnchanged
<1>4. ASSUME NEW x \in Xfers, FSWait(x) \/ SignalSync(x) \/ EnqueCompletion(x)
      PROVE  NackIsFirst'
  BY <1>4, NackUnchanged DEF FSWait, SignalSync, EnqueCompletion, queueVars
<1>5. CASE DfcStart
  <2>1. hw'.stat = hw.stat /\ "nack" \notin hw.stat
    BY <1>h, <1>5 DEF DfcStart, Controllers, BusInv
  <2> QED  BY <2>1 DEF NackIsFirst
<1>6. CASE DfcEnter \/ CompletePop \/ TheIsr
  BY <1>6, NackUnchanged DEF DfcEnter, CompletePop, TheIsr, queueVars
<1>7. CASE LoopNack
  BY <1>7 DEF LoopNack, Configured, HwReset, NackIsFirst
<1>8. CASE LoopArbitrationLost \/ LoopDone
  <2>1. hw'.stat \subseteq hw.stat /\ hw'.cnt = hw.cnt /\ UNCHANGED iCurrentPhase
    BY <1>h, <1>8 DEF LoopArbitrationLost, LoopDone, Controllers
  <2> QED  BY <2>1 DEF NackIsFirst, Phase
<1>9. CASE LoopNextPhase
  <2>1. "ardy" \in hw.stat /\ hw'.stat \subseteq hw.stat
    BY <1>h, <1>9 DEF LoopNextPhase, Controllers, BusInv
  <2> QED  BY <2>1 DEF NackIsFirst, BusInv
<1>10. CASE LoopData
  <2> DEFINE served == stat \cap DataBits
  <2>1. hw'.stat = hw.stat \ (served \cup ClearAl) /\ hw'.cnt = hw.cnt - Moved(served)
        /\ UNCHANGED iCurrentPhase /\ stat \subseteq hw.stat /\ hw.cnt \in Int
    BY <1>h, <1>10 DEF LoopData, Controllers, BusInv, queueVars
  <2>2. "nack" \in hw.stat => served = {} /\ Moved(served) = 0
    BY <2>1 DEF NackIsFirst, Moved
  <2> QED  BY <2>1, <2>2 DEF NackIsFirst, Phase
<1>11. CASE HwFifo \/ HwReady
  <2>1. hw.run /\ \E new \in {{"rrdy"}, {"rdr"}, {"xrdy"}, {"xdr"}, {"ardy"}, {"ardy", "bf"}} :
                    hw'.stat = hw.stat \cup new
    <3>1. CASE HwFifo
      BY <1>h, <3>1 DEF HwFifo, Hw, Controllers
    <3>2. CASE HwReady
      BY <1>h, <3>2 DEF HwReady, Hw, Controllers
    <3> QED  BY <1>11, <3>1, <3>2
  <2>2. "nack" \notin hw.stat /\ "nack" \notin hw'.stat
    BY <2>1 DEF BusInv
  <2> QED  BY <2>2 DEF NackIsFirst
<1>12. CASE OtherMasterStops
  <2>1. hw'.stat = hw.stat /\ hw'.cnt = hw.cnt /\ UNCHANGED iCurrentPhase
    BY <1>h, <1>12 DEF OtherMasterStops, Hw, Controllers, queueVars
  <2> QED  BY <2>1, NackUnchanged
<1>13. CASE HwNack
  <2>1. /\ hw.stat \cap DataBits = {} /\ iCurrentPhase[2] = 1 /\ hw.cnt = Phase(iCurrentPhase).len
        /\ hw'.stat = hw.stat \cup {"nack"} /\ hw'.cnt = hw.cnt /\ UNCHANGED iCurrentPhase
    BY <1>h, <1>13 DEF HwNack, Hw, Controllers, queueVars
  <2> QED  BY <2>1 DEF NackIsFirst, Phase, DataBits
<1> QED
  BY <1>1, <1>2, <1>3, <1>4, <1>5, <1>6, <1>7, <1>8, <1>9, <1>10, <1>11, <1>12, <1>13
  DEF DriverStep, DfcSteps, HwProgress

\* A step of the driver keeps RefusedInv: what is refused has moved nothing.
LEMMA RefusedStep ==
    ASSUME IInv, BytesInv, PhaseInv, RefusedInv, "nack" \notin BusFaults, DriverStep
    PROVE  RefusedInv'
<1> USE DEF IInv
<1>1. NackIsFirst'
  BY NackStep DEF RefusedInv, NackIsFirst
<1>2. \A x \in Xfers : life[x] # "queued" => Untouched(x)' = Untouched(x) /\ iResult'[x] = iResult[x]
  BY BlocksKept DEF Untouched
<1>3. (dfcPc = "complete" /\ iResult[Head(iTransferQ)] # KErrNone => Untouched(Head(iTransferQ)))'
  <2>1. CASE dfcPc = "complete"
    <3>1. CASE CompletePop
      BY <3>1 DEF CompletePop
    <3>2. CASE ~CompletePop
      <4>1. UNCHANGED <<iTransferQ, iData, iResult>>
        BY <2>1, <3>2 DEF DriverStep, DfcSteps, WorkInv, OpenFirst, OpenAnother, CloseFind,
           CloseShift, TransferSReturn, FSWait, DfcStart, DfcEnter, LoopNack,
           LoopArbitrationLost, LoopNextPhase, LoopDone, LoopData, SignalSync,
           EnqueCompletion, TheIsr, HwProgress, HwFifo, HwReady, OtherMasterStops, HwNack,
           Hw, queueVars, blockVars
      <4> QED  BY <2>1, <4>1 DEF RefusedInv, Untouched
    <3> QED  BY <3>1, <3>2
  <2>2. CASE dfcPc # "complete" /\ dfcPc' = "complete"
    <3>1. LoopNack \/ LoopArbitrationLost \/ LoopDone
      BY <2>2 DEF DriverStep, DfcSteps, OpenFirst, OpenAnother, CloseFind,
         CloseShift, TransferSReturn, FSWait, DfcStart, DfcEnter, LoopNextPhase, LoopData,
         CompletePop, SignalSync, EnqueCompletion, TheIsr, HwProgress, HwFifo, HwReady,
         OtherMasterStops, HwNack, Hw, dfcVars
    <3>2. ~LoopArbitrationLost
      BY DEF LoopArbitrationLost, Lost, BusInv, PhaseInv
    <3>3. iState # "EIdle" /\ stat \subseteq hw.stat
      BY <3>1, <3>2 DEF LoopNack, LoopDone, WorkInv, BusInv
    <3>4. /\ Head(iTransferQ) \in Xfers /\ iCurrentPhase[1] = Head(iTransferQ)
          /\ UNCHANGED <<iTransferQ, iData>>
      BY <3>1, <3>2, <3>3, WorkedOn DEF LoopNack, LoopDone
    <3>5. CASE LoopDone
      <4>1. iResult'[Head(iTransferQ)] = KErrNone
        BY <3>4, <3>5 DEF LoopDone, StartComplete, TypeOK
      <4> QED  BY <3>4, <4>1
    <3>6. CASE LoopNack
      <4>1. iCurrentPhase[2] = 1 /\ hw.cnt = Phase(iCurrentPhase).len
        BY <3>3, <3>6 DEF LoopNack, RefusedInv, NackIsFirst
      <4>2. Progress /\ Left = Phase(iCurrentPhase).len
        BY <3>3, <4>1 DEF BytesInv, Left
      <4>3. ASSUME NEW k \in 1..Len(Phases[Head(iTransferQ)])
            PROVE  iData[Head(iTransferQ)][k] = 0
        <5> DEFINE x == Head(iTransferQ)
        <5>1. iData[x][k] \in Nat /\ Phases[x][k].len \in Nat /\ Len(Phases[x]) \in Nat
          BY <3>4, Lengths, ConstAssumption DEF BytesInv
        <5>2. /\ k = 1 => iData[x][k] + Left = Phases[x][k].len
              /\ k > 1 => iData[x][k] = 0
          BY <3>4, <4>1, <4>2 DEF Progress
        <5>3. k = 1 => Left = Phases[x][k].len
          BY <3>4, <4>1, <4>2 DEF Phase
        <5> QED  BY <5>1, <5>2, <5>3
      <4> QED  BY <3>4, <4>3 DEF Untouched
    <3> QED  BY <3>1, <3>2, <3>5, <3>6
  <2> QED  BY <2>1, <2>2
<1>4. ASSUME NEW x \in Xfers, Finished(x)', iResult'[x] # KErrNone
      PROVE  Untouched(x)'
  <2>1. CASE Finished(x)
    BY <1>2, <1>4, <2>1 DEF RefusedInv, Finished
  <2>2. CASE CompletePop /\ x = Head(iTransferQ)
    <3>1. dfcPc = "complete" /\ UNCHANGED <<iData, iResult>>
      BY <2>2 DEF CompletePop
    <3> QED  BY <1>4, <2>2, <3>1 DEF RefusedInv, Untouched
  <2> QED  BY <1>4, <2>1, <2>2, BlocksKept
<1> QED  BY <1>1, <1>3, <1>4 DEF RefusedInv, NackIsFirst

LEMMA AccessStep ==
    ASSUME RegInv, DriverStep
    PROVE  AccessInv'
<1> USE DEF RegInv
<1> SUFFICES ASSUME NEW x \in SyncXfers
    PROVE (/\ access[x] = "trying" /\ life[x] = "owned" =>
                  IF iResult[x] = KErrNone THEN Whole(x) ELSE Untouched(x)
           /\ access[x] = "returned" => Whole(x)
           /\ access[x] # "trying" => life[x] = "owned")'
  BY DEF AccessInv
<1>1. x \in Xfers /\ access' = access
  BY ConstAssumption DEF DriverStep
<1>2. life[x] # "queued" => /\ Whole(x)' = Whole(x) /\ Untouched(x)' = Untouched(x)
                            /\ iResult'[x] = iResult[x]
  BY <1>1, BlocksKept DEF Whole, Untouched
<1>3. CASE life[x] = "owned"
  BY <1>1, <1>2, <1>3, BlocksKept DEF AccessInv
<1>4. CASE life[x] # "owned"
  <2>1. access[x] = "trying"
    BY <1>4 DEF AccessInv
  <2>2. life'[x] = "owned" => life[x] = "signalled"
    BY <1>1, <1>4, BlocksKept
  <2>3. life[x] = "signalled" => IF iResult[x] = KErrNone THEN Whole(x) ELSE Untouched(x)
    BY <1>1 DEF BytesInv, RefusedInv, Finished
  <2> QED  BY <1>1, <1>2, <2>1, <2>2, <2>3
<1> QED  BY <1>3, <1>4

\* A retry gives the driver a block like a new one.
LEMMA RetryIsNew ==
    ASSUME RegInv, NEW x \in SyncXfers, Retry(x)
    PROVE  TransferS(x, Zeros(x))
<1>1. x \in Xfers /\ access[x] = "trying" /\ life[x] = "owned" /\ iResult[x] # KErrNone
  BY ConstAssumption DEF Retry, Answered, Failed
<1>2. Untouched(x) /\ iData[x] \in [1..Len(Phases[x]) -> Nat]
  BY <1>1 DEF RegInv, AccessInv, BytesInv
<1>3. iData[x] = Zeros(x)
  BY <1>2 DEF Untouched, Zeros
<1> QED  BY <1>3 DEF Retry

\* Whoever is refused may try again: to the driver each step of ReadB() or WriteB() is one
\* that a client of TransferS() could take.
LEMMA RegIsDriver ==
    ASSUME RegInv, [NextReg]_allVars
    PROVE  [Next]_vars
<1>1. CASE NextReg
  <2>1. ASSUME NEW x \in SyncXfers, Begin(x) \/ Retry(x) PROVE Next
    <3>1. TransferS(x, Zeros(x))
      BY <2>1, RetryIsNew DEF Begin
    <3>2. ~hw.fault /\ x \in Xfers
      BY <1>1, ConstAssumption DEF NextReg
    <3> QED  BY <3>1, <3>2 DEF Next
  <2>2. ASSUME NEW x \in SyncXfers, Return(x) PROVE UNCHANGED vars
    BY <2>2 DEF Return
  <2>3. CASE DriverStep
    BY <1>1, <2>3 DEF NextReg, DriverStep, Next
  <2> QED  BY <1>1, <2>1, <2>2, <2>3 DEF NextReg
<1>2. CASE UNCHANGED allVars
  BY <1>2 DEF allVars
<1> QED  BY <1>1, <1>2

\* A new attempt.
LEMMA RegAttempt ==
    ASSUME RegInv, NEW x \in SyncXfers, Begin(x) \/ Retry(x)
    PROVE  RefusedInv' /\ AccessInv' /\ DOMAIN access' = SyncXfers
<1> USE DEF RegInv, IInv
<1>0. x \in Xfers /\ SyncXfers \subseteq Xfers
  BY ConstAssumption
<1>1. TransferS(x, Zeros(x))
  BY RetryIsNew DEF Begin
<1>2. /\ life[x] = "owned" /\ life' = [life EXCEPT ![x] = "queued"] /\ AddToQueue(x)
      /\ UNCHANGED <<iState, dfcPc, hw>>
  BY <1>0, <1>1, SubmitSteps
<1>3. iData' = [iData EXCEPT ![x] = Zeros(x)] /\ iResult' = iResult
  BY <1>1 DEF TransferS, Submit
<1>4. \A y \in Xfers : y # x => iData'[y] = iData[y]
  BY <1>3 DEF BytesInv
<1>5. \A y \in Xfers : y # x => Whole(y)' = Whole(y) /\ Untouched(y)' = Untouched(y)
  BY <1>4 DEF Whole, Untouched
<1>6. access'[x] = "trying" /\ DOMAIN access' = SyncXfers
      /\ \A y \in SyncXfers : y # x => access'[y] = access[y]
  BY DEF Begin, Retry, Answered
<1>7. life'[x] = "queued" /\ \A y \in Xfers : y # x => life'[y] = life[y]
  BY <1>0, <1>2 DEF TypeOK
<1>8. AccessInv'
  BY <1>0, <1>3, <1>5, <1>6, <1>7 DEF AccessInv
<1>9. RefusedInv'
  <2>1. "nack" \in hw.stat => iTransferQ # <<>> /\ UNCHANGED iCurrentPhase
    <3>1. "nack" \in hw.stat => iTransferQ # <<>>
      BY DEF BusInv, ActiveIsHead, Working
    <3> QED  BY <1>2, <3>1 DEF AddToQueue
  <2>2. NackIsFirst'
    BY <1>2, <2>1 DEF RefusedInv, NackIsFirst, Phase
  <2>3. dfcPc = "complete" => /\ Head(iTransferQ') = Head(iTransferQ)
                              /\ Head(iTransferQ) \in Xfers /\ Head(iTransferQ) # x
    <3>1. dfcPc = "complete" => iTransferQ # <<>> /\ Head(iTransferQ) \in Xfers
                                /\ life[Head(iTransferQ)] = "queued"
      BY HeadQueued DEF Working
    <3> QED  BY <1>0, <1>2, <3>1, HeadTail DEF AddToQueue
  <2>4. (dfcPc = "complete" /\ iResult[Head(iTransferQ)] # KErrNone => Untouched(Head(iTransferQ)))'
    BY <1>2, <1>3, <1>5, <2>3 DEF RefusedInv
  <2>5. \A y \in Xfers : (Finished(y) /\ iResult[y] # KErrNone => Untouched(y))'
    BY <1>3, <1>5, <1>7 DEF RefusedInv, Finished
  <2> QED  BY <2>2, <2>4, <2>5 DEF RefusedInv, NackIsFirst
<1> QED  BY <1>6, <1>8, <1>9

LEMMA RegStep ==
    ASSUME "al" \notin BusFaults, "nack" \notin BusFaults, RegInv, [NextReg]_allVars
    PROVE  RegInv'
<1>1. [Next]_vars
  BY RegIsDriver
<1>2. IInv' /\ PhaseInv' /\ BytesInv'
  BY <1>1, IInvStep, BytesStep DEF RegInv
<1>3. ASSUME NEW x \in SyncXfers, Begin(x) \/ Retry(x)
      PROVE  RefusedInv' /\ AccessInv' /\ DOMAIN access' = SyncXfers
  BY <1>3, RegAttempt
<1>4. ASSUME NEW x \in SyncXfers, Return(x)
      PROVE  RefusedInv' /\ AccessInv' /\ DOMAIN access' = SyncXfers
  <2>1. UNCHANGED vars /\ access' = [access EXCEPT ![x] = Outcome(x)]
        /\ access[x] = "trying" /\ life[x] = "owned"
    BY <1>4 DEF Return, Answered
  <2>2. UNCHANGED <<iData, iResult, life, iTransferQ, iCurrentPhase, dfcPc, hw>>
    BY <2>1 DEF vars, blockVars, queueVars, dfcVars
  <2>3. RefusedInv'
    BY <2>2 DEF RegInv, RefusedInv, NackIsFirst, Untouched, Finished, Phase
  <2>4. DOMAIN access' = SyncXfers /\ access'[x] = Outcome(x)
        /\ \A y \in SyncXfers : y # x => access'[y] = access[y]
    BY <2>1 DEF RegInv
  <2>5. Outcome(x) \in {"asserted", "returned"} /\ (Outcome(x) = "returned" => Whole(x))
    BY <2>1 DEF Outcome, Failed, RegInv, AccessInv
  <2>6. \A y \in SyncXfers : Whole(y)' = Whole(y) /\ Untouched(y)' = Untouched(y)
    BY <2>2 DEF Whole, Untouched
  <2>7. AccessInv'
    BY <2>1, <2>2, <2>4, <2>5, <2>6 DEF RegInv, AccessInv
  <2> QED  BY <2>3, <2>4, <2>7
<1>5. CASE DriverStep
  <2>1. access' = access
    BY <1>5 DEF DriverStep
  <2> QED  BY <1>2, <1>5, <2>1, RefusedStep, AccessStep DEF RegInv
<1>6. CASE UNCHANGED allVars
  BY <1>2, <1>6 DEF allVars, vars, blockVars, queueVars, dfcVars, RegInv, RefusedInv, AccessInv,
              NackIsFirst, Untouched, Whole, Finished, Phase
<1> QED  BY <1>2, <1>3, <1>4, <1>5, <1>6 DEF NextReg, RegInv

LEMMA RegInit == InitReg => RegInv
<1> SUFFICES ASSUME InitReg PROVE RegInv
  OBVIOUS
<1>1. IInv /\ PhaseInv /\ BytesInv
  BY InitIInv, BytesInit DEF InitReg
<1>2. /\ life = [x \in Xfers |-> "owned"] /\ dfcPc = "out" /\ hw.stat = {}
      /\ access = [x \in SyncXfers |-> "none"]
  BY DEF InitReg, Init, HwReset
<1> QED  BY <1>1, <1>2, ConstAssumption
         DEF RegInv, RefusedInv, NackIsFirst, AccessInv, Finished

\* Where slaves refuse nothing but their address and arbitration is never lost, what ReadB()
\* and WriteB() do with the driver is what any caller of TransferS() may do: all that is
\* proved of I2c holds while they retry.
THEOREM RegIsI2c ==
    ASSUME "al" \notin BusFaults, "nack" \notin BusFaults PROVE SpecReg => Spec
<1>1. RegInv /\ [NextReg]_allVars => RegInv'
  BY RegStep
<1>2. RegInv /\ [NextReg]_allVars => [Next]_vars
  BY RegIsDriver
<1>3. InitReg => Init
  BY DEF InitReg
<1> QED  BY <1>1, <1>2, <1>3, RegInit, PTL DEF SpecReg, Spec

\* And there no attempt is made with a block that an earlier one has moved.
THEOREM RetriesAreNew ==
    ASSUME "al" \notin BusFaults, "nack" \notin BusFaults PROVE SpecReg => []~resumed
<1>1. RegInv /\ [NextReg]_allVars => RegInv'
  BY RegStep
<1>2. RegInv /\ [NextReg]_allVars /\ ~resumed => ~resumed'
  <2> SUFFICES ASSUME RegInv, [NextReg]_allVars, ~resumed PROVE ~resumed'
    OBVIOUS
  <2>1. ASSUME NEW x \in SyncXfers, Retry(x) PROVE ~resumed'
    <3>1. x \in Xfers /\ access[x] = "trying" /\ life[x] = "owned" /\ iResult[x] # KErrNone
      BY <2>1, ConstAssumption DEF Retry, Answered, Failed
    <3>2. Untouched(x) /\ iData[x] \in [1..Len(Phases[x]) -> Nat]
      BY <3>1 DEF RegInv, AccessInv, BytesInv
    <3>3. iData[x] = Zeros(x)
      BY <3>2 DEF Untouched, Zeros
    <3> QED  BY <2>1, <3>3 DEF Retry
  <2> QED  BY <2>1 DEF NextReg, Begin, Return, DriverStep, allVars
<1>3. InitReg => ~resumed
  BY DEF InitReg
<1> QED  BY <1>1, <1>2, <1>3, RegInit, PTL DEF SpecReg

(* Where slaves refuse a byte as well, until an attempt is made with a moved block. *)

AnswerInv ==
    \A x \in SyncXfers :
        /\ access[x] = "trying" /\ life[x] = "owned" /\ iResult[x] = KErrNone => Whole(x)
        /\ access[x] = "returned" => Whole(x)
        /\ access[x] # "trying" => life[x] = "owned"

TriesInv == IInv /\ PhaseInv /\ BytesInv /\ AnswerInv /\ DOMAIN access = SyncXfers

\* A step of the driver.
LEMMA AnswerStep ==
    ASSUME TriesInv, DriverStep
    PROVE  AnswerInv'
<1> USE DEF TriesInv
<1> SUFFICES ASSUME NEW x \in SyncXfers
    PROVE (/\ access[x] = "trying" /\ life[x] = "owned" /\ iResult[x] = KErrNone => Whole(x)
           /\ access[x] = "returned" => Whole(x)
           /\ access[x] # "trying" => life[x] = "owned")'
  BY DEF AnswerInv
<1>1. x \in Xfers /\ access' = access
  BY ConstAssumption DEF DriverStep
<1>2. life[x] # "queued" => Whole(x)' = Whole(x) /\ iResult'[x] = iResult[x]
  BY <1>1, BlocksKept DEF Whole
<1>3. CASE life[x] = "owned"
  BY <1>1, <1>2, <1>3, BlocksKept DEF AnswerInv
<1>4. CASE life[x] # "owned"
  <2>1. access[x] = "trying"
    BY <1>4 DEF AnswerInv
  <2>2. life'[x] = "owned" => life[x] = "signalled"
    BY <1>1, <1>4, BlocksKept
  <2>3. life[x] = "signalled" /\ iResult[x] = KErrNone => Whole(x)
    BY <1>1 DEF BytesInv, Finished
  <2> QED  BY <1>1, <1>2, <1>4, <2>1, <2>2, <2>3
<1> QED  BY <1>3, <1>4

\* A step of any kind that moves no block on.
LEMMA TriesStep ==
    ASSUME "al" \notin BusFaults, TriesInv, [NextReg]_allVars, ~resumed'
    PROVE  TriesInv'
<1> USE DEF TriesInv
<1>0. SyncXfers \subseteq Xfers
  BY ConstAssumption
<1>1. ASSUME NEW x \in SyncXfers, Begin(x) \/ Retry(x) PROVE TransferS(x, Zeros(x))
  BY <1>1 DEF Begin, Retry
<1>2. [Next]_vars
  <2>1. CASE NextReg
    <3>1. ASSUME NEW x \in SyncXfers, Begin(x) \/ Retry(x) PROVE Next
      <4>1. ~hw.fault /\ x \in Xfers /\ TransferS(x, Zeros(x))
        BY <1>0, <1>1, <2>1, <3>1 DEF NextReg
      <4> QED  BY <4>1 DEF Next
    <3>2. ASSUME NEW x \in SyncXfers, Return(x) PROVE UNCHANGED vars
      BY <3>2 DEF Return
    <3>3. CASE DriverStep
      BY <2>1, <3>3 DEF NextReg, DriverStep, Next
    <3> QED  BY <2>1, <3>1, <3>2, <3>3 DEF NextReg
  <2>2. CASE UNCHANGED allVars
    BY <2>2 DEF allVars
  <2> QED  BY <2>1, <2>2
<1>3. IInv' /\ PhaseInv' /\ BytesInv'
  BY <1>2, IInvStep, BytesStep
<1>4. ASSUME NEW x \in SyncXfers, Begin(x) \/ Retry(x)
      PROVE  AnswerInv' /\ DOMAIN access' = SyncXfers
  <2>1. /\ life[x] = "owned" /\ life' = [life EXCEPT ![x] = "queued"]
        /\ iData' = [iData EXCEPT ![x] = Zeros(x)] /\ iResult' = iResult
    BY <1>0, <1>1, <1>4, SubmitSteps DEF TransferS, Submit, IInv
  <2>2. \A y \in SyncXfers : y # x => Whole(y)' = Whole(y) /\ life'[y] = life[y]
    BY <1>0, <2>1 DEF BytesInv, Whole, IInv, TypeOK
  <2>3. life'[x] = "queued"
    BY <1>0, <2>1 DEF IInv, TypeOK
  <2>4. access'[x] = "trying" /\ DOMAIN access' = SyncXfers
        /\ \A y \in SyncXfers : y # x => access'[y] = access[y]
    BY <1>4 DEF Begin, Retry, Answered
  <2> QED  BY <2>1, <2>2, <2>3, <2>4 DEF AnswerInv
<1>5. ASSUME NEW x \in SyncXfers, Return(x)
      PROVE  AnswerInv' /\ DOMAIN access' = SyncXfers
  <2>1. UNCHANGED vars /\ access' = [access EXCEPT ![x] = Outcome(x)]
        /\ access[x] = "trying" /\ life[x] = "owned"
    BY <1>5 DEF Return, Answered
  <2>2. UNCHANGED <<iData, iResult, life>>
    BY <2>1 DEF vars, blockVars
  <2>3. DOMAIN access' = SyncXfers /\ access'[x] = Outcome(x)
        /\ \A y \in SyncXfers : y # x => access'[y] = access[y]
    BY <2>1
  <2>4. Outcome(x) \in {"asserted", "returned"} /\ (Outcome(x) = "returned" => Whole(x))
    BY <2>1 DEF Outcome, Failed, AnswerInv
  <2>5. \A y \in SyncXfers : Whole(y)' = Whole(y)
    BY <2>2 DEF Whole
  <2> QED  BY <2>1, <2>2, <2>3, <2>4, <2>5 DEF AnswerInv
<1>6. CASE DriverStep
  BY <1>3, <1>6, AnswerStep DEF DriverStep
<1>7. CASE UNCHANGED allVars
  BY <1>3, <1>7 DEF allVars, vars, blockVars, AnswerInv, Whole
<1> QED  BY <1>3, <1>4, <1>5, <1>6, <1>7 DEF NextReg

\* An access that returns has moved exactly the bytes of its block
\* (omap3530_i2creg.h:25), however often and wherever in the block it was refused before,
\* unless a block that was refused after its first byte has been tried again.
THEOREM AccessesAreExact ==
    ASSUME "al" \notin BusFaults PROVE SpecReg => []AccessIsExact
<1>1. (resumed \/ TriesInv) /\ [NextReg]_allVars => (resumed \/ TriesInv)'
  <2> SUFFICES ASSUME resumed \/ TriesInv, [NextReg]_allVars, ~resumed' PROVE TriesInv'
    OBVIOUS
  <2>1. ~resumed
    BY DEF NextReg, Begin, Retry, Return, DriverStep, allVars
  <2> QED  BY <2>1, TriesStep
<1>2. resumed \/ TriesInv => AccessIsExact
  BY DEF TriesInv, AnswerInv, AccessIsExact, Whole
<1>3. InitReg => TriesInv
  <2> SUFFICES ASSUME InitReg PROVE TriesInv
    OBVIOUS
  <2>1. RegInv /\ access = [x \in SyncXfers |-> "none"] /\ \A x \in SyncXfers : life[x] = "owned"
    BY RegInit, ConstAssumption DEF InitReg, Init
  <2> QED  BY <2>1 DEF TriesInv, AnswerInv, RegInv
<1> QED  BY <1>1, <1>2, <1>3, PTL DEF SpecReg

-----------------------------------------------------------------------------
(* The I2C driver implements TransferQueue, for any clients, transfers, phases and
   bus faults.  A block is accepted by TransferS() or TransferA(), finished when
   Complete() takes it off the list, and given back when TransferS() returns or the
   completion DFC runs. *)

Stages == [x \in Xfers |-> Status(x)]
Unseen == iTransferQ' = iTransferQ /\ Stages' = Stages

\* A step that moves one block from one stage to another, seen from outside.
LEMMA OneStage ==
    ASSUME TypeOK, NEW x \in Xfers,
           NEW s \in {"owned", "queued", "popped", "signalled"},
           life' = [life EXCEPT ![x] = s]
    PROVE  Stages' = [Stages EXCEPT ![x] = IF s \in {"owned", "queued"} THEN s ELSE "done"]
<1>1. life \in [Xfers -> {"owned", "queued", "popped", "signalled"}]
  BY DEF TypeOK
<1>2. ASSUME NEW y \in Xfers
      PROVE  Status(y)' = IF y = x THEN IF s \in {"owned", "queued"} THEN s ELSE "done"
                          ELSE Status(y)
  BY <1>1 DEF Status
<1> QED  BY <1>2 DEF Stages

LEMMA StagesUnchanged == iTransferQ' = iTransferQ /\ life' = life => Unseen
<1> SUFFICES ASSUME iTransferQ' = iTransferQ, life' = life PROVE Unseen
  OBVIOUS
<1>1. \A x \in Xfers : Status(x)' = Status(x)
  BY DEF Status
<1>2. Stages' = Stages
  BY <1>1 DEF Stages
<1> QED  BY <1>2 DEF Unseen

LEMMA FifoInit == Init => Fifo!Init
  BY DEF Init, Fifo!Init, Status

LEMMA FifoAccept ==
    ASSUME TypeOK, NEW x \in Xfers, TransferS(x, Zeros(x)) \/ TransferA(x, Zeros(x))
    PROVE  Fifo!Accept(x)
<1>1. life[x] = "owned" /\ life' = [life EXCEPT ![x] = "queued"] /\ AddToQueue(x)
  BY SubmitSteps
<1>2. iTransferQ' = Append(iTransferQ, x)
  <2>1. iTransferQ = <<>> => Append(iTransferQ, x) = <<x>>
    OBVIOUS
  <2> QED  BY <1>1, <2>1 DEF AddToQueue
<1>3. Stages' = [Stages EXCEPT ![x] = "queued"]
  BY <1>1, OneStage
<1>4. Status(x) = "owned"
  BY <1>1 DEF Status
<1> QED  BY <1>2, <1>3, <1>4 DEF Fifo!Accept, Stages

LEMMA FifoFinish ==
    ASSUME IInv, CompletePop
    PROVE  Fifo!Finish
<1>1. iTransferQ # <<>> /\ Head(iTransferQ) \in Xfers
  BY HeadQueued, HeadTail DEF IInv, CompletePop, ActiveIsHead, Working
<1>2. iTransferQ' = Tail(iTransferQ) /\ life' = [life EXCEPT ![Head(iTransferQ)] = "popped"]
  BY DEF CompletePop, Dequeued
<1>3. Stages' = [Stages EXCEPT ![Head(iTransferQ)] = "done"]
  BY <1>1, <1>2, OneStage DEF IInv
<1> QED  BY <1>1, <1>2, <1>3 DEF Fifo!Finish, Stages

\* From "popped" to "signalled" a block is "done" for its client.
LEMMA FifoSignal ==
    ASSUME TypeOK, NEW x \in Xfers, SignalSync(x) \/ EnqueCompletion(x)
    PROVE  Unseen
<1>1. /\ life[x] = "popped" /\ life' = [life EXCEPT ![x] = "signalled"]
      /\ iTransferQ' = iTransferQ
  BY DEF SignalSync, EnqueCompletion, queueVars
<1>2. Stages' = [Stages EXCEPT ![x] = "done"]
  BY <1>1, OneStage
<1>3. Stages[x] = "done" /\ Stages \in [Xfers -> {"owned", "queued", "done"}]
  BY <1>1 DEF Stages, Status
<1>4. Stages' = Stages
  BY <1>2, <1>3
<1> QED  BY <1>1, <1>4 DEF Unseen

LEMMA FifoGiveBackA ==
    ASSUME TypeOK, NEW x \in Xfers, CompletionDfc(x)
    PROVE  Fifo!GiveBack(x)
<1>1. /\ life[x] = "signalled" /\ life' = [life EXCEPT ![x] = "owned"]
      /\ iTransferQ' = iTransferQ
  BY DEF CompletionDfc, queueVars
<1>2. Stages' = [Stages EXCEPT ![x] = "owned"]
  BY <1>1, OneStage
<1>3. Status(x) = "done"
  BY <1>1 DEF Status
<1> QED  BY <1>1, <1>2, <1>3 DEF Fifo!GiveBack, Stages

\* TransferS() returns the one block its thread has waited for, if it has one.
LEMMA FifoGiveBackS ==
    ASSUME IInv, NEW c \in Clients, TransferSReturn(c)
    PROVE  Unseen \/ \E x \in Xfers : Fifo!GiveBack(x)
<1> DEFINE mine == {x \in SyncXfers : Owner[x] = c}
<1>1. /\ thread[c] = "woken" /\ iTransferQ' = iTransferQ
      /\ life' = [x \in Xfers |-> IF x \in mine THEN "owned" ELSE life[x]]
  BY DEF TransferSReturn, queueVars
<1>2. \A x \in mine : x \in Xfers /\ life[x] = "signalled"
  BY <1>1, ConstAssumption DEF IInv, SemInv
<1>3. life \in [Xfers -> {"owned", "queued", "popped", "signalled"}]
  BY DEF IInv, TypeOK
<1>4. CASE mine = {}
  <2>1. life' = life
    BY <1>1, <1>3, <1>4
  <2> QED  BY <1>1, <2>1, StagesUnchanged
<1>5. ASSUME NEW x \in mine PROVE \E y \in Xfers : Fifo!GiveBack(y)
  <2>1. \A y \in mine : y = x
    BY ConstAssumption
  <2>2. life' = [life EXCEPT ![x] = "owned"]
    BY <1>1, <1>3, <2>1
  <2>3. Stages' = [Stages EXCEPT ![x] = "owned"]
    BY <1>2, <2>2, OneStage DEF IInv
  <2>4. Status(x) = "done"
    BY <1>2 DEF Status
  <2> QED  BY <1>1, <1>2, <2>3, <2>4 DEF Fifo!GiveBack, Stages
<1> QED  BY <1>4, <1>5

\* A step of the driver is a step of the service, or none.
LEMMA FifoStep == IInv /\ [Next]_vars => Fifo!Next \/ Unseen
<1> SUFFICES ASSUME IInv, [Next]_vars PROVE Fifo!Next \/ Unseen
  OBVIOUS
<1>t. TypeOK
  BY DEF IInv
<1>1. ASSUME NEW x \in Xfers, TransferS(x, Zeros(x)) \/ TransferA(x, Zeros(x))
      PROVE  Fifo!Next
  BY <1>1, <1>t, FifoAccept DEF Fifo!Next
<1>2. CASE CompletePop
  BY <1>2, FifoFinish DEF Fifo!Next
<1>3. ASSUME NEW x \in Xfers, SignalSync(x) \/ EnqueCompletion(x)
      PROVE  Unseen
  BY <1>3, <1>t, FifoSignal
<1>4. ASSUME NEW x \in Xfers, CompletionDfc(x) PROVE Fifo!Next
  BY <1>4, <1>t, FifoGiveBackA DEF Fifo!Next
<1>5. ASSUME NEW c \in Clients, TransferSReturn(c) PROVE Fifo!Next \/ Unseen
  BY <1>5, FifoGiveBackS DEF Fifo!Next
<1>6. ASSUME NEW c \in Clients,
             OpenFirst(c) \/ OpenAnother(c) \/ CloseFind(c) \/ CloseShift(c)
      PROVE  Unseen
  BY <1>6, StagesUnchanged DEF OpenFirst, OpenAnother, CloseFind, CloseShift, queueVars, blockVars
<1>7. ASSUME NEW x \in Xfers, FSWait(x) PROVE Unseen
  BY <1>7, StagesUnchanged DEF FSWait, queueVars, blockVars
<1>8. CASE \/ DfcStart \/ DfcEnter \/ LoopNack \/ LoopArbitrationLost
           \/ LoopNextPhase \/ LoopDone \/ LoopData \/ TheIsr
           \/ HwProgress \/ HwNack \/ HwArbitrationLost
  BY <1>8, StagesUnchanged
     DEF DfcStart, DfcEnter, LoopNack, LoopArbitrationLost, LoopNextPhase, LoopDone,
     LoopData, StartComplete, TheIsr, HwProgress, HwFifo, HwReady, OtherMasterStops,
     HwNack, HwArbitrationLost, Hw, queueVars, blockVars
<1>9. CASE UNCHANGED vars
  BY <1>9, StagesUnchanged DEF vars, queueVars, blockVars
<1> QED  BY <1>1, <1>2, <1>3, <1>4, <1>5, <1>6, <1>7, <1>8, <1>9 DEF Next, DfcSteps

\* The driver implements the first-in first-out service: transfers finish in the
\* order of their submission and every block goes back to its client once.
THEOREM ImplementsTransferQueue == Spec => IsFifo
<1>1. IInv /\ [Next]_vars => [Fifo!Next]_(Fifo!vars)
  BY FifoStep DEF Unseen, Fifo!vars, Stages
<1> QED  BY <1>1, FifoInit, Invariance, PTL DEF Spec, IsFifo, Fifo!Spec
=============================================================================
