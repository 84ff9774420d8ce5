---------------------------- MODULE I2cInvariant ----------------------------
(***************************************************************************)
(* The invariants with which I2cProofs proves the properties of I2c.  The  *)
(* assumption keeps Close() from overlapping another client's transfer:    *)
(* without it some theorems are false (see the run i2c_close_slave).       *)
(***************************************************************************)
EXTENDS I2c

ASSUME QuietAssumption == QuiescentClose = TRUE

-----------------------------------------------------------------------------
(* The inductive invariant *)

\* The slots with an open device: Close() gives its slot up in two steps.
InUse == iNumDevices + (IF iOpenMutex THEN 1 ELSE 0)
Open == {c \in Clients : handle[c] = "open"}

TableInv ==
    /\ InUse <= KMaxDevicesPerUnit
    /\ \A c \in Open : \E i \in 0..(InUse - 1) : iDevice[i] = Address[c]
    /\ \A i \in 0..(InUse - 1) : \E c \in Open : iDevice[i] = Address[c]
    /\ \A i, j \in 0..(InUse - 1) : iDevice[i] = iDevice[j] => i = j
    /\ \A c, d \in Open : Address[c] = Address[d] => c = d

\* One client closes at a time, and while it does no transfer is under way.
CloseInv ==
    /\ iOpenMutex => \E c \in Clients : thread[c] = "closing"
    /\ \A c \in Clients : thread[c] = "closing" => iOpenMutex /\ handle[c] = "open"
    /\ \A c, d \in Clients : thread[c] = "closing" /\ thread[d] = "closing" => c = d
    /\ iOpenMutex => \A x \in Xfers : life[x] = "owned"
    /\ \A x \in Xfers : life[x] # "owned" =>
            handle[Owner[x]] = "open" /\ thread[Owner[x]] # "closing"

\* The unit is powered and its interrupt bound while a device is open.
PowerInv == Open # {} => bound /\ hw.clock

\* Exactly one of: the interrupt is enabled, the DFC is queued, the DFC runs.
WorkInv ==
    /\ enabled => iState # "EIdle" /\ ~dfcQueued /\ dfcPc = "out"
    /\ dfcPc = "loop" => iState # "EIdle" /\ ~dfcQueued /\ ~enabled
    /\ dfcPc = "complete" => iState = "EIdle" /\ ~dfcQueued /\ ~enabled

\* A transfer under way holds its own client's slot.
SlotInv ==
    \A x \in Xfers : life[x] # "owned" =>
        /\ iDcb[x] \in 0..(iNumDevices - 1)
        /\ iDevice[iDcb[x]] = Address[Owner[x]]

\* What the count of a semaphore is at each point of TransferS().
SemInv ==
    /\ \A x \in SyncXfers :
        LET t == thread[Owner[x]]  sem == iSyncSem[iDcb[x]] IN
        /\ t \in {"run", "closing"} <=> life[x] = "owned"
        /\ life[x] # "owned" => sem.owner = {Owner[x]}
        /\ t = "submitted" => sem.count = IF life[x] = "signalled" THEN 1 ELSE 0
        /\ t = "blocked" => life[x] # "signalled" /\ sem.count = -1
        /\ t = "woken" => life[x] = "signalled" /\ sem.count = 0
    /\ \A s \in Slots :
        (\A x \in SyncXfers : life[x] # "owned" => iDcb[x] # s) => iSyncSem[s].count = 0

\* The controller runs for the head of the queue, as master, and no bit that ends
\* a transfer is left over from an earlier one.
BusInv ==
    /\ hw.run => /\ iState # "EIdle" /\ hw.mst
                 /\ hw.sa = Address[Owner[Head(iTransferQ)]]
    /\ hw.run \/ ~hw.mst \/ iState = "EIdle" => "ardy" \notin hw.stat /\ "nack" \notin hw.stat
    /\ "ardy" \notin hw.stat \/ "nack" \notin hw.stat
    /\ dfcPc = "loop" => stat \subseteq hw.stat

IInv == /\ TypeOK /\ ActiveIsHead /\ QueueHoldsSubmitted
        /\ TableInv /\ CloseInv /\ PowerInv /\ WorkInv /\ SlotInv /\ SemInv /\ BusInv

-----------------------------------------------------------------------------
(* The bytes: on a bus whose arbitration is never lost.  With "al" in BusFaults
   neither PhaseInv nor BytesInv is an invariant. *)

\* The bit with which the FIFO asks in the current phase.
FifoBit ==
    IF hw.type = "read" THEN IF hw.cnt >= Threshold THEN "rrdy" ELSE "rdr"
    ELSE IF hw.cnt >= Threshold THEN "xrdy" ELSE "xdr"

\* While a phase is under way the controller is set up for it, asks in its
\* direction and for no more than is left, and is ready only when nothing is.
\* At rest the bus is free, but between two phases of one transfer.
PhaseInv ==
    /\ ~hw.fault
    /\ "al" \notin hw.stat
    /\ iState # "EIdle" =>
           /\ hw.type = Phase(iCurrentPhase).type
           /\ iState = IF hw.type = "read" THEN "ERead" ELSE "EWrite"
           /\ hw.stp = LastPhase(iCurrentPhase)
           /\ hw.cnt \in Nat
           /\ hw.stat \cap DataBits \subseteq {FifoBit}
           /\ "ardy" \in hw.stat => /\ hw.cnt = 0 /\ hw.stat \cap DataBits = {}
                                    /\ hw.busy => ~hw.stp
    /\ iState = "EIdle" => /\ hw.stat \cap DataBits = {}
                           /\ hw.busy => dfcQueued /\ iCurrentPhase[2] # 1

Whole(x) == \A k \in 1..Len(Phases[x]) : iData[x][k] = Phases[x][k].len

\* What is left of the current phase, before and after it has been started.
Left == IF iState = "EIdle" THEN Phase(iCurrentPhase).len ELSE hw.cnt

\* Of the active transfer the phases before the current one have been moved, what
\* is left of the current one is what the controller still counts, and the later
\* ones have not been touched.
Progress ==
    LET x == iCurrentPhase[1]
        n == iCurrentPhase[2]
    IN  \A k \in 1..Len(Phases[x]) :
            /\ k < n => iData[x][k] = Phases[x][k].len
            /\ k = n => iData[x][k] + Left = Phases[x][k].len
            /\ k > n => iData[x][k] = 0

BytesInv ==
    /\ DOMAIN iData = Xfers
    /\ \A x \in Xfers : iData[x] \in [1..Len(Phases[x]) -> Nat]
    /\ \A x \in Xfers : \A k \in 1..Len(Phases[x]) : iData[x][k] <= Phases[x][k].len
    /\ \A x \in Xfers : Finished(x) /\ iResult[x] = KErrNone => Whole(x)
    /\ dfcPc = "complete" /\ iResult[Head(iTransferQ)] = KErrNone => Whole(Head(iTransferQ))
    /\ iState # "EIdle" \/ dfcQueued => Progress
=============================================================================
