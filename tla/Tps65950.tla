------------------------------ MODULE Tps65950 ------------------------------
(***************************************************************************)
(* The TPS65950 driver (shared/tps65950/tps65950.cpp): a queue of register *)
(* requests, executed one phase at a time over I2C by whichever thread     *)
(* finds the driver idle and then by the completion DFC, with a reference  *)
(* count on the protection of the voltage registers.                       *)
(*                                                                         *)
(* Threads are scheduled by priority, as EKA2 does: a thread takes a step  *)
(* only when no other thread inside the driver has a higher priority, nor, *)
(* unless TimeSlice, an equal one.  The chip has one register and the      *)
(* protection key.                                                         *)
(***************************************************************************)
EXTENDS Integers, Sequences, FiniteSets

CONSTANTS
    Clients,        \* threads that call ExecAsync() or a synchronous function
    Dfc,            \* the thread of TheDfcQue
    TimeSlice,      \* threads of equal priority may switch anywhere
    Settings,       \* records of the fields priority, requests and faults, see below
    Bits,           \* the bits of the register
    KMaxHeld        \* bound: DisableProtect() calls not yet restored, per client

\* TReq: iAction, iSetMask or iWriteValue, iClearMask.
TReq == [iAction : {"ERead", "EWrite", "EClearSet", "EDisableProtect",
                    "ERestoreProtect"},
         value : SUBSET Bits, iClearMask : SUBSET Bits]

Threads == Clients \union {Dfc}

ASSUME ConstAssumption ==
    /\ Dfc \notin Clients
    /\ \A s \in Settings : /\ s.priority \in [Threads -> Int]
                           /\ s.requests \subseteq Seq(TReq)
                           /\ \A r \in s.requests : Len(r) > 0
    /\ TimeSlice \in BOOLEAN
    /\ KMaxHeld \in Nat

VARIABLES
    setting,        \* one of Settings, and never changes
    pc,             \* [Threads -> where the thread is]
    request,        \* [Clients -> the chain being executed]
    value,          \* [Clients -> per phase, the union of iSetMask and iWriteValue]
    iReadValue,     \* [Clients -> per phase]
    iResult,        \* [Clients -> per phase; "unset" until it is stored]
    signals,        \* [Clients -> completions not yet waited for]
    TheQueue,       \* clients in the order of their requests
    CurrentState,
    CurrentPhaseReq, PreviousPhaseReq,  \* <<client, phase>> or <<>> for NULL
    TheProtectionUsageCount,
    pbResult,       \* iResult of TheTransferPb[EAddressPb] and [EDataPb]
    dfcQueued,      \* CompletionDfc or DummyDfc is queued
    finished,       \* the DFC's req and result while it completes a request
    i2c,            \* transfers passed to TransferA() and not yet completed
    chip,           \* the register and the protection key
    failed,         \* clients a transfer of whose request has failed
    held,           \* [Clients -> its DisableProtect() calls that succeeded and
                    \*  are not yet restored]
    crossed         \* history: a thread has found the driver idle while another was
                    \*  about to make it busy, or to remove the request it has finished

reqVars   == <<request, value, iReadValue, iResult, signals>>
queueVars == <<TheQueue, CurrentState, CurrentPhaseReq, PreviousPhaseReq,
               TheProtectionUsageCount>>
busVars   == <<pbResult, i2c, chip, failed>>
vars == <<pc, reqVars, queueVars, busVars, dfcQueued, finished, held>>

allVars == <<setting, vars, crossed>>

Priority == setting.priority    \* [Threads -> Int]
Requests == setting.requests    \* chains of phases a client may submit
Faults   == setting.faults      \* I2C transfers that may fail: {"read", "write", "key"}

KErrNone    == "KErrNone"
KErrGeneral == "KErrGeneral"
Phase(p)    == request[p[1]][p[2]]
NextPhase(p) == IF p[2] < Len(request[p[1]]) THEN <<p[1], p[2] + 1>> ELSE <<>>

\* The assertions of StartRequest (tps65950.cpp:247, 253): a thread that starts a request
\* finds one in the queue, and the driver pending.  Kern::Fault() stops the system where
\* an assertion fails.
StartFindsRequest == \A t \in Threads : pc[t] # "fault"

\* Threads outside the driver, whose priority does not matter.
AtRest == {"ready", "waiting", "out"}
CanRun(t) ==
    /\ StartFindsRequest
    /\ \A u \in Threads \ {t} :
        pc[u] \notin AtRest => \/ Priority[u] < Priority[t]
                               \/ Priority[u] = Priority[t] /\ TimeSlice

Init ==
    /\ setting \in Settings
    /\ pc = [t \in Threads |-> IF t = Dfc THEN "out" ELSE "ready"]
    /\ request = [c \in Clients |-> <<>>]
    /\ value = [c \in Clients |-> <<>>]
    /\ iReadValue = [c \in Clients |-> <<>>]
    /\ iResult = [c \in Clients |-> <<>>]
    /\ signals = [c \in Clients |-> 0]
    /\ TheQueue = <<>>
    /\ CurrentState = "EIdle"
    /\ CurrentPhaseReq = <<>> /\ PreviousPhaseReq = <<>>
    /\ TheProtectionUsageCount = 0
    /\ pbResult = [b \in {"EAddressPb", "EDataPb"} |-> KErrNone]
    /\ dfcQueued = FALSE
    /\ finished = <<>>
    /\ i2c = <<>>
    /\ chip = [reg |-> {}, key |-> "locked"]
    /\ failed = {}
    /\ held = [c \in Clients |-> 0]
    /\ crossed = FALSE

-----------------------------------------------------------------------------
(* ExecAsync *)

Restores(r) == \E k \in 1..Len(r) : r[k].iAction = "ERestoreProtect"
Disables(r) == \E k \in 1..Len(r) : r[k].iAction = "EDisableProtect"

\* Mutant: a request goes in front of the queue.
Added_First(queue, c) == <<c>> \o queue
Added(queue, c) == Append(queue, c)

\* A client fills its TReqs in and calls ExecAsync(), which adds them to the
\* queue.  It restores the protection only as often as it disabled it.
ExecAsync(c, r) ==
    /\ CanRun(c) /\ pc[c] = "ready"
    /\ Restores(r) => Disables(r) \/ held[c] > 0
    /\ Disables(r) => held[c] < KMaxHeld
    /\ request' = [request EXCEPT ![c] = r]
    /\ value' = [value EXCEPT ![c] = [k \in 1..Len(r) |-> r[k].value]]
    /\ iReadValue' = [iReadValue EXCEPT ![c] = [k \in 1..Len(r) |-> {}]]
    /\ iResult' = [iResult EXCEPT ![c] = [k \in 1..Len(r) |-> "unset"]]
    /\ failed' = failed \ {c}
    /\ held' = [held EXCEPT ![c] = IF Restores(r) /\ ~Disables(r) THEN @ - 1 ELSE @]
    /\ TheQueue' = Added(TheQueue, c)
    /\ pc' = [pc EXCEPT ![c] = "added"]
    /\ UNCHANGED <<signals, CurrentState, CurrentPhaseReq,
                   PreviousPhaseReq, TheProtectionUsageCount, pbResult, i2c,
                   chip, dfcQueued, finished>>

SeesIdle == CurrentState = "EIdle"

\* AtomicSetPendingWasIdle(), first half: the test.
TestIdle(c) ==
    /\ CanRun(c) /\ pc[c] = "added"
    /\ pc' = [pc EXCEPT ![c] = IF SeesIdle THEN "idleSeen" ELSE "waiting"]
    /\ UNCHANGED <<reqVars, queueVars, busVars, dfcQueued, finished, held>>

\* Second half: the assignment.
SetPending(t) ==
    /\ CanRun(t) /\ pc[t] = "idleSeen"
    /\ CurrentState' = "EPending"
    /\ pc' = [pc EXCEPT ![t] = "pending"]
    /\ UNCHANGED <<reqVars, TheQueue, CurrentPhaseReq, PreviousPhaseReq,
                   TheProtectionUsageCount, busVars, dfcQueued, finished, held>>

LastResult(c) == iResult[c][Len(request[c])]

\* The client gets its request back: FSWait returns, or its completion DFC runs.
Return(c) ==
    /\ StartFindsRequest /\ pc[c] = "waiting" /\ signals[c] > 0
    /\ signals' = [signals EXCEPT ![c] = @ - 1]
    /\ held' = [held EXCEPT ![c] =
                  IF /\ Disables(request[c]) /\ ~Restores(request[c])
                     /\ LastResult(c) = KErrNone
                  THEN @ + 1 ELSE @]
    /\ pc' = [pc EXCEPT ![c] = "ready"]
    /\ UNCHANGED <<request, value, iReadValue, iResult, queueVars, busVars,
                   dfcQueued, finished>>

-----------------------------------------------------------------------------
(* StartRequest, on a client's thread or the DFC's *)

\* The caller goes on: a client waits, the DFC returns or completes a request.
Started(t) ==
    pc' = [pc EXCEPT ![t] = IF t # Dfc THEN "waiting"
                            ELSE IF finished = <<>> THEN "out" ELSE "notify"]

StartAsserts == CurrentState = "EPending" /\ TheQueue # <<>>
StartRequest(t) ==
    /\ CanRun(t) /\ pc[t] = "pending"
    /\ IF StartAsserts /\ CurrentPhaseReq = <<>>
       THEN /\ CurrentPhaseReq' = <<Head(TheQueue), 1>>
            /\ PreviousPhaseReq' = <<>>
       ELSE UNCHANGED <<CurrentPhaseReq, PreviousPhaseReq>>
    /\ pc' = [pc EXCEPT ![t] = IF StartAsserts THEN "loop" ELSE "fault"]
    /\ UNCHANGED <<reqVars, TheQueue, CurrentState, TheProtectionUsageCount,
                   busVars, dfcQueued, finished, held>>

InLoop(t) == CanRun(t) /\ pc[t] = "loop"

\* I2c::TransferA() of a block that may start with the address phase.
TransferA(pb, what, data) ==
    i2c' = Append(i2c, [pb |-> pb, what |-> what, data |-> data, req |-> CurrentPhaseReq])

ResetData == [pbResult EXCEPT !["EDataPb"] = KErrNone]

StartRead ==
    /\ CurrentState' = "EReading"
    /\ pbResult' = [b \in DOMAIN pbResult |-> KErrNone]
    /\ TransferA("EAddressPb", "read", {})

StartWrite(data) ==
    /\ CurrentState' = "EWriting"
    /\ pbResult' = ResetData
    /\ TransferA("EDataPb", "write", data)

StartKey(state, what) ==
    /\ CurrentState' = state
    /\ pbResult' = ResetData
    /\ TransferA("EDataPb", what, {})

Counted(action) == TheProtectionUsageCount + (IF action = "EDisableProtect" THEN 1 ELSE -1)

\* The protection changes with the first disable and the last restore.
FirstDisable == TheProtectionUsageCount = 0
\* Mutant: the count is tested after it is changed.
LastRestore_Late == TheProtectionUsageCount = 0
LastRestore == TheProtectionUsageCount = 1

\* The loop meets a phase that needs a transfer.
StartPhase(t) ==
    /\ InLoop(t) /\ CurrentPhaseReq # <<>>
    /\ \/ /\ Phase(CurrentPhaseReq).iAction \in {"ERead", "EClearSet"}
          /\ StartRead
          /\ UNCHANGED TheProtectionUsageCount
       \/ /\ Phase(CurrentPhaseReq).iAction = "EWrite"
          /\ StartWrite(value[CurrentPhaseReq[1]][CurrentPhaseReq[2]])
          /\ UNCHANGED TheProtectionUsageCount
       \/ /\ Phase(CurrentPhaseReq).iAction = "EDisableProtect"
          /\ FirstDisable
          /\ TheProtectionUsageCount' = Counted("EDisableProtect")
          /\ StartKey("EUnprotectPhase0", "key0")
       \/ /\ Phase(CurrentPhaseReq).iAction = "ERestoreProtect"
          /\ LastRestore
          /\ TheProtectionUsageCount' = Counted("ERestoreProtect")
          /\ StartKey("EWriting", "lock")
    /\ Started(t)
    /\ UNCHANGED <<reqVars, TheQueue, CurrentPhaseReq, PreviousPhaseReq, chip,
                   failed, dfcQueued, finished, held>>

\* The loop meets a change of protection that only changes the count.
SkipPhase(t) ==
    /\ InLoop(t) /\ CurrentPhaseReq # <<>>
    /\ \/ /\ Phase(CurrentPhaseReq).iAction = "EDisableProtect"
          /\ ~FirstDisable
          /\ TheProtectionUsageCount' = Counted("EDisableProtect")
       \/ /\ Phase(CurrentPhaseReq).iAction = "ERestoreProtect"
          /\ ~LastRestore
          /\ TheProtectionUsageCount' = Counted("ERestoreProtect")
    /\ iResult' = [iResult EXCEPT ![CurrentPhaseReq[1]][CurrentPhaseReq[2]] = KErrNone]
    /\ PreviousPhaseReq' = CurrentPhaseReq
    /\ CurrentPhaseReq' = NextPhase(CurrentPhaseReq)
    /\ UNCHANGED <<pc, request, value, iReadValue, signals, TheQueue,
                   CurrentState, busVars, dfcQueued, finished, held>>

\* The loop runs out of phases: a write completion is faked, with the results
\* the last transfer left.
FakeCompletion(t) ==
    /\ InLoop(t) /\ CurrentPhaseReq = <<>>
    /\ CurrentPhaseReq' = PreviousPhaseReq
    /\ CurrentState' = "EWriting"
    /\ dfcQueued' = TRUE
    /\ Started(t)
    /\ UNCHANGED <<reqVars, TheQueue, PreviousPhaseReq,
                   TheProtectionUsageCount, busVars, finished, held>>

-----------------------------------------------------------------------------
(* CompletionDfcFunction, on the thread of TheDfcQue *)

\* Mutant: the clear mask is not applied.
Merged_SetOnly(read, clear, set) == read \union set
Merged(read, clear, set) == (read \ clear) \union set

\* Mutant: only the address phase is looked at.
Result_AddressOnly == pbResult["EAddressPb"]
Result == IF pbResult["EAddressPb"] # KErrNone THEN pbResult["EAddressPb"]
          ELSE pbResult["EDataPb"]

\* The DFC is entered with a phase under way (its assertions).
DfcEntered == dfcQueued /\ CanRun(Dfc) /\ pc[Dfc] = "out" /\ CurrentPhaseReq # <<>>

ClearSetRead ==
    Result = KErrNone /\ CurrentState = "EReading"
        /\ Phase(CurrentPhaseReq).iAction = "EClearSet"
Unprotect0Done == Result = KErrNone /\ CurrentState = "EUnprotectPhase0"

\* The read of a ClearSet is done: the write follows.
DfcWriteBack ==
    LET c == CurrentPhaseReq[1]
        k == CurrentPhaseReq[2]
        new == Merged(iReadValue[c][k], Phase(CurrentPhaseReq).iClearMask, value[c][k])
    IN  /\ DfcEntered /\ ClearSetRead
        /\ value' = [value EXCEPT ![c][k] = new]
        /\ StartWrite(new)
        /\ dfcQueued' = FALSE
        /\ UNCHANGED <<pc, request, iReadValue, iResult, signals, TheQueue,
                       CurrentPhaseReq, PreviousPhaseReq,
                       TheProtectionUsageCount, chip, failed, finished, held>>

DfcUnprotect1 ==
    /\ DfcEntered /\ Unprotect0Done
    /\ StartKey("EWriting", "key1")
    /\ dfcQueued' = FALSE
    /\ UNCHANGED <<pc, reqVars, TheQueue, CurrentPhaseReq, PreviousPhaseReq,
                   TheProtectionUsageCount, chip, failed, finished, held>>

\* The phase is done, or has failed: on to the next one.
DfcNextPhase ==
    /\ DfcEntered /\ ~ClearSetRead /\ ~Unprotect0Done
    /\ NextPhase(CurrentPhaseReq) # <<>>
    /\ PreviousPhaseReq' = CurrentPhaseReq
    /\ CurrentPhaseReq' = NextPhase(CurrentPhaseReq)
    /\ CurrentState' = "EPending"
    /\ pc' = [pc EXCEPT ![Dfc] = "pending"]
    /\ dfcQueued' = FALSE
    /\ UNCHANGED <<reqVars, TheQueue, TheProtectionUsageCount, busVars,
                   finished, held>>

\* The last phase is done.  The driver is idle while the request is still the
\* head of the queue.
DfcIdle ==
    /\ DfcEntered /\ ~ClearSetRead /\ ~Unprotect0Done
    /\ NextPhase(CurrentPhaseReq) = <<>>
    /\ PreviousPhaseReq' = CurrentPhaseReq
    /\ CurrentPhaseReq' = <<>>
    /\ CurrentState' = "EIdle"
    /\ finished' = [req |-> CurrentPhaseReq, result |-> Result]
    /\ pc' = [pc EXCEPT ![Dfc] = "idle"]
    /\ dfcQueued' = FALSE
    /\ UNCHANGED <<reqVars, TheQueue, TheProtectionUsageCount, busVars, held>>

\* Mutant: the requests behind the head are forgotten.
MoreQueued_Never(queue) == FALSE
MoreQueued(queue) == queue # <<>>

DfcDeque ==
    /\ CanRun(Dfc) /\ pc[Dfc] = "idle"
    /\ TheQueue' = Tail(TheQueue)
    /\ pc' = [pc EXCEPT ![Dfc] = IF MoreQueued(Tail(TheQueue)) THEN "dequeued" ELSE "notify"]
    /\ UNCHANGED <<reqVars, CurrentState, CurrentPhaseReq, PreviousPhaseReq,
                   TheProtectionUsageCount, busVars, dfcQueued, finished, held>>

DfcTestIdle ==
    /\ CanRun(Dfc) /\ pc[Dfc] = "dequeued"
    /\ pc' = [pc EXCEPT ![Dfc] = IF SeesIdle THEN "idleSeen" ELSE "notify"]
    /\ UNCHANGED <<reqVars, queueVars, busVars, dfcQueued, finished, held>>

\* The request goes back to its client.
DfcNotify ==
    /\ CanRun(Dfc) /\ pc[Dfc] = "notify"
    /\ iResult' = [iResult EXCEPT ![finished.req[1]][finished.req[2]] = finished.result]
    /\ signals' = [signals EXCEPT ![finished.req[1]] = @ + 1]
    /\ finished' = <<>>
    /\ pc' = [pc EXCEPT ![Dfc] = "out"]
    /\ UNCHANGED <<request, value, iReadValue, queueVars, busVars, dfcQueued, held>>

-----------------------------------------------------------------------------
(* The I2C driver, whose DFC runs on the same thread, and the chip *)

Fault(what) == CASE what = "read" -> "read" [] what = "write" -> "write" [] OTHER -> "key"

ChipAfter(t) ==
    CASE t.what = "write" -> [chip EXCEPT !.reg = t.data]
      [] t.what = "key0" -> [chip EXCEPT !.key = "half"]
      [] t.what = "key1" -> [chip EXCEPT !.key = IF @ = "half" THEN "unlocked" ELSE @]
      [] t.what = "lock" -> [chip EXCEPT !.key = "locked"]
      [] t.what = "read" -> chip

I2cDone ==
    LET t == Head(i2c)
    IN  /\ i2c # <<>> /\ CanRun(Dfc) /\ pc[Dfc] = "out"
        /\ i2c' = Tail(i2c)
        /\ \/ /\ pbResult' = [pbResult EXCEPT ![t.pb] = KErrNone]
              /\ chip' = ChipAfter(t)
              /\ iReadValue' = IF t.what # "read" THEN iReadValue
                    ELSE [iReadValue EXCEPT ![t.req[1]][t.req[2]] = chip.reg]
              /\ UNCHANGED failed
           \/ /\ Fault(t.what) \in Faults
              /\ pbResult' = [pbResult EXCEPT ![t.pb] = KErrGeneral]
              /\ failed' = failed \union {t.req[1]}
              /\ UNCHANGED <<chip, iReadValue>>
        /\ dfcQueued' = TRUE
        /\ UNCHANGED <<pc, request, value, iResult, signals, queueVars, finished, held>>

-----------------------------------------------------------------------------

\* A thread finds the driver idle while another that has found it so has not set that it
\* is pending, or while the DFC has not removed the request that it has finished.
Crosses ==
    \E t \in Threads : /\ pc[t] # "idleSeen" /\ pc'[t] = "idleSeen"
                       /\ \E u \in Threads \ {t} : pc[u] \in {"idleSeen", "idle"}

StartSteps(t) == \/ SetPending(t) \/ StartRequest(t)
                 \/ StartPhase(t) \/ SkipPhase(t) \/ FakeCompletion(t)
DfcSteps == \/ DfcWriteBack \/ DfcUnprotect1 \/ DfcNextPhase \/ DfcIdle
            \/ DfcDeque \/ DfcTestIdle \/ DfcNotify \/ StartSteps(Dfc)

Next ==
    /\ UNCHANGED setting
    /\ \/ \E c \in Clients : \/ \E r \in Requests : ExecAsync(c, r)
                             \/ TestIdle(c) \/ StartSteps(c) \/ Return(c)
       \/ DfcSteps
       \/ I2cDone
    /\ crossed' = (crossed \/ Crosses)

Spec == Init /\ [][Next]_allVars

\* Threads in the driver run on, and the I2C driver completes its transfers.
Fairness ==
    /\ \A c \in Clients : WF_vars(TestIdle(c) \/ StartSteps(c)) /\ WF_vars(Return(c))
    /\ WF_vars(DfcSteps)
    /\ WF_vars(I2cDone)
FairSpec == Spec /\ Fairness

-----------------------------------------------------------------------------
(* Properties *)

Results == {KErrNone, KErrGeneral}
PhaseIds == {<<>>} \union (Clients \X (Nat \ {0}))

\* The values the driver's state can take; the count of DisableProtect() calls
\* never goes below zero.
TypeOK ==
    /\ pc \in [Threads -> AtRest \union {"added", "idleSeen", "pending", "loop",
                                         "idle", "dequeued", "notify", "fault"}]
    /\ \A c \in Clients : request[c] \in Requests \union {<<>>}
    /\ \A c \in Clients : /\ Len(value[c]) = Len(request[c])
                          /\ Len(iReadValue[c]) = Len(request[c])
                          /\ Len(iResult[c]) = Len(request[c])
    /\ TheQueue \in Seq(Clients)
    /\ CurrentState \in {"EIdle", "EPending", "EReading", "EWriting", "EUnprotectPhase0"}
    /\ CurrentPhaseReq \in PhaseIds /\ PreviousPhaseReq \in PhaseIds
    /\ TheProtectionUsageCount \in Nat
    /\ pbResult \in [{"EAddressPb", "EDataPb"} -> Results]
    /\ dfcQueued \in BOOLEAN
    /\ chip \in [reg : SUBSET Bits, key : {"locked", "half", "unlocked"}]
    /\ failed \subseteq Clients
    /\ held \in [Clients -> 0..KMaxHeld]

\* What the driver still holds of a client's request.
Referenced(c) ==
    \/ \E i \in 1..Len(TheQueue) : TheQueue[i] = c
    \/ CurrentPhaseReq # <<>> /\ CurrentPhaseReq[1] = c
    \/ \E i \in 1..Len(i2c) : i2c[i].req[1] = c

\* A client that has its request back has it for good: it was completed once,
\* and neither the queue, the current phase nor a transfer refers to it ("must
\* stay valid until request completes", tps65950.h:83).
CompletedOnce ==
    \A c \in Clients : /\ signals[c] <= 1
                       /\ pc[c] = "ready" \/ signals[c] = 1 => ~Referenced(c)

\* When a request completes with KErrNone, its last phase has had its effect on
\* the chip: a ClearSet has cleared and set its bits, and no other, whatever
\* requests of other clients were queued meanwhile, and wherever threads are preempted,
\* until one crosses another.
DoneMeansDone ==
    ~crossed /\ pc[Dfc] = "idle" /\ finished.result = KErrNone =>
        LET p == Phase(finished.req)
        IN  CASE p.iAction = "ERead" -> iReadValue[finished.req[1]][finished.req[2]] = chip.reg
              [] p.iAction = "EWrite" -> chip.reg = p.value
              [] p.iAction = "EClearSet" ->
                    chip.reg = (iReadValue[finished.req[1]][finished.req[2]] \ p.iClearMask)
                                    \union p.value
              [] p.iAction = "EDisableProtect" -> chip.key = "unlocked"
              [] p.iAction = "ERestoreProtect" ->
                    TheProtectionUsageCount = 0 => chip.key = "locked"

\* The registers stay unprotected while a client holds a DisableProtect(), and
\* are protected again once nobody does (tps65950.h:122-125).
ProtectionCounted ==
    ~crossed =>
        /\ (\E c \in Clients : held[c] > 0) => chip.key = "unlocked"
        /\ TheQueue = <<>> /\ (\A c \in Clients : held[c] = 0 /\ pc[c] = "ready")
                => chip.key # "unlocked"

\* iResult is "KErrNone on success, else error code" (tps65950.h:58): a request
\* is reported failed exactly if one of its transfers has failed.
ResultIsTrue ==
    ~crossed => \A c \in Clients : signals[c] > 0 => (LastResult(c) = KErrNone <=> c \notin failed)

\* Every request is completed and given back, unless threads cross, or an assertion of
\* StartRequest fails and stops the system.
Served == \A c \in Clients : pc[c] = "added" ~> pc[c] = "ready" \/ crossed \/ ~StartFindsRequest

\* The driver is a first-in first-out service, until threads cross.
Status(c) == IF pc[c] = "ready" THEN "owned"
             ELSE IF \E i \in 1..Len(TheQueue) : TheQueue[i] = c THEN "queued" ELSE "done"
Fifo == INSTANCE TransferQueue WITH Items <- Clients, queue <- TheQueue,
                                    status <- [c \in Clients |-> Status(c)]
IsFifo == Fifo!Init /\ [][crossed' \/ [Fifo!Next]_(Fifo!vars)]_allVars
=============================================================================
