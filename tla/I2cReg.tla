------------------------------- MODULE I2cReg -------------------------------
(***************************************************************************)
(* I2cReg::ReadB() and WriteB() (omap3530_drivers/i2c/i2c.cpp), one-byte   *)
(* register accesses that build a transfer block on the caller's stack and *)
(* pass it to TransferS() until it succeeds, at most five times.  The      *)
(* block is not built again for a retry, and TheDfc() has moved its iData. *)
(***************************************************************************)
EXTENDS I2c

CONSTANT KMaxTries          \* five in the code

VARIABLES
    retryCount,     \* [SyncXfers -> attempts made by the current access]
    access,         \* [SyncXfers -> "none" | "trying" | "returned" | "asserted"]
    resumed         \* history: an attempt was made with a block whose iData an earlier one,
                    \*  refused after its first byte, had moved

allVars == <<vars, retryCount, access, resumed>>

InitReg ==
    /\ Init
    /\ retryCount = [x \in SyncXfers |-> 0]
    /\ access = [x \in SyncXfers |-> "none"]
    /\ resumed = FALSE

\* ReadB() or WriteB(): the block is built and the first attempt made.
Begin(x) ==
    /\ access[x] # "trying"
    /\ TransferS(x, Zeros(x))
    /\ retryCount' = [retryCount EXCEPT ![x] = 1]
    /\ access' = [access EXCEPT ![x] = "trying"]
    /\ UNCHANGED resumed

Failed(x) == iResult[x] # KErrNone
\* An attempt's TransferS() has returned.
Answered(x) == access[x] = "trying" /\ life[x] = "owned"

Counted(x) == retryCount[x] + 1

\* The loop goes round, with the block as the last attempt left it.
Retry(x) ==
    /\ Answered(x) /\ Failed(x) /\ retryCount[x] < KMaxTries
    /\ TransferS(x, iData[x])
    /\ retryCount' = [retryCount EXCEPT ![x] = Counted(x)]
    /\ resumed' = (resumed \/ iData[x] # Zeros(x))
    /\ UNCHANGED access

\* Mutant: the last result is not asserted.
Outcome_NoAssert(x) == "returned"
Outcome(x) == IF Failed(x) THEN "asserted" ELSE "returned"

\* The loop ends.  __NK_ASSERT_ALWAYS stops the kernel if it ends with a failure.
Return(x) ==
    /\ Answered(x) /\ ~(Failed(x) /\ retryCount[x] < KMaxTries)
    /\ access' = [access EXCEPT ![x] = Outcome(x)]
    /\ UNCHANGED <<vars, retryCount, resumed>>

InLoop(c) == \E x \in SyncXfers : Owner[x] = c /\ access[x] = "trying"

\* The rest of the driver, while the threads in a loop stay in it.
DriverStep ==
    /\ \/ \E c \in Clients : ~InLoop(c) /\ (OpenFirst(c) \/ OpenAnother(c) \/ CloseFind(c))
       \/ \E c \in Clients : CloseShift(c) \/ TransferSReturn(c)
       \/ \E x \in Xfers : FSWait(x)
       \/ DfcSteps
       \/ TheIsr
       \/ HwProgress \/ HwNack
    /\ UNCHANGED <<retryCount, access, resumed>>

NextReg ==
    /\ ~hw.fault /\ \A x \in SyncXfers : access[x] # "asserted"
    /\ \/ \E x \in SyncXfers : Begin(x) \/ Retry(x) \/ Return(x)
       \/ DriverStep

SpecReg == InitReg /\ [][NextReg]_allVars

-----------------------------------------------------------------------------
(* Properties *)

\* An access that returns has moved exactly the bytes of its block, from their
\* first to their last: "Synchronous write of a single byte, aData, at address
\* aAddr" (omap3530_i2creg.h:26), and the same for the read (25), wherever it was refused
\* before.  Only a retry of what was refused after its first byte breaks it.
AccessIsExact ==
    \A x \in SyncXfers : access[x] = "returned" /\ ~resumed =>
        \A k \in 1..Len(Phases[x]) : iData[x][k] = Phases[x][k].len

=============================================================================
