------------------------------- MODULE MsTick -------------------------------
(***************************************************************************)
(* Tick suppression while the processor idles (shared/mstick/mstick.cpp):  *)
(* SuppressIdleTicks() and EndIdleTickSuppression() with GP timer 1, which *)
(* overflows once a millisecond and runs on between any two register       *)
(* accesses.  Both are called by the idle thread with interrupts off.      *)
(***************************************************************************)
EXTENDS Integers

CONSTANTS
    KMaxIdleTicks,          \* 0xFFFFFF in the code
    KMinSuppressTickCount,  \* 2 in the code
    SleepRequests,          \* values of aMaxSleepTicks
    KMaxTicks               \* the run lasts so many overflows

VARIABLES
    timer,      \* [TOWR, TOCR, TISR]: wrapping value, overflow count, pending
    idle,       \* where the idle thread is, and its local variables
    elapsed,    \* overflows so far
    isr,        \* ticks counted by the tick ISR
    slept,      \* ticks returned by EndIdleTickSuppression()
    lost        \* history: ticks that neither counts, less those that both do

msTickVars == <<timer, idle, elapsed, isr, slept, lost>>

MsTickInit ==
    /\ timer = [TOWR |-> 0, TOCR |-> 0, TISR |-> FALSE]
    /\ idle = [pc |-> "running", max |-> 0, tisr |-> FALSE, actual |-> 0,
               wrapped |-> FALSE]       \* TCRR has wrapped since it was read
    /\ elapsed = 0 /\ isr = 0 /\ slept = 0 /\ lost = 0

Target(max) == IF max >= KMaxIdleTicks THEN KMaxIdleTicks ELSE max

\* An overflow is masked while TOCR has not come to TOWR.
MatchMasked == timer.TOCR + 1 < timer.TOWR

\* What the code does not make good when the timer overflows:
\*   before SuppressIdleTicks() has written TOWR: it clears the interrupt;
\*   before TISR is read: the sleep that ends there is returned with its last tick, which
\*   is pending as well;
\*   between TISR and TOCR: the sleep that ends there has set TOCR back to zero;
\*   before TOWR is written back: no interrupt comes, whatever the comment says (173).
LostHere ==
    CASE idle.pc = "disabled"                               -> 1
      [] idle.pc = "read" /\ ~timer.TISR /\ ~MatchMasked    -> -1
      [] idle.pc = "readTisr" /\ ~idle.tisr /\ ~MatchMasked -> Target(idle.max) - 1
      [] idle.pc = "readTocr" /\ ~idle.tisr /\ MatchMasked  -> 1
      [] OTHER                                              -> 0

\* The timer overflows anywhere.  The interrupt of one overflow is taken, or has woken
\* the processor, before the next, and SuppressIdleTicks() and EndIdleTickSuppression()
\* take less than a millisecond.
Overflow ==
    /\ elapsed < KMaxTicks
    /\ IF idle.pc \in {"running", "asleep"} THEN ~timer.TISR ELSE ~idle.wrapped
    /\ elapsed' = elapsed + 1
    /\ timer' = IF MatchMasked
                THEN [timer EXCEPT !.TOCR = @ + 1]
                ELSE [timer EXCEPT !.TOCR = 0, !.TISR = TRUE]
    /\ idle' = [idle EXCEPT !.wrapped = TRUE]
    /\ lost' = lost + LostHere
    /\ UNCHANGED <<isr, slept>>

MsTickIsr ==
    /\ idle.pc = "running" /\ timer.TISR
    /\ timer' = [timer EXCEPT !.TISR = FALSE, !.TOCR = 0]
    /\ isr' = isr + 1
    /\ UNCHANGED <<idle, elapsed, slept, lost>>

IdleGoes(from, to) == idle.pc = from /\ idle' = [idle EXCEPT !.pc = to]

-----------------------------------------------------------------------------
(* SuppressIdleTicks() *)

\* The idle thread disables interrupts when none is pending.
Suppress(max) ==
    /\ idle.pc = "running" /\ ~timer.TISR
    /\ idle' = [idle EXCEPT !.pc = IF Target(max) >= KMinSuppressTickCount
                                   THEN "disabled" ELSE "asleep",
                            !.max = max, !.wrapped = FALSE]
    /\ UNCHANGED <<timer, elapsed, isr, slept, lost>>

SuppressWrap ==
    /\ IdleGoes("disabled", "wrapping")
    /\ timer' = [timer EXCEPT !.TOWR = Target(idle.max)]
    /\ UNCHANGED <<elapsed, isr, slept, lost>>

SuppressClear ==
    /\ IdleGoes("wrapping", "asleep")
    /\ timer' = [timer EXCEPT !.TISR = FALSE]
    /\ UNCHANGED <<elapsed, isr, slept, lost>>

-----------------------------------------------------------------------------
(* EndIdleTickSuppression() *)

\* The processor wakes for the tick or for another interrupt.
Wake ==
    /\ idle.pc = "asleep"
    /\ idle' = IF idle.max >= KMinSuppressTickCount
               THEN [idle EXCEPT !.pc = "read", !.wrapped = FALSE]
               ELSE [idle EXCEPT !.pc = "running"]
    /\ UNCHANGED <<timer, elapsed, isr, slept, lost>>

ReadTisr ==
    /\ idle.pc = "read"
    /\ idle' = [idle EXCEPT !.pc = "readTisr", !.tisr = timer.TISR]
    /\ UNCHANGED <<timer, elapsed, isr, slept, lost>>

\* Mutant: the tick that the ISR will count is counted as slept as well.
WholeSleep_Pending(max) == Target(max)
WholeSleep(max) == Target(max) - 1

ReadTocr ==
    /\ idle.pc = "readTisr"
    /\ idle' = [idle EXCEPT !.pc = "readTocr",
                            !.actual = IF idle.tisr THEN WholeSleep(idle.max)
                                       ELSE timer.TOCR]
    /\ UNCHANGED <<timer, elapsed, isr, slept, lost>>

WriteTowr ==
    /\ IdleGoes("readTocr", "unwrapped")
    /\ timer' = [timer EXCEPT !.TOWR = 0]
    /\ UNCHANGED <<elapsed, isr, slept, lost>>

WriteTocr ==
    /\ IdleGoes("unwrapped", "normal")
    /\ timer' = [timer EXCEPT !.TOCR = 0]
    /\ UNCHANGED <<elapsed, isr, slept, lost>>

\* Behind a pending interrupt, an overflow that came meanwhile would be lost.
IsrReturns ==
    /\ IdleGoes("normal", "running")
    /\ slept' = slept + idle.actual + IF idle.wrapped /\ idle.tisr THEN 1 ELSE 0
    /\ UNCHANGED <<timer, elapsed, isr, lost>>

MsTickNext ==
    \/ Overflow \/ MsTickIsr
    \/ \E max \in SleepRequests : Suppress(max)
    \/ SuppressWrap \/ SuppressClear
    \/ Wake \/ ReadTisr \/ ReadTocr \/ WriteTowr \/ WriteTocr \/ IsrReturns

MsTickSpec == MsTickInit /\ [][MsTickNext]_msTickVars

-----------------------------------------------------------------------------
(* Properties *)

MsTickTypeOK ==
    /\ timer.TOWR \in 0..KMaxIdleTicks /\ timer.TOCR \in 0..KMaxIdleTicks
    /\ elapsed \in 0..KMaxTicks /\ isr \in Nat /\ slept \in Nat /\ lost \in Int

\* While the processor runs, every millisecond that has passed has been counted
\* by the ISR, returned as slept, or is pending: the sleep that ran its full time
\* (TOCR back at zero), the one that was cut short, and the tick that comes while the
\* registers are read and written.  What goes wrong is what LostHere lists, no more.
TicksAccounted ==
    idle.pc = "running" =>
        elapsed = isr + slept + lost + IF timer.TISR THEN 1 ELSE 0
=============================================================================
