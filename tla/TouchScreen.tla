---------------------------- MODULE TouchScreen ----------------------------
(***************************************************************************)
(* The sampling of the touch panel (beagle_drivers/byd_touch/xyin/         *)
(* xyin.cpp): one DFC thread takes samples when the panel interrupts or a  *)
(* timer expires, and hands groups of them to the layer above, which runs  *)
(* on the same thread.                                                     *)
(*                                                                         *)
(* A panel that does not answer counts as one that is not touched.  The    *)
(* power handler is not built (USE_SYMBIAN_PRM); iTimerInt is never        *)
(* started.  External: the layer above and the user.                       *)
(***************************************************************************)
EXTENDS Naturals, SequencesExt

CONSTANTS
    KConfigXyNumXYSamples,  \* samples of a group
    KMaxXYSamples,          \* entries of iX[] and iY[]
    HeldAtStart,            \* the panel may be touched before the layer above is up
    KMaxSwitches            \* so often is it switched off and on

VARIABLES
    touch,      \* the driver, see TouchTypeOK
    pen         \* the panel is touched

touchVars == <<touch, pen>>

\* DoCreate() ends with DigitiserPowerUp().
TouchInit ==
    /\ touch = [iState |-> "E_HW_PowerUp", iSamplesCount |-> 0, iPointerOn |-> TRUE,
                iTimer |-> FALSE,           \* it runs
                dfcs |-> <<"reading">>,     \* iTakeReadingDfc and those of the layer above
                sampling |-> FALSE,         \* TakeSample() waits for the panel's answer
                enabled |-> FALSE,          \* the panel's interrupt
                started |-> FALSE,          \* the layer above has called WaitForPenDown()
                told |-> "up",              \* what the layer above was told last
                switches |-> 0]
    /\ pen \in {FALSE, HeldAtStart}

Enque(t, dfc) == IF Contains(t.dfcs, dfc) THEN t ELSE [t EXCEPT !.dfcs = Append(@, dfc)]
Cancel(t, dfc) ==
    IF Contains(t.dfcs, dfc)
    THEN [t EXCEPT !.dfcs = RemoveAt(@, CHOOSE i \in 1..Len(@) : @[i] = dfc)]
    ELSE t
\* KErrInUse is ignored.
OneShot(t) == [t EXCEPT !.iTimer = TRUE]

\* Mutant: the samples stay.
Collects_Keeps(t) == [t EXCEPT !.iState = "E_HW_CollectSample"]
Collects(t) == [t EXCEPT !.iState = "E_HW_CollectSample", !.iSamplesCount = 0]

PenUp(t) == [Enque(t, "penUp") EXCEPT !.told = "up"]
RawSampleValid(t) == [Enque(t, "samples") EXCEPT !.told = "down"]

-----------------------------------------------------------------------------
(* The DFC thread *)

Waiting(dfc) == ~touch.sampling /\ touch.dfcs # <<>> /\ Head(touch.dfcs) = dfc
Taken == [touch EXCEPT !.dfcs = Tail(@)]

\* TakeSample() up to the answer of the panel.
TakeReadingDfc ==
    /\ Waiting("reading")
    /\ touch' = [Taken EXCEPT !.sampling = TRUE]
    /\ UNCHANGED pen

Sampled(t) ==
    LET more == [t EXCEPT !.iSamplesCount = @ + 1]
    IN  IF more.iSamplesCount < KConfigXyNumXYSamples THEN OneShot(more)
        ELSE RawSampleValid(more)

\* Mutant: the second look at a lifted pen never comes.
Lifted_Once(t) == [t EXCEPT !.iState = "E_HW_PenUpDebounce"]
Lifted(t) == OneShot([t EXCEPT !.iState = "E_HW_PenUpDebounce"])

TakeSample(penDown) ==
    LET t == [touch EXCEPT !.sampling = FALSE]
    IN  /\ touch.sampling
        /\ touch' =
              CASE t.iState = "E_HW_PowerUp" -> IF penDown THEN OneShot(t) ELSE Collects(t)
                [] t.iState = "E_HW_PenUpDebounce" ->
                      IF penDown THEN Sampled(Collects(t)) ELSE PenUp(Collects(t))
                [] t.iState = "E_HW_CollectSample" ->
                      IF penDown THEN Sampled(t) ELSE Lifted(t)
        /\ UNCHANGED pen

\* The layer above has processed a group of samples.
WaitForPenUp ==
    /\ Waiting("samples")
    /\ touch' = OneShot(Collects(Taken))
    /\ UNCHANGED pen

Listens(t) == [t EXCEPT !.enabled = @ \/ ~t.iTimer]

\* The layer above calls it when it has started, and when the pen has gone up.
WaitForPenDown ==
    /\ \/ ~touch.started /\ touch' = [Listens(touch) EXCEPT !.started = TRUE]
       \/ Waiting("penUp") /\ touch' = Listens(Taken)
    /\ UNCHANGED pen

-----------------------------------------------------------------------------
(* Interrupts *)

\* Data are ready, for as long as the panel is touched.
PenInterrupt ==
    /\ touch.enabled /\ pen
    /\ touch' = Enque(touch, "reading")
    /\ UNCHANGED pen

TimerCallback ==
    /\ touch.iTimer
    /\ touch' = Enque([touch EXCEPT !.iTimer = FALSE], "reading")
    /\ UNCHANGED pen

-----------------------------------------------------------------------------
(* The user, and the HAL *)

UserTouches == (touch.started \/ HeldAtStart) /\ pen' = ~pen /\ UNCHANGED touch

DigitiserOff ==
    /\ touch.started /\ touch.iPointerOn /\ touch.switches < KMaxSwitches
    /\ LET off == Cancel([touch EXCEPT !.iPointerOn = FALSE, !.iTimer = FALSE,
                                       !.told = "off", !.switches = @ + 1], "reading")
       IN  touch' = IF touch.iState = "E_HW_CollectSample" THEN off ELSE PenUp(off)
    /\ UNCHANGED pen

DigitiserOn ==
    /\ ~touch.iPointerOn
    /\ touch' = Enque([touch EXCEPT !.iPointerOn = TRUE, !.iState = "E_HW_PowerUp",
                                    !.told = "off"], "reading")
    /\ UNCHANGED pen

PanelAnswers == \E penDown \in {FALSE, pen} : TakeSample(penDown)

TouchNext ==
    \/ TakeReadingDfc \/ WaitForPenUp \/ WaitForPenDown
    \/ PanelAnswers
    \/ PenInterrupt \/ TimerCallback
    \/ UserTouches \/ DigitiserOff \/ DigitiserOn

TouchSpec == TouchInit /\ [][TouchNext]_touchVars

\* The DFC thread runs, the panel answers and the timer expires.
TouchFair ==
    /\ WF_touchVars(TakeReadingDfc) /\ WF_touchVars(PanelAnswers)
    /\ WF_touchVars(WaitForPenUp) /\ WF_touchVars(WaitForPenDown)
    /\ WF_touchVars(TimerCallback)
-----------------------------------------------------------------------------
(* Properties *)

TouchTypeOK ==
    /\ touch.iState \in {"E_HW_PowerUp", "E_HW_PenUpDebounce", "E_HW_CollectSample"}
    /\ touch.iSamplesCount \in Nat
    /\ ToSet(touch.dfcs) \subseteq {"reading", "samples", "penUp"}

\* "iX[] and iY[] are 4 levels deep" (xyin.cpp:441): though the panel's interrupt is
\* never disabled again and asks for samples in the middle of a group and while the
\* layer above has not processed it, no sample is written behind the arrays.
SamplesFit == touch.iSamplesCount <= KMaxXYSamples

\* A pen that is lifted after a group of samples, and stays so, is reported as up,
\* unless the panel is switched off or on meanwhile.
LiftIsReported ==
    (touch.told = "down" /\ ~pen)
        ~> (touch.told # "down" \/ pen)

\* "Request for an interrupt to be generated when the pen is next down" (xyin.cpp:460):
\* from the layer's first request on, the driver looks at the panel or will be
\* interrupted by it.
PenDownIsHeard ==
    touch.started => touch.enabled \/ touch.iTimer \/ touch.sampling \/ touch.dfcs # <<>>
=============================================================================
