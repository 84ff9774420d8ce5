----------------------------- MODULE MCDrivers -----------------------------
(* The drivers in which an interrupt, a DFC and a thread of a client meet.  They
   share no state: part names the one that runs, and the liveness of each is
   checked under its own fairness. *)
EXTENDS MCSpiMaster, UsbBulkOut, UsbControl, TouchScreen, UartTransmit

CONSTANTS PlayTimes, Preempted, KMaxTransfers

VARIABLES part, sound, at

Sound == INSTANCE SoundTransfers

soundVars == <<sound, at>>
driverVars == <<part, vars, outVars, ep0Vars, soundVars, touchVars, euartVars>>

InSpi == part = "spi" /\ UNCHANGED <<part, outVars, ep0Vars, soundVars, touchVars, euartVars>>
InOut == part = "out" /\ UNCHANGED <<part, vars, ep0Vars, soundVars, touchVars, euartVars>>
InCtl == part = "ctl" /\ UNCHANGED <<part, vars, outVars, soundVars, touchVars, euartVars>>
InSound == part = "sound" /\ UNCHANGED <<part, vars, outVars, ep0Vars, touchVars, euartVars>>
InTouch == part = "touch" /\ UNCHANGED <<part, vars, outVars, ep0Vars, soundVars, euartVars>>
InUart == part = "uart" /\ UNCHANGED <<part, vars, outVars, ep0Vars, soundVars, touchVars>>

DriversInit ==
    /\ part \in {"spi", "out", "ctl", "sound", "touch", "uart"}
    /\ Init /\ OutInit /\ Ep0Init
    /\ Sound!SoundInit /\ TouchInit /\ EuartInit

DriversNext ==
    \/ InSpi /\ Next
    \/ InOut /\ OutNext
    \/ InCtl /\ Ep0Next
    \/ InSound /\ Sound!SoundNext
    \/ InTouch /\ TouchNext
    \/ InUart /\ EuartNext

SpiDfc == InSpi /\ TransferEndDfc
SpiTimeout == InSpi /\ HandleSlaveTimeout
SpiIsr == InSpi /\ Isr
SpiLoad == InSpi /\ HwLoad
SpiShifted == InSpi /\ HwShifted
OutTimer == InOut /\ RxTimerCallback
CtlIsr == InCtl /\ Ep0IntService
CtlIsrEnd == InCtl /\ ClearEndpointInterrupt
CtlHostIn == InCtl /\ HostIn
SoundStarts == InSound /\ Sound!StartsTimer
SoundTimer == InSound /\ Sound!TimerCallback
SoundReturns == InSound /\ \E t \in Sound!Threads : Sound!CallbackEnds(t)
TouchReading == InTouch /\ TakeReadingDfc
TouchAnswer == InTouch /\ PanelAnswers
TouchUp == InTouch /\ WaitForPenUp
TouchDown == InTouch /\ WaitForPenDown
TouchTimer == InTouch /\ TimerCallback
UartGoes(c) == InUart /\ (TransmitIsr(c) \/ Write(c) \/ NoMore(c))
UartIsr == InUart /\ ReceiveIsr
UartLine == InUart /\ LineSends

\* FairSpec, OutFair, Ep0Fair, SoundFair, TouchFair and EuartFair, each for its part.
DriversSpec ==
    /\ DriversInit /\ [][DriversNext]_driverVars
    /\ WF_driverVars(SpiDfc) /\ WF_driverVars(SpiTimeout) /\ WF_driverVars(SpiIsr)
    /\ WF_driverVars(SpiLoad) /\ WF_driverVars(SpiShifted)
    /\ WF_driverVars(OutTimer)
    /\ WF_driverVars(CtlIsr) /\ WF_driverVars(CtlIsrEnd) /\ WF_driverVars(CtlHostIn)
    /\ WF_driverVars(SoundStarts) /\ WF_driverVars(SoundTimer) /\ WF_driverVars(SoundReturns)
    /\ WF_driverVars(TouchReading) /\ WF_driverVars(TouchAnswer)
    /\ WF_driverVars(TouchUp) /\ WF_driverVars(TouchDown) /\ WF_driverVars(TouchTimer)
    /\ \A c \in {"thread", "isr"} : WF_driverVars(UartGoes(c))
    /\ WF_driverVars(UartIsr) /\ WF_driverVars(UartLine)

\* A bulk read with data is completed, and an answered control read comes to its
\* status stage (UsbBulkOut, UsbControl).
UsbReadsEnd == DataIsReported /\ ReadEnds
\* Every sound buffer comes back (SoundTransfers).
BuffersReturn == Sound!BuffersReturn
=============================================================================
