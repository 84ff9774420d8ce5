--------------------------- MODULE SoundTransfers ---------------------------
(***************************************************************************)
(* The transfers of the sound driver (beagle_drivers/soundsc/              *)
(* shared_txsound.cpp), which plays nothing: it keeps each buffer for as   *)
(* long as it would take to play, with one timer for the first of them.    *)
(*                                                                         *)
(* TransferData() and StopTransfer() run on the thread of the layer above. *)
(* The timer's callback runs on a thread of higher priority, anywhere      *)
(* between their steps, and the layer above may give the next buffer while *)
(* it is called back.  External: that layer, and the lengths it chooses.   *)
(***************************************************************************)
EXTENDS Naturals, Sequences

CONSTANTS
    PlayTimes,          \* CalculateBufferTime() of the buffers
    Preempted,          \* TransferData() may be, for as long as its buffer plays
    KMaxTransfers       \* the layer gives so many buffers, numbered from 1

VARIABLES
    sound,      \* the driver, see SoundTypeOK
    at          \* where its threads are

soundVars == <<sound, at>>

Threads == {"audio", "timer"}
NoTransfer == [iTransferID |-> 0, iPlayTime |-> 0]

SoundInit ==
    /\ sound = [iTransferArray |-> <<>>,
                iTimer |-> 0,           \* the time it was started for, or 0
                mine |-> NoTransfer,    \* the local variable of TransferData()
                given |-> 0,
                returned |-> <<>>]      \* as the layer above is called back
    /\ at = [t \in Threads |-> "idle"]

Goes(t, from, to) == at[t] = from /\ at' = [at EXCEPT ![t] = to]
Runs(t) == t = "timer" \/ at["timer"] = "idle"

\* KErrInUse is ignored.
OneShot(s, time) == IF s.iTimer = 0 THEN [s EXCEPT !.iTimer = time] ELSE s

Appended(s, transfer) ==
    [s EXCEPT !.given = @ + 1, !.iTransferArray = Append(@, transfer)]

\* Remove(0), and the layer above is told.
Removed(s) ==
    [s EXCEPT !.iTimer = 0, !.iTransferArray = Tail(@),
              !.returned = Append(@, Head(s.iTransferArray).iTransferID)]

\* Mutant: the timer is started again only if there are two more buffers.
Restarted_OneLess(s) ==
    IF Len(s.iTransferArray) > 1 THEN OneShot(s, Head(s.iTransferArray).iPlayTime) ELSE s
Restarted(s) ==
    IF Len(s.iTransferArray) > 0 THEN OneShot(s, Head(s.iTransferArray).iPlayTime) ELSE s

-----------------------------------------------------------------------------
TransferData(time) ==
    /\ Runs("audio") /\ Goes("audio", "idle", "appended")
    /\ sound.given < KMaxTransfers
    /\ LET transfer == [iTransferID |-> sound.given + 1, iPlayTime |-> time]
       IN  sound' = [Appended(sound, transfer) EXCEPT !.mine = transfer]

StartsTimer ==
    /\ Runs("audio") /\ Goes("audio", "appended", "idle")
    /\ sound' = [OneShot(sound, sound.mine.iPlayTime) EXCEPT !.mine = NoTransfer]

\* The first entry is read, whether there is one or not.
TimerCallback ==
    /\ sound.iTimer # 0 /\ sound.iTransferArray # <<>>
    /\ Preempted \/ Head(sound.iTransferArray) # sound.mine
    /\ Goes("timer", "idle", "removed")
    /\ sound' = Removed(sound)

\* Cancel() finds that the timer runs.
StopTransfer ==
    /\ Runs("audio") /\ sound.iTimer # 0 /\ sound.iTransferArray # <<>>
    /\ Goes("audio", "idle", "removed")
    /\ sound' = Removed(sound)

\* Within PlayCallback() the layer above may give a buffer.
PlayCallback(t, time) ==
    /\ Runs(t) /\ at[t] = "removed"
    /\ sound.given < KMaxTransfers
    /\ sound' = OneShot(Appended(sound, [iTransferID |-> sound.given + 1,
                                         iPlayTime |-> time]), time)
    /\ UNCHANGED at

CallbackEnds(t) ==
    /\ Runs(t) /\ Goes(t, "removed", "idle")
    /\ sound' = Restarted(sound)

SoundNext ==
    \/ \E time \in PlayTimes : TransferData(time)
    \/ StartsTimer \/ TimerCallback \/ StopTransfer
    \/ \E t \in Threads : CallbackEnds(t) \/ \E time \in PlayTimes : PlayCallback(t, time)

SoundSpec == SoundInit /\ [][SoundNext]_soundVars

\* Both threads go on and the timer expires.
SoundFair ==
    /\ WF_soundVars(StartsTimer) /\ WF_soundVars(TimerCallback)
    /\ WF_soundVars(\E t \in Threads : CallbackEnds(t))
-----------------------------------------------------------------------------
(* Properties *)

SoundTypeOK ==
    /\ sound.iTimer \in PlayTimes \cup {0}
    /\ at \in [Threads -> {"idle", "appended", "removed"}]

\* Every buffer comes back to the layer above, whichever thread the timer's callback
\* interrupts and whoever finds the timer in use.
BuffersReturn ==
    \A n \in 1..KMaxTransfers : (sound.given = n) ~> (Len(sound.returned) >= n)

\* They come back in the order they were given, and the timer never runs without one:
\* its callback reads the first entry of the array.
TimerHasBuffer ==
    /\ sound.iTimer # 0 => sound.iTransferArray # <<>>
    /\ \A i \in 1..Len(sound.returned) : sound.returned[i] = i

\* "Timer will callback when correct time has elapsed" (shared_txsound.cpp:170): it
\* runs for the play time of the buffer that it will return.
TimeIsCorrect ==
    sound.iTimer # 0 => sound.iTimer = Head(sound.iTransferArray).iPlayTime
=============================================================================
