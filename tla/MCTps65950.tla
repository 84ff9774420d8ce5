----------------------------- MODULE MCTps65950 -----------------------------
(* Instances of Tps65950: all threads of the DFC thread's priority, with time slices,
   so that each may be preempted anywhere; client threads below the DFC's, as the
   drivers that call the synchronous functions are; or a client at 28, the
   priority of the interrupt DFC queue (tps65950_int.cpp:33). *)
EXTENDS Tps65950

CONSTANTS ca, cb, b1, b2

One(action, bits, clear) == <<[iAction |-> action, value |-> bits, iClearMask |-> clear]>>

Read == One("ERead", {}, {})
Write == One("EWrite", {b2}, {})
ClearSet == One("EClearSet", {b1}, {b2})
Disable == One("EDisableProtect", {}, {})
Restore == One("ERestoreProtect", {}, {})

AllRequests == {Read, Write, ClearSet, Disable, Restore, Read \o ClearSet}
PlainRequests == {Read, Write, ClearSet}
RegisterRequests == PlainRequests \union {Read \o ClearSet}

Running(priority, requests, faults) ==
    [priority |-> priority, requests |-> requests, faults |-> faults]

\* All on threads of the DFC queue's priority: with TimeSlice each may be preempted
\* anywhere, as if its priority were below the others'.
AtDfc == [t \in Threads |-> 27]
BelowDfc == [t \in Threads |-> IF t = Dfc THEN 27 ELSE 10]
AboveDfc == [t \in Threads |-> IF t = Dfc THEN 27 ELSE IF t = ca THEN 10 ELSE 28]

Both == {Running(AtDfc, AllRequests, {}), Running(AtDfc, RegisterRequests, {"write"})}
Below == {Running(BelowDfc, PlainRequests, {})}
Above == {Running(AboveDfc, PlainRequests, {})}

\* What follows when threads cross is not explored: the DFC may then remove a request from
\* an empty queue.
Uncrossed == ~crossed
=============================================================================
