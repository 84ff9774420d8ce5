----------------------------- MODULE LcdBuffers -----------------------------
(***************************************************************************)
(* The posting of frame buffers (beagle_drivers/lcd/lcd.cpp): the buffer   *)
(* that is pending, the one that is active, and the DFC that makes the one *)
(* the other.  The calls come from the layer above, on the thread that runs*)
(* the DFC as well.                                                        *)
(***************************************************************************)
EXTENDS Naturals

CONSTANTS
    UserBuffers,        \* the client's
    KReplaced           \* so many user buffers are replaced by another before they are shown

VARIABLES
    buffers,    \* [all buffers -> [iState, iFree]]
    lcd,        \* iPendingBuffer, iActiveBuffer, iPostFlag, iVSyncDfc, the address shown
    asked,      \* the layer's requests: user buffers posted, a composition buffer wanted
    replaced    \* history: user buffers that another one replaced while they were pending

lcdVars == <<buffers, lcd, asked, replaced>>

Legacy == "legacy"
CompositionBuffers == {"cb0", "cb1"}
NULL == "null"
AllBuffers == UserBuffers \cup CompositionBuffers \cup {Legacy}

\* A registered user buffer is not free.
LcdInit ==
    /\ buffers = [b \in AllBuffers |-> [iState |-> "EBufferFree", iFree |-> b \notin UserBuffers]]
    /\ lcd = [iPendingBuffer |-> NULL, iActiveBuffer |-> NULL, iPostFlag |-> FALSE,
              dfc |-> FALSE, address |-> NULL]
    /\ asked = [user |-> 0, composition |-> FALSE] /\ replaced = 0

\* The buffer that leaves is free, unless it is the client's.
Freed(bs, b) == [bs EXCEPT ![b].iState = "EBufferFree", ![b].iFree = @ \/ b \notin UserBuffers]

Dropped == IF lcd.iPendingBuffer = NULL THEN buffers ELSE Freed(buffers, lcd.iPendingBuffer)

Posted(b) ==
    lcd' = [lcd EXCEPT !.iPendingBuffer = b, !.iPostFlag = TRUE, !.dfc = TRUE, !.address = b]

\* Mutant: a replaced user buffer's request is kept.
Cancelled_Not(n) == n
\* RequestComplete(EReqPostUserBuffer, KErrCancel), if the pending buffer is a user's.
Cancelled(n) == IF lcd.iPendingBuffer \in UserBuffers THEN n - 1 ELSE n

OfUser(b) == IF b \in UserBuffers THEN 1 ELSE 0

-----------------------------------------------------------------------------
\* The request of a pending user buffer is not completed, then or later.
PostUserBuffer(b) ==
    /\ replaced' = replaced + OfUser(lcd.iPendingBuffer) /\ replaced' <= KReplaced
    /\ buffers' = [Dropped EXCEPT ![b].iState = "EBufferPending"]
    /\ Posted(b)
    /\ asked' = [asked EXCEPT !.user = @ + 1]

\* PostCompositionBuffer() and PostLegacyBuffer().
Post(b) ==
    /\ buffers' = [Dropped EXCEPT ![b] = [iState |-> "EBufferPending", iFree |-> FALSE]]
    /\ Posted(b)
    /\ asked' = [asked EXCEPT !.user = Cancelled(@)]
    /\ UNCHANGED replaced

\* A buffer that the client has been given.
PostCompositionBuffer(b) == buffers[b].iState = "EBufferCompose" /\ Post(b)
SetGceMode == Post("cb0")
PostLegacyBuffer == Post(Legacy)

\* What was active is freed, or handed to a client that waits for a buffer.
VSyncDfcFn ==
    LET active == lcd.iActiveBuffer
        freed == IF active = NULL THEN buffers ELSE Freed(buffers, active)
        given == active # NULL /\ asked.composition
        handed == IF given THEN [freed EXCEPT ![active].iState = "EBufferCompose"] ELSE freed
        pending == lcd.iPendingBuffer
    IN  /\ lcd.dfc
        /\ IF lcd.iPostFlag
           THEN /\ lcd' = [lcd EXCEPT !.dfc = FALSE, !.iPostFlag = FALSE,
                              !.iActiveBuffer = pending, !.iPendingBuffer = NULL]
                /\ buffers' = IF pending = NULL THEN handed
                              ELSE [handed EXCEPT ![pending].iState = "EBufferActive"]
                /\ asked' = [user |-> IF active \in UserBuffers THEN asked.user - 1
                                      ELSE asked.user,
                             composition |-> asked.composition /\ ~given]
           ELSE lcd' = [lcd EXCEPT !.dfc = FALSE] /\ UNCHANGED <<buffers, asked>>
        /\ UNCHANGED replaced

\* The layer above ends the requests of the channel it closes.
CloseMsg ==
    /\ lcd' = [lcd EXCEPT !.iPendingBuffer = NULL, !.iActiveBuffer = NULL, !.dfc = FALSE]
    /\ asked' = [user |-> 0, composition |-> FALSE] /\ replaced' = 0
    /\ UNCHANGED buffers

\* The layer gives a client a free composition buffer, or lets it wait.
GetCompositionBuffer ==
    LET free == {b \in CompositionBuffers : buffers[b].iFree /\ buffers[b].iState = "EBufferFree"}
    IN  /\ ~asked.composition
        /\ IF free = {} THEN asked' = [asked EXCEPT !.composition = TRUE] /\ UNCHANGED buffers
           ELSE /\ \E b \in free : buffers' = [buffers EXCEPT ![b].iState = "EBufferCompose"]
                /\ UNCHANGED asked
        /\ UNCHANGED <<lcd, replaced>>

LcdNext ==
    \/ \E b \in UserBuffers : PostUserBuffer(b)
    \/ \E b \in CompositionBuffers : PostCompositionBuffer(b)
    \/ SetGceMode \/ PostLegacyBuffer
    \/ VSyncDfcFn \/ CloseMsg \/ GetCompositionBuffer

LcdSpec == LcdInit /\ [][LcdNext]_lcdVars
-----------------------------------------------------------------------------
(* Properties *)

LcdTypeOK ==
    /\ buffers \in [AllBuffers -> [iState : {"EBufferFree", "EBufferPending", "EBufferActive",
                                             "EBufferCompose"}, iFree : BOOLEAN]]
    /\ {lcd.iPendingBuffer, lcd.iActiveBuffer, lcd.address} \subseteq AllBuffers \cup {NULL}

\* A request for a user buffer is ended once, when its buffer is replaced before or after
\* it was shown: under way are those whose buffer is pending or active, the same buffer
\* posted again among them, and those that nobody ends, whose pending buffer another user
\* buffer replaced.
UserRequestsEnd ==
    asked.user = OfUser(lcd.iPendingBuffer) + OfUser(lcd.iActiveBuffer) + replaced

\* "Composition and Legacy buffers are not free when they are in the pending or active
\* state" (lcd.cpp:1608).
NotFreeWhileShown ==
    \A b \in {lcd.iPendingBuffer, lcd.iActiveBuffer} \ {NULL} : ~buffers[b].iFree
=============================================================================
