------------------------------ MODULE TpsProofs ------------------------------
(* Proofs about Tps65950, for any clients, chains of requests and failing transfers, and
   for any priorities, with or without time slices: threads may be preempted anywhere.

   What is proved holds until threads cross (Crosses): one finds the driver idle that
   another has found so, or that has not yet removed the request it has finished.  The run
   tps_preempt shows what may follow; nothing else can go wrong, but for the assertion that
   tps_empty shows to fail.

   First the threads and the queue: a request is completed once, in turn.  Whoever starts
   or finishes a phase does so alone, and nothing else is under way meanwhile: other
   threads add requests, test whether the driver is idle, or notify a client.  Then the
   chip: what a request that ends has done to it, and the count of the clients that have
   disabled its protection. *)
EXTENDS Tps65950, FiniteSetTheorems, TLAPS

InQueue(queue, c) == \E i \in 1..Len(queue) : queue[i] = c
NoTwice(queue) == \A i, j \in 1..Len(queue) : queue[i] = queue[j] => i = j

Starter == {"idleSeen", "pending", "loop"}
\* A thread that starts or finishes a request; and where another one is.
Uses(t) == pc[t] \in Starter \union {"idle"}
Aside == AtRest \union {"added", "dequeued", "notify", "fault"}

Types ==
    /\ setting \in Settings
    /\ pc \in [Threads -> AtRest \union Starter \union {"added", "idle", "dequeued", "notify", "fault"}]
    /\ \A c \in Clients : pc[c] \in {"ready", "waiting", "added", "fault"} \union Starter
    /\ pc[Dfc] \in {"out", "idle", "dequeued", "notify", "fault"} \union Starter
    /\ TheQueue \in Seq(Clients)
    /\ signals \in [Clients -> {0, 1}]
    /\ dfcQueued \in BOOLEAN

\* One thread at a time starts or finishes a request.
OneThread == \A t, u \in Threads : Uses(t) /\ Uses(u) => t = u

Resting == i2c = <<>> /\ ~dfcQueued

\* There is one thing at a time to be done: a transfer, its completion DFC, or a
\* thread that starts or finishes a phase.
OneActivity ==
    /\ i2c # <<>> => i2c = <<Head(i2c)>> /\ ~dfcQueued
    /\ \A t \in Threads : Uses(t) => Resting

\* A driver that is idle has nothing under way, and nobody who starts a phase.
IdleIsIdle ==
    /\ CurrentState = "EIdle" =>
           CurrentPhaseReq = <<>> /\ Resting /\ \A t \in Threads : pc[t] \notin {"pending", "loop"}
    /\ \A t \in Threads : pc[t] \in {"idleSeen", "idle"} => CurrentState = "EIdle"
    /\ pc[Dfc] = "idle" => TheQueue # <<>>

IsHead(p) == TheQueue # <<>> /\ p # <<>> /\ p[1] = Head(TheQueue)

\* What is under way is the first request of the queue.
HeadIsCurrent ==
    CurrentState # "EIdle" =>
        /\ CurrentPhaseReq # <<>> => IsHead(CurrentPhaseReq)
        /\ \A t \in Threads : pc[t] = "loop" /\ CurrentPhaseReq = <<>> => IsHead(PreviousPhaseReq)
        /\ i2c # <<>> => Head(i2c).req = CurrentPhaseReq
        /\ ~Resting => CurrentPhaseReq # <<>>

\* A queued request is in the queue once, and its client waits for it.
QueuedOnce ==
    /\ NoTwice(TheQueue)
    /\ \A c \in Clients : InQueue(TheQueue, c) => pc[c] # "ready" /\ signals[c] = 0
    /\ \A c \in Clients : pc[c] = "ready" => signals[c] = 0

\* The request that the DFC completes has left the queue, or is its first.
Finishing(c) ==
    /\ c \in Clients /\ pc[c] # "ready" /\ signals[c] = 0
    /\ IF pc[Dfc] = "idle" THEN c = Head(TheQueue) ELSE ~InQueue(TheQueue, c)
FinishedOnce ==
    /\ pc[Dfc] = "out" => finished = <<>>
    /\ pc[Dfc] \in {"idle", "dequeued", "idleSeen", "notify"} => Finishing(finished.req[1])
    /\ pc[Dfc] \in {"pending", "loop"} => finished = <<>> \/ Finishing(finished.req[1])

TInv == Types /\ OneThread /\ OneActivity /\ IdleIsIdle /\ HeadIsCurrent /\ QueuedOnce
        /\ FinishedOnce

-----------------------------------------------------------------------------
(* Lemmas *)

\* A request is added at the tail.
LEMMA Appended ==
    ASSUME NEW S, NEW q \in Seq(S), NEW c \in S
    PROVE  /\ Append(q, c) \in Seq(S) /\ Append(q, c) # <<>>
           /\ q # <<>> => Head(Append(q, c)) = Head(q)
           /\ \A d : InQueue(Append(q, c), d) <=> InQueue(q, d) \/ d = c
           /\ NoTwice(q) /\ ~InQueue(q, c) => NoTwice(Append(q, c))
<1> DEFINE a == Append(q, c)
<1>1. /\ a \in Seq(S) /\ Len(a) = Len(q) + 1 /\ Len(q) \in Nat
      /\ \A i \in 1..Len(q) : a[i] = q[i]
      /\ a[Len(q) + 1] = c
  OBVIOUS
<1> HIDE DEF a
<1>2. a # <<>>
  BY <1>1
<1>3. q # <<>> => Head(a) = Head(q)
  <2> SUFFICES ASSUME q # <<>> PROVE Head(a) = Head(q)
    OBVIOUS
  <2>1. Len(q) >= 1 /\ Head(q) = q[1]
    OBVIOUS
  <2> QED
    BY <1>1, <2>1
<1>4. ASSUME NEW d PROVE InQueue(a, d) <=> InQueue(q, d) \/ d = c
  <2>1. ASSUME InQueue(a, d) PROVE InQueue(q, d) \/ d = c
    <3>1. PICK i \in 1..Len(a) : a[i] = d
      BY <2>1 DEF InQueue
    <3>2. i \in 1..Len(q) \/ i = Len(q) + 1
      BY <1>1
    <3> QED
      BY <1>1, <3>1, <3>2 DEF InQueue
  <2>2. ASSUME InQueue(q, d) PROVE InQueue(a, d)
    <3>1. PICK i \in 1..Len(q) : q[i] = d
      BY <2>2 DEF InQueue
    <3>2. i \in 1..Len(a) /\ a[i] = d
      BY <1>1, <3>1
    <3> QED
      BY <3>2 DEF InQueue
  <2>3. InQueue(a, c)
    <3>1. Len(q) + 1 \in 1..Len(a) /\ a[Len(q) + 1] = c
      BY <1>1
    <3> QED
      BY <3>1 DEF InQueue
  <2> QED
    BY <2>1, <2>2, <2>3
<1>5. ASSUME NoTwice(q), ~InQueue(q, c) PROVE NoTwice(a)
  <2> SUFFICES ASSUME NEW i \in 1..Len(a), NEW j \in 1..Len(a), a[i] = a[j] PROVE i = j
    BY DEF NoTwice
  <2>1. /\ i \in 1..Len(q) \/ i = Len(q) + 1
        /\ j \in 1..Len(q) \/ j = Len(q) + 1
    BY <1>1
  <2>2. \A k \in 1..Len(q) : a[k] # c
    BY <1>1, <1>5 DEF InQueue
  <2> QED
    BY <1>1, <1>5, <2>1, <2>2 DEF NoTwice
<1> QED
  BY <1>1, <1>2, <1>3, <1>4, <1>5 DEF a

\* The first request leaves the queue.
LEMMA Tailed ==
    ASSUME NEW S, NEW q \in Seq(S), q # <<>>, NoTwice(q)
    PROVE  /\ Tail(q) \in Seq(S) /\ Head(q) \in S /\ InQueue(q, Head(q))
           /\ \A d : InQueue(Tail(q), d) <=> InQueue(q, d) /\ d # Head(q)
           /\ NoTwice(Tail(q))
<1> DEFINE r == Tail(q)
<1>1. /\ r \in Seq(S) /\ Len(q) \in Nat /\ Len(q) >= 1 /\ Len(r) = Len(q) - 1
      /\ \A i \in 1..Len(r) : r[i] = q[i + 1]
      /\ Head(q) = q[1] /\ q[1] \in S
  OBVIOUS
<1> HIDE DEF r
<1>2. InQueue(q, Head(q))
  BY <1>1 DEF InQueue
<1>3. ASSUME NEW d PROVE InQueue(r, d) <=> InQueue(q, d) /\ d # Head(q)
  <2>1. ASSUME InQueue(r, d) PROVE InQueue(q, d) /\ d # Head(q)
    <3>1. PICK i \in 1..Len(r) : r[i] = d
      BY <2>1 DEF InQueue
    <3>2. i + 1 \in 1..Len(q) /\ q[i + 1] = d /\ 1 \in 1..Len(q) /\ i + 1 # 1
      BY <1>1, <3>1
    <3>3. q[i + 1] # q[1]
      BY <3>2 DEF NoTwice
    <3> QED
      BY <1>1, <3>2, <3>3 DEF InQueue
  <2>2. ASSUME InQueue(q, d), d # Head(q) PROVE InQueue(r, d)
    <3>1. PICK i \in 1..Len(q) : q[i] = d
      BY <2>2 DEF InQueue
    <3>2. i # 1
      BY <1>1, <2>2, <3>1
    <3>3. i - 1 \in 1..Len(r) /\ r[i - 1] = q[(i - 1) + 1] /\ (i - 1) + 1 = i
      BY <1>1, <3>2
    <3> QED
      BY <3>1, <3>3 DEF InQueue
  <2> QED
    BY <2>1, <2>2
<1>4. NoTwice(r)
  <2> SUFFICES ASSUME NEW i \in 1..Len(r), NEW j \in 1..Len(r), r[i] = r[j] PROVE i = j
    BY DEF NoTwice
  <2>1. i + 1 \in 1..Len(q) /\ j + 1 \in 1..Len(q) /\ q[i + 1] = q[j + 1]
    BY <1>1
  <2>2. i + 1 = j + 1
    BY <2>1 DEF NoTwice
  <2> QED
    BY <2>2
<1> QED
  BY <1>1, <1>2, <1>3, <1>4 DEF r

\* A thread that starts or finishes a request is the only one.
LEMMA Only ==
    ASSUME TInv, NEW t \in Threads, Uses(t), NEW u \in Threads, u # t
    PROVE  pc[u] \in Aside
BY DEF TInv, Types, OneThread, Uses, Aside, AtRest

\* The boot state satisfies the invariant.
LEMMA TpsInitially == Init => TInv
<1> SUFFICES ASSUME Init PROVE TInv
  OBVIOUS
<1> USE ConstAssumption DEF Init, Threads
<1>1. Types
  <2>1. /\ pc \in [Threads -> AtRest \union Starter \union {"added", "idle", "dequeued", "notify", "fault"}]
        /\ \A c \in Clients : pc[c] = "ready"
        /\ pc[Dfc] = "out"
    BY DEF AtRest
  <2>2. signals \in [Clients -> {0, 1}]
    OBVIOUS
  <2>3. TheQueue \in Seq(Clients) /\ dfcQueued \in BOOLEAN
    <3>1. <<>> \in Seq(Clients)
      OBVIOUS
    <3> QED
      BY <3>1
  <2> QED
    BY <2>1, <2>2, <2>3 DEF Types
<1>2. OneThread /\ OneActivity /\ IdleIsIdle /\ HeadIsCurrent
  BY DEF OneThread, Uses, AtRest, OneActivity, Resting, IdleIsIdle, HeadIsCurrent, Starter
<1>3. QueuedOnce /\ FinishedOnce
  BY DEF QueuedOnce, NoTwice, InQueue, FinishedOnce
<1> QED
  BY <1>1, <1>2, <1>3 DEF TInv

\* A client adds its request, whatever is under way.
LEMMA ExecAsyncKeeps ==
    ASSUME TInv, NEW c \in Clients, NEW r, ExecAsync(c, r), setting' = setting
    PROVE  TInv'
<1> USE DEF TInv
<1>0. /\ TheQueue' = Append(TheQueue, c) /\ pc' = [pc EXCEPT ![c] = "added"]
      /\ pc[c] = "ready" /\ c \in Threads /\ Dfc \in Threads /\ c # Dfc
      /\ ~InQueue(TheQueue, c) /\ signals[c] = 0
      /\ TheQueue \in Seq(Clients)
  BY ConstAssumption DEF ExecAsync, Added, QueuedOnce, Types, Threads
<1>1. /\ TheQueue' \in Seq(Clients) /\ TheQueue' # <<>>
      /\ TheQueue # <<>> => Head(TheQueue') = Head(TheQueue)
      /\ \A d : InQueue(TheQueue', d) <=> InQueue(TheQueue, d) \/ d = c
      /\ NoTwice(TheQueue')
  BY <1>0, Appended DEF QueuedOnce
<1>3. /\ pc \in [Threads -> AtRest \union Starter \union {"added", "idle", "dequeued", "notify", "fault"}]
      /\ pc'[c] = "added" /\ \A u \in Threads : u # c => pc'[u] = pc[u]
  BY <1>0 DEF Types
<1>4. UNCHANGED <<signals, CurrentState, CurrentPhaseReq, PreviousPhaseReq, i2c, dfcQueued, finished>>
  BY DEF ExecAsync
<1>5. Types'
  BY <1>0, <1>1, <1>4 DEF Types
<1>6. OneThread'
  BY <1>3 DEF OneThread, Uses, Starter
<1>7. OneActivity'
  BY <1>3, <1>4 DEF OneActivity, Resting, Uses, Starter
<1>8. IdleIsIdle'
  BY <1>0, <1>1, <1>3, <1>4 DEF IdleIsIdle, Resting, Starter
<1>9. HeadIsCurrent'
  BY <1>1, <1>3, <1>4 DEF HeadIsCurrent, Resting, IsHead
<1>10. QueuedOnce'
  <2>1. \A d \in Clients : d \in Threads /\ (d # c => pc'[d] = pc[d])
    BY <1>3 DEF Threads
  <2> QED
    BY <1>0, <1>1, <1>3, <1>4, <2>1 DEF QueuedOnce
<1>11. FinishedOnce'
  <2>1. pc'[Dfc] = pc[Dfc] /\ \A d \in Clients : d \in Threads
    BY <1>0, <1>3 DEF Threads
  <2>2. \A d : Finishing(d) => Finishing(d)'
    <3> SUFFICES ASSUME NEW d, Finishing(d) PROVE Finishing(d)'
      OBVIOUS
    <3>1. d \in Clients /\ d # c /\ pc'[d] = pc[d]
      BY <1>0, <1>3, <2>1 DEF Finishing
    <3>2. pc[Dfc] = "idle" => TheQueue # <<>>
      BY DEF IdleIsIdle
    <3> QED
      BY <1>1, <1>4, <2>1, <3>1, <3>2 DEF Finishing
  <2> QED
    BY <1>4, <2>1, <2>2 DEF FinishedOnce
<1> QED
  BY <1>5, <1>6, <1>7, <1>8, <1>9, <1>10, <1>11

\* A thread tests whether the driver is idle, and does not cross another.
TestsIdle(t) ==
    /\ pc[t] = (IF t = Dfc THEN "dequeued" ELSE "added")
    /\ pc' = [pc EXCEPT ![t] = IF SeesIdle THEN "idleSeen"
                               ELSE IF t = Dfc THEN "notify" ELSE "waiting"]
    /\ UNCHANGED <<setting, reqVars, queueVars, busVars, dfcQueued, finished, held>>
    /\ ~Crosses

\* Whoever finds it idle is the only one then.
LEMMA IdleIsFound ==
    ASSUME TInv, NEW t \in Threads, TestsIdle(t)
    PROVE  /\ pc'[t] = IF SeesIdle THEN "idleSeen" ELSE IF t = Dfc THEN "notify" ELSE "waiting"
           /\ \A u \in Threads : u # t => pc'[u] = pc[u]
           /\ SeesIdle => Resting /\ CurrentState = "EIdle"
           /\ SeesIdle => \A u \in Threads : u # t => pc[u] \in Aside
<1> USE DEF TInv
<1>1. /\ pc'[t] = IF SeesIdle THEN "idleSeen" ELSE IF t = Dfc THEN "notify" ELSE "waiting"
      /\ \A u \in Threads : u # t => pc'[u] = pc[u]
  BY DEF TestsIdle, Types
<1>2. SeesIdle => Resting /\ CurrentState = "EIdle" /\ \A u \in Threads : pc[u] \notin {"pending", "loop"}
  BY DEF SeesIdle, IdleIsIdle
<1>3. SeesIdle => \A u \in Threads : u # t => pc[u] \notin {"idleSeen", "idle"}
  BY <1>1 DEF TestsIdle, Crosses
<1>4. SeesIdle => \A u \in Threads : u # t => pc[u] \in Aside
  BY <1>2, <1>3 DEF Types, Aside, AtRest, Starter
<1> QED
  BY <1>1, <1>2, <1>4

\* A thread that finds the driver idle starts it; another client waits.
LEMMA TestIdleKeeps ==
    ASSUME TInv, NEW t \in Threads, TestsIdle(t)
    PROVE  TInv'
<1> USE DEF TInv
<1>1. /\ pc'[t] = IF SeesIdle THEN "idleSeen" ELSE IF t = Dfc THEN "notify" ELSE "waiting"
      /\ \A u \in Threads : u # t => pc'[u] = pc[u]
      /\ SeesIdle => Resting /\ CurrentState = "EIdle"
      /\ SeesIdle => \A u \in Threads : u # t => pc[u] \in Aside
  BY IdleIsFound
<1>2. /\ pc[t] = (IF t = Dfc THEN "dequeued" ELSE "added")
      /\ UNCHANGED <<setting, signals, TheQueue, CurrentState, CurrentPhaseReq, PreviousPhaseReq,
                     i2c, dfcQueued, finished>>
  BY DEF TestsIdle, reqVars, queueVars, busVars
<1>4. (\A c \in Clients : c \in Threads /\ c # Dfc) /\ Dfc \in Threads
  BY ConstAssumption DEF Threads
<1>5. Types'
  BY <1>1, <1>2, <1>4 DEF Types, TestsIdle, AtRest, Starter
<1>6. OneThread'
  BY <1>1 DEF OneThread, Uses, Aside, AtRest, Starter
<1>7. OneActivity'
  BY <1>1, <1>2 DEF OneActivity, Resting, Uses, Starter
<1>8. IdleIsIdle'
  BY <1>1, <1>2, <1>4 DEF IdleIsIdle, Resting
<1>9. HeadIsCurrent'
  BY <1>1, <1>2 DEF HeadIsCurrent, Resting, IsHead
<1>10. QueuedOnce'
  BY <1>1, <1>2, <1>4 DEF QueuedOnce
<1>11. FinishedOnce'
  <2>1. \A d : Finishing(d) => Finishing(d)'
    BY <1>1, <1>2, <1>4 DEF Finishing
  <2> QED
    BY <1>1, <1>2, <1>4, <2>1 DEF FinishedOnce
<1> QED
  BY <1>5, <1>6, <1>7, <1>8, <1>9, <1>10, <1>11

\* The state of a driver whose thread t goes on inside it.
GoesOn(t, to) ==
    /\ pc' = [pc EXCEPT ![t] = to]
    /\ setting' = setting /\ TheQueue' = TheQueue /\ signals' = signals

\* What such a step leaves as it is.
LEMMA GoesOnKeeps ==
    ASSUME TInv, NEW t \in Threads, \A u \in Threads : u # t => pc[u] \in Aside,
           Uses(t) \/ pc[t] = "out", NEW to, GoesOn(t, to),
           to \in IF t = Dfc THEN {"out", "idle", "dequeued", "notify", "fault"} \union Starter
                  ELSE {"waiting", "added", "fault"} \union Starter,
           dfcQueued' \in BOOLEAN
    PROVE  /\ Types' /\ OneThread' /\ QueuedOnce'
           /\ pc'[t] = to /\ \A u \in Threads : u # t => pc[u] \in Aside /\ pc'[u] = pc[u]
           /\ t # Dfc => pc[Dfc] # "idle" /\ pc'[Dfc] = pc[Dfc]
           /\ \A d : Finishing(d) /\ pc[Dfc] # "idle" /\ pc'[Dfc] # "idle" => Finishing(d)'
<1> USE DEF TInv, GoesOn
<1>1. pc'[t] = to /\ \A u \in Threads : u # t => pc[u] \in Aside /\ pc'[u] = pc[u]
  BY DEF Types
<1>2. (\A c \in Clients : c \in Threads /\ c # Dfc) /\ Dfc \in Threads
  BY ConstAssumption DEF Threads
<1>3. Types'
  <2>1. pc' \in [Threads -> AtRest \union Starter \union {"added", "idle", "dequeued", "notify", "fault"}]
    BY DEF Types, AtRest, Starter
  <2>2. \A c \in Clients : pc'[c] \in {"ready", "waiting", "added", "fault"} \union Starter
    BY <1>1, <1>2 DEF Types
  <2>3. pc'[Dfc] \in {"out", "idle", "dequeued", "notify", "fault"} \union Starter
    BY <1>1, <1>2 DEF Types
  <2> QED
    BY <2>1, <2>2, <2>3 DEF Types
<1>4. OneThread'
  BY <1>1 DEF OneThread, Uses, Aside, AtRest, Starter
<1>5. \A c \in Clients : pc'[c] = "ready" <=> pc[c] = "ready"
  BY <1>1, <1>2 DEF Uses, Starter, Types
<1>6. QueuedOnce'
  BY <1>5 DEF QueuedOnce
<1>7. t # Dfc => pc[Dfc] # "idle" /\ pc'[Dfc] = pc[Dfc]
  BY <1>1, <1>2 DEF Aside, AtRest
<1>8. \A d : Finishing(d) /\ pc[Dfc] # "idle" /\ pc'[Dfc] # "idle" => Finishing(d)'
  BY <1>5 DEF Finishing
<1> QED
  BY <1>1, <1>3, <1>4, <1>6, <1>7, <1>8

\* SetPending(): the driver is no longer idle.
LEMMA SetPendingKeeps ==
    ASSUME TInv, NEW t \in Threads, SetPending(t), setting' = setting
    PROVE  TInv'
<1> USE DEF TInv
<1>1. /\ Uses(t) /\ pc[t] = "idleSeen" /\ GoesOn(t, "pending")
      /\ UNCHANGED <<CurrentPhaseReq, PreviousPhaseReq, i2c, dfcQueued, finished>>
      /\ CurrentState' = "EPending"
  BY DEF SetPending, Uses, Starter, GoesOn, reqVars, busVars
<1>2. dfcQueued' \in BOOLEAN /\ \A u \in Threads : u # t => pc[u] \in Aside
  BY <1>1, Only DEF Types
<1>3. /\ Types' /\ OneThread' /\ QueuedOnce'
      /\ pc'[t] = "pending" /\ \A u \in Threads : u # t => pc[u] \in Aside /\ pc'[u] = pc[u]
      /\ t # Dfc => pc[Dfc] # "idle" /\ pc'[Dfc] = pc[Dfc]
      /\ \A d : Finishing(d) /\ pc[Dfc] # "idle" /\ pc'[Dfc] # "idle" => Finishing(d)'
  BY <1>1, <1>2, GoesOnKeeps DEF Starter
<1>4. Resting /\ CurrentPhaseReq = <<>>
  BY <1>1 DEF IdleIsIdle
<1>5. OneActivity' /\ IdleIsIdle'
  BY <1>1, <1>3, <1>4 DEF OneActivity, IdleIsIdle, Resting, Aside, AtRest
<1>6. HeadIsCurrent'
  BY <1>1, <1>3, <1>4 DEF HeadIsCurrent, Resting, Aside, AtRest
<1>7. FinishedOnce'
  BY <1>1, <1>3 DEF FinishedOnce
<1> QED
  BY <1>3, <1>5, <1>6, <1>7

\* A thread that starts a phase is the only activity, and the driver is pending.
LEMMA Pending ==
    ASSUME TInv, NEW t \in Threads, pc[t] \in {"pending", "loop"}
    PROVE  /\ Resting /\ CurrentState # "EIdle" /\ Uses(t)
           /\ \A u \in Threads : u # t => pc[u] \in Aside
<1>1. Uses(t)
  BY DEF Uses, Starter
<1> QED
  BY <1>1, Only DEF TInv, OneActivity, IdleIsIdle

\* StartRequest() takes the head of the queue where no request is under way; where the queue
\* is empty it stops the system.
LEMMA StartRequestKeeps ==
    ASSUME TInv, NEW t \in Threads, StartRequest(t), setting' = setting
    PROVE  TInv'
<1> DEFINE to == IF StartAsserts THEN "loop" ELSE "fault"
<1> USE DEF TInv
<1>1. /\ pc[t] = "pending" /\ GoesOn(t, to)
      /\ UNCHANGED <<CurrentState, i2c, dfcQueued, finished>>
  BY DEF StartRequest, GoesOn, reqVars, busVars
<1>2. dfcQueued' \in BOOLEAN
  BY <1>1 DEF Types
<1>3. /\ Resting /\ CurrentState # "EIdle" /\ TheQueue' = TheQueue /\ Uses(t)
      /\ \A u \in Threads : u # t => pc[u] \in Aside
  BY <1>1, Pending DEF GoesOn
<1>4. /\ Types' /\ OneThread' /\ QueuedOnce'
      /\ pc'[t] = to /\ \A u \in Threads : u # t => pc[u] \in Aside /\ pc'[u] = pc[u]
      /\ t # Dfc => pc[Dfc] # "idle" /\ pc'[Dfc] = pc[Dfc]
      /\ \A d : Finishing(d) /\ pc[Dfc] # "idle" /\ pc'[Dfc] # "idle" => Finishing(d)'
  BY <1>1, <1>2, <1>3, GoesOnKeeps DEF Starter
<1>5. /\ StartAsserts => IsHead(CurrentPhaseReq)'
      /\ ~StartAsserts => CurrentPhaseReq' = CurrentPhaseReq
  <2>1. CASE StartAsserts /\ CurrentPhaseReq = <<>>
    BY <1>3, <2>1 DEF StartRequest, StartAsserts, IsHead
  <2>2. CASE ~StartAsserts \/ CurrentPhaseReq # <<>>
    BY <1>3, <2>2 DEF StartRequest, HeadIsCurrent, IsHead
  <2> QED
    BY <2>1, <2>2
<1>6. OneActivity' /\ IdleIsIdle'
  BY <1>1, <1>3, <1>4 DEF OneActivity, IdleIsIdle, Resting, Aside, AtRest
<1>7. HeadIsCurrent'
  <2>1. IsHead(CurrentPhaseReq) => IsHead(CurrentPhaseReq)' \/ StartAsserts
    BY <1>3, <1>5 DEF IsHead
  <2>2. \A u \in Threads : pc'[u] = "loop" => u = t /\ StartAsserts
    BY <1>4 DEF Aside, AtRest
  <2>3. Resting' /\ i2c' = <<>>
    BY <1>1, <1>3 DEF Resting
  <2>4. CurrentPhaseReq' # <<>> => IsHead(CurrentPhaseReq)'
    BY <1>3, <1>5, <2>1 DEF HeadIsCurrent
  <2>5. StartAsserts => CurrentPhaseReq' # <<>>
    BY <1>5 DEF IsHead
  <2> QED
    BY <2>2, <2>3, <2>4, <2>5 DEF HeadIsCurrent
<1>8. FinishedOnce'
  BY <1>1, <1>4 DEF FinishedOnce
<1> QED
  BY <1>4, <1>6, <1>7, <1>8

\* Where a thread goes from StartRequest()'s loop.
Onward(t) == IF t # Dfc THEN "waiting" ELSE IF finished = <<>> THEN "out" ELSE "notify"

\* A thread leaves StartRequest(): a client waits, the DFC returns or completes a request.
LEMMA LeavesKeeps ==
    ASSUME TInv, NEW t \in Threads, pc[t] = "loop", GoesOn(t, Onward(t)), finished' = finished,
           dfcQueued' \in BOOLEAN
    PROVE  /\ Types' /\ OneThread' /\ QueuedOnce' /\ FinishedOnce'
           /\ Resting /\ CurrentState # "EIdle" /\ TheQueue' = TheQueue
           /\ \A u \in Threads : pc'[u] \in Aside
<1> USE DEF TInv
<1>1. /\ Resting /\ CurrentState # "EIdle" /\ TheQueue' = TheQueue /\ Uses(t)
      /\ \A u \in Threads : u # t => pc[u] \in Aside
  BY Pending DEF GoesOn
<1>2. /\ Types' /\ OneThread' /\ QueuedOnce'
      /\ pc'[t] = Onward(t) /\ \A u \in Threads : u # t => pc[u] \in Aside /\ pc'[u] = pc[u]
      /\ t # Dfc => pc[Dfc] # "idle" /\ pc'[Dfc] = pc[Dfc]
      /\ \A d : Finishing(d) /\ pc[Dfc] # "idle" /\ pc'[Dfc] # "idle" => Finishing(d)'
  <2>1. Onward(t) \in IF t = Dfc THEN {"out", "idle", "dequeued", "notify", "fault"} \union Starter
                      ELSE {"waiting", "added", "fault"} \union Starter
    BY DEF Onward
  <2> QED
    BY <1>1, <2>1, GoesOnKeeps
<1>3. FinishedOnce'
  <2>1. CASE t # Dfc
    BY <1>2, <2>1 DEF FinishedOnce
  <2>2. CASE t = Dfc
    BY <1>2, <2>2 DEF FinishedOnce, Onward
  <2> QED
    BY <2>1, <2>2
<1>4. \A u \in Threads : pc'[u] \in Aside
  BY <1>2 DEF Onward, Aside, AtRest
<1> QED
  BY <1>1, <1>2, <1>3, <1>4

\* A transfer is started.
LEMMA StartPhaseKeeps ==
    ASSUME TInv, NEW t \in Threads, StartPhase(t), setting' = setting
    PROVE  TInv'
<1> USE DEF TInv
<1>1. /\ pc[t] = "loop" /\ GoesOn(t, Onward(t)) /\ CurrentPhaseReq # <<>>
      /\ UNCHANGED <<CurrentPhaseReq, PreviousPhaseReq, dfcQueued, finished>>
  BY DEF StartPhase, InLoop, Started, Onward, GoesOn, reqVars
<1>2. /\ \E x : i2c' = Append(i2c, x) /\ x.req = CurrentPhaseReq
      /\ CurrentState' # "EIdle"
  BY DEF StartPhase, StartRead, StartWrite, StartKey, TransferA
<1>3. dfcQueued' \in BOOLEAN
  BY <1>1 DEF Types
<1>4. /\ Types' /\ OneThread' /\ QueuedOnce' /\ FinishedOnce'
      /\ Resting /\ CurrentState # "EIdle" /\ TheQueue' = TheQueue
      /\ \A u \in Threads : pc'[u] \in Aside
  BY <1>1, <1>3, LeavesKeeps
<1>5. i2c' = <<Head(i2c')>> /\ i2c' # <<>> /\ Head(i2c').req = CurrentPhaseReq
  BY <1>2, <1>4 DEF Resting
<1>6. OneActivity' /\ IdleIsIdle'
  BY <1>1, <1>2, <1>4, <1>5, ConstAssumption
     DEF OneActivity, IdleIsIdle, Resting, Uses, Aside, AtRest, Starter, Threads
<1>7. HeadIsCurrent'
  BY <1>1, <1>4, <1>5 DEF HeadIsCurrent, Resting, IsHead, Aside, AtRest
<1> QED
  BY <1>4, <1>6, <1>7

\* A phase that only changes the count is passed over.
LEMMA SkipPhaseKeeps ==
    ASSUME TInv, NEW t \in Threads, SkipPhase(t), setting' = setting
    PROVE  TInv'
<1> USE DEF TInv
<1>1. /\ pc[t] = "loop" /\ CurrentPhaseReq # <<>> /\ PreviousPhaseReq' = CurrentPhaseReq
      /\ CurrentPhaseReq' = NextPhase(CurrentPhaseReq)
      /\ UNCHANGED <<pc, TheQueue, signals, CurrentState, i2c, dfcQueued, finished>>
  BY DEF SkipPhase, InLoop, busVars
<1>2. Resting /\ CurrentState # "EIdle"
  BY <1>1, Pending
<1>3. IsHead(CurrentPhaseReq)
  BY <1>1, <1>2 DEF HeadIsCurrent
<1>4. CurrentPhaseReq' # <<>> => CurrentPhaseReq'[1] = CurrentPhaseReq[1]
  BY <1>1 DEF NextPhase
<1>5. Types' /\ OneThread' /\ QueuedOnce' /\ FinishedOnce'
  BY <1>1 DEF Types, OneThread, Uses, QueuedOnce, FinishedOnce, Finishing
<1>6. OneActivity' /\ IdleIsIdle'
  BY <1>1, <1>2 DEF OneActivity, IdleIsIdle, Resting, Uses
<1>7. HeadIsCurrent'
  BY <1>1, <1>2, <1>3, <1>4 DEF HeadIsCurrent, Resting, IsHead
<1> QED
  BY <1>5, <1>6, <1>7

\* The completion of a request that ends with such a phase is faked.
LEMMA FakeCompletionKeeps ==
    ASSUME TInv, NEW t \in Threads, FakeCompletion(t), setting' = setting
    PROVE  TInv'
<1> USE DEF TInv
<1>1. /\ pc[t] = "loop" /\ GoesOn(t, Onward(t)) /\ CurrentPhaseReq = <<>>
      /\ CurrentPhaseReq' = PreviousPhaseReq /\ CurrentState' = "EWriting" /\ dfcQueued'
      /\ UNCHANGED <<i2c, finished>>
  BY DEF FakeCompletion, InLoop, Started, Onward, GoesOn, reqVars, busVars
<1>2. dfcQueued' \in BOOLEAN
  BY DEF FakeCompletion
<1>3. /\ Types' /\ OneThread' /\ QueuedOnce' /\ FinishedOnce'
      /\ Resting /\ CurrentState # "EIdle" /\ TheQueue' = TheQueue
      /\ \A u \in Threads : pc'[u] \in Aside
  BY <1>1, <1>2, LeavesKeeps
<1>4. IsHead(PreviousPhaseReq)
  BY <1>1, <1>3 DEF HeadIsCurrent
<1>5. OneActivity' /\ IdleIsIdle'
  BY <1>1, <1>3, ConstAssumption
     DEF OneActivity, IdleIsIdle, Resting, Uses, Aside, AtRest, Starter, Threads
<1>6. HeadIsCurrent'
  BY <1>1, <1>3, <1>4 DEF HeadIsCurrent, Resting, IsHead, Aside, AtRest
<1> QED
  BY <1>3, <1>5, <1>6

\* The completion DFC finds a phase of the first request under way, and no thread that
\* starts or finishes one.
LEMMA DfcFinds ==
    ASSUME TInv, pc[Dfc] = "out", ~Resting
    PROVE  /\ CurrentState # "EIdle" /\ TheQueue # <<>> /\ finished = <<>>
           /\ CurrentPhaseReq # <<>> /\ IsHead(CurrentPhaseReq)
           /\ Dfc \in Threads /\ \A t \in Threads : pc[t] \in Aside
<1>1. \A t \in Threads : pc[t] \in Aside
  BY DEF TInv, OneActivity, Types, Uses, Aside, AtRest, Starter
<1> QED
  BY <1>1 DEF TInv, Threads, FinishedOnce, IdleIsIdle, HeadIsCurrent, IsHead

\* The DFC starts a phase's next transfer, or the transfer that was under way is done.
LEMMA DfcTransfersKeeps ==
    ASSUME TInv, DfcWriteBack \/ DfcUnprotect1 \/ I2cDone, setting' = setting
    PROVE  TInv'
<1> USE DEF TInv
<1>1. /\ pc[Dfc] = "out" /\ ~Resting
      /\ UNCHANGED <<pc, TheQueue, signals, CurrentPhaseReq, PreviousPhaseReq, finished>>
  BY DEF DfcWriteBack, DfcUnprotect1, DfcEntered, I2cDone, Resting, reqVars, queueVars
<1>2. /\ CurrentState # "EIdle" /\ TheQueue # <<>> /\ finished = <<>>
      /\ CurrentPhaseReq # <<>> /\ IsHead(CurrentPhaseReq)
      /\ Dfc \in Threads /\ \A t \in Threads : pc[t] \in Aside
  BY <1>1, DfcFinds
<1>3. /\ CurrentState' # "EIdle" /\ dfcQueued' \in BOOLEAN
      /\ i2c' # <<>> => i2c' = <<Head(i2c')>> /\ ~dfcQueued' /\ Head(i2c').req = CurrentPhaseReq
  <2>1. CASE DfcWriteBack \/ DfcUnprotect1
    <3>1. PICK x : i2c' = Append(i2c, x) /\ x.req = CurrentPhaseReq
      BY <2>1 DEF DfcWriteBack, DfcUnprotect1, StartWrite, StartKey, TransferA
    <3>2. i2c = <<>> /\ dfcQueued' = FALSE
      BY <2>1 DEF DfcWriteBack, DfcUnprotect1, DfcEntered, OneActivity
    <3>3. CurrentState' # "EIdle"
      BY <2>1 DEF DfcWriteBack, DfcUnprotect1, StartWrite, StartKey
    <3>4. i2c' = <<x>>
      BY <3>1, <3>2
    <3>5. i2c' # <<>> /\ Head(i2c') = x
      BY <3>4
    <3> QED
      BY <3>1, <3>2, <3>3, <3>4, <3>5
  <2>2. CASE I2cDone
    <3>1. i2c = <<Head(i2c)>> /\ i2c' = Tail(i2c) /\ dfcQueued' = TRUE
      BY <2>2 DEF I2cDone, OneActivity
    <3>2. i2c' = <<>>
      <4>1. \A x : Tail(<<x>>) = <<>>
        OBVIOUS
      <4> QED
        BY <3>1, <4>1
    <3> QED
      BY <1>2, <2>2, <3>1, <3>2 DEF I2cDone, queueVars
  <2> QED
    BY <2>1, <2>2
<1>4. Types' /\ OneThread' /\ QueuedOnce' /\ FinishedOnce'
  BY <1>1, <1>3 DEF Types, OneThread, Uses, QueuedOnce, FinishedOnce, Finishing
<1>5. OneActivity' /\ IdleIsIdle'
  BY <1>1, <1>2, <1>3 DEF OneActivity, IdleIsIdle, Uses, Aside, AtRest, Starter
<1>6. HeadIsCurrent'
  BY <1>1, <1>2, <1>3 DEF HeadIsCurrent, IsHead, Aside, AtRest
<1> QED
  BY <1>4, <1>5, <1>6

\* The DFC goes on to the request's next phase.
LEMMA DfcNextPhaseKeeps ==
    ASSUME TInv, DfcNextPhase, setting' = setting
    PROVE  TInv'
<1> USE DEF TInv
<1>1. /\ pc[Dfc] = "out" /\ dfcQueued /\ GoesOn(Dfc, "pending")
      /\ CurrentPhaseReq' = NextPhase(CurrentPhaseReq) /\ CurrentPhaseReq' # <<>>
      /\ CurrentState' = "EPending" /\ dfcQueued' = FALSE /\ UNCHANGED <<i2c, finished>>
  BY DEF DfcNextPhase, DfcEntered, GoesOn, reqVars, busVars
<1>2. /\ CurrentState # "EIdle" /\ TheQueue # <<>> /\ finished = <<>>
      /\ CurrentPhaseReq # <<>> /\ IsHead(CurrentPhaseReq)
      /\ Dfc \in Threads /\ \A t \in Threads : pc[t] \in Aside
  BY <1>1, DfcFinds DEF Resting
<1>3. /\ Types' /\ OneThread' /\ QueuedOnce'
      /\ pc'[Dfc] = "pending" /\ \A u \in Threads : u # Dfc => pc[u] \in Aside /\ pc'[u] = pc[u]
  BY <1>1, <1>2, GoesOnKeeps DEF Starter
<1>4. i2c = <<>> /\ CurrentPhaseReq'[1] = CurrentPhaseReq[1] /\ TheQueue' = TheQueue
  BY <1>1 DEF OneActivity, NextPhase, GoesOn
<1>5. OneActivity' /\ IdleIsIdle' /\ FinishedOnce'
  BY <1>1, <1>2, <1>3, <1>4 DEF OneActivity, IdleIsIdle, FinishedOnce, Resting, Aside, AtRest
<1>6. HeadIsCurrent'
  BY <1>1, <1>2, <1>3, <1>4 DEF HeadIsCurrent, Resting, IsHead, Aside, AtRest
<1> QED
  BY <1>3, <1>5, <1>6

\* The request is done and the driver idle, with the request still in the queue.
LEMMA DfcIdleKeeps ==
    ASSUME TInv, DfcIdle, setting' = setting
    PROVE  TInv'
<1> USE DEF TInv
<1>1. /\ pc[Dfc] = "out" /\ dfcQueued /\ GoesOn(Dfc, "idle")
      /\ CurrentPhaseReq' = <<>> /\ CurrentState' = "EIdle" /\ dfcQueued' = FALSE
      /\ finished'.req = CurrentPhaseReq /\ UNCHANGED i2c
  BY DEF DfcIdle, DfcEntered, GoesOn, reqVars, busVars
<1>2. /\ CurrentState # "EIdle" /\ TheQueue # <<>> /\ finished = <<>>
      /\ CurrentPhaseReq # <<>> /\ IsHead(CurrentPhaseReq)
      /\ Dfc \in Threads /\ \A t \in Threads : pc[t] \in Aside
  BY <1>1, DfcFinds DEF Resting
<1>3. /\ Types' /\ OneThread' /\ QueuedOnce'
      /\ pc'[Dfc] = "idle" /\ \A u \in Threads : u # Dfc => pc[u] \in Aside /\ pc'[u] = pc[u]
  BY <1>1, <1>2, GoesOnKeeps
<1>4. i2c = <<>> /\ TheQueue' = TheQueue /\ signals' = signals
  BY <1>1 DEF OneActivity, GoesOn
<1>5. OneActivity' /\ IdleIsIdle' /\ HeadIsCurrent'
  BY <1>1, <1>2, <1>3, <1>4
     DEF OneActivity, IdleIsIdle, HeadIsCurrent, Resting, Aside, AtRest
<1>6. FinishedOnce'
  <2> DEFINE c == Head(TheQueue)
  <2>1. c \in Clients /\ InQueue(TheQueue, c)
    BY <1>2, Tailed DEF Types, QueuedOnce
  <2>2. pc[c] # "ready" /\ signals[c] = 0 /\ c # Dfc /\ c \in Threads
    BY <2>1, ConstAssumption DEF QueuedOnce, Threads
  <2>3. pc'[c] = pc[c] /\ finished'.req[1] = c
    BY <1>1, <1>2, <1>3, <2>2 DEF IsHead
  <2> QED
    BY <1>3, <1>4, <2>1, <2>2, <2>3 DEF FinishedOnce, Finishing
<1> QED
  BY <1>3, <1>5, <1>6

\* The request leaves the queue.
LEMMA DfcDequeKeeps ==
    ASSUME TInv, DfcDeque, setting' = setting
    PROVE  TInv'
<1> DEFINE to == IF MoreQueued(Tail(TheQueue)) THEN "dequeued" ELSE "notify"
           h == Head(TheQueue)
<1> USE DEF TInv
<1>1. /\ pc[Dfc] = "idle" /\ Dfc \in Threads
      /\ TheQueue' = Tail(TheQueue) /\ pc' = [pc EXCEPT ![Dfc] = to]
      /\ UNCHANGED <<signals, CurrentState, CurrentPhaseReq, i2c, dfcQueued, finished>>
  BY DEF DfcDeque, reqVars, busVars, Threads
<1>2. TheQueue # <<>> /\ CurrentState = "EIdle" /\ Resting
  BY <1>1 DEF IdleIsIdle
<1>3. /\ Tail(TheQueue) \in Seq(Clients) /\ h \in Clients /\ InQueue(TheQueue, h)
      /\ \A d : InQueue(Tail(TheQueue), d) <=> InQueue(TheQueue, d) /\ d # h
      /\ NoTwice(Tail(TheQueue))
  BY <1>2, Tailed DEF Types, QueuedOnce
<1>4. pc'[Dfc] = to /\ \A u \in Threads : u # Dfc => pc[u] \in Aside /\ pc'[u] = pc[u]
  BY <1>1, Only DEF Types, Uses
<1>5. \A c \in Clients : c \in Threads /\ c # Dfc
  BY ConstAssumption DEF Threads
<1>6. Types'
  <2>1. pc' \in [Threads -> AtRest \union Starter \union {"added", "idle", "dequeued", "notify", "fault"}]
    BY <1>1 DEF Types
  <2>2. \A c \in Clients : pc'[c] \in {"ready", "waiting", "added", "fault"} \union Starter
    BY <1>4, <1>5 DEF Types
  <2> QED
    BY <1>1, <1>3, <1>4, <2>1, <2>2 DEF Types
<1>7. OneThread'
  BY <1>4 DEF OneThread, Uses, Aside, AtRest, Starter, MoreQueued
<1>8. OneActivity' /\ HeadIsCurrent'
  BY <1>1, <1>2 DEF OneActivity, HeadIsCurrent, Resting
<1>9. IdleIsIdle'
  BY <1>1, <1>2, <1>4 DEF IdleIsIdle, Resting, Aside, AtRest, MoreQueued
<1>10. QueuedOnce'
  BY <1>1, <1>3, <1>4, <1>5 DEF QueuedOnce
<1>11. FinishedOnce'
  <2>1. Finishing(finished.req[1]) /\ finished.req[1] = h
    BY <1>1 DEF FinishedOnce, Finishing
  <2>2. Finishing(finished.req[1])'
    BY <1>1, <1>3, <1>4, <1>5, <2>1 DEF Finishing
  <2> QED
    BY <1>4, <2>2 DEF FinishedOnce
<1> QED
  BY <1>6, <1>7, <1>8, <1>9, <1>10, <1>11

\* The request's client is signalled, once.
LEMMA DfcNotifyKeeps ==
    ASSUME TInv, DfcNotify, setting' = setting
    PROVE  TInv'
<1> DEFINE c == finished.req[1]
<1> USE DEF TInv
<1>1. /\ pc[Dfc] = "notify" /\ Dfc \in Threads
      /\ pc' = [pc EXCEPT ![Dfc] = "out"] /\ signals' = [signals EXCEPT ![c] = @ + 1]
      /\ finished' = <<>>
      /\ UNCHANGED <<TheQueue, CurrentState, CurrentPhaseReq, PreviousPhaseReq, i2c, dfcQueued>>
  BY DEF DfcNotify, queueVars, busVars, Threads
<1>2. c \in Clients /\ pc[c] # "ready" /\ signals[c] = 0 /\ ~InQueue(TheQueue, c)
  BY <1>1 DEF FinishedOnce, Finishing
<1>3. pc'[Dfc] = "out" /\ \A u \in Threads : u # Dfc => pc'[u] = pc[u]
  BY <1>1 DEF Types
<1>4. \A d \in Clients : d \in Threads /\ d # Dfc
  BY ConstAssumption DEF Threads
<1>5. /\ signals' \in [Clients -> {0, 1}]
      /\ \A d \in Clients : d # c => signals'[d] = signals[d]
  BY <1>1, <1>2 DEF Types
<1>6. Types'
  <2>1. pc' \in [Threads -> AtRest \union Starter \union {"added", "idle", "dequeued", "notify", "fault"}]
    BY <1>1 DEF Types, AtRest
  <2>2. \A d \in Clients : pc'[d] \in {"ready", "waiting", "added", "fault"} \union Starter
    BY <1>3, <1>4 DEF Types
  <2> QED
    BY <1>1, <1>3, <1>5, <2>1, <2>2 DEF Types
<1>7. OneThread'
  BY <1>3 DEF OneThread, Uses, Starter
<1>8. OneActivity' /\ HeadIsCurrent' /\ IdleIsIdle'
  BY <1>1, <1>3 DEF OneActivity, HeadIsCurrent, IdleIsIdle, IsHead, Resting, Uses, Starter
<1>9. QueuedOnce'
  BY <1>1, <1>2, <1>3, <1>4, <1>5 DEF QueuedOnce
<1>10. FinishedOnce'
  BY <1>1, <1>3 DEF FinishedOnce
<1> QED
  BY <1>6, <1>7, <1>8, <1>9, <1>10

\* A client has its request back, while another one's may be under way.
LEMMA ReturnKeeps ==
    ASSUME TInv, NEW c \in Clients, Return(c), setting' = setting
    PROVE  TInv'
<1> USE DEF TInv
<1>1. /\ pc[c] = "waiting" /\ signals[c] > 0 /\ pc' = [pc EXCEPT ![c] = "ready"]
      /\ signals' = [signals EXCEPT ![c] = @ - 1]
      /\ UNCHANGED <<TheQueue, CurrentState, CurrentPhaseReq, PreviousPhaseReq, i2c, dfcQueued,
                     finished>>
  BY DEF Return, queueVars, busVars
<1>2. /\ signals[c] = 1 /\ signals' \in [Clients -> {0, 1}] /\ signals'[c] = 0
      /\ \A d \in Clients : d # c => signals'[d] = signals[d]
  BY <1>1 DEF Types
<1>3. c \in Threads /\ c # Dfc /\ Dfc \in Threads /\ \A d \in Clients : d \in Threads /\ d # Dfc
  BY ConstAssumption DEF Threads
<1>4. pc'[c] = "ready" /\ \A u \in Threads : u # c => pc'[u] = pc[u]
  BY <1>1, <1>3 DEF Types
<1>5. ~InQueue(TheQueue, c)
  BY <1>2 DEF QueuedOnce
<1>6. Types'
  <2>1. pc' \in [Threads -> AtRest \union Starter \union {"added", "idle", "dequeued", "notify", "fault"}]
    BY <1>1 DEF Types, AtRest
  <2> QED
    BY <1>1, <1>2, <1>3, <1>4, <2>1 DEF Types
<1>7. OneThread'
  BY <1>1, <1>4 DEF OneThread, Uses, Starter
<1>8. OneActivity' /\ HeadIsCurrent' /\ IdleIsIdle'
  BY <1>1, <1>3, <1>4 DEF OneActivity, HeadIsCurrent, IdleIsIdle, IsHead, Resting, Uses, Starter
<1>9. QueuedOnce'
  BY <1>1, <1>2, <1>3, <1>4, <1>5 DEF QueuedOnce
<1>10. FinishedOnce'
  <2>1. \A d : Finishing(d) => Finishing(d)'
    BY <1>1, <1>2, <1>3, <1>4 DEF Finishing
  <2> QED
    BY <1>1, <1>3, <1>4, <2>1 DEF FinishedOnce
<1> QED
  BY <1>6, <1>7, <1>8, <1>9, <1>10

\* A step without which threads have not crossed.
LEMMA NotCrossed ==
    ASSUME [Next]_allVars, ~crossed'
    PROVE  ~crossed /\ (UNCHANGED allVars \/ (Next /\ ~Crosses))
<1>1. CASE UNCHANGED allVars
  BY <1>1 DEF allVars
<1>2. CASE Next
  <2>1. crossed' = (crossed \/ Crosses)
    BY <1>2 DEF Next
  <2> QED
    BY <1>2, <2>1
<1> QED
  BY <1>1, <1>2

\* Every step keeps the invariant, until threads cross.
LEMMA TpsStep == TInv /\ [Next]_allVars /\ ~crossed' => TInv'
<1> SUFFICES ASSUME TInv, [Next]_allVars, ~crossed' PROVE TInv'
  OBVIOUS
<1>0. UNCHANGED allVars \/ (Next /\ ~Crosses)
  BY NotCrossed
<1>1. CASE UNCHANGED allVars
  BY <1>1
     DEF allVars, vars, reqVars, queueVars, busVars, TInv, Types, OneThread, Uses, OneActivity,
         IdleIsIdle, HeadIsCurrent, IsHead, Resting, QueuedOnce, FinishedOnce, Finishing
<1>2. ASSUME NEW t \in Threads, StartSteps(t), setting' = setting
      PROVE  TInv'
  BY <1>2, SetPendingKeeps, StartRequestKeeps, StartPhaseKeeps, SkipPhaseKeeps,
     FakeCompletionKeeps DEF StartSteps
<1>3. ASSUME NEW c \in Clients, setting' = setting, ~Crosses,
             (\E r \in Requests : ExecAsync(c, r)) \/ TestIdle(c) \/ StartSteps(c) \/ Return(c)
      PROVE  TInv'
  <2>1. c \in Threads /\ c # Dfc
    BY ConstAssumption DEF Threads
  <2>2. CASE TestIdle(c)
    BY <1>3, <2>1, <2>2, TestIdleKeeps DEF TestIdle, TestsIdle
  <2> QED
    BY <1>2, <1>3, <2>1, <2>2, ExecAsyncKeeps, ReturnKeeps
<1>4. ASSUME DfcSteps \/ I2cDone, setting' = setting, ~Crosses
      PROVE  TInv'
  <2>1. Dfc \in Threads
    BY DEF Threads
  <2>2. CASE DfcTestIdle
    BY <1>4, <2>1, <2>2, TestIdleKeeps DEF DfcTestIdle, TestsIdle
  <2> QED
    BY <1>2, <1>4, <2>1, <2>2, DfcTransfersKeeps, DfcNextPhaseKeeps, DfcIdleKeeps,
       DfcDequeKeeps, DfcNotifyKeeps DEF DfcSteps
<1> QED
  BY <1>0, <1>1, <1>3, <1>4 DEF Next

\* Wherever threads are preempted, no request is given back while the driver refers to it,
\* nor twice, unless one thread has crossed another.
THEOREM UncrossedIsSafe == Spec => [](crossed \/ CompletedOnce)
<1>1. Init => crossed \/ TInv
  BY TpsInitially
<1>2. TInv => CompletedOnce
  <2> SUFFICES ASSUME TInv, NEW c \in Clients
               PROVE  signals[c] <= 1 /\ (pc[c] = "ready" \/ signals[c] = 1 => ~Referenced(c))
    BY DEF CompletedOnce
  <2>1. signals[c] \in {0, 1}
    BY DEF TInv, Types
  <2>2. ASSUME pc[c] = "ready" \/ signals[c] = 1, Referenced(c) PROVE FALSE
    <3>1. ~InQueue(TheQueue, c)
      BY <2>2 DEF TInv, QueuedOnce
    <3>2. ASSUME CurrentPhaseReq # <<>>, CurrentPhaseReq[1] = c PROVE FALSE
      <4>1. TheQueue # <<>> /\ c = Head(TheQueue)
        BY <3>2 DEF TInv, IdleIsIdle, HeadIsCurrent, IsHead
      <4> QED
        BY <3>1, <4>1, Tailed DEF TInv, Types, QueuedOnce
    <3>3. ASSUME NEW i \in 1..Len(i2c), i2c[i].req[1] = c PROVE FALSE
      <4>1. i2c # <<>>
        BY <3>3
      <4>2. i2c = <<Head(i2c)>> /\ Head(i2c).req = CurrentPhaseReq /\ CurrentPhaseReq # <<>>
        BY <4>1 DEF TInv, OneActivity, IdleIsIdle, HeadIsCurrent, Resting
      <4>3. i = 1 /\ i2c[1] = Head(i2c)
        <5>1. \A x : Len(<<x>>) = 1
          OBVIOUS
        <5>2. Len(i2c) = 1
          BY <4>2, <5>1
        <5> QED
          BY <3>3, <5>2
      <4> QED
        BY <3>2, <3>3, <4>2, <4>3
    <3> QED
      BY <2>2, <3>1, <3>2, <3>3 DEF Referenced, InQueue
  <2> QED
    BY <2>1, <2>2
<1>3. (crossed \/ TInv) /\ [Next]_allVars => (crossed \/ TInv)'
  BY TpsStep, NotCrossed
<1> QED
  BY <1>1, <1>2, <1>3, PTL DEF Spec

-----------------------------------------------------------------------------
(* The driver implements the first-in first-out service *)

Stages == [c \in Clients |-> Status(c)]
Unseen == TheQueue' = TheQueue /\ Stages' = Stages

\* Whether a client is in the queue, in the words of Status().
LEMMA StatusOf ==
    /\ \A c : Status(c) = IF pc[c] = "ready" THEN "owned"
                          ELSE IF InQueue(TheQueue, c) THEN "queued" ELSE "done"
    /\ \A c : Status(c)' = IF pc'[c] = "ready" THEN "owned"
                           ELSE IF InQueue(TheQueue', c) THEN "queued" ELSE "done"
BY DEF Status, InQueue

\* A step that changes neither the queue nor who is ready.
LEMMA UnseenSteps ==
    ASSUME TheQueue' = TheQueue, \A c \in Clients : pc'[c] = "ready" <=> pc[c] = "ready"
    PROVE  Unseen
<1>1. \A c \in Clients : Status(c)' = Status(c)
  BY StatusOf
<1> QED
  BY <1>1 DEF Unseen, Stages

\* Every step is one of the service's, or is not seen from outside.
LEMMA FifoStep ==
    TInv /\ [Next]_allVars => Fifo!Next \/ Unseen
<1> SUFFICES ASSUME TInv, [Next]_allVars PROVE Fifo!Next \/ Unseen
  OBVIOUS
<1>0. \A c \in Clients : c \in Threads /\ c # Dfc
  BY ConstAssumption DEF Threads
<1>1. ASSUME NEW c \in Clients, NEW r, ExecAsync(c, r) PROVE Fifo!Accept(c)
  <2>1. /\ pc[c] = "ready" /\ pc' = [pc EXCEPT ![c] = "added"] /\ TheQueue' = Append(TheQueue, c)
        /\ TheQueue \in Seq(Clients) /\ pc \in [Threads -> AtRest \union Starter \union
                                                {"added", "idle", "dequeued", "notify", "fault"}]
    BY <1>1 DEF ExecAsync, Added, TInv, Types
  <2>2. \A d : InQueue(TheQueue', d) <=> InQueue(TheQueue, d) \/ d = c
    BY <2>1, Appended
  <2>3. \A d \in Clients : pc'[d] = IF d = c THEN "added" ELSE pc[d]
    BY <1>0, <2>1
  <2>4. \A d \in Clients : Status(d)' = IF d = c THEN "queued" ELSE Status(d)
    BY <2>2, <2>3, StatusOf
  <2>5. Stages' = [Stages EXCEPT ![c] = "queued"] /\ Stages[c] = "owned"
    BY <2>1, <2>4, StatusOf DEF Stages
  <2> QED
    BY <2>1, <2>5 DEF Fifo!Accept, Stages
<1>2. ASSUME NEW c \in Clients, Return(c) PROVE Fifo!GiveBack(c)
  <2>1. /\ pc[c] = "waiting" /\ pc' = [pc EXCEPT ![c] = "ready"] /\ TheQueue' = TheQueue
        /\ ~InQueue(TheQueue, c) /\ pc \in [Threads -> AtRest \union Starter \union
                                            {"added", "idle", "dequeued", "notify", "fault"}]
    BY <1>2 DEF Return, queueVars, TInv, Types, QueuedOnce
  <2>2. \A d \in Clients : pc'[d] = IF d = c THEN "ready" ELSE pc[d]
    BY <1>0, <2>1
  <2>3. \A d \in Clients : Status(d)' = IF d = c THEN "owned" ELSE Status(d)
    BY <2>1, <2>2, StatusOf
  <2>4. Stages' = [Stages EXCEPT ![c] = "owned"] /\ Stages[c] = "done"
    BY <2>1, <2>3, StatusOf DEF Stages
  <2> QED
    BY <2>1, <2>4 DEF Fifo!GiveBack, Stages
<1>3. CASE DfcDeque
  <2> DEFINE h == Head(TheQueue)
  <2>1. /\ TheQueue # <<>> /\ TheQueue' = Tail(TheQueue) /\ TheQueue \in Seq(Clients)
        /\ NoTwice(TheQueue)
    BY <1>3 DEF DfcDeque, TInv, IdleIsIdle, Types, QueuedOnce, Threads
  <2>2. /\ h \in Clients /\ InQueue(TheQueue, h)
        /\ \A d : InQueue(TheQueue', d) <=> InQueue(TheQueue, d) /\ d # h
    BY <2>1, Tailed
  <2>3. pc[h] # "ready"
    BY <2>2 DEF TInv, QueuedOnce
  <2>4. \A d \in Clients : pc'[d] = pc[d]
    BY <1>0, <1>3 DEF DfcDeque, TInv, Types
  <2> HIDE DEF h
  <2>5. \A d \in Clients : Status(d)' = IF d = h THEN "done" ELSE Status(d)
    BY <2>2, <2>3, <2>4, StatusOf
  <2>6. Stages' = [Stages EXCEPT ![h] = "done"]
    BY <2>5 DEF Stages
  <2> QED
    BY <2>1, <2>6 DEF Fifo!Next, Fifo!Finish, Stages, h
<1>4. ASSUME NEW t \in Threads, pc[t] # "ready", NEW to, to # "ready",
             pc' = [pc EXCEPT ![t] = to], TheQueue' = TheQueue
      PROVE  Unseen
  <2>1. \A c \in Clients : pc'[c] = "ready" <=> pc[c] = "ready"
    BY <1>0, <1>4 DEF TInv, Types
  <2> QED
    BY <1>4, <2>1, UnseenSteps
<1>5. ASSUME NEW t \in Threads, StartSteps(t) PROVE Unseen
  <2>1. CASE SkipPhase(t)
    BY <2>1, UnseenSteps DEF SkipPhase
  <2>2. CASE SetPending(t) \/ StartRequest(t)
    BY <1>4, <2>2 DEF SetPending, StartRequest
  <2>3. CASE StartPhase(t) \/ FakeCompletion(t)
    BY <1>4, <2>3 DEF StartPhase, FakeCompletion, InLoop, Started
  <2> QED
    BY <1>5, <2>1, <2>2, <2>3 DEF StartSteps
<1>6. ASSUME NEW c \in Clients, TestIdle(c) PROVE Unseen
  BY <1>0, <1>4, <1>6 DEF TestIdle, queueVars
<1>7. CASE DfcWriteBack \/ DfcUnprotect1 \/ I2cDone
  BY <1>7, UnseenSteps DEF DfcWriteBack, DfcUnprotect1, I2cDone, queueVars
<1>8. CASE DfcNextPhase \/ DfcIdle \/ DfcTestIdle \/ DfcNotify
  <2>1. Dfc \in Threads
    BY DEF Threads
  <2> QED
    BY <1>4, <1>8, <2>1
       DEF DfcNextPhase, DfcIdle, DfcTestIdle, DfcNotify, DfcEntered, queueVars
<1>9. CASE UNCHANGED allVars
  BY <1>9, UnseenSteps DEF allVars, vars, queueVars
<1> QED
  <2>1. Dfc \in Threads
    BY DEF Threads
  <2> QED
    BY <1>0, <1>1, <1>2, <1>3, <1>5, <1>6, <1>7, <1>8, <1>9, <2>1
       DEF Next, DfcSteps, Fifo!Next

\* The requests of any clients, whatever their chains of phases, whichever transfers fail and
\* wherever threads are preempted, finish in the order of their submission, and each goes
\* back to its client once, until one thread crosses another.
THEOREM TpsIsFifo == Spec => IsFifo
<1>1. Init => Fifo!Init
  BY ConstAssumption DEF Init, Fifo!Init, Status, Threads
<1>2. (crossed \/ TInv) /\ [Next]_allVars => [crossed' \/ [Fifo!Next]_(Fifo!vars)]_allVars
  BY FifoStep, NotCrossed DEF Unseen, Fifo!vars, Stages
<1>3. Init => crossed \/ TInv
  BY TpsInitially
<1>4. (crossed \/ TInv) /\ [Next]_allVars => (crossed \/ TInv)'
  BY TpsStep, NotCrossed
<1> QED
  BY <1>1, <1>2, <1>3, <1>4, PTL DEF Spec, IsFifo

-----------------------------------------------------------------------------
(* What a request has done to the chip, and to the protection *)

Register == {"ERead", "EWrite", "EClearSet"}

\* A chain changes the protection at most once in each direction, and restores after
\* it has disabled.
Balanced(r) ==
    \A i, j \in 1..Len(r) :
        /\ r[i].iAction = r[j].iAction /\ r[i].iAction \notin Register => i = j
        /\ r[i].iAction = "EDisableProtect" /\ r[j].iAction = "ERestoreProtect" => i < j

\* Clients that change the protection are those whose transfers do not fail; others
\* may meet failing writes.
Guarded ==
    \A s \in Settings :
        \/ s.faults = {} /\ \A r \in s.requests : Balanced(r)
        \/ /\ s.faults \subseteq {"write"}
           /\ \A r \in s.requests : \A k \in 1..Len(r) : r[k].iAction \in Register

\* Where writes fail, only the last phase of a chain writes.
WritesLast ==
    \A s \in Settings :
        s.faults # {} => \A r \in s.requests :
                             \A k \in 1..Len(r) : k < Len(r) => r[k].iAction = "ERead"

Valid(p) == p \in Clients \X (Nat \ {0}) /\ p[2] <= Len(request[p[1]])
IsLast(p) == Valid(p) /\ p[2] = Len(request[p[1]])
Action(p) == Phase(p).iAction

RequestTypes ==
    /\ request \in [Clients -> Requests \cup {<<>>}]
    /\ \A c \in Clients : pc[c] # "ready" => request[c] \in Requests
    /\ DOMAIN value = Clients /\ DOMAIN iReadValue = Clients /\ DOMAIN iResult = Clients
    /\ \A c \in Clients : /\ value[c] \in [1..Len(request[c]) -> SUBSET Bits]
                          /\ iReadValue[c] \in [1..Len(request[c]) -> SUBSET Bits]
                          /\ iResult[c] \in [1..Len(request[c]) -> Results \cup {"unset"}]
    /\ chip \in [reg : SUBSET Bits, key : {"locked", "half", "unlocked"}]
    /\ pbResult \in [{"EAddressPb", "EDataPb"} -> Results]
    /\ held \in [Clients -> Nat]
    /\ failed \subseteq Clients

\* The DFC has a completed request in hand.
InHand == \/ pc[Dfc] \in {"idle", "dequeued", "idleSeen", "notify"}
          \/ pc[Dfc] \in {"pending", "loop"} /\ finished # <<>>

PhasesExist ==
    /\ \A t \in Threads : pc[t] \in {"pending", "loop"} => CurrentState = "EPending"
    /\ CurrentPhaseReq # <<>> => Valid(CurrentPhaseReq)
    /\ \A t \in Threads : pc[t] = "loop" /\ CurrentPhaseReq = <<>> =>
           IsLast(PreviousPhaseReq) /\ Action(PreviousPhaseReq) \notin Register
    /\ InHand => IsLast(finished.req) /\ finished.result \in Results

\* Only writes fail, and none where the protection is changed.
OnlyWritesFail ==
    /\ pbResult["EAddressPb"] = KErrNone
    /\ i2c # <<>> => pbResult["EDataPb"] = KErrNone
    /\ Faults = {} => pbResult["EDataPb"] = KErrNone /\ failed = {}

\* What a phase writes.
Written(p) ==
    IF Action(p) = "EWrite" THEN Phase(p).value
    ELSE (iReadValue[p[1]][p[2]] \ Phase(p).iClearMask) \cup Phase(p).value

IsReading(p) ==
    /\ CurrentState = "EReading" /\ Action(p) \in {"ERead", "EClearSet"}
    /\ value[p[1]][p[2]] = Phase(p).value
IsWriting(p) == CurrentState = "EWriting" /\ Action(p) \in {"EWrite", "EClearSet"}
IsUnlocking(p) == CurrentState = "EUnprotectPhase0" /\ Action(p) = "EDisableProtect"

\* The transfer is that of the current phase.
TransferIsPhase ==
    i2c # <<>> =>
        LET t == Head(i2c)
            p == CurrentPhaseReq
        IN  \/ IsReading(p) /\ t.what = "read" /\ t.pb = "EAddressPb"
            \/ IsWriting(p) /\ t.what = "write" /\ t.data = Written(p) /\ t.pb = "EDataPb"
            \/ IsUnlocking(p) /\ t.what = "key0" /\ t.pb = "EDataPb"
            \/ /\ CurrentState = "EWriting" /\ t.pb = "EDataPb"
               /\ \/ t.what = "key1" /\ Action(p) = "EDisableProtect" /\ chip.key = "half"
                  \/ t.what = "lock" /\ Action(p) = "ERestoreProtect"

\* What the chip has done when the completion DFC is queued.
CompletionIsTrue ==
    dfcQueued =>
        LET p == CurrentPhaseReq
        IN  \/ IsReading(p) /\ iReadValue[p[1]][p[2]] = chip.reg /\ pbResult["EDataPb"] = KErrNone
            \/ IsWriting(p) /\ (pbResult["EDataPb"] = KErrNone => chip.reg = Written(p))
            \/ IsUnlocking(p) /\ chip.key = "half" /\ pbResult["EDataPb"] = KErrNone
            \/ CurrentState = "EWriting" /\ Action(p) \notin Register

FinishIsTrue ==
    pc[Dfc] = "idle" /\ finished.result = KErrNone =>
        LET p == finished.req
        IN  /\ Action(p) = "ERead" => iReadValue[p[1]][p[2]] = chip.reg
            /\ Action(p) \in {"EWrite", "EClearSet"} => chip.reg = Written(p)

Unlocks == \/ CurrentState = "EUnprotectPhase0"
           \/ i2c # <<>> /\ Head(i2c).what = "key1"
Locks == i2c # <<>> /\ Head(i2c).what = "lock"

\* The key follows the count, and both change by the first and the last.
KeyFollows ==
    /\ Unlocks => TheProtectionUsageCount = 1
    /\ Locks => TheProtectionUsageCount = 0
    /\ ~Unlocks /\ ~Locks =>
           chip.key = IF TheProtectionUsageCount = 0 THEN "locked" ELSE "unlocked"

\* So many phases of a client's request have changed the count, if they do.
Begun(c) ==
    IF ~InQueue(TheQueue, c) \/ (pc[Dfc] = "idle" /\ c = Head(TheQueue)) THEN Len(request[c])
    ELSE IF CurrentState = "EIdle" \/ c # Head(TheQueue) THEN 0
    ELSE IF CurrentPhaseReq # <<>>
         THEN IF Resting THEN CurrentPhaseReq[2] - 1 ELSE CurrentPhaseReq[2]
    ELSE IF \E t \in Threads : pc[t] = "loop" THEN Len(request[c]) ELSE 0

Among(r, n, action) == \E k \in 1..n : r[k].iAction = action
\* The request has disabled the protection and not restored it, or will restore what
\* its client has given up.
Owes(r, n) ==
    ~Among(r, n, "ERestoreProtect") /\ IF Disables(r) THEN Among(r, n, "EDisableProtect") ELSE Restores(r)
Owing(c) == pc[c] # "ready" /\ Owes(request[c], Begun(c))

\* Each unit of the count, with whom it is.
Tokens == {x \in Clients \X Nat : IF x[2] = 0 THEN Owing(x[1]) ELSE x[2] <= held[x[1]]}
CountIsTokens == IsFiniteSet(Tokens) /\ TheProtectionUsageCount = Cardinality(Tokens)

\* Until its phase is begun, a request's value is what the client has put there.
ValuesWait ==
    \A c \in Clients : pc[c] # "ready" =>
        \A k \in 1..Len(request[c]) : k > Begun(c) => value[c][k] = request[c][k].value

\* Without faults every request succeeds.
CleanResults ==
    Faults = {} => /\ InHand => finished.result = KErrNone
                   /\ \A c \in Clients : signals[c] = 1 => LastResult(c) = KErrNone

ChipInv == /\ RequestTypes /\ PhasesExist /\ OnlyWritesFail /\ TransferIsPhase
           /\ CompletionIsTrue /\ FinishIsTrue /\ KeyFollows /\ CountIsTokens
           /\ ValuesWait /\ CleanResults

\* A request has failed when its last transfer has.
FailuresKnown ==
    /\ dfcQueued /\ pbResult["EDataPb"] # KErrNone => IsLast(CurrentPhaseReq)
    /\ \A c \in Clients :
           InQueue(TheQueue, c) /\ ~(pc[Dfc] = "idle" /\ c = Head(TheQueue)) =>
               (c \in failed <=> dfcQueued /\ c = CurrentPhaseReq[1]
                                 /\ pbResult["EDataPb"] # KErrNone)
    /\ InHand => (finished.result = KErrNone <=> finished.req[1] \notin failed)
    /\ \A c \in Clients : signals[c] = 1 => (LastResult(c) = KErrNone <=> c \notin failed)

-----------------------------------------------------------------------------
(* Lemmas about chains, phases and the count *)

\* What a client has submitted.
LEMMA Chains ==
    ASSUME Guarded, TInv, RequestTypes, NEW c \in Clients, pc[c] # "ready"
    PROVE  /\ request[c] \in Seq(TReq) /\ Len(request[c]) \in Nat /\ Len(request[c]) > 0
           /\ Balanced(request[c]) /\ Faults \subseteq {"write"}
           /\ Faults = {} \/ \A k \in 1..Len(request[c]) : request[c][k].iAction \in Register
<1>1. setting \in Settings /\ request[c] \in setting.requests
  BY DEF TInv, Types, RequestTypes, Requests
<1>2. request[c] \in Seq(TReq) /\ Len(request[c]) > 0
  BY <1>1, ConstAssumption
<1>3. CASE setting.faults = {} /\ \A r \in setting.requests : Balanced(r)
  BY <1>1, <1>2, <1>3 DEF Faults
<1>4. CASE /\ setting.faults \subseteq {"write"}
           /\ \A r \in setting.requests : \A k \in 1..Len(r) : r[k].iAction \in Register
  <2>1. \A k \in 1..Len(request[c]) : request[c][k].iAction \in Register
    BY <1>1, <1>4
  <2>2. Balanced(request[c])
    BY <2>1 DEF Balanced, Register
  <2> QED
    BY <1>2, <1>4, <2>1, <2>2 DEF Faults
<1> QED
  BY <1>1, <1>3, <1>4 DEF Guarded

\* Whatever may fail is a write.
LEMMA WritesFail ==
    ASSUME Guarded, TInv
    PROVE  Faults \subseteq {"write"}
BY DEF Guarded, TInv, Types, Faults

\* The request at the head of the queue.
LEMMA HeadWaits ==
    ASSUME TInv, TheQueue # <<>>
    PROVE  /\ Head(TheQueue) \in Clients /\ InQueue(TheQueue, Head(TheQueue))
           /\ pc[Head(TheQueue)] # "ready" /\ signals[Head(TheQueue)] = 0
<1>1. Head(TheQueue) \in Clients /\ InQueue(TheQueue, Head(TheQueue))
  BY Tailed DEF TInv, Types, QueuedOnce
<1> QED
  BY <1>1 DEF TInv, QueuedOnce

\* The phase under way is one of the request at the head.
LEMMA CurrentIs ==
    ASSUME Guarded, TInv, ChipInv, CurrentPhaseReq # <<>>
    PROVE  /\ CurrentState # "EIdle" /\ TheQueue # <<>>
           /\ CurrentPhaseReq[1] = Head(TheQueue) /\ CurrentPhaseReq[1] \in Clients
           /\ InQueue(TheQueue, CurrentPhaseReq[1]) /\ pc[CurrentPhaseReq[1]] # "ready"
           /\ CurrentPhaseReq = <<CurrentPhaseReq[1], CurrentPhaseReq[2]>>
           /\ CurrentPhaseReq[2] \in 1..Len(request[CurrentPhaseReq[1]])
           /\ Phase(CurrentPhaseReq) \in TReq
<1>1. CurrentState # "EIdle" /\ TheQueue # <<>> /\ CurrentPhaseReq[1] = Head(TheQueue)
  BY DEF TInv, IdleIsIdle, HeadIsCurrent, IsHead
<1>2. /\ CurrentPhaseReq[1] \in Clients
      /\ InQueue(TheQueue, CurrentPhaseReq[1]) /\ pc[CurrentPhaseReq[1]] # "ready"
  BY <1>1, HeadWaits
<1>3. /\ CurrentPhaseReq \in Clients \X (Nat \ {0})
      /\ CurrentPhaseReq[2] <= Len(request[CurrentPhaseReq[1]])
  BY DEF ChipInv, PhasesExist, Valid
<1>4. /\ request[CurrentPhaseReq[1]] \in Seq(TReq)
      /\ Len(request[CurrentPhaseReq[1]]) \in Nat
  BY <1>2, Chains DEF ChipInv
<1>5. /\ CurrentPhaseReq = <<CurrentPhaseReq[1], CurrentPhaseReq[2]>>
      /\ CurrentPhaseReq[2] \in 1..Len(request[CurrentPhaseReq[1]])
  BY <1>3, <1>4
<1>6. Phase(CurrentPhaseReq) \in TReq
  BY <1>4, <1>5 DEF Phase
<1> QED
  BY <1>1, <1>2, <1>5, <1>6

\* Nothing is counted for anyone: so it stays.
LEMMA TokensStay ==
    ASSUME CountIsTokens, held' = held, TheProtectionUsageCount' = TheProtectionUsageCount,
           \A c \in Clients : Owing(c)' <=> Owing(c)
    PROVE  CountIsTokens'
<1>1. Tokens' = Tokens
  BY DEF Tokens
<1> QED
  BY <1>1 DEF CountIsTokens

\* A unit comes, goes, or passes from one to the other.
LEMMA TokenComes ==
    ASSUME CountIsTokens, NEW x, x \notin Tokens, Tokens' = Tokens \cup {x},
           TheProtectionUsageCount' = TheProtectionUsageCount + 1
    PROVE  CountIsTokens'
BY FS_AddElement DEF CountIsTokens

\* A unit goes.
LEMMA TokenGoes ==
    ASSUME CountIsTokens, NEW x \in Tokens, Tokens' = Tokens \ {x},
           TheProtectionUsageCount' = TheProtectionUsageCount - 1
    PROVE  CountIsTokens'
BY FS_RemoveElement DEF CountIsTokens

\* A unit passes from a request to its client, or back.
LEMMA TokenPasses ==
    ASSUME CountIsTokens, NEW x \in Tokens, NEW y, y \notin Tokens, Tokens' = (Tokens \ {x}) \cup {y},
           TheProtectionUsageCount' = TheProtectionUsageCount
    PROVE  CountIsTokens'
<1>1. /\ IsFiniteSet(Tokens \ {x}) /\ Cardinality(Tokens \ {x}) = Cardinality(Tokens) - 1
  BY FS_RemoveElement DEF CountIsTokens
<1>2. y \notin Tokens \ {x}
  OBVIOUS
<1>3. /\ IsFiniteSet(Tokens')
      /\ Cardinality(Tokens') = Cardinality(Tokens \ {x}) + 1
  BY <1>1, <1>2, FS_AddElement
<1>4. Cardinality(Tokens) \in Nat
  BY FS_CardinalityType DEF CountIsTokens
<1> QED
  BY <1>1, <1>3, <1>4 DEF CountIsTokens

\* A phase that disables the protection makes its client a holder, one that restores it
\* ends that, and another phase changes nothing.
LEMMA OwesNext ==
    ASSUME NEW r \in Seq(TReq), Balanced(r), NEW k \in 1..Len(r)
    PROVE  /\ r[k].iAction \in Register => (Owes(r, k) <=> Owes(r, k - 1))
           /\ r[k].iAction = "EDisableProtect" => ~Owes(r, k - 1) /\ Owes(r, k)
           /\ r[k].iAction = "ERestoreProtect" => Owes(r, k - 1) /\ ~Owes(r, k)
<1>1. \A j \in 1..k : j \in 1..(k - 1) \/ j = k
  OBVIOUS
<1>2. \A j \in 1..(k - 1) : j \in 1..k /\ j \in 1..Len(r) /\ j < k
  OBVIOUS
<1>3. \A a : Among(r, k, a) <=> Among(r, k - 1, a) \/ r[k].iAction = a
  BY <1>1, <1>2 DEF Among
<1>4. CASE r[k].iAction \in Register
  BY <1>3, <1>4 DEF Owes, Register
<1>5. CASE r[k].iAction = "EDisableProtect"
  <2>1. Disables(r)
    BY <1>5 DEF Disables
  <2>2. ~Among(r, k - 1, "EDisableProtect") /\ ~Among(r, k - 1, "ERestoreProtect")
    BY <1>2, <1>5 DEF Among, Balanced, Register
  <2> QED
    BY <1>3, <1>5, <2>1, <2>2 DEF Owes, Register
<1>6. CASE r[k].iAction = "ERestoreProtect"
  <2>1. Restores(r)
    BY <1>6 DEF Restores
  <2>2. ~Among(r, k - 1, "ERestoreProtect")
    BY <1>2, <1>6 DEF Among, Balanced, Register
  <2>3. Disables(r) => Among(r, k - 1, "EDisableProtect")
    <3> SUFFICES ASSUME NEW j \in 1..Len(r), r[j].iAction = "EDisableProtect"
                 PROVE  Among(r, k - 1, "EDisableProtect")
      BY DEF Disables
    <3>1. j < k
      BY <1>6 DEF Balanced
    <3>2. j \in 1..(k - 1)
      BY <3>1
    <3> QED
      BY <3>2 DEF Among
  <2> QED
    BY <1>3, <1>6, <2>1, <2>2, <2>3 DEF Owes, Register
<1> QED
  BY <1>4, <1>5, <1>6 DEF Register

\* At its start a request only owes what its client has given up, at its end what its
\* client will hold.
LEMMA OwesEnds ==
    ASSUME NEW r \in Seq(TReq), Balanced(r)
    PROVE  /\ Owes(r, 0) <=> Restores(r) /\ ~Disables(r)
           /\ Owes(r, Len(r)) <=> Disables(r) /\ ~Restores(r)
<1>1. \A a : ~Among(r, 0, a)
  BY DEF Among
<1>2. Among(r, Len(r), "ERestoreProtect") <=> Restores(r)
  BY DEF Among, Restores
<1>3. Among(r, Len(r), "EDisableProtect") <=> Disables(r)
  BY DEF Among, Disables
<1> QED
  BY <1>1, <1>2, <1>3 DEF Owes

-----------------------------------------------------------------------------
(* Steps that move a thread on, and neither transfers nor counts *)

QuietStep == UNCHANGED <<setting, reqVars, TheProtectionUsageCount, busVars, held>>

\* What such a step keeps, if it keeps the phases begun.
LEMMA QuietKeeps ==
    ASSUME TInv, ChipInv, QuietStep, \A c \in Clients : pc'[c] = "ready" <=> pc[c] = "ready",
           CurrentState' = "EUnprotectPhase0" <=> CurrentState = "EUnprotectPhase0",
           \A c \in Clients : pc[c] # "ready" => Begun(c)' = Begun(c)
    PROVE  RequestTypes' /\ OnlyWritesFail' /\ KeyFollows' /\ CountIsTokens' /\ ValuesWait'
<1> USE DEF QuietStep, reqVars, busVars
<1>1. RequestTypes'
  BY DEF ChipInv, RequestTypes, Requests
<1>2. OnlyWritesFail'
  BY DEF ChipInv, OnlyWritesFail, Faults
<1>3. KeyFollows'
  BY DEF ChipInv, KeyFollows, Unlocks, Locks
<1>4. \A c \in Clients : Owing(c)' <=> Owing(c)
  <2> SUFFICES ASSUME NEW c \in Clients PROVE Owing(c)' <=> Owing(c)
    OBVIOUS
  <2>1. CASE pc[c] = "ready"
    BY <2>1 DEF Owing
  <2>2. CASE pc[c] # "ready"
    BY <2>2 DEF Owing, Owes, Among, Disables, Restores
  <2> QED
    BY <2>1, <2>2
<1>5. CountIsTokens'
  BY <1>4, TokensStay DEF ChipInv
<1>6. ValuesWait'
  BY DEF ChipInv, ValuesWait
<1> QED
  BY <1>1, <1>2, <1>3, <1>5, <1>6

\* The results stay what they are.
LEMMA CleanStays ==
    ASSUME ChipInv, QuietStep, finished' = finished, InHand' => InHand
    PROVE  CleanResults'
BY DEF ChipInv, QuietStep, reqVars, busVars, CleanResults, Faults, LastResult

\* A transfer, its completion and a finished request stay what they are, where the
\* phase and the state of the driver do.
LEMMA StaysTrue ==
    ASSUME ChipInv, QuietStep, CurrentState' = CurrentState, CurrentPhaseReq' = CurrentPhaseReq,
           dfcQueued' = dfcQueued, finished' = finished, pc'[Dfc] = "idle" => pc[Dfc] = "idle"
    PROVE  TransferIsPhase' /\ CompletionIsTrue' /\ FinishIsTrue'
BY DEF ChipInv, QuietStep, reqVars, busVars, TransferIsPhase, CompletionIsTrue, FinishIsTrue,
       IsReading, IsWriting, IsUnlocking, Written, Action, Phase

\* Where nothing is under way there is nothing to say of a transfer.
LEMMA RestingIsTrue ==
    ASSUME Resting', pc'[Dfc] # "idle"
    PROVE  TransferIsPhase' /\ CompletionIsTrue' /\ FinishIsTrue'
BY DEF Resting, TransferIsPhase, CompletionIsTrue, FinishIsTrue

\* TestIdle keeps the invariant of the chip.
LEMMA TestIdleIsTrue ==
    ASSUME Guarded, TInv, ChipInv, NEW t \in Threads, TestsIdle(t)
    PROVE  ChipInv'
<1>1. /\ \A u \in Threads : u # t => pc'[u] = pc[u]
      /\ pc'[t] = IF SeesIdle THEN "idleSeen" ELSE IF t = Dfc THEN "notify" ELSE "waiting"
      /\ pc[t] = IF t = Dfc THEN "dequeued" ELSE "added"
  BY DEF TestsIdle, TInv, Types
<1>2. (\A c \in Clients : c \in Threads /\ c # Dfc) /\ Dfc \in Threads
  BY ConstAssumption DEF Threads
<1>3. /\ QuietStep /\ TheQueue' = TheQueue /\ CurrentState' = CurrentState
      /\ CurrentPhaseReq' = CurrentPhaseReq /\ PreviousPhaseReq' = PreviousPhaseReq
      /\ i2c' = i2c /\ dfcQueued' = dfcQueued /\ finished' = finished /\ request' = request
  BY DEF TestsIdle, QuietStep, queueVars, reqVars, busVars
<1>4. \A c \in Clients : pc'[c] = "ready" <=> pc[c] = "ready"
  BY <1>1, <1>2
<1>5. /\ pc'[Dfc] = "idle" <=> pc[Dfc] = "idle"
      /\ InHand' => InHand
      /\ \A u \in Threads : /\ pc'[u] = "pending" <=> pc[u] = "pending"
                            /\ pc'[u] = "loop" <=> pc[u] = "loop"
  <2>1. \A u \in Threads : /\ pc'[u] = "pending" <=> pc[u] = "pending"
                           /\ pc'[u] = "loop" <=> pc[u] = "loop"
                           /\ pc'[u] = "idle" <=> pc[u] = "idle"
    BY <1>1
  <2>2. t = Dfc => InHand
    BY <1>1 DEF InHand
  <2>3. t # Dfc => pc'[Dfc] = pc[Dfc]
    BY <1>1, <1>2
  <2> QED
    BY <1>2, <1>3, <2>1, <2>2, <2>3 DEF InHand
<1>6. \A c \in Clients : pc[c] # "ready" => Begun(c)' = Begun(c)
  BY <1>3, <1>5 DEF Begun, Resting
<1>7. RequestTypes' /\ OnlyWritesFail' /\ KeyFollows' /\ CountIsTokens' /\ ValuesWait'
  BY <1>3, <1>4, <1>6, QuietKeeps
<1>8. PhasesExist'
  BY <1>3, <1>5 DEF ChipInv, PhasesExist, Valid, IsLast, Action, Phase
<1>9. TransferIsPhase' /\ CompletionIsTrue' /\ FinishIsTrue'
  BY <1>3, <1>5, StaysTrue
<1>10. CleanResults'
  BY <1>3, <1>5, CleanStays
<1> QED
  BY <1>7, <1>8, <1>9, <1>10 DEF ChipInv

\* SetPending keeps the invariant of the chip.
LEMMA SetPendingIsTrue ==
    ASSUME Guarded, TInv, ChipInv, NEW t \in Threads, SetPending(t), setting' = setting
    PROVE  ChipInv'
<1>1. /\ pc[t] = "idleSeen" /\ pc' = [pc EXCEPT ![t] = "pending"]
      /\ QuietStep /\ TheQueue' = TheQueue /\ CurrentState' = "EPending"
      /\ CurrentPhaseReq' = CurrentPhaseReq
      /\ i2c' = i2c /\ dfcQueued' = dfcQueued /\ finished' = finished /\ request' = request
  BY DEF SetPending, QuietStep, reqVars, busVars
<1>2. /\ \A u \in Threads : u # t => pc[u] \in Aside /\ pc'[u] = pc[u]
      /\ pc'[t] = "pending"
  BY <1>1, Only DEF TInv, Types, Uses, Starter
<1>3. (\A c \in Clients : c \in Threads /\ c # Dfc) /\ Dfc \in Threads
  BY ConstAssumption DEF Threads
<1>4. CurrentState = "EIdle" /\ Resting /\ CurrentPhaseReq = <<>>
  BY <1>1 DEF TInv, IdleIsIdle
<1>5. \A c \in Clients : pc'[c] = "ready" <=> pc[c] = "ready"
  BY <1>1, <1>2, <1>3
<1>6. /\ pc[Dfc] # "idle" /\ pc'[Dfc] # "idle"
      /\ InHand' => InHand
      /\ \A u \in Threads : pc'[u] # "loop"
  BY <1>1, <1>2, <1>3 DEF InHand, Aside, AtRest
<1>7. \A c \in Clients : pc[c] # "ready" => Begun(c)' = Begun(c)
  BY <1>1, <1>4, <1>6 DEF Begun
<1>8. RequestTypes' /\ OnlyWritesFail' /\ KeyFollows' /\ CountIsTokens' /\ ValuesWait'
  BY <1>1, <1>4, <1>5, <1>7, QuietKeeps
<1>9. PhasesExist'
  BY <1>1, <1>4, <1>6 DEF ChipInv, PhasesExist, Valid, IsLast, Action, Phase
<1>10. TransferIsPhase' /\ CompletionIsTrue' /\ FinishIsTrue'
  <2>1. Resting' /\ pc'[Dfc] # "idle"
    BY <1>1, <1>4, <1>6 DEF Resting
  <2> QED
    BY <2>1, RestingIsTrue
<1>11. CleanResults'
  BY <1>1, <1>6, CleanStays
<1> QED
  BY <1>8, <1>9, <1>10, <1>11 DEF ChipInv

\* StartRequest keeps the invariant of the chip, also where it stops the system.
LEMMA StartRequestIsTrue ==
    ASSUME Guarded, TInv, ChipInv, NEW t \in Threads, StartRequest(t), setting' = setting
    PROVE  ChipInv'
<1> DEFINE to == IF StartAsserts THEN "loop" ELSE "fault"
<1>1. /\ pc[t] = "pending" /\ pc' = [pc EXCEPT ![t] = to]
      /\ QuietStep /\ TheQueue' = TheQueue /\ CurrentState' = CurrentState
      /\ i2c' = i2c /\ dfcQueued' = dfcQueued /\ finished' = finished /\ request' = request
  BY DEF StartRequest, QuietStep, reqVars, busVars
<1>2. /\ \A u \in Threads : u # t => pc[u] \in Aside /\ pc'[u] = pc[u]
      /\ pc'[t] = to /\ to \in {"loop", "fault"}
  BY <1>1, Only DEF TInv, Types, Uses, Starter
<1>3. (\A c \in Clients : c \in Threads /\ c # Dfc) /\ Dfc \in Threads
  BY ConstAssumption DEF Threads
<1>4. Resting /\ CurrentState = "EPending"
  BY <1>1, Pending DEF ChipInv, PhasesExist
<1>5. \A c \in Clients : pc'[c] = "ready" <=> pc[c] = "ready"
  BY <1>1, <1>2, <1>3
<1>6. /\ pc[Dfc] # "idle" /\ pc'[Dfc] # "idle"
      /\ InHand' => InHand
      /\ \A u \in Threads : pc[u] # "loop"
  BY <1>1, <1>2, <1>3 DEF InHand, Aside, AtRest
<1>15. RequestTypes' /\ OnlyWritesFail'
  BY <1>1 DEF ChipInv, RequestTypes, Requests, OnlyWritesFail, Faults, QuietStep, reqVars, busVars
<1>13. TransferIsPhase' /\ CompletionIsTrue' /\ FinishIsTrue'
  <2>1. Resting' /\ pc'[Dfc] # "idle"
    BY <1>1, <1>4, <1>6 DEF Resting
  <2> QED
    BY <2>1, RestingIsTrue
<1>14. CleanResults'
  BY <1>1, <1>6, CleanStays
<1>16. CASE StartAsserts
  <2>1. TheQueue # <<>>
    BY <1>16 DEF StartAsserts
  <2>2. Head(TheQueue) \in Clients /\ pc[Head(TheQueue)] # "ready"
    BY <2>1, HeadWaits
  <2>3. /\ Len(request[Head(TheQueue)]) \in Nat /\ Len(request[Head(TheQueue)]) > 0
    BY <2>2, Chains DEF ChipInv
  <2>4. /\ CurrentPhaseReq' # <<>> /\ CurrentPhaseReq'[2] \in Nat
        /\ CurrentPhaseReq' \in Clients \X (Nat \ {0})
        /\ CurrentPhaseReq'[2] <= Len(request[CurrentPhaseReq'[1]])
        /\ CurrentPhaseReq = <<>> => CurrentPhaseReq'[2] = 1
        /\ CurrentPhaseReq # <<>> => CurrentPhaseReq' = CurrentPhaseReq
    <3>1. CASE CurrentPhaseReq = <<>>
      <4>1. CurrentPhaseReq' = <<Head(TheQueue), 1>>
        BY <1>16, <3>1 DEF StartRequest
      <4>2. CurrentPhaseReq' # <<>> /\ CurrentPhaseReq'[1] = Head(TheQueue) /\ CurrentPhaseReq'[2] = 1
        BY <4>1
      <4>3. 1 <= Len(request[Head(TheQueue)])
        BY <2>3
      <4> QED
        BY <2>2, <3>1, <4>1, <4>2, <4>3
    <3>2. CASE CurrentPhaseReq # <<>>
      <4>1. CurrentPhaseReq' = CurrentPhaseReq
        BY <3>2 DEF StartRequest
      <4>2. Valid(CurrentPhaseReq)
        BY <3>2 DEF ChipInv, PhasesExist
      <4> QED
        BY <3>2, <4>1, <4>2 DEF Valid
    <3> QED
      BY <3>1, <3>2
  <2>5. \A c \in Clients : pc[c] # "ready" => Begun(c)' = Begun(c)
    BY <1>1, <1>4, <1>6, <2>4 DEF Begun, Resting
  <2>6. KeyFollows' /\ CountIsTokens' /\ ValuesWait'
    BY <1>1, <1>5, <2>5, QuietKeeps
  <2>7. PhasesExist'
    BY <1>1, <1>4, <1>6, <2>4 DEF ChipInv, PhasesExist, Valid, IsLast, Action, Phase
  <2> QED
    BY <1>13, <1>14, <1>15, <2>6, <2>7 DEF ChipInv
<1>17. CASE ~StartAsserts
  <2>1. TheQueue = <<>> /\ CurrentPhaseReq' = CurrentPhaseReq /\ PreviousPhaseReq' = PreviousPhaseReq
    BY <1>4, <1>17 DEF StartRequest, StartAsserts
  <2>2. \A u \in Threads : pc'[u] # "loop" /\ (pc'[u] = "pending" => pc[u] = "pending")
    BY <1>2, <1>6, <1>17
  <2>3. \A c \in Clients : pc[c] # "ready" => Begun(c)' = Begun(c)
    BY <1>1, <1>6, <2>1, <2>2 DEF Begun, Resting
  <2>4. KeyFollows' /\ CountIsTokens' /\ ValuesWait'
    BY <1>1, <1>5, <2>3, QuietKeeps
  <2>5. PhasesExist'
    BY <1>1, <1>4, <1>6, <2>1, <2>2 DEF ChipInv, PhasesExist, Valid, IsLast, Action, Phase
  <2> QED
    BY <1>13, <1>14, <1>15, <2>4, <2>5 DEF ChipInv
<1> QED
  BY <1>16, <1>17

\* FakeCompletion keeps the invariant of the chip.
LEMMA FakeCompletionIsTrue ==
    ASSUME Guarded, TInv, ChipInv, NEW t \in Threads, FakeCompletion(t), setting' = setting
    PROVE  ChipInv'
<1> DEFINE to == IF t # Dfc THEN "waiting" ELSE IF finished = <<>> THEN "out" ELSE "notify"
<1>1. /\ pc[t] = "loop" /\ CurrentPhaseReq = <<>> /\ pc' = [pc EXCEPT ![t] = to]
      /\ QuietStep /\ TheQueue' = TheQueue /\ CurrentState' = "EWriting" /\ dfcQueued' = TRUE
      /\ CurrentPhaseReq' = PreviousPhaseReq
      /\ i2c' = i2c /\ finished' = finished /\ request' = request
  BY DEF FakeCompletion, InLoop, Started, QuietStep, reqVars, busVars
<1>2. /\ \A u \in Threads : u # t => pc[u] \in Aside /\ pc'[u] = pc[u]
      /\ pc'[t] = to /\ to \in {"waiting", "out", "notify"}
  BY <1>1, Only DEF TInv, Types, Uses, Starter
<1>3. (\A c \in Clients : c \in Threads /\ c # Dfc) /\ Dfc \in Threads
  BY ConstAssumption DEF Threads
<1>4. /\ Resting /\ CurrentState = "EPending" /\ IsLast(PreviousPhaseReq)
      /\ Action(PreviousPhaseReq) \notin Register
  BY <1>1, Pending DEF ChipInv, PhasesExist
<1>5. PreviousPhaseReq # <<>> /\ PreviousPhaseReq[2] = Len(request[PreviousPhaseReq[1]])
      /\ PreviousPhaseReq[1] = Head(TheQueue)
  BY <1>1, <1>4, Pending DEF TInv, HeadIsCurrent, IsHead, IsLast
<1>6. \A c \in Clients : pc'[c] = "ready" <=> pc[c] = "ready"
  BY <1>1, <1>2, <1>3
<1>7. /\ pc[Dfc] # "idle" /\ pc'[Dfc] # "idle"
      /\ InHand' => InHand
      /\ \A u \in Threads : pc'[u] \notin {"pending", "loop"}
  BY <1>1, <1>2, <1>3 DEF InHand, Aside, AtRest
<1>8. \A c \in Clients : pc[c] # "ready" => Begun(c)' = Begun(c)
  BY <1>1, <1>4, <1>5, <1>7 DEF Begun, Resting
<1>9. RequestTypes' /\ OnlyWritesFail' /\ KeyFollows' /\ CountIsTokens' /\ ValuesWait'
  BY <1>1, <1>4, <1>6, <1>8, QuietKeeps
<1>10. PhasesExist'
  BY <1>1, <1>4, <1>7 DEF ChipInv, PhasesExist, Valid, IsLast, Action, Phase
<1>11. TransferIsPhase' /\ CompletionIsTrue' /\ FinishIsTrue'
  BY <1>1, <1>4, <1>7
     DEF Resting, TransferIsPhase, CompletionIsTrue, FinishIsTrue, Action, Phase
<1>12. CleanResults'
  BY <1>1, <1>7, CleanStays
<1> QED
  BY <1>9, <1>10, <1>11, <1>12 DEF ChipInv

\* The completion DFC, when its phase is over: what it finds.
LEMMA DfcSees ==
    ASSUME Guarded, TInv, ChipInv, DfcEntered
    PROVE  /\ dfcQueued /\ i2c = <<>> /\ pc[Dfc] = "out" /\ Dfc \in Threads
           /\ \A t \in Threads : pc[t] \in Aside
           /\ finished = <<>> /\ Result = pbResult["EDataPb"] /\ Result \in Results
           /\ CurrentState = "EUnprotectPhase0" => Unprotect0Done
           /\ CurrentState = "EReading" /\ ~ClearSetRead => Action(CurrentPhaseReq) = "ERead"
<1>1. dfcQueued /\ pc[Dfc] = "out" /\ CurrentPhaseReq # <<>>
  BY DEF DfcEntered
<1>2. i2c = <<>>
  BY <1>1 DEF TInv, OneActivity
<1>3. Dfc \in Threads /\ finished = <<>> /\ \A t \in Threads : pc[t] \in Aside
  BY <1>1, DfcFinds DEF Resting
<1>4. Result = pbResult["EDataPb"] /\ Result \in Results
  BY DEF Result, ChipInv, OnlyWritesFail, RequestTypes
<1>5. CompletionIsTrue
  BY DEF ChipInv
<1>6. CurrentState = "EUnprotectPhase0" => Unprotect0Done
  BY <1>1, <1>4, <1>5 DEF CompletionIsTrue, IsReading, IsWriting, IsUnlocking, Unprotect0Done
<1>7. CurrentState = "EReading" /\ ~ClearSetRead => Action(CurrentPhaseReq) = "ERead"
  BY <1>1, <1>4, <1>5
     DEF CompletionIsTrue, IsReading, IsWriting, IsUnlocking, ClearSetRead, Action
<1> QED
  BY <1>1, <1>2, <1>3, <1>4, <1>6, <1>7

\* DfcNextPhase keeps the invariant of the chip.
LEMMA DfcNextPhaseIsTrue ==
    ASSUME Guarded, TInv, ChipInv, DfcNextPhase, setting' = setting
    PROVE  ChipInv'
<1> DEFINE p == CurrentPhaseReq
<1>1. /\ DfcEntered /\ ~Unprotect0Done /\ NextPhase(p) # <<>> /\ p # <<>>
      /\ pc' = [pc EXCEPT ![Dfc] = "pending"]
      /\ QuietStep /\ TheQueue' = TheQueue /\ CurrentState' = "EPending" /\ dfcQueued' = FALSE
      /\ CurrentPhaseReq' = NextPhase(p)
      /\ i2c' = i2c /\ finished' = finished /\ request' = request
  BY DEF DfcNextPhase, DfcEntered, QuietStep, reqVars, busVars
<1>2. /\ dfcQueued /\ i2c = <<>> /\ pc[Dfc] = "out" /\ Dfc \in Threads
      /\ \A t \in Threads : pc[t] \in Aside
      /\ finished = <<>> /\ CurrentState # "EUnprotectPhase0"
  BY <1>1, DfcSees
<1>3. /\ pc'[Dfc] = "pending" /\ \A u \in Threads : u # Dfc => pc'[u] = pc[u]
      /\ \A c \in Clients : c \in Threads /\ c # Dfc
  BY <1>1, ConstAssumption DEF TInv, Types, Threads
<1>4. /\ p = <<p[1], p[2]>> /\ p[1] \in Clients /\ p[2] \in 1..Len(request[p[1]])
      /\ p[1] = Head(TheQueue) /\ CurrentState # "EIdle" /\ pc[p[1]] # "ready"
  BY <1>1, CurrentIs
<1>5. /\ CurrentPhaseReq' = <<p[1], p[2] + 1>> /\ p[2] + 1 <= Len(request[p[1]])
      /\ Len(request[p[1]]) \in Nat
  BY <1>1, <1>4, Chains DEF NextPhase, ChipInv
<1>6. CurrentPhaseReq'[1] = p[1] /\ CurrentPhaseReq'[2] = p[2] + 1 /\ CurrentPhaseReq' # <<>>
  BY <1>5
<1>7. \A c \in Clients : pc'[c] = "ready" <=> pc[c] = "ready"
  BY <1>3
<1>8. \A c \in Clients : pc[c] # "ready" => Begun(c)' = Begun(c)
  BY <1>1, <1>2, <1>3, <1>4, <1>6 DEF Begun, Resting
<1>9. RequestTypes' /\ OnlyWritesFail' /\ KeyFollows' /\ CountIsTokens' /\ ValuesWait'
  BY <1>1, <1>2, <1>7, <1>8, QuietKeeps
<1>10. PhasesExist'
  <2>1. Valid(CurrentPhaseReq)'
    BY <1>1, <1>4, <1>5, <1>6 DEF Valid
  <2>2. ~InHand'
    BY <1>1, <1>2, <1>3 DEF InHand
  <2>3. \A t \in Threads : pc'[t] # "loop"
    BY <1>2, <1>3 DEF Aside, AtRest
  <2> QED
    BY <1>1, <1>6, <2>1, <2>2, <2>3 DEF PhasesExist
<1>11. TransferIsPhase' /\ CompletionIsTrue' /\ FinishIsTrue'
  <2>1. Resting' /\ pc'[Dfc] # "idle"
    BY <1>1, <1>2, <1>3 DEF Resting
  <2> QED
    BY <2>1, RestingIsTrue
<1>12. CleanResults'
  <2>1. ~InHand'
    BY <1>1, <1>2, <1>3 DEF InHand
  <2> QED
    BY <1>1, <2>1, CleanStays
<1> QED
  BY <1>9, <1>10, <1>11, <1>12 DEF ChipInv

\* DfcIdle keeps the invariant of the chip.
LEMMA DfcIdleIsTrue ==
    ASSUME Guarded, TInv, ChipInv, DfcIdle, setting' = setting
    PROVE  ChipInv'
<1> DEFINE p == CurrentPhaseReq
<1>1. /\ DfcEntered /\ ~ClearSetRead /\ ~Unprotect0Done /\ NextPhase(p) = <<>> /\ p # <<>>
      /\ pc' = [pc EXCEPT ![Dfc] = "idle"]
      /\ QuietStep /\ TheQueue' = TheQueue /\ CurrentState' = "EIdle" /\ dfcQueued' = FALSE
      /\ CurrentPhaseReq' = <<>> /\ finished'.req = p /\ finished'.result = Result
      /\ i2c' = i2c /\ request' = request /\ iReadValue' = iReadValue /\ chip' = chip
  BY DEF DfcIdle, DfcEntered, QuietStep, reqVars, busVars
<1>2. /\ dfcQueued /\ i2c = <<>> /\ pc[Dfc] = "out" /\ Dfc \in Threads
      /\ \A t \in Threads : pc[t] \in Aside
      /\ CurrentState # "EUnprotectPhase0" /\ Result = pbResult["EDataPb"] /\ Result \in Results
      /\ CurrentState = "EReading" => Action(p) = "ERead"
  BY <1>1, DfcSees
<1>3. /\ pc'[Dfc] = "idle" /\ \A u \in Threads : u # Dfc => pc'[u] = pc[u]
      /\ \A c \in Clients : c \in Threads /\ c # Dfc
  BY <1>1, ConstAssumption DEF TInv, Types, Threads
<1>4. /\ p = <<p[1], p[2]>> /\ p[1] \in Clients /\ p[2] \in 1..Len(request[p[1]])
      /\ p[1] = Head(TheQueue) /\ CurrentState # "EIdle" /\ pc[p[1]] # "ready"
  BY <1>1, CurrentIs
<1>5. IsLast(p)
  <2>1. Valid(p) /\ Len(request[p[1]]) \in Nat
    BY <1>1, <1>4, Chains DEF ChipInv, PhasesExist
  <2>2. ~(p[2] < Len(request[p[1]]))
    BY <1>1 DEF NextPhase
  <2> QED
    BY <1>4, <2>1, <2>2 DEF IsLast
<1>6. \A c \in Clients : pc'[c] = "ready" <=> pc[c] = "ready"
  BY <1>3
<1>7. \A c \in Clients : pc[c] # "ready" => Begun(c)' = Begun(c)
  BY <1>1, <1>2, <1>3, <1>4, <1>5 DEF Begun, Resting, IsLast
<1>8. RequestTypes' /\ OnlyWritesFail' /\ KeyFollows' /\ CountIsTokens' /\ ValuesWait'
  BY <1>1, <1>2, <1>6, <1>7, QuietKeeps
<1>9. PhasesExist'
  <2>1. IsLast(finished.req)' /\ finished'.result \in Results
    BY <1>1, <1>2, <1>5 DEF IsLast, Valid
  <2>2. \A t \in Threads : pc'[t] \notin {"pending", "loop"}
    BY <1>2, <1>3 DEF Aside, AtRest
  <2> QED
    BY <1>1, <2>1, <2>2 DEF PhasesExist
<1>10. TransferIsPhase' /\ CompletionIsTrue'
  BY <1>1, <1>2 DEF TransferIsPhase, CompletionIsTrue
<1>11. FinishIsTrue'
  <2> SUFFICES ASSUME Result = KErrNone
               PROVE  /\ Action(p) = "ERead" => iReadValue[p[1]][p[2]] = chip.reg
                      /\ Action(p) \in {"EWrite", "EClearSet"} => chip.reg = Written(p)
    BY <1>1 DEF FinishIsTrue, Action, Phase, Written
  <2>1. \/ IsReading(p) /\ iReadValue[p[1]][p[2]] = chip.reg
        \/ IsWriting(p) /\ chip.reg = Written(p)
        \/ Action(p) \notin Register
    BY <1>2 DEF ChipInv, CompletionIsTrue, IsUnlocking
  <2> QED
    BY <1>2, <2>1 DEF IsReading, IsWriting, Register
<1>12. CleanResults'
  BY <1>1, <1>2
     DEF ChipInv, CleanResults, OnlyWritesFail, QuietStep, reqVars, busVars, Faults, LastResult
<1> QED
  BY <1>8, <1>9, <1>10, <1>11, <1>12 DEF ChipInv

\* DfcDeque keeps the invariant of the chip.
LEMMA DfcDequeIsTrue ==
    ASSUME Guarded, TInv, ChipInv, DfcDeque, setting' = setting
    PROVE  ChipInv'
<1> DEFINE to == IF MoreQueued(Tail(TheQueue)) THEN "dequeued" ELSE "notify"
<1>1. /\ pc[Dfc] = "idle" /\ Dfc \in Threads
      /\ TheQueue' = Tail(TheQueue) /\ pc' = [pc EXCEPT ![Dfc] = to]
      /\ QuietStep /\ CurrentState' = CurrentState /\ CurrentPhaseReq' = CurrentPhaseReq
      /\ PreviousPhaseReq' = PreviousPhaseReq /\ dfcQueued' = dfcQueued
      /\ finished' = finished /\ i2c' = i2c /\ request' = request
  BY DEF DfcDeque, QuietStep, reqVars, busVars, Threads
<1>2. TheQueue # <<>> /\ CurrentState = "EIdle" /\ Resting /\ CurrentPhaseReq = <<>>
  BY <1>1 DEF TInv, IdleIsIdle
<1>3. \A d : InQueue(TheQueue', d) <=> InQueue(TheQueue, d) /\ d # Head(TheQueue)
  BY <1>1, <1>2, Tailed DEF TInv, Types, QueuedOnce
<1>4. /\ pc'[Dfc] = to /\ to \in {"dequeued", "notify"}
      /\ \A u \in Threads : u # Dfc => pc[u] \in Aside /\ pc'[u] = pc[u]
      /\ \A c \in Clients : c \in Threads /\ c # Dfc
  BY <1>1, Only, ConstAssumption DEF TInv, Types, Threads, Uses
<1>5. \A c \in Clients : pc'[c] = "ready" <=> pc[c] = "ready"
  BY <1>4
<1>6. \A c \in Clients : pc[c] # "ready" => Begun(c)' = Begun(c)
  BY <1>1, <1>2, <1>3, <1>4 DEF Begun
<1>7. RequestTypes' /\ OnlyWritesFail' /\ KeyFollows' /\ CountIsTokens' /\ ValuesWait'
  BY <1>1, <1>5, <1>6, QuietKeeps
<1>8. PhasesExist'
  <2>1. InHand /\ \A t \in Threads : pc'[t] \notin {"pending", "loop"}
    BY <1>1, <1>4 DEF InHand, Aside, AtRest
  <2> QED
    BY <1>1, <1>2, <2>1 DEF ChipInv, PhasesExist, IsLast, Valid
<1>9. TransferIsPhase' /\ CompletionIsTrue' /\ FinishIsTrue'
  <2>1. Resting' /\ pc'[Dfc] # "idle"
    BY <1>1, <1>2, <1>4 DEF Resting
  <2> QED
    BY <2>1, RestingIsTrue
<1>10. CleanResults'
  <2>1. InHand
    BY <1>1 DEF InHand
  <2> QED
    BY <1>1, <2>1, CleanStays
<1> QED
  BY <1>7, <1>8, <1>9, <1>10 DEF ChipInv

-----------------------------------------------------------------------------
(* Steps that begin a phase *)

\* Where one client only changes what it owes.
LEMMA TokensChange ==
    ASSUME held' = held, NEW c \in Clients, \A d \in Clients : d # c => (Owing(d)' <=> Owing(d))
    PROVE  /\ Owing(c)' /\ ~Owing(c) => <<c, 0>> \notin Tokens /\ Tokens' = Tokens \cup {<<c, 0>>}
           /\ ~Owing(c)' /\ Owing(c) => <<c, 0>> \in Tokens /\ Tokens' = Tokens \ {<<c, 0>>}
<1>1. /\ Tokens \subseteq Clients \X Nat /\ Tokens' \subseteq Clients \X Nat
      /\ <<c, 0>> \in Clients \X Nat
  BY DEF Tokens
<1>2. <<c, 0>> \in Tokens <=> Owing(c)
  BY <1>1 DEF Tokens
<1>3. <<c, 0>> \in Tokens' <=> Owing(c)'
  BY <1>1 DEF Tokens
<1>4. ASSUME NEW x \in Clients \X Nat, x # <<c, 0>>
      PROVE  x \in Tokens' <=> x \in Tokens
  <2>1. x = <<x[1], x[2]>> /\ x[1] \in Clients
    OBVIOUS
  <2>2. CASE x[2] = 0
    BY <1>4, <2>1, <2>2 DEF Tokens
  <2>3. CASE x[2] # 0
    BY <2>3 DEF Tokens
  <2> QED
    BY <2>2, <2>3
<1> QED
  BY <1>1, <1>2, <1>3, <1>4

\* A unit of the count is counted.
LEMMA Counts ==
    ASSUME CountIsTokens
    PROVE  /\ TheProtectionUsageCount \in Nat
           /\ \A x \in Tokens : TheProtectionUsageCount >= 1
           /\ Tokens = {} => TheProtectionUsageCount = 0
<1>1. TheProtectionUsageCount \in Nat
  BY FS_CardinalityType DEF CountIsTokens
<1>2. TheProtectionUsageCount = 0 <=> Tokens = {}
  BY FS_EmptySet DEF CountIsTokens
<1> QED
  BY <1>1, <1>2

\* The count after a phase is begun.
CountedAs(action) ==
    TheProtectionUsageCount' =
        IF action = "EDisableProtect" THEN TheProtectionUsageCount + 1
        ELSE IF action = "ERestoreProtect" THEN TheProtectionUsageCount - 1
        ELSE TheProtectionUsageCount

\* The k-th phase of c's request is begun.
PhaseBegins(c, k) ==
    /\ Begun(c) = k - 1 /\ Begun(c)' = k
    /\ \A d \in Clients : d # c /\ pc[d] # "ready" => Begun(d)' = Begun(d)

\* A phase that is begun is counted, if it changes the protection.
LEMMA PhaseCounts ==
    ASSUME Guarded, TInv, ChipInv, CurrentPhaseReq # <<>>, UNCHANGED <<request, value, held>>,
           NEW c, NEW k, CurrentPhaseReq[1] = c, CurrentPhaseReq[2] = k,
           PhaseBegins(c, k), \A d \in Clients : pc'[d] = "ready" <=> pc[d] = "ready",
           CountedAs(Action(CurrentPhaseReq))
    PROVE  /\ CountIsTokens' /\ ValuesWait' /\ TheProtectionUsageCount \in Nat
           /\ Action(CurrentPhaseReq) = "ERestoreProtect" => TheProtectionUsageCount >= 1
<1> DEFINE r == request[c]
<1>1. /\ c \in Clients /\ pc[c] # "ready" /\ k \in 1..Len(r) /\ Phase(CurrentPhaseReq) \in TReq
      /\ r[k].iAction = Action(CurrentPhaseReq)
  BY CurrentIs DEF Action, Phase
<1>0. request'[c] = r /\ pc'[c] # "ready"
  BY <1>1
<1>2. r \in Seq(TReq) /\ Balanced(r)
  BY <1>1, Chains DEF ChipInv
<1>3. Action(CurrentPhaseReq) \in Register \cup {"EDisableProtect", "ERestoreProtect"}
  BY <1>1 DEF Action, TReq, Register
<1>4. (Owing(c) <=> Owes(r, k - 1)) /\ (Owing(c)' <=> Owes(r, k))
  BY <1>0, <1>1 DEF PhaseBegins, Owing, Owes, Among, Disables, Restores
<1>5. ASSUME NEW d \in Clients, d # c PROVE Owing(d)' <=> Owing(d)
  BY <1>5 DEF PhaseBegins, Owing, Owes, Among, Disables, Restores
<1>6. CountIsTokens /\ TheProtectionUsageCount \in Nat /\ held' = held
  BY Counts DEF ChipInv
<1>7. ValuesWait'
  <2> SUFFICES ASSUME NEW d \in Clients, pc[d] # "ready", NEW j \in 1..Len(request[d]), j > Begun(d)'
               PROVE  value[d][j] = request[d][j].value
    BY DEF ValuesWait
  <2>1. j > Begun(d)
    BY <1>1 DEF PhaseBegins
  <2> QED
    BY <2>1 DEF ChipInv, ValuesWait
<1> HIDE DEF r
<1>8. /\ r[k].iAction \in Register => (Owes(r, k) <=> Owes(r, k - 1))
      /\ r[k].iAction = "EDisableProtect" => ~Owes(r, k - 1) /\ Owes(r, k)
      /\ r[k].iAction = "ERestoreProtect" => Owes(r, k - 1) /\ ~Owes(r, k)
  BY <1>1, <1>2, OwesNext
<1>9. CASE Action(CurrentPhaseReq) \in Register
  <2>1. \A d \in Clients : Owing(d)' <=> Owing(d)
    BY <1>1, <1>4, <1>5, <1>8, <1>9
  <2>2. TheProtectionUsageCount' = TheProtectionUsageCount
    BY <1>9 DEF CountedAs, Register
  <2>3. CountIsTokens'
    BY <1>6, <2>1, <2>2, TokensStay
  <2> QED
    BY <1>6, <1>7, <1>9, <2>3 DEF Register
<1>10. CASE Action(CurrentPhaseReq) = "EDisableProtect"
  <2>1. <<c, 0>> \notin Tokens /\ Tokens' = Tokens \cup {<<c, 0>>}
    BY <1>1, <1>4, <1>5, <1>6, <1>8, <1>10, TokensChange
  <2>2. TheProtectionUsageCount' = TheProtectionUsageCount + 1
    BY <1>10 DEF CountedAs
  <2>3. CountIsTokens'
    BY <1>6, <2>1, <2>2, TokenComes
  <2> QED
    BY <1>6, <1>7, <1>10, <2>3
<1>11. CASE Action(CurrentPhaseReq) = "ERestoreProtect"
  <2>1. <<c, 0>> \in Tokens /\ Tokens' = Tokens \ {<<c, 0>>}
    BY <1>1, <1>4, <1>5, <1>6, <1>8, <1>11, TokensChange
  <2>2. TheProtectionUsageCount' = TheProtectionUsageCount - 1
    BY <1>11 DEF CountedAs
  <2>3. CountIsTokens' /\ TheProtectionUsageCount >= 1
    BY <1>6, <2>1, <2>2, TokenGoes, Counts
  <2> QED
    BY <1>6, <1>7, <2>3
<1> QED
  BY <1>3, <1>9, <1>10, <1>11

\* What a thread finds that is in the loop, with a phase to begin.
LEMMA LoopSees ==
    ASSUME Guarded, TInv, ChipInv, NEW t \in Threads, InLoop(t), CurrentPhaseReq # <<>>
    PROVE  /\ Resting /\ CurrentState = "EPending" /\ pc[Dfc] # "idle" /\ Dfc \in Threads
           /\ pc[t] = "loop" /\ \A u \in Threads : u # t => pc[u] \in Aside
           /\ CurrentPhaseReq[1] = Head(TheQueue) /\ CurrentPhaseReq[1] \in Clients
           /\ InQueue(TheQueue, CurrentPhaseReq[1]) /\ pc[CurrentPhaseReq[1]] # "ready"
           /\ signals[CurrentPhaseReq[1]] = 0
           /\ CurrentPhaseReq = <<CurrentPhaseReq[1], CurrentPhaseReq[2]>>
           /\ CurrentPhaseReq[2] \in 1..Len(request[CurrentPhaseReq[1]])
           /\ Begun(CurrentPhaseReq[1]) = CurrentPhaseReq[2] - 1
           /\ \A c \in Clients : c \in Threads /\ c # Dfc
           /\ chip.key = IF TheProtectionUsageCount = 0 THEN "locked" ELSE "unlocked"
<1>1. /\ pc[t] = "loop" /\ \A u \in Threads : u # t => pc[u] \in Aside
  BY Only DEF InLoop, Uses, Starter
<1>2. Dfc \in Threads /\ \A c \in Clients : c \in Threads /\ c # Dfc
  BY ConstAssumption DEF Threads
<1>3. Resting /\ CurrentState = "EPending" /\ TheQueue # <<>>
  BY <1>1, Pending, CurrentIs DEF ChipInv, PhasesExist
<1>4. pc[Dfc] # "idle"
  BY <1>1, <1>2 DEF Aside, AtRest
<1>5. /\ CurrentPhaseReq[1] = Head(TheQueue) /\ CurrentPhaseReq[1] \in Clients
      /\ InQueue(TheQueue, CurrentPhaseReq[1]) /\ pc[CurrentPhaseReq[1]] # "ready"
      /\ CurrentPhaseReq = <<CurrentPhaseReq[1], CurrentPhaseReq[2]>>
      /\ CurrentPhaseReq[2] \in 1..Len(request[CurrentPhaseReq[1]])
  BY CurrentIs
<1>6. Begun(CurrentPhaseReq[1]) = CurrentPhaseReq[2] - 1
  BY <1>3, <1>4, <1>5 DEF Begun
<1>7. signals[CurrentPhaseReq[1]] = 0
  BY <1>3, <1>5, HeadWaits
<1>8. chip.key = IF TheProtectionUsageCount = 0 THEN "locked" ELSE "unlocked"
  BY <1>3 DEF ChipInv, KeyFollows, Unlocks, Locks, Resting
<1> QED
  BY <1>1, <1>2, <1>3, <1>4, <1>5, <1>6, <1>7, <1>8

\* SkipPhase keeps the invariant of the chip.
LEMMA SkipPhaseIsTrue ==
    ASSUME Guarded, TInv, ChipInv, NEW t \in Threads, SkipPhase(t), setting' = setting
    PROVE  ChipInv'
<1> DEFINE p == CurrentPhaseReq
<1>1. /\ InLoop(t) /\ p # <<>>
      /\ pc' = pc /\ request' = request /\ value' = value /\ iReadValue' = iReadValue
      /\ signals' = signals /\ TheQueue' = TheQueue /\ CurrentState' = CurrentState
      /\ pbResult' = pbResult /\ i2c' = i2c /\ chip' = chip /\ failed' = failed
      /\ dfcQueued' = dfcQueued /\ finished' = finished /\ held' = held
      /\ iResult' = [iResult EXCEPT ![p[1]][p[2]] = KErrNone]
      /\ PreviousPhaseReq' = p /\ CurrentPhaseReq' = NextPhase(p)
  BY DEF SkipPhase, busVars
<1>2. \/ /\ Action(p) = "EDisableProtect" /\ TheProtectionUsageCount # 0
         /\ TheProtectionUsageCount' = TheProtectionUsageCount + 1
      \/ /\ Action(p) = "ERestoreProtect" /\ TheProtectionUsageCount # 1
         /\ TheProtectionUsageCount' = TheProtectionUsageCount + -1
  BY DEF SkipPhase, Action, FirstDisable, LastRestore, Counted
<1>3. /\ Resting /\ CurrentState = "EPending" /\ pc[Dfc] # "idle" /\ Dfc \in Threads
      /\ pc[t] = "loop" /\ \A u \in Threads : u # t => pc[u] \in Aside
      /\ p[1] = Head(TheQueue) /\ p[1] \in Clients
      /\ InQueue(TheQueue, p[1]) /\ pc[p[1]] # "ready" /\ signals[p[1]] = 0
      /\ p = <<p[1], p[2]>> /\ p[2] \in 1..Len(request[p[1]])
      /\ Begun(p[1]) = p[2] - 1
      /\ chip.key = IF TheProtectionUsageCount = 0 THEN "locked" ELSE "unlocked"
  BY <1>1, LoopSees
<1>4. Len(request[p[1]]) \in Nat /\ TheProtectionUsageCount \in Nat
  BY <1>3, Chains, Counts DEF ChipInv
<1>5. \/ CurrentPhaseReq' = <<p[1], p[2] + 1>> /\ p[2] + 1 <= Len(request[p[1]])
      \/ CurrentPhaseReq' = <<>> /\ p[2] = Len(request[p[1]])
  BY <1>1, <1>3, <1>4 DEF NextPhase
<1>6. PICK me \in Clients, n \in Nat : p[1] = me /\ p[2] = n
  BY <1>3, <1>4
<1>15. PhaseBegins(me, n)
  <2>1. Begun(me)' = n
    <3>1. CASE CurrentPhaseReq' = <<p[1], p[2] + 1>>
      <4>1. CurrentPhaseReq' # <<>> /\ CurrentPhaseReq'[2] = p[2] + 1 /\ p[2] + 1 - 1 = p[2]
        BY <1>3, <3>1
      <4> QED
        BY <1>1, <1>3, <1>6, <4>1 DEF Begun, Resting
    <3>2. CASE CurrentPhaseReq' = <<>> /\ p[2] = Len(request[p[1]])
      BY <1>1, <1>3, <1>6, <3>2 DEF Begun, Resting
    <3> QED
      BY <1>5, <3>1, <3>2
  <2>2. \A c \in Clients : c # me /\ pc[c] # "ready" => Begun(c)' = Begun(c)
    BY <1>1, <1>3, <1>6 DEF Begun
  <2> QED
    BY <1>3, <1>6, <2>1, <2>2 DEF PhaseBegins
<1>7. CountedAs(Action(p))
  BY <1>2, <1>4 DEF CountedAs
<1>8. /\ CountIsTokens' /\ ValuesWait'
      /\ Action(p) = "ERestoreProtect" => TheProtectionUsageCount >= 1
  BY <1>1, <1>6, <1>7, <1>15, PhaseCounts
<1>9. RequestTypes'
  <2>1. \A c \in Clients : iResult'[c] \in [1..Len(request[c]) -> Results \cup {"unset"}]
    BY <1>1, <1>3 DEF ChipInv, RequestTypes, Results
  <2> QED
    BY <1>1, <2>1 DEF ChipInv, RequestTypes, Requests
<1>10. PhasesExist'
  <2>1. CurrentPhaseReq' # <<>> => Valid(CurrentPhaseReq)'
    BY <1>1, <1>3, <1>4, <1>5 DEF Valid
  <2>2. CurrentPhaseReq' = <<>> => IsLast(PreviousPhaseReq)' /\ Action(PreviousPhaseReq)' \notin Register
    BY <1>1, <1>2, <1>3, <1>5 DEF IsLast, Valid, Action, Phase, Register
  <2>3. InHand' => IsLast(finished.req)' /\ finished'.result \in Results
    BY <1>1 DEF ChipInv, PhasesExist, InHand, IsLast, Valid
  <2>4. \A u \in Threads : pc'[u] \in {"pending", "loop"} => CurrentState' = "EPending"
    BY <1>1, <1>3
  <2> QED
    BY <2>1, <2>2, <2>3, <2>4 DEF PhasesExist
<1>11. OnlyWritesFail'
  BY <1>1 DEF ChipInv, OnlyWritesFail, Faults
<1>12. TransferIsPhase' /\ CompletionIsTrue' /\ FinishIsTrue'
  <2>1. Resting' /\ pc'[Dfc] # "idle"
    BY <1>1, <1>3 DEF Resting
  <2> QED
    BY <2>1, RestingIsTrue
<1>13. KeyFollows'
  <2>1. ~Unlocks' /\ ~Locks'
    BY <1>1, <1>3 DEF Unlocks, Locks, Resting
  <2>2. TheProtectionUsageCount # 0 /\ TheProtectionUsageCount' # 0
    BY <1>2, <1>4, <1>8
  <2> QED
    BY <1>1, <1>3, <2>1, <2>2 DEF KeyFollows
<1>14. CleanResults'
  <2>1. InHand' <=> InHand
    BY <1>1 DEF InHand
  <2>2. ASSUME NEW c \in Clients, signals'[c] = 1 PROVE LastResult(c)' = LastResult(c)
    BY <1>1, <1>3, <2>2 DEF LastResult, ChipInv, RequestTypes
  <2> QED
    BY <1>1, <2>1, <2>2 DEF ChipInv, CleanResults, Faults
<1> QED
  BY <1>8, <1>9, <1>10, <1>11, <1>12, <1>13, <1>14 DEF ChipInv

\* The transfers that begin a phase, and what becomes of the count.
Transfers(p) ==
    \/ /\ Action(p) \in {"ERead", "EClearSet"} /\ CurrentState' = "EReading"
       /\ Head(i2c').what = "read" /\ Head(i2c').pb = "EAddressPb"
    \/ /\ Action(p) = "EWrite" /\ CurrentState' = "EWriting"
       /\ Head(i2c').what = "write" /\ Head(i2c').pb = "EDataPb"
       /\ Head(i2c').data = value[p[1]][p[2]]
    \/ /\ Action(p) = "EDisableProtect" /\ CurrentState' = "EUnprotectPhase0"
       /\ TheProtectionUsageCount = 0
       /\ Head(i2c').what = "key0" /\ Head(i2c').pb = "EDataPb"
    \/ /\ Action(p) = "ERestoreProtect" /\ CurrentState' = "EWriting"
       /\ TheProtectionUsageCount = 1
       /\ Head(i2c').what = "lock" /\ Head(i2c').pb = "EDataPb"

\* The results of the blocks of a transfer that is begun.
ResultsReset ==
    /\ pbResult' \in [{"EAddressPb", "EDataPb"} -> Results]
    /\ pbResult'["EAddressPb"] = KErrNone /\ pbResult'["EDataPb"] = KErrNone

\* A transfer starts with both results clear.
LEMMA ResetResults ==
    ASSUME ChipInv, pbResult' = ResetData \/ pbResult' = [b \in DOMAIN pbResult |-> KErrNone]
    PROVE  ResultsReset
BY DEF ChipInv, RequestTypes, OnlyWritesFail, ResetData, ResultsReset, Results

\* What StartPhase has passed to TransferA().
LEMMA StartPhaseBegins ==
    ASSUME Guarded, TInv, ChipInv, NEW t \in Threads, StartPhase(t)
    PROVE  /\ Transfers(CurrentPhaseReq) /\ CountedAs(Action(CurrentPhaseReq))
           /\ i2c' # <<>> /\ ResultsReset
<1> DEFINE p == CurrentPhaseReq
<1>1. i2c = <<>> /\ TheProtectionUsageCount \in Nat
  BY LoopSees, Counts DEF StartPhase, Resting, ChipInv
<1>2. \A x : Append(i2c, x) # <<>> /\ Head(Append(i2c, x)) = x
  BY <1>1
<1>3. CASE /\ Phase(p).iAction \in {"ERead", "EClearSet"} /\ StartRead
           /\ UNCHANGED TheProtectionUsageCount
  <2> DEFINE x == [pb |-> "EAddressPb", what |-> "read", data |-> {}, req |-> p]
  <2>4. i2c' = Append(i2c, x)
    BY <1>3 DEF StartRead, TransferA
  <2>5. x.what = "read" /\ x.pb = "EAddressPb"
    OBVIOUS
  <2>1. i2c' # <<>> /\ Head(i2c').what = "read" /\ Head(i2c').pb = "EAddressPb"
    <3> HIDE DEF x
    <3> QED
      BY <1>2, <2>4, <2>5
  <2>2. ResultsReset
    BY <1>3, ResetResults DEF StartRead
  <2>3. CurrentState' = "EReading" /\ Action(p) \in {"ERead", "EClearSet"}
    BY <1>3 DEF StartRead, Action
  <2> QED
    BY <1>3, <2>1, <2>2, <2>3 DEF Transfers, CountedAs
<1>4. CASE /\ Phase(p).iAction = "EWrite" /\ StartWrite(value[p[1]][p[2]])
           /\ UNCHANGED TheProtectionUsageCount
  BY <1>2, <1>4, ResetResults DEF StartWrite, TransferA, Transfers, CountedAs, Action
<1>5. CASE /\ Phase(p).iAction = "EDisableProtect" /\ FirstDisable
           /\ TheProtectionUsageCount' = Counted("EDisableProtect")
           /\ StartKey("EUnprotectPhase0", "key0")
  BY <1>1, <1>2, <1>5, ResetResults
     DEF StartKey, TransferA, Transfers, CountedAs, Counted, FirstDisable, Action
<1>6. CASE /\ Phase(p).iAction = "ERestoreProtect" /\ LastRestore
           /\ TheProtectionUsageCount' = Counted("ERestoreProtect")
           /\ StartKey("EWriting", "lock")
  BY <1>1, <1>2, <1>6, ResetResults
     DEF StartKey, TransferA, Transfers, CountedAs, Counted, LastRestore, Action
<1> QED
  BY <1>3, <1>4, <1>5, <1>6 DEF StartPhase

\* StartPhase keeps the invariant of the chip.
LEMMA StartPhaseIsTrue ==
    ASSUME Guarded, TInv, ChipInv, NEW t \in Threads, StartPhase(t), setting' = setting
    PROVE  ChipInv'
<1> DEFINE p == CurrentPhaseReq
           to == IF t # Dfc THEN "waiting" ELSE IF finished = <<>> THEN "out" ELSE "notify"
<1>1. /\ InLoop(t) /\ p # <<>> /\ pc' = [pc EXCEPT ![t] = to]
      /\ request' = request /\ value' = value /\ iReadValue' = iReadValue /\ iResult' = iResult
      /\ signals' = signals /\ TheQueue' = TheQueue /\ CurrentPhaseReq' = p
      /\ chip' = chip /\ failed' = failed
      /\ dfcQueued' = dfcQueued /\ finished' = finished /\ held' = held
  BY DEF StartPhase, Started, reqVars
<1>2. Transfers(p) /\ CountedAs(Action(p)) /\ i2c' # <<>> /\ ResultsReset
  BY StartPhaseBegins
<1>3. /\ Resting /\ pc[Dfc] # "idle" /\ Dfc \in Threads
      /\ pc[t] = "loop" /\ \A u \in Threads : u # t => pc[u] \in Aside
      /\ p[1] = Head(TheQueue) /\ p[1] \in Clients
      /\ InQueue(TheQueue, p[1]) /\ pc[p[1]] # "ready"
      /\ p[2] \in 1..Len(request[p[1]]) /\ Begun(p[1]) = p[2] - 1
      /\ CurrentState = "EPending" /\ \A c \in Clients : c \in Threads /\ c # Dfc
      /\ chip.key = IF TheProtectionUsageCount = 0 THEN "locked" ELSE "unlocked"
  BY <1>1, LoopSees
<1>4. /\ pc'[t] = to /\ to \in {"waiting", "out", "notify"}
      /\ \A u \in Threads : u # t => pc'[u] = pc[u]
  BY <1>1 DEF TInv, Types
<1>5. /\ \A c \in Clients : pc'[c] = "ready" <=> pc[c] = "ready"
      /\ \A u \in Threads : pc'[u] \notin {"pending", "loop", "idle"}
      /\ InHand' => InHand
  BY <1>1, <1>3, <1>4 DEF InHand, Aside, AtRest
<1>6. CurrentState' \notin {"EIdle", "EPending"} /\ ~Resting' /\ dfcQueued' = FALSE
  BY <1>1, <1>2, <1>3 DEF Transfers, Resting, TInv, Types
<1>17. PICK me \in Clients, n \in Nat : p[1] = me /\ p[2] = n
  BY <1>3
<1>7. PhaseBegins(me, n)
  <2>1. Begun(me)' = n
    BY <1>1, <1>3, <1>5, <1>6, <1>17 DEF Begun
  <2>2. \A c \in Clients : c # me /\ pc[c] # "ready" => Begun(c)' = Begun(c)
    BY <1>1, <1>3, <1>5, <1>6, <1>17 DEF Begun
  <2> QED
    BY <1>3, <1>17, <2>1, <2>2 DEF PhaseBegins
<1>8. CountIsTokens' /\ ValuesWait' /\ TheProtectionUsageCount \in Nat
  BY <1>1, <1>2, <1>5, <1>7, <1>17, PhaseCounts
<1>9. RequestTypes'
  BY <1>1, <1>2, <1>5 DEF ChipInv, RequestTypes, Requests, ResultsReset
<1>10. PhasesExist'
  BY <1>1, <1>5 DEF ChipInv, PhasesExist, IsLast, Valid
<1>11. OnlyWritesFail'
  BY <1>1, <1>2 DEF ChipInv, OnlyWritesFail, Faults, ResultsReset
<1>12. value[p[1]][p[2]] = Phase(p).value
  <2>1. p[2] > Begun(p[1])
    BY <1>3
  <2> QED
    BY <1>3, <2>1 DEF ChipInv, ValuesWait, Phase
<1>13. TransferIsPhase'
  BY <1>1, <1>2, <1>12
     DEF Transfers, TransferIsPhase, IsReading, IsWriting, IsUnlocking, Written, Action, Phase
<1>14. CompletionIsTrue' /\ FinishIsTrue'
  BY <1>3, <1>5, <1>6 DEF CompletionIsTrue, FinishIsTrue
<1>15. KeyFollows'
  BY <1>1, <1>2, <1>3, <1>8 DEF KeyFollows, Unlocks, Locks, Transfers, CountedAs
<1>16. CleanResults'
  BY <1>1, <1>5 DEF ChipInv, CleanResults, Faults, LastResult
<1> QED
  BY <1>8, <1>9, <1>10, <1>11, <1>13, <1>14, <1>15, <1>16 DEF ChipInv

-----------------------------------------------------------------------------
(* Steps of the completion DFC, the I2C driver and the clients *)

\* Nobody begins a phase, and no count changes.
BegunStays ==
    /\ TheProtectionUsageCount' = TheProtectionUsageCount /\ held' = held /\ request' = request
    /\ \A c \in Clients : pc'[c] = "ready" <=> pc[c] = "ready"
    /\ \A c \in Clients : pc[c] # "ready" => Begun(c)' = Begun(c)

\* A step that begins no phase leaves the count true.
LEMMA BegunKeeps ==
    ASSUME ChipInv, BegunStays
    PROVE  CountIsTokens'
<1>1. \A c \in Clients : Owing(c)' <=> Owing(c)
  BY DEF Owing, BegunStays
<1> QED
  BY <1>1, TokensStay DEF ChipInv, BegunStays

\* Where a phase is under way on the bus or in the DFC, and stays so.
LEMMA UnderWay ==
    ASSUME Guarded, TInv, ChipInv, CurrentPhaseReq # <<>>, ~Resting, ~Resting', pc' = pc,
           pc[Dfc] = "out", CurrentState' # "EIdle",
           UNCHANGED <<TheQueue, CurrentPhaseReq, request, TheProtectionUsageCount, held>>
    PROVE  BegunStays
<1>1. CurrentState # "EIdle"
  BY CurrentIs
<1> QED
  BY <1>1 DEF BegunStays, Begun

\* The DFC starts the second transfer of a phase.
LEMMA DfcWriteBackIsTrue ==
    ASSUME Guarded, TInv, ChipInv, DfcWriteBack, setting' = setting
    PROVE  ChipInv'
<1> DEFINE p == CurrentPhaseReq
           new == Merged(iReadValue[p[1]][p[2]], Phase(p).iClearMask, value[p[1]][p[2]])
<1>1. /\ DfcEntered /\ ClearSetRead /\ p # <<>>
      /\ value' = [value EXCEPT ![p[1]][p[2]] = new]
      /\ CurrentState' = "EWriting" /\ pbResult' = ResetData
      /\ i2c' = Append(i2c, [pb |-> "EDataPb", what |-> "write", data |-> new, req |-> p])
      /\ dfcQueued' = FALSE
      /\ pc' = pc /\ request' = request /\ iReadValue' = iReadValue /\ iResult' = iResult
      /\ signals' = signals /\ TheQueue' = TheQueue /\ CurrentPhaseReq' = p
      /\ PreviousPhaseReq' = PreviousPhaseReq
      /\ TheProtectionUsageCount' = TheProtectionUsageCount /\ chip' = chip /\ failed' = failed
      /\ finished' = finished /\ held' = held
  BY DEF DfcWriteBack, DfcEntered, StartWrite, TransferA
<1>2. /\ dfcQueued /\ i2c = <<>> /\ pc[Dfc] = "out" /\ Dfc \in Threads
      /\ \A u \in Threads : pc[u] \in Aside
  BY <1>1, DfcSees
<1>3. /\ i2c' # <<>> /\ Head(i2c').pb = "EDataPb" /\ Head(i2c').what = "write"
      /\ Head(i2c').data = new
  BY <1>1, <1>2
<1>4. CurrentState = "EReading" /\ Action(p) = "EClearSet"
  BY <1>1 DEF ClearSetRead, Action
<1>5. value[p[1]][p[2]] = Phase(p).value
  BY <1>2, <1>4 DEF ChipInv, CompletionIsTrue, IsReading, IsWriting, IsUnlocking
<1>6. /\ p[1] \in Clients /\ p[2] \in 1..Len(request[p[1]]) /\ p[1] = Head(TheQueue)
      /\ Phase(p) \in TReq /\ InQueue(TheQueue, p[1]) /\ CurrentState # "EIdle"
  BY <1>1, CurrentIs
<1>7. new = Written(p) /\ new \in SUBSET Bits
  <2>1. new = (iReadValue[p[1]][p[2]] \ Phase(p).iClearMask) \cup Phase(p).value
    BY <1>5 DEF Merged
  <2>2. iReadValue[p[1]][p[2]] \in SUBSET Bits
    BY <1>6 DEF ChipInv, RequestTypes
  <2> QED
    BY <1>4, <1>6, <2>1, <2>2 DEF Written, TReq
<1>8. BegunStays
  <2>1. ~Resting /\ ~Resting'
    BY <1>2, <1>3 DEF Resting
  <2> QED
    BY <1>1, <1>2, <2>1, UnderWay
<1>9. CountIsTokens'
  BY <1>8, BegunKeeps
<1> HIDE DEF new
<1>10. ResultsReset
  BY <1>1, ResetResults
<1>11. RequestTypes'
  <2>1. \A c \in Clients : value'[c] \in [1..Len(request[c]) -> SUBSET Bits]
    BY <1>1, <1>6, <1>7 DEF ChipInv, RequestTypes
  <2> QED
    BY <1>1, <1>10, <2>1 DEF ChipInv, RequestTypes, Requests, ResultsReset
<1>12. PhasesExist'
  <2>1. \A u \in Threads : pc[u] \notin {"pending", "loop"}
    BY <1>2 DEF Aside, AtRest
  <2> QED
    BY <1>1, <2>1 DEF ChipInv, PhasesExist, InHand, IsLast, Valid
<1>13. OnlyWritesFail'
  BY <1>1, <1>10 DEF ChipInv, OnlyWritesFail, Faults, ResultsReset
<1>14. TransferIsPhase'
  BY <1>1, <1>3, <1>4, <1>7 DEF TransferIsPhase, IsWriting, Written, Action, Phase
<1>15. CompletionIsTrue' /\ FinishIsTrue'
  BY <1>1, <1>2 DEF CompletionIsTrue, FinishIsTrue
<1>16. KeyFollows'
  BY <1>1, <1>2, <1>3, <1>4 DEF ChipInv, KeyFollows, Unlocks, Locks
<1>17. ValuesWait'
  <2>1. Begun(p[1]) = p[2]
    BY <1>2, <1>1, <1>6 DEF Begun, Resting
  <2> SUFFICES ASSUME NEW c \in Clients, pc[c] # "ready", NEW k \in 1..Len(request[c]), k > Begun(c)
               PROVE  value'[c][k] = request[c][k].value
    BY <1>1, <1>8 DEF ValuesWait, BegunStays
  <2>2. value'[c][k] = value[c][k]
    <3>1. CASE c = p[1]
      <4>1. k # p[2]
        BY <2>1, <3>1, <1>6
      <4> QED
        BY <1>1, <1>6, <3>1, <4>1 DEF ChipInv, RequestTypes
    <3>2. CASE c # p[1]
      BY <1>1, <3>2 
    <3> QED
      BY <3>1, <3>2
  <2> QED
    BY <2>2 DEF ChipInv, ValuesWait
<1>18. CleanResults'
  BY <1>1 DEF ChipInv, CleanResults, InHand, Faults, LastResult
<1> QED
  BY <1>9, <1>11, <1>12, <1>13, <1>14, <1>15, <1>16, <1>17, <1>18 DEF ChipInv

\* DfcUnprotect1 keeps the invariant of the chip.
LEMMA DfcUnprotect1IsTrue ==
    ASSUME Guarded, TInv, ChipInv, DfcUnprotect1, setting' = setting
    PROVE  ChipInv'
<1> DEFINE p == CurrentPhaseReq
<1>1. /\ DfcEntered /\ Unprotect0Done /\ p # <<>>
      /\ CurrentState' = "EWriting" /\ pbResult' = ResetData
      /\ i2c' = Append(i2c, [pb |-> "EDataPb", what |-> "key1", data |-> {}, req |-> p])
      /\ dfcQueued' = FALSE
      /\ pc' = pc /\ request' = request /\ value' = value /\ iReadValue' = iReadValue
      /\ iResult' = iResult
      /\ signals' = signals /\ TheQueue' = TheQueue /\ CurrentPhaseReq' = p
      /\ PreviousPhaseReq' = PreviousPhaseReq
      /\ TheProtectionUsageCount' = TheProtectionUsageCount /\ chip' = chip /\ failed' = failed
      /\ finished' = finished /\ held' = held
  BY DEF DfcUnprotect1, DfcEntered, StartKey, TransferA, reqVars
<1>2. /\ dfcQueued /\ i2c = <<>> /\ pc[Dfc] = "out" /\ Dfc \in Threads
      /\ \A u \in Threads : pc[u] \in Aside
  BY <1>1, DfcSees
<1>3. i2c' # <<>> /\ Head(i2c').pb = "EDataPb" /\ Head(i2c').what = "key1"
  BY <1>1, <1>2
<1>4. CurrentState = "EUnprotectPhase0" /\ Action(p) = "EDisableProtect" /\ chip.key = "half"
  BY <1>1, <1>2 DEF Unprotect0Done, ChipInv, CompletionIsTrue, IsReading, IsWriting, IsUnlocking
<1>5. BegunStays
  <2>1. ~Resting /\ ~Resting'
    BY <1>2, <1>3 DEF Resting
  <2> QED
    BY <1>1, <1>2, <2>1, UnderWay
<1>6. CountIsTokens' /\ ResultsReset
  BY <1>1, <1>5, BegunKeeps, ResetResults
<1>7. RequestTypes'
  BY <1>1, <1>6 DEF ChipInv, RequestTypes, Requests, ResultsReset
<1>8. PhasesExist'
  <2>1. \A u \in Threads : pc[u] \notin {"pending", "loop"}
    BY <1>2 DEF Aside, AtRest
  <2> QED
    BY <1>1, <2>1 DEF ChipInv, PhasesExist, InHand, IsLast, Valid
<1>9. OnlyWritesFail'
  BY <1>1, <1>6 DEF ChipInv, OnlyWritesFail, Faults, ResultsReset
<1>10. TransferIsPhase'
  BY <1>1, <1>3, <1>4 DEF TransferIsPhase, Action, Phase
<1>11. CompletionIsTrue' /\ FinishIsTrue'
  BY <1>1, <1>2 DEF CompletionIsTrue, FinishIsTrue
<1>12. KeyFollows'
  BY <1>1, <1>3, <1>4 DEF ChipInv, KeyFollows, Unlocks, Locks
<1>13. ValuesWait'
  BY <1>1, <1>5 DEF ChipInv, ValuesWait, BegunStays
<1>14. CleanResults'
  BY <1>1 DEF ChipInv, CleanResults, InHand, Faults, LastResult
<1> QED
  BY <1>6, <1>7, <1>8, <1>9, <1>10, <1>11, <1>12, <1>13, <1>14 DEF ChipInv

\* What a completed transfer has done, and which one may have failed.
LEMMA TransferDone ==
    ASSUME Guarded, TInv, ChipInv, I2cDone, setting' = setting
    PROVE  /\ RequestTypes' /\ OnlyWritesFail' /\ CompletionIsTrue' /\ KeyFollows'
           /\ \/ pbResult'["EDataPb"] = KErrNone /\ failed' = failed
              \/ /\ pbResult'["EDataPb"] = KErrGeneral
                 /\ failed' = failed \cup {CurrentPhaseReq[1]}
                 /\ Faults # {} /\ Action(CurrentPhaseReq) \in {"EWrite", "EClearSet"}
<1> DEFINE p == CurrentPhaseReq
           t == Head(i2c)
<1>1. /\ i2c # <<>> /\ pc[Dfc] = "out" /\ i2c' = Tail(i2c) /\ dfcQueued' = TRUE
      /\ pc' = pc /\ request' = request /\ value' = value /\ iResult' = iResult /\ held' = held
      /\ CurrentState' = CurrentState /\ CurrentPhaseReq' = p
      /\ TheProtectionUsageCount' = TheProtectionUsageCount
  BY DEF I2cDone, queueVars
<1>2. ~Resting /\ i2c' = <<>> /\ t.req = p /\ CurrentState # "EIdle" /\ p # <<>>
  <2>1. i2c = <<t>> /\ ~Resting
    BY <1>1 DEF TInv, OneActivity, Resting
  <2>2. CurrentState # "EIdle"
    BY <2>1 DEF TInv, IdleIsIdle
  <2>3. \A x : Tail(<<x>>) = <<>>
    OBVIOUS
  <2> QED
    BY <1>1, <2>1, <2>2, <2>3 DEF TInv, HeadIsCurrent
<1>3. p[1] \in Clients /\ p[2] \in 1..Len(request[p[1]]) /\ Phase(p) \in TReq
  BY <1>2, CurrentIs
<1>4. /\ pbResult["EAddressPb"] = KErrNone /\ pbResult["EDataPb"] = KErrNone
      /\ pbResult \in [{"EAddressPb", "EDataPb"} -> Results]
      /\ chip \in [reg : SUBSET Bits, key : {"locked", "half", "unlocked"}]
      /\ iReadValue[p[1]] \in [1..Len(request[p[1]]) -> SUBSET Bits]
      /\ Faults' = Faults /\ failed \subseteq Clients
  BY <1>1, <1>3 DEF ChipInv, OnlyWritesFail, RequestTypes, Faults
<1>5. \/ IsReading(p) /\ t.what = "read" /\ t.pb = "EAddressPb"
      \/ IsWriting(p) /\ t.what = "write" /\ t.data = Written(p) /\ t.pb = "EDataPb"
      \/ IsUnlocking(p) /\ t.what = "key0" /\ t.pb = "EDataPb"
      \/ /\ CurrentState = "EWriting" /\ t.pb = "EDataPb"
         /\ \/ t.what = "key1" /\ Action(p) = "EDisableProtect" /\ chip.key = "half"
            \/ t.what = "lock" /\ Action(p) = "ERestoreProtect"
  BY <1>1 DEF ChipInv, TransferIsPhase
<1>6. /\ IsReading(p)' <=> IsReading(p)
      /\ IsWriting(p)' <=> IsWriting(p)
      /\ IsUnlocking(p)' <=> IsUnlocking(p)
      /\ Action(p)' = Action(p)
      /\ iReadValue' = iReadValue => Written(p)' = Written(p)
  BY <1>1 DEF IsReading, IsWriting, IsUnlocking, Written, Action, Phase
<1>7. ~Locks' /\ (Unlocks' <=> CurrentState = "EUnprotectPhase0")
  BY <1>1, <1>2 DEF Locks, Unlocks
<1>8. CASE /\ pbResult' = [pbResult EXCEPT ![t.pb] = KErrNone] /\ chip' = ChipAfter(t)
           /\ iReadValue' = IF t.what # "read" THEN iReadValue
                 ELSE [iReadValue EXCEPT ![t.req[1]][t.req[2]] = chip.reg]
           /\ failed' = failed
  <2>1. /\ pbResult'["EAddressPb"] = KErrNone /\ pbResult'["EDataPb"] = KErrNone
        /\ pbResult' \in [{"EAddressPb", "EDataPb"} -> Results]
    BY <1>4, <1>5, <1>8 DEF Results
  <2>2. CASE IsReading(p) /\ t.what = "read"
    <3>1. /\ chip' = chip /\ iReadValue' = [iReadValue EXCEPT ![p[1]][p[2]] = chip.reg]
      BY <1>2, <1>8, <2>2 DEF ChipAfter
    <3>2. iReadValue'[p[1]][p[2]] = chip.reg
      BY <1>3, <1>4, <3>1 DEF ChipInv, RequestTypes
    <3>3. CompletionIsTrue'
      BY <1>1, <1>6, <2>1, <2>2, <3>1, <3>2 DEF CompletionIsTrue
    <3>4. RequestTypes'
      <4>1. \A c \in Clients : iReadValue'[c] \in [1..Len(request[c]) -> SUBSET Bits]
        BY <1>3, <1>4, <3>1 DEF ChipInv, RequestTypes
      <4> QED
        BY <1>1, <1>8, <2>1, <3>1, <4>1 DEF ChipInv, RequestTypes, Requests
    <3>5. KeyFollows'
      BY <1>1, <1>7, <2>2, <3>1 DEF ChipInv, KeyFollows, Unlocks, Locks, IsReading
    <3> QED
      BY <1>2, <1>4, <1>8, <2>1, <3>3, <3>4, <3>5 DEF OnlyWritesFail, ChipInv
  <2>3. CASE t.what # "read"
    <3>1. iReadValue' = iReadValue /\ t.what \in {"write", "key0", "key1", "lock"}
      BY <1>5, <1>8, <2>3
    <3>2. /\ t.what = "write" => chip' = [chip EXCEPT !.reg = t.data]
          /\ t.what = "key0" => chip' = [chip EXCEPT !.key = "half"]
          /\ t.what = "key1" => chip' = [chip EXCEPT !.key = IF @ = "half" THEN "unlocked" ELSE @]
          /\ t.what = "lock" => chip' = [chip EXCEPT !.key = "locked"]
      BY <1>8, <3>1 DEF ChipAfter
    <3>3. Written(p) \in SUBSET Bits
      BY <1>3, <1>4 DEF Written, TReq
    <3>4. /\ t.what = "write" => chip'.reg = Written(p) /\ chip'.key = chip.key
          /\ t.what = "key0" => chip'.key = "half" /\ chip'.reg = chip.reg
          /\ t.what = "key1" => chip'.key = "unlocked" /\ chip'.reg = chip.reg
          /\ t.what = "lock" => chip'.key = "locked" /\ chip'.reg = chip.reg
          /\ chip' \in [reg : SUBSET Bits, key : {"locked", "half", "unlocked"}]
      BY <1>4, <1>5, <3>1, <3>2, <3>3
    <3>5. CompletionIsTrue'
      BY <1>1, <1>5, <1>6, <2>1, <2>3, <3>1, <3>4 DEF CompletionIsTrue, Register
    <3>6. RequestTypes'
      BY <1>1, <1>8, <2>1, <3>1, <3>4 DEF ChipInv, RequestTypes, Requests
    <3>7. KeyFollows'
      BY <1>1, <1>5, <1>7, <2>3, <3>4
         DEF ChipInv, KeyFollows, Unlocks, Locks, IsWriting, IsUnlocking
    <3> QED
      BY <1>2, <1>4, <1>8, <2>1, <3>5, <3>6, <3>7 DEF OnlyWritesFail, ChipInv
  <2> QED
    BY <1>5, <2>2, <2>3
<1>9. CASE /\ Fault(t.what) \in Faults
           /\ pbResult' = [pbResult EXCEPT ![t.pb] = KErrGeneral]
           /\ failed' = failed \cup {t.req[1]} /\ chip' = chip /\ iReadValue' = iReadValue
  <2>1. Faults # {} /\ t.what = "write" /\ IsWriting(p) /\ t.pb = "EDataPb"
    <3>1. Fault(t.what) = "write"
      BY <1>9, WritesFail
    <3>2. t.what = "write"
      BY <1>5, <3>1 DEF Fault
    <3> QED
      BY <1>5, <1>9, <3>2
  <2>2. /\ pbResult'["EAddressPb"] = KErrNone /\ pbResult'["EDataPb"] = KErrGeneral
        /\ pbResult' \in [{"EAddressPb", "EDataPb"} -> Results]
    BY <1>4, <1>9, <2>1 DEF Results
  <2>3. CompletionIsTrue'
    BY <1>1, <1>6, <2>1, <2>2 DEF CompletionIsTrue, KErrGeneral, KErrNone
  <2>4. RequestTypes'
    BY <1>1, <1>2, <1>3, <1>4, <1>9, <2>2 DEF ChipInv, RequestTypes, Requests
  <2>5. KeyFollows'
    BY <1>1, <1>7, <1>9, <2>1 DEF ChipInv, KeyFollows, Unlocks, Locks, IsWriting
  <2> QED
    BY <1>2, <1>4, <1>9, <2>1, <2>2, <2>3, <2>4, <2>5 DEF OnlyWritesFail, IsWriting
<1> QED
  BY <1>8, <1>9 DEF I2cDone

\* I2cDone keeps the invariant of the chip.
LEMMA I2cDoneIsTrue ==
    ASSUME Guarded, TInv, ChipInv, I2cDone, setting' = setting
    PROVE  ChipInv'
<1>1. /\ i2c # <<>> /\ pc[Dfc] = "out" /\ i2c' = Tail(i2c) /\ dfcQueued' = TRUE
      /\ pc' = pc /\ request' = request /\ value' = value /\ iResult' = iResult /\ held' = held
      /\ signals' = signals /\ finished' = finished /\ TheQueue' = TheQueue
      /\ CurrentState' = CurrentState /\ CurrentPhaseReq' = CurrentPhaseReq
      /\ PreviousPhaseReq' = PreviousPhaseReq
      /\ TheProtectionUsageCount' = TheProtectionUsageCount
  BY DEF I2cDone, queueVars
<1>2. ~Resting /\ ~Resting' /\ i2c' = <<>>
  <2>1. i2c = <<Head(i2c)>>
    BY <1>1 DEF TInv, OneActivity
  <2>2. \A x : Tail(<<x>>) = <<>>
    OBVIOUS
  <2> QED
    BY <1>1, <2>1, <2>2 DEF Resting
<1>3. CurrentPhaseReq # <<>> /\ CurrentState # "EIdle" /\ \A u \in Threads : pc[u] \in Aside
  BY <1>1, <1>2, DfcFinds
<1>4. RequestTypes' /\ OnlyWritesFail' /\ CompletionIsTrue' /\ KeyFollows'
  BY TransferDone
<1>5. BegunStays
  BY <1>1, <1>2, <1>3, UnderWay
<1>6. CountIsTokens'
  BY <1>5, BegunKeeps
<1>7. PhasesExist'
  <2>1. \A u \in Threads : pc[u] \notin {"pending", "loop"}
    BY <1>3 DEF Aside, AtRest
  <2> QED
    BY <1>1, <2>1 DEF ChipInv, PhasesExist, InHand, IsLast, Valid
<1>8. TransferIsPhase' /\ FinishIsTrue'
  BY <1>1, <1>2 DEF TransferIsPhase, FinishIsTrue
<1>9. ValuesWait'
  BY <1>1, <1>5 DEF ChipInv, ValuesWait, BegunStays
<1>10. CleanResults'
  BY <1>1 DEF ChipInv, CleanResults, InHand, Faults, LastResult
<1> QED
  BY <1>4, <1>6, <1>7, <1>8, <1>9, <1>10 DEF ChipInv

\* DfcNotify keeps the invariant of the chip.
LEMMA DfcNotifyIsTrue ==
    ASSUME Guarded, TInv, ChipInv, DfcNotify, setting' = setting
    PROVE  ChipInv'
<1> DEFINE p == finished.req
<1>1. /\ pc[Dfc] = "notify" /\ Dfc \in Threads
      /\ pc' = [pc EXCEPT ![Dfc] = "out"]
      /\ iResult' = [iResult EXCEPT ![p[1]][p[2]] = finished.result]
      /\ signals' = [signals EXCEPT ![p[1]] = @ + 1] /\ finished' = <<>>
      /\ request' = request /\ value' = value /\ iReadValue' = iReadValue
      /\ TheQueue' = TheQueue /\ CurrentState' = CurrentState
      /\ CurrentPhaseReq' = CurrentPhaseReq /\ PreviousPhaseReq' = PreviousPhaseReq
      /\ TheProtectionUsageCount' = TheProtectionUsageCount
      /\ pbResult' = pbResult /\ i2c' = i2c /\ chip' = chip /\ failed' = failed
      /\ dfcQueued' = dfcQueued /\ held' = held
  BY DEF DfcNotify, queueVars, busVars, Threads
<1>2. IsLast(p) /\ finished.result \in Results
  BY <1>1 DEF ChipInv, PhasesExist, InHand
<1>3. p[1] \in Clients /\ pc[p[1]] # "ready" /\ signals[p[1]] = 0
  BY <1>1 DEF TInv, FinishedOnce, Finishing
<1>4. pc'[Dfc] = "out" /\ \A u \in Threads : u # Dfc => pc'[u] = pc[u]
  BY <1>1 DEF TInv, Types
<1>15. \A u \in Threads : /\ pc'[u] = "pending" <=> pc[u] = "pending"
                          /\ pc'[u] = "loop" <=> pc[u] = "loop"
  BY <1>1, <1>4
<1>5. \A c \in Clients : c \in Threads /\ c # Dfc
  BY ConstAssumption DEF Threads
<1>6. p[2] \in 1..Len(request[p[1]]) /\ p[2] = Len(request[p[1]])
  <2>1. Len(request[p[1]]) \in Nat
    BY <1>3, Chains DEF ChipInv
  <2> QED
    BY <1>2, <2>1 DEF IsLast, Valid
<1>7. BegunStays
  BY <1>1, <1>4, <1>5, <1>15 DEF BegunStays, Begun, Resting
<1>8. CountIsTokens'
  BY <1>7, BegunKeeps
<1>9. RequestTypes'
  <2>1. \A c \in Clients : iResult'[c] \in [1..Len(request[c]) -> Results \cup {"unset"}]
    BY <1>1, <1>2, <1>3, <1>6 DEF ChipInv, RequestTypes
  <2>2. \A c \in Clients : pc'[c] # "ready" => pc[c] # "ready"
    BY <1>4, <1>5
  <2> QED
    BY <1>1, <2>1, <2>2 DEF ChipInv, RequestTypes, Requests
<1>10. PhasesExist'
  <2>1. ~InHand'
    BY <1>4 DEF InHand
  <2> QED
    BY <1>1, <1>15, <2>1 DEF ChipInv, PhasesExist, Valid, IsLast, Action, Phase
<1>11. OnlyWritesFail' /\ KeyFollows'
  BY <1>1 DEF ChipInv, OnlyWritesFail, Faults, KeyFollows, Unlocks, Locks
<1>12. TransferIsPhase' /\ CompletionIsTrue' /\ FinishIsTrue'
  BY <1>1, <1>4 DEF ChipInv, TransferIsPhase, CompletionIsTrue, FinishIsTrue, IsReading, IsWriting,
     IsUnlocking, Written, Action, Phase
<1>13. ValuesWait'
  BY <1>1, <1>7 DEF ChipInv, ValuesWait, BegunStays
<1>14. CleanResults'
  <2>1. ~InHand' /\ InHand /\ Faults' = Faults
    BY <1>1, <1>4 DEF InHand, Faults
  <2>2. ASSUME NEW c \in Clients, signals'[c] = 1, Faults = {} PROVE LastResult(c)' = KErrNone
    <3>1. CASE c = p[1]
      <4>1. LastResult(c)' = finished.result
        BY <1>1, <1>3, <1>6, <3>1 DEF LastResult, ChipInv, RequestTypes
      <4> QED
        BY <2>1, <2>2, <4>1 DEF ChipInv, CleanResults
    <3>2. CASE c # p[1]
      <4>1. LastResult(c)' = LastResult(c) /\ signals[c] = 1
        BY <1>1, <2>2, <3>2 DEF LastResult, TInv, Types
      <4> QED
        BY <2>2, <4>1 DEF ChipInv, CleanResults
    <3> QED
      BY <3>1, <3>2
  <2> QED
    BY <2>1, <2>2 DEF CleanResults
<1> QED
  BY <1>8, <1>9, <1>10, <1>11, <1>12, <1>13, <1>14 DEF ChipInv

\* The state in which a client submits a request.
LEMMA ExecAsyncFinds ==
    ASSUME Guarded, TInv, ChipInv, NEW c \in Clients, NEW r \in Requests,
           ExecAsync(c, r), setting' = setting
    PROVE  /\ c \in Threads /\ c # Dfc /\ Dfc \in Threads /\ \A d \in Clients : d \in Threads /\ d # Dfc
           /\ pc[c] = "ready" /\ pc'[c] = "added"
           /\ \A u \in Threads : u # c => pc'[u] = pc[u]
           /\ signals[c] = 0 /\ ~InQueue(TheQueue, c)
           /\ \A d : InQueue(TheQueue', d) <=> InQueue(TheQueue, d) \/ d = c
           /\ TheQueue # <<>> => Head(TheQueue') = Head(TheQueue) /\ c # Head(TheQueue)
           /\ pc[Dfc] = "idle" => TheQueue # <<>>
           /\ CurrentPhaseReq # <<>> => CurrentPhaseReq[1] \in Clients /\ CurrentPhaseReq[1] # c
           /\ \A u \in Threads : pc[u] = "loop" /\ CurrentPhaseReq = <<>> =>
                 TheQueue # <<>> /\ PreviousPhaseReq[1] # c
           /\ CurrentPhaseReq # <<>> => TheQueue # <<>>
           /\ InHand => finished.req[1] # c
<1>1. /\ TheQueue' = Append(TheQueue, c) /\ pc' = [pc EXCEPT ![c] = "added"]
      /\ pc[c] = "ready" /\ TheQueue \in Seq(Clients)
  BY DEF ExecAsync, Added, TInv, Types
<1>2. c \in Threads /\ c # Dfc /\ Dfc \in Threads /\ \A d \in Clients : d \in Threads /\ d # Dfc
  BY ConstAssumption DEF Threads
<1>3. signals[c] = 0 /\ ~InQueue(TheQueue, c)
  BY <1>1 DEF TInv, QueuedOnce
<1>4. /\ TheQueue # <<>> => Head(TheQueue') = Head(TheQueue)
      /\ \A d : InQueue(TheQueue', d) <=> InQueue(TheQueue, d) \/ d = c
  BY <1>1, <1>3, Appended DEF TInv, QueuedOnce
<1>5. pc'[c] = "added" /\ \A u \in Threads : u # c => pc'[u] = pc[u]
  BY <1>1, <1>2 DEF TInv, Types
<1>6. TheQueue # <<>> => c # Head(TheQueue)
  BY <1>3, HeadWaits
<1>7. /\ CurrentPhaseReq # <<>> => CurrentPhaseReq[1] \in Clients /\ CurrentPhaseReq[1] # c
      /\ CurrentPhaseReq # <<>> => TheQueue # <<>>
  BY <1>3, CurrentIs
<1>8. ASSUME NEW u \in Threads, pc[u] = "loop", CurrentPhaseReq = <<>>
      PROVE  TheQueue # <<>> /\ PreviousPhaseReq[1] # c
  <2>1. IsHead(PreviousPhaseReq)
    BY <1>8, Pending DEF TInv, HeadIsCurrent
  <2> QED
    BY <1>6, <2>1 DEF IsHead
<1>9. InHand => finished.req[1] # c
  BY <1>1 DEF TInv, FinishedOnce, Finishing, InHand
<1>10. pc[Dfc] = "idle" => TheQueue # <<>>
  BY DEF TInv, IdleIsIdle
<1> QED
  BY <1>1, <1>2, <1>3, <1>4, <1>5, <1>6, <1>7, <1>8, <1>9, <1>10

\* A request that restores what its client holds takes one unit over from it.
LEMMA ExecAsyncCounts ==
    ASSUME Guarded, TInv, ChipInv, NEW c \in Clients, NEW r \in Requests,
           ExecAsync(c, r), setting' = setting
    PROVE  /\ CountIsTokens' /\ held' \in [Clients -> Nat] /\ Begun(c)' = 0
           /\ \A d \in Clients : d # c => Begun(d)' = Begun(d)
<1>1. /\ request' = [request EXCEPT ![c] = r] /\ CurrentState' = CurrentState
      /\ CurrentPhaseReq' = CurrentPhaseReq /\ i2c' = i2c /\ dfcQueued' = dfcQueued
      /\ TheProtectionUsageCount' = TheProtectionUsageCount
      /\ held' = [held EXCEPT ![c] = IF Restores(r) /\ ~Disables(r) THEN @ - 1 ELSE @]
      /\ Restores(r) => Disables(r) \/ held[c] > 0
  BY DEF ExecAsync
<1>2. /\ c \in Threads /\ c # Dfc /\ Dfc \in Threads /\ \A d \in Clients : d \in Threads /\ d # Dfc
      /\ pc[c] = "ready" /\ pc'[c] = "added"
      /\ \A u \in Threads : u # c => pc'[u] = pc[u]
      /\ signals[c] = 0 /\ ~InQueue(TheQueue, c)
      /\ \A d : InQueue(TheQueue', d) <=> InQueue(TheQueue, d) \/ d = c
      /\ TheQueue # <<>> => Head(TheQueue') = Head(TheQueue) /\ c # Head(TheQueue)
      /\ pc[Dfc] = "idle" => TheQueue # <<>>
      /\ \A u \in Threads : pc[u] = "loop" /\ CurrentPhaseReq = <<>> => TheQueue # <<>>
      /\ CurrentPhaseReq # <<>> => TheQueue # <<>>
  BY ExecAsyncFinds
<1>12. /\ (\E u \in Threads : pc'[u] = "loop") <=> (\E u \in Threads : pc[u] = "loop")
       /\ pc'[Dfc] = pc[Dfc]
  BY <1>2
<1>3. request \in [Clients -> Requests \cup {<<>>}] /\ held \in [Clients -> Nat]
  BY DEF ChipInv, RequestTypes
<1>4. request'[c] = r /\ \A d \in Clients : d # c => request'[d] = request[d]
  BY <1>1, <1>3
<1>5. Begun(c)' = 0
  BY <1>1, <1>2, <1>12 DEF Begun
<1>6. ASSUME NEW d \in Clients, d # c PROVE Begun(d)' = Begun(d)
  <2>1. InQueue(TheQueue, d) => TheQueue # <<>>
    <3>1. \A i \in 1..Len(<<>>) : FALSE
      OBVIOUS
    <3> QED
      BY <3>1 DEF InQueue
  <2> QED
    BY <1>1, <1>2, <1>4, <1>6, <1>12, <2>1 DEF Begun, Resting
<1>7. ASSUME NEW d \in Clients, d # c PROVE Owing(d)' <=> Owing(d)
  BY <1>2, <1>4, <1>6, <1>7 DEF Owing
<1>8. ~Owing(c) /\ (Owing(c)' <=> Restores(r) /\ ~Disables(r))
  <2>1. r \in setting.requests /\ setting \in Settings
    BY DEF Requests, TInv, Types
  <2>2. r \in Seq(TReq)
    BY <2>1, ConstAssumption
  <2>3. Balanced(r)
    <3>1. CASE \A k \in 1..Len(r) : r[k].iAction \in Register
      BY <3>1 DEF Balanced, Register
    <3> QED
      BY <2>1, <3>1 DEF Guarded
  <2> QED
    BY <1>2, <1>4, <1>5, <2>2, <2>3, OwesEnds DEF Owing
<1>9. CountIsTokens
  BY DEF ChipInv
<1>10. CASE Restores(r) /\ ~Disables(r)
  <2> DEFINE n == held[c]
             x == <<c, n>>
             y == <<c, 0>>
  <2>1. n \in Nat /\ n > 0 /\ held' = [held EXCEPT ![c] = n - 1] /\ n - 1 \in Nat
    BY <1>1, <1>3, <1>10
  <2>2. held' \in [Clients -> Nat] /\ held'[c] = n - 1 /\ \A d \in Clients : d # c => held'[d] = held[d]
    BY <1>3, <2>1
  <2>3. x \in Clients \X Nat /\ y \in Clients \X Nat /\ x[1] = c /\ x[2] = n /\ y[1] = c /\ y[2] = 0
    BY <2>1
  <2>4. x \in Tokens /\ y \notin Tokens /\ y \in Tokens' /\ x \notin Tokens'
    BY <1>8, <1>10, <2>1, <2>2, <2>3 DEF Tokens
  <2>5. ASSUME NEW z \in Clients \X Nat, z # x, z # y PROVE z \in Tokens' <=> z \in Tokens
    <3>1. z = <<z[1], z[2]>> /\ z[1] \in Clients /\ z[2] \in Nat
      OBVIOUS
    <3>2. CASE z[1] # c
      BY <1>7, <2>2, <3>1, <3>2 DEF Tokens
    <3>3. CASE z[1] = c
      <4>1. z[2] # n /\ z[2] # 0
        BY <2>5, <3>1, <3>3
      <4>2. z[2] <= n <=> z[2] <= n - 1
        BY <2>1, <3>1, <4>1
      <4> QED
        BY <2>2, <3>3, <4>1, <4>2 DEF Tokens
    <3> QED
      BY <3>2, <3>3
  <2>6. Tokens \subseteq Clients \X Nat /\ Tokens' \subseteq Clients \X Nat
    BY DEF Tokens
  <2> HIDE DEF x, y
  <2>7. Tokens' = (Tokens \ {x}) \cup {y}
    BY <2>3, <2>4, <2>5, <2>6
  <2>8. CountIsTokens'
    BY <1>1, <1>9, <2>4, <2>7, TokenPasses
  <2> QED
    BY <1>5, <1>6, <2>2, <2>8
<1>11. CASE ~(Restores(r) /\ ~Disables(r))
  <2>1. held' = held
    BY <1>1, <1>3, <1>11
  <2>2. \A d \in Clients : Owing(d)' <=> Owing(d)
    BY <1>7, <1>8, <1>11
  <2>3. CountIsTokens'
    BY <1>1, <1>9, <2>1, <2>2, TokensStay
  <2> QED
    BY <1>3, <1>5, <1>6, <2>1, <2>3
<1> QED
  BY <1>10, <1>11

\* ExecAsync keeps the invariant of the chip.
LEMMA ExecAsyncIsTrue ==
    ASSUME Guarded, TInv, ChipInv, NEW c \in Clients, NEW r \in Requests,
           ExecAsync(c, r), setting' = setting
    PROVE  ChipInv'
<1> DEFINE p == CurrentPhaseReq
<1>1. /\ request' = [request EXCEPT ![c] = r]
      /\ value' = [value EXCEPT ![c] = [k \in 1..Len(r) |-> r[k].value]]
      /\ iReadValue' = [iReadValue EXCEPT ![c] = [k \in 1..Len(r) |-> {}]]
      /\ iResult' = [iResult EXCEPT ![c] = [k \in 1..Len(r) |-> "unset"]]
      /\ failed' = failed \ {c} /\ signals' = signals /\ CurrentState' = CurrentState
      /\ CurrentPhaseReq' = p /\ PreviousPhaseReq' = PreviousPhaseReq
      /\ TheProtectionUsageCount' = TheProtectionUsageCount
      /\ pbResult' = pbResult /\ i2c' = i2c /\ chip' = chip
      /\ dfcQueued' = dfcQueued /\ finished' = finished
  BY DEF ExecAsync
<1>2. /\ c \in Threads /\ c # Dfc /\ Dfc \in Threads /\ \A d \in Clients : d \in Threads /\ d # Dfc
      /\ pc[c] = "ready" /\ pc'[c] = "added"
      /\ \A u \in Threads : u # c => pc'[u] = pc[u]
      /\ signals[c] = 0
      /\ p # <<>> => p[1] \in Clients /\ p[1] # c
      /\ \A u \in Threads : pc[u] = "loop" /\ p = <<>> => PreviousPhaseReq[1] # c
      /\ InHand => finished.req[1] # c
  BY ExecAsyncFinds
<1>14. /\ pc'[Dfc] = pc[Dfc] /\ (InHand' <=> InHand)
       /\ \A u \in Threads : pc'[u] \in {"pending", "loop"} => pc'[u] = pc[u]
  BY <1>1, <1>2 DEF InHand
<1>3. /\ CountIsTokens' /\ held' \in [Clients -> Nat] /\ Begun(c)' = 0
      /\ \A d \in Clients : d # c => Begun(d)' = Begun(d)
  BY ExecAsyncCounts
<1>4. r \in Seq(TReq)
  <2>1. r \in setting.requests /\ setting \in Settings
    BY DEF Requests, TInv, Types
  <2> QED
    BY <2>1, ConstAssumption
<1>5. /\ \A d \in Clients : d # c => /\ request'[d] = request[d] /\ value'[d] = value[d]
                                     /\ iReadValue'[d] = iReadValue[d] /\ iResult'[d] = iResult[d]
      /\ \A d \in Clients : d # c => pc'[d] = pc[d]
  BY <1>1, <1>2
<1>6. /\ request' \in [Clients -> Requests \cup {<<>>}] /\ request'[c] = r
  BY <1>1 DEF ChipInv, RequestTypes
<1>7. RequestTypes'
  <2>1. \A k \in 1..Len(r) : r[k].value \in SUBSET Bits
    <3>1. \A k \in 1..Len(r) : r[k] \in TReq
      BY <1>4
    <3> QED
      BY <3>1 DEF TReq
  <2>2. /\ DOMAIN value' = Clients /\ DOMAIN iReadValue' = Clients
        /\ DOMAIN iResult' = Clients
    BY <1>1 DEF ChipInv, RequestTypes
  <2>3. ASSUME NEW d \in Clients
        PROVE  /\ value'[d] \in [1..Len(request'[d]) -> SUBSET Bits]
               /\ iReadValue'[d] \in [1..Len(request'[d]) -> SUBSET Bits]
               /\ iResult'[d] \in [1..Len(request'[d]) -> Results \cup {"unset"}]
    <3>1. CASE d # c
      BY <1>5, <3>1 DEF ChipInv, RequestTypes
    <3>2. CASE d = c
      BY <1>1, <1>6, <2>1, <3>2 DEF ChipInv, RequestTypes
    <3> QED
      BY <3>1, <3>2
  <2>4. \A d \in Clients : pc'[d] # "ready" => request'[d] \in Requests
    BY <1>5, <1>6 DEF ChipInv, RequestTypes
  <2> QED
    BY <1>1, <1>3, <1>6, <2>2, <2>3, <2>4 DEF ChipInv, RequestTypes, Requests
<1>8. PhasesExist'
  <2>1. \A x : Valid(x) /\ x[1] # c => Valid(x)' /\ Action(x)' = Action(x)
    BY <1>1, <1>5 DEF Valid, Action, Phase
  <2>2. \A x : IsLast(x) /\ x[1] # c => IsLast(x)' /\ Action(x)' = Action(x)
    BY <1>1, <1>5, <2>1 DEF IsLast, Valid
  <2>3. p # <<>> => Valid(p)'
    BY <1>1, <1>2, <2>1 DEF ChipInv, PhasesExist
  <2>4. InHand' => IsLast(finished.req)' /\ finished'.result \in Results
    BY <1>1, <1>2, <1>14, <2>2 DEF ChipInv, PhasesExist
  <2>5. ASSUME NEW u \in Threads, pc'[u] = "loop", p = <<>>
        PROVE  IsLast(PreviousPhaseReq)' /\ Action(PreviousPhaseReq)' \notin Register
    BY <1>1, <1>2, <1>14, <2>2, <2>5 DEF ChipInv, PhasesExist
  <2>6. \A u \in Threads : pc'[u] \in {"pending", "loop"} => CurrentState' = "EPending"
    BY <1>1, <1>14 DEF ChipInv, PhasesExist
  <2> QED
    BY <1>1, <2>3, <2>4, <2>5, <2>6 DEF PhasesExist
<1>9. OnlyWritesFail' /\ KeyFollows'
  BY <1>1 DEF ChipInv, OnlyWritesFail, Faults, KeyFollows, Unlocks, Locks
<1>10. TransferIsPhase' /\ CompletionIsTrue'
  <2>1. CASE Resting
    BY <1>1, <2>1 DEF Resting, TransferIsPhase, CompletionIsTrue
  <2>2. CASE ~Resting
    <3>1. p # <<>>
      BY <2>2 DEF TInv, IdleIsIdle, HeadIsCurrent
    <3>2. /\ request'[p[1]] = request[p[1]] /\ value'[p[1]] = value[p[1]]
          /\ iReadValue'[p[1]] = iReadValue[p[1]]
      BY <1>2, <1>5, <3>1
    <3> QED
      BY <1>1, <3>2 DEF ChipInv, TransferIsPhase, CompletionIsTrue, IsReading, IsWriting,
         IsUnlocking, Written, Action, Phase
  <2> QED
    BY <2>1, <2>2
<1>11. FinishIsTrue'
  <2> DEFINE x == finished.req
  <2> SUFFICES ASSUME pc[Dfc] = "idle", finished.result = KErrNone
               PROVE  /\ Action(x)' = "ERead" => iReadValue'[x[1]][x[2]] = chip.reg
                      /\ Action(x)' \in {"EWrite", "EClearSet"} => chip.reg = Written(x)'
    BY <1>1, <1>14 DEF FinishIsTrue
  <2>1. InHand
    BY DEF InHand
  <2>2. x[1] # c /\ x[1] \in Clients
    BY <1>2, <2>1 DEF ChipInv, PhasesExist, IsLast, Valid
  <2>3. /\ Action(x)' = Action(x) /\ Written(x)' = Written(x)
        /\ iReadValue'[x[1]] = iReadValue[x[1]]
    BY <1>1, <1>5, <2>2 DEF Action, Written, Phase
  <2> QED
    BY <2>3 DEF ChipInv, FinishIsTrue
<1>12. ValuesWait'
  <2> SUFFICES ASSUME NEW d \in Clients, pc'[d] # "ready", NEW k \in 1..Len(request'[d]), k > Begun(d)'
               PROVE  value'[d][k] = request'[d][k].value
    BY DEF ValuesWait
  <2>1. CASE d = c
    BY <1>1, <1>6, <2>1 DEF ChipInv, RequestTypes
  <2>2. CASE d # c
    BY <1>3, <1>5, <2>2 DEF ChipInv, ValuesWait
  <2> QED
    BY <2>1, <2>2
<1>13. CleanResults'
  <2>1. (InHand' <=> InHand) /\ Faults' = Faults
    BY <1>14 DEF Faults
  <2>2. \A d \in Clients : signals'[d] = 1 => LastResult(d)' = LastResult(d)
    BY <1>1, <1>2, <1>5 DEF LastResult
  <2> QED
    BY <1>1, <2>1, <2>2 DEF ChipInv, CleanResults
<1> QED
  BY <1>3, <1>7, <1>8, <1>9, <1>10, <1>11, <1>12, <1>13 DEF ChipInv

\* A client that has its request back holds what the request still owes.
LEMMA ReturnCounts ==
    ASSUME Guarded, TInv, ChipInv, NEW c \in Clients, Return(c), setting' = setting
    PROVE  /\ CountIsTokens' /\ held' \in [Clients -> Nat]
           /\ \A d \in Clients : d # c => Begun(d)' = Begun(d) /\ pc'[d] = pc[d]
           /\ pc'[c] = "ready" /\ signals'[c] = 0
           /\ \A u \in Threads : u # c => pc'[u] = pc[u]
<1> DEFINE r == request[c]
           n == held[c]
           Keeps == Disables(r) /\ ~Restores(r)
<1>1. /\ pc[c] = "waiting" /\ signals[c] > 0 /\ pc' = [pc EXCEPT ![c] = "ready"]
      /\ signals' = [signals EXCEPT ![c] = @ - 1]
      /\ held' = [held EXCEPT ![c] =
             IF Disables(r) /\ ~Restores(r) /\ LastResult(c) = KErrNone THEN @ + 1 ELSE @]
      /\ request' = request /\ TheQueue' = TheQueue /\ CurrentState' = CurrentState
      /\ CurrentPhaseReq' = CurrentPhaseReq /\ i2c' = i2c /\ dfcQueued' = dfcQueued
      /\ TheProtectionUsageCount' = TheProtectionUsageCount
  BY DEF Return, queueVars, busVars
<1>2. c \in Threads /\ c # Dfc /\ Dfc \in Threads /\ \A d \in Clients : d \in Threads /\ d # Dfc
  BY ConstAssumption DEF Threads
<1>3. pc'[c] = "ready" /\ \A u \in Threads : u # c => pc'[u] = pc[u]
  BY <1>1, <1>2 DEF TInv, Types
<1>4. signals[c] = 1 /\ signals'[c] = 0 /\ ~InQueue(TheQueue, c)
  BY <1>1 DEF TInv, Types, QueuedOnce
<1>5. \A d \in Clients : d # c => Begun(d)' = Begun(d) /\ pc'[d] = pc[d]
  <2>1. (\E u \in Threads : pc'[u] = "loop") <=> (\E u \in Threads : pc[u] = "loop")
    BY <1>1, <1>2, <1>3
  <2> QED
    BY <1>1, <1>2, <1>3, <2>1 DEF Begun, Resting
<1>6. ASSUME NEW d \in Clients, d # c PROVE Owing(d)' <=> Owing(d)
  BY <1>1, <1>5, <1>6 DEF Owing
<1>7. r \in Seq(TReq) /\ Balanced(r) /\ (Faults = {} \/ \A k \in 1..Len(r) : r[k].iAction \in Register)
  BY <1>1, Chains DEF ChipInv
<1>8. ~Owing(c)' /\ (Owing(c) <=> Keeps)
  <2>1. Begun(c) = Len(r)
    BY <1>4 DEF Begun
  <2> QED
    BY <1>1, <1>3, <1>7, <2>1, OwesEnds DEF Owing
<1>9. Keeps => LastResult(c) = KErrNone
  BY <1>4, <1>7 DEF ChipInv, CleanResults, Disables, Register
<1>10. held' = [held EXCEPT ![c] = IF Keeps THEN n + 1 ELSE n] /\ held \in [Clients -> Nat]
  BY <1>1, <1>9 DEF ChipInv, RequestTypes
<1>11. CountIsTokens
  BY DEF ChipInv
<1> HIDE DEF Keeps
<1>12. CASE Keeps
  <2> DEFINE x == <<c, 0>>
             y == <<c, n + 1>>
  <2>1. n \in Nat /\ n + 1 \in Nat /\ n + 1 # 0 /\ ~(n + 1 <= n)
    BY <1>10
  <2>2. held' \in [Clients -> Nat] /\ held'[c] = n + 1 /\ \A d \in Clients : d # c => held'[d] = held[d]
    BY <1>10, <1>12, <2>1
  <2>3. x \in Clients \X Nat /\ y \in Clients \X Nat /\ x[1] = c /\ x[2] = 0 /\ y[1] = c /\ y[2] = n + 1
    BY <2>1
  <2>4. x \in Tokens /\ y \notin Tokens /\ y \in Tokens' /\ x \notin Tokens'
    BY <1>8, <1>12, <2>1, <2>2, <2>3 DEF Tokens
  <2>5. ASSUME NEW z \in Clients \X Nat, z # x, z # y PROVE z \in Tokens' <=> z \in Tokens
    <3>1. z = <<z[1], z[2]>> /\ z[1] \in Clients /\ z[2] \in Nat
      OBVIOUS
    <3>2. CASE z[1] # c
      BY <1>6, <2>2, <3>1, <3>2 DEF Tokens
    <3>3. CASE z[1] = c
      <4>1. z[2] # n + 1 /\ z[2] # 0
        BY <2>5, <3>1, <3>3
      <4>2. z[2] <= n <=> z[2] <= n + 1
        BY <2>1, <3>1, <4>1
      <4> QED
        BY <2>2, <3>3, <4>1, <4>2 DEF Tokens
    <3> QED
      BY <3>2, <3>3
  <2>6. Tokens \subseteq Clients \X Nat /\ Tokens' \subseteq Clients \X Nat
    BY DEF Tokens
  <2> HIDE DEF x, y
  <2>7. Tokens' = (Tokens \ {x}) \cup {y}
    BY <2>3, <2>4, <2>5, <2>6
  <2>8. CountIsTokens'
    BY <1>1, <1>11, <2>4, <2>7, TokenPasses
  <2> QED
    BY <1>3, <1>4, <1>5, <2>2, <2>8
<1>13. CASE ~Keeps
  <2>1. held' = held
    BY <1>10, <1>13
  <2>2. \A d \in Clients : Owing(d)' <=> Owing(d)
    BY <1>6, <1>8, <1>13
  <2>3. CountIsTokens'
    BY <1>1, <1>11, <2>1, <2>2, TokensStay
  <2> QED
    BY <1>3, <1>4, <1>5, <1>10, <2>1, <2>3
<1> QED
  BY <1>12, <1>13

\* Return keeps the invariant of the chip.
LEMMA ReturnIsTrue ==
    ASSUME Guarded, TInv, ChipInv, NEW c \in Clients, Return(c), setting' = setting
    PROVE  ChipInv'
<1>1. /\ signals' = [signals EXCEPT ![c] = @ - 1] /\ pc[c] = "waiting"
      /\ request' = request /\ value' = value /\ iReadValue' = iReadValue /\ iResult' = iResult
      /\ TheQueue' = TheQueue /\ CurrentState' = CurrentState
      /\ CurrentPhaseReq' = CurrentPhaseReq /\ PreviousPhaseReq' = PreviousPhaseReq
      /\ TheProtectionUsageCount' = TheProtectionUsageCount
      /\ pbResult' = pbResult /\ i2c' = i2c /\ chip' = chip /\ failed' = failed
      /\ dfcQueued' = dfcQueued /\ finished' = finished
  BY DEF Return, queueVars, busVars
<1>2. /\ CountIsTokens' /\ held' \in [Clients -> Nat]
      /\ \A d \in Clients : d # c => Begun(d)' = Begun(d) /\ pc'[d] = pc[d]
      /\ pc'[c] = "ready" /\ signals'[c] = 0
      /\ \A u \in Threads : u # c => pc'[u] = pc[u]
  BY ReturnCounts
<1>3. c # Dfc /\ Dfc \in Threads /\ pc'[Dfc] = pc[Dfc]
  BY <1>2, ConstAssumption DEF Threads
<1>4. \A u \in Threads : pc'[u] \in {"pending", "loop"} => pc[u] = pc'[u]
  BY <1>2
<1>5. InHand' <=> InHand
  BY <1>1, <1>3 DEF InHand
<1>6. RequestTypes'
  BY <1>1, <1>2 DEF ChipInv, RequestTypes, Requests
<1>7. PhasesExist'
  BY <1>1, <1>4, <1>5 DEF ChipInv, PhasesExist, IsLast, Valid, Action, Phase
<1>8. OnlyWritesFail' /\ KeyFollows'
  BY <1>1 DEF ChipInv, OnlyWritesFail, Faults, KeyFollows, Unlocks, Locks
<1>9. TransferIsPhase' /\ CompletionIsTrue' /\ FinishIsTrue'
  BY <1>1, <1>3 DEF ChipInv, TransferIsPhase, CompletionIsTrue, FinishIsTrue, IsReading, IsWriting,
     IsUnlocking, Written, Action, Phase
<1>10. ValuesWait'
  BY <1>1, <1>2 DEF ChipInv, ValuesWait
<1>11. CleanResults'
  <2>1. \A d \in Clients : signals'[d] = 1 => signals[d] = 1
    BY <1>1, <1>2
  <2> QED
    BY <1>1, <1>5, <2>1 DEF ChipInv, CleanResults, Faults, LastResult
<1> QED
  BY <1>2, <1>6, <1>7, <1>8, <1>9, <1>10, <1>11 DEF ChipInv

-----------------------------------------------------------------------------
(* The second invariant, and what follows from it *)

\* At the start nothing is counted.
LEMMA ChipInitially == Init => ChipInv
<1> SUFFICES ASSUME Init PROVE ChipInv
  OBVIOUS
<1> USE DEF Init
<1>1. \A c \in Clients : c \in Threads /\ c # Dfc /\ pc[c] = "ready"
  BY ConstAssumption DEF Threads
<1>2. Dfc \in Threads /\ pc[Dfc] = "out" /\ \A u \in Threads : pc[u] \in {"ready", "out"}
  BY DEF Threads
<1>3. RequestTypes
  <2>1. /\ request \in [Clients -> Requests \cup {<<>>}] /\ held \in [Clients -> Nat]
        /\ \A c \in Clients : pc[c] # "ready" => request[c] \in Requests
    BY <1>1
  <2>2. ASSUME NEW c \in Clients
        PROVE  /\ value[c] \in [1..Len(request[c]) -> SUBSET Bits]
               /\ iReadValue[c] \in [1..Len(request[c]) -> SUBSET Bits]
               /\ iResult[c] \in [1..Len(request[c]) -> Results \cup {"unset"}]
    <3>1. request[c] = <<>> /\ value[c] = <<>> /\ iReadValue[c] = <<>> /\ iResult[c] = <<>>
      OBVIOUS
    <3>2. \A S : <<>> \in [1..0 -> S] /\ Len(<<>>) = 0
      OBVIOUS
    <3> QED
      BY <3>1, <3>2
  <2>3. /\ chip \in [reg : SUBSET Bits, key : {"locked", "half", "unlocked"}]
        /\ pbResult \in [{"EAddressPb", "EDataPb"} -> Results]
        /\ failed \subseteq Clients
    BY DEF Results
  <2> QED
    BY <2>1, <2>2, <2>3 DEF RequestTypes
<1>4. PhasesExist
  BY <1>2 DEF PhasesExist, InHand
<1>5. OnlyWritesFail /\ TransferIsPhase /\ CompletionIsTrue /\ FinishIsTrue
  BY <1>2 DEF OnlyWritesFail, TransferIsPhase, CompletionIsTrue, FinishIsTrue
<1>6. KeyFollows
  BY DEF KeyFollows, Unlocks, Locks
<1>7. CountIsTokens
  <2>1. \A c \in Clients : held[c] = 0 /\ ~Owing(c)
    BY <1>1 DEF Owing
  <2>2. Tokens = {}
    <3> SUFFICES ASSUME NEW x \in Clients \X Nat, x \in Tokens PROVE FALSE
      BY DEF Tokens
    <3>1. x[1] \in Clients /\ x[2] \in Nat
      OBVIOUS
    <3> QED
      BY <2>1, <3>1 DEF Tokens
  <2> QED
    BY <2>2, FS_EmptySet DEF CountIsTokens
<1>8. ValuesWait
  BY <1>1 DEF ValuesWait
<1>9. CleanResults
  BY <1>2 DEF CleanResults, InHand
<1> QED
  BY <1>3, <1>4, <1>5, <1>6, <1>7, <1>8, <1>9 DEF ChipInv

\* Every step keeps the second invariant.
LEMMA ChipStep == Guarded /\ TInv /\ ChipInv /\ [Next]_allVars /\ ~crossed' => ChipInv'
<1> SUFFICES ASSUME Guarded, TInv, ChipInv, [Next]_allVars, ~crossed' PROVE ChipInv'
  OBVIOUS
<1>5. UNCHANGED allVars \/ (Next /\ ~Crosses)
  BY NotCrossed
<1>0. Dfc \in Threads /\ \A c \in Clients : c \in Threads /\ c # Dfc
  BY ConstAssumption DEF Threads
<1>1. CASE UNCHANGED allVars
  <2>1. /\ QuietStep /\ pc' = pc /\ TheQueue' = TheQueue /\ CurrentState' = CurrentState
        /\ CurrentPhaseReq' = CurrentPhaseReq /\ PreviousPhaseReq' = PreviousPhaseReq
        /\ i2c' = i2c /\ dfcQueued' = dfcQueued /\ finished' = finished /\ request' = request
    BY <1>1 DEF allVars, vars, QuietStep, reqVars, queueVars, busVars
  <2>2. \A c \in Clients : Begun(c)' = Begun(c)
    BY <2>1 DEF Begun, Resting
  <2>3. RequestTypes' /\ OnlyWritesFail' /\ KeyFollows' /\ CountIsTokens' /\ ValuesWait'
    BY <2>1, <2>2, QuietKeeps
  <2>4. PhasesExist' /\ (InHand' <=> InHand)
    BY <2>1 DEF ChipInv, PhasesExist, InHand, Valid, IsLast, Action, Phase
  <2>5. TransferIsPhase' /\ CompletionIsTrue' /\ FinishIsTrue' /\ CleanResults'
    BY <2>1, <2>4, StaysTrue, CleanStays
  <2> QED
    BY <2>3, <2>4, <2>5 DEF ChipInv
<1>2. ASSUME NEW t \in Threads, StartSteps(t), setting' = setting
      PROVE  ChipInv'
  BY <1>2, SetPendingIsTrue, StartRequestIsTrue, StartPhaseIsTrue, SkipPhaseIsTrue,
     FakeCompletionIsTrue DEF StartSteps
<1>3. ASSUME NEW c \in Clients, setting' = setting, ~Crosses,
             (\E r \in Requests : ExecAsync(c, r)) \/ TestIdle(c) \/ StartSteps(c) \/ Return(c)
      PROVE  ChipInv'
  <2>1. CASE TestIdle(c)
    BY <1>0, <1>3, <2>1, TestIdleIsTrue DEF TestIdle, TestsIdle
  <2> QED
    BY <1>0, <1>2, <1>3, <2>1, ExecAsyncIsTrue, ReturnIsTrue
<1>4. ASSUME DfcSteps \/ I2cDone, setting' = setting, ~Crosses
      PROVE  ChipInv'
  <2>1. CASE DfcTestIdle
    BY <1>0, <1>4, <2>1, TestIdleIsTrue DEF DfcTestIdle, TestsIdle
  <2> QED
    BY <1>0, <1>2, <1>4, <2>1, DfcWriteBackIsTrue, DfcUnprotect1IsTrue, DfcNextPhaseIsTrue,
       DfcIdleIsTrue, DfcDequeIsTrue, DfcNotifyIsTrue, I2cDoneIsTrue DEF DfcSteps
<1> QED
  BY <1>1, <1>3, <1>4, <1>5 DEF Next

\* So it holds until threads cross.
LEMMA ChipInvariance ==
    ASSUME Guarded
    PROVE  Spec => [](crossed \/ (TInv /\ ChipInv))
<1>1. (crossed \/ (TInv /\ ChipInv)) /\ [Next]_allVars => (crossed \/ (TInv /\ ChipInv))'
  <2> SUFFICES ASSUME crossed \/ (TInv /\ ChipInv), [Next]_allVars, ~crossed'
               PROVE  TInv' /\ ChipInv'
    OBVIOUS
  <2>1. TInv /\ ChipInv
    BY NotCrossed
  <2> QED
    BY <2>1, TpsStep, ChipStep
<1> QED
  BY <1>1, TpsInitially, ChipInitially, PTL DEF Spec

\* A request that disables the protection for its client is counted when it ends.
LEMMA DisabledIsCounted ==
    ASSUME Guarded, TInv, ChipInv, pc[Dfc] = "idle",
           Action(finished.req) = "EDisableProtect"
    PROVE  TheProtectionUsageCount >= 1
<1> DEFINE p == finished.req
           c == p[1]
           r == request[c]
<1>1. IsLast(p) /\ c \in Clients /\ pc[c] # "ready" /\ c = Head(TheQueue)
  BY DEF ChipInv, PhasesExist, InHand, TInv, FinishedOnce, Finishing
<1>2. r \in Seq(TReq) /\ Balanced(r) /\ Len(r) \in Nat
  BY <1>1, Chains DEF ChipInv
<1>3. p[2] \in 1..Len(r) /\ p[2] = Len(r) /\ r[p[2]].iAction = "EDisableProtect"
  BY <1>1, <1>2 DEF IsLast, Valid, Action, Phase
<1>4. Disables(r) /\ ~Restores(r)
  BY <1>2, <1>3 DEF Disables, Restores, Balanced
<1>5. Begun(c) = Len(r)
  BY <1>1 DEF Begun
<1>6. Owing(c)
  BY <1>1, <1>2, <1>4, <1>5, OwesEnds DEF Owing
<1>7. <<c, 0>> \in Tokens
  BY <1>1, <1>6 DEF Tokens
<1> QED
  BY <1>7, Counts DEF ChipInv

\* A request that ends with KErrNone has had its effect on the chip, for any clients and
\* chains and wherever threads are preempted, until one crosses another, where writes may
\* fail unless the protection is changed.
THEOREM RequestsHaveEffect ==
    ASSUME Guarded
    PROVE  Spec => []DoneMeansDone
<1>1. crossed \/ (TInv /\ ChipInv) => DoneMeansDone
  <2> DEFINE p == finished.req
  <2> SUFFICES ASSUME TInv, ChipInv, pc[Dfc] = "idle", finished.result = KErrNone
               PROVE  CASE Phase(p).iAction = "ERead" -> iReadValue[p[1]][p[2]] = chip.reg
                        [] Phase(p).iAction = "EWrite" -> chip.reg = Phase(p).value
                        [] Phase(p).iAction = "EClearSet" ->
                              chip.reg = (iReadValue[p[1]][p[2]] \ Phase(p).iClearMask)
                                              \union Phase(p).value
                        [] Phase(p).iAction = "EDisableProtect" -> chip.key = "unlocked"
                        [] Phase(p).iAction = "ERestoreProtect" ->
                              TheProtectionUsageCount = 0 => chip.key = "locked"
    BY DEF DoneMeansDone
  <2>1. /\ Action(p) = "ERead" => iReadValue[p[1]][p[2]] = chip.reg
        /\ Action(p) \in {"EWrite", "EClearSet"} => chip.reg = Written(p)
    BY DEF ChipInv, FinishIsTrue
  <2>2. IsLast(p) /\ p[1] \in Clients /\ pc[p[1]] # "ready"
    BY DEF ChipInv, PhasesExist, InHand, TInv, FinishedOnce, Finishing
  <2>3. Phase(p) \in TReq
    <3>1. request[p[1]] \in Seq(TReq) /\ Len(request[p[1]]) \in Nat
      BY <2>2, Chains DEF ChipInv
    <3>2. p[2] \in 1..Len(request[p[1]])
      BY <2>2, <3>1 DEF IsLast, Valid
    <3> QED
      BY <3>1, <3>2 DEF Phase
  <2>4. chip.key = IF TheProtectionUsageCount = 0 THEN "locked" ELSE "unlocked"
    <3>1. CurrentState = "EIdle" /\ i2c = <<>>
      BY DEF TInv, IdleIsIdle, Resting, Threads
    <3> QED
      BY <3>1 DEF ChipInv, KeyFollows, Unlocks, Locks
  <2>5. Action(p) = "EDisableProtect" => TheProtectionUsageCount # 0
    BY DisabledIsCounted, Counts DEF ChipInv
  <2>6. Phase(p).iAction \in {"ERead", "EWrite", "EClearSet", "EDisableProtect", "ERestoreProtect"}
    BY <2>3 DEF TReq
  <2> QED
    BY <2>1, <2>4, <2>5, <2>6 DEF Action, Written
<1> QED
  BY <1>1, ChipInvariance, PTL

\* A driver that reads or writes has a transfer or its completion under way.
Busy == CurrentState \notin {"EIdle", "EPending"} => ~Resting

\* And so it stays, whatever step is taken.
LEMMA BusyStep == TInv /\ Busy /\ [Next]_allVars => Busy'
<1> SUFFICES ASSUME TInv, Busy, [Next]_allVars PROVE Busy'
  OBVIOUS
<1>1. CASE UNCHANGED allVars
  BY <1>1 DEF allVars, vars, queueVars, busVars, Busy, Resting
<1>2. ASSUME NEW t \in Threads, StartSteps(t) PROVE Busy'
  <2>1. CASE SetPending(t)
    BY <2>1 DEF SetPending, Busy
  <2>2. CASE StartRequest(t) \/ SkipPhase(t)
    BY <2>2 DEF StartRequest, SkipPhase, busVars, Busy, Resting
  <2>3. CASE FakeCompletion(t)
    BY <2>3 DEF FakeCompletion, Busy, Resting
  <2>4. CASE StartPhase(t)
    <3>1. i2c = <<>> /\ \E x : i2c' = Append(i2c, x)
      BY <2>4, Pending DEF StartPhase, InLoop, Resting, StartRead, StartWrite, StartKey, TransferA
    <3>2. i2c' # <<>>
      BY <3>1
    <3> QED
      BY <3>2 DEF Busy, Resting
  <2> QED
    BY <1>2, <2>1, <2>2, <2>3, <2>4 DEF StartSteps
<1>3. ASSUME NEW c \in Clients,
             (\E r \in Requests : ExecAsync(c, r)) \/ TestIdle(c) \/ StartSteps(c) \/ Return(c)
      PROVE  Busy'
  <2>1. c \in Threads
    BY DEF Threads
  <2> QED
    BY <1>2, <1>3, <2>1 DEF ExecAsync, TestIdle, Return, queueVars, busVars, Busy, Resting
<1>4. CASE DfcWriteBack \/ DfcUnprotect1
  <2>1. i2c = <<>> /\ \E x : i2c' = Append(i2c, x)
    BY <1>4 DEF DfcWriteBack, DfcUnprotect1, DfcEntered, StartWrite, StartKey, TransferA, TInv,
       OneActivity
  <2>2. i2c' # <<>>
    BY <2>1
  <2> QED
    BY <2>2 DEF Busy, Resting
<1>5. CASE DfcNextPhase \/ DfcIdle
  BY <1>5 DEF DfcNextPhase, DfcIdle, Busy
<1>6. CASE DfcDeque \/ DfcTestIdle \/ DfcNotify
  BY <1>6 DEF DfcDeque, DfcTestIdle, DfcNotify, queueVars, busVars, Busy, Resting
<1>7. CASE I2cDone
  BY <1>7 DEF I2cDone, Busy, Resting
<1> QED
  <2>1. Dfc \in Threads
    BY DEF Threads
  <2> QED
    BY <1>1, <1>2, <1>3, <1>4, <1>5, <1>6, <1>7, <2>1 DEF Next, DfcSteps

\* A pending driver has a thread that starts a phase, and the DFC goes on to a request only
\* where one is queued.
Attended ==
    /\ CurrentState = "EPending" => \E t \in Threads : pc[t] \in {"pending", "loop", "fault"}
    /\ pc[Dfc] \in {"dequeued", "idleSeen", "pending"} => TheQueue # <<>>
    /\ pc[Dfc] # "fault"

\* And so it stays.
LEMMA AttendedStep ==
    Guarded /\ TInv /\ ChipInv /\ Attended /\ [Next]_allVars => Attended'
<1> SUFFICES ASSUME Guarded, TInv, ChipInv, Attended, [Next]_allVars PROVE Attended'
  OBVIOUS
<1>0. Dfc \in Threads /\ \A c \in Clients : c \in Threads /\ c # Dfc
  BY ConstAssumption DEF Threads
<1>1. CASE UNCHANGED allVars
  BY <1>1 DEF allVars, vars, queueVars, Attended
<1>2. ASSUME NEW t \in Threads, StartSteps(t) PROVE Attended'
  <2>1. /\ TheQueue' = TheQueue /\ pc \in [Threads -> AtRest \union Starter \union
                                               {"added", "idle", "dequeued", "notify", "fault"}]
    BY <1>2 DEF StartSteps, SetPending, StartRequest, StartPhase, SkipPhase, FakeCompletion, TInv,
       Types
  <2>2. CASE SetPending(t)
    BY <1>0, <2>1, <2>2 DEF SetPending, Attended
  <2>3. CASE StartRequest(t)
    <3>1. /\ pc[t] = "pending" /\ pc' = [pc EXCEPT ![t] = IF StartAsserts THEN "loop" ELSE "fault"]
          /\ CurrentState' = CurrentState
      BY <2>3 DEF StartRequest
    <3>2. t = Dfc => StartAsserts
      BY <3>1 DEF StartAsserts, Attended, ChipInv, PhasesExist
    <3> QED
      BY <1>0, <2>1, <3>1, <3>2 DEF Attended
  <2>4. CASE SkipPhase(t)
    BY <2>1, <2>4 DEF SkipPhase, Attended
  <2>5. CASE StartPhase(t) \/ FakeCompletion(t)
    <3>1. CurrentState' # "EPending"
      BY <2>5 DEF StartPhase, StartRead, StartWrite, StartKey, FakeCompletion
    <3>2. /\ pc' = [pc EXCEPT ![t] = IF t # Dfc THEN "waiting"
                                     ELSE IF finished = <<>> THEN "out" ELSE "notify"]
      BY <2>5 DEF StartPhase, FakeCompletion, Started
    <3> QED
      BY <1>0, <2>1, <3>1, <3>2 DEF Attended
  <2> QED
    BY <1>2, <2>2, <2>3, <2>4, <2>5 DEF StartSteps
<1>3. ASSUME NEW c \in Clients,
             (\E r \in Requests : ExecAsync(c, r)) \/ TestIdle(c) \/ StartSteps(c) \/ Return(c)
      PROVE  Attended'
  <2>1. c \in Threads /\ c # Dfc /\ pc \in [Threads -> AtRest \union Starter \union
                                           {"added", "idle", "dequeued", "notify", "fault"}]
    BY <1>0 DEF TInv, Types
  <2>2. ASSUME NEW r \in Requests, ExecAsync(c, r) PROVE Attended'
    <3>1. /\ pc[c] = "ready" /\ pc' = [pc EXCEPT ![c] = "added"] /\ CurrentState' = CurrentState
          /\ TheQueue' = Append(TheQueue, c) /\ TheQueue \in Seq(Clients)
      BY <2>2 DEF ExecAsync, Added, TInv, Types
    <3>2. TheQueue' # <<>>
      BY <3>1, Appended
    <3> QED
      BY <1>0, <2>1, <3>1, <3>2 DEF Attended
  <2>3. CASE TestIdle(c) \/ Return(c)
    <3>1. /\ pc[c] \in {"added", "waiting"} /\ TheQueue' = TheQueue /\ CurrentState' = CurrentState
          /\ \E x : pc' = [pc EXCEPT ![c] = x]
      BY <2>3 DEF TestIdle, Return, queueVars
    <3> QED
      BY <1>0, <2>1, <3>1 DEF Attended
  <2> QED
    BY <1>2, <1>3, <2>1, <2>2, <2>3
<1>4. ASSUME DfcSteps \/ I2cDone PROVE Attended'
  <2>0. pc \in [Threads -> AtRest \union Starter \union {"added", "idle", "dequeued", "notify", "fault"}]
    BY DEF TInv, Types
  <2>1. CASE DfcWriteBack \/ DfcUnprotect1 \/ I2cDone
    BY <2>1 DEF DfcWriteBack, DfcUnprotect1, I2cDone, DfcEntered, StartWrite, StartKey, queueVars,
       Attended
  <2>2. CASE DfcNextPhase
    <3>1. TheQueue # <<>>
      BY <2>2, CurrentIs DEF DfcNextPhase, DfcEntered
    <3> QED
      BY <1>0, <2>0, <2>2, <3>1 DEF DfcNextPhase, Attended
  <2>3. CASE DfcIdle
    BY <1>0, <2>0, <2>3 DEF DfcIdle, Attended
  <2>4. CASE DfcDeque
    BY <1>0, <2>0, <2>4 DEF DfcDeque, MoreQueued, Attended
  <2>5. CASE DfcTestIdle \/ DfcNotify
    BY <1>0, <2>0, <2>5 DEF DfcTestIdle, DfcNotify, queueVars, Attended
  <2> QED
    BY <1>0, <1>2, <1>4, <2>1, <2>2, <2>3, <2>4, <2>5 DEF DfcSteps
<1> QED
  BY <1>1, <1>3, <1>4 DEF Next

\* While the protection is being lifted, nobody holds it but the request that lifts it.
LEMMA UnlocksAlone ==
    ASSUME Guarded, TInv, ChipInv, Busy, Unlocks, pc[Dfc] # "idle", NEW c \in Clients
    PROVE  held[c] = 0
<1> DEFINE p == CurrentPhaseReq
           x == <<p[1], 0>>
           y == <<c, 1>>
<1>1. ~Resting /\ CurrentState # "EIdle" /\ p # <<>>
  BY DEF Busy, Unlocks, Resting, TInv, IdleIsIdle, HeadIsCurrent
<1>2. Action(p) = "EDisableProtect"
  BY <1>1 DEF Resting, Unlocks, ChipInv, TransferIsPhase, CompletionIsTrue, IsReading, IsWriting,
     IsUnlocking
<1>3. /\ p[1] \in Clients /\ pc[p[1]] # "ready" /\ p[1] = Head(TheQueue)
      /\ InQueue(TheQueue, p[1]) /\ p[2] \in 1..Len(request[p[1]])
      /\ request[p[1]] \in Seq(TReq) /\ Balanced(request[p[1]])
  BY <1>1, CurrentIs, Chains DEF ChipInv
<1>4. Begun(p[1]) = p[2]
  BY <1>1, <1>3 DEF Begun
<1>5. Owing(p[1])
  BY <1>2, <1>3, <1>4, OwesNext DEF Owing, Action, Phase
<1>6. x \in Tokens
  BY <1>3, <1>5 DEF Tokens
<1>7. ASSUME held[c] # 0 PROVE FALSE
  <2>1. held[c] \in Nat /\ 1 <= held[c]
    BY <1>7 DEF ChipInv, RequestTypes
  <2>2. y \in Tokens /\ y # x
    BY <2>1 DEF Tokens
  <2>3. IsFiniteSet(Tokens) /\ Cardinality(Tokens) = 1
    BY DEF ChipInv, KeyFollows, CountIsTokens
  <2>4. IsFiniteSet(Tokens \ {x}) /\ Cardinality(Tokens \ {x}) = 0
    BY <1>6, <2>3, FS_RemoveElement
  <2> HIDE DEF x, y
  <2>5. Tokens \ {x} = {}
    BY <2>4, FS_EmptySet
  <2> QED
    BY <2>2, <2>5
<1> QED
  BY <1>7

\* The registers are open while a client holds a DisableProtect() and closed when nobody
\* does, for any number of clients of any priorities, until one crosses another.
THEOREM ProtectionFollowsClients ==
    ASSUME Guarded
    PROVE  Spec => []ProtectionCounted
<1>1. crossed \/ (TInv /\ ChipInv /\ Busy /\ Attended) => ProtectionCounted
  <2> SUFFICES ASSUME TInv, ChipInv, Busy, Attended
               PROVE  /\ (\E c \in Clients : held[c] > 0) => chip.key = "unlocked"
                      /\ TheQueue = <<>> /\ (\A c \in Clients : held[c] = 0 /\ pc[c] = "ready")
                              => chip.key # "unlocked"
    BY DEF ProtectionCounted
  <2>1. ASSUME NEW c \in Clients, held[c] > 0 PROVE chip.key = "unlocked"
    <3>1. held[c] \in Nat /\ 1 <= held[c]
      BY <2>1 DEF ChipInv, RequestTypes
    <3>2. <<c, 1>> \in Tokens
      BY <3>1 DEF Tokens
    <3>3. TheProtectionUsageCount \in Nat /\ TheProtectionUsageCount >= 1
      BY <3>2, Counts DEF ChipInv
    <3>4. ~Unlocks
      <4>1. ASSUME pc[Dfc] = "idle" PROVE ~Unlocks
        BY <4>1 DEF TInv, IdleIsIdle, Unlocks, Resting, Threads
      <4> QED
        BY <3>1, <4>1, UnlocksAlone
    <3> QED
      BY <3>3, <3>4 DEF ChipInv, KeyFollows
  <2>2. ASSUME TheQueue = <<>>, \A c \in Clients : held[c] = 0 /\ pc[c] = "ready"
        PROVE  chip.key # "unlocked"
    <3>1. CurrentState = "EIdle" /\ i2c = <<>>
      <4>1. CurrentState # "EIdle" => CurrentPhaseReq = <<>> /\ Resting
        BY <2>2 DEF TInv, HeadIsCurrent, IsHead
      <4>2. CurrentState # "EIdle" => CurrentState = "EPending"
        BY <4>1 DEF Busy
      <4>3. ASSUME NEW t \in Threads, pc[t] \in {"pending", "loop", "fault"} PROVE FALSE
        <5>1. t = Dfc
          BY <2>2, <4>3 DEF Threads
        <5>2. pc[t] = "loop"
          BY <2>2, <4>3, <5>1 DEF Attended
        <5> QED
          BY <2>2, <4>1, <5>2, Pending DEF TInv, HeadIsCurrent, IsHead
      <4> QED
        BY <4>1, <4>2, <4>3 DEF Attended, TInv, IdleIsIdle, Resting
    <3>2. Tokens = {}
      <4> SUFFICES ASSUME NEW x \in Clients \X Nat, x \in Tokens PROVE FALSE
        BY DEF Tokens
      <4>1. x[1] \in Clients /\ x[2] \in Nat
        OBVIOUS
      <4> QED
        BY <2>2, <4>1 DEF Tokens, Owing
    <3>3. TheProtectionUsageCount = 0
      BY <3>2, Counts DEF ChipInv
    <3> QED
      BY <3>1, <3>3 DEF ChipInv, KeyFollows, Unlocks, Locks
  <2> QED
    BY <2>1, <2>2
<1>2. Init => Busy /\ Attended
  BY DEF Init, Busy, Attended, Threads
<1>3. (crossed \/ TInv) /\ (crossed \/ Busy) /\ [Next]_allVars => (crossed \/ Busy)'
  BY BusyStep, NotCrossed
<1>4. /\ crossed \/ (TInv /\ ChipInv)
      /\ crossed \/ Attended
      /\ [Next]_allVars
      => (crossed \/ Attended)'
  BY AttendedStep, NotCrossed
<1> QED
  BY <1>1, <1>2, <1>3, <1>4, ChipInvariance, PTL DEF Spec

-----------------------------------------------------------------------------
(* Failures *)

\* Where the failures, their clients and the results stay what they are.
LEMMA FailuresStay ==
    ASSUME FailuresKnown, UNCHANGED <<failed, pbResult, dfcQueued, request, iResult, signals, finished>>,
           InHand' => InHand, dfcQueued => CurrentPhaseReq' = CurrentPhaseReq,
           \A c \in Clients : InQueue(TheQueue', c) /\ ~(pc'[Dfc] = "idle" /\ c = Head(TheQueue')) =>
               InQueue(TheQueue, c) /\ ~(pc[Dfc] = "idle" /\ c = Head(TheQueue))
    PROVE  FailuresKnown'
<1>1. dfcQueued' /\ pbResult'["EDataPb"] # KErrNone => IsLast(CurrentPhaseReq)'
  BY DEF FailuresKnown, IsLast, Valid
<1>2. \A c \in Clients :
          InQueue(TheQueue', c) /\ ~(pc'[Dfc] = "idle" /\ c = Head(TheQueue')) =>
              (c \in failed' <=> dfcQueued' /\ c = CurrentPhaseReq'[1]
                                 /\ pbResult'["EDataPb"] # KErrNone)
  BY DEF FailuresKnown
<1>3. InHand' => (finished'.result = KErrNone <=> finished'.req[1] \notin failed')
  BY DEF FailuresKnown
<1>4. \A c \in Clients : signals'[c] = 1 => (LastResult(c)' = KErrNone <=> c \notin failed')
  BY DEF FailuresKnown, LastResult
<1> QED
  BY <1>1, <1>2, <1>3, <1>4 DEF FailuresKnown

\* What a thread that starts a phase leaves as it is.
LEMMA StartStepsFail ==
    ASSUME Guarded, TInv, ChipInv, FailuresKnown, NEW t \in Threads, StartSteps(t)
    PROVE  FailuresKnown'
<1> DEFINE to == IF t # Dfc THEN "waiting" ELSE IF finished = <<>> THEN "out" ELSE "notify"
<1>0. Dfc \in Threads
  BY DEF Threads
<1>1. /\ pc[t] \in {"idleSeen", "pending", "loop"}
      /\ failed' = failed /\ request' = request /\ signals' = signals /\ finished' = finished
      /\ TheQueue' = TheQueue
      /\ pc' = [pc EXCEPT ![t] = pc'[t]] /\ pc'[t] \in {"pending", "loop", "fault", to}
  <2>1. CASE SetPending(t)
    BY <2>1 DEF SetPending, reqVars, busVars, TInv, Types
  <2>2. CASE StartRequest(t)
    BY <2>2 DEF StartRequest, reqVars, busVars, TInv, Types
  <2>3. CASE StartPhase(t)
    BY <2>3 DEF StartPhase, InLoop, Started, reqVars, TInv, Types
  <2>4. CASE SkipPhase(t)
    BY <2>4 DEF SkipPhase, InLoop, busVars, TInv, Types
  <2>5. CASE FakeCompletion(t)
    BY <2>5 DEF FakeCompletion, InLoop, Started, reqVars, busVars, TInv, Types
  <2> QED
    BY <2>1, <2>2, <2>3, <2>4, <2>5 DEF StartSteps
<1>2. \A u \in Threads : u # t => pc[u] \in Aside /\ pc'[u] = pc[u]
  BY <1>1, Only DEF TInv, Types, Uses, Starter
<1>3. /\ pc[Dfc] # "idle" /\ pc'[Dfc] # "idle" /\ (InHand' => InHand)
      /\ Resting /\ dfcQueued = FALSE
  <2>1. Uses(t)
    BY <1>1 DEF Uses, Starter
  <2>2. Resting /\ dfcQueued = FALSE
    BY <2>1 DEF TInv, OneActivity, Types, Resting
  <2> QED
    BY <1>0, <1>1, <1>2, <2>2 DEF InHand, Aside, AtRest
<1>4. CASE SetPending(t) \/ StartRequest(t)
  <2>1. pbResult' = pbResult /\ iResult' = iResult /\ dfcQueued' = dfcQueued
    BY <1>4 DEF SetPending, StartRequest, reqVars, busVars
  <2> QED
    BY <1>1, <1>3, <2>1, FailuresStay
<1>5. \A c \in Clients : InQueue(TheQueue, c) => c \notin failed
  BY <1>3 DEF FailuresKnown
<1>6. InHand' => (finished'.result = KErrNone <=> finished'.req[1] \notin failed')
  BY <1>1, <1>3 DEF FailuresKnown
<1>7. CASE StartPhase(t)
  <2>1. dfcQueued' = FALSE /\ iResult' = iResult
    BY <1>3, <1>7 DEF StartPhase, reqVars
  <2>2. \A c \in Clients : signals'[c] = 1 => (LastResult(c)' = KErrNone <=> c \notin failed')
    BY <1>1, <2>1 DEF FailuresKnown, LastResult
  <2> QED
    BY <1>1, <1>5, <1>6, <2>1, <2>2 DEF FailuresKnown
<1>8. CASE SkipPhase(t)
  <2> DEFINE p == CurrentPhaseReq
  <2>1. dfcQueued' = FALSE /\ iResult' = [iResult EXCEPT ![p[1]][p[2]] = KErrNone]
    BY <1>3, <1>8 DEF SkipPhase
  <2>2. signals[p[1]] = 0
    BY <1>8, LoopSees DEF SkipPhase
  <2>3. \A c \in Clients : signals'[c] = 1 => LastResult(c)' = LastResult(c)
    BY <1>1, <2>1, <2>2 DEF LastResult
  <2>4. \A c \in Clients : signals'[c] = 1 => (LastResult(c)' = KErrNone <=> c \notin failed')
    BY <1>1, <2>3 DEF FailuresKnown
  <2> QED
    BY <1>1, <1>5, <1>6, <2>1, <2>4 DEF FailuresKnown
<1>9. CASE FakeCompletion(t)
  <2>1. pbResult' = pbResult /\ iResult' = iResult
    BY <1>9 DEF FakeCompletion, reqVars, busVars
  <2>2. pbResult["EDataPb"] = KErrNone
    <3>1. /\ TheQueue # <<>> /\ IsLast(PreviousPhaseReq) /\ Action(PreviousPhaseReq) \notin Register
          /\ PreviousPhaseReq[1] = Head(TheQueue)
      BY <1>9, Pending DEF FakeCompletion, InLoop, ChipInv, PhasesExist, TInv, HeadIsCurrent, IsHead
    <3>2. Head(TheQueue) \in Clients /\ pc[Head(TheQueue)] # "ready"
      BY <3>1, HeadWaits
    <3>3. /\ Len(request[Head(TheQueue)]) \in Nat
          /\ Faults = {} \/ \A k \in 1..Len(request[Head(TheQueue)]) :
                                request[Head(TheQueue)][k].iAction \in Register
      BY <3>2, Chains DEF ChipInv
    <3>4. PreviousPhaseReq[2] \in 1..Len(request[Head(TheQueue)])
      BY <3>1, <3>3 DEF IsLast, Valid
    <3>5. Faults = {}
      BY <3>1, <3>3, <3>4 DEF Action, Phase
    <3> QED
      BY <3>5 DEF ChipInv, OnlyWritesFail
  <2>3. \A c \in Clients : signals'[c] = 1 => (LastResult(c)' = KErrNone <=> c \notin failed')
    BY <1>1, <2>1 DEF FailuresKnown, LastResult
  <2> QED
    BY <1>1, <1>5, <1>6, <2>1, <2>2, <2>3 DEF FailuresKnown
<1> QED
  BY <1>4, <1>7, <1>8, <1>9 DEF StartSteps

\* The completion DFC takes over what the transfers of its request came to.
LEMMA DfcStepsFail ==
    ASSUME Guarded, TInv, ChipInv, FailuresKnown,
           DfcWriteBack \/ DfcUnprotect1 \/ DfcNextPhase \/ DfcIdle
    PROVE  FailuresKnown'
<1> DEFINE p == CurrentPhaseReq
<1>1. /\ DfcEntered /\ p # <<>> /\ dfcQueued' = FALSE
      /\ failed' = failed /\ request' = request /\ iResult' = iResult /\ signals' = signals
      /\ TheQueue' = TheQueue
  BY DEF DfcWriteBack, DfcUnprotect1, DfcNextPhase, DfcIdle, DfcEntered, reqVars, busVars
<1>2. /\ dfcQueued /\ pc[Dfc] = "out" /\ Dfc \in Threads /\ Result = pbResult["EDataPb"]
  BY <1>1, DfcSees
<1>3. p[1] \in Clients /\ InQueue(TheQueue, p[1]) /\ p[1] = Head(TheQueue)
  BY <1>1, CurrentIs
<1>4. /\ \A c \in Clients : InQueue(TheQueue, c) =>
                                (c \in failed <=> c = p[1] /\ pbResult["EDataPb"] # KErrNone)
      /\ pbResult["EDataPb"] # KErrNone => IsLast(p)
  BY <1>2 DEF FailuresKnown
<1>5. \A c \in Clients : signals'[c] = 1 => (LastResult(c)' = KErrNone <=> c \notin failed')
  BY <1>1 DEF FailuresKnown, LastResult
<1>6. CASE DfcWriteBack \/ DfcUnprotect1 \/ DfcNextPhase
  <2>1. pbResult["EDataPb"] = KErrNone
    <3>1. CASE DfcWriteBack \/ DfcUnprotect1
      BY <1>2, <3>1 DEF DfcWriteBack, DfcUnprotect1, ClearSetRead, Unprotect0Done
    <3>2. CASE DfcNextPhase
      <4>1. p[2] < Len(request[p[1]]) /\ p[2] \in Nat
        BY <1>1, <3>2, CurrentIs DEF DfcNextPhase, NextPhase
      <4>2. ~IsLast(p)
        BY <4>1 DEF IsLast
      <4> QED
        BY <1>4, <4>2
    <3> QED
      BY <1>6, <3>1, <3>2
  <2>2. pc'[Dfc] \in {"out", "pending"} /\ finished' = finished /\ finished = <<>>
    BY <1>1, <1>2, <1>6, DfcSees
       DEF DfcWriteBack, DfcUnprotect1, DfcNextPhase, TInv, Types
  <2>3. ~InHand'
    BY <2>2 DEF InHand
  <2> QED
    BY <1>1, <1>4, <1>5, <2>1, <2>3 DEF FailuresKnown
<1>7. CASE DfcIdle
  <2>1. pc'[Dfc] = "idle" /\ finished'.req = p /\ finished'.result = pbResult["EDataPb"]
    BY <1>2, <1>7 DEF DfcIdle, TInv, Types
  <2>2. finished'.result = KErrNone <=> finished'.req[1] \notin failed'
    BY <1>1, <1>3, <1>4, <2>1
  <2> QED
    BY <1>1, <1>3, <1>4, <1>5, <2>1, <2>2 DEF FailuresKnown
<1> QED
  BY <1>6, <1>7

\* A request's result is that of its last phase.
LEMMA DfcNotifyFails ==
    ASSUME Guarded, TInv, ChipInv, FailuresKnown, DfcNotify
    PROVE  FailuresKnown'
<1> DEFINE p == finished.req
<1>1. /\ pc[Dfc] = "notify" /\ Dfc \in Threads /\ pc' = [pc EXCEPT ![Dfc] = "out"]
      /\ iResult' = [iResult EXCEPT ![p[1]][p[2]] = finished.result]
      /\ signals' = [signals EXCEPT ![p[1]] = @ + 1]
      /\ request' = request /\ TheQueue' = TheQueue /\ CurrentPhaseReq' = CurrentPhaseReq
      /\ pbResult' = pbResult /\ failed' = failed /\ dfcQueued' = dfcQueued
  BY DEF DfcNotify, queueVars, busVars, Threads
<1>2. /\ InHand /\ IsLast(p) /\ p[1] \in Clients /\ pc[p[1]] # "ready" /\ pc'[Dfc] = "out"
  BY <1>1 DEF ChipInv, PhasesExist, InHand, TInv, Types, FinishedOnce, Finishing
<1>3. p[2] \in 1..Len(request[p[1]]) /\ p[2] = Len(request[p[1]])
  <2>1. Len(request[p[1]]) \in Nat
    BY <1>2, Chains DEF ChipInv
  <2> QED
    BY <1>2, <2>1 DEF IsLast, Valid
<1>4. ASSUME NEW c \in Clients, signals'[c] = 1
      PROVE  LastResult(c)' = KErrNone <=> c \notin failed'
  <2>1. CASE c = p[1]
    <3>1. LastResult(c)' = finished.result
      BY <1>1, <1>2, <1>3, <2>1 DEF LastResult, ChipInv, RequestTypes
    <3> QED
      BY <1>1, <1>2, <2>1, <3>1 DEF FailuresKnown
  <2>2. CASE c # p[1]
    <3>1. LastResult(c)' = LastResult(c) /\ signals[c] = 1
      BY <1>1, <1>4, <2>2 DEF LastResult, TInv, Types
    <3> QED
      BY <1>1, <3>1 DEF FailuresKnown
  <2> QED
    BY <2>1, <2>2
<1>5. ~InHand'
  BY <1>2 DEF InHand
<1>6. dfcQueued' /\ pbResult'["EDataPb"] # KErrNone => IsLast(CurrentPhaseReq)'
  BY <1>1 DEF FailuresKnown, IsLast, Valid
<1>7. \A c \in Clients :
          InQueue(TheQueue', c) /\ ~(pc'[Dfc] = "idle" /\ c = Head(TheQueue')) =>
              (c \in failed' <=> dfcQueued' /\ c = CurrentPhaseReq'[1]
                                 /\ pbResult'["EDataPb"] # KErrNone)
  BY <1>1 DEF FailuresKnown
<1> QED
  BY <1>4, <1>5, <1>6, <1>7 DEF FailuresKnown

\* A write that fails is one of the last phase.
LEMMA I2cDoneFails ==
    ASSUME Guarded, WritesLast, TInv, ChipInv, FailuresKnown, I2cDone, setting' = setting
    PROVE  FailuresKnown'
<1> DEFINE p == CurrentPhaseReq
<1>1. /\ i2c # <<>> /\ pc[Dfc] = "out" /\ pc' = pc /\ finished' = finished
      /\ request' = request /\ iResult' = iResult /\ signals' = signals
      /\ TheQueue' = TheQueue /\ CurrentPhaseReq' = p
  BY DEF I2cDone, queueVars
<1>2. p # <<>> /\ dfcQueued = FALSE
  BY <1>1, DfcFinds DEF Resting, TInv, Types, OneActivity
<1>3. /\ p[1] \in Clients /\ InQueue(TheQueue, p[1]) /\ p[2] \in 1..Len(request[p[1]])
      /\ pc[p[1]] # "ready" /\ p = <<p[1], p[2]>>
  BY <1>2, CurrentIs
<1>4. \A c \in Clients : InQueue(TheQueue, c) => c \notin failed
  BY <1>1, <1>2 DEF FailuresKnown
<1>5. ~InHand'
  BY <1>1 DEF InHand
<1>6. signals[p[1]] = 0 /\ \A c \in Clients : signals'[c] = 1 =>
          (LastResult(c)' = KErrNone <=> c \notin failed)
  BY <1>1, <1>3 DEF FailuresKnown, LastResult, TInv, QueuedOnce
<1>7. CASE pbResult'["EDataPb"] = KErrNone /\ failed' = failed
  BY <1>1, <1>4, <1>5, <1>6, <1>7 DEF FailuresKnown
<1>8. CASE /\ pbResult'["EDataPb"] = KErrGeneral /\ failed' = failed \cup {p[1]}
           /\ Faults # {} /\ Action(p) \in {"EWrite", "EClearSet"}
  <2>1. IsLast(p)
    <3>1. request[p[1]] \in setting.requests /\ setting \in Settings
      BY <1>3 DEF ChipInv, RequestTypes, Requests, TInv, Types
    <3>2. ~(p[2] < Len(request[p[1]]))
      BY <1>3, <1>8, <3>1 DEF WritesLast, Faults, Action, Phase
    <3>3. Len(request[p[1]]) \in Nat /\ Valid(p)
      BY <1>2, <1>3, Chains DEF ChipInv, PhasesExist
    <3> QED
      BY <1>3, <3>2, <3>3 DEF IsLast
  <2>2. IsLast(p)'
    BY <1>1, <2>1 DEF IsLast, Valid
  <2>3. \A c \in Clients : InQueue(TheQueue, c) =>
            (c \in failed' <=> c = p[1] /\ pbResult'["EDataPb"] # KErrNone)
    BY <1>4, <1>8 DEF KErrNone, KErrGeneral
  <2>4. dfcQueued'
    BY DEF I2cDone
  <2> QED
    BY <1>1, <1>5, <1>6, <1>8, <2>2, <2>3, <2>4 DEF FailuresKnown
<1> QED
  BY <1>7, <1>8, TransferDone

\* A new request has not failed.
LEMMA ExecAsyncFails ==
    ASSUME Guarded, TInv, ChipInv, FailuresKnown, NEW c \in Clients, NEW r \in Requests,
           ExecAsync(c, r), setting' = setting
    PROVE  FailuresKnown'
<1> DEFINE p == CurrentPhaseReq
<1>1. /\ request' = [request EXCEPT ![c] = r] /\ failed' = failed \ {c} /\ signals' = signals
      /\ iResult' = [iResult EXCEPT ![c] = [k \in 1..Len(r) |-> "unset"]]
      /\ CurrentPhaseReq' = p /\ pbResult' = pbResult /\ dfcQueued' = dfcQueued
      /\ finished' = finished
  BY DEF ExecAsync
<1>2. /\ pc'[Dfc] = pc[Dfc] /\ signals[c] = 0
      /\ \A d : InQueue(TheQueue', d) <=> InQueue(TheQueue, d) \/ d = c
      /\ pc[Dfc] = "idle" => Head(TheQueue') = Head(TheQueue)
      /\ p # <<>> => p[1] \in Clients /\ p[1] # c
      /\ InHand => finished.req[1] # c
  BY ExecAsyncFinds
<1>3. dfcQueued => p # <<>>
  BY DEF TInv, IdleIsIdle, HeadIsCurrent, Resting
<1>4. dfcQueued' /\ pbResult'["EDataPb"] # KErrNone => IsLast(p)'
  BY <1>1, <1>2, <1>3 DEF FailuresKnown, IsLast, Valid
<1>5. ASSUME NEW d \in Clients, InQueue(TheQueue', d),
             ~(pc'[Dfc] = "idle" /\ d = Head(TheQueue'))
      PROVE  d \in failed' <=> dfcQueued' /\ d = p[1] /\ pbResult'["EDataPb"] # KErrNone
  BY <1>1, <1>2, <1>3, <1>5 DEF FailuresKnown
<1>6. InHand' => (finished'.result = KErrNone <=> finished'.req[1] \notin failed')
  <2>1. InHand' <=> InHand
    BY <1>1, <1>2 DEF InHand
  <2> QED
    BY <1>1, <1>2, <2>1 DEF FailuresKnown
<1>7. \A d \in Clients : signals'[d] = 1 => (LastResult(d)' = KErrNone <=> d \notin failed')
  BY <1>1, <1>2 DEF FailuresKnown, LastResult
<1> QED
  BY <1>1, <1>4, <1>5, <1>6, <1>7 DEF FailuresKnown

\* Every step keeps what is known of failures.
LEMMA FailuresStep ==
    Guarded /\ WritesLast /\ TInv /\ ChipInv /\ FailuresKnown /\ [Next]_allVars /\ ~crossed'
        => FailuresKnown'
<1> SUFFICES ASSUME Guarded, WritesLast, TInv, ChipInv, FailuresKnown, [Next]_allVars, ~crossed'
             PROVE  FailuresKnown'
  OBVIOUS
<1>7. UNCHANGED allVars \/ (Next /\ ~Crosses)
  BY NotCrossed
<1>0. Dfc \in Threads /\ \A c \in Clients : c \in Threads /\ c # Dfc
  BY ConstAssumption DEF Threads
<1>1. CASE UNCHANGED allVars
  <2>1. UNCHANGED <<failed, pbResult, dfcQueued, request, iResult, signals, finished, pc, TheQueue,
                    CurrentPhaseReq>>
    BY <1>1 DEF allVars, vars, reqVars, queueVars, busVars
  <2> QED
    BY <2>1, FailuresStay DEF InHand
<1>2. ASSUME NEW t \in Threads, TestsIdle(t)
      PROVE  FailuresKnown'
  <2>1. /\ pc[t] = IF t = Dfc THEN "dequeued" ELSE "added"
        /\ pc'[t] = IF SeesIdle THEN "idleSeen" ELSE IF t = Dfc THEN "notify" ELSE "waiting"
        /\ \A u \in Threads : u # t => pc'[u] = pc[u]
    BY <1>2, IdleIsFound DEF TestsIdle
  <2>2. UNCHANGED <<failed, pbResult, dfcQueued, request, iResult, signals, finished, TheQueue,
                    CurrentPhaseReq>>
    BY <1>2 DEF TestsIdle, reqVars, queueVars, busVars
  <2>3. (InHand' => InHand) /\ (pc'[Dfc] = "idle" <=> pc[Dfc] = "idle")
    BY <1>0, <2>1, <2>2 DEF InHand
  <2> QED
    BY <2>2, <2>3, FailuresStay
<1>3. ASSUME NEW c \in Clients, Return(c) PROVE FailuresKnown'
  <2>1. /\ pc'[Dfc] = pc[Dfc] /\ UNCHANGED <<failed, pbResult, dfcQueued, request, iResult, finished,
                                             TheQueue, CurrentPhaseReq>>
    BY <1>0, <1>3 DEF Return, queueVars, busVars, TInv, Types
  <2>2. \A d \in Clients : signals'[d] = 1 => signals[d] = 1
    BY <1>3 DEF Return, TInv, Types
  <2>3. InHand' => InHand
    BY <2>1 DEF InHand
  <2>4. \A d \in Clients : signals'[d] = 1 => (LastResult(d)' = KErrNone <=> d \notin failed')
    BY <2>1, <2>2 DEF FailuresKnown, LastResult
  <2>5. dfcQueued' /\ pbResult'["EDataPb"] # KErrNone => IsLast(CurrentPhaseReq)'
    BY <2>1 DEF FailuresKnown, IsLast, Valid
  <2> QED
    BY <2>1, <2>3, <2>4, <2>5 DEF FailuresKnown
<1>4. CASE DfcDeque
  <2>1. /\ pc[Dfc] = "idle" /\ TheQueue' = Tail(TheQueue) /\ TheQueue # <<>>
        /\ UNCHANGED <<failed, pbResult, dfcQueued, request, iResult, signals, finished,
                       CurrentPhaseReq>>
    BY <1>0, <1>4 DEF DfcDeque, reqVars, busVars, TInv, IdleIsIdle
  <2>2. pc'[Dfc] # "idle" /\ InHand
    BY <1>0, <1>4, <2>1 DEF DfcDeque, TInv, Types, InHand
  <2>3. \A d : InQueue(TheQueue', d) <=> InQueue(TheQueue, d) /\ d # Head(TheQueue)
    BY <2>1, Tailed DEF TInv, Types, QueuedOnce
  <2> QED
    BY <2>1, <2>2, <2>3, FailuresStay
<1>5. ASSUME NEW c \in Clients, setting' = setting, ~Crosses,
             (\E r \in Requests : ExecAsync(c, r)) \/ TestIdle(c) \/ StartSteps(c) \/ Return(c)
      PROVE  FailuresKnown'
  <2>1. CASE TestIdle(c)
    BY <1>0, <1>2, <1>5, <2>1 DEF TestIdle, TestsIdle
  <2> QED
    BY <1>0, <1>3, <1>5, <2>1, ExecAsyncFails, StartStepsFail
<1>6. ASSUME DfcSteps \/ I2cDone, setting' = setting, ~Crosses
      PROVE  FailuresKnown'
  <2>1. CASE DfcTestIdle
    BY <1>0, <1>2, <1>6, <2>1 DEF DfcTestIdle, TestsIdle
  <2> QED
    BY <1>0, <1>4, <1>6, <2>1, DfcStepsFail, DfcNotifyFails, I2cDoneFails, StartStepsFail
       DEF DfcSteps
<1> QED
  BY <1>1, <1>5, <1>6, <1>7 DEF Next

\* A request is reported failed exactly if one of its transfers has failed, for any clients and
\* chains that write last and wherever threads are preempted, until one crosses another,
\* where writes may fail unless the protection is changed.
THEOREM FailuresAreReported ==
    ASSUME Guarded, WritesLast
    PROVE  Spec => []ResultIsTrue
<1>1. Init => FailuresKnown
  BY ConstAssumption DEF Init, FailuresKnown, InHand, InQueue, Threads
<1>2. crossed \/ (TInv /\ FailuresKnown) => ResultIsTrue
  <2> SUFFICES ASSUME TInv, FailuresKnown, NEW c \in Clients, signals[c] > 0
               PROVE  LastResult(c) = KErrNone <=> c \notin failed
    BY DEF ResultIsTrue
  <2>1. signals[c] = 1
    BY DEF TInv, Types
  <2> QED
    BY <2>1 DEF FailuresKnown
<1>3. /\ crossed \/ (TInv /\ ChipInv)
      /\ crossed \/ FailuresKnown
      /\ [Next]_allVars
      => (crossed \/ FailuresKnown)'
  BY FailuresStep, NotCrossed
<1> QED
  BY <1>1, <1>2, <1>3, ChipInvariance, PTL DEF Spec
==============================================================================
