-------------------------- MODULE InterruptsProofs --------------------------
(* Proofs about the three levels of interrupts: Interrupts, for any clients, sources and
   pins, and the two dispatchers that hang on one source of the main controller each,
   PrcmInterrupts, for any clients and sources, whose threads do not preempt each other
   within Bind(), and TpsInterrupts, for any sources and status registers, whose
   handlers do not wait. *)
EXTENDS Interrupts, PrcmInterrupts, TpsInterrupts, FiniteSetTheorems, TLAPS

-----------------------------------------------------------------------------
(* Interrupts *)

\* What the clients must keep to: either their threads do not preempt each other
\* inside a call, or no two of them ask for the same source.
SafeCallers == Preempt => \A c, d \in Clients : Id[c] = Id[d] => c = d

High == IF isr = <<>> THEN {} ELSE isr.high

OneCall ==
    ~Preempt => \A c, d \in Clients : pc[c] # "out" /\ pc[d] # "out" => c = d

\* Between the test and the store of Bind() the source stays free.
StoreFindsFree ==
    \A c \in Clients : pc[c] = "store" =>
        ~HasPin(c) /\ state[c] = "unbound" /\ Handlers[Id[c]] = "Spurious"

OwedEnabled == \A c \in owed : state[c] = "enabled"

\* A latched or read pin belongs to a client that has it bound and not cleared.
LatchedBound ==
    \A bit \in irqStatus \union High :
        \E c \in Clients : /\ HasPin(c) /\ PinOffset(Id[c]) = bit
                           /\ state[c] \in {"bound", "enabled"}

\* The handler of a source being served is a client's.
ServedBound == isr # <<>> /\ isr.step = "serve" => Handlers[isr.vector] \in Clients

IInv == /\ TypeOK /\ OneCall /\ StoreFindsFree /\ ExclusiveBinding /\ OwedEnabled
        /\ Handlers[Bank] = "DispatchIsr"
        /\ LatchedBound /\ ServedBound /\ NoSpurious

\* A pin of the bank and its bit name each other.
LEMMA PinBits ==
    ASSUME NEW p \in Pins
    PROVE  PinOffset(p) \in BankBits /\ PinAt(PinOffset(p)) = p
<1>1. p \in Int /\ BankNumber * 32 <= p /\ p <= BankNumber * 32 + 31
  BY ConstAssumption DEF KHwGpioPinsPerBank
<1>2. p % 32 = p - BankNumber * 32
  BY <1>1, ConstAssumption
<1> QED
  BY <1>1, <1>2, ConstAssumption DEF PinOffset, PinAt, BankBits, KHwGpioPinsPerBank

\* The boot state satisfies the invariant.
LEMMA Initially == Init => IInv
<1> SUFFICES ASSUME Init PROVE IInv
  OBVIOUS
<1>1. TypeOK
  BY ConstAssumption DEF Init, TypeOK, Vectors
<1>2. OneCall /\ StoreFindsFree /\ ExclusiveBinding /\ OwedEnabled /\ NoSpurious
  BY DEF Init, OneCall, StoreFindsFree, ExclusiveBinding, OwedEnabled, NoSpurious
<1>3. Handlers[Bank] = "DispatchIsr"
  BY DEF Init, Vectors
<1>4. LatchedBound /\ ServedBound
  BY DEF Init, LatchedBound, ServedBound, High
<1> QED
  BY <1>1, <1>2, <1>3, <1>4 DEF IInv

\* What the constants say of a client's id.
LEMMA Ids ==
    ASSUME NEW c \in Clients
    PROVE  /\ c # "Spurious" /\ c # "DispatchIsr"
           /\ HasPin(c) => Id[c] \in Pins /\ PinOffset(Id[c]) \in BankBits
           /\ ~HasPin(c) => Id[c] \in Sources /\ Id[c] # Bank
           /\ Vector(c) \in Vectors
BY ConstAssumption, PinBits DEF HasPin, Vector, Vectors

\* Two clients with the same pin are one.
LEMMA PinOwner ==
    ASSUME NEW c \in Clients, NEW d \in Clients, HasPin(c), HasPin(d),
           PinOffset(Id[c]) = PinOffset(Id[d])
    PROVE  c = d
BY ConstAssumption, PinBits DEF HasPin

-----------------------------------------------------------------------------
(* The calls of the clients *)

\* A step of a call keeps the types.
LEMMA TypeCall ==
    ASSUME IInv, NEW c \in Clients, Call(c) \/ Returns(c)
    PROVE  TypeOK'
<1> USE Ids DEF IInv, TypeOK, Calls, GoesOn
<1>1. CASE BindTest(c) BY <1>1 DEF BindTest, tableVars, bankVars, deviceVars
<1>2. CASE BindPin(c) BY <1>2 DEF BindPin, bankVars, deviceVars
<1>3. CASE EnableSource(c) BY <1>3 DEF EnableSource, tableVars, bankVars, deviceVars
<1>4. CASE EnablePin(c) BY <1>4 DEF EnablePin, tableVars, bankVars, deviceVars
<1>5. CASE DisableSource(c) BY <1>5 DEF DisableSource, Vectors, tableVars, bankVars
<1>6. CASE DisablePin(c) BY <1>6 DEF DisablePin, tableVars
<1>7. CASE Clear(c) BY <1>7 DEF Clear, Cleared, tableVars, deviceVars
<1>8. CASE UnbindSource(c) BY <1>8 DEF UnbindSource, bankVars, deviceVars
<1>9. CASE UnbindPin(c) BY <1>9 DEF UnbindPin, bankVars, deviceVars
<1>10. CASE BindStore(c) BY <1>10 DEF BindStore, bankVars, deviceVars
<1>11. CASE Unmask(c) BY <1>11 DEF Unmask, tableVars, bankVars, deviceVars
<1>12. CASE DisableLastTest(c)
  BY <1>12 DEF DisableLastTest, tableVars, bankVars, deviceVars
<1>13. CASE Mask(c) BY <1>13 DEF Mask, tableVars, bankVars, deviceVars
<1> QED
  BY <1>1, <1>2, <1>3, <1>4, <1>5, <1>6, <1>7, <1>8, <1>9, <1>10, <1>11, <1>12,
     <1>13 DEF Call, Returns

\* What the table holds for a client's id.
Entry(c) == IF HasPin(c) THEN GpioPins[Id[c]] ELSE Handlers[Id[c]]

\* What one step of client c's call does, to its own state and to the others'.
ClientStep(c) ==
    /\ isr' = <<>> /\ faulted' = faulted
    /\ \A d \in Clients : d # c => state'[d] = state[d] /\ pc'[d] = pc[d]
    /\ ~Preempt => \A d \in Clients : d # c => pc[d] = "out"
    /\ owed' \subseteq owed /\ (c \in owed' => state'[c] = "enabled")
    /\ \A p \in Pins : p # Id[c] => GpioPins'[p] = GpioPins[p]
    /\ \A v \in Vectors : HasPin(c) \/ v # Id[c] => Handlers'[v] = Handlers[v]
    /\ Handlers[Id[c]] \in {c, "Spurious"} \/ Handlers'[Id[c]] = Handlers[Id[c]]
    /\ state'[c] # "unbound" => c = Entry(c)'
    /\ pc'[c] = "store" =>
            ~HasPin(c) /\ state'[c] = "unbound" /\ Handlers'[Id[c]] = "Spurious"
    /\ irqStatus' \subseteq irqStatus
    /\ HasPin(c) /\ PinOffset(Id[c]) \in irqStatus' /\ state[c] \in {"bound", "enabled"}
            => state'[c] \in {"bound", "enabled"}

\* Every step of a call is such a step.
LEMMA ClientSteps ==
    ASSUME IInv, NEW c \in Clients, Call(c) \/ Returns(c)
    PROVE  ClientStep(c)
<1> USE Ids DEF IInv, TypeOK, Calls, GoesOn, Runs, ClientStep, Entry, ExclusiveBinding,
        OwedEnabled, StoreFindsFree, tableVars, bankVars, deviceVars, Vectors, HasPin
<1>1. CASE BindTest(c) BY <1>1 DEF BindTest, InUse
<1>2. CASE BindPin(c) BY <1>2 DEF BindPin
<1>3. CASE EnableSource(c) BY <1>3 DEF EnableSource
<1>4. CASE EnablePin(c) BY <1>4 DEF EnablePin
<1>5. CASE DisableSource(c) BY <1>5 DEF DisableSource
<1>6. CASE DisablePin(c) BY <1>6 DEF DisablePin
<1>7. CASE Clear(c) BY <1>7 DEF Clear, Cleared
<1>8. CASE UnbindSource(c) BY <1>8 DEF UnbindSource
<1>9. CASE UnbindPin(c) BY <1>9 DEF UnbindPin
<1>10. CASE BindStore(c) BY <1>10 DEF BindStore
<1>11. CASE Unmask(c) BY <1>11 DEF Unmask
<1>12. CASE DisableLastTest(c) BY <1>12 DEF DisableLastTest
<1>13. CASE Mask(c) BY <1>13 DEF Mask
<1> QED
  BY <1>1, <1>2, <1>3, <1>4, <1>5, <1>6, <1>7, <1>8, <1>9, <1>10, <1>11, <1>12,
     <1>13 DEF Call, Returns

\* A step of a call preserves the invariant.
LEMMA CallPreserves ==
    ASSUME SafeCallers, IInv, NEW c \in Clients, Call(c) \/ Returns(c)
    PROVE  IInv'
<1>1. ClientStep(c) /\ TypeOK'
  BY ClientSteps, TypeCall
<1>2. OneCall'
  BY <1>1 DEF ClientStep, OneCall
<1>3. StoreFindsFree'
  <2> SUFFICES ASSUME NEW d \in Clients, pc'[d] = "store", d # c
               PROVE  ~HasPin(d) /\ state'[d] = "unbound" /\ Handlers'[Id[d]] = "Spurious"
    BY <1>1 DEF ClientStep, StoreFindsFree, HasPin
  <2>1. ~HasPin(d) /\ state[d] = "unbound" /\ Handlers[Id[d]] = "Spurious" /\ pc[d] = "store"
    BY <1>1 DEF ClientStep, IInv, StoreFindsFree
  <2>2. Id[d] # Id[c] /\ Id[d] \in Vectors
    BY <1>1, <2>1, Ids DEF ClientStep, SafeCallers, Vectors
  <2> QED
    BY <1>1, <2>1, <2>2 DEF ClientStep
<1>4. ExclusiveBinding'
  <2> SUFFICES ASSUME NEW d \in Clients, state'[d] # "unbound", d # c
               PROVE  d = Entry(d)'
    BY <1>1 DEF ClientStep, ExclusiveBinding, Entry, HasPin
  <2>1. d = Entry(d) /\ d # "Spurious"
    BY <1>1, Ids DEF ClientStep, IInv, ExclusiveBinding, Entry
  <2>2. CASE HasPin(d)
    <3>1. Id[d] # Id[c] /\ Id[d] \in Pins
      BY <2>2, Ids, ConstAssumption DEF HasPin
    <3> QED
      BY <1>1, <2>1, <2>2, <3>1 DEF ClientStep, Entry, HasPin
  <2>3. CASE ~HasPin(d)
    BY <1>1, <2>1, <2>3, Ids DEF ClientStep, Entry, HasPin, Vectors
  <2> QED
    BY <2>2, <2>3
<1>5. OwedEnabled'
  BY <1>1 DEF ClientStep, IInv, OwedEnabled, TypeOK
<1>6. Handlers'[Bank] = "DispatchIsr" /\ NoSpurious' /\ ServedBound'
  BY <1>1, Ids DEF ClientStep, IInv, Vectors, NoSpurious, ServedBound
<1>7. LatchedBound'
  <2> SUFFICES ASSUME NEW bit \in irqStatus'
               PROVE  \E d \in Clients : /\ HasPin(d) /\ PinOffset(Id[d]) = bit
                                         /\ state'[d] \in {"bound", "enabled"}
    BY <1>1 DEF ClientStep, LatchedBound, High, HasPin, PinOffset
  <2>1. PICK d \in Clients : /\ HasPin(d) /\ PinOffset(Id[d]) = bit
                             /\ state[d] \in {"bound", "enabled"}
    BY <1>1 DEF ClientStep, IInv, LatchedBound
  <2>2. state'[d] \in {"bound", "enabled"}
    BY <1>1, <2>1 DEF ClientStep
  <2> QED
    BY <2>1, <2>2
<1> QED
  BY <1>1, <1>2, <1>3, <1>4, <1>5, <1>6, <1>7 DEF IInv

-----------------------------------------------------------------------------
(* The interrupt and the devices *)

\* An asserted source has its client's handler, so no IRQ is spurious.
LEMMA TakePreserves ==
    ASSUME IInv, NEW v \in Vectors, TakeIrq(v)
    PROVE  IInv'
<1> USE DEF IInv, TakeIrq, threadVars, tableVars, bankVars, deviceVars
<1>1. Handlers[v] # "Spurious" /\ (v # Bank => Handlers[v] \in Clients)
  <2>1. CASE v = Bank
    BY <2>1
  <2>2. CASE v # Bank
    <3>1. PICK c \in owed : Id[c] = v
      BY <2>2 DEF Asserted
    <3>2. c \in Clients /\ ~HasPin(c) /\ state[c] = "enabled"
      BY <2>2, <3>1, ConstAssumption DEF TypeOK, OwedEnabled, HasPin, Vectors
    <3> QED
      BY <2>2, <3>1, <3>2, Ids DEF ExclusiveBinding
  <2> QED
    BY <2>1, <2>2
<1>2. TypeOK'
  BY <1>1 DEF TypeOK, Vectors
<1>3. OneCall' /\ StoreFindsFree' /\ ExclusiveBinding' /\ OwedEnabled'
      /\ Handlers'[Bank] = "DispatchIsr"
  BY DEF OneCall, StoreFindsFree, ExclusiveBinding, OwedEnabled, HasPin
<1>4. High' \subseteq irqStatus
  BY DEF High
<1>5. LatchedBound'
  BY <1>4 DEF LatchedBound, HasPin, PinOffset
<1>6. ServedBound' /\ NoSpurious'
  BY <1>1 DEF ServedBound, NoSpurious
<1> QED
  BY <1>2, <1>3, <1>5, <1>6

\* What a handler may do: it leaves the tables alone, and takes at most its own
\* client from enabled to bound.
LEMMA HandlerEffects ==
    ASSUME IInv, NEW c \in Clients, HandlerRuns(c)
    PROVE  /\ owed' = owed \ {c}
           /\ state' = state \/ (state[c] = "enabled" /\ state' = [state EXCEPT ![c] = "bound"])
           /\ mir' \subseteq Vectors /\ irqEnable' \subseteq irqEnable
BY Ids DEF HandlerRuns, IInv, TypeOK, Vectors

\* A handler's run preserves what depends on the clients' states.
LEMMA HandlerPreserves ==
    ASSUME IInv, NEW c \in Clients, HandlerRuns(c), isr # <<>>,
           isr' \in [vector : Vectors, high : SUBSET BankBits,
                     step : {"ack", "serve", "pins", "end"}],
           isr'.step # "serve", isr'.high \subseteq isr.high,
           UNCHANGED <<pc, tableVars, irqStatus, agreed, events, faulted>>
    PROVE  IInv'
<1> USE HandlerEffects DEF IInv, tableVars
<1>1. TypeOK'
  BY DEF TypeOK
<1>2. OneCall' /\ NoSpurious' /\ ServedBound' /\ Handlers'[Bank] = "DispatchIsr"
  BY DEF OneCall, NoSpurious, ServedBound
<1>3. StoreFindsFree' /\ ExclusiveBinding' /\ OwedEnabled'
  BY DEF StoreFindsFree, ExclusiveBinding, OwedEnabled, HasPin, TypeOK
<1>4. High' \subseteq High
  BY DEF High
<1>5. LatchedBound'
  BY <1>4 DEF LatchedBound, HasPin, PinOffset, TypeOK
<1> QED
  BY <1>1, <1>2, <1>3, <1>5

\* The rest of an interrupt preserves the invariant.
LEMMA ServeSourcePreserves ==
    ASSUME IInv, ServeSource
    PROVE  IInv'
BY HandlerPreserves DEF ServeSource, InIsr, IInv, ServedBound, TypeOK, tableVars

\* A pin that was read has its client's handler.
LEMMA ServePinPreserves ==
    ASSUME IInv, ServePin
    PROVE  IInv'
<1>1. PICK bit \in isr.high :
        /\ isr' = [isr EXCEPT !.high = @ \ {bit}]
        /\ GpioPins[PinAt(bit)] # "Spurious" =>
                HandlerRuns(GpioPins[PinAt(bit)]) /\ faulted' = faulted
  BY DEF ServePin
<1>2. isr # <<>> /\ isr.step = "pins"
      /\ UNCHANGED <<pc, tableVars, irqStatus, agreed, events>>
  BY DEF ServePin, InIsr
<1>3. PICK c \in Clients : /\ HasPin(c) /\ PinOffset(Id[c]) = bit
                           /\ state[c] \in {"bound", "enabled"}
  BY <1>2 DEF IInv, LatchedBound, High
<1>4. GpioPins[PinAt(bit)] = c
  BY <1>3, PinBits DEF IInv, ExclusiveBinding, HasPin
<1>5. HandlerRuns(c) /\ faulted' = faulted
  BY <1>1, <1>4, Ids
<1>6. isr' \in [vector : Vectors, high : SUBSET BankBits,
                step : {"ack", "serve", "pins", "end"}]
      /\ isr'.step # "serve" /\ isr'.high \subseteq isr.high
  BY <1>1, <1>2 DEF IInv, TypeOK
<1> QED
  BY <1>2, <1>5, <1>6, HandlerPreserves

\* The dispatcher's own steps preserve the invariant.
LEMMA DispatchPreserves ==
    ASSUME IInv, AckPins \/ UnmaskBank \/ IrqEnd
    PROVE  IInv'
<1> USE DEF IInv, InIsr, threadVars, tableVars, bankVars, deviceVars
<1>1. isr # <<>> /\ High' \subseteq High /\ irqStatus' \subseteq irqStatus
      /\ UNCHANGED <<threadVars, tableVars, deviceVars, faulted, irqEnable>>
      /\ mir' \subseteq mir
  BY DEF AckPins, UnmaskBank, IrqEnd, High, Acknowledged, TypeOK
<1>2. isr' # <<>> => isr' \in [vector : Vectors, high : SUBSET BankBits,
                               step : {"ack", "serve", "pins", "end"}]
                     /\ isr'.step # "serve"
  BY DEF AckPins, UnmaskBank, IrqEnd, TypeOK
<1>3. TypeOK'
  <2>1. agreed' \in BOOLEAN
    BY DEF AckPins, UnmaskBank, IrqEnd, TypeOK
  <2> QED
    BY <1>1, <1>2, <2>1 DEF TypeOK
<1>4. OneCall' /\ StoreFindsFree' /\ ExclusiveBinding' /\ OwedEnabled' /\ NoSpurious'
      /\ ServedBound' /\ Handlers'[Bank] = "DispatchIsr"
  BY <1>1, <1>2 DEF OneCall, StoreFindsFree, ExclusiveBinding, OwedEnabled, NoSpurious,
                    ServedBound, HasPin
<1>5. LatchedBound'
  BY <1>1 DEF LatchedBound, HasPin, PinOffset
<1> QED
  BY <1>3, <1>4, <1>5

\* A device's event preserves the invariant: only an enabled pin is latched.
LEMMA EventPreserves ==
    ASSUME IInv, NEW c \in Clients, Event(c)
    PROVE  IInv'
<1> USE Ids DEF IInv, Event, threadVars, tableVars
<1>1. TypeOK'
  BY DEF TypeOK
<1>2. OneCall' /\ StoreFindsFree' /\ ExclusiveBinding' /\ OwedEnabled' /\ NoSpurious'
      /\ ServedBound' /\ Handlers'[Bank] = "DispatchIsr"
  BY DEF OneCall, StoreFindsFree, ExclusiveBinding, OwedEnabled, NoSpurious,
         ServedBound, HasPin
<1>3. LatchedBound'
  BY DEF LatchedBound, High, HasPin, PinOffset
<1> QED
  BY <1>1, <1>2, <1>3

-----------------------------------------------------------------------------

\* The strengthened invariant holds in every state.
THEOREM Invariance == SafeCallers /\ Spec => []IInv
<1> SUFFICES ASSUME SafeCallers PROVE Spec => []IInv
  OBVIOUS
<1>1. IInv /\ [Next]_vars => IInv'
  <2> SUFFICES ASSUME IInv, [Next]_vars PROVE IInv'
    OBVIOUS
  <2>1. CASE Irq
    BY <2>1, TakePreserves, ServeSourcePreserves, ServePinPreserves, DispatchPreserves
    DEF Irq
  <2>2. ASSUME NEW c \in Clients, Call(c) \/ Returns(c) PROVE IInv'
    BY <2>2, CallPreserves
  <2>3. ASSUME NEW c \in Clients, Event(c) PROVE IInv'
    BY <2>3, EventPreserves
  <2>4. CASE UNCHANGED vars
    BY <2>4 DEF vars, threadVars, tableVars, bankVars, deviceVars, IInv, TypeOK, OneCall,
       StoreFindsFree, ExclusiveBinding, OwedEnabled, LatchedBound, High, ServedBound,
       NoSpurious, HasPin, PinOffset
  <2> QED
    BY <2>1, <2>2, <2>3, <2>4 DEF Next
<1> QED
  BY <1>1, Initially, PTL DEF Spec

\* The dispatchers' tables and registers keep their types.
THEOREM TypeCorrect == SafeCallers /\ Spec => []TypeOK
<1>1. IInv => TypeOK
  BY DEF IInv
<1> QED
  BY <1>1, Invariance, PTL

\* A bound client is the one whose handler is called: Bind() hands a source out
\* once although it tests and stores under two locks.
THEOREM BindingIsExclusive == SafeCallers /\ Spec => []ExclusiveBinding
<1>1. IInv => ExclusiveBinding
  BY DEF IInv
<1> QED
  BY <1>1, Invariance, PTL

\* No interrupt reaches a Spurious() handler.
THEOREM NeverSpurious == SafeCallers /\ Spec => []NoSpurious
<1>1. IInv => NoSpurious
  BY DEF IInv
<1> QED
  BY <1>1, Invariance, PTL

-----------------------------------------------------------------------------
(* The bank's vector follows its pins, but for one race. *)

\* Enable() of a pin comes when Disable() of another has found the bank without pins
\* and has not masked it yet (gpio_interrupts.cpp:225-228).
EnableMeetsMask == \E c, d \in Clients : EnablePin(c) /\ HasPin(d) /\ pc[d] = "mask"

\* An enabled pin whose bank is masked is on its way to being unmasked, and a
\* thread that is about to mask the bank still finds it without a pin.
BankInv ==
    /\ irqEnable # {} => \/ Bank \notin mir
                         \/ isr # <<>> /\ isr.step \in {"ack", "pins"}
                         \/ \E c \in Clients : HasPin(c) /\ pc[c] = "unmask"
    /\ \A c \in Clients : HasPin(c) /\ pc[c] = "mask" => irqEnable = {}

\* A step of a call preserves it.
LEMMA BankCall ==
    ASSUME ~EnableMeetsMask, IInv, BankInv, NEW c \in Clients, Call(c) \/ Returns(c)
    PROVE  BankInv'
<1>1. isr = <<>> /\ pc \in [Clients -> {"out", "store", "unmask", "lastTest", "mask"}]
  BY DEF Call, Returns, BindTest, BindPin, EnableSource, EnablePin, DisableSource,
     DisablePin, Clear, UnbindSource, UnbindPin, BindStore, Unmask, DisableLastTest,
     Mask, Calls, GoesOn, Runs, IInv, TypeOK
<1> USE <1>1, Ids DEF BankInv, HasPin, Calls, GoesOn, bankVars
<1>2. CASE BindTest(c) BY <1>2 DEF BindTest
<1>3. CASE BindPin(c) BY <1>3 DEF BindPin
<1>4. CASE EnableSource(c) BY <1>4 DEF EnableSource
<1>5. CASE EnablePin(c) BY <1>5 DEF EnablePin, EnableMeetsMask
<1>6. CASE DisableSource(c) BY <1>6 DEF DisableSource
<1>7. CASE DisablePin(c) BY <1>7 DEF DisablePin
<1>8. CASE Clear(c) BY <1>8 DEF Clear
<1>9. CASE UnbindSource(c) BY <1>9 DEF UnbindSource
<1>10. CASE UnbindPin(c) BY <1>10 DEF UnbindPin
<1>11. CASE BindStore(c) BY <1>11 DEF BindStore
<1>12. CASE Unmask(c) BY <1>12 DEF Unmask, Vector
<1>13. CASE DisableLastTest(c) BY <1>13 DEF DisableLastTest, WasLast
<1>14. CASE Mask(c) BY <1>14 DEF Mask, Vector
<1> QED
  BY <1>2, <1>3, <1>4, <1>5, <1>6, <1>7, <1>8, <1>9, <1>10, <1>11, <1>12, <1>13,
     <1>14 DEF Call, Returns

\* A step of an interrupt preserves it.
LEMMA BankIrq ==
    ASSUME IInv, BankInv, Irq
    PROVE  BankInv'
<1> USE DEF BankInv, HasPin, InIsr, bankVars, threadVars
<1>1. CASE \E v \in Vectors : TakeIrq(v) BY <1>1 DEF TakeIrq
<1>2. ASSUME NEW c \in Clients, HandlerRuns(c), isr # <<>>, UNCHANGED pc,
             isr.step = "pins" => isr' # <<>> /\ isr'.step = "pins"
      PROVE  isr.step \in {"serve", "pins"} => BankInv'
  <2>1. /\ irqEnable' \subseteq irqEnable
        /\ irqEnable' # {} => (Bank \in mir' => Bank \in mir)
    BY <1>2, Ids DEF HandlerRuns, WasLast
  <2> QED
    BY <1>2, <2>1
<1>3. CASE ServeSource
  BY <1>3, <1>2 DEF ServeSource, IInv, ServedBound
<1>4. CASE ServePin
  <2>1. PICK bit \in isr.high :
        /\ isr' = [isr EXCEPT !.high = @ \ {bit}]
        /\ HandlerRuns(GpioPins[PinAt(bit)]) \/ UNCHANGED <<mir, irqEnable>>
        /\ GpioPins[PinAt(bit)] \in Clients \/ UNCHANGED <<mir, irqEnable>>
    <3>1. PICK bit \in isr.high :
        /\ isr' = [isr EXCEPT !.high = @ \ {bit}]
        /\ IF GpioPins[PinAt(bit)] = "Spurious" THEN UNCHANGED <<mir, irqEnable>>
           ELSE HandlerRuns(GpioPins[PinAt(bit)])
      BY <1>4 DEF ServePin
    <3>2. PinAt(bit) \in Pins
      BY <1>4, <3>1, PinBits DEF ServePin, IInv, LatchedBound, High
    <3> QED
      BY <3>1, <3>2 DEF IInv, TypeOK
  <2>2. isr # <<>> /\ isr.step = "pins" /\ UNCHANGED pc
    BY <1>4 DEF ServePin
  <2>3. isr' # <<>> /\ isr'.step = "pins"
    BY <2>1, <2>2 DEF IInv, TypeOK
  <2> QED
    BY <2>1, <2>2, <2>3, <1>2
<1>5. CASE AckPins BY <1>5 DEF AckPins, IInv, TypeOK
<1>6. CASE UnmaskBank BY <1>6 DEF UnmaskBank
<1>7. CASE IrqEnd BY <1>7 DEF IrqEnd
<1> QED
  BY <1>1, <1>3, <1>4, <1>5, <1>6, <1>7 DEF Irq

\* Between the calls and the interrupts the bank of an enabled pin is unmasked, though
\* threads preempt each other inside their calls and handlers disable pins of their own:
\* the one step that loses an interrupt is Enable() of a pin between the test and the
\* mask of Disable(), gpio_interrupts.cpp:225-228.
THEOREM BankIsUnmasked ==
    SafeCallers /\ Spec /\ [][~EnableMeetsMask]_vars => []BankFollowsPins
<1> SUFFICES ASSUME SafeCallers PROVE Spec /\ [][~EnableMeetsMask]_vars => []BankFollowsPins
  OBVIOUS
<1>1. Init => BankInv
  BY DEF Init, BankInv
<1>2. IInv /\ BankInv /\ [Next]_vars /\ [~EnableMeetsMask]_vars => BankInv'
  <2> SUFFICES ASSUME IInv, BankInv, [Next]_vars, [~EnableMeetsMask]_vars PROVE BankInv'
    OBVIOUS
  <2>1. ASSUME NEW c \in Clients, Event(c) PROVE BankInv'
    BY <2>1 DEF Event, BankInv, threadVars, HasPin
  <2>2. CASE UNCHANGED vars
    BY <2>2 DEF vars, threadVars, bankVars, BankInv, HasPin
  <2>3. CASE Next /\ ~EnableMeetsMask
    BY <2>1, <2>3, BankCall, BankIrq DEF Next
  <2> QED
    BY <2>2, <2>3
<1>3. BankInv => BankFollowsPins
  BY DEF BankInv, BankFollowsPins
<1> QED
  BY <1>1, <1>2, <1>3, Invariance, PTL DEF Spec

-----------------------------------------------------------------------------
(* PrcmInterrupts *)

Places == {"free", "binding", "bound", "enabled"}
Has == {"bound", "enabled"}

PrcmTypes ==
    /\ handlers \in [PrcmIds -> PrcmClients \cup {NoClient}]
    /\ root \in [count : Nat, enabled : BOOLEAN]
    /\ prcmIrqEnable \subseteq PrcmIds
    /\ prcmPc \in [PrcmClients -> Places]

\* TheRootInterruptEnable is the number of enabled sources.
CountIsTrue ==
    /\ IsFiniteSet(prcmIrqEnable)
    /\ root.count = Cardinality(prcmIrqEnable)
    /\ root.enabled = (prcmIrqEnable # {})

\* The table names the clients that have bound a source, and no others.
TableIsTrue ==
    /\ \A c \in PrcmClients : prcmPc[c] \in Has => handlers[PrcmId[c]] = c
    /\ \A id \in PrcmIds : handlers[id] # NoClient =>
           PrcmId[handlers[id]] = id /\ prcmPc[handlers[id]] \in Has

EnableIsTrue ==
    /\ \A c \in PrcmClients : prcmPc[c] = "enabled" => PrcmId[c] \in prcmIrqEnable
    /\ \A id \in prcmIrqEnable : handlers[id] # NoClient /\ prcmPc[handlers[id]] = "enabled"

\* Between the test and the store of Bind() the source stays free.
StoreIsFree ==
    \A c \in PrcmClients : prcmPc[c] = "binding" =>
        /\ handlers[PrcmId[c]] = NoClient
        /\ \A d \in PrcmClients : prcmPc[d] = "binding" => c = d

\* What Dispatch() has still to call is enabled: only handlers run meanwhile.
DispatchedEnabled == status \subseteq prcmIrqEnable /\ ~spurious

PrcmInv == PrcmTypes /\ CountIsTrue /\ TableIsTrue /\ EnableIsTrue /\ StoreIsFree
           /\ DispatchedEnabled

\* The clients' names are not the value that stands for the empty entry, and the
\* callers of Bind() do not preempt each other.
PrcmSafe == NoClient \notin PrcmClients /\ ~PrcmPreempt

\* The boot state satisfies the invariant.
LEMMA PrcmInitially == PrcmInit => PrcmInv
<1> SUFFICES ASSUME PrcmInit PROVE PrcmInv
  OBVIOUS
<1> USE DEF PrcmInit
<1>1. PrcmTypes
  BY DEF PrcmTypes, Places
<1>2. CountIsTrue
  BY FS_EmptySet DEF CountIsTrue
<1>3. TableIsTrue /\ EnableIsTrue /\ StoreIsFree /\ DispatchedEnabled
  BY DEF TableIsTrue, EnableIsTrue, StoreIsFree, DispatchedEnabled, Has
<1> QED
  BY <1>1, <1>2, <1>3 DEF PrcmInv

\* A client's id is one of the sources.
LEMMA IdsOfClients == \A c \in PrcmClients : PrcmId[c] \in PrcmIds
BY DEF PrcmIds

\* A source that becomes enabled is counted.
LEMMA CountsUp ==
    ASSUME PrcmTypes, CountIsTrue, NEW id \in PrcmIds, id \notin prcmIrqEnable,
           root' = [count |-> root.count + 1, enabled |-> root.enabled \/ Counted(1)],
           prcmIrqEnable' = prcmIrqEnable \cup {id}
    PROVE  CountIsTrue' /\ root' \in [count : Nat, enabled : BOOLEAN]
<1>1. IsFiniteSet(prcmIrqEnable') /\ Cardinality(prcmIrqEnable') = Cardinality(prcmIrqEnable) + 1
  BY FS_AddElement DEF CountIsTrue
<1>2. Cardinality(prcmIrqEnable) \in Nat /\ (Cardinality(prcmIrqEnable) = 0 <=> prcmIrqEnable = {})
  BY FS_CardinalityType, FS_EmptySet DEF CountIsTrue
<1>3. root.count \in Nat /\ root.enabled \in BOOLEAN /\ root.count = Cardinality(prcmIrqEnable)
  BY DEF PrcmTypes, CountIsTrue
<1>4. root'.count = root.count + 1 /\ root'.enabled = (root.enabled \/ root.count + 1 = 1)
  BY DEF Counted
<1>5. root'.enabled /\ prcmIrqEnable' # {}
  <2>1. CASE prcmIrqEnable = {}
    <3>1. root.count + 1 = 1
      BY <1>2, <1>3, <2>1
    <3> QED
      BY <1>4, <3>1
  <2>2. CASE prcmIrqEnable # {}
    <3>1. root.enabled
      BY <2>2 DEF CountIsTrue
    <3> QED
      BY <1>4, <3>1
  <2> QED
    BY <2>1, <2>2
<1>6. root' \in [count : Nat, enabled : BOOLEAN]
  BY <1>3 DEF Counted
<1> QED
  BY <1>1, <1>3, <1>4, <1>5, <1>6 DEF CountIsTrue

\* A source that is no longer enabled is not counted any more, and the last one
\* switches the interrupt off.
LEMMA CountsDown ==
    ASSUME PrcmTypes, CountIsTrue, NEW id \in prcmIrqEnable,
           root' = [count |-> root.count - 1, enabled |-> root.enabled /\ ~Last(root.count)],
           prcmIrqEnable' = prcmIrqEnable \ {id}
    PROVE  CountIsTrue' /\ root' \in [count : Nat, enabled : BOOLEAN]
<1>1. IsFiniteSet(prcmIrqEnable') /\ Cardinality(prcmIrqEnable') = Cardinality(prcmIrqEnable) - 1
  BY FS_RemoveElement DEF CountIsTrue
<1>2. Cardinality(prcmIrqEnable') \in Nat /\ (Cardinality(prcmIrqEnable') = 0 <=> prcmIrqEnable' = {})
  BY <1>1, FS_CardinalityType, FS_EmptySet
<1>3. root.count \in Nat /\ root.enabled \in BOOLEAN /\ root.count = Cardinality(prcmIrqEnable)
  BY DEF PrcmTypes, CountIsTrue
<1>4. root.enabled
  BY DEF CountIsTrue
<1>5. root'.count = root.count - 1 /\ root'.enabled = ~(root.count = 1)
  BY <1>4 DEF Last
<1>6. root'.count \in Nat /\ root'.enabled = (prcmIrqEnable' # {})
  BY <1>1, <1>2, <1>3, <1>5
<1>7. root' \in [count : Nat, enabled : BOOLEAN]
  BY <1>5, <1>6
<1> QED
  BY <1>1, <1>3, <1>5, <1>6, <1>7 DEF CountIsTrue

\* Where the interrupt's state is left alone the count stays true.
LEMMA CountStays ==
    ASSUME CountIsTrue, UNCHANGED <<root, prcmIrqEnable>>
    PROVE  CountIsTrue'
BY DEF CountIsTrue

\* Bind() finds the entry empty.
LEMMA BindTestKeeps ==
    ASSUME PrcmSafe, PrcmInv, NEW c \in PrcmClients, PrcmBindTest(c)
    PROVE  PrcmInv'
<1> USE DEF PrcmInv, PrcmBindTest, At
<1>1. PrcmTypes'
  BY DEF PrcmTypes, Places
<1>2. CountIsTrue'
  BY CountStays
<1>3. TableIsTrue'
  BY DEF TableIsTrue, PrcmTypes, Has, PrcmSafe
<1>4. EnableIsTrue'
  BY DEF EnableIsTrue, PrcmTypes
<1>5. StoreIsFree'
  BY DEF StoreIsFree, PrcmTypes, PrcmSafe
<1>6. DispatchedEnabled'
  BY DEF DispatchedEnabled
<1> QED
  BY <1>1, <1>2, <1>3, <1>4, <1>5, <1>6

\* Bind() fills the entry.
LEMMA BindStoreKeeps ==
    ASSUME PrcmSafe, PrcmInv, NEW c \in PrcmClients, PrcmBindStore(c)
    PROVE  PrcmInv'
<1> USE IdsOfClients DEF PrcmInv, PrcmBindStore, At
<1>1. PrcmTypes'
  BY DEF PrcmTypes, Places
<1>2. CountIsTrue'
  BY CountStays
<1>3. TableIsTrue'
  BY DEF TableIsTrue, StoreIsFree, PrcmTypes, Has, PrcmSafe
<1>4. EnableIsTrue'
  BY DEF EnableIsTrue, StoreIsFree, PrcmTypes
<1>5. StoreIsFree'
  BY DEF StoreIsFree, PrcmTypes, PrcmSafe
<1>6. DispatchedEnabled'
  BY DEF DispatchedEnabled
<1> QED
  BY <1>1, <1>2, <1>3, <1>4, <1>5, <1>6

\* Unbind() empties the entry of a client that has its source disabled.
LEMMA UnbindKeeps ==
    ASSUME PrcmSafe, PrcmInv, NEW c \in PrcmClients, PrcmUnbind(c)
    PROVE  PrcmInv'
<1> USE IdsOfClients DEF PrcmInv, PrcmUnbind, At
<1>1. PrcmTypes'
  BY DEF PrcmTypes, Places
<1>2. CountIsTrue'
  BY CountStays
<1>3. TableIsTrue'
  BY DEF TableIsTrue, PrcmTypes, Has, PrcmSafe
<1>4. EnableIsTrue'
  BY DEF EnableIsTrue, TableIsTrue, PrcmTypes, Has
<1>5. StoreIsFree'
  BY DEF StoreIsFree, PrcmTypes, PrcmSafe
<1>6. DispatchedEnabled'
  BY DEF DispatchedEnabled
<1> QED
  BY <1>1, <1>2, <1>3, <1>4, <1>5, <1>6

\* Enable() of a client that has it disabled: nobody else has the source enabled.
LEMMA EnableKeeps ==
    ASSUME PrcmSafe, PrcmInv, NEW c \in PrcmClients, PrcmEnable(c)
    PROVE  PrcmInv'
<1> USE IdsOfClients DEF PrcmInv, PrcmEnable, At
<1>0. handlers[PrcmId[c]] = c /\ PrcmId[c] \notin prcmIrqEnable
  BY DEF TableIsTrue, EnableIsTrue, Has
<1>1. CountIsTrue' /\ root' \in [count : Nat, enabled : BOOLEAN]
  BY <1>0, CountsUp
<1>2. PrcmTypes'
  BY <1>1 DEF PrcmTypes, Places
<1>3. TableIsTrue'
  BY DEF TableIsTrue, PrcmTypes, Has, PrcmSafe
<1>4. EnableIsTrue'
  BY <1>0 DEF EnableIsTrue, TableIsTrue, PrcmTypes, Has, PrcmSafe
<1>5. StoreIsFree'
  BY DEF StoreIsFree, PrcmTypes, PrcmSafe
<1>6. DispatchedEnabled'
  BY DEF DispatchedEnabled
<1> QED
  BY <1>1, <1>2, <1>3, <1>4, <1>5, <1>6

\* Disable(), by a thread or by the source's handler.
LEMMA DisableKeeps ==
    ASSUME PrcmSafe, PrcmTypes, CountIsTrue, TableIsTrue, EnableIsTrue, StoreIsFree,
           NEW c \in PrcmClients, At(c, "enabled", "bound"),
           root' = [count |-> root.count - 1, enabled |-> root.enabled /\ ~Last(root.count)],
           prcmIrqEnable' = prcmIrqEnable \ {PrcmId[c]}, handlers' = handlers
    PROVE  (PrcmTypes /\ CountIsTrue /\ TableIsTrue /\ EnableIsTrue /\ StoreIsFree)'
<1> USE IdsOfClients DEF At
<1>0. handlers[PrcmId[c]] = c /\ PrcmId[c] \in prcmIrqEnable
  BY DEF TableIsTrue, EnableIsTrue, Has
<1>1. CountIsTrue' /\ root' \in [count : Nat, enabled : BOOLEAN]
  BY <1>0, CountsDown
<1>2. PrcmTypes'
  BY <1>1 DEF PrcmTypes, Places
<1>3. TableIsTrue'
  BY DEF TableIsTrue, PrcmTypes, Has, PrcmSafe
<1>4. EnableIsTrue'
  BY <1>0 DEF EnableIsTrue, TableIsTrue, PrcmTypes, Has, PrcmSafe
<1>5. StoreIsFree'
  BY DEF StoreIsFree, PrcmTypes, PrcmSafe
<1> QED
  BY <1>1, <1>2, <1>3, <1>4, <1>5

\* A source is served, and perhaps disabled, by its client's handler.
LEMMA HandlerKeeps ==
    ASSUME PrcmSafe, PrcmInv, NEW id \in PrcmIds, PrcmHandler(id)
    PROVE  PrcmInv'
<1> DEFINE c == handlers[id]
<1>0. c \in PrcmClients /\ prcmPc[c] = "enabled" /\ PrcmId[c] = id
  BY DEF PrcmInv, PrcmHandler, DispatchedEnabled, EnableIsTrue, TableIsTrue, PrcmTypes
<1>1. ~spurious' /\ status' = status \ {id} /\ handlers' = handlers
  BY <1>0 DEF PrcmInv, PrcmHandler, DispatchedEnabled, PrcmSafe
<1>2. CASE UNCHANGED <<root, prcmIrqEnable, prcmPc>>
  <2>1. PrcmTypes' /\ TableIsTrue' /\ EnableIsTrue' /\ StoreIsFree'
    BY <1>1, <1>2 DEF PrcmInv, PrcmTypes, TableIsTrue, EnableIsTrue, StoreIsFree
  <2>2. DispatchedEnabled'
    BY <1>1, <1>2 DEF PrcmInv, DispatchedEnabled
  <2> QED
    BY <2>1, <2>2, <1>2, CountStays DEF PrcmInv
<1>3. CASE /\ At(c, "enabled", "bound")
           /\ root' = [count |-> root.count - 1,
                       enabled |-> root.enabled /\ ~Last(root.count)]
           /\ prcmIrqEnable' = prcmIrqEnable \ {id}
  <2>1. (PrcmTypes /\ CountIsTrue /\ TableIsTrue /\ EnableIsTrue /\ StoreIsFree)'
    BY <1>0, <1>1, <1>3, DisableKeeps DEF PrcmInv
  <2>2. DispatchedEnabled'
    BY <1>1, <1>3 DEF PrcmInv, DispatchedEnabled
  <2> QED
    BY <2>1, <2>2 DEF PrcmInv
<1> QED
  BY <1>2, <1>3 DEF PrcmHandler, At

\* Every step keeps the invariant.
LEMMA PrcmStep == PrcmSafe /\ PrcmInv /\ [PrcmNext]_prcmVars => PrcmInv'
<1> SUFFICES ASSUME PrcmSafe, PrcmInv, [PrcmNext]_prcmVars PROVE PrcmInv'
  OBVIOUS
<1> USE DEF PrcmInv
<1>1. ASSUME NEW c \in PrcmClients, PrcmBindTest(c) \/ PrcmBindStore(c) \/ PrcmUnbind(c) \/ PrcmEnable(c)
      PROVE  PrcmInv'
  BY <1>1, BindTestKeeps, BindStoreKeeps, UnbindKeeps, EnableKeeps
<1>2. ASSUME NEW c \in PrcmClients, ~InPrcmIsr, PrcmDisable(c)
      PROVE  PrcmInv'
  <2>1. (PrcmTypes /\ CountIsTrue /\ TableIsTrue /\ EnableIsTrue /\ StoreIsFree)'
    BY <1>2, DisableKeeps DEF PrcmDisable
  <2>2. DispatchedEnabled'
    BY <1>2 DEF PrcmDisable, DispatchedEnabled, InPrcmIsr
  <2> QED
    BY <2>1, <2>2
<1>3. ASSUME NEW id \in PrcmIds, PrcmEvent(id)
      PROVE  PrcmInv'
  BY <1>3, CountStays
     DEF PrcmEvent, PrcmTypes, TableIsTrue, EnableIsTrue, StoreIsFree, DispatchedEnabled
<1>4. CASE PrcmDispatch
  BY <1>4, CountStays
     DEF PrcmDispatch, PrcmTypes, TableIsTrue, EnableIsTrue, StoreIsFree, DispatchedEnabled
<1>5. ASSUME NEW id \in PrcmIds, PrcmHandler(id)
      PROVE  PrcmInv'
  BY <1>5, HandlerKeeps
<1>6. CASE UNCHANGED prcmVars
  BY <1>6, CountStays
     DEF prcmVars, PrcmTypes, TableIsTrue, EnableIsTrue, StoreIsFree, DispatchedEnabled
<1> QED
  BY <1>1, <1>2, <1>3, <1>4, <1>5, <1>6 DEF PrcmNext

\* The invariant implies the property.
LEMMA PrcmImplied == PrcmInv => PrcmRootCounts
BY DEF PrcmInv, CountIsTrue, TableIsTrue, EnableIsTrue, DispatchedEnabled, PrcmRootCounts, Has

\* TheRootInterruptEnable counts the enabled sources, and the shared interrupt is
\* on while there is one: for any clients and sources, where no caller of Bind()
\* preempts another.
THEOREM PrcmCounted ==
    ASSUME PrcmSafe
    PROVE  PrcmSpec => []PrcmRootCounts
<1>1. PrcmInv /\ [PrcmNext]_prcmVars => PrcmInv'
  BY PrcmStep
<1> QED
  BY <1>1, PrcmInitially, PrcmImplied, PTL DEF PrcmSpec

-----------------------------------------------------------------------------
(* TpsInterrupts *)

\* A handler does not access a register, and a client clears its source before it
\* unbinds it.
TpsSafe == ~HandlersWait /\ ClearsFirst

CallerPlaces == {"unbound", "bound", "enabled", "disabled", "cleared"}

\* The handler is there between Bind() and Unbind(), the source unmasked between
\* Enable() and Disable().
MaskIsTrue ==
    /\ TheHandlers \in [Irqs -> BOOLEAN] /\ caller \in [Irqs -> CallerPlaces]
    /\ masked \subseteq Irqs /\ latched \subseteq Irqs
    /\ \A s \in Irqs : TheHandlers[s] = (caller[s] # "unbound")
    /\ \A s \in Irqs : s \notin masked => caller[s] = "enabled"

\* An event stays in the status register until the source is cleared.
LatchedIsBound == \A s \in latched : caller[s] \in {"enabled", "disabled"}

DfcTypes ==
    dfc \in [at : {"idle", "queued", "regs", "calls"}, highVectors : SUBSET {StatReg[s] : s \in Irqs},
             reg : Nat, subVector : SUBSET Irqs, calls : SUBSET [source : Irqs, bound : BOOLEAN]]

\* What the DFC has read and not yet called is still bound: nothing runs in between.
ReadIsBound ==
    /\ dfc.subVector # {} => dfc.at = "calls"
    /\ \A s \in dfc.subVector : TheHandlers[s]

TpsIntInv == MaskIsTrue /\ LatchedIsBound /\ DfcTypes /\ ReadIsBound /\ TpsNoSpurious

\* The state that InitialiseTPS65950IntController() leaves satisfies the invariant.
LEMMA TpsIntInitially == TpsIntInit => TpsIntInv
<1> SUFFICES ASSUME TpsIntInit PROVE TpsIntInv
  OBVIOUS
<1>1. MaskIsTrue /\ LatchedIsBound
  BY DEF TpsIntInit, MaskIsTrue, CallerPlaces, LatchedIsBound
<1>2. DfcTypes
  BY DEF TpsIntInit, DfcTypes
<1>3. ReadIsBound /\ TpsNoSpurious
  BY DEF TpsIntInit, ReadIsBound, TpsNoSpurious
<1> QED
  BY <1>1, <1>2, <1>3 DEF TpsIntInv

\* While other threads run the DFC has nothing left to call.
LEMMA NothingToCall == TpsSafe /\ TpsIntInv /\ ~InCalls => dfc.subVector = {}
BY DEF TpsSafe, TpsIntInv, InCalls, ReadIsBound

\* A client's call, while the DFC has nothing to call.
LEMMA CallerKeeps ==
    ASSUME TpsSafe, TpsIntInv, dfc.subVector = {}, NEW s \in Irqs,
           Bind(s) \/ Enable(s) \/ Disable(s) \/ TpsClear(s) \/ Unbind(s)
    PROVE  TpsIntInv'
<1> USE DEF TpsIntInv
<1>1. dfc' = dfc
  BY DEF Bind, Enable, Disable, TpsClear, Unbind
<1>2. DfcTypes' /\ ReadIsBound' /\ TpsNoSpurious'
  BY <1>1 DEF DfcTypes, ReadIsBound, TpsNoSpurious
<1>3. CASE Bind(s)
  BY <1>2, <1>3 DEF Bind, Goes, MaskIsTrue, CallerPlaces, LatchedIsBound
<1>4. CASE Enable(s)
  BY <1>2, <1>4 DEF Enable, MaskIsTrue, CallerPlaces, LatchedIsBound
<1>5. CASE Disable(s)
  BY <1>2, <1>5 DEF Disable, Disabled, Goes, MaskIsTrue, CallerPlaces, LatchedIsBound
<1>6. CASE TpsClear(s)
  <2>1. s \in InReg(StatReg[s])
    BY DEF InReg
  <2> QED
    BY <1>2, <1>6, <2>1 DEF TpsClear, Goes, MaskIsTrue, CallerPlaces, LatchedIsBound
<1>7. CASE Unbind(s)
  BY <1>2, <1>7 DEF Unbind, Goes, MaskIsTrue, CallerPlaces, LatchedIsBound, TpsSafe
<1> QED
  BY <1>3, <1>4, <1>5, <1>6, <1>7

\* An event, and the interrupt that it raises.
LEMMA EventKeeps ==
    ASSUME TpsIntInv, dfc.subVector = {}, (\E s \in Irqs : TpsEvent(s)) \/ Dispatch
    PROVE  TpsIntInv'
<1> USE DEF TpsIntInv
<1>1. CASE Dispatch
  BY <1>1 DEF Dispatch, MaskIsTrue, LatchedIsBound, DfcTypes, ReadIsBound, TpsNoSpurious
<1>2. ASSUME NEW s \in Irqs, TpsEvent(s) PROVE TpsIntInv'
  BY <1>2 DEF TpsEvent, MaskIsTrue, LatchedIsBound, DfcTypes, ReadIsBound, TpsNoSpurious
<1> QED
  BY <1>1, <1>2

\* The DFC reads PIH_ISR and the status registers, and calls what it has read.
LEMMA DfcKeeps ==
    ASSUME TpsIntInv, DfcSteps
    PROVE  TpsIntInv'
<1> USE DEF TpsIntInv
<1>1. CASE DfcReadPih
  <2>1. {StatReg[s] : s \in latched \ masked} \subseteq {StatReg[s] : s \in Irqs}
    BY DEF MaskIsTrue
  <2> QED
    BY <1>1, <2>1
       DEF DfcReadPih, MaskIsTrue, LatchedIsBound, DfcTypes, ReadIsBound, TpsNoSpurious
<1>2. CASE DfcReadStatus
  <2> DEFINE read == IF dfc.reg \in dfc.highVectors THEN latched \cap InReg(dfc.reg) ELSE {}
  <2>1. read \subseteq latched /\ \A s \in read : s \in Irqs /\ TheHandlers[s]
    BY DEF MaskIsTrue, LatchedIsBound
  <2>2. /\ latched' = latched \ read
        /\ dfc' = [dfc EXCEPT !.at = "calls", !.subVector = read, !.calls = {}]
        /\ UNCHANGED <<TheHandlers, masked, caller>>
    BY <1>2 DEF DfcReadStatus
  <2> HIDE DEF read
  <2>3. MaskIsTrue' /\ LatchedIsBound'
    BY <2>1, <2>2 DEF MaskIsTrue, LatchedIsBound
  <2>4. DfcTypes' /\ ReadIsBound' /\ TpsNoSpurious'
    BY <2>1, <2>2 DEF DfcTypes, ReadIsBound, TpsNoSpurious
  <2> QED
    BY <2>3, <2>4
<1>3. ASSUME NEW called \in SUBSET Irqs, DfcCall(called) PROVE TpsIntInv'
  <2> DEFINE made == {[source |-> s, bound |-> TheHandlers[s]] : s \in called}
  <2>1. made \subseteq [source : Irqs, bound : BOOLEAN] /\ \A c \in made : c.bound
    BY <1>3 DEF DfcCall, ReadIsBound, MaskIsTrue
  <2>2. /\ dfc' = [dfc EXCEPT !.subVector = @ \ called, !.calls = made]
        /\ dfc.at = "calls"
        /\ UNCHANGED <<TheHandlers, masked, latched, caller>>
    BY <1>3 DEF DfcCall
  <2> HIDE DEF made
  <2>3. MaskIsTrue' /\ LatchedIsBound'
    BY <2>2 DEF MaskIsTrue, LatchedIsBound
  <2>4. DfcTypes' /\ ReadIsBound' /\ TpsNoSpurious'
    BY <2>1, <2>2 DEF DfcTypes, ReadIsBound, TpsNoSpurious
  <2> QED
    BY <2>3, <2>4
<1>4. ASSUME DfcNextReg \/ DfcEnd PROVE TpsIntInv'
  <2>1. MaskIsTrue' /\ LatchedIsBound'
    BY <1>4 DEF DfcNextReg, DfcEnd, MaskIsTrue, LatchedIsBound
  <2>2. CASE DfcNextReg
    <3>1. dfc' = [dfc EXCEPT !.at = "regs", !.reg = @ + 1, !.calls = {}]
          /\ dfc.subVector = {} /\ TheHandlers' = TheHandlers
      BY <2>2 DEF DfcNextReg
    <3>2. dfc.reg + 1 \in Nat /\ {} \in SUBSET [source : Irqs, bound : BOOLEAN]
      BY DEF DfcTypes
    <3>3. DfcTypes'
      BY <3>1, <3>2 DEF DfcTypes
    <3>4. ReadIsBound' /\ TpsNoSpurious'
      BY <3>1 DEF DfcTypes, ReadIsBound, TpsNoSpurious
    <3> QED
      BY <2>1, <3>3, <3>4
  <2>3. CASE DfcEnd
    <3>1. dfc' = [dfc EXCEPT !.at = "idle", !.reg = 0, !.highVectors = {}]
          /\ dfc.at = "regs" /\ TheHandlers' = TheHandlers
      BY <2>3 DEF DfcEnd
    <3>2. DfcTypes'
      BY <3>1 DEF DfcTypes
    <3>3. ReadIsBound' /\ TpsNoSpurious'
      BY <3>1 DEF DfcTypes, ReadIsBound, TpsNoSpurious
    <3> QED
      BY <2>1, <3>2, <3>3
  <2> QED
    BY <1>4, <2>2, <2>3
<1> QED
  BY <1>1, <1>2, <1>3, <1>4 DEF DfcSteps

\* Every step keeps the invariant.
LEMMA TpsIntStep == TpsSafe /\ TpsIntInv /\ [TpsIntNext]_tpsIntVars => TpsIntInv'
<1> SUFFICES ASSUME TpsSafe, TpsIntInv, [TpsIntNext]_tpsIntVars PROVE TpsIntInv'
  OBVIOUS
<1>1. CASE UNCHANGED tpsIntVars
  BY <1>1
     DEF tpsIntVars, TpsIntInv, MaskIsTrue, LatchedIsBound, DfcTypes, ReadIsBound, TpsNoSpurious
<1>2. CASE DfcSteps
  BY <1>2, DfcKeeps
<1>3. ASSUME ~InCalls, (\E s \in Irqs : TpsEvent(s)) \/ Dispatch PROVE TpsIntInv'
  BY <1>3, NothingToCall, EventKeeps
<1>4. ASSUME ~InCalls, NEW s \in Irqs,
             Bind(s) \/ Enable(s) \/ Disable(s) \/ TpsClear(s) \/ Unbind(s)
      PROVE  TpsIntInv'
  BY <1>4, NothingToCall, CallerKeeps
<1> QED
  BY <1>1, <1>2, <1>3, <1>4 DEF TpsIntNext

\* Whatever the clients do while the DFC waits for the chip, it calls no handler that
\* is not bound: for any sources and status registers, where no handler waits and
\* clients clear a source before they unbind it.
THEOREM TpsNeverSpurious ==
    ASSUME TpsSafe
    PROVE  TpsIntSpec => []TpsNoSpurious
<1>1. TpsIntInv /\ [TpsIntNext]_tpsIntVars => TpsIntInv'
  BY TpsIntStep
<1>2. TpsIntInv => TpsNoSpurious
  BY DEF TpsIntInv
<1> QED
  BY <1>1, <1>2, TpsIntInitially, PTL DEF TpsIntSpec
=============================================================================
