----------------------------- MODULE Interrupts -----------------------------
(***************************************************************************)
(* The main interrupt controller's dispatcher (assp/src/interrupts.cpp)    *)
(* and the dispatcher of one GPIO bank behind it                           *)
(* (omap3530_drivers/gpio/gpio_interrupts.cpp).                            *)
(*                                                                         *)
(* A client binds an interrupt id: a source of the main controller or a    *)
(* pin of the bank.  Client threads go through the functions in the steps  *)
(* their locks leave; the IRQ may come between any two steps and runs to   *)
(* its end before a thread goes on.  The controller, the bank's registers  *)
(* and the devices are modelled from how the two dispatchers use them.     *)
(***************************************************************************)
EXTENDS Integers, FiniteSets

CONSTANTS
    Clients,
    Sources,        \* vectors of the main controller that clients bind
    Bank,           \* the bank's vector, bound to DispatchIsr at boot
    BankNumber,
    Pins,           \* pin numbers of the bank
    Id,             \* [Clients -> the source or pin the client binds]
    Preempt,        \* TRUE: client threads preempt each other inside a call
    KMaxEvents      \* bound: events the devices raise altogether

KHwGpioPinsPerBank == 32

ASSUME ConstAssumption ==
    /\ Bank \notin Sources
    /\ BankNumber \in Nat
    /\ Pins \subseteq (BankNumber * KHwGpioPinsPerBank)..
                      (BankNumber * KHwGpioPinsPerBank + KHwGpioPinsPerBank - 1)
    /\ Pins \cap (Sources \union {Bank}) = {}
    /\ Id \in [Clients -> Sources \union Pins]
    /\ \A c, d \in Clients : Id[c] = Id[d] /\ Id[c] \in Pins => c = d
    /\ Clients \cap {"Spurious", "DispatchIsr"} = {}
    /\ Preempt \in BOOLEAN
    /\ KMaxEvents \in Nat

VARIABLES
    state,      \* [Clients -> "unbound" | "bound" | "cleared" | "enabled"]
    pc,         \* [Clients -> the step the client's call goes on with, or "out"]
    Handlers,   \* [vectors -> "Spurious", "DispatchIsr" or a client]
    GpioPins,   \* [Pins -> "Spurious" or a client], the field irq.iIsr
    mir,        \* the masked vectors, INTCPS_MIR
    irqEnable,  \* GPIO IRQENABLE1, the set of its bits
    irqStatus,  \* GPIO IRQSTATUS1
    agreed,     \* the controller may raise the next IRQ
    isr,        \* the running IrqDispatch(), or <<>>
    owed,       \* clients whose device waits for its handler
    events,
    faulted     \* Kern::Fault was called

threadVars == <<state, pc>>
tableVars  == <<Handlers, GpioPins>>
bankVars   == <<irqEnable, irqStatus>>
deviceVars == <<owed, events>>
vars == <<threadVars, tableVars, mir, bankVars, agreed, isr, deviceVars, faulted>>

Vectors == Sources \union {Bank}
HasPin(c) == Id[c] \in Pins

PinOffset(pin) == pin % KHwGpioPinsPerBank
PinAt(bit) == BankNumber * KHwGpioPinsPerBank + bit

Init ==
    /\ state = [c \in Clients |-> "unbound"]
    /\ pc = [c \in Clients |-> "out"]
    /\ Handlers = [v \in Vectors |-> IF v = Bank THEN "DispatchIsr" ELSE "Spurious"]
    /\ GpioPins = [p \in Pins |-> "Spurious"]
    /\ mir = Vectors
    /\ irqEnable = {} /\ irqStatus = {}
    /\ agreed = TRUE
    /\ isr = <<>>
    /\ owed = {} /\ events = 0
    /\ faulted = FALSE

-----------------------------------------------------------------------------
(* The calls of the client threads *)

Runs(c) == ~faulted /\ isr = <<>> /\ (Preempt \/ \A d \in Clients \ {c} : pc[d] = "out")
Calls(c, states) == Runs(c) /\ pc[c] = "out" /\ state[c] \in states
GoesOn(c, step) == Runs(c) /\ pc[c] = step

InUse(v) == Handlers[v] # "Spurious"

\* Interrupt::Bind tests under one lock and stores under another.
BindTest(c) ==
    /\ Calls(c, {"unbound"}) /\ ~HasPin(c) /\ ~InUse(Id[c])
    /\ pc' = [pc EXCEPT ![c] = "store"]
    /\ UNCHANGED <<state, tableVars, mir, bankVars, agreed, isr, deviceVars, faulted>>

BindStore(c) ==
    /\ GoesOn(c, "store")
    /\ Handlers' = [Handlers EXCEPT ![Id[c]] = c]
    /\ state' = [state EXCEPT ![c] = "bound"]
    /\ pc' = [pc EXCEPT ![c] = "out"]
    /\ UNCHANGED <<GpioPins, mir, bankVars, agreed, isr, deviceVars, faulted>>

\* A pin is bound without a test.
BindPin(c) ==
    /\ Calls(c, {"unbound"}) /\ HasPin(c)
    /\ GpioPins' = [GpioPins EXCEPT ![Id[c]] = c]
    /\ state' = [state EXCEPT ![c] = "bound"]
    /\ UNCHANGED <<pc, Handlers, mir, bankVars, agreed, isr, deviceVars, faulted>>

\* Enable: the handler is tested, then the source unmasked.
EnableSource(c) ==
    /\ Calls(c, {"bound", "cleared"}) /\ ~HasPin(c)
    /\ InUse(Id[c])
    /\ state' = [state EXCEPT ![c] = "enabled"]
    /\ pc' = [pc EXCEPT ![c] = "unmask"]
    /\ UNCHANGED <<tableVars, mir, bankVars, agreed, isr, deviceVars, faulted>>

EnablePin(c) ==
    /\ Calls(c, {"bound", "cleared"}) /\ HasPin(c)
    /\ GpioPins[Id[c]] # "Spurious"
    /\ irqEnable' = irqEnable \union {PinOffset(Id[c])}
    /\ state' = [state EXCEPT ![c] = "enabled"]
    /\ pc' = [pc EXCEPT ![c] = "unmask"]
    /\ UNCHANGED <<tableVars, mir, irqStatus, agreed, isr, deviceVars, faulted>>

Vector(c) == IF HasPin(c) THEN Bank ELSE Id[c]

\* ... the bank always, as IsInterruptEnabled() never finds it unmasked.
Unmask(c) ==
    /\ GoesOn(c, "unmask")
    /\ mir' = mir \ {Vector(c)}
    /\ pc' = [pc EXCEPT ![c] = "out"]
    /\ UNCHANGED <<state, tableVars, bankVars, agreed, isr, deviceVars, faulted>>

\* The device of a disabled interrupt is not waited for.
DisableSource(c) ==
    /\ Calls(c, {"enabled", "bound"}) /\ ~HasPin(c)
    /\ mir' = mir \union {Id[c]}
    /\ state' = [state EXCEPT ![c] = "bound"]
    /\ owed' = owed \ {c}
    /\ UNCHANGED <<pc, tableVars, bankVars, agreed, isr, events, faulted>>

DisablePin(c) ==
    /\ Calls(c, {"enabled", "bound"}) /\ HasPin(c)
    /\ irqEnable' = irqEnable \ {PinOffset(Id[c])}
    /\ state' = [state EXCEPT ![c] = "bound"]
    /\ owed' = owed \ {c}
    /\ pc' = [pc EXCEPT ![c] = "lastTest"]
    /\ UNCHANGED <<tableVars, mir, irqStatus, agreed, isr, events, faulted>>

\* Mutant: the bank is masked with every pin.
WasLast_Always(enables) == TRUE
WasLast(enables) == enables = {}

\* "is this the last one for this bank ? then unmap" ...
DisableLastTest(c) ==
    /\ GoesOn(c, "lastTest")
    /\ pc' = [pc EXCEPT ![c] = IF WasLast(irqEnable) THEN "mask" ELSE "out"]
    /\ UNCHANGED <<state, tableVars, mir, bankVars, agreed, isr, deviceVars, faulted>>

\* ... and masks the vector.  Unbind of a source ends like this too.
Mask(c) ==
    /\ GoesOn(c, "mask")
    /\ mir' = mir \union {Vector(c)}
    /\ pc' = [pc EXCEPT ![c] = "out"]
    /\ UNCHANGED <<state, tableVars, bankVars, agreed, isr, deviceVars, faulted>>

\* Mutant: the pin's status bit is left.
Cleared_Not(bit) == irqStatus
Cleared(bit) == irqStatus \ {bit}

\* Clear: the last bit of the bank clears the main line as well.
Clear(c) ==
    /\ Calls(c, {"bound"})
    /\ state' = [state EXCEPT ![c] = "cleared"]
    /\ IF HasPin(c)
       THEN /\ irqStatus' = Cleared(PinOffset(Id[c]))
            /\ agreed' = (agreed \/ irqStatus' = {})
       ELSE UNCHANGED <<irqStatus, agreed>>
    /\ UNCHANGED <<pc, tableVars, mir, irqEnable, isr, deviceVars, faulted>>

\* A client unbinds after it has disabled and cleared its interrupt.
UnbindSource(c) ==
    /\ Calls(c, {"cleared"}) /\ ~HasPin(c)
    /\ IF InUse(Id[c])
       THEN /\ Handlers' = [Handlers EXCEPT ![Id[c]] = "Spurious"]
            /\ pc' = [pc EXCEPT ![c] = "mask"]
       ELSE UNCHANGED <<Handlers, pc>>
    /\ state' = [state EXCEPT ![c] = "unbound"]
    /\ UNCHANGED <<GpioPins, mir, bankVars, agreed, isr, deviceVars, faulted>>

UnbindPin(c) ==
    /\ Calls(c, {"cleared"}) /\ HasPin(c)
    /\ GpioPins' = [GpioPins EXCEPT ![Id[c]] = "Spurious"]
    /\ state' = [state EXCEPT ![c] = "unbound"]
    /\ UNCHANGED <<pc, Handlers, mir, bankVars, agreed, isr, deviceVars, faulted>>

-----------------------------------------------------------------------------
(* IrqDispatch and DispatchIsr *)

Asserted(v) == IF v = Bank THEN irqStatus \cap irqEnable # {}
               ELSE \E c \in owed : Id[c] = v

\* IrqDispatch reads the vector and its handler.  DispatchIsr masks the bank
\* and reads the pins' status.
TakeIrq(v) ==
    /\ ~faulted /\ isr = <<>> /\ agreed
    /\ v \notin mir /\ Asserted(v)
    /\ agreed' = FALSE
    /\ faulted' = (Handlers[v] = "Spurious")
    /\ isr' = [vector |-> v, step |-> IF v = Bank THEN "ack" ELSE "serve",
                high |-> IF v = Bank THEN irqStatus ELSE {}]
    /\ mir' = IF v = Bank THEN mir \union {Bank} ELSE mir
    /\ UNCHANGED <<threadVars, tableVars, bankVars, deviceVars>>

InIsr(step) == ~faulted /\ isr # <<>> /\ isr.step = step

\* Client c's handler serves the device, and may disable its own interrupt.
HandlerRuns(c) ==
    /\ owed' = owed \ {c}
    /\ \/ UNCHANGED <<state, mir, irqEnable>>
       \/ /\ state[c] = "enabled"
          /\ state' = [state EXCEPT ![c] = "bound"]
          /\ IF HasPin(c)
             THEN /\ irqEnable' = irqEnable \ {PinOffset(Id[c])}
                  /\ mir' = IF WasLast(irqEnable') THEN mir \union {Bank} ELSE mir
             ELSE /\ mir' = mir \union {Id[c]}
                  /\ UNCHANGED irqEnable

ServeSource ==
    /\ InIsr("serve")
    /\ HandlerRuns(Handlers[isr.vector])
    /\ isr' = [isr EXCEPT !.step = "end"]
    /\ UNCHANGED <<pc, tableVars, irqStatus, agreed, events, faulted>>

\* Mutant: all pins are acknowledged, not those that were read.
Acknowledged_All == {}
Acknowledged == irqStatus \ isr.high

AckPins ==
    /\ InIsr("ack")
    /\ irqStatus' = Acknowledged
    /\ isr' = [isr EXCEPT !.step = "pins"]
    /\ UNCHANGED <<threadVars, tableVars, mir, irqEnable, agreed, deviceVars, faulted>>

\* The handlers of the pins that were read, in the order of their bits.
ServePin ==
    /\ InIsr("pins")
    /\ \E bit \in isr.high :
        LET handler == GpioPins[PinAt(bit)]
        IN  /\ \A b \in isr.high : bit <= b
            /\ isr' = [isr EXCEPT !.high = @ \ {bit}]
            /\ IF handler = "Spurious"
               THEN /\ faulted' = TRUE
                    /\ UNCHANGED <<owed, state, mir, irqEnable>>
               ELSE /\ HandlerRuns(handler)
                    /\ UNCHANGED faulted
    /\ UNCHANGED <<pc, tableVars, irqStatus, agreed, events>>

UnmaskBank ==
    /\ InIsr("pins") /\ isr.high = {}
    /\ mir' = mir \ {Bank}
    /\ isr' = [isr EXCEPT !.step = "end"]
    /\ UNCHANGED <<threadVars, tableVars, bankVars, agreed, deviceVars, faulted>>

IrqEnd ==
    /\ InIsr("end")
    /\ isr' = <<>>
    /\ agreed' = TRUE
    /\ UNCHANGED <<threadVars, tableVars, mir, bankVars, deviceVars, faulted>>

\* A device asks for its handler: a source's line stays asserted until it is
\* served, a pin's edge is latched while its interrupt is enabled.
Event(c) ==
    /\ ~faulted /\ state[c] = "enabled" /\ events < KMaxEvents
    /\ owed' = owed \union {c}
    /\ events' = events + 1
    /\ irqStatus' = IF HasPin(c) THEN irqStatus \union {PinOffset(Id[c])} ELSE irqStatus
    /\ UNCHANGED <<threadVars, tableVars, mir, irqEnable, agreed, isr, faulted>>

-----------------------------------------------------------------------------

Returns(c) == BindStore(c) \/ Unmask(c) \/ DisableLastTest(c) \/ Mask(c)
Call(c) == \/ BindTest(c) \/ BindPin(c) \/ EnableSource(c) \/ EnablePin(c)
           \/ DisableSource(c) \/ DisablePin(c) \/ Clear(c)
           \/ UnbindSource(c) \/ UnbindPin(c)
Irq == \/ \E v \in Vectors : TakeIrq(v)
       \/ ServeSource \/ AckPins \/ ServePin \/ UnmaskBank \/ IrqEnd

Next == Irq \/ \E c \in Clients : Call(c) \/ Returns(c) \/ Event(c)

Spec == Init /\ [][Next]_vars

\* A call that was begun goes on, and the processor takes its interrupts.
FairSpec == Spec /\ WF_vars(Irq) /\ \A c \in Clients : WF_vars(Returns(c))

-----------------------------------------------------------------------------
(* Properties *)

BankBits == {p - BankNumber * KHwGpioPinsPerBank : p \in Pins}

\* The values of the dispatchers' tables and registers.
TypeOK ==
    /\ state \in [Clients -> {"unbound", "bound", "cleared", "enabled"}]
    /\ pc \in [Clients -> {"out", "store", "unmask", "lastTest", "mask"}]
    /\ Handlers \in [Vectors -> Clients \union {"Spurious", "DispatchIsr"}]
    /\ GpioPins \in [Pins -> Clients \union {"Spurious"}]
    /\ mir \subseteq Vectors
    /\ irqEnable \subseteq BankBits /\ irqStatus \subseteq BankBits
    /\ isr # <<>> => isr \in [vector : Vectors, high : SUBSET BankBits,
                             step : {"ack", "serve", "pins", "end"}]
    /\ owed \subseteq Clients
    /\ agreed \in BOOLEAN /\ faulted \in BOOLEAN

\* A client that was told it is bound is the one whose handler is called:
\* Bind() refuses a source in use with KErrInUse (interrupts.cpp:356-358).
ExclusiveBinding ==
    \A c \in Clients : state[c] # "unbound" =>
        c = IF HasPin(c) THEN GpioPins[Id[c]] ELSE Handlers[Id[c]]

\* No interrupt reaches a Spurious() handler, which stops the system
\* (interrupts.cpp:302, gpio_interrupts.cpp:117), when clients disable and
\* clear an interrupt before they unbind it.
NoSpurious == ~faulted

\* Between the calls and the interrupts the bank's vector is unmasked when a
\* pin is enabled: Disable() masks it with "the last one for this bank"
\* (gpio_interrupts.cpp:224) only.
BankFollowsPins ==
    isr = <<>> /\ (\A c \in Clients : pc[c] = "out") /\ irqEnable # {} => Bank \notin mir

\* An enabled interrupt's event reaches its handler, unless the client
\* disables the interrupt first.
Delivered == \A c \in Clients : c \in owed ~> c \notin owed
=============================================================================
