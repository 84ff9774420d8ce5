--------------------------- MODULE TpsInterrupts ---------------------------
(***************************************************************************)
(* The interrupt dispatcher of the TPS65950 (shared/tps65950/              *)
(* tps65950_int.cpp): Bind(), Enable(), Disable(), Clear(), Unbind(), the  *)
(* ISR Dispatch() and its DFC.                                             *)
(*                                                                         *)
(* A register access waits for I2C, so other threads run at each of them.  *)
(* The sources are those whose mask and enable register is one (GPIO, MADC,*)
(* BCI, keypad: EClearToEnable).  A status register is cleared by reading  *)
(* it; an event of a masked source is taken not to be latched.             *)
(***************************************************************************)
EXTENDS Naturals

CONSTANTS
    Irqs,           \* the sources, each with one client
    StatReg,        \* [Irqs -> 1..NumRegs]: the status register it is in
    NumRegs,        \* the DFC reads them in this order
    HandlersWait,   \* a handler may access a register, and so wait
    ClearsFirst     \* a client clears its source before it unbinds it

VARIABLES
    TheHandlers,    \* [Irqs -> BOOLEAN]: FALSE is Spurious
    masked,         \* the sources whose mask bit is set
    latched,        \* the bits set in the status registers
    nirq,           \* SYS_NIRQ is enabled in the main controller
    dfc,            \* where the DFC is: see TpsIntTypeOK
    caller,         \* [Irqs -> where its client is]
    tpsOwed         \* events whose handler has still to be called

tpsIntVars == <<TheHandlers, masked, latched, nirq, dfc, caller, tpsOwed>>

InReg(i) == {s \in Irqs : StatReg[s] = i}

\* InitialiseTPS65950IntController(): all masked, the status registers read.
TpsIntInit ==
    /\ TheHandlers = [s \in Irqs |-> FALSE]
    /\ masked = Irqs
    /\ latched = {}
    /\ nirq = TRUE
    /\ dfc = [at |-> "idle", highVectors |-> {}, reg |-> 0, subVector |-> {}, calls |-> {}]
    /\ caller = [s \in Irqs |-> "unbound"]
    /\ tpsOwed = {}

-----------------------------------------------------------------------------
(* Clients *)

Goes(s, from, to) == caller[s] = from /\ caller' = [caller EXCEPT ![s] = to]

Bind(s) ==
    /\ Goes(s, "unbound", "bound")
    /\ TheHandlers' = [TheHandlers EXCEPT ![s] = TRUE]
    /\ UNCHANGED <<masked, latched, nirq, dfc, tpsOwed>>

Enable(s) ==
    /\ caller[s] \in {"bound", "disabled"}
    /\ caller' = [caller EXCEPT ![s] = "enabled"]
    /\ masked' = masked \ {s}
    /\ UNCHANGED <<TheHandlers, latched, nirq, dfc, tpsOwed>>

\* Mutant: the mask bit is cleared.
Disabled_Cleared(s) == masked \ {s}
Disabled(s) == masked \cup {s}

Disable(s) ==
    /\ Goes(s, "enabled", "disabled")
    /\ masked' = Disabled(s)
    /\ UNCHANGED <<TheHandlers, latched, nirq, dfc, tpsOwed>>

\* "clear on read !  //we may lose some of the other ints"
TpsClear(s) ==
    /\ Goes(s, "disabled", "cleared")
    /\ latched' = latched \ InReg(StatReg[s])
    /\ tpsOwed' = tpsOwed \ InReg(StatReg[s])
    /\ UNCHANGED <<TheHandlers, masked, nirq, dfc>>

Unbind(s) ==
    /\ Goes(s, IF ClearsFirst THEN "cleared" ELSE "disabled", "unbound")
    /\ TheHandlers' = [TheHandlers EXCEPT ![s] = FALSE]
    /\ UNCHANGED <<masked, latched, nirq, dfc, tpsOwed>>

-----------------------------------------------------------------------------
(* The chip, the ISR and the DFC *)

TpsEvent(s) ==
    /\ s \notin masked \cup latched
    /\ latched' = latched \cup {s}
    /\ tpsOwed' = tpsOwed \cup {s}
    /\ UNCHANGED <<TheHandlers, masked, nirq, dfc, caller>>

Dispatch ==
    /\ nirq
    /\ latched \ masked # {}
    /\ nirq' = FALSE
    /\ dfc' = [dfc EXCEPT !.at = "queued"]
    /\ UNCHANGED <<TheHandlers, masked, latched, caller, tpsOwed>>

\* Nothing may be pending any more: a debug build stops here.
DfcReadPih ==
    /\ dfc.at = "queued"
    /\ dfc' = [dfc EXCEPT !.at = "regs", !.reg = 1,
                          !.highVectors = {StatReg[s] : s \in latched \ masked}]
    /\ UNCHANGED <<TheHandlers, masked, latched, nirq, caller, tpsOwed>>

\* The registers of the modules that PIH_ISR does not name are not read.
DfcReadStatus ==
    /\ dfc.at = "regs" /\ dfc.reg <= NumRegs
    /\ LET i == dfc.reg
           read == IF i \in dfc.highVectors THEN latched \cap InReg(i) ELSE {}
       IN  /\ latched' = latched \ read
           /\ dfc' = [dfc EXCEPT !.at = "calls", !.subVector = read, !.calls = {}]
    /\ UNCHANGED <<TheHandlers, masked, nirq, caller, tpsOwed>>

\* One handler, or all of them where none waits.
DfcCall(called) ==
    /\ dfc.at = "calls" /\ called \subseteq dfc.subVector /\ called # {}
    /\ HandlersWait \/ called = dfc.subVector
    /\ dfc' = [dfc EXCEPT !.subVector = @ \ called,
                          !.calls = {[source |-> s, bound |-> TheHandlers[s]] : s \in called}]
    /\ tpsOwed' = tpsOwed \ called
    /\ UNCHANGED <<TheHandlers, masked, latched, nirq, caller>>

DfcNextReg ==
    /\ dfc.at = "calls" /\ dfc.subVector = {}
    /\ dfc' = [dfc EXCEPT !.at = "regs", !.reg = @ + 1, !.calls = {}]
    /\ UNCHANGED <<TheHandlers, masked, latched, nirq, caller, tpsOwed>>

Reenabled == TRUE

DfcEnd ==
    /\ dfc.at = "regs" /\ dfc.reg > NumRegs
    /\ nirq' = Reenabled
    /\ dfc' = [dfc EXCEPT !.at = "idle", !.reg = 0, !.highVectors = {}]
    /\ UNCHANGED <<TheHandlers, masked, latched, caller, tpsOwed>>

\* Between the read of a status register and the handlers nothing else runs,
\* unless a handler waits.
InCalls == dfc.at = "calls" /\ dfc.subVector # {} /\ ~HandlersWait

DfcSteps ==
    \/ DfcReadPih \/ DfcReadStatus \/ DfcNextReg \/ DfcEnd
    \/ \E called \in SUBSET Irqs : DfcCall(called)

TpsIntNext ==
    \/ /\ ~InCalls
       /\ \/ \E s \in Irqs : Bind(s) \/ Enable(s) \/ Disable(s) \/ TpsClear(s) \/ Unbind(s)
          \/ \E s \in Irqs : TpsEvent(s)
          \/ Dispatch
    \/ DfcSteps

TpsIntSpec == TpsIntInit /\ [][TpsIntNext]_tpsIntVars

\* The interrupt is taken and the thread of its DFC runs.
TpsIntFair == WF_tpsIntVars(Dispatch) /\ WF_tpsIntVars(DfcSteps)
-----------------------------------------------------------------------------
(* Properties *)

TpsIntTypeOK ==
    /\ masked \subseteq Irqs /\ latched \subseteq Irqs /\ tpsOwed \subseteq Irqs
    /\ dfc.at \in {"idle", "queued", "regs", "calls"}
    /\ dfc.reg \in 0..(NumRegs + 1) /\ dfc.subVector \subseteq Irqs

\* The DFC calls no handler that is not bound (Spurious() stops the system),
\* whatever the clients do while it waits for the chip.
TpsNoSpurious == \A c \in dfc.calls : c.bound

\* An event that is enabled reaches its handler, unless its status register is
\* cleared by a client first or its client disables it: SYS_NIRQ, disabled by the
\* ISR, is enabled again.
TpsDelivered == \A s \in Irqs : s \in tpsOwed \ masked ~> s \notin tpsOwed \/ s \in masked
=============================================================================
