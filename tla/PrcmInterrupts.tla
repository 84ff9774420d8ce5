--------------------------- MODULE PrcmInterrupts ---------------------------
(***************************************************************************)
(* The interrupt dispatcher of the PRCM (omap3530_drivers/prcm/prcm.cpp):  *)
(* its sources share one interrupt of the main controller, which is enabled*)
(* while TheRootInterruptEnable counts an enabled source.                  *)
(*                                                                         *)
(* Bind() and Unbind() take no lock, Enable() and Disable() do.  A client  *)
(* disables what it has enabled, once, and unbinds what it has bound.      *)
(***************************************************************************)
EXTENDS Naturals

CONSTANTS
    PrcmClients,
    PrcmId,         \* [PrcmClients -> the source the client asks for]
    PrcmPreempt     \* a thread may be preempted within Bind()

VARIABLES
    handlers,       \* [ids -> the client bound, or NoClient]
    root,           \* TheRootInterruptEnable, and the main controller's mask bit
    prcmIrqEnable,  \* KPRM_IRQENABLE_MPU
    prcmIrqStatus,  \* KPRM_IRQSTATUS_MPU
    status,         \* Dispatch()'s local variable: what it has still to call
    prcmPc,         \* [PrcmClients -> where the client is]
    spurious        \* Spurious() was called, or a handler for another's client

prcmVars == <<handlers, root, prcmIrqEnable, prcmIrqStatus, status, prcmPc, spurious>>

NoClient == "none"
PrcmIds == {PrcmId[c] : c \in PrcmClients}
InPrcmIsr == status # {}

PrcmInit ==
    /\ handlers = [id \in PrcmIds |-> NoClient]
    /\ root = [count |-> 0, enabled |-> FALSE]
    /\ prcmIrqEnable = {} /\ prcmIrqStatus = {} /\ status = {}
    /\ prcmPc = [c \in PrcmClients |-> "free"]
    /\ spurious = FALSE

At(c, from, to) == prcmPc[c] = from /\ prcmPc' = [prcmPc EXCEPT ![c] = to]

\* KErrInUse is returned if another client is there.
PrcmBindTest(c) ==
    /\ PrcmPreempt \/ \A d \in PrcmClients : prcmPc[d] # "binding"
    /\ handlers[PrcmId[c]] = NoClient
    /\ At(c, "free", "binding")
    /\ UNCHANGED <<handlers, root, prcmIrqEnable, prcmIrqStatus, status, spurious>>

PrcmBindStore(c) ==
    /\ At(c, "binding", "bound")
    /\ handlers' = [handlers EXCEPT ![PrcmId[c]] = c]
    /\ UNCHANGED <<root, prcmIrqEnable, prcmIrqStatus, status, spurious>>

PrcmUnbind(c) ==
    /\ At(c, "bound", "free")
    /\ handlers' = [handlers EXCEPT ![PrcmId[c]] = NoClient]
    /\ UNCHANGED <<root, prcmIrqEnable, prcmIrqStatus, status, spurious>>

Counted(n) == root.count + 1 = n

PrcmEnable(c) ==
    /\ At(c, "bound", "enabled")
    /\ root' = [count |-> root.count + 1, enabled |-> root.enabled \/ Counted(1)]
    /\ prcmIrqEnable' = prcmIrqEnable \cup {PrcmId[c]}
    /\ UNCHANGED <<handlers, prcmIrqStatus, status, spurious>>

\* Mutant: the last source but one switches the interrupt off.
Last_Early(n) == n <= 2
Last(n) == n = 1

PrcmDisable(c) ==
    /\ At(c, "enabled", "bound")
    /\ root' = [count |-> root.count - 1, enabled |-> root.enabled /\ ~Last(root.count)]
    /\ prcmIrqEnable' = prcmIrqEnable \ {PrcmId[c]}
    /\ UNCHANGED <<handlers, prcmIrqStatus, status, spurious>>

\* The hardware.
PrcmEvent(id) ==
    /\ prcmIrqStatus' = prcmIrqStatus \cup {id}
    /\ UNCHANGED <<handlers, root, prcmIrqEnable, status, prcmPc, spurious>>

\* Dispatch() reads both registers once.
PrcmDispatch ==
    /\ ~InPrcmIsr /\ root.enabled /\ prcmIrqStatus \cap prcmIrqEnable # {}
    /\ status' = prcmIrqStatus \cap prcmIrqEnable
    /\ UNCHANGED <<handlers, root, prcmIrqEnable, prcmIrqStatus, prcmPc, spurious>>

\* A handler calls Clear() for its source, and may disable it.
PrcmHandler(id) ==
    LET c == handlers[id]
    IN  /\ id \in status
        /\ \A other \in status : id <= other
        /\ status' = status \ {id}
        /\ prcmIrqStatus' = prcmIrqStatus \ {id}
        /\ spurious' = (spurious \/ c = NoClient)
        /\ UNCHANGED handlers
        /\ \/ UNCHANGED <<root, prcmIrqEnable, prcmPc>>
           \/ /\ c # NoClient /\ prcmPc[c] = "enabled"
              /\ prcmPc' = [prcmPc EXCEPT ![c] = "bound"]
              /\ root' = [count |-> root.count - 1,
                          enabled |-> root.enabled /\ ~Last(root.count)]
              /\ prcmIrqEnable' = prcmIrqEnable \ {id}

PrcmNext ==
    \/ /\ ~InPrcmIsr
       /\ \/ \E c \in PrcmClients :
                \/ PrcmBindTest(c) \/ PrcmBindStore(c) \/ PrcmUnbind(c)
                \/ PrcmEnable(c) \/ PrcmDisable(c)
          \/ \E id \in PrcmIds : PrcmEvent(id)
    \/ PrcmDispatch
    \/ \E id \in PrcmIds : PrcmHandler(id)

PrcmSpec == PrcmInit /\ [][PrcmNext]_prcmVars

-----------------------------------------------------------------------------
(* Properties *)

PrcmTypeOK ==
    /\ handlers \in [PrcmIds -> PrcmClients \cup {NoClient}]
    /\ root.count \in Nat /\ root.enabled \in BOOLEAN
    /\ prcmIrqEnable \subseteq PrcmIds /\ prcmIrqStatus \subseteq PrcmIds

\* The shared interrupt is enabled exactly while a source is, and a source that is
\* enabled has a client that was given it and nobody else (Bind(), Enable(),
\* Disable() and TheRootInterruptEnable): no handler is called for another.
PrcmRootCounts ==
    /\ root.enabled = (prcmIrqEnable # {})
    /\ \A id \in prcmIrqEnable : handlers[id] # NoClient /\ prcmPc[handlers[id]] = "enabled"
    /\ \A c, d \in PrcmClients :
           c # d /\ {prcmPc[c], prcmPc[d]} \subseteq {"bound", "enabled"} => PrcmId[c] # PrcmId[d]
    /\ ~spurious

=============================================================================
