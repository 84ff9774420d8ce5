----------------------------- MODULE MCIrqTree -----------------------------
(* The dispatchers of the interrupt tree: the main controller's with the GPIO
   bank behind it, that of the TPS65950 and that of the PRCM.  The last two hang
   on one source of the first each, and share no state: part names the one whose
   interrupts and clients run. *)
EXTENDS MCInterrupts, PrcmInterrupts, TpsInterrupts

CONSTANTS sa, sb, sc, pa, pb, pc1

VARIABLE part

TheStatReg == sa :> 1 @@ sb :> 1 @@ sc :> 2
ThePrcmId == pa :> 3 @@ pb :> 3 @@ pc1 :> 5

treeVars == <<part, vars, tpsIntVars, prcmVars>>

InMain == part = "main" /\ UNCHANGED <<part, tpsIntVars, prcmVars>>
InTps == part = "tps" /\ UNCHANGED <<part, vars, prcmVars>>
InPrcm == part = "prcm" /\ UNCHANGED <<part, vars, tpsIntVars>>

TreeInit == part \in {"main", "tps", "prcm"} /\ Init /\ TpsIntInit /\ PrcmInit
TreeNext == \/ InMain /\ Next
            \/ InTps /\ TpsIntNext
            \/ InPrcm /\ PrcmNext

MainIrq == InMain /\ Irq
MainReturns(c) == InMain /\ Returns(c)
TpsDispatch == InTps /\ Dispatch
TpsDfc == InTps /\ DfcSteps

TreeSpec ==
    /\ TreeInit /\ [][TreeNext]_treeVars
    /\ WF_treeVars(MainIrq) /\ \A c \in Clients : WF_treeVars(MainReturns(c))
    /\ WF_treeVars(TpsDispatch) /\ WF_treeVars(TpsDfc)

\* The events of pins, sources and of the TPS65950 reach their handlers, see
\* Interrupts and TpsInterrupts.
EventsDelivered == Delivered /\ TpsDelivered
=============================================================================
