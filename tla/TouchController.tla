-------------------------- MODULE TouchController --------------------------
(***************************************************************************)
(* The interface to the touch panel's controller (beagle_drivers/byd_touch/*)
(* common/controller.cpp).  What a read returns is decided by a register   *)
(* of the controller, of which the driver keeps a copy so that it writes it*)
(* only when another address is wanted.                                    *)
(*                                                                         *)
(* Transactions on the SPI bus may fail, before or after the controller has*)
(* taken them.  The setters of single fields have no caller and are not    *)
(* modelled.  External: the bus and the controller.                        *)
(***************************************************************************)
EXTENDS Naturals

CONSTANTS
    Addresses,      \* that are read; xyin.cpp reads from KTouchNumberAndType only
    Modes,          \* EModeSingle, EModeMulti, EModeGesture
    KMaxReads       \* so many reads

VARIABLES
    ctl,        \* the driver's copy, and what the last read was to return
    chip        \* the controller: its mode, where reads start

ctlVars == <<ctl, chip>>

KMasterReadStartAddr == 12
Results == {"KErrNone", "before", "after"}     \* the bus failed, before or after it

CtlInit ==
    /\ ctl = [iCurrentReadStart |-> 0, reads |-> 0, wanted |-> 0, got |-> 0]
    /\ chip = [readStart |-> 0, mode |-> "none"]

Reset == [readStart |-> 0, mode |-> "none"]

\* DoCreate() resets and configures the controller, before the first read and never again.
HardReset ==
    /\ ctl.reads = 0
    /\ chip' = Reset
    /\ UNCHANGED ctl

\* Registers 0 to 12 are written, the last of them the address of reads.
Configure(mode, r) ==
    /\ ctl.reads = 0
    /\ chip' = IF r = "before" THEN chip ELSE [readStart |-> 0, mode |-> mode]
    /\ UNCHANGED ctl

\* Mutant: the copy is kept whether the write has succeeded or not.
Kept_Always(address, r) == address
Kept(address, r) == IF r = "KErrNone" THEN address ELSE ctl.iCurrentReadStart

\* The address, if it is another, and then the data; GetMeasurements(), NumOfTouches().
ReadMultiple(address, w, r) ==
    LET writes == ctl.iCurrentReadStart # address
        start == IF writes /\ w # "before" THEN address ELSE chip.readStart
        reads == (writes => w = "KErrNone") /\ r = "KErrNone"
    IN  /\ ctl.reads < KMaxReads
        /\ chip' = [chip EXCEPT !.readStart = start]
        /\ ctl' = [iCurrentReadStart |-> IF writes THEN Kept(address, w) ELSE address,
                   reads |-> ctl.reads + 1,
                   wanted |-> IF reads THEN address ELSE 0,
                   got |-> IF reads THEN start ELSE 0]


CtlNext ==
    \/ HardReset
    \/ \E mode \in Modes, r \in Results : Configure(mode, r)
    \/ \E address \in Addresses, w \in Results, r \in Results : ReadMultiple(address, w, r)

CtlSpec == CtlInit /\ [][CtlNext]_ctlVars
-----------------------------------------------------------------------------
(* Properties *)

\* A read that succeeds has returned the registers it was for, whatever has failed
\* before it: what is taken for the number of touches is that number.
ReadsAreOfAddress == ctl.got = ctl.wanted
=============================================================================
