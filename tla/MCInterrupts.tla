---------------------------- MODULE MCInterrupts ----------------------------
(* Instances of Interrupts: pins 33 and 34 of the bank with base 32, and a
   source of the main controller that two clients ask for. *)
EXTENDS Interrupts, TLC

CONSTANTS ca, cb, cc, cd

TheId == [c \in Clients |-> CASE c = ca -> 33 [] c = cb -> 34 [] OTHER -> 7]
=============================================================================
