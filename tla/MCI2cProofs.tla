---------------------------- MODULE MCI2cProofs ----------------------------
(* The instances of MCI2c with the invariant of the proofs and its assumption. *)
EXTENDS MCI2c, I2cInvariant
=============================================================================
