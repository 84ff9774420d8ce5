------------------------------ MODULE MCI2cReg ------------------------------
(* One client that reads one register at a time: ReadB()'s block is the write of
   the register's address and the read of its byte. *)
EXTENDS I2cReg, TLC

CONSTANTS ca, xa

RegAddress == ca :> 1
RegConfig == ca :> "e1"
RegOwner == xa :> ca
ReadBPhases == xa :> <<[type |-> "write", len |-> 1], [type |-> "read", len |-> 1]>>
=============================================================================
