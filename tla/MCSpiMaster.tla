---------------------------- MODULE MCSpiMaster ----------------------------
(* The chains of the test client (spi/test/d_spi_client_m.cpp): two half-duplex
   transfers, and two columns of full duplex that cross; an empty buffer behind a
   good one, and alone; the channel's second slave; an address out of range. *)
EXTENDS SpiMaster, TLC

CONSTANTS ta, tb, tc, td, te, tf

HalfDuplex(type, words) == [type |-> type, words |-> words, full |-> None]
FullDuplex(type, words) == [type |-> type, words |-> words, full |-> words]

TheAddr == ta :> 0 @@ tb :> 0 @@ tc :> 0 @@ td :> 1 @@ te :> 2 @@ tf :> 0
TheTransfers ==
    ta :> <<HalfDuplex("write", 2), HalfDuplex("read", 2)>> @@
    tb :> <<FullDuplex("write", 2), FullDuplex("read", 1)>> @@
    tc :> <<HalfDuplex("write", 1), HalfDuplex("write", 0)>> @@
    td :> <<FullDuplex("read", 2)>> @@
    te :> <<HalfDuplex("write", 1)>> @@
    tf :> <<HalfDuplex("write", 0)>>
=============================================================================
