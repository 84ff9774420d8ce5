------------------------------- MODULE MCI2c -------------------------------
(* Instances of I2c: ca and cb transfer, synchronously and asynchronously; the
   others only open and close. *)
EXTENDS I2c, TLC

CONSTANTS ca, cb, cc, cd, ce, xa, xb

\* cc's slave is the third one of a table of two.
TwoAddress == ca :> 1 @@ cb :> 2 @@ cc :> 3
TwoConfig == [c \in Clients |-> "e1"]
TwoOwner == xa :> ca @@ xb :> cb
\* A register read (address phase, then data) and a plain write.
TwoPhases == xa :> <<[type |-> "write", len |-> 1], [type |-> "read", len |-> 3]>>
             @@ xb :> <<[type |-> "write", len |-> 2]>>

\* One client transfers: the two-phase read of xa by ca.  cb, cc and ce open
\* another slave, its slave and a third one; cd's configuration is not supported.
OneAddress == ca :> 1 @@ cb :> 2 @@ cc :> 1 @@ cd :> 3 @@ ce :> 4
OneConfig == [c \in Clients |-> IF c = cd THEN "slave" ELSE "e1"]
OneOwner == xa :> ca
OnePhases == xa :> TwoPhases[xa]

\* Two synchronous clients with one-phase transfers.
SyncAddress == ca :> 1 @@ cb :> 2
SyncOwner == xa :> ca @@ xb :> cb
SyncPhases == xa :> <<[type |-> "write", len |-> 1]>>
              @@ xb :> <<[type |-> "read", len |-> 1]>>
=============================================================================
