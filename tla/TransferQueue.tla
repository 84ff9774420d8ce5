---------------------------- MODULE TransferQueue ----------------------------
(***************************************************************************)
(* What the queueing drivers of the base port promise their clients: a     *)
(* request is accepted at the tail, requests finish one at a time and in   *)
(* the order in which they were accepted, and each is given back once,     *)
(* after it has finished.                                                  *)
(***************************************************************************)
EXTENDS Sequences

CONSTANT Items

VARIABLES
    queue,      \* accepted and not finished, in order
    status      \* [Items -> "owned" (by the client) | "queued" | "done"]

vars == <<queue, status>>

Init ==
    /\ queue = <<>>
    /\ status = [i \in Items |-> "owned"]

Accept(i) ==
    /\ status[i] = "owned"
    /\ queue' = Append(queue, i)
    /\ status' = [status EXCEPT ![i] = "queued"]

Finish ==
    /\ queue # <<>>
    /\ queue' = Tail(queue)
    /\ status' = [status EXCEPT ![Head(queue)] = "done"]

GiveBack(i) ==
    /\ status[i] = "done"
    /\ status' = [status EXCEPT ![i] = "owned"]
    /\ UNCHANGED queue

Next == Finish \/ \E i \in Items : Accept(i) \/ GiveBack(i)

Spec == Init /\ [][Next]_vars
=============================================================================
