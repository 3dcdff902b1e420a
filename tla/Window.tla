------------------------------- MODULE Window -------------------------------
(***************************************************************************)
(* What the credits of the traffic engines promise, for every pair of      *)
(* connected endpoints on its own: the sender never has more requests at   *)
(* the network card than its send queue holds, the receiver never more     *)
(* than its receive queue holds, and a message is delivered into a receive *)
(* that was posted for it.                                                 *)
(***************************************************************************)
EXTENDS Integers

CONSTANTS Eps, Active, SendDepth, RecvDepth, SendBatch

VARIABLES
  inflight,  \* inflight[e]: requests in the send queue of e
  ready,     \* ready[e]: posted receives of e's partner
  filled     \* filled[e]: receives used and not yet posted again

vars == <<inflight, ready, filled>>

Init ==
  /\ inflight = [e \in Eps |-> 0]
  /\ ready = [e \in Eps |-> RecvDepth]
  /\ filled = [e \in Eps |-> 0]

Post(e) ==
  /\ e \in Active
  /\ inflight[e] + SendBatch <= SendDepth
  /\ inflight' = [inflight EXCEPT ![e] = @ + SendBatch]
  /\ UNCHANGED <<ready, filled>>

Deliver(e) ==
  /\ inflight[e] > 0
  /\ ready[e] > 0
  /\ ready' = [ready EXCEPT ![e] = @ - 1]
  /\ filled' = [filled EXCEPT ![e] = @ + 1]
  /\ UNCHANGED inflight

Complete(e) ==
  /\ inflight[e] >= SendBatch
  /\ inflight' = [inflight EXCEPT ![e] = @ - SendBatch]
  /\ UNCHANGED <<ready, filled>>

Replenish(e) ==
  \E n \in 1 .. filled[e] :
    /\ ready[e] + n <= RecvDepth
    /\ ready' = [ready EXCEPT ![e] = @ + n]
    /\ filled' = [filled EXCEPT ![e] = @ - n]
    /\ UNCHANGED inflight

Next ==
  \E e \in Eps : Post(e) \/ Deliver(e) \/ Complete(e) \/ Replenish(e)

Spec == Init /\ [][Next]_vars

=============================================================================
