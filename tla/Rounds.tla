------------------------------- MODULE Rounds -------------------------------
(***************************************************************************)
(* What the phases of the control-verb test promise: the threads go        *)
(* through the rounds together, and none is more than one round ahead of   *)
(* another.                                                                *)
(***************************************************************************)
EXTENDS Integers

CONSTANTS Threads, Last

VARIABLE rounds  \* rounds[t]: the rounds thread t has completed

Init == rounds = [t \in Threads |-> 0]

Complete(t) ==
  /\ rounds[t] < Last
  /\ \A u \in Threads : rounds[u] >= rounds[t]
  /\ rounds' = [rounds EXCEPT ![t] = @ + 1]

Next == \E t \in Threads : Complete(t)

Spec == Init /\ [][Next]_rounds

=============================================================================
