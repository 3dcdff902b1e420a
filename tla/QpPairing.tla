------------------------------ MODULE QpPairing ------------------------------
(***************************************************************************)
(* What the handshake promises.  A server grants a client a block of       *)
(* consecutive endpoints, once, and never grants an endpoint twice nor     *)
(* more of them than it has.  Later all endpoints the client keeps for     *)
(* that server are linked to the block at once, the j-th to the j-th.      *)
(***************************************************************************)
EXTENDS Integers

CONSTANTS Clients, Servers, Qps, Capacity

Conn == Clients \X Servers
Ep(c) == {s * Qps[c] + j : s \in Servers, j \in 0 .. (Qps[c] - 1)}

VARIABLES
  granted,  \* granted[s]: endpoints of server s given away so far
  block,    \* block[<<c, s>>]: first endpoint granted to c by s, or -1
  link      \* link[c][i]: <<server, endpoint>> client endpoint i sends to

vars == <<granted, block, link>>

Init ==
  /\ granted = [s \in Servers |-> 0]
  /\ block = [k \in Conn |-> -1]
  /\ link = [c \in Clients |-> [i \in Ep(c) |-> << >>]]

Grant(c, s) ==
  /\ block[<<c, s>>] = -1
  /\ granted[s] + Qps[c] <= Capacity
  /\ block' = [block EXCEPT ![<<c, s>>] = granted[s]]
  /\ granted' = [granted EXCEPT ![s] = @ + Qps[c]]
  /\ UNCHANGED link

(* The client's endpoints for server s, the j-th of them first. *)
Mine(c, s) == (s * Qps[c]) .. ((s + 1) * Qps[c] - 1)

Establish(c, s) ==
  /\ block[<<c, s>>] # -1
  /\ \A i \in Mine(c, s) : link[c][i] = << >>
  /\ link' = [link EXCEPT ![c] = [i \in Ep(c) |->
                IF i \in Mine(c, s)
                THEN <<s, block[<<c, s>>] + (i - s * Qps[c])>> ELSE @[i]]]
  /\ UNCHANGED <<granted, block>>

(* The client's process ends. *)
Drop(c) ==
  /\ link' = [link EXCEPT ![c] = [i \in Ep(c) |-> << >>]]
  /\ UNCHANGED <<granted, block>>

Next ==
  \E c \in Clients :
    \/ Drop(c)
    \/ \E s \in Servers : Grant(c, s) \/ Establish(c, s)

Spec == Init /\ [][Next]_vars

=============================================================================
