----------------------------- MODULE MCHandshake -----------------------------
(* Small instances of Handshake for TLC. *)
EXTENDS Handshake, TLC

CONSTANTS c1, c2, c3

(* Clients of different sizes: --qp_num 2, 1 and 1. *)
MCQps == [c \in Clients |-> IF c = c1 THEN 2 ELSE 1]

(* Clients with the same number of queue pairs are interchangeable. *)
OneQpClients == Permutations({c2, c3})
=============================================================================
