----------------------------- MODULE MCDatapath -----------------------------
(* Small instances of Datapath for TLC. *)
EXTENDS Datapath
=============================================================================
