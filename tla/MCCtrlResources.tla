-------------------------- MODULE MCCtrlResources --------------------------
(* Small instances of CtrlResources for TLC. *)
EXTENDS CtrlResources

CONSTANTS t1, t2, o1, o2, o3
=============================================================================
