---------------------------- MODULE MCCtrlPhases ----------------------------
(* Small instances of CtrlPhases for TLC. *)
EXTENDS CtrlPhases
=============================================================================
