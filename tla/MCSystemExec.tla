----------------------------- MODULE MCSystemExec -----------------------------
(* Instances of SystemExec for TLC. *)
EXTENDS SystemExec

SomeCodes == {0, 1, 255}
=============================================================================
