---------------------------- MODULE MCContainerExec ----------------------------
(* Instances of ContainerExec for TLC. *)
EXTENDS ContainerExec

SomeCodes == {0, 7}
=============================================================================
