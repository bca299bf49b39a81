-------------------------------- MODULE MCREPL --------------------------------
(* Instances of REPL for TLC. *)
EXTENDS REPL

Threads == {"loop", "cleanup"}
SomeCodes == {0, 7}
=============================================================================
