--------------------------- MODULE MCLeakDetector ---------------------------
(* Instances of LeakDetector for TLC. *)
EXTENDS LeakDetector
=============================================================================
