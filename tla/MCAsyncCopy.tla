---------------------------- MODULE MCAsyncCopy -----------------------------
(* Instances of AsyncCopy for TLC. *)
EXTENDS AsyncCopy
=============================================================================
