------------------------------- MODULE MCHostKey -------------------------------
(* Instances of HostKey for TLC. *)
EXTENDS HostKey, TLC

CONSTANTS s1, s2, s3

Daemons == {s1, s2, s3}
Defaults == <<"rsa", "ed25519">>
Lines == [rsa |-> 2, ed25519 |-> 1]
Symmetric == Permutations(Daemons)
=============================================================================
