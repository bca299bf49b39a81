------------------------------ MODULE MCSession ------------------------------
(* Instances of Session for TLC. *)
EXTENDS SessionInvariant, TLC

CONSTANTS h, c1, c2, w, nobody

OneCaller    == {h}
ThreeCallers == {h, c1, c2}
TwoCodes     == {0, 7}
OneCode      == {7}

(* The callers other than the handler are interchangeable. *)
OtherCallers == Permutations({c1, c2})
=============================================================================
