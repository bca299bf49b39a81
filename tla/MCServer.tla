------------------------------- MODULE MCServer -------------------------------
(* Instances of Server for TLC. *)
EXTENDS Server

Libraries == {<<>>, <<"nil">>, <<"docker", "repl">>, <<"nil", "docker">>,
              <<"docker", "nil">>, <<"docker", "docker">>, <<"system">>}
Address(h, p) == [host |-> h, port |-> p]
SomeGiven == {Address("h", 1), Address("h", 6)}
SomeRequests == {Address(h, p) : h \in {"h", "i"}, p \in {1, 2, 6}}
SomeContainers == {"c1", "c2"}
SomeSessions == {"x", "y"}
=============================================================================
