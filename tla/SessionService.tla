---------------------------- MODULE SessionService ----------------------------
(***************************************************************************)
(* What one ssh session promises, without locks, streams or goroutines:    *)
(* its command is started at most once and never after the session was     *)
(* answered; the client gets one answer, which is the command's exit code  *)
(* or a failure; a command that still runs is killed, but only after the   *)
(* answer or once the client has left.                                     *)
(***************************************************************************)
EXTENDS Integers

CONSTANT Codes

VARIABLES
    command,  \* "none", "running", "exited" or "killed"
    code,     \* the code it ended with
    client,   \* "here", "away" (it closed the session) or "left" (the connection)
    answer    \* the exit status: its kind and, for a result, the code

serviceVars == <<command, code, client, answer>>

Answer(kind, c) == answer' = [kind |-> kind, code |-> c]
Unanswered == answer.kind = "none"

Init ==
    /\ command = "none" /\ code = 0
    /\ client = "here"
    /\ answer = [kind |-> "none", code |-> 0]

Begin ==
    /\ command = "none" /\ Unanswered
    /\ command' = "running"
    /\ UNCHANGED <<code, client, answer>>

End ==
    /\ command = "running"
    /\ command' = "exited" /\ code' \in Codes
    /\ UNCHANGED <<client, answer>>

Leave ==
    /\ \/ client = "here" /\ client' = "away"
       \/ client # "left" /\ client' = "left"
    /\ UNCHANGED <<command, code, answer>>

Result ==
    /\ Unanswered /\ command = "exited" /\ client = "here"
    /\ Answer("result", code)
    /\ UNCHANGED <<command, code, client>>

Fail ==
    /\ Unanswered /\ client = "here"
    /\ Answer("failure", 0)
    /\ UNCHANGED <<command, code, client>>

GiveUp ==
    /\ Unanswered /\ client # "here"
    /\ Answer("gone", 0)
    /\ UNCHANGED <<command, code, client>>

Kill ==
    /\ command = "running" /\ ~Unanswered
    /\ command' = "killed" /\ code' \in Codes
    /\ UNCHANGED <<client, answer>>

Next == Begin \/ End \/ Leave \/ Result \/ Fail \/ GiveUp \/ Kill

Steps == Init /\ [][Next]_serviceVars

(* A command that exited is answered, a connection that closes ends the session,
   and what still runs after that is killed.                                    *)
Spec ==
    /\ Steps
    /\ WF_serviceVars(command = "exited" /\ (Result \/ Fail \/ GiveUp))
    /\ WF_serviceVars(command = "running" /\ client = "left" /\ GiveUp)
    /\ WF_serviceVars(Kill)
=============================================================================
