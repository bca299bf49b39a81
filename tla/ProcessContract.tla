---------------------------- MODULE ProcessContract ----------------------------
(***************************************************************************)
(* What a Session relies on in its Process (session.go), as one command    *)
(* with its three calls: starting it succeeds or fails, Wait answers with  *)
(* the code of a command that has ended or with an error, and after        *)
(* Cleanup the command no longer runs, so that Wait answers; an            *)
(* implementation that only asks its command to end keeps the rest,        *)
(* Calls, with Kills FALSE.  One that reaches its command over a           *)
(* connection can lose it out of sight, and then its Wait can answer with  *)
(* code 0 while the command runs on: it keeps the contract with Loses      *)
(* TRUE.  A panic ends the server, and with it all that was promised;      *)
(* where that can happen is for the invariants of each implementation.     *)
(***************************************************************************)
EXTENDS Integers

CONSTANTS
    Codes,   \* the codes Wait can report
    Kills,   \* does Cleanup return only when the command no longer runs, or is lost?
    Loses    \* can the command run on where Wait no longer sees it?

VARIABLES
    begun,    \* "no", "yes" or "failed": Init, the streams and Start together
    command,  \* "none", "running", "lost" or "ended"
    code,     \* the code it ended with
    answer,   \* what Wait returned: its kind and the status
    cleaned,  \* the call of Cleanup: "no", "in" or "done"
    alive     \* does the server run?

contractVars == <<begun, command, code, answer, cleaned, alive>>

Waiting == [kind |-> "none", status |-> 0]

Init ==
    /\ begun = "no" /\ command = "none" /\ code = 0
    /\ answer = Waiting
    /\ cleaned = "no" /\ alive = TRUE

Begin ==
    /\ alive
    /\ begun = "no"
    /\ \/ begun' = "yes" /\ command' = "running"
       \/ begun' = "failed" /\ UNCHANGED command
    /\ UNCHANGED <<code, answer, cleaned, alive>>

End ==
    /\ alive
    /\ command \in {"running", "lost"}
    /\ command' = "ended" /\ code' \in Codes
    /\ UNCHANGED <<begun, answer, cleaned, alive>>

Lose ==
    /\ alive
    /\ Loses /\ command = "running"
    /\ command' = "lost"
    /\ UNCHANGED <<begun, code, answer, cleaned, alive>>

Result ==
    /\ alive
    /\ begun = "yes" /\ answer = Waiting
    /\ \/ command = "ended" /\ answer' = [kind |-> "ok", status |-> code]
       \/ command = "lost" /\ answer' = [kind |-> "ok", status |-> 0]
    /\ UNCHANGED <<begun, command, code, cleaned, alive>>

Error ==
    /\ alive
    /\ begun = "yes" /\ answer = Waiting
    /\ \E s \in {0, 255} : answer' = [kind |-> "err", status |-> s]
    /\ UNCHANGED <<begun, command, code, cleaned, alive>>

CallCleanup ==
    /\ alive
    /\ begun # "no" /\ cleaned = "no"
    /\ cleaned' = "in"
    /\ UNCHANGED <<begun, command, code, answer, alive>>

CleanedUp ==
    /\ alive
    /\ cleaned = "in"
    /\ Kills => command # "running"
    /\ cleaned' = "done"
    /\ UNCHANGED <<begun, command, code, answer, alive>>

Crash ==
    /\ alive /\ alive' = FALSE
    /\ UNCHANGED <<begun, command, code, answer, cleaned>>

Next == Begin \/ End \/ Lose \/ Result \/ Error \/ CallCleanup \/ CleanedUp \/ Crash

Calls == Init /\ [][Next]_contractVars

(* Wait answers once the command has ended or is lost, and Cleanup sees to the one
   or the other and returns.                                                       *)
Spec ==
    /\ Calls
    /\ WF_contractVars(command \in {"ended", "lost"} /\ (Result \/ Error))
    /\ WF_contractVars(cleaned = "in" /\ command = "running" /\ (End \/ Lose))
    /\ WF_contractVars(CleanedUp)
=============================================================================
