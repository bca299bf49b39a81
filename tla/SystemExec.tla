------------------------------ MODULE SystemExec ------------------------------
(***************************************************************************)
(* config/osexec: a Process that runs a command of the host.  Two threads  *)
(* use its exec.Cmd: Run, which starts the command and waits for it, and   *)
(* Cleanup, which kills it and then forgets it.  Neither takes a lock.     *)
(* Package exec, the operating system and the Session are external.        *)
(***************************************************************************)
EXTENDS Integers

CONSTANTS
    ExitCodes    \* the codes a command can exit with

Signalled == -1  \* what ExitCode says of a command that a signal ended
Codes     == ExitCodes \cup {Signalled, 0}

ASSUME SystemAssumption == ExitCodes \subseteq 0..255

Pipes == {"Stdout", "Stderr", "Stdin"}

VARIABLES
    pty,       \* was a pty requested?
    pc,        \* the method Run is in, "load" and "reap" inside Wait, or how it ended
    cmd,       \* sp.cmd: is it set?
    process,   \* sp.cmd.Process: is it set?
    os,        \* the command: "none", "running", "ended" (not reaped), "reaped"
    code,      \* the code it ended with
    terminal,  \* sp.terminal: "nil", "open" or "closed"
    answer,    \* what Wait returned
    clean,     \* Cleanup: "no", "check", "kill", "forget", "done"
    panicked   \* a panic, which ends the server

run  == <<pc, answer>>
vars == <<pty, run, cmd, process, os, code, terminal, clean, panicked>>

Init ==
    /\ pty \in BOOLEAN
    /\ pc = "Init" /\ answer = [kind |-> "none", status |-> 0]
    /\ cmd = FALSE /\ process = FALSE
    /\ os = "none" /\ code = 0
    /\ terminal = "nil" /\ clean = "no" /\ panicked = FALSE

-----------------------------------------------------------------------------
(* Init: LookPath may not find the executable; there is no cmd then. *)
InitCmd ==
    /\ pc = "Init"
    /\ \/ cmd' = TRUE /\ pc' = IF pty THEN "Start" ELSE "Stdout"
       \/ pc' = "failed" /\ UNCHANGED cmd
    /\ UNCHANGED <<pty, answer, process, os, code, terminal, clean, panicked>>

Following == [Stdout |-> "Stderr", Stderr |-> "Stdin", Stdin |-> "Start"]

OpenPipe ==
    /\ pc \in Pipes
    /\ pc' \in {Following[pc], "failed"}
    /\ UNCHANGED <<pty, answer, cmd, process, os, code, terminal, clean, panicked>>

Start ==
    /\ pc = "Start"
    /\ \/ /\ pc' = "Wait"
          /\ process' = TRUE /\ os' = "running"
          /\ terminal' = IF pty THEN "open" ELSE "nil"
       \/ pc' = "failed" /\ UNCHANGED <<process, os, terminal>>
    /\ UNCHANGED <<pty, answer, cmd, code, clean, panicked>>

(* cmd.Wait: without a Process it fails, "not started"; else it goes on to wait
   for the Process, which it loads again: Cleanup may have cleared it meanwhile,
   and what that load sees is a race.                                           *)
Answer(kind, status) ==
    /\ answer' = [kind |-> kind, status |-> status]
    /\ pc' = "returned"

WaitCheck ==
    /\ pc = "Wait"
    /\ IF process THEN pc' = "load" /\ UNCHANGED answer ELSE Answer("err", 255)
    /\ UNCHANGED <<pty, cmd, process, os, code, terminal, clean, panicked>>

WaitLoad ==
    /\ pc = "load"
    /\ \/ pc' = "reap" /\ UNCHANGED panicked
       \/ ~process /\ panicked' = TRUE /\ UNCHANGED pc
    /\ UNCHANGED <<pty, answer, cmd, process, os, code, terminal, clean>>

WaitExited == pc = "reap" /\ os = "ended" /\ code >= 0   \* mutant: signals are missed
WaitDone == pc = "reap" /\ os = "ended"

WaitReap ==
    /\ WaitDone
    /\ os' = "reaped"
    /\ Answer("ok", code)
    /\ UNCHANGED <<pty, cmd, process, code, terminal, clean, panicked>>

-----------------------------------------------------------------------------
(* Cleanup follows a start that failed, a Wait that returned, or the end of the
   connection while Run is about to call Wait or in it.                         *)
CloseTerminal ==
    /\ clean = "no" /\ pc \in {"failed", "Wait", "load", "reap", "returned"}
    /\ clean' = "check"
    /\ terminal' = IF terminal = "open" THEN "closed" ELSE terminal
    /\ UNCHANGED <<pty, run, cmd, process, os, code, panicked>>

(* The Process of no cmd is a nil dereference, before recover is deferred. *)
CheckProcess ==
    /\ clean = "check"
    /\ IF cmd THEN clean' = (IF process THEN "kill" ELSE "done") /\ UNCHANGED panicked
              ELSE panicked' = TRUE /\ UNCHANGED clean
    /\ UNCHANGED <<pty, run, cmd, process, os, code, terminal>>

(* Kill fails for a command that was reaped, and succeeds for one that ended. *)
ForgetUnkilled ==   \* mutant: Process is cleared without Kill
    /\ clean = "kill" /\ clean' = "forget"
    /\ UNCHANGED <<pty, run, cmd, process, os, code, terminal, panicked>>

KillNumbered ==   \* mutant: the code is the number of the signal
    /\ clean = "kill" /\ clean' = "forget"
    /\ os' = "ended" /\ code' = -9
    /\ UNCHANGED <<pty, run, cmd, process, terminal, panicked>>

Kill ==
    /\ clean = "kill"
    /\ clean' = IF os = "reaped" THEN "done" ELSE "forget"
    /\ IF os = "running" THEN os' = "ended" /\ code' = Signalled
                         ELSE UNCHANGED <<os, code>>
    /\ UNCHANGED <<pty, run, cmd, process, terminal, panicked>>

ForgetAlways ==   \* mutant: Process is cleared before it is looked at
    /\ clean \in {"check", "kill", "forget"}
    /\ process' = FALSE /\ clean' = IF clean = "forget" THEN "done" ELSE clean
    /\ UNCHANGED <<pty, run, cmd, os, code, terminal, panicked>>

Forget ==
    /\ clean = "forget"
    /\ process' = FALSE /\ clean' = "done"
    /\ UNCHANGED <<pty, run, cmd, os, code, terminal, panicked>>

(* The command exits, or a signal ends it. *)
ProcessEnd ==
    /\ os = "running"
    /\ os' = "ended" /\ code' \in ExitCodes \cup {Signalled}
    /\ UNCHANGED <<pty, run, cmd, process, terminal, clean, panicked>>

Run     == InitCmd \/ OpenPipe \/ Start \/ WaitCheck \/ WaitLoad \/ WaitReap
Cleanup == CheckProcess \/ Kill \/ Forget

Next == ~panicked /\ (Run \/ CloseTerminal \/ Cleanup \/ ProcessEnd)

Spec == Init /\ [][Next]_vars

(* Both threads run on while the server does. *)
FairSpec == Spec /\ WF_vars(~panicked /\ Run) /\ WF_vars(~panicked /\ Cleanup)

-----------------------------------------------------------------------------
(* The values the variables of the Process can take. *)
TypeOK ==
    /\ pty \in BOOLEAN /\ cmd \in BOOLEAN /\ process \in BOOLEAN
    /\ pc \in Pipes \cup {"Init", "Start", "Wait", "load", "reap", "failed", "returned"}
    /\ os \in {"none", "running", "ended", "reaped"}
    /\ code \in Codes
    /\ terminal \in {"nil", "open", "closed"}
    /\ answer \in [kind : {"none", "ok", "err"}, status : Codes \cup {255}]
    /\ clean \in {"no", "check", "kill", "forget", "done"}
    /\ panicked \in BOOLEAN

(* Cleanup, racing Wait, panics only where Process was cleared between Wait's two
   looks at it, or where Init never made the command, though Cleanup means to return
   without a process (process.go:127) and to be silent about panics (132).          *)
PanicsExplained ==
    panicked => (pc = "failed" /\ ~cmd) \/ (pc = "load" /\ clean = "done")

(* A command that ended does not stay a zombie, unless Cleanup killed it before
   Run had called Wait, whose answer is then an error.                            *)
ZombieExplained == answer.kind = "err" /\ ~process /\ clean \in {"forget", "done"}
Reaped == (os = "ended") ~> (os = "reaped" \/ ZombieExplained \/ panicked)

(* The command as a Session knows it. *)
Contract == INSTANCE ProcessContract WITH
    Kills   <- TRUE,
    Loses   <- FALSE,
    begun   <- CASE pc = "failed" -> "failed"
                 [] pc \in {"Wait", "load", "reap", "returned"} -> "yes"
                 [] OTHER -> "no",
    command <- IF os = "reaped" THEN "ended" ELSE os,
    cleaned <- IF clean \in {"no", "done"} THEN clean ELSE "in",
    alive   <- ~panicked

(* Whatever the order of Kill, Wait and the end of the command, a Session sees a
   Process that keeps its contract.                                               *)
KeepsContract == Contract!Spec
=============================================================================
