--------------------------- MODULE SessionInvariant ---------------------------
(***************************************************************************)
(* The inductive invariant behind the safety properties of Session: who    *)
(* may be where in Run and finalize, which calls of the Process that       *)
(* implies, and what the finalizing thread knows.                          *)
(***************************************************************************)
EXTENDS Session

StartCalls == Setup \cup {"Start"}
InRun      == StartCalls \cup {"watch", "wait", "Wait"}   \* Run before finalize
InFinalize == Finalizing \ {"lock"}                       \* past finished.Lock()
SomeError  == \E m \in Methods : calls[m] = "err"

(* The threads: only the caller that locked `started' is inside Run, only the
   thread that locked `finished' is inside finalize.                          *)
Threading ==
    /\ \A c \in Callers :
          /\ pc[c] \notin {"off", "ctx"}
          /\ pc[c] \in InRun \cup Finalizing => started = c
          /\ pc[c] = "run" => started # c
          /\ pc[c] = "abort" => c = Handler
          /\ pc[c] = "handle" => started = NoOne
          /\ pc[c] = "watch" => pc[Watcher] = "off"
    /\ pc[Watcher] \in {"off", "ctx", "done"} \cup Finalizing
    /\ pc[Watcher] \notin {"off", "ctx"} => conn = "closed"
    /\ \A t \in Threads : pc[t] \in InFinalize => finished = t
    /\ finished # NoOne => pc[finished] \in InFinalize \cup {"done"}
    /\ finished \in Callers => started = finished

(* Before anything has started: the handler has no Session yet or aborts. *)
Unstarted ==
    /\ started = NoOne => finished = NoOne /\ \A m \in Methods : calls[m] = "no"
    /\ pc[Handler] \in {"handle", "abort"} =>
          /\ started = NoOne /\ exit = NoExit
          /\ \A c \in Callers \ {Handler} : pc[c] = "handle"
    /\ \A c \in Callers : pc[c] = "handle" =>
          /\ pc[Handler] \in {"handle", "abort", "done"}
          /\ \A d \in Callers \ {Handler} : pc[d] = "handle"

(* The calls of the Process and the position of the thread that makes them. *)
Calling ==
    /\ \A m \in StartCalls \cup {"Wait"} :
          calls[m] = "in" => started # NoOne /\ pc[started] = m
    /\ \A c \in Callers :
          /\ pc[c] \in StartCalls \cup {"Wait"} => calls[pc[c]] = "in"
          /\ pc[c] \in {"watch", "wait"} => calls["Start"] = "ok" /\ calls["Wait"] = "no"
    /\ pc[Watcher] # "off" => calls["Start"] = "ok"
    /\ calls["Stdout"] # "no" => calls["Init"] = "ok" /\ ~pty
    /\ calls["Stderr"] # "no" => calls["Stdout"] = "ok"
    /\ calls["Stdin"] # "no" => calls["Stderr"] = "ok"
    /\ calls["Start"] # "no" => Succeeded(IF pty THEN {"Init"} ELSE Setup)
    /\ calls["Wait"] # "no" => Succeeded({"Start"})
    /\ proc \in {"running", "exited", "killed"} => calls["Start"] = "ok"

(* Cleanup comes last: after Exit, and after every call of start returned. *)
Cleaning ==
    /\ finished = NoOne => calls["Cleanup"] = "no" /\ leak = "no"
    /\ finished # NoOne => \A m \in StartCalls : calls[m] # "in"
    /\ calls["Cleanup"] # "no" => exit # NoExit /\ pc[finished] = "done"
    /\ \A t \in Threads : pc[t] = "kill" => exit # NoExit
    /\ exit # NoExit => finished # NoOne \/ pc[Handler] = "done"
    /\ proc = "killed" => calls["Cleanup"] = "ok"

(* What the caller that finalizes has been told, and the client has been told. *)
Reporting ==
    /\ \A c \in Callers : pc[c] \in Finalizing =>
          IF arg[c].err THEN SomeError
          ELSE calls["Wait"] = "ok" /\ proc \in {"exited", "killed"}
               /\ arg[c].status = code
    /\ \A c \in Callers : pc[c] \in {"finish", "exit"} /\ arg[c].err =>
          shown \/ conn # "open" \/ exit # NoExit
    /\ ~arg[Watcher].err
    /\ \A t \in Threads : pc[t] = "error" => arg[t].err
    /\ shown => SomeError \/ exit.by = "abort"
    /\ pc[Handler] = "done" =>
          exit # NoExit \/ started \notin {NoOne, Handler} \/ conn = "closed"
    /\ exit.live /\ exit.by = "library" => started # NoOne

Core == Threading /\ Unstarted /\ Calling /\ Cleaning /\ Reporting

(* Core carries the session's safety properties over every step. *)
SessionInv == TypeOK /\ Core /\ ExitFaithful /\ LeakOkSound
=============================================================================
