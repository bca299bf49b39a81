------------------------------- MODULE Session -------------------------------
(***************************************************************************)
(* One ssh session of the proxy: the handler that creates the Session      *)
(* (handle.go), Session.Run with the goroutines it starts (session.go) and *)
(* the two OneTime locks (internal/lock/onetime.go) that make Run start    *)
(* once and finalize act once.  The Process is its interface: each call    *)
(* lasts from the step that makes it to the step in which it returns.      *)
(* The ssh library, the client and the connection are external.            *)
(***************************************************************************)
EXTENDS Integers

CONSTANTS
    Callers,     \* the goroutines that call Session.Run
    Handler,     \* the one among them that runs makeProcessHandler's closure
    Watcher,     \* the goroutine that waits for the connection's context
    NoOne,       \* the value of a OneTime nobody has locked
    Codes,       \* the exit codes the process can finish with
    MaxPending,  \* bound: chunks of output waiting in one pipe
    MaxWindow    \* bound: window changes waiting in the winch channel

ASSUME SessionAssumption ==
    /\ Handler \in Callers
    /\ Watcher \notin Callers
    /\ NoOne \notin Callers \cup {Watcher}
    /\ Codes \subseteq Int
    /\ MaxPending \in Nat \ {0}
    /\ MaxWindow \in Nat \ {0}

Threads == Callers \cup {Watcher}
Failure == 255

Setup   == {"Init", "Stdout", "Stderr", "Stdin"}
Methods == Setup \cup {"Start", "Wait", "Cleanup"}
Finalizing == {"lock", "error", "finish", "exit", "kill"}
Labels == Setup \cup {"Start", "Wait"} \cup Finalizing
          \cup {"handle", "abort", "run", "watch", "wait", "off", "ctx", "done"}

Outputs == {"stdout", "stderr", "output"}
Inputs  == {"stdin", "input"}
Copiers == Outputs \cup Inputs \cup {"winCh"}

VARIABLES
    pty,      \* did the client request a pty?
    pc,       \* where each thread is
    arg,      \* the arguments with which each thread calls finalize
    started,  \* Session.started: the caller that locked it
    finished, \* Session.finished: the thread that locked it
    calls,    \* every Process method: not called, in a call, or how it returned
    proc,     \* the command behind the Process
    code,     \* the code it exited with
    receiver, \* does the Process receive from resizeChan?
    go,       \* the goroutines of startRegular and startPty
    pending,  \* chunks of output the client has not been sent
    win,      \* window changes in the winch channel
    leak,     \* what the leak detector has reported
    conn,     \* "open", "hungup" (the client closed the session's channel), or
              \* "closed": the connection, whose context is the session's
    shown,    \* was an error message written to the client's stderr?
    exit      \* the first call of ssh.Session.Exit

control == <<pc, arg, started, finished>>
process == <<calls, proc, code, receiver>>
streams == <<go, pending, win>>
client  == <<conn, shown, exit>>
vars    == <<pty, control, process, streams, leak, client>>

NoExit == [by |-> "nobody", status |-> 0, live |-> FALSE]

(* finalize's arguments: Wait reports 0 or 255 next to an error. *)
Args  == [status : Codes \cup {0, Failure}, err : BOOLEAN]
Exits == [by : {"nobody", "session", "abort", "library"},
          status : Codes \cup {0, Failure}, live : BOOLEAN]

(* Everything the session's leak detector has seen an Add but no Done for. *)
Outstanding ==
    {g \in Copiers : go[g] \in {"run", "send"}}
    \cup {t \in {Watcher} : pc[t] \notin {"off", "done"}}
    \cup {m \in {"Wait"} : calls[m] = "in"}

Init ==
    /\ pty \in BOOLEAN
    /\ pc = [t \in Threads |-> IF t = Watcher THEN "off" ELSE "handle"]
    /\ arg = [t \in Threads |-> [status |-> Failure, err |-> FALSE]]
    /\ started = NoOne /\ finished = NoOne
    /\ calls = [m \in Methods |-> "no"]
    /\ proc = "new" /\ code = 0 /\ receiver = FALSE
    /\ go = [g \in Copiers |-> "no"]
    /\ pending = [s \in Outputs |-> 0]
    /\ win = IF pty THEN 1 ELSE 0    \* the ssh library queues the first size
    /\ leak = "no"
    /\ conn = "open" /\ shown = FALSE /\ exit = NoExit

Goto(t, label) == pc' = [pc EXCEPT ![t] = label]

(* ssh.Session.Exit: the first call sends the status and closes the channel,
   every later one only returns an error.                                   *)
Exit(by, status) ==
    exit' = IF exit = NoExit
            THEN [by |-> by, status |-> status, live |-> conn = "open"]
            ELSE exit

(* io.WriteString to the session's stderr. *)
WriteErrorLost == UNCHANGED shown   \* mutant: the error is only logged
WriteError == shown' = (shown \/ (conn = "open" /\ exit = NoExit))

(* OneTime.Lock succeeds for the first call only. *)
LockAgain(lock) == TRUE   \* mutant: a lock that does not lock
CanLock(lock) == lock = NoOne

(* Writes to the channel fail; the session's context, which is the connection's,
   is done.                                                                     *)
ChannelClosed == conn # "open" \/ exit # NoExit

NeverCancelled == FALSE   \* mutant: nobody looks at the context
Cancelled == conn = "closed"

-----------------------------------------------------------------------------
(* makeProcessHandler: Handle creates the process and with it the Session, which
   any caller can then run, or it fails and the ssh session is aborted.         *)
Handle ==
    /\ pc[Handler] = "handle"
    /\ \/ pc' = [t \in Threads |-> IF t \in Callers THEN "run" ELSE pc[t]]
       \/ Goto(Handler, "abort")
    /\ UNCHANGED <<pty, arg, started, finished, process, streams, leak, client>>

Abort ==
    /\ pc[Handler] = "abort"
    /\ Goto(Handler, "done")
    /\ WriteError
    /\ Exit("abort", Failure)
    /\ UNCHANGED <<pty, arg, started, finished, process, streams, leak, conn>>

(* The ssh library exits with 0 once the handler has returned. *)
LibraryExit ==
    /\ pc[Handler] = "done" /\ exit = NoExit
    /\ Exit("library", 0)
    /\ UNCHANGED <<pty, control, process, streams, leak, conn, shown>>

-----------------------------------------------------------------------------
(* Run: only the caller that locks `started' goes on. *)
RunLock(c) ==
    /\ pc[c] = "run"
    /\ \/ /\ CanLock(started)
          /\ started' = c
          /\ calls' = [calls EXCEPT !["Init"] = "in"]
          /\ Goto(c, "Init")
       \/ /\ ~CanLock(started)
          /\ Goto(c, "done")
          /\ UNCHANGED <<started, calls>>
    /\ UNCHANGED <<pty, arg, finished, proc, code, receiver, streams, leak, client>>

(* start's error goes to finalize, with status 255. *)
StartFailsUnfinalized(c) ==   \* mutant: Run just returns the error
    Goto(c, "done") /\ UNCHANGED arg

StartFails(c) ==
    /\ arg' = [arg EXCEPT ![c] = [status |-> Failure, err |-> TRUE]]
    /\ Goto(c, "lock")

(* The method start calls next, and the goroutines it starts before that. *)
AfterNoStdin(m) ==   \* mutant: the command is started before stdin is connected
    CASE m = "Init"   -> IF pty THEN "Start" ELSE "Stdout"
      [] m = "Stdout" -> "Stderr"
      [] OTHER        -> "Start"

After(m) == CASE m = "Init"   -> IF pty THEN "Start" ELSE "Stdout"
              [] m = "Stdout" -> "Stderr"
              [] m = "Stderr" -> "Stdin"
              [] OTHER        -> "Start"

Spawns(m) == CASE m = "Init"   -> IF pty THEN {"winCh"} ELSE {}
               [] m = "Stdout" -> {"stdout"}
               [] m = "Stderr" -> {"stderr"}
               [] m = "Stdin"  -> {"stdin"}
               [] OTHER        -> IF pty THEN {"input", "output"} ELSE {}

Spawn(m) == go' = [g \in Copiers |-> IF g \in Spawns(m) THEN "run" ELSE go[g]]

SetupReturns(c, m) ==
    /\ pc[c] = m
    /\ \/ /\ calls' = [calls EXCEPT ![m] = "ok", ![After(m)] = "in"]
          /\ Spawn(m)
          /\ Goto(c, After(m))
          /\ UNCHANGED arg
       \/ /\ calls' = [calls EXCEPT ![m] = "err"]
          /\ StartFails(c)
          /\ UNCHANGED go
    /\ UNCHANGED <<pty, started, finished, proc, code, receiver, pending, win,
                   leak, client>>

(* A Process that fails to start a pty may or may not have begun to receive
   from resizeChan: dockerexec has, osexec and the REPL have not.           *)
StartReturns(c) ==
    /\ pc[c] = "Start"
    /\ \/ /\ calls' = [calls EXCEPT !["Start"] = "ok"]
          /\ proc' = "running" /\ receiver' = pty
          /\ Spawn("Start")
          /\ Goto(c, "watch")
          /\ UNCHANGED arg
       \/ /\ calls' = [calls EXCEPT !["Start"] = "err"]
          /\ proc' = "failed" /\ receiver' \in {FALSE, pty}
          /\ StartFails(c)
          /\ UNCHANGED go
    /\ UNCHANGED <<pty, started, finished, code, pending, win, leak, client>>

SpawnWatcher(c) ==
    /\ pc[c] = "watch"
    /\ pc' = [pc EXCEPT ![c] = "wait", ![Watcher] = "ctx"]
    /\ UNCHANGED <<pty, arg, started, finished, process, streams, leak, client>>

CallWait(c) ==
    /\ pc[c] = "wait"
    /\ calls' = [calls EXCEPT !["Wait"] = "in"]
    /\ Goto(c, "Wait")
    /\ UNCHANGED <<pty, arg, started, finished, proc, code, receiver, streams,
                   leak, client>>

(* Wait returns the code of a process that ended; it can fail before that. *)
WaitReturns(c) ==
    /\ pc[c] = "Wait"
    /\ \/ /\ proc \in {"exited", "killed"}
          /\ calls' = [calls EXCEPT !["Wait"] = "ok"]
          /\ arg' = [arg EXCEPT ![c] = [status |-> code, err |-> FALSE]]
       \/ /\ calls' = [calls EXCEPT !["Wait"] = "err"]
          /\ \E s \in {0, Failure} :
                arg' = [arg EXCEPT ![c] = [status |-> s, err |-> TRUE]]
    /\ Goto(c, "lock")
    /\ UNCHANGED <<pty, started, finished, proc, code, receiver, streams, leak, client>>

(* The goroutine that finalizes the session when the connection is gone. *)
ContextDone ==
    /\ pc[Watcher] = "ctx" /\ Cancelled
    /\ arg' = [arg EXCEPT ![Watcher] = [status |-> Failure, err |-> FALSE]]
    /\ Goto(Watcher, "lock")
    /\ UNCHANGED <<pty, started, finished, process, streams, leak, client>>

-----------------------------------------------------------------------------
(* finalize, run by the caller and the watcher, one call at a time. *)
FinalizeLock(t) ==
    /\ pc[t] = "lock"
    /\ \/ /\ CanLock(finished)
          /\ finished' = t
          /\ Goto(t, IF arg[t].err THEN "error" ELSE "finish")
       \/ /\ ~CanLock(finished)
          /\ Goto(t, "done")
          /\ UNCHANGED finished
    /\ UNCHANGED <<pty, arg, started, process, streams, leak, client>>

FinalizeError(t) ==
    /\ pc[t] = "error"
    /\ WriteError
    /\ Goto(t, "finish")
    /\ UNCHANGED <<pty, arg, started, finished, process, streams, leak, conn, exit>>

FinalizeFinish(t) ==
    /\ pc[t] = "finish"
    /\ leak' = "waiting"
    /\ Goto(t, "exit")
    /\ UNCHANGED <<pty, arg, started, finished, process, streams, client>>

FinalizeExit(t) ==
    /\ pc[t] = "exit"
    /\ Exit("session", arg[t].status)
    /\ Goto(t, "kill")
    /\ UNCHANGED <<pty, arg, started, finished, process, streams, leak, conn, shown>>

FinalizeKillErrors(t) ==   \* mutant: a process that returned is not cleaned up
    /\ pc[t] = "kill"
    /\ calls' = [calls EXCEPT !["Cleanup"] = IF arg[t].err THEN "in" ELSE @]
    /\ Goto(t, "done")
    /\ UNCHANGED <<pty, arg, started, finished, proc, code, receiver, streams,
                   leak, client>>

(* `go c.killProcess()': the call of Cleanup runs beside its caller. *)
FinalizeKill(t) ==
    /\ pc[t] = "kill"
    /\ calls' = [calls EXCEPT !["Cleanup"] = "in"]
    /\ Goto(t, "done")
    /\ UNCHANGED <<pty, arg, started, finished, proc, code, receiver, streams,
                   leak, client>>

CleanupReturns ==
    /\ calls["Cleanup"] = "in"
    /\ calls' = [calls EXCEPT !["Cleanup"] = "ok"]
    /\ IF proc = "running"
       THEN proc' = "killed" /\ code' \in Codes
       ELSE UNCHANGED <<proc, code>>
    /\ UNCHANGED <<pty, control, receiver, streams, leak, client>>

-----------------------------------------------------------------------------
(* The goroutines that copy a stream.  A chunk goes from the process's pipe to
   the client; the copy ends when the context is done, a write to the closed
   channel fails, or the source has ended (Wait closes the pipes it has).     *)
CopyChunk(s) ==
    /\ go[s] = "run" /\ pending[s] > 0 /\ ~ChannelClosed
    /\ pending' = [pending EXCEPT ![s] = @ - 1]
    /\ UNCHANGED <<pty, control, process, go, win, leak, client>>

SourceEnded(s) ==
    /\ proc \in {"exited", "killed", "failed"}
    /\ pending[s] = 0 \/ calls["Wait"] \in {"ok", "err"}

OutputStops(s) ==
    /\ go[s] = "run"
    /\ Cancelled \/ SourceEnded(s) \/ (ChannelClosed /\ pending[s] > 0)
    /\ go' = [go EXCEPT ![s] = "done"]
    /\ UNCHANGED <<pty, control, process, pending, win, leak, client>>

(* The client ends its input, or the process no longer takes any; the copy must
   end when the context is done or the channel is closed.                      *)
InputStops(s) ==
    /\ go[s] = "run"
    /\ go' = [go EXCEPT ![s] = "done"]
    /\ UNCHANGED <<pty, control, process, pending, win, leak, client>>

(* The winCh goroutine takes a change, hands it to the process's receiver and
   closes resizeChan when the ssh library has closed the winch channel.      *)
TakeWindow ==
    /\ go["winCh"] = "run" /\ win > 0
    /\ win' = win - 1
    /\ go' = [go EXCEPT !["winCh"] = "send"]
    /\ UNCHANGED <<pty, control, process, pending, leak, client>>

SendWindow ==
    /\ go["winCh"] = "send" /\ receiver
    /\ go' = [go EXCEPT !["winCh"] = "run"]
    /\ UNCHANGED <<pty, control, process, pending, win, leak, client>>

CloseResize ==
    /\ go["winCh"] = "run" /\ win = 0 /\ ChannelClosed
    /\ go' = [go EXCEPT !["winCh"] = "done"]
    /\ UNCHANGED <<pty, control, process, pending, win, leak, client>>

-----------------------------------------------------------------------------
(* detector.Finish: the leak check succeeds once nothing is outstanding, or
   reports a leak after MemoryLeakTimeout.                                  *)
AnyCount == TRUE   \* mutant: the check does not wait for the goroutines
ZeroCount == Outstanding = {}

LeakOk ==
    /\ leak = "waiting" /\ ZeroCount
    /\ leak' = "ok"
    /\ UNCHANGED <<pty, control, process, streams, client>>

LeakFail ==
    /\ leak = "waiting"
    /\ leak' = "fail"
    /\ UNCHANGED <<pty, control, process, streams, client>>

(* The environment: the command runs, the client resizes or disconnects. *)
ProcessOutput(s) ==
    /\ proc = "running" /\ pending[s] < MaxPending
    /\ s \in IF pty THEN {"output"} ELSE {"stdout", "stderr"}
    /\ pending' = [pending EXCEPT ![s] = @ + 1]
    /\ UNCHANGED <<pty, control, process, go, win, leak, client>>

ProcessExit ==
    /\ proc = "running"
    /\ proc' = "exited" /\ code' \in Codes
    /\ UNCHANGED <<pty, control, calls, receiver, streams, leak, client>>

Resize ==
    /\ pty /\ win < MaxWindow /\ ~ChannelClosed
    /\ win' = win + 1
    /\ UNCHANGED <<pty, control, process, go, pending, leak, client>>

Disconnect ==
    /\ \/ conn = "open" /\ conn' = "hungup"
       \/ conn # "closed" /\ conn' = "closed"
    /\ UNCHANGED <<pty, control, process, streams, leak, shown, exit>>

-----------------------------------------------------------------------------
Caller(c) ==
    \/ RunLock(c) \/ StartReturns(c) \/ SpawnWatcher(c)
    \/ CallWait(c) \/ WaitReturns(c)
    \/ \E m \in Setup : SetupReturns(c, m)

Finalize(t) ==
    \/ FinalizeLock(t) \/ FinalizeError(t) \/ FinalizeFinish(t)
    \/ FinalizeExit(t) \/ FinalizeKill(t)

Server == Handle \/ Abort \/ LibraryExit

Copier(g) ==
    \/ g \in Outputs /\ (CopyChunk(g) \/ OutputStops(g))
    \/ g = "winCh" /\ (TakeWindow \/ SendWindow \/ CloseResize)

Environment ==
    \/ ProcessExit \/ Resize \/ Disconnect \/ LeakFail
    \/ \E s \in Outputs : ProcessOutput(s)
    \/ \E s \in Inputs : InputStops(s)

Next ==
    \/ Server
    \/ \E c \in Callers : Caller(c)
    \/ ContextDone
    \/ \E t \in Threads : Finalize(t)
    \/ CleanupReturns
    \/ \E g \in Copiers : Copier(g)
    \/ LeakOk
    \/ Environment

Spec == Init /\ [][Next]_vars

(* What the Go scheduler, the ssh library and a Process that keeps its contract
   do in the end.  Nothing is assumed of the client or of the command itself,
   and an error of Wait is never relied upon.                                *)
WaitSucceeds(c) == proc \in {"exited", "killed"} /\ WaitReturns(c)
InputMustStop(s) == ChannelClosed /\ InputStops(s)

Fairness ==
    /\ WF_vars(Server)
    /\ \A c \in Callers :
          /\ WF_vars(RunLock(c)) /\ WF_vars(StartReturns(c))
          /\ WF_vars(SpawnWatcher(c)) /\ WF_vars(CallWait(c))
          /\ WF_vars(WaitSucceeds(c))
          /\ \A m \in Setup : WF_vars(SetupReturns(c, m))
    /\ WF_vars(ContextDone)
    /\ \A t \in Threads : WF_vars(Finalize(t))
    /\ WF_vars(CleanupReturns)
    /\ \A g \in Copiers : WF_vars(Copier(g))
    /\ \A s \in Inputs : WF_vars(InputMustStop(s))

FairSpec == Spec /\ Fairness

-----------------------------------------------------------------------------
(* The values every variable of the session can take. *)
TypeOK ==
    /\ pty \in BOOLEAN
    /\ pc \in [Threads -> Labels]
    /\ arg \in [Threads -> Args]
    /\ started \in Callers \cup {NoOne}
    /\ finished \in Threads \cup {NoOne}
    /\ calls \in [Methods -> {"no", "in", "ok", "err"}]
    /\ proc \in {"new", "running", "exited", "killed", "failed"}
    /\ code \in Codes \cup {0}
    /\ receiver \in BOOLEAN
    /\ go \in [Copiers -> {"no", "run", "send", "done"}]
    /\ pending \in [Outputs -> 0..MaxPending]
    /\ win \in 0..MaxWindow
    /\ leak \in {"no", "waiting", "ok", "fail"}
    /\ conn \in {"open", "hungup", "closed"}
    /\ shown \in BOOLEAN
    /\ exit \in Exits

(* The Process is used in the order its methods need: Start follows Init and,
   without a pty, the three streams; Wait follows a Start that succeeded; and
   Cleanup, which another goroutine calls, never overlaps Init, a stream or
   Start and never comes before the session has exited.                      *)
Succeeded(ms) == \A m \in ms : calls[m] = "ok"

CallOrder ==
    /\ calls["Start"] # "no" => Succeeded(IF pty THEN {"Init"} ELSE Setup)
    /\ calls["Wait"] # "no" => Succeeded({"Start"})
    /\ calls["Cleanup"] # "no" =>
          /\ exit # NoExit
          /\ \A m \in Setup \cup {"Start"} : calls[m] # "in"

(* "all methods in this interface are called at most once" (session.go:35),
   however many goroutines call Run and whoever finalizes.                  *)
CalledOnce ==
    [][\A m \in Methods :
          /\ calls[m] # "no" => calls'[m] # "no"
          /\ calls[m] \in {"ok", "err"} => calls'[m] = calls[m]]_vars

(* What a client that is still connected sees as the exit status: the code the
   process exited with and no error, or an error that it was also shown.  The
   library's own 0 reaches it only if some other goroutine ran the session.   *)
ExitFaithful ==
    exit.live =>
        CASE exit.by = "session" ->
                IF shown THEN "err" \in {calls[m] : m \in Methods}
                         ELSE calls["Wait"] = "ok" /\ proc = "exited"
                              /\ exit.status = code
          [] exit.by = "abort"   -> shown /\ exit.status = Failure
          [] exit.by = "library" -> started # Handler
          [] OTHER               -> FALSE

(* When a caller of Run finalized the session, "leak_ok" is true to its word:
   nothing the detector was told of is running, or will be started.           *)
LeakOkSound == leak = "ok" /\ finished \in Callers => Outstanding = {}

(* Every goroutine the session starts gives up when the connection is gone,
   the callers return and the process is cleaned up; the one exception is the
   winCh goroutine when a pty failed to start before anybody received from it. *)
Gone == conn = "closed" /\ started # NoOne

Abandoned == IF pty /\ calls["Start"] = "err" THEN {"winCh"} ELSE {}

Released ==
    Gone ~> /\ Outstanding \subseteq Abandoned
            /\ calls["Cleanup"] = "ok"
            /\ pc[started] = "done"

(* A command that has exited is always reported to the client, which then sees
   its channel closed, and its Process is cleaned up.                          *)
ExitReported == (proc = "exited") ~> (exit # NoExit /\ calls["Cleanup"] = "ok")

-----------------------------------------------------------------------------
(* simplesshd "proxies the input and output streams between the connection and
   the executed process" (cmd/simplesshd/main.go:17): a client that is told the
   process's exit code has been sent the output of the process.                 *)
OutputComplete ==
    exit.live /\ exit.by = "session" /\ calls["Wait"] = "ok" =>
        \A s \in Outputs : pending[s] = 0

-----------------------------------------------------------------------------
(* The session as its client and its host see it.  An exit that nobody received
   is an answer only in that the session is over.                              *)
AnswerKind == IF exit = NoExit THEN "none"
              ELSE IF ~exit.live THEN "gone"
              ELSE IF exit.by = "session" /\ ~shown THEN "result" ELSE "failure"

Service == INSTANCE SessionService WITH
    command <- IF proc \in {"new", "failed"} THEN "none" ELSE proc,
    client  <- CASE conn = "open" -> "here" [] conn = "hungup" -> "away" [] OTHER -> "left",
    answer  <- [kind |-> AnswerKind,
                code |-> IF AnswerKind = "result" THEN exit.status ELSE 0]

(* The whole of Run, start, wait and finalize implements that service: every
   step of a goroutine is one of its steps or changes nothing it can see.     *)
ImplementsService == Service!Spec
=============================================================================
