----------------------------- MODULE ContainerExec -----------------------------
(***************************************************************************)
(* config/dockerexec/exec.go: a Process that is a docker exec.  Start      *)
(* creates the exec, attaches to it and leaves two goroutines behind that  *)
(* copy its output and its input, and with a pty one that resizes the      *)
(* exec; Wait waits for the first two over channels; Cleanup closes what   *)
(* they copy from and to.  The docker daemon, the client and the Session   *)
(* are external, and so is the connection between them: it can break at    *)
(* any step, and the stream can end as if the exec had.                    *)
(***************************************************************************)
EXTENDS Integers

CONSTANTS
    ExitCodes,   \* the codes the exec can exit with
    MaxSent,     \* bound: chunks of output waiting in the connection
    MaxWindows   \* bound: window changes not yet taken

ASSUME ContainerAssumption ==
    /\ ExitCodes \subseteq 0..255
    /\ MaxSent \in Nat \ {0} /\ MaxWindows \in Nat \ {0}

Codes == ExitCodes \cup {0}
Pipes == {"Stdout", "Stderr", "Stdin"}

VARIABLES
    pty,        \* was a pty requested?
    ctx,        \* the connection's context: "live" or "done"
    pc,         \* the method Run is in, a place in Start or Wait, or how it ended
    answer,     \* what Wait returned
    exec,       \* the exec in the container: "none", "created", "running", "exited"
    code,       \* the code it exited with
    conn,       \* the hijacked connection: "none", "nil" (Attach failed), "open",
                \* "broken" or "closed"
    attached,   \* cep.conn: is it set?
    sent,       \* chunks of output in the connection
    cut,        \* did the stream end while there was more to come?
    sink,       \* what output is written to: "open" or "closed"
    source,     \* what input is read from: "open", "ended" or "closed"
    out, outErr,   \* the output goroutine, and its err
    outErrChan,    \* the channel of one error: "empty", "nil" or "err"
    inp,           \* the input goroutine
    inputDoneChan, \* is it closed?
    windows,    \* the window changes of the client that are still to be taken
    resizer,    \* the goroutine of HandleWith: "no", "wait" or "resize"
    taken, resized, \* is what it took, or what the exec has, the client's last size?
    refused,    \* was the last resize of the exec refused?
    clean,      \* Cleanup: "no", "pipes", "conn", "forget" or "done"
    panicked    \* a panic, which ends the server

run    == <<pc, answer>>
docker == <<exec, code, conn, sent, cut>>
ends   == <<sink, source>>
copies == <<out, outErr, outErrChan, inp, inputDoneChan>>
sizes  == <<windows, resizer, taken, resized, refused>>
term   == <<pty, sizes>>
vars   == <<term, ctx, run, docker, attached, ends, copies, clean, panicked>>

Init ==
    /\ pty \in BOOLEAN /\ ctx = "live"
    /\ pc = "Init" /\ answer = [kind |-> "none", status |-> 0]
    /\ exec = "none" /\ code = 0 /\ conn = "none" /\ sent = 0 /\ cut = FALSE
    /\ attached = FALSE
    /\ sink = "open" /\ source = "open"
    /\ out = "no" /\ outErr = "nil" /\ outErrChan = "empty"
    /\ inp = "no" /\ inputDoneChan = FALSE
    /\ windows = (IF pty THEN 1 ELSE 0) /\ resizer = "no"
    /\ taken = FALSE /\ resized = FALSE /\ refused = FALSE
    /\ clean = "no" /\ panicked = FALSE

-----------------------------------------------------------------------------
(* Init opens a terminal for a pty, the three methods of Pipes a pipe each. *)
Following == [Init |-> "Stdout", Stdout |-> "Stderr", Stderr |-> "Stdin", Stdin |-> "create"]

Setup ==
    /\ pc \in Pipes \cup {"Init"}
    /\ pc' \in {IF pty THEN "create" ELSE Following[pc]}
               \cup (IF pc = "Init" /\ ~pty THEN {} ELSE {"failed"})
    /\ resizer' = IF pty /\ pc' = "create" THEN "wait" ELSE "no"
    /\ UNCHANGED <<pty, windows, taken, resized, refused, ctx, answer, docker, attached, ends,
                   copies, clean, panicked>>

(* Start: ContainerExecCreate and ContainerExecAttach, whose error is not looked
   at, and the two goroutines.                                                  *)
Create ==
    /\ pc = "create"
    /\ \/ pc' = "attach" /\ exec' = "created"
       \/ pc' = "failed" /\ UNCHANGED exec
    /\ UNCHANGED <<term, ctx, answer, code, conn, sent, cut, attached, ends, copies, clean,
                   panicked>>

Attach ==
    /\ pc = "attach"
    /\ \/ conn' = "open" /\ exec' = "running"
       \/ conn' = "nil" /\ UNCHANGED exec
    /\ attached' = TRUE
    /\ out' = "copy" /\ inp' = "copy"
    /\ pc' = "wait"
    /\ UNCHANGED <<term, ctx, answer, code, sent, cut, ends, outErr, outErrChan,
                   inputDoneChan, clean, panicked>>

-----------------------------------------------------------------------------
(* The output goroutine copies until the stream ends, which is no error whatever the
   exec is doing, or the copy fails: the connection, what it writes to, or the context
   is gone.                                                                            *)
CopyOutput ==
    /\ out = "copy" /\ conn = "open" /\ sent > 0 /\ sink = "open" /\ ctx = "live"
    /\ sent' = sent - 1
    /\ UNCHANGED <<term, ctx, run, exec, code, conn, cut, attached, ends, copies, clean,
                   panicked>>

StreamEnds == conn = "open" /\ sent = 0 /\ (exec = "exited" \/ cut)
Uncancelled == conn \in {"broken", "closed"} \/ (sent > 0 /\ sink = "closed")
    \* mutant: a copy that does not look at the context
CopyFails == Uncancelled \/ ctx = "done"

OutputEnds ==
    /\ out = "copy"
    /\ out' = "send"
    /\ \/ StreamEnds /\ outErr' = "nil"
       \/ CopyFails /\ outErr' = "err"
    /\ UNCHANGED <<term, ctx, run, docker, attached, ends, outErrChan, inp, inputDoneChan,
                   clean, panicked>>

SendError ==
    /\ out = "send" /\ outErrChan = "empty"
    /\ outErrChan' = outErr
    /\ out' = "done"
    /\ UNCHANGED <<term, ctx, run, docker, attached, ends, outErr, inp, inputDoneChan,
                   clean, panicked>>

(* The input goroutine ends with its source, a failed write, or the context; the
   terminal of a pty has no end that it could see, and may or may not be woken.   *)
InputMustEnd == ctx = "done" \/ (~pty /\ source # "open")

InputEnds ==
    /\ inp = "copy"
    /\ \/ InputMustEnd \/ source = "closed"
       \/ conn \in {"broken", "closed"} \/ exec = "exited" \/ cut
    /\ inp' = "done" /\ inputDoneChan' = TRUE
    /\ UNCHANGED <<term, ctx, run, docker, attached, ends, out, outErr, outErrChan, clean,
                   panicked>>

(* With no connection the first read of output, or write of input, panics. *)
UseNil ==
    /\ conn = "nil"
    /\ out = "copy" \/ inp = "copy"
    /\ panicked' = TRUE
    /\ UNCHANGED <<term, ctx, run, docker, attached, ends, copies, clean>>

-----------------------------------------------------------------------------
(* HandleWith takes one change after another, and for each resizes the terminal and
   then the exec.                                                                   *)
HandleLossy ==   \* mutant: what comes while the exec is resized is dropped
    /\ resizer # "no" /\ windows > 0 /\ windows' = windows - 1
    /\ IF resizer = "wait" THEN taken' = (windows = 1) /\ resizer' = "resize"
                           ELSE UNCHANGED <<taken, resizer>>
    /\ UNCHANGED <<pty, resized, refused, ctx, run, docker, attached, ends, copies, clean,
                   panicked>>

HandleWith ==
    /\ resizer = "wait" /\ windows > 0
    /\ windows' = windows - 1 /\ taken' = (windows = 1) /\ resizer' = "resize"
    /\ UNCHANGED <<pty, resized, refused, ctx, run, docker, attached, ends, copies, clean,
                   panicked>>

(* ContainerExecResize takes an exec that runs.  Before ContainerExecCreate its ID is
   "", and the ID that is read while Run stores it can be half of each, which panics. *)
StoringID == pc = "attach"

ContainerExecResize ==
    /\ resizer = "resize"
    /\ \/ /\ exec = "running" /\ ctx = "live"
          /\ resizer' = "wait" /\ resized' = taken /\ refused' = FALSE /\ UNCHANGED panicked
       \/ resizer' = "wait" /\ refused' = TRUE /\ UNCHANGED <<resized, panicked>>
       \/ StoringID /\ panicked' = TRUE /\ UNCHANGED <<resizer, resized, refused>>
    /\ UNCHANGED <<pty, windows, taken, ctx, run, docker, attached, ends, copies, clean>>

-----------------------------------------------------------------------------
(* waitStreams: of several channels that are ready select takes any one. *)
AnswerUnset(kind, status) ==   \* mutant: there is no code on an error
    /\ answer' = [kind |-> kind, status |-> IF kind = "ok" THEN status ELSE -1]
    /\ pc' = "returned"

Answer(kind, status) ==
    /\ answer' = [kind |-> kind, status |-> status]
    /\ pc' = "returned"

Receive ==
    /\ outErrChan # "empty"
    /\ outErrChan' = "empty"
    /\ IF outErrChan = "nil" THEN pc' = "inspect" /\ UNCHANGED answer
                             ELSE Answer("err", 0)

InputSuffices == pc' = "inspect" /\ UNCHANGED answer   \* mutant: output is not waited for
OutputToo == pc' = "inner" /\ UNCHANGED answer

WaitStreams ==
    /\ pc \in {"wait", "inner"}
    /\ \/ Receive
       \/ pc = "wait" /\ inputDoneChan /\ OutputToo /\ UNCHANGED outErrChan
       \/ ctx = "done" /\ Answer("err", 0) /\ UNCHANGED outErrChan
    /\ UNCHANGED <<term, ctx, docker, attached, ends, out, outErr, inp, inputDoneChan,
                   clean, panicked>>

(* ContainerExecInspect reports the code, which is 0 for an exec that still runs; that
   it runs is in the answer too, and not looked at.                                    *)
Inspect ==
    /\ pc = "inspect"
    /\ Answer("ok", code) \/ Answer("err", 0)
    /\ UNCHANGED <<term, ctx, docker, attached, ends, copies, clean, panicked>>

-----------------------------------------------------------------------------
(* Cleanup follows a failed start, a Wait that returned, or the context's end. *)
CloseTerminal ==
    /\ clean = "no"
    /\ pc \in {"failed", "returned"} \/ (ctx = "done" /\ pc \in {"wait", "inner", "inspect"})
    /\ clean' = "pipes"
    /\ IF pty THEN sink' = "closed" /\ source' = "closed" ELSE UNCHANGED ends
    /\ UNCHANGED <<term, ctx, run, docker, attached, copies, panicked>>

ClosePipesUnread ==   \* mutant: the pipe input is read from stays open
    /\ clean = "pipes"
    /\ clean' = "conn"
    /\ sink' = "closed"
    /\ UNCHANGED <<term, ctx, run, docker, attached, source, copies, panicked>>

ClosePipes ==
    /\ clean = "pipes"
    /\ clean' = "conn"
    /\ IF pty THEN UNCHANGED ends ELSE sink' = "closed" /\ source' = "closed"
    /\ UNCHANGED <<term, ctx, run, docker, attached, copies, panicked>>

CloseNothing ==   \* mutant: the connection is left open
    /\ clean = "conn"
    /\ clean' = IF attached THEN "forget" ELSE "done"
    /\ UNCHANGED <<term, ctx, run, docker, attached, ends, copies, panicked>>

CloseConn ==
    /\ clean = "conn"
    /\ \/ ~attached /\ clean' = "done" /\ UNCHANGED <<conn, panicked>>
       \/ attached /\ conn = "nil" /\ panicked' = TRUE /\ UNCHANGED <<clean, conn>>
       \/ /\ attached /\ conn # "nil"
          /\ clean' = "forget" /\ conn' = "closed" /\ UNCHANGED panicked
    /\ UNCHANGED <<term, ctx, run, exec, code, sent, cut, attached, ends, copies>>

ForgetConn ==
    /\ clean = "forget"
    /\ clean' = "done" /\ attached' = FALSE
    /\ UNCHANGED <<term, ctx, run, docker, ends, copies, panicked>>

-----------------------------------------------------------------------------
(* The environment.  An exec runs on when the connection is gone or its stream ended. *)
ExecOutput ==
    /\ exec = "running" /\ conn = "open" /\ ~cut /\ sent < MaxSent
    /\ sent' = sent + 1
    /\ UNCHANGED <<term, ctx, run, exec, code, conn, cut, attached, ends, copies, clean,
                   panicked>>

ExecExit ==
    /\ exec = "running"
    /\ exec' = "exited" /\ code' \in ExitCodes
    /\ UNCHANGED <<term, ctx, run, conn, sent, cut, attached, ends, copies, clean, panicked>>

(* The stream of an exec that runs, or of which output is left, ends as that of one
   that exited does: its command closed its output, the client typed docker's keys to
   detach, or what is between closed the connection and dropped what it held.         *)
CutOff ==
    /\ conn = "open" /\ ~cut /\ (exec = "running" \/ sent > 0)
    /\ cut' = TRUE /\ sent' \in 0..sent
    /\ UNCHANGED <<term, ctx, run, exec, code, conn, attached, ends, copies, clean, panicked>>

Break ==
    /\ conn = "open" /\ conn' = "broken"
    /\ UNCHANGED <<term, ctx, run, exec, code, sent, cut, attached, ends, copies, clean,
                   panicked>>

(* The Session's own copies stop: of output, closing its end, or of input. *)
SessionCloses ==
    /\ ~pty /\ pc \in {"wait", "inner", "inspect"}
    /\ \/ sink' = "closed" /\ UNCHANGED source
       \/ source = "open" /\ source' = "ended" /\ UNCHANGED sink
    /\ UNCHANGED <<term, ctx, run, docker, attached, copies, clean, panicked>>

(* The client's first size comes with its request for a pty, the others later. *)
ClientResizes ==
    /\ pty /\ ctx = "live" /\ windows < MaxWindows
    /\ windows' = windows + 1 /\ taken' = FALSE /\ resized' = FALSE
    /\ UNCHANGED <<pty, resizer, refused, ctx, run, docker, attached, ends, copies, clean,
                   panicked>>

Disconnect ==
    /\ ctx = "live" /\ ctx' = "done"
    /\ UNCHANGED <<term, run, docker, attached, ends, copies, clean, panicked>>

Run     == Setup \/ Create \/ Attach \/ WaitStreams \/ Inspect
Output  == CopyOutput \/ OutputEnds \/ SendError
Cleanup == ClosePipes \/ CloseConn \/ ForgetConn

Next ==
    /\ ~panicked
    /\ \/ Run \/ Output \/ InputEnds \/ UseNil \/ HandleWith \/ ContainerExecResize
       \/ CloseTerminal \/ Cleanup
       \/ ExecOutput \/ ExecExit \/ CutOff \/ Break \/ SessionCloses
       \/ ClientResizes \/ Disconnect

Spec == Init /\ [][Next]_vars

(* The threads of the Process run on, and ContainerExecInspect returns, if only when
   the client gives it up; the exec, the client and docker's other calls need not.   *)
FairSpec ==
    /\ Spec
    /\ WF_vars(~panicked /\ (WaitStreams \/ Inspect))
    /\ WF_vars(~panicked /\ Output)
    /\ WF_vars(~panicked /\ InputMustEnd /\ InputEnds)
    /\ WF_vars(~panicked /\ Cleanup)

-----------------------------------------------------------------------------
(* The values the variables of the Process can take. *)
TypeOK ==
    /\ pty \in BOOLEAN /\ ctx \in {"live", "done"}
    /\ pc \in Pipes \cup {"Init", "create", "attach", "wait", "inner", "inspect",
                          "failed", "returned"}
    /\ answer \in [kind : {"none", "ok", "err"}, status : Codes]
    /\ exec \in {"none", "created", "running", "exited"} /\ code \in Codes
    /\ conn \in {"none", "nil", "open", "broken", "closed"}
    /\ attached \in BOOLEAN /\ cut \in BOOLEAN
    /\ sent \in 0..MaxSent
    /\ sink \in {"open", "closed"} /\ source \in {"open", "ended", "closed"}
    /\ out \in {"no", "copy", "send", "done"} /\ outErr \in {"nil", "err"}
    /\ outErrChan \in {"empty", "nil", "err"}
    /\ inp \in {"no", "copy", "done"} /\ inputDoneChan \in BOOLEAN
    /\ windows \in 0..MaxWindows /\ resizer \in {"no", "wait", "resize"}
    /\ taken \in BOOLEAN /\ resized \in BOOLEAN /\ refused \in BOOLEAN
    /\ clean \in {"no", "pipes", "conn", "forget", "done"} /\ panicked \in BOOLEAN

(* Whichever of the two streams ended first, Wait reports a code only when all output
   that came has been handed on, and it is the code the exec exited with, unless the
   stream was cut off: then it can be the 0 of an exec that ran on.                   *)
OutputBeforeResult ==
    answer.kind = "ok" =>
        /\ sent = 0
        /\ \/ exec = "exited" /\ answer.status = code
           \/ cut /\ answer.status = 0

(* "Wait waits for the process and returns the exit code" (exec.go:200): what it
   returns without an error is the code of a process that has exited.              *)
ResultAfterExit == answer.kind = "ok" => exec = "exited"

(* However the changes of the window fall among Start's calls to docker: once all are
   taken the exec has the client's last size, unless the last resize was refused, as
   those are that come before the exec runs.  A resize ends the server only where Start
   is storing the exec's ID, and nothing else does but an Attach that failed, which
   should only fail Start (session.go:62).                                              *)
WindowFollows ==
    /\ resizer = "wait" /\ windows = 0 => resized \/ refused
    /\ panicked => conn = "nil" \/ (StoringID /\ resizer = "resize")

(* When the connection is gone both goroutines end and Wait returns, even before
   Cleanup; without a pty Cleanup alone is enough.                                *)
Begun == out # "no"
Over == panicked \/ (out = "done" /\ inp = "done" /\ pc = "returned")

Stopped == (Begun /\ (ctx = "done" \/ (clean = "done" /\ ~pty))) ~> Over

(* The exec as a Session knows it: it is lost where its stream or the connection to it
   is gone before it has exited.                                                       *)
Gone == cut \/ conn \in {"broken", "closed"}

Contract == INSTANCE ProcessContract WITH
    Kills   <- TRUE,
    Loses   <- TRUE,
    begun   <- CASE pc = "failed" -> "failed"
                 [] pc \in {"wait", "inner", "inspect", "returned"} -> "yes"
                 [] OTHER -> "no",
    command <- IF ~Begun THEN "none" ELSE IF exec = "exited" THEN "ended"
               ELSE IF Gone THEN "lost" ELSE "running",
    cleaned <- IF clean \in {"no", "done"} THEN clean ELSE "in",
    alive   <- ~panicked

(* In whatever order the streams, the exec, the connection and the context end, a
   Session sees a Process that keeps its contract.                                 *)
KeepsContract == Contract!Spec
=============================================================================
