# proxyssh in TLA+

This directory is a verification development of proxyssh: TLA+ modules that model
its core, TLC configurations that check them on small instances, and proofs that
TLAPS checks for every instance. Everything is translated from the Go source;
`PROJECT.json` says, definition by definition, which lines.

    tlc -workers 2 -config MCSession_safety.cfg MCSession     # one run
    tlapm SessionProofs.tla                                   # the proofs

## 1. The system

proxyssh is an ssh server (on top of `gliderlabs/ssh`) that gives every ssh
session a *process*: a command of the host, a `docker exec`, or a small
read-eval-print loop written in Go. Its parts, the state they keep and what makes
them correct:

| Part (source) | State | Operations | What makes it correct |
|---|---|---|---|
| **Session** (`session.go`) | two one-time locks `started`, `finished`; leak detector; the Process; five stream goroutines, a resize goroutine, a context watcher | `Run`, `start`, `wait`, `finalize`, `killProcess` | the Process is used in order, each method once; one exit status, and a truthful one; nothing outlives the connection |
| **Handler** (`handle.go`) | `server.Handler` | `ApplyHandler`, `makeProcessHandler`, `abortsession` | set once; a session that cannot be created tells the client and exits |
| **OneTime**, **WorkGroup** (`internal/lock`) | a flag; RWMutex and WaitGroup | `Lock`; `Lock`, `Unlock`, `Add`, `Done`, `Wait` | one winner; no job begins between `Wait` and `Unlock` |
| **Leak detector** (`logging/detector.go`) | per session a WaitGroup and a map of names; global counters `Success`, `Failure` | `Add`, `Done`, `Finish`, `fire`/`unfire`, `Get`/`ResetGlobal...Stats` | honest verdicts; the two numbers read belong together; `Finish` does not hold a session up for ever |
| **asyncio** (`internal/asyncio`) | a pool of buffers shared by all sessions | `Wait`, `Read`, `Write`, `Copy` | a cancelled copy ends; a buffer has one owner; no copy delivers another's data |
| **osexec** (`config/osexec`) | `exec.Cmd`, terminal | `Init`, `Start`, `Wait`, `Cleanup` | the Process contract (below) |
| **dockerexec** (`config/dockerexec/exec.go`) | exec id, hijacked connection, two channels | the same | the same |
| **REPL** (`config/terminal`) | worker context, exit code, loop channel | the same | the same |
| **Terminal pair, pipes** (`internal/term`) | file descriptors, raw-mode state | `Open`, `Handle`, `RawMode`, `RestoreMode`, `Close`, `UnhangHack` | no descriptor used after it is closed; modes restored |
| **Container lookup** (`config/dockerexec/config.go`, `find.go`, `keys.go`) | the container in the connection's context | `findContainer`, `Apply`, `Handle` | a session runs in the container that authenticated it |
| **Configuration** (`configuration.go`, `options.go`) | fields of `ssh.Server` | `NewServer`, `Apply` | order of configurations and options |
| **Host keys** (`feature/hostkey.go`) | key files | `ReadOrMakeHostKey`, `makeHostKey`, `loadHostKey` | a server starts with the key on disk, also after a crash |
| **Authorization, forwarding** (`feature/authorize.go`, `forward*.go`) | the allowed addresses | callbacks | exactly the configured keys and addresses |
| **Daemons** (`cmd/*`) | flags | `main` | the server is configured as the flags say |

How they interact. The ssh library calls the closure of `makeProcessHandler` once
for each session. The closure asks the configured `Handler` for a Process, makes a
`Session` and calls `Run`. `Run` calls the Process's methods itself; it starts one
goroutine for each stream, each of which runs an `asyncio` copy, one that forwards
window changes over a channel to the Process, and one that waits for the
connection's context. `Run` and that watcher race to `finalize`; the winner tells
the leak detector to check, exits the ssh session and starts `killProcess`. The
detector, its WorkGroup and the buffer pool are shared by all sessions.

What is hard here is concurrency: two threads that finalize, a Process used by
three threads, goroutines that must notice that the connection is gone, terminals
closed under their readers, buffers and counters shared between sessions, a
container looked up by concurrent sessions, key files that outlive the daemons
which make them. `PROJECT.json` lists each hazard with its
line and the properties that cover it.

## 2. The modules

| Module | Models | Used by |
|---|---|---|
| `Session` | handler, `Run`, `start`, `wait`, `finalize`, `killProcess`, every goroutine they start, OneTime, one session's detector | `SessionInvariant`, `MCSession` |
| `SessionService` | abstract: what a session promises, with no locks, streams or goroutines | `Session` (`Service`) |
| `SessionInvariant` | the inductive invariant `SessionInv` | `SessionProofs`, `MCSession` |
| `SessionProofs` | theorems about `Session` | |
| `AsyncCopy` | `Copy`, `Read`, `Write`, `Wait` and the pool, any number of copies | `AsyncCopyProofs`, `MCAsyncCopy` |
| `AsyncCopyProofs` | theorems about `AsyncCopy` | |
| `LeakDetector` | many sessions' detectors, the global statistics and their WorkGroup | `LeakDetectorProofs`, `MCLeakDetector` |
| `LeakDetectorProofs` | theorems about `LeakDetector` | |
| `ProcessContract` | abstract: what a Session relies on in its Process | `SystemExec`, `ContainerExec`, `REPL` (`Contract`) |
| `SystemExec` | the Process of osexec: `Init`, the pipes, `Start`, `Wait`, `Cleanup` | `SystemExecProofs`, `MCSystemExec` |
| `SystemExecProofs` | theorems about `SystemExec` | |
| `ContainerExec` | the Process of dockerexec: the same, its two stream goroutines and the one that resizes | `ContainerExecProofs`, `MCContainerExec` |
| `ContainerExecProofs` | theorems about `ContainerExec` | |
| `TermPair` | a pair of pty and tty: modes, files, descriptors, closed by several threads | `REPL` |
| `REPL` | the Process of `config/terminal`: both loops, `Wait`, `Cleanup`, over a `TermPair` or pipes | `REPLProofs`, `MCREPL` |
| `REPLProofs` | theorems about `REPL` and its `TermPair` | |
| `HostKey` | key files, several starts of daemons on them, crashes | `HostKeyProofs`, `MCHostKey` |
| `HostKeyProofs` | theorems about `HostKey` | |
| `Server` | `NewServer`, configurations and options, authorization, container lookup, forwarding, the daemons | `ServerProofs`, `MCServer` |
| `ServerProofs` | theorems about `Server` | |
| `MC*` | instances for TLC | |

In each module the definitions named like `LockAgain` or `NeverCancelled`, marked
*mutant*, are plausible bugs; no action uses them. `PROJECT.json` pairs each with
the definition it replaces and the property that then fails; every property has one.

### Session

State and code: `pc[t]` is the position of thread `t` in `Run` and `finalize`,
`arg[t]` what it passes to `finalize`; `started` and `finished` are the OneTime
locks, with the name of the thread that won; `calls[m]` is the life of each method
of the Process (not called, in the call, returned ok or with an error); `go[g]` is
the state of each stream goroutine; `leak` the verdict of the detector; `exit` the
first call of `ssh.Session.Exit`. The labels of `Run` are the calls it makes, so a
call lasts from the step that makes it to the step that returns, and every other
thread may act in between. One action of the model is one atomic piece of the code:
a compare-and-swap, a call, a return, a channel operation.

The Process is abstract, so the model covers all three implementations and any
other, provided it keeps a *contract*, which `Session` relies on:

- a method may fail (except `Cleanup`), but neither panics nor blocks for ever,
  except `Wait`, which returns once the command has ended;
- `Cleanup` ends a command that still runs, and `Wait` then returns; an exec of docker
  it only loses sight of, which to a Session is the same;
- `Start` with a pty receives from `resizeChan` from then on; if it fails it may
  or may not have begun to (dockerexec has; osexec and the REPL have not);
- `Wait` may fail at any time, with status 0 (dockerexec) or 255 (osexec).

What `Wait` says is taken at its word: that the command of the model has exited with
code 0 also stands for a docker exec that is cut off from its stream and runs on.
`ProcessContract`, `SystemExec` and `ContainerExec` below state the part of it that
is about the command, `Wait` and `Cleanup`, and show which implementation keeps it.

External, modelled from the way `src/` uses them: the ssh library (`Exit` sends the
status and closes the channel, the first call only; when the handler returns the
library calls `Exit(0)`; it queues the first window size), the client (`Resize`,
`Disconnect`: it may close the channel of the session, `"hungup"`, or the
connection, `"closed"`), and the command (`ProcessOutput`, `ProcessExit`).

Data abstraction: an output chunk is a unit of `pending`, an exit code a member of
`Codes`, an error message is shown or not, and the time limits of the leak
detector and of the copies are nondeterministic choices (`LeakFail` at any time
after `Finish`). The copies are one action per chunk; their inside is `AsyncCopy`.
Flow control is not modelled: a client that is connected takes what it is sent.

### SessionService

Seven actions on four variables: a command begins, ends or is killed, the client leaves,
and the session is answered with a result, a failure, or nobody left to hear it. `Steps`
is its safety part. `ImplementsService` maps the session's state to it. The refinement
says, for instance, that a command never starts after the session was answered, that a
`result` is only sent after the command has exited and carries its code, that a command
is killed only after the answer; and, through the service's fairness, that a command
that exited is answered, that one whose connection closed is too, and that one still
running after the answer is killed.

### AsyncCopy

A copy alternates `Read` and `Write`; each call takes a buffer of the pool, runs
the I/O in a goroutine of its own and waits for it (`"wait"`, select 1) until the
context is done, then at most a timeout more (`"grace"`, select 2). A buffer's
content is the name of the copy whose source filled it, which is all the
properties need. `Collect` is the garbage collector emptying a `sync.Pool`;
`Fresh` is what `New` can return: a buffer that no copy refers to.
One goroutine (`io`, `buf`) for each copy suffices, because a copy whose call has
timed out makes no further call: `io.Copy` ends on the error.

### LeakDetector

`Add` and `Done` are two steps each, since they change the WaitGroup and the map
one after the other; `Finish` is the `RLock` of `WorkGroup.Add` (which an announced
writer blocks, as Go's `RWMutex` does), the `Add`, and the goroutine that waits for
the session's WaitGroup or the timer, counts its verdict and is `Done`. A user of
the statistics announces itself, waits for the readers, waits for the workers,
loads or stores the two counters in two steps and unlocks.
`counted` is a history variable: the checks that are in the counters. The detector
exists in builds with the `leak` tag; without it all its methods do nothing.

### ProcessContract

A command with its three calls: it is begun or fails to, ends with a code, `Wait`
answers with that code or with an error (the status is 0 or 255), and `Cleanup` returns
only when the command no longer runs (`Kills`). A Process that reaches its command over
a connection may lose it (`Loses`, `Lose`): the command runs on, `Wait` may then answer
with 0 while it does, and `Cleanup` may return. Only docker's Process does; the other
two implement the contract with `Loses` FALSE. `Calls` is its safety part; the fairness
of `Spec` says that `Wait` answers once the command has ended or is lost, and that
`Cleanup` brings one or the other about and returns. A panic in any goroutine ends a Go
program, so `Crash` stops everything; the contract does not forbid it, `PanicsExplained`
and `WindowFollows` are about it. `SystemExec` and `ContainerExec` implement `Spec`. The
REPL only cancels its loop's context and does not wait, so it implements `Calls` with
`Kills` FALSE; when its loop ends is what `Concludes` says.

### SystemExec

Two threads without a lock between them: `pc` is the place of `Run` in the methods
of the Process (inside `exec.Cmd.Wait` it looks at `cmd.Process` twice, `"Wait"` and
`"load"`, before it waits, `"reap"`), `clean` that of `Cleanup`, which closes the
terminal, looks for a Process, kills it and clears it, a step each. `Kill` fails
for a command that was reaped and does nothing to one that has ended. What the
second look sees when `Cleanup` clears the field meanwhile is a data race, modelled
as a choice. External: package exec, the operating system, and the Session, which
calls `Cleanup` after a failed start, after `Wait`, or when the connection ends.

Mapped to the contract, a reaped command has ended. The terminal's window size is not
modelled; whether it was opened and closed is.

### ContainerExec

`pc` is the place of `Run` (`"wait"` and `"inner"` are the two selects of
`waitStreams`), `out` and `inp` are the two stream goroutines, `outErrChan` and
`inputDoneChan` their channels, `clean` the place of `Cleanup`. `sent` counts the
chunks of output in the connection; `sink` and `source` are the ends the goroutines
write output to and read input from, of a terminal or of pipes. Setting `cep.conn`
(`attached`) is apart from the connection itself, which is `"nil"` after an
`Attach` that failed. A copy is one step for each chunk and looks at the context
between chunks, as `AsyncCopy` does inside.

The goroutine of `HandleWith` (`resizer`) starts before the exec is created and takes
one change of the window after another. A size is represented by whether it is the
last that the client sent: `taken` and `resized` say so of what the goroutine took
last and of what the exec has. Docker resizes an exec that runs and refuses others,
or for reasons of its own. `execID` is stored by `Run` and read by this goroutine
with nothing in between: a string half of which was stored (its length, not yet its
pointer) is dereferenced, which is the panic of `ContainerExecResize`.

External: the docker daemon, which may refuse any call; the connection to it, which may
break at any step (`Break`), an error of the copies; the Session, which may close its
ends of the pipes early; the context. The stream of an exec normally ends after it has
exited, but not always, and its end is no error whatever the exec is doing. `CutOff` is
the other ways: the command closed its output, the client typed the keys docker detaches
on (ctrl-p ctrl-q on a pty, as `NewContainerExecProcess` sets no others), or a proxy
closed the connection cleanly, perhaps with output still in it. An exec that is cut off,
or whose connection is broken or closed, runs on and may exit later (`ExecExit`); for
the Session it is `"lost"` until it does. Closing the connection is also all that
`Cleanup` does: the exec in the container is not killed.
The bytes of `UnhangHack` may or may not wake a reader of the terminal, so `InputEnds`
may happen once the terminal is closed but is not fair; that is why `Stopped` needs
the context, or pipes.

### TermPair

Both files are ends of one device, which has the modes (`device`). `Open` puts the
pty and then the tty into raw mode, and each end remembers what it found, so the
order in which `RestoreMode` puts it back matters. `closer[c]` is the step of `Close`
that thread `c` is at; `RestoreMode` of an end is one step because it holds that
end's lock, `Close` of a file is another. `newTerminal` calls `Fd` on the file, which
makes its reads block in the kernel; such a read keeps the descriptor after `Close`
(`"closing"`) until it returns (`EndRead`). A number that was released may be given
to another file (`Reuse`), and `stray` records what is then done to that file by
threads that still have the number, `Resize` being the one that has no lock and asks
nobody. `Pair.Use`, which osexec needs for the pty that `pty.Start` made, has one end
and no modes and is not modelled.

### REPL

`loop` is the place of the loop goroutine, `"prompted"` to `"got"` being `ReadLine`.
With a pty (`runLoopPty`) it looks at its context again after each read and closes
the pair when it ends; without (`runLoopPipes`) it does neither. `clean` is the place
of `Cleanup`, which runs beside it and closes the same pair. The two loops share
actions; where they differ a conjunct says `pty`. `exitCode` is written by the loop
and read by `Wait` after the channel that the loop closes. `got` is what a read gave: a
line, the end of the input, an error, or on a terminal a pasted line (`"pasted"`), for
which the line editor returns an error of its own, so that the loop ends with 255.

External: the function behind `Loop`, which returns, with a code or without, and
whose output (`shown`) is taken; the bytes of `UnhangHack`, "in practice these calls
may or may not work" (`internal/term/pair.go:90`), so `hack` is `"sent"` or `"lost"`;
the Session, which types (`Typed`), ends its input, and copies the output by reading
the pty (`ReadOutput`, `OutputRead`), holding its descriptor as it does; and the
kernel: a read of one end returns when the other is closed.

### HostKey

One file for each algorithm, as lines: `os.Create` empties it, `pem.Encode` writes
the data and then the line that ends it, at the place its own descriptor is at, so a
line may land behind a `"hole"`. A key is named by the start that generated it; the
lines of two starts differ. `pc[s]` is the place of a start in `UseOrMakeHostKeys`,
the algorithms one after another. `EndStart` is a crash, a call of the file system
that fails, or the daemon ending, at any step; a new start is another member of
`Starts`, so restarts and overlapping starts are the same thing in different orders.
`given` is what was there before: nothing, the operator's key, a file that is not a
key, or one of an ed25519 key whose seed has another length, for which
`ed25519.NewKeyFromSeed` panics. `raced` and `torn` are history: a start came while
another was making the file; one ended in the middle of making it.

### Server

`todo` is what `NewServer` has still to apply: the configurations and then the
options. `ApplyHandler` is `Apply` of a configuration and then the handler, which
fails if there is one. The three daemons differ in their configuration and in
whether `-unsafe` is a flag or its default; other uses of the library pass any
sequence (`LibraryUses`), with nil configurations and with a nil `*Options`, which is
not a nil `Configuration` and panics (`configuration.go:40`).

`call[t]` is the place of a login attempt (`"auth"`) or a session in `findContainer`:
it looks for a container in the connection's context (`Check`), lists the running
ones (`FindUniqueContainer`) and stores what it found (`Store`), each a step, while
containers start and stop. `listed` are the containers whose files have the client's
key; a file that cannot be read is skipped, so `FindContainerKeys` may miss it.
`NetworkPort` truncates: ports on the command line and of requests have 32 bits, the
list has 16, and the library dials or listens on the port of the request.
`raced` is history: a caller found nothing stored while another was looking.

External: the ssh library (one context for a connection, no `PublicKeyHandler` lets
everybody in, an address is only usable with a port that exists) and docker.

Two things met while modelling that no run is about: `DockerLabelKey`
(`config/dockerexec/config.go:57`, promised in the comment at 27) is never handed to
`FindContainerKeys` (100-102), so only key *files* authorize; and
`SystemExecConfig.RegisterFlags` (`config/osexec/config.go:48`) registers its flag on
`flag.CommandLine` whatever flag set it is given.

## 3. What the runs check

| Run | Instance | Shows |
|---|---|---|
| `session_safety` | the handler and 2 other goroutines call `Run`, 2 codes, symmetric | the inductive invariant `SessionInv`; `CallOrder`, `CalledOnce`, `ExitFaithful`, `LeakOkSound` |
| `session_live` | handler alone, 1 code, fair | `Released`, `ExitReported`, `ImplementsService` |
| `copy` | 2 copies, 2 buffers, fair | `OneOwner`, `IntactUnlessAbandoned`, `CanceledEnds` |
| `detector` | 2 sessions with a task, a reader and a resetter, fair | `SnapshotConsistent`, `Exclusive`, `OkHonest`, `FinishCounts`, `StatsReturn` |
| `system` | one command with or without a pty, codes 0, 1, 255 and -1, fair | `PanicsExplained`, `Reaped`, `KeepsContract` |
| `container` | one exec with or without a pty, codes 0 and 7, 2 chunks, 2 window changes, fair | `OutputBeforeResult`, `WindowFollows`, `Stopped`, `KeepsContract` |
| `terminal` | one REPL with or without a pty, codes 0 and 7, 1 line typed ahead, fair | `ModesRestored`, `DescriptorsOwn`, `QuietCancel`, `Concludes`, `KeepsCalls` |
| `hostkey` | 3 starts, rsa then ed25519, keys of 2 and 1 lines, symmetric | `Agree`, `FailureExplained` |
| `server` | the 3 daemons and 7 other uses, 2 containers, 2 sessions of one connection | `ServerAsConfigured`, `SameContainer`, `ForwardsConfigured` |

Each passing run also checks its module's `TypeOK` (contained in `SessionInv`, or
checked over the same state machine, for the two session runs). Three runs end in a
violation, each a disagreement between the code and what the repository says of it:

| Run | What TLC finds |
|---|---|
| `session_truncated` | the command writes and exits, `Wait` returns, `finalize` closes the session while the chunk is still in the pipe: the client has the exit code, and not all the output |
| `copy_alias` | a `Read` times out and puts its buffer back while its goroutine still reads into it; another copy takes the buffer, and writes bytes of the wrong source |
| `container_detach` | the stream of an exec is cut off, the copy of its output ends without an error, `ContainerExecInspect` reports 0 for the exec that still runs, and `Wait` returns it |

The passing properties say what does hold, and name its exceptions:

- `Released`: everything a session started ends with the *connection*, except the
  winCh goroutine of a pty that failed to start (`Abandoned`), which is in its send
  for ever. A client that closes only its session's channel ends nothing: the context
  is the connection's, and a silent command runs on.
- `IntactUnlessAbandoned`: copies do not mix as long as no `Read` was abandoned.
- `PanicsExplained`: `Cleanup` looks at the Process of a `cmd` that `Init` never made
  before `recover` is deferred; beyond that, osexec panics only when `Process` is
  cleared between the two looks of `exec.Cmd.Wait`.
- `Reaped`: a zombie remains only when `Cleanup` came before `Wait`.
- `OutputBeforeResult`: the result of a docker exec follows all the output that came,
  and is its code, unless the stream was cut off: then output may be missing, and the
  result may be the 0 of an exec that still ran (`container_detach`).
- `WindowFollows`: the first window size comes with the request for a pty, before the
  exec is created, and is refused unless docker is quick; only the next change repairs
  that. A refused last size is the property's exception, so it does not rule out that
  loss, which nothing in the repository promises to prevent; what it rules out is that
  a change is dropped on its way. Its second part names the two panics of dockerexec:
  where a resize reads the exec's ID while it is being stored, and where
  `ContainerExecAttach` failed, whose error is dropped (`exec.go:157-161`), so that the
  goroutines and `Cleanup` use a connection that is nil, instead of "If something goes
  wrong when starting the session also returns an error" (`session.go:62`).
- `DescriptorsOwn`: modes are never set on another's file, but a window change after
  `Close` can resize one.
- `QuietCancel`: a loop over pipes that is cancelled in a read takes the closed pipe
  for an error and reports 255; over a terminal it does not. A pasted line is an error
  of a terminal by itself, and reports 255 too.
- `Concludes`: when the bytes of `UnhangHack` do not arrive (`"lost"`), the loop may
  be reading the tty until the pty is released, and the Session the pty until the tty
  is (`MutualWait`): the goroutines stay.
- `Agree`: servers have the same host key unless two starts overlapped while the key
  was being made; the earlier one may then serve a key that is no longer on disk.
- `FailureExplained`: a start fails on an unfinished file that a crash left, or one
  that two starts were writing; that file is never repaired. It panics only on a
  foreign ed25519 file.
- `SameContainer`: without authentication two sessions of a connection that look for a
  container at once (`raced`) may each find one of their own, and the one that stores
  last decides for the sessions after them.
- `ServerAsConfigured`: a nil configuration does nothing, but nil options panic.
- `ForwardsConfigured`: an address on the command line with a port beyond 16 bits
  allows the address with that port's lower 16 bits.

`LeakOkSound` speaks only of sessions that a caller of `Run` finalized. When the
watcher finalizes, its check can find nothing outstanding before `Run` has reached
`Process.Wait`, whose `Add` comes after `leak_ok`.

**Bounds.** `MaxPending` = `MaxWindow` = 1: one chunk and one window change that
wait are all that the guards distinguish (none, some); the proofs hold for any
bound. Two codes are needed to tell the command's code from 0, which the library
sends; the liveness runs of `Session` use one, other than 0 and 255. Two callers of
`Run` beside the handler give a loser that arrives before and one that arrives after
the winner finishes; the proofs hold for any number. Two copies are an owner and a
thief; as many buffers as copies, so that none need wait (the code never waits for
a buffer); the proofs again hold for any number. Two sessions and two users of the
statistics give every order of a blocked `Finish`, a running check, a user inside
and a user waiting. `MaxSent` = 2 tells some output from the last of it, and
`MaxWindows` = 2 a change that another follows from the last. `MaxTyped` = 1: a line
is there or not. Three starts are two that overlap and one that finds what they left,
or one that crashes and two that meet its file; a key of two lines can be torn in the
middle, and two algorithms are a start that fails with its first key already made.
Two containers are none, one or too many; a login and two sessions are everybody who
can look for one at once, and a login may be repeated. A span of 4 ports with the
given ports 1 and 6 and the requests 1, 2 and 6 has a port that exists, one that is
truncated to another (6 to 2), and that other. Symmetry is used in `session_safety`
and `hostkey`, which have no liveness property; the interchanged callers and starts
occur in no definition individually.

**Deadlock** is not checked (`CHECK_DEADLOCK FALSE`) because sessions, copies,
commands, loops, starts and users of the statistics end; that they do not stop
*early* is what `Released`, `ExitReported`, `CanceledEnds`, `FinishCounts`,
`StatsReturn`, `Reaped`, `Stopped`, `Concludes` and the contract's fairness say.

**Fairness** is weak fairness of what the Go scheduler, the timers and the ssh
library do by themselves: a thread that can take its next step does so. A Process's
methods return (that is the contract), `Wait` once the command has ended (its
failure at other times is never relied on). The input copies must end once the
channel is closed, because a read from it then fails. Nothing is assumed of the
client or the command: neither exits, sends, resizes or disconnects by itself.
In `AsyncCopy` the I/O is not fair: a read may block for ever, and `CanceledEnds`
holds all the same. In `LeakDetector` neither the tasks nor the calls of `Finish`
need happen, nor is a user of the statistics forced to start; its liveness is
counted from its turn (`"lock"`), as two users waiting for Go's mutex are served in
an order the model leaves open. In `SystemExec` the threads `Run` and `Cleanup` run
on, the command need not; in `ContainerExec` so do `waitStreams`, the output
goroutine, the input goroutine once its source has ended or the context is done,
and `Cleanup`. Docker answers `ContainerExecInspect`, with an error if only because the
context ended; it need not answer the calls of `Start`, the exec need not exit, nor the
connection break. In `REPL` `Run`,
the loop and `Cleanup` run on, and a read returns when it has something to return;
nobody need type, resize, start another read, or end the connection. `HostKey` and
`Server` have safety properties only: a start may end at any step, and a client need
do nothing.

## 4. What is proved

TLAPS proves, for every value of the constants that satisfies the named
assumptions (`SessionAssumption`: distinct thread names, integer codes, positive
bounds; `CopyAssumption`: `Nothing` is neither a copy nor a buffer;
`REPLAssumption`: the loop and `Cleanup` are who closes a pair, the codes of a loop are
below 255, which is its own for a failure;
`DetectorAssumption`: finitely many sessions, because their checks are counted, and
nobody both gets and resets the statistics; `HostKeyAssumption`: the algorithms are rsa
and ed25519, in any sequence, a key has at least one line before the one that ends it,
and no start has the name of something else a line may hold; `SystemAssumption` and
`ContainerAssumption`: exit codes have 8 bits, and the bounds are positive;
`ServerAssumption`: the configurations are of the four kinds, the names of
containers and sessions are not those the model uses, an address is a host and a
port, and there is a port):

- in each of the eight modules of proofs `TypeCorrect`, and its inductive invariant;
- `CallsInOrder`, `AtMostOneCall`, `FaithfulExit`,
  `SoundLeakOk` (`SessionProofs`): the safety properties of `session_safety`, for any
  set of callers, codes and bounds; and `ImplementsSteps`: a session that the handler
  alone runs, as it does in this repository, takes only the steps of `SessionService`;
- `SingleOwner`, `Unmixed` (`AsyncCopyProofs`): the safety properties of
  `copy`, for any number of copies and buffers;
- `MutualExclusion`, `ConsistentSnapshots`, `HonestOk` (`LeakDetectorProofs`): the
  safety properties of `detector`, for any number of sessions, tasks and users;
- `Agreement`, `ExplainedFailures` (`HostKeyProofs`): the safety properties of `hostkey`,
  for any number of starts, any sequence of algorithms and keys of any length;
- `ExplainedPanics` (`SystemExecProofs`), `CompleteOutput` and `WindowKept`
  (`ContainerExecProofs`): the safety properties of `system` and `container`, and
  `ImplementsCalls` in each: the Process implements the calls of the contract, for any
  codes, and any number of chunks and of window changes that wait;
- `Restores`, `KeepsToOwnFiles`, `CancelsQuietly`, `ImplementsCalls` (`REPLProofs`):
  the safety properties of `terminal`, and that a REPL implements the calls of the
  contract, for any codes and bounds;
- `AsConfigured`, `StaysInContainer`, `ForwardsOnlyConfigured` (`ServerProofs`): the
  safety properties of `server`, for any sequence of configurations, any containers,
  sessions and addresses, and any number of ports.

The argument for `Session`. None of the properties is inductive. `CallOrder` says
that `Cleanup` does not overlap `Start`, but the action that calls `Cleanup` knows
only that its thread is in `finalize`; that nobody is still in `start` has to be
carried along. `SessionInv` does it in five parts:

- `Threading`: only the thread that won `started` is inside `Run`, only the one
  that won `finished` inside `finalize`, and a watcher past its wait means that the
  connection is closed;
- `Unstarted`: before there is a Session nothing has been called;
- `Calling`: the calls under way are those of the position of the thread that
  started the session, and a method called implies its predecessors returned;
- `Cleaning`: once somebody finalizes no call of `start` is under way, and
  `Cleanup` comes after `Exit`;
- `Reporting`: what a thread carries into `finalize` is the truth about the calls,
  and an error it carried past `WriteError` was shown unless nobody could see it.

`CoreNext`, `ExitNext` and `LeakNext` each prove one part preserved, one step for
every action; `InvNext` joins them, and `CalledOnceNext` proves the action property
from `SessionInv`. For `AsyncCopy` the invariant adds to `OneOwner` that a buffer
in use by a goroutine or a waiting call is neither pooled nor shared, except for
that of an abandoned `Read`, and that the content of an owned buffer is its own.

`ImplementsSteps` follows the same invariant action by action. `ServiceStutter` covers
the steps that nobody outside can see, `ServiceExit` the three places that call
`ssh.Session.Exit`, of which only the first to come answers. That the command is not
started after the answer is where the handler must be the only caller of `Run`: with a
second one the handler may lose the race for `started`, return, and leave the library to
exit with 0 while the winner is still in `Start`. `Cleaning` carries what is needed: an
exit comes from a thread that finalizes, or after the handler returned or aborted.

For `LeakDetector` the invariant says who holds the WorkGroup. `Locking`: the user that
is `writer` is the one between its announcement and `Unlock`; once it has the write lock
there are no readers, and past its wait no workers, so the counters are still.
`Counting`: their sum is the number of checks counted since the last reset, except
while a reset is between its two stores, and what a getter has loaded still stands;
this is what makes `SnapshotConsistent` inductive. `Honest`: a task told of before
`Finish` never becomes idle again, so a verdict that waited for it stays true.

For `HostKey` the invariant is `Sole`, for each file that no two starts were making at
once (`raced`): while a start makes it, what it has written is a prefix of its own key
and nobody reads it or serves its key; otherwise whoever reads it has read its lines,
and, unless its maker was torn from it, it is whole. `Agree` follows because a server's
key is the one that the file says. `Wholes` gives the facts about keys as lines:
they differ in their first line and are complete with their last.

For `SystemExec` `Making` orders `Init`, `Start` and `Wait`, and `Keeping` says that the
`Process` field is set as long as the command is not reaped and `Cleanup` is not over:
so it is nil at `Wait`'s second look only after the whole of `Cleanup`. For
`ContainerExec` `Starting` says what exists when (the goroutines and a connection, or
nil, from `Attach` on); `Draining` follows "no error" from the output goroutine over the
channel and the inspection to the answer, and wherever it is nothing the exec wrote is
left, and it has exited or was cut off (`Drained`, which no step undoes); `Sizing` says
that a change of the window waits, is being made, or was made or refused. The
refinements of the contract use the same parts: a Process that `Cleanup` returns from
was killed, or lost with its connection, in an earlier step (`clean` is `"forget"`), or
never began.

For `REPL` the invariant has a part for the pair and a part for the threads that use
it. The pair's says what is left to restore: the device is raw only while one of the
two ends remembers cooked modes (`Restorable`), and how far a thread must have come
in `Close` for an end to have forgotten them; a file that is no longer open was closed
by a thread that had restored both ends before (`ClosedByClose`). So whoever closes
second finds nothing to set, and the descriptor it would set it on may be another's.
`Placed` and `Told` relate the loop to `Cleanup`: the exit code is final once the loop
is done, and nothing is closed under a read before the context is cancelled.

For `Server` it has a part for `NewServer` and one for a connection. `Configured`
counts: what is still to be applied is the rest of the order, the handler is that of the
one configuration applied so far, and keys are asked for if that was docker's, until the
options have been applied. `Connected` says that after a login the context holds the
container that authorized it, and that no session looks for another; before it no
session has begun. `Sharing` is for connections without authentication: as long as no
two looked at once, one looks only while nothing is stored, and all who found a
container found the stored one. `AllowedGiven` takes what is forwarded back to the
command line, of which the truncation (`Truncated`, `Parsed`) is all that separates it.

`SessionInv` is an invariant of `session_safety`; those of the other proofs were
checked with TLC on the instances of the runs before they were proved.

Every invariant and action property of a passing run is so proved for every value of
the constants. Only model-checked: the liveness properties, and of the refinements the
fairness of the abstract specification (liveness and `ENABLED` are beyond the prover):
`KeepsContract` and `ImplementsService` are proved up to their `WF` conjuncts. And,
naturally, the violations.

## 5. What is not modelled, and the plan

Not modelled: logging (formatting), the legal notices (generated text and a flag)
and the test support. Within the modelled parts: `OneTime.Do`, which only tests could
call; `bufferFromPool`'s branch for a buffer that is too small, which `io.Copy`'s
fixed size never takes; the panics of `Add` and `Done` for names that are reused
(names are unique in one session); the exit code -1 as the library's unsigned number;
`Pair.Use`, and with it the window size of a command of the host; the modes of a
docker exec's terminal, which its output goroutine restores; the registration of the
library's forwarding handlers by `EnablePortForwarding`; the text of command lines,
addresses and keys; the timing of the comparison of keys.

Planned next: `ImplementsSteps` without its hypothesis, for a service that lets the
library answer before another caller starts the command; and a composition of `Session`
with `ProcessContract` in place of its own Process, so that the contract is the only
thing between the two halves.
