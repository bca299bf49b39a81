---------------------------- MODULE SessionProofs ----------------------------
(***************************************************************************)
(* Theorems about Session, for every set of callers and every set of exit  *)
(* codes.                                                                  *)
(***************************************************************************)
EXTENDS SessionInvariant, TLAPS

-----------------------------------------------------------------------------
(* finalize's two arguments make a record of its type. *)
LEMMA ArgType ==
    ASSUME NEW s \in Codes \cup {0, Failure}, NEW e \in BOOLEAN
    PROVE  [status |-> s, err |-> e] \in Args
BY Zenon DEF Args

(* No exit yet is one of the values of `exit'. *)
LEMMA NoExitType == NoExit \in Exits
BY Zenon DEF NoExit, Exits

(* Whoever calls ssh.Session.Exit leaves a well-formed exit status behind. *)
LEMMA ExitType ==
    ASSUME exit \in Exits, NEW by \in {"session", "abort", "library"},
           NEW s \in Codes \cup {0, Failure}, Exit(by, s)
    PROVE  exit' \in Exits
<1> DEFINE r == [by |-> by, status |-> s, live |-> conn = "open"]
<1>1. (conn = "open") \in BOOLEAN  OBVIOUS
<1>2. r \in Exits  BY Zenon, <1>1 DEF Exits
<1> QED  BY Zenon, <1>2 DEF Exit

(* start goes from one method of the Process to the next. *)
LEMMA AfterType ==
    ASSUME NEW m \in Setup
    PROVE  After(m) \in {"Stdout", "Stderr", "Stdin", "Start"}
BY DEF After, Setup

(* A goroutine that start launches is running. *)
LEMMA SpawnType ==
    ASSUME NEW m, go \in [Copiers -> {"no", "run", "send", "done"}], Spawn(m)
    PROVE  go' \in [Copiers -> {"no", "run", "send", "done"}]
BY DEF Spawn

(* A start that fails hands finalize a status and the thread on. *)
LEMMA StartFailsType ==
    ASSUME NEW c \in Callers, TypeOK, StartFails(c)
    PROVE  arg' \in [Threads -> Args] /\ pc' \in [Threads -> Labels]
<1>1. [status |-> Failure, err |-> TRUE] \in Args  BY ArgType
<1> QED  BY <1>1 DEF StartFails, TypeOK, Goto, Threads, Labels, Finalizing

-----------------------------------------------------------------------------
(* The session's first state is well-typed. *)
LEMMA InitType == Init => TypeOK
<1> SUFFICES ASSUME Init PROVE TypeOK
  OBVIOUS
<1>1. pc \in [Threads -> Labels]
  BY SessionAssumption DEF Init, Threads, Labels
<1>2. arg \in [Threads -> Args]
  BY ArgType DEF Init
<1>3. /\ go \in [Copiers -> {"no", "run", "send", "done"}]
      /\ pending \in [Outputs -> 0..MaxPending]
      /\ win \in 0..MaxWindow
  BY SessionAssumption DEF Init
<1> QED  BY <1>1, <1>2, <1>3, NoExitType DEF Init, TypeOK

(* So is the state after every step, by the action taken. *)
LEMMA NextType == TypeOK /\ [Next]_vars => TypeOK'
<1> SUFFICES ASSUME TypeOK, [Next]_vars PROVE TypeOK'
  OBVIOUS
<1> USE SessionAssumption
    DEF TypeOK, Threads, Labels, Finalizing, Methods, Setup, Copiers, Outputs, Inputs,
        control, process, streams, client, Goto
<1>1. CASE Server
  <2>1. CASE Handle  BY <2>1 DEF Handle
  <2>2. CASE Abort
    <3>1. exit' \in Exits  BY <2>2, ExitType DEF Abort
    <3> QED  BY <2>2, <3>1 DEF Abort, WriteError
  <2>3. CASE LibraryExit
    <3>1. exit' \in Exits  BY <2>3, ExitType DEF LibraryExit
    <3> QED  BY <2>3, <3>1 DEF LibraryExit
  <2> QED  BY <1>1, <2>1, <2>2, <2>3 DEF Server
<1>2. ASSUME NEW c \in Callers, Caller(c) PROVE TypeOK'
  <2>1. CASE RunLock(c)  BY <2>1 DEF RunLock
  <2>2. CASE StartReturns(c)
    <3>1. /\ arg' \in [Threads -> Args]
          /\ pc' \in [Threads -> Labels]
      <4>1. CASE StartFails(c)  BY <4>1, StartFailsType
      <4>2. CASE ~StartFails(c)  BY <2>2, <4>2 DEF StartReturns
      <4> QED  BY <4>1, <4>2
    <3>2. go' \in [Copiers -> {"no", "run", "send", "done"}]
      BY <2>2, SpawnType DEF StartReturns
    <3>3. /\ calls' \in [Methods -> {"no", "in", "ok", "err"}]
          /\ proc' \in {"running", "failed"}
          /\ receiver' \in BOOLEAN
      BY <2>2 DEF StartReturns
    <3>4. UNCHANGED <<pty, started, finished, code, pending, win, leak, client>>
      BY <2>2, Zenon DEF StartReturns
    <3> QED  BY <3>1, <3>2, <3>3, <3>4
  <2>3. CASE SpawnWatcher(c)  BY <2>3 DEF SpawnWatcher
  <2>4. CASE CallWait(c)  BY <2>4 DEF CallWait
  <2>5. CASE WaitReturns(c)
    <3>1. PICK s \in Codes \cup {0, Failure}, e \in BOOLEAN :
             arg' = [arg EXCEPT ![c] = [status |-> s, err |-> e]]
      BY <2>5 DEF WaitReturns
    <3>2. [status |-> s, err |-> e] \in Args  BY ArgType
    <3>3. arg' \in [Threads -> Args]  BY <3>1, <3>2
    <3> QED  BY <2>5, <3>3 DEF WaitReturns
  <2>6. ASSUME NEW m \in Setup, SetupReturns(c, m) PROVE TypeOK'
    <3>1. /\ arg' \in [Threads -> Args]
          /\ pc' \in [Threads -> Labels]
      <4>1. CASE StartFails(c)  BY <4>1, StartFailsType
      <4>2. CASE ~StartFails(c)  BY <2>6, <4>2, AfterType DEF SetupReturns
      <4> QED  BY <4>1, <4>2
    <3>2. go' \in [Copiers -> {"no", "run", "send", "done"}]
      BY <2>6, SpawnType DEF SetupReturns
    <3>3. calls' \in [Methods -> {"no", "in", "ok", "err"}]
      BY <2>6, AfterType DEF SetupReturns
    <3>4. UNCHANGED <<pty, started, finished, proc, code, receiver, pending, win, leak,
                      client>>
      BY <2>6, Zenon DEF SetupReturns
    <3> QED  BY <3>1, <3>2, <3>3, <3>4
  <2> QED  BY <1>2, <2>1, <2>2, <2>3, <2>4, <2>5, <2>6 DEF Caller
<1>3. CASE ContextDone
  <2>1. [status |-> Failure, err |-> FALSE] \in Args  BY ArgType
  <2> QED  BY <1>3, <2>1 DEF ContextDone
<1>4. ASSUME NEW t \in Threads, Finalize(t) PROVE TypeOK'
  <2>1. CASE FinalizeLock(t)  BY <2>1 DEF FinalizeLock
  <2>2. CASE FinalizeError(t)  BY <2>2 DEF FinalizeError, WriteError
  <2>3. CASE FinalizeFinish(t)  BY <2>3 DEF FinalizeFinish
  <2>4. CASE FinalizeExit(t)
    <3>1. arg[t].status \in Codes \cup {0, Failure}
      BY <1>4 DEF Args
    <3>2. exit' \in Exits  BY <2>4, <3>1, ExitType DEF FinalizeExit
    <3> QED  BY <2>4, <3>2 DEF FinalizeExit
  <2>5. CASE FinalizeKill(t)  BY <2>5 DEF FinalizeKill
  <2> QED  BY <1>4, <2>1, <2>2, <2>3, <2>4, <2>5 DEF Finalize
<1>5. CASE CleanupReturns  BY <1>5 DEF CleanupReturns
<1>6. ASSUME NEW g \in Copiers, Copier(g) PROVE TypeOK'
  BY <1>6 DEF Copier, CopyChunk, OutputStops, TakeWindow, SendWindow, CloseResize
<1>7. CASE LeakOk  BY <1>7 DEF LeakOk
<1>8. CASE Environment
  BY <1>8 DEF Environment, ProcessOutput, ProcessExit, Resize, Disconnect, LeakFail,
              InputStops
<1>9. CASE UNCHANGED vars  BY <1>9 DEF vars
<1> QED  BY <1>1, <1>2, <1>3, <1>4, <1>5, <1>6, <1>7, <1>8, <1>9 DEF Next

(* Every variable keeps its type, whatever the goroutines of Run, finalize and
   the copies do.                                                             *)
THEOREM TypeCorrect == Spec => []TypeOK
BY InitType, NextType, PTL DEF Spec

-----------------------------------------------------------------------------
(* The invariant holds before anything has happened. *)
LEMMA InvInit == Init => SessionInv
<1> SUFFICES ASSUME Init PROVE SessionInv
  OBVIOUS
<1>1. TypeOK  BY InitType
<1>2. pc = [t \in Threads |-> IF t = Watcher THEN "off" ELSE "handle"]
  BY DEF Init
<1>3. Core
  BY <1>2, SessionAssumption
  DEF Init, Threads, Core, Threading, Unstarted, Calling, Cleaning, Reporting, InRun, InFinalize,
      Finalizing, StartCalls, Setup, Methods, NoExit
<1>4. ExitFaithful /\ LeakOkSound
  BY DEF Init, ExitFaithful, LeakOkSound, NoExit
<1> QED  BY <1>1, <1>3, <1>4 DEF SessionInv

(* How Start returns, as far as the invariant looks. *)
LEMMA StartCases ==
    ASSUME NEW c \in Callers, TypeOK, StartReturns(c)
    PROVE  /\ pc[c] = "Start"
           /\ UNCHANGED <<pty, started, finished, code, leak, conn, shown, exit>>
           /\ \/ /\ calls' = [calls EXCEPT !["Start"] = "ok"]
                 /\ proc' = "running" /\ pc' = [pc EXCEPT ![c] = "watch"]
                 /\ UNCHANGED arg
              \/ /\ calls' = [calls EXCEPT !["Start"] = "err"]
                 /\ proc' = "failed" /\ pc' = [pc EXCEPT ![c] = "lock"]
                 /\ arg' = [arg EXCEPT ![c] = [status |-> Failure, err |-> TRUE]]
BY Zenon DEF StartReturns, StartFails, Goto, client

(* Positions, calls and reports stay in step with one another. *)
LEMMA CoreNext == SessionInv /\ [Next]_vars => Core'
<1> SUFFICES ASSUME SessionInv, [Next]_vars PROVE Core'
  OBVIOUS
<1>t. TypeOK /\ TypeOK'  BY NextType DEF SessionInv
<1> USE SessionAssumption
    DEF SessionInv, Core, TypeOK, Threads, Threading, Unstarted, Calling, Cleaning, Reporting,
        InRun, InFinalize, Finalizing, StartCalls, Setup, Methods, SomeError,
        control, process, streams, client, Goto, CanLock, Succeeded
<1>1. ASSUME Handle PROVE Core'
  BY <1>1, <1>t DEF Handle
<1>2. ASSUME Abort PROVE Core'
  BY <1>2, <1>t DEF Abort, WriteError, Exit, NoExit
<1>3. ASSUME LibraryExit PROVE Core'
  BY <1>3, <1>t DEF LibraryExit, Exit, NoExit
<1>4. ASSUME NEW c \in Callers, RunLock(c) PROVE Core'
  <2>1. Threading'
    <3>1. CASE CanLock(started)  BY <1>4, <3>1, <1>t DEF RunLock
    <3>2. CASE ~CanLock(started)  BY <1>4, <3>2, <1>t DEF RunLock
    <3> QED  BY <3>1, <3>2
  <2>2. Unstarted'  BY <1>4, <1>t DEF RunLock
  <2>3. Calling'  BY <1>4, <1>t DEF RunLock
  <2>4. Cleaning'  BY <1>4, <1>t DEF RunLock
  <2>5. Reporting'  BY <1>4, <1>t DEF RunLock
  <2> QED  BY <2>1, <2>2, <2>3, <2>4, <2>5
<1>5. ASSUME NEW c \in Callers, StartReturns(c) PROVE Core'
  <2> DEFINE Ok == calls' = [calls EXCEPT !["Start"] = "ok"]
  <2>1. CASE Ok  BY <1>5, <2>1, <1>t, StartCases
  <2>2. CASE ~Ok  BY <1>5, <2>2, <1>t, StartCases
  <2> QED  BY <2>1, <2>2
<1>6. ASSUME NEW c \in Callers, SpawnWatcher(c) PROVE Core'
  BY <1>6, <1>t DEF SpawnWatcher
<1>7. ASSUME NEW c \in Callers, CallWait(c) PROVE Core'
  BY <1>7, <1>t DEF CallWait
<1>8. ASSUME NEW c \in Callers, WaitReturns(c) PROVE Core'
  BY <1>8, <1>t DEF WaitReturns
<1>9. ASSUME NEW c \in Callers, NEW m \in Setup, SetupReturns(c, m) PROVE Core'
  BY <1>9, <1>t DEF SetupReturns, StartFails, After
<1>10. ASSUME ContextDone PROVE Core' BY <1>10, <1>t DEF ContextDone, Cancelled
<1>11. ASSUME NEW t \in Threads, FinalizeLock(t) PROVE Core'
  BY <1>11, <1>t DEF FinalizeLock
<1>12. ASSUME NEW t \in Threads, FinalizeError(t) PROVE Core'
  <2>1. Threading'  BY <1>12, <1>t DEF FinalizeError, WriteError
  <2>2. Unstarted'  BY <1>12, <1>t DEF FinalizeError, WriteError
  <2>3. Calling'  BY <1>12, <1>t DEF FinalizeError, WriteError
  <2>4. Cleaning'  BY <1>12, <1>t DEF FinalizeError, WriteError
  <2>5. Reporting'
    <3>1. /\ t \in Callers
          /\ SomeError
          /\ pc' = [pc EXCEPT ![t] = "finish"]
          /\ UNCHANGED <<calls, arg, started, conn, exit, proc, code>>
      BY <1>12, <1>t DEF FinalizeError
    <3>2. shown' \/ conn # "open" \/ exit # NoExit
      BY <1>12, Zenon DEF FinalizeError, WriteError
    <3>3. shown => shown'
      BY <1>12, Zenon DEF FinalizeError, WriteError
    <3>4. SomeError'  BY <3>1
    <3>5. \A c \in Callers : pc'[c] \in Finalizing => pc[c] \in Finalizing
      BY <3>1, <1>12, <1>t DEF FinalizeError
    <3> QED  BY <3>1, <3>2, <3>3, <3>4, <3>5, <1>12, <1>t DEF FinalizeError
  <2> QED  BY <2>1, <2>2, <2>3, <2>4, <2>5
<1>13. ASSUME NEW t \in Threads, FinalizeFinish(t) PROVE Core'
  BY <1>13, <1>t DEF FinalizeFinish
<1>14. ASSUME NEW t \in Threads, FinalizeExit(t) PROVE Core'
  <2>1. Threading'  BY <1>14, <1>t DEF FinalizeExit, Exit, NoExit
  <2>2. Unstarted'  BY <1>14, <1>t DEF FinalizeExit, Exit, NoExit
  <2>3. Calling'  BY <1>14, <1>t DEF FinalizeExit, Exit, NoExit
  <2>4. Cleaning'  BY <1>14, <1>t DEF FinalizeExit, Exit, NoExit
  <2>5. Reporting'  BY <1>14, <1>t DEF FinalizeExit, Exit, NoExit
  <2> QED  BY <2>1, <2>2, <2>3, <2>4, <2>5
<1>15. ASSUME NEW t \in Threads, FinalizeKill(t) PROVE Core'
  BY <1>15, <1>t DEF FinalizeKill
<1>16. ASSUME CleanupReturns PROVE Core' BY <1>16, <1>t DEF CleanupReturns
<1>17. ASSUME ProcessExit PROVE Core'
  BY <1>17, <1>t DEF ProcessExit
<1>18. ASSUME UNCHANGED <<pty, control, process, shown, exit>>,
              leak' = leak \/ leak = "waiting", conn # "open" => conn' # "open",
              conn = "closed" => conn' = "closed"
       PROVE  Core'
  BY <1>18, <1>t
<1>19. ASSUME NEW g \in Copiers, Copier(g) PROVE Core'
  <2>1. UNCHANGED <<pty, control, process, leak, client>>
    BY <1>19, Zenon DEF Copier, CopyChunk, OutputStops, TakeWindow, SendWindow, CloseResize
  <2> QED  BY <2>1, <1>18
<1>20. ASSUME LeakOk \/ LeakFail PROVE Core'
  BY <1>20, <1>18 DEF LeakOk, LeakFail
<1>21. ASSUME Disconnect PROVE Core'
  BY <1>21, <1>18 DEF Disconnect
<1>22. ASSUME Resize PROVE Core'
  BY <1>22, <1>18 DEF Resize
<1>23. ASSUME NEW s, ProcessOutput(s) \/ InputStops(s) PROVE Core'
  BY <1>23, <1>18 DEF ProcessOutput, InputStops
<1>24. CASE UNCHANGED vars
  BY <1>24, <1>18 DEF vars
<1> HIDE DEF Core
<1>25. CASE Server  BY <1>25, <1>1, <1>2, <1>3 DEF Server
<1>26. CASE \E c \in Callers : Caller(c)
  BY <1>26, <1>4, <1>5, <1>6, <1>7, <1>8, <1>9 DEF Caller
<1>27. CASE \E t \in Threads : Finalize(t)
  BY <1>27, <1>11, <1>12, <1>13, <1>14, <1>15 DEF Finalize
<1>28. CASE Environment
  BY <1>28, <1>17, <1>20, <1>21, <1>22, <1>23 DEF Environment
<1> QED
  BY <1>10, <1>16, <1>19, <1>20, <1>24, <1>25, <1>26, <1>27, <1>28 DEF Next

-----------------------------------------------------------------------------
(* A method of the Process that was called is never called again. *)
LEMMA CalledOnceNext ==
    ASSUME SessionInv, [Next]_vars
    PROVE  \A m \in Methods :
              /\ calls[m] # "no" => calls'[m] # "no"
              /\ calls[m] \in {"ok", "err"} => calls'[m] = calls[m]
<1> DEFINE Once == \A m \in Methods :
              /\ calls[m] # "no" => calls'[m] # "no"
              /\ calls[m] \in {"ok", "err"} => calls'[m] = calls[m]
<1> USE SessionAssumption
    DEF SessionInv, Core, TypeOK, Threads, Threading, Unstarted, Calling, Cleaning,
        InFinalize, Finalizing, StartCalls, Setup, Methods, control, process, streams,
        client, Succeeded
<1>1. CASE UNCHANGED calls  BY <1>1
<1>2. ASSUME NEW c \in Callers, RunLock(c) PROVE Once
  BY <1>2 DEF RunLock, CanLock
<1>3. ASSUME NEW c \in Callers, StartReturns(c) PROVE Once
  BY <1>3, StartCases
<1>4. ASSUME NEW c \in Callers, CallWait(c) \/ WaitReturns(c) PROVE Once
  BY <1>4 DEF CallWait, WaitReturns
<1>5. ASSUME NEW c \in Callers, NEW m \in Setup, SetupReturns(c, m) PROVE Once
  BY <1>5 DEF SetupReturns, After
<1>6. ASSUME NEW t \in Threads, FinalizeKill(t) PROVE Once
  BY <1>6 DEF FinalizeKill
<1>7. CASE CleanupReturns  BY <1>7 DEF CleanupReturns
<1> HIDE DEF SessionInv, Core, TypeOK, Threading, Unstarted, Calling, Cleaning, Methods
<1>8. CASE \E c \in Callers : Caller(c)
  BY <1>1, <1>2, <1>3, <1>4, <1>5, <1>8 DEF Caller, SpawnWatcher
<1>9. CASE \E t \in Threads : Finalize(t)
  BY <1>1, <1>6, <1>9 DEF Finalize, FinalizeLock, FinalizeError, FinalizeFinish, FinalizeExit
<1>10. CASE Server \/ ContextDone \/ LeakOk
  BY <1>1, <1>10 DEF Server, Handle, Abort, LibraryExit, ContextDone, LeakOk
<1>11. CASE Environment
  BY <1>1, <1>11 DEF Environment, ProcessExit, Resize, Disconnect, LeakFail, ProcessOutput,
                     InputStops
<1>12. CASE \E g \in Copiers : Copier(g)
  BY <1>1, <1>12 DEF Copier, CopyChunk, OutputStops, TakeWindow, SendWindow, CloseResize
<1>13. CASE UNCHANGED vars
  BY <1>1, <1>13 DEF vars
<1> QED  BY <1>7, <1>8, <1>9, <1>10, <1>11, <1>12, <1>13 DEF Next

(* The exit status the client has received stays justified, and a new one is. *)
LEMMA ExitNext == SessionInv /\ [Next]_vars => ExitFaithful'
<1> SUFFICES ASSUME SessionInv, [Next]_vars, exit'.live PROVE ExitFaithful'
  BY DEF ExitFaithful
<1> USE SessionAssumption DEF process, streams, control, client
<1>1. CASE /\ UNCHANGED <<exit, shown>>
           /\ started # NoOne => UNCHANGED started
           /\ proc = "exited" => UNCHANGED <<proc, code>>
  <2>1. \A m \in Methods : calls[m] \in {"ok", "err"} => calls'[m] = calls[m]
    BY CalledOnceNext
  <2>2. exit.by = "library" => started # NoOne
    BY <1>1 DEF SessionInv, Core, Reporting
  <2> QED  BY <1>1, <2>1, <2>2 DEF SessionInv, ExitFaithful, Methods
<1>2. CASE Abort
  BY <1>2 DEF Abort, WriteError, Exit, NoExit, SessionInv, Core, Unstarted, ExitFaithful
<1>3. CASE LibraryExit
  BY <1>3 DEF LibraryExit, Exit, NoExit, SessionInv, Core, Reporting, ExitFaithful
<1>4. ASSUME NEW t \in Threads, FinalizeExit(t) PROVE ExitFaithful'
  BY <1>4 DEF FinalizeExit, Exit, NoExit, SessionInv, Core, Reporting, Threading, Cleaning,
     ExitFaithful, InFinalize, Finalizing, Methods, Setup, SomeError, Goto, TypeOK, Threads
<1>5. CASE \E c \in Callers : Caller(c)
  <2>1. PICK c \in Callers : Caller(c)  BY <1>5
  <2>2. CASE RunLock(c)
    BY <1>1, <2>2 DEF RunLock, CanLock
  <2>3. CASE StartReturns(c)
    <3>1. proc # "exited"
      BY <2>3 DEF StartReturns, SessionInv, Core, Calling, Threading, Cleaning, StartCalls
    <3> QED  BY <1>1, <2>3, <3>1 DEF StartReturns
  <2>4. CASE SpawnWatcher(c) \/ CallWait(c) \/ WaitReturns(c)
    BY <1>1, <2>4 DEF SpawnWatcher, CallWait, WaitReturns
  <2>5. CASE \E m \in Setup : SetupReturns(c, m)
    BY <1>1, <2>5 DEF SetupReturns
  <2> QED  BY <2>1, <2>2, <2>3, <2>4, <2>5 DEF Caller
<1>6. ASSUME NEW t \in Threads, Finalize(t) PROVE ExitFaithful'
  <2>1. CASE FinalizeError(t)
    <3>1. exit # NoExit \/ exit' # exit \/ ~exit.live  BY DEF NoExit
    <3> QED  BY <1>1, <2>1, <3>1 DEF FinalizeError, WriteError, SessionInv, TypeOK
  <2> QED
    BY <1>1, <1>4, <1>6, <2>1 DEF Finalize, FinalizeLock, FinalizeFinish, FinalizeKill
<1>7. CASE CleanupReturns
  BY <1>1, <1>7 DEF CleanupReturns
<1>8. CASE Environment
  BY <1>1, <1>8 DEF Environment, ProcessExit, Resize, Disconnect, LeakFail, ProcessOutput,
                    InputStops
<1>9. CASE \E g \in Copiers : Copier(g)
  BY <1>1, <1>9 DEF Copier, CopyChunk, OutputStops, TakeWindow, SendWindow, CloseResize
<1>10. CASE Handle \/ ContextDone \/ LeakOk \/ UNCHANGED vars
  BY <1>1, <1>10 DEF Handle, ContextDone, LeakOk, vars
<1> QED
  BY <1>2, <1>3, <1>5, <1>6, <1>7, <1>8, <1>9, <1>10 DEF Next, Server

(* Once a caller of Run finalizes, nothing more is told to the leak detector. *)
LEMMA LeakNext == SessionInv /\ [Next]_vars => LeakOkSound'
<1> SUFFICES ASSUME SessionInv, [Next]_vars, leak' = "ok", finished' \in Callers
             PROVE  Outstanding' = {}
  BY DEF LeakOkSound
<1> USE SessionAssumption DEF control, process, streams, client
<1>1. CASE LeakOk
  BY <1>1 DEF LeakOk, ZeroCount, Outstanding
<1>2. ASSUME leak = "ok"
      PROVE  /\ finished # NoOne
             /\ finished \in Callers =>
                  started = finished /\ pc[started] \in InFinalize \cup {"done"}
  BY <1>2 DEF SessionInv, Core, Cleaning, Threading, TypeOK
(* It is enough that the step leaves `finished' alone and starts nothing. *)
<1>3. ASSUME UNCHANGED <<leak, finished>>, Outstanding' \subseteq Outstanding
      PROVE  Outstanding' = {}
  BY <1>3 DEF SessionInv, LeakOkSound
<1>4. CASE \E c \in Callers : Caller(c)
  <2>1. PICK c \in Callers : Caller(c)  BY <1>4
  <2>2. UNCHANGED <<leak, finished>>
    BY <2>1 DEF Caller, RunLock, StartReturns, SpawnWatcher, CallWait, WaitReturns, SetupReturns
  <2>3. CASE RunLock(c)
    <3>1. started # NoOne
      BY <1>2, <2>2 DEF SessionInv, Core, Unstarted
    <3> QED
      BY <1>3, <2>2, <2>3, <3>1 DEF RunLock, CanLock, Goto, Outstanding, SessionInv, TypeOK,
         Threads
  <2>4. CASE ~RunLock(c)
    <3>1. started = c /\ pc[c] \in InRun
      BY <2>1, <2>4 DEF Caller, StartReturns, SpawnWatcher, CallWait, WaitReturns, SetupReturns,
         SessionInv, Core, Threading, InRun, StartCalls, Setup
    <3> QED
      BY <1>2, <2>2, <3>1 DEF InRun, InFinalize, Finalizing, StartCalls, Setup
  <2> QED  BY <2>3, <2>4
<1>5. ASSUME NEW t \in Threads, Finalize(t) PROVE Outstanding' = {}
  <2>1. pc[t] \in Finalizing /\ \E l \in Labels \ {"off"} : pc' = [pc EXCEPT ![t] = l]
    BY <1>5 DEF Finalize, FinalizeLock, FinalizeError, FinalizeFinish, FinalizeExit, FinalizeKill,
       Finalizing, Labels, Goto
  <2>2. UNCHANGED <<go, started>> /\ (calls'["Wait"] = "in" => calls["Wait"] = "in")
    BY <1>5 DEF Finalize, FinalizeLock, FinalizeError, FinalizeFinish, FinalizeExit, FinalizeKill,
       SessionInv, TypeOK, Methods
  <2>3. Outstanding' \subseteq Outstanding
    BY <2>1, <2>2 DEF Outstanding, Finalizing, Threads, SessionInv, TypeOK
  <2>4. UNCHANGED <<leak, finished>>
    BY <1>5 DEF Finalize, FinalizeLock, FinalizeError, FinalizeFinish, FinalizeExit, FinalizeKill,
       CanLock, SessionInv, Core, Cleaning
  <2> QED  BY <1>3, <2>3, <2>4
<1>6. CASE CleanupReturns
  BY <1>3, <1>6 DEF CleanupReturns, Outstanding, SessionInv, TypeOK, Methods
<1>7. CASE ContextDone
  BY <1>3, <1>7 DEF ContextDone, Outstanding, Goto, SessionInv, TypeOK, Threads
<1>8. CASE Server
  BY <1>3, <1>8 DEF Server, Handle, Abort, LibraryExit, Outstanding, Goto, SessionInv, TypeOK,
                    Threads
<1>9. CASE Environment
  BY <1>3, <1>9 DEF Environment, ProcessExit, Resize, Disconnect, LeakFail, ProcessOutput,
                    InputStops, Outstanding, SessionInv, TypeOK
<1>10. CASE \E g \in Copiers : Copier(g)
  BY <1>3, <1>10 DEF Copier, CopyChunk, OutputStops, TakeWindow, SendWindow, CloseResize,
                     Outstanding, SessionInv, TypeOK
<1>11. CASE UNCHANGED vars
  BY <1>3, <1>11 DEF vars, Outstanding
<1> QED
  BY <1>1, <1>4, <1>5, <1>6, <1>7, <1>8, <1>9, <1>10, <1>11 DEF Next

-----------------------------------------------------------------------------
(* All parts of the invariant together are inductive. *)
LEMMA InvNext == SessionInv /\ [Next]_vars => SessionInv'
BY NextType, CoreNext, ExitNext, LeakNext DEF SessionInv

(* The invariant holds throughout, for any number of callers of Run. *)
THEOREM Invariance == Spec => []SessionInv
BY InvInit, InvNext, PTL DEF Spec

(* The Process is started after all its streams, waited for after it started,
   and cleaned up after the session has exited and no call of start is left.  *)
THEOREM CallsInOrder == Spec => []CallOrder
<1>1. SessionInv => CallOrder
  BY DEF SessionInv, Core, Calling, Cleaning, CallOrder, StartCalls, TypeOK, Threads
<1> QED  BY <1>1, Invariance, PTL

(* Every method of the Process is called at most once, however many goroutines
   call Run and whichever of them, or the watcher, finalizes.                 *)
THEOREM AtMostOneCall == Spec => CalledOnce
<1>1. SessionInv /\ [Next]_vars =>
        [\A m \in Methods :
           /\ calls[m] # "no" => calls'[m] # "no"
           /\ calls[m] \in {"ok", "err"} => calls'[m] = calls[m]]_vars
  BY CalledOnceNext
<1> QED  BY <1>1, Invariance, PTL DEF Spec, CalledOnce

(* A client that is still there is told the truth about the process's exit. *)
THEOREM FaithfulExit == Spec => []ExitFaithful
<1>1. SessionInv => ExitFaithful  BY DEF SessionInv
<1> QED  BY <1>1, Invariance, PTL

(* "leak_ok" after a caller of Run finalized: nothing was left running. *)
THEOREM SoundLeakOk == Spec => []LeakOkSound
<1>1. SessionInv => LeakOkSound  BY DEF SessionInv
<1> QED  BY <1>1, Invariance, PTL
-----------------------------------------------------------------------------
(* A step that the client cannot see, and that does not touch the command. *)
LEMMA ServiceStutter ==
    ASSUME UNCHANGED <<code, conn, exit>>,
           proc' = proc \/ (proc = "new" /\ proc' = "failed"),
           exit # NoExit => UNCHANGED shown
    PROVE  UNCHANGED Service!serviceVars
<1>1. UNCHANGED AnswerKind
  <2>1. CASE exit = NoExit  BY <2>1 DEF AnswerKind, NoExit
  <2>2. CASE exit # NoExit  BY <2>2 DEF AnswerKind, NoExit
  <2> QED  BY <2>1, <2>2
<1> QED  BY <1>1 DEF Service!serviceVars

(* Whoever is first to call ssh.Session.Exit answers the session: with the result of
   a command that exited, or with a failure, or, if the client has gone, to nobody.   *)
LEMMA ServiceExit ==
    ASSUME NEW by \in {"session", "abort", "library"}, NEW s,
           Exit(by, s), UNCHANGED <<proc, code, conn>>,
           exit # NoExit => UNCHANGED shown,
           exit = NoExit /\ conn = "open" /\ by = "session" /\ ~shown'
              => proc = "exited" /\ s = code
    PROVE  [Service!Next]_(Service!serviceVars)
<1>1. CASE exit # NoExit
  BY <1>1, ServiceStutter DEF Exit
<1>2. CASE exit = NoExit
  <2>1. exit' = [by |-> by, status |-> s, live |-> conn = "open"] /\ exit' # NoExit
    BY <1>2 DEF Exit, NoExit
  <2>2. AnswerKind = "none"
    BY <1>2 DEF AnswerKind
  <2> USE DEF Service!Next, Service!Unanswered, Service!Answer
  <2>3. CASE conn # "open"
    <3>1. AnswerKind' = "gone"
      BY <2>1, <2>3 DEF AnswerKind
    <3> QED  BY <2>2, <2>3, <3>1 DEF Service!GiveUp
  <2>4. CASE conn = "open" /\ by = "session" /\ ~shown'
    <3>1. AnswerKind' = "result" /\ exit'.status = code
      BY <1>2, <2>1, <2>4 DEF AnswerKind
    <3> QED  BY <1>2, <2>2, <2>4, <3>1 DEF Service!Result
  <2>5. CASE conn = "open" /\ (by # "session" \/ shown')
    <3>1. AnswerKind' = "failure"
      BY <2>1, <2>5 DEF AnswerKind
    <3> QED  BY <2>2, <2>5, <3>1 DEF Service!Fail
  <2> QED  BY <2>3, <2>4, <2>5
<1> QED  BY <1>1, <1>2

LEMMA ServiceInit == Init => Service!Init
BY DEF Init, Service!Init, AnswerKind, NoExit

(* Every step of a goroutine is one of the service's, or changes nothing it can see. *)
LEMMA ServiceNext ==
    ASSUME Callers = {Handler}, SessionInv, [Next]_vars
    PROVE  [Service!Next]_(Service!serviceVars)
<1> DEFINE Seen == [Service!Next]_(Service!serviceVars)
<1> USE SessionAssumption DEF control, process, streams, client
<1>1. ASSUME UNCHANGED <<proc, code, conn, shown, exit>> PROVE Seen
  BY <1>1, ServiceStutter
<1>2. CASE Abort
  <2>1. exit = NoExit
    BY <1>2 DEF Abort, SessionInv, Core, Unstarted
  <2> QED  BY <1>2, <2>1, ServiceExit DEF Abort
<1>3. CASE LibraryExit
  BY <1>3, ServiceExit DEF LibraryExit
<1>4. ASSUME NEW c \in Callers, StartReturns(c) PROVE Seen
  <2>1. pc[c] = "Start" /\ proc \in {"new", "failed"} /\ exit = NoExit
    BY <1>4, StartCases DEF SessionInv, TypeOK, Core, Calling, Cleaning, StartCalls
  <2>2. CASE proc' = "running"
    <3>1. AnswerKind = "none" /\ AnswerKind' = "none"
      BY <1>4, <2>1, StartCases DEF AnswerKind, SessionInv
    <3> QED
      BY <1>4, <2>1, <2>2, <3>1, StartCases
         DEF SessionInv, Service!Next, Service!Begin, Service!Unanswered
  <2>3. CASE proc' = "failed"
    BY <1>4, <2>1, <2>3, StartCases, ServiceStutter DEF SessionInv
  <2> QED  BY <1>4, <2>2, <2>3, StartCases DEF SessionInv
<1>5. ASSUME NEW t \in Threads, FinalizeError(t) PROVE Seen
  <2>1. exit # NoExit => UNCHANGED shown
    BY <1>5 DEF FinalizeError, WriteError, SessionInv, TypeOK
  <2> QED  BY <1>5, <2>1, ServiceStutter DEF FinalizeError
<1>6. ASSUME NEW t \in Threads, FinalizeExit(t) PROVE Seen
  <2>1. exit = NoExit /\ conn = "open" /\ ~shown' => proc = "exited" /\ arg[t].status = code
    BY <1>6 DEF FinalizeExit, SessionInv, Core, Threading, Cleaning, Reporting, Finalizing,
                Threads
  <2> QED  BY <1>6, <2>1, ServiceExit DEF FinalizeExit
<1>7. CASE CleanupReturns
  <2>1. exit # NoExit
    BY <1>7 DEF CleanupReturns, SessionInv, Core, Cleaning
  <2>2. CASE proc = "running"
    <3>1. AnswerKind # "none" /\ UNCHANGED AnswerKind
      BY <1>7, <2>1 DEF CleanupReturns, AnswerKind
    <3> QED
      BY <1>7, <2>2, <3>1 DEF CleanupReturns, Service!Next, Service!Kill, Service!Unanswered
  <2>3. CASE proc # "running"
    BY <1>1, <1>7, <2>3 DEF CleanupReturns
  <2> QED  BY <2>2, <2>3
<1>8. CASE ProcessExit
  <2>1. UNCHANGED AnswerKind
    BY <1>8 DEF ProcessExit, AnswerKind
  <2> QED  BY <1>8, <2>1 DEF ProcessExit, Service!Next, Service!End
<1>9. CASE Disconnect
  <2>1. UNCHANGED AnswerKind
    BY <1>9 DEF Disconnect, AnswerKind
  <2>2. conn \in {"open", "hungup"}
    BY <1>9 DEF Disconnect, SessionInv, TypeOK
  <2>3. CASE conn = "open" /\ conn' = "hungup"
    BY <1>9, <2>1, <2>3 DEF Disconnect, Service!Next, Service!Leave
  <2>4. CASE conn' = "closed"
    BY <1>9, <2>1, <2>2, <2>4 DEF Disconnect, Service!Next, Service!Leave
  <2> QED  BY <1>9, <2>3, <2>4 DEF Disconnect
<1>10. CASE Handle \/ ContextDone \/ LeakOk \/ UNCHANGED vars
  BY <1>1, <1>10 DEF Handle, ContextDone, LeakOk, vars
<1>11. ASSUME NEW c \in Callers, Caller(c) PROVE Seen
  BY <1>1, <1>4, <1>11
     DEF Caller, RunLock, SpawnWatcher, CallWait, WaitReturns, SetupReturns
<1>12. ASSUME NEW t \in Threads, Finalize(t) PROVE Seen
  BY <1>1, <1>5, <1>6, <1>12 DEF Finalize, FinalizeLock, FinalizeFinish, FinalizeKill
<1>13. ASSUME NEW g \in Copiers, Copier(g) PROVE Seen
  BY <1>1, <1>13 DEF Copier, CopyChunk, OutputStops, TakeWindow, SendWindow, CloseResize
<1>14. CASE Environment
  BY <1>1, <1>8, <1>9, <1>14 DEF Environment, Resize, LeakFail, ProcessOutput, InputStops
<1> QED
  BY <1>2, <1>3, <1>7, <1>10, <1>11, <1>12, <1>13, <1>14 DEF Next, Server

(* Where the handler alone runs its session, as it does here, Run, start, wait and
   finalize with all their goroutines take only the steps of the abstract service: the
   command is started at most once and never after the answer, there is one answer, it
   is the exit code of a command that exited or a failure, and only a session that is
   answered has its command killed.                                                    *)
THEOREM ImplementsSteps == Callers = {Handler} /\ Spec => Service!Steps
<1> SUFFICES ASSUME Callers = {Handler} PROVE Spec => Service!Steps
  OBVIOUS
<1>1. SessionInv /\ [Next]_vars => [Service!Next]_(Service!serviceVars)
  BY ServiceNext
<1> QED  BY <1>1, ServiceInit, Invariance, PTL DEF Spec, Service!Steps
=============================================================================
