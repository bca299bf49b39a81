----------------------------- MODULE SystemExecProofs -----------------------------
(***************************************************************************)
(* What Run and Cleanup of a SystemProcess, which share its exec.Cmd       *)
(* without a lock, keep of it, for any set of exit codes: where they can   *)
(* panic, and the calls of a Process.                                      *)
(***************************************************************************)
EXTENDS SystemExec, TLAPS

(* A command was made before it can be started, and started before it can be waited
   for; it is not Run that has made one when Cleanup comes after a failure.          *)
Begins == DOMAIN Following \cup {"Init", "Start"}

Making ==
    /\ pc \in Begins \cup {"failed"} => os = "none" /\ ~process
    /\ pc \in Begins => clean = "no"
    /\ pc \notin {"Init", "failed"} => cmd
    /\ pc \in {"Wait", "load", "reap", "returned"} => os # "none"

(* The Process is set while the command runs, until Cleanup is over. *)
Keeping ==
    /\ os \in {"running", "ended"} /\ clean # "done" => process
    /\ pc = "load" => process \/ clean = "done"
    /\ clean \in {"forget", "done"} => os # "running"
    /\ os = "reaped" => pc = "returned"
    /\ pc # "returned" => answer = [kind |-> "none", status |-> 0]

SystemInv == TypeOK /\ Making /\ Keeping /\ PanicsExplained

-----------------------------------------------------------------------------
LEMMA FollowingPipes ==
    /\ DOMAIN Following = Pipes
    /\ \A p \in Pipes : Following[p] \in {"Stderr", "Stdin", "Start"}
BY DEF Following, Pipes

LEMMA InvInit == Init => SystemInv
<1> SUFFICES ASSUME Init PROVE SystemInv
  OBVIOUS
<1>1. pty \in BOOLEAN /\ cmd \in BOOLEAN /\ process \in BOOLEAN /\ panicked \in BOOLEAN
  BY Zenon DEF Init
<1>2. TypeOK
  BY <1>1 DEF Init, TypeOK, Codes, Pipes
<1>3. Making /\ Keeping /\ PanicsExplained
  BY FollowingPipes DEF Init, Making, Begins, Keeping, PanicsExplained
<1> QED  BY <1>2, <1>3 DEF SystemInv

LEMMA TypeNext == TypeOK /\ [Next]_vars => TypeOK'
<1> SUFFICES ASSUME TypeOK, [Next]_vars PROVE TypeOK'
  OBVIOUS
<1> USE DEF TypeOK
<1>1. Codes \subseteq Int /\ ExitCodes \subseteq Codes /\ {Signalled, 0} \subseteq Codes
  BY SystemAssumption DEF Codes, Signalled
<1>2. CASE InitCmd
  <2>1. cmd' \in BOOLEAN
    BY <1>2, Zenon DEF InitCmd
  <2> QED  BY <2>1, <1>2 DEF InitCmd, Pipes
<1>3. CASE OpenPipe  BY <1>3, FollowingPipes DEF OpenPipe, Pipes
<1>4. CASE Start
  <2>1. process' \in BOOLEAN
    BY <1>4, Zenon DEF Start
  <2> QED  BY <2>1, <1>4 DEF Start
<1>5. CASE WaitCheck  BY <1>5 DEF WaitCheck, Answer
<1>6. CASE WaitLoad
  <2>1. panicked' \in BOOLEAN
    BY <1>6, Zenon DEF WaitLoad
  <2> QED  BY <2>1, <1>6 DEF WaitLoad
<1>7. CASE WaitReap  BY <1>7 DEF WaitReap, Answer
<1>8. CASE CloseTerminal  BY <1>8 DEF CloseTerminal, run
<1>9. CASE CheckProcess
  <2>1. panicked' \in BOOLEAN
    BY <1>9, Zenon DEF CheckProcess, run
  <2> QED  BY <2>1, <1>9 DEF CheckProcess, run
<1>10. CASE Kill  BY <1>1, <1>10 DEF Kill, run
<1>11. CASE Forget
  <2>1. process' \in BOOLEAN
    BY <1>11, Zenon DEF Forget, run
  <2> QED  BY <2>1, <1>11 DEF Forget, run
<1>12. CASE ProcessEnd  BY <1>1, <1>12 DEF ProcessEnd, run
<1>13. CASE UNCHANGED vars  BY <1>13 DEF vars, run
<1> QED
  BY <1>2, <1>3, <1>4, <1>5, <1>6, <1>7, <1>8, <1>9, <1>10, <1>11, <1>12, <1>13
     DEF Next, Run, Cleanup

LEMMA InvNext == SystemInv /\ [Next]_vars => SystemInv'
<1> SUFFICES ASSUME SystemInv, [Next]_vars PROVE SystemInv'
  OBVIOUS
<1>1. TypeOK /\ TypeOK'
  BY TypeNext DEF SystemInv
<1> USE DEF SystemInv, Making, Keeping, PanicsExplained, Begins
<1>2. CASE ~panicked /\ InitCmd
  BY <1>1, <1>2, FollowingPipes DEF InitCmd, Pipes
<1>3. CASE ~panicked /\ OpenPipe
  BY <1>1, <1>3, FollowingPipes DEF OpenPipe, Pipes
<1>4. CASE ~panicked /\ Start
  BY <1>1, <1>4, FollowingPipes DEF Start, Pipes
<1>5. CASE ~panicked /\ WaitCheck
  BY <1>1, <1>5, FollowingPipes DEF WaitCheck, Answer, Pipes
<1>6. CASE ~panicked /\ WaitLoad
  BY <1>1, <1>6, FollowingPipes DEF WaitLoad, Pipes
<1>7. CASE ~panicked /\ WaitReap
  BY <1>1, <1>7, FollowingPipes DEF WaitReap, WaitDone, Answer, Pipes
<1>8. CASE ~panicked /\ CloseTerminal
  BY <1>1, <1>8, FollowingPipes DEF CloseTerminal, run, Pipes
<1>9. CASE ~panicked /\ CheckProcess
  BY <1>1, <1>9, FollowingPipes DEF CheckProcess, run, TypeOK, Pipes
<1>10. CASE ~panicked /\ Kill
  BY <1>1, <1>10, FollowingPipes DEF Kill, run, TypeOK, Pipes
<1>11. CASE ~panicked /\ Forget
  BY <1>1, <1>11, FollowingPipes DEF Forget, run, Pipes
<1>12. CASE ~panicked /\ ProcessEnd
  BY <1>1, <1>12, FollowingPipes DEF ProcessEnd, run, Pipes
<1>13. CASE UNCHANGED vars
  BY <1>1, <1>13 DEF vars, run
<1> QED
  BY <1>2, <1>3, <1>4, <1>5, <1>6, <1>7, <1>8, <1>9, <1>10, <1>11, <1>12, <1>13
     DEF Next, Run, Cleanup

(* Every state of a SystemProcess satisfies the invariant. *)
THEOREM Invariance == Spec => []SystemInv
BY InvInit, InvNext, PTL DEF Spec

(* The variables of a SystemProcess keep their types. *)
THEOREM TypeCorrect == Spec => []TypeOK
<1>1. SystemInv => TypeOK
  BY DEF SystemInv
<1> QED  BY <1>1, Invariance, PTL

(* Cleanup, which clears the Process that Wait may be about to load, panics or makes
   Wait panic in two places, and in no other.                                         *)
THEOREM ExplainedPanics == Spec => []PanicsExplained
<1>1. SystemInv => PanicsExplained
  BY DEF SystemInv
<1> QED  BY <1>1, Invariance, PTL

-----------------------------------------------------------------------------
(* A step of Run, Cleanup or the command is one of the contract's, or changes nothing
   that it speaks of.                                                                  *)
LEMMA CallsInit == Init => Contract!Init
BY DEF Init, Contract!Init, Contract!Waiting

LEMMA CallsNext == SystemInv /\ [Next]_vars => [Contract!Next]_(Contract!contractVars)
<1> SUFFICES ASSUME SystemInv, [Next]_vars PROVE [Contract!Next]_(Contract!contractVars)
  OBVIOUS
<1> USE FollowingPipes DEF Contract!contractVars, SystemInv, Making, Keeping, Begins
<1>1. CASE ~panicked /\ InitCmd
  BY <1>1 DEF InitCmd, Contract!Next, Contract!Begin
<1>2. CASE ~panicked /\ OpenPipe
  BY <1>2 DEF OpenPipe, Pipes, Contract!Next, Contract!Begin
<1>3. CASE ~panicked /\ Start
  BY <1>3 DEF Start, Contract!Next, Contract!Begin
<1>4. CASE ~panicked /\ WaitCheck
  BY <1>4 DEF WaitCheck, Answer, Contract!Next, Contract!Error, Contract!Waiting
<1>5. CASE ~panicked /\ WaitLoad
  BY <1>5 DEF WaitLoad, Contract!Next, Contract!Crash
<1>6. CASE ~panicked /\ WaitReap
  BY <1>6 DEF WaitReap, WaitDone, Answer, Contract!Next, Contract!Result, Contract!Waiting
<1>7. CASE ~panicked /\ CloseTerminal
  BY <1>7 DEF CloseTerminal, run, Contract!Next, Contract!CallCleanup
<1>8. CASE ~panicked /\ CheckProcess
  BY <1>8 DEF CheckProcess, run, TypeOK, Contract!Next, Contract!CleanedUp, Contract!Crash
<1>9. CASE ~panicked /\ Kill
  BY <1>9 DEF Kill, run, TypeOK, Contract!Next, Contract!End, Contract!CleanedUp, Codes
<1>10. CASE ~panicked /\ Forget
  BY <1>10 DEF Forget, run, Contract!Next, Contract!CleanedUp
<1>11. CASE ~panicked /\ ProcessEnd
  BY <1>11 DEF ProcessEnd, run, Contract!Next, Contract!End, Codes
<1>12. CASE UNCHANGED vars
  BY <1>12 DEF vars, run
<1> QED
  BY <1>1, <1>2, <1>3, <1>4, <1>5, <1>6, <1>7, <1>8, <1>9, <1>10, <1>11, <1>12
     DEF Next, Run, Cleanup

(* A SystemProcess implements the calls of a Process: whoever is first of Kill, Wait
   and the end of the command, Wait answers with the code of a command that has ended
   or with an error, and the command does not run when Cleanup has returned.           *)
THEOREM ImplementsCalls == Spec => Contract!Calls
BY CallsInit, CallsNext, Invariance, PTL DEF Spec, Contract!Calls
=============================================================================
