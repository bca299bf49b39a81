---------------------------- MODULE ContainerExecProofs ----------------------------
(***************************************************************************)
(* What a ContainerExecProcess keeps, for any set of exit codes and any    *)
(* number of chunks and of window changes that wait: no code before the    *)
(* output, and none but the exec's own unless its stream was cut off, the  *)
(* client's window, and the calls of a Process.                            *)
(***************************************************************************)
EXTENDS ContainerExec, TLAPS

Early   == DOMAIN Following \cup {"create", "attach", "failed"}
Started == {"wait", "inner", "inspect", "returned"}

(* There is a connection, or the nil of a failed Attach, once Start is through, and a
   stream to cut off with it; the code is set when the exec exits.                    *)
Starting ==
    /\ pc \in Pipes => ~pty
    /\ pc \in Early => conn = "none" /\ out = "no" /\ ~attached
    /\ pc \in Started => conn # "none" /\ out # "no" /\ (attached \/ clean = "done")
    /\ pc \in Early \ {"failed"} => clean = "no"
    /\ exec \in {"running", "exited"} => conn \notin {"none", "nil"}
    /\ clean = "forget" => conn = "closed"
    /\ cut => conn # "none"
    /\ exec # "exited" => code = 0

(* No error, wherever it is on its way from the output goroutine to the answer, means
   that nothing the exec wrote is left, and that it has exited or was cut off.        *)
Drained == sent = 0 /\ (exec = "exited" \/ cut)

Draining ==
    /\ out = "send" /\ outErr = "nil" => Drained
    /\ outErrChan = "nil" => Drained
    /\ pc = "inspect" => Drained
    /\ pc # "returned" => answer = [kind |-> "none", status |-> 0]

(* A change of the window is waiting, is being made, or has been; the first is there
   before anyone takes it.                                                            *)
Sizing ==
    /\ pc \in DOMAIN Following => resizer = "no"
    /\ resizer # "no" => pty
    /\ pty /\ resizer = "no" => windows > 0
    /\ resizer = "resize" /\ windows = 0 => taken

ContainerInv ==
    TypeOK /\ Starting /\ Draining /\ Sizing /\ OutputBeforeResult /\ WindowFollows

-----------------------------------------------------------------------------
LEMMA FollowingPipes ==
    /\ DOMAIN Following = Pipes \cup {"Init"}
    /\ \A p \in Pipes \cup {"Init"} : Following[p] \in Pipes \cup {"create"}
BY DEF Following, Pipes

LEMMA InvInit == Init => ContainerInv
<1> SUFFICES ASSUME Init PROVE ContainerInv
  OBVIOUS
<1>1. /\ pty \in BOOLEAN /\ attached \in BOOLEAN /\ inputDoneChan \in BOOLEAN
      /\ taken \in BOOLEAN /\ resized \in BOOLEAN /\ refused \in BOOLEAN
      /\ panicked \in BOOLEAN /\ cut \in BOOLEAN
  BY Zenon DEF Init
<1>2. TypeOK
  BY <1>1, ContainerAssumption DEF Init, TypeOK, Codes, Pipes
<1>3. Starting
  BY FollowingPipes DEF Init, Starting, Early, Started, Pipes
<1>4. Draining /\ OutputBeforeResult
  BY DEF Init, Draining, OutputBeforeResult
<1>5. Sizing /\ WindowFollows
  BY <1>1 DEF Init, Sizing, WindowFollows
<1> QED  BY <1>2, <1>3, <1>4, <1>5 DEF ContainerInv

LEMMA TypeNext == TypeOK /\ [Next]_vars => TypeOK'
<1> SUFFICES ASSUME TypeOK, [Next]_vars PROVE TypeOK'
  OBVIOUS
<1> USE ContainerAssumption DEF TypeOK, Codes, term, sizes, run, docker, ends, copies
<1>1. CASE Setup
  BY <1>1, FollowingPipes DEF Setup, Pipes
<1>2. CASE Create
  BY <1>2 DEF Create, Pipes
<1>3. CASE Attach
  <2>1. attached' \in BOOLEAN
    BY <1>3, Zenon DEF Attach
  <2> QED
    BY <1>3, <2>1 DEF Attach, Pipes
<1>4. CASE WaitStreams
  BY <1>4 DEF WaitStreams, Receive, Answer, OutputToo, Pipes
<1>5. CASE Inspect
  BY <1>5 DEF Inspect, Answer, Pipes
<1>6. CASE CopyOutput
  BY <1>6 DEF CopyOutput, Pipes
<1>7. CASE OutputEnds
  BY <1>7 DEF OutputEnds, StreamEnds, CopyFails, Uncancelled, Pipes
<1>8. CASE SendError
  BY <1>8 DEF SendError, Pipes
<1>9. CASE InputEnds
  <2>1. inputDoneChan' \in BOOLEAN
    BY <1>9, Zenon DEF InputEnds
  <2> QED
    BY <1>9, <2>1 DEF InputEnds, Pipes
<1>10. CASE UseNil
  <2>1. panicked' \in BOOLEAN
    BY <1>10, Zenon DEF UseNil
  <2> QED
    BY <1>10, <2>1 DEF UseNil, Pipes
<1>11. CASE HandleWith
  <2>1. taken' \in BOOLEAN
    BY <1>11, Zenon DEF HandleWith
  <2> QED
    BY <1>11, <2>1 DEF HandleWith, Pipes
<1>12. CASE ContainerExecResize
  <2>1. resized' \in BOOLEAN /\ refused' \in BOOLEAN /\ panicked' \in BOOLEAN
    BY <1>12, Zenon DEF ContainerExecResize, StoringID
  <2> QED
    BY <1>12, <2>1 DEF ContainerExecResize, StoringID, Pipes
<1>13. CASE CloseTerminal
  BY <1>13 DEF CloseTerminal, Pipes
<1>14. CASE ClosePipes
  BY <1>14 DEF ClosePipes, Pipes
<1>15. CASE CloseConn
  <2>1. panicked' \in BOOLEAN
    BY <1>15, Zenon DEF CloseConn
  <2> QED
    BY <1>15, <2>1 DEF CloseConn, Pipes
<1>16. CASE ForgetConn
  <2>1. attached' \in BOOLEAN
    BY <1>16, Zenon DEF ForgetConn
  <2> QED
    BY <1>16, <2>1 DEF ForgetConn, Pipes
<1>17. CASE ExecOutput
  BY <1>17 DEF ExecOutput, Pipes
<1>18. CASE ExecExit
  BY <1>18 DEF ExecExit, Pipes
<1>19. CASE Break
  BY <1>19 DEF Break, Pipes
<1>20. CASE CutOff
  <2>1. cut' \in BOOLEAN
    BY <1>20, Zenon DEF CutOff
  <2> QED
    BY <1>20, <2>1 DEF CutOff, Pipes
<1>21. CASE SessionCloses
  BY <1>21 DEF SessionCloses, Pipes
<1>22. CASE ClientResizes
  <2>1. taken' \in BOOLEAN /\ resized' \in BOOLEAN
    BY <1>22, Zenon DEF ClientResizes
  <2> QED
    BY <1>22, <2>1 DEF ClientResizes, Pipes
<1>23. CASE Disconnect
  BY <1>23 DEF Disconnect, Pipes
<1>24. CASE UNCHANGED vars
  BY <1>24 DEF vars
<1> QED
  BY <1>1, <1>2, <1>3, <1>4, <1>5, <1>6, <1>7, <1>8, <1>9, <1>10, <1>11, <1>12,
     <1>13, <1>14, <1>15, <1>16, <1>17, <1>18, <1>19, <1>20, <1>21, <1>22, <1>23,
     <1>24
     DEF Next, Run, Output, Cleanup

LEMMA StartingNext == TypeOK /\ Starting /\ ~panicked /\ Next => Starting'
<1> SUFFICES ASSUME TypeOK, Starting, ~panicked, Next PROVE Starting'
  OBVIOUS
<1> USE FollowingPipes
    DEF TypeOK, Starting, Early, Started, Pipes, term, sizes, run, docker, ends, copies
<1>1. CASE Setup
  BY <1>1 DEF Setup
<1>2. CASE Create
  BY <1>2 DEF Create
<1>3. CASE Attach
  BY <1>3 DEF Attach
<1>4. CASE WaitStreams
  BY <1>4 DEF WaitStreams, Receive, Answer, OutputToo
<1>5. CASE Inspect
  BY <1>5 DEF Inspect, Answer
<1>6. CASE OutputEnds
  BY <1>6 DEF OutputEnds, StreamEnds, CopyFails, Uncancelled
<1>7. CASE SendError
  BY <1>7 DEF SendError
<1>8. CASE CloseTerminal
  BY <1>8 DEF CloseTerminal
<1>9. CASE ClosePipes
  BY <1>9 DEF ClosePipes
<1>10. CASE CloseConn
  BY <1>10 DEF CloseConn
<1>11. CASE ForgetConn
  BY <1>11 DEF ForgetConn
<1>12. CASE ExecExit
  BY <1>12 DEF ExecExit
<1>13. CASE Break
  BY <1>13 DEF Break
<1>14. CASE CutOff
  BY <1>14 DEF CutOff
<1>15. CASE CopyOutput \/ InputEnds \/ UseNil \/ HandleWith \/ ContainerExecResize \/
            ExecOutput \/ SessionCloses \/ ClientResizes \/ Disconnect
  <2>1. UNCHANGED <<pty, pc, conn, out, attached, clean, exec, code, cut>>
    BY <1>15
       DEF CopyOutput, InputEnds, UseNil, HandleWith, ContainerExecResize, StoringID,
           ExecOutput, SessionCloses, ClientResizes, Disconnect
  <2> QED  BY <2>1
<1> QED
  BY <1>1, <1>2, <1>3, <1>4, <1>5, <1>6, <1>7, <1>8, <1>9, <1>10, <1>11, <1>12,
     <1>13, <1>14, <1>15
     DEF Next, Run, Output, Cleanup

LEMMA DrainingNext ==
    TypeOK /\ Starting /\ Draining /\ OutputBeforeResult /\ ~panicked /\ Next
        => Draining' /\ OutputBeforeResult'
<1> SUFFICES ASSUME TypeOK, Starting, Draining, OutputBeforeResult, ~panicked, Next
             PROVE  Draining' /\ OutputBeforeResult'
  OBVIOUS
<1> USE FollowingPipes
    DEF TypeOK, Starting, Draining, Drained, OutputBeforeResult, Early, Started, Pipes,
        term, sizes, run, docker, ends, copies
<1>1. CASE Setup
  BY <1>1 DEF Setup
<1>2. CASE Create
  BY <1>2 DEF Create
<1>3. CASE Attach
  BY <1>3 DEF Attach
<1>4. CASE WaitStreams
  BY <1>4 DEF WaitStreams, Receive, Answer, OutputToo
<1>5. CASE Inspect
  BY <1>5 DEF Inspect, Answer
<1>6. CASE CopyOutput
  BY <1>6 DEF CopyOutput
<1>7. CASE OutputEnds
  BY <1>7 DEF OutputEnds, StreamEnds, CopyFails, Uncancelled
<1>8. CASE SendError
  BY <1>8 DEF SendError
<1>9. CASE ExecOutput
  BY <1>9 DEF ExecOutput
<1>10. CASE ExecExit
  BY <1>10 DEF ExecExit
<1>11. CASE CutOff
  BY <1>11 DEF CutOff
<1>12. CASE InputEnds \/ UseNil \/ HandleWith \/ ContainerExecResize \/ CloseTerminal \/
            ClosePipes \/ CloseConn \/ ForgetConn \/ Break \/ SessionCloses \/ ClientResizes
            \/ Disconnect
  <2>1. UNCHANGED <<pc, answer, exec, code, sent, cut, out, outErr, outErrChan>>
    BY <1>12
       DEF InputEnds, UseNil, HandleWith, ContainerExecResize, StoringID, CloseTerminal,
           ClosePipes, CloseConn, ForgetConn, Break, SessionCloses, ClientResizes,
           Disconnect
  <2> QED  BY <2>1
<1> QED
  BY <1>1, <1>2, <1>3, <1>4, <1>5, <1>6, <1>7, <1>8, <1>9, <1>10, <1>11, <1>12
     DEF Next, Run, Output, Cleanup

LEMMA SizingNext ==
    TypeOK /\ Starting /\ Sizing /\ WindowFollows /\ ~panicked /\ Next
        => Sizing' /\ WindowFollows'
<1> SUFFICES ASSUME TypeOK, Starting, Sizing, WindowFollows, ~panicked, Next
             PROVE  Sizing' /\ WindowFollows'
  OBVIOUS
<1> USE FollowingPipes
    DEF TypeOK, Starting, Sizing, WindowFollows, StoringID, Pipes,
        term, sizes, run, docker, ends, copies
<1>1. CASE Setup
  BY <1>1 DEF Setup
<1>2. CASE Create
  BY <1>2 DEF Create
<1>3. CASE Attach
  BY <1>3 DEF Attach
<1>4. CASE WaitStreams
  BY <1>4 DEF WaitStreams, Receive, Answer, OutputToo
<1>5. CASE Inspect
  BY <1>5 DEF Inspect, Answer
<1>6. CASE UseNil
  BY <1>6 DEF UseNil
<1>7. CASE HandleWith
  <2>1. windows' = 0 => taken'
    <3>1. windows' = 0 => windows = 1
      BY <1>7 DEF HandleWith
    <3>2. taken' = (windows = 1)
      BY <1>7 DEF HandleWith
    <3> QED  BY <3>1, <3>2, Zenon
  <2>2. /\ pty /\ resizer' = "resize"
        /\ UNCHANGED <<pty, resized, refused, run, docker, panicked>>
    BY <1>7 DEF HandleWith
  <2>3. pc \notin DOMAIN Following
    BY <1>7 DEF HandleWith
  <2> QED  BY <2>1, <2>2, <2>3
<1>8. CASE ContainerExecResize
  BY <1>8 DEF ContainerExecResize, StoringID
<1>9. CASE CloseConn
  BY <1>9 DEF CloseConn
<1>10. CASE Break
  BY <1>10 DEF Break
<1>11. CASE ClientResizes
  BY <1>11 DEF ClientResizes
<1>12. CASE CopyOutput \/ OutputEnds \/ SendError \/ InputEnds \/ CloseTerminal \/
            ClosePipes \/ ForgetConn \/ ExecOutput \/ ExecExit \/ CutOff \/
            SessionCloses \/ Disconnect
  <2>1. UNCHANGED <<pty, sizes, pc, conn, panicked>>
    BY <1>12
       DEF CopyOutput, OutputEnds, StreamEnds, CopyFails, Uncancelled, SendError, InputEnds,
           CloseTerminal, ClosePipes, ForgetConn, ExecOutput, ExecExit, CutOff,
           SessionCloses, Disconnect
  <2> QED  BY <2>1
<1> QED
  BY <1>1, <1>2, <1>3, <1>4, <1>5, <1>6, <1>7, <1>8, <1>9, <1>10, <1>11, <1>12
     DEF Next, Run, Output, Cleanup

LEMMA InvNext == ContainerInv /\ [Next]_vars => ContainerInv'
<1> SUFFICES ASSUME ContainerInv, [Next]_vars PROVE ContainerInv'
  OBVIOUS
<1>1. TypeOK /\ TypeOK'
  BY TypeNext DEF ContainerInv
<1>2. CASE Next
  <2>1. ~panicked
    BY <1>2 DEF Next
  <2> QED
    BY <1>1, <1>2, <2>1, StartingNext, DrainingNext, SizingNext DEF ContainerInv
<1>3. CASE UNCHANGED vars
  <2>1. Starting' /\ Draining' /\ OutputBeforeResult'
    BY <1>3 DEF ContainerInv, Starting, Draining, Drained, OutputBeforeResult, Early, Started,
                vars, term, run, docker, copies
  <2>2. Sizing' /\ WindowFollows'
    BY <1>3 DEF ContainerInv, Sizing, WindowFollows, StoringID, vars, term, sizes, run, docker
  <2> QED  BY <1>1, <2>1, <2>2 DEF ContainerInv
<1> QED  BY <1>2, <1>3

(* Every state of a ContainerExecProcess satisfies the invariant. *)
THEOREM Invariance == Spec => []ContainerInv
BY InvInit, InvNext, PTL DEF Spec

(* The variables of a ContainerExecProcess keep their types. *)
THEOREM TypeCorrect == Spec => []TypeOK
<1>1. ContainerInv => TypeOK
  BY DEF ContainerInv
<1> QED  BY <1>1, Invariance, PTL

(* Wait answers with a code only when all output that came has been handed on, and the
   exec exited with it or, cut off from its stream, was seen running on.               *)
THEOREM CompleteOutput == Spec => []OutputBeforeResult
<1>1. ContainerInv => OutputBeforeResult
  BY DEF ContainerInv
<1> QED  BY <1>1, Invariance, PTL

(* The exec has the client's last size once all changes are taken, or docker refused
   it; only a failed Attach, or a resize that falls into Start's store of the ID, can
   panic, whatever Cleanup closes under the goroutines.                               *)
THEOREM WindowKept == Spec => []WindowFollows
<1>1. ContainerInv => WindowFollows
  BY DEF ContainerInv
<1> QED  BY <1>1, Invariance, PTL

-----------------------------------------------------------------------------
(* A step of the Process, its goroutines, docker or the client is one of the contract's,
   or changes nothing that it speaks of.                                                 *)
LEMMA CallsInit == Init => Contract!Init
BY DEF Init, Contract!Init, Contract!Waiting, Begun

LEMMA CallsNext == ContainerInv /\ [Next]_vars => [Contract!Next]_(Contract!contractVars)
<1> SUFFICES ASSUME ContainerInv, [Next]_vars PROVE [Contract!Next]_(Contract!contractVars)
  OBVIOUS
<1> USE FollowingPipes
    DEF Contract!contractVars, ContainerInv, TypeOK, Starting, Draining, Drained, Early,
        Started, Begun, Gone, Pipes, term, sizes, run, docker, ends, copies
<1>1. CASE ~panicked /\ Setup
  BY <1>1 DEF Setup, Contract!Next, Contract!Begin
<1>2. CASE ~panicked /\ Create
  BY <1>2 DEF Create, Contract!Next, Contract!Begin
<1>3. CASE ~panicked /\ Attach
  BY <1>3 DEF Attach, Contract!Next, Contract!Begin
<1>4. CASE ~panicked /\ WaitStreams
  BY <1>4
     DEF WaitStreams, Receive, Answer, OutputToo, Contract!Next, Contract!Error,
         Contract!Waiting
<1>5. CASE ~panicked /\ Inspect
  BY <1>5
     DEF Inspect, Answer, Contract!Next, Contract!Result, Contract!Error, Contract!Waiting
<1>6. CASE ~panicked /\ UseNil
  BY <1>6 DEF UseNil, Contract!Next, Contract!Crash
<1>7. CASE ~panicked /\ ContainerExecResize
  BY <1>7 DEF ContainerExecResize, StoringID, Contract!Next, Contract!Crash
<1>8. CASE ~panicked /\ CloseTerminal
  BY <1>8 DEF CloseTerminal, Contract!Next, Contract!CallCleanup
<1>9. CASE ~panicked /\ CloseConn
  BY <1>9
     DEF CloseConn, Contract!Next, Contract!CleanedUp, Contract!Lose, Contract!Crash
<1>10. CASE ~panicked /\ ForgetConn
  BY <1>10 DEF ForgetConn, Contract!Next, Contract!CleanedUp
<1>11. CASE ~panicked /\ ExecExit
  BY <1>11 DEF ExecExit, Contract!Next, Contract!End, Codes
<1>12. CASE ~panicked /\ Break
  BY <1>12 DEF Break, Contract!Next, Contract!Lose
<1>13. CASE ~panicked /\ CutOff
  BY <1>13 DEF CutOff, Contract!Next, Contract!Lose
<1>14. CASE CopyOutput \/ OutputEnds \/ SendError \/ InputEnds \/ HandleWith \/
            ClosePipes \/ ExecOutput \/ SessionCloses \/ ClientResizes \/ Disconnect
  BY <1>14
     DEF CopyOutput, OutputEnds, StreamEnds, CopyFails, Uncancelled, SendError, InputEnds,
         HandleWith, ClosePipes, ExecOutput, SessionCloses, ClientResizes, Disconnect
<1>15. CASE UNCHANGED vars
  BY <1>15 DEF vars
<1> QED
  BY <1>1, <1>2, <1>3, <1>4, <1>5, <1>6, <1>7, <1>8, <1>9, <1>10, <1>11, <1>12,
     <1>13, <1>14, <1>15
     DEF Next, Run, Output, Cleanup

(* A ContainerExecProcess implements the calls of a Process: in whatever order the
   streams, the exec, the connection and the context end, Wait answers once, with the
   code of an exec that has exited, the 0 of one that is lost, or an error, and Cleanup
   returns only when the exec has exited or is lost.                                    *)
THEOREM ImplementsCalls == Spec => Contract!Calls
BY CallsInit, CallsNext, Invariance, PTL DEF Spec, Contract!Calls
=============================================================================
