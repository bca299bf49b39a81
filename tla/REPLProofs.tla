------------------------------ MODULE REPLProofs ------------------------------
(***************************************************************************)
(* What a REPL's terminal and its loop keep, for every set of codes and    *)
(* every bound: modes, descriptors, the exit code, and the calls of a      *)
(* Process.  PairInv is the inductive invariant of the pair, and LoopInv   *)
(* relates the pair to the threads that use it.                            *)
(***************************************************************************)
EXTENDS REPL, TLAPS

(* What is left to restore, and how far a thread must be to have restored it. *)
Restorable ==
    /\ state["pty"] # "raw"
    /\ state["tty"] = "raw" => state["pty"] = "cooked"
    /\ device = "raw" => \/ state["pty"] = "cooked"
                         \/ state["pty"] = "nil" /\ state["tty"] = "cooked"
    /\ \A c \in Closers :
          /\ closer[c] = "restorePty" \/ Past(c) => state["tty"] = "nil"
          /\ Past(c) => state["pty"] = "nil"

(* A file that is no longer open was closed by a thread that has restored both ends. *)
Freed(e) == file[e] \in {"closing", "closed"}

ClosedByClose ==
    /\ Freed("tty") => \E c \in Closers : closer[c] \in {"closePty", "done"}
    /\ Freed("pty") => \E c \in Closers : closer[c] = "done"

Unopened ==
    /\ file["tty"] = "nil" <=> file["pty"] = "nil"
    /\ file["pty"] = "nil" => device = "cooked" /\ \A e \in Ends : state[e] = "nil"

PairInv == PairTypeOK /\ Restorable /\ ClosedByClose /\ Unopened /\ DescriptorsOwn

Preparing == DOMAIN Following \cup {"Start"}

(* Where Run, the loop and Cleanup are beside one another. *)
Placed ==
    /\ pc \in Preparing => /\ clean = "no" /\ file["pty"] = "nil"
                           /\ \A c \in Closers : closer[c] = "no"
    /\ loop = "no" <=> pc \in Preparing \cup {"failed"}
    /\ pc = "returned" => loop = "done"
    /\ pc # "returned" => answer = [kind |-> "none", status |-> 0]
    /\ pty /\ loop # "no" => file["pty"] # "nil"
    /\ closer["loop"] # "no" => loop \in {"close", "done"}
    /\ closer["cleanup"] # "no" => clean \in {"close", "done"}

(* The loop is told before anything is closed under it; a read that failed is its last. *)
Told ==
    /\ clean # "no" /\ loop # "no" => cancelled
    /\ cancelled => clean # "no"
    /\ stdin = "closed" => clean \in {"hack", "close", "done"}
    /\ loop = "got" /\ got = "error" => cancelled
    /\ exitCode = 255 => loop \in {"close", "last", "done"}

LoopInv == TypeOK /\ Placed /\ Told /\ QuietCancel

REPLInv == PairInv /\ LoopInv

-----------------------------------------------------------------------------
(* The steps of Close by their names. *)
StepNames == {"restoreTty", "restorePty", "closeTty", "closePty", "done"}

LEMMA NamesOfSteps ==
    /\ Steps[1] = "restoreTty" /\ Steps[2] = "restorePty" /\ Steps[3] = "closeTty"
    /\ Steps[4] = "closePty" /\ Steps[5] = "done"
    /\ {Steps[i] : i \in 1..5} = StepNames
<1>1. /\ Steps[1] = "restoreTty" /\ Steps[2] = "restorePty" /\ Steps[3] = "closeTty"
      /\ Steps[4] = "closePty" /\ Steps[5] = "done"
  BY DEF Steps
<1>2. \A i \in 1..5 : i = 1 \/ i = 2 \/ i = 3 \/ i = 4 \/ i = 5
  OBVIOUS
<1> QED  BY <1>1, <1>2 DEF StepNames

LEMMA AdvanceTo ==
    ASSUME NEW c \in Closers, Advance(c)
    PROVE  \/ closer[c] = "restoreTty" /\ closer' = [closer EXCEPT ![c] = "restorePty"]
           \/ closer[c] = "restorePty" /\ closer' = [closer EXCEPT ![c] = "closeTty"]
           \/ closer[c] = "closeTty" /\ closer' = [closer EXCEPT ![c] = "closePty"]
           \/ closer[c] = "closePty" /\ closer' = [closer EXCEPT ![c] = "done"]
<1>1. PICK i \in 1..4 : closer[c] = Steps[i] /\ closer' = [closer EXCEPT ![c] = Steps[i + 1]]
  BY DEF Advance
<1>2. CASE i = 1
  <2>1. i + 1 = 2
    BY <1>2
  <2> QED  BY <1>1, <1>2, <2>1, NamesOfSteps, Zenon
<1>3. CASE i = 2
  <2>1. i + 1 = 3
    BY <1>3
  <2> QED  BY <1>1, <1>3, <2>1, NamesOfSteps, Zenon
<1>4. CASE i = 3
  <2>1. i + 1 = 4
    BY <1>4
  <2> QED  BY <1>1, <1>4, <2>1, NamesOfSteps, Zenon
<1>5. CASE i = 4
  <2>1. i + 1 = 5
    BY <1>5
  <2> QED  BY <1>1, <1>5, <2>1, NamesOfSteps, Zenon
<1> QED  BY <1>2, <1>3, <1>4, <1>5

-----------------------------------------------------------------------------
(* Each operation of the pair keeps PairInv. *)
LEMMA OpenKeeps ==
    ASSUME PairInv, Open, \A c \in Closers : closer[c] = "no"
    PROVE  PairInv'
<1> USE DEF PairInv
<1>1. PICK raw \in [Ends -> BOOLEAN] :
         /\ state' = [pty |-> IF raw["pty"] THEN device ELSE "nil",
                      tty |-> IF ~raw["tty"] THEN "nil"
                              ELSE IF raw["pty"] THEN "raw" ELSE device]
         /\ device' = IF \E e \in Ends : raw[e] THEN "raw" ELSE device
  BY DEF Open
<1>2. /\ file' = [e \in Ends |-> "open"] /\ device = "cooked"
      /\ UNCHANGED <<reading, number, closer, stray>>
  BY DEF Open, Unopened
<1>3. PairTypeOK'
  BY <1>1, <1>2 DEF PairTypeOK, Ends
<1>4. Restorable'
  BY <1>1, <1>2 DEF Restorable, Ends, Past
<1>5. ClosedByClose' /\ Unopened' /\ DescriptorsOwn'
  BY <1>2 DEF ClosedByClose, Unopened, DescriptorsOwn, Freed, Ends
<1> QED  BY <1>3, <1>4, <1>5

LEMMA BeginCloseKeeps ==
    ASSUME NEW c \in Closers, PairInv, BeginClose(c)
    PROVE  PairInv'
<1> USE DEF PairInv, BeginClose
<1>0. closer' = [closer EXCEPT ![c] = "restoreTty"] /\ closer[c] = "no"
  BY NamesOfSteps
<1>1. PairTypeOK'
  BY <1>0, NamesOfSteps DEF PairTypeOK, StepNames
<1>2. Restorable'
  BY <1>0 DEF Restorable, PairTypeOK, Past
<1>3. ClosedByClose' /\ Unopened' /\ DescriptorsOwn'
  BY <1>0 DEF ClosedByClose, Unopened, DescriptorsOwn, Freed, PairTypeOK
<1> QED  BY <1>1, <1>2, <1>3

LEMMA RestoreModeKeeps ==
    ASSUME NEW c \in Closers, PairInv, RestoreMode(c)
    PROVE  PairInv'
<1> DEFINE e == EndOf[closer[c]]
<1> USE DEF PairInv
<1>1. \/ closer[c] = "restoreTty" /\ e = "tty" /\ closer' = [closer EXCEPT ![c] = "restorePty"]
      \/ closer[c] = "restorePty" /\ e = "pty" /\ closer' = [closer EXCEPT ![c] = "closeTty"]
  BY AdvanceTo DEF RestoreMode, EndOf
<1>2. /\ device' = IF state[e] # "nil" /\ Used(e) THEN state[e] ELSE device
      /\ state' = [state EXCEPT ![e] = "nil"]
      /\ stray' = IF state[e] # "nil" /\ ~Used(e) /\ number[e] = "reused"
                  THEN stray \cup {"restore"} ELSE stray
      /\ UNCHANGED <<file, reading, number>>
  BY DEF RestoreMode
<1>3. e \in Ends
  BY <1>1 DEF Ends
<1>4. state[e] # "nil" => Used(e)
  BY <1>3 DEF Used, Restorable, ClosedByClose, Freed, Past, Ends
<1>5. /\ device' = IF state[e] # "nil" THEN state[e] ELSE device
      /\ stray' = stray
  BY <1>2, <1>4
<1> HIDE DEF e
<1>6. PairTypeOK'
  BY <1>1, <1>2, <1>3, <1>5, NamesOfSteps DEF PairTypeOK, StepNames
<1>7. Restorable'
  BY <1>1, <1>2, <1>3, <1>5 DEF Restorable, PairTypeOK, Past, Ends
<1>8. ClosedByClose' /\ Unopened'
  BY <1>1, <1>2, <1>3, <1>5 DEF ClosedByClose, Unopened, Freed, PairTypeOK, Ends
<1>9. DescriptorsOwn'
  BY <1>1, <1>2, <1>5 DEF DescriptorsOwn, PairTypeOK
<1> QED  BY <1>6, <1>7, <1>8, <1>9

LEMMA CloseFileKeeps ==
    ASSUME NEW c \in Closers, PairInv, CloseFile(c)
    PROVE  PairInv'
<1> DEFINE e == EndOf[closer[c]]
<1> USE DEF PairInv
<1>1. \/ closer[c] = "closeTty" /\ e = "tty" /\ closer' = [closer EXCEPT ![c] = "closePty"]
      \/ closer[c] = "closePty" /\ e = "pty" /\ closer' = [closer EXCEPT ![c] = "done"]
  BY AdvanceTo DEF CloseFile, EndOf
<1>2. /\ \/ file' = file
         \/ file[e] = "open" /\ file' = [file EXCEPT ![e] = "closing"]
         \/ file[e] = "open" /\ file' = [file EXCEPT ![e] = "closed"]
      /\ UNCHANGED <<device, state, reading, number, stray>>
  BY DEF CloseFile
<1> HIDE DEF e
<1>3. PairTypeOK'
  BY <1>1, <1>2, NamesOfSteps DEF PairTypeOK, StepNames, Ends
<1>4. Restorable'
  BY <1>1, <1>2 DEF Restorable, PairTypeOK, Past
<1>5. ClosedByClose'
  BY <1>1, <1>2 DEF ClosedByClose, PairTypeOK, Freed, Ends
<1>6. Unopened'
  BY <1>1, <1>2 DEF Unopened, PairTypeOK, Ends
<1>7. DescriptorsOwn'
  BY <1>1, <1>2 DEF DescriptorsOwn, PairTypeOK
<1> QED  BY <1>3, <1>4, <1>5, <1>6, <1>7

LEMMA ReadKeeps ==
    ASSUME NEW e \in Ends, PairInv, BeginRead(e) \/ EndRead(e)
    PROVE  PairInv'
<1> USE DEF PairInv
<1>1. /\ file' = file \/ (file[e] = "closing" /\ file' = [file EXCEPT ![e] = "closed"])
      /\ reading' \in {reading \cup {e}, reading \ {e}}
      /\ UNCHANGED <<device, state, number, closer, stray>>
  BY DEF BeginRead, EndRead
<1>2. PairTypeOK'
  BY <1>1 DEF PairTypeOK
<1>3. Restorable' /\ DescriptorsOwn'
  BY <1>1 DEF Restorable, Past, DescriptorsOwn
<1>4. ClosedByClose' /\ Unopened'
  BY <1>1 DEF ClosedByClose, Unopened, Freed, PairTypeOK, Ends
<1> QED  BY <1>2, <1>3, <1>4

LEMMA ResizeKeeps ==
    ASSUME PairInv, Resize
    PROVE  PairInv'
<1> USE DEF PairInv, Resize
<1>1. PairTypeOK' /\ Restorable' /\ ClosedByClose' /\ Unopened'
  BY DEF PairTypeOK, Restorable, Past, ClosedByClose, Freed, Unopened
<1>2. DescriptorsOwn'
  BY DEF DescriptorsOwn, ClosedByClose, Freed, Used
<1> QED  BY <1>1, <1>2

LEMMA ReuseKeeps ==
    ASSUME NEW e \in Ends, PairInv, Reuse(e)
    PROVE  PairInv'
BY DEF PairInv, Reuse, PairTypeOK, Restorable, Past, ClosedByClose, Freed, Unopened,
       DescriptorsOwn

LEMMA PairStutter ==
    ASSUME PairInv, UNCHANGED pairVars
    PROVE  PairInv'
BY DEF PairInv, pairVars, PairTypeOK, Restorable, Past, ClosedByClose, Freed, Unopened,
       DescriptorsOwn

-----------------------------------------------------------------------------
(* The invariant holds initially, and every step keeps it. *)
LEMMA FollowingDomain ==
    /\ DOMAIN Following = {"Init", "Stdout", "Stderr", "Stdin"}
    /\ \A m \in DOMAIN Following : Following[m] \in DOMAIN Following \cup {"Start"}
BY DEF Following

LEMMA InitInv == Init => REPLInv
<1> SUFFICES ASSUME Init PROVE REPLInv
  OBVIOUS
<1> USE DEF Init, PairInit
<1>1. PairTypeOK
  BY DEF PairTypeOK, Ends
<1>2. Restorable /\ ClosedByClose /\ Unopened /\ DescriptorsOwn
  BY DEF Restorable, Past, ClosedByClose, Freed, Unopened, DescriptorsOwn, Ends
<1>3. TypeOK
  <2>1. exitCode \in Codes /\ answer \in [kind : {"none", "ok"}, status : Codes]
    BY DEF Codes
  <2>2. typed \in 0..MaxTyped
    BY REPLAssumption
  <2> QED  BY <1>1, <2>1, <2>2, FollowingDomain DEF TypeOK
<1>4. LoopInv
  BY <1>3, REPLAssumption, FollowingDomain
     DEF LoopInv, Placed, Told, QuietCancel, Preparing, Ends
<1> QED  BY <1>1, <1>2, <1>4 DEF REPLInv, PairInv

LEMMA PairNext == REPLInv /\ [Next]_vars => PairInv'
<1> SUFFICES ASSUME REPLInv, [Next]_vars PROVE PairInv'
  OBVIOUS
<1> USE DEF REPLInv
<1>1. CASE UNCHANGED pairVars
  BY <1>1, PairStutter
<1>2. CASE Start /\ Open
  BY <1>2, OpenKeeps DEF Start, LoopInv, Placed, Preparing
<1>3. ASSUME NEW c \in Closers, BeginClose(c) \/ Close(c)
      PROVE  PairInv'
  BY <1>3, BeginCloseKeeps, RestoreModeKeeps, CloseFileKeeps DEF Close
<1>4. ASSUME NEW e \in Ends, BeginRead(e) \/ EndRead(e) \/ Reuse(e)
      PROVE  PairInv'
  BY <1>4, ReadKeeps, ReuseKeeps
<1>5. CASE Resize
  BY <1>5, ResizeKeeps
<1>6. /\ "loop" \in Closers /\ "cleanup" \in Closers
      /\ "pty" \in Ends /\ "tty" \in Ends
  BY REPLAssumption DEF Ends
<1>7. CASE Run
  <2>1. CASE Setup  BY <2>1, <1>1 DEF Setup
  <2>2. CASE Start  BY <2>2, <1>1, <1>2 DEF Start
  <2>3. CASE WaitLoop  BY <2>3, <1>1 DEF WaitLoop
  <2> QED  BY <1>7, <2>1, <2>2, <2>3 DEF Run
<1>8. CASE Loop
  <2>1. CASE Check  BY <2>1, <1>1 DEF Check
  <2>2. CASE ReadLine  BY <2>2, <1>1, <1>4, <1>6 DEF ReadLine
  <2>3. CASE LineRead  BY <2>3, <1>1, <1>4, <1>6 DEF LineRead
  <2>4. CASE UseLine  BY <2>4, <1>1 DEF UseLine
  <2>5. CASE CallLoop  BY <2>5, <1>1 DEF CallLoop
  <2>6. CASE ClosePair  BY <2>6, <1>3, <1>6 DEF ClosePair
  <2>7. CASE LoopDone  BY <2>7, <1>1 DEF LoopDone
  <2> QED  BY <1>8, <2>1, <2>2, <2>3, <2>4, <2>5, <2>6, <2>7 DEF Loop
<1>9. CASE Cleanup
  <2>1. CASE ClosePipes  BY <2>1, <1>1 DEF ClosePipes
  <2>2. CASE UnhangHack  BY <2>2, <1>1 DEF UnhangHack
  <2>3. CASE CleanupClose  BY <2>3, <1>3, <1>6 DEF CleanupClose
  <2>4. CASE CleanupDone  BY <2>4, <1>1 DEF CleanupDone
  <2> QED  BY <1>9, <2>1, <2>2, <2>3, <2>4 DEF Cleanup
<1>10. CASE CancelWorker  BY <1>10, <1>1 DEF CancelWorker
<1>11. CASE Typed  BY <1>11, <1>1 DEF Typed
<1>12. CASE ReadOutput  BY <1>12, <1>4, <1>6 DEF ReadOutput
<1>13. CASE OutputRead  BY <1>13, <1>4, <1>6 DEF OutputRead
<1>14. CASE ResizeOrReuse  BY <1>14, <1>4, <1>5 DEF ResizeOrReuse
<1>15. CASE UNCHANGED vars  BY <1>15, <1>1 DEF vars
<1> QED
  BY <1>7, <1>8, <1>9, <1>10, <1>11, <1>12, <1>13, <1>14, <1>15 DEF Next

LEMMA TypeNext == TypeOK /\ PairTypeOK' /\ [Next]_vars => TypeOK'
<1> SUFFICES ASSUME TypeOK, PairTypeOK', [Next]_vars PROVE TypeOK'
  OBVIOUS
<1> USE FollowingDomain DEF TypeOK, run, reads, input
<1>1. CASE Run
  <2>1. CASE Setup  BY <2>1 DEF Setup
  <2>2. CASE Start  BY <2>2 DEF Start
  <2>3. CASE WaitLoop  BY <2>3 DEF WaitLoop
  <2> QED  BY <1>1, <2>1, <2>2, <2>3 DEF Run
<1>2. CASE Loop
  <2>1. CASE Check
    <3>1. shown' \in BOOLEAN
      BY <2>1, Zenon DEF Check
    <3> QED  BY <2>1, <3>1 DEF Check, Over
  <2>2. CASE ReadLine  BY <2>2 DEF ReadLine
  <2>3. CASE LineRead
    <3>1. typed' \in 0..MaxTyped
      BY <2>3, REPLAssumption DEF LineRead
    <3> QED  BY <2>3, <3>1 DEF LineRead, Pasted
  <2>4. CASE UseLine  BY <2>4 DEF UseLine, Over, Codes, ReadFailed
  <2>5. CASE CallLoop  BY <2>5 DEF CallLoop, Over, Codes
  <2>6. CASE ClosePair  BY <2>6 DEF ClosePair
  <2>7. CASE LoopDone  BY <2>7 DEF LoopDone
  <2> QED  BY <1>2, <2>1, <2>2, <2>3, <2>4, <2>5, <2>6, <2>7 DEF Loop
<1>3. CASE Cleanup
  <2>1. CASE ClosePipes  BY <2>1 DEF ClosePipes
  <2>2. CASE UnhangHack  BY <2>2 DEF UnhangHack
  <2>3. CASE CleanupClose  BY <2>3 DEF CleanupClose
  <2>4. CASE CleanupDone  BY <2>4 DEF CleanupDone
  <2> QED  BY <1>3, <2>1, <2>2, <2>3, <2>4 DEF Cleanup
<1>4. CASE CancelWorker  BY <1>4 DEF CancelWorker
<1>5. CASE Typed
  <2>1. typed' \in 0..MaxTyped
    BY <1>5, REPLAssumption DEF Typed
  <2>2. UNCHANGED eof \/ eof' = TRUE
    BY <1>5 DEF Typed
  <2>3. eof' \in BOOLEAN
    BY <2>2, Zenon
  <2>4. UNCHANGED <<pty, run, reads, cancelled, stdin, shown, hack, clean>>
    BY <1>5 DEF Typed
  <2> QED  BY <2>1, <2>3, <2>4
<1>6. CASE ReadOutput  BY <1>6 DEF ReadOutput
<1>7. CASE OutputRead
  <2>1. /\ shown' = FALSE
        /\ UNCHANGED <<pty, run, reads, cancelled, stdin, input, hack, clean>>
    BY <1>7 DEF OutputRead
  <2>2. shown' \in BOOLEAN
    BY <2>1, Zenon
  <2> QED  BY <2>1, <2>2
<1>8. CASE ResizeOrReuse  BY <1>8 DEF ResizeOrReuse
<1>9. CASE UNCHANGED vars  BY <1>9 DEF vars
<1> QED
  BY <1>1, <1>2, <1>3, <1>4, <1>5, <1>6, <1>7, <1>8, <1>9 DEF Next

LEMMA CloseFacts ==
    ASSUME PairTypeOK, NEW c \in Closers, BeginClose(c) \/ Close(c)
    PROVE  /\ \A d \in Closers \ {c} : closer'[d] = closer[d]
           /\ file'["pty"] = "nil" <=> file["pty"] = "nil"
<1>1. PICK v : closer' = [closer EXCEPT ![c] = v]
  BY AdvanceTo DEF BeginClose, Close, RestoreMode, CloseFile
<1>2. \/ file' = file
      \/ \E e \in Ends : file[e] = "open" /\ \E f \in {"closing", "closed"} :
             file' = [file EXCEPT ![e] = f]
  <2>1. CASE BeginClose(c) \/ RestoreMode(c)
    BY <2>1 DEF BeginClose, RestoreMode
  <2>2. CASE CloseFile(c)
    <3>1. EndOf[closer[c]] \in Ends
      BY <2>2, AdvanceTo DEF CloseFile, EndOf, Ends
    <3> QED  BY <2>2, <3>1 DEF CloseFile
  <2> QED  BY <2>1, <2>2 DEF Close
<1> QED  BY <1>1, <1>2 DEF PairTypeOK, Ends

LEMMA ReadFacts ==
    ASSUME PairTypeOK, NEW e \in Ends, BeginRead(e) \/ EndRead(e) \/ Reuse(e)
    PROVE  /\ closer' = closer
           /\ file'["pty"] = "nil" <=> file["pty"] = "nil"
BY DEF BeginRead, EndRead, Reuse, PairTypeOK, Ends

LEMMA PlacedNext == REPLInv /\ [Next]_vars => Placed'
<1> SUFFICES ASSUME REPLInv, [Next]_vars PROVE Placed'
  OBVIOUS
<1> USE FollowingDomain DEF Placed, Preparing
<1>0. TypeOK /\ PairTypeOK /\ Placed
  BY DEF REPLInv, LoopInv, PairInv
<1>a. /\ "loop" \in Closers /\ "cleanup" \in Closers /\ Closers = {"loop", "cleanup"}
      /\ "pty" \in Ends /\ "tty" \in Ends
  BY REPLAssumption DEF Ends
<1>1. CASE Setup  BY <1>0, <1>1 DEF Setup, pairVars, reads, run
<1>2. CASE Start  BY <1>0, <1>2 DEF Start, Open, pairVars, reads, run, Ends
<1>3. CASE WaitLoop  BY <1>0, <1>3 DEF WaitLoop, pairVars, reads, run
<1>4. CASE Check  BY <1>0, <1>4 DEF Check, Over, pairVars, run
<1>5. CASE ReadLine  BY <1>0, <1>a, <1>5, ReadFacts DEF ReadLine, pairVars, run
<1>6. CASE LineRead  BY <1>0, <1>a, <1>6, ReadFacts DEF LineRead, pairVars, run
<1>7. CASE UseLine  BY <1>0, <1>7 DEF UseLine, Over, pairVars, run
<1>8. CASE CallLoop  BY <1>0, <1>8 DEF CallLoop, Over, pairVars, run
<1>9. CASE ClosePair  BY <1>0, <1>a, <1>9, CloseFacts DEF ClosePair, reads, run
<1>10. CASE LoopDone  BY <1>0, <1>10 DEF LoopDone, pairVars, run
<1>11. CASE ClosePipes  BY <1>0, <1>11 DEF ClosePipes, pairVars, reads, run
<1>12. CASE UnhangHack  BY <1>0, <1>12 DEF UnhangHack, pairVars, reads, run
<1>13. CASE CleanupClose  BY <1>0, <1>a, <1>13, CloseFacts DEF CleanupClose, reads, run
<1>14. CASE CleanupDone  BY <1>0, <1>14 DEF CleanupDone, pairVars, reads, run
<1>15. CASE CancelWorker  BY <1>0, <1>15 DEF CancelWorker, pairVars, reads, run
<1>16. CASE Typed  BY <1>0, <1>16 DEF Typed, pairVars, reads, run
<1>17. CASE ReadOutput  BY <1>0, <1>a, <1>17, ReadFacts DEF ReadOutput, reads, run
<1>18. CASE OutputRead  BY <1>0, <1>a, <1>18, ReadFacts DEF OutputRead, reads, run
<1>19. CASE ResizeOrReuse
  BY <1>0, <1>19, ReadFacts DEF ResizeOrReuse, Resize, reads, run
<1>20. CASE UNCHANGED vars  BY <1>0, <1>20 DEF vars, pairVars, reads, run
<1> QED
  BY <1>1, <1>2, <1>3, <1>4, <1>5, <1>6, <1>7, <1>8, <1>9, <1>10, <1>11, <1>12, <1>13,
     <1>14, <1>15, <1>16, <1>17, <1>18, <1>19, <1>20 DEF Next, Run, Loop, Cleanup

(* Only Cleanup closes the terminal while the loop reads. *)
LEMMA ClosedByCleanup ==
    ASSUME REPLInv, loop \notin {"no", "close", "done"}, Freed("tty") \/ Freed("pty")
    PROVE  cancelled
<1>1. PICK c \in Closers : closer[c] # "no"
  BY DEF REPLInv, PairInv, ClosedByClose
<1>2. c = "cleanup"
  BY <1>1, REPLAssumption DEF REPLInv, LoopInv, Placed
<1> QED  BY <1>1, <1>2 DEF REPLInv, LoopInv, Placed, Told

LEMMA ToldNext == REPLInv /\ [Next]_vars => Told'
<1> SUFFICES ASSUME REPLInv, [Next]_vars PROVE Told'
  OBVIOUS
<1> USE DEF Told
<1>0. TypeOK /\ PairInv /\ Placed /\ Told
  BY DEF REPLInv, LoopInv
<1>1. CASE Setup  BY <1>0, <1>1 DEF Setup, reads
<1>2. CASE Start  BY <1>0, <1>2 DEF Start, Placed, Preparing
<1>3. CASE WaitLoop  BY <1>0, <1>3 DEF WaitLoop, reads
<1>4. CASE Check  BY <1>0, <1>4 DEF Check, Over
<1>5. CASE ReadLine
  <2>1. CASE pty /\ file["tty"] # "open"
    <3>1. file["tty"] # "nil"
      BY <1>0, <1>5, <2>1 DEF ReadLine, Placed, PairInv, Unopened
    <3>2. Freed("tty")
      BY <1>0, <2>1, <3>1 DEF PairInv, PairTypeOK, Freed, Ends
    <3> QED  BY <1>0, <1>5, <2>1, <3>2, ClosedByCleanup DEF ReadLine
  <2>2. CASE ~(pty /\ file["tty"] # "open")
    BY <1>0, <1>5, <2>2 DEF ReadLine
  <2> QED  BY <2>1, <2>2
<1>6. CASE LineRead
  <2>1. CASE pty /\ HungUp
    <3>1. Freed("pty")
      BY <2>1 DEF HungUp, Freed
    <3> QED  BY <1>0, <1>6, <3>1, ClosedByCleanup DEF LineRead, Pasted
  <2>2. CASE ~pty /\ HungUp
    BY <1>0, <1>6, <2>2 DEF LineRead, Pasted, HungUp
  <2>3. CASE ~HungUp
    BY <1>0, <1>6, <2>3 DEF LineRead, Pasted
  <2> QED  BY <2>1, <2>2, <2>3
<1>7. CASE UseLine  BY <1>0, <1>7 DEF UseLine, Over
<1>8. CASE CallLoop  BY <1>0, <1>8 DEF CallLoop, Over
<1>9. CASE ClosePair  BY <1>0, <1>9 DEF ClosePair, reads
<1>10. CASE LoopDone  BY <1>0, <1>10 DEF LoopDone
<1>11. CASE ClosePipes  BY <1>0, <1>11 DEF ClosePipes, reads
<1>12. CASE UnhangHack  BY <1>0, <1>12 DEF UnhangHack, reads
<1>13. CASE CleanupClose  BY <1>0, <1>13 DEF CleanupClose, reads
<1>14. CASE CleanupDone  BY <1>0, <1>14 DEF CleanupDone, reads
<1>15. CASE CancelWorker  BY <1>0, <1>15 DEF CancelWorker, reads
<1>16. CASE Typed  BY <1>0, <1>16 DEF Typed, reads
<1>17. CASE ReadOutput  BY <1>0, <1>17 DEF ReadOutput, reads
<1>18. CASE OutputRead  BY <1>0, <1>18 DEF OutputRead, reads
<1>19. CASE ResizeOrReuse  BY <1>0, <1>19 DEF ResizeOrReuse, reads
<1>20. CASE UNCHANGED vars  BY <1>0, <1>20 DEF vars, reads
<1> QED
  BY <1>1, <1>2, <1>3, <1>4, <1>5, <1>6, <1>7, <1>8, <1>9, <1>10, <1>11, <1>12, <1>13,
     <1>14, <1>15, <1>16, <1>17, <1>18, <1>19, <1>20 DEF Next, Run, Loop, Cleanup

(* The exit code and the context of the loop change in few places, and what a read gave
   only before the code is 255.                                                         *)
LEMMA QuietNext == REPLInv /\ [Next]_vars => QuietCancel'
<1> SUFFICES ASSUME REPLInv, [Next]_vars PROVE QuietCancel'
  OBVIOUS
<1> USE DEF QuietCancel
<1>0. TypeOK /\ Told /\ Placed /\ QuietCancel
  BY DEF REPLInv, LoopInv
<1>1. CASE UseLine
  BY <1>0, <1>1 DEF UseLine, Recheck, ReadFailed, Told
<1>2. CASE CallLoop
  <2>1. exitCode' \in LoopCodes \/ UNCHANGED exitCode
    BY <1>2 DEF CallLoop
  <2>2. 255 \notin LoopCodes
    BY REPLAssumption
  <2> QED  BY <1>0, <1>2, <2>1, <2>2 DEF CallLoop
<1>3. CASE CancelWorker
  BY <1>0, <1>3 DEF CancelWorker, reads, Told
<1>4. CASE ReadLine \/ LineRead
  BY <1>0, <1>4 DEF ReadLine, LineRead, Told
<1>5. CASE UNCHANGED <<pty, got, exitCode, cancelled>>
  BY <1>0, <1>5
<1>6. \/ UseLine \/ CallLoop \/ CancelWorker \/ ReadLine \/ LineRead
      \/ UNCHANGED <<pty, got, exitCode, cancelled>>
  BY DEF Next, Run, Setup, Start, WaitLoop, Loop, Check, ClosePair, LoopDone,
         Cleanup, ClosePipes, UnhangHack, CleanupClose, CleanupDone, Typed,
         ReadOutput, OutputRead, ResizeOrReuse, vars, reads
<1> QED  BY <1>1, <1>2, <1>3, <1>4, <1>5, <1>6

-----------------------------------------------------------------------------
(* The invariant of the two parts together holds in every reachable state. *)
THEOREM Invariance == Spec => []REPLInv
<1>1. REPLInv /\ [Next]_vars => REPLInv'
  <2>1. REPLInv /\ [Next]_vars => TypeOK'
    BY PairNext, TypeNext DEF REPLInv, PairInv, LoopInv
  <2> QED  BY <2>1, PairNext, PlacedNext, ToldNext, QuietNext DEF REPLInv, LoopInv
<1> QED  BY <1>1, InitInv, PTL DEF Spec

(* Every variable of the Process and of its terminal stays in its type. *)
THEOREM TypeCorrect == Spec => []TypeOK
<1>1. REPLInv => TypeOK
  BY DEF REPLInv, LoopInv
<1> QED  BY <1>1, Invariance, PTL

(* Once a thread that closes the terminal has restored it, the device has its
   original modes and keeps them, whatever the other thread does.              *)
THEOREM Restores == Spec => []ModesRestored
<1>1. REPLInv => ModesRestored
  BY DEF REPLInv, PairInv, PairTypeOK, Restorable, ModesRestored
<1> QED  BY <1>1, Invariance, PTL

(* No modes are set on the file of somebody else, and a window change reaches one
   only after the terminal was closed.                                            *)
THEOREM KeepsToOwnFiles == Spec => []DescriptorsOwn
<1>1. REPLInv => DescriptorsOwn
  BY DEF REPLInv, PairInv
<1> QED  BY <1>1, Invariance, PTL

(* What Cleanup closes under a read is not reported as a failed input by a loop over
   a terminal, and by one over pipes only when it was cancelled.                     *)
THEOREM CancelsQuietly == Spec => []QuietCancel
<1>1. REPLInv => QuietCancel
  BY DEF REPLInv, LoopInv
<1> QED  BY <1>1, Invariance, PTL

-----------------------------------------------------------------------------
(* A step of the REPL is one of the contract's, or changes nothing it speaks of. *)
LEMMA CallsInit == Init => Contract!Init
BY DEF Init, Contract!Init, Contract!Waiting

LEMMA CallsNext == REPLInv /\ [Next]_vars => [Contract!Next]_(Contract!contractVars)
<1> SUFFICES ASSUME REPLInv, [Next]_vars PROVE [Contract!Next]_(Contract!contractVars)
  OBVIOUS
<1> USE DEF Contract!contractVars
<1>0. TypeOK /\ Placed
  BY DEF REPLInv, LoopInv
<1>1. CASE Setup
  <2>1. CASE pc' = "failed"
    BY <1>0, <1>1, <2>1, FollowingDomain
       DEF Setup, Placed, Preparing, reads, Contract!Next, Contract!Begin
  <2>2. CASE pc' # "failed"
    BY <1>0, <1>1, <2>2, FollowingDomain DEF Setup, reads
  <2> QED  BY <2>1, <2>2
<1>2. CASE Start
  BY <1>0, <1>2, FollowingDomain DEF Start, Placed, Preparing, Contract!Next, Contract!Begin
<1>3. CASE WaitLoop
  BY <1>0, <1>3 DEF WaitLoop, Placed, reads, Contract!Next, Contract!Result, Contract!Waiting
<1>4. CASE Check  BY <1>4 DEF Check, Over, run
<1>5. CASE ReadLine  BY <1>5 DEF ReadLine, run
<1>6. CASE LineRead  BY <1>6 DEF LineRead, run
<1>7. CASE UseLine  BY <1>7 DEF UseLine, Over, run
<1>8. CASE CallLoop  BY <1>8 DEF CallLoop, Over, run
<1>9. CASE ClosePair  BY <1>9 DEF ClosePair, reads, run
<1>10. CASE LoopDone
  BY <1>0, <1>10 DEF LoopDone, run, TypeOK, Contract!Next, Contract!End
<1>11. CASE ClosePipes  BY <1>11 DEF ClosePipes, reads, run
<1>12. CASE UnhangHack  BY <1>12 DEF UnhangHack, reads, run
<1>13. CASE CleanupClose  BY <1>13 DEF CleanupClose, reads, run
<1>14. CASE CleanupDone
  BY <1>14 DEF CleanupDone, reads, run, Contract!Next, Contract!CleanedUp
<1>15. CASE CancelWorker
  BY <1>15 DEF CancelWorker, reads, run, Contract!Next, Contract!CallCleanup
<1>16. CASE Typed  BY <1>16 DEF Typed, reads, run
<1>17. CASE ReadOutput  BY <1>17 DEF ReadOutput, reads, run
<1>18. CASE OutputRead  BY <1>18 DEF OutputRead, reads, run
<1>19. CASE ResizeOrReuse  BY <1>19 DEF ResizeOrReuse, reads, run
<1>20. CASE UNCHANGED vars  BY <1>20 DEF vars, reads, run
<1> QED
  BY <1>1, <1>2, <1>3, <1>4, <1>5, <1>6, <1>7, <1>8, <1>9, <1>10, <1>11, <1>12, <1>13,
     <1>14, <1>15, <1>16, <1>17, <1>18, <1>19, <1>20 DEF Next, Run, Loop, Cleanup

(* The REPL implements the calls of a Process: Wait answers only when the loop has
   ended, with the code it left, and no method is called out of order.             *)
THEOREM ImplementsCalls == Spec => KeepsCalls
BY CallsInit, CallsNext, Invariance, PTL DEF Spec, KeepsCalls, Contract!Calls
=============================================================================
