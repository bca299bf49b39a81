------------------------------- MODULE TermPair -------------------------------
(***************************************************************************)
(* internal/term: a pseudo terminal as a pair of files, the master (pty)   *)
(* and the slave (tty) of one device.  Several threads close it, each by   *)
(* restoring the modes of both ends and closing both files; none waits for *)
(* the others.  newTerminal asks each file for its descriptor, so reads of *)
(* it block in the kernel: Close marks the file, and the descriptor is     *)
(* released once no read is in progress.  Another file may then get its    *)
(* number.  The kernel and package os are external.                        *)
(***************************************************************************)
EXTENDS Naturals

CONSTANT Closers   \* the threads that close the pair

Ends == {"pty", "tty"}

VARIABLES
    device,   \* the modes of the device: "cooked" or "raw"
    state,    \* state[e]: the modes RestoreMode puts back, or "nil"
    file,     \* file[e]: "nil", "open", "closing" (a read holds it) or "closed"
    reading,  \* the ends that a read in progress holds
    number,   \* number[e]: is the descriptor's number "own" or "reused"?
    closer,   \* closer[c]: the step of Close that c is at
    stray     \* what was done to the file of somebody else

pairVars == <<device, state, file, reading, number, closer, stray>>

PairInit ==
    /\ device = "cooked"
    /\ state = [e \in Ends |-> "nil"] /\ file = [e \in Ends |-> "nil"]
    /\ reading = {} /\ number = [e \in Ends |-> "own"]
    /\ closer = [c \in Closers |-> "no"] /\ stray = {}

-----------------------------------------------------------------------------
(* Open puts the pty and then the tty into raw mode; each may fail, unnoticed,
   and what the tty has to put back are the modes that the pty left.           *)
Open ==
    /\ file["pty"] = "nil"
    /\ file' = [e \in Ends |-> "open"]
    /\ \E raw \in [Ends -> BOOLEAN] :
          /\ state' = [pty |-> IF raw["pty"] THEN device ELSE "nil",
                       tty |-> IF ~raw["tty"] THEN "nil"
                               ELSE IF raw["pty"] THEN "raw" ELSE device]
          /\ device' = IF \E e \in Ends : raw[e] THEN "raw" ELSE device
    /\ UNCHANGED <<reading, number, closer, stray>>

Steps == <<"restoreTty", "restorePty", "closeTty", "closePty", "done">>

BeginClose(c) ==
    /\ closer[c] = "no"
    /\ closer' = [closer EXCEPT ![c] = Steps[1]]
    /\ UNCHANGED <<device, state, file, reading, number, stray>>

(* The end that each step of Close is about. *)
PtyFirst == [restoreTty |-> "pty", restorePty |-> "tty",   \* mutant: in the order of Open
             closeTty |-> "tty", closePty |-> "pty"]
EndOf == [restoreTty |-> "tty", restorePty |-> "pty",
          closeTty |-> "tty", closePty |-> "pty"]

Advance(c) ==
    \E i \in 1..4 : closer[c] = Steps[i] /\ closer' = [closer EXCEPT ![c] = Steps[i + 1]]

(* RestoreMode is one step: it holds the end's lock while it looks at the state,
   restores, and clears it.                                                      *)
Used(e) == file[e] # "closed"

RestoreKept(c) ==   \* mutant: the modes are not cleared once they are restored
    /\ closer[c] \in {"restoreTty", "restorePty"}
    /\ LET e == EndOf[closer[c]] IN
       /\ device' = IF state[e] # "nil" /\ Used(e) THEN state[e] ELSE device
       /\ stray' = IF state[e] # "nil" /\ ~Used(e) /\ number[e] = "reused"
                   THEN stray \cup {"restore"} ELSE stray
    /\ Advance(c)
    /\ UNCHANGED <<state, file, reading, number>>

RestoreMode(c) ==
    /\ closer[c] \in {"restoreTty", "restorePty"}
    /\ LET e == EndOf[closer[c]] IN
       /\ device' = IF state[e] # "nil" /\ Used(e) THEN state[e] ELSE device
       /\ stray' = IF state[e] # "nil" /\ ~Used(e) /\ number[e] = "reused"
                   THEN stray \cup {"restore"} ELSE stray
       /\ state' = [state EXCEPT ![e] = "nil"]
    /\ Advance(c)
    /\ UNCHANGED <<file, reading, number>>

CloseFile(c) ==
    /\ closer[c] \in {"closeTty", "closePty"}
    /\ LET e == EndOf[closer[c]] IN
       file' = IF file[e] # "open" THEN file
               ELSE [file EXCEPT ![e] = IF e \in reading THEN "closing" ELSE "closed"]
    /\ Advance(c)
    /\ UNCHANGED <<device, state, reading, number, stray>>

Close(c) == RestoreMode(c) \/ CloseFile(c)

(* A read of an open end holds its descriptor until it returns. *)
BeginRead(e) ==
    /\ file[e] = "open"
    /\ reading' = reading \cup {e}
    /\ UNCHANGED <<device, state, file, number, closer, stray>>

EndRead(e) ==
    /\ e \in reading
    /\ reading' = reading \ {e}
    /\ file' = IF file[e] = "closing" THEN [file EXCEPT ![e] = "closed"] ELSE file
    /\ UNCHANGED <<device, state, number, closer, stray>>

(* Resize uses the number that newTerminal saw, whatever has become of it. *)
Resize ==
    /\ file["pty"] # "nil"
    /\ stray' = IF ~Used("pty") /\ number["pty"] = "reused"
                THEN stray \cup {"resize"} ELSE stray
    /\ UNCHANGED <<device, state, file, reading, number, closer>>

(* The system gives the number of a closed file to another one. *)
Reuse(e) ==
    /\ file[e] = "closed" /\ number[e] = "own"
    /\ number' = [number EXCEPT ![e] = "reused"]
    /\ UNCHANGED <<device, state, file, reading, closer, stray>>

-----------------------------------------------------------------------------
(* The values the variables of a pair can take. *)
PairTypeOK ==
    /\ device \in {"cooked", "raw"}
    /\ state \in [Ends -> {"nil", "cooked", "raw"}]
    /\ file \in [Ends -> {"nil", "open", "closing", "closed"}]
    /\ reading \subseteq Ends
    /\ number \in [Ends -> {"own", "reused"}]
    /\ closer \in [Closers -> {"no"} \cup {Steps[i] : i \in 1..5}]
    /\ stray \subseteq {"restore", "resize"}

(* Whoever of the threads that close a pair restores which end, the device has its
   original modes as soon as one of them is past RestoreMode, and keeps them.       *)
Past(c) == closer[c] \in {"closeTty", "closePty", "done"}

ModesRestored == (\E c \in Closers : Past(c)) => device = "cooked"

(* No mode is ever set on the file of somebody else, though any thread may close
   the pair while another restores it.  Resize has no such protection: after the
   pair was closed, and only then, it can reach the file that got the number.      *)
DescriptorsOwn ==
    /\ "restore" \notin stray
    /\ "resize" \in stray => \E c \in Closers : closer[c] = "done"
=============================================================================
