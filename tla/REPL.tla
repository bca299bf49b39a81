--------------------------------- MODULE REPL ---------------------------------
(***************************************************************************)
(* config/terminal: a Process that reads lines and hands each to a         *)
(* function of Go, over a terminal pair or over pipes.  Run starts the     *)
(* loop and waits for it; Cleanup cancels the loop's context, closes the   *)
(* pipes, writes bytes that should wake a reader of the terminal, and      *)
(* closes the pair, which the loop closes too.  The Session, which copies  *)
(* to and from the terminal or the pipes, is external, as is the line      *)
(* editor, and the function, which returns.                                *)
(***************************************************************************)
EXTENDS Integers, TermPair

CONSTANTS
    LoopCodes,   \* the codes the function can exit with; 255 marks a failed read
    MaxTyped     \* bound: lines typed and not yet read

ASSUME REPLAssumption ==
    /\ LoopCodes \subseteq 0..254 /\ MaxTyped \in Nat
    /\ Closers = {"loop", "cleanup"}

Codes == LoopCodes \cup {0, 255}

VARIABLES
    pty,        \* was a pty requested?
    pc,         \* the method Run is in, or how it ended
    answer,     \* what Wait returned
    loop,       \* the loop's place
    got,        \* what its last read gave: "line", "pasted", "eof" or "error"
    exitCode,   \* repl.exitCode
    cancelled,  \* is the context of the loop done?
    stdin,      \* the pipes: "open" or "closed"
    typed, eof, \* lines to be read, and whether input ends after them
    shown,      \* output that the Session has not read
    hack,       \* UnhangHack's bytes: "none", "sent" or "lost"
    clean       \* Cleanup: "no", "pipes", "hack", "close" or "done"

run   == <<pc, answer>>
reads == <<loop, got, exitCode>>
input == <<typed, eof>>
vars  == <<pairVars, pty, run, reads, cancelled, stdin, input, shown, hack, clean>>

Init ==
    /\ PairInit
    /\ pty \in BOOLEAN
    /\ pc = "Init" /\ answer = [kind |-> "none", status |-> 0]
    /\ loop = "no" /\ got = "line" /\ exitCode = 0 /\ cancelled = FALSE
    /\ stdin = "open" /\ typed = 0 /\ eof = FALSE
    /\ shown = FALSE /\ hack = "none" /\ clean = "no"

-----------------------------------------------------------------------------
(* Init does not fail; the methods of Pipes and the opening of a pair may. *)
Following == [Init |-> "Stdout", Stdout |-> "Stderr", Stderr |-> "Stdin", Stdin |-> "Start"]

Setup ==
    /\ pc \in DOMAIN Following
    /\ pc' \in {IF pty THEN "Start" ELSE Following[pc]}
               \cup (IF pc = "Init" THEN {} ELSE {"failed"})
    /\ UNCHANGED <<pairVars, pty, answer, reads, cancelled, stdin, input, shown, hack, clean>>

Start ==
    /\ pc = "Start"
    /\ \/ /\ pc' = "Wait" /\ loop' = "check"
          /\ IF pty THEN Open ELSE UNCHANGED pairVars
       \/ pty /\ pc' = "failed" /\ UNCHANGED <<pairVars, loop>>
    /\ UNCHANGED <<pty, answer, got, exitCode, cancelled, stdin, input, shown, hack, clean>>

WaitUnclosed ==   \* mutant: the channel is closed before the terminal
    /\ pc = "Wait" /\ loop \in {"close", "done"}
    /\ pc' = "returned" /\ answer' = [kind |-> "ok", status |-> exitCode]
    /\ UNCHANGED <<pairVars, pty, reads, cancelled, stdin, input, shown, hack, clean>>

WaitLoop ==
    /\ pc = "Wait" /\ loop = "done"
    /\ pc' = "returned" /\ answer' = [kind |-> "ok", status |-> exitCode]
    /\ UNCHANGED <<pairVars, pty, reads, cancelled, stdin, input, shown, hack, clean>>

Run == Setup \/ Start \/ WaitLoop

-----------------------------------------------------------------------------
(* The loop of a pty closes the pair before it is over. *)
Over == loop' = IF pty THEN "close" ELSE "last"

Check ==
    /\ loop = "check"
    /\ IF cancelled THEN Over /\ UNCHANGED shown ELSE loop' = "prompted" /\ shown' = TRUE
    /\ UNCHANGED <<pairVars, pty, run, got, exitCode, cancelled, stdin, input, hack, clean>>

ReadLine ==
    /\ loop = "prompted"
    /\ IF pty /\ file["tty"] # "open"
       THEN loop' = "got" /\ got' = "error" /\ UNCHANGED pairVars
       ELSE /\ loop' = "reading" /\ UNCHANGED got
            /\ IF pty THEN BeginRead("tty") ELSE UNCHANGED pairVars
    /\ UNCHANGED <<pty, run, exitCode, cancelled, stdin, input, shown, hack, clean>>

(* What ends a read: a line, which the editor of a terminal gives with an error when
   it was pasted; the end of input, typed, written by UnhangHack, or the last close of
   the other side; a pipe closed under it.  A terminal that lost its other side answers
   either way.                                                                         *)
HungUp == IF pty THEN file["pty"] = "closed" ELSE stdin = "closed"
Pasted == IF pty THEN {"pasted"} ELSE {}
AtEnd == (eof /\ typed = 0) \/ hack = "sent" \/ HungUp

LineRead ==
    /\ loop = "reading"
    /\ loop' = "got"
    /\ \/ typed > 0 /\ got' \in {"line"} \cup Pasted /\ typed' = typed - 1
       \/ AtEnd /\ got' = "eof" /\ UNCHANGED typed
       \/ HungUp /\ got' = "error" /\ UNCHANGED typed
    /\ IF pty THEN EndRead("tty") ELSE UNCHANGED pairVars
    /\ UNCHANGED <<pty, run, exitCode, cancelled, stdin, eof, shown, hack, clean>>

(* Only the loop of a pty looks at its context again. *)
Unchecked == FALSE   \* mutant: neither does
Recheck == pty /\ cancelled

NotSet == -1   \* mutant: a code no session can report
ReadFailed == 255

UseLine ==
    /\ loop = "got"
    /\ \/ Recheck /\ Over /\ UNCHANGED exitCode
       \/ ~Recheck /\ got = "line" /\ loop' = "call" /\ UNCHANGED exitCode
       \/ ~Recheck /\ got = "eof" /\ Over /\ UNCHANGED exitCode
       \/ ~Recheck /\ got \in {"pasted", "error"} /\ Over /\ exitCode' = ReadFailed
    /\ UNCHANGED <<pairVars, pty, run, got, cancelled, stdin, input, shown, hack, clean>>

CallLoop ==
    /\ loop = "call"
    /\ shown' = TRUE
    /\ \/ Over /\ exitCode' \in LoopCodes
       \/ loop' = "check" /\ UNCHANGED exitCode
    /\ UNCHANGED <<pairVars, pty, run, got, cancelled, stdin, input, hack, clean>>

ClosePair ==
    /\ loop = "close"
    /\ BeginClose("loop") \/ Close("loop")
    /\ UNCHANGED <<pty, run, reads, cancelled, stdin, input, shown, hack, clean>>

LoopDone ==
    /\ loop = "last" \/ (loop = "close" /\ closer["loop"] = "done")
    /\ loop' = "done"
    /\ UNCHANGED <<pairVars, pty, run, got, exitCode, cancelled, stdin, input, shown, hack, clean>>

Loop == Check \/ ReadLine \/ LineRead \/ UseLine \/ CallLoop \/ ClosePair \/ LoopDone

-----------------------------------------------------------------------------
(* Cleanup follows a failed start, a Wait that returned, or the context's end. *)
CancelWorker ==
    /\ clean = "no" /\ pc \in {"failed", "Wait", "returned"}
    /\ clean' = "pipes"
    /\ cancelled' = (loop # "no")
    /\ UNCHANGED <<pairVars, pty, run, reads, stdin, input, shown, hack>>

ClosePipes ==
    /\ clean = "pipes" /\ clean' = "hack"
    /\ stdin' = "closed"
    /\ UNCHANGED <<pairVars, pty, run, reads, cancelled, input, shown, hack>>

(* "in practice these calls may or may not work" (internal/term/pair.go:90). *)
CloseOnly ==   \* mutant: the reader is not woken
    /\ clean = "hack" /\ clean' = "close"
    /\ UNCHANGED <<pairVars, pty, run, reads, cancelled, stdin, input, shown, hack>>

UnhangHack ==
    /\ clean = "hack" /\ clean' = "close"
    /\ hack' \in IF file["pty"] = "open" THEN {"sent", "lost"} ELSE {"none"}
    /\ UNCHANGED <<pairVars, pty, run, reads, cancelled, stdin, input, shown>>

CleanupClose ==
    /\ clean = "close" /\ pty
    /\ BeginClose("cleanup") \/ Close("cleanup")
    /\ UNCHANGED <<pty, run, reads, cancelled, stdin, input, shown, hack, clean>>

CleanupDone ==
    /\ clean = "close" /\ clean' = "done"
    /\ pty => closer["cleanup"] = "done"
    /\ UNCHANGED <<pairVars, pty, run, reads, cancelled, stdin, input, shown, hack>>

Cleanup == ClosePipes \/ UnhangHack \/ CleanupClose \/ CleanupDone

-----------------------------------------------------------------------------
(* The Session types, ends its input, and reads the output of a pty. *)
Typed ==
    /\ pc = "Wait" /\ ~eof
    /\ IF pty THEN file["pty"] = "open" ELSE stdin = "open"
    /\ \/ typed < MaxTyped /\ typed' = typed + 1 /\ UNCHANGED eof
       \/ eof' = TRUE /\ UNCHANGED typed
    /\ UNCHANGED <<pairVars, pty, run, reads, cancelled, stdin, shown, hack, clean>>

ReadOutput ==
    /\ pty /\ BeginRead("pty")
    /\ UNCHANGED <<pty, run, reads, cancelled, stdin, input, shown, hack, clean>>

OutputRead ==
    /\ shown \/ file["tty"] = "closed"
    /\ EndRead("pty")
    /\ shown' = FALSE
    /\ UNCHANGED <<pty, run, reads, cancelled, stdin, input, hack, clean>>

(* Window changes and other files come at any time. *)
ResizeOrReuse ==
    /\ Resize \/ \E e \in Ends : Reuse(e)
    /\ UNCHANGED <<pty, run, reads, cancelled, stdin, input, shown, hack, clean>>

Next ==
    \/ Run \/ Loop \/ CancelWorker \/ Cleanup
    \/ Typed \/ ReadOutput \/ OutputRead \/ ResizeOrReuse

Spec == Init /\ [][Next]_vars

(* Run, the loop and Cleanup run on, and a read that can return does. *)
FairSpec ==
    Spec /\ WF_vars(Run) /\ WF_vars(Loop) /\ WF_vars(Cleanup) /\ WF_vars(OutputRead)

-----------------------------------------------------------------------------
(* The values the variables of the Process can take. *)
TypeOK ==
    /\ PairTypeOK
    /\ pty \in BOOLEAN
    /\ pc \in DOMAIN Following \cup {"Start", "Wait", "failed", "returned"}
    /\ answer \in [kind : {"none", "ok"}, status : Codes]
    /\ loop \in {"no", "check", "prompted", "reading", "got", "call", "close", "last", "done"}
    /\ got \in {"line", "pasted", "eof", "error"} /\ exitCode \in Codes
    /\ cancelled \in BOOLEAN /\ stdin \in {"open", "closed"}
    /\ typed \in 0..MaxTyped /\ eof \in BOOLEAN /\ shown \in BOOLEAN
    /\ hack \in {"none", "sent", "lost"}
    /\ clean \in {"no", "pipes", "hack", "close", "done"}

(* Closing the terminal or the pipes under a read is not taken for a failure of the
   input: on a terminal never, where only a pasted line is one, on pipes only by a
   loop that did not look at its context again.                                     *)
QuietCancel == exitCode = 255 => got = "pasted" \/ (~pty /\ cancelled)

(* Once Cleanup is done the loop ends, Wait returns and, with a terminal, both its
   files are released.  The exception is the bytes of UnhangHack not arriving: the
   loop waits in a read of the tty for the pty to be closed, and the Session in a
   read of the pty for the tty to be closed, each holding the end it reads.          *)
MutualWait == hack = "lost" /\ typed = 0 /\ ~shown /\ reading = Ends
              /\ \A e \in Ends : file[e] = "closing"
Released == pty => \A e \in Ends : file[e] = "closed"

Concludes == (clean = "done" /\ pc # "failed") ~> ((pc = "returned" /\ Released) \/ MutualWait)

(* The loop as a Session knows it: Cleanup asks it to end. *)
Contract == INSTANCE ProcessContract WITH
    Kills   <- FALSE,
    Loses   <- FALSE,
    begun   <- CASE pc = "failed" -> "failed"
                 [] pc \in {"Wait", "returned"} -> "yes"
                 [] OTHER -> "no",
    command <- CASE loop = "no" -> "none" [] loop = "done" -> "ended" [] OTHER -> "running",
    code    <- IF loop = "done" THEN exitCode ELSE 0,
    cleaned <- IF clean \in {"no", "done"} THEN clean ELSE "in",
    alive   <- TRUE

(* Whoever closes the terminal first, Wait answers only after the loop, with the
   code it left, and no method is called out of order.                            *)
KeepsCalls == Contract!Calls
=============================================================================
