------------------------------ MODULE AsyncCopy ------------------------------
(***************************************************************************)
(* internal/asyncio: copies (copy.go) that read and write through          *)
(* context-aware calls (read.go, write.go, asyncio.go).  Each call runs    *)
(* the real I/O in a goroutine of its own, on a buffer from a pool that    *)
(* all sessions share (buffer.go), and may give up before it is done.  A   *)
(* buffer's content is the copy whose source it was read from.             *)
(***************************************************************************)
CONSTANTS
    Copies,    \* the running calls of Copy
    Buffers,   \* bound: as many buffers as can be in use at once
    Nothing    \* the content of a new buffer, and no buffer at all

ASSUME CopyAssumption == Nothing \notin Copies \cup Buffers

VARIABLES
    ctx,      \* each copy's context: "live" or "done"
    op,       \* the call it makes: "read" or "write"
    pc,       \* where: "call", "wait" (select 1), "grace" (select 2), "ended"
    io,       \* the call's goroutine: "none", "running", "moved", "finished"
    buf,      \* innerP, the buffer the goroutine uses
    p,        \* what the copy's own buffer holds
    pool,     \* the buffers in bufferPool
    content,  \* what each buffer holds
    written   \* what each copy's destination has been given

vars == <<ctx, op, pc, io, buf, p, pool, content, written>>

Init ==
    /\ ctx = [c \in Copies |-> "live"]
    /\ op = [c \in Copies |-> "read"]
    /\ pc = [c \in Copies |-> "call"]
    /\ io = [c \in Copies |-> "none"]
    /\ buf = [c \in Copies |-> Nothing]
    /\ p = [c \in Copies |-> Nothing]
    /\ pool = {}
    /\ content = [b \in Buffers |-> Nothing]
    /\ written = [c \in Copies |-> {}]

Busy(c)    == io[c] \in {"running", "moved"}
Waiting(c) == pc[c] \in {"wait", "grace"}

(* A Read has its buffer until it returns, a Write until its goroutine is done. *)
Owns(c, b) == buf[c] = b /\ IF op[c] = "read" THEN Waiting(c) ELSE Busy(c)

(* bufferFromPool: a pooled buffer, or one that nothing refers to any more. *)
Fresh == {b \in Buffers \ pool : \A c \in Copies : buf[c] = b => ~Owns(c, b) /\ ~Busy(c)}
ObtainableNil == pool \cup Fresh \cup {Nothing}   \* mutant: a pool without New
Obtainable == pool \cup Fresh

(* Wait starts the goroutine, unless the context is already done: Read's buffer
   then goes to the pool, Write's to nobody.                                   *)
Launch(c, b) ==
    /\ buf' = [buf EXCEPT ![c] = b]
    /\ io' = [io EXCEPT ![c] = "running"]
    /\ pc' = [pc EXCEPT ![c] = "wait"]
    /\ pool' = pool \ {b}

End(c) == pc' = [pc EXCEPT ![c] = "ended"]

BeginRead(c) ==
    /\ op[c] = "read" /\ pc[c] = "call"
    /\ \E b \in Obtainable :
          \/ ctx[c] = "live" /\ Launch(c, b)
          \/ ctx[c] = "done" /\ End(c) /\ pool' = pool \cup {b} /\ UNCHANGED <<buf, io>>
    /\ UNCHANGED <<ctx, op, p, content, written>>

BeginWrite(c) ==
    /\ op[c] = "write" /\ pc[c] = "call"
    /\ \E b \in Obtainable :
          /\ content' = [content EXCEPT ![b] = p[c]]
          /\ \/ ctx[c] = "live" /\ Launch(c, b)
             \/ ctx[c] = "done" /\ End(c) /\ pool' = pool \ {b} /\ UNCHANGED <<buf, io>>
    /\ UNCHANGED <<ctx, op, p, written>>

(* The goroutine moves the data, even when its call has given up. *)
MoveRead(c) ==
    /\ op[c] = "read" /\ io[c] = "running"
    /\ content' = [content EXCEPT ![buf[c]] = c]
    /\ io' = [io EXCEPT ![c] = "finished"]
    /\ UNCHANGED <<ctx, op, pc, buf, p, pool, written>>

MoveWrite(c) ==
    /\ op[c] = "write" /\ io[c] = "running"
    /\ written' = [written EXCEPT ![c] = @ \cup {content[buf[c]]}]
    /\ io' = [io EXCEPT ![c] = "moved"]
    /\ UNCHANGED <<ctx, op, pc, buf, p, pool, content>>

(* Put runs before close(done). *)
PutWritten(c) ==
    /\ io[c] = "moved"
    /\ pool' = pool \cup {buf[c]}
    /\ io' = [io EXCEPT ![c] = "finished"]
    /\ UNCHANGED <<ctx, op, pc, buf, p, content, written>>

(* Select 1 or 2 finds the goroutine done.  The deferred Put follows Read's copy
   out of its buffer; io.Copy makes the next call, or ends on an error or EOF.   *)
Forget(c) ==
    /\ io' = [io EXCEPT ![c] = "none"]
    /\ buf' = [buf EXCEPT ![c] = Nothing]

ReadReturns(c) ==
    /\ op[c] = "read" /\ Waiting(c) /\ io[c] = "finished"
    /\ p' = [p EXCEPT ![c] = content[buf[c]]]
    /\ pool' = pool \cup {buf[c]}
    /\ \/ op' = [op EXCEPT ![c] = "write"] /\ pc' = [pc EXCEPT ![c] = "call"]
       \/ End(c) /\ UNCHANGED op
    /\ Forget(c)
    /\ UNCHANGED <<ctx, content, written>>

WriteReturns(c) ==
    /\ op[c] = "write" /\ Waiting(c) /\ io[c] = "finished"
    /\ \/ op' = [op EXCEPT ![c] = "read"] /\ pc' = [pc EXCEPT ![c] = "call"]
       \/ End(c) /\ UNCHANGED op
    /\ Forget(c)
    /\ UNCHANGED <<ctx, p, pool, content, written>>

(* Select 1 finds the context done; nothing cancels the I/O itself. *)
SeeDone(c) ==
    /\ pc[c] = "wait" /\ ctx[c] = "done"
    /\ pc' = [pc EXCEPT ![c] = "grace"]
    /\ UNCHANGED <<ctx, op, io, buf, p, pool, content, written>>

(* Select 2 times out: ErrCanceled.  Read's deferred Put runs here too. *)
PutTimedOut(c) == pool' = pool \cup {buf[c]}   \* mutant: and so does Write
TimedOutPool(c) ==
    pool' = IF op[c] = "read" THEN pool \cup {buf[c]} ELSE pool

NoTimer(c) == FALSE   \* mutant: select 2 without time.After
TimeOut(c) ==
    /\ pc[c] = "grace"
    /\ End(c)
    /\ TimedOutPool(c)
    /\ UNCHANGED <<ctx, op, io, buf, p, content, written>>

(* The connection closes; the garbage collector empties the pool. *)
Cancel(c) ==
    /\ ctx[c] = "live"
    /\ ctx' = [ctx EXCEPT ![c] = "done"]
    /\ UNCHANGED <<op, pc, io, buf, p, pool, content, written>>

Collect(b) ==
    /\ b \in pool
    /\ pool' = pool \ {b}
    /\ UNCHANGED <<ctx, op, pc, io, buf, p, content, written>>

Call(c)   == BeginRead(c) \/ BeginWrite(c) \/ ReadReturns(c) \/ WriteReturns(c)
GiveUp(c) == SeeDone(c) \/ TimeOut(c)
Move(c)   == MoveRead(c) \/ MoveWrite(c) \/ PutWritten(c)

Next ==
    \/ \E c \in Copies : Call(c) \/ GiveUp(c) \/ Move(c) \/ Cancel(c)
    \/ \E b \in Buffers : Collect(b)

Spec == Init /\ [][Next]_vars

(* The calls are scheduled and their timers fire; the I/O may block for ever. *)
FairSpec == Spec /\ \A c \in Copies : WF_vars(Call(c)) /\ WF_vars(GiveUp(c))

-----------------------------------------------------------------------------
(* The values the variables of the copies can take. *)
TypeOK ==
    /\ ctx \in [Copies -> {"live", "done"}]
    /\ op \in [Copies -> {"read", "write"}]
    /\ pc \in [Copies -> {"call", "wait", "grace", "ended"}]
    /\ io \in [Copies -> {"none", "running", "moved", "finished"}]
    /\ buf \in [Copies -> Buffers \cup {Nothing}]
    /\ p \in [Copies -> Copies \cup {Nothing}]
    /\ pool \subseteq Buffers
    /\ content \in [Buffers -> Copies \cup {Nothing}]
    /\ written \in [Copies -> SUBSET (Copies \cup {Nothing})]

(* The pool never holds, and never hands out twice, a buffer that a Read has not
   returned from or a Write's goroutine still uses.                             *)
OneOwner ==
    \A c \in Copies, b \in Buffers : Owns(c, b) =>
        b \notin pool /\ \A d \in Copies \ {c} : ~Owns(d, b)

(* As long as no Read was abandoned while its goroutine ran on, every copy gives
   its destination what came from its own source, whoever else uses the pool.    *)
Abandoned(c) == op[c] = "read" /\ pc[c] = "ended" /\ io[c] # "none"

IntactUnlessAbandoned ==
    (\A c \in Copies : ~Abandoned(c)) => \A c \in Copies : written[c] \subseteq {c}

(* "Read is a replacement for reader.Read() that returns within timeout after
   context is canncelled" (read.go:11), and so a copy ends, even when neither
   the source nor the destination ever answers.                               *)
CanceledEnds == \A c \in Copies : (ctx[c] = "done") ~> (pc[c] = "ended")

(* "bufferFromPool returns a new []byte" (buffer.go:14): a copy's destination is
   given nothing but what was read from its own source.                         *)
Intact == \A c \in Copies : written[c] \subseteq {c}
=============================================================================
