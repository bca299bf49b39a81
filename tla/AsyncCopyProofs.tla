--------------------------- MODULE AsyncCopyProofs ---------------------------
(***************************************************************************)
(* Theorems about AsyncCopy, for every set of copies and of buffers.       *)
(***************************************************************************)
EXTENDS AsyncCopy, TLAPS

(* A call that is under way has a buffer; one that has not begun has neither a
   buffer nor a goroutine.                                                     *)
CallShape ==
    \A c \in Copies :
       /\ pc[c] = "call" => io[c] = "none"
       /\ Waiting(c) => io[c] # "none"
       /\ io[c] # "none" => buf[c] \in Buffers
       /\ io[c] = "moved" => op[c] = "write"

(* What a copy's buffers hold as long as no Read was abandoned. *)
Clean ==
    (\A c \in Copies : ~Abandoned(c)) =>
       \A c \in Copies :
          /\ op[c] = "read" /\ Waiting(c) /\ io[c] = "finished" => content[buf[c]] = c
          /\ op[c] = "write" /\ pc[c] = "call" => p[c] = c
          /\ op[c] = "write" /\ io[c] = "running" => content[buf[c]] = c
          /\ written[c] \subseteq {c}

CopyInv == TypeOK /\ CallShape /\ OneOwner /\ Clean

(* The invariant holds before the first call. *)
LEMMA CopyInit == Init => CopyInv
BY CopyAssumption
DEF Init, CopyInv, TypeOK, CallShape, OneOwner, Clean, Owns, Waiting, Busy, Abandoned

(* A buffer that bufferFromPool returns belongs to nobody. *)
LEMMA ObtainableUnowned ==
    ASSUME OneOwner, TypeOK, NEW b \in Obtainable
    PROVE  b \in Buffers /\ \A c \in Copies : ~Owns(c, b)
BY DEF OneOwner, TypeOK, Obtainable, Fresh, Owns

(* Every step of a call, of its goroutine and of the pool keeps it. *)
LEMMA CopyNext == CopyInv /\ [Next]_vars => CopyInv'
<1> SUFFICES ASSUME CopyInv, [Next]_vars PROVE CopyInv'
  OBVIOUS
<1> USE CopyAssumption
    DEF CopyInv, TypeOK, CallShape, OneOwner, Clean, Owns, Waiting, Busy, Abandoned
<1>1. ASSUME NEW c \in Copies, BeginRead(c) PROVE CopyInv'
  <2>1. PICK b \in Obtainable :
           \/ ctx[c] = "live" /\ Launch(c, b)
           \/ ctx[c] = "done" /\ End(c) /\ pool' = pool \cup {b} /\ UNCHANGED <<buf, io>>
    BY <1>1 DEF BeginRead
  <2>2. b \in Buffers /\ \A d \in Copies : ~Owns(d, b)  BY ObtainableUnowned
  <2>3. CASE Launch(c, b)  BY <1>1, <2>2, <2>3 DEF BeginRead, Launch
  <2>4. CASE ~Launch(c, b)  BY <1>1, <2>1, <2>2, <2>4 DEF BeginRead, End
  <2> QED  BY <2>3, <2>4
<1>2. ASSUME NEW c \in Copies, BeginWrite(c) PROVE CopyInv'
  <2>1. PICK b \in Obtainable :
          /\ content' = [content EXCEPT ![b] = p[c]]
          /\ \/ ctx[c] = "live" /\ Launch(c, b)
             \/ ctx[c] = "done" /\ End(c) /\ pool' = pool \ {b} /\ UNCHANGED <<buf, io>>
    BY <1>2 DEF BeginWrite
  <2>2. b \in Buffers /\ \A d \in Copies : ~Owns(d, b)  BY ObtainableUnowned
  <2>3. CASE Launch(c, b)
    <3>1. TypeOK' /\ CallShape'  BY <1>2, <2>1, <2>2, <2>3 DEF BeginWrite, Launch
    <3>2. OneOwner'  BY <1>2, <2>1, <2>2, <2>3 DEF BeginWrite, Launch
    <3>3. Clean'  BY <1>2, <2>1, <2>2, <2>3 DEF BeginWrite, Launch
    <3> QED  BY <3>1, <3>2, <3>3
  <2>4. CASE ~Launch(c, b)
    <3>1. /\ pc' = [pc EXCEPT ![c] = "ended"] /\ pool' = pool \ {b}
          /\ op[c] = "write" /\ UNCHANGED <<ctx, op, io, buf, p, written>>
      BY <1>2, <2>1, <2>4 DEF BeginWrite, End
    <3>2. TypeOK' /\ CallShape'  BY <3>1, <2>1, <2>2
    <3>3. OneOwner'  BY <3>1, <2>1, <2>2
    <3>4. Clean'  BY <3>1, <2>1, <2>2
    <3> QED  BY <3>2, <3>3, <3>4
  <2> QED  BY <2>3, <2>4
<1>3. ASSUME NEW c \in Copies, MoveRead(c) PROVE CopyInv'
  BY <1>3 DEF MoveRead
<1>4. ASSUME NEW c \in Copies, MoveWrite(c) PROVE CopyInv'
  BY <1>4 DEF MoveWrite
<1>5. ASSUME NEW c \in Copies, PutWritten(c) PROVE CopyInv'
  BY <1>5 DEF PutWritten
<1>6. ASSUME NEW c \in Copies, ReadReturns(c) PROVE CopyInv'
  BY <1>6 DEF ReadReturns, Forget, End
<1>7. ASSUME NEW c \in Copies, WriteReturns(c) PROVE CopyInv'
  BY <1>7 DEF WriteReturns, Forget, End
<1>8. ASSUME NEW c \in Copies, SeeDone(c) PROVE CopyInv'
  BY <1>8 DEF SeeDone
<1>9. ASSUME NEW c \in Copies, TimeOut(c) PROVE CopyInv'
  BY <1>9 DEF TimeOut, TimedOutPool, End
<1>10. ASSUME NEW c \in Copies, Cancel(c) PROVE CopyInv'
  BY <1>10 DEF Cancel
<1>11. ASSUME NEW b \in Buffers, Collect(b) PROVE CopyInv'
  BY <1>11 DEF Collect
<1>12. CASE UNCHANGED vars
  BY <1>12 DEF vars
<1> HIDE DEF CopyInv
<1> QED
  BY <1>1, <1>2, <1>3, <1>4, <1>5, <1>6, <1>7, <1>8, <1>9, <1>10, <1>11, <1>12
  DEF Next, Call, GiveUp, Move

(* The invariant holds throughout. *)
THEOREM CopyInvariance == Spec => []CopyInv
BY CopyInit, CopyNext, PTL DEF Spec

(* The variables of the copies keep their types, a buffer's content and what a write
   hands on among them.                                                              *)
THEOREM TypeCorrect == Spec => []TypeOK
<1>1. CopyInv => TypeOK
  BY DEF CopyInv
<1> QED  BY <1>1, CopyInvariance, PTL

(* No buffer of the pool has two owners, and none of them is in the pool. *)
THEOREM SingleOwner == Spec => []OneOwner
<1>1. CopyInv => OneOwner  BY DEF CopyInv
<1> QED  BY <1>1, CopyInvariance, PTL

(* Copies do not mix their data unless a Read was abandoned. *)
THEOREM Unmixed == Spec => []IntactUnlessAbandoned
<1>1. CopyInv => IntactUnlessAbandoned  BY DEF CopyInv, Clean, IntactUnlessAbandoned
<1> QED  BY <1>1, CopyInvariance, PTL
=============================================================================
