---------------------------- MODULE LeakDetectorProofs ----------------------------
(***************************************************************************)
(* What the detectors and the global statistics keep, for any finite set   *)
(* of sessions and any tasks and users of the statistics.  Locking is the  *)
(* inductive invariant of the WorkGroup, Counting of the two counters and  *)
(* the numbers loaded from them, Honest of a detector and its tasks.       *)
(***************************************************************************)
EXTENDS LeakDetector, FiniteSetTheorems, TLAPS

(* One user at a time is between its announcement and Unlock; it holds up the calls
   of Add that come meanwhile, and once it has the lock no worker is added.          *)
Locking ==
    /\ \A u \in Users : writer = u <=> pc[u] \notin {"idle", "returned"}
    /\ readers = {d \in Detectors : check[d] = "adding"}
    /\ writer = Nobody => Blocked = {}
    /\ \A u \in Users : Inside(u) => readers = {}
    /\ \A u \in Users : Inside(u) /\ pc[u] # "wait" => Workers = {}

(* The counters count each check since the last reset once, but while they are being
   reset; what a getter has loaded is still what the counters say.                    *)
Resetting == \E r \in Resetters : pc[r] = "second"

Counting ==
    /\ counted \subseteq {d \in Detectors : check[d] \in {"counted", "over"}}
    /\ success + failure <= Cardinality(counted)
    /\ ~Resetting => success + failure = Cardinality(counted)
    /\ Resetting => success = 0
    /\ \A g \in Getters :
          /\ pc[g] \in {"second", "unlock"} => snap[g].success = success
          /\ pc[g] = "unlock" => snap[g].failure = failure

(* A task that was added early never is idle again, and a verdict comes after Finish. *)
Honest ==
    \A d \in Detectors :
        /\ \A n \in early[d] : task[d][n] # "idle"
        /\ verdict[d] # "none" => check[d] \in {"decided", "counted", "over"}

LeakInv == TypeOK /\ Locking /\ Counting /\ Honest /\ OkHonest

-----------------------------------------------------------------------------
LEMMA Different == Getters \subseteq Users /\ Resetters \subseteq Users /\ Nobody \notin Users
BY DetectorAssumption DEF Users

(* The sets of detectors are finite, and there are not more counted than there are. *)
LEMMA Counted ==
    ASSUME counted \subseteq Detectors
    PROVE  /\ IsFiniteSet(counted) /\ Cardinality(counted) \in Nat
           /\ Cardinality(Detectors) \in Nat
           /\ Cardinality(counted) <= Cardinality(Detectors)
BY DetectorAssumption, FS_Subset, FS_CardinalityType

LEMMA InvInit == Init => LeakInv
<1> SUFFICES ASSUME Init PROVE LeakInv
  OBVIOUS
<1>1. Cardinality({}) = 0 /\ Cardinality(Detectors) \in Nat
  BY FS_EmptySet, FS_CardinalityType, DetectorAssumption
<1>2. TypeOK
  BY <1>1 DEF Init, TypeOK
<1>3. Locking
  BY Different DEF Init, Locking, Blocked, Workers, Inside
<1>4. Counting
  BY <1>1, Different DEF Init, Counting, Resetting
<1>5. Honest /\ OkHonest
  BY DEF Init, Honest, OkHonest
<1> QED  BY <1>2, <1>3, <1>4, <1>5 DEF LeakInv

-----------------------------------------------------------------------------
(* The WorkGroup. *)
LEMMA LockingNext == TypeOK /\ Locking /\ [Next]_vars => Locking'
<1> SUFFICES ASSUME TypeOK, Locking, [Next]_vars PROVE Locking'
  OBVIOUS
<1> USE Different DEF TypeOK, Locking, Blocked, Workers, Inside
<1>1. ASSUME NEW d \in Detectors, NEW n \in Names, Task(d, n) PROVE Locking'
  BY <1>1 DEF Task, mutex
<1>2. ASSUME NEW d \in Detectors, Finish(d) PROVE Locking'
  BY <1>2 DEF Finish, MayRead
<1>3. ASSUME NEW d \in Detectors, AddWorker(d) PROVE Locking'
  BY <1>3 DEF AddWorker
<1>4. ASSUME NEW d \in Detectors, Decide(d) PROVE Locking'
  BY <1>4 DEF Decide, mutex
<1>5. ASSUME NEW d \in Detectors, Count(d) PROVE Locking'
  BY <1>5 DEF Count, mutex
<1>6. ASSUME NEW d \in Detectors, WorkerDone(d) PROVE Locking'
  BY <1>6 DEF WorkerDone, mutex
<1>7. ASSUME NEW u \in Users, Announce(u) PROVE Locking'
  BY <1>7 DEF Announce, Step
<1>8. ASSUME NEW u \in Users, Acquire(u) PROVE Locking'
  BY <1>8 DEF Acquire, Step, mutex
<1>9. ASSUME NEW u \in Users, Wait(u) PROVE Locking'
  BY <1>9 DEF Wait, Step, Drained, mutex
<1>10. ASSUME NEW u \in Users, Unlock(u) PROVE Locking'
  BY <1>10 DEF Unlock, Step
<1>11. ASSUME NEW u \in Getters, Load(u) PROVE Locking'
  BY <1>11 DEF Load, Step, mutex
<1>12. ASSUME NEW u \in Resetters, Store(u) PROVE Locking'
  BY <1>12 DEF Store, Step, mutex
<1>13. CASE UNCHANGED vars
  BY <1>13 DEF vars, mutex
<1> QED
  BY <1>1, <1>2, <1>3, <1>4, <1>5, <1>6, <1>7, <1>8, <1>9, <1>10, <1>11, <1>12, <1>13
     DEF Next, Checker, User

(* A user with the lock is alone: the write lock has one holder. *)
LEMMA Alone ==
    ASSUME Locking, NEW u \in Users, NEW v \in Users \ {u}, pc[u] \notin {"idle", "returned"}
    PROVE  pc[v] \in {"idle", "returned"}
BY DEF Locking

LEMMA LockingExclusive == Locking => Exclusive
<1> SUFFICES ASSUME Locking, NEW u \in Users, Inside(u)
             PROVE  /\ \A d \in Detectors : check[d] # "adding"
                    /\ pc[u] # "wait" => Workers = {}
                    /\ \A v \in Users \ {u} : ~Inside(v)
  BY DEF Exclusive
<1>1. \A d \in Detectors : check[d] # "adding"
  BY DEF Locking
<1>2. pc[u] # "wait" => Workers = {}
  BY DEF Locking
<1>3. \A v \in Users \ {u} : ~Inside(v)
  BY Alone DEF Inside
<1> QED  BY <1>1, <1>2, <1>3

-----------------------------------------------------------------------------
(* The statistics.  Of the steps of the WorkGroup only those of its users matter. *)
LEMMA CountingNext == TypeOK /\ Locking /\ Counting /\ [Next]_vars => Counting'
<1> SUFFICES ASSUME TypeOK, Locking, Counting, [Next]_vars PROVE Counting'
  OBVIOUS
<1>0. /\ IsFiniteSet(counted) /\ Cardinality(counted) \in Nat
      /\ success \in Nat /\ failure \in Nat
  <2>1. Cardinality(Detectors) \in Nat /\ counted \subseteq Detectors
    BY FS_CardinalityType, DetectorAssumption DEF TypeOK
  <2> QED  BY <2>1, Counted DEF TypeOK
<1> USE Different
<1>1. CASE UNCHANGED <<stats, pc>> /\ \A d \in counted : check'[d] \in {"counted", "over"}
  BY <1>1 DEF Counting, stats, Resetting, TypeOK
<1>2. ASSUME NEW d \in Detectors, Finish(d) \/ Checker(d), ~Count(d) PROVE Counting'
  <2>1. \A e \in counted : check'[e] \in {"counted", "over"}
    BY <1>2 DEF Checker, Finish, AddWorker, Decide, WorkerDone, Counting, TypeOK
  <2>2. UNCHANGED <<stats, pc>>
    BY <1>2 DEF Checker, Finish, AddWorker, Decide, WorkerDone
  <2> QED  BY <1>1, <2>1, <2>2
<1>3. ASSUME NEW d \in Detectors, Count(d) PROVE Counting'
  <2>1. d \notin counted /\ counted' = counted \cup {d}
    BY <1>3 DEF Count, Counting
  <2>2. Cardinality(counted') = Cardinality(counted) + 1
    BY <1>0, <2>1, FS_AddElement
  <2>3. success' + failure' = success + failure + 1
    BY <1>0, <1>3 DEF Count
  <2>4. \A u \in Users : ~Inside(u) \/ pc[u] = "wait"
    BY <1>3 DEF Count, Locking, Workers
  <2>5. ~Resetting' /\ ~Resetting /\ UNCHANGED <<pc, snap>>
    BY <1>3, <2>4 DEF Resetting, Inside, Count
  <2>6. \A g \in Getters : pc'[g] \notin {"second", "unlock"}
    BY <2>4, <2>5 DEF Inside
  <2>7. \A e \in counted' : check'[e] \in {"counted", "over"}
    BY <1>3, <2>1 DEF Count, Counting, TypeOK
  <2>8. counted' \subseteq Detectors
    BY <2>1 DEF TypeOK
  <2> QED  BY <1>0, <2>2, <2>3, <2>5, <2>6, <2>7, <2>8 DEF Counting
<1>4. ASSUME NEW d \in Detectors, NEW n \in Names, Task(d, n) PROVE Counting'
  BY <1>1, <1>4 DEF Task, Counting
<1>5. ASSUME NEW u \in Users, Announce(u) \/ Acquire(u) \/ Wait(u) \/ Unlock(u)
      PROVE  Counting'
  <2>1. pc' = [pc EXCEPT ![u] = pc'[u]] /\ pc'[u] \notin {"second", "unlock"}
        /\ pc[u] # "second" /\ UNCHANGED stats
    BY <1>5 DEF Announce, Acquire, Wait, Unlock, Step, TypeOK
  <2>2. \A d \in counted : check'[d] \in {"counted", "over"}
    BY <1>5 DEF Announce, Acquire, Wait, Unlock, Counting, Blocked
  <2>3. Resetting' = Resetting
    BY <2>1 DEF Resetting, TypeOK
  <2> QED  BY <2>1, <2>2, <2>3 DEF Counting, stats, TypeOK
<1>6. ASSUME NEW g \in Getters, Load(g) PROVE Counting'
  <2>1. pc[g] \in {"first", "second"} /\ UNCHANGED <<check, success, failure, counted>>
        /\ pc' = [pc EXCEPT ![g] = IF pc[g] = "first" THEN "second" ELSE "unlock"]
    BY <1>6 DEF Load, Step
  <2>2. Resetting' = Resetting
    BY <2>1, DetectorAssumption DEF Resetting, TypeOK
  <2>3. ASSUME NEW h \in Getters
        PROVE  /\ pc'[h] \in {"second", "unlock"} => snap'[h].success = success
               /\ pc'[h] = "unlock" => snap'[h].failure = failure
    BY <1>6, <2>1 DEF Load, Step, Counting, TypeOK
  <2> QED  BY <2>1, <2>2, <2>3 DEF Counting
<1>7. ASSUME NEW r \in Resetters, Store(r) PROVE Counting'
  <2>1. /\ pc[r] \in {"first", "second"} /\ UNCHANGED <<check, snap>>
        /\ pc' = [pc EXCEPT ![r] = IF pc[r] = "first" THEN "second" ELSE "unlock"]
    BY <1>7 DEF Store, Step
  <2>2. \A u \in Users \ {r} : pc[u] \in {"idle", "returned"}
    BY <2>1, Alone
  <2>3. \A g \in Getters : pc'[g] \in {"idle", "returned"}
    BY <2>1, <2>2, DetectorAssumption DEF TypeOK
  <2>4. CASE pc[r] = "first"
    <3>1. success' = 0 /\ UNCHANGED <<failure, counted>> /\ pc'[r] = "second"
      BY <1>7, <2>1, <2>4 DEF Store, Step, TypeOK
    <3> QED  BY <1>0, <2>1, <2>3, <3>1 DEF Counting, Resetting
  <2>5. CASE pc[r] = "second"
    <3>1. failure' = 0 /\ counted' = {} /\ success' = 0
      BY <1>7, <2>5 DEF Store, Step, Counting, Resetting
    <3>2. ~Resetting'
      BY <2>1, <2>2, <2>5 DEF Resetting, TypeOK
    <3> QED  BY <2>1, <2>3, <3>1, <3>2, FS_EmptySet DEF Counting
  <2> QED  BY <2>1, <2>4, <2>5
<1>8. CASE UNCHANGED vars
  BY <1>8 DEF vars, stats, Counting, Resetting
<1> QED
  BY <1>2, <1>3, <1>4, <1>5, <1>6, <1>7, <1>8 DEF Next, User

LEMMA TypeNext == TypeOK /\ Locking /\ Locking' /\ Counting' /\ [Next]_vars => TypeOK'
<1> SUFFICES ASSUME TypeOK, Locking, Locking', Counting', [Next]_vars PROVE TypeOK'
  OBVIOUS
<1> USE Different DEF TypeOK
<1>1. counted' \subseteq Detectors
  BY DEF Counting
<1>2. /\ success \in Nat /\ failure \in Nat /\ Cardinality(Detectors) \in Nat
      /\ success' \in Nat /\ failure' \in Nat
  <2>1. Cardinality(Detectors) \in Nat
    BY FS_CardinalityType, DetectorAssumption
  <2> QED
    BY <2>1 DEF Next, Checker, User, Task, Finish, AddWorker, Decide, Count, WorkerDone,
                Announce, Acquire, Wait, Load, Store, Unlock, vars, stats
<1>3. success' \in 0..Cardinality(Detectors) /\ failure' \in 0..Cardinality(Detectors)
  <2>1. Cardinality(counted') \in Nat /\ Cardinality(counted') <= Cardinality(Detectors)
    BY <1>1, DetectorAssumption, FS_Subset, FS_CardinalityType
  <2> QED  BY <1>2, <2>1 DEF Counting
<1>4. readers' \subseteq Detectors
  BY DEF Locking
<1>5. task' \in [Detectors -> [Names -> {"idle", "unnamed", "on", "named", "off"}]]
      /\ early' \in [Detectors -> SUBSET Names]
  <2>1. ASSUME NEW d \in Detectors, NEW n \in Names, Task(d, n)
        PROVE  /\ task' \in [Detectors -> [Names -> {"idle", "unnamed", "on", "named", "off"}]]
               /\ early' \in [Detectors -> SUBSET Names]
    BY <2>1 DEF Task, Moves
  <2> QED
    BY <2>1 DEF Next, Checker, User, Finish, AddWorker, Decide, Count, WorkerDone,
                Announce, Acquire, Wait, Load, Store, Unlock, vars
<1>6. check' \in [Detectors -> {"none", "blocked", "adding", "checking", "decided",
                                "counted", "over"}]
      /\ verdict' \in [Detectors -> {"none", "ok", "leak"}]
  BY DEF Next, Checker, User, Task, Finish, AddWorker, Decide, Count, WorkerDone,
         Announce, Acquire, Wait, Load, Store, Unlock, vars
<1>7. writer' \in Users \cup {Nobody}
      /\ pc' \in [Users -> {"idle", "lock", "wait", "first", "second", "unlock", "returned"}]
  BY DEF Next, Checker, User, Task, Finish, AddWorker, Decide, Count, WorkerDone,
         Announce, Acquire, Wait, Load, Store, Unlock, Step, vars, mutex
<1>8. snap' \in [Getters -> [success : Nat, failure : Nat]]
  BY <1>2 DEF Next, Checker, User, Task, Finish, AddWorker, Decide, Count, WorkerDone,
              Announce, Acquire, Wait, Load, Store, Unlock, vars, stats
<1> QED  BY <1>1, <1>3, <1>4, <1>5, <1>6, <1>7, <1>8

-----------------------------------------------------------------------------
(* The tasks.  None is early that has not begun, and none that has ended begins again. *)
LEMMA HonestNext == TypeOK /\ Honest /\ OkHonest /\ [Next]_vars => Honest' /\ OkHonest'
<1> SUFFICES ASSUME TypeOK, Honest, OkHonest, [Next]_vars PROVE Honest' /\ OkHonest'
  OBVIOUS
<1> USE DEF TypeOK, Honest, OkHonest
<1>1. ASSUME NEW d \in Detectors, NEW n \in Names, Task(d, n) PROVE Honest' /\ OkHonest'
  <2>1. PICK m \in Moves :
          /\ task[d][n] = m[1]
          /\ task' = [task EXCEPT ![d][n] = m[2]]
          /\ early' = IF m[1] = "idle" /\ check[d] = "none"
                      THEN [early EXCEPT ![d] = @ \cup {n}] ELSE early
    BY <1>1 DEF Task
  <2>2. /\ m[2] # "idle" /\ m[1] # "off"
        /\ m[1] = "named" => m[2] = "off"
    BY DEF Moves
  <2>3. UNCHANGED <<check, verdict>>
    BY <1>1 DEF Task
  <2>4. ASSUME NEW e \in Detectors, NEW k \in early'[e]
        PROVE  /\ task'[e][k] # "idle"
               /\ verdict[e] = "ok" => task'[e][k] \in {"named", "off"}
    <3>1. k \in Names /\ (k \in early[e] \/ (e = d /\ k = n /\ check[d] = "none"))
      BY <2>1
    <3>2. task'[e][k] = IF e = d /\ k = n THEN m[2] ELSE task[e][k]
      BY <2>1, <3>1
    <3> QED  BY <2>1, <2>2, <3>1, <3>2
  <2> QED  BY <2>3, <2>4
<1>2. ASSUME NEW d \in Detectors, Decide(d) PROVE Honest' /\ OkHonest'
  BY <1>2 DEF Decide, Zero
<1>3. CASE UNCHANGED <<task, early, verdict>>
           /\ \A d \in Detectors : check[d] \in {"decided", "counted", "over"}
                                      => check'[d] \in {"decided", "counted", "over"}
  BY <1>3
<1>4. ASSUME NEW d \in Detectors, Finish(d) \/ AddWorker(d) \/ Count(d) \/ WorkerDone(d)
      PROVE  Honest' /\ OkHonest'
  BY <1>3, <1>4 DEF Finish, AddWorker, Count, WorkerDone
<1>5. ASSUME NEW u \in Users, Announce(u) \/ User(u) PROVE Honest' /\ OkHonest'
  BY <1>3, <1>5 DEF User, Announce, Acquire, Wait, Unlock, Load, Store, Blocked
<1>6. CASE UNCHANGED vars
  BY <1>6 DEF vars
<1> QED  BY <1>1, <1>2, <1>4, <1>5, <1>6 DEF Next, Checker

-----------------------------------------------------------------------------
LEMMA InvNext == LeakInv /\ [Next]_vars => LeakInv'
<1> SUFFICES ASSUME LeakInv, [Next]_vars PROVE LeakInv'
  OBVIOUS
<1>1. Locking' /\ Counting' /\ Honest' /\ OkHonest'
  BY LockingNext, CountingNext, HonestNext DEF LeakInv
<1> QED  BY <1>1, TypeNext DEF LeakInv

(* Every state of the detectors and the statistics satisfies the invariant. *)
THEOREM Invariance == Spec => []LeakInv
BY InvInit, InvNext, PTL DEF Spec

(* The variables keep their types: in particular no check is counted twice, however
   Finish, the goroutines and the resetters interleave.                              *)
THEOREM TypeCorrect == Spec => []TypeOK
<1>1. LeakInv => TypeOK
  BY DEF LeakInv
<1> QED  BY <1>1, Invariance, PTL

(* WorkGroup keeps its promise (workgroup.go:47): between Wait and Unlock no job is
   added or runs, and no second caller is inside.                                    *)
THEOREM MutualExclusion == Spec => []Exclusive
<1>1. LeakInv => Exclusive
  BY LockingExclusive DEF LeakInv
<1> QED  BY <1>1, Invariance, PTL

(* GetGlobalLeakDetectorStats, which loads two numbers one after the other, returns
   two that belong together.                                                         *)
THEOREM ConsistentSnapshots == Spec => []SnapshotConsistent
<1>1. LeakInv => SnapshotConsistent
  <2> SUFFICES ASSUME LeakInv, NEW g \in Getters, pc[g] = "unlock"
               PROVE  snap[g].success + snap[g].failure = Cardinality(counted)
    BY DEF SnapshotConsistent
  <2>1. ~Resetting
    BY Alone, Different, DetectorAssumption DEF LeakInv, Resetting
  <2> QED  BY <2>1 DEF LeakInv, Counting
<1> QED  BY <1>1, Invariance, PTL

(* "leak_ok" is only reported (unfire) when every task told of before Finish is done. *)
THEOREM HonestOk == Spec => []OkHonest
<1>1. LeakInv => OkHonest
  BY DEF LeakInv
<1> QED  BY <1>1, Invariance, PTL
=============================================================================
