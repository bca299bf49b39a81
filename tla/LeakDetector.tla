----------------------------- MODULE LeakDetector -----------------------------
(***************************************************************************)
(* logging/detector.go with the WorkGroup of internal/lock/workgroup.go:   *)
(* every session has a detector that counts its tasks and checks them      *)
(* once, at Finish; the checks are the workers of one global WorkGroup,    *)
(* which the readers and resetters of the global statistics lock and       *)
(* drain.  The WorkGroup is a sync.RWMutex, whose Lock holds up later      *)
(* RLocks and whose Unlock admits the RLocks it held up, and a WaitGroup.  *)
(***************************************************************************)
EXTENDS Integers, FiniteSets

CONSTANTS
    Detectors,  \* one per session
    Names,      \* the names of a session's tasks
    Getters,    \* callers of GetGlobalLeakDetectorStats
    Resetters,  \* callers of ResetGlobalLeakDetectorStats
    Nobody      \* no holder of the write lock

Users == Getters \cup Resetters

ASSUME DetectorAssumption ==
    /\ IsFiniteSet(Detectors)
    /\ Getters \cap Resetters = {}
    /\ Nobody \notin Users

VARIABLES
    task,     \* per detector and name: what Add and Done have done so far
    early,    \* per detector, the names added before Finish
    check,    \* per detector: where Finish and its goroutine are
    verdict,  \* per detector: "none", "ok" (unfire) or "leak" (fire)
    readers,  \* the detectors that hold the read lock
    writer,   \* the user that has announced or holds the write lock
    pc,       \* per user: where its call is
    success, failure,  \* leakDetectorState
    snap,     \* per getter: the two numbers it has loaded
    counted   \* the detectors whose check is in the two counters

mutex == <<readers, writer>>
stats == <<success, failure, snap, counted>>
vars  == <<task, early, check, verdict, mutex, pc, stats>>

Init ==
    /\ task = [d \in Detectors |-> [n \in Names |-> "idle"]]
    /\ early = [d \in Detectors |-> {}]
    /\ check = [d \in Detectors |-> "none"]
    /\ verdict = [d \in Detectors |-> "none"]
    /\ readers = {} /\ writer = Nobody
    /\ pc = [u \in Users |-> "idle"]
    /\ success = 0 /\ failure = 0
    /\ snap = [g \in Getters |-> [success |-> 0, failure |-> 0]]
    /\ counted = {}

-----------------------------------------------------------------------------
(* Add counts the task and then stores its name; Done counts it out and then
   deletes the name.                                                         *)
Moves == {<<"idle", "unnamed">>, <<"unnamed", "on">>, <<"on", "named">>, <<"named", "off">>}

Task(d, n) ==
    /\ \E m \in Moves :
          /\ task[d][n] = m[1]
          /\ task' = [task EXCEPT ![d][n] = m[2]]
          /\ early' = IF m[1] = "idle" /\ check[d] = "none"
                      THEN [early EXCEPT ![d] = @ \cup {n}] ELSE early
    /\ UNCHANGED <<check, verdict, mutex, pc, stats>>

ZeroIgnored(d) == TRUE   \* mutant: the check does not wait for the WaitGroup
Zero(d) == \A n \in Names : task[d][n] \notin {"unnamed", "on"}

(* Finish: WorkGroup.Add takes the read lock, or is held up by an announced
   writer until that unlocks; it adds one worker and releases the lock.     *)
MayReadAlways == TRUE   \* mutant: Add does not take the lock
MayRead == writer = Nobody

Finish(d) ==
    /\ check[d] = "none"
    /\ check' = [check EXCEPT ![d] = IF MayRead THEN "adding" ELSE "blocked"]
    /\ readers' = IF MayRead THEN readers \cup {d} ELSE readers
    /\ UNCHANGED <<task, early, verdict, writer, pc, stats>>

AddWorker(d) ==
    /\ check[d] = "adding"
    /\ check' = [check EXCEPT ![d] = "checking"]
    /\ readers' = readers \ {d}
    /\ UNCHANGED <<task, early, verdict, writer, pc, stats>>

(* The goroutine: whichever of the WaitGroup and the timer is first decides. *)
Decide(d) ==
    /\ check[d] = "checking"
    /\ check' = [check EXCEPT ![d] = "decided"]
    /\ \/ Zero(d) /\ verdict' = [verdict EXCEPT ![d] = "ok"]
       \/ verdict' = [verdict EXCEPT ![d] = "leak"]
    /\ UNCHANGED <<task, early, mutex, pc, stats>>

CountAgain(d) ==   \* mutant: the check counts itself without end
    /\ check[d] = "decided"
    /\ success' = success + 1 /\ counted' = counted \cup {d}
    /\ UNCHANGED <<task, early, check, verdict, mutex, pc, failure, snap>>

Count(d) ==
    /\ check[d] = "decided"
    /\ check' = [check EXCEPT ![d] = "counted"]
    /\ IF verdict[d] = "ok" THEN success' = success + 1 /\ UNCHANGED failure
                            ELSE failure' = failure + 1 /\ UNCHANGED success
    /\ counted' = counted \cup {d}
    /\ UNCHANGED <<task, early, verdict, mutex, pc, snap>>

WorkerStays(d) == FALSE   \* mutant: workers.Done() is missing
WorkerDone(d) ==
    /\ check[d] = "counted"
    /\ check' = [check EXCEPT ![d] = "over"]
    /\ UNCHANGED <<task, early, verdict, mutex, pc, stats>>

Workers == {d \in Detectors : check[d] \in {"checking", "decided", "counted"}}

-----------------------------------------------------------------------------
(* A user of the statistics: Lock, Wait, two atomic loads or stores, Unlock. *)
Step(u, from, to) == pc[u] = from /\ pc' = [pc EXCEPT ![u] = to]

Announce(u) ==
    /\ writer = Nobody
    /\ writer' = u
    /\ Step(u, "idle", "lock")
    /\ UNCHANGED <<task, early, check, verdict, readers, stats>>

Acquire(u) ==
    /\ readers = {}
    /\ Step(u, "lock", "wait")
    /\ UNCHANGED <<task, early, check, verdict, mutex, stats>>

DrainNothing == TRUE   \* mutant: the statistics are used without Wait
Drained == Workers = {}

Wait(u) ==
    /\ Drained
    /\ Step(u, "wait", "first")
    /\ UNCHANGED <<task, early, check, verdict, mutex, stats>>

Load(g) ==
    /\ \/ Step(g, "first", "second") /\ snap' = [snap EXCEPT ![g].success = success]
       \/ Step(g, "second", "unlock") /\ snap' = [snap EXCEPT ![g].failure = failure]
    /\ UNCHANGED <<task, early, check, verdict, mutex, success, failure, counted>>

Store(r) ==
    /\ \/ Step(r, "first", "second") /\ success' = 0 /\ UNCHANGED <<failure, counted>>
       \/ Step(r, "second", "unlock") /\ failure' = 0 /\ counted' = {} /\ UNCHANGED success
    /\ UNCHANGED <<task, early, check, verdict, mutex, snap>>

KeepBlocked == {}   \* mutant: Unlock forgets the calls of Add it held up
Blocked == {d \in Detectors : check[d] = "blocked"}

Unlock(u) ==
    /\ Step(u, "unlock", "returned")
    /\ writer' = Nobody
    /\ readers' = readers \cup Blocked
    /\ check' = [d \in Detectors |-> IF d \in Blocked THEN "adding" ELSE check[d]]
    /\ UNCHANGED <<task, early, verdict, stats>>

Checker(d) == AddWorker(d) \/ Decide(d) \/ Count(d) \/ WorkerDone(d)
User(u) ==
    \/ Acquire(u) \/ Wait(u) \/ Unlock(u)
    \/ u \in Getters /\ Load(u)
    \/ u \in Resetters /\ Store(u)

Next ==
    \/ \E d \in Detectors : Finish(d) \/ Checker(d) \/ \E n \in Names : Task(d, n)
    \/ \E u \in Users : Announce(u) \/ User(u)

Spec == Init /\ [][Next]_vars

(* Goroutines that can run do, and the leak timer fires; neither the sessions'
   tasks nor their calls of Finish are forced to happen.                      *)
FairSpec ==
    /\ Spec
    /\ \A d \in Detectors : WF_vars(Checker(d))
    /\ \A u \in Users : WF_vars(User(u))

-----------------------------------------------------------------------------
(* The values the variables of the detectors can take. *)
TypeOK ==
    /\ task \in [Detectors -> [Names -> {"idle", "unnamed", "on", "named", "off"}]]
    /\ early \in [Detectors -> SUBSET Names]
    /\ check \in [Detectors -> {"none", "blocked", "adding", "checking", "decided",
                                "counted", "over"}]
    /\ verdict \in [Detectors -> {"none", "ok", "leak"}]
    /\ readers \subseteq Detectors /\ writer \in Users \cup {Nobody}
    /\ pc \in [Users -> {"idle", "lock", "wait", "first", "second", "unlock", "returned"}]
    /\ success \in 0..Cardinality(Detectors) /\ failure \in 0..Cardinality(Detectors)
    /\ snap \in [Getters -> [success : Nat, failure : Nat]]
    /\ counted \subseteq Detectors

(* The two numbers GetGlobalLeakDetectorStats returns, though loaded one after
   the other, count the same checks: those that ended since the last reset.   *)
SnapshotConsistent ==
    \A g \in Getters : pc[g] = "unlock" =>
        snap[g].success + snap[g].failure = Cardinality(counted)

(* While a user of the statistics is between Wait and Unlock no check runs or can
   begin ("during which no new jobs are added", workgroup.go:47), and nobody adds
   to the WaitGroup while it is waited for, which sync.WaitGroup forbids.         *)
Inside(u) == pc[u] \in {"wait", "first", "second", "unlock"}

Exclusive ==
    \A u \in Users : Inside(u) =>
        /\ \A d \in Detectors : check[d] # "adding"
        /\ pc[u] # "wait" => Workers = {}
        /\ \A v \in Users \ {u} : ~Inside(v)

(* A detector that reports "leak_ok" has seen the end of every task it was told
   of before Finish (detector.go:36).                                          *)
OkHonest ==
    \A d \in Detectors : verdict[d] = "ok" =>
        \A n \in early[d] : task[d][n] \in {"named", "off"}

(* finalize, which calls Finish before it exits the session, is not held up for
   ever by a user of the statistics, and its session is counted in the end.     *)
FinishCounts ==
    \A d \in Detectors : (check[d] # "none") ~> (check[d] = "over")

(* A user of the statistics that has its turn returns: no check can hold it up
   for longer than the leak timer.                                            *)
StatsReturn == \A u \in Users : (pc[u] = "lock") ~> (pc[u] = "returned")
=============================================================================
