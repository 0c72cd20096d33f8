---------------------------- MODULE EvidenceWorker ----------------------------
(***************************************************************************)
(* AsyncEvidenceWorker (evidence/worker.py) over the queue of              *)
(* EvidenceTasks: a window of claimed tasks, executed concurrently and     *)
(* committed one by one, and a heartbeat that renews what is in flight.    *)
(*                                                                         *)
(* The worker is one event loop: a commit has no await, so that no         *)
(* heartbeat of its own runs in the middle of it; the clock and the        *)
(* processes of other owners do.  A process that ends, by a signal or by   *)
(* the KeyError of a refused commit, forgets its window; the next one has  *)
(* another owner name, but no key under the old one, so that the name is   *)
(* kept here.  The clock moves only when every heartbeat that is alive has *)
(* run in time (the event loop is not blocked for longer than the lease).  *)
(***************************************************************************)
EXTENDS EvidenceTasks

CONSTANTS
    Worker,           \* owners that are evidence workers
    Window,           \* claim_batch_size
    Interval,         \* heartbeat_interval
    MaxCrashes,       \* bound: crashes of worker processes
    MaxFailures,      \* bound: heartbeats that fail
    MaxRetries        \* bound: results that do not end their task

ASSUME WorkerAssumption ==
    /\ Worker \subseteq Owner /\ Window \in Nat \ {0}
    /\ Interval \in Nat \ {0} /\ Interval < LeaseSeconds
    /\ MaxCrashes \in Nat /\ MaxFailures \in Nat /\ MaxRetries \in Nat

VARIABLES
    execs,     \* executions in flight: [by, task, attempt]
    active,    \* active[w]: active_keys, which the heartbeat renews
    heart,     \* heart[w]: "up", or "failed" until the window has drained
    beat,      \* beat[w]: time to the next heartbeat
    crashes, failures,   \* so far
    retries    \* results so far that did not end their task

workerVars == <<execs, active, heart, beat, crashes, failures, retries>>
vars == <<taskVars, workerVars>>

Execution == [by : Worker, task : Task, attempt : Nat]

WorkerTypeOK ==
    /\ EvidenceTypeOK
    /\ execs \subseteq Execution /\ active \in [Worker -> SUBSET Task]
    /\ heart \in [Worker -> {"up", "failed"}]
    /\ beat \in [Worker -> 0..Interval] /\ crashes \in Nat /\ failures \in Nat /\ retries \in Nat

WorkerInit ==
    /\ execs = {} /\ active = [w \in Worker |-> {}]
    /\ heart = [w \in Worker |-> "up"] /\ beat = [w \in Worker |-> 0]
    /\ crashes = 0 /\ failures = 0 /\ retries = 0

ExecsOf(w) == {e \in execs : e.by = w}

Idle(w) == commits[w] = NoCommit

\* The claim of a window, or its refill; launch adds the keys and starts the
\* executions.
ClaimWindow(w, S) ==
    /\ Idle(w) /\ S # {}
    /\ ClaimTasks(w, S, Window - Cardinality(ExecsOf(w)))
    /\ execs' = execs \cup
           {[by |-> w, task |-> t, attempt |-> tasks'[t].attempt] : t \in S}
    /\ active' = [active EXCEPT ![w] = @ \cup S]
    /\ UNCHANGED <<evidence, commits, heart, beat, crashes, failures, retries>>

\* The provider has answered: the result goes to the committer.
ResultArrives(w, e, outcome) ==
    /\ Idle(w)
    /\ outcome \in Terminal \/ retries < MaxRetries
    /\ retries' = IF outcome \in Terminal THEN retries ELSE retries + 1
    /\ BeginCommit(w, e.task, e.attempt, outcome)
    /\ execs' = execs \ {e}
    /\ UNCHANGED <<tasks, evidence, active, heart, beat, crashes, failures>>

\* Mistake: one committed key ends the renewal of the whole window.
ForgetAll(w, t) == [active EXCEPT ![w] = {}]

Forget(w, t) == [active EXCEPT ![w] = @ \ {t}]

ResultCommitted(w) ==
    /\ EndTask(w)
    /\ active' = Forget(w, commits[w].task)
    /\ UNCHANGED <<execs, heart, beat, crashes, failures, retries>>

\* What the end of the process, or of its window, leaves of worker w.
Cleared(w) ==
    /\ execs' = execs \ ExecsOf(w)
    /\ active' = [active EXCEPT ![w] = {}]
    /\ heart' = [heart EXCEPT ![w] = "up"]
    /\ beat' = [beat EXCEPT ![w] = 0]

\* A KeyError leaves the loop: the other executions are cancelled.
RunAborts(w) == EndRefused(w) /\ Cleared(w) /\ UNCHANGED <<crashes, failures, retries>>

\* The process dies anywhere, between two steps of a commit too.
Crash(w) ==
    /\ crashes < MaxCrashes /\ crashes' = crashes + 1
    /\ commits' = [commits EXCEPT ![w] = NoCommit]
    /\ Cleared(w)
    /\ UNCHANGED <<tasks, evidence, failures, retries>>

\* _heartbeat: a key that is no longer owned ends it, and the error shows
\* only when the window has drained.
Heartbeat(w) ==
    /\ heart[w] = "up" /\ Idle(w) /\ active[w] # {} /\ beat[w] = 0
    /\ tasks' = Renewed(w, active[w], LeaseSeconds + Interval)
    /\ heart' = [heart EXCEPT ![w] =
           IF \A t \in active[w] : tasks[t].owner = w THEN @ ELSE "failed"]
    /\ beat' = [beat EXCEPT ![w] = Interval]
    /\ UNCHANGED <<evidence, commits, execs, active, crashes, failures, retries>>

\* The renewal itself raises: the database is locked, or full.
HeartbeatFails(w) ==
    /\ heart[w] = "up" /\ Idle(w) /\ active[w] # {} /\ beat[w] = 0
    /\ failures < MaxFailures /\ failures' = failures + 1
    /\ heart' = [heart EXCEPT ![w] = "failed"]
    /\ UNCHANGED <<taskVars, execs, active, beat, crashes, retries>>

\* Without executions the run ends, and a new one starts a new heartbeat.
RunEnds(w) ==
    /\ Idle(w) /\ ExecsOf(w) = {} /\ (heart[w] = "failed" \/ beat[w] # 0)
    /\ Cleared(w)
    /\ UNCHANGED <<taskVars, crashes, failures, retries>>

InTime ==
    \A w \in Worker : heart[w] = "up" /\ active[w] # {} => beat[w] > 0

Tick ==
    /\ InTime
    /\ \/ \E t \in Task : tasks[t].left > 0 \/ tasks[t].wait > 0
       \/ \E w \in Worker : beat[w] > 0
    /\ tasks' = [t \in Task |-> Elapsed(tasks[t])]
    /\ beat' = [w \in Worker |-> IF beat[w] = 0 THEN 0 ELSE beat[w] - 1]
    /\ UNCHANGED <<evidence, commits, execs, active, heart, crashes, failures, retries>>

\* An execution in flight, to its end.
Answering(w) ==
    \/ \E e \in ExecsOf(w) : \E outcome \in Outcome(e.task) :
           ResultArrives(w, e, outcome)
    \/ CommitStep(w) /\ UNCHANGED workerVars
    \/ ResultCommitted(w)
    \/ RunAborts(w)

\* The loop around the executions.
Upkeep(w) ==
    \/ \E S \in SUBSET Claimable : ClaimWindow(w, S)
    \/ Heartbeat(w)
    \/ RunEnds(w)

WorkerStep(w) ==
    Answering(w) \/ Upkeep(w) \/ Crash(w) \/ HeartbeatFails(w)

Init == TasksInit /\ WorkerInit

Next == Tick \/ \E w \in Worker : WorkerStep(w)

Spec == Init /\ [][Next]_vars

-----------------------------------------------------------------------------

\* Executions, and the results of which a commit is under way.
InFlight ==
    execs \cup
    {[by |-> w, task |-> commits[w].task, attempt |-> commits[w].attempt] :
        w \in {v \in Worker : ~Idle(v)}}

\* While heartbeats succeed in time, no task is executed twice at once: not
\* after a refill, not while the result of another one is committed, not
\* over a change from the first lease to the renewed one ("Keep visibility
\* alive only for results that are still in flight").
OneExecution ==
    \A e, f \in InFlight : e.task = f.task /\ e # f =>
        heart[e.by] = "failed" \/ heart[f.by] = "failed"

\* A result is refused only after a heartbeat of its own worker has failed:
\* what a worker in time brings back is never thrown away.
InTimeIsOwned ==
    \A e \in InFlight : heart[e.by] = "up" =>
        tasks[e.task].owner = e.by /\ tasks[e.task].left > 0
=============================================================================
