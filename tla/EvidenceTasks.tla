---------------------------- MODULE EvidenceTasks ----------------------------
(***************************************************************************)
(* The queue of evidence tasks and the commit of one provider result:      *)
(* DurableEvidenceQueue (storage/evidence_queue.py), the evidence_tasks    *)
(* part of control_store.py, EvidenceResultCommitter                       *)
(* (evidence/result_commit.py), CommitWriter (storage/commit_writer.py)    *)
(* and EvidenceStore.put_many_with_task_provenance.                        *)
(*                                                                         *)
(* A commit is a chain of transactions in two databases, with no           *)
(* transaction around it: the cost of the attempt, the proof, the two      *)
(* attributions, the end of the task.  A process may stop between any two. *)
(* EvidenceWorker and EvidenceBridge add the processes that run it.        *)
(*                                                                         *)
(* Abstracted: a lease is the time it has left, 0 once lease_until has     *)
(* passed, and retry_at the time left to wait; the order of a claim, by    *)
(* value, to any choice; a result to its effect (Outcome): PASS also       *)
(* stands for a DECOMPOSED domain task, EMPTY for EMPTY_EXHAUSTIVE and     *)
(* INVALID, TRANSIENT_ERROR for INCOMPLETE, PARTIAL for an unfinished      *)
(* range or domain with proofs.                                            *)
(* An operator introduced by "Mistake" is the next definition with a bug.  *)
(***************************************************************************)
EXTENDS Naturals, FiniteSets

CONSTANTS
    Task,             \* EvidenceQueryKey
    Wide,             \* the tasks over several years, or a whole domain
    Traced,           \* the tasks with a row in evidence_task_origins
    Owner, NoOwner,   \* lease_owner
    LeaseSeconds, RetryDelay,
    MaxAttempt        \* bound: attempts of a task

ASSUME EvidenceAssumption ==
    /\ Wide \subseteq Task /\ Traced \subseteq Task
    /\ NoOwner \notin Owner
    /\ LeaseSeconds \in Nat \ {0} /\ RetryDelay \in Nat /\ MaxAttempt \in Nat

VARIABLES
    tasks,     \* evidence_tasks
    metrics,   \* evidence_task_attempt_metrics: <<task, attempt>>
    cost,      \* evidence_action_cost_stats.attempts, over all kinds
    proofs,    \* tasks with a capsule and its provenance in EvidenceStore
    kinds,     \* tasks credited in evidence_host_year_task_kinds
    origins,   \* tasks credited in evidence_host_year_origins
    commits    \* commits[o]: the commit under way in the process of o

evidence == <<metrics, cost, proofs, kinds, origins>>
taskVars == <<tasks, evidence, commits>>

Terminal == {"PASS", "EMPTY"}
Retryable == {"PENDING", "TRANSIENT_ERROR"}

Outcome(t) == Terminal \cup {"TRANSIENT_ERROR"}
                       \cup (IF t \in Wide THEN {"PARTIAL"} ELSE {})

Row == [state : Terminal \cup Retryable, attempt : Nat,
        owner : Owner \cup {NoOwner}, left : Nat, wait : Nat]

Commit == [task : Task, attempt : Nat,
           outcome : Terminal \cup {"TRANSIENT_ERROR", "PARTIAL"},
           step : {"metric", "proof", "kinds", "origins", "finish"}]

NoCommit == [step |-> "none"]

EvidenceTypeOK ==
    /\ tasks \in [Task -> Row]
    /\ metrics \subseteq Task \X Nat /\ cost \in Nat
    /\ proofs \subseteq Task /\ kinds \subseteq Task /\ origins \subseteq Task
    /\ commits \in [Owner -> Commit \cup {NoCommit}]

TasksInit ==
    /\ tasks = [t \in Task |-> [state |-> "PENDING", attempt |-> 0,
                                owner |-> NoOwner, left |-> 0, wait |-> 0]]
    /\ metrics = {} /\ cost = 0 /\ proofs = {} /\ kinds = {} /\ origins = {}
    /\ commits = [o \in Owner |-> NoCommit]

-----------------------------------------------------------------------------
(* The queue.                                                              *)

\* Mistake: the end of the last lease is not awaited.
LeasedTooClaimable ==
    {t \in Task : /\ tasks[t].state \in Retryable /\ tasks[t].wait = 0
                  /\ tasks[t].attempt < MaxAttempt}

Claimable ==
    {t \in Task : /\ tasks[t].state \in Retryable
                  /\ tasks[t].left = 0 /\ tasks[t].wait = 0
                  /\ tasks[t].attempt < MaxAttempt}

\* retry_at is kept: it has passed.
ClaimedRow(o, r) ==
    [r EXCEPT !.owner = o, !.left = LeaseSeconds, !.attempt = @ + 1]

Claimed(o, S) ==
    [t \in Task |-> IF t \in S THEN ClaimedRow(o, tasks[t]) ELSE tasks[t]]

\* One transaction takes as many claimable tasks as it may.
ClaimTasks(o, S, limit) ==
    /\ S \subseteq Claimable
    /\ Cardinality(S) = IF Cardinality(Claimable) < limit
                        THEN Cardinality(Claimable) ELSE limit
    /\ tasks' = Claimed(o, S)

\* renew looks at the owner only: it brings an expired lease back.
Renewed(o, S, seconds) ==
    [t \in Task |-> IF t \in S /\ tasks[t].owner = o
                    THEN [tasks[t] EXCEPT !.left = seconds] ELSE tasks[t]]

\* The ownership that every end of a task tests, in its own transaction.
Owned(o, t) == tasks[t].owner = o /\ tasks[t].left > 0

Ended(r, state, wait) ==
    [r EXCEPT !.state = state, !.owner = NoOwner, !.left = 0, !.wait = wait]

\* finish_evidence_task with a retryable state.
Released(t) == [tasks EXCEPT ![t] = Ended(@, "TRANSIENT_ERROR", RetryDelay)]

Elapsed(r) == [r EXCEPT !.left = IF @ = 0 THEN 0 ELSE @ - 1,
                        !.wait = IF @ = 0 THEN 0 ELSE @ - 1]

-----------------------------------------------------------------------------
(* The commit of a result.                                                 *)

Positive(outcome) == outcome \in {"PASS", "PARTIAL"}

\* Mistake: a result whose attempt is recorded is taken for committed.
AfterMetricSkipping(c) ==
    IF Positive(c.outcome) /\ <<c.task, c.attempt>> \notin metrics
    THEN "proof" ELSE "finish"

AfterMetric(c) == IF Positive(c.outcome) THEN "proof" ELSE "finish"

BeginCommit(o, t, attempt, outcome) ==
    commits' = [commits EXCEPT ![o] =
        [task |-> t, attempt |-> attempt, outcome |-> outcome,
         step |-> "metric"]]

\* Mistake: the cost is added though the attempt is already recorded.
RecordMetricAgain(o) ==
    LET c == commits[o] IN
    /\ c.step = "metric"
    /\ metrics' = metrics \cup {<<c.task, c.attempt>>}
    /\ cost' = cost + 1
    /\ commits' = [commits EXCEPT ![o].step = AfterMetric(c)]
    /\ UNCHANGED <<tasks, proofs, kinds, origins>>

RecordMetric(o) ==
    LET c == commits[o] IN
    /\ c.step = "metric"
    /\ metrics' = metrics \cup {<<c.task, c.attempt>>}
    /\ cost' = IF <<c.task, c.attempt>> \in metrics THEN cost ELSE cost + 1
    /\ commits' = [commits EXCEPT ![o].step = AfterMetric(c)]
    /\ UNCHANGED <<tasks, proofs, kinds, origins>>

\* EvidenceStore: the capsule and its provenance, in one transaction.
StoreProof(o) ==
    /\ commits[o].step = "proof"
    /\ proofs' = proofs \cup {commits[o].task}
    /\ commits' = [commits EXCEPT ![o].step = "kinds"]
    /\ UNCHANGED <<tasks, metrics, cost, kinds, origins>>

\* attribute_task_host_years, its first transaction ...
CreditKind(o) ==
    LET c == commits[o] IN
    /\ c.step = "kinds"
    /\ kinds' = kinds \cup {c.task}
    /\ commits' = [commits EXCEPT ![o].step =
                       IF c.task \in Traced THEN "origins" ELSE "finish"]
    /\ UNCHANGED <<tasks, metrics, cost, proofs, origins>>

\* ... and its second, for a task with a known origin.
CreditOrigin(o) ==
    /\ commits[o].step = "origins"
    /\ origins' = origins \cup {commits[o].task}
    /\ commits' = [commits EXCEPT ![o].step = "finish"]
    /\ UNCHANGED <<tasks, metrics, cost, proofs, kinds>>

CommitStep(o) ==
    RecordMetric(o) \/ StoreProof(o) \/ CreditKind(o) \/ CreditOrigin(o)

\* The row that the end of a commit leaves; a range that is only in part
\* known waits to be asked again.
CommittedRow(c) ==
    IF c.outcome \in Terminal THEN Ended(tasks[c.task], c.outcome, 0)
    ELSE Ended(tasks[c.task], "TRANSIENT_ERROR", RetryDelay)

\* Mistake: the caller's lease is not tested.
EndTaskUnfenced(o) ==
    LET c == commits[o] IN
    /\ c.step = "finish"
    /\ tasks' = [tasks EXCEPT ![c.task] = CommittedRow(c)]
    /\ commits' = [commits EXCEPT ![o] = NoCommit]
    /\ UNCHANGED evidence

\* The end of the commit, if the task is still its process's ...
EndTask(o) ==
    LET c == commits[o] IN
    /\ c.step = "finish" /\ Owned(o, c.task)
    /\ tasks' = [tasks EXCEPT ![c.task] = CommittedRow(c)]
    /\ commits' = [commits EXCEPT ![o] = NoCommit]
    /\ UNCHANGED evidence

\* ... and the KeyError, if it is not.
EndRefused(o) ==
    /\ commits[o].step = "finish" /\ ~Owned(o, commits[o].task)
    /\ commits' = [commits EXCEPT ![o] = NoCommit]
    /\ UNCHANGED <<tasks, evidence>>

-----------------------------------------------------------------------------
(* What every process that commits must keep.                              *)

\* What the two stores know of a task with a positive result: the credit
\* follows the proof, the end follows the credit, and the cost of every
\* attempt is counted once, wherever a commit stopped and was done again
\* (commit_writer.py: "Positive proof and provider lineage are one
\* EvidenceStore transaction ... published after the proof authority").
CreditHasProof ==
    /\ origins \subseteq kinds /\ kinds \subseteq proofs
    /\ \A t \in Task : tasks[t].state = "PASS" =>
           t \in kinds /\ (t \in Traced => t \in origins)

\* Provider cost is counted once for each attempt, however often its result
\* is committed (record_evidence_task_attempt_metric).
CostCountedOnce == cost = Cardinality(metrics)

\* A task that has ended is never claimed, released or ended again, by a
\* result of an earlier attempt or another process neither.
EndedForGood ==
    [][\A t \in Task : tasks[t].state \in Terminal => tasks'[t] = tasks[t]]_tasks
=============================================================================
