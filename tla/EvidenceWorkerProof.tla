------------------------- MODULE EvidenceWorkerProof -------------------------
(***************************************************************************)
(* The safety of the evidence queue and its workers, for any number of     *)
(* tasks, workers and attempts.                                            *)
(*                                                                         *)
(* The first half is about EvidenceTasks: TasksInv is kept by each of its  *)
(* operations, whoever runs it.  CreditHasProof is not inductive: that the *)
(* end of a task follows its credit holds because every commit, at each of *)
(* its steps, has already stored what the step before it stores            *)
(* (SoundCommit).  The second half is about the workers: InTimeIsOwned     *)
(* needs to know that a heartbeat renews before the lease runs out         *)
(* (Renewing) and that it renews everything in flight (Covered).           *)
(***************************************************************************)
EXTENDS EvidenceWorker, FiniteSetTheorems, TLAPS

SoundCommit(c) ==
    /\ c.step \in {"kinds", "origins"} => c.task \in proofs
    /\ c.step = "origins" => c.task \in kinds
    /\ c.step = "finish" /\ c.outcome = "PASS" =>
          c.task \in kinds /\ (c.task \in Traced => c.task \in origins)

RowsAtRest ==
    \A t \in Task : tasks[t].state \in Terminal =>
        tasks[t].owner = NoOwner /\ tasks[t].left = 0 /\ tasks[t].wait = 0

CommitsSound == \A o \in Owner : SoundCommit(commits[o])

Counted == IsFiniteSet(metrics) /\ CostCountedOnce

TasksInv ==
    EvidenceTypeOK /\ CreditHasProof /\ Counted /\ CommitsSound /\ RowsAtRest

\* What no step does to a task that has ended.
KeepsEnds == \A t \in Task : tasks[t].state \in Terminal => tasks'[t] = tasks[t]

\* A step that ends no task.
EndsNone ==
    /\ tasks' \in [Task -> Row] /\ KeepsEnds
    /\ \A t \in Task : tasks[t].state \notin Terminal => tasks'[t].state \notin Terminal

\* A step that begins a commit, or forgets one.
CommitsFresh ==
    /\ commits' \in [Owner -> Commit \cup {NoCommit}]
    /\ \A o \in Owner :
          commits'[o] = commits[o] \/ commits'[o].step \in {"none", "metric"}

-----------------------------------------------------------------------------
(* Rows.                                                                   *)

LEMMA RowMoves ==
    ASSUME NEW r \in Row, NEW o \in Owner
    PROVE  /\ ClaimedRow(o, r) \in Row /\ ClaimedRow(o, r).state = r.state
           /\ ClaimedRow(o, r).owner = o /\ ClaimedRow(o, r).left = LeaseSeconds
           /\ ClaimedRow(o, r).attempt = r.attempt + 1
<1> USE EvidenceAssumption
<1>0. r.attempt + 1 \in Nat
  BY DEF Row
<1>1. ClaimedRow(o, r) \in Row /\ ClaimedRow(o, r).state = r.state
  <2>1. \A n \in Nat, m \in Nat : LET q == [r EXCEPT !.owner = o, !.left = n, !.attempt = m]
                                  IN q \in Row /\ q.state = r.state
    BY DEF Row
  <2> QED
    BY <1>0, <2>1 DEF ClaimedRow
<1>2. /\ ClaimedRow(o, r).owner = o /\ ClaimedRow(o, r).left = LeaseSeconds
      /\ ClaimedRow(o, r).attempt = r.attempt + 1
  BY DEF Row, ClaimedRow
<1> QED
  BY <1>1, <1>2

LEMMA RowElapses ==
    ASSUME NEW r \in Row
    PROVE  /\ Elapsed(r) \in Row /\ Elapsed(r).state = r.state
           /\ Elapsed(r).owner = r.owner /\ Elapsed(r).attempt = r.attempt
           /\ r.left > 0 => Elapsed(r).left = r.left - 1
           /\ r.left = 0 /\ r.wait = 0 => Elapsed(r) = r
<1>1. Elapsed(r) \in Row /\ Elapsed(r).state = r.state
  <2> DEFINE n == IF r.left = 0 THEN 0 ELSE r.left - 1
             m == IF r.wait = 0 THEN 0 ELSE r.wait - 1
  <2>1. Elapsed(r) = [r EXCEPT !.left = n, !.wait = m]
    BY DEF Elapsed
  <2>2. n \in Nat /\ m \in Nat
    BY DEF Row
  <2> HIDE DEF n, m
  <2>3. [r EXCEPT !.left = n, !.wait = m] \in Row
    BY <2>2 DEF Row
  <2>4. [r EXCEPT !.left = n, !.wait = m].state = r.state
    BY DEF Row
  <2> QED
    BY <2>1, <2>3, <2>4
<1>2. Elapsed(r).owner = r.owner /\ Elapsed(r).attempt = r.attempt
  BY DEF Row, Elapsed
<1>3. r.left > 0 => Elapsed(r).left = r.left - 1
  BY DEF Row, Elapsed
<1>4. r.left = 0 /\ r.wait = 0 => Elapsed(r) = r
  BY DEF Row, Elapsed
<1> QED
  BY <1>1, <1>2, <1>3, <1>4

LEMMA EndedMoves ==
    ASSUME NEW r \in Row, NEW s \in Terminal \cup Retryable, NEW n \in Nat
    PROVE  /\ Ended(r, s, n) \in Row /\ Ended(r, s, n).state = s
           /\ Ended(r, s, n).owner = NoOwner /\ Ended(r, s, n).left = 0
           /\ Ended(r, s, n).wait = n /\ Ended(r, s, n).attempt = r.attempt
BY DEF Row, Ended

-----------------------------------------------------------------------------
(* The operations of the queue.                                            *)

LEMMA TasksInitOk ==
    ASSUME TasksInit
    PROVE  TasksInv
<1>1. EvidenceTypeOK
  BY EvidenceAssumption DEF TasksInit, EvidenceTypeOK, Row, Retryable, NoCommit
<1>2. CreditHasProof /\ RowsAtRest
  BY DEF TasksInit, CreditHasProof, RowsAtRest, Terminal
<1>3. Counted
  BY FS_EmptySet DEF TasksInit, Counted, CostCountedOnce
<1>4. CommitsSound
  BY DEF TasksInit, CommitsSound, SoundCommit, NoCommit
<1> QED
  BY <1>1, <1>2, <1>3, <1>4 DEF TasksInv

LEMMA ClaimEndsNone ==
    ASSUME TasksInv, NEW o \in Owner, NEW S, NEW n, ClaimTasks(o, S, n)
    PROVE  /\ EndsNone
           /\ S \subseteq Task
           /\ \A t \in S : /\ tasks[t].left = 0 /\ tasks'[t].owner = o
                           /\ tasks'[t].left = LeaseSeconds
                           /\ tasks'[t].attempt = tasks[t].attempt + 1
           /\ \A t \in Task \ S : tasks'[t] = tasks[t]
<1>1. tasks \in [Task -> Row] /\ tasks' = Claimed(o, S) /\ S \subseteq Claimable
  BY DEF TasksInv, EvidenceTypeOK, ClaimTasks
<1>2. \A t \in Task : tasks'[t] = IF t \in S THEN ClaimedRow(o, tasks[t]) ELSE tasks[t]
  BY <1>1 DEF Claimed
<1>3. \A t \in S : t \in Task /\ tasks[t].state \notin Terminal /\ tasks[t].left = 0
  BY <1>1 DEF Claimable, Terminal, Retryable
<1>4. \A t \in S : /\ ClaimedRow(o, tasks[t]) \in Row
                   /\ ClaimedRow(o, tasks[t]).state = tasks[t].state
                   /\ ClaimedRow(o, tasks[t]).owner = o
                   /\ ClaimedRow(o, tasks[t]).left = LeaseSeconds
                   /\ ClaimedRow(o, tasks[t]).attempt = tasks[t].attempt + 1
  BY <1>1, <1>3, RowMoves
<1>5. tasks' \in [Task -> Row]
  BY <1>1, <1>2, <1>4 DEF Claimed
<1>6. EndsNone
  BY <1>2, <1>3, <1>4, <1>5 DEF EndsNone, KeepsEnds
<1> QED
  BY <1>2, <1>3, <1>4, <1>6

LEMMA RenewEndsNone ==
    ASSUME TasksInv, NEW o \in Owner, NEW S, NEW n \in Nat, tasks' = Renewed(o, S, n)
    PROVE  /\ EndsNone
           /\ \A t \in Task : /\ tasks'[t].owner = tasks[t].owner
                              /\ tasks'[t].attempt = tasks[t].attempt
                              /\ tasks[t].owner # o => tasks'[t] = tasks[t]
                              /\ t \in S /\ tasks[t].owner = o => tasks'[t].left = n
<1>1. tasks \in [Task -> Row]
  BY DEF TasksInv, EvidenceTypeOK
<1>2. \A t \in Task : tasks'[t] = IF t \in S /\ tasks[t].owner = o
                                 THEN [tasks[t] EXCEPT !.left = n] ELSE tasks[t]
  BY DEF Renewed
<1>3. \A t \in Task : /\ [tasks[t] EXCEPT !.left = n] \in Row
                      /\ [tasks[t] EXCEPT !.left = n].state = tasks[t].state
                      /\ [tasks[t] EXCEPT !.left = n].owner = tasks[t].owner
                      /\ [tasks[t] EXCEPT !.left = n].attempt = tasks[t].attempt
                      /\ [tasks[t] EXCEPT !.left = n].left = n
  BY <1>1 DEF Row
<1>4. tasks' \in [Task -> Row]
  BY <1>1, <1>2, <1>3 DEF Renewed
<1>5. \A t \in Task : tasks[t].state \in Terminal => tasks[t].owner # o
  BY EvidenceAssumption DEF TasksInv, RowsAtRest
<1>6. EndsNone
  BY <1>2, <1>3, <1>4, <1>5 DEF EndsNone, KeepsEnds
<1> QED
  BY <1>2, <1>3, <1>6

LEMMA ElapseEndsNone ==
    ASSUME TasksInv, tasks' = [t \in Task |-> Elapsed(tasks[t])]
    PROVE  /\ EndsNone
           /\ \A t \in Task : /\ tasks'[t].owner = tasks[t].owner
                              /\ tasks'[t].attempt = tasks[t].attempt
                              /\ tasks[t].left > 0 => tasks'[t].left = tasks[t].left - 1
<1>1. tasks \in [Task -> Row] /\ RowsAtRest
  BY DEF TasksInv, EvidenceTypeOK
<1>2. \A t \in Task :
          /\ Elapsed(tasks[t]) \in Row /\ Elapsed(tasks[t]).state = tasks[t].state
          /\ Elapsed(tasks[t]).owner = tasks[t].owner
          /\ Elapsed(tasks[t]).attempt = tasks[t].attempt
          /\ tasks[t].left > 0 => Elapsed(tasks[t]).left = tasks[t].left - 1
          /\ tasks[t].left = 0 /\ tasks[t].wait = 0 => Elapsed(tasks[t]) = tasks[t]
  BY <1>1, RowElapses
<1> QED
  BY <1>1, <1>2 DEF EndsNone, KeepsEnds, RowsAtRest

LEMMA ReleaseEndsNone ==
    ASSUME TasksInv, NEW o \in Owner, NEW t \in Task, Owned(o, t), tasks' = Released(t)
    PROVE  /\ EndsNone
           /\ tasks'[t].owner = NoOwner /\ tasks'[t].attempt = tasks[t].attempt
           /\ \A u \in Task \ {t} : tasks'[u] = tasks[u]
<1>1. tasks \in [Task -> Row] /\ RowsAtRest
  BY DEF TasksInv, EvidenceTypeOK
<1>2. tasks[t].state \notin Terminal
  BY <1>1, EvidenceAssumption DEF Owned, RowsAtRest
<1>3. /\ Ended(tasks[t], "TRANSIENT_ERROR", RetryDelay) \in Row
      /\ Ended(tasks[t], "TRANSIENT_ERROR", RetryDelay).state = "TRANSIENT_ERROR"
      /\ Ended(tasks[t], "TRANSIENT_ERROR", RetryDelay).owner = NoOwner
      /\ Ended(tasks[t], "TRANSIENT_ERROR", RetryDelay).attempt = tasks[t].attempt
  BY <1>1, EndedMoves, EvidenceAssumption DEF Retryable
<1>4. /\ tasks'[t] = Ended(tasks[t], "TRANSIENT_ERROR", RetryDelay)
      /\ \A u \in Task \ {t} : tasks'[u] = tasks[u]
      /\ tasks' \in [Task -> Row]
  BY <1>1, <1>3 DEF Released
<1> QED
  BY <1>2, <1>3, <1>4 DEF EndsNone, KeepsEnds, Terminal

-----------------------------------------------------------------------------
(* The operations of a commit.                                             *)

LEMMA QueueStep ==
    ASSUME TasksInv, EndsNone, CommitsFresh, UNCHANGED evidence
    PROVE  TasksInv' /\ KeepsEnds
<1> USE DEF evidence
<1>1. EvidenceTypeOK'
  BY DEF TasksInv, EvidenceTypeOK, EndsNone, CommitsFresh
<1>2. \A t \in Task : tasks'[t].state \in Terminal =>
          tasks[t].state \in Terminal /\ tasks'[t] = tasks[t]
  BY DEF EndsNone, KeepsEnds
<1>3. RowsAtRest'
  BY <1>2 DEF TasksInv, RowsAtRest
<1>4. CreditHasProof'
  BY <1>2 DEF TasksInv, CreditHasProof, Terminal
<1>5. Counted'
  BY DEF TasksInv, Counted, CostCountedOnce
<1>6. CommitsSound'
  BY DEF TasksInv, CommitsSound, SoundCommit, CommitsFresh
<1> QED
  BY <1>1, <1>3, <1>4, <1>5, <1>6 DEF TasksInv, EndsNone

LEMMA CommitTypes ==
    ASSUME TasksInv, NEW o \in Owner, commits[o].step # "none"
    PROVE  /\ commits[o] \in Commit /\ commits[o].task \in Task
           /\ commits[o].attempt \in Nat
           /\ \A s \in {"metric", "proof", "kinds", "origins", "finish"} :
                 /\ [commits[o] EXCEPT !.step = s] \in Commit
                 /\ [commits[o] EXCEPT !.step = s].step = s
                 /\ [commits[o] EXCEPT !.step = s].task = commits[o].task
                 /\ [commits[o] EXCEPT !.step = s].outcome = commits[o].outcome
                 /\ [commits[o] EXCEPT !.step = s].attempt = commits[o].attempt
<1>1. commits[o] \in Commit
  BY DEF TasksInv, EvidenceTypeOK, NoCommit
<1> QED
  BY <1>1 DEF Commit

\* What a step of the commit of o does to the commits.
Advances(o) ==
    /\ commits' \in [Owner -> Commit \cup {NoCommit}]
    /\ commits[o].step # "none" /\ commits'[o].step # "none"
    /\ commits'[o].task = commits[o].task /\ commits'[o].attempt = commits[o].attempt
    /\ commits'[o].outcome = commits[o].outcome
    /\ \A p \in Owner \ {o} : commits'[p] = commits[p]

LEMMA StepAdvances ==
    ASSUME TasksInv, NEW o \in Owner, commits[o].step # "none",
           NEW s \in {"metric", "proof", "kinds", "origins", "finish"},
           commits' = [commits EXCEPT ![o].step = s]
    PROVE  Advances(o) /\ commits'[o].step = s
<1>1. commits \in [Owner -> Commit \cup {NoCommit}]
  BY DEF TasksInv, EvidenceTypeOK
<1>2. /\ commits'[o] = [commits[o] EXCEPT !.step = s]
      /\ \A p \in Owner \ {o} : commits'[p] = commits[p]
  BY <1>1
<1>3. commits' \in [Owner -> Commit \cup {NoCommit}]
  BY <1>1, CommitTypes
<1> QED
  BY <1>2, <1>3, CommitTypes DEF Advances

LEMMA CommitStepKeeps ==
    ASSUME TasksInv, NEW o \in Owner, CommitStep(o)
    PROVE  TasksInv' /\ Advances(o) /\ UNCHANGED tasks
<1> DEFINE c == commits[o]
<1>0. /\ EvidenceTypeOK /\ CreditHasProof /\ Counted /\ CommitsSound /\ RowsAtRest
      /\ SoundCommit(c)
  BY DEF TasksInv, CommitsSound
<1>1. CASE RecordMetric(o)
  <2>1. /\ c.step = "metric" /\ AfterMetric(c) \in {"proof", "finish"}
        /\ AfterMetric(c) = "finish" => c.outcome # "PASS"
    BY <1>1 DEF RecordMetric, AfterMetric, Positive
  <2>2. Advances(o) /\ commits'[o].step = AfterMetric(c)
    BY <1>1, <2>1, StepAdvances DEF RecordMetric
  <2>3. /\ UNCHANGED <<tasks, proofs, kinds, origins>>
        /\ metrics' = metrics \cup {<<c.task, c.attempt>>}
        /\ cost' = IF <<c.task, c.attempt>> \in metrics THEN cost ELSE cost + 1
    BY <1>1 DEF RecordMetric
  <2>4. metrics' \subseteq Task \X Nat
    <3>1. c.task \in Task /\ c.attempt \in Nat
      BY <2>1, CommitTypes
    <3> QED
      BY <1>0, <2>3, <3>1 DEF EvidenceTypeOK
  <2>5. Counted' /\ cost' \in Nat
    BY <1>0, <2>3, FS_AddElement, FS_CardinalityType DEF Counted, CostCountedOnce, EvidenceTypeOK
  <2>6. CommitsSound'
    BY <1>0, <2>1, <2>2, <2>3 DEF CommitsSound, SoundCommit, Advances
  <2> QED
    BY <1>0, <2>2, <2>3, <2>4, <2>5, <2>6
       DEF TasksInv, EvidenceTypeOK, CreditHasProof, RowsAtRest, Advances
<1>2. CASE StoreProof(o)
  <2>1. c.step = "proof" /\ c.task \in Task
    BY <1>2, CommitTypes DEF StoreProof
  <2>2. Advances(o) /\ commits'[o].step = "kinds"
    BY <1>2, <2>1, StepAdvances DEF StoreProof
  <2>3. UNCHANGED <<tasks, metrics, cost, kinds, origins>> /\ proofs' = proofs \cup {c.task}
    BY <1>2 DEF StoreProof
  <2>4. CommitsSound'
    BY <1>0, <2>1, <2>2, <2>3 DEF CommitsSound, SoundCommit, Advances
  <2> QED
    BY <1>0, <2>1, <2>2, <2>3, <2>4
       DEF TasksInv, EvidenceTypeOK, CreditHasProof, Counted, CostCountedOnce, RowsAtRest, Advances
<1>3. CASE CreditKind(o)
  <2>1. c.step = "kinds" /\ c.task \in Task /\ c.task \in proofs
    BY <1>0, <1>3, CommitTypes DEF CreditKind, SoundCommit
  <2>2. Advances(o) /\ commits'[o].step = IF c.task \in Traced THEN "origins" ELSE "finish"
    BY <1>3, <2>1, StepAdvances DEF CreditKind
  <2>3. UNCHANGED <<tasks, metrics, cost, proofs, origins>> /\ kinds' = kinds \cup {c.task}
    BY <1>3 DEF CreditKind
  <2>4. CommitsSound'
    BY <1>0, <2>1, <2>2, <2>3 DEF CommitsSound, SoundCommit, Advances
  <2> QED
    BY <1>0, <2>1, <2>2, <2>3, <2>4
       DEF TasksInv, EvidenceTypeOK, CreditHasProof, Counted, CostCountedOnce, RowsAtRest, Advances
<1>4. CASE CreditOrigin(o)
  <2>1. c.step = "origins" /\ c.task \in Task /\ c.task \in kinds
    BY <1>0, <1>4, CommitTypes DEF CreditOrigin, SoundCommit
  <2>2. Advances(o) /\ commits'[o].step = "finish"
    BY <1>4, <2>1, StepAdvances DEF CreditOrigin
  <2>3. UNCHANGED <<tasks, metrics, cost, proofs, kinds>> /\ origins' = origins \cup {c.task}
    BY <1>4 DEF CreditOrigin
  <2>4. CommitsSound'
    BY <1>0, <2>1, <2>2, <2>3 DEF CommitsSound, SoundCommit, Advances
  <2> QED
    BY <1>0, <2>1, <2>2, <2>3, <2>4
       DEF TasksInv, EvidenceTypeOK, CreditHasProof, Counted, CostCountedOnce, RowsAtRest, Advances
<1> QED
  BY <1>1, <1>2, <1>3, <1>4 DEF CommitStep

LEMMA CommitForgotten ==
    ASSUME TasksInv, NEW o \in Owner, commits' = [commits EXCEPT ![o] = NoCommit]
    PROVE  CommitsFresh /\ commits'[o] = NoCommit
                        /\ \A p \in Owner \ {o} : commits'[p] = commits[p]
<1>1. commits \in [Owner -> Commit \cup {NoCommit}]
  BY DEF TasksInv, EvidenceTypeOK
<1> QED
  BY <1>1 DEF CommitsFresh, NoCommit

LEMMA CommitBegins ==
    ASSUME TasksInv, NEW o \in Owner, NEW t \in Task, NEW n \in Nat,
           NEW a \in Terminal \cup {"TRANSIENT_ERROR", "PARTIAL"}, BeginCommit(o, t, n, a)
    PROVE  /\ CommitsFresh
           /\ commits'[o].task = t /\ commits'[o].attempt = n /\ commits'[o].step = "metric"
           /\ \A p \in Owner \ {o} : commits'[p] = commits[p]
<1> DEFINE c == [task |-> t, attempt |-> n, outcome |-> a, step |-> "metric"]
<1>1. commits \in [Owner -> Commit \cup {NoCommit}]
  BY DEF TasksInv, EvidenceTypeOK
<1>2. c \in Commit
  BY DEF Commit
<1>3. commits' = [commits EXCEPT ![o] = c]
  BY DEF BeginCommit
<1> QED
  BY <1>1, <1>2, <1>3 DEF CommitsFresh

LEMMA EndTaskKeeps ==
    ASSUME TasksInv, NEW o \in Owner, EndTask(o)
    PROVE  /\ TasksInv' /\ KeepsEnds
           /\ commits[o].task \in Task /\ Owned(o, commits[o].task)
           /\ commits'[o] = NoCommit
           /\ tasks'[commits[o].task].owner = NoOwner
           /\ tasks'[commits[o].task].attempt = tasks[commits[o].task].attempt
           /\ \A t \in Task \ {commits[o].task} : tasks'[t] = tasks[t]
           /\ \A p \in Owner \ {o} : commits'[p] = commits[p]
<1> DEFINE c == commits[o]
<1>0. /\ EvidenceTypeOK /\ CreditHasProof /\ Counted /\ CommitsSound /\ RowsAtRest
      /\ SoundCommit(c)
  BY DEF TasksInv, CommitsSound
<1>1. /\ c.step = "finish" /\ Owned(o, c.task) /\ UNCHANGED evidence
      /\ tasks' = [tasks EXCEPT ![c.task] = CommittedRow(c)]
      /\ commits' = [commits EXCEPT ![o] = NoCommit]
  BY DEF EndTask
<1>2. c \in Commit /\ c.task \in Task
  BY <1>1, CommitTypes
<1>3. tasks \in [Task -> Row] /\ commits \in [Owner -> Commit \cup {NoCommit}]
  BY <1>0 DEF EvidenceTypeOK
<1>4. tasks[c.task].state \notin Terminal
  BY <1>0, <1>1, <1>2, EvidenceAssumption DEF Owned, RowsAtRest
<1>5. PICK s \in Terminal \cup Retryable, n \in Nat :
          /\ CommittedRow(c) = Ended(tasks[c.task], s, n)
          /\ s \in Terminal => s = c.outcome /\ n = 0
  <2>1. CASE c.outcome \in Terminal
    BY <2>1 DEF CommittedRow
  <2>2. CASE c.outcome \notin Terminal
    BY <2>2, EvidenceAssumption DEF CommittedRow, Terminal, Retryable
  <2> QED
    BY <2>1, <2>2
<1>6. /\ CommittedRow(c) \in Row /\ CommittedRow(c).state = s
      /\ CommittedRow(c).owner = NoOwner /\ CommittedRow(c).left = 0
      /\ CommittedRow(c).wait = n /\ CommittedRow(c).attempt = tasks[c.task].attempt
  BY <1>2, <1>3, <1>5, EndedMoves
<1>7. /\ tasks' \in [Task -> Row] /\ tasks'[c.task] = CommittedRow(c)
      /\ \A t \in Task \ {c.task} : tasks'[t] = tasks[t]
  BY <1>1, <1>2, <1>3, <1>6
<1>8. /\ CommitsFresh /\ commits'[o] = NoCommit
      /\ \A p \in Owner \ {o} : commits'[p] = commits[p]
  BY <1>1, CommitForgotten
<1>9. RowsAtRest'
  BY <1>0, <1>5, <1>6, <1>7 DEF RowsAtRest
<1>10. CreditHasProof'
  BY <1>0, <1>1, <1>2, <1>5, <1>6, <1>7 DEF CreditHasProof, SoundCommit, Terminal, evidence
<1>11. EvidenceTypeOK' /\ Counted'
  BY <1>0, <1>1, <1>7, <1>8 DEF EvidenceTypeOK, Counted, CostCountedOnce, evidence, CommitsFresh
<1>12. CommitsSound'
  BY <1>0, <1>1, <1>8 DEF CommitsSound, SoundCommit, evidence, CommitsFresh
<1>13. KeepsEnds
  BY <1>4, <1>7 DEF KeepsEnds
<1> QED
  BY <1>1, <1>2, <1>6, <1>7, <1>8, <1>9, <1>10, <1>11, <1>12, <1>13 DEF TasksInv

-----------------------------------------------------------------------------
(* The workers.                                                            *)

\* A heartbeat that is alive renews each key before its lease runs out ...
Renewing(w) == \A t \in active[w] : tasks[t].owner = w /\ tasks[t].left > beat[w]

\* ... and everything in flight is among its keys, once.
Covered(w) ==
    /\ ~Idle(w) => commits[w].task \in active[w]
    /\ \A e \in ExecsOf(w) :
          /\ e.task \in active[w]
          /\ \A f \in ExecsOf(w) : f.task = e.task => f = e
          /\ ~Idle(w) => commits[w].task # e.task

WindowOk(w) == heart[w] = "up" => Renewing(w) /\ Covered(w)

SafetyInv == TasksInv /\ WorkerTypeOK /\ \A w \in Worker : WindowOk(w)

LEMMA InitOk ==
    ASSUME Init
    PROVE  SafetyInv
<1>1. TasksInv
  BY TasksInitOk DEF Init
<1>2. WorkerTypeOK
  BY <1>1, WorkerAssumption DEF Init, WorkerInit, WorkerTypeOK, TasksInv
<1>3. \A w \in Worker : WindowOk(w)
  BY WorkerAssumption
     DEF Init, WorkerInit, TasksInit, WindowOk, Renewing, Covered, Idle, ExecsOf
<1> QED
  BY <1>1, <1>2, <1>3 DEF SafetyInv

LEMMA Types ==
    ASSUME SafetyInv
    PROVE  /\ TasksInv /\ tasks \in [Task -> Row]
           /\ commits \in [Owner -> Commit \cup {NoCommit}]
           /\ execs \subseteq Execution /\ active \in [Worker -> SUBSET Task]
           /\ heart \in [Worker -> {"up", "failed"}] /\ beat \in [Worker -> Nat]
           /\ beat \in [Worker -> 0..Interval]
           /\ crashes \in Nat /\ failures \in Nat /\ retries \in Nat
           /\ Worker \subseteq Owner /\ NoOwner \notin Worker
           /\ Interval \in Nat /\ LeaseSeconds \in Nat /\ LeaseSeconds > Interval
           /\ \A t \in Task : tasks[t].left \in Nat
<1>1. /\ TasksInv /\ tasks \in [Task -> Row]
      /\ commits \in [Owner -> Commit \cup {NoCommit}]
      /\ execs \subseteq Execution /\ active \in [Worker -> SUBSET Task]
      /\ heart \in [Worker -> {"up", "failed"}]
      /\ beat \in [Worker -> 0..Interval]
      /\ crashes \in Nat /\ failures \in Nat /\ retries \in Nat
  BY DEF SafetyInv, WorkerTypeOK, EvidenceTypeOK
<1>2. /\ Worker \subseteq Owner /\ NoOwner \notin Worker
      /\ Interval \in Nat /\ LeaseSeconds \in Nat /\ LeaseSeconds > Interval
  BY EvidenceAssumption, WorkerAssumption
<1>3. beat \in [Worker -> Nat]
  BY <1>1, <1>2
<1>4. \A t \in Task : tasks[t].left \in Nat
  BY <1>1 DEF Row
<1> QED
  BY <1>1, <1>2, <1>3, <1>4

\* A step leaves worker v and its live leases alone.
Apart(v) ==
    /\ heart'[v] = heart[v] /\ beat'[v] = beat[v] /\ active'[v] = active[v]
    /\ commits'[v] = commits[v] /\ ExecsOf(v)' = ExecsOf(v)
    /\ \A t \in Task : tasks[t].owner = v /\ tasks[t].left > 0 => tasks'[t] = tasks[t]

LEMMA ApartKeeps ==
    ASSUME SafetyInv, NEW v \in Worker, Apart(v)
    PROVE  WindowOk(v)'
<1> SUFFICES ASSUME heart[v] = "up"
             PROVE  Renewing(v)' /\ Covered(v)'
  BY DEF WindowOk, Apart
<1>1. Renewing(v) /\ Covered(v)
  BY DEF SafetyInv, WindowOk
<1>2. Renewing(v)'
  <2>1. SUFFICES ASSUME NEW t \in active[v]
                 PROVE  tasks'[t].owner = v /\ tasks'[t].left > beat[v]
    BY DEF Renewing, Apart
  <2>2. t \in Task /\ beat[v] \in Nat /\ tasks[t].left \in Nat
    BY Types
  <2>3. tasks[t].owner = v /\ tasks[t].left > beat[v]
    BY <1>1 DEF Renewing
  <2>4. tasks[t].left > 0
    BY <2>2, <2>3
  <2> QED
    BY <2>2, <2>3, <2>4 DEF Apart
<1>3. Covered(v)'
  BY <1>1 DEF Covered, Apart, Idle
<1> QED
  BY <1>2, <1>3

LEMMA TickKeeps ==
    ASSUME SafetyInv, Tick
    PROVE  SafetyInv' /\ KeepsEnds
<1>1. /\ tasks' = [t \in Task |-> Elapsed(tasks[t])] /\ InTime
      /\ beat' = [w \in Worker |-> IF beat[w] = 0 THEN 0 ELSE beat[w] - 1]
      /\ UNCHANGED <<evidence, commits, execs, active, heart, crashes, failures, retries>>
  BY DEF Tick
<1>2. TasksInv' /\ KeepsEnds
  BY <1>1, Types, ElapseEndsNone, QueueStep DEF CommitsFresh
<1>3. beat' \in [Worker -> 0..Interval]
  BY <1>1, Types
<1>4. WorkerTypeOK'
  BY <1>1, <1>2, <1>3 DEF SafetyInv, WorkerTypeOK, TasksInv
<1>5. ASSUME NEW w \in Worker PROVE WindowOk(w)'
  <2> SUFFICES ASSUME heart[w] = "up" PROVE Renewing(w)' /\ Covered(w)'
    BY <1>1 DEF WindowOk
  <2>1. Renewing(w) /\ Covered(w)
    BY DEF SafetyInv, WindowOk
  <2>2. Renewing(w)'
    <3>1. SUFFICES ASSUME NEW t \in active[w]
                   PROVE  tasks'[t].owner = w /\ tasks'[t].left > beat'[w]
      BY <1>1 DEF Renewing
    <3>2. t \in Task /\ tasks[t].left \in Nat /\ beat[w] \in Nat
      BY Types
    <3>3. tasks[t].owner = w /\ tasks[t].left > beat[w] /\ beat[w] > 0
      BY <1>1, <2>1 DEF Renewing, InTime
    <3>4. tasks'[t].owner = w /\ tasks'[t].left = tasks[t].left - 1
      BY <1>1, <3>2, <3>3, Types, ElapseEndsNone
    <3>5. beat'[w] = beat[w] - 1
      BY <1>1, <3>3
    <3> QED
      BY <3>2, <3>3, <3>4, <3>5
  <2>3. Covered(w)'
    BY <1>1, <2>1 DEF Covered, Idle, ExecsOf
  <2> QED
    BY <2>2, <2>3
<1> QED
  BY <1>2, <1>4, <1>5 DEF SafetyInv

-----------------------------------------------------------------------------
(* The steps of a worker.                                                  *)

\* Who has left its window has nothing in flight.
LEMMA ClearedOk ==
    ASSUME SafetyInv, NEW w \in Worker, Cleared(w), commits'[w] = NoCommit
    PROVE  /\ WindowOk(w)'
           /\ execs' \subseteq Execution /\ active' \in [Worker -> SUBSET Task]
           /\ heart' \in [Worker -> {"up", "failed"}] /\ beat' \in [Worker -> 0..Interval]
           /\ \A v \in Worker \ {w} :
                 /\ heart'[v] = heart[v] /\ beat'[v] = beat[v] /\ active'[v] = active[v]
                 /\ ExecsOf(v)' = ExecsOf(v)
<1>1. /\ execs' = execs \ ExecsOf(w) /\ active' = [active EXCEPT ![w] = {}]
      /\ heart' = [heart EXCEPT ![w] = "up"] /\ beat' = [beat EXCEPT ![w] = 0]
  BY DEF Cleared
<1>2. active'[w] = {} /\ ExecsOf(w)' = {} /\ commits'[w] = NoCommit
  BY <1>1, Types DEF ExecsOf
<1>3. WindowOk(w)'
  BY <1>2 DEF WindowOk, Renewing, Covered, Idle
<1>4. \A v \in Worker \ {w} :
          /\ heart'[v] = heart[v] /\ beat'[v] = beat[v] /\ active'[v] = active[v]
  BY <1>1, Types
<1>5. \A v \in Worker \ {w} : ExecsOf(v)' = ExecsOf(v)
  BY <1>1 DEF ExecsOf
<1>6. execs' \subseteq Execution /\ active' \in [Worker -> SUBSET Task]
  BY <1>1, Types
<1>7. heart' \in [Worker -> {"up", "failed"}] /\ beat' \in [Worker -> 0..Interval]
  BY <1>1, Types
<1> QED
  BY <1>3, <1>4, <1>5, <1>6, <1>7

LEMMA ClaimWindowKeeps ==
    ASSUME SafetyInv, NEW w \in Worker, NEW S \in SUBSET Claimable, ClaimWindow(w, S)
    PROVE  SafetyInv' /\ KeepsEnds
<1> DEFINE new == {[by |-> w, task |-> t, attempt |-> tasks'[t].attempt] : t \in S}
<1>1. /\ Idle(w) /\ ClaimTasks(w, S, Window - Cardinality(ExecsOf(w)))
      /\ execs' = execs \cup new /\ active' = [active EXCEPT ![w] = @ \cup S]
      /\ UNCHANGED <<evidence, commits, heart, beat, crashes, failures, retries>>
  BY DEF ClaimWindow
<1>2. /\ EndsNone /\ S \subseteq Task
      /\ \A t \in S : /\ tasks[t].left = 0 /\ tasks'[t].owner = w
                      /\ tasks'[t].left = LeaseSeconds
                      /\ tasks'[t].attempt = tasks[t].attempt + 1
      /\ \A t \in Task \ S : tasks'[t] = tasks[t]
  <2> HIDE DEF new
  <2> QED
    BY <1>1, Types, ClaimEndsNone
<1>3. TasksInv' /\ KeepsEnds
  BY <1>1, <1>2, Types, QueueStep DEF CommitsFresh
<1>4. \A t \in S : tasks'[t].attempt \in Nat
  BY <1>2, Types DEF EndsNone, Row
<1>5. new \subseteq Execution
  BY <1>2, <1>4 DEF Execution
<1>6. WorkerTypeOK'
  <2>1. active' \in [Worker -> SUBSET Task] /\ active'[w] = active[w] \cup S
    BY <1>1, <1>2, Types
  <2> QED
    BY <1>1, <1>3, <1>5, <2>1, Types DEF WorkerTypeOK, TasksInv
<1>7. ASSUME NEW v \in Worker, v # w PROVE WindowOk(v)'
  <2>1. ExecsOf(v)' = ExecsOf(v)
    BY <1>1, <1>7 DEF ExecsOf
  <2>2. active'[v] = active[v]
    BY <1>1, <1>7, Types
  <2>3. \A t \in Task : tasks[t].owner = v /\ tasks[t].left > 0 => tasks'[t] = tasks[t]
    BY <1>2
  <2> QED
    BY <1>1, <2>1, <2>2, <2>3, ApartKeeps DEF Apart
<1>8. WindowOk(w)'
  <2> SUFFICES ASSUME heart[w] = "up" PROVE Renewing(w)' /\ Covered(w)'
    BY <1>1 DEF WindowOk
  <2>1. Renewing(w) /\ Covered(w)
    BY DEF SafetyInv, WindowOk
  <2>2. active'[w] = active[w] \cup S /\ active[w] \subseteq Task
    BY <1>1, Types
  <2>3. \A t \in active[w] : tasks[t].left > 0
    <3>1. beat[w] \in Nat /\ \A t \in active[w] : tasks[t].left \in Nat
      BY <2>2, Types
    <3> QED
      BY <2>1, <3>1 DEF Renewing
  <2>4. active[w] \cap S = {}
    BY <1>2, <2>3
  <2>5. beat[w] \in 0..Interval /\ beat'[w] = beat[w]
    BY <1>1, Types
  <2>6. Renewing(w)'
    <3>1. \A t \in active[w] : tasks'[t].owner = w /\ tasks'[t].left > beat'[w]
      BY <1>2, <2>1, <2>2, <2>4, <2>5 DEF Renewing
    <3>2. \A t \in S : tasks'[t].owner = w /\ tasks'[t].left > beat'[w]
      BY <1>2, <2>5, Types
    <3> QED
      BY <2>2, <3>1, <3>2 DEF Renewing
  <2>7. ExecsOf(w)' = ExecsOf(w) \cup new
    BY <1>1 DEF ExecsOf
  <2>8. \A e \in ExecsOf(w) : e.task \in active[w] /\ \A f \in ExecsOf(w) : f.task = e.task => f = e
    BY <2>1 DEF Covered
  <2>9. \A e \in new : e.task \in S /\ \A f \in new : f.task = e.task => f = e
    OBVIOUS
  <2>10. Covered(w)'
    BY <1>1, <2>2, <2>4, <2>7, <2>8, <2>9 DEF Covered, Idle
  <2> QED
    BY <2>6, <2>10
<1> QED
  BY <1>3, <1>6, <1>7, <1>8 DEF SafetyInv

LEMMA ResultArrivesKeeps ==
    ASSUME SafetyInv, NEW w \in Worker, NEW e \in ExecsOf(w), NEW a \in Outcome(e.task),
           ResultArrives(w, e, a)
    PROVE  SafetyInv' /\ KeepsEnds
<1>1. /\ Idle(w) /\ BeginCommit(w, e.task, e.attempt, a) /\ execs' = execs \ {e}
      /\ retries' = (IF a \in Terminal THEN retries ELSE retries + 1)
      /\ UNCHANGED <<tasks, evidence, active, heart, beat, crashes, failures>>
  BY DEF ResultArrives
<1>2. e \in execs /\ e.by = w /\ e.task \in Task /\ e.attempt \in Nat
  BY Types DEF ExecsOf, Execution
<1>3. a \in Terminal \cup {"TRANSIENT_ERROR", "PARTIAL"}
  BY DEF Outcome
<1>4. /\ CommitsFresh /\ commits'[w].task = e.task /\ commits'[w].step = "metric"
      /\ \A p \in Owner \ {w} : commits'[p] = commits[p]
  BY <1>1, <1>2, <1>3, Types, CommitBegins
<1>5. TasksInv' /\ KeepsEnds
  BY <1>1, <1>4, Types, QueueStep DEF EndsNone, KeepsEnds
<1>6. WorkerTypeOK'
  <2>1. retries' \in Nat
    BY <1>1, Types
  <2> QED
    BY <1>1, <1>5, <2>1, Types DEF WorkerTypeOK, TasksInv
<1>7. ASSUME NEW v \in Worker, v # w PROVE WindowOk(v)'
  <2>1. ExecsOf(v)' = ExecsOf(v)
    BY <1>1, <1>2, <1>7 DEF ExecsOf
  <2>2. commits'[v] = commits[v]
    BY <1>4, <1>7, Types
  <2> QED
    BY <1>1, <2>1, <2>2, ApartKeeps DEF Apart
<1>8. WindowOk(w)'
  <2> SUFFICES ASSUME heart[w] = "up" PROVE Renewing(w)' /\ Covered(w)'
    BY <1>1 DEF WindowOk
  <2>1. Renewing(w) /\ Covered(w)
    BY DEF SafetyInv, WindowOk
  <2>2. ExecsOf(w)' = ExecsOf(w) \ {e}
    BY <1>1 DEF ExecsOf
  <2>3. Covered(w)'
    BY <1>1, <1>4, <2>1, <2>2 DEF Covered
  <2>4. Renewing(w)'
    BY <1>1, <2>1 DEF Renewing
  <2> QED
    BY <2>3, <2>4
<1> QED
  BY <1>5, <1>6, <1>7, <1>8 DEF SafetyInv

LEMMA AdvanceKeeps ==
    ASSUME SafetyInv, NEW w \in Worker, CommitStep(w), UNCHANGED workerVars
    PROVE  SafetyInv' /\ KeepsEnds
<1> USE DEF workerVars
<1>1. TasksInv' /\ Advances(w) /\ UNCHANGED tasks
  BY Types, CommitStepKeeps
<1>2. KeepsEnds
  BY <1>1 DEF KeepsEnds
<1>3. WorkerTypeOK'
  BY <1>1 DEF SafetyInv, WorkerTypeOK, TasksInv
<1>4. ASSUME NEW v \in Worker, v # w PROVE WindowOk(v)'
  <2>1. ExecsOf(v)' = ExecsOf(v) /\ commits'[v] = commits[v]
    BY <1>1, <1>4, Types DEF ExecsOf, Advances
  <2> QED
    BY <1>1, <2>1, ApartKeeps DEF Apart
<1>5. WindowOk(w)'
  <2> SUFFICES ASSUME heart[w] = "up" PROVE Renewing(w)' /\ Covered(w)'
    BY DEF WindowOk
  <2>1. Renewing(w) /\ Covered(w)
    BY DEF SafetyInv, WindowOk
  <2>2. ~Idle(w) /\ commits'[w].task = commits[w].task /\ ExecsOf(w)' = ExecsOf(w)
    BY <1>1 DEF Advances, Idle, NoCommit, ExecsOf
  <2> QED
    BY <1>1, <2>1, <2>2 DEF Renewing, Covered
<1> QED
  BY <1>1, <1>2, <1>3, <1>4, <1>5 DEF SafetyInv

LEMMA ResultCommittedKeeps ==
    ASSUME SafetyInv, NEW w \in Worker, ResultCommitted(w)
    PROVE  SafetyInv' /\ KeepsEnds
<1> DEFINE u == commits[w].task
<1>1. /\ EndTask(w) /\ active' = [active EXCEPT ![w] = @ \ {u}]
      /\ UNCHANGED <<execs, heart, beat, crashes, failures, retries>>
  BY DEF ResultCommitted, Forget
<1>2. /\ TasksInv' /\ KeepsEnds /\ u \in Task /\ tasks[u].owner = w
      /\ commits'[w] = NoCommit
      /\ \A t \in Task \ {u} : tasks'[t] = tasks[t]
      /\ \A p \in Owner \ {w} : commits'[p] = commits[p]
  BY <1>1, Types, EndTaskKeeps DEF Owned
<1>3. commits[w].step = "finish"
  BY <1>1 DEF EndTask
<1>4. /\ active'[w] = active[w] \ {u} /\ active' \in [Worker -> SUBSET Task]
      /\ \A v \in Worker \ {w} : active'[v] = active[v]
  BY <1>1, Types
<1>5. WorkerTypeOK'
  BY <1>1, <1>2, <1>4, Types DEF WorkerTypeOK, TasksInv
<1>6. ASSUME NEW v \in Worker, v # w PROVE WindowOk(v)'
  <2>1. ExecsOf(v)' = ExecsOf(v) /\ commits'[v] = commits[v]
    BY <1>1, <1>2, <1>6, Types DEF ExecsOf
  <2>2. \A t \in Task : tasks[t].owner = v => tasks'[t] = tasks[t]
    BY <1>2, <1>6
  <2> QED
    BY <1>1, <1>4, <1>6, <2>1, <2>2, ApartKeeps DEF Apart
<1>7. WindowOk(w)'
  <2> SUFFICES ASSUME heart[w] = "up" PROVE Renewing(w)' /\ Covered(w)'
    BY <1>1 DEF WindowOk
  <2>1. Renewing(w) /\ Covered(w) /\ active[w] \subseteq Task
    BY Types DEF SafetyInv, WindowOk
  <2>2. Renewing(w)'
    BY <1>1, <1>2, <1>4, <2>1 DEF Renewing
  <2>3. ExecsOf(w)' = ExecsOf(w) /\ ~Idle(w) /\ Idle(w)'
    BY <1>1, <1>2, <1>3 DEF ExecsOf, Idle, NoCommit
  <2>4. Covered(w)'
    BY <1>4, <2>1, <2>3 DEF Covered
  <2> QED
    BY <2>2, <2>4
<1> QED
  BY <1>2, <1>5, <1>6, <1>7 DEF SafetyInv

LEMMA LeavesKeeps ==
    ASSUME SafetyInv, NEW w \in Worker, Cleared(w), UNCHANGED <<tasks, evidence>>,
           commits' = [commits EXCEPT ![w] = NoCommit],
           crashes' \in Nat, failures' \in Nat, retries' \in Nat
    PROVE  SafetyInv' /\ KeepsEnds
<1>1. /\ CommitsFresh /\ commits'[w] = NoCommit
      /\ \A p \in Owner \ {w} : commits'[p] = commits[p]
  BY Types, CommitForgotten
<1>2. TasksInv' /\ KeepsEnds
  BY <1>1, Types, QueueStep DEF EndsNone, KeepsEnds
<1>3. /\ WindowOk(w)'
      /\ execs' \subseteq Execution /\ active' \in [Worker -> SUBSET Task]
      /\ heart' \in [Worker -> {"up", "failed"}] /\ beat' \in [Worker -> 0..Interval]
      /\ \A v \in Worker \ {w} :
            /\ heart'[v] = heart[v] /\ beat'[v] = beat[v] /\ active'[v] = active[v]
            /\ ExecsOf(v)' = ExecsOf(v)
  BY <1>1, ClearedOk
<1>4. \A v \in Worker \ {w} : WindowOk(v)'
  BY <1>1, <1>3, Types, ApartKeeps DEF Apart
<1>5. WorkerTypeOK'
  BY <1>2, <1>3 DEF WorkerTypeOK, TasksInv
<1> QED
  BY <1>2, <1>3, <1>4, <1>5 DEF SafetyInv

LEMMA HeartbeatKeeps ==
    ASSUME SafetyInv, NEW w \in Worker, Heartbeat(w)
    PROVE  SafetyInv' /\ KeepsEnds
<1>1. /\ heart[w] = "up" /\ tasks' = Renewed(w, active[w], LeaseSeconds + Interval)
      /\ heart' = [heart EXCEPT ![w] =
             IF \A t \in active[w] : tasks[t].owner = w THEN @ ELSE "failed"]
      /\ beat' = [beat EXCEPT ![w] = Interval]
      /\ UNCHANGED <<evidence, commits, execs, active, crashes, failures, retries>>
  BY DEF Heartbeat
<1>2. LeaseSeconds + Interval \in Nat /\ LeaseSeconds + Interval > Interval
  BY Types
<1>3. /\ EndsNone
      /\ \A t \in Task : /\ tasks'[t].owner = tasks[t].owner
                         /\ tasks[t].owner # w => tasks'[t] = tasks[t]
                         /\ t \in active[w] /\ tasks[t].owner = w =>
                               tasks'[t].left = LeaseSeconds + Interval
  BY <1>1, <1>2, Types, RenewEndsNone
<1>4. TasksInv' /\ KeepsEnds
  BY <1>1, <1>3, Types, QueueStep DEF CommitsFresh
<1>5. WorkerTypeOK'
  <2>1. heart' \in [Worker -> {"up", "failed"}] /\ beat' \in [Worker -> 0..Interval]
    BY <1>1, Types
  <2> QED
    BY <1>1, <1>4, <2>1, Types DEF WorkerTypeOK, TasksInv
<1>6. ASSUME NEW v \in Worker, v # w PROVE WindowOk(v)'
  <2>1. ExecsOf(v)' = ExecsOf(v) /\ heart'[v] = heart[v] /\ beat'[v] = beat[v]
    BY <1>1, <1>6, Types DEF ExecsOf
  <2> QED
    BY <1>1, <1>3, <1>6, <2>1, ApartKeeps DEF Apart
<1>7. WindowOk(w)'
  <2> SUFFICES ASSUME heart'[w] = "up" PROVE Renewing(w)' /\ Covered(w)'
    BY DEF WindowOk
  <2>1. beat'[w] = Interval /\ active[w] \subseteq Task
    BY <1>1, Types
  <2>2. \A t \in active[w] : tasks[t].owner = w
    BY <1>1 DEF SafetyInv, WindowOk, Renewing
  <2>3. Renewing(w)'
    BY <1>1, <1>2, <1>3, <2>1, <2>2 DEF Renewing
  <2>4. Covered(w)'
    BY <1>1 DEF SafetyInv, WindowOk, Covered, Idle, ExecsOf
  <2> QED
    BY <2>3, <2>4
<1> QED
  BY <1>4, <1>5, <1>6, <1>7 DEF SafetyInv

LEMMA HeartbeatFailsKeeps ==
    ASSUME SafetyInv, NEW w \in Worker, HeartbeatFails(w)
    PROVE  SafetyInv' /\ KeepsEnds
<1>1. /\ heart' = [heart EXCEPT ![w] = "failed"] /\ failures' = failures + 1
      /\ UNCHANGED <<taskVars, execs, active, beat, crashes, retries>>
  BY DEF HeartbeatFails
<1>2. TasksInv' /\ KeepsEnds
  BY <1>1, Types, QueueStep DEF EndsNone, KeepsEnds, CommitsFresh, taskVars
<1>3. WorkerTypeOK'
  <2>1. heart' \in [Worker -> {"up", "failed"}] /\ failures' \in Nat
    BY <1>1, Types
  <2> QED
    BY <1>1, <1>2, <2>1, Types DEF WorkerTypeOK, TasksInv
<1>4. ASSUME NEW v \in Worker, v # w PROVE WindowOk(v)'
  <2>1. ExecsOf(v)' = ExecsOf(v) /\ heart'[v] = heart[v]
    BY <1>1, <1>4, Types DEF ExecsOf
  <2> QED
    BY <1>1, <2>1, ApartKeeps DEF Apart, taskVars
<1>5. WindowOk(w)'
  BY <1>1, Types DEF WindowOk
<1> QED
  BY <1>2, <1>3, <1>4, <1>5 DEF SafetyInv

LEMMA WorkerStepKeeps ==
    ASSUME SafetyInv, NEW w \in Worker, WorkerStep(w)
    PROVE  SafetyInv' /\ KeepsEnds
<1>1. CASE Answering(w)
  <2>1. CASE RunAborts(w)
    BY <2>1, Types, LeavesKeeps DEF RunAborts, EndRefused
  <2> QED
    BY <1>1, <2>1, ResultArrivesKeeps, AdvanceKeeps, ResultCommittedKeeps DEF Answering
<1>2. CASE Upkeep(w)
  <2>1. ASSUME RunEnds(w) PROVE SafetyInv' /\ KeepsEnds
    <3>1. commits' = [commits EXCEPT ![w] = NoCommit]
      BY <2>1, Types DEF RunEnds, taskVars, Idle
    <3> QED
      BY <2>1, <3>1, Types, LeavesKeeps DEF RunEnds, taskVars
  <2> QED
    BY <1>2, <2>1, ClaimWindowKeeps, HeartbeatKeeps DEF Upkeep
<1>3. ASSUME Crash(w) PROVE SafetyInv' /\ KeepsEnds
  <2>1. /\ Cleared(w) /\ commits' = [commits EXCEPT ![w] = NoCommit]
        /\ crashes' = crashes + 1 /\ UNCHANGED <<tasks, evidence, failures, retries>>
    BY <1>3 DEF Crash
  <2>2. crashes' \in Nat /\ failures' \in Nat /\ retries' \in Nat
    BY <2>1, Types
  <2> QED
    BY <2>1, <2>2, LeavesKeeps
<1> QED
  BY <1>1, <1>2, <1>3, HeartbeatFailsKeeps DEF WorkerStep

LEMMA StutterKeeps ==
    ASSUME SafetyInv, UNCHANGED vars
    PROVE  SafetyInv' /\ KeepsEnds
<1>1. TasksInv' /\ KeepsEnds
  BY Types, QueueStep DEF EndsNone, KeepsEnds, CommitsFresh, vars, taskVars
<1> QED
  BY <1>1 DEF SafetyInv, TasksInv, WorkerTypeOK, WindowOk, Renewing, Covered, Idle, ExecsOf,
              vars, taskVars, workerVars

LEMMA NextKeeps ==
    ASSUME SafetyInv, [Next]_vars
    PROVE  SafetyInv' /\ KeepsEnds
BY TickKeeps, WorkerStepKeeps, StutterKeeps DEF Next

-----------------------------------------------------------------------------

\* Every type, of the tasks and of the workers.
LEMMA SafetyHolds == Spec => []SafetyInv
<1>1. Init => SafetyInv
  BY InitOk
<1>2. SafetyInv /\ [Next]_vars => SafetyInv'
  BY NextKeeps
<1> QED
  BY <1>1, <1>2, PTL DEF Spec

LEMMA InFlightOk ==
    ASSUME SafetyInv
    PROVE  InTimeIsOwned /\ OneExecution
<1>1. ASSUME NEW e \in InFlight
      PROVE  /\ e.by \in Worker /\ e.task \in Task
             /\ heart[e.by] = "up" => e.task \in active[e.by]
             /\ heart[e.by] # "up" => heart[e.by] = "failed"
  <2>1. CASE e \in execs
    <3>1. e.by \in Worker /\ e \in ExecsOf(e.by)
      BY <2>1, Types DEF Execution, ExecsOf
    <3> QED
      BY <2>1, <3>1, Types DEF SafetyInv, WindowOk, Covered, Execution
  <2>2. CASE e \notin execs
    <3>1. PICK w \in Worker :
              /\ ~Idle(w)
              /\ e = [by |-> w, task |-> commits[w].task, attempt |-> commits[w].attempt]
      BY <1>1, <2>2 DEF InFlight
    <3>2. commits[w] \in Commit
      BY <3>1, Types DEF Idle
    <3> QED
      BY <3>1, <3>2, Types DEF SafetyInv, WindowOk, Covered, Commit
  <2> QED
    BY <2>1, <2>2
<1>2. InTimeIsOwned
  <2>1. SUFFICES ASSUME NEW e \in InFlight, heart[e.by] = "up"
                 PROVE  tasks[e.task].owner = e.by /\ tasks[e.task].left > 0
    BY DEF InTimeIsOwned
  <2>2. /\ e.by \in Worker /\ e.task \in Task /\ e.task \in active[e.by]
    BY <1>1, <2>1
  <2>3. tasks[e.task].owner = e.by /\ tasks[e.task].left > beat[e.by]
    BY <2>1, <2>2 DEF SafetyInv, WindowOk, Renewing
  <2>4. beat[e.by] \in Nat /\ tasks[e.task].left \in Nat
    BY <2>2, Types
  <2> QED
    BY <2>3, <2>4
<1>3. OneExecution
  <2>1. SUFFICES ASSUME NEW e \in InFlight, NEW f \in InFlight, e.task = f.task,
                        heart[e.by] = "up", heart[f.by] = "up"
                 PROVE  e = f
    BY <1>1 DEF OneExecution
  <2>2. e.by = f.by /\ e.by \in Worker
    BY <1>1, <1>2, <2>1 DEF InTimeIsOwned
  <2>3. Covered(e.by)
    BY <2>1, <2>2 DEF SafetyInv, WindowOk
  <2>4. \A g \in InFlight : g.by = e.by =>
            \/ g \in ExecsOf(e.by)
            \/ ~Idle(e.by) /\ g = [by |-> e.by, task |-> commits[e.by].task,
                                   attempt |-> commits[e.by].attempt]
    BY DEF InFlight, ExecsOf
  <2> QED
    BY <2>1, <2>2, <2>3, <2>4 DEF Covered
<1> QED
  BY <1>2, <1>3

\* What a worker in time brings back is never refused, and no task is
\* executed twice at once: heartbeat, refill and commit of one window keep
\* each other's keys (AsyncEvidenceWorker.run, _heartbeat).
THEOREM WindowSafe == Spec => [](InTimeIsOwned /\ OneExecution)
<1>1. SafetyInv => InTimeIsOwned /\ OneExecution
  BY InFlightOk
<1> QED
  BY <1>1, SafetyHolds, PTL

\* What a worker in time brings back is never refused: a heartbeat that is up
\* has kept the lease of everything in its window (renew_evidence_task).
THEOREM InTimeKept == Spec => []InTimeIsOwned
BY WindowSafe, PTL

\* The credit of a task follows its proof and its end follows the credit;
\* the cost of an attempt is counted once (EvidenceResultCommitter,
\* CommitWriter).
THEOREM CommitsSafe == Spec => [](CreditHasProof /\ CostCountedOnce)
<1>1. SafetyInv => CreditHasProof /\ CostCountedOnce
  BY DEF SafetyInv, TasksInv, Counted
<1> QED
  BY <1>1, SafetyHolds, PTL

\* No step changes a task that has ended (finish_evidence_task,
\* renew_evidence_task, claim_evidence_tasks).
THEOREM EndsKept == Spec => EndedForGood
<1>1. SafetyInv /\ [Next]_vars =>
          [\A t \in Task : tasks[t].state \in Terminal => tasks'[t] = tasks[t]]_tasks
  BY NextKeeps DEF KeepsEnds
<1> QED
  BY <1>1, SafetyHolds, PTL DEF Spec, EndedForGood
=============================================================================
