------------------------- MODULE PostgresAuthority -------------------------
(***************************************************************************)
(* PostgresAuthorityStore (postgres_store.py): the tables of               *)
(* FabricAuthority, whose variables are the committed rows here, under     *)
(* several processes.  A call is a sequence of statements; its last one    *)
(* and the end of its transaction are one step.  The clock is read where   *)
(* the code reads it: at is the time at which a call began, before it      *)
(* waited for its first row.                                               *)
(*                                                                         *)
(* What a row becomes is as in FabricAuthority, whose operators Seen(s, t) *)
(* evaluates on the rows that session s sees, at time t.  A request that   *)
(* its first statement refuses is no step.  Left out beside what           *)
(* FabricAuthority leaves out: the garbage collector.                      *)
(***************************************************************************)
EXTENDS FabricRefinement, PostgresSessions

CONSTANT MaxWait    \* bound: how long a first statement has waited

ASSUME WaitAssumption == MaxWait \in Nat

pgVars == <<vars, session>>

-----------------------------------------------------------------------------
(* Rows by key, and the tables with some of them written over.             *)

WorkerKey(w) == <<"worker", w>>
WorkKey(t) == <<"work", t>>
BatchKey(t, n) == <<"batch", t, n>>

WorkersWith(rows) ==
    [w \in Worker |-> IF WorkerKey(w) \in DOMAIN rows THEN rows[WorkerKey(w)]
                                                      ELSE workers[w]]

WorkWith(rows) ==
    [t \in Task |-> IF WorkKey(t) \in DOMAIN rows THEN rows[WorkKey(t)]
                                                  ELSE work[t]]

BatchesWith(rows) ==
    {b \in batches : BatchKey(b.task, b.seq) \notin DOMAIN rows}
      \cup {rows[k] : k \in {k \in DOMAIN rows : k[1] = "batch"}}

\* A transaction that commits holds one call, which adds one batch at most.
StreamWith(rows) ==
    [t \in Task |->
       LET added == {b \in BatchesWith(rows) : b.task = t
                                               /\ Stored(t, b.seq) = {}}
       IN IF added = {} THEN stream[t]
                        ELSE Append(stream[t], (CHOOSE b \in added : TRUE).entry)]

SeenWork(s) == WorkWith(session[s].rows)
SeenBatches(s) == BatchesWith(session[s].rows)

Seen(s, time) == INSTANCE FabricAuthority WITH
    now <- time, workers <- WorkersWith(session[s].rows),
    work <- SeenWork(s), batches <- SeenBatches(s)

\* The call writes rows, locks keys, and ends.
Ends(s, rows, keys) ==
    \/ /\ Commits(s)
       /\ LET all == Over(rows, session[s].rows) IN
          /\ workers' = WorkersWith(all)
          /\ work' = WorkWith(all)
          /\ batches' = BatchesWith(all)
          /\ stream' = StreamWith(all)
          /\ UNCHANGED now
    \/ /\ Releases(s, rows, keys)
       /\ UNCHANGED vars

Began == {time \in 1 .. now : time + MaxWait >= now}

-----------------------------------------------------------------------------
(* Workers.                                                                *)

\* INSERT ... ON CONFLICT DO UPDATE of the worker row.
RegisterWorker(s, w, i) ==
    /\ Free(s, {WorkerKey(w)})
    /\ Begins(s, [step |-> "release", worker |-> w, spared |-> i],
              RowAt(WorkerKey(w), [inst |-> i, revoked |-> FALSE]),
              {WorkerKey(w)})
    /\ UNCHANGED vars

RevokeWorker(s, w) ==
    LET row == WorkersWith(session[s].rows)[w] IN
    /\ row.inst # NULL
    /\ Free(s, {WorkerKey(w)})
    /\ Begins(s, [step |-> "release", worker |-> w, spared |-> NULL],
              RowAt(WorkerKey(w), [row EXCEPT !.revoked = TRUE]), {WorkerKey(w)})
    /\ UNCHANGED vars

\* The second UPDATE of both: the leases of the other incarnations.
ReleaseLeases(s) ==
    LET op == session[s].op
        released == {t \in Seen(s, now)!LeasedTo(op.worker) :
                        SeenWork(s)[t].ownerInst # op.spared}
        keys == {WorkKey(t) : t \in released}
    IN /\ At(s, "release")
       /\ Free(s, keys)
       /\ Ends(s, [k \in keys |-> Unowned(SeenWork(s)[k[2]], "PENDING")], keys)

-----------------------------------------------------------------------------
(* Work.                                                                   *)

\* INSERT ... ON CONFLICT DO NOTHING: a key that is being inserted is waited
\* for, and one that is present is returned as it is.
AdmitWork(s, t, notBefore) ==
    /\ At(s, "idle")
    /\ SeenWork(s)[t].state = "ABSENT"
    /\ Free(s, {WorkKey(t)})
    /\ Ends(s, RowAt(WorkKey(t), [SeenWork(s)[t] EXCEPT !.state = "PENDING",
                                                        !.notBefore = notBefore]),
            {WorkKey(t)})

\* Mistake: _worker without FOR UPDATE.
ClaimWorkUnlocked(s, w, i) ==
    /\ Seen(s, now)!Known(w, i)
    /\ \E time \in Began :
          Begins(s, [step |-> "active", worker |-> w, inst |-> i,
                     task |-> {}, at |-> time],
                 NoRows, {})
    /\ UNCHANGED vars

\* _worker with FOR UPDATE.
ClaimWork(s, w, i) ==
    /\ Free(s, {WorkerKey(w)})
    /\ Seen(s, now)!Known(w, i)
    /\ \E time \in Began :
          Begins(s, [step |-> "active", worker |-> w, inst |-> i,
                     task |-> {}, at |-> time],
                 NoRows, {WorkerKey(w)})
    /\ UNCHANGED vars

\* The lease a repeated claim is answered with, if there is one.
ClaimActive(s) ==
    LET op == session[s].op
        active == Seen(s, op.at)!ActiveLeases(op.worker, op.inst)
    IN /\ At(s, "active")
       /\ \/ /\ active = {}
             /\ Continues(s, [op EXCEPT !.step = "candidate"], {})
             /\ UNCHANGED vars
          \/ \E t \in active : /\ Free(s, {WorkKey(t)})
                               /\ Ends(s, NoRows, {WorkKey(t)})

\* Mistake: the candidate is selected without FOR UPDATE SKIP LOCKED.
CandidatesLockedToo(s) ==
    LET op == session[s].op IN
    {t \in Task : Seen(s, op.at)!Claimable(t) /\ Eligible(op.worker, t)}

\* FOR UPDATE SKIP LOCKED: a row that another session holds is passed over.
Candidates(s) ==
    LET op == session[s].op IN
    {t \in Task : /\ Seen(s, op.at)!Claimable(t)
                  /\ Eligible(op.worker, t)
                  /\ Free(s, {WorkKey(t)})}

ClaimCandidate(s) ==
    /\ At(s, "candidate")
    /\ \/ Candidates(s) = {} /\ Ends(s, NoRows, {})
       \/ \E t \in Candidates(s) :
             /\ Continues(s, [session[s].op EXCEPT !.step = "grant", !.task = {t}],
                          {WorkKey(t)})
             /\ UNCHANGED vars

GrantLease(s) ==
    LET op == session[s].op IN
    /\ At(s, "grant")
    /\ \E t \in op.task :
          /\ Free(s, {WorkKey(t)})
          /\ Ends(s, RowAt(WorkKey(t), Seen(s, op.at)!LeasedRow(SeenWork(s)[t],
                                                               op.worker, op.inst)),
                  {WorkKey(t)})

\* _lease: the row is locked, and tested against the clock of that moment.
LockLease(s, t, w, i, g) ==
    /\ Free(s, {WorkKey(t)})
    /\ Seen(s, now)!Owns(t, w, i, g)

\* renew_task, finish_task and fail_task begin with _lease.
RenewTask(s, t, w, i, g, expected) ==
    /\ LockLease(s, t, w, i, g)
    /\ Seen(s, now)!RenewAccepted(t, w, i, g, expected)
    /\ Begins(s, [step |-> "renew", task |-> t, expected |-> expected,
                  at |-> now], NoRows, {WorkKey(t)})
    /\ UNCHANGED vars

FinishTask(s, t, w, i, g) ==
    /\ LockLease(s, t, w, i, g)
    /\ \E time \in Began :
          Begins(s, [step |-> "finish", task |-> t, at |-> time],
                 NoRows, {WorkKey(t)})
    /\ UNCHANGED vars

FailTask(s, t, w, i, g, retryable, delay) ==
    /\ LockLease(s, t, w, i, g)
    /\ \E time \in Began :
          Begins(s, [step |-> "fail", task |-> t, retryable |-> retryable,
                     delay |-> delay, at |-> time],
                 NoRows, {WorkKey(t)})
    /\ UNCHANGED vars

\* The row that the UPDATE of the call leaves behind.  renew_task reads the
\* clock again, between its SELECT and its UPDATE.
UpdatedRow(s, time) ==
    LET op == session[s].op
        row == SeenWork(s)[op.task]
    IN CASE At(s, "renew") ->
              [row EXCEPT !.deadline =
                 Seen(s, time)!RenewedDeadline(op.task, op.expected)]
         [] At(s, "finish") -> Seen(s, op.at)!Completed(row)
         [] At(s, "fail") ->
              Seen(s, op.at)!FailedRow(row, op.retryable, op.delay)

UpdateWork(s) ==
    LET op == session[s].op IN
    /\ op.step \in {"renew", "finish", "fail"}
    /\ \E time \in op.at .. now :
          Ends(s, RowAt(WorkKey(op.task), UpdatedRow(s, time)), {})

-----------------------------------------------------------------------------
(* Result batches.                                                         *)

\* commit_result_batch: a batch that is present is answered as it is.
FindBatch(s, t, w, i, n, entry) ==
    /\ n < MaxBatches
    /\ Seen(s, now)!Stored(t, n) = {}
    /\ Begins(s, [step |-> "lease", task |-> t, worker |-> w, inst |-> i,
                  seq |-> n, entry |-> entry, at |-> now], NoRows, {})
    /\ UNCHANGED vars

\* Mistake: the row of the lease is read without FOR UPDATE.
LeaseOfBatchUnlocked(s) ==
    LET op == session[s].op IN
    /\ At(s, "lease")
    /\ IF /\ Seen(s, now)!Owns(op.task, op.worker, op.inst, op.entry.gen)
          /\ SeenWork(s)[op.task].nextSeq = op.seq
       THEN Continues(s, [op EXCEPT !.step = "insert"], {})
       ELSE Raises(s)
    /\ UNCHANGED vars

\* _lease and the sequence number, after another commit of the same batch
\* that was found first.
LeaseOfBatch(s) ==
    LET op == session[s].op IN
    /\ At(s, "lease")
    /\ Free(s, {WorkKey(op.task)})
    /\ IF /\ LockLease(s, op.task, op.worker, op.inst, op.entry.gen)
          /\ SeenWork(s)[op.task].nextSeq = op.seq
       THEN Continues(s, [op EXCEPT !.step = "insert"], {WorkKey(op.task)})
       ELSE Raises(s)
    /\ UNCHANGED vars

\* The INSERT, which fails if the primary key is taken, and the UPDATE.
CommitResultBatch(s) ==
    LET op == session[s].op IN
    /\ At(s, "insert")
    /\ Seen(s, now)!Stored(op.task, op.seq) = {}
    /\ Ends(s, Over(RowAt(BatchKey(op.task, op.seq),
                          [task |-> op.task, seq |-> op.seq, entry |-> op.entry,
                           committedAt |-> op.at, consumedAt |-> NULL,
                           attempts |-> 0, quarantined |-> FALSE]),
                    RowAt(WorkKey(op.task),
                          Seen(s, op.at)!CommittedRow(SeenWork(s)[op.task],
                                                      op.entry.final))),
            {BatchKey(op.task, op.seq)})

\* mark_batch_consumed and mark_batch_consume_failed, of a batch that the
\* bridge has just read.
SettleBatch(s, b, row) ==
    /\ At(s, "idle")
    /\ Unread(b)
    /\ Free(s, {BatchKey(b.task, b.seq)})
    /\ Ends(s, RowAt(BatchKey(b.task, b.seq), row), {BatchKey(b.task, b.seq)})

MarkBatchConsumed(s, b) == SettleBatch(s, b, [b EXCEPT !.consumedAt = now])

MarkBatchConsumeFailed(s, b) ==
    SettleBatch(s, b, [b EXCEPT !.attempts = @ + 1,
                                !.quarantined =
                                   (b.attempts + 1 >= MaxConsumeAttempts)])

-----------------------------------------------------------------------------
(* What happens to a connection.                                           *)

BareRead(s) == Reads(s) /\ UNCHANGED vars

\* A statement fails: a deadlock is broken, a time limit ends a wait.
StatementFails(s) ==
    /\ ~At(s, "idle")
    /\ Raises(s)
    /\ UNCHANGED vars

Crash(s) == Disconnects(s) /\ UNCHANGED vars

Time == Tick /\ UNCHANGED session

PgInit == Init /\ SessionInit

LeaseCall(s, t, w, i, g) ==
    \/ \E expected \in 1 .. SeenWork(s)[t].deadline :
          RenewTask(s, t, w, i, g, expected)
    \/ FinishTask(s, t, w, i, g)
    \/ \E retryable \in BOOLEAN, delay \in RetryDelay :
          FailTask(s, t, w, i, g, retryable, delay)
    \/ \E n \in 0 .. SeenWork(s)[t].nextSeq, final \in BOOLEAN, data \in Payload :
          FindBatch(s, t, w, i, n, [gen |-> g, final |-> final, data |-> data])

SessionStep(s) ==
    \/ \E w \in Worker, i \in Instance : RegisterWorker(s, w, i)
    \/ \E w \in Worker : RevokeWorker(s, w)
    \/ ReleaseLeases(s)
    \/ \E t \in Task, d \in RetryDelay : AdmitWork(s, t, now + d)
    \/ \E w \in Worker, i \in Instance : ClaimWork(s, w, i)
    \/ ClaimActive(s)
    \/ ClaimCandidate(s)
    \/ GrantLease(s)
    \/ \E t \in Task, w \in Worker, i \in Instance, g \in 1 .. MaxAttempts :
          LeaseCall(s, t, w, i, g)
    \/ UpdateWork(s)
    \/ LeaseOfBatch(s)
    \/ CommitResultBatch(s)
    \/ \E b \in SeenBatches(s) : MarkBatchConsumed(s, b)
    \/ \E b \in SeenBatches(s) : MarkBatchConsumeFailed(s, b)
    \/ BareRead(s)
    \/ StatementFails(s)
    \/ Crash(s)

PgNext == Time \/ \E s \in Session : SessionStep(s)

PgSpec == PgInit /\ [][PgNext]_pgVars

-----------------------------------------------------------------------------

\* A batch that the authority has acknowledged is in the tables, or in the
\* transaction that its session will commit: a crash of the API process
\* loses no result whose spool entry a worker may have deleted.
AcknowledgedBatchKept ==
    [][\A s \in Session : \A k \in DOMAIN session[s].kept :
          k[1] = "batch" =>
            \/ k \in DOMAIN session'[s].kept
            \/ \E b \in batches' : BatchKey(b.task, b.seq) = k]_pgVars
=============================================================================
