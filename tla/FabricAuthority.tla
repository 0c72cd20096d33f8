-------------------------- MODULE FabricAuthority --------------------------
(***************************************************************************)
(* The authority store of the distributed runtime ("Fabric"): the tables   *)
(* fabric_workers, fabric_work and fabric_result_batches of                *)
(* src/src/creeper/distributed/authority_store.py, and every transaction   *)
(* that changes them.  The Authority API runs each handler to completion   *)
(* in one event-loop thread over one connection, so that a handler is one  *)
(* action here.                                                            *)
(*                                                                         *)
(* A request is described by the identity its sender signs, (w, i): worker *)
(* id and worker instance id, and by the lease generation g it names.      *)
(* Requests of any identity and any generation may arrive at any time:     *)
(* those the guards refuse change nothing, and are no step here.           *)
(*                                                                         *)
(* Abstracted: what the payload of a batch says (the digest of a batch is  *)
(* <<gen, final, data>>), the cursor (assigned with next_sequence_no in    *)
(* one UPDATE), priority and creation order (any eligible row may be the   *)
(* first), last_heartbeat (read by reports only), the outbox and           *)
(* provider permits.                                                       *)
(*                                                                         *)
(* An operator introduced by "Mistake" is not part of Spec: it is the next *)
(* definition with a plausible bug, and the README says which property     *)
(* rejects it.                                                             *)
(***************************************************************************)
EXTENDS Naturals, FiniteSets, Sequences

CONSTANTS
    Worker,               \* stable worker ids
    NoWorker,             \* SQL NULL of lease_owner
    Task,                 \* rows of fabric_work, by work key
    Capable,              \* Capable \subseteq Worker \X Task: see Eligible
    Payload,              \* results, artifacts and cursor_after of a batch
    MaxAttempts,          \* fabric_work.max_attempts
    MaxConsumeAttempts,   \* consumptions that may fail before quarantine
    LeaseSeconds,         \* lease_seconds of claim and of renew
    RetryDelay,           \* the values of retry_after_seconds
    Retention,            \* retention_seconds of the garbage collector
    MaxTime,              \* bound: the clock stops here
    MaxInstance,          \* bound: incarnations of a worker are 1..MaxInstance
    MaxBatches            \* bound: batches a task may commit

ASSUME AuthorityAssumption ==
    /\ NoWorker \notin Worker
    /\ Capable \subseteq Worker \X Task
    /\ MaxAttempts \in Nat \ {0}
    /\ MaxConsumeAttempts \in Nat \ {0}
    /\ LeaseSeconds \in Nat \ {0}
    /\ RetryDelay \subseteq Nat
    /\ Retention \in Nat \ {0}
    /\ MaxTime \in Nat
    /\ MaxInstance \in Nat
    /\ MaxBatches \in Nat

VARIABLES
    now,        \* the clock of the authority host
    workers,    \* fabric_workers
    work,       \* fabric_work
    batches,    \* fabric_result_batches
    stream      \* history: stream[t] is every batch accepted for t, in order

vars == <<now, workers, work, batches, stream>>

-----------------------------------------------------------------------------
(* The rows.  NULL stands for SQL NULL in a column of times or instances:  *)
(* the clock starts at 1 and instances are numbered from 1.                *)

NULL == 0

Instance == 1 .. MaxInstance

WorkState == {"ABSENT", "PENDING", "LEASED", "RETRY", "COMPLETE", "DEAD"}

WorkRow ==
    [state : WorkState, owner : Worker \cup {NoWorker}, ownerInst : Nat,
     gen : Nat, deadline : Nat, attempt : Nat, notBefore : Nat,
     nextSeq : Nat, doneAt : Nat, compacted : BOOLEAN]

Entry == [gen : Nat, final : BOOLEAN, data : Payload]

BatchRow ==
    [task : Task, seq : Nat, entry : Entry, committedAt : Nat,
     consumedAt : Nat, attempts : Nat, quarantined : BOOLEAN]

TypeOK ==
    /\ now \in Nat \ {0}
    /\ workers \in [Worker -> [inst : Nat, revoked : BOOLEAN]]
    /\ work \in [Task -> WorkRow]
    /\ batches \subseteq BatchRow
    /\ stream \in [Task -> Seq(Entry)]

Init ==
    /\ now = 1
    /\ workers = [w \in Worker |-> [inst |-> NULL, revoked |-> FALSE]]
    /\ work = [t \in Task |->
                 [state |-> "ABSENT", owner |-> NoWorker, ownerInst |-> NULL,
                  gen |-> 0, deadline |-> NULL, attempt |-> 0,
                  notBefore |-> 0, nextSeq |-> 0, doneAt |-> NULL,
                  compacted |-> FALSE]]
    /\ batches = {}
    /\ stream = [t \in Task |-> << >>]

-----------------------------------------------------------------------------
(* Workers.                                                                *)

\* _worker_row: the identity is registered, current and not revoked.
Known(w, i) ==
    /\ i # NULL
    /\ workers[w].inst = i
    /\ ~workers[w].revoked

\* The columns a release clears, and what it leaves of the row.
Unowned(row, state) ==
    [row EXCEPT !.state = state, !.owner = NoWorker, !.ownerInst = NULL,
                !.deadline = NULL]

\* The row of a task that ends: COMPLETE keeps the time for the collector.
Completed(row) == [Unowned(row, "COMPLETE") EXCEPT !.doneAt = now]

\* UPDATE fabric_work SET state='PENDING', ... WHERE the row is in ts.
Released(ts) ==
    [t \in Task |-> IF t \in ts THEN Unowned(work[t], "PENDING") ELSE work[t]]

LeasedTo(w) == {t \in Task : work[t].state = "LEASED" /\ work[t].owner = w}

\* Mistake: the leases of the previous incarnation are left alone.
RegisterKeepingLeases(w, i) ==
    /\ workers' = [workers EXCEPT ![w] = [inst |-> i, revoked |-> FALSE]]
    /\ UNCHANGED <<now, work, batches, stream>>

Register(w, i) ==
    /\ workers' = [workers EXCEPT ![w] = [inst |-> i, revoked |-> FALSE]]
    /\ work' = Released({t \in LeasedTo(w) : work[t].ownerInst # i})
    /\ UNCHANGED <<now, batches, stream>>

Revoke(w) ==
    /\ workers[w].inst # NULL
    /\ workers' = [workers EXCEPT ![w].revoked = TRUE]
    /\ work' = Released(LeasedTo(w))
    /\ UNCHANGED <<now, batches, stream>>

-----------------------------------------------------------------------------
(* Work.                                                                   *)

\* A work key that is present is returned as it is: no step.
Admit(t, notBefore) ==
    /\ work[t].state = "ABSENT"
    /\ work' = [work EXCEPT ![t].state = "PENDING",
                            ![t].notBefore = notBefore]
    /\ UNCHANGED <<now, workers, batches, stream>>

\* Mistake: the generation is not compared.
OwnsAnyGeneration(t, w, i, g) ==
    /\ work[t].state = "LEASED"
    /\ work[t].owner = w
    /\ work[t].ownerInst = i
    /\ work[t].deadline > now

\* _assert_active_lease
Owns(t, w, i, g) ==
    /\ work[t].state = "LEASED"
    /\ work[t].owner = w
    /\ work[t].ownerInst = i
    /\ work[t].gen = g
    /\ work[t].deadline > now

\* Mistake: a claim does not look for a lease it was answered with before.
NoActiveLeases(w, i) == {}

\* The lease that a repeated claim is answered with, without renewing it.
ActiveLeases(w, i) == {t \in Task : Owns(t, w, i, work[t].gen)}

\* Mistakes: a lease is taken over one second early; a task that is given up
\* is offered again.
ClaimableEarly(t) ==
    /\ \/ work[t].state \in {"PENDING", "RETRY"}
       \/ work[t].state = "LEASED" /\ work[t].deadline <= now + 1
    /\ work[t].notBefore <= now
    /\ work[t].attempt < MaxAttempts

ClaimableDead(t) ==
    /\ \/ work[t].state \in {"PENDING", "RETRY", "DEAD"}
       \/ work[t].state = "LEASED" /\ work[t].deadline <= now
    /\ work[t].notBefore <= now
    /\ work[t].attempt < MaxAttempts

Claimable(t) ==
    /\ \/ work[t].state \in {"PENDING", "RETRY"}
       \/ work[t].state = "LEASED" /\ work[t].deadline <= now
    /\ work[t].notBefore <= now
    /\ work[t].attempt < MaxAttempts

\* _eligible: capabilities, producers and provider allowlist of the worker.
Eligible(w, t) == <<w, t>> \in Capable

LeasedRow(row, w, i) ==
    [row EXCEPT !.state = "LEASED", !.owner = w, !.ownerInst = i,
                !.gen = @ + 1, !.attempt = @ + 1,
                !.deadline = now + LeaseSeconds]

Claim(t, w, i) ==
    /\ Known(w, i)
    /\ ActiveLeases(w, i) = {}
    /\ Claimable(t)
    /\ Eligible(w, t)
    /\ work' = [work EXCEPT ![t] = LeasedRow(work[t], w, i)]
    /\ UNCHANGED <<now, workers, batches, stream>>

\* Compare-and-renew: expected is the deadline the client was last told.  A
\* deadline past it means that the previous renewal was applied and its
\* answer lost, and is answered as it stands.
RenewAccepted(t, w, i, g, expected) ==
    Owns(t, w, i, g) /\ work[t].deadline >= expected

\* Mistakes: the lease is extended from its old deadline; a repeated renewal
\* is answered, and recorded, as its client expects.
ExtendedDeadline(t, expected) == work[t].deadline + LeaseSeconds

RewoundDeadline(t, expected) ==
    IF work[t].deadline > expected THEN expected ELSE now + LeaseSeconds

RenewedDeadline(t, expected) ==
    IF work[t].deadline > expected THEN work[t].deadline
                                   ELSE now + LeaseSeconds

Renew(t, w, i, g, expected) ==
    /\ RenewAccepted(t, w, i, g, expected)
    /\ work' = [work EXCEPT ![t].deadline = RenewedDeadline(t, expected)]
    /\ UNCHANGED <<now, workers, batches, stream>>

Finish(t, w, i, g) ==
    /\ Owns(t, w, i, g)
    /\ work' = [work EXCEPT ![t] = Completed(work[t])]
    /\ UNCHANGED <<now, workers, batches, stream>>

\* Mistake: a state that the readers do not know.
FailedRowUnlisted(row, retryable, delay) ==
    IF retryable /\ row.attempt < MaxAttempts
    THEN [Unowned(row, "RETRY") EXCEPT !.notBefore = now + delay]
    ELSE [Unowned(row, "FAILED") EXCEPT !.notBefore = now]

FailedRow(row, retryable, delay) ==
    IF retryable /\ row.attempt < MaxAttempts
    THEN [Unowned(row, "RETRY") EXCEPT !.notBefore = now + delay]
    ELSE [Unowned(row, "DEAD") EXCEPT !.notBefore = now]

Fail(t, w, i, g, retryable, delay) ==
    /\ Owns(t, w, i, g)
    /\ work' = [work EXCEPT ![t] = FailedRow(work[t], retryable, delay)]
    /\ UNCHANGED <<now, workers, batches, stream>>

-----------------------------------------------------------------------------
(* Result batches.  The batch id is a function of the task and of the      *)
(* sequence number, so that two generations contend for the same row.      *)

Stored(t, s) == {b \in batches : b.task = t /\ b.seq = s}

\* How commit_result_batch answers, in the order of its tests.
CommitVerdict(t, w, i, s, entry) ==
    IF Stored(t, s) # {}
    THEN IF \A b \in Stored(t, s) : b.entry = entry THEN "ALREADY"
                                                    ELSE "CONFLICT"
    ELSE IF ~Owns(t, w, i, entry.gen) THEN "STALE"
    ELSE IF work[t].nextSeq # s THEN "SEQUENCE"
    ELSE "COMMITTED"

\* Mistakes: the final batch does not advance the sequence, or does not end
\* the task; no batch advances the sequence.
CommittedRowFinalUncounted(row, final) ==
    IF final THEN Completed(row) ELSE [row EXCEPT !.nextSeq = row.nextSeq + 1]

CommittedRowStillLeased(row, final) == [row EXCEPT !.nextSeq = row.nextSeq + 1]

CommittedRowUncounted(row, final) == IF final THEN Completed(row) ELSE row

CommittedRow(row, final) ==
    [IF final THEN Completed(row) ELSE row EXCEPT !.nextSeq = row.nextSeq + 1]

Commit(t, w, i, s, entry) ==
    /\ s < MaxBatches
    /\ CommitVerdict(t, w, i, s, entry) = "COMMITTED"
    /\ batches' = batches \cup
                    {[task |-> t, seq |-> s, entry |-> entry,
                      committedAt |-> now, consumedAt |-> NULL,
                      attempts |-> 0, quarantined |-> FALSE]}
    /\ work' = [work EXCEPT ![t] = CommittedRow(work[t], entry.final)]
    /\ stream' = [stream EXCEPT ![t] = Append(@, entry)]
    /\ UNCHANGED <<now, workers>>

Replaced(b, c) == (batches \ {b}) \cup {c}

\* The rows a domain bridge reads: unconsumed_batches.
Unread(b) == b.consumedAt = NULL /\ ~b.quarantined

Consume(b) ==
    /\ Unread(b)
    /\ batches' = Replaced(b, [b EXCEPT !.consumedAt = now])
    /\ UNCHANGED <<now, workers, work, stream>>

ConsumeFail(b) ==
    /\ Unread(b)
    /\ batches' = Replaced(b,
         [b EXCEPT !.attempts = @ + 1,
                   !.quarantined = (b.attempts + 1 >= MaxConsumeAttempts)])
    /\ UNCHANGED <<now, workers, work, stream>>

-----------------------------------------------------------------------------
(* gc_transient_state, one transaction: settled batches are deleted, then  *)
(* the payload of a complete row is compacted unless a batch of it is      *)
(* still to be read.  The row itself, the tombstone of its work key, stays.*)

\* Mistake: age alone makes a batch expendable.
ExpendableByAge(b) == b.committedAt + Retention <= now

Expendable(b) ==
    \/ b.consumedAt # NULL /\ b.consumedAt + Retention <= now
    \/ b.quarantined /\ b.committedAt + Retention <= now

\* Mistake: batches still to be read do not hold the payload.
CompactableUnread(t, kept) ==
    work[t].state = "COMPLETE" /\ work[t].doneAt + Retention <= now

Compactable(t, kept) ==
    /\ work[t].state = "COMPLETE"
    /\ work[t].doneAt + Retention <= now
    /\ \A b \in kept : b.task = t => ~Unread(b)

Gc ==
    LET kept == {b \in batches : ~Expendable(b)} IN
    /\ batches' = kept
    /\ work' = [t \in Task |->
                  IF Compactable(t, kept)
                  THEN [work[t] EXCEPT !.compacted = TRUE] ELSE work[t]]
    /\ UNCHANGED <<now, workers, stream>>

Tick ==
    /\ now < MaxTime
    /\ now' = now + 1
    /\ UNCHANGED <<workers, work, batches, stream>>

-----------------------------------------------------------------------------

LeaseStep(t, w, i, g) ==
    \/ \E expected \in 1 .. work[t].deadline : Renew(t, w, i, g, expected)
    \/ Finish(t, w, i, g)
    \/ \E retryable \in BOOLEAN, delay \in RetryDelay :
          Fail(t, w, i, g, retryable, delay)
    \/ \E final \in BOOLEAN, data \in Payload :
          Commit(t, w, i, work[t].nextSeq,
                 [gen |-> g, final |-> final, data |-> data])

Next ==
    \/ \E w \in Worker, i \in Instance : Register(w, i)
    \/ \E w \in Worker : Revoke(w)
    \/ \E t \in Task, d \in RetryDelay : Admit(t, now + d)
    \/ \E t \in Task, w \in Worker, i \in Instance : Claim(t, w, i)
    \/ \E t \in Task, w \in Worker, i \in Instance, g \in 1 .. MaxAttempts :
          LeaseStep(t, w, i, g)
    \/ \E b \in batches : Consume(b)
    \/ \E b \in batches : ConsumeFail(b)
    \/ Gc
    \/ Tick

Spec == Init /\ [][Next]_vars

-----------------------------------------------------------------------------
(* What the fencing identity (task, worker, incarnation, generation) buys. *)

\* A row is leased only to the incarnation that its worker has registered and
\* that is not revoked.  Renew, finish, fail and commit test the work row and
\* never the worker row: they rely on register_worker and revoke_worker to
\* have released every lease of the identity they cut off.
LeaseOfKnownIncarnation ==
    \A t \in Task : work[t].state = "LEASED" =>
                      /\ work[t].owner \in Worker
                      /\ Known(work[t].owner, work[t].ownerInst)

\* A worker has at most one unexpired lease, whatever it claims, renews and
\* lets expire: the claim replay may therefore return any active lease.
OneLivePerWorker ==
    \A t, u \in Task :
       /\ work[t].state = "LEASED" /\ work[t].deadline > now
       /\ work[u].state = "LEASED" /\ work[u].deadline > now
       /\ work[t].owner = work[u].owner
       => t = u

\* An unexpired lease is never handed to another claimant: a generation is
\* superseded only after it expired, or was failed, released or revoked.
LiveLeaseNotStolen ==
    [][\A t \in Task :
          work[t].state = "LEASED" /\ work[t].deadline > now
          => work'[t].gen = work[t].gen]_vars

\* A deadline a client was told stays good: within one generation the
\* authority does not move it back, replays of a renewal included.
DeadlineNeverRegresses ==
    [][\A t \in Task :
          work[t].state = "LEASED" /\ work'[t].state = "LEASED"
          /\ work'[t].gen = work[t].gen
          => work'[t].deadline >= work[t].deadline]_vars

\* A row in RETRY can be claimed again: a failure that used up the attempts
\* leaves it DEAD.  The attempts are counted by the generations.
RetryHasAttemptsLeft ==
    \A t \in Task :
       /\ work[t].gen = work[t].attempt
       /\ work[t].attempt <= MaxAttempts
       /\ work[t].state = "RETRY" => work[t].attempt < MaxAttempts

\* No lease reaches farther ahead than one lease length, however many claims
\* and renewals are repeated because their answers were lost: a worker that
\* hears nothing holds its task for one lease length at most.
LeaseBounded ==
    \A t \in Task :
       work[t].state = "LEASED" => work[t].deadline <= now + LeaseSeconds

(* What the inbox of result batches promises to its readers.               *)

\* The batches accepted for a task come from generations that never go back:
\* once a later generation has committed, an earlier one is shut out.
StreamFenced ==
    \A t \in Task :
       /\ \A a, b \in 1 .. Len(stream[t]) :
             a <= b => stream[t][a].gen <= stream[t][b].gen
       /\ \A a \in 1 .. Len(stream[t]) :
             /\ stream[t][a].gen <= work[t].gen
             /\ stream[t][a].final => a = Len(stream[t])
                                     /\ work[t].state = "COMPLETE"

\* A batch row is the accepted batch of its sequence number, there is one row
\* at most for a number, and the next number expected is the one after the
\* last accepted, garbage collection of rows notwithstanding.
InboxMatchesStream ==
    /\ \A t \in Task : work[t].nextSeq = Len(stream[t])
    /\ \A b \in batches : /\ b.seq < Len(stream[b.task])
                          /\ b.entry = stream[b.task][b.seq + 1]
    /\ \A b, c \in batches : b.task = c.task /\ b.seq = c.seq => b = c

\* A batch that no bridge has settled survives every step: neither garbage
\* collection, nor a new generation, nor the end of its task removes it.
UnreadIsKept ==
    [][\A b \in batches :
          Unread(b) => \E c \in batches' : /\ c.task = b.task
                                          /\ c.seq = b.seq
                                          /\ c.entry = b.entry]_vars

\* A compacted row is a tombstone: it is complete and no batch of it will
\* ever again be there to read, so that a bridge never needs its payload.
CompactedIsDrained ==
    \A t \in Task :
       work[t].compacted => /\ work[t].state = "COMPLETE"
                            /\ \A b \in batches : b.task = t => ~Unread(b)

\* COMPLETE and DEAD are final, for the state and for the stream.
TerminalIsFinal ==
    [][\A t \in Task :
          work[t].state \in {"COMPLETE", "DEAD"}
          => work'[t].state = work[t].state /\ stream'[t] = stream[t]]_vars

=============================================================================
