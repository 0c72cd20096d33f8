--------------------------- MODULE FabricWorker ---------------------------
(***************************************************************************)
(* The worker processes of the distributed runtime and their requests to   *)
(* the authority: the loop of worker.py with its result spool              *)
(* (worker_spool.py), the lease keeper that renews concurrently            *)
(* (lease_keeper.py), and the client that turns lost connections and       *)
(* retryable statuses into CoordinatorTransportError                       *)
(* (coordinator_client.py).                                                *)
(*                                                                         *)
(* A call either is answered, in one step with its handling, or its client *)
(* gives up on it: the request is then late, and the authority may still   *)
(* handle it at any later time, or never; its answer reaches nobody.  A    *)
(* lost answer is a late request that is handled at once.  A process may   *)
(* crash between any two steps; its spool and the instance id recorded     *)
(* there survive.                                                          *)
(***************************************************************************)
EXTENDS FabricAuthority

CONSTANTS
    NoTask,     \* no lease is held
    Lag,        \* seconds the clock of a worker trails the authority's
    MaxLate,    \* bound: late requests at a time
    LateKinds   \* bound: the kinds of request that may be late

ASSUME WorkerAssumption ==
    /\ NoTask \notin Task /\ Lag \in Nat /\ MaxLate \in Nat
    /\ 0 \in RetryDelay     \* a failure report asks for no delay

VARIABLES
    proc,       \* proc[w]: the process of worker w
    spool,      \* spool[w]: pending_result_batches, durable
    late        \* requests whose clients have given up

workerVars == <<proc, spool, late>>
authVars == <<now, workers, work, batches, stream>>
allVars == <<now, workers, work, batches, stream, proc, spool, late>>

(* register: registering; initial: replaying the spool on the way up;      *)
(* idle: at the top of the loop; run: the producer runs under a lease;     *)
(* deliver: a batch is being delivered.                                    *)
Phase == {"down", "register", "initial", "idle", "run", "deliver"}

SpoolBatch == [task : Task, seq : Nat, entry : Entry]

Process ==
    [phase : Phase, inst : Nat, task : Task \cup {NoTask}, gen : Nat,
     deadline : Nat, seq : Nat, lost : BOOLEAN]

Body ==
    [kind : {"register", "claim"}] \cup [kind : {"commit"}, batch : SpoolBatch]
    \cup [kind : {"renew"}, task : Task, gen : Nat, expected : Nat \ {0}]
    \cup [kind : {"fail"}, task : Task, gen : Nat]

WorkerTypeOK ==
    /\ TypeOK
    /\ proc \in [Worker -> Process]
    /\ spool \in [Worker -> SUBSET SpoolBatch]
    /\ late \subseteq [from : Worker, inst : Instance, body : Body]

WorkerInit ==
    /\ Init
    /\ proc = [w \in Worker |->
                 [phase |-> "down", inst |-> NULL, task |-> NoTask, gen |-> 0,
                  deadline |-> NULL, seq |-> 0, lost |-> FALSE]]
    /\ spool = [w \in Worker |-> {}]
    /\ late = {}

-----------------------------------------------------------------------------
(* Helpers.                                                                *)

\* Mistake: the wrong value for no lease.
AtNoWorker(w, phase) ==
    [proc[w] EXCEPT !.phase = phase, !.task = NoWorker, !.gen = 0,
                    !.deadline = NULL, !.seq = 0, !.lost = FALSE]

\* The process with no lease, at the given place.
At(w, phase) ==
    [proc[w] EXCEPT !.phase = phase, !.task = NoTask, !.gen = 0,
                    !.deadline = NULL, !.seq = 0, !.lost = FALSE]

Goto(w, phase) == proc' = [proc EXCEPT ![w] = At(w, phase)]

Working(w) == proc[w].phase \in {"run", "deliver"}

\* LeaseKeeper.assert_owned, by the clock of the worker.
Owned(w) == ~proc[w].lost /\ now < proc[w].deadline + Lag

Verdict(w, b) == CommitVerdict(b.task, w, proc[w].inst, b.seq, b.entry)

OfGeneration(w, b) ==
    {c \in spool[w] : c.task = b.task /\ c.entry.gen = b.entry.gen}

\* The request that a process has under way at each place.
Request(w) ==
    CASE proc[w].phase = "register" -> {[kind |-> "register"]}
      [] proc[w].phase = "idle" /\ spool[w] = {} -> {[kind |-> "claim"]}
      [] proc[w].phase \in {"initial", "idle", "deliver"} ->
           {[kind |-> "commit", batch |-> b] : b \in spool[w]}
      [] OTHER -> {}

Sent(w, r) == [from |-> w, inst |-> proc[w].inst, body |-> r]

-----------------------------------------------------------------------------
(* The life of a process.                                                  *)

\* resolve_worker_instance_id: unacknowledged batches keep their instance.
Start(w) ==
    LET keep == spool[w] # {} /\ proc[w].inst # NULL IN
    /\ proc[w].phase = "down"
    /\ keep \/ proc[w].inst < MaxInstance
    /\ proc' = [proc EXCEPT ![w] =
                  [At(w, "register") EXCEPT !.inst = IF keep THEN @ ELSE @ + 1]]
    /\ UNCHANGED <<authVars, spool, late>>

\* Mistake: the spool is not on disk.
CrashVolatile(w) ==
    /\ proc[w].phase # "down"
    /\ Goto(w, "down")
    /\ spool' = [spool EXCEPT ![w] = {}]
    /\ UNCHANGED <<authVars, late>>

Crash(w) ==
    /\ proc[w].phase # "down"
    /\ Goto(w, "down")
    /\ UNCHANGED <<authVars, spool, late>>

RegisterCall(w) ==
    /\ proc[w].phase = "register"
    /\ Register(w, proc[w].inst)
    /\ Goto(w, IF spool[w] = {} THEN "idle" ELSE "initial")
    /\ UNCHANGED <<spool, late>>

\* Mistake: a stale batch is kept, and refused again after every restart.
ReplayCallKeepsStale(w) ==
    /\ proc[w].phase \in {"initial", "idle"}
    /\ UNCHANGED late
    /\ \E b \in spool[w] :
         \/ /\ Commit(b.task, w, proc[w].inst, b.seq, b.entry)
            /\ spool' = [spool EXCEPT ![w] = @ \ {b}]
            /\ Goto(w, "idle")
         \/ /\ Verdict(w, b) = "ALREADY"
            /\ spool' = [spool EXCEPT ![w] = @ \ {b}]
            /\ Goto(w, "idle")
            /\ UNCHANGED authVars
         \/ /\ Verdict(w, b) \in {"STALE", "CONFLICT", "SEQUENCE"}
            /\ Goto(w, "down")
            /\ UNCHANGED <<authVars, spool>>

\* _replay_spool, one batch.  Only STALE_LEASE is caught: any other refusal
\* of the authority ends the process.
ReplayCall(w) ==
    /\ proc[w].phase \in {"initial", "idle"}
    /\ UNCHANGED late
    /\ \E b \in spool[w] :
         \/ /\ Commit(b.task, w, proc[w].inst, b.seq, b.entry)
            /\ spool' = [spool EXCEPT ![w] = @ \ {b}]
            /\ Goto(w, "idle")
         \/ /\ Verdict(w, b) = "ALREADY"
            /\ spool' = [spool EXCEPT ![w] = @ \ {b}]
            /\ Goto(w, "idle")
            /\ UNCHANGED authVars
         \/ /\ Verdict(w, b) = "STALE"
            /\ spool' = [spool EXCEPT ![w] = @ \ OfGeneration(w, b)]
            /\ Goto(w, "idle")
            /\ UNCHANGED authVars
         \/ /\ Verdict(w, b) \in {"CONFLICT", "SEQUENCE"}
            /\ Goto(w, "down")
            /\ UNCHANGED <<authVars, spool>>

\* The lease that a claim answers with, as the authority's new state has it.
TakeLease(w, t) ==
    proc' = [proc EXCEPT ![w] =
               [@ EXCEPT !.phase = "run", !.task = t, !.gen = work'[t].gen,
                         !.deadline = work'[t].deadline,
                         !.seq = work'[t].nextSeq]]

ClaimCall(w) ==
    LET i == proc[w].inst IN
    /\ proc[w].phase = "idle"
    /\ spool[w] = {}
    /\ UNCHANGED <<spool, late>>
    /\ \/ ~Known(w, i) /\ Goto(w, "down") /\ UNCHANGED authVars
       \/ /\ Known(w, i)
          /\ \E t \in ActiveLeases(w, i) : UNCHANGED authVars /\ TakeLease(w, t)
       \/ \E t \in Task : Claim(t, w, i) /\ TakeLease(w, t)

\* The producer yields a batch: it is spooled before it is sent.
Produce(w, final, data) ==
    /\ proc[w].phase = "run"
    /\ Owned(w)
    /\ proc[w].seq < MaxBatches
    /\ spool' = [spool EXCEPT ![w] = @ \cup
         {[task |-> proc[w].task, seq |-> proc[w].seq,
           entry |-> [gen |-> proc[w].gen, final |-> final, data |-> data]]}]
    /\ proc' = [proc EXCEPT ![w].phase = "deliver"]
    /\ UNCHANGED <<authVars, late>>

\* The producer raises, and the failure is reported on the way out.
ReportFailure(w) ==
    LET p == proc[w] IN
    IF Owned(w) /\ Owns(p.task, w, p.inst, p.gen)
    THEN Fail(p.task, w, p.inst, p.gen, TRUE, 0)
    ELSE UNCHANGED authVars

ProducerFails(w) ==
    /\ proc[w].phase = "run"
    /\ ReportFailure(w)
    /\ Goto(w, "idle")
    /\ UNCHANGED <<spool, late>>

\* _deliver, one attempt.  A refusal that is not STALE_LEASE goes the way of
\* a failing producer and leaves the batch in the spool.
DeliverCall(w) ==
    /\ proc[w].phase = "deliver"
    /\ Owned(w)
    /\ UNCHANGED late
    /\ \E b \in spool[w] :
         LET delivered ==
               /\ spool' = [spool EXCEPT ![w] = @ \ {b}]
               /\ IF b.entry.final THEN Goto(w, "idle")
                  ELSE proc' = [proc EXCEPT ![w].phase = "run",
                                            ![w].seq = @ + 1]
         IN
         \/ Commit(b.task, w, proc[w].inst, b.seq, b.entry) /\ delivered
         \/ Verdict(w, b) = "ALREADY" /\ delivered /\ UNCHANGED authVars
         \/ /\ Verdict(w, b) = "STALE"
            /\ spool' = [spool EXCEPT ![w] = @ \ OfGeneration(w, b)]
            /\ Goto(w, "idle")
            /\ UNCHANGED authVars
         \/ /\ Verdict(w, b) \in {"CONFLICT", "SEQUENCE"}
            /\ ReportFailure(w)
            /\ Goto(w, "idle")
            /\ UNCHANGED spool

\* assert_owned raises LeaseLostError: the batch under delivery stays in the
\* spool, to be replayed before the next claim.
NoticeLoss(w) ==
    /\ Working(w)
    /\ ~Owned(w)
    /\ Goto(w, "idle")
    /\ UNCHANGED <<authVars, spool, late>>

\* The lease keeper, beside the producer.
RenewCall(w) ==
    LET p == proc[w] IN
    /\ Working(w)
    /\ Owned(w)
    /\ \/ /\ Renew(p.task, w, p.inst, p.gen, p.deadline)
          /\ proc' = [proc EXCEPT ![w].deadline = work'[p.task].deadline]
       \/ /\ ~RenewAccepted(p.task, w, p.inst, p.gen, p.deadline)
          /\ proc' = [proc EXCEPT ![w].lost = TRUE]
          /\ UNCHANGED authVars
    /\ UNCHANGED <<spool, late>>

\* The monthly upload budget refuses a call before it is sent.  The keeper
\* takes that for a lost lease; any other call ends the run, reports nothing,
\* and leaves what is spooled for the time the budget is renewed.
UploadBudgetSpent(w) ==
    /\ Working(w)
    /\ \/ Goto(w, "idle")
       \/ proc' = [proc EXCEPT ![w].lost = TRUE]
    /\ UNCHANGED <<authVars, spool, late>>

-----------------------------------------------------------------------------
(* Requests whose clients time out.                                        *)

\* The client gives up; a failure while coming up registers again, and a
\* failure report is not repeated.
GiveUp(w, r) ==
    /\ Cardinality(late) < MaxLate
    /\ r.kind \in LateKinds
    /\ late' = late \cup {Sent(w, r)}
    /\ UNCHANGED <<authVars, spool>>

TimeOut(w) ==
    \/ \E r \in Request(w) :
         /\ GiveUp(w, r)
         /\ IF proc[w].phase = "initial" THEN Goto(w, "register")
                                         ELSE UNCHANGED proc
    \/ /\ Working(w) /\ Owned(w)
       /\ GiveUp(w, [kind |-> "renew", task |-> proc[w].task,
                     gen |-> proc[w].gen, expected |-> proc[w].deadline])
       /\ UNCHANGED proc
    \/ /\ proc[w].phase = "run" /\ Owned(w)
       /\ GiveUp(w, [kind |-> "fail", task |-> proc[w].task,
                     gen |-> proc[w].gen])
       /\ Goto(w, "idle")

Handled(w, i, r) ==
    \/ r.kind = "register" /\ Register(w, i)
    \/ r.kind = "claim" /\ \E t \in Task : Claim(t, w, i)
    \/ r.kind = "commit" /\ Commit(r.batch.task, w, i, r.batch.seq, r.batch.entry)
    \/ r.kind = "renew" /\ Renew(r.task, w, i, r.gen, r.expected)
    \/ r.kind = "fail" /\ Fail(r.task, w, i, r.gen, TRUE, 0)

\* A late request changes what the handler lets it change.
HandleLate(m) ==
    /\ Handled(m.from, m.inst, m.body)
    /\ late' = late \ {m}
    /\ UNCHANGED <<proc, spool>>

\* It was lost, or the handler refuses it.
DropLate(m) ==
    /\ late' = late \ {m}
    /\ UNCHANGED <<authVars, proc, spool>>

-----------------------------------------------------------------------------

Operator ==
    /\ \/ \E t \in Task : Admit(t, now)
       \/ \E w \in Worker : Revoke(w)
       \/ Tick
    /\ UNCHANGED workerVars

ProcessStep(w) ==
    \/ Start(w)
    \/ RegisterCall(w)
    \/ ReplayCall(w)
    \/ ClaimCall(w)
    \/ \E final \in BOOLEAN, data \in Payload : Produce(w, final, data)
    \/ ProducerFails(w)
    \/ DeliverCall(w)
    \/ NoticeLoss(w)
    \/ RenewCall(w)
    \/ UploadBudgetSpent(w)

WorkerNext ==
    \/ \E w \in Worker : ProcessStep(w) \/ Crash(w) \/ TimeOut(w)
    \/ \E m \in late : HandleLate(m) \/ DropLate(m)
    \/ Operator

WorkerSpec == WorkerInit /\ [][WorkerNext]_allVars

-----------------------------------------------------------------------------

\* The batch of a spool leaves it only when the authority has accepted that
\* very batch, or when the generation it was produced under owns its task no
\* more and can never own it again.
NoResultDropped ==
    [][\A w \in Worker : \A b \in spool[w] \ spool'[w] :
          \/ /\ b.seq < Len(stream'[b.task])
             /\ stream'[b.task][b.seq + 1] = b.entry
          \/ ~Owns(b.task, w, proc[w].inst, b.entry.gen)]_allVars

\* What a worker believes of its lease never runs ahead of the authority: a
\* late or repeated renewal does not make the deadline regress for it.
LeaseViewNotAhead ==
    \A w \in Worker :
       Working(w) =>
         LET row == work[proc[w].task] IN
         /\ proc[w].gen <= row.gen
         /\ row.state = "LEASED" /\ row.gen = proc[w].gen
            => proc[w].deadline <= row.deadline

\* A batch of a live lease is refused only as a replay of itself: while the
\* generation owns the task no other content can hold its sequence number.
LiveBatchNotRefused ==
    \A w \in Worker : \A b \in spool[w] :
       Owns(b.task, w, proc[w].inst, b.entry.gen)
       => Verdict(w, b) \in {"COMMITTED", "ALREADY"}

\* _replay_spool's comment: "If the task lease was fenced or expired, Authority
\* returns STALE_LEASE and only that obsolete generation is discarded."  A
\* batch the authority already has is acknowledged instead.
FencedReplayIsStale ==
    \A w \in Worker :
       proc[w].phase \in {"initial", "idle"} =>
         \A b \in spool[w] :
            ~Owns(b.task, w, proc[w].inst, b.entry.gen)
            => Verdict(w, b) \in {"STALE", "ALREADY"}

-----------------------------------------------------------------------------
(* Progress.  The service manager restarts a process that ended            *)
(* (Restart=always), its event loop runs on, and a call that is repeated   *)
(* for ever is answered some time: calls may time out and processes may    *)
(* crash again and again, but not before every single answer.              *)

Fairness ==
    \A w \in Worker :
       /\ WF_allVars(Start(w))
       /\ WF_allVars(NoticeLoss(w))
       /\ SF_allVars(RegisterCall(w))
       /\ SF_allVars(ReplayCall(w))
       /\ SF_allVars(DeliverCall(w))

FairWorkerSpec == WorkerSpec /\ Fairness

\* A batch of a superseded generation whose number a later one has filled.
Poisoned(w) == \E b \in spool[w] : Verdict(w, b) = "CONFLICT"

\* A spooled result does not stay spooled: it is accepted or discarded, and
\* the worker can claim again, unless a later generation has filled its
\* number, in which case the process ends on every replay.
SpoolDrains ==
    \A w \in Worker : spool[w] # {} ~> spool[w] = {} \/ Poisoned(w)
=============================================================================
