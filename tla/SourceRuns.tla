----------------------------- MODULE SourceRuns -----------------------------
(***************************************************************************)
(* The life of a source run: its production exposure (control_store.py),   *)
(* its row in source_run_outcomes (source_discovery/registry.py), the      *)
(* producer that begins, reads and aborts it (runtime/source_producer.py)  *)
(* and the readiness runtime that closes it and publishes its reward       *)
(* (runtime/readiness.py).  The two processes share tables and no lock:    *)
(* what one method of theirs does in several transactions or SELECTs is    *)
(* several actions here.                                                   *)
(*                                                                         *)
(* Abstracted: a lease asks for at most one evidence task and gets at most *)
(* one proof; grant and save_lease are one step, and a lease that ended is *)
(* never brought back (SourceProducer has both); one authority, whose      *)
(* comparisons always agree; counters and rewards are left out, and with   *)
(* them the answer finalize_production_exposure gives for an exposure that *)
(* is already FINAL_CLOSED: record_source_run_validation raises before it. *)
(* An operator introduced by "Mistake" is the next definition with a bug.  *)
(***************************************************************************)
EXTENDS Naturals, FiniteSets

CONSTANTS
    Lease,              \* lease_id: one run each
    Producer,           \* source producer processes
    MaxCrashes,         \* producer crashes explored (a bound)
    MaxReaderCrashes    \* readiness crashes explored (a bound)

NoLease == "no lease"

ASSUME RunsAssumption ==
    /\ IsFiniteSet(Lease) /\ NoLease \notin Lease
    /\ MaxCrashes \in Nat /\ MaxReaderCrashes \in Nat

VARIABLES
    leases,      \* work_leases.state
    overdue,     \* leases whose expires_at has passed
    exposures,   \* production_exposures.state
    runs,        \* source_run_outcomes
    tasks,       \* the evidence task of the lease
    staged,      \* leases with a row in evidence_route_backlog_v1
    proofs,      \* sequence of the proof of the lease, 0 if there is none
    producers,   \* each producer process
    ledger,      \* readiness ledger cursor
    reader,      \* the readiness process
    crashes      \* crashes so far, of producers and of the reader

vars == <<leases, overdue, exposures, runs, tasks, staged, proofs, producers,
          ledger, reader, crashes>>
evidence == <<tasks, staged, proofs>>

NoRun == [stored |-> FALSE]

LeaseEnded == {"SUCCEEDED", "ABORTED", "EXPIRED"}
LeaseLost == {"ABORTED", "EXPIRED"}
Phase == {"RUNNING", "READ_COMPLETE", "VALIDATING"}
ExposureTerminal == {"FINAL_CLOSED", "ABORTED", "EXPIRED"}

Run == [stored : {TRUE}, read : BOOLEAN, valid : BOOLEAN, closed : BOOLEAN,
        terminal : {"none"} \cup LeaseLost, frontier : 0 .. Cardinality(Lease)]

ProducerState ==
    [pc : {"idle", "exposures", "sweep", "drop", "dropRow", "begin",
           "register", "work", "progress", "finalize", "abort"},
     lease : Lease \cup {NoLease}, list : SUBSET Lease, run : Lease \cup {NoLease}]

ReaderState ==
    [pc : {"sync", "list", "next", "lease", "queued", "staged", "validate",
           "progress", "check", "finalize", "close"},
     todo : SUBSET Lease, lease : Lease \cup {NoLease},
     frontier : 0 .. Cardinality(Lease), ended : BOOLEAN, open : BOOLEAN]

TypeOK ==
    /\ leases \in [Lease -> {"none", "RUNNING"} \cup LeaseEnded]
    /\ overdue \subseteq Lease
    /\ exposures \in [Lease -> {"none"} \cup Phase \cup ExposureTerminal]
    /\ runs \in [Lease -> Run \cup {NoRun}]
    /\ tasks \in [Lease -> {"none", "open", "ended"}]
    /\ staged \subseteq Lease
    /\ proofs \in [Lease -> 0 .. Cardinality(Lease)]
    /\ producers \in [Producer -> ProducerState]
    /\ ledger \in 0 .. Cardinality(Lease)
    /\ reader \in ReaderState
    /\ crashes \in [producer : 0 .. MaxCrashes, reader : 0 .. MaxReaderCrashes]

Idle == [pc |-> "idle", lease |-> NoLease, list |-> {}, run |-> NoLease]
Syncing == [pc |-> "sync", todo |-> {}, lease |-> NoLease, frontier |-> 0,
            ended |-> FALSE, open |-> FALSE]

Init ==
    /\ leases = [l \in Lease |-> "none"]
    /\ overdue = {}
    /\ exposures = [l \in Lease |-> "none"]
    /\ runs = [l \in Lease |-> NoRun]
    /\ tasks = [l \in Lease |-> "none"]
    /\ staged = {}
    /\ proofs = [l \in Lease |-> 0]
    /\ producers = [p \in Producer |-> Idle]
    /\ ledger = 0
    /\ reader = Syncing
    /\ crashes = [producer |-> 0, reader |-> 0]

At(p, pc) == producers[p].pc = pc
Goto(p, pc) == producers' = [producers EXCEPT ![p].pc = pc]
Own(p) == producers[p].lease

Latest == Cardinality({l \in Lease : proofs[l] > 0})

-----------------------------------------------------------------------------
(* production_exposures: the three transactions.                           *)

Rank == [RUNNING |-> 0, READ_COMPLETE |-> 1, VALIDATING |-> 2]

\* Mistake: a late writer moves the exposure back to the phase it reports.
ProgressAnyway(l, target) ==
    /\ exposures[l] \in Phase
    /\ exposures' = [exposures EXCEPT ![l] = target]

\* record_production_exposure_progress; it raises where this is not enabled.
Progress(l, target) ==
    /\ exposures[l] \in Phase
    /\ exposures' = [exposures EXCEPT ![l] =
                        IF Rank[@] < Rank[target] THEN target ELSE @]

\* abort_production_exposure
DropExposure(l, state) ==
    exposures' = [exposures EXCEPT ![l] = IF @ \in Phase THEN state ELSE @]

\* Mistake: an exposure is closed in any phase, and a lost one too.
FinalizeAny(l) == exposures' = [exposures EXCEPT ![l] = "FINAL_CLOSED"]

\* finalize_production_exposure; it returns False where this is not enabled.
FinalizeExposure(l) ==
    /\ exposures[l] = "VALIDATING"
    /\ exposures' = [exposures EXCEPT ![l] = "FINAL_CLOSED"]

-----------------------------------------------------------------------------
(* The source producer: run_once starts with recover_source_runs.          *)

\* recover_expired_leases
Expired == [l \in Lease |-> IF l \in overdue /\ leases[l] = "RUNNING"
                           THEN "EXPIRED" ELSE leases[l]]

RecoverLeases(p) ==
    /\ At(p, "idle")
    /\ leases' = Expired
    /\ Goto(p, "exposures")
    /\ UNCHANGED <<overdue, exposures, runs, evidence, ledger, reader, crashes>>

\* recover_open_production_exposures
RecoverExposures(p) ==
    /\ At(p, "exposures")
    /\ exposures' = [l \in Lease |-> IF exposures[l] \in Phase /\ leases[l] \in LeaseLost
                                     THEN leases[l] ELSE exposures[l]]
    /\ Goto(p, "sweep")
    /\ UNCHANGED <<leases, overdue, runs, evidence, ledger, reader, crashes>>

Lost(l) == runs[l].stored /\ ~runs[l].closed /\ runs[l].terminal = "none"
           /\ leases[l] \in LeaseLost

\* Mistake: only the runs of leases that aborted are swept, none that expired.
SweepAborted(p) ==
    /\ At(p, "sweep")
    /\ producers' = [producers EXCEPT
           ![p].pc = "drop", ![p].list = {l \in Lease : Lost(l) /\ leases[l] = "ABORTED"}]
    /\ UNCHANGED <<leases, overdue, exposures, runs, evidence, ledger, reader, crashes>>

\* The SELECT of recover_source_runs.
Sweep(p) ==
    /\ At(p, "sweep")
    /\ producers' = [producers EXCEPT
           ![p].pc = "drop", ![p].list = {l \in Lease : Lost(l)}]
    /\ UNCHANGED <<leases, overdue, exposures, runs, evidence, ledger, reader, crashes>>

Finished(p) ==
    producers' = [producers EXCEPT
        ![p] = IF Own(p) = NoLease THEN [@ EXCEPT !.pc = "drop", !.run = NoLease] ELSE Idle]

\* abort_source_run, first the exposure, unless the run ended meanwhile ...
Drop(p) ==
    /\ At(p, "drop")
    /\ \E l \in producers[p].list :
          IF runs[l].terminal = "none"
          THEN /\ DropExposure(l, leases[l])
               /\ producers' = [producers EXCEPT
                     ![p].pc = "dropRow", ![p].list = @ \ {l}, ![p].run = l]
          ELSE /\ IF Own(p) = NoLease
                  THEN producers' = [producers EXCEPT ![p].list = @ \ {l}]
                  ELSE producers' = [producers EXCEPT ![p] = Idle]
               /\ UNCHANGED exposures
    /\ UNCHANGED <<leases, overdue, runs, evidence, ledger, reader, crashes>>

\* ... and then its row.
DropRow(p) ==
    LET l == producers[p].run IN
    /\ At(p, "dropRow")
    /\ runs' = [runs EXCEPT ![l].terminal =
                   IF @ = "none" /\ ~runs[l].closed THEN leases[l] ELSE @]
    /\ Finished(p)
    /\ UNCHANGED <<leases, overdue, exposures, evidence, ledger, reader, crashes>>

\* _grant_fresh_lease and save_lease, or nothing to run.
Take(p) ==
    /\ At(p, "drop") /\ producers[p].list = {} /\ Own(p) = NoLease
    /\ \/ \E l \in Lease :
             /\ leases[l] = "none"
             /\ leases' = [leases EXCEPT ![l] = "RUNNING"]
             /\ producers' = [producers EXCEPT ![p].pc = "begin", ![p].lease = l]
       \/ /\ producers' = [producers EXCEPT ![p] = Idle]
          /\ UNCHANGED leases
    /\ UNCHANGED <<overdue, exposures, runs, evidence, ledger, reader, crashes>>

\* begin_source_run, first begin_production_exposure ...
BeginExposure(p) ==
    /\ At(p, "begin")
    /\ exposures' = [exposures EXCEPT ![Own(p)] = "RUNNING"]
    /\ Goto(p, "register")
    /\ UNCHANGED <<leases, overdue, runs, evidence, ledger, reader, crashes>>

\* ... and then the row.
BeginRun(p) ==
    /\ At(p, "register")
    /\ runs' = [runs EXCEPT ![Own(p)] =
                   [stored |-> TRUE, read |-> FALSE, valid |-> FALSE, closed |-> FALSE,
                    terminal |-> "none", frontier |-> 0]]
    /\ Goto(p, "work")
    /\ UNCHANGED <<leases, overdue, exposures, evidence, ledger, reader, crashes>>

\* enqueue_external_keys: the task is inserted or waits in the spillover table.
Ask(p) ==
    LET l == Own(p) IN
    /\ At(p, "work") /\ tasks[l] = "none" /\ l \notin staged
    /\ \/ tasks' = [tasks EXCEPT ![l] = "open"] /\ UNCHANGED staged
       \/ staged' = staged \cup {l} /\ UNCHANGED tasks
    /\ UNCHANGED <<leases, overdue, exposures, runs, proofs, producers, ledger, reader, crashes>>

\* A direct capsule: EvidenceStore.put_many_with_task_provenance.
CommitDirect(p) ==
    LET l == Own(p) IN
    /\ At(p, "work") /\ proofs[l] = 0
    /\ proofs' = [proofs EXCEPT ![l] = Latest + 1]
    /\ UNCHANGED <<leases, overdue, exposures, runs, tasks, staged, producers, ledger, reader, crashes>>

\* Reading or routing fails, or the lease turns out to be overdue.
RunFails(p) ==
    /\ At(p, "work")
    /\ Goto(p, "abort")
    /\ UNCHANGED <<leases, overdue, exposures, runs, evidence, ledger, reader, crashes>>

\* record_source_run_read, first the row ...
RecordRead(p) ==
    /\ At(p, "work") /\ Own(p) \notin overdue
    /\ runs' = [runs EXCEPT ![Own(p)].read = TRUE]
    /\ Goto(p, "progress")
    /\ UNCHANGED <<leases, overdue, exposures, evidence, ledger, reader, crashes>>

\* ... and then the exposure.
RecordReadProgress(p) ==
    /\ At(p, "progress")
    /\ \/ Progress(Own(p), "READ_COMPLETE") /\ Goto(p, "finalize")
       \/ exposures[Own(p)] \notin Phase /\ Goto(p, "abort") /\ UNCHANGED exposures
    /\ UNCHANGED <<leases, overdue, runs, evidence, ledger, reader, crashes>>

\* finalize_lease
FinalizeLease(p) ==
    LET l == Own(p) IN
    /\ At(p, "finalize")
    /\ \/ /\ leases[l] = "RUNNING" /\ l \notin overdue
          /\ leases' = [leases EXCEPT ![l] = "SUCCEEDED"]
          /\ producers' = [producers EXCEPT ![p] = Idle]
       \/ /\ leases[l] # "RUNNING" \/ l \in overdue
          /\ Goto(p, "abort") /\ UNCHANGED leases
    /\ UNCHANGED <<overdue, exposures, runs, evidence, ledger, reader, crashes>>

\* abort_lease raises for a lease that ended, and abort_source_run is not reached.
AbortLease(p) ==
    LET l == Own(p) IN
    /\ At(p, "abort")
    /\ \/ /\ leases[l] = "RUNNING"
          /\ leases' = [leases EXCEPT ![l] = "ABORTED"]
          /\ producers' = [producers EXCEPT ![p].pc = "drop", ![p].list = {l}]
       \/ /\ leases[l] # "RUNNING"
          /\ producers' = [producers EXCEPT ![p] = Idle]
          /\ UNCHANGED leases
    /\ UNCHANGED <<overdue, exposures, runs, evidence, ledger, reader, crashes>>

Crash(p) ==
    /\ ~At(p, "idle") /\ crashes.producer < MaxCrashes
    /\ crashes' = [crashes EXCEPT !.producer = @ + 1]
    /\ producers' = [producers EXCEPT ![p] = Idle]
    /\ UNCHANGED <<leases, overdue, exposures, runs, evidence, ledger, reader>>

-----------------------------------------------------------------------------
(* The evidence queue, the router's flush_pending and the clock.           *)

\* flush_pending enqueues first ...
FlushEnqueue(l) ==
    /\ l \in staged /\ tasks[l] = "none"
    /\ tasks' = [tasks EXCEPT ![l] = "open"]
    /\ UNCHANGED <<leases, overdue, exposures, runs, staged, proofs, producers, ledger,
                   reader, crashes>>

\* ... and then deletes from the spillover table.
FlushDelete(l) ==
    /\ l \in staged /\ tasks[l] # "none"
    /\ staged' = staged \ {l}
    /\ UNCHANGED <<leases, overdue, exposures, runs, tasks, proofs, producers, ledger,
                   reader, crashes>>

\* The commit of an evidence result stores its proof before the task ends.
StoreProof(l) ==
    /\ tasks[l] = "open" /\ proofs[l] = 0
    /\ proofs' = [proofs EXCEPT ![l] = Latest + 1]
    /\ UNCHANGED <<leases, overdue, exposures, runs, tasks, staged, producers, ledger,
                   reader, crashes>>

EndTask(l) ==
    /\ tasks[l] = "open"
    /\ tasks' = [tasks EXCEPT ![l] = "ended"]
    /\ UNCHANGED <<leases, overdue, exposures, runs, staged, proofs, producers, ledger,
                   reader, crashes>>

\* expires_at passes.
Lapse(l) ==
    /\ leases[l] = "RUNNING" /\ l \notin overdue
    /\ overdue' = overdue \cup {l}
    /\ UNCHANGED <<leases, exposures, runs, evidence, producers, ledger, reader, crashes>>

\* The historical index service calls recover_expired_leases too.
ExpireLeases ==
    /\ leases # Expired /\ leases' = Expired
    /\ UNCHANGED <<overdue, exposures, runs, evidence, producers, ledger, reader, crashes>>

-----------------------------------------------------------------------------
(* The readiness runtime: sync_once.                                       *)

Reading(pc) == reader.pc = pc
Then(pc) == reader' = [reader EXCEPT !.pc = pc]
NextRun == reader' = [Syncing EXCEPT !.pc = "next", !.todo = reader.todo]

readerOnly == <<leases, overdue, exposures, runs, evidence, producers, crashes>>

\* apply_batch of the rows after the cursor, and the report at the new cursor.
Apply ==
    /\ Reading("sync")
    /\ ledger' = IF ledger < Latest THEN ledger + 1 ELSE ledger
    /\ Then("list")
    /\ UNCHANGED readerOnly

\* list_source_run_outcomes; a closed run is passed over.
List ==
    /\ Reading("list")
    /\ reader' = [reader EXCEPT !.pc = "next", !.todo =
           {l \in Lease : runs[l].stored /\ runs[l].terminal = "none" /\ ~runs[l].closed}]
    /\ UNCHANGED <<readerOnly, ledger>>

\* _max_source_run_evidence_sequence
ReadFrontier ==
    /\ Reading("next")
    /\ \E l \in reader.todo :
          reader' = [reader EXCEPT !.pc = "lease", !.todo = @ \ {l},
                                   !.lease = l, !.frontier = proofs[l]]
    /\ UNCHANGED <<readerOnly, ledger>>

\* Nothing is left: the cycle ends.
Done ==
    /\ Reading("next") /\ reader.todo = {}
    /\ reader' = Syncing
    /\ UNCHANGED <<readerOnly, ledger>>

Current == reader.lease

\* Mistake: a lease that is still held counts as ended.
ReadLeaseHeld ==
    /\ Reading("lease")
    /\ reader' = [reader EXCEPT !.pc = "queued", !.ended = leases[Current] # "none"]
    /\ UNCHANGED <<readerOnly, ledger>>

\* _source_run_operational_metrics: the lease ...
ReadLease ==
    /\ Reading("lease")
    /\ reader' = [reader EXCEPT !.pc = "queued", !.ended = leases[Current] \in LeaseEnded]
    /\ UNCHANGED <<readerOnly, ledger>>

\* ... then the tasks ...
CountQueued ==
    /\ Reading("queued")
    /\ reader' = [reader EXCEPT !.pc = "staged", !.open = tasks[Current] = "open"]
    /\ UNCHANGED <<readerOnly, ledger>>

\* ... then the spillover table: a staged key is created and not terminal.
CountStaged ==
    /\ Reading("staged")
    /\ reader' = [reader EXCEPT !.pc = "validate", !.open = @ \/ Current \in staged]
    /\ UNCHANGED <<readerOnly, ledger>>

ValidationComplete ==
    /\ reader.ended /\ ~reader.open
    /\ ledger >= reader.frontier

\* record_source_run_validation, first the row; a run that was aborted takes it too ...
RecordValidation ==
    /\ Reading("validate")
    /\ runs' = [runs EXCEPT ![Current].valid = ValidationComplete,
                            ![Current].frontier = reader.frontier]
    /\ Then("progress")
    /\ UNCHANGED <<leases, overdue, exposures, evidence, producers, ledger, crashes>>

\* ... and then the exposure.  It raises for a terminal one: nothing catches
\* that, and the service starts again.
RecordValidationProgress ==
    /\ Reading("progress")
    /\ \/ /\ Progress(Current, "VALIDATING")
          /\ IF ValidationComplete THEN Then("check") ELSE NextRun
       \/ /\ exposures[Current] \in ExposureTerminal
          /\ reader' = Syncing /\ UNCHANGED exposures
    /\ UNCHANGED <<leases, overdue, runs, evidence, producers, ledger, crashes>>

\* close_source_run: the row is read without a transaction ...
CheckRun ==
    /\ Reading("check")
    /\ IF runs[Current].terminal = "none" /\ runs[Current].read
       THEN Then("finalize") ELSE NextRun
    /\ UNCHANGED <<readerOnly, ledger>>

\* ... the exposure is closed in the control store ...
CloseExposure ==
    /\ Reading("finalize")
    /\ \/ FinalizeExposure(Current) /\ Then("close")
       \/ exposures[Current] # "VALIDATING" /\ NextRun /\ UNCHANGED exposures
    /\ UNCHANGED <<leases, overdue, runs, evidence, producers, ledger, crashes>>

\* ... and the row is closed and its reward published, whatever its terminal_state.
CloseRun ==
    /\ Reading("close")
    /\ runs' = [runs EXCEPT ![Current].closed = @ \/ (runs[Current].read /\ runs[Current].valid)]
    /\ NextRun
    /\ UNCHANGED <<leases, overdue, exposures, evidence, producers, ledger, crashes>>

\* The readiness service is killed and restarted by the supervisor.
ReaderCrash ==
    /\ ~Reading("sync") /\ crashes.reader < MaxReaderCrashes
    /\ reader' = Syncing
    /\ crashes' = [crashes EXCEPT !.reader = @ + 1]
    /\ UNCHANGED <<leases, overdue, exposures, runs, evidence, producers, ledger>>

-----------------------------------------------------------------------------

ProducerStep(p) ==
    \/ RecoverLeases(p) \/ RecoverExposures(p) \/ Sweep(p) \/ Drop(p)
    \/ DropRow(p) \/ Take(p) \/ BeginExposure(p) \/ BeginRun(p) \/ Ask(p) \/ CommitDirect(p)
    \/ RecordRead(p) \/ RecordReadProgress(p) \/ FinalizeLease(p) \/ AbortLease(p)

QueueStep(l) == FlushEnqueue(l) \/ FlushDelete(l) \/ EndTask(l)

ReaderStep ==
    \/ Apply \/ List \/ ReadFrontier \/ Done \/ ReadLease \/ CountQueued \/ CountStaged
    \/ RecordValidation \/ RecordValidationProgress \/ CheckRun \/ CloseExposure \/ CloseRun

Next ==
    \/ \E p \in Producer : ProducerStep(p) \/ RunFails(p) \/ Crash(p)
    \/ \E l \in Lease : QueueStep(l) \/ StoreProof(l) \/ Lapse(l)
    \/ ExpireLeases \/ ReaderStep \/ ReaderCrash

Spec == Init /\ [][Next]_vars

\* A producer that never hears that its lease is overdue reads on and fails.
OverdueFails(p) == RunFails(p) /\ Own(p) \in overdue
Unheld(l) == \A p \in Producer : Own(p) # l

\* The two services loop and are restarted, tasks end (SourceProducer and
\* EvidenceWorker show how), time passes for a lease that nobody renews.
FairSpec ==
    /\ Spec
    /\ WF_vars(ReaderStep)
    /\ \A p \in Producer : WF_vars(ProducerStep(p)) /\ WF_vars(OverdueFails(p))
    /\ \A l \in Lease : WF_vars(QueueStep(l)) /\ WF_vars(Unheld(l) /\ Lapse(l))

-----------------------------------------------------------------------------
(* What the two services promise together.                                 *)

\* A run counts as FINAL only when its lease ended, its source was read to the
\* end of the lease and its exposure was closed and not lost before, whichever
\* of the producer and the readiness service went first (close_source_run:
\* "only after read, evidence and readiness closure").
FinalRunSettled ==
    \A l \in Lease : runs[l].stored /\ runs[l].closed =>
        leases[l] \in LeaseEnded /\ runs[l].read /\ exposures[l] = "FINAL_CLOSED"

Order(state) == IF state \in Phase THEN Rank[state] + 1
                ELSE IF state = "none" THEN 0 ELSE 4

\* However late a writer is, an exposure never goes back a phase, and one that
\* is FINAL_CLOSED, ABORTED or EXPIRED stays so ("Preserve the furthest state",
\* record_production_exposure_progress).
ExposureMovesForward ==
    [][\A l \in Lease : /\ Order(exposures[l]) =< Order(exposures'[l])
                        /\ exposures[l] \in ExposureTerminal => exposures'[l] = exposures[l]]_vars

Settled(l) == runs[l].stored /\ (runs[l].closed \/ runs[l].terminal # "none")

\* Every run that was begun is closed or aborted in the end, unless the readiness
\* service was killed (recover_source_runs: "Converge source runs whose work
\* lease ended").
RunSettles ==
    \A l \in Lease : runs[l].stored ~> (Settled(l) \/ crashes.reader > 0)

\* ... and when it was killed, too: a retry converges "without regressing the
\* lifecycle" (record_production_exposure_progress).
RunSettlesAfterRestart == \A l \in Lease : runs[l].stored ~> Settled(l)
=============================================================================
