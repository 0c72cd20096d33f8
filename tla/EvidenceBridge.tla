---------------------------- MODULE EvidenceBridge ----------------------------
(***************************************************************************)
(* DistributedEvidenceBridge (distributed/evidence_query.py) and its       *)
(* service loop (evidence_bridge_cli.py): it claims evidence tasks like a  *)
(* worker, sends them through Fabric, and commits the results that come    *)
(* back, beside the local workers of EvidenceWorker.                       *)
(*                                                                         *)
(* Three databases take part: the dispatch rows and the tasks (control     *)
(* store), the proofs (evidence store), the work rows and the inbox        *)
(* (Fabric).  The bridge is one process, one at a time (a file lock); it   *)
(* may die between any two of its transactions, and it may be slow: no     *)
(* clock waits for it.  Its owner name survives a restart.                 *)
(*                                                                         *)
(* Abstracted: Fabric to the fate of the work of one attempt (module       *)
(* FabricAuthority): it is answered by one batch, or DEAD; the second      *)
(* drain and the last reconcile of a turn, which repeat the next turn's.   *)
(***************************************************************************)
EXTENDS EvidenceWorker

CONSTANTS
    Bridge,              \* the owner "fabric:evidence"
    DispatchLimit,       \* limit of a dispatch
    MaxConsumeAttempts,  \* max_consume_attempts of the inbox
    MaxFaults,           \* bound: ends of the process, and turns that outlive
                         \* a lease they renewed
    MaxPoison,           \* bound: batches that no commit accepts
    MaxDead              \* bound: Fabric work that dies

ASSUME BridgeAssumption ==
    /\ Bridge \in Owner \ Worker
    /\ DispatchLimit \in Nat \ {0} /\ MaxConsumeAttempts \in Nat \ {0}
    /\ MaxFaults \in Nat /\ MaxPoison \in Nat /\ MaxDead \in Nat

VARIABLES
    mapping,   \* fabric_evidence_dispatch_v1: the state of each dispatch
    work,      \* the Fabric work of each dispatch
    batch,     \* its batch in the inbox
    fails,     \* consume_attempts of the batch
    bridge,    \* the process: where it is, and its local variables
    faults,    \* crashes and slow turns so far
    done       \* history: dispatches whose result has ended its task

bridgeVars == <<mapping, work, batch, fails, bridge, faults, done>>
allVars == <<vars, bridgeVars>>

Dispatch == Task \X (1..MaxAttempt)

MappingState == {"none", "ACTIVE", "STALE", "CONSUMED", "FAILED"}

Pc == {"renew", "reap", "read", "drain", "commit", "close", "mark", "failed",
       "release", "forget", "reap2", "renew2", "claim", "admit", "insert"}

Answer == Terminal \cup {"TRANSIENT_ERROR", "PARTIAL", "POISON"}

Start == [pc |-> "renew", cur |-> <<>>, back |-> "renew", todo |-> {},
          inbox |-> {}]

BridgeTypeOK ==
    /\ WorkerTypeOK
    /\ mapping \in [Dispatch -> MappingState]
    /\ work \in [Dispatch -> {"none", "OPEN", "DEAD"} \cup Answer]
    /\ batch \in [Dispatch -> {"none", "unread", "consumed", "quarantined"}]
    /\ fails \in [Dispatch -> 0..MaxConsumeAttempts]
    /\ bridge \in [pc : Pc, cur : Dispatch \cup {<<>>}, back : Pc,
                   todo : SUBSET Dispatch, inbox : SUBSET Dispatch]
    /\ faults \in Nat /\ done \subseteq Dispatch

BridgeInit ==
    /\ mapping = [d \in Dispatch |-> "none"]
    /\ work = [d \in Dispatch |-> "none"]
    /\ batch = [d \in Dispatch |-> "none"]
    /\ fails = [d \in Dispatch |-> 0]
    /\ bridge = Start /\ faults = 0 /\ done = {}

\* The task is still that of the dispatch, and still the bridge's.
Current(d) == tasks[d[1]].attempt = d[2] /\ tasks[d[1]].owner = Bridge

Active == {d \in Dispatch : mapping[d] = "ACTIVE"}

Goto(pc) == bridge' = [bridge EXCEPT !.pc = pc]

At(pc) == bridge.pc = pc

others == <<evidence, commits, workerVars>>

-----------------------------------------------------------------------------
(* renew_active and reconcile_failed_work begin every drain and every      *)
(* dispatch.                                                               *)

\* Mistake: every task of the bridge's name is renewed.
RenewOwned ==
    /\ At("renew") \/ At("renew2")
    /\ Goto(IF At("renew") THEN "reap" ELSE "claim")
    /\ mapping' = [d \in Dispatch |->
           IF d \in Active /\ ~Current(d) THEN "STALE" ELSE mapping[d]]
    /\ tasks' = Renewed(Bridge, Task, LeaseSeconds)
    /\ UNCHANGED <<others, work, batch, fails, faults, done>>

RenewActive ==
    /\ At("renew") \/ At("renew2")
    /\ Goto(IF At("renew") THEN "reap" ELSE "claim")
    /\ mapping' = [d \in Dispatch |->
           IF d \in Active /\ ~Current(d) THEN "STALE" ELSE mapping[d]]
    /\ tasks' = Renewed(Bridge, {d[1] : d \in {a \in Active : Current(a)}},
                        LeaseSeconds)
    /\ UNCHANGED <<others, work, batch, fails, faults, done>>

DeadOnes == {d \in Active : work[d] = "DEAD"}

\* The next dead dispatch, or on to what follows.
Reap ==
    /\ At("reap") \/ At("reap2")
    /\ \/ \E d \in DeadOnes :
             bridge' = [bridge EXCEPT !.pc = "release", !.cur = d,
                                  !.back = bridge.pc]
       \/ DeadOnes = {} /\ Goto(IF At("reap") THEN "read" ELSE "renew2")
    /\ UNCHANGED <<vars, mapping, work, batch, fails, faults, done>>

\* Mistake: the dispatch is closed before its task is released.
ReleaseSkipped ==
    /\ At("release") /\ Goto("forget")
    /\ UNCHANGED <<vars, mapping, work, batch, fails, faults, done>>

\* _release_dead_mapping: the task, if it is still that of the dispatch ...
Release ==
    /\ At("release") /\ Goto("forget")
    /\ Current(bridge.cur) => Owned(Bridge, bridge.cur[1])
    /\ tasks' = IF Current(bridge.cur) THEN Released(bridge.cur[1]) ELSE tasks
    /\ UNCHANGED <<others, mapping, work, batch, fails, faults, done>>

\* ... whose lease may have run out: the KeyError ends the process ...
ReleaseRefused ==
    /\ At("release") /\ Current(bridge.cur) /\ ~Owned(Bridge, bridge.cur[1])
    /\ bridge' = Start
    /\ UNCHANGED <<vars, mapping, work, batch, fails, faults, done>>

\* ... and then the dispatch.
MarkFailed ==
    /\ At("forget")
    /\ mapping' = [mapping EXCEPT ![bridge.cur] = "FAILED"]
    /\ bridge' = [bridge EXCEPT !.cur = <<>>, !.pc = bridge.back]
    /\ UNCHANGED <<vars, work, batch, fails, faults, done>>

-----------------------------------------------------------------------------
(* drain.                                                                  *)

ReadInbox ==
    /\ At("read")
    /\ bridge' = [bridge EXCEPT !.pc = "drain",
                      !.inbox = {d \in Dispatch : batch[d] = "unread"}]
    /\ UNCHANGED <<vars, mapping, work, batch, fails, faults, done>>

\* Mistake: one try more than there is.
ConsumeFailedOneMore(d) ==
    /\ fails' = [fails EXCEPT ![d] = @ + 1]
    /\ batch' = [batch EXCEPT ![d] =
           IF fails'[d] > MaxConsumeAttempts THEN "quarantined" ELSE "unread"]

\* Mistake: a batch that fails too often counts as consumed.
ConsumeDropped(d) ==
    /\ fails' = [fails EXCEPT ![d] = @ + 1]
    /\ batch' = [batch EXCEPT ![d] =
           IF fails'[d] = MaxConsumeAttempts THEN "consumed" ELSE "unread"]

\* mark_batch_consume_failed, which quarantines the last time.
ConsumeFailed(d) ==
    /\ fails' = [fails EXCEPT ![d] = @ + 1]
    /\ batch' = [batch EXCEPT ![d] =
           IF fails'[d] = MaxConsumeAttempts THEN "quarantined" ELSE "unread"]

Take(d, pc) ==
    bridge' = [bridge EXCEPT !.inbox = @ \ {d}, !.cur = d, !.pc = pc]

\* The batch came before its dispatch row was written, or it never was.
DrainUnmapped(d) ==
    /\ mapping[d] = "none"
    /\ ConsumeFailed(d) /\ Take(d, "drain")
    /\ UNCHANGED <<mapping, commits>>

\* The dispatch was closed before: by an attempt that is over, or by a
\* process that died before it could mark the batch.
DrainClosed(d) ==
    /\ mapping[d] \in {"STALE", "CONSUMED", "FAILED"}
    /\ batch' = [batch EXCEPT ![d] = "consumed"]
    /\ Take(d, "drain")
    /\ UNCHANGED <<mapping, fails, commits>>

\* Another process has the task, or had it.
DrainStale(d) ==
    /\ mapping[d] = "ACTIVE" /\ ~Current(d)
    /\ mapping' = [mapping EXCEPT ![d] = "STALE"]
    /\ Take(d, "mark")
    /\ UNCHANGED <<batch, fails, commits>>

DrainPoison(d) ==
    /\ mapping[d] = "ACTIVE" /\ Current(d) /\ work[d] = "POISON"
    /\ Take(d, "failed")
    /\ UNCHANGED <<mapping, batch, fails, commits>>

DrainCurrent(d) ==
    /\ mapping[d] = "ACTIVE" /\ Current(d) /\ work[d] # "POISON"
    /\ BeginCommit(Bridge, d[1], d[2], work[d])
    /\ Take(d, "commit")
    /\ UNCHANGED <<mapping, batch, fails>>

Drain ==
    /\ At("drain")
    /\ \/ \E d \in bridge.inbox :
             \/ DrainUnmapped(d)
             \/ DrainClosed(d)
             \/ DrainStale(d)
             \/ DrainPoison(d)
             \/ DrainCurrent(d)
       \/ /\ bridge.inbox = {}
          /\ bridge' = [Start EXCEPT !.pc = "reap2"]
          /\ UNCHANGED <<mapping, batch, fails, commits>>
    /\ UNCHANGED <<tasks, evidence, workerVars, work, faults, done>>

BridgeCommitStep ==
    At("commit") /\ CommitStep(Bridge) /\ UNCHANGED <<workerVars, bridgeVars>>

BridgeEndTask ==
    /\ At("commit") /\ EndTask(Bridge)
    /\ done' = done \cup {bridge.cur} /\ Goto("close")
    /\ UNCHANGED <<workerVars, mapping, work, batch, fails, faults>>

\* The lease ran out, or the task is another's: a failed consumption too.
BridgeEndRefused ==
    /\ At("commit") /\ EndRefused(Bridge) /\ Goto("failed")
    /\ UNCHANGED <<workerVars, mapping, work, batch, fails, faults, done>>

CloseMapping ==
    /\ At("close") /\ Goto("mark")
    /\ mapping' = [mapping EXCEPT ![bridge.cur] = "CONSUMED"]
    /\ UNCHANGED <<vars, work, batch, fails, faults, done>>

MarkConsumed ==
    /\ At("mark") /\ Goto("drain")
    /\ batch' = [batch EXCEPT ![bridge.cur] = "consumed"]
    /\ UNCHANGED <<vars, mapping, work, fails, faults, done>>

CommitFailed ==
    /\ At("failed") /\ ConsumeFailed(bridge.cur)
    /\ bridge' = [bridge EXCEPT !.back = "drain", !.pc =
           IF batch'[bridge.cur] = "quarantined" THEN "release" ELSE "drain"]
    /\ UNCHANGED <<vars, mapping, work, faults, done>>

-----------------------------------------------------------------------------
(* dispatch.                                                               *)

DispatchClaim ==
    /\ At("claim")
    /\ \E S \in SUBSET Claimable :
           /\ ClaimTasks(Bridge, S, DispatchLimit)
           /\ bridge' = [bridge EXCEPT
                   !.todo = {<<t, tasks'[t].attempt>> : t \in S},
                   !.pc = IF S = {} THEN "renew" ELSE "admit"]
    /\ UNCHANGED <<others, mapping, work, batch, fails, faults, done>>

\* admit_work, whose key contains the attempt; the dispatch row comes after.
Admit ==
    /\ At("admit")
    /\ \E d \in bridge.todo :
           /\ work' = [work EXCEPT ![d] = "OPEN"]
           /\ bridge' = [bridge EXCEPT !.cur = d, !.pc = "insert"]
    /\ UNCHANGED <<vars, mapping, batch, fails, faults, done>>

\* The admission raises: its task is released, if it still can be, and the
\* process leaves, the other claimed tasks with it.
AdmitFails ==
    /\ At("admit") /\ faults < MaxFaults
    /\ \E d \in bridge.todo :
           tasks' = IF Owned(Bridge, d[1]) THEN Released(d[1]) ELSE tasks
    /\ bridge' = Start /\ faults' = faults + 1
    /\ UNCHANGED <<others, mapping, work, batch, fails, done>>

InsertMapping ==
    /\ At("insert")
    /\ mapping' = [mapping EXCEPT ![bridge.cur] = "ACTIVE"]
    /\ LET rest == bridge.todo \ {bridge.cur} IN
       bridge' = [bridge EXCEPT !.todo = rest, !.cur = <<>>,
                      !.pc = IF rest = {} THEN "renew" ELSE "admit"]
    /\ UNCHANGED <<vars, work, batch, fails, faults, done>>

\* The process dies and starts again, anywhere.
BridgeCrash ==
    /\ faults < MaxFaults /\ faults' = faults + 1
    /\ bridge' = Start
    /\ commits' = [commits EXCEPT ![Bridge] = NoCommit]
    /\ UNCHANGED <<tasks, evidence, workerVars, mapping, work, batch, fails, done>>

-----------------------------------------------------------------------------
(* Fabric, and the system.                                                 *)

CountOf(state) == Cardinality({d \in Dispatch : work[d] = state})

FabricAnswers(d, answer) ==
    /\ work[d] = "OPEN"
    /\ answer = "POISON" => CountOf("POISON") < MaxPoison
    /\ answer \in {"TRANSIENT_ERROR", "PARTIAL"} => retries < MaxRetries
    /\ retries' = IF answer \in {"TRANSIENT_ERROR", "PARTIAL"}
                  THEN retries + 1 ELSE retries
    /\ work' = [work EXCEPT ![d] = answer]
    /\ batch' = [batch EXCEPT ![d] = "unread"]
    /\ UNCHANGED <<taskVars, execs, active, heart, beat, crashes, failures,
                   mapping, fails, bridge, faults, done>>

FabricGivesUp(d) ==
    /\ work[d] = "OPEN" /\ CountOf("DEAD") < MaxDead
    /\ work' = [work EXCEPT ![d] = "DEAD"]
    /\ UNCHANGED <<vars, mapping, batch, fails, bridge, faults, done>>

BridgeStep ==
    \/ RenewActive \/ Reap \/ Release \/ ReleaseRefused \/ MarkFailed
    \/ ReadInbox \/ Drain \/ BridgeCommitStep \/ BridgeEndTask
    \/ BridgeEndRefused \/ CloseMapping \/ MarkConsumed \/ CommitFailed
    \/ DispatchClaim \/ Admit \/ InsertMapping

\* A turn takes seconds and a lease 900 of them; some turns are slower.
BridgeTick ==
    /\ Tick
    /\ LET out == {d \in Active : Current(d) /\ tasks[d[1]].left = 1} IN
       IF out = {} THEN UNCHANGED faults
       ELSE faults < MaxFaults /\ faults' = faults + 1
    /\ UNCHANGED <<mapping, work, batch, fails, bridge, done>>

Fabric ==
    \E d \in Dispatch : \/ FabricGivesUp(d)
                        \/ \E a \in Outcome(d[1]) \cup {"POISON"} :
                               FabricAnswers(d, a)

BridgeInitAll == Init /\ BridgeInit

BridgeNext ==
    \/ BridgeTick
    \/ \E w \in Worker : WorkerStep(w) /\ UNCHANGED bridgeVars
    \/ BridgeStep \/ AdmitFails \/ BridgeCrash \/ Fabric

BridgeSpec == BridgeInitAll /\ [][BridgeNext]_allVars

\* The loop goes on, a process that dies is started again, and Fabric
\* answers or gives up.
FairBridgeSpec ==
    /\ BridgeSpec /\ WF_allVars(BridgeStep) /\ WF_allVars(Fabric)
    /\ WF_allVars(BridgeTick)
    /\ \A w \in Worker :
           /\ WF_allVars(Answering(w) /\ UNCHANGED bridgeVars)
           /\ WF_allVars(Upkeep(w) /\ UNCHANGED bridgeVars)

-----------------------------------------------------------------------------

\* A batch is marked consumed when its result has ended its task, or when
\* the task was no longer that of the dispatch: no crash between the commit,
\* the dispatch row and the inbox loses a result that still counted
\* (FABRIC_V2: "marks them consumed only after domain commit succeeds").
ConsumedIsCommitted ==
    \A d \in Dispatch : batch[d] = "consumed" => d \in done \/ ~Current(d)

\* A dispatch that is closed as failed, stale or consumed has let go of its
\* task: nothing but an open dispatch, or one about to be opened, holds it.
ClosedHasReleased ==
    \A d \in Dispatch :
        mapping[d] \in {"FAILED", "STALE", "CONSUMED"} => ~Current(d)

\* A poisoned batch whose quarantine was the last step of the process: its
\* dispatch stays open, and renew_active renews its lease for ever.
Stranded(t) ==
    \E d \in Active : d[1] = t /\ Current(d) /\ batch[d] = "quarantined"

\* Every task ends, over crashes of the bridge, dead work, poisoned batches
\* and leases that run out under it, but for one that is stranded.
BridgedTaskEnds ==
    \A t \in Task : <>[](tasks[t].state \in Terminal \/ Stranded(t))
=============================================================================
