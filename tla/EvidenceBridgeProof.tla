------------------------- MODULE EvidenceBridgeProof -------------------------
(***************************************************************************)
(* The safety of the evidence bridge beside the workers, for any number of *)
(* tasks, workers and attempts.                                            *)
(*                                                                         *)
(* A dispatch is gone when its attempt is past and its task is no longer   *)
(* the bridge's; attempts only grow and every claim takes a new one, so    *)
(* that what is gone stays gone, whoever steps (RowsSteady).  The rest is  *)
(* bookkeeping: a closed dispatch and a consumed batch are gone            *)
(* (LedgerInv), and so is the dispatch that the process is about to close  *)
(* (ProcessInv).                                                           *)
(***************************************************************************)
EXTENDS EvidenceBridge, EvidenceWorkerProof

Closed == {"STALE", "CONSUMED", "FAILED"}

Process == [pc : Pc, cur : Dispatch \cup {<<>>}, back : Pc,
            todo : SUBSET Dispatch, inbox : SUBSET Dispatch]

Past(d) == d[2] =< tasks[d[1]].attempt
Gone(d) == Past(d) /\ ~Current(d)

LedgerOk(d) ==
    /\ mapping[d] # "none" \/ work[d] # "none" => Past(d)
    /\ mapping[d] \in Closed \/ batch[d] = "consumed" => Gone(d)
    /\ work[d] \in {"none", "OPEN", "DEAD"} => batch[d] = "none"
    /\ batch[d] = "none" => fails[d] = 0
    /\ batch[d] = "unread" => fails[d] < MaxConsumeAttempts

LedgerInv == \A d \in Dispatch : LedgerOk(d)

Draining == {"commit", "close", "mark", "failed"}
Busy == Draining \cup {"release", "forget", "insert"}
Closing == {"close", "mark", "forget"}

InboxInv == \A d \in bridge.inbox : batch[d] = "unread"
TodoInv == \A d \in bridge.todo : /\ Past(d)
                                  /\ work[d] = "none" \/ (At("insert") /\ d = bridge.cur)
BusyInv ==
    /\ bridge.pc \in Busy => bridge.cur \in Dispatch /\ Past(bridge.cur)
    /\ bridge.pc \in Closing => Gone(bridge.cur)
    /\ bridge.pc \in Draining => batch[bridge.cur] = "unread" /\ bridge.cur \notin bridge.inbox
    /\ At("insert") => bridge.cur \in bridge.todo
    /\ bridge.back \notin Busy
CommitInv ==
    At("commit") => commits[Bridge].step # "none" /\ commits[Bridge].task = bridge.cur[1]

ProcessInv == InboxInv /\ TodoInv /\ BusyInv /\ CommitInv

TablesOk ==
    /\ mapping \in [Dispatch -> MappingState]
    /\ work \in [Dispatch -> {"none", "OPEN", "DEAD"} \cup Answer]
    /\ batch \in [Dispatch -> {"none", "unread", "consumed", "quarantined"}]
    /\ fails \in [Dispatch -> 0..MaxConsumeAttempts]
    /\ bridge \in Process
    /\ faults \in Nat /\ done \subseteq Dispatch

BridgeInv == SafetyInv /\ TablesOk /\ LedgerInv /\ ProcessInv

\* What every step does to the rows.
RowsSteady ==
    \A t \in Task :
        \/ /\ tasks'[t].attempt = tasks[t].attempt
           /\ tasks'[t].owner = Bridge => tasks[t].owner = Bridge
        \/ tasks'[t].attempt = tasks[t].attempt + 1

-----------------------------------------------------------------------------
(* Data.                                                                   *)

LEMMA DispatchTypes ==
    ASSUME NEW d \in Dispatch
    PROVE  d[1] \in Task /\ d[2] \in Nat /\ d # <<>>
BY DEF Dispatch

LEMMA BridgeTypes ==
    ASSUME BridgeInv
    PROVE  /\ SafetyInv /\ TasksInv /\ TablesOk /\ LedgerInv
           /\ InboxInv /\ TodoInv /\ BusyInv /\ CommitInv
           /\ bridge \in Process /\ bridge.pc \in Pc /\ bridge.cur \in Dispatch \cup {<<>>}
           /\ bridge.todo \subseteq Dispatch /\ bridge.inbox \subseteq Dispatch
           /\ bridge.back \in Pc
           /\ \A t \in Task : tasks[t].attempt \in Nat
           /\ Bridge \in Owner /\ Bridge \notin Worker /\ Bridge # NoOwner
           /\ MaxConsumeAttempts \in Nat \ {0}
<1>1. /\ SafetyInv /\ TasksInv /\ TablesOk /\ LedgerInv
      /\ InboxInv /\ TodoInv /\ BusyInv /\ CommitInv
  BY DEF BridgeInv, SafetyInv, ProcessInv
<1>2. /\ bridge \in Process /\ bridge.pc \in Pc /\ bridge.cur \in Dispatch \cup {<<>>}
      /\ bridge.todo \subseteq Dispatch /\ bridge.inbox \subseteq Dispatch
      /\ bridge.back \in Pc
  BY <1>1 DEF TablesOk, Process
<1>3. \A t \in Task : tasks[t].attempt \in Nat
  BY <1>1, Types DEF Row
<1> QED
  BY <1>1, <1>2, <1>3, BridgeAssumption, EvidenceAssumption

LEMMA Steady ==
    ASSUME BridgeInv, RowsSteady, NEW d \in Dispatch, Past(d)
    PROVE  Past(d)' /\ (Gone(d) => Gone(d)')
<1>1. /\ d[1] \in Task /\ d[2] \in Nat /\ tasks[d[1]].attempt \in Nat
  BY DispatchTypes, BridgeTypes
<1>2. Past(d)'
  BY <1>1 DEF RowsSteady, Past
<1>3. ASSUME Gone(d) PROVE ~Current(d)'
  BY <1>1, <1>3 DEF RowsSteady, Past, Gone, Current
<1> QED
  BY <1>2, <1>3 DEF Gone

LEMMA ProcessMoves ==
    ASSUME NEW b \in Process, NEW pc \in Pc
    PROVE  /\ [b EXCEPT !.pc = pc] \in Process
           /\ \A d \in Dispatch : /\ [b EXCEPT !.cur = d, !.pc = pc] \in Process
                                  /\ [b EXCEPT !.inbox = @ \ {d}, !.cur = d, !.pc = pc] \in Process
                                  /\ \A k \in Pc : [b EXCEPT !.pc = pc, !.cur = d, !.back = k] \in Process
           /\ \A T \in SUBSET Dispatch :
                 /\ [b EXCEPT !.pc = pc, !.inbox = T] \in Process
                 /\ [b EXCEPT !.todo = T, !.pc = pc] \in Process
                 /\ [b EXCEPT !.todo = T, !.cur = <<>>, !.pc = pc] \in Process
           /\ [b EXCEPT !.cur = <<>>, !.pc = pc] \in Process
           /\ \A k \in Pc : [b EXCEPT !.back = k, !.pc = pc] \in Process
<1>1. [b EXCEPT !.pc = pc] \in Process
  BY DEF Process
<1>2. ASSUME NEW d \in Dispatch
      PROVE  /\ [b EXCEPT !.cur = d, !.pc = pc] \in Process
             /\ [b EXCEPT !.inbox = @ \ {d}, !.cur = d, !.pc = pc] \in Process
             /\ \A k \in Pc : [b EXCEPT !.pc = pc, !.cur = d, !.back = k] \in Process
  BY DEF Process
<1>3. ASSUME NEW T \in SUBSET Dispatch
      PROVE  /\ [b EXCEPT !.pc = pc, !.inbox = T] \in Process
             /\ [b EXCEPT !.todo = T, !.pc = pc] \in Process
             /\ [b EXCEPT !.todo = T, !.cur = <<>>, !.pc = pc] \in Process
  BY DEF Process
<1>4. /\ [b EXCEPT !.cur = <<>>, !.pc = pc] \in Process
      /\ \A k \in Pc : [b EXCEPT !.back = k, !.pc = pc] \in Process
  BY DEF Process
<1> QED
  BY <1>1, <1>2, <1>3, <1>4

LEMMA StartOk == Start \in Process
<1>1. "renew" \in Pc
  BY DEF Pc
<1> QED
  BY <1>1 DEF Process, Start

LEMMA BridgeInitOk ==
    ASSUME BridgeInitAll
    PROVE  BridgeInv
<1>1. SafetyInv
  BY InitOk DEF BridgeInitAll
<1>2. TablesOk
  <2>1. bridge \in Process /\ 0 \in 0..MaxConsumeAttempts
    BY StartOk, BridgeAssumption DEF BridgeInitAll, BridgeInit
  <2> QED
    BY <2>1 DEF BridgeInitAll, BridgeInit, TablesOk, MappingState
<1>3. LedgerInv
  BY BridgeAssumption DEF BridgeInitAll, BridgeInit, LedgerInv, LedgerOk, Closed
<1>4. ProcessInv
  BY DEF BridgeInitAll, BridgeInit, Start, ProcessInv, InboxInv, TodoInv, BusyInv,
         CommitInv, Busy, Closing, Draining, At
<1> QED
  BY <1>1, <1>2, <1>3, <1>4 DEF BridgeInv

-----------------------------------------------------------------------------
(* Steps that leave the bridge's own state alone.                          *)

LEMMA Undisturbed ==
    ASSUME BridgeInv, RowsSteady, SafetyInv', commits'[Bridge] = commits[Bridge],
           UNCHANGED <<mapping, work, batch, fails, bridge, done>>, faults' \in Nat
    PROVE  BridgeInv'
<1>1. TablesOk'
  BY BridgeTypes DEF TablesOk
<1>2. LedgerInv'
  <2>1. ASSUME NEW d \in Dispatch PROVE LedgerOk(d)'
    BY BridgeTypes, Steady DEF LedgerInv, LedgerOk, Gone
  <2> QED
    BY <2>1 DEF LedgerInv
<1>3. InboxInv' /\ CommitInv'
  BY BridgeTypes DEF InboxInv, CommitInv, At
<1>4. TodoInv'
  <2>1. ASSUME NEW d \in bridge.todo PROVE Past(d)'
    BY BridgeTypes, Steady DEF TodoInv
  <2> QED
    BY <2>1, BridgeTypes DEF TodoInv, At
<1>5. BusyInv'
  <2>1. bridge.pc \in Busy => Past(bridge.cur)'
    BY BridgeTypes, Steady DEF BusyInv
  <2>2. bridge.pc \in Closing => Gone(bridge.cur)'
    BY BridgeTypes, Steady DEF BusyInv, Busy, Closing, Draining, Gone
  <2> QED
    BY <2>1, <2>2, BridgeTypes DEF BusyInv, At
<1> QED
  BY <1>1, <1>2, <1>3, <1>4, <1>5 DEF BridgeInv, ProcessInv

LEMMA WorkerSteady ==
    ASSUME SafetyInv, NEW w \in Worker, WorkerStep(w)
    PROVE  RowsSteady /\ commits'[Bridge] = commits[Bridge]
<1>0. w # Bridge /\ Bridge \in Owner /\ Bridge # NoOwner /\ w \in Owner
  BY BridgeAssumption, EvidenceAssumption, WorkerAssumption
<1>1. ASSUME NEW S, ClaimWindow(w, S)
      PROVE  RowsSteady /\ UNCHANGED commits
  <2>1. UNCHANGED commits /\ ClaimTasks(w, S, Window - Cardinality(ExecsOf(w)))
    BY <1>1 DEF ClaimWindow
  <2>2. \A t \in Task : tasks'[t].attempt = tasks[t].attempt + 1 \/ tasks'[t] = tasks[t]
    BY <1>0, <2>1, Types, ClaimEndsNone
  <2> QED
    BY <2>1, <2>2 DEF RowsSteady
<1>2. ASSUME Heartbeat(w)
      PROVE  RowsSteady /\ UNCHANGED commits
  <2>1. UNCHANGED commits /\ tasks' = Renewed(w, active[w], LeaseSeconds + Interval)
    BY <1>2 DEF Heartbeat
  <2>2. LeaseSeconds + Interval \in Nat
    BY Types
  <2> QED
    BY <1>0, <2>1, <2>2, Types, RenewEndsNone DEF RowsSteady
<1>3. ASSUME ResultCommitted(w)
      PROVE  RowsSteady /\ commits'[Bridge] = commits[Bridge]
  <2>1. EndTask(w)
    BY <1>3 DEF ResultCommitted
  <2> QED
    BY <1>0, <2>1, Types, EndTaskKeeps DEF RowsSteady
<1>4. ASSUME CommitStep(w)
      PROVE  RowsSteady /\ commits'[Bridge] = commits[Bridge]
  BY <1>0, <1>4, Types, CommitStepKeeps DEF RowsSteady, Advances
<1>5. ASSUME Crash(w) \/ RunAborts(w)
      PROVE  RowsSteady /\ commits'[Bridge] = commits[Bridge]
  <2>1. UNCHANGED tasks /\ commits' = [commits EXCEPT ![w] = NoCommit]
    BY <1>5 DEF Crash, RunAborts, EndRefused
  <2> QED
    BY <1>0, <2>1, Types DEF RowsSteady
<1>6. ASSUME NEW e, NEW a, ResultArrives(w, e, a)
      PROVE  RowsSteady /\ commits'[Bridge] = commits[Bridge]
  BY <1>0, <1>6, Types DEF ResultArrives, BeginCommit, RowsSteady
<1>7. ASSUME RunEnds(w) \/ HeartbeatFails(w)
      PROVE  RowsSteady /\ UNCHANGED commits
  BY <1>7 DEF RunEnds, HeartbeatFails, taskVars, RowsSteady
<1> QED
  BY <1>1, <1>2, <1>3, <1>4, <1>5, <1>6, <1>7 DEF WorkerStep, Answering, Upkeep

LEMMA OthersKeep ==
    ASSUME BridgeInv, NEW w \in Worker, WorkerStep(w), UNCHANGED bridgeVars
    PROVE  BridgeInv' /\ KeepsEnds
<1>1. SafetyInv' /\ KeepsEnds /\ RowsSteady /\ commits'[Bridge] = commits[Bridge]
  BY BridgeTypes, WorkerStepKeeps, WorkerSteady
<1> QED
  BY <1>1, Undisturbed, BridgeTypes DEF bridgeVars, TablesOk

LEMMA BridgeTickKeeps ==
    ASSUME BridgeInv, BridgeTick
    PROVE  BridgeInv' /\ KeepsEnds
<1>1. /\ Tick /\ UNCHANGED <<mapping, work, batch, fails, bridge, done>>
      /\ faults' = faults \/ faults' = faults + 1
  BY DEF BridgeTick
<1>2. SafetyInv' /\ KeepsEnds
  BY <1>1, BridgeTypes, TickKeeps
<1>3. RowsSteady /\ commits'[Bridge] = commits[Bridge]
  BY <1>1, BridgeTypes, ElapseEndsNone DEF Tick, RowsSteady
<1>4. faults' \in Nat
  BY <1>1, BridgeTypes DEF TablesOk
<1> QED
  BY <1>1, <1>2, <1>3, <1>4, Undisturbed

-----------------------------------------------------------------------------
(* Steps of the bridge and of Fabric: first, what they leave of the        *)
(* workers.                                                                *)

LEMMA WorkersKept ==
    ASSUME BridgeInv, TasksInv', UNCHANGED <<execs, active, heart, beat, crashes, failures>>,
           retries' \in Nat, \A v \in Worker : commits'[v] = commits[v],
           \A t \in Task : tasks[t].owner # Bridge /\ tasks[t].left > 0 => tasks'[t] = tasks[t]
    PROVE  SafetyInv'
<1>1. \A v \in Worker : Apart(v)
  BY BridgeTypes DEF Apart, ExecsOf
<1>2. \A v \in Worker : WindowOk(v)'
  BY <1>1, BridgeTypes, ApartKeeps
<1>3. WorkerTypeOK'
  BY BridgeTypes DEF SafetyInv, WorkerTypeOK, TasksInv
<1> QED
  BY <1>2, <1>3 DEF SafetyInv

LEMMA StillKeeps ==
    ASSUME BridgeInv, UNCHANGED vars
    PROVE  SafetyInv' /\ KeepsEnds /\ RowsSteady /\ UNCHANGED <<tasks, commits>>
BY BridgeTypes, StutterKeeps DEF RowsSteady, vars, taskVars

\* A step of the queue by the bridge.
LEMMA QueueStepKeeps ==
    ASSUME BridgeInv, EndsNone, CommitsFresh, UNCHANGED <<evidence, workerVars>>,
           \A v \in Worker : commits'[v] = commits[v],
           \A t \in Task : tasks[t].owner # Bridge /\ tasks[t].left > 0 => tasks'[t] = tasks[t]
    PROVE  SafetyInv' /\ KeepsEnds
<1>1. TasksInv' /\ KeepsEnds
  BY BridgeTypes, QueueStep
<1> QED
  BY <1>1, BridgeTypes, Types, WorkersKept DEF workerVars

-----------------------------------------------------------------------------
(* renew_active and reconcile_failed_work.                                 *)

LEMMA RenewActiveKeeps ==
    ASSUME BridgeInv, RenewActive
    PROVE  BridgeInv' /\ KeepsEnds
<1>1. /\ At("renew") \/ At("renew2")
      /\ bridge' = [bridge EXCEPT !.pc = IF At("renew") THEN "reap" ELSE "claim"]
      /\ mapping' = [d \in Dispatch |->
             IF d \in Active /\ ~Current(d) THEN "STALE" ELSE mapping[d]]
      /\ tasks' = Renewed(Bridge, {d[1] : d \in {a \in Active : Current(a)}}, LeaseSeconds)
      /\ UNCHANGED <<others, work, batch, fails, faults, done>>
  BY DEF RenewActive, Goto
<1>2. /\ EndsNone
      /\ \A t \in Task : tasks'[t].owner = tasks[t].owner /\ tasks'[t].attempt = tasks[t].attempt
      /\ \A t \in Task : tasks[t].owner # Bridge => tasks'[t] = tasks[t]
  BY <1>1, BridgeTypes, Types, RenewEndsNone
<1>3. SafetyInv' /\ KeepsEnds /\ RowsSteady
  <2>1. UNCHANGED <<evidence, commits, workerVars>>
    BY <1>1 DEF others
  <2>2. CommitsFresh
    BY <2>1, BridgeTypes, Types DEF CommitsFresh
  <2>3. SafetyInv' /\ KeepsEnds
    BY <1>2, <2>1, <2>2, QueueStepKeeps
  <2>4. RowsSteady
    BY <1>2 DEF RowsSteady
  <2> QED
    BY <2>3, <2>4
<1>4. bridge' \in Process /\ bridge'.pc \in {"reap", "claim"}
      /\ bridge'.todo = bridge.todo /\ bridge'.inbox = bridge.inbox
      /\ bridge'.cur = bridge.cur /\ bridge'.back = bridge.back
  <2>1. "reap" \in Pc /\ "claim" \in Pc
    BY DEF Pc
  <2>2. bridge' \in Process
    BY <1>1, <2>1, BridgeTypes, ProcessMoves
  <2> QED
    BY <1>1, <2>2, BridgeTypes DEF Process
<1>5. TablesOk'
  BY <1>1, <1>4, BridgeTypes DEF TablesOk, MappingState
<1>6. LedgerInv'
  <2>1. ASSUME NEW d \in Dispatch PROVE LedgerOk(d)'
    <3>1. LedgerOk(d)
      BY BridgeTypes DEF LedgerInv
    <3>2. CASE d \in Active /\ ~Current(d)
      <4>1. mapping[d] = "ACTIVE" /\ Gone(d) /\ Past(d)
        BY <3>1, <3>2 DEF Active, LedgerOk, Gone
      <4>2. Gone(d)' /\ Past(d)'
        BY <1>3, <4>1, Steady
      <4> QED
        BY <1>1, <3>1, <4>2 DEF LedgerOk
    <3>3. CASE ~(d \in Active /\ ~Current(d))
      BY <1>1, <1>3, <3>1, <3>3, Steady DEF LedgerOk, Gone
    <3> QED
      BY <3>2, <3>3
  <2> QED
    BY <2>1 DEF LedgerInv
<1>7. ProcessInv'
  <2>1. \A d \in bridge.todo : Past(d)'
    BY <1>3, BridgeTypes, Steady DEF TodoInv
  <2>2. TodoInv' /\ InboxInv'
    BY <1>1, <1>4, <2>1, BridgeTypes DEF TodoInv, InboxInv, At
  <2>3. BusyInv' /\ CommitInv'
    BY <1>4, BridgeTypes DEF BusyInv, CommitInv, At, Busy, Closing, Draining
  <2> QED
    BY <2>2, <2>3 DEF ProcessInv
<1> QED
  BY <1>3, <1>5, <1>6, <1>7 DEF BridgeInv

\* The steps of the process that change nothing but its own state, when
\* nothing is under way afterwards.
LEMMA MovesOn ==
    ASSUME BridgeInv, RowsSteady, SafetyInv',
           UNCHANGED <<mapping, work, batch, fails, done>>, faults' \in Nat,
           bridge' \in Process, bridge'.pc \notin Busy, bridge'.back \notin Busy,
           \A d \in bridge'.inbox : batch[d] = "unread",
           \A d \in bridge'.todo : Past(d)' /\ work[d] = "none"
    PROVE  BridgeInv'
<1>1. TablesOk'
  BY BridgeTypes DEF TablesOk
<1>2. LedgerInv'
  <2>1. ASSUME NEW d \in Dispatch PROVE LedgerOk(d)'
    BY BridgeTypes, Steady DEF LedgerInv, LedgerOk, Gone
  <2> QED
    BY <2>1 DEF LedgerInv
<1>3. InboxInv'
  BY DEF InboxInv
<1>4. TodoInv'
  BY DEF TodoInv
<1>5. BusyInv' /\ CommitInv'
  BY DEF BusyInv, CommitInv, At, Busy, Closing, Draining
<1> QED
  BY <1>1, <1>2, <1>3, <1>4, <1>5 DEF BridgeInv, ProcessInv

LEMMA Restarts ==
    ASSUME BridgeInv, RowsSteady, SafetyInv',
           UNCHANGED <<mapping, work, batch, fails, done>>, faults' \in Nat,
           bridge' = Start
    PROVE  BridgeInv'
<1>1. bridge' \in Process /\ bridge'.pc \notin Busy /\ bridge'.inbox = {} /\ bridge'.todo = {}
                     /\ bridge'.back \notin Busy
  BY StartOk DEF Start, Busy, Draining
<1> QED
  BY <1>1, MovesOn

\* A dispatch that a step leaves alone.
LEMMA LedgerElsewhere ==
    ASSUME BridgeInv, RowsSteady, NEW d \in Dispatch,
           mapping'[d] = mapping[d], work'[d] = work[d],
           batch'[d] = batch[d], fails'[d] = fails[d]
    PROVE  LedgerOk(d)'
BY BridgeTypes, Steady DEF LedgerInv, LedgerOk, Gone

\* What the process knows of a dispatch that it has at hand.
LEMMA AtHand ==
    ASSUME BridgeInv, RowsSteady
    PROVE  /\ \A d \in bridge.todo : Past(d)'
           /\ bridge.pc # "insert" => \A d \in bridge.todo : work[d] = "none"
<1>1. \A d \in bridge.todo : Past(d)'
  BY BridgeTypes, Steady DEF TodoInv
<1>2. bridge.pc # "insert" => \A d \in bridge.todo : work[d] = "none"
  BY BridgeTypes DEF TodoInv, At
<1> QED
  BY <1>1, <1>2

LEMMA CurrentDispatch ==
    ASSUME BridgeInv, bridge.pc \in Busy
    PROVE  \E d \in Dispatch :
              /\ d = bridge.cur /\ d[1] \in Task /\ d[2] \in Nat /\ Past(d)
              /\ RowsSteady => Past(d)'
              /\ RowsSteady /\ bridge.pc \in Closing => Gone(d)'
              /\ bridge.pc \in Closing => Gone(d)
              /\ bridge.pc \in Draining => batch[d] = "unread" /\ d \notin bridge.inbox
<1>1. PICK d \in Dispatch : d = bridge.cur /\ Past(d)
  BY BridgeTypes DEF BusyInv
<1>2. /\ bridge.pc \in Closing => Gone(d)
      /\ bridge.pc \in Draining => batch[d] = "unread" /\ d \notin bridge.inbox
  BY <1>1, BridgeTypes DEF BusyInv
<1>3. RowsSteady => Past(d)' /\ (Gone(d) => Gone(d)')
  BY <1>1, Steady
<1> QED
  BY <1>1, <1>2, <1>3, DispatchTypes

LEMMA ReapKeeps ==
    ASSUME BridgeInv, Reap
    PROVE  BridgeInv' /\ KeepsEnds
<1>1. /\ UNCHANGED <<vars, mapping, work, batch, fails, faults, done>>
      /\ At("reap") \/ At("reap2")
  BY DEF Reap
<1>2. SafetyInv' /\ KeepsEnds /\ RowsSteady /\ UNCHANGED <<tasks, commits>> /\ faults' \in Nat
  BY <1>1, BridgeTypes, StillKeeps DEF TablesOk
<1>3. CASE DeadOnes = {}
  <2>1. PICK pc \in {"read", "renew2"} : bridge' = [bridge EXCEPT !.pc = pc]
    BY <1>3 DEF Reap, Goto
  <2>2. bridge' \in Process
    BY <2>1, BridgeTypes, ProcessMoves DEF Pc
  <2>3. bridge'.pc \notin Busy /\ bridge'.inbox = bridge.inbox /\ bridge'.todo = bridge.todo
    BY <2>1, BridgeTypes DEF Process, Busy, Draining
  <2>4. bridge'.back = bridge.back
    BY <2>1, BridgeTypes DEF Process
  <2> QED
    BY <1>1, <1>2, <2>2, <2>3, <2>4, MovesOn, AtHand, BridgeTypes DEF InboxInv, At, BusyInv
<1>4. CASE DeadOnes # {}
  <2>1. PICK d \in DeadOnes : bridge' = [bridge EXCEPT !.pc = "release", !.cur = d,
                                                   !.back = bridge.pc]
    BY <1>4 DEF Reap
  <2>2. d \in Dispatch /\ Past(d)
    BY <2>1, BridgeTypes DEF DeadOnes, Active, LedgerInv, LedgerOk
  <2>3. bridge' \in Process
    BY <2>1, <2>2, BridgeTypes, ProcessMoves DEF Pc
  <2>4. /\ bridge'.pc = "release" /\ bridge'.cur = d /\ bridge'.back = bridge.pc
        /\ bridge'.inbox = bridge.inbox /\ bridge'.todo = bridge.todo
    BY <2>1, <2>2, BridgeTypes DEF Process
  <2>5. Past(d)'
    BY <1>2, <2>2, Steady
  <2>6. TablesOk'
    BY <1>1, <2>3, BridgeTypes DEF TablesOk
  <2>7. LedgerInv'
    BY <1>1, <1>2, LedgerElsewhere DEF LedgerInv
  <2>8. InboxInv' /\ TodoInv' /\ CommitInv'
    BY <1>1, <1>2, <2>4, AtHand, BridgeTypes DEF InboxInv, TodoInv, CommitInv, At
  <2>9. BusyInv'
    BY <1>1, <2>2, <2>4, <2>5 DEF BusyInv, At, Busy, Closing, Draining
  <2> QED
    BY <1>2, <2>6, <2>7, <2>8, <2>9 DEF BridgeInv, ProcessInv
<1> QED
  BY <1>3, <1>4

LEMMA ReleaseKeeps ==
    ASSUME BridgeInv, Release
    PROVE  BridgeInv' /\ KeepsEnds
<1>0. bridge.pc = "release" /\ bridge.pc \in Busy
  BY DEF Release, At, Busy
<1>1. PICK d \in Dispatch :
          /\ d = bridge.cur /\ d[1] \in Task /\ Past(d)
          /\ RowsSteady => Past(d)'
  BY <1>0, CurrentDispatch
<1>2. /\ bridge.pc = "release" /\ bridge' = [bridge EXCEPT !.pc = "forget"]
      /\ Current(d) => Owned(Bridge, d[1])
      /\ tasks' = IF Current(d) THEN Released(d[1]) ELSE tasks
      /\ UNCHANGED <<evidence, commits, workerVars, mapping, work, batch, fails, faults, done>>
  BY <1>1 DEF Release, Goto, At, others
<1>3. /\ EndsNone /\ RowsSteady /\ ~Current(d)'
      /\ \A t \in Task : tasks[t].owner # Bridge => tasks'[t] = tasks[t]
  <2>1. CASE Current(d)
    <3>1. /\ EndsNone /\ tasks'[d[1]].owner = NoOwner
          /\ tasks'[d[1]].attempt = tasks[d[1]].attempt
          /\ \A u \in Task \ {d[1]} : tasks'[u] = tasks[u]
      BY <1>1, <1>2, <2>1, BridgeTypes, ReleaseEndsNone
    <3> QED
      BY <1>1, <2>1, <3>1, BridgeTypes DEF Current, RowsSteady
  <2>2. CASE ~Current(d)
    BY <1>2, <2>2, BridgeTypes, Types DEF EndsNone, KeepsEnds, RowsSteady, Current
  <2> QED
    BY <2>1, <2>2
<1>4. SafetyInv' /\ KeepsEnds
  <2>1. CommitsFresh
    BY <1>2, BridgeTypes, Types DEF CommitsFresh
  <2> QED
    BY <1>2, <1>3, <2>1, QueueStepKeeps
<1>5. Gone(d)' /\ Past(d)'
  BY <1>1, <1>3 DEF Gone
<1>6. bridge' \in Process
  BY <1>2, BridgeTypes, ProcessMoves DEF Pc
<1>7. /\ bridge'.pc = "forget" /\ bridge'.cur = d /\ bridge'.back = bridge.back
      /\ bridge'.inbox = bridge.inbox /\ bridge'.todo = bridge.todo
  BY <1>1, <1>2, BridgeTypes DEF Process
<1>8. TablesOk' /\ LedgerInv'
  BY <1>2, <1>3, <1>6, BridgeTypes, LedgerElsewhere DEF TablesOk, LedgerInv
<1>9. InboxInv' /\ TodoInv' /\ CommitInv'
  BY <1>2, <1>3, <1>7, AtHand, BridgeTypes DEF InboxInv, TodoInv, CommitInv, At
<1>10. BusyInv'
  BY <1>1, <1>5, <1>7, BridgeTypes DEF BusyInv, At, Busy, Closing, Draining
<1> QED
  BY <1>4, <1>8, <1>9, <1>10 DEF BridgeInv, ProcessInv

LEMMA MarkFailedKeeps ==
    ASSUME BridgeInv, MarkFailed
    PROVE  BridgeInv' /\ KeepsEnds
<1>0. bridge.pc = "forget" /\ bridge.pc \in Busy /\ bridge.pc \in Closing
  BY DEF MarkFailed, At, Busy, Closing
<1>1. PICK d \in Dispatch : d = bridge.cur /\ Gone(d) /\ (RowsSteady => Gone(d)')
  BY <1>0, CurrentDispatch
<1>2. /\ mapping' = [mapping EXCEPT ![d] = "FAILED"]
      /\ bridge' = [bridge EXCEPT !.cur = <<>>, !.pc = bridge.back]
      /\ UNCHANGED <<vars, work, batch, fails, faults, done>>
  BY <1>1 DEF MarkFailed
<1>3. SafetyInv' /\ KeepsEnds /\ RowsSteady /\ UNCHANGED <<tasks, commits>>
  BY <1>2, StillKeeps
<1>4. bridge' \in Process
  BY <1>2, BridgeTypes, ProcessMoves
<1>5. /\ bridge'.pc \notin Busy /\ bridge'.back \notin Busy
      /\ bridge'.inbox = bridge.inbox /\ bridge'.todo = bridge.todo
  BY <1>2, BridgeTypes DEF Process, BusyInv
<1>6. mapping' \in [Dispatch -> MappingState] /\ mapping'[d] = "FAILED"
      /\ \A e \in Dispatch \ {d} : mapping'[e] = mapping[e]
  BY <1>2, BridgeTypes DEF TablesOk, MappingState
<1>7. TablesOk'
  BY <1>2, <1>4, <1>6, BridgeTypes DEF TablesOk
<1>8. LedgerInv'
  <2>1. LedgerOk(d)'
    BY <1>1, <1>2, <1>3, BridgeTypes DEF LedgerInv, LedgerOk, Gone
  <2> QED
    BY <1>2, <1>3, <1>6, <2>1, LedgerElsewhere DEF LedgerInv
<1>9. InboxInv' /\ TodoInv'
  BY <1>0, <1>2, <1>3, <1>5, AtHand, BridgeTypes DEF InboxInv, TodoInv
<1>10. BusyInv' /\ CommitInv'
  BY <1>5 DEF BusyInv, CommitInv, At, Busy, Closing, Draining
<1> QED
  BY <1>3, <1>7, <1>8, <1>9, <1>10 DEF BridgeInv, ProcessInv

-----------------------------------------------------------------------------
(* drain.                                                                  *)

LEMMA ReadInboxKeeps ==
    ASSUME BridgeInv, ReadInbox
    PROVE  BridgeInv' /\ KeepsEnds
<1> DEFINE T == {d \in Dispatch : batch[d] = "unread"}
<1>1. /\ bridge.pc = "read" /\ bridge' = [bridge EXCEPT !.pc = "drain", !.inbox = T]
      /\ UNCHANGED <<vars, mapping, work, batch, fails, faults, done>>
  BY DEF ReadInbox, At
<1>2. SafetyInv' /\ KeepsEnds /\ RowsSteady /\ faults' \in Nat
  BY <1>1, BridgeTypes, StillKeeps DEF TablesOk
<1>3. T \in SUBSET Dispatch /\ \A d \in T : batch[d] = "unread"
  OBVIOUS
<1> HIDE DEF T
<1>4. bridge' \in Process
  BY <1>1, <1>3, BridgeTypes, ProcessMoves DEF Pc
<1>5. /\ bridge'.pc = "drain" /\ bridge'.back = bridge.back
      /\ bridge'.inbox = T /\ bridge'.todo = bridge.todo
  BY <1>1, <1>3, BridgeTypes DEF Process
<1>6. bridge'.pc \notin Busy /\ bridge'.back \notin Busy
  BY <1>5, BridgeTypes DEF Busy, Draining, BusyInv
<1> QED
  BY <1>1, <1>2, <1>3, <1>4, <1>5, <1>6, MovesOn, AtHand

\* A batch that still has a try: one less, or it is quarantined.
LEMMA ConsumeFailedOk ==
    ASSUME BridgeInv, NEW d \in Dispatch, batch[d] = "unread", ConsumeFailed(d)
    PROVE  /\ fails' \in [Dispatch -> 0..MaxConsumeAttempts]
           /\ batch' \in [Dispatch -> {"none", "unread", "consumed", "quarantined"}]
           /\ batch'[d] \in {"unread", "quarantined"}
           /\ batch'[d] = "unread" => fails'[d] < MaxConsumeAttempts
           /\ \A e \in Dispatch \ {d} : batch'[e] = batch[e] /\ fails'[e] = fails[e]
<1>1. /\ fails \in [Dispatch -> 0..MaxConsumeAttempts]
      /\ batch \in [Dispatch -> {"none", "unread", "consumed", "quarantined"}]
      /\ fails[d] < MaxConsumeAttempts /\ MaxConsumeAttempts \in Nat
  BY BridgeTypes DEF TablesOk, LedgerInv, LedgerOk
<1>2. /\ fails' = [fails EXCEPT ![d] = fails[d] + 1]
      /\ batch' = [batch EXCEPT ![d] =
             IF fails'[d] = MaxConsumeAttempts THEN "quarantined" ELSE "unread"]
  BY DEF ConsumeFailed
<1>3. fails[d] \in Nat /\ fails[d] + 1 \in 0..MaxConsumeAttempts
  BY <1>1
<1>4. fails' \in [Dispatch -> 0..MaxConsumeAttempts] /\ fails'[d] = fails[d] + 1
  BY <1>1, <1>2, <1>3
<1> QED
  BY <1>1, <1>2, <1>3, <1>4

\* What the process has after it took dispatch d from the inbox.
LEMMA TakeOk ==
    ASSUME BridgeInv, NEW d \in bridge.inbox, NEW pc \in Pc, Take(d, pc)
    PROVE  /\ bridge' \in Process /\ bridge'.pc = pc /\ bridge'.cur = d
           /\ bridge'.inbox = bridge.inbox \ {d} /\ bridge'.todo = bridge.todo
           /\ bridge'.back = bridge.back
           /\ d \in Dispatch /\ batch[d] = "unread"
           /\ work[d] \notin {"none", "OPEN", "DEAD"} /\ Past(d)
<1>1. d \in Dispatch /\ batch[d] = "unread"
  BY BridgeTypes DEF InboxInv
<1>2. bridge' = [bridge EXCEPT !.inbox = @ \ {d}, !.cur = d, !.pc = pc]
  BY DEF Take
<1>3. bridge' \in Process
  BY <1>1, <1>2, BridgeTypes, ProcessMoves
<1>4. work[d] \notin {"none", "OPEN", "DEAD"} /\ Past(d)
  BY <1>1, BridgeTypes DEF LedgerInv, LedgerOk
<1> QED
  BY <1>1, <1>2, <1>3, <1>4, BridgeTypes DEF Process

\* A dispatch leaves the inbox with nothing left to do.
LEMMA DrainDone ==
    ASSUME BridgeInv, RowsSteady, SafetyInv', TablesOk', LedgerInv', At("drain"),
           NEW d \in bridge.inbox, Take(d, "drain"), UNCHANGED work,
           \A e \in Dispatch \ {d} : batch'[e] = batch[e]
    PROVE  BridgeInv'
<1>1. "drain" \in Pc
  BY DEF Pc
<1>2. /\ bridge'.pc = "drain" /\ bridge'.back = bridge.back
      /\ bridge'.inbox = bridge.inbox \ {d} /\ bridge'.todo = bridge.todo
  BY <1>1, TakeOk
<1>3. InboxInv'
  BY <1>2, BridgeTypes DEF InboxInv
<1>4. TodoInv'
  BY <1>2, AtHand DEF TodoInv, At
<1>5. BusyInv' /\ CommitInv'
  BY <1>2, BridgeTypes DEF BusyInv, CommitInv, At, Busy, Closing, Draining
<1> QED
  BY <1>3, <1>4, <1>5 DEF BridgeInv, ProcessInv

\* It leaves it for the next step of its consumption.
LEMMA DrainTaken ==
    ASSUME BridgeInv, RowsSteady, SafetyInv', TablesOk', LedgerInv', At("drain"),
           NEW d \in bridge.inbox, NEW pc \in {"mark", "failed", "commit"}, Take(d, pc),
           UNCHANGED <<work, batch>>,
           pc = "mark" => Gone(d)',
           pc = "commit" => commits'[Bridge].step # "none" /\ commits'[Bridge].task = d[1]
    PROVE  BridgeInv'
<1>1. pc \in Pc
  BY DEF Pc
<1>2. /\ bridge'.pc = pc /\ bridge'.back = bridge.back /\ bridge'.cur = d
      /\ bridge'.inbox = bridge.inbox \ {d} /\ bridge'.todo = bridge.todo
      /\ d \in Dispatch /\ batch[d] = "unread" /\ Past(d)
  BY <1>1, TakeOk
<1>3. InboxInv'
  BY <1>2, BridgeTypes DEF InboxInv
<1>4. TodoInv'
  BY <1>2, AtHand DEF TodoInv, At
<1>5. Past(d)'
  BY <1>2, Steady
<1>6. BusyInv'
  BY <1>2, <1>5, BridgeTypes DEF BusyInv, At, Busy, Closing, Draining
<1>7. CommitInv'
  BY <1>2 DEF CommitInv, At
<1> QED
  BY <1>3, <1>4, <1>6, <1>7 DEF BridgeInv, ProcessInv

LEMMA DrainKeeps ==
    ASSUME BridgeInv, Drain
    PROVE  BridgeInv' /\ KeepsEnds
<1>1. /\ At("drain") /\ UNCHANGED <<tasks, evidence, workerVars, work, faults, done>>
      /\ faults' \in Nat /\ "drain" \in Pc /\ "mark" \in Pc /\ "failed" \in Pc
      /\ "commit" \in Pc /\ "reap2" \in Pc
  BY BridgeTypes DEF Drain, TablesOk, Pc
<1>2. RowsSteady
  BY <1>1 DEF RowsSteady
<1>3. ASSUME UNCHANGED commits PROVE SafetyInv' /\ KeepsEnds
  <2>1. UNCHANGED vars
    BY <1>1, <1>3 DEF vars, taskVars
  <2> QED
    BY <2>1, StillKeeps
<1>4. ASSUME NEW d \in bridge.inbox, DrainUnmapped(d) PROVE BridgeInv' /\ KeepsEnds
  <2>1. /\ mapping[d] = "none" /\ ConsumeFailed(d) /\ Take(d, "drain")
        /\ UNCHANGED <<mapping, commits>>
    BY <1>4 DEF DrainUnmapped
  <2>2. /\ d \in Dispatch /\ batch[d] = "unread" /\ Past(d) /\ bridge' \in Process
        /\ work[d] \notin {"none", "OPEN", "DEAD"}
    BY <1>1, <2>1, TakeOk
  <2>3. /\ fails' \in [Dispatch -> 0..MaxConsumeAttempts]
        /\ batch' \in [Dispatch -> {"none", "unread", "consumed", "quarantined"}]
        /\ batch'[d] \in {"unread", "quarantined"}
        /\ batch'[d] = "unread" => fails'[d] < MaxConsumeAttempts
        /\ \A e \in Dispatch \ {d} : batch'[e] = batch[e] /\ fails'[e] = fails[e]
    BY <2>1, <2>2, ConsumeFailedOk
  <2>4. TablesOk'
    BY <1>1, <2>1, <2>2, <2>3, BridgeTypes DEF TablesOk
  <2>5. LedgerOk(d)'
    BY <1>1, <1>2, <2>1, <2>2, <2>3, Steady DEF LedgerOk, Closed
  <2>6. LedgerInv'
    BY <1>1, <1>2, <2>1, <2>3, <2>5, LedgerElsewhere DEF LedgerInv
  <2> QED
    BY <1>1, <1>2, <1>3, <2>1, <2>3, <2>4, <2>6, DrainDone
<1>5. ASSUME NEW d \in bridge.inbox, DrainClosed(d) PROVE BridgeInv' /\ KeepsEnds
  <2>1. /\ mapping[d] \in Closed /\ batch' = [batch EXCEPT ![d] = "consumed"]
        /\ Take(d, "drain") /\ UNCHANGED <<mapping, fails, commits>>
    BY <1>5 DEF DrainClosed, Closed
  <2>2. /\ d \in Dispatch /\ Past(d) /\ bridge' \in Process
        /\ work[d] \notin {"none", "OPEN", "DEAD"}
    BY <1>1, <2>1, TakeOk
  <2>3. /\ batch' \in [Dispatch -> {"none", "unread", "consumed", "quarantined"}]
        /\ batch'[d] = "consumed" /\ \A e \in Dispatch \ {d} : batch'[e] = batch[e]
    BY <2>1, <2>2, BridgeTypes DEF TablesOk
  <2>4. TablesOk'
    BY <1>1, <2>1, <2>2, <2>3, BridgeTypes DEF TablesOk
  <2>5. LedgerOk(d)'
    <3>1. Gone(d)
      BY <2>1, <2>2, BridgeTypes DEF LedgerInv, LedgerOk
    <3>2. Gone(d)' /\ Past(d)'
      BY <1>2, <2>2, <3>1, Steady
    <3> QED
      BY <1>1, <2>1, <2>2, <2>3, <3>2 DEF LedgerOk
  <2>6. LedgerInv'
    BY <1>1, <1>2, <2>1, <2>3, <2>5, LedgerElsewhere DEF LedgerInv
  <2> QED
    BY <1>1, <1>2, <1>3, <2>1, <2>3, <2>4, <2>6, DrainDone
<1>6. ASSUME NEW d \in bridge.inbox, DrainStale(d) PROVE BridgeInv' /\ KeepsEnds
  <2>1. /\ mapping[d] = "ACTIVE" /\ ~Current(d) /\ mapping' = [mapping EXCEPT ![d] = "STALE"]
        /\ Take(d, "mark") /\ UNCHANGED <<batch, fails, commits>>
    BY <1>6 DEF DrainStale
  <2>2. d \in Dispatch /\ Past(d) /\ batch[d] = "unread" /\ bridge' \in Process
    BY <1>1, <2>1, TakeOk
  <2>3. Gone(d)' /\ Past(d)'
    BY <1>2, <2>1, <2>2, Steady DEF Gone
  <2>4. mapping' \in [Dispatch -> MappingState] /\ \A e \in Dispatch \ {d} : mapping'[e] = mapping[e]
    BY <2>1, BridgeTypes DEF TablesOk, MappingState
  <2>5. TablesOk'
    BY <1>1, <2>1, <2>2, <2>4, BridgeTypes DEF TablesOk
  <2>6. LedgerOk(d)'
    BY <1>1, <2>1, <2>2, <2>3, BridgeTypes DEF LedgerInv, LedgerOk
  <2>7. LedgerInv'
    BY <1>1, <1>2, <2>1, <2>4, <2>6, LedgerElsewhere DEF LedgerInv
  <2> QED
    BY <1>1, <1>2, <1>3, <2>1, <2>3, <2>5, <2>7, DrainTaken
<1>7. ASSUME NEW d \in bridge.inbox, DrainPoison(d) PROVE BridgeInv' /\ KeepsEnds
  <2>1. Take(d, "failed") /\ UNCHANGED <<mapping, batch, fails, commits>>
    BY <1>7 DEF DrainPoison
  <2>2. bridge' \in Process
    BY <1>1, <2>1, TakeOk
  <2>3. TablesOk' /\ LedgerInv'
    BY <1>1, <1>2, <2>1, <2>2, BridgeTypes, LedgerElsewhere DEF TablesOk, LedgerInv
  <2> QED
    BY <1>1, <1>2, <1>3, <2>1, <2>3, DrainTaken
<1>8. ASSUME NEW d \in bridge.inbox, DrainCurrent(d) PROVE BridgeInv' /\ KeepsEnds
  <2>1. /\ work[d] # "POISON" /\ BeginCommit(Bridge, d[1], d[2], work[d]) /\ Take(d, "commit")
        /\ UNCHANGED <<mapping, batch, fails>>
    BY <1>8 DEF DrainCurrent
  <2>2. /\ d \in Dispatch /\ bridge' \in Process /\ d[1] \in Task /\ d[2] \in Nat
        /\ work[d] \notin {"none", "OPEN", "DEAD"}
    BY <1>1, <2>1, TakeOk, DispatchTypes
  <2>3. work[d] \in Terminal \cup {"TRANSIENT_ERROR", "PARTIAL"}
    BY <2>1, <2>2, BridgeTypes DEF TablesOk, Answer
  <2>4. /\ CommitsFresh /\ commits'[Bridge].task = d[1] /\ commits'[Bridge].step = "metric"
        /\ \A p \in Owner \ {Bridge} : commits'[p] = commits[p]
    BY <2>1, <2>2, <2>3, BridgeTypes, CommitBegins
  <2>5. SafetyInv' /\ KeepsEnds
    <3>1. EndsNone
      BY <1>1, BridgeTypes, Types DEF EndsNone, KeepsEnds
    <3>2. \A v \in Worker : commits'[v] = commits[v]
      BY <2>4, BridgeTypes, Types
    <3> QED
      BY <1>1, <2>4, <3>1, <3>2, QueueStepKeeps
  <2>6. TablesOk' /\ LedgerInv'
    BY <1>1, <1>2, <2>1, <2>2, BridgeTypes, LedgerElsewhere DEF TablesOk, LedgerInv
  <2> QED
    BY <1>1, <1>2, <2>1, <2>4, <2>5, <2>6, DrainTaken
<1>9. ASSUME bridge' = [Start EXCEPT !.pc = "reap2"], UNCHANGED <<mapping, batch, fails, commits>>
      PROVE  BridgeInv' /\ KeepsEnds
  <2>1. bridge' \in Process
    BY <1>1, <1>9, StartOk, ProcessMoves
  <2>2. /\ bridge'.pc = "reap2" /\ bridge'.inbox = {} /\ bridge'.todo = {}
        /\ bridge'.back = "renew"
    BY <1>9 DEF Start
  <2>3. bridge'.pc \notin Busy /\ bridge'.back \notin Busy
    BY <2>2 DEF Busy, Draining
  <2> QED
    BY <1>1, <1>2, <1>3, <1>9, <2>1, <2>2, <2>3, MovesOn
<1> QED
  BY <1>4, <1>5, <1>6, <1>7, <1>8, <1>9 DEF Drain

-----------------------------------------------------------------------------
(* The commit of the result at hand.                                       *)

\* The process moves on with the dispatch that it has at hand.
LEMMA GoesOn ==
    ASSUME BridgeInv, RowsSteady, SafetyInv', TablesOk', LedgerInv', UNCHANGED work,
           bridge.pc \in Busy, bridge.pc # "insert",
           NEW d \in Dispatch, d = bridge.cur, d \notin bridge.inbox,
           \A e \in Dispatch \ {d} : batch'[e] = batch[e],
           NEW pc \in {"close", "mark", "failed", "drain", "release"},
           NEW back, back \notin Busy,
           bridge'.pc = pc, bridge'.cur = d, bridge'.back = back,
           bridge'.inbox = bridge.inbox, bridge'.todo = bridge.todo,
           pc \in Closing => Gone(d)', pc \in Draining => batch'[d] = "unread"
    PROVE  BridgeInv'
<1>1. Past(d)'
  BY CurrentDispatch
<1>2. InboxInv'
  BY BridgeTypes DEF InboxInv
<1>3. TodoInv'
  BY AtHand DEF TodoInv, At
<1>4. BusyInv' /\ CommitInv'
  BY <1>1 DEF BusyInv, CommitInv, At, Busy, Closing, Draining
<1> QED
  BY <1>2, <1>3, <1>4 DEF BridgeInv, ProcessInv

LEMMA GotoOk ==
    ASSUME BridgeInv, NEW pc \in Pc, Goto(pc)
    PROVE  /\ bridge' \in Process /\ bridge'.pc = pc /\ bridge'.cur = bridge.cur
           /\ bridge'.back = bridge.back
           /\ bridge'.inbox = bridge.inbox /\ bridge'.todo = bridge.todo
<1>1. bridge' \in Process
  BY BridgeTypes, ProcessMoves DEF Goto
<1> QED
  BY <1>1, BridgeTypes DEF Goto, Process

LEMMA BridgeCommitKeeps ==
    ASSUME BridgeInv, BridgeCommitStep
    PROVE  BridgeInv' /\ KeepsEnds
<1>1. /\ bridge.pc = "commit" /\ CommitStep(Bridge) /\ UNCHANGED <<workerVars, bridgeVars>>
  BY DEF BridgeCommitStep, At
<1>2. TasksInv' /\ Advances(Bridge) /\ UNCHANGED tasks
  BY <1>1, BridgeTypes, CommitStepKeeps
<1>3. \A v \in Worker : commits'[v] = commits[v]
  BY <1>2, BridgeTypes, Types DEF Advances
<1>4. SafetyInv' /\ KeepsEnds /\ RowsSteady
  <2>1. SafetyInv'
    BY <1>1, <1>2, <1>3, BridgeTypes, Types, WorkersKept DEF workerVars
  <2> QED
    BY <1>2, <2>1 DEF KeepsEnds, RowsSteady
<1>5. TablesOk' /\ LedgerInv'
  BY <1>1, <1>4, BridgeTypes, LedgerElsewhere DEF TablesOk, LedgerInv, bridgeVars
<1>6. InboxInv' /\ TodoInv'
  BY <1>1, <1>4, AtHand, BridgeTypes DEF InboxInv, TodoInv, bridgeVars
<1>7. PICK d \in Dispatch :
          /\ d = bridge.cur /\ Past(d)' /\ batch[d] = "unread" /\ d \notin bridge.inbox
  BY <1>1, <1>4, CurrentDispatch DEF Busy, Draining
<1>8. BusyInv' /\ CommitInv'
  BY <1>1, <1>2, <1>7, BridgeTypes
     DEF BusyInv, CommitInv, At, Busy, Closing, Draining, bridgeVars, Advances
<1> QED
  BY <1>4, <1>5, <1>6, <1>8 DEF BridgeInv, ProcessInv

LEMMA BridgeEndTaskKeeps ==
    ASSUME BridgeInv, BridgeEndTask
    PROVE  BridgeInv' /\ KeepsEnds
<1>1. /\ bridge.pc = "commit" /\ EndTask(Bridge) /\ Goto("close")
      /\ done' = done \cup {bridge.cur}
      /\ UNCHANGED <<workerVars, mapping, work, batch, fails, faults>>
      /\ bridge.pc \in Busy /\ bridge.pc \in Draining
  BY DEF BridgeEndTask, At, Busy, Draining
<1>2. PICK d \in Dispatch :
          /\ d = bridge.cur /\ d[1] \in Task /\ batch[d] = "unread" /\ d \notin bridge.inbox
          /\ RowsSteady => Past(d)'
  BY <1>1, CurrentDispatch
<1>3. commits[Bridge].task = d[1]
  BY <1>1, <1>2, BridgeTypes DEF CommitInv, At
<1>4. /\ TasksInv' /\ KeepsEnds /\ tasks[d[1]].owner = Bridge
      /\ tasks'[d[1]].owner = NoOwner /\ tasks'[d[1]].attempt = tasks[d[1]].attempt
      /\ \A t \in Task \ {d[1]} : tasks'[t] = tasks[t]
      /\ \A p \in Owner \ {Bridge} : commits'[p] = commits[p]
  BY <1>1, <1>3, BridgeTypes, EndTaskKeeps DEF Owned
<1>5. RowsSteady /\ Gone(d)'
  <2>1. RowsSteady
    BY <1>4, BridgeTypes DEF RowsSteady
  <2>2. ~Current(d)'
    BY <1>4, BridgeTypes DEF Current
  <2> QED
    BY <1>2, <2>1, <2>2 DEF Gone
<1>6. SafetyInv'
  <2>1. \A v \in Worker : commits'[v] = commits[v]
    BY <1>4, BridgeTypes, Types
  <2> QED
    BY <1>1, <1>4, <2>1, BridgeTypes, Types, WorkersKept DEF workerVars
<1>7. /\ bridge' \in Process /\ bridge'.pc = "close" /\ bridge'.cur = d
      /\ bridge'.back = bridge.back
      /\ bridge'.inbox = bridge.inbox /\ bridge'.todo = bridge.todo
  BY <1>1, <1>2, GotoOk DEF Pc
<1>8. TablesOk' /\ LedgerInv'
  BY <1>1, <1>2, <1>5, <1>7, BridgeTypes, LedgerElsewhere DEF TablesOk, LedgerInv
<1> QED
  BY <1>1, <1>2, <1>4, <1>5, <1>6, <1>7, <1>8, BridgeTypes, GoesOn DEF BusyInv

LEMMA BridgeEndRefusedKeeps ==
    ASSUME BridgeInv, BridgeEndRefused
    PROVE  BridgeInv' /\ KeepsEnds
<1>1. /\ bridge.pc = "commit" /\ EndRefused(Bridge) /\ Goto("failed")
      /\ UNCHANGED <<workerVars, mapping, work, batch, fails, faults, done>>
      /\ bridge.pc \in Busy /\ bridge.pc \in Draining
  BY DEF BridgeEndRefused, At, Busy, Draining
<1>2. PICK d \in Dispatch : d = bridge.cur /\ batch[d] = "unread" /\ d \notin bridge.inbox
  BY <1>1, CurrentDispatch
<1>3. /\ UNCHANGED <<tasks, evidence>> /\ CommitsFresh
      /\ \A v \in Worker : commits'[v] = commits[v]
  BY <1>1, BridgeTypes, Types, CommitForgotten DEF EndRefused
<1>4. SafetyInv' /\ KeepsEnds /\ RowsSteady
  <2>1. EndsNone
    BY <1>3, BridgeTypes, Types DEF EndsNone, KeepsEnds
  <2>2. SafetyInv' /\ KeepsEnds
    BY <1>1, <1>3, <2>1, QueueStepKeeps
  <2> QED
    BY <1>3, <2>2 DEF RowsSteady
<1>5. /\ bridge' \in Process /\ bridge'.pc = "failed" /\ bridge'.cur = d
      /\ bridge'.back = bridge.back
      /\ bridge'.inbox = bridge.inbox /\ bridge'.todo = bridge.todo
  BY <1>1, <1>2, GotoOk DEF Pc
<1>6. TablesOk' /\ LedgerInv'
  BY <1>1, <1>4, <1>5, BridgeTypes, LedgerElsewhere DEF TablesOk, LedgerInv
<1>7. "failed" \notin Closing
  BY DEF Closing
<1> QED
  BY <1>1, <1>2, <1>4, <1>5, <1>6, <1>7, BridgeTypes, GoesOn DEF BusyInv

LEMMA CloseMappingKeeps ==
    ASSUME BridgeInv, CloseMapping
    PROVE  BridgeInv' /\ KeepsEnds
<1>1. /\ bridge.pc = "close" /\ Goto("mark")
      /\ mapping' = [mapping EXCEPT ![bridge.cur] = "CONSUMED"]
      /\ UNCHANGED <<vars, work, batch, fails, faults, done>>
      /\ bridge.pc \in Busy /\ bridge.pc \in Draining /\ bridge.pc \in Closing
  BY DEF CloseMapping, At, Busy, Draining, Closing
<1>2. SafetyInv' /\ KeepsEnds /\ RowsSteady
  BY <1>1, StillKeeps
<1>3. PICK d \in Dispatch :
          /\ d = bridge.cur /\ batch[d] = "unread" /\ d \notin bridge.inbox /\ Gone(d)'
  BY <1>1, <1>2, CurrentDispatch
<1>4. /\ bridge' \in Process /\ bridge'.pc = "mark" /\ bridge'.cur = d
      /\ bridge'.back = bridge.back
      /\ bridge'.inbox = bridge.inbox /\ bridge'.todo = bridge.todo
  BY <1>1, <1>3, GotoOk DEF Pc
<1>5. mapping' \in [Dispatch -> MappingState] /\ \A e \in Dispatch \ {d} : mapping'[e] = mapping[e]
  BY <1>1, <1>3, BridgeTypes DEF TablesOk, MappingState
<1>6. TablesOk'
  BY <1>1, <1>4, <1>5, BridgeTypes DEF TablesOk
<1>7. LedgerInv'
  <2>1. LedgerOk(d)'
    BY <1>1, <1>3, BridgeTypes DEF LedgerInv, LedgerOk, Gone
  <2> QED
    BY <1>1, <1>2, <1>5, <2>1, LedgerElsewhere DEF LedgerInv
<1> QED
  BY <1>1, <1>2, <1>3, <1>4, <1>6, <1>7, BridgeTypes, GoesOn DEF BusyInv

LEMMA MarkConsumedKeeps ==
    ASSUME BridgeInv, MarkConsumed
    PROVE  BridgeInv' /\ KeepsEnds
<1>1. /\ bridge.pc = "mark" /\ Goto("drain")
      /\ batch' = [batch EXCEPT ![bridge.cur] = "consumed"]
      /\ UNCHANGED <<vars, mapping, work, fails, faults, done>>
      /\ bridge.pc \in Busy /\ bridge.pc \in Draining /\ bridge.pc \in Closing
  BY DEF MarkConsumed, At, Busy, Draining, Closing
<1>2. SafetyInv' /\ KeepsEnds /\ RowsSteady
  BY <1>1, StillKeeps
<1>3. PICK d \in Dispatch :
          /\ d = bridge.cur /\ batch[d] = "unread" /\ d \notin bridge.inbox /\ Gone(d)'
  BY <1>1, <1>2, CurrentDispatch
<1>4. /\ bridge' \in Process /\ bridge'.pc = "drain" /\ bridge'.cur = d
      /\ bridge'.back = bridge.back
      /\ bridge'.inbox = bridge.inbox /\ bridge'.todo = bridge.todo
  BY <1>1, <1>3, GotoOk DEF Pc
<1>5. /\ batch' \in [Dispatch -> {"none", "unread", "consumed", "quarantined"}]
      /\ batch'[d] = "consumed" /\ \A e \in Dispatch \ {d} : batch'[e] = batch[e]
  BY <1>1, <1>3, BridgeTypes DEF TablesOk
<1>6. TablesOk'
  BY <1>1, <1>4, <1>5, BridgeTypes DEF TablesOk
<1>7. LedgerInv'
  <2>1. LedgerOk(d)'
    BY <1>1, <1>3, <1>5, BridgeTypes DEF LedgerInv, LedgerOk, Gone
  <2> QED
    BY <1>1, <1>2, <1>5, <2>1, LedgerElsewhere DEF LedgerInv
<1>8. "drain" \notin Closing /\ "drain" \notin Draining
  BY DEF Closing, Draining
<1> QED
  BY <1>1, <1>2, <1>3, <1>4, <1>5, <1>6, <1>7, <1>8, BridgeTypes, GoesOn DEF BusyInv

LEMMA CommitFailedKeeps ==
    ASSUME BridgeInv, CommitFailed
    PROVE  BridgeInv' /\ KeepsEnds
<1>1. /\ bridge.pc = "failed" /\ ConsumeFailed(bridge.cur)
      /\ UNCHANGED <<vars, mapping, work, faults, done>>
      /\ bridge.pc \in Busy /\ bridge.pc \in Draining
  BY DEF CommitFailed, At, Busy, Draining
<1>2. SafetyInv' /\ KeepsEnds /\ RowsSteady
  BY <1>1, StillKeeps
<1>3. PICK d \in Dispatch :
          /\ d = bridge.cur /\ batch[d] = "unread" /\ d \notin bridge.inbox
  BY <1>1, <1>2, CurrentDispatch
<1>4. PICK pc \in {"release", "drain"} : bridge' = [bridge EXCEPT !.back = "drain", !.pc = pc]
  BY DEF CommitFailed
<1>5. bridge' \in Process
  BY <1>4, BridgeTypes, ProcessMoves DEF Pc
<1>6. /\ bridge'.pc = pc /\ bridge'.cur = d /\ bridge'.back = "drain"
      /\ bridge'.inbox = bridge.inbox /\ bridge'.todo = bridge.todo
  BY <1>3, <1>4, BridgeTypes DEF Process
<1>7. /\ fails' \in [Dispatch -> 0..MaxConsumeAttempts]
      /\ batch' \in [Dispatch -> {"none", "unread", "consumed", "quarantined"}]
      /\ batch'[d] \in {"unread", "quarantined"}
      /\ batch'[d] = "unread" => fails'[d] < MaxConsumeAttempts
      /\ \A e \in Dispatch \ {d} : batch'[e] = batch[e] /\ fails'[e] = fails[e]
  BY <1>1, <1>3, ConsumeFailedOk
<1>8. TablesOk'
  BY <1>1, <1>5, <1>7, BridgeTypes DEF TablesOk
<1>9. LedgerInv'
  <2>1. LedgerOk(d)
    BY BridgeTypes DEF LedgerInv
  <2>2. LedgerOk(d)'
    BY <1>1, <1>2, <1>3, <1>7, <2>1, Steady DEF LedgerOk, Gone
  <2> QED
    BY <1>1, <1>2, <1>7, <2>2, LedgerElsewhere DEF LedgerInv
<1>10. pc \notin Closing /\ pc \notin Draining /\ "drain" \notin Busy
  BY DEF Closing, Draining, Busy
<1> QED
  BY <1>1, <1>2, <1>3, <1>6, <1>7, <1>8, <1>9, <1>10, GoesOn

-----------------------------------------------------------------------------
(* dispatch.                                                               *)

LEMMA DispatchClaimKeeps ==
    ASSUME BridgeInv, DispatchClaim
    PROVE  BridgeInv' /\ KeepsEnds
<1>1. PICK S \in SUBSET Claimable :
          /\ bridge.pc = "claim" /\ ClaimTasks(Bridge, S, DispatchLimit)
          /\ bridge' = [bridge EXCEPT
                  !.todo = {<<t, tasks'[t].attempt>> : t \in S},
                  !.pc = IF S = {} THEN "renew" ELSE "admit"]
          /\ UNCHANGED <<others, mapping, work, batch, fails, faults, done>>
  BY DEF DispatchClaim, At
<1> DEFINE T == {<<t, tasks'[t].attempt>> : t \in S}
<1>2. UNCHANGED <<evidence, commits, workerVars>>
  BY <1>1 DEF others
<1>3. /\ EndsNone /\ S \subseteq Task
      /\ \A t \in S : tasks[t].left = 0 /\ tasks'[t].attempt = tasks[t].attempt + 1
      /\ \A t \in Task \ S : tasks'[t] = tasks[t]
  BY <1>1, BridgeTypes, ClaimEndsNone
<1>4. SafetyInv' /\ KeepsEnds /\ RowsSteady
  <2>1. CommitsFresh
    BY <1>2, BridgeTypes, Types DEF CommitsFresh
  <2>2. \A t \in Task : tasks[t].owner # Bridge /\ tasks[t].left > 0 => tasks'[t] = tasks[t]
    BY <1>3
  <2>3. SafetyInv' /\ KeepsEnds
    BY <1>2, <1>3, <2>1, <2>2, QueueStepKeeps
  <2>4. RowsSteady
    BY <1>3 DEF RowsSteady
  <2> QED
    BY <2>3, <2>4
<1>5. \A d \in T : d \in Dispatch /\ Past(d)' /\ work[d] = "none"
  <2>1. SUFFICES ASSUME NEW d \in T
                 PROVE  d \in Dispatch /\ Past(d)' /\ work[d] = "none"
    OBVIOUS
  <2>2. PICK t \in S : d = <<t, tasks'[t].attempt>>
    OBVIOUS
  <2>3. /\ t \in Task /\ tasks[t].attempt \in Nat /\ tasks[t].attempt < MaxAttempt
        /\ tasks'[t].attempt = tasks[t].attempt + 1
    BY <1>3, BridgeTypes DEF Claimable
  <2>4. d[1] = t /\ d[2] = tasks[t].attempt + 1
    BY <2>2, <2>3
  <2>5. d \in Dispatch
    BY <2>2, <2>3, EvidenceAssumption DEF Dispatch
  <2>6. ~Past(d) /\ Past(d)'
    BY <2>3, <2>4 DEF Past
  <2>7. work[d] = "none"
    BY <2>5, <2>6, BridgeTypes DEF LedgerInv, LedgerOk
  <2> QED
    BY <2>5, <2>6, <2>7
<1>6. PICK pc \in {"renew", "admit"} : bridge' = [bridge EXCEPT !.todo = T, !.pc = pc]
  BY <1>1
<1>7. T \in SUBSET Dispatch
  BY <1>5
<1>8. /\ bridge' \in Process /\ bridge'.pc = pc /\ bridge'.back = bridge.back
      /\ bridge'.inbox = bridge.inbox /\ bridge'.todo = T
  <2> HIDE DEF T
  <2>1. bridge' \in Process
    BY <1>6, <1>7, BridgeTypes, ProcessMoves DEF Pc
  <2> QED
    BY <1>6, <1>7, <2>1, BridgeTypes DEF Process
<1>9. bridge'.pc \notin Busy /\ bridge'.back \notin Busy /\ faults' \in Nat
      /\ UNCHANGED <<mapping, work, batch, fails, done>>
      /\ \A d \in bridge'.inbox : batch[d] = "unread"
  BY <1>1, <1>8, BridgeTypes DEF Busy, Draining, BusyInv, InboxInv, TablesOk
<1>10. \A d \in bridge'.todo : Past(d)' /\ work[d] = "none"
  BY <1>5, <1>8
<1> QED
  BY <1>4, <1>8, <1>9, <1>10, MovesOn

LEMMA AdmitKeeps ==
    ASSUME BridgeInv, Admit
    PROVE  BridgeInv' /\ KeepsEnds
<1>1. PICK d \in bridge.todo :
          /\ bridge.pc = "admit" /\ work' = [work EXCEPT ![d] = "OPEN"]
          /\ bridge' = [bridge EXCEPT !.cur = d, !.pc = "insert"]
          /\ UNCHANGED <<vars, mapping, batch, fails, faults, done>>
  BY DEF Admit, At
<1>2. SafetyInv' /\ KeepsEnds /\ RowsSteady
  BY <1>1, StillKeeps
<1>3. d \in Dispatch /\ Past(d)' /\ work[d] = "none"
  BY <1>1, <1>2, BridgeTypes, AtHand
<1>4. bridge' \in Process
  BY <1>1, <1>3, BridgeTypes, ProcessMoves DEF Pc
<1>5. /\ bridge'.pc = "insert" /\ bridge'.cur = d /\ bridge'.back = bridge.back
      /\ bridge'.inbox = bridge.inbox /\ bridge'.todo = bridge.todo
  BY <1>1, <1>3, BridgeTypes DEF Process
<1>6. /\ work' \in [Dispatch -> {"none", "OPEN", "DEAD"} \cup Answer]
      /\ work'[d] = "OPEN" /\ \A e \in Dispatch \ {d} : work'[e] = work[e]
  BY <1>1, <1>3, BridgeTypes DEF TablesOk
<1>7. TablesOk'
  BY <1>1, <1>4, <1>6, BridgeTypes DEF TablesOk
<1>8. LedgerInv'
  <2>1. LedgerOk(d)
    BY <1>3, BridgeTypes DEF LedgerInv
  <2>2. LedgerOk(d)'
    BY <1>1, <1>2, <1>3, <1>6, <2>1, Steady DEF LedgerOk, Gone
  <2> QED
    BY <1>1, <1>2, <1>6, <2>2, LedgerElsewhere DEF LedgerInv
<1>9. InboxInv' /\ CommitInv'
  BY <1>1, <1>5, BridgeTypes DEF InboxInv, CommitInv, At
<1>10. TodoInv'
  BY <1>1, <1>2, <1>5, <1>6, AtHand, BridgeTypes DEF TodoInv, At
<1>11. BusyInv'
  BY <1>1, <1>3, <1>5, BridgeTypes DEF BusyInv, At, Busy, Closing, Draining
<1> QED
  BY <1>2, <1>7, <1>8, <1>9, <1>10, <1>11 DEF BridgeInv, ProcessInv

LEMMA InsertMappingKeeps ==
    ASSUME BridgeInv, InsertMapping
    PROVE  BridgeInv' /\ KeepsEnds
<1>1. /\ bridge.pc = "insert" /\ mapping' = [mapping EXCEPT ![bridge.cur] = "ACTIVE"]
      /\ UNCHANGED <<vars, work, batch, fails, faults, done>> /\ bridge.pc \in Busy
  BY DEF InsertMapping, At, Busy
<1>2. SafetyInv' /\ KeepsEnds /\ RowsSteady
  BY <1>1, StillKeeps
<1>3. PICK d \in Dispatch : d = bridge.cur /\ Past(d)'
  BY <1>1, <1>2, CurrentDispatch
<1>4. PICK pc \in {"renew", "admit"} :
          bridge' = [bridge EXCEPT !.todo = bridge.todo \ {d}, !.cur = <<>>, !.pc = pc]
  BY <1>3 DEF InsertMapping
<1>5. bridge.todo \ {d} \in SUBSET Dispatch
  BY BridgeTypes
<1>6. bridge' \in Process
  BY <1>4, <1>5, BridgeTypes, ProcessMoves DEF Pc
<1>7. /\ bridge'.pc = pc /\ bridge'.back = bridge.back
      /\ bridge'.inbox = bridge.inbox /\ bridge'.todo = bridge.todo \ {d}
  BY <1>4, BridgeTypes DEF Process
<1>8. /\ mapping' \in [Dispatch -> MappingState] /\ mapping'[d] = "ACTIVE"
      /\ \A e \in Dispatch \ {d} : mapping'[e] = mapping[e]
  BY <1>1, <1>3, BridgeTypes DEF TablesOk, MappingState
<1>9. TablesOk'
  BY <1>1, <1>6, <1>8, BridgeTypes DEF TablesOk
<1>10. LedgerInv'
  <2>1. LedgerOk(d)
    BY <1>3, BridgeTypes DEF LedgerInv
  <2>2. batch[d] = "consumed" => Gone(d)'
    BY <1>2, <2>1, Steady DEF LedgerOk, Gone
  <2>3. LedgerOk(d)'
    BY <1>1, <1>3, <1>8, <2>1, <2>2 DEF LedgerOk, Closed
  <2> QED
    BY <1>1, <1>2, <1>8, <2>3, LedgerElsewhere DEF LedgerInv
<1>11. InboxInv'
  BY <1>1, <1>7, BridgeTypes DEF InboxInv
<1>12. TodoInv'
  <2>1. \A e \in bridge.todo \ {d} : Past(e)' /\ work[e] = "none"
    BY <1>2, <1>3, AtHand, BridgeTypes DEF TodoInv
  <2> QED
    BY <1>1, <1>7, <2>1 DEF TodoInv
<1>13. BusyInv' /\ CommitInv'
  BY <1>7, BridgeTypes DEF BusyInv, CommitInv, At, Busy, Closing, Draining
<1> QED
  BY <1>2, <1>9, <1>10, <1>11, <1>12, <1>13 DEF BridgeInv, ProcessInv

-----------------------------------------------------------------------------
(* The ends of the process, and Fabric.                                    *)

LEMMA EndsKeep ==
    ASSUME BridgeInv, ReleaseRefused \/ AdmitFails \/ BridgeCrash
    PROVE  BridgeInv' /\ KeepsEnds
<1>1. /\ bridge' = Start /\ UNCHANGED <<mapping, work, batch, fails, done>>
      /\ faults' = faults \/ faults' = faults + 1
  BY DEF ReleaseRefused, AdmitFails, BridgeCrash
<1>2. faults' \in Nat
  BY <1>1, BridgeTypes DEF TablesOk
<1>3. SUFFICES SafetyInv' /\ KeepsEnds /\ RowsSteady
  BY <1>1, <1>2, Restarts
<1>4. CASE ReleaseRefused
  BY <1>4, StillKeeps DEF ReleaseRefused
<1>5. CASE BridgeCrash
  <2>1. /\ UNCHANGED <<tasks, evidence, workerVars>>
        /\ commits' = [commits EXCEPT ![Bridge] = NoCommit]
    BY <1>5 DEF BridgeCrash
  <2>2. EndsNone /\ RowsSteady
    BY <2>1, BridgeTypes, Types DEF EndsNone, KeepsEnds, RowsSteady
  <2>3. CommitsFresh /\ \A v \in Worker : commits'[v] = commits[v]
    BY <2>1, BridgeTypes, Types, CommitForgotten
  <2> QED
    BY <2>1, <2>2, <2>3, QueueStepKeeps
<1>6. CASE AdmitFails
  <2>1. PICK d \in bridge.todo :
            tasks' = IF Owned(Bridge, d[1]) THEN Released(d[1]) ELSE tasks
    BY <1>6 DEF AdmitFails
  <2>2. UNCHANGED <<evidence, commits, workerVars>>
    BY <1>6 DEF AdmitFails, others
  <2>3. d[1] \in Task
    BY BridgeTypes, DispatchTypes
  <2>4. /\ EndsNone /\ RowsSteady
        /\ \A t \in Task : tasks[t].owner # Bridge => tasks'[t] = tasks[t]
    <3>1. CASE Owned(Bridge, d[1])
      <4>1. /\ EndsNone /\ tasks'[d[1]].owner = NoOwner
            /\ tasks'[d[1]].attempt = tasks[d[1]].attempt
            /\ \A u \in Task \ {d[1]} : tasks'[u] = tasks[u]
        BY <2>1, <2>3, <3>1, BridgeTypes, ReleaseEndsNone
      <4> QED
        BY <3>1, <4>1, BridgeTypes DEF Owned, RowsSteady
    <3>2. CASE ~Owned(Bridge, d[1])
      BY <2>1, <3>2, BridgeTypes, Types DEF EndsNone, KeepsEnds, RowsSteady
    <3> QED
      BY <3>1, <3>2
  <2>5. CommitsFresh
    BY <2>2, BridgeTypes, Types DEF CommitsFresh
  <2> QED
    BY <2>2, <2>4, <2>5, QueueStepKeeps
<1> QED
  BY <1>4, <1>5, <1>6

LEMMA FabricKeeps ==
    ASSUME BridgeInv, NEW d \in Dispatch,
           FabricGivesUp(d) \/ \E a \in Outcome(d[1]) \cup {"POISON"} : FabricAnswers(d, a)
    PROVE  BridgeInv' /\ KeepsEnds
<1>1. PICK a \in {"DEAD"} \cup Answer :
          /\ work[d] = "OPEN" /\ work' = [work EXCEPT ![d] = a]
          /\ UNCHANGED <<taskVars, execs, active, heart, beat, crashes, failures,
                         mapping, fails, bridge, faults, done>>
          /\ retries' = retries \/ retries' = retries + 1
          /\ IF a = "DEAD" THEN UNCHANGED batch ELSE batch' = [batch EXCEPT ![d] = "unread"]
  <2>1. CASE FabricGivesUp(d)
    BY <2>1 DEF FabricGivesUp, vars, workerVars
  <2>2. ASSUME NEW a \in Outcome(d[1]) \cup {"POISON"}, FabricAnswers(d, a)
        PROVE  /\ a \in Answer /\ a # "DEAD"
               /\ work[d] = "OPEN" /\ work' = [work EXCEPT ![d] = a]
               /\ UNCHANGED <<taskVars, execs, active, heart, beat, crashes, failures,
                              mapping, fails, bridge, faults, done>>
               /\ retries' = retries \/ retries' = retries + 1
               /\ batch' = [batch EXCEPT ![d] = "unread"]
    BY <2>2 DEF FabricAnswers, Outcome, Answer, Terminal
  <2> QED
    BY <2>1, <2>2
<1>2. SafetyInv' /\ KeepsEnds /\ RowsSteady /\ UNCHANGED <<tasks, commits>>
  <2>1. TasksInv' /\ KeepsEnds /\ RowsSteady /\ UNCHANGED <<tasks, commits>>
    BY <1>1, BridgeTypes, Types, QueueStep
       DEF EndsNone, KeepsEnds, CommitsFresh, taskVars, RowsSteady
  <2>2. retries' \in Nat
    BY <1>1, BridgeTypes, Types
  <2> QED
    BY <1>1, <2>1, <2>2, WorkersKept
<1>3. batch[d] = "none" /\ fails[d] = 0 /\ Past(d)
  BY <1>1, BridgeTypes DEF LedgerInv, LedgerOk
<1>4. /\ work' \in [Dispatch -> {"none", "OPEN", "DEAD"} \cup Answer] /\ work'[d] = a
      /\ \A e \in Dispatch \ {d} : work'[e] = work[e]
  BY <1>1, BridgeTypes DEF TablesOk
<1>5. /\ batch' \in [Dispatch -> {"none", "unread", "consumed", "quarantined"}]
      /\ batch'[d] = IF a = "DEAD" THEN "none" ELSE "unread"
      /\ \A e \in Dispatch \ {d} : batch'[e] = batch[e]
  BY <1>1, <1>3, BridgeTypes DEF TablesOk
<1>6. TablesOk'
  BY <1>1, <1>4, <1>5, BridgeTypes DEF TablesOk
<1>7. LedgerInv'
  <2>1. LedgerOk(d)
    BY BridgeTypes DEF LedgerInv
  <2>2. a # "none" /\ a # "OPEN"
    BY DEF Answer, Terminal
  <2>3. LedgerOk(d)'
    BY <1>1, <1>2, <1>3, <1>4, <1>5, <2>1, <2>2, Steady, BridgeTypes DEF LedgerOk, Gone
  <2> QED
    BY <1>1, <1>2, <1>4, <1>5, <2>3, LedgerElsewhere DEF LedgerInv
<1>8. InboxInv' /\ CommitInv'
  BY <1>1, <1>2, <1>5, <1>3, BridgeTypes DEF InboxInv, CommitInv, At
<1>9. TodoInv'
  <2>1. ASSUME NEW e \in bridge.todo, ~(At("insert") /\ e = bridge.cur)
        PROVE  work'[e] = "none"
    BY <1>1, <1>4, <2>1, BridgeTypes DEF TodoInv
  <2> QED
    BY <1>1, <1>2, <2>1, AtHand DEF TodoInv, At
<1>10. BusyInv'
  <2>1. bridge.pc \in Draining => bridge.pc \in Busy
    BY DEF Busy
  <2>2. bridge.pc \in Busy =>
            /\ bridge.cur \in Dispatch
            /\ \A e \in Dispatch : e = bridge.cur => Past(e)' /\ (bridge.pc \in Closing => Gone(e)')
    BY <1>2, CurrentDispatch
  <2>3. bridge.pc \in Closing => bridge.pc \in Busy
    BY DEF Busy, Closing, Draining
  <2>4. bridge.pc \in Draining => batch'[bridge.cur] = "unread"
    BY <1>3, <1>5, <2>1, <2>2, BridgeTypes DEF BusyInv
  <2> QED
    BY <1>1, <2>2, <2>3, <2>4, BridgeTypes DEF BusyInv, At
<1> QED
  BY <1>2, <1>6, <1>7, <1>8, <1>9, <1>10 DEF BridgeInv, ProcessInv

-----------------------------------------------------------------------------

LEMMA BridgeStutter ==
    ASSUME BridgeInv, UNCHANGED allVars
    PROVE  BridgeInv' /\ KeepsEnds
<1>1. SafetyInv' /\ KeepsEnds /\ RowsSteady /\ UNCHANGED <<tasks, commits>>
  BY StillKeeps DEF allVars
<1> QED
  BY <1>1, Undisturbed, BridgeTypes DEF allVars, bridgeVars, TablesOk

LEMMA BridgeNextKeeps ==
    ASSUME BridgeInv, [BridgeNext]_allVars
    PROVE  BridgeInv' /\ KeepsEnds
<1>1. CASE BridgeStep
  BY <1>1, RenewActiveKeeps, ReapKeeps, ReleaseKeeps, EndsKeep, MarkFailedKeeps,
     ReadInboxKeeps, DrainKeeps, BridgeCommitKeeps, BridgeEndTaskKeeps,
     BridgeEndRefusedKeeps, CloseMappingKeeps, MarkConsumedKeeps, CommitFailedKeeps,
     DispatchClaimKeeps, AdmitKeeps, InsertMappingKeeps DEF BridgeStep
<1>2. CASE Fabric
  BY <1>2, FabricKeeps DEF Fabric
<1>3. CASE UNCHANGED allVars
  BY <1>3, BridgeStutter
<1> QED
  BY <1>1, <1>2, <1>3, BridgeTickKeeps, OthersKeep, EndsKeep DEF BridgeNext

LEMMA BridgeInvHolds == BridgeSpec => []BridgeInv
<1>1. BridgeInitAll => BridgeInv
  BY BridgeInitOk
<1>2. BridgeInv /\ [BridgeNext]_allVars => BridgeInv'
  BY BridgeNextKeeps
<1> QED
  BY <1>1, <1>2, PTL DEF BridgeSpec

\* The types; among them, that no batch is tried more than
\* max_consume_attempts times (mark_batch_consume_failed).
THEOREM BridgeTyped == BridgeSpec => []BridgeTypeOK
<1>1. BridgeInv => BridgeTypeOK
  BY DEF BridgeInv, SafetyInv, TablesOk, Process, BridgeTypeOK
<1> QED
  BY <1>1, BridgeInvHolds, PTL

\* A dispatch that is closed has let go of its task, and a batch is marked
\* consumed only when its result has ended its task or no longer counts:
\* drain, reconcile_failed_work and renew_active, with the death of the
\* process between any two of their transactions.
THEOREM BridgeCloses == BridgeSpec => [](ClosedHasReleased /\ ConsumedIsCommitted)
<1>1. BridgeInv => ClosedHasReleased /\ ConsumedIsCommitted
  <2>1. SUFFICES ASSUME BridgeInv, NEW d \in Dispatch,
                        mapping[d] \in Closed \/ batch[d] = "consumed"
                 PROVE  ~Current(d)
    BY DEF ClosedHasReleased, ConsumedIsCommitted, Closed
  <2> QED
    BY <2>1 DEF BridgeInv, LedgerInv, LedgerOk, Gone
<1> QED
  BY <1>1, BridgeInvHolds, PTL

\* A batch is only marked consumed once its result has ended its task, or the
\* task is another's: a crash between the commit, the dispatch row and the
\* inbox loses no result that still counted (mark_batch_consumed).
THEOREM ConsumedKeptCommitted == BridgeSpec => []ConsumedIsCommitted
BY BridgeCloses, PTL

\* The bridge beside the workers: credit follows the proof, and the cost of
\* an attempt is counted once, whoever commits.
THEOREM BridgeCommits == BridgeSpec => [](CreditHasProof /\ CostCountedOnce)
<1>1. BridgeInv => CreditHasProof /\ CostCountedOnce
  BY DEF BridgeInv, SafetyInv, TasksInv, Counted
<1> QED
  BY <1>1, BridgeInvHolds, PTL

\* The bridge takes nothing from a worker in time, and undoes no end.
THEOREM BridgeApart == BridgeSpec => [](InTimeIsOwned /\ OneExecution) /\ EndedForGood
<1>1. BridgeInv => InTimeIsOwned /\ OneExecution
  BY InFlightOk DEF BridgeInv
<1>2. BridgeInv /\ [BridgeNext]_allVars =>
          [\A t \in Task : tasks[t].state \in Terminal => tasks'[t] = tasks[t]]_tasks
  BY BridgeNextKeeps DEF KeepsEnds
<1> QED
  BY <1>1, <1>2, BridgeInvHolds, PTL DEF BridgeSpec, EndedForGood
=============================================================================
