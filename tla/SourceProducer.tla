--------------------------- MODULE SourceProducer ---------------------------
(***************************************************************************)
(* SourceProducer.run_once (runtime/source_producer.py) in several         *)
(* processes on one control store: flush the spillover table, recover      *)
(* overdue leases, reserve capacity, grant and start a lease, read it,     *)
(* route what it asks for, move the cursor; or abort.  An exception ends   *)
(* the process, the supervisor starts another.                             *)
(*                                                                         *)
(* The threads inside a run only reorder and bound its records: a run      *)
(* reads some chunks and routes their keys in any order.  Left out: direct *)
(* evidence, RDAP and domain lanes, the registration of the run (module    *)
(* SourceRuns).                                                            *)
(* An operator introduced by "Mistake" is the next definition with a bug.  *)
(***************************************************************************)
EXTENDS SourceLeases

CONSTANTS
    Producer,
    Slots,          \* reservation_evidence_tasks of a candidate
    MaxFaults       \* bound: processes that die, runs that raise by themselves
                    \* and deadlines that a live process misses

ASSUME ProducerAssumption ==
    Slots \in Nat \ {0} /\ MaxFaults \in Nat

VARIABLES
    run,       \* run[p]: the local state of run_once
    revived,   \* history: a lease that had ended was set to RUNNING
    faults

vars == <<storeVars, run, revived, faults>>

\* lease, token, ticket: the lease, its reservation and the router's, and
\* source the reservoir, as sets of at most one; todo and over: the keys not routed yet, and those that found
\* no slot; group: the rows the router moves; rows: those still to flush.
Run == [at : {"idle", "flush", "choose", "grant", "bind", "check",
              "start", "read", "plan", "admit", "convert", "unstage",
              "return", "renew", "finalize", "abort", "release"},
        lease : SUBSET Lease, token : SUBSET Reservation,
        ticket : SUBSET Reservation, candidates : SUBSET Reservoir,
        source : SUBSET Reservoir, todo : SUBSET Key, over : SUBSET Key, next : 0 .. End,
        rows : SUBSET (Key \X Lease), group : SUBSET (Key \X Lease)]

Idle == [at |-> "idle", lease |-> {}, token |-> {}, ticket |-> {},
         candidates |-> {}, source |-> {}, todo |-> {}, over |-> {}, next |-> 0,
         rows |-> {}, group |-> {}]

TypeOK ==
    /\ StoreTypeOK
    /\ run \in [Producer -> Run]
    /\ revived \in BOOLEAN
    /\ faults \in Nat

Init ==
    /\ StoreInit
    /\ run = [p \in Producer |-> Idle]
    /\ revived = FALSE
    /\ faults = 0

history == <<revived, faults>>

At(p, at) == run[p].at = at
Goto(p, at) == run' = [run EXCEPT ![p].at = at]
Stop(p) == run' = [run EXCEPT ![p] = Idle]

LeaseOf(p) == CHOOSE l \in run[p].lease : TRUE

\* A new uuid is in no row and in no process.
Unused == {x \in Reservation :
              /\ Purged[x] = Free
              /\ \A p \in Producer : x \notin run[p].token \cup run[p].ticket}
NewReservation == CHOOSE x \in Unused : TRUE

FreshLease == CHOOSE l \in Lease : leases[l] = NoRow

-----------------------------------------------------------------------------
(* The router: one group of rows, of one lease, becomes tasks.             *)

KeysIn(group) == {row[1] : row \in group}

\* _try_enqueue_group asks for one slot per row.
Admit(p) ==
    /\ At(p, "admit") /\ Unused # {}
    /\ Reserve(NewReservation, Cardinality(run[p].group), RenewTtl)
    /\ run' = [run EXCEPT ![p].at = "convert", ![p].ticket = {NewReservation}]
    /\ UNCHANGED <<reservoirs, leases, tasks, staged, history>>

\* Where the router was called from: flush_pending holds no lease yet.
Caller(p) == IF run[p].lease = {} THEN "flush" ELSE "plan"

AdmitRefused(p) ==
    /\ At(p, "admit")
    /\ ReserveRefused(Cardinality(run[p].group))
    /\ run' = [run EXCEPT ![p].at = Caller(p), ![p].group = {}]
    /\ UNCHANGED <<reservoirs, leases, tasks, staged, history>>

\* bind_lease and enqueue_reserved of the group.
ConvertGroup(p) ==
    /\ At(p, "convert")
    /\ \E x \in run[p].ticket : Convert(x, KeysIn(run[p].group))
    /\ Goto(p, "unstage")
    /\ UNCHANGED <<reservoirs, leases, staged, history>>

\* The reservation has expired: the finally releases it, the run raises.
ConvertFails(p) ==
    /\ At(p, "convert")
    /\ \E x \in run[p].ticket : Left(x) = 0
    /\ reservations' = Released(run[p].ticket)
    /\ IF run[p].lease = {} THEN Stop(p)
       ELSE run' = [run EXCEPT ![p].at = "abort", ![p].ticket = {}, ![p].group = {}]
    /\ UNCHANGED <<reservoirs, leases, tasks, staged, history>>

\* _delete_staged
Unstage(p) ==
    /\ At(p, "unstage")
    /\ staged' = staged \ run[p].group
    /\ Goto(p, "return")
    /\ UNCHANGED <<reservoirs, leases, reservations, tasks, history>>

ReleaseTicket(p) ==
    /\ At(p, "return")
    /\ reservations' = Released(run[p].ticket)
    /\ run' = [run EXCEPT ![p].at = Caller(p), ![p].ticket = {}, ![p].group = {}]
    /\ UNCHANGED <<reservoirs, leases, tasks, staged, history>>

-----------------------------------------------------------------------------
(* run_once, up to the lease.                                              *)

\* flush_pending reads the spillover table once.
Begin(p) ==
    /\ At(p, "idle")
    /\ run' = [run EXCEPT ![p].at = "flush", ![p].rows = staged]
    /\ UNCHANGED <<storeVars, history>>

RowsOf(p, l) == {row \in run[p].rows : row[2] = l}

Smaller(a, b) == IF a < b THEN a ELSE b

\* Mistake: a group that does not fit is dropped from the table.
FlushGroupDropping(p) ==
    /\ At(p, "flush")
    /\ \E l \in {row[2] : row \in run[p].rows} :
          IF Available = 0
          THEN /\ staged' = staged \ RowsOf(p, l)
               /\ run' = [run EXCEPT ![p].rows = @ \ RowsOf(p, l)]
          ELSE /\ run' = [run EXCEPT ![p].rows = @ \ RowsOf(p, l),
                                     ![p].group = RowsOf(p, l), ![p].at = "admit"]
               /\ UNCHANGED staged
    /\ reservations' = Purged
    /\ UNCHANGED <<reservoirs, leases, tasks, history>>

\* The rows of one lease, as many as available_capacity says.
FlushGroup(p) ==
    /\ At(p, "flush")
    /\ \E l \in {row[2] : row \in run[p].rows} :
          IF Available = 0
          THEN run' = [run EXCEPT ![p].rows = @ \ RowsOf(p, l)]
          ELSE \E S \in SUBSET RowsOf(p, l) :
                  /\ Cardinality(S) = Smaller(Available, Cardinality(RowsOf(p, l)))
                  /\ run' = [run EXCEPT ![p].rows = @ \ RowsOf(p, l),
                                        ![p].group = S, ![p].at = "admit"]
    /\ reservations' = Purged
    /\ UNCHANGED <<reservoirs, leases, tasks, staged, history>>

\* Nothing is left to flush: recover_expired_leases, then the candidates.
Recover(p) ==
    /\ At(p, "flush") /\ run[p].rows = {}
    /\ RecoverOverdue
    /\ run' = [run EXCEPT ![p].at = "choose", ![p].candidates = Reservoir]
    /\ UNCHANGED <<reservations, tasks, staged, history>>

\* try_reserve for the candidate whose turn it is.
Choose(p) ==
    /\ At(p, "choose")
    /\ \E r \in run[p].candidates :
          \/ /\ Unused # {} /\ Reserve(NewReservation, Slots, GrantTtl)
             /\ run' = [run EXCEPT ![p].at = "grant", ![p].candidates = @ \ {r},
                                   ![p].source = {r},
                                   ![p].token = {NewReservation}]
          \/ /\ ReserveRefused(Slots)
             /\ run' = [run EXCEPT ![p].candidates = @ \ {r}]
    /\ UNCHANGED <<reservoirs, leases, tasks, staged, history>>

NothingToRun(p) ==
    /\ At(p, "choose") /\ run[p].candidates = {}
    /\ Stop(p)
    /\ UNCHANGED <<storeVars, history>>

TakeLease(p) ==
    /\ At(p, "grant")
    /\ \E l \in Lease : leases[l] = NoRow
    /\ \E r \in run[p].source : Grant(FreshLease, r)
    /\ run' = [run EXCEPT ![p].at = "bind", ![p].lease = {FreshLease}]
    /\ UNCHANGED <<reservations, tasks, staged, history>>

\* Another process was faster: the slots go back, the next candidate's turn.
LeaseRefused(p) ==
    /\ At(p, "grant")
    /\ \E r \in run[p].source : reservoirs[r].state # "READY"
    /\ reservations' = Released(run[p].token)
    /\ run' = [run EXCEPT ![p].at = "choose", ![p].source = {}, ![p].token = {}]
    /\ UNCHANGED <<reservoirs, leases, tasks, staged, history>>

\* bind_lease: a reservation that was purged is not found, the process ends
\* and leaves a GRANTED lease behind.
Bind(p) ==
    /\ At(p, "bind")
    /\ IF \E x \in run[p].token : reservations[x] # Free
       THEN Goto(p, "check") ELSE Stop(p)
    /\ UNCHANGED <<storeVars, history>>

\* save_lease(RUNNING) reads the row first ...
CheckGranted(p) ==
    /\ At(p, "check")
    /\ IF leases[LeaseOf(p)].state = "GRANTED" THEN Goto(p, "start") ELSE Stop(p)
    /\ UNCHANGED <<storeVars, history>>

\* ... and writes the whole row in a transaction of its own.
SaveRunning(p) ==
    /\ At(p, "start")
    /\ leases' = [leases EXCEPT ![LeaseOf(p)].state = "RUNNING"]
    /\ revived' = (revived \/ ~Holding(LeaseOf(p)))
    /\ Goto(p, "read")
    /\ UNCHANGED <<reservoirs, reservations, tasks, staged, faults>>

-----------------------------------------------------------------------------
(* The run.                                                                *)

\* The adapter reads from cursor_start on, one chunk or more.
Read(p) ==
    /\ At(p, "read")
    /\ LET l == LeaseOf(p) IN
       \E next \in leases[l].from + 1 .. End :
          run' = [run EXCEPT ![p].at = "plan", ![p].next = next,
                     ![p].todo = UNION {KeysAt[leases[l].reservoir][c] :
                                           c \in leases[l].from .. next - 1}]
    /\ UNCHANGED <<storeVars, history>>

\* enqueue_external_keys: a slot of the lease's own reservation, if any is left.
PlanKey(p) ==
    /\ At(p, "plan")
    /\ \E k \in run[p].todo :
          \/ /\ \E x \in run[p].token : Convert(x, {k})
             /\ run' = [run EXCEPT ![p].todo = @ \ {k}]
          \/ /\ \A x \in run[p].token : Left(x) = 0
             /\ run' = [run EXCEPT ![p].todo = @ \ {k}, ![p].over = @ \cup {k}]
             /\ UNCHANGED <<tasks, reservations>>
    /\ UNCHANGED <<reservoirs, leases, staged, history>>

\* enqueue_or_stage: what found no slot is staged before it is admitted.
Stage(p) ==
    /\ At(p, "plan") /\ run[p].over # {}
    /\ LET rows == run[p].over \X run[p].lease IN
       /\ staged' = staged \cup rows
       /\ run' = [run EXCEPT ![p].at = "admit", ![p].over = {}, ![p].group = rows]
    /\ UNCHANGED <<reservoirs, leases, reservations, tasks, history>>

\* keep_ownership_live, between any two records: the reservation while it has
\* slots left, then the lease.
KeepOwnership(p) ==
    /\ At(p, "plan")
    /\ LET X == {x \in run[p].token : Left(x) > 0} IN
       /\ reservations' = RenewedReservations(X)
       /\ IF Renewable(LeaseOf(p))
          THEN /\ leases' = RenewedLeases(LeaseOf(p))
               /\ run' = [run EXCEPT ![p].token = X]
          ELSE /\ run' = [run EXCEPT ![p].token = X, ![p].at = "abort"]
               /\ UNCHANGED leases
    /\ UNCHANGED <<reservoirs, tasks, staged, history>>

\* The adapter or the planner raises.
RunFails(p) ==
    /\ At(p, "plan") /\ faults < MaxFaults
    /\ faults' = faults + 1
    /\ Goto(p, "abort")
    /\ UNCHANGED <<storeVars, revived>>

\* Every key is routed: the slots left go back before the last renewal.
ReleaseRest(p) ==
    /\ At(p, "plan") /\ run[p].todo = {} /\ run[p].over = {}
    /\ reservations' = Released(run[p].token)
    /\ run' = [run EXCEPT ![p].at = "renew", ![p].token = {}]
    /\ UNCHANGED <<reservoirs, leases, tasks, staged, history>>

RenewLast(p) ==
    /\ At(p, "renew")
    /\ IF Renewable(LeaseOf(p))
       THEN leases' = RenewedLeases(LeaseOf(p)) /\ Goto(p, "finalize")
       ELSE UNCHANGED leases /\ Goto(p, "abort")
    /\ UNCHANGED <<reservoirs, reservations, tasks, staged, history>>

Succeed(p) ==
    /\ At(p, "finalize")
    /\ Finalize(LeaseOf(p), run[p].next)
    /\ Stop(p)
    /\ UNCHANGED <<reservations, tasks, staged, history>>

FinalizeFails(p) ==
    /\ At(p, "finalize")
    /\ ~Finalizable(LeaseOf(p))
    /\ Goto(p, "abort")
    /\ UNCHANGED <<storeVars, history>>

AbortLease(p) ==
    /\ At(p, "abort")
    /\ Abort(LeaseOf(p))
    /\ Goto(p, "release")
    /\ UNCHANGED <<reservations, tasks, staged, history>>

\* abort_lease raises in the handler: the slots are not given back.
AbortFails(p) ==
    /\ At(p, "abort") /\ ~Abortable(LeaseOf(p))
    /\ Stop(p)
    /\ UNCHANGED <<storeVars, history>>

ReleaseToken(p) ==
    /\ At(p, "release")
    /\ reservations' = Released(run[p].token)
    /\ Stop(p)
    /\ UNCHANGED <<reservoirs, leases, tasks, staged, history>>

Crash(p) ==
    /\ ~At(p, "idle") /\ faults < MaxFaults
    /\ faults' = faults + 1
    /\ Stop(p)
    /\ UNCHANGED <<storeVars, revived>>

-----------------------------------------------------------------------------
\* An evidence worker ends a task.
EndTask(k) ==
    /\ tasks[k] = "open"
    /\ tasks' = [tasks EXCEPT ![k] = "ended"]
    /\ UNCHANGED <<reservoirs, leases, reservations, staged, run, history>>

\* A live process is about to miss a deadline of its own.
Misses(p) ==
    \/ \E l \in run[p].lease : Holding(l) /\ leases[l].left = 1
    \/ \E x \in run[p].token \cup run[p].ticket : Left(x) > 0 /\ reservations[x].left = 1

Tick ==
    /\ TimePasses
    /\ IF \E p \in Producer : Misses(p)
       THEN faults < MaxFaults /\ faults' = faults + 1
       ELSE UNCHANGED faults
    /\ UNCHANGED <<reservoirs, tasks, staged, run, revived>>

RouterStep(p) ==
    \/ Admit(p) \/ AdmitRefused(p)
    \/ ConvertGroup(p) \/ ConvertFails(p)
    \/ Unstage(p) \/ ReleaseTicket(p)

GrantStep(p) ==
    \/ Begin(p) \/ FlushGroup(p) \/ Recover(p)
    \/ Choose(p) \/ NothingToRun(p) \/ TakeLease(p) \/ LeaseRefused(p)
    \/ Bind(p) \/ CheckGranted(p) \/ SaveRunning(p)

RunStep(p) ==
    \/ Read(p) \/ PlanKey(p) \/ Stage(p) \/ ReleaseRest(p)
    \/ RenewLast(p) \/ Succeed(p) \/ FinalizeFails(p)
    \/ AbortLease(p) \/ AbortFails(p) \/ ReleaseToken(p)

ProducerStep(p) == RouterStep(p) \/ GrantStep(p) \/ RunStep(p)

Next ==
    \/ \E p \in Producer : ProducerStep(p) \/ KeepOwnership(p)
                           \/ RunFails(p) \/ Crash(p)
    \/ \E k \in Key : EndTask(k)
    \/ Tick

Spec == Init /\ [][Next]_vars

-----------------------------------------------------------------------------
(* Properties.                                                             *)

\* Unless a lease was revived, a LEASED reservoir has exactly one lease that
\* may still move its cursor, and any other reservoir has none
\* (grant_fresh_lease, finalize_lease, abort_lease, recover_expired_leases).
OneHolder ==
    revived \/
    \A r \in Reservoir :
        LET holders == {l \in Lease : Holding(l) /\ leases[l].reservoir = r} IN
        IF reservoirs[r].state = "LEASED" THEN Cardinality(holders) = 1
        ELSE holders = {}

\* Unless a lease was revived, no recovery, abort or late finalize takes a
\* reservoir back to a chunk that was already left behind.
CursorMovesForward ==
    [][revived' \/ \A r \in Reservoir :
                      reservoirs'[r].cursor >= reservoirs[r].cursor]_vars
=============================================================================
