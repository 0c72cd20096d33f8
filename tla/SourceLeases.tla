---------------------------- MODULE SourceLeases ----------------------------
(***************************************************************************)
(* The control store's reservoirs and work leases (control_store.py), the  *)
(* capacity reservations in front of the evidence backlog                  *)
(* (scheduler/admission.py) and the spillover table of the evidence router *)
(* (evidence/router.py).  One operator per transaction; SourceProducer     *)
(* adds the processes that call them.                                      *)
(*                                                                         *)
(* A reservoir is read in chunks 0 .. End - 1 and its cursor is the next   *)
(* chunk; KeysAt[r][c] are the evidence tasks chunk c asks for.            *)
(*                                                                         *)
(* Abstracted: a deadline is the time left, 0 once it has passed; one      *)
(* provider lane; a lease is held by the process that granted it, so the   *)
(* owner and reservoir columns always match its token; EXHAUSTED keeps the *)
(* cursor End where the code stores NULL; a lease that ended has no time   *)
(* left, where its row keeps an expires_at that nobody reads again; the    *)
(* optimizer that exhausts a READY reservoir below the cursor is left out. *)
(* An operator introduced by "Mistake" is the next definition with a bug.  *)
(***************************************************************************)
EXTENDS Naturals, FiniteSets

CONSTANTS
    Reservoir, End,        \* reservoirs, and the chunks each holds
    Key, KeysAt,           \* EvidenceQueryKey
    Lease, Reservation,    \* lease_id, reservation_id
    Capacity,              \* backlog_capacities[provider]
    GrantTtl, RenewTtl     \* ownership_ttl, postprocess_ttl

ASSUME SourceAssumption ==
    /\ End \in Nat \ {0} /\ Capacity \in Nat
    /\ KeysAt \in [Reservoir -> [0 .. End - 1 -> SUBSET Key]]
    /\ GrantTtl \in Nat \ {0} /\ RenewTtl \in Nat \ {0}

ASSUME TablesFinite ==
    IsFiniteSet(Key) /\ IsFiniteSet(Lease) /\ IsFiniteSet(Reservation)

VARIABLES
    reservoirs,     \* reservoirs
    leases,         \* work_leases
    reservations,   \* evidence_capacity_reservations
    tasks,          \* evidence_tasks: "none" where there is no row
    staged          \* evidence_route_backlog_v1: <<key, lease>>

storeVars == <<reservoirs, leases, reservations, tasks, staged>>

Ended == {"SUCCEEDED", "ABORTED", "EXPIRED"}

NoRow == [state |-> "none"]
LeaseRow == [state : {"GRANTED", "RUNNING"} \cup Ended,
             reservoir : Reservoir, from : 0 .. End - 1, left : Nat]

\* No reservation: an amount of 0 is never stored.
Free == [amount |-> 0, left |-> 0]

StoreTypeOK ==
    /\ reservoirs \in [Reservoir -> [state : {"READY", "LEASED", "EXHAUSTED"},
                                     cursor : 0 .. End]]
    /\ leases \in [Lease -> LeaseRow \cup {NoRow}]
    /\ reservations \in [Reservation -> [amount : Nat, left : Nat]]
    /\ tasks \in [Key -> {"none", "open", "ended"}]
    /\ staged \subseteq Key \X Lease

StoreInit ==
    /\ reservoirs = [r \in Reservoir |-> [state |-> "READY", cursor |-> 0]]
    /\ leases = [l \in Lease |-> NoRow]
    /\ reservations = [x \in Reservation |-> Free]
    /\ tasks = [k \in Key |-> "none"]
    /\ staged = {}

-----------------------------------------------------------------------------
(* Admission.                                                              *)

Left(x) == IF reservations[x].left > 0 THEN reservations[x].amount ELSE 0

\* SUM(reserved): the slots of the live reservations, one by one.
Promised == UNION {{x} \X (1 .. Left(x)) : x \in Reservation}

OpenTasks == {k \in Key : tasks[k] = "open"}

Occupied == Cardinality(OpenTasks) + Cardinality(Promised)

Available == IF Occupied < Capacity THEN Capacity - Occupied ELSE 0

\* _purge_expired_locked
Purged == [x \in Reservation |->
              IF reservations[x].left = 0 THEN Free ELSE reservations[x]]

Reserve(x, amount, ttl) ==
    /\ Occupied + amount =< Capacity
    /\ reservations' = [Purged EXCEPT ![x] = [amount |-> amount, left |-> ttl]]

ReserveRefused(amount) ==
    /\ Occupied + amount > Capacity
    /\ reservations' = Purged

\* release of the reservations X: none or one.
Released(X) == [x \in Reservation |-> IF x \in X THEN Free ELSE reservations[x]]

RenewedReservations(X) ==
    [x \in Reservation |->
        IF x \in X /\ reservations[x].left < RenewTtl
        THEN [reservations[x] EXCEPT !.left = RenewTtl] ELSE reservations[x]]

NewKeys(K) == {k \in K : tasks[k] = "none"}

\* Mistake: the slots of a stored task stay reserved for ever more tasks.
ConvertKeeping(x, K) ==
    /\ Left(x) > 0 /\ Cardinality(NewKeys(K)) =< Left(x)
    /\ tasks' = [k \in Key |-> IF k \in NewKeys(K) THEN "open" ELSE tasks[k]]
    /\ UNCHANGED reservations

\* enqueue_reserved: only a task that was inserted takes a slot.
Convert(x, K) ==
    LET rest == Left(x) - Cardinality(NewKeys(K)) IN
    /\ Left(x) > 0 /\ Cardinality(NewKeys(K)) =< Left(x)
    /\ tasks' = [k \in Key |-> IF k \in NewKeys(K) THEN "open" ELSE tasks[k]]
    /\ reservations' = [reservations EXCEPT
                           ![x] = IF rest = 0 THEN Free ELSE [@ EXCEPT !.amount = rest]]

-----------------------------------------------------------------------------
(* Reservoirs and leases.                                                  *)

Holding(l) == leases[l].state \in {"GRANTED", "RUNNING"}

GrantedRow(r) == [state |-> "GRANTED", reservoir |-> r,
                  from |-> reservoirs[r].cursor, left |-> GrantTtl]

\* grant_fresh_lease
Grant(l, r) ==
    /\ reservoirs[r].state = "READY"
    /\ leases' = [leases EXCEPT ![l] = GrantedRow(r)]
    /\ reservoirs' = [reservoirs EXCEPT ![r].state = "LEASED"]

\* renew_lease never brings back a lease whose time has passed.
Renewable(l) == Holding(l) /\ leases[l].left > 0

RenewedLeases(l) ==
    [leases EXCEPT ![l].left = IF @ < RenewTtl THEN RenewTtl ELSE @]

EndedRow(row, state) == [row EXCEPT !.state = state, !.left = 0]

\* Back to READY at a cursor, if somebody holds it.
Reset(r, cursor) ==
    [reservoirs[r] EXCEPT !.state = "READY", !.cursor = cursor]

Finalizable(l) ==
    /\ leases[l].state = "RUNNING" /\ leases[l].left > 0
    /\ reservoirs[leases[l].reservoir].state = "LEASED"

\* Mistake: the cursor is written whoever holds the reservoir by now.
FinalizeUnfenced(l, next) ==
    LET r == leases[l].reservoir IN
    /\ leases' = [leases EXCEPT ![l] = EndedRow(@, "SUCCEEDED")]
    /\ reservoirs' = [reservoirs EXCEPT ![r] =
            IF next = End THEN [state |-> "EXHAUSTED", cursor |-> End]
            ELSE Reset(r, next)]

\* finalize_lease: one transaction for the lease and the cursor.
Finalize(l, next) ==
    LET r == leases[l].reservoir IN
    /\ Finalizable(l)
    /\ leases' = [leases EXCEPT ![l] = EndedRow(@, "SUCCEEDED")]
    /\ reservoirs' = [reservoirs EXCEPT ![r] =
            IF next = End THEN [state |-> "EXHAUSTED", cursor |-> End]
            ELSE Reset(r, next)]

\* abort_lease looks at the state of the lease, not at its time.
Abortable(l) ==
    Holding(l) /\ reservoirs[leases[l].reservoir].state = "LEASED"

Abort(l) ==
    LET r == leases[l].reservoir IN
    /\ Abortable(l)
    /\ leases' = [leases EXCEPT ![l] = EndedRow(@, "ABORTED")]
    /\ reservoirs' = [reservoirs EXCEPT ![r] = Reset(r, leases[l].from)]

Overdue == {l \in Lease : Holding(l) /\ leases[l].left = 0}

\* The first overdue row of r sets it back; it is READY for the others.
Restarted(r) ==
    LET L == {l \in Overdue : leases[l].reservoir = r} IN
    IF L = {} \/ reservoirs[r].state # "LEASED" THEN {reservoirs[r]}
    ELSE {Reset(r, leases[l].from) : l \in L}

\* Mistake: the reservoirs are freed and their leases left as they are.
RecoverReservoirs ==
    /\ reservoirs' \in {f \in [Reservoir -> UNION {Restarted(r) : r \in Reservoir}] :
                           \A r \in Reservoir : f[r] \in Restarted(r)}
    /\ UNCHANGED leases

\* recover_expired_leases
RecoverOverdue ==
    /\ leases' = [l \in Lease |-> IF l \in Overdue
                     THEN EndedRow(leases[l], "EXPIRED") ELSE leases[l]]
    /\ reservoirs' \in {f \in [Reservoir -> UNION {Restarted(r) : r \in Reservoir}] :
                           \A r \in Reservoir : f[r] \in Restarted(r)}

\* One unit of time.
Later(n) == IF n = 0 THEN 0 ELSE n - 1

TimePasses ==
    /\ leases' = [l \in Lease |-> IF Holding(l)
                     THEN [leases[l] EXCEPT !.left = Later(@)] ELSE leases[l]]
    /\ reservations' = [x \in Reservation |->
                           [reservations[x] EXCEPT !.left = Later(@)]]

-----------------------------------------------------------------------------
(* What the store promises.                                                *)

\* The nonterminal tasks and the capacity promised to live reservations never
\* exceed the capacity of the lane, however many producers reserve, convert,
\* spill over, crash and come back (EvidenceBacklogAdmission: process death
\* "cannot cause over-admission").
BacklogBounded == Occupied =< Capacity

Known(k) == tasks[k] # "none" \/ \E l \in Lease : <<k, l>> \in staged

\* A cursor only passes a chunk whose every key is a task or waits in the
\* spillover table: what a crashed or aborted lease had not routed is read
\* again (SourceProducer.run_once, finalize_lease).
NothingForgotten ==
    \A r \in Reservoir : \A c \in 0 .. End - 1 :
        c < reservoirs[r].cursor => \A k \in KeysAt[r][c] : Known(k)
=============================================================================
