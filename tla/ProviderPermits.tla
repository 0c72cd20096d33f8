-------------------------- MODULE ProviderPermits --------------------------
(***************************************************************************)
(* The permits that pace the requests of all workers to one external       *)
(* provider: issue_provider_permit, report_provider_permit and             *)
(* record_provider_region_observation of authority_store.py, and the calls *)
(* that use them, DistributedProviderGate (provider_gate.py) under         *)
(* AuthorityPermitTransport (http_transport.py).                           *)
(*                                                                         *)
(* A call acquires a permit, polling with one request id, performs its     *)
(* HTTP exchange, reports it twice at most, and leaves an observation for  *)
(* the region of its worker.  As in FabricWorker, a request to the         *)
(* authority is answered at once or becomes late: handled at any later     *)
(* time, or never, its answer unseen.                                      *)
(*                                                                         *)
(* Abstracted: the leases, which FabricAuthority models, to the set of     *)
(* workers that hold one; the response to its status and to whether it has *)
(* a byte; the calendar to one day; the budget's settings to constants.    *)
(* An operator introduced by "Mistake" is the next definition with a bug.  *)
(***************************************************************************)
EXTENDS Naturals, FiniteSets

CONSTANTS
    Worker, Region, Call,
    RegionOf,         \* RegionOf[w]: fabric_workers.region
    WorkerOf,         \* WorkerOf[c]: the worker whose process makes the call
    Ttl,              \* ttl_seconds of a permit
    Interval,         \* 1 / requests_per_second
    MaxInflight,      \* max_global_inflight
    NeedRegion,       \* require_qualified_region
    MayProbe,         \* allow_unknown_region_probe
    Reprobe,          \* region_reprobe_after_seconds
    Cooldown,         \* what throttle_floor and Retry-After may come to
    EgressBudget,     \* daily_egress_budget_bytes; 0 is no budget
    Retention,        \* retention_seconds of the garbage collector
    MaxTime,          \* bound: the clock stops here
    MaxRequests,      \* bound: requests a call may make
    MaxLate           \* bound: late requests at a time

ASSUME PermitAssumption ==
    /\ RegionOf \in [Worker -> Region]
    /\ WorkerOf \in [Call -> Worker]
    /\ Ttl \in Nat \ {0} /\ Interval \in Nat /\ MaxInflight \in Nat \ {0}
    /\ NeedRegion \in BOOLEAN /\ MayProbe \in BOOLEAN
    /\ Reprobe \in Nat \ {0} /\ Cooldown \subseteq Nat \ {0}
    /\ EgressBudget \in Nat /\ Retention \in Nat \ {0}
    /\ MaxTime \in Nat /\ MaxRequests \in Nat /\ MaxLate \in Nat

VARIABLES
    now,
    nextAt,      \* next_request_at of the provider's budget
    coolUntil,   \* cooldown_until of the provider's budget
    regions,     \* fabric_provider_regions
    permits,     \* fabric_provider_permits
    egress,      \* fabric_worker_egress_daily
    leased,      \* the workers that hold an active lease
    calls,       \* calls[c]: where the call is
    late,        \* requests whose clients have given up
    minted,      \* permits ever issued: permit ids are 1..minted
    past         \* history: what clients and authority have seen

authority == <<nextAt, coolUntil, regions, permits, egress, minted>>
vars == <<now, nextAt, coolUntil, regions, permits, egress, leased, calls,
          late, minted, past>>

Status == {"none", "ok", "throttled", "blocked"}

RegionState == {"UNKNOWN", "QUALIFIED", "UNQUALIFIED", "BLOCKED"}

Permit == [id : Nat, call : Call, req : Nat, expires : Nat, active : BOOLEAN]

CallState ==
    [phase : {"idle", "acquire", "http", "report", "again", "observe"},
     req : Nat, permit : Nat, expires : Nat, status : Status, cool : Nat]

\* Between calls nothing is kept but the number of the last request.
IdleAfter(req) == [phase |-> "idle", req |-> req, permit |-> 0, expires |-> 0,
                   status |-> "none", cool |-> 0]

TypeOK ==
    /\ now \in Nat /\ nextAt \in Nat /\ coolUntil \in Nat /\ minted \in Nat
    /\ regions \in [Region -> [state : RegionState, samples : Nat,
                               successes : Nat, failures : Nat, at : Nat]]
    /\ permits \subseteq Permit
    /\ egress \in [Worker -> Nat]
    /\ leased \subseteq Worker
    /\ calls \in [Call -> CallState]

Init ==
    /\ now = 1 /\ nextAt = 0 /\ coolUntil = 0 /\ minted = 0
    /\ regions = [r \in Region |-> [state |-> "UNKNOWN", samples |-> 0,
                                    successes |-> 0, failures |-> 0, at |-> 0]]
    /\ permits = {}
    /\ egress = [w \in Worker |-> 0]
    /\ leased = {}
    /\ calls = [c \in Call |-> IdleAfter(0)]
    /\ late = {}
    /\ past = [received |-> [w \in Worker |-> 0],
               throttledUntil |-> 0,
               qualified |-> {}]

-----------------------------------------------------------------------------
(* issue_provider_permit.  A refusal rolls back whatever it did before, the *)
(* sweep of expired permits included.                                      *)

Larger(a, b) == IF a >= b THEN a ELSE b

RegionOfCall(c) == RegionOf[WorkerOf[c]]

EgressAvailable(w) == EgressBudget = 0 \/ egress[w] < EgressBudget

Prior(c, r) == {p \in permits : p.call = c /\ p.req = r}

Live(p) == p.active /\ p.expires > now

\* Mistake: a repeated request gets a permit of its own.
NeverReplayable(c, r) == {}

\* The permit that a repeated request is answered with.
Replayable(c, r) == {p \in Prior(c, r) : Live(p)}

\* The table with the dead permit of this request removed and expired ones
\* inactive.
Swept(c, r) ==
    {[p EXCEPT !.active = Live(p)] : p \in permits \ Prior(c, r)}

Active(ps) == {p \in ps : p.active}

\* A region that was given up may be tried again after a while.
EffectiveState(r) ==
    IF /\ regions[r].state \in {"BLOCKED", "UNQUALIFIED"}
       /\ MayProbe
       /\ now >= regions[r].at + Reprobe
    THEN "UNKNOWN" ELSE regions[r].state

\* Mistake: probes are counted by worker.
RegionAdmitsByWorker(c, ps) ==
    \/ ~NeedRegion
    \/ EffectiveState(RegionOfCall(c)) = "QUALIFIED"
    \/ /\ EffectiveState(RegionOfCall(c)) = "UNKNOWN" /\ MayProbe
       /\ \A p \in Active(ps) : WorkerOf[p.call] # WorkerOf[c]

RegionAdmits(c, ps) ==
    \/ ~NeedRegion
    \/ EffectiveState(RegionOfCall(c)) = "QUALIFIED"
    \/ /\ EffectiveState(RegionOfCall(c)) = "UNKNOWN" /\ MayProbe
       /\ \A p \in Active(ps) : RegionOfCall(p.call) # RegionOfCall(c)

\* Mistake: one permit too many.
BudgetAdmitsOneMore(ps) ==
    /\ Cardinality(Active(ps)) <= MaxInflight
    /\ now >= nextAt
    /\ now >= coolUntil

BudgetAdmits(ps) ==
    /\ Cardinality(Active(ps)) < MaxInflight
    /\ now >= nextAt
    /\ now >= coolUntil

\* The permission to ask: an active lease and bytes left for the day.
MayAsk(c) == WorkerOf[c] \in leased /\ EgressAvailable(WorkerOf[c])

Mint(c, r) ==
    /\ MayAsk(c)
    /\ Replayable(c, r) = {}
    /\ RegionAdmits(c, Swept(c, r))
    /\ BudgetAdmits(Swept(c, r))
    /\ minted' = minted + 1
    /\ permits' = Swept(c, r) \cup
                    {[id |-> minted + 1, call |-> c, req |-> r,
                      expires |-> now + Ttl, active |-> TRUE]}
    /\ nextAt' = now + Interval
    /\ UNCHANGED <<coolUntil, regions, egress>>

-----------------------------------------------------------------------------
(* report_provider_permit and record_provider_region_observation.          *)

Bytes(status) == IF status = "none" THEN 0 ELSE 1

Row(id) == {p \in permits : p.id = id}

\* Mistake: the last report wins.
CooledUntilLast(cool) == IF cool = 0 THEN coolUntil ELSE now + cool

CooledUntil(cool) ==
    IF cool = 0 THEN coolUntil ELSE Larger(coolUntil, now + cool)

\* Mistake: a report is applied again when it is repeated.
SettleAgain(c, id, status, cool) ==
    \E p \in Row(id) :
       /\ permits' = (permits \ {p}) \cup {[p EXCEPT !.active = FALSE]}
       /\ coolUntil' = CooledUntil(cool)
       /\ egress' = [egress EXCEPT ![WorkerOf[c]] = @ + Bytes(status)]
       /\ past' = [past EXCEPT
                     !.throttledUntil = Larger(@, IF cool = 0 THEN 0
                                                  ELSE now + cool)]
       /\ UNCHANGED <<nextAt, regions, minted>>

\* A permit that is not active is answered and otherwise ignored.
Settle(c, id, status, cool) ==
    \E p \in Row(id) :
       /\ p.active
       /\ permits' = (permits \ {p}) \cup {[p EXCEPT !.active = FALSE]}
       /\ coolUntil' = CooledUntil(cool)
       /\ egress' = [egress EXCEPT ![WorkerOf[c]] = @ + Bytes(status)]
       /\ past' = [past EXCEPT
                     !.throttledUntil = Larger(@, IF cool = 0 THEN 0
                                                  ELSE now + cool)]
       /\ UNCHANGED <<nextAt, regions, minted>>

\* The counters of a region's row and its state.  "throttled" is 429, which
\* counts as a success and as a failure; 503, a failure only, is left out.
Observed(row, status) ==
    LET samples == row.samples + 1
        successes == row.successes + (IF status \in {"ok", "throttled"}
                                      THEN 1 ELSE 0)
        failures == row.failures + (IF status = "ok" THEN 0 ELSE 1)
    IN [state |->
          IF status = "blocked" THEN "BLOCKED"
          ELSE IF samples >= 3 /\ successes >= 2 /\ failures <= samples \div 2
          THEN "QUALIFIED"
          ELSE IF samples >= 3 /\ successes = 0 THEN "UNQUALIFIED"
          ELSE "UNKNOWN",
        samples |-> samples, successes |-> successes, failures |-> failures,
        at |-> now]

Observe(c, status) ==
    LET r == RegionOfCall(c)
        row == Observed(regions[r], status)
    IN /\ WorkerOf[c] \in leased
       /\ regions' = [regions EXCEPT ![r] = row]
       /\ past' = [past EXCEPT !.qualified = IF row.state = "QUALIFIED"
                                              THEN @ \cup {r} ELSE @]
       /\ UNCHANGED <<nextAt, coolUntil, permits, egress, minted>>

-----------------------------------------------------------------------------
(* A call.                                                                 *)

\* Mistake: a place that no call is ever at.
GotoReleased(c, phase) == calls' = [calls EXCEPT ![c].phase = "released"]

Goto(c, phase) == calls' = [calls EXCEPT ![c].phase = phase]

Leave(c) == calls' = [calls EXCEPT ![c] = IdleAfter(@.req)]

Begin(c) ==
    /\ calls[c].phase = "idle"
    /\ calls[c].req < MaxRequests
    /\ calls' = [calls EXCEPT ![c].phase = "acquire", ![c].req = @ + 1]
    /\ UNCHANGED <<authority, now, leased, late, past>>

Holding(c, p) ==
    calls' = [calls EXCEPT ![c].phase = "http", ![c].permit = p.id,
                           ![c].expires = p.expires]

\* The authority's answer is a permit, or an error that ends the call.  A
\* call that is told to wait asks again.
Acquire(c) ==
    LET r == calls[c].req IN
    /\ calls[c].phase = "acquire"
    /\ \/ /\ Mint(c, r)
          /\ \E p \in permits' : p.id = minted' /\ Holding(c, p)
       \/ /\ MayAsk(c)
          /\ \E p \in Replayable(c, r) : Holding(c, p)
          /\ UNCHANGED authority
       \/ /\ ~MayAsk(c)
          /\ Leave(c)
          /\ UNCHANGED authority
    /\ UNCHANGED <<now, leased, late, past>>

\* The response is read to its end, or the exchange failed.
HttpEnd(c, status, cool) ==
    /\ calls[c].phase = "http"
    /\ calls' = [calls EXCEPT ![c].phase = "report", ![c].status = status,
                              ![c].cool = cool]
    /\ past' = [past EXCEPT !.received[WorkerOf[c]] = @ + Bytes(status)]
    /\ UNCHANGED <<authority, now, leased, late>>

\* Settled, or an error of the authority: no such row.
Report(c) ==
    LET s == calls[c] IN
    /\ s.phase \in {"report", "again"}
    /\ \/ /\ Settle(c, s.permit, s.status, s.cool)
          /\ Goto(c, "observe")
       \/ /\ \E p \in Row(s.permit) : ~p.active
          /\ Goto(c, "observe")
          /\ UNCHANGED <<authority, past>>
       \/ /\ Row(s.permit) = {}
          /\ Leave(c)
          /\ UNCHANGED <<authority, past>>
    /\ UNCHANGED <<now, leased, late>>

Observation(c) ==
    /\ calls[c].phase = "observe"
    /\ \/ Observe(c, calls[c].status)
       \/ WorkerOf[c] \notin leased /\ UNCHANGED <<authority, past>>
    /\ Leave(c)
    /\ UNCHANGED <<now, leased, late>>

\* The request a call has under way, and where its client goes without an
\* answer.
TimeOut(c) ==
    LET s == calls[c] IN
    /\ Cardinality(late) < MaxLate
    /\ \/ /\ s.phase = "acquire"
          /\ late' = late \cup {[kind |-> "issue", call |-> c, req |-> s.req]}
          /\ UNCHANGED calls
       \/ /\ s.phase \in {"report", "again"}
          /\ late' = late \cup {[kind |-> "report", call |-> c,
                                 permit |-> s.permit, status |-> s.status,
                                 cool |-> s.cool]}
          /\ IF s.phase = "report" THEN Goto(c, "again") ELSE Leave(c)
       \/ /\ s.phase = "observe"
          /\ late' = late \cup {[kind |-> "observe", call |-> c,
                                 status |-> s.status]}
          /\ Leave(c)
    /\ UNCHANGED <<authority, now, leased, past>>

HandleLate(m) ==
    /\ \/ m.kind = "issue" /\ Mint(m.call, m.req) /\ UNCHANGED past
       \/ m.kind = "report" /\ Settle(m.call, m.permit, m.status, m.cool)
       \/ m.kind = "observe" /\ Observe(m.call, m.status)
    /\ late' = late \ {m}
    /\ UNCHANGED <<now, leased, calls>>

DropLate(m) ==
    /\ late' = late \ {m}
    /\ UNCHANGED <<authority, now, leased, calls, past>>

-----------------------------------------------------------------------------
(* Around the calls.                                                       *)

CallsOf(w) == {c \in Call : WorkerOf[c] = w}

LeaseStarts(w) ==
    /\ w \notin leased
    /\ leased' = leased \cup {w}
    /\ UNCHANGED <<authority, now, calls, late, past>>

LeaseEnds(w) ==
    /\ w \in leased
    /\ leased' = leased \ {w}
    /\ UNCHANGED <<authority, now, calls, late, past>>

\* The process dies; its permits stay until they expire.  A late request is
\* handled if the successor takes over the incarnation, and refused (DropLate)
\* if it registers a new one, which releases the lease.
Restart(w) ==
    /\ calls' = [c \in Call |->
                   IF c \in CallsOf(w) THEN IdleAfter(calls[c].req)
                                       ELSE calls[c]]
    /\ \/ UNCHANGED leased
       \/ leased' = leased \ {w}
    /\ UNCHANGED <<authority, now, late, past>>

\* The collector deletes inactive permits only.
Gc ==
    /\ permits' = {p \in permits : p.active \/ p.expires + Retention > now}
    /\ UNCHANGED <<now, nextAt, coolUntil, regions, egress, leased, calls,
                   late, minted, past>>

Tick ==
    /\ now < MaxTime
    /\ now' = now + 1
    /\ UNCHANGED <<authority, leased, calls, late, past>>

-----------------------------------------------------------------------------

CallStep(c) ==
    \/ Begin(c)
    \/ Acquire(c)
    \/ \E status \in Status \ {"throttled"} : HttpEnd(c, status, 0)
    \/ \E cool \in Cooldown : HttpEnd(c, "throttled", cool)
    \/ Report(c)
    \/ Observation(c)
    \/ TimeOut(c)

Next ==
    \/ \E c \in Call : CallStep(c)
    \/ \E m \in late : HandleLate(m) \/ DropLate(m)
    \/ \E w \in Worker : LeaseStarts(w) \/ LeaseEnds(w) \/ Restart(w)
    \/ Gc
    \/ Tick

Spec == Init /\ [][Next]_vars

-----------------------------------------------------------------------------

\* The budget bounds the permits in force, requests repeated under one id,
\* late requests and dead workers included.
PermitsWithinBudget ==
    /\ Cardinality({p \in permits : Live(p)}) <= MaxInflight
    /\ \A p, q \in permits : p.call = q.call /\ p.req = q.req => p = q

\* A permit in use is taken away by nobody before it expires: neither by a
\* repetition of the request that got it, nor by the sweep of another
\* worker's request, nor by the garbage collector.
HeldUntilExpiry ==
    \A c \in Call : calls[c].phase = "http" /\ calls[c].expires > now
       => \E p \in permits : p.id = calls[c].permit /\ p.active

\* A region that never qualified is probed by one request at a time.
ProbeAlone ==
    \A r \in Region : NeedRegion /\ r \notin past.qualified =>
       Cardinality({p \in permits : Live(p) /\ RegionOfCall(p.call) = r}) <= 1

\* The bytes of a response are counted once at most, although its report may
\* be sent twice and handled late.
EgressCountedOnce == \A w \in Worker : egress[w] <= past.received[w]

\* No permit is issued before the longest cooldown that any settled report
\* asked for has passed: a later, shorter Retry-After does not shorten it.
CooldownRespected ==
    [][minted' # minted => now >= past.throttledUntil]_vars
=============================================================================
