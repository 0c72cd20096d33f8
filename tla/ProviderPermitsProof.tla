------------------------ MODULE ProviderPermitsProof ------------------------
(***************************************************************************)
(* The safety of permits, for any number of workers, regions and calls.    *)
(* PermitInv is inductive.                                                 *)
(*                                                                         *)
(* HeldUntilExpiry needs to know whose a permit is (OwnOk) and that a late *)
(* report is about a request its call has done with (LateOk).  For         *)
(* EgressCountedOnce, the bytes that active permits still owe are counted  *)
(* with the bytes already counted (EgressOk).                              *)
(***************************************************************************)
EXTENDS ProviderPermits, FiniteSetTheorems, TLAPS

Late ==
    [kind : {"issue"}, call : Call, req : Nat]
    \cup [kind : {"report"}, call : Call, permit : Nat, status : Status, cool : Nat]
    \cup [kind : {"observe"}, call : Call, status : Status]

Past == [received : [Worker -> Nat], throttledUntil : Nat, qualified : SUBSET Region]

Types == TypeOK /\ late \subseteq Late /\ past \in Past

TableOk ==
    /\ IsFiniteSet(permits)
    /\ \A p \in permits : p.id <= minted
    /\ \A p, q \in permits : p.id = q.id => p = q
    /\ \A p, q \in permits : p.call = q.call /\ p.req = q.req => p = q
    /\ Cardinality(Active(permits)) <= MaxInflight

CoolOk == past.throttledUntil <= coolUntil

RegionOk == \A r \in Region : regions[r].state = "QUALIFIED" => r \in past.qualified

ProbeOk == NeedRegion =>
    \A p, q \in Active(permits) :
        RegionOfCall(p.call) = RegionOfCall(q.call)
        /\ RegionOfCall(p.call) \notin past.qualified => p = q

StoreOk == TableOk /\ CoolOk /\ RegionOk /\ ProbeOk

\* The permit a call uses or reports is its own.
OwnOk(c) ==
    calls[c].phase \in {"http", "report", "again"} =>
       /\ calls[c].permit <= minted
       /\ \A p \in permits : p.id = calls[c].permit => p.call = c /\ p.req = calls[c].req

HeldOk(c) ==
    calls[c].phase = "http" /\ calls[c].expires > now =>
       \E p \in permits : /\ p.id = calls[c].permit /\ p.active
                          /\ p.expires = calls[c].expires

Done == {"again", "observe", "idle"}

LateOk(m) ==
    m.kind = "report" =>
       /\ m.permit <= minted
       /\ \A p \in permits : p.id = m.permit =>
             /\ p.call = m.call
             /\ p.req <= calls[p.call].req
             /\ p.req = calls[p.call].req => calls[p.call].phase \in Done

\* A report with bytes of permit i is under way.
Reported(i) ==
    \/ \E c \in Call : /\ calls[c].phase \in {"report", "again"}
                       /\ calls[c].permit = i /\ calls[c].status # "none"
    \/ \E m \in late : m.kind = "report" /\ m.permit = i /\ m.status # "none"

Owed(w) == {p \in permits : p.active /\ WorkerOf[p.call] = w /\ Reported(p.id)}

EgressOk == \A w \in Worker : egress[w] + Cardinality(Owed(w)) <= past.received[w]

PermitInv ==
    /\ Types /\ StoreOk /\ EgressOk
    /\ \A c \in Call : OwnOk(c) /\ HeldOk(c)
    /\ \A m \in late : LateOk(m)

-----------------------------------------------------------------------------
(* What a step does to the permits.                                        *)

Same(p, q) == p.id = q.id /\ p.call = q.call /\ p.req = q.req /\ p.expires = q.expires

\* Permits are as before, or inactive, or gone; those of N are new.
Fades(N) ==
    /\ minted' \in Nat /\ minted <= minted'
    /\ \A p \in N : p.id > minted
    /\ \A p \in permits' : p \in N \/ \E q \in permits : Same(p, q) /\ (p.active => p = q)

\* The permits in force are untouched, but for those with identity i.
KeepsLive(i) == \A p \in permits : Live(p) /\ p.id # i => p \in permits'

\* A call does not come back to a request it has done with.
Advances ==
    \A c \in Call :
       \/ calls'[c].req > calls[c].req
       \/ /\ calls'[c].req = calls[c].req
          /\ calls[c].phase \in Done => calls'[c].phase \in Done

LEMMA PermitFacts ==
    ASSUME NEW p \in Permit
    PROVE  /\ p.id \in Nat /\ p.call \in Call /\ p.req \in Nat /\ p.expires \in Nat
           /\ p.active \in BOOLEAN
  BY DEF Permit

LEMMA CallFacts ==
    ASSUME Types, NEW c \in Call
    PROVE  /\ calls[c] \in CallState /\ calls[c].req \in Nat /\ calls[c].permit \in Nat
           /\ calls[c].expires \in Nat /\ calls[c].status \in Status /\ calls[c].cool \in Nat
           /\ calls[c].phase \in {"idle", "acquire", "http", "report", "again", "observe"}
           /\ WorkerOf[c] \in Worker /\ RegionOfCall(c) \in Region
  BY PermitAssumption DEF Types, TypeOK, CallState, RegionOfCall

LEMMA LateFacts ==
    ASSUME Types, NEW m \in late
    PROVE  /\ m.call \in Call /\ m.kind \in {"issue", "report", "observe"}
           /\ m.kind = "issue" => m.req \in Nat
           /\ m.kind = "report" => m.permit \in Nat /\ m.status \in Status /\ m.cool \in Nat
           /\ m.kind = "observe" => m.status \in Status
  BY DEF Types, Late

LEMMA SweptOne ==
    ASSUME Types, NEW p \in permits
    PROVE  LET s == [p EXCEPT !.active = Live(p)] IN
           s \in Permit /\ Same(s, p) /\ s.active = Live(p) /\ (Live(p) => s = p)
<1> DEFINE s == [p EXCEPT !.active = Live(p)]
<1>1. p \in Permit /\ Live(p) \in BOOLEAN
  BY DEF Types, TypeOK, Live, Permit
<1>2. s \in Permit /\ s.active = Live(p)
      /\ s.id = p.id /\ s.call = p.call /\ s.req = p.req /\ s.expires = p.expires
  BY <1>1 DEF Permit
<1>3. ASSUME Live(p)
      PROVE  s = p
  <2>1. p.active = TRUE
    BY <1>1, <1>3 DEF Live, Permit
  <2> QED
    BY <1>1, <1>3, <2>1 DEF Permit
<1> QED
  BY <1>2, <1>3 DEF Same

LEMMA SweptFacts ==
    ASSUME Types, TableOk, NEW c \in Call, NEW r \in Nat
    PROVE  /\ Swept(c, r) \subseteq Permit /\ IsFiniteSet(Swept(c, r))
           /\ \A s \in Swept(c, r) : \E p \in permits :
                 /\ Same(s, p) /\ (s.active => s = p) /\ p \notin Prior(c, r)
           /\ \A p \in permits : Live(p) /\ p \notin Prior(c, r) => p \in Swept(c, r)
<1> DEFINE Fade(p) == [p EXCEPT !.active = Live(p)]
           Rest == permits \ Prior(c, r)
<1>1. Swept(c, r) = {Fade(p) : p \in Rest}
  BY DEF Swept
<1>2. IsFiniteSet(Swept(c, r))
  <2>1. IsFiniteSet(Rest)
    BY FS_Subset DEF TableOk
  <2> DEFINE f == [p \in Rest |-> Fade(p)]
  <2> HIDE DEF Fade
  <2>2. f \in Surjection(Rest, Swept(c, r))
    BY <1>1 DEF Surjection
  <2> HIDE DEF f
  <2> QED
    BY <2>1, <2>2, FS_Surjection
<1>3. \A p \in Rest : Fade(p) \in Permit /\ Same(Fade(p), p) /\ Fade(p).active = Live(p)
                      /\ (Live(p) => Fade(p) = p)
  BY SweptOne
<1> HIDE DEF Fade
<1>4. \A s \in Swept(c, r) : \E p \in permits :
          /\ Same(s, p) /\ (s.active => s = p) /\ p \notin Prior(c, r)
  BY <1>1, <1>3
<1>5. \A p \in permits : Live(p) /\ p \notin Prior(c, r) => p \in Swept(c, r)
  BY <1>1, <1>3
<1>6. Swept(c, r) \subseteq Permit
  BY <1>1, <1>3
<1> QED
  BY <1>2, <1>4, <1>5, <1>6

-----------------------------------------------------------------------------
(* Issuing, settling, collecting and observing, as to the tables.          *)

StoreTypes ==
    /\ now \in Nat /\ nextAt \in Nat /\ coolUntil \in Nat /\ minted \in Nat
    /\ regions \in [Region -> [state : RegionState, samples : Nat,
                               successes : Nat, failures : Nat, at : Nat]]
    /\ permits \subseteq Permit
    /\ egress \in [Worker -> Nat]
    /\ past \in Past

LEMMA MintOk ==
    ASSUME Types, StoreOk, NEW c \in Call, NEW r \in Nat, Mint(c, r),
           past' = past, now' = now
    PROVE  /\ StoreTypes' /\ StoreOk' /\ egress' = egress /\ minted' = minted + 1
           /\ \E new \in permits' :
                 /\ new.id = minted' /\ new.call = c /\ new.req = r /\ new.active
                 /\ \A p \in permits' : p.id = minted' => p = new
                 /\ Fades({new})
           /\ \A p \in permits : Live(p) => p \in permits'
<1> DEFINE S == Swept(c, r)
           new == [id |-> minted + 1, call |-> c, req |-> r,
                   expires |-> now + Ttl, active |-> TRUE]
<1>0. /\ minted \in Nat /\ now \in Nat /\ permits \subseteq Permit /\ Ttl \in Nat
      /\ MaxInflight \in Nat /\ TableOk /\ Interval \in Nat
  BY PermitAssumption DEF Types, TypeOK, StoreOk
<1>1. new \in Permit
  BY <1>0 DEF Permit
<1>2. /\ new.id = minted + 1 /\ new.call = c /\ new.req = r /\ new.active
  OBVIOUS
<1>3. /\ permits' = S \cup {new} /\ minted' = minted + 1 /\ nextAt' = now + Interval
      /\ UNCHANGED <<coolUntil, regions, egress>>
      /\ Replayable(c, r) = {} /\ RegionAdmits(c, S) /\ Cardinality(Active(S)) < MaxInflight
  BY DEF Mint, BudgetAdmits
<1>4. /\ S \subseteq Permit /\ IsFiniteSet(S)
      /\ \A s \in S : \E p \in permits :
            /\ Same(s, p) /\ (s.active => s = p) /\ p \notin Prior(c, r)
      /\ \A p \in permits : Live(p) /\ p \notin Prior(c, r) => p \in S
  BY <1>0, SweptFacts
<1> HIDE DEF S, new
<1>5. StoreTypes'
  BY <1>0, <1>1, <1>3, <1>4 DEF StoreTypes, Types, TypeOK
<1>6. \A s \in S : s.id <= minted /\ s.id # new.id /\ s # new
  <2>1. SUFFICES ASSUME NEW s \in S
                 PROVE  s.id <= minted
    BY <1>0, <1>2, <1>4 DEF Permit
  <2>2. PICK p \in permits : Same(s, p)
    BY <1>4
  <2> QED
    BY <1>0, <2>2 DEF TableOk, Same
<1>7. Fades({new})
  BY <1>0, <1>2, <1>3, <1>4 DEF Fades
<1>8. \A p \in permits : Live(p) => p \in permits'
  BY <1>3, <1>4 DEF Replayable
<1>9. \A p \in permits' : p.active => p = new \/ (p \in permits /\ p \in S)
  BY <1>3, <1>4
<1>10. TableOk'
  <2>1. IsFiniteSet(permits')
    BY <1>3, <1>4, FS_AddElement
  <2>2. \A p \in permits' : p.id <= minted'
    BY <1>0, <1>2, <1>3, <1>4, <1>6 DEF Permit
  <2>3. ASSUME NEW s \in S, NEW t \in S,
               s.id = t.id \/ (s.call = t.call /\ s.req = t.req)
        PROVE  s = t
    <3>1. PICK p \in permits \ Prior(c, r) : s = [p EXCEPT !.active = Live(p)]
      BY DEF S, Swept
    <3>2. PICK q \in permits \ Prior(c, r) : t = [q EXCEPT !.active = Live(q)]
      BY DEF S, Swept
    <3>3. Same(s, p) /\ Same(t, q)
      BY <3>1, <3>2, SweptOne
    <3>4. p = q
      BY <1>0, <2>3, <3>3 DEF TableOk, Same
    <3> QED
      BY <3>1, <3>2, <3>4
  <2>4. \A s \in S : ~(s.call = c /\ s.req = r)
    BY <1>4 DEF Prior, Same
  <2>5. \A p, q \in permits' : p.id = q.id => p = q
    BY <1>3, <1>6, <2>3
  <2>6. \A p, q \in permits' : p.call = q.call /\ p.req = q.req => p = q
    BY <1>2, <1>3, <2>3, <2>4
  <2>7. Cardinality(Active(permits)') <= MaxInflight
    <3>1. Active(permits)' = Active(S) \cup {new}
      BY <1>2, <1>3 DEF Active
    <3>2. IsFiniteSet(Active(S)) /\ Cardinality(Active(S)) \in Nat
      BY <1>4, FS_Subset, FS_CardinalityType DEF Active
    <3> DEFINE old == Active(S)
    <3> HIDE DEF old
    <3>3. IsFiniteSet(old) /\ Cardinality(old) \in Nat /\ Cardinality(old) < MaxInflight
      BY <1>3, <3>2 DEF old
    <3>4. Cardinality(old \cup {new}) =
             IF new \in old THEN Cardinality(old) ELSE Cardinality(old) + 1
      BY <3>3, FS_AddElement
    <3>5. Cardinality(old \cup {new}) <= MaxInflight
      BY <1>0, <3>3, <3>4
    <3> QED
      BY <3>1, <3>5 DEF old
  <2> QED
    BY <2>1, <2>2, <2>5, <2>6, <2>7 DEF TableOk
<1>11. ProbeOk'
  <2>1. SUFFICES ASSUME NeedRegion, NEW p \in permits', NEW q \in permits', p.active, q.active,
                        RegionOfCall(p.call) = RegionOfCall(q.call),
                        RegionOfCall(p.call) \notin past.qualified
                 PROVE  p = q
    BY DEF ProbeOk, Active
  <2>2. RegionOfCall(c) \in Region
    BY CallFacts
  <2>3. RegionOfCall(c) \in past.qualified
        \/ \A s \in S : s.active => RegionOfCall(s.call) # RegionOfCall(c)
    BY <1>3, <2>1, <2>2 DEF RegionAdmits, EffectiveState, StoreOk, RegionOk, Active
  <2> QED
    BY <1>2, <1>9, <2>1, <2>3 DEF StoreOk, ProbeOk, Active
<1>12. StoreOk'
  BY <1>3, <1>10, <1>11 DEF StoreOk, CoolOk, RegionOk
<1>13. /\ new \in permits' /\ new.id = minted' /\ new.active
       /\ \A p \in permits' : p.id = minted' => p = new
  BY <1>2, <1>3, <1>6
<1> QED
  BY <1>2, <1>3, <1>5, <1>7, <1>8, <1>12, <1>13

LEMMA SettleOk ==
    ASSUME Types, StoreOk, NEW c \in Call, NEW id \in Nat, NEW status \in Status,
           NEW cool \in Nat, Settle(c, id, status, cool), now' = now
    PROVE  /\ StoreTypes' /\ StoreOk' /\ minted' = minted
           /\ Fades({}) /\ KeepsLive(id)
           /\ egress' = [egress EXCEPT ![WorkerOf[c]] = @ + Bytes(status)]
           /\ past'.received = past.received
           /\ \E p \in permits :
                 /\ p.id = id /\ p.active
                 /\ \A q \in permits' : q.active => q \in permits /\ q # p
<1>1. PICK p \in permits :
         /\ p.id = id /\ p.active
         /\ permits' = (permits \ {p}) \cup {[p EXCEPT !.active = FALSE]}
         /\ coolUntil' = CooledUntil(cool)
         /\ egress' = [egress EXCEPT ![WorkerOf[c]] = @ + Bytes(status)]
         /\ past' = [past EXCEPT
                       !.throttledUntil = Larger(@, IF cool = 0 THEN 0 ELSE now + cool)]
         /\ UNCHANGED <<nextAt, regions, minted>>
  BY DEF Settle, Row
<1>0. /\ minted \in Nat /\ now \in Nat /\ permits \subseteq Permit /\ p \in Permit
      /\ TableOk /\ past \in Past /\ coolUntil \in Nat /\ WorkerOf[c] \in Worker
      /\ egress \in [Worker -> Nat] /\ Bytes(status) \in Nat
  BY CallFacts DEF Types, TypeOK, StoreOk, Bytes
<1> DEFINE s == [p EXCEPT !.active = FALSE]
<1>2. s \in Permit /\ Same(s, p) /\ s.active = FALSE
  BY <1>0 DEF Permit, Same
<1>3. permits' = (permits \ {p}) \cup {s}
  BY <1>1
<1> HIDE DEF s
<1> DEFINE t == Larger(past.throttledUntil, IF cool = 0 THEN 0 ELSE now + cool)
<1>4. t \in Nat /\ coolUntil' \in Nat /\ (past.throttledUntil <= coolUntil => t <= coolUntil')
  BY <1>0, <1>1 DEF Larger, CooledUntil, Past
<1>5. /\ past' \in Past /\ past'.received = past.received
      /\ past'.qualified = past.qualified /\ past'.throttledUntil = t
  <2>1. past' = [past EXCEPT !.throttledUntil = t]
    BY <1>1
  <2> HIDE DEF t
  <2> QED
    BY <1>0, <1>4, <2>1 DEF Past
<1> HIDE DEF t
<1>6. StoreTypes'
  BY <1>0, <1>1, <1>2, <1>3, <1>4, <1>5 DEF StoreTypes, Types, TypeOK
<1>7. \A q \in permits' : (q \in permits /\ q # p) \/ q = s
  BY <1>3
<1>8. Fades({})
  BY <1>0, <1>1, <1>2, <1>7 DEF Fades, Same
<1>9. KeepsLive(id)
  BY <1>1, <1>3 DEF KeepsLive
<1>10. \A q \in permits' : q.active => q \in permits /\ q # p
  BY <1>2, <1>7
<1>11. TableOk'
  <2>1. IsFiniteSet(permits')
    BY <1>0, <1>3, FS_RemoveElement, FS_AddElement DEF TableOk
  <2>2. Cardinality(Active(permits)') <= MaxInflight
    <3>1. Active(permits)' \subseteq Active(permits)
      BY <1>10 DEF Active
    <3>2. IsFiniteSet(Active(permits)) /\ Cardinality(Active(permits)) \in Nat
      BY <1>0, FS_Subset, FS_CardinalityType DEF Active, TableOk
    <3>3. /\ Cardinality(Active(permits)') <= Cardinality(Active(permits))
          /\ Cardinality(Active(permits)') \in Nat
      BY <3>1, <3>2, FS_Subset, FS_CardinalityType
    <3> QED
      BY <1>0, <3>2, <3>3, PermitAssumption DEF TableOk
  <2>3. \A q \in permits' : \E o \in permits : Same(q, o) /\ (q # s => q = o) /\ (q = s => o = p)
    BY <1>2, <1>7 DEF Same
  <2>4. \A q, o \in permits' : q.id = o.id => q = o
    BY <1>0, <2>3, <1>2, <1>7 DEF TableOk, Same
  <2>5. \A q, o \in permits' : q.call = o.call /\ q.req = o.req => q = o
    BY <1>0, <2>3, <1>2, <1>7 DEF TableOk, Same
  <2>6. \A q \in permits' : q.id <= minted'
    BY <1>0, <1>1, <2>3 DEF TableOk, Same
  <2> QED
    BY <2>1, <2>2, <2>4, <2>5, <2>6 DEF TableOk
<1>12. StoreOk'
  BY <1>1, <1>4, <1>5, <1>10, <1>11 DEF StoreOk, CoolOk, RegionOk, ProbeOk, Active
<1> QED
  BY <1>1, <1>5, <1>6, <1>8, <1>9, <1>10, <1>12

LEMMA GcOk ==
    ASSUME Types, StoreOk, Gc
    PROVE  StoreTypes' /\ StoreOk' /\ Fades({}) /\ (\A p \in permits : Live(p) => p \in permits')
<1>1. /\ permits' \subseteq permits /\ \A p \in permits : p.active => p \in permits'
      /\ UNCHANGED <<now, nextAt, coolUntil, regions, egress, minted, past>>
  BY DEF Gc
<1>2. StoreTypes'
  BY <1>1 DEF StoreTypes, Types, TypeOK
<1>3. Fades({})
  BY <1>1 DEF Fades, Same, Types, TypeOK
<1>4. TableOk'
  <2>1. IsFiniteSet(permits')
    BY <1>1, FS_Subset DEF StoreOk, TableOk
  <2>2. Active(permits)' = Active(permits)
    BY <1>1 DEF Active
  <2> QED
    BY <1>1, <2>1, <2>2 DEF StoreOk, TableOk
<1>5. StoreOk'
  BY <1>1, <1>4 DEF StoreOk, CoolOk, RegionOk, ProbeOk, Active
<1> QED
  BY <1>1, <1>2, <1>3, <1>5 DEF Live

LEMMA ObserveOk ==
    ASSUME Types, StoreOk, NEW c \in Call, NEW status \in Status, Observe(c, status), now' = now
    PROVE  /\ StoreTypes' /\ StoreOk' /\ permits' = permits /\ minted' = minted /\ egress' = egress
           /\ past'.received = past.received
<1> DEFINE r == RegionOfCall(c)
           row == Observed(regions[r], status)
           q == IF row.state = "QUALIFIED" THEN past.qualified \cup {r} ELSE past.qualified
<1>1. /\ regions' = [regions EXCEPT ![r] = row]
      /\ past' = [past EXCEPT !.qualified = q]
      /\ UNCHANGED <<nextAt, coolUntil, permits, egress, minted>>
  BY DEF Observe
<1>2. r \in Region
  BY CallFacts
<1>3. row \in [state : RegionState, samples : Nat, successes : Nat, failures : Nat, at : Nat]
  <2>1. /\ regions[r].samples + 1 \in Nat
        /\ regions[r].successes + (IF status \in {"ok", "throttled"} THEN 1 ELSE 0) \in Nat
        /\ regions[r].failures + (IF status = "ok" THEN 0 ELSE 1) \in Nat /\ now \in Nat
    BY <1>2 DEF Types, TypeOK
  <2> QED
    BY <2>1 DEF Observed, RegionState
<1> HIDE DEF row
<1>4. q \subseteq Region /\ past.qualified \subseteq q /\ (row.state = "QUALIFIED" => r \in q)
  BY <1>2 DEF Types, Past
<1> HIDE DEF q
<1>5. /\ past' \in Past /\ past'.received = past.received /\ past'.qualified = q
      /\ past'.throttledUntil = past.throttledUntil
  BY <1>1, <1>4 DEF Types, Past
<1>6. StoreTypes'
  BY <1>1, <1>2, <1>3, <1>5 DEF StoreTypes, Types, TypeOK
<1>7. RegionOk'
  BY <1>1, <1>2, <1>4, <1>5 DEF RegionOk, StoreOk, Types, TypeOK
<1>8. ProbeOk'
  BY <1>1, <1>4, <1>5 DEF ProbeOk, StoreOk, Active
<1>9. StoreOk'
  BY <1>1, <1>5, <1>7, <1>8 DEF StoreOk, TableOk, CoolOk, Active
<1> QED
  BY <1>1, <1>5, <1>6, <1>9

-----------------------------------------------------------------------------
(* What the rest of the invariant needs of a step.                         *)

\* A permit that a call uses stays in force.
UseKept(c) ==
    calls[c].phase = "http" =>
        \A p \in permits : Live(p) /\ p.id = calls[c].permit => p \in permits'

NoNewReport == \A i \in Nat : Reported(i)' => Reported(i)

LEMMA OwnKept ==
    ASSUME Types, NEW N, Fades(N), NEW c \in Call, OwnOk(c), calls'[c] = calls[c]
    PROVE  OwnOk(c)'
<1>1. SUFFICES ASSUME calls[c].phase \in {"http", "report", "again"}
               PROVE  /\ calls[c].permit <= minted'
                      /\ \A p \in permits' : p.id = calls[c].permit =>
                            p.call = c /\ p.req = calls[c].req
  BY DEF OwnOk
<1>2. calls[c].permit \in Nat /\ calls[c].permit <= minted /\ minted \in Nat /\ minted' \in Nat
  BY <1>1, CallFacts DEF OwnOk, Types, TypeOK, Fades
<1>3. ASSUME NEW p \in permits', p.id = calls[c].permit
      PROVE  p.call = c /\ p.req = calls[c].req
  <2>1. p \notin N
    BY <1>2, <1>3 DEF Fades
  <2>2. PICK q \in permits : Same(p, q)
    BY <2>1 DEF Fades
  <2> QED
    BY <1>1, <1>3, <2>2 DEF OwnOk, Same
<1> QED
  BY <1>2, <1>3 DEF Fades

LEMMA HeldKept ==
    ASSUME Types, NEW c \in Call, HeldOk(c), UseKept(c), calls'[c] = calls[c],
           now' \in Nat, now <= now'
    PROVE  HeldOk(c)'
<1>1. SUFFICES ASSUME calls[c].phase = "http", calls[c].expires > now'
               PROVE  \E p \in permits' : /\ p.id = calls[c].permit /\ p.active
                                          /\ p.expires = calls[c].expires
  BY DEF HeldOk
<1>2. calls[c].expires > now
  BY <1>1, CallFacts DEF Types, TypeOK
<1>3. PICK p \in permits : /\ p.id = calls[c].permit /\ p.active
                           /\ p.expires = calls[c].expires
  BY <1>1, <1>2 DEF HeldOk
<1>4. p \in permits'
  BY <1>1, <1>2, <1>3 DEF UseKept, Live
<1> QED
  BY <1>3, <1>4

LEMMA LateKept ==
    ASSUME Types, calls' \in [Call -> CallState], NEW N, Fades(N), Advances,
           NEW m \in late, LateOk(m)
    PROVE  LateOk(m)'
<1>1. SUFFICES ASSUME m.kind = "report"
               PROVE  /\ m.permit <= minted'
                      /\ \A p \in permits' : p.id = m.permit =>
                            /\ p.call = m.call
                            /\ p.req <= calls'[p.call].req
                            /\ p.req = calls'[p.call].req => calls'[p.call].phase \in Done
  BY DEF LateOk
<1>2. m.permit \in Nat /\ m.permit <= minted /\ minted \in Nat /\ minted' \in Nat
  BY <1>1, LateFacts DEF LateOk, Types, TypeOK, Fades
<1>3. ASSUME NEW p \in permits', p.id = m.permit
      PROVE  /\ p.call = m.call
             /\ p.req <= calls'[p.call].req
             /\ p.req = calls'[p.call].req => calls'[p.call].phase \in Done
  <2>1. p \notin N
    BY <1>2, <1>3 DEF Fades
  <2>2. PICK q \in permits : Same(p, q)
    BY <2>1 DEF Fades
  <2>3. /\ p.call = m.call /\ p.req <= calls[m.call].req
        /\ p.req = calls[m.call].req => calls[m.call].phase \in Done
    BY <1>1, <1>3, <2>2 DEF LateOk, Same
  <2>4. m.call \in Call /\ p.req \in Nat
    BY <2>2, LateFacts DEF Same, Types, TypeOK, Permit
  <2>5. calls[m.call].req \in Nat /\ calls'[m.call].req \in Nat
    BY <2>4, CallFacts DEF CallState
  <2> QED
    BY <2>3, <2>4, <2>5 DEF Advances
<1> QED
  BY <1>2, <1>3 DEF Fades

LEMMA Assemble ==
    ASSUME PermitInv, NEW N, Fades(N), StoreTypes', StoreOk', EgressOk',
           leased' \subseteq Worker, calls' \in [Call -> CallState], Advances, now <= now',
           \A c \in Call : \/ calls'[c] = calls[c] /\ UseKept(c)
                           \/ OwnOk(c)' /\ HeldOk(c)',
           late' \subseteq Late, \A m \in late' : m \in late \/ LateOk(m)'
    PROVE  PermitInv'
<1>1. Types'
  BY DEF Types, TypeOK, StoreTypes
<1>2. ASSUME NEW c \in Call
      PROVE  OwnOk(c)' /\ HeldOk(c)'
  <2>1. CASE calls'[c] = calls[c] /\ UseKept(c)
    BY <2>1, OwnKept, HeldKept DEF PermitInv, StoreTypes
  <2> QED
    BY <2>1
<1>3. \A m \in late' : LateOk(m)'
  BY LateKept DEF PermitInv
<1> QED
  BY <1>1, <1>2, <1>3 DEF PermitInv

\* A permit whose report is under way has been issued.
LEMMA ReportedOld ==
    ASSUME PermitInv, NEW i \in Nat, Reported(i)
    PROVE  i <= minted
  BY DEF PermitInv, Reported, OwnOk, LateOk

LEMMA OwedFinite ==
    ASSUME PermitInv, NEW w \in Worker
    PROVE  IsFiniteSet(Owed(w)) /\ Cardinality(Owed(w)) \in Nat
  BY FS_Subset, FS_CardinalityType DEF PermitInv, StoreOk, TableOk, Owed

LEMMA OwedShrinks ==
    ASSUME PermitInv, NEW N, Fades(N), StoreTypes', NoNewReport, NEW w \in Worker
    PROVE  Owed(w)' \subseteq Owed(w)
<1>1. SUFFICES ASSUME NEW p \in permits', p.active, WorkerOf[p.call] = w, Reported(p.id)'
               PROVE  p \in Owed(w)
  BY DEF Owed
<1>2. p.id \in Nat
  BY DEF StoreTypes, Permit
<1>3. Reported(p.id)
  <2>1. PICK i \in Nat : i = p.id
    BY <1>2
  <2>2. Reported(i)'
    BY <1>1, <2>1 DEF Reported
  <2> QED
    BY <2>1, <2>2 DEF NoNewReport
<1>4. p \notin N
  BY <1>2, <1>3, ReportedOld DEF Fades, PermitInv, Types, TypeOK
<1> QED
  BY <1>1, <1>3, <1>4 DEF Fades, Owed

LEMMA EgressKept ==
    ASSUME PermitInv, NEW N, Fades(N), StoreTypes', NoNewReport, egress' = egress,
           past'.received = past.received
    PROVE  EgressOk'
<1>1. SUFFICES ASSUME NEW w \in Worker
               PROVE  egress'[w] + Cardinality(Owed(w)') <= past'.received[w]
  BY DEF EgressOk
<1>2. Owed(w)' \subseteq Owed(w)
  BY OwedShrinks
<1>3. /\ IsFiniteSet(Owed(w)) /\ Cardinality(Owed(w)) \in Nat
      /\ Cardinality(Owed(w)') \in Nat /\ Cardinality(Owed(w)') <= Cardinality(Owed(w))
  BY <1>2, OwedFinite, FS_Subset, FS_CardinalityType
<1>4. egress[w] \in Nat /\ past.received[w] \in Nat
      /\ egress[w] + Cardinality(Owed(w)) <= past.received[w]
  BY DEF PermitInv, EgressOk, Types, TypeOK, Past
<1> QED
  BY <1>3, <1>4

\* A report is settled: its bytes are no longer owed.
LEMMA EgressSettled ==
    ASSUME PermitInv, Fades({}), StoreTypes', NoNewReport,
           NEW c \in Call, NEW status \in Status,
           egress' = [egress EXCEPT ![WorkerOf[c]] = @ + Bytes(status)],
           past'.received = past.received,
           NEW p \in permits, p.active, p.call = c,
           status # "none" => Reported(p.id),
           \A q \in permits' : q.active => q \in permits /\ q # p
    PROVE  EgressOk'
<1>1. SUFFICES ASSUME NEW w \in Worker
               PROVE  egress'[w] + Cardinality(Owed(w)') <= past'.received[w]
  BY DEF EgressOk
<1>2. Owed(w)' \subseteq Owed(w) \ {p}
  BY OwedShrinks DEF Owed
<1>3. /\ IsFiniteSet(Owed(w)) /\ Cardinality(Owed(w)) \in Nat
      /\ egress[w] \in Nat /\ past.received[w] \in Nat
      /\ egress[w] + Cardinality(Owed(w)) <= past.received[w]
  BY OwedFinite DEF PermitInv, EgressOk, Types, TypeOK, Past
<1> DEFINE owed == Owed(w)
           owedNext == Owed(w)'
<1> HIDE DEF owed, owedNext
<1>4. /\ IsFiniteSet(owed \ {p}) /\ Cardinality(owed \ {p}) \in Nat
      /\ Cardinality(owedNext) <= Cardinality(owed \ {p})
      /\ Cardinality(owedNext) \in Nat
  <2>1. IsFiniteSet(owed) /\ owedNext \subseteq owed \ {p}
    BY <1>2, <1>3 DEF owed, owedNext
  <2>2. IsFiniteSet(owed \ {p})
    BY <2>1, FS_RemoveElement
  <2> QED
    BY <2>1, <2>2, FS_Subset, FS_CardinalityType
<1>5. Cardinality(owed \ {p}) = IF p \in owed THEN Cardinality(owed) - 1 ELSE Cardinality(owed)
  BY <1>3, FS_RemoveElement DEF owed
<1>6. egress'[w] = IF w = WorkerOf[c] THEN egress[w] + Bytes(status) ELSE egress[w]
  BY DEF PermitInv, Types, TypeOK
<1>7. w = WorkerOf[c] /\ Bytes(status) # 0 => p \in owed
  BY DEF owed, Owed, Bytes
<1>8. Bytes(status) \in {0, 1}
  BY DEF Bytes
<1>9. /\ Cardinality(owed) \in Nat /\ egress[w] + Cardinality(owed) <= past.received[w]
  BY <1>3 DEF owed
<1>10. egress'[w] + Cardinality(owedNext) <= past.received[w]
  <2>1. CASE w = WorkerOf[c] /\ Bytes(status) # 0
    BY <1>3, <1>4, <1>5, <1>6, <1>7, <1>8, <1>9, <2>1
  <2>2. CASE ~(w = WorkerOf[c] /\ Bytes(status) # 0)
    BY <1>3, <1>4, <1>5, <1>6, <1>8, <1>9, <2>2
  <2> QED
    BY <2>1, <2>2
<1> QED
  BY <1>10 DEF owedNext

\* The bytes of a response are received, and owed by its permit at most.
LEMMA EgressReceived ==
    ASSUME PermitInv, NEW c \in Call, NEW status \in Status, calls[c].phase = "http",
           UNCHANGED <<permits, egress>>,
           past' = [past EXCEPT !.received[WorkerOf[c]] = @ + Bytes(status)],
           \A i \in Nat : Reported(i)' =>
               Reported(i) \/ (i = calls[c].permit /\ status # "none")
    PROVE  EgressOk'
<1>1. SUFFICES ASSUME NEW w \in Worker
               PROVE  egress[w] + Cardinality(Owed(w)') <= past'.received[w]
  BY DEF EgressOk
<1>2. /\ WorkerOf[c] \in Worker /\ past.received \in [Worker -> Nat] /\ past \in Past
      /\ permits \subseteq Permit /\ Bytes(status) \in {0, 1}
  BY CallFacts DEF PermitInv, Types, TypeOK, Past, Bytes
<1>3. past'.received[w] = IF w = WorkerOf[c] THEN past.received[w] + Bytes(status)
                          ELSE past.received[w]
  <2>1. past'.received = [past.received EXCEPT ![WorkerOf[c]] = @ + Bytes(status)]
    BY <1>2 DEF Past
  <2> QED
    BY <1>2, <2>1
<1>4. /\ IsFiniteSet(Owed(w)) /\ Cardinality(Owed(w)) \in Nat
      /\ egress[w] \in Nat /\ past.received[w] \in Nat
      /\ egress[w] + Cardinality(Owed(w)) <= past.received[w]
  BY OwedFinite DEF PermitInv, EgressOk, Types, TypeOK, Past
<1>5. \A p \in Owed(w)' : p \in Owed(w) \/ (/\ p \in permits /\ p.id = calls[c].permit
                                            /\ w = WorkerOf[c] /\ status # "none")
  <2>1. SUFFICES ASSUME NEW p \in permits, p.active, WorkerOf[p.call] = w,
                        Reported(p.id)', p \notin Owed(w)
                 PROVE  p.id = calls[c].permit /\ w = WorkerOf[c] /\ status # "none"
    BY DEF Owed
  <2>2. PICK i \in Nat : i = p.id
    BY <1>2 DEF Permit
  <2>3. Reported(i)' /\ ~Reported(i)
    BY <2>1, <2>2 DEF Owed, Reported
  <2>4. p.id = calls[c].permit /\ status # "none"
    BY <2>2, <2>3
  <2> QED
    BY <2>1, <2>4 DEF PermitInv, OwnOk
<1> DEFINE owed == Owed(w)
           owedNext == Owed(w)'
<1>6. CASE w = WorkerOf[c] /\ status # "none" /\ \E p \in permits : p.id = calls[c].permit
  <2>1. PICK p \in permits : p.id = calls[c].permit
    BY <1>6
  <2>2. owedNext \subseteq owed \cup {p}
    BY <1>5, <2>1 DEF PermitInv, StoreOk, TableOk
  <2>3. IsFiniteSet(owed) /\ Cardinality(owed) \in Nat
        /\ egress[w] + Cardinality(owed) <= past.received[w]
    BY <1>4
  <2> HIDE DEF owed, owedNext
  <2>4. /\ IsFiniteSet(owed \cup {p}) /\ Cardinality(owed \cup {p}) \in Nat
        /\ Cardinality(owed \cup {p}) = IF p \in owed THEN Cardinality(owed)
                                        ELSE Cardinality(owed) + 1
    BY <2>3, FS_AddElement, FS_CardinalityType
  <2>5. Cardinality(owedNext) <= Cardinality(owed \cup {p}) /\ Cardinality(owedNext) \in Nat
    BY <2>2, <2>4, FS_Subset, FS_CardinalityType
  <2>6. Bytes(status) = 1
    BY <1>6 DEF Bytes
  <2>7. egress[w] + Cardinality(owedNext) <= past'.received[w]
    BY <1>3, <1>4, <1>6, <2>3, <2>4, <2>5, <2>6
  <2> QED
    BY <2>7 DEF owedNext
<1>7. CASE ~(w = WorkerOf[c] /\ status # "none" /\ \E p \in permits : p.id = calls[c].permit)
  <2>1. owedNext \subseteq owed
    BY <1>5, <1>7
  <2>2. IsFiniteSet(owed) /\ Cardinality(owed) \in Nat
        /\ egress[w] + Cardinality(owed) <= past.received[w]
    BY <1>4
  <2> HIDE DEF owed, owedNext
  <2>3. Cardinality(owedNext) <= Cardinality(owed) /\ Cardinality(owedNext) \in Nat
    BY <2>1, <2>2, FS_Subset, FS_CardinalityType
  <2>4. egress[w] + Cardinality(owedNext) <= past'.received[w]
    BY <1>2, <1>3, <1>4, <2>2, <2>3
  <2> QED
    BY <2>4 DEF owedNext
<1> QED
  BY <1>6, <1>7

-----------------------------------------------------------------------------
(* The steps.                                                              *)

LEMMA StepSame ==
    ASSUME PermitInv, UNCHANGED <<authority, past>>, now' \in Nat, now <= now',
           leased' \subseteq Worker, calls' \in [Call -> CallState], Advances, NoNewReport,
           \A c \in Call : calls'[c] = calls[c] \/ (OwnOk(c)' /\ HeldOk(c)'),
           late' \subseteq Late, \A m \in late' : m \in late \/ LateOk(m)'
    PROVE  PermitInv'
<1>1. UNCHANGED <<nextAt, coolUntil, regions, permits, egress, minted, past>>
  BY DEF authority
<1>2. StoreTypes'
  BY <1>1 DEF StoreTypes, PermitInv, Types, TypeOK
<1>3. StoreOk'
  BY <1>1 DEF PermitInv, StoreOk, TableOk, CoolOk, RegionOk, ProbeOk, Active
<1>4. Fades({})
  BY <1>1 DEF Fades, Same, PermitInv, Types, TypeOK
<1>5. EgressOk'
  BY <1>1, <1>2, <1>4, EgressKept
<1>6. \A c \in Call : UseKept(c)
  BY <1>1 DEF UseKept
<1> QED
  BY <1>2, <1>3, <1>4, <1>5, <1>6, Assemble

LEMMA Move ==
    ASSUME Types, NEW c \in Call, NEW s \in CallState, calls' = [calls EXCEPT ![c] = s],
           \/ s.req > calls[c].req
           \/ s.req = calls[c].req /\ (calls[c].phase \in Done => s.phase \in Done)
    PROVE  /\ calls' \in [Call -> CallState] /\ calls'[c] = s /\ Advances
           /\ \A d \in Call \ {c} : calls'[d] = calls[d]
<1>1. /\ calls' \in [Call -> CallState] /\ calls'[c] = s
      /\ \A d \in Call \ {c} : calls'[d] = calls[d]
  BY DEF Types, TypeOK
<1>2. ASSUME NEW d \in Call
      PROVE  \/ calls'[d].req > calls[d].req
             \/ /\ calls'[d].req = calls[d].req
                /\ calls[d].phase \in Done => calls'[d].phase \in Done
  <2>1. CASE d = c
    BY <1>1, <2>1
  <2>2. CASE d # c
    BY <1>1, <2>2
  <2> QED
    BY <2>1, <2>2
<1> QED
  BY <1>1, <1>2 DEF Advances

LEMMA ReportsKept ==
    ASSUME \A c \in Call : calls'[c].phase \in {"report", "again"} =>
               /\ calls[c].phase \in {"report", "again"}
               /\ calls'[c].permit = calls[c].permit /\ calls'[c].status = calls[c].status,
           \A m \in late' : \/ m \in late
                            \/ m.kind # "report"
                            \/ \E c \in Call : /\ calls[c].phase \in {"report", "again"}
                                               /\ calls[c].permit = m.permit
                                               /\ calls[c].status = m.status
    PROVE  NoNewReport
<1>1. SUFFICES ASSUME NEW i \in Nat, Reported(i)'
               PROVE  Reported(i)
  BY DEF NoNewReport
<1>2. CASE \E c \in Call : /\ calls'[c].phase \in {"report", "again"}
                           /\ calls'[c].permit = i /\ calls'[c].status # "none"
  BY <1>2 DEF Reported
<1>3. CASE \E m \in late' : m.kind = "report" /\ m.permit = i /\ m.status # "none"
  BY <1>3 DEF Reported
<1> QED
  BY <1>1, <1>2, <1>3 DEF Reported

LEMMA IdleFacts ==
    ASSUME NEW r \in Nat
    PROVE  /\ IdleAfter(r) \in CallState /\ IdleAfter(r).phase = "idle" /\ IdleAfter(r).req = r
  BY DEF IdleAfter, CallState, Status

\* A call whose next phase uses no permit.
LEMMA FreeCall ==
    ASSUME NEW c \in Call, calls'[c].phase \in {"idle", "acquire", "observe"}
    PROVE  OwnOk(c)' /\ HeldOk(c)'
  BY DEF OwnOk, HeldOk

LEMMA LeaveFacts ==
    ASSUME Types, NEW c \in Call, Leave(c)
    PROVE  /\ calls' \in [Call -> CallState] /\ Advances /\ OwnOk(c)' /\ HeldOk(c)'
           /\ calls'[c].phase = "idle" /\ calls'[c].req = calls[c].req
           /\ \A d \in Call \ {c} : calls'[d] = calls[d]
<1>1. calls[c].req \in Nat
  BY CallFacts
<1> DEFINE s == IdleAfter(calls[c].req)
<1>2. s \in CallState /\ s.phase = "idle" /\ s.req = calls[c].req
  BY <1>1, IdleFacts
<1>3. calls' = [calls EXCEPT ![c] = s]
  BY DEF Leave
<1> HIDE DEF s
<1>4. /\ calls' \in [Call -> CallState] /\ calls'[c] = s /\ Advances
      /\ \A d \in Call \ {c} : calls'[d] = calls[d]
  BY <1>2, <1>3, Move DEF Done
<1> QED
  BY <1>2, <1>4, FreeCall

LEMMA GotoFacts ==
    ASSUME Types, NEW c \in Call, NEW phase \in {"again", "observe"}, Goto(c, phase)
    PROVE  /\ calls' \in [Call -> CallState] /\ Advances
           /\ calls'[c].phase = phase /\ calls'[c].req = calls[c].req
           /\ calls'[c].permit = calls[c].permit /\ calls'[c].status = calls[c].status
           /\ \A d \in Call \ {c} : calls'[d] = calls[d]
<1> DEFINE s == [calls[c] EXCEPT !.phase = phase]
<1>1. calls[c] \in CallState
  BY CallFacts
<1>2. /\ s \in CallState /\ s.phase = phase /\ s.req = calls[c].req
      /\ s.permit = calls[c].permit /\ s.status = calls[c].status
  BY <1>1 DEF CallState
<1>3. calls' = [calls EXCEPT ![c] = s]
  BY DEF Goto
<1> HIDE DEF s
<1>4. /\ calls' \in [Call -> CallState] /\ calls'[c] = s /\ Advances
      /\ \A d \in Call \ {c} : calls'[d] = calls[d]
  BY <1>2, <1>3, Move DEF Done
<1> QED
  BY <1>2, <1>4

LEMMA BeginKeeps ==
    ASSUME PermitInv, NEW c \in Call, Begin(c)
    PROVE  PermitInv'
<1> DEFINE n == calls[c].req + 1
           s == [calls[c] EXCEPT !.phase = "acquire", !.req = n]
<1>1. calls[c] \in CallState /\ n \in Nat /\ n > calls[c].req /\ Types
  BY CallFacts DEF PermitInv
<1>2. s \in CallState /\ s.phase = "acquire" /\ s.req > calls[c].req
  <2> HIDE DEF n
  <2> QED
    BY <1>1 DEF CallState
<1>3. calls' = [calls EXCEPT ![c] = s] /\ UNCHANGED <<authority, now, leased, late, past>>
  BY <1>1 DEF Begin, Types, TypeOK
<1> HIDE DEF s
<1>4. /\ calls' \in [Call -> CallState] /\ calls'[c] = s /\ Advances
      /\ \A d \in Call \ {c} : calls'[d] = calls[d]
  BY <1>1, <1>2, <1>3, Move
<1>5. OwnOk(c)' /\ HeldOk(c)'
  BY <1>2, <1>4, FreeCall
<1>6. NoNewReport
  BY <1>2, <1>3, <1>4, ReportsKept
<1> QED
  BY <1>1, <1>3, <1>4, <1>5, <1>6, StepSame DEF Types, TypeOK

LEMMA HoldingFacts ==
    ASSUME Types, NEW c \in Call, calls[c].phase = "acquire",
           NEW p \in Permit, Holding(c, p)
    PROVE  /\ calls' \in [Call -> CallState] /\ Advances
           /\ calls'[c].phase = "http" /\ calls'[c].req = calls[c].req
           /\ calls'[c].permit = p.id /\ calls'[c].expires = p.expires
           /\ \A d \in Call \ {c} : calls'[d] = calls[d]
<1> DEFINE s == [calls[c] EXCEPT !.phase = "http", !.permit = p.id, !.expires = p.expires]
<1>1. calls[c] \in CallState /\ p.id \in Nat /\ p.expires \in Nat
  BY CallFacts, PermitFacts
<1>2. /\ s \in CallState /\ s.phase = "http" /\ s.req = calls[c].req
      /\ s.permit = p.id /\ s.expires = p.expires
  BY <1>1 DEF CallState
<1>3. calls' = [calls EXCEPT ![c] = s]
  BY <1>1 DEF Holding, Types, TypeOK
<1> HIDE DEF s
<1>4. /\ calls' \in [Call -> CallState] /\ calls'[c] = s /\ Advances
      /\ \A d \in Call \ {c} : calls'[d] = calls[d]
  BY <1>2, <1>3, Move DEF Done
<1> QED
  BY <1>2, <1>4

LEMMA AcquireKeeps ==
    ASSUME PermitInv, NEW c \in Call, Acquire(c)
    PROVE  PermitInv'
<1> DEFINE r == calls[c].req
<1>1. /\ Types /\ StoreOk /\ TableOk /\ r \in Nat /\ calls[c].phase = "acquire"
      /\ UNCHANGED <<now, leased, late, past>> /\ late \subseteq Late /\ leased \subseteq Worker
      /\ now \in Nat
  BY CallFacts DEF PermitInv, StoreOk, Acquire, Types, TypeOK
<1>2. CASE Mint(c, r) /\ \E p \in permits' : p.id = minted' /\ Holding(c, p)
  <2>1. /\ StoreTypes' /\ StoreOk' /\ egress' = egress /\ minted' = minted + 1
        /\ \A p \in permits : Live(p) => p \in permits'
    BY <1>1, <1>2, MintOk
  <2>2. PICK new \in permits' :
            /\ new.id = minted' /\ new.call = c /\ new.req = r /\ new.active
            /\ \A p \in permits' : p.id = minted' => p = new
            /\ Fades({new})
    BY <1>1, <1>2, MintOk
  <2>3. new \in Permit /\ Holding(c, new)
    BY <1>2, <2>1, <2>2 DEF StoreTypes
  <2>4. /\ calls' \in [Call -> CallState] /\ Advances
        /\ calls'[c].phase = "http" /\ calls'[c].req = r
        /\ calls'[c].permit = new.id /\ calls'[c].expires = new.expires
        /\ \A d \in Call \ {c} : calls'[d] = calls[d]
    BY <1>1, <2>3, HoldingFacts
  <2>5. minted' \in Nat
    BY <2>1 DEF StoreTypes
  <2>6. OwnOk(c)' /\ HeldOk(c)'
    BY <2>2, <2>4, <2>5 DEF OwnOk, HeldOk
  <2>7. NoNewReport
    BY <1>1, <2>4, ReportsKept
  <2>8. EgressOk'
    BY <1>1, <2>1, <2>2, <2>7, EgressKept
  <2>9. \A d \in Call : UseKept(d)
    BY <2>1 DEF UseKept
  <2> QED
    BY <1>1, <2>1, <2>2, <2>4, <2>6, <2>8, <2>9, Assemble
<1>3. CASE UNCHANGED authority /\ \E p \in Replayable(c, r) : Holding(c, p)
  <2>1. PICK p \in permits : p.call = c /\ p.req = r /\ Live(p) /\ Holding(c, p)
    BY <1>3 DEF Replayable, Prior
  <2>2. p \in Permit /\ permits' = permits /\ minted' = minted
    BY <1>1, <1>3, <2>1 DEF authority, Types, TypeOK
  <2>3. /\ calls' \in [Call -> CallState] /\ Advances
        /\ calls'[c].phase = "http" /\ calls'[c].req = r
        /\ calls'[c].permit = p.id /\ calls'[c].expires = p.expires
        /\ \A d \in Call \ {c} : calls'[d] = calls[d]
    BY <1>1, <2>1, <2>2, HoldingFacts
  <2>4. OwnOk(c)'
    BY <1>1, <2>1, <2>2, <2>3 DEF OwnOk, TableOk
  <2>5. HeldOk(c)'
    BY <2>1, <2>2, <2>3 DEF HeldOk, Live
  <2>6. NoNewReport
    BY <1>1, <2>3, ReportsKept
  <2> QED
    BY <1>1, <1>3, <2>3, <2>4, <2>5, <2>6, StepSame
<1>4. CASE Leave(c) /\ UNCHANGED authority
  <2>1. /\ calls' \in [Call -> CallState] /\ Advances /\ OwnOk(c)' /\ HeldOk(c)'
        /\ calls'[c].phase = "idle" /\ \A d \in Call \ {c} : calls'[d] = calls[d]
    BY <1>1, <1>4, LeaveFacts
  <2>2. NoNewReport
    BY <1>1, <2>1, ReportsKept
  <2> QED
    BY <1>1, <1>4, <2>1, <2>2, StepSame
<1> QED
  BY <1>2, <1>3, <1>4 DEF Acquire

LEMMA HttpEndKeeps ==
    ASSUME PermitInv, NEW c \in Call, NEW status \in Status, NEW cool \in Nat,
           HttpEnd(c, status, cool)
    PROVE  PermitInv'
<1> DEFINE s == [calls[c] EXCEPT !.phase = "report", !.status = status, !.cool = cool]
<1>1. /\ calls[c] \in CallState /\ Types /\ late \subseteq Late /\ leased \subseteq Worker
      /\ now \in Nat /\ WorkerOf[c] \in Worker /\ Bytes(status) \in Nat /\ past \in Past
  BY CallFacts DEF PermitInv, Types, TypeOK, Bytes
<1>2. /\ s \in CallState /\ s.phase = "report" /\ s.status = status
      /\ s.req = calls[c].req /\ s.permit = calls[c].permit
  BY <1>1 DEF CallState
<1>3. /\ calls[c].phase = "http" /\ calls' = [calls EXCEPT ![c] = s]
      /\ past' = [past EXCEPT !.received[WorkerOf[c]] = @ + Bytes(status)]
      /\ UNCHANGED <<nextAt, coolUntil, regions, permits, egress, minted, now, leased, late>>
  BY <1>1 DEF HttpEnd, authority, Types, TypeOK
<1> HIDE DEF s
<1>4. /\ calls' \in [Call -> CallState] /\ calls'[c] = s /\ Advances
      /\ \A d \in Call \ {c} : calls'[d] = calls[d]
  BY <1>1, <1>2, <1>3, Move DEF Done
<1>5. OwnOk(c)' /\ HeldOk(c)'
  BY <1>2, <1>3, <1>4 DEF PermitInv, OwnOk, HeldOk
<1>6. ASSUME NEW i \in Nat, Reported(i)'
      PROVE  Reported(i) \/ (i = calls[c].permit /\ status # "none")
  <2>1. CASE \E d \in Call : /\ calls'[d].phase \in {"report", "again"}
                             /\ calls'[d].permit = i /\ calls'[d].status # "none"
    <3>1. PICK d \in Call : /\ calls'[d].phase \in {"report", "again"}
                            /\ calls'[d].permit = i /\ calls'[d].status # "none"
      BY <2>1
    <3>2. CASE d = c
      BY <1>2, <1>4, <3>1, <3>2
    <3>3. CASE d # c
      BY <1>4, <3>1, <3>3 DEF Reported
    <3> QED
      BY <3>2, <3>3
  <2>2. CASE \E m \in late' : m.kind = "report" /\ m.permit = i /\ m.status # "none"
    BY <1>3, <2>2 DEF Reported
  <2> QED
    BY <1>6, <2>1, <2>2 DEF Reported
<1>7. EgressOk'
  BY <1>3, <1>6, EgressReceived
<1>8. /\ past' \in Past /\ past'.throttledUntil = past.throttledUntil
      /\ past'.qualified = past.qualified
  <2> DEFINE received == [past.received EXCEPT ![WorkerOf[c]] = @ + Bytes(status)]
  <2>1. received \in [Worker -> Nat]
    BY <1>1 DEF Past
  <2>2. past' = [past EXCEPT !.received = received]
    BY <1>3
  <2> HIDE DEF received
  <2> QED
    BY <1>1, <2>1, <2>2 DEF Past
<1>9. StoreTypes'
  BY <1>1, <1>3, <1>8 DEF StoreTypes, Types, TypeOK
<1>10. StoreOk'
  BY <1>3, <1>8 DEF PermitInv, StoreOk, TableOk, CoolOk, RegionOk, ProbeOk, Active
<1>11. Fades({})
  BY <1>1, <1>3 DEF Fades, Same, Types, TypeOK
<1>12. \A d \in Call : UseKept(d)
  BY <1>3 DEF UseKept
<1> QED
  BY <1>1, <1>3, <1>4, <1>5, <1>7, <1>9, <1>10, <1>11, <1>12, Assemble

LEMMA ReportKeeps ==
    ASSUME PermitInv, NEW c \in Call, Report(c)
    PROVE  PermitInv'
<1> DEFINE s == calls[c]
<1>1. /\ Types /\ StoreOk /\ s.phase \in {"report", "again"} /\ s.permit \in Nat
      /\ s.status \in Status /\ s.cool \in Nat
      /\ UNCHANGED <<now, leased, late>> /\ late \subseteq Late /\ leased \subseteq Worker
      /\ now \in Nat /\ OwnOk(c)
  BY CallFacts DEF PermitInv, Report, Types, TypeOK
<1>2. CASE Settle(c, s.permit, s.status, s.cool) /\ Goto(c, "observe")
  <2>1. /\ StoreTypes' /\ StoreOk' /\ minted' = minted
        /\ Fades({}) /\ KeepsLive(s.permit)
        /\ egress' = [egress EXCEPT ![WorkerOf[c]] = @ + Bytes(s.status)]
        /\ past'.received = past.received
    BY <1>1, <1>2, SettleOk
  <2>2. PICK p \in permits : /\ p.id = s.permit /\ p.active
                             /\ \A q \in permits' : q.active => q \in permits /\ q # p
    BY <1>1, <1>2, SettleOk
  <2>3. /\ calls' \in [Call -> CallState] /\ Advances /\ calls'[c].phase = "observe"
        /\ \A d \in Call \ {c} : calls'[d] = calls[d]
    BY <1>1, <1>2, GotoFacts
  <2>4. OwnOk(c)' /\ HeldOk(c)'
    BY <2>3, FreeCall
  <2>5. NoNewReport
    BY <1>1, <2>3, ReportsKept
  <2>6. p.call = c
    BY <1>1, <2>2 DEF OwnOk
  <2>7. s.status # "none" => Reported(p.id)
    BY <1>1, <2>2 DEF Reported
  <2>8. EgressOk'
    BY <1>1, <2>1, <2>2, <2>5, <2>6, <2>7, EgressSettled
  <2>9. ASSUME NEW d \in Call \ {c}
        PROVE  UseKept(d)
    BY <1>1, <2>1 DEF UseKept, KeepsLive, OwnOk, PermitInv
  <2> QED
    BY <1>1, <2>1, <2>3, <2>4, <2>8, <2>9, Assemble
<1>3. CASE Goto(c, "observe") /\ UNCHANGED <<authority, past>>
  <2>1. /\ calls' \in [Call -> CallState] /\ Advances /\ calls'[c].phase = "observe"
        /\ \A d \in Call \ {c} : calls'[d] = calls[d]
    BY <1>1, <1>3, GotoFacts
  <2>2. OwnOk(c)' /\ HeldOk(c)'
    BY <2>1, FreeCall
  <2>3. NoNewReport
    BY <1>1, <2>1, ReportsKept
  <2> QED
    BY <1>1, <1>3, <2>1, <2>2, <2>3, StepSame
<1>4. CASE Leave(c) /\ UNCHANGED <<authority, past>>
  <2>1. /\ calls' \in [Call -> CallState] /\ Advances /\ OwnOk(c)' /\ HeldOk(c)'
        /\ calls'[c].phase = "idle" /\ \A d \in Call \ {c} : calls'[d] = calls[d]
    BY <1>1, <1>4, LeaveFacts
  <2>2. NoNewReport
    BY <1>1, <2>1, ReportsKept
  <2> QED
    BY <1>1, <1>4, <2>1, <2>2, StepSame
<1> QED
  BY <1>2, <1>3, <1>4 DEF Report

LEMMA ObservationKeeps ==
    ASSUME PermitInv, NEW c \in Call, Observation(c)
    PROVE  PermitInv'
<1>1. /\ Types /\ StoreOk /\ calls[c].status \in Status
      /\ UNCHANGED <<now, leased, late>> /\ late \subseteq Late /\ leased \subseteq Worker
      /\ now \in Nat /\ Leave(c)
  BY CallFacts DEF PermitInv, Observation, Types, TypeOK
<1>2. /\ calls' \in [Call -> CallState] /\ Advances /\ OwnOk(c)' /\ HeldOk(c)'
      /\ calls'[c].phase = "idle" /\ \A d \in Call \ {c} : calls'[d] = calls[d]
  BY <1>1, LeaveFacts
<1>3. NoNewReport
  BY <1>1, <1>2, ReportsKept
<1>4. CASE Observe(c, calls[c].status)
  <2>1. /\ StoreTypes' /\ StoreOk' /\ permits' = permits /\ minted' = minted /\ egress' = egress
        /\ past'.received = past.received
    BY <1>1, <1>4, ObserveOk
  <2>2. Fades({}) /\ \A d \in Call : UseKept(d)
    BY <1>1, <2>1 DEF Fades, Same, UseKept, Types, TypeOK
  <2>3. EgressOk'
    BY <1>3, <2>1, <2>2, EgressKept
  <2> QED
    BY <1>1, <1>2, <2>1, <2>2, <2>3, Assemble
<1>5. CASE UNCHANGED <<authority, past>>
  BY <1>1, <1>2, <1>3, <1>5, StepSame
<1> QED
  BY <1>4, <1>5 DEF Observation

LEMMA TimeOutKeeps ==
    ASSUME PermitInv, NEW c \in Call, TimeOut(c)
    PROVE  PermitInv'
<1> DEFINE s == calls[c]
<1>1. /\ Types /\ s.permit \in Nat /\ s.status \in Status /\ s.cool \in Nat /\ s.req \in Nat
      /\ UNCHANGED <<authority, now, leased, past>> /\ late \subseteq Late
      /\ leased \subseteq Worker /\ now \in Nat /\ calls \in [Call -> CallState]
      /\ permits' = permits /\ minted' = minted
  BY CallFacts DEF PermitInv, TimeOut, Types, TypeOK, authority
<1>2. CASE /\ late' = late \cup {[kind |-> "issue", call |-> c, req |-> s.req]}
           /\ UNCHANGED calls
  <2>1. late' \subseteq Late /\ \A m \in late' : m \in late \/ m.kind # "report"
    BY <1>1, <1>2 DEF Late
  <2>2. Advances
    BY <1>1, <1>2 DEF Advances
  <2>3. NoNewReport
    BY <1>2, <2>1, ReportsKept
  <2>4. \A m \in late' : m \in late \/ LateOk(m)'
    BY <2>1 DEF LateOk
  <2> QED
    BY <1>1, <1>2, <2>1, <2>2, <2>3, <2>4, StepSame
<1>3. CASE /\ s.phase \in {"report", "again"}
           /\ late' = late \cup {[kind |-> "report", call |-> c, permit |-> s.permit,
                                  status |-> s.status, cool |-> s.cool]}
           /\ IF s.phase = "report" THEN Goto(c, "again") ELSE Leave(c)
  <2>0. PICK m : m = [kind |-> "report", call |-> c, permit |-> s.permit,
                      status |-> s.status, cool |-> s.cool]
    OBVIOUS
  <2>1. /\ m \in Late /\ m.kind = "report" /\ m.call = c
        /\ m.permit = s.permit /\ m.status = s.status
    BY <1>1, <2>0 DEF Late
  <2>2. late' = late \cup {m}
    BY <1>3, <2>0
  <2>3. late' \subseteq Late
    BY <1>1, <2>1, <2>2
  <2>4. /\ calls' \in [Call -> CallState] /\ Advances
        /\ calls'[c].phase \in {"again", "idle"} /\ calls'[c].req = calls[c].req
        /\ \A d \in Call \ {c} : calls'[d] = calls[d]
        /\ calls'[c].phase = "again" => /\ calls'[c].permit = calls[c].permit
                                        /\ calls'[c].status = calls[c].status
    <3>1. CASE s.phase = "report"
      BY <1>1, <1>3, <3>1, GotoFacts
    <3>2. CASE s.phase # "report"
      BY <1>1, <1>3, <3>2, LeaveFacts
    <3> QED
      BY <3>1, <3>2
  <2>5. OwnOk(c)' /\ HeldOk(c)'
    BY <1>1, <1>3, <2>4 DEF PermitInv, OwnOk, HeldOk
  <2>6. LateOk(m)'
    BY <1>1, <1>3, <2>1, <2>4 DEF PermitInv, OwnOk, LateOk, Done
  <2>7. NoNewReport
    <3>1. \A d \in Call : calls'[d].phase \in {"report", "again"} =>
               /\ calls[d].phase \in {"report", "again"}
               /\ calls'[d].permit = calls[d].permit /\ calls'[d].status = calls[d].status
      BY <1>3, <2>4
    <3>2. \A o \in late' : \/ o \in late
                           \/ o.kind # "report"
                           \/ \E d \in Call : /\ calls[d].phase \in {"report", "again"}
                                              /\ calls[d].permit = o.permit
                                              /\ calls[d].status = o.status
      BY <1>3, <2>1, <2>2
    <3> QED
      BY <3>1, <3>2, ReportsKept
  <2>8. /\ \A o \in late' : o \in late \/ LateOk(o)'
        /\ \A d \in Call : calls'[d] = calls[d] \/ (OwnOk(d)' /\ HeldOk(d)')
    BY <2>2, <2>4, <2>5, <2>6
  <2> QED
    BY <1>1, <2>3, <2>4, <2>7, <2>8, StepSame
<1>4. CASE /\ late' = late \cup {[kind |-> "observe", call |-> c, status |-> s.status]}
           /\ Leave(c)
  <2>1. late' \subseteq Late /\ \A m \in late' : m \in late \/ m.kind # "report"
    BY <1>1, <1>4 DEF Late
  <2>2. /\ calls' \in [Call -> CallState] /\ Advances /\ OwnOk(c)' /\ HeldOk(c)'
        /\ calls'[c].phase = "idle" /\ \A d \in Call \ {c} : calls'[d] = calls[d]
    BY <1>1, <1>4, LeaveFacts
  <2>3. NoNewReport
    BY <2>1, <2>2, ReportsKept
  <2>4. \A m \in late' : m \in late \/ LateOk(m)'
    BY <2>1 DEF LateOk
  <2> QED
    BY <1>1, <2>1, <2>2, <2>3, <2>4, StepSame
<1> QED
  BY <1>2, <1>3, <1>4 DEF TimeOut

LEMMA HandleLateKeeps ==
    ASSUME PermitInv, NEW m \in late, HandleLate(m)
    PROVE  PermitInv'
<1>1. /\ Types /\ StoreOk /\ UNCHANGED <<now, leased, calls>> /\ late' \subseteq late
      /\ late' \subseteq Late /\ leased \subseteq Worker /\ now \in Nat
      /\ calls \in [Call -> CallState] /\ LateOk(m) /\ m.call \in Call
  BY LateFacts DEF PermitInv, HandleLate, Types, TypeOK
<1>2. Advances
  BY <1>1 DEF Advances
<1>3. NoNewReport
  BY <1>1, ReportsKept
<1>4. CASE m.kind = "issue" /\ Mint(m.call, m.req) /\ past' = past
  <2>1. m.req \in Nat
    BY <1>4, <1>1, LateFacts
  <2>2. /\ StoreTypes' /\ StoreOk' /\ egress' = egress
        /\ \A p \in permits : Live(p) => p \in permits'
        /\ \E new \in permits' : Fades({new})
    BY <1>1, <1>4, <2>1, MintOk
  <2>3. EgressOk'
    BY <1>3, <1>4, <2>2, EgressKept
  <2>4. \A d \in Call : UseKept(d)
    BY <2>2 DEF UseKept
  <2> QED
    BY <1>1, <1>2, <2>2, <2>3, <2>4, Assemble
<1>5. CASE m.kind = "report" /\ Settle(m.call, m.permit, m.status, m.cool)
  <2>1. m.permit \in Nat /\ m.status \in Status /\ m.cool \in Nat
    BY <1>5, <1>1, LateFacts
  <2>2. /\ StoreTypes' /\ StoreOk' /\ Fades({}) /\ KeepsLive(m.permit)
        /\ egress' = [egress EXCEPT ![WorkerOf[m.call]] = @ + Bytes(m.status)]
        /\ past'.received = past.received
    BY <1>1, <1>5, <2>1, SettleOk
  <2>3. PICK p \in permits : /\ p.id = m.permit /\ p.active
                             /\ \A q \in permits' : q.active => q \in permits /\ q # p
    BY <1>1, <1>5, <2>1, SettleOk
  <2>4. p.call = m.call
    BY <1>1, <1>5, <2>3 DEF LateOk
  <2>5. m.status # "none" => Reported(p.id)
    BY <1>5, <2>3 DEF Reported
  <2>6. EgressOk'
    BY <1>1, <1>3, <2>1, <2>2, <2>3, <2>4, <2>5, EgressSettled
  <2>7. ASSUME NEW d \in Call
        PROVE  UseKept(d)
    <3>1. SUFFICES ASSUME calls[d].phase = "http", NEW q \in permits, Live(q),
                          q.id = calls[d].permit
                   PROVE  q \in permits'
      BY DEF UseKept
    <3>2. q.call = d /\ q.req = calls[d].req
      BY <3>1 DEF PermitInv, OwnOk
    <3>3. q.id # m.permit
      BY <1>1, <1>5, <3>1, <3>2 DEF LateOk, Done
    <3> QED
      BY <2>2, <3>1, <3>3 DEF KeepsLive
  <2> QED
    BY <1>1, <1>2, <2>2, <2>6, <2>7, Assemble
<1>6. CASE m.kind = "observe" /\ Observe(m.call, m.status)
  <2>1. m.status \in Status
    BY <1>6, <1>1, LateFacts
  <2>2. /\ StoreTypes' /\ StoreOk' /\ permits' = permits /\ minted' = minted /\ egress' = egress
        /\ past'.received = past.received
    BY <1>1, <1>6, <2>1, ObserveOk
  <2>3. Fades({}) /\ \A d \in Call : UseKept(d)
    BY <1>1, <2>2 DEF Fades, Same, UseKept, Types, TypeOK
  <2>4. EgressOk'
    BY <1>3, <2>2, <2>3, EgressKept
  <2> QED
    BY <1>1, <1>2, <2>2, <2>3, <2>4, Assemble
<1> QED
  BY <1>4, <1>5, <1>6 DEF HandleLate

\* Steps that leave the tables and the calls alone.
LEMMA QuietKeeps ==
    ASSUME PermitInv, UNCHANGED <<authority, past, calls>>, now' \in Nat, now <= now',
           leased' \subseteq Worker, late' \subseteq late
    PROVE  PermitInv'
<1>1. calls \in [Call -> CallState] /\ late \subseteq Late
  BY DEF PermitInv, Types, TypeOK
<1>2. Advances
  BY <1>1 DEF Advances
<1>3. NoNewReport
  BY ReportsKept
<1> QED
  BY <1>1, <1>2, <1>3, StepSame

LEMMA RestartKeeps ==
    ASSUME PermitInv, NEW w \in Worker, Restart(w)
    PROVE  PermitInv'
<1>1. /\ calls' = [c \in Call |-> IF c \in CallsOf(w) THEN IdleAfter(calls[c].req)
                                                      ELSE calls[c]]
      /\ UNCHANGED <<authority, now, late, past>> /\ leased' \subseteq Worker
      /\ Types /\ late \subseteq Late /\ now \in Nat
  BY DEF Restart, PermitInv, Types, TypeOK
<1>2. ASSUME NEW c \in Call
      PROVE  /\ calls'[c] \in CallState /\ calls'[c].req = calls[c].req
             /\ calls'[c] = calls[c] \/ calls'[c].phase = "idle"
  BY <1>1, CallFacts, IdleFacts
<1>3. calls' \in [Call -> CallState]
  <2>1. \A c \in Call : calls'[c] \in CallState
    BY <1>2
  <2> QED
    BY <1>1, <2>1
<1>4. Advances
  BY <1>2 DEF Advances, Done
<1>5. NoNewReport
  BY <1>1, <1>2, ReportsKept
<1>6. \A c \in Call : calls'[c] = calls[c] \/ (OwnOk(c)' /\ HeldOk(c)')
  BY <1>2, FreeCall
<1> QED
  BY <1>1, <1>3, <1>4, <1>5, <1>6, StepSame

LEMMA GcKeeps ==
    ASSUME PermitInv, Gc
    PROVE  PermitInv'
<1>1. /\ Types /\ StoreOk
      /\ UNCHANGED <<now, egress, leased, calls, late, minted, past>>
      /\ late \subseteq Late /\ leased \subseteq Worker /\ now \in Nat
      /\ calls \in [Call -> CallState]
  BY DEF PermitInv, Gc, Types, TypeOK
<1>2. StoreTypes' /\ StoreOk' /\ Fades({}) /\ \A p \in permits : Live(p) => p \in permits'
  BY <1>1, GcOk
<1>3. Advances /\ NoNewReport
  BY <1>1, ReportsKept DEF Advances
<1>4. EgressOk'
  BY <1>1, <1>2, <1>3, EgressKept
<1>5. \A d \in Call : UseKept(d)
  BY <1>2 DEF UseKept
<1> QED
  BY <1>1, <1>2, <1>3, <1>4, <1>5, Assemble

LEMMA InitInv == Init => PermitInv
<1> SUFFICES ASSUME Init
             PROVE  PermitInv
  OBVIOUS
<1>1. /\ now = 1 /\ nextAt = 0 /\ coolUntil = 0 /\ minted = 0 /\ permits = {} /\ leased = {}
      /\ late = {} /\ egress = [w \in Worker |-> 0] /\ calls = [c \in Call |-> IdleAfter(0)]
      /\ regions = [r \in Region |-> [state |-> "UNKNOWN", samples |-> 0,
                                      successes |-> 0, failures |-> 0, at |-> 0]]
      /\ past = [received |-> [w \in Worker |-> 0], throttledUntil |-> 0, qualified |-> {}]
  BY DEF Init
<1>2. IdleAfter(0) \in CallState /\ IdleAfter(0).phase = "idle"
  BY IdleFacts
<1>3. /\ past \in Past /\ past.throttledUntil = 0
      /\ past.received = [w \in Worker |-> 0]
  BY <1>1 DEF Past
<1>4. Types
  BY <1>1, <1>2, <1>3 DEF Types, TypeOK, RegionState
<1>5. IsFiniteSet({}) /\ Cardinality({}) = 0
  BY FS_EmptySet
<1>6. Active(permits) = {} /\ \A w \in Worker : Owed(w) = {}
  BY <1>1 DEF Active, Owed
<1>7. TableOk
  <2>1. IsFiniteSet(permits) /\ Cardinality(Active(permits)) = 0
    BY <1>1, <1>5, <1>6
  <2>2. Cardinality(Active(permits)) <= MaxInflight
    BY <2>1, PermitAssumption
  <2> QED
    BY <1>1, <2>1, <2>2 DEF TableOk
<1>8. StoreOk
  BY <1>1, <1>3, <1>6, <1>7 DEF StoreOk, CoolOk, RegionOk, ProbeOk
<1>9. EgressOk
  BY <1>1, <1>3, <1>5, <1>6 DEF EgressOk
<1>10. \A c \in Call : OwnOk(c) /\ HeldOk(c)
  BY <1>1, <1>2 DEF OwnOk, HeldOk
<1> QED
  BY <1>1, <1>4, <1>8, <1>9, <1>10 DEF PermitInv

LEMMA NextKeeps ==
    ASSUME PermitInv, [Next]_vars
    PROVE  PermitInv'
<1>0. now \in Nat /\ leased \subseteq Worker
  BY DEF PermitInv, Types, TypeOK
<1>1. ASSUME NEW c \in Call, CallStep(c)
      PROVE  PermitInv'
  <2>1. CASE \E status \in Status \ {"throttled"} : HttpEnd(c, status, 0)
    BY <2>1, HttpEndKeeps
  <2>2. CASE \E cool \in Cooldown : HttpEnd(c, "throttled", cool)
    BY <2>2, HttpEndKeeps, PermitAssumption DEF Status
  <2> QED
    BY <1>1, <2>1, <2>2, BeginKeeps, AcquireKeeps, ReportKeeps, ObservationKeeps,
       TimeOutKeeps DEF CallStep
<1>2. ASSUME NEW m \in late, HandleLate(m) \/ DropLate(m)
      PROVE  PermitInv'
  <2>1. CASE DropLate(m)
    BY <1>0, <2>1, QuietKeeps DEF DropLate
  <2> QED
    BY <1>2, <2>1, HandleLateKeeps
<1>3. ASSUME NEW w \in Worker, LeaseStarts(w) \/ LeaseEnds(w) \/ Restart(w)
      PROVE  PermitInv'
  <2>1. CASE LeaseStarts(w)
    BY <1>0, <2>1, QuietKeeps DEF LeaseStarts
  <2>2. CASE LeaseEnds(w)
    BY <1>0, <2>2, QuietKeeps DEF LeaseEnds
  <2> QED
    BY <1>3, <2>1, <2>2, RestartKeeps
<1>4. CASE Tick
  BY <1>0, <1>4, QuietKeeps DEF Tick
<1>5. CASE UNCHANGED vars
  BY <1>0, <1>5, QuietKeeps DEF vars, authority
<1> QED
  BY <1>1, <1>2, <1>3, <1>4, <1>5, GcKeeps DEF Next

LEMMA PermitInvHolds == Spec => []PermitInv
<1>1. Init => PermitInv
  BY InitInv
<1>2. PermitInv /\ [Next]_vars => PermitInv'
  BY NextKeeps
<1> QED
  BY <1>1, <1>2, PTL DEF Spec

-----------------------------------------------------------------------------
(* The theorems.                                                           *)

\* The tables of provider permits, budgets and regions, and the calls that use
\* them, keep their types.
THEOREM PermitsTyped == Spec => []TypeOK
<1>1. PermitInv => TypeOK
  BY DEF PermitInv, Types
<1> QED
  BY <1>1, PermitInvHolds, PTL

\* issue_provider_permit: however many workers ask, repeat or come late, no
\* more permits are in force than max_global_inflight, one per request.
THEOREM PermitsBounded == Spec => []PermitsWithinBudget
<1>1. PermitInv => PermitsWithinBudget
  <2>1. SUFFICES ASSUME PermitInv
                 PROVE  Cardinality({p \in permits : Live(p)}) <= MaxInflight
    BY DEF PermitInv, StoreOk, TableOk, PermitsWithinBudget
  <2> DEFINE live == {p \in permits : Live(p)}
             active == Active(permits)
  <2>2. live \subseteq active /\ IsFiniteSet(permits) /\ active \subseteq permits
        /\ Cardinality(active) <= MaxInflight
    BY <2>1 DEF Active, Live, PermitInv, StoreOk, TableOk
  <2> HIDE DEF live, active
  <2>3. IsFiniteSet(active)
    BY <2>2, FS_Subset
  <2>4. Cardinality(live) <= Cardinality(active) /\ IsFiniteSet(live)
    BY <2>2, <2>3, FS_Subset
  <2>5. Cardinality(live) \in Nat /\ Cardinality(active) \in Nat /\ MaxInflight \in Nat
    BY <2>3, <2>4, FS_CardinalityType, PermitAssumption
  <2>6. Cardinality(live) <= MaxInflight
    BY <2>2, <2>4, <2>5
  <2> QED
    BY <2>6 DEF live
<1> QED
  BY <1>1, PermitInvHolds, PTL

\* A permit under an HTTP exchange is active until it expires, whatever other
\* workers issue, report late or collect (issue_provider_permit,
\* report_provider_permit, garbage_collect).
THEOREM PermitsHeld == Spec => []HeldUntilExpiry
<1>1. PermitInv => HeldUntilExpiry
  BY DEF PermitInv, HeldOk, HeldUntilExpiry
<1> QED
  BY <1>1, PermitInvHolds, PTL

\* _provider_region_allows: a region that never qualified has one probe at most
\* in force.
THEOREM ProbesAlone == Spec => []ProbeAlone
<1>1. PermitInv => ProbeAlone
  <2>1. SUFFICES ASSUME PermitInv, NeedRegion, NEW r \in Region, r \notin past.qualified
                 PROVE  Cardinality({p \in permits : Live(p) /\ RegionOfCall(p.call) = r}) <= 1
    BY DEF ProbeAlone
  <2> DEFINE probes == {p \in permits : Live(p) /\ RegionOfCall(p.call) = r}
  <2>2. \A p, q \in probes : p = q
    BY <2>1 DEF PermitInv, StoreOk, ProbeOk, Active, Live
  <2> HIDE DEF probes
  <2>3. CASE probes = {}
    <3>1. Cardinality(probes) = 0
      BY <2>3, FS_EmptySet
    <3> QED
      BY <3>1 DEF probes
  <2>4. CASE probes # {}
    <3>1. PICK p \in probes : TRUE
      BY <2>4
    <3>2. probes = {p}
      BY <2>2, <3>1
    <3>3. Cardinality(probes) = 1
      BY <3>2, FS_Singleton
    <3> QED
      BY <3>3 DEF probes
  <2> QED
    BY <2>3, <2>4
<1> QED
  BY <1>1, PermitInvHolds, PTL

\* report_provider_permit: the bytes a worker is charged for a day are bytes it
\* received, however often a report is repeated and however late it comes.
THEOREM BytesCountedOnce == Spec => []EgressCountedOnce
<1>1. PermitInv => EgressCountedOnce
  <2>1. SUFFICES ASSUME PermitInv, NEW w \in Worker
                 PROVE  egress[w] <= past.received[w]
    BY DEF EgressCountedOnce
  <2>2. /\ egress[w] \in Nat /\ past.received[w] \in Nat /\ Cardinality(Owed(w)) \in Nat
        /\ egress[w] + Cardinality(Owed(w)) <= past.received[w]
    BY <2>1, OwedFinite DEF PermitInv, Types, TypeOK, Past, EgressOk
  <2> QED
    BY <2>2
<1> QED
  BY <1>1, PermitInvHolds, PTL

\* issue_provider_permit refuses until the longest cooldown that a settled
\* report asked for has passed.
THEOREM CooldownKept == Spec => CooldownRespected
<1> DEFINE Step == minted' # minted => now >= past.throttledUntil
<1>1. ASSUME PermitInv, [Next]_vars, minted' # minted
      PROVE  now >= past.throttledUntil
  <2>1. \E c \in Call, r \in Nat : Mint(c, r)
    <3>1. ASSUME NEW c \in Call, CallStep(c)
          PROVE  Mint(c, calls[c].req)
      BY <1>1, <3>1 DEF CallStep, Begin, Acquire, HttpEnd, Report, Settle, Observation,
         Observe, TimeOut, authority
    <3>2. ASSUME NEW m \in late, HandleLate(m) \/ DropLate(m)
          PROVE  m.kind = "issue" /\ Mint(m.call, m.req)
      BY <1>1, <3>2 DEF HandleLate, DropLate, Settle, Observe, authority
    <3>3. ASSUME NEW w \in Worker
          PROVE  ~(LeaseStarts(w) \/ LeaseEnds(w) \/ Restart(w))
      BY <1>1 DEF LeaseStarts, LeaseEnds, Restart, authority
    <3>4. ~Gc /\ ~Tick /\ ~UNCHANGED vars
      BY <1>1 DEF Gc, Tick, vars, authority
    <3>5. CASE \E c \in Call : CallStep(c)
      BY <1>1, <3>1, <3>5, CallFacts DEF PermitInv
    <3>6. CASE \E m \in late : HandleLate(m) \/ DropLate(m)
      BY <1>1, <3>2, <3>6, LateFacts DEF PermitInv
    <3> QED
      BY <1>1, <3>3, <3>4, <3>5, <3>6 DEF Next
  <2>2. now >= coolUntil
    BY <2>1 DEF Mint, BudgetAdmits
  <2>3. now \in Nat /\ coolUntil \in Nat /\ past.throttledUntil \in Nat
    BY <1>1 DEF PermitInv, Types, TypeOK, Past
  <2> QED
    BY <1>1, <2>2, <2>3 DEF PermitInv, StoreOk, CoolOk
<1>2. PermitInv /\ [Next]_vars => [Step]_vars
  BY <1>1
<1> QED
  BY <1>2, PermitInvHolds, PTL DEF Spec, CooldownRespected
=============================================================================
