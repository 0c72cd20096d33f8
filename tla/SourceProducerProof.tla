------------------------- MODULE SourceProducerProof -------------------------
(***************************************************************************)
(* The safety of source leases, for any number of reservoirs, leases, keys *)
(* and producers.  SourceInv is inductive.                                 *)
(*                                                                         *)
(* NothingForgotten needs to know what a producer that is about to move a  *)
(* cursor has routed (ReadOk), that a row it takes from the spillover      *)
(* table has become a task (RoutedOk), and that the start of every lease   *)
(* there ever was is a place where nothing is forgotten (StartsOk): abort  *)
(* and recovery go back to it.  OneHolder and CursorMovesForward need that *)
(* the one lease of a LEASED reservoir starts at its cursor (Lone).        *)
(*                                                                         *)
(* BacklogBounded is inductive with the types alone: what a step adds to   *)
(* the open tasks it takes from the slots promised to a reservation, and a *)
(* reservation is only written where there was room for it.                *)
(***************************************************************************)
EXTENDS SourceProducer, FiniteSetTheorems, TLAPS

StoreTypes ==
    /\ reservoirs \in [Reservoir -> [state : {"READY", "LEASED", "EXHAUSTED"},
                                     cursor : 0 .. End]]
    /\ leases \in [Lease -> LeaseRow \cup {NoRow}]

TableTypes ==
    /\ tasks \in [Key -> {"none", "open", "ended"}]
    /\ staged \subseteq Key \X Lease
    /\ revived \in BOOLEAN

RunTypes == run \in [Producer -> Run]

\* What is left to read of a READY reservoir.
ReadyOk == \A r \in Reservoir : reservoirs[r].state = "READY" => reservoirs[r].cursor < End

\* Nothing is forgotten below chunk n of reservoir r.
KnownBelow(r, n) ==
    \A c \in 0 .. End - 1 : c < n => \A k \in KeysAt[r][c] : Known(k)

StartsOk == \A l \in Lease :
    leases[l] # NoRow => KnownBelow(leases[l].reservoir, leases[l].from)

Lone ==
    revived \/
    /\ \A l \in Lease : Holding(l) =>
          /\ reservoirs[leases[l].reservoir].state = "LEASED"
          /\ reservoirs[leases[l].reservoir].cursor = leases[l].from
    /\ \A l, m \in Lease : Holding(l) /\ Holding(m)
                           /\ leases[l].reservoir = leases[m].reservoir => l = m
    /\ \A r \in Reservoir : reservoirs[r].state = "LEASED" =>
          \E l \in Lease : Holding(l) /\ leases[l].reservoir = r

StoreInv == StoreTypes /\ ReadyOk /\ NothingForgotten /\ StartsOk /\ Lone

-----------------------------------------------------------------------------
(* What the invariant says of a producer.                                  *)

Router == {"admit", "convert", "unstage", "return"}
Unleased == {"idle", "flush", "choose", "grant"}
Reading == {"plan", "renew", "finalize"}

LeaseOk(p) ==
    \/ run[p].lease = {} /\ run[p].at \in Router \cup Unleased
    \/ /\ run[p].at \notin Unleased
       /\ \E l \in Lease : run[p].lease = {l} /\ leases[l] # NoRow

\* The chunks of reservoir r that the producer has read from n on are routed,
\* or wait for their turn.
ReadFrom(p, r, n) ==
    /\ n < run[p].next
    /\ \A c \in 0 .. End - 1 : n <= c /\ c < run[p].next =>
          \A k \in KeysAt[r][c] : k \in run[p].todo \/ k \in run[p].over \/ Known(k)
    /\ run[p].at \in {"renew", "finalize"} => run[p].todo = {} /\ run[p].over = {}

ReadOk(p) ==
    \A l \in Lease : run[p].lease = {l} /\ run[p].at \in Router \cup Reading =>
        ReadFrom(p, leases[l].reservoir, leases[l].from)

RoutedOk(p) ==
    run[p].at = "unstage" => \A row \in run[p].group : tasks[row[1]] # "none"

RunOk(p) == LeaseOk(p) /\ ReadOk(p) /\ RoutedOk(p)

SourceInv ==
    StoreInv /\ TableTypes /\ RunTypes /\ \A p \in Producer : RunOk(p)

-----------------------------------------------------------------------------
(* What a step keeps.                                                      *)

TasksKept == \A k \in Key : tasks[k] # "none" => tasks'[k] # "none"
KnownKept == \A k \in Key : Known(k) => Known(k)'

RowsKept == \A l \in Lease : leases[l] # NoRow =>
    /\ leases'[l] # NoRow
    /\ leases'[l].reservoir = leases[l].reservoir
    /\ leases'[l].from = leases[l].from

Forward ==
    revived' \/ \A r \in Reservoir : reservoirs'[r].cursor >= reservoirs[r].cursor

StoreKept == StoreInv' /\ RowsKept /\ Forward

LEMMA ChunkKeys ==
    ASSUME NEW r \in Reservoir, NEW c \in 0 .. End - 1, NEW k \in KeysAt[r][c]
    PROVE  k \in Key
  BY SourceAssumption

LEMMA RowFacts ==
    ASSUME StoreTypes, NEW l \in Lease
    PROVE  /\ leases[l] # NoRow => leases[l] \in LeaseRow
           /\ leases[l] \in LeaseRow =>
                /\ leases[l] # NoRow
                /\ leases[l].reservoir \in Reservoir
                /\ leases[l].from \in 0 .. End - 1 /\ leases[l].left \in Nat
                /\ leases[l].state \in {"GRANTED", "RUNNING"} \cup Ended
           /\ Holding(l) => leases[l] # NoRow
<1>1. leases[l] \in LeaseRow \cup {NoRow}
  BY DEF StoreTypes
<1>2. ASSUME NEW x \in LeaseRow
      PROVE  x # NoRow
  <2>1. x.state # "none"
    BY DEF LeaseRow, Ended
  <2>2. NoRow.state = "none"
    BY DEF NoRow
  <2> QED
    BY <2>1, <2>2
<1>3. NoRow.state = "none"
  BY DEF NoRow
<1>4. Holding(l) => leases[l] # NoRow
  BY <1>3 DEF Holding
<1> QED
  BY <1>1, <1>2, <1>4 DEF LeaseRow

LEMMA FromKept ==
    ASSUME NEW l \in Lease, leases'[l].reservoir = leases[l].reservoir,
           leases'[l].from = leases[l].from, leases[l].reservoir \in Reservoir,
           KnownBelow(leases[l].reservoir, leases[l].from), KnownKept
    PROVE  KnownBelow(leases[l].reservoir, leases[l].from)'
<1>1. \A c \in 0 .. End - 1 : \A k \in KeysAt[leases[l].reservoir][c] : k \in Key
  BY ChunkKeys
<1> QED
  BY <1>1 DEF KnownBelow, KnownKept

\* No lease begins or ends, unless one is revived.
LEMMA Steady ==
    ASSUME StoreInv, KnownKept, reservoirs' = reservoirs, revived' \in BOOLEAN,
           leases' \in [Lease -> LeaseRow \cup {NoRow}],
           RowsKept, \A l \in Lease : leases[l] = NoRow => leases'[l] = NoRow,
           revived' \/ (~revived /\ \A l \in Lease : Holding(l)' <=> Holding(l))
    PROVE  StoreKept
<1>1. StoreTypes' /\ ReadyOk'
  BY DEF StoreInv, StoreTypes, ReadyOk
<1>2. NothingForgotten'
  <2>1. SUFFICES ASSUME NEW r \in Reservoir, NEW c \in 0 .. End - 1,
                        c < reservoirs[r].cursor, NEW k \in KeysAt[r][c]
                 PROVE  Known(k)'
    BY DEF NothingForgotten
  <2>2. k \in Key /\ Known(k)
    BY <2>1, ChunkKeys DEF StoreInv, NothingForgotten
  <2> QED
    BY <2>2 DEF KnownKept
<1>3. StartsOk'
  <2>1. SUFFICES ASSUME NEW l \in Lease, leases'[l] # NoRow
                 PROVE  KnownBelow(leases[l].reservoir, leases[l].from)'
    BY DEF StartsOk
  <2>2. leases[l] # NoRow
    BY <2>1
  <2>3. /\ leases[l].reservoir \in Reservoir
        /\ leases'[l].reservoir = leases[l].reservoir /\ leases'[l].from = leases[l].from
        /\ KnownBelow(leases[l].reservoir, leases[l].from)
    BY <2>2, RowFacts DEF RowsKept, StoreInv, StartsOk
  <2> QED
    BY <2>3, FromKept
<1>4. Lone'
  <2>1. CASE revived'
    BY <2>1 DEF Lone
  <2>2. CASE ~revived'
    <3>1. /\ \A l \in Lease : Holding(l)' <=> Holding(l)
          /\ ~revived /\ Lone
      BY <2>2 DEF StoreInv
    <3>2. \A l \in Lease : Holding(l) => /\ leases'[l].reservoir = leases[l].reservoir
                                         /\ leases'[l].from = leases[l].from
      BY RowFacts DEF RowsKept, StoreInv
    <3> QED
      BY <3>1, <3>2 DEF Lone
  <2> QED
    BY <2>1, <2>2
<1>5. Forward
  BY DEF Forward, StoreInv, StoreTypes
<1> QED
  BY <1>1, <1>2, <1>3, <1>4, <1>5 DEF StoreKept, StoreInv

LEMMA Untouched ==
    ASSUME StoreInv, KnownKept, UNCHANGED <<reservoirs, leases>>,
           revived \in BOOLEAN, revived' = revived
    PROVE  StoreKept
<1>1. RowsKept /\ leases' \in [Lease -> LeaseRow \cup {NoRow}]
  BY DEF RowsKept, StoreInv, StoreTypes
<1>2. \A l \in Lease : Holding(l)' <=> Holding(l)
  BY DEF Holding
<1> QED
  BY <1>1, <1>2, Steady

\* A producer that takes no step.
LEMMA OtherOk ==
    ASSUME StoreInv, RowsKept, KnownKept, TasksKept, RunTypes,
           NEW q \in Producer, RunOk(q), run'[q] = run[q]
    PROVE  RunOk(q)'
<1>0. run[q] \in Run
  BY DEF RunTypes
<1>1. LeaseOk(q)'
  BY DEF RunOk, LeaseOk, RowsKept
<1>2. RoutedOk(q)'
  <2>1. \A row \in run[q].group : row[1] \in Key
    BY <1>0 DEF Run
  <2> QED
    BY <2>1 DEF RunOk, RoutedOk, TasksKept
<1>3. ReadOk(q)'
  <2>1. SUFFICES ASSUME NEW l \in Lease, run[q].lease = {l}, run[q].at \in Router \cup Reading
                 PROVE  ReadFrom(q, leases[l].reservoir, leases[l].from)'
    BY DEF ReadOk
  <2>2. leases[l] # NoRow
    BY <2>1 DEF RunOk, LeaseOk, Router, Reading, Unleased
  <2>3. /\ leases[l].reservoir \in Reservoir
        /\ leases'[l].reservoir = leases[l].reservoir /\ leases'[l].from = leases[l].from
        /\ ReadFrom(q, leases[l].reservoir, leases[l].from)
    BY <2>1, <2>2, RowFacts DEF RowsKept, StoreInv, RunOk, ReadOk
  <2>4. \A c \in 0 .. End - 1 : \A k \in KeysAt[leases[l].reservoir][c] : k \in Key
    BY <2>3, ChunkKeys
  <2> QED
    BY <2>3, <2>4 DEF ReadFrom, KnownKept
<1> QED
  BY <1>1, <1>2, <1>3 DEF RunOk
-----------------------------------------------------------------------------
(* A lease begins; leases end.                                             *)

LEMMA Grants ==
    ASSUME StoreInv, KnownKept, NEW l \in Lease, leases[l] = NoRow,
           NEW r \in Reservoir, Grant(l, r), revived \in BOOLEAN, revived' = revived
    PROVE  StoreKept /\ leases'[l] # NoRow
<1> DEFINE row == GrantedRow(r)
<1>1. /\ reservoirs[r].state = "READY" /\ reservoirs[r].cursor \in 0 .. End - 1
      /\ leases' = [leases EXCEPT ![l] = row]
      /\ reservoirs' = [reservoirs EXCEPT ![r].state = "LEASED"]
  BY SourceAssumption DEF Grant, StoreInv, ReadyOk, StoreTypes
<1>2. /\ row \in LeaseRow /\ row.state = "GRANTED"
      /\ row.reservoir = r /\ row.from = reservoirs[r].cursor
  BY <1>1, SourceAssumption DEF GrantedRow, LeaseRow, Ended
<1> HIDE DEF row
<1>3. StoreTypes'
  BY <1>1, <1>2 DEF StoreInv, StoreTypes
<1>4. /\ leases'[l] = row /\ \A m \in Lease : m # l => leases'[m] = leases[m]
      /\ reservoirs'[r].state = "LEASED" /\ reservoirs'[r].cursor = reservoirs[r].cursor
      /\ \A q \in Reservoir : q # r => reservoirs'[q] = reservoirs[q]
      /\ \A q \in Reservoir : reservoirs'[q].cursor = reservoirs[q].cursor
  BY <1>1 DEF StoreInv, StoreTypes
<1>5. row # NoRow
  BY <1>2 DEF NoRow
<1>6. RowsKept
  BY <1>4 DEF RowsKept
<1>7. ReadyOk'
  BY <1>4 DEF ReadyOk, StoreInv
<1>8. NothingForgotten'
  <2>1. SUFFICES ASSUME NEW q \in Reservoir, NEW c \in 0 .. End - 1,
                        c < reservoirs[q].cursor, NEW k \in KeysAt[q][c]
                 PROVE  Known(k)'
    BY <1>4 DEF NothingForgotten
  <2>2. k \in Key /\ Known(k)
    BY <2>1, ChunkKeys DEF StoreInv, NothingForgotten
  <2> QED
    BY <2>2 DEF KnownKept
<1>9. StartsOk'
  <2>1. SUFFICES ASSUME NEW m \in Lease, leases'[m] # NoRow
                 PROVE  KnownBelow(leases[m].reservoir, leases[m].from)'
    BY DEF StartsOk
  <2>2. CASE m # l
    <3>1. leases'[m] = leases[m] /\ leases[m] # NoRow
      BY <1>4, <2>1, <2>2
    <3> QED
      BY <3>1, FromKept, RowFacts DEF StoreInv, StartsOk
  <2>3. CASE m = l
    <3>1. leases'[m].reservoir = r /\ leases'[m].from = reservoirs'[r].cursor
      BY <1>2, <1>4, <2>3
    <3> QED
      BY <3>1, <1>8 DEF NothingForgotten, KnownBelow
  <2> QED
    BY <2>2, <2>3
<1>10. Lone'
  <2>1. CASE revived
    BY <2>1 DEF Lone
  <2>2. CASE ~revived
    <3>1. Lone /\ ~revived
      BY <2>2 DEF StoreInv
    <3>2. /\ Holding(l)' /\ ~Holding(l)
          /\ \A m \in Lease : m # l => (Holding(m)' <=> Holding(m))
      BY <1>2, <1>4 DEF Holding, NoRow
    <3>3. \A m \in Lease : Holding(m) => leases[m].reservoir # r
      BY <3>1, <1>1 DEF Lone
    <3>4. \A m \in Lease : Holding(m)' =>
            /\ reservoirs'[leases'[m].reservoir].state = "LEASED"
            /\ reservoirs'[leases'[m].reservoir].cursor = leases'[m].from
      <4>1. SUFFICES ASSUME NEW m \in Lease, Holding(m)', m # l
                     PROVE  /\ reservoirs'[leases'[m].reservoir].state = "LEASED"
                            /\ reservoirs'[leases'[m].reservoir].cursor = leases'[m].from
        BY <1>2, <1>4
      <4>2. /\ Holding(m) /\ leases'[m] = leases[m] /\ leases[m].reservoir # r
            /\ leases[m].reservoir \in Reservoir
        BY <4>1, <3>2, <3>3, <1>4, RowFacts DEF StoreInv
      <4> QED
        BY <4>2, <3>1, <1>4 DEF Lone
    <3>5. \A m, n \in Lease : Holding(m)' /\ Holding(n)'
                              /\ leases'[m].reservoir = leases'[n].reservoir => m = n
      BY <3>1, <3>2, <3>3, <1>2, <1>4 DEF Lone
    <3>6. \A q \in Reservoir : reservoirs'[q].state = "LEASED" =>
             \E m \in Lease : Holding(m)' /\ leases'[m].reservoir = q
      <4>1. SUFFICES ASSUME NEW q \in Reservoir, reservoirs'[q].state = "LEASED", q # r
                     PROVE  \E m \in Lease : Holding(m)' /\ leases'[m].reservoir = q
        BY <3>2, <1>2, <1>4
      <4>2. PICK m \in Lease : Holding(m) /\ leases[m].reservoir = q
        BY <4>1, <3>1, <1>4 DEF Lone
      <4> QED
        BY <4>2, <3>2, <1>4
    <3> QED
      BY <3>4, <3>5, <3>6 DEF Lone
  <2> QED
    BY <2>1, <2>2
<1>11. Forward
  BY <1>4 DEF Forward, StoreInv, StoreTypes
<1> QED
  BY <1>3, <1>4, <1>5, <1>6, <1>7, <1>8, <1>9, <1>10, <1>11 DEF StoreKept, StoreInv

\* The leases L end in state st; every reservoir that one of them held is given
\* back at a place where nothing is forgotten, not before the start of the lease.
LeasesEnd(L, st) ==
    /\ st \in Ended /\ L \subseteq {l \in Lease : Holding(l)}
    /\ \A l \in Lease : leases'[l] = IF l \in L THEN EndedRow(leases[l], st) ELSE leases[l]
    /\ \A r \in Reservoir :
          \/ /\ reservoirs'[r] = reservoirs[r]
             /\ reservoirs[r].state # "LEASED" \/ \A l \in L : leases[l].reservoir # r
          \/ /\ reservoirs'[r].state # "LEASED"
             /\ reservoirs'[r].state = "READY" => reservoirs'[r].cursor < End
             /\ \A c \in 0 .. End - 1 : c < reservoirs'[r].cursor =>
                   \A k \in KeysAt[r][c] : Known(k)
             /\ \E l \in L : leases[l].reservoir = r /\ leases[l].from <= reservoirs'[r].cursor

LEMMA Endings ==
    ASSUME StoreInv, KnownKept, StoreTypes', revived \in BOOLEAN, revived' = revived,
           NEW L, NEW st, LeasesEnd(L, st)
    PROVE  StoreKept
<1>1. \A l \in L : l \in Lease /\ Holding(l) /\ leases[l] # NoRow /\ leases[l] \in LeaseRow
                   /\ leases[l].reservoir \in Reservoir /\ leases[l].from \in 0 .. End - 1
  BY RowFacts DEF LeasesEnd, StoreInv
<1>2. \A l \in Lease : Holding(l)' <=> Holding(l) /\ l \notin L
  BY <1>1 DEF LeasesEnd, Holding, EndedRow, Ended, LeaseRow
<1>3. RowsKept
  <2>1. SUFFICES ASSUME NEW l \in Lease, leases[l] # NoRow
                 PROVE  /\ leases'[l] # NoRow
                        /\ leases'[l].reservoir = leases[l].reservoir
                        /\ leases'[l].from = leases[l].from
    BY DEF RowsKept
  <2>2. CASE l \in L
    <3>1. leases'[l] = EndedRow(leases[l], st) /\ leases[l] \in LeaseRow /\ st # "none"
      BY <2>2, <1>1 DEF LeasesEnd, Ended
    <3>2. leases'[l].state = st /\ NoRow.state = "none"
      BY <3>1 DEF EndedRow, LeaseRow, NoRow
    <3> QED
      BY <3>1, <3>2 DEF EndedRow, LeaseRow
  <2> QED
    BY <2>1, <2>2 DEF LeasesEnd
<1>4. ReadyOk'
  BY DEF ReadyOk, LeasesEnd, StoreInv
<1>5. NothingForgotten'
  <2>1. SUFFICES ASSUME NEW r \in Reservoir, NEW c \in 0 .. End - 1,
                        c < reservoirs'[r].cursor, NEW k \in KeysAt[r][c]
                 PROVE  Known(k)'
    BY DEF NothingForgotten
  <2>2. k \in Key /\ Known(k)
    BY <2>1, ChunkKeys DEF StoreInv, NothingForgotten, LeasesEnd
  <2> QED
    BY <2>2 DEF KnownKept
<1>6. StartsOk'
  <2>1. SUFFICES ASSUME NEW l \in Lease, leases'[l] # NoRow
                 PROVE  KnownBelow(leases[l].reservoir, leases[l].from)'
    BY DEF StartsOk
  <2>2. leases[l] # NoRow
    BY <2>1, <1>1 DEF LeasesEnd
  <2> QED
    BY <2>2, <1>3, FromKept, RowFacts DEF RowsKept, StoreInv, StartsOk
<1>7. Lone' /\ Forward
  <2>1. CASE revived
    BY <2>1 DEF Lone, Forward
  <2>2. CASE ~revived
    <3>1. Lone /\ ~revived
      BY <2>2 DEF StoreInv
    <3>2. \A l \in Lease : Holding(l)' =>
             /\ reservoirs'[leases[l].reservoir] = reservoirs[leases[l].reservoir]
             /\ leases'[l].reservoir = leases[l].reservoir
             /\ leases'[l].from = leases[l].from
      <4>1. SUFFICES ASSUME NEW l \in Lease, Holding(l)'
                     PROVE  reservoirs'[leases[l].reservoir] = reservoirs[leases[l].reservoir]
        BY <1>2, <1>3, RowFacts DEF RowsKept, StoreInv
      <4>2. Holding(l) /\ l \notin L /\ leases[l].reservoir \in Reservoir
        BY <4>1, <1>2, RowFacts DEF StoreInv
      <4>3. \A m \in L : leases[m].reservoir # leases[l].reservoir
        BY <4>2, <1>1, <3>1 DEF Lone
      <4> QED
        BY <4>2, <4>3 DEF LeasesEnd
    <3>3. \A r \in Reservoir : reservoirs'[r].state = "LEASED" =>
             \E l \in Lease : Holding(l)' /\ leases'[l].reservoir = r
      <4>1. SUFFICES ASSUME NEW r \in Reservoir, reservoirs'[r].state = "LEASED"
                     PROVE  \E l \in Lease : Holding(l)' /\ leases'[l].reservoir = r
        OBVIOUS
      <4>2. reservoirs[r].state = "LEASED" /\ \A l \in L : leases[l].reservoir # r
        BY <4>1 DEF LeasesEnd
      <4>3. PICK l \in Lease : Holding(l) /\ leases[l].reservoir = r
        BY <4>2, <3>1 DEF Lone
      <4> QED
        BY <4>2, <4>3, <1>2, <3>2
    <3>4. Lone'
      BY <3>1, <3>2, <3>3, <1>2 DEF Lone
    <3>5. Forward
      <4>1. SUFFICES ASSUME NEW r \in Reservoir
                     PROVE  reservoirs'[r].cursor >= reservoirs[r].cursor
        BY DEF Forward
      <4>2. reservoirs[r].cursor \in Nat
        BY SourceAssumption DEF StoreInv, StoreTypes
      <4>3. CASE \E l \in L : leases[l].reservoir = r /\ leases[l].from <= reservoirs'[r].cursor
        BY <4>2, <4>3, <1>1, <3>1 DEF Lone
      <4> QED
        BY <4>2, <4>3 DEF LeasesEnd
    <3> QED
      BY <3>4, <3>5
  <2> QED
    BY <2>1, <2>2
<1> QED
  BY <1>3, <1>4, <1>5, <1>6, <1>7 DEF StoreKept, StoreInv

Row == [state : {"READY", "LEASED", "EXHAUSTED"}, cursor : 0 .. End]

LEMMA ResetRow ==
    ASSUME StoreInv, NEW r \in Reservoir, NEW n \in 0 .. End
    PROVE  Reset(r, n) = [state |-> "READY", cursor |-> n]
<1>1. reservoirs[r] \in [state : {"READY", "LEASED", "EXHAUSTED"}, cursor : 0 .. End]
  BY DEF StoreInv, StoreTypes
<1>3. /\ Reset(r, n).state = "READY" /\ Reset(r, n).cursor = n
      /\ Reset(r, n) \in [state : {"READY", "LEASED", "EXHAUSTED"}, cursor : 0 .. End]
  BY <1>1 DEF Reset
<1> QED
  BY <1>3

LEMMA Succeeds ==
    ASSUME StoreInv, TableTypes, NEW l \in Lease, NEW next \in 0 .. End, Finalize(l, next),
           leases[l].from < next, KnownBelow(leases[l].reservoir, next),
           UNCHANGED <<tasks, staged, revived>>
    PROVE  StoreKept
<1> DEFINE r == leases[l].reservoir
<1>1. /\ Holding(l) /\ leases[l] \in LeaseRow /\ r \in Reservoir /\ leases[l].from \in 0 .. End - 1
      /\ reservoirs[r].state = "LEASED" /\ reservoirs[r] \in [state : {"READY", "LEASED", "EXHAUSTED"}, cursor : 0 .. End]
  BY RowFacts DEF Finalize, Finalizable, Holding, StoreInv, StoreTypes
<1>2. /\ leases' = [leases EXCEPT ![l] = EndedRow(leases[l], "SUCCEEDED")]
      /\ EndedRow(leases[l], "SUCCEEDED") \in LeaseRow
  BY <1>1 DEF Finalize, EndedRow, LeaseRow, Ended
<1> DEFINE row == IF next = End THEN [state |-> "EXHAUSTED", cursor |-> End]
                  ELSE [state |-> "READY", cursor |-> next]
<1>3. /\ reservoirs' = [reservoirs EXCEPT ![r] = row]
      /\ row \in Row /\ row.state # "LEASED"
      /\ row.cursor = next /\ (row.state = "READY" => next < End)
  <2>1. row \in Row /\ row.state # "LEASED" /\ row.cursor = next
    BY SourceAssumption DEF Row
  <2>2. row.state = "READY" => next < End
    BY SourceAssumption
  <2>3. reservoirs' = [reservoirs EXCEPT ![r] = row]
    BY <1>1, ResetRow DEF Finalize
  <2> QED
    BY <2>1, <2>2, <2>3
<1> HIDE DEF row
<1>4. StoreTypes'
  BY <1>1, <1>2, <1>3 DEF StoreInv, StoreTypes, Row
<1>5. KnownKept /\ revived \in BOOLEAN
  BY DEF KnownKept, Known, TableTypes
<1>6. LeasesEnd({l}, "SUCCEEDED")
  <2>1. /\ "SUCCEEDED" \in Ended /\ {l} \subseteq {m \in Lease : Holding(m)}
        /\ \A m \in Lease : leases'[m] = IF m \in {l} THEN EndedRow(leases[m], "SUCCEEDED") ELSE leases[m]
    BY <1>1, <1>2 DEF Ended, StoreInv, StoreTypes
  <2>2. /\ reservoirs'[r] = row
        /\ \A q \in Reservoir : q # r => reservoirs'[q] = reservoirs[q]
    BY <1>1, <1>3 DEF StoreInv, StoreTypes
  <2>3. \A c \in 0 .. End - 1 : c < next => \A k \in KeysAt[r][c] : Known(k)
    BY DEF KnownBelow
  <2> HIDE DEF r
  <2>4. leases[l].reservoir = r
    BY DEF r
  <2>5. \A q \in Reservoir : q # r =>
           reservoirs'[q] = reservoirs[q] /\ \A m \in {l} : leases[m].reservoir # q
    BY <2>2, <2>4
  <2>6. /\ reservoirs'[r].state # "LEASED"
        /\ reservoirs'[r].state = "READY" => reservoirs'[r].cursor < End
        /\ \A c \in 0 .. End - 1 : c < reservoirs'[r].cursor =>
              \A k \in KeysAt[r][c] : Known(k)
        /\ \E m \in {l} : leases[m].reservoir = r /\ leases[m].from <= reservoirs'[r].cursor
    <3>1. reservoirs'[r].cursor = next /\ reservoirs'[r].state = row.state
      BY <1>3, <2>2
    <3>2. \E m \in {l} : leases[m].reservoir = r /\ leases[m].from <= reservoirs'[r].cursor
      BY <1>1, <2>4, <3>1, SourceAssumption
    <3> QED
      BY <1>3, <2>3, <3>1, <3>2
  <2> QED
    BY <2>1, <2>5, <2>6 DEF LeasesEnd
<1> QED
  BY <1>4, <1>5, <1>6, Endings

LEMMA Aborts ==
    ASSUME StoreInv, TableTypes, NEW l \in Lease, Abort(l),
           UNCHANGED <<tasks, staged, revived>>
    PROVE  StoreKept
<1> DEFINE r == leases[l].reservoir
<1>1. /\ Holding(l) /\ leases[l] \in LeaseRow /\ r \in Reservoir /\ leases[l].from \in 0 .. End - 1
      /\ reservoirs[r].state = "LEASED" /\ reservoirs[r] \in [state : {"READY", "LEASED", "EXHAUSTED"}, cursor : 0 .. End]
  BY RowFacts DEF Abort, Abortable, StoreInv, StoreTypes
<1>2. /\ leases' = [leases EXCEPT ![l] = EndedRow(leases[l], "ABORTED")]
      /\ EndedRow(leases[l], "ABORTED") \in LeaseRow
  BY <1>1 DEF Abort, EndedRow, LeaseRow, Ended
<1> DEFINE row == [state |-> "READY", cursor |-> leases[l].from]
<1>3. /\ reservoirs' = [reservoirs EXCEPT ![r] = row]
      /\ row \in Row /\ row.state # "LEASED"
      /\ row.cursor = leases[l].from /\ leases[l].from < End
  <2>1. row \in Row /\ row.state # "LEASED" /\ row.cursor = leases[l].from
        /\ leases[l].from < End /\ leases[l].from \in 0 .. End
    BY <1>1, SourceAssumption DEF Row
  <2>2. reservoirs' = [reservoirs EXCEPT ![r] = row]
    BY <1>1, <2>1, ResetRow DEF Abort
  <2> QED
    BY <2>1, <2>2
<1> HIDE DEF row
<1>4. StoreTypes'
  BY <1>1, <1>2, <1>3 DEF StoreInv, StoreTypes, Row
<1>5. KnownKept /\ revived \in BOOLEAN
  BY DEF KnownKept, Known, TableTypes
<1>6. LeasesEnd({l}, "ABORTED")
  <2>1. /\ "ABORTED" \in Ended /\ {l} \subseteq {m \in Lease : Holding(m)}
        /\ \A m \in Lease : leases'[m] = IF m \in {l} THEN EndedRow(leases[m], "ABORTED") ELSE leases[m]
    BY <1>1, <1>2 DEF Ended, StoreInv, StoreTypes
  <2>2. /\ reservoirs'[r] = row
        /\ \A q \in Reservoir : q # r => reservoirs'[q] = reservoirs[q]
    BY <1>1, <1>3 DEF StoreInv, StoreTypes
  <2>3. \A c \in 0 .. End - 1 : c < leases[l].from => \A k \in KeysAt[r][c] : Known(k)
    BY <1>1, RowFacts DEF KnownBelow, StoreInv, StartsOk
  <2> HIDE DEF r
  <2>4. leases[l].reservoir = r
    BY DEF r
  <2>5. \A q \in Reservoir : q # r =>
           reservoirs'[q] = reservoirs[q] /\ \A m \in {l} : leases[m].reservoir # q
    BY <2>2, <2>4
  <2>6. /\ reservoirs'[r].state # "LEASED"
        /\ reservoirs'[r].state = "READY" => reservoirs'[r].cursor < End
        /\ \A c \in 0 .. End - 1 : c < reservoirs'[r].cursor =>
              \A k \in KeysAt[r][c] : Known(k)
        /\ \E m \in {l} : leases[m].reservoir = r /\ leases[m].from <= reservoirs'[r].cursor
    <3>1. reservoirs'[r].cursor = leases[l].from /\ reservoirs'[r].state = row.state
      BY <1>3, <2>2
    <3>2. \E m \in {l} : leases[m].reservoir = r /\ leases[m].from <= reservoirs'[r].cursor
      BY <1>1, <2>4, <3>1, SourceAssumption
    <3> QED
      BY <1>3, <2>3, <3>1, <3>2
  <2> QED
    BY <2>1, <2>5, <2>6 DEF LeasesEnd
<1> QED
  BY <1>4, <1>5, <1>6, Endings

LEMMA Recovers ==
    ASSUME StoreInv, TableTypes, RecoverOverdue, UNCHANGED <<tasks, staged, revived>>
    PROVE  StoreKept
<1>1. \A l \in Overdue : /\ l \in Lease /\ Holding(l) /\ leases[l] \in LeaseRow
                         /\ leases[l].reservoir \in Reservoir /\ leases[l].from \in 0 .. End - 1
                         /\ leases[l] # NoRow
  BY RowFacts DEF Overdue, StoreInv
<1>2. leases' = [l \in Lease |-> IF l \in Overdue
                    THEN EndedRow(leases[l], "EXPIRED") ELSE leases[l]]
  BY DEF RecoverOverdue
<1>3. \A r \in Reservoir :
          \/ reservoirs'[r] = reservoirs[r]
             /\ (reservoirs[r].state # "LEASED" \/ \A l \in Overdue : leases[l].reservoir # r)
          \/ \E l \in Overdue : /\ leases[l].reservoir = r
                                /\ reservoirs'[r] = Reset(r, leases[l].from)
  <2>1. SUFFICES ASSUME NEW r \in Reservoir
                 PROVE  \/ reservoirs'[r] = reservoirs[r]
                           /\ (reservoirs[r].state # "LEASED" \/ \A l \in Overdue : leases[l].reservoir # r)
                        \/ \E l \in Overdue : /\ leases[l].reservoir = r
                                              /\ reservoirs'[r] = Reset(r, leases[l].from)
    OBVIOUS
  <2>2. reservoirs'[r] \in Restarted(r)
    BY DEF RecoverOverdue
  <2> QED
    BY <2>2 DEF Restarted
<1>4. DOMAIN reservoirs' = Reservoir /\ reservoirs' = [r \in Reservoir |-> reservoirs'[r]]
  BY DEF RecoverOverdue
<1>5. \A r \in Reservoir, l \in Overdue :
          /\ Reset(r, leases[l].from).state = "READY"
          /\ Reset(r, leases[l].from).cursor = leases[l].from
          /\ Reset(r, leases[l].from) \in [state : {"READY", "LEASED", "EXHAUSTED"}, cursor : 0 .. End]
  <2>1. \A l \in Overdue : leases[l].from \in 0 .. End
    BY <1>1, SourceAssumption
  <2> QED
    BY <2>1, ResetRow
<1>6. StoreTypes'
  <2>1. \A r \in Reservoir : reservoirs'[r] \in [state : {"READY", "LEASED", "EXHAUSTED"}, cursor : 0 .. End]
    BY <1>3, <1>5 DEF StoreInv, StoreTypes
  <2>2. \A l \in Overdue : EndedRow(leases[l], "EXPIRED") \in LeaseRow
    BY <1>1 DEF EndedRow, LeaseRow, Ended
  <2>3. leases' \in [Lease -> LeaseRow \cup {NoRow}]
    BY <1>2, <2>2 DEF StoreInv, StoreTypes
  <2> QED
    BY <1>4, <2>1, <2>3 DEF StoreTypes
<1>7. KnownKept /\ revived \in BOOLEAN
  BY DEF KnownKept, Known, TableTypes
<1>8. LeasesEnd(Overdue, "EXPIRED")
  <2>1. /\ "EXPIRED" \in Ended /\ Overdue \subseteq {m \in Lease : Holding(m)}
        /\ \A m \in Lease : leases'[m] = IF m \in Overdue THEN EndedRow(leases[m], "EXPIRED") ELSE leases[m]
    BY <1>1, <1>2 DEF Ended
  <2>2. ASSUME NEW r \in Reservoir, NEW l \in Overdue, leases[l].reservoir = r,
               reservoirs'[r] = Reset(r, leases[l].from)
        PROVE  /\ reservoirs'[r].state # "LEASED" /\ reservoirs'[r].cursor < End
               /\ \A c \in 0 .. End - 1 : c < reservoirs'[r].cursor =>
                     \A k \in KeysAt[r][c] : Known(k)
               /\ leases[l].from <= reservoirs'[r].cursor
    <3>1. KnownBelow(leases[l].reservoir, leases[l].from)
      BY <1>1 DEF StoreInv, StartsOk
    <3>2. reservoirs'[r].state = "READY" /\ reservoirs'[r].cursor = leases[l].from
      BY <2>2, <1>5
    <3>3. \A c \in 0 .. End - 1 : c < leases[l].from => \A k \in KeysAt[r][c] : Known(k)
      BY <3>1, <2>2 DEF KnownBelow
    <3> QED
      BY <3>2, <3>3, <1>1, SourceAssumption
  <2> QED
    BY <1>3, <2>1, <2>2 DEF LeasesEnd
<1> QED
  BY <1>6, <1>7, <1>8, Endings

-----------------------------------------------------------------------------
(* A step of one producer.                                                 *)

StepOk(p) ==
    /\ StoreKept /\ TasksKept /\ KnownKept /\ TableTypes'
    /\ RunTypes' /\ RunOk(p)'
    /\ \A q \in Producer : q # p => run'[q] = run[q]

LEMMA StepKeeps ==
    ASSUME SourceInv, NEW p \in Producer, StepOk(p)
    PROVE  SourceInv' /\ Forward
<1>1. ASSUME NEW q \in Producer
      PROVE  RunOk(q)'
  <2>1. CASE q = p
    BY <2>1 DEF StepOk
  <2>2. CASE q # p
    BY <2>2, OtherOk DEF StepOk, StoreKept, SourceInv
  <2> QED
    BY <2>1, <2>2
<1> QED
  BY <1>1 DEF StepOk, StoreKept, SourceInv

LEMMA Moved ==
    ASSUME RunTypes, NEW p \in Producer, NEW s \in Run, run' = [run EXCEPT ![p] = s]
    PROVE  RunTypes' /\ run'[p] = s /\ \A q \in Producer : q # p => run'[q] = run[q]
  BY DEF RunTypes

LEMMA IdleOk ==
    ASSUME RunTypes, NEW p \in Producer, Stop(p)
    PROVE  /\ RunTypes' /\ RunOk(p)'
           /\ \A q \in Producer : q # p => run'[q] = run[q]
<1>1. Idle \in Run
  BY SourceAssumption DEF Idle, Run
<1>2. /\ RunTypes' /\ run'[p] = Idle
      /\ \A q \in Producer : q # p => run'[q] = run[q]
  BY <1>1, Moved DEF Stop
<1>3. run'[p].at = "idle" /\ run'[p].lease = {}
  BY <1>2 DEF Idle
<1> QED
  BY <1>2, <1>3 DEF RunOk, LeaseOk, ReadOk, RoutedOk, Unleased

LEMMA UnleasedOk ==
    ASSUME NEW p \in Producer, run'[p].lease = {},
           run'[p].at \in Router \cup Unleased, run'[p].at # "unstage"
    PROVE  RunOk(p)'
  BY DEF RunOk, LeaseOk, ReadOk, RoutedOk

LEMMA LeasedOk ==
    ASSUME NEW p \in Producer, NEW l \in Lease, run'[p].lease = {l}, leases'[l] # NoRow,
           run'[p].at \notin Router \cup Unleased \cup Reading
    PROVE  RunOk(p)'
  BY DEF RunOk, LeaseOk, ReadOk, RoutedOk, Router

LEMMA OwnLease ==
    ASSUME NEW p \in Producer, LeaseOk(p), run[p].at \notin Router \cup Unleased
    PROVE  \E l \in Lease : run[p].lease = {l} /\ LeaseOf(p) = l /\ leases[l] # NoRow
<1>1. PICK l \in Lease : run[p].lease = {l} /\ leases[l] # NoRow
  BY DEF LeaseOk
<1> QED
  BY <1>1 DEF LeaseOf

\* What was read stays routed.
LEMMA ReadKept ==
    ASSUME StoreInv, RowsKept, KnownKept, NEW p \in Producer, NEW l \in Lease,
           run[p].lease = {l}, leases[l] # NoRow, ReadOk(p),
           run[p].at \in Router \cup Reading, run'[p].next = run[p].next,
           \A k \in Key : k \in run[p].todo \/ k \in run[p].over =>
               k \in run'[p].todo \/ k \in run'[p].over \/ Known(k)',
           run'[p].at \in {"renew", "finalize"} => run'[p].todo = {} /\ run'[p].over = {}
    PROVE  ReadFrom(p, leases[l].reservoir, leases[l].from)'
<1>1. /\ leases[l].reservoir \in Reservoir
      /\ leases'[l].reservoir = leases[l].reservoir /\ leases'[l].from = leases[l].from
      /\ ReadFrom(p, leases[l].reservoir, leases[l].from)
  BY RowFacts DEF RowsKept, StoreInv, ReadOk
<1>2. \A c \in 0 .. End - 1 : \A k \in KeysAt[leases[l].reservoir][c] : k \in Key
  BY <1>1, ChunkKeys
<1> QED
  BY <1>1, <1>2 DEF ReadFrom, KnownKept

LEMMA ReadingOk ==
    ASSUME NEW p \in Producer, NEW l \in Lease, run'[p].lease = {l}, leases'[l] # NoRow,
           run'[p].at \notin Unleased, RoutedOk(p)',
           ReadFrom(p, leases[l].reservoir, leases[l].from)'
    PROVE  RunOk(p)'
<1>1. LeaseOk(p)'
  BY DEF LeaseOk
<1>2. ReadOk(p)'
  BY DEF ReadOk
<1> QED
  BY <1>1, <1>2 DEF RunOk

\* The router leaves alone what the run has read.
LEMMA RoutingOk ==
    ASSUME StoreInv, RowsKept, KnownKept, NEW p \in Producer, LeaseOk(p), ReadOk(p),
           run[p].at \in Router, RoutedOk(p)',
           run'[p].lease = run[p].lease, run'[p].next = run[p].next,
           run'[p].todo = run[p].todo, run'[p].over = run[p].over,
           run'[p].at \in Router \/ run'[p].at = Caller(p)
    PROVE  RunOk(p)'
<1>1. CASE run[p].lease = {}
  BY <1>1 DEF Caller, RunOk, LeaseOk, ReadOk, RoutedOk, Unleased
<1>2. CASE run[p].lease # {}
  <2>1. PICK l \in Lease : run[p].lease = {l} /\ leases[l] # NoRow
    BY <1>2 DEF LeaseOk
  <2>2. run'[p].at \in Router \cup {"plan"}
    BY <1>2 DEF Caller
  <2>3. ReadFrom(p, leases[l].reservoir, leases[l].from)'
    BY <2>1, <2>2, ReadKept DEF Router
  <2> QED
    BY <2>1, <2>2, <2>3, ReadingOk DEF RowsKept, Router, Unleased
<1> QED
  BY <1>1, <1>2

LEMMA Converts ==
    ASSUME TableTypes, NEW x, NEW K \in SUBSET Key, Convert(x, K), staged' = staged
    PROVE  /\ TasksKept /\ KnownKept
           /\ tasks' \in [Key -> {"none", "open", "ended"}]
           /\ \A k \in K : tasks'[k] # "none"
<1>1. tasks' = [k \in Key |-> IF k \in NewKeys(K) THEN "open" ELSE tasks[k]]
  BY DEF Convert
<1>2. \A k \in K : k \notin NewKeys(K) => tasks[k] # "none"
  BY DEF NewKeys
<1>3. /\ tasks' \in [Key -> {"none", "open", "ended"}]
      /\ \A k \in K : tasks'[k] # "none"
  BY <1>1, <1>2 DEF TableTypes
<1>4. TasksKept
  BY <1>1 DEF TasksKept
<1> QED
  BY <1>3, <1>4 DEF KnownKept, TasksKept, Known

LEMMA TablesKept ==
    ASSUME TableTypes, UNCHANGED <<tasks, staged, revived>>
    PROVE  TasksKept /\ KnownKept /\ TableTypes'
  BY DEF TasksKept, KnownKept, Known, TableTypes

-----------------------------------------------------------------------------
(* The router.                                                             *)

LEMMA Unchanging ==
    ASSUME SourceInv, UNCHANGED <<reservoirs, leases, tasks, staged, revived>>
    PROVE  StoreKept /\ TasksKept /\ KnownKept /\ TableTypes'
<1>1. TasksKept /\ KnownKept /\ TableTypes'
  BY TablesKept DEF SourceInv
<1> QED
  BY <1>1, Untouched DEF SourceInv, TableTypes

LEMMA RouterOk ==
    ASSUME SourceInv, NEW p \in Producer, RouterStep(p)
    PROVE  StepOk(p)
<1>0. /\ run[p] \in Run /\ LeaseOk(p) /\ ReadOk(p) /\ RoutedOk(p)
      /\ StoreInv /\ TableTypes /\ RunTypes
  BY DEF SourceInv, RunTypes, RunOk
<1>1. CASE Admit(p)
  <2> DEFINE s == [run[p] EXCEPT !.at = "convert", !.ticket = {NewReservation}]
  <2>1. NewReservation \in Reservation /\ At(p, "admit")
    BY <1>1 DEF Admit, NewReservation, Unused
  <2>2. s \in Run /\ run' = [run EXCEPT ![p] = s]
    BY <1>0, <1>1, <2>1 DEF Admit, Run
  <2>3. /\ s.at = "convert" /\ s.lease = run[p].lease /\ s.next = run[p].next
        /\ s.todo = run[p].todo /\ s.over = run[p].over
    BY <1>0 DEF Run
  <2> HIDE DEF s
  <2>4. StoreKept /\ TasksKept /\ KnownKept /\ TableTypes'
    BY <1>1, Unchanging DEF Admit, history
  <2>5. /\ RunTypes' /\ run'[p] = s /\ \A q \in Producer : q # p => run'[q] = run[q]
    BY <1>0, <2>2, Moved
  <2>6. RunOk(p)'
    BY <1>0, <2>1, <2>3, <2>4, <2>5, RoutingOk DEF StoreKept, Router, RoutedOk, At
  <2> QED
    BY <2>4, <2>5, <2>6 DEF StepOk
<1>2. CASE AdmitRefused(p)
  <2> DEFINE s == [run[p] EXCEPT !.at = Caller(p), !.group = {}]
  <2>1. At(p, "admit") /\ Caller(p) \in {"flush", "plan"}
    BY <1>2 DEF AdmitRefused, Caller
  <2>2. s \in Run /\ run' = [run EXCEPT ![p] = s]
    BY <1>0, <1>2, <2>1 DEF AdmitRefused, Run
  <2>3. /\ s.at = Caller(p) /\ s.lease = run[p].lease /\ s.next = run[p].next
        /\ s.todo = run[p].todo /\ s.over = run[p].over
    BY <1>0 DEF Run
  <2> HIDE DEF s
  <2>4. StoreKept /\ TasksKept /\ KnownKept /\ TableTypes'
    BY <1>2, Unchanging DEF AdmitRefused, history
  <2>5. /\ RunTypes' /\ run'[p] = s /\ \A q \in Producer : q # p => run'[q] = run[q]
    BY <1>0, <2>2, Moved
  <2>6. RunOk(p)'
    BY <1>0, <2>1, <2>3, <2>4, <2>5, RoutingOk DEF StoreKept, Router, RoutedOk, At
  <2> QED
    BY <2>4, <2>5, <2>6 DEF StepOk
<1>3. CASE ConvertGroup(p)
  <2> DEFINE s == [run[p] EXCEPT !.at = "unstage"]
             K == KeysIn(run[p].group)
  <2>1. At(p, "convert") /\ K \in SUBSET Key
    BY <1>0, <1>3 DEF ConvertGroup, KeysIn, Run
  <2>2. s \in Run /\ run' = [run EXCEPT ![p] = s]
    BY <1>0, <1>3, <2>1 DEF ConvertGroup, Goto, Run
  <2>3. /\ s.at = "unstage" /\ s.lease = run[p].lease /\ s.next = run[p].next
        /\ s.todo = run[p].todo /\ s.over = run[p].over /\ s.group = run[p].group
    BY <1>0 DEF Run
  <2> HIDE DEF s
  <2>4. PICK x \in run[p].ticket : Convert(x, K)
    BY <1>3 DEF ConvertGroup
  <2> HIDE DEF K
  <2>5. UNCHANGED <<reservoirs, leases, staged, revived>>
    BY <1>3 DEF ConvertGroup, history
  <2>6. /\ TasksKept /\ KnownKept /\ tasks' \in [Key -> {"none", "open", "ended"}]
        /\ \A k \in K : tasks'[k] # "none"
    BY <1>0, <2>1, <2>4, <2>5, Converts
  <2>7. StoreKept /\ TableTypes'
    BY <1>0, <2>5, <2>6, Untouched DEF TableTypes
  <2>8. /\ RunTypes' /\ run'[p] = s /\ \A q \in Producer : q # p => run'[q] = run[q]
    BY <1>0, <2>2, Moved
  <2>9. \A row \in run[p].group : row[1] \in K
    BY DEF K, KeysIn
  <2>10. RoutedOk(p)'
    BY <2>3, <2>6, <2>8, <2>9 DEF RoutedOk
  <2>11. RunOk(p)'
    BY <1>0, <2>1, <2>3, <2>6, <2>7, <2>8, <2>10, RoutingOk DEF StoreKept, Router, At
  <2> QED
    BY <2>6, <2>7, <2>8, <2>11 DEF StepOk
<1>4. CASE ConvertFails(p)
  <2>1. StoreKept /\ TasksKept /\ KnownKept /\ TableTypes'
    BY <1>4, Unchanging DEF ConvertFails, history
  <2>2. CASE run[p].lease = {}
    BY <1>0, <1>4, <2>1, <2>2, IdleOk DEF ConvertFails, StepOk
  <2>3. CASE run[p].lease # {}
    <3> DEFINE s == [run[p] EXCEPT !.at = "abort", !.ticket = {}, !.group = {}]
    <3>1. s \in Run /\ run' = [run EXCEPT ![p] = s]
      BY <1>0, <1>4, <2>3 DEF ConvertFails, Run
    <3>2. s.at = "abort" /\ s.lease = run[p].lease
      BY <1>0 DEF Run
    <3> HIDE DEF s
    <3>3. /\ RunTypes' /\ run'[p] = s /\ \A q \in Producer : q # p => run'[q] = run[q]
      BY <1>0, <3>1, Moved
    <3>4. PICK l \in Lease : run[p].lease = {l} /\ leases[l] # NoRow
      BY <1>0, <2>3 DEF LeaseOk
    <3>5. RunOk(p)'
      BY <2>1, <3>2, <3>3, <3>4, LeasedOk DEF StoreKept, RowsKept, Router, Unleased, Reading
    <3> QED
      BY <2>1, <3>3, <3>5 DEF StepOk
  <2> QED
    BY <2>2, <2>3
<1>5. CASE Unstage(p)
  <2> DEFINE s == [run[p] EXCEPT !.at = "return"]
  <2>1. At(p, "unstage") /\ \A row \in run[p].group : tasks[row[1]] # "none"
    BY <1>0, <1>5 DEF Unstage, RoutedOk, At
  <2>2. s \in Run /\ run' = [run EXCEPT ![p] = s]
    BY <1>0, <1>5, <2>1 DEF Unstage, Goto, Run
  <2>3. /\ s.at = "return" /\ s.lease = run[p].lease /\ s.next = run[p].next
        /\ s.todo = run[p].todo /\ s.over = run[p].over
    BY <1>0 DEF Run
  <2> HIDE DEF s
  <2>4. UNCHANGED <<reservoirs, leases, tasks, revived>> /\ staged' = staged \ run[p].group
    BY <1>5 DEF Unstage, history
  <2>5. TasksKept /\ TableTypes'
    BY <1>0, <2>4 DEF TasksKept, TableTypes
  <2>6. KnownKept
    <3>1. SUFFICES ASSUME NEW k \in Key, Known(k), tasks[k] = "none"
                   PROVE  \E l \in Lease : <<k, l>> \in staged'
      BY <2>4 DEF KnownKept, Known
    <3>2. PICK l \in Lease : <<k, l>> \in staged
      BY <3>1 DEF Known
    <3>3. <<k, l>> \notin run[p].group
      BY <2>1, <3>1
    <3> QED
      BY <2>4, <3>2, <3>3
  <2>7. StoreKept
    BY <1>0, <2>4, <2>6, Untouched DEF TableTypes
  <2>8. /\ RunTypes' /\ run'[p] = s /\ \A q \in Producer : q # p => run'[q] = run[q]
    BY <1>0, <2>2, Moved
  <2>9. RunOk(p)'
    BY <1>0, <2>1, <2>3, <2>6, <2>7, <2>8, RoutingOk DEF StoreKept, Router, RoutedOk, At
  <2> QED
    BY <2>5, <2>6, <2>7, <2>8, <2>9 DEF StepOk
<1>6. CASE ReleaseTicket(p)
  <2> DEFINE s == [run[p] EXCEPT !.at = Caller(p), !.ticket = {}, !.group = {}]
  <2>1. At(p, "return") /\ Caller(p) \in {"flush", "plan"}
    BY <1>6 DEF ReleaseTicket, Caller
  <2>2. s \in Run /\ run' = [run EXCEPT ![p] = s]
    BY <1>0, <1>6, <2>1 DEF ReleaseTicket, Run
  <2>3. /\ s.at = Caller(p) /\ s.lease = run[p].lease /\ s.next = run[p].next
        /\ s.todo = run[p].todo /\ s.over = run[p].over
    BY <1>0 DEF Run
  <2> HIDE DEF s
  <2>4. StoreKept /\ TasksKept /\ KnownKept /\ TableTypes'
    BY <1>6, Unchanging DEF ReleaseTicket, history
  <2>5. /\ RunTypes' /\ run'[p] = s /\ \A q \in Producer : q # p => run'[q] = run[q]
    BY <1>0, <2>2, Moved
  <2>6. RunOk(p)'
    BY <1>0, <2>1, <2>3, <2>4, <2>5, RoutingOk DEF StoreKept, Router, RoutedOk, At
  <2> QED
    BY <2>4, <2>5, <2>6 DEF StepOk
<1> QED
  BY <1>1, <1>2, <1>3, <1>4, <1>5, <1>6 DEF RouterStep

-----------------------------------------------------------------------------
(* run_once up to the lease.                                               *)

\* A producer without a lease goes on without one, and the tables are as before.
LEMMA SearchOk ==
    ASSUME SourceInv, NEW p \in Producer, NEW s \in Run, run' = [run EXCEPT ![p] = s],
           s.lease = {}, s.at \in Router \cup Unleased, s.at # "unstage",
           StoreKept, UNCHANGED <<tasks, staged, revived>>
    PROVE  StepOk(p)
<1>1. /\ RunTypes' /\ run'[p] = s /\ \A q \in Producer : q # p => run'[q] = run[q]
  BY Moved DEF SourceInv
<1>2. TasksKept /\ KnownKept /\ TableTypes'
  BY TablesKept DEF SourceInv
<1> QED
  BY <1>1, <1>2, UnleasedOk DEF StepOk

\* A producer goes on with the lease it has, and reads nothing.
LEMMA LeasedGoes ==
    ASSUME SourceInv, NEW p \in Producer, NEW s \in Run, run' = [run EXCEPT ![p] = s],
           run[p].at \notin Router \cup Unleased, s.lease = run[p].lease,
           s.at \notin Router \cup Unleased \cup Reading,
           StoreKept, TasksKept, KnownKept, TableTypes'
    PROVE  StepOk(p)
<1>1. /\ RunTypes' /\ run'[p] = s /\ \A q \in Producer : q # p => run'[q] = run[q]
  BY Moved DEF SourceInv
<1>2. PICK l \in Lease : run[p].lease = {l} /\ leases[l] # NoRow
  BY OwnLease DEF SourceInv, RunOk
<1>3. RunOk(p)'
  BY <1>1, <1>2, LeasedOk DEF StoreKept, RowsKept
<1> QED
  BY <1>1, <1>3 DEF StepOk

LEMMA StopOk ==
    ASSUME SourceInv, NEW p \in Producer, Stop(p), StoreKept, UNCHANGED <<tasks, staged, revived>>
    PROVE  StepOk(p)
<1>1. TasksKept /\ KnownKept /\ TableTypes'
  BY TablesKept DEF SourceInv
<1> QED
  BY <1>1, IdleOk DEF SourceInv, StepOk

LEMMA GrantOk ==
    ASSUME SourceInv, NEW p \in Producer, GrantStep(p)
    PROVE  StepOk(p)
<1>0. /\ run[p] \in Run /\ LeaseOk(p) /\ StoreInv /\ TableTypes /\ RunTypes
      /\ run[p].at \in Unleased => run[p].lease = {}
      /\ Idle \in Run
  <2>1. run[p] \in Run /\ LeaseOk(p) /\ StoreInv /\ TableTypes /\ RunTypes
    BY DEF SourceInv, RunTypes, RunOk
  <2>2. Idle \in Run
    BY SourceAssumption DEF Idle, Run
  <2> QED
    BY <2>1, <2>2 DEF LeaseOk
<1>1. CASE Begin(p)
  <2> DEFINE s == [run[p] EXCEPT !.at = "flush", !.rows = staged]
  <2>1. s \in Run /\ run' = [run EXCEPT ![p] = s]
    BY <1>0, <1>1 DEF Begin, Run, TableTypes
  <2>2. s.at = "flush" /\ s.lease = {}
    BY <1>0, <1>1 DEF Begin, Run, At, Unleased
  <2> HIDE DEF s
  <2>3. StoreKept /\ UNCHANGED <<tasks, staged, revived>>
    BY <1>1, Unchanging DEF Begin, history, storeVars
  <2> QED
    BY <2>1, <2>2, <2>3, SearchOk DEF Unleased
<1>2. CASE FlushGroup(p)
  <2>1. StoreKept /\ UNCHANGED <<tasks, staged, revived>>
    BY <1>2, Unchanging DEF FlushGroup, history
  <2>2. At(p, "flush") /\ run[p].lease = {}
    BY <1>0, <1>2 DEF FlushGroup, At, Unleased
  <2>3. PICK l \in {row[2] : row \in run[p].rows} :
          IF Available = 0
          THEN run' = [run EXCEPT ![p].rows = @ \ RowsOf(p, l)]
          ELSE \E S \in SUBSET RowsOf(p, l) :
                  run' = [run EXCEPT ![p].rows = @ \ RowsOf(p, l),
                                        ![p].group = S, ![p].at = "admit"]
    BY <1>2 DEF FlushGroup
  <2>4. CASE Available = 0
    <3> DEFINE s == [run[p] EXCEPT !.rows = run[p].rows \ RowsOf(p, l)]
    <3>1. s \in Run /\ run' = [run EXCEPT ![p] = s]
      BY <1>0, <2>3, <2>4 DEF Run
    <3>2. s.at = "flush" /\ s.lease = {}
      BY <1>0, <2>2 DEF Run, At
    <3> HIDE DEF s
    <3> QED
      BY <2>1, <3>1, <3>2, SearchOk DEF Unleased
  <2>5. CASE Available # 0
    <3>1. PICK S \in SUBSET RowsOf(p, l) :
                  run' = [run EXCEPT ![p].rows = @ \ RowsOf(p, l),
                                        ![p].group = S, ![p].at = "admit"]
      BY <2>3, <2>5
    <3> DEFINE s == [run[p] EXCEPT !.rows = run[p].rows \ RowsOf(p, l),
                                   !.group = S, !.at = "admit"]
    <3>2. S \in SUBSET (Key \X Lease)
      BY <1>0, <3>1 DEF RowsOf, Run
    <3>3. s \in Run /\ run' = [run EXCEPT ![p] = s]
      BY <1>0, <3>1, <3>2 DEF Run
    <3>4. s.at = "admit" /\ s.lease = {}
      BY <1>0, <2>2 DEF Run, At
    <3> HIDE DEF s
    <3> QED
      BY <2>1, <3>3, <3>4, SearchOk DEF Router
  <2> QED
    BY <2>4, <2>5
<1>3. CASE Recover(p)
  <2> DEFINE s == [run[p] EXCEPT !.at = "choose", !.candidates = Reservoir]
  <2>1. s \in Run /\ run' = [run EXCEPT ![p] = s]
    BY <1>0, <1>3 DEF Recover, Run
  <2>2. s.at = "choose" /\ s.lease = {}
    BY <1>0, <1>3 DEF Recover, Run, At, Unleased
  <2> HIDE DEF s
  <2>3. StoreKept /\ UNCHANGED <<tasks, staged, revived>>
    BY <1>0, <1>3, Recovers DEF Recover, history
  <2> QED
    BY <2>1, <2>2, <2>3, SearchOk DEF Unleased
<1>4. CASE Choose(p)
  <2>1. StoreKept /\ UNCHANGED <<tasks, staged, revived>>
    BY <1>4, Unchanging DEF Choose, history
  <2>2. At(p, "choose") /\ run[p].lease = {}
    BY <1>0, <1>4 DEF Choose, At, Unleased
  <2>3. PICK r \in run[p].candidates :
          \/ /\ Unused # {}
             /\ run' = [run EXCEPT ![p].at = "grant", ![p].candidates = @ \ {r},
                                   ![p].source = {r}, ![p].token = {NewReservation}]
          \/ run' = [run EXCEPT ![p].candidates = @ \ {r}]
    BY <1>4 DEF Choose
  <2>4. CASE /\ Unused # {}
             /\ run' = [run EXCEPT ![p].at = "grant", ![p].candidates = @ \ {r},
                                   ![p].source = {r}, ![p].token = {NewReservation}]
    <3> DEFINE s == [run[p] EXCEPT !.at = "grant", !.candidates = run[p].candidates \ {r},
                                   !.source = {r}, !.token = {NewReservation}]
    <3>1. NewReservation \in Reservation /\ r \in Reservoir
      BY <1>0, <2>4 DEF NewReservation, Unused, Run
    <3>2. s \in Run /\ run' = [run EXCEPT ![p] = s]
      BY <1>0, <2>4, <3>1 DEF Run
    <3>3. s.at = "grant" /\ s.lease = {}
      BY <1>0, <2>2 DEF Run
    <3> HIDE DEF s
    <3> QED
      BY <2>1, <3>2, <3>3, SearchOk DEF Unleased
  <2>5. CASE run' = [run EXCEPT ![p].candidates = @ \ {r}]
    <3> DEFINE s == [run[p] EXCEPT !.candidates = run[p].candidates \ {r}]
    <3>1. s \in Run /\ run' = [run EXCEPT ![p] = s]
      BY <1>0, <2>5 DEF Run
    <3>2. s.at = "choose" /\ s.lease = {}
      BY <1>0, <2>2 DEF Run, At
    <3> HIDE DEF s
    <3> QED
      BY <2>1, <3>1, <3>2, SearchOk DEF Unleased
  <2> QED
    BY <2>3, <2>4, <2>5
<1>5. CASE NothingToRun(p)
  <2>1. StoreKept /\ UNCHANGED <<tasks, staged, revived>>
    BY <1>5, Unchanging DEF NothingToRun, history, storeVars
  <2> QED
    BY <1>5, <2>1, StopOk DEF NothingToRun
<1>6. CASE TakeLease(p)
  <2>1. FreshLease \in Lease /\ leases[FreshLease] = NoRow
    BY <1>6 DEF TakeLease, FreshLease
  <2>2. PICK l \in Lease : l = FreshLease
    BY <2>1
  <2> DEFINE s == [run[p] EXCEPT !.at = "bind", !.lease = {l}]
  <2>3. PICK r \in Reservoir : Grant(l, r)
    BY <1>0, <1>6, <2>2 DEF TakeLease, Run
  <2>4. UNCHANGED <<tasks, staged, revived>>
    BY <1>6 DEF TakeLease, history
  <2>5. TasksKept /\ KnownKept /\ TableTypes'
    BY <1>0, <2>4, TablesKept
  <2>6. StoreKept /\ leases'[l] # NoRow
    BY <1>0, <2>1, <2>2, <2>3, <2>4, <2>5, Grants DEF TableTypes
  <2>7. s \in Run /\ run' = [run EXCEPT ![p] = s]
    BY <1>0, <1>6, <2>2 DEF TakeLease, Run
  <2>8. s.at = "bind" /\ s.lease = {l}
    BY <1>0 DEF Run
  <2> HIDE DEF s
  <2>9. /\ RunTypes' /\ run'[p] = s /\ \A q \in Producer : q # p => run'[q] = run[q]
    BY <1>0, <2>7, Moved
  <2>10. RunOk(p)'
    BY <2>6, <2>8, <2>9, LeasedOk DEF Router, Unleased, Reading
  <2> QED
    BY <2>5, <2>6, <2>9, <2>10 DEF StepOk
<1>7. CASE LeaseRefused(p)
  <2> DEFINE s == [run[p] EXCEPT !.at = "choose", !.source = {}, !.token = {}]
  <2>1. s \in Run /\ run' = [run EXCEPT ![p] = s]
    BY <1>0, <1>7 DEF LeaseRefused, Run
  <2>2. s.at = "choose" /\ s.lease = {}
    BY <1>0, <1>7 DEF LeaseRefused, Run, At, Unleased
  <2> HIDE DEF s
  <2>3. StoreKept /\ UNCHANGED <<tasks, staged, revived>>
    BY <1>7, Unchanging DEF LeaseRefused, history
  <2> QED
    BY <2>1, <2>2, <2>3, SearchOk DEF Unleased
<1>8. CASE Bind(p) \/ CheckGranted(p)
  <2>1. /\ UNCHANGED <<reservoirs, leases, tasks, staged, revived>>
        /\ At(p, "bind") \/ At(p, "check")
        /\ Goto(p, "check") \/ Goto(p, "start") \/ Stop(p)
    BY <1>8 DEF Bind, CheckGranted, history, storeVars
  <2>2. StoreKept /\ TasksKept /\ KnownKept /\ TableTypes'
    BY <2>1, Unchanging
  <2>3. ASSUME NEW at \in {"check", "start"}, Goto(p, at)
        PROVE  StepOk(p)
    <3> DEFINE s == [run[p] EXCEPT !.at = at]
    <3>1. s \in Run /\ run' = [run EXCEPT ![p] = s]
      BY <1>0, <2>3 DEF Goto, Run
    <3>2. s.at = at /\ s.lease = run[p].lease
      BY <1>0 DEF Run
    <3> HIDE DEF s
    <3> QED
      BY <2>1, <2>2, <3>1, <3>2, LeasedGoes DEF At, Router, Unleased, Reading
  <2> QED
    BY <2>1, <2>2, <2>3, StopOk
<1>9. CASE SaveRunning(p)
  <2>1. PICK l \in Lease : run[p].lease = {l} /\ LeaseOf(p) = l /\ leases[l] # NoRow
    BY <1>0, <1>9, OwnLease DEF SaveRunning, At, Router, Unleased
  <2>2. /\ leases' = [leases EXCEPT ![l].state = "RUNNING"]
        /\ revived' = (revived \/ ~Holding(l))
        /\ UNCHANGED <<reservoirs, tasks, staged>> /\ Goto(p, "read") /\ At(p, "start")
    BY <1>9, <2>1 DEF SaveRunning
  <2>3. revived' \in BOOLEAN
    BY <1>0, <2>2 DEF TableTypes
  <2>4. TasksKept /\ KnownKept /\ TableTypes'
    BY <1>0, <2>2, <2>3 DEF TasksKept, KnownKept, Known, TableTypes
  <2> DEFINE row == [leases[l] EXCEPT !.state = "RUNNING"]
  <2>5. /\ row \in LeaseRow /\ row.state = "RUNNING"
        /\ row.reservoir = leases[l].reservoir /\ row.from = leases[l].from
    BY <1>0, <2>1, RowFacts DEF LeaseRow, StoreInv
  <2>6. row # NoRow
    BY <2>5 DEF NoRow
  <2>7. leases' = [leases EXCEPT ![l] = row]
    BY <2>2
  <2> HIDE DEF row
  <2>8. /\ leases' \in [Lease -> LeaseRow \cup {NoRow}] /\ leases'[l] = row
        /\ \A m \in Lease : m # l => leases'[m] = leases[m]
    BY <1>0, <2>5, <2>7 DEF StoreInv, StoreTypes
  <2>9. RowsKept /\ \A m \in Lease : leases[m] = NoRow => leases'[m] = NoRow
    BY <2>1, <2>5, <2>6, <2>8 DEF RowsKept
  <2>10. revived' \/ (~revived /\ \A m \in Lease : Holding(m)' <=> Holding(m))
    <3>1. \A m \in Lease : m # l => (Holding(m)' <=> Holding(m))
      BY <2>8 DEF Holding
    <3>2. Holding(l)'
      BY <2>5, <2>8 DEF Holding
    <3> QED
      BY <2>2, <3>1, <3>2
  <2>11. StoreKept
    BY <1>0, <2>2, <2>3, <2>4, <2>8, <2>9, <2>10, Steady
  <2> DEFINE s == [run[p] EXCEPT !.at = "read"]
  <2>12. s \in Run /\ run' = [run EXCEPT ![p] = s]
    BY <1>0, <2>2 DEF Goto, Run
  <2>13. s.at = "read" /\ s.lease = run[p].lease
    BY <1>0 DEF Run
  <2> HIDE DEF s
  <2> QED
    BY <2>2, <2>4, <2>11, <2>12, <2>13, LeasedGoes DEF At, Router, Unleased, Reading
<1> QED
  BY <1>1, <1>2, <1>3, <1>4, <1>5, <1>6, <1>7, <1>8, <1>9 DEF GrantStep

-----------------------------------------------------------------------------
(* The run, and the clock.                                                 *)

\* Only the time left of some leases changes.
LEMMA Retimes ==
    ASSUME SourceInv, leases' = [l \in Lease |-> leases'[l]],
           \A l \in Lease : 
               \/ leases'[l] = leases[l]
               \/ leases[l] # NoRow /\ (\E n \in Nat : leases'[l] = [leases[l] EXCEPT !.left = n]),
           UNCHANGED <<reservoirs, tasks, staged, revived>>
    PROVE  StoreKept /\ TasksKept /\ KnownKept /\ TableTypes'
<1>1. TasksKept /\ KnownKept /\ TableTypes' /\ revived \in BOOLEAN
  BY TablesKept DEF SourceInv, TableTypes
<1>2. ASSUME NEW l \in Lease, leases[l] # NoRow
      PROVE  /\ leases'[l] \in LeaseRow /\ leases'[l] # NoRow
             /\ leases'[l].state = leases[l].state
             /\ leases'[l].reservoir = leases[l].reservoir
             /\ leases'[l].from = leases[l].from
  <2>1. leases[l] \in LeaseRow
    BY <1>2, RowFacts DEF SourceInv, StoreInv
  <2>2. CASE leases'[l] = leases[l]
    BY <1>2, <2>1, <2>2
  <2>3. ASSUME NEW n \in Nat, leases'[l] = [leases[l] EXCEPT !.left = n]
        PROVE  /\ leases'[l] \in LeaseRow
               /\ leases'[l].state = leases[l].state
               /\ leases'[l].reservoir = leases[l].reservoir
               /\ leases'[l].from = leases[l].from
    BY <2>1, <2>3 DEF LeaseRow
  <2>4. leases'[l].state # "none" => leases'[l] # NoRow
    BY DEF NoRow
  <2>5. leases[l].state # "none"
    BY <2>1 DEF LeaseRow, Ended
  <2> QED
    BY <1>2, <2>2, <2>3, <2>4, <2>5
<1>3. \A l \in Lease : leases[l] = NoRow => leases'[l] = NoRow
  OBVIOUS
<1>4. leases' \in [Lease -> LeaseRow \cup {NoRow}]
  BY <1>2, <1>3
<1>5. \A l \in Lease : Holding(l)' <=> Holding(l)
  BY <1>2 DEF Holding
<1>6. RowsKept
  BY <1>2 DEF RowsKept
<1> QED
  BY <1>1, <1>3, <1>4, <1>5, <1>6, Steady DEF SourceInv

LEMMA RenewsOk ==
    ASSUME SourceInv, NEW l \in Lease, Renewable(l), leases' = RenewedLeases(l),
           UNCHANGED <<reservoirs, tasks, staged, revived>>
    PROVE  StoreKept /\ TasksKept /\ KnownKept /\ TableTypes'
<1>1. leases[l] # NoRow /\ leases[l].left \in Nat
  BY RowFacts DEF Renewable, SourceInv, StoreInv
<1>2. PICK n \in Nat : leases' = [leases EXCEPT ![l].left = n]
  BY <1>1, SourceAssumption DEF RenewedLeases
<1>3. leases' = [m \in Lease |-> leases'[m]]
  BY <1>2 DEF SourceInv, StoreInv, StoreTypes
<1>4. \A m \in Lease : leases'[m] = IF m = l THEN [leases[l] EXCEPT !.left = n] ELSE leases[m]
  BY <1>2 DEF SourceInv, StoreInv, StoreTypes
<1>5. \A m \in Lease : 
         \/ leases'[m] = leases[m]
         \/ leases[m] # NoRow /\ (\E i \in Nat : leases'[m] = [leases[m] EXCEPT !.left = i])
  BY <1>1, <1>4
<1> QED
  BY <1>3, <1>5, Retimes

LEMMA TickOk ==
    ASSUME SourceInv, Tick
    PROVE  SourceInv' /\ Forward
<1>1. /\ leases' = [l \in Lease |-> IF Holding(l)
                       THEN [leases[l] EXCEPT !.left = Later(@)] ELSE leases[l]]
      /\ UNCHANGED <<reservoirs, tasks, staged, revived, run>>
  BY DEF Tick, TimePasses
<1>2. \A l \in Lease : Holding(l) => leases[l] # NoRow /\ Later(leases[l].left) \in Nat
  BY RowFacts DEF Later, SourceInv, StoreInv
<1>3. StoreKept /\ TasksKept /\ KnownKept /\ TableTypes'
  <2>1. leases' = [l \in Lease |-> leases'[l]]
    BY <1>1
  <2>2. ASSUME NEW l \in Lease
        PROVE  \/ leases'[l] = leases[l]
               \/ leases[l] # NoRow /\ (\E n \in Nat : leases'[l] = [leases[l] EXCEPT !.left = n])
    <3>1. leases'[l] = IF Holding(l) THEN [leases[l] EXCEPT !.left = Later(leases[l].left)]
                       ELSE leases[l]
      BY <1>1
    <3> QED
      BY <1>2, <3>1
  <2> QED
    BY <1>1, <2>1, <2>2, Retimes
<1>4. \A p \in Producer : RunOk(p)'
  BY <1>1, <1>3, OtherOk DEF SourceInv, StoreKept
<1> QED
  BY <1>1, <1>3, <1>4 DEF SourceInv, RunTypes, StoreKept

LEMMA EndTaskOk ==
    ASSUME SourceInv, NEW k \in Key, EndTask(k)
    PROVE  SourceInv' /\ Forward
<1>1. /\ tasks' = [tasks EXCEPT ![k] = "ended"]
      /\ UNCHANGED <<reservoirs, leases, staged, revived, run>>
  BY DEF EndTask, history
<1>2. TasksKept /\ KnownKept /\ TableTypes'
  BY <1>1 DEF TasksKept, KnownKept, Known, TableTypes, SourceInv
<1>3. StoreKept
  BY <1>1, <1>2, Untouched DEF SourceInv, TableTypes
<1>4. \A p \in Producer : RunOk(p)'
  BY <1>1, <1>2, <1>3, OtherOk DEF SourceInv, StoreKept
<1> QED
  BY <1>1, <1>2, <1>3, <1>4 DEF SourceInv, RunTypes, StoreKept

\* A step that reads or routes keeps what was read in view.
LEMMA PlanningOk ==
    ASSUME SourceInv, NEW p \in Producer, NEW l \in Lease, run[p].lease = {l},
           leases[l] # NoRow, run[p].at \in Reading,
           NEW s \in Run, run' = [run EXCEPT ![p] = s],
           s.lease = {l}, s.next = run[p].next, s.at \in Router \cup Reading, s.at # "unstage",
           \A k \in Key : k \in run[p].todo \/ k \in run[p].over =>
               k \in s.todo \/ k \in s.over \/ Known(k)',
           s.at \in {"renew", "finalize"} => s.todo = {} /\ s.over = {},
           StoreKept, TasksKept, KnownKept, TableTypes'
    PROVE  StepOk(p)
<1>1. /\ RunTypes' /\ run'[p] = s /\ \A q \in Producer : q # p => run'[q] = run[q]
  BY Moved DEF SourceInv
<1>2. ReadFrom(p, leases[l].reservoir, leases[l].from)'
  BY <1>1, ReadKept DEF SourceInv, RunOk, StoreKept
<1>3. RoutedOk(p)'
  BY <1>1 DEF RoutedOk
<1>4. leases'[l] # NoRow
  BY DEF StoreKept, RowsKept
<1>5. s.at \notin Unleased
  BY DEF Router, Reading, Unleased
<1>6. RunOk(p)'
  BY <1>1, <1>2, <1>3, <1>4, <1>5, ReadingOk
<1> QED
  BY <1>1, <1>6 DEF StepOk

LEMMA RunStepOk ==
    ASSUME SourceInv, NEW p \in Producer,
           Read(p) \/ PlanKey(p) \/ Stage(p) \/ KeepOwnership(p) \/ ReleaseRest(p) \/ RenewLast(p)
    PROVE  StepOk(p)
<1>0. /\ run[p] \in Run /\ LeaseOk(p) /\ ReadOk(p)
      /\ StoreInv /\ TableTypes /\ RunTypes
  BY DEF SourceInv, RunTypes, RunOk
<1>1. run[p].at \in {"read", "plan", "renew"}
  BY DEF Read, PlanKey, Stage, KeepOwnership, ReleaseRest, RenewLast, At
<1>2. PICK l \in Lease : run[p].lease = {l} /\ LeaseOf(p) = l /\ leases[l] # NoRow
  BY <1>0, <1>1, OwnLease DEF Router, Unleased
<1>3. /\ leases[l].reservoir \in Reservoir /\ leases[l].from \in 0 .. End - 1
  BY <1>0, <1>2, RowFacts DEF StoreInv
<1>4. CASE Read(p)
  <2> DEFINE m == LeaseOf(p)
  <2>1. PICK next \in leases[m].from + 1 .. End :
          run' = [run EXCEPT ![p].at = "plan", ![p].next = next,
                     ![p].todo = UNION {KeysAt[leases[m].reservoir][c] :
                                           c \in leases[m].from .. next - 1}]
    BY <1>4 DEF Read
  <2> DEFINE todo == UNION {KeysAt[leases[m].reservoir][c] : c \in leases[m].from .. next - 1}
             s == [run[p] EXCEPT !.at = "plan", !.next = next, !.todo = todo]
  <2>0. m = l
    BY <1>2
  <2>2. next \in 0 .. End /\ next - 1 \in 0 .. End - 1 /\ leases[l].from < next
    BY <1>3, <2>0, SourceAssumption
  <2>3. todo \subseteq Key
    <3>1. \A c \in leases[m].from .. next - 1 : c \in 0 .. End - 1
      BY <1>3, <2>0, <2>2, SourceAssumption
    <3>2. \A c \in 0 .. End - 1 : KeysAt[leases[m].reservoir][c] \subseteq Key
      BY <1>3, <2>0, SourceAssumption
    <3> HIDE DEF m
    <3> QED
      BY <3>1, <3>2
  <2>4. \A c \in 0 .. End - 1 : leases[l].from <= c /\ c < next =>
           \A k \in KeysAt[leases[l].reservoir][c] : k \in todo
    <3>1. \A c \in 0 .. End - 1 : leases[l].from <= c /\ c < next =>
             c \in leases[m].from .. next - 1
      BY <1>3, <2>0, <2>2, SourceAssumption
    <3> HIDE DEF m
    <3> QED
      BY <2>0, <3>1
  <2>5. run' = [run EXCEPT ![p] = s]
    BY <2>1
  <2> HIDE DEF m, todo
  <2>6. s \in Run
    BY <1>0, <2>2, <2>3 DEF Run
  <2>7. s.at = "plan" /\ s.lease = {l} /\ s.next = next /\ s.todo = todo
    BY <1>0, <1>2 DEF Run
  <2> HIDE DEF s
  <2>8. UNCHANGED <<reservoirs, leases, tasks, staged, revived>>
    BY <1>4 DEF Read, history, storeVars
  <2>9. StoreKept /\ TasksKept /\ KnownKept /\ TableTypes'
    BY <2>8, Unchanging
  <2>10. /\ RunTypes' /\ run'[p] = s /\ \A q \in Producer : q # p => run'[q] = run[q]
    BY <1>0, <2>5, <2>6, Moved
  <2>11. ReadFrom(p, leases[l].reservoir, leases[l].from)'
    BY <2>2, <2>4, <2>7, <2>8, <2>10 DEF ReadFrom
  <2>12. RunOk(p)'
    BY <1>2, <2>7, <2>8, <2>10, <2>11, ReadingOk DEF RoutedOk, Unleased
  <2> QED
    BY <2>9, <2>10, <2>12 DEF StepOk
<1>5. CASE PlanKey(p)
  <2>1. PICK k \in run[p].todo :
          \/ /\ \E x \in run[p].token : Convert(x, {k})
             /\ run' = [run EXCEPT ![p].todo = @ \ {k}]
          \/ /\ run' = [run EXCEPT ![p].todo = @ \ {k}, ![p].over = @ \cup {k}]
             /\ UNCHANGED <<tasks, reservations>>
    BY <1>5 DEF PlanKey
  <2>2. /\ k \in Key /\ run[p].at = "plan" /\ run[p].todo \subseteq Key /\ run[p].over \subseteq Key
        /\ UNCHANGED <<reservoirs, leases, staged, revived>>
    BY <1>0, <1>5 DEF PlanKey, At, history, Run
  <2>3. CASE /\ \E x \in run[p].token : Convert(x, {k})
             /\ run' = [run EXCEPT ![p].todo = @ \ {k}]
    <3> DEFINE s == [run[p] EXCEPT !.todo = run[p].todo \ {k}]
    <3>1. s \in Run /\ run' = [run EXCEPT ![p] = s]
      BY <1>0, <2>2, <2>3 DEF Run
    <3>2. /\ s.at = "plan" /\ s.lease = {l} /\ s.next = run[p].next
          /\ s.todo = run[p].todo \ {k} /\ s.over = run[p].over
      BY <1>0, <1>2, <2>2 DEF Run
    <3> HIDE DEF s
    <3>3. PICK x \in run[p].token : Convert(x, {k})
      BY <2>3
    <3>4. /\ TasksKept /\ KnownKept /\ tasks' \in [Key -> {"none", "open", "ended"}]
          /\ tasks'[k] # "none"
      <4>1. {k} \in SUBSET Key
        BY <2>2
      <4> QED
        BY <1>0, <2>2, <3>3, <4>1, Converts
    <3>5. StoreKept /\ TableTypes'
      BY <1>0, <2>2, <3>4, Untouched DEF TableTypes
    <3>6. Known(k)'
      BY <3>4 DEF Known
    <3>7. \A j \in Key : j \in run[p].todo \/ j \in run[p].over =>
               j \in s.todo \/ j \in s.over \/ Known(j)'
      BY <3>2, <3>6
    <3>8. run[p].at \in Reading /\ s.at \in Router \cup Reading /\ s.at # "unstage"
          /\ s.at \notin {"renew", "finalize"}
      BY <2>2, <3>2 DEF Reading
    <3> QED
      BY <1>2, <3>1, <3>2, <3>4, <3>5, <3>7, <3>8, PlanningOk
  <2>4. CASE /\ run' = [run EXCEPT ![p].todo = @ \ {k}, ![p].over = @ \cup {k}]
             /\ UNCHANGED <<tasks, reservations>>
    <3> DEFINE s == [run[p] EXCEPT !.todo = run[p].todo \ {k}, !.over = run[p].over \cup {k}]
    <3>1. s \in Run /\ run' = [run EXCEPT ![p] = s]
      BY <1>0, <2>2, <2>4 DEF Run
    <3>2. /\ s.at = "plan" /\ s.lease = {l} /\ s.next = run[p].next
          /\ s.todo = run[p].todo \ {k} /\ s.over = run[p].over \cup {k}
      BY <1>0, <1>2, <2>2 DEF Run
    <3> HIDE DEF s
    <3>3. StoreKept /\ TasksKept /\ KnownKept /\ TableTypes'
      BY <2>2, <2>4, Unchanging
    <3>4. \A j \in Key : j \in run[p].todo \/ j \in run[p].over =>
               j \in s.todo \/ j \in s.over \/ Known(j)'
      BY <3>2
    <3>5. run[p].at \in Reading /\ s.at \in Router \cup Reading /\ s.at # "unstage"
          /\ s.at \notin {"renew", "finalize"}
      BY <2>2, <3>2 DEF Reading
    <3> QED
      BY <1>2, <3>1, <3>2, <3>3, <3>4, <3>5, PlanningOk
  <2> QED
    BY <2>1, <2>3, <2>4
<1>6. CASE Stage(p)
  <2> DEFINE rows == run[p].over \X run[p].lease
             s == [run[p] EXCEPT !.at = "admit", !.over = {}, !.group = rows]
  <2>1. /\ staged' = staged \cup rows /\ run' = [run EXCEPT ![p] = s] /\ run[p].at = "plan"
        /\ UNCHANGED <<reservoirs, leases, tasks, revived>>
    BY <1>6 DEF Stage, history, At
  <2>2. rows \subseteq Key \X Lease
    BY <1>0 DEF Run
  <2>3. \A k \in run[p].over : <<k, l>> \in rows
    BY <1>2
  <2> HIDE DEF rows
  <2>4. s \in Run
    BY <1>0, <2>2 DEF Run
  <2>5. /\ s.at = "admit" /\ s.lease = {l} /\ s.next = run[p].next
        /\ s.todo = run[p].todo /\ s.over = {}
    BY <1>0, <1>2 DEF Run
  <2> HIDE DEF s
  <2>6. TasksKept /\ KnownKept /\ TableTypes'
    BY <1>0, <2>1, <2>2 DEF TasksKept, KnownKept, Known, TableTypes
  <2>7. StoreKept
    BY <1>0, <2>1, <2>6, Untouched DEF TableTypes
  <2>8. \A k \in Key : k \in run[p].todo \/ k \in run[p].over =>
               k \in s.todo \/ k \in s.over \/ Known(k)'
    BY <2>1, <2>3, <2>5 DEF Known
  <2>9. run[p].at \in Reading /\ s.at \in Router \cup Reading /\ s.at # "unstage"
        /\ s.at \notin {"renew", "finalize"}
    BY <2>1, <2>5 DEF Reading, Router
  <2> QED
    BY <1>2, <2>1, <2>4, <2>5, <2>6, <2>7, <2>8, <2>9, PlanningOk
<1>7. CASE KeepOwnership(p)
  <2> DEFINE X == {x \in run[p].token : Left(x) > 0}
  <2>1. run[p].at = "plan" /\ UNCHANGED <<reservoirs, tasks, staged, revived>>
    BY <1>7 DEF KeepOwnership, At, history
  <2>2. X \subseteq Reservation
    BY <1>0 DEF Run
  <2>3. CASE Renewable(l)
    <3>1. leases' = RenewedLeases(l) /\ run' = [run EXCEPT ![p].token = X]
      BY <1>2, <1>7, <2>3 DEF KeepOwnership
    <3> HIDE DEF X
    <3> DEFINE s == [run[p] EXCEPT !.token = X]
    <3>2. s \in Run /\ run' = [run EXCEPT ![p] = s]
      BY <1>0, <2>2, <3>1 DEF Run
    <3>3. /\ s.at = "plan" /\ s.lease = {l} /\ s.next = run[p].next
          /\ s.todo = run[p].todo /\ s.over = run[p].over
      BY <1>0, <1>2, <2>1 DEF Run
    <3> HIDE DEF s
    <3>4. StoreKept /\ TasksKept /\ KnownKept /\ TableTypes'
      BY <2>1, <2>3, <3>1, RenewsOk
    <3>5. run[p].at \in Reading /\ s.at \in Router \cup Reading /\ s.at # "unstage"
          /\ s.at \notin {"renew", "finalize"}
      BY <2>1, <3>3 DEF Reading
    <3> QED
      BY <1>2, <3>2, <3>3, <3>4, <3>5, PlanningOk
  <2>4. CASE ~Renewable(l)
    <3>1. leases' = leases /\ run' = [run EXCEPT ![p].token = X, ![p].at = "abort"]
      BY <1>2, <1>7, <2>4 DEF KeepOwnership
    <3> HIDE DEF X
    <3> DEFINE s == [run[p] EXCEPT !.token = X, !.at = "abort"]
    <3>2. s \in Run /\ run' = [run EXCEPT ![p] = s]
      BY <1>0, <2>2, <3>1 DEF Run
    <3>3. s.at = "abort" /\ s.lease = {l}
      BY <1>0, <1>2 DEF Run
    <3> HIDE DEF s
    <3>4. StoreKept /\ TasksKept /\ KnownKept /\ TableTypes'
      BY <2>1, <3>1, Unchanging
    <3> QED
      BY <1>2, <2>1, <3>2, <3>3, <3>4, LeasedGoes DEF Router, Unleased, Reading
  <2> QED
    BY <2>3, <2>4
<1>8. CASE ReleaseRest(p)
  <2> DEFINE s == [run[p] EXCEPT !.at = "renew", !.token = {}]
  <2>1. /\ run[p].at = "plan" /\ run[p].todo = {} /\ run[p].over = {}
        /\ UNCHANGED <<reservoirs, leases, tasks, staged, revived>>
    BY <1>8 DEF ReleaseRest, At, history
  <2>2. s \in Run /\ run' = [run EXCEPT ![p] = s]
    BY <1>0, <1>8 DEF ReleaseRest, Run
  <2>3. /\ s.at = "renew" /\ s.lease = {l} /\ s.next = run[p].next
        /\ s.todo = {} /\ s.over = {}
    BY <1>0, <1>2, <2>1 DEF Run
  <2> HIDE DEF s
  <2>4. StoreKept /\ TasksKept /\ KnownKept /\ TableTypes'
    BY <2>1, Unchanging
  <2>5. run[p].at \in Reading /\ s.at \in Router \cup Reading /\ s.at # "unstage"
    BY <2>1, <2>3 DEF Reading
  <2> QED
    BY <1>2, <2>1, <2>2, <2>3, <2>4, <2>5, PlanningOk
<1>9. CASE RenewLast(p)
  <2>1. /\ run[p].at = "renew" /\ UNCHANGED <<reservoirs, tasks, staged, revived>>
    BY <1>9 DEF RenewLast, At, history
  <2>2. run[p].todo = {} /\ run[p].over = {}
    BY <1>0, <1>2, <2>1 DEF ReadOk, ReadFrom, Reading
  <2>3. CASE Renewable(l)
    <3> DEFINE s == [run[p] EXCEPT !.at = "finalize"]
    <3>1. s \in Run /\ run' = [run EXCEPT ![p] = s] /\ leases' = RenewedLeases(l)
      BY <1>0, <1>2, <1>9, <2>3 DEF RenewLast, Goto, Run
    <3>2. /\ s.at = "finalize" /\ s.lease = {l} /\ s.next = run[p].next
          /\ s.todo = {} /\ s.over = {}
      BY <1>0, <1>2, <2>2 DEF Run
    <3> HIDE DEF s
    <3>3. StoreKept /\ TasksKept /\ KnownKept /\ TableTypes'
      BY <2>1, <2>3, <3>1, RenewsOk
    <3>4. run[p].at \in Reading /\ s.at \in Router \cup Reading /\ s.at # "unstage"
      BY <2>1, <3>2 DEF Reading
    <3> QED
      BY <1>2, <2>2, <3>1, <3>2, <3>3, <3>4, PlanningOk
  <2>4. CASE ~Renewable(l)
    <3> DEFINE s == [run[p] EXCEPT !.at = "abort"]
    <3>1. s \in Run /\ run' = [run EXCEPT ![p] = s] /\ leases' = leases
      BY <1>0, <1>2, <1>9, <2>4 DEF RenewLast, Goto, Run
    <3>2. s.at = "abort" /\ s.lease = {l}
      BY <1>0, <1>2 DEF Run
    <3> HIDE DEF s
    <3>3. StoreKept /\ TasksKept /\ KnownKept /\ TableTypes'
      BY <2>1, <3>1, Unchanging
    <3> QED
      BY <1>2, <2>1, <3>1, <3>2, <3>3, LeasedGoes DEF Router, Unleased, Reading
  <2> QED
    BY <2>3, <2>4
<1> QED
  BY <1>4, <1>5, <1>6, <1>7, <1>8, <1>9

LEMMA EndingOk ==
    ASSUME SourceInv, NEW p \in Producer,
           \/ Succeed(p) \/ FinalizeFails(p) \/ AbortLease(p) \/ AbortFails(p)
           \/ ReleaseToken(p) \/ RunFails(p) \/ Crash(p)
    PROVE  StepOk(p)
<1>0. /\ run[p] \in Run /\ LeaseOk(p) /\ ReadOk(p)
      /\ StoreInv /\ TableTypes /\ RunTypes
  BY DEF SourceInv, RunTypes, RunOk
<1>1. ASSUME NEW at \in {"abort", "release"}, Goto(p, at),
             run[p].at \notin Router \cup Unleased,
             StoreKept, TasksKept, KnownKept, TableTypes'
      PROVE  StepOk(p)
  <2> DEFINE s == [run[p] EXCEPT !.at = at]
  <2>1. s \in Run /\ run' = [run EXCEPT ![p] = s]
    BY <1>0, <1>1 DEF Goto, Run
  <2>2. s.at = at /\ s.lease = run[p].lease
    BY <1>0 DEF Run
  <2> HIDE DEF s
  <2> QED
    BY <1>1, <2>1, <2>2, LeasedGoes DEF Router, Unleased, Reading
<1>2. CASE Succeed(p)
  <2>1. PICK l \in Lease : run[p].lease = {l} /\ LeaseOf(p) = l /\ leases[l] # NoRow
    BY <1>0, <1>2, OwnLease DEF Succeed, At, Router, Unleased
  <2>2. /\ Finalize(l, run[p].next) /\ Stop(p) /\ run[p].at = "finalize"
        /\ UNCHANGED <<tasks, staged, revived>>
    BY <1>2, <2>1 DEF Succeed, At, history
  <2>3. run[p].next \in 0 .. End
    BY <1>0 DEF Run
  <2>4. /\ ReadFrom(p, leases[l].reservoir, leases[l].from)
        /\ run[p].todo = {} /\ run[p].over = {}
    BY <1>0, <2>1, <2>2 DEF ReadOk, ReadFrom, Reading
  <2>5. leases[l].from < run[p].next /\ leases[l].from \in 0 .. End - 1
        /\ leases[l].reservoir \in Reservoir
    BY <1>0, <2>1, <2>4, RowFacts DEF ReadFrom, StoreInv
  <2>6. KnownBelow(leases[l].reservoir, leases[l].from)
    BY <1>0, <2>1 DEF StoreInv, StartsOk
  <2>7. KnownBelow(leases[l].reservoir, run[p].next)
    <3>1. SUFFICES ASSUME NEW c \in 0 .. End - 1, c < run[p].next,
                          NEW k \in KeysAt[leases[l].reservoir][c]
                   PROVE  Known(k)
      BY DEF KnownBelow
    <3>2. CASE c < leases[l].from
      BY <2>6, <3>1, <3>2 DEF KnownBelow
    <3>3. CASE leases[l].from <= c
      BY <2>4, <3>1, <3>3 DEF ReadFrom
    <3> QED
      BY <2>5, <3>2, <3>3, SourceAssumption
  <2>8. StoreKept
    BY <1>0, <2>2, <2>3, <2>5, <2>7, Succeeds
  <2> QED
    BY <2>2, <2>8, StopOk
<1>3. CASE FinalizeFails(p) \/ RunFails(p)
  <2>1. /\ UNCHANGED <<reservoirs, leases, tasks, staged, revived>>
        /\ Goto(p, "abort") /\ run[p].at \in {"finalize", "plan"}
    BY <1>3 DEF FinalizeFails, RunFails, At, history, storeVars
  <2>2. StoreKept /\ TasksKept /\ KnownKept /\ TableTypes'
    BY <2>1, Unchanging
  <2> QED
    BY <1>1, <2>1, <2>2 DEF Router, Unleased
<1>4. CASE AbortLease(p)
  <2>1. PICK l \in Lease : run[p].lease = {l} /\ LeaseOf(p) = l /\ leases[l] # NoRow
    BY <1>0, <1>4, OwnLease DEF AbortLease, At, Router, Unleased
  <2>2. /\ Abort(l) /\ Goto(p, "release") /\ run[p].at = "abort"
        /\ UNCHANGED <<tasks, staged, revived>>
    BY <1>4, <2>1 DEF AbortLease, At, history
  <2>3. StoreKept
    BY <1>0, <2>2, Aborts
  <2>4. TasksKept /\ KnownKept /\ TableTypes'
    BY <1>0, <2>2, TablesKept
  <2> QED
    BY <1>1, <2>2, <2>3, <2>4 DEF Router, Unleased
<1>5. CASE AbortFails(p) \/ ReleaseToken(p) \/ Crash(p)
  <2>1. /\ UNCHANGED <<reservoirs, leases, tasks, staged, revived>> /\ Stop(p)
    BY <1>5 DEF AbortFails, ReleaseToken, Crash, history, storeVars
  <2>2. StoreKept
    BY <2>1, Unchanging
  <2> QED
    BY <2>1, <2>2, StopOk
<1> QED
  BY <1>2, <1>3, <1>4, <1>5

-----------------------------------------------------------------------------
(* The invariant holds.                                                    *)

LEMMA SourceStart ==
    ASSUME Init
    PROVE  SourceInv
<1>1. StoreTypes /\ TableTypes
  <2>1. leases \in [Lease -> LeaseRow \cup {NoRow}]
    BY DEF Init, StoreInit
  <2>2. reservoirs \in [Reservoir -> [state : {"READY", "LEASED", "EXHAUSTED"}, cursor : 0 .. End]]
    BY SourceAssumption DEF Init, StoreInit
  <2> QED
    BY <2>1, <2>2 DEF Init, StoreInit, StoreTypes, TableTypes
<1>2. ReadyOk /\ NothingForgotten
  BY SourceAssumption DEF Init, StoreInit, ReadyOk, NothingForgotten
<1>3. StartsOk
  BY DEF Init, StoreInit, StartsOk
<1>4. Lone
  BY DEF Init, StoreInit, Lone, Holding, NoRow
<1>5. RunTypes /\ \A p \in Producer : run[p] = Idle
  <2>1. Idle \in Run
    BY SourceAssumption DEF Idle, Run
  <2> QED
    BY <2>1 DEF Init, RunTypes
<1>6. \A p \in Producer : RunOk(p)
  BY <1>5 DEF Idle, RunOk, LeaseOk, ReadOk, RoutedOk, Unleased
<1> QED
  BY <1>1, <1>2, <1>3, <1>4, <1>5, <1>6 DEF SourceInv, StoreInv

LEMMA NextKeeps ==
    ASSUME SourceInv, [Next]_vars
    PROVE  SourceInv' /\ Forward
<1>1. ASSUME NEW p \in Producer, ProducerStep(p) \/ KeepOwnership(p) \/ RunFails(p) \/ Crash(p)
      PROVE  SourceInv' /\ Forward
  <2>1. StepOk(p)
    BY <1>1, RouterOk, GrantOk, RunStepOk, EndingOk DEF ProducerStep, RunStep
  <2> QED
    BY <2>1, StepKeeps
<1>2. CASE UNCHANGED vars
  <2>1. UNCHANGED <<reservoirs, leases, tasks, staged, revived, run>>
    BY <1>2 DEF vars, storeVars
  <2>2. StoreKept /\ TasksKept /\ KnownKept /\ TableTypes'
    BY <2>1, Unchanging
  <2>3. \A p \in Producer : RunOk(p)'
    BY <2>1, <2>2, OtherOk DEF SourceInv, StoreKept
  <2> QED
    BY <2>1, <2>2, <2>3 DEF SourceInv, RunTypes, StoreKept
<1> QED
  BY <1>1, <1>2, TickOk, EndTaskOk DEF Next

LEMMA SourceHolds == Spec => []SourceInv
<1>1. Init => SourceInv
  BY SourceStart
<1>2. SourceInv /\ [Next]_vars => SourceInv'
  BY NextKeeps
<1> QED
  BY <1>1, <1>2, PTL DEF Spec

-----------------------------------------------------------------------------
\* No cursor passes a chunk of which something is neither a task nor staged,
\* whatever processes crash, abort, or take each other's leases over
\* (finalize_lease, abort_lease, recover_expired_leases, the evidence router).
THEOREM SourceForgetsNothing == Spec => []NothingForgotten
<1>1. SourceInv => NothingForgotten
  BY DEF SourceInv, StoreInv
<1> QED
  BY <1>1, SourceHolds, PTL

\* A reservoir has one holder as long as save_lease(RUNNING) has not revived
\* a lease that had ended.
THEOREM SourceHeldOnce == Spec => []OneHolder
<1>1. SourceInv => OneHolder
  <2>1. SUFFICES ASSUME SourceInv, ~revived, NEW r \in Reservoir
                 PROVE  LET holders == {l \in Lease : Holding(l) /\ leases[l].reservoir = r} IN
                        IF reservoirs[r].state = "LEASED" THEN Cardinality(holders) = 1
                        ELSE holders = {}
    BY DEF OneHolder
  <2> DEFINE holders == {l \in Lease : Holding(l) /\ leases[l].reservoir = r}
  <2>2. Lone
    BY <2>1 DEF SourceInv, StoreInv
  <2>3. reservoirs[r].state # "LEASED" => holders = {}
    BY <2>1, <2>2 DEF Lone
  <2>4. ASSUME reservoirs[r].state = "LEASED"
        PROVE  Cardinality(holders) = 1
    <3>1. PICK l \in Lease : Holding(l) /\ leases[l].reservoir = r
      BY <2>1, <2>2, <2>4 DEF Lone
    <3>2. holders = {l}
      BY <2>1, <2>2, <3>1 DEF Lone
    <3> QED
      BY <3>2, FS_Singleton
  <2> QED
    BY <2>3, <2>4
<1> QED
  BY <1>1, SourceHolds, PTL

\* As long as no lease is revived, no step takes a cursor back.
THEOREM SourceMovesForward == Spec => CursorMovesForward
<1>1. SourceInv /\ [Next]_vars =>
          [revived' \/ \A r \in Reservoir :
                          reservoirs'[r].cursor >= reservoirs[r].cursor]_vars
  BY NextKeeps DEF Forward
<1> QED
  BY <1>1, SourceHolds, PTL DEF Spec, CursorMovesForward

-----------------------------------------------------------------------------
(* The backlog.  An open task and a promised slot are counted by two sets, *)
(* so that a step is judged by the elements it adds and takes away.        *)

ReservationTypes == reservations \in [Reservation -> [amount : Nat, left : Nat]]

BacklogInv == TableTypes /\ ReservationTypes /\ BacklogBounded

SlotsOf(x) == {x} \X (1 .. Left(x))

\* Sets without a common element count separately.
LEMMA DisjointSize ==
    ASSUME NEW S, NEW T, IsFiniteSet(S), IsFiniteSet(T), S \cap T = {}
    PROVE  Cardinality(S \cup T) = Cardinality(S) + Cardinality(T)
<1>1. Cardinality(S) \in Nat /\ Cardinality(T) \in Nat
  BY FS_CardinalityType
<1>2. Cardinality(S \cap T) = 0
  BY FS_EmptySet
<1>3. Cardinality(S \cup T) = Cardinality(S) + Cardinality(T) - Cardinality(S \cap T)
  BY FS_Union
<1> QED
  BY <1>1, <1>2, <1>3

\* Slots are counted by natural numbers.
LEMMA LeftType ==
    ASSUME ReservationTypes, NEW x \in Reservation
    PROVE  Left(x) \in Nat
  BY DEF ReservationTypes, Left

\* The slots of one reservation above the m-th, up to the n-th.
LEMMA IntervalSize ==
    ASSUME NEW x, NEW m \in Nat, NEW n \in Nat, m <= n
    PROVE  /\ IsFiniteSet({x} \X (m + 1 .. n))
           /\ Cardinality({x} \X (m + 1 .. n)) = n - m
<1>1. IsFiniteSet({x}) /\ Cardinality({x}) = 1
  BY FS_Singleton
<1>2. IsFiniteSet(m + 1 .. n) /\ Cardinality(m + 1 .. n) = n - m
  <2>1. m + 1 \in Int /\ n \in Int
    OBVIOUS
  <2>2. /\ IsFiniteSet(m + 1 .. n)
        /\ Cardinality(m + 1 .. n) = IF m + 1 > n THEN 0 ELSE n - (m + 1) + 1
    BY <2>1, FS_Interval
  <2> QED
    BY <2>2
<1>3. n - m \in Nat
  OBVIOUS
<1> QED
  BY <1>1, <1>2, <1>3, FS_Product

\* There are finitely many tasks and slots, because the tables are finite.
LEMMA BacklogFinite ==
    ASSUME ReservationTypes
    PROVE  /\ IsFiniteSet(OpenTasks) /\ Cardinality(OpenTasks) \in Nat
           /\ IsFiniteSet(Promised) /\ Cardinality(Promised) \in Nat
<1>1. IsFiniteSet(OpenTasks)
  BY TablesFinite, FS_Subset DEF OpenTasks
<1>2. \A x \in Reservation : IsFiniteSet(SlotsOf(x))
  <2> SUFFICES ASSUME NEW x \in Reservation
               PROVE  IsFiniteSet(SlotsOf(x))
    OBVIOUS
  <2>1. Left(x) \in Nat /\ 0 <= Left(x)
    BY LeftType
  <2>2. IsFiniteSet({x} \X (0 + 1 .. Left(x)))
    BY <2>1, IntervalSize
  <2> QED
    BY <2>2 DEF SlotsOf
<1>3. IsFiniteSet({SlotsOf(x) : x \in Reservation})
  <2> DEFINE f == [x \in Reservation |-> SlotsOf(x)]
  <2>1. f \in Surjection(Reservation, {SlotsOf(x) : x \in Reservation})
    BY DEF Surjection
  <2> QED
    BY <2>1, TablesFinite, FS_Surjection
<1>4. Promised = UNION {SlotsOf(x) : x \in Reservation}
  BY DEF Promised, SlotsOf
<1>5. IsFiniteSet(Promised)
  BY <1>2, <1>3, <1>4, FS_UNION
<1> QED
  BY <1>1, <1>5, FS_CardinalityType

\* No task is opened and no reservation has more slots than it had.
Relaxed ==
    /\ \A k \in Key : tasks'[k] = "open" => tasks[k] = "open"
    /\ \A x \in Reservation : Left(x)' <= Left(x)

LEMMA RelaxedKeeps ==
    ASSUME BacklogInv, ReservationTypes', Relaxed
    PROVE  BacklogBounded'
<1>1. OpenTasks' \subseteq OpenTasks
  BY DEF Relaxed, OpenTasks
<1>2. \A x \in Reservation : Left(x) \in Nat /\ Left(x)' \in Nat
  BY DEF BacklogInv, ReservationTypes, Left
<1>3. \A x \in Reservation : 1 .. Left(x)' \subseteq 1 .. Left(x)
  BY <1>2 DEF Relaxed
<1>4. Promised' \subseteq Promised
  BY <1>3 DEF Promised
<1>5. /\ Cardinality(OpenTasks') <= Cardinality(OpenTasks)
      /\ Cardinality(Promised') <= Cardinality(Promised)
  BY <1>1, <1>4, BacklogFinite, FS_Subset DEF BacklogInv
<1>6. /\ Cardinality(OpenTasks) \in Nat /\ Cardinality(Promised) \in Nat
      /\ Cardinality(OpenTasks') \in Nat /\ Cardinality(Promised') \in Nat
  <2>1. Cardinality(OpenTasks) \in Nat /\ Cardinality(Promised) \in Nat
    BY BacklogFinite DEF BacklogInv
  <2>2. IsFiniteSet(OpenTasks') /\ IsFiniteSet(Promised')
    BY <1>1, <1>4, BacklogFinite, FS_Subset DEF BacklogInv
  <2> QED
    BY <2>1, <2>2, FS_CardinalityType
<1>7. Capacity \in Nat
  BY SourceAssumption
<1> QED
  BY <1>5, <1>6, <1>7 DEF BacklogInv, BacklogBounded, Occupied

\* A reservation is written, where there was room for it.
LEMMA ReservedKeeps ==
    ASSUME BacklogInv, NEW x \in Reservation, NEW amount \in Nat, NEW ttl \in Nat,
           Reserve(x, amount, ttl), tasks' = tasks
    PROVE  ReservationTypes' /\ BacklogBounded'
<1>1. Purged \in [Reservation -> [amount : Nat, left : Nat]]
  BY DEF BacklogInv, ReservationTypes, Purged, Free
<1>2. ReservationTypes'
  BY <1>1 DEF ReservationTypes, Reserve
<1>3. /\ Left(x)' <= amount
      /\ \A y \in Reservation \ {x} : Left(y)' = Left(y)
  BY <1>1 DEF Reserve, Left, Purged, Free, BacklogInv, ReservationTypes
<1>4. \A y \in Reservation : Left(y) \in Nat /\ Left(y)' \in Nat
  BY <1>2 DEF BacklogInv, ReservationTypes, Left
<1>5. 1 .. Left(x)' \subseteq 0 + 1 .. amount
  BY <1>3, <1>4
<1>6. Promised' \subseteq Promised \cup ({x} \X (0 + 1 .. amount))
  BY <1>3, <1>5 DEF Promised
<1>7. OpenTasks' = OpenTasks
  BY DEF OpenTasks
<1> DEFINE new == {x} \X (0 + 1 .. amount)
<1>8. IsFiniteSet(new) /\ Cardinality(new) = amount
  <2>1. 0 <= amount /\ amount - 0 = amount
    OBVIOUS
  <2> QED
    BY <2>1, IntervalSize
<1> HIDE DEF new
<1>9. /\ IsFiniteSet(Promised) /\ Cardinality(Promised) \in Nat
      /\ Cardinality(OpenTasks) \in Nat
  BY BacklogFinite DEF BacklogInv
<1>10. /\ IsFiniteSet(Promised \cup new)
       /\ Cardinality(Promised \cup new) <= Cardinality(Promised) + amount
  <2>1. IsFiniteSet(Promised \cap new) /\ Cardinality(Promised \cap new) \in Nat
    BY <1>9, FS_Intersection, FS_CardinalityType
  <2>2. /\ IsFiniteSet(Promised \cup new)
        /\ Cardinality(Promised \cup new)
           = Cardinality(Promised) + amount - Cardinality(Promised \cap new)
    BY <1>8, <1>9, FS_Union
  <2> QED
    BY <1>9, <2>1, <2>2
<1>11. /\ Cardinality(Promised') <= Cardinality(Promised \cup new)
       /\ Cardinality(Promised') \in Nat /\ Cardinality(Promised \cup new) \in Nat
  BY <1>6, <1>10, FS_Subset, FS_CardinalityType DEF new
<1>12. Cardinality(OpenTasks) + Cardinality(Promised) + amount <= Capacity
  BY DEF Reserve, Occupied
<1> QED
  BY <1>2, <1>7, <1>9, <1>10, <1>11, <1>12, SourceAssumption
     DEF BacklogBounded, Occupied

\* Every task that a conversion opens takes a slot of its reservation.
LEMMA ConvertedKeeps ==
    ASSUME BacklogInv, NEW x \in Reservation, NEW K \in SUBSET Key, Convert(x, K)
    PROVE  ReservationTypes' /\ BacklogBounded'
<1> DEFINE n == Cardinality(NewKeys(K))
           rest == Left(x) - n
           gone == {x} \X (rest + 1 .. Left(x))
<1>1. IsFiniteSet(NewKeys(K)) /\ n \in Nat
  <2>1. NewKeys(K) \subseteq Key
    BY DEF NewKeys
  <2> QED
    BY <2>1, TablesFinite, FS_Subset, FS_CardinalityType
<1>2. /\ Left(x) \in Nat /\ Left(x) > 0 /\ n <= Left(x)
      /\ reservations[x].left > 0 /\ Left(x) = reservations[x].amount
      /\ reservations[x] \in [amount : Nat, left : Nat]
  <2>1. reservations[x] \in [amount : Nat, left : Nat]
    BY DEF BacklogInv, ReservationTypes
  <2>2. Left(x) > 0 /\ n <= Left(x)
    BY DEF Convert
  <2> QED
    BY <2>1, <2>2 DEF Left
<1>3. rest \in Nat
  BY <1>1, <1>2
<1>4. /\ tasks' = [k \in Key |-> IF k \in NewKeys(K) THEN "open" ELSE tasks[k]]
      /\ reservations' = [reservations EXCEPT ![x] =
            IF rest = 0 THEN Free ELSE [reservations[x] EXCEPT !.amount = rest]]
  BY DEF Convert, BacklogInv, ReservationTypes
<1> HIDE DEF n, rest
<1>5. ReservationTypes'
  BY <1>2, <1>3, <1>4 DEF BacklogInv, ReservationTypes, Free
<1>6. /\ Left(x)' = rest
      /\ \A y \in Reservation \ {x} : Left(y)' = Left(y)
  BY <1>2, <1>3, <1>4 DEF BacklogInv, ReservationTypes, Left, Free
<1>7. Promised = Promised' \cup gone /\ Promised' \cap gone = {}
  <2>0. rest <= Left(x)
    BY <1>1, <1>2 DEF rest
  <2>1. 1 .. Left(x) = (1 .. rest) \cup (rest + 1 .. Left(x))
    BY <1>2, <1>3, <2>0
  <2>2. (1 .. rest) \cap (rest + 1 .. Left(x)) = {}
    BY <1>2, <1>3
  <2>3. Promised = Promised' \cup gone
    BY <1>6, <2>1 DEF Promised
  <2>4. \A s \in Promised' : s \notin gone
    BY <1>6, <2>2 DEF Promised
  <2> QED
    BY <2>3, <2>4
<1>8. IsFiniteSet(gone) /\ Cardinality(gone) = n
  <2>1. rest <= Left(x) /\ Left(x) - rest = n
    BY <1>1, <1>2 DEF rest
  <2> QED
    BY <1>2, <1>3, <2>1, IntervalSize
<1> HIDE DEF gone
<1>9. IsFiniteSet(Promised) /\ IsFiniteSet(OpenTasks)
  BY BacklogFinite DEF BacklogInv
<1>10. IsFiniteSet(Promised') /\ Cardinality(Promised') \in Nat
  BY <1>7, <1>9, FS_Subset, FS_CardinalityType
<1>11. Cardinality(Promised) = Cardinality(Promised') + n
  BY <1>7, <1>8, <1>10, DisjointSize
<1>12. OpenTasks' = OpenTasks \cup NewKeys(K)
  BY <1>4 DEF OpenTasks, NewKeys, BacklogInv, TableTypes
<1>13. OpenTasks \cap NewKeys(K) = {}
  BY DEF OpenTasks, NewKeys
<1>14. /\ Cardinality(OpenTasks') = Cardinality(OpenTasks) + n
       /\ Cardinality(OpenTasks) \in Nat
  BY <1>1, <1>9, <1>12, <1>13, DisjointSize, FS_CardinalityType DEF n
<1> QED
  BY <1>1, <1>5, <1>10, <1>11, <1>14
     DEF BacklogInv, BacklogBounded, Occupied

\* A producer reserves as many slots as a group has rows, or a fixed number.
LEMMA GroupSize ==
    ASSUME RunTypes, NEW p \in Producer
    PROVE  /\ Cardinality(run[p].group) \in Nat
           /\ KeysIn(run[p].group) \in SUBSET Key
           /\ run[p].token \subseteq Reservation /\ run[p].ticket \subseteq Reservation
           /\ run[p].todo \subseteq Key
<1>1. /\ run[p].group \subseteq Key \X Lease
      /\ run[p].token \subseteq Reservation /\ run[p].ticket \subseteq Reservation
      /\ run[p].todo \subseteq Key
  BY DEF RunTypes, Run
<1>2. IsFiniteSet(Key \X Lease)
  BY TablesFinite, FS_Product
<1>3. IsFiniteSet(run[p].group)
  BY <1>1, <1>2, FS_Subset
<1>4. KeysIn(run[p].group) \in SUBSET Key
  BY <1>1 DEF KeysIn
<1> QED
  BY <1>1, <1>3, <1>4, FS_CardinalityType

\* Steps after which no reservation has more slots.
LEMMA RelaxedSteps ==
    ASSUME BacklogInv
    PROVE  /\ tasks' = tasks /\ reservations' = reservations => Relaxed /\ ReservationTypes'
           /\ tasks' = tasks /\ reservations' = Purged => Relaxed /\ ReservationTypes'
           /\ \A X \in SUBSET Reservation :
                 tasks' = tasks /\ reservations' = Released(X)
                 => Relaxed /\ ReservationTypes'
           /\ \A X \in SUBSET Reservation :
                 /\ tasks' = tasks /\ reservations' = RenewedReservations(X)
                 /\ \A x \in X : Left(x) > 0
                 => Relaxed /\ ReservationTypes'
           /\ tasks' = tasks /\ TimePasses => Relaxed /\ ReservationTypes'
           /\ \A k \in Key : EndTask(k) => Relaxed /\ ReservationTypes'
<1>0. /\ \A x \in Reservation : /\ reservations[x].amount \in Nat
                                /\ reservations[x].left \in Nat
                                /\ reservations[x] \in [amount : Nat, left : Nat]
      /\ Free.amount = 0 /\ Free.left = 0 /\ Free \in [amount : Nat, left : Nat]
      /\ reservations \in [Reservation -> [amount : Nat, left : Nat]]
  BY DEF BacklogInv, ReservationTypes, Free
<1> HIDE DEF BacklogInv
<1>1. ASSUME tasks' = tasks, reservations' = reservations
      PROVE  Relaxed /\ ReservationTypes'
  BY <1>0, <1>1 DEF Relaxed, Left, ReservationTypes
<1>2. ASSUME tasks' = tasks, reservations' = Purged
      PROVE  Relaxed /\ ReservationTypes'
  BY <1>0, <1>2 DEF Relaxed, Left, ReservationTypes, Purged
<1>3. ASSUME NEW X \in SUBSET Reservation, tasks' = tasks, reservations' = Released(X)
      PROVE  Relaxed /\ ReservationTypes'
  BY <1>0, <1>3 DEF Relaxed, Left, ReservationTypes, Released
<1>4. ASSUME NEW X \in SUBSET Reservation, tasks' = tasks,
             reservations' = RenewedReservations(X), \A x \in X : Left(x) > 0
      PROVE  Relaxed /\ ReservationTypes'
  <2>1. ReservationTypes'
    BY <1>0, <1>4, SourceAssumption DEF ReservationTypes, RenewedReservations
  <2>2. ASSUME NEW x \in Reservation
        PROVE  Left(x)' <= Left(x)
    <3>1. reservations'[x].amount = reservations[x].amount
      BY <1>0, <1>4 DEF RenewedReservations
    <3>2. reservations[x].left = 0 => reservations'[x] = reservations[x]
      BY <1>0, <1>4 DEF RenewedReservations, Left
    <3> QED
      BY <1>0, <3>1, <3>2 DEF Left
  <2> QED
    BY <1>4, <2>1, <2>2 DEF Relaxed
<1>5. ASSUME tasks' = tasks, TimePasses
      PROVE  Relaxed /\ ReservationTypes'
  <2>1. \A x \in Reservation :
           /\ reservations'[x].amount = reservations[x].amount
           /\ reservations'[x].left = Later(reservations[x].left)
    BY <1>0, <1>5 DEF TimePasses
  <2>2. \A n \in Nat : Later(n) \in Nat /\ (n = 0 => Later(n) = 0)
    BY DEF Later
  <2>3. reservations' \in [Reservation -> [amount : Nat, left : Nat]]
    BY <1>0, <1>5, <2>2 DEF TimePasses
  <2> QED
    BY <1>0, <1>5, <2>1, <2>2, <2>3 DEF Relaxed, Left, ReservationTypes
<1>6. ASSUME NEW k \in Key, EndTask(k)
      PROVE  Relaxed /\ ReservationTypes'
  BY <1>0, <1>6 DEF EndTask, Relaxed, Left, ReservationTypes, BacklogInv, TableTypes
<1> QED
  BY <1>1, <1>2, <1>3, <1>4, <1>5, <1>6

\* Every step of every process keeps the lane within its capacity.
LEMMA BacklogStep == SourceInv /\ BacklogInv /\ [Next]_vars => ReservationTypes' /\ BacklogBounded'
<1> SUFFICES ASSUME SourceInv, BacklogInv, [Next]_vars
             PROVE  ReservationTypes' /\ BacklogBounded'
  OBVIOUS
<1>0. RunTypes
  BY DEF SourceInv
<1>1. ASSUME Relaxed /\ ReservationTypes'
      PROVE  ReservationTypes' /\ BacklogBounded'
  BY <1>1, RelaxedKeeps
<1>2. (NewReservation \in Unused /\ NewReservation \in Reservation) \/ Unused = {}
  BY DEF NewReservation, Unused
<1>3. ASSUME NEW p \in Producer, RouterStep(p)
      PROVE  ReservationTypes' /\ BacklogBounded'
  <2>1. CASE Admit(p)
    BY <1>0, <1>2, <2>1, GroupSize, ReservedKeeps, SourceAssumption DEF Admit
  <2>2. CASE AdmitRefused(p)
    BY <1>1, <2>2, RelaxedSteps DEF AdmitRefused, ReserveRefused
  <2>3. CASE ConvertGroup(p)
    BY <1>0, <2>3, GroupSize, ConvertedKeeps DEF ConvertGroup
  <2>4. CASE ConvertFails(p)
    BY <1>0, <1>1, <2>4, GroupSize, RelaxedSteps DEF ConvertFails
  <2>5. CASE Unstage(p)
    BY <1>1, <2>5, RelaxedSteps DEF Unstage
  <2>6. CASE ReleaseTicket(p)
    BY <1>0, <1>1, <2>6, GroupSize, RelaxedSteps DEF ReleaseTicket
  <2> QED
    BY <1>3, <2>1, <2>2, <2>3, <2>4, <2>5, <2>6 DEF RouterStep
<1>4. ASSUME NEW p \in Producer, Choose(p)
      PROVE  ReservationTypes' /\ BacklogBounded'
  <2>1. Slots \in Nat /\ GrantTtl \in Nat
    BY SourceAssumption, ProducerAssumption
  <2>2. CASE Unused # {} /\ Reserve(NewReservation, Slots, GrantTtl)
    BY <1>2, <1>4, <2>1, <2>2, ReservedKeeps DEF Choose
  <2>3. CASE ReserveRefused(Slots)
    BY <1>1, <1>4, <2>3, RelaxedSteps DEF Choose, ReserveRefused
  <2> QED
    BY <1>4, <2>2, <2>3 DEF Choose
<1>5. ASSUME NEW p \in Producer, GrantStep(p)
      PROVE  ReservationTypes' /\ BacklogBounded'
  <2>1. CASE tasks' = tasks /\ reservations' = reservations
    BY <1>1, <2>1, RelaxedSteps
  <2>2. CASE FlushGroup(p)
    BY <1>1, <2>2, RelaxedSteps DEF FlushGroup
  <2>3. CASE LeaseRefused(p)
    BY <1>0, <1>1, <2>3, GroupSize, RelaxedSteps DEF LeaseRefused
  <2> QED
    BY <1>4, <1>5, <2>1, <2>2, <2>3
       DEF GrantStep, Begin, Recover, NothingToRun, TakeLease, Bind, CheckGranted,
           SaveRunning, storeVars
<1>6. ASSUME NEW p \in Producer, PlanKey(p)
      PROVE  ReservationTypes' /\ BacklogBounded'
  <2>1. ASSUME NEW k \in run[p].todo, NEW x \in run[p].token, Convert(x, {k})
        PROVE  ReservationTypes' /\ BacklogBounded'
    BY <1>0, <2>1, GroupSize, ConvertedKeeps
  <2>2. CASE UNCHANGED <<tasks, reservations>>
    BY <1>1, <2>2, RelaxedSteps
  <2> QED
    BY <1>6, <2>1, <2>2 DEF PlanKey
<1>7. ASSUME NEW p \in Producer, RunStep(p)
      PROVE  ReservationTypes' /\ BacklogBounded'
  <2>1. CASE tasks' = tasks /\ reservations' = reservations
    BY <1>1, <2>1, RelaxedSteps
  <2>2. CASE ReleaseRest(p)
    BY <1>0, <1>1, <2>2, GroupSize, RelaxedSteps DEF ReleaseRest
  <2>3. CASE ReleaseToken(p)
    BY <1>0, <1>1, <2>3, GroupSize, RelaxedSteps DEF ReleaseToken
  <2> QED
    BY <1>6, <1>7, <2>1, <2>2, <2>3
       DEF RunStep, Read, Stage, RenewLast, Succeed, FinalizeFails, AbortLease,
           AbortFails, storeVars
<1>8. ASSUME NEW p \in Producer, KeepOwnership(p)
      PROVE  ReservationTypes' /\ BacklogBounded'
  <2> DEFINE X == {x \in run[p].token : Left(x) > 0}
  <2>1. X \in SUBSET Reservation /\ \A x \in X : Left(x) > 0
    BY <1>0, GroupSize
  <2>2. reservations' = RenewedReservations(X) /\ tasks' = tasks
    BY <1>8 DEF KeepOwnership
  <2> HIDE DEF X
  <2> QED
    BY <1>1, <2>1, <2>2, RelaxedSteps
<1>9. ASSUME UNCHANGED storeVars
      PROVE  ReservationTypes' /\ BacklogBounded'
  BY <1>1, <1>9, RelaxedSteps DEF storeVars
<1>10. ASSUME NEW k \in Key, EndTask(k)
       PROVE  ReservationTypes' /\ BacklogBounded'
  BY <1>1, <1>10, RelaxedSteps
<1>11. CASE Tick
  BY <1>1, <1>11, RelaxedSteps DEF Tick
<1> QED
  BY <1>3, <1>5, <1>7, <1>8, <1>9, <1>10, <1>11
     DEF Next, ProducerStep, RunFails, Crash, vars

\* However many producers reserve, convert, renew, spill over, crash and come
\* back, the open tasks and the slots of live reservations never exceed the
\* capacity of the lane.
THEOREM SourceBacklogBounded == Spec => []BacklogBounded
<1>1. Init => ReservationTypes /\ BacklogBounded
  <2> SUFFICES ASSUME Init
               PROVE  ReservationTypes /\ BacklogBounded
    OBVIOUS
  <2>1. ReservationTypes
    BY DEF Init, StoreInit, ReservationTypes, Free
  <2>2. \A x \in Reservation : Left(x) = 0
    BY DEF Init, StoreInit, Left, Free
  <2>3. Promised = {}
    BY <2>2 DEF Promised
  <2>4. OpenTasks = {}
    BY DEF Init, StoreInit, OpenTasks
  <2> QED
    BY <2>1, <2>3, <2>4, FS_EmptySet, SourceAssumption DEF BacklogBounded, Occupied
<1>2. SourceInv /\ ReservationTypes /\ BacklogBounded /\ [Next]_vars
      => ReservationTypes' /\ BacklogBounded'
  BY BacklogStep DEF BacklogInv, SourceInv
<1> QED
  BY <1>1, <1>2, SourceHolds, PTL DEF Spec
=============================================================================
