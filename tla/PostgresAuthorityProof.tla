---------------------- MODULE PostgresAuthorityProof ----------------------
(***************************************************************************)
(* What the tables of PostgresAuthority keep, for every number of          *)
(* processes, workers and tasks: the fences of the leases, the streams of  *)
(* the inbox, and the abstract inbox.                                      *)
(*                                                                         *)
(* A call reads in one statement what it relies on in a later one.  PgInv  *)
(* says of each statement what the call still knows when it comes to it,   *)
(* and why: the row it was read from is locked, and a session writes no    *)
(* row that another has locked (LocksApart, Foreign).  With it every       *)
(* COMMIT is a TableStep: a step of FabricAuthority, or one that differs   *)
(* from it in the times it writes, which may be older than now.            *)
(***************************************************************************)
EXTENDS PostgresAuthority, FabricAuthorityProof

-----------------------------------------------------------------------------
(* Rows by key.                                                            *)

\* The keys of the three tables are apart.
LEMMA KeysApart ==
    /\ \A t, u : WorkKey(t) = WorkKey(u) <=> t = u
    /\ \A v, w : WorkerKey(v) = WorkerKey(w) <=> v = w
    /\ \A t, u, m, n : BatchKey(t, m) = BatchKey(u, n) <=> t = u /\ m = n
    /\ \A t, w : WorkKey(t) # WorkerKey(w)
    /\ \A t, u, n : BatchKey(t, n) # WorkKey(u)
    /\ \A t, w, n : BatchKey(t, n) # WorkerKey(w)
    /\ \A t : WorkKey(t)[1] # "batch" /\ WorkKey(t)[2] = t
    /\ \A w : WorkerKey(w)[1] # "batch"
    /\ \A t, n : BatchKey(t, n)[1] = "batch"
<1>1. /\ \A t : WorkKey(t)[1] = "work" /\ WorkKey(t)[2] = t
      /\ \A w : WorkerKey(w)[1] = "worker" /\ WorkerKey(w)[2] = w
      /\ \A t, n : /\ BatchKey(t, n)[1] = "batch" /\ BatchKey(t, n)[2] = t
                   /\ BatchKey(t, n)[3] = n
  BY DEF WorkKey, WorkerKey, BatchKey
<1>2. "work" # "worker" /\ "work" # "batch" /\ "worker" # "batch"
  OBVIOUS
<1> QED BY <1>1, <1>2

LEMMA OverRows ==
    ASSUME NEW rows, NEW others
    PROVE  /\ DOMAIN Over(rows, others) = DOMAIN rows \cup DOMAIN others
           /\ \A k \in DOMAIN rows : Over(rows, others)[k] = rows[k]
           /\ \A k \in DOMAIN others \ DOMAIN rows :
                 Over(rows, others)[k] = others[k]
BY DEF Over

\* Rows over no rows.
LEMMA OverNoRows ==
    ASSUME NEW key, NEW row
    PROVE  /\ Over(RowAt(key, row), NoRows) = RowAt(key, row)
           /\ DOMAIN RowAt(key, row) = {key}
           /\ RowAt(key, row)[key] = row
           /\ Over(NoRows, NoRows) = NoRows
           /\ DOMAIN NoRows = {}
<1>1. DOMAIN NoRows = {}
  BY DEF NoRows
<1>2. DOMAIN RowAt(key, row) = {key} /\ RowAt(key, row)[key] = row
  BY DEF RowAt
<1>3. Over(RowAt(key, row), NoRows) = [k \in {key} |-> row]
  BY <1>1, <1>2 DEF Over, RowAt
<1>4. Over(NoRows, NoRows) = [k \in {} |-> NoRows[k]]
  BY <1>1 DEF Over
<1>5. NoRows = [k \in {} |-> NoRows[k]]
  BY <1>1 DEF NoRows
<1> QED BY <1>1, <1>2, <1>3, <1>4, <1>5 DEF RowAt

-----------------------------------------------------------------------------
(* What the sessions that commit know.  A session whose connection a bare  *)
(* read has left open commits nothing more, and all that is known of it is *)
(* that it has the fields of a connection.                                 *)

Op(s) == session[s].op

Locked(s, key) == key \in session[s].locks

Fields == {"open", "kept", "held", "op", "rows", "locks"}

Shape ==
    /\ DOMAIN session = Session
    /\ \A s \in Session : /\ DOMAIN session[s] = Fields
                          /\ session[s].open \in BOOLEAN

LocksApart ==
    \A s, o \in Session :
       s # o /\ ~session[s].open /\ ~session[o].open
       => session[s].locks \cap session[o].locks = {}

\* Between the two UPDATEs of register_worker and revoke_worker.
Releasing(s) ==
    LET w == Op(s).worker IN
    /\ w \in Worker
    /\ Locked(s, WorkerKey(w))
    /\ \/ /\ Op(s).spared \in Instance
          /\ session[s].rows =
               RowAt(WorkerKey(w), [inst |-> Op(s).spared, revoked |-> FALSE])
       \/ /\ Op(s).spared = NULL
          /\ workers[w].inst # NULL
          /\ session[s].rows =
               RowAt(WorkerKey(w), [workers[w] EXCEPT !.revoked = TRUE])

\* The identity of a claim stays known, because its row is locked.
Claiming(s) ==
    /\ Op(s).worker \in Worker /\ Op(s).inst \in Instance
    /\ Op(s).at \in 1 .. now
    /\ Locked(s, WorkerKey(Op(s).worker))
    /\ Known(Op(s).worker, Op(s).inst)

\* The candidate stays free to be leased.
Granting(s) ==
    \A t \in Op(s).task :
       /\ t \in Task
       /\ Locked(s, WorkKey(t))
       /\ \/ work[t].state \in {"PENDING", "RETRY"}
          \/ work[t].state = "LEASED" /\ work[t].deadline <= Op(s).at

\* The row of the lease, found LEASED, stays as it was found.
Holding(s) ==
    /\ Op(s).task \in Task
    /\ Locked(s, WorkKey(Op(s).task))
    /\ work[Op(s).task].state = "LEASED"

Updating(s) ==
    /\ Op(s).at \in 1 .. now
    /\ Op(s).step = "renew" =>
         /\ Op(s).expected \in Nat
         /\ work[Op(s).task].deadline <= Op(s).at + LeaseSeconds
    /\ Op(s).step = "fail" =>
         Op(s).retryable \in BOOLEAN /\ Op(s).delay \in RetryDelay

BatchOf(s) ==
    /\ Op(s).task \in Task
    /\ Op(s).at \in 1 .. now
    /\ Op(s).entry \in Inbox!Entry

Inserting(s) ==
    /\ work[Op(s).task].gen = Op(s).entry.gen
    /\ work[Op(s).task].nextSeq = Op(s).seq

CallInv(s) ==
    ~session[s].open =>
       /\ session[s].kept = NoRows
       /\ Op(s).step # "release" => session[s].rows = NoRows
       /\ Op(s).step = "release" => Releasing(s)
       /\ Op(s).step \in {"active", "candidate", "grant"} => Claiming(s)
       /\ Op(s).step = "grant" => Granting(s)
       /\ Op(s).step \in {"renew", "finish", "fail"} => Holding(s) /\ Updating(s)
       /\ Op(s).step \in {"lease", "insert"} => BatchOf(s)
       /\ Op(s).step = "insert" => Holding(s) /\ Inserting(s)

SessionsInv == Shape /\ LocksApart /\ \A s \in Session : CallInv(s)

TablesInv == StreamInv /\ LeaseOfKnownIncarnation /\ LeaseBounded

PgInv == TablesInv /\ SessionsInv

-----------------------------------------------------------------------------
(* What the statements do to a connection.                                 *)

Becomes(s, open, kept, op, rows, locks) ==
    /\ DOMAIN session' = Session
    /\ DOMAIN session'[s] = Fields
    /\ session'[s].open = open /\ session'[s].kept = kept
    /\ session'[s].op = op /\ session'[s].rows = rows
    /\ session'[s].locks = locks
    /\ \A o \in Session \ {s} : session'[o] = session[o]

LEMMA BeginsFields ==
    ASSUME Shape, NEW s \in Session, NEW op, NEW rows, NEW locks,
           Begins(s, op, rows, locks)
    PROVE  Becomes(s, session[s].open, session[s].kept, op,
                   Over(rows, session[s].rows), locks)
BY DEF Shape, Fields, Begins, Becomes

LEMMA ContinuesFields ==
    ASSUME Shape, NEW s \in Session, NEW op, NEW locks, Continues(s, op, locks)
    PROVE  Becomes(s, session[s].open, session[s].kept, op, session[s].rows,
                   session[s].locks \cup locks)
BY DEF Shape, Fields, Continues, Becomes

LEMMA RaisesFields ==
    ASSUME Shape, NEW s \in Session, Raises(s)
    PROVE  Becomes(s, session[s].open, session[s].kept, Idle, session[s].kept, {})
BY DEF Shape, Fields, Raises, Becomes

LEMMA ReadsFields ==
    ASSUME Shape, NEW s \in Session, Reads(s)
    PROVE  Becomes(s, TRUE, session[s].kept, session[s].op, session[s].rows,
                   session[s].locks)
BY DEF Shape, Fields, Reads, Becomes

LEMMA ConnectedFields ==
    ASSUME Shape, NEW s \in Session, session' = [session EXCEPT ![s] = Connected]
    PROVE  Becomes(s, FALSE, NoRows, Idle, NoRows, {})
<1>1. session'[s] = Connected
  BY DEF Shape
<1> QED BY <1>1 DEF Shape, Fields, Connected, Becomes

LEMMA ReleasesFields ==
    ASSUME Shape, NEW s \in Session, NEW rows, NEW locks, Releases(s, rows, locks)
    PROVE  Becomes(s, TRUE, Over(rows, session[s].rows), Idle,
                   Over(rows, session[s].rows), {})
<1>1. session'[s] = [open |-> TRUE, op |-> Idle,
                     kept |-> Over(rows, session[s].rows),
                     rows |-> Over(rows, session[s].rows), locks |-> {},
                     held |-> session[s].held \cup session[s].locks \cup locks]
  BY DEF Shape, Releases
<1> QED BY <1>1 DEF Shape, Fields, Releases, Becomes

-----------------------------------------------------------------------------
(* What one session does to the others: it writes no row they have locked. *)

\* No other session that may commit has locked the key.
Foreign(s, key) ==
    \A o \in Session \ {s} : ~session[o].open => key \notin session[o].locks

LEMMA FreeIsForeign ==
    ASSUME NEW s \in Session, NEW keys, Free(s, keys), NEW key \in keys
    PROVE  Foreign(s, key)
BY DEF Free, LockedByOthers, Foreign

LEMMA LockedIsForeign ==
    ASSUME LocksApart, NEW s \in Session, ~session[s].open, NEW key, Locked(s, key)
    PROVE  Foreign(s, key)
BY DEF LocksApart, Locked, Foreign

\* A call that another session's step leaves alone knows what it knew.
LEMMA CallKept ==
    ASSUME NEW o \in Session, CallInv(o), session'[o] = session[o],
           now \in Nat, now' \in Nat, now' >= now,
           \A t \in Task : ~session[o].open /\ Locked(o, WorkKey(t))
                           => work'[t] = work[t],
           \A w \in Worker : ~session[o].open /\ Locked(o, WorkerKey(w))
                             => workers'[w] = workers[w]
    PROVE  CallInv(o)'
<1> SUFFICES ASSUME ~session[o].open
             PROVE  CallInv(o)'
  BY DEF CallInv
<1>1. Op(o)' = Op(o) /\ \A key : Locked(o, key)' <=> Locked(o, key)
  BY DEF Op, Locked
<1>2. Op(o).at \in 1 .. now => Op(o).at \in 1 .. now'
  OBVIOUS
<1>3. Releasing(o) => Releasing(o)'
  BY <1>1 DEF Releasing
<1>4. Claiming(o) => Claiming(o)'
  BY <1>1, <1>2 DEF Claiming, Known
<1>5. Granting(o) => Granting(o)'
  BY <1>1 DEF Granting
<1>6. Holding(o) => Holding(o)' /\ work'[Op(o).task] = work[Op(o).task]
  BY <1>1 DEF Holding
<1>7. Holding(o) /\ Updating(o) => Updating(o)'
  BY <1>1, <1>2, <1>6 DEF Updating
<1>8. BatchOf(o) => BatchOf(o)'
  BY <1>1, <1>2 DEF BatchOf
<1>9. Holding(o) /\ Inserting(o) => Inserting(o)'
  BY <1>1, <1>6 DEF Inserting
<1> QED BY <1>1, <1>3, <1>4, <1>5, <1>6, <1>7, <1>8, <1>9 DEF CallInv

LEMMA SessionMoves ==
    ASSUME SessionsInv, NEW s \in Session, NEW open \in BOOLEAN, NEW kept,
           NEW op, NEW rows, NEW locks, Becomes(s, open, kept, op, rows, locks),
           \/ open
           \/ locks = {}
           \/ ~session[s].open /\ \A key \in locks : Foreign(s, key),
           now \in Nat, now' \in Nat, now' >= now,
           \A t \in Task : work'[t] = work[t] \/ Foreign(s, WorkKey(t)),
           \A w \in Worker : workers'[w] = workers[w] \/ Foreign(s, WorkerKey(w)),
           CallInv(s)'
    PROVE  SessionsInv'
<1>1. Shape'
  <2>1. \A o \in Session \ {s} : session'[o] = session[o]
    BY DEF Becomes
  <2> QED BY <2>1 DEF SessionsInv, Shape, Becomes
<1>2. LocksApart'
  <2>1. \A o \in Session \ {s} : session'[o] = session[o]
    BY DEF Becomes
  <2>2. /\ session'[s].open = open /\ session'[s].locks = locks
    BY DEF Becomes
  <2>3. \A o \in Session \ {s} :
           ~open /\ ~session[o].open => locks \cap session[o].locks = {}
    BY DEF Foreign
  <2>4. LocksApart
    BY DEF SessionsInv
  <2> QED BY <2>1, <2>2, <2>3, <2>4 DEF LocksApart
<1>3. ASSUME NEW o \in Session \ {s}
      PROVE  CallInv(o)'
  <2>1. CallInv(o) /\ session'[o] = session[o]
    BY DEF SessionsInv, Becomes
  <2>2. /\ \A t \in Task : ~session[o].open /\ Locked(o, WorkKey(t))
                           => work'[t] = work[t]
        /\ \A w \in Worker : ~session[o].open /\ Locked(o, WorkerKey(w))
                             => workers'[w] = workers[w]
    BY DEF Foreign, Locked
  <2> QED BY <2>1, <2>2, CallKept
<1> QED BY <1>1, <1>2, <1>3 DEF SessionsInv

-----------------------------------------------------------------------------
(* What a session that may commit sees, and what its COMMIT writes.        *)

\* Rows of the inbox that are not written over stay, and so do the streams.
LEMMA InboxUnwritten ==
    ASSUME TypeOK, NEW rows, \A k \in DOMAIN rows : k[1] # "batch"
    PROVE  BatchesWith(rows) = batches /\ StreamWith(rows) = stream
<1>1. BatchesWith(rows) = batches
  BY KeysApart DEF BatchesWith
<1>2. ASSUME NEW t \in Task
      PROVE  {b \in BatchesWith(rows) : b.task = t /\ Stored(t, b.seq) = {}} = {}
  BY <1>1 DEF Stored
<1>3. StreamWith(rows) = [t \in Task |-> stream[t]]
  BY <1>2 DEF StreamWith
<1> QED BY <1>1, <1>3 DEF TypeOK

LEMMA SeesTables ==
    ASSUME TypeOK, NEW s \in Session, session[s].rows = NoRows
    PROVE  /\ WorkersWith(session[s].rows) = workers
           /\ SeenWork(s) = work
           /\ SeenBatches(s) = batches
<1>1. DOMAIN NoRows = {}
  BY OverNoRows
<1>2. BatchesWith(NoRows) = batches
  BY <1>1, InboxUnwritten
<1>3. WorkersWith(NoRows) = workers /\ WorkWith(NoRows) = work
  BY <1>1 DEF WorkersWith, WorkWith, TypeOK
<1> QED BY <1>2, <1>3 DEF SeenWork, SeenBatches

\* One row of fabric_work.
LEMMA WorkWritten ==
    ASSUME TypeOK, NEW t \in Task, NEW row
    PROVE  LET rows == RowAt(WorkKey(t), row) IN
           /\ WorkersWith(rows) = workers
           /\ WorkWith(rows) = [work EXCEPT ![t] = row]
           /\ BatchesWith(rows) = batches
           /\ StreamWith(rows) = stream
<1> DEFINE rows == RowAt(WorkKey(t), row)
<1>1. DOMAIN rows = {WorkKey(t)} /\ rows[WorkKey(t)] = row
  BY OverNoRows
<1> HIDE DEF rows
<1>2. BatchesWith(rows) = batches /\ StreamWith(rows) = stream
  BY <1>1, KeysApart, InboxUnwritten
<1>3. WorkersWith(rows) = workers
  BY <1>1, KeysApart DEF WorkersWith, TypeOK
<1>4. WorkWith(rows) = [work EXCEPT ![t] = row]
  <2>1. \A u \in Task : WorkKey(u) \in DOMAIN rows <=> u = t
    BY <1>1, KeysApart
  <2>2. WorkWith(rows) = [u \in Task |-> IF u = t THEN row ELSE work[u]]
    BY <1>1, <2>1 DEF WorkWith
  <2> QED BY <2>2 DEF TypeOK
<1> QED BY <1>2, <1>3, <1>4 DEF rows

\* One row of fabric_result_batches that is present.
LEMMA BatchWritten ==
    ASSUME StreamInv, NEW b \in batches, NEW row,
           row.task = b.task, row.seq = b.seq
    PROVE  LET rows == RowAt(BatchKey(b.task, b.seq), row) IN
           /\ WorkersWith(rows) = workers
           /\ WorkWith(rows) = work
           /\ BatchesWith(rows) = Replaced(b, row)
           /\ StreamWith(rows) = stream
<1> DEFINE key == BatchKey(b.task, b.seq)
           rows == RowAt(key, row)
<1>1. DOMAIN rows = {key} /\ rows[key] = row
  BY OverNoRows
<1>0. TypeOK
  BY DEF StreamInv
<1> HIDE DEF rows
<1>2. WorkersWith(rows) = workers /\ WorkWith(rows) = work
  BY <1>0, <1>1, KeysApart DEF WorkersWith, WorkWith, TypeOK
<1>3. {c \in batches : BatchKey(c.task, c.seq) \notin DOMAIN rows}
        = batches \ {b}
  BY <1>1, KeysApart DEF StreamInv, InboxMatchesStream
<1>4. {rows[k] : k \in {k \in DOMAIN rows : k[1] = "batch"}} = {row}
  BY <1>1, KeysApart
<1>5. BatchesWith(rows) = Replaced(b, row)
  BY <1>3, <1>4 DEF BatchesWith, Replaced
<1>6. ASSUME NEW t \in Task
      PROVE  {c \in BatchesWith(rows) : c.task = t /\ Stored(t, c.seq) = {}} = {}
  BY <1>5 DEF Replaced, Stored
<1>7. StreamWith(rows) = [t \in Task |-> stream[t]]
  BY <1>6 DEF StreamWith
<1> QED BY <1>0, <1>2, <1>5, <1>7 DEF TypeOK, rows

\* A batch that is not, and the row of its task.
LEMMA BatchInserted ==
    ASSUME TypeOK, NEW t \in Task, NEW n, Stored(t, n) = {}, NEW batch, NEW row,
           batch.task = t, batch.seq = n
    PROVE  LET rows == Over(RowAt(BatchKey(t, n), batch), RowAt(WorkKey(t), row))
           IN
           /\ WorkersWith(rows) = workers
           /\ WorkWith(rows) = [work EXCEPT ![t] = row]
           /\ BatchesWith(rows) = batches \cup {batch}
           /\ StreamWith(rows) = [stream EXCEPT ![t] = Append(@, batch.entry)]
<1> DEFINE rows == Over(RowAt(BatchKey(t, n), batch), RowAt(WorkKey(t), row))
<1>1. /\ DOMAIN rows = {BatchKey(t, n), WorkKey(t)}
      /\ rows[BatchKey(t, n)] = batch
      /\ rows[WorkKey(t)] = row
  <2> DEFINE added == RowAt(BatchKey(t, n), batch)
             updated == RowAt(WorkKey(t), row)
  <2>1. BatchKey(t, n) # WorkKey(t)
    BY KeysApart
  <2>2. /\ DOMAIN added = {BatchKey(t, n)} /\ added[BatchKey(t, n)] = batch
        /\ DOMAIN updated = {WorkKey(t)} /\ updated[WorkKey(t)] = row
    BY OverNoRows
  <2> HIDE DEF added, updated
  <2>3. /\ DOMAIN Over(added, updated) = DOMAIN added \cup DOMAIN updated
        /\ \A k \in DOMAIN added : Over(added, updated)[k] = added[k]
        /\ \A k \in DOMAIN updated \ DOMAIN added :
              Over(added, updated)[k] = updated[k]
    BY OverRows
  <2> QED BY <2>1, <2>2, <2>3 DEF added, updated
<1> HIDE DEF rows
<1>2. WorkersWith(rows) = workers
  BY <1>1, KeysApart DEF WorkersWith, TypeOK
<1>3. WorkWith(rows) = [work EXCEPT ![t] = row]
  <2>1. \A u \in Task : WorkKey(u) \in DOMAIN rows <=> u = t
    BY <1>1, KeysApart
  <2>2. WorkWith(rows) = [u \in Task |-> IF u = t THEN row ELSE work[u]]
    BY <1>1, <2>1 DEF WorkWith
  <2> QED BY <2>2 DEF TypeOK
<1>4. BatchesWith(rows) = batches \cup {batch}
  <2>1. {b \in batches : BatchKey(b.task, b.seq) \notin DOMAIN rows} = batches
    BY <1>1, KeysApart DEF Stored
  <2>2. {rows[k] : k \in {k \in DOMAIN rows : k[1] = "batch"}} = {batch}
    <3>1. {k \in DOMAIN rows : k[1] = "batch"} = {BatchKey(t, n)}
      BY <1>1, KeysApart
    <3> QED BY <1>1, <3>1
  <2> QED BY <2>1, <2>2 DEF BatchesWith
<1>5. StreamWith(rows) = [stream EXCEPT ![t] = Append(@, batch.entry)]
  <2> DEFINE added(u) == {b \in BatchesWith(rows) : b.task = u
                                                   /\ Stored(u, b.seq) = {}}
  <2>1. added(t) = {batch}
    BY <1>4 DEF Stored
  <2>2. \A u \in Task \ {t} : added(u) = {}
    BY <1>4 DEF Stored
  <2>3. (CHOOSE b \in {batch} : TRUE) = batch
    OBVIOUS
  <2>4. StreamWith(rows)
          = [u \in Task |-> IF added(u) = {} THEN stream[u]
                            ELSE Append(stream[u],
                                        (CHOOSE b \in added(u) : TRUE).entry)]
    BY DEF StreamWith
  <2> HIDE DEF added
  <2>5. StreamWith(rows)
          = [u \in Task |-> IF u = t THEN Append(stream[t], batch.entry)
                                     ELSE stream[u]]
    BY <2>1, <2>2, <2>3, <2>4
  <2> QED BY <2>5 DEF TypeOK
<1> QED BY <1>2, <1>3, <1>4, <1>5 DEF rows

\* The worker row of a registration or revocation, and the rows it releases.
LEMMA ReleaseWritten ==
    ASSUME TypeOK, NEW w \in Worker, NEW who, NEW ts \in SUBSET Task,
           NEW released,
           \A k \in DOMAIN released : \E t \in ts : k = WorkKey(t),
           \A t \in ts : /\ WorkKey(t) \in DOMAIN released
                         /\ released[WorkKey(t)] = Unowned(work[t], "PENDING")
    PROVE  LET rows == Over(released, RowAt(WorkerKey(w), who)) IN
           /\ WorkersWith(rows) = [workers EXCEPT ![w] = who]
           /\ WorkWith(rows) = Released(ts)
           /\ BatchesWith(rows) = batches
           /\ StreamWith(rows) = stream
<1> DEFINE row == RowAt(WorkerKey(w), who)
           rows == Over(released, row)
<1>1. /\ DOMAIN rows = DOMAIN released \cup {WorkerKey(w)}
      /\ rows[WorkerKey(w)] = who
      /\ \A t \in ts : rows[WorkKey(t)] = Unowned(work[t], "PENDING")
  <2>1. WorkerKey(w) \notin DOMAIN released
    BY KeysApart
  <2>2. DOMAIN row = {WorkerKey(w)} /\ row[WorkerKey(w)] = who
    BY OverNoRows
  <2> HIDE DEF row
  <2> QED BY <2>1, <2>2 DEF Over
<1>2. /\ \A t \in Task : WorkKey(t) \in DOMAIN rows <=> t \in ts
      /\ \A v \in Worker : WorkerKey(v) \in DOMAIN rows <=> v = w
      /\ \A k \in DOMAIN rows : k[1] # "batch"
  BY <1>1, KeysApart
<1> HIDE DEF rows
<1>3. BatchesWith(rows) = batches /\ StreamWith(rows) = stream
  BY <1>2, InboxUnwritten
<1>4. WorkWith(rows) = Released(ts)
  BY <1>1, <1>2 DEF WorkWith, Released
<1>5. WorkersWith(rows) = [v \in Worker |-> IF v = w THEN who ELSE workers[v]]
  BY <1>1, <1>2 DEF WorkersWith
<1>6. WorkersWith(rows) = [workers EXCEPT ![w] = who]
  BY <1>5 DEF TypeOK
<1> QED BY <1>3, <1>4, <1>6 DEF rows, row

-----------------------------------------------------------------------------
(* What a COMMIT, or the clock, does to the tables.  Registration, release,*)
(* admission and settlement are the actions of FabricAuthority; the others *)
(* write times that are older than now, and are described by what they     *)
(* leave of the row.                                                       *)

\* The row, which nobody holds, is leased to a known identity.
Granted(t, row) ==
    /\ \/ work[t].state \in {"PENDING", "RETRY"}
       \/ work[t].state = "LEASED" /\ work[t].deadline <= now
    /\ row.state = "LEASED"
    /\ row.gen = work[t].gen + 1
    /\ row.owner \in Worker
    /\ Known(row.owner, row.ownerInst)
    /\ row.deadline <= now + LeaseSeconds

SameHolder(t, row) ==
    /\ row.owner = work[t].owner
    /\ row.ownerInst = work[t].ownerInst

Renewed(t, row) ==
    /\ work[t].state = "LEASED" /\ row.state = "LEASED"
    /\ row.gen = work[t].gen
    /\ SameHolder(t, row)
    /\ work[t].deadline <= row.deadline
    /\ row.deadline <= now + LeaseSeconds

Ended(t, row) ==
    /\ work[t].state = "LEASED"
    /\ row.state \in {"RETRY", "DEAD", "COMPLETE"}
    /\ row.gen = work[t].gen

Rewrites(t, row) ==
    /\ work' = [work EXCEPT ![t] = row]
    /\ UNCHANGED <<now, workers, batches, stream>>
    /\ row.nextSeq = work[t].nextSeq
    /\ row.compacted = work[t].compacted
    /\ Granted(t, row) \/ Renewed(t, row) \/ Ended(t, row)

Inserts(t, entry, row, batch) ==
    /\ Accepts(t, entry, row, batch)
    /\ UNCHANGED <<now, workers>>
    /\ row.state = "LEASED" =>
         SameHolder(t, row) /\ row.deadline = work[t].deadline

StoreStep ==
    \/ \E w \in Worker, i \in Instance : Register(w, i)
    \/ \E w \in Worker : Revoke(w)
    \/ \E t \in Task, d \in RetryDelay : Admit(t, now + d)
    \/ \E b \in batches : Consume(b)
    \/ \E b \in batches : ConsumeFail(b)
    \/ Tick

TableStep ==
    \/ StoreStep
    \/ \E t \in Task, row \in WorkRow : Rewrites(t, row)
    \/ \E t \in Task, entry \in Inbox!Entry, row \in WorkRow, batch \in BatchRow :
          Inserts(t, entry, row, batch)
    \/ UNCHANGED vars

LEMMA StoreStepIsNext == StoreStep => Next
BY DEF StoreStep, Next

\* The two kinds of steps that are not steps of FabricAuthority.
LEMMA RewritesStream ==
    ASSUME StreamInv, NEW t \in Task, NEW row \in WorkRow, Rewrites(t, row)
    PROVE  StreamInv'
<1>1. TypeOK /\ TypeOK'
  BY DEF StreamInv, TypeOK, Rewrites
<1>2. row.gen >= work[t].gen
  <2>1. work[t].gen \in Nat
    BY <1>1 DEF TypeOK, WorkRow
  <2> QED BY <2>1 DEF Rewrites, Granted, Renewed, Ended
<1>3. work[t].state # "COMPLETE"
  BY DEF Rewrites, Granted, Renewed, Ended
<1>4. \A u \in Task : QuietRow(u)
  BY <1>1, <1>2, <1>3, OneRow DEF Rewrites
<1>5. QuietInbox /\ stream' = stream
  BY UntouchedInbox DEF Rewrites
<1> QED BY <1>1, <1>4, <1>5, QuietStep

LEMMA InsertsStream ==
    ASSUME StreamInv, NEW t \in Task, NEW entry \in Inbox!Entry,
           NEW row \in WorkRow, NEW batch \in BatchRow,
           Inserts(t, entry, row, batch)
    PROVE  StreamInv'
<1>1. entry \in Entry
  BY AuthorityAssumption DEF Inbox!Entry, Entry
<1>2. TypeOK'
  <2>1. stream' \in [Task -> Seq(Entry)]
    BY <1>1 DEF Inserts, Accepts, StreamInv, TypeOK
  <2>2. work' \in [Task -> WorkRow] /\ batches' \subseteq BatchRow
    BY DEF Inserts, Accepts, StreamInv, TypeOK
  <2> QED BY <2>1, <2>2 DEF Inserts, StreamInv, TypeOK
<1> QED BY <1>2, CommitStep DEF Inserts

\* The fences of the work table survive every commit.
LEMMA TablesStep == TablesInv /\ TableStep => TablesInv'
<1> SUFFICES ASSUME TablesInv, TableStep
             PROVE  TablesInv'
  OBVIOUS
<1> USE AuthorityAssumption
<1>0. /\ StreamInv /\ TypeOK /\ now \in Nat
      /\ \A t \in Task : work[t] \in WorkRow /\ work[t].deadline \in Nat
  BY DEF TablesInv, StreamInv, TypeOK, WorkRow
<1>1. ASSUME NEW t \in Task, NEW row, work' = [work EXCEPT ![t] = row],
             UNCHANGED <<now, workers>>,
             row.state = "LEASED" => /\ row.owner \in Worker
                                     /\ Known(row.owner, row.ownerInst)
                                     /\ row.deadline <= now + LeaseSeconds
      PROVE  (LeaseOfKnownIncarnation /\ LeaseBounded)'
  <2>1. work'[t] = row /\ \A u \in Task \ {t} : work'[u] = work[u]
    BY <1>0, <1>1 DEF TypeOK
  <2> QED BY <1>1, <2>1
          DEF TablesInv, LeaseOfKnownIncarnation, LeaseBounded, Known
<1>2. ASSUME NEW t \in Task, NEW row \in WorkRow, Rewrites(t, row)
      PROVE  TablesInv'
  <2>1. row.state = "LEASED" => /\ row.owner \in Worker
                                /\ Known(row.owner, row.ownerInst)
                                /\ row.deadline <= now + LeaseSeconds
    BY <1>2 DEF Rewrites, Granted, Renewed, Ended, SameHolder, TablesInv,
                LeaseOfKnownIncarnation
  <2>2. (LeaseOfKnownIncarnation /\ LeaseBounded)'
    BY <1>1, <1>2, <2>1 DEF Rewrites
  <2> QED BY <1>0, <1>2, <2>2, RewritesStream DEF TablesInv
<1>3. ASSUME NEW t \in Task, NEW entry \in Inbox!Entry, NEW row \in WorkRow,
             NEW batch \in BatchRow, Inserts(t, entry, row, batch)
      PROVE  TablesInv'
  <2>1. row.state = "LEASED" => /\ row.owner \in Worker
                                /\ Known(row.owner, row.ownerInst)
                                /\ row.deadline <= now + LeaseSeconds
    BY <1>3 DEF Inserts, Accepts, SameHolder, TablesInv,
                LeaseOfKnownIncarnation, LeaseBounded
  <2>2. (LeaseOfKnownIncarnation /\ LeaseBounded)'
    BY <1>1, <1>3, <2>1 DEF Inserts, Accepts
  <2> QED BY <1>0, <1>3, <2>2, InsertsStream DEF TablesInv
<1>4. ASSUME UNCHANGED <<workers, work>>, now' \in Nat, now' >= now, StreamInv'
      PROVE  TablesInv'
  BY <1>0, <1>4 DEF TablesInv, LeaseOfKnownIncarnation, Known, LeaseBounded
<1>5. ASSUME NEW ts \in SUBSET Task, work' = Released(ts), now' = now
      PROVE  LeaseBounded'
  BY <1>0, <1>5, ReleaseStep DEF TablesInv, LeaseBounded
<1>6. ASSUME NEW w \in Worker, NEW i \in Instance, Register(w, i)
      PROVE  (LeaseOfKnownIncarnation /\ LeaseBounded)'
  BY <1>0, <1>5, <1>6, RegisterKeepsKnown DEF TablesInv, Register, LeasedTo
<1>7. ASSUME NEW w \in Worker, Revoke(w)
      PROVE  (LeaseOfKnownIncarnation /\ LeaseBounded)'
  BY <1>0, <1>5, <1>7, RevokeKeepsKnown DEF TablesInv, Revoke, LeasedTo
<1>8. ASSUME NEW t \in Task, NEW d \in RetryDelay, Admit(t, now + d)
      PROVE  (LeaseOfKnownIncarnation /\ LeaseBounded)'
  <2> DEFINE row == [work[t] EXCEPT !.state = "PENDING",
                                    !.notBefore = now + d]
  <2>1. work' = [work EXCEPT ![t] = row] /\ row.state = "PENDING"
    BY <1>0, <1>8 DEF Admit, TypeOK, WorkRow
  <2> HIDE DEF row
  <2> QED BY <1>1, <1>8, <2>1 DEF Admit
<1>9. CASE StoreStep
  <2>1. StreamInv'
    BY <1>0, <1>9, StoreStepIsNext, StreamInvStep
  <2>2. CASE Tick
    BY <1>0, <1>4, <2>1, <2>2 DEF Tick
  <2>3. ASSUME NEW b \in batches, Consume(b) \/ ConsumeFail(b)
        PROVE  TablesInv'
    BY <1>0, <1>4, <2>1, <2>3 DEF Consume, ConsumeFail
  <2> QED BY <1>6, <1>7, <1>8, <1>9, <2>1, <2>2, <2>3 DEF StoreStep, TablesInv
<1>10. CASE UNCHANGED vars
  <2>1. StreamInv'
    BY <1>0, <1>10, StreamInvStep
  <2> QED BY <1>0, <1>4, <1>10, <2>1 DEF vars
<1> QED BY <1>2, <1>3, <1>9, <1>10 DEF TableStep

\* The readers see a step of the abstract inbox or nothing.
LEMMA TableImplements == TablesInv /\ TableStep => [Inbox!Next]_(Inbox!vars)
<1> SUFFICES ASSUME TablesInv, TableStep
             PROVE  [Inbox!Next]_(Inbox!vars)
  OBVIOUS
<1>0. StreamInv /\ TypeOK
  BY DEF TablesInv, StreamInv
<1>1. CASE StoreStep \/ UNCHANGED vars
  BY <1>0, <1>1, StoreStepIsNext, StepImplements
<1>2. ASSUME NEW t \in Task, NEW row \in WorkRow, Rewrites(t, row)
      PROVE  [Inbox!Next]_(Inbox!vars)
  <2>1. /\ work' = [work EXCEPT ![t] = row] /\ UNCHANGED <<batches, stream>>
        /\ work[t].state \notin Terminal
    BY <1>2 DEF Rewrites, Granted, Renewed, Ended, Terminal
  <2>2. CASE row.state \in Terminal
    BY <1>0, <2>1, <2>2, RowCloses DEF Inbox!Next
  <2>3. CASE row.state \notin Terminal
    <3>1. SameClosing
      BY <1>0, <2>1, <2>3, RowStaysOpen
    <3> QED BY <2>1, <3>1, ClosedUnchanged, UnreadUnchanged DEF Inbox!vars
  <2> QED BY <2>2, <2>3
<1>3. ASSUME NEW t \in Task, NEW entry \in Inbox!Entry, NEW row \in WorkRow,
             NEW batch \in BatchRow, Inserts(t, entry, row, batch)
      PROVE  [Inbox!Next]_(Inbox!vars)
  BY <1>0, <1>3, AcceptsNext DEF Inserts
<1> QED BY <1>1, <1>2, <1>3 DEF TableStep

\* A row that was leased keeps its generation while the lease is alive, and
\* its deadline does not go back while the generation lasts.
LEMMA TableKeepsLeases ==
    ASSUME TablesInv, TableStep, NEW t \in Task
    PROVE  /\ work[t].state = "LEASED" /\ work[t].deadline > now
              => work'[t].gen = work[t].gen
           /\ /\ work[t].state = "LEASED" /\ work'[t].state = "LEASED"
              /\ work'[t].gen = work[t].gen
              => work'[t].deadline >= work[t].deadline
<1> DEFINE Unmoved == /\ work'[t].gen = work[t].gen
                      /\ work'[t].state = "LEASED"
                         => work'[t].deadline = work[t].deadline
<1>0. /\ TypeOK /\ now \in Nat
      /\ \A u \in Task : /\ work[u] \in WorkRow /\ work[u].gen \in Nat
                         /\ work[u].deadline \in Nat
  BY DEF TablesInv, StreamInv, TypeOK, WorkRow
<1>1. CASE work[t].state # "LEASED"
  BY <1>1
<1>2. ASSUME NEW u \in Task, NEW row, work' = [work EXCEPT ![u] = row], u # t
      PROVE  work'[t] = work[t]
  BY <1>0, <1>2 DEF TypeOK
<1>3. ASSUME NEW ts \in SUBSET Task, work' = Released(ts)
      PROVE  Unmoved
  <2>1. CASE t \in ts
    BY <1>0, <1>3, <2>1, ReleaseStep DEF Unleased
  <2>2. CASE t \notin ts
    BY <1>0, <1>3, <2>2, ReleaseStep
  <2> QED BY <2>1, <2>2
<1>4. ASSUME StoreStep, work[t].state = "LEASED"
      PROVE  Unmoved
  <2>1. ASSUME NEW w \in Worker, NEW i \in Instance, Register(w, i)
        PROVE  Unmoved
    BY <1>3, <2>1 DEF Register, LeasedTo
  <2>2. ASSUME NEW w \in Worker, Revoke(w)
        PROVE  Unmoved
    BY <1>3, <2>2 DEF Revoke, LeasedTo
  <2>3. ASSUME NEW u \in Task, NEW d \in RetryDelay, Admit(u, now + d)
        PROVE  work'[t] = work[t]
    BY <1>0, <1>4, <2>3 DEF Admit, TypeOK
  <2> QED BY <1>4, <2>1, <2>2, <2>3
          DEF StoreStep, Consume, ConsumeFail, Tick
<1>5. ASSUME NEW u \in Task, NEW row \in WorkRow, Rewrites(u, row),
             work[t].state = "LEASED"
      PROVE  /\ work[t].deadline > now => work'[t].gen = work[t].gen
             /\ work'[t].state = "LEASED" /\ work'[t].gen = work[t].gen
                => work'[t].deadline >= work[t].deadline
  <2>1. CASE u = t
    <3>1. work'[t] = row
      BY <1>0, <1>5, <2>1 DEF Rewrites, TypeOK
    <3> QED BY <1>0, <1>5, <2>1, <3>1 DEF Rewrites, Granted, Renewed, Ended
  <2>2. CASE u # t
    BY <1>0, <1>2, <1>5, <2>2 DEF Rewrites
  <2> QED BY <2>1, <2>2
<1>6. ASSUME NEW u \in Task, NEW entry \in Inbox!Entry, NEW row \in WorkRow,
             NEW batch \in BatchRow, Inserts(u, entry, row, batch)
      PROVE  Unmoved
  <2>1. CASE u = t
    <3>1. work'[t] = row
      BY <1>0, <1>6, <2>1 DEF Inserts, Accepts, TypeOK
    <3> QED BY <1>6, <2>1, <3>1 DEF Inserts, Accepts
  <2>2. CASE u # t
    BY <1>2, <1>6, <2>2 DEF Inserts, Accepts
  <2> QED BY <2>1, <2>2
<1>7. ASSUME UNCHANGED vars, work[t].state = "LEASED"
      PROVE  Unmoved
  BY <1>7 DEF vars
<1>8. ASSUME Unmoved
      PROVE  /\ work'[t].gen = work[t].gen
             /\ work'[t].state = "LEASED" => work'[t].deadline >= work[t].deadline
  BY <1>0, <1>8
<1> HIDE DEF Unmoved
<1> QED BY <1>1, <1>4, <1>5, <1>6, <1>7, <1>8 DEF TableStep

\* A row that has ended stays as it is.
LEMMA TableKeepsEnded ==
    ASSUME TablesInv, TableStep, NEW t \in Task, work[t].state \in Terminal
    PROVE  work'[t].state = work[t].state /\ stream'[t] = stream[t]
<1>0. TypeOK /\ work[t].state \notin {"LEASED", "PENDING", "RETRY", "ABSENT"}
  BY DEF TablesInv, StreamInv, Terminal
<1>1. ASSUME NEW ts \in SUBSET Task, work' = Released(ts), t \notin ts
      PROVE  work'[t] = work[t]
  BY <1>1 DEF Released
<1>2. CASE StoreStep
  BY <1>0, <1>1, <1>2
     DEF StoreStep, Register, Revoke, LeasedTo, Admit, Consume, ConsumeFail,
         Tick, TypeOK
<1>3. ASSUME NEW u \in Task, NEW row \in WorkRow, Rewrites(u, row)
      PROVE  work'[t] = work[t] /\ stream' = stream
  BY <1>0, <1>3 DEF Rewrites, Granted, Renewed, Ended, TypeOK
<1>4. ASSUME NEW u \in Task, NEW entry \in Inbox!Entry, NEW row \in WorkRow,
             NEW batch \in BatchRow, Inserts(u, entry, row, batch)
      PROVE  work'[t] = work[t] /\ stream'[t] = stream[t]
  BY <1>0, <1>4 DEF Inserts, Accepts, TypeOK
<1> QED BY <1>2, <1>3, <1>4 DEF TableStep, vars

\* A batch that is to be read is there after the step.
LEMMA TableKeepsUnread ==
    ASSUME TablesInv, TableStep, NEW b \in batches, Unread(b)
    PROVE  \E c \in batches' : SameBatch(b, c)
<1>0. TypeOK
  BY DEF TablesInv, StreamInv
<1>1. CASE StoreStep \/ UNCHANGED vars
  BY <1>0, <1>1, StoreStepIsNext, UnreadStep
<1>2. CASE batches \subseteq batches'
  BY <1>2 DEF SameBatch
<1> QED BY <1>1, <1>2 DEF TableStep, Rewrites, Inserts, Accepts

-----------------------------------------------------------------------------
(* Statements that change no table.                                        *)

\* A session moves on, and knows what CallInv says of its next statement.
LEMMA CallMoves ==
    ASSUME PgInv, UNCHANGED vars, NEW s \in Session, NEW open \in BOOLEAN,
           NEW kept, NEW op, NEW rows, NEW locks,
           Becomes(s, open, kept, op, rows, locks),
           \/ open
           \/ locks = {}
           \/ ~session[s].open /\ \A key \in locks : Foreign(s, key),
           CallInv(s)'
    PROVE  SessionsInv'
<1>1. now \in Nat /\ now' = now /\ work' = work /\ workers' = workers
  BY DEF PgInv, TablesInv, StreamInv, TypeOK, vars
<1> QED BY <1>1, SessionMoves DEF PgInv

\* A session whose transaction stays open.
LEMMA StaysOpen ==
    ASSUME PgInv, UNCHANGED vars, NEW s \in Session,
           NEW kept, NEW op, NEW rows, NEW locks,
           Becomes(s, TRUE, kept, op, rows, locks)
    PROVE  SessionsInv'
<1>1. CallInv(s)'
  BY DEF CallInv, Becomes
<1> QED BY <1>1, CallMoves

\* A session that has no transaction.
LEMMA IdleCall ==
    ASSUME NEW s \in Session, Becomes(s, FALSE, NoRows, Idle, NoRows, {})
    PROVE  CallInv(s)'
BY DEF Becomes, CallInv, Op, Idle

LEMMA Resets ==
    ASSUME PgInv, UNCHANGED vars, NEW s \in Session,
           Becomes(s, FALSE, NoRows, Idle, NoRows, {})
    PROVE  SessionsInv'
BY IdleCall, CallMoves

\* Inside an open transaction nothing is committed, whatever is called.
LEMMA OpenStep ==
    ASSUME PgInv, NEW s \in Session, session[s].open, SessionStep(s)
    PROVE  UNCHANGED vars /\ SessionsInv'
<1>0. Shape /\ session[s].open = TRUE
  BY DEF PgInv, SessionsInv, Shape
<1>1. ASSUME NEW op, NEW rows, NEW locks, Begins(s, op, rows, locks),
             UNCHANGED vars
      PROVE  SessionsInv'
  BY <1>0, <1>1, BeginsFields, StaysOpen
<1>2. ASSUME NEW op, NEW locks, Continues(s, op, locks), UNCHANGED vars
      PROVE  SessionsInv'
  BY <1>0, <1>2, ContinuesFields, StaysOpen
<1>3. ASSUME Raises(s), UNCHANGED vars
      PROVE  SessionsInv'
  BY <1>0, <1>3, RaisesFields, StaysOpen
<1>4. ASSUME NEW rows, NEW keys, Ends(s, rows, keys)
      PROVE  UNCHANGED vars /\ SessionsInv'
  <2>1. Releases(s, rows, keys) /\ UNCHANGED vars
    BY <1>0, <1>4 DEF Ends, Commits
  <2> QED BY <1>0, <2>1, ReleasesFields, StaysOpen
<1>5. ASSUME NEW w \in Worker, NEW i \in Instance,
             RegisterWorker(s, w, i) \/ ClaimWork(s, w, i)
      PROVE  UNCHANGED vars /\ SessionsInv'
  BY <1>1, <1>5 DEF RegisterWorker, ClaimWork
<1>6. ASSUME NEW w \in Worker, RevokeWorker(s, w)
      PROVE  UNCHANGED vars /\ SessionsInv'
  BY <1>1, <1>6 DEF RevokeWorker
<1>7. CASE ReleaseLeases(s)
  BY <1>4, <1>7 DEF ReleaseLeases
<1>8. ASSUME NEW t \in Task, NEW d \in RetryDelay, AdmitWork(s, t, now + d)
      PROVE  UNCHANGED vars /\ SessionsInv'
  BY <1>4, <1>8 DEF AdmitWork
<1>9. CASE ClaimActive(s)
  BY <1>2, <1>4, <1>9 DEF ClaimActive
<1>10. CASE ClaimCandidate(s)
  BY <1>2, <1>4, <1>10 DEF ClaimCandidate
<1>11. CASE GrantLease(s)
  BY <1>4, <1>11 DEF GrantLease
<1>12. ASSUME NEW t \in Task, NEW w \in Worker, NEW i \in Instance,
              NEW g \in 1 .. MaxAttempts, LeaseCall(s, t, w, i, g)
       PROVE  UNCHANGED vars /\ SessionsInv'
  BY <1>1, <1>12 DEF LeaseCall, RenewTask, FinishTask, FailTask, FindBatch
<1>13. CASE UpdateWork(s)
  BY <1>4, <1>13 DEF UpdateWork
<1>14. CASE LeaseOfBatch(s)
  BY <1>2, <1>3, <1>14 DEF LeaseOfBatch
<1>15. CASE CommitResultBatch(s)
  BY <1>4, <1>15 DEF CommitResultBatch
<1>16. ASSUME NEW b, MarkBatchConsumed(s, b) \/ MarkBatchConsumeFailed(s, b)
       PROVE  UNCHANGED vars /\ SessionsInv'
  BY <1>4, <1>16 DEF MarkBatchConsumed, MarkBatchConsumeFailed, SettleBatch
<1>17. CASE BareRead(s)
  BY <1>0, <1>17 DEF BareRead, Reads
<1>18. CASE StatementFails(s)
  BY <1>3, <1>18 DEF StatementFails
<1>19. CASE Crash(s)
  BY <1>0, <1>19, ConnectedFields, Resets DEF Crash, Disconnects
<1> QED
  BY <1>5, <1>6, <1>7, <1>8, <1>9, <1>10, <1>11, <1>12, <1>13, <1>14, <1>15,
     <1>16, <1>17, <1>18, <1>19
     DEF SessionStep

-----------------------------------------------------------------------------
(* The statements of a session that commits.                               *)

Closed(s) == PgInv /\ s \in Session /\ ~session[s].open

LEMMA ClosedFacts ==
    ASSUME NEW s, Closed(s)
    PROVE  /\ Shape /\ LocksApart /\ StreamInv /\ TypeOK
           /\ now \in Nat /\ 1 <= now
           /\ session[s].open = FALSE /\ session[s].kept = NoRows
           /\ CallInv(s)
           /\ session[s].op.step # "release" =>
                /\ session[s].rows = NoRows
                /\ WorkersWith(session[s].rows) = workers
                /\ SeenWork(s) = work
                /\ SeenBatches(s) = batches
<1>1. /\ Shape /\ LocksApart /\ StreamInv /\ TypeOK /\ CallInv(s)
      /\ s \in Session /\ ~session[s].open
  BY DEF Closed, PgInv, SessionsInv, TablesInv, StreamInv
<1>2. session[s].open = FALSE
  BY <1>1 DEF Shape
<1>3. now \in Nat /\ 1 <= now
  BY <1>1 DEF TypeOK
<1>4. /\ session[s].kept = NoRows
      /\ session[s].op.step # "release" => session[s].rows = NoRows
  BY <1>1 DEF CallInv, Op
<1> QED BY <1>1, <1>2, <1>3, <1>4, SeesTables

LEMMA BeginsClosed ==
    ASSUME NEW s, Closed(s), UNCHANGED vars, NEW op, NEW rows, NEW locks,
           Begins(s, op, rows, locks), Free(s, locks),
           Becomes(s, FALSE, NoRows, op, Over(rows, NoRows), locks) => CallInv(s)'
    PROVE  SessionsInv'
<1>0. s \in Session /\ PgInv
  BY DEF Closed
<1>1. session[s].rows = NoRows
  <2>1. session[s].op.step = "idle"
    BY DEF Begins, At
  <2> QED BY <2>1, ClosedFacts
<1>2. Becomes(s, FALSE, NoRows, op, Over(rows, NoRows), locks)
  BY <1>0, <1>1, ClosedFacts, BeginsFields
<1>3. ~session[s].open /\ \A key \in locks : Foreign(s, key)
  BY <1>0, FreeIsForeign DEF Closed
<1> QED BY <1>0, <1>2, <1>3, CallMoves

LEMMA ContinuesClosed ==
    ASSUME NEW s, Closed(s), UNCHANGED vars, NEW op, NEW locks,
           Continues(s, op, locks), Free(s, locks),
           session[s].op.step # "release",
           Becomes(s, FALSE, NoRows, op, NoRows, session[s].locks \cup locks)
             => CallInv(s)'
    PROVE  SessionsInv'
<1>0. s \in Session /\ PgInv /\ LocksApart
  BY ClosedFacts DEF Closed
<1>1. Becomes(s, FALSE, NoRows, op, NoRows, session[s].locks \cup locks)
  BY <1>0, ClosedFacts, ContinuesFields
<1>2. /\ ~session[s].open
      /\ \A key \in session[s].locks \cup locks : Foreign(s, key)
  BY <1>0, FreeIsForeign, LockedIsForeign DEF Closed, Locked
<1> QED BY <1>0, <1>1, <1>2, CallMoves

LEMMA RaisesClosed ==
    ASSUME NEW s, Closed(s), UNCHANGED vars, Raises(s)
    PROVE  SessionsInv'
<1>1. s \in Session /\ PgInv
  BY DEF Closed
<1>2. Becomes(s, FALSE, NoRows, Idle, NoRows, {})
  BY <1>1, ClosedFacts, RaisesFields
<1> QED BY <1>1, <1>2, Resets

\* COMMIT: the tables take what the call wrote.
LEMMA EndsClosed ==
    ASSUME NEW s, Closed(s), NEW rows, NEW keys, Ends(s, rows, keys)
    PROVE  LET all == Over(rows, session[s].rows) IN
           /\ workers' = WorkersWith(all) /\ work' = WorkWith(all)
           /\ batches' = BatchesWith(all) /\ stream' = StreamWith(all)
           /\ now' = now
           /\ Becomes(s, FALSE, NoRows, Idle, NoRows, {})
<1>1. s \in Session /\ Shape /\ session[s].open = FALSE
  BY ClosedFacts DEF Closed
<1>2. Commits(s)
  BY <1>1 DEF Ends, Releases
<1>3. Becomes(s, FALSE, NoRows, Idle, NoRows, {})
  BY <1>1, <1>2, ConnectedFields DEF Commits
<1> QED BY <1>1, <1>3 DEF Ends, Releases

LEMMA CommitLeaves ==
    ASSUME NEW s, Closed(s), Becomes(s, FALSE, NoRows, Idle, NoRows, {}),
           now' = now,
           \A t \in Task : work'[t] = work[t] \/ Foreign(s, WorkKey(t)),
           \A w \in Worker : workers'[w] = workers[w] \/ Foreign(s, WorkerKey(w))
    PROVE  SessionsInv'
<1>1. s \in Session /\ SessionsInv
  BY DEF Closed, PgInv
<1>2. now \in Nat /\ now' \in Nat /\ now' >= now
  <2>1. now \in Nat
    BY ClosedFacts
  <2> QED BY <2>1
<1>3. CallInv(s)'
  BY <1>1, IdleCall
<1> QED BY <1>1, <1>2, <1>3, SessionMoves

-----------------------------------------------------------------------------
(* register_worker and revoke_worker.                                      *)

LEMMA RegisterBegins ==
    ASSUME NEW s, Closed(s), NEW w \in Worker, NEW i \in Instance,
           RegisterWorker(s, w, i)
    PROVE  TableStep /\ SessionsInv'
<1> DEFINE op == [step |-> "release", worker |-> w, spared |-> i]
           row == RowAt(WorkerKey(w), [inst |-> i, revoked |-> FALSE])
<1>1. /\ Begins(s, op, row, {WorkerKey(w)})
      /\ Free(s, {WorkerKey(w)}) /\ UNCHANGED vars
  BY DEF RegisterWorker
<1>2. ASSUME Becomes(s, FALSE, NoRows, op, Over(row, NoRows), {WorkerKey(w)})
      PROVE  CallInv(s)'
  <2>1. /\ session'[s].kept = NoRows /\ session'[s].op = op
        /\ session'[s].rows = row /\ session'[s].locks = {WorkerKey(w)}
    BY <1>2, OverNoRows DEF Becomes
  <2> QED BY <2>1 DEF CallInv, Op, Releasing, Locked
<1> HIDE DEF op, row
<1> QED BY <1>1, <1>2, BeginsClosed DEF TableStep

LEMMA RevokeBegins ==
    ASSUME NEW s, Closed(s), NEW w \in Worker, RevokeWorker(s, w)
    PROVE  TableStep /\ SessionsInv'
<1> DEFINE op == [step |-> "release", worker |-> w, spared |-> NULL]
           row == RowAt(WorkerKey(w), [workers[w] EXCEPT !.revoked = TRUE])
<1>1. session[s].op.step = "idle" /\ WorkersWith(session[s].rows) = workers
  <2>1. session[s].op.step = "idle"
    BY DEF RevokeWorker, Begins, At
  <2> QED BY <2>1, ClosedFacts
<1>2. /\ Begins(s, op, row, {WorkerKey(w)})
      /\ Free(s, {WorkerKey(w)}) /\ UNCHANGED vars
      /\ workers[w].inst # NULL
  BY <1>1 DEF RevokeWorker
<1>3. ASSUME Becomes(s, FALSE, NoRows, op, Over(row, NoRows), {WorkerKey(w)})
      PROVE  CallInv(s)'
  <2>1. /\ session'[s].kept = NoRows /\ session'[s].op = op
        /\ session'[s].rows = row /\ session'[s].locks = {WorkerKey(w)}
        /\ workers' = workers
    BY <1>2, <1>3, OverNoRows DEF Becomes, vars
  <2> QED BY <1>2, <2>1 DEF CallInv, Op, Releasing, Locked
<1> HIDE DEF op, row
<1> QED BY <1>2, <1>3, BeginsClosed DEF TableStep

LEMMA ReleaseEnds ==
    ASSUME NEW s, Closed(s), ReleaseLeases(s)
    PROVE  TableStep /\ SessionsInv'
<1> DEFINE w == Op(s).worker
           spared == Op(s).spared
           ts == {t \in LeasedTo(w) : work[t].ownerInst # spared}
           keys == {WorkKey(t) : t \in ts}
           who == session[s].rows[WorkerKey(w)]
<1>0. TypeOK /\ LocksApart /\ s \in Session /\ ~session[s].open
  BY ClosedFacts DEF Closed
<1>1. Op(s).step = "release" /\ Releasing(s)
  BY ClosedFacts DEF ReleaseLeases, At, Closed, CallInv, Op
<1>2. /\ w \in Worker /\ Locked(s, WorkerKey(w))
      /\ session[s].rows = RowAt(WorkerKey(w), who)
      /\ \/ spared \in Instance /\ who = [inst |-> spared, revoked |-> FALSE]
         \/ /\ spared = NULL /\ workers[w].inst # NULL
            /\ who = [workers[w] EXCEPT !.revoked = TRUE]
  <2>1. ASSUME NEW r, session[s].rows = RowAt(WorkerKey(w), r)
        PROVE  who = r
    BY <2>1, OverNoRows
  <2>2. CASE session[s].rows
               = RowAt(WorkerKey(w), [inst |-> spared, revoked |-> FALSE])
    <3>1. who = [inst |-> spared, revoked |-> FALSE]
      BY <2>1, <2>2
    <3> HIDE DEF who
    <3> QED BY <1>1, <2>2, <3>1 DEF Releasing, RowAt
  <2>3. CASE session[s].rows
               = RowAt(WorkerKey(w), [workers[w] EXCEPT !.revoked = TRUE])
    <3>1. who = [workers[w] EXCEPT !.revoked = TRUE]
      BY <2>1, <2>3
    <3> HIDE DEF who
    <3> QED BY <1>1, <2>3, <3>1 DEF Releasing, RowAt
  <2> QED BY <1>1, <2>2, <2>3 DEF Releasing
<1>3. SeenWork(s) = work
  <2>1. \A t \in Task : WorkKey(t) \notin DOMAIN session[s].rows
    <3>1. DOMAIN RowAt(WorkerKey(w), who) = {WorkerKey(w)}
      BY OverNoRows
    <3> HIDE DEF w, who
    <3> QED BY <1>2, <3>1, KeysApart
  <2> QED BY <1>0, <2>1 DEF SeenWork, WorkWith, TypeOK
<1> DEFINE rows == [k \in keys |-> Unowned(work[k[2]], "PENDING")]
<1>4. Free(s, keys) /\ Ends(s, rows, keys)
  BY <1>3 DEF ReleaseLeases, Seen!LeasedTo, LeasedTo, Op
<1>5. /\ workers' = WorkersWith(Over(rows, RowAt(WorkerKey(w), who)))
      /\ work' = WorkWith(Over(rows, RowAt(WorkerKey(w), who)))
      /\ batches' = BatchesWith(Over(rows, RowAt(WorkerKey(w), who)))
      /\ stream' = StreamWith(Over(rows, RowAt(WorkerKey(w), who)))
      /\ now' = now
      /\ Becomes(s, FALSE, NoRows, Idle, NoRows, {})
  BY <1>2, <1>4, EndsClosed
<1>6. ts \in SUBSET Task
  BY DEF LeasedTo
<1> HIDE DEF w, spared, who
<1>7. /\ workers' = [workers EXCEPT ![w] = who]
      /\ work' = Released(ts)
      /\ UNCHANGED <<now, batches, stream>>
  <2> DEFINE all == Over(rows, RowAt(WorkerKey(w), who))
  <2>1. /\ \A k \in DOMAIN rows : \E t \in ts : k = WorkKey(t)
        /\ \A t \in ts : /\ WorkKey(t) \in DOMAIN rows
                         /\ rows[WorkKey(t)] = Unowned(work[t], "PENDING")
    BY KeysApart
  <2> HIDE DEF ts, rows
  <2>2. /\ WorkersWith(all) = [workers EXCEPT ![w] = who]
        /\ WorkWith(all) = Released(ts)
        /\ BatchesWith(all) = batches
        /\ StreamWith(all) = stream
    BY <1>0, <1>2, <1>6, <2>1, ReleaseWritten
  <2> QED BY <1>5, <2>2
<1>8. SessionsInv'
  <2>1. \A t \in Task : work'[t] = work[t] \/ Foreign(s, WorkKey(t))
    BY <1>0, <1>4, <1>7, FreeIsForeign DEF Released
  <2>2. \A v \in Worker : workers'[v] = workers[v] \/ Foreign(s, WorkerKey(v))
    BY <1>0, <1>2, <1>7, LockedIsForeign DEF TypeOK
  <2> QED BY <1>5, <2>1, <2>2, CommitLeaves
<1>9. CASE spared \in Instance /\ who = [inst |-> spared, revoked |-> FALSE]
  <2>1. Register(w, spared)
    BY <1>7, <1>9 DEF Register
  <2> QED BY <1>2, <1>8, <1>9, <2>1 DEF TableStep, StoreStep
<1>10. CASE /\ spared = NULL /\ workers[w].inst # NULL
            /\ who = [workers[w] EXCEPT !.revoked = TRUE]
  <2>1. ts = LeasedTo(w)
    <3>1. \A t \in LeasedTo(w) : work[t].ownerInst # NULL
      BY DEF Closed, PgInv, TablesInv, LeaseOfKnownIncarnation, LeasedTo, Known
    <3> QED BY <1>10, <3>1
  <2>2. Revoke(w)
    BY <1>7, <1>10, <2>1 DEF Revoke
  <2> QED BY <1>2, <1>8, <2>2 DEF TableStep, StoreStep
<1> QED BY <1>2, <1>9, <1>10

-----------------------------------------------------------------------------
(* admit_work and claim_work.                                              *)

\* A call that writes one row of fabric_work, which it has locked or locks.
LEMMA WorkRowEnds ==
    ASSUME NEW s, Closed(s), session[s].op.step # "release", NEW t \in Task,
           NEW row, NEW keys, Ends(s, RowAt(WorkKey(t), row), keys),
           Foreign(s, WorkKey(t))
    PROVE  /\ work' = [work EXCEPT ![t] = row]
           /\ UNCHANGED <<now, workers, batches, stream>>
           /\ SessionsInv'
<1> DEFINE rows == RowAt(WorkKey(t), row)
<1>1. TypeOK /\ session[s].rows = NoRows
  BY ClosedFacts
<1>2. Over(rows, session[s].rows) = rows
  BY <1>1, OverNoRows
<1>3. /\ WorkersWith(rows) = workers
      /\ WorkWith(rows) = [work EXCEPT ![t] = row]
      /\ BatchesWith(rows) = batches /\ StreamWith(rows) = stream
  BY <1>1, WorkWritten
<1> HIDE DEF rows
<1>4. /\ workers' = WorkersWith(rows) /\ work' = WorkWith(rows)
      /\ batches' = BatchesWith(rows) /\ stream' = StreamWith(rows)
      /\ now' = now
      /\ Becomes(s, FALSE, NoRows, Idle, NoRows, {})
  BY <1>2, EndsClosed DEF rows
<1>5. /\ work' = [work EXCEPT ![t] = row]
      /\ UNCHANGED <<now, workers, batches, stream>>
  BY <1>3, <1>4
<1>6. \A u \in Task : work'[u] = work[u] \/ Foreign(s, WorkKey(u))
  BY <1>1, <1>5 DEF TypeOK
<1>7. SessionsInv'
  BY <1>4, <1>5, <1>6, CommitLeaves
<1> QED BY <1>5, <1>7

\* A call that ends and has written nothing.
LEMMA NothingEnds ==
    ASSUME NEW s, Closed(s), session[s].op.step # "release",
           NEW keys, Ends(s, NoRows, keys)
    PROVE  UNCHANGED vars /\ SessionsInv'
<1>1. TypeOK /\ session[s].rows = NoRows
  BY ClosedFacts
<1>2. Over(NoRows, session[s].rows) = NoRows
  BY <1>1, OverNoRows
<1>3. /\ WorkersWith(NoRows) = workers /\ WorkWith(NoRows) = work
      /\ BatchesWith(NoRows) = batches
  <2>1. s \in Session
    BY DEF Closed
  <2> QED BY <1>1, <2>1, SeesTables DEF SeenWork, SeenBatches
<1>4. StreamWith(NoRows) = stream
  BY <1>1, OverNoRows, InboxUnwritten
<1>5. /\ UNCHANGED vars
      /\ Becomes(s, FALSE, NoRows, Idle, NoRows, {})
  BY <1>2, <1>3, <1>4, EndsClosed DEF vars
<1> QED BY <1>5, Resets DEF Closed

LEMMA AdmitEnds ==
    ASSUME NEW s, Closed(s), NEW t \in Task, NEW d \in RetryDelay,
           AdmitWork(s, t, now + d)
    PROVE  TableStep /\ SessionsInv'
<1> DEFINE row == [work[t] EXCEPT !.state = "PENDING", !.notBefore = now + d]
<1>1. session[s].op.step = "idle" /\ s \in Session
  BY DEF AdmitWork, At, Closed
<1>2. SeenWork(s) = work /\ TypeOK
  BY <1>1, ClosedFacts
<1>3. /\ work[t].state = "ABSENT"
      /\ Ends(s, RowAt(WorkKey(t), row), {WorkKey(t)})
      /\ Foreign(s, WorkKey(t))
  BY <1>1, <1>2, FreeIsForeign DEF AdmitWork
<1>4. /\ work' = [work EXCEPT ![t] = row]
      /\ UNCHANGED <<now, workers, batches, stream>>
      /\ SessionsInv'
  BY <1>1, <1>3, WorkRowEnds
<1>5. Admit(t, now + d)
  BY <1>2, <1>3, <1>4 DEF Admit, TypeOK
<1> QED BY <1>4, <1>5 DEF TableStep, StoreStep

LEMMA ClaimBegins ==
    ASSUME NEW s, Closed(s), NEW w \in Worker, NEW i \in Instance,
           ClaimWork(s, w, i)
    PROVE  TableStep /\ SessionsInv'
<1>1. PICK time \in Began :
         Begins(s, [step |-> "active", worker |-> w, inst |-> i,
                    task |-> {}, at |-> time], NoRows, {WorkerKey(w)})
  BY DEF ClaimWork
<1> DEFINE op == [step |-> "active", worker |-> w, inst |-> i,
                  task |-> {}, at |-> time]
<1>2. session[s].op.step = "idle" /\ WorkersWith(session[s].rows) = workers
  <2>1. session[s].op.step = "idle"
    BY <1>1 DEF Begins, At
  <2> QED BY <2>1, ClosedFacts
<1>3. Known(w, i) /\ Free(s, {WorkerKey(w)}) /\ UNCHANGED vars
  BY <1>2 DEF ClaimWork, Seen!Known, Seen!NULL, Known, NULL
<1>4. time \in 1 .. now
  BY DEF Began
<1>5. ASSUME Becomes(s, FALSE, NoRows, op, Over(NoRows, NoRows), {WorkerKey(w)})
      PROVE  CallInv(s)'
  <2>1. /\ session'[s].kept = NoRows /\ session'[s].op = op
        /\ session'[s].rows = NoRows /\ session'[s].locks = {WorkerKey(w)}
        /\ workers' = workers /\ now' = now
    BY <1>3, <1>5, OverNoRows DEF Becomes, vars
  <2>2. Claiming(s)'
    BY <1>3, <1>4, <2>1 DEF Claiming, Op, Locked, Known
  <2> QED BY <2>1, <2>2 DEF CallInv, Op
<1> HIDE DEF op
<1>6. Begins(s, op, NoRows, {WorkerKey(w)})
  BY <1>1 DEF op
<1> QED BY <1>3, <1>5, <1>6, BeginsClosed DEF TableStep

LEMMA ActiveContinues ==
    ASSUME NEW s, Closed(s), ClaimActive(s)
    PROVE  TableStep /\ SessionsInv'
<1> DEFINE op == [session[s].op EXCEPT !.step = "candidate"]
<1>1. session[s].op.step = "active" /\ Claiming(s)
  BY ClosedFacts DEF ClaimActive, At, CallInv, Op, Closed
<1>2. ASSUME NEW keys, Ends(s, NoRows, keys)
      PROVE  TableStep /\ SessionsInv'
  BY <1>1, <1>2, NothingEnds DEF TableStep
<1>3. ASSUME Continues(s, op, {}), UNCHANGED vars
      PROVE  TableStep /\ SessionsInv'
  <2>1. ASSUME Becomes(s, FALSE, NoRows, op, NoRows, session[s].locks \cup {})
        PROVE  CallInv(s)'
    <3>1. /\ session'[s].kept = NoRows /\ session'[s].op = op
          /\ session'[s].rows = NoRows /\ session'[s].locks = session[s].locks
          /\ workers' = workers /\ now' = now
      BY <1>3, <2>1 DEF Becomes, vars
    <3>2. /\ op.worker = Op(s).worker /\ op.inst = Op(s).inst /\ op.at = Op(s).at
          /\ op.step \notin {"release", "grant", "renew", "finish", "fail",
                             "lease", "insert"}
      BY <1>1 DEF Op
    <3> HIDE DEF op
    <3>3. Claiming(s)'
      BY <1>1, <3>1, <3>2 DEF Claiming, Op, Locked, Known
    <3> QED BY <3>1, <3>2, <3>3 DEF CallInv, Op
  <2>2. Free(s, {})
    BY DEF Free
  <2> HIDE DEF op
  <2> QED BY <1>1, <1>3, <2>1, <2>2, ContinuesClosed DEF TableStep
<1> QED BY <1>2, <1>3 DEF ClaimActive

LEMMA CandidateContinues ==
    ASSUME NEW s, Closed(s), ClaimCandidate(s)
    PROVE  TableStep /\ SessionsInv'
<1>1. session[s].op.step = "candidate" /\ Claiming(s) /\ SeenWork(s) = work
  BY ClosedFacts DEF ClaimCandidate, At, CallInv, Op, Closed
<1>2. ASSUME Ends(s, NoRows, {})
      PROVE  TableStep /\ SessionsInv'
  BY <1>1, <1>2, NothingEnds DEF TableStep
<1>3. ASSUME NEW t \in Candidates(s), UNCHANGED vars,
             Continues(s, [session[s].op EXCEPT !.step = "grant", !.task = {t}],
                       {WorkKey(t)})
      PROVE  TableStep /\ SessionsInv'
  <2> DEFINE op == [session[s].op EXCEPT !.step = "grant", !.task = {t}]
             locks == session[s].locks \cup {WorkKey(t)}
  <2>1. /\ t \in Task /\ Free(s, {WorkKey(t)})
        /\ \/ work[t].state \in {"PENDING", "RETRY"}
           \/ work[t].state = "LEASED" /\ work[t].deadline <= Op(s).at
    BY <1>1 DEF Candidates, Seen!Claimable, Op
  <2>2. /\ op.step = "grant" /\ op.task = {t} /\ op.worker = Op(s).worker
        /\ op.inst = Op(s).inst /\ op.at = Op(s).at
    BY DEF Op
  <2> HIDE DEF op
  <2>3. ASSUME Becomes(s, FALSE, NoRows, op, NoRows, locks)
        PROVE  CallInv(s)'
    <3>1. /\ session'[s].kept = NoRows /\ session'[s].op = op
          /\ session'[s].rows = NoRows /\ session'[s].locks = locks
          /\ workers' = workers /\ work' = work /\ now' = now
      BY <1>3, <2>3 DEF Becomes, vars
    <3>2. Claiming(s)'
      BY <1>1, <2>2, <3>1 DEF Claiming, Op, Locked, Known
    <3>3. Granting(s)'
      BY <2>1, <2>2, <3>1 DEF Granting, Op, Locked
    <3> QED BY <2>2, <3>1, <3>2, <3>3 DEF CallInv, Op
  <2>4. Continues(s, op, {WorkKey(t)})
    BY <1>3 DEF op
  <2> QED BY <1>1, <1>3, <2>1, <2>3, <2>4, ContinuesClosed DEF TableStep
<1> QED BY <1>2, <1>3 DEF ClaimCandidate

LEMMA GrantEnds ==
    ASSUME NEW s, Closed(s), GrantLease(s)
    PROVE  TableStep /\ SessionsInv'
<1>1. /\ session[s].op.step = "grant" /\ Claiming(s) /\ Granting(s)
      /\ SeenWork(s) = work /\ TypeOK /\ LocksApart /\ now \in Nat
      /\ s \in Session /\ ~session[s].open
  BY ClosedFacts DEF GrantLease, At, CallInv, Op, Closed
<1>2. PICK t \in session[s].op.task :
         Ends(s, RowAt(WorkKey(t), Seen(s, session[s].op.at)!LeasedRow(
                                      SeenWork(s)[t], session[s].op.worker,
                                      session[s].op.inst)),
              {WorkKey(t)})
  BY DEF GrantLease
<1> DEFINE op == session[s].op
           row == [work[t] EXCEPT !.state = "LEASED", !.owner = op.worker,
                                  !.ownerInst = op.inst,
                                  !.gen = work[t].gen + 1,
                                  !.attempt = work[t].attempt + 1,
                                  !.deadline = op.at + LeaseSeconds]
<1>3. Ends(s, RowAt(WorkKey(t), row), {WorkKey(t)})
  BY <1>1, <1>2 DEF Seen!LeasedRow
<1>4. /\ t \in Task /\ Foreign(s, WorkKey(t))
      /\ \/ work[t].state \in {"PENDING", "RETRY"}
         \/ work[t].state = "LEASED" /\ work[t].deadline <= op.at
  BY <1>1, LockedIsForeign DEF Granting, Op
<1>5. /\ op.worker \in Worker /\ op.inst \in Instance /\ op.at \in 1 .. now
      /\ Known(op.worker, op.inst)
  BY <1>1 DEF Claiming, Op
<1>6. work[t] \in WorkRow
  BY <1>1, <1>4 DEF TypeOK
<1>7. op.at + LeaseSeconds \in Nat /\ op.at + LeaseSeconds <= now + LeaseSeconds
  BY <1>1, <1>5, AuthorityAssumption
<1> HIDE DEF op
<1>8. row \in WorkRow
  <2>1. work[t].gen + 1 \in Nat /\ work[t].attempt + 1 \in Nat /\ op.inst \in Nat
    BY <1>5, <1>6 DEF WorkRow, Instance
  <2> QED BY <1>5, <1>6, <1>7, <2>1 DEF WorkRow, WorkState
<1>9. /\ row.state = "LEASED" /\ row.owner = op.worker /\ row.ownerInst = op.inst
      /\ row.gen = work[t].gen + 1 /\ row.deadline = op.at + LeaseSeconds
      /\ row.nextSeq = work[t].nextSeq /\ row.compacted = work[t].compacted
  BY <1>6 DEF WorkRow
<1> HIDE DEF row
<1>10. /\ work' = [work EXCEPT ![t] = row]
       /\ UNCHANGED <<now, workers, batches, stream>>
       /\ SessionsInv'
  BY <1>1, <1>3, <1>4, WorkRowEnds
<1>11. Granted(t, row)
  <2>1. work[t].deadline \in Nat
    BY <1>6 DEF WorkRow
  <2>2. work[t].deadline <= op.at => work[t].deadline <= now
    BY <1>1, <1>5, <2>1
  <2> QED BY <1>4, <1>5, <1>7, <1>9, <2>2 DEF Granted
<1>12. Rewrites(t, row)
  BY <1>9, <1>10, <1>11 DEF Rewrites
<1> QED BY <1>4, <1>8, <1>10, <1>12 DEF TableStep

-----------------------------------------------------------------------------
(* renew_task, finish_task and fail_task.                                  *)

LEMMA LockLeaseFinds ==
    ASSUME NEW s, Closed(s), session[s].op.step # "release", NEW t \in Task,
           NEW w, NEW i, NEW g, LockLease(s, t, w, i, g)
    PROVE  /\ Free(s, {WorkKey(t)})
           /\ work[t].state = "LEASED" /\ work[t].gen = g
<1>1. SeenWork(s) = work
  BY ClosedFacts
<1> QED BY <1>1 DEF LockLease, Seen!Owns

\* What is known of an update that begins.
LEMMA UpdateBegins ==
    ASSUME NEW s, Closed(s), UNCHANGED vars, NEW t \in Task, NEW op,
           op.step \in {"renew", "finish", "fail"}, op.task = t,
           op.at \in 1 .. now,
           op.step = "renew" => /\ op.expected \in Nat
                                /\ work[t].deadline <= op.at + LeaseSeconds,
           op.step = "fail" => op.retryable \in BOOLEAN /\ op.delay \in RetryDelay,
           Free(s, {WorkKey(t)}), work[t].state = "LEASED",
           Begins(s, op, NoRows, {WorkKey(t)})
    PROVE  TableStep /\ SessionsInv'
<1>1. ASSUME Becomes(s, FALSE, NoRows, op, Over(NoRows, NoRows), {WorkKey(t)})
      PROVE  CallInv(s)'
  <2>1. /\ session'[s].kept = NoRows /\ session'[s].op = op
        /\ session'[s].rows = NoRows /\ session'[s].locks = {WorkKey(t)}
        /\ work' = work /\ now' = now
    BY <1>1, OverNoRows DEF Becomes, vars
  <2>2. Holding(s)' /\ Updating(s)'
    BY <2>1 DEF Holding, Updating, Op, Locked
  <2> QED BY <2>1, <2>2 DEF CallInv, Op
<1> QED BY <1>1, BeginsClosed DEF TableStep

LEMMA LeaseCallBegins ==
    ASSUME NEW s, Closed(s), NEW t \in Task, NEW w \in Worker, NEW i \in Instance,
           NEW g \in 1 .. MaxAttempts, LeaseCall(s, t, w, i, g)
    PROVE  TableStep /\ SessionsInv'
<1>1. session[s].op.step = "idle"
  BY DEF LeaseCall, RenewTask, FinishTask, FailTask, FindBatch, Begins, At
<1>2. SeenWork(s) = work /\ TypeOK /\ now \in Nat /\ 1 <= now
  BY <1>1, ClosedFacts
<1>3. ASSUME NEW expected \in 1 .. SeenWork(s)[t].deadline,
             RenewTask(s, t, w, i, g, expected)
      PROVE  TableStep /\ SessionsInv'
  <2> DEFINE op == [step |-> "renew", task |-> t, expected |-> expected,
                    at |-> now]
  <2>1. /\ Begins(s, op, NoRows, {WorkKey(t)}) /\ UNCHANGED vars
        /\ Free(s, {WorkKey(t)}) /\ work[t].state = "LEASED"
    BY <1>1, <1>3, LockLeaseFinds DEF RenewTask
  <2>2. work[t].deadline <= now + LeaseSeconds
    BY <2>1 DEF Closed, PgInv, TablesInv, LeaseBounded
  <2>3. /\ op.step = "renew" /\ op.task = t /\ op.at = now
        /\ op.expected \in Nat
    OBVIOUS
  <2> HIDE DEF op
  <2> QED BY <1>2, <2>1, <2>2, <2>3, UpdateBegins
<1>4. ASSUME FinishTask(s, t, w, i, g)
      PROVE  TableStep /\ SessionsInv'
  <2>1. PICK time \in Began :
           Begins(s, [step |-> "finish", task |-> t, at |-> time],
                  NoRows, {WorkKey(t)})
    BY <1>4 DEF FinishTask
  <2> DEFINE op == [step |-> "finish", task |-> t, at |-> time]
  <2>2. /\ UNCHANGED vars /\ Free(s, {WorkKey(t)}) /\ work[t].state = "LEASED"
    BY <1>1, <1>4, LockLeaseFinds DEF FinishTask
  <2>3. /\ op.step = "finish" /\ op.task = t /\ op.at \in 1 .. now
        /\ Begins(s, op, NoRows, {WorkKey(t)})
    BY <2>1 DEF Began
  <2> HIDE DEF op
  <2> QED BY <1>2, <2>2, <2>3, UpdateBegins
<1>5. ASSUME NEW retryable \in BOOLEAN, NEW delay \in RetryDelay,
             FailTask(s, t, w, i, g, retryable, delay)
      PROVE  TableStep /\ SessionsInv'
  <2>1. PICK time \in Began :
           Begins(s, [step |-> "fail", task |-> t, retryable |-> retryable,
                      delay |-> delay, at |-> time], NoRows, {WorkKey(t)})
    BY <1>5 DEF FailTask
  <2> DEFINE op == [step |-> "fail", task |-> t, retryable |-> retryable,
                    delay |-> delay, at |-> time]
  <2>2. /\ UNCHANGED vars /\ Free(s, {WorkKey(t)}) /\ work[t].state = "LEASED"
    BY <1>1, <1>5, LockLeaseFinds DEF FailTask
  <2>3. /\ op.step = "fail" /\ op.task = t /\ op.at \in 1 .. now
        /\ op.retryable \in BOOLEAN /\ op.delay \in RetryDelay
        /\ Begins(s, op, NoRows, {WorkKey(t)})
    BY <2>1 DEF Began
  <2> HIDE DEF op
  <2> QED BY <1>2, <2>2, <2>3, UpdateBegins
<1>6. ASSUME NEW n \in 0 .. SeenWork(s)[t].nextSeq, NEW final \in BOOLEAN,
             NEW data \in Payload,
             FindBatch(s, t, w, i, n, [gen |-> g, final |-> final, data |-> data])
      PROVE  TableStep /\ SessionsInv'
  <2> DEFINE entry == [gen |-> g, final |-> final, data |-> data]
             op == [step |-> "lease", task |-> t, worker |-> w, inst |-> i,
                    seq |-> n, entry |-> entry, at |-> now]
  <2>1. entry \in Inbox!Entry
    BY DEF Inbox!Entry
  <2>2. Begins(s, op, NoRows, {}) /\ UNCHANGED vars
    BY <1>6 DEF FindBatch
  <2> HIDE DEF entry
  <2>3. /\ op.step = "lease" /\ op.task = t /\ op.at = now /\ op.entry = entry
    OBVIOUS
  <2> HIDE DEF op
  <2>4. ASSUME Becomes(s, FALSE, NoRows, op, Over(NoRows, NoRows), {})
        PROVE  CallInv(s)'
    <3>1. /\ session'[s].kept = NoRows /\ session'[s].op = op
          /\ session'[s].rows = NoRows /\ now' = now
      BY <2>2, <2>4, OverNoRows DEF Becomes, vars
    <3>2. BatchOf(s)'
      BY <1>2, <2>1, <2>3, <3>1 DEF BatchOf, Op
    <3> QED BY <2>3, <3>1, <3>2 DEF CallInv, Op
  <2>5. Free(s, {})
    BY DEF Free
  <2> QED BY <2>2, <2>4, <2>5, BeginsClosed DEF TableStep
<1> QED BY <1>3, <1>4, <1>5, <1>6 DEF LeaseCall

\* The row that the UPDATE leaves, whenever it reads the clock.
LEMMA UpdatedRows ==
    ASSUME NEW s, Closed(s), session[s].op.step \in {"renew", "finish", "fail"},
           NEW time \in session[s].op.at .. now
    PROVE  LET t == session[s].op.task
               row == UpdatedRow(s, time)
           IN /\ row \in WorkRow
              /\ row.nextSeq = work[t].nextSeq
              /\ row.compacted = work[t].compacted
              /\ Renewed(t, row) \/ Ended(t, row)
<1> DEFINE op == session[s].op
           t == op.task
           row == UpdatedRow(s, time)
<1>1. /\ Holding(s) /\ Updating(s) /\ SeenWork(s) = work /\ TypeOK
      /\ now \in Nat
  BY ClosedFacts DEF CallInv, Op, Closed
<1>2. /\ t \in Task /\ work[t].state = "LEASED" /\ op.at \in 1 .. now
      /\ op.step = "renew" => /\ op.expected \in Nat
                              /\ work[t].deadline <= op.at + LeaseSeconds
      /\ op.step = "fail" => op.retryable \in BOOLEAN /\ op.delay \in RetryDelay
  BY <1>1 DEF Holding, Updating, Op
<1>3. /\ work[t] \in WorkRow /\ work[t].deadline \in Nat
      /\ time \in Nat /\ op.at <= time /\ time <= now
  BY <1>1, <1>2 DEF TypeOK, WorkRow
<1>4. CASE op.step = "renew"
  <2> DEFINE deadline == IF work[t].deadline > op.expected
                         THEN work[t].deadline ELSE time + LeaseSeconds
  <2>1. row = [work[t] EXCEPT !.deadline = deadline]
    BY <1>1, <1>4 DEF UpdatedRow, At, Seen!RenewedDeadline
  <2>2. /\ deadline \in Nat /\ work[t].deadline <= deadline
        /\ deadline <= now + LeaseSeconds
    <3>1. time + LeaseSeconds \in Nat /\ work[t].deadline <= time + LeaseSeconds
          /\ time + LeaseSeconds <= now + LeaseSeconds
      BY <1>1, <1>2, <1>3, <1>4, AuthorityAssumption
    <3>2. work[t].deadline <= now + LeaseSeconds
      BY <1>1, <1>2, <1>3, <1>4, AuthorityAssumption
    <3> QED BY <1>3, <3>1, <3>2
  <2> HIDE DEF deadline, row, t
  <2>3. /\ row \in WorkRow /\ row.deadline = deadline
        /\ row.state = work[t].state /\ row.gen = work[t].gen
        /\ row.owner = work[t].owner /\ row.ownerInst = work[t].ownerInst
        /\ row.nextSeq = work[t].nextSeq /\ row.compacted = work[t].compacted
    BY <1>3, <2>1, <2>2 DEF WorkRow
  <2>4. Renewed(t, row)
    BY <1>2, <2>2, <2>3 DEF Renewed, SameHolder
  <2> QED BY <2>3, <2>4 DEF row, t
<1>5. ASSUME NEW r \in WorkRow, row = r,
             r.state \in {"RETRY", "DEAD", "COMPLETE"}, r.gen = work[t].gen,
             r.nextSeq = work[t].nextSeq, r.compacted = work[t].compacted
      PROVE  /\ row \in WorkRow
             /\ row.nextSeq = work[t].nextSeq
             /\ row.compacted = work[t].compacted
             /\ Ended(t, row)
  BY <1>2, <1>5 DEF Ended
<1>6. CASE op.step = "finish"
  <2> DEFINE r == [work[t] EXCEPT !.state = "COMPLETE", !.owner = NoWorker,
                                  !.ownerInst = NULL, !.deadline = NULL,
                                  !.doneAt = op.at]
  <2>1. row = r
    BY <1>1, <1>6 DEF UpdatedRow, At, Seen!Completed, Seen!Unowned, Seen!NULL, NULL
  <2>2. /\ r \in WorkRow /\ r.state = "COMPLETE" /\ r.gen = work[t].gen
        /\ r.nextSeq = work[t].nextSeq /\ r.compacted = work[t].compacted
    <3>1. op.at \in Nat
      BY <1>2
    <3> HIDE DEF op
    <3> QED BY <1>3, <3>1 DEF WorkRow, WorkState, NULL
  <2> HIDE DEF r, row
  <2> QED BY <1>5, <2>1, <2>2 DEF row
<1>7. CASE op.step = "fail"
  <2> DEFINE again == op.retryable /\ work[t].attempt < MaxAttempts
             state == IF again THEN "RETRY" ELSE "DEAD"
             notBefore == IF again THEN op.at + op.delay ELSE op.at
             r == [work[t] EXCEPT !.state = state, !.owner = NoWorker,
                                  !.ownerInst = NULL, !.deadline = NULL,
                                  !.notBefore = notBefore]
  <2>1. row = r
    BY <1>1, <1>7 DEF UpdatedRow, At, Seen!FailedRow, Seen!Unowned, Seen!NULL, NULL
  <2>2. state \in {"RETRY", "DEAD"} /\ notBefore \in Nat
    <3>1. op.at \in Nat /\ op.delay \in RetryDelay
      BY <1>1, <1>2, <1>7
    <3> HIDE DEF op
    <3>2. op.at + op.delay \in Nat
      BY <3>1, AuthorityAssumption
    <3> QED BY <3>1, <3>2
  <2>3. /\ r \in WorkRow /\ r.state = state /\ r.gen = work[t].gen
        /\ r.nextSeq = work[t].nextSeq /\ r.compacted = work[t].compacted
    <3> HIDE DEF op, state, notBefore
    <3> QED BY <1>3, <2>2 DEF WorkRow, WorkState, NULL
  <2> HIDE DEF r, row, state
  <2> QED BY <1>5, <2>1, <2>2, <2>3 DEF row
<1> QED BY <1>4, <1>5, <1>6, <1>7

LEMMA UpdateEnds ==
    ASSUME NEW s, Closed(s), UpdateWork(s)
    PROVE  TableStep /\ SessionsInv'
<1> DEFINE op == session[s].op
           t == op.task
<1>1. PICK time \in op.at .. now :
         Ends(s, RowAt(WorkKey(t), UpdatedRow(s, time)), {})
  BY DEF UpdateWork
<1> DEFINE row == UpdatedRow(s, time)
<1>2. op.step \in {"renew", "finish", "fail"}
  BY DEF UpdateWork
<1>3. /\ row \in WorkRow
      /\ row.nextSeq = work[t].nextSeq /\ row.compacted = work[t].compacted
      /\ Renewed(t, row) \/ Ended(t, row)
  BY <1>2, UpdatedRows
<1>4. t \in Task /\ Foreign(s, WorkKey(t))
  <2>1. Holding(s) /\ LocksApart /\ s \in Session /\ ~session[s].open
    BY <1>2, ClosedFacts DEF CallInv, Op, Closed
  <2> QED BY <2>1, LockedIsForeign DEF Holding, Op
<1>5. Ends(s, RowAt(WorkKey(t), row), {})
  BY <1>1
<1> HIDE DEF row
<1>6. /\ work' = [work EXCEPT ![t] = row]
      /\ UNCHANGED <<now, workers, batches, stream>>
      /\ SessionsInv'
  BY <1>2, <1>4, <1>5, WorkRowEnds
<1>7. Rewrites(t, row)
  BY <1>3, <1>6 DEF Rewrites
<1> QED BY <1>3, <1>4, <1>6, <1>7 DEF TableStep

-----------------------------------------------------------------------------
(* commit_result_batch.                                                    *)

LEMMA BatchContinues ==
    ASSUME NEW s, Closed(s), LeaseOfBatch(s)
    PROVE  TableStep /\ SessionsInv'
<1>1. session[s].op.step = "lease" /\ BatchOf(s) /\ SeenWork(s) = work
  BY ClosedFacts DEF LeaseOfBatch, At, CallInv, Op, Closed
<1> DEFINE op == session[s].op
           t == op.task
           next == [op EXCEPT !.step = "insert"]
           locks == session[s].locks \cup {WorkKey(t)}
<1>2. CASE Raises(s)
  <2>1. UNCHANGED vars
    BY DEF LeaseOfBatch
  <2> QED BY <1>2, <2>1, RaisesClosed DEF TableStep
<1>3. CASE ~Raises(s)
  <2>1. /\ Continues(s, next, {WorkKey(t)}) /\ UNCHANGED vars
        /\ LockLease(s, t, op.worker, op.inst, op.entry.gen)
        /\ work[t].nextSeq = op.seq
    BY <1>1, <1>3 DEF LeaseOfBatch
  <2>2. t \in Task
    BY <1>1 DEF BatchOf, Op
  <2>3. /\ Free(s, {WorkKey(t)})
        /\ work[t].state = "LEASED" /\ work[t].gen = op.entry.gen
    <3> HIDE DEF op, t, next, locks
    <3> QED BY <1>1, <2>1 DEF LockLease, Seen!Owns
  <2>4. /\ next.step = "insert" /\ next.task = t /\ next.at = op.at
        /\ next.entry = op.entry /\ next.seq = op.seq
    BY <1>1
  <2> HIDE DEF next
  <2>5. ASSUME Becomes(s, FALSE, NoRows, next, NoRows, locks)
        PROVE  CallInv(s)'
    <3>1. /\ session'[s].kept = NoRows /\ session'[s].op = next
          /\ session'[s].rows = NoRows /\ session'[s].locks = locks
          /\ work' = work /\ now' = now
      BY <2>1, <2>5 DEF Becomes, vars
    <3>2. BatchOf(s)'
      BY <1>1, <2>4, <3>1 DEF BatchOf, Op
    <3>3. Holding(s)' /\ Inserting(s)'
      BY <2>1, <2>2, <2>3, <2>4, <3>1 DEF Holding, Inserting, Op, Locked
    <3> QED BY <2>4, <3>1, <3>2, <3>3 DEF CallInv, Op
  <2> QED BY <1>1, <2>1, <2>3, <2>5, ContinuesClosed DEF TableStep
<1> QED BY <1>2, <1>3

\* The row of the task after its batch: it completes, or it stays leased.
LEMMA CommittedRows ==
    ASSUME NEW s, Closed(s), session[s].op.step = "insert"
    PROVE  LET op == session[s].op
               row == Seen(s, op.at)!CommittedRow(SeenWork(s)[op.task],
                                                  op.entry.final)
           IN /\ row \in WorkRow
              /\ row.gen = work[op.task].gen
              /\ row.nextSeq = work[op.task].nextSeq + 1
              /\ row.compacted = work[op.task].compacted
              /\ row.state = IF op.entry.final THEN "COMPLETE" ELSE "LEASED"
              /\ row.state = "LEASED" =>
                   /\ SameHolder(op.task, row)
                   /\ row.deadline = work[op.task].deadline
<1> DEFINE op == session[s].op
           t == op.task
           next == [work[t] EXCEPT !.nextSeq = @ + 1]
           row == Seen(s, op.at)!CommittedRow(SeenWork(s)[t], op.entry.final)
<1>1. BatchOf(s) /\ Holding(s) /\ SeenWork(s) = work /\ TypeOK
  BY ClosedFacts DEF CallInv, Op, Closed
<1>2. /\ work[t] \in WorkRow /\ work[t].state = "LEASED" /\ op.at \in Nat
  BY <1>1 DEF BatchOf, Holding, Op, TypeOK
<1>3. work[t].nextSeq + 1 \in Nat
  BY <1>2 DEF WorkRow
<1>4. /\ next \in WorkRow /\ next.gen = work[t].gen
      /\ next.nextSeq = work[t].nextSeq + 1
      /\ next.compacted = work[t].compacted /\ next.state = "LEASED"
      /\ SameHolder(t, next) /\ next.deadline = work[t].deadline
  BY <1>2, <1>3 DEF WorkRow, SameHolder
<1>5. CASE op.entry.final
  <2> DEFINE done == [next EXCEPT !.state = "COMPLETE", !.owner = NoWorker,
                                  !.ownerInst = NULL, !.deadline = NULL,
                                  !.doneAt = op.at]
  <2>1. row = done
    BY <1>1, <1>5
       DEF Seen!CommittedRow, Seen!Completed, Seen!Unowned, Seen!NULL, NULL
  <2>2. /\ done \in WorkRow /\ done.gen = next.gen
        /\ done.nextSeq = next.nextSeq /\ done.compacted = next.compacted
        /\ done.state = "COMPLETE"
    <3> HIDE DEF op, next
    <3> QED BY <1>2, <1>4 DEF WorkRow, WorkState, NULL
  <2> HIDE DEF row, done, next
  <2> QED BY <1>4, <1>5, <2>1, <2>2 DEF row
<1>6. CASE ~op.entry.final
  <2>1. row = next
    BY <1>1, <1>6 DEF Seen!CommittedRow
  <2> HIDE DEF row, next
  <2> QED BY <1>4, <1>6, <2>1 DEF row
<1> QED BY <1>5, <1>6

LEMMA BatchEnds ==
    ASSUME NEW s, Closed(s), CommitResultBatch(s)
    PROVE  TableStep /\ SessionsInv'
<1> DEFINE op == session[s].op
           t == op.task
           n == op.seq
           entry == op.entry
           row == Seen(s, op.at)!CommittedRow(SeenWork(s)[t], entry.final)
           batch == [task |-> t, seq |-> n, entry |-> entry,
                     committedAt |-> op.at, consumedAt |-> NULL,
                     attempts |-> 0, quarantined |-> FALSE]
           rows == Over(RowAt(BatchKey(t, n), batch), RowAt(WorkKey(t), row))
<1>1. /\ op.step = "insert" /\ BatchOf(s) /\ Holding(s) /\ Inserting(s)
      /\ SeenBatches(s) = batches /\ session[s].rows = NoRows
      /\ TypeOK /\ LocksApart /\ s \in Session /\ ~session[s].open
  BY ClosedFacts DEF CommitResultBatch, At, CallInv, Op, Closed
<1>2. /\ t \in Task /\ op.at \in Nat /\ entry \in Inbox!Entry
      /\ work[t].state = "LEASED" /\ work[t].gen = entry.gen
      /\ work[t].nextSeq = n
      /\ work[t] \in WorkRow /\ Foreign(s, WorkKey(t))
  BY <1>1, LockedIsForeign DEF BatchOf, Holding, Inserting, Op, TypeOK
<1>3. /\ row \in WorkRow /\ row.gen = work[t].gen
      /\ row.nextSeq = work[t].nextSeq + 1
      /\ row.compacted = work[t].compacted
      /\ row.state = IF entry.final THEN "COMPLETE" ELSE "LEASED"
      /\ row.state = "LEASED" => /\ SameHolder(t, row)
                                 /\ row.deadline = work[t].deadline
  BY <1>1, CommittedRows
<1>4. /\ batch \in BatchRow /\ batch.task = t /\ batch.seq = n
      /\ batch.entry = entry /\ Unread(batch)
  <2>1. n \in Nat
    BY <1>2 DEF WorkRow
  <2>2. entry \in Entry
    BY <1>2, AuthorityAssumption DEF Inbox!Entry, Entry
  <2> HIDE DEF op, t, n, entry
  <2> QED BY <1>2, <2>1, <2>2 DEF BatchRow, NULL, Unread
<1>5. Stored(t, n) = {} /\ Ends(s, rows, {BatchKey(t, n)})
  BY <1>1 DEF CommitResultBatch, Seen!Stored, Stored, Seen!NULL, NULL
<1> HIDE DEF row, batch, op, t, n, entry
<1>6. /\ WorkersWith(rows) = workers
      /\ WorkWith(rows) = [work EXCEPT ![t] = row]
      /\ BatchesWith(rows) = batches \cup {batch}
      /\ StreamWith(rows) = [stream EXCEPT ![t] = Append(@, batch.entry)]
  BY <1>1, <1>2, <1>4, <1>5, BatchInserted
<1>7. Over(rows, session[s].rows) = rows
  <2>1. DOMAIN NoRows = {} /\ session[s].rows = NoRows
    BY <1>1, OverNoRows
  <2> QED BY <2>1 DEF Over
<1> HIDE DEF rows
<1>8. /\ workers' = WorkersWith(rows) /\ work' = WorkWith(rows)
      /\ batches' = BatchesWith(rows) /\ stream' = StreamWith(rows)
      /\ now' = now
      /\ Becomes(s, FALSE, NoRows, Idle, NoRows, {})
  BY <1>5, <1>7, EndsClosed
<1>9. SessionsInv'
  <2>1. \A u \in Task : work'[u] = work[u] \/ Foreign(s, WorkKey(u))
    BY <1>1, <1>2, <1>6, <1>8 DEF TypeOK
  <2>2. workers' = workers
    BY <1>6, <1>8
  <2> QED BY <1>8, <2>1, <2>2, CommitLeaves
<1>10. Accepts(t, entry, row, batch)
  BY <1>2, <1>3, <1>4, <1>5, <1>6, <1>8 DEF Accepts
<1>11. Inserts(t, entry, row, batch)
  BY <1>3, <1>6, <1>8, <1>10 DEF Inserts
<1> QED BY <1>2, <1>3, <1>4, <1>9, <1>11 DEF TableStep

-----------------------------------------------------------------------------
(* mark_batch_consumed and mark_batch_consume_failed.                      *)

LEMMA SettleEnds ==
    ASSUME NEW s, Closed(s), NEW b \in SeenBatches(s), NEW row,
           row.task = b.task, row.seq = b.seq, SettleBatch(s, b, row)
    PROVE  /\ b \in batches /\ Unread(b)
           /\ batches' = Replaced(b, row)
           /\ UNCHANGED <<now, workers, work, stream>>
           /\ SessionsInv'
<1> DEFINE rows == RowAt(BatchKey(b.task, b.seq), row)
<1>1. session[s].op.step = "idle" /\ Unread(b) /\ \E keys : Ends(s, rows, keys)
  BY DEF SettleBatch, At
<1>2. session[s].rows = NoRows /\ SeenBatches(s) = batches /\ StreamInv
  BY <1>1, ClosedFacts
<1>3. /\ WorkersWith(rows) = workers /\ WorkWith(rows) = work
      /\ BatchesWith(rows) = Replaced(b, row) /\ StreamWith(rows) = stream
  BY <1>2, BatchWritten
<1>4. Over(rows, session[s].rows) = rows
  BY <1>2, OverNoRows
<1> HIDE DEF rows
<1>5. /\ workers' = WorkersWith(rows) /\ work' = WorkWith(rows)
      /\ batches' = BatchesWith(rows) /\ stream' = StreamWith(rows)
      /\ now' = now
      /\ Becomes(s, FALSE, NoRows, Idle, NoRows, {})
  BY <1>1, <1>4, EndsClosed
<1>6. SessionsInv'
  BY <1>3, <1>5, CommitLeaves
<1> QED BY <1>1, <1>2, <1>3, <1>5, <1>6

LEMMA ConsumeEnds ==
    ASSUME NEW s, Closed(s), NEW b \in SeenBatches(s),
           MarkBatchConsumed(s, b) \/ MarkBatchConsumeFailed(s, b)
    PROVE  TableStep /\ SessionsInv'
<1> DEFINE read == [b EXCEPT !.consumedAt = now]
           failed == [b EXCEPT !.attempts = @ + 1,
                               !.quarantined =
                                 (b.attempts + 1 >= MaxConsumeAttempts)]
<1>1. b \in BatchRow
  <2>1. session[s].op.step = "idle"
    BY DEF MarkBatchConsumed, MarkBatchConsumeFailed, SettleBatch, At
  <2>2. SeenBatches(s) = batches /\ TypeOK
    BY <2>1, ClosedFacts
  <2> QED BY <2>2 DEF TypeOK
<1>2. /\ read.task = b.task /\ read.seq = b.seq
      /\ failed.task = b.task /\ failed.seq = b.seq
  BY <1>1 DEF BatchRow
<1>3. CASE MarkBatchConsumed(s, b)
  <2>1. SettleBatch(s, b, read)
    BY <1>3 DEF MarkBatchConsumed
  <2>2. /\ b \in batches /\ Unread(b) /\ batches' = Replaced(b, read)
        /\ UNCHANGED <<now, workers, work, stream>> /\ SessionsInv'
    <3> HIDE DEF read
    <3> QED BY <1>2, <2>1, SettleEnds
  <2>3. Consume(b)
    BY <2>2 DEF Consume
  <2> QED BY <2>2, <2>3 DEF TableStep, StoreStep
<1>4. CASE MarkBatchConsumeFailed(s, b)
  <2>1. SettleBatch(s, b, failed)
    BY <1>4 DEF MarkBatchConsumeFailed
  <2>2. /\ b \in batches /\ Unread(b) /\ batches' = Replaced(b, failed)
        /\ UNCHANGED <<now, workers, work, stream>> /\ SessionsInv'
    <3> HIDE DEF failed
    <3> QED BY <1>2, <2>1, SettleEnds
  <2>3. ConsumeFail(b)
    BY <2>2 DEF ConsumeFail
  <2> QED BY <2>2, <2>3 DEF TableStep, StoreStep
<1> QED BY <1>3, <1>4

-----------------------------------------------------------------------------
(* The connections, and the clock.                                         *)

LEMMA ReadOpens ==
    ASSUME NEW s, Closed(s), BareRead(s)
    PROVE  TableStep /\ SessionsInv'
<1>1. s \in Session /\ PgInv /\ Reads(s) /\ UNCHANGED vars
  BY DEF Closed, BareRead
<1>2. Becomes(s, TRUE, session[s].kept, session[s].op, session[s].rows,
              session[s].locks)
  BY <1>1, ClosedFacts, ReadsFields
<1> QED BY <1>1, <1>2, StaysOpen DEF TableStep

LEMMA CallFails ==
    ASSUME NEW s, Closed(s), StatementFails(s) \/ Crash(s)
    PROVE  TableStep /\ SessionsInv'
<1>1. s \in Session /\ PgInv /\ Shape /\ UNCHANGED vars
  BY ClosedFacts DEF Closed, StatementFails, Crash
<1>2. CASE StatementFails(s)
  BY <1>1, <1>2, RaisesClosed DEF StatementFails, TableStep
<1>3. CASE Crash(s)
  <2>1. Becomes(s, FALSE, NoRows, Idle, NoRows, {})
    BY <1>1, <1>3, ConnectedFields DEF Crash, Disconnects
  <2> QED BY <1>1, <2>1, Resets DEF TableStep
<1> QED BY <1>2, <1>3

\* The sessions know what they knew, however late it gets.
LEMMA LaterSessions ==
    ASSUME PgInv, UNCHANGED <<workers, work, session>>,
           now' \in Nat, now' >= now
    PROVE  SessionsInv'
<1>1. now \in Nat /\ Shape /\ LocksApart
  BY DEF PgInv, TablesInv, StreamInv, TypeOK, SessionsInv
<1>2. ASSUME NEW o \in Session
      PROVE  CallInv(o)'
  <2>1. CallInv(o) /\ session'[o] = session[o]
    BY DEF PgInv, SessionsInv
  <2> QED BY <1>1, <2>1, CallKept
<1> QED BY <1>1, <1>2 DEF SessionsInv, Shape, LocksApart

-----------------------------------------------------------------------------
(* Every step.                                                             *)

\* The steps of the processes are, for the committed tables, those of one
\* store that takes its calls one at a time.
LEMMA PgStep == PgInv /\ [PgNext]_pgVars => TableStep /\ PgInv'
<1> SUFFICES ASSUME PgInv, [PgNext]_pgVars
             PROVE  TableStep /\ SessionsInv'
  BY TablesStep DEF PgInv
<1>0. now \in Nat
  BY DEF PgInv, TablesInv, StreamInv, TypeOK
<1>1. CASE UNCHANGED pgVars
  <2>1. UNCHANGED vars /\ UNCHANGED <<workers, work, session>> /\ now' = now
    BY <1>1 DEF pgVars, vars
  <2> QED BY <1>0, <2>1, LaterSessions DEF TableStep
<1>2. CASE Time
  <2>1. Tick /\ UNCHANGED <<workers, work, session>> /\ now' = now + 1
    BY <1>2 DEF Time, Tick
  <2> QED BY <1>0, <2>1, LaterSessions DEF TableStep, StoreStep
<1>3. ASSUME NEW s \in Session, SessionStep(s)
      PROVE  TableStep /\ SessionsInv'
  <2>1. CASE session[s].open
    BY <1>3, <2>1, OpenStep DEF TableStep
  <2>2. CASE ~session[s].open
    <3> Closed(s)
      BY <2>2 DEF Closed
    <3>1. ASSUME NEW w \in Worker, NEW i \in Instance,
                 RegisterWorker(s, w, i) \/ ClaimWork(s, w, i)
          PROVE  TableStep /\ SessionsInv'
      BY <3>1, RegisterBegins, ClaimBegins
    <3>2. ASSUME NEW w \in Worker, RevokeWorker(s, w)
          PROVE  TableStep /\ SessionsInv'
      BY <3>2, RevokeBegins
    <3>3. CASE ReleaseLeases(s)
      BY <3>3, ReleaseEnds
    <3>4. ASSUME NEW t \in Task, NEW d \in RetryDelay, AdmitWork(s, t, now + d)
          PROVE  TableStep /\ SessionsInv'
      BY <3>4, AdmitEnds
    <3>5. CASE ClaimActive(s) \/ ClaimCandidate(s) \/ GrantLease(s)
      BY <3>5, ActiveContinues, CandidateContinues, GrantEnds
    <3>6. ASSUME NEW t \in Task, NEW w \in Worker, NEW i \in Instance,
                 NEW g \in 1 .. MaxAttempts, LeaseCall(s, t, w, i, g)
          PROVE  TableStep /\ SessionsInv'
      BY <3>6, LeaseCallBegins
    <3>7. CASE UpdateWork(s)
      BY <3>7, UpdateEnds
    <3>8. CASE LeaseOfBatch(s) \/ CommitResultBatch(s)
      BY <3>8, BatchContinues, BatchEnds
    <3>9. ASSUME NEW b \in SeenBatches(s),
                 MarkBatchConsumed(s, b) \/ MarkBatchConsumeFailed(s, b)
          PROVE  TableStep /\ SessionsInv'
      BY <3>9, ConsumeEnds
    <3>10. CASE BareRead(s) \/ StatementFails(s) \/ Crash(s)
      BY <3>10, ReadOpens, CallFails
    <3> QED
      BY <1>3, <3>1, <3>2, <3>3, <3>4, <3>5, <3>6, <3>7, <3>8, <3>9, <3>10
         DEF SessionStep
  <2> QED BY <2>1, <2>2
<1> QED BY <1>1, <1>2, <1>3 DEF PgNext

LEMMA PgStart == PgInit => PgInv
<1> SUFFICES ASSUME PgInit
             PROVE  PgInv
  OBVIOUS
<1>1. TablesInv
  BY StreamInvInit, LeaseInvInit DEF PgInit, TablesInv, LeaseInv
<1>2. /\ DOMAIN session = Session
      /\ \A s \in Session : session[s] = Connected
  BY DEF PgInit, SessionInit
<1>3. /\ DOMAIN Connected = Fields /\ Connected.open = FALSE
      /\ Connected.kept = NoRows /\ Connected.rows = NoRows
      /\ Connected.locks = {} /\ Connected.op = Idle /\ Idle.step = "idle"
  BY DEF Connected, Fields, Idle
<1>4. Shape /\ LocksApart
  BY <1>2, <1>3 DEF Shape, LocksApart
<1>5. \A s \in Session : CallInv(s)
  BY <1>2, <1>3 DEF CallInv, Op
<1> QED BY <1>1, <1>4, <1>5 DEF PgInv, SessionsInv

LEMMA PgInvariant == PgSpec => []PgInv
BY PgStart, PgStep, PTL DEF PgSpec

-----------------------------------------------------------------------------

\* Whatever the processes interleave, and wherever they crash or a statement
\* fails: the committed work rows are leased to the incarnation that the
\* committed worker row names, and to none that is revoked.
THEOREM PgHolderKnown == PgSpec => []LeaseOfKnownIncarnation
<1>1. PgInv => LeaseOfKnownIncarnation
  BY DEF PgInv, TablesInv
<1> QED BY <1>1, PgInvariant, PTL

\* The batches that a task has are those its stream says, numbered without a
\* gap, and from generations that never go back, although the sequence number
\* is tested in one statement and the batch inserted in another.
THEOREM PgStreamFenced == PgSpec => [](StreamFenced /\ InboxMatchesStream)
<1>1. PgInv => StreamFenced /\ InboxMatchesStream
  BY DEF PgInv, TablesInv, StreamInv
<1> QED BY <1>1, PgInvariant, PTL

\* No commit of any process hands an unexpired lease to anyone else, although
\* claim_work tests it at a time that may be long past when it is granted.
THEOREM PgNotStolen == PgSpec => LiveLeaseNotStolen
<1> DEFINE A == \A t \in Task :
                   work[t].state = "LEASED" /\ work[t].deadline > now
                   => work'[t].gen = work[t].gen
<1>1. PgInv /\ [PgNext]_pgVars => A
  BY PgStep, TableKeepsLeases DEF PgInv
<1> HIDE DEF A
<1>2. PgSpec => [][A]_vars
  BY <1>1, PgInvariant, PTL DEF PgSpec
<1> QED BY <1>2 DEF A, LiveLeaseNotStolen

\* No renewal takes back a deadline, in whatever order renewals read the
\* clock and commit.
THEOREM PgNotRegressing == PgSpec => DeadlineNeverRegresses
<1> DEFINE A == \A t \in Task :
                   work[t].state = "LEASED" /\ work'[t].state = "LEASED"
                   /\ work'[t].gen = work[t].gen
                   => work'[t].deadline >= work[t].deadline
<1>1. PgInv /\ [PgNext]_pgVars => A
  BY PgStep, TableKeepsLeases DEF PgInv
<1> HIDE DEF A
<1>2. PgSpec => [][A]_vars
  BY <1>1, PgInvariant, PTL DEF PgSpec
<1> QED BY <1>2 DEF A, DeadlineNeverRegresses

\* A task that has ended stays ended and gets no batch, whatever call of
\* another process had read it before.
THEOREM PgTerminalFinal == PgSpec => TerminalIsFinal
<1> DEFINE A == \A t \in Task :
                   work[t].state \in {"COMPLETE", "DEAD"}
                   => work'[t].state = work[t].state /\ stream'[t] = stream[t]
<1>1. PgInv /\ [PgNext]_pgVars => A
  BY PgStep, TableKeepsEnded DEF PgInv, Terminal
<1> HIDE DEF A
<1>2. PgSpec => [][A]_vars
  BY <1>1, PgInvariant, PTL DEF PgSpec
<1> QED BY <1>2 DEF A, TerminalIsFinal

\* No process removes a batch that no reader has settled.
THEOREM PgUnreadKept == PgSpec => UnreadIsKept
<1> DEFINE A == \A b \in batches :
                   Unread(b) => \E c \in batches' : /\ c.task = b.task
                                                   /\ c.seq = b.seq
                                                   /\ c.entry = b.entry
<1>1. PgInv /\ [PgNext]_pgVars => A
  BY PgStep, TableKeepsUnread DEF PgInv, SameBatch
<1> HIDE DEF A
<1>2. PgSpec => [][A]_vars
  BY <1>1, PgInvariant, PTL DEF PgSpec
<1> QED BY <1>2 DEF A, UnreadIsKept

\* What the readers of the inbox are promised of one store, its processes
\* keep together: every COMMIT of any of them is a step of ResultInbox or
\* leaves it alone.
THEOREM PgInboxImplemented == PgSpec => ImplementsInbox
<1>1. PgInit => Inbox!Init
  BY DEF PgInit, Init, Inbox!Init, unreadPositions, closedTasks
<1>2. PgInv /\ [PgNext]_pgVars => [Inbox!Next]_(Inbox!vars)
  BY PgStep, TableImplements DEF PgInv
<1> QED
  BY <1>1, <1>2, PgInvariant, PTL
     DEF PgSpec, ImplementsInbox, Inbox!Spec
=============================================================================
