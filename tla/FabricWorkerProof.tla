------------------------- MODULE FabricWorkerProof -------------------------
(***************************************************************************)
(* The worker processes with the authority, for any number of workers,     *)
(* tasks, incarnations and late requests.  WorkerInv is inductive.         *)
(*                                                                         *)
(* Every step of the composition is a step of the authority or leaves it   *)
(* alone, so that all that is proved of Spec holds of WorkerSpec.  What    *)
(* the worker adds rests on one fact about a result (PendingOk): as long   *)
(* as the generation that produced it owns its task, the result is in the  *)
(* stream, or it holds the next number and still is the one batch of the   *)
(* spool, wherever else a late copy of it may be.                          *)
(***************************************************************************)
EXTENDS FabricWorker, FabricAuthorityProof

-----------------------------------------------------------------------------
(* The inductive invariant.                                                *)

LeasedOnce == \A t \in Task : work[t].state = "LEASED" => work[t].gen >= 1

ProcOk(w) ==
    /\ proc[w].inst <= MaxInstance
    /\ proc[w].phase # "down" => proc[w].inst # NULL
    /\ Working(w) => proc[w].task \in Task /\ proc[w].deadline # NULL

\* The spool holds one batch at most, the one under delivery if there is one.
OneSpooled(w) ==
    /\ \A b, c \in spool[w] : b = c
    /\ proc[w].inst = NULL => spool[w] = {}
    /\ proc[w].phase = "run" => spool[w] = {}
    /\ proc[w].phase = "deliver" =>
         \A b \in spool[w] : /\ b.task = proc[w].task /\ b.seq = proc[w].seq
                             /\ b.entry.gen = proc[w].gen

InStream(b) ==
    b.seq < work[b.task].nextSeq /\ stream[b.task][b.seq + 1] = b.entry

PendingOk(w, i, b) ==
    /\ b.entry.gen <= work[b.task].gen
    /\ Owns(b.task, w, i, b.entry.gen) =>
         \/ InStream(b)
         \/ b.seq = work[b.task].nextSeq /\ i = proc[w].inst /\ b \in spool[w]

\* The number a live worker gives to its batches.
SeqOk(w) ==
    Owns(proc[w].task, w, proc[w].inst, proc[w].gen) =>
      /\ proc[w].phase = "run" => proc[w].seq = work[proc[w].task].nextSeq
      /\ proc[w].phase = "deliver" =>
           work[proc[w].task].nextSeq \in {proc[w].seq, proc[w].seq + 1}

ViewOk(w) ==
    /\ proc[w].gen <= work[proc[w].task].gen
    /\ work[proc[w].task].state = "LEASED" /\ work[proc[w].task].gen = proc[w].gen
       => proc[w].deadline <= work[proc[w].task].deadline

WorkerOk(w) ==
    /\ ProcOk(w)
    /\ OneSpooled(w)
    /\ Working(w) => SeqOk(w) /\ ViewOk(w)

SpoolOk(w) == \A b \in spool[w] : PendingOk(w, proc[w].inst, b)

LateOk(m) == m.body.kind = "commit" => PendingOk(m.from, m.inst, m.body.batch)

\* Nothing is collected under the eyes of the workers.
AllStored ==
    \A t \in Task : \A s \in Nat : s < work[t].nextSeq => Stored(t, s) # {}

AuthorityInv == LeaseInv /\ StreamInv /\ LeasedOnce

WorkerInv ==
    /\ AuthorityInv
    /\ WorkerTypeOK
    /\ \A w \in Worker : WorkerOk(w) /\ SpoolOk(w)
    /\ \A m \in late : LateOk(m)
    /\ AllStored

-----------------------------------------------------------------------------
(* What a step of the authority does to those who depend on it.            *)

LEMMA RowNumbers ==
    ASSUME TypeOK, NEW t \in Task
    PROVE  /\ work[t] \in WorkRow
           /\ work[t].gen \in Nat /\ work[t].nextSeq \in Nat
           /\ work[t].deadline \in Nat /\ now \in Nat
  BY DEF TypeOK, WorkRow

LEMMA TimeForward ==
    ASSUME TypeOK, [Next]_vars
    PROVE  now' \in Nat /\ now' >= now
<1>1. now \in Nat
  BY DEF TypeOK
<1>2. ASSUME NEW t \in Task, NEW w \in Worker, NEW i \in Instance,
             NEW g \in 1 .. MaxAttempts, LeaseStep(t, w, i, g)
      PROVE  now' = now
  BY <1>2, HolderStep
<1>3. CASE Tick
  BY <1>1, <1>3 DEF Tick
<1>4. CASE now' = now
  BY <1>1, <1>4
<1> QED
  BY <1>2, <1>3, <1>4
     DEF Next, Register, Revoke, Admit, Claim, Consume, ConsumeFail, Gc, vars

LEMMA GenForward ==
    ASSUME LeaseInv, [Next]_vars, NEW t \in Task
    PROVE  work'[t].gen \in Nat /\ work'[t].gen >= work[t].gen
<1>1. work[t].gen \in Nat
  BY RowNumbers DEF LeaseInv
<1> QED BY <1>1, StepEffect DEF LeaseInv, Kept, SameLease, Unleased, Extended

\* A generation that is superseded or has run out never owns its task again.
LEMMA OwnsBack ==
    ASSUME LeaseInv, [Next]_vars, NEW t \in Task, NEW w, NEW i, NEW g \in Nat,
           g <= work[t].gen, Owns(t, w, i, g)'
    PROVE  Owns(t, w, i, g)
<1>1. /\ work[t].gen \in Nat /\ work[t].deadline \in Nat /\ now \in Nat
      /\ now' \in Nat /\ now' >= now
  BY RowNumbers, TimeForward DEF LeaseInv
<1>2. CASE Kept(t)
  BY <1>1, <1>2 DEF Kept, SameLease, Unleased, Extended, Owns
<1>3. CASE work'[t].gen = work[t].gen + 1
  BY <1>1, <1>3 DEF Owns
<1> QED BY <1>2, <1>3, StepEffect DEF LeaseInv

LEMMA LeasedOnceStep ==
    ASSUME LeaseInv, LeasedOnce, [Next]_vars
    PROVE  LeasedOnce'
<1> SUFFICES ASSUME NEW t \in Task, work'[t].state = "LEASED"
             PROVE  work'[t].gen >= 1
  BY DEF LeasedOnce
<1>1. work[t].gen \in Nat
  BY RowNumbers DEF LeaseInv
<1> QED
  BY <1>1, StepEffect
     DEF LeaseInv, LeasedOnce, Kept, SameLease, Unleased, Extended

CommitOf(w, i, b) == Commit(b.task, w, i, b.seq, b.entry)

\* The step accepts no batch.
Quiet ==
    /\ batches' = batches /\ stream' = stream
    /\ \A t \in Task : work'[t].nextSeq = work[t].nextSeq

\* The step is one of the authority; it accepts a pending batch or none.
AuthorityStep ==
    /\ [Next]_vars
    /\ \/ Quiet
       \/ \E w \in Worker, i \in Instance, b \in SpoolBatch :
             CommitOf(w, i, b) /\ PendingOk(w, i, b)

\* The batch an accepting step appends.
LEMMA CommitEffect ==
    ASSUME AuthorityInv, NEW w, NEW i, NEW b \in SpoolBatch, CommitOf(w, i, b)
    PROVE  /\ b.task \in Task /\ b.seq \in Nat
           /\ Owns(b.task, w, i, b.entry.gen)
           /\ work[b.task].nextSeq = b.seq
           /\ work'[b.task].nextSeq = b.seq + 1
           /\ \A t \in Task \ {b.task} :
                 /\ work'[t] = work[t] /\ stream'[t] = stream[t]
           /\ stream'[b.task][b.seq + 1] = b.entry
           /\ \A s \in Nat : s < b.seq =>
                 stream'[b.task][s + 1] = stream[b.task][s + 1]
           /\ Len(stream'[b.task]) = b.seq + 1
           /\ \E c \in batches' : c.task = b.task /\ c.seq = b.seq
           /\ batches \subseteq batches'
<1>0. /\ b.task \in Task /\ b.seq \in Nat /\ b.entry \in Entry
      /\ b.entry.final \in BOOLEAN
  BY DEF SpoolBatch, Entry
<1>1. /\ work[b.task] \in WorkRow /\ work[b.task].nextSeq \in Nat
      /\ stream[b.task] \in Seq(Entry)
      /\ work[b.task].nextSeq = Len(stream[b.task])
  BY <1>0, RowNumbers
     DEF AuthorityInv, StreamInv, InboxMatchesStream, TypeOK
<1>2. Owns(b.task, w, i, b.entry.gen) /\ work[b.task].nextSeq = b.seq
  BY DEF CommitOf, Commit, CommitVerdict
<1>3. /\ work'[b.task] = CommittedRow(work[b.task], b.entry.final)
      /\ \A t \in Task \ {b.task} :
            work'[t] = work[t] /\ stream'[t] = stream[t]
      /\ stream'[b.task] = Append(stream[b.task], b.entry)
  BY <1>0 DEF CommitOf, Commit, AuthorityInv, StreamInv, TypeOK
<1>4. work'[b.task].nextSeq = b.seq + 1
  BY <1>1, <1>2, <1>3 DEF CommittedRow, Completed, Unowned, WorkRow
<1>5. /\ Len(stream'[b.task]) = b.seq + 1
      /\ stream'[b.task][b.seq + 1] = b.entry
      /\ \A s \in Nat : s < b.seq =>
            stream'[b.task][s + 1] = stream[b.task][s + 1]
  <2> DEFINE old == stream[b.task]
             new == stream'[b.task]
  <2>1. old \in Seq(Entry) /\ Len(old) = b.seq /\ new = Append(old, b.entry)
    BY <1>0, <1>1, <1>2, <1>3
  <2> HIDE DEF old, new
  <2>2. /\ Len(new) = b.seq + 1 /\ new[b.seq + 1] = b.entry
        /\ \A k \in 1 .. b.seq : new[k] = old[k]
    BY <1>0, <2>1
  <2>3. \A s \in Nat : s < b.seq => s + 1 \in 1 .. b.seq
    BY <1>0
  <2> QED BY <2>2, <2>3 DEF old, new
<1>6. /\ \E c \in batches' : c.task = b.task /\ c.seq = b.seq
      /\ batches \subseteq batches'
  <2> DEFINE c == [task |-> b.task, seq |-> b.seq, entry |-> b.entry,
                   committedAt |-> now, consumedAt |-> NULL,
                   attempts |-> 0, quarantined |-> FALSE]
  <2>1. batches' = batches \cup {c}
    BY DEF CommitOf, Commit
  <2>2. c.task = b.task /\ c.seq = b.seq
    OBVIOUS
  <2> HIDE DEF c
  <2> QED BY <2>1, <2>2
<1> QED BY <1>0, <1>2, <1>3, <1>4, <1>5, <1>6

LEMMA StoredStep ==
    ASSUME AuthorityInv, AuthorityStep, AllStored
    PROVE  AllStored'
<1> SUFFICES ASSUME NEW t \in Task, NEW s \in Nat, s < work'[t].nextSeq
             PROVE  \E c \in batches' : c.task = t /\ c.seq = s
  BY DEF AllStored, Stored
<1>0. work[t].nextSeq \in Nat
  BY RowNumbers DEF AuthorityInv, LeaseInv
<1>1. s < work[t].nextSeq => \E c \in batches : c.task = t /\ c.seq = s
  BY DEF AllStored, Stored
<1>2. CASE Quiet
  BY <1>1, <1>2 DEF Quiet
<1>3. ASSUME NEW w \in Worker, NEW i \in Instance, NEW b \in SpoolBatch,
             CommitOf(w, i, b)
      PROVE  \E c \in batches' : c.task = t /\ c.seq = s
  <2>1. CASE t = b.task /\ s = b.seq
    BY <1>3, <2>1, CommitEffect
  <2>2. CASE ~(t = b.task /\ s = b.seq)
    <3>1. s < work[t].nextSeq
      BY <1>0, <1>3, <2>2, CommitEffect
    <3> QED BY <1>1, <1>3, <3>1, CommitEffect
  <2> QED BY <2>1, <2>2
<1> QED BY <1>2, <1>3 DEF AuthorityStep

\* What the stream has, it keeps.
LEMMA InStreamKept ==
    ASSUME AuthorityInv, AuthorityStep, NEW b \in SpoolBatch, InStream(b)
    PROVE  InStream(b)'
<1>0. b.task \in Task /\ b.seq \in Nat
  BY DEF SpoolBatch
<1>1. CASE Quiet
  BY <1>0, <1>1 DEF Quiet, InStream
<1>2. ASSUME NEW w \in Worker, NEW i \in Instance, NEW c \in SpoolBatch,
             CommitOf(w, i, c)
      PROVE  InStream(b)'
  BY <1>0, <1>2, CommitEffect DEF InStream
<1> QED BY <1>1, <1>2 DEF AuthorityStep

\* One identity owns a task.
LEMMA OneOwner ==
    ASSUME NEW t, NEW w, NEW v, NEW i, NEW j, NEW g, NEW h,
           Owns(t, w, i, g), Owns(t, v, j, h)
    PROVE  w = v /\ i = j /\ g = h
  BY DEF Owns

\* A commit against a task that (w, i) owns fills the number of the one
\* batch that w has in its spool.
LEMMA CommitOfOwner ==
    ASSUME WorkerInv, NEW w \in Worker, NEW i, NEW t \in Task, NEW g,
           Owns(t, w, i, g),
           NEW v \in Worker, NEW j \in Instance, NEW c \in SpoolBatch,
           CommitOf(v, j, c), PendingOk(v, j, c), c.task = t
    PROVE  /\ c \in spool[w] /\ i = proc[w].inst /\ c.entry.gen = g
           /\ c.seq = work[t].nextSeq
<1>1. /\ Owns(t, v, j, c.entry.gen) /\ work[t].nextSeq = c.seq
      /\ c.seq \in Nat
  BY CommitEffect DEF WorkerInv
<1>2. v = w /\ j = i /\ c.entry.gen = g
  BY <1>1, OneOwner
<1>3. ~InStream(c)
  BY <1>1 DEF InStream
<1> QED BY <1>1, <1>2, <1>3 DEF PendingOk

LEMMA PendingKept ==
    ASSUME WorkerInv, AuthorityStep,
           NEW w \in Worker, NEW i, NEW b \in SpoolBatch, PendingOk(w, i, b),
           i = proc[w].inst /\ b \in spool[w] =>
             \/ i = proc'[w].inst /\ b \in spool'[w]
             \/ InStream(b)' \/ ~Owns(b.task, w, i, b.entry.gen)
    PROVE  PendingOk(w, i, b)'
<1>0. b.task \in Task /\ b.seq \in Nat /\ b.entry.gen \in Nat
  BY DEF SpoolBatch, Entry
<1>1. b.entry.gen <= work'[b.task].gen
  <2>1. work[b.task].gen \in Nat
    BY <1>0, RowNumbers DEF WorkerInv, AuthorityInv, LeaseInv
  <2>2. work'[b.task].gen \in Nat /\ work'[b.task].gen >= work[b.task].gen
    BY <1>0, GenForward DEF WorkerInv, AuthorityInv, AuthorityStep
  <2> QED BY <1>0, <2>1, <2>2 DEF PendingOk
<1>2. SUFFICES ASSUME Owns(b.task, w, i, b.entry.gen)', ~InStream(b)'
               PROVE  (/\ b.seq = work[b.task].nextSeq
                       /\ i = proc[w].inst /\ b \in spool[w])'
  BY <1>1 DEF PendingOk
<1>3. Owns(b.task, w, i, b.entry.gen)
  BY <1>0, <1>2, OwnsBack
     DEF PendingOk, WorkerInv, AuthorityInv, AuthorityStep
<1>4. ~InStream(b)
  BY <1>2, InStreamKept DEF WorkerInv
<1>5. b.seq = work[b.task].nextSeq /\ i = proc[w].inst /\ b \in spool[w]
  BY <1>3, <1>4 DEF PendingOk
<1>6. work'[b.task].nextSeq = work[b.task].nextSeq
  <2>1. CASE Quiet
    BY <1>0, <2>1 DEF Quiet
  <2>2. ASSUME NEW v \in Worker, NEW j \in Instance, NEW c \in SpoolBatch,
               CommitOf(v, j, c), PendingOk(v, j, c)
        PROVE  work'[b.task].nextSeq = work[b.task].nextSeq
    <3>1. CASE c.task = b.task
      <4>1. c \in spool[w]
        BY <1>0, <1>3, <2>2, <3>1, CommitOfOwner
      <4>2. c = b
        BY <1>5, <4>1 DEF WorkerInv, WorkerOk, OneSpooled
      <4>3. InStream(b)'
        BY <2>2, <4>2, CommitEffect DEF WorkerInv, InStream
      <4> QED BY <1>2, <4>3
    <3>2. CASE c.task # b.task
      BY <1>0, <2>2, <3>2, CommitEffect DEF WorkerInv
    <3> QED BY <3>1, <3>2
  <2> QED BY <2>1, <2>2 DEF AuthorityStep
<1> QED BY <1>2, <1>3, <1>5, <1>6

-----------------------------------------------------------------------------
(* Every request of a worker is handled by an action of the authority.     *)

LEMMA HeldGen ==
    ASSUME AuthorityInv, NEW t \in Task, NEW w, NEW i, NEW g, Owns(t, w, i, g)
    PROVE  g \in 1 .. MaxAttempts
<1>1. work[t].gen \in Nat /\ MaxAttempts \in Nat
  BY RowNumbers, AuthorityAssumption DEF AuthorityInv, LeaseInv
<1> QED
  BY <1>1 DEF AuthorityInv, LeaseInv, LeasedOnce, RetryHasAttemptsLeft, Owns

LEMMA ReleasedQuiet ==
    ASSUME TypeOK, NEW ts \in SUBSET Task, work' = Released(ts),
           UNCHANGED <<batches, stream>>
    PROVE  Quiet
<1>1. \A t \in Task : work[t] \in WorkRow
  BY DEF TypeOK
<1>2. \A t \in Task : work'[t] \in {work[t], Unowned(work[t], "PENDING")}
  BY DEF Released
<1> QED BY <1>1, <1>2, UnownedRow DEF Quiet

\* One row is rewritten and keeps its next number.
LEMMA RowQuiet ==
    ASSUME TypeOK, NEW t \in Task, NEW row, work' = [work EXCEPT ![t] = row],
           row.nextSeq = work[t].nextSeq, UNCHANGED <<batches, stream>>
    PROVE  Quiet
  BY DEF TypeOK, Quiet

LEMMA Unchanging ==
    ASSUME UNCHANGED authVars
    PROVE  AuthorityStep
  BY DEF authVars, vars, AuthorityStep, Quiet

LEMMA RegisterHandled ==
    ASSUME WorkerInv, NEW w \in Worker, NEW i \in Instance, Register(w, i)
    PROVE  AuthorityStep
<1>1. Quiet
  BY ReleasedQuiet
     DEF WorkerInv, AuthorityInv, LeaseInv, Register, LeasedTo
<1> QED BY <1>1 DEF AuthorityStep, Next

LEMMA ClaimHandled ==
    ASSUME WorkerInv, NEW t \in Task, NEW w \in Worker, NEW i \in Instance,
           Claim(t, w, i)
    PROVE  AuthorityStep
<1> DEFINE row == LeasedRow(work[t], w, i)
<1>1. TypeOK /\ work[t] \in WorkRow
  BY RowNumbers DEF WorkerInv, AuthorityInv, LeaseInv
<1>2. row.nextSeq = work[t].nextSeq
  BY <1>1 DEF LeasedRow, WorkRow
<1>3. work' = [work EXCEPT ![t] = row] /\ UNCHANGED <<batches, stream>>
  BY DEF Claim
<1> HIDE DEF row
<1>4. Quiet
  BY <1>1, <1>2, <1>3, RowQuiet
<1> QED BY <1>4 DEF AuthorityStep, Next

LEMMA RenewHandled ==
    ASSUME WorkerInv, NEW t \in Task, NEW w \in Worker, NEW i \in Instance,
           NEW g, NEW expected \in Nat \ {0}, Renew(t, w, i, g, expected)
    PROVE  AuthorityStep
<1> DEFINE row == [work[t] EXCEPT !.deadline = RenewedDeadline(t, expected)]
<1>1. TypeOK /\ work[t] \in WorkRow /\ work[t].deadline \in Nat
  BY RowNumbers DEF WorkerInv, AuthorityInv, LeaseInv
<1>2. row.nextSeq = work[t].nextSeq
  BY <1>1 DEF WorkRow
<1>3. work' = [work EXCEPT ![t] = row] /\ UNCHANGED <<batches, stream>>
  BY <1>1 DEF Renew, TypeOK
<1> HIDE DEF row
<1>4. Quiet
  BY <1>1, <1>2, <1>3, RowQuiet
<1>5. Owns(t, w, i, g) /\ expected <= work[t].deadline
  BY <1>1 DEF Renew, RenewAccepted
<1>6. g \in 1 .. MaxAttempts /\ expected \in 1 .. work[t].deadline
  BY <1>1, <1>5, HeldGen DEF WorkerInv
<1>7. LeaseStep(t, w, i, g)
  BY <1>6 DEF LeaseStep
<1>8. Next
  BY <1>6, <1>7 DEF Next
<1> QED BY <1>4, <1>8 DEF AuthorityStep

LEMMA FailHandled ==
    ASSUME WorkerInv, NEW t \in Task, NEW w \in Worker, NEW i \in Instance,
           NEW g, Fail(t, w, i, g, TRUE, 0)
    PROVE  AuthorityStep
<1> DEFINE row == FailedRow(work[t], TRUE, 0)
<1>1. TypeOK /\ work[t] \in WorkRow
  BY RowNumbers DEF WorkerInv, AuthorityInv, LeaseInv
<1>2. row.nextSeq = work[t].nextSeq
  BY <1>1 DEF FailedRow, Unowned, WorkRow
<1>3. work' = [work EXCEPT ![t] = row] /\ UNCHANGED <<batches, stream>>
  BY DEF Fail
<1> HIDE DEF row
<1>4. Quiet
  BY <1>1, <1>2, <1>3, RowQuiet
<1>5. g \in 1 .. MaxAttempts
  BY HeldGen DEF WorkerInv, Fail
<1>6. LeaseStep(t, w, i, g)
  BY WorkerAssumption DEF LeaseStep
<1>7. Next
  BY <1>5, <1>6 DEF Next
<1> QED BY <1>4, <1>7 DEF AuthorityStep

LEMMA CommitHandled ==
    ASSUME WorkerInv, NEW w \in Worker, NEW i \in Instance,
           NEW b \in SpoolBatch, CommitOf(w, i, b), PendingOk(w, i, b)
    PROVE  AuthorityStep
<1>1. /\ b.task \in Task /\ Owns(b.task, w, i, b.entry.gen)
      /\ work[b.task].nextSeq = b.seq
  BY CommitEffect DEF WorkerInv
<1>2. b.entry.gen \in 1 .. MaxAttempts
  BY <1>1, HeldGen DEF WorkerInv
<1>3. /\ b.entry.final \in BOOLEAN /\ b.entry.data \in Payload
      /\ b.entry = [gen |-> b.entry.gen, final |-> b.entry.final,
                    data |-> b.entry.data]
  BY DEF SpoolBatch, Entry
<1>4. LeaseStep(b.task, w, i, b.entry.gen)
  BY <1>1, <1>3 DEF LeaseStep, CommitOf
<1>5. Next
  BY <1>1, <1>2, <1>4 DEF Next
<1> QED BY <1>5 DEF AuthorityStep

LEMMA OperatorHandled ==
    ASSUME WorkerInv, Operator
    PROVE  AuthorityStep
<1>1. TypeOK /\ \A t \in Task : work[t] \in WorkRow
  BY RowNumbers DEF WorkerInv, AuthorityInv, LeaseInv
<1>2. ASSUME NEW t \in Task, Admit(t, now)
      PROVE  AuthorityStep
  <2> DEFINE row == [work[t] EXCEPT !.state = "PENDING", !.notBefore = now]
  <2>1. row.nextSeq = work[t].nextSeq
    BY <1>1 DEF WorkRow
  <2>2. work' = [work EXCEPT ![t] = row] /\ UNCHANGED <<batches, stream>>
    BY <1>1, <1>2 DEF Admit, TypeOK
  <2> HIDE DEF row
  <2>3. Quiet
    BY <1>1, <2>1, <2>2, RowQuiet
  <2>4. Admit(t, now + 0)
    BY <1>1, <1>2 DEF TypeOK
  <2>5. Next
    BY <2>4, WorkerAssumption DEF Next
  <2> QED BY <2>3, <2>5 DEF AuthorityStep
<1>3. ASSUME NEW w \in Worker, Revoke(w)
      PROVE  AuthorityStep
  <2>1. Quiet
    BY <1>1, <1>3, ReleasedQuiet DEF Revoke, LeasedTo
  <2> QED BY <1>3, <2>1 DEF AuthorityStep, Next
<1>4. CASE Tick
  BY <1>4 DEF Tick, AuthorityStep, Next, Quiet
<1> QED BY <1>2, <1>3, <1>4 DEF Operator

-----------------------------------------------------------------------------
(* What a step does to a worker and to its spool.                          *)

\* A batch leaves the spool when it is in the stream or its generation is
\* out; a batch that is there is one that was, or is as good.
SpoolStep(w) ==
    /\ \A b \in spool[w] :
         \/ proc'[w].inst = proc[w].inst /\ b \in spool'[w]
         \/ InStream(b)'
         \/ ~Owns(b.task, w, proc[w].inst, b.entry.gen)
    /\ \A b \in spool'[w] :
         \/ proc'[w].inst = proc[w].inst /\ b \in spool[w]
         \/ PendingOk(w, proc[w].inst, b)'

LateStep ==
    \A m \in late' : m \in late \/ LateOk(m)'

\* The process keeps its place and what it knows of its lease.
SameHold(w) ==
    /\ proc'[w].phase = proc[w].phase /\ proc'[w].inst = proc[w].inst
    /\ proc'[w].task = proc[w].task /\ proc'[w].gen = proc[w].gen
    /\ proc'[w].seq = proc[w].seq /\ proc'[w].deadline = proc[w].deadline

LEMMA BatchTypes ==
    ASSUME WorkerTypeOK, NEW w \in Worker, NEW b \in spool[w]
    PROVE  /\ b \in SpoolBatch
           /\ b.task \in Task /\ b.seq \in Nat /\ b.entry \in Entry
           /\ b.entry.gen \in Nat
  BY DEF WorkerTypeOK, SpoolBatch, Entry

LEMMA SpoolKept ==
    ASSUME WorkerInv, AuthorityStep, NEW w \in Worker, SpoolStep(w)
    PROVE  SpoolOk(w)'
<1> SUFFICES ASSUME NEW b \in spool'[w]
             PROVE  PendingOk(w, proc[w].inst, b)'
  BY DEF SpoolOk
<1>1. CASE proc'[w].inst = proc[w].inst /\ b \in spool[w]
  <2> DEFINE i == proc[w].inst
  <2>1. PendingOk(w, i, b) /\ b \in SpoolBatch
    BY <1>1, BatchTypes DEF WorkerInv, SpoolOk
  <2>2. \A j : j = i => PendingOk(w, j, b)'
    <3> SUFFICES ASSUME NEW j, j = i
                 PROVE  PendingOk(w, j, b)'
      OBVIOUS
    <3>1. j = proc'[w].inst /\ b \in spool'[w]
      BY <1>1
    <3> QED BY <2>1, <3>1, PendingKept
  <2>3. i = proc'[w].inst
    BY <1>1
  <2> QED BY <2>2, <2>3 DEF PendingOk
<1> QED BY <1>1 DEF SpoolStep

LEMMA LateKept ==
    ASSUME WorkerInv, AuthorityStep, \A w \in Worker : SpoolStep(w), LateStep
    PROVE  \A m \in late' : LateOk(m)'
<1> SUFFICES ASSUME NEW m \in late, m.body.kind = "commit"
             PROVE  PendingOk(m.from, m.inst, m.body.batch)'
  BY DEF LateStep, LateOk
<1>1. /\ m.from \in Worker /\ m.inst \in Instance
      /\ m.body.batch \in SpoolBatch
  BY DEF WorkerInv, WorkerTypeOK, Body
<1>2. PendingOk(m.from, m.inst, m.body.batch)
  BY DEF WorkerInv, LateOk
<1>3. m.inst = proc[m.from].inst /\ m.body.batch \in spool[m.from] =>
        \/ m.inst = proc'[m.from].inst /\ m.body.batch \in spool'[m.from]
        \/ InStream(m.body.batch)'
        \/ ~Owns(m.body.batch.task, m.from, m.inst, m.body.batch.entry.gen)
  BY <1>1 DEF SpoolStep
<1> QED BY <1>1, <1>2, <1>3, PendingKept

\* What a worker knows of its lease stays behind the authority.
LEMMA ViewKept ==
    ASSUME WorkerInv, AuthorityStep, NEW w \in Worker, Working(w),
           proc'[w].task = proc[w].task, proc'[w].gen = proc[w].gen,
           proc'[w].deadline = proc[w].deadline
    PROVE  ViewOk(w)'
<1> DEFINE p == proc[w]
           t == proc[w].task
<1>0. /\ t \in Task /\ p.gen \in Nat /\ p.deadline \in Nat /\ ViewOk(w)
  BY DEF WorkerInv, WorkerOk, ProcOk, WorkerTypeOK, Process, Working
<1>1. /\ LeaseInv /\ [Next]_vars /\ TypeOK
      /\ work[t].gen \in Nat /\ work[t].deadline \in Nat /\ now \in Nat
  BY <1>0, RowNumbers DEF WorkerInv, AuthorityInv, LeaseInv, AuthorityStep
<1>2. p.gen <= work'[t].gen
  BY <1>0, <1>1, GenForward DEF ViewOk
<1>3. ASSUME work'[t].state = "LEASED", work'[t].gen = p.gen
      PROVE  p.deadline <= work'[t].deadline
  <2>1. CASE Kept(t)
    BY <1>0, <1>1, <1>3, <2>1, AuthorityAssumption
       DEF ViewOk, Kept, SameLease, Unleased, Extended, LeaseInv, LeaseBounded
  <2>2. CASE work'[t].gen = work[t].gen + 1
    BY <1>0, <1>1, <1>3, <2>2 DEF ViewOk
  <2> QED BY <1>0, <1>1, <2>1, <2>2, StepEffect
<1> QED BY <1>2, <1>3 DEF ViewOk

\* A process that keeps its place keeps what it believes.
LEMMA HoldKept ==
    ASSUME WorkerInv, AuthorityStep, NEW w \in Worker, Working(w), SameHold(w)
    PROVE  (SeqOk(w) /\ ViewOk(w))'
<1> DEFINE p == proc[w]
           t == proc[w].task
<1>0. /\ t \in Task /\ p.gen \in Nat /\ p.seq \in Nat /\ p.deadline \in Nat
      /\ p.inst \in Nat /\ p.phase \in {"run", "deliver"}
      /\ SeqOk(w) /\ ViewOk(w)
  BY DEF WorkerInv, WorkerOk, ProcOk, WorkerTypeOK, Process, Working
<1>1. /\ LeaseInv /\ [Next]_vars /\ TypeOK
      /\ work[t].gen \in Nat /\ work[t].deadline \in Nat
      /\ work[t].nextSeq \in Nat /\ now \in Nat
  BY <1>0, RowNumbers DEF WorkerInv, AuthorityInv, LeaseInv, AuthorityStep
<1>2. ViewOk(w)'
  BY ViewKept DEF SameHold
<1>3. ASSUME Owns(t, w, p.inst, p.gen)
      PROVE  /\ p.phase = "run" => p.seq = work'[t].nextSeq
             /\ p.phase = "deliver" => work'[t].nextSeq \in {p.seq, p.seq + 1}
  <2>1. /\ p.phase = "run" => p.seq = work[t].nextSeq
        /\ p.phase = "deliver" => work[t].nextSeq \in {p.seq, p.seq + 1}
    BY <1>0, <1>3 DEF SeqOk
  <2>2. CASE Quiet
    BY <1>0, <2>1, <2>2 DEF Quiet
  <2>3. ASSUME NEW v \in Worker, NEW j \in Instance, NEW c \in SpoolBatch,
               CommitOf(v, j, c), PendingOk(v, j, c)
        PROVE  /\ p.phase = "run" => p.seq = work'[t].nextSeq
               /\ p.phase = "deliver" => work'[t].nextSeq \in {p.seq, p.seq + 1}
    <3>1. CASE c.task = t
      <4>1. c \in spool[w]
        BY <1>0, <1>3, <2>3, <3>1, CommitOfOwner
      <4>2. p.phase = "deliver" /\ c.seq = p.seq
        BY <1>0, <4>1 DEF WorkerInv, WorkerOk, OneSpooled
      <4>3. work'[t].nextSeq = c.seq + 1
        BY <2>3, <3>1, CommitEffect DEF WorkerInv
      <4> QED BY <1>0, <4>2, <4>3
    <3>2. CASE c.task # t
      BY <1>0, <2>1, <2>3, <3>2, CommitEffect DEF WorkerInv
    <3> QED BY <3>1, <3>2
  <2> QED BY <2>2, <2>3 DEF AuthorityStep
<1>4. SeqOk(w)'
  <2> SUFFICES ASSUME Owns(proc[w].task, w, proc[w].inst, proc[w].gen)'
               PROVE  /\ p.phase = "run" => p.seq = work'[t].nextSeq
                      /\ p.phase = "deliver" =>
                           work'[t].nextSeq \in {p.seq, p.seq + 1}
    BY DEF SeqOk, SameHold
  <2>1. ASSUME NEW u, NEW i, NEW g, u = t, i = p.inst, g = p.gen
        PROVE  Owns(u, w, i, g)
    <3>1. Owns(u, w, i, g)'
      BY <2>1 DEF Owns, SameHold
    <3>2. g \in Nat /\ g <= work[u].gen
      BY <1>0, <2>1 DEF ViewOk
    <3> QED BY <1>0, <1>1, <2>1, <3>1, <3>2, OwnsBack
  <2> QED BY <1>3, <2>1
<1> QED BY <1>2, <1>4

-----------------------------------------------------------------------------
(* Steps of one worker, by what they leave of its process.                 *)

WorkerTypes ==
    /\ proc \in [Worker -> Process]
    /\ spool \in [Worker -> SUBSET SpoolBatch]
    /\ late \subseteq [from : Worker, inst : Instance, body : Body]

StepOk ==
    /\ AuthorityStep
    /\ WorkerTypes'
    /\ \A w \in Worker : SpoolStep(w) /\ WorkerOk(w)'
    /\ LateStep

\* The steps of an inductive proof: StepOk and WorkerInv give WorkerInv'.
LEMMA StepKeeps ==
    ASSUME WorkerInv, StepOk
    PROVE  WorkerInv'
<1>1. AuthorityInv'
  BY LeaseInvStep, StreamInvStep, LeasedOnceStep
     DEF WorkerInv, AuthorityInv, StepOk, AuthorityStep
<1>2. WorkerTypeOK'
  BY <1>1 DEF AuthorityInv, LeaseInv, StepOk, WorkerTypes, WorkerTypeOK
<1>3. \A w \in Worker : SpoolOk(w)'
  BY SpoolKept DEF StepOk
<1>4. \A m \in late' : LateOk(m)'
  BY LateKept DEF StepOk
<1>5. AllStored'
  BY StoredStep DEF WorkerInv, StepOk
<1> QED BY <1>1, <1>2, <1>3, <1>4, <1>5 DEF WorkerInv, StepOk

LEMMA ProcFacts ==
    ASSUME WorkerInv, NEW w \in Worker
    PROVE  /\ proc[w] \in Process
           /\ proc[w].inst \in Nat /\ proc[w].gen \in Nat
           /\ proc[w].seq \in Nat /\ proc[w].deadline \in Nat
           /\ proc[w].phase # "down" => proc[w].inst \in Instance
           /\ Working(w) => /\ proc[w].task \in Task
                            /\ proc[w].phase # "down"
                            /\ proc[w].deadline \in Nat \ {0}
<1>1. proc[w] \in Process /\ ProcOk(w)
  BY DEF WorkerInv, WorkerTypeOK, WorkerOk
<1>2. MaxInstance \in Nat
  BY AuthorityAssumption
<1> QED BY <1>1, <1>2 DEF Process, ProcOk, Instance, NULL, Working

\* A worker that keeps its place and its spool.
LEMMA Keeps ==
    ASSUME WorkerInv, AuthorityStep, NEW w \in Worker,
           SameHold(w), spool'[w] = spool[w]
    PROVE  SpoolStep(w) /\ WorkerOk(w)'
<1>1. WorkerOk(w)
  BY DEF WorkerInv
<1>2. SpoolStep(w)
  BY DEF SpoolStep, SameHold
<1>3. ProcOk(w)' /\ OneSpooled(w)'
  BY <1>1 DEF WorkerOk, ProcOk, OneSpooled, SameHold, Working
<1>4. Working(w)' => Working(w)
  BY DEF Working, SameHold
<1> QED BY <1>2, <1>3, <1>4, HoldKept DEF WorkerOk

\* A worker whose process and spool no step touches.
LEMMA Rests ==
    ASSUME WorkerInv, AuthorityStep, NEW w \in Worker,
           proc'[w] = proc[w], spool'[w] = spool[w]
    PROVE  SpoolStep(w) /\ WorkerOk(w)'
  BY Keeps DEF SameHold

LEMMA OneActs ==
    ASSUME WorkerInv, AuthorityStep, WorkerTypes', LateStep,
           NEW w \in Worker, SpoolStep(w), WorkerOk(w)',
           \A v \in Worker \ {w} : proc'[v] = proc[v] /\ spool'[v] = spool[v]
    PROVE  StepOk
<1>1. \A v \in Worker \ {w} : SpoolStep(v) /\ WorkerOk(v)'
  BY Rests
<1> QED BY <1>1 DEF StepOk

LEMMA NobodyActs ==
    ASSUME WorkerInv, AuthorityStep, WorkerTypes', LateStep,
           proc' = proc, spool' = spool
    PROVE  StepOk
<1>1. \A v \in Worker : SpoolStep(v) /\ WorkerOk(v)'
  BY Rests
<1> QED BY <1>1 DEF StepOk

LEMMA GotoFacts ==
    ASSUME WorkerTypeOK, NEW w \in Worker, NEW phase \in Phase, Goto(w, phase)
    PROVE  /\ proc' \in [Worker -> Process]
           /\ proc'[w].phase = phase /\ proc'[w].inst = proc[w].inst
           /\ \A v \in Worker \ {w} : proc'[v] = proc[v]
<1>1. proc[w] \in Process
  BY DEF WorkerTypeOK
<1>2. /\ At(w, phase) \in Process
      /\ At(w, phase).phase = phase /\ At(w, phase).inst = proc[w].inst
  BY <1>1 DEF At, Process, NULL
<1>3. /\ proc' \in [Worker -> Process] /\ proc'[w] = At(w, phase)
      /\ \A v \in Worker \ {w} : proc'[v] = proc[v]
  BY <1>2 DEF Goto, WorkerTypeOK
<1> QED BY <1>2, <1>3

Answered(w, b) ==
    InStream(b)' \/ ~Owns(b.task, w, proc[w].inst, b.entry.gen)

Parked == {"down", "register", "initial", "idle"}

\* The process goes back to a place without a lease; a batch only leaves its
\* spool when it is in the stream or its generation is out.
LEMMA Parks ==
    ASSUME WorkerInv, AuthorityStep, NEW w \in Worker, NEW phase \in Parked,
           Goto(w, phase), proc[w].phase # "down",
           NEW S \in SUBSET spool[w], spool' = [spool EXCEPT ![w] = S],
           \A b \in spool[w] \ S : Answered(w, b),
           late' \subseteq [from : Worker, inst : Instance, body : Body],
           LateStep
    PROVE  StepOk
<1>0. WorkerTypeOK /\ WorkerOk(w) /\ phase \in Phase
  BY DEF WorkerInv, Parked, Phase
<1>1. /\ proc' \in [Worker -> Process]
      /\ proc'[w].phase = phase /\ proc'[w].inst = proc[w].inst
      /\ \A v \in Worker \ {w} : proc'[v] = proc[v]
  BY <1>0, GotoFacts
<1>2. /\ spool' \in [Worker -> SUBSET SpoolBatch] /\ spool'[w] = S
      /\ \A v \in Worker \ {w} : spool'[v] = spool[v]
  BY <1>0 DEF WorkerTypeOK
<1>3. SpoolStep(w)
  BY <1>1, <1>2 DEF SpoolStep, Answered
<1>4. ~Working(w)'
  BY <1>1 DEF Working, Parked
<1>5. ProcOk(w)' /\ OneSpooled(w)'
  BY <1>0, <1>1, <1>2, <1>4
     DEF WorkerOk, ProcOk, OneSpooled, Parked
<1> QED
  BY <1>1, <1>2, <1>3, <1>4, <1>5, OneActs DEF WorkerTypes, WorkerOk

\* The same with the spool left alone.
LEMMA ParksOnly ==
    ASSUME WorkerInv, AuthorityStep, NEW w \in Worker, NEW phase \in Parked,
           Goto(w, phase), proc[w].phase # "down", spool' = spool,
           late' \subseteq [from : Worker, inst : Instance, body : Body],
           LateStep
    PROVE  StepOk
<1>1. spool' = [spool EXCEPT ![w] = spool[w]]
  BY DEF WorkerInv, WorkerTypeOK
<1> QED BY <1>1, Parks

LEMMA SameLate ==
    ASSUME WorkerInv, late' \subseteq late
    PROVE  /\ late' \subseteq [from : Worker, inst : Instance, body : Body]
           /\ LateStep
  BY DEF WorkerInv, WorkerTypeOK, LateStep

\* How the authority answers a batch of the spool.
LEMMA Answers ==
    ASSUME WorkerInv, NEW w \in Worker, NEW b \in spool[w]
    PROVE  /\ Verdict(w, b) = "ALREADY" => InStream(b)
           /\ Verdict(w, b) = "STALE" =>
                ~Owns(b.task, w, proc[w].inst, b.entry.gen)
<1>1. /\ WorkerTypeOK /\ TypeOK /\ InboxMatchesStream
      /\ b.task \in Task /\ b.seq \in Nat
  BY BatchTypes DEF WorkerInv, AuthorityInv, StreamInv
<1>2. Verdict(w, b) = "STALE" => ~Owns(b.task, w, proc[w].inst, b.entry.gen)
  BY DEF Verdict, CommitVerdict
<1>3. ASSUME Verdict(w, b) = "ALREADY"
      PROVE  InStream(b)
  <2>1. PICK c \in Stored(b.task, b.seq) : c.entry = b.entry
    BY <1>3 DEF Verdict, CommitVerdict
  <2>2. c \in batches /\ c.task = b.task /\ c.seq = b.seq
    BY <2>1 DEF Stored
  <2> QED BY <1>1, <2>1, <2>2 DEF InboxMatchesStream, InStream
<1> QED BY <1>2, <1>3

\* What may leave the spool after each answer.
LEMMA AnsweredCommit ==
    ASSUME WorkerInv, NEW w \in Worker, NEW b \in spool[w],
           proc[w].phase # "down",
           Commit(b.task, w, proc[w].inst, b.seq, b.entry)
    PROVE  AuthorityStep /\ InStream(b)'
<1>1. b \in SpoolBatch /\ proc[w].inst \in Instance
  BY BatchTypes, ProcFacts DEF WorkerInv
<1>2. CommitOf(w, proc[w].inst, b) /\ PendingOk(w, proc[w].inst, b)
  BY DEF CommitOf, WorkerInv, SpoolOk
<1>3. AuthorityStep
  BY <1>1, <1>2, CommitHandled
<1>4. InStream(b)'
  BY <1>1, <1>2, CommitEffect DEF WorkerInv, InStream
<1> QED BY <1>3, <1>4

LEMMA AnsweredAlready ==
    ASSUME WorkerInv, NEW w \in Worker, NEW b \in spool[w],
           Verdict(w, b) = "ALREADY", UNCHANGED authVars
    PROVE  AuthorityStep /\ InStream(b)'
<1>1. InStream(b)
  BY Answers
<1> QED BY <1>1, Unchanging DEF authVars, InStream

LEMMA AnsweredStale ==
    ASSUME WorkerInv, NEW w \in Worker, NEW b \in spool[w],
           Verdict(w, b) = "STALE", UNCHANGED authVars
    PROVE  /\ AuthorityStep
           /\ \A c \in OfGeneration(w, b) :
                 ~Owns(c.task, w, proc[w].inst, c.entry.gen)
<1>1. ~Owns(b.task, w, proc[w].inst, b.entry.gen)
  BY Answers
<1> QED BY <1>1, Unchanging DEF Owns, OfGeneration

-----------------------------------------------------------------------------
(* The actions of a worker.                                                *)

LEMMA StartOk ==
    ASSUME WorkerInv, NEW w \in Worker, Start(w)
    PROVE  StepOk
<1> DEFINE keep == spool[w] # {} /\ proc[w].inst # NULL
           i == IF keep THEN proc[w].inst ELSE proc[w].inst + 1
           p == [At(w, "register") EXCEPT !.inst = i]
<1>0. /\ AuthorityStep /\ LateStep /\ WorkerTypeOK
      /\ spool' = spool /\ late' = late
  BY Unchanging, SameLate DEF Start, WorkerInv
<1>1. /\ proc[w] \in Process /\ proc[w].inst \in Nat
      /\ ProcOk(w) /\ OneSpooled(w)
  BY ProcFacts DEF WorkerInv, WorkerOk
<1>2. i \in Nat /\ i # NULL /\ i <= MaxInstance
  <2>1. MaxInstance \in Nat
    BY AuthorityAssumption
  <2> QED BY <1>1, <2>1 DEF Start, ProcOk, NULL
<1>3. spool[w] # {} => i = proc[w].inst
  BY <1>1 DEF OneSpooled
<1>4. proc' = [proc EXCEPT ![w] = p]
  BY <1>0, <1>1 DEF Start, At, WorkerTypeOK, Process
<1> HIDE DEF i
<1>5. p \in Process /\ p.phase = "register" /\ p.inst = i
  BY <1>1, <1>2 DEF At, Process, Phase, NULL
<1> HIDE DEF p
<1>6. /\ proc' \in [Worker -> Process] /\ proc'[w] = p
      /\ \A v \in Worker \ {w} : proc'[v] = proc[v]
  BY <1>0, <1>4, <1>5 DEF WorkerTypeOK
<1>7. SpoolStep(w)
  BY <1>0, <1>3, <1>5, <1>6 DEF SpoolStep
<1>8. WorkerOk(w)'
  BY <1>0, <1>1, <1>2, <1>5, <1>6
     DEF WorkerOk, ProcOk, OneSpooled, Working
<1>9. WorkerTypes'
  BY <1>0, <1>6 DEF WorkerTypes, WorkerTypeOK
<1> QED BY <1>0, <1>6, <1>7, <1>8, <1>9, OneActs DEF WorkerInv

LEMMA CrashOk ==
    ASSUME WorkerInv, NEW w \in Worker, Crash(w)
    PROVE  StepOk
  BY Unchanging, SameLate, ParksOnly DEF Crash, Parked

LEMMA NoticeLossOk ==
    ASSUME WorkerInv, NEW w \in Worker, NoticeLoss(w)
    PROVE  StepOk
  BY Unchanging, SameLate, ParksOnly, ProcFacts DEF NoticeLoss, Parked

LEMMA RegisterCallOk ==
    ASSUME WorkerInv, NEW w \in Worker, RegisterCall(w)
    PROVE  StepOk
<1>1. AuthorityStep /\ proc[w].phase # "down"
  BY RegisterHandled, ProcFacts DEF RegisterCall
<1>2. PICK phase \in {"idle", "initial"} : Goto(w, phase)
  BY DEF RegisterCall
<1> QED BY <1>1, <1>2, SameLate, ParksOnly DEF RegisterCall, Parked

LEMMA ReplayCallOk ==
    ASSUME WorkerInv, NEW w \in Worker, ReplayCall(w)
    PROVE  StepOk
<1>0. proc[w].phase # "down" /\ late' = late
  BY DEF ReplayCall
<1>1. PICK b \in spool[w] :
         \/ /\ Commit(b.task, w, proc[w].inst, b.seq, b.entry)
            /\ spool' = [spool EXCEPT ![w] = @ \ {b}]
            /\ Goto(w, "idle")
         \/ /\ Verdict(w, b) = "ALREADY"
            /\ spool' = [spool EXCEPT ![w] = @ \ {b}]
            /\ Goto(w, "idle")
            /\ UNCHANGED authVars
         \/ /\ Verdict(w, b) = "STALE"
            /\ spool' = [spool EXCEPT ![w] = @ \ OfGeneration(w, b)]
            /\ Goto(w, "idle")
            /\ UNCHANGED authVars
         \/ /\ Goto(w, "down")
            /\ UNCHANGED <<authVars, spool>>
  BY DEF ReplayCall
<1>2. CASE /\ \/ Commit(b.task, w, proc[w].inst, b.seq, b.entry)
              \/ Verdict(w, b) = "ALREADY" /\ UNCHANGED authVars
           /\ spool' = [spool EXCEPT ![w] = @ \ {b}]
           /\ Goto(w, "idle")
  <2> DEFINE S == spool[w] \ {b}
  <2>1. AuthorityStep /\ InStream(b)'
    BY <1>0, <1>2, AnsweredCommit, AnsweredAlready
  <2>2. /\ S \in SUBSET spool[w] /\ spool' = [spool EXCEPT ![w] = S]
        /\ \A c \in spool[w] \ S : Answered(w, c)
    BY <1>2, <2>1 DEF Answered
  <2> HIDE DEF S
  <2> QED BY <1>0, <1>2, <2>1, <2>2, SameLate, Parks DEF Parked
<1>3. CASE /\ Verdict(w, b) = "STALE"
           /\ spool' = [spool EXCEPT ![w] = @ \ OfGeneration(w, b)]
           /\ Goto(w, "idle")
           /\ UNCHANGED authVars
  <2> DEFINE S == spool[w] \ OfGeneration(w, b)
  <2>1. /\ AuthorityStep
        /\ \A c \in OfGeneration(w, b) : Answered(w, c)
    BY <1>3, AnsweredStale DEF Answered
  <2>2. /\ S \in SUBSET spool[w] /\ spool' = [spool EXCEPT ![w] = S]
        /\ \A c \in spool[w] \ S : Answered(w, c)
    BY <1>3, <2>1 DEF OfGeneration
  <2> HIDE DEF S
  <2> QED BY <1>0, <1>3, <2>1, <2>2, SameLate, Parks DEF Parked
<1>4. CASE Goto(w, "down") /\ UNCHANGED <<authVars, spool>>
  BY <1>0, <1>4, Unchanging, SameLate, ParksOnly DEF Parked
<1> QED BY <1>1, <1>2, <1>3, <1>4

\* A lease that a claim answers with.
LEMMA TakeLeaseOk ==
    ASSUME WorkerInv, AuthorityStep, NEW w \in Worker, NEW t \in Task,
           proc[w].phase = "idle", spool[w] = {}, TakeLease(w, t),
           UNCHANGED <<spool, late>>, work'[t].deadline # NULL
    PROVE  StepOk
<1> DEFINE p == [proc[w] EXCEPT !.phase = "run", !.task = t,
                                !.gen = work'[t].gen,
                                !.deadline = work'[t].deadline,
                                !.seq = work'[t].nextSeq]
<1>0. WorkerTypeOK /\ TypeOK' /\ proc[w] \in Process
  BY TypeStep, ProcFacts
     DEF WorkerInv, AuthorityInv, LeaseInv, AuthorityStep
<1>1. /\ work'[t].gen \in Nat /\ work'[t].deadline \in Nat
      /\ work'[t].nextSeq \in Nat
  BY <1>0 DEF TypeOK, WorkRow
<1>2. /\ p \in Process /\ p.phase = "run" /\ p.task = t
      /\ p.inst = proc[w].inst /\ p.gen = work'[t].gen
      /\ p.deadline = work'[t].deadline /\ p.seq = work'[t].nextSeq
  BY <1>0, <1>1 DEF Process, Phase
<1>3. proc' = [proc EXCEPT ![w] = p]
  BY DEF TakeLease
<1> HIDE DEF p
<1>4. /\ proc' \in [Worker -> Process] /\ proc'[w] = p
      /\ \A v \in Worker \ {w} : proc'[v] = proc[v]
  BY <1>0, <1>2, <1>3 DEF WorkerTypeOK
<1>5. SpoolStep(w)
  BY DEF SpoolStep
<1>6. ProcOk(w)' /\ OneSpooled(w)'
  BY <1>2, <1>4 DEF WorkerInv, WorkerOk, ProcOk, OneSpooled
<1>7. SeqOk(w)' /\ ViewOk(w)'
  BY <1>1, <1>2, <1>4 DEF SeqOk, ViewOk
<1>8. LateStep /\ WorkerTypes'
  BY <1>0, <1>4, SameLate DEF WorkerTypes, WorkerTypeOK
<1> QED BY <1>4, <1>5, <1>6, <1>7, <1>8, OneActs DEF WorkerOk

LEMMA ClaimCallOk ==
    ASSUME WorkerInv, NEW w \in Worker, ClaimCall(w)
    PROVE  StepOk
<1>0. /\ proc[w].phase = "idle" /\ spool[w] = {} /\ UNCHANGED <<spool, late>>
      /\ proc[w].inst \in Instance /\ TypeOK
  BY ProcFacts DEF ClaimCall, WorkerInv, AuthorityInv, LeaseInv
<1>1. CASE Goto(w, "down") /\ UNCHANGED authVars
  BY <1>0, <1>1, Unchanging, SameLate, ParksOnly DEF Parked
<1>2. ASSUME NEW t \in ActiveLeases(w, proc[w].inst),
             UNCHANGED authVars, TakeLease(w, t)
      PROVE  StepOk
  <2>1. t \in Task /\ work[t].deadline > now
    BY DEF ActiveLeases, Owns
  <2>2. work'[t].deadline # NULL
    BY <1>0, <1>2, <2>1, RowNumbers DEF authVars, NULL
  <2> QED BY <1>0, <1>2, <2>1, <2>2, Unchanging, TakeLeaseOk
<1>3. ASSUME NEW t \in Task, Claim(t, w, proc[w].inst), TakeLease(w, t)
      PROVE  StepOk
  <2>1. AuthorityStep
    BY <1>0, <1>3, ClaimHandled
  <2>2. work[t] \in WorkRow /\ now \in Nat /\ LeaseSeconds \in Nat \ {0}
    BY <1>0, RowNumbers, AuthorityAssumption
  <2>3. work'[t].deadline = now + LeaseSeconds
    BY <1>0, <1>3, <2>2 DEF Claim, LeasedRow, TypeOK, WorkRow
  <2>4. work'[t].deadline # NULL
    BY <2>2, <2>3 DEF NULL
  <2> QED BY <1>0, <1>3, <2>1, <2>4, TakeLeaseOk
<1> QED BY <1>1, <1>2, <1>3 DEF ClaimCall

LEMMA ProduceOk ==
    ASSUME WorkerInv, NEW w \in Worker, NEW final \in BOOLEAN,
           NEW data \in Payload, Produce(w, final, data)
    PROVE  StepOk
<1> DEFINE e == [gen |-> proc[w].gen, final |-> final, data |-> data]
           b == [task |-> proc[w].task, seq |-> proc[w].seq, entry |-> e]
           p == [proc[w] EXCEPT !.phase = "deliver"]
<1>0. /\ AuthorityStep /\ LateStep /\ UNCHANGED <<authVars, late>>
      /\ WorkerTypeOK /\ WorkerOk(w) /\ proc[w].phase = "run" /\ Working(w)
  BY Unchanging, SameLate DEF Produce, WorkerInv, Working
<1>1. /\ proc[w] \in Process /\ proc[w].task \in Task
      /\ proc[w].gen \in Nat /\ proc[w].seq \in Nat
      /\ spool[w] = {}
  BY <1>0, ProcFacts DEF WorkerOk, OneSpooled
<1>2. e \in Entry /\ e.gen = proc[w].gen
  BY <1>1 DEF Entry
<1>3. spool' = [spool EXCEPT ![w] = spool[w] \cup {b}]
  BY DEF Produce
<1>4. proc' = [proc EXCEPT ![w] = p]
  BY <1>0 DEF Produce, WorkerTypeOK
<1> HIDE DEF e
<1>5. /\ b \in SpoolBatch /\ b.task = proc[w].task /\ b.seq = proc[w].seq
      /\ b.entry = e
  BY <1>1, <1>2 DEF SpoolBatch
<1>6. /\ p \in Process /\ p.phase = "deliver" /\ p.inst = proc[w].inst
      /\ p.task = proc[w].task /\ p.gen = proc[w].gen /\ p.seq = proc[w].seq
      /\ p.deadline = proc[w].deadline
  BY <1>1 DEF Process, Phase
<1> HIDE DEF b, p
<1>7. /\ proc' \in [Worker -> Process] /\ proc'[w] = p
      /\ \A v \in Worker \ {w} : proc'[v] = proc[v]
  BY <1>0, <1>4, <1>6 DEF WorkerTypeOK
<1>8. /\ spool' \in [Worker -> SUBSET SpoolBatch] /\ spool'[w] = {b}
      /\ \A v \in Worker \ {w} : spool'[v] = spool[v]
  BY <1>0, <1>1, <1>3, <1>5 DEF WorkerTypeOK
<1>9. SeqOk(w) /\ ViewOk(w) /\ ProcOk(w)
  BY <1>0 DEF WorkerOk
<1>10. ASSUME NEW c, c = b
       PROVE  PendingOk(w, proc[w].inst, c)'
  <2>0. c.task = proc[w].task /\ c.seq = proc[w].seq /\ c.entry.gen = proc[w].gen
    BY <1>2, <1>5, <1>10
  <2>1. c.entry.gen <= work'[c.task].gen
    BY <1>0, <1>9, <2>0 DEF ViewOk, authVars
  <2>2. ASSUME Owns(c.task, w, proc[w].inst, c.entry.gen)'
        PROVE  c.seq = work'[c.task].nextSeq
    <3>1. Owns(proc[w].task, w, proc[w].inst, proc[w].gen)
      BY <1>0, <1>6, <1>7, <2>0, <2>2 DEF Owns, authVars
    <3> QED BY <1>0, <1>9, <2>0, <3>1 DEF SeqOk, authVars
  <2>3. c \in spool'[w]
    BY <1>8, <1>10
  <2> QED BY <2>1, <2>2, <2>3 DEF PendingOk
<1>11. SpoolStep(w)
  BY <1>1, <1>8, <1>10 DEF SpoolStep
<1>12. ProcOk(w)' /\ OneSpooled(w)'
  BY <1>0, <1>2, <1>5, <1>6, <1>7, <1>8, <1>9
     DEF ProcOk, OneSpooled, Working, WorkerOk
<1>13. SeqOk(w)' /\ ViewOk(w)'
  BY <1>0, <1>6, <1>7, <1>9 DEF SeqOk, ViewOk, Owns, authVars
<1>14. WorkerTypes'
  BY <1>0, <1>7, <1>8 DEF WorkerTypes, WorkerTypeOK
<1> QED
  BY <1>0, <1>7, <1>8, <1>11, <1>12, <1>13, <1>14, OneActs DEF WorkerOk

\* A failure report is an action of the authority, or changes nothing.
LEMMA ReportHandled ==
    ASSUME WorkerInv, NEW w \in Worker, Working(w), ReportFailure(w)
    PROVE  AuthorityStep
<1>1. proc[w].task \in Task /\ proc[w].inst \in Instance
  BY ProcFacts
<1> QED BY <1>1, Unchanging, FailHandled DEF ReportFailure

LEMMA ProducerFailsOk ==
    ASSUME WorkerInv, NEW w \in Worker, ProducerFails(w)
    PROVE  StepOk
<1>1. AuthorityStep /\ proc[w].phase # "down"
  BY ReportHandled DEF ProducerFails, Working
<1> QED BY <1>1, SameLate, ParksOnly DEF ProducerFails, Parked

LEMMA UploadBudgetSpentOk ==
    ASSUME WorkerInv, NEW w \in Worker, UploadBudgetSpent(w)
    PROVE  StepOk
<1>0. /\ AuthorityStep /\ proc[w].phase # "down" /\ UNCHANGED <<spool, late>>
      /\ WorkerTypeOK /\ proc[w] \in Process
  BY Unchanging, ProcFacts DEF UploadBudgetSpent, WorkerInv
<1>1. CASE Goto(w, "idle")
  BY <1>0, <1>1, SameLate, ParksOnly DEF Parked
<1>2. CASE proc' = [proc EXCEPT ![w].lost = TRUE]
  <2> DEFINE p == [proc[w] EXCEPT !.lost = TRUE]
  <2>1. proc' = [proc EXCEPT ![w] = p]
    BY <1>0, <1>2 DEF WorkerTypeOK
  <2>2. p \in Process /\ p.phase = proc[w].phase /\ p.inst = proc[w].inst
        /\ p.task = proc[w].task /\ p.gen = proc[w].gen
        /\ p.seq = proc[w].seq /\ p.deadline = proc[w].deadline
    BY <1>0 DEF Process
  <2> HIDE DEF p
  <2>3. /\ proc' \in [Worker -> Process] /\ SameHold(w)
        /\ \A v \in Worker \ {w} : proc'[v] = proc[v]
    BY <1>0, <2>1, <2>2 DEF WorkerTypeOK, SameHold
  <2>4. WorkerTypes' /\ LateStep
    BY <1>0, <2>3, SameLate DEF WorkerTypes, WorkerTypeOK
  <2> QED BY <1>0, <2>3, <2>4, Keeps, OneActs
<1> QED BY <1>1, <1>2 DEF UploadBudgetSpent

LEMMA RenewCallOk ==
    ASSUME WorkerInv, NEW w \in Worker, RenewCall(w)
    PROVE  StepOk
<1>0. /\ UNCHANGED <<spool, late>> /\ Working(w)
      /\ WorkerTypeOK /\ TypeOK /\ proc[w] \in Process /\ WorkerOk(w)
      /\ proc[w].task \in Task /\ proc[w].inst \in Instance
      /\ proc[w].deadline \in Nat \ {0}
  BY ProcFacts
     DEF RenewCall, WorkerInv, AuthorityInv, LeaseInv
<1>1. ASSUME proc' = [proc EXCEPT ![w].lost = TRUE], UNCHANGED authVars
      PROVE  StepOk
  BY <1>0, <1>1, UploadBudgetSpentOk DEF UploadBudgetSpent
<1>2. ASSUME Renew(proc[w].task, w, proc[w].inst, proc[w].gen,
                   proc[w].deadline),
             proc' = [proc EXCEPT ![w].deadline = work'[proc[w].task].deadline]
      PROVE  StepOk
  <2> DEFINE t == proc[w].task
             d == RenewedDeadline(t, proc[w].deadline)
             p == [proc[w] EXCEPT !.deadline = d]
  <2>1. AuthorityStep
    BY <1>0, <1>2, RenewHandled
  <2>2. /\ work[t] \in WorkRow /\ work[t].deadline \in Nat /\ now \in Nat
        /\ LeaseSeconds \in Nat \ {0}
    BY <1>0, RowNumbers, AuthorityAssumption
  <2>3. d \in Nat /\ d # NULL
    BY <1>0, <2>2 DEF RenewedDeadline, NULL
  <2>4. /\ work'[t].deadline = d /\ work'[t].gen = work[t].gen
        /\ work'[t].nextSeq = work[t].nextSeq
    BY <1>0, <1>2, <2>2 DEF Renew, TypeOK, WorkRow
  <2>5. Owns(t, w, proc[w].inst, proc[w].gen)
    BY <1>2 DEF Renew, RenewAccepted
  <2> HIDE DEF d
  <2>6. proc' = [proc EXCEPT ![w] = p]
    BY <1>0, <1>2, <2>4 DEF WorkerTypeOK
  <2>7. p \in Process /\ p.phase = proc[w].phase /\ p.inst = proc[w].inst
        /\ p.task = proc[w].task /\ p.gen = proc[w].gen
        /\ p.seq = proc[w].seq /\ p.deadline = d
    BY <1>0, <2>3 DEF Process
  <2> HIDE DEF p
  <2>8. /\ proc' \in [Worker -> Process] /\ proc'[w] = p
        /\ \A v \in Worker \ {w} : proc'[v] = proc[v]
    BY <1>0, <2>6, <2>7 DEF WorkerTypeOK
  <2>9. SpoolStep(w)
    BY <1>0, <2>7, <2>8 DEF SpoolStep
  <2>10. ProcOk(w)' /\ OneSpooled(w)'
    BY <1>0, <2>3, <2>7, <2>8
       DEF WorkerOk, ProcOk, OneSpooled, Working
  <2>11. SeqOk(w)'
    BY <1>0, <2>4, <2>5, <2>7, <2>8 DEF WorkerOk, SeqOk
  <2>12. ViewOk(w)'
    BY <1>0, <2>3, <2>4, <2>7, <2>8 DEF WorkerOk, ViewOk
  <2>13. WorkerTypes' /\ LateStep
    BY <1>0, <2>8, SameLate DEF WorkerTypes, WorkerTypeOK
  <2> QED
    BY <1>0, <2>1, <2>8, <2>9, <2>10, <2>11, <2>12, <2>13, OneActs
       DEF WorkerOk
<1> QED BY <1>1, <1>2 DEF RenewCall

LEMMA HandleLateOk ==
    ASSUME WorkerInv, NEW m \in late, HandleLate(m)
    PROVE  StepOk
<1>0. /\ m.from \in Worker /\ m.inst \in Instance /\ m.body \in Body
      /\ LateOk(m) /\ WorkerTypeOK /\ UNCHANGED <<proc, spool>>
      /\ late' \subseteq late
  BY DEF WorkerInv, WorkerTypeOK, HandleLate
<1>1. AuthorityStep
  <2>1. CASE m.body.kind = "register" /\ Register(m.from, m.inst)
    BY <1>0, <2>1, RegisterHandled
  <2>2. ASSUME NEW t \in Task, Claim(t, m.from, m.inst)
        PROVE  AuthorityStep
    BY <1>0, <2>2, ClaimHandled
  <2>3. CASE m.body.kind = "commit"
             /\ Commit(m.body.batch.task, m.from, m.inst, m.body.batch.seq,
                       m.body.batch.entry)
    <3>1. m.body.batch \in SpoolBatch
      BY <1>0, <2>3 DEF Body
    <3> QED BY <1>0, <2>3, <3>1, CommitHandled DEF LateOk, CommitOf
  <2>4. CASE m.body.kind = "renew"
             /\ Renew(m.body.task, m.from, m.inst, m.body.gen,
                      m.body.expected)
    <3>1. m.body.task \in Task /\ m.body.expected \in Nat \ {0}
      BY <1>0, <2>4 DEF Body
    <3> QED BY <1>0, <2>4, <3>1, RenewHandled
  <2>5. CASE m.body.kind = "fail"
             /\ Fail(m.body.task, m.from, m.inst, m.body.gen, TRUE, 0)
    <3>1. m.body.task \in Task
      BY <1>0, <2>5 DEF Body
    <3> QED BY <1>0, <2>5, <3>1, FailHandled
  <2> QED BY <2>1, <2>2, <2>3, <2>4, <2>5 DEF HandleLate, Handled
<1>2. WorkerTypes' /\ LateStep
  BY <1>0, SameLate DEF WorkerTypes, WorkerTypeOK
<1> QED BY <1>0, <1>1, <1>2, NobodyActs

LEMMA DropLateOk ==
    ASSUME WorkerInv, NEW m \in late, DropLate(m)
    PROVE  StepOk
<1>1. WorkerTypes' /\ LateStep
  BY SameLate DEF DropLate, WorkerInv, WorkerTypes, WorkerTypeOK
<1> QED BY <1>1, Unchanging, NobodyActs DEF DropLate

LEMMA OperatorOk ==
    ASSUME WorkerInv, Operator
    PROVE  StepOk
<1>1. proc' = proc /\ spool' = spool /\ late' = late
  BY DEF Operator, workerVars
<1>2. WorkerTypes' /\ LateStep
  BY <1>1, SameLate DEF WorkerInv, WorkerTypes, WorkerTypeOK
<1> QED BY <1>1, <1>2, OperatorHandled, NobodyActs

\* A request that its client has given up on is as good as one of the spool.
LEMMA TimeOutOk ==
    ASSUME WorkerInv, NEW w \in Worker, TimeOut(w)
    PROVE  StepOk
<1>0. WorkerTypeOK /\ proc[w] \in Process /\ SpoolOk(w)
  BY ProcFacts DEF WorkerInv
<1>1. ASSUME NEW r \in Body, GiveUp(w, r), proc[w].phase # "down",
             proc'[w].inst = proc[w].inst,
             r.kind = "commit" => r.batch \in spool[w]
      PROVE  /\ AuthorityStep /\ spool' = spool /\ LateStep
             /\ late' \subseteq [from : Worker, inst : Instance, body : Body]
  <2> DEFINE m == Sent(w, r)
  <2>1. /\ m \in [from : Worker, inst : Instance, body : Body]
        /\ m.from = w /\ m.inst = proc[w].inst /\ m.body = r
    BY <1>1, ProcFacts DEF Sent
  <2> HIDE DEF m
  <2>2. AuthorityStep /\ UNCHANGED authVars /\ spool' = spool
        /\ late' = late \cup {m}
    BY <1>1, Unchanging DEF GiveUp, m
  <2>3. late' \subseteq [from : Worker, inst : Instance, body : Body]
    BY <1>0, <2>1, <2>2 DEF WorkerTypeOK
  <2>4. ASSUME NEW n, n = m, n.body.kind = "commit"
        PROVE  PendingOk(n.from, n.inst, n.body.batch)'
    <3>1. PendingOk(n.from, n.inst, n.body.batch)
      BY <1>0, <1>1, <2>1, <2>4 DEF SpoolOk
    <3>2. UNCHANGED <<now, work, stream, spool>> /\ n.from = w
      BY <2>1, <2>2, <2>4 DEF authVars
    <3> QED BY <1>1, <3>1, <3>2 DEF PendingOk, Owns, InStream
  <2> QED BY <2>2, <2>3, <2>4 DEF LateStep, LateOk
<1>2. ASSUME NEW phase \in Parked, Goto(w, phase)
      PROVE  proc'[w].inst = proc[w].inst
  BY <1>0, <1>2, GotoFacts DEF Parked, Phase
<1>3. ASSUME NEW r \in Request(w), GiveUp(w, r),
             IF proc[w].phase = "initial" THEN Goto(w, "register")
                                          ELSE UNCHANGED proc
      PROVE  StepOk
  <2>1. /\ r \in Body /\ proc[w].phase # "down"
        /\ r.kind = "commit" => r.batch \in spool[w]
    <3>1. CASE \E b \in spool[w] : r = [kind |-> "commit", batch |-> b]
      BY <1>0, <1>3, <3>1, BatchTypes DEF Request, Body
    <3>2. CASE r \in {[kind |-> "register"], [kind |-> "claim"]}
      BY <1>3, <3>2 DEF Request, Body
    <3> QED BY <1>3, <3>1, <3>2 DEF Request
  <2>2. CASE proc[w].phase = "initial"
    BY <1>1, <1>2, <1>3, <2>1, <2>2, ParksOnly DEF Parked
  <2>3. CASE proc[w].phase # "initial"
    <3>1. proc' = proc
      BY <1>3, <2>3
    <3>2. /\ AuthorityStep /\ spool' = spool /\ LateStep
          /\ late' \subseteq [from : Worker, inst : Instance, body : Body]
      BY <1>1, <1>3, <2>1, <3>1
    <3>3. WorkerTypes'
      BY <1>0, <3>1, <3>2 DEF WorkerTypes, WorkerTypeOK
    <3> QED BY <3>1, <3>2, <3>3, NobodyActs
  <2> QED BY <2>2, <2>3
<1>4. ASSUME Working(w)
      PROVE  /\ [kind |-> "renew", task |-> proc[w].task, gen |-> proc[w].gen,
                 expected |-> proc[w].deadline] \in Body
             /\ [kind |-> "fail", task |-> proc[w].task,
                 gen |-> proc[w].gen] \in Body
             /\ proc[w].phase # "down"
  BY <1>4, ProcFacts DEF Body
<1>5. CASE /\ Working(w) /\ UNCHANGED proc
           /\ GiveUp(w, [kind |-> "renew", task |-> proc[w].task,
                         gen |-> proc[w].gen, expected |-> proc[w].deadline])
  <2>1. /\ AuthorityStep /\ spool' = spool /\ LateStep
        /\ late' \subseteq [from : Worker, inst : Instance, body : Body]
    BY <1>1, <1>4, <1>5
  <2>2. WorkerTypes'
    BY <1>0, <1>5, <2>1 DEF WorkerTypes, WorkerTypeOK
  <2> QED BY <1>5, <2>1, <2>2, NobodyActs
<1>6. CASE /\ proc[w].phase = "run" /\ Goto(w, "idle")
           /\ GiveUp(w, [kind |-> "fail", task |-> proc[w].task,
                         gen |-> proc[w].gen])
  <2>1. Working(w) /\ proc'[w].inst = proc[w].inst
    BY <1>2, <1>6 DEF Working, Parked
  <2>2. /\ AuthorityStep /\ spool' = spool /\ LateStep
        /\ late' \subseteq [from : Worker, inst : Instance, body : Body]
    BY <1>1, <1>4, <1>6, <2>1
  <2> QED BY <1>6, <2>2, ParksOnly DEF Parked
<1> QED BY <1>3, <1>5, <1>6 DEF TimeOut

\* The batch under delivery is answered: the producer goes on with the next.
LEMMA NextBatch ==
    ASSUME WorkerInv, AuthorityStep, NEW w \in Worker, NEW b \in spool[w],
           proc[w].phase = "deliver", InStream(b)',
           Owns(proc[w].task, w, proc[w].inst, proc[w].gen)' =>
              work'[b.task].nextSeq = b.seq + 1,
           spool' = [spool EXCEPT ![w] = @ \ {b}],
           proc' = [proc EXCEPT ![w].phase = "run", ![w].seq = @ + 1],
           late' = late
    PROVE  StepOk
<1> DEFINE p == [proc[w] EXCEPT !.phase = "run", !.seq = @ + 1]
<1>0. /\ WorkerTypeOK /\ proc[w] \in Process /\ proc[w].seq \in Nat
      /\ WorkerOk(w) /\ Working(w)
  BY ProcFacts DEF WorkerInv, Working
<1>1. /\ b.task = proc[w].task /\ b.seq = proc[w].seq /\ spool[w] = {b}
  BY <1>0 DEF WorkerOk, OneSpooled
<1>2. proc' = [proc EXCEPT ![w] = p]
  BY <1>0 DEF WorkerTypeOK
<1>3. /\ p \in Process /\ p.phase = "run" /\ p.inst = proc[w].inst
      /\ p.task = proc[w].task /\ p.gen = proc[w].gen
      /\ p.seq = proc[w].seq + 1 /\ p.deadline = proc[w].deadline
  <2>1. proc[w].seq + 1 \in Nat
    BY <1>0
  <2> DEFINE n == proc[w].seq + 1
  <2> HIDE DEF n
  <2>2. /\ [proc[w] EXCEPT !.phase = "run", !.seq = n] \in Process
    BY <1>0, <2>1 DEF Process, Phase, n
  <2> QED BY <1>0, <2>2 DEF Process, n
<1> HIDE DEF p
<1>4. /\ proc' \in [Worker -> Process] /\ proc'[w] = p
      /\ \A v \in Worker \ {w} : proc'[v] = proc[v]
  BY <1>0, <1>2, <1>3 DEF WorkerTypeOK
<1>5. /\ spool' \in [Worker -> SUBSET SpoolBatch] /\ spool'[w] = {}
      /\ \A v \in Worker \ {w} : spool'[v] = spool[v]
  BY <1>0, <1>1 DEF WorkerTypeOK
<1>6. SpoolStep(w)
  BY <1>1, <1>5 DEF SpoolStep
<1>7. ProcOk(w)' /\ OneSpooled(w)'
  BY <1>0, <1>3, <1>4, <1>5 DEF WorkerOk, ProcOk, OneSpooled, Working
<1>8. ViewOk(w)'
  BY <1>0, <1>3, <1>4, ViewKept
<1>9. SeqOk(w)'
  <2> SUFFICES ASSUME Owns(proc[w].task, w, proc[w].inst, proc[w].gen)'
               PROVE  p.seq = work'[p.task].nextSeq
    BY <1>3, <1>4 DEF SeqOk
  <2> QED BY <1>1, <1>3, <1>4
<1>10. WorkerTypes' /\ LateStep
  BY <1>0, <1>4, <1>5, SameLate DEF WorkerTypes, WorkerTypeOK
<1> QED BY <1>4, <1>5, <1>6, <1>7, <1>8, <1>9, <1>10, OneActs DEF WorkerOk

LEMMA DeliverCallOk ==
    ASSUME WorkerInv, NEW w \in Worker, DeliverCall(w)
    PROVE  StepOk
<1>0. /\ proc[w].phase = "deliver" /\ Working(w) /\ late' = late
      /\ proc[w].phase # "down" /\ WorkerOk(w)
  BY DEF DeliverCall, Working, WorkerInv
<1>1. PICK b \in spool[w] :
         \/ /\ \/ Commit(b.task, w, proc[w].inst, b.seq, b.entry)
               \/ Verdict(w, b) = "ALREADY" /\ UNCHANGED authVars
            /\ spool' = [spool EXCEPT ![w] = @ \ {b}]
            /\ IF b.entry.final THEN Goto(w, "idle")
               ELSE proc' = [proc EXCEPT ![w].phase = "run",
                                         ![w].seq = @ + 1]
         \/ /\ Verdict(w, b) = "STALE"
            /\ spool' = [spool EXCEPT ![w] = @ \ OfGeneration(w, b)]
            /\ Goto(w, "idle")
            /\ UNCHANGED authVars
         \/ /\ ReportFailure(w)
            /\ Goto(w, "idle")
            /\ UNCHANGED spool
  BY DEF DeliverCall
<1>2. CASE /\ \/ Commit(b.task, w, proc[w].inst, b.seq, b.entry)
              \/ Verdict(w, b) = "ALREADY" /\ UNCHANGED authVars
           /\ spool' = [spool EXCEPT ![w] = @ \ {b}]
           /\ IF b.entry.final THEN Goto(w, "idle")
              ELSE proc' = [proc EXCEPT ![w].phase = "run",
                                        ![w].seq = @ + 1]
  <2>1. AuthorityStep /\ InStream(b)'
    BY <1>0, <1>2, AnsweredCommit, AnsweredAlready
  <2>2. CASE Goto(w, "idle")
    <3> DEFINE S == spool[w] \ {b}
    <3>1. /\ S \in SUBSET spool[w] /\ spool' = [spool EXCEPT ![w] = S]
          /\ \A c \in spool[w] \ S : Answered(w, c)
      BY <1>2, <2>1 DEF Answered
    <3> HIDE DEF S
    <3> QED BY <1>0, <2>1, <2>2, <3>1, SameLate, Parks DEF Parked
  <2>3. CASE proc' = [proc EXCEPT ![w].phase = "run", ![w].seq = @ + 1]
    <3>1. /\ b \in SpoolBatch /\ b.seq \in Nat /\ proc[w].inst \in Instance
          /\ b.task = proc[w].task /\ b.seq = proc[w].seq
      BY <1>0, BatchTypes, ProcFacts DEF WorkerInv, WorkerOk, OneSpooled
    <3>2. proc'[w].task = proc[w].task /\ proc'[w].inst = proc[w].inst
          /\ proc'[w].gen = proc[w].gen
      BY <2>3 DEF WorkerInv, WorkerTypeOK, Process
    <3>3. CASE Commit(b.task, w, proc[w].inst, b.seq, b.entry)
      <4>1. work'[b.task].nextSeq = b.seq + 1
        BY <3>1, <3>3, CommitEffect DEF WorkerInv, CommitOf
      <4> QED BY <1>0, <1>2, <2>1, <2>3, <4>1, NextBatch
    <3>4. CASE Verdict(w, b) = "ALREADY" /\ UNCHANGED authVars
      <4>1. ASSUME Owns(proc[w].task, w, proc[w].inst, proc[w].gen)'
            PROVE  work'[b.task].nextSeq = b.seq + 1
        <5>1. Owns(proc[w].task, w, proc[w].inst, proc[w].gen)
          BY <3>2, <3>4, <4>1 DEF Owns, authVars
        <5>2. work[b.task].nextSeq \in {b.seq, b.seq + 1}
          BY <1>0, <3>1, <5>1 DEF WorkerOk, SeqOk
        <5>3. b.seq < work[b.task].nextSeq
          BY <3>4, Answers DEF InStream
        <5> QED BY <3>1, <3>4, <5>2, <5>3 DEF authVars
      <4> QED BY <1>0, <1>2, <2>1, <2>3, <4>1, NextBatch
    <3> QED BY <1>2, <3>3, <3>4
  <2> QED BY <1>2, <2>2, <2>3
<1>3. CASE /\ Verdict(w, b) = "STALE"
           /\ spool' = [spool EXCEPT ![w] = @ \ OfGeneration(w, b)]
           /\ Goto(w, "idle")
           /\ UNCHANGED authVars
  <2> DEFINE S == spool[w] \ OfGeneration(w, b)
  <2>1. /\ AuthorityStep
        /\ \A c \in OfGeneration(w, b) : Answered(w, c)
    BY <1>3, AnsweredStale DEF Answered
  <2>2. /\ S \in SUBSET spool[w] /\ spool' = [spool EXCEPT ![w] = S]
        /\ \A c \in spool[w] \ S : Answered(w, c)
    BY <1>3, <2>1 DEF OfGeneration
  <2> HIDE DEF S
  <2> QED BY <1>0, <1>3, <2>1, <2>2, SameLate, Parks DEF Parked
<1>4. CASE ReportFailure(w) /\ Goto(w, "idle") /\ UNCHANGED spool
  BY <1>0, <1>4, ReportHandled, SameLate, ParksOnly DEF Parked
<1> QED BY <1>1, <1>2, <1>3, <1>4

-----------------------------------------------------------------------------
(* The invariant.                                                          *)

LEMMA WorkerStarts == WorkerInit => WorkerInv
<1> SUFFICES ASSUME WorkerInit
             PROVE  WorkerInv
  OBVIOUS
<1>1. Init
  BY DEF WorkerInit
<1>2. AuthorityInv
  BY <1>1, LeaseInvInit, StreamInvInit DEF AuthorityInv, LeasedOnce, Init
<1>3. WorkerTypeOK
  BY <1>2 DEF WorkerInit, WorkerTypeOK, AuthorityInv, LeaseInv, Process,
              Phase, NULL
<1>4. ASSUME NEW w \in Worker
      PROVE  WorkerOk(w) /\ SpoolOk(w)
  BY AuthorityAssumption
     DEF WorkerInit, WorkerOk, ProcOk, OneSpooled, Working, SpoolOk, NULL
<1>5. AllStored
  BY <1>1 DEF Init, AllStored
<1> QED BY <1>2, <1>3, <1>4, <1>5 DEF WorkerInit, WorkerInv

LEMMA WorkerSteps ==
    ASSUME WorkerInv, [WorkerNext]_allVars
    PROVE  StepOk
<1>1. ASSUME NEW w \in Worker, ProcessStep(w)
      PROVE  StepOk
  BY <1>1, StartOk, RegisterCallOk, ReplayCallOk, ClaimCallOk, ProduceOk,
     ProducerFailsOk, DeliverCallOk, NoticeLossOk, RenewCallOk,
     UploadBudgetSpentOk
     DEF ProcessStep
<1>2. CASE UNCHANGED allVars
  <2>1. UNCHANGED <<authVars, proc, spool, late>>
    BY <1>2 DEF allVars, authVars
  <2>2. WorkerTypes' /\ LateStep
    BY <2>1, SameLate DEF WorkerInv, WorkerTypes, WorkerTypeOK
  <2> QED BY <2>1, <2>2, Unchanging, NobodyActs
<1> QED
  BY <1>1, <1>2, CrashOk, TimeOutOk, HandleLateOk, DropLateOk, OperatorOk
     DEF WorkerNext

LEMMA WorkerHolds == WorkerSpec => []WorkerInv
<1>1. WorkerInv /\ [WorkerNext]_allVars => WorkerInv'
  BY WorkerSteps, StepKeeps
<1> QED BY WorkerStarts, <1>1, PTL DEF WorkerSpec

\* Every reachable state of the composition is well typed, the authority's
\* tables included, whatever is late or in a spool.
THEOREM WorkerTyped == WorkerSpec => []WorkerTypeOK
<1>1. WorkerInv => WorkerTypeOK
  BY DEF WorkerInv
<1> QED BY <1>1, WorkerHolds, PTL

\* The calls, retries, late requests and crashes of the workers make the
\* authority do nothing that it does not do by itself: what is proved of Spec
\* is true beside the workers.
THEOREM AuthorityImplemented == WorkerSpec => Spec
<1>1. WorkerInit => Init
  BY DEF WorkerInit
<1>2. WorkerInv /\ [WorkerNext]_allVars => [Next]_vars
  BY WorkerSteps DEF StepOk, AuthorityStep
<1> QED BY <1>1, <1>2, WorkerHolds, PTL DEF WorkerSpec, Spec

\* A worker never takes its lease to reach farther than the authority does,
\* however many renewals are late, repeated or answered to nobody.
THEOREM ViewNotAhead == WorkerSpec => []LeaseViewNotAhead
<1>1. WorkerInv => LeaseViewNotAhead
  BY DEF WorkerInv, WorkerOk, ViewOk, LeaseViewNotAhead
<1> QED BY <1>1, WorkerHolds, PTL

\* While the generation of a spooled batch owns its task, the authority
\* accepts the batch or has it already: a crash between spooling and sending,
\* a late commit and a replay never make it a conflict.
THEOREM LiveNotRefused == WorkerSpec => []LiveBatchNotRefused
<1>1. WorkerInv => LiveBatchNotRefused
  <2> SUFFICES ASSUME WorkerInv, NEW w \in Worker, NEW b \in spool[w],
                      Owns(b.task, w, proc[w].inst, b.entry.gen)
               PROVE  Verdict(w, b) \in {"COMMITTED", "ALREADY"}
    BY DEF LiveBatchNotRefused
  <2>1. /\ PendingOk(w, proc[w].inst, b) /\ InboxMatchesStream /\ AllStored
        /\ b.task \in Task /\ b.seq \in Nat
    BY BatchTypes DEF WorkerInv, SpoolOk, AuthorityInv, StreamInv
  <2>2. CASE InStream(b)
    <3>1. Stored(b.task, b.seq) # {}
      BY <2>1, <2>2 DEF InStream, AllStored
    <3>2. \A c \in Stored(b.task, b.seq) : c.entry = b.entry
      BY <2>1, <2>2 DEF InStream, Stored, InboxMatchesStream
    <3> QED BY <3>1, <3>2 DEF Verdict, CommitVerdict
  <2>3. CASE b.seq = work[b.task].nextSeq
    <3>1. Stored(b.task, b.seq) = {}
      BY <2>1, <2>3 DEF Stored, InboxMatchesStream
    <3> QED BY <2>3, <3>1 DEF Verdict, CommitVerdict
  <2> QED BY <2>1, <2>2, <2>3 DEF PendingOk
<1> QED BY <1>1, WorkerHolds, PTL

\* No result is lost: a batch leaves its spool when it is in the stream of
\* its task, or when the generation that produced it is out for ever.
THEOREM NothingDropped == WorkerSpec => NoResultDropped
<1> DEFINE A == \A w \in Worker : \A b \in spool[w] \ spool'[w] :
                   \/ /\ b.seq < Len(stream'[b.task])
                      /\ stream'[b.task][b.seq + 1] = b.entry
                   \/ ~Owns(b.task, w, proc[w].inst, b.entry.gen)
<1>1. WorkerInv /\ [WorkerNext]_allVars => A
  <2> SUFFICES ASSUME WorkerInv, [WorkerNext]_allVars,
                      NEW w \in Worker, NEW b \in spool[w] \ spool'[w],
                      Owns(b.task, w, proc[w].inst, b.entry.gen)
               PROVE  /\ b.seq < Len(stream'[b.task])
                      /\ stream'[b.task][b.seq + 1] = b.entry
    OBVIOUS
  <2>1. StepOk /\ WorkerInv'
    BY WorkerSteps, StepKeeps
  <2>2. InStream(b)' /\ b.task \in Task
    BY <2>1, BatchTypes DEF StepOk, SpoolStep, WorkerInv
  <2>3. work'[b.task].nextSeq = Len(stream'[b.task])
    BY <2>1, <2>2
       DEF WorkerInv, AuthorityInv, StreamInv, InboxMatchesStream
  <2> QED BY <2>2, <2>3 DEF InStream
<1> HIDE DEF A
<1>2. WorkerSpec => [][A]_allVars
  BY <1>1, WorkerHolds, PTL DEF WorkerSpec
<1> QED BY <1>2 DEF A, NoResultDropped
=============================================================================
