----------------------- MODULE FabricAuthorityProof -----------------------
(***************************************************************************)
(* The authority store, for all values of the constants of FabricAuthority.*)
(*                                                                         *)
(* Types and fencing.  LeaseInv is inductive: OneLivePerWorker needs       *)
(* LeaseOfKnownIncarnation, because a claim looks for the active leases of *)
(* its own incarnation only, and DeadlineNeverRegresses needs LeaseBounded,*)
(* because a renewal assigns now + LeaseSeconds.                           *)
(*                                                                         *)
(* The inbox of result batches.  StreamInv is inductive: the sequence      *)
(* number a commit must name is the length of the stream, so that it fills *)
(* the first free position, and a compacted or closed task is not LEASED,  *)
(* so that nothing can be committed to it.                                 *)
(*                                                                         *)
(* The last part shows that the authority store implements ResultInbox.  A *)
(* step that commits, settles, finishes or gives up is a step of the       *)
(* inbox; every other step leaves the streams, the positions on offer and  *)
(* the closed tasks alone.                                                 *)
(***************************************************************************)
EXTENDS FabricRefinement, TLAPS

-----------------------------------------------------------------------------
(* Type correctness.                                                       *)

\* A row stays a row under each of the updates.
LEMMA RowTypes ==
    ASSUME TypeOK, NEW row \in WorkRow
    PROVE  /\ \A state \in WorkState : Unowned(row, state) \in WorkRow
           /\ Completed(row) \in WorkRow
           /\ \A w \in Worker, i \in Nat : LeasedRow(row, w, i) \in WorkRow
           /\ \A retryable \in BOOLEAN, delay \in RetryDelay :
                 FailedRow(row, retryable, delay) \in WorkRow
           /\ \A final \in BOOLEAN : CommittedRow(row, final) \in WorkRow
<1>1. /\ row.gen + 1 \in Nat /\ row.attempt + 1 \in Nat
      /\ row.nextSeq + 1 \in Nat /\ now \in Nat /\ now + LeaseSeconds \in Nat
      /\ \A delay \in RetryDelay : now + delay \in Nat
  BY AuthorityAssumption DEF TypeOK, WorkRow
<1>2. \A state \in WorkState : Unowned(row, state) \in WorkRow
  BY DEF Unowned, WorkRow, NULL
<1>3. Completed(row) \in WorkRow
  <2>1. Unowned(row, "COMPLETE") \in WorkRow
    BY <1>2 DEF WorkState
  <2> QED BY <1>1, <2>1 DEF Completed, WorkRow
<1>4. \A w \in Worker, i \in Nat : LeasedRow(row, w, i) \in WorkRow
  BY <1>1 DEF LeasedRow, WorkRow, WorkState
<1>5. ASSUME NEW retryable \in BOOLEAN, NEW delay \in RetryDelay
      PROVE  FailedRow(row, retryable, delay) \in WorkRow
  <2>1. Unowned(row, "RETRY") \in WorkRow /\ Unowned(row, "DEAD") \in WorkRow
    BY <1>2 DEF WorkState
  <2> QED BY <1>1, <2>1 DEF FailedRow, WorkRow
<1>6. \A final \in BOOLEAN : CommittedRow(row, final) \in WorkRow
  BY <1>1, <1>3 DEF CommittedRow, WorkRow
<1> QED BY <1>2, <1>3, <1>4, <1>5, <1>6

\* The tables keep their column types through every transaction.
LEMMA TypeStep == TypeOK /\ [Next]_vars => TypeOK'
<1> SUFFICES ASSUME TypeOK, [Next]_vars
             PROVE  TypeOK'
  OBVIOUS
<1> USE AuthorityAssumption
<1>0. /\ \A t \in Task : work[t] \in WorkRow
      /\ \A i \in Instance : i \in Nat
  BY DEF TypeOK, Instance
<1>1. ASSUME NEW w \in Worker, NEW i \in Instance, Register(w, i)
      PROVE  TypeOK'
  <2>1. work' \in [Task -> WorkRow]
    BY <1>1, <1>0, RowTypes DEF Register, Released, WorkState
  <2> QED BY <1>1, <1>0, <2>1 DEF Register, TypeOK
<1>2. ASSUME NEW w \in Worker, Revoke(w)
      PROVE  TypeOK'
  <2>1. work' \in [Task -> WorkRow]
    BY <1>2, <1>0, RowTypes DEF Revoke, Released, WorkState
  <2> QED BY <1>2, <2>1 DEF Revoke, TypeOK
<1>3. ASSUME NEW t \in Task, NEW d \in RetryDelay, Admit(t, now + d)
      PROVE  TypeOK'
  <2> DEFINE row == [work[t] EXCEPT !.state = "PENDING",
                                    !.notBefore = now + d]
  <2>1. now + d \in Nat
    BY DEF TypeOK
  <2>2. row \in WorkRow
    BY <1>0, <2>1 DEF WorkRow, WorkState
  <2>3. work' = [work EXCEPT ![t] = row]
    BY <1>3 DEF Admit, TypeOK
  <2> HIDE DEF row
  <2> QED BY <1>3, <2>2, <2>3 DEF Admit, TypeOK
<1>4. ASSUME NEW t \in Task, NEW w \in Worker, NEW i \in Instance,
             Claim(t, w, i)
      PROVE  TypeOK'
  <2>1. LeasedRow(work[t], w, i) \in WorkRow
    BY <1>0, RowTypes
  <2> QED BY <1>4, <2>1 DEF Claim, TypeOK
<1>5. ASSUME NEW t \in Task, NEW w \in Worker, NEW i \in Instance,
             NEW g \in 1 .. MaxAttempts, LeaseStep(t, w, i, g)
      PROVE  TypeOK'
  <2>1. ASSUME NEW expected \in 1 .. work[t].deadline,
               Renew(t, w, i, g, expected)
        PROVE  TypeOK'
    <3> DEFINE row == [work[t] EXCEPT !.deadline = RenewedDeadline(t, expected)]
    <3>1. now + LeaseSeconds \in Nat
      BY DEF TypeOK
    <3>2. RenewedDeadline(t, expected) \in Nat
      BY <1>0, <3>1 DEF RenewedDeadline, WorkRow
    <3>3. row \in WorkRow
      BY <1>0, <3>2 DEF WorkRow
    <3>4. work' = [work EXCEPT ![t] = row]
      BY <2>1 DEF Renew, TypeOK
    <3> HIDE DEF row
    <3> QED BY <2>1, <3>3, <3>4 DEF Renew, TypeOK
  <2>2. CASE Finish(t, w, i, g)
    <3>1. Completed(work[t]) \in WorkRow
      BY <1>0, RowTypes
    <3> QED BY <2>2, <3>1 DEF Finish, TypeOK
  <2>3. ASSUME NEW retryable \in BOOLEAN, NEW delay \in RetryDelay,
               Fail(t, w, i, g, retryable, delay)
        PROVE  TypeOK'
    <3>1. FailedRow(work[t], retryable, delay) \in WorkRow
      BY <1>0, RowTypes
    <3> QED BY <2>3, <3>1 DEF Fail, TypeOK
  <2>4. ASSUME NEW final \in BOOLEAN, NEW data \in Payload,
               Commit(t, w, i, work[t].nextSeq,
                      [gen |-> g, final |-> final, data |-> data])
        PROVE  TypeOK'
    <3> DEFINE entry == [gen |-> g, final |-> final, data |-> data]
               batch == [task |-> t, seq |-> work[t].nextSeq,
                         entry |-> entry, committedAt |-> now,
                         consumedAt |-> NULL, attempts |-> 0,
                         quarantined |-> FALSE]
    <3>1. entry \in Entry
      BY DEF Entry
    <3>2. CommittedRow(work[t], final) \in WorkRow
      BY <1>0, RowTypes
    <3>3. work' \in [Task -> WorkRow]
      BY <2>4, <3>2 DEF Commit, TypeOK
    <3>4. batch \in BatchRow
      <4>1. work[t].nextSeq \in Nat /\ now \in Nat
        BY <1>0 DEF TypeOK, WorkRow
      <4> HIDE DEF entry
      <4> QED BY <3>1, <4>1 DEF BatchRow, NULL
    <3>5. batches' \subseteq BatchRow
      <4>1. batches' = batches \cup {batch}
        BY <2>4 DEF Commit
      <4> HIDE DEF batch
      <4> QED BY <3>4, <4>1 DEF TypeOK
    <3>6. stream' \in [Task -> Seq(Entry)]
      BY <2>4, <3>1 DEF Commit, TypeOK
    <3> QED BY <2>4, <3>3, <3>5, <3>6 DEF Commit, TypeOK
  <2> QED BY <1>5, <2>1, <2>2, <2>3, <2>4 DEF LeaseStep
<1>6. ASSUME NEW b \in batches, Consume(b)
      PROVE  TypeOK'
  BY <1>6 DEF Consume, Replaced, TypeOK, BatchRow
<1>7. ASSUME NEW b \in batches, ConsumeFail(b)
      PROVE  TypeOK'
  <2> DEFINE full == b.attempts + 1 >= MaxConsumeAttempts
             row == [b EXCEPT !.attempts = @ + 1, !.quarantined = full]
  <2>1. row \in BatchRow
    <3>1. b \in BatchRow /\ b.attempts + 1 \in Nat
      BY DEF TypeOK, BatchRow
    <3>2. full \in BOOLEAN
      OBVIOUS
    <3> HIDE DEF full
    <3> QED BY <3>1, <3>2 DEF BatchRow
  <2>2. batches' = (batches \ {b}) \cup {row}
    BY <1>7 DEF ConsumeFail, Replaced
  <2> HIDE DEF row
  <2> QED BY <1>7, <2>1, <2>2 DEF ConsumeFail, TypeOK
<1>8. CASE Gc
  BY <1>8 DEF Gc, TypeOK, WorkRow
<1>9. CASE Tick
  BY <1>9 DEF Tick, TypeOK
<1>10. CASE UNCHANGED vars
  BY <1>10 DEF vars, TypeOK
<1> QED
  BY <1>1, <1>2, <1>3, <1>4, <1>5, <1>6, <1>7, <1>8, <1>9, <1>10 DEF Next

\* The authority's tables are well typed in every reachable state.
THEOREM TypeCorrect == Spec => []TypeOK
<1>1. Init => TypeOK
  BY AuthorityAssumption
     DEF Init, TypeOK, WorkRow, WorkState, BatchRow, Entry, NULL
<1> QED BY <1>1, TypeStep, PTL DEF Spec

-----------------------------------------------------------------------------
(* Leases.                                                                 *)

LeaseInv ==
    /\ TypeOK
    /\ LeaseOfKnownIncarnation
    /\ OneLivePerWorker
    /\ RetryHasAttemptsLeft
    /\ LeaseBounded

-----------------------------------------------------------------------------
(* What a step may do to the columns of a row that are about its lease.    *)

SameLease(t) ==
    /\ work'[t].state = work[t].state
    /\ work'[t].owner = work[t].owner
    /\ work'[t].ownerInst = work[t].ownerInst
    /\ work'[t].gen = work[t].gen
    /\ work'[t].attempt = work[t].attempt
    /\ work'[t].deadline = work[t].deadline

\* After the step nobody holds t.
Unleased(t) ==
    /\ work'[t].state # "LEASED"
    /\ work'[t].gen = work[t].gen
    /\ work'[t].attempt = work[t].attempt
    /\ work'[t].state = "RETRY" => work[t].attempt < MaxAttempts

\* A renewal, or a batch that is not the last.
Extended(t) ==
    /\ work[t].state = "LEASED"
    /\ work[t].deadline > now
    /\ work'[t].state = work[t].state
    /\ work'[t].owner = work[t].owner
    /\ work'[t].ownerInst = work[t].ownerInst
    /\ work'[t].gen = work[t].gen
    /\ work'[t].attempt = work[t].attempt
    /\ work'[t].deadline \in {work[t].deadline, now + LeaseSeconds}

Kept(t) == SameLease(t) \/ Unleased(t) \/ Extended(t)

\* Rows that change in one of these ways do not disturb LeaseInv.
LEMMA KeptStep ==
    ASSUME LeaseInv, TypeOK', UNCHANGED <<now, workers>>,
           \A t \in Task : Kept(t)
    PROVE  LeaseInv'
<1> USE AuthorityAssumption
<1>0. /\ now \in Nat
      /\ \A t \in Task : work[t].deadline \in Nat /\ work'[t].deadline \in Nat
  BY DEF LeaseInv, TypeOK, WorkRow
<1>1. LeaseOfKnownIncarnation'
  BY DEF LeaseInv, LeaseOfKnownIncarnation, Known, Kept, SameLease, Unleased,
         Extended
<1>2. OneLivePerWorker'
  <2>1. \A t \in Task : work'[t].state = "LEASED" /\ work'[t].deadline > now
           => /\ work[t].state = "LEASED" /\ work[t].deadline > now
              /\ work'[t].owner = work[t].owner
    BY DEF Kept, SameLease, Unleased, Extended
  <2> QED BY <2>1 DEF LeaseInv, OneLivePerWorker
<1>3. RetryHasAttemptsLeft'
  BY DEF LeaseInv, RetryHasAttemptsLeft, Kept, SameLease, Unleased, Extended
<1>4. LeaseBounded'
  BY <1>0 DEF LeaseInv, LeaseBounded, Kept, SameLease, Unleased, Extended
<1> QED BY <1>1, <1>2, <1>3, <1>4 DEF LeaseInv

\* Cutting off an identity releases all that it held.
LEMMA ReleaseStep ==
    ASSUME TypeOK, NEW ts \in SUBSET Task, work' = Released(ts)
    PROVE  /\ \A t \in ts : Unleased(t) /\ work'[t].state = "PENDING"
           /\ \A t \in Task \ ts : work'[t] = work[t]
<1>1. \A t \in Task : work[t] \in WorkRow
  BY DEF TypeOK
<1> QED BY <1>1 DEF Released, Unowned, Unleased, WorkRow

\* The steps of the holder of a lease.
LEMMA HolderStep ==
    ASSUME TypeOK, NEW t \in Task, NEW w \in Worker, NEW i \in Instance,
           NEW g \in 1 .. MaxAttempts, LeaseStep(t, w, i, g)
    PROVE  /\ UNCHANGED <<now, workers>>
           /\ \A u \in Task : Kept(u)
<1>0. work[t] \in WorkRow
  BY DEF TypeOK
<1>1. ASSUME NEW expected \in 1 .. work[t].deadline,
             Renew(t, w, i, g, expected)
      PROVE  \A u \in Task : Kept(u)
  <2>1. /\ work'[t] = [work[t] EXCEPT !.deadline = RenewedDeadline(t, expected)]
        /\ \A u \in Task \ {t} : work'[u] = work[u]
    BY <1>1 DEF Renew, TypeOK
  <2>2. Extended(t)
    BY <1>0, <1>1, <2>1
       DEF Renew, RenewAccepted, RenewedDeadline, Owns, Extended, WorkRow
  <2> QED BY <2>1, <2>2 DEF Kept, SameLease
<1>2. ASSUME Finish(t, w, i, g)
      PROVE  \A u \in Task : Kept(u)
  <2>1. /\ work'[t] = Completed(work[t])
        /\ \A u \in Task \ {t} : work'[u] = work[u]
    BY <1>2 DEF Finish, TypeOK
  <2>2. Unleased(t)
    BY <1>0, <2>1 DEF Completed, Unowned, Unleased, WorkRow
  <2> QED BY <2>1, <2>2 DEF Kept, SameLease
<1>3. ASSUME NEW retryable \in BOOLEAN, NEW delay \in RetryDelay,
             Fail(t, w, i, g, retryable, delay)
      PROVE  \A u \in Task : Kept(u)
  <2>1. /\ work'[t] = FailedRow(work[t], retryable, delay)
        /\ \A u \in Task \ {t} : work'[u] = work[u]
    BY <1>3 DEF Fail, TypeOK
  <2>2. Unleased(t)
    BY <1>0, <2>1 DEF FailedRow, Unowned, Unleased, WorkRow
  <2> QED BY <2>1, <2>2 DEF Kept, SameLease
<1>4. ASSUME NEW final \in BOOLEAN, NEW data \in Payload,
             Commit(t, w, i, work[t].nextSeq,
                    [gen |-> g, final |-> final, data |-> data])
      PROVE  \A u \in Task : Kept(u)
  <2>1. /\ work'[t] = CommittedRow(work[t], final)
        /\ \A u \in Task \ {t} : work'[u] = work[u]
    BY <1>4 DEF Commit, TypeOK
  <2>2. Unleased(t) \/ SameLease(t)
    BY <1>0, <2>1
       DEF CommittedRow, Completed, Unowned, Unleased, SameLease, WorkRow
  <2> QED BY <2>1, <2>2 DEF Kept, SameLease
<1> QED
  BY <1>1, <1>2, <1>3, <1>4
     DEF LeaseStep, Renew, Finish, Fail, Commit

-----------------------------------------------------------------------------

\* Cutting off an identity leaves the leases of the identities that stay.
LEMMA RegisterKeepsKnown ==
    ASSUME TypeOK, LeaseOfKnownIncarnation, NEW w \in Worker,
           NEW i \in Instance, Register(w, i)
    PROVE  LeaseOfKnownIncarnation'
<1> DEFINE ts == {t \in LeasedTo(w) : work[t].ownerInst # i}
<1>1. /\ \A t \in ts : work'[t].state = "PENDING"
      /\ \A t \in Task \ ts : work'[t] = work[t]
  BY ReleaseStep DEF Register, LeasedTo
<1> SUFFICES ASSUME NEW t \in Task, work'[t].state = "LEASED"
             PROVE  (/\ work[t].owner \in Worker
                     /\ Known(work[t].owner, work[t].ownerInst))'
  BY DEF LeaseOfKnownIncarnation
<1>2. t \notin ts /\ work'[t] = work[t]
  BY <1>1
<1>3. /\ work[t].owner \in Worker
      /\ Known(work[t].owner, work[t].ownerInst)
  BY <1>2 DEF LeaseOfKnownIncarnation
<1>4. CASE work[t].owner = w
  <2>1. work[t].ownerInst = i
    BY <1>2, <1>4 DEF LeasedTo
  <2>2. workers'[w] = [inst |-> i, revoked |-> FALSE]
    BY DEF Register, TypeOK
  <2> QED BY <1>2, <1>4, <2>1, <2>2 DEF Known, NULL, Instance
<1>5. CASE work[t].owner # w
  <2>1. workers'[work[t].owner] = workers[work[t].owner]
    BY <1>3, <1>5 DEF Register, TypeOK
  <2> QED BY <1>2, <1>3, <2>1 DEF Known
<1> QED BY <1>4, <1>5

LEMMA RevokeKeepsKnown ==
    ASSUME TypeOK, LeaseOfKnownIncarnation, NEW w \in Worker, Revoke(w)
    PROVE  LeaseOfKnownIncarnation'
<1>1. /\ \A t \in LeasedTo(w) : work'[t].state = "PENDING"
      /\ \A t \in Task \ LeasedTo(w) : work'[t] = work[t]
  BY ReleaseStep DEF Revoke, LeasedTo
<1> SUFFICES ASSUME NEW t \in Task, work'[t].state = "LEASED"
             PROVE  (/\ work[t].owner \in Worker
                     /\ Known(work[t].owner, work[t].ownerInst))'
  BY DEF LeaseOfKnownIncarnation
<1>2. t \notin LeasedTo(w) /\ work'[t] = work[t]
  BY <1>1
<1>3. /\ work[t].owner \in Worker \ {w}
      /\ Known(work[t].owner, work[t].ownerInst)
  BY <1>2 DEF LeaseOfKnownIncarnation, LeasedTo
<1>4. workers'[work[t].owner] = workers[work[t].owner]
  BY <1>3 DEF Revoke, TypeOK
<1> QED BY <1>2, <1>3, <1>4 DEF Known

LEMMA LeaseInvStep == LeaseInv /\ [Next]_vars => LeaseInv'
<1> SUFFICES ASSUME LeaseInv, [Next]_vars
             PROVE  LeaseInv'
  OBVIOUS
<1> USE AuthorityAssumption
<1>0. /\ TypeOK /\ TypeOK'
      /\ \A t \in Task : work[t] \in WorkRow
      /\ now \in Nat
  BY TypeStep DEF LeaseInv, TypeOK
<1>1. ASSUME NEW w \in Worker, NEW i \in Instance, Register(w, i)
      PROVE  LeaseInv'
  <2> DEFINE ts == {t \in LeasedTo(w) : work[t].ownerInst # i}
  <2>1. /\ \A t \in ts : Unleased(t) /\ work'[t].state = "PENDING"
        /\ \A t \in Task \ ts : work'[t] = work[t]
    BY <1>0, <1>1, ReleaseStep DEF Register, LeasedTo
  <2>2. LeaseOfKnownIncarnation'
    BY <1>0, <1>1, RegisterKeepsKnown DEF LeaseInv
  <2>3. OneLivePerWorker'
    BY <1>1, <2>1 DEF LeaseInv, OneLivePerWorker, Register
  <2>4. RetryHasAttemptsLeft'
    BY <2>1 DEF LeaseInv, RetryHasAttemptsLeft, Unleased
  <2>5. LeaseBounded'
    BY <1>1, <2>1 DEF LeaseInv, LeaseBounded, Register
  <2> QED BY <1>0, <2>2, <2>3, <2>4, <2>5 DEF LeaseInv
<1>2. ASSUME NEW w \in Worker, Revoke(w)
      PROVE  LeaseInv'
  <2> DEFINE ts == LeasedTo(w)
  <2>1. /\ \A t \in ts : Unleased(t) /\ work'[t].state = "PENDING"
        /\ \A t \in Task \ ts : work'[t] = work[t]
    BY <1>0, <1>2, ReleaseStep DEF Revoke, LeasedTo
  <2>2. LeaseOfKnownIncarnation'
    BY <1>0, <1>2, RevokeKeepsKnown DEF LeaseInv
  <2>3. OneLivePerWorker'
    BY <1>2, <2>1 DEF LeaseInv, OneLivePerWorker, Revoke
  <2>4. RetryHasAttemptsLeft'
    BY <2>1 DEF LeaseInv, RetryHasAttemptsLeft, Unleased
  <2>5. LeaseBounded'
    BY <1>2, <2>1 DEF LeaseInv, LeaseBounded, Revoke
  <2> QED BY <1>0, <2>2, <2>3, <2>4, <2>5 DEF LeaseInv
<1>3. ASSUME NEW t \in Task, NEW d \in RetryDelay, Admit(t, now + d)
      PROVE  LeaseInv'
  <2>1. /\ work'[t].state = "PENDING" /\ work'[t].gen = work[t].gen
        /\ work'[t].attempt = work[t].attempt
        /\ \A u \in Task \ {t} : work'[u] = work[u]
    BY <1>0, <1>3 DEF Admit, TypeOK, WorkRow
  <2>2. \A u \in Task : Kept(u)
    BY <2>1 DEF Kept, SameLease, Unleased
  <2> QED BY <1>0, <1>3, <2>2, KeptStep DEF Admit
<1>4. ASSUME NEW t \in Task, NEW w \in Worker, NEW i \in Instance,
             Claim(t, w, i)
      PROVE  LeaseInv'
  <2>1. /\ work'[t] = LeasedRow(work[t], w, i)
        /\ \A u \in Task \ {t} : work'[u] = work[u]
        /\ now' = now /\ workers' = workers
    BY <1>0, <1>4 DEF Claim, TypeOK
  <2>2. /\ work'[t].state = "LEASED" /\ work'[t].owner = w
        /\ work'[t].ownerInst = i
        /\ work'[t].gen = work[t].gen + 1
        /\ work'[t].attempt = work[t].attempt + 1
        /\ work'[t].deadline = now + LeaseSeconds
    BY <1>0, <2>1 DEF LeasedRow, WorkRow
  <2>3. LeaseOfKnownIncarnation'
    <3> SUFFICES ASSUME NEW u \in Task, work'[u].state = "LEASED"
                 PROVE  (/\ work[u].owner \in Worker
                         /\ Known(work[u].owner, work[u].ownerInst))'
      BY DEF LeaseOfKnownIncarnation
    <3>1. CASE u = t
      BY <1>4, <2>1, <2>2, <3>1 DEF Claim, Known
    <3>2. CASE u # t
      BY <2>1, <3>2 DEF LeaseInv, LeaseOfKnownIncarnation, Known
    <3> QED BY <3>1, <3>2
  <2>4. \A u \in Task : ~(/\ work[u].state = "LEASED" /\ work[u].deadline > now
                          /\ work[u].owner = w)
    BY <1>4 DEF LeaseInv, LeaseOfKnownIncarnation, Claim, Known, ActiveLeases,
                Owns
  <2>5. OneLivePerWorker'
    BY <2>1, <2>2, <2>4 DEF LeaseInv, OneLivePerWorker
  <2>6. RetryHasAttemptsLeft'
    BY <1>0, <1>4, <2>1, <2>2
       DEF LeaseInv, RetryHasAttemptsLeft, Claim, Claimable, WorkRow
  <2>7. LeaseBounded'
    BY <1>0, <2>1, <2>2 DEF LeaseInv, LeaseBounded
  <2> QED BY <1>0, <2>3, <2>5, <2>6, <2>7 DEF LeaseInv
<1>5. ASSUME NEW t \in Task, NEW w \in Worker, NEW i \in Instance,
             NEW g \in 1 .. MaxAttempts, LeaseStep(t, w, i, g)
      PROVE  LeaseInv'
  BY <1>0, <1>5, HolderStep, KeptStep
<1>6. ASSUME UNCHANGED <<now, workers, work>>
      PROVE  LeaseInv'
  BY <1>0, <1>6, KeptStep DEF Kept, SameLease
<1>7. CASE Gc
  <2>1. \A t \in Task : Kept(t)
    BY <1>0, <1>7 DEF Gc, Kept, SameLease, WorkRow
  <2> QED BY <1>0, <1>7, <2>1, KeptStep DEF Gc
<1>8. CASE Tick
  <2>1. now' = now + 1 /\ workers' = workers /\ work' = work
    BY <1>8 DEF Tick
  <2>2. \A t \in Task : work[t].deadline \in Nat
    BY <1>0 DEF WorkRow
  <2>3. LeaseOfKnownIncarnation' /\ RetryHasAttemptsLeft'
    BY <2>1 DEF LeaseInv, LeaseOfKnownIncarnation, Known, RetryHasAttemptsLeft
  <2>4. OneLivePerWorker' /\ LeaseBounded'
    BY <1>0, <2>1, <2>2 DEF LeaseInv, OneLivePerWorker, LeaseBounded
  <2> QED BY <1>0, <2>3, <2>4 DEF LeaseInv
<1> QED
  BY <1>1, <1>2, <1>3, <1>4, <1>5, <1>6, <1>7, <1>8
     DEF Next, Consume, ConsumeFail, vars

LEMMA LeaseInvInit == Init => LeaseInv
<1> SUFFICES ASSUME Init PROVE LeaseInv
  OBVIOUS
<1>1. TypeOK
  BY AuthorityAssumption
     DEF Init, TypeOK, WorkRow, WorkState, BatchRow, Entry, NULL
<1> QED BY AuthorityAssumption, <1>1
           DEF Init, LeaseInv, LeaseOfKnownIncarnation, OneLivePerWorker,
               RetryHasAttemptsLeft, LeaseBounded

\* Leases are held only by registered, unrevoked incarnations, one unexpired
\* lease by each worker, none longer ahead than a lease is long, and a row in
\* RETRY can be claimed again: for any number of workers, incarnations and
\* tasks.
THEOREM LeasesFenced ==
    Spec => [](LeaseOfKnownIncarnation /\ OneLivePerWorker
               /\ RetryHasAttemptsLeft /\ LeaseBounded)
<1>1. LeaseInv => LeaseOfKnownIncarnation /\ OneLivePerWorker
                  /\ RetryHasAttemptsLeft /\ LeaseBounded
  BY DEF LeaseInv
<1> QED BY <1>1, LeaseInvInit, LeaseInvStep, PTL DEF Spec

\* Renew, finish, fail and commit test the work row alone: it never names an
\* incarnation that is not the one registered, or is revoked.
THEOREM HolderKnown == Spec => []LeaseOfKnownIncarnation
BY LeasesFenced, PTL

\* No worker ever holds two unexpired leases.
THEOREM OneLiveLease == Spec => []OneLivePerWorker
BY LeasesFenced, PTL

-----------------------------------------------------------------------------

\* A row whose generation moves was free to be claimed.
LEMMA StepEffect ==
    ASSUME TypeOK, [Next]_vars, NEW t \in Task
    PROVE  \/ Kept(t)
           \/ Claimable(t) /\ work'[t].gen = work[t].gen + 1
<1>0. \A u \in Task : work[u] \in WorkRow
  BY DEF TypeOK
<1>1. ASSUME NEW w \in Worker, NEW i \in Instance, Register(w, i)
      PROVE  Kept(t)
  BY <1>1, ReleaseStep DEF Register, LeasedTo, Kept, SameLease
<1>2. ASSUME NEW w \in Worker, Revoke(w)
      PROVE  Kept(t)
  BY <1>2, ReleaseStep DEF Revoke, LeasedTo, Kept, SameLease
<1>3. ASSUME NEW u \in Task, NEW d \in RetryDelay, Admit(u, now + d)
      PROVE  Kept(t)
  <2>1. /\ work'[u].state = "PENDING" /\ work'[u].gen = work[u].gen
        /\ work'[u].attempt = work[u].attempt
        /\ \A v \in Task \ {u} : work'[v] = work[v]
    BY <1>0, <1>3 DEF Admit, TypeOK, WorkRow
  <2> QED BY <2>1 DEF Kept, SameLease, Unleased
<1>4. ASSUME NEW u \in Task, NEW w \in Worker, NEW i \in Instance,
             Claim(u, w, i)
      PROVE  Kept(t) \/ (Claimable(t) /\ work'[t].gen = work[t].gen + 1)
  <2>1. /\ work'[u].gen = work[u].gen + 1
        /\ \A v \in Task \ {u} : work'[v] = work[v]
    BY <1>0, <1>4 DEF Claim, LeasedRow, TypeOK, WorkRow
  <2> QED BY <1>4, <2>1 DEF Claim, Kept, SameLease
<1>5. ASSUME NEW u \in Task, NEW w \in Worker, NEW i \in Instance,
             NEW g \in 1 .. MaxAttempts, LeaseStep(u, w, i, g)
      PROVE  Kept(t)
  BY <1>5, HolderStep
<1>6. ASSUME UNCHANGED work
      PROVE  Kept(t)
  BY <1>6 DEF Kept, SameLease
<1>7. CASE Gc
  BY <1>0, <1>7 DEF Gc, Kept, SameLease, WorkRow
<1> QED
  BY <1>1, <1>2, <1>3, <1>4, <1>5, <1>6, <1>7
     DEF Next, Consume, ConsumeFail, Tick, vars

\* No step hands an unexpired lease to anyone else.
THEOREM NotStolen == Spec => LiveLeaseNotStolen
<1> DEFINE A == \A t \in Task :
                   work[t].state = "LEASED" /\ work[t].deadline > now
                   => work'[t].gen = work[t].gen
<1>1. TypeOK /\ [Next]_vars => A
  <2> SUFFICES ASSUME TypeOK, [Next]_vars, NEW t \in Task,
                      work[t].state = "LEASED", work[t].deadline > now
               PROVE  work'[t].gen = work[t].gen
    OBVIOUS
  <2>1. ~Claimable(t)
    BY DEF Claimable, TypeOK, WorkRow
  <2> QED BY <2>1, StepEffect DEF Kept, SameLease, Unleased, Extended
<1> HIDE DEF A
<1>2. Spec => [][A]_vars
  BY <1>1, TypeCorrect, PTL DEF Spec
<1> QED BY <1>2 DEF A, LiveLeaseNotStolen

\* No step takes back a deadline within the generation it was promised to.
THEOREM NotRegressing == Spec => DeadlineNeverRegresses
<1> DEFINE A == \A t \in Task :
                   work[t].state = "LEASED" /\ work'[t].state = "LEASED"
                   /\ work'[t].gen = work[t].gen
                   => work'[t].deadline >= work[t].deadline
<1>1. TypeOK /\ LeaseBounded /\ [Next]_vars => A
  <2> SUFFICES ASSUME TypeOK, LeaseBounded, [Next]_vars, NEW t \in Task,
                      work[t].state = "LEASED", work'[t].state = "LEASED",
                      work'[t].gen = work[t].gen
               PROVE  work'[t].deadline >= work[t].deadline
    OBVIOUS
  <2>1. /\ work[t].gen \in Nat /\ work[t].deadline \in Nat
        /\ now + LeaseSeconds \in Nat
    BY AuthorityAssumption DEF TypeOK, WorkRow
  <2>2. SameLease(t) \/ Extended(t)
    BY <2>1, StepEffect DEF Kept, Unleased
  <2> QED BY <2>1, <2>2 DEF SameLease, Extended, LeaseBounded
<1> HIDE DEF A
<1>2. Spec => [][A]_vars
  BY <1>1, TypeCorrect, LeasesFenced, PTL DEF Spec
<1> QED BY <1>2 DEF A, DeadlineNeverRegresses

-----------------------------------------------------------------------------
(* What the inbox promises to its readers.                                 *)

StreamInv ==
    /\ TypeOK
    /\ StreamFenced
    /\ InboxMatchesStream
    /\ CompactedIsDrained

-----------------------------------------------------------------------------
(* Steps that accept no batch.                                             *)

\* The columns of a row that the stream is related to.
QuietRow(t) ==
    /\ work'[t].gen >= work[t].gen
    /\ work'[t].nextSeq = work[t].nextSeq
    /\ work'[t].compacted = work[t].compacted
    /\ work[t].state = "COMPLETE" => work'[t].state = "COMPLETE"

SameBatch(b, c) == b.task = c.task /\ b.seq = c.seq /\ b.entry = c.entry

\* Rows of the inbox may go and may be settled; none comes or is reopened.
QuietInbox ==
    /\ \A c \in batches' :
          \E b \in batches : SameBatch(b, c) /\ (Unread(c) => Unread(b))
    /\ \A b, c \in batches' : b.task = c.task /\ b.seq = c.seq => b = c

LEMMA QuietStream ==
    ASSUME StreamInv, TypeOK', stream' = stream,
           \A t \in Task : QuietRow(t)
    PROVE  StreamFenced'
<1>1. \A t \in Task : /\ Len(stream[t]) \in Nat
                      /\ work[t].gen \in Nat /\ work'[t].gen \in Nat
                      /\ \A a \in 1 .. Len(stream[t]) : stream[t][a].gen \in Nat
  <2>1. \A t \in Task : /\ stream[t] \in Seq(Entry)
                        /\ work[t] \in WorkRow /\ work'[t] \in WorkRow
    BY DEF StreamInv, TypeOK
  <2>2. \A t \in Task : /\ Len(stream[t]) \in Nat
                        /\ \A a \in 1 .. Len(stream[t]) : stream[t][a] \in Entry
    BY <2>1
  <2>3. \A e \in Entry : e.gen \in Nat
    BY DEF Entry
  <2>4. \A t \in Task : work[t].gen \in Nat /\ work'[t].gen \in Nat
    BY <2>1 DEF WorkRow
  <2> QED BY <2>2, <2>3, <2>4
<1> QED BY <1>1 DEF StreamInv, StreamFenced, QuietRow

LEMMA QuietMatch ==
    ASSUME StreamInv, stream' = stream, QuietInbox,
           \A t \in Task : work'[t].nextSeq = work[t].nextSeq
    PROVE  InboxMatchesStream'
BY DEF StreamInv, InboxMatchesStream, QuietInbox, SameBatch

LEMMA QuietStep ==
    ASSUME StreamInv, TypeOK', stream' = stream, QuietInbox,
           \A t \in Task : QuietRow(t)
    PROVE  StreamInv'
<1>1. InboxMatchesStream'
  BY QuietMatch DEF QuietRow
<1>2. CompactedIsDrained'
  <2>1. \A t \in Task : work'[t].compacted =>
           /\ work'[t].state = "COMPLETE"
           /\ \A b \in batches : b.task = t => ~Unread(b)
    BY DEF StreamInv, CompactedIsDrained, QuietRow
  <2> QED BY <2>1 DEF CompactedIsDrained, QuietInbox, SameBatch
<1> QED BY <1>1, <1>2, QuietStream DEF StreamInv

\* Settling a batch, or counting a failed consumption of it.
LEMMA Settled ==
    ASSUME StreamInv, NEW b \in batches, NEW c,
           batches' = Replaced(b, c), SameBatch(b, c), Unread(b)
    PROVE  QuietInbox
<1>1. ASSUME NEW d \in batches'
      PROVE  \E e \in batches : SameBatch(e, d) /\ (Unread(d) => Unread(e))
  <2>1. CASE d = c
    BY <2>1
  <2>2. CASE d \in batches
    BY <2>2 DEF SameBatch
  <2> QED BY <1>1, <2>1, <2>2 DEF Replaced
<1>2. ASSUME NEW d \in batches', NEW e \in batches',
             d.task = e.task, d.seq = e.seq
      PROVE  d = e
  BY <1>2 DEF Replaced, SameBatch, StreamInv, InboxMatchesStream
<1> QED BY <1>1, <1>2 DEF QuietInbox

LEMMA UntouchedInbox ==
    ASSUME StreamInv, batches' = batches
    PROVE  QuietInbox
BY DEF StreamInv, InboxMatchesStream, QuietInbox, SameBatch

\* A release leaves the row quiet, and so does whatever else a step writes
\* to one row that is not complete.
LEMMA UnownedRow ==
    ASSUME NEW row \in WorkRow, NEW state
    PROVE  LET r == Unowned(row, state) IN
           /\ r.gen = row.gen /\ r.nextSeq = row.nextSeq
           /\ r.compacted = row.compacted /\ r.state = state
BY DEF Unowned, WorkRow

LEMMA OneRow ==
    ASSUME TypeOK, NEW t \in Task, NEW row, work' = [work EXCEPT ![t] = row],
           row.gen >= work[t].gen, row.nextSeq = work[t].nextSeq,
           row.compacted = work[t].compacted,
           work[t].state = "COMPLETE" => row.state = "COMPLETE"
    PROVE  \A u \in Task : QuietRow(u)
<1>1. \A u \in Task : work[u].gen \in Nat
  BY DEF TypeOK, WorkRow
<1>2. work'[t] = row /\ \A u \in Task \ {t} : work'[u] = work[u]
  BY DEF TypeOK
<1> QED BY <1>1, <1>2 DEF QuietRow

LEMMA UntouchedWork ==
    ASSUME TypeOK, work' = work
    PROVE  \A t \in Task : QuietRow(t)
BY DEF TypeOK, WorkRow, QuietRow

-----------------------------------------------------------------------------
(* The step that accepts a batch.                                          *)

\* row and batch are what the step writes: the holder of the lease adds the
\* next batch of its task, whatever times it writes.
Accepts(t, entry, row, batch) ==
    /\ work[t].state = "LEASED" /\ work[t].gen = entry.gen
    /\ Stored(t, work[t].nextSeq) = {}
    /\ row.gen = work[t].gen
    /\ row.nextSeq = work[t].nextSeq + 1
    /\ row.compacted = work[t].compacted
    /\ row.state = IF entry.final THEN "COMPLETE" ELSE "LEASED"
    /\ batch.task = t /\ batch.seq = work[t].nextSeq
    /\ batch.entry = entry
    /\ Unread(batch)
    /\ work' = [work EXCEPT ![t] = row]
    /\ stream' = [stream EXCEPT ![t] = Append(@, entry)]
    /\ batches' = batches \cup {batch}

LEMMA CommitAccepts ==
    ASSUME TypeOK, NEW t \in Task, NEW w \in Worker, NEW i \in Instance,
           NEW g \in 1 .. MaxAttempts, NEW final \in BOOLEAN,
           NEW data \in Payload,
           Commit(t, w, i, work[t].nextSeq,
                  [gen |-> g, final |-> final, data |-> data])
    PROVE  \E entry \in Inbox!Entry, row \in WorkRow, batch \in BatchRow :
              Accepts(t, entry, row, batch)
<1> DEFINE entry == [gen |-> g, final |-> final, data |-> data]
           row == CommittedRow(work[t], final)
           batch == [task |-> t, seq |-> work[t].nextSeq, entry |-> entry,
                     committedAt |-> now, consumedAt |-> NULL,
                     attempts |-> 0, quarantined |-> FALSE]
<1>1. work[t] \in WorkRow /\ row \in WorkRow
  BY RowTypes DEF TypeOK
<1>2. entry \in Inbox!Entry /\ entry \in Entry
  BY DEF Inbox!Entry, Entry
<1>3. /\ work[t].state = "LEASED" /\ work[t].gen = g
      /\ Stored(t, work[t].nextSeq) = {}
  BY DEF Commit, CommitVerdict, Owns
<1>4. /\ row.gen = work[t].gen /\ row.nextSeq = work[t].nextSeq + 1
      /\ row.compacted = work[t].compacted
      /\ row.state = IF final THEN "COMPLETE" ELSE "LEASED"
  BY <1>1, <1>3 DEF CommittedRow, Completed, Unowned, WorkRow
<1>5. batch \in BatchRow
  <2>1. work[t].nextSeq \in Nat /\ now \in Nat
    BY <1>1 DEF TypeOK, WorkRow
  <2> HIDE DEF entry
  <2> QED BY <1>2, <2>1 DEF BatchRow, NULL
<1>6. /\ work' = [work EXCEPT ![t] = row]
      /\ stream' = [stream EXCEPT ![t] = Append(@, entry)]
      /\ batches' = batches \cup {batch}
  BY DEF Commit
<1>7. /\ batch.task = t /\ batch.seq = work[t].nextSeq
      /\ batch.entry = entry /\ Unread(batch)
  BY DEF Unread
<1>8. entry.gen = g /\ entry.final = final
  OBVIOUS
<1> HIDE DEF row, entry, batch
<1>9. Accepts(t, entry, row, batch)
  BY <1>3, <1>4, <1>6, <1>7, <1>8 DEF Accepts
<1> QED BY <1>1, <1>2, <1>5, <1>9

LEMMA CommitStep ==
    ASSUME StreamInv, TypeOK', NEW t \in Task, NEW entry \in Inbox!Entry,
           NEW row \in WorkRow, NEW batch \in BatchRow,
           Accepts(t, entry, row, batch)
    PROVE  StreamInv'
<1> DEFINE g == entry.gen
           final == entry.final
           n == Len(stream[t])
<1>1. /\ work[t] \in WorkRow
      /\ \A u \in Task : stream[u] \in Seq(Entry) /\ Len(stream[u]) \in Nat
      /\ work[t].nextSeq = n
      /\ entry \in Entry /\ g \in Nat /\ final \in BOOLEAN
  <2>1. entry \in Entry /\ g \in Nat /\ final \in BOOLEAN
    BY DEF Inbox!Entry, Entry
  <2>2. /\ work[t] \in WorkRow
        /\ \A u \in Task : stream[u] \in Seq(Entry)
        /\ work[t].nextSeq = n
    BY DEF StreamInv, TypeOK, InboxMatchesStream
  <2> QED BY <2>1, <2>2
<1>2. /\ work[t].state = "LEASED" /\ work[t].gen = g
      /\ Stored(t, n) = {}
  BY <1>1 DEF Accepts
<1>3. /\ work'[t] = row
      /\ \A u \in Task \ {t} : work'[u] = work[u] /\ stream'[u] = stream[u]
      /\ stream'[t] = Append(stream[t], entry)
      /\ batches' = batches \cup {batch}
  BY <1>1 DEF Accepts, StreamInv, TypeOK
<1>4. /\ work'[t].gen = g
      /\ work'[t].nextSeq = n + 1
      /\ work'[t].compacted = work[t].compacted
      /\ final => work'[t].state = "COMPLETE"
  BY <1>1, <1>2, <1>3 DEF Accepts
<1>5. /\ Len(stream'[t]) = n + 1
      /\ \A a \in 1 .. n : stream'[t][a] = stream[t][a]
      /\ stream'[t][n + 1] = entry
  BY <1>1, <1>3
<1>6. \A a \in 1 .. n : /\ stream[t][a] \in Entry
                        /\ stream[t][a].gen <= g
                        /\ ~stream[t][a].final
  BY <1>1, <1>2 DEF StreamInv, StreamFenced
<1> HIDE DEF n
<1>7. StreamFenced'
  <2> SUFFICES ASSUME NEW u \in Task
               PROVE  (/\ \A a, b \in 1 .. Len(stream[u]) :
                             a <= b => stream[u][a].gen <= stream[u][b].gen
                       /\ \A a \in 1 .. Len(stream[u]) :
                             /\ stream[u][a].gen <= work[u].gen
                             /\ stream[u][a].final =>
                                  /\ a = Len(stream[u])
                                  /\ work[u].state = "COMPLETE")'
    BY DEF StreamFenced
  <2>1. CASE u # t
    BY <1>3, <2>1 DEF StreamInv, StreamFenced
  <2>2. CASE u = t
    <3>1. g \in Nat /\ n \in Nat
      BY <1>1 DEF n
    <3>2. \A a \in 1 .. n + 1 : stream'[t][a].gen <= g
      BY <1>5, <1>6, <3>1
    <3>3. \A a \in 1 .. n + 1 : stream'[t][a].final => a = n + 1 /\ final
      BY <1>5, <1>6, <3>1
    <3>4. \A a, b \in 1 .. n + 1 :
             a <= b => stream'[t][a].gen <= stream'[t][b].gen
      <4> SUFFICES ASSUME NEW a \in 1 .. n + 1, NEW b \in 1 .. n + 1, a <= b
                   PROVE  stream'[t][a].gen <= stream'[t][b].gen
        OBVIOUS
      <4>1. CASE b = n + 1
        BY <1>5, <3>1, <3>2, <4>1
      <4>2. CASE b # n + 1
        <5>1. a \in 1 .. n /\ b \in 1 .. n
          BY <3>1, <4>2
        <5>2. stream[t][a].gen <= stream[t][b].gen
          BY <5>1 DEF StreamInv, StreamFenced, n
        <5> QED BY <1>5, <5>1, <5>2
      <4> QED BY <4>1, <4>2
    <3> QED BY <1>4, <1>5, <2>2, <3>2, <3>3, <3>4
  <2> QED BY <2>1, <2>2
<1>8. InboxMatchesStream'
  <2>0. \A b \in batches : b.task \in Task /\ b.seq \in Nat
    BY DEF StreamInv, TypeOK, BatchRow
  <2>1. \A u \in Task : work'[u].nextSeq = Len(stream'[u])
    BY <1>3, <1>4, <1>5 DEF StreamInv, InboxMatchesStream
  <2>2. /\ batch.task = t /\ batch.seq = n /\ batch.entry = entry
        /\ n \in Nat
    BY <1>1 DEF Accepts, n
  <2>3. \A b \in batches : /\ b.seq < Len(stream'[b.task])
                           /\ b.entry = stream'[b.task][b.seq + 1]
    <3> SUFFICES ASSUME NEW b \in batches
                 PROVE  /\ b.seq < Len(stream'[b.task])
                        /\ b.entry = stream'[b.task][b.seq + 1]
      OBVIOUS
    <3>1. b.seq < Len(stream[b.task]) /\ b.entry = stream[b.task][b.seq + 1]
      BY DEF StreamInv, InboxMatchesStream
    <3>2. CASE b.task = t
      BY <1>5, <2>0, <2>2, <3>1, <3>2 DEF n
    <3>3. CASE b.task # t
      BY <1>3, <2>0, <3>1, <3>3
    <3> QED BY <3>2, <3>3
  <2>4. \A b, c \in batches' : b.task = c.task /\ b.seq = c.seq => b = c
    <3>1. \A b \in batches : ~(b.task = t /\ b.seq = n)
      BY <1>2 DEF Stored
    <3> QED BY <1>3, <2>2, <3>1 DEF StreamInv, InboxMatchesStream
  <2>5. \A b \in batches' : /\ b.seq < Len(stream'[b.task])
                            /\ b.entry = stream'[b.task][b.seq + 1]
    BY <1>3, <1>5, <2>2, <2>3
  <2> QED BY <2>1, <2>4, <2>5 DEF InboxMatchesStream
<1>9. CompactedIsDrained'
  <2>1. ~work[t].compacted
    BY <1>2 DEF StreamInv, CompactedIsDrained
  <2>2. batch.task = t
    BY DEF Accepts
  <2> QED BY <1>3, <1>4, <2>1, <2>2 DEF StreamInv, CompactedIsDrained
<1> QED BY <1>7, <1>8, <1>9 DEF StreamInv

-----------------------------------------------------------------------------

LEMMA StreamInvStep == StreamInv /\ [Next]_vars => StreamInv'
<1> SUFFICES ASSUME StreamInv, [Next]_vars
             PROVE  StreamInv'
  OBVIOUS
<1>0. /\ TypeOK /\ TypeOK'
      /\ \A t \in Task : work[t] \in WorkRow
  BY TypeStep DEF StreamInv, TypeOK
<1>1. ASSUME NEW ts \in SUBSET Task, work' = Released(ts),
             \A t \in ts : work[t].state = "LEASED",
             UNCHANGED <<batches, stream>>
      PROVE  StreamInv'
  <2>1. \A t \in Task : work[t].gen \in Nat
    BY <1>0 DEF WorkRow
  <2>2. \A t \in Task : work'[t] \in {work[t], Unowned(work[t], "PENDING")}
                       /\ (t \notin ts => work'[t] = work[t])
    BY <1>1 DEF Released
  <2>3. \A t \in Task : QuietRow(t)
    BY <1>0, <1>1, <2>1, <2>2, UnownedRow DEF QuietRow
  <2> QED BY <1>0, <1>1, <2>3, UntouchedInbox, QuietStep
<1>2. ASSUME NEW w \in Worker, NEW i \in Instance, Register(w, i)
      PROVE  StreamInv'
  BY <1>1, <1>2 DEF Register, LeasedTo
<1>3. ASSUME NEW w \in Worker, Revoke(w)
      PROVE  StreamInv'
  BY <1>1, <1>3 DEF Revoke, LeasedTo
<1>4. ASSUME NEW t \in Task, NEW row, work' = [work EXCEPT ![t] = row],
             row.gen >= work[t].gen, row.nextSeq = work[t].nextSeq,
             row.compacted = work[t].compacted,
             work[t].state = "COMPLETE" => row.state = "COMPLETE",
             UNCHANGED <<batches, stream>>
      PROVE  StreamInv'
  <2>1. \A u \in Task : QuietRow(u)
    BY <1>0, <1>4, OneRow
  <2> QED BY <1>0, <1>4, <2>1, UntouchedInbox, QuietStep
<1>5. ASSUME NEW t \in Task, NEW d \in RetryDelay, Admit(t, now + d)
      PROVE  StreamInv'
  <2> DEFINE row == [work[t] EXCEPT !.state = "PENDING",
                                    !.notBefore = now + d]
  <2>1. /\ row.gen >= work[t].gen /\ row.nextSeq = work[t].nextSeq
        /\ row.compacted = work[t].compacted
    BY <1>0 DEF WorkRow
  <2>2. work' = [work EXCEPT ![t] = row]
    BY <1>0, <1>5 DEF Admit, TypeOK
  <2> HIDE DEF row
  <2> QED BY <1>4, <1>5, <2>1, <2>2 DEF Admit
<1>6. ASSUME NEW t \in Task, NEW w \in Worker, NEW i \in Instance,
             Claim(t, w, i)
      PROVE  StreamInv'
  <2> DEFINE row == LeasedRow(work[t], w, i)
  <2>1. /\ row.gen >= work[t].gen /\ row.nextSeq = work[t].nextSeq
        /\ row.compacted = work[t].compacted
    BY <1>0 DEF LeasedRow, WorkRow
  <2> HIDE DEF row
  <2> QED BY <1>4, <1>6, <2>1 DEF Claim, Claimable, row
<1>7. ASSUME NEW t \in Task, NEW w \in Worker, NEW i \in Instance,
             NEW g \in 1 .. MaxAttempts, LeaseStep(t, w, i, g)
      PROVE  StreamInv'
  <2>0. work[t] \in WorkRow /\ work[t].gen \in Nat
    BY <1>0 DEF WorkRow
  <2>1. ASSUME NEW expected \in 1 .. work[t].deadline,
               Renew(t, w, i, g, expected)
        PROVE  StreamInv'
    <3> DEFINE row == [work[t] EXCEPT !.deadline = RenewedDeadline(t, expected)]
    <3>1. /\ row.gen >= work[t].gen /\ row.nextSeq = work[t].nextSeq
          /\ row.compacted = work[t].compacted /\ row.state = work[t].state
      BY <2>0 DEF WorkRow
    <3>2. work' = [work EXCEPT ![t] = row]
      BY <1>0, <2>1 DEF Renew, TypeOK
    <3> HIDE DEF row
    <3> QED BY <1>4, <2>1, <3>1, <3>2 DEF Renew
  <2>2. CASE Finish(t, w, i, g)
    <3> DEFINE row == Completed(work[t])
    <3>1. /\ row.gen >= work[t].gen /\ row.nextSeq = work[t].nextSeq
          /\ row.compacted = work[t].compacted /\ row.state = "COMPLETE"
      BY <2>0 DEF Completed, Unowned, WorkRow
    <3>2. work' = [work EXCEPT ![t] = row] /\ UNCHANGED <<batches, stream>>
      BY <2>2 DEF Finish
    <3> HIDE DEF row
    <3> QED BY <1>4, <2>0, <3>1, <3>2
  <2>3. ASSUME NEW retryable \in BOOLEAN, NEW delay \in RetryDelay,
               Fail(t, w, i, g, retryable, delay)
        PROVE  StreamInv'
    <3> DEFINE row == FailedRow(work[t], retryable, delay)
    <3>1. /\ row.gen >= work[t].gen /\ row.nextSeq = work[t].nextSeq
          /\ row.compacted = work[t].compacted
      BY <2>0 DEF FailedRow, Unowned, WorkRow
    <3>2. /\ work' = [work EXCEPT ![t] = row] /\ UNCHANGED <<batches, stream>>
          /\ work[t].state = "LEASED"
      BY <2>3 DEF Fail, Owns
    <3> HIDE DEF row
    <3> QED BY <1>4, <2>0, <3>1, <3>2
  <2> QED
    BY <1>0, <1>7, <2>1, <2>2, <2>3, CommitAccepts, CommitStep DEF LeaseStep
<1>8. ASSUME NEW b \in batches, Consume(b)
      PROVE  StreamInv'
  <2>1. b \in BatchRow
    BY <1>0 DEF TypeOK
  <2>2. SameBatch(b, [b EXCEPT !.consumedAt = now])
    BY <2>1 DEF SameBatch, BatchRow
  <2>3. QuietInbox
    BY <1>8, <2>2, Settled DEF Consume
  <2> QED BY <1>0, <1>8, <2>3, UntouchedWork, QuietStep DEF Consume
<1>9. ASSUME NEW b \in batches, ConsumeFail(b)
      PROVE  StreamInv'
  <2> DEFINE full == b.attempts + 1 >= MaxConsumeAttempts
             c == [b EXCEPT !.attempts = @ + 1, !.quarantined = full]
  <2>1. b \in BatchRow
    BY <1>0 DEF TypeOK
  <2>2. SameBatch(b, c)
    BY <2>1 DEF SameBatch, BatchRow
  <2>3. batches' = Replaced(b, c) /\ Unread(b)
    BY <1>9 DEF ConsumeFail
  <2> HIDE DEF c
  <2>4. QuietInbox
    BY <2>2, <2>3, Settled
  <2> QED BY <1>0, <1>9, <2>4, UntouchedWork, QuietStep DEF ConsumeFail
<1>10. CASE Gc
  <2>1. /\ batches' \subseteq batches /\ stream' = stream
        /\ \A t \in Task :
             /\ work'[t].gen = work[t].gen
             /\ work'[t].nextSeq = work[t].nextSeq
             /\ work'[t].state = work[t].state
             /\ work'[t].compacted => work[t].compacted
                                      \/ Compactable(t, batches')
    BY <1>0, <1>10 DEF Gc, WorkRow
  <2>2. QuietInbox
    BY <2>1 DEF StreamInv, InboxMatchesStream, QuietInbox, SameBatch
  <2>3. InboxMatchesStream'
    BY <2>1, <2>2, QuietMatch
  <2>4. StreamFenced'
    BY <2>1 DEF StreamInv, StreamFenced
  <2>5. CompactedIsDrained'
    BY <2>1 DEF StreamInv, CompactedIsDrained, Compactable
  <2> QED BY <1>0, <2>3, <2>4, <2>5 DEF StreamInv
<1>11. ASSUME UNCHANGED <<work, batches, stream>>
       PROVE  StreamInv'
  BY <1>0, <1>11, UntouchedInbox, UntouchedWork, QuietStep
<1> QED
  BY <1>2, <1>3, <1>5, <1>6, <1>7, <1>8, <1>9, <1>10, <1>11
     DEF Next, Tick, vars

LEMMA StreamInvInit == Init => StreamInv
<1> SUFFICES ASSUME Init PROVE StreamInv
  OBVIOUS
<1>1. TypeOK
  BY AuthorityAssumption
     DEF Init, TypeOK, WorkRow, WorkState, BatchRow, Entry, NULL
<1>2. \A t \in Task : /\ stream[t] = << >> /\ Len(stream[t]) = 0
                      /\ work[t].nextSeq = 0 /\ ~work[t].compacted
  BY DEF Init
<1>3. batches = {}
  BY DEF Init
<1> QED BY <1>1, <1>2, <1>3
           DEF StreamInv, StreamFenced, InboxMatchesStream, CompactedIsDrained

\* The batches accepted for a task never go back to an earlier generation and
\* end with the final one; the rows are those batches, one for a number; a
\* compacted task has nothing left to read.
THEOREM InboxKept ==
    Spec => [](StreamFenced /\ InboxMatchesStream /\ CompactedIsDrained)
<1>1. StreamInv => StreamFenced /\ InboxMatchesStream /\ CompactedIsDrained
  BY DEF StreamInv
<1> QED BY <1>1, StreamInvInit, StreamInvStep, PTL DEF Spec

\* Each promise alone.  First: a generation that was superseded is shut out
\* of the stream, and nothing follows the final batch.
THEOREM StreamKeptFenced == Spec => []StreamFenced
BY InboxKept, PTL

\* A compacted task is complete and has no batch left to read: no bridge
\* will ever need the payload that the collector threw away.
THEOREM CompactedKeptDrained == Spec => []CompactedIsDrained
BY InboxKept, PTL

\* A batch that is to be read is in the inbox after the step.
LEMMA UnreadStep ==
    ASSUME TypeOK, [Next]_vars, NEW b \in batches, Unread(b)
    PROVE  \E c \in batches' : SameBatch(b, c)
<1>1. ASSUME NEW d \in batches, NEW c, SameBatch(d, c),
             batches' = Replaced(d, c)
      PROVE  \E e \in batches' : SameBatch(b, e)
  <2>1. CASE b = d
    BY <1>1, <2>1 DEF Replaced
  <2>2. CASE b # d
    BY <1>1, <2>2 DEF Replaced, SameBatch
  <2> QED BY <2>1, <2>2
<1>2. ASSUME NEW d \in batches, Consume(d)
      PROVE  \E e \in batches' : SameBatch(b, e)
  <2>1. SameBatch(d, [d EXCEPT !.consumedAt = now])
    BY DEF SameBatch, TypeOK, BatchRow
  <2> QED BY <1>1, <1>2, <2>1 DEF Consume
<1>3. ASSUME NEW d \in batches, ConsumeFail(d)
      PROVE  \E e \in batches' : SameBatch(b, e)
  <2> DEFINE full == d.attempts + 1 >= MaxConsumeAttempts
             c == [d EXCEPT !.attempts = @ + 1, !.quarantined = full]
  <2>1. SameBatch(d, c)
    BY DEF SameBatch, TypeOK, BatchRow
  <2>2. batches' = Replaced(d, c)
    BY <1>3 DEF ConsumeFail
  <2> HIDE DEF c
  <2> QED BY <1>1, <2>1, <2>2
<1>4. CASE Gc
  BY <1>4 DEF Gc, Expendable, Unread, SameBatch
<1>5. ASSUME NEW t \in Task, NEW w \in Worker, NEW i \in Instance,
             NEW g \in 1 .. MaxAttempts, LeaseStep(t, w, i, g)
      PROVE  b \in batches'
  BY <1>5 DEF LeaseStep, Renew, Finish, Fail, Commit
<1>6. CASE UNCHANGED batches
  BY <1>6 DEF SameBatch
<1> QED
  BY <1>2, <1>3, <1>4, <1>5, <1>6
     DEF Next, Register, Revoke, Admit, Claim, Tick, vars, SameBatch

\* No step removes a batch that no reader has settled.
THEOREM UnreadKept == Spec => UnreadIsKept
<1> DEFINE A == \A b \in batches :
                   Unread(b) => \E c \in batches' : /\ c.task = b.task
                                                   /\ c.seq = b.seq
                                                   /\ c.entry = b.entry
<1>1. TypeOK /\ [Next]_vars => A
  BY UnreadStep DEF SameBatch
<1> HIDE DEF A
<1>2. Spec => [][A]_vars
  BY <1>1, TypeCorrect, PTL DEF Spec
<1> QED BY <1>2 DEF A, UnreadIsKept

\* No step reopens a task that is COMPLETE or DEAD, or adds to its stream.
THEOREM TerminalFinal == Spec => TerminalIsFinal
<1> DEFINE A == \A t \in Task :
                   work[t].state \in {"COMPLETE", "DEAD"}
                   => work'[t].state = work[t].state /\ stream'[t] = stream[t]
<1>1. TypeOK /\ [Next]_vars => A
  <2> SUFFICES ASSUME TypeOK, [Next]_vars, NEW t \in Task,
                      work[t].state \in {"COMPLETE", "DEAD"}
               PROVE  work'[t].state = work[t].state /\ stream'[t] = stream[t]
    OBVIOUS
  <2>0. work[t] \in WorkRow
    BY DEF TypeOK
  <2>1. ASSUME NEW ts \in SUBSET Task, work' = Released(ts), t \notin ts
        PROVE  work'[t] = work[t]
    BY <2>1 DEF Released
  <2>2. ASSUME NEW w \in Worker, NEW i \in Instance, Register(w, i)
        PROVE  work'[t] = work[t] /\ stream' = stream
    BY <2>1, <2>2 DEF Register, LeasedTo
  <2>3. ASSUME NEW w \in Worker, Revoke(w)
        PROVE  work'[t] = work[t] /\ stream' = stream
    BY <2>1, <2>3 DEF Revoke, LeasedTo
  <2>4. ASSUME NEW u \in Task, NEW d \in RetryDelay, Admit(u, now + d)
        PROVE  work'[t] = work[t] /\ stream' = stream
    BY <2>4 DEF Admit, TypeOK
  <2>5. ASSUME NEW u \in Task, NEW w \in Worker, NEW i \in Instance,
               Claim(u, w, i)
        PROVE  work'[t] = work[t] /\ stream' = stream
    BY <2>5 DEF Claim, Claimable, TypeOK
  <2>6. ASSUME NEW u \in Task, NEW w \in Worker, NEW i \in Instance,
               NEW g \in 1 .. MaxAttempts, LeaseStep(u, w, i, g)
        PROVE  work'[t] = work[t] /\ stream'[t] = stream[t]
    <3>1. CASE u = t
      BY <2>6, <3>1 DEF LeaseStep, Renew, RenewAccepted, Finish, Fail, Commit,
                        CommitVerdict, Owns
    <3>2. CASE u # t
      BY <2>6, <3>2 DEF LeaseStep, Renew, Finish, Fail, Commit, TypeOK
    <3> QED BY <3>1, <3>2
  <2>7. CASE Gc
    BY <2>0, <2>7 DEF Gc, WorkRow
  <2>8. CASE UNCHANGED <<work, stream>>
    BY <2>8
  <2> QED
    BY <2>2, <2>3, <2>4, <2>5, <2>6, <2>7, <2>8
       DEF Next, Consume, ConsumeFail, Tick, vars
<1> HIDE DEF A
<1>2. Spec => [][A]_vars
  BY <1>1, TypeCorrect, PTL DEF Spec
<1> QED BY <1>2 DEF A, TerminalIsFinal

-----------------------------------------------------------------------------
(* The authority store implements ResultInbox.                             *)

Terminal == {"COMPLETE", "DEAD"}

\* No row becomes terminal and none is reopened.
SameClosing ==
    \A t \in Task : work'[t].state \in Terminal <=> work[t].state \in Terminal

LEMMA ClosedUnchanged ==
    ASSUME SameClosing
    PROVE  closedTasks' = closedTasks
BY DEF SameClosing, Terminal, closedTasks

LEMMA UnreadUnchanged ==
    ASSUME batches' = batches
    PROVE  unreadPositions' = unreadPositions
BY DEF unreadPositions, Unread

\* A row of one task is rewritten and keeps out of the terminal states.
LEMMA RowStaysOpen ==
    ASSUME TypeOK, NEW t \in Task, NEW row, work' = [work EXCEPT ![t] = row],
           row.state \notin Terminal, work[t].state \notin Terminal
    PROVE  SameClosing
BY DEF SameClosing, TypeOK

\* A row of one task ends.
LEMMA RowCloses ==
    ASSUME TypeOK, NEW t \in Task, NEW row, work' = [work EXCEPT ![t] = row],
           row.state \in Terminal, work[t].state \notin Terminal,
           UNCHANGED <<batches, stream>>
    PROVE  Inbox!Close(t)
<1>1. t \notin closedTasks
  BY DEF closedTasks, Terminal
<1>2. /\ work'[t].state \in Terminal
      /\ \A u \in Task \ {t} : work'[u] = work[u]
  BY DEF TypeOK
<1>3. closedTasks' = closedTasks \cup {t}
  BY <1>2 DEF closedTasks, Terminal
<1> QED BY <1>1, <1>3, UnreadUnchanged DEF Inbox!Close

\* The row of a batch is rewritten and is not to be read any more.
LEMMA RowSettles ==
    ASSUME StreamInv, NEW b \in batches, NEW c, Unread(b), ~Unread(c),
           SameBatch(b, c), batches' = Replaced(b, c),
           UNCHANGED <<work, stream>>
    PROVE  Inbox!Settle(<<b.task, b.seq>>) /\ <<b.task, b.seq>> \in unreadPositions
<1>1. <<b.task, b.seq>> \in unreadPositions
  BY DEF unreadPositions
<1>2. \A d \in batches : d # b => <<d.task, d.seq>> # <<b.task, b.seq>>
  BY DEF StreamInv, InboxMatchesStream
<1>3. {d \in batches' : Unread(d)} = {d \in batches : Unread(d)} \ {b}
  BY DEF Replaced
<1>4. unreadPositions' = {<<d.task, d.seq>> : d \in {e \in batches' : Unread(e)}}
  BY DEF unreadPositions, Unread
<1>5. unreadPositions' = unreadPositions \ {<<b.task, b.seq>>}
  BY <1>2, <1>3, <1>4 DEF unreadPositions
<1>6. closedTasks' = closedTasks
  BY DEF closedTasks
<1> QED BY <1>1, <1>5, <1>6 DEF Inbox!Settle

\* The row of a batch is rewritten and is still to be read.
LEMMA RowStaysUnread ==
    ASSUME StreamInv, NEW b \in batches, NEW c, Unread(b), Unread(c),
           SameBatch(b, c), batches' = Replaced(b, c)
    PROVE  unreadPositions' = unreadPositions
<1>1. unreadPositions' = {<<d.task, d.seq>> : d \in {e \in batches' : Unread(e)}}
  BY DEF unreadPositions, Unread
<1>2. {d \in batches' : Unread(d)}
        = ({d \in batches : Unread(d)} \ {b}) \cup {c}
  BY DEF Replaced
<1>3. <<c.task, c.seq>> = <<b.task, b.seq>>
  BY DEF SameBatch
<1> QED BY <1>1, <1>2, <1>3 DEF unreadPositions

LEMMA AcceptsNext ==
    ASSUME StreamInv, NEW t \in Task, NEW entry \in Inbox!Entry,
           NEW row \in WorkRow, NEW batch \in BatchRow,
           Accepts(t, entry, row, batch)
    PROVE  Inbox!Next
<1> DEFINE n == Len(stream[t])
<1>1. work[t] \in WorkRow /\ work[t].nextSeq = n
  BY DEF StreamInv, TypeOK, InboxMatchesStream
<1>2. work[t].state = "LEASED" /\ work[t].gen = entry.gen
  BY DEF Accepts
<1>3. /\ work' = [work EXCEPT ![t] = row]
      /\ stream' = [stream EXCEPT ![t] = Append(@, entry)]
      /\ batches' = batches \cup {batch}
  BY DEF Accepts
<1>4. t \notin closedTasks
  BY <1>2 DEF closedTasks
<1>5. Inbox!Fresh(t, entry)
  BY <1>2 DEF Inbox!Fresh, StreamInv, StreamFenced
<1>6. unreadPositions' = unreadPositions \cup {<<t, n>>}
  <2>1. Unread(batch) /\ batch.task = t /\ batch.seq = n
    BY <1>1 DEF Accepts
  <2>2. unreadPositions'
          = {<<d.task, d.seq>> : d \in {e \in batches' : Unread(e)}}
    BY DEF unreadPositions, Unread
  <2>3. {e \in batches' : Unread(e)} = {e \in batches : Unread(e)} \cup {batch}
    BY <1>3, <2>1
  <2> QED BY <2>1, <2>2, <2>3 DEF unreadPositions
<1>7. closedTasks' = IF entry.final THEN closedTasks \cup {t} ELSE closedTasks
  <2>1. /\ work'[t] = row
        /\ \A u \in Task \ {t} : work'[u] = work[u]
    BY <1>3 DEF StreamInv, TypeOK
  <2>2. work'[t].state = IF entry.final THEN "COMPLETE" ELSE "LEASED"
    BY <2>1 DEF Accepts
  <2> QED BY <1>2, <2>1, <2>2 DEF closedTasks, Inbox!Entry
<1> HIDE DEF n
<1>8. Inbox!Accept(t, entry)
  BY <1>3, <1>4, <1>5, <1>6, <1>7 DEF Inbox!Accept, n
<1> QED BY <1>8 DEF Inbox!Next

-----------------------------------------------------------------------------

LEMMA StepImplements == StreamInv /\ [Next]_vars => [Inbox!Next]_(Inbox!vars)
<1> SUFFICES ASSUME StreamInv, [Next]_vars
             PROVE  Inbox!Next \/ UNCHANGED Inbox!vars
  OBVIOUS
<1>0. TypeOK /\ \A t \in Task : work[t] \in WorkRow
  BY DEF StreamInv, TypeOK
<1>1. ASSUME SameClosing, UNCHANGED <<batches, stream>>
      PROVE  UNCHANGED Inbox!vars
  BY <1>1, ClosedUnchanged, UnreadUnchanged DEF Inbox!vars
<1>2. ASSUME NEW ts \in SUBSET Task, work' = Released(ts),
             \A t \in ts : work[t].state = "LEASED"
      PROVE  SameClosing
  <2>1. \A t \in ts : Unowned(work[t], "PENDING").state = "PENDING"
    BY <1>0, UnownedRow
  <2> QED BY <1>2, <2>1 DEF Released, SameClosing, Terminal
<1>3. ASSUME NEW w \in Worker, NEW i \in Instance, Register(w, i)
      PROVE  UNCHANGED Inbox!vars
  BY <1>1, <1>2, <1>3 DEF Register, LeasedTo
<1>4. ASSUME NEW w \in Worker, Revoke(w)
      PROVE  UNCHANGED Inbox!vars
  BY <1>1, <1>2, <1>4 DEF Revoke, LeasedTo
<1>5. ASSUME NEW t \in Task, NEW d \in RetryDelay, Admit(t, now + d)
      PROVE  UNCHANGED Inbox!vars
  <2> DEFINE row == [work[t] EXCEPT !.state = "PENDING",
                                    !.notBefore = now + d]
  <2>1. work' = [work EXCEPT ![t] = row]
    BY <1>0, <1>5 DEF Admit, TypeOK
  <2>2. row.state \notin Terminal /\ work[t].state \notin Terminal
    BY <1>0, <1>5 DEF Admit, Terminal, WorkRow
  <2> HIDE DEF row
  <2> QED BY <1>0, <1>1, <1>5, <2>1, <2>2, RowStaysOpen DEF Admit
<1>6. ASSUME NEW t \in Task, NEW w \in Worker, NEW i \in Instance,
             Claim(t, w, i)
      PROVE  UNCHANGED Inbox!vars
  <2> DEFINE row == LeasedRow(work[t], w, i)
  <2>1. row.state \notin Terminal /\ work[t].state \notin Terminal
    BY <1>0, <1>6 DEF Claim, Claimable, LeasedRow, Terminal, WorkRow
  <2>2. work' = [work EXCEPT ![t] = row]
    BY <1>6 DEF Claim
  <2> HIDE DEF row
  <2> QED BY <1>0, <1>1, <1>6, <2>1, <2>2, RowStaysOpen DEF Claim
<1>7. ASSUME NEW t \in Task, NEW w \in Worker, NEW i \in Instance,
             NEW g \in 1 .. MaxAttempts, LeaseStep(t, w, i, g)
      PROVE  Inbox!Next \/ UNCHANGED Inbox!vars
  <2>1. ASSUME NEW expected \in 1 .. work[t].deadline,
               Renew(t, w, i, g, expected)
        PROVE  UNCHANGED Inbox!vars
    <3> DEFINE row == [work[t] EXCEPT !.deadline = RenewedDeadline(t, expected)]
    <3>1. row.state \notin Terminal /\ work[t].state \notin Terminal
      BY <1>0, <2>1 DEF Renew, RenewAccepted, Owns, Terminal, WorkRow
    <3>2. work' = [work EXCEPT ![t] = row]
      BY <1>0, <2>1 DEF Renew, TypeOK
    <3> HIDE DEF row
    <3> QED BY <1>0, <1>1, <2>1, <3>1, <3>2, RowStaysOpen DEF Renew
  <2>2. CASE Finish(t, w, i, g)
    <3> DEFINE row == Completed(work[t])
    <3>1. row.state \in Terminal /\ work[t].state \notin Terminal
      BY <1>0, <2>2 DEF Finish, Owns, Completed, Unowned, Terminal, WorkRow
    <3>2. work' = [work EXCEPT ![t] = row] /\ UNCHANGED <<batches, stream>>
      BY <2>2 DEF Finish
    <3> HIDE DEF row
    <3> QED BY <1>0, <3>1, <3>2, RowCloses DEF Inbox!Next
  <2>3. ASSUME NEW retryable \in BOOLEAN, NEW delay \in RetryDelay,
               Fail(t, w, i, g, retryable, delay)
        PROVE  Inbox!Next \/ UNCHANGED Inbox!vars
    <3> DEFINE row == FailedRow(work[t], retryable, delay)
    <3>1. row.state \in {"RETRY", "DEAD"}
      BY <1>0 DEF FailedRow, Unowned, WorkRow
    <3>2. /\ work' = [work EXCEPT ![t] = row] /\ UNCHANGED <<batches, stream>>
          /\ work[t].state \notin Terminal
      BY <2>3 DEF Fail, Owns, Terminal
    <3> HIDE DEF row
    <3>3. CASE row.state = "DEAD"
      <4>1. row.state \in Terminal
        BY <3>3 DEF Terminal
      <4> QED BY <1>0, <3>2, <4>1, RowCloses DEF Inbox!Next
    <3>4. CASE row.state = "RETRY"
      <4>1. row.state \notin Terminal
        BY <3>4 DEF Terminal
      <4> QED BY <1>0, <1>1, <3>2, <4>1, RowStaysOpen
    <3> QED BY <3>1, <3>3, <3>4
  <2> QED
    BY <1>0, <1>7, <2>1, <2>2, <2>3, CommitAccepts, AcceptsNext DEF LeaseStep
<1>8. ASSUME NEW b \in batches, Consume(b)
      PROVE  Inbox!Next
  <2> DEFINE c == [b EXCEPT !.consumedAt = now]
  <2>1. b \in BatchRow /\ now \in Nat \ {0}
    BY <1>0 DEF TypeOK
  <2>2. SameBatch(b, c) /\ ~Unread(c)
    BY <2>1 DEF SameBatch, BatchRow, Unread, NULL
  <2>3. batches' = Replaced(b, c) /\ Unread(b) /\ UNCHANGED <<work, stream>>
    BY <1>8 DEF Consume
  <2> HIDE DEF c
  <2> QED BY <2>2, <2>3, RowSettles DEF Inbox!Next
<1>9. ASSUME NEW b \in batches, ConsumeFail(b)
      PROVE  Inbox!Next \/ UNCHANGED Inbox!vars
  <2> DEFINE full == b.attempts + 1 >= MaxConsumeAttempts
             c == [b EXCEPT !.attempts = @ + 1, !.quarantined = full]
  <2>1. b \in BatchRow
    BY <1>0 DEF TypeOK
  <2>2. SameBatch(b, c)
    BY <2>1 DEF SameBatch, BatchRow
  <2>3. batches' = Replaced(b, c) /\ Unread(b) /\ UNCHANGED <<work, stream>>
    BY <1>9 DEF ConsumeFail
  <2> HIDE DEF c
  <2>4. CASE Unread(c)
    <3>1. unreadPositions' = unreadPositions
      BY <2>2, <2>3, <2>4, RowStaysUnread
    <3> QED BY <2>3, <3>1 DEF Inbox!vars, closedTasks
  <2>5. CASE ~Unread(c)
    BY <2>2, <2>3, <2>5, RowSettles DEF Inbox!Next
  <2> QED BY <2>4, <2>5
<1>10. CASE Gc
  <2>1. /\ stream' = stream
        /\ \A t \in Task : work'[t].state = work[t].state
    BY <1>0, <1>10 DEF Gc, WorkRow
  <2>2. closedTasks' = closedTasks
    BY <2>1 DEF closedTasks
  <2>3. {b \in batches' : Unread(b)} = {b \in batches : Unread(b)}
    BY <1>10 DEF Gc, Expendable, Unread
  <2>4. unreadPositions'
          = {<<b.task, b.seq>> : b \in {c \in batches' : Unread(c)}}
    BY DEF unreadPositions, Unread
  <2>5. unreadPositions' = unreadPositions
    BY <2>3, <2>4 DEF unreadPositions
  <2> QED BY <2>1, <2>2, <2>5 DEF Inbox!vars
<1>11. ASSUME UNCHANGED <<work, batches, stream>>
       PROVE  UNCHANGED Inbox!vars
  BY <1>1, <1>11 DEF SameClosing
<1> QED
  BY <1>3, <1>4, <1>5, <1>6, <1>7, <1>8, <1>9, <1>10, <1>11
     DEF Next, Tick, vars

\* Whatever the workers, the readers and the collector do, the readers see
\* the abstract inbox: one fenced stream for a task, each position settled
\* once, and nothing after the end.
THEOREM InboxImplemented == Spec => ImplementsInbox
<1>1. Init => Inbox!Init
  BY DEF Init, Inbox!Init, unreadPositions, closedTasks
<1>2. TypeOK /\ StreamFenced /\ InboxMatchesStream /\ CompactedIsDrained
      => StreamInv
  BY DEF StreamInv
<1> QED
  BY <1>1, <1>2, StepImplements, TypeCorrect, InboxKept, PTL
     DEF Spec, ImplementsInbox, Inbox!Spec
=============================================================================
