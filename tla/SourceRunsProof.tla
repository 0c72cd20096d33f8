--------------------------- MODULE SourceRunsProof ---------------------------
(***************************************************************************)
(* The safety of source runs, for any number of leases and producers.      *)
(* RunsInv is inductive.  FinalRunSettled needs what the readiness service *)
(* has seen of the run it looks at (ReaderInv), because it closes a run on *)
(* answers that may be several steps old; they stay true because of        *)
(* Steady.  ExposureMovesForward needs ProducerInv: a producer begins an   *)
(* exposure only for a lease that never had one.                           *)
(***************************************************************************)
EXTENDS SourceRuns, FiniteSetTheorems, TLAPS

Holding == {"begin", "register", "work", "progress", "finalize", "abort"}
Begun == {"work", "progress", "finalize", "abort"}

ProducerOk(p) ==
    /\ Own(p) # NoLease => leases[Own(p)] # "none"
    /\ producers[p].pc \in Holding => Own(p) # NoLease
    /\ At(p, "begin") => exposures[Own(p)] = "none"
    /\ At(p, "begin") \/ At(p, "register") => ~runs[Own(p)].stored
    /\ producers[p].pc \in Begun => runs[Own(p)].stored
    /\ \A l \in producers[p].list : leases[l] \in LeaseLost /\ runs[l].stored
    /\ At(p, "dropRow") =>
          LET l == producers[p].run IN
          l # NoLease /\ leases[l] \in LeaseLost /\ runs[l].stored

ProducerInv ==
    /\ \A l \in Lease : leases[l] = "none" => exposures[l] = "none" /\ ~runs[l].stored
    /\ \A p \in Producer : ProducerOk(p)
    /\ \A p, q \in Producer : Own(p) = Own(q) /\ Own(p) # NoLease => p = q

LookedAt == {"lease", "queued", "staged", "validate", "progress", "check", "finalize", "close"}
Passed == {"check", "finalize", "close"}

ListInv == \A l \in reader.todo : runs[l].stored
LookInv == reader.pc \in LookedAt => Current # NoLease /\ runs[Current].stored
EndedInv == reader.ended => reader.pc \in LookedAt /\ leases[Current] \in LeaseEnded
PassedInv == reader.pc \in Passed => reader.ended
CloseInv == Reading("close") => exposures[Current] = "FINAL_CLOSED"

ReaderInv == ListInv /\ LookInv /\ EndedInv /\ PassedInv /\ CloseInv

RunsInv == TypeOK /\ ProducerInv /\ ReaderInv /\ FinalRunSettled

-----------------------------------------------------------------------------
(* The sequence of a proof never exceeds the number of leases.             *)

LEMMA LatestBounded ==
    ASSUME TypeOK
    PROVE  /\ Latest \in 0 .. Cardinality(Lease)
           /\ \A l \in Lease : proofs[l] = 0 => Latest + 1 \in 1 .. Cardinality(Lease)
<1> DEFINE P == {l \in Lease : proofs[l] > 0}
<1> USE RunsAssumption
<1>1. P \subseteq Lease /\ IsFiniteSet(P) /\ Cardinality(P) \in Nat /\ Cardinality(Lease) \in Nat
      /\ Cardinality(P) =< Cardinality(Lease)
  BY FS_Subset, FS_CardinalityType
<1>2. ASSUME NEW l \in Lease, proofs[l] = 0
      PROVE  Cardinality(P) < Cardinality(Lease)
  <2>1. l \notin P
    BY <1>2
  <2>2. P # Lease
    BY <2>1
  <2> QED
    BY <1>1, <2>2, FS_Subset
<1> QED
  BY <1>1, <1>2 DEF Latest

-----------------------------------------------------------------------------
(* What no step undoes, whoever takes it.                                  *)

Steady(l) ==
    /\ leases[l] \in LeaseEnded => leases'[l] = leases[l]
    /\ leases[l] # "none" => leases'[l] # "none"
    /\ runs[l].stored => runs'[l].stored
    /\ exposures[l] \in ExposureTerminal => exposures'[l] = exposures[l]
    /\ exposures[l] # "none" => exposures'[l] # "none"
    /\ Order(exposures[l]) =< Order(exposures'[l])
    /\ runs[l].stored /\ runs[l].read => runs'[l].read

-----------------------------------------------------------------------------
(* Types, one column at a time.                                            *)

ReaderPc == {"sync", "list", "next", "lease", "queued", "staged", "validate",
             "progress", "check", "finalize", "close"}
ProducerPc == {"idle", "exposures", "sweep", "drop", "dropRow", "begin",
               "register", "work", "progress", "finalize", "abort"}

LEMMA ReaderMoves ==
    ASSUME NEW r \in ReaderState, NEW pc \in ReaderPc, NEW b \in BOOLEAN
    PROVE  /\ [r EXCEPT !.pc = pc] \in ReaderState
           /\ \A s \in SUBSET Lease : [r EXCEPT !.pc = pc, !.todo = s] \in ReaderState
           /\ \A s \in SUBSET Lease, l \in Lease, f \in 0 .. Cardinality(Lease) :
                 [r EXCEPT !.pc = pc, !.todo = s, !.lease = l, !.frontier = f] \in ReaderState
           /\ [r EXCEPT !.pc = pc, !.ended = b] \in ReaderState
           /\ [r EXCEPT !.pc = pc, !.open = b] \in ReaderState
           /\ [Syncing EXCEPT !.pc = pc, !.todo = r.todo] \in ReaderState
           /\ Syncing \in ReaderState
<1>1. Cardinality(Lease) \in Nat
  BY RunsAssumption, FS_CardinalityType
<1>2. /\ [r EXCEPT !.pc = pc] \in ReaderState
      /\ \A s \in SUBSET Lease : [r EXCEPT !.pc = pc, !.todo = s] \in ReaderState
      /\ \A s \in SUBSET Lease, l \in Lease, f \in 0 .. Cardinality(Lease) :
            [r EXCEPT !.pc = pc, !.todo = s, !.lease = l, !.frontier = f] \in ReaderState
  BY DEF ReaderState, ReaderPc
<1>3. [r EXCEPT !.pc = pc, !.ended = b] \in ReaderState
  BY DEF ReaderState, ReaderPc
<1>4. [r EXCEPT !.pc = pc, !.open = b] \in ReaderState
  BY DEF ReaderState, ReaderPc
<1>5. Syncing \in ReaderState
  BY <1>1 DEF ReaderState, Syncing
<1>6. /\ r.todo \in SUBSET Lease
      /\ \A q \in ReaderState, s \in SUBSET Lease : [q EXCEPT !.pc = pc, !.todo = s] \in ReaderState
  BY DEF ReaderState, ReaderPc
<1> QED
  BY <1>2, <1>3, <1>4, <1>5, <1>6

LEMMA ProducerMoves ==
    ASSUME NEW s \in ProducerState, NEW pc \in ProducerPc
    PROVE  /\ [s EXCEPT !.pc = pc] \in ProducerState
           /\ [s EXCEPT !.pc = pc, !.run = NoLease] \in ProducerState
           /\ \A l \in Lease : [s EXCEPT !.pc = pc, !.lease = l] \in ProducerState
           /\ \A ls \in SUBSET Lease :
                 /\ [s EXCEPT !.pc = pc, !.list = ls] \in ProducerState
                 /\ [s EXCEPT !.list = ls] \in ProducerState
                 /\ \A l \in Lease : [s EXCEPT !.pc = pc, !.list = ls, !.run = l] \in ProducerState
           /\ Idle \in ProducerState
BY DEF ProducerState, ProducerPc, Idle

\* What may be written into a row of source_run_outcomes.
LEMMA RunMoves ==
    ASSUME NEW r \in Run \cup {NoRun}, r.stored, NEW b \in BOOLEAN
    PROVE  /\ r \in Run
           /\ \A e \in LeaseLost : [r EXCEPT !.terminal = e] \in Run
           /\ [r EXCEPT !.read = TRUE] \in Run
           /\ \A f \in 0 .. Cardinality(Lease) :
                 [r EXCEPT !.valid = b, !.frontier = f] \in Run
           /\ [r EXCEPT !.closed = b] \in Run
<1>1. r \in Run
  BY DEF NoRun
<1>2. /\ \A e \in LeaseLost : [r EXCEPT !.terminal = e] \in Run
      /\ [r EXCEPT !.read = TRUE] \in Run
  BY <1>1 DEF Run
<1>3. \A f \in 0 .. Cardinality(Lease) : [r EXCEPT !.valid = b, !.frontier = f] \in Run
  BY <1>1 DEF Run
<1>4. [r EXCEPT !.closed = b] \in Run
  BY <1>1 DEF Run
<1> QED
  BY <1>1, <1>2, <1>3, <1>4

LEMMA TypeStep == RunsInv /\ Next => TypeOK'
<1> SUFFICES ASSUME RunsInv, Next
             PROVE  TypeOK'
  OBVIOUS
<1> USE RunsAssumption
<1>0. TypeOK /\ ProducerInv /\ ReaderInv
  BY DEF RunsInv
<1>1. /\ leases \in [Lease -> {"none", "RUNNING"} \cup LeaseEnded]
      /\ exposures \in [Lease -> {"none"} \cup Phase \cup ExposureTerminal]
      /\ runs \in [Lease -> Run \cup {NoRun}]
      /\ producers \in [Producer -> ProducerState]
      /\ reader \in ReaderState
  BY <1>0 DEF TypeOK
<1>2. LeaseLost \subseteq LeaseEnded /\ LeaseLost \subseteq ExposureTerminal
  BY DEF LeaseLost, LeaseEnded, ExposureTerminal
<1>3. ASSUME NEW p \in Producer, ProducerStep(p) \/ RunFails(p) \/ Crash(p)
      PROVE  TypeOK'
  <2>0. /\ producers[p] \in ProducerState
        /\ producers[p].list \in SUBSET Lease
        /\ Own(p) \in Lease \cup {NoLease}
        /\ producers[p].run \in Lease \cup {NoLease}
        /\ \A s \in ProducerState : [producers EXCEPT ![p] = s] \in [Producer -> ProducerState]
    BY <1>1 DEF ProducerState, Own
  <2>1. ASSUME NEW pc \in ProducerPc, Goto(p, pc)
        PROVE  producers' \in [Producer -> ProducerState]
    <3>1. [producers[p] EXCEPT !.pc = pc] \in ProducerState
      BY <2>0, ProducerMoves
    <3> QED BY <1>1, <2>1, <2>0, <3>1 DEF Goto
  <2>2. CASE RecoverLeases(p)
    <3>1. leases' \in [Lease -> {"none", "RUNNING"} \cup LeaseEnded]
      BY <2>2, <1>1 DEF RecoverLeases, Expired, LeaseEnded
    <3>2. producers' \in [Producer -> ProducerState]
      BY <2>1, <2>2 DEF RecoverLeases, ProducerPc
    <3> QED BY <1>0, <2>2, <3>1, <3>2 DEF TypeOK, RecoverLeases, evidence
  <2>3. CASE RecoverExposures(p)
    <3>1. exposures' \in [Lease -> {"none"} \cup Phase \cup ExposureTerminal]
      BY <2>3, <1>1, <1>2 DEF RecoverExposures
    <3>2. producers' \in [Producer -> ProducerState]
      BY <2>1, <2>3 DEF RecoverExposures, ProducerPc
    <3> QED BY <1>0, <2>3, <3>1, <3>2 DEF TypeOK, RecoverExposures, evidence
  <2>4. CASE Sweep(p)
    <3>1. {l \in Lease : Lost(l)} \in SUBSET Lease
      OBVIOUS
    <3>2. [producers[p] EXCEPT !.pc = "drop", !.list = {l \in Lease : Lost(l)}] \in ProducerState
      BY <2>0, <3>1, ProducerMoves DEF ProducerPc
    <3>3. producers' \in [Producer -> ProducerState]
      BY <1>1, <2>4, <2>0, <3>2 DEF Sweep
    <3> QED BY <1>0, <2>4, <3>3 DEF TypeOK, Sweep, evidence
  <2>5. CASE Drop(p)
    <3>1. PICK l \in producers[p].list :
             IF runs[l].terminal = "none"
             THEN /\ DropExposure(l, leases[l])
                  /\ producers' = [producers EXCEPT
                        ![p].pc = "dropRow", ![p].list = @ \ {l}, ![p].run = l]
             ELSE /\ IF Own(p) = NoLease
                     THEN producers' = [producers EXCEPT ![p].list = @ \ {l}]
                     ELSE producers' = [producers EXCEPT ![p] = Idle]
                  /\ UNCHANGED exposures
      BY <2>5 DEF Drop
    <3>2. l \in Lease /\ leases[l] \in LeaseLost /\ producers[p].list \ {l} \in SUBSET Lease
      BY <1>0, <2>0, <3>1 DEF ProducerInv, ProducerOk
    <3>3. exposures' \in [Lease -> {"none"} \cup Phase \cup ExposureTerminal]
      BY <1>1, <1>2, <3>1, <3>2 DEF DropExposure
    <3>4. /\ [producers[p] EXCEPT !.pc = "dropRow", !.list = producers[p].list \ {l}, !.run = l]
                \in ProducerState
          /\ [producers[p] EXCEPT !.list = producers[p].list \ {l}] \in ProducerState
          /\ Idle \in ProducerState
      BY <2>0, <3>2, ProducerMoves DEF ProducerPc
    <3>5. producers' \in [Producer -> ProducerState]
      <4>1. CASE runs[l].terminal = "none"
        BY <1>1, <2>0, <3>1, <3>4, <4>1
      <4>2. CASE runs[l].terminal # "none" /\ Own(p) = NoLease
        <5>1. producers' = [producers EXCEPT ![p].list = producers[p].list \ {l}]
          BY <3>1, <4>2
        <5> QED BY <1>1, <2>0, <3>4, <5>1
      <4>3. CASE runs[l].terminal # "none" /\ Own(p) # NoLease
        BY <1>1, <2>0, <3>1, <3>4, <4>3
      <4> QED BY <4>1, <4>2, <4>3
    <3> QED BY <1>0, <2>5, <3>3, <3>5 DEF TypeOK, Drop, evidence
  <2>6. CASE DropRow(p)
    <3> DEFINE l == producers[p].run
    <3>1. l \in Lease /\ leases[l] \in LeaseLost /\ runs[l].stored
      BY <1>0, <2>0, <2>6 DEF ProducerInv, ProducerOk, DropRow
    <3>2. /\ [runs[l] EXCEPT !.terminal = leases[l]] \in Run /\ runs[l] \in Run
          /\ [runs[l] EXCEPT !.terminal = runs[l].terminal] \in Run
      <4>1. runs[l] \in Run /\ [runs[l] EXCEPT !.terminal = leases[l]] \in Run
        BY <1>1, <3>1, RunMoves
      <4> QED BY <4>1 DEF Run
    <3>3. runs' \in [Lease -> Run \cup {NoRun}]
      BY <1>1, <2>6, <3>1, <3>2 DEF DropRow
    <3>4. /\ [producers[p] EXCEPT !.pc = "drop", !.run = NoLease] \in ProducerState
          /\ Idle \in ProducerState
      BY <2>0, ProducerMoves DEF ProducerPc
    <3>5. producers' \in [Producer -> ProducerState]
      <4>1. Finished(p)
        BY <2>6 DEF DropRow
      <4>2. CASE Own(p) = NoLease
        BY <1>1, <2>0, <3>4, <4>1, <4>2 DEF Finished
      <4>3. CASE Own(p) # NoLease
        BY <1>1, <2>0, <3>4, <4>1, <4>3 DEF Finished
      <4> QED BY <4>2, <4>3
    <3> QED BY <1>0, <2>6, <3>3, <3>5 DEF TypeOK, DropRow, evidence
  <2>7. CASE Take(p)
    <3>1. /\ \A l \in Lease : [producers[p] EXCEPT !.pc = "begin", !.lease = l] \in ProducerState
          /\ Idle \in ProducerState
      BY <2>0, ProducerMoves DEF ProducerPc
    <3>2. producers' \in [Producer -> ProducerState]
      <4>1. ASSUME NEW l \in Lease,
                   producers' = [producers EXCEPT ![p].pc = "begin", ![p].lease = l]
            PROVE  producers' \in [Producer -> ProducerState]
        <5>1. producers' = [producers EXCEPT
                 ![p] = [producers[p] EXCEPT !.pc = "begin", !.lease = l]]
          BY <1>1, <4>1
        <5> QED BY <2>0, <3>1, <5>1
      <4>2. CASE producers' = [producers EXCEPT ![p] = Idle]
        BY <2>0, <3>1, <4>2
      <4> QED BY <2>7, <4>1, <4>2 DEF Take
    <3>3. leases' \in [Lease -> {"none", "RUNNING"} \cup LeaseEnded]
      BY <1>1, <2>7 DEF Take
    <3> QED BY <1>0, <2>7, <3>2, <3>3 DEF TypeOK, Take, evidence
  <2>8. CASE BeginExposure(p)
    <3>1. exposures' \in [Lease -> {"none"} \cup Phase \cup ExposureTerminal]
      BY <1>1, <2>8 DEF BeginExposure, Phase
    <3>2. producers' \in [Producer -> ProducerState]
      BY <2>1, <2>8 DEF BeginExposure, ProducerPc
    <3> QED BY <1>0, <2>8, <3>1, <3>2 DEF TypeOK, BeginExposure, evidence
  <2>9. CASE BeginRun(p)
    <3>1. [stored |-> TRUE, read |-> FALSE, valid |-> FALSE, closed |-> FALSE,
           terminal |-> "none", frontier |-> 0] \in Run
      BY FS_CardinalityType DEF Run
    <3>2. runs' \in [Lease -> Run \cup {NoRun}]
      BY <1>1, <2>9, <3>1 DEF BeginRun
    <3>3. producers' \in [Producer -> ProducerState]
      BY <2>1, <2>9 DEF BeginRun, ProducerPc
    <3> QED BY <1>0, <2>9, <3>2, <3>3 DEF TypeOK, BeginRun, evidence
  <2>10. CASE Ask(p)
    <3>1. Own(p) \in Lease
      BY <1>0, <2>0, <2>10 DEF Ask, At, ProducerInv, ProducerOk, Holding
    <3> QED BY <1>0, <2>10, <3>1 DEF TypeOK, Ask
  <2>11. CASE CommitDirect(p)
    <3>1. Own(p) \in Lease
      BY <1>0, <2>0, <2>11 DEF CommitDirect, At, ProducerInv, ProducerOk, Holding
    <3>2. proofs' \in [Lease -> 0 .. Cardinality(Lease)]
      BY <1>0, <2>11, <3>1, LatestBounded DEF TypeOK, CommitDirect
    <3> QED BY <1>0, <2>11, <3>2 DEF TypeOK, CommitDirect
  <2>12. CASE RecordRead(p)
    <3>1. Own(p) \in Lease /\ runs[Own(p)].stored
      BY <1>0, <2>0, <2>12 DEF RecordRead, At, ProducerInv, ProducerOk, Holding, Begun
    <3>2. [runs[Own(p)] EXCEPT !.read = TRUE] \in Run
      BY <1>1, <3>1, RunMoves
    <3>3. runs' \in [Lease -> Run \cup {NoRun}]
      BY <1>1, <2>12, <3>2 DEF RecordRead
    <3>4. producers' \in [Producer -> ProducerState]
      BY <2>1, <2>12 DEF RecordRead, ProducerPc
    <3> QED BY <1>0, <2>12, <3>3, <3>4 DEF TypeOK, RecordRead, evidence
  <2>13. CASE RecordReadProgress(p)
    <3>1. exposures' \in [Lease -> {"none"} \cup Phase \cup ExposureTerminal]
      BY <1>1, <2>13 DEF RecordReadProgress, Progress, Phase
    <3>2. producers' \in [Producer -> ProducerState]
      BY <2>1, <2>13 DEF RecordReadProgress, ProducerPc
    <3> QED BY <1>0, <2>13, <3>1, <3>2 DEF TypeOK, RecordReadProgress, evidence
  <2>14. CASE FinalizeLease(p)
    <3>1. leases' \in [Lease -> {"none", "RUNNING"} \cup LeaseEnded]
      BY <1>1, <2>14 DEF FinalizeLease, LeaseEnded
    <3>2. Idle \in ProducerState
      BY <2>0, ProducerMoves DEF ProducerPc
    <3>3. producers' \in [Producer -> ProducerState]
      BY <1>1, <2>0, <2>1, <2>14, <3>2 DEF FinalizeLease, ProducerPc
    <3> QED BY <1>0, <2>14, <3>1, <3>3 DEF TypeOK, FinalizeLease, evidence
  <2>15. CASE AbortLease(p)
    <3>1. leases' \in [Lease -> {"none", "RUNNING"} \cup LeaseEnded]
      BY <1>1, <2>15 DEF AbortLease, LeaseEnded
    <3>2. Own(p) \in Lease
      BY <1>0, <2>0, <2>15 DEF AbortLease, At, ProducerInv, ProducerOk, Holding
    <3>3. /\ [producers[p] EXCEPT !.pc = "drop", !.list = {Own(p)}] \in ProducerState
          /\ Idle \in ProducerState
      <4>1. {Own(p)} \in SUBSET Lease
        BY <3>2
      <4> QED BY <2>0, <4>1, ProducerMoves DEF ProducerPc
    <3>4. producers' \in [Producer -> ProducerState]
      BY <1>1, <2>0, <2>15, <3>3 DEF AbortLease
    <3> QED BY <1>0, <2>15, <3>1, <3>4 DEF TypeOK, AbortLease, evidence
  <2>16. CASE RunFails(p)
    <3>1. producers' \in [Producer -> ProducerState]
      BY <2>1, <2>16 DEF RunFails, ProducerPc
    <3> QED BY <1>0, <2>16, <3>1 DEF TypeOK, RunFails, evidence
  <2>17. CASE Crash(p)
    <3>1. Idle \in ProducerState
      BY <2>0, ProducerMoves DEF ProducerPc
    <3>2. producers' \in [Producer -> ProducerState]
      BY <1>1, <2>0, <2>17, <3>1 DEF Crash
    <3>3. crashes' \in [producer : 0 .. MaxCrashes, reader : 0 .. MaxReaderCrashes]
      BY <1>0, <2>17 DEF Crash, TypeOK
    <3> QED BY <1>0, <2>17, <3>2, <3>3 DEF TypeOK, Crash, evidence
  <2> QED
    BY <1>3, <2>2, <2>3, <2>4, <2>5, <2>6, <2>7, <2>8, <2>9, <2>10, <2>11, <2>12,
       <2>13, <2>14, <2>15, <2>16, <2>17 DEF ProducerStep
<1>4. ASSUME NEW l \in Lease, QueueStep(l) \/ StoreProof(l) \/ Lapse(l)
      PROVE  TypeOK'
  <2>1. CASE FlushEnqueue(l)
    BY <1>0, <2>1 DEF TypeOK, FlushEnqueue
  <2>4. CASE FlushDelete(l)
    BY <1>0, <2>4 DEF TypeOK, FlushDelete
  <2>5. CASE EndTask(l)
    BY <1>0, <2>5 DEF TypeOK, EndTask
  <2>2. CASE StoreProof(l)
    <3>1. proofs' \in [Lease -> 0 .. Cardinality(Lease)]
      BY <1>0, <2>2, LatestBounded DEF TypeOK, StoreProof
    <3> QED BY <1>0, <2>2, <3>1 DEF TypeOK, StoreProof
  <2>3. CASE Lapse(l)
    BY <1>0, <2>3 DEF TypeOK, Lapse, evidence
  <2> QED BY <1>4, <2>1, <2>2, <2>3, <2>4, <2>5 DEF QueueStep
<1>5. CASE ExpireLeases
  <2>1. leases' \in [Lease -> {"none", "RUNNING"} \cup LeaseEnded]
    BY <1>5, <1>1 DEF ExpireLeases, Expired, LeaseEnded
  <2> QED BY <1>0, <1>5, <2>1 DEF TypeOK, ExpireLeases, evidence
<1>6. ASSUME ReaderStep \/ ReaderCrash
      PROVE  TypeOK'
  <2>0. reader.todo \in SUBSET Lease /\ Current \in Lease \cup {NoLease}
    BY <1>1 DEF ReaderState, Current
  <2>1. /\ \A pc \in ReaderPc : Then(pc) => reader' \in ReaderState
        /\ NextRun => reader' \in ReaderState
        /\ Syncing \in ReaderState
    <3>1. Syncing \in ReaderState /\ (NextRun => reader' \in ReaderState)
      BY <1>1, ReaderMoves DEF NextRun, ReaderPc
    <3>2. ASSUME NEW pc \in ReaderPc, Then(pc)
          PROVE  reader' \in ReaderState
      BY <1>1, <3>2, ReaderMoves DEF Then
    <3> QED BY <3>1, <3>2
  <2>2. CASE Apply
    <3>1. ledger' \in 0 .. Cardinality(Lease)
      BY <1>0, <2>2, LatestBounded, FS_CardinalityType DEF Apply, TypeOK
    <3>2. reader' \in ReaderState
      BY <2>1, <2>2 DEF Apply, ReaderPc
    <3> QED BY <1>0, <2>2, <3>1, <3>2 DEF TypeOK, Apply, readerOnly, evidence
  <2>3. CASE List
    <3> DEFINE open == {l \in Lease : runs[l].stored /\ runs[l].terminal = "none" /\ ~runs[l].closed}
    <3>1. open \in SUBSET Lease
      OBVIOUS
    <3>2. [reader EXCEPT !.pc = "next", !.todo = open] \in ReaderState
      <4> HIDE DEF open
      <4> QED BY <1>1, <3>1, ReaderMoves DEF ReaderPc
    <3> QED BY <1>0, <2>3, <3>2 DEF TypeOK, List, readerOnly, evidence
  <2>4. CASE ReadFrontier
    <3>1. PICK l \in reader.todo :
             reader' = [reader EXCEPT !.pc = "lease", !.todo = @ \ {l},
                                      !.lease = l, !.frontier = proofs[l]]
      BY <2>4 DEF ReadFrontier
    <3>2. l \in Lease /\ reader.todo \ {l} \in SUBSET Lease /\ proofs[l] \in 0 .. Cardinality(Lease)
      BY <1>0, <2>0 DEF TypeOK
    <3>3. [reader EXCEPT !.pc = "lease", !.todo = reader.todo \ {l},
                         !.lease = l, !.frontier = proofs[l]] \in ReaderState
      BY <1>1, <3>2, ReaderMoves DEF ReaderPc
    <3>4. reader' \in ReaderState
      BY <3>1, <3>3
    <3> QED BY <1>0, <2>4, <3>4 DEF TypeOK, ReadFrontier, readerOnly, evidence
  <2>5. CASE Done
    <3>1. reader' \in ReaderState
      BY <2>1, <2>5 DEF Done
    <3> QED BY <1>0, <2>5, <3>1 DEF TypeOK, Done, readerOnly, evidence
  <2>6. CASE ReadLease
    <3>1. [reader EXCEPT !.pc = "queued", !.ended = leases[Current] \in LeaseEnded] \in ReaderState
      <4>1. (leases[Current] \in LeaseEnded) \in BOOLEAN
        OBVIOUS
      <4> QED BY <1>1, <4>1, ReaderMoves DEF ReaderPc
    <3>2. reader' \in ReaderState
      BY <2>6, <3>1 DEF ReadLease
    <3> QED BY <1>0, <2>6, <3>2 DEF TypeOK, ReadLease, readerOnly, evidence
  <2>7. CASE CountQueued
    <3>1. [reader EXCEPT !.pc = "staged", !.open = tasks[Current] = "open"] \in ReaderState
      <4>1. (tasks[Current] = "open") \in BOOLEAN
        OBVIOUS
      <4> QED BY <1>1, <4>1, ReaderMoves DEF ReaderPc
    <3>2. reader' \in ReaderState
      BY <2>7, <3>1 DEF CountQueued
    <3> QED BY <1>0, <2>7, <3>2 DEF TypeOK, CountQueued, readerOnly, evidence
  <2>8. CASE CountStaged
    <3>1. [reader EXCEPT !.pc = "validate", !.open = reader.open \/ Current \in staged]
             \in ReaderState
      <4>1. (reader.open \/ Current \in staged) \in BOOLEAN
        OBVIOUS
      <4> QED BY <1>1, <4>1, ReaderMoves DEF ReaderPc
    <3>2. reader' \in ReaderState
      BY <2>8, <3>1 DEF CountStaged
    <3> QED BY <1>0, <2>8, <3>2 DEF TypeOK, CountStaged, readerOnly, evidence
  <2>9. CASE RecordValidation
    <3>1. Current \in Lease /\ runs[Current].stored
      BY <1>0, <2>0, <2>9 DEF RecordValidation, Reading, ReaderInv, LookInv, LookedAt
    <3>2. ValidationComplete \in BOOLEAN /\ reader.frontier \in 0 .. Cardinality(Lease)
      BY <1>1 DEF ValidationComplete, ReaderState
    <3>3. [runs[Current] EXCEPT !.valid = ValidationComplete, !.frontier = reader.frontier] \in Run
      BY <1>1, <3>1, <3>2, RunMoves
    <3>4. runs' \in [Lease -> Run \cup {NoRun}]
      BY <1>1, <2>9, <3>3 DEF RecordValidation
    <3>5. reader' \in ReaderState
      BY <2>1, <2>9 DEF RecordValidation, ReaderPc
    <3> QED BY <1>0, <2>9, <3>4, <3>5 DEF TypeOK, RecordValidation, evidence
  <2>10. CASE RecordValidationProgress
    <3>1. exposures' \in [Lease -> {"none"} \cup Phase \cup ExposureTerminal]
      BY <1>1, <2>10 DEF RecordValidationProgress, Progress, Phase
    <3>2. reader' \in ReaderState
      BY <2>1, <2>10 DEF RecordValidationProgress, ReaderPc
    <3> QED BY <1>0, <2>10, <3>1, <3>2 DEF TypeOK, RecordValidationProgress, evidence
  <2>11. CASE CheckRun
    <3>1. reader' \in ReaderState
      BY <2>1, <2>11 DEF CheckRun, ReaderPc
    <3> QED BY <1>0, <2>11, <3>1 DEF TypeOK, CheckRun, readerOnly, evidence
  <2>12. CASE CloseExposure
    <3>1. exposures' \in [Lease -> {"none"} \cup Phase \cup ExposureTerminal]
      BY <1>1, <2>12 DEF CloseExposure, FinalizeExposure, ExposureTerminal
    <3>2. reader' \in ReaderState
      BY <2>1, <2>12 DEF CloseExposure, ReaderPc
    <3> QED BY <1>0, <2>12, <3>1, <3>2 DEF TypeOK, CloseExposure, evidence
  <2>13. CASE CloseRun
    <3>1. Current \in Lease /\ runs[Current].stored
      BY <1>0, <2>0, <2>13 DEF CloseRun, Reading, ReaderInv, LookInv, LookedAt
    <3> DEFINE b == runs[Current].closed \/ (runs[Current].read /\ runs[Current].valid)
    <3>2. b \in BOOLEAN
      OBVIOUS
    <3>3. [runs[Current] EXCEPT !.closed = b] \in Run
      <4> HIDE DEF b
      <4> QED BY <1>1, <3>1, <3>2, RunMoves
    <3>4. runs' \in [Lease -> Run \cup {NoRun}]
      BY <1>1, <2>13, <3>3 DEF CloseRun
    <3>5. reader' \in ReaderState
      BY <2>1, <2>13 DEF CloseRun
    <3> QED BY <1>0, <2>13, <3>4, <3>5 DEF TypeOK, CloseRun, evidence
  <2>14. CASE ReaderCrash
    <3>1. crashes' \in [producer : 0 .. MaxCrashes, reader : 0 .. MaxReaderCrashes]
      BY <1>0, <2>14 DEF ReaderCrash, TypeOK
    <3>2. reader' \in ReaderState
      BY <2>1, <2>14 DEF ReaderCrash
    <3> QED BY <1>0, <2>14, <3>1, <3>2 DEF TypeOK, ReaderCrash, evidence
  <2> QED
    BY <1>6, <2>2, <2>3, <2>4, <2>5, <2>6, <2>7, <2>8, <2>9, <2>10, <2>11, <2>12,
       <2>13, <2>14 DEF ReaderStep
<1> QED
  BY <1>3, <1>4, <1>5, <1>6 DEF Next

-----------------------------------------------------------------------------

LEMMA SteadyStep ==
    ASSUME RunsInv, [Next]_vars, NEW l \in Lease
    PROVE  Steady(l)
<1>0. /\ TypeOK /\ ProducerInv
      /\ leases[l] \in {"none", "RUNNING"} \cup LeaseEnded
      /\ exposures[l] \in {"none"} \cup Phase \cup ExposureTerminal
      /\ \A p \in Producer : Own(p) \in Lease \cup {NoLease}
  BY DEF RunsInv, TypeOK, ProducerState, Own
<1> DEFINE SameLease == leases'[l] = leases[l]
           SameExposure == exposures'[l] = exposures[l]
           SameRun == runs'[l] = runs[l]
<1>1. ASSUME SameLease, SameExposure, SameRun
      PROVE  Steady(l)
  BY <1>0, <1>1 DEF Steady, Order, Phase, ExposureTerminal, Rank
<1>2. ASSUME leases' = Expired, SameExposure, SameRun
      PROVE  Steady(l)
  BY <1>0, <1>2 DEF Steady, Order, Phase, ExposureTerminal, Rank, Expired, LeaseEnded
<1>3. ASSUME SameLease, SameRun, exposures[l] \in Phase,
             exposures'[l] \in ExposureTerminal
      PROVE  Steady(l)
  BY <1>0, <1>3 DEF Steady, Order, Phase, ExposureTerminal, Rank
<1>4. ASSUME NEW m \in Lease, NEW target \in {"READ_COMPLETE", "VALIDATING"},
             Progress(m, target), SameLease, SameRun
      PROVE  Steady(l)
  BY <1>0, <1>4 DEF TypeOK, Progress, Steady, Order, Phase, ExposureTerminal, Rank
<1>5. ASSUME SameLease, SameExposure, runs[l].stored => runs'[l].stored,
             runs[l].stored /\ runs[l].read => runs'[l].read
      PROVE  Steady(l)
  BY <1>0, <1>5 DEF Steady, Order, Phase, ExposureTerminal, Rank
<1>6. ASSUME NEW p \in Producer, ProducerStep(p) \/ RunFails(p) \/ Crash(p)
      PROVE  Steady(l)
  <2>1. CASE RecoverLeases(p)
    BY <2>1, <1>2 DEF RecoverLeases
  <2>2. CASE RecoverExposures(p)
    <3>1. SameExposure \/ (exposures[l] \in Phase /\ exposures'[l] \in ExposureTerminal)
      BY <2>2 DEF RecoverExposures, LeaseLost, ExposureTerminal
    <3> QED BY <2>2, <3>1, <1>1, <1>3 DEF RecoverExposures
  <2>3. CASE Drop(p)
    <3>1. PICK m \in producers[p].list :
             DropExposure(m, leases[m]) \/ UNCHANGED exposures
      BY <2>3 DEF Drop
    <3>2. leases[m] \in ExposureTerminal
      BY <1>0, <3>1 DEF ProducerInv, ProducerOk, LeaseLost, ExposureTerminal
    <3>3. SameExposure \/ (exposures[l] \in Phase /\ exposures'[l] \in ExposureTerminal)
      BY <1>0, <3>1, <3>2 DEF TypeOK, DropExposure
    <3> QED BY <2>3, <3>3, <1>1, <1>3 DEF Drop
  <2>4. CASE Take(p)
    <3>1. leases[l] = "none" \/ SameLease
      BY <1>0, <2>4 DEF Take, TypeOK
    <3>2. leases[l] # "none" => leases'[l] # "none"
      BY <3>1
    <3>3. SameExposure /\ SameRun
      BY <2>4 DEF Take
    <3> QED
      BY <1>0, <3>1, <3>2, <3>3
         DEF Steady, Order, Phase, ExposureTerminal, Rank, LeaseEnded
  <2>5. CASE BeginExposure(p)
    <3>1. exposures[Own(p)] = "none"
      BY <1>0, <2>5 DEF ProducerInv, ProducerOk, BeginExposure
    <3>2. SameExposure \/ (exposures[l] = "none" /\ exposures'[l] = "RUNNING")
      BY <1>0, <2>5, <3>1 DEF BeginExposure, TypeOK
    <3>3. SameLease /\ SameRun
      BY <2>5 DEF BeginExposure
    <3> QED
      BY <1>0, <3>2, <3>3 DEF Steady, Order, Phase, ExposureTerminal, Rank
  <2>6. CASE BeginRun(p)
    <3>1. ~runs[Own(p)].stored
      BY <1>0, <2>6 DEF ProducerInv, ProducerOk, BeginRun
    <3>2. SameRun \/ ~runs[l].stored
      BY <1>0, <2>6, <3>1 DEF BeginRun, TypeOK
    <3> QED BY <1>0, <2>6, <3>2, <1>1, <1>5 DEF BeginRun
  <2>7. CASE DropRow(p)
    <3>1. runs'[l].stored = runs[l].stored /\ (runs[l].stored /\ runs[l].read => runs'[l].read)
      BY <1>0, <2>7 DEF DropRow, TypeOK, Run, NoRun
    <3> QED BY <2>7, <3>1, <1>5 DEF DropRow
  <2>8. CASE RecordRead(p)
    <3>1. (runs[l].stored => runs'[l].stored) /\ (runs[l].stored /\ runs[l].read => runs'[l].read)
      BY <1>0, <2>8 DEF RecordRead, TypeOK, Run, NoRun
    <3> QED BY <2>8, <3>1, <1>5 DEF RecordRead
  <2>9. CASE RecordReadProgress(p)
    <3>1. Own(p) \in Lease
      BY <1>0, <2>9 DEF ProducerInv, ProducerOk, RecordReadProgress, At, Holding
    <3>2. SameLease /\ SameRun
      BY <2>9 DEF RecordReadProgress
    <3> QED BY <2>9, <3>1, <3>2, <1>1, <1>4 DEF RecordReadProgress
  <2>10. CASE FinalizeLease(p) \/ AbortLease(p)
    <3>1. SameLease \/ (leases[l] = "RUNNING" /\ leases'[l] \in LeaseEnded)
      BY <1>0, <2>10 DEF FinalizeLease, AbortLease, TypeOK, LeaseEnded
    <3>2. SameExposure /\ SameRun
      BY <2>10 DEF FinalizeLease, AbortLease
    <3> QED
      BY <1>0, <3>1, <3>2 DEF Steady, Order, Phase, ExposureTerminal, Rank, LeaseEnded
  <2>11. CASE Sweep(p) \/ RunFails(p) \/ Crash(p)
    BY <2>11, <1>1 DEF Sweep, RunFails, Crash
  <2>12. CASE Ask(p) \/ CommitDirect(p)
    BY <2>12, <1>1 DEF Ask, CommitDirect
  <2> QED
    BY <1>6, <2>1, <2>2, <2>3, <2>4, <2>5, <2>6, <2>7, <2>8, <2>9, <2>10, <2>11, <2>12
       DEF ProducerStep
<1>7. ASSUME NEW m \in Lease, QueueStep(m) \/ StoreProof(m) \/ Lapse(m)
      PROVE  Steady(l)
  BY <1>7, <1>1 DEF QueueStep, FlushEnqueue, FlushDelete, EndTask, StoreProof, Lapse
<1>8. CASE ExpireLeases
  BY <1>8, <1>2 DEF ExpireLeases
<1>9. ASSUME ReaderStep \/ ReaderCrash
      PROVE  Steady(l)
  <2>0. reader.pc \in LookedAt => Current \in Lease
    BY <1>0 DEF RunsInv, ReaderInv, LookInv, TypeOK, ReaderState, Current
  <2>1. CASE Apply \/ List \/ ReadFrontier \/ Done \/ ReadLease
    BY <2>1, <1>1 DEF Apply, List, ReadFrontier, Done, ReadLease, readerOnly
  <2>2. CASE CountQueued \/ CountStaged \/ CheckRun \/ ReaderCrash
    BY <2>2, <1>1 DEF CountQueued, CountStaged, CheckRun, ReaderCrash, readerOnly
  <2>3. CASE RecordValidation
    <3>1. (runs[l].stored => runs'[l].stored) /\ (runs[l].stored /\ runs[l].read => runs'[l].read)
      BY <1>0, <2>3 DEF RecordValidation, TypeOK, Run, NoRun
    <3> QED BY <2>3, <3>1, <1>5 DEF RecordValidation
  <2>4. CASE RecordValidationProgress
    <3>1. Current \in Lease
      BY <2>0, <2>4 DEF RecordValidationProgress, Reading, LookedAt
    <3>2. SameLease /\ SameRun
      BY <2>4 DEF RecordValidationProgress
    <3> QED BY <2>4, <3>1, <3>2, <1>1, <1>4 DEF RecordValidationProgress
  <2>5. CASE CloseExposure
    <3>1. SameExposure \/ (exposures[l] \in Phase /\ exposures'[l] \in ExposureTerminal)
      BY <1>0, <2>5 DEF CloseExposure, FinalizeExposure, TypeOK, Phase, ExposureTerminal
    <3> QED BY <2>5, <3>1, <1>1, <1>3 DEF CloseExposure
  <2>6. CASE CloseRun
    <3>1. (runs[l].stored => runs'[l].stored) /\ (runs[l].stored /\ runs[l].read => runs'[l].read)
      BY <1>0, <2>6 DEF CloseRun, TypeOK, Run, NoRun
    <3> QED BY <2>6, <3>1, <1>5 DEF CloseRun
  <2> QED
    BY <1>9, <2>1, <2>2, <2>3, <2>4, <2>5, <2>6 DEF ReaderStep
<1>10. CASE UNCHANGED vars
  BY <1>10, <1>1 DEF vars
<1> QED
  BY <1>6, <1>7, <1>8, <1>9, <1>10 DEF Next

-----------------------------------------------------------------------------
(* Only the producer that holds the lease begins its exposure and its run. *)

LEMMA OnlyHolderBegins ==
    ASSUME RunsInv, [Next]_vars, NEW l \in Lease
    PROVE  /\ exposures[l] = "none" /\ exposures'[l] # "none" =>
                 \E p \in Producer : BeginExposure(p) /\ Own(p) = l
           /\ ~runs[l].stored /\ runs'[l].stored =>
                 \E p \in Producer : BeginRun(p) /\ Own(p) = l
<1>0. /\ TypeOK /\ ProducerInv /\ ReaderInv
      /\ \A p \in Producer : Own(p) \in Lease \cup {NoLease}
      /\ \A p \in Producer : producers[p].run \in Lease \cup {NoLease}
  BY DEF RunsInv, TypeOK, ProducerState, Own
<1>1. ASSUME NEW p \in Producer, ProducerStep(p) \/ RunFails(p) \/ Crash(p)
      PROVE  /\ exposures[l] = "none" /\ exposures'[l] # "none" => BeginExposure(p) /\ Own(p) = l
             /\ ~runs[l].stored /\ runs'[l].stored => BeginRun(p) /\ Own(p) = l
  <2>1. CASE BeginExposure(p)
    BY <1>0, <2>1 DEF BeginExposure, TypeOK
  <2>2. CASE BeginRun(p)
    BY <1>0, <2>2 DEF BeginRun, TypeOK
  <2>3. CASE RecoverExposures(p)
    BY <1>0, <2>3 DEF RecoverExposures, Phase
  <2>4. CASE Drop(p)
    <3>1. \E m : DropExposure(m, leases[m]) \/ UNCHANGED exposures
      BY <2>4 DEF Drop
    <3> QED BY <1>0, <2>4, <3>1 DEF Drop, DropExposure, TypeOK, Phase
  <2>5. CASE RecordReadProgress(p)
    BY <1>0, <2>5 DEF RecordReadProgress, Progress, TypeOK, Phase
  <2>6. CASE DropRow(p)
    <3>1. runs'[l].stored = runs[l].stored
      BY <1>0, <2>6 DEF DropRow, TypeOK, Run, NoRun
    <3> QED BY <2>6, <3>1 DEF DropRow
  <2>7. CASE RecordRead(p)
    <3>1. runs[Own(p)].stored /\ Own(p) \in Lease
      BY <1>0, <2>7 DEF ProducerInv, ProducerOk, RecordRead, At, Begun, Holding
    <3>2. runs'[l].stored => runs[l].stored
      BY <1>0, <2>7, <3>1 DEF RecordRead, TypeOK, Run, NoRun
    <3> QED BY <2>7, <3>2 DEF RecordRead
  <2>8. CASE RecoverLeases(p) \/ Sweep(p) \/ Take(p) \/ RunFails(p) \/ Crash(p)
    BY <2>8 DEF RecoverLeases, Sweep, Take, RunFails, Crash
  <2>9. CASE Ask(p) \/ CommitDirect(p) \/ FinalizeLease(p) \/ AbortLease(p)
    BY <2>9 DEF Ask, CommitDirect, FinalizeLease, AbortLease
  <2> QED
    BY <1>1, <2>1, <2>2, <2>3, <2>4, <2>5, <2>6, <2>7, <2>8, <2>9 DEF ProducerStep
<1> DEFINE Untouched == exposures'[l] = exposures[l] /\ runs'[l].stored = runs[l].stored
<1>2. ASSUME NEW m \in Lease, QueueStep(m) \/ StoreProof(m) \/ Lapse(m)
      PROVE  Untouched
  BY <1>2 DEF QueueStep, FlushEnqueue, FlushDelete, EndTask, StoreProof, Lapse
<1>3. CASE ExpireLeases
  BY <1>3 DEF ExpireLeases
<1>4. ASSUME ReaderStep \/ ReaderCrash
      PROVE  /\ exposures[l] = "none" => exposures'[l] = "none"
             /\ runs'[l].stored = runs[l].stored
  <2>1. CASE Apply \/ List \/ ReadFrontier \/ Done \/ ReadLease
    BY <2>1 DEF Apply, List, ReadFrontier, Done, ReadLease, readerOnly
  <2>2. CASE CountQueued \/ CountStaged \/ CheckRun \/ ReaderCrash
    BY <2>2 DEF CountQueued, CountStaged, CheckRun, ReaderCrash, readerOnly
  <2>3. CASE RecordValidation
    BY <1>0, <2>3 DEF RecordValidation, TypeOK, Run, NoRun
  <2>4. CASE RecordValidationProgress
    BY <1>0, <2>4 DEF RecordValidationProgress, Progress, TypeOK, Phase
  <2>5. CASE CloseExposure
    BY <1>0, <2>5 DEF CloseExposure, FinalizeExposure, TypeOK
  <2>6. CASE CloseRun
    BY <1>0, <2>6 DEF CloseRun, TypeOK, Run, NoRun
  <2> QED BY <1>4, <2>1, <2>2, <2>3, <2>4, <2>5, <2>6 DEF ReaderStep
<1>5. CASE UNCHANGED vars
  BY <1>5 DEF vars
<1> QED
  BY <1>1, <1>2, <1>3, <1>4, <1>5 DEF Next

\* A producer that takes no step keeps what it relies on.
LEMMA IdleProducer ==
    ASSUME RunsInv, [Next]_vars, NEW q \in Producer, producers'[q] = producers[q]
    PROVE  ProducerOk(q)'
<1>0. /\ TypeOK /\ ProducerInv /\ ProducerOk(q)
      /\ Own(q) \in Lease \cup {NoLease}
      /\ producers[q].run \in Lease \cup {NoLease}
      /\ producers[q].list \in SUBSET Lease
      /\ \A l \in Lease : Steady(l)
  BY SteadyStep DEF RunsInv, TypeOK, ProducerState, Own, ProducerInv
<1>1. Own(q)' = Own(q)
  BY DEF Own
<1>2. (Own(q) # NoLease => leases[Own(q)] # "none")'
  BY <1>0, <1>1 DEF ProducerOk, Steady
<1>3. (producers[q].pc \in Holding => Own(q) # NoLease)'
  BY <1>0, <1>1 DEF ProducerOk
<1>4. (At(q, "begin") => exposures[Own(q)] = "none")'
  <2> SUFFICES ASSUME At(q, "begin"), exposures'[Own(q)] # "none"
               PROVE  FALSE
    BY <1>1 DEF At
  <2>1. Own(q) \in Lease /\ exposures[Own(q)] = "none"
    BY <1>0 DEF ProducerOk, At, Holding
  <2>2. PICK p \in Producer : BeginExposure(p) /\ Own(p) = Own(q)
    BY <2>1, OnlyHolderBegins
  <2>3. p = q
    BY <1>0, <2>1, <2>2, RunsAssumption DEF ProducerInv
  <2> QED BY <1>0, <2>2, <2>3 DEF BeginExposure, Goto, At, TypeOK, ProducerState
<1>5. (At(q, "begin") \/ At(q, "register") => ~runs[Own(q)].stored)'
  <2> SUFFICES ASSUME At(q, "begin") \/ At(q, "register"), runs'[Own(q)].stored
               PROVE  FALSE
    BY <1>1 DEF At
  <2>1. Own(q) \in Lease /\ ~runs[Own(q)].stored
    BY <1>0 DEF ProducerOk, At, Holding
  <2>2. PICK p \in Producer : BeginRun(p) /\ Own(p) = Own(q)
    BY <2>1, OnlyHolderBegins
  <2>3. p = q
    BY <1>0, <2>1, <2>2, RunsAssumption DEF ProducerInv
  <2> QED BY <1>0, <2>2, <2>3 DEF BeginRun, Goto, At, TypeOK, ProducerState
<1>6. (producers[q].pc \in Begun => runs[Own(q)].stored)'
  BY <1>0, <1>1 DEF ProducerOk, Steady, Begun, Holding
<1>7. (\A l \in producers[q].list : leases[l] \in LeaseLost /\ runs[l].stored)'
  BY <1>0 DEF ProducerOk, Steady, LeaseLost, LeaseEnded
<1>8. (At(q, "dropRow") =>
          LET l == producers[q].run IN
          l # NoLease /\ leases[l] \in LeaseLost /\ runs[l].stored)'
  BY <1>0 DEF ProducerOk, Steady, LeaseLost, LeaseEnded, At
<1> QED
  BY <1>2, <1>3, <1>4, <1>5, <1>6, <1>7, <1>8 DEF ProducerOk

\* The producer that takes a step.
LEMMA ProducerMovesOk ==
    ASSUME RunsInv, NEW p \in Producer, ProducerStep(p) \/ RunFails(p) \/ Crash(p)
    PROVE  /\ ProducerOk(p)'
           /\ \A q \in Producer \ {p} : producers'[q] = producers[q]
           /\ \/ Own(p)' \in {Own(p), NoLease}
              \/ Own(p)' \in Lease /\ leases[Own(p)'] = "none"
<1>0. /\ TypeOK /\ ProducerInv /\ ProducerOk(p)
      /\ Own(p) \in Lease \cup {NoLease}
      /\ producers[p] \in ProducerState
      /\ producers[p].run \in Lease \cup {NoLease}
      /\ producers[p].list \in SUBSET Lease
      /\ \A l \in Lease : Steady(l)
      /\ NoLease \notin Lease
  BY SteadyStep, RunsAssumption DEF RunsInv, TypeOK, ProducerState, Own, ProducerInv, Next
<1> DEFINE Rest == \A q \in Producer \ {p} : producers'[q] = producers[q]
<1>1. ASSUME NEW pc \in ProducerPc, Goto(p, pc)
      PROVE  /\ Rest
             /\ producers'[p] = [producers[p] EXCEPT !.pc = pc]
             /\ Own(p)' = Own(p) /\ producers'[p].pc = pc
             /\ producers'[p].list = producers[p].list /\ producers'[p].run = producers[p].run
  BY <1>0, <1>1 DEF Goto, TypeOK, ProducerState, Own
<1>2. ASSUME producers' = [producers EXCEPT ![p] = Idle]
      PROVE  /\ Rest /\ Own(p)' = NoLease
             /\ ProducerOk(p)'
  BY <1>0, <1>2 DEF TypeOK, Idle, Own, ProducerOk, At, Holding, Begun
<1>3. ASSUME NEW pc \in {"exposures", "sweep", "drop"}, Goto(p, pc)
      PROVE  Rest /\ Own(p)' = Own(p) /\ ProducerOk(p)'
  BY <1>0, <1>1, <1>3 DEF ProducerPc, ProducerOk, At, Holding, Begun, Own, Steady, LeaseLost, LeaseEnded
<1>4. ASSUME NEW pc \in Begun, Goto(p, pc), Own(p) # NoLease, runs[Own(p)].stored \/ runs'[Own(p)].stored
      PROVE  Rest /\ Own(p)' = Own(p) /\ ProducerOk(p)'
  BY <1>0, <1>1, <1>4 DEF ProducerPc, ProducerOk, At, Holding, Begun, Own, Steady, LeaseLost, LeaseEnded
<1>5. CASE RecoverLeases(p) \/ RecoverExposures(p)
  BY <1>3, <1>5 DEF RecoverLeases, RecoverExposures
<1>6. CASE Sweep(p)
  <2>1. /\ producers'[p] = [producers[p] EXCEPT !.pc = "drop", !.list = {l \in Lease : Lost(l)}]
        /\ Rest /\ leases' = leases /\ runs' = runs
    BY <1>0, <1>6 DEF Sweep, TypeOK
  <2>2. /\ producers'[p].pc = "drop" /\ producers'[p].list = {l \in Lease : Lost(l)}
        /\ Own(p)' = Own(p)
    BY <1>0, <2>1 DEF ProducerState, Own
  <2> QED BY <1>0, <2>1, <2>2 DEF ProducerOk, At, Holding, Begun, Lost
<1>7. CASE Drop(p)
  <2>1. PICK l \in producers[p].list :
             IF runs[l].terminal = "none"
             THEN producers' = [producers EXCEPT
                        ![p].pc = "dropRow", ![p].list = @ \ {l}, ![p].run = l]
             ELSE IF Own(p) = NoLease
                  THEN producers' = [producers EXCEPT ![p].list = @ \ {l}]
                  ELSE producers' = [producers EXCEPT ![p] = Idle]
    BY <1>7 DEF Drop
  <2>2. /\ l \in Lease /\ leases[l] \in LeaseLost /\ runs[l].stored
        /\ leases' = leases /\ runs' = runs /\ At(p, "drop")
    BY <1>0, <1>7 DEF ProducerOk, Drop
  <2>3. CASE runs[l].terminal = "none"
    <3>1. /\ Rest /\ Own(p)' = Own(p) /\ producers'[p].pc = "dropRow"
          /\ producers'[p].list = producers[p].list \ {l} /\ producers'[p].run = l
      BY <1>0, <2>1, <2>3 DEF TypeOK, ProducerState, Own
    <3> QED BY <1>0, <2>2, <3>1 DEF ProducerOk, At, Holding, Begun
  <2>4. CASE runs[l].terminal # "none" /\ Own(p) = NoLease
    <3>1. /\ Rest /\ Own(p)' = Own(p) /\ producers'[p].pc = producers[p].pc
          /\ producers'[p].list = producers[p].list \ {l}
      BY <1>0, <2>1, <2>4 DEF TypeOK, ProducerState, Own
    <3> QED BY <1>0, <2>2, <3>1 DEF ProducerOk, At, Holding, Begun
  <2>5. CASE runs[l].terminal # "none" /\ Own(p) # NoLease
    BY <1>2, <2>1, <2>5
  <2> QED BY <2>3, <2>4, <2>5
<1>8. CASE DropRow(p)
  <2>1. CASE Own(p) = NoLease
    <3>1. producers' = [producers EXCEPT
                           ![p] = [producers[p] EXCEPT !.pc = "drop", !.run = NoLease]]
      BY <1>8, <2>1 DEF DropRow, Finished
    <3>2. /\ Rest /\ Own(p)' = Own(p) /\ producers'[p].pc = "drop"
          /\ producers'[p].list = producers[p].list
      BY <1>0, <3>1 DEF TypeOK, ProducerState, Own
    <3> QED
      BY <1>0, <2>1, <3>2 DEF ProducerOk, At, Holding, Begun, Steady, LeaseLost, LeaseEnded
  <2>2. CASE Own(p) # NoLease
    BY <1>2, <1>8, <2>2 DEF DropRow, Finished
  <2> QED BY <2>1, <2>2
<1>9. CASE Take(p)
  <2>1. ASSUME NEW l \in Lease, leases[l] = "none", leases' = [leases EXCEPT ![l] = "RUNNING"],
               producers' = [producers EXCEPT ![p].pc = "begin", ![p].lease = l]
        PROVE  Rest /\ Own(p)' = l /\ ProducerOk(p)'
    <3>1. /\ Rest /\ Own(p)' = l /\ producers'[p].pc = "begin"
          /\ producers'[p].list = producers[p].list
      BY <1>0, <2>1 DEF TypeOK, ProducerState, Own
    <3>2. leases'[l] = "RUNNING" /\ exposures'[l] = "none" /\ ~runs'[l].stored /\ l # NoLease
      BY <1>0, <1>9, <2>1 DEF TypeOK, ProducerInv, Take
    <3> QED
      BY <1>0, <3>1, <3>2 DEF ProducerOk, At, Holding, Begun, Steady, LeaseLost, LeaseEnded
  <2> QED BY <1>2, <1>9, <2>1 DEF Take
<1>10. CASE BeginExposure(p)
  <2>1. Rest /\ Own(p)' = Own(p) /\ producers'[p].pc = "register"
        /\ producers'[p].list = producers[p].list
    BY <1>1, <1>10 DEF BeginExposure, ProducerPc
  <2> QED
    BY <1>0, <1>10, <2>1 DEF ProducerOk, BeginExposure, At, Holding, Begun
<1>11. CASE BeginRun(p)
  <2>1. Own(p) \in Lease
    BY <1>0, <1>11 DEF ProducerOk, BeginRun, At, Holding
  <2>2. runs'[Own(p)].stored
    BY <1>0, <1>11, <2>1 DEF BeginRun, TypeOK
  <2> QED BY <1>4, <1>11, <2>1, <2>2, <1>0 DEF BeginRun, Begun
<1>12. CASE Ask(p) \/ CommitDirect(p)
  <2>1. producers' = producers /\ leases' = leases /\ exposures' = exposures /\ runs' = runs
    BY <1>12 DEF Ask, CommitDirect
  <2> QED BY <1>0, <2>1 DEF ProducerOk, At, Own
<1>13. CASE RecordRead(p) \/ RecordReadProgress(p) \/ RunFails(p)
  <2>1. Own(p) # NoLease /\ runs[Own(p)].stored
    BY <1>0, <1>13 DEF RecordRead, RecordReadProgress, RunFails, At, ProducerOk, Begun, Holding
  <2> QED
    BY <1>4, <1>13, <2>1, <1>0 DEF RecordRead, RecordReadProgress, RunFails, Begun
<1>14. CASE FinalizeLease(p)
  <2>1. Own(p) # NoLease /\ runs[Own(p)].stored
    BY <1>0, <1>14 DEF FinalizeLease, At, ProducerOk, Begun, Holding
  <2> QED BY <1>2, <1>4, <1>14, <2>1, <1>0 DEF FinalizeLease, Begun
<1>15. CASE AbortLease(p)
  <2>1. Own(p) \in Lease /\ runs[Own(p)].stored
    BY <1>0, <1>15 DEF AbortLease, At, ProducerOk, Begun, Holding
  <2>2. CASE /\ leases' = [leases EXCEPT ![Own(p)] = "ABORTED"]
             /\ producers' = [producers EXCEPT ![p].pc = "drop", ![p].list = {Own(p)}]
    <3>1. /\ Rest /\ Own(p)' = Own(p) /\ producers'[p].pc = "drop"
          /\ producers'[p].list = {Own(p)}
      BY <1>0, <2>2 DEF TypeOK, ProducerState, Own
    <3>2. leases'[Own(p)] = "ABORTED" /\ runs'[Own(p)].stored
      BY <1>0, <1>15, <2>1, <2>2 DEF AbortLease, TypeOK
    <3> QED BY <1>0, <2>1, <3>1, <3>2 DEF ProducerOk, At, Holding, Begun, LeaseLost
  <2> QED BY <1>2, <1>15, <2>2 DEF AbortLease
<1>16. CASE Crash(p)
  BY <1>2, <1>16 DEF Crash
<1> QED
  BY <1>0, <1>5, <1>6, <1>7, <1>8, <1>9, <1>10, <1>11, <1>12, <1>13, <1>14, <1>15, <1>16
     DEF ProducerStep

LEMMA ProducerInvStep ==
    ASSUME RunsInv, [Next]_vars
    PROVE  ProducerInv'
<1>0. /\ TypeOK /\ ProducerInv
      /\ \A l \in Lease : Steady(l)
      /\ \A p \in Producer : Own(p) \in Lease \cup {NoLease}
  BY SteadyStep DEF RunsInv, TypeOK, ProducerState, Own
<1>1. ASSUME NEW l \in Lease, leases'[l] = "none"
      PROVE  exposures'[l] = "none" /\ ~runs'[l].stored
  <2>1. leases[l] = "none" /\ exposures[l] = "none" /\ ~runs[l].stored
    BY <1>0, <1>1 DEF Steady, ProducerInv
  <2>2. \A p \in Producer : Own(p) # l
    BY <1>0, <2>1, RunsAssumption DEF ProducerInv, ProducerOk
  <2> QED BY <2>1, <2>2, OnlyHolderBegins
<1>2. CASE producers' = producers
  <2>1. \A q \in Producer : ProducerOk(q)'
    BY <1>2, IdleProducer
  <2> QED BY <1>0, <1>1, <1>2, <2>1 DEF ProducerInv, Own
<1>3. ASSUME NEW p \in Producer, ProducerStep(p) \/ RunFails(p) \/ Crash(p)
      PROVE  ProducerInv'
  <2>1. \A q \in Producer \ {p} : producers'[q] = producers[q] /\ Own(q)' = Own(q)
    BY <1>3, ProducerMovesOk DEF Own
  <2>2. \A q \in Producer : ProducerOk(q)'
    BY <1>3, <2>1, ProducerMovesOk, IdleProducer
  <2>3. \A q \in Producer \ {p} : Own(q)' = Own(p)' => Own(p)' = NoLease
    BY <1>0, <1>3, <2>1, ProducerMovesOk DEF ProducerInv, ProducerOk
  <2>4. (\A q, r \in Producer : Own(q) = Own(r) /\ Own(q) # NoLease => q = r)'
    BY <1>0, <2>1, <2>3 DEF ProducerInv
  <2> QED BY <1>1, <2>2, <2>4 DEF ProducerInv
<1>4. ASSUME NEW l \in Lease, QueueStep(l) \/ StoreProof(l) \/ Lapse(l)
      PROVE  producers' = producers
  BY <1>4 DEF QueueStep, FlushEnqueue, FlushDelete, EndTask, StoreProof, Lapse
<1>5. ASSUME ExpireLeases \/ ReaderStep \/ ReaderCrash
      PROVE  producers' = producers
  BY <1>5 DEF ExpireLeases, ReaderStep, ReaderCrash, Apply, List, ReadFrontier, Done, ReadLease,
     CountQueued, CountStaged, RecordValidation, RecordValidationProgress, CheckRun,
     CloseExposure, CloseRun, readerOnly
<1>6. CASE UNCHANGED vars
  BY <1>2, <1>6 DEF vars
<1> QED
  BY <1>2, <1>3, <1>4, <1>5, <1>6 DEF Next

-----------------------------------------------------------------------------
(* What the readiness service has seen stays true, however old it is.      *)

LEMMA ReaderInvStep ==
    ASSUME RunsInv, [Next]_vars
    PROVE  ReaderInv'
<1>0. /\ TypeOK /\ ReaderInv
      /\ reader \in ReaderState
      /\ reader.todo \in SUBSET Lease /\ Current \in Lease \cup {NoLease}
      /\ \A l \in Lease : Steady(l)
  BY SteadyStep DEF RunsInv, TypeOK, ReaderState, Current
<1>1. ASSUME reader'.todo \in SUBSET Lease,
             \A l \in reader'.todo : runs[l].stored,
             reader'.pc \in LookedAt => Current' \in Lease /\ runs[Current'].stored,
             reader'.ended => reader'.pc \in LookedAt /\ leases[Current'] \in LeaseEnded,
             reader'.pc \in Passed => reader'.ended,
             reader'.pc = "close" => exposures'[Current'] = "FINAL_CLOSED"
      PROVE  ReaderInv'
  <2>1. ListInv'
    BY <1>0, <1>1 DEF ListInv, Steady
  <2>2. LookInv'
    BY <1>0, <1>1, RunsAssumption DEF LookInv, Steady
  <2>3. EndedInv'
    BY <1>0, <1>1 DEF EndedInv, Steady
  <2>4. PassedInv'
    BY <1>1 DEF PassedInv
  <2>5. CloseInv'
    BY <1>1 DEF CloseInv, Reading
  <2> QED BY <2>1, <2>2, <2>3, <2>4, <2>5 DEF ReaderInv
<1>2. ASSUME reader' = Syncing
      PROVE  ReaderInv'
  <2>1. reader'.pc = "sync" /\ reader'.todo = {} /\ reader'.ended = FALSE
    BY <1>2 DEF Syncing
  <2> QED BY <1>1, <2>1 DEF LookedAt, Passed
<1>3. ASSUME NextRun
      PROVE  ReaderInv'
  <2>1. reader'.pc = "next" /\ reader'.todo = reader.todo /\ reader'.ended = FALSE
    BY <1>3 DEF NextRun, Syncing
  <2> QED BY <1>0, <1>1, <2>1 DEF ReaderInv, ListInv, LookedAt, Passed
\* The service goes on with the run it looks at.
<1>4. ASSUME reader'.todo = reader.todo, Current' = Current,
             reader.pc \in LookedAt, reader'.pc \in LookedAt,
             reader'.ended => leases[Current] \in LeaseEnded,
             reader'.pc \in Passed => reader'.ended,
             reader'.pc = "close" => exposures'[Current] = "FINAL_CLOSED"
      PROVE  ReaderInv'
  <2>1. Current \in Lease /\ runs[Current].stored
    BY <1>0, <1>4 DEF ReaderInv, LookInv
  <2>2. \A l \in reader.todo : runs[l].stored
    BY <1>0 DEF ReaderInv, ListInv
  <2> QED BY <1>0, <1>1, <1>4, <2>1, <2>2
<1>5. ASSUME NEW pc \in LookedAt, Then(pc), reader.pc \in LookedAt,
             pc \in Passed => reader.ended,
             pc = "close" => exposures'[Current] = "FINAL_CLOSED"
      PROVE  ReaderInv'
  <2>1. /\ reader'.pc = pc /\ reader'.todo = reader.todo
        /\ reader'.ended = reader.ended /\ Current' = Current
    BY <1>0, <1>5 DEF Then, Current, ReaderState
  <2>2. reader.ended => leases[Current] \in LeaseEnded
    BY <1>0 DEF ReaderInv, EndedInv
  <2> QED BY <1>4, <1>5, <2>1, <2>2
\* At the start of a cycle, and between two runs, nothing has been answered.
<1>6. reader.pc \notin LookedAt => reader.ended = FALSE
  BY <1>0 DEF ReaderInv, EndedInv, ReaderState
<1>7. CASE Apply
  <2>1. reader'.pc = "list" /\ reader'.todo = reader.todo /\ reader'.ended = FALSE
    BY <1>0, <1>6, <1>7 DEF Apply, Then, ReaderState, Reading, LookedAt
  <2> QED BY <1>0, <1>1, <2>1 DEF ReaderInv, ListInv, LookedAt, Passed
<1>8. CASE List
  <2>1. /\ reader'.pc = "next" /\ reader'.ended = FALSE
        /\ reader'.todo \in SUBSET Lease /\ \A l \in reader'.todo : runs[l].stored
    BY <1>0, <1>6, <1>8 DEF List, ReaderState, Reading, LookedAt
  <2> QED BY <1>1, <2>1 DEF LookedAt, Passed
<1>9. CASE ReadFrontier
  <2>1. PICK l \in reader.todo :
           reader' = [reader EXCEPT !.pc = "lease", !.todo = @ \ {l},
                                    !.lease = l, !.frontier = proofs[l]]
    BY <1>9 DEF ReadFrontier
  <2>2. /\ reader'.pc = "lease" /\ reader'.ended = FALSE /\ Current' = l
        /\ reader'.todo = reader.todo \ {l}
    BY <1>0, <1>6, <1>9, <2>1 DEF ReadFrontier, Current, ReaderState, Reading, LookedAt
  <2>3. \A m \in reader.todo : m \in Lease /\ runs[m].stored
    BY <1>0 DEF ReaderInv, ListInv
  <2> QED BY <1>1, <2>2, <2>3 DEF LookedAt, Passed
<1>10. CASE Done
  BY <1>2, <1>10 DEF Done
<1>11. CASE ReadLease
  <2>1. /\ reader'.pc = "queued" /\ Current' = Current /\ reader'.todo = reader.todo
        /\ reader.pc = "lease"
    BY <1>0, <1>11 DEF ReadLease, Current, ReaderState, Reading
  <2>2. reader'.ended => leases[Current] \in LeaseEnded
    BY <1>0, <1>11 DEF ReadLease, ReaderState
  <2> QED BY <1>4, <2>1, <2>2 DEF LookedAt, Passed
<1>12. CASE CountQueued
  <2>1. /\ reader'.pc = "staged" /\ Current' = Current /\ reader'.todo = reader.todo
        /\ reader.pc = "queued" /\ reader'.ended = reader.ended
    BY <1>0, <1>12 DEF CountQueued, Current, ReaderState, Reading
  <2>2. reader.ended => leases[Current] \in LeaseEnded
    BY <1>0 DEF ReaderInv, EndedInv
  <2> QED BY <1>4, <2>1, <2>2 DEF LookedAt, Passed
<1>13. CASE CountStaged
  <2>1. /\ reader'.pc = "validate" /\ Current' = Current /\ reader'.todo = reader.todo
        /\ reader.pc = "staged" /\ reader'.ended = reader.ended
    BY <1>0, <1>13 DEF CountStaged, Current, ReaderState, Reading
  <2>2. reader.ended => leases[Current] \in LeaseEnded
    BY <1>0 DEF ReaderInv, EndedInv
  <2> QED BY <1>4, <2>1, <2>2 DEF LookedAt, Passed
<1>14. CASE RecordValidation
  <2>1. Then("progress") /\ reader.pc = "validate"
    BY <1>14 DEF RecordValidation, Reading
  <2> QED BY <1>5, <2>1 DEF LookedAt, Passed
<1>15. CASE RecordValidationProgress
  <2>1. /\ reader.pc = "progress"
        /\ reader' = Syncing \/ NextRun \/ (Then("check") /\ reader.ended)
    BY <1>15 DEF RecordValidationProgress, ValidationComplete, Reading
  <2> QED BY <1>2, <1>3, <1>5, <2>1 DEF LookedAt
<1>16. CASE CheckRun
  <2>1. reader.pc = "check" /\ (NextRun \/ Then("finalize"))
    BY <1>16 DEF CheckRun, Reading
  <2>2. reader.ended
    BY <1>0, <2>1 DEF ReaderInv, PassedInv, Passed
  <2> QED BY <1>3, <1>5, <2>1, <2>2 DEF LookedAt
<1>17. CASE CloseExposure
  <2>1. /\ reader.pc = "finalize"
        /\ NextRun \/ (Then("close") /\ FinalizeExposure(Current))
    BY <1>17 DEF CloseExposure, Reading
  <2>2. reader.ended /\ Current \in Lease
    BY <1>0, <2>1 DEF ReaderInv, PassedInv, LookInv, Passed, LookedAt
  <2>3. FinalizeExposure(Current) => exposures'[Current] = "FINAL_CLOSED"
    BY <1>0, <2>2 DEF FinalizeExposure, TypeOK
  <2> QED BY <1>3, <1>5, <2>1, <2>2, <2>3 DEF LookedAt
<1>18. CASE CloseRun
  BY <1>3, <1>18 DEF CloseRun
<1>19. CASE ReaderCrash
  BY <1>2, <1>19 DEF ReaderCrash
<1>20. CASE reader' = reader
  <2>1. Current' = Current /\ reader'.todo \in SUBSET Lease
    BY <1>0, <1>20 DEF Current
  <2>2. /\ \A l \in reader'.todo : runs[l].stored
        /\ reader'.pc \in LookedAt => Current' \in Lease /\ runs[Current'].stored
    BY <1>0, <1>20, <2>1 DEF ReaderInv, ListInv, LookInv
  <2>3. /\ reader'.ended => reader'.pc \in LookedAt /\ leases[Current'] \in LeaseEnded
        /\ reader'.pc \in Passed => reader'.ended
    BY <1>0, <1>20, <2>1 DEF ReaderInv, EndedInv, PassedInv
  <2>4. reader'.pc = "close" => exposures'[Current'] = "FINAL_CLOSED"
    BY <1>0, <1>20, <2>1, <2>2 DEF ReaderInv, CloseInv, Reading, Steady, ExposureTerminal, LookedAt
  <2> QED BY <1>1, <2>1, <2>2, <2>3, <2>4
<1>21. ASSUME NEW p \in Producer, ProducerStep(p) \/ RunFails(p) \/ Crash(p)
      PROVE  reader' = reader
  BY <1>21 DEF ProducerStep, RecoverLeases, RecoverExposures, Sweep, Drop, DropRow, Take,
     BeginExposure, BeginRun, Ask, CommitDirect, RecordRead, RecordReadProgress,
     FinalizeLease, AbortLease, RunFails, Crash
<1>22. ASSUME NEW l \in Lease, QueueStep(l) \/ StoreProof(l) \/ Lapse(l)
      PROVE  reader' = reader
  BY <1>22 DEF QueueStep, FlushEnqueue, FlushDelete, EndTask, StoreProof, Lapse
<1>23. ASSUME ExpireLeases \/ UNCHANGED vars
      PROVE  reader' = reader
  BY <1>23 DEF ExpireLeases, vars
<1> QED
  BY <1>7, <1>8, <1>9, <1>10, <1>11, <1>12, <1>13, <1>14, <1>15, <1>16, <1>17, <1>18,
     <1>19, <1>20, <1>21, <1>22, <1>23 DEF Next, ReaderStep

\* Only CloseRun closes a run.
LEMMA OnlyCloseRunCloses ==
    ASSUME RunsInv, [Next]_vars, NEW l \in Lease, runs'[l].stored, runs'[l].closed
    PROVE  \/ runs[l].stored /\ runs[l].closed
           \/ CloseRun /\ l = Current /\ runs[l].stored /\ runs[l].read
<1>0. /\ TypeOK /\ ProducerInv /\ ReaderInv
      /\ runs[l] \in Run \cup {NoRun}
      /\ \A p \in Producer : Own(p) \in Lease \cup {NoLease}
  BY DEF RunsInv, TypeOK, ProducerState, Own
<1>1. ASSUME NEW p \in Producer, DropRow(p)
      PROVE  runs[l].stored /\ runs[l].closed
  BY <1>0, <1>1 DEF DropRow, TypeOK, Run, NoRun
<1>2. ASSUME NEW p \in Producer, BeginRun(p)
      PROVE  runs[l].stored /\ runs[l].closed
  BY <1>0, <1>2 DEF BeginRun, TypeOK
<1>3. ASSUME NEW p \in Producer, RecordRead(p)
      PROVE  runs[l].stored /\ runs[l].closed
  <2>1. Own(p) # NoLease /\ runs[Own(p)].stored
    BY <1>0, <1>3 DEF RecordRead, At, ProducerInv, ProducerOk, Begun, Holding
  <2> QED BY <1>0, <1>3, <2>1 DEF RecordRead, TypeOK, Run, NoRun
<1>4. CASE RecordValidation
  <2>1. runs[Current].stored
    BY <1>0, <1>4 DEF RecordValidation, Reading, ReaderInv, LookInv, LookedAt
  <2> QED BY <1>0, <1>4, <2>1 DEF RecordValidation, TypeOK, Run, NoRun
<1>5. CASE CloseRun
  <2>1. runs[Current].stored
    BY <1>0, <1>5 DEF CloseRun, Reading, ReaderInv, LookInv, LookedAt
  <2> QED BY <1>0, <1>5, <2>1 DEF CloseRun, TypeOK, Run, NoRun
<1>6. ASSUME runs' = runs
      PROVE  runs[l].stored /\ runs[l].closed
  BY <1>6
<1>7. ASSUME NEW p \in Producer, ProducerStep(p) \/ RunFails(p) \/ Crash(p)
      PROVE  runs' = runs \/ DropRow(p) \/ BeginRun(p) \/ RecordRead(p)
  BY <1>7 DEF ProducerStep, RecoverLeases, RecoverExposures, Sweep, Drop, Take,
     BeginExposure, Ask, CommitDirect, RecordReadProgress, FinalizeLease, AbortLease, RunFails, Crash
<1>8. ASSUME NEW m \in Lease, QueueStep(m) \/ StoreProof(m) \/ Lapse(m)
      PROVE  runs' = runs
  BY <1>8 DEF QueueStep, FlushEnqueue, FlushDelete, EndTask, StoreProof, Lapse
<1>9. ASSUME ExpireLeases \/ ReaderStep \/ ReaderCrash \/ UNCHANGED vars
      PROVE  runs' = runs \/ RecordValidation \/ CloseRun
  BY <1>9 DEF ExpireLeases, ReaderStep, ReaderCrash, Apply, List, ReadFrontier, Done, ReadLease,
     CountQueued, CountStaged, RecordValidationProgress, CheckRun, CloseExposure, readerOnly, vars
<1> QED
  BY <1>1, <1>2, <1>3, <1>4, <1>5, <1>6, <1>7, <1>8, <1>9 DEF Next

LEMMA SettledStep ==
    ASSUME RunsInv, [Next]_vars
    PROVE  FinalRunSettled'
<1> SUFFICES ASSUME NEW l \in Lease, runs'[l].stored, runs'[l].closed
             PROVE  leases'[l] \in LeaseEnded /\ runs'[l].read /\ exposures'[l] = "FINAL_CLOSED"
  BY DEF FinalRunSettled
<1>1. Steady(l) /\ FinalRunSettled /\ ReaderInv
  BY SteadyStep DEF RunsInv
<1>2. CASE runs[l].stored /\ runs[l].closed
  BY <1>1, <1>2 DEF Steady, FinalRunSettled, ExposureTerminal
<1>3. CASE CloseRun /\ l = Current /\ runs[l].stored /\ runs[l].read
  <2>1. leases[l] \in LeaseEnded /\ exposures[l] = "FINAL_CLOSED"
    BY <1>1, <1>3 DEF CloseRun, ReaderInv, EndedInv, PassedInv, CloseInv, Reading, Passed
  <2> QED BY <1>1, <1>3, <2>1 DEF Steady, ExposureTerminal
<1> QED BY <1>2, <1>3, OnlyCloseRunCloses

-----------------------------------------------------------------------------

LEMMA RunsInit == Init => RunsInv
<1> SUFFICES ASSUME Init PROVE RunsInv
  OBVIOUS
<1> USE RunsAssumption
<1>1. Cardinality(Lease) \in Nat
  BY FS_CardinalityType
<1>2. Idle \in ProducerState /\ Syncing \in ReaderState
  BY <1>1 DEF Idle, Syncing, ProducerState, ReaderState
<1>3. TypeOK
  BY <1>1, <1>2 DEF Init, TypeOK, Phase, LeaseEnded, ExposureTerminal
<1>4. ProducerInv
  <2>1. \A l \in Lease : exposures[l] = "none" /\ ~runs[l].stored
    BY DEF Init, NoRun
  <2>2. \A p \in Producer : Own(p) = NoLease /\ producers[p].pc = "idle" /\ producers[p].list = {}
    BY DEF Init, Own, Idle
  <2> QED BY <2>1, <2>2 DEF ProducerInv, ProducerOk, At, Holding, Begun
<1>5. ReaderInv
  BY DEF Init, ReaderInv, ListInv, LookInv, EndedInv, PassedInv, CloseInv, Syncing, LookedAt, Passed, Reading
<1>6. FinalRunSettled
  BY DEF Init, FinalRunSettled, NoRun
<1> QED
  BY <1>3, <1>4, <1>5, <1>6 DEF RunsInv

LEMMA RunsStep == RunsInv /\ [Next]_vars => RunsInv'
<1> SUFFICES ASSUME RunsInv, [Next]_vars
             PROVE  RunsInv'
  OBVIOUS
<1>1. TypeOK'
  <2>1. CASE UNCHANGED vars
    BY <2>1 DEF RunsInv, TypeOK, vars
  <2> QED BY <2>1, TypeStep
<1> QED
  BY <1>1, ProducerInvStep, ReaderInvStep, SettledStep DEF RunsInv

\* A run that counts as FINAL belongs to a lease that ended, was read to its
\* end and lost its exposure to nobody (close_source_run).
THEOREM RunsSettled == Spec => [](TypeOK /\ FinalRunSettled)
<1>1. RunsInv => TypeOK /\ FinalRunSettled
  BY DEF RunsInv
<1> QED
  BY <1>1, RunsInit, RunsStep, PTL DEF Spec

\* No step of the two services, and no crash, moves an exposure back
\* (record_production_exposure_progress).
THEOREM ExposuresForward == Spec => ExposureMovesForward
<1>1. RunsInv /\ [Next]_vars =>
        [\A l \in Lease : /\ Order(exposures[l]) =< Order(exposures'[l])
                          /\ exposures[l] \in ExposureTerminal => exposures'[l] = exposures[l]]_vars
  BY SteadyStep DEF Steady
<1> QED
  BY <1>1, RunsInit, RunsStep, PTL DEF Spec, ExposureMovesForward

=============================================================================
