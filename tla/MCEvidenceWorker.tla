-------------------------- MODULE MCEvidenceWorker --------------------------
(* Small instances of EvidenceWorker for TLC.                             *)
EXTENDS EvidenceWorker, TLC

CONSTANTS t1, t2, w1, w2

TwoTasks == {t1, t2}
OneTask == {t1}
OneWorker == {w1}
TwoWorkers == {w1, w2}

\* t1 is a range of years, with a known origin.
WideOnes == {t1}
TracedOnes == {t1}

WorkerSymmetry == Permutations({w1, w2})
==========================================================================
