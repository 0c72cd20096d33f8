-------------------------- MODULE MCEvidenceBridge --------------------------
(* Small instances of EvidenceBridge for TLC.                             *)
EXTENDS EvidenceBridge, TLC

CONSTANTS t1, t2, w1, br

OneTask == {t1}
TwoTasks == {t1, t2}
NoWorkers == {}
OneWorker == {w1}
BridgeOnly == {br}
BothOwners == {w1, br}

\* t1 is a range of years, with a known origin.
FirstTask == {t1}
==========================================================================
