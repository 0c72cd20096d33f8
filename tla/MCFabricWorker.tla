-------------------------- MODULE MCFabricWorker --------------------------
(* Small instances of FabricWorker for TLC.                               *)
EXTENDS FabricWorker, TLC

CONSTANTS w1, w2, t1, d1, d2

OneWorker == {w1}
TwoWorkers == {w1, w2}
OneTask == {t1}
OnePayload == {d1}
TwoPayloads == {d1, d2}
AllCapable == Worker \X Task
NoDelay == {0}
WorkerSymmetry == Permutations(TwoWorkers)
===========================================================================
