------------------------ MODULE MCFabricAuthority ------------------------
(* Small instances of FabricAuthority and of its refinement for TLC.      *)
EXTENDS FabricRefinement, TLC

CONSTANTS w1, w2, t1, t2, d1

MCWorker == {w1, w2}
OneTask == {t1}
TwoTasks == {t1, t2}
OnePayload == {d1}

\* Both workers may run every task.
AllCapable == MCWorker \X Task

NoDelay == {0}
SomeDelay == {0, 1}

\* Workers are interchangeable, and so are tasks.
WorkerSymmetry == Permutations(MCWorker)
Symmetry == Permutations(MCWorker) \cup Permutations(TwoTasks)
==========================================================================
