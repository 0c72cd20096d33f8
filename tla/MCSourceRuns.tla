---------------------------- MODULE MCSourceRuns ----------------------------
(* Small instances of SourceRuns for TLC.                                 *)
EXTENDS SourceRuns, TLC

CONSTANTS l1, l2, p1, p2

OneLease == {l1}
TwoLeases == {l1, l2}
OneProducer == {p1}
TwoProducers == {p1, p2}
=============================================================================
