-------------------------- MODULE MCSourceProducer --------------------------
(* A small instance of SourceProducer for TLC.                            *)
EXTENDS SourceProducer, TLC

CONSTANTS r1, k1, k2, l1, l2, x1, x2, x3, p1, p2

OneReservoir == {r1}
TwoKeys == {k1, k2}
TwoLeases == {l1, l2}
ThreeReservations == {x1, x2, x3}
TwoProducers == {p1, p2}

\* A lease that reads both chunks finds one slot for two keys.
Apart == [r \in OneReservoir |-> [c \in 0 .. 1 |-> IF c = 0 THEN {k1} ELSE {k2}]]

ProducerSymmetry == Permutations(TwoProducers)
=============================================================================
