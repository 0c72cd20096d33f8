------------------------ MODULE MCProviderPermits ------------------------
(* A small instance of ProviderPermits for TLC, from two starting points. *)
EXTENDS ProviderPermits, TLC

CONSTANTS w1, w2, r1, c1, c2, c3

TwoWorkers == {w1, w2}
OneRegion == {r1}
ThreeCalls == {c1, c2, c3}
SameRegion == [w \in Worker |-> r1]
Split == [c \in Call |-> IF c = c1 THEN w1 ELSE w2]
TwoCooldowns == {1, 2}

\* c1 and c2 are to come, c3 has made its request.
Others == [c \in Call |-> IdleAfter(IF c = c3 THEN 1 ELSE 0)]

\* The program as it starts, but for c3, which does nothing.
Fresh == /\ now = 1 /\ minted = 0
         /\ permits = {} /\ late = {} /\ leased = {}
         /\ regions = [r \in Region |-> [state |-> "UNKNOWN", samples |-> 0,
                                        successes |-> 0, failures |-> 0, at |-> 0]]
         /\ past = [received |-> [w \in Worker |-> 0],
                    throttledUntil |-> 0, qualified |-> {}]

\* A state it comes to, when earlier permits are collected (their ids are
\* not counted): the region
\* has qualified, and c3, whose permit still counts, has given up on its
\* report, which is under way.
Warm == /\ now = 3 /\ minted = 1
        /\ permits = {[id |-> 1, call |-> c3, req |-> 1, expires |-> 5,
                       active |-> TRUE]}
        /\ late = {[kind |-> "report", call |-> c3, permit |-> 1,
                    status |-> "throttled", cool |-> 2]}
        /\ leased = Worker
        /\ regions = [r \in Region |-> [state |-> "QUALIFIED", samples |-> 3,
                                       successes |-> 3, failures |-> 0, at |-> 1]]
        /\ past = [received |-> [w \in Worker |-> IF w = WorkerOf[c3] THEN 1 ELSE 0],
                   throttledUntil |-> 0, qualified |-> Region]

MCInit ==
    /\ Fresh \/ Warm
    /\ nextAt = 0 /\ coolUntil = 0
    /\ egress = [w \in Worker |-> 0]
    /\ calls = Others

MCSpec == MCInit /\ [][Next]_vars
==========================================================================
