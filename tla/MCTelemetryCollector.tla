------------------------ MODULE MCTelemetryCollector ------------------------
(***************************************************************************)
(* TelemetryCollector on the smallest topologies that show its races.      *)
(***************************************************************************)
EXTENDS TelemetryCollector

CONSTANTS L1, L2, s1, s2, s3

\* L1 joins s1 and s2.
OneLink == [p \in {L1} \X {"a", "b"} |-> IF p[2] = "a" THEN s1 ELSE s2]

\* L1 joins s1 and s2, and L2 joins s1 and s3.
Tree == [p \in {L1, L2} \X {"a", "b"} |->
            IF p[2] = "a" THEN s1 ELSE IF p[1] = L1 THEN s2 ELSE s3]

\* The traffic of a run: how many packets each port transmits.
Traffic(ls, a, b) == [p \in ls \X {"a", "b"} |-> IF p[2] = "a" THEN a ELSE b]
Silent == Traffic({L1}, 0, 0)
SilentPair == Traffic({L1, L2}, 0, 0)
OnlyOrder == [l \in {L1} |-> 1]
RegistryOrder == [l \in {L1, L2} |-> IF l = L1 THEN 1 ELSE 2]
OneWayTwo == Traffic({L1}, 2, 0)
=============================================================================
