--------------------------- MODULE MCRecoveryLoop ---------------------------
(***************************************************************************)
(* RecoveryLoop on the repository's topology.  The link under telemetry is *)
(* the second one, whose ends are not the default ones; a read of the      *)
(* registry may find it, or the first link only.                           *)
(***************************************************************************)
EXTENDS RecoveryLoop

Entry(x, y) == [a |-> x, b |-> y, capacity |-> 1000, delay |-> 5]

\* contracts/topology_registry.yaml, and a version that has its first link only.
Tree == [l \in {"L1", "L2"} |-> IF l = "L1" THEN Entry("s1", "s2") ELSE Entry("s1", "s3")]
FirstLink == [l \in {"L1"} |-> Entry("s1", "s2")]
Versions == {Tree, FirstLink}
=============================================================================
