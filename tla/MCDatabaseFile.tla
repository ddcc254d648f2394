--------------------------- MODULE MCDatabaseFile ---------------------------
(***************************************************************************)
(* DatabaseFile with one edit of the topology script, which replaces link  *)
(* L1 by host h1, so that no object outlives the version that declares it. *)
(***************************************************************************)
EXTENDS DatabaseFile, TLC

CONSTANTS h1, L1, i1, i2

LinkReplacedByHost == [v \in 0 .. 1 |-> IF v = 0 THEN {L1} ELSE {h1}]

InitialisersAlike == Permutations({i1, i2})
=============================================================================
