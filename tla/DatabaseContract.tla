-------------------------- MODULE DatabaseContract --------------------------
(***************************************************************************)
(* What schema.sql promises of a database file to whoever reads it later:  *)
(* its registry tables are filled once, with one whole topology, before    *)
(* anything else; a row refers to an object that is registered in the same *)
(* file; and nothing recorded is changed or lost while the file lives.     *)
(***************************************************************************)
CONSTANT Topologies     \* the sets of objects a topology may declare

VARIABLES
    registry,           \* the objects in the registry tables
    rows                \* the objects that have rows

vars == <<registry, rows>>

Init == registry = {} /\ rows = {}

Register(topology) ==
    /\ registry = {} /\ rows = {}
    /\ registry' = topology
    /\ UNCHANGED rows

Record(objects) ==
    /\ objects \subseteq registry
    /\ rows' = rows \cup objects
    /\ UNCHANGED registry

Next ==
    \/ \E topology \in Topologies : Register(topology)
    \/ \E objects \in SUBSET registry : Record(objects)

Spec == Init /\ [][Next]_vars
=============================================================================
