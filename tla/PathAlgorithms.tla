--------------------------- MODULE PathAlgorithms ---------------------------
(***************************************************************************)
(* recovery/path_algorithms.py: the graph of the topology registry and the *)
(* shortest path over the edges that meet the constraints.                 *)
(***************************************************************************)
EXTENDS Integers, Sequences, FiniteSets

\* The edges of build_registry_graph: each link both ways, with weight 1.
\* registry gives the endpoints, the capacity and the delay of each link.
build_registry_graph(registry) ==
    UNION {{[from |-> e[1], to |-> e[2],
             capacity |-> registry[l].capacity, delay |-> registry[l].delay] :
                e \in {<<registry[l].a, registry[l].b>>, <<registry[l].b, registry[l].a>>}} :
           l \in DOMAIN registry}

Nodes(g) == {e.from : e \in g} \cup {e.to : e \in g}

\* The paths that visit no node twice.
SimplePaths(g, source, target) ==
    {p \in UNION {[1 .. n -> Nodes(g)] : n \in 1 .. Cardinality(Nodes(g))} :
        /\ p[1] = source /\ p[Len(p)] = target
        /\ \A i, j \in DOMAIN p : p[i] = p[j] => i = j
        /\ \A i \in 1 .. Len(p) - 1 : \E e \in g : e.from = p[i] /\ e.to = p[i + 1]}

\* Every edge has weight 1.
PathWeight(p) == Len(p) - 1

\* The default of max_delay_per_link, float('inf'): a number that is no delay.
Infinity == -1

\* cspf_path: the paths nx.dijkstra_path may return, none when it finds no way.
cspf_path(g, source, target, min_bw, max_delay) ==
    LET filtered == {e \in g : /\ e.capacity >= min_bw
                               /\ max_delay = Infinity \/ e.delay <= max_delay}
        paths == SimplePaths(filtered, source, target)
    IN  {p \in paths : \A q \in paths : PathWeight(p) <= PathWeight(q)}
=============================================================================
