------------------------- MODULE RecoveryLoopProofs -------------------------
(***************************************************************************)
(* What the control loop does holds for every set of registry versions,    *)
(* every number of links, rows, requests and restarts and every length of  *)
(* the windows.                                                            *)
(*                                                                         *)
(* The snapshot a pass works through ages, but it stays a set of windows   *)
(* of rows that were written, each of its own link, and none of them more  *)
(* than a window older than another; what the baseline still has to read   *)
(* are complete rows that were written (Snapshot).  Rows and requests are  *)
(* never taken back, so that a request keeps its cause.  Each step of the  *)
(* loop is a step of the executor, or leaves it alone.                     *)
(***************************************************************************)
EXTENDS RecoveryLoop, FiniteSetTheorems, FunctionTheorems, WellFoundedInduction, TLAPS

\* What is proved of the executor, for the clients it has here.
Proved == INSTANCE RecoveryExecutorProofs
    WITH Bodies <- {ReactiveBody(l) : l \in Links}
                    \cup UNION {{PredictiveBody(l, p) : p \in RequestPaths(l)} : l \in Links},
         TopologyLinks <- Links

\* A non-empty set of times has a latest one, and it is the one Max chooses.
LEMMA LatestTime ==
    ASSUME NEW m \in Nat, NEW S, S \subseteq 0 .. m, S # {}
    PROVE  Max(S) \in S /\ \A x \in S : x <= Max(S)
<1> DEFINE Before == {m - x : x \in S}
<1>1. Before \subseteq Nat /\ Before # {}
  <2>1. \A x \in S : m - x \in Nat
    OBVIOUS
  <2>2. PICK x \in S : TRUE
    OBVIOUS
  <2> QED  BY <2>1, <2>2
<1>2. PICK d \in Before : \A e \in Before : <<e, d>> \notin OpToRel(<, Nat)
  BY <1>1, NatLessThanWellFounded, WFMin
<1>3. \A e \in Before : ~(e < d)
  BY <1>1, <1>2 DEF OpToRel
<1>4. PICK x \in S : d = m - x
  BY <1>2
<1>5. \A y \in S : x >= y
  <2> SUFFICES ASSUME NEW y \in S, ~(x >= y)  PROVE FALSE
    OBVIOUS
  <2>1. m - y \in Before
    OBVIOUS
  <2>2. m - y < d
    BY <1>4
  <2> QED  BY <1>3, <2>1, <2>2
<1>6. Max(S) \in S /\ \A y \in S : Max(S) >= y
  BY <1>5 DEF Max
<1> QED  BY <1>6

-----------------------------------------------------------------------------
\* Paths.

\* The nodes of any part of the registry's graph are finitely many.
LEMMA FinitelyManyNodes ==
    ASSUME NEW file, IsFiniteSet(DOMAIN file), NEW g \in SUBSET build_registry_graph(file)
    PROVE  IsFiniteSet(Nodes(g))
<1> DEFINE as == {file[l].a : l \in DOMAIN file}
           bs == {file[l].b : l \in DOMAIN file}
           A == [l \in DOMAIN file |-> file[l].a]
           B == [l \in DOMAIN file |-> file[l].b]
<1>1. A \in Surjection(DOMAIN file, as) /\ B \in Surjection(DOMAIN file, bs)
  BY DEF Surjection
<1>2. IsFiniteSet(as) /\ IsFiniteSet(bs)
  BY <1>1, FS_Surjection
<1>3. ASSUME NEW e \in build_registry_graph(file)
      PROVE  e.from \in as \cup bs /\ e.to \in as \cup bs
  <2>1. PICK l \in DOMAIN file : e \in {[from |-> x[1], to |-> x[2],
            capacity |-> file[l].capacity, delay |-> file[l].delay] :
                x \in {<<file[l].a, file[l].b>>, <<file[l].b, file[l].a>>}}
    BY DEF build_registry_graph
  <2>2. {e.from, e.to} \subseteq {file[l].a, file[l].b}
    BY <2>1
  <2> QED  BY <2>2
<1>4. Nodes(g) \subseteq as \cup bs
  BY <1>3 DEF Nodes
<1> HIDE DEF as, bs
<1> QED  BY <1>2, <1>4, FS_Union, FS_Subset

\* What a path search finds between two different ends of a graph with these nodes.
LEMMA FoundBetween ==
    ASSUME NEW g, IsFiniteSet(Nodes(g)), NEW source, NEW target,
           NEW p \in SimplePaths(g, source, target)
    PROVE  /\ Len(p) \in 1 .. Cardinality(Nodes(g)) /\ p \in [1 .. Len(p) -> Nodes(g)]
           /\ p[1] = source /\ p[Len(p)] = target
           /\ source \in Nodes(g) /\ target \in Nodes(g)
<1>1. Cardinality(Nodes(g)) \in Nat
  BY FS_CardinalityType
<1>2. PICK n \in 1 .. Cardinality(Nodes(g)) : p \in [1 .. n -> Nodes(g)]
  BY DEF SimplePaths
<1>3. n \in Nat /\ Len(p) = n /\ 1 \in 1 .. n /\ n \in 1 .. n
  BY <1>1, <1>2
<1>4. p[1] = source /\ p[Len(p)] = target
  BY DEF SimplePaths
<1> QED  BY <1>2, <1>3, <1>4

\* A link of the graph is the one shortest path between its ends.
LEMMA LinkIsShortest ==
    ASSUME NEW file, IsFiniteSet(DOMAIN file), NEW l \in DOMAIN file,
           file[l].a # file[l].b, file[l].capacity \in Nat
    PROVE  cspf_path(build_registry_graph(file), file[l].a, file[l].b, 0, Infinity) = {Ends(file, l)}
<1> DEFINE a == file[l].a
           b == file[l].b
           graph == build_registry_graph(file)
           usable == {e \in graph : /\ e.capacity >= 0
                                    /\ Infinity = Infinity \/ e.delay <= Infinity}
           link == <<a, b>>
<1>1. a # b /\ \E e \in usable : e.from = a /\ e.to = b
  <2> DEFINE e == [from |-> a, to |-> b, capacity |-> file[l].capacity, delay |-> file[l].delay]
  <2>1. e \in graph
    BY DEF build_registry_graph
  <2>2. e.capacity >= 0
    OBVIOUS
  <2> QED  BY <2>1, <2>2
<1>2. a \in Nodes(usable) /\ b \in Nodes(usable)
  BY <1>1 DEF Nodes
<1>0. IsFiniteSet(Nodes(usable))
  BY FinitelyManyNodes
<1>3. Cardinality(Nodes(usable)) \in Nat /\ Cardinality(Nodes(usable)) >= 2
  <2>2. IsFiniteSet({a}) /\ Cardinality({a}) = 1
    BY FS_Singleton
  <2>3. ASSUME NEW S, IsFiniteSet(S), Cardinality(S) = 1, b \notin S
        PROVE  Cardinality(S \cup {b}) = 2
    <3>1. Cardinality(S \cup {b}) = IF b \in S THEN Cardinality(S) ELSE Cardinality(S) + 1
      BY <2>3, FS_AddElement, Zenon
    <3> QED  BY <2>3, <3>1
  <2>4. Cardinality({a} \cup {b}) = 2
    BY <1>1, <2>2, <2>3
  <2> QED  BY <1>2, <1>0, <2>4, FS_CardinalityType, FS_Subset
<1> HIDE DEF usable
<1>4. link \in SimplePaths(usable, a, b)
  <2>1. link \in [1 .. 2 -> Nodes(usable)] /\ Len(link) = 2 /\ DOMAIN link = 1 .. 2
    BY <1>2
  <2>2. link \in UNION {[1 .. n -> Nodes(usable)] : n \in 1 .. Cardinality(Nodes(usable))}
    BY <1>3, <2>1
  <2>3. link[1] = a /\ link[2] = b /\ 1 .. Len(link) - 1 = {1}
    BY <2>1
  <2> QED  BY <1>1, <2>1, <2>2, <2>3 DEF SimplePaths
<1>5. ASSUME NEW p \in SimplePaths(usable, a, b)
      PROVE  /\ PathWeight(link) <= PathWeight(p)
             /\ PathWeight(p) <= PathWeight(link) => p = link
  <2>1. PICK n \in 1 .. Cardinality(Nodes(usable)) : p \in [1 .. n -> Nodes(usable)]
    BY DEF SimplePaths
  <2>2. n \in Nat /\ Len(p) = n
    BY <1>3, <2>1
  <2>3. p[1] = a /\ p[n] = b
    BY <2>2 DEF SimplePaths
  <2>4. n >= 2
    BY <1>1, <2>1, <2>3
  <2>5. Len(link) = 2
    OBVIOUS
  <2>6. n = 2 => p = link
    BY <2>1, <2>3
  <2> QED  BY <2>2, <2>4, <2>5, <2>6 DEF PathWeight
<1>6. cspf_path(graph, a, b, 0, Infinity) = {link}
  BY <1>4, <1>5 DEF cspf_path, usable
<1> QED  BY <1>6 DEF Ends

\* The three ways the engine comes by a path.  Between the ends of a link that the
\* graph has it is that link; when the graph lacks an end of the link, as after a
\* registry that no longer has it, it is the default s1-s2, whatever the link is;
\* and in every case it joins the ends that were read or is the default.
THEOREM PathIsLink ==
    ASSUME RegistryAssumption, NEW file \in RegistryFiles
    PROVE  /\ \A l \in DOMAIN file : NewPaths(file, Ends(file, l)) = {Ends(file, l)}
           /\ \A ends : \/ {ends[1], ends[2]} \subseteq Nodes(build_registry_graph(file))
                        \/ NewPaths(file, ends) = {Default}
           /\ \A ends : \A path \in NewPaths(file, ends) : Joins(path, ends) \/ path = Default
<1>1. IsFiniteSet(DOMAIN file)
  BY DEF RegistryAssumption
<1>2. ASSUME NEW l \in DOMAIN file
      PROVE  NewPaths(file, Ends(file, l)) = {Ends(file, l)}
  <2>1. file[l].a # file[l].b /\ file[l].capacity \in Nat
    BY DEF RegistryAssumption
  <2>2. Ends(file, l)[1] = file[l].a /\ Ends(file, l)[2] = file[l].b
    BY DEF Ends
  <2> QED  BY <1>1, <2>1, <2>2, LinkIsShortest DEF NewPaths
<1> DEFINE graph == build_registry_graph(file)
           usable == {e \in graph : /\ e.capacity >= 0
                                    /\ Infinity = Infinity \/ e.delay <= Infinity}
<1>3. IsFiniteSet(Nodes(usable)) /\ Nodes(usable) \subseteq Nodes(graph)
  <2>1. IsFiniteSet(Nodes(usable))
    BY <1>1, FinitelyManyNodes
  <2> QED  BY <2>1 DEF Nodes
<1>4. \A ends : cspf_path(graph, ends[1], ends[2], 0, Infinity)
                    \subseteq SimplePaths(usable, ends[1], ends[2])
  BY DEF cspf_path
<1> HIDE DEF usable, graph
<1>5. ASSUME NEW ends, NEW path \in cspf_path(graph, ends[1], ends[2], 0, Infinity)
      PROVE  Joins(path, ends) /\ {ends[1], ends[2]} \subseteq Nodes(graph)
  <2>1. path \in SimplePaths(usable, ends[1], ends[2])
    BY <1>4, <1>5
  <2> QED  BY <1>3, <2>1, FoundBetween DEF Joins
<1>6. \A ends : NewPaths(file, ends) =
                    IF cspf_path(graph, ends[1], ends[2], 0, Infinity) = {} THEN {Default}
                    ELSE cspf_path(graph, ends[1], ends[2], 0, Infinity)
  BY DEF NewPaths, graph
<1>7. ASSUME NEW ends
      PROVE  /\ \/ {ends[1], ends[2]} \subseteq Nodes(graph)
                \/ NewPaths(file, ends) = {Default}
             /\ \A path \in NewPaths(file, ends) : Joins(path, ends) \/ path = Default
  <2>1. CASE cspf_path(graph, ends[1], ends[2], 0, Infinity) = {}
    BY <1>6, <2>1
  <2>2. CASE cspf_path(graph, ends[1], ends[2], 0, Infinity) # {}
    BY <1>5, <1>6, <2>2
  <2> QED  BY <2>1, <2>2
<1> QED  BY <1>2, <1>7 DEF graph

-----------------------------------------------------------------------------
\* The decision.

\* The first of the bounds above a probability is the bound of its bin.
LEMMA FirstBound ==
    ASSUME NEW S \in SUBSET (1 .. 3), NEW i \in S, \A j \in S : i <= j
    PROVE  Min(S) = i
<1>1. \A k \in S : (\A j \in S : k <= j) => k = i
  OBVIOUS
<1> QED  BY <1>1 DEF Min

\* The decision for every probability, the bounds of the bins and 1.0 included, is
\* the one of the intervals that threshold_config.yaml writes beside its bins:
\* [0.0, 0.4), [0.4, 0.7) and [0.7, 1.0].
THEOREM BinsAreHalfOpen ==
    ASSUME NEW p \in 0 .. 100
    PROVE  evaluate_probability(p) = IF p < 40 THEN "monitor"
                                     ELSE IF p < 70 THEN "prepare_backup" ELSE "reroute"
<1> DEFINE below == {i \in DOMAIN Bins : p < Bins[i].max_probability}
<1>1. /\ DOMAIN Bins = 1 .. 3 /\ Len(Bins) = 3
      /\ Bins[1].action = "monitor" /\ Bins[1].max_probability = 40
      /\ Bins[2].action = "prepare_backup" /\ Bins[2].max_probability = 70
      /\ Bins[3].action = "reroute" /\ Bins[3].max_probability = 100
  BY DEF Bins
<1>2. /\ below \in SUBSET (1 .. 3)
      /\ 1 \in below <=> p < 40
      /\ 2 \in below <=> p < 70
      /\ 3 \in below <=> p < 100
  BY <1>1
<1>3. evaluate_probability(p) = IF below = {} THEN Bins[3].action ELSE Bins[Min(below)].action
  BY <1>1 DEF evaluate_probability
<1> HIDE DEF below
<1>4. CASE p < 40
  <2>1. Min(below) = 1
    BY <1>2, <1>4, FirstBound
  <2> QED  BY <1>1, <1>2, <1>3, <1>4, <2>1
<1>5. CASE 40 <= p /\ p < 70
  <2>1. Min(below) = 2
    BY <1>2, <1>5, FirstBound
  <2> QED  BY <1>1, <1>2, <1>3, <1>5, <2>1
<1>6. CASE 70 <= p /\ p < 100
  <2>1. Min(below) = 3
    BY <1>2, <1>6, FirstBound
  <2> QED  BY <1>1, <1>2, <1>3, <1>6, <2>1
<1>7. CASE p = 100
  <2>1. below = {}
    BY <1>2, <1>7
  <2> QED  BY <1>1, <1>3, <1>7, <2>1
<1> QED  BY <1>4, <1>5, <1>6, <1>7

\* The window decides alone: without congestion in it the engine monitors the
\* link, with congestion it reroutes, and it never only prepares a backup.
LEMMA WindowDecides ==
    ASSUME NEW window
    PROVE  evaluate_probability(predict(window))
            = IF \E r \in window : Busy(r) THEN "reroute" ELSE "monitor"
BY BinsAreHalfOpen DEF predict, Busy

-----------------------------------------------------------------------------
\* Proved and Executor are the same module with the same parameters.

LEMMA SameStep == Executor!ExecutorNext <=> Proved!ExecutorNext
<1>1. Executor!Ids = Proved!Ids
  BY DEF Executor!Ids, Proved!Ids
<1>2. ASSUME NEW i  PROVE Executor!Fresh(i) <=> Proved!Fresh(i)
  BY <1>1 DEF Executor!Fresh, Proved!Fresh
<1>3. ASSUME NEW i, NEW b  PROVE Executor!Post(i, b) <=> Proved!Post(i, b)
  BY <1>2 DEF Executor!Post, Proved!Post, Executor!Put, Proved!Put
<1>4. ASSUME NEW i, NEW b
      PROVE  Executor!PostUnreachable(i, b) <=> Proved!PostUnreachable(i, b)
  BY <1>2 DEF Executor!PostUnreachable, Proved!PostUnreachable, Executor!Put, Proved!Put
<1>5. ASSUME NEW i, NEW code  PROVE Executor!Respond(i, code) <=> Proved!Respond(i, code)
  BY DEF Executor!Respond, Proved!Respond, Executor!Put, Proved!Put
<1>6. ASSUME NEW b  PROVE Executor!Valid(b) <=> Proved!Valid(b)
  BY DEF Executor!Valid, Proved!Valid, Executor!RequiredFields, Proved!RequiredFields
<1>7. ASSUME NEW b  PROVE Executor!Referenced(b) <=> Proved!Referenced(b)
  BY DEF Executor!Referenced, Proved!Referenced
<1>8. ASSUME NEW i  PROVE Executor!ReceiveRequest(i) <=> Proved!ReceiveRequest(i)
  BY <1>5, <1>6 DEF Executor!ReceiveRequest, Proved!ReceiveRequest
<1>9. ASSUME NEW i  PROVE Executor!PersistAction(i) <=> Proved!PersistAction(i)
  BY <1>5, <1>7 DEF Executor!PersistAction, Proved!PersistAction
<1>10. ASSUME NEW i  PROVE Executor!GetResponse(i) <=> Proved!GetResponse(i)
  BY DEF Executor!GetResponse, Proved!GetResponse, Executor!Without, Proved!Without
<1>11. ASSUME NEW i  PROVE Executor!Timeout(i) <=> Proved!Timeout(i)
  BY DEF Executor!Timeout, Proved!Timeout, Executor!Without, Proved!Without
<1>12. Executor!Restart <=> Proved!Restart
  BY <1>1 DEF Executor!Restart, Proved!Restart
<1> QED  BY <1>1, <1>3, <1>4, <1>8, <1>9, <1>10, <1>11, <1>12
         DEF Executor!ExecutorNext, Proved!ExecutorNext, Executor!ServiceNext,
             Proved!ServiceNext

LEMMA SameTypes ==
    /\ Executor!ExecutorTypeOK <=> Proved!ExecutorTypeOK
    /\ Executor!ExecutorTypeOK' <=> Proved!ExecutorTypeOK'
BY DEF Executor!ExecutorTypeOK, Proved!ExecutorTypeOK, Executor!Ids, Proved!Ids,
       Executor!Outcomes, Proved!Outcomes, Executor!Refusals, Proved!Refusals

-----------------------------------------------------------------------------
\* Each step of the loop is a step of the executor, or leaves it alone.

LEMMA StepOfExecutor ==
    ASSUME TypeOK, [Next]_vars
    PROVE  [Executor!ExecutorNext]_executorVars
<1> DEFINE bodies == {ReactiveBody(l) : l \in Links}
                        \cup UNION {{PredictiveBody(l, p) : p \in RequestPaths(l)} : l \in Links}
<1>1. ASSUME NEW i \in Executor!Ids, NEW b \in bodies, Ask(i, b)
      PROVE  Executor!ExecutorNext
  BY <1>1 DEF Ask, Executor!ExecutorNext
<1>2. ASSUME NEW l \in Links, EvaluateLink(l)
      PROVE  Executor!ExecutorNext \/ UNCHANGED executorVars
  <2>1. CASE UNCHANGED executorVars
    BY <2>1
  <2>2. ASSUME NEW i \in Executor!Ids, NEW path \in RequestPaths(l),
               Ask(i, PredictiveBody(l, path))
        PROVE  Executor!ExecutorNext
    <3>1. PredictiveBody(l, path) \in bodies
      OBVIOUS
    <3> QED  BY <1>1, <2>2, <3>1
  <2> QED  BY <1>2, <2>1, <2>2 DEF EvaluateLink
<1>3. ASSUME NEW r \in rows, ReadRow(r)
      PROVE  Executor!ExecutorNext \/ UNCHANGED executorVars
  <2>1. CASE UNCHANGED executorVars
    BY <2>1
  <2>2. ASSUME NEW i \in Executor!Ids, Ask(i, ReactiveBody(r.link))
        PROVE  Executor!ExecutorNext
    <3>1. r.link \in Links
      BY DEF TypeOK, Row
    <3>2. ReactiveBody(r.link) \in bodies
      BY <3>1
    <3> QED  BY <1>1, <2>2, <3>2
  <2> QED  BY <1>3, <2>1, <2>2 DEF ReadRow
<1>4. CASE Service
  BY <1>4 DEF Service, Executor!ExecutorNext
<1>5. ASSUME NEW l \in Links, NEW level \in Levels, NEW partial \in Partials,
             WriteRow(l, level, partial)
      PROVE  UNCHANGED executorVars
  BY <1>5 DEF WriteRow
<1>6. ASSUME Tick \/ Fetch \/ ReactiveFetch \/ ReactiveResume \/ \E l \in Links : SkipLink(l)
      PROVE  UNCHANGED executorVars
  BY <1>6 DEF Tick, Fetch, ReactiveFetch, ReactiveResume, SkipLink
<1>7. ASSUME UNCHANGED vars  PROVE UNCHANGED executorVars
  BY <1>7 DEF vars
<1> QED  BY <1>2, <1>3, <1>4, <1>5, <1>6, <1>7 DEF Next, Engine, Baseline

LEMMA ExecutorTypesHold ==
    ASSUME TypeOK, Executor!ExecutorAssumption, [Next]_vars
    PROVE  Executor!ExecutorTypeOK'
<1>1. [Executor!ExecutorNext]_executorVars
  BY StepOfExecutor
<1>2. [Proved!ExecutorNext]_(Proved!executorVars)
  BY <1>1, SameStep DEF executorVars, Proved!executorVars
<1>3. Proved!ExecutorTypeOK'
  BY <1>2, SameTypes, Proved!StepTypes DEF TypeOK, Executor!ExecutorAssumption,
      Proved!ExecutorAssumption
<1> QED  BY <1>3, SameTypes

-----------------------------------------------------------------------------
\* Types.

LEMMA InitTypes ==
    ASSUME LoopAssumption, Executor!ExecutorAssumption, Init
    PROVE  TypeOK
<1>1. Executor!ExecutorTypeOK
  BY DEF Init, Executor!ExecutorInit, Executor!ExecutorTypeOK, Executor!Outcomes,
      Executor!Refusals
<1>2. DOMAIN windows = {}
  BY DEF Init
<1> QED  BY <1>1, <1>2 DEF LoopAssumption, Executor!ExecutorAssumption, Init, TypeOK

\* What a pass reads: windows of written rows, each of its own link and not empty.
LEMMA WindowsOfRows ==
    ASSUME LoopAssumption, TypeOK, link_telemetry # {}
    PROVE  LET w == get_telemetry_windows
           IN  /\ DOMAIN w \subseteq Links
               /\ \A l \in DOMAIN w :
                    /\ w[l] \subseteq link_telemetry
                    /\ w[l] # {}
                    /\ \A r \in w[l] : r.link = l
               /\ \A k, l \in DOMAIN w : \A q \in w[k], r \in w[l] :
                    r.ts + WindowSeconds >= q.ts
<1> DEFINE times == {r.ts : r \in link_telemetry}
           newest == Max(times)
           recent == {r \in link_telemetry : r.ts >= newest - WindowSeconds}
           w == get_telemetry_windows
<1>1. times \subseteq 0 .. MaxTime /\ times # {}
  BY DEF TypeOK, Row
<1>2. newest \in times /\ \A x \in times : x <= newest
  BY <1>1, LatestTime DEF LoopAssumption
<1>3. w = [l \in {r.link : r \in recent} |-> {r \in recent : r.link = l}]
  BY DEF get_telemetry_windows
<1> HIDE DEF newest, w, times
<1>4. /\ DOMAIN w = {r.link : r \in recent}
      /\ \A l \in DOMAIN w : w[l] = {r \in recent : r.link = l}
  BY <1>3
<1>5. \A l \in DOMAIN w : \E r \in recent : r.link = l
  BY <1>4
<1>6. \A r \in recent : r \in link_telemetry /\ r.link \in Links
  BY DEF TypeOK, Row
<1>7. \A q, r \in recent : r.ts + WindowSeconds >= q.ts
  <2> SUFFICES ASSUME NEW q \in recent, NEW r \in recent
               PROVE  r.ts + WindowSeconds >= q.ts
    OBVIOUS
  <2>1. q.ts \in times /\ r.ts \in times
    BY DEF times
  <2>2. q.ts <= newest /\ r.ts >= newest - WindowSeconds
    BY <1>2, <2>1
  <2>3. \A x \in times : x \in Int
    BY <1>1
  <2>4. q.ts \in Int /\ r.ts \in Int /\ newest \in Int /\ WindowSeconds \in Int
    BY <1>2, <2>1, <2>3 DEF LoopAssumption
  <2>5. \A a, b, c, d \in Int : a <= b /\ c >= b - d => c + d >= a
    OBVIOUS
  <2> QED  BY <2>2, <2>4, <2>5
<1>8. DOMAIN w \subseteq Links
  BY <1>4, <1>6
<1>9. \A l \in DOMAIN w : /\ w[l] \subseteq link_telemetry
                          /\ w[l] # {}
                          /\ \A r \in w[l] : r.link = l
  BY <1>4, <1>5
<1>10. \A k, l \in DOMAIN w : \A q \in w[k], r \in w[l] : r.ts + WindowSeconds >= q.ts
  BY <1>4, <1>7
<1> QED  BY <1>8, <1>9, <1>10 DEF w

LEMMA TypesHold ==
    ASSUME LoopAssumption, Executor!ExecutorAssumption, TypeOK, [Next]_vars
    PROVE  TypeOK'
<1>1. Executor!ExecutorTypeOK'
  BY ExecutorTypesHold
<1> USE <1>1 DEF TypeOK
<1>2. ASSUME NEW l \in Links, NEW level \in Levels, NEW partial \in Partials,
             WriteRow(l, level, partial)
      PROVE  TypeOK'
  <2>1. [link |-> l, ts |-> now, level |-> level, partial |-> partial] \in Row
    BY DEF Row, LoopAssumption
  <2> QED  BY <1>2, <2>1 DEF WriteRow, engineVars, reactiveVars
<1>3. CASE Tick
  BY <1>3 DEF Tick, LoopAssumption, engineVars, reactiveVars
<1>4. CASE Fetch
  <2>1. /\ DOMAIN get_telemetry_windows \subseteq Links
        /\ \A l \in DOMAIN get_telemetry_windows : get_telemetry_windows[l] \subseteq Row
    BY <1>4, WindowsOfRows DEF Fetch
  <2>2. windows' = get_telemetry_windows /\ todo' = DOMAIN windows'
    BY <1>4 DEF Fetch
  <2> QED  BY <1>4, <2>1, <2>2 DEF Fetch, Executor!ExecutorAssumption, telemetryVars, reactiveVars
<1>5. ASSUME NEW l \in Links, SkipLink(l) \/ EvaluateLink(l)  PROVE TypeOK'
  <2>1. asked' \in 0 .. MaxActions /\ engine' \in {"running", "dead"}
    BY <1>5 DEF SkipLink, EvaluateLink, Executor!Ids
  <2>2. Visit(l)
    BY <1>5 DEF SkipLink, EvaluateLink
  <2> QED  BY <2>1, <2>2 DEF Visit, telemetryVars, reactiveVars
<1>6. CASE ReactiveFetch
  <2>1. rows' \subseteq link_telemetry
    BY <1>6 DEF ReactiveFetch, LatestRows
  <2> QED  BY <1>6, <2>1 DEF ReactiveFetch, Executor!ExecutorAssumption, telemetryVars, engineVars
<1>7. ASSUME NEW r \in rows, ReadRow(r)  PROVE TypeOK'
  <2>1. rasked' \in 0 .. MaxActions
    BY <1>7 DEF ReadRow, Executor!Ids
  <2> QED  BY <1>7, <2>1 DEF ReadRow, telemetryVars, engineVars
<1>8. CASE ReactiveResume
  BY <1>8 DEF ReactiveResume, Executor!ExecutorAssumption, telemetryVars, engineVars
<1>9. CASE Service
  BY <1>9 DEF Service, telemetryVars, engineVars, reactiveVars
<1>10. CASE UNCHANGED vars
  BY <1>10 DEF vars, telemetryVars, engineVars, reactiveVars
<1> QED  BY <1>2, <1>3, <1>4, <1>5, <1>6, <1>7, <1>8, <1>9, <1>10
         DEF Next, Engine, Baseline

\* Every variable keeps its type, for any registry, window and number of requests.
THEOREM TypeCorrect ==
    ASSUME LoopAssumption, Executor!ExecutorAssumption
    PROVE  Spec => []TypeOK
BY InitTypes, TypesHold, PTL DEF Spec

-----------------------------------------------------------------------------
\* Evidence.

\* What the two snapshots stay while rows come in and the passes go on.
Snapshot ==
    /\ \A l \in DOMAIN windows :
        /\ windows[l] \subseteq link_telemetry
        /\ windows[l] # {}
        /\ \A r \in windows[l] : r.link = l
    /\ \A k, l \in DOMAIN windows : \A q \in windows[k], r \in windows[l] :
        r.ts + WindowSeconds >= q.ts
    /\ \A r \in rows : r \in link_telemetry /\ ~r.partial

\* A row that was written stays.
LEMMA RowsStay == [Next]_vars => link_telemetry \subseteq link_telemetry'
BY DEF Next, Engine, Baseline, Service, WriteRow, Tick, Fetch, Visit, SkipLink, EvaluateLink,
    ReactiveFetch, ReadRow, ReactiveResume, vars, telemetryVars

LEMMA SnapshotHolds ==
    ASSUME LoopAssumption, TypeOK, Snapshot, [Next]_vars
    PROVE  Snapshot'
<1>1. link_telemetry \subseteq link_telemetry'
  BY RowsStay
<1>2. \A r \in rows' : r \in link_telemetry /\ ~r.partial
  <2>1. CASE ReactiveFetch
    <3>1. rows' \subseteq {r \in link_telemetry : ~r.partial}
      BY <2>1 DEF ReactiveFetch, LatestRows
    <3> QED  BY <3>1
  <2>2. ASSUME ~ReactiveFetch  PROVE rows' \subseteq rows
    BY <2>2 DEF Next, Engine, Baseline, Service, WriteRow, Tick, Fetch, Visit, SkipLink,
        EvaluateLink, ReadRow, ReactiveResume, vars, reactiveVars
  <2> QED  BY <2>1, <2>2 DEF Snapshot
<1>3. CASE Fetch
  <2>1. windows' = get_telemetry_windows /\ UNCHANGED link_telemetry
    BY <1>3 DEF Fetch, telemetryVars
  <2> QED  BY <1>2, <1>3, <2>1, WindowsOfRows DEF Fetch, Snapshot
<1>4. CASE UNCHANGED windows
  BY <1>1, <1>2, <1>4 DEF Snapshot
<1>5. ASSUME ~Fetch  PROVE UNCHANGED windows
  BY <1>5 DEF Next, Engine, Baseline, Service, WriteRow, Tick, Visit, SkipLink, EvaluateLink,
      ReactiveFetch, ReadRow, ReactiveResume, vars, engineVars
<1> QED  BY <1>3, <1>4, <1>5

\* A path the engine may ask for joins ends that it has read, or is the default
\* one; and when the reads agree about a link it joins the ends of the link.
LEMMA RequestedPath ==
    ASSUME RegistryAssumption, NEW l, NEW path \in RequestPaths(l)
    PROVE  \/ \E ends \in EndsRead(l) : Joins(path, ends)
           \/ ~Agreed(l) /\ path = Default
<1>0. PICK file \in RegistryFiles : \E ends \in EndsRead(l) : path \in NewPaths(file, ends)
  BY DEF RequestPaths
<1>1. PICK ends \in EndsRead(l) : path \in NewPaths(file, ends)
  BY <1>0
<1>2. Joins(path, ends) \/ path = Default
  BY <1>1, PathIsLink
<1>3. ASSUME Agreed(l)  PROVE Joins(path, ends)
  <2>1. l \in DOMAIN file
    BY <1>3 DEF Agreed
  <2>2. ends = Ends(file, l)
    BY <1>1, <1>3 DEF Agreed, EndsRead
  <2>3. path = Ends(file, l)
    BY <1>1, <2>1, <2>2, PathIsLink
  <2> QED  BY <2>2, <2>3 DEF Joins, Ends
<1> QED  BY <1>1, <1>2, <1>3

\* A window that makes the engine act has a row that shows congestion.
LEMMA WindowHasEvidence ==
    ASSUME TypeOK, Snapshot, NEW l \in todo,
           evaluate_probability(predict(windows[l])) # "monitor"
    PROVE  \E r \in windows[l] : r \in link_telemetry /\ r.link = l /\ Busy(r)
<1>1. l \in DOMAIN windows
  BY DEF TypeOK
<1>2. PICK r \in windows[l] : Busy(r)
  BY WindowDecides
<1> QED  BY <1>1, <1>2 DEF Snapshot

\* The engine's request for a link: the evidence in its window, and the path.
LEMMA RequestHasEvidence ==
    ASSUME LoopAssumption, RegistryAssumption, TypeOK, Snapshot,
           NEW l \in todo, NEW path \in RequestPaths(l),
           evaluate_probability(predict(windows[l])) # "monitor"
    PROVE  Justified(l, path)
<1> DEFINE read == UNION {windows[k] : k \in DOMAIN windows}
           times == {r.ts : r \in read}
<1>1. l \in DOMAIN windows
  BY DEF TypeOK
<1>2. PICK r \in windows[l] : r \in link_telemetry /\ r.link = l /\ Busy(r)
  BY WindowHasEvidence
<1>4. \A q \in read : q.ts \in 0 .. MaxTime /\ r.ts + WindowSeconds >= q.ts
  BY <1>1, <1>2 DEF Snapshot, TypeOK, Row
<1>5. r.ts \in times
  BY <1>1, <1>2
<1>6. times \subseteq 0 .. MaxTime
  BY <1>4
<1>7. Max(times) \in times
  BY <1>5, <1>6, LatestTime DEF LoopAssumption
<1>8. r.ts + WindowSeconds >= Max(times)
  BY <1>4, <1>7
<1> QED  BY <1>2, <1>8, RequestedPath DEF Justified, NewestRead

\* A step adds no request, or the one of a client with the body it has.
LEMMA NewRequest ==
    ASSUME TypeOK, [Next]_vars, NEW n \in DOMAIN body' \ DOMAIN body
    PROVE  \/ \E l \in todo : \E path \in RequestPaths(l) :
                /\ evaluate_probability(predict(windows[l])) # "monitor"
                /\ body'[n] = PredictiveBody(l, path)
           \/ \E r \in rows : r.level = "severe" /\ body'[n] = ReactiveBody(r.link)
<1>1. ASSUME NEW i, NEW b, Ask(i, b)  PROVE body'[n] = b
  <2>1. body' = Executor!Put(body, i, b)
    BY <1>1 DEF Ask, Executor!Post, Executor!PostUnreachable
  <2> QED  BY <2>1 DEF Executor!Put
<1>2. ASSUME NEW l \in Links, EvaluateLink(l)
      PROVE  /\ l \in todo
             /\ \E path \in RequestPaths(l) :
                    /\ evaluate_probability(predict(windows[l])) # "monitor"
                    /\ body'[n] = PredictiveBody(l, path)
  <2>1. ~UNCHANGED executorVars
    BY DEF executorVars
  <2> QED  BY <1>1, <1>2, <2>1 DEF EvaluateLink, Visit
<1>3. ASSUME NEW r \in rows, ReadRow(r)
      PROVE  r.level = "severe" /\ body'[n] = ReactiveBody(r.link)
  <2>1. ~UNCHANGED executorVars
    BY DEF executorVars
  <2> QED  BY <1>1, <1>3, <2>1 DEF ReadRow
<1>4. ASSUME \/ Tick \/ Fetch \/ ReactiveFetch \/ ReactiveResume \/ Service \/ UNCHANGED vars
             \/ \E l \in Links : SkipLink(l)
             \/ \E l \in Links, level \in Levels, partial \in Partials :
                    WriteRow(l, level, partial)
      PROVE  UNCHANGED body
  BY <1>4 DEF Tick, Fetch, ReactiveFetch, ReactiveResume, Service, SkipLink, WriteRow, vars,
      executorVars, Executor!ServiceNext, Executor!ReceiveRequest, Executor!PersistAction,
      Executor!GetResponse, Executor!Timeout, Executor!Restart
<1> QED  BY <1>2, <1>3, <1>4 DEF Next, Engine, Baseline

\* Whatever is written while a pass goes on, however old its snapshot is and
\* whatever the registry holds each time it is read, the engine asks only for a
\* link that showed congestion in the window the pass has read, and for a path
\* between ends that it read for that link, or for the default path when, and only
\* when, the reads may differ.
THEOREM EngineActsOnEvidence ==
    ASSUME LoopAssumption, RegistryAssumption, Executor!ExecutorAssumption
    PROVE  Spec => ActsOnEvidence
<1>1. Init => TypeOK /\ Snapshot
  BY InitTypes DEF Init, Snapshot
<1>2. TypeOK /\ Snapshot /\ [Next]_vars => TypeOK' /\ Snapshot'
  BY TypesHold, SnapshotHolds
<1>3. TypeOK /\ Snapshot /\ [Next]_vars => NewRequestsAreJustified
  <2> SUFFICES ASSUME TypeOK, Snapshot, [Next]_vars, NEW n \in DOMAIN body' \ DOMAIN body,
                      body'[n].reason = "predictive"
               PROVE  Justified(body'[n].target_link_id, body'[n].new_path)
    BY DEF NewRequestsAreJustified
  <2>1. ASSUME NEW l \in todo, NEW path \in RequestPaths(l),
               evaluate_probability(predict(windows[l])) # "monitor",
               body'[n] = PredictiveBody(l, path)
        PROVE  Justified(body'[n].target_link_id, body'[n].new_path)
    <3>1. body'[n].target_link_id = l /\ body'[n].new_path = path
      BY <2>1 DEF PredictiveBody
    <3>2. Justified(l, path)
      BY <2>1, RequestHasEvidence
    <3> QED  BY <3>1, <3>2
  <2>2. ASSUME NEW r, body'[n] = ReactiveBody(r.link)  PROVE FALSE
    <3>1. body'[n].reason = "reactive"
      BY <2>2 DEF ReactiveBody
    <3> QED  BY <3>1
  <2> QED  BY <2>1, <2>2, NewRequest
<1> QED  BY <1>1, <1>2, <1>3, PTL DEF Spec, ActsOnEvidence

-----------------------------------------------------------------------------
\* Causes.

\* Requests are added, never changed.
LEMMA BodiesStay ==
    ASSUME TypeOK, [Next]_vars, NEW i \in DOMAIN body
    PROVE  body'[i] = body[i]
<1>1. ASSUME NEW j \in Executor!Ids, NEW b, Executor!Post(j, b) \/ Executor!PostUnreachable(j, b)
      PROVE  body'[i] = body[i]
  BY <1>1 DEF Executor!Post, Executor!PostUnreachable, Executor!Put, Executor!Fresh
<1>2. CASE Executor!ServiceNext \/ UNCHANGED executorVars
  BY <1>2 DEF executorVars, Executor!ServiceNext, Executor!ReceiveRequest, Executor!PersistAction,
      Executor!GetResponse, Executor!Timeout, Executor!Restart
<1> QED  BY <1>1, <1>2, StepOfExecutor DEF Executor!ExecutorNext

\* A new request has its cause among the rows of the snapshot it was made from.
LEMMA NewRequestHasCause ==
    ASSUME TypeOK, Snapshot, [Next]_vars, NEW n \in DOMAIN body' \ DOMAIN body
    PROVE  \E r \in link_telemetry : Cause(body'[n], r)
<1>1. ASSUME NEW l \in todo, NEW path \in RequestPaths(l),
             evaluate_probability(predict(windows[l])) # "monitor",
             body'[n] = PredictiveBody(l, path)
      PROVE  \E r \in link_telemetry : Cause(body'[n], r)
  <2>1. PICK r \in windows[l] : r \in link_telemetry /\ r.link = l /\ Busy(r)
    BY <1>1, WindowHasEvidence
  <2> QED  BY <1>1, <2>1 DEF PredictiveBody, Cause
<1>2. ASSUME NEW r \in rows, r.level = "severe", body'[n] = ReactiveBody(r.link)
      PROVE  \E q \in link_telemetry : Cause(body'[n], q)
  <2>1. r \in link_telemetry /\ ~r.partial
    BY DEF Snapshot
  <2> QED  BY <1>2, <2>1 DEF ReactiveBody, Cause
<1> QED  BY <1>1, <1>2, NewRequest

\* Every request there ever is, of either client and from a snapshot however old,
\* has a row of its own link in the table that is its cause.
THEOREM RequestsAreCaused ==
    ASSUME LoopAssumption, Executor!ExecutorAssumption
    PROVE  Spec => []RequestsHaveCause
<1>1. Init => TypeOK /\ Snapshot /\ RequestsHaveCause
  BY InitTypes DEF Init, Snapshot, RequestsHaveCause, Executor!ExecutorInit
<1>2. TypeOK /\ Snapshot /\ RequestsHaveCause /\ [Next]_vars
        => TypeOK' /\ Snapshot' /\ RequestsHaveCause'
  <2> SUFFICES ASSUME TypeOK, Snapshot, RequestsHaveCause, [Next]_vars
               PROVE  RequestsHaveCause'
    BY TypesHold, SnapshotHolds
  <2>1. ASSUME NEW i \in DOMAIN body'  PROVE \E r \in link_telemetry' : Cause(body'[i], r)
    <3>1. \E r \in link_telemetry : Cause(body'[i], r)
      <4>1. CASE i \in DOMAIN body
        BY <4>1, BodiesStay DEF RequestsHaveCause
      <4>2. CASE i \notin DOMAIN body
        BY <4>2, NewRequestHasCause
      <4> QED  BY <4>1, <4>2
    <3> QED  BY <3>1, RowsStay
  <2> QED  BY <2>1 DEF RequestsHaveCause, Cause, Busy
<1> QED  BY <1>1, <1>2, PTL DEF Spec
=============================================================================
