---------------------------- MODULE RecoveryLoop ----------------------------
(***************************************************************************)
(* The control loop: telemetry rows, the predictive engine of              *)
(* scripts/run_phase2.py with the prediction stub and the decision engine, *)
(* the reactive baseline, and the executor both of them call.              *)
(*                                                                         *)
(* Both clients work through a snapshot of link_telemetry, one link or row *)
(* at a time, and wait for the executor in between, while rows keep coming *)
(* in.  The engine reads topology_registry.yaml anew for each request,     *)
(* twice, and takes what it finds: another version, a file without the     *)
(* link, or one it cannot read.  Time is counted in poll intervals.        *)
(***************************************************************************)
EXTENDS PathAlgorithms, FiniteSetsExt

CONSTANTS
    Links,              \* rows of topology_links
    RegistryFiles,      \* what topology_registry.yaml may hold when it is read:
                        \* [a, b, capacity, delay] of the links it has
    ReadMayFail,        \* may it be missing, empty or half written
    Levels,             \* what telemetry may show: "clear", "busy", "severe"
    Partials,           \* and its is_partial
    WindowSeconds,      \* the trailing window, in poll intervals
    RowLimit,           \* the LIMIT of the reactive query
    PredictionMayFail,  \* may the prediction service fail or be unreachable
    Reactive,           \* does the reactive baseline run
    ExperimentRuns, DbMayFail, MaxActions, MaxRestarts,
    MaxTime             \* bound: poll intervals

ASSUME LoopAssumption ==
    /\ Levels \subseteq {"clear", "busy", "severe"}
    /\ Partials \subseteq BOOLEAN
    /\ WindowSeconds \in Nat /\ RowLimit \in Nat /\ MaxTime \in Nat
    /\ PredictionMayFail \in BOOLEAN /\ ReadMayFail \in BOOLEAN /\ Reactive \in BOOLEAN

\* In every version a link joins two nodes, and its capacity_mbps is not negative.
ASSUME RegistryAssumption ==
    \A file \in RegistryFiles :
        /\ IsFiniteSet(DOMAIN file)
        /\ \A l \in DOMAIN file : file[l].a # file[l].b /\ file[l].capacity \in Nat

VARIABLES
    now,
    link_telemetry,     \* the rows written: [link, ts, level, partial]
    windows,            \* the engine's snapshot: link -> rows
    todo,               \* links of the snapshot not yet evaluated
    asked,              \* the engine's action_id on its way, 0 when none
    engine,             \* "running", or "dead" of an exception
    rows,               \* the reactive baseline's snapshot, less what it has read
    rasked,             \* the reactive baseline's action_id on its way
    body, inbox, tasks, responses, recovery_actions, outcome, restarts

engineVars == <<windows, todo, asked, engine>>
reactiveVars == <<rows, rasked>>
telemetryVars == <<now, link_telemetry>>
executorVars == <<body, inbox, tasks, responses, recovery_actions, outcome, restarts>>

\* The request bodies of the two clients.
PredictiveBody(l, path) ==
    [target_type |-> "link", target_link_id |-> l, new_path |-> path,
     reason |-> "predictive", run_id |-> "run_phase2"]
ReactiveBody(l) == [target_type |-> "link", target_link_id |-> l, reason |-> "reactive"]

\* The path the engine takes when it finds no other, and the ends it takes for a
\* link it finds nowhere.
Default == <<"s1", "s2">>

Ends(file, l) == <<file[l].a, file[l].b>>

\* The ends of link l that a read of the registry gives.
EndsRead(l) ==
    {Ends(file, l) : file \in {f \in RegistryFiles : l \in DOMAIN f}}
        \cup {ends \in {Default} : ReadMayFail \/ \E f \in RegistryFiles : l \notin DOMAIN f}

\* The paths between these ends in the graph of another read.
NewPaths(file, ends) ==
    LET found == cspf_path(build_registry_graph(file), ends[1], ends[2], 0, Infinity)
    IN  IF found = {} THEN {Default} ELSE found

RequestPaths(l) == UNION {UNION {NewPaths(file, ends) : ends \in EndsRead(l)} : file \in RegistryFiles}

Executor == INSTANCE RecoveryExecutor
    WITH Bodies <- {ReactiveBody(l) : l \in Links}
                    \cup UNION {{PredictiveBody(l, p) : p \in RequestPaths(l)} : l \in Links},
         TopologyLinks <- Links

vars == <<telemetryVars, engineVars, reactiveVars, executorVars>>

Row == [link : Links, ts : 0 .. MaxTime, level : Levels, partial : BOOLEAN]

TypeOK ==
    /\ now \in 0 .. MaxTime
    /\ link_telemetry \subseteq Row
    /\ DOMAIN windows \subseteq Links
    /\ \A l \in DOMAIN windows : windows[l] \subseteq Row
    /\ todo \subseteq DOMAIN windows
    /\ asked \in 0 .. MaxActions
    /\ engine \in {"running", "dead"}
    /\ rows \subseteq Row
    /\ rasked \in 0 .. MaxActions
    /\ Executor!ExecutorTypeOK

Init ==
    /\ now = 0
    /\ link_telemetry = {}
    /\ windows = <<>>
    /\ todo = {}
    /\ asked = 0
    /\ engine = "running"
    /\ rows = {}
    /\ rasked = 0
    /\ Executor!ExecutorInit

-----------------------------------------------------------------------------
\* A mutant: the row stamped with the end of its interval.
WriteRowAhead(l, level, partial) ==
    /\ \A r \in link_telemetry : r.link # l \/ r.ts # now + 1
    /\ link_telemetry' = link_telemetry
            \cup {[link |-> l, ts |-> now + 1, level |-> level, partial |-> partial]}
    /\ UNCHANGED <<now, engineVars, reactiveVars, executorVars>>

\* The collector, as the loop sees it: at most one row per link and interval.
WriteRow(l, level, partial) ==
    /\ \A r \in link_telemetry : r.link # l \/ r.ts # now
    /\ link_telemetry' = link_telemetry
            \cup {[link |-> l, ts |-> now, level |-> level, partial |-> partial]}
    /\ UNCHANGED <<now, engineVars, reactiveVars, executorVars>>

Tick ==
    /\ now < MaxTime
    /\ now' = now + 1
    /\ UNCHANGED <<link_telemetry, engineVars, reactiveVars, executorVars>>

-----------------------------------------------------------------------------
\* The predictive engine.

\* Is a client free to go on: has the request it waits for been decided?
Free(i) == i # 0 => outcome[i] # "waiting"

\* A mutant: without the WHERE clause.
EveryWindow ==
    [l \in {r.link : r \in link_telemetry} |-> {r \in link_telemetry : r.link = l}]

\* The rows since WindowSeconds before the newest, by link.
get_telemetry_windows ==
    LET newest == Max({r.ts : r \in link_telemetry})
        recent == {r \in link_telemetry : r.ts >= newest - WindowSeconds}
    IN  [l \in {r.link : r \in recent} |-> {r \in recent : r.link = l}]

\* The prediction stub's failure_probability, in percent.
predict(window) == IF \E r \in window : r.level # "clear" THEN 85 ELSE 0

\* The bins of contracts/threshold_config.yaml, in percent.
Bins == <<[action |-> "monitor", max_probability |-> 40],
          [action |-> "prepare_backup", max_probability |-> 70],
          [action |-> "reroute", max_probability |-> 100]>>

\* A mutant: the comparison the wrong way round.
FirstBinReached(probability) ==
    LET reached == {i \in DOMAIN Bins : probability >= Bins[i].max_probability}
    IN  IF reached = {} THEN Bins[Len(Bins)].action ELSE Bins[Min(reached)].action

\* The first bin whose bound lies above the probability, else the last one.
evaluate_probability(probability) ==
    LET below == {i \in DOMAIN Bins : probability < Bins[i].max_probability}
    IN  IF below = {} THEN Bins[Len(Bins)].action ELSE Bins[Min(below)].action

\* A new pass of the loop, when there is telemetry.
Fetch ==
    /\ engine = "running" /\ todo = {}
    /\ Free(asked)
    /\ link_telemetry # {}
    /\ windows' = get_telemetry_windows
    /\ todo' = DOMAIN windows'
    /\ asked' = 0
    /\ UNCHANGED <<engine, telemetryVars, reactiveVars, executorVars>>

\* A client posts its action and waits, or finds no one listening.  Its id is the
\* next one.  MaxRestarts stands for a service that is not always there.
Ask(i, b) ==
    /\ i = Cardinality(DOMAIN body) + 1
    /\ \/ Executor!Post(i, b)
       \/ MaxRestarts > 0 /\ Executor!PostUnreachable(i, b)

\* The engine comes to a link of its snapshot.  The code takes the links by
\* link_id; here the order is free.
Visit(l) ==
    /\ engine = "running" /\ l \in todo
    /\ Free(asked)
    /\ todo' = todo \ {l}
    /\ UNCHANGED <<telemetryVars, windows, reactiveVars>>

\* No prediction for it: on to the next one.
SkipLink(l) ==
    /\ PredictionMayFail
    /\ Visit(l)
    /\ UNCHANGED <<asked, engine, executorVars>>

\* It is predicted, decided and, when the decision is to act, requested; but a
\* registry that build_registry_graph cannot read is the end of the engine.
EvaluateLink(l) ==
    /\ Visit(l)
    /\ \/ /\ evaluate_probability(predict(windows[l])) = "monitor"
          /\ UNCHANGED <<asked, engine, executorVars>>
       \/ /\ evaluate_probability(predict(windows[l])) # "monitor"
          /\ \E i \in Executor!Ids, path \in RequestPaths(l) :
                asked' = i /\ Ask(i, PredictiveBody(l, path))
          /\ UNCHANGED engine
       \/ /\ evaluate_probability(predict(windows[l])) # "monitor"
          /\ ReadMayFail
          /\ engine' = "dead"
          /\ UNCHANGED <<asked, executorVars>>

-----------------------------------------------------------------------------
\* The reactive baseline.

\* A mutant: without the WHERE clause.
LatestOfAll ==
    {S \in SUBSET link_telemetry :
        /\ Cardinality(S) = Min({RowLimit, Cardinality(link_telemetry)})
        /\ \A r \in S, q \in link_telemetry \ S : q.ts <= r.ts}

\* The newest RowLimit complete rows, ties broken by the database.
LatestRows ==
    LET complete == {r \in link_telemetry : ~r.partial}
    IN  {S \in SUBSET complete :
            /\ Cardinality(S) = Min({RowLimit, Cardinality(complete)})
            /\ \A r \in S, q \in complete \ S : q.ts <= r.ts}

ReactiveFetch ==
    /\ Reactive
    /\ rows = {}
    /\ Free(rasked)
    /\ rows' \in LatestRows
    /\ rasked' = 0
    /\ UNCHANGED <<telemetryVars, engineVars, executorVars>>

\* The next row, newest first: a severe one is reported to the executor.
ReadRow(r) ==
    /\ r \in rows
    /\ \A q \in rows : q.ts <= r.ts
    /\ rasked = 0
    /\ rows' = rows \ {r}
    /\ \/ /\ r.level = "severe"
          /\ \E i \in Executor!Ids : rasked' = i /\ Ask(i, ReactiveBody(r.link))
       \/ /\ r.level # "severe"
          /\ UNCHANGED <<rasked, executorVars>>
    /\ UNCHANGED <<telemetryVars, engineVars>>

\* A confirmed action ends the pass after the cool-down; any other answer goes
\* on to the next row.
ReactiveResume ==
    /\ rasked # 0
    /\ Free(rasked)
    /\ rows' = IF outcome[rasked] = "200" THEN {} ELSE rows
    /\ rasked' = 0
    /\ UNCHANGED <<telemetryVars, engineVars, executorVars>>

-----------------------------------------------------------------------------
Engine == Fetch \/ \E l \in Links : SkipLink(l) \/ EvaluateLink(l)
Baseline == ReactiveFetch \/ (\E r \in rows : ReadRow(r)) \/ ReactiveResume
Service == Executor!ServiceNext /\ UNCHANGED <<telemetryVars, engineVars, reactiveVars>>

Next ==
    \/ \E l \in Links, level \in Levels, partial \in Partials : WriteRow(l, level, partial)
    \/ Tick
    \/ Engine
    \/ Baseline
    \/ Service

Spec == Init /\ [][Next]_vars

\* The loops go round, uvicorn serves, and nothing obliges a client to time out.  A
\* link that is visited again and again gets a prediction at some time.
FairSpec ==
    /\ Spec
    /\ WF_vars(Fetch)
    /\ WF_vars(\E l \in Links : SkipLink(l) \/ EvaluateLink(l))
    /\ \A l \in Links : SF_vars(EvaluateLink(l))
    /\ Executor!ServiceFairness

-----------------------------------------------------------------------------
\* Properties.

Busy(r) == r.level # "clear"

NewestRead == Max({r.ts : r \in UNION {windows[k] : k \in DOMAIN windows}})

Joins(path, ends) == path[1] = ends[1] /\ path[Len(path)] = ends[2]

\* Does every read of the registry find the link, and the same ends?
Agreed(l) ==
    /\ ~ReadMayFail
    /\ \A f, g \in RegistryFiles :
        l \in DOMAIN f /\ l \in DOMAIN g /\ Ends(f, l) = Ends(g, l)

\* Is path a request for link l that the snapshot supports?
Justified(l, path) ==
    /\ \E r \in link_telemetry : r.link = l /\ Busy(r) /\ r.ts + WindowSeconds >= NewestRead
    /\ \/ \E ends \in EndsRead(l) : Joins(path, ends)
       \/ ~Agreed(l) /\ path = Default

NewRequestsAreJustified ==
    \A i \in DOMAIN body' \ DOMAIN body :
        body'[i].reason = "predictive" => Justified(body'[i].target_link_id, body'[i].new_path)

\* The engine acts on evidence: when it asks for a recovery of a link, that link,
\* and not another one of the pass, has a row that shows congestion, no older than
\* a window before the newest row the pass has read; and the path it asks for
\* joins the ends a read of the registry gave, or is the default one, and that
\* only when the reads may differ.
ActsOnEvidence == [][NewRequestsAreJustified]_vars

Cause(b, r) ==
    /\ r.link = b.target_link_id
    /\ \/ b.reason = "predictive" /\ Busy(r)
       \/ b.reason = "reactive" /\ r.level = "severe" /\ ~r.partial

\* Every request, also one whose client has gone on and one made from a snapshot
\* the table has outgrown, goes back to a row of its own link: one that shows
\* congestion for the engine, a severe and complete one for the baseline.
RequestsHaveCause == \A i \in DOMAIN body : \E r \in link_telemetry : Cause(body[i], r)

\* Congestion that stays in a link's window gets a recovery action, although
\* answers come late, requests die with the service, predictions fail and the
\* snapshot that finds the link is old by then: a later pass asks again.  (An
\* engine that has died asks no more.  The bound on requests ends the passes: it
\* excuses only a run that has lost every request it made for the link.)
CongestionIsRecovered ==
    \A l \in Links :
        <>[](\E r \in link_telemetry : /\ r.link = l /\ Busy(r)
                                       /\ r.ts >= Max({q.ts : q \in link_telemetry}) - WindowSeconds)
            => <>(\/ \E i \in recovery_actions : body[i].target_link_id = l
                  \/ engine = "dead"
                  \/ /\ DOMAIN body = Executor!Ids
                     /\ \A i \in DOMAIN body :
                            \/ outcome[i] = "lost"
                            \/ body[i].target_link_id # l \/ body[i].reason # "predictive")

\* milestones/phase3/README.md:21: the reactive loop detects a failure and triggers
\* the recovery API.  At least, then, the API does not refuse what it sends.
BaselineTriggersRecovery ==
    \A i \in DOMAIN body : body[i].reason = "reactive" => outcome[i] # "422"
=============================================================================
