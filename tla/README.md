# Verification of the self-healing SDN controller

TLA+ models of the programs in `src/`, the TLC configurations that check them on
small instances, and TLAPS proofs of what matters most for every instance.

```
tlc -workers 2 -config collector_accounting.cfg MCTelemetryCollector    # one run
tlapm TelemetryCollectorProofs.tla                                # one proof module
```

`PROJECT.json` lists the runs, the mutants that show each property can fail, the
source lines behind every definition, the findings, the hazards and the theorems.

## 1. The system

The repository is a set of Python processes around one SQLite file (`test.db`).

| Component | State it keeps | Operations | Interacts with |
|---|---|---|---|
| **Telemetry collector** `telemetry/telemetry_collector.py` | datapaths, last counters of each port, the current poll window, latencies, a database connection | handlers for features, state changes, port and flow statistics, packet-ins; a monitor green thread that polls, sleeps and writes rows | switches over OpenFlow; writes `link_telemetry` |
| **L2 learning switch** `network/simple_controller.py` and the same lines of the collector | `mac_to_port` | table-miss rule, learning, rule and packet-out | switches, whose rules outlive a packet-in and die with the switch |
| **Recovery executor** `recovery/recovery_stub.py` | the requests asleep in `execute_action` | validate, sleep 200 ms, insert, answer | HTTP clients; writes `recovery_actions` |
| **Prediction stub** `ml/prediction_stub.py` | none | `/predict` | called by the engine |
| **Decision engine** `recovery/decision_engine.py` | cached thresholds | probability to action | called by the engine |
| **Path computation** `recovery/path_algorithms.py` | none | registry graph, constrained shortest path | called by the engine |
| **Integration engine** `scripts/run_phase2.py` | one pass: the windows of all links | fetch, predict, decide, request, every two seconds | reads `link_telemetry`; calls the services above with a two-second time-out |
| **Reactive baseline** `recovery/reactive_baseline.py` | one pass: five rows | query, request, cool-down | reads `link_telemetry`; calls the executor |
| **Fault injector, orchestrator** `network/fault_injector.py`, `scripts/run_phase3_dataset_gen.py` | where in the experiment it is | sleep, log a fault, bring it about, undo it | Mininet; writes `fault_log` |
| **Dataset pipeline** `ml/dataset_pipeline.py` | its copies of two tables | read, label fault by fault, export | reads `link_telemetry`, `fault_log` |
| **Database and registry** `telemetry/db_init.py`, `schema.sql`, `network/topology_builder.py` | the database file, `topology_registry.yaml`, the modification times | check, unlink, create, seed, verify; rewrite the registry | everything: who has the file open keeps the old one |
| **Node collector** `telemetry/node_collector.py` | a connection for life | one row and one commit a second | reads the registry once; writes `node_telemetry` |
| Training, audit, dashboard, traffic, validators, demonstrations | none of interest | batch scripts, displays, I/O | |

What is hard in it:

- *Concurrency.* Green threads switch in the middle of a row (the netlink read of
  `read_queue_length`); statistics replies arrive in a later window than their
  request's; packet-ins of one flow overlap; coroutines sleep side by side.
- *Failure.* Switches restart with zero counters and no rules; connections and
  probes are lost; the executor restarts under its clients; inserts and commits
  raise.
- *Time.* Clients give up while their request lives on; snapshots age while they
  are worked through; logged and real fault intervals differ.
- *Files.* `db_init` unlinks a database others have open, and reads a registry that the
  builder may just have emptied; a statement that fails keeps its transaction's lock.

What makes each component correct is stated as its properties, below.

## 2. The modules

```
TelemetryCollector ── MCTelemetryCollector        RecoveryContract   (abstract)
        └── TelemetryCollectorProofs                     ▲ refines
LearningSwitch ── MCLearningSwitch                RecoveryExecutor ── MCRecoveryExecutor
        └── LearningSwitchProofs                         │      └── RecoveryExecutorProofs
DatasetGeneration ── MCDatasetGeneration                 ▼ INSTANCE
        └── DatasetGenerationProofs               RecoveryLoop ── MCRecoveryLoop
DatabaseContract   (abstract, per file)                  │      └── RecoveryLoopProofs
        ▲ refines                                        ▲ EXTENDS
DatabaseFile ── MCDatabaseFile                    PathAlgorithms
        └── DatabaseFileProofs
```

### TelemetryCollector

State: the fields of `LinkTelemetryCollector` under their own names (`datapaths`,
`port_stats`, `current_poll_stats`, `cycle_latency`, `last_latency`), the
monitor's place (`monitor`, `todo`, `draft`), the table (`link_telemetry`: the last
row of each link), and the world: connections, port counters, requests and replies
in flight in order, probes.

| Action | Code |
|---|---|
| `switch_features_handler`, `state_change_handler` | the handlers of the same names; `StateChangeDispatchers` is the argument of the decorator |
| `port_stats_reply_handler`, `flow_stats_reply_handler`, `packet_in_handler` | the handlers of the same names (the probe branch of the last) |
| `Wake`, `InsertRow` | `_monitor` from `hub.sleep` on, cut where the netlink read waits; both end in `RunOn`: the next row, or commit and the next window |
| `Transmit`, `Answer`, `LoseProbe`, `Disconnect` | the network and the switches (external) |

A row is what the properties need: partial or not, its bytes, the method of its
latency, and the ends heard. The sums the code keeps per link are kept per port.
Received counters are left out: they only make the loss percentage, a value on which
no handler decides. Sending to a datapath is taken not to wait: OS-Ken's send
queue holds sixteen messages and the monitor sends a few a second. A pass takes the
links once, in the order of the dict (`Order`): a link it has gone past, because no reply
had been counted or no latency was known, is not looked at again, although its reply may
come in while the pass waits for the next link's netlink read. The monitor never waits
for replies: a request that finds `MaxPending` messages outstanding is lost.

Three history fields are no state of the code: `reported`, the bytes of a link in all
its rows, `life` in a counter, what the port ever transmitted, and `owed`, the links heard
when the pass began whose row is not begun yet.

### LearningSwitch

The controller's `mac_to_port` and the switches: rule tables, frames on the cables,
packet-ins and commands on their way, in order. `_packet_in_handler` is the code's;
`Match`, `Apply`, `Send`, `Fail` are the switches and hosts. A connection goes from "down"
over "config" to "main" (`dispatcher`); a packet-in before "main" is dropped, as
`set_ev_cls` has it. `MissRule` says whether the handshake sends a table-miss entry: it
does in `simple_controller.py`, it does not in `telemetry_collector.py`. That rule is a
command like the others, on its way until the switch applies it. A packet-in is for a
buffered frame or not (`BufferIds`), and `FlowMod` takes buffer 0 for no buffer, as
`simple_controller.py:37` does: the frame in it is neither sent on nor sent back. The
history field `due` holds the frames that ought to arrive: those sent while every
connection was through its handshake and every table-miss rule in place (`Ready`), less
those which `add_flow` forgets in this way. The topology is any tree; `Toward` names the
port that leads to each host, and `TreeAssumption` says what makes it a tree: of the two
ends of a cable exactly one leads to a given host, a host's own port leads to no other
host, and the broadcast address is no host's. A switch with no matching rule and no table-miss
entry drops the frame, as OpenFlow 1.3 requires. Once installed, rules do not
expire: the code sets no time-out.

### RecoveryContract, RecoveryExecutor

`RecoveryContract` says what a client may rely on: a confirmed action is on record,
a refused one never is, an unanswered one may or may not be, and nothing is applied
twice. `RecoveryExecutor` is the coroutine in two steps (`ReceiveRequest` up to the
sleep, `PersistAction` from there on), the restart of the service, and the client's
side: `Post`, `GetResponse`, `Timeout`, `PostUnreachable`. A body is a record with
the fields the clients vary; `Valid` is the JSON schema on these, `Referenced` the
foreign keys. The refinement maps `recovery_actions` to `applied` and what the
client has seen to `knowledge`.

### PathAlgorithms, RecoveryLoop

`PathAlgorithms` gives the set of paths `nx.dijkstra_path` may return, by
definition: the lightest simple paths of the filtered graph. Every edge of the registry's
graph has weight 1, so the weight of a path is its number of edges. `RecoveryLoop`
composes the rows of the collector (`WriteRow`), the engine (`Fetch`, `SkipLink`,
`EvaluateLink`), the baseline (`ReactiveFetch`, `ReadRow`, `ReactiveResume`) and an
instance of `RecoveryExecutor` that both clients use. For each request the engine reads
the registry twice, once for the graph and once for the ends of the link
(`run_phase2.py:105-116`). Each read finds one of `RegistryFiles`, or, if `ReadMayFail`,
nothing it can parse: the first ends the engine then (only `sqlite3.Error` is caught), the
second leaves the ends at s1, s2. A link that is not in the file has these ends too, and a
search that finds no way gives the path s1-s2 (`EndsRead`, `NewPaths`, `Default`). Telemetry shows one of three
levels, which is all the two clients tell apart: `clear`, `busy` (queue or loss
above zero, the stub's condition), `severe` (above the baseline's thresholds). Time
counts poll intervals.

### DatasetGeneration

The orchestrator with its injector (`log_fault_to_db`, `Inject`, `Restore`,
`Abort`), the clock, rows, and the pipeline (`ReadTelemetry`, `ReadFaults`,
`LabelFault`, `Export`), which may start at any time and reads the two tables one
after the other. Any sleep or command ends up to `MaxLag` ticks late. A row stands
for the rows of one moment, since labels do not look at the link.

### DatabaseContract, DatabaseFile

`DatabaseContract` says what the schema promises a reader of one database file: its
registry tables are filled once, by one whole topology and before any row; a row refers to
an object registered in the same file; what is recorded stays. `DatabaseFile` is the file
under all its users, and each of its files implements the contract (`Contract(f)`).

State of `DatabaseFile`: the version of the topology in the script (`topo`) and in the registry, which
of the two files is younger, the builder; the files ever named `test.db`, each with its
schema, its registry tables and its rows, of which only the object they refer to is kept
(`path` is the one that has the name now); the connection of each process, with the file
it keeps and its open transaction.

| Action | Code |
|---|---|
| `Edit`, `Checkout` | someone edits `mininet_test_topo.py`, or a checkout sets the times |
| `ImportTopology`, `WriteRegistry`, `KillBuilder` | `topology_builder.py`: the import, then `write_text`, which empties the file before it writes it |
| `BeginInit`, `Connect` | the staleness check, `unlink`, `sqlite3.connect` |
| `CreateTables`, `CreateRest` | `executescript` of `schema.sql`, which commits statement by statement |
| `Seed`, `CommitSeed` | the registry is read, its nodes and links are inserted and committed |
| `VerifyForeignKeys`, `CloseInit`, `VerifyUnmanaged` | the bogus inserts, the close, and the last check over a connection of its own |
| `InitTimesOut`, `KillInit` | SQLite's busy time-out; a kill between any two statements |
| `Start`, `Insert`, `Commit`, `Stop` | the writers: the collector (a transaction a pass), the node collectors (one a sample, any error ends them), executor and injector (`Visitors`, a connection a row) |

SQLite and the file system are taken by what they promise: a connection keeps the file it
opened, named or not; a missing file is created empty; a file has one writer at a
time. Python opens a transaction before an insert and leaves it open when the insert is
refused, with the lock if the statement had taken it; an insert that finds no table, or
finds the lock taken, holds none. The `-wal` and `-shm` files, which go by the path, and the
switch to WAL mode are not modelled. `seed_demo_record.py` adds no action: what it does
to the file is `db_init` up to its checks, followed by a visitor's rows.

## 3. What the runs check

Every property of a passing run has a mutant in `PROJECT.json`: a plausible slip in
the code (a missing reset, a swapped comparison, a forgotten return) under which the
same run fails.

**Collector**

| Run | Properties | Shows |
|---|---|---|
| `collector_accounting` | `NoByteReportedTwice`, `ByteInvariant` | one link and two switches; requests stay unanswered into later windows, so that replies are late; two packets; a switch restarts or its connection drops once: no byte is in two rows |
| `collector_reporting` | `HeardLinksGetRows`, `ProbeRemembered`, `ConnectedIsPolled`, `ProbedStaysProbed`, `LinkKeepsReporting` | two links that meet in s1, only L1 with a configured delay; replies come in during the netlink reads, or late, or never; probes and a connection are lost, a commit may fail: no link that was heard is left out of its pass, rows keep to what was measured, a switch that came back is polled over its new connection, and under fairness a link whose switches are connected, and answer within a window now and then, keeps getting rows as long as no commit fails |

**Executor and loop**

| Run | Properties | Shows |
|---|---|---|
| `executor_contract` | `ExecutorInvariant`, `NoRequestForgotten`, `ImplementsContract` | three requests at once, a good, a malformed and a dangling one, errors and a restart: the contract is kept, and whoever waits has an answer coming |
| `loop` | `TypeOK`, `RequestsHaveCause`, `ActsOnEvidence`, `CongestionIsRecovered` | the link s1-s3 with both clients: stale snapshots, failing predictions, a registry that has the link, lacks it or cannot be read, a restart of the service. The engine asks on evidence, for a path between ends it has read or for the default path; every request has a row that is its cause; and lasting congestion is recovered although requests are lost, unless the engine has died |

**Dataset**

| Run | Properties | Shows |
|---|---|---|
| `dataset_clean` | `PrecursorsAreClean` | the real sleeps: precursor rows are never rows of a fault, even an unlogged one |
| `dataset_overlap` | `TypeOK`, `LabelsAreJustified` | sleeps shorter than the orchestrator's, three faults whose windows overlap: the labels are independent of the order |

**Database**

| Run | Properties | Shows |
|---|---|---|
| `database_file` | `RowsResolve`, `RegistryWhole`, `InitializedIsUsable`, `InitFailsForCause`, `ImplementsContract` | two runs of `db_init`, a builder and one writer of each kind over two files: no orphan row, no half a registry, nothing recorded is changed, success means a usable file, and failure has an outside cause |

**Learning switch**

| Run | Properties | Shows |
|---|---|---|
| `switch_forwarding` | `TypeOK`, `LearnedPortsPointHome`, `DeliveredOnce`, `NothingStranded`, `FramesArrive` | two switches, a broadcast and its answers, handshakes that take their time, unbuffered packet-ins and ones in buffer 0 and 1, a restart: all that was learned and installed leads home, no frame is duplicated, comes back or, but for those in buffer 0, is left without a copy on its way, and frames sent on a network that stays ready arrive |

**Disagreements.** Four runs expect a violation: each checks one sentence of the
repository against the code, and `PROJECT.json` quotes it under "findings".

| Run | The code | The sentence |
|---|---|---|
| `collector_partial_flag` | counts replies, not ends: a late reply and the next one of the same switch hide a silent end | `is_partial`, `telemetry_schema.json:22` |
| `collector_flow_count` | adds up the replies of two windows | `active_flows`, `telemetry_schema.json:20` |
| `baseline_trigger` | the payload has no `new_path`, and the executor refuses it with 422 (`recovery_interface.json:7`); a refusal is not logged | "triggers the recovery API", `milestones/phase3/README.md:21` |
| `switch_unified` | no table-miss rule in the unified controller (checked on the repository's tree of three switches) | `milestones/phase2/README.md:8` |

Other differences between the code and what is written about it show in the reading and
need no run; the models have the code's behaviour:

- the loss percentage compares counters of the two ends read at different moments, and a
  packet between the readings counts as lost (`telemetry_collector.py:353-372`);
- the "Unregister datapath" branch never runs, since its handler asks for
  `MAIN_DISPATCHER` only (`telemetry_collector.py:149-158`; `StateChangeDispatchers`);
- `commit()` is outside the `try`, and a failure ends the monitor
  (`telemetry_collector.py:432`; `CommitFails`);
- a registry that is missing, empty or half written ends the engine with an uncaught
  exception of `build_registry_graph` (`run_phase2.py:105`, `path_algorithms.py:16-18`), where
  `docs/member4_recovery_log.md:29` speaks of "ensuring the orchestrator doesn't crash if the
  graph breaks" and `milestones/phase2/README.md:14` of "catching missing paths gracefully
  instead of crashing": only errors of the search are caught (`EvaluateLink`, `engine`);
- a link the registry lacks is recovered, as far as the table says, by the path s1-s2,
  whatever the link is (`run_phase2.py:106-123`; `PathIsLink`);
- `add_flow` takes buffer id 0 for none, so that a frame in it is never released
  (`simple_controller.py:37`, `:73-75`; `FlowMod`). The table-miss rule asks for no buffering
  (`:28`), so that a conforming switch has no buffered frame and there is nothing to run;
- frames that come while a switch's handshake is under way are lost, since the table-miss
  rule is only sent (`simple_controller.py:42`) and packet-ins are not handled before
  `MAIN_DISPATCHER` (`:44`; `Ready`);
- the 30-second window trails the newest row, not the clock (`run_phase2.py:29`);
- the path requested for a link at risk is that link, whenever the registry has the link
  (`run_phase2.py:119`; `PathIsLink`);
- the engine never prepares a backup: the stub answers 0.0 or 0.85, and no bin but the first
  and the last is reached (`prediction_stub.py:47`; `WindowDecides`);
- a fault takes effect after it is logged and ends as much later, so its last rows are
  not labelled -1 (`dataset_pipeline.py:63`; `Inject`);
- the registry can be stale, although "no components can run if the topology registry is
  stale" (`milestones/phase2/README.md:9`, also `docs/member2_telemetry_log.md:28`): only
  `db_init` looks, and it compares modification times (`db_init.py:23`), which a checkout
  sets and which a builder that imported an older script wins (`Checkout`, `WriteRegistry`);
- the old database is gone before the registry is read, so that an empty one costs it
  (`db_init.py:27`, `db_init.py:33`; `BeginInit`, `Seed`), and whoever has it open goes on
  writing where no one reads (`Insert`);
- any error ends a node collector, where the link collector logs it and goes on
  (`node_collector.py:77`, `telemetry_collector.py:429`; `Refused`);
- the fields of `severity_params` are not those of the contract (`fault_injector.py:53`,
  `fault_log_schema.json:48`).

### Bounds

Each bound is a CONSTANT marked "bound" in its module, and only stops the
environment: packets, messages in flight, crashes, requests, restarts, failures,
faults, rows, time. Because they stop it, the models come to an end, and deadlock
is not checked.

- `MaxPending` counts the requests and replies of a switch that are outstanding. With 4 the
  messages of two windows fit, for the two runs that look for them together. With 2 the
  port and the flow request of a window fit, and those of the next are lost as far as the old
  ones are unanswered; with 1 only port requests get through, which are what rows are made
  of. In all a reply can be late by any number of windows, and nobody waits for room.
- Two packets and one crash are enough for the byte accounting: a credit that
  counts twice needs one byte and two samples, a counter that goes back needs one
  restart between them. The theorem has no bound.
- Three requests give two clients, one of which asks twice; one restart separates any
  two steps of the executor.
- `loop` has one link: the product of two clients, an executor and the table grows too
  fast for liveness with two. The theorems on evidence and causes have any number of links,
  so that a request for the wrong link of a pass is excluded by proof. The link is the one
  between s1 and s3, so that the default path is not its own. The window is the newest
  interval alone, so that one tick is enough for a row to leave it and for a snapshot to be
  stale; two requests and one restart let one request be lost and another one be made;
  `RowLimit` 1 makes the baseline choose among the newest rows.
- The dataset's tick is 15 s: 45, 30 and 30 s are 3, 2 and 2 ticks (the theorem needs
  no more than Baseline > Precursor). `Settling` is 0 where a longer start would only
  delay the first fault. Two rows are enough to have one under each of two labels.
- A broadcast, its answer and two frames of the flow that follows exercise every way a
  port is learned and every race between a rule and a packet-out; the theorem on what is
  learned holds for every tree.
- `LinkKeepsReporting` speaks of runs in which the monitor does not die, since after a commit
  that fails no row is written, and in which again and again a sleep outlasts the round trip
  to an end of the link: a switch that is always more than a window late may miss every pass.
- `CongestionIsRecovered` excuses an engine that has died of an unreadable registry, and a run
  that has used up `MaxActions` with every request for the link lost.
- `database_file`: two initialisers, alike up to symmetry, are the least that overlap; two
  files are an old and a new one; the one edit replaces a link by a host, so that every
  row of the old version is an orphan under the new one. The theorems have no bound.

### Fairness

- *Collector* (`FairSpec`): the monitor's timer fires and its netlink read returns. Nothing
  obliges a switch to connect, to stay or to answer in time, a packet to arrive or a probe to
  survive; that an end answers within a window again and again is a premise of
  `LinkKeepsReporting` itself.
- *Loop*: the engine's loop goes round and uvicorn runs what is ready
  (`ServiceFairness`). A link that is visited again and again gets a prediction at some time:
  strong fairness of `EvaluateLink`, since a prediction that fails does not keep the next pass
  from asking again. Time-outs, restarts, rows and the clock are not fair.
- *Learning switch*: arrived frames are matched, packet-ins handled, commands applied.
  Hosts need not send, switches need not fail.

That one is the only strong fairness.

## 4. What is proved

For every value of the constants that meets the named assumptions (topology,
bounds in Nat, flags BOOLEAN):

| Theorem | Says |
|---|---|
| `TelemetryCollectorProofs!TypeCorrect` | `Spec => []TypeOK` |
| `TelemetryCollectorProofs!BytesAreAccounted`, `BytesAreReportedOnce` | `Spec => []ByteInvariant`, `Spec => []NoByteReportedTwice` |
| `TelemetryCollectorProofs!HeardLinksAreWritten` | `Spec => []HeardLinksGetRows` |
| `TelemetryCollectorProofs!ConnectedSwitchesArePolled` | `Spec => []ConnectedIsPolled` |
| `TelemetryCollectorProofs!ProbesAreRemembered`, `ProbedLinksStayProbed` | `Spec => []ProbeRemembered`, `Spec => ProbedStaysProbed` |
| `RecoveryExecutorProofs!AnswersAgreeWithTable` | `ExecutorSpec => []ExecutorInvariant` |
| `RecoveryExecutorProofs!WaitsAreForSomething` | `ExecutorSpec => []NoRequestForgotten` |
| `RecoveryExecutorProofs!ExecutorKeepsContract` | `ExecutorSpec => ImplementsContract` |
| `DatasetGenerationProofs!TypeCorrect`, `LabelsHaveNoOrder` | `Spec => []TypeOK`, `Spec => []LabelsAreJustified` |
| `DatasetGenerationProofs!PrecursorsAreNotFaulty` | `Baseline > Precursor => (Spec => []PrecursorsAreClean)` |
| `LearningSwitchProofs!TypeCorrect`, `LearningIsSound` | `Spec => []TypeOK`, `Spec => []LearnedPortsPointHome` |
| `LearningSwitchProofs!FramesComeOnce` | `Spec => []DeliveredOnce` |
| `LearningSwitchProofs!NoFrameIsStranded` | `MissRule => (Spec => []NothingStranded)` |
| `RecoveryLoopProofs!TypeCorrect` | `Spec => []TypeOK` |
| `RecoveryLoopProofs!PathIsLink` | for every version of the registry: the path between the ends of a link it has is that link; the default, for ends the graph lacks; never anything but the default or a path between the ends |
| `RecoveryLoopProofs!BinsAreHalfOpen` | the action of every probability in 0 .. 100 hundredths |
| `RecoveryLoopProofs!EngineActsOnEvidence` | `Spec => ActsOnEvidence` |
| `RecoveryLoopProofs!RequestsAreCaused` | `Spec => []RequestsHaveCause` |
| `DatabaseFileProofs!DatabaseSound`, `TypeCorrect` | `Spec => []DatabaseInvariant`, `Spec => []TypeOK` |
| `DatabaseFileProofs!RowsAlwaysResolve`, `RegistriesAreWhole` | `Spec => []RowsResolve`, `Spec => []RegistryWhole` |
| `DatabaseFileProofs!InitializedUsable`, `InitFailsOnlyForCause` | `Spec => InitializedIsUsable`, `Spec => InitFailsForCause` |
| `DatabaseFileProofs!FilesKeepContract` | `Spec => ImplementsContract`: all files at once |
| `DatabaseFileProofs!FileRefinesContract` | `Spec => Contract(f)!Spec` for each file f |

The arguments:

- *No byte twice.* The property is not inductive: it says nothing of bytes sampled and
  not yet reported. `ByteInvariant` adds two parts. `SamplesInOrder`: for each port,
  `port_stats`, the replies in flight in their order and the counter itself are each
  *behind* the next, where behind means that what the delta would credit (zero if the
  counter went back) is at most what was transmitted in between; this survives a
  restart because the connection drops the replies. `BytesAccounted`: a link's bytes
  are in its rows, in the row being written or in the window, and the window no longer
  counts once its row is begun. A port reply moves the credit of a port from the
  first to the second; opening a window forgets.
- *Heard links are written.* `OwedInvariant`: what is owed has a count and a latency still, for
  the handlers only add to both, and lies ahead of the pass, which takes the first reportable
  link in the order. So a pass that finds nothing more to report owes nothing.
- *Probed stays probed.* `ProbeRemembered`: every probe measured in the window, in the
  table or in the row being written is in `last_latency`, which only grows.
- *The contract.* `ExecutorInvariant` puts a request in one place at a time (inbox,
  tasks, answered) and makes each response agree with the table. Under it every
  step maps to a step of `RecoveryContract` or to a stutter; the restart is its
  `GiveUpAll`.
- *Labels.* `LabelsAreJustified` is inductive with the types: applying one more fault to
  rows that are right for the faults applied so far makes them right for one more
  (`OneMoreFault`).
- *Clean precursors.* The invariant bounds in time what the state knows: the last tick
  a fault was in effect is before the current baseline began, and every logged fault
  started a full baseline after it.
- *Connections.* Inductive is the property of the whole handshake (`HandshakeRegisters`): the
  object is the new one from the features reply on.
- *Learning.* A frame on a cable or in a packet-in is at the port that leads home to its
  sender; a flood or a rule keeps it so, because in a tree the port at the other end
  of a cable taken away from a host is the one toward it.

- *Frames come once.* A host has received a frame, or one copy at most is *ahead* of it: on
  a cable, in a packet-in or in a command that leads to it. In a tree the copies of a flood
  leave by different ports, and what lies behind two ports of a switch is disjoint
  (`CopyInvariant`, `OneCopy`).
- *None stranded.* A copy is *pending* for a host when it is on a cable, in a packet-in or in a
  command, at a port that is not the one toward the host. A flood passes it on through the
  port toward the host; a rule or a known port does, because what was learned points home
  and such a frame has one addressee; a miss hands it to the controller, which the table-miss
  rule ensures, and the answer that carries it is the last of its commands. An arrival is
  never matched before the switch has its table-miss rule, since a frame counts as *due*
  only if sent on a network that was ready, and a failure, which alone takes a rule away,
  makes nothing due (`DueWhileReady`). Only an answer for buffer 0 carries no copy, and takes
  its frame out of `due`.
- *Evidence.* `Snapshot`: the windows of a pass stay non-empty sets of written rows, each
  of its own link, and none of them more than `WindowSeconds` older than another, however
  many rows come in meanwhile. A request needs a congested row of its link's window. Its path
  comes from two reads: a path the search finds joins the ends it was given (`FoundBetween`),
  and one it does not find is the default. When the reads agree about the link the default is
  not taken, because the path is the link (`PathIsLink`): its edge passes the filter of
  `cspf_path`, whose bounds the engine leaves at their defaults, and a path of one edge is
  lighter than any other. `RegistryAssumption` asks of each version for what the registry's
  builder gives: finitely many links, between two different nodes, of a capacity that is not
  negative. It does not ask that a version has the link.
- *Causes.* `Snapshot` says also that what the baseline has yet to read are complete rows of the
  table. A new request has its cause in the snapshot, rows are never deleted and requests
  never changed, so a cause stays one however late the request is decided.
- *Waits.* Every step that takes a request from one place of the executor puts it in the
  next, and a restart ends the waits it cuts off.
- *One executor.* Each step of the loop is a step of the executor or leaves it alone
  (`StepOfExecutor`), so that what is proved of the executor for every set of bodies is used
  for these two clients (`Proved`, `SameStep`, `SameTypes`).
- *Database.* `DatabaseInvariant` says what an initialiser may rely on at each stage: the
  file whose first table it created is its own (`InitialisersApart`: a second one fails
  there), so that it seeds empty tables (`OwnFile`), and while no other has run its file is
  the one at the path (`PathIsOwn`). Rows resolve because registry tables only grow.
- *Database contract.* Three actions change a file: creating tables changes nothing the
  contract speaks of, the commit of the seed is its `Register` (the tables are empty and
  without rows, by `OwnFile`), the commit of a writer is its `Record`. All other steps, and
  all steps on other files, are stutters.

Only model-checked are the three liveness properties, which need fairness and ENABLED, out
of the prover's reach. The safety each rests on is proved:

| Liveness, by TLC | What is proved of it |
|---|---|
| `LinkKeepsReporting` | a link heard in a window gets its row in the pass (`HeardLinksGetRows`), a connected switch is polled over its connection (`ConnectedIsPolled`), a probed link keeps its latency (`ProbeRemembered`) |
| `CongestionIsRecovered` | congestion is answered by a reroute (`WindowDecides`), for the link that shows it (`EngineActsOnEvidence`), and no client waits for nothing (`NoRequestForgotten`) |
| `FramesArrive` | a frame that has not arrived has a copy on its way to that host (`NothingStranded`) |

Induction over data (what a recursive definition computes for every input) is out of reach
too; no module uses recursion, so nothing is left out for it.

## 5. What is not modelled

- *Values*: latencies, rates, percentages, queue lengths. The properties tell apart
  whether a quantity is zero, not how large it is. The averaging of throughput is left out.
- *Training, audit, synthetic data*: numerical batch scripts without state.
- *Dashboard, demonstrations, traffic generator, shell scripts, Docker*: display and I/O.
- *Contract validators*: jsonschema on examples; what the executor validates is modelled.
- *The registry's format, the rows' values*: a version of the topology is the set of objects
  it declares, a row is the object it refers to.
- *SQLite's log files*: see DatabaseFile.
- *Threshold cache*: the thresholds are constants of the models.

## 6. Plan

Done, in order of importance: the collector with its proofs; the contract, the executor
and the refinement; the loop that composes it with its clients, with its proofs; dataset
generation; the learning switch, now with the proof of `DeliveredOnce`; the database file
and the registry under all their users, with proofs; the contract of a database file and
its refinement, the causes of requests, and the safety that the liveness properties
rest on.

What could follow:

1. **WindowSummary**: an abstract specification of a poll cycle (each window's counted
   replies belong to distinct requests) as what the collector would have to implement,
   and how far it does.
2. **Unified controller**: the collector's packet-in handler with both branches on the
   same switch connections, if the products stay small enough for TLC.
