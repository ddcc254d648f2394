------------------------- MODULE TelemetryCollector -------------------------
(***************************************************************************)
(* The OS-Ken application of telemetry/telemetry_collector.py: a monitor   *)
(* green thread that opens a poll window, asks every datapath for port and *)
(* flow statistics, probes every link, sleeps one poll interval and writes *)
(* one link_telemetry row per link; and the event handlers that fill the   *)
(* window while the monitor sleeps.                                        *)
(*                                                                         *)
(* Green threads switch only where the code waits: at hub.sleep, between   *)
(* two events, and at the netlink read of read_queue_length, which sits in *)
(* the middle of a row.  Everything between two such points is one action. *)
(*                                                                         *)
(* A link joins two ports, <<link, "a">> and <<link, "b">>.  The per-link  *)
(* accumulators of current_poll_stats are sums over the two ports and are  *)
(* kept here as their per-port summands, those of the transmitted bytes    *)
(* only: the received ones make the loss percentage of the row, a value    *)
(* on which no handler decides.                                            *)
(* A packet counts as one byte.                                            *)
(***************************************************************************)
EXTENDS Integers, Sequences, FiniteSets

CONSTANTS
    Switches,       \* datapath ids
    Links,          \* link ids of contracts/topology_registry.yaml
    SwitchOf,       \* the switch each port belongs to
    Order,          \* the place of each link in the registry, hence in the dicts
    Configured,     \* the links whose registry entry has configured_delay_ms
    ElapsedValues,  \* may time.time() advance (TRUE), stall or step back (FALSE)
    Lossy,          \* may a link drop a probe
    CommitMayFail,  \* may db_conn.commit() raise
    MaxSent,        \* bound: for each port, the packets it ever transmits
    MaxFlows,       \* bound: flow entries that output to a port
    MaxPending,     \* bound: statistics messages in flight to and from a switch
    MaxCrashes      \* bound: connections lost over the whole run

Ends == {"a", "b"}
Ports == Links \X Ends
PortsOf(s) == {p \in Ports : SwitchOf[p] = s}

ASSUME TopologyAssumption ==
    /\ SwitchOf \in [Ports -> Switches]
    /\ Order \in [Links -> Nat]
    /\ \A l, m \in Links : Order[l] = Order[m] => l = m
    /\ Configured \subseteq Links
    /\ IsFiniteSet(Links)

ASSUME EnvironmentAssumption ==
    /\ ElapsedValues \subseteq BOOLEAN
    /\ Lossy \in BOOLEAN
    /\ CommitMayFail \in BOOLEAN
    /\ MaxSent \in [Ports -> Nat]
    /\ MaxFlows \in Nat
    /\ MaxPending \in Nat
    /\ MaxCrashes \in Nat

VARIABLES
    \* the application's own state
    datapaths,          \* self.datapaths: "none", a "live" or a "stale" object
    port_stats,         \* self.port_stats: last counters seen, for some ports
    current_poll_stats, \* self.current_poll_stats, per port
    cycle_latency,      \* links with a probe measured in this window
    last_latency,       \* links with a probe measured ever
    monitor,            \* the monitor: "sleep", "row" (netlink read), "dead"
    todo,               \* links _write_telemetry has still to visit
    draft,              \* {} or {the row whose queue length is being read}
    link_telemetry,     \* the last row inserted for each link that has one
    reported,           \* history: bytes in all the rows inserted for a link
    owed,               \* history: links heard when this pass began, without a row yet
    \* the network and the OpenFlow connections
    conn,               \* "down", "config" or "main"
    counters,           \* the counters of each port, and its lifetime tx
    requests,           \* statistics requests on their way to a switch
    replies,            \* statistics replies on their way to the application
    probes,             \* links with a probe on the wire
    crashes

netVars == <<conn, counters, requests, replies, probes, crashes>>
monitorVars == <<monitor, todo, draft, link_telemetry, reported, owed>>
vars == <<datapaths, port_stats, current_poll_stats, cycle_latency,
          last_latency, monitorVars, netVars>>

-----------------------------------------------------------------------------
\* The counters of a port since its switch started; life is a history field,
\* the packets it transmitted since the run began.
Sample == [tx : Nat, life : Nat]

\* What the window knows of one port.
PortWindow == [bytes : Nat, replies : Nat, flows : Nat]
EmptyWindow == [bytes |-> 0, replies |-> 0, flows |-> 0]

\* A row; heard is a history field, the ends that had counted in its window.
Row == [link : Links, partial : BOOLEAN, bytes : Nat,
        method : {"lldp_probe", "configured_static"}, heard : SUBSET Ends]
StoredRow == [row : Row, flows : Nat]

\* A reply of switch s, about all its ports.
MessageOf(s) == [kind : {"port"}, stat : [PortsOf(s) -> Sample]]
    \cup [kind : {"flow"}, stat : [PortsOf(s) -> Nat]]

\* A dict whose keys are in S and whose values are in T.
IsDict(f, S, T) == DOMAIN f \subseteq S /\ f \in [DOMAIN f -> T]

TypeOK ==
    /\ datapaths \in [Switches -> {"none", "live", "stale"}]
    /\ IsDict(port_stats, Ports, Sample)
    /\ current_poll_stats \in [Ports -> PortWindow]
    /\ cycle_latency \subseteq Links
    /\ last_latency \subseteq Links
    /\ monitor \in {"sleep", "row", "dead"}
    /\ todo \subseteq Links
    /\ draft \subseteq Row
    /\ IsDict(link_telemetry, Links, StoredRow)
    /\ reported \in [Links -> Nat]
    /\ owed \subseteq Links
    /\ conn \in [Switches -> {"down", "config", "main"}]
    /\ counters \in [Ports -> Sample]
    /\ requests \in [Switches -> Seq({"port", "flow"})]
    /\ replies = [s \in Switches |-> replies[s]]
    /\ \A s \in Switches : replies[s] \in Seq(MessageOf(s))
    /\ probes \subseteq Links
    /\ crashes \in Nat

\* A mutant: port_stats keeps the first sample.
KeepFirst(f, g) ==
    [x \in DOMAIN f \cup DOMAIN g |-> IF x \in DOMAIN f THEN f[x] ELSE g[x]]

\* dict.update: g's entries take the place of f's.
Update(f, g) ==
    [x \in DOMAIN f \cup DOMAIN g |-> IF x \in DOMAIN g THEN g[x] ELSE f[x]]

\* A mutant: a counter that went back counts backwards.
Difference(before, now) == IF now > before THEN now - before ELSE before - now

\* max(0, now - before), for counters that restart with their switch.
Increase(before, now) == IF now > before THEN now - before ELSE 0

\* No green thread switch separates __init__ from the first window, which finds
\* no datapath to poll.
Init ==
    /\ datapaths = [s \in Switches |-> "none"]
    /\ port_stats = <<>>
    /\ current_poll_stats = [p \in Ports |-> EmptyWindow]
    /\ cycle_latency = {}
    /\ last_latency = {}
    /\ monitor = "sleep"
    /\ todo = Links
    /\ draft = {}
    /\ link_telemetry = <<>>
    /\ reported = [l \in Links |-> 0]
    /\ owed = {}
    /\ conn = [s \in Switches |-> "down"]
    /\ counters = [p \in Ports |-> [tx |-> 0, life |-> 0]]
    /\ requests = [s \in Switches |-> <<>>]
    /\ replies = [s \in Switches |-> <<>>]
    /\ probes = {}
    /\ crashes = 0

-----------------------------------------------------------------------------
\* Connections.

\* The states of the connection in which _state_change_handler is called.
StateChangeDispatchers == {"main"}

\* What self.datapaths holds for a switch after its connection enters a state:
\* OS-Ken drops the event when the handler did not ask for that state.
AfterStateChange(entry, state) ==
    CASE state \notin StateChangeDispatchers -> entry
      [] state = "main" -> IF entry = "none" THEN "live" ELSE entry
      [] OTHER -> "none"

\* A mutant: a datapath object that is known is not replaced.
register_once_handler(s) ==
    /\ conn[s] = "down"
    /\ conn' = [conn EXCEPT ![s] = "config"]
    /\ datapaths' = [datapaths EXCEPT ![s] = IF @ = "none" THEN "live" ELSE @]
    /\ UNCHANGED <<port_stats, current_poll_stats, cycle_latency, last_latency,
                   monitorVars, counters, requests, replies, probes, crashes>>

\* A switch connects and its features reply arrives: the new datapath object
\* replaces whatever self.datapaths held.
switch_features_handler(s) ==
    /\ conn[s] = "down"
    /\ conn' = [conn EXCEPT ![s] = "config"]
    /\ datapaths' = [datapaths EXCEPT ![s] = "live"]
    /\ UNCHANGED <<port_stats, current_poll_stats, cycle_latency, last_latency,
                   monitorVars, counters, requests, replies, probes, crashes>>

\* The handshake ends.
state_change_handler(s) ==
    /\ conn[s] = "config"
    /\ conn' = [conn EXCEPT ![s] = "main"]
    /\ datapaths' = [datapaths EXCEPT ![s] = AfterStateChange(@, "main")]
    /\ UNCHANGED <<port_stats, current_poll_stats, cycle_latency, last_latency,
                   monitorVars, counters, requests, replies, probes, crashes>>

\* The connection dies with everything in flight on it.  When the switch itself
\* restarted (inject_node_failure) its counters begin again at zero.
Disconnect(s, restart) ==
    /\ conn[s] # "down"
    /\ crashes < MaxCrashes
    /\ crashes' = crashes + 1
    /\ conn' = [conn EXCEPT ![s] = "down"]
    /\ datapaths' = [datapaths EXCEPT ![s] = AfterStateChange("stale", "dead")]
    /\ requests' = [requests EXCEPT ![s] = <<>>]
    /\ replies' = [replies EXCEPT ![s] = <<>>]
    /\ counters' = [p \in Ports |-> IF restart /\ SwitchOf[p] = s
                                    THEN [tx |-> 0, life |-> counters[p].life]
                                    ELSE counters[p]]
    /\ UNCHANGED <<port_stats, current_poll_stats, cycle_latency, last_latency,
                   monitorVars, probes>>

-----------------------------------------------------------------------------
\* Traffic and the switches' answers.

\* A packet leaves port p.
Transmit(p) ==
    /\ conn[SwitchOf[p]] # "down"
    /\ counters[p].life < MaxSent[p]
    /\ counters' = [counters EXCEPT ![p] = [tx |-> @.tx + 1, life |-> @.life + 1]]
    /\ UNCHANGED <<datapaths, port_stats, current_poll_stats, cycle_latency,
                   last_latency, monitorVars, conn, requests, replies, probes,
                   crashes>>

\* A switch answers its oldest request with its counters, or with the flow
\* entries that output to each port, as they are now.
Answer(s) ==
    /\ conn[s] = "main"
    /\ requests[s] # <<>>
    /\ requests' = [requests EXCEPT ![s] = Tail(@)]
    /\ \/ /\ Head(requests[s]) = "port"
          /\ replies' = [replies EXCEPT ![s] = Append(@,
                [kind |-> "port", stat |-> [p \in PortsOf(s) |-> counters[p]]])]
       \/ /\ Head(requests[s]) = "flow"
          /\ \E flows \in [PortsOf(s) -> 0 .. MaxFlows] :
                replies' = [replies EXCEPT ![s] = Append(@,
                                [kind |-> "flow", stat |-> flows])]
    /\ UNCHANGED <<datapaths, port_stats, current_poll_stats, cycle_latency,
                   last_latency, monitorVars, conn, counters, probes, crashes>>

\* A probe is dropped by the link, or by a switch whose controller is not there
\* or does not listen yet (MAIN_DISPATCHER).
LoseProbe(l) ==
    /\ l \in probes
    /\ Lossy \/ conn[SwitchOf[<<l, "b">>]] # "main"
    /\ probes' = probes \ {l}
    /\ UNCHANGED <<datapaths, port_stats, current_poll_stats, cycle_latency,
                   last_latency, monitorVars, conn, counters, requests, replies,
                   crashes>>

-----------------------------------------------------------------------------
\* The handlers.

\* A mutant: the counter instead of its increase.
CreditCounter(w, before, now) ==
    [bytes |-> w.bytes + now.tx, replies |-> w.replies + 1, flows |-> w.flows]

\* One port of a port-stats reply whose previous sample is known.
Credit(w, before, now) ==
    [bytes |-> w.bytes + Increase(before.tx, now.tx),
     replies |-> w.replies + 1,
     flows |-> w.flows]

port_stats_reply_handler(s, elapsed) ==
    /\ replies[s] # <<>>
    /\ Head(replies[s]).kind = "port"
    /\ LET stat == Head(replies[s]).stat IN
       /\ current_poll_stats' = [p \in Ports |->
            IF p \in DOMAIN stat /\ p \in DOMAIN port_stats /\ elapsed
            THEN Credit(current_poll_stats[p], port_stats[p], stat[p])
            ELSE current_poll_stats[p]]
       /\ port_stats' = Update(port_stats, stat)
    /\ replies' = [replies EXCEPT ![s] = Tail(@)]
    /\ UNCHANGED <<datapaths, cycle_latency, last_latency, monitorVars, conn,
                   counters, requests, probes, crashes>>

flow_stats_reply_handler(s) ==
    /\ replies[s] # <<>>
    /\ Head(replies[s]).kind = "flow"
    /\ LET stat == Head(replies[s]).stat IN
       current_poll_stats' = [p \in Ports |->
            IF p \in DOMAIN stat
            THEN [current_poll_stats[p] EXCEPT !.flows = @ + stat[p]]
            ELSE current_poll_stats[p]]
    /\ replies' = [replies EXCEPT ![s] = Tail(@)]
    /\ UNCHANGED <<datapaths, port_stats, cycle_latency, last_latency,
                   monitorVars, conn, counters, requests, probes, crashes>>

\* A mutant: the probe counts for its window only.
forgetful_packet_in_handler(l) ==
    /\ l \in probes
    /\ conn[SwitchOf[<<l, "b">>]] = "main"
    /\ probes' = probes \ {l}
    /\ cycle_latency' = cycle_latency \cup {l}
    /\ UNCHANGED <<datapaths, port_stats, current_poll_stats, last_latency, monitorVars,
                   conn, counters, requests, replies, crashes>>

\* The probe branch of _packet_in_handler: the switch at the far end hands the
\* probe to the controller.
packet_in_handler(l) ==
    /\ l \in probes
    /\ conn[SwitchOf[<<l, "b">>]] = "main"
    /\ probes' = probes \ {l}
    /\ cycle_latency' = cycle_latency \cup {l}
    /\ last_latency' = last_latency \cup {l}
    /\ UNCHANGED <<datapaths, port_stats, current_poll_stats, monitorVars, conn,
                   counters, requests, replies, crashes>>

-----------------------------------------------------------------------------
\* The monitor.

\* The replies that counted for a link in this window.
ep_count(l) ==
    current_poll_stats[<<l, "a">>].replies + current_poll_stats[<<l, "b">>].replies

WindowBytes(l) ==
    current_poll_stats[<<l, "a">>].bytes + current_poll_stats[<<l, "b">>].bytes

\* Mutants: nothing is carried over from earlier windows, and no configured value.
latency_of_window(l) ==
    IF l \in cycle_latency THEN {"lldp_probe"}
    ELSE IF l \in Configured THEN {"configured_static"} ELSE {}
latency_of_probe(l) ==
    IF l \in cycle_latency \/ l \in last_latency THEN {"lldp_probe"} ELSE {}

\* _resolve_latency: the methods it may answer, none when it returns None.
resolve_latency(l) ==
    IF l \in cycle_latency \/ l \in last_latency THEN {"lldp_probe"}
    ELSE IF l \in Configured THEN {"configured_static"} ELSE {}

\* The links still to visit that would be written as things stand: their iteration
\* of _write_telemetry meets no continue.
Reportable == {l \in todo : ep_count(l) > 0 /\ resolve_latency(l) # {}}

\* The links the loop visits after l.
After(l) == {m \in todo : Order[l] < Order[m]}

\* The row of link l up to the netlink read, where the monitor waits.
BeginRow(l, method) ==
    /\ draft' = {[link |-> l,
                  partial |-> ep_count(l) < Cardinality(Ends),
                  bytes |-> WindowBytes(l),
                  method |-> method,
                  heard |-> {e \in Ends : current_poll_stats[<<l, e>>].replies > 0}]}
    /\ todo' = After(l)
    /\ monitor' = "row"
    /\ UNCHANGED <<current_poll_stats, cycle_latency, requests, probes>>

\* _send_probe: the links on which a probe leaves the first end, whose switch has a
\* datapath (OS-Ken discards what is sent to a dead one).
send_probe == {l \in Links : datapaths[SwitchOf[<<l, "a">>]] = "live"}

\* The port and the flow request of one _request_stats.  The monitor sends them
\* without looking at what is outstanding; those that do not fit the bound on the
\* network are lost there, so that the bound makes no one wait.
Room(s) == MaxPending - Len(requests[s]) - Len(replies[s])
request_stats(s) ==
    IF Room(s) >= 2 THEN <<"port", "flow">> ELSE IF Room(s) = 1 THEN <<"port">> ELSE <<>>

\* The top of the loop of _monitor: a new window, a port and a flow request to
\* every live datapath, and the probes.
OpenWindow ==
    /\ cycle_latency' = {}
    /\ current_poll_stats' = [p \in Ports |-> EmptyWindow]
    /\ requests' = [s \in Switches |-> IF datapaths[s] = "live"
                                       THEN requests[s] \o request_stats(s)
                                       ELSE requests[s]]
    /\ probes' = probes \cup send_probe
    /\ todo' = Links
    /\ draft' = {}
    /\ monitor' = "sleep"

\* commit() is outside the try: when it raises, the green thread ends.
CommitFails ==
    /\ CommitMayFail
    /\ monitor' = "dead"
    /\ todo' = {}
    /\ draft' = {}
    /\ UNCHANGED <<current_poll_stats, cycle_latency, requests, probes>>

\* Mutant of the next action: break for continue at the first link that is skipped.
RunOnToSkip(heard) ==
    \/ \E l \in Reportable : \E method \in resolve_latency(l) :
        /\ \A m \in todo : Order[l] <= Order[m]
        /\ BeginRow(l, method)
        /\ owed' = heard \ {l}
    \/ /\ \A l \in Reportable : \E m \in todo : Order[m] < Order[l]
       /\ OpenWindow \/ CommitFails
       /\ owed' = heard

\* The monitor runs on to its next wait: past the links that are skipped, which it
\* does not visit again, to the netlink read of the next row, or past the last link
\* to the commit and the next window.  heard are the links whose row is still owed.
RunOn(heard) ==
    \/ \E l \in Reportable : \E method \in resolve_latency(l) :
        /\ \A m \in Reportable : Order[l] <= Order[m]
        /\ BeginRow(l, method)
        /\ owed' = heard \ {l}
    \/ /\ Reportable = {}
       /\ OpenWindow \/ CommitFails
       /\ owed' = heard

\* hub.sleep returns and _write_telemetry begins.
Wake ==
    /\ monitor = "sleep"
    /\ RunOn(Reportable)
    /\ UNCHANGED <<datapaths, port_stats, last_latency, link_telemetry, reported,
                   conn, counters, replies, crashes>>

\* The queue length is known and the row goes in, or sqlite3.Error is logged
\* and the row is lost; active_flows is read only now.
InsertRow(inserted) ==
    /\ monitor = "row"
    /\ \E d \in draft :
        LET flows == current_poll_stats[<<d.link, "a">>].flows
                        + current_poll_stats[<<d.link, "b">>].flows
        IN  /\ link_telemetry' = IF inserted
                THEN Update(link_telemetry,
                            [l \in {d.link} |-> [row |-> d, flows |-> flows]])
                ELSE link_telemetry
            /\ reported' = IF inserted
                THEN [reported EXCEPT ![d.link] = @ + d.bytes]
                ELSE reported
    /\ RunOn(owed)
    /\ UNCHANGED <<datapaths, port_stats, last_latency, conn, counters, replies,
                   crashes>>

-----------------------------------------------------------------------------
Handlers(s) ==
    \/ \E elapsed \in ElapsedValues : port_stats_reply_handler(s, elapsed)
    \/ flow_stats_reply_handler(s)

Next ==
    \/ \E s \in Switches :
        \/ switch_features_handler(s)
        \/ state_change_handler(s)
        \/ \E restart \in BOOLEAN : Disconnect(s, restart)
        \/ Answer(s)
        \/ Handlers(s)
    \/ \E p \in Ports : Transmit(p)
    \/ \E l \in Links : LoseProbe(l) \/ packet_in_handler(l)
    \/ Wake
    \/ \E inserted \in BOOLEAN : InsertRow(inserted)

Spec == Init /\ [][Next]_vars

\* The monitor is woken by its timer, and its netlink reads return.  Nothing makes
\* a switch connect, stay or answer in time.
Fairness ==
    /\ WF_vars(Wake)
    /\ WF_vars(\E inserted \in BOOLEAN : InsertRow(inserted))

FairSpec == Spec /\ Fairness

-----------------------------------------------------------------------------
\* Properties.

\* No byte is reported twice: the bytes in all the rows of a link never exceed
\* what its two ports transmitted, whatever the replies' delay, however windows
\* split them, and across restarts that reset the counters
\* (_port_stats_reply_handler's max(0, ...) deltas against port_stats).
NoByteReportedTwice ==
    \A l \in Links :
        reported[l] <= counters[<<l, "a">>].life + counters[<<l, "b">>].life

\* A link that was heard in a window, and has a latency, when its sleep ended gets
\* its row before the next window opens: what the handlers do to the window during
\* the netlink reads of the other rows cannot take it out of the pass, nor can a
\* link that is skipped before it.
HeardLinksGetRows == monitor # "row" => owed = {}

\* A link that has had a probed latency never goes back to the static one
\* (README.md: "configured_static before first probe returns"), whatever is
\* lost afterwards.
ProbedStaysProbed ==
    [][\A l \in DOMAIN link_telemetry :
        link_telemetry[l].row.method = "lldp_probe"
            => link_telemetry'[l].row.method = "lldp_probe"]_link_telemetry

\* Why no byte is reported twice.  A sample is behind a later one of the same
\* port when what a reader of the two would credit was transmitted in between.
Behind(u, v) == u.life <= v.life /\ v.tx - u.tx <= v.life - u.life

\* port_stats, the replies in flight and the port's counters are each behind
\* the next.
SamplesInOrder ==
    /\ \A p \in DOMAIN port_stats : Behind(port_stats[p], counters[p])
    /\ \A s \in Switches : \A i \in 1 .. Len(replies[s]) : replies[s][i].kind = "port" =>
        \A p \in PortsOf(s) :
            /\ Behind(replies[s][i].stat[p], counters[p])
            /\ p \in DOMAIN port_stats => Behind(port_stats[p], replies[s][i].stat[p])
            /\ \A j \in 1 .. i - 1 : replies[s][j].kind = "port" =>
                    Behind(replies[s][j].stat[p], replies[s][i].stat[p])

\* The bytes of a link the collector has had a chance to count.
SampledLife(p) == IF p \in DOMAIN port_stats THEN port_stats[p].life ELSE 0
Sampled(l) == SampledLife(<<l, "a">>) + SampledLife(<<l, "b">>)

\* A link's bytes are in its rows, in the row being written or in the window,
\* and in only one of them: the window no longer counts once its row is begun.
BytesAccounted ==
    /\ \A l \in Links : reported[l] <= Sampled(l)
    /\ \A l \in todo : reported[l] + WindowBytes(l) <= Sampled(l)
    /\ \A d \in draft : d.link \notin todo /\ reported[d.link] + d.bytes <= Sampled(d.link)

ByteInvariant == TypeOK /\ SamplesInOrder /\ BytesAccounted

\* Why a probed link stays probed: every probe ever measured is remembered.
ProbeRemembered ==
    /\ cycle_latency \subseteq last_latency
    /\ \A l \in DOMAIN link_telemetry :
        link_telemetry[l].row.method = "lldp_probe" => l \in last_latency
    /\ \A d \in draft :
        /\ d.method = "lldp_probe" => d.link \in last_latency
        /\ d.link \in DOMAIN link_telemetry
                /\ link_telemetry[d.link].row.method = "lldp_probe"
            => d.method = "lldp_probe"

\* A connected switch is polled and probed over the connection it has now.  Dead
\* objects are never unregistered, and the end of a handshake registers only a
\* switch it does not know: it is the features handler alone that replaces them.
ConnectedIsPolled ==
    \A s \in Switches : conn[s] = "main" => datapaths[s] = "live"

\* Nothing that switch s was asked for is outstanding.
Settled(s) == requests[s] = <<>> /\ replies[s] = <<>>

\* A link both of whose switches stay connected keeps getting rows, as long as no
\* commit fails and, again and again, one of its ends has answered what it was asked
\* before the sleep is over: the late replies of the other windows, the ones that
\* come after the pass has gone past the link, the probes it has lost and the
\* connections it had before do not keep it out.
LinkKeepsReporting ==
    \A l \in Configured :
        /\ <>[](monitor # "dead" /\ \A e \in Ends : conn[SwitchOf[<<l, e>>]] = "main")
        /\ []<>(monitor = "sleep" /\ \E e \in Ends : Settled(SwitchOf[<<l, e>>]))
        => []<>(\E d \in draft : d.link = l)

\* contracts/telemetry_schema.json on is_partial: "True when OpenFlow stats
\* arrived from fewer endpoints than the link has (async reply race)".
PartialWhenEndMissing ==
    \A d \in draft : d.heard # Ends => d.partial

\* contracts/telemetry_schema.json on active_flows: a flow-table query filtered
\* to the link's egress ports, so never more than the entries those ports have.
FlowsWithinTables ==
    \A l \in DOMAIN link_telemetry : link_telemetry[l].flows <= 2 * MaxFlows
=============================================================================
