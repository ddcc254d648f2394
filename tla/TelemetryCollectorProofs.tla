---------------------- MODULE TelemetryCollectorProofs ----------------------
(***************************************************************************)
(* Theorems about TelemetryCollector, for any switches, links, traffic and *)
(* any number of messages in flight and of lost connections.               *)
(***************************************************************************)
EXTENDS TelemetryCollector, FiniteSetTheorems, TLAPS

\* What it takes for a message queue to keep its type.
LEMMA QueueTypes ==
    ASSUME NEW T, NEW q \in Seq(T)
    PROVE  /\ q # <<>> => Tail(q) \in Seq(T) /\ Head(q) \in T
           /\ \A m \in T : Append(q, m) \in Seq(T)
  OBVIOUS

LEMMA QueueTail ==
    ASSUME NEW T, NEW q \in Seq(T), q # <<>>
    PROVE  /\ 1 \in 1 .. Len(q) /\ Head(q) = q[1]
           /\ \A i \in 1 .. Len(Tail(q)) : i + 1 \in 1 .. Len(q) /\ Tail(q)[i] = q[i + 1]
<1>1. Len(q) \in Nat /\ Len(q) # 0 /\ Len(Tail(q)) = Len(q) - 1
  OBVIOUS
<1>2. \A i \in 1 .. Len(q) - 1 : Tail(q)[i] = q[i + 1]
  OBVIOUS
<1> QED
  BY <1>1, <1>2

\* The two ends of a link are ports.
LEMMA PortsOfLinks ==
    \A l \in Links : <<l, "a">> \in Ports /\ <<l, "b">> \in Ports
  BY DEF Ports, Ends

\* The samples of a switch's ports are samples of ports.
LEMMA PortsOfSwitches == \A s \in Switches : PortsOf(s) \subseteq Ports
  BY DEF PortsOf

\* dict.update keeps a dict's type.
LEMMA UpdateType ==
    ASSUME NEW S, NEW T, NEW f, NEW g, IsDict(f, S, T), IsDict(g, S, T)
    PROVE  IsDict(Update(f, g), S, T)
  BY DEF IsDict, Update

LEMMA IncreaseType ==
    ASSUME NEW u \in Nat, NEW v \in Nat
    PROVE  Increase(u, v) \in Nat
  BY DEF Increase

\* The row begun for a link is a row.
LEMMA BeginRowType ==
    ASSUME TypeOK, NEW l \in Reportable, NEW method \in resolve_latency(l),
           BeginRow(l, method)
    PROVE  draft' \subseteq Row
<1> l \in Links
  BY DEF Reportable, TypeOK
<1>1. WindowBytes(l) \in Nat /\ ep_count(l) \in Nat
  BY PortsOfLinks DEF TypeOK, WindowBytes, ep_count, PortWindow
<1>2. method \in {"lldp_probe", "configured_static"}
  BY DEF resolve_latency
<1>3. (ep_count(l) < Cardinality(Ends)) \in BOOLEAN
  OBVIOUS
<1>4. {e \in Ends : current_poll_stats[<<l, e>>].replies > 0} \in SUBSET Ends
  OBVIOUS
<1> QED
  BY <1>1, <1>2, <1>3, <1>4 DEF BeginRow, Row

\* The monitor's steps keep the types of what they change.
LEMMA RunOnType ==
    ASSUME TypeOK, NEW heard \in SUBSET Links, RunOn(heard)
    PROVE  /\ current_poll_stats' \in [Ports -> PortWindow]
           /\ cycle_latency' \subseteq Links
           /\ monitor' \in {"sleep", "row", "dead"}
           /\ todo' \subseteq Links
           /\ draft' \subseteq Row
           /\ owed' \subseteq Links
           /\ requests' \in [Switches -> Seq({"port", "flow"})]
           /\ probes' \subseteq Links
<1>0. owed' \subseteq Links
  BY DEF RunOn
<1>1. CASE \E l \in Reportable : \E method \in resolve_latency(l) : BeginRow(l, method)
  <2> PICK l \in Reportable : \E method \in resolve_latency(l) : BeginRow(l, method)
    BY <1>1
  <2> PICK method \in resolve_latency(l) : BeginRow(l, method)
    OBVIOUS
  <2>1. draft' \subseteq Row
    BY BeginRowType
  <2> QED
    BY <1>0, <2>1 DEF BeginRow, After, TypeOK
<1>2. CASE OpenWindow
  <2>1. EmptyWindow \in PortWindow
    BY DEF EmptyWindow, PortWindow
  <2>2. \A s \in Switches : request_stats(s) \in Seq({"port", "flow"})
    <3> TAKE s \in Switches
    <3>1. /\ <<"port", "flow">> \in Seq({"port", "flow"})
          /\ <<"port">> \in Seq({"port", "flow"})
          /\ <<>> \in Seq({"port", "flow"})
      OBVIOUS
    <3> QED
      BY <3>1, Zenon DEF request_stats
  <2>3. ASSUME NEW s \in Switches
        PROVE  requests[s] \o request_stats(s) \in Seq({"port", "flow"})
    BY <2>2 DEF TypeOK
  <2>4. requests' \in [Switches -> Seq({"port", "flow"})]
    BY <1>2, <2>3 DEF OpenWindow, TypeOK
  <2> QED
    BY <1>0, <1>2, <2>1, <2>4 DEF OpenWindow, send_probe, TypeOK
<1>3. CASE CommitFails
  BY <1>0, <1>3 DEF CommitFails, TypeOK
<1> QED
  BY <1>1, <1>2, <1>3 DEF RunOn

-----------------------------------------------------------------------------
\* Every variable keeps its type.

LEMMA TypeInit == Init => TypeOK
<1> SUFFICES ASSUME Init PROVE TypeOK
  OBVIOUS
<1>1. EmptyWindow \in PortWindow
  BY DEF EmptyWindow, PortWindow
<1>2. \A s \in Switches : <<>> \in Seq({"port", "flow"}) /\ <<>> \in Seq(MessageOf(s))
  OBVIOUS
<1>3. IsDict(<<>>, Ports, Sample) /\ IsDict(<<>>, Links, StoredRow)
  BY DEF IsDict
<1> QED
  BY <1>1, <1>2, <1>3 DEF Init, TypeOK, Sample

\* A switch answers with a message of its own.
LEMMA AnswerType ==
    ASSUME TypeOK, NEW s \in Switches, Answer(s)
    PROVE  TypeOK'
<1>1. requests' \in [Switches -> Seq({"port", "flow"})]
  BY QueueTypes DEF Answer, TypeOK
<1>2. ASSUME NEW m \in MessageOf(s), replies' = [replies EXCEPT ![s] = Append(@, m)]
      PROVE  replies' = [r \in Switches |-> replies'[r]]
                /\ \A r \in Switches : replies'[r] \in Seq(MessageOf(r))
  <2>1. \A r \in Switches : replies'[r] = IF r = s THEN Append(replies[s], m) ELSE replies[r]
    BY <1>2 DEF TypeOK
  <2>2. replies' = [r \in Switches |-> replies'[r]]
    BY <1>2 DEF TypeOK
  <2>3. Append(replies[s], m) \in Seq(MessageOf(s))
    BY QueueTypes DEF TypeOK
  <2> QED
    BY <2>1, <2>2, <2>3 DEF TypeOK
<1>3. CASE Head(requests[s]) = "port"
  <2> DEFINE m == [kind |-> "port", stat |-> [p \in PortsOf(s) |-> counters[p]]]
  <2>1. m \in MessageOf(s)
    BY PortsOfSwitches DEF MessageOf, TypeOK
  <2>2. replies' = [replies EXCEPT ![s] = Append(@, m)]
    BY <1>3 DEF Answer
  <2> HIDE DEF m
  <2> QED
    BY <1>1, <1>2, <2>1, <2>2 DEF Answer, TypeOK, monitorVars
<1>4. CASE Head(requests[s]) = "flow"
  <2> PICK flows \in [PortsOf(s) -> 0 .. MaxFlows] :
        replies' = [replies EXCEPT ![s] = Append(@, [kind |-> "flow", stat |-> flows])]
    BY <1>4 DEF Answer
  <2> DEFINE m == [kind |-> "flow", stat |-> flows]
  <2>1. m \in MessageOf(s)
    BY EnvironmentAssumption DEF MessageOf
  <2>2. replies' = [replies EXCEPT ![s] = Append(@, m)]
    OBVIOUS
  <2> HIDE DEF m
  <2> QED
    BY <1>1, <1>2, <2>1, <2>2 DEF Answer, TypeOK, monitorVars
<1> QED
  BY <1>3, <1>4 DEF Answer

\* What handling the oldest reply does to the queue of replies.
LEMMA RepliesType ==
    ASSUME TypeOK, NEW s \in Switches, replies[s] # <<>>,
           replies' = [replies EXCEPT ![s] = Tail(@)]
    PROVE  /\ Head(replies[s]) \in MessageOf(s)
           /\ replies' = [r \in Switches |-> replies'[r]]
           /\ \A r \in Switches : replies'[r] \in Seq(MessageOf(r))
<1>1. \A r \in Switches : replies'[r] = IF r = s THEN Tail(replies[s]) ELSE replies[r]
  BY DEF TypeOK
<1>2. Head(replies[s]) \in MessageOf(s) /\ Tail(replies[s]) \in Seq(MessageOf(s))
  BY QueueTypes DEF TypeOK
<1>3. replies' = [r \in Switches |-> replies'[r]]
  BY DEF TypeOK
<1> QED
  BY <1>1, <1>2, <1>3 DEF TypeOK

LEMMA PortReplyType ==
    ASSUME TypeOK, NEW s \in Switches, NEW elapsed,
           port_stats_reply_handler(s, elapsed)
    PROVE  TypeOK'
<1> DEFINE stat == Head(replies[s]).stat
<1>1. /\ Head(replies[s]) \in MessageOf(s)
      /\ replies' = [r \in Switches |-> replies'[r]]
      /\ \A r \in Switches : replies'[r] \in Seq(MessageOf(r))
  BY RepliesType DEF port_stats_reply_handler
<1>2. stat \in [PortsOf(s) -> Sample]
  BY <1>1 DEF port_stats_reply_handler, MessageOf
<1>3. IsDict(port_stats', Ports, Sample)
  <2>1. IsDict(stat, Ports, Sample)
    BY <1>2, PortsOfSwitches DEF IsDict
  <2>2. port_stats' = Update(port_stats, stat)
    BY DEF port_stats_reply_handler
  <2> QED
    BY <2>1, <2>2, UpdateType DEF TypeOK
<1>4. \A w \in PortWindow : \A u, v \in Sample : Credit(w, u, v) \in PortWindow
  <2> TAKE w \in PortWindow
  <2> TAKE u, v \in Sample
  <2>1. Increase(u.tx, v.tx) \in Nat
    BY IncreaseType DEF Sample
  <2> QED
    BY <2>1 DEF Credit, PortWindow
<1>5. current_poll_stats' \in [Ports -> PortWindow]
  <2>1. current_poll_stats' = [p \in Ports |->
            IF p \in DOMAIN stat /\ p \in DOMAIN port_stats /\ elapsed
            THEN Credit(current_poll_stats[p], port_stats[p], stat[p])
            ELSE current_poll_stats[p]]
    BY DEF port_stats_reply_handler
  <2>2. \A p \in Ports : current_poll_stats[p] \in PortWindow
    BY DEF TypeOK
  <2>3. \A p \in DOMAIN stat : stat[p] \in Sample
    BY <1>2
  <2>4. \A p \in DOMAIN port_stats : port_stats[p] \in Sample
    BY DEF TypeOK, IsDict
  <2> HIDE DEF stat
  <2> QED
    BY <1>4, <2>1, <2>2, <2>3, <2>4
<1> QED
  BY <1>1, <1>3, <1>5 DEF port_stats_reply_handler, TypeOK, monitorVars

LEMMA FlowReplyType ==
    ASSUME TypeOK, NEW s \in Switches, flow_stats_reply_handler(s)
    PROVE  TypeOK'
<1> DEFINE stat == Head(replies[s]).stat
<1>1. /\ Head(replies[s]) \in MessageOf(s)
      /\ replies' = [r \in Switches |-> replies'[r]]
      /\ \A r \in Switches : replies'[r] \in Seq(MessageOf(r))
  BY RepliesType DEF flow_stats_reply_handler
<1>2. stat \in [PortsOf(s) -> Nat]
  BY <1>1 DEF flow_stats_reply_handler, MessageOf
<1>3. current_poll_stats' \in [Ports -> PortWindow]
  <2>1. current_poll_stats' = [p \in Ports |->
            IF p \in DOMAIN stat
            THEN [current_poll_stats[p] EXCEPT !.flows = @ + stat[p]]
            ELSE current_poll_stats[p]]
    BY DEF flow_stats_reply_handler
  <2>2. \A p \in DOMAIN stat : stat[p] \in Nat
    BY <1>2
  <2>3. \A w \in PortWindow, n \in Nat : [w EXCEPT !.flows = @ + n] \in PortWindow
    BY DEF PortWindow
  <2>4. \A p \in Ports : current_poll_stats[p] \in PortWindow
    BY DEF TypeOK
  <2> HIDE DEF stat
  <2> QED
    BY <2>1, <2>2, <2>3, <2>4
<1> QED
  BY <1>1, <1>3 DEF flow_stats_reply_handler, TypeOK, monitorVars

LEMMA InsertRowType ==
    ASSUME TypeOK, NEW inserted \in BOOLEAN, InsertRow(inserted)
    PROVE  TypeOK'
<1> PICK d \in draft :
        LET flows == current_poll_stats[<<d.link, "a">>].flows
                        + current_poll_stats[<<d.link, "b">>].flows
        IN  /\ link_telemetry' = IF inserted
                THEN Update(link_telemetry,
                            [l \in {d.link} |-> [row |-> d, flows |-> flows]])
                ELSE link_telemetry
            /\ reported' = IF inserted
                THEN [reported EXCEPT ![d.link] = @ + d.bytes]
                ELSE reported
  BY DEF InsertRow
<1> DEFINE flows == current_poll_stats[<<d.link, "a">>].flows
                        + current_poll_stats[<<d.link, "b">>].flows
           g == [l \in {d.link} |-> [row |-> d, flows |-> flows]]
<1>1. d \in Row /\ d.link \in Links /\ d.bytes \in Nat
  BY DEF TypeOK, Row
<1>2. flows \in Nat
  BY <1>1, PortsOfLinks DEF TypeOK, PortWindow
<1>3. IsDict(g, Links, StoredRow)
  <2>1. [row |-> d, flows |-> flows] \in StoredRow
    BY <1>1, <1>2 DEF StoredRow
  <2> QED
    BY <1>1, <2>1 DEF IsDict
<1>4. IsDict(link_telemetry', Links, StoredRow)
  BY <1>3, UpdateType DEF TypeOK
<1>5. reported' \in [Links -> Nat]
  BY <1>1 DEF TypeOK
<1>6. RunOn(owed) /\ owed \in SUBSET Links
  BY DEF InsertRow, TypeOK
<1> QED
  BY <1>4, <1>5, <1>6, RunOnType DEF InsertRow, TypeOK

\* Types are kept by every step.
LEMMA TypeStep == TypeOK /\ [Next]_vars => TypeOK'
<1> SUFFICES ASSUME TypeOK, [Next]_vars PROVE TypeOK'
  OBVIOUS
<1>1. ASSUME NEW s \in Switches, switch_features_handler(s) PROVE TypeOK'
  BY <1>1 DEF switch_features_handler, monitorVars, TypeOK
<1>2. ASSUME NEW s \in Switches, state_change_handler(s) PROVE TypeOK'
  <2>1. AfterStateChange(datapaths[s], "main") \in {"none", "live", "stale"}
    BY DEF AfterStateChange, StateChangeDispatchers, TypeOK
  <2> QED
    BY <1>2, <2>1 DEF state_change_handler, monitorVars, TypeOK
<1>3. ASSUME NEW s \in Switches, NEW restart \in BOOLEAN, Disconnect(s, restart)
      PROVE  TypeOK'
  <2>1. AfterStateChange("stale", "dead") \in {"none", "live", "stale"}
    BY DEF AfterStateChange, StateChangeDispatchers
  <2>2. counters' \in [Ports -> Sample]
    BY <1>3 DEF Disconnect, Sample, TypeOK
  <2>3. replies' = [r \in Switches |-> replies'[r]]
    BY <1>3 DEF Disconnect, TypeOK
  <2>4. \A r \in Switches : replies'[r] \in Seq(MessageOf(r))
    <3> TAKE r \in Switches
    <3>1. replies'[r] = IF r = s THEN <<>> ELSE replies[r]
      BY <1>3 DEF Disconnect, TypeOK
    <3> QED
      BY <3>1 DEF TypeOK
  <2>5. requests' \in [Switches -> Seq({"port", "flow"})]
    <3>1. <<>> \in Seq({"port", "flow"})
      OBVIOUS
    <3>2. requests' = [requests EXCEPT ![s] = <<>>]
      BY <1>3 DEF Disconnect
    <3> QED
      BY <3>1, <3>2 DEF TypeOK
  <2>6. /\ datapaths' \in [Switches -> {"none", "live", "stale"}]
        /\ conn' \in [Switches -> {"down", "config", "main"}]
        /\ crashes' \in Nat
    <3>1. crashes' = crashes + 1 /\ conn' = [conn EXCEPT ![s] = "down"]
      BY <1>3 DEF Disconnect
    <3>2. datapaths' = [datapaths EXCEPT ![s] = AfterStateChange("stale", "dead")]
      BY <1>3 DEF Disconnect
    <3> QED
      BY <2>1, <3>1, <3>2 DEF TypeOK
  <2> QED
    BY <1>3, <2>2, <2>3, <2>4, <2>5, <2>6 DEF Disconnect, monitorVars, TypeOK
<1>4. ASSUME NEW s \in Switches, Answer(s) PROVE TypeOK'
  BY <1>4, AnswerType
<1>5. ASSUME NEW s \in Switches, Handlers(s) PROVE TypeOK'
  BY <1>5, PortReplyType, FlowReplyType DEF Handlers
<1>6. ASSUME NEW p \in Ports, Transmit(p) PROVE TypeOK'
  <2>1. counters' \in [Ports -> Sample]
    <3>1. counters[p] \in Sample
      BY DEF TypeOK
    <3>2. [tx |-> counters[p].tx + 1, life |-> counters[p].life + 1] \in Sample
      BY <3>1 DEF Sample
    <3> QED
      BY <1>6, <3>2 DEF Transmit, TypeOK
  <2> QED
    BY <1>6, <2>1 DEF Transmit, monitorVars, TypeOK
<1>7. ASSUME NEW l \in Links, LoseProbe(l) \/ packet_in_handler(l) PROVE TypeOK'
  BY <1>7 DEF LoseProbe, packet_in_handler, monitorVars, TypeOK
<1>8. CASE Wake
  <2>1. RunOn(Reportable) /\ Reportable \in SUBSET Links
    BY <1>8 DEF Wake, Reportable, TypeOK
  <2> QED
    BY <1>8, <2>1, RunOnType DEF Wake, TypeOK
<1>9. ASSUME NEW inserted \in BOOLEAN, InsertRow(inserted) PROVE TypeOK'
  BY <1>9, InsertRowType
<1>10. CASE UNCHANGED vars
  BY <1>10 DEF vars, monitorVars, netVars, TypeOK
<1> QED
  BY <1>1, <1>2, <1>3, <1>4, <1>5, <1>6, <1>7, <1>8, <1>9, <1>10 DEF Next

\* Every variable of the collector and of its network keeps its type.
THEOREM TypeCorrect == Spec => []TypeOK
<1> QED
  BY TypeInit, TypeStep, PTL DEF Spec

-----------------------------------------------------------------------------
\* Rows owed.

\* While rows are being written, the links that were heard when the sleep ended and
\* have no row yet are still ahead of the loop, and still heard.
OwedInvariant ==
    /\ monitor = "row" => owed \subseteq Reportable
    /\ monitor # "row" => owed = {}

\* A link that can be written stays so while the loop has not reached it and the
\* window only gains replies and latencies.
LEMMA ReportableGrows ==
    ASSUME TypeOK, NEW m \in Reportable, m \in todo', cycle_latency \subseteq cycle_latency',
           last_latency \subseteq last_latency',
           \A p \in Ports : /\ current_poll_stats'[p].replies \in Nat
                           /\ current_poll_stats'[p].replies >= current_poll_stats[p].replies
    PROVE  m \in Reportable'
<1> DEFINE a == current_poll_stats[<<m, "a">>].replies
           b == current_poll_stats[<<m, "b">>].replies
           x == current_poll_stats'[<<m, "a">>].replies
           y == current_poll_stats'[<<m, "b">>].replies
<1>1. m \in Links
  BY DEF Reportable, TypeOK
<1>2. a \in Nat /\ b \in Nat /\ x \in Nat /\ y \in Nat /\ x >= a /\ y >= b
  BY <1>1, PortsOfLinks DEF TypeOK, PortWindow
<1>3. a + b > 0
  BY DEF Reportable, ep_count
<1>4. x + y > 0
  <2> HIDE DEF a, b, x, y
  <2> QED  BY <1>2, <1>3
<1>5. IF m \in cycle_latency' \/ m \in last_latency' THEN TRUE ELSE m \in Configured
  BY DEF Reportable, resolve_latency
<1> QED
  BY <1>4, <1>5 DEF Reportable, ep_count, resolve_latency

\* Whatever it runs on from, the monitor takes none of the links it owes a row out
\* of the pass, but the one whose row it begins.
LEMMA OwedRunOn ==
    ASSUME TypeOK, NEW heard \in SUBSET Reportable, RunOn(heard), last_latency' = last_latency
    PROVE  OwedInvariant'
<1>1. ASSUME NEW l \in Reportable, NEW method \in resolve_latency(l),
             \A m \in Reportable : Order[l] <= Order[m],
             BeginRow(l, method), owed' = heard \ {l}
      PROVE  OwedInvariant'
  <2>1. monitor' = "row" /\ todo' = After(l)
        /\ UNCHANGED <<current_poll_stats, cycle_latency, last_latency>>
    BY <1>1 DEF BeginRow
  <2>2. ASSUME NEW m \in owed'  PROVE m \in Reportable'
    <3>1. m \in Reportable /\ m # l /\ l \in Links /\ m \in Links /\ m \in todo
      BY <1>1, <2>2 DEF Reportable, TypeOK
    <3>2. Order[l] \in Nat /\ Order[m] \in Nat /\ Order[l] # Order[m] /\ Order[l] <= Order[m]
      BY <1>1, <3>1, TopologyAssumption
    <3>3. m \in todo'
      BY <2>1, <3>1, <3>2 DEF After
    <3>4. \A p \in Ports : current_poll_stats[p].replies \in Nat
      BY DEF TypeOK, PortWindow
    <3> QED
      BY <2>1, <3>1, <3>3, <3>4, ReportableGrows
  <2> QED
    BY <2>1, <2>2 DEF OwedInvariant
<1>2. CASE Reportable = {} /\ (OpenWindow \/ CommitFails) /\ owed' = heard
  BY <1>2 DEF OpenWindow, CommitFails, OwedInvariant
<1> QED
  BY <1>1, <1>2 DEF RunOn

LEMMA OwedStep == TypeOK /\ TypeOK' /\ OwedInvariant /\ [Next]_vars => OwedInvariant'
<1> SUFFICES ASSUME TypeOK, TypeOK', OwedInvariant, [Next]_vars PROVE OwedInvariant'
  OBVIOUS
<1>1. ASSUME UNCHANGED <<monitor, owed, todo>>, cycle_latency \subseteq cycle_latency',
             last_latency \subseteq last_latency',
             \A p \in Ports : current_poll_stats'[p].replies >= current_poll_stats[p].replies
      PROVE  OwedInvariant'
  <2>1. \A p \in Ports : current_poll_stats'[p].replies \in Nat
    BY DEF TypeOK, PortWindow
  <2>2. ASSUME NEW m \in Reportable  PROVE m \in Reportable'
    BY <1>1, <2>1, <2>2, ReportableGrows DEF Reportable
  <2> QED
    BY <1>1, <2>2 DEF OwedInvariant
<1>2. \A p \in Ports : current_poll_stats[p].replies >= current_poll_stats[p].replies
  BY DEF TypeOK, PortWindow
<1>3. ASSUME NEW s \in Switches,
             \/ switch_features_handler(s)
             \/ state_change_handler(s)
             \/ \E restart \in BOOLEAN : Disconnect(s, restart)
             \/ Answer(s)
      PROVE  OwedInvariant'
  BY <1>1, <1>2, <1>3 DEF switch_features_handler, state_change_handler, Disconnect, Answer,
      monitorVars
<1>4. ASSUME NEW s \in Switches, NEW elapsed, port_stats_reply_handler(s, elapsed)
      PROVE  OwedInvariant'
  <2> DEFINE stat == Head(replies[s]).stat
  <2>1. \A w \in PortWindow : \A u, v : Credit(w, u, v).replies >= w.replies
    BY DEF Credit, PortWindow
  <2>2. current_poll_stats' = [p \in Ports |->
            IF p \in DOMAIN stat /\ p \in DOMAIN port_stats /\ elapsed
            THEN Credit(current_poll_stats[p], port_stats[p], stat[p])
            ELSE current_poll_stats[p]]
    BY <1>4 DEF port_stats_reply_handler
  <2>3. \A p \in Ports : current_poll_stats[p] \in PortWindow
    BY DEF TypeOK
  <2> HIDE DEF stat
  <2>4. \A p \in Ports : current_poll_stats'[p].replies >= current_poll_stats[p].replies
    BY <1>2, <2>1, <2>2, <2>3
  <2> QED
    BY <1>1, <1>4, <2>4 DEF port_stats_reply_handler, monitorVars
<1>5. ASSUME NEW s \in Switches, flow_stats_reply_handler(s)
      PROVE  OwedInvariant'
  <2>1. \A p \in Ports : current_poll_stats'[p].replies = current_poll_stats[p].replies
    BY <1>5 DEF flow_stats_reply_handler, TypeOK, PortWindow
  <2> QED
    BY <1>1, <1>2, <1>5, <2>1 DEF flow_stats_reply_handler, monitorVars
<1>6. ASSUME NEW p \in Ports, Transmit(p)
      PROVE  OwedInvariant'
  BY <1>1, <1>2, <1>6 DEF Transmit, monitorVars
<1>7. ASSUME NEW l \in Links, LoseProbe(l) \/ packet_in_handler(l)
      PROVE  OwedInvariant'
  BY <1>1, <1>2, <1>7 DEF LoseProbe, packet_in_handler, monitorVars
<1>8. CASE Wake
  BY <1>8, OwedRunOn DEF Wake
<1>9. ASSUME NEW inserted \in BOOLEAN, InsertRow(inserted)
      PROVE  OwedInvariant'
  <2>1. owed \in SUBSET Reportable
    BY <1>9 DEF InsertRow, OwedInvariant
  <2> QED
    BY <1>9, <2>1, OwedRunOn DEF InsertRow
<1>10. CASE UNCHANGED vars
  BY <1>1, <1>2, <1>10 DEF vars, monitorVars
<1> QED
  BY <1>3, <1>4, <1>5, <1>6, <1>7, <1>8, <1>9, <1>10 DEF Next, Handlers

\* Every link that was heard in a window, and has a latency, when the sleep ends
\* gets its row before the next window opens, whatever the event loop does during
\* the netlink reads and whichever links are skipped.
THEOREM HeardLinksAreWritten == Spec => []HeardLinksGetRows
<1>1. Init => OwedInvariant
  BY DEF Init, OwedInvariant
<1>2. TypeOK /\ TypeOK' /\ OwedInvariant /\ [Next]_vars => OwedInvariant'
  BY OwedStep
<1>3. OwedInvariant => HeardLinksGetRows
  BY DEF OwedInvariant, HeardLinksGetRows
<1> QED
  BY <1>1, <1>2, <1>3, TypeCorrect, PTL DEF Spec

-----------------------------------------------------------------------------
\* Probed links.

LEMMA ProbeInit == Init => ProbeRemembered
  BY DEF Init, ProbeRemembered

\* A row begun for a link that is remembered takes the probed latency.
LEMMA RememberedIsProbed ==
    ASSUME NEW l \in last_latency
    PROVE  resolve_latency(l) = {"lldp_probe"}
  BY DEF resolve_latency

LEMMA ProbeRunOn ==
    ASSUME TypeOK, cycle_latency \subseteq last_latency, NEW heard, RunOn(heard), last_latency' = last_latency,
           \A l \in DOMAIN link_telemetry' :
                link_telemetry'[l].row.method = "lldp_probe" => l \in last_latency
    PROVE  ProbeRemembered'
<1>1. CASE \E l \in Reportable : \E method \in resolve_latency(l) : BeginRow(l, method)
  <2> PICK l \in Reportable : \E method \in resolve_latency(l) : BeginRow(l, method)
    BY <1>1
  <2> PICK method \in resolve_latency(l) : BeginRow(l, method)
    OBVIOUS
  <2>1. \A d \in draft' : d.link = l /\ d.method = method
    BY DEF BeginRow
  <2>2. method = "lldp_probe" => l \in last_latency
    BY DEF resolve_latency
  <2>3. l \in last_latency => method = "lldp_probe"
    BY RememberedIsProbed
  <2>4. cycle_latency' = cycle_latency
    BY DEF BeginRow
  <2> QED
    BY <2>1, <2>2, <2>3, <2>4 DEF ProbeRemembered
<1>2. CASE OpenWindow
  BY <1>2 DEF OpenWindow, ProbeRemembered
<1>3. CASE CommitFails
  BY <1>3 DEF CommitFails, ProbeRemembered
<1> QED
  BY <1>1, <1>2, <1>3 DEF RunOn

\* The rows after an insertion.
LEMMA InsertedRows ==
    ASSUME NEW inserted \in BOOLEAN, InsertRow(inserted)
    PROVE  \E d \in draft :
            /\ \A l \in DOMAIN link_telemetry' :
                \/ l = d.link /\ link_telemetry'[l].row = d
                \/ l \in DOMAIN link_telemetry /\ link_telemetry'[l] = link_telemetry[l]
            /\ DOMAIN link_telemetry \subseteq DOMAIN link_telemetry'
            /\ reported' = reported \/ reported' = [reported EXCEPT ![d.link] = @ + d.bytes]
<1> PICK d \in draft :
        LET flows == current_poll_stats[<<d.link, "a">>].flows
                        + current_poll_stats[<<d.link, "b">>].flows
        IN  /\ link_telemetry' = IF inserted
                THEN Update(link_telemetry,
                            [l \in {d.link} |-> [row |-> d, flows |-> flows]])
                ELSE link_telemetry
            /\ reported' = IF inserted
                THEN [reported EXCEPT ![d.link] = @ + d.bytes]
                ELSE reported
  BY DEF InsertRow
<1>1. CASE inserted
  BY <1>1 DEF Update
<1>2. CASE ~inserted
  BY <1>2
<1> QED
  BY <1>1, <1>2

LEMMA ProbeStep == TypeOK /\ ProbeRemembered /\ [Next]_vars => ProbeRemembered'
<1> SUFFICES ASSUME TypeOK, ProbeRemembered, [Next]_vars PROVE ProbeRemembered'
  OBVIOUS
<1>1. ASSUME UNCHANGED <<cycle_latency, last_latency, link_telemetry, draft>>
      PROVE  ProbeRemembered'
  BY <1>1 DEF ProbeRemembered
<1>2. ASSUME NEW s \in Switches,
             \/ switch_features_handler(s)
             \/ state_change_handler(s)
             \/ \E restart \in BOOLEAN : Disconnect(s, restart)
             \/ Answer(s)
             \/ Handlers(s)
      PROVE  ProbeRemembered'
  BY <1>1, <1>2 DEF switch_features_handler, state_change_handler, Disconnect, Answer,
        Handlers, port_stats_reply_handler, flow_stats_reply_handler, monitorVars
<1>3. ASSUME NEW p \in Ports, Transmit(p)
      PROVE  ProbeRemembered'
  BY <1>1, <1>3 DEF Transmit, monitorVars
<1>4. ASSUME NEW l \in Links, LoseProbe(l)
      PROVE  ProbeRemembered'
  BY <1>1, <1>4 DEF LoseProbe, monitorVars
<1>5. ASSUME NEW l \in Links, packet_in_handler(l)
      PROVE  ProbeRemembered'
  BY <1>5 DEF packet_in_handler, monitorVars, ProbeRemembered
<1>6. CASE Wake
  <2>1. RunOn(Reportable) /\ UNCHANGED <<last_latency, link_telemetry>>
    BY <1>6 DEF Wake
  <2> QED
    BY <2>1, ProbeRunOn DEF ProbeRemembered
<1>7. ASSUME NEW inserted \in BOOLEAN, InsertRow(inserted)
      PROVE  ProbeRemembered'
  <2>1. RunOn(owed) /\ last_latency' = last_latency
    BY <1>7 DEF InsertRow
  <2>2. \A l \in DOMAIN link_telemetry' :
            link_telemetry'[l].row.method = "lldp_probe" => l \in last_latency
    BY <1>7, InsertedRows DEF ProbeRemembered
  <2> QED
    BY <2>1, <2>2, ProbeRunOn DEF ProbeRemembered
<1>8. CASE UNCHANGED vars
  BY <1>1, <1>8 DEF vars, monitorVars
<1> QED
  BY <1>2, <1>3, <1>4, <1>5, <1>6, <1>7, <1>8 DEF Next

\* A probe that has been measured, in the window, in the table or in the row being
\* written, is in last_latency.
THEOREM ProbesAreRemembered == Spec => []ProbeRemembered
BY ProbeInit, ProbeStep, TypeCorrect, PTL DEF Spec

\* Once a row of a link carries a probed latency, so do all its later rows.
THEOREM ProbedLinksStayProbed == Spec => ProbedStaysProbed
<1>1. TypeOK /\ ProbeRemembered /\ [Next]_vars =>
        [\A l \in DOMAIN link_telemetry :
            link_telemetry[l].row.method = "lldp_probe"
                => link_telemetry'[l].row.method = "lldp_probe"]_link_telemetry
  <2> SUFFICES ASSUME TypeOK, ProbeRemembered, [Next]_vars, link_telemetry' # link_telemetry,
                      NEW l \in DOMAIN link_telemetry,
                      link_telemetry[l].row.method = "lldp_probe"
               PROVE  link_telemetry'[l].row.method = "lldp_probe"
    OBVIOUS
  <2>1. ASSUME NEW inserted \in BOOLEAN, InsertRow(inserted)
        PROVE  link_telemetry'[l].row.method = "lldp_probe"
    BY <2>1, InsertedRows DEF ProbeRemembered
  <2>2. CASE Wake
    BY <2>2 DEF Wake
  <2>3. ASSUME NEW s \in Switches,
               \/ switch_features_handler(s)
               \/ state_change_handler(s)
               \/ \E restart \in BOOLEAN : Disconnect(s, restart)
               \/ Answer(s)
               \/ Handlers(s)
        PROVE  link_telemetry' = link_telemetry
    BY <2>3 DEF switch_features_handler, state_change_handler, Disconnect, Answer,
        Handlers, port_stats_reply_handler, flow_stats_reply_handler, monitorVars
  <2>4. ASSUME NEW p \in Ports, Transmit(p)
        PROVE  link_telemetry' = link_telemetry
    BY <2>4 DEF Transmit, monitorVars
  <2>5. ASSUME NEW m \in Links, LoseProbe(m) \/ packet_in_handler(m)
        PROVE  link_telemetry' = link_telemetry
    BY <2>5 DEF LoseProbe, packet_in_handler, monitorVars
  <2>6. CASE UNCHANGED vars
    BY <2>6 DEF vars, monitorVars
  <2> QED
    BY <2>1, <2>2, <2>3, <2>4, <2>5, <2>6 DEF Next
<1> QED
  BY <1>1, ProbesAreRemembered, TypeCorrect, PTL DEF Spec, ProbedStaysProbed

-----------------------------------------------------------------------------
\* Connections.

\* Not inductive by itself: the object is already the new one during the handshake.
HandshakeRegisters == \A s \in Switches : conn[s] # "down" => datapaths[s] = "live"

LEMMA HandshakeStep == TypeOK /\ HandshakeRegisters /\ [Next]_vars => HandshakeRegisters'
<1> SUFFICES ASSUME TypeOK, HandshakeRegisters, [Next]_vars PROVE HandshakeRegisters'
  OBVIOUS
<1>1. ASSUME UNCHANGED <<conn, datapaths>> PROVE HandshakeRegisters'
  BY <1>1 DEF HandshakeRegisters
<1>2. ASSUME NEW s \in Switches, switch_features_handler(s)
      PROVE  HandshakeRegisters'
  BY <1>2 DEF switch_features_handler, HandshakeRegisters, TypeOK
<1>3. ASSUME NEW s \in Switches, state_change_handler(s)
      PROVE  HandshakeRegisters'
  <2>1. datapaths[s] = "live"
    BY <1>3 DEF state_change_handler, HandshakeRegisters
  <2>2. AfterStateChange(datapaths[s], "main") = "live"
    BY <2>1 DEF AfterStateChange, StateChangeDispatchers
  <2> QED
    BY <1>3, <2>2 DEF state_change_handler, HandshakeRegisters, TypeOK
<1>4. ASSUME NEW s \in Switches, NEW restart \in BOOLEAN, Disconnect(s, restart)
      PROVE  HandshakeRegisters'
  BY <1>4 DEF Disconnect, HandshakeRegisters, TypeOK
<1>5. ASSUME NEW s \in Switches, Answer(s) \/ Handlers(s)
      PROVE  HandshakeRegisters'
  BY <1>1, <1>5 DEF Answer, Handlers, port_stats_reply_handler, flow_stats_reply_handler
<1>6. ASSUME NEW p \in Ports, Transmit(p)
      PROVE  HandshakeRegisters'
  BY <1>1, <1>6 DEF Transmit
<1>7. ASSUME NEW l \in Links, LoseProbe(l) \/ packet_in_handler(l)
      PROVE  HandshakeRegisters'
  BY <1>1, <1>7 DEF LoseProbe, packet_in_handler
<1>8. CASE Wake
  BY <1>1, <1>8 DEF Wake
<1>9. ASSUME NEW inserted \in BOOLEAN, InsertRow(inserted)
      PROVE  HandshakeRegisters'
  BY <1>1, <1>9 DEF InsertRow
<1>10. CASE UNCHANGED vars
  BY <1>1, <1>10 DEF vars, netVars
<1> QED
  BY <1>2, <1>3, <1>4, <1>5, <1>6, <1>7, <1>8, <1>9, <1>10 DEF Next

\* A connected switch is polled over its own connection, however often it went away
\* and came back, although no dead object is ever unregistered.
THEOREM ConnectedSwitchesArePolled == Spec => []ConnectedIsPolled
<1>1. Init => HandshakeRegisters
  BY DEF Init, HandshakeRegisters
<1>2. HandshakeRegisters => ConnectedIsPolled
  BY DEF HandshakeRegisters, ConnectedIsPolled
<1> QED
  BY <1>1, <1>2, HandshakeStep, TypeCorrect, PTL DEF Spec

-----------------------------------------------------------------------------
\* Bytes: samples arrive in the order they were taken.

LEMMA BehindTransitive ==
    ASSUME NEW u \in Sample, NEW v \in Sample, NEW w \in Sample, Behind(u, v), Behind(v, w)
    PROVE  Behind(u, w)
  BY DEF Behind, Sample

\* What a handler credits for two samples was transmitted between them.
LEMMA IncreaseWithinLife ==
    ASSUME NEW u \in Sample, NEW v \in Sample, Behind(u, v)
    PROVE  u.life + Increase(u.tx, v.tx) <= v.life
  BY DEF Behind, Increase, Sample

LEMMA SamplesInit == Init => SamplesInOrder
<1> SUFFICES ASSUME Init PROVE SamplesInOrder
  OBVIOUS
<1>1. DOMAIN port_stats = {} /\ \A s \in Switches : Len(replies[s]) = 0
  BY DEF Init
<1>2. \A s \in Switches : 1 .. Len(replies[s]) = {}
  BY <1>1
<1> QED
  BY <1>1, <1>2 DEF SamplesInOrder

\* The samples in a queue of replies.
LEMMA QueuedSample ==
    ASSUME TypeOK, NEW s \in Switches, NEW i \in 1 .. Len(replies[s]),
           replies[s][i].kind = "port"
    PROVE  \A p \in PortsOf(s) : replies[s][i].stat[p] \in Sample
<1>1. replies[s][i] \in MessageOf(s)
  BY DEF TypeOK
<1> QED
  BY <1>1 DEF MessageOf

\* Counters may move on, and queues may be emptied.
LEMMA SamplesAfterCounters ==
    ASSUME TypeOK, TypeOK', SamplesInOrder, port_stats' = port_stats,
           \A p \in Ports : Behind(counters[p], counters'[p]),
           \A s \in Switches : replies'[s] = replies[s] \/ replies'[s] = <<>>
    PROVE  SamplesInOrder'
<1>1. ASSUME NEW p \in DOMAIN port_stats' PROVE Behind(port_stats'[p], counters'[p])
  <2>1. p \in Ports /\ port_stats[p] \in Sample
    BY <1>1 DEF TypeOK, IsDict
  <2>2. counters[p] \in Sample /\ counters'[p] \in Sample
    BY <2>1 DEF TypeOK
  <2> QED
    BY <2>1, <2>2, BehindTransitive DEF SamplesInOrder
<1>2. ASSUME NEW s \in Switches, NEW i \in 1 .. Len(replies'[s]),
             replies'[s][i].kind = "port", NEW p \in PortsOf(s)
      PROVE  /\ Behind(replies'[s][i].stat[p], counters'[p])
             /\ p \in DOMAIN port_stats' => Behind(port_stats'[p], replies'[s][i].stat[p])
             /\ \A j \in 1 .. i - 1 : replies'[s][j].kind = "port" =>
                    Behind(replies'[s][j].stat[p], replies'[s][i].stat[p])
  <2>1. replies'[s] # <<>>
    BY <1>2
  <2>2. replies'[s] = replies[s]
    BY <2>1
  <2>3. replies[s][i].stat[p] \in Sample
    BY <1>2, <2>2, QueuedSample
  <2>4. p \in Ports /\ counters[p] \in Sample /\ counters'[p] \in Sample
    BY PortsOfSwitches DEF TypeOK
  <2>5. Behind(replies[s][i].stat[p], counters[p])
    BY <1>2, <2>2 DEF SamplesInOrder
  <2>6. Behind(replies[s][i].stat[p], counters'[p])
    BY <2>3, <2>4, <2>5, BehindTransitive
  <2> QED
    BY <1>2, <2>2, <2>6 DEF SamplesInOrder
<1> QED
  BY <1>1, <1>2 DEF SamplesInOrder

\* A new reply carries the counters as they are.
LEMMA SamplesAfterAnswer ==
    ASSUME TypeOK, TypeOK', SamplesInOrder, NEW s \in Switches, Answer(s)
    PROVE  SamplesInOrder'
<1> PICK m : /\ replies' = [replies EXCEPT ![s] = Append(@, m)]
             /\ m.kind = "port" => \A p \in PortsOf(s) : m.stat[p] = counters[p]
  <2>1. CASE Head(requests[s]) = "port"
    <3> DEFINE m == [kind |-> "port", stat |-> [p \in PortsOf(s) |-> counters[p]]]
    <3>1. replies' = [replies EXCEPT ![s] = Append(@, m)]
      BY <2>1 DEF Answer
    <3>2. \A p \in PortsOf(s) : m.stat[p] = counters[p]
      OBVIOUS
    <3> QED
      BY <3>1, <3>2
  <2>2. CASE Head(requests[s]) = "flow"
    <3> PICK flows : replies' = [replies EXCEPT ![s] = Append(@, [kind |-> "flow", stat |-> flows])]
      BY <2>2 DEF Answer
    <3> DEFINE m == [kind |-> "flow", stat |-> flows]
    <3>1. replies' = [replies EXCEPT ![s] = Append(@, m)]
      OBVIOUS
    <3>2. m.kind # "port"
      OBVIOUS
    <3> QED
      BY <3>1, <3>2
  <2> QED
    BY <2>1, <2>2 DEF Answer
<1>1. port_stats' = port_stats /\ counters' = counters
  BY DEF Answer
<1>2. \A r \in Switches : r # s => replies'[r] = replies[r]
  BY DEF TypeOK
<1>3. /\ replies[s] \in Seq(MessageOf(s))
      /\ Len(replies'[s]) = Len(replies[s]) + 1
      /\ replies'[s][Len(replies[s]) + 1] = m
      /\ \A i \in 1 .. Len(replies[s]) : replies'[s][i] = replies[s][i]
  <2>1. replies[s] \in Seq(MessageOf(s)) /\ replies'[s] = Append(replies[s], m)
    BY DEF TypeOK
  <2> QED
    BY <2>1
<1>4. ASSUME NEW r \in Switches, NEW i \in 1 .. Len(replies'[r]),
             replies'[r][i].kind = "port", NEW p \in PortsOf(r)
      PROVE  /\ Behind(replies'[r][i].stat[p], counters'[p])
             /\ p \in DOMAIN port_stats' => Behind(port_stats'[p], replies'[r][i].stat[p])
             /\ \A j \in 1 .. i - 1 : replies'[r][j].kind = "port" =>
                    Behind(replies'[r][j].stat[p], replies'[r][i].stat[p])
  <2>1. CASE r # s
    BY <1>1, <1>2, <1>4, <2>1 DEF SamplesInOrder
  <2>2. CASE r = s /\ i \in 1 .. Len(replies[s])
    <3>1. replies'[s][i] = replies[s][i]
      BY <1>3, <2>2
    <3>2. \A j \in 1 .. i - 1 : replies'[s][j] = replies[s][j]
      BY <1>3, <2>2
    <3> QED
      BY <1>1, <1>4, <2>2, <3>1, <3>2 DEF SamplesInOrder
  <2>3. CASE r = s /\ i = Len(replies[s]) + 1
    <3>1. replies'[r][i] = m /\ m.stat[p] = counters[p]
      BY <1>3, <1>4, <2>3
    <3>2. p \in Ports /\ counters[p] \in Sample
      BY PortsOfSwitches DEF TypeOK
    <3>3. Behind(counters[p], counters[p])
      BY <3>2 DEF Behind, Sample
    <3>4. \A j \in 1 .. i - 1 : j \in 1 .. Len(replies[s]) /\ replies'[s][j] = replies[s][j]
      BY <1>3, <2>3
    <3>5. p \in DOMAIN port_stats => Behind(port_stats[p], counters[p])
      BY DEF SamplesInOrder
    <3>6. \A j \in 1 .. i - 1 : replies'[s][j].kind = "port" => Behind(replies'[s][j].stat[p], counters[p])
      BY <2>3, <3>4 DEF SamplesInOrder
    <3> QED
      BY <1>1, <2>3, <3>1, <3>3, <3>5, <3>6
  <2> QED
    BY <1>3, <2>1, <2>2, <2>3
<1> QED
  BY <1>1, <1>4 DEF SamplesInOrder

\* What handling the oldest reply leaves in the queues.
LEMMA QueueAfterHandling ==
    ASSUME TypeOK, NEW s \in Switches, replies[s] # <<>>,
           replies' = [replies EXCEPT ![s] = Tail(@)]
    PROVE  /\ 1 \in 1 .. Len(replies[s]) /\ Head(replies[s]) = replies[s][1]
           /\ \A r \in Switches : r # s => replies'[r] = replies[r]
           /\ \A i \in 1 .. Len(replies'[s]) :
                /\ i + 1 \in 1 .. Len(replies[s])
                /\ replies'[s][i] = replies[s][i + 1]
<1>1. replies[s] \in Seq(MessageOf(s)) /\ replies'[s] = Tail(replies[s])
  BY DEF TypeOK
<1>2. \A r \in Switches : r # s => replies'[r] = replies[r]
  BY DEF TypeOK
<1>3. /\ 1 \in 1 .. Len(replies[s]) /\ Head(replies[s]) = replies[s][1]
      /\ \A i \in 1 .. Len(Tail(replies[s])) :
            i + 1 \in 1 .. Len(replies[s]) /\ Tail(replies[s])[i] = replies[s][i + 1]
  <2> HIDE DEF TypeOK
  <2> QED
    BY <1>1, QueueTail
<1> QED
  BY <1>1, <1>2, <1>3

\* Handling a reply that leaves port_stats alone.
LEMMA SamplesAfterFlowReply ==
    ASSUME TypeOK, SamplesInOrder, NEW s \in Switches, flow_stats_reply_handler(s)
    PROVE  SamplesInOrder'
<1>1. /\ replies[s] # <<>>
      /\ replies' = [replies EXCEPT ![s] = Tail(@)]
      /\ port_stats' = port_stats /\ counters' = counters
  BY DEF flow_stats_reply_handler
<1>2. ASSUME NEW r \in Switches, NEW i \in 1 .. Len(replies'[r]),
             replies'[r][i].kind = "port", NEW p \in PortsOf(r)
      PROVE  /\ Behind(replies'[r][i].stat[p], counters'[p])
             /\ p \in DOMAIN port_stats' => Behind(port_stats'[p], replies'[r][i].stat[p])
             /\ \A j \in 1 .. i - 1 : replies'[r][j].kind = "port" =>
                    Behind(replies'[r][j].stat[p], replies'[r][i].stat[p])
  <2>1. CASE r # s
    BY <1>1, <1>2, <2>1, QueueAfterHandling DEF SamplesInOrder
  <2>2. CASE r = s
    <3>1. i + 1 \in 1 .. Len(replies[s]) /\ replies'[s][i] = replies[s][i + 1]
      BY <1>1, <1>2, <2>2, QueueAfterHandling
    <3>2. \A j \in 1 .. i - 1 : /\ j + 1 \in 1 .. (i + 1) - 1
                                /\ replies'[s][j] = replies[s][j + 1]
      <4> TAKE j \in 1 .. i - 1
      <4>1. j \in 1 .. Len(replies'[s]) /\ j + 1 \in 1 .. (i + 1) - 1
        BY <2>2
      <4> QED
        BY <4>1, <1>1, QueueAfterHandling
    <3> QED
      BY <1>1, <1>2, <2>2, <3>1, <3>2 DEF SamplesInOrder
  <2> QED
    BY <2>1, <2>2
<1> QED
  BY <1>1, <1>2 DEF SamplesInOrder

\* What a port reply makes of the known samples.
LEMMA KnownSamples ==
    ASSUME TypeOK, SamplesInOrder, NEW s \in Switches, NEW elapsed,
           port_stats_reply_handler(s, elapsed)
    PROVE  /\ 1 \in 1 .. Len(replies[s]) /\ replies[s][1].kind = "port"
           /\ \A p \in PortsOf(s) : /\ p \in DOMAIN port_stats'
                                     /\ port_stats'[p] = replies[s][1].stat[p]
           /\ \A p \in Ports \ PortsOf(s) :
                /\ p \in DOMAIN port_stats' <=> p \in DOMAIN port_stats
                /\ p \in DOMAIN port_stats => port_stats'[p] = port_stats[p]
           /\ DOMAIN port_stats' \subseteq Ports
           /\ DOMAIN Head(replies[s]).stat = PortsOf(s)
           /\ Head(replies[s]) = replies[s][1]
<1> DEFINE stat == Head(replies[s]).stat
<1>1. replies[s] # <<>> /\ replies' = [replies EXCEPT ![s] = Tail(@)]
  BY DEF port_stats_reply_handler
<1>2. 1 \in 1 .. Len(replies[s]) /\ Head(replies[s]) = replies[s][1]
  BY <1>1, QueueAfterHandling
<1>3. Head(replies[s]) \in MessageOf(s) /\ Head(replies[s]).kind = "port"
  BY <1>1, RepliesType DEF port_stats_reply_handler
<1>4. stat \in [PortsOf(s) -> Sample]
  BY <1>3 DEF MessageOf
<1>5. port_stats' = Update(port_stats, stat)
  BY DEF port_stats_reply_handler
<1>6. DOMAIN port_stats \subseteq Ports
  BY DEF TypeOK, IsDict
<1> HIDE DEF stat
<1>7. /\ DOMAIN port_stats' \subseteq Ports
      /\ \A p \in PortsOf(s) : p \in DOMAIN port_stats' /\ port_stats'[p] = stat[p]
      /\ \A p \in Ports \ PortsOf(s) :
            /\ p \in DOMAIN port_stats' <=> p \in DOMAIN port_stats
            /\ p \in DOMAIN port_stats => port_stats'[p] = port_stats[p]
  BY <1>4, <1>5, <1>6, PortsOfSwitches DEF Update
<1> QED
  BY <1>2, <1>3, <1>4, <1>7 DEF stat

LEMMA SamplesAfterPortReply ==
    ASSUME TypeOK, SamplesInOrder, NEW s \in Switches, NEW elapsed,
           port_stats_reply_handler(s, elapsed)
    PROVE  SamplesInOrder'
<1>1. /\ replies[s] # <<>>
      /\ replies' = [replies EXCEPT ![s] = Tail(@)]
      /\ counters' = counters
  BY DEF port_stats_reply_handler
<1>2. ASSUME NEW p \in DOMAIN port_stats'
      PROVE  Behind(port_stats'[p], counters'[p])
  <2>1. CASE p \in PortsOf(s)
    BY <1>1, <2>1, KnownSamples DEF SamplesInOrder
  <2>2. CASE p \notin PortsOf(s)
    BY <1>1, <1>2, <2>2, KnownSamples DEF SamplesInOrder
  <2> QED
    BY <2>1, <2>2
<1>3. ASSUME NEW r \in Switches, NEW i \in 1 .. Len(replies'[r]),
             replies'[r][i].kind = "port", NEW p \in PortsOf(r)
      PROVE  /\ Behind(replies'[r][i].stat[p], counters'[p])
             /\ p \in DOMAIN port_stats' => Behind(port_stats'[p], replies'[r][i].stat[p])
             /\ \A j \in 1 .. i - 1 : replies'[r][j].kind = "port" =>
                    Behind(replies'[r][j].stat[p], replies'[r][i].stat[p])
  <2>1. CASE r # s
    <3>1. p \in Ports \ PortsOf(s)
      BY <2>1 DEF PortsOf
    <3>2. replies'[r] = replies[r]
      BY <1>1, <2>1, QueueAfterHandling
    <3> QED
      BY <1>1, <1>3, <3>1, <3>2, KnownSamples DEF SamplesInOrder
  <2>2. CASE r = s
    <3>1. i + 1 \in 1 .. Len(replies[s]) /\ replies'[s][i] = replies[s][i + 1]
      BY <1>1, <1>3, <2>2, QueueAfterHandling
    <3>2. \A j \in 1 .. i - 1 : /\ j + 1 \in 1 .. (i + 1) - 1
                                /\ replies'[s][j] = replies[s][j + 1]
      <4> TAKE j \in 1 .. i - 1
      <4>1. j \in 1 .. Len(replies'[s]) /\ j + 1 \in 1 .. (i + 1) - 1
        BY <2>2
      <4> QED
        BY <4>1, <1>1, QueueAfterHandling
    <3>3. replies[s][i + 1].kind = "port"
      BY <1>3, <2>2, <3>1
    <3>4. 1 \in 1 .. (i + 1) - 1
      OBVIOUS
    <3>5. Behind(replies[s][1].stat[p], replies[s][i + 1].stat[p])
      BY <2>2, <3>1, <3>3, <3>4, KnownSamples DEF SamplesInOrder
    <3>6. Behind(port_stats'[p], replies'[s][i].stat[p])
      BY <2>2, <3>1, <3>5, KnownSamples
    <3>7. Behind(replies[s][i + 1].stat[p], counters[p])
      BY <2>2, <3>1, <3>3 DEF SamplesInOrder
    <3>8. \A j \in 1 .. i - 1 : replies'[s][j].kind = "port" =>
                    Behind(replies'[s][j].stat[p], replies'[s][i].stat[p])
      BY <2>2, <3>1, <3>2, <3>3 DEF SamplesInOrder
    <3> QED
      BY <1>1, <2>2, <3>1, <3>6, <3>7, <3>8
  <2> QED
    BY <2>1, <2>2
<1> QED
  BY <1>2, <1>3 DEF SamplesInOrder

LEMMA SamplesStep ==
    ASSUME TypeOK, SamplesInOrder, [Next]_vars
    PROVE  SamplesInOrder'
<1> TypeOK'
  BY TypeStep
<1>1. \A p \in Ports : Behind(counters[p], counters[p])
  BY DEF TypeOK, Behind, Sample
<1>2. ASSUME UNCHANGED <<port_stats, counters, replies>>
      PROVE  SamplesInOrder'
  BY <1>2 DEF SamplesInOrder
<1>3. ASSUME NEW s \in Switches, switch_features_handler(s) \/ state_change_handler(s)
      PROVE  SamplesInOrder'
  BY <1>2, <1>3 DEF switch_features_handler, state_change_handler
<1>4. ASSUME NEW s \in Switches, NEW restart \in BOOLEAN, Disconnect(s, restart)
      PROVE  SamplesInOrder'
  <2>1. \A p \in Ports : Behind(counters[p], counters'[p])
    <3> TAKE p \in Ports
    <3>1. counters[p] \in Sample
      BY DEF TypeOK
    <3>2. \/ counters'[p] = counters[p]
          \/ counters'[p] = [tx |-> 0, life |-> counters[p].life]
      BY <1>4 DEF Disconnect
    <3> QED
      BY <1>1, <3>1, <3>2 DEF Behind, Sample
  <2>2. \A r \in Switches : replies'[r] = replies[r] \/ replies'[r] = <<>>
    BY <1>4 DEF Disconnect, TypeOK
  <2>3. port_stats' = port_stats
    BY <1>4 DEF Disconnect
  <2> QED
    BY <2>1, <2>2, <2>3, SamplesAfterCounters
<1>5. ASSUME NEW s \in Switches, Answer(s) PROVE SamplesInOrder'
  BY <1>5, SamplesAfterAnswer
<1>6. ASSUME NEW s \in Switches, Handlers(s) PROVE SamplesInOrder'
  BY <1>6, SamplesAfterPortReply, SamplesAfterFlowReply DEF Handlers
<1>7. ASSUME NEW p \in Ports, Transmit(p)
      PROVE  SamplesInOrder'
  <2>1. \A q \in Ports : Behind(counters[q], counters'[q])
    <3> TAKE q \in Ports
    <3>1. counters[q] \in Sample
      BY DEF TypeOK
    <3>2. \/ counters'[q] = [tx |-> counters[q].tx + 1, life |-> counters[q].life + 1]
          \/ counters'[q] = counters[q]
      BY <1>7 DEF Transmit, TypeOK
    <3> QED
      BY <3>1, <3>2 DEF Behind, Sample
  <2>2. port_stats' = port_stats /\ replies' = replies
    BY <1>7 DEF Transmit
  <2> QED
    BY <2>1, <2>2, SamplesAfterCounters
<1>8. ASSUME NEW l \in Links, LoseProbe(l) \/ packet_in_handler(l)
      PROVE  SamplesInOrder'
  BY <1>2, <1>8 DEF LoseProbe, packet_in_handler
<1>9. CASE Wake
  BY <1>2, <1>9 DEF Wake
<1>10. ASSUME NEW inserted \in BOOLEAN, InsertRow(inserted)
       PROVE  SamplesInOrder'
  BY <1>2, <1>10 DEF InsertRow
<1>11. CASE UNCHANGED vars
  BY <1>2, <1>11 DEF vars, netVars
<1> QED
  BY <1>3, <1>4, <1>5, <1>6, <1>7, <1>8, <1>9, <1>10, <1>11 DEF Next

-----------------------------------------------------------------------------
\* Bytes: each is in one place.

LEMMA SampledType ==
    ASSUME TypeOK
    PROVE  \A p \in Ports : SampledLife(p) \in Nat
  BY DEF TypeOK, IsDict, Sample, SampledLife

\* A port reply credits no more than it adds to the sampled bytes.
LEMMA CreditWithinSampled ==
    ASSUME TypeOK, TypeOK', SamplesInOrder, NEW s \in Switches, NEW elapsed,
           port_stats_reply_handler(s, elapsed), NEW p \in Ports
    PROVE  /\ SampledLife(p) <= SampledLife(p)'
           /\ current_poll_stats'[p].bytes + SampledLife(p)
                <= current_poll_stats[p].bytes + SampledLife(p)'
<1> DEFINE now == replies[s][1].stat[p]
<1>1. SampledLife(p) \in Nat /\ SampledLife(p)' \in Nat
  BY SampledType DEF TypeOK, IsDict, Sample, SampledLife
<1>2. current_poll_stats[p].bytes \in Nat /\ current_poll_stats'[p].bytes \in Nat
  BY DEF TypeOK, PortWindow
<1>3. current_poll_stats'[p] =
        IF p \in PortsOf(s) /\ p \in DOMAIN port_stats /\ elapsed
        THEN Credit(current_poll_stats[p], port_stats[p], now)
        ELSE current_poll_stats[p]
  BY KnownSamples DEF port_stats_reply_handler
<1>4. CASE p \notin PortsOf(s)
  <2>1. SampledLife(p)' = SampledLife(p)
    BY <1>4, KnownSamples DEF SampledLife
  <2> QED
    BY <1>1, <1>2, <1>3, <1>4, <2>1
<1>5. CASE p \in PortsOf(s) /\ p \notin DOMAIN port_stats
  <2>1. SampledLife(p) = 0
    BY <1>5 DEF SampledLife
  <2> QED
    BY <1>1, <1>2, <1>3, <1>5, <2>1
<1>6. CASE p \in PortsOf(s) /\ p \in DOMAIN port_stats
  <2>1. 1 \in 1 .. Len(replies[s]) /\ replies[s][1].kind = "port"
    BY KnownSamples
  <2>2. now \in Sample /\ port_stats[p] \in Sample
    BY <1>6, <2>1, QueuedSample DEF TypeOK, IsDict
  <2>3. Behind(port_stats[p], now)
    BY <1>6, <2>1 DEF SamplesInOrder
  <2>4. SampledLife(p) = port_stats[p].life /\ SampledLife(p)' = now.life
    BY <1>6, KnownSamples DEF SampledLife
  <2>5. SampledLife(p) + Increase(port_stats[p].tx, now.tx) <= SampledLife(p)'
    BY <2>2, <2>3, <2>4, IncreaseWithinLife
  <2>6. Increase(port_stats[p].tx, now.tx) \in Nat
    BY <2>2, IncreaseType DEF Sample
  <2>7. \/ current_poll_stats'[p].bytes = current_poll_stats[p].bytes
        \/ current_poll_stats'[p].bytes
                = current_poll_stats[p].bytes + Increase(port_stats[p].tx, now.tx)
    BY <1>3 DEF Credit
  <2> HIDE DEF now
  <2> QED
    BY <1>1, <1>2, <2>5, <2>6, <2>7
<1> QED
  BY <1>4, <1>5, <1>6

\* A window that only grows with the samples keeps the account.
LEMMA AccountAfterSamples ==
    ASSUME TypeOK, TypeOK', BytesAccounted, UNCHANGED <<todo, draft, reported>>,
           \A p \in Ports :
                /\ SampledLife(p) <= SampledLife(p)'
                /\ current_poll_stats'[p].bytes + SampledLife(p)
                        <= current_poll_stats[p].bytes + SampledLife(p)'
    PROVE  BytesAccounted'
<1>1. ASSUME NEW l \in Links
      PROVE  /\ Sampled(l) \in Nat /\ Sampled(l)' \in Nat
             /\ WindowBytes(l) \in Nat /\ WindowBytes(l)' \in Nat
             /\ reported[l] \in Nat
             /\ Sampled(l) <= Sampled(l)'
             /\ WindowBytes(l)' + Sampled(l) <= WindowBytes(l) + Sampled(l)'
  <2> DEFINE a == <<l, "a">>
             b == <<l, "b">>
  <2>1. a \in Ports /\ b \in Ports
    BY PortsOfLinks
  <2>2. \A p \in Ports : /\ SampledLife(p) \in Nat /\ SampledLife(p)' \in Nat
                         /\ current_poll_stats[p].bytes \in Nat
                         /\ current_poll_stats'[p].bytes \in Nat
    BY SampledType DEF TypeOK, IsDict, Sample, SampledLife, PortWindow
  <2>3. /\ Sampled(l) = SampledLife(a) + SampledLife(b)
        /\ Sampled(l)' = SampledLife(a)' + SampledLife(b)'
        /\ WindowBytes(l) = current_poll_stats[a].bytes + current_poll_stats[b].bytes
        /\ WindowBytes(l)' = current_poll_stats'[a].bytes + current_poll_stats'[b].bytes
    BY DEF Sampled, WindowBytes
  <2>4. reported[l] \in Nat
    BY DEF TypeOK
  <2> HIDE DEF a, b
  <2>5. /\ SampledLife(a) \in Nat /\ SampledLife(a)' \in Nat
        /\ current_poll_stats[a].bytes \in Nat /\ current_poll_stats'[a].bytes \in Nat
        /\ SampledLife(a) <= SampledLife(a)'
        /\ current_poll_stats'[a].bytes + SampledLife(a)
                <= current_poll_stats[a].bytes + SampledLife(a)'
    BY <2>1, <2>2
  <2>6. /\ SampledLife(b) \in Nat /\ SampledLife(b)' \in Nat
        /\ current_poll_stats[b].bytes \in Nat /\ current_poll_stats'[b].bytes \in Nat
        /\ SampledLife(b) <= SampledLife(b)'
        /\ current_poll_stats'[b].bytes + SampledLife(b)
                <= current_poll_stats[b].bytes + SampledLife(b)'
    BY <2>1, <2>2
  <2> QED
    BY <2>3, <2>4, <2>5, <2>6
<1>5. \A l \in Links : reported'[l] <= Sampled(l)'
  <2> TAKE l \in Links
  <2>1. reported[l] <= Sampled(l) /\ reported'[l] = reported[l]
    BY DEF BytesAccounted
  <2> QED
    BY <1>1, <2>1
<1>6. \A l \in todo' : reported'[l] + WindowBytes(l)' <= Sampled(l)'
  <2> TAKE l \in todo'
  <2>1. l \in Links /\ reported[l] + WindowBytes(l) <= Sampled(l) /\ reported'[l] = reported[l]
    BY DEF BytesAccounted, TypeOK
  <2> QED
    BY <1>1, <2>1
<1>7. \A d \in draft' : d.link \notin todo' /\ reported'[d.link] + d.bytes <= Sampled(d.link)'
  <2> TAKE d \in draft'
  <2>1. d.link \in Links /\ d.bytes \in Nat
    BY DEF TypeOK, Row
  <2>2. d.link \notin todo' /\ reported'[d.link] + d.bytes <= Sampled(d.link)
    BY DEF BytesAccounted
  <2>3. reported'[d.link] \in Nat
    BY <2>1 DEF TypeOK
  <2> QED
    BY <1>1, <2>1, <2>2, <2>3
<1> QED
  BY <1>5, <1>6, <1>7 DEF BytesAccounted

\* The monitor takes a link's bytes out of the window as it begins its row.
LEMMA AccountRunOn ==
    ASSUME TypeOK, TypeOK', NEW heard, RunOn(heard), port_stats' = port_stats,
           \A l \in Links : reported'[l] <= Sampled(l),
           \A l \in todo : reported'[l] + WindowBytes(l) <= Sampled(l)
    PROVE  BytesAccounted'
<1>1. \A l \in Links : Sampled(l)' = Sampled(l)
  BY DEF Sampled, SampledLife
<1>2. todo \subseteq Links
  BY DEF TypeOK
<1>3. CASE \E l \in Reportable : \E method \in resolve_latency(l) : BeginRow(l, method)
  <2> PICK l \in Reportable : \E method \in resolve_latency(l) : BeginRow(l, method)
    BY <1>3
  <2>0. Order[l] \in Nat /\ l \in Links
    BY <1>2, TopologyAssumption DEF Reportable
  <2>1. todo' \subseteq todo \ {l} /\ l \in todo /\ current_poll_stats' = current_poll_stats
    BY <2>0 DEF Reportable, BeginRow, After
  <2>2. \A d \in draft' : d.link = l /\ d.bytes = WindowBytes(l)
    BY DEF BeginRow
  <2>3. \A m \in todo : WindowBytes(m)' = WindowBytes(m)
    BY <2>1 DEF WindowBytes
  <2> QED
    BY <1>1, <1>2, <2>1, <2>2, <2>3 DEF BytesAccounted
<1>4. CASE OpenWindow
  <2>1. draft' = {} /\ todo' = Links
    BY <1>4 DEF OpenWindow
  <2>2. \A l \in Links : WindowBytes(l)' = 0
    <3> TAKE l \in Links
    <3>1. <<l, "a">> \in Ports /\ <<l, "b">> \in Ports
      BY PortsOfLinks
    <3>2. \A p \in Ports : current_poll_stats'[p].bytes = 0
      BY <1>4 DEF OpenWindow, EmptyWindow
    <3>3. WindowBytes(l)' = current_poll_stats'[<<l, "a">>].bytes + current_poll_stats'[<<l, "b">>].bytes
      BY DEF WindowBytes
    <3> QED
      BY <3>1, <3>2, <3>3
  <2>3. \A l \in Links : reported'[l] \in Nat
    BY DEF TypeOK
  <2> QED
    BY <1>1, <2>1, <2>2, <2>3 DEF BytesAccounted
<1>5. CASE CommitFails
  BY <1>1, <1>5 DEF CommitFails, BytesAccounted
<1> QED
  BY <1>3, <1>4, <1>5 DEF RunOn

LEMMA AccountInit == Init => BytesAccounted
<1> SUFFICES ASSUME Init PROVE BytesAccounted
  OBVIOUS
<1>1. \A p \in Ports : SampledLife(p) = 0 /\ current_poll_stats[p].bytes = 0
  BY DEF Init, SampledLife, EmptyWindow
<1> QED
  BY <1>1, PortsOfLinks DEF Init, BytesAccounted, Sampled, WindowBytes

LEMMA AccountStep ==
    ASSUME TypeOK, SamplesInOrder, BytesAccounted, [Next]_vars
    PROVE  BytesAccounted'
<1> TypeOK'
  BY TypeStep
<1>1. ASSUME UNCHANGED <<current_poll_stats, port_stats, todo, draft, reported>>
      PROVE  BytesAccounted'
  BY <1>1 DEF BytesAccounted, WindowBytes, Sampled, SampledLife
<1>2. ASSUME NEW s \in Switches,
             \/ switch_features_handler(s)
             \/ state_change_handler(s)
             \/ \E restart \in BOOLEAN : Disconnect(s, restart)
             \/ Answer(s)
      PROVE  BytesAccounted'
  BY <1>1, <1>2 DEF switch_features_handler, state_change_handler, Disconnect, Answer,
        monitorVars
<1>3. ASSUME NEW s \in Switches, NEW elapsed, port_stats_reply_handler(s, elapsed)
      PROVE  BytesAccounted'
  <2>1. UNCHANGED <<todo, draft, reported>>
    BY <1>3 DEF port_stats_reply_handler, monitorVars
  <2> QED
    BY <1>3, <2>1, CreditWithinSampled, AccountAfterSamples
<1>4. ASSUME NEW s \in Switches, flow_stats_reply_handler(s)
      PROVE  BytesAccounted'
  <2>1. UNCHANGED <<port_stats, todo, draft, reported>>
    BY <1>4 DEF flow_stats_reply_handler, monitorVars
  <2>2. \A p \in Ports : current_poll_stats'[p].bytes = current_poll_stats[p].bytes
    <3> TAKE p \in Ports
    <3>1. current_poll_stats[p] \in PortWindow
      BY DEF TypeOK
    <3>2. \A n : [current_poll_stats[p] EXCEPT !.flows = n].bytes = current_poll_stats[p].bytes
      BY <3>1 DEF PortWindow
    <3> QED
      BY <1>4, <3>2 DEF flow_stats_reply_handler
  <2>3. \A l \in Links : WindowBytes(l)' = WindowBytes(l) /\ Sampled(l)' = Sampled(l)
    BY <2>1, <2>2, PortsOfLinks DEF WindowBytes, Sampled, SampledLife
  <2> QED
    BY <2>1, <2>3 DEF BytesAccounted, TypeOK, Row
<1>5. ASSUME NEW p \in Ports, Transmit(p)
      PROVE  BytesAccounted'
  BY <1>1, <1>5 DEF Transmit, monitorVars
<1>6. ASSUME NEW l \in Links, LoseProbe(l) \/ packet_in_handler(l)
      PROVE  BytesAccounted'
  BY <1>1, <1>6 DEF LoseProbe, packet_in_handler, monitorVars
<1>7. CASE Wake
  <2>1. RunOn(Reportable) /\ port_stats' = port_stats /\ reported' = reported
    BY <1>7 DEF Wake
  <2> QED
    BY <2>1, AccountRunOn DEF BytesAccounted
<1>8. ASSUME NEW inserted \in BOOLEAN, InsertRow(inserted)
      PROVE  BytesAccounted'
  <2>1. RunOn(owed) /\ port_stats' = port_stats
    BY <1>8 DEF InsertRow
  <2>2. PICK d \in draft :
            reported' = reported \/ reported' = [reported EXCEPT ![d.link] = @ + d.bytes]
    BY <1>8, InsertedRows
  <2>3. d.link \in Links /\ d.link \notin todo /\ reported[d.link] + d.bytes <= Sampled(d.link)
    BY DEF TypeOK, Row, BytesAccounted
  <2>4. \A l \in Links : reported'[l] <= Sampled(l)
    BY <2>2, <2>3 DEF BytesAccounted, TypeOK
  <2>5. \A l \in todo : reported'[l] + WindowBytes(l) <= Sampled(l)
    BY <2>2, <2>3 DEF BytesAccounted, TypeOK
  <2> QED
    BY <2>1, <2>4, <2>5, AccountRunOn
<1>9. CASE UNCHANGED vars
  BY <1>1, <1>9 DEF vars, monitorVars
<1> QED
  BY <1>2, <1>3, <1>4, <1>5, <1>6, <1>7, <1>8, <1>9 DEF Next, Handlers

\* The account of the bytes holds in every reachable state.
THEOREM BytesAreAccounted == Spec => []ByteInvariant
<1>1. Init => ByteInvariant
  BY TypeInit, SamplesInit, AccountInit DEF ByteInvariant
<1>2. ByteInvariant /\ [Next]_vars => ByteInvariant'
  BY TypeStep, SamplesStep, AccountStep DEF ByteInvariant
<1> QED
  BY <1>1, <1>2, PTL DEF Spec

\* No byte is reported twice, whatever the number and the order of late
\* replies, lost connections, switch restarts and failed inserts.
THEOREM BytesAreReportedOnce == Spec => []NoByteReportedTwice
<1>1. ByteInvariant => NoByteReportedTwice
  <2> SUFFICES ASSUME ByteInvariant, NEW l \in Links
               PROVE  reported[l] <= counters[<<l, "a">>].life + counters[<<l, "b">>].life
    BY DEF NoByteReportedTwice
  <2>1. \A p \in Ports : /\ SampledLife(p) \in Nat /\ counters[p].life \in Nat
                         /\ SampledLife(p) <= counters[p].life
    <3> TAKE p \in Ports
    <3>1. counters[p] \in Sample
      BY DEF ByteInvariant, TypeOK
    <3>2. p \in DOMAIN port_stats => port_stats[p] \in Sample /\ Behind(port_stats[p], counters[p])
      BY DEF ByteInvariant, TypeOK, IsDict, SamplesInOrder
    <3> QED
      BY <3>1, <3>2 DEF SampledLife, Sample, Behind
  <2>2. reported[l] \in Nat /\ reported[l] <= Sampled(l)
    BY DEF ByteInvariant, TypeOK, BytesAccounted
  <2> QED
    BY <2>1, <2>2, PortsOfLinks DEF Sampled
<1> QED
  BY <1>1, BytesAreAccounted, PTL
=============================================================================
