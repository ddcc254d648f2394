--------------------------- MODULE LearningSwitch ---------------------------
(***************************************************************************)
(* The L2 forwarding of the controllers: network/simple_controller.py and  *)
(* the same lines in telemetry/telemetry_collector.py, with the switches   *)
(* that run what they install.                                             *)
(*                                                                         *)
(* A frame a switch has no rule for goes to the controller, whose answer   *)
(* takes its time: other frames of the flow miss in between, and a switch  *)
(* that fails comes back without its rules while the controller still      *)
(* knows the ports.  The rule that sends unmatched frames to the           *)
(* controller is itself a command of the handshake, on its way like any    *)
(* other.                                                                  *)
(***************************************************************************)
EXTENDS Integers, Sequences, FiniteSets

CONSTANTS
    Switches, Hosts,
    Cables,         \* switch -> port -> the [switch, port] at the other end
    HostAt,         \* switch -> port -> the host there
    Toward,         \* switch -> host -> the port of the one way to it
    Frames,         \* the frames sent, [src, dst, n]; each of them once
    MissRule,       \* does switch_features_handler install a table-miss rule
    BufferIds,      \* what a packet-in may name as the buffer of its frame
    MaxFailures     \* bound: switch failures

Broadcast == "ff:ff:ff:ff:ff:ff"
Flood == 0
NoBuffer == -1      \* OFP_NO_BUFFER; every other id is a natural number, 0 too
Ports(s) == DOMAIN Cables[s] \cup DOMAIN HostAt[s]

\* The network is a tree: leaving a switch by another port than the one toward a
\* host, one arrives where the way to the host is back through the same cable, and
\* leaving by that port one arrives at the host or where the way goes on.
ASSUME TreeAssumption ==
    /\ \A s \in Switches : Ports(s) \subseteq Nat \ {Flood}
    /\ \A s \in Switches : DOMAIN Cables[s] \cap DOMAIN HostAt[s] = {}
    /\ \A s \in Switches, h \in Hosts : Toward[s][h] \in Ports(s)
    /\ \A s \in Switches : \A p \in DOMAIN HostAt[s] : Toward[s][HostAt[s][p]] = p
    /\ \A s \in Switches : \A p \in DOMAIN Cables[s], h \in Hosts :
        LET end == Cables[s][p]
        IN  /\ end.switch \in Switches
            /\ p # Toward[s][h] <=> end.port = Toward[end.switch][h]
    /\ \A s \in Switches, h \in Hosts :
        Toward[s][h] \in DOMAIN HostAt[s] => HostAt[s][Toward[s][h]] = h
    /\ Broadcast \notin Hosts
    /\ \A f \in Frames : f.src \in Hosts
    /\ BufferIds \subseteq Nat \cup {NoBuffer}
    /\ MissRule \in BOOLEAN /\ MaxFailures \in Nat

VARIABLES
    mac_to_port,    \* of the controller: switch -> the hosts learned -> port
    dispatcher,     \* switch -> "down", "config" or "main": its connection
    flow_rules,     \* switch -> its rules [in_port, src, dst, out]
    miss_rules,     \* switches that have the table-miss rule
    wire,           \* frames arriving at a switch: [switch, port, frame]
    packet_ins,     \* the same, on their way to the controller
    commands,       \* switch -> what the controller sent it, in order
    unsent,         \* frames no host has sent yet
    received,       \* host -> frame -> how often
    due,            \* history: frames sent on a network that was ready, but for
                    \* those whose buffer add_flow forgot
    failures

controllerVars == <<mac_to_port, dispatcher>>
tableVars == <<flow_rules, miss_rules>>
historyVars == <<unsent, due, failures>>
vars == <<controllerVars, tableVars, wire, packet_ins, commands, received, historyVars>>

Arrival == [switch : Switches, port : Nat, frame : Frames]

TypeOK ==
    /\ \A s \in Switches : \A h \in DOMAIN mac_to_port[s] : mac_to_port[s][h] \in Ports(s)
    /\ dispatcher \in [Switches -> {"down", "config", "main"}]
    /\ miss_rules \subseteq Switches
    /\ \A s \in Switches : \A r \in flow_rules[s] : {r.in_port, r.out} \subseteq Ports(s)
    /\ wire \cup packet_ins \subseteq Arrival
    /\ unsent \subseteq Frames /\ due \subseteq Frames
    /\ received \in [Hosts -> [Frames -> Nat]]
    /\ failures \in 0 .. MaxFailures

Init ==
    /\ mac_to_port = [s \in Switches |-> <<>>]
    /\ dispatcher = [s \in Switches |-> "down"]
    /\ flow_rules = [s \in Switches |-> {}]
    /\ miss_rules = {}
    /\ wire = {}
    /\ packet_ins = {}
    /\ commands = [s \in Switches |-> <<>>]
    /\ unsent = Frames
    /\ received = [h \in Hosts |-> [f \in Frames |-> 0]]
    /\ due = {}
    /\ failures = 0

-----------------------------------------------------------------------------
\* The switches and the hosts.

\* The ports a frame leaves by: never the one it came in by.
OutPorts(s, in_port, out) == (IF out = Flood THEN Ports(s) ELSE {out}) \ {in_port}

\* Switch s has taken the arrivals from the wire and sends the frames on.
Forward(s, in_port, out, frames, taken) ==
    /\ wire' = (wire \ taken) \cup
        {[switch |-> Cables[s][p].switch, port |-> Cables[s][p].port, frame |-> f] :
            p \in OutPorts(s, in_port, out) \cap DOMAIN Cables[s], f \in frames}
    /\ LET reached == {HostAt[s][p] : p \in OutPorts(s, in_port, out) \cap DOMAIN HostAt[s]}
       IN  received' = [h \in Hosts |-> [f \in Frames |->
                IF h \in reached /\ f \in frames THEN received[h][f] + 1 ELSE received[h][f]]]

\* Every connection is through its handshake, and its rule is in the table.
Ready ==
    /\ \A s \in Switches : dispatcher[s] = "main"
    /\ MissRule => miss_rules = Switches

\* A host sends a frame, once.
Send(f, s, p) ==
    /\ f \in unsent
    /\ p \in DOMAIN HostAt[s] /\ HostAt[s][p] = f.src
    /\ unsent' = unsent \ {f}
    /\ wire' = wire \cup {[switch |-> s, port |-> p, frame |-> f]}
    /\ due' = IF Ready THEN due \cup {f} ELSE due
    /\ UNCHANGED <<controllerVars, tableVars, packet_ins, commands, received, failures>>

Matching(a) ==
    {r \in flow_rules[a.switch] :
        r.in_port = a.port /\ r.src = a.frame.src /\ r.dst = a.frame.dst}

\* A frame arrives: a rule forwards it, the table-miss rule sends it to the
\* controller, or it is dropped.
Match(a) ==
    /\ a \in wire
    /\ \/ /\ \E r \in Matching(a) : Forward(a.switch, a.port, r.out, {a.frame}, {a})
          /\ UNCHANGED packet_ins
       \/ /\ Matching(a) = {}
          /\ wire' = wire \ {a}
          /\ packet_ins' = IF a.switch \in miss_rules THEN packet_ins \cup {a} ELSE packet_ins
          /\ UNCHANGED received
    /\ UNCHANGED <<controllerVars, tableVars, commands, historyVars>>

\* The next FlowMod or PacketOut: its rules go into the table, its frames out.
Apply(s) ==
    /\ commands[s] # <<>>
    /\ LET c == Head(commands[s])
       IN  /\ flow_rules' = [flow_rules EXCEPT ![s] = @ \cup c.rules]
           /\ miss_rules' = IF c.miss THEN miss_rules \cup {s} ELSE miss_rules
           /\ Forward(s, c.in_port, c.out, c.frames, {})
    /\ commands' = [commands EXCEPT ![s] = Tail(@)]
    /\ UNCHANGED <<controllerVars, packet_ins, historyVars>>

\* A switch stops and starts: its rules, its frames and its connection are gone.
Fail(s) ==
    /\ failures < MaxFailures
    /\ failures' = failures + 1
    /\ dispatcher' = [dispatcher EXCEPT ![s] = "down"]
    /\ flow_rules' = [flow_rules EXCEPT ![s] = {}]
    /\ miss_rules' = miss_rules \ {s}
    /\ commands' = [commands EXCEPT ![s] = <<>>]
    /\ wire' = {a \in wire : a.switch # s}
    /\ packet_ins' = {a \in packet_ins : a.switch # s}
    /\ due' = {}
    /\ UNCHANGED <<mac_to_port, received, unsent>>

-----------------------------------------------------------------------------
\* The controller.

\* The FlowMod of the handshake.
TableMiss == [rules |-> {}, miss |-> TRUE, in_port |-> 0, out |-> Flood, frames |-> {}]

switch_features_handler(s) ==
    /\ dispatcher[s] = "down"
    /\ dispatcher' = [dispatcher EXCEPT ![s] = "config"]
    /\ commands' = IF MissRule THEN [commands EXCEPT ![s] = Append(@, TableMiss)] ELSE commands
    /\ UNCHANGED <<mac_to_port, tableVars, wire, packet_ins, received, historyVars>>

\* The framework has the ports of the switch too: MAIN_DISPATCHER from now on.
EnterMain(s) ==
    /\ dispatcher[s] = "config"
    /\ dispatcher' = [dispatcher EXCEPT ![s] = "main"]
    /\ UNCHANGED <<mac_to_port, tableVars, wire, packet_ins, commands, received, historyVars>>

\* Mutants: the port of an unknown host, and one table for all switches.
LearnFlood(s, src, in_port) ==
    [mac_to_port EXCEPT ![s] = [h \in DOMAIN mac_to_port[s] \cup {src} |->
        IF h = src THEN Flood ELSE mac_to_port[s][h]]]
LearnEverywhere(s, src, in_port) ==
    [t \in Switches |-> [h \in DOMAIN mac_to_port[t] \cup {src} |->
        IF h = src THEN in_port ELSE mac_to_port[t][h]]]

\* mac_to_port once src is learned at in_port of switch s.
Learn(s, src, in_port) ==
    [mac_to_port EXCEPT ![s] = [h \in DOMAIN mac_to_port[s] \cup {src} |->
        IF h = src THEN in_port ELSE mac_to_port[s][h]]]

\* The rule for an arrival, with the frame if the switch has it buffered: but
\* add_flow takes buffer 0 for no buffer.
FlowMod(a, out, buffer_id) ==
    [rules |-> {[in_port |-> a.port, src |-> a.frame.src, dst |-> a.frame.dst, out |-> out]},
     miss |-> FALSE, in_port |-> a.port, out |-> out,
     frames |-> IF buffer_id \in {NoBuffer, 0} THEN {} ELSE {a.frame}]

\* Mutant: the data goes along with a buffered frame instead of one that is not.
PacketOutNoData(a, out, buffer_id) ==
    [rules |-> {}, miss |-> FALSE, in_port |-> a.port, out |-> out,
     frames |-> IF buffer_id = NoBuffer THEN {} ELSE {a.frame}]

\* The frame of an arrival, by its buffer or by its data.
PacketOut(a, out, buffer_id) ==
    [rules |-> {}, miss |-> FALSE, in_port |-> a.port, out |-> out, frames |-> {a.frame}]

\* Mutants: no return after the FlowMod of a buffered frame, and one after every
\* FlowMod.
AnswersTwice(a, out, buffer_id) ==
    IF out = Flood THEN <<PacketOut(a, out, buffer_id)>>
    ELSE <<FlowMod(a, out, buffer_id), PacketOut(a, out, buffer_id)>>
AnswersRuleOnly(a, out, buffer_id) ==
    IF out = Flood THEN <<PacketOut(a, out, buffer_id)>> ELSE <<FlowMod(a, out, buffer_id)>>

\* What is sent to the switch for an arrival: the rule when the port is known, and
\* the frame unless the rule's FlowMod is to release it.
Answers(a, out, buffer_id) ==
    CASE out = Flood -> <<PacketOut(a, out, buffer_id)>>
      [] out # Flood /\ buffer_id # NoBuffer -> <<FlowMod(a, out, buffer_id)>>
      [] out # Flood /\ buffer_id = NoBuffer ->
            <<FlowMod(a, out, buffer_id), PacketOut(a, out, buffer_id)>>

\* A packet-in is handled in MAIN_DISPATCHER only.  A broadcast floods and teaches
\* nothing.  A frame that waits in buffer 0 while its rule goes out is not due.
_packet_in_handler(a, buffer_id) ==
    LET s == a.switch
        src == a.frame.src
        dst == a.frame.dst
    IN  /\ a \in packet_ins
        /\ packet_ins' = packet_ins \ {a}
        /\ \/ /\ dispatcher[s] # "main"
              /\ UNCHANGED <<mac_to_port, commands, due>>
           \/ /\ dispatcher[s] = "main" /\ dst = Broadcast
              /\ commands' = [commands EXCEPT ![s] = Append(@, PacketOut(a, Flood, buffer_id))]
              /\ UNCHANGED <<mac_to_port, due>>
           \/ /\ dispatcher[s] = "main" /\ dst # Broadcast
              /\ mac_to_port' = Learn(s, src, a.port)
              /\ LET known == mac_to_port'[s]
                     out == IF dst \in DOMAIN known THEN known[dst] ELSE Flood
                 IN  /\ commands' = [commands EXCEPT ![s] = @ \o Answers(a, out, buffer_id)]
                     /\ due' = IF out # Flood /\ buffer_id = 0 THEN due \ {a.frame} ELSE due
        /\ UNCHANGED <<dispatcher, tableVars, wire, received, unsent, failures>>

-----------------------------------------------------------------------------
Next ==
    \/ \E f \in unsent, s \in Switches : \E p \in DOMAIN HostAt[s] : Send(f, s, p)
    \/ \E a \in wire : Match(a)
    \/ \E a \in packet_ins, buffer_id \in BufferIds : _packet_in_handler(a, buffer_id)
    \/ \E s \in Switches : Apply(s) \/ Fail(s) \/ switch_features_handler(s) \/ EnterMain(s)

Spec == Init /\ [][Next]_vars

\* What arrives is handled; nothing obliges a host to send or a switch to fail.
FairSpec ==
    /\ Spec
    /\ WF_vars(\E a \in wire : Match(a))
    /\ WF_vars(\E a \in packet_ins, buffer_id \in BufferIds : _packet_in_handler(a, buffer_id))
    /\ \A s \in Switches : WF_vars(Apply(s))

-----------------------------------------------------------------------------
\* Properties.

\* What the controller has learned, and what it made of it in the switches, is the
\* way to the host: also from frames that were flooded past it, in an order of
\* packet-ins the controller does not choose, and after a switch came back.
LearnedPortsPointHome ==
    \A s \in Switches :
        /\ \A h \in DOMAIN mac_to_port[s] : mac_to_port[s][h] = Toward[s][h]
        /\ \A r \in flow_rules[s] : r.in_port = Toward[s][r.src] /\ r.out = Toward[s][r.dst]

\* No host gets a frame twice, nor its own, whichever part of the way a rule, a
\* flood or the controller takes it.
DeliveredOnce ==
    \A h \in Hosts, f \in Frames : received[h][f] <= IF h = f.src THEN 0 ELSE 1

\* Those a frame is for.
Addressees(f) == (IF f.dst = Broadcast THEN Hosts ELSE {f.dst} \cap Hosts) \ {f.src}

\* What comes in at a port which is not the one toward host h may yet get to h.
Ahead(s, port, h) == port # Toward[s][h]

\* A copy of the frame is ahead of h: on a wire, at the controller, or in a command.
OnItsWay(f, h) ==
    \/ \E a \in wire \cup packet_ins : a.frame = f /\ Ahead(a.switch, a.port, h)
    \/ \E s \in Switches : \E k \in DOMAIN commands[s] :
        f \in commands[s][k].frames /\ Ahead(s, commands[s][k].in_port, h)

\* No frame is lost between the switches, the controller and its answers: as long
\* as no switch fails, each addressee of a frame sent on a network that was ready
\* has it, or a copy of it is on the way to that host and not only to others.  The
\* one loss there is, a frame in buffer 0 whose way is known, is what due leaves out.
NothingStranded ==
    \A f \in due : \A h \in Addressees(f) : received[h][f] > 0 \/ OnItsWay(f, h)

\* Every such frame arrives in the end, unless a switch fails.
\* (Frames are sent once and stay received, so that due comes to rest.)
FramesArrive == <>[](\A f \in due : \A h \in Addressees(f) : received[h][f] > 0)
=============================================================================
