------------------------ MODULE LearningSwitchProofs ------------------------
(***************************************************************************)
(* On any tree of switches, with any frames and failures, what the         *)
(* controller learns and installs is the way to the host, and no host      *)
(* receives a frame twice.                                                 *)
(*                                                                         *)
(* The first invariant is about where frames are: wherever a frame         *)
(* arrives, it comes in by the port toward its source.  A switch never     *)
(* sends a frame back where it came from, so on a tree the frame keeps     *)
(* moving away from its source, flooded or not.                            *)
(*                                                                         *)
(* The second one counts copies, for each host those that may still reach  *)
(* it.  On a tree at most one branch leads there, so a flood makes several *)
(* copies but not several of these.                                        *)
(***************************************************************************)
EXTENDS LearningSwitch, TLAPS

\* Queues of commands keep what all their commands have.
LEMMA QueueOfSet ==
    ASSUME NEW S, NEW q \in Seq(S)
    PROVE  /\ \A e \in S : Append(q, e) \in Seq(S) /\ q \o <<e>> \in Seq(S)
           /\ \A e1, e2 \in S : q \o <<e1, e2>> \in Seq(S)
           /\ q # <<>> => Head(q) \in S /\ Tail(q) \in Seq(S)
<1>1. \A e \in S : Append(q, e) \in Seq(S) /\ <<e>> \in Seq(S)
  OBVIOUS
<1>2. \A e1, e2 \in S : <<e1, e2>> \in Seq(S)
  OBVIOUS
<1>3. \A r \in Seq(S) : q \o r \in Seq(S)
  OBVIOUS
<1>4. q # <<>> => Head(q) \in S /\ Tail(q) \in Seq(S)
  OBVIOUS
<1> QED  BY <1>1, <1>2, <1>3, <1>4

-----------------------------------------------------------------------------
\* Arrivals, rules and commands that agree with the tree.
HomeArrival(a) ==
    /\ a \in Arrival
    /\ a.port = Toward[a.switch][a.frame.src]

HomeRule(s) ==
    {r \in [in_port : Nat, src : Hosts, dst : Hosts, out : Nat] :
        r.in_port = Toward[s][r.src] /\ r.out = Toward[s][r.dst]}

HomeCommand(s) ==
    {c \in [rules : SUBSET HomeRule(s), miss : BOOLEAN, in_port : Nat, out : Nat,
            frames : SUBSET Frames] :
        \A f \in c.frames :
            /\ c.in_port = Toward[s][f.src]
            /\ c.out = Flood \/ (f.dst \in Hosts /\ c.out = Toward[s][f.dst])}

HomeInvariant ==
    /\ DOMAIN mac_to_port = Switches
    /\ \A s \in Switches : \A h \in DOMAIN mac_to_port[s] :
        h \in Hosts /\ mac_to_port[s][h] \in Nat /\ mac_to_port[s][h] = Toward[s][h]
    /\ DOMAIN flow_rules = Switches
    /\ \A s \in Switches : flow_rules[s] \subseteq HomeRule(s)
    /\ DOMAIN commands = Switches
    /\ \A s \in Switches : commands[s] \in Seq(HomeCommand(s))
    /\ \A a \in wire \cup packet_ins : HomeArrival(a)

LEMMA InitHome == Init => HomeInvariant
BY DEF Init, HomeInvariant

\* A frame that came in by the port toward its source arrives next by the port
\* toward its source.
LEMMA ForwardKeepsHome ==
    ASSUME TreeAssumption, NEW s \in Switches, NEW in_port, NEW out, NEW frames, NEW taken,
           frames \subseteq Frames, \A f \in frames : in_port = Toward[s][f.src],
           Forward(s, in_port, out, frames, taken),
           \A a \in wire : HomeArrival(a)
    PROVE  \A a \in wire' : HomeArrival(a)
<1>1. ASSUME NEW p \in OutPorts(s, in_port, out) \cap DOMAIN Cables[s], NEW f \in frames
      PROVE  HomeArrival([switch |-> Cables[s][p].switch, port |-> Cables[s][p].port,
                          frame |-> f])
  <2>1. f \in Frames /\ f.src \in Hosts /\ p # Toward[s][f.src]
    BY <1>1 DEF OutPorts, TreeAssumption
  <2>2. /\ Cables[s][p].switch \in Switches
        /\ Cables[s][p].port = Toward[Cables[s][p].switch][f.src]
    BY <1>1, <2>1 DEF TreeAssumption
  <2>3. Cables[s][p].port \in Nat
    BY <2>1, <2>2 DEF TreeAssumption
  <2> QED  BY <2>1, <2>2, <2>3 DEF HomeArrival, Arrival
<1> QED  BY <1>1 DEF Forward

-----------------------------------------------------------------------------
\* What the controller does with an arrival.
LEMMA HandlerKeepsHome ==
    ASSUME TreeAssumption, HomeInvariant, NEW a \in packet_ins, NEW buffer_id \in BufferIds,
           _packet_in_handler(a, buffer_id)
    PROVE  HomeInvariant'
<1> DEFINE s == a.switch
           src == a.frame.src
           dst == a.frame.dst
<1>1. HomeArrival(a) /\ s \in Switches /\ a.frame \in Frames /\ src \in Hosts
      /\ a.port \in Nat /\ a.port = Toward[s][src]
  BY DEF HomeInvariant, HomeArrival, Arrival, TreeAssumption
<1>2. ASSUME NEW out \in Nat, out = Flood \/ (dst \in Hosts /\ out = Toward[s][dst])
      PROVE  PacketOut(a, out, buffer_id) \in HomeCommand(s)
  BY <1>1, <1>2 DEF PacketOut, HomeCommand
<1>3. ASSUME NEW out \in Nat, dst \in Hosts /\ out = Toward[s][dst]
      PROVE  FlowMod(a, out, buffer_id) \in HomeCommand(s)
  <2>1. [in_port |-> a.port, src |-> src, dst |-> dst, out |-> out] \in HomeRule(s)
    BY <1>1, <1>3 DEF HomeRule
  <2>2. FlowMod(a, out, buffer_id).frames \in {{}, {a.frame}}
    BY DEF FlowMod
  <2> QED  BY <1>1, <2>1, <2>2, <1>3 DEF FlowMod, HomeCommand
<1>4. ASSUME NEW out \in Nat, out = Flood \/ (dst \in Hosts /\ out = Toward[s][dst])
      PROVE  commands[s] \o Answers(a, out, buffer_id) \in Seq(HomeCommand(s))
  <2>1. commands[s] \in Seq(HomeCommand(s))
    BY <1>1 DEF HomeInvariant
  <2>2. CASE out = Flood
    BY <2>1, <2>2, <1>2, QueueOfSet DEF Answers
  <2>3. CASE out # Flood /\ buffer_id # NoBuffer
    BY <2>1, <2>3, <1>3, <1>4, QueueOfSet DEF Answers
  <2>4. CASE out # Flood /\ buffer_id = NoBuffer
    <3>1. PacketOut(a, out, buffer_id) \in HomeCommand(s) /\ FlowMod(a, out, buffer_id) \in HomeCommand(s)
      BY <2>4, <1>2, <1>3, <1>4
    <3> QED  BY <2>1, <2>4, <3>1, QueueOfSet DEF Answers
  <2> QED  BY <2>2, <2>3, <2>4
<1>5. /\ UNCHANGED <<flow_rules, wire>>
      /\ packet_ins' \subseteq packet_ins
  BY DEF _packet_in_handler, tableVars
<1>6. CASE dispatcher[s] # "main"
  <2>1. mac_to_port' = mac_to_port /\ commands' = commands
    BY <1>6 DEF _packet_in_handler
  <2> QED  BY <1>5, <2>1 DEF HomeInvariant
<1>7. CASE dispatcher[s] = "main" /\ dst = Broadcast
  <2>1. commands' = [commands EXCEPT ![s] = Append(@, PacketOut(a, Flood, buffer_id))]
        /\ UNCHANGED mac_to_port
    BY <1>7 DEF _packet_in_handler
  <2>2. Append(commands[s], PacketOut(a, Flood, buffer_id)) \in Seq(HomeCommand(s))
    BY <1>1, <1>2, QueueOfSet DEF HomeInvariant, Flood
  <2> QED  BY <1>1, <1>5, <2>1, <2>2 DEF HomeInvariant
<1>8. CASE dispatcher[s] = "main" /\ dst # Broadcast
  <2> DEFINE known == mac_to_port'[s]
             out == IF dst \in DOMAIN known THEN known[dst] ELSE Flood
  <2>1. /\ mac_to_port' = Learn(s, src, a.port)
        /\ commands' = [commands EXCEPT ![s] = @ \o Answers(a, out, buffer_id)]
    BY <1>8 DEF _packet_in_handler
  <2>2. /\ DOMAIN mac_to_port' = Switches
        /\ \A t \in Switches : \A h \in DOMAIN mac_to_port'[t] :
            h \in Hosts /\ mac_to_port'[t][h] \in Nat /\ mac_to_port'[t][h] = Toward[t][h]
    BY <1>1, <2>1 DEF Learn, HomeInvariant
  <2>3. out \in Nat /\ (out = Flood \/ (dst \in Hosts /\ out = Toward[s][dst]))
    BY <1>1, <2>2 DEF Flood
  <2>4. commands[s] \o Answers(a, out, buffer_id) \in Seq(HomeCommand(s))
    BY <1>4, <2>3
  <2> QED  BY <1>1, <1>5, <2>1, <2>2, <2>4 DEF HomeInvariant
<1> QED  BY <1>6, <1>7, <1>8

-----------------------------------------------------------------------------
LEMMA StepHome ==
    ASSUME TreeAssumption, HomeInvariant, unsent \subseteq Frames, [Next]_vars
    PROVE  HomeInvariant'
<1>1. ASSUME NEW f \in unsent, NEW s \in Switches, NEW p \in DOMAIN HostAt[s], Send(f, s, p),
             f \in Frames
      PROVE  HomeInvariant'
  <2>1. HomeArrival([switch |-> s, port |-> p, frame |-> f])
    BY <1>1 DEF Send, HomeArrival, Arrival, TreeAssumption, Ports
  <2> QED  BY <1>1, <2>1 DEF Send, HomeInvariant, controllerVars, tableVars
<1>2. ASSUME NEW a \in wire, Match(a)  PROVE HomeInvariant'
  <2>1. HomeArrival(a)
    BY DEF HomeInvariant
  <2>2. \A b \in wire' \cup packet_ins' : HomeArrival(b)
    <3>1. ASSUME NEW r, Forward(a.switch, a.port, r.out, {a.frame}, {a})
          PROVE  \A b \in wire' : HomeArrival(b)
      <4>1. /\ a.switch \in Switches /\ {a.frame} \subseteq Frames
            /\ \A f \in {a.frame} : a.port = Toward[a.switch][f.src]
            /\ \A b \in wire : HomeArrival(b)
        BY <2>1 DEF HomeInvariant, HomeArrival, Arrival
      <4> QED  BY <3>1, <4>1, ForwardKeepsHome
    <3>2. \A b \in wire \cup packet_ins : HomeArrival(b)
      BY DEF HomeInvariant
    <3>3. CASE UNCHANGED packet_ins /\ \E r : Forward(a.switch, a.port, r.out, {a.frame}, {a})
      BY <3>1, <3>2, <3>3
    <3>4. CASE wire' = wire \ {a} /\ packet_ins' \subseteq packet_ins \cup {a}
      BY <2>1, <3>2, <3>4
    <3> QED  BY <1>2, <3>3, <3>4 DEF Match
  <2> QED  BY <1>2, <2>2 DEF Match, HomeInvariant, controllerVars, tableVars
<1>3. ASSUME NEW a \in packet_ins, NEW buffer_id \in BufferIds, _packet_in_handler(a, buffer_id)
      PROVE  HomeInvariant'
  BY <1>3, HandlerKeepsHome
<1>4. ASSUME NEW s \in Switches, Apply(s)  PROVE HomeInvariant'
  <2> DEFINE c == Head(commands[s])
  <2>1. c \in HomeCommand(s) /\ Tail(commands[s]) \in Seq(HomeCommand(s))
    BY <1>4, QueueOfSet DEF Apply, HomeInvariant
  <2>2. \A b \in wire' : HomeArrival(b)
    <3>1. c.frames \subseteq Frames /\ \A f \in c.frames : c.in_port = Toward[s][f.src]
      BY <2>1 DEF HomeCommand
    <3>2. Forward(s, c.in_port, c.out, c.frames, {})
      BY <1>4 DEF Apply
    <3>3. \A b \in wire : HomeArrival(b)
      BY DEF HomeInvariant
    <3> QED  BY <3>1, <3>2, <3>3, ForwardKeepsHome
  <2>3. /\ DOMAIN flow_rules' = Switches
        /\ \A t \in Switches : flow_rules'[t] \subseteq HomeRule(t)
    BY <1>4, <2>1 DEF Apply, HomeInvariant, HomeCommand
  <2> QED  BY <1>4, <2>1, <2>2, <2>3 DEF Apply, HomeInvariant, controllerVars, tableVars
<1>5. ASSUME NEW s \in Switches, Fail(s)  PROVE HomeInvariant'
  BY <1>5 DEF Fail, HomeInvariant
<1>6. ASSUME NEW s \in Switches, switch_features_handler(s)  PROVE HomeInvariant'
  <2>1. TableMiss \in HomeCommand(s)
    BY DEF TableMiss, HomeCommand, Flood
  <2>2. \A t \in Switches : commands'[t] \in Seq(HomeCommand(t))
    <3>1. commands[s] \in Seq(HomeCommand(s)) /\ Append(commands[s], TableMiss) \in Seq(HomeCommand(s))
      BY <2>1, QueueOfSet DEF HomeInvariant
    <3> QED  BY <1>6, <3>1 DEF switch_features_handler, HomeInvariant
  <2> QED  BY <1>6, <2>2 DEF switch_features_handler, HomeInvariant, tableVars
<1>7. ASSUME NEW s \in Switches, EnterMain(s)  PROVE HomeInvariant'
  BY <1>7 DEF EnterMain, HomeInvariant, tableVars
<1>8. CASE UNCHANGED vars
  BY <1>8 DEF vars, controllerVars, tableVars, HomeInvariant
<1> QED  BY <1>1, <1>2, <1>3, <1>4, <1>5, <1>6, <1>7, <1>8 DEF Next

-----------------------------------------------------------------------------
\* Types.

\* What HomeInvariant does not say of the types.
RestOfTypes ==
    /\ dispatcher \in [Switches -> {"down", "config", "main"}]
    /\ miss_rules \subseteq Switches
    /\ unsent \subseteq Frames /\ due \subseteq Frames
    /\ received \in [Hosts -> [Frames -> Nat]]
    /\ failures \in 0 .. MaxFailures

SwitchInvariant == HomeInvariant /\ RestOfTypes

LEMMA ForwardCounts ==
    ASSUME NEW s, NEW in_port, NEW out, NEW frames, NEW taken,
           Forward(s, in_port, out, frames, taken), received \in [Hosts -> [Frames -> Nat]]
    PROVE  received' \in [Hosts -> [Frames -> Nat]]
BY DEF Forward

LEMMA StepTypes ==
    ASSUME TreeAssumption, RestOfTypes, [Next]_vars
    PROVE  RestOfTypes'
<1> USE DEF RestOfTypes
<1>1. ASSUME NEW f \in unsent, NEW s \in Switches, NEW p \in DOMAIN HostAt[s], Send(f, s, p)
      PROVE  RestOfTypes'
  BY <1>1 DEF Send, controllerVars, tableVars
<1>2. ASSUME NEW a \in wire, Match(a)  PROVE RestOfTypes'
  BY <1>2, ForwardCounts DEF Match, controllerVars, tableVars, historyVars
<1>3. ASSUME NEW a \in packet_ins, NEW buffer_id \in BufferIds, _packet_in_handler(a, buffer_id)
      PROVE  RestOfTypes'
  BY <1>3 DEF _packet_in_handler, tableVars
<1>4. ASSUME NEW s \in Switches, Apply(s)  PROVE RestOfTypes'
  BY <1>4, ForwardCounts DEF Apply, controllerVars, tableVars, historyVars
<1>5. ASSUME NEW s \in Switches, Fail(s)  PROVE RestOfTypes'
  BY <1>5 DEF Fail, TreeAssumption
<1>6. ASSUME NEW s \in Switches, switch_features_handler(s)  PROVE RestOfTypes'
  BY <1>6 DEF switch_features_handler, tableVars, historyVars
<1>7. ASSUME NEW s \in Switches, EnterMain(s)  PROVE RestOfTypes'
  BY <1>7 DEF EnterMain, tableVars, historyVars
<1>8. CASE UNCHANGED vars
  BY <1>8 DEF vars, controllerVars, tableVars, historyVars
<1> QED  BY <1>1, <1>2, <1>3, <1>4, <1>5, <1>6, <1>7, <1>8 DEF Next

LEMMA SwitchSound ==
    ASSUME TreeAssumption
    PROVE  /\ Init => SwitchInvariant
           /\ SwitchInvariant /\ [Next]_vars => SwitchInvariant'
<1>1. Init => SwitchInvariant
  BY InitHome, TreeAssumption DEF Init, RestOfTypes, SwitchInvariant
<1>2. SwitchInvariant /\ [Next]_vars => SwitchInvariant'
  BY TreeAssumption, StepHome, StepTypes DEF RestOfTypes, SwitchInvariant
<1> QED  BY <1>1, <1>2

\* The ports learned and in the rules are ports of their switch, and frames are
\* where frames can be, on every tree.
THEOREM TypeCorrect ==
    ASSUME TreeAssumption
    PROVE  Spec => []TypeOK
<1>1. SwitchInvariant => TypeOK
  <2> SUFFICES ASSUME HomeInvariant, RestOfTypes  PROVE TypeOK
    BY DEF SwitchInvariant
  <2>1. \A s \in Switches : \A h \in DOMAIN mac_to_port[s] : mac_to_port[s][h] \in Ports(s)
    BY TreeAssumption DEF HomeInvariant, TreeAssumption
  <2>2. \A s \in Switches : \A r \in flow_rules[s] : {r.in_port, r.out} \subseteq Ports(s)
    BY TreeAssumption DEF HomeInvariant, HomeRule, TreeAssumption
  <2>3. wire \cup packet_ins \subseteq Arrival
    BY DEF HomeInvariant, HomeArrival
  <2> QED  BY <2>1, <2>2, <2>3 DEF TypeOK, RestOfTypes
<1> QED  BY <1>1, SwitchSound, TreeAssumption, PTL DEF Spec

\* What the controller has learned and installed is the way to the host, on every
\* tree and for every mix of floods, rules, late answers and failures.
THEOREM LearningIsSound ==
    ASSUME TreeAssumption
    PROVE  Spec => []LearnedPortsPointHome
<1>1. SwitchInvariant => LearnedPortsPointHome
  BY DEF SwitchInvariant, HomeInvariant, LearnedPortsPointHome, HomeRule
<1> QED  BY <1>1, SwitchSound, TreeAssumption, PTL DEF Spec

-----------------------------------------------------------------------------
\* Copies.  A copy of a frame that came in at a port which is not the one toward
\* host h may yet bring the frame to h; the others are on branches h is not on.

OnWire(f, h) == {a \in wire : a.frame = f /\ Ahead(a.switch, a.port, h)}
AtController(f, h) == {a \in packet_ins : a.frame = f /\ Ahead(a.switch, a.port, h)}
Carries(s, k, f, h) ==
    /\ k \in DOMAIN commands[s]
    /\ f \in commands[s][k].frames
    /\ Ahead(s, commands[s][k].in_port, h)
NotCommanded(f, h) == \A s \in Switches, k \in Nat : ~Carries(s, k, f, h)

\* There is at most one such copy, and none once the frame is received.
OneCopy(f, h) ==
    /\ \A a, b \in OnWire(f, h) : a = b
    /\ \A a, b \in AtController(f, h) : a = b
    /\ \A s, t \in Switches, k, m \in Nat :
        Carries(s, k, f, h) /\ Carries(t, m, f, h) => s = t /\ k = m
    /\ OnWire(f, h) = {} \/ (AtController(f, h) = {} /\ NotCommanded(f, h))
    /\ AtController(f, h) = {} \/ NotCommanded(f, h)
    /\ received[h][f] <= 1
    /\ received[h][f] = 1 =>
        OnWire(f, h) = {} /\ AtController(f, h) = {} /\ NotCommanded(f, h)

\* Of a frame that has not been sent there is none.
Unseen(f) ==
    /\ \A a \in wire \cup packet_ins : a.frame # f
    /\ \A s \in Switches : \A k \in DOMAIN commands[s] : f \notin commands[s][k].frames
    /\ \A h \in Hosts : received[h][f] = 0

CopyInvariant ==
    /\ SwitchInvariant
    /\ \A f \in unsent : Unseen(f)
    /\ \A f \in Frames, h \in Hosts : OneCopy(f, h)
    /\ \A f \in Frames : received[f.src][f] = 0

\* A copy on its way to h is alone, and h has not received the frame.
LEMMA OneIsAlone ==
    ASSUME NEW f \in Frames, NEW h \in Hosts, OneCopy(f, h), received \in [Hosts -> [Frames -> Nat]]
    PROVE  /\ \A a \in OnWire(f, h) :
                /\ OnWire(f, h) \subseteq {a} /\ AtController(f, h) = {} /\ NotCommanded(f, h)
                /\ received[h][f] = 0
           /\ \A a \in AtController(f, h) :
                /\ OnWire(f, h) = {} /\ AtController(f, h) \subseteq {a} /\ NotCommanded(f, h)
                /\ received[h][f] = 0
<1>1. received[h][f] \in Nat
  OBVIOUS
<1>2. received[h][f] \in {0, 1}
  BY <1>1 DEF OneCopy
<1>3. ASSUME NEW a \in OnWire(f, h)
      PROVE  /\ OnWire(f, h) \subseteq {a} /\ AtController(f, h) = {} /\ NotCommanded(f, h)
             /\ received[h][f] = 0
  BY <1>2, <1>3 DEF OneCopy
<1>4. ASSUME NEW a \in AtController(f, h)
      PROVE  /\ OnWire(f, h) = {} /\ AtController(f, h) \subseteq {a} /\ NotCommanded(f, h)
             /\ received[h][f] = 0
  BY <1>2, <1>4 DEF OneCopy
<1> QED  BY <1>3, <1>4

\* A step that loses copies, or changes none.
LEMMA FewerCopies ==
    ASSUME NEW f, NEW h, OneCopy(f, h),
           OnWire(f, h)' \subseteq OnWire(f, h),
           AtController(f, h)' \subseteq AtController(f, h),
           \A s \in Switches, k \in Nat : Carries(s, k, f, h)' => Carries(s, k, f, h),
           received'[h][f] = received[h][f]
    PROVE  OneCopy(f, h)'
BY DEF OneCopy, NotCommanded

\* A copy sent on is ahead at one port at most, the one toward h; there it either
\* goes on or is received.  Copies that are not ahead have no successor that is.
LEMMA ForwardKeepsOne ==
    ASSUME TreeAssumption, NEW s \in Switches, NEW in_port, NEW out, NEW frames, NEW taken,
           Forward(s, in_port, out, frames, taken),
           NEW f \in Frames, NEW h \in Hosts, received \in [Hosts -> [Frames -> Nat]]
    PROVE  /\ f \notin frames \/ ~Ahead(s, in_port, h) =>
                /\ OnWire(f, h)' \subseteq OnWire(f, h) \ taken
                /\ received'[h][f] = received[h][f]
           /\ OnWire(f, h) \subseteq taken =>
                /\ \A a, b \in OnWire(f, h)' : a = b
                /\ \/ received'[h][f] = received[h][f]
                   \/ received'[h][f] = received[h][f] + 1 /\ OnWire(f, h)' = {}
<1> DEFINE p == Toward[s][h]
           next == [switch |-> Cables[s][p].switch, port |-> Cables[s][p].port, frame |-> f]
<1>1. ASSUME NEW a \in OnWire(f, h)', a \notin OnWire(f, h) \ taken
      PROVE  a = next /\ f \in frames /\ in_port # p /\ p \in DOMAIN Cables[s]
  <2>1. a \notin wire \ taken
    BY <1>1 DEF OnWire
  <2>2. PICK q \in OutPorts(s, in_port, out) \cap DOMAIN Cables[s], g \in frames :
            a = [switch |-> Cables[s][q].switch, port |-> Cables[s][q].port, frame |-> g]
    BY <1>1, <2>1 DEF OnWire, Forward
  <2>3. g = f /\ Ahead(Cables[s][q].switch, Cables[s][q].port, h)
    BY <1>1, <2>2 DEF OnWire
  <2>4. q = p
    BY <2>2, <2>3 DEF Ahead, TreeAssumption
  <2> QED  BY <2>2, <2>3, <2>4 DEF OutPorts
<1>2. ASSUME received'[h][f] # received[h][f]
      PROVE  received'[h][f] = received[h][f] + 1 /\ f \in frames /\ in_port # p /\ p \in DOMAIN HostAt[s]
  <2> DEFINE reached == {HostAt[s][q] : q \in OutPorts(s, in_port, out) \cap DOMAIN HostAt[s]}
  <2>1. received'[h][f] = IF h \in reached /\ f \in frames THEN received[h][f] + 1 ELSE received[h][f]
    BY DEF Forward
  <2>2. h \in reached /\ f \in frames
    BY <1>2, <2>1
  <2>3. PICK q \in OutPorts(s, in_port, out) \cap DOMAIN HostAt[s] : HostAt[s][q] = h
    BY <2>2
  <2>4. q = p
    BY <2>3 DEF TreeAssumption
  <2> QED  BY <2>1, <2>2, <2>3, <2>4 DEF OutPorts
<1>3. p \notin DOMAIN Cables[s] \/ p \notin DOMAIN HostAt[s]
  BY DEF TreeAssumption
<1>4. ASSUME f \notin frames \/ ~Ahead(s, in_port, h)
      PROVE  OnWire(f, h)' \subseteq OnWire(f, h) \ taken /\ received'[h][f] = received[h][f]
  BY <1>1, <1>2, <1>4 DEF Ahead
<1>5. ASSUME OnWire(f, h) \subseteq taken
      PROVE  /\ \A a, b \in OnWire(f, h)' : a = b
             /\ \/ received'[h][f] = received[h][f]
                \/ received'[h][f] = received[h][f] + 1 /\ OnWire(f, h)' = {}
  <2>1. \A a \in OnWire(f, h)' : a = next /\ p \in DOMAIN Cables[s]
    BY <1>1, <1>5
  <2> QED  BY <1>2, <1>3, <2>1
<1> QED  BY <1>4, <1>5

\* The same for one pair of a frame and a host, whatever takes the copies: a
\* frame from the wire, or the head of a queue of commands.
LEMMA ForwardTaken ==
    ASSUME TreeAssumption, NEW s \in Switches, NEW in_port, NEW out, NEW frames, NEW taken,
           Forward(s, in_port, out, frames, taken),
           NEW f \in Frames, NEW h \in Hosts, received \in [Hosts -> [Frames -> Nat]],
           OneCopy(f, h), OnWire(f, h) \subseteq taken, received[h][f] = 0,
           AtController(f, h)' = {}, NotCommanded(f, h)'
    PROVE  OneCopy(f, h)'
BY ForwardKeepsOne DEF OneCopy, NotCommanded

LEMMA SendKeepsOne ==
    ASSUME CopyInvariant, NEW g \in unsent, NEW s \in Switches, NEW p \in DOMAIN HostAt[s],
           Send(g, s, p), NEW f \in Frames, NEW h \in Hosts
    PROVE  OneCopy(f, h)'
<1>1. /\ wire' = wire \cup {[switch |-> s, port |-> p, frame |-> g]}
      /\ packet_ins' = packet_ins /\ commands' = commands /\ received' = received
  BY DEF Send
<1>2. OneCopy(f, h)
  BY DEF CopyInvariant
<1>3. CASE f # g
  <2>1. OnWire(f, h)' \subseteq OnWire(f, h) /\ AtController(f, h)' \subseteq AtController(f, h)
    BY <1>1, <1>3 DEF OnWire, AtController
  <2>2. \A t \in Switches, k \in Nat : Carries(t, k, f, h)' => Carries(t, k, f, h)
    BY <1>1 DEF Carries
  <2> QED  BY <1>1, <1>2, <2>1, <2>2, FewerCopies
<1>4. CASE f = g
  <2>1. Unseen(f)
    BY <1>4 DEF CopyInvariant
  <2>2. AtController(f, h)' = {} /\ NotCommanded(f, h)' /\ received'[h][f] = 0
    BY <1>1, <2>1 DEF Unseen, AtController, NotCommanded, Carries
  <2>3. \A a, b \in OnWire(f, h)' : a = b
    BY <1>1, <2>1 DEF Unseen, OnWire
  <2> QED  BY <2>2, <2>3 DEF OneCopy, NotCommanded
<1> QED  BY <1>3, <1>4

LEMMA MatchKeepsOne ==
    ASSUME TreeAssumption, CopyInvariant, NEW a \in wire, Match(a), NEW f \in Frames, NEW h \in Hosts
    PROVE  OneCopy(f, h)'
<1>1. OneCopy(f, h) /\ commands' = commands /\ received \in [Hosts -> [Frames -> Nat]]
  BY DEF CopyInvariant, SwitchInvariant, RestOfTypes, Match
<1>2. \A t \in Switches, k \in Nat : Carries(t, k, f, h)' => Carries(t, k, f, h)
  BY <1>1 DEF Carries
<1>3. a.switch \in Switches
  BY DEF CopyInvariant, SwitchInvariant, HomeInvariant, HomeArrival, Arrival
<1>4. ASSUME NEW r \in Matching(a), Forward(a.switch, a.port, r.out, {a.frame}, {a}), UNCHANGED packet_ins
      PROVE  OneCopy(f, h)'
  <2>1. AtController(f, h)' = AtController(f, h)
    BY <1>4 DEF AtController
  <2>2. CASE a \in OnWire(f, h)
    <3>1. OnWire(f, h) \subseteq {a} /\ AtController(f, h) = {} /\ NotCommanded(f, h) /\ received[h][f] = 0
      BY <1>1, <2>2, OneIsAlone
    <3>2. NotCommanded(f, h)'
      BY <1>2, <3>1 DEF NotCommanded
    <3> QED  BY <1>1, <1>3, <1>4, <2>1, <3>1, <3>2, ForwardTaken
  <2>3. CASE a \notin OnWire(f, h)
    <3>1. f \notin {a.frame} \/ ~Ahead(a.switch, a.port, h)
      BY <2>3 DEF OnWire
    <3>2. OnWire(f, h)' \subseteq OnWire(f, h) /\ received'[h][f] = received[h][f]
      BY <1>1, <1>3, <1>4, <3>1, ForwardKeepsOne
    <3> QED  BY <1>1, <1>2, <2>1, <3>2, FewerCopies
  <2> QED  BY <2>2, <2>3
<1>5. CASE /\ wire' = wire \ {a}
           /\ packet_ins' \in {packet_ins, packet_ins \cup {a}}
           /\ received' = received
  <2>1. CASE a \in OnWire(f, h)
    <3>1. OnWire(f, h) \subseteq {a} /\ AtController(f, h) = {} /\ NotCommanded(f, h) /\ received[h][f] = 0
      BY <1>1, <2>1, OneIsAlone
    <3>2. OnWire(f, h)' = {} /\ AtController(f, h)' \subseteq {a} /\ received'[h][f] = 0
      BY <1>5, <3>1 DEF OnWire, AtController
    <3> QED  BY <1>2, <3>1, <3>2 DEF OneCopy, NotCommanded
  <2>2. CASE a \notin OnWire(f, h)
    <3>1. OnWire(f, h)' \subseteq OnWire(f, h) /\ AtController(f, h)' \subseteq AtController(f, h)
      BY <1>5, <2>2 DEF OnWire, AtController
    <3> QED  BY <1>1, <1>2, <1>5, <3>1, FewerCopies
  <2> QED  BY <2>1, <2>2
<1> QED  BY <1>4, <1>5 DEF Match

LEMMA ApplyKeepsOne ==
    ASSUME TreeAssumption, CopyInvariant, NEW s \in Switches, Apply(s), NEW f \in Frames, NEW h \in Hosts
    PROVE  OneCopy(f, h)'
<1> DEFINE c == Head(commands[s])
<1>1. /\ OneCopy(f, h) /\ received \in [Hosts -> [Frames -> Nat]]
      /\ commands[s] \in Seq(HomeCommand(s)) /\ commands[s] # <<>>
      /\ DOMAIN commands = Switches
  BY DEF CopyInvariant, SwitchInvariant, HomeInvariant, RestOfTypes, Apply
<1>2. /\ Forward(s, c.in_port, c.out, c.frames, {}) /\ packet_ins' = packet_ins
      /\ commands' = [commands EXCEPT ![s] = Tail(@)]
  BY DEF Apply
<1>3. /\ 1 \in DOMAIN commands[s] /\ c = commands[s][1]
      /\ \A k \in Nat : k \in DOMAIN Tail(commands[s]) =>
            k >= 1 /\ k + 1 \in DOMAIN commands[s] /\ Tail(commands[s])[k] = commands[s][k + 1]
  BY <1>1
<1>4. AtController(f, h)' = AtController(f, h)
  BY <1>2 DEF AtController
<1>5. \A k \in Nat : Carries(s, k, f, h)' => k >= 1 /\ Carries(s, k + 1, f, h)
  BY <1>1, <1>2, <1>3 DEF Carries
<1>6. \A t \in Switches \ {s}, k \in Nat : Carries(t, k, f, h)' => Carries(t, k, f, h)
  BY <1>1, <1>2 DEF Carries
<1>7. CASE Carries(s, 1, f, h)
  <2>1. OnWire(f, h) = {} /\ AtController(f, h) = {} /\ received[h][f] = 0
    BY <1>1, <1>7 DEF OneCopy, NotCommanded
  <2>2. \A t \in Switches, k \in Nat : Carries(t, k, f, h) => t = s /\ k = 1
    BY <1>1, <1>7 DEF OneCopy
  <2>3. NotCommanded(f, h)'
    <3>1. ASSUME NEW k \in Nat, Carries(s, k, f, h)'  PROVE FALSE
      BY <1>5, <2>2, <3>1
    <3>2. ASSUME NEW t \in Switches \ {s}, NEW k \in Nat, Carries(t, k, f, h)'  PROVE FALSE
      BY <1>6, <2>2, <3>2
    <3> QED  BY <3>1, <3>2 DEF NotCommanded
  <2>4. OnWire(f, h) \subseteq {} /\ AtController(f, h)' = {}
    BY <1>4, <2>1
  <2> QED  BY <1>1, <1>2, <2>1, <2>3, <2>4, ForwardTaken
<1>8. CASE ~Carries(s, 1, f, h)
  <2>1. f \notin c.frames \/ ~Ahead(s, c.in_port, h)
    BY <1>3, <1>8 DEF Carries
  <2>2. OnWire(f, h)' \subseteq OnWire(f, h) /\ received'[h][f] = received[h][f]
    BY <1>1, <1>2, <2>1, ForwardKeepsOne
  <2>3. NotCommanded(f, h) => NotCommanded(f, h)'
    <3>1. ASSUME NotCommanded(f, h), NEW k \in Nat, Carries(s, k, f, h)'  PROVE FALSE
      BY <1>5, <3>1 DEF NotCommanded
    <3> QED  BY <1>6, <3>1 DEF NotCommanded
  <2>4. \A t, u \in Switches, k, m \in Nat :
            Carries(t, k, f, h)' /\ Carries(u, m, f, h)' => t = u /\ k = m
    <3>1. \A k, m \in Nat : Carries(s, k, f, h)' /\ Carries(s, m, f, h)' => k = m
      <4>1. ASSUME NEW k \in Nat, NEW m \in Nat, Carries(s, k, f, h)', Carries(s, m, f, h)'
            PROVE  k = m
        <5>1. Carries(s, k + 1, f, h) /\ Carries(s, m + 1, f, h) /\ k + 1 \in Nat /\ m + 1 \in Nat
          BY <1>5, <4>1
        <5>2. k + 1 = m + 1
          BY <1>1, <5>1 DEF OneCopy
        <5> QED  BY <5>2
      <4> QED  BY <4>1
    <3>2. \A u \in Switches \ {s}, k, m \in Nat : ~(Carries(s, k, f, h)' /\ Carries(u, m, f, h)')
      <4>1. ASSUME NEW u \in Switches \ {s}, NEW k \in Nat, NEW m \in Nat,
                   Carries(s, k, f, h)', Carries(u, m, f, h)'
            PROVE  FALSE
        <5>1. Carries(s, k + 1, f, h) /\ Carries(u, m, f, h) /\ k + 1 \in Nat
          BY <1>5, <1>6, <4>1
        <5> QED  BY <1>1, <5>1 DEF OneCopy
      <4> QED  BY <4>1
    <3>3. \A t, u \in Switches \ {s}, k, m \in Nat :
            Carries(t, k, f, h)' /\ Carries(u, m, f, h)' => t = u /\ k = m
      BY <1>1, <1>6 DEF OneCopy
    <3> QED  BY <3>1, <3>2, <3>3
  <2> QED  BY <1>1, <1>4, <2>2, <2>3, <2>4 DEF OneCopy
<1> QED  BY <1>7, <1>8

\* A packet-in is dropped, or answered; one that due keeps is answered with more
\* than the rule that leaves buffer 0 alone.
LEMMA HandlerAnswers ==
    ASSUME HomeInvariant, NEW a \in packet_ins, NEW buffer_id \in BufferIds,
           _packet_in_handler(a, buffer_id)
    PROVE  \/ dispatcher[a.switch] # "main" /\ commands' = commands
           \/ \E out :
                /\ commands' = [commands EXCEPT ![a.switch] = @ \o Answers(a, out, buffer_id)]
                /\ a.frame \in due' => out = Flood \/ buffer_id # 0
<1> DEFINE s == a.switch
<1>1. s \in Switches /\ commands[s] \in Seq(HomeCommand(s)) /\ DOMAIN commands = Switches
  BY DEF HomeInvariant, HomeArrival, Arrival
<1>2. CASE dispatcher[s] # "main"
  BY <1>2 DEF _packet_in_handler
<1>3. CASE dispatcher[s] = "main" /\ a.frame.dst = Broadcast
  <2>1. Answers(a, Flood, buffer_id) = <<PacketOut(a, Flood, buffer_id)>>
    BY DEF Answers
  <2>2. Append(commands[s], PacketOut(a, Flood, buffer_id))
            = commands[s] \o <<PacketOut(a, Flood, buffer_id)>>
    BY <1>1
  <2>3. commands' = [commands EXCEPT ![s] = Append(@, PacketOut(a, Flood, buffer_id))]
    BY <1>3 DEF _packet_in_handler
  <2>4. commands' = [commands EXCEPT ![s] = @ \o Answers(a, Flood, buffer_id)]
    BY <2>1, <2>2, <2>3
  <2> QED  BY <2>4
<1>4. CASE dispatcher[s] = "main" /\ a.frame.dst # Broadcast
  <2> DEFINE known == mac_to_port'[s]
             out == IF a.frame.dst \in DOMAIN known THEN known[a.frame.dst] ELSE Flood
  <2>1. /\ commands' = [commands EXCEPT ![s] = @ \o Answers(a, out, buffer_id)]
        /\ due' = IF out # Flood /\ buffer_id = 0 THEN due \ {a.frame} ELSE due
    BY <1>4 DEF _packet_in_handler
  <2> HIDE DEF out
  <2> QED  BY <2>1
<1> QED  BY <1>2, <1>3, <1>4

\* The commands after the answers to an arrival: those there were, and of the new
\* ones the last carries its frame, no other one any.
LEMMA HandlerCommands ==
    ASSUME CopyInvariant, NEW a \in packet_ins, NEW buffer_id \in BufferIds,
           _packet_in_handler(a, buffer_id)
    PROVE  /\ \A t \in Switches \ {a.switch} : commands'[t] = commands[t]
           /\ DOMAIN commands'[a.switch] \subseteq Nat
           /\ \E n \in Nat : \A k \in DOMAIN commands'[a.switch] :
                \/ /\ k \in DOMAIN commands[a.switch]
                   /\ commands'[a.switch][k] = commands[a.switch][k]
                \/ commands'[a.switch][k].frames = {}
                \/ /\ k = n
                   /\ commands'[a.switch][k].frames = {a.frame}
                   /\ commands'[a.switch][k].in_port = a.port
<1> DEFINE s == a.switch
<1>1. s \in Switches /\ commands[s] \in Seq(HomeCommand(s)) /\ DOMAIN commands = Switches
  BY DEF CopyInvariant, SwitchInvariant, HomeInvariant, HomeArrival, Arrival
<1>2. CASE commands' = commands
  <2>1. commands[s] \in Seq(HomeCommand(s)) /\ DOMAIN commands[s] \subseteq Nat
    BY <1>1
  <2> QED  BY <1>2, <2>1
<1>3. ASSUME NEW out, commands' = [commands EXCEPT ![s] = @ \o Answers(a, out, buffer_id)]
      PROVE  /\ \A t \in Switches \ {a.switch} : commands'[t] = commands[t]
             /\ DOMAIN commands'[a.switch] \subseteq Nat
             /\ \E n \in Nat : \A k \in DOMAIN commands'[a.switch] :
                  \/ /\ k \in DOMAIN commands[a.switch]
                     /\ commands'[a.switch][k] = commands[a.switch][k]
                  \/ commands'[a.switch][k].frames = {}
                  \/ /\ k = n
                     /\ commands'[a.switch][k].frames = {a.frame}
                     /\ commands'[a.switch][k].in_port = a.port
  <2>1. commands'[s] = commands[s] \o Answers(a, out, buffer_id)
    BY <1>1, <1>3
  <2>2. \A t \in Switches \ {s} : commands'[t] = commands[t]
    BY <1>1, <1>3
  <2>3. PICK q, S, r : q \in Seq(S) /\ q = commands[s] /\ r = commands'[s] /\ r = q \o Answers(a, out, buffer_id)
    BY <1>1, <2>1
  <2>4. Len(q) + 1 \in Nat /\ Len(q) + 2 \in Nat
    BY <2>3
  <2>5. DOMAIN r \subseteq Nat /\ \E n \in Nat : \A k \in DOMAIN r :
          \/ k \in DOMAIN q /\ r[k] = q[k]
          \/ r[k].frames = {}
          \/ k = n /\ r[k].frames = {a.frame} /\ r[k].in_port = a.port
    <3>1. CASE out = Flood \/ buffer_id # NoBuffer
      <4>1. PICK e : /\ Answers(a, out, buffer_id) = <<e>>
                     /\ e.frames \in {{}, {a.frame}} /\ e.in_port = a.port
        BY <3>1 DEF Answers, FlowMod, PacketOut
      <4>2. r = q \o <<e>> /\ q \in Seq(S)
        BY <2>3, <4>1
      <4>3. /\ DOMAIN r \subseteq Nat
            /\ \A k \in DOMAIN r : (k \in DOMAIN q /\ r[k] = q[k]) \/ (k = Len(q) + 1 /\ r[k] = e)
        BY <4>2
      <4> QED  BY <2>4, <4>1, <4>3
    <3>2. CASE out # Flood /\ buffer_id = NoBuffer
      <4>1. PICK d, e : /\ Answers(a, out, buffer_id) = <<d, e>>
                        /\ d.frames = {} /\ e.frames = {a.frame} /\ e.in_port = a.port
        BY <3>2 DEF Answers, FlowMod, PacketOut
      <4>2. r = q \o <<d, e>> /\ q \in Seq(S)
        BY <2>3, <4>1
      <4>3. /\ DOMAIN r \subseteq Nat
            /\ \A k \in DOMAIN r :
                  \/ k \in DOMAIN q /\ r[k] = q[k]
                  \/ k = Len(q) + 1 /\ r[k] = d
                  \/ k = Len(q) + 2 /\ r[k] = e
        BY <4>2
      <4> QED  BY <2>4, <4>1, <4>3
    <3> QED  BY <3>1, <3>2
  <2> QED  BY <2>2, <2>3, <2>5
<1> QED  BY <1>2, <1>3, HandlerAnswers DEF CopyInvariant, SwitchInvariant

LEMMA HandlerKeepsOne ==
    ASSUME CopyInvariant, NEW a \in packet_ins, NEW buffer_id \in BufferIds,
           _packet_in_handler(a, buffer_id), NEW f \in Frames, NEW h \in Hosts
    PROVE  OneCopy(f, h)'
<1> DEFINE s == a.switch
<1>1. /\ OneCopy(f, h) /\ received \in [Hosts -> [Frames -> Nat]]
      /\ s \in Switches /\ commands[s] \in Seq(HomeCommand(s)) /\ DOMAIN commands = Switches
  BY DEF CopyInvariant, SwitchInvariant, HomeInvariant, HomeArrival, Arrival, RestOfTypes
<1>2. wire' = wire /\ received' = received /\ packet_ins' = packet_ins \ {a}
  BY DEF _packet_in_handler
<1>3. \A t \in Switches \ {s} : commands'[t] = commands[t]
  BY HandlerCommands
<1>4. PICK n \in Nat : \A k \in DOMAIN commands'[s] :
            \/ k \in DOMAIN commands[s] /\ commands'[s][k] = commands[s][k]
            \/ commands'[s][k].frames = {}
            \/ k = n /\ commands'[s][k].frames = {a.frame} /\ commands'[s][k].in_port = a.port
  BY HandlerCommands
<1>5. \A t \in Switches, k \in Nat : Carries(t, k, f, h)' =>
            \/ Carries(t, k, f, h)
            \/ t = s /\ k = n /\ a \in AtController(f, h)
  <2>1. ASSUME NEW k \in Nat, Carries(s, k, f, h)'
        PROVE  Carries(s, k, f, h) \/ (k = n /\ a \in AtController(f, h))
    BY <1>4, <2>1 DEF Carries, AtController
  <2>2. ASSUME NEW t \in Switches \ {s}, NEW k \in Nat, Carries(t, k, f, h)'
        PROVE  Carries(t, k, f, h)
    BY <1>1, <1>3, <2>2 DEF Carries
  <2> QED  BY <2>1, <2>2
<1>6. OnWire(f, h)' = OnWire(f, h) /\ AtController(f, h)' = AtController(f, h) \ {a}
  BY <1>2 DEF OnWire, AtController
<1>7. CASE a \in AtController(f, h)
  <2>1. /\ OnWire(f, h) = {} /\ AtController(f, h) \subseteq {a} /\ NotCommanded(f, h)
        /\ received[h][f] = 0
    BY <1>1, <1>7, OneIsAlone
  <2>2. \A t \in Switches, k \in Nat : Carries(t, k, f, h)' => t = s /\ k = n
    BY <1>5, <2>1 DEF NotCommanded
  <2> QED  BY <1>2, <1>6, <2>1, <2>2 DEF OneCopy
<1>8. CASE a \notin AtController(f, h)
  BY <1>1, <1>2, <1>5, <1>6, <1>8, FewerCopies
<1> QED  BY <1>7, <1>8

LEMMA FailKeepsOne ==
    ASSUME CopyInvariant, NEW s \in Switches, Fail(s), NEW f \in Frames, NEW h \in Hosts
    PROVE  OneCopy(f, h)'
<1>1. OnWire(f, h)' \subseteq OnWire(f, h) /\ AtController(f, h)' \subseteq AtController(f, h)
  BY DEF Fail, OnWire, AtController
<1>2. \A t \in Switches, k \in Nat : Carries(t, k, f, h)' => Carries(t, k, f, h)
  BY DEF Fail, Carries, CopyInvariant, SwitchInvariant, HomeInvariant
<1>3. OneCopy(f, h) /\ received' = received
  BY DEF Fail, CopyInvariant
<1> QED  BY <1>1, <1>2, <1>3, FewerCopies

\* The FlowMod of the handshake carries no frame.
LEMMA HandshakeCommands ==
    ASSUME HomeInvariant, NEW s \in Switches, switch_features_handler(s)
    PROVE  /\ DOMAIN commands' = Switches
           /\ \A t \in Switches : \A k \in DOMAIN commands'[t] :
                \/ commands'[t][k].frames = {}
                \/ k \in DOMAIN commands[t] /\ commands'[t][k] = commands[t][k]
<1>1. commands[s] \in Seq(HomeCommand(s)) /\ DOMAIN commands = Switches
  BY DEF HomeInvariant
<1>2. PICK q, S, r : q \in Seq(S) /\ q = commands[s] /\ r = Append(q, TableMiss)
  BY <1>1
<1>3. \A k \in DOMAIN r : r[k] = TableMiss \/ (k \in DOMAIN q /\ r[k] = q[k])
  BY <1>2
<1>4. commands' = commands \/ commands' = [commands EXCEPT ![s] = r]
  BY <1>2 DEF switch_features_handler
<1> QED  BY <1>1, <1>2, <1>3, <1>4 DEF TableMiss

LEMMA HandshakeKeepsOne ==
    ASSUME CopyInvariant, NEW s \in Switches, switch_features_handler(s),
           NEW f \in Frames, NEW h \in Hosts
    PROVE  OneCopy(f, h)'
<1>1. \A t \in Switches, k \in Nat : Carries(t, k, f, h)' => Carries(t, k, f, h)
  BY HandshakeCommands DEF Carries, CopyInvariant, SwitchInvariant
<1>2. wire' = wire /\ packet_ins' = packet_ins /\ received' = received /\ OneCopy(f, h)
  BY DEF switch_features_handler, CopyInvariant
<1>3. OnWire(f, h)' \subseteq OnWire(f, h) /\ AtController(f, h)' \subseteq AtController(f, h)
  BY <1>2 DEF OnWire, AtController
<1> QED  BY <1>1, <1>2, <1>3, FewerCopies

\* A frame not sent yet stays unseen.
LEMMA UnseenStays ==
    ASSUME CopyInvariant, [Next]_vars, NEW f \in unsent'
    PROVE  Unseen(f)'
<1>0. f \in unsent /\ f \in Frames /\ Unseen(f)
  <2>1. unsent' \subseteq unsent
    BY DEF Next, Send, Match, _packet_in_handler, Apply, Fail,
           switch_features_handler, EnterMain, historyVars, vars
  <2> QED  BY <2>1 DEF CopyInvariant, SwitchInvariant, RestOfTypes
<1>1. ASSUME NEW g \in unsent, NEW s \in Switches, NEW p \in DOMAIN HostAt[s], Send(g, s, p)
      PROVE  Unseen(f)'
  <2>1. f # g
    BY <1>1 DEF Send
  <2> QED  BY <1>0, <1>1, <2>1 DEF Send, Unseen
<1>2. ASSUME NEW s, NEW in_port, NEW out, NEW frames, NEW taken,
             Forward(s, in_port, out, frames, taken), f \notin frames
      PROVE  (\A a \in wire' : a.frame # f) /\ \A h \in Hosts : received'[h][f] = 0
  BY <1>0, <1>2 DEF Forward, Unseen, CopyInvariant, SwitchInvariant, RestOfTypes
<1>3. ASSUME NEW a \in wire, Match(a)  PROVE Unseen(f)'
  <2>1. f \notin {a.frame}
    BY <1>0 DEF Unseen
  <2> QED  BY <1>0, <1>2, <1>3, <2>1 DEF Match, Unseen
<1>4. ASSUME NEW a \in packet_ins, NEW buffer_id \in BufferIds, _packet_in_handler(a, buffer_id)
      PROVE  Unseen(f)'
  <2> DEFINE s == a.switch
  <2>1. a.frame # f /\ s \in Switches /\ commands[s] \in Seq(HomeCommand(s)) /\ DOMAIN commands = Switches
    BY <1>0 DEF Unseen, CopyInvariant, SwitchInvariant, HomeInvariant, HomeArrival, Arrival
  <2>2. \A t \in Switches : \A k \in DOMAIN commands'[t] : f \notin commands'[t][k].frames
    <3>1. \A k \in DOMAIN commands'[s] : f \notin commands'[s][k].frames
      <4>1. \A k \in DOMAIN commands'[s] :
                \/ k \in DOMAIN commands[s] /\ commands'[s][k] = commands[s][k]
                \/ commands'[s][k].frames \in {{}, {a.frame}}
        BY <1>4, HandlerCommands
      <4>2. \A k \in DOMAIN commands[s] : f \notin commands[s][k].frames
        BY <1>0, <2>1 DEF Unseen
      <4> QED  BY <2>1, <4>1, <4>2
    <3>2. \A t \in Switches \ {s} : commands'[t] = commands[t]
      BY <1>4, HandlerCommands
    <3> QED  BY <1>0, <3>1, <3>2 DEF Unseen
  <2> QED  BY <1>0, <1>4, <2>2 DEF _packet_in_handler, Unseen
<1>5. ASSUME NEW s \in Switches, Apply(s)  PROVE Unseen(f)'
  <2> DEFINE c == Head(commands[s])
  <2>1. /\ commands[s] \in Seq(HomeCommand(s)) /\ commands[s] # <<>> /\ DOMAIN commands = Switches
        /\ Forward(s, c.in_port, c.out, c.frames, {}) /\ packet_ins' = packet_ins
        /\ commands' = [commands EXCEPT ![s] = Tail(@)]
    BY <1>5 DEF CopyInvariant, SwitchInvariant, HomeInvariant, Apply
  <2>2. f \notin c.frames
    BY <1>0, <2>1 DEF Unseen
  <2>3. \A k \in DOMAIN Tail(commands[s]) : f \notin Tail(commands[s])[k].frames
    <3>1. \A k \in DOMAIN Tail(commands[s]) :
            k + 1 \in DOMAIN commands[s] /\ Tail(commands[s])[k] = commands[s][k + 1]
      BY <2>1
    <3> QED  BY <1>0, <3>1 DEF Unseen
  <2> QED  BY <1>0, <1>2, <2>1, <2>2, <2>3 DEF Unseen
<1>6. ASSUME NEW s \in Switches, Fail(s)  PROVE Unseen(f)'
  BY <1>0, <1>6 DEF Fail, Unseen, CopyInvariant, SwitchInvariant, HomeInvariant
<1>7. ASSUME NEW s \in Switches, switch_features_handler(s)  PROVE Unseen(f)'
  <2>1. \A t \in Switches : \A k \in DOMAIN commands'[t] : f \notin commands'[t][k].frames
    BY <1>0, <1>7, HandshakeCommands DEF Unseen, CopyInvariant, SwitchInvariant
  <2> QED  BY <1>0, <1>7, <2>1 DEF switch_features_handler, Unseen
<1>8. ASSUME NEW s \in Switches, EnterMain(s)  PROVE Unseen(f)'
  BY <1>0, <1>8 DEF EnterMain, Unseen
<1>9. CASE UNCHANGED vars
  BY <1>0, <1>9 DEF vars, Unseen
<1> QED  BY <1>1, <1>3, <1>4, <1>5, <1>6, <1>7, <1>8, <1>9 DEF Next

\* No frame comes back to its sender: none of its copies is ahead.
LEMMA NoneReturns ==
    ASSUME TreeAssumption, CopyInvariant, [Next]_vars, NEW f \in Frames
    PROVE  received'[f.src][f] = 0
<1>1. f.src \in Hosts /\ received \in [Hosts -> [Frames -> Nat]] /\ received[f.src][f] = 0
  BY DEF TreeAssumption, CopyInvariant, SwitchInvariant, RestOfTypes
<1>2. ASSUME NEW a \in wire, Match(a)  PROVE received'[f.src][f] = 0
  <2>1. a.switch \in Switches /\ (f \notin {a.frame} \/ ~Ahead(a.switch, a.port, f.src))
    BY DEF CopyInvariant, SwitchInvariant, HomeInvariant, HomeArrival, Arrival, Ahead
  <2>2. ASSUME NEW r, Forward(a.switch, a.port, r.out, {a.frame}, {a})
        PROVE  received'[f.src][f] = 0
    BY <1>1, <2>1, <2>2, ForwardKeepsOne
  <2> QED  BY <1>1, <1>2, <2>2 DEF Match
<1>3. ASSUME NEW s \in Switches, Apply(s)  PROVE received'[f.src][f] = 0
  <2> DEFINE c == Head(commands[s])
  <2>1. c \in HomeCommand(s) /\ Forward(s, c.in_port, c.out, c.frames, {})
    BY <1>3, QueueOfSet DEF Apply, CopyInvariant, SwitchInvariant, HomeInvariant
  <2>2. f \notin c.frames \/ ~Ahead(s, c.in_port, f.src)
    BY <2>1 DEF HomeCommand, Ahead
  <2> QED  BY <1>1, <2>1, <2>2, ForwardKeepsOne
<1>4. ~(\E a \in wire : Match(a)) /\ ~(\E s \in Switches : Apply(s)) => received' = received
  BY DEF Next, Send, _packet_in_handler, Fail, switch_features_handler, EnterMain, vars
<1> QED  BY <1>1, <1>2, <1>3, <1>4

LEMMA StepKeepsCopies ==
    ASSUME TreeAssumption, CopyInvariant, [Next]_vars
    PROVE  CopyInvariant'
<1>1. SwitchInvariant'
  BY SwitchSound DEF CopyInvariant
<1>2. ASSUME NEW f \in Frames, NEW h \in Hosts  PROVE OneCopy(f, h)'
  <2>1. ASSUME wire' = wire, packet_ins' = packet_ins, commands' = commands, received' = received
        PROVE  OneCopy(f, h)'
    BY <2>1 DEF CopyInvariant, OneCopy, OnWire, AtController, NotCommanded, Carries
  <2>2. ASSUME NEW s \in Switches, EnterMain(s)  PROVE OneCopy(f, h)'
    BY <2>1, <2>2 DEF EnterMain
  <2>3. CASE UNCHANGED vars
    BY <2>1, <2>3 DEF vars
  <2> QED
    BY <2>2, <2>3, SendKeepsOne, MatchKeepsOne, HandlerKeepsOne, ApplyKeepsOne, FailKeepsOne,
       HandshakeKeepsOne DEF Next
<1> QED  BY <1>1, <1>2, UnseenStays, NoneReturns DEF CopyInvariant

\* No host receives a frame twice, nor its own, on any tree, for any mix of
\* floods, rules, buffered frames, late answers and failures.
THEOREM FramesComeOnce ==
    ASSUME TreeAssumption
    PROVE  Spec => []DeliveredOnce
<1>1. Init => CopyInvariant
  <2> SUFFICES ASSUME Init  PROVE CopyInvariant
    OBVIOUS
  <2>1. SwitchInvariant /\ unsent \subseteq Frames
    BY SwitchSound, TreeAssumption DEF SwitchInvariant, RestOfTypes
  <2>2. \A f \in Frames : Unseen(f) /\ received[f.src][f] = 0
    BY TreeAssumption DEF Init, Unseen, TreeAssumption
  <2>3. \A f \in Frames, h \in Hosts : OneCopy(f, h)
    BY DEF Init, OneCopy, OnWire, AtController, NotCommanded, Carries
  <2> QED  BY <2>1, <2>2, <2>3 DEF CopyInvariant
<1>2. CopyInvariant /\ [Next]_vars => CopyInvariant'
  BY TreeAssumption, StepKeepsCopies
<1>3. CopyInvariant => DeliveredOnce
  BY DEF CopyInvariant, OneCopy, DeliveredOnce
<1> QED  BY <1>1, <1>2, <1>3, PTL DEF Spec

-----------------------------------------------------------------------------
\* The way on.  A copy ahead of h meets a flood, or the rule that leads to h.

LEMMA ForwardBrings ==
    ASSUME TreeAssumption, NEW s \in Switches, NEW in_port, NEW out, NEW frames, NEW taken,
           Forward(s, in_port, out, frames, taken), received \in [Hosts -> [Frames -> Nat]],
           NEW h \in Hosts, NEW f \in Frames, f \in frames, Ahead(s, in_port, h),
           out = Flood \/ out = Toward[s][h]
    PROVE  \/ received'[h][f] > 0
           \/ \E a \in wire' : a.frame = f /\ Ahead(a.switch, a.port, h)
<1> DEFINE p == Toward[s][h]
<1>1. p \in OutPorts(s, in_port, out)
  BY DEF TreeAssumption, OutPorts, Ahead
<1>2. CASE p \in DOMAIN HostAt[s]
  <2>1. HostAt[s][p] = h
    BY <1>2 DEF TreeAssumption
  <2>2. h \in {HostAt[s][q] : q \in OutPorts(s, in_port, out) \cap DOMAIN HostAt[s]}
    BY <1>1, <1>2, <2>1
  <2>3. received'[h][f] = received[h][f] + 1
    BY <2>2 DEF Forward
  <2> QED  BY <2>3
<1>3. CASE p \in DOMAIN Cables[s]
  <2> DEFINE a == [switch |-> Cables[s][p].switch, port |-> Cables[s][p].port, frame |-> f]
  <2>1. a \in wire'
    BY <1>1, <1>3 DEF Forward
  <2>2. Cables[s][p].port # Toward[Cables[s][p].switch][h]
    BY <1>3 DEF TreeAssumption
  <2> QED  BY <2>1, <2>2 DEF Ahead
<1> QED  BY <1>2, <1>3 DEF TreeAssumption, Ports

\* What Forward does not take stays, and what is received stays received.
LEMMA ForwardLeaves ==
    ASSUME NEW s, NEW in_port, NEW out, NEW frames, NEW taken,
           Forward(s, in_port, out, frames, taken), received \in [Hosts -> [Frames -> Nat]]
    PROVE  /\ wire \ taken \subseteq wire'
           /\ \A h \in Hosts, f \in Frames : received[h][f] > 0 => received'[h][f] > 0
BY DEF Forward

\* The answers to an arrival come behind the commands there are, and the last of
\* them carries the frame, if that is due.
LEMMA HandlerSends ==
    ASSUME HomeInvariant, NEW a \in packet_ins, NEW buffer_id \in BufferIds,
           _packet_in_handler(a, buffer_id)
    PROVE  /\ \A t \in Switches : \A k \in DOMAIN commands[t] :
                k \in DOMAIN commands'[t] /\ commands'[t][k] = commands[t][k]
           /\ dispatcher[a.switch] = "main" /\ a.frame \in due' =>
                \E k \in DOMAIN commands'[a.switch] :
                    /\ commands'[a.switch][k].frames = {a.frame}
                    /\ commands'[a.switch][k].in_port = a.port
<1> DEFINE s == a.switch
<1>1. s \in Switches /\ commands[s] \in Seq(HomeCommand(s)) /\ DOMAIN commands = Switches
  BY DEF HomeInvariant, HomeArrival, Arrival
<1>2. CASE dispatcher[s] # "main" /\ commands' = commands
  BY <1>2
<1>3. ASSUME NEW out, commands' = [commands EXCEPT ![s] = @ \o Answers(a, out, buffer_id)],
             a.frame \in due' => out = Flood \/ buffer_id # 0
      PROVE  /\ \A t \in Switches : \A k \in DOMAIN commands[t] :
                  k \in DOMAIN commands'[t] /\ commands'[t][k] = commands[t][k]
             /\ a.frame \in due' => \E k \in DOMAIN commands'[s] :
                  commands'[s][k].frames = {a.frame} /\ commands'[s][k].in_port = a.port
  <2>1. PICK q, S, r : /\ q \in Seq(S) /\ q = commands[s] /\ r = commands'[s]
                       /\ r = q \o Answers(a, out, buffer_id)
    BY <1>1, <1>3
  <2>2. /\ \A k \in DOMAIN q : k \in DOMAIN r /\ r[k] = q[k]
        /\ a.frame \in due' => \E k \in DOMAIN r :
                r[k].frames = {a.frame} /\ r[k].in_port = a.port
    <3>1. CASE out = Flood \/ buffer_id # NoBuffer
      <4>1. PICK e : /\ Answers(a, out, buffer_id) = <<e>> /\ e.in_port = a.port
                     /\ out = Flood \/ buffer_id \notin {NoBuffer, 0} => e.frames = {a.frame}
        BY <3>1 DEF Answers, FlowMod, PacketOut
      <4>2. r = q \o <<e>> /\ q \in Seq(S)
        BY <2>1, <4>1
      <4>3. /\ \A k \in DOMAIN q : k \in DOMAIN r /\ r[k] = q[k]
            /\ Len(q) + 1 \in DOMAIN r /\ r[Len(q) + 1] = e
        BY <4>2
      <4>4. a.frame \in due' => e.frames = {a.frame}
        BY <1>3, <3>1, <4>1
      <4> QED  BY <4>1, <4>3, <4>4
    <3>2. CASE out # Flood /\ buffer_id = NoBuffer
      <4>1. PICK d, e : /\ Answers(a, out, buffer_id) = <<d, e>>
                        /\ e.frames = {a.frame} /\ e.in_port = a.port
        BY <3>2 DEF Answers, FlowMod, PacketOut
      <4>2. r = q \o <<d, e>> /\ q \in Seq(S)
        BY <2>1, <4>1
      <4>3. /\ \A k \in DOMAIN q : k \in DOMAIN r /\ r[k] = q[k]
            /\ Len(q) + 2 \in DOMAIN r /\ r[Len(q) + 2] = e
        BY <4>2
      <4> QED  BY <4>1, <4>3
    <3> QED  BY <3>1, <3>2
  <2>3. \A t \in Switches \ {s} : commands'[t] = commands[t]
    BY <1>1, <1>3
  <2> QED  BY <2>1, <2>2, <2>3
<1> QED  BY <1>2, <1>3, HandlerAnswers

-----------------------------------------------------------------------------
\* No addressee is forgotten.
Pending(f, h) == received[h][f] > 0 \/ OnItsWay(f, h)

Arriving(a, f, h) == a \in wire \cup packet_ins /\ a.frame = f /\ Ahead(a.switch, a.port, h)
Commanded(s, k, f, h) ==
    /\ s \in Switches /\ k \in DOMAIN commands[s]
    /\ f \in commands[s][k].frames /\ Ahead(s, commands[s][k].in_port, h)

LEMMA PendingCases ==
    ASSUME NEW f, NEW h
    PROVE  /\ Pending(f, h) <=> \/ received[h][f] > 0
                               \/ \E a : Arriving(a, f, h)
                               \/ \E s, k : Commanded(s, k, f, h)
           /\ Pending(f, h)' <=> \/ received'[h][f] > 0
                                \/ \E a : Arriving(a, f, h)'
                                \/ \E s, k : Commanded(s, k, f, h)'
BY DEF Pending, OnItsWay, Arriving, Commanded

\* Whom a rule or an answer with a known port serves is the one addressee.
LEMMA OneAddressee ==
    ASSUME TreeAssumption, NEW f, f.dst \in Hosts, NEW h \in Addressees(f)
    PROVE  h = f.dst
BY DEF TreeAssumption, Addressees

LEMMA SentIsPending ==
    ASSUME TreeAssumption, NEW f \in Frames, NEW s \in Switches, NEW p \in DOMAIN HostAt[s],
           Send(f, s, p), NEW h \in Addressees(f)
    PROVE  Pending(f, h)'
<1> DEFINE a == [switch |-> s, port |-> p, frame |-> f]
<1>1. h \in Hosts /\ h # f.src
  BY DEF Addressees
<1>2. HostAt[s][p] = f.src /\ a \in wire'
  BY DEF Send
<1>3. Ahead(s, p, h)
  BY <1>1, <1>2 DEF Ahead, TreeAssumption
<1>4. Arriving(a, f, h)'
  BY <1>2, <1>3 DEF Arriving, Ahead
<1> QED  BY <1>4, PendingCases

LEMMA MatchKeepsPending ==
    ASSUME TreeAssumption, SwitchInvariant, miss_rules = Switches,
           NEW f \in Frames, NEW h \in Addressees(f), Pending(f, h), NEW a \in wire, Match(a)
    PROVE  Pending(f, h)'
<1>1. h \in Hosts /\ received \in [Hosts -> [Frames -> Nat]] /\ HomeArrival(a) /\ a.switch \in Switches
  BY DEF Addressees, SwitchInvariant, RestOfTypes, HomeInvariant, HomeArrival, Arrival
<1>2. \/ \E r \in Matching(a) : Forward(a.switch, a.port, r.out, {a.frame}, {a})
      \/ wire' = wire \ {a} /\ packet_ins' = packet_ins \cup {a} /\ received' = received
  BY <1>1 DEF Match
<1>3. wire \ {a} \subseteq wire' /\ packet_ins \subseteq packet_ins' /\ commands' = commands
      /\ (received[h][f] > 0 => received'[h][f] > 0)
  BY <1>1, <1>2, ForwardLeaves DEF Match
<1>4. ASSUME Arriving(a, f, h), NEW r \in Matching(a),
             Forward(a.switch, a.port, r.out, {a.frame}, {a})
      PROVE  Pending(f, h)'
  <2>1. r \in HomeRule(a.switch) /\ r.dst = f.dst
    BY <1>1, <1>4 DEF Matching, SwitchInvariant, HomeInvariant, Arriving
  <2>2. r.dst \in Hosts /\ r.out = Toward[a.switch][r.dst]
    BY <2>1 DEF HomeRule
  <2>3. r.out = Toward[a.switch][h]
    BY <2>1, <2>2, OneAddressee
  <2>4. received'[h][f] > 0 \/ \E b \in wire' : b.frame = f /\ Ahead(b.switch, b.port, h)
    BY <1>1, <1>4, <2>3, ForwardBrings DEF Arriving
  <2>5. ASSUME NEW b \in wire', b.frame = f, Ahead(b.switch, b.port, h)
        PROVE  Arriving(b, f, h)'
    BY <2>5 DEF Arriving, Ahead
  <2> QED  BY <2>4, <2>5, PendingCases
<1>5. ASSUME NEW b, Arriving(b, f, h), b # a \/ b \in packet_ins  PROVE Pending(f, h)'
  <2>1. Arriving(b, f, h)'
    BY <1>3, <1>5 DEF Arriving, Ahead
  <2> QED  BY <2>1, PendingCases
<1>6. CASE Arriving(a, f, h) /\ a \in packet_ins'
  <2>1. Arriving(a, f, h)'
    BY <1>6 DEF Arriving, Ahead
  <2> QED  BY <2>1, PendingCases
<1>7. ASSUME NEW s, NEW k, Commanded(s, k, f, h)  PROVE Pending(f, h)'
  <2>1. Commanded(s, k, f, h)'
    BY <1>3, <1>7 DEF Commanded, Ahead
  <2> QED  BY <2>1, PendingCases
<1>8. ASSUME received[h][f] > 0  PROVE Pending(f, h)'
  BY <1>3, <1>8, PendingCases
<1>9. Arriving(a, f, h) => Pending(f, h)'
  BY <1>2, <1>4, <1>6
<1> QED  BY <1>5, <1>7, <1>8, <1>9, PendingCases

LEMMA ApplyKeepsPending ==
    ASSUME TreeAssumption, SwitchInvariant, NEW f \in Frames, NEW h \in Addressees(f),
           Pending(f, h), NEW s \in Switches, Apply(s)
    PROVE  Pending(f, h)'
<1> DEFINE c == Head(commands[s])
<1>1. /\ h \in Hosts /\ received \in [Hosts -> [Frames -> Nat]]
      /\ DOMAIN commands = Switches /\ commands[s] \in Seq(HomeCommand(s)) /\ commands[s] # <<>>
  BY DEF Addressees, SwitchInvariant, RestOfTypes, HomeInvariant, Apply
<1>2. /\ Forward(s, c.in_port, c.out, c.frames, {}) /\ packet_ins' = packet_ins
      /\ commands' = [commands EXCEPT ![s] = Tail(@)]
  BY DEF Apply
<1>3. wire \subseteq wire' /\ (received[h][f] > 0 => received'[h][f] > 0)
  BY <1>1, <1>2, ForwardLeaves
<1>4. c \in HomeCommand(s) /\ c = commands[s][1]
  BY <1>1
<1>5. ASSUME NEW k \in DOMAIN commands[s], k # 1
      PROVE  k - 1 \in DOMAIN Tail(commands[s]) /\ Tail(commands[s])[k - 1] = commands[s][k]
  BY <1>1, <1>5
<1> HIDE DEF c
<1>6. ASSUME Commanded(s, 1, f, h)  PROVE Pending(f, h)'
  <2>1. f \in c.frames /\ Ahead(s, c.in_port, h)
    BY <1>4, <1>6 DEF Commanded
  <2>2. c.out = Flood \/ (f.dst \in Hosts /\ c.out = Toward[s][f.dst])
    BY <1>4, <2>1 DEF HomeCommand
  <2>3. c.out = Flood \/ c.out = Toward[s][h]
    BY <2>2, OneAddressee
  <2>4. received'[h][f] > 0 \/ \E b \in wire' : b.frame = f /\ Ahead(b.switch, b.port, h)
    <3>1. h \in Hosts /\ received \in [Hosts -> [Frames -> Nat]]
      BY <1>1
    <3>2. Forward(s, c.in_port, c.out, c.frames, {})
      BY <1>2
    <3> QED  BY <2>1, <2>3, <3>1, <3>2, ForwardBrings
  <2>5. ASSUME NEW b \in wire', b.frame = f, Ahead(b.switch, b.port, h)
        PROVE  Arriving(b, f, h)'
    BY <2>5 DEF Arriving, Ahead
  <2> QED  BY <2>4, <2>5, PendingCases
<1>7. ASSUME NEW k, Commanded(s, k, f, h), k # 1  PROVE Pending(f, h)'
  <2>1. commands'[s] = Tail(commands[s])
    BY <1>1, <1>2
  <2>2. Commanded(s, k - 1, f, h)'
    BY <1>5, <1>7, <2>1 DEF Commanded, Ahead
  <2> QED  BY <2>2, PendingCases
<1>8. ASSUME NEW t, NEW k, Commanded(t, k, f, h), t # s  PROVE Pending(f, h)'
  <2>1. Commanded(t, k, f, h)'
    BY <1>1, <1>2, <1>8 DEF Commanded, Ahead
  <2> QED  BY <2>1, PendingCases
<1>9. ASSUME NEW a, Arriving(a, f, h)  PROVE Pending(f, h)'
  <2>1. Arriving(a, f, h)'
    BY <1>2, <1>3, <1>9 DEF Arriving, Ahead
  <2> QED  BY <2>1, PendingCases
<1>10. ASSUME received[h][f] > 0  PROVE Pending(f, h)'
  BY <1>3, <1>10, PendingCases
<1> QED  BY <1>6, <1>7, <1>8, <1>9, <1>10, PendingCases

LEMMA HandlerKeepsPending ==
    ASSUME SwitchInvariant, Ready, NEW f \in due', NEW h \in Hosts, Pending(f, h),
           NEW a \in packet_ins, NEW buffer_id \in BufferIds, _packet_in_handler(a, buffer_id)
    PROVE  Pending(f, h)'
<1>1. wire' = wire /\ packet_ins' = packet_ins \ {a} /\ received' = received
  BY DEF _packet_in_handler
<1>2. HomeInvariant /\ a.switch \in Switches
  BY DEF SwitchInvariant, HomeInvariant, HomeArrival, Arrival
<1>3. ASSUME NEW s, NEW k, Commanded(s, k, f, h)  PROVE Pending(f, h)'
  <2>1. Commanded(s, k, f, h)'
    BY <1>2, <1>3, HandlerSends DEF Commanded, Ahead
  <2> QED  BY <2>1, PendingCases
<1>4. ASSUME Arriving(a, f, h)  PROVE Pending(f, h)'
  <2>1. PICK k \in DOMAIN commands'[a.switch] :
            /\ commands'[a.switch][k].frames = {a.frame}
            /\ commands'[a.switch][k].in_port = a.port
    BY <1>2, <1>4, HandlerSends DEF Arriving, Ready
  <2>2. Commanded(a.switch, k, f, h)'
    BY <1>2, <1>4, <2>1 DEF Arriving, Commanded, Ahead
  <2> QED  BY <2>2, PendingCases
<1>5. ASSUME NEW b, Arriving(b, f, h), b # a  PROVE Pending(f, h)'
  <2>1. Arriving(b, f, h)'
    BY <1>1, <1>5 DEF Arriving, Ahead
  <2> QED  BY <2>1, PendingCases
<1> QED  BY <1>1, <1>3, <1>4, <1>5, PendingCases

\* due is emptied by a failure, and filled only while the network is ready.
DueWhileReady == due # {} => Ready

LEMMA StepKeepsPending ==
    ASSUME TreeAssumption, MissRule, SwitchInvariant, DueWhileReady, NothingStranded,
           [Next]_vars
    PROVE  DueWhileReady' /\ NothingStranded'
<1>1. ASSUME NEW f \in unsent, NEW s \in Switches, NEW p \in DOMAIN HostAt[s], Send(f, s, p)
      PROVE  DueWhileReady' /\ NothingStranded'
  <2>1. DueWhileReady'
    BY <1>1 DEF Send, DueWhileReady, Ready, controllerVars, tableVars
  <2>2. f \in Frames
    BY DEF SwitchInvariant, RestOfTypes
  <2>3. ASSUME NEW g, NEW h, Pending(g, h)  PROVE Pending(g, h)'
    BY <1>1, <2>3 DEF Send, Pending, OnItsWay, Ahead
  <2>4. \A g \in due' : g \in due \/ g = f
    BY <1>1 DEF Send
  <2>5. \A g \in due' : \A h \in Addressees(g) : Pending(g, h)'
    BY <1>1, <2>2, <2>3, <2>4, SentIsPending DEF NothingStranded, Pending
  <2> QED  BY <2>1, <2>5 DEF NothingStranded, Pending, Addressees
<1>2. ASSUME due' \subseteq due, Ready => Ready',
             due # {} => \A f \in due' : \A h \in Addressees(f) : Pending(f, h)'
      PROVE  DueWhileReady' /\ NothingStranded'
  BY <1>2 DEF DueWhileReady, NothingStranded, Pending, Addressees
<1>3. \A f \in due : f \in Frames /\ \A h \in Addressees(f) : h \in Hosts /\ Pending(f, h)
  BY DEF SwitchInvariant, RestOfTypes, NothingStranded, Pending, Addressees
<1>4. ASSUME NEW a \in wire, Match(a)  PROVE DueWhileReady' /\ NothingStranded'
  <2>1. due' = due /\ (Ready => Ready')
    BY <1>4 DEF Match, Ready, controllerVars, tableVars, historyVars
  <2>2. due # {} => \A f \in due' : \A h \in Addressees(f) : Pending(f, h)'
    BY <1>3, <1>4, <2>1, MatchKeepsPending, MissRule DEF DueWhileReady, Ready
  <2> QED  BY <1>2, <2>1, <2>2
<1>5. ASSUME NEW a \in packet_ins, NEW buffer_id \in BufferIds, _packet_in_handler(a, buffer_id)
      PROVE  DueWhileReady' /\ NothingStranded'
  <2>1. due' \subseteq due
    BY <1>5 DEF _packet_in_handler
  <2>2. Ready => Ready'
    <3>1. tableVars' = tableVars /\ dispatcher' = dispatcher
      BY <1>5 DEF _packet_in_handler
    <3> QED  BY <3>1 DEF tableVars, Ready
  <2>3. due # {} => \A f \in due' : \A h \in Addressees(f) : Pending(f, h)'
    BY <1>3, <1>5, <2>1, HandlerKeepsPending DEF DueWhileReady
  <2> QED  BY <1>2, <2>1, <2>2, <2>3
<1>6. ASSUME NEW s \in Switches, Apply(s)  PROVE DueWhileReady' /\ NothingStranded'
  <2>1. due' = due /\ (Ready => Ready')
    <3>1. due' = due /\ dispatcher' = dispatcher /\ miss_rules \subseteq miss_rules'
      BY <1>6 DEF Apply, controllerVars, historyVars
    <3>2. miss_rules' \subseteq Switches
      BY <1>6 DEF Apply, SwitchInvariant, RestOfTypes
    <3> QED  BY <3>1, <3>2 DEF Ready
  <2>2. \A f \in due' : \A h \in Addressees(f) : Pending(f, h)'
    BY <1>3, <1>6, <2>1, ApplyKeepsPending
  <2> QED  BY <1>2, <2>1, <2>2
<1>7. ASSUME NEW s \in Switches, Fail(s)  PROVE DueWhileReady' /\ NothingStranded'
  BY <1>7 DEF Fail, DueWhileReady, NothingStranded
<1>8. ASSUME NEW s \in Switches, switch_features_handler(s) \/ EnterMain(s)
      PROVE  DueWhileReady' /\ NothingStranded'
  <2>1. due = {}
    BY <1>8 DEF switch_features_handler, EnterMain, DueWhileReady, Ready
  <2>2. due' = due
    BY <1>8 DEF switch_features_handler, EnterMain, historyVars
  <2> QED  BY <2>1, <2>2 DEF DueWhileReady, NothingStranded
<1>9. CASE UNCHANGED vars
  <2>1. due' = due /\ (Ready => Ready')
    BY <1>9 DEF vars, controllerVars, tableVars, historyVars, Ready
  <2>2. \A f \in due : \A h \in Addressees(f) : Pending(f, h)'
    BY <1>3, <1>9 DEF vars, Pending, OnItsWay, Ahead
  <2> QED  BY <1>2, <2>1, <2>2
<1> QED  BY <1>1, <1>4, <1>5, <1>6, <1>7, <1>8, <1>9 DEF Next

\* With the table-miss rule no frame is lost between switches, controller and
\* answers, on any tree and for any buffer ids: until a switch fails, every addressee
\* of a frame sent when all handshakes were through has it, or a copy is on the way
\* to it, unless the frame sat in buffer 0 when its port was known.
THEOREM NoFrameIsStranded ==
    ASSUME TreeAssumption, MissRule
    PROVE  Spec => []NothingStranded
<1>1. Init => DueWhileReady /\ NothingStranded
  BY DEF Init, DueWhileReady, NothingStranded
<1>2. SwitchInvariant /\ DueWhileReady /\ NothingStranded /\ [Next]_vars
        => DueWhileReady' /\ NothingStranded'
  BY TreeAssumption, MissRule, StepKeepsPending
<1> QED  BY <1>1, <1>2, SwitchSound, TreeAssumption, PTL DEF Spec
=============================================================================
