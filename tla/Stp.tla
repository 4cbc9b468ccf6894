-------------------------------- MODULE Stp --------------------------------
(***************************************************************************)
(* The spanning tree protocol of 06-stp.  Each switch holds stp->lock      *)
(* while it handles a packet and while its timer thread looks at the       *)
(* timers, so that both are one action.  Links are point to point and keep *)
(* the order of packets; a packet to a switch whose program has not been   *)
(* started is lost.                                                        *)
(*                                                                         *)
(* The port of s on the link to n is <<s, n>> and its port_id is n; a      *)
(* switch is its switch_id.                                                *)
(***************************************************************************)
EXTENDS Naturals, Sequences, FiniteSets

CONSTANTS
  Switch,            \* the switches, natural numbers ordered as switch_id is
  Topology,          \* sets of links (two-element sets of switches) to choose from
  Lab,               \* those of them the lab is run on (four_node_ring.py)
  NoPort,            \* root_port == NULL
  MaxHellos,         \* bound: no hello to a switch with so many packets on the way back
  CostSurvives       \* does ntohll keep a u32 (built with -O0), or is it 0?

ASSUME SwitchAssumption ==
  Switch \subseteq Nat /\ IsFiniteSet(Switch) /\ NoPort \notin Switch
ASSUME TopologyAssumption ==
  \A t \in Topology : \A l \in t : l \subseteq Switch /\ Cardinality(l) = 2

ASSUME LabAssumption == Lab \subseteq Topology

VARIABLES
  links,   \* the topology, which does not change
  up,      \* the switches that have been started
  sw,      \* [root, cost, root_port, hello]: designated_root, root_path_cost,
           \* root_port and hello_timer.active of each switch
  port,    \* [root, cost, switch, port]: what each port has designated
  net      \* configs on their way out of each port
vars == <<links, up, sw, port, net>>

Peer(s) == {n \in Switch : {s, n} \in links}
PortId == {p \in Switch \X Switch : {p[1], p[2]} \in links}
Config == [root : Switch, cost : Nat, switch : Switch, port : Switch]

\* packet2port_config_priority and port2port_config_priority: v is better than w
Better(v, w) ==
  \/ v.root < w.root
  \/ /\ v.root = w.root
     /\ \/ v.cost < w.cost
        \/ /\ v.cost = w.cost
           /\ \/ v.switch < w.switch
              \/ v.switch = w.switch /\ v.port < w.port

IsRoot(s) == sw[s].root = s
Own(s, n, root, cost) == [root |-> root, cost |-> cost, switch |-> s, port |-> n]
Designated(s, n, p) == p.switch = s /\ p.port = n

\* what s may say: nothing if it is not the root and knows no way to it
MaySend(s, st) == st.root = s \/ st.root_port # NoPort

\* iface_send_packet; nobody reads the link to a switch that is not up
Transmit(p, c, q) == IF p[2] \in up THEN Append(q, c) ELSE q

\* stp_port_send_config on the ports of s to the switches in N
Sent(s, st, N, q) ==
  [p \in PortId |->
     IF p[1] = s /\ p[2] \in N /\ MaySend(s, st)
     THEN Transmit(p, Own(s, p[2], st.root, st.cost), q[p]) ELSE q[p]]

\* mutant: the cost is lost in the conversion, as in a build with -O2
MutReadCost(cost) == 0
ReadCost(cost) == IF CostSurvives THEN cost ELSE 0

\* ustack_run finds a packet on the port to n
Arrived(s, n) == s \in up /\ net[<<n, s>>] # <<>>
Taken(s, n) == [net EXCEPT ![<<n, s>>] = Tail(@)]

\* stp_stop_timer when the switch no longer is the root; nothing starts it again
KeepsHello(s, root) == sw[s].hello /\ ~(IsRoot(s) /\ root # s)

(***************************************************************************)
(* stp_handle_config_packet, a config better than what the port has.       *)
(* There is always a port that is not designated, the one just written, so *)
(* that the branch for root_p == NULL cannot be reached.  A port that is   *)
(* not designated is taken over if its cost is above that of the switch:   *)
(* only the costs are compared, not the roots.                             *)
(***************************************************************************)
RootPort(s, heard) ==
  CHOOSE m \in Peer(s) :
    /\ ~Designated(s, m, heard[m])
    /\ \A k \in Peer(s) \ {m} :
         ~Designated(s, k, heard[k]) => ~Better(heard[k], heard[m])

Reclaimed(s, m, p, cost) == Designated(s, m, p) \/ p.cost > cost

\* the ports of s when the one to n has taken the config c
Heard(s, n, c) ==
  [m \in Peer(s) |-> IF m = n THEN [c EXCEPT !.cost = ReadCost(@)] ELSE port[<<s, m>>]]

HandleSuperior(s, n, c) ==
  LET heard == Heard(s, n, c)
      r     == RootPort(s, heard)
      root  == heard[r].root
      cost  == heard[r].cost + 1
      mine  == {m \in Peer(s) : Reclaimed(s, m, heard[m], cost)}
      st    == [root |-> root, cost |-> cost, root_port |-> r,
                hello |-> KeepsHello(s, root)]
  IN /\ sw' = [sw EXCEPT ![s] = st]
     /\ port' = [p \in PortId |->
                   IF p[1] # s THEN port[p]
                   ELSE IF p[2] \in mine THEN Own(s, p[2], root, cost) ELSE heard[p[2]]]
     /\ net' = Sent(s, st, mine, Taken(s, n))

\* mutant: a worse config is believed
MutHandleInferior(s, n) ==
  /\ port' = [port EXCEPT ![<<s, n>>] = Head(net[<<n, s>>])]
  /\ net' = Taken(s, n)
  /\ UNCHANGED sw

\* mutant: a worse config is not answered
MutSilent(s, n) ==
  /\ port' = [port EXCEPT ![<<s, n>>] = Own(s, n, sw[s].root, sw[s].cost)]
  /\ net' = Taken(s, n)
  /\ UNCHANGED sw

\* a worse one: the port is designated again, and says so
HandleInferior(s, n) ==
  /\ port' = [port EXCEPT ![<<s, n>>] = Own(s, n, sw[s].root, sw[s].cost)]
  /\ net' = Sent(s, sw[s], {n}, Taken(s, n))
  /\ UNCHANGED sw

\* stp_port_handle_packet for the next packet from n
HandlePacket(s, n) ==
  /\ Arrived(s, n)
  /\ LET c == Head(net[<<n, s>>])
     IN \/ Better(c, port[<<s, n>>]) /\ HandleSuperior(s, n, c)
        \/ Better(port[<<s, n>>], c) /\ HandleInferior(s, n)
        \/ c = port[<<s, n>>] /\ net' = Taken(s, n) /\ UNCHANGED <<sw, port>>
  /\ UNCHANGED <<links, up>>

\* stp_check_timer
HelloDue(s) == s \in up /\ sw[s].hello

\* stp_handle_hello_timeout: once every STP_HELLO_TIME while the timer is active
HelloTimeout(s) ==
  /\ HelloDue(s)
  /\ \A n \in Peer(s) : net[<<s, n>>] = <<>> /\ Len(net[<<n, s>>]) < MaxHellos
  /\ net' = Sent(s, sw[s], {n \in Peer(s) : Designated(s, n, port[<<s, n>>])}, net)
  /\ UNCHANGED <<links, up, sw, port>>

\* the program of s is started: ustack_init with stp_init
Start(s) ==
  /\ s \notin up /\ up' = up \cup {s}
  /\ UNCHANGED <<links, sw, port, net>>

Init ==
  /\ links \in Topology
  /\ up = {}
  /\ sw = [s \in Switch |-> [root |-> s, cost |-> 0, root_port |-> NoPort, hello |-> TRUE]]
  /\ port = [p \in PortId |-> Own(p[1], p[2], p[1], 0)]
  /\ net = [p \in PortId |-> <<>>]

Next ==
  \E s \in Switch :
    \/ Start(s)
    \/ HelloTimeout(s)
    \/ \E n \in Peer(s) : HandlePacket(s, n)

Spec == Init /\ [][Next]_vars

Fairness ==
  /\ \A s \in Switch : WF_vars(Start(s)) /\ SF_vars(HelloTimeout(s))
  /\ \A s, n \in Switch : WF_vars(n \in Peer(s) /\ HandlePacket(s, n))
FairSpec == Spec /\ Fairness
-----------------------------------------------------------------------------
TypeOK ==
  /\ links \in Topology
  /\ up \subseteq Switch
  /\ sw \in [Switch -> [root : Switch, cost : Nat, root_port : Switch \cup {NoPort}, hello : BOOLEAN]]
  /\ port \in [PortId -> Config]
  /\ net \in [PortId -> Seq(Config)]

\* a way from s to t over d of the links in L
Walk(L, s, t, d) ==
  \E w \in [0..d -> Switch] :
    w[0] = s /\ w[d] = t /\ \A i \in 0..d - 1 : {w[i], w[i + 1]} \in L

\* the number of links between two switches, for each topology
Hops ==
  [L \in Topology |->
     [p \in Switch \X Switch |->
        CHOOSE d \in 0..Cardinality(Switch) :
          Walk(L, p[1], p[2], d) /\ \A e \in 0..d - 1 : ~Walk(L, p[1], p[2], e)]]
Distance(s, t) == Hops[links][<<s, t>>]

(***************************************************************************)
(* No switch, no port and no packet on its way names a root nearer than    *)
(* it really is, whatever old packets arrive.                              *)
(***************************************************************************)
CostsAreReal ==
  /\ TypeOK
  /\ \A s \in Switch : sw[s].cost >= Distance(s, sw[s].root)
  /\ \A p \in PortId : /\ port[p].cost >= Distance(port[p].switch, port[p].root)
                       /\ \A i \in 1..Len(net[p]) :
                            net[p][i].cost >= Distance(p[1], net[p][i].root)

(***************************************************************************)
(* The switch behind the root port of another knows a better root or a     *)
(* shorter way to the same one.  So the root ports never form a cycle, not *)
(* even while old and new roots are spreading.                             *)
(***************************************************************************)
RootPortLeadsCloser ==
  \A s \in Switch :
    sw[s].root_port # NoPort =>
      LET n == sw[s].root_port
      IN \/ sw[n].root < sw[s].root
         \/ sw[n].root = sw[s].root /\ sw[n].cost < sw[s].cost

\* a switch no longer takes what it takes for the root back for a worse one
RootOnlyImproves == [][\A s \in Switch : sw'[s].root <= sw[s].root]_vars

\* all agree on the switch with the least switch_id and on the distances to it
Agreed ==
  LET r == CHOOSE s \in Switch : \A t \in Switch : s <= t
  IN \A s \in Switch : sw[s].root = r /\ sw[s].cost = Distance(s, r)

\* the links both ends of which are a root port or a designated port
Active == {l \in links : \A s \in l : LET n == CHOOSE n \in l : n # s
                                     IN sw[s].root_port = n \/ Designated(s, n, port[<<s, n>>])}

(***************************************************************************)
(* A port of s keeps what it was told of a root that s has given up for a  *)
(* better one, and is not taken over because its cost is not above that of *)
(* s: s does not pass the better root on to that side.                     *)
(***************************************************************************)
Shadowed(s, n) ==
  ~Designated(s, n, port[<<s, n>>]) /\ port[<<s, n>>].root > sw[s].root

SpanningTree == Agreed /\ Cardinality(Active) = Cardinality(Switch) - 1

(***************************************************************************)
(* Whatever order the programs are started in and the configs arrive in,   *)
(* in the end there is one root for good, all know their distance to it,   *)
(* and the active links form a spanning tree: always on the topology of    *)
(* the lab, and on others unless a port is left shadowed.                  *)
(***************************************************************************)
Converges ==
  <>[](\/ SpanningTree
       \/ links \notin Lab /\ \E p \in PortId : Shadowed(p[1], p[2]))
=============================================================================
