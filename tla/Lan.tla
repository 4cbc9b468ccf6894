-------------------------------- MODULE Lan --------------------------------
(***************************************************************************)
(* The hub of 04-broadcast and the learning switch of 05-switching, in the *)
(* networks of their topology scripts.  A bridge handles one frame at a    *)
(* time; mac_port_map.lock is taken anew for each access, but what the     *)
(* sweeping thread does in between touches other entries.  Links keep      *)
(* frames in order and lose none; a station may be plugged in elsewhere.   *)
(***************************************************************************)
EXTENDS Naturals, Sequences, FiniteSets

CONSTANTS
  Topology,  \* records [kind of each bridge, ports: a bridge and a number, trunk: the linked
             \* ports, at: of the hosts, sends and moves: bounds on the frames and on the
             \* stations that move]
  All,       \* the broadcast address
  None,      \* no entry
  Timeout,   \* MAC_PORT_TIMEOUT, 30 seconds in the code
  MaxSend    \* bound on the frames that are sent

\* a cable has two ends, and a port one cable
ASSUME TopologyAssumption == \A t \in Topology :
  /\ t.ports \subseteq (DOMAIN t.kind) \X Nat
  /\ \A l, m \in t.trunk : l # m => l \cap m = {}
  /\ t.at \in [DOMAIN t.at -> t.ports]
  /\ t.sends \in 0..MaxSend
  /\ All \notin DOMAIN t.at
  /\ None \notin [iface : t.ports, age : 0..Timeout - 1]
ASSUME TimeoutAssumption == Timeout \in Nat \ {0} /\ MaxSend \in Nat

VARIABLES
  topo,      \* one of Topology
  at,        \* the port each station is plugged in
  table,     \* mac_port_map of each switch: the iface of an address, and the seconds since visited
  sent,      \* the frames sent
  net,       \* frames, by their number in sent, that have come to each port
  got,       \* how often each station has received each frame: twice stands for more
  moved,     \* the stations that have moved
  bounced    \* history: frames a switch has sent back where they came from
lanVars == <<topo, at, table, sent, net, got, moved, bounced>>

Linked(t, p) == {q \in t.ports : q # p /\ {p, q} \in t.trunk}

Host == DOMAIN at
Bridge == DOMAIN topo.kind
Ports == topo.ports
Ifaces(b) == {p \in Ports : p[1] = b}
At(p) == {h \in Host : at[h] = p}
Across(p) == Linked(topo, p)
More(n) == IF n < 2 THEN n + 1 ELSE n

\* iface_send_packet on the ports out: to a station, or to another bridge
Emit(i, out, rest) ==
  /\ got' = [h \in Host |-> [got[h] EXCEPT ![i] = IF at[h] \in out THEN More(@) ELSE @]]
  /\ net' = [q \in Ports |-> IF Across(q) \cap out # {} THEN Append(rest[q], i) ELSE rest[q]]

Entry(port) == [iface |-> port, age |-> 0]
Visited(e) == IF e = None THEN e ELSE Entry(e.iface)

\* mutant: the receiving interface is not left out
MutBroadcast(p) == {q \in Ports : q[1] = p[1]}

\* broadcast_packet
Broadcast(p) == {q \in Ports : q[1] = p[1] /\ q # p}

\* mutant: nothing is sent where the destination is not known
MutTarget(p, dst) ==
  IF dst # All /\ table[p[1]][dst] # None THEN {table[p[1]][dst].iface} ELSE {}

\* where the frame goes that has come to port p for dst
Flooded(p, dst) == dst = All \/ table[p[1]][dst] = None
Target(p, dst) == IF Flooded(p, dst) THEN Broadcast(p) ELSE {table[p[1]][dst].iface}
Back(p, dst) == ~Flooded(p, dst) /\ table[p[1]][dst].iface = p

\* mutant: the destination is learnt
MutLearn(tab, p, f) ==
  [h \in Host |-> IF h = f.dst /\ tab[h] = None THEN Entry(p)
                  ELSE IF h \in {f.src, f.dst} THEN Visited(tab[h]) ELSE tab[h]]

\* both lookups are visits; a source that is known is not learnt again
Learn(tab, p, f) ==
  [h \in Host |-> IF h = f.src /\ tab[h] = None THEN Entry(p)
                  ELSE IF h \in {f.src, f.dst} THEN Visited(tab[h]) ELSE tab[h]]

Taken(p) == [net EXCEPT ![p] = Tail(@)]

\* handle_packet of the hub, and of the switch
HandleHub(p, i) ==
  Emit(i, Broadcast(p), Taken(p)) /\ UNCHANGED <<table, bounced>>

HandleSwitch(p, i) ==
  /\ Emit(i, Target(p, sent[i].dst), Taken(p))
  /\ table' = [table EXCEPT ![p[1]] = Learn(@, p, sent[i])]
  /\ bounced' = IF Back(p, sent[i].dst) THEN bounced \cup {i} ELSE bounced

\* ustack_run of each; it captures what goes out of an interface, too, and drops that
HubRun(p) ==
  /\ topo.kind[p[1]] = "hub"
  /\ net[p] # <<>> /\ HandleHub(p, Head(net[p]))
  /\ UNCHANGED <<topo, at, sent, moved>>

SwitchRun(p) ==
  /\ topo.kind[p[1]] = "switch"
  /\ net[p] # <<>> /\ HandleSwitch(p, Head(net[p]))
  /\ UNCHANGED <<topo, at, sent, moved>>

\* mutant: only entries that were never looked up are swept
MutAged(e) == IF e = None THEN e ELSE [e EXCEPT !.age = IF @ < Timeout THEN @ + 1 ELSE @]

\* an entry after a second more, and what is swept
Aged(e) == IF e = None \/ e.age + 1 >= Timeout THEN None ELSE [e EXCEPT !.age = @ + 1]

sweep_aged_mac_port_entry ==
  /\ table' = [b \in Bridge |-> [h \in Host |-> Aged(table[b][h])]]
  /\ UNCHANGED <<topo, at, sent, net, got, moved, bounced>>

\* a station sends a frame
Send(h, dst) ==
  /\ Len(sent) < topo.sends /\ h # dst
  /\ sent' = Append(sent, [src |-> h, dst |-> dst])
  /\ net' = [net EXCEPT ![at[h]] = Append(@, Len(sent'))]
  /\ UNCHANGED <<topo, at, table, got, moved, bounced>>

Move(h, p) ==
  /\ Cardinality(moved) < topo.moves
  /\ At(p) = {} /\ Across(p) = {}
  /\ at' = [at EXCEPT ![h] = p]
  /\ moved' = moved \cup {h}
  /\ UNCHANGED <<topo, table, sent, net, got, bounced>>

LanInit ==
  /\ topo \in Topology
  /\ at = topo.at
  /\ table = [b \in Bridge |-> [h \in Host |-> None]]
  /\ sent = <<>>
  /\ net = [p \in Ports |-> <<>>]
  /\ got = [h \in Host |-> [i \in 1..MaxSend |-> 0]]
  /\ moved = {} /\ bounced = {}

LanNext ==
  \/ \E p \in Ports : HubRun(p) \/ SwitchRun(p)
  \/ sweep_aged_mac_port_entry
  \/ \E h \in Host : \/ \E dst \in Host \cup {All} : Send(h, dst)
                     \/ \E p \in Ports : Move(h, p)

\* poll serves every interface in turn, and the sweeping thread runs every second
AllPorts == UNION {t.ports : t \in Topology}
LanSpec ==
  /\ LanInit /\ [][LanNext]_lanVars
  /\ WF_lanVars(sweep_aged_mac_port_entry)
  /\ \A p \in AllPorts : WF_lanVars(p \in Ports /\ (HubRun(p) \/ SwitchRun(p)))
-----------------------------------------------------------------------------
MacPortEntry(b) == [iface : Ifaces(b), age : 0..Timeout - 1]
LanTypeOK ==
  /\ at \in [Host -> Ports]
  /\ \A b \in Bridge : table[b] \in [Host -> MacPortEntry(b) \cup {None}]

\* the ports of the bridge at the other end that a frame may go on by
Onward(t, p) == {q \in t.ports : \E r \in Linked(t, p) : q[1] = r[1] /\ q # r}

\* a frame that has left by p may leave by q later, or q is p
Leaves(t, p, q) ==
  \A S \in SUBSET t.ports : p \in S /\ (\A r \in S : Onward(t, r) \subseteq S) => q \in S
Reach == [t \in Topology |-> [p \in t.ports |-> {q \in t.ports : Leaves(t, p, q)}]]

\* without a cycle of bridges: a frame does not come back to the bridge it has left
Trees == {t \in Topology :
  \A p, q \in t.ports : q \in Reach[t][p] => \A r \in Linked(t, q) : r[1] # p[1]}
Tree == topo \in Trees

\* the stations that are reached through port p of a bridge
Beyond(p) == {h \in Host : at[h] \in Reach[topo][p]}
Leads(b, h) == table[b][h] # None => h \in Beyond(table[b][h].iface)

(***************************************************************************)
(* What a switch has learnt leads to the station, whatever frames are      *)
(* flooded and entries swept: on a tree, for a station that has not moved, *)
(* and as long as no switch sends a frame back where it came from, which   *)
(* would teach a switch that has forgotten the sender a wrong port.        *)
(***************************************************************************)
LearntPort ==
  /\ LanTypeOK
  /\ Tree /\ bounced = {} => \A b \in Bridge : \A h \in Host \ moved : Leads(b, h)

(***************************************************************************)
(* On a tree no station receives a frame twice, or its own: unless a       *)
(* switch sends it back to the port it came from, which it does when the   *)
(* receiver is there, on a hub or behind a switch that has forgotten it.   *)
(***************************************************************************)
OnceOnly ==
  Tree /\ moved = {} => \A i \in DOMAIN sent \ bounced :
    got[sent[i].src][i] = 0 /\ \A h \in Host : got[h][i] < 2

(***************************************************************************)
(* Every frame reaches the stations it is for, and does so in a cycle of   *)
(* bridges too, where it goes round for ever; as long as no station moves. *)
(***************************************************************************)
Receiver(f) == (IF f.dst = All THEN Host ELSE {f.dst}) \ {f.src}
Arrived(i) == moved # {} \/ (i \in DOMAIN sent /\ \A h \in Receiver(sent[i]) : got[h][i] > 0)
Reached == \A i \in 1..MaxSend : (i \in DOMAIN sent) ~> Arrived(i)

(***************************************************************************)
(* When the stations are silent, a switch of a tree forgets where one was  *)
(* that has moved.  Every lookup is a visit, of frames to it and from it   *)
(* alike: while it talks or is talked to, it stays where it was.           *)
(***************************************************************************)
Forgets == <>[](Tree => \A b \in Bridge : \A h \in Host : Leads(b, h))
=============================================================================
