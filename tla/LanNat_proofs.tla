---------------------------- MODULE LanNat_proofs ----------------------------
(***************************************************************************)
(* Proofs about two systems that have nothing in common but this file.     *)
(* Nat: types, the port pool, and that translation in and out are inverse. *)
(* Lan, for every network of hubs and switches: what a switch has learnt   *)
(* leads to the station, and on a tree no frame comes twice.               *)
(***************************************************************************)
EXTENDS Nat, Lan, SequenceTheorems, TLAPS

(* Where a mapping has its port from.                                      *)
Origin(m) ==
  \/ m.internal \in Client /\ m.external_port \in Pool \cup {NoPort}
  \/ [external_port |-> m.external_port, internal |-> m.internal] \in Rule

(* A bucket holds one mapping for an inside endpoint.                      *)
OnePerFlow ==
  \A m, n \in mappings :
    Bucket[m.remote] = Bucket[n.remote] /\ m.internal = n.internal => m = n

IInv ==
  /\ TypeOK
  /\ PoolExact
  /\ \A m \in mappings : Origin(m)
  /\ OnePerFlow

-----------------------------------------------------------------------------
LEMMA PoolRange ==
  Pool \cup {NoPort} \subseteq 0 .. NoPort /\ NoPort \notin Pool
<1>1. NoPort \in Nat
  BY DEF NoPort
<1>2. NoPort \notin Pool
  BY <1>1, PortAssumption DEF Pool
<1>3. \A port \in Pool : port \in 0 .. NoPort
  BY <1>1, PortAssumption DEF Pool
<1> QED BY <1>1, <1>2, <1>3

LEMMA NewConnType == NewConn \in Conn
BY PortAssumption DEF NewConn, Conn, Side

LEMMA UpdatedConnType ==
  ASSUME NEW conn \in Conn, NEW side \in Side, NEW p \in Packet
  PROVE  UpdatedConn(conn, side, p) \in Conn
<1> DEFINE c == UpdatedConn(conn, side, p)
<1>1. /\ conn.fin \in [Side -> 0 .. 2]
      /\ conn.ack \in [Side -> 0 .. MaxSeq]
      /\ conn.seq_end \in [Side -> 0 .. MaxSeq]
  BY DEF Conn
<1>2. p.seq \in 0 .. MaxSeq /\ p.ack \in 0 .. MaxSeq
  BY DEF Packet
<1>3. \A a, b \in 0 .. MaxSeq : more_of(a, b) \in 0 .. MaxSeq
  BY DEF more_of
<1>4. c.fin \in [Side -> 0 .. 2]
  BY <1>1 DEF UpdatedConn
<1>5. c.ack \in [Side -> 0 .. MaxSeq]
  BY <1>1, <1>2, <1>3 DEF UpdatedConn
<1>6. c.seq_end \in [Side -> 0 .. MaxSeq]
  BY <1>1, <1>2, <1>3 DEF UpdatedConn
<1> QED BY <1>4, <1>5, <1>6 DEF UpdatedConn, Conn

(* An update leaves alone what the look-ups compare.                       *)
LEMMA UpdatedType ==
  ASSUME NEW m \in Mapping, NEW side \in Side, NEW p \in Packet
  PROVE  /\ Updated(m, side, p) \in Mapping
         /\ Updated(m, side, p).remote = m.remote
         /\ Updated(m, side, p).internal = m.internal
         /\ Updated(m, side, p).external_port = m.external_port
<1> DEFINE c == UpdatedConn(m.conn, side, p)
<1>1. c \in Conn
  BY UpdatedConnType DEF Mapping
<1>2. Updated(m, side, p) = [m EXCEPT !.conn = c, !.idle = 0]
  BY DEF Updated
<1>3. 0 \in Idle
  BY PortAssumption DEF Idle
<1> HIDE DEF c
<1> QED BY <1>1, <1>2, <1>3 DEF Mapping

LEMMA NewMappingType ==
  ASSUME NEW r \in Remote, NEW i \in Inside, NEW port \in 0 .. NoPort
  PROVE  /\ NewMapping(r, i, port) \in Mapping
         /\ NewMapping(r, i, port).remote = r
         /\ NewMapping(r, i, port).internal = i
         /\ NewMapping(r, i, port).external_port = port
<1>1. 0 \in Idle
  BY PortAssumption DEF Idle
<1> QED BY <1>1, NewConnType DEF NewMapping, Mapping

-----------------------------------------------------------------------------
(* A translation replaces a mapping by one the look-ups cannot tell from   *)
(* it.                                                                     *)
LEMMA ReplaceKeeps ==
  ASSUME IInv, NEW m \in mappings, NEW n \in Mapping,
         n.remote = m.remote, n.internal = m.internal, n.external_port = m.external_port,
         mappings' = (mappings \ {m}) \cup {n}, assigned_ports' = assigned_ports
  PROVE  IInv'
<1> USE DEF IInv
<1>1. TypeOK'
  BY DEF TypeOK
<1>2. \A x \in mappings : Bucket[x.remote] = Bucket[n.remote] /\ x.internal = n.internal => x = m
  BY DEF OnePerFlow
<1>3. \A x \in mappings : x.external_port = n.external_port /\ n.external_port \in Pool => x = m
  BY DEF PoolExact
<1>4. PoolExact'
  <2>1. {x.external_port : x \in mappings'} = {x.external_port : x \in mappings}
    OBVIOUS
  <2> QED BY <1>3, <2>1 DEF PoolExact
<1>5. (\A x \in mappings : Origin(x))'
  BY DEF Origin
<1>6. OnePerFlow'
  BY <1>2 DEF OnePerFlow
<1> QED BY <1>1, <1>4, <1>5, <1>6

(* A new mapping, alone in its bucket for its inside endpoint, with a port *)
(* nobody uses if it is one of the pool.                                   *)
LEMMA OpenKeeps ==
  ASSUME IInv, NEW n \in Mapping, Origin(n),
         \A x \in mappings : ~(Bucket[x.remote] = Bucket[n.remote] /\ x.internal = n.internal),
         n.external_port \notin assigned_ports,
         mappings' = mappings \cup {n},
         assigned_ports' = assigned_ports \cup (Pool \cap {n.external_port})
  PROVE  IInv'
<1> USE DEF IInv
<1>1. TypeOK'
  BY DEF TypeOK
<1>2. \A x \in mappings : x.external_port = n.external_port => n.external_port \notin Pool
  BY DEF PoolExact
<1>3. PoolExact'
  BY <1>2 DEF PoolExact
<1>4. (\A x \in mappings : Origin(x))'
  BY DEF Origin
<1>5. OnePerFlow'
  BY DEF OnePerFlow
<1> QED BY <1>1, <1>3, <1>4, <1>5

-----------------------------------------------------------------------------
LEMMA InitIInv == Init => IInv
BY DEF Init, IInv, TypeOK, PoolExact, OnePerFlow

LEMMA StepIInv == IInv /\ [Next]_vars => IInv'
<1> SUFFICES ASSUME IInv, [Next]_vars PROVE IInv'
  OBVIOUS
<1>0. mappings \subseteq Mapping /\ assigned_ports \subseteq Pool
  BY DEF IInv, TypeOK
<1>1. ASSUME NEW i \in Inside, NEW r \in Remote, NEW p \in Packet, TranslateOut(i, r, p)
      PROVE  IInv'
  <2>1. PICK m \in FoundOut(i, r) :
          /\ mappings' = (mappings \ {m}) \cup {Updated(m, "internal", p)}
          /\ assigned_ports' = assigned_ports
    BY <1>1 DEF TranslateOut
  <2>2. m \in mappings
    BY DEF FoundOut, Bucketful
  <2> DEFINE n == Updated(m, "internal", p)
  <2>3. /\ n \in Mapping /\ n.remote = m.remote /\ n.internal = m.internal
        /\ n.external_port = m.external_port
    BY <1>0, <2>2, UpdatedType DEF Side
  <2>4. mappings' = (mappings \ {m}) \cup {n}
    BY <2>1
  <2> HIDE DEF n
  <2> QED BY <2>1, <2>2, <2>3, <2>4, ReplaceKeeps
<1>2. ASSUME NEW i \in Client, NEW r \in Remote, NEW p \in Packet, OpenOut(i, r, p)
      PROVE  IInv'
  <2>1. PICK port \in new_external_port :
          /\ mappings' = mappings \cup {Updated(NewMapping(r, i, port), "internal", p)}
          /\ assigned_ports' = assigned_ports \cup ({port} \ {NoPort})
    BY <1>2 DEF OpenOut
  <2>2. port \in Pool \cup {NoPort} /\ port \in 0 .. NoPort /\ NoPort \notin Pool
    BY PoolRange DEF new_external_port, Free
  <2>3. port \notin assigned_ports
    BY <1>0, <2>2 DEF new_external_port, Free
  <2> DEFINE n == Updated(NewMapping(r, i, port), "internal", p)
  <2>4. n \in Mapping /\ n.remote = r /\ n.internal = i /\ n.external_port = port
    BY <2>2, NewMappingType, UpdatedType DEF Side, Inside
  <2>5. Origin(n)
    BY <2>2, <2>4 DEF Origin
  <2>6. \A x \in mappings : ~(Bucket[x.remote] = Bucket[n.remote] /\ x.internal = n.internal)
    BY <1>2, <2>4 DEF OpenOut, FoundOut, Bucketful
  <2>7. /\ mappings' = mappings \cup {n}
        /\ n.external_port \notin assigned_ports
        /\ assigned_ports' = assigned_ports \cup (Pool \cap {n.external_port})
    BY <2>1, <2>2, <2>3, <2>4
  <2> HIDE DEF n
  <2> QED BY <2>1, <2>4, <2>5, <2>6, <2>7, OpenKeeps
<1>3. ASSUME NEW r \in Remote, NEW port, NEW p \in Packet, TranslateIn(r, port, p)
      PROVE  IInv'
  <2>1. PICK m \in FoundIn(r, port) :
          /\ mappings' = (mappings \ {m}) \cup {Updated(m, "external", p)}
          /\ assigned_ports' = assigned_ports
    BY <1>3 DEF TranslateIn
  <2>2. m \in mappings
    BY DEF FoundIn, Bucketful
  <2> DEFINE n == Updated(m, "external", p)
  <2>3. /\ n \in Mapping /\ n.remote = m.remote /\ n.internal = m.internal
        /\ n.external_port = m.external_port
    BY <1>0, <2>2, UpdatedType DEF Side
  <2>4. mappings' = (mappings \ {m}) \cup {n}
    BY <2>1
  <2> HIDE DEF n
  <2> QED BY <2>1, <2>2, <2>3, <2>4, ReplaceKeeps
<1>4. ASSUME NEW r \in Remote, NEW port, NEW p \in Packet, OpenIn(r, port, p)
      PROVE  IInv'
  <2>1. PICK rule \in Rule :
          /\ rule.external_port = port
          /\ mappings' = mappings \cup {Updated(NewMapping(r, rule.internal, port), "external", p)}
    BY <1>4 DEF OpenIn
  <2>2. assigned_ports' = assigned_ports
    BY <1>4 DEF OpenIn
  <2>3. /\ rule \in [external_port : 0 .. NoPort - 1, internal : Server]
        /\ port \notin Pool
    BY <2>1, RuleAssumption
  <2>4. port \in 0 .. NoPort /\ rule.internal \in Inside
    <3>1. port \in 0 .. NoPort - 1 /\ rule.internal \in Server
      BY <2>1, <2>3
    <3>2. NoPort \in Nat
      BY DEF NoPort
    <3> QED BY <3>1, <3>2 DEF Inside
  <2> DEFINE n == Updated(NewMapping(r, rule.internal, port), "external", p)
  <2>5. n \in Mapping /\ n.remote = r /\ n.internal = rule.internal /\ n.external_port = port
    BY <2>4, NewMappingType, UpdatedType DEF Side
  <2>6. rule = [external_port |-> n.external_port, internal |-> n.internal]
    BY <2>1, <2>3, <2>5
  <2>7. Origin(n)
    BY <2>6 DEF Origin
  <2>8. ASSUME NEW x \in mappings,
               Bucket[x.remote] = Bucket[n.remote] /\ x.internal = n.internal
        PROVE  FALSE
    <3>1. x.internal \notin Client
      BY <2>3, <2>5, <2>8, RuleAssumption
    <3>2. [external_port |-> x.external_port, internal |-> x.internal] \in Rule
      BY <3>1 DEF IInv, Origin
    <3>3. [external_port |-> x.external_port, internal |-> x.internal] = rule
      BY <3>2, <2>5, <2>8, RuleAssumption
    <3>4. x \in FoundIn(r, port)
      BY <2>1, <2>5, <2>8, <3>3 DEF FoundIn, Bucketful
    <3> QED BY <1>4, <3>4 DEF OpenIn
  <2>9. /\ mappings' = mappings \cup {n}
        /\ n.external_port \notin assigned_ports
        /\ assigned_ports' = assigned_ports \cup (Pool \cap {n.external_port})
    BY <1>0, <2>1, <2>2, <2>3, <2>5
  <2> HIDE DEF n
  <2> QED BY <2>5, <2>7, <2>8, <2>9, OpenKeeps
<1>5. CASE Sweep
  <2>1. mappings' \subseteq mappings
    BY <1>5 DEF Sweep
  <2>2. assigned_ports' = Pool \cap {m.external_port : m \in mappings'}
    BY <1>5 DEF Sweep, IInv, PoolExact
  <2> QED BY <2>1, <2>2 DEF IInv, TypeOK, PoolExact, OnePerFlow, Origin
<1>6. CASE Tick
  <2> DEFINE aged(m) == [m EXCEPT !.idle = IF m.idle \in 0 .. TCP_ESTABLISHED_TIMEOUT
                                           THEN m.idle + 1 ELSE m.idle]
  <2>1. mappings' = {aged(m) : m \in mappings} /\ assigned_ports' = assigned_ports
    BY <1>6 DEF Tick
  <2>2. \A m \in mappings :
          /\ aged(m) \in Mapping /\ aged(m).remote = m.remote
          /\ aged(m).internal = m.internal /\ aged(m).external_port = m.external_port
    BY <1>0, PortAssumption DEF Mapping, Idle
  <2> HIDE DEF aged
  <2>3. TypeOK'
    BY <1>0, <2>1, <2>2 DEF TypeOK
  <2>4. {x.external_port : x \in mappings'} = {m.external_port : m \in mappings}
    BY <2>1, <2>2
  <2>5. PoolExact'
    BY <2>1, <2>2, <2>4 DEF IInv, PoolExact
  <2>6. (\A m \in mappings : Origin(m))'
    BY <2>1, <2>2 DEF IInv, Origin
  <2>7. OnePerFlow'
    BY <2>1, <2>2 DEF IInv, OnePerFlow
  <2> QED BY <2>3, <2>5, <2>6, <2>7 DEF IInv
<1>7. CASE UNCHANGED vars
  BY <1>7 DEF vars, IInv, TypeOK, PoolExact, OnePerFlow, Origin
<1> QED
  BY <1>1, <1>2, <1>3, <1>4, <1>5, <1>6, <1>7 DEF Next, Outgoing, Incoming

(* The mappings and the pool stay well-typed.                              *)
THEOREM TypeCorrect == Spec => []TypeOK
<1>1. IInv => TypeOK
  BY DEF IInv
<1> QED BY <1>1, InitIInv, StepIInv, PTL DEF Spec

(* No port of the pool leaks or serves two mappings (new_external_port and *)
(* nat_timeout).                                                           *)
THEOREM PoolIsExact == Spec => []PoolExact
<1>1. IInv => PoolExact
  BY DEF IInv
<1> QED BY <1>1, InitIInv, StepIInv, PTL DEF Spec

(* do_translation in one direction undoes the other.                       *)
THEOREM TranslationIsSymmetric == Spec => []Symmetric
<1>1. IInv => Symmetric
  <2> SUFFICES ASSUME IInv, NEW r \in Remote, NEW m \in Bucketful(r), m.external_port # NoPort
               PROVE  /\ \A n \in FoundIn(r, m.external_port) : n.internal = m.internal
                      /\ \A n \in FoundOut(m.internal, r) : n.external_port = m.external_port
    BY DEF Symmetric
  <2>1. m \in mappings /\ Bucket[m.remote] = Bucket[r]
    BY DEF Bucketful
  <2>2. ASSUME NEW n \in FoundIn(r, m.external_port)
        PROVE  n.internal = m.internal
    <3>1. n \in mappings /\ n.external_port = m.external_port
      BY DEF FoundIn, Bucketful
    <3>2. CASE m.external_port \in Pool
      BY <2>1, <3>1, <3>2 DEF IInv, PoolExact
    <3>3. CASE m.external_port \notin Pool
      <4>1. /\ [external_port |-> m.external_port, internal |-> m.internal] \in Rule
            /\ [external_port |-> m.external_port, internal |-> n.internal] \in Rule
        BY <2>1, <3>1, <3>3 DEF IInv, Origin
      <4> QED BY <4>1, RuleAssumption
    <3> QED BY <3>2, <3>3
  <2>3. ASSUME NEW n \in FoundOut(m.internal, r)
        PROVE  n.external_port = m.external_port
    BY <2>1 DEF IInv, OnePerFlow, FoundOut, Bucketful
  <2> QED BY <2>2, <2>3
<1> QED BY <1>1, InitIInv, StepIInv, PTL DEF Spec

-----------------------------------------------------------------------------
(***************************************************************************)
(* Lan.  A frame is in the queues of several ports at once.  Each of its   *)
(* copies has a part of the tree before it (Out), which no other copy will *)
(* enter and no copy has been in: where the frame has been received, and   *)
(* where it came from, is outside.  Handing a copy on divides its part     *)
(* among the new ones (Cover).  That a copy comes from the side where its  *)
(* sender is (ComesFrom) is what makes the learning of a switch right, as  *)
(* long as no frame has been sent back; it holds in cycles, too.           *)
(***************************************************************************)

Present(s, i) == \E k \in DOMAIN s : s[k] = i
Once(s, i) == \A k, l \in DOMAIN s : s[k] = i /\ s[l] = i => k = l

(* The ports a frame that has come to port p may leave by, now or later.   *)
Out(p) == UNION {Reach[topo][q] : q \in Broadcast(p)}

TableType ==
  /\ table \in [Bridge -> [Host -> [iface : Ports, age : 0..Timeout - 1] \cup {None}]]
  /\ \A b \in Bridge : \A h \in Host : table[b][h] # None => table[b][h].iface \in Ifaces(b)

Types ==
  /\ topo \in Topology
  /\ at \in [DOMAIN topo.at -> Ports]
  /\ TableType
  /\ sent \in Seq([src : Host, dst : Host \cup {All}])
  /\ Len(sent) <= topo.sends
  /\ net \in [Ports -> Seq(DOMAIN sent)]
  /\ got \in [Host -> [1..MaxSend -> 0..2]]
  /\ \A h \in Host : \A i \in 1..MaxSend : i \notin DOMAIN sent => got[h][i] = 0
  /\ bounced \subseteq DOMAIN sent

(* A frame has come from where its sender is.                              *)
ComesFrom ==
  \A p \in Ports : \A i \in DOMAIN sent :
    Present(net[p], i) /\ sent[i].src \notin moved => at[sent[i].src] \in Reach[topo][p]
Learnt == bounced = {} => ComesFrom /\ \A b \in Bridge : \A h \in Host \ moved : Leads(b, h)

(* The copies of a frame go different ways, none where it has been.        *)
Split(i) ==
  \A p, q \in Ports : Present(net[p], i) /\ Present(net[q], i) /\ p # q =>
    Out(p) \cap Out(q) = {} /\ Across(p) \cap Out(q) = {}
Seen(i) ==
  \A h \in Host :
    /\ got[h][i] < 2
    /\ got[h][i] # 0 \/ at[h] = at[sent[i].src] =>
         \A p \in Ports : Present(net[p], i) => at[h] \notin Out(p)
    /\ at[h] = at[sent[i].src] => got[h][i] = 0
Cover(i) == (\A p \in Ports : Once(net[p], i)) /\ Split(i) /\ Seen(i)

LInv ==
  /\ Types
  /\ Learnt
  /\ Tree /\ moved = {} => \A i \in DOMAIN sent \ bounced : Cover(i)
(***************************************************************************)
(* The ways through a network.                                             *)
(***************************************************************************)

(* A port is reached from itself, and by no other way than over a link.    *)
LEMMA ReachIs ==
  ASSUME NEW t \in Topology, NEW p \in t.ports
  PROVE  /\ Reach[t][p] \subseteq t.ports
         /\ \A q \in t.ports : q \in Reach[t][p] <=> Leaves(t, p, q)
BY DEF Reach

LEMMA ReachSelf ==
  ASSUME NEW t \in Topology, NEW p \in t.ports
  PROVE  p \in Reach[t][p]
BY ReachIs DEF Leaves

(* What can be reached is closed under going on ...                        *)
LEMMA ReachOn ==
  ASSUME NEW t \in Topology, NEW p \in t.ports, NEW q \in Reach[t][p]
  PROVE  Onward(t, q) \subseteq Reach[t][p]
<1>1. q \in t.ports /\ Leaves(t, p, q)
  BY ReachIs
<1>2. ASSUME NEW r \in Onward(t, q)
      PROVE  Leaves(t, p, r)
  BY <1>1, <1>2 DEF Leaves
<1>3. Onward(t, q) \subseteq t.ports
  BY DEF Onward
<1> QED BY <1>2, <1>3, ReachIs

(* ... and the least such set.                                             *)
LEMMA ReachLeast ==
  ASSUME NEW t \in Topology, NEW p \in t.ports, NEW S \in SUBSET t.ports, p \in S,
         \A r \in S : Onward(t, r) \subseteq S
  PROVE  Reach[t][p] \subseteq S
<1>1. ASSUME NEW q \in Reach[t][p]
      PROVE  q \in S
  <2>1. q \in t.ports /\ Leaves(t, p, q)
    BY ReachIs
  <2> QED BY <2>1 DEF Leaves
<1> QED BY <1>1

LEMMA ReachTrans ==
  ASSUME NEW t \in Topology, NEW p \in t.ports, NEW q \in Reach[t][p]
  PROVE  q \in t.ports /\ Reach[t][q] \subseteq Reach[t][p]
<1>1. Reach[t][p] \in SUBSET t.ports /\ q \in t.ports
  BY ReachIs
<1>2. \A r \in Reach[t][p] : Onward(t, r) \subseteq Reach[t][p]
  BY ReachOn
<1> QED BY <1>1, <1>2, ReachLeast

(* The last step on the way to a port.                                     *)
LEMMA ReachFrom ==
  ASSUME NEW t \in Topology, NEW p \in t.ports, NEW q \in Reach[t][p], q # p
  PROVE  \E r \in Reach[t][p] : q \in Onward(t, r)
<1> DEFINE S == {p} \cup {x \in t.ports : \E r \in Reach[t][p] : x \in Onward(t, r)}
<1>1. S \in SUBSET t.ports /\ p \in S
  OBVIOUS
<1>2. S \subseteq Reach[t][p]
  BY ReachSelf, ReachOn
<1>3. \A r \in S : Onward(t, r) \subseteq S
  BY <1>2 DEF Onward
<1>4. q \in S
  <2> HIDE DEF S
  <2> QED BY <1>1, <1>3, ReachLeast
<1> QED BY <1>4

(* A cable has two ends, and a port one cable.                             *)
LEMMA LinkedBoth ==
  ASSUME NEW t \in Topology, NEW p \in t.ports, NEW q \in Linked(t, p)
  PROVE  /\ q \in t.ports /\ q # p
         /\ p \in Linked(t, q)
         /\ \A r \in Linked(t, p) : r = q
<1>1. q \in t.ports /\ q # p /\ {p, q} \in t.trunk
  BY DEF Linked
<1>2. {q, p} = {p, q}
  OBVIOUS
<1>3. p \in Linked(t, q)
  BY <1>1, <1>2 DEF Linked
<1>4. ASSUME NEW r \in Linked(t, p)
      PROVE  r = q
  <2>1. r # p /\ {p, r} \in t.trunk
    BY DEF Linked
  <2>2. \A l, m \in t.trunk : l # m => l \cap m = {}
    BY TopologyAssumption
  <2>3. {p, r} = {p, q}
    <3>1. p \in {p, r} \cap {p, q}
      OBVIOUS
    <3> QED BY <1>1, <2>1, <2>2, <3>1
  <2> QED BY <1>1, <2>1, <2>3
<1> QED BY <1>1, <1>3, <1>4

(* Going on over a link and out by another port.                           *)
LEMMA OnwardIs ==
  ASSUME NEW t \in Topology, NEW p \in t.ports, NEW a \in Linked(t, p), NEW q \in t.ports,
         q[1] = a[1], q # a
  PROVE  q \in Onward(t, p)
BY DEF Onward

(* A way can be gone back.                                                 *)
LEMMA WayBack ==
  ASSUME NEW t \in Topology, NEW p \in t.ports, NEW r \in Reach[t][p], NEW a \in Linked(t, r)
  PROVE  \E x \in Reach[t][a] : p \in Linked(t, x)
<1> DEFINE U == {y \in t.ports : \A c \in Linked(t, y) : \E x \in Reach[t][c] : p \in Linked(t, x)}
<1>1. p \in U
  <2>1. ASSUME NEW c \in Linked(t, p)
        PROVE  \E x \in Reach[t][c] : p \in Linked(t, x)
    <3>1. c \in t.ports /\ p \in Linked(t, c)
      BY LinkedBoth
    <3> QED BY <3>1, ReachSelf
  <2> QED BY <2>1
<1>2. ASSUME NEW y \in U, NEW z \in Onward(t, y), NEW b \in Linked(t, z)
      PROVE  \E x \in Reach[t][b] : p \in Linked(t, x)
  <2>1. z \in t.ports
    BY DEF Onward
  <2>2. PICK c \in Linked(t, y) : z[1] = c[1] /\ z # c
    BY DEF Onward
  <2>3. y \in t.ports /\ c \in t.ports
    BY LinkedBoth
  <2>4. b \in t.ports /\ z \in Linked(t, b)
    BY <2>1, LinkedBoth
  <2>5. c \in Onward(t, b)
    BY <2>2, <2>3, <2>4, OnwardIs
  <2>6. c \in Reach[t][b]
    BY <2>4, <2>5, ReachSelf, ReachOn
  <2>7. Reach[t][c] \subseteq Reach[t][b]
    BY <2>4, <2>6, ReachTrans
  <2>8. \E x \in Reach[t][c] : p \in Linked(t, x)
    BY <2>2
  <2> QED BY <2>7, <2>8
<1>3. \A y \in U : Onward(t, y) \subseteq U
  BY <1>2 DEF Onward
<1>4. U \in SUBSET t.ports
  OBVIOUS
<1>5. r \in U
  <2> HIDE DEF U
  <2> QED BY <1>1, <1>3, <1>4, ReachLeast
<1> QED BY <1>5

(* On a tree, no way leads back to the bridge it has left.                 *)
LEMMA NoReturn ==
  ASSUME NEW t \in Trees, NEW p \in t.ports, NEW q \in Reach[t][p], NEW r \in Linked(t, q)
  PROVE  r[1] # p[1]
<1>1. t \in Topology
  BY DEF Trees
<1>2. q \in t.ports
  BY <1>1, ReachIs
<1> QED BY <1>2 DEF Trees

(* What is reached through different ports of a bridge is different.       *)
LEMMA Apart ==
  ASSUME NEW t \in Trees, NEW p \in t.ports, NEW q \in t.ports, p[1] = q[1], p # q
  PROVE  \A r : ~(r \in Reach[t][p] /\ r \in Reach[t][q])
<1> DEFINE S == {r \in Reach[t][p] : r \notin Reach[t][q]}
<1>1. t \in Topology
  BY DEF Trees
<1>2. Reach[t][p] \subseteq t.ports /\ Reach[t][q] \subseteq t.ports
  BY <1>1, ReachIs
<1>3. p \in S
  <2>1. SUFFICES ASSUME p \in Reach[t][q] PROVE FALSE
    BY <1>1, ReachSelf
  <2>2. PICK r \in Reach[t][q] : p \in Onward(t, r)
    BY <1>1, <2>1, ReachFrom
  <2>3. PICK c \in Linked(t, r) : p[1] = c[1]
    BY <2>2 DEF Onward
  <2> QED BY <2>3, NoReturn
<1>4. ASSUME NEW r \in S, NEW s \in Onward(t, r), s \in Reach[t][q]
      PROVE  FALSE
  <2>1. r \in t.ports /\ r \in Reach[t][p]
    BY <1>2
  <2>2. PICK a \in Linked(t, r) : s[1] = a[1] /\ s # a
    BY DEF Onward
  <2>3. a \in t.ports /\ r \in Linked(t, a) /\ a[1] # p[1]
    BY <1>1, <2>1, LinkedBoth, NoReturn
  <2>4. s # q
    BY <2>2, <2>3
  <2>5. PICK u \in Reach[t][q] : s \in Onward(t, u)
    BY <1>1, <1>4, <2>4, ReachFrom
  <2>6. u \in t.ports
    BY <1>2
  <2>7. PICK c \in Linked(t, u) : s[1] = c[1] /\ s # c
    BY <2>5 DEF Onward
  <2>8. c \in t.ports /\ u \in Linked(t, c)
    BY <1>1, <2>6, LinkedBoth
  <2>9. c # a
    <3>1. SUFFICES ASSUME c = a PROVE FALSE
      OBVIOUS
    <3>2. u = r
      BY <1>1, <2>3, <2>8, <3>1, LinkedBoth
    <3> QED BY <3>2
  <2>10. c \in Onward(t, r)
    BY <1>1, <2>1, <2>2, <2>7, <2>8, <2>9, OnwardIs
  <2>11. c \in Reach[t][p]
    BY <1>1, <2>1, <2>10, ReachOn
  <2>12. Reach[t][c] \subseteq Reach[t][p]
    BY <1>1, <2>11, ReachTrans
  <2>13. PICK x \in Reach[t][c] : q \in Linked(t, x)
    BY <1>1, <2>7, WayBack
  <2> QED BY <2>12, <2>13, NoReturn
<1>5. \A r \in S : Onward(t, r) \subseteq S
  <2>1. \A r \in S : Onward(t, r) \subseteq Reach[t][p]
    BY <1>1, ReachOn
  <2> QED BY <1>4, <2>1
<1>6. Reach[t][p] \subseteq S
  <2>1. S \in SUBSET t.ports
    BY <1>2
  <2> HIDE DEF S
  <2> QED BY <1>1, <1>3, <1>5, <2>1, ReachLeast
<1> QED BY <1>6

(* On a tree, what has come over a link is not reached again.              *)
LEMMA NotAgain ==
  ASSUME NEW t \in Trees, NEW q \in t.ports, NEW a \in Linked(t, q), NEW r \in t.ports,
         r[1] = a[1], r # a
  PROVE  q \notin Reach[t][r] /\ Reach[t][r] \subseteq Reach[t][q]
<1>1. t \in Topology
  BY DEF Trees
<1>2. r \in Reach[t][q]
  BY <1>1, ReachSelf, ReachOn, OnwardIs
<1>3. Reach[t][r] \subseteq Reach[t][q]
  BY <1>1, <1>2, ReachTrans
<1>4. ASSUME q \in Reach[t][r]
      PROVE  FALSE
  <2>1. q # r
    BY <1>1, ReachSelf, NoReturn
  <2>2. PICK s \in Reach[t][r] : q \in Onward(t, s)
    BY <1>1, <1>4, <2>1, ReachFrom
  <2>3. PICK c \in Linked(t, s) : q[1] = c[1]
    BY <2>2 DEF Onward
  <2> QED BY <1>3, <2>3, NoReturn
<1> QED BY <1>3, <1>4
-----------------------------------------------------------------------------
(* Queues: a frame is appended, or taken from the front.                   *)
LEMMA AppendedTo ==
  ASSUME NEW S, NEW s \in Seq(S), NEW e \in S, NEW i
  PROVE  /\ Append(s, e) \in Seq(S)
         /\ Present(Append(s, e), i) <=> Present(s, i) \/ i = e
         /\ Once(s, i) /\ (i = e => ~Present(s, i)) => Once(Append(s, e), i)
<1> DEFINE w == Append(s, e)
           n == Len(s)
<1>1. n \in Nat /\ DOMAIN s = 1..n /\ w \in Seq(S) /\ Len(w) = n + 1 /\ DOMAIN w = 1..n + 1
  BY AppendProperties, LenProperties
<1>2. w[n + 1] = e /\ \A k \in 1..n : w[k] = s[k]
  BY AppendProperties, LenProperties
<1> HIDE DEF w, n
<1>3. \A k \in 1..n + 1 : k \in 1..n \/ k = n + 1
  BY <1>1
<1>4. 1..n \subseteq 1..n + 1 /\ n + 1 \in 1..n + 1 /\ n + 1 \notin 1..n
  BY <1>1
<1>5. Present(w, i) <=> Present(s, i) \/ i = e
  BY <1>1, <1>2, <1>3, <1>4 DEF Present
<1>6. ASSUME Once(s, i), i = e => ~Present(s, i), NEW k \in 1..n + 1, NEW l \in 1..n + 1, w[k] = i, w[l] = i
      PROVE  k = l
  <2>1. CASE k \in 1..n /\ l \in 1..n
    BY <1>1, <1>2, <1>6, <2>1 DEF Once
  <2>2. CASE k = n + 1 /\ l = n + 1
    BY <2>2
  <2>3. CASE k \in 1..n /\ l = n + 1
    BY <1>1, <1>2, <1>6, <2>3 DEF Present
  <2>4. CASE k = n + 1 /\ l \in 1..n
    BY <1>1, <1>2, <1>6, <2>4 DEF Present
  <2> QED BY <1>3, <2>1, <2>2, <2>3, <2>4
<1>7. Once(s, i) /\ (i = e => ~Present(s, i)) => Once(w, i)
  BY <1>1, <1>6 DEF Once
<1> QED BY <1>1, <1>5, <1>7 DEF w

LEMMA TakenFrom ==
  ASSUME NEW S, NEW s \in Seq(S), s # <<>>, NEW i
  PROVE  /\ Head(s) \in S /\ Tail(s) \in Seq(S)
         /\ Present(s, Head(s))
         /\ Present(Tail(s), i) => Present(s, i)
         /\ Once(s, i) => Once(Tail(s), i)
         /\ Once(s, i) /\ i = Head(s) => ~Present(Tail(s), i)
<1> DEFINE w == Tail(s)
           n == Len(w)
<1>1. n \in Nat /\ Len(s) = n + 1 /\ w \in Seq(S) /\ Head(s) = s[1] /\ Head(s) \in S
  BY HeadTailProperties, LenProperties, EmptySeq
<1>2. DOMAIN s = 1..n + 1 /\ DOMAIN w = 1..n
  BY <1>1, LenProperties
<1>3. \A k \in 1..n : w[k] = s[k + 1]
  BY HeadTailProperties
<1> HIDE DEF w, n
<1>4. 1 \in 1..n + 1 /\ \A k \in 1..n : k + 1 \in 1..n + 1 /\ k + 1 # 1
  BY <1>1
<1>5. \A k, l \in 1..n : k + 1 = l + 1 => k = l
  BY <1>1
<1>6. Present(s, Head(s))
  BY <1>1, <1>2, <1>4 DEF Present
<1>7. Present(w, i) => Present(s, i)
  BY <1>2, <1>3, <1>4 DEF Present
<1>8. Once(s, i) => Once(w, i)
  BY <1>2, <1>3, <1>4, <1>5 DEF Once
<1>9. Once(s, i) /\ i = Head(s) => ~Present(w, i)
  BY <1>1, <1>2, <1>3, <1>4 DEF Once, Present
<1> QED BY <1>1, <1>6, <1>7, <1>8, <1>9 DEF w

LEMMA PresentIn ==
  ASSUME NEW S, NEW s \in Seq(S), NEW i, Present(s, i)
  PROVE  i \in S
BY ElementOfSeq, LenProperties DEF Present

(* A port belongs to a bridge of the network.                              *)
LEMMA PortsType ==
  ASSUME topo \in Topology
  PROVE  /\ \A p \in Ports : p[1] \in Bridge /\ p = <<p[1], p[2]>>
         /\ \A p \in Ports : Broadcast(p) \subseteq Ports
         /\ \A p \in Ports : Across(p) \subseteq Ports
         /\ topo.sends \in 0..MaxSend
         /\ All \notin DOMAIN topo.at
         /\ None \notin [iface : Ports, age : 0..Timeout - 1]
<1>1. Ports \subseteq Bridge \X Nat
  BY TopologyAssumption DEF Ports, Bridge
<1>2. /\ topo.sends \in 0..MaxSend
      /\ All \notin DOMAIN topo.at
      /\ None \notin [iface : Ports, age : 0..Timeout - 1]
  BY TopologyAssumption DEF Ports
<1>3. \A p \in Ports : p[1] \in Bridge /\ p = <<p[1], p[2]>>
  BY <1>1
<1> QED BY <1>2, <1>3 DEF Broadcast, Across, Linked, Ports

LEMMA SentNumbers ==
  ASSUME Types
  PROVE  DOMAIN sent = 1..Len(sent) /\ Len(sent) \in Nat /\ DOMAIN sent \subseteq 1..MaxSend
<1>1. DOMAIN sent = 1..Len(sent) /\ Len(sent) \in Nat
  BY LenProperties DEF Types
<1>2. topo.sends \in 0..MaxSend /\ Len(sent) <= topo.sends
  BY PortsType DEF Types
<1> QED BY <1>1, <1>2, TimeoutAssumption

LEMMA LanInitInv == LanInit => LInv
<1> SUFFICES ASSUME LanInit PROVE LInv
  OBVIOUS
<1>1. topo \in Topology /\ at = topo.at /\ Host = DOMAIN topo.at
  BY DEF LanInit, Host
<1>2. at \in [DOMAIN topo.at -> Ports]
  BY <1>1, TopologyAssumption DEF Ports
<1>3. table \in [Bridge -> [Host -> [iface : Ports, age : 0..Timeout - 1] \cup {None}]]
  BY DEF LanInit
<1>4. \A b \in Bridge : \A h \in Host : table[b][h] = None
  BY DEF LanInit
<1>5. sent = <<>> /\ Len(sent) = 0 /\ DOMAIN sent = {} /\ sent \in Seq([src : Host, dst : Host \cup {All}])
  BY EmptySeq DEF LanInit
<1>6. net \in [Ports -> Seq(DOMAIN sent)]
  BY EmptySeq DEF LanInit
<1>7. /\ got \in [Host -> [1..MaxSend -> 0..2]]
      /\ \A h \in Host : \A i \in 1..MaxSend : i \notin DOMAIN sent => got[h][i] = 0
  BY DEF LanInit
<1>8. bounced = {} /\ moved = {}
  BY DEF LanInit
<1>9. Len(sent) <= topo.sends
  BY <1>1, <1>5, PortsType, TimeoutAssumption
<1>10. Types
  BY <1>1, <1>2, <1>3, <1>4, <1>5, <1>6, <1>7, <1>8, <1>9 DEF Types, TableType
<1>11. Learnt
  BY <1>4, <1>5 DEF Learnt, ComesFrom, Leads
<1> QED BY <1>5, <1>10, <1>11 DEF LInv
-----------------------------------------------------------------------------
(* What the step does to the counts, and to the queues.                    *)
Counts(i, out) ==
  \A h \in Host : \A j \in 1..MaxSend :
    got'[h][j] = IF j = i /\ at[h] \in out THEN More(got[h][j]) ELSE got[h][j]
Brings(i, out) ==
  \A q \in Ports : \A j :
    Present(net'[q], j) => Present(net[q], j) \/ (j = i /\ Across(q) \cap out # {})
GoesOn(p, i, out) ==
  \A q \in Ports :
    Present(net'[q], i) => (q # p /\ Present(net[q], i)) \/ Across(q) \cap out # {}
StaysOnce(i, out) ==
  \A q \in Ports : \A j :
    Once(net[q], j) /\ (j = i /\ Across(q) \cap out # {} => ~Present(net[q], j)) => Once(net'[q], j)

(* iface_send_packet on the ports out of a frame that has come to port p.  *)
LEMMA EmitSends ==
  ASSUME Types, UNCHANGED <<topo, at, sent>>, NEW p \in Ports, net[p] # <<>>,
         NEW i, i = Head(net[p]), NEW out, Emit(i, out, Taken(p))
  PROVE  /\ i \in DOMAIN sent /\ i \in 1..MaxSend /\ Present(net[p], i)
         /\ net' \in [Ports -> Seq(DOMAIN sent)]
         /\ got' \in [Host -> [1..MaxSend -> 0..2]]
         /\ Counts(i, out) /\ Brings(i, out) /\ StaysOnce(i, out)
         /\ Once(net[p], i) => GoesOn(p, i, out)
<1> DEFINE S == DOMAIN sent
           rest == Taken(p)
<1>1. net \in [Ports -> Seq(S)] /\ got \in [Host -> [1..MaxSend -> 0..2]] /\ Host' = Host
  BY DEF Types, Host
<1>2. net[p] \in Seq(S)
  BY <1>1
<1>3. i \in S /\ Tail(net[p]) \in Seq(S) /\ Present(net[p], i)
  BY <1>2, TakenFrom
<1>4. S \subseteq 1..MaxSend
  BY SentNumbers
<1>5. rest \in [Ports -> Seq(S)] /\ rest[p] = Tail(net[p]) /\ \A q \in Ports : q # p => rest[q] = net[q]
  BY <1>1, <1>3 DEF Taken
<1>6. \A q \in Ports : net'[q] = IF Across(q) \cap out # {} THEN Append(rest[q], i) ELSE rest[q]
  BY DEF Emit
<1>7. net' = [q \in Ports |-> IF Across(q) \cap out # {} THEN Append(rest[q], i) ELSE rest[q]]
  BY DEF Emit
<1> HIDE DEF rest, S
<1>8. \A q \in Ports : rest[q] \in Seq(S) /\ Append(rest[q], i) \in Seq(S)
  <2> TAKE q \in Ports
  <2>1. rest[q] \in Seq(S)
    BY <1>5
  <2> QED BY <1>3, <2>1, AppendedTo
<1>9. net' \in [Ports -> Seq(S)]
  BY <1>7, <1>8
<1>10. ASSUME NEW h \in Host, NEW j \in 1..MaxSend
       PROVE  got'[h][j] = IF j = i /\ at[h] \in out THEN More(got[h][j]) ELSE got[h][j]
  <2>1. got'[h] = [got[h] EXCEPT ![i] = IF at[h] \in out THEN More(@) ELSE @]
    BY DEF Emit
  <2>2. got[h] \in [1..MaxSend -> 0..2]
    BY <1>1
  <2> QED BY <2>1, <2>2
<1>11. got' \in [Host -> [1..MaxSend -> 0..2]]
  <2>1. \A n \in 0..2 : More(n) \in 0..2
    BY DEF More
  <2>2. got' = [h \in Host |-> [got[h] EXCEPT ![i] = IF at[h] \in out THEN More(@) ELSE @]]
    BY DEF Emit
  <2>3. ASSUME NEW h \in Host
        PROVE  [got[h] EXCEPT ![i] = IF at[h] \in out THEN More(@) ELSE @] \in [1..MaxSend -> 0..2]
    <3>1. got[h] \in [1..MaxSend -> 0..2]
      BY <1>1
    <3> QED BY <2>1, <3>1
  <2> QED BY <2>2, <2>3
<1>12. ASSUME NEW q \in Ports, NEW j
       PROVE  /\ Present(rest[q], j) => Present(net[q], j)
              /\ Once(net[q], j) => Once(rest[q], j)
              /\ q = p /\ Once(net[p], i) => ~Present(rest[q], i)
  <2> DEFINE s == net[p]
  <2> HIDE DEF s
  <2>0. s = net[p] /\ s \in Seq(S) /\ s # <<>> /\ i = Head(s) /\ rest[p] = Tail(s)
    BY <1>2, <1>5 DEF s
  <2>3. /\ Present(Tail(s), j) => Present(s, j)
        /\ Once(s, j) => Once(Tail(s), j)
    BY <2>0, TakenFrom
  <2>4. Once(s, i) => ~Present(Tail(s), i)
    BY <2>0, TakenFrom
  <2>1. CASE q = p
    BY <2>0, <2>1, <2>3, <2>4
  <2>2. CASE q # p
    BY <1>5, <2>2
  <2> QED BY <2>1, <2>2
<1>13. ASSUME NEW q \in Ports, NEW j
       PROVE  /\ Present(Append(rest[q], i), j) <=> Present(rest[q], j) \/ j = i
              /\ Once(rest[q], j) /\ (j = i => ~Present(rest[q], j)) => Once(Append(rest[q], i), j)
  BY <1>3, <1>8, AppendedTo
<1>14. ASSUME NEW q \in Ports, NEW j, Present(net'[q], j)
       PROVE  Present(net[q], j) \/ (j = i /\ Across(q) \cap out # {})
  BY <1>6, <1>12, <1>13, <1>14
<1>15. ASSUME Once(net[p], i), NEW q \in Ports, Present(net'[q], i)
       PROVE  (q # p /\ Present(net[q], i)) \/ Across(q) \cap out # {}
  BY <1>6, <1>12, <1>13, <1>15
<1>16. ASSUME NEW q \in Ports, NEW j, Once(net[q], j),
              j = i /\ Across(q) \cap out # {} => ~Present(net[q], j)
       PROVE  Once(net'[q], j)
  <2>1. CASE Across(q) \cap out # {}
    BY <1>6, <1>12, <1>13, <1>16, <2>1
  <2>2. CASE ~(Across(q) \cap out # {})
    BY <1>6, <1>12, <1>16, <2>2
  <2> QED BY <2>1, <2>2
<1>17. Counts(i, out) /\ Brings(i, out) /\ StaysOnce(i, out)
  BY <1>10, <1>14, <1>16 DEF Counts, Brings, StaysOnce
<1>18. Once(net[p], i) => GoesOn(p, i, out)
  BY <1>15 DEF GoesOn
<1> QED BY <1>3, <1>4, <1>9, <1>11, <1>17, <1>18 DEF S

(* On a tree, a frame that goes on has its copies go different ways.       *)
LEMMA EmitCovers ==
  ASSUME Types, Tree, UNCHANGED <<topo, at, sent>>, NEW p \in Ports, net[p] # <<>>,
         NEW i, i = Head(net[p]), NEW out, out \subseteq Broadcast(p), Emit(i, out, Taken(p)),
         Cover(i)
  PROVE  Cover(i)'
<1> DEFINE New(q) == Across(q) \cap out # {}
<1>0. /\ topo \in Trees /\ topo \in Topology /\ Ports = topo.ports /\ Ports' = Ports /\ Host' = Host
      /\ \A q : Across(q) = Linked(topo, q)
      /\ \A q : Across(q)' = Across(q) /\ Out(q)' = Out(q)
  BY DEF Types, Tree, Ports, Host, Across, Out, Broadcast
<1>1. /\ i \in DOMAIN sent /\ i \in 1..MaxSend /\ Present(net[p], i)
      /\ \A h \in Host : got'[h][i] = IF at[h] \in out THEN More(got[h][i]) ELSE got[h][i]
      /\ Once(net[p], i) => \A q \in Ports : Present(net'[q], i) => (q # p /\ Present(net[q], i)) \/ New(q)
      /\ \A q \in Ports : Once(net[q], i) /\ (New(q) => ~Present(net[q], i)) => Once(net'[q], i)
  <2>1. i \in DOMAIN sent /\ i \in 1..MaxSend /\ Present(net[p], i)
    BY EmitSends, ZenonT(60)
  <2>2. Counts(i, out) /\ StaysOnce(i, out) /\ (Once(net[p], i) => GoesOn(p, i, out))
    BY EmitSends
  <2>3. Once(net[p], i) => \A q \in Ports : Present(net'[q], i) => (q # p /\ Present(net[q], i)) \/ New(q)
    BY <2>2 DEF GoesOn
  <2>4. \A q \in Ports : Once(net[q], i) /\ (New(q) => ~Present(net[q], i)) => Once(net'[q], i)
    BY <2>2 DEF StaysOnce
  <2>5. \A h \in Host : got'[h][i] = IF at[h] \in out THEN More(got[h][i]) ELSE got[h][i]
    BY <2>1, <2>2 DEF Counts
  <2> QED BY <2>1, <2>3, <2>4, <2>5
<1>2. \A q \in Ports : Once(net[q], i)
  BY DEF Cover
<1>3. \A q \in Broadcast(p) : q \in Ports /\ q[1] = p[1] /\ q # p
  BY DEF Broadcast
<1>4. ASSUME NEW q \in Ports, New(q)
      PROVE  \E r \in out : /\ r \in Ports /\ r \in Broadcast(p) /\ Across(q) = {r} /\ q \in Linked(topo, r)
                            /\ Out(q) \subseteq Reach[topo][r] /\ r \notin Out(q)
                            /\ Reach[topo][r] \subseteq Out(p) /\ r \in Out(p) /\ q # p
  <2>1. PICK r \in out : r \in Across(q)
    BY <1>4
  <2>2. r \in Broadcast(p) /\ r \in Ports /\ r[1] = p[1] /\ r # p
    BY <1>3
  <2>3. q \in Linked(topo, r) /\ Across(q) = {r}
    BY <1>0, <2>1, LinkedBoth
  <2>4. \A s \in Broadcast(q) : s \in Ports /\ s[1] = q[1] /\ s # q
    BY DEF Broadcast
  <2>5. \A s \in Broadcast(q) : r \notin Reach[topo][s] /\ Reach[topo][s] \subseteq Reach[topo][r]
    BY <1>0, <2>2, <2>3, <2>4, NotAgain
  <2>6. Out(q) \subseteq Reach[topo][r] /\ r \notin Out(q)
    BY <2>5 DEF Out
  <2>7. r \in Reach[topo][r]
    BY <1>0, <2>2, ReachSelf
  <2>8. Reach[topo][r] \subseteq Out(p)
    BY <2>2 DEF Out
  <2>9. q # p
    BY <1>0, <2>2, <2>3, <2>7, NoReturn
  <2> QED BY <2>2, <2>3, <2>6, <2>7, <2>8, <2>9
<1>5. ASSUME NEW q \in Ports, Present(net[q], i), q # p
      PROVE  Out(p) \cap Out(q) = {} /\ Out(q) \cap Out(p) = {} /\ Across(q) \cap Out(p) = {} /\ Across(p) \cap Out(q) = {}
  BY <1>1, <1>5 DEF Cover, Split
<1>6. ASSUME NEW q \in Ports, New(q)
      PROVE  ~Present(net[q], i)
  <2>1. PICK r \in out : Across(q) = {r} /\ r \in Out(p) /\ q # p
    BY <1>4, <1>6
  <2> QED BY <1>5, <2>1
<1>7. \A q \in Ports : Present(net'[q], i) => (q # p /\ Present(net[q], i)) \/ New(q)
  BY <1>1, <1>2
<1>8. \A q \in Ports : Once(net'[q], i)
  BY <1>1, <1>2, <1>6
<1> HIDE DEF New
<1>9. ASSUME NEW x \in Ports, NEW y \in Ports, Present(net'[x], i), Present(net'[y], i), x # y
      PROVE  Out(x) \cap Out(y) = {} /\ Across(x) \cap Out(y) = {}
  <2>1. CASE ~New(x) /\ ~New(y)
    <3>1. Present(net[x], i) /\ Present(net[y], i)
      BY <1>7, <1>9, <2>1
    <3> QED BY <1>9, <3>1 DEF Cover, Split
  <2>2. CASE New(x) /\ ~New(y)
    <3>1. Present(net[y], i) /\ y # p
      BY <1>7, <1>9, <2>2
    <3>2. PICK r \in out : Across(x) = {r} /\ Out(x) \subseteq Reach[topo][r] /\ Reach[topo][r] \subseteq Out(p) /\ r \in Out(p)
      BY <1>4, <2>2
    <3> QED BY <1>5, <3>1, <3>2
  <2>3. CASE ~New(x) /\ New(y)
    <3>1. Present(net[x], i) /\ x # p
      BY <1>7, <1>9, <2>3
    <3>2. PICK r \in out : Out(y) \subseteq Reach[topo][r] /\ Reach[topo][r] \subseteq Out(p)
      BY <1>4, <2>3
    <3> QED BY <1>5, <3>1, <3>2
  <2>4. CASE New(x) /\ New(y)
    <3>1. PICK r \in out : /\ r \in Ports /\ r \in Broadcast(p) /\ Across(x) = {r} /\ x \in Linked(topo, r)
                           /\ Out(x) \subseteq Reach[topo][r]
      BY <1>4, <2>4
    <3>2. PICK s \in out : /\ s \in Ports /\ s \in Broadcast(p) /\ Across(y) = {s} /\ y \in Linked(topo, s)
                           /\ Out(y) \subseteq Reach[topo][s]
      BY <1>4, <2>4
    <3>3. r # s
      BY <1>0, <1>9, <3>1, <3>2, LinkedBoth
    <3>4. r[1] = s[1]
      BY <1>3, <3>1, <3>2
    <3>5. \A z : ~(z \in Reach[topo][r] /\ z \in Reach[topo][s])
      BY <1>0, <3>1, <3>2, <3>3, <3>4, Apart
    <3>6. r \in Reach[topo][r]
      BY <1>0, <3>1, ReachSelf
    <3> QED BY <3>1, <3>2, <3>5, <3>6
  <2> QED BY <2>1, <2>2, <2>3, <2>4
<1>10. ASSUME NEW q \in Ports, Present(net'[q], i), NEW z \in Out(q)
       PROVE  z \notin out /\ \E y \in Ports : Present(net[y], i) /\ z \in Out(y)
  <2>1. CASE ~New(q)
    <3>1. Present(net[q], i) /\ q # p
      BY <1>7, <1>10, <2>1
    <3>2. \A r \in out : r \in Out(p)
      BY <1>0, <1>3, ReachSelf DEF Out
    <3> QED BY <1>5, <1>10, <3>1, <3>2
  <2>2. CASE New(q)
    <3>1. PICK r \in out : /\ r \in Ports /\ r \in Broadcast(p) /\ r \notin Out(q)
                           /\ Out(q) \subseteq Reach[topo][r] /\ Reach[topo][r] \subseteq Out(p)
      BY <1>4, <2>2
    <3>2. ASSUME z \in out
          PROVE  FALSE
      <4>1. z \in Ports /\ z[1] = r[1] /\ z # r
        BY <1>3, <1>10, <3>1, <3>2
      <4>2. z \in Reach[topo][z] /\ z \in Reach[topo][r]
        BY <1>0, <1>10, <3>1, <4>1, ReachSelf
      <4> QED BY <1>0, <3>1, <4>1, <4>2, Apart
    <3> QED BY <1>1, <1>10, <3>1, <3>2
  <2> QED BY <2>1, <2>2
<1>11. ASSUME NEW h \in Host
       PROVE  /\ got'[h][i] < 2
              /\ got'[h][i] # 0 \/ at[h] = at[sent[i].src] =>
                   \A q \in Ports : Present(net'[q], i) => at[h] \notin Out(q)
              /\ at[h] = at[sent[i].src] => got'[h][i] = 0
  <2>1. got[h][i] \in 0..2
    BY <1>1 DEF Types
  <2>2. /\ got[h][i] < 2
        /\ got[h][i] # 0 \/ at[h] = at[sent[i].src] =>
             \A q \in Ports : Present(net[q], i) => at[h] \notin Out(q)
        /\ at[h] = at[sent[i].src] => got[h][i] = 0
    BY DEF Cover, Seen
  <2>3. at[h] \in out => at[h] \in Out(p)
    BY <1>0, <1>3, ReachSelf DEF Out
  <2>4. got'[h][i] = IF at[h] \in out THEN More(got[h][i]) ELSE got[h][i]
    BY <1>1
  <2>5. CASE at[h] \in out
    <3>1. got[h][i] = 0 /\ at[h] # at[sent[i].src]
      BY <1>1, <2>2, <2>3, <2>5
    <3>2. got'[h][i] = 1
      BY <2>4, <2>5, <3>1 DEF More
    <3> QED BY <1>10, <2>5, <3>1, <3>2
  <2>6. CASE at[h] \notin out
    BY <1>10, <2>2, <2>4, <2>6
  <2> QED BY <2>5, <2>6
<1>12. Split(i)'
  BY <1>0, <1>9 DEF Split
<1>13. Seen(i)'
  BY <1>0, <1>11 DEF Seen
<1> QED BY <1>0, <1>8, <1>12, <1>13 DEF Cover
(* The other frames are where they were.                                   *)
LEMMA EmitElse ==
  ASSUME Types, UNCHANGED <<topo, at, sent>>, NEW p \in Ports, net[p] # <<>>,
         NEW i, i = Head(net[p]), NEW out, Emit(i, out, Taken(p)),
         NEW j \in DOMAIN sent, j # i, Cover(j)
  PROVE  Cover(j)'
<1>1. /\ Ports' = Ports /\ Host' = Host
      /\ \A q : Across(q)' = Across(q) /\ Out(q)' = Out(q)
  BY DEF Ports, Host, Across, Out, Broadcast
<1>2. Counts(i, out) /\ Brings(i, out) /\ StaysOnce(i, out)
  BY EmitSends
<1>3. j \in 1..MaxSend
  BY SentNumbers
<1>4. \A h \in Host : got'[h][j] = got[h][j]
  BY <1>2, <1>3 DEF Counts
<1>5. \A q \in Ports : Present(net'[q], j) => Present(net[q], j)
  BY <1>2 DEF Brings
<1>6. \A q \in Ports : Once(net'[q], j)
  BY <1>2 DEF StaysOnce, Cover
<1>7. Split(j)'
  BY <1>1, <1>5 DEF Split, Cover
<1>8. Seen(j)'
  BY <1>1, <1>4, <1>5 DEF Seen, Cover
<1> QED BY <1>1, <1>6, <1>7, <1>8 DEF Cover

(* A frame that goes on has still come from where its sender is.           *)
LEMMA EmitComes ==
  ASSUME Types, ComesFrom, UNCHANGED <<topo, at, sent, moved>>, NEW p \in Ports, net[p] # <<>>,
         NEW i, i = Head(net[p]), NEW out, out \subseteq Broadcast(p), Emit(i, out, Taken(p))
  PROVE  ComesFrom'
<1>1. topo \in Topology /\ Ports = topo.ports /\ Ports' = Ports /\ \A q : Across(q) = Linked(topo, q)
  BY DEF Types, Ports, Across
<1>2. Brings(i, out) /\ i \in DOMAIN sent /\ Present(net[p], i)
  BY EmitSends
<1>3. ASSUME NEW q \in Ports, Across(q) \cap out # {}
      PROVE  Reach[topo][p] \subseteq Reach[topo][q]
  <2>1. PICK r \in out : r \in Linked(topo, q)
    BY <1>1, <1>3
  <2>2. r \in topo.ports /\ r[1] = p[1] /\ r # p
    BY <1>1 DEF Broadcast
  <2>3. p \in Onward(topo, q)
    BY <1>1, <2>1, <2>2, OnwardIs
  <2>4. p \in Reach[topo][q]
    BY <1>1, <2>3, ReachSelf, ReachOn
  <2> QED BY <1>1, <2>4, ReachTrans
<1>4. ASSUME NEW q \in Ports, NEW j \in DOMAIN sent, Present(net'[q], j), sent[j].src \notin moved
      PROVE  at[sent[j].src] \in Reach[topo][q]
  <2>1. CASE Present(net[q], j)
    BY <1>4, <2>1 DEF ComesFrom
  <2>2. CASE j = i /\ Across(q) \cap out # {}
    <3>1. at[sent[i].src] \in Reach[topo][p]
      BY <1>2, <1>4, <2>2 DEF ComesFrom
    <3> QED BY <1>3, <2>2, <3>1
  <2> QED BY <1>2, <1>4, <2>1, <2>2 DEF Brings
<1> QED BY <1>1, <1>4 DEF ComesFrom

(* A bridge handles a frame; but for the switch's table.                   *)
LEMMA EmitStep ==
  ASSUME LInv, UNCHANGED <<topo, at, sent, moved>>, NEW p \in Ports, net[p] # <<>>,
         NEW i, i = Head(net[p]), NEW out, Emit(i, out, Taken(p)),
         bounced \subseteq bounced', bounced' \subseteq bounced \cup {i},
         i \notin bounced' => out \subseteq Broadcast(p),
         TableType',
         bounced' = {} => \A b \in Bridge : \A h \in Host \ moved : Leads(b, h)'
  PROVE  LInv'
<1>1. Types /\ Learnt
  BY DEF LInv
<1>2. /\ i \in DOMAIN sent /\ i \in 1..MaxSend
      /\ net' \in [Ports -> Seq(DOMAIN sent)]
      /\ got' \in [Host -> [1..MaxSend -> 0..2]]
      /\ Counts(i, out)
  BY <1>1, EmitSends
<1>3. \A h \in Host : \A j \in 1..MaxSend : j \notin DOMAIN sent => got'[h][j] = 0
  <2>1. \A h \in Host : \A j \in 1..MaxSend : j \notin DOMAIN sent => got[h][j] = 0
    BY <1>1 DEF Types
  <2>2. \A h \in Host : \A j \in 1..MaxSend : j # i => got'[h][j] = got[h][j]
    BY <1>2 DEF Counts
  <2> QED BY <1>2, <2>1, <2>2
<1>4. Ports' = Ports /\ Host' = Host /\ Bridge' = Bridge
  BY DEF Ports, Host, Bridge
<1>5. bounced' \subseteq DOMAIN sent
  BY <1>1, <1>2 DEF Types
<1>6. /\ topo \in Topology
      /\ at \in [DOMAIN topo.at -> Ports]
      /\ sent \in Seq([src : Host, dst : Host \cup {All}])
      /\ Len(sent) <= topo.sends
  BY <1>1 DEF Types
<1>7. Types'
  BY <1>2, <1>3, <1>4, <1>5, <1>6 DEF Types
<1>8. Learnt'
  <2>1. SUFFICES ASSUME bounced' = {}
                 PROVE  (ComesFrom /\ \A b \in Bridge : \A h \in Host \ moved : Leads(b, h))'
    BY DEF Learnt
  <2>2. bounced = {} /\ out \subseteq Broadcast(p)
    BY <2>1
  <2>3. ComesFrom
    BY <1>1, <2>2 DEF Learnt
  <2>4. ComesFrom'
    BY <1>1, <2>2, <2>3, EmitComes
  <2> QED BY <1>4, <2>1, <2>4
<1>9. ASSUME Tree, moved = {}, NEW j \in DOMAIN sent, j \notin bounced'
      PROVE  Cover(j)'
  <2>1. j \notin bounced /\ Cover(j)
    BY <1>9 DEF LInv
  <2>2. CASE j = i
    BY <1>1, <1>9, <2>1, <2>2, EmitCovers
  <2>3. CASE j # i
    BY <1>1, <2>1, <2>3, EmitElse
  <2> QED BY <2>2, <2>3
<1>10. Tree' <=> Tree
  BY DEF Tree
<1>11. (Tree /\ moved = {} => \A j \in DOMAIN sent \ bounced : Cover(j))'
  BY <1>9, <1>10
<1> QED BY <1>7, <1>8, <1>11 DEF LInv

LEMMA HubStep ==
  ASSUME LInv, NEW p \in Ports, HubRun(p)
  PROVE  LInv'
<1> DEFINE i == Head(net[p])
<1>1. /\ net[p] # <<>> /\ Emit(i, Broadcast(p), Taken(p))
      /\ UNCHANGED <<topo, at, sent, moved, table, bounced>>
  BY DEF HubRun, HandleHub
<1> HIDE DEF i
<1>2. TableType /\ (bounced = {} => \A b \in Bridge : \A h \in Host \ moved : Leads(b, h))
  BY DEF LInv, Types, Learnt
<1>3. TableType'
  BY <1>1, <1>2 DEF TableType, Bridge, Host, Ports, Ifaces
<1>4. \A b, h : Leads(b, h)' <=> Leads(b, h)
  BY <1>1 DEF Leads, Beyond, Host
<1> QED BY <1>1, <1>2, <1>3, <1>4, EmitStep DEF i

(* What the lookups of a frame leave of the table.                         *)
LEMMA LearnIs ==
  ASSUME Types, NEW p \in Ports, NEW i, Present(net[p], i),
         NEW tab, tab = table[p[1]]
  PROVE  /\ i \in DOMAIN sent
         /\ sent[i] \in [src : Host, dst : Host \cup {All}]
         /\ \A h \in Host :
              LET e == Learn(tab, p, sent[i])[h] IN
              /\ e \in [iface : Ports, age : 0..Timeout - 1] \cup {None}
              /\ e # None => \/ h = sent[i].src /\ e.iface = p
                             \/ tab[h] # None /\ e.iface = tab[h].iface
<1> DEFINE E == [iface : Ports, age : 0..Timeout - 1]
           f == sent[i]
<1>1. net[p] \in Seq(DOMAIN sent)
  BY DEF Types
<1>2. i \in DOMAIN sent
  BY <1>1, PresentIn
<1>3. f \in [src : Host, dst : Host \cup {All}]
  <2> DEFINE F == [src : Host, dst : Host \cup {All}]
  <2>1. sent \in Seq(F)
    BY DEF Types
  <2> HIDE DEF F
  <2>2. sent[i] \in F
    BY <1>2, <2>1, ElementOfSeq, LenProperties
  <2> QED BY <2>2 DEF F, f
<1>4. p[1] \in Bridge /\ None \notin E
  BY PortsType DEF Types
<1>5. tab \in [Host -> E \cup {None}]
  BY <1>4 DEF Types, TableType
<1>6. 0 \in 0..Timeout - 1
  BY TimeoutAssumption
<1>7. \A q \in Ports : Entry(q) \in E /\ Entry(q).iface = q
  BY <1>6 DEF Entry
<1> HIDE DEF E, f
<1>8. \A e \in E : e.iface \in Ports
  BY DEF E
<1>9. Visited(None) = None /\ \A e \in E : Visited(e) \in E /\ Visited(e).iface = e.iface
  BY <1>4, <1>7, <1>8 DEF Visited
<1>10. ASSUME NEW h \in Host
       PROVE  /\ Learn(tab, p, f)[h] \in E \cup {None}
              /\ Learn(tab, p, f)[h] # None => \/ h = f.src /\ Learn(tab, p, f)[h].iface = p
                                               \/ tab[h] # None /\ Learn(tab, p, f)[h].iface = tab[h].iface
  <2>1. Learn(tab, p, f)[h] = IF h = f.src /\ tab[h] = None THEN Entry(p)
                              ELSE IF h \in {f.src, f.dst} THEN Visited(tab[h]) ELSE tab[h]
    BY DEF Learn
  <2>2. tab[h] \in E \cup {None}
    BY <1>5
  <2>3. CASE h = f.src /\ tab[h] = None
    BY <1>7, <2>1, <2>3
  <2>4. CASE ~(h = f.src /\ tab[h] = None) /\ h \in {f.src, f.dst}
    <3>1. Learn(tab, p, f)[h] = Visited(tab[h])
      BY <2>1, <2>4
    <3>2. CASE tab[h] = None
      BY <1>9, <3>1, <3>2
    <3>3. CASE tab[h] \in E
      BY <1>4, <1>9, <3>1, <3>3
    <3> QED BY <2>2, <3>2, <3>3
  <2>5. CASE ~(h = f.src /\ tab[h] = None) /\ h \notin {f.src, f.dst}
    BY <2>1, <2>2, <2>5
  <2> QED BY <2>3, <2>4, <2>5
<1> QED BY <1>2, <1>3, <1>10 DEF E, f


LEMMA SwitchStep ==
  ASSUME LInv, NEW p \in Ports, SwitchRun(p)
  PROVE  LInv'
<1> DEFINE i == Head(net[p])
           dst == sent[i].dst
           out == Target(p, dst)
           tab == table[p[1]]
           new == Learn(tab, p, sent[i])
<1>1. /\ net[p] # <<>> /\ Emit(i, out, Taken(p))
      /\ UNCHANGED <<topo, at, sent, moved>>
      /\ table' = [table EXCEPT ![p[1]] = new]
      /\ bounced' = IF Back(p, dst) THEN bounced \cup {i} ELSE bounced
  BY DEF SwitchRun, HandleSwitch
<1>2. Types /\ TableType /\ topo \in Topology /\ Learnt
  BY DEF LInv, Types
<1>3. p[1] \in Bridge /\ p \in Ifaces(p[1])
  BY <1>2, PortsType DEF Ifaces
<1>4. Present(net[p], i)
  <2>1. net[p] \in Seq(DOMAIN sent)
    BY <1>2 DEF Types
  <2> QED BY <1>1, <2>1, TakenFrom
<1> HIDE DEF i
<1>5. i \in DOMAIN sent /\ sent[i] \in [src : Host, dst : Host \cup {All}]
  BY <1>2, <1>4, LearnIs
<1>6. \A h \in Host : /\ new[h] \in [iface : Ports, age : 0..Timeout - 1] \cup {None}
                      /\ new[h] # None => \/ h = sent[i].src /\ new[h].iface = p
                                          \/ tab[h] # None /\ new[h].iface = tab[h].iface
  BY <1>2, <1>4, LearnIs
<1>7. tab \in [Host -> [iface : Ports, age : 0..Timeout - 1] \cup {None}]
  BY <1>2, <1>3 DEF TableType
<1>8. new \in [Host -> [iface : Ports, age : 0..Timeout - 1] \cup {None}]
  <2>1. new = [h \in Host |-> new[h]]
    BY DEF Learn
  <2> HIDE DEF new
  <2> QED BY <1>6, <2>1
<1>9. dst \in Host \cup {All}
  BY <1>5
<1> HIDE DEF new
<1>10. /\ table'[p[1]] = new
       /\ \A b \in Bridge : b # p[1] => table'[b] = table[b]
       /\ table' \in [Bridge -> [Host -> [iface : Ports, age : 0..Timeout - 1] \cup {None}]]
  BY <1>1, <1>2, <1>3, <1>8 DEF TableType
<1>11. Ports' = Ports /\ Host' = Host /\ Bridge' = Bridge /\ \A b : Ifaces(b)' = Ifaces(b)
  BY <1>1 DEF Ports, Host, Bridge, Ifaces
<1>12. \A b \in Bridge : \A h \in Host : table'[b][h] # None =>
         \/ b = p[1] /\ h = sent[i].src /\ table'[b][h].iface = p
         \/ table[b][h] # None /\ table'[b][h].iface = table[b][h].iface
  BY <1>6, <1>10
<1>13. TableType'
  <2>1. \A b \in Bridge : \A h \in Host : table'[b][h] # None => table'[b][h].iface \in Ifaces(b)
    BY <1>2, <1>3, <1>12 DEF TableType
  <2> QED BY <1>10, <1>11, <2>1 DEF TableType
<1>14. ASSUME bounced' = {}, NEW b \in Bridge, NEW h \in Host \ moved
       PROVE  Leads(b, h)'
  <2>1. bounced = {} /\ ComesFrom /\ Leads(b, h)
    BY <1>1, <1>2, <1>14 DEF Learnt
  <2>2. table'[b][h] # None => at[h] \in Reach[topo][table'[b][h].iface]
    <3>1. CASE b = p[1] /\ h = sent[i].src /\ table'[b][h].iface = p
      BY <1>4, <1>5, <2>1, <3>1 DEF ComesFrom
    <3>2. CASE table[b][h] # None /\ table'[b][h].iface = table[b][h].iface
      BY <2>1, <3>2 DEF Leads, Beyond
    <3> QED BY <1>12, <3>1, <3>2
  <2> QED BY <1>1, <2>2 DEF Leads, Beyond, Host
<1>15. ASSUME i \notin bounced'
       PROVE  out \subseteq Broadcast(p)
  <2>1. ~Back(p, dst)
    BY <1>1, <1>15
  <2>2. CASE Flooded(p, dst)
    BY <2>2 DEF Target
  <2>3. CASE ~Flooded(p, dst)
    <3>1. dst \in Host /\ tab[dst] # None
      BY <1>9, <2>3 DEF Flooded
    <3>2. tab[dst].iface \in Ifaces(p[1]) /\ tab[dst].iface # p
      BY <1>2, <1>3, <2>1, <2>3, <3>1 DEF TableType, Back
    <3> QED BY <2>3, <3>2 DEF Target, Ifaces, Broadcast
  <2> QED BY <2>2, <2>3
<1> HIDE DEF out, tab, dst
<1>16. bounced \subseteq bounced' /\ bounced' \subseteq bounced \cup {i}
  BY <1>1
<1>17. i = Head(net[p])
  BY DEF i
<1> QED BY <1>1, <1>13, <1>14, <1>15, <1>16, <1>17, EmitStep

(* A second more.                                                          *)
LEMMA SweepStep ==
  ASSUME LInv, sweep_aged_mac_port_entry
  PROVE  LInv'
<1> DEFINE E == [iface : Ports, age : 0..Timeout - 1]
<1>1. Types /\ TableType /\ Learnt /\ topo \in Topology
  BY DEF LInv, Types
<1>2. UNCHANGED <<topo, at, sent, net, got, moved, bounced>>
  BY DEF sweep_aged_mac_port_entry
<1>3. table' = [b \in Bridge |-> [h \in Host |-> Aged(table[b][h])]]
  BY DEF sweep_aged_mac_port_entry
<1>4. None \notin E
  BY <1>1, PortsType
<1>5. \A e \in E \cup {None} : /\ Aged(e) \in E \cup {None}
                               /\ Aged(e) # None => e # None /\ Aged(e).iface = e.iface
  <2>1. ASSUME NEW e \in E, ~(e.age + 1 >= Timeout)
        PROVE  [e EXCEPT !.age = @ + 1] \in E /\ [e EXCEPT !.age = @ + 1].iface = e.iface
    <3>1. e.age \in 0..Timeout - 1
      OBVIOUS
    <3>2. e.age + 1 \in 0..Timeout - 1
      BY <2>1, <3>1, TimeoutAssumption
    <3> QED BY <3>2
  <2> HIDE DEF E
  <2> QED BY <1>4, <2>1 DEF Aged
<1>6. table \in [Bridge -> [Host -> E \cup {None}]]
  BY <1>1 DEF TableType
<1> HIDE DEF E
<1>7. \A b \in Bridge : \A h \in Host : /\ table'[b][h] = Aged(table[b][h])
                                        /\ table[b][h] \in E \cup {None}
  BY <1>3, <1>6
<1>8. \A b \in Bridge : \A h \in Host :
        table'[b][h] # None => table[b][h] # None /\ table'[b][h].iface = table[b][h].iface
  BY <1>5, <1>7
<1>9. table' \in [Bridge -> [Host -> E \cup {None}]]
  <2>1. \A b \in Bridge : \A h \in Host : Aged(table[b][h]) \in E \cup {None}
    BY <1>5, <1>7
  <2> QED BY <1>3, <2>1
<1>10. \A b \in Bridge : \A h \in Host : table'[b][h] # None => table'[b][h].iface \in Ifaces(b)
  BY <1>1, <1>8 DEF TableType
<1>11. Ports' = Ports /\ Host' = Host /\ Bridge' = Bridge /\ \A b : Ifaces(b)' = Ifaces(b)
  BY <1>2 DEF Ports, Host, Bridge, Ifaces
<1>12. TableType'
  BY <1>9, <1>10, <1>11 DEF TableType, E
<1>13. Types'
  BY <1>1, <1>2, <1>11, <1>12 DEF Types
<1>14. Learnt'
  <2>1. \A b \in Bridge : \A h \in Host : Leads(b, h) => Leads(b, h)'
    BY <1>2, <1>8, <1>11 DEF Leads, Beyond
  <2>2. ComesFrom' <=> ComesFrom
    BY <1>2, <1>11 DEF ComesFrom
  <2> QED BY <1>1, <1>2, <1>11, <2>1, <2>2 DEF Learnt
<1>15. \A j : Cover(j)' <=> Cover(j)
  BY <1>2, <1>11 DEF Cover, Split, Seen, Out, Across, Broadcast
<1>16. Tree' <=> Tree
  BY <1>2 DEF Tree
<1> QED BY <1>2, <1>13, <1>14, <1>15, <1>16 DEF LInv

(* A station sends a frame.                                                *)
LEMMA SendStep ==
  ASSUME LInv, NEW h \in Host, NEW dst \in Host \cup {All}, Send(h, dst)
  PROVE  LInv'
<1> DEFINE n == Len(sent) + 1
           f == [src |-> h, dst |-> dst]
           F == [src : Host, dst : Host \cup {All}]
           a == at[h]
<1>1. Types /\ TableType /\ Learnt /\ topo \in Topology
  BY DEF LInv, Types
<1>2. /\ Len(sent) < topo.sends
      /\ sent' = Append(sent, f)
      /\ net' = [net EXCEPT ![a] = Append(@, Len(sent'))]
      /\ UNCHANGED <<topo, at, table, got, moved, bounced>>
  BY DEF Send
<1>3. Ports' = Ports /\ Host' = Host /\ Bridge' = Bridge /\ \A b : Ifaces(b)' = Ifaces(b)
  BY <1>2 DEF Ports, Host, Bridge, Ifaces
<1>4. DOMAIN sent = 1..Len(sent) /\ Len(sent) \in Nat /\ DOMAIN sent \subseteq 1..MaxSend
  BY <1>1, SentNumbers
<1>5. topo.sends \in 0..MaxSend
  BY <1>1, PortsType
<1>6. sent \in Seq(F) /\ f \in F
  BY <1>1 DEF Types
<1>7. a \in Ports
  BY <1>1 DEF Types, Host
<1> HIDE DEF F, f, a
<1>8. /\ sent' \in Seq(F) /\ Len(sent') = n /\ sent'[n] = f
      /\ \A j \in DOMAIN sent : sent'[j] = sent[j]
  BY <1>2, <1>4, <1>6, AppendProperties
<1>9. DOMAIN sent' = 1..n
  BY <1>8, LenProperties
<1>10. n \in Nat /\ DOMAIN sent' = DOMAIN sent \cup {n} /\ n \notin DOMAIN sent /\ n \in 1..MaxSend /\ n <= topo.sends
  BY <1>2, <1>4, <1>5, <1>9, TimeoutAssumption
<1> HIDE DEF n
<1>11. net' = [net EXCEPT ![a] = Append(@, n)]
  BY <1>2, <1>8
<1>12. net \in [Ports -> Seq(DOMAIN sent)]
  BY <1>1 DEF Types
<1>13. \A q \in Ports : net[q] \in Seq(DOMAIN sent') /\ ~Present(net[q], n)
  <2> TAKE q \in Ports
  <2>1. net[q] \in Seq(DOMAIN sent)
    BY <1>12
  <2>2. ~Present(net[q], n)
    BY <1>10, <2>1, PresentIn
  <2>4. net[q] \in Seq(DOMAIN sent')
    BY <1>10, <2>1, SeqMonotonic
  <2> QED BY <2>2, <2>4
<1>14. net'[a] = Append(net[a], n) /\ \A q \in Ports : q # a => net'[q] = net[q]
  BY <1>7, <1>11, <1>12
<1>15. \A j : /\ Append(net[a], n) \in Seq(DOMAIN sent')
              /\ Present(Append(net[a], n), j) <=> Present(net[a], j) \/ j = n
              /\ Once(net[a], j) /\ (j = n => ~Present(net[a], j)) => Once(Append(net[a], n), j)
  <2> DEFINE s == net[a]
  <2>1. s \in Seq(DOMAIN sent') /\ n \in DOMAIN sent'
    BY <1>7, <1>10, <1>13
  <2> HIDE DEF s
  <2>2. \A j : /\ Append(s, n) \in Seq(DOMAIN sent')
               /\ Present(Append(s, n), j) <=> Present(s, j) \/ j = n
               /\ Once(s, j) /\ (j = n => ~Present(s, j)) => Once(Append(s, n), j)
    BY <2>1, AppendedTo
  <2> QED BY <2>2 DEF s
<1>16. net' \in [Ports -> Seq(DOMAIN sent')]
  <2>1. \A q \in Ports : net'[q] \in Seq(DOMAIN sent')
    BY <1>13, <1>14, <1>15
  <2>2. net' = [q \in Ports |-> net'[q]]
    BY <1>11, <1>12
  <2> QED BY <2>1, <2>2
<1>17. \A q \in Ports : \A j : Present(net'[q], j) <=> Present(net[q], j) \/ (j = n /\ q = a)
  BY <1>14, <1>15
<1>18. \A q \in Ports : \A j : Once(net[q], j) => Once(net'[q], j)
  BY <1>7, <1>13, <1>14, <1>15
<1>19. TableType'
  BY <1>1, <1>2, <1>3 DEF TableType
<1>20. /\ topo \in Topology
       /\ at \in [DOMAIN topo.at -> Ports]
       /\ got \in [Host -> [1..MaxSend -> 0..2]]
       /\ \A x \in Host : \A j \in 1..MaxSend : j \notin DOMAIN sent => got[x][j] = 0
       /\ bounced \subseteq DOMAIN sent
  BY <1>1 DEF Types
<1>21. \A x \in Host : \A j \in 1..MaxSend : j \notin DOMAIN sent' => got[x][j] = 0
  BY <1>10, <1>20
<1>22. sent' \in Seq([src : Host, dst : Host \cup {All}]) /\ Len(sent') <= topo.sends
  BY <1>8, <1>10 DEF F
<1>23. bounced \subseteq DOMAIN sent'
  BY <1>10, <1>20
<1>24. Types'
  BY <1>2, <1>3, <1>16, <1>19, <1>20, <1>21, <1>22, <1>23 DEF Types
<1>25. f.src = h
  BY DEF f
<1>26. ComesFrom => ComesFrom'
  <2> SUFFICES ASSUME ComesFrom, NEW q \in Ports, NEW j \in DOMAIN sent', Present(net'[q], j),
                      sent'[j].src \notin moved
               PROVE  at[sent'[j].src] \in Reach[topo][q]
    BY <1>2, <1>3 DEF ComesFrom
  <2>1. CASE j \in DOMAIN sent
    <3>1. Present(net[q], j)
      BY <1>10, <1>17, <2>1
    <3> QED BY <1>8, <2>1, <3>1 DEF ComesFrom
  <2>2. CASE j = n
    <3>1. q = a /\ at[sent'[j].src] = a
      BY <1>8, <1>13, <1>17, <1>25, <2>2 DEF a
    <3>2. a \in topo.ports
      BY <1>7 DEF Ports
    <3> QED BY <1>1, <3>1, <3>2, ReachSelf
  <2> QED BY <1>10, <2>1, <2>2
<1>27. Learnt'
  <2>1. \A b, x : Leads(b, x)' <=> Leads(b, x)
    BY <1>2 DEF Leads, Beyond, Host
  <2> QED BY <1>1, <1>2, <1>3, <1>26, <2>1 DEF Learnt
<1>28. \A q : Across(q)' = Across(q) /\ Out(q)' = Out(q)
  BY <1>2 DEF Across, Out, Broadcast, Ports
<1>29. ASSUME NEW j \in DOMAIN sent, Cover(j)
       PROVE  Cover(j)'
  <2>1. \A q \in Ports : Present(net'[q], j) <=> Present(net[q], j)
    BY <1>10, <1>17
  <2>2. Split(j)'
    BY <1>3, <1>28, <1>29, <2>1 DEF Cover, Split
  <2>3. Seen(j)'
    BY <1>2, <1>3, <1>8, <1>28, <1>29, <2>1 DEF Cover, Seen
  <2>4. \A q \in Ports : Once(net'[q], j)
    BY <1>18, <1>29 DEF Cover
  <2> QED BY <1>3, <2>2, <2>3, <2>4 DEF Cover
<1>30. ASSUME Tree, NEW m, m = n
       PROVE  Cover(m)'
  <2>1. \A q \in Ports : Present(net'[q], m) <=> q = a
    BY <1>13, <1>17, <1>30
  <2>2. Split(m)'
    BY <1>3, <2>1 DEF Split
  <2>3. a \notin Out(a)
    <3>1. topo \in Trees /\ a \in topo.ports /\ \A q \in Broadcast(a) : q \in topo.ports /\ q[1] = a[1] /\ q # a
      BY <1>7, <1>30 DEF Tree, Ports, Broadcast
    <3>2. a \in Reach[topo][a]
      BY <1>1, <3>1, ReachSelf
    <3>3. \A q \in Broadcast(a) : a \notin Reach[topo][q]
      BY <3>1, <3>2, Apart
    <3> QED BY <3>3 DEF Out
  <2>4. \A x \in Host : got[x][m] = 0
    BY <1>10, <1>20, <1>30
  <2>5. at[sent'[m].src] = a
    BY <1>8, <1>25, <1>30 DEF a
  <2>6. Seen(m)'
    BY <1>2, <1>3, <1>28, <2>1, <2>3, <2>4, <2>5 DEF Seen
  <2>7. \A q \in Ports : Once(net[q], m)
    BY <1>13, <1>30 DEF Once, Present
  <2>8. \A q \in Ports : Once(net'[q], m)
    BY <1>18, <2>7
  <2> QED BY <1>3, <2>2, <2>6, <2>8 DEF Cover
<1>31. (Tree /\ moved = {} => \A j \in DOMAIN sent \ bounced : Cover(j))'
  <2> SUFFICES ASSUME Tree, moved = {}, NEW j \in DOMAIN sent', j \notin bounced
               PROVE  Cover(j)'
    BY <1>2 DEF Tree
  <2>1. CASE j \in DOMAIN sent
    BY <1>29, <2>1 DEF LInv
  <2>2. CASE j = n
    BY <1>30, <2>2
  <2> QED BY <1>10, <2>1, <2>2
<1> QED BY <1>24, <1>27, <1>31 DEF LInv

(* A station is plugged in elsewhere.                                      *)
LEMMA MoveStep ==
  ASSUME LInv, NEW h \in Host, NEW p \in Ports, Move(h, p)
  PROVE  LInv'
<1>1. Types /\ TableType /\ Learnt /\ topo \in Topology
  BY DEF LInv, Types
<1>2. /\ at' = [at EXCEPT ![h] = p] /\ moved' = moved \cup {h}
      /\ UNCHANGED <<topo, table, sent, net, got, bounced>>
  BY DEF Move
<1>3. at \in [DOMAIN topo.at -> Ports]
  BY <1>1 DEF Types
<1>4. at' \in [DOMAIN topo.at -> Ports] /\ DOMAIN at' = DOMAIN at /\ \A x \in Host : x # h => at'[x] = at[x]
  BY <1>2, <1>3 DEF Host
<1>5. Ports' = Ports /\ Host' = Host /\ Bridge' = Bridge /\ \A b : Ifaces(b)' = Ifaces(b)
  BY <1>2, <1>4 DEF Ports, Host, Bridge, Ifaces
<1>6. TableType'
  BY <1>1, <1>2, <1>5 DEF TableType
<1>7. Types'
  BY <1>1, <1>2, <1>4, <1>5, <1>6 DEF Types
<1>8. ComesFrom => ComesFrom'
  <2>1. \A j \in DOMAIN sent : sent[j].src \in Host
    <3> DEFINE F == [src : Host, dst : Host \cup {All}]
    <3>1. sent \in Seq(F) /\ \A f \in F : f.src \in Host
      BY <1>1 DEF Types
    <3> HIDE DEF F
    <3> QED BY <3>1, ElementOfSeq, LenProperties
  <2>2. ASSUME ComesFrom, NEW q \in Ports, NEW j \in DOMAIN sent, Present(net[q], j), sent[j].src \notin moved'
        PROVE  at'[sent[j].src] \in Reach[topo][q]
    BY <1>2, <1>4, <2>1, <2>2 DEF ComesFrom
  <2> QED BY <1>2, <1>5, <2>2 DEF ComesFrom
<1>9. Learnt'
  <2>1. ASSUME NEW b \in Bridge, NEW x \in Host \ moved', Leads(b, x)
        PROVE  Leads(b, x)'
    BY <1>2, <1>4, <1>5, <2>1 DEF Leads, Beyond
  <2> QED BY <1>1, <1>2, <1>5, <1>8, <2>1 DEF Learnt
<1>10. moved' # {}
  BY <1>2
<1> QED BY <1>7, <1>9, <1>10 DEF LInv

LEMMA LanNextInv == LInv /\ [LanNext]_lanVars => LInv'
<1> SUFFICES ASSUME LInv, [LanNext]_lanVars PROVE LInv'
  OBVIOUS
<1>1. CASE \E p \in Ports : HubRun(p) \/ SwitchRun(p)
  BY <1>1, HubStep, SwitchStep
<1>2. CASE sweep_aged_mac_port_entry
  BY <1>2, SweepStep
<1>3. CASE \E h \in Host : \E dst \in Host \cup {All} : Send(h, dst)
  BY <1>3, SendStep
<1>4. CASE \E h \in Host : \E p \in Ports : Move(h, p)
  BY <1>4, MoveStep
<1>5. CASE UNCHANGED lanVars
  <2>1. UNCHANGED <<topo, at, table, sent, net, got, moved, bounced>>
    BY <1>5 DEF lanVars
  <2>2. Ports' = Ports /\ Host' = Host /\ Bridge' = Bridge /\ \A b : Ifaces(b)' = Ifaces(b)
    BY <2>1 DEF Ports, Host, Bridge, Ifaces
  <2>3. Types' <=> Types
    BY <2>1, <2>2 DEF Types, TableType
  <2>4. \A j : Cover(j)' <=> Cover(j)
    BY <2>1, <2>2 DEF Cover, Split, Seen, Out, Across, Broadcast
  <2>5. Learnt' <=> Learnt
    BY <2>1, <2>2 DEF Learnt, ComesFrom, Leads, Beyond
  <2> QED BY <2>1, <2>3, <2>4, <2>5 DEF LInv, Tree
<1> QED BY <1>1, <1>2, <1>3, <1>4, <1>5 DEF LanNext

LEMMA LanInvariant == LanSpec => []LInv
<1>1. LanInit => LInv
  BY LanInitInv
<1>2. LInv /\ [LanNext]_lanVars => LInv'
  BY LanNextInv
<1> QED BY <1>1, <1>2, PTL DEF LanSpec

(* What mac_port_map says of a station that has not moved is where it is.  *)
THEOREM LearntLeadsThere == LanSpec => []LearntPort
<1>1. LInv => LearntPort
  <2> SUFFICES ASSUME LInv PROVE LearntPort
    OBVIOUS
  <2>1. Types /\ TableType /\ Learnt
    BY DEF LInv, Types
  <2>2. at \in [Host -> Ports]
    BY <2>1 DEF Types, Host
  <2>3. ASSUME NEW b \in Bridge
        PROVE  table[b] \in [Host -> MacPortEntry(b) \cup {None}]
    <3>1. table[b] \in [Host -> [iface : Ports, age : 0..Timeout - 1] \cup {None}]
      BY <2>1 DEF TableType
    <3>2. ASSUME NEW h \in Host
          PROVE  table[b][h] \in MacPortEntry(b) \cup {None}
      <4>1. table[b][h] # None => table[b][h].iface \in Ifaces(b)
        BY <2>1 DEF TableType
      <4>2. table[b][h] \in [iface : Ports, age : 0..Timeout - 1] \cup {None}
        BY <3>1
      <4> QED BY <4>1, <4>2 DEF MacPortEntry
    <3> QED BY <3>1, <3>2
  <2>4. LanTypeOK
    BY <2>2, <2>3 DEF LanTypeOK
  <2> QED BY <2>1, <2>4 DEF LearntPort, Learnt
<1> QED BY <1>1, LanInvariant, PTL

(* Flooding and forwarding deliver a frame of a tree at most once to each. *)
THEOREM NothingComesTwice == LanSpec => []OnceOnly
<1>1. LInv => OnceOnly
  <2> SUFFICES ASSUME LInv, Tree, moved = {}, NEW j \in DOMAIN sent \ bounced
               PROVE  got[sent[j].src][j] = 0 /\ \A h \in Host : got[h][j] < 2
    BY DEF OnceOnly
  <2>1. Seen(j)
    BY DEF LInv, Cover
  <2>2. sent[j].src \in Host
    <3> DEFINE F == [src : Host, dst : Host \cup {All}]
    <3>1. sent \in Seq(F) /\ \A f \in F : f.src \in Host
      BY DEF LInv, Types
    <3> HIDE DEF F
    <3> QED BY <3>1, ElementOfSeq, LenProperties
  <2> QED BY <2>1, <2>2 DEF Seen
<1> QED BY <1>1, LanInvariant, PTL
=============================================================================
