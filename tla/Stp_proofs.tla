----------------------------- MODULE Stp_proofs -----------------------------
(***************************************************************************)
(* For every topology: the root a switch believes in only improves, root   *)
(* ports never form a cycle, and costs are those of ways that exist.       *)
(*                                                                         *)
(* Root and cost of a switch are compared lexicographically.  The          *)
(* invariant is about one direction of a link: what a switch has sent gets *)
(* no worse from one packet to the next, the switch itself is no worse     *)
(* than the last of them, and the first of them no worse than what the     *)
(* other end has believed.  So a worse packet never comes in on a root     *)
(* port, which therefore keeps the better root it has led to.              *)
(*                                                                         *)
(* A second invariant, over the first, is about costs (Grounded).          *)
(***************************************************************************)
EXTENDS Stp, SequenceTheorems, FiniteSetTheorems, WellFoundedInduction, TLAPS

\* a switch, a packet or a port names a root and the cost to it
NoWorse(v, w) == v.root < w.root \/ (v.root = w.root /\ v.cost <= w.cost)

\* from n, which is in state w, to the port pt of s; q is on its way
LinkOk(n, s, w, q, pt) ==
  /\ \A i \in 1..Len(q) :
       /\ q[i].switch = n /\ q[i].port = s
       /\ q[i].cost = 0 => q[i].root = n
       /\ NoWorse(w, q[i])
  /\ \A i, j \in 1..Len(q) : i < j => NoWorse(q[j], q[i])
  /\ \/ pt.switch = s /\ pt.port = n
     \/ /\ pt.switch = n /\ pt.port = s /\ NoWorse(w, pt)
        /\ \A i \in 1..Len(q) : NoWorse(q[i], pt)

Links == \A s \in Switch : \A n \in Peer(s) : LinkOk(n, s, sw[n], net[<<n, s>>], port[<<s, n>>])

\* the switch agrees with its root port, or is the root of all it knows
SwitchOk(s) ==
  /\ sw[s].cost = 0 => sw[s].root = s
  /\ sw[s].root_port = NoPort =>
       /\ sw[s].root = s /\ sw[s].cost = 0
       /\ \A n \in Peer(s) : port[<<s, n>>] = Own(s, n, s, 0)
  /\ sw[s].root_port # NoPort =>
       LET n == sw[s].root_port
       IN /\ n \in Peer(s) /\ port[<<s, n>>].switch = n
          /\ sw[s].root = port[<<s, n>>].root
          /\ sw[s].cost = port[<<s, n>>].cost + 1

State == [root : Switch, cost : Nat, root_port : Switch \cup {NoPort}, hello : BOOLEAN]

IInv == TypeOK /\ Links /\ \A s \in Switch : SwitchOk(s)

(***************************************************************************)
(* Configs                                                                 *)
(***************************************************************************)
LEMMA ConfigFields ==
  ASSUME NEW c \in Config
  PROVE  c.root \in Nat /\ c.cost \in Nat /\ c.switch \in Nat /\ c.port \in Nat
BY SwitchAssumption DEF Config

LEMMA OwnFields ==
  ASSUME NEW s \in Switch, NEW n \in Switch, NEW root \in Switch, NEW cost \in Nat
  PROVE  /\ Own(s, n, root, cost) \in Config
         /\ Own(s, n, root, cost).root = root /\ Own(s, n, root, cost).cost = cost
         /\ Own(s, n, root, cost).switch = s /\ Own(s, n, root, cost).port = n
BY DEF Own, Config

LEMMA LeastNat ==
  ASSUME NEW T \in SUBSET Nat, T # {}
  PROVE  \E x \in T : \A y \in T : x <= y
<1>1. IsWellFoundedOn(OpToRel(<, Nat), Nat)
  BY NatLessThanWellFounded
<1>2. PICK x \in T : \A y \in T : ~(<<y, x>> \in OpToRel(<, Nat))
  BY <1>1, WFMin
<1>3. \A y \in T : ~(y < x)
  BY <1>2 DEF OpToRel
<1> QED
  BY <1>3

\* one of some configs is best, since their senders can be told apart
LEMMA BestExists ==
  ASSUME NEW D \in SUBSET Nat, D # {}, NEW heard,
         \A m \in D : heard[m] \in Config /\ heard[m].switch = m
  PROVE  \E m \in D : \A k \in D \ {m} : ~Better(heard[k], heard[m])
<1> DEFINE Roots == {heard[m].root : m \in D}
<1>1. \A m \in D : /\ heard[m].root \in Nat /\ heard[m].cost \in Nat
                   /\ heard[m].switch = m /\ m \in Nat
  BY ConfigFields
<1>2. PICK a \in D : \A m \in D : heard[a].root <= heard[m].root
  <2>1. Roots \in SUBSET Nat /\ Roots # {}
    BY <1>1
  <2>2. \E x \in Roots : \A y \in Roots : x <= y
    BY <2>1, LeastNat
  <2> QED
    BY <2>2
<1> DEFINE First == {m \in D : heard[m].root = heard[a].root}
           Costs == {heard[m].cost : m \in First}
<1>3. PICK b \in First : \A m \in First : heard[b].cost <= heard[m].cost
  <2>1. Costs \in SUBSET Nat /\ Costs # {}
    BY <1>1
  <2>2. \E x \in Costs : \A y \in Costs : x <= y
    BY <2>1, LeastNat
  <2> QED
    BY <2>2
<1> DEFINE Second == {m \in First : heard[m].cost = heard[b].cost}
<1>4. PICK m \in Second : \A k \in Second : m <= k
  <2>1. Second \in SUBSET Nat /\ Second # {}
    BY <1>1, <1>3
  <2> QED
    BY <2>1, LeastNat
<1>5. m \in D /\ heard[m].root = heard[a].root /\ heard[m].cost = heard[b].cost
  BY <1>4
<1>6. ASSUME NEW k \in D \ {m}
      PROVE  ~Better(heard[k], heard[m])
  <2>1. heard[m].root <= heard[k].root
    BY <1>2, <1>5
  <2>2. heard[k].root = heard[m].root => heard[m].cost <= heard[k].cost
    BY <1>3, <1>5
  <2>3. heard[k].root = heard[m].root /\ heard[k].cost = heard[m].cost => m < k
    <3> HAVE heard[k].root = heard[m].root /\ heard[k].cost = heard[m].cost
    <3>1. k \in Second
      BY <1>5
    <3> QED
      BY <1>1, <1>4, <1>5, <3>1
  <2> QED
    BY <1>1, <1>5, <2>1, <2>2, <2>3 DEF Better
<1> QED
  BY <1>5, <1>6

(***************************************************************************)
(* One direction of a link                                                 *)
(***************************************************************************)
LEMMA NoWorseTransitive ==
  ASSUME NEW u, NEW v, NEW w,
         u.root \in Nat, u.cost \in Nat, v.root \in Nat, v.cost \in Nat,
         w.root \in Nat, w.cost \in Nat, NoWorse(u, v), NoWorse(v, w)
  PROVE  NoWorse(u, w)
BY DEF NoWorse

LEMMA QueueFields ==
  ASSUME NEW q \in Seq(Config)
  PROVE  /\ Len(q) \in Nat
         /\ \A i \in 1..Len(q) : q[i] \in Config /\ q[i].root \in Nat /\ q[i].cost \in Nat
<1>1. Len(q) \in Nat /\ \A i \in 1..Len(q) : q[i] \in Config
  BY LenProperties, ElementOfSeq
<1> QED
  BY <1>1, ConfigFields

\* the sender improves
LEMMA LinkImproves ==
  ASSUME NEW n, NEW s, NEW w, NEW v, NEW q \in Seq(Config), NEW pt \in Config,
         w.root \in Nat, w.cost \in Nat, v.root \in Nat, v.cost \in Nat,
         LinkOk(n, s, w, q, pt), NoWorse(v, w)
  PROVE  LinkOk(n, s, v, q, pt)
<1>1. \A i \in 1..Len(q) : NoWorse(v, q[i])
  BY QueueFields, NoWorseTransitive DEF LinkOk
<1>2. NoWorse(w, pt) => NoWorse(v, pt)
  BY ConfigFields, NoWorseTransitive
<1> QED
  BY <1>1, <1>2 DEF LinkOk

\* the sender says what it knows
LEMMA LinkSends ==
  ASSUME NEW n \in Switch, NEW s \in Switch, NEW w, NEW q \in Seq(Config), NEW pt \in Config,
         w.root \in Switch, w.cost \in Nat, w.cost = 0 => w.root = n,
         LinkOk(n, s, w, q, pt)
  PROVE  LinkOk(n, s, w, Append(q, Own(n, s, w.root, w.cost)), pt)
<1> DEFINE c == Own(n, s, w.root, w.cost)
           new == Append(q, c)
<1>1. /\ c \in Config /\ c.root = w.root /\ c.cost = w.cost /\ c.switch = n /\ c.port = s
      /\ w.root \in Nat
  <2> DEFINE root == w.root
             cost == w.cost
  <2>1. root \in Switch /\ cost \in Nat /\ root \in Nat
    BY SwitchAssumption
  <2> HIDE DEF root, cost
  <2>2. /\ Own(n, s, root, cost) \in Config
        /\ Own(n, s, root, cost).root = root /\ Own(n, s, root, cost).cost = cost
        /\ Own(n, s, root, cost).switch = n /\ Own(n, s, root, cost).port = s
    BY <2>1, OwnFields
  <2> QED
    BY <2>1, <2>2 DEF root, cost
<1> HIDE DEF c
<1>2. /\ Len(q) \in Nat /\ Len(new) = Len(q) + 1
      /\ \A i \in 1..Len(q) : new[i] = q[i]
      /\ new[Len(q) + 1] = c
  BY <1>1, QueueFields, AppendProperties
<1>3. \A i \in 1..Len(q) : q[i].root \in Nat /\ q[i].cost \in Nat
  BY QueueFields
<1> HIDE DEF new
<1>4. \A i \in 1..Len(new) : /\ new[i].switch = n /\ new[i].port = s
                             /\ new[i].cost = 0 => new[i].root = n
                             /\ NoWorse(w, new[i])
  <2> TAKE i \in 1..Len(new)
  <2>1. CASE i \in 1..Len(q)
    BY <1>2, <2>1 DEF LinkOk
  <2>2. CASE i = Len(q) + 1
    BY <1>1, <1>2, <2>2 DEF NoWorse
  <2> QED
    BY <1>2, <2>1, <2>2
<1>5. \A i, j \in 1..Len(new) : i < j => NoWorse(new[j], new[i])
  <2> TAKE i, j \in 1..Len(new)
  <2> HAVE i < j
  <2>1. i \in 1..Len(q)
    BY <1>2
  <2>2. CASE j \in 1..Len(q)
    BY <1>2, <2>1, <2>2 DEF LinkOk
  <2>3. CASE j = Len(q) + 1
    <3>1. NoWorse(w, q[i])
      BY <2>1 DEF LinkOk
    <3> QED
      BY <1>1, <1>2, <2>1, <2>3, <3>1 DEF NoWorse
  <2> QED
    BY <1>2, <2>2, <2>3
<1>6. NoWorse(w, pt) /\ (\A i \in 1..Len(q) : NoWorse(q[i], pt))
        => \A i \in 1..Len(new) : NoWorse(new[i], pt)
  <2> HAVE NoWorse(w, pt) /\ \A i \in 1..Len(q) : NoWorse(q[i], pt)
  <2> TAKE i \in 1..Len(new)
  <2>1. CASE i \in 1..Len(q)
    BY <1>2, <2>1
  <2>2. CASE i = Len(q) + 1
    BY <1>1, <1>2, <2>2 DEF NoWorse
  <2> QED
    BY <1>2, <2>1, <2>2
<1> QED
  BY <1>4, <1>5, <1>6 DEF LinkOk, new, c

\* the next packet is read; the port may believe it
LEMMA LinkTakes ==
  ASSUME NEW n \in Switch, NEW s \in Switch, NEW w, NEW q \in Seq(Config), NEW pt \in Config,
         q # <<>>, LinkOk(n, s, w, q, pt)
  PROVE  /\ Head(q) \in Config /\ Tail(q) \in Seq(Config)
         /\ Head(q).switch = n /\ Head(q).port = s
         /\ Head(q).cost = 0 => Head(q).root = n
         /\ pt.switch = n /\ n # s => NoWorse(Head(q), pt)
         /\ LinkOk(n, s, w, Tail(q), pt)
         /\ LinkOk(n, s, w, Tail(q), Head(q))
<1> DEFINE rest == Tail(q)
<1>1. /\ Head(q) \in Config /\ rest \in Seq(Config) /\ Head(q) = q[1]
      /\ Len(q) \in Nat /\ 1 \in 1..Len(q) /\ Len(rest) = Len(q) - 1
      /\ \A i \in 1..Len(rest) : rest[i] = q[i + 1]
  BY HeadTailProperties, LenProperties, EmptySeq
<1> HIDE DEF rest
<1>2. \A i \in 1..Len(rest) : i + 1 \in 1..Len(q)
  BY <1>1
<1>3. \A i \in 1..Len(rest) : NoWorse(rest[i], Head(q))
  <2> TAKE i \in 1..Len(rest)
  <2>1. i + 1 \in 1..Len(q) /\ 1 < i + 1
    BY <1>1
  <2> QED
    BY <1>1, <2>1 DEF LinkOk
<1>4. \A i, j \in 1..Len(rest) : i < j => NoWorse(rest[j], rest[i])
  <2> TAKE i, j \in 1..Len(rest)
  <2> HAVE i < j
  <2>1. i + 1 \in 1..Len(q) /\ j + 1 \in 1..Len(q) /\ i + 1 < j + 1
    BY <1>1
  <2> QED
    BY <1>1, <2>1 DEF LinkOk
<1> QED
  BY <1>1, <1>2, <1>3, <1>4 DEF LinkOk, rest

\* the port is designated again
LEMMA LinkOwned ==
  ASSUME NEW n \in Switch, NEW s \in Switch, NEW w, NEW q, NEW pt,
         NEW root \in Switch, NEW cost \in Nat, LinkOk(n, s, w, q, pt)
  PROVE  LinkOk(n, s, w, q, Own(s, n, root, cost))
BY OwnFields DEF LinkOk

(***************************************************************************)
(* Ports                                                                   *)
(***************************************************************************)
LEMMA PortProperties ==
  ASSUME TypeOK, NEW s \in Switch, NEW n \in Peer(s)
  PROVE  /\ n \in Switch /\ n # s /\ s \in Peer(n)
         /\ <<s, n>> \in PortId /\ <<n, s>> \in PortId
<1>1. n \in Switch /\ {s, n} \in links /\ {n, s} = {s, n}
  BY DEF Peer
<1>2. Cardinality({s, n}) = 2
  BY <1>1, TopologyAssumption DEF TypeOK
<1>3. n # s
  <2> SUFFICES ASSUME n = s PROVE FALSE
    OBVIOUS
  <2>1. Cardinality({s}) = 1 /\ {s, n} = {s}
    BY FS_Singleton
  <2> QED
    BY <1>2, <2>1
<1> QED
  BY <1>1, <1>3 DEF Peer, PortId

LEMMA PortIdIsPair ==
  ASSUME NEW p \in PortId
  PROVE  p[1] \in Switch /\ p[2] \in Peer(p[1]) /\ p = <<p[1], p[2]>>
BY DEF PortId, Peer

LEMMA Fields ==
  ASSUME TypeOK, NEW s \in Switch
  PROVE  /\ sw[s] \in State
         /\ sw[s].root \in Switch /\ sw[s].root \in Nat /\ sw[s].cost \in Nat
         /\ \A n \in Peer(s) : port[<<s, n>>] \in Config /\ net[<<n, s>>] \in Seq(Config)
<1>1. sw[s] \in State
  BY DEF TypeOK, State
<1>2. sw[s].root \in Switch /\ sw[s].root \in Nat /\ sw[s].cost \in Nat
  BY <1>1, SwitchAssumption DEF State
<1>3. \A n \in Peer(s) : port[<<s, n>>] \in Config /\ net[<<n, s>>] \in Seq(Config)
  BY PortProperties DEF TypeOK
<1> QED
  BY <1>1, <1>2, <1>3

(***************************************************************************)
(* A switch s takes a packet or none, which leaves the links to s in       *)
(* order, gets no worse, and sends what it now is on some of its ports.    *)
(***************************************************************************)
LEMMA SentProperties ==
  ASSUME NEW s \in Switch, NEW st \in State, NEW N, NEW q \in [PortId -> Seq(Config)]
  PROVE  /\ Sent(s, st, N, q) \in [PortId -> Seq(Config)]
         /\ \A p \in PortId :
              \/ Sent(s, st, N, q)[p] = q[p]
              \/ p[1] = s /\ Sent(s, st, N, q)[p] = Append(q[p], Own(s, p[2], st.root, st.cost))
<1>1. \A p \in PortId : /\ q[p] \in Seq(Config)
                        /\ Append(q[p], Own(s, p[2], st.root, st.cost)) \in Seq(Config)
  <2> TAKE p \in PortId
  <2>1. p[2] \in Switch /\ st.root \in Switch /\ st.cost \in Nat
    BY DEF PortId, State
  <2>2. Own(s, p[2], st.root, st.cost) \in Config
    BY <2>1 DEF Own, Config
  <2> QED
    BY <2>2, AppendProperties
<1>2. \A p \in PortId : Sent(s, st, N, q)[p] =
        IF p[1] = s /\ p[2] \in N /\ MaySend(s, st)
        THEN IF p[2] \in up THEN Append(q[p], Own(s, p[2], st.root, st.cost)) ELSE q[p]
        ELSE q[p]
  BY DEF Sent, Transmit
<1>3. Sent(s, st, N, q) = [p \in PortId |-> Sent(s, st, N, q)[p]]
  BY DEF Sent
<1> QED
  BY <1>1, <1>2, <1>3

LEMMA StepLinks ==
  ASSUME TypeOK, Links, UNCHANGED links,
         NEW s \in Switch, NEW st \in State, NEW N, NEW q \in [PortId -> Seq(Config)],
         st.cost = 0 => st.root = s, NoWorse(st, sw[s]),
         sw' = [sw EXCEPT ![s] = st],
         port' \in [PortId -> Config], \A p \in PortId : p[1] # s => port'[p] = port[p],
         \A p \in PortId : p[2] # s => q[p] = net[p],
         \A m \in Peer(s) : LinkOk(m, s, sw[m], q[<<m, s>>], port'[<<s, m>>]),
         net' = Sent(s, st, N, q)
  PROVE  Links'
<1>1. \A t \in Switch : sw'[t] = IF t = s THEN st ELSE sw[t]
  BY DEF TypeOK
<1>2. ASSUME NEW a, NEW b, <<a, b>> \in PortId
      PROVE  /\ a # s => net'[<<a, b>>] = q[<<a, b>>] /\ port'[<<a, b>>] = port[<<a, b>>]
             /\ b # s => q[<<a, b>>] = net[<<a, b>>]
             /\ \/ net'[<<a, b>>] = q[<<a, b>>]
                \/ net'[<<a, b>>] = Append(q[<<a, b>>], Own(s, b, st.root, st.cost))
  <2> DEFINE p == <<a, b>>
  <2>1. p \in PortId /\ p[1] = a /\ p[2] = b
    BY <1>2
  <2> HIDE DEF p
  <2>2. \/ net'[p] = q[p]
        \/ p[1] = s /\ net'[p] = Append(q[p], Own(s, p[2], st.root, st.cost))
    BY <2>1, SentProperties
  <2>3. (a # s => port'[p] = port[p]) /\ (b # s => q[p] = net[p])
    BY <2>1
  <2> QED
    BY <2>1, <2>2, <2>3 DEF p
<1>3. ASSUME NEW t \in Switch, NEW m \in Peer(t)
      PROVE  LinkOk(m, t, sw'[m], net'[<<m, t>>], port'[<<t, m>>])
  <2>1. m \in Switch /\ m # t /\ <<t, m>> \in PortId /\ <<m, t>> \in PortId
    BY PortProperties
  <2>2. CASE t = s
    <3>1. net'[<<m, t>>] = q[<<m, t>>] /\ sw'[m] = sw[m]
      BY <1>1, <1>2, <2>1, <2>2
    <3> QED
      BY <2>2, <3>1
  <2>3. CASE t # s /\ m # s
    <3>1. net'[<<m, t>>] = net[<<m, t>>] /\ sw'[m] = sw[m] /\ port'[<<t, m>>] = port[<<t, m>>]
      BY <1>1, <1>2, <2>1, <2>3
    <3> QED
      BY <3>1 DEF Links
  <2>4. CASE t # s /\ m = s
    <3> DEFINE old == net[<<s, t>>]
               pt == port[<<t, s>>]
    <3>1. q[<<s, t>>] = old /\ sw'[m] = st /\ port'[<<t, m>>] = pt
      BY <1>1, <1>2, <2>1, <2>4
    <3>2. old \in Seq(Config) /\ pt \in Config /\ LinkOk(s, t, sw[s], old, pt)
      BY <2>1, <2>4 DEF TypeOK, Links
    <3>3. st.root \in Switch /\ st.root \in Nat /\ st.cost \in Nat
      BY SwitchAssumption DEF State
    <3> HIDE DEF old, pt
    <3>4. LinkOk(s, t, st, old, pt)
      BY <3>2, <3>3, Fields, LinkImproves
    <3>5. LinkOk(s, t, st, Append(old, Own(s, t, st.root, st.cost)), pt)
      BY <3>2, <3>3, <3>4, LinkSends
    <3>6. net'[<<s, t>>] = old \/ net'[<<s, t>>] = Append(old, Own(s, t, st.root, st.cost))
      BY <1>2, <2>1, <2>4, <3>1
    <3> QED
      BY <2>4, <3>1, <3>4, <3>5, <3>6
  <2> QED
    BY <2>2, <2>3, <2>4
<1> QED
  BY <1>3 DEF Links, Peer

\* the packet that HandlePacket takes, and the links without it
LEMMA TakenProperties ==
  ASSUME IInv, NEW s \in Switch, NEW n \in Peer(s), net[<<n, s>>] # <<>>
  PROVE  LET c == Head(net[<<n, s>>])
         IN /\ c \in Config /\ c.switch = n /\ c.port = s /\ (c.cost = 0 => c.root = n)
            /\ port[<<s, n>>].switch = n => NoWorse(c, port[<<s, n>>])
            /\ LinkOk(n, s, sw[n], Taken(s, n)[<<n, s>>], c)
            /\ Taken(s, n) \in [PortId -> Seq(Config)]
            /\ \A p \in PortId : p[2] # s => Taken(s, n)[p] = net[p]
            /\ \A m \in Peer(s) : LinkOk(m, s, sw[m], Taken(s, n)[<<m, s>>], port[<<s, m>>])
<1> DEFINE q == net[<<n, s>>]
           pt == port[<<s, n>>]
<1>1. /\ n \in Switch /\ n # s /\ <<n, s>> \in PortId
      /\ q \in Seq(Config) /\ pt \in Config /\ q # <<>>
      /\ LinkOk(n, s, sw[n], q, pt)
  BY PortProperties, Fields DEF IInv, Links
<1>2. /\ Taken(s, n)[<<n, s>>] = Tail(q)
      /\ \A p \in PortId : p # <<n, s>> => Taken(s, n)[p] = net[p]
  BY <1>1 DEF Taken, IInv, TypeOK
<1> HIDE DEF q, pt
<1>3. /\ Head(q) \in Config /\ Tail(q) \in Seq(Config)
      /\ Head(q).switch = n /\ Head(q).port = s /\ (Head(q).cost = 0 => Head(q).root = n)
      /\ pt.switch = n => NoWorse(Head(q), pt)
      /\ LinkOk(n, s, sw[n], Tail(q), pt) /\ LinkOk(n, s, sw[n], Tail(q), Head(q))
  BY <1>1, LinkTakes
<1>4. Taken(s, n) \in [PortId -> Seq(Config)]
  BY <1>1, <1>3 DEF Taken, IInv, TypeOK, q
<1>5. ASSUME NEW m \in Peer(s)
      PROVE  LinkOk(m, s, sw[m], Taken(s, n)[<<m, s>>], port[<<s, m>>])
  <2>1. CASE m = n
    BY <1>2, <1>3, <2>1 DEF pt
  <2>2. CASE m # n
    <3>1. <<m, s>> \in PortId /\ <<m, s>> # <<n, s>>
      BY <2>2, PortProperties DEF IInv
    <3>2. Taken(s, n)[<<m, s>>] = net[<<m, s>>]
      BY <1>2, <3>1
    <3> QED
      BY <3>2 DEF IInv, Links
  <2> QED
    BY <2>1, <2>2
<1>6. \A p \in PortId : p[2] # s => p # <<n, s>>
  OBVIOUS
<1> QED
  BY <1>2, <1>3, <1>4, <1>5, <1>6 DEF q, pt

LEMMA StepTypes ==
  ASSUME TypeOK, UNCHANGED links, up' \subseteq Switch,
         NEW s \in Switch, NEW st \in State, NEW N, NEW q \in [PortId -> Seq(Config)],
         sw' = [sw EXCEPT ![s] = st], port' \in [PortId -> Config], net' = Sent(s, st, N, q)
  PROVE  TypeOK'
<1>1. net' \in [PortId -> Seq(Config)]
  BY SentProperties
<1>2. sw' \in [Switch -> State]
  BY DEF TypeOK, State
<1>3. PortId' = PortId /\ links \in Topology
  BY DEF PortId, TypeOK
<1> QED
  BY <1>1, <1>2, <1>3 DEF TypeOK, State

\* a step of s leaves the other switches as they are
LEMMA OtherSwitch ==
  ASSUME TypeOK, UNCHANGED links, NEW s \in Switch, NEW t \in Switch, t # s,
         SwitchOk(t), sw'[t] = sw[t],
         \A p \in PortId : p[1] # s => port'[p] = port[p]
  PROVE  SwitchOk(t)'
<1>1. Peer(t)' = Peer(t)
  BY DEF Peer
<1>2. \A n \in Peer(t) : port'[<<t, n>>] = port[<<t, n>>]
  <2> TAKE n \in Peer(t)
  <2> DEFINE p == <<t, n>>
  <2>1. p \in PortId /\ p[1] # s
    BY PortProperties
  <2> QED
    BY <2>1
<1> QED
  BY <1>1, <1>2 DEF SwitchOk

(***************************************************************************)
(* A better packet.  It gives s a port that is not designated, so there is *)
(* a root port; the old root port is one of those to choose from, and what *)
(* it knows has got no worse.                                              *)
(***************************************************************************)
LEMMA SuperiorStep ==
  ASSUME CostSurvives, IInv, NEW s \in Switch, NEW n \in Peer(s), UNCHANGED <<links, up>>,
         net[<<n, s>>] # <<>>, Better(Head(net[<<n, s>>]), port[<<s, n>>]),
         HandleSuperior(s, n, Head(net[<<n, s>>]))
  PROVE  IInv' /\ NoWorse(sw'[s], sw[s]) /\ \A t \in Switch : t # s => sw'[t] = sw[t]
<1> DEFINE c == Head(net[<<n, s>>])
           heard == Heard(s, n, c)
           r == RootPort(s, heard)
           root == heard[r].root
           cost == heard[r].cost + 1
           mine == {m \in Peer(s) : Reclaimed(s, m, heard[m], cost)}
           st == [root |-> root, cost |-> cost, root_port |-> r, hello |-> KeepsHello(s, root)]
<1>1. /\ TypeOK /\ Links /\ \A t \in Switch : SwitchOk(t)
      /\ c \in Config /\ c.switch = n /\ (c.cost = 0 => c.root = n)
      /\ port[<<s, n>>].switch = n => NoWorse(c, port[<<s, n>>])
      /\ LinkOk(n, s, sw[n], Taken(s, n)[<<n, s>>], c)
      /\ Taken(s, n) \in [PortId -> Seq(Config)]
      /\ \A p \in PortId : p[2] # s => Taken(s, n)[p] = net[p]
      /\ \A m \in Peer(s) : LinkOk(m, s, sw[m], Taken(s, n)[<<m, s>>], port[<<s, m>>])
  <2>1. TypeOK /\ Links /\ \A t \in Switch : SwitchOk(t)
    BY DEF IInv
  <2> QED
    BY <2>1, TakenProperties
<1>2. heard = [m \in Peer(s) |-> IF m = n THEN c ELSE port[<<s, m>>]]
  <2>1. ReadCost(c.cost) = c.cost
    BY DEF ReadCost
  <2> HIDE DEF c
  <2>2. [c EXCEPT !.cost = ReadCost(@)] = c
    BY <1>1, <2>1 DEF Config
  <2> QED
    BY <2>2 DEF Heard
<1>3. /\ sw' = [sw EXCEPT ![s] = st]
      /\ port' = [p \in PortId |-> IF p[1] # s THEN port[p]
                                   ELSE IF p[2] \in mine THEN Own(s, p[2], root, cost)
                                   ELSE heard[p[2]]]
      /\ net' = Sent(s, st, mine, Taken(s, n))
  BY DEF HandleSuperior
<1> HIDE DEF c, heard
<1>4. ASSUME NEW m \in Peer(s)
      PROVE  /\ m \in Switch /\ m # s /\ heard[m] \in Config
             /\ LinkOk(m, s, sw[m], Taken(s, n)[<<m, s>>], heard[m])
             /\ Designated(s, m, heard[m]) <=> heard[m].switch # m
  <2>1. m \in Switch /\ m # s
    BY <1>1, PortProperties
  <2>2. heard[m] \in Config /\ LinkOk(m, s, sw[m], Taken(s, n)[<<m, s>>], heard[m])
    BY <1>1, <1>2, Fields
  <2> QED
    BY <2>1, <2>2 DEF LinkOk, Designated
<1>5. /\ heard[n] = c /\ \A m \in Peer(s) : m # n => heard[m] = port[<<s, m>>]
  BY <1>2
<1>6. /\ r \in Peer(s) /\ heard[r].switch = r
      /\ \A k \in Peer(s) \ {r} : heard[k].switch = k => ~Better(heard[k], heard[r])
  <2> DEFINE D == {m \in Peer(s) : heard[m].switch = m}
  <2>1. D \in SUBSET Nat /\ D # {} /\ \A m \in D : heard[m] \in Config /\ heard[m].switch = m
    BY <1>1, <1>4, <1>5, SwitchAssumption
  <2>2. \E m \in D : \A k \in D \ {m} : ~Better(heard[k], heard[m])
    <3> HIDE DEF D
    <3> QED
      BY <2>1, BestExists
  <2>3. \E m \in Peer(s) :
          /\ ~Designated(s, m, heard[m])
          /\ \A k \in Peer(s) \ {m} : ~Designated(s, k, heard[k]) => ~Better(heard[k], heard[m])
    BY <1>4, <2>2
  <2>4. /\ r \in Peer(s) /\ ~Designated(s, r, heard[r])
        /\ \A k \in Peer(s) \ {r} : ~Designated(s, k, heard[k]) => ~Better(heard[k], heard[r])
    BY <2>3 DEF RootPort
  <2> HIDE DEF r
  <2> QED
    BY <1>4, <2>4
<1> HIDE DEF r
<1>7. /\ r \in Switch /\ heard[r] \in Config /\ root \in Switch /\ root \in Nat
      /\ heard[r].cost \in Nat /\ cost \in Nat /\ cost # 0
      /\ cost = heard[r].cost + 1
  <2>1. r \in Switch /\ heard[r] \in Config
    BY <1>4, <1>6
  <2>2. heard[r].root \in Switch /\ heard[r].root \in Nat /\ heard[r].cost \in Nat
    BY <2>1, ConfigFields DEF Config
  <2> QED
    BY <2>1, <2>2
<1>8. \A k \in Peer(s) : heard[k].switch = k => NoWorse(heard[r], heard[k])
  <2> TAKE k \in Peer(s)
  <2> HAVE heard[k].switch = k
  <2>1. /\ heard[k].root \in Nat /\ heard[k].cost \in Nat
        /\ heard[r].root \in Nat /\ heard[r].cost \in Nat
    BY <1>4, <1>6, ConfigFields
  <2>2. k = r \/ ~Better(heard[k], heard[r])
    BY <1>6
  <2> QED
    BY <2>1, <2>2 DEF Better, NoWorse
<1>9. /\ st \in State /\ st.root = root /\ st.cost = cost /\ st.root_port = r
  <2>1. KeepsHello(s, root) \in BOOLEAN
    BY <1>1 DEF KeepsHello, TypeOK
  <2> HIDE DEF root, cost
  <2> QED
    BY <1>7, <2>1 DEF State
<1>10. NoWorse(st, sw[s])
  <2>1. /\ sw[s].root \in Nat /\ sw[s].cost \in Nat /\ sw[s].root_port \in Switch \cup {NoPort}
        /\ SwitchOk(s) /\ port[<<s, n>>] \in Config /\ n # s
    BY <1>1, <1>4, Fields DEF State
  <2>2. c.root \in Nat /\ c.cost \in Nat
    BY <1>1, ConfigFields
  <2>3. CASE sw[s].root_port = NoPort
    <3>1. port[<<s, n>>] = Own(s, n, s, 0) /\ sw[s].root = s /\ s \in Nat
      BY <2>1, <2>3, SwitchAssumption DEF SwitchOk
    <3>2. c.root < s \/ (c.root = s /\ c.cost = 0)
      <4>1. Better(c, Own(s, n, s, 0))
        BY <3>1 DEF c
      <4>2. Own(s, n, s, 0).root = s /\ Own(s, n, s, 0).cost = 0
        BY DEF Own
      <4> QED
        BY <2>2, <3>1, <4>1, <4>2 DEF Better
    <3>3. c.root < s
      BY <1>1, <2>1, <2>2, <3>2
    <3>4. root <= c.root
      BY <1>1, <1>5, <1>7, <1>8, <2>2 DEF NoWorse
    <3> QED
      BY <1>7, <1>9, <2>2, <3>1, <3>3, <3>4 DEF NoWorse
  <2>4. CASE sw[s].root_port # NoPort
    <3> DEFINE k == sw[s].root_port
    <3>1. /\ k \in Peer(s) /\ port[<<s, k>>].switch = k
          /\ sw[s].root = port[<<s, k>>].root /\ sw[s].cost = port[<<s, k>>].cost + 1
      BY <2>1, <2>4 DEF SwitchOk
    <3> HIDE DEF k
    <3>2. port[<<s, k>>] \in Config /\ heard[k] \in Config
      BY <1>1, <1>4, <3>1, Fields
    <3>3. /\ port[<<s, k>>].root \in Nat /\ port[<<s, k>>].cost \in Nat
          /\ heard[k].root \in Nat /\ heard[k].cost \in Nat
          /\ heard[r].root \in Nat /\ heard[r].cost \in Nat
      BY <1>7, <3>2, ConfigFields
    <3>4. heard[k].switch = k /\ NoWorse(heard[k], port[<<s, k>>])
      <4>1. CASE k = n
        BY <1>1, <1>5, <3>1, <4>1
      <4>2. CASE k # n
        BY <1>5, <3>1, <3>3, <4>2 DEF NoWorse
      <4> QED
        BY <4>1, <4>2
    <3>5. NoWorse(heard[r], heard[k])
      BY <1>8, <3>1, <3>4
    <3> QED
      BY <1>9, <3>1, <3>3, <3>4, <3>5, SMTT(30) DEF NoWorse
  <2> QED
    BY <2>3, <2>4
<1>11. /\ \A m \in Peer(s) : port'[<<s, m>>] = IF m \in mine THEN Own(s, m, root, cost) ELSE heard[m]
       /\ \A p \in PortId : p[1] # s => port'[p] = port[p]
       /\ port' \in [PortId -> Config]
  <2> HIDE DEF root, cost, mine
  <2>1. \A p \in PortId : port'[p] = IF p[1] # s THEN port[p]
                                     ELSE IF p[2] \in mine THEN Own(s, p[2], root, cost)
                                     ELSE heard[p[2]]
    BY <1>3
  <2>2. ASSUME NEW m \in Peer(s)
        PROVE  port'[<<s, m>>] = IF m \in mine THEN Own(s, m, root, cost) ELSE heard[m]
    <3> DEFINE p == <<s, m>>
    <3>1. p \in PortId /\ p[1] = s /\ p[2] = m
      BY <1>1, PortProperties
    <3> HIDE DEF p
    <3>2. port'[p] = IF p[2] \in mine THEN Own(s, p[2], root, cost) ELSE heard[p[2]]
      BY <2>1, <3>1
    <3> QED
      BY <3>1, <3>2 DEF p
  <2>3. \A p \in PortId : port'[p] \in Config
    <3> TAKE p \in PortId
    <3>1. p[1] \in Switch /\ p[2] \in Peer(p[1]) /\ port[p] \in Config
      BY <1>1, PortIdIsPair DEF TypeOK
    <3>2. p[1] = s => heard[p[2]] \in Config /\ Own(s, p[2], root, cost) \in Config
      <4> SUFFICES ASSUME p[1] = s PROVE heard[p[2]] \in Config /\ Own(s, p[2], root, cost) \in Config
        OBVIOUS
      <4>1. p[2] \in Switch /\ heard[p[2]] \in Config
        BY <1>4, <3>1
      <4> QED
        BY <1>7, <4>1 DEF Own, Config
    <3> QED
      BY <2>1, <3>1, <3>2
  <2>4. port' = [p \in PortId |-> port'[p]]
    BY <1>3
  <2> QED
    BY <2>1, <2>2, <2>3, <2>4
<1>12. port'[<<s, r>>] = heard[r]
  <2> HIDE DEF root, cost, mine
  <2>1. ~Reclaimed(s, r, heard[r], cost)
    <3>1. ~Designated(s, r, heard[r])
      BY <1>4, <1>6
    <3>2. ~(heard[r].cost > cost)
      BY <1>7
    <3> QED
      BY <3>1, <3>2 DEF Reclaimed
  <2>2. r \notin mine
    BY <2>1 DEF mine
  <2> QED
    BY <1>6, <1>11, <2>2
<1>13. \A m \in Peer(s) : LinkOk(m, s, sw[m], Taken(s, n)[<<m, s>>], port'[<<s, m>>])
  BY <1>4, <1>7, <1>11, LinkOwned
<1> HIDE DEF root, cost, mine, st
<1>14. Links'
  <2>1. UNCHANGED links /\ (st.cost = 0 => st.root = s)
    BY <1>7, <1>9
  <2>2. sw' = [sw EXCEPT ![s] = st] /\ net' = Sent(s, st, mine, Taken(s, n))
    BY <1>3
  <2> QED
    BY <1>1, <1>9, <1>10, <1>11, <1>13, <2>1, <2>2, StepLinks
<1>15. TypeOK'
  BY <1>1, <1>3, <1>9, <1>11, StepTypes DEF TypeOK
<1>16. sw'[s] = st /\ \A t \in Switch : t # s => sw'[t] = sw[t]
  BY <1>1, <1>3 DEF TypeOK
<1>17. SwitchOk(s)'
  <2>1. Peer(s)' = Peer(s) /\ r # NoPort
    BY <1>7, SwitchAssumption DEF Peer
  <2>2. st.root = heard[r].root /\ st.cost = heard[r].cost + 1
    BY <1>9 DEF root, cost
  <2> QED
    BY <1>6, <1>7, <1>9, <1>12, <1>16, <2>1, <2>2 DEF SwitchOk
<1>18. \A t \in Switch : SwitchOk(t)'
  BY <1>1, <1>11, <1>16, <1>17, OtherSwitch
<1> QED
  BY <1>10, <1>14, <1>15, <1>16, <1>18 DEF IInv

(***************************************************************************)
(* A worse packet.  It has not come in on the root port.                   *)
(***************************************************************************)
LEMMA InferiorStep ==
  ASSUME IInv, NEW s \in Switch, NEW n \in Peer(s), UNCHANGED <<links, up>>,
         net[<<n, s>>] # <<>>, Better(port[<<s, n>>], Head(net[<<n, s>>])),
         HandleInferior(s, n)
  PROVE  IInv' /\ UNCHANGED sw
<1> DEFINE c == Head(net[<<n, s>>])
           st == sw[s]
           own == Own(s, n, st.root, st.cost)
<1>1. /\ TypeOK /\ Links /\ \A t \in Switch : SwitchOk(t)
      /\ c \in Config /\ c.switch = n /\ c.port = s
      /\ port[<<s, n>>].switch = n => NoWorse(c, port[<<s, n>>])
      /\ Taken(s, n) \in [PortId -> Seq(Config)]
      /\ \A p \in PortId : p[2] # s => Taken(s, n)[p] = net[p]
      /\ \A m \in Peer(s) : LinkOk(m, s, sw[m], Taken(s, n)[<<m, s>>], port[<<s, m>>])
  <2>1. TypeOK /\ Links /\ \A t \in Switch : SwitchOk(t)
    BY DEF IInv
  <2> QED
    BY <2>1, TakenProperties
<1>2. /\ st \in State /\ st.root \in Switch /\ st.root \in Nat /\ st.cost \in Nat
      /\ port[<<s, n>>] \in Config
      /\ n \in Switch /\ n # s /\ <<s, n>> \in PortId
      /\ SwitchOk(s) /\ (st.cost = 0 => st.root = s)
  BY <1>1, Fields, PortProperties DEF SwitchOk
<1>3. /\ port' = [port EXCEPT ![<<s, n>>] = own]
      /\ net' = Sent(s, st, {n}, Taken(s, n))
      /\ sw' = sw
  BY DEF HandleInferior
<1>4. st.root_port # n
  <2> SUFFICES ASSUME st.root_port = n PROVE FALSE
    OBVIOUS
  <2>1. port[<<s, n>>].switch = n
    BY <1>2, SwitchAssumption DEF SwitchOk
  <2>2. NoWorse(c, port[<<s, n>>]) /\ Better(port[<<s, n>>], c)
    BY <1>1, <2>1
  <2>3. LinkOk(n, s, sw[n], Taken(s, n)[<<n, s>>], port[<<s, n>>])
    BY <1>1
  <2>4. port[<<s, n>>].port = s
    BY <1>2, <2>1, <2>3 DEF LinkOk
  <2> DEFINE pt == port[<<s, n>>]
  <2>5. /\ pt.root \in Nat /\ pt.cost \in Nat /\ c.root \in Nat /\ c.cost \in Nat
        /\ pt.switch = n /\ c.switch = n /\ pt.port = s /\ c.port = s /\ n \in Nat /\ s \in Nat
    BY <1>1, <1>2, <2>1, <2>4, ConfigFields, SwitchAssumption
  <2> HIDE DEF pt, c
  <2>6. NoWorse(c, pt) /\ Better(pt, c)
    BY <2>2 DEF pt
  <2> QED
    BY <2>5, <2>6 DEF NoWorse, Better
<1>5. own \in Config
  BY <1>2 DEF Own, Config
<1> HIDE DEF st, c
<1>6. /\ port' \in [PortId -> Config]
      /\ \A p \in PortId : p[1] # s => port'[p] = port[p]
      /\ \A m \in Peer(s) : port'[<<s, m>>] = IF m = n THEN own ELSE port[<<s, m>>]
  <2> HIDE DEF own
  <2>1. port \in [PortId -> Config]
    BY <1>1 DEF TypeOK
  <2>2. \A m \in Peer(s) : <<s, m>> \in PortId /\ (<<s, m>> = <<s, n>> <=> m = n)
    BY <1>1, PortProperties
  <2>3. \A p \in PortId : p[1] # s => p # <<s, n>>
    OBVIOUS
  <2> QED
    BY <1>2, <1>3, <1>5, <2>1, <2>2, <2>3
<1>7. \A m \in Peer(s) : LinkOk(m, s, sw[m], Taken(s, n)[<<m, s>>], port'[<<s, m>>])
  <2> TAKE m \in Peer(s)
  <2>1. LinkOk(m, s, sw[m], Taken(s, n)[<<m, s>>], port[<<s, m>>])
    BY <1>1
  <2>2. CASE m = n
    <3>1. LinkOk(n, s, sw[n], Taken(s, n)[<<n, s>>], own)
      BY <1>2, <2>1, <2>2, LinkOwned
    <3> QED
      BY <1>6, <2>2, <3>1
  <2>3. CASE m # n
    BY <1>6, <2>1, <2>3
  <2> QED
    BY <2>2, <2>3
<1>8. sw' = [sw EXCEPT ![s] = st] /\ NoWorse(st, sw[s])
  BY <1>1, <1>2, <1>3 DEF TypeOK, NoWorse, st
<1> HIDE DEF own
<1>9. Links'
  <2> DEFINE N == {n}
  <2>1. UNCHANGED links /\ net' = Sent(s, st, N, Taken(s, n))
    BY <1>3
  <2> HIDE DEF N
  <2>2. st.cost = 0 => st.root = s
    BY <1>2
  <2> QED
    <3>1. /\ TypeOK /\ Links /\ Taken(s, n) \in [PortId -> Seq(Config)]
          /\ \A p \in PortId : p[2] # s => Taken(s, n)[p] = net[p]
      BY <1>1
    <3>2. /\ port' \in [PortId -> Config] /\ \A p \in PortId : p[1] # s => port'[p] = port[p]
      BY <1>6
    <3>3. st \in State
      BY <1>2
    <3> QED
      BY <1>7, <1>8, <2>1, <2>2, <3>1, <3>2, <3>3, StepLinks
<1>10. TypeOK'
  <2>1. /\ UNCHANGED links /\ up' \subseteq Switch
        /\ net' = Sent(s, st, {n}, Taken(s, n))
    BY <1>1, <1>3 DEF TypeOK
  <2> QED
    BY <1>1, <1>2, <1>6, <1>8, <2>1, StepTypes
<1>11. SwitchOk(s)'
  <2>1. Peer(s)' = Peer(s) /\ sw'[s] = sw[s] /\ st = sw[s]
    BY <1>3 DEF Peer, st
  <2>2. CASE sw[s].root_port = NoPort
    <3>1. own = Own(s, n, s, 0)
      BY <1>2, <2>1, <2>2 DEF SwitchOk, own
    <3> QED
      BY <1>2, <1>6, <2>1, <2>2, <3>1 DEF SwitchOk
  <2>3. CASE sw[s].root_port # NoPort
    <3>1. port'[<<s, sw[s].root_port>>] = port[<<s, sw[s].root_port>>]
      BY <1>2, <1>4, <1>6, <2>1, <2>3 DEF SwitchOk
    <3> QED
      BY <1>2, <2>1, <2>3, <3>1 DEF SwitchOk
  <2> QED
    BY <2>2, <2>3
<1>12. \A t \in Switch : SwitchOk(t)'
  BY <1>1, <1>3, <1>6, <1>11, OtherSwitch
<1> QED
  BY <1>3, <1>9, <1>10, <1>12 DEF IInv

(***************************************************************************)
(* The steps that change no switch and no port                             *)
(***************************************************************************)
LEMMA SameSwitches ==
  ASSUME IInv, UNCHANGED <<links, sw, port>>
  PROVE  \A t \in Switch : SwitchOk(t)'
<1>1. \A t \in Switch : Peer(t)' = Peer(t)
  BY DEF Peer
<1> QED
  BY <1>1 DEF IInv, SwitchOk

LEMMA EqualStep ==
  ASSUME IInv, NEW s \in Switch, NEW n \in Peer(s), net[<<n, s>>] # <<>>,
         net' = Taken(s, n), UNCHANGED <<links, up, sw, port>>
  PROVE  IInv'
<1>1. /\ Taken(s, n) \in [PortId -> Seq(Config)]
      /\ \A p \in PortId : p[2] # s => Taken(s, n)[p] = net[p]
      /\ \A m \in Peer(s) : LinkOk(m, s, sw[m], Taken(s, n)[<<m, s>>], port[<<s, m>>])
  BY TakenProperties
<1>2. TypeOK'
  <2>1. PortId' = PortId
    BY DEF PortId
  <2> QED
    BY <1>1, <2>1 DEF IInv, TypeOK
<1>3. ASSUME NEW t \in Switch, NEW m \in Peer(t)
      PROVE  LinkOk(m, t, sw[m], net'[<<m, t>>], port[<<t, m>>])
  <2>1. CASE t = s
    BY <1>1, <2>1
  <2>2. CASE t # s
    <3> DEFINE p == <<m, t>>
    <3>1. p \in PortId /\ p[2] # s
      BY <2>2, PortProperties DEF IInv
    <3>2. net'[p] = net[p]
      BY <1>1, <3>1
    <3> QED
      BY <3>2 DEF IInv, Links
  <2> QED
    BY <2>1, <2>2
<1>4. Links'
  BY <1>3 DEF Links, Peer
<1> QED
  BY <1>2, <1>4, SameSwitches DEF IInv

LEMMA HelloStep ==
  ASSUME IInv, NEW s \in Switch, HelloTimeout(s)
  PROVE  IInv' /\ UNCHANGED sw
<1> DEFINE st == sw[s]
           N == {n \in Peer(s) : Designated(s, n, port[<<s, n>>])}
<1>1. UNCHANGED <<links, up, sw, port>> /\ net' = Sent(s, st, N, net)
  BY DEF HelloTimeout
<1>2. /\ TypeOK /\ Links /\ st \in State /\ (st.cost = 0 => st.root = s)
      /\ st.root \in Nat /\ st.cost \in Nat
      /\ net \in [PortId -> Seq(Config)] /\ port \in [PortId -> Config]
  BY Fields DEF IInv, TypeOK, SwitchOk
<1> HIDE DEF N
<1>3. /\ sw' = [sw EXCEPT ![s] = st] /\ NoWorse(st, sw[s])
      /\ port' \in [PortId -> Config] /\ \A p \in PortId : port'[p] = port[p]
  BY <1>1, <1>2 DEF TypeOK, NoWorse
<1>4. \A m \in Peer(s) : LinkOk(m, s, sw[m], net[<<m, s>>], port'[<<s, m>>])
  BY <1>1, <1>2 DEF Links
<1> HIDE DEF st
<1>5. Links'
  BY <1>1, <1>2, <1>3, <1>4, StepLinks
<1>6. TypeOK'
  BY <1>1, <1>2, <1>3, StepTypes DEF TypeOK
<1> QED
  BY <1>1, <1>5, <1>6, SameSwitches DEF IInv

LEMMA StartStep ==
  ASSUME IInv, UNCHANGED <<links, sw, port, net>>, up' \subseteq Switch
  PROVE  IInv'
<1>1. PortId' = PortId /\ \A t \in Switch : Peer(t)' = Peer(t)
  BY DEF PortId, Peer
<1>2. TypeOK' /\ Links'
  BY <1>1 DEF IInv, TypeOK, Links
<1> QED
  BY <1>2, SameSwitches DEF IInv

(***************************************************************************)
(* All steps                                                               *)
(***************************************************************************)
LEMMA NextIInv ==
  ASSUME CostSurvives, IInv, [Next]_vars
  PROVE  IInv' /\ \A s \in Switch : sw'[s] = sw[s] \/ NoWorse(sw'[s], sw[s])
<1>1. CASE UNCHANGED vars
  <2>1. IInv'
    BY <1>1, StartStep DEF vars, IInv, TypeOK
  <2> QED
    BY <1>1, <2>1 DEF vars
<1>2. ASSUME NEW s \in Switch, Start(s)
      PROVE  IInv' /\ UNCHANGED sw
  BY <1>2, StartStep DEF Start, IInv, TypeOK
<1>3. ASSUME NEW s \in Switch, NEW n \in Peer(s), HandlePacket(s, n)
      PROVE  IInv' /\ \A t \in Switch : sw'[t] = sw[t] \/ NoWorse(sw'[t], sw[t])
  <2> DEFINE c == Head(net[<<n, s>>])
  <2>1. /\ net[<<n, s>>] # <<>> /\ UNCHANGED <<links, up>>
        /\ \/ Better(c, port[<<s, n>>]) /\ HandleSuperior(s, n, c)
           \/ Better(port[<<s, n>>], c) /\ HandleInferior(s, n)
           \/ net' = Taken(s, n) /\ UNCHANGED <<sw, port>>
    BY <1>3 DEF HandlePacket, Arrived
  <2>2. CASE Better(c, port[<<s, n>>]) /\ HandleSuperior(s, n, c)
    BY <2>1, <2>2, SuperiorStep
  <2>3. CASE Better(port[<<s, n>>], c) /\ HandleInferior(s, n)
    BY <2>1, <2>3, InferiorStep
  <2>4. CASE net' = Taken(s, n) /\ UNCHANGED <<sw, port>>
    BY <2>1, <2>4, EqualStep
  <2> QED
    BY <2>1, <2>2, <2>3, <2>4
<1> QED
  BY <1>1, <1>2, <1>3, HelloStep DEF Next

LEMMA InitIInv == Init => IInv
<1> SUFFICES ASSUME Init PROVE IInv
  OBVIOUS
<1>1. TypeOK
  <2>1. \A p \in PortId : Own(p[1], p[2], p[1], 0) \in Config
    BY DEF PortId, Own, Config
  <2>2. port \in [PortId -> Config]
    BY <2>1 DEF Init
  <2>3. net \in [PortId -> Seq(Config)]
    BY EmptySeq DEF Init
  <2> QED
    BY <2>2, <2>3 DEF Init, TypeOK
<1>2. \A s \in Switch : \A n \in Peer(s) : port[<<s, n>>] = Own(s, n, s, 0) /\ net[<<n, s>>] = <<>>
  <2> TAKE s \in Switch
  <2> TAKE n \in Peer(s)
  <2> DEFINE p == <<s, n>>
  <2>1. p \in PortId /\ p[1] = s /\ p[2] = n /\ <<n, s>> \in PortId
    BY <1>1, PortProperties
  <2>2. port[p] = Own(p[1], p[2], p[1], 0)
    BY <2>1 DEF Init
  <2> QED
    BY <2>1, <2>2 DEF Init
<1>3. Links
  <2>1. Len(<<>>) = 0
    BY EmptySeq
  <2>2. \A s, n : Own(s, n, s, 0).switch = s /\ Own(s, n, s, 0).port = n
    BY DEF Own
  <2> QED
    <3> SUFFICES ASSUME NEW s \in Switch, NEW n \in Peer(s)
                 PROVE  LinkOk(n, s, sw[n], net[<<n, s>>], port[<<s, n>>])
      BY DEF Links
    <3> DEFINE own == Own(s, n, s, 0)
    <3>1. own.switch = s /\ own.port = n /\ port[<<s, n>>] = own /\ net[<<n, s>>] = <<>>
      BY <1>2, <2>2
    <3> HIDE DEF own
    <3>2. LinkOk(n, s, sw[n], <<>>, own)
      BY <2>1, <3>1 DEF LinkOk
    <3> QED
      BY <3>1, <3>2
<1>4. \A s \in Switch : SwitchOk(s)
  <2> TAKE s \in Switch
  <2>1. sw[s].root = s /\ sw[s].cost = 0 /\ sw[s].root_port = NoPort
    BY DEF Init
  <2> QED
    BY <1>2, <2>1 DEF SwitchOk
<1> QED
  BY <1>1, <1>3, <1>4 DEF IInv

(* The root a switch believes in is replaced by a better one only, on any  *)
(* topology, whatever old packets are on their way (built with -O0, where  *)
(* ntohll keeps the cost).                                                 *)
THEOREM RootsImprove ==
  ASSUME CostSurvives
  PROVE  Spec => RootOnlyImproves
<1> DEFINE Step == \A s \in Switch : sw'[s].root <= sw[s].root
<1>1. IInv /\ [Next]_vars => IInv' /\ Step
  <2> SUFFICES ASSUME IInv, [Next]_vars PROVE IInv' /\ Step
    OBVIOUS
  <2>1. IInv' /\ \A s \in Switch : sw'[s] = sw[s] \/ NoWorse(sw'[s], sw[s])
    BY NextIInv
  <2>2. \A s \in Switch : sw[s].root \in Nat /\ sw'[s].root \in Nat
    <3>1. TypeOK /\ TypeOK'
      BY <2>1 DEF IInv
    <3> QED
      BY <3>1, SwitchAssumption DEF TypeOK
  <2> QED
    BY <2>1, <2>2 DEF NoWorse
<1> HIDE DEF Step
<1>2. Spec => [][Step]_vars
  BY <1>1, InitIInv, PTL DEF Spec
<1> QED
  BY <1>2 DEF RootOnlyImproves, Step

(* The switch behind a root port knows a better root or a shorter way to   *)
(* the same one: root ports never form a cycle, whatever is on its way.    *)
THEOREM RootPortsLeadCloser ==
  ASSUME CostSurvives
  PROVE  Spec => []RootPortLeadsCloser
<1>1. IInv => RootPortLeadsCloser
  <2> SUFFICES ASSUME IInv, NEW s \in Switch, sw[s].root_port # NoPort
               PROVE  LET n == sw[s].root_port
                      IN \/ sw[n].root < sw[s].root
                         \/ sw[n].root = sw[s].root /\ sw[n].cost < sw[s].cost
    BY DEF RootPortLeadsCloser
  <2> DEFINE n == sw[s].root_port
             pt == port[<<s, n>>]
  <2>1. /\ n \in Peer(s) /\ pt.switch = n
        /\ sw[s].root = pt.root /\ sw[s].cost = pt.cost + 1
    BY DEF IInv, SwitchOk
  <2> HIDE DEF n
  <2>2. n \in Switch /\ n # s /\ pt \in Config /\ LinkOk(n, s, sw[n], net[<<n, s>>], pt)
    BY <2>1, PortProperties, Fields DEF IInv, Links
  <2> HIDE DEF pt
  <2>3. NoWorse(sw[n], pt)
    BY <2>1, <2>2 DEF LinkOk
  <2>4. /\ sw[n].root \in Nat /\ sw[n].cost \in Nat /\ pt.root \in Nat /\ pt.cost \in Nat
    BY <2>2, Fields, ConfigFields DEF IInv
  <2> QED
    BY <2>1, <2>3, <2>4 DEF NoWorse, n
<1>2. IInv /\ [Next]_vars => IInv'
  BY NextIInv
<1> QED
  BY <1>1, <1>2, InitIInv, PTL DEF Spec

(***************************************************************************)
(* Ways over the links                                                     *)
(***************************************************************************)
LEMMA WalkNowhere ==
  ASSUME NEW L, NEW s \in Switch
  PROVE  Walk(L, s, s, 0)
<1> DEFINE w == [i \in 0..0 |-> s]
<1>1. w \in [0..0 -> Switch] /\ w[0] = s
  OBVIOUS
<1>2. \A i \in 0..0 - 1 : {w[i], w[i + 1]} \in L
  OBVIOUS
<1> HIDE DEF w
<1> QED
  BY <1>1, <1>2 DEF Walk

\* a link, and a way from its other end
LEMMA WalkFurther ==
  ASSUME NEW L, NEW s \in Switch, NEW n \in Switch, NEW t, NEW d \in Nat,
         {s, n} \in L, Walk(L, n, t, d)
  PROVE  Walk(L, s, t, d + 1)
<1>1. PICK w \in [0..d -> Switch] :
        w[0] = n /\ w[d] = t /\ \A i \in 0..d - 1 : {w[i], w[i + 1]} \in L
  BY DEF Walk
<1> DEFINE v == [i \in 0..d + 1 |-> IF i = 0 THEN s ELSE w[i - 1]]
<1>2. v \in [0..d + 1 -> Switch] /\ v[0] = s /\ v[d + 1] = t
  BY <1>1
<1>3. ASSUME NEW i \in 0..(d + 1) - 1
      PROVE  {v[i], v[i + 1]} \in L
  <2>1. v[i + 1] = w[i]
    BY <1>3
  <2>2. CASE i = 0
    <3>1. v[i] = s /\ v[i + 1] = n
      BY <1>1, <1>2, <2>1, <2>2
    <3> QED
      BY <3>1
  <2>3. CASE i # 0
    <3>1. v[i] = w[i - 1] /\ i - 1 \in 0..d - 1 /\ (i - 1) + 1 = i
      BY <2>3
    <3>2. {w[i - 1], w[(i - 1) + 1]} \in L
      BY <1>1, <3>1
    <3> QED
      BY <2>1, <3>1, <3>2
  <2> QED
    BY <2>2, <2>3
<1> HIDE DEF v
<1>4. \A i \in 0..(d + 1) - 1 : {v[i], v[i + 1]} \in L
  BY <1>3
<1>5. v[0] = s /\ v[d + 1] = t /\ \A i \in 0..(d + 1) - 1 : {v[i], v[i + 1]} \in L
  BY <1>2, <1>4
<1> QED
  BY <1>2, <1>5 DEF Walk

\* a way that comes to a switch twice can be cut short
LEMMA WalkCut ==
  ASSUME NEW L, NEW d \in Nat, NEW w \in [0..d -> Switch],
         \A i \in 0..d - 1 : {w[i], w[i + 1]} \in L,
         NEW a \in 0..d, NEW b \in 0..d, a < b, w[a] = w[b]
  PROVE  Walk(L, w[0], w[d], d - (b - a))
<1> DEFINE e == d - (b - a)
           v == [i \in 0..e |-> IF i <= a THEN w[i] ELSE w[i + (b - a)]]
<1>1. e \in Nat /\ a <= e
  OBVIOUS
<1>2. \A i \in 0..e : v[i] = IF i <= a THEN w[i] ELSE w[i + (b - a)]
  OBVIOUS
<1>3. \A i \in 0..e : i <= a => i \in 0..d
  OBVIOUS
<1>4. \A i \in 0..e : ~(i <= a) => i + (b - a) \in 0..d
  OBVIOUS
<1>5. v \in [0..e -> Switch]
  BY <1>3, <1>4
<1>6. v[0] = w[0]
  BY <1>1, <1>2
<1>7. v[e] = w[d]
  <2>1. CASE e <= a
    <3>1. e = a /\ d = b
      BY <1>1, <2>1
    <3> QED
      BY <1>1, <1>2, <3>1
  <2>2. CASE ~(e <= a)
    BY <1>1, <1>2, <2>2
  <2> QED
    BY <2>1, <2>2
<1>8. ASSUME NEW i \in 0..e - 1
      PROVE  {v[i], v[i + 1]} \in L
  <2>1. i \in 0..e /\ i + 1 \in 0..e /\ i \in Nat
    BY <1>1
  <2>2. CASE i < a
    <3>1. v[i] = w[i] /\ v[i + 1] = w[i + 1] /\ i \in 0..d - 1
      BY <1>2, <2>1, <2>2
    <3> QED
      BY <3>1
  <2>3. CASE ~(i < a)
    <3> DEFINE k == i + (b - a)
    <3>1. k \in 0..d - 1 /\ k + 1 = (i + 1) + (b - a)
      BY <1>1, <2>1, <2>3
    <3>2. v[i + 1] = w[k + 1]
      BY <1>2, <2>1, <2>3, <3>1
    <3>3. v[i] = w[k]
      <4>1. CASE i = a
        <5>1. v[i] = w[a] /\ k = b
          BY <1>2, <2>1, <4>1
        <5> QED
          BY <5>1
      <4>2. CASE i # a
        BY <1>2, <2>1, <2>3, <4>2
      <4> QED
        BY <4>1, <4>2
    <3> HIDE DEF k
    <3> QED
      BY <3>1, <3>2, <3>3
  <2> QED
    BY <2>2, <2>3
<1> HIDE DEF v, e
<1>9. Walk(L, w[0], w[d], e)
  BY <1>5, <1>6, <1>7, <1>8 DEF Walk
<1> QED
  BY <1>9 DEF e

\* so the shortest visits no switch twice, and is no longer than there are switches
LEMMA ShortestIsBounded ==
  ASSUME NEW L, NEW s, NEW t, NEW d \in Nat, Walk(L, s, t, d),
         \A e \in 0..d - 1 : ~Walk(L, s, t, e)
  PROVE  d \in 0..Cardinality(Switch)
<1>1. PICK w \in [0..d -> Switch] :
        w[0] = s /\ w[d] = t /\ \A i \in 0..d - 1 : {w[i], w[i + 1]} \in L
  BY DEF Walk
<1>2. ASSUME NEW a \in 0..d, NEW b \in 0..d, a < b
      PROVE  w[a] # w[b]
  <2> SUFFICES ASSUME w[a] = w[b] PROVE FALSE
    OBVIOUS
  <2>1. Walk(L, s, t, d - (b - a))
    BY <1>1, <1>2, WalkCut
  <2>2. d - (b - a) \in 0..d - 1
    BY <1>2
  <2> QED
    BY <2>1, <2>2
<1>3. \A a, b \in 0..d : w[a] = w[b] => a = b
  <2> SUFFICES ASSUME NEW a \in 0..d, NEW b \in 0..d, w[a] = w[b]
               PROVE  a = b
    OBVIOUS
  <2>1. a < b \/ b < a \/ a = b
    OBVIOUS
  <2> QED
    BY <1>2, <2>1
<1>4. w \in Injection(0..d, Switch)
  BY <1>3 DEF Injection, IsInjective
<1>5. IsFiniteSet(Switch) /\ Cardinality(Switch) \in Nat
  BY SwitchAssumption, FS_CardinalityType
<1>6. Cardinality(0..d) <= Cardinality(Switch)
  BY <1>4, <1>5, FS_Injection DEF ExistsInjection
<1>7. Cardinality(0..d) = d + 1
  BY FS_Interval
<1> QED
  BY <1>5, <1>6, <1>7

LEMMA DistanceIsShortest ==
  ASSUME TypeOK, NEW s \in Switch, NEW t \in Switch, NEW d \in Nat, Walk(links, s, t, d)
  PROVE  Distance(s, t) \in Nat /\ Distance(s, t) <= d
<1> DEFINE T == {e \in Nat : Walk(links, s, t, e)}
<1>1. PICK e \in T : \A f \in T : e <= f
  <2>1. T \in SUBSET Nat /\ T # {}
    OBVIOUS
  <2> HIDE DEF T
  <2> QED
    BY <2>1, LeastNat
<1>2. e \in Nat /\ e <= d /\ Walk(links, s, t, e)
  BY <1>1
<1>3. \A f \in 0..e - 1 : ~Walk(links, s, t, f)
  BY <1>1
<1>4. e \in 0..Cardinality(Switch)
  BY <1>2, <1>3, ShortestIsBounded
<1> DEFINE IsDistance(f) == Walk(links, s, t, f) /\ \A g \in 0..f - 1 : ~Walk(links, s, t, g)
<1>5. Distance(s, t) = CHOOSE f \in 0..Cardinality(Switch) : IsDistance(f)
  <2> DEFINE p == <<s, t>>
  <2>1. links \in Topology /\ p \in Switch \X Switch /\ p[1] = s /\ p[2] = t
    BY DEF TypeOK
  <2> HIDE DEF p
  <2>2. Hops[links][p] = CHOOSE f \in 0..Cardinality(Switch) :
                           Walk(links, p[1], p[2], f) /\ \A g \in 0..f - 1 : ~Walk(links, p[1], p[2], g)
    BY <2>1 DEF Hops
  <2> QED
    BY <2>1, <2>2 DEF Distance, p
<1>6. IsDistance(e)
  BY <1>2, <1>3
<1>7. Distance(s, t) \in 0..Cardinality(Switch) /\ IsDistance(Distance(s, t))
  <2> HIDE DEF IsDistance
  <2> QED
    BY <1>4, <1>5, <1>6
<1>8. Cardinality(Switch) \in Nat
  BY SwitchAssumption, FS_CardinalityType
<1>9. ~(d < Distance(s, t))
  <2> SUFFICES ASSUME d < Distance(s, t) PROVE FALSE
    OBVIOUS
  <2>1. d \in 0..Distance(s, t) - 1
    BY <1>7, <1>8
  <2> QED
    BY <1>7, <2>1
<1> QED
  BY <1>7, <1>8, <1>9

(***************************************************************************)
(* There is a way to every root that anything names, of the cost it names. *)
(***************************************************************************)
Real(v, s) == Walk(links, s, v.root, v.cost)
AllReal(q) == \A p \in PortId : \A i \in 1..Len(q[p]) : Real(q[p][i], p[1])

Grounded ==
  /\ \A s \in Switch : Real(sw[s], s)
  /\ \A p \in PortId : Real(port[p], port[p].switch)
  /\ AllReal(net)

LEMMA SentReal ==
  ASSUME NEW s \in Switch, NEW st \in State, Real(st, s), NEW N,
         NEW q \in [PortId -> Seq(Config)], AllReal(q)
  PROVE  AllReal(Sent(s, st, N, q))
<1> SUFFICES ASSUME NEW p \in PortId, NEW i \in 1..Len(Sent(s, st, N, q)[p])
             PROVE  Real(Sent(s, st, N, q)[p][i], p[1])
  BY DEF AllReal
<1> DEFINE own == Own(s, p[2], st.root, st.cost)
<1>1. CASE Sent(s, st, N, q)[p] = q[p]
  BY <1>1 DEF AllReal
<1>2. CASE p[1] = s /\ Sent(s, st, N, q)[p] = Append(q[p], own)
  <2>1. own \in Config /\ own.root = st.root /\ own.cost = st.cost /\ q[p] \in Seq(Config)
    <3>1. p[2] \in Switch /\ st.root \in Switch /\ st.cost \in Nat /\ q[p] \in Seq(Config)
      BY DEF PortId, State
    <3> QED
      BY <3>1, OwnFields
  <2> HIDE DEF own
  <2>2. Real(own, s)
    BY <2>1 DEF Real
  <2>3. \/ i \in 1..Len(q[p]) /\ Append(q[p], own)[i] = q[p][i]
        \/ Append(q[p], own)[i] = own
    BY <1>2, <2>1
  <2> QED
    BY <1>2, <2>2, <2>3 DEF AllReal
<1> QED
  BY <1>1, <1>2, SentProperties

LEMMA TakenReal ==
  ASSUME IInv, Grounded, NEW s \in Switch, NEW n \in Peer(s), net[<<n, s>>] # <<>>
  PROVE  AllReal(Taken(s, n)) /\ Real(Head(net[<<n, s>>]), n)
<1> DEFINE k == <<n, s>>
           q == net[k]
<1>1. k \in PortId /\ k[1] = n /\ q \in Seq(Config) /\ q # <<>>
  BY PortProperties, Fields DEF IInv
<1>2. \A i \in 1..Len(q) : Real(q[i], n)
  BY <1>1 DEF Grounded, AllReal
<1>3. \A p \in PortId : Taken(s, n)[p] = IF p = k THEN Tail(q) ELSE net[p]
  BY <1>1 DEF Taken, IInv, TypeOK
<1> HIDE DEF k, q
<1>4. Head(q) = q[1] /\ 1 \in 1..Len(q)
  BY <1>1
<1>5. \A i \in 1..Len(Tail(q)) : Tail(q)[i] = q[i + 1] /\ i + 1 \in 1..Len(q)
  BY <1>1
<1>6. AllReal(Taken(s, n))
  <2> SUFFICES ASSUME NEW p \in PortId, NEW i \in 1..Len(Taken(s, n)[p])
               PROVE  Real(Taken(s, n)[p][i], p[1])
    BY DEF AllReal
  <2>1. CASE p = k
    BY <1>1, <1>2, <1>3, <1>5, <2>1
  <2>2. CASE p # k
    BY <1>3, <2>2 DEF Grounded, AllReal
  <2> QED
    BY <2>1, <2>2
<1> QED
  BY <1>2, <1>4, <1>6 DEF q, k

LEMMA GroundedStep ==
  ASSUME IInv, Grounded, UNCHANGED links, NEW s \in Switch, NEW st \in State, Real(st, s),
         sw' = [sw EXCEPT ![s] = st],
         \A p \in PortId : Real(port'[p], port'[p].switch),
         NEW N, NEW q \in [PortId -> Seq(Config)], AllReal(q), net' = Sent(s, st, N, q)
  PROVE  Grounded'
<1>1. \A t \in Switch : sw'[t] = IF t = s THEN st ELSE sw[t]
  BY DEF IInv, TypeOK
<1>2. \A t \in Switch : Real(sw'[t], t)
  BY <1>1 DEF Grounded
<1>3. AllReal(net')
  BY SentReal
<1>4. PortId' = PortId
  BY DEF PortId
<1> QED
  BY <1>2, <1>3, <1>4 DEF Grounded, Real, AllReal

\* what a switch says of a root, all its ports can say
LEMMA OwnReal ==
  ASSUME NEW s \in Switch, NEW n \in Switch, NEW root \in Switch, NEW cost \in Nat,
         Walk(links, s, root, cost)
  PROVE  LET own == Own(s, n, root, cost) IN own.switch = s /\ Real(own, own.switch)
<1> DEFINE own == Own(s, n, root, cost)
<1>1. own.switch = s /\ own.root = root /\ own.cost = cost
  BY OwnFields
<1> HIDE DEF own
<1>2. Real(own, own.switch)
  BY <1>1 DEF Real
<1> QED
  BY <1>1, <1>2 DEF own

LEMMA SuperiorReal ==
  ASSUME CostSurvives, IInv, IInv', Grounded, NEW s \in Switch, NEW n \in Peer(s),
         UNCHANGED <<links, up>>, net[<<n, s>>] # <<>>,
         HandleSuperior(s, n, Head(net[<<n, s>>]))
  PROVE  Grounded'
<1> DEFINE c == Head(net[<<n, s>>])
           heard == Heard(s, n, c)
           r == RootPort(s, heard)
           root == heard[r].root
           cost == heard[r].cost + 1
           mine == {m \in Peer(s) : Reclaimed(s, m, heard[m], cost)}
           st == [root |-> root, cost |-> cost, root_port |-> r, hello |-> KeepsHello(s, root)]
<1>1. /\ sw' = [sw EXCEPT ![s] = st]
      /\ port' = [p \in PortId |-> IF p[1] # s THEN port[p]
                                   ELSE IF p[2] \in mine THEN Own(s, p[2], root, cost)
                                   ELSE heard[p[2]]]
      /\ net' = Sent(s, st, mine, Taken(s, n))
  BY DEF HandleSuperior
<1>2. /\ TypeOK /\ c \in Config /\ c.switch = n /\ Real(c, n) /\ AllReal(Taken(s, n))
      /\ Taken(s, n) \in [PortId -> Seq(Config)]
  BY TakenProperties, TakenReal DEF IInv
<1>3. heard = [m \in Peer(s) |-> IF m = n THEN c ELSE port[<<s, m>>]]
  <2>1. ReadCost(c.cost) = c.cost
    BY DEF ReadCost
  <2> HIDE DEF c
  <2>2. [c EXCEPT !.cost = ReadCost(@)] = c
    BY <1>2, <2>1 DEF Config
  <2> QED
    BY <2>2 DEF Heard
<1> HIDE DEF c, heard, r, mine
<1>4. \A m \in Peer(s) : Real(heard[m], heard[m].switch)
  <2> TAKE m \in Peer(s)
  <2>1. CASE m = n
    BY <1>2, <1>3, <2>1
  <2>2. CASE m # n
    <3>1. heard[m] = port[<<s, m>>] /\ <<s, m>> \in PortId
      BY <1>2, <1>3, <2>2, PortProperties
    <3> QED
      BY <3>1 DEF Grounded
  <2> QED
    BY <2>1, <2>2
<1> DEFINE now == sw'[s]
<1>5. now = st /\ now \in State /\ TypeOK' /\ SwitchOk(s)'
  <2>1. now = st
    BY <1>1, <1>2 DEF TypeOK
  <2>2. TypeOK' /\ SwitchOk(s)'
    BY DEF IInv
  <2>3. now \in State
    BY <2>2 DEF TypeOK, State
  <2> QED
    BY <2>1, <2>2, <2>3
<1>6. now.root = root /\ now.cost = cost /\ now.root_port = r /\ root \in Switch /\ cost \in Nat
  BY <1>5 DEF State
<1>7. Peer(s)' = Peer(s) /\ PortId' = PortId
  BY DEF Peer, PortId
<1>8. Walk(links, s, root, cost)
  <2>1. CASE r = NoPort
    <3>1. now.root = s /\ now.cost = 0
      BY <1>5, <1>6, <2>1 DEF SwitchOk
    <3> QED
      BY <1>6, <3>1, WalkNowhere
  <2>2. CASE r # NoPort
    <3> DEFINE k == <<s, r>>
               pt == port'[k]
    <3>1. r \in Peer(s) /\ pt.switch = r /\ root = pt.root /\ cost = pt.cost + 1
      BY <1>5, <1>6, <1>7, <2>2 DEF SwitchOk
    <3>2. r \in Switch /\ r # s /\ k \in PortId /\ k[1] = s /\ k[2] = r
      BY <1>2, <3>1, PortProperties
    <3>3. pt = IF r \in mine THEN Own(s, r, root, cost) ELSE heard[r]
      <4> HIDE DEF root, cost
      <4> QED
        BY <1>1, <3>2
    <3>4. pt \in Config
      BY <1>5, <1>7, <3>2 DEF TypeOK
    <3> HIDE DEF pt, k
    <3>5. pt = heard[r]
      <4> HIDE DEF root, cost
      <4>1. Own(s, r, root, cost).switch = s
        BY DEF Own
      <4> QED
        BY <3>1, <3>2, <3>3, <4>1
    <3>6. Real(pt, r)
      BY <1>4, <3>1, <3>5
    <3>7. {s, r} \in links /\ pt.cost \in Nat
      BY <3>1, <3>4 DEF Peer, Config
    <3> HIDE DEF root, cost
    <3> QED
      BY <3>1, <3>2, <3>6, <3>7, WalkFurther DEF Real
  <2> QED
    BY <2>1, <2>2
<1>9. Real(st, s) /\ st \in State
  BY <1>5, <1>6, <1>8 DEF Real
<1> HIDE DEF root, cost, st, now
<1>10. ASSUME NEW p \in PortId
       PROVE  Real(port'[p], port'[p].switch)
  <2>1. p[1] \in Switch /\ p[2] \in Peer(p[1]) /\ p[2] \in Switch
    BY PortIdIsPair DEF Peer
  <2>2. CASE p[1] # s
    BY <1>1, <2>2 DEF Grounded
  <2>3. CASE p[1] = s /\ p[2] \in mine
    <3>1. port'[p] = Own(s, p[2], root, cost)
      BY <1>1, <2>3
    <3> QED
      BY <1>6, <1>8, <2>1, <3>1, OwnReal
  <2>4. CASE p[1] = s /\ p[2] \notin mine
    <3>1. port'[p] = heard[p[2]]
      BY <1>1, <2>4
    <3> QED
      BY <1>4, <2>1, <2>4, <3>1
  <2> QED
    BY <2>2, <2>3, <2>4
<1> QED
  BY <1>1, <1>2, <1>9, <1>10, GroundedStep

LEMMA InferiorReal ==
  ASSUME IInv, Grounded, NEW s \in Switch, NEW n \in Peer(s), UNCHANGED <<links, up>>,
         net[<<n, s>>] # <<>>, HandleInferior(s, n)
  PROVE  Grounded'
<1> DEFINE st == sw[s]
           own == Own(s, n, st.root, st.cost)
           k == <<s, n>>
<1>1. /\ port' = [port EXCEPT ![k] = own]
      /\ net' = Sent(s, st, {n}, Taken(s, n)) /\ sw' = sw
  BY DEF HandleInferior
<1>2. /\ TypeOK /\ st \in State /\ st.root \in Switch /\ st.cost \in Nat
      /\ n \in Switch /\ k \in PortId
      /\ Taken(s, n) \in [PortId -> Seq(Config)] /\ AllReal(Taken(s, n))
  BY Fields, PortProperties, TakenProperties, TakenReal DEF IInv
<1>3. Real(st, s) /\ Walk(links, s, st.root, st.cost)
  BY DEF Grounded, Real
<1>4. sw' = [sw EXCEPT ![s] = st]
  BY <1>1, <1>2 DEF TypeOK
<1>5. own.switch = s /\ Real(own, own.switch)
  BY <1>2, <1>3, OwnReal
<1> HIDE DEF st, own, k
<1>6. \A p \in PortId : Real(port'[p], port'[p].switch)
  <2> TAKE p \in PortId
  <2>1. port'[p] = IF p = k THEN own ELSE port[p]
    BY <1>1, <1>2 DEF TypeOK
  <2> QED
    BY <1>5, <2>1 DEF Grounded
<1> QED
  BY <1>1, <1>2, <1>3, <1>4, <1>6, GroundedStep

LEMMA QuietReal ==
  ASSUME IInv, Grounded, UNCHANGED <<links, sw, port>>, AllReal(net')
  PROVE  Grounded'
<1>1. PortId' = PortId
  BY DEF PortId
<1> QED
  BY <1>1 DEF Grounded, Real, AllReal

LEMMA NextGrounded ==
  ASSUME CostSurvives, IInv, IInv', Grounded, [Next]_vars
  PROVE  Grounded'
<1>1. CASE UNCHANGED vars
  BY <1>1, QuietReal DEF vars, Grounded
<1>2. ASSUME NEW s \in Switch, Start(s)
      PROVE  Grounded'
  BY <1>2, QuietReal DEF Start, Grounded
<1>3. ASSUME NEW s \in Switch, HelloTimeout(s)
      PROVE  Grounded'
  <2> DEFINE N == {n \in Peer(s) : Designated(s, n, port[<<s, n>>])}
  <2>1. UNCHANGED <<links, up, sw, port>> /\ net' = Sent(s, sw[s], N, net)
    BY <1>3 DEF HelloTimeout
  <2>2. sw[s] \in State /\ net \in [PortId -> Seq(Config)] /\ Real(sw[s], s) /\ AllReal(net)
    BY Fields DEF IInv, TypeOK, Grounded
  <2> HIDE DEF N
  <2>3. AllReal(Sent(s, sw[s], N, net))
    BY <2>2, SentReal
  <2> QED
    BY <2>1, <2>3, QuietReal
<1>4. ASSUME NEW s \in Switch, NEW n \in Peer(s), HandlePacket(s, n)
      PROVE  Grounded'
  <2> DEFINE c == Head(net[<<n, s>>])
  <2>1. /\ net[<<n, s>>] # <<>> /\ UNCHANGED <<links, up>>
        /\ \/ HandleSuperior(s, n, c)
           \/ HandleInferior(s, n)
           \/ net' = Taken(s, n) /\ UNCHANGED <<sw, port>>
    BY <1>4 DEF HandlePacket, Arrived
  <2>2. CASE HandleSuperior(s, n, c)
    BY <2>1, <2>2, SuperiorReal
  <2>3. CASE HandleInferior(s, n)
    BY <2>1, <2>3, InferiorReal
  <2>4. CASE net' = Taken(s, n) /\ UNCHANGED <<sw, port>>
    <3>1. AllReal(Taken(s, n))
      BY <2>1, TakenReal
    <3> QED
      BY <2>1, <2>4, <3>1, QuietReal
  <2> QED
    BY <2>1, <2>2, <2>3, <2>4
<1> QED
  BY <1>1, <1>2, <1>3, <1>4 DEF Next

LEMMA InitGrounded == Init => Grounded
<1> SUFFICES ASSUME Init PROVE Grounded
  OBVIOUS
<1>1. \A s \in Switch : Real(sw[s], s)
  <2> TAKE s \in Switch
  <2>1. sw[s].root = s /\ sw[s].cost = 0
    BY DEF Init
  <2> QED
    BY <2>1, WalkNowhere DEF Real
<1>2. \A p \in PortId : Real(port[p], port[p].switch)
  <2> TAKE p \in PortId
  <2>1. p[1] \in Switch /\ p[2] \in Switch /\ port[p] = Own(p[1], p[2], p[1], 0)
    BY DEF Init, PortId
  <2>2. Walk(links, p[1], p[1], 0)
    BY <2>1, WalkNowhere
  <2> QED
    BY <2>1, <2>2, OwnReal
<1>3. AllReal(net)
  <2>1. \A p \in PortId : net[p] = <<>>
    BY DEF Init
  <2>2. Len(<<>>) = 0
    BY EmptySeq
  <2> QED
    BY <2>1, <2>2 DEF AllReal
<1> QED
  BY <1>1, <1>2, <1>3 DEF Grounded

(* What a switch, a port or a packet says of a root is the length of a way *)
(* to it, and so not below its distance, on any topology and however old   *)
(* the packets are that stp_handle_config_packet believes (built with -O0, *)
(* where ntohll keeps the cost).                                           *)
THEOREM CostsStayReal ==
  ASSUME CostSurvives
  PROVE  Spec => []CostsAreReal
<1>1. IInv /\ Grounded => CostsAreReal
  <2> SUFFICES ASSUME IInv, Grounded PROVE CostsAreReal
    OBVIOUS
  <2>1. TypeOK
    BY DEF IInv
  <2>2. ASSUME NEW v, NEW s \in Switch, v.root \in Switch, v.cost \in Nat, Real(v, s)
        PROVE  v.cost >= Distance(s, v.root)
    <3>1. Distance(s, v.root) \in Nat /\ Distance(s, v.root) <= v.cost
      BY <2>1, <2>2, DistanceIsShortest DEF Real
    <3> QED
      BY <2>2, <3>1
  <2>3. \A s \in Switch : sw[s].cost >= Distance(s, sw[s].root)
    BY <2>1, <2>2, Fields DEF Grounded
  <2>4. ASSUME NEW p \in PortId
        PROVE  port[p].cost >= Distance(port[p].switch, port[p].root)
    <3>1. port[p] \in Config
      BY <2>1 DEF TypeOK
    <3>2. port[p].switch \in Switch /\ port[p].root \in Switch /\ port[p].cost \in Nat
      BY <3>1 DEF Config
    <3> QED
      BY <2>2, <3>2 DEF Grounded
  <2>5. ASSUME NEW p \in PortId, NEW i \in 1..Len(net[p])
        PROVE  net[p][i].cost >= Distance(p[1], net[p][i].root)
    <3>1. net[p] \in Seq(Config) /\ p[1] \in Switch
      BY <2>1 DEF TypeOK, PortId
    <3>2. net[p][i] \in Config
      BY <3>1
    <3>3. net[p][i].root \in Switch /\ net[p][i].cost \in Nat
      BY <3>2 DEF Config
    <3> QED
      BY <2>2, <3>1, <3>3 DEF Grounded, AllReal
  <2> QED
    BY <2>1, <2>3, <2>4, <2>5 DEF CostsAreReal
<1>2. IInv /\ [Next]_vars => IInv'
  BY NextIInv
<1>3. IInv /\ IInv' /\ Grounded /\ [Next]_vars => Grounded'
  BY NextGrounded
<1> QED
  BY <1>1, <1>2, <1>3, InitIInv, InitGrounded, PTL DEF Spec
=============================================================================
