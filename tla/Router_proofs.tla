---------------------------- MODULE Router_proofs ----------------------------
(* Proofs about Router: for every set of packets, hosts, routes and bounds *)
(* one thing becomes of a packet, and only those are given up that leave   *)
(* their requests unanswered.  The invariant says where each packet is:    *)
(* in hand, at one place in the requests, or gone.  A request is known by  *)
(* its next hop rather than by its index, since others leave the list.     *)
EXTENDS Router, FiniteSetTheorems, SequenceTheorems, WellFoundedInduction, TLAPS

(* What is queued for a next hop: a message that has one, and a source.    *)
Queued == {m \in [about : Packet \cup {None}, src : Addresses, dst : Addresses] : Route[m.dst] # None}

Working == sweeper.at \in {"report", "append", "drop"}
Fates == {"sent", "answered", "reported", "lost"}
Req == [ip4 : Hops, age : 0..2, retries : 0..ARP_REQUEST_MAX_RETRIES + 1, pkts : Seq(Queued)]

(* Lists of requests: one for an address, none without a packet.           *)
Unique(rs) == \A i, j \in DOMAIN rs : rs[i].ip4 = rs[j].ip4 => i = j
Filled(rs) == \A i \in DOMAIN rs : rs[i].pkts # <<>>
Lists == {rs \in Seq(Req) : Unique(rs) /\ Filled(rs)}

SweeperOK ==
  /\ sweeper \in [at : {"asleep", "awake", "report", "append", "drop"}, ip4 : Hops \cup {None},
                  last : BOOLEAN, next : Hops \cup {None}, msg : Queued \cup {None}, freed : SUBSET Host]
  /\ IF Working THEN sweeper.ip4 # None
     ELSE sweeper.ip4 = None /\ sweeper.next = None /\ sweeper.freed = {}
  /\ sweeper.at = "append" => sweeper.msg \in Queued /\ sweeper.msg.about = None

(* The request the sweep points to is there until it is answered.          *)
Pointed ==
  Working /\ ~Dangling =>
    \E i \in DOMAIN req_list : req_list[i].ip4 = sweeper.ip4 /\ (~sweeper.last => Len(req_list[i].pkts) >= 2)

Types ==
  /\ entries \in [Slot -> ArpCacheEntry \cup {None}]
  /\ req_list \in Lists
  /\ main \in Queued \cup {None}
  /\ main # None => main.about \in handled \cup {None}
  /\ handled \in SUBSET Packet
  /\ fate \in [Packet -> SUBSET Fates]
  /\ unanswered \in [Hops -> 0..ARP_REQUEST_MAX_RETRIES + 1]
  /\ SweeperOK

InList(rs, h) == {i \in DOMAIN rs : rs[i].ip4 = h}
Pkts(rs, h) == IF InList(rs, h) = {} THEN <<>> ELSE rs[CHOOSE i \in InList(rs, h) : TRUE].pkts

(* Where in the requests a packet waits.                                   *)
Where(rs, p) == {x \in UNION {{h} \X DOMAIN Pkts(rs, h) : h \in Hops} : Pkts(rs, x[1])[x[2]].about = p}

AtHead(p) == sweeper.at \in {"append", "drop"} /\ <<sweeper.ip4, 1>> \in Where(req_list, p)
Place(p) ==
  \/ InHand(p) /\ Where(req_list, p) = {} /\ fate[p] = {}
  \/ /\ ~InHand(p)
     /\ \E x : Where(req_list, p) = {x}
     /\ IF AtHead(p) THEN \E w \in Fates : fate[p] = {w} ELSE fate[p] = {}
  \/ ~InHand(p) /\ Where(req_list, p) = {} /\ \E w \in Fates : fate[p] = {w}
Placed == misused \/ Dangling \/ \A p \in Packet : Place(p)

Counted ==
  /\ \A i \in DOMAIN req_list : req_list[i].retries <= unanswered[req_list[i].ip4]
  /\ Working /\ ~Dangling => Silent(sweeper.ip4)

-----------------------------------------------------------------------------
(* A set of numbers that has an element has a least one.                   *)
LEMMA LeastNat ==
  ASSUME NEW T \in SUBSET Nat, T # {}
  PROVE  \E x \in T : \A y \in T : x <= y
<1>1. IsWellFoundedOn(OpToRel(<, Nat), Nat)
  BY NatLessThanWellFounded
<1>2. PICK x \in T : \A y \in T : ~(<<y, x>> \in OpToRel(<, Nat))
  BY <1>1, WFMin
<1>3. \A y \in T : ~(y < x)
  BY <1>2 DEF OpToRel
<1> QED
  BY <1>3

(* The route that the lookup chooses is one of those that match.           *)
LEMMA LongestMatches ==
  ASSUME NEW d, Matches(d) # {}
  PROVE  Longest(d) \in Matches(d)
<1> DEFINE M == Matches(d)
<1>1. M \in SUBSET Nat /\ \A j \in M : Kernel[j].len \in 0..32
  <2>1. M \subseteq DOMAIN Kernel
    BY DEF Matches, Rtable
  <2>2. DOMAIN Kernel = 1..Len(Kernel) /\ Len(Kernel) \in Nat
    BY RouteAssumption
  <2> QED BY <2>1, <2>2, RouteAssumption
<1> DEFINE T == {32 - Kernel[j].len : j \in M}
<1>2. T \in SUBSET Nat /\ T # {}
  BY <1>1
<1>3. PICK t \in T : \A y \in T : t <= y
  <2> HIDE DEF T
  <2> QED BY <1>2, LeastNat
<1> DEFINE S == {j \in M : 32 - Kernel[j].len = t}
<1>4. S \in SUBSET Nat /\ S # {}
  BY <1>1, <1>3
<1>5. PICK i \in S : \A y \in S : i <= y
  <2> HIDE DEF S
  <2> QED BY <1>4, LeastNat
<1>6. i \in M /\ \A j \in M : Kernel[j].len < Kernel[i].len \/ (Kernel[j].len = Kernel[i].len /\ i <= j)
  <2>1. i \in M /\ Kernel[i].len \in 0..32 /\ 32 - Kernel[i].len = t
    BY <1>1, <1>5
  <2>2. ASSUME NEW j \in M
        PROVE  Kernel[j].len < Kernel[i].len \/ (Kernel[j].len = Kernel[i].len /\ i <= j)
    <3>1. Kernel[j].len \in 0..32 /\ t <= 32 - Kernel[j].len
      BY <1>1, <1>3
    <3>2. 32 - Kernel[j].len = t => i <= j
      BY <1>5
    <3> QED BY <2>1, <3>1, <3>2
  <2> QED BY <2>1, <2>2
<1>7. \E k \in Matches(d) : \A j \in Matches(d) :
        Kernel[j].len < Kernel[k].len \/ (Kernel[j].len = Kernel[k].len /\ k <= j)
  BY <1>6
<1> QED BY <1>7, Zenon DEF Longest

(* A next hop is reached through an interface, which has an address.       *)
LEMMA RouteType ==
  /\ Own \subseteq Addresses
  /\ \A p \in Packet : Src[p] \in Addresses /\ Dst[p] \in Addresses
  /\ \A a \in Addresses : Route[a] # None => Route[a] \in Hops /\ Via[a] \in Own
<1>1. ASSUME NEW a \in Addresses, Route[a] # None
      PROVE  Route[a] \in Hops /\ Via[a] \in Own
  <2>1. Matches(a) # {}
    BY <1>1 DEF Route
  <2>2. Longest(a) \in Matches(a)
    BY <2>1, LongestMatches
  <2>3. Kernel[Longest(a)].oif \in Iface
    BY <2>2 DEF Matches, Rtable
  <2>4. Via[a] = Device[Kernel[Longest(a)].oif]
    BY <2>1 DEF Via
  <2> QED BY <1>1, <2>3, <2>4 DEF Own, Hops
<1> QED BY <1>1 DEF Addresses

(* A packet that is forwarded can be queued ...                            *)
LEMMA ForwardedQueued ==
  ASSUME NEW p \in Packet, Route[Dst[p]] # None
  PROVE  Forwarded(p) \in Queued /\ Forwarded(p).about = p /\ Forwarded(p).dst = Dst[p]
BY RouteType DEF Forwarded, Queued

(* ... and so can what the router sends to an address that it can reach.   *)
LEMMA IcmpQueued ==
  ASSUME NEW a \in Addresses, Route[a] # None
  PROVE  IcmpTo(a) \in Queued /\ IcmpTo(a).about = None /\ IcmpTo(a).dst = a
BY RouteType DEF IcmpTo, Queued

(* What is queued has a source, a destination and a next hop.              *)
LEMMA QueuedType ==
  ASSUME NEW m \in Queued
  PROVE  /\ m \in Message /\ m # None
         /\ m.about \in Packet \cup {None} /\ m.src \in Addresses /\ m.dst \in Addresses
         /\ Route[m.dst] # None /\ Route[m.dst] \in Hops
<1>1. m \in Message
  BY DEF Queued, Message
<1> QED BY <1>1, RouteType, AddressAssumption DEF Queued

-----------------------------------------------------------------------------
(* In a list with one request for an address, its packets are those of     *)
(* that request.                                                           *)
LEMMA PktsOf ==
  ASSUME NEW rs \in Lists, NEW i \in DOMAIN rs
  PROVE  /\ InList(rs, rs[i].ip4) = {i}
         /\ Pkts(rs, rs[i].ip4) = rs[i].pkts
         /\ rs[i].ip4 \in Hops /\ rs[i].pkts \in Seq(Queued) /\ rs[i].pkts # <<>>
         /\ rs[i].retries \in 0..ARP_REQUEST_MAX_RETRIES + 1 /\ rs[i].age \in 0..2
<1>1. InList(rs, rs[i].ip4) = {i}
  BY DEF Lists, Unique, InList
<1>2. rs[i] \in Req
  BY DEF Lists
<1>3. rs[i].pkts # <<>>
  BY DEF Lists, Filled
<1>4. (CHOOSE j \in {i} : TRUE) = i
  OBVIOUS
<1>5. Pkts(rs, rs[i].ip4) = rs[i].pkts
  BY <1>1, <1>4 DEF Pkts
<1> QED BY <1>1, <1>2, <1>3, <1>5 DEF Req

(* The packets that wait for an address form a sequence.                   *)
LEMMA PktsType ==
  ASSUME NEW rs \in Lists, NEW h
  PROVE  /\ Pkts(rs, h) \in Seq(Queued)
         /\ InList(rs, h) = {} => Pkts(rs, h) = <<>>
<1>1. CASE InList(rs, h) = {}
  BY <1>1 DEF Pkts
<1>2. CASE InList(rs, h) # {}
  <2>1. PICK i \in DOMAIN rs : rs[i].ip4 = h
    BY <1>2 DEF InList
  <2> QED BY <1>2, <2>1, PktsOf
<1> QED BY <1>1, <1>2

(* What it is to be a place of a packet.                                   *)
LEMMA WhereMember ==
  ASSUME NEW rs, NEW p
  PROVE  /\ \A h, k : <<h, k>> \in Where(rs, p) <=>
                      h \in Hops /\ k \in DOMAIN Pkts(rs, h) /\ Pkts(rs, h)[k].about = p
         /\ \A x \in Where(rs, p) : x = <<x[1], x[2]>>
<1> DEFINE U == UNION {{h} \X DOMAIN Pkts(rs, h) : h \in Hops}
<1>1. \A h, k : <<h, k>> \in U <=> h \in Hops /\ k \in DOMAIN Pkts(rs, h)
  OBVIOUS
<1>2. \A x \in U : x = <<x[1], x[2]>>
  OBVIOUS
<1>3. \A x : x \in Where(rs, p) <=> x \in U /\ Pkts(rs, x[1])[x[2]].about = p
  BY DEF Where
<1> HIDE DEF U
<1> QED BY <1>1, <1>2, <1>3

(* The list of requests is a sequence, and its indices are numbers.        *)
LEMMA ListsType ==
  ASSUME NEW rs \in Lists
  PROVE  /\ rs \in Seq(Req) /\ Len(rs) \in Nat /\ DOMAIN rs = 1..Len(rs)
         /\ \A i \in DOMAIN rs : rs[i] \in Req
BY DEF Lists

(* A list changed in place keeps its addresses where they are.             *)
LEMMA SameShape ==
  ASSUME NEW rs \in Lists, NEW qs \in [DOMAIN rs -> Req],
         \A i \in DOMAIN rs : qs[i].ip4 = rs[i].ip4 /\ qs[i].pkts # <<>>
  PROVE  /\ qs \in Lists /\ DOMAIN qs = DOMAIN rs
         /\ \A i \in DOMAIN rs : Pkts(qs, rs[i].ip4) = qs[i].pkts
         /\ \A g : InList(qs, g) = InList(rs, g)
<1>1. DOMAIN rs = 1..Len(rs) /\ Len(rs) \in Nat
  BY ListsType
<1>2. qs \in Seq(Req) /\ DOMAIN qs = DOMAIN rs
  BY <1>1, IsASeq
<1>3. Unique(qs) /\ Filled(qs)
  BY <1>2 DEF Lists, Unique, Filled
<1>4. qs \in Lists
  BY <1>2, <1>3 DEF Lists
<1>5. \A i \in DOMAIN rs : Pkts(qs, rs[i].ip4) = qs[i].pkts
  BY <1>2, <1>4, PktsOf
<1>6. \A g : InList(qs, g) = InList(rs, g)
  BY <1>2 DEF InList
<1> QED BY <1>2, <1>4, <1>5, <1>6

(* arpcache_append_packet: the packet is the last for its next hop.        *)
LEMMA QueueProperties ==
  ASSUME req_list \in Lists, NEW m \in Queued, Queue(m)
  PROVE  /\ req_list' \in Lists
         /\ \A g : Pkts(req_list', g) = IF g = Route[m.dst] THEN Append(Pkts(req_list, g), m)
                                        ELSE Pkts(req_list, g)
         /\ \A i \in DOMAIN req_list :
              /\ i \in DOMAIN req_list' /\ req_list'[i].ip4 = req_list[i].ip4
              /\ req_list'[i].retries = req_list[i].retries
              /\ Len(req_list'[i].pkts) >= Len(req_list[i].pkts)
         /\ \A i \in DOMAIN req_list' : i \notin DOMAIN req_list => req_list'[i].retries = 0
<1> DEFINE h == Route[m.dst]
           rs == req_list
           qs == req_list'
<1>0. h \in Hops
  BY QueuedType
<1>1. /\ DOMAIN rs = 1..Len(rs) /\ Len(rs) \in Nat /\ rs \in Seq(Req)
      /\ \A i \in DOMAIN rs : rs[i] \in Req /\ rs[i].pkts \in Seq(Queued) /\ rs[i].pkts # <<>>
  BY ListsType, PktsOf
<1>2. CASE InList(rs, h) # {}
  <2>1. qs = [i \in DOMAIN rs |-> IF rs[i].ip4 = h THEN [rs[i] EXCEPT !.pkts = Append(@, m)] ELSE rs[i]]
    BY <1>2 DEF Queue, Request, InList
  <2>2. ASSUME NEW i \in DOMAIN rs
        PROVE  /\ qs[i] \in Req /\ qs[i].ip4 = rs[i].ip4 /\ qs[i].pkts # <<>>
               /\ qs[i].retries = rs[i].retries
               /\ qs[i].pkts = IF rs[i].ip4 = h THEN Append(rs[i].pkts, m) ELSE rs[i].pkts
               /\ Len(qs[i].pkts) >= Len(rs[i].pkts)
    <3>1. /\ Append(rs[i].pkts, m) \in Seq(Queued) /\ Len(Append(rs[i].pkts, m)) = Len(rs[i].pkts) + 1
          /\ Append(rs[i].pkts, m) # <<>> /\ Len(rs[i].pkts) \in Nat
      BY <1>1, AppendProperties
    <3>2. qs[i] = IF rs[i].ip4 = h THEN [rs[i] EXCEPT !.pkts = Append(@, m)] ELSE rs[i]
      BY <2>1
    <3>3. rs[i] \in Req
      BY <1>1
    <3>4. CASE rs[i].ip4 = h
      <4>1. qs[i] = [rs[i] EXCEPT !.pkts = Append(rs[i].pkts, m)]
        BY <3>2, <3>4
      <4>2. \A r \in Req, a \in Seq(Queued) :
              /\ [r EXCEPT !.pkts = a] \in Req
              /\ [r EXCEPT !.pkts = a].ip4 = r.ip4
              /\ [r EXCEPT !.pkts = a].retries = r.retries
              /\ [r EXCEPT !.pkts = a].pkts = a
        BY DEF Req
      <4> DEFINE a == Append(rs[i].pkts, m)
      <4>3. a \in Seq(Queued) /\ a # <<>> /\ Len(a) = Len(rs[i].pkts) + 1 /\ Len(rs[i].pkts) \in Nat
        BY <3>1
      <4>4. qs[i] = [rs[i] EXCEPT !.pkts = a]
        BY <4>1
      <4> HIDE DEF rs, qs, h, a
      <4>5. /\ qs[i] \in Req /\ qs[i].ip4 = rs[i].ip4 /\ qs[i].retries = rs[i].retries
            /\ qs[i].pkts = a
        BY <3>3, <4>2, <4>3, <4>4
      <4> QED BY <3>4, <4>3, <4>5 DEF a
    <3>5. CASE rs[i].ip4 # h
      BY <1>1, <3>1, <3>2, <3>3, <3>5
    <3> QED BY <3>4, <3>5
  <2>3. qs \in [DOMAIN rs -> Req]
    BY <2>1, <2>2
  <2> HIDE DEF rs, qs, h
  <2>4. /\ qs \in Lists /\ DOMAIN qs = DOMAIN rs
        /\ \A i \in DOMAIN rs : Pkts(qs, rs[i].ip4) = qs[i].pkts
        /\ \A g : InList(qs, g) = InList(rs, g)
    BY <2>2, <2>3, SameShape DEF rs
  <2>5. ASSUME NEW g
        PROVE  Pkts(qs, g) = IF g = h THEN Append(Pkts(rs, g), m) ELSE Pkts(rs, g)
    <3>1. CASE InList(rs, g) = {}
      <4>1. g # h /\ InList(qs, g) = {}
        BY <1>2, <2>4, <3>1
      <4> QED BY <3>1, <4>1 DEF Pkts
    <3>2. CASE InList(rs, g) # {}
      <4>1. PICK i \in DOMAIN rs : rs[i].ip4 = g
        BY <3>2 DEF InList
      <4>2. Pkts(rs, g) = rs[i].pkts
        BY <4>1, PktsOf DEF rs
      <4> QED BY <2>2, <2>4, <4>1, <4>2
    <3> QED BY <3>1, <3>2
  <2> QED BY <2>2, <2>4, <2>5 DEF rs, qs, h
<1>3. CASE InList(rs, h) = {}
  <2> DEFINE new == [ip4 |-> h, age |-> 0, retries |-> 0, pkts |-> <<m>>]
  <2>1. qs = Append(rs, new)
    BY <1>3 DEF Queue, Request, InList
  <2>2. new \in Req /\ new.pkts # <<>>
    BY <1>0, BoundAssumption DEF Req
  <2> HIDE DEF new
  <2>3. /\ qs \in Seq(Req) /\ DOMAIN qs = 1..Len(rs) + 1
        /\ \A i \in 1..Len(rs) : qs[i] = rs[i]
        /\ qs[Len(rs) + 1] = new
    BY <1>1, <2>1, <2>2, AppendProperties
  <2>4. new.ip4 = h /\ new.pkts = <<m>> /\ new.retries = 0
    BY DEF new
  <2> HIDE DEF rs, qs, h
  <2>5. \A i \in DOMAIN rs : rs[i].ip4 # h
    BY <1>3 DEF InList
  <2>6. Unique(rs) /\ Filled(rs)
    BY DEF rs, Lists
  <2>7. \A i \in DOMAIN qs : i \in DOMAIN rs \/ i = Len(rs) + 1
    BY <1>1, <2>3
  <2>8. Unique(qs)
    BY <1>1, <2>3, <2>4, <2>5, <2>6, <2>7 DEF Unique
  <2>9. Filled(qs)
    BY <1>1, <2>2, <2>3, <2>6, <2>7 DEF Filled
  <2>10. qs \in Lists
    BY <2>3, <2>8, <2>9 DEF Lists
  <2>11. ASSUME NEW g
         PROVE  Pkts(qs, g) = IF g = h THEN Append(Pkts(rs, g), m) ELSE Pkts(rs, g)
    <3>1. CASE g = h
      <4> DEFINE k == Len(rs) + 1
      <4>3. k \in DOMAIN qs /\ qs[k] = new
        BY <1>1, <2>3
      <4> HIDE DEF k
      <4>1. Pkts(qs, h) = <<m>>
        BY <2>4, <2>10, <4>3, PktsOf
      <4>2. Pkts(rs, h) = <<>>
        BY <1>3 DEF Pkts
      <4> QED BY <3>1, <4>1, <4>2
    <3>2. CASE g # h /\ InList(rs, g) = {}
      <4>1. InList(qs, g) = {}
        BY <1>1, <2>3, <2>4, <2>7, <3>2 DEF InList
      <4> QED BY <3>2, <4>1 DEF Pkts
    <3>3. CASE g # h /\ InList(rs, g) # {}
      <4>1. PICK i \in DOMAIN rs : rs[i].ip4 = g
        BY <3>3 DEF InList
      <4>2. Pkts(rs, g) = rs[i].pkts
        BY <4>1, PktsOf DEF rs
      <4>3. i \in DOMAIN qs /\ qs[i] = rs[i]
        BY <1>1, <2>3
      <4>4. Pkts(qs, g) = qs[i].pkts
        BY <2>10, <4>1, <4>3, PktsOf
      <4> QED BY <3>3, <4>2, <4>3, <4>4
    <3> QED BY <3>1, <3>2, <3>3
  <2>12. \A i \in DOMAIN rs : Len(rs[i].pkts) \in Nat
    BY <1>1
  <2>13. \A i \in DOMAIN rs : i \in DOMAIN qs /\ qs[i] = rs[i]
    BY <1>1, <2>3
  <2>14. \A i \in DOMAIN qs : i \notin DOMAIN rs => qs[i].retries = 0
    BY <1>1, <2>3, <2>4, <2>7
  <2> QED BY <2>10, <2>11, <2>12, <2>13, <2>14 DEF rs, qs, h
<1> QED BY <1>2, <1>3

(* A request is taken out of the list.                                     *)
LEMMA WithoutProperties ==
  ASSUME req_list \in Lists, NEW i \in DOMAIN req_list
  PROVE  /\ Without(i) \in Lists
         /\ \A g : Pkts(Without(i), g) = IF g = req_list[i].ip4 THEN <<>> ELSE Pkts(req_list, g)
         /\ \A j \in DOMAIN Without(i) : \E k \in DOMAIN req_list :
              Without(i)[j] = req_list[k] /\ req_list[k].ip4 # req_list[i].ip4
         /\ \A k \in DOMAIN req_list : k # i => \E j \in DOMAIN Without(i) : Without(i)[j] = req_list[k]
<1> DEFINE rs == req_list
           n == Len(rs)
           before == SubSeq(rs, 1, i - 1)
           after == SubSeq(rs, i + 1, n)
           qs == Without(i)
           at(j) == IF j < i THEN j ELSE j + 1
<1>1. n \in Nat /\ DOMAIN rs = 1..n /\ i \in 1..n /\ rs \in Seq(Req) /\ Unique(rs) /\ Filled(rs)
  BY ListsType DEF Lists
<1>2. /\ before \in Seq(Req) /\ Len(before) = i - 1
      /\ \A j \in 1..i - 1 : before[j] = rs[j]
  BY <1>1, SubSeqProperties
<1>3. /\ after \in Seq(Req) /\ Len(after) = n - i
      /\ \A j \in 1..n - i : after[j] = rs[i + j]
  BY <1>1, SubSeqProperties
<1>4. qs = before \o after
  BY DEF Without
<1> HIDE DEF n, before, after, qs, rs
<1>5. /\ qs \in Seq(Req) /\ Len(qs) = n - 1
      /\ \A j \in 1..n - 1 : qs[j] = IF j <= i - 1 THEN before[j] ELSE after[j - (i - 1)]
  <2>1. /\ before \o after \in Seq(Req)
        /\ Len(before \o after) = Len(before) + Len(after)
        /\ \A j \in 1..Len(before) + Len(after) :
             (before \o after)[j] = IF j <= Len(before) THEN before[j] ELSE after[j - Len(before)]
    BY <1>2, <1>3, ConcatProperties
  <2>2. Len(before) + Len(after) = n - 1
    BY <1>1, <1>2, <1>3
  <2> QED BY <1>2, <1>4, <2>1, <2>2
<1>6. DOMAIN qs = 1..n - 1
  BY <1>1, <1>5
<1>7. \A j \in 1..n - 1 : at(j) \in 1..n /\ at(j) # i
  BY <1>1
<1>8. ASSUME NEW j \in 1..n - 1
      PROVE  qs[j] = rs[at(j)]
  <2>1. CASE j < i
    BY <1>1, <1>2, <1>5, <2>1
  <2>2. CASE ~(j < i)
    <3>1. j - (i - 1) \in 1..n - i /\ i + (j - (i - 1)) = j + 1
      BY <1>1, <2>2
    <3>2. qs[j] = after[j - (i - 1)]
      BY <1>1, <1>5, <2>2
    <3> QED BY <1>3, <2>2, <3>1, <3>2
  <2> QED BY <2>1, <2>2
<1>9. \A j, k \in 1..n - 1 : at(j) = at(k) => j = k
  BY <1>1
<1>10. ASSUME NEW k \in 1..n, k # i
       PROVE  \E j \in 1..n - 1 : at(j) = k
  <2>1. CASE k < i
    BY <1>1, <2>1
  <2>2. CASE k > i
    <3>1. k - 1 \in 1..n - 1 /\ at(k - 1) = k
      BY <1>1, <2>2
    <3> QED BY <3>1
  <2> QED BY <1>1, <1>10, <2>1, <2>2
<1> HIDE DEF at
<1>11. qs \in Lists
  <2>1. Unique(qs)
    BY <1>1, <1>6, <1>7, <1>8, <1>9 DEF Unique
  <2>2. Filled(qs)
    BY <1>1, <1>6, <1>7, <1>8 DEF Filled
  <2> QED BY <1>5, <2>1, <2>2 DEF Lists
<1>12. \A j \in DOMAIN qs : \E k \in DOMAIN rs : qs[j] = rs[k] /\ rs[k].ip4 # rs[i].ip4
  BY <1>1, <1>6, <1>7, <1>8 DEF Unique
<1>13. \A k \in DOMAIN rs : k # i => \E j \in DOMAIN qs : qs[j] = rs[k]
  BY <1>1, <1>6, <1>8, <1>10
<1>14. ASSUME NEW g
       PROVE  Pkts(qs, g) = IF g = rs[i].ip4 THEN <<>> ELSE Pkts(rs, g)
  <2>1. CASE g = rs[i].ip4
    <3>1. InList(qs, g) = {}
      BY <1>12, <2>1 DEF InList
    <3> QED BY <2>1, <3>1 DEF Pkts
  <2>2. CASE g # rs[i].ip4 /\ InList(rs, g) = {}
    <3>1. InList(qs, g) = {}
      BY <1>12, <2>2 DEF InList
    <3> QED BY <2>2, <3>1 DEF Pkts
  <2>3. CASE g # rs[i].ip4 /\ InList(rs, g) # {}
    <3>1. PICK k \in DOMAIN rs : rs[k].ip4 = g
      BY <2>3 DEF InList
    <3>2. PICK j \in DOMAIN qs : qs[j] = rs[k]
      BY <1>13, <2>3, <3>1
    <3>3. Pkts(rs, g) = rs[k].pkts
      BY <3>1, PktsOf DEF rs
    <3>4. Pkts(qs, g) = qs[j].pkts
      BY <1>11, <3>1, <3>2, PktsOf
    <3> QED BY <2>3, <3>2, <3>3, <3>4
  <2> QED BY <2>1, <2>2, <2>3
<1> QED BY <1>11, <1>12, <1>13, <1>14 DEF rs, qs

-----------------------------------------------------------------------------
(* What becomes of the places when a list changes.                         *)
LEMMA WhereSame ==
  ASSUME NEW rs, NEW qs, NEW p, \A g : Pkts(qs, g) = Pkts(rs, g)
  PROVE  Where(qs, p) = Where(rs, p)
BY DEF Where

(* A packet appended to those for an address has one place more, every     *)
(* other packet the places it had.                                         *)
LEMMA WhereAppended ==
  ASSUME NEW rs \in Lists, NEW qs, NEW p, NEW m \in Queued,
         \A g : Pkts(qs, g) = IF g = Route[m.dst] THEN Append(Pkts(rs, g), m) ELSE Pkts(rs, g)
  PROVE  Where(qs, p) = Where(rs, p) \cup
           IF m.about = p THEN {<<Route[m.dst], Len(Pkts(rs, Route[m.dst])) + 1>>} ELSE {}
<1> DEFINE h == Route[m.dst]
           n == Len(Pkts(rs, h))
           new == IF m.about = p THEN {<<h, n + 1>>} ELSE {}
<1>1. h \in Hops
  BY QueuedType
<1>2. /\ DOMAIN Pkts(rs, h) = 1..n /\ n \in Nat
      /\ DOMAIN Append(Pkts(rs, h), m) = 1..n + 1
      /\ \A k \in 1..n : Append(Pkts(rs, h), m)[k] = Pkts(rs, h)[k]
      /\ Append(Pkts(rs, h), m)[n + 1] = m
  <2>1. Pkts(rs, h) \in Seq(Queued)
    BY PktsType
  <2> HIDE DEF h
  <2> QED BY <2>1, AppendProperties, LenProperties
<1> HIDE DEF h, n
<1>3. ASSUME NEW g, NEW k
      PROVE  <<g, k>> \in Where(qs, p) <=> <<g, k>> \in Where(rs, p) \/ (m.about = p /\ g = h /\ k = n + 1)
  <2>1. CASE g # h
    BY <2>1, WhereMember DEF h
  <2>2. CASE g = h
    <3>1. <<h, k>> \in Where(qs, p) <=> k \in 1..n + 1 /\ Append(Pkts(rs, h), m)[k].about = p
      BY <1>1, <1>2, WhereMember DEF h
    <3>2. <<h, k>> \in Where(rs, p) <=> k \in 1..n /\ Pkts(rs, h)[k].about = p
      BY <1>1, <1>2, WhereMember
    <3>3. k \in 1..n + 1 <=> k \in 1..n \/ k = n + 1
      BY <1>2
    <3>4. n + 1 \notin 1..n
      BY <1>2
    <3> QED BY <1>2, <2>2, <3>1, <3>2, <3>3, <3>4
  <2> QED BY <2>1, <2>2
<1>4. \A x \in Where(qs, p) : x = <<x[1], x[2]>>
  BY WhereMember
<1>5. \A x \in Where(rs, p) : x = <<x[1], x[2]>>
  BY WhereMember
<1>6. Where(qs, p) \subseteq Where(rs, p) \cup new
  <2> SUFFICES ASSUME NEW x \in Where(qs, p)
               PROVE  x \in Where(rs, p) \cup new
    OBVIOUS
  <2>1. x = <<x[1], x[2]>>
    BY <1>4
  <2> QED BY <1>3, <2>1
<1>7. Where(rs, p) \cup new \subseteq Where(qs, p)
  <2>1. ASSUME NEW x \in Where(rs, p)
        PROVE  x \in Where(qs, p)
    <3>1. x = <<x[1], x[2]>>
      BY <1>5
    <3> QED BY <1>3, <3>1
  <2>2. m.about = p => <<h, n + 1>> \in Where(qs, p)
    BY <1>3
  <2> QED BY <2>1, <2>2
<1> QED BY <1>6, <1>7 DEF n, h

(* Packets that leave with their request have no place in the list any     *)
(* more.                                                                   *)
LEMMA WhereCleared ==
  ASSUME NEW rs, NEW qs, NEW p, NEW h,
         Pkts(qs, h) = <<>>, \A g : g # h => Pkts(qs, g) = Pkts(rs, g)
  PROVE  \A x : x \in Where(qs, p) <=> x \in Where(rs, p) /\ x[1] # h
<1>1. ASSUME NEW g, NEW k
      PROVE  <<g, k>> \in Where(qs, p) <=> g # h /\ <<g, k>> \in Where(rs, p)
  <2>1. \A j : j \notin DOMAIN <<>>
    OBVIOUS
  <2> QED BY <2>1, WhereMember
<1>2. \A x \in Where(qs, p) : x = <<x[1], x[2]>>
  BY WhereMember
<1>3. \A x \in Where(rs, p) : x = <<x[1], x[2]>>
  BY WhereMember
<1>4. ASSUME NEW x
      PROVE  x \in Where(qs, p) <=> x \in Where(rs, p) /\ x[1] # h
  BY <1>1, <1>2, <1>3
<1> QED BY <1>4

(* When the first packet for an address leaves, the others move up by      *)
(* one.                                                                    *)
LEMMA WhereTail ==
  ASSUME NEW rs \in Lists, NEW qs, NEW p, NEW h, Pkts(rs, h) # <<>>,
         \A g : Pkts(qs, g) = IF g = h THEN Tail(Pkts(rs, g)) ELSE Pkts(rs, g)
  PROVE  \A g, k : <<g, k>> \in Where(qs, p) <=>
           IF g = h THEN k \in Nat \ {0} /\ <<h, k + 1>> \in Where(rs, p) ELSE <<g, k>> \in Where(rs, p)
<1> DEFINE s == Pkts(rs, h)
           n == Len(s)
<1>1. /\ DOMAIN s = 1..n /\ n \in Nat \ {0}
      /\ DOMAIN Tail(s) = 1..n - 1
      /\ \A k \in 1..n - 1 : Tail(s)[k] = s[k + 1]
  <2>1. s \in Seq(Queued) /\ s # <<>>
    BY PktsType
  <2> HIDE DEF s
  <2> QED BY <2>1, HeadTailProperties, LenProperties, EmptySeq
<1> HIDE DEF s, n
<1>2. ASSUME NEW k
      PROVE  <<h, k>> \in Where(qs, p) <=> k \in Nat \ {0} /\ <<h, k + 1>> \in Where(rs, p)
  <2>1. <<h, k>> \in Where(qs, p) <=> h \in Hops /\ k \in 1..n - 1 /\ Tail(s)[k].about = p
    BY <1>1, WhereMember DEF s
  <2>2. <<h, k + 1>> \in Where(rs, p) <=> h \in Hops /\ k + 1 \in 1..n /\ s[k + 1].about = p
    BY <1>1, WhereMember DEF s
  <2>3. k \in 1..n - 1 <=> k \in Nat \ {0} /\ k + 1 \in 1..n
    BY <1>1
  <2> QED BY <1>1, <2>1, <2>2, <2>3
<1>3. \A g, k : g # h => (<<g, k>> \in Where(qs, p) <=> <<g, k>> \in Where(rs, p))
  BY WhereMember
<1> QED BY <1>2, <1>3

(* Who is among the packets of a request.                                  *)
LEMMA InPkts ==
  ASSUME NEW rs \in Lists, NEW h \in Hops, NEW p
  PROVE  (\E m \in SetOf(Pkts(rs, h)) : m.about = p) <=> \E x \in Where(rs, p) : x[1] = h
<1>1. \A m : m \in SetOf(Pkts(rs, h)) <=> \E k \in DOMAIN Pkts(rs, h) : m = Pkts(rs, h)[k]
  BY DEF SetOf
<1>2. \A k : <<h, k>> \in Where(rs, p) <=> k \in DOMAIN Pkts(rs, h) /\ Pkts(rs, h)[k].about = p
  BY WhereMember
<1>3. \A x \in Where(rs, p) : x = <<x[1], x[2]>>
  BY WhereMember
<1>4. ASSUME NEW m \in SetOf(Pkts(rs, h)), m.about = p
      PROVE  \E x \in Where(rs, p) : x[1] = h
  <2>1. PICK k \in DOMAIN Pkts(rs, h) : m = Pkts(rs, h)[k]
    BY <1>1
  <2>2. <<h, k>> \in Where(rs, p)
    BY <1>2, <1>4, <2>1
  <2> QED BY <2>2
<1>5. ASSUME NEW x \in Where(rs, p), x[1] = h
      PROVE  \E m \in SetOf(Pkts(rs, h)) : m.about = p
  <2>1. <<h, x[2]>> \in Where(rs, p)
    BY <1>3, <1>5
  <2> QED BY <1>1, <1>2, <2>1
<1> QED BY <1>4, <1>5

(* One outcome is recorded, for the packets of some messages.              *)
LEMMA WithProperties ==
  ASSUME fate \in [Packet -> SUBSET Fates], NEW ms, NEW what \in Fates
  PROVE  /\ With(fate, ms, what) \in [Packet -> SUBSET Fates]
         /\ \A p \in Packet : With(fate, ms, what)[p] =
              IF \E m \in ms : m.about = p THEN fate[p] \cup {what} ELSE fate[p]
BY DEF With

-----------------------------------------------------------------------------
(* The walk of the sweep changes no list of packets, and stops at a        *)
(* request that is given up.                                               *)
LEMMA MoreType ==
  ASSUME NEW n \in Nat, NEW max \in Nat, n <= max
  PROVE  More(n, max) \in 0..max /\ n <= More(n, max) /\ (n < max => More(n, max) = n + 1)
BY DEF More

(* A request that is sent again stays a request.                           *)
LEMMA SentAgainType ==
  ASSUME NEW q \in Req, q.retries <= ARP_REQUEST_MAX_RETRIES
  PROVE  /\ SentAgain(q) \in Req /\ SentAgain(q).ip4 = q.ip4 /\ SentAgain(q).pkts = q.pkts
         /\ SentAgain(q).retries = q.retries + 1
<1>2. q.retries \in 0..ARP_REQUEST_MAX_RETRIES + 1
  BY DEF Req
<1>3. q.retries + 1 \in 0..ARP_REQUEST_MAX_RETRIES + 1 /\ 0 \in 0..2
  BY <1>2, BoundAssumption
<1>4. SentAgain(q) = [q EXCEPT !.age = 0, !.retries = q.retries + 1]
  BY DEF SentAgain
<1> DEFINE A == Hops
           B == 0..2
           C == 0..ARP_REQUEST_MAX_RETRIES + 1
           D == Seq(Queued)
           n == q.retries + 1
<1>5. q \in [ip4 : A, age : B, retries : C, pkts : D] /\ 0 \in B /\ n \in C
  BY <1>3 DEF Req
<1> HIDE DEF A, B, C, D, n
<1>6. /\ [q EXCEPT !.age = 0, !.retries = n] \in [ip4 : A, age : B, retries : C, pkts : D]
      /\ [q EXCEPT !.age = 0, !.retries = n].ip4 = q.ip4
      /\ [q EXCEPT !.age = 0, !.retries = n].pkts = q.pkts
      /\ [q EXCEPT !.age = 0, !.retries = n].retries = n
  BY <1>5
<1> QED BY <1>4, <1>6 DEF Req, A, B, C, D, n

(* The walk of the sweep changes no packets; each retry it makes is one    *)
(* more unanswered request, and where it stops the address is silent.      *)
LEMMA WalkProperties ==
  ASSUME NEW rs \in Lists, NEW i \in Nat \ {0}, Walk(rs, i),
         unanswered \in [Hops -> 0..ARP_REQUEST_MAX_RETRIES + 1],
         \A j \in DOMAIN rs : rs[j].retries <= unanswered[rs[j].ip4]
  PROVE  /\ req_list' \in Lists
         /\ \A g : Pkts(req_list', g) = Pkts(rs, g)
         /\ unanswered' \in [Hops -> 0..ARP_REQUEST_MAX_RETRIES + 1]
         /\ SweeperOK'
         /\ sweeper'.at \in {"asleep", "report"} /\ ~Dangling'
         /\ Pointed'
         /\ Counted'
<1> DEFINE stop == {j \in i..Len(rs) : GivenUp(rs[j]) /\ \A k \in i..j - 1 : ~GivenUp(rs[k])}
           end == IF stop = {} THEN Len(rs) + 1 ELSE CHOOSE j \in stop : TRUE
           due == {j \in i..end - 1 : Due(rs[j])}
           asked == {rs[j].ip4 : j \in due}
           max == ARP_REQUEST_MAX_RETRIES
<1>1. /\ req_list' = [j \in DOMAIN rs |-> IF j \in due THEN SentAgain(rs[j]) ELSE rs[j]]
      /\ unanswered' = Ask(asked)
      /\ sweeper' = IF stop = {} THEN Asleep ELSE Saved(rs, end)
  BY DEF Walk
<1>2. /\ DOMAIN rs = 1..Len(rs) /\ Len(rs) \in Nat
      /\ \A j \in DOMAIN rs :
           /\ rs[j] \in Req /\ rs[j].ip4 \in Hops /\ rs[j].pkts \in Seq(Queued) /\ rs[j].pkts # <<>>
           /\ rs[j].retries \in 0..max + 1
  BY ListsType, PktsOf
<1>3. max \in Nat
  BY BoundAssumption
<1>4. stop # {} => end \in stop
  OBVIOUS
<1>5. stop # {} => end \in DOMAIN rs /\ GivenUp(rs[end])
  <2>1. \A j \in stop : j \in i..Len(rs) /\ GivenUp(rs[j])
    OBVIOUS
  <2>2. \A j \in i..Len(rs) : j \in DOMAIN rs
    BY <1>2
  <2> HIDE DEF stop, end
  <2> QED BY <1>4, <2>1, <2>2
<1>6. \A j \in due : Due(rs[j])
  OBVIOUS
<1> HIDE DEF stop, end, due, asked, max
<1>7. ASSUME NEW j \in DOMAIN rs
      PROVE  /\ req_list'[j] \in Req /\ req_list'[j].ip4 = rs[j].ip4
             /\ req_list'[j].pkts = rs[j].pkts
             /\ req_list'[j].retries = IF j \in due THEN rs[j].retries + 1 ELSE rs[j].retries
             /\ j \in due => rs[j].retries <= max
  <2>1. CASE j \in due
    <3>1. rs[j].retries <= max
      BY <1>2, <1>3, <1>6, <2>1 DEF Due, GivenUp, max
    <3>2. req_list'[j] = SentAgain(rs[j])
      BY <1>1, <2>1
    <3>3. /\ SentAgain(rs[j]) \in Req /\ SentAgain(rs[j]).ip4 = rs[j].ip4
          /\ SentAgain(rs[j]).pkts = rs[j].pkts /\ SentAgain(rs[j]).retries = rs[j].retries + 1
      BY <1>2, <3>1, SentAgainType DEF max
    <3> QED BY <2>1, <3>1, <3>2, <3>3
  <2>2. CASE j \notin due
    BY <1>1, <1>2, <2>2
  <2> QED BY <2>1, <2>2
<1>8. req_list' \in [DOMAIN rs -> Req]
  BY <1>1, <1>7
<1>9. /\ req_list' \in Lists /\ DOMAIN req_list' = DOMAIN rs
      /\ \A j \in DOMAIN rs : Pkts(req_list', rs[j].ip4) = req_list'[j].pkts
      /\ \A g : InList(req_list', g) = InList(rs, g)
  BY <1>2, <1>7, <1>8, SameShape
<1>10. ASSUME NEW g
       PROVE  Pkts(req_list', g) = Pkts(rs, g)
  <2>1. CASE InList(rs, g) = {}
    BY <1>9, <2>1 DEF Pkts
  <2>2. CASE InList(rs, g) # {}
    <3>1. PICK j \in DOMAIN rs : rs[j].ip4 = g
      BY <2>2 DEF InList
    <3>2. Pkts(rs, g) = rs[j].pkts
      BY <3>1, PktsOf
    <3> QED BY <1>7, <1>9, <3>1, <3>2
  <2> QED BY <2>1, <2>2
<1>11. /\ unanswered' \in [Hops -> 0..max + 1]
       /\ \A h \in Hops : unanswered[h] <= unanswered'[h]
       /\ \A h \in Hops : h \in asked /\ unanswered[h] < max + 1 => unanswered'[h] = unanswered[h] + 1
  <2>1. \A h \in Hops : unanswered[h] \in 0..max + 1
    BY DEF max
  <2>2. unanswered' = [h \in Hops |-> IF h \in asked THEN More(unanswered[h], max + 1) ELSE unanswered[h]]
    BY <1>1 DEF Ask, max
  <2>3. ASSUME NEW h \in Hops
        PROVE  /\ More(unanswered[h], max + 1) \in 0..max + 1
               /\ unanswered[h] <= More(unanswered[h], max + 1)
               /\ unanswered[h] < max + 1 => More(unanswered[h], max + 1) = unanswered[h] + 1
    BY <1>3, <2>1, MoreType
  <2> QED BY <2>1, <2>2, <2>3
<1>12. ASSUME NEW j \in DOMAIN req_list'
       PROVE  req_list'[j].retries <= unanswered'[req_list'[j].ip4]
  <2>1. j \in DOMAIN rs
    BY <1>9
  <2> DEFINE h == rs[j].ip4
  <2>2. h \in Hops /\ req_list'[j].ip4 = h /\ rs[j].retries \in 0..max + 1 /\ rs[j].retries <= unanswered[h]
    BY <1>2, <1>7, <2>1
  <2>3. unanswered[h] \in 0..max + 1 /\ unanswered'[h] \in 0..max + 1
    BY <1>11, <2>2 DEF max
  <2>4. CASE j \in due
    <3>1. h \in asked
      BY <2>4 DEF asked
    <3>2. rs[j].retries <= max /\ req_list'[j].retries = rs[j].retries + 1
      BY <1>7, <2>1, <2>4
    <3> HIDE DEF h
    <3>3. CASE unanswered[h] < max + 1
      BY <1>3, <1>11, <2>2, <2>3, <3>1, <3>2, <3>3
    <3>4. CASE ~(unanswered[h] < max + 1)
      BY <1>3, <1>11, <2>2, <2>3, <3>2, <3>4
    <3> QED BY <3>3, <3>4
  <2>5. CASE j \notin due
    <3>1. req_list'[j].retries = rs[j].retries
      BY <1>7, <2>1, <2>5
    <3>2. unanswered[h] <= unanswered'[h]
      BY <1>11, <2>2
    <3> HIDE DEF h
    <3> QED BY <1>3, <2>2, <2>3, <3>1, <3>2
  <2> QED BY <2>4, <2>5
<1>13. CASE stop = {}
  <2>1. sweeper' = Asleep
    BY <1>1, <1>13
  <2>2. /\ SweeperOK' /\ ~Working' /\ sweeper'.at = "asleep" /\ ~Dangling'
    BY <2>1 DEF Asleep, SweeperOK, Working, Dangling
  <2>3. Pointed' /\ Counted'
    BY <1>12, <2>2 DEF Pointed, Counted
  <2> QED BY <1>9, <1>10, <1>11, <2>2, <2>3 DEF max
<1>14. CASE stop # {}
  <2>1. sweeper' = [at |-> "report", ip4 |-> rs[end].ip4, last |-> Len(rs[end].pkts) = 1,
           next |-> IF end < Len(rs) THEN rs[end + 1].ip4 ELSE None, msg |-> None, freed |-> {}]
    BY <1>1, <1>14 DEF Saved
  <2>2. end \in DOMAIN rs /\ rs[end].ip4 \in Hops /\ rs[end].ip4 # None
    BY <1>2, <1>5, <1>14 DEF Hops
  <2>3. (IF end < Len(rs) THEN rs[end + 1].ip4 ELSE None) \in Hops \cup {None}
    <3>1. end < Len(rs) => end + 1 \in DOMAIN rs
      BY <1>2, <2>2
    <3> QED BY <1>2, <3>1
  <2>4. SweeperOK' /\ Working' /\ sweeper'.at = "report" /\ ~Dangling'
    BY <2>1, <2>2, <2>3 DEF SweeperOK, Working, Dangling
  <2>5. /\ end \in DOMAIN req_list' /\ req_list'[end].ip4 = sweeper'.ip4
        /\ ~sweeper'.last => Len(req_list'[end].pkts) >= 2
    <3>1. Len(rs[end].pkts) \in Nat /\ Len(rs[end].pkts) # 0
      BY <1>2, <2>2, EmptySeq
    <3>2. (Len(rs[end].pkts) = 1 => sweeper'.last) /\ sweeper'.ip4 = rs[end].ip4
      BY <2>1
    <3>3. req_list'[end].pkts = rs[end].pkts /\ req_list'[end].ip4 = rs[end].ip4
      BY <1>7, <2>2
    <3>4. ~sweeper'.last => Len(req_list'[end].pkts) >= 2
      <4>1. CASE Len(rs[end].pkts) = 1
        BY <3>2, <4>1
      <4>2. CASE Len(rs[end].pkts) # 1
        <5>0. \A n \in Nat : n # 0 /\ n # 1 => n >= 2
          OBVIOUS
        <5>1. Len(rs[end].pkts) >= 2
          BY <3>1, <4>2, <5>0
        <5> QED BY <3>3, <5>1
      <4> QED BY <4>1, <4>2
    <3>5. end \in DOMAIN req_list' /\ req_list'[end].ip4 = sweeper'.ip4
      BY <1>9, <2>2, <3>2, <3>3
    <3> QED BY <3>4, <3>5
  <2>6. Pointed'
    BY <2>5 DEF Pointed
  <2>7. Silent(sweeper.ip4)'
    <3>1. rs[end].retries > max /\ rs[end].retries <= unanswered[rs[end].ip4]
      BY <1>5, <1>14, <2>2 DEF GivenUp, max
    <3>2. rs[end].retries \in 0..max + 1 /\ unanswered[rs[end].ip4] \in 0..max + 1
      BY <1>2, <2>2 DEF max
    <3>3. unanswered'[rs[end].ip4] \in 0..max + 1 /\ unanswered[rs[end].ip4] <= unanswered'[rs[end].ip4]
      BY <1>11, <2>2
    <3>4. unanswered'[rs[end].ip4] > max
      BY <1>3, <3>1, <3>2, <3>3
    <3> QED BY <2>1, <3>4 DEF Silent, max
  <2>8. Counted'
    BY <1>12, <2>7 DEF Counted
  <2> QED BY <1>9, <1>10, <1>11, <2>4, <2>6, <2>8 DEF max
<1> QED BY <1>13, <1>14

-----------------------------------------------------------------------------
(* The actions.                                                            *)
IInv == Types /\ Pointed /\ Counted /\ Placed

(* At the start nothing waits.                                             *)
LEMMA EmptyList ==
  /\ <<>> \in Lists
  /\ \A p : Where(<<>>, p) = {}
<1>1. <<>> \in Seq(Req) /\ \A i : i \notin DOMAIN <<>>
  OBVIOUS
<1>2. <<>> \in Lists
  BY <1>1 DEF Lists, Unique, Filled
<1>3. \A g : Pkts(<<>>, g) = <<>>
  BY <1>1 DEF Pkts, InList
<1>4. ASSUME NEW p, NEW x \in Where(<<>>, p)
      PROVE  FALSE
  <2>1. x = <<x[1], x[2]>>
    BY WhereMember
  <2>2. x[2] \in DOMAIN Pkts(<<>>, x[1])
    BY <2>1, WhereMember
  <2> QED BY <1>1, <1>3, <2>2
<1> QED BY <1>2, <1>4

(* The program starts in the invariant.                                    *)
LEMMA InitIInv == Init => IInv
<1> SUFFICES ASSUME Init PROVE IInv
  OBVIOUS
<1>1. sweeper = Asleep
  BY DEF Init
<1>2. SweeperOK /\ ~Working /\ ~Dangling
  BY <1>1 DEF SweeperOK, Asleep, Working, Dangling
<1>3. Types
  BY <1>2, EmptyList, BoundAssumption DEF Init, Types
<1>4. Pointed
  BY <1>2 DEF Pointed
<1>5. Counted
  <2>1. \A i : i \notin DOMAIN <<>>
    OBVIOUS
  <2>2. req_list = <<>>
    BY DEF Init
  <2> QED BY <1>2, <2>1, <2>2 DEF Counted
<1>6. \A p \in Packet : Place(p)
  BY EmptyList DEF Init, Place, InHand
<1> QED BY <1>3, <1>4, <1>5, <1>6 DEF IInv, Placed

(* A packet that nothing has happened to is where it was.                  *)
LEMMA StaysInPlace ==
  ASSUME NEW p, Place(p), InHand(p)' <=> InHand(p), Where(req_list, p)' = Where(req_list, p),
         fate'[p] = fate[p], AtHead(p)' <=> AtHead(p)
  PROVE  Place(p)'
BY DEF Place

(* Nothing of the sweep is touched, nor the lists.                         *)
LEMMA SweepUntouched ==
  ASSUME UNCHANGED <<sweeper, req_list, unanswered>>, IInv
  PROVE  SweeperOK' /\ Pointed' /\ Counted' /\ (Dangling' <=> Dangling)
         /\ \A p : /\ Where(req_list, p)' = Where(req_list, p)
                   /\ AtHead(p)' <=> AtHead(p)
BY DEF IInv, Types, SweeperOK, Pointed, Counted, Dangling, Working, Silent, AtHead

(* A packet arrives: it is answered, reported, lost, or taken in hand.     *)
LEMMA HandleIpIInv ==
  ASSUME IInv, NEW p \in Packet, HandleIp(p)
  PROVE  IInv'
<1> DEFINE m == IF Goes(p) THEN Forwarded(p) ELSE IcmpTo(Src[p])
           what == IF Answers(p) THEN "answered" ELSE "reported"
<1>0. Types /\ main = None /\ misused = FALSE /\ p \notin handled
  BY DEF IInv, HandleIp, Receiving, Types
<1>1. /\ handled' = handled \cup {p}
      /\ UNCHANGED <<entries, req_list, sweeper, unanswered, misused>>
      /\ main' = None \/ (main' = m /\ Route[m.dst] # None /\ ~Known(Route[m.dst]))
  BY DEF HandleIp
<1>2. fate' = IF Goes(p) THEN IF Known(Route[m.dst]) THEN With(fate, {m}, "sent") ELSE fate
              ELSE With(fate, {Forwarded(p)}, what)
  BY DEF HandleIp
<1>3. main' = IF Route[m.dst] = None \/ Known(Route[m.dst]) THEN None ELSE m
  BY DEF HandleIp
<1>4. Forwarded(p).about = p /\ Forwarded(p).dst = Dst[p] /\ Src[p] \in Addresses /\ Dst[p] \in Addresses
  BY RouteType DEF Forwarded
<1>5. Goes(p) => /\ m = Forwarded(p) /\ m.about = p /\ Route[m.dst] # None /\ m \in Queued
  BY <1>4, ForwardedQueued DEF Goes
<1>6. ~Goes(p) => /\ m.about = None /\ (Route[m.dst] # None => m \in Queued)
  <2>1. IcmpTo(Src[p]).about = None /\ IcmpTo(Src[p]).dst = Src[p]
    BY DEF IcmpTo
  <2> QED BY <1>4, <2>1, IcmpQueued
<1>7. what \in Fates
  BY DEF Fates
<1> HIDE DEF m, what
<1>8. main' \in Queued \cup {None} /\ (main' # None => main' = m)
  BY <1>3, <1>5, <1>6
<1>9. main' # None => main'.about \in handled' \cup {None}
  BY <1>1, <1>5, <1>6, <1>8
<1>10. /\ fate \in [Packet -> SUBSET Fates] /\ fate' \in [Packet -> SUBSET Fates]
       /\ \A q \in Packet : q # p => fate'[q] = fate[q]
       /\ fate'[p] = IF Goes(p) THEN IF Known(Route[m.dst]) THEN fate[p] \cup {"sent"} ELSE fate[p]
                     ELSE fate[p] \cup {what}
  <2>1. fate \in [Packet -> SUBSET Fates]
    BY <1>0 DEF Types
  <2>2. CASE Goes(p) /\ Known(Route[m.dst])
    <3>1. fate' = With(fate, {m}, "sent") /\ "sent" \in Fates
      BY <1>2, <2>2 DEF Fates
    <3>2. /\ With(fate, {m}, "sent") \in [Packet -> SUBSET Fates]
          /\ \A q \in Packet : With(fate, {m}, "sent")[q] =
               IF \E e \in {m} : e.about = q THEN fate[q] \cup {"sent"} ELSE fate[q]
      <4> DEFINE ms == {m}
                 sent == "sent"
      <4>1. sent \in Fates
        BY DEF Fates
      <4> HIDE DEF ms, sent
      <4>2. /\ With(fate, ms, sent) \in [Packet -> SUBSET Fates]
            /\ \A q \in Packet : With(fate, ms, sent)[q] =
                 IF \E e \in ms : e.about = q THEN fate[q] \cup {sent} ELSE fate[q]
        BY <2>1, <4>1 DEF With
      <4> QED BY <4>2 DEF ms, sent
    <3>3. m.about = p
      BY <1>5, <2>2
    <3>4. \A q \in Packet : fate'[q] = IF q = p THEN fate[q] \cup {"sent"} ELSE fate[q]
      BY <3>1, <3>2, <3>3
    <3>5. fate' \in [Packet -> SUBSET Fates]
      BY <3>1, <3>2
    <3> QED BY <2>1, <2>2, <3>4, <3>5
  <2>3. CASE Goes(p) /\ ~Known(Route[m.dst])
    BY <1>2, <2>1, <2>3
  <2>4. CASE ~Goes(p)
    <3>1. fate' = With(fate, {Forwarded(p)}, what)
      BY <1>2, <2>4
    <3>2. /\ With(fate, {Forwarded(p)}, what) \in [Packet -> SUBSET Fates]
          /\ \A q \in Packet : With(fate, {Forwarded(p)}, what)[q] =
               IF \E e \in {Forwarded(p)} : e.about = q THEN fate[q] \cup {what} ELSE fate[q]
      BY <1>7, <2>1, WithProperties
    <3> QED BY <1>4, <2>1, <2>4, <3>1, <3>2
  <2> QED BY <2>2, <2>3, <2>4
<1>11. /\ SweeperOK' /\ Pointed' /\ Counted' /\ (Dangling' <=> Dangling)
       /\ \A q : /\ Where(req_list, q)' = Where(req_list, q)
                 /\ AtHead(q)' <=> AtHead(q)
  BY <1>1, SweepUntouched
<1>12. Types'
  BY <1>0, <1>1, <1>8, <1>9, <1>10, <1>11 DEF Types
<1>13. ASSUME NEW q \in Packet, ~Dangling
       PROVE  Place(q)'
  <2>1. Place(q)
    BY <1>0, <1>13 DEF IInv, Placed
  <2>2. q # None
    BY AddressAssumption
  <2>3. CASE q # p
    <3>1. InHand(q)' <=> InHand(q)
      BY <1>0, <1>1, <1>5, <1>6, <1>8, <2>2, <2>3 DEF InHand
    <3> QED BY <1>10, <1>11, <2>1, <2>3, <3>1, StaysInPlace
  <2>4. CASE q = p
    <3>1. InHand(p) /\ Where(req_list, p) = {} /\ fate[p] = {}
      BY <1>0, <2>1, <2>4 DEF Place, InHand
    <3>2. Where(req_list, p)' = {}
      BY <1>11, <3>1
    <3>3. CASE Goes(p) /\ ~Known(Route[m.dst])
      <4>1. main' = m /\ m # None /\ m.about = p
        BY <1>3, <1>5, <3>3, QueuedType
      <4> QED BY <1>10, <2>4, <3>1, <3>2, <3>3, <4>1 DEF Place, InHand
    <3>4. CASE ~(Goes(p) /\ ~Known(Route[m.dst]))
      <4>1. ~InHand(p)'
        <5>1. main' = None \/ main'.about = None
          BY <1>3, <1>6, <3>4
        <5> QED BY <1>1, <2>2, <2>4, <5>1 DEF InHand
      <4>2. \E w \in Fates : fate'[p] = {w}
        BY <1>7, <1>10, <3>1, <3>4 DEF Fates
      <4> QED BY <2>4, <3>2, <4>1, <4>2 DEF Place
    <3> QED BY <3>3, <3>4
  <2> QED BY <2>3, <2>4
<1>14. Placed'
  BY <1>0, <1>1, <1>11, <1>13 DEF Placed
<1> QED BY <1>11, <1>12, <1>14 DEF IInv

(* After a packet has joined a list the request pointed to is still there. *)
LEMMA QueueKeeps ==
  ASSUME IInv, NEW m \in Queued, Queue(m), UNCHANGED unanswered,
         sweeper'.ip4 = sweeper.ip4, sweeper'.last = sweeper.last, sweeper'.freed = sweeper.freed,
         Working' <=> Working
  PROVE  /\ req_list' \in Lists /\ Pointed' /\ Counted'
         /\ Dangling' <=> Dangling
         /\ \A p \in Packet :
              Where(req_list, p)' = Where(req_list, p) \cup
                IF m.about = p THEN {<<Route[m.dst], Len(Pkts(req_list, Route[m.dst])) + 1>>} ELSE {}
<1>0. req_list \in Lists /\ Types
  BY DEF IInv, Types
<1>1. /\ req_list' \in Lists
      /\ \A g : Pkts(req_list', g) = IF g = Route[m.dst] THEN Append(Pkts(req_list, g), m)
                                     ELSE Pkts(req_list, g)
      /\ \A i \in DOMAIN req_list :
           /\ i \in DOMAIN req_list' /\ req_list'[i].ip4 = req_list[i].ip4
           /\ req_list'[i].retries = req_list[i].retries
           /\ Len(req_list'[i].pkts) >= Len(req_list[i].pkts)
      /\ \A i \in DOMAIN req_list' : i \notin DOMAIN req_list => req_list'[i].retries = 0
  BY <1>0, QueueProperties
<1>2. Dangling' <=> Dangling
  BY DEF Dangling
<1>3. Pointed'
  <2> SUFFICES ASSUME Working', ~Dangling'
               PROVE  \E i \in DOMAIN req_list' :
                        req_list'[i].ip4 = sweeper'.ip4 /\ (~sweeper'.last => Len(req_list'[i].pkts) >= 2)
    BY DEF Pointed
  <2>1. PICK i \in DOMAIN req_list : req_list[i].ip4 = sweeper.ip4 /\ (~sweeper.last => Len(req_list[i].pkts) >= 2)
    BY <1>2 DEF IInv, Pointed
  <2>2. /\ i \in DOMAIN req_list' /\ req_list'[i].ip4 = req_list[i].ip4
        /\ Len(req_list'[i].pkts) >= Len(req_list[i].pkts)
    BY <1>1
  <2>3. Len(req_list[i].pkts) \in Nat /\ Len(req_list'[i].pkts) \in Nat
    BY <1>0, <1>1, <2>2, PktsOf
  <2>4. ~sweeper.last => Len(req_list'[i].pkts) >= 2
    BY <2>1, <2>2, <2>3
  <2> QED BY <2>1, <2>2, <2>4
<1>4. Counted'
  <2>1. \A i \in DOMAIN req_list : req_list[i].retries <= unanswered[req_list[i].ip4]
    BY DEF IInv, Counted
  <2>2. ASSUME NEW i \in DOMAIN req_list'
        PROVE  req_list'[i].retries <= unanswered'[req_list'[i].ip4]
    <3>1. CASE i \in DOMAIN req_list
      BY <1>1, <2>1, <3>1
    <3>2. CASE i \notin DOMAIN req_list
      <4>1. req_list'[i].retries = 0 /\ req_list'[i].ip4 \in Hops
        BY <1>1, <3>2, PktsOf
      <4>2. unanswered'[req_list'[i].ip4] \in 0..ARP_REQUEST_MAX_RETRIES + 1
        BY <1>0, <4>1 DEF Types
      <4> QED BY <4>1, <4>2, BoundAssumption
    <3> QED BY <3>1, <3>2
  <2>3. Working' /\ ~Dangling' => Silent(sweeper.ip4)'
    BY <1>2 DEF IInv, Counted, Silent
  <2> QED BY <2>2, <2>3 DEF Counted
<1>5. \A p \in Packet :
        Where(req_list', p) = Where(req_list, p) \cup
          IF m.about = p THEN {<<Route[m.dst], Len(Pkts(req_list, Route[m.dst])) + 1>>} ELSE {}
  BY <1>0, <1>1, WhereAppended
<1> QED BY <1>1, <1>2, <1>3, <1>4, <1>5

(* What was in hand is sent, or joins the packets for its next hop.        *)
LEMMA AppendPacketIInv ==
  ASSUME IInv, AppendPacket
  PROVE  IInv'
<1> DEFINE m == main
           new == <<Route[m.dst], Len(Pkts(req_list, Route[m.dst])) + 1>>
<1>1. /\ Types /\ m # None /\ misused = FALSE /\ Queue(m) /\ main' = None
      /\ UNCHANGED <<entries, sweeper, handled, fate, unanswered, misused>>
  BY DEF IInv, AppendPacket
<1>2. m \in Queued /\ m.about \in handled \cup {None}
  BY <1>1 DEF Types
<1> HIDE DEF new
<1>3. /\ req_list' \in Lists /\ Pointed' /\ Counted'
      /\ Dangling' <=> Dangling
      /\ \A p \in Packet : Where(req_list, p)' = Where(req_list, p) \cup IF m.about = p THEN {new} ELSE {}
  BY <1>1, <1>2, QueueKeeps DEF Working, new
<1>4. Types'
  BY <1>1, <1>3 DEF Types, SweeperOK, Working
<1>5. ASSUME NEW p \in Packet, ~Dangling
      PROVE  Place(p)'
  <2>1. Place(p)
    BY <1>1, <1>5 DEF IInv, Placed
  <2>2. CASE m.about = p
    <3>1. InHand(p) /\ Where(req_list, p) = {} /\ fate[p] = {}
      BY <1>1, <2>1, <2>2 DEF Place, InHand
    <3>2. ~InHand(p)'
      BY <1>1, <1>2, <2>2, AddressAssumption DEF InHand
    <3>3. Where(req_list, p)' = {new}
      BY <1>3, <2>2, <3>1
    <3>4. ~AtHead(p)'
      <4>1. CASE ~(sweeper.at \in {"append", "drop"})
        BY <1>1, <4>1 DEF AtHead
      <4>2. CASE sweeper.at \in {"append", "drop"}
        <5>1. PICK i \in DOMAIN req_list : req_list[i].ip4 = sweeper.ip4
          BY <1>5, <4>2 DEF IInv, Pointed, Working
        <5>2. Pkts(req_list, sweeper.ip4) \in Seq(Queued) /\ Pkts(req_list, sweeper.ip4) # <<>>
          BY <1>1, <5>1, PktsOf DEF Types
        <5>3. Len(Pkts(req_list, sweeper.ip4)) \in Nat \ {0}
          BY <5>2, EmptySeq
        <5>4. new # <<sweeper.ip4, 1>>
          BY <5>3 DEF new
        <5> QED BY <1>1, <3>3, <5>4 DEF AtHead
      <4> QED BY <4>1, <4>2
    <3> QED BY <1>1, <3>1, <3>2, <3>3, <3>4 DEF Place
  <2>3. CASE m.about # p
    <3>1. Where(req_list, p)' = Where(req_list, p)
      BY <1>3, <2>3
    <3>2. InHand(p)' <=> InHand(p)
      BY <1>1, <2>3 DEF InHand
    <3>3. AtHead(p)' <=> AtHead(p)
      BY <1>1, <3>1 DEF AtHead
    <3> QED BY <1>1, <2>1, <3>1, <3>2, <3>3, StaysInPlace
  <2> QED BY <2>2, <2>3
<1>6. Placed'
  BY <1>1, <1>3, <1>5 DEF Placed
<1> QED BY <1>3, <1>4, <1>6 DEF IInv

(* The request for an address that has spoken is freed, and what waited    *)
(* for it sent.  If the sweep was at it, it goes on with freed memory.     *)
LEMMA FlushProperties ==
  ASSUME req_list \in Lists, NEW h
  PROVE  /\ Flush(h) \in Lists
         /\ \A g : Pkts(Flush(h), g) = IF g = h THEN <<>> ELSE Pkts(req_list, g)
         /\ \A j \in DOMAIN Flush(h) : \E k \in DOMAIN req_list :
              Flush(h)[j] = req_list[k] /\ req_list[k].ip4 # h
         /\ \A k \in DOMAIN req_list : req_list[k].ip4 # h =>
              \E j \in DOMAIN Flush(h) : Flush(h)[j] = req_list[k]
<1>1. Request(h) = InList(req_list, h)
  BY DEF Request, InList
<1>2. CASE Request(h) = {}
  <2>1. Flush(h) = req_list
    BY <1>2 DEF Flush
  <2>2. \A k \in DOMAIN req_list : req_list[k].ip4 # h
    BY <1>2 DEF Request
  <2>3. Pkts(req_list, h) = <<>>
    BY <1>1, <1>2 DEF Pkts
  <2> QED BY <2>1, <2>2, <2>3
<1>3. CASE Request(h) # {}
  <2>1. PICK i \in DOMAIN req_list : req_list[i].ip4 = h
    BY <1>3 DEF Request
  <2>2. Request(h) = {i}
    BY <1>1, <2>1, PktsOf
  <2>3. (CHOOSE k \in {i} : TRUE) = i
    OBVIOUS
  <2>4. Flush(h) = Without(i)
    BY <1>3, <2>2, <2>3 DEF Flush
  <2>5. \A k \in DOMAIN req_list : req_list[k].ip4 # h => k # i
    BY <2>1
  <2> QED BY <2>1, <2>4, <2>5, WithoutProperties
<1> QED BY <1>2, <1>3

(* An address speaks: the packets that wait for it are sent.               *)
LEMMA HandleArpIInv ==
  ASSUME IInv, NEW h \in Host, HandleArp(h)
  PROVE  IInv'
<1> DEFINE ms == UNION {SetOf(req_list[i].pkts) : i \in Request(h)}
<1>1. /\ Types /\ main = None /\ misused = FALSE /\ Insert(h) /\ req_list' = Flush(h)
      /\ fate' = With(fate, ms, "sent")
      /\ sweeper' = [sweeper EXCEPT !.freed =
           IF Request(h) # {} THEN @ \cup ({h} \cap {sweeper.ip4, sweeper.next}) ELSE @]
      /\ unanswered' = [unanswered EXCEPT ![h] = 0]
      /\ UNCHANGED <<main, handled, misused>>
  BY DEF IInv, HandleArp, Receiving
<1>2. /\ req_list \in Lists /\ SweeperOK
      /\ fate \in [Packet -> SUBSET Fates]
      /\ unanswered \in [Hops -> 0..ARP_REQUEST_MAX_RETRIES + 1]
  BY <1>1 DEF Types
<1>3. /\ req_list' \in Lists
      /\ \A g : Pkts(req_list', g) = IF g = h THEN <<>> ELSE Pkts(req_list, g)
      /\ \A j \in DOMAIN req_list' : \E k \in DOMAIN req_list :
           req_list'[j] = req_list[k] /\ req_list[k].ip4 # h
      /\ \A k \in DOMAIN req_list : req_list[k].ip4 # h =>
           \E j \in DOMAIN req_list' : req_list'[j] = req_list[k]
  BY <1>1, <1>2, FlushProperties
<1>4. h # None /\ h \notin Own
  BY AddressAssumption
<1> DEFINE more == IF Request(h) # {} THEN sweeper.freed \cup ({h} \cap {sweeper.ip4, sweeper.next}) ELSE sweeper.freed
<1>5. sweeper' = [sweeper EXCEPT !.freed = more]
  BY <1>1
<1>6. more \in SUBSET Host /\ sweeper.freed \subseteq more /\ more \subseteq sweeper.freed \cup {h}
  BY <1>2 DEF SweeperOK
<1>7. ~Working => more = {}
  BY <1>2, <1>4 DEF SweeperOK
<1>8. Request(h) # {} /\ sweeper.ip4 = h => h \in more
  OBVIOUS
<1> HIDE DEF ms, more
<1>9. /\ sweeper'.at = sweeper.at /\ sweeper'.ip4 = sweeper.ip4 /\ sweeper'.last = sweeper.last
      /\ sweeper'.next = sweeper.next /\ sweeper'.msg = sweeper.msg /\ sweeper'.freed = more
  BY <1>2, <1>5 DEF SweeperOK
<1>10. SweeperOK'
  <2>1. sweeper' \in [at : {"asleep", "awake", "report", "append", "drop"}, ip4 : Hops \cup {None},
                  last : BOOLEAN, next : Hops \cup {None}, msg : Queued \cup {None}, freed : SUBSET Host]
    BY <1>2, <1>5, <1>6 DEF SweeperOK
  <2>2. IF Working' THEN sweeper'.ip4 # None
        ELSE sweeper'.ip4 = None /\ sweeper'.next = None /\ sweeper'.freed = {}
    BY <1>2, <1>7, <1>9 DEF SweeperOK, Working
  <2>3. sweeper'.at = "append" => sweeper'.msg \in Queued /\ sweeper'.msg.about = None
    BY <1>2, <1>9 DEF SweeperOK
  <2> QED BY <2>1, <2>2, <2>3 DEF SweeperOK
<1>11. Dangling => Dangling'
  BY <1>6, <1>9 DEF Dangling
<1>12. Working' <=> Working
  BY <1>9 DEF Working
<1>13. ASSUME Working, ~Dangling'
       PROVE  sweeper.ip4 # h
  <2>1. \E i \in DOMAIN req_list : req_list[i].ip4 = sweeper.ip4
    BY <1>11, <1>13 DEF IInv, Pointed
  <2>2. CASE sweeper.ip4 = h
    <3>1. Request(h) # {}
      BY <2>1, <2>2 DEF Request
    <3> QED BY <1>8, <1>9, <1>13, <2>2, <3>1 DEF Dangling
  <2> QED BY <2>2
<1>14. Pointed'
  <2> SUFFICES ASSUME Working', ~Dangling'
               PROVE  \E i \in DOMAIN req_list' :
                        req_list'[i].ip4 = sweeper'.ip4 /\ (~sweeper'.last => Len(req_list'[i].pkts) >= 2)
    BY DEF Pointed
  <2>1. PICK k \in DOMAIN req_list : req_list[k].ip4 = sweeper.ip4 /\ (~sweeper.last => Len(req_list[k].pkts) >= 2)
    BY <1>11, <1>12 DEF IInv, Pointed
  <2>2. sweeper.ip4 # h
    BY <1>12, <1>13
  <2>3. PICK j \in DOMAIN req_list' : req_list'[j] = req_list[k]
    BY <1>3, <2>1, <2>2
  <2> QED BY <1>9, <2>1, <2>3
<1>15. unanswered' \in [Hops -> 0..ARP_REQUEST_MAX_RETRIES + 1] /\ \A g \in Hops : g # h => unanswered'[g] = unanswered[g]
  <2>1. 0 \in 0..ARP_REQUEST_MAX_RETRIES + 1
    BY BoundAssumption
  <2>2. unanswered' = [unanswered EXCEPT ![h] = 0]
    BY <1>1
  <2> QED BY <1>2, <2>1, <2>2
<1>16. Counted'
  <2>1. ASSUME NEW j \in DOMAIN req_list'
        PROVE  req_list'[j].retries <= unanswered'[req_list'[j].ip4]
    <3>1. PICK k \in DOMAIN req_list : req_list'[j] = req_list[k] /\ req_list[k].ip4 # h
      BY <1>3
    <3>2. req_list[k].ip4 \in Hops
      BY <1>2, PktsOf
    <3> QED BY <1>15, <3>1, <3>2 DEF IInv, Counted
  <2>2. ASSUME Working', ~Dangling'
        PROVE  Silent(sweeper.ip4)'
    <3>1. Silent(sweeper.ip4)
      BY <1>11, <1>12, <2>2 DEF IInv, Counted
    <3>2. sweeper.ip4 # h
      BY <1>12, <1>13, <2>2
    <3>3. sweeper.ip4 \in Hops
      BY <1>2, <1>12, <2>2 DEF SweeperOK
    <3> QED BY <1>9, <1>15, <3>1, <3>2, <3>3 DEF Silent
  <2> QED BY <2>1, <2>2 DEF Counted
<1>17. entries' \in [Slot -> ArpCacheEntry \cup {None}]
  <2>1. entries \in [Slot -> ArpCacheEntry \cup {None}]
    BY <1>1 DEF Types
  <2>2. [ip4 |-> h, age |-> 0] \in ArpCacheEntry
    BY <1>4, BoundAssumption DEF ArpCacheEntry
  <2> QED BY <1>1, <2>1, <2>2 DEF Insert
<1>18. /\ fate' \in [Packet -> SUBSET Fates]
       /\ \A p \in Packet : fate'[p] = IF \E m \in ms : m.about = p THEN fate[p] \cup {"sent"} ELSE fate[p]
  <2>1. "sent" \in Fates
    BY DEF Fates
  <2> QED BY <1>1, <1>2, <2>1 DEF With
<1>19. Types'
  BY <1>1, <1>3, <1>10, <1>15, <1>17, <1>18 DEF Types
<1>20. ASSUME NEW p \in Packet
       PROVE  /\ Where(req_list, p)' = {x \in Where(req_list, p) : x[1] # h}
              /\ (\E m \in ms : m.about = p) <=> \E x \in Where(req_list, p) : x[1] = h
  <2>0. \A g : Pkts(req_list', g) = IF g = h THEN <<>> ELSE Pkts(req_list, g)
    BY <1>3
  <2>3. \A x : x \in Where(req_list', p) <=> x \in Where(req_list, p) /\ x[1] # h
    <3>1. Pkts(req_list', h) = <<>> /\ \A g : g # h => Pkts(req_list', g) = Pkts(req_list, g)
      BY <2>0
    <3> QED BY <3>1, WhereCleared
  <2>1. Where(req_list', p) = {x \in Where(req_list, p) : x[1] # h}
    BY <2>3
  <2>2. CASE Request(h) = {}
    <3>1. ms = {}
      BY <2>2 DEF ms
    <3>2. Pkts(req_list, h) = <<>>
      BY <1>2, <2>2, PktsType DEF Request, InList
    <3>3. \A x \in Where(req_list, p) : x[2] \in DOMAIN Pkts(req_list, x[1])
      BY WhereMember
    <3> QED BY <2>1, <3>1, <3>2, <3>3
  <2>4. CASE Request(h) # {}
    <3>1. PICK i \in DOMAIN req_list : req_list[i].ip4 = h
      BY <2>4 DEF Request
    <3>2. Request(h) = {i} /\ Pkts(req_list, h) = req_list[i].pkts /\ h \in Hops
      BY <1>2, <3>1, PktsOf DEF Request, InList
    <3>3. ms = SetOf(Pkts(req_list, h))
      BY <3>2 DEF ms
    <3> QED BY <1>2, <2>1, <3>2, <3>3, InPkts
  <2> QED BY <2>2, <2>4
<1>21. ASSUME NEW p \in Packet, ~Dangling'
       PROVE  Place(p)'
  <2>1. Place(p)
    BY <1>1, <1>11, <1>21 DEF IInv, Placed
  <2>2. InHand(p)' <=> InHand(p)
    BY <1>1 DEF InHand
  <2>3. CASE \E x \in Where(req_list, p) : x[1] = h
    <3>1. PICK x \in Where(req_list, p) : x[1] = h
      BY <2>3
    <3>2. ~InHand(p) /\ Where(req_list, p) = {x}
      BY <2>1, <3>1 DEF Place
    <3>3. ~AtHead(p)
      <4>1. CASE sweeper.at \in {"append", "drop"}
        <5>1. sweeper.ip4 # h
          BY <1>13, <1>21, <4>1 DEF Working
        <5> QED BY <3>1, <3>2, <5>1 DEF AtHead
      <4>2. CASE ~(sweeper.at \in {"append", "drop"})
        BY <4>2 DEF AtHead
      <4> QED BY <4>1, <4>2
    <3>4. fate[p] = {}
      BY <2>1, <3>2, <3>3 DEF Place
    <3>5. fate'[p] = {"sent"} /\ "sent" \in Fates
      BY <1>18, <1>20, <2>3, <3>4 DEF Fates
    <3>6. Where(req_list, p)' = {}
      BY <1>20, <3>1, <3>2
    <3> QED BY <2>2, <3>2, <3>5, <3>6 DEF Place
  <2>4. CASE ~\E x \in Where(req_list, p) : x[1] = h
    <3>1. Where(req_list, p)' = Where(req_list, p)
      BY <1>20, <2>4
    <3>2. fate'[p] = fate[p]
      BY <1>18, <1>20, <2>4
    <3>3. AtHead(p)' <=> AtHead(p)
      BY <1>9, <3>1 DEF AtHead
    <3> QED BY <2>1, <2>2, <3>1, <3>2, <3>3, StaysInPlace
  <2> QED BY <2>3, <2>4
<1>22. Placed'
  BY <1>21 DEF Placed
<1> QED BY <1>14, <1>16, <1>19, <1>22 DEF IInv

(* The walk leaves every packet where it is.                               *)
LEMMA SweepIInv ==
  ASSUME IInv, Sweep
  PROVE  IInv'
<1>1. /\ Types /\ sweeper.at = "awake" /\ misused = FALSE /\ Walk(req_list, 1)
      /\ entries' = [i \in Slot |->
           IF entries[i] # None /\ entries[i].age > ARP_ENTRY_TIMEOUT THEN None ELSE entries[i]]
      /\ UNCHANGED <<main, handled, fate, misused>>
  BY DEF IInv, Sweep
<1>2. /\ req_list \in Lists
      /\ unanswered \in [Hops -> 0..ARP_REQUEST_MAX_RETRIES + 1]
      /\ \A i \in DOMAIN req_list : req_list[i].retries <= unanswered[req_list[i].ip4]
  BY <1>1 DEF IInv, Types, Counted
<1>3. /\ req_list' \in Lists
      /\ \A g : Pkts(req_list', g) = Pkts(req_list, g)
      /\ unanswered' \in [Hops -> 0..ARP_REQUEST_MAX_RETRIES + 1]
      /\ SweeperOK'
      /\ sweeper'.at \in {"asleep", "report"} /\ ~Dangling'
      /\ Pointed'
      /\ Counted'
  BY <1>1, <1>2, WalkProperties
<1>4. entries' \in [Slot -> ArpCacheEntry \cup {None}]
  BY <1>1 DEF Types
<1>5. Types'
  BY <1>1, <1>3, <1>4 DEF Types
<1>6. ~Dangling
  BY <1>1 DEF Types, SweeperOK, Working, Dangling
<1>7. ASSUME NEW p \in Packet
      PROVE  Place(p)'
  <2>1. Place(p)
    BY <1>1, <1>6 DEF IInv, Placed
  <2>2. InHand(p)' <=> InHand(p)
    BY <1>1 DEF InHand
  <2>3. Where(req_list', p) = Where(req_list, p)
    BY <1>3, WhereSame
  <2>4. ~AtHead(p)' /\ ~AtHead(p)
    BY <1>1, <1>3 DEF AtHead
  <2> QED BY <1>1, <2>1, <2>2, <2>3, <2>4, StaysInPlace
<1>8. Placed'
  BY <1>7 DEF Placed
<1> QED BY <1>3, <1>5, <1>8 DEF IInv

(* A second passes: no packet moves.                                       *)
LEMMA TickIInv ==
  ASSUME IInv, Tick
  PROVE  IInv'
<1>1. /\ Types /\ sweeper.at \in {"asleep", "awake"} /\ misused = FALSE
      /\ entries' = [i \in Slot |->
           IF entries[i] = None THEN None ELSE [entries[i] EXCEPT !.age = More(@, ARP_ENTRY_TIMEOUT + 1)]]
      /\ req_list' = [i \in DOMAIN req_list |-> [req_list[i] EXCEPT !.age = More(@, 2)]]
      /\ sweeper' = [sweeper EXCEPT !.at = "awake"]
      /\ UNCHANGED <<main, handled, fate, unanswered, misused>>
  BY DEF IInv, Tick
<1>2. /\ req_list \in Lists /\ SweeperOK
      /\ entries \in [Slot -> ArpCacheEntry \cup {None}]
  BY <1>1 DEF Types
<1>3. entries' \in [Slot -> ArpCacheEntry \cup {None}]
  <2>1. ASSUME NEW e \in ArpCacheEntry
        PROVE  [e EXCEPT !.age = More(@, ARP_ENTRY_TIMEOUT + 1)] \in ArpCacheEntry
    <3>1. e.age \in 0..ARP_ENTRY_TIMEOUT + 1
      BY DEF ArpCacheEntry
    <3>2. More(e.age, ARP_ENTRY_TIMEOUT + 1) \in 0..ARP_ENTRY_TIMEOUT + 1
      BY <3>1, BoundAssumption DEF More
    <3> QED BY <3>2 DEF ArpCacheEntry
  <2>2. \A i \in Slot : entries[i] # None => entries[i] \in ArpCacheEntry
    BY <1>2
  <2> QED BY <1>1, <2>1, <2>2
<1>4. ASSUME NEW i \in DOMAIN req_list
      PROVE  /\ req_list'[i] \in Req /\ req_list'[i].ip4 = req_list[i].ip4
             /\ req_list'[i].retries = req_list[i].retries /\ req_list'[i].pkts = req_list[i].pkts
             /\ req_list'[i].pkts # <<>>
  <2>1. /\ req_list[i] \in Req /\ req_list[i].pkts # <<>>
        /\ req_list[i].age \in 0..2
    BY <1>2, ListsType, PktsOf
  <2>2. More(req_list[i].age, 2) \in 0..2
    BY <2>1 DEF More
  <2>3. req_list'[i] = [req_list[i] EXCEPT !.age = More(req_list[i].age, 2)]
    BY <1>1
  <2> QED BY <2>1, <2>2, <2>3 DEF Req
<1>5. /\ req_list' \in Lists /\ DOMAIN req_list' = DOMAIN req_list
      /\ \A i \in DOMAIN req_list : Pkts(req_list', req_list[i].ip4) = req_list'[i].pkts
      /\ \A g : InList(req_list', g) = InList(req_list, g)
  <2>1. req_list' \in [DOMAIN req_list -> Req]
    BY <1>1, <1>4
  <2> QED BY <1>2, <1>4, <2>1, SameShape
<1>6. ASSUME NEW g
      PROVE  Pkts(req_list', g) = Pkts(req_list, g)
  <2>1. CASE InList(req_list, g) = {}
    BY <1>5, <2>1 DEF Pkts
  <2>2. CASE InList(req_list, g) # {}
    <3>1. PICK j \in DOMAIN req_list : req_list[j].ip4 = g
      BY <2>2 DEF InList
    <3>2. Pkts(req_list, g) = req_list[j].pkts
      BY <1>2, <3>1, PktsOf
    <3> QED BY <1>4, <1>5, <3>1, <3>2
  <2> QED BY <2>1, <2>2
<1>7. /\ SweeperOK' /\ ~Working /\ ~Working' /\ ~Dangling
      /\ ~(sweeper.at \in {"append", "drop"}) /\ ~(sweeper'.at \in {"append", "drop"})
  BY <1>1, <1>2 DEF SweeperOK, Working, Dangling
<1>8. Types'
  BY <1>1, <1>3, <1>5, <1>7 DEF Types
<1>9. Pointed' /\ Counted'
  BY <1>1, <1>4, <1>5, <1>7 DEF IInv, Pointed, Counted
<1>10. ASSUME NEW p \in Packet
       PROVE  Place(p)'
  <2>1. Place(p)
    BY <1>1, <1>7 DEF IInv, Placed
  <2>2. InHand(p)' <=> InHand(p)
    BY <1>1 DEF InHand
  <2>3. Where(req_list', p) = Where(req_list, p)
    BY <1>6, WhereSame
  <2>4. ~AtHead(p)' /\ ~AtHead(p)
    BY <1>7 DEF AtHead
  <2> QED BY <1>1, <2>1, <2>2, <2>3, <2>4, StaysInPlace
<1>11. Placed'
  BY <1>10 DEF Placed
<1> QED BY <1>8, <1>9, <1>11 DEF IInv

(* Freed memory is used, and nothing more is said.                         *)
LEMMA MisuseIInv ==
  ASSUME IInv, Misuse
  PROVE  IInv'
<1>1. UNCHANGED <<entries, req_list, main, sweeper, handled, fate, unanswered>> /\ misused'
  BY DEF Misuse
<1>2. SweeperOK' /\ Pointed' /\ Counted'
  BY <1>1, SweepUntouched
<1> QED BY <1>1, <1>2 DEF IInv, Types, Placed

(* The request the sweep is at.                                            *)
LEMMA CurrentProperties ==
  ASSUME IInv, Working, ~Dangling
  PROVE  /\ Current \in DOMAIN req_list /\ Request(sweeper.ip4) = {Current}
         /\ req_list[Current].ip4 = sweeper.ip4 /\ sweeper.ip4 \in Hops
         /\ req_list[Current].pkts = Pkts(req_list, sweeper.ip4)
         /\ req_list[Current].pkts \in Seq(Queued) /\ req_list[Current].pkts # <<>>
         /\ ~sweeper.last => Len(req_list[Current].pkts) >= 2
<1>1. PICK i \in DOMAIN req_list :
        req_list[i].ip4 = sweeper.ip4 /\ (~sweeper.last => Len(req_list[i].pkts) >= 2)
  BY DEF IInv, Pointed
<1>2. req_list \in Lists
  BY DEF IInv, Types
<1>3. /\ InList(req_list, sweeper.ip4) = {i} /\ Pkts(req_list, sweeper.ip4) = req_list[i].pkts
      /\ sweeper.ip4 \in Hops /\ req_list[i].pkts \in Seq(Queued) /\ req_list[i].pkts # <<>>
  BY <1>1, <1>2, PktsOf
<1>4. Request(sweeper.ip4) = {i}
  BY <1>3 DEF Request, InList
<1>5. (CHOOSE k \in {i} : TRUE) = i
  OBVIOUS
<1>6. Current = i
  BY <1>4, <1>5 DEF Current
<1> QED BY <1>1, <1>3, <1>4, <1>6

(* The first packet of the request is reported, and stays in the list      *)
(* until its report is queued.                                             *)
LEMMA ReportIInv ==
  ASSUME IInv, Report
  PROVE  IInv'
<1>1. CASE Dangling
  <2>1. Misuse
    BY <1>1 DEF Report
  <2> QED BY <2>1, MisuseIInv
<1>2. CASE ~Dangling
  <2> DEFINE m == Head(req_list[Current].pkts)
             e == IcmpTo(m.src)
  <2>1. /\ Types /\ sweeper.at = "report" /\ misused = FALSE
        /\ fate' = With(fate, {m}, "reported")
        /\ sweeper' = IF Route[e.dst] = None \/ Known(Route[e.dst])
                      THEN [sweeper EXCEPT !.at = "drop"]
                      ELSE [sweeper EXCEPT !.at = "append", !.msg = e]
        /\ UNCHANGED <<entries, req_list, main, handled, unanswered, misused>>
    BY <1>2 DEF IInv, Report
  <2>2. Working
    BY <2>1 DEF Working
  <2>3. /\ Current \in DOMAIN req_list /\ sweeper.ip4 \in Hops
        /\ Pkts(req_list, sweeper.ip4) = req_list[Current].pkts
        /\ req_list[Current].pkts \in Seq(Queued) /\ req_list[Current].pkts # <<>>
    BY <1>2, <2>2, CurrentProperties
  <2>4. m \in Queued /\ m = Pkts(req_list, sweeper.ip4)[1] /\ 1 \in DOMAIN Pkts(req_list, sweeper.ip4)
    BY <2>3, HeadTailProperties, EmptySeq
  <2>5. e.about = None /\ (Route[e.dst] # None => e \in Queued)
    <3>1. m.src \in Addresses
      BY <2>4, QueuedType
    <3>2. e.about = None /\ e.dst = m.src
      BY DEF IcmpTo
    <3> QED BY <3>1, <3>2, IcmpQueued
  <2>6. SweeperOK
    BY <2>1 DEF Types
  <2>7. \A p : <<sweeper.ip4, 1>> \in Where(req_list, p) <=> m.about = p
    BY <2>3, <2>4, WhereMember
  <2> HIDE DEF m, e
  <2>8. /\ sweeper'.at \in {"append", "drop"} /\ sweeper'.ip4 = sweeper.ip4 /\ sweeper'.last = sweeper.last
        /\ sweeper'.freed = sweeper.freed
        /\ SweeperOK'
    <3>1. CASE Route[e.dst] = None \/ Known(Route[e.dst])
      <4>1. sweeper' = [sweeper EXCEPT !.at = "drop"]
        BY <2>1, <3>1
      <4> QED BY <2>1, <2>6, <4>1 DEF SweeperOK, Working
    <3>2. CASE ~(Route[e.dst] = None \/ Known(Route[e.dst]))
      <4>1. sweeper' = [sweeper EXCEPT !.at = "append", !.msg = e]
        BY <2>1, <3>2
      <4>2. e \in Queued
        BY <2>5, <3>2
      <4> QED BY <2>1, <2>5, <2>6, <4>1, <4>2 DEF SweeperOK, Working
    <3> QED BY <3>1, <3>2
  <2>9. Working' /\ ~Dangling'
    BY <1>2, <2>8 DEF Working, Dangling
  <2>10. Pointed' /\ Counted'
    BY <1>2, <2>1, <2>2, <2>8 DEF IInv, Pointed, Counted, Silent
  <2>11. fate \in [Packet -> SUBSET Fates]
    BY <2>1 DEF Types
  <2>12. /\ fate' \in [Packet -> SUBSET Fates]
         /\ \A p \in Packet : fate'[p] = IF m.about = p THEN fate[p] \cup {"reported"} ELSE fate[p]
    BY <2>1, <2>11 DEF With, Fates
  <2>13. Types'
    BY <2>1, <2>8, <2>12 DEF Types
  <2>14. ASSUME NEW p \in Packet
         PROVE  Place(p)'
    <3>1. Place(p) /\ ~AtHead(p)
      BY <1>2, <2>1 DEF IInv, Placed, AtHead
    <3>2. InHand(p)' <=> InHand(p)
      BY <2>1 DEF InHand
    <3>3. Where(req_list, p)' = Where(req_list, p)
      BY <2>1
    <3>4. CASE m.about = p
      <4>1. AtHead(p)'
        BY <2>1, <2>7, <2>8, <3>4 DEF AtHead
      <4>2. ~InHand(p) /\ fate[p] = {} /\ \E x : Where(req_list, p) = {x}
        BY <2>7, <3>1, <3>4 DEF Place
      <4>3. fate'[p] = {"reported"} /\ "reported" \in Fates
        BY <2>12, <3>4, <4>2 DEF Fates
      <4> QED BY <3>2, <3>3, <4>1, <4>2, <4>3 DEF Place
    <3>5. CASE m.about # p
      <4>1. ~AtHead(p)'
        BY <2>1, <2>7, <2>8, <3>5 DEF AtHead
      <4>2. fate'[p] = fate[p]
        BY <2>12, <3>5
      <4> QED BY <3>1, <3>2, <3>3, <4>1, <4>2, StaysInPlace
    <3> QED BY <3>4, <3>5
  <2>15. Placed'
    BY <2>14 DEF Placed
  <2> QED BY <2>10, <2>13, <2>15 DEF IInv
<1> QED BY <1>1, <1>2

(* The report joins the packets of its own next hop.                       *)
LEMMA AppendReportIInv ==
  ASSUME IInv, AppendReport
  PROVE  IInv'
<1> DEFINE m == sweeper.msg
<1>1. /\ Types /\ sweeper.at = "append" /\ misused = FALSE /\ Queue(m)
      /\ sweeper' = [sweeper EXCEPT !.at = "drop", !.msg = None]
      /\ UNCHANGED <<entries, main, handled, fate, unanswered, misused>>
  BY DEF IInv, AppendReport
<1>2. SweeperOK
  BY <1>1 DEF Types
<1>3. m \in Queued /\ m.about = None
  BY <1>1, <1>2 DEF SweeperOK
<1>4. /\ sweeper'.at = "drop" /\ sweeper'.ip4 = sweeper.ip4 /\ sweeper'.last = sweeper.last
      /\ sweeper'.freed = sweeper.freed /\ SweeperOK' /\ Working /\ Working'
  BY <1>1, <1>2 DEF SweeperOK, Working
<1>5. /\ req_list' \in Lists /\ Pointed' /\ Counted'
      /\ Dangling' <=> Dangling
      /\ \A p \in Packet : Where(req_list, p)' = Where(req_list, p) \cup
           IF m.about = p THEN {<<Route[m.dst], Len(Pkts(req_list, Route[m.dst])) + 1>>} ELSE {}
  BY <1>1, <1>3, <1>4, QueueKeeps
<1>6. Types'
  BY <1>1, <1>4, <1>5 DEF Types
<1>7. ASSUME NEW p \in Packet, ~Dangling
      PROVE  Place(p)'
  <2>1. Place(p)
    BY <1>1, <1>7 DEF IInv, Placed
  <2>2. m.about # p
    BY <1>3, AddressAssumption
  <2>3. Where(req_list, p)' = Where(req_list, p)
    BY <1>5, <2>2
  <2>4. InHand(p)' <=> InHand(p)
    BY <1>1 DEF InHand
  <2>5. AtHead(p)' <=> AtHead(p)
    BY <1>1, <1>4, <2>3 DEF AtHead
  <2> QED BY <1>1, <2>1, <2>3, <2>4, <2>5, StaysInPlace
<1>8. Placed'
  BY <1>5, <1>7 DEF Placed
<1> QED BY <1>5, <1>6, <1>8 DEF IInv

(* The packet that has been reported is freed.                             *)
LEMMA DropIInv ==
  ASSUME IInv, Drop, ~Dangling, ~sweeper.last
  PROVE  IInv'
<1> DEFINE h == sweeper.ip4
           rest == Tail(req_list[Current].pkts)
           rs == req_list
<1>1. /\ Types /\ sweeper.at = "drop" /\ misused = FALSE
      /\ req_list' = [req_list EXCEPT ![Current].pkts = rest]
      /\ sweeper' = [sweeper EXCEPT !.at = "report", !.last = Len(rest) = 1]
      /\ UNCHANGED <<entries, main, handled, fate, unanswered, misused>>
  BY DEF IInv, Drop
<1>2. Working
  BY <1>1 DEF Working
<1>3. /\ Current \in DOMAIN rs /\ rs[Current].ip4 = h /\ h \in Hops
      /\ rs[Current].pkts = Pkts(rs, h)
      /\ rs[Current].pkts \in Seq(Queued) /\ rs[Current].pkts # <<>>
      /\ Len(rs[Current].pkts) >= 2
  BY <1>2, CurrentProperties
<1>4. /\ rest \in Seq(Queued) /\ Len(rest) \in Nat /\ Len(rest) >= 1 /\ rest # <<>>
  <2>1. rest \in Seq(Queued) /\ Len(rest) = Len(rs[Current].pkts) - 1
    BY <1>3, HeadTailProperties
  <2>2. Len(rs[Current].pkts) \in Nat
    BY <1>3
  <2>3. Len(rest) \in Nat /\ Len(rest) >= 1
    BY <1>3, <2>1, <2>2
  <2> HIDE DEF rest
  <2>4. Len(<<>>) = 0
    OBVIOUS
  <2>5. rest # <<>>
    BY <2>3, <2>4
  <2> QED BY <2>1, <2>3, <2>5
<1>5. SweeperOK /\ rs \in Lists
  BY <1>1 DEF Types
<1>6. /\ sweeper'.at = "report" /\ sweeper'.ip4 = h /\ sweeper'.freed = sweeper.freed
      /\ (Len(rest) = 1 => sweeper'.last) /\ SweeperOK' /\ Working' /\ ~Dangling'
  BY <1>1, <1>5 DEF SweeperOK, Working, Dangling
<1> HIDE DEF rest, rs, h
<1>7. ASSUME NEW i \in DOMAIN rs
      PROVE  /\ req_list'[i] \in Req /\ req_list'[i].ip4 = rs[i].ip4
             /\ req_list'[i].retries = rs[i].retries /\ req_list'[i].pkts # <<>>
             /\ req_list'[i].pkts = IF i = Current THEN rest ELSE rs[i].pkts
  <2>1. rs[i] \in Req /\ rs[i].pkts # <<>>
    BY <1>5, ListsType, PktsOf
  <2>2. CASE i = Current
    <3>1. req_list'[i] = [rs[i] EXCEPT !.pkts = rest]
      BY <1>1, <2>2 DEF rs
    <3> QED BY <1>4, <2>1, <2>2, <3>1 DEF Req
  <2>3. CASE i # Current
    BY <1>1, <2>1, <2>3 DEF rs
  <2> QED BY <2>2, <2>3
<1>8. /\ req_list' \in Lists /\ DOMAIN req_list' = DOMAIN rs
      /\ \A i \in DOMAIN rs : Pkts(req_list', rs[i].ip4) = req_list'[i].pkts
      /\ \A g : InList(req_list', g) = InList(rs, g)
  <2>1. req_list' \in [DOMAIN rs -> Req]
    BY <1>1, <1>7 DEF rs
  <2> QED BY <1>5, <1>7, <2>1, SameShape
<1>9. ASSUME NEW g
      PROVE  Pkts(req_list', g) = IF g = h THEN Tail(Pkts(rs, g)) ELSE Pkts(rs, g)
  <2>1. CASE InList(rs, g) = {}
    <3>1. g # h
      BY <1>3, <2>1 DEF InList
    <3> QED BY <1>8, <2>1, <3>1 DEF Pkts
  <2>2. CASE InList(rs, g) # {}
    <3>1. PICK j \in DOMAIN rs : rs[j].ip4 = g
      BY <2>2 DEF InList
    <3>2. Pkts(rs, g) = rs[j].pkts
      BY <1>5, <3>1, PktsOf
    <3>3. j = Current <=> g = h
      BY <1>3, <1>5, <3>1 DEF Lists, Unique
    <3>4. rest = Tail(Pkts(rs, h))
      BY <1>3 DEF rest, rs
    <3> QED BY <1>7, <1>8, <3>1, <3>2, <3>3, <3>4
  <2> QED BY <2>1, <2>2
<1>10. Types'
  BY <1>1, <1>6, <1>8 DEF Types
<1>11. Pointed'
  <2>1. ~sweeper'.last => Len(rest) >= 2
    <3>1. CASE Len(rest) = 1
      BY <1>6, <3>1
    <3>2. CASE Len(rest) # 1
      <4>1. \A n \in Nat : n >= 1 /\ n # 1 => n >= 2
        OBVIOUS
      <4> QED BY <1>4, <3>2, <4>1
    <3> QED BY <3>1, <3>2
  <2>2. /\ Current \in DOMAIN req_list' /\ req_list'[Current].ip4 = sweeper'.ip4
        /\ req_list'[Current].pkts = rest
    BY <1>3, <1>6, <1>7, <1>8
  <2> QED BY <2>1, <2>2 DEF Pointed
<1>12. Counted'
  <2>1. \A i \in DOMAIN rs : rs[i].retries <= unanswered[rs[i].ip4]
    BY DEF IInv, Counted, rs
  <2>2. Silent(sweeper.ip4)
    BY <1>2 DEF IInv, Counted
  <2> QED BY <1>1, <1>6, <1>7, <1>8, <2>1, <2>2 DEF Counted, Silent, h
<1>13. ASSUME NEW p \in Packet
       PROVE  Place(p)'
  <2>1. Place(p)
    BY <1>1 DEF IInv, Placed
  <2>2. InHand(p)' <=> InHand(p)
    BY <1>1 DEF InHand
  <2>3. \A g, k : <<g, k>> \in Where(req_list', p) <=>
           IF g = h THEN k \in Nat \ {0} /\ <<h, k + 1>> \in Where(rs, p) ELSE <<g, k>> \in Where(rs, p)
    <3>1. Pkts(rs, h) # <<>>
      BY <1>3
    <3> QED BY <1>5, <1>9, <3>1, WhereTail
  <2>4. /\ \A x \in Where(req_list', p) : x = <<x[1], x[2]>>
        /\ \A x \in Where(rs, p) : x = <<x[1], x[2]>>
    BY WhereMember
  <2>5. \A x \in Where(rs, p) : x[1] = h => x[2] \in Nat \ {0}
    <3>1. \A x \in Where(rs, p) : x[2] \in DOMAIN Pkts(rs, x[1])
      BY <2>4, WhereMember
    <3>2. DOMAIN Pkts(rs, h) = 1..Len(Pkts(rs, h))
      BY <1>3
    <3> QED BY <3>1, <3>2
  <2>6. AtHead(p) <=> <<h, 1>> \in Where(rs, p)
    BY <1>1 DEF AtHead, h, rs
  <2>7. ~AtHead(p)'
    BY <1>6 DEF AtHead
  <2>8. CASE Where(rs, p) = {}
    <3>1. Where(req_list', p) = {}
      BY <2>3, <2>4, <2>8
    <3>2. ~AtHead(p)
      BY <2>6, <2>8
    <3> QED BY <1>1, <2>1, <2>2, <2>7, <2>8, <3>1, <3>2, StaysInPlace DEF rs
  <2>9. CASE Where(rs, p) # {}
    <3>1. ~InHand(p)
      BY <2>1, <2>9 DEF Place, rs
    <3>2. PICK x : Where(rs, p) = {x}
      BY <2>1, <2>9 DEF Place, rs
    <3>3. x = <<x[1], x[2]>>
      BY <2>4, <3>2
    <3>4. CASE x[1] = h /\ x[2] = 1
      <4>1. AtHead(p)
        BY <2>6, <3>2, <3>3, <3>4
      <4>2. \E w \in Fates : fate[p] = {w}
        BY <2>1, <2>9, <3>1, <4>1 DEF Place, rs
      <4>3. \A g, k : <<g, k>> \in Where(rs, p) <=> g = h /\ k = 1
        BY <3>2, <3>3, <3>4
      <4>4. \A g, k : <<g, k>> \notin Where(req_list', p)
        <5> SUFFICES ASSUME NEW g, NEW k, <<g, k>> \in Where(req_list', p) PROVE FALSE
          OBVIOUS
        <5>1. CASE g = h
          <6>1. k \in Nat \ {0} /\ <<h, k + 1>> \in Where(rs, p)
            BY <2>3, <5>1
          <6>2. k + 1 = 1
            BY <4>3, <6>1
          <6> QED BY <6>1, <6>2
        <5>2. CASE g # h
          BY <2>3, <4>3, <5>2
        <5> QED BY <5>1, <5>2
      <4>5. Where(req_list', p) = {}
        BY <2>4, <4>4
      <4> QED BY <1>1, <2>2, <3>1, <4>2, <4>5 DEF Place
    <3>5. CASE ~(x[1] = h /\ x[2] = 1)
      <4> DEFINE y == IF x[1] = h THEN <<h, x[2] - 1>> ELSE x
      <4>1. \A g, k : <<g, k>> \in Where(rs, p) <=> g = x[1] /\ k = x[2]
        BY <3>2, <3>3
      <4>2. \A g, k : <<g, k>> \in Where(req_list', p) <=> <<g, k>> = y
        <5>1. CASE x[1] = h
          <6>1. x[2] \in Nat \ {0} /\ x[2] # 1
            BY <2>5, <3>2, <3>5, <5>1
          <6>2. x[2] - 1 \in Nat \ {0} /\ \A k \in Nat : k + 1 = x[2] <=> k = x[2] - 1
            BY <6>1
          <6>3. \A g, k : <<g, k>> \in Where(req_list', p) <=> g = h /\ k = x[2] - 1
            BY <2>3, <4>1, <5>1, <6>2
          <6>4. y = <<h, x[2] - 1>>
            BY <5>1
          <6>5. \A g, k, n : <<g, k>> = <<h, n>> <=> g = h /\ k = n
            OBVIOUS
          <6> HIDE DEF y
          <6> QED BY <6>3, <6>4, <6>5
        <5>2. CASE x[1] # h
          <6>1. \A g, k : <<g, k>> \in Where(req_list', p) <=> g = x[1] /\ k = x[2]
            BY <2>3, <4>1, <5>2
          <6> QED BY <3>3, <5>2, <6>1
        <5> QED BY <5>1, <5>2
      <4>3. y = <<y[1], y[2]>>
        BY <3>3
      <4> HIDE DEF y
      <4>4. Where(req_list', p) = {y}
        <5>1. \A z \in Where(req_list', p) : z = y
          BY <2>4, <4>2
        <5>2. y \in Where(req_list', p)
          BY <4>2, <4>3
        <5> QED BY <5>1, <5>2
      <4>5. ~AtHead(p)
        BY <2>6, <3>5, <4>1
      <4>6. fate[p] = {}
        BY <2>1, <2>9, <3>1, <4>5 DEF Place, rs
      <4> QED BY <1>1, <2>2, <2>7, <3>1, <4>4, <4>6 DEF Place
    <3> QED BY <3>4, <3>5
  <2> QED BY <2>8, <2>9
<1>14. Placed'
  BY <1>13 DEF Placed
<1> QED BY <1>10, <1>11, <1>12, <1>14 DEF IInv

(* After the last one the request is freed, with all that has been added.  *)
LEMMA DropLastIInv ==
  ASSUME IInv, Drop, ~Dangling, sweeper.last, sweeper.next \notin sweeper.freed
  PROVE  IInv'
<1> DEFINE h == sweeper.ip4
           rs == Without(Current)
           i == IF sweeper.next = None THEN Len(rs) + 1 ELSE Current
           s == req_list[Current].pkts
           ms == SetOf(Tail(s))
<1>1. /\ Types /\ sweeper.at = "drop" /\ misused = FALSE
      /\ fate' = With(fate, ms, "lost")
      /\ Walk(rs, i)
      /\ UNCHANGED <<entries, main, handled, misused>>
  BY DEF IInv, Drop
<1>2. Working /\ req_list \in Lists /\ fate \in [Packet -> SUBSET Fates]
  BY <1>1 DEF Working, Types
<1>3. /\ Current \in DOMAIN req_list /\ req_list[Current].ip4 = h /\ h \in Hops
      /\ s = Pkts(req_list, h) /\ s \in Seq(Queued) /\ s # <<>>
  BY <1>2, CurrentProperties
<1>4. /\ rs \in Lists
      /\ \A g : Pkts(rs, g) = IF g = h THEN <<>> ELSE Pkts(req_list, g)
      /\ \A j \in DOMAIN rs : \E k \in DOMAIN req_list :
           rs[j] = req_list[k] /\ req_list[k].ip4 # req_list[Current].ip4
  <2> HIDE DEF s
  <2> QED BY <1>2, <1>3, WithoutProperties
<1>5. i \in Nat \ {0}
  BY <1>2, <1>3, <1>4, ListsType
<1>6. \A j \in DOMAIN rs : rs[j].retries <= unanswered[rs[j].ip4]
  BY <1>4 DEF IInv, Counted
<1>7. unanswered \in [Hops -> 0..ARP_REQUEST_MAX_RETRIES + 1]
  BY <1>1 DEF Types
<1> HIDE DEF rs, i, s, h
<1>8. /\ req_list' \in Lists
      /\ \A g : Pkts(req_list', g) = Pkts(rs, g)
      /\ unanswered' \in [Hops -> 0..ARP_REQUEST_MAX_RETRIES + 1]
      /\ SweeperOK'
      /\ sweeper'.at \in {"asleep", "report"} /\ ~Dangling'
      /\ Pointed'
      /\ Counted'
  BY <1>1, <1>4, <1>5, <1>6, <1>7, WalkProperties
<1>9. /\ fate' \in [Packet -> SUBSET Fates]
      /\ \A p \in Packet : fate'[p] = IF \E m \in ms : m.about = p THEN fate[p] \cup {"lost"} ELSE fate[p]
  <2>1. "lost" \in Fates
    BY DEF Fates
  <2> HIDE DEF ms
  <2> QED BY <1>1, <1>2, <2>1 DEF With
<1>10. Types'
  BY <1>1, <1>8, <1>9 DEF Types
<1>11. \A m : m \in ms <=> \E k \in DOMAIN s : k # 1 /\ m = s[k]
  <2>1. /\ DOMAIN s = 1..Len(s) /\ Len(s) \in Nat \ {0}
        /\ DOMAIN Tail(s) = 1..Len(s) - 1
        /\ \A k \in 1..Len(s) - 1 : Tail(s)[k] = s[k + 1]
    BY <1>3, HeadTailProperties, LenProperties, EmptySeq
  <2>2. ASSUME NEW k \in 1..Len(s), k # 1
        PROVE  k - 1 \in 1..Len(s) - 1 /\ s[k] = Tail(s)[k - 1]
    BY <2>1, <2>2
  <2>3. ASSUME NEW k \in 1..Len(s) - 1
        PROVE  k + 1 \in 1..Len(s) /\ k + 1 # 1 /\ s[k + 1] = Tail(s)[k]
    BY <2>1
  <2>4. \A m : m \in ms <=> \E k \in DOMAIN Tail(s) : m = Tail(s)[k]
    BY DEF SetOf
  <2> HIDE DEF ms
  <2>5. ASSUME NEW m \in ms
        PROVE  \E k \in DOMAIN s : k # 1 /\ m = s[k]
    <3>1. PICK k \in 1..Len(s) - 1 : m = Tail(s)[k]
      BY <2>1, <2>4
    <3> QED BY <2>1, <2>3, <3>1
  <2>6. ASSUME NEW k \in DOMAIN s, k # 1
        PROVE  s[k] \in ms
    <3>1. k - 1 \in DOMAIN Tail(s) /\ s[k] = Tail(s)[k - 1]
      BY <2>1, <2>2, <2>6
    <3> QED BY <2>4, <3>1
  <2> QED BY <2>5, <2>6
<1> HIDE DEF ms
<1>12. ASSUME NEW p \in Packet
       PROVE  Place(p)'
  <2>1. Place(p)
    BY <1>1 DEF IInv, Placed
  <2>2. InHand(p)' <=> InHand(p)
    BY <1>1 DEF InHand
  <2>3. \A g : Pkts(req_list', g) = IF g = h THEN <<>> ELSE Pkts(req_list, g)
    BY <1>4, <1>8
  <2>4. \A x : x \in Where(req_list', p) <=> x \in Where(req_list, p) /\ x[1] # h
    <3>1. Pkts(req_list', h) = <<>> /\ \A g : g # h => Pkts(req_list', g) = Pkts(req_list, g)
      BY <2>3
    <3> QED BY <3>1, WhereCleared
  <2>5. /\ \A x \in Where(req_list, p) : x = <<x[1], x[2]>>
        /\ \A k : <<h, k>> \in Where(req_list, p) <=> k \in DOMAIN s /\ s[k].about = p
    BY <1>3, WhereMember
  <2>6. AtHead(p) <=> <<h, 1>> \in Where(req_list, p)
    BY <1>1 DEF AtHead, h
  <2>7. ~AtHead(p)'
    BY <1>8 DEF AtHead
  <2>8. CASE Where(req_list, p) = {}
    <3>1. Where(req_list, p)' = Where(req_list, p)
      BY <2>4, <2>8
    <3>2. ~AtHead(p)
      BY <2>6, <2>8
    <3>3. ~\E m \in ms : m.about = p
      BY <1>11, <2>5, <2>8
    <3>4. fate'[p] = fate[p]
      BY <1>9, <3>3
    <3> QED BY <2>1, <2>2, <2>7, <3>1, <3>2, <3>4, StaysInPlace
  <2>9. CASE Where(req_list, p) # {}
    <3>1. ~InHand(p)
      BY <2>1, <2>9 DEF Place
    <3>2. PICK x : Where(req_list, p) = {x}
      BY <2>1, <2>9 DEF Place
    <3>3. x = <<x[1], x[2]>>
      BY <2>5, <3>2
    <3>4. CASE x[1] # h
      <4>1. Where(req_list, p)' = Where(req_list, p)
        BY <2>4, <3>2, <3>4
      <4>2. ~AtHead(p)
        BY <2>6, <3>2, <3>3, <3>4
      <4>3. ~\E m \in ms : m.about = p
        <5> SUFFICES ASSUME NEW m \in ms, m.about = p PROVE FALSE
          OBVIOUS
        <5>1. PICK k \in DOMAIN s : m = s[k]
          BY <1>11
        <5>2. <<h, k>> \in Where(req_list, p)
          BY <2>5, <5>1
        <5> QED BY <3>2, <3>4, <5>2
      <4>4. fate'[p] = fate[p]
        BY <1>9, <4>3
      <4> QED BY <2>1, <2>2, <2>7, <4>1, <4>2, <4>4, StaysInPlace
    <3>5. CASE x[1] = h
      <4>1. Where(req_list, p)' = {}
        BY <2>4, <3>2, <3>5
      <4>2. \A k : k \in DOMAIN s /\ s[k].about = p <=> k = x[2]
        BY <2>5, <3>2, <3>3, <3>5
      <4>3. (\E m \in ms : m.about = p) <=> x[2] # 1
        <5>1. ASSUME NEW m \in ms, m.about = p
              PROVE  x[2] # 1
          <6>1. PICK k \in DOMAIN s : k # 1 /\ m = s[k]
            BY <1>11
          <6> QED BY <4>2, <5>1, <6>1
        <5>2. ASSUME x[2] # 1
              PROVE  \E m \in ms : m.about = p
          <6>1. x[2] \in DOMAIN s /\ s[x[2]].about = p
            BY <4>2
          <6>2. s[x[2]] \in ms
            BY <1>11, <5>2, <6>1
          <6> QED BY <6>1, <6>2
        <5> QED BY <5>1, <5>2
      <4>4. AtHead(p) <=> x[2] = 1
        BY <2>6, <3>2, <3>3, <3>5
      <4>5. CASE x[2] = 1
        <5>1. \E w \in Fates : fate[p] = {w}
          BY <2>1, <2>9, <3>1, <4>4, <4>5 DEF Place
        <5>2. fate'[p] = fate[p]
          BY <1>9, <4>3, <4>5
        <5> QED BY <2>2, <3>1, <4>1, <5>1, <5>2 DEF Place
      <4>6. CASE x[2] # 1
        <5>1. fate[p] = {}
          BY <2>1, <2>9, <3>1, <4>4, <4>6 DEF Place
        <5>2. fate'[p] = {"lost"} /\ "lost" \in Fates
          BY <1>9, <4>3, <4>6, <5>1 DEF Fates
        <5> QED BY <2>2, <3>1, <4>1, <5>2 DEF Place
      <4> QED BY <4>5, <4>6
    <3> QED BY <3>4, <3>5
  <2> QED BY <2>8, <2>9
<1>13. Placed'
  BY <1>12 DEF Placed
<1> QED BY <1>8, <1>10, <1>13 DEF IInv

(* No step leaves the invariant.                                           *)
LEMMA NextIInv == IInv /\ [Next]_vars => IInv'
<1> SUFFICES ASSUME IInv, [Next]_vars PROVE IInv'
  OBVIOUS
<1>1. CASE \E p \in Packet : HandleIp(p)
  BY <1>1, HandleIpIInv
<1>2. CASE \E h \in Host : HandleArp(h)
  BY <1>2, HandleArpIInv
<1>3. CASE AppendPacket
  BY <1>3, AppendPacketIInv
<1>4. CASE Sweep
  BY <1>4, SweepIInv
<1>5. CASE Report
  BY <1>5, ReportIInv
<1>6. CASE AppendReport
  BY <1>6, AppendReportIInv
<1>7. CASE Drop
  <2>1. CASE Dangling \/ (sweeper.last /\ sweeper.next \in sweeper.freed)
    <3>1. Misuse
      BY <1>7, <2>1 DEF Drop
    <3> QED BY <3>1, MisuseIInv
  <2>2. CASE ~Dangling /\ ~sweeper.last
    BY <1>7, <2>2, DropIInv
  <2>3. CASE ~Dangling /\ sweeper.last /\ sweeper.next \notin sweeper.freed
    BY <1>7, <2>3, DropLastIInv
  <2> QED BY <2>1, <2>2, <2>3
<1>8. CASE Tick
  BY <1>8, TickIInv
<1>9. CASE UNCHANGED vars
  <2>1. UNCHANGED <<entries, req_list, main, sweeper, handled, fate, unanswered, misused>>
    BY <1>9 DEF vars
  <2>2. SweeperOK' /\ Pointed' /\ Counted' /\ (Dangling' <=> Dangling)
        /\ \A p : Where(req_list, p)' = Where(req_list, p) /\ (AtHead(p)' <=> AtHead(p))
    BY <2>1, SweepUntouched
  <2>3. Types'
    BY <2>1, <2>2 DEF IInv, Types
  <2>4. Placed'
    <3>1. \A p : InHand(p)' <=> InHand(p)
      BY <2>1 DEF InHand
    <3> QED BY <2>1, <2>2, <3>1, StaysInPlace DEF IInv, Placed
  <2> QED BY <2>2, <2>3, <2>4 DEF IInv
<1> QED BY <1>1, <1>2, <1>3, <1>4, <1>5, <1>6, <1>7, <1>8, <1>9
        DEF Next, HandlePacket, Main, Sweeper

(* The invariant holds throughout.                                         *)
LEMMA Invariance == Spec => []IInv
<1> QED BY InitIInv, NextIInv, PTL DEF Spec

-----------------------------------------------------------------------------
(* What the invariant says in the words of Router.                         *)
LEMMA TypesImplyTypeOK == Types => TypeOK
<1> SUFFICES ASSUME Types PROVE TypeOK
  OBVIOUS
<1>1. req_list \in Lists /\ SweeperOK /\ entries \in [Slot -> ArpCacheEntry \cup {None}]
  BY DEF Types
<1>2. Queued \subseteq Message
  BY QueuedType
<1>3. ASSUME NEW i \in DOMAIN req_list
      PROVE  req_list[i] \in ArpReq /\ req_list[i].pkts # <<>>
  <2>1. req_list[i] \in Req /\ req_list[i].pkts \in Seq(Queued) /\ req_list[i].pkts # <<>>
    BY <1>1, ListsType, PktsOf
  <2>2. req_list[i].pkts \in Seq(Message)
    BY <1>2, <2>1, SeqMonotonic
  <2> QED BY <2>1, <2>2 DEF Req, ArpReq
<1>4. sweeper.at \in {"asleep", "awake", "report", "append", "drop"}
  BY <1>1 DEF SweeperOK
<1> QED BY <1>1, <1>3, <1>4 DEF TypeOK

(* The positions in the list are the places by address.                    *)
LEMMA QueuesAreWhere ==
  ASSUME req_list \in Lists, NEW p
  PROVE  /\ Where(req_list, p) = {} => Queues(p) = {}
         /\ \A x : Where(req_list, p) = {x} => \E y : Queues(p) = {y}
<1> DEFINE U == UNION {{i} \X DOMAIN req_list[i].pkts : i \in DOMAIN req_list}
<1>1. \A i, k : <<i, k>> \in U <=> i \in DOMAIN req_list /\ k \in DOMAIN req_list[i].pkts
  OBVIOUS
<1>2. \A x \in U : x = <<x[1], x[2]>>
  OBVIOUS
<1>3. \A x : x \in Queues(p) <=> x \in U /\ req_list[x[1]].pkts[x[2]].about = p
  BY DEF Queues
<1> HIDE DEF U
<1>4. ASSUME NEW i, NEW k
      PROVE  <<i, k>> \in Queues(p) <=>
               i \in DOMAIN req_list /\ <<req_list[i].ip4, k>> \in Where(req_list, p)
  <2>1. <<i, k>> \in Queues(p) <=>
          i \in DOMAIN req_list /\ k \in DOMAIN req_list[i].pkts /\ req_list[i].pkts[k].about = p
    BY <1>1, <1>3
  <2>2. i \in DOMAIN req_list => req_list[i].ip4 \in Hops /\ Pkts(req_list, req_list[i].ip4) = req_list[i].pkts
    BY PktsOf
  <2> QED BY <2>1, <2>2, WhereMember
<1>5. \A x \in Queues(p) : x = <<x[1], x[2]>>
  BY <1>2, <1>3
<1>6. Where(req_list, p) = {} => Queues(p) = {}
  BY <1>4, <1>5
<1>7. ASSUME NEW x, Where(req_list, p) = {x}
      PROVE  \E y : Queues(p) = {y}
  <2>1. x = <<x[1], x[2]>>
    BY <1>7, WhereMember
  <2>2. x[2] \in DOMAIN Pkts(req_list, x[1])
    BY <1>7, <2>1, WhereMember
  <2>3. \A k : k \notin DOMAIN <<>>
    OBVIOUS
  <2>4. InList(req_list, x[1]) # {}
    BY <2>2, <2>3 DEF Pkts
  <2>5. PICK i \in DOMAIN req_list : req_list[i].ip4 = x[1]
    BY <2>4 DEF InList
  <2>6. <<i, x[2]>> \in Queues(p)
    BY <1>4, <1>7, <2>1, <2>5
  <2>7. ASSUME NEW z \in Queues(p)
        PROVE  z = <<i, x[2]>>
    <3>1. z = <<z[1], z[2]>> /\ z[1] \in DOMAIN req_list /\ <<req_list[z[1]].ip4, z[2]>> \in Where(req_list, p)
      BY <1>4, <1>5
    <3>2. req_list[z[1]].ip4 = x[1] /\ z[2] = x[2]
      BY <1>7, <2>1, <3>1
    <3>3. z[1] = i
      BY <2>5, <3>1, <3>2 DEF Lists, Unique
    <3> QED BY <3>1, <3>2, <3>3
  <2> QED BY <2>6, <2>7
<1> QED BY <1>6, <1>7

(* A packet with one place is counted once.                                *)
LEMMA PlaceCounts ==
  ASSUME IInv, ~Dangling, NEW p \in Packet, Place(p)
  PROVE  LET places == Cardinality(Queues(p)) + (IF InHand(p) THEN 1 ELSE 0) + Cardinality(fate[p])
         IN places = IF Reporting(p) THEN 2 ELSE 1
<1>1. req_list \in Lists
  BY DEF IInv, Types
<1>2. Cardinality({}) = 0 /\ \A x : Cardinality({x}) = 1
  BY FS_EmptySet, FS_Singleton
<1>3. Reporting(p) <=> AtHead(p)
  <2>1. CASE sweeper.at \in {"append", "drop"}
    <3>1. Working
      BY <2>1 DEF Working
    <3>2. /\ Request(sweeper.ip4) # {} /\ sweeper.ip4 \in Hops
          /\ req_list[Current].pkts = Pkts(req_list, sweeper.ip4)
          /\ req_list[Current].pkts \in Seq(Queued) /\ req_list[Current].pkts # <<>>
      BY <3>1, CurrentProperties
    <3>3. /\ Head(req_list[Current].pkts) = Pkts(req_list, sweeper.ip4)[1]
          /\ 1 \in DOMAIN Pkts(req_list, sweeper.ip4)
      BY <3>2, HeadTailProperties, EmptySeq
    <3>4. <<sweeper.ip4, 1>> \in Where(req_list, p) <=> Head(req_list[Current].pkts).about = p
      BY <3>2, <3>3, WhereMember
    <3> QED BY <2>1, <3>2, <3>4 DEF Reporting, AtHead
  <2>2. CASE ~(sweeper.at \in {"append", "drop"})
    BY <2>2 DEF Reporting, AtHead
  <2> QED BY <2>1, <2>2
<1>4. AtHead(p) => Where(req_list, p) # {}
  BY DEF AtHead
<1>5. CASE InHand(p) /\ Where(req_list, p) = {} /\ fate[p] = {}
  <2>1. Cardinality(Queues(p)) = 0 /\ Cardinality(fate[p]) = 0 /\ ~Reporting(p)
    BY <1>1, <1>2, <1>3, <1>4, <1>5, QueuesAreWhere
  <2> QED BY <1>5, <2>1
<1>6. CASE ~InHand(p) /\ Where(req_list, p) = {} /\ \E w \in Fates : fate[p] = {w}
  <2>1. Cardinality(Queues(p)) = 0 /\ Cardinality(fate[p]) = 1 /\ ~Reporting(p)
    BY <1>1, <1>2, <1>3, <1>4, <1>6, QueuesAreWhere
  <2> QED BY <1>6, <2>1
<1>7. CASE /\ ~InHand(p)
           /\ \E x : Where(req_list, p) = {x}
           /\ IF AtHead(p) THEN \E w \in Fates : fate[p] = {w} ELSE fate[p] = {}
  <2>1. Cardinality(Queues(p)) = 1
    <3>1. PICK y : Queues(p) = {y}
      BY <1>1, <1>7, QueuesAreWhere
    <3> QED BY <1>2, <3>1
  <2>2. CASE AtHead(p)
    <3>1. Cardinality(fate[p]) = 1
      BY <1>2, <1>7, <2>2
    <3> QED BY <1>3, <1>7, <2>1, <2>2, <3>1
  <2>3. CASE ~AtHead(p)
    <3>1. Cardinality(fate[p]) = 0
      BY <1>2, <1>7, <2>3
    <3> QED BY <1>3, <1>7, <2>1, <2>3, <3>1
  <2> QED BY <2>2, <2>3
<1> QED BY <1>5, <1>6, <1>7 DEF Place

(* The invariant implies what is said of the program.                      *)
LEMMA IInvImplies == IInv => OneFate /\ OnlySilent
<1> SUFFICES ASSUME IInv PROVE OneFate /\ OnlySilent
  OBVIOUS
<1>1. TypeOK
  BY TypesImplyTypeOK DEF IInv
<1>2. ASSUME ~misused, ~Dangling, NEW p \in Packet
      PROVE  LET places == Cardinality(Queues(p)) + (IF InHand(p) THEN 1 ELSE 0) + Cardinality(fate[p])
             IN places = IF Reporting(p) THEN 2 ELSE 1
  <2>1. Place(p)
    BY <1>2 DEF IInv, Placed
  <2> QED BY <1>2, <2>1, PlaceCounts
<1>3. OneFate
  BY <1>1, <1>2 DEF OneFate
<1>4. OnlySilent
  BY DEF IInv, Counted, OnlySilent, Working
<1> QED BY <1>3, <1>4

(* The table, the requests, the message in hand and the state of the sweep *)
(* stay well-typed: arpcache_insert writes inside the table, every request *)
(* has a next hop, and the sweep is at a request only while it works.      *)
THEOREM TypeCorrect == Spec => []TypeOK
<1>1. IInv => TypeOK
  BY TypesImplyTypeOK DEF IInv
<1> QED BY <1>1, Invariance, PTL

(* THEOREM. Whatever hosts answer when, a packet is in one place, and one  *)
(* thing becomes of it, until the sweep of 08-router/arpcache.c goes on    *)
(* with a request that handle_arp_packet has freed.                        *)
THEOREM OneThingBecomesOfIt == Spec => []OneFate
<1>1. IInv => OneFate
  BY IInvImplies
<1> QED BY <1>1, Invariance, PTL

(* THEOREM. arpcache_sweep gives up only an address that has left more     *)
(* than ARP_REQUEST_MAX_RETRIES requests unanswered, or that has answered  *)
(* while its packets were being reported.                                  *)
THEOREM OnlyTheSilentAreGivenUp == Spec => []OnlySilent
<1>1. IInv => OnlySilent
  BY IInvImplies
<1> QED BY <1>1, Invariance, PTL

-----------------------------------------------------------------------------
(* What has become of a packet is not undone, nor is anything else to      *)
(* become of it: none is sent after it has been reported.                  *)
FateIsFinal ==
  [][misused' \/ Dangling' \/ \A p \in Packet : fate[p] # {} => fate'[p] = fate[p]]_vars

(* Nothing that has become of a packet is forgotten.                       *)
LEMMA FatesGrow ==
  ASSUME IInv, [Next]_vars, NEW p \in Packet
  PROVE  fate[p] \subseteq fate'[p]
<1>0. fate \in [Packet -> SUBSET Fates]
  BY DEF IInv, Types
<1>1. ASSUME NEW ms, NEW what, fate' = With(fate, ms, what)
      PROVE  fate[p] \subseteq fate'[p]
  BY <1>1 DEF With
<1>2. CASE \E q \in Packet : HandleIp(q)
  <2>1. PICK q \in Packet : HandleIp(q)
    BY <1>2
  <2>2. \/ UNCHANGED fate
        \/ \E ms, what : fate' = With(fate, ms, what)
    BY <2>1 DEF HandleIp
  <2> QED BY <1>1, <2>2
<1>3. CASE \E h \in Host : HandleArp(h)
  BY <1>1, <1>3 DEF HandleArp
<1>4. CASE Report
  BY <1>1, <1>4 DEF Report, Misuse
<1>5. CASE Drop
  BY <1>1, <1>5 DEF Drop, Misuse
<1>6. CASE AppendPacket \/ Sweep \/ AppendReport \/ Tick \/ UNCHANGED vars
  BY <1>6 DEF AppendPacket, Sweep, AppendReport, Tick, vars
<1> QED BY <1>2, <1>3, <1>4, <1>5, <1>6 DEF Next, HandlePacket, Main, Sweeper

(* THEOREM. A packet that has been sent, answered or reported has not      *)
(* another thing happen to it, as long as no freed memory is used.         *)
THEOREM FatesAreFinal == Spec => FateIsFinal
<1>1. IInv /\ IInv' /\ [Next]_vars =>
        [misused' \/ Dangling' \/ \A p \in Packet : fate[p] # {} => fate'[p] = fate[p]]_vars
  <2> SUFFICES ASSUME IInv, IInv', [Next]_vars, ~misused', ~Dangling', NEW p \in Packet, fate[p] # {}
               PROVE  fate'[p] = fate[p]
    OBVIOUS
  <2>1. Place(p)'
    BY DEF IInv, Placed
  <2>2. fate'[p] = {} \/ \E w : fate'[p] = {w}
    BY <2>1 DEF Place
  <2>3. fate[p] \subseteq fate'[p]
    BY FatesGrow
  <2> QED BY <2>2, <2>3
<1> QED BY <1>1, Invariance, PTL DEF Spec, FateIsFinal

=============================================================================
