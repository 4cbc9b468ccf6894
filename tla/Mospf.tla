------------------------------- MODULE Mospf -------------------------------
(***************************************************************************)
(* The link-state routing of 11-mospf.  mospf_lock makes each pass of the  *)
(* five threads, and each packet handled, one action.  A subnet is the set *)
(* of routers on it: a link {r, s} or the hosts of one router {r}; all     *)
(* have the same mask, as in topo.py, so that longest_prefix_match finds   *)
(* the one route to a subnet.  Hellos are sent and heard in one action.    *)
(*                                                                         *)
(* Seconds are not counted.  A neighbour is timed out only when its hellos *)
(* stop, since three of them fit into the time it is given, and a database *)
(* entry only when no newer LSU of its origin can come.                    *)
(***************************************************************************)
EXTENDS Integers, SequencesExt, FiniteSetsExt

CONSTANTS
  Router,        \* router ids, not 0
  Network,       \* sets of subnets to choose from, each with bounds:
                 \* failing: links that fail once
                 \* lsus: no timer goes off while so many LSUs are on their way
                 \* routing: the routers whose spf_thread is followed
  MaxTtl,        \* MOSPF_MAX_LSU_TTL
  Direct, NoRoute

ASSUME RouterAssumption == Router \subseteq Nat \ {0}
ASSUME NetworkAssumption ==
  \A w \in Network :
    /\ w \in [subnets : SUBSET (SUBSET Router), failing : SUBSET w.subnets,
              lsus : Nat, routing : SUBSET Router]
    /\ {} \notin w.subnets

ASSUME TtlAssumption == MaxTtl \in Nat

VARIABLES
  network,   \* one of Network; its failing links become fewer
  down,      \* links that are down
  crashed,   \* routers whose program has crashed
  nbrs,      \* the routers in the nbr_lists of each router
  seq,       \* instance->sequence_num
  db,        \* mospf_db of each router: a list of [rid, seq, lsa]
  rtable,    \* rtable of each router: where packets to a subnet go
  net        \* LSUs on their way from one router to a neighbour
vars == <<network, down, crashed, nbrs, seq, db, rtable, net>>

Subnet == network.subnets
Iface(r) == {s \in Subnet : r \in s}
Link == {s \in Subnet : Cardinality(s) = 2}
Channel == Router \X Router
\* the hellos of s reach r, one every HELLOINT
Joined(r, s) == r # s /\ {r, s} \in Subnet /\ {r, s} \notin down

(***************************************************************************)
(* Sending LSUs                                                            *)
(***************************************************************************)

\* what send_mospf_lsu says of each interface: the neighbour on it, or 0
Adverts(r, N) ==
  {[subnet |-> {r, n}, rid |-> n] : n \in N}
    \cup {[subnet |-> s, rid |-> 0] : s \in {s \in Iface(r) : s \cap N = {}}}

(***************************************************************************)
(* ip_send_packet looks the neighbour up in the routing table.  Sent by    *)
(* way of another router the packet does not reach it: it would come in on *)
(* an interface with another address, and be forwarded (ip.c).             *)
(***************************************************************************)
Reaches(r, n) == Joined(r, n) /\ rtable[r][{r, n}] = Direct

\* the routers that take up to k steps from r
Within(k, r, Step(_)) ==
  FoldLeft(LAMBDA S, i : UNION {{t} \cup Step(t) : t \in S}, {r}, [i \in 1..k |-> i])
All == Cardinality(Router)

Send(r, N, lsu, q) ==
  [c \in Channel |-> IF c[1] = r /\ c[2] \in N /\ Reaches(r, c[2])
                     THEN Append(q[c], lsu) ELSE q[c]]

\* send_mospf_lsu when the neighbours of r are N
SendLsu(r, N) ==
  /\ net' = Send(r, N, [rid |-> r, seq |-> seq[r], ttl |-> MaxTtl, lsa |-> Adverts(r, N)], net)
  /\ seq' = [seq EXCEPT ![r] = @ + 1]

Calm == Cardinality(UNION {{c} \X DOMAIN net[c] : c \in Channel}) < network.lsus

(***************************************************************************)
(* Neighbours                                                              *)
(***************************************************************************)

\* handle_mospf_hello at r, for a hello of s
HandleHello(r, s) ==
  /\ Joined(r, s)
  /\ s \notin nbrs[r] /\ Calm
  /\ nbrs' = [nbrs EXCEPT ![r] = @ \cup {s}]
  /\ SendLsu(r, nbrs'[r])
  /\ UNCHANGED <<network, down, crashed, db, rtable>>

\* checking_nbr_thread: no hello of s for three times HELLOINT
NbrTimeout(r, s) ==
  /\ s \in nbrs[r] /\ ~Joined(r, s) /\ Calm
  /\ nbrs' = [nbrs EXCEPT ![r] = @ \ {s}]
  /\ SendLsu(r, nbrs'[r])
  /\ UNCHANGED <<network, down, crashed, db, rtable>>

Entry(r, o) == {i \in DOMAIN db[r] : db[r][i].rid = o}

(***************************************************************************)
(* sending_mospf_lsu_thread.  An LSU that would bring nobody anything new  *)
(* is left out, which bounds the sequence numbers.                         *)
(***************************************************************************)
Flooded(r) == Within(All, r, LAMBDA t : {s \in nbrs[t] : Reaches(t, s)})

News(r) ==
  /\ \A c \in Channel : net[c] = <<>>
  /\ \E s \in Flooded(r) \ {r} : \A i \in Entry(s, r) : db[s][i].lsa # Adverts(r, nbrs[r])

PeriodicLsu(r) ==
  /\ News(r)
  /\ SendLsu(r, nbrs[r])
  /\ UNCHANGED <<network, down, crashed, nbrs, db, rtable>>

(***************************************************************************)
(* The database                                                            *)
(***************************************************************************)
\* mutant: whatever arrives is newer
MutNewer(m, e) == TRUE
Newer(m, e) == m.seq > e.seq

Stored(list, m) ==
  LET e == [rid |-> m.rid, seq |-> m.seq, lsa |-> m.lsa]
  IN IF \A i \in DOMAIN list : list[i].rid # m.rid THEN Append(list, e)
     ELSE [i \in DOMAIN list |-> IF list[i].rid = m.rid /\ Newer(m, list[i]) THEN e ELSE list[i]]

\* the LSU goes on to all neighbours but the one on the interface it came from
Flood(r, s, m) ==
  LET q == [net EXCEPT ![<<s, r>>] = Tail(@)]
  IN IF m.ttl - 1 > 0 THEN Send(r, nbrs[r] \ {s}, [m EXCEPT !.ttl = @ - 1], q) ELSE q

\* handle_mospf_lsu at r, for the next LSU from s
HandleLsu(r, s) ==
  /\ net[<<s, r>>] # <<>>
  /\ LET m == Head(net[<<s, r>>])
     IN IF m.rid = r
        THEN net' = [net EXCEPT ![<<s, r>>] = Tail(@)] /\ UNCHANGED db
        ELSE /\ db' = [db EXCEPT ![r] = Stored(@, m)]
             /\ net' = Flood(r, s, m)
  /\ UNCHANGED <<network, down, crashed, nbrs, seq, rtable>>

\* the routers that can be reached over links that are up
Near(k, r) == Within(k, r, LAMBDA t : {s \in Router : Joined(s, t)})
Component(r) == Near(All, r)

\* mutant: only the head of the list is looked at
MutDbTimeout(r, o) ==
  /\ db[r] # <<>> /\ Head(db[r]).rid = o /\ o \notin Component(r)
  /\ db' = [db EXCEPT ![r] = Tail(@)]
  /\ UNCHANGED <<network, down, crashed, nbrs, seq, rtable, net>>

\* checking_database_thread: no newer LSU for MOSPF_DATABASE_TIMEOUT
DbTimeout(r, o) ==
  /\ \E i \in Entry(r, o) : o \notin Component(r) /\ db' = [db EXCEPT ![r] = RemoveAt(@, i)]
  /\ UNCHANGED <<network, down, crashed, nbrs, seq, rtable, net>>

(***************************************************************************)
(* Routes.  Node i of the graph is the i-th entry of the database; node 0, *)
(* the router itself, is never relaxed.                                    *)
(***************************************************************************)
Node(r) == DOMAIN db[r]
Lists(r, i, o) == \E a \in db[r][i].lsa : a.rid = o
Edge(r, i, j) == Lists(r, i, db[r][j].rid) \/ Lists(r, j, db[r][i].rid)

(***************************************************************************)
(* spf: the nodes in reach, each with its distance d and the node hop that *)
(* its predecessors lead to, a neighbour if r has heard of it and it of r. *)
(* Otherwise pre stays -1, and pre[-1], gate_way[-1] and fwd_iface[-1] are *)
(* the zeros between the arrays (gcc -O0).                                 *)
(***************************************************************************)
Hop(r, i) == IF Lists(r, i, r) THEN i ELSE -1
Before(r, P, i) == {p \in P : Edge(r, p.node, i)}
Paths(r) ==
  LET start == {[node |-> i, d |-> 1, hop |-> Hop(r, i)] :
                  i \in {i \in Node(r) : db[r][i].rid \in nbrs[r]}}
      next(K, k) ==
        LET last == {p \in K : p.d = k}
            new == {i \in Node(r) : Before(r, last, i) # {} /\ \A p \in K : p.node # i}
            pre(i) == CHOOSE p \in Before(r, last, i) :
                        \A q \in Before(r, last, i) : p.node <= q.node
        IN K \cup {[node |-> i, d |-> k + 1, hop |-> pre(i).hop] : i \in new}
  IN FoldLeft(next, start, [k \in 1..All |-> k])

(***************************************************************************)
(* The nodes in the order the last loops of spf and spf_thread take them:  *)
(* by distance, then by place in the list; what is out of reach is never   *)
(* the nearest, and node 1 is taken again instead.                         *)
(***************************************************************************)
Visits(r) ==
  LET K == Paths(r)
      again == IF \E p \in K : p.node = 1 THEN CHOOSE p \in K : p.node = 1
               ELSE [node |-> 1, d |-> All + 1, hop |-> Hop(r, 1)]
  IN SetToSortSeq(K, LAMBDA p, q : p.d < q.d \/ (p.d = q.d /\ p.node < q.node))
       \o [i \in 1..(Len(db[r]) - Cardinality(K)) |-> again]

\* a node that is no neighbour has no interface either
Via(r, h) == IF h # -1 /\ db[r][h].rid \in nbrs[r] THEN db[r][h].rid ELSE NoRoute

(***************************************************************************)
(* The entries routed when spf_thread visits the node of p: k, which finds *)
(* the entry, is then set to p.hop and runs up to the node again.          *)
(***************************************************************************)
Routed(r, p) ==
  SelectSeq([i \in Node(r) |-> i],
            LAMBDA i : \/ i = p.node
                       \/ /\ i > p.node /\ p.hop <= p.node
                          /\ (i - p.node) % (p.node - p.hop + 1) = 0)

\* mutant: a subnet of hosts keeps the route it has
MutWanted(r, i, rt) ==
  {a.subnet : a \in {a \in db[r][i].lsa : a.rid # r /\ rt[a.subnet] = NoRoute}}

(***************************************************************************)
(* spf_thread for entry i: hosts' subnets are routed anew, other subnets    *)
(* only if they had no route.  A NULL interface is dereferenced.           *)
(***************************************************************************)
Wanted(r, i, rt) ==
  {a.subnet : a \in {a \in db[r][i].lsa : a.rid = 0 \/ (a.rid # r /\ rt[a.subnet] = NoRoute)}}

Install(r, acc, i, via) ==
  LET W == Wanted(r, i, acc.rt)
  IN IF ~acc.ok \/ W = {} THEN acc
     ELSE [ok |-> via # NoRoute,
           rt |-> [s \in Subnet |-> IF s \in W THEN via ELSE acc.rt[s]]]

Routes(r) ==
  LET visit(acc, p) ==
        FoldLeft(LAMBDA a, i : Install(r, a, i, Via(r, p.hop)), acc, Routed(r, p))
  IN FoldLeft(visit, [ok |-> TRUE, rt |-> rtable[r]], Visits(r))

Spf(r) ==
  /\ r \in network.routing
  /\ LET new == Routes(r)
     IN IF new.ok
        THEN rtable' = [rtable EXCEPT ![r] = new.rt] /\ UNCHANGED <<crashed, net>>
        ELSE /\ crashed' = crashed \cup {r}
             /\ net' = [c \in Channel |-> IF r = c[2] THEN <<>> ELSE net[c]]
             /\ UNCHANGED rtable
  /\ UNCHANGED <<network, down, nbrs, seq, db>>

(***************************************************************************)
(* A link goes down, with what is on it, and may come back.                *)
(***************************************************************************)
LinkDown(l) ==
  /\ l \in network.failing
  /\ down' = down \cup {l}
  /\ network' = [network EXCEPT !.failing = @ \ {l}]
  /\ net' = [c \in Channel |-> IF {c[1], c[2]} = l THEN <<>> ELSE net[c]]
  /\ UNCHANGED <<crashed, nbrs, seq, db, rtable>>

LinkUp(l) ==
  /\ l \in down
  /\ down' = down \ {l}
  /\ UNCHANGED <<network, crashed, nbrs, seq, db, rtable, net>>

Init ==
  /\ network \in Network
  /\ down = {} /\ crashed = {}
  /\ nbrs = [r \in Router |-> {}]
  /\ seq = [r \in Router |-> 0]
  /\ db = [r \in Router |-> <<>>]
  /\ rtable = [r \in Router |-> [s \in Subnet |-> IF r \in s THEN Direct ELSE NoRoute]]
  /\ net = [c \in Channel |-> <<>>]

Gossip ==
  \E r \in Router :
    \/ \E s \in Router : HandleHello(r, s) \/ NbrTimeout(r, s) \/ HandleLsu(r, s) \/ DbTimeout(r, s)
    \/ PeriodicLsu(r)

\* bound: what the others do after a crash is not followed
Next ==
  /\ crashed = {}
  /\ \/ Gossip
     \/ \E r \in Router : Spf(r)
     \/ \E l \in Link : LinkDown(l) \/ LinkUp(l)

Spec == Init /\ [][Next]_vars
FairSpec == Spec /\ WF_vars(crashed = {} /\ Gossip)
-----------------------------------------------------------------------------
Lsa == [subnet : SUBSET Router, rid : Router \cup {0}]
TypeOK ==
  /\ down \subseteq Link /\ crashed \subseteq Router
  /\ nbrs \in [Router -> SUBSET Router]
  /\ seq \in [Router -> Nat]
  /\ \A r \in Router : \A i \in DOMAIN db[r] :
       db[r][i].rid \in Router /\ db[r][i].seq \in Nat /\ db[r][i].lsa \subseteq Lsa
  /\ \A r \in Router : rtable[r] \in [Subnet -> Router \cup {Direct, NoRoute}]

\* r knows all routers it can reach, and each says what is so
Accurate(r) ==
  /\ \A s \in Component(r) : nbrs[s] = {t \in Router : Joined(s, t)}
  /\ \A o \in Component(r) \ {r} : \E i \in Entry(r, o) : db[r][i].lsa = Adverts(o, nbrs[o])
  /\ \A i \in DOMAIN db[r] : db[r][i].rid \in Component(r)

\* the routers next to each other by the database of r, which r itself is not in
Adjacent(r) ==
  {<<db[r][e[1]].rid, db[r][e[2]].rid>> : e \in {e \in Node(r) \X Node(r) : Edge(r, e[1], e[2])}}

Known(r) == {s \in nbrs[r] : Entry(r, s) # {}}

(***************************************************************************)
(* The ways from r with up to k links: <<g, o>> is one to o that has the   *)
(* neighbour g as its first router.                                        *)
(***************************************************************************)
Ways(r, k) ==
  LET adjacent == Adjacent(r)
      Longer(w) == IF w = <<r, r>> THEN {<<g, g>> : g \in Known(r)}
                   ELSE {<<w[1], e[2]>> : e \in {e \in adjacent : e[1] = w[2]}}
  IN Within(k, <<r, r>>, Longer)
WaysTo(r, o, k) == {w \in Ways(r, k) : w[2] = o}

\* how far it is to o, and the neighbours with a way as short
Far(r, o) == Min({k \in 1..All : WaysTo(r, o, k) # {}})
Nearest(r, o) == LET k == Far(r, o) IN {w[1] : w \in WaysTo(r, o, k)}

\* neighbours know of each other, and there is a way to whatever r has an entry of
Consistent(r) ==
  /\ \A s \in Known(r) : \E i \in Entry(r, s) : Lists(r, i, r)
  /\ \A i \in Node(r) : \E w \in Ways(r, All) : w[2] = db[r][i].rid

(***************************************************************************)
(* The entry of o gets the route to a router farther away, whose entry j   *)
(* is before it: k has been set to h, the neighbour on the way to j, and   *)
(* is at j again when the list is at o.  This takes four entries at least. *)
(***************************************************************************)
Reused(r, o) ==
  \E h, j, i \in Node(r) :
    /\ h < j /\ j < i /\ db[r][i].rid = o
    /\ Far(r, o) < Far(r, db[r][j].rid)
    /\ db[r][h].rid \in Nearest(r, db[r][j].rid)
    /\ (i - j) % (j - h + 1) = 0

(***************************************************************************)
(* Whatever routes there were before, spf_thread leaves the routes to the  *)
(* hosts of each router in its database that are the shortest by that      *)
(* database, up to date or not, and does not crash; provided neighbours    *)
(* know of each other and nothing in the database is out of reach, and but *)
(* for routes that the reused index k takes from other routers.            *)
(***************************************************************************)
SpfShortest ==
  /\ TypeOK
  /\ \A r \in network.routing : Consistent(r) =>
       LET new == Routes(r)
       IN /\ new.ok
          /\ \A i \in Node(r) : LET o == db[r][i].rid IN
               {o} \in Subnet => new.rt[{o}] \in Nearest(r, o) \/ Reused(r, o)

\* a router has lost its route to a subnet it is on
Misled == \E r \in Router : \E s \in Iface(r) : rtable[r][s] # Direct

(***************************************************************************)
(* What a database says of a router is never replaced by something that    *)
(* router said before, although LSUs overtake each other on other paths.   *)
(***************************************************************************)
NeverOlder ==
  [][\A r, o \in Router : \A i \in Entry(r, o), j \in DOMAIN db'[r] :
       db'[r][j].rid = o => db'[r][j].seq >= db[r][i].seq]_vars

(***************************************************************************)
(* When links no longer fail, in the end all databases are accurate for    *)
(* good, so that each further pass of spf_thread sees the network as it    *)
(* is; unless a router has crashed or lost the route to a subnet of its    *)
(* own.                                                                    *)
(***************************************************************************)
Settled == <>[](crashed # {} \/ Misled \/ \A r \in Router : Accurate(r))
=============================================================================
