---------------------------- MODULE Mospf_proofs ----------------------------
(***************************************************************************)
(* Proofs about Mospf: in every network, whatever is lost, overtaken or    *)
(* flooded again, no database goes back to an older LSU of a router.       *)
(***************************************************************************)
EXTENDS Mospf, SequenceTheorems, TLAPS

Lsu == [rid : Router, seq : Nat, ttl : Int, lsa : SUBSET Lsa]
DbEntry == [rid : Router, seq : Nat, lsa : SUBSET Lsa]

\* the variables the databases depend on
Types ==
  /\ network \in [subnets : SUBSET (SUBSET Router), failing : SUBSET (SUBSET Router),
                  lsus : Nat, routing : SUBSET Router]
  /\ nbrs \in [Router -> SUBSET Router]
  /\ seq \in [Router -> Nat]
  /\ db \in [Router -> Seq(DbEntry)]
  /\ net \in [Channel -> Seq(Lsu)]

\* a database has one entry of a router
Once(list) == \A i, j \in DOMAIN list : list[i].rid = list[j].rid => i = j
OneEntry == \A r \in Router : Once(db[r])

IInv == Types /\ OneEntry

\* a list says nothing of a router that is older than what another says
NotOlder(new, list) ==
  \A i \in DOMAIN list, j \in DOMAIN new :
    new[j].rid = list[i].rid => new[j].seq >= list[i].seq

(***************************************************************************)
(* The two things that happen to a database                                *)
(***************************************************************************)
LEMMA EntriesOfList ==
  ASSUME NEW list \in Seq(DbEntry)
  PROVE  /\ Len(list) \in Nat /\ DOMAIN list = 1..Len(list)
         /\ \A i \in DOMAIN list : list[i] \in DbEntry /\ list[i].seq \in Nat
<1>1. /\ Len(list) \in Nat /\ DOMAIN list = 1..Len(list)
      /\ \A i \in 1..Len(list) : list[i] \in DbEntry
  BY LenProperties, ElementOfSeq
<1>2. \A d \in DbEntry : d.seq \in Nat
  BY DEF DbEntry
<1> QED
  BY <1>1, <1>2

LEMMA StoredProperties ==
  ASSUME NEW list \in Seq(DbEntry), Once(list), NEW m \in Lsu
  PROVE  /\ Stored(list, m) \in Seq(DbEntry)
         /\ Once(Stored(list, m))
         /\ NotOlder(Stored(list, m), list)
<1> DEFINE e == [rid |-> m.rid, seq |-> m.seq, lsa |-> m.lsa]
<1>1. e \in DbEntry /\ m.seq \in Nat
  BY DEF Lsu, DbEntry
<1>2. /\ Len(list) \in Nat /\ DOMAIN list = 1..Len(list)
      /\ \A i \in DOMAIN list : list[i] \in DbEntry /\ list[i].seq \in Nat
  BY EntriesOfList
<1>3. CASE \A i \in DOMAIN list : list[i].rid # m.rid
  <2>1. Stored(list, m) = Append(list, e)
    BY <1>3 DEF Stored
  <2>2. /\ Append(list, e) \in Seq(DbEntry)
        /\ DOMAIN Append(list, e) = 1..Len(list) + 1
        /\ \A i \in 1..Len(list) : Append(list, e)[i] = list[i]
        /\ Append(list, e)[Len(list) + 1] = e
    BY <1>1, <1>2, AppendProperties
  <2>3. e.rid = m.rid
    OBVIOUS
  <2> HIDE DEF e
  <2> QED
    BY <1>2, <1>3, <2>1, <2>2, <2>3 DEF Once, NotOlder
<1>4. CASE ~\A i \in DOMAIN list : list[i].rid # m.rid
  <2> DEFINE new == [i \in DOMAIN list |->
                       IF list[i].rid = m.rid /\ Newer(m, list[i]) THEN e ELSE list[i]]
  <2>1. Stored(list, m) = new
    BY <1>4 DEF Stored
  <2>2. DOMAIN new = 1..Len(list) /\ \A i \in DOMAIN new : new[i] \in DbEntry
    BY <1>1, <1>2
  <2>3. new \in Seq(DbEntry)
    BY <1>2, <2>2
  <2>4. \A i \in DOMAIN list : new[i].rid = list[i].rid /\ new[i].seq >= list[i].seq
    BY <1>1, <1>2 DEF Newer
  <2> HIDE DEF new
  <2> QED
    BY <1>2, <2>1, <2>2, <2>3, <2>4 DEF Once, NotOlder
<1> QED
  BY <1>3, <1>4

LEMMA RemoveAtProperties ==
  ASSUME NEW S, NEW list \in Seq(S), NEW k \in 1..Len(list)
  PROVE  /\ RemoveAt(list, k) \in Seq(S)
         /\ Len(RemoveAt(list, k)) = Len(list) - 1
         /\ \A j \in 1..Len(list) - 1 :
              RemoveAt(list, k)[j] = list[IF j < k THEN j ELSE j + 1]
<1> DEFINE n == Len(list)
           before == SubSeq(list, 1, k - 1)
           after == SubSeq(list, k + 1, n)
<1>1. n \in Nat /\ k \in 1..n
  BY LenProperties
<1>2. /\ before \in Seq(S) /\ Len(before) = k - 1
      /\ \A i \in 1..k - 1 : before[i] = list[i]
  BY <1>1, SubSeqProperties
<1>3. /\ after \in Seq(S) /\ Len(after) = n - k
      /\ \A i \in 1..n - k : after[i] = list[k + i]
  BY <1>1, SubSeqProperties
<1>4. RemoveAt(list, k) = before \o after
  BY DEF RemoveAt
<1> HIDE DEF n, before, after
<1>5. /\ before \o after \in Seq(S)
      /\ Len(before \o after) = Len(before) + Len(after)
      /\ \A j \in 1..Len(before) + Len(after) :
           (before \o after)[j] = IF j <= Len(before) THEN before[j] ELSE after[j - Len(before)]
  BY <1>2, <1>3, ConcatProperties
<1>6. Len(before) + Len(after) = n - 1
  BY <1>1, <1>2, <1>3
<1>7. ASSUME NEW j \in 1..n - 1
      PROVE  (before \o after)[j] = list[IF j < k THEN j ELSE j + 1]
  <2>1. CASE j < k
    BY <1>1, <1>2, <1>5, <1>6, <2>1
  <2>2. CASE ~(j < k)
    <3>1. j - Len(before) \in 1..n - k /\ k + (j - Len(before)) = j + 1
      BY <1>1, <1>2, <2>2
    <3> QED
      BY <1>1, <1>2, <1>3, <1>5, <1>6, <2>2, <3>1
  <2> QED
    BY <2>1, <2>2
<1> QED
  BY <1>4, <1>5, <1>6, <1>7 DEF n

LEMMA RemovedProperties ==
  ASSUME NEW list \in Seq(DbEntry), Once(list), NEW k \in DOMAIN list
  PROVE  /\ RemoveAt(list, k) \in Seq(DbEntry)
         /\ Once(RemoveAt(list, k))
         /\ NotOlder(RemoveAt(list, k), list)
<1> DEFINE n == Len(list)
           new == RemoveAt(list, k)
<1>1. /\ n \in Nat /\ k \in 1..n
      /\ DOMAIN list = 1..n
      /\ \A i \in 1..n : list[i] \in DbEntry /\ list[i].seq \in Nat
  BY EntriesOfList
<1>2. new \in Seq(DbEntry) /\ Len(new) = n - 1
  BY <1>1, RemoveAtProperties
<1> DEFINE at(j) == IF j < k THEN j ELSE j + 1
<1>3. \A j \in 1..n - 1 : new[j] = list[at(j)]
  BY <1>1, RemoveAtProperties
<1>4. DOMAIN new = 1..n - 1
  BY <1>1, <1>2, LenProperties
<1>5. /\ \A j \in 1..n - 1 : at(j) \in 1..n
      /\ \A i, j \in 1..n - 1 : at(i) = at(j) => i = j
  BY <1>1
<1> HIDE DEF n, new, at
<1>6. Once(new)
  BY <1>1, <1>3, <1>4, <1>5 DEF Once
<1>7. NotOlder(new, list)
  <2> SUFFICES ASSUME NEW i \in 1..n, NEW j \in 1..n - 1, new[j].rid = list[i].rid
               PROVE  new[j].seq >= list[i].seq
    BY <1>1, <1>4 DEF NotOlder
  <2>1. i = at(j)
    BY <1>1, <1>3, <1>5 DEF Once
  <2> QED
    BY <1>1, <1>3, <2>1
<1> QED
  BY <1>2, <1>6, <1>7 DEF new

(***************************************************************************)
(* What the actions do to the types                                        *)
(***************************************************************************)
LEMMA SendType ==
  ASSUME NEW q \in [Channel -> Seq(Lsu)], NEW lsu \in Lsu, NEW r, NEW N
  PROVE  Send(r, N, lsu, q) \in [Channel -> Seq(Lsu)]
<1>1. \A c \in Channel : q[c] \in Seq(Lsu) /\ Append(q[c], lsu) \in Seq(Lsu)
  BY AppendProperties
<1> QED
  BY <1>1 DEF Send

LEMMA AdvertsType ==
  ASSUME Types, NEW r \in Router, NEW N \in SUBSET Router
  PROVE  Adverts(r, N) \in SUBSET Lsa
<1>1. \A n \in N : [subnet |-> {r, n}, rid |-> n] \in Lsa
  BY DEF Lsa
<1>2. \A s \in Iface(r) : [subnet |-> s, rid |-> 0] \in Lsa
  BY DEF Types, Iface, Subnet, Lsa
<1> QED
  BY <1>1, <1>2 DEF Adverts

LEMMA SendLsuType ==
  ASSUME Types, NEW r \in Router, NEW N \in SUBSET Router, SendLsu(r, N)
  PROVE  seq' \in [Router -> Nat] /\ net' \in [Channel -> Seq(Lsu)]
<1> DEFINE lsu == [rid |-> r, seq |-> seq[r], ttl |-> MaxTtl, lsa |-> Adverts(r, N)]
<1>1. lsu \in Lsu
  <2>1. seq[r] \in Nat /\ MaxTtl \in Int
    BY TtlAssumption DEF Types
  <2> QED
    BY <2>1, AdvertsType DEF Lsu
<1>2. net' = Send(r, N, lsu, net)
  BY DEF SendLsu
<1>3. seq' \in [Router -> Nat]
  BY DEF SendLsu, Types
<1> HIDE DEF lsu
<1> QED
  BY <1>1, <1>2, <1>3, SendType DEF Types

LEMMA FloodType ==
  ASSUME Types, NEW r \in Router, NEW s \in Router, NEW m \in Lsu, net[<<s, r>>] # <<>>
  PROVE  Flood(r, s, m) \in [Channel -> Seq(Lsu)]
<1> DEFINE q == [net EXCEPT ![<<s, r>>] = Tail(@)]
<1>1. <<s, r>> \in Channel
  BY DEF Channel
<1>2. net[<<s, r>>] \in Seq(Lsu) /\ Tail(net[<<s, r>>]) \in Seq(Lsu)
  BY <1>1, HeadTailProperties DEF Types
<1>3. q \in [Channel -> Seq(Lsu)]
  BY <1>1, <1>2 DEF Types
<1> DEFINE less == [m EXCEPT !.ttl = @ - 1]
<1>4. less \in Lsu
  <2>1. m \in [rid : Router, seq : Nat, ttl : Int, lsa : SUBSET Lsa]
    BY DEF Lsu
  <2> QED
    BY <2>1 DEF Lsu
<1>5. Flood(r, s, m) = IF m.ttl - 1 > 0 THEN Send(r, nbrs[r] \ {s}, less, q)
                       ELSE q
  BY DEF Flood
<1> HIDE DEF q, less
<1> QED
  BY <1>3, <1>4, <1>5, SendType

(***************************************************************************)
(* A step changes no database, stores one LSU, or removes one entry.       *)
(***************************************************************************)
DbStep ==
  \/ UNCHANGED db
  \/ \E r \in Router, m \in Lsu : db' = [db EXCEPT ![r] = Stored(@, m)]
  \/ \E r \in Router : \E i \in DOMAIN db[r] : db' = [db EXCEPT ![r] = RemoveAt(@, i)]

\* the step types of everything but the databases
RestTypes ==
  /\ network' \in [subnets : SUBSET (SUBSET Router), failing : SUBSET (SUBSET Router),
                   lsus : Nat, routing : SUBSET Router]
  /\ nbrs' \in [Router -> SUBSET Router]
  /\ seq' \in [Router -> Nat]
  /\ net' \in [Channel -> Seq(Lsu)]

LEMMA HandleLsuStep ==
  ASSUME Types, NEW r \in Router, NEW s \in Router, HandleLsu(r, s)
  PROVE  DbStep /\ RestTypes
<1> DEFINE m == Head(net[<<s, r>>])
<1>1. net[<<s, r>>] # <<>> /\ UNCHANGED <<network, nbrs, seq>>
  BY DEF HandleLsu
<1>2. <<s, r>> \in Channel
  BY DEF Channel
<1>3. m \in Lsu /\ Tail(net[<<s, r>>]) \in Seq(Lsu)
  BY <1>1, <1>2, HeadTailProperties DEF Types
<1>4. CASE m.rid = r
  <2>1. UNCHANGED db /\ net' = [net EXCEPT ![<<s, r>>] = Tail(@)]
    BY <1>4 DEF HandleLsu
  <2>2. net' \in [Channel -> Seq(Lsu)]
    BY <1>2, <1>3, <2>1 DEF Types
  <2> QED
    BY <1>1, <2>1, <2>2 DEF DbStep, RestTypes, Types
<1>5. CASE m.rid # r
  <2>1. db' = [db EXCEPT ![r] = Stored(@, m)] /\ net' = Flood(r, s, m)
    BY <1>5 DEF HandleLsu
  <2> HIDE DEF m
  <2>2. net' \in [Channel -> Seq(Lsu)]
    BY <1>1, <1>3, <2>1, FloodType
  <2> QED
    BY <1>1, <1>3, <2>1, <2>2 DEF DbStep, RestTypes, Types
<1> QED
  BY <1>4, <1>5

LEMMA GossipStep ==
  ASSUME Types, Gossip
  PROVE  DbStep /\ RestTypes
<1>1. ASSUME NEW r \in Router, NEW s \in Router, HandleHello(r, s)
      PROVE  DbStep /\ RestTypes
  <2>1. /\ nbrs' = [nbrs EXCEPT ![r] = @ \cup {s}]
        /\ SendLsu(r, nbrs'[r])
        /\ UNCHANGED <<network, db>>
    BY <1>1 DEF HandleHello
  <2>2. nbrs' \in [Router -> SUBSET Router] /\ nbrs'[r] \in SUBSET Router
    BY <2>1 DEF Types
  <2>3. seq' \in [Router -> Nat] /\ net' \in [Channel -> Seq(Lsu)]
    BY <2>1, <2>2, SendLsuType
  <2> QED
    BY <2>1, <2>2, <2>3 DEF DbStep, RestTypes, Types
<1>2. ASSUME NEW r \in Router, NEW s \in Router, NbrTimeout(r, s)
      PROVE  DbStep /\ RestTypes
  <2>1. /\ nbrs' = [nbrs EXCEPT ![r] = @ \ {s}]
        /\ SendLsu(r, nbrs'[r])
        /\ UNCHANGED <<network, db>>
    BY <1>2 DEF NbrTimeout
  <2>2. nbrs' \in [Router -> SUBSET Router] /\ nbrs'[r] \in SUBSET Router
    BY <2>1 DEF Types
  <2>3. seq' \in [Router -> Nat] /\ net' \in [Channel -> Seq(Lsu)]
    BY <2>1, <2>2, SendLsuType
  <2> QED
    BY <2>1, <2>2, <2>3 DEF DbStep, RestTypes, Types
<1>3. ASSUME NEW r \in Router, PeriodicLsu(r)
      PROVE  DbStep /\ RestTypes
  <2>1. SendLsu(r, nbrs[r]) /\ UNCHANGED <<network, nbrs, db>>
    BY <1>3 DEF PeriodicLsu
  <2>2. seq' \in [Router -> Nat] /\ net' \in [Channel -> Seq(Lsu)]
    BY <2>1, SendLsuType DEF Types
  <2> QED
    BY <2>1, <2>2 DEF DbStep, RestTypes, Types
<1>4. ASSUME NEW r \in Router, NEW o \in Router, DbTimeout(r, o)
      PROVE  DbStep /\ RestTypes
  <2>1. PICK i \in DOMAIN db[r] : db' = [db EXCEPT ![r] = RemoveAt(@, i)]
    BY <1>4 DEF DbTimeout, Entry
  <2>2. UNCHANGED <<network, nbrs, seq, net>>
    BY <1>4 DEF DbTimeout
  <2> QED
    BY <2>1, <2>2 DEF DbStep, RestTypes, Types
<1> QED
  BY <1>1, <1>2, <1>3, <1>4, HandleLsuStep DEF Gossip

LEMMA NextStep ==
  ASSUME Types, [Next]_vars
  PROVE  DbStep /\ RestTypes
<1>1. CASE Gossip
  BY <1>1, GossipStep
<1>2. ASSUME NEW r \in Router, Spf(r)
      PROVE  DbStep /\ RestTypes
  <2>1. UNCHANGED <<network, nbrs, seq, db>>
    BY <1>2 DEF Spf
  <2>2. net' \in [Channel -> Seq(Lsu)]
    <3>1. net' = net \/ net' = [c \in Channel |-> IF r = c[2] THEN <<>> ELSE net[c]]
      BY <1>2 DEF Spf
    <3>2. net \in [Channel -> Seq(Lsu)] /\ <<>> \in Seq(Lsu)
      BY EmptySeq DEF Types
    <3> QED
      BY <3>1, <3>2
  <2> QED
    BY <2>1, <2>2 DEF DbStep, RestTypes, Types
<1>3. ASSUME NEW l \in Link, LinkDown(l)
      PROVE  DbStep /\ RestTypes
  <2>1. /\ UNCHANGED <<nbrs, seq, db>>
        /\ network' = [network EXCEPT !.failing = @ \ {l}]
        /\ net' = [c \in Channel |-> IF {c[1], c[2]} = l THEN <<>> ELSE net[c]]
    BY <1>3 DEF LinkDown
  <2>2. net' \in [Channel -> Seq(Lsu)]
    BY <2>1, EmptySeq DEF Types
  <2> QED
    BY <2>1, <2>2 DEF DbStep, RestTypes, Types
<1>4. ASSUME NEW l \in Link, LinkUp(l)
      PROVE  DbStep /\ RestTypes
  BY <1>4 DEF LinkUp, DbStep, RestTypes, Types
<1>5. CASE UNCHANGED vars
  BY <1>5 DEF vars, DbStep, RestTypes, Types
<1> QED
  BY <1>1, <1>2, <1>3, <1>4, <1>5 DEF Next

(***************************************************************************)
(* The invariant, and the property                                         *)
(***************************************************************************)
LEMMA DbStepProperties ==
  ASSUME IInv, DbStep
  PROVE  /\ db' \in [Router -> Seq(DbEntry)]
         /\ \A r \in Router : Once(db'[r]) /\ NotOlder(db'[r], db[r])
<1>1. /\ db \in [Router -> Seq(DbEntry)]
      /\ \A r \in Router : db[r] \in Seq(DbEntry) /\ Once(db[r])
  BY DEF IInv, Types, OneEntry
<1>2. ASSUME NEW r \in Router
      PROVE  NotOlder(db[r], db[r])
  <2>1. \A i, j \in DOMAIN db[r] : db[r][i].rid = db[r][j].rid => i = j
    BY <1>1 DEF Once
  <2>2. \A i \in DOMAIN db[r] : db[r][i].seq \in Nat
    BY <1>1, EntriesOfList
  <2> QED
    BY <2>1, <2>2 DEF NotOlder
<1>3. CASE UNCHANGED db
  BY <1>1, <1>2, <1>3
<1>4. ASSUME NEW r \in Router, NEW new \in Seq(DbEntry), Once(new), NotOlder(new, db[r]),
             db' = [db EXCEPT ![r] = new]
      PROVE  /\ db' \in [Router -> Seq(DbEntry)]
             /\ \A s \in Router : Once(db'[s]) /\ NotOlder(db'[s], db[s])
  <2>1. db' \in [Router -> Seq(DbEntry)]
    BY <1>1, <1>4
  <2>2. \A s \in Router : db'[s] = IF s = r THEN new ELSE db[s]
    BY <1>1, <1>4
  <2> QED
    BY <1>1, <1>2, <1>4, <2>1, <2>2
<1>5. ASSUME NEW r \in Router, NEW m \in Lsu, db' = [db EXCEPT ![r] = Stored(@, m)]
      PROVE  /\ db' \in [Router -> Seq(DbEntry)]
             /\ \A s \in Router : Once(db'[s]) /\ NotOlder(db'[s], db[s])
  BY <1>1, <1>4, <1>5, StoredProperties
<1>6. ASSUME NEW r \in Router, NEW i \in DOMAIN db[r], db' = [db EXCEPT ![r] = RemoveAt(@, i)]
      PROVE  /\ db' \in [Router -> Seq(DbEntry)]
             /\ \A s \in Router : Once(db'[s]) /\ NotOlder(db'[s], db[s])
  BY <1>1, <1>4, <1>6, RemovedProperties
<1> QED
  BY <1>3, <1>5, <1>6 DEF DbStep

LEMMA InitIInv == Init => IInv
<1> SUFFICES ASSUME Init PROVE IInv
  OBVIOUS
<1>1. network \in [subnets : SUBSET (SUBSET Router), failing : SUBSET (SUBSET Router),
                  lsus : Nat, routing : SUBSET Router]
  BY NetworkAssumption DEF Init
<1>2. /\ nbrs \in [Router -> SUBSET Router] /\ seq \in [Router -> Nat]
      /\ db \in [Router -> Seq(DbEntry)] /\ net \in [Channel -> Seq(Lsu)]
  BY EmptySeq DEF Init
<1>3. OneEntry
  BY DEF Init, OneEntry, Once
<1> QED
  BY <1>1, <1>2, <1>3 DEF IInv, Types

LEMMA NextIInv == IInv /\ [Next]_vars => IInv'
<1> SUFFICES ASSUME IInv, [Next]_vars PROVE IInv'
  OBVIOUS
<1>1. DbStep /\ RestTypes
  BY NextStep DEF IInv
<1>2. db' \in [Router -> Seq(DbEntry)] /\ \A r \in Router : Once(db'[r])
  BY <1>1, DbStepProperties
<1> QED
  BY <1>1, <1>2 DEF IInv, Types, RestTypes, OneEntry

LEMMA Invariance == Spec => []IInv
BY InitIInv, NextIInv, PTL DEF Spec

(* A database has one entry of each router, whatever LSUs come: the scan   *)
(* of handle_mospf_lsu finds the entry there is.                           *)
THEOREM EntriesAreUnique == Spec => []OneEntry
<1>1. IInv => OneEntry
  BY DEF IInv
<1> QED
  BY <1>1, Invariance, PTL

(* An entry is replaced by a newer one or removed, never by an older one.  *)
THEOREM NeverReplacedByOlder == Spec => NeverOlder
<1> DEFINE Step == \A r, o \in Router : \A i \in Entry(r, o), j \in DOMAIN db'[r] :
                     db'[r][j].rid = o => db'[r][j].seq >= db[r][i].seq
<1>1. IInv /\ [Next]_vars => [Step]_vars
  <2> SUFFICES ASSUME IInv, [Next]_vars PROVE Step
    OBVIOUS
  <2>1. \A r \in Router : NotOlder(db'[r], db[r])
    BY NextStep, DbStepProperties DEF IInv
  <2> QED
    BY <2>1 DEF Entry, NotOlder
<1> HIDE DEF Step
<1>2. Spec => [][Step]_vars
  BY <1>1, Invariance, PTL DEF Spec
<1> QED
  BY <1>2 DEF NeverOlder, Step
=============================================================================
