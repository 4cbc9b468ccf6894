------------------------------- MODULE Router -------------------------------
(***************************************************************************)
(* The router of 08-router: packets of hosts are forwarded, answered or    *)
(* reported to their source.  What goes out waits in a request until its   *)
(* next hop has told its MAC address, or has been asked often enough.      *)
(*                                                                         *)
(* Two threads: the one that handles what arrives, and the sweep.  Each    *)
(* section under arpcache.lock is an action.  The sweep lets go of the     *)
(* lock for each packet it reports and goes on with the pointers it has    *)
(* saved; a request they lead to may have been answered, and freed, by     *)
(* then.  A next hop is reached through one interface, so a request is     *)
(* identified by it.                                                       *)
(***************************************************************************)
EXTENDS Naturals, Sequences, FiniteSets

CONSTANTS
  Packet,    \* packets that hosts send
  Src, Dst,  \* their addresses
  Ttl,
  Echo,      \* those that are ICMP echo requests
  Host,      \* addresses that may answer an ARP request; the router's own never do
  Device,    \* the address of each network device of the node
  Kernel,    \* its routes: records [dst: addresses, len: of the prefix, gw: or None, oif: a device]
  MAX_ARP_SIZE, ARP_ENTRY_TIMEOUT, ARP_REQUEST_MAX_RETRIES,
  None

VARIABLES
  entries,     \* the table: an address and its age, or None
  req_list,    \* requests: ip4, seconds since sent, retries, cached_packets
  main,        \* the message whose next hop was not found, or None
  sweeper,     \* where the sweep is
  handled,     \* packets that have arrived
  fate,        \* what became of each packet: sent, answered, reported, lost
  unanswered,  \* history: requests to an address since it last spoke
  misused      \* the sweep has followed a pointer to freed memory
vars == <<entries, req_list, main, sweeper, handled, fate, unanswered, misused>>

Slot == 1..MAX_ARP_SIZE

\* the interfaces: init_all_ifaces takes the devices that are named as mininet does
Iface == {d \in DOMAIN Device : d # "lo"}
Own == {Device[i] : i \in Iface}

Addresses == {Src[p] : p \in Packet} \cup {Dst[p] : p \in Packet} \cup Own

(***************************************************************************)
(* load_rtable_from_kernel, in the order of the kernel; a route through    *)
(* another device is left out.                                             *)
(***************************************************************************)
Rtable == {i \in DOMAIN Kernel : Kernel[i].oif \in Iface}

\* longest_prefix_match, the first of the longest: see Lookup
Matches(dst) == {i \in Rtable : dst \in Kernel[i].dst}
Longest(dst) ==
  CHOOSE i \in Matches(dst) : \A j \in Matches(dst) :
    Kernel[j].len < Kernel[i].len \/ (Kernel[j].len = Kernel[i].len /\ i <= j)

\* the next hop for dst, and the address of the interface to it
Route == [dst \in Addresses |->
  IF Matches(dst) = {} THEN None
  ELSE IF Kernel[Longest(dst)].gw # None THEN Kernel[Longest(dst)].gw ELSE dst]
Via == [dst \in Addresses |-> IF Matches(dst) = {} THEN None ELSE Device[Kernel[Longest(dst)].oif]]
Hops == {Route[d] : d \in Addresses} \ {None}

Known(h) == \E i \in Slot : entries[i] # None /\ entries[i].ip4 = h
More(n, max) == IF n < max THEN n + 1 ELSE n

\* one that is forwarded, and one that the router sends about another
Forwarded(p) == [about |-> p, src |-> Src[p], dst |-> Dst[p]]
IcmpTo(dst) == [about |-> None, src |-> Via[dst], dst |-> dst]

Message == [about : Packet \cup {None}, src : Addresses \cup {None}, dst : Addresses]

ASSUME AddressAssumption ==
  None \notin Packet /\ None \notin Host /\ None \notin Message /\ Host \cap Own = {}
ASSUME RouteAssumption ==
  /\ Kernel \in Seq({Kernel[i] : i \in DOMAIN Kernel})
  /\ \A i \in DOMAIN Kernel : Kernel[i].len \in 0..32
ASSUME BoundAssumption ==
  MAX_ARP_SIZE \in Nat /\ ARP_ENTRY_TIMEOUT \in Nat /\ ARP_REQUEST_MAX_RETRIES \in Nat

With(f, ms, what) == [p \in Packet |-> IF \E m \in ms : m.about = p THEN f[p] \cup {what} ELSE f[p]]
SetOf(s) == {s[i] : i \in DOMAIN s}

Request(ip4) == {i \in DOMAIN req_list : req_list[i].ip4 = ip4}
Without(i) == SubSeq(req_list, 1, i - 1) \o SubSeq(req_list, i + 1, Len(req_list))

(***************************************************************************)
(* arpcache_append_packet.  No request is sent yet: the sweep does that.   *)
(***************************************************************************)
Queue(m) ==
  LET h == Route[m.dst]
  IN req_list' = IF Request(h) # {}
                 THEN [i \in DOMAIN req_list |->
                        IF i \in Request(h) THEN [req_list[i] EXCEPT !.pkts = Append(@, m)] ELSE req_list[i]]
                 ELSE Append(req_list, [ip4 |-> h, age |-> 0, retries |-> 0, pkts |-> <<m>>])

(***************************************************************************)
(* handle_ip_packet and ip_forward_packet, as far as the lookup of the     *)
(* next hop.  An address of the router other than that of the receiving    *)
(* interface is forwarded to like any other.                               *)
(***************************************************************************)
Answers(p) == p \in Echo /\ Dst[p] = Via[Src[p]]
Expired(p) == Ttl[p] - 1 = 0
Goes(p) == ~Answers(p) /\ ~Expired(p) /\ Route[Dst[p]] # None

\* ustack_run takes the next packet when it has handled the last
Receiving == main = None /\ ~misused

HandleIp(p) ==
  /\ Receiving /\ p \notin handled
  /\ handled' = handled \cup {p}
  /\ LET m == IF Goes(p) THEN Forwarded(p) ELSE IcmpTo(Src[p])
     IN /\ fate' = IF Goes(p) THEN IF Known(Route[m.dst]) THEN With(fate, {m}, "sent") ELSE fate
                   ELSE With(fate, {Forwarded(p)}, IF Answers(p) THEN "answered" ELSE "reported")
        /\ main' = IF Route[m.dst] = None \/ Known(Route[m.dst]) THEN None ELSE m
  /\ UNCHANGED <<entries, req_list, sweeper, unanswered, misused>>

AppendPacket ==
  /\ main # None /\ ~misused
  /\ Queue(main)
  /\ main' = None
  /\ UNCHANGED <<entries, sweeper, handled, fate, unanswered, misused>>

\* mutant: the requests stay that have been served
MutFlush(h) == req_list

\* the requests for h are freed
Flush(h) == IF Request(h) = {} THEN req_list ELSE Without(CHOOSE i \in Request(h) : TRUE)

\* arpcache_insert: a free slot, even if there is an entry for h, else any
Insert(h) ==
  \E i \in Slot :
    /\ \/ entries[i] = None /\ \A j \in 1..i - 1 : entries[j] # None
       \/ \A j \in Slot : entries[j] # None
    /\ entries' = [entries EXCEPT ![i] = [ip4 |-> h, age |-> 0]]

\* handle_arp_packet: an answer of h, or its question for the router
HandleArp(h) ==
  /\ Receiving
  /\ Insert(h)
  /\ fate' = With(fate, UNION {SetOf(req_list[i].pkts) : i \in Request(h)}, "sent")
  /\ req_list' = Flush(h)
  /\ sweeper' = [sweeper EXCEPT !.freed =
       IF Request(h) # {} THEN @ \cup ({h} \cap {sweeper.ip4, sweeper.next}) ELSE @]
  /\ unanswered' = [unanswered EXCEPT ![h] = 0]
  /\ UNCHANGED <<main, handled, misused>>

(***************************************************************************)
(* arpcache_sweep.                                                         *)
(***************************************************************************)
GivenUp(q) == q.retries > ARP_REQUEST_MAX_RETRIES
Due(q) == ~GivenUp(q) /\ q.age > 1

\* mutant: a request is sent again without counting
MutSentAgain(q) == [q EXCEPT !.age = 0]

SentAgain(q) == [q EXCEPT !.age = 0, !.retries = @ + 1]

\* mutant: counted and not sent
MutAsk(asked) == unanswered

Ask(asked) == [h \in DOMAIN unanswered |->
  IF h \in asked THEN More(unanswered[h], ARP_REQUEST_MAX_RETRIES + 1) ELSE unanswered[h]]

\* pkt_q and req_q, taken with request i of rs and its first packet
Asleep == [at |-> "asleep", ip4 |-> None, last |-> TRUE, next |-> None, msg |-> None, freed |-> {}]
Saved(rs, i) ==
  [at |-> "report", ip4 |-> rs[i].ip4, last |-> Len(rs[i].pkts) = 1,
   next |-> IF i < Len(rs) THEN rs[i + 1].ip4 ELSE None, msg |-> None, freed |-> {}]

\* the walk from request i of rs as far as the next that is given up
Walk(rs, i) ==
  LET stop == {j \in i..Len(rs) : GivenUp(rs[j]) /\ \A k \in i..j - 1 : ~GivenUp(rs[k])}
      end == IF stop = {} THEN Len(rs) + 1 ELSE CHOOSE j \in stop : TRUE
      due == {j \in i..end - 1 : Due(rs[j])}
  IN /\ req_list' = [j \in DOMAIN rs |-> IF j \in due THEN SentAgain(rs[j]) ELSE rs[j]]
     /\ unanswered' = Ask({rs[j].ip4 : j \in due})
     /\ sweeper' = IF stop = {} THEN Asleep ELSE Saved(rs, end)

Sweep ==
  /\ sweeper.at = "awake" /\ ~misused
  /\ entries' = [i \in Slot |->
       IF entries[i] # None /\ entries[i].age > ARP_ENTRY_TIMEOUT THEN None ELSE entries[i]]
  /\ Walk(req_list, 1)
  /\ UNCHANGED <<main, handled, fate, misused>>

\* the sweep does not see that what it points to is freed
Misuse ==
  /\ misused' = TRUE
  /\ UNCHANGED <<entries, req_list, main, sweeper, handled, fate, unanswered>>

Current == CHOOSE i \in Request(sweeper.ip4) : TRUE
Dangling == sweeper.ip4 \in sweeper.freed

\* icmp_send_packet of the first packet, as far as the lookup; without the lock
Report ==
  /\ sweeper.at = "report" /\ ~misused
  /\ \/ Dangling /\ Misuse
     \/ /\ ~Dangling
        /\ LET m == Head(req_list[Current].pkts)
               e == IcmpTo(m.src)
           IN /\ fate' = With(fate, {m}, "reported")
              /\ sweeper' = IF Route[e.dst] = None \/ Known(Route[e.dst])
                            THEN [sweeper EXCEPT !.at = "drop"]
                            ELSE [sweeper EXCEPT !.at = "append", !.msg = e]
        /\ UNCHANGED <<entries, req_list, main, handled, unanswered, misused>>

AppendReport ==
  /\ sweeper.at = "append" /\ ~misused
  /\ Queue(sweeper.msg)
  /\ sweeper' = [sweeper EXCEPT !.at = "drop", !.msg = None]
  /\ UNCHANGED <<entries, main, handled, fate, unanswered, misused>>

\* with the lock again: the packet is freed, and after the last one the
\* request, with all that has been added since
Drop ==
  /\ sweeper.at = "drop" /\ ~misused
  /\ \/ (Dangling \/ (sweeper.last /\ sweeper.next \in sweeper.freed)) /\ Misuse
     \/ /\ ~Dangling /\ ~sweeper.last
        /\ LET rest == Tail(req_list[Current].pkts)
           IN /\ req_list' = [req_list EXCEPT ![Current].pkts = rest]
              /\ sweeper' = [sweeper EXCEPT !.at = "report", !.last = Len(rest) = 1]
        /\ UNCHANGED <<entries, main, handled, fate, unanswered, misused>>
     \/ /\ ~Dangling /\ sweeper.last /\ sweeper.next \notin sweeper.freed
        /\ fate' = With(fate, SetOf(Tail(req_list[Current].pkts)), "lost")
        /\ LET rs == Without(Current)
           IN Walk(rs, IF sweeper.next = None THEN Len(rs) + 1 ELSE Current)
        /\ UNCHANGED <<entries, main, handled, misused>>

\* a second passes; the sweep sleeps for one, and what passes while it works
\* is seen by the next
Tick ==
  /\ sweeper.at \in {"asleep", "awake"} /\ ~misused
  /\ entries' = [i \in Slot |->
       IF entries[i] = None THEN None ELSE [entries[i] EXCEPT !.age = More(@, ARP_ENTRY_TIMEOUT + 1)]]
  /\ req_list' = [i \in DOMAIN req_list |-> [req_list[i] EXCEPT !.age = More(@, 2)]]
  /\ sweeper' = [sweeper EXCEPT !.at = "awake"]
  /\ UNCHANGED <<main, handled, fate, unanswered, misused>>

Init ==
  /\ entries = [i \in Slot |-> None] /\ req_list = <<>>
  /\ main = None /\ sweeper = Asleep
  /\ handled = {} /\ fate = [p \in Packet |-> {}]
  /\ unanswered = [h \in Hops |-> 0] /\ misused = FALSE

\* handle_packet, of the two types it knows
HandlePacket == (\E p \in Packet : HandleIp(p)) \/ \E h \in Host : HandleArp(h)

Main == AppendPacket
Sweeper == Sweep \/ Report \/ AppendReport \/ Drop
Next ==
  \/ HandlePacket
  \/ Main
  \/ Sweeper
  \/ Tick

\* the threads are not stopped, and time passes
Spec == Init /\ [][Next]_vars /\ WF_vars(Main) /\ WF_vars(Sweeper) /\ WF_vars(Tick)
-----------------------------------------------------------------------------
ArpCacheEntry == [ip4 : Host \ Own, age : 0..ARP_ENTRY_TIMEOUT + 1]
ArpReq == [ip4 : Hops, age : 0..2, retries : 0..ARP_REQUEST_MAX_RETRIES + 1, pkts : Seq(Message)]
TypeOK ==
  /\ entries \in [Slot -> ArpCacheEntry \cup {None}]
  /\ \A i \in DOMAIN req_list : req_list[i] \in ArpReq /\ req_list[i].pkts # <<>>
  /\ sweeper.at \in {"asleep", "awake", "report", "append", "drop"}

(***************************************************************************)
(* A packet is in one place, and one thing becomes of it: it is sent,      *)
(* answered, reported to its source, or lost.  Unless the request that is  *)
(* being reported has been answered meanwhile: the sweep then goes on with *)
(* freed memory.                                                           *)
(***************************************************************************)
Queues(p) == {x \in UNION {{i} \X DOMAIN req_list[i].pkts : i \in DOMAIN req_list} :
  req_list[x[1]].pkts[x[2]].about = p}
Reporting(p) == sweeper.at \in {"append", "drop"} /\ Request(sweeper.ip4) # {} /\ Head(req_list[Current].pkts).about = p
InHand(p) == p \notin handled \/ (main # None /\ main.about = p)

OneFate ==
  /\ TypeOK
  /\ misused \/ Dangling \/ \A p \in Packet :
       LET places == Cardinality(Queues(p)) + (IF InHand(p) THEN 1 ELSE 0) + Cardinality(fate[p])
       IN places = IF Reporting(p) THEN 2 ELSE 1

(***************************************************************************)
(* An address is given up only when more than ARP_REQUEST_MAX_RETRIES      *)
(* requests have gone out since it last spoke; and freed memory is used    *)
(* only where some address is given up.                                    *)
(***************************************************************************)
Silent(h) == unanswered[h] > ARP_REQUEST_MAX_RETRIES
OnlySilent ==
  /\ \A i \in DOMAIN req_list : req_list[i].retries <= unanswered[req_list[i].ip4]
  /\ sweeper.at \in {"report", "append", "drop"} =>
       Silent(sweeper.ip4) \/ Dangling

(***************************************************************************)
(* A packet that waits is sent, reported or lost in the end, unless freed  *)
(* memory is used, or the sweep is caught: it reports messages of the      *)
(* router about which it tells the router itself, and every report joins   *)
(* the list that it walks.                                                 *)
(***************************************************************************)
Caught ==
  /\ sweeper.at \in {"report", "append", "drop"} /\ ~sweeper.last /\ ~Dangling
  /\ \A m \in SetOf(req_list[Current].pkts) : Route[m.src] = sweeper.ip4
Settled == []<>(misused \/ Caught \/ \A p \in handled : fate[p] # {})
=============================================================================
