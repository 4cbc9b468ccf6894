-------------------------- MODULE ArpCache_proofs --------------------------
(***************************************************************************)
(* For any number of packets, hosts and slots, and any limits: the types   *)
(* of the ARP cache are right, an address has one request, and each packet *)
(* is in exactly one place.                                                *)
(*                                                                         *)
(* The last needs the other two: an answer removes the requests of one     *)
(* address and sends their packets, and these are in no other request only *)
(* because a packet waits under its own next hop.  The sweep replaces      *)
(* pkt_list, and loses nothing because it has reported all of it before.   *)
(***************************************************************************)
EXTENDS ArpCache, TLAPS

AllReported == sweeper # "reporting" => pkt_list = {}

IInv == TypeOK /\ OneRequest /\ ExactlyOnce /\ AllReported

-----------------------------------------------------------------------------
(* The values of the table are entries whatever slot is overwritten.       *)
LEMMA NoEntryType == NoEntry \in Entry /\ NoEntry.mac \in Mac
  <1>1. (CHOOSE h \in Host : TRUE) \in Host /\ (CHOOSE m \in Mac : TRUE) \in Mac
    BY LimitAssumption
  <1> QED
    BY <1>1, LimitAssumption DEF NoEntry, Entry

LEMMA NewEntryType == \A h \in Host, m \in Mac : NewEntry(h, m) \in Entry
  BY LimitAssumption DEF NewEntry, Entry

(* A counter that saturates stays in its range.                            *)
LEMMA OneMoreType ==
  ASSUME NEW max \in Nat, NEW n \in 0 .. max
  PROVE  OneMore(n, max) \in 0 .. max
  BY DEF OneMore

LEMMA AskType ==
  ASSUME TypeOK, NEW hosts, Ask(hosts)
  PROVE  unanswered' \in [Host -> 0 .. ARP_REQUEST_MAX_RETRIES]
  <1>1. \A h \in Host : OneMore(unanswered[h], ARP_REQUEST_MAX_RETRIES) \in 0 .. ARP_REQUEST_MAX_RETRIES
    BY OneMoreType, LimitAssumption DEF TypeOK
  <1> QED
    BY <1>1 DEF Ask, TypeOK

-----------------------------------------------------------------------------
LEMMA InitIInv == Init => IInv
  <1> SUFFICES ASSUME Init PROVE IInv
    OBVIOUS
  <1>1. TypeOK
    BY NoEntryType, LimitAssumption DEF Init, TypeOK
  <1>2. OneRequest /\ ExactlyOnce /\ AllReported
    BY DEF Init, OneRequest, ExactlyOnce, AllReported, InHand, Queued
  <1> QED
    BY <1>1, <1>2 DEF IInv

(* The steps of a thread that sends, up to where it lets go of the packet. *)
LEMMA LookupIInv ==
  ASSUME IInv, NEW p \in Packet, Lookup(p)
  PROVE  IInv'
  <1> USE DEF Lookup
  <1>1. TypeOK'
    BY DEF IInv, TypeOK
  <1>2. InHand' = InHand /\ Queued' = Queued
    BY DEF IInv, TypeOK, InHand, Queued
  <1>3. OneRequest' /\ ExactlyOnce' /\ AllReported'
    BY <1>2 DEF IInv, OneRequest, ExactlyOnce, AllReported
  <1> QED
    BY <1>1, <1>3 DEF IInv

LEMMA SendFoundIInv ==
  ASSUME IInv, NEW p \in Packet, SendFound(p)
  PROVE  IInv'
  <1> USE DEF SendFound
  <1>1. TypeOK'
    BY DEF IInv, TypeOK
  <1>2. p \in InHand /\ InHand' = InHand \ {p} /\ Queued' = Queued
    BY DEF IInv, TypeOK, InHand, Queued
  <1>3. ExactlyOnce'
    BY <1>2 DEF IInv, ExactlyOnce
  <1>4. OneRequest' /\ AllReported'
    BY DEF IInv, OneRequest, AllReported
  <1> QED
    BY <1>1, <1>3, <1>4 DEF IInv

LEMMA SendRequestIInv ==
  ASSUME IInv, NEW p \in Packet, SendRequest(p)
  PROVE  IInv'
  <1> USE DEF SendRequest
  <1>1. TypeOK'
    BY AskType DEF IInv, TypeOK
  <1>2. InHand' = InHand /\ Queued' = Queued
    BY DEF IInv, TypeOK, InHand, Queued
  <1>3. OneRequest' /\ ExactlyOnce' /\ AllReported'
    BY <1>2 DEF IInv, OneRequest, ExactlyOnce, AllReported
  <1> QED
    BY <1>1, <1>3 DEF IInv

(* The packet joins the request of its next hop, or gets one that is new.  *)
LEMMA AppendIInv ==
  ASSUME IInv, NEW p \in Packet, Append(p)
  PROVE  IInv'
  <1>0. p \in InHand /\ InHand' = InHand \ {p}
    BY DEF Append, IInv, TypeOK, InHand, Join, Create
  <1>1. CASE Join(p)
    <2> DEFINE Joined(q) == IF q.ip4 = To[p] THEN WithPacket(q, p) ELSE q
    <2>1. req_list' = {Joined(q) : q \in req_list}
      BY <1>1 DEF Join
    <2>2. \A q \in req_list :
            /\ Joined(q) \in Request
            /\ Joined(q).ip4 = q.ip4
            /\ Joined(q).cached_packets =
                 IF q.ip4 = To[p] THEN q.cached_packets \cup {p} ELSE q.cached_packets
      BY DEF IInv, TypeOK, Request, WithPacket
    <2> HIDE DEF Joined
    <2>3. TypeOK'
      BY <1>1, <2>1, <2>2 DEF Append, IInv, TypeOK, Join
    <2>4. OneRequest'
      <3>1. \A q, r \in req_list : Joined(q).ip4 = Joined(r).ip4 => Joined(q) = Joined(r)
        <4> TAKE q, r \in req_list
        <4> HAVE Joined(q).ip4 = Joined(r).ip4
        <4>1. q.ip4 = r.ip4
          BY <2>2
        <4>2. q = r
          BY <4>1 DEF IInv, OneRequest
        <4> QED
          BY <4>2
      <3>2. \A q \in req_list : \A x \in Joined(q).cached_packets : To[x] = Joined(q).ip4
        BY <2>2 DEF IInv, OneRequest
      <3> QED
        BY <2>1, <3>1, <3>2 DEF OneRequest
    <2>5. Queued' = Queued \cup {p}
      <3>1. PICK r \in req_list : r.ip4 = To[p]
        BY <1>1 DEF Join, Waiting
      <3>2. \A x : x \in Queued' <=> \E q \in req_list : x \in Joined(q).cached_packets
        BY <2>1 DEF Queued
      <3>3. \A x : x \in Queued <=> \E q \in req_list : x \in q.cached_packets
        BY DEF Queued
      <3> QED
        BY <2>2, <3>1, <3>2, <3>3
    <2>6. ExactlyOnce'
      BY <1>0, <2>5 DEF Append, IInv, ExactlyOnce
    <2> QED
      BY <2>3, <2>4, <2>6 DEF Append, IInv, AllReported
  <1>2. CASE Create(p)
    <2>1. To[p] \in Host
      BY NextHopAssumption
    <2>2. NewRequest(p) \in Request
      BY <2>1, LimitAssumption DEF NewRequest, Request
    <2>3. TypeOK'
      BY <1>2, <2>2 DEF Append, IInv, TypeOK, Create
    <2>4. OneRequest'
      <3>1. /\ req_list' = req_list \cup {NewRequest(p)}
            /\ \A q \in req_list : q.ip4 # To[p]
        BY <1>2 DEF Create, Waiting
      <3>2. NewRequest(p).ip4 = To[p] /\ NewRequest(p).cached_packets = {p}
        BY DEF NewRequest
      <3> DEFINE new == NewRequest(p)
      <3> HIDE DEF new
      <3>3. \A q \in req_list : q.ip4 # new.ip4
        BY <3>1, <3>2 DEF new
      <3>4. \A x \in new.cached_packets : To[x] = new.ip4
        BY <3>2 DEF new
      <3>5. req_list' = req_list \cup {new}
        BY <3>1 DEF new
      <3>6. \A q, r \in req_list' : q.ip4 = r.ip4 => q = r
        BY <3>3, <3>5 DEF IInv, OneRequest
      <3>7. \A q \in req_list' : \A x \in q.cached_packets : To[x] = q.ip4
        BY <3>4, <3>5 DEF IInv, OneRequest
      <3> QED
        BY <3>6, <3>7 DEF OneRequest
    <2>5. Queued' = Queued \cup {p}
      <3>1. req_list' = req_list \cup {NewRequest(p)}
        BY <1>2 DEF Create
      <3>2. NewRequest(p).cached_packets = {p}
        BY DEF NewRequest
      <3>3. \A x : x \in Queued <=> \E q \in req_list : x \in q.cached_packets
        BY DEF Queued
      <3>4. \A x : x \in Queued' <=> \E q \in req_list' : x \in q.cached_packets
        BY DEF Queued
      <3>5. \A x : x \in Queued' <=> x \in Queued \/ x = p
        BY <3>1, <3>2, <3>3, <3>4
      <3> QED
        BY <3>5
    <2>6. ExactlyOnce'
      BY <1>0, <2>5 DEF Append, IInv, ExactlyOnce
    <2> QED
      BY <2>3, <2>4, <2>6 DEF Append, IInv, AllReported
  <1> QED
    BY <1>1, <1>2 DEF Append

(* What waits for h is sent, and nothing of it waits elsewhere.            *)
LEMMA HandleArpIInv ==
  ASSUME IInv, NEW h \in Host, NEW m \in Mac, HandleArp(h, m)
  PROVE  IInv'
  <1> USE DEF HandleArp
  <1>1. entries' \in [Slot -> Entry]
    <2>1. NewEntry(h, m) \in Entry
      BY NewEntryType
    <2>2. entries \in [Slot -> Entry]
      BY DEF IInv, TypeOK
    <2>3. Refresh(h, m) => entries' \in [Slot -> Entry]
      BY <2>1, <2>2 DEF Refresh
    <2>4. Overwrite(h, m) => entries' \in [Slot -> Entry]
      BY <2>1, <2>2 DEF Overwrite
    <2> QED
      BY <2>2, <2>3, <2>4 DEF Insert, WriteBeforeArray
  <1> DEFINE Served == UNION {q.cached_packets : q \in Waiting(h)}
  <1>2. Served \subseteq Packet
    BY DEF IInv, TypeOK, Request, Waiting
  <1>3. TypeOK'
    BY <1>1, <1>2, LimitAssumption DEF IInv, TypeOK, Flush
  <1>4. OneRequest'
    BY DEF IInv, OneRequest, Flush
  <1>5. Queued = Queued' \cup Served
    BY DEF Queued, Flush, Waiting
  <1>6. Queued' \cap Served = {}
    BY DEF IInv, OneRequest, Queued, Flush, Waiting
  <1>7. sent' = sent \cup Served /\ InHand' = InHand
    BY DEF Flush, InHand
  <1> HIDE DEF Served
  <1>8. ExactlyOnce'
    BY <1>5, <1>6, <1>7 DEF IInv, ExactlyOnce
  <1> QED
    BY <1>3, <1>4, <1>8 DEF IInv, AllReported

(* The packets of the requests given up move to pkt_list, which was empty. *)
LEMMA SweepIInv ==
  ASSUME IInv, Sweep
  PROVE  IInv'
  <1> DEFINE Kept(q) == IF q \in Again THEN SentAgain(q) ELSE q
  <1>1. req_list' = {Kept(q) : q \in req_list \ GivenUp}
    BY DEF Sweep
  <1>2. \A q \in req_list :
          /\ Kept(q) \in Request
          /\ Kept(q).ip4 = q.ip4
          /\ Kept(q).cached_packets = q.cached_packets
    BY LimitAssumption DEF IInv, TypeOK, Request, Again, SentAgain
  <1> HIDE DEF Kept
  <1>3. TypeOK'
    <2>1. entries' \in [Slot -> Entry]
      BY NoEntryType DEF Sweep, IInv, TypeOK, Expire
    <2>2. pkt_list' \subseteq Packet
      BY DEF Sweep, IInv, TypeOK, Request, GivenUp
    <2>3. req_list' \subseteq Request
      BY <1>1, <1>2
    <2> QED
      BY <2>1, <2>2, <2>3, AskType DEF Sweep, IInv, TypeOK
  <1>4. OneRequest'
    BY <1>1, <1>2 DEF IInv, OneRequest, GivenUp
  <1>5. Queued' = UNION {q.cached_packets : q \in req_list \ GivenUp}
    BY <1>1, <1>2 DEF Queued
  <1>6. Queued = Queued' \cup pkt_list'
    BY <1>5 DEF Sweep, Queued, GivenUp
  <1>7. Queued' \cap pkt_list' = {}
    BY <1>5 DEF Sweep, IInv, OneRequest, GivenUp
  <1>8. pkt_list = {} /\ InHand' = InHand
    BY DEF Sweep, IInv, AllReported, InHand
  <1>9. ExactlyOnce'
    BY <1>6, <1>7, <1>8 DEF Sweep, IInv, ExactlyOnce
  <1> QED
    BY <1>3, <1>4, <1>9 DEF Sweep, IInv, AllReported

LEMMA ReportIInv ==
  ASSUME IInv, NEW p \in Packet, Report(p)
  PROVE  IInv'
  <1> USE DEF Report
  <1>1. TypeOK'
    BY DEF IInv, TypeOK
  <1>2. InHand' = InHand /\ Queued' = Queued
    BY DEF InHand, Queued
  <1>3. ExactlyOnce'
    BY <1>2 DEF IInv, ExactlyOnce
  <1>4. OneRequest' /\ AllReported'
    BY DEF IInv, OneRequest, AllReported
  <1> QED
    BY <1>1, <1>3, <1>4 DEF IInv

LEMMA SleepIInv ==
  ASSUME IInv, Sleep
  PROVE  IInv'
  BY DEF Sleep, IInv, TypeOK, OneRequest, ExactlyOnce, AllReported, InHand, Queued

(* A second changes ages only.                                             *)
LEMMA TickIInv ==
  ASSUME IInv, Tick
  PROVE  IInv'
  <1> USE DEF Tick
  <1> DEFINE Older(q) == [q EXCEPT !.age = OneMore(@, ARP_REQUEST_MAX_RETRIES)]
  <1>1. req_list' = {Older(q) : q \in req_list}
    OBVIOUS
  <1>2. \A q \in req_list :
          /\ Older(q) \in Request
          /\ Older(q).ip4 = q.ip4
          /\ Older(q).cached_packets = q.cached_packets
    <2> TAKE q \in req_list
    <2>1. q \in Request
      BY DEF IInv, TypeOK
    <2>2. OneMore(q.age, ARP_REQUEST_MAX_RETRIES) \in 0 .. ARP_REQUEST_MAX_RETRIES
      BY <2>1, OneMoreType, LimitAssumption DEF Request
    <2> QED
      BY <2>1, <2>2 DEF Request
  <1> HIDE DEF Older
  <1>3. entries' \in [Slot -> Entry]
    <2>1. \A i \in Slot : OneMore(entries[i].age, ARP_ENTRY_TIMEOUT) \in 0 .. ARP_ENTRY_TIMEOUT
      BY OneMoreType, LimitAssumption DEF IInv, TypeOK, Entry
    <2> QED
      BY <2>1 DEF IInv, TypeOK, Entry
  <1>4. TypeOK'
    BY <1>1, <1>2, <1>3 DEF IInv, TypeOK
  <1>5. OneRequest'
    BY <1>1, <1>2 DEF IInv, OneRequest
  <1>6. Queued' = Queued /\ InHand' = InHand
    BY <1>1, <1>2 DEF Queued, InHand
  <1>7. ExactlyOnce' /\ AllReported'
    BY <1>6 DEF IInv, ExactlyOnce, AllReported
  <1> QED
    BY <1>4, <1>5, <1>7 DEF IInv

LEMMA NextIInv == IInv /\ [Next]_vars => IInv'
  <1> SUFFICES ASSUME IInv, [Next]_vars PROVE IInv'
    OBVIOUS
  <1>1. CASE UNCHANGED vars
    BY <1>1 DEF vars, IInv, TypeOK, OneRequest, ExactlyOnce, AllReported, InHand, Queued
  <1>2. CASE \E p \in Packet : Lookup(p) \/ Thread(p)
    BY <1>2, LookupIInv, SendFoundIInv, AppendIInv, SendRequestIInv DEF Thread
  <1>3. CASE Sweeper
    BY <1>3, SweepIInv, ReportIInv, SleepIInv DEF Sweeper
  <1>4. CASE Hear
    BY <1>4, HandleArpIInv DEF Hear
  <1>5. CASE Tick
    BY <1>5, TickIInv
  <1> QED
    BY <1>1, <1>2, <1>3, <1>4, <1>5 DEF Next

LEMMA Invariance == Spec => []IInv
  BY InitIInv, NextIInv, PTL DEF Spec

(* The variables stay in their ranges: a count of retries is at least the  *)
(* 1 it starts with and never passes the limit.                            *)
THEOREM TypeCorrect == Spec => []TypeOK
  <1>1. IInv => TypeOK
    BY DEF IInv
  <1> QED
    BY <1>1, Invariance, PTL

(* No two requests for an address, whatever threads look up and append at  *)
(* the same time.                                                          *)
THEOREM RequestsAreUnique == Spec => []OneRequest
  <1>1. IInv => OneRequest
    BY DEF IInv
  <1> QED
    BY <1>1, Invariance, PTL

(* A packet handed to the ARP cache is never lost, never sent twice, and   *)
(* never both sent and reported unreachable.                               *)
THEOREM PacketsAreKept == Spec => []ExactlyOnce
  <1>1. IInv => ExactlyOnce
    BY DEF IInv
  <1> QED
    BY <1>1, Invariance, PTL

-----------------------------------------------------------------------------
(* The table: what is written is the last word of its host, and a second   *)
(* entry of a host is written only where the first has been.               *)
LEMMA HandleArpFresh ==
  ASSUME TypeOK, Fresh, NEW h \in Host, NEW m \in Mac, HandleArp(h, m)
  PROVE  Fresh'
  <1> DEFINE new == NewEntry(h, m)
  <1>1. new.valid /\ new.ip4 = h /\ new.mac = m
    BY DEF NewEntry
  <1>2. entries \in [Slot -> Entry] /\ \A i \in Slot : entries[i].ip4 \in Host
    BY DEF TypeOK, Entry
  <1>3. /\ announced'[h] = m
        /\ \A g \in Host : g # h => announced'[g] = announced[g]
    BY DEF HandleArp, TypeOK
  <1>4. CASE Refresh(h, m)
    <2>1. \A i \in Slot : entries'[i] =
            IF entries[i].valid /\ entries[i].ip4 = h THEN new ELSE entries[i]
      BY <1>4 DEF Refresh
    <2> HIDE DEF new
    <2> QED
      BY <1>1, <1>2, <1>3, <2>1 DEF Fresh
  <1>5. CASE Overwrite(h, m)
    <2>1. PICK k \in Slot : entries' = [entries EXCEPT ![k] = new]
      BY <1>5 DEF Overwrite
    <2>2. \A i \in Slot : entries'[i] = IF i = k THEN new ELSE entries[i]
      BY <1>2, <2>1
    <2>3. \A i \in Slot : entries[i].valid => entries[i].ip4 # h
      BY <1>5 DEF Overwrite, Known
    <2> HIDE DEF new
    <2> QED
      BY <1>1, <1>2, <1>3, <2>2, <2>3 DEF Fresh
  <1>6. CASE WriteBeforeArray(h)
    <2>1. entries' = entries /\ \A i \in Slot : entries[i].valid => entries[i].ip4 # h
      BY <1>6 DEF WriteBeforeArray, Known
    <2> QED
      BY <1>2, <1>3, <2>1 DEF Fresh
  <1> QED
    BY <1>4, <1>5, <1>6 DEF HandleArp, Insert

LEMMA NextFresh == IInv /\ Fresh /\ [Next]_vars => Fresh'
  <1> SUFFICES ASSUME IInv, Fresh, [Next]_vars PROVE Fresh'
    OBVIOUS
  <1>1. ASSUME UNCHANGED <<entries, announced>>
        PROVE  Fresh'
    BY <1>1 DEF Fresh
  <1>2. CASE UNCHANGED vars
    BY <1>1, <1>2 DEF vars
  <1>3. CASE \E p \in Packet : Lookup(p) \/ Thread(p)
    BY <1>1, <1>3 DEF Lookup, Thread, SendFound, Append, SendRequest
  <1>4. CASE Sweep
    <2>1. UNCHANGED announced
      BY <1>4 DEF Sweep
    <2>2. \A i \in Slot : entries'[i] = IF entries[i].valid /\ entries[i].age >= ARP_ENTRY_TIMEOUT
                                        THEN NoEntry ELSE entries[i]
      BY <1>4 DEF Sweep, Expire
    <2>3. ~NoEntry.valid
      BY DEF NoEntry
    <2> QED
      BY <2>1, <2>2, <2>3 DEF Fresh
  <1>5. CASE (\E p \in Packet : Report(p)) \/ Sleep
    BY <1>1, <1>5 DEF Report, Sleep
  <1>6. CASE Hear
    BY <1>6, HandleArpFresh DEF Hear, IInv
  <1>7. CASE Tick
    <2>1. UNCHANGED announced
      BY <1>7 DEF Tick
    <2>2. \A i \in Slot :
            /\ entries'[i].valid = entries[i].valid
            /\ entries'[i].ip4 = entries[i].ip4
            /\ entries'[i].mac = entries[i].mac
      BY <1>7 DEF Tick, IInv, TypeOK, Entry
    <2> QED
      BY <2>1, <2>2 DEF Fresh
  <1> QED
    BY <1>2, <1>3, <1>4, <1>5, <1>6, <1>7 DEF Next, Sweeper

(* However slots are overwritten and expire, a host has one valid entry,   *)
(* which holds the MAC it has last sent.                                   *)
THEOREM TableIsFresh == Spec => []Fresh
  <1>1. Init => Fresh
    BY DEF Init, Fresh, NoEntry
  <1> QED
    BY <1>1, NextFresh, Invariance, PTL DEF Spec

-----------------------------------------------------------------------------
(* The count of a request against what has gone out.  The request is       *)
(* counted when it is made and sent later, by the thread that is "asking". *)
LEMMA AskCounts ==
  ASSUME TypeOK, NEW hosts, Ask(hosts)
  PROVE  \A h \in Host :
           /\ unanswered'[h] >= unanswered[h]
           /\ h \in hosts => \/ unanswered'[h] = unanswered[h] + 1
                             \/ unanswered'[h] = ARP_REQUEST_MAX_RETRIES
  <1> TAKE h \in Host
  <1>1. unanswered[h] \in 0 .. ARP_REQUEST_MAX_RETRIES /\ ARP_REQUEST_MAX_RETRIES \in Nat
    BY LimitAssumption DEF TypeOK
  <1>2. unanswered'[h] = IF h \in hosts THEN OneMore(unanswered[h], ARP_REQUEST_MAX_RETRIES)
                         ELSE unanswered[h]
    BY DEF Ask
  <1> QED
    BY <1>1, <1>2 DEF OneMore

(* The ranges of the counters, for the steps below.                        *)
LEMMA Counters ==
  ASSUME TypeOK
  PROVE  /\ ARP_REQUEST_MAX_RETRIES \in Nat
         /\ \A h \in Host : unanswered[h] \in Nat
         /\ \A q \in req_list : q.ip4 \in Host /\ q.retries \in 1 .. ARP_REQUEST_MAX_RETRIES
  BY LimitAssumption DEF TypeOK, Request

LEMMA AppendTried ==
  ASSUME IInv, Tried, NEW p \in Packet, Append(p)
  PROVE  Tried'
  <1>1. at[p] = "missed" /\ at \in [Packet -> {"idle", "found", "missed", "asking", "done"}]
    BY DEF Append, IInv, TypeOK
  <1>2. \A h : Asking(h) => Asking(h)'
    BY <1>1 DEF Append, Join, Create, Asking
  <1>3. unanswered' = unanswered
    BY DEF Append
  <1>4. CASE Join(p)
    <2>1. \A q \in req_list' : \E r \in req_list : q.ip4 = r.ip4 /\ q.retries = r.retries
      BY <1>4 DEF Join, WithPacket, IInv, TypeOK, Request
    <2> QED
      BY <1>2, <1>3, <2>1, Counters DEF Tried, IInv
  <1>5. CASE Create(p)
    <2>1. NewRequest(p).ip4 = To[p] /\ NewRequest(p).retries = 1
      BY DEF NewRequest
    <2>2. Asking(To[p])' /\ To[p] \in Host
      BY <1>1, <1>5, NextHopAssumption DEF Create, Asking
    <2>3. req_list' = req_list \cup {NewRequest(p)}
      BY <1>5 DEF Create
    <2> DEFINE new == NewRequest(p)
    <2> HIDE DEF new
    <2>4. \A q \in req_list' : q \in req_list \/ (q.ip4 = To[p] /\ q.retries = 1)
      BY <2>1, <2>3 DEF new
    <2> QED
      BY <1>2, <1>3, <2>2, <2>4, Counters DEF Tried, IInv
  <1> QED
    BY <1>4, <1>5 DEF Append

LEMMA SendRequestTried ==
  ASSUME IInv, Tried, NEW p \in Packet, SendRequest(p)
  PROVE  Tried'
  <1>1. req_list' = req_list /\ To[p] \in Host
    BY NextHopAssumption DEF SendRequest
  <1>2. \A h : h # To[p] => (Asking(h)' <=> Asking(h))
    BY DEF SendRequest, Asking, IInv, TypeOK
  <1>3. /\ \A h \in Host : unanswered'[h] >= unanswered[h]
        /\ \/ unanswered'[To[p]] = unanswered[To[p]] + 1
           \/ unanswered'[To[p]] = ARP_REQUEST_MAX_RETRIES
    BY <1>1, AskCounts DEF SendRequest, IInv
  <1>4. \A h \in Host : unanswered'[h] \in Nat
    BY AskType, LimitAssumption DEF SendRequest, IInv
  <1>5. ASSUME NEW q \in req_list
        PROVE  q.retries <= unanswered'[q.ip4] + (IF Asking(q.ip4)' THEN 1 ELSE 0)
    <2>1. q.retries <= unanswered[q.ip4] + (IF Asking(q.ip4) THEN 1 ELSE 0)
      BY DEF Tried
    <2> QED
      BY <1>1, <1>2, <1>3, <1>4, <2>1, Counters DEF IInv
  <1> QED
    BY <1>1, <1>5 DEF Tried

LEMMA HandleArpTried ==
  ASSUME IInv, Tried, NEW h \in Host, NEW m \in Mac, HandleArp(h, m)
  PROVE  Tried'
  <1>1. req_list' \subseteq req_list /\ \A q \in req_list' : q.ip4 # h
    BY DEF HandleArp, Flush, Waiting
  <1>2. \A g \in Host : g # h => unanswered'[g] = unanswered[g]
    BY DEF HandleArp, IInv, TypeOK
  <1>3. \A g : Asking(g)' <=> Asking(g)
    BY DEF HandleArp, Asking
  <1> QED
    BY <1>1, <1>2, <1>3, Counters DEF Tried, IInv

LEMMA SweepTried ==
  ASSUME IInv, Tried, Sweep
  PROVE  Tried'
  <1>1. \A g : Asking(g)' <=> Asking(g)
    BY DEF Sweep, Asking
  <1>2. \A g \in Host : /\ unanswered'[g] >= unanswered[g] /\ unanswered'[g] \in Nat
                        /\ g \in {q.ip4 : q \in Again} => \/ unanswered'[g] = unanswered[g] + 1
                                                          \/ unanswered'[g] = ARP_REQUEST_MAX_RETRIES
    BY AskCounts, AskType, LimitAssumption DEF Sweep, IInv
  <1> DEFINE Kept(q) == IF q \in Again THEN SentAgain(q) ELSE q
  <1>3. \A q \in req_list :
          /\ Kept(q).ip4 = q.ip4
          /\ q \in Again => Kept(q).retries = q.retries + 1 /\ q.retries < ARP_REQUEST_MAX_RETRIES
          /\ q \notin Again => Kept(q).retries = q.retries
    BY DEF IInv, TypeOK, Request, Again, SentAgain
  <1>4. req_list' = {Kept(q) : q \in req_list \ GivenUp}
    BY DEF Sweep
  <1> HIDE DEF Kept
  <1>5. ASSUME NEW q \in req_list
        PROVE  Kept(q).retries <= unanswered'[q.ip4] + (IF Asking(q.ip4)' THEN 1 ELSE 0)
    <2>1. q.retries <= unanswered[q.ip4] + (IF Asking(q.ip4) THEN 1 ELSE 0)
      BY DEF Tried
    <2>2. CASE q \in Again
      <3>1. q.ip4 \in {r.ip4 : r \in Again}
        BY <2>2
      <3> QED
        BY <1>1, <1>2, <1>3, <2>1, <2>2, <3>1, Counters DEF IInv
    <2>3. CASE q \notin Again
      BY <1>1, <1>2, <1>3, <2>1, <2>3, Counters DEF IInv
    <2> QED
      BY <2>2, <2>3
  <1> QED
    BY <1>3, <1>4, <1>5 DEF Tried

LEMMA NextTried == IInv /\ Tried /\ [Next]_vars => Tried'
  <1> SUFFICES ASSUME IInv, Tried, [Next]_vars PROVE Tried'
    OBVIOUS
  <1>1. ASSUME UNCHANGED <<req_list, unanswered>>, \A h : Asking(h)' <=> Asking(h)
        PROVE  Tried'
    BY <1>1 DEF Tried
  <1>2. CASE UNCHANGED vars
    BY <1>1, <1>2 DEF vars, Asking
  <1>3. ASSUME NEW p \in Packet, Lookup(p) \/ SendFound(p)
        PROVE  Tried'
    <2>1. \A h : Asking(h)' <=> Asking(h)
      BY <1>3 DEF Lookup, SendFound, Asking, IInv, TypeOK
    <2> QED
      BY <1>1, <1>3, <2>1 DEF Lookup, SendFound
  <1>4. CASE \E p \in Packet : Lookup(p) \/ Thread(p)
    BY <1>3, <1>4, AppendTried, SendRequestTried DEF Thread
  <1>5. CASE (\E p \in Packet : Report(p)) \/ Sleep
    BY <1>1, <1>5 DEF Report, Sleep, Asking
  <1>6. CASE Tick
    <2>1. unanswered' = unanswered /\ \A h : Asking(h)' <=> Asking(h)
      BY <1>6 DEF Tick, Asking
    <2>2. \A q \in req_list' : \E r \in req_list : q.ip4 = r.ip4 /\ q.retries = r.retries
      BY <1>6 DEF Tick, IInv, TypeOK, Request
    <2> QED
      BY <2>1, <2>2 DEF Tried
  <1> QED
    BY <1>2, <1>4, <1>5, <1>6, SweepTried, HandleArpTried DEF Next, Sweeper, Hear

(* A host is given up, and what waits for it reported unreachable, only    *)
(* after as many requests as the count says, each of them unanswered.      *)
THEOREM GivenUpOnlyIfAsked == Spec => []Tried
  <1>1. Init => Tried
    BY DEF Init, Tried
  <1> QED
    BY <1>1, NextTried, Invariance, PTL DEF Spec
=============================================================================
