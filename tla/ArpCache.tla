------------------------------ MODULE ArpCache ------------------------------
(***************************************************************************)
(* The ARP cache of the TCP stack (17-tcp_stack).  A packet whose next hop *)
(* is unknown waits in a request for that address, until the address is    *)
(* learned and the packet sent, or the sweeping thread has asked often     *)
(* enough and reports the packet unreachable.                              *)
(*                                                                         *)
(* Each critical section under arpcache.lock is an action.  What the code  *)
(* does after it has let go of the lock (send the packet with the MAC it   *)
(* found, send the request, report) is an action of its own.               *)
(*                                                                         *)
(* An address is reached through one interface, so a request is identified *)
(* by its address.  The sweep reads the clock in the action that scans.    *)
(***************************************************************************)
EXTENDS Integers

CONSTANTS
  Packet, Host, Mac,
  To,              (* the next hop of each packet                          *)
  Forwarded,       (* packets sent by the receiving thread, the others by  *)
                   (* an application or the timer                          *)
  MAX_ARP_SIZE, ARP_ENTRY_TIMEOUT, ARP_REQUEST_MAX_RETRIES

ASSUME NextHopAssumption == To \in [Packet -> Host] /\ Forwarded \subseteq Packet

ASSUME LimitAssumption ==
  /\ Host # {} /\ Mac # {}
  /\ MAX_ARP_SIZE \in Nat
  /\ ARP_ENTRY_TIMEOUT \in Nat \ {0}
  /\ ARP_REQUEST_MAX_RETRIES \in Nat \ {0}

Slot == 1 .. MAX_ARP_SIZE

VARIABLES
  entries,         (* the table                                            *)
  req_list,        (* the requests that wait for an answer                 *)
  at,              (* where the thread that sends a packet is              *)
  sweeper,         (* where the sweeping thread is                         *)
  pkt_list,        (* packets it has taken from a request to report        *)
  sent, reported,  (* what became of the packets                           *)
  announced,       (* history: the MAC each host has last sent             *)
  unanswered       (* history: requests to a host since it last spoke      *)

vars == <<entries, req_list, at, sweeper, pkt_list, sent, reported, announced, unanswered>>

-----------------------------------------------------------------------------
(* Ages are counted up to the greatest value a comparison tells apart, or  *)
(* a property needs.                                                       *)
Entry == [valid : BOOLEAN, ip4 : Host, mac : Mac, age : 0 .. ARP_ENTRY_TIMEOUT]
Request == [ip4 : Host, age : 0 .. ARP_REQUEST_MAX_RETRIES,
            retries : 1 .. ARP_REQUEST_MAX_RETRIES, cached_packets : SUBSET Packet]

(* Nothing of an entry that is not valid is read.                          *)
NoEntry == [valid |-> FALSE, ip4 |-> CHOOSE h \in Host : TRUE,
            mac |-> CHOOSE m \in Mac : TRUE, age |-> 0]

OneMore(n, max) == IF n < max THEN n + 1 ELSE n

Waiting(h) == {q \in req_list : q.ip4 = h}
Known(h) == \E i \in Slot : entries[i].valid /\ entries[i].ip4 = h

(* The receiving thread sends one packet at a time, and while it does so   *)
(* it receives nothing.                                                    *)
ReceiverFree == \A p \in Forwarded : at[p] \in {"idle", "done"}

(* A request is broadcast for h.                                           *)
Ask(hosts) ==
  unanswered' = [h \in Host |->
    IF h \in hosts THEN OneMore(unanswered[h], ARP_REQUEST_MAX_RETRIES) ELSE unanswered[h]]

-----------------------------------------------------------------------------
(* iface_send_packet_by_arp and ip_forward_packet.                         *)

Lookup(p) ==
  /\ at[p] = "idle"
  /\ p \in Forwarded => ReceiverFree
  /\ at' = [at EXCEPT ![p] = IF Known(To[p]) THEN "found" ELSE "missed"]
  /\ UNCHANGED <<entries, req_list, sweeper, pkt_list, sent, reported, announced, unanswered>>

SendFound(p) ==
  /\ at[p] = "found"
  /\ sent' = sent \cup {p}
  /\ at' = [at EXCEPT ![p] = "done"]
  /\ UNCHANGED <<entries, req_list, sweeper, pkt_list, reported, announced, unanswered>>

(* arpcache_append_packet.                                                 *)
(* Mutant: the count starts at the 0 of bzero.                             *)
MutNewRequest(p) == [ip4 |-> To[p], age |-> 0, retries |-> 0, cached_packets |-> {p}]

NewRequest(p) == [ip4 |-> To[p], age |-> 0, retries |-> 1, cached_packets |-> {p}]
WithPacket(q, p) == [q EXCEPT !.cached_packets = @ \cup {p}]

Join(p) ==
  /\ Waiting(To[p]) # {}
  /\ req_list' = {IF q.ip4 = To[p] THEN WithPacket(q, p) ELSE q : q \in req_list}
  /\ at' = [at EXCEPT ![p] = "done"]

Create(p) ==
  /\ Waiting(To[p]) = {}
  /\ req_list' = req_list \cup {NewRequest(p)}
  /\ at' = [at EXCEPT ![p] = "asking"]

(* Mutant: waiting requests are not searched.                              *)
MutAppend(p) ==
  /\ at[p] = "missed"
  /\ req_list' = req_list \cup {NewRequest(p)}
  /\ at' = [at EXCEPT ![p] = "asking"]
  /\ UNCHANGED <<entries, sweeper, pkt_list, sent, reported, announced, unanswered>>

Append(p) ==
  /\ at[p] = "missed"
  /\ Join(p) \/ Create(p)
  /\ UNCHANGED <<entries, sweeper, pkt_list, sent, reported, announced, unanswered>>

SendRequest(p) ==
  /\ at[p] = "asking"
  /\ at' = [at EXCEPT ![p] = "done"]
  /\ Ask({To[p]})
  /\ UNCHANGED <<entries, req_list, sweeper, pkt_list, sent, reported, announced>>

-----------------------------------------------------------------------------
(* arpcache_insert.  The test for a free slot is the wrong way round: if   *)
(* there is one, any slot is overwritten; if there is none, the mapping is *)
(* written before the array.                                               *)
NewEntry(h, m) == [valid |-> TRUE, ip4 |-> h, mac |-> m, age |-> 0]

Refresh(h, m) ==
  /\ Known(h)
  /\ entries' = [i \in Slot |->
       IF entries[i].valid /\ entries[i].ip4 = h THEN NewEntry(h, m) ELSE entries[i]]

Overwrite(h, m) ==
  /\ ~Known(h)
  /\ \E i \in Slot : ~entries[i].valid
  /\ \E i \in Slot : entries' = [entries EXCEPT ![i] = NewEntry(h, m)]

WriteBeforeArray(h) ==
  /\ ~Known(h)
  /\ \A i \in Slot : entries[i].valid
  /\ UNCHANGED entries

(* Mutant: an entry for the address is not looked for.                     *)
MutInsert(h, m) ==
  \/ (\E i \in Slot : ~entries[i].valid) /\ \E i \in Slot : entries' = [entries EXCEPT ![i] = NewEntry(h, m)]
  \/ (\A i \in Slot : entries[i].valid) /\ UNCHANGED entries

Insert(h, m) == Refresh(h, m) \/ Overwrite(h, m) \/ WriteBeforeArray(h)

(* Mutant: the packets are sent and stay in the request.                   *)
MutFlush(h) ==
  /\ sent' = sent \cup UNION {q.cached_packets : q \in Waiting(h)}
  /\ UNCHANGED req_list

(* The packets that wait are sent, and their request is dropped.           *)
Flush(h) ==
  /\ sent' = sent \cup UNION {q.cached_packets : q \in Waiting(h)}
  /\ req_list' = req_list \ Waiting(h)

(* handle_arp_packet: h answers, or has a question of its own.             *)
HandleArp(h, m) ==
  /\ ReceiverFree
  /\ Insert(h, m)
  /\ Flush(h)
  /\ announced' = [announced EXCEPT ![h] = m]
  /\ unanswered' = [unanswered EXCEPT ![h] = 0]
  /\ UNCHANGED <<at, sweeper, pkt_list, reported>>

-----------------------------------------------------------------------------
(* arpcache_sweep.                                                         *)

Due(q) == q.age >= 1

(* Mutant: sent again without counting.                                     *)
MutSentAgain(q) == q

SentAgain(q) == [q EXCEPT !.retries = @ + 1]

Again == {q \in req_list : Due(q) /\ q.retries < ARP_REQUEST_MAX_RETRIES}
GivenUp == {q \in req_list : Due(q) /\ q.retries >= ARP_REQUEST_MAX_RETRIES}

Expire(e) == IF e.valid /\ e.age >= ARP_ENTRY_TIMEOUT THEN NoEntry ELSE e

(* Mutant: retries are counted but nothing is sent.                         *)
MutSweep ==
  /\ sweeper = "awake"
  /\ entries' = [i \in Slot |-> Expire(entries[i])]
  /\ req_list' = {IF q \in Again THEN SentAgain(q) ELSE q : q \in req_list \ GivenUp}
  /\ pkt_list' = UNION {q.cached_packets : q \in GivenUp}
  /\ sweeper' = "reporting"
  /\ UNCHANGED <<at, sent, reported, announced, unanswered>>

Sweep ==
  /\ sweeper = "awake"
  /\ entries' = [i \in Slot |-> Expire(entries[i])]
  /\ req_list' = {IF q \in Again THEN SentAgain(q) ELSE q : q \in req_list \ GivenUp}
  /\ Ask({q.ip4 : q \in Again})
  /\ pkt_list' = UNION {q.cached_packets : q \in GivenUp}
  /\ sweeper' = "reporting"
  /\ UNCHANGED <<at, sent, reported, announced>>

(* An ICMP message goes to the source of each packet, without the lock.    *)
Report(p) ==
  /\ p \in pkt_list
  /\ pkt_list' = pkt_list \ {p}
  /\ reported' = reported \cup {p}
  /\ UNCHANGED <<entries, req_list, at, sweeper, sent, announced, unanswered>>

Sleep ==
  /\ sweeper = "reporting"
  /\ pkt_list = {}
  /\ sweeper' = "asleep"
  /\ UNCHANGED <<entries, req_list, at, pkt_list, sent, reported, announced, unanswered>>

(* A second passes.                                                        *)
Tick ==
  /\ entries' = [i \in Slot |->
       IF entries[i].valid THEN [entries[i] EXCEPT !.age = OneMore(@, ARP_ENTRY_TIMEOUT)]
       ELSE entries[i]]
  /\ req_list' = {[q EXCEPT !.age = OneMore(@, ARP_REQUEST_MAX_RETRIES)] : q \in req_list}
  /\ sweeper' = IF sweeper = "asleep" THEN "awake" ELSE sweeper
  /\ UNCHANGED <<at, pkt_list, sent, reported, announced, unanswered>>

-----------------------------------------------------------------------------
Init ==
  /\ entries = [i \in Slot |-> NoEntry]
  /\ req_list = {}
  /\ at = [p \in Packet |-> "idle"]
  /\ sweeper = "asleep"
  /\ pkt_list = {} /\ sent = {} /\ reported = {}
  /\ announced = [h \in Host |-> NoEntry.mac]
  /\ unanswered = [h \in Host |-> 0]

Thread(p) == SendFound(p) \/ Append(p) \/ SendRequest(p)
Sweeper == Sweep \/ (\E p \in Packet : Report(p)) \/ Sleep
Hear == \E h \in Host, m \in Mac : HandleArp(h, m)

Next == (\E p \in Packet : Lookup(p) \/ Thread(p)) \/ Sweeper \/ Hear \/ Tick

Spec == Init /\ [][Next]_vars

(* Threads are not stopped, and time passes.  Nothing makes a host answer, *)
(* or a packet be sent.                                                    *)
FairSpec == Spec /\ (\A p \in Packet : WF_vars(Thread(p))) /\ WF_vars(Sweeper) /\ WF_vars(Tick)

-----------------------------------------------------------------------------
TypeOK ==
  /\ entries \in [Slot -> Entry]
  /\ req_list \subseteq Request
  /\ at \in [Packet -> {"idle", "found", "missed", "asking", "done"}]
  /\ sweeper \in {"asleep", "awake", "reporting"}
  /\ pkt_list \subseteq Packet /\ sent \subseteq Packet /\ reported \subseteq Packet
  /\ announced \in [Host -> Mac]
  /\ unanswered \in [Host -> 0 .. ARP_REQUEST_MAX_RETRIES]

(* Each packet is in one place: with the thread that sends it, in one      *)
(* request, in the list of the sweep, sent, or reported.  No order of      *)
(* append, answer and sweep loses one, sends one twice, or sends and       *)
(* reports the same one.                                                   *)
InHand == {p \in Packet : at[p] \in {"idle", "found", "missed"}}
Queued == UNION {q.cached_packets : q \in req_list}

ExactlyOnce ==
  /\ Packet = InHand \cup Queued \cup pkt_list \cup sent \cup reported
  /\ InHand \cap (Queued \cup pkt_list \cup sent \cup reported) = {}
  /\ Queued \cap (pkt_list \cup sent \cup reported) = {}
  /\ pkt_list \cap (sent \cup reported) = {}
  /\ sent \cap reported = {}

(* An address has one request, in which only packets for it wait: the      *)
(* answer, which serves the first request it finds, serves all of them.    *)
OneRequest ==
  /\ \A q, r \in req_list : q.ip4 = r.ip4 => q = r
  /\ \A q \in req_list : \A p \in q.cached_packets : To[p] = q.ip4

(* The table does not contradict itself or a host: whatever slots have     *)
(* been overwritten, a valid entry holds what its host has last said.      *)
Fresh ==
  /\ \A i, j \in Slot :
       entries[i].valid /\ entries[j].valid /\ entries[i].ip4 = entries[j].ip4 => i = j
  /\ \A i \in Slot : entries[i].valid => entries[i].mac = announced[entries[i].ip4]

(* The count of a request is one of requests that have gone out, or are    *)
(* about to, since the host was last heard; so a host is given up only     *)
(* when that many have gone unanswered.                                    *)
Asking(h) == \E p \in Packet : at[p] = "asking" /\ To[p] = h

Tried ==
  \A q \in req_list : q.retries <= unanswered[q.ip4] + (IF Asking(q.ip4) THEN 1 ELSE 0)

(* Every packet is sent or reported in the end, answer or not.             *)
Settled == \A p \in Packet : (at[p] # "idle") ~> (p \in sent \cup reported)
=============================================================================
