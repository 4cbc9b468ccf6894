------------------------------- MODULE IpHost -------------------------------
(***************************************************************************)
(* What lies under TCP in 15-tcp_stack: a host with one interface, its     *)
(* routing table, ICMP and the ARP cache.  Packets are buffers of the heap *)
(* that pass from hand to hand between the application, the thread of the  *)
(* packets and the sweep.  TCP compares no sequence numbers in this lab,   *)
(* so the order in which packets leave is the order in which they are read.*)
(*                                                                         *)
(* Each section under arpcache.lock is an action; so a packet whose next   *)
(* hop is found leaves in the action of the lookup, and one whose next hop *)
(* is not is appended to a request in another.                             *)
(***************************************************************************)
EXTENDS Naturals, SequencesExt

CONSTANTS
  Job,     \* records [sends: where the application sends to, frames: what may arrive]
  Device,  \* the address of each network device
  Kernel,  \* its routes: [dst: addresses, len: of the prefix, gw: or None, oif: a device, main: BOOLEAN]
  Host,    \* addresses that answer ARP requests, or ask
  Buffer,  \* the heap
  MAX_ARP_SIZE, ARP_ENTRY_TIMEOUT, ARP_REQUEST_MAX_RETRIES,
  None

VARIABLES
  job,       \* one of Job
  put,       \* packets the application has sent
  seen,      \* frames that have arrived
  heap,      \* the message in each buffer, or None
  entries,   \* the table: an address and its age, or None
  req_list,  \* by address: the packets that wait, the retries, if a second old
  at,        \* the buffer each thread could not send, and what it frees then
  awake,     \* the sweep has slept for a second
  pkt_list,  \* buffers the sweep has yet to report
  leaked,    \* buffers nobody frees
  got,       \* what became of the packets of the application, in order
  late       \* history: packets appended when their next hop had been learnt
vars == <<job, put, seen, heap, entries, req_list, at, awake, pkt_list, leaked, got, late>>

Thread == {"application", "packets", "sweep"}
Slot == 1..MAX_ARP_SIZE

(***************************************************************************)
(* The interface and the routing table                                     *)
(***************************************************************************)

\* init_all_ifaces: the devices that are named as mininet does
Iface == DOMAIN Device \ {"lo"}
\* read_iface_info, of the only one
Own == CHOOSE a \in {Device[i] : i \in Iface} : TRUE

\* load_rtable_from_kernel: the main table of the kernel, as far as it is about the interface
MainTable == SelectSeq(Kernel, LAMBDA r : r.main)
Rtable == SelectSeq(MainTable, LAMBDA r : r.oif \in Iface)

Matches(dst) == {i \in DOMAIN Rtable : dst \in Rtable[i].dst}
Selected(dst) ==
  CHOOSE i \in Matches(dst) : \A j \in Matches(dst) :
    Rtable[j].len < Rtable[i].len \/ (Rtable[j].len = Rtable[i].len /\ i <= j)
NextHop(dst) ==
  IF Matches(dst) = {} THEN None
  ELSE LET gw == Rtable[Selected(dst)].gw IN IF gw = None THEN dst ELSE gw

Addresses == UNION {r.dst : r \in ToSet(Kernel)}
Hops == {NextHop(d) : d \in Addresses} \ {None}

(***************************************************************************)
(* Buffers.  A message is numbered if it is the application's.             *)
(***************************************************************************)
Message(src, dst, n) == [src |-> src, dst |-> dst, n |-> n]
FreeOf(h) == {b \in Buffer : h[b] = None}
New(h) == CHOOSE b \in FreeOf(h) : \A c \in FreeOf(h) : b <= c
Malloc(h, m) == [h EXCEPT ![New(h)] = m]
Free(h, bs) == [b \in Buffer |-> IF b \in bs THEN None ELSE h[b]]

\* the numbers in some buffers, with what becomes of them
Become(h, bs, what) ==
  LET ours == SelectSeq(bs, LAMBDA b : h[b].n > 0)
  IN [i \in DOMAIN ours |-> <<h[ours[i]].n, what>>]

(***************************************************************************)
(* The ARP cache                                                           *)
(***************************************************************************)
Known(h) == \E i \in Slot : entries[i] # None /\ entries[i].ip4 = h
NoRequest == [pkts |-> <<>>, retries |-> 0, old |-> FALSE]

\* iface_send_packet, after which a thread frees other buffers, too
Transmit(h, b, others) ==
  /\ heap' = Free(h, {b} \cup ToSet(others))
  /\ got' = got \o Become(h, <<b>>, "left") \o Become(h, others, "reported")
  /\ UNCHANGED at

\* iface_send_packet_by_arp, as far as the lookup
SendByArp(t, h, b, others) ==
  IF Known(NextHop(h[b].dst)) THEN Transmit(h, b, others)
  ELSE /\ heap' = h
       /\ at' = [at EXCEPT ![t] = [buf |-> b, others |-> others]]
       /\ UNCHANGED got

\* ip_send_packet
Send(t, h, b, others) ==
  IF NextHop(h[b].dst) # None THEN SendByArp(t, h, b, others)
  ELSE /\ heap' = Free(h, {b} \cup ToSet(others))
       /\ got' = got \o Become(h, <<b>>, "refused") \o Become(h, others, "reported")
       /\ UNCHANGED at

\* mutant: list_add_head
MutQueued(q, b) ==
  IF q.pkts = <<>> THEN [pkts |-> <<b>>, retries |-> 1, old |-> FALSE]
  ELSE [q EXCEPT !.pkts = <<b>> \o @]

Queued(q, b) ==
  IF q.pkts = <<>> THEN [pkts |-> <<b>>, retries |-> 1, old |-> FALSE]
  ELSE [q EXCEPT !.pkts = Append(@, b)]

\* arpcache_append_packet
AppendPacket(t) ==
  /\ at[t] # None
  /\ LET b == at[t].buf
         hop == NextHop(heap[b].dst)
     IN /\ req_list' = [req_list EXCEPT ![hop] = Queued(@, b)]
        /\ late' = IF Known(hop) /\ heap[b].n > 0 THEN late \cup {heap[b].n} ELSE late
        /\ heap' = Free(heap, ToSet(at[t].others))
        /\ got' = got \o Become(heap, at[t].others, "reported")
        /\ at' = [at EXCEPT ![t] = None]
  /\ UNCHANGED <<job, put, seen, entries, awake, pkt_list, leaked>>

\* arpcache_insert: if a slot is free any is overwritten; if none is, what lies
\* before the array
Insert(h) ==
  LET entry == [ip4 |-> h, age |-> 0]
  IN CASE Known(h) -> entries' = [i \in Slot |->
                        IF entries[i] # None /\ entries[i].ip4 = h THEN entry ELSE entries[i]]
       [] ~Known(h) /\ None \in {entries[i] : i \in Slot} ->
            \E i \in Slot : entries' = [entries EXCEPT ![i] = entry]
       [] OTHER -> UNCHANGED entries

(***************************************************************************)
(* The threads                                                             *)
(***************************************************************************)

\* a packet of the application, which is one thread with its calls in order
SendNext ==
  /\ at["application"] = None /\ put < Len(job.sends)
  /\ put' = put + 1
  /\ LET h == Malloc(heap, Message(Own, job.sends[put + 1], put + 1))
     IN Send("application", h, New(heap), <<>>)
  /\ UNCHANGED <<job, seen, entries, req_list, awake, pkt_list, leaked, late>>

\* icmp_send_packet with an error about the packet in buffer b, which is then freed
ReportTo(t, h, b) ==
  IF NextHop(h[b].src) = None
  THEN heap' = Free(h, {b}) /\ got' = got \o Become(h, <<b>>, "reported") /\ UNCHANGED at
  ELSE Send(t, Malloc(h, Message(Own, h[b].src, 0)), New(h), <<b>>)

\* mutant: a packet that is forwarded is freed by handle_ip_packet, too
MutForward(f, h, b) ==
  IF f.ttl <= 1 \/ NextHop(f.dst) = None THEN ReportTo("packets", h, b)
  ELSE SendByArp("packets", h, b, <<b>>)

\* ip_forward_packet
Forward(f, h, b) ==
  IF f.ttl <= 1 \/ NextHop(f.dst) = None THEN ReportTo("packets", h, b)
  ELSE SendByArp("packets", h, b, <<>>)

\* what is answered: an echo request, and a segment by an ACK or not
Answer(f) == CASE f.proto = "echo" -> {TRUE} [] f.proto = "tcp" -> BOOLEAN [] OTHER -> {FALSE}

\* handle_ip_packet
HandleIp(f, h, b) ==
  IF f.dst = Own
  THEN \E answered \in Answer(f) :
         IF answered THEN Send("packets", Malloc(h, Message(Own, f.src, 0)), New(h), <<b>>)
         ELSE heap' = Free(h, {b}) /\ UNCHANGED <<at, got>>
  ELSE Forward(f, h, b)

\* ustack_run takes a frame when the last has been handled, and none of its own
Receiving == at["packets"] = None

\* handle_packet: a frame of a type it does not know is not freed
HandlePacket(f) ==
  /\ Receiving /\ f \notin seen
  /\ seen' = seen \cup {f}
  /\ LET h == Malloc(heap, Message(f.src, f.dst, 0))
         b == New(heap)
     IN IF f.type = "ip" THEN HandleIp(f, h, b) /\ UNCHANGED leaked
        ELSE heap' = h /\ leaked' = leaked \cup {b} /\ UNCHANGED <<at, got>>
  /\ UNCHANGED <<job, put, entries, req_list, awake, pkt_list, late>>

\* handle_arp_packet: an answer of h, or its question for this host
HandleArp(h) ==
  /\ Receiving
  /\ Insert(h)
  /\ heap' = Free(heap, ToSet(req_list[h].pkts))
  /\ got' = got \o Become(heap, req_list[h].pkts, "left")
  /\ req_list' = [req_list EXCEPT ![h] = NoRequest]
  /\ UNCHANGED <<job, put, seen, at, awake, pkt_list, leaked, late>>

SentAgain(q) == [q EXCEPT !.retries = @ + 1]

\* arpcache_sweep, with the lock
Sweep ==
  LET due == {h \in Hops : req_list[h].pkts # <<>> /\ req_list[h].old}
      again == {h \in due : req_list[h].retries < ARP_REQUEST_MAX_RETRIES}
  IN /\ awake /\ at["sweep"] = None /\ pkt_list = <<>>
     /\ awake' = FALSE
     /\ entries' = [i \in Slot |->
          IF entries[i] # None /\ entries[i].age >= ARP_ENTRY_TIMEOUT THEN None ELSE entries[i]]
     /\ req_list' = [h \in Hops |->
          CASE h \in again -> SentAgain(req_list[h])
            [] h \in due \ again -> NoRequest
            [] OTHER -> req_list[h]]
     /\ pkt_list' = FlattenSeq([i \in 1..Len(SetToSeq(due \ again)) |->
                                  req_list[SetToSeq(due \ again)[i]].pkts])
     /\ UNCHANGED <<job, put, seen, heap, at, leaked, got, late>>

\* and without it
Report ==
  /\ pkt_list # <<>> /\ at["sweep"] = None
  /\ ReportTo("sweep", heap, Head(pkt_list))
  /\ pkt_list' = Tail(pkt_list)
  /\ UNCHANGED <<job, put, seen, entries, req_list, awake, leaked, late>>

\* a second passes
Tick ==
  /\ awake' = TRUE
  /\ entries' = [i \in Slot |-> IF entries[i] # None /\ entries[i].age < ARP_ENTRY_TIMEOUT
                                THEN [entries[i] EXCEPT !.age = @ + 1] ELSE entries[i]]
  /\ req_list' = [h \in Hops |-> IF req_list[h].pkts = <<>> THEN req_list[h]
                                 ELSE [req_list[h] EXCEPT !.old = TRUE]]
  /\ UNCHANGED <<job, put, seen, heap, at, pkt_list, leaked, got, late>>

Init ==
  /\ job \in Job
  /\ put = 0 /\ seen = {}
  /\ heap = [b \in Buffer |-> None]
  /\ entries = [i \in Slot |-> None] /\ req_list = [h \in Hops |-> NoRequest]
  /\ at = [t \in Thread |-> None] /\ awake = FALSE /\ pkt_list = <<>>
  /\ leaked = {} /\ got = <<>> /\ late = {}

Application == SendNext \/ AppendPacket("application")
Packets == AppendPacket("packets")
Sweeper == Sweep \/ Report \/ AppendPacket("sweep")
Next ==
  \/ Application \/ Packets \/ Sweeper \/ Tick
  \/ \E f \in job.frames : HandlePacket(f)
  \/ \E h \in Host : HandleArp(h)

Spec == Init /\ [][Next]_vars
-----------------------------------------------------------------------------
Frame == [type : {"ip", "other"}, proto : {"echo", "tcp", "udp"}, src : Addresses, dst : STRING, ttl : 0..255]
ArpCacheEntry == [ip4 : Host, age : 0..ARP_ENTRY_TIMEOUT]
ArpReq == [pkts : Seq(Buffer), retries : 0..ARP_REQUEST_MAX_RETRIES, old : BOOLEAN]
TypeOK ==
  /\ job \in Job /\ put \in 0..Len(job.sends)
  /\ \A h \in Hops : req_list[h] \in ArpReq
  /\ entries \in [Slot -> ArpCacheEntry \cup {None}]
  /\ job.frames \subseteq Frame
  /\ FreeOf(heap) # {}

(***************************************************************************)
(* A buffer that is allocated is in the hands of one thread, or waits in   *)
(* one request, or is one of those of a type nobody knows, which are lost; *)
(* one that is free is in no place.  And each packet of the application    *)
(* is in a buffer, or one thing has become of it.                          *)
(***************************************************************************)
Places ==
  FlattenSeq([i \in 1..Len(SetToSeq(Hops)) |-> req_list[SetToSeq(Hops)[i]].pkts])
  \o FlattenSeq([i \in 1..3 |-> LET a == at[SetToSeq(Thread)[i]]
                                IN IF a = None THEN <<>> ELSE <<a.buf>> \o a.others])
  \o pkt_list \o SetToSeq(leaked)
OneOwner ==
  /\ TypeOK
  /\ IsInjective(Places)
  /\ ToSet(Places) = Buffer \ FreeOf(heap)
  /\ \A n \in 1..put :
       Len(SelectSeq(got, LAMBDA g : g[1] = n))
         + Len(SelectSeq(Places, LAMBDA b : heap[b].n = n)) = 1

(***************************************************************************)
(* Packets of the application leave in the order in which it has sent      *)
(* them to their next hop, but for one that was appended when the hop had  *)
(* been learnt: between its lookup and that, the answer has come, so that  *)
(* later ones go at once and it waits for the next.                        *)
(***************************************************************************)
InTurn ==
  \A i, j \in DOMAIN got :
    /\ i < j /\ got[i][2] = "left" /\ got[j][2] = "left" /\ got[j][1] < got[i][1]
    /\ job.sends[got[i][1]] = job.sends[got[j][1]]
    => got[j][1] \in late
=============================================================================
