# Computer-Net: a TLA+ verification project

The repository holds the labs of a computer networks course: hubs, switches, a
spanning tree, a router with ARP, NAT and mOSPF, prefix tries, and a TCP stack
in user space that grows over the labs 14 to 18. Each lab is a program of its
own. The core is the TCP stack of **17-tcp_stack**, the last stage, which has
flow control, congestion control and retransmission in three threads that
share a socket nearly without locks. It is modelled most closely, by four
modules; its earlier stages, the stack and application of lab 18, and each of
the other protocols have a module of their own.

## Inventory

### The TCP stack (17-tcp_stack)

| part | state | operations | used by |
|---|---|---|---|
| ring buffer (`include/ring_buffer.h`) | `head`, `tail`, `size`, the array | `read_ring_buffer`, `write_ring_buffer` | the receiving thread writes, the application reads, both under `rcv_buf_lock` |
| waiting (`include/synch_wait.h`) | `notified`, `sleep`, `dead` | `sleep_on`, `wake_up` | one per purpose: connect, accept, recv, send |
| sock (`tcp_sock.c`) | the state, `snd_una`, `snd_nxt`, `rcv_nxt`, windows, `send_buf`, `rcv_ofo_buf`, queues, tables | bind, listen, connect, accept, read, write, close | applications (`tcp_apps.c`) |
| input (`tcp_in.c`) | counters of congestion control, static and so shared by all socks | `tcp_process` on each packet | the receiving thread (`main.c` to `ip.c` to `tcp.c`) |
| output (`tcp_out.c`) | advances `snd_nxt`, `snd_wnd` | `tcp_send_packet`, `tcp_send_control_packet`, `tcp_send_reset` | all three threads |
| timers (`tcp_timer.c`) | `timer_list`, per sock `timewait` and `retrans_timer` | `tcp_scan_timer_list` every 10 ms | the timer thread |
| ARP cache (`arp.c`, `arpcache.c`) | 32 entries, pending packets per address | lookup, append, insert, sweep | output, receiving thread, sweeping thread |

Three threads meet in a sock: the **application** calls `tcp_sock_*`, the
**receiving** thread runs `tcp_process`, the **timer** thread retransmits. The
locks are `rcv_buf_lock` (ring buffer and `rcv_wnd`), `send_buf_lock` (around
the scan of the timers and the insertion of the SYN and FIN blocks; the calls
in `tcp_sock_write` and `tcp_in.c` are commented out, so that it orders nothing
on the path of data) and the ones inside `synch_wait`. Everything else is
unprotected, which is where the hard behaviours are:

* a test and the action it permits are separate (window, end of stream, timer);
* fields that belong together are assigned one after the other;
* a packet is sent before the sock is ready for the answer;
* an application is woken before what it waits for has happened;
* the network loses packets (`tcp_topo_loss.py`: 2 %), so each packet may be
  missing, repeated by a timer, or answered by a retransmission.

### The other labs

| lab | state | operations | hard behaviours | what makes it correct |
|---|---|---|---|---|
| 03-socket, 18-sock_app applications | parts of a text, counts of letters | master sends parts to workers and adds their answers | parts that are empty; several connections from one process; worker threads that read a dead variable | the sum is the count of the whole text; each sock reads its own answers |
| 04-broadcast | interfaces | each packet to all other interfaces | cycles | every other host gets each packet, once |
| 05-switching | MAC table with times | lookup and refresh, insert, sweep | a station that moves; ageing | a packet goes where its address was last seen |
| 06-stp | per port: designated root, cost, switch, port | config messages, hello timer | any order, old messages, programs started one after the other | one root; the active links are a spanning tree |
| 08-router | ARP cache, pending packets, routing table | forward, ARP request and reply, sweep, ICMP | request and reply and timeout in any order; a sweep that unlocks | each packet is sent to the right MAC or reported, once |
| 09-nat | mappings, assigned ports, rules | translate out and in, timeout thread | timeout against traffic; ports run out | one port per live mapping; translation is its own inverse |
| 10-lookup | three tries | insert, lookup, build | lengths not a multiple of the stride, length 0 | all return the longest matching prefix |
| 11-mospf | neighbours, link-state database, routes | hello, flooding, timeouts, shortest paths | lost, old and repeated updates in five threads | databases agree; routes are shortest |
| 12-bufferbloat | none of its own | scripts over kernel queues | | |
| 14-tcp_stack | socks, hash tables, listen and accept queues, `ref_cnt` | listen, connect, accept, close, TIME_WAIT | packets before the sock is found; both ends close at once | the ends agree on the state of the connection |
| 15-tcp_stack | ring buffer, windows | data, `tcp_sock_read`, `tcp_sock_write` | windows without retransmission | the stream is read as written; both applications end |
| 16-tcp_stack | `send_buf`, list out of order, timer | retransmission, RST | packets and window updates that are lost | what is missing can be sent again |

How they interact. Within a process all is shared memory: the thread of the
packets (`ustack_run`) calls the handler of the protocol, the timer threads
call the same state, applications sleep on a `synch_wait`. Between processes
there are only packets, on links of mininet that keep their order. The
routing table (`rtable`, with `longest_prefix_match`) and the ARP cache serve
the router, NAT, mOSPF and the TCP stacks alike.

`PROJECT.json` lists the components with their files, and the hazards at their
lines.

## Modules

| module | what it is |
|---|---|
| `ByteQueue` | the promise of the receive buffer: a bounded FIFO of bytes |
| `RingBuffer` | `ring_buffer.h`, the indices and the copies that wrap; implements `ByteQueue` |
| `TcpReceive` | lab 17, the receiving half of an established connection: `tcp_process` on data and FIN, `tcp_sock_read`, the reading loop of `tcp_server` |
| `TcpSend` | lab 17, the sending half: `tcp_sock_write`, `tcp_process` on acknowledgements, the retransmission timer |
| `TcpConnection` | lab 17, a connection from `tcp_sock_connect` to the last state of both socks |
| `TcpTable` | lab 14, the connections of several clients to a server, with the tables and queues of their socks |
| `TcpFlow` | lab 15, data and flow control of one connection, with its applications |
| `IpHost` | lab 15, what lies under TCP: interface, routing table, IP, ICMP and the ARP cache of a host |
| `TcpRetrans` | lab 16, a file over a link that loses packets |
| `SockApp` | lab 18, a master and its workers over the stack of that lab |
| `WordCount` | labs 3 and 18, how the text is divided and the counts are added |
| `ArpCache` | `arp.c` and `arpcache.c` of lab 17: lookup, append, insert, sweep |
| `Router` | lab 08: forwarding, ICMP, and its own ARP cache, the sweep of which unlocks |
| `Nat` | `nat.c` of lab 09: translation both ways, rules, the pool of ports, the timeout thread |
| `Lookup` | the list of the routing table (lab 08), the binary trie and the packed trie (lab 10) |
| `Stp` | lab 06: config messages and hello timers |
| `Lan` | labs 04 and 05: hubs and learning switches, in the networks of their scripts |
| `Mospf` | lab 11: neighbours, flooding, the database, shortest paths |
| `*_proofs` | theorems about the module they are named after; those about `RingBuffer` are in `TcpReceive_proofs`, those about `Nat` and `Lan` in `LanNat_proofs` |
| `MC*` | values for the constants; `MCTcpLabs` composes the models of labs 14, 15, 16, 18 and 3 |

An operator named `Mut...` is the definition after it with a plausible bug (a
test dropped, two lines swapped); no specification uses it. It is there to be
put in the place of that definition: TLC then finds the property broken that
`PROJECT.json` ("mutants") names, so the property does depend on the code.

How the modules of lab 17 divide the code. `TcpConnection` looks at states and
sequence numbers, with windows that are always open. `TcpReceive` and
`TcpSend` look at one direction of an established connection: bytes, ring
buffer and `rcv_wnd` in the first, segments and the sender's windows, blocks
and timers in the second. `TcpReceive` lets the peer send whatever one
consistent test of `tcp_sock_write` would allow. `TcpSend` has a peer that
handles a segment in one action; `TcpReceive` takes that action apart. What
the earlier labs share with lab 17 is interleaved as finely as there only
where it differs: lab 14 in the connections, lab 15 in the reader and writer,
lab 16 in the order of loss, retransmission and reading.

### RingBuffer

`head`, `tail` and the array `buf` are those of the struct; `out` is what the
last read copied. Both operations run under `rcv_buf_lock` and are one action
each. The `assert` of `write_ring_buffer` is its guard; whether callers break
it is the subject of `OverflowsOnlyIfTorn`. The refinement maps
`queue` to the bytes between `head` and `tail` (`Contents`).

### TcpReceive

One stream of `Total` bytes, named by position, which the peer has cut into
segments (`Segment`). `rx` is the place of the receiving thread in
`tcp_process`, `rd` that of the application in `tcp_sock_read`. What runs
between two lines where the other thread could interfere is one action; the
line order of the code is the order of the actions: `WakeReader` (254),
`Store` (255-258, under the lock; `Abort` is its failed assertion), `Advance` (259-277), `Acknowledge` (279 and
after). A segment may arrive at any time, any number of times and in any
order, once some acknowledgement has allowed the peer to send it; `edge`
remembers the furthest one, `ack + rwnd`.

The window update of a reader that is about to sleep reads `rcv_nxt` and
`rcv_wnd` without the lock, as two arguments of `tcp_init_hdr`. C leaves their
order open, so it is the constant `AckFirst`. gcc on x86-64 takes `rcv_wnd`
first (`AckFirst = FALSE`), and the runs use that: it is the order that can
grant too much. `torn` remembers that an update has combined an old window
with a new `rcv_nxt`; `GrantsFit` and `OverflowsOnlyIfTorn` say that nothing
else ever does.

### TcpSend

Sizes are in segments; the sequence number a segment *should* have is the
number of its data, so a mistake in `snd_nxt` is visible. Each statement of a
thread that reads or writes what another thread writes is an action. `node`
is the place of the sock's timer in `timer_list`: `"stuck"` when
`list_add_tail` ran on a node that was the last of the list already, which
links it to itself. `avoid_cnt` is bounded below by -1 and `reack_cnt` above
by 4 because the code no longer distinguishes values beyond. A block freed
while another thread sends it is read as it was: the contents of freed memory
are not modelled.

### TcpConnection

`tcp_process` is one action per state and kind of packet, as the branches of
the code are, except `SynAckWakes` and `SynAckEstablishes`, between which
`tcp_sock_connect` returns. `ConnectSend`/`ConnectHash` and
`CloseSend`/`CloseFinish` split what the application does after its packet has
left. `Retransmit` is the timer; the third fruitless one is followed by
`SendReset`. A fast retransmission may happen on any ACK (`ProcessAck`), since
the counters that decide are `TcpSend`'s subject. The first `MaxEarly`
expiries of a timer may come while packets are on the way (then there are
duplicates), the others outlast them. `crashed` holds the hosts
that have dereferenced NULL: no sock found (`LookupFails`) or a child sock at
the end of TIME_WAIT (`TimeWaitExpires`). `reset` remembers that a RST has closed
a sock, the premise of `NoLaterHole` (see *RST in the middle* below).
`Selected` is the walk of `tcp_free_send_buf` over the list.

### ArpCache

A critical section under `arpcache.lock` is an action: `Lookup`, `Append`,
`HandleArp` (with the whole of `arpcache_insert`), `Sweep`. What follows the
unlock is another: `SendFound`, `SendRequest`, `Report`. `at[p]` is the place of
the thread that sends packet `p`; the receiving thread, which sends the packets
of `Forwarded`, handles no ARP while it sends one. `entries` is the table,
`req_list` the set of requests with their `cached_packets` (the order of either
list decides nothing, since an address has one request), `pkt_list` what the
sweep has taken out and not yet reported. `Tick` is a second: it ages entries
and requests and ends the sleep of the sweep. `announced` and `unanswered` are
history: the MAC a host last sent, and how many requests have gone to it since.
A write to index -1 changes no entry; what lies before the array is not
modelled. Nor is the second that may pass between the sweep's reading of the
clock and its taking of the lock, which only makes it treat a request as
younger.

### Nat

Every turn of either thread holds `nat.lock`, so `do_translation` and a pass of
`nat_timeout` are one action each. `mappings` is the union of the lists of
`nat_mapping_list`; a bucket is searched in an order the model leaves open.
`Bucket` stands for the hash of remote address and port, and as in the code the
remote endpoint itself is not compared. `assigned_ports` are the flags that are
set. Port -1 of an empty pool becomes 65535 in a `u16` (`NoPort`). A packet is
its flags and two numbers; endpoints outside and clients send anything, a
server opens no connections. That rule ports lie outside the pool and are
distinct is assumed of the configuration, as it holds of the ones in the
repository.

### TcpTable

An end of a connection is `<<client, "client">>` or `<<client, "server">>`, the
child that the server makes of its SYN. `sk` has what `alloc_tcp_sock` has,
with `bound` and `hashed` for the membership in the tables and `ref` for
`ref_cnt`; `queue` has the two queues of the parent. `Connect` binds and sends
the SYN, `ConnectSleep` hashes and sleeps, and the answer may come in between;
`Close` sends the FIN, `CloseState` sets the state. `HandlePacket` is
`handle_tcp_packet` with `tcp_process`: `AckTo`, `SynTo` and `FinTo` are the
branches on the state, and a packet that finds no sock is a crash of the
process. `Serve` and `Call` are the threads of `tcp_server` and `tcp_client`, to
which `run_application` hands a pointer to a local variable; `Astray` is what
they do when it no longer holds the address. `raced` remembers the connections in which one of the two races
happened that leave the ends apart: `Agree` and `Ended` speak of the others.

### TcpFlow

The reader (`Read`, `Empty`, `Take`, `Woken`) and the writer (`Write`,
`SendPacket`) are interleaved with the thread of the packets, which on the
client wakes the application before the connection is ESTABLISHED (`SynAck`,
`Established`). Windows are those of the code: `rcv_wnd` loses a segment per
segment, a pure ACK sets `snd_wnd` to what the peer advertises, whatever is
still in flight. A write beyond the buffer is the failed assertion
(`aborted`). `Job` is one of the two pairs of applications. `Opened` is the end of
`tcp_sock_accept` too, which makes a child ESTABLISHED whatever it is; `raced`
remembers that the FIN was already there, and `Ended` names it.

### IpHost

Packets are buffers of a `heap` that pass from hand to hand: the application
(`SendNext`, `tcp_send_packet` down to the wire), the thread of the packets
(`HandlePacket`: answer, forward or report; `HandleArp`) and the sweep. Each
section under `arpcache.lock` is an action, so a packet whose next hop is found
leaves in the action of the lookup (`SendByArp`), and one whose next hop is not
is appended in another (`AppendPacket`), with `at` the buffer a thread holds in
between. `Kernel` is the routing table of the kernel and `Device` its devices;
`Rtable` keeps what is in the main table and leads out of an interface that
`init_all_ifaces` has found. `InTurn`: packets to one host leave in the order of
the calls, but for those that were appended after the answer had come (`late`),
and such overtaking does happen; lab 15 compares no sequence numbers, so its
reader then gets the bytes in another order than they were written. `OneOwner`:
each buffer is in one hand, free or not, except those of frames of a type
nobody knows, which are `leaked`.

### TcpRetrans

A handler works on a record of the sock, the packets it sends and the threads
it wakes, so that each branch of `tcp_process` is a function of that record.
`Expire` is an expiry of the timer, which is early while anything else is
under way and then counts as a fault, like a loss. `Expire` for an empty
`send_buf` sends what lies at the list head (`First`); after a RST no timer
is followed further. A window of 0 with a segment waiting makes the loop that
sends empty segments (`Spinning`), which goes on until something changes.

### SockApp and WordCount

`SockApp` is the network side of lab 18: process 0 is the master, which opens
a sock per line of `workers.conf`, writes a part on each, then reads and
closes them in turn. `PortInUse` reads what `tcp_port_in_use` reads: half of a
pointer that is NULL, instead of a port. So `GetPort` gives every sock of the master
the same one, and a packet finds the sock by its worker alone (`Established`). `Target` has two lines
with the same worker, as well as with different ones. Lab 18 has the tables of
lab 14 and the data path of lab 15; what can come between the statements of a
read or a close is shown there. `WordCount` is what is written and read: the
parts (`Part`, with its unsigned end), the counting, the sum. It serves lab 3
too, where a worker loops and converts its last message again when the master
has gone (`ServeAgain`).

### MCTcpLabs

The labs 14, 15 (TCP and, as "host", what lies below), 16, 18 and 3 in one specification: `lab` says which one a
behaviour is of, and the variables of the others are `Unused`. Each of its
properties holds for each lab what the properties of that module say.

### Router

`HandleIp` is `handle_ip_packet` up to the ARP lookup, `AppendPacket` the
append; `HandleArp` the answer, with the packets that waited. `Sweep` takes the
lock, and `Report`, `AppendReport`, `Drop` are the steps for each packet it
reports, between which it holds no lock and keeps the pointers it has saved.
`Dangling` says that the request it points to is gone; the step that then
follows the pointer sets `misused`, and nothing is said of what comes after.
A message about a packet is a message of the router, which waits like any
other; `fate` says what became of each packet of a host. The routing table is
what the kernel has and an interface serves (`Kernel`, `Device`, `Rtable`), and a
line may name a gateway (`Via`). In the run a host lies behind another, and a
line of the kernel leads to `lo`.

### Lookup

The list is folded in its order. A trie is a function from the paths that lead
to its nodes; the multi-bit trie keeps which slots of a node have which
length, and `BuildPoptrie` numbers its nodes depth first into the arrays `N`
and `L`, as the recursion of the code does. `PoptrieLookup` counts set bits.

### Stp

`port` is what each port has designated, `sw` the fields of the switch. Lock
`stp->lock` makes the handling of a packet one action: a better config
(`HandleSuperior`: the root port is chosen anew, ports are taken over, configs
sent), a worse one (`HandleInferior`: the port says who is designated), the
same one. `HelloTimeout` runs on a switch that takes itself for the root.
Programs are started in any order, and what is sent to one that is not
running is lost (`Sent`). The cost passes through `ntohll`, which is meant for
64 bits: built without optimisation it comes out intact, with -O1 and above as 0.
`CostSurvives` says which; the Makefile has no -O, the runs use `TRUE`.

### Lan

A frame is its source and destination; `HandlePacket` takes one from a port of
a hub (`HubRun`, `Broadcast`) or of a switch (`SwitchRun`: look up and refresh,
learn, `Target`), whose interfaces are the devices that are named like theirs. The
table is a function of the address, for the code keeps one entry of each.
`Sweep` is one second. `Move` plugs a station in elsewhere. `bounced` remembers
the frames that a switch has sent back to where they came from.

### Mospf

A pass of each of the five threads and each packet is one action under
`mospf_lock`: `HandleHello` and `NbrTimeout` (which send an LSU at once),
`PeriodicLsu`, `HandleLsu` with its flooding, `DbTimeout`, `Spf`. LSUs of one
link keep their order, on different links they overtake. `Spf` follows the two
nested loops of `spf_thread`, whose inner loop changes its own index
(`Routed`), and the interface that is NULL for a router that is no neighbour
(`crashed`). Links go down with what is on them, and may come back.
`SpfShortest` does not use them: it takes the graph of the database (`Adjacent`), the
ways through it (`Ways`) and the neighbours a shortest way begins with (`Nearest`),
and asks that the installed routes to hosts lead to one of these. It says so of
every database that is `Consistent`, also one that is behind the network, and it
names the entries that get the route of another (`Reused`). Of the subnets
between routers it says nothing: they keep the first route they get, which the loop
may give them to a neighbour whose entry is before that of their router.

## Runs

| run | bounds | shows |
|---|---|---|
| `ring_buffer` | capacity 4, two byte values | all positions of head and tail, all wraps, full and empty: a FIFO |
| `receive` | MSS 2, window of 3 segments, 10 bytes in 6 segments of which the fourth and the last are short, order of gcc | the stream in order, the out-of-order list sorted, the window the free space in whole segments, too much granted only by a torn update, the reader never left asleep |
| `send` | window 3, ssthresh 2, one loss; 5 segments and no expiry, or 2 segments and one expiry | no lost wake-up, nothing unacknowledged is freed, waiting data has its timer; all is written and acknowledged when nothing is lost |
| `connection` | 2 segments, one loss, four expiries of which one early, so that a timer may give up | the socks agree, what is missing can be sent again, until a RST no hole after the first segment, `tcp_sock_accept` returns |
| `tcp_labs` | 14: two clients; 15: echo of 2 segments, files of 2 and 3 in a window of 3 and of 4 in one of 2; below TCP, a host with up to two packets to send and up to three to receive, six buffers, one slot; 16: 2 segments, window 3, two faults, two retransmissions; 18: two socks, to two workers or one; 3: texts up to 5 characters, 2 or 3 workers | the ends agree, what is read is what was written, packets leave in turn and each buffer has one owner, what is lost can be sent again, each sock reads its own answers, every application ends, but for the ways not to that each module names |
| `arp` | three packets for two hosts, one forwarded; a slot per host, two MACs, entry timeout 1 s, 2 retries | a packet is sent or reported, once and in the end; an unanswered host is given up after that many requests; the table agrees with what hosts last said |
| `router` | four packets (forwarded, TTL 1, echo, no route), two hosts, two slots, one retry, entries that age at once | one thing becomes of each packet, in the end; only silent addresses are given up |
| `nat` | two clients, a server with a rule, two remote endpoints in one bucket, a pool of one port, sequence numbers all 0, timeout 0 s | ports neither leak nor serve two mappings, translation is symmetric, ports come back |
| `lookup` | addresses of 4 bits with up to 3 lines, of 6 bits with 2; stride 2 | the list and both tries return the longest match |
| `stp` | four switches: the ring of `four_node_ring.py`, a row, a star; a switch sends hellos until two packets wait for it | costs are those of real paths, root ports never form a cycle, roots only improve, a spanning tree in the end |
| `lan` | two bridges in a tree with three stations of which one moves, 2 frames; `cycle_net.py` with 1 frame; timeout 2 s | what is learnt leads to the station, frames come once on a tree and come at all in a cycle, a wrong entry is forgotten |
| `mospf` | three routers in a line with a link that fails, or a ring; one LSU at a time, or two in the ring; TTL 4; every network of up to five routers with hosts on each, when all have heard of each other | the routes to hosts are the shortest by the database, but for those of the reused index, and `spf_thread` crashes only when the database is not `Consistent`; databases never go back, and are accurate in the end |

Each takes between a few seconds and three minutes.

Why these bounds. The stream of `receive` is longer than a window and than a
read, so the window shuts and opens, segments beyond a missing one are kept
and drained, and a short segment is charged with full ones; three segments of
window are the least for a list of two entries that may be out of order.
With one loss, five segments give three duplicate acknowledgements, a fast
retransmission and the partial acknowledgement after it; every action of the
three threads but the expiry occurs. Two segments suffice against the timer
thread: one to be freed and one to rearm for. Four expiries are three fruitless
retransmissions of one block, the RST, and one for another block. `U16` and
`U32` stand for the widths of `rcv_wnd` and `snd_wnd`; they need only be larger
than any value the counters should take, so that a wrapped one is told apart.

`GrantsFit` needs a writer whose calls are longer than a window, as the file
transfer of `tcp_client` is: 100000 bytes against 65535 (`CallAssumption`). Then
at most the last segment of a call is short, and two short ones are never in
the buffer together, but for the last of the file, which may follow the one of
the call before it closely. The stream of the run ends in such a pair. What the
second one costs beyond its bytes `rcv_wnd` does not get back, so the equation of
`GrantsFit` ends with the stream, and `<=` remains. `WindowAssumption` is what
`alloc_tcp_sock` and `tcp_server` do: the window is 44 segments of 1460 bytes, and
one read asks for 100000 bytes, so a read empties the buffer. With calls or reads
shorter than that `GrantsFit` fails; see the known races.

In `tcp_labs`, two clients are the least that queue for `tcp_sock_accept` and
that may close first and last; a file of 4 in a window of 2 fills the buffer, one
of 2 in a window of 3 does not even if it is not read, so that what hangs hangs for
another reason: the FIN is there before `tcp_sock_accept`.
In lab 16 two faults lose a segment and its retransmission, or the ACK of the
handshake and the segment after it; two retransmissions are the least where a
counter matters. The texts have fewer, as many, and more characters than
workers.

In `arp` two packets share an address, so one joins the request of the other,
or makes a new one after an answer came between its lookup and its append; a
second host competes for the slots, so that a mapping is overwritten and the
table gets full; two retries give a resend and a surrender, timeout 1 lets an
entry expire while the request for its successor is open. In `router` each
packet takes another branch of `handle_ip_packet`, and one retry is enough
for a request to be reported while another is appended to.
In `nat` the second connection finds the pool empty and the endpoints that
share a bucket share mappings. Its sequence numbers are all equal, so that the
comparison in `is_flow_finished` always holds: a mapping whose FINs are not
acknowledged stays for the same reason as one without FINs.

In `lookup`, three lines give a prefix, a longer and a shorter one, in every
order, across the border of a level; 6 bits give a third level. In `stp` four
switches are the least that have two ways to the root and a loop to break. In
`lan` two bridges are the least where one learns through another; a third
closes a ring. `mospf` has the longest path, a partition, and two ways around.
Five routers are the least where the reused index changes the route to a host: the
fourth entry of the database then gets the route to a router farther away, which is
the second and is reached by way of the first. Router 1 has heard of the others in the order of their numbers;
taking all 1024 networks stands for any order. Such orders come about: a neighbour
met late, or one whose link was down until its entry had timed out, is last. With
five the run starts when all have met (`Met`), for the databases of five routers that
still meet are too many.
Its `TypeOK`, like the type invariants of the other new modules, is a conjunct
of the first invariant of the run.

### Known races

The models have these behaviours too, and the properties are stated around
them; each follows from the lines named, and no property that holds could
exclude it.

Lab 17:

* *End of file too early* (`tcp_sock.c:436-438`): `tcp_sock_read` finds the
  buffer empty; the last segment and the FIN arrive; it sees CLOSE_WAIT and
  returns 0 with bytes unread.
* *Beyond the window* (`tcp_in.c:240`, `tcp_sock.c:458`): the writer tests
  between the assignments of `snd_una` and `adv_wnd`, and may send more than
  the peer has room for.
* *Connected too early* (`tcp_in.c:155`): `tcp_sock_connect` is woken, and may
  return, in SYN_SENT.
* *Sleeping on data* (`tcp_in.c:254`, 266): the reader is woken before the
  bytes are stored, may find none and sleep again; the bytes wait for the next
  segment or the FIN. `EventuallyFinished` holds since one of these comes.
* *Short segments* (`tcp_in.c:257`, `tcp_sock.c:447`): each takes an MSS off
  `rcv_wnd`, and a read gives back the bytes it took, rounded up once. Two
  short segments read together leave the window too small for good.
* *Torn update* (`tcp_out.c:81-82`): see `torn` above.
* *`snd_wnd` wraps* (`tcp_out.c:57`): the writer tests it, the receiving
  thread lowers it, the writer decrements it; a retransmission does not test
  at all. The congestion window is then ignored until the next ACK. `TypeOK`
  of `TcpSend` holds because the model wraps as C does.
* *`snd_nxt` rewritten* (`tcp_timer.c:45-63`, `tcp_in.c:112-125`): a
  retransmission sets it back, sends, and restores the value it has saved. A
  writer in between takes the low number for its segment, or has its own
  advance undone: two segments share a number. So `SleepsOnlyIfShut` and
  `UnackedIsKept` carry the premise `NothingSentAgain`.
* *A timer for nothing* (`tcp_sock.c:472`, `tcp_timer.c:34`): the writer may
  arm the timer after the acknowledgement of its block has emptied `send_buf`;
  the expiry then reads the list head as a block.
* *No sock* (`tcp_sock.c:307-314`): a SYN|ACK that arrives before `tcp_hash`
  finds no sock, and `tcp_process` dereferences NULL (`LookupFails`).
* *Data completes the handshake* (`tcp_in.c:287-291`): when the third packet is
  lost, the first segment takes its place; it is acknowledged, its bytes are
  dropped. `NoLaterHole` speaks of what comes after.
* *RST in the middle* (`tcp_in.c:145-149`): a RST closes the sock of an
  application that still writes, and that sends a FIN: one with the number of
  the next segment. The application goes on in FIN_WAIT_1 or LAST_ACK, where
  the next packet of the peer moves `rcv_nxt` past what it carries, and drops
  it. So `NoLaterHole` ends at a RST. The bounds of the run do not reach the
  hole; three segments, two losses and six expiries do.
* *FIN before its state* (`tcp_sock.c:420-426`): the ACK of the FIN may be
  processed before LAST_ACK is set; TCP_CLOSED is then never reached.
* *Accepting a closed child* (`tcp_sock.c:394`): `tcp_sock_accept` sets
  ESTABLISHED on a child that is in CLOSE_WAIT; its reader never sees the end.
* *`cwnd` 0* (`tcp_in.c:228`, `tcp_timer.c:40`): two timeouts make `ssthresh`
  0, a third duplicate then halves `cwnd` to 0, and the sender waits for ever.
* *Child in TIME_WAIT* (`tcp_timer.c:26`): a child sock was never in the bind
  table, and `tcp_bind_unhash` uses its NULL `bind_hash_list`.
* *Shared counters* (`tcp_in.c:130`): `reack_cnt`, `last_ack`, `reseq` and
  `avoid_cnt` are static, and so common to all connections of a process. The
  models have one connection.
* *No slot* (`arpcache.c:89`): with the table full, what a host has answered is
  written before the array.
* *Answer between lookup and append* (`arp.c:106-114`): the packet waits for a
  second answer, and packets to one host may overtake each other.
* *Any slot* (`arpcache.c:89`): a mapping in use is overwritten while others
  are free; its next packet asks again.
* *Stale MAC* (`arp.c:106-110`): the MAC is used after the lock is released.
* *No port left* (`nat.c:57`): all connections beyond the pool get port 65535,
  and incoming packets for it reach one of them. `Symmetric` excludes it.
* *Shared mapping* (`nat.c:81`): a client's connections from one port to two
  servers in one bucket share a mapping; the end of either ends both.
* *FIN after RST* (`nat.c:113-123`): `fin` goes from 2 back to 1 on one side,
  and the mapping stays until the timeout.
* *Crossing FINs* (`nat.c:223`): each FIN acknowledges the start of the other,
  which is taken for its end; the mapping is dropped and the last ACKs are
  refused.

Labs 3, 14, 15, 16 and 18:

* *No sock* (`14-tcp_stack/tcp.c:78`): a SYN before `tcp_sock_listen`, a SYN
  and ACK before `tcp_hash`, and the end of TIME_WAIT of a child lead to NULL.
* *Every port is free* (`14-tcp_stack/tcp_sock.c:177`): the walk over the bind
  table reads the wrong member, so each sock gets `PORT_MIN`, and a second
  connection between the same hosts is refused in silence (`Again`).
* *Overtaken* (`15-tcp_stack/arpcache.c:33`): a packet appended when the answer
  has come already waits for the next answer, while later ones leave at once.
* *Reports about reports* (`15-tcp_stack/icmp.c:59`): the report about a packet of
  the host itself is sent to its own address, for which nobody answers, and is
  reported in turn, for ever.
* *ACK and window* (`15-tcp_stack/tcp_in.c:68`): see `TcpFlow`; a reader does not
  tell of room it has made, so a sender may sleep for ever after the buffer was
  full, or overrun it.
* *Accepting a closed child* (`15-tcp_stack/tcp_sock.c:358`): as in lab 17, a child
  that is in CLOSE_WAIT when it is accepted is made ESTABLISHED; its reader takes
  what there is and then sleeps for ever (`raced`).
* *Skipped segments* (`16-tcp_stack/tcp_in.c:202`): a child in SYN_RECV takes the
  end of whatever comes for `rcv_nxt`.
* *Old duplicates* (16): a segment that has been taken is dropped without an
  ACK, the ACK of a FIN is never repeated: the sender gives up with a RST, to
  which the other end replies with its own FIN. A lost window update stalls
  both (`Stalled`).
* *Dead variable* (`18-sock_app/main.c:276`, `14-tcp_stack/main.c:276` and 285): the
  port of a worker or server, in lab 14 also the address a client calls, is read through
  a pointer to a local variable of a function that has returned.
* *Empty part* (`03-socket/server.c:57`): with fewer characters than workers
  the end of a part is 2^32 - 1, and the worker counts for ever.

The other protocols:

* *Freed request* (`08-router/arpcache.c:191`): the sweep unlocks to report a
  packet, and goes on with its pointers to a request that has been answered.
  A packet that joins the request meanwhile is freed unreported.
* *Reports of reports* (`08-router/icmp.c:45`): an error waits for an address
  like any packet; two about the router itself keep the sweep in its loop
  (`Caught`). The comment at `arpcache.c:74-78` says that a request is sent at
  once and every second; it is first sent by the sweep. Six go out, not five.
* *Duplicate entries* (08, `arpcache_insert`): an address is not looked for
  before it is inserted; a stale MAC is found until it is 15 s old.
* *Shadowed port* (`06-stp/stp.c:217`): a port is taken over by a comparison of
  costs alone, so one that still names an old root may keep that role, and
  what lies behind it never hears of the better root. It happens in the row and
  the star, not in the ring of the lab.
* *Cost lost* (`06-stp/stp.c:187`): `ntohll` of 32 bits is 0 when gcc optimises;
  every switch then sees the root one link away.
* *Known address* (`05-switching/main.c:50`): a station that has moved is not
  learnt again while its entry is looked up, in either direction. A frame
  whose destination is behind the port it came from is sent back there
  (line 48). Swept entries are not freed.
* *Reused index* (`11-mospf/mospf_daemon.c:409-420`): the inner loop of
  `spf_thread` sets its own index, and routes later entries like the node it
  visits. The visits of those entries mostly put that right for their hosts, but
  not when they were visited before: in a network of five routers the hosts of one
  can get the route to a router farther away (`Reused`).
* *No interface yet* (`mospf_daemon.c:428`): a router known from an LSU before
  its hello has no interface, which is dereferenced. `Consistent` says when this
  cannot happen. *Own subnet*
  (line 424): a subnet that one end advertises as without neighbours replaces
  the direct route of the other, for good (`Misled`).
* *Bits beyond the length* (`10-lookup/poptrie.c:36-44`): a prefix with such bits
  writes outside its node. Only 8 bytes of `N` and `L` are cleared (107-109).
  Prefixes of length 0 are stored as none. The models assume well-formed lines
  and fresh pages.

### Deadlock

`RingBuffer`, `ArpCache`, `Nat`, `Stp` and `Lan` never stop, and TLC checks that. The
others do: `TcpReceive` when the reader has finished or the process has
aborted, `TcpConnection` when both socks are done or the bounds are used up,
`TcpSend` when a lost packet would need more expiries than the bound, the
labs in `MCTcpLabs` when their applications have ended or hang as named,
`Lookup` when the trie is built, `Router` when freed memory has been used, `Mospf`
after a crash or when no news are left. A stop before that violates the liveness
property of the run.

### Fairness

Threads are never stopped by the code, so each thread's actions are weakly
fair (`Rx`, `Reader`, `Writer`, `Tm`, the applications). The timer of a sock
goes off every 200 ms as long as it is in the list: `Expire` is weakly fair,
`Retransmit` strongly, because acknowledgements may empty and refill
`send_buf` in between. In `TcpReceive` a segment is retransmitted until it is
acknowledged and the path loses 2 % of its packets, independently: the
reception of the segment that is next, and of the FIN, is strongly fair. In
`TcpSend` the peer's process is fair, and `AllWritten` is conditional on no
loss; an expiry of the timer is then not needed. In `TcpConnection` the losses
are fewer than the expiries allowed. Nothing is assumed of `Lose`, there or
in lab 16. In `ArpCache` each thread that has begun to send goes on, the sweep
and the clock too; that a host ever answers is not assumed. In `Nat` only the
timeout thread and the clock are fair, and `Reclaimed` asks for ports when
packets stop. In `MCTcpLabs` the system as a whole goes on (`WF` of all steps
but losses), which is enough as every application ends after finitely many of
them. In `Router` the two threads and the clock are weakly fair. In `Lan` each
port is, since poll serves all interfaces, and so is the sweep. In `Stp` a program is
started and a packet handled (weak); the hello timer of a root runs out
every two seconds, but the bound `MaxHellos` turns it off and on again as
packets come and go, hence strongly fair. In `Mospf` hellos, LSUs and timeouts
go on; `Spf` is not needed for the databases to agree, and nothing is assumed
of links.

## Proofs

The eight proof modules are checked by TLAPS for all values of the constants that
satisfy the named assumptions, which each module states next to its constants:
sizes are natural numbers and not 0, a segment ends where a call of the writer
may cut it, a rule's port lies outside the pool, a cable has two ends, and the
like. TLC evaluates them with the values of its runs.

**RingBuffer.** `RingTypeCorrect`: the indices stay in the array. `RingTypeOK` is
inductive by itself, given that a remainder modulo `size` lies below `size`.
`RingBufferIsFifo`: `RingSpec => Fifo!Spec`. The initial array is an empty queue;
a write appends to `Contents` and a read takes a prefix. The lemmas say what
the copies do at one index, wrapped or not, and that `(head + i) % size`
determines `i` below `size`, which is why one slot stays free: with all of
them used, `head = tail` would mean both empty and full.

**TcpReceive.** `ReadInOrder`: what the application has read, followed by what
is in the buffer, is the stream. That is not inductive: it must also be known
how many bytes those are. `Position` says so: `Len(got) + Len(rcv_buf)` is
`rcv_nxt`, or the end of the segment being stored when `Store` has run and
`Advance` has not; and the segment in hand starts at `rcv_nxt`. With it
`DeliveredInOrder` is preserved: `Store` appends the bytes that begin where
the buffer ends, `ReadBytes` moves a prefix from one to the other. Nothing
about the order of the out-of-order list is needed, nor about windows: a
segment is taken from the list only if it starts at `rcv_nxt`. `TypeCorrect`
follows the same way; `rcv_nxt <= Total + 1` needs that the FIN is taken only
in ESTABLISHED with `rcv_nxt = Total`, and a segment only with its start at
`rcv_nxt`. `ListIsSorted`: the out-of-order list is sorted by the ends of its
segments. The insertion puts a segment before the first that ends beyond it, and
only if none ends where it does; the drain removes from a sorted list.

`GrantsAlwaysFit` and `OverflowNeedsTornUpdate` are about the window, for which
the two threads keep no record but `rcv_wnd`. `Window` is the inductive
invariant. The threads charge and give back in units of MSS, so what is in the
buffer matters by its length and by whether a short segment is in it
(`Aligned`); while there is at most one, charging a segment adds what rounding
up the buffer's length does, and a read, which empties the buffer, gives the same
back (`Credit`). A short segment followed by another within the window is the
last of the stream, whence `Total` in `Credit`. The rest is what connects the
window with what arrives: whatever has been kept or is in hand was allowed
(`Allowed`), and `edge` lies within a buffer's length of what has been read, or
one beyond when the FIN has been counted (`EdgeFits`). An update of the reader
reads its two fields with the receiving thread in between. With `AckFirst` the
old acknowledgement is the smaller, which `EdgeFits` records; with the other
order the sum may be too large, which sets `torn`. What is stored without `torn`
was allowed, therefore fits, and the assertion holds.

**TcpSend.** `TimerAlwaysRuns` is `TimerRuns`. Its invariant only adds that an
enabled timer has its node in the list: `tcp_set_retrans_timer` and
`tcp_unset_retrans_timer` are the only ones to touch either. It holds whatever
the numbers are, hence also after expiries and with any wrapping.
`NoLostWakeUp` and `UnackedAlwaysKept` need the numbers. Since `snd_wnd` wraps, that
anything stays in its range is no matter of course: `Numbers` says where each of
the copies that threads carry about lies (`snd_una <= rcv_nxt <= snd_nxt`, headers
and blocks above 0 and below `snd_nxt`, all at most `Segments + 1`), and is
inductive with `TypeOK` as long as the timer has not expired (`Sound`). `Undisturbed` then
says what holds until anything is sent again. `Kept`: the blocks of `send_buf` are
consecutive and end where `snd_nxt` stands, up to the one in the writer's hands,
so what is freed is acknowledged and what is not has its block. `Asleep`: if the
writer sleeps with its window open, either the notification is there or the
receiving thread is on its way to `wake_up`. `Reasons` is about the premise: it
says when a thread is in a place that only a retransmission leads to, so that
`NothingSentAgain` is known to have been false before and stays so. Without the premise
both are false; a run finds the counterexample in the known race *`snd_nxt`
rewritten*.

**TcpConnection.** `SocksAgree` is `AckAgreement`, `WhatIsMissingIsKept` is
`UnackedKept`. Neither is inductive, and neither can be shown without the other:
`snd_una` and `rcv_nxt` are copied from packets, which are older than the socks
that they reach. `Lists` says that all such copies are sound: a packet on the
wire, however late or often it comes, acknowledges no more than its sender has
received, and what it carries has been numbered (`Sent`); so have the blocks of
`send_buf` (`Held`), the segments out of order, and the FIN that
`tcp_sock_close` has sent before it appends the block. Numbers only grow, so a sound
copy stays sound (`Grows`). An acknowledgement then frees only what the other
end has received (`Kept`). The five places where `rcv_nxt` moves are alike but for
the opening: there it is *set*, to whatever arrives, and would go back if
anything had been received before. `Opening` says how far the other end can be while
`tcp_sock_connect` sleeps or the SYN|ACK is being handled, and `Listening` that the
child of the server is as new as it looks.

`NoHoleInData` is `NoLaterHole`, by a second invariant (`DataInv`) over the first:
until a RST a FIN of the client is numbered after all segments wherever it
is (`FinIsLast`), so a server that has moved past it has moved past all of
them; and nothing is stored before the connection is established
(`StoredLater`), so the packet that completes the handshake in the place of a
lost one, and is dropped, leaves no hole behind a stored segment. `ProcessData`
drains the list up to the first segment that is missing, which is where `rcv_nxt`
stops (`FollowingInterval`). The proof is what showed that the property needs
`~reset`: without it the step of `ProcessFinWait1` fails.

**ArpCache.** `PacketsAreKept` is `ExactlyOnce`: each packet is with its thread,
in a request, in `pkt_list`, sent, or reported, and in only one of these. It is
preserved only together with `OneRequest` (`RequestsAreUnique`): an answer
removes the requests of one address, and their packets are in no other because
a packet waits under its own next hop. The sweep replaces `pkt_list`; that
loses nothing since it has reported all of it before it scans again
(`AllReported`). `TableIsFresh` is `Fresh`: an answer renews the
entry of its address, or takes a slot, whichever it is, only if there is none,
and what it writes is `announced`. `GivenUpOnlyIfAsked` is `Tried`: a resend of the sweep
counts in `retries` and in `unanswered`, and a first request is on its way with the
thread that makes it; an answer removes the request and resets the count.

**Router.** `OneThingBecomesOfIt` (`OneFate`) and `OnlyTheSilentAreGivenUp`
(`OnlySilent`), for all routes, hosts and packets; both end where the sweep
follows a pointer to freed memory (`misused`), or is about to (`Dangling`). The
invariant says of each packet (`Place`) that it is in hand, at one place of
one request, or gone, with one fate if it is gone and none before; the exception
is the packet that the sweep has just reported, which still heads its request
(`AtHead`). A request is known by its next hop and not by its place in
`req_list`, since an answer removes others from the list while the sweep is
unlocked. That is sound because no next hop has two requests (`Unique`), and the
pointers of the sweep are good for as long as its address has not been answered
(`Pointed`): requests are only removed by an answer or by the sweep itself.
`Counted` bounds `retries` by the requests an address has left unanswered. That a
packet that waits has a next hop at all needs that `longest_prefix_match` chooses
among the lines that match (`LongestMatches`). `FatesAreFinal` is the action
property that follows: fates only grow (`FatesGrow`), and one that has grown
would be two, which `Place` excludes.

**Lan.** `LearntLeadsThere` (`LearntPort`) and `NothingComesTwice` (`OnceOnly`),
for every network of hubs and switches, whatever its topology. `Learnt`: as long as no
switch has sent a frame back, each copy is at a port on the side of
which its sender lies, *beyond the port it comes to* (`ComesFrom`), so what is
learnt there leads to the sender. That needs no tree; but in a cycle everything
lies beyond every port, and it says nothing. `Cover` is about one frame on a tree:
the copies on the way have disjoint parts of the network before them
(`Out`, `Split`), none of which holds a station that has received it, or its
sender (`Seen`). A hub or a switch replaces a copy by copies at other ports, whose
parts are disjoint parts of the one it had. That is where the tree comes in: what
lies beyond two ports of a bridge has no port in common. And a copy that is sent
back where it came from has before it what has been served, hence `bounced`.

**Nat.** `PoolIsExact`: a port of the pool is assigned exactly while one mapping
has it. `TranslationIsSymmetric`: what is found for the answer to a packet is
the mapping of the packet. Both need where a port may come from (`Origin`: the
pool for clients, a rule for servers), and that a bucket holds one mapping per
inside endpoint (`OnePerFlow`), which holds since a new one is made only if none
is found.

**Mospf.** `EntriesAreUnique`: a database has one entry per router. Only
`Stored` and the removal of a single entry change it, and `Stored` appends only
if there is none. From that `NeverReplacedByOlder`: the action property
`NeverOlder`, for any network, any number of routers, any failure and any order
of LSUs. Without unique entries it is false, since a second entry may be older.
`DbTimeout` needs a word: after it an older LSU could be stored again; the
property compares an entry with its successor in one step, and an LSU that
arrives later starts anew.

**Stp.** `RootsImprove` (`RootOnlyImproves`) and `RootPortsLeadCloser`, for every
topology and any number of packets in flight, given `CostSurvives`. Compare
(root, cost) lexicographically. The invariant speaks of one direction of a
link (`LinkOk`): the packets on it get no worse, the sender is no worse than the
last of them, and the first is no worse than what the receiving port holds from
that sender. So a worse config never arrives on a root port (which is what would
make a switch give up its root), and (`SwitchOk`) what a root port holds is one
link less than the switch has. Since the sender is now no worse than the port,
it is strictly nearer than the switch, hence no cycle. That is not inductive
without the order of the packets: an old config behind a newer one would undo
it. With a cost that comes out as 0 the comparison fails, and the theorems say
nothing of such a build. `CostsStayReal` (`CostsAreReal`) has a second invariant
over the first: for all that names a root, switch, port or packet, there is a way to that root
of just that cost (`Grounded`). A switch adds 1 to what its root port holds, which
by `SwitchOk` came from the other end of the link. That a cost is then not below the
`Distance` needs that the shortest way is short enough to be among those `Hops`
looks at: it visits no switch twice, or it could be cut (`WalkCut`), so it is not
longer than there are switches (`ShortestIsBounded`), which therefore are finitely many.

Only model-checked:

* `Agree`, `Stream` and `Kept` of `MCTcpLabs`, which each say one thing of six
  programs; their parts for labs 15 and 16 are about streams of sequences in flight,
  and what is proved about lab 17 is their harder form.
* `AllLongest` of `Lookup`: the tries are built by folds and read by recursion.
  What a recursive definition computes for every input needs induction over data,
  which is out of the prover's reach.
* `SpfShortest` of `Mospf`: paths, visits and routes are folds over the database,
  and need induction over data too. TLC checks it for all networks of up to five
  routers; what it says of six and more is not checked.
* Liveness (`EventuallyFinished`, `AllWritten`, `Accepted`, `Ends`, `Settled`,
  `Reclaimed`, `Converges`, `Reached`, `Forgets`), which rests on fairness.

## What the models leave out

* Checksums, header layout, logging, IP options: no control depends on them.
* Races inside list operations and use of freed blocks (undefined behaviour
  with more outcomes than a model helps with). `TcpSend` keeps what an
  undisturbed `list_add_tail` or `list_delete_entry` leaves; `Router` stops
  where freed memory is used.
* Wrap-around of sequence numbers: a stream is far shorter than 2^32.
* A lost window update in lab 17: the reader sends it once, the sender never
  probes, so the connection stops. `TcpReceive` assumes it arrives, in `TcpSend`
  losses and liveness are not combined; `TcpRetrans` has it.
* Several connections in lab 17, and its shared counters. The backlog and the
  queues are in `TcpTable`.

## Not modelled

* *Device access*, partly (`main.c`, `packet.c` and `device_internal.c` of each
  lab): raw sockets are I/O. Which devices become interfaces and which frames are
  taken from them is in `Lan`, `Stp`, `Mospf`, `Router` and `IpHost`.
* *Bufferbloat experiments* (lab 12): scripts over the queues of the kernel.
* *TCP connections* and *lab 14*, partly: more than one connection of lab 17, and
  the allocation of ports where each host has one sock (it is in `SockApp`).

## Plan

1. *(done)* a module for each protocol and each stage of the stack; the runs above.
2. *(done)* proofs for `RingBuffer`, `TcpReceive`, `TcpSend`, `TcpConnection`,
   `ArpCache`, `Router`, `Nat`, `Lan`, `Mospf`, `Stp`.
3. Two sending socks over the static counters of lab 17.
4. *(done)* `Spf` with five routers, where the reused index matters.
5. A proof of `Stream` for `TcpFlow`.
