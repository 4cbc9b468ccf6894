--------------------------- MODULE TcpConnection ---------------------------
(***************************************************************************)
(* The life of one connection of 17-tcp_stack, from tcp_sock_connect and   *)
(* tcp_sock_accept to the last state of both socks.  tcp_client connects,  *)
(* writes Segments full segments and closes; tcp_server accepts, reads     *)
(* until tcp_sock_read returns 0 and closes.                               *)
(*                                                                         *)
(* Each host has an application thread, the thread that receives packets   *)
(* and the timer thread.  tcp_process is one action, except where it wakes *)
(* the application in the middle; the calls of the application that send a *)
(* packet before they have changed the sock are two.  Between the hosts is *)
(* one path (the topology of tcp_topo_loss.py), which loses packets but    *)
(* keeps their order.  Sequence numbers start at 0, as tcp_new_iss has it, *)
(* and a segment is one of them.  The windows are TcpSend's and            *)
(* TcpReceive's subject: here they are always open.                        *)
(***************************************************************************)
EXTENDS Integers, Sequences, SequencesExt, FiniteSets

CONSTANTS
  Segments,   (* segments the client writes                                *)
  MaxLoss,    (* bound on the packets lost                                 *)
  MaxTimeout, (* bound on the expiries of the retransmission timers        *)
  MaxEarly    (* how many of these, the first ones, may come while         *)
              (* packets are on the way; the others outlast them           *)

ASSUME BoundAssumption ==
  Segments \in Nat /\ MaxLoss \in Nat /\ MaxTimeout \in Nat /\ MaxEarly \in Nat

Host == {"client", "server"}
Peer(h) == IF h = "client" THEN "server" ELSE "client"

VARIABLES
  state,      (* of the client's sock and of the server's child sock       *)
  snd_una, snd_nxt, rcv_nxt,
  send_buf,   (* the blocks not yet acknowledged; the retransmission timer *)
              (* runs while there are any                                  *)
  hashed,     (* the sock can be found by tcp_sock_lookup_established      *)
  stored,     (* sequence numbers of the segments put into rcv_buf         *)
  ofo,        (* those kept in rcv_ofo_buf                                 *)
  unread,     (* rcv_buf holds bytes                                       *)
  accept_queue, (* the child is in the listener's accept_queue             *)
  notified,   (* of wait_recv                                              *)
  wire,       (* wire[h]: the packets on their way to h                    *)
  rx,         (* where the receiving thread is                             *)
  app,        (* where the application is                                  *)
  fin,        (* the sequence number of the FIN tcp_sock_close has sent    *)
  crashed,    (* hosts whose process has dereferenced NULL                 *)
  reset,      (* history: a RST has closed one of the socks                *)
  lost, expired (* losses and timeouts so far                              *)

sockVars == <<state, snd_una, snd_nxt, rcv_nxt, send_buf>>
rcvVars == <<stored, ofo, unread, notified>>
envVars == <<crashed, reset, lost, expired>>
vars == <<state, snd_una, snd_nxt, rcv_nxt, send_buf, hashed, stored, ofo, unread,
          accept_queue, notified, wire, rx, app, fin, crashed, reset, lost,
          expired>>

-----------------------------------------------------------------------------
(* Packets.  All but SYN carry the ACK flag.                               *)
Kind == {"SYN", "SYNACK", "ACK", "DATA", "FIN", "RST"}

Length(kind) == IF kind \in {"SYN", "SYNACK", "DATA", "FIN"} THEN 1 ELSE 0
seq_end(p) == p.seq + Length(p.kind)     (* of a packet or a block *)

Packet(kind, seq, ack) == [kind |-> kind, seq |-> seq, ack |-> ack]
Block(kind, seq) == [kind |-> kind, seq |-> seq, times |-> 0]

Send(h, p) == wire' = [wire EXCEPT ![Peer(h)] = Append(@, p)]

(* Host h takes a packet from the wire and answers with those of reply.    *)
Take(h, reply) ==
  wire' = [wire EXCEPT ![h] = Tail(@), ![Peer(h)] = @ \o reply]

-----------------------------------------------------------------------------
(* The application of the client.                                          *)

(* tcp_sock_connect up to the SYN and the state SYN_SENT.                  *)
ConnectSend ==
  /\ app["client"] = "connect"
  /\ Send("client", Packet("SYN", 0, 0))
  /\ snd_nxt' = [snd_nxt EXCEPT !["client"] = 1]
  /\ state' = [state EXCEPT !["client"] = "SYN_SENT"]
  /\ app' = [app EXCEPT !["client"] = "hash"]
  /\ UNCHANGED <<snd_una, rcv_nxt, send_buf, hashed, rcvVars, accept_queue, rx, fin, envVars>>

(* Its rest: the block, the timer, tcp_hash; then it sleeps.               *)
ConnectHash ==
  /\ app["client"] = "hash"
  /\ send_buf' = [send_buf EXCEPT !["client"] = Append(@, Block("SYN", 0))]
  /\ hashed' = [hashed EXCEPT !["client"] = TRUE]
  /\ app' = [app EXCEPT !["client"] = "connecting"]
  /\ UNCHANGED <<state, snd_una, snd_nxt, rcv_nxt, rcvVars, accept_queue, wire, rx, fin, envVars>>

(* Mutant: one segment too many.                                            *)
MutMoreToWrite == snd_nxt["client"] <= Segments + 1

MoreToWrite == snd_nxt["client"] <= Segments

(* tcp_sock_write of one segment, while there is one.                      *)
Write ==
  /\ app["client"] = "write"
  /\ MoreToWrite
  /\ Send("client", Packet("DATA", snd_nxt["client"], rcv_nxt["client"]))
  /\ send_buf' = [send_buf EXCEPT !["client"] = Append(@, Block("DATA", snd_nxt["client"]))]
  /\ snd_nxt' = [snd_nxt EXCEPT !["client"] = @ + 1]
  /\ UNCHANGED <<state, snd_una, rcv_nxt, hashed, rcvVars, accept_queue, rx, app, fin, envVars>>

(* tcp_sock_close: in two states it sends a FIN, in the others it returns. *)
CloseSend(h) ==
  /\ \/ app[h] = "write" /\ ~MoreToWrite
     \/ app[h] = "eof"
  /\ IF state[h] \in {"ESTABLISHED", "CLOSE_WAIT"}
     THEN /\ Send(h, Packet("FIN", snd_nxt[h], rcv_nxt[h]))
          /\ snd_nxt' = [snd_nxt EXCEPT ![h] = @ + 1]
          /\ fin' = [fin EXCEPT ![h] = snd_nxt[h]]
          /\ app' = [app EXCEPT ![h] = IF state[h] = "ESTABLISHED" THEN "fin_wait" ELSE "last_ack"]
     ELSE /\ app' = [app EXCEPT ![h] = "closed"]
          /\ UNCHANGED <<wire, snd_nxt, fin>>
  /\ UNCHANGED <<state, snd_una, rcv_nxt, send_buf, hashed, rcvVars, accept_queue, rx, envVars>>

(* Once the FIN is out: the block, the timer and the new state.            *)
CloseFinish(h) ==
  /\ app[h] \in {"fin_wait", "last_ack"}
  /\ send_buf' = [send_buf EXCEPT ![h] = Append(@, Block("FIN", fin[h]))]
  /\ state' = [state EXCEPT ![h] = IF app[h] = "fin_wait" THEN "FIN_WAIT_1" ELSE "LAST_ACK"]
  /\ app' = [app EXCEPT ![h] = "closed"]
  /\ UNCHANGED <<snd_una, snd_nxt, rcv_nxt, hashed, rcvVars, accept_queue, wire, rx, fin, envVars>>

-----------------------------------------------------------------------------
(* The application of the server.                                          *)

(* tcp_sock_accept sets the state of the child, whatever it has become.    *)
Accept ==
  /\ app["server"] = "accept"
  /\ accept_queue
  /\ accept_queue' = FALSE
  /\ state' = [state EXCEPT !["server"] = "ESTABLISHED"]
  /\ app' = [app EXCEPT !["server"] = "read"]
  /\ UNCHANGED <<snd_una, snd_nxt, rcv_nxt, send_buf, hashed, rcvVars, wire, rx, fin, envVars>>

(* tcp_sock_read takes all there is in rcv_buf.                            *)
ReadBytes ==
  /\ app["server"] = "read"
  /\ unread["server"]
  /\ unread' = [unread EXCEPT !["server"] = FALSE]
  /\ UNCHANGED <<sockVars, hashed, stored, ofo, notified, accept_queue, wire, rx, app, fin, envVars>>

ReadReturnsZero ==
  /\ app["server"] = "read"
  /\ ~unread["server"]
  /\ state["server"] = "CLOSE_WAIT"
  /\ app' = [app EXCEPT !["server"] = "eof"]
  /\ UNCHANGED <<sockVars, hashed, rcvVars, accept_queue, wire, rx, fin, envVars>>

(* With nothing to read and no FIN, it sends an ACK and sleeps.            *)
ReadSleeps ==
  /\ app["server"] = "read"
  /\ ~unread["server"]
  /\ state["server"] # "CLOSE_WAIT"
  /\ Send("server", Packet("ACK", snd_nxt["server"], rcv_nxt["server"]))
  /\ app' = [app EXCEPT !["server"] = "asleep"]
  /\ UNCHANGED <<sockVars, hashed, rcvVars, accept_queue, rx, fin, envVars>>

ReadWakes ==
  /\ app["server"] = "asleep"
  /\ notified["server"]
  /\ notified' = [notified EXCEPT !["server"] = FALSE]
  /\ app' = [app EXCEPT !["server"] = "read"]
  /\ UNCHANGED <<sockVars, hashed, stored, ofo, unread, accept_queue, wire, rx, fin, envVars>>

-----------------------------------------------------------------------------
(* The receiving thread: tcp_process on the packet p at the head of the    *)
(* wire.                                                                   *)

Arrived(h) == IF rx[h] = "idle" /\ wire[h] # <<>> THEN {Head(wire[h])} ELSE {}

(* p passed the tests for RST and SYN and has a valid sequence number.     *)
Processes(h, p) ==
  /\ hashed[h]
  /\ p.kind \notin {"RST", "SYN"}
  /\ ~(p.kind = "SYNACK" /\ state[h] = "SYN_SENT")
  /\ rcv_nxt[h] <= seq_end(p)

(* The entries of a list that are left, in their order (SelectSeq, in a    *)
(* form that can be reasoned about).                                       *)
Selected(buf, left) ==
  LET rank(i) == Cardinality({j \in left : j <= i})
  IN  [n \in 1 .. Cardinality(left) |-> buf[CHOOSE i \in left : rank(i) = n]]

(* Mutant: the block the peer asks for is freed with those before it.       *)
Mut_free_send_buf(h, ack) ==
  send_buf' = [send_buf EXCEPT ![h] = Selected(@, {i \in DOMAIN @ : @[i].seq > ack})]

tcp_free_send_buf(h, ack) ==
  send_buf' = [send_buf EXCEPT ![h] = Selected(@, {i \in DOMAIN @ : seq_end(@[i]) > ack})]

(* An acknowledgement in TCP_ESTABLISHED, even an old one.                 *)
Acked(h, p) ==
  /\ snd_una' = [snd_una EXCEPT ![h] = IF p.ack > @ THEN p.ack ELSE @]
  /\ tcp_free_send_buf(h, p.ack)

(* Mutant: one sequence number too far.                                     *)
MutMovePast(h, p) == rcv_nxt' = [rcv_nxt EXCEPT ![h] = seq_end(p) + 1]

MovePast(h, p) == rcv_nxt' = [rcv_nxt EXCEPT ![h] = seq_end(p)]

(* Mutant: a FIN is taken when segments before it are missing.              *)
MutFinIsNext(h, p) == rcv_nxt[h] <= seq_end(p)

FinIsNext(h, p) == rcv_nxt[h] \in {p.seq, seq_end(p)}

wake_up(h) == notified' = [notified EXCEPT ![h] = TRUE]

(* No sock has been hashed and none listens: tcp_process(NULL).            *)
LookupFails ==
  /\ Arrived("client") # {}
  /\ ~hashed["client"]
  /\ crashed' = crashed \cup {"client"}
  /\ UNCHANGED <<sockVars, hashed, rcvVars, accept_queue, wire, rx, app, fin, reset, lost,
                 expired>>

(* The listening sock gets a SYN: a child in SYN_RECV, hashed, its SYN|ACK *)
(* sent and the block of that in its send_buf.                             *)
ListenSyn ==
  \E p \in Arrived("server") :
    /\ ~hashed["server"]
    /\ p.kind = "SYN"
    /\ MovePast("server", p)
    /\ state' = [state EXCEPT !["server"] = "SYN_RECV"]
    /\ hashed' = [hashed EXCEPT !["server"] = TRUE]
    /\ Take("server", <<Packet("SYNACK", 0, seq_end(p))>>)
    /\ snd_nxt' = [snd_nxt EXCEPT !["server"] = 1]
    /\ send_buf' = [send_buf EXCEPT !["server"] = <<Block("SYNACK", 0)>>]
    /\ UNCHANGED <<snd_una, rcvVars, accept_queue, rx, app, fin, envVars>>

(* The SYN|ACK the client waits for: rcv_nxt and the wake_up, after which  *)
(* tcp_sock_connect returns ...                                            *)
SynAckWakes ==
  \E p \in Arrived("client") :
    /\ hashed["client"]
    /\ p.kind = "SYNACK"
    /\ state["client"] = "SYN_SENT"
    /\ MovePast("client", p)
    /\ rx' = [rx EXCEPT !["client"] = "synack"]
    /\ app' = [app EXCEPT !["client"] = "write"]
    /\ UNCHANGED <<state, snd_una, snd_nxt, send_buf, hashed, rcvVars, accept_queue, wire,
                   fin, envVars>>

(* ... then the ACK, TCP_ESTABLISHED and the acknowledgement in it.        *)
SynAckEstablishes ==
  /\ rx["client"] = "synack"
  /\ Take("client", <<Packet("ACK", snd_nxt["client"], rcv_nxt["client"])>>)
  /\ state' = [state EXCEPT !["client"] = "ESTABLISHED"]
  /\ Acked("client", Head(wire["client"]))
  /\ rx' = [rx EXCEPT !["client"] = "idle"]
  /\ UNCHANGED <<snd_nxt, rcv_nxt, hashed, rcvVars, accept_queue, app, fin, envVars>>

(* The third packet of the handshake, or what takes its place: the child   *)
(* is established and goes to accept_queue.  rcv_nxt moves past the        *)
(* packet, and its payload is not looked at; a FIN is.                     *)
ProcessSynRecv(h) ==
  \E p \in Arrived(h) :
    /\ Processes(h, p)
    /\ state[h] = "SYN_RECV"
    /\ MovePast(h, p)
    /\ accept_queue' = TRUE
    /\ tcp_free_send_buf(h, p.ack)
    /\ IF p.kind = "FIN"
       THEN /\ state' = [state EXCEPT ![h] = "CLOSE_WAIT"]
            /\ Take(h, <<Packet("ACK", snd_nxt[h], seq_end(p))>>)
            /\ wake_up(h)
       ELSE /\ state' = [state EXCEPT ![h] = "ESTABLISHED"]
            /\ Take(h, <<>>)
            /\ UNCHANGED notified
    /\ UNCHANGED <<snd_una, snd_nxt, hashed, stored, ofo, unread, rx, app, fin, envVars>>

(* An acknowledgement without payload.  Whether it asks for a fast         *)
(* retransmission depends on counters that are TcpSend's subject.          *)
ProcessAck(h) ==
  \E p \in Arrived(h) :
    /\ Processes(h, p)
    /\ state[h] = "ESTABLISHED"
    /\ p.kind \in {"SYNACK", "ACK"}
    /\ Acked(h, p)
    /\ \/ Take(h, <<>>) /\ UNCHANGED expired
       \/ /\ expired < MaxTimeout
          /\ send_buf'[h] # <<>> /\ send_buf'[h][1].seq = p.ack
          /\ Take(h, <<Packet(send_buf'[h][1].kind, p.ack, rcv_nxt[h])>>)
          /\ expired' = expired + 1
    /\ UNCHANGED <<state, snd_nxt, rcv_nxt, hashed, rcvVars, accept_queue, rx, app, fin,
                   crashed, reset, lost>>

(* A segment: kept if it is early (or late); otherwise stored together     *)
(* with those that follow it in rcv_ofo_buf.                               *)
Following(h, next) == {x \in ofo[h] : next <= x /\ next .. x \subseteq ofo[h]}

ProcessData(h) ==
  \E p \in Arrived(h) :
    /\ Processes(h, p)
    /\ state[h] = "ESTABLISHED"
    /\ p.kind = "DATA"
    /\ p.ack >= snd_una[h]
    /\ Acked(h, p)
    /\ IF p.seq # rcv_nxt[h]
       THEN /\ ofo' = [ofo EXCEPT ![h] = @ \cup {p.seq}]
            /\ UNCHANGED <<rcv_nxt, stored, unread, notified>>
       ELSE LET more == Following(h, seq_end(p))
            IN  /\ rcv_nxt' = [rcv_nxt EXCEPT ![h] = seq_end(p) + Cardinality(more)]
                /\ stored' = [stored EXCEPT ![h] = @ \cup {p.seq} \cup more]
                /\ ofo' = [ofo EXCEPT ![h] = @ \ more]
                /\ unread' = [unread EXCEPT ![h] = TRUE]
                /\ wake_up(h)
    /\ Take(h, <<Packet("ACK", snd_nxt[h], rcv_nxt'[h])>>)
    /\ UNCHANGED <<state, snd_nxt, hashed, accept_queue, rx, app, fin, envVars>>

(* The FIN of the peer, if nothing is missing before it.                   *)
ProcessFin(h) ==
  \E p \in Arrived(h) :
    /\ Processes(h, p)
    /\ state[h] = "ESTABLISHED"
    /\ p.kind = "FIN"
    /\ Acked(h, p)
    /\ IF FinIsNext(h, p)
       THEN /\ MovePast(h, p)
            /\ state' = [state EXCEPT ![h] = "CLOSE_WAIT"]
            /\ Take(h, <<Packet("ACK", snd_nxt[h], seq_end(p))>>)
            /\ wake_up(h)
       ELSE Take(h, <<>>) /\ UNCHANGED <<rcv_nxt, state, notified>>
    /\ UNCHANGED <<snd_nxt, hashed, stored, ofo, unread, accept_queue, rx, app, fin, envVars>>

(* Any ACK is taken for the one of the FIN; a FIN with it is taken too.    *)
ProcessFinWait1(h) ==
  \E p \in Arrived(h) :
    /\ Processes(h, p)
    /\ state[h] = "FIN_WAIT_1"
    /\ MovePast(h, p)
    /\ tcp_free_send_buf(h, p.ack)
    /\ IF p.kind = "FIN"
       THEN /\ state' = [state EXCEPT ![h] = "TIME_WAIT"]
            /\ Take(h, <<Packet("ACK", snd_nxt[h], seq_end(p))>>)
       ELSE /\ state' = [state EXCEPT ![h] = "FIN_WAIT_2"]
            /\ Take(h, <<>>)
    /\ UNCHANGED <<snd_una, snd_nxt, hashed, rcvVars, accept_queue, rx, app, fin, envVars>>

ProcessLastAck(h) ==
  \E p \in Arrived(h) :
    /\ Processes(h, p)
    /\ state[h] = "LAST_ACK"
    /\ MovePast(h, p)
    /\ state' = [state EXCEPT ![h] = "CLOSED"]
    /\ tcp_free_send_buf(h, p.ack)
    /\ Take(h, <<>>)
    /\ UNCHANGED <<snd_una, snd_nxt, hashed, rcvVars, accept_queue, rx, app, fin, envVars>>

(* In the other states only blocks are freed, and FIN_WAIT_2 takes a FIN.  *)
ProcessOther(h) ==
  \E p \in Arrived(h) :
    /\ Processes(h, p)
    /\ \/ state[h] \in {"SYN_SENT", "CLOSE_WAIT", "FIN_WAIT_2", "TIME_WAIT", "CLOSED"}
       \/ state[h] = "ESTABLISHED" /\ p.kind = "DATA" /\ p.ack < snd_una[h]
    /\ tcp_free_send_buf(h, p.ack)
    /\ IF p.kind = "FIN" /\ FinIsNext(h, p)
       THEN /\ MovePast(h, p)
            /\ IF state[h] = "FIN_WAIT_2"
               THEN /\ state' = [state EXCEPT ![h] = "TIME_WAIT"]
                    /\ Take(h, <<Packet("ACK", snd_nxt[h], seq_end(p))>>)
               ELSE Take(h, <<>>) /\ UNCHANGED state
       ELSE Take(h, <<>>) /\ UNCHANGED <<rcv_nxt, state>>
    /\ UNCHANGED <<snd_una, snd_nxt, hashed, rcvVars, accept_queue, rx, app, fin, envVars>>

(* What changes nothing: a second SYN, a sequence number that is not       *)
(* valid, and all but a SYN at the listening sock.                         *)
Ignore(h) ==
  \E p \in Arrived(h) :
    /\ IF hashed[h]
       THEN p.kind = "SYN" \/ (p.kind # "RST" /\ rcv_nxt[h] > seq_end(p))
       ELSE h = "server" /\ p.kind # "SYN"
    /\ Take(h, <<>>)
    /\ UNCHANGED <<sockVars, hashed, rcvVars, accept_queue, rx, app, fin, envVars>>

(* A RST makes tcp_process call tcp_sock_close.                            *)
Reset(h) ==
  \E p \in Arrived(h) :
    /\ hashed[h]
    /\ p.kind = "RST"
    /\ IF state[h] \in {"ESTABLISHED", "CLOSE_WAIT"}
       THEN /\ Take(h, <<Packet("FIN", snd_nxt[h], rcv_nxt[h])>>)
            /\ send_buf' = [send_buf EXCEPT ![h] = Append(@, Block("FIN", snd_nxt[h]))]
            /\ snd_nxt' = [snd_nxt EXCEPT ![h] = @ + 1]
            /\ state' = [state EXCEPT ![h] = IF @ = "ESTABLISHED" THEN "FIN_WAIT_1" ELSE "LAST_ACK"]
            /\ reset' = TRUE
       ELSE Take(h, <<>>) /\ UNCHANGED <<send_buf, snd_nxt, state, reset>>
    /\ UNCHANGED <<snd_una, rcv_nxt, hashed, rcvVars, accept_queue, rx, app, fin, crashed, lost,
                   expired>>

-----------------------------------------------------------------------------
(* The timer thread and the network.                                       *)

(* Mutant: nothing is sent again before the connection is established.      *)
MutMayRetransmit(h) ==
  send_buf[h] # <<>> /\ send_buf[h][1].times < 3 /\ state[h] \notin {"SYN_SENT", "SYN_RECV"}

MayRetransmit(h) == send_buf[h] # <<>> /\ send_buf[h][1].times < 3

(* The first block is sent again, at most three times.                     *)
Retransmit(h) ==
  /\ MayRetransmit(h)
  /\ expired < MaxTimeout
  /\ expired < MaxEarly \/ \A g \in Host : wire[g] = <<>>
  /\ Send(h, Packet(send_buf[h][1].kind, send_buf[h][1].seq, rcv_nxt[h]))
  /\ send_buf' = [send_buf EXCEPT ![h][1].times = @ + 1]
  /\ expired' = expired + 1
  /\ UNCHANGED <<state, snd_una, snd_nxt, rcv_nxt, hashed, rcvVars, accept_queue, rx, app,
                 fin, crashed, reset, lost>>

(* After that each expiry sends a RST: here one at a time.                 *)
SendReset(h) ==
  /\ send_buf[h] # <<>>
  /\ send_buf[h][1].times = 3
  /\ \A i \in 1 .. Len(wire[Peer(h)]) : wire[Peer(h)][i].kind # "RST"
  /\ Send(h, Packet("RST", snd_nxt[h], rcv_nxt[h]))
  /\ UNCHANGED <<sockVars, hashed, rcvVars, accept_queue, rx, app, fin, envVars>>

(* The end of TIME_WAIT.  The child of a listening sock was never in the   *)
(* bind_table, and its bind_hash_list is NULL when tcp_bind_unhash uses it. *)
TimeWaitExpires(h) ==
  /\ state[h] = "TIME_WAIT"
  /\ IF h = "client"
     THEN state' = [state EXCEPT ![h] = "CLOSED"] /\ UNCHANGED crashed
     ELSE crashed' = crashed \cup {h} /\ UNCHANGED state
  /\ UNCHANGED <<snd_una, snd_nxt, rcv_nxt, send_buf, hashed, rcvVars, accept_queue, wire,
                 rx, app, fin, reset, lost, expired>>

Lose(h) ==
  /\ rx[h] = "idle"
  /\ wire[h] # <<>>
  /\ lost < MaxLoss
  /\ Take(h, <<>>)
  /\ lost' = lost + 1
  /\ UNCHANGED <<sockVars, hashed, rcvVars, accept_queue, rx, app, fin, crashed, reset,
                 expired>>

-----------------------------------------------------------------------------
Init ==
  /\ state = [h \in Host |-> "CLOSED"]
  /\ snd_una = [h \in Host |-> 0]
  /\ snd_nxt = [h \in Host |-> 0]
  /\ rcv_nxt = [h \in Host |-> 0]
  /\ send_buf = [h \in Host |-> <<>>]
  /\ hashed = [h \in Host |-> FALSE]
  /\ stored = [h \in Host |-> {}]
  /\ ofo = [h \in Host |-> {}]
  /\ unread = [h \in Host |-> FALSE]
  /\ accept_queue = FALSE
  /\ notified = [h \in Host |-> FALSE]
  /\ wire = [h \in Host |-> <<>>]
  /\ rx = [h \in Host |-> "idle"]
  /\ app = [h \in Host |-> IF h = "client" THEN "connect" ELSE "accept"]
  /\ fin = [h \in Host |-> 0]
  /\ crashed = {}
  /\ reset = FALSE
  /\ lost = 0
  /\ expired = 0

tcp_process(h) ==
  \/ ProcessSynRecv(h) \/ ProcessAck(h) \/ ProcessData(h) \/ ProcessFin(h)
  \/ ProcessFinWait1(h) \/ ProcessLastAck(h) \/ ProcessOther(h) \/ Ignore(h) \/ Reset(h)

ClientApp == ConnectSend \/ ConnectHash \/ Write \/ CloseSend("client") \/ CloseFinish("client")
ServerApp == \/ Accept \/ ReadBytes \/ ReadReturnsZero \/ ReadSleeps \/ ReadWakes
             \/ CloseSend("server") \/ CloseFinish("server")

ClientRx == LookupFails \/ SynAckWakes \/ SynAckEstablishes \/ tcp_process("client")
ServerRx == ListenSyn \/ tcp_process("server")

Timer(h) == Retransmit(h) \/ SendReset(h) \/ TimeWaitExpires(h)

Running(h) == h \notin crashed

Next ==
  \/ Running("client") /\ (ClientApp \/ ClientRx \/ Timer("client"))
  \/ Running("server") /\ (ServerApp \/ ServerRx \/ Timer("server"))
  \/ Lose("client") \/ Lose("server")

Spec == Init /\ [][Next]_vars

(* The threads of a host run on, and its timer goes off in the end.        *)
Fairness ==
  /\ WF_vars(Running("client") /\ ClientApp)
  /\ WF_vars(Running("client") /\ ClientRx)
  /\ SF_vars(Running("client") /\ Retransmit("client"))
  /\ WF_vars(Running("client") /\ (SendReset("client") \/ TimeWaitExpires("client")))
  /\ WF_vars(Running("server") /\ ServerApp)
  /\ WF_vars(Running("server") /\ ServerRx)
  /\ SF_vars(Running("server") /\ Retransmit("server"))
  /\ WF_vars(Running("server") /\ (SendReset("server") \/ TimeWaitExpires("server")))

FairSpec == Spec /\ Fairness

-----------------------------------------------------------------------------
TypeOK ==
  /\ state \in [Host -> {"CLOSED", "SYN_SENT", "SYN_RECV", "ESTABLISHED", "CLOSE_WAIT",
                         "LAST_ACK", "FIN_WAIT_1", "FIN_WAIT_2", "TIME_WAIT"}]
  /\ snd_una \in [Host -> Nat] /\ snd_nxt \in [Host -> Nat] /\ rcv_nxt \in [Host -> Nat]
  /\ send_buf \in [Host -> Seq([kind : Kind, seq : Nat, times : 0 .. 3])]
  /\ hashed \in [Host -> BOOLEAN]
  /\ stored \in [Host -> SUBSET (1 .. Segments)] /\ ofo \in [Host -> SUBSET (1 .. Segments)]
  /\ unread \in [Host -> BOOLEAN] /\ notified \in [Host -> BOOLEAN]
  /\ accept_queue \in BOOLEAN
  /\ wire \in [Host -> Seq([kind : Kind, seq : Nat, ack : Nat])]
  /\ rx \in [Host -> {"idle", "synack"}]
  /\ DOMAIN app = Host
  /\ app["client"] \in {"connect", "hash", "connecting", "write", "fin_wait", "last_ack", "closed"}
  /\ app["server"] \in {"accept", "read", "asleep", "eof", "fin_wait", "last_ack", "closed"}
  /\ fin \in [Host -> Nat]
  /\ crashed \subseteq Host /\ reset \in BOOLEAN
  /\ lost \in 0 .. MaxLoss /\ expired \in 0 .. MaxTimeout

(* The two socks agree on the stream in both directions: nothing is taken  *)
(* for acknowledged that the peer has not received, and no sock expects a  *)
(* sequence number beyond what the peer has sent, though tcp_process moves *)
(* rcv_nxt in five places, three of them without looking at it first.      *)
AckAgreement ==
  /\ TypeOK
  /\ \A h \in Host : snd_una[h] <= rcv_nxt[Peer(h)] /\ rcv_nxt[h] <= snd_nxt[Peer(h)]

(* Whatever the peer has not received can be sent again: it is in          *)
(* send_buf, or the application is about to put it there.                  *)
Appending(h, x) ==
  \/ app[h] = "hash" /\ x = 0
  \/ app[h] \in {"fin_wait", "last_ack"} /\ x = fin[h]

UnackedKept ==
  \A h \in Host : \A x \in rcv_nxt[Peer(h)] .. snd_nxt[h] - 1 :
    Appending(h, x) \/ \E i \in 1 .. Len(send_buf[h]) : send_buf[h][i].seq = x

(* After the first segment is stored none is passed over: whatever losses  *)
(* and retransmissions bring, rcv_nxt leaves no hole behind it, at the FIN *)
(* neither.  (A RST makes a sock that is still in use send its FIN among   *)
(* the data, or drop the data that it acknowledges.)                       *)
NoLaterHole ==
  ~reset => \A h \in Host : \A x \in stored[h] :
              {y \in x .. rcv_nxt[h] - 1 : y <= Segments} \subseteq stored[h]

(* Unless one of the processes dies, tcp_sock_accept returns: what is lost *)
(* of the handshake is sent again, or the first segment takes its place.   *)
Accepted == <>(app["server"] # "accept" \/ crashed # {})
=============================================================================
