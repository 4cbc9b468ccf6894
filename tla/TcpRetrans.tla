----------------------------- MODULE TcpRetrans -----------------------------
(***************************************************************************)
(* Retransmission in 16-tcp_stack: the client of tcp_apps.c sends a file   *)
(* to the server over the link of tcp_topo_loss.py, which loses packets    *)
(* and keeps their order.  From the SYN of tcp_sock_connect on; a write is *)
(* one segment, and sequence numbers and windows are counted in segments.  *)
(* tcp_process, an expiry of the timer and a step of an application are    *)
(* actions; the statements of the threads are interleaved in TcpSend and   *)
(* the closing in TcpTable.                                                *)
(***************************************************************************)
EXTENDS Integers, SequencesExt

CONSTANTS
  Items,     \* segments of the file
  Window,    \* TCP_DEFAULT_WINDOW
  MaxTimes,  \* how often a block is sent again: 3 in the code
  MaxFault   \* bound on faults: packets lost, expiries while anything else is going on

VARIABLES
  app,       \* where the application thread of each end is
  dlen,      \* data_len of tcp_sock_write: 1 segment, or 0
  put, got,  \* the segments tcp_sock_write has sent, those tcp_sock_read has returned
  sk,        \* the tcp_sock of each end; that of the server LISTENs until there is a child
  notified,  \* the wait structs that are notified
  net,       \* packets on their way to each end
  faults,    \* faults so far
  lost,      \* history: the segments a child in SYN_RECV has skipped
  reset,     \* history: an end has given up and sent a RST
  raced      \* history: a child was accepted after the FIN
vars == <<app, dlen, put, got, sk, notified, net, faults, lost, reset, raced>>

End == {"client", "server"}
Peer(e) == IF e = "client" THEN "server" ELSE "client"
Wait(e, what) == <<e, what>>

\* a packet, a pending block and a block out of order alike
SeqEnd(p) == p.seq + p.len + IF p.flags \cap {"SYN", "FIN"} # {} THEN 1 ELSE 0

(***************************************************************************)
(* A handler works on r: the sock s, the packets out, those it wakes.      *)
(***************************************************************************)
Segment(s, f, len) == [flags |-> f, seq |-> s.snd_nxt, len |-> len,
                       ack |-> s.rcv_nxt, rwnd |-> s.rcv_wnd]

\* tcp_send_packet for len = 1, tcp_send_control_packet else
Emit(r, f, len) ==
  LET p == Segment(r.s, f, len)
  IN [r EXCEPT !.s.snd_nxt = SeqEnd(p), !.s.snd_wnd = @ - len, !.out = Append(@, p)]

\* a new block, and the timer, unless it is set
Pend(r, f, seq, len) ==
  [r EXCEPT !.s.send_buf = Append(@, [flags |-> f, seq |-> seq, len |-> len, times |-> 0]),
            !.s.timer = TRUE]

EmitPend(r, f) == Pend(Emit(r, f, 0), f, r.s.snd_nxt, 0)
To(r, state) == [r EXCEPT !.s.state = state]
Wake(r, w) == [r EXCEPT !.woken = @ \cup {w}]

ClosedTo == [ESTABLISHED |-> "FIN_WAIT_1", CLOSE_WAIT |-> "LAST_ACK"]

\* tcp_sock_close
SockClose(r) ==
  IF r.s.state \in DOMAIN ClosedTo
  THEN To(EmitPend(r, {"FIN", "ACK"}), ClosedTo[r.s.state]) ELSE r

(***************************************************************************)
(* tcp_process, from the last part to the first                            *)
(***************************************************************************)
SendFinAck(r, e) ==
  CASE r.s.state = "ESTABLISHED" -> Wake(To(Emit(r, {"ACK"}, 0), "CLOSE_WAIT"), Wait(e, "recv"))
    [] r.s.state = "FIN_WAIT_2"  -> To(Emit(r, {"ACK"}, 0), "TIME_WAIT")
    [] OTHER -> r

Fin(r, e, p) ==
  IF "FIN" \in p.flags /\ r.s.rcv_nxt \in {p.seq, SeqEnd(p)}
  THEN SendFinAck([r EXCEPT !.s.rcv_nxt = SeqEnd(p)], e) ELSE r

\* mutant: a block is freed when its first byte is acknowledged
MutFreeSendBuf(r, p) ==
  LET left == SelectSeq(r.s.send_buf, LAMBDA b : b.seq > p.ack)
  IN IF left = r.s.send_buf THEN r
     ELSE [r EXCEPT !.s.send_buf = left, !.s.timer = left # <<>>]

\* tcp_free_send_buf: the timer is unset, and set again for what is left
FreeSendBuf(r, p) ==
  LET left == SelectSeq(r.s.send_buf, LAMBDA b : SeqEnd(b) > p.ack)
  IN IF left = r.s.send_buf THEN r
     ELSE [r EXCEPT !.s.send_buf = left, !.s.timer = left # <<>>]

\* tcp_rcv_ofo_pkt: sorted by seq_end, behind those with the same one
RcvOfo(s, p) ==
  LET before == {i \in DOMAIN s.ofo : \A j \in 1..i : SeqEnd(s.ofo[j]) <= SeqEnd(p)}
  IN [s EXCEPT !.ofo = InsertAt(@, Cardinality(before) + 1, p)]

\* mutant: what follows in rcv_ofo_buf is taken whatever its number
MutTake(s, p) ==
  LET all == <<p>> \o s.ofo
  IN [s EXCEPT !.buf = @ \o [i \in DOMAIN all |-> all[i].seq], !.ofo = <<>>,
               !.rcv_wnd = @ - Len(all), !.rcv_nxt = SeqEnd(Last(all))]

\* a segment in order, and those of rcv_ofo_buf that follow it
Take(s, p) ==
  LET run == {i \in DOMAIN s.ofo : \A j \in 1..i : s.ofo[j].seq = SeqEnd(p) + j - 1}
      n == Cardinality(run) + 1
  IN [s EXCEPT !.buf = @ \o [i \in 1..n |-> p.seq + i - 1],
               !.ofo = SubSeq(@, n, Len(@)),
               !.rcv_wnd = @ - n, !.rcv_nxt = SeqEnd(p) + n - 1]

Data(r, e, p) ==
  IF r.s.rcv_nxt # p.seq
  THEN Emit([r EXCEPT !.s = RcvOfo(r.s, p)], {"ACK"}, 0)
  ELSE Wake(Emit([r EXCEPT !.s = Take(r.s, p)], {"ACK"}, 0), Wait(e, "recv"))

AckTo == [SYN_RECV |-> "ESTABLISHED", FIN_WAIT_1 |-> "FIN_WAIT_2", LAST_ACK |-> "CLOSED"]

Established(r, e, p) ==
  LET una == IF p.ack > r.s.snd_una THEN p.ack ELSE r.s.snd_una
      q == Wake([r EXCEPT !.s.snd_una = una, !.s.adv_wnd = p.rwnd, !.s.snd_wnd = p.rwnd],
                Wait(e, "send"))
  IN IF p.len > 0 THEN Data(q, e, p) ELSE q

Ack(r, e, p) ==
  LET state == r.s.state
      q == IF state \in DOMAIN AckTo
           THEN To([r EXCEPT !.s.rcv_nxt = SeqEnd(p)], AckTo[state]) ELSE r
  IN IF "ACK" \notin p.flags THEN r
     ELSE FreeSendBuf(CASE state = "ESTABLISHED" -> Established(r, e, p)
                        [] state = "SYN_RECV" -> Wake(q, Wait(e, "accept"))
                        [] OTHER -> q, p)

SeqValid(s, p) ==
  /\ p.seq < s.rcv_nxt + IF s.rcv_wnd > 1 THEN s.rcv_wnd ELSE 1
  /\ s.rcv_nxt <= SeqEnd(p)

Syn(r, e, p) ==
  CASE p.flags = {"SYN", "ACK"} /\ r.s.state = "SYN_SENT" ->
         Wake(To(Emit([r EXCEPT !.s.rcv_nxt = SeqEnd(p)], {"ACK"}, 0), "ESTABLISHED"),
              Wait(e, "connect"))
    [] p.flags = {"SYN"} /\ r.s.state = "LISTEN" ->
         EmitPend(To([r EXCEPT !.s.rcv_nxt = SeqEnd(p)], "SYN_RECV"), {"SYN", "ACK"})
    [] OTHER -> r

Process(r, e, p) ==
  LET q == Syn(r, e, p)
  IN CASE "RST" \in p.flags -> SockClose(r)
       [] ~SeqValid(q.s, p) -> q
       [] OTHER -> Fin(Ack(q, e, p), e, p)

Idle(e) == [s |-> sk[e], out |-> <<>>, woken |-> {}]

\* the end e has come to r, with the queues q
Done(e, r, q) == \E d \in {r} :
  /\ sk' = [sk EXCEPT ![e] = d.s]
  /\ net' = [q EXCEPT ![Peer(e)] = @ \o d.out]
  /\ notified' = notified \cup d.woken

HandlePacket(e) ==
  /\ net[e] # <<>>
  /\ LET p == Head(net[e])
     IN /\ Done(e, Process(Idle(e), e, p), [net EXCEPT ![e] = Tail(@)])
        /\ lost' = IF sk[e].state = "SYN_RECV" /\ SeqValid(sk[e], p) /\ "ACK" \in p.flags
                   THEN [i \in 1..(p.seq + p.len - sk[e].rcv_nxt) |-> sk[e].rcv_nxt + i - 1]
                   ELSE lost
  /\ UNCHANGED <<app, dlen, put, got, faults, reset, raced>>

(***************************************************************************)
(* The timer, and the link                                                 *)
(***************************************************************************)

\* the first block of send_buf: the list head is no block, and all 0
First(s) == IF s.send_buf = <<>> THEN [flags |-> {"ACK"}, seq |-> 0, len |-> 0, times |-> s.times]
            ELSE Head(s.send_buf)

\* tcp_sock_write sends segments without data as long as snd_wnd is 0: here one at a time
Spinning ==
  /\ app["client"] = "check" /\ dlen = 0
  /\ \E b \in ToSet(sk["client"].send_buf) : b.len = 0 /\ b.flags = {"ACK"}

Asleep(e) == \/ e = "client" /\ Spinning
             \/ app[e] = "closed"
             \/ app[e] \in {"connect", "accept", "send", "recv"} /\ Wait(e, app[e]) \notin notified

\* tcp_scan_timer_list once the timer is due; after the first RST it sends more
Expire(e) ==
  LET s == sk[e]
      b == First(s)
      again == Segment([s EXCEPT !.snd_nxt = b.seq], b.flags, b.len)
      r == [Idle(e) EXCEPT !.s = [s EXCEPT
              !.send_buf = IF @ = <<>> THEN @ ELSE [@ EXCEPT ![1].times = @ + 1],
              !.times = IF s.send_buf = <<>> THEN @ + 1 ELSE @,
              !.snd_wnd = @ - b.len],
            !.out = <<again>>]
      quiet == \A x \in End : net[x] = <<>> /\ Asleep(x)
  IN /\ s.timer /\ ~reset /\ (quiet \/ faults < MaxFault)
     /\ faults' = IF quiet THEN faults ELSE faults + 1
     /\ IF b.times < MaxTimes
        THEN Done(e, r, net) /\ UNCHANGED reset
        ELSE Done(e, Emit(Idle(e), {"RST", "ACK"}, 0), net) /\ reset' = TRUE
     /\ UNCHANGED <<app, dlen, put, got, lost, raced>>

Lose(e) ==
  /\ net[e] # <<>> /\ faults < MaxFault
  /\ faults' = faults + 1
  /\ net' = [net EXCEPT ![e] = Tail(@)]
  /\ UNCHANGED <<app, dlen, put, got, sk, notified, lost, reset, raced>>

(***************************************************************************)
(* Applications                                                            *)
(***************************************************************************)
Goto(e, where) == app' = [app EXCEPT ![e] = where]

\* the end of tcp_sock_connect, of tcp_sock_accept, and of a sleep_on
Woken(e) ==
  \E w \in {<<"connect", "write">>, <<"accept", "read">>, <<"send", "check">>, <<"recv", "read">>} :
    /\ app[e] = w[1] /\ Wait(e, w[1]) \in notified
    /\ notified' = notified \ {Wait(e, w[1])}
    /\ Goto(e, w[2])
    /\ raced' = (raced \/ (w[1] = "accept" /\ sk[e].state # "ESTABLISHED"))
    /\ sk' = IF w[1] = "accept" THEN [sk EXCEPT ![e].state = "ESTABLISHED"] ELSE sk
    /\ UNCHANGED <<dlen, put, got, net, faults, lost, reset>>

\* tcp_sock_write: data_len, once for a segment
Write ==
  /\ app["client"] = "write"
  /\ IF put = Items THEN Goto("client", "close") /\ UNCHANGED dlen
     ELSE Goto("client", "check") /\ dlen' = IF sk["client"].snd_wnd = 0 THEN 0 ELSE 1
  /\ UNCHANGED <<put, got, sk, notified, net, faults, lost, reset, raced>>

\* snd_wnd is unsigned
Shut(s) == s.snd_nxt + dlen - s.snd_una >= s.adv_wnd \/ s.snd_wnd \in 0..dlen - 1

Check ==
  LET s == sk["client"]
  IN /\ app["client"] = "check"
     /\ ~Spinning
     /\ IF Shut(s) THEN Goto("client", "send") /\ UNCHANGED <<sk, net, notified, put>>
        ELSE /\ Done("client", Emit(Idle("client"), {"ACK"}, dlen), net)
             /\ put' = put + dlen
             /\ Goto("client", "append")
     /\ UNCHANGED <<dlen, got, faults, lost, reset, raced>>

\* the block is appended when the segment is on its way, and the timer set if it is not
AppendBlock ==
  /\ app["client"] = "append"
  /\ Done("client", Pend(Idle("client"), {"ACK"}, sk["client"].snd_nxt - dlen, dlen), net)
  /\ Goto("client", "write")
  /\ UNCHANGED <<dlen, put, got, faults, lost, reset, raced>>

\* tcp_sock_read
Read ==
  LET s == sk["server"]
  IN /\ app["server"] = "read"
     /\ CASE s.buf # <<>> ->
               /\ got' = got \o s.buf
               /\ sk' = [sk EXCEPT !["server"].buf = <<>>, !["server"].rcv_wnd = @ + Len(s.buf)]
               /\ UNCHANGED <<app, net, notified>>
          [] s.buf = <<>> /\ s.state = "CLOSE_WAIT" ->
               Goto("server", "close") /\ UNCHANGED <<got, sk, net, notified>>
          [] OTHER ->
               /\ Done("server", Emit(Idle("server"), {"ACK"}, 0), net)
               /\ Goto("server", "recv") /\ UNCHANGED got
     /\ UNCHANGED <<dlen, put, faults, lost, reset, raced>>

Close(e) ==
  /\ app[e] = "close"
  /\ Done(e, SockClose(Idle(e)), net)
  /\ Goto(e, "closed")
  /\ UNCHANGED <<dlen, put, got, faults, lost, reset, raced>>

Sock(state) == [state |-> state, snd_una |-> 0, snd_nxt |-> 0, rcv_nxt |-> 0,
                snd_wnd |-> Window, adv_wnd |-> Window, rcv_wnd |-> Window,
                send_buf |-> <<>>, timer |-> FALSE, times |-> 0, ofo |-> <<>>, buf |-> <<>>]

\* tcp_sock_connect is asleep, tcp_sock_accept too
Init ==
  LET r == EmitPend([s |-> Sock("SYN_SENT"), out |-> <<>>, woken |-> {}], {"SYN"})
  IN /\ sk = [client |-> r.s, server |-> Sock("LISTEN")]
     /\ net = [client |-> <<>>, server |-> r.out]
     /\ app = [client |-> "connect", server |-> "accept"]
     /\ dlen = 1 /\ put = 0 /\ got = <<>> /\ notified = {}
     /\ faults = 0 /\ lost = <<>> /\ reset = FALSE /\ raced = FALSE

\* the threads of the two processes
Packets == \E e \in End : HandlePacket(e)
Timers == \E e \in End : Expire(e)
Serve == Woken("server") \/ Read \/ Close("server")
Call == Woken("client") \/ Write \/ Check \/ AppendBlock \/ Close("client")
Running == Packets \/ Timers \/ Serve \/ Call
Losing == \E e \in End : Lose(e)
Next == Running \/ Losing

Spec == Init /\ [][Next]_vars /\ WF_vars(Running)
-----------------------------------------------------------------------------
TypeOK ==
  /\ app \in [End -> {"connect", "accept", "send", "recv", "write", "check", "append", "read",
                     "close", "closed"}]
  /\ put \in 0..Items
  /\ \A e \in End : Len(sk[e].buf) + sk[e].rcv_wnd = Window

(***************************************************************************)
(* The segments are read once each and in order, whatever is lost, sent    *)
(* again or overtaken, and the end of the file is read after all of them;  *)
(* but for those a child in SYN_RECV skips: if the ACK of its SYN is lost, *)
(* the first packet that comes stands for it, and all before its end for   *)
(* received.                                                               *)
(***************************************************************************)
InOrder ==
  LET read == lost \o got
      all == read \o sk["server"].buf
  IN /\ TypeOK
     /\ ~reset => all = [i \in 1..Len(all) |-> i]
     /\ ~reset /\ app["server"] \in {"close", "closed"} => Len(read) = Items

(***************************************************************************)
(* A segment the server has not taken in order is in send_buf, or about to *)
(* be: what the timer can send again.                                      *)
(***************************************************************************)
Kept ==
  ~reset => \A i \in sk["server"].rcv_nxt..put :
    i > 0 => \/ app["client"] = "append" /\ i = put
             \/ \E b \in ToSet(sk["client"].send_buf) : b.seq = i /\ b.len = 1

(***************************************************************************)
(* The server reads to the end of the file and closes.  The ways not to:   *)
(* a block was sent MaxTimes times more; the child was accepted after the  *)
(* FIN; or the ACK that says a window is open again was lost, with nothing *)
(* in send_buf to ask for another.                                         *)
(***************************************************************************)
Stalled ==
  /\ app["client"] = "send" /\ sk["client"].send_buf = <<>> /\ faults > 0
  /\ sk["client"].adv_wnd < sk["server"].rcv_wnd
Ended == app["server"] = "closed" \/ reset \/ raced \/ Stalled
Delivered == <>Ended
=============================================================================
