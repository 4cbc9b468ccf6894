------------------------------ MODULE TcpFlow ------------------------------
(***************************************************************************)
(* Data and flow control in 15-tcp_stack: one connection, from the SYN and *)
(* ACK of the child on, with the applications of tcp_apps.c (job "echo")   *)
(* or of my_tcp_apps.c (job "file").  Each end has an application thread   *)
(* and a packet thread.  A write is one segment, and windows are counted   *)
(* in segments.  Nothing compares sequence numbers; the links keep packets *)
(* in order and lose none.                                                 *)
(***************************************************************************)
EXTENDS Integers, SequencesExt

CONSTANT Job   \* records [kind, items: written by the client, window: TCP_DEFAULT_WINDOW]

VARIABLES
  job,       \* one of Job
  app,       \* where the application thread of each end is
  thread,    \* where the packet thread of the client is
  sk,        \* the tcp_sock of each end
  put, got,  \* what each application has written and read
  notified,  \* the wait structs that are notified
  net,       \* packets on their way to each end
  aborted,   \* ends whose write_ring_buffer has found no room
  lost,      \* history: data dropped by a child in SYN_RECV
  raced      \* history: a packet was handled between FIN and new state, or a
             \* child was accepted after the FIN
vars == <<job, app, thread, sk, put, got, notified, net, aborted, lost, raced>>

End == {"client", "server"}
Peer(e) == IF e = "client" THEN "server" ELSE "client"
At(e, where) == app[e] = where /\ aborted = {}
Goto(e, where) == app' = [app EXCEPT ![e] = where]

Packet(e, f, data) == [flags |-> f, data |-> data, rwnd |-> sk[e].rcv_wnd]
Send(e, p) == [net EXCEPT ![Peer(e)] = Append(@, p)]

(***************************************************************************)
(* Applications                                                            *)
(***************************************************************************)

\* what tcp_client does after a read, and tcp_server
AfterRead(e, rlen) ==
  IF rlen = 0 THEN "close"
  ELSE IF e = "server" THEN IF job.kind = "echo" THEN "write" ELSE "read"
  ELSE IF Len(put[e]) < job.items THEN "write" ELSE "close"

AfterWrite(e) ==
  IF job.kind = "echo" THEN "read"
  ELSE IF Len(put[e]) + 1 < job.items THEN "write" ELSE "close"

Item(e) == IF e = "client" THEN Len(put[e]) + 1 ELSE got[e][Len(got[e])]

\* the end of tcp_sock_connect, and of tcp_sock_accept: the child is ESTABLISHED, again if need be
Opened(e) ==
  /\ At(e, "opening") /\ <<e, "open">> \in notified
  /\ notified' = notified \ {<<e, "open">>}
  /\ Goto(e, IF e = "client" THEN "write" ELSE "read")
  /\ sk' = [sk EXCEPT !["server"].state = IF e = "server" THEN "ESTABLISHED" ELSE @]
  /\ raced' = (raced \/ (e = "server" /\ sk[e].state # "ESTABLISHED"))
  /\ UNCHANGED <<job, thread, put, got, net, aborted, lost>>

\* snd_wnd is unsigned
Fits(e) == sk[e].snd_wnd < 0 \/ sk[e].snd_wnd >= 1

\* tcp_sock_write: the window
Write(e) ==
  /\ At(e, "write")
  /\ Goto(e, IF Fits(e) THEN "sending" ELSE "wait_send")
  /\ UNCHANGED <<job, thread, sk, put, got, notified, net, aborted, lost, raced>>

\* tcp_send_packet
SendPacket(e) ==
  /\ At(e, "sending")
  /\ put' = [put EXCEPT ![e] = Append(@, Item(e))]
  /\ sk' = [sk EXCEPT ![e].snd_wnd = @ - 1]
  /\ net' = Send(e, Packet(e, "ACK", <<Item(e)>>))
  /\ Goto(e, AfterWrite(e))
  /\ UNCHANGED <<job, thread, got, notified, aborted, lost, raced>>

\* tcp_sock_read: is the ring buffer empty, and if so, has the peer closed
Read(e) ==
  /\ At(e, "read")
  /\ Goto(e, IF sk[e].buf = <<>> THEN "empty" ELSE "take")
  /\ UNCHANGED <<job, thread, sk, put, got, notified, net, aborted, lost, raced>>

\* mutant: the end of file is returned at once, as in lab 16
MutEmpty(e) ==
  /\ At(e, "empty")
  /\ Goto(e, IF sk[e].state = "CLOSE_WAIT" THEN "close" ELSE "wait_recv")
  /\ UNCHANGED <<job, thread, sk, put, got, notified, net, aborted, lost, raced>>

Empty(e) ==
  /\ At(e, "empty")
  /\ Goto(e, IF sk[e].state = "CLOSE_WAIT" THEN "take" ELSE "wait_recv")
  /\ UNCHANGED <<job, thread, sk, put, got, notified, net, aborted, lost, raced>>

\* tcp_sock_read: the rest, under rcv_buf_lock
Take(e) ==
  LET rlen == Len(sk[e].buf)
  IN /\ At(e, "take")
     /\ got' = [got EXCEPT ![e] = @ \o sk[e].buf]
     /\ sk' = [sk EXCEPT ![e].buf = <<>>, ![e].rcv_wnd = @ + rlen]
     /\ Goto(e, AfterRead(e, rlen))
     /\ UNCHANGED <<job, thread, put, notified, net, aborted, lost, raced>>

\* sleep_on(wait_send), sleep_on(wait_recv)
Woken(e) ==
  \E w \in {<<"wait_send", "write">>, <<"wait_recv", "read">>} :
    /\ At(e, w[1]) /\ <<e, w[1]>> \in notified
    /\ notified' = notified \ {<<e, w[1]>>}
    /\ Goto(e, w[2])
    /\ UNCHANGED <<job, thread, sk, put, got, net, aborted, lost, raced>>

\* tcp_sock_close up to the FIN, and then the new state
ClosedTo == [ESTABLISHED |-> "FIN_WAIT_1", CLOSE_WAIT |-> "LAST_ACK"]
Close(e) ==
  /\ At(e, "close")
  /\ IF sk[e].state \in DOMAIN ClosedTo
     THEN net' = Send(e, Packet(e, "FIN|ACK", <<>>)) /\ Goto(e, ClosedTo[sk[e].state])
     ELSE UNCHANGED net /\ Goto(e, "closed")
  /\ UNCHANGED <<job, thread, sk, put, got, notified, aborted, lost, raced>>

Closing(e) == app[e] \in {"FIN_WAIT_1", "LAST_ACK"}
CloseState(e) ==
  /\ aborted = {} /\ Closing(e)
  /\ sk' = [sk EXCEPT ![e].state = app[e]]
  /\ Goto(e, "closed")
  /\ UNCHANGED <<job, thread, put, got, notified, net, aborted, lost, raced>>

(***************************************************************************)
(* Packets                                                                 *)
(***************************************************************************)

\* mutant: data there is no room for is dropped
MutData(e, p, q) ==
  /\ sk' = [sk EXCEPT ![e].buf = IF Len(@) < job.window THEN @ \o p.data ELSE @,
                      ![e].rcv_wnd = @ - Len(p.data)]
  /\ notified' = notified \cup {<<e, "wait_recv">>}
  /\ net' = [q EXCEPT ![Peer(e)] = Append(@, Packet(e, "ACK", <<>>))]
  /\ UNCHANGED <<aborted, lost>>

\* an ACK in ESTABLISHED with data: room in the ring buffer is asserted
Data(e, p, q) ==
  IF Len(sk[e].buf) < job.window
  THEN LET s == [sk[e] EXCEPT !.buf = @ \o p.data, !.rcv_wnd = @ - 1]
       IN /\ sk' = [sk EXCEPT ![e] = s]
          /\ notified' = notified \cup {<<e, "wait_recv">>}
          /\ net' = [q EXCEPT ![Peer(e)] =
                       Append(@, [flags |-> "ACK", data |-> <<>>, rwnd |-> s.rcv_wnd])]
          /\ UNCHANGED <<aborted, lost>>
  ELSE aborted' = aborted \cup {e} /\ UNCHANGED <<sk, notified, net, lost>>

\* mutant: a FIN does not wake the reader, as in lab 14
MutFin(e, p, s, q) ==
  LET t == IF s = "ESTABLISHED" THEN "CLOSE_WAIT" ELSE "TIME_WAIT"
  IN IF p.flags = "FIN|ACK" /\ s \in {"ESTABLISHED", "FIN_WAIT_2"}
     THEN [state |-> t, net |-> [q EXCEPT ![Peer(e)] = Append(@, Packet(e, "ACK", <<>>))],
           wake |-> {}]
     ELSE [state |-> s, net |-> q, wake |-> {}]

\* what the FIN does after the ACK has led to the state s
Fin(e, p, s, q) ==
  LET t == IF s = "ESTABLISHED" THEN "CLOSE_WAIT" ELSE "TIME_WAIT"
  IN IF p.flags = "FIN|ACK" /\ s \in {"ESTABLISHED", "FIN_WAIT_2"}
     THEN [state |-> t, net |-> [q EXCEPT ![Peer(e)] = Append(@, Packet(e, "ACK", <<>>))],
           wake |-> IF s = "ESTABLISHED" THEN {<<e, "wait_recv">>} ELSE {}]
     ELSE [state |-> s, net |-> q, wake |-> {}]

AckTo == [SYN_RECV |-> "ESTABLISHED", FIN_WAIT_1 |-> "FIN_WAIT_2", LAST_ACK |-> "CLOSED"]

\* an ACK without data, or in a state that does not look at data
Ack(e, p, q) ==
  LET old == sk[e].state
      s == IF old \in DOMAIN AckTo THEN AckTo[old] ELSE old
      fin == Fin(e, p, s, q)
      woken == CASE old = "ESTABLISHED" -> {<<e, "wait_send">>}
                 [] old = "SYN_RECV" -> {<<e, "open">>}
                 [] OTHER -> {}
  IN /\ sk' = [sk EXCEPT ![e].state = fin.state,
                         ![e].snd_wnd = IF old = "ESTABLISHED" THEN p.rwnd ELSE @]
     /\ net' = fin.net
     /\ notified' = notified \cup fin.wake \cup woken
     /\ lost' = IF old = "SYN_RECV" THEN lost \o p.data ELSE lost
     /\ UNCHANGED aborted

\* a SYN and ACK in SYN_SENT wakes the application, is acknowledged, and then ESTABLISHED
SynAck ==
  /\ aborted = {} /\ thread = "idle" /\ net["client"] # <<>>
  /\ Head(net["client"]).flags = "SYN|ACK"
  /\ thread' = "SYN_SENT"
  /\ notified' = notified \cup {<<"client", "open">>}
  /\ net' = [net EXCEPT !["client"] = Tail(@)]
  /\ UNCHANGED <<job, app, sk, put, got, aborted, lost, raced>>

Established ==
  /\ aborted = {} /\ thread = "SYN_SENT"
  /\ thread' = "idle"
  /\ net' = Send("client", Packet("client", "ACK", <<>>))
  /\ sk' = [sk EXCEPT !["client"].state = "ESTABLISHED"]
  /\ UNCHANGED <<job, app, put, got, notified, aborted, lost, raced>>

HandlePacket(e) ==
  /\ aborted = {} /\ net[e] # <<>> /\ (e = "client" => thread = "idle")
  /\ LET p == Head(net[e])
         q == [net EXCEPT ![e] = Tail(@)]
     IN /\ p.flags # "SYN|ACK"
        /\ IF sk[e].state = "ESTABLISHED" /\ p.data # <<>> THEN Data(e, p, q) ELSE Ack(e, p, q)
  /\ raced' = (raced \/ Closing(e))
  /\ UNCHANGED <<job, app, thread, put, got>>

Init ==
  /\ job \in Job
  /\ app = [e \in End |-> "opening"]
  /\ thread = "idle"
  /\ sk = [e \in End |-> [state |-> IF e = "client" THEN "SYN_SENT" ELSE "SYN_RECV",
                          buf |-> <<>>, rcv_wnd |-> job.window, snd_wnd |-> job.window]]
  /\ put = [e \in End |-> <<>>] /\ got = put
  /\ notified = {}
  /\ net = [client |-> <<Packet("server", "SYN|ACK", <<>>)>>, server |-> <<>>]
  /\ aborted = {} /\ lost = <<>> /\ raced = FALSE

\* the threads of an end
Application(e) ==
  \/ Opened(e) \/ Write(e) \/ SendPacket(e) \/ Read(e) \/ Empty(e) \/ Take(e) \/ Woken(e)
  \/ Close(e) \/ CloseState(e)
Packets == SynAck \/ Established \/ \E e \in End : HandlePacket(e)
Next == Packets \/ \E e \in End : Application(e)

Spec == Init /\ [][Next]_vars /\ WF_vars(Next)
-----------------------------------------------------------------------------
State == {"SYN_SENT", "SYN_RECV", "ESTABLISHED", "FIN_WAIT_1", "FIN_WAIT_2", "TIME_WAIT",
          "CLOSE_WAIT", "LAST_ACK", "CLOSED"}
Sock == [state : State, buf : Seq(Nat), rcv_wnd : Int, snd_wnd : Int]
TypeOK ==
  /\ job \in Job
  /\ \A e \in End :
       /\ sk[e] \in Sock
       /\ Len(sk[e].buf) <= job.window
       /\ sk[e].rcv_wnd + Len(sk[e].buf) <= job.window
  /\ thread \in {"idle", "SYN_SENT"}
  /\ aborted \subseteq End

(***************************************************************************)
(* What an application has written is, in order, what the other has read,  *)
(* what is in the ring buffer there and what is on its way, whatever the   *)
(* threads do; but for the data a child drops that is still in SYN_RECV,   *)
(* as the client is woken before the ACK that opens the connection is sent.*)
(***************************************************************************)
Stream ==
  /\ TypeOK
  /\ aborted = {} => \A e \in End :
       put[Peer(e)] = (IF e = "server" THEN lost ELSE <<>>) \o got[e] \o sk[e].buf
                        \o FlattenSeq([i \in DOMAIN net[e] |-> net[e][i].data])

(***************************************************************************)
(* tcp_sock_read returns 0 only when the peer has written all it will and  *)
(* it has been read: CLOSE_WAIT and an empty buffer are not seen at once.  *)
(***************************************************************************)
EofAtEnd ==
  app["server"] \in {"close", "LAST_ACK", "closed"} =>
    /\ app["client"] \in {"FIN_WAIT_1", "closed"}
    /\ put["client"] = lost \o got["server"]

(***************************************************************************)
(* Both applications come to an end.  The ways not to: the receiver's      *)
(* buffer was once full (its reader does not tell the peer of new room),   *)
(* or data overran it, a child in SYN_RECV dropped data, a packet came     *)
(* between the FIN of tcp_sock_close and its new state, or the FIN came    *)
(* before tcp_sock_accept, which makes CLOSE_WAIT ESTABLISHED again, so    *)
(* that the reader sleeps for ever.                                        *)
(***************************************************************************)
Full == \E e \in End : \E i \in DOMAIN net[e] : net[e][i].rwnd <= 0
Ended == app = [e \in End |-> "closed"] \/ Full \/ aborted # {} \/ lost # <<>> \/ raced
Finishes == <>Ended
=============================================================================
