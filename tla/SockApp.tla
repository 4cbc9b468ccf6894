------------------------------ MODULE SockApp ------------------------------
(***************************************************************************)
(* The word count of 18-sock_app on its own TCP stack: a master connects   *)
(* to a worker for each of its socks, one after the other, sends each a    *)
(* part, reads the counts in turn and closes.  Process 0 is the master;    *)
(* the socks of a process are found in its hash tables.                    *)
(*                                                                         *)
(* A part and the counts are one segment, far smaller than a window.  A    *)
(* read and a close are one action each: what can come in between is the   *)
(* subject of TcpFlow and TcpTable.  Links keep packets in order and lose  *)
(* none.                                                                   *)
(***************************************************************************)
EXTENDS Naturals, Sequences

CONSTANTS
  Target,             \* sequences of workers, positive numbers, one for each sock of the master
  PORT_MIN, PORT_MAX  \* the ports of tcp_get_port, without the last

VARIABLES
  job,      \* one of Target
  app,      \* what the application of each process does next, and for which sock
  crashed,  \* processes that have dereferenced NULL
  sk,       \* the tcp_sock at each end
  notified, \* ends whose wait_connect, wait_accept ("open") or wait_recv is notified
  net,      \* packets to a process from another
  got       \* what each application has read
vars == <<job, app, crashed, sk, notified, net, got>>

Socks == 1..Len(job)
Workers == {job[i] : i \in Socks}
Mine(i) == <<0, i>>
Child(w) == <<w, 0>>
Ends == {Mine(i) : i \in Socks} \cup {Child(w) : w \in Workers}
OtherSide(e) == IF e[1] = 0 THEN Child(job[e[2]])[1] ELSE 0

\* alloc_tcp_sock; queue is the queue of the parent that a child is in
Alloc == [state |-> "CLOSED", port |-> 0, bound |-> FALSE, hashed |-> FALSE, timer |-> FALSE,
          ref |-> 0, queue |-> "none", buf |-> <<>>]

At(e, where) == e[1] \notin crashed /\ app[e[1]] = <<where, e[2]>>
Goto(e, where) == app' = [app EXCEPT ![e[1]] = where]
Packet(f, data) == [flags |-> f, data |-> data]
\* tcp_send_packet and tcp_send_control_packet, after the packets in q
Send(e, q, p) == [q EXCEPT ![<<OtherSide(e), e[1]>>] = Append(@, p)]

(***************************************************************************)
(* The hash tables                                                         *)
(***************************************************************************)
BindHash(s) == [s EXCEPT !.bound = TRUE, !.ref = @ + 1]
FreeSock(s) == [s EXCEPT !.ref = @ - 1]
BindUnhash(s) == FreeSock([s EXCEPT !.bound = FALSE])

(***************************************************************************)
(* tcp_port_in_use goes from bind_hash_list to bind_hash_list as if these  *)
(* were hash_lists.  Each sock begins 16 bytes before the place it is      *)
(* looked for, and what is read for its sk_sport is the upper half of its  *)
(* pointer to a parent, which is NULL in a sock that is bound.  So no port *)
(* is found in use, and all socks of the master are bound to the first.    *)
(***************************************************************************)
UpperHalfOfParent == 0
PortInUse(p, port) == \E e \in Ends : e[1] = p /\ sk[e].bound /\ port = UpperHalfOfParent

\* tcp_get_port; 0 is for none
GetPort(p) ==
  LET free == {port \in PORT_MIN..PORT_MAX - 1 : ~PortInUse(p, port)}
  IN IF free = {} THEN 0 ELSE CHOOSE port \in free : \A other \in free : port <= other

\* the sock in the established table that a packet from a process is for: the
\* socks of the master have one port, and are told apart by their workers
Established(p, from) ==
  {e \in Ends : e[1] = p /\ sk[e].hashed /\ OtherSide(e) = from}

\* tcp_hash, which refuses a sock with the addresses and ports of another
Hash(e, s) ==
  IF s.state = "CLOSED" \/ \E f \in Established(e[1], OtherSide(e)) : sk[f].port = s.port THEN s
  ELSE [s EXCEPT !.hashed = TRUE, !.ref = @ + 1]

\* tcp_sock_lookup_listen; a worker may listen to a port that is not its own
Listening(w) == app[w][1] \in {"accept", "asleep"}

\* tcp_sock_listen_enqueue and tcp_sock_accept_enqueue
Enqueued(s, queue) == [s EXCEPT !.queue = queue]

(***************************************************************************)
(* Applications                                                            *)
(***************************************************************************)
Next1(i, again, then) == IF i < Len(job) THEN <<again, i + 1>> ELSE <<then, 1>>

\* tcp_sock_connect: the SYN is sent when the sock is in its tables
Connect(e) ==
  /\ At(e, "connect") /\ Goto(e, <<"connecting", e[2]>>)
  /\ GetPort(e[1]) # 0
  /\ sk' = [sk EXCEPT ![e] =
               Hash(e, BindHash([@ EXCEPT !.port = GetPort(e[1]), !.state = "SYN_SENT"]))]
  /\ net' = Send(e, net, Packet("SYN", <<>>))
  /\ UNCHANGED <<job, crashed, notified, got>>

\* The master sleeps a second when it is connected, a worker two before it closes:
\* longer than packets are on their way
Silent(e) == net[<<OtherSide(e), e[1]>>] = <<>> /\ net[<<e[1], OtherSide(e)>>] = <<>>

\* the end of tcp_sock_connect, and sleep
Connected(e) ==
  /\ At(e, "connecting") /\ <<e, "open">> \in notified /\ Silent(e)
  /\ notified' = notified \ {<<e, "open">>}
  /\ Goto(e, Next1(e[2], "connect", "write"))
  /\ UNCHANGED <<job, crashed, sk, net, got>>

(***************************************************************************)
(* run_application hands tcp_server the address of a local variable: when  *)
(* main has gone on to ustack_run it may hold anything, and the worker     *)
(* binds and listens to another port.                                      *)
(***************************************************************************)
Listen(e) ==
  /\ At(e, "start")
  /\ \E at \in {"accept", "elsewhere"} : Goto(e, <<at, 0>>)
  /\ UNCHANGED <<job, crashed, sk, notified, net, got>>

\* tcp_sock_accept_dequeue, and the end of tcp_sock_accept
AcceptDequeue(e) ==
  /\ sk' = [sk EXCEPT ![e].queue = "none", ![e].state = "ESTABLISHED"]
  /\ Goto(e, <<"read", 0>>)

\* tcp_sock_accept
Accept(e) ==
  /\ At(e, "accept")
  /\ IF sk[e].queue = "accept" THEN AcceptDequeue(e) ELSE Goto(e, <<"asleep", 0>>) /\ UNCHANGED sk
  /\ UNCHANGED <<job, crashed, notified, net, got>>

AcceptWoken(e) ==
  /\ At(e, "asleep") /\ <<e, "open">> \in notified
  /\ notified' = notified \ {<<e, "open">>}
  /\ AcceptDequeue(e)
  /\ UNCHANGED <<job, crashed, net, got>>

\* mutant: every worker is sent the first part
MutWrite(e) ==
  LET i == IF e[1] = 0 THEN e[2] ELSE got[e][1][2]
  IN /\ At(e, "write")
     /\ net' = Send(e, net, Packet("ACK", <<<<e[1], 1>>>>))
     /\ Goto(e, IF e[1] = 0 THEN Next1(i, "write", "read") ELSE <<"close", 0>>)
     /\ UNCHANGED <<job, crashed, sk, notified, got>>

\* tcp_sock_write of a part, or of the counts of the part that has been read
Write(e) ==
  LET i == IF e[1] = 0 THEN e[2] ELSE got[e][1][2]
  IN /\ At(e, "write")
     /\ net' = Send(e, net, Packet("ACK", <<<<e[1], i>>>>))
     /\ Goto(e, IF e[1] = 0 THEN Next1(i, "write", "read") ELSE <<"close", 0>>)
     /\ UNCHANGED <<job, crashed, sk, notified, got>>

\* tcp_sock_read: until there is something, or CLOSE_WAIT
Read(e) ==
  /\ \/ At(e, "read") /\ UNCHANGED notified
     \/ /\ At(e, "wait_recv") /\ <<e, "recv">> \in notified
        /\ notified' = notified \ {<<e, "recv">>}
  /\ IF sk[e].buf # <<>> \/ sk[e].state = "CLOSE_WAIT"
     THEN /\ got' = [got EXCEPT ![e] = @ \o sk[e].buf]
          /\ sk' = [sk EXCEPT ![e].buf = <<>>]
          /\ Goto(e, IF e[1] = 0 THEN Next1(e[2], "read", "close") ELSE <<"write", 0>>)
     ELSE Goto(e, <<"wait_recv", e[2]>>) /\ UNCHANGED <<sk, got>>
  /\ UNCHANGED <<job, crashed, net>>

\* tcp_sock_close
ClosedTo == [ESTABLISHED |-> "FIN_WAIT_1", CLOSE_WAIT |-> "LAST_ACK"]
Close(e) ==
  /\ At(e, "close") /\ (e[1] # 0 => Silent(e))
  /\ IF sk[e].state \in DOMAIN ClosedTo
     THEN /\ net' = Send(e, net, Packet("FIN|ACK", <<>>))
          /\ sk' = [sk EXCEPT ![e].state = ClosedTo[@]]
     ELSE UNCHANGED <<net, sk>>
  /\ Goto(e, IF e[1] = 0 THEN Next1(e[2], "close", "done") ELSE <<"done", 1>>)
  /\ UNCHANGED <<job, crashed, notified, got>>

(***************************************************************************)
(* Packets and timers                                                      *)
(***************************************************************************)

\* tcp_process of a SYN by the listening sock
NewChild(e, q) ==
  /\ sk' = [sk EXCEPT ![e] = Hash(e, Enqueued([Alloc EXCEPT !.state = "SYN_RECV"], "listen"))]
  /\ net' = Send(e, q, Packet("SYN|ACK", <<>>))
  /\ UNCHANGED notified

\* mutant: a FIN that acknowledges, too, is not taken for an acknowledgement
MutAckTo(f) == IF f = "ACK" THEN [SYN_RECV |-> "ESTABLISHED", FIN_WAIT_1 |-> "FIN_WAIT_2", LAST_ACK |-> "CLOSED"]
               ELSE [SYN_RECV |-> "ESTABLISHED"]

\* the states a packet with ACK moves on, before the FIN is looked at
AckTo(f) == [SYN_RECV |-> "ESTABLISHED", FIN_WAIT_1 |-> "FIN_WAIT_2", LAST_ACK |-> "CLOSED"]

SynTo == [SYN_SENT |-> "ESTABLISHED"]
FinTo == [ESTABLISHED |-> "CLOSE_WAIT", FIN_WAIT_2 |-> "TIME_WAIT"]
Answered(f) == CASE f = "SYN|ACK" -> SynTo [] f = "FIN|ACK" -> FinTo [] OTHER -> <<>>

SetTimewait(s) == [s EXCEPT !.timer = TRUE, !.ref = @ + 1]

\* tcp_process of a packet with ACK by sock e
Process(e, p, q) ==
  LET old == sk[e].state
      s == IF old \in DOMAIN AckTo(p.flags) THEN AckTo(p.flags)[old] ELSE old
      t == IF s \in DOMAIN Answered(p.flags) THEN Answered(p.flags)[s] ELSE s
      data == IF old = "ESTABLISHED" THEN p.data ELSE <<>>
      opened == t = "ESTABLISHED" /\ old # t
      moved == [sk[e] EXCEPT !.state = t, !.buf = @ \o data]
      queued == IF old = "SYN_RECV" THEN Enqueued(moved, "accept") ELSE moved
  IN /\ sk' = [sk EXCEPT ![e] = IF t = "TIME_WAIT" /\ s # t THEN SetTimewait(queued) ELSE queued]
     /\ net' = IF s # t \/ data # <<>> THEN Send(e, q, Packet("ACK", <<>>)) ELSE q
     /\ notified' = notified \cup (IF opened THEN {<<e, "open">>} ELSE {})
                             \cup (IF data # <<>> \/ (t = "CLOSE_WAIT" /\ s # t)
                                   THEN {<<e, "recv">>} ELSE {})

\* handle_tcp_packet
HandlePacket(p, from) ==
  /\ p \notin crashed /\ net[<<p, from>>] # <<>>
  /\ LET pkt == Head(net[<<p, from>>])
         q == [net EXCEPT ![<<p, from>>] = Tail(@)]
         found == Established(p, from)
         e == CHOOSE e \in found : TRUE
     IN IF found # {}
        THEN /\ IF pkt.flags = "SYN" THEN net' = q /\ UNCHANGED <<sk, notified>> ELSE Process(e, pkt, q)
             /\ UNCHANGED crashed
        ELSE IF p # 0 /\ Listening(p) THEN NewChild(Child(p), q) /\ UNCHANGED crashed
        ELSE crashed' = crashed \cup {p} /\ net' = q /\ UNCHANGED <<sk, notified>>
  /\ UNCHANGED <<job, app, got>>

(***************************************************************************)
(* tcp_scan_timer_list at the end of TIME_WAIT.  A child was never bound,  *)
(* its bind_hash_list is 0, and to delete that is to dereference NULL.     *)
(***************************************************************************)
TimewaitExpire(e) ==
  /\ e[1] \notin crashed /\ sk[e].timer /\ Silent(e)
  /\ IF sk[e].bound
     THEN /\ sk' = [sk EXCEPT ![e] =
                       FreeSock([BindUnhash(@) EXCEPT !.state = "CLOSED", !.timer = FALSE])]
          /\ UNCHANGED crashed
     ELSE crashed' = crashed \cup {e[1]} /\ UNCHANGED sk
  /\ UNCHANGED <<job, app, notified, net, got>>

Init ==
  /\ job \in Target
  /\ app = [p \in {0} \cup Workers |-> IF p = 0 THEN <<"connect", 1>> ELSE <<"start", 0>>]
  /\ crashed = {}
  /\ sk = [e \in Ends |-> Alloc]
  /\ notified = {}
  /\ net = [x \in {<<0, w>> : w \in Workers} \cup {<<w, 0>> : w \in Workers} |-> <<>>]
  /\ got = [e \in Ends |-> <<>>]

\* the threads of the processes
Call(e) == Connect(e) \/ Connected(e) \/ Write(e) \/ Read(e) \/ Close(e)
Serve(e) == Listen(e) \/ Accept(e) \/ AcceptWoken(e) \/ Read(e) \/ Write(e) \/ Close(e)
Packets == \E w \in Workers : HandlePacket(0, w) \/ HandlePacket(w, 0)
Timers == \E e \in Ends : TimewaitExpire(e)

Next ==
  \/ \E i \in Socks : Call(Mine(i))
  \/ \E w \in Workers : Serve(Child(w))
  \/ Packets \/ Timers
Spec == Init /\ [][Next]_vars /\ WF_vars(Next)
-----------------------------------------------------------------------------
Sock == [state : {"CLOSED", "SYN_RECV", "SYN_SENT", "ESTABLISHED", "CLOSE_WAIT", "LAST_ACK",
                  "FIN_WAIT_1", "FIN_WAIT_2", "TIME_WAIT"},
         port : {0} \cup (PORT_MIN..PORT_MAX - 1), bound : BOOLEAN, hashed : BOOLEAN, timer : BOOLEAN, ref : 0..3,
         queue : {"none", "listen", "accept"}, buf : Seq(Nat \X Nat)]
TypeOK == \A e \in Ends : sk[e] \in Sock

(***************************************************************************)
(* Although all connections of the master have one port, what it reads on  *)
(* a sock are the counts of the part it has sent on that sock, read once,  *)
(* from the worker it is connected to, which has read that part.           *)
(***************************************************************************)
OwnAnswers ==
  /\ TypeOK
  /\ \A i \in Socks : got[Mine(i)] \in {<<>>, <<<<job[i], i>>>>}
  /\ \A w \in Workers : got[Child(w)] # <<>> =>
       \E i \in Socks : job[i] = w /\ got[Child(w)] = <<<<0, i>>>>

(***************************************************************************)
(* The master prints all counts, and all connections are closed at both    *)
(* ends.  The ways not to: two connections to one worker, the second of    *)
(* which is never answered; a worker that does not listen when the SYN     *)
(* comes, which crashes; and a child at the end of its TIME_WAIT, which    *)
(* does too, but has closed by then.                                       *)
(***************************************************************************)
Again == \E i, k \in Socks : i # k /\ job[i] = job[k]
Unheard == \E w \in crashed : ~sk[Child(w)].hashed
ClosedAt(e) == sk[e].state = "CLOSED" \/ (e[1] # 0 /\ e[1] \in crashed)
Ended ==
  \/ Again /\ app[0] = <<"connecting", 2>>
  \/ Unheard
  \/ /\ app[0] = <<"done", 1>> /\ \A i \in Socks : got[Mine(i)] # <<>>
     /\ \A e \in Ends : ClosedAt(e)
=============================================================================
