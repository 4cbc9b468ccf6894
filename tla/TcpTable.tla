------------------------------ MODULE TcpTable ------------------------------
(***************************************************************************)
(* The connections of 14-tcp_stack, which carry no data.  One process runs *)
(* tcp_server, each of Client, on a host of its own, tcp_client; a process *)
(* has an application thread, one thread for packets and one for timers.   *)
(* Nothing compares sequence numbers in this lab: a packet is its flags.   *)
(* The links of tcp_topo.py keep packets in order and lose none.           *)
(***************************************************************************)
EXTENDS Naturals, SequencesExt

CONSTANTS Client, Server, None

VARIABLES
  app,       \* where the application thread of each process is
  crashed,   \* processes that have dereferenced NULL
  sk,        \* the tcp_sock at each end of each connection
  queue,     \* the queues of the listening sock, with accept_backlog
  accepted,  \* the connection that tcp_sock_accept has returned
  notified,  \* processes whose wait_connect or wait_accept is notified
  net,       \* packets on their way to each end
  raced      \* history: connections whose state two threads set at once
vars == <<app, crashed, sk, queue, accepted, notified, net, raced>>

Ends == Client \X {"client", "server"}
Host(x) == IF x[2] = "client" THEN x[1] ELSE Server
Peer(x) == <<x[1], IF x[2] = "client" THEN "server" ELSE "client">>
Child(c) == <<c, "server">>

\* alloc_tcp_sock: hash_list, bind_hash_list and ref_cnt are 0
Alloc == [state |-> "CLOSED", bound |-> FALSE, hashed |-> FALSE, timer |-> FALSE, ref |-> 0]

Running(p) == p \notin crashed
At(p, where) == Running(p) /\ app[p] = where
Goto(p, where) == app' = [app EXCEPT ![p] = where]
Crash(p) == crashed' = crashed \cup {p}

\* tcp_send_control_packet
Send(x, f) == [net EXCEPT ![Peer(x)] = Append(@, f)]

(***************************************************************************)
(* The tables: a sock counts how often it is in them                       *)
(***************************************************************************)
BindHash(s) == [s EXCEPT !.bound = TRUE, !.ref = @ + 1]
FreeSock(s) == [s EXCEPT !.ref = @ - 1]
BindUnhash(s) == FreeSock([s EXCEPT !.bound = FALSE])
Hash(s) == IF s.state = "CLOSED" THEN s ELSE [s EXCEPT !.hashed = TRUE, !.ref = @ + 1]
\* mutant: the timer of TIME_WAIT is not set
MutSetTimewait(s) == s
SetTimewait(s) == [s EXCEPT !.timer = TRUE, !.ref = @ + 1]

\* tcp_sock_listen has hashed the parent
Listens == app[Server] \notin {"start", "astray"}

\* tcp_sock_lookup, at the end a packet has come to
Lookup(x) ==
  IF sk[x].hashed THEN "established"
  ELSE IF Host(x) = Server /\ Listens THEN "listening" ELSE "none"

\* the queues of the parent
ListenEnqueue(q, c) == [q EXCEPT !.listen = Append(@, c)]
AcceptEnqueue(q, c) ==
  [q EXCEPT !.listen = SelectSeq(@, LAMBDA d : d # c), !.accept = Append(@, c), !.backlog = @ + 1]

(***************************************************************************)
(* Applications                                                            *)
(***************************************************************************)

\* run_application hands over the address of a variable that is no more: the
\* server may listen to any port, and a client call any host
Astray(p) ==
  /\ At(p, "start") /\ Goto(p, "astray")
  /\ UNCHANGED <<crashed, sk, queue, accepted, notified, net, raced>>

\* tcp_sock_connect up to the SYN, and from there to sleep_on
Connect(c) ==
  LET x == <<c, "client">>
  IN /\ At(c, "start") /\ Goto(c, "sent")
     /\ sk' = [sk EXCEPT ![x] = BindHash(@)]
     /\ net' = Send(x, "SYN")
     /\ UNCHANGED <<crashed, queue, accepted, notified, raced>>

ConnectSleep(c) ==
  LET x == <<c, "client">>
  IN /\ At(c, "sent") /\ Goto(c, "asleep")
     /\ sk' = [sk EXCEPT ![x] = Hash([@ EXCEPT !.state = "SYN_SENT"])]
     /\ UNCHANGED <<crashed, queue, accepted, notified, net, raced>>

Connected(c) ==
  /\ At(c, "asleep") /\ c \in notified
  /\ Goto(c, "open") /\ notified' = notified \ {c}
  /\ UNCHANGED <<crashed, sk, queue, accepted, net, raced>>

\* tcp_sock_bind and tcp_sock_listen
Listen ==
  /\ At(Server, "start") /\ Goto(Server, "listening")
  /\ UNCHANGED <<crashed, sk, queue, accepted, notified, net, raced>>

AcceptDequeue ==
  LET c == Head(queue.accept)
  IN /\ queue' = [queue EXCEPT !.accept = Tail(@), !.backlog = @ - 1]
     /\ sk' = [sk EXCEPT ![Child(c)].state = "ESTABLISHED"]
     /\ accepted' = c
     /\ raced' = IF sk[Child(c)].state = "ESTABLISHED" THEN raced ELSE raced \cup {c}
     /\ Goto(Server, "open")

\* tcp_sock_accept
Accept ==
  /\ At(Server, "listening")
  /\ \/ queue.backlog # 0 /\ AcceptDequeue
     \/ queue.backlog = 0 /\ Goto(Server, "asleep") /\ UNCHANGED <<sk, queue, accepted, raced>>
  /\ UNCHANGED <<crashed, notified, net>>

AcceptWoken ==
  /\ At(Server, "asleep") /\ Server \in notified
  /\ notified' = notified \ {Server}
  /\ AcceptDequeue
  /\ UNCHANGED <<crashed, net>>

\* tcp_sock_close up to the FIN, and then the new state
ClosedTo == [ESTABLISHED |-> "FIN_WAIT_1", CLOSE_WAIT |-> "LAST_ACK"]
Close(x) ==
  /\ At(Host(x), "open") /\ (Host(x) = Server => x[1] = accepted)
  /\ IF sk[x].state \in DOMAIN ClosedTo
     THEN net' = Send(x, "FIN|ACK") /\ Goto(Host(x), ClosedTo[sk[x].state])
     ELSE UNCHANGED net /\ Goto(Host(x), "done")
  /\ UNCHANGED <<crashed, sk, queue, accepted, notified, raced>>

Closing(x) ==
  app[Host(x)] \in {"FIN_WAIT_1", "LAST_ACK"} /\ (Host(x) = Server => x[1] = accepted)

CloseState(x) ==
  /\ Running(Host(x)) /\ Closing(x)
  /\ sk' = [sk EXCEPT ![x].state = app[Host(x)]]
  /\ Goto(Host(x), "done")
  /\ UNCHANGED <<crashed, queue, accepted, notified, net, raced>>

(***************************************************************************)
(* Packets                                                                 *)
(***************************************************************************)

\* tcp_process of a SYN by the listening sock
NewChild(x, q) ==
  /\ sk' = [sk EXCEPT ![x] = Hash([Alloc EXCEPT !.state = "SYN_RECV"])]
  /\ queue' = ListenEnqueue(queue, x[1])
  /\ net' = [q EXCEPT ![Peer(x)] = Append(@, "SYN|ACK")]
  /\ UNCHANGED <<crashed, notified, raced>>

\* mutant: an ACK does not end FIN_WAIT_1
MutAckTo == [SYN_RECV |-> "ESTABLISHED", LAST_ACK |-> "CLOSED"]

\* what an ACK does to a state, before the other flags are looked at
AckTo == [SYN_RECV |-> "ESTABLISHED", FIN_WAIT_1 |-> "FIN_WAIT_2", LAST_ACK |-> "CLOSED"]
Acked(s) == IF s \in DOMAIN AckTo THEN AckTo[s] ELSE s

SynTo == [SYN_SENT |-> "ESTABLISHED"]
\* mutant: the FIN of the peer starts the timer of the end that closes last
MutFinTo == [ESTABLISHED |-> "TIME_WAIT", FIN_WAIT_2 |-> "TIME_WAIT"]
FinTo == [ESTABLISHED |-> "CLOSE_WAIT", FIN_WAIT_2 |-> "TIME_WAIT"]

\* the states in which a packet is answered by an ACK, with those they lead to
Answered(f) == CASE f = "SYN|ACK" -> SynTo [] f = "FIN|ACK" -> FinTo [] OTHER -> <<>>

\* tcp_process of a packet with ACK by the sock of end x
Process(x, f, q) ==
  LET s == Acked(sk[x].state)
      t == IF s \in DOMAIN Answered(f) THEN Answered(f)[s] ELSE s
      moved == [sk[x] EXCEPT !.state = t]
      established == sk[x].state = "SYN_RECV"
  IN /\ sk' = [sk EXCEPT ![x] = IF t = "TIME_WAIT" /\ s # t THEN SetTimewait(moved) ELSE moved]
     /\ net' = IF s # t THEN [q EXCEPT ![Peer(x)] = Append(@, "ACK")] ELSE q
     /\ queue' = IF established THEN AcceptEnqueue(queue, x[1]) ELSE queue
     /\ notified' = IF established \/ (s = "SYN_SENT" /\ s # t)
                    THEN notified \cup {Host(x)} ELSE notified
     /\ UNCHANGED crashed

\* handle_tcp_packet
HandlePacket(x) ==
  /\ Running(Host(x)) /\ net[x] # <<>>
  /\ LET f == Head(net[x])
         q == [net EXCEPT ![x] = Tail(@)]
     IN CASE Lookup(x) = "established" -> Process(x, f, q)
          [] Lookup(x) = "listening"   -> NewChild(x, q)
          [] OTHER -> Crash(Host(x)) /\ net' = q /\ UNCHANGED <<sk, queue, notified, raced>>
  /\ raced' = IF Closing(x) THEN raced \cup {x[1]} ELSE raced
  /\ UNCHANGED <<app, accepted>>

(***************************************************************************)
(* tcp_scan_timer_list.  The bind_hash_list of a child is 0: it is no      *)
(* empty list, and to delete it is to dereference NULL.                    *)
(***************************************************************************)
TimewaitExpire(x) ==
  /\ Running(Host(x)) /\ sk[x].timer
  /\ IF sk[x].bound
     THEN /\ sk' = [sk EXCEPT ![x] =
                       FreeSock([BindUnhash(@) EXCEPT !.state = "CLOSED", !.timer = FALSE])]
          /\ UNCHANGED crashed
     ELSE Crash(Host(x)) /\ UNCHANGED sk
  /\ UNCHANGED <<app, queue, accepted, notified, net, raced>>

Init ==
  /\ app = [p \in Client \cup {Server} |-> "start"]
  /\ crashed = {}
  /\ sk = [x \in Ends |-> Alloc]
  /\ queue = [listen |-> <<>>, accept |-> <<>>, backlog |-> 0]
  /\ accepted = None
  /\ notified = {}
  /\ net = [x \in Ends |-> <<>>]
  /\ raced = {}

\* the threads of a process
Serve ==
  Listen \/ Accept \/ AcceptWoken \/ \E c \in Client : Close(Child(c)) \/ CloseState(Child(c))
Call(c) ==
  \/ Connect(c) \/ ConnectSleep(c) \/ Connected(c)
  \/ Close(<<c, "client">>) \/ CloseState(<<c, "client">>)
Packets == \E x \in Ends : HandlePacket(x)
Timers == \E x \in Ends : TimewaitExpire(x)

Next ==
  \/ \E p \in Client \cup {Server} : Astray(p)
  \/ Serve \/ \E c \in Client : Call(c)
  \/ Packets \/ Timers

Spec == Init /\ [][Next]_vars /\ WF_vars(Next)
-----------------------------------------------------------------------------
State == {"CLOSED", "SYN_RECV", "SYN_SENT", "ESTABLISHED", "CLOSE_WAIT", "LAST_ACK",
          "FIN_WAIT_1", "FIN_WAIT_2", "TIME_WAIT"}
Sock == [state : State, bound : BOOLEAN, hashed : BOOLEAN, timer : BOOLEAN, ref : 0..3]
TypeOK ==
  /\ app \in [Client \cup {Server} -> {"start", "astray", "sent", "listening", "asleep", "open",
                                     "FIN_WAIT_1", "LAST_ACK", "done"}]
  /\ \A x \in Ends : sk[x] \in Sock
  /\ accepted \in Client \cup {None}

Pair(c) == <<sk[<<c, "client">>].state, sk[Child(c)].state>>
Quiet(c) ==
  /\ \A x \in Ends : x[1] = c => net[x] = <<>> /\ Running(Host(x)) /\ ~Closing(x)
  /\ app[c] # "sent"

(***************************************************************************)
(* With no packet on its way the two ends of a connection agree on how far *)
(* it is opened or closed, whoever closes first.  Two races are left out:  *)
(* a packet handled between the FIN of tcp_sock_close and its new state,   *)
(* and tcp_sock_accept making a child ESTABLISHED that was in CLOSE_WAIT.  *)
(***************************************************************************)
Agree ==
  \A c \in Client \ raced : Quiet(c) =>
    Pair(c) \in {<<"CLOSED", "CLOSED">>, <<"ESTABLISHED", "ESTABLISHED">>,
                <<"FIN_WAIT_2", "CLOSE_WAIT">>, <<"CLOSE_WAIT", "FIN_WAIT_2">>,
                <<"TIME_WAIT", "CLOSED">>, <<"CLOSED", "TIME_WAIT">>, <<"TIME_WAIT", "TIME_WAIT">>}

(***************************************************************************)
(* The only ways to dereference NULL: a SYN before tcp_sock_listen, or     *)
(* when the server listens to another port; a SYN and ACK before           *)
(* tcp_sock_connect has hashed its sock; and the TIME_WAIT of a child,     *)
(* which takes the server to close first.                                  *)
(***************************************************************************)
CrashCause ==
  /\ TypeOK
  /\ \A c \in Client \cap crashed : app[c] = "sent"
  /\ Server \in crashed =>
       ~Listens \/ \E c \in Client : sk[Child(c)].state = "TIME_WAIT"

(***************************************************************************)
(* A connection is accepted and closed at both ends in the end, unless a   *)
(* process crashes, one of the two races leaves an end behind, or no       *)
(* client calls the server.                                                *)
(***************************************************************************)
Ended ==
  \/ crashed # {} \/ \A c \in Client : app[c] = "astray"
  \/ \E c \in Client : accepted = c /\ (c \in raced \/ Pair(c) = <<"CLOSED", "CLOSED">>)
BothClose == <>Ended
=============================================================================
