----------------------------- MODULE MCTcpLabs -----------------------------
(***************************************************************************)
(* The TCP stack as it grew: connections alone (14-tcp_stack, "table"),    *)
(* data and flow control (15, "flow") with the layers below ("host"),      *)
(* retransmission (16, "retrans"), the application of 18 on its stack      *)
(* ("app"), and the counting of that application, which is that of lab 3   *)
(* ("words").  A behaviour is one of the part that lab names; the          *)
(* variables its module does not have are Unused.                          *)
(***************************************************************************)
EXTENDS Naturals, Sequences, TLC

CONSTANTS Client, Server, None, Unused

VARIABLES lab, app, crashed, sk, queue, accepted, notified, net, raced,
          job, thread, put, got, aborted, lost,
          dlen, faults, reset,
          task, master, worker, request, reply, num, tnum,
          seen, heap, entries, req_list, at, awake, pkt_list, leaked, late
vars == <<lab, app, crashed, sk, queue, accepted, notified, net, raced,
          job, thread, put, got, aborted, lost,
          dlen, faults, reset,
          task, master, worker, request, reply, num, tnum,
          seen, heap, entries, req_list, at, awake, pkt_list, leaked, late>>

MCJob == {[kind |-> "echo", items |-> 2, window |-> 2],
          [kind |-> "file", items |-> 2, window |-> 3],
          [kind |-> "file", items |-> 3, window |-> 3],
          [kind |-> "file", items |-> 4, window |-> 2]}
MCTask == [text: {<<>>, <<"a">>, <<"a", "b">>, <<"a", ".", "a">>, <<"b", "a", ".", "b", "a">>},
           workers: {2, 3}, loops: BOOLEAN]

Table == INSTANCE TcpTable
Flow == INSTANCE TcpFlow WITH Job <- MCJob
Retrans == INSTANCE TcpRetrans WITH Items <- 2, Window <- 3, MaxTimes <- 2, MaxFault <- 2
Words == INSTANCE WordCount WITH Task <- MCTask, Letter <- {"a", "b"}, U32 <- 16
MCTarget == {<<1, 2>>, <<1, 1>>}
App == INSTANCE SockApp WITH Target <- MCTarget, PORT_MIN <- 1, PORT_MAX <- 4

(* A host a with the peers b, which answers ARP requests, and x, which is  *)
(* not there; no route leads to z.  The jobs: two packets to one peer; one *)
(* to a peer that is not there, while an echo request comes; a segment, a  *)
(* packet for another host and a frame of another type; and packets that   *)
(* cannot be forwarded.                                                    *)
Ip(proto, dst, ttl) == [type |-> "ip", proto |-> proto, src |-> "b", dst |-> dst, ttl |-> ttl]
MCHostJob ==
  {[sends |-> <<"b", "b">>, frames |-> {}],
   [sends |-> <<"x">>, frames |-> {Ip("echo", "a", 64)}],
   [sends |-> <<"z">>, frames |-> {Ip("tcp", "a", 64), Ip("udp", "x", 64),
                                  [Ip("udp", "a", 64) EXCEPT !.type = "other"]}],
   [sends |-> <<"b">>, frames |-> {Ip("udp", "x", 1), Ip("udp", "z", 64)}]}
MCDevice == [lo |-> "self", eth0 |-> "a"]
MCKernel ==
  <<[dst |-> {"self"}, len |-> 8, gw |-> None, oif |-> "lo", main |-> FALSE],
    [dst |-> {"a", "b", "x"}, len |-> 24, gw |-> None, oif |-> "eth0", main |-> TRUE]>>
Below == INSTANCE IpHost WITH
  Job <- MCHostJob, Device <- MCDevice, Kernel <- MCKernel, Host <- {"b"}, Buffer <- 1..6,
  MAX_ARP_SIZE <- 1, ARP_ENTRY_TIMEOUT <- 1, ARP_REQUEST_MAX_RETRIES <- 2

InitTable == queue = Unused /\ accepted = Unused
InitFlow == thread = Unused /\ aborted = Unused
InitRetrans == dlen = Unused /\ faults = Unused /\ reset = Unused
InitWords == /\ task = Unused /\ master = Unused /\ worker = Unused /\ request = Unused
             /\ reply = Unused /\ num = Unused /\ tnum = Unused
InitBelow == /\ seen = Unused /\ heap = Unused /\ entries = Unused /\ req_list = Unused
             /\ at = Unused /\ awake = Unused /\ pkt_list = Unused /\ leaked = Unused
             /\ late = Unused
InitData == put = Unused /\ lost = Unused
InitSock == app = Unused /\ sk = Unused /\ notified = Unused /\ net = Unused

Init ==
  \/ /\ lab = "table" /\ Table!Init
     /\ job = Unused /\ got = Unused
     /\ InitData /\ InitFlow /\ InitRetrans /\ InitWords /\ InitBelow
  \/ /\ lab = "flow" /\ Flow!Init
     /\ crashed = Unused /\ InitTable /\ InitRetrans /\ InitWords /\ InitBelow
  \/ /\ lab = "host" /\ Below!Init
     /\ crashed = Unused /\ raced = Unused /\ lost = Unused
     /\ InitSock /\ InitTable /\ InitFlow /\ InitRetrans /\ InitWords
  \/ /\ lab = "retrans" /\ Retrans!Init
     /\ crashed = Unused /\ job = Unused /\ InitTable /\ InitFlow /\ InitWords /\ InitBelow
  \/ /\ lab = "app" /\ App!Init
     /\ raced = Unused
     /\ InitTable /\ InitFlow /\ InitData /\ InitRetrans /\ InitWords /\ InitBelow
  \/ /\ lab = "words" /\ Words!Init
     /\ crashed = Unused /\ job = Unused /\ got = Unused /\ raced = Unused
     /\ InitSock /\ InitTable /\ InitFlow /\ InitData /\ InitRetrans /\ InitBelow

NoTable == <<queue, accepted>>
NoFlow == <<thread, aborted>>
NoRetrans == <<dlen, faults, reset>>
NoWords == <<task, master, worker, request, reply, num, tnum>>
NoData == <<put, lost>>
NoSock == <<app, sk, notified, net>>

NoBelow == <<seen, heap, entries, req_list, at, awake, pkt_list, leaked, late>>

\* the parts that come to an end
Steps ==
  /\ \/ /\ lab = "table" /\ Table!Next
        /\ UNCHANGED <<job, got, NoData, NoFlow, NoRetrans, NoWords>>
     \/ lab = "flow" /\ Flow!Next /\ UNCHANGED <<crashed, NoTable, NoRetrans, NoWords>>
     \/ lab = "retrans" /\ Retrans!Running /\ UNCHANGED <<crashed, job, NoTable, NoFlow, NoWords>>
     \/ /\ lab = "app" /\ App!Next
        /\ UNCHANGED <<raced, NoTable, NoFlow, NoData, NoRetrans, NoWords>>
     \/ /\ lab = "words" /\ Words!Next
        /\ UNCHANGED <<crashed, job, got, raced, NoSock, NoData, NoTable, NoFlow, NoRetrans>>
  /\ UNCHANGED <<lab, NoBelow>>
Lose ==
  /\ lab = "retrans" /\ Retrans!Losing
  /\ UNCHANGED <<lab, crashed, job, NoTable, NoFlow, NoWords, NoBelow>>

\* the layers below, which are not asked to come to an end
OfHost ==
  /\ lab = "host" /\ Below!Next
  /\ UNCHANGED <<lab, crashed, raced, lost, NoSock, NoTable, NoFlow, NoRetrans, NoWords>>
Next == Steps \/ Lose \/ OfHost

Spec ==
  /\ Init /\ [][Next]_vars
  /\ WF_vars(Steps)
-----------------------------------------------------------------------------
(* Lab 14: the ends agree on how far the connection is opened or closed,   *)
(* and the process crashes in the three known ways only.                   *)
Agree == lab = "table" => Table!Agree /\ Table!CrashCause
(* Lab 15: what is read is what was written, and the end of the file comes *)
(* after all of it; below, packets leave in turn and each buffer has one   *)
(* owner.  Lab 18: each sock of the master reads its own counts, although  *)
(* all socks of the master have one port.                                  *)
Stream ==
  /\ lab = "flow" => Flow!Stream /\ Flow!EofAtEnd
  /\ lab = "host" => Below!InTurn /\ Below!OneOwner
  /\ lab = "app" => App!OwnAnswers
(* Lab 16: segments are read once and in order whatever is lost, and what  *)
(* has not arrived can be sent again.                                      *)
Kept == lab = "retrans" => Retrans!InOrder /\ Retrans!Kept
(* BothClose, Finishes, Delivered, Counted: the applications come to their *)
(* end, or to one of the ends each module names.  (The layers below are    *)
(* checked for safety only.)                                               *)
Ends ==
  <>CASE lab = "table"   -> Table!Ended
       [] lab = "flow"    -> Flow!Ended
       [] lab = "retrans" -> Retrans!Ended
       [] lab = "app"     -> App!Ended
       [] lab = "words"   -> Words!Ended
       [] OTHER           -> TRUE
=============================================================================
