-------------------------------- MODULE Nat --------------------------------
(***************************************************************************)
(* The address translation of 09-nat.  Inside endpoints (address and port) *)
(* reach remote ones through one external address, whose ports are handed  *)
(* out from a pool; rules open fixed ports to servers inside.  The thread  *)
(* that reads the interfaces translates packets, another one drops         *)
(* mappings once a second; nat.lock makes each of their turns one action.  *)
(*                                                                         *)
(* The mappings of a hash bucket are a list in the code and searched from  *)
(* its front; here they are a set, and which of several that match is      *)
(* found is left open.                                                     *)
(***************************************************************************)
EXTENDS Integers

CONSTANTS
  Client,     (* inside endpoints that open connections                    *)
  Server,     (* inside endpoints that only accept them                    *)
  Remote,     (* endpoints outside                                         *)
  Bucket,     (* hash8 of a remote address, xor hash8 of its port          *)
  Rule,       (* the dnat_rules for the external address                   *)
  NAT_PORT_MIN, NAT_PORT_MAX,
  MaxSeq,     (* bound on sequence and acknowledgement numbers             *)
  TCP_ESTABLISHED_TIMEOUT

Inside == Client \cup Server

(* What a u16 makes of the -1 that new_external_port returns.              *)
NoPort == 65535
Pool == NAT_PORT_MIN .. NAT_PORT_MAX - 1

ASSUME PortAssumption ==
  /\ NAT_PORT_MIN \in Nat
  /\ NAT_PORT_MAX \in Nat /\ NAT_PORT_MAX <= NoPort
  /\ MaxSeq \in Nat
  /\ TCP_ESTABLISHED_TIMEOUT \in Nat

(* The ports of the rules lie outside the pool, and no two rules share a   *)
(* port or a server, as in the configurations of the repository.           *)
ASSUME RuleAssumption ==
  /\ Client \cap Server = {}
  /\ Rule \subseteq [external_port : 0 .. NoPort - 1, internal : Server]
  /\ \A x \in Rule : x.external_port \notin Pool
  /\ \A x, y \in Rule :
       x.external_port = y.external_port \/ x.internal = y.internal => x = y

VARIABLES
  mappings,        (* all nat_mapping_list together                        *)
  assigned_ports   (* the ports whose flag is set                          *)

vars == <<mappings, assigned_ports>>

-----------------------------------------------------------------------------
(* Packets, and what a mapping remembers of them.                          *)
Flags == {{"SYN"}, {"SYN", "ACK"}, {"ACK"}, {"FIN", "ACK"}, {"RST", "ACK"}}
Packet == [flags : Flags, seq : 0 .. MaxSeq, ack : 0 .. MaxSeq]

Side == {"internal", "external"}

Conn == [fin : [Side -> 0 .. 2], ack : [Side -> 0 .. MaxSeq],
         seq_end : [Side -> 0 .. MaxSeq]]

NewConn == [fin |-> [s \in Side |-> 0], ack |-> [s \in Side |-> 0],
            seq_end |-> [s \in Side |-> 0]]

more_of(a, b) == IF a > b THEN a ELSE b

(* seq_end is raised to the sequence number the packet starts with.        *)
UpdatedConn(conn, side, p) ==
  [fin |-> IF "RST" \in p.flags THEN [s \in Side |-> 2]
           ELSE IF "FIN" \in p.flags THEN [conn.fin EXCEPT ![side] = 1] ELSE conn.fin,
   ack |-> IF "ACK" \in p.flags THEN [conn.ack EXCEPT ![side] = more_of(@, p.ack)]
           ELSE conn.ack,
   seq_end |-> [conn.seq_end EXCEPT ![side] = more_of(@, p.seq)]]

(* idle is the time since update_time; beyond the timeout it is not told   *)
(* apart.                                                                  *)
Idle == 0 .. TCP_ESTABLISHED_TIMEOUT + 1

Mapping == [remote : Remote, internal : Inside, external_port : 0 .. NoPort,
            conn : Conn, idle : Idle]

NewMapping(r, i, port) ==
  [remote |-> r, internal |-> i, external_port |-> port, conn |-> NewConn, idle |-> 0]

Updated(m, side, p) == [m EXCEPT !.conn = UpdatedConn(@, side, p), !.idle = 0]

-----------------------------------------------------------------------------
(* The look-ups go by the bucket of the remote endpoint; the endpoint      *)
(* itself is not compared.                                                 *)
Bucketful(r) == {m \in mappings : Bucket[m.remote] = Bucket[r]}

(* Mutant: the port is not compared.                                        *)
MutFoundIn(r, port) == Bucketful(r)

FoundOut(i, r) == {m \in Bucketful(r) : m.internal = i}
FoundIn(r, port) == {m \in Bucketful(r) : m.external_port = port}

(* Mutant: the loop includes NAT_PORT_MAX.                                  *)
MutFree == (NAT_PORT_MIN .. NAT_PORT_MAX) \ assigned_ports

Free == Pool \ assigned_ports

(* The lowest port that is free, if there is one.                          *)
new_external_port ==
  IF Free = {} THEN {NoPort} ELSE {port \in Free : \A q \in Free : port <= q}

(* do_translation of an outgoing packet.                                   *)
TranslateOut(i, r, p) ==
  \E m \in FoundOut(i, r) :
    /\ mappings' = (mappings \ {m}) \cup {Updated(m, "internal", p)}
    /\ UNCHANGED assigned_ports

OpenOut(i, r, p) ==
  /\ FoundOut(i, r) = {}
  /\ p.flags = {"SYN"}
  /\ \E port \in new_external_port :
       /\ mappings' = mappings \cup {Updated(NewMapping(r, i, port), "internal", p)}
       /\ assigned_ports' = assigned_ports \cup ({port} \ {NoPort})

(* do_translation of an incoming packet.                                   *)
TranslateIn(r, port, p) ==
  \E m \in FoundIn(r, port) :
    /\ mappings' = (mappings \ {m}) \cup {Updated(m, "external", p)}
    /\ UNCHANGED assigned_ports

OpenIn(r, port, p) ==
  /\ FoundIn(r, port) = {}
  /\ p.flags = {"SYN"}
  /\ \E rule \in Rule :
       /\ rule.external_port = port
       /\ mappings' = mappings \cup
            {Updated(NewMapping(r, rule.internal, port), "external", p)}
  /\ UNCHANGED assigned_ports

(* What is not translated: the sender gets an ICMP message.                *)
RefuseOut(i, r, p) == FoundOut(i, r) = {} /\ p.flags # {"SYN"}
RefuseIn(r, port, p) ==
  /\ FoundIn(r, port) = {}
  /\ p.flags = {"SYN"} => \A rule \in Rule : rule.external_port # port

(* A server does not open connections; anybody may send anything else.     *)
Outgoing ==
  \E i \in Inside, r \in Remote, p \in Packet :
    TranslateOut(i, r, p) \/ (i \in Client /\ OpenOut(i, r, p))

Incoming ==
  \E r \in Remote, port \in Pool \cup {NoPort} \cup {x.external_port : x \in Rule},
     p \in Packet :
    TranslateIn(r, port, p) \/ OpenIn(r, port, p)

-----------------------------------------------------------------------------
(* nat_timeout.                                                            *)

is_flow_finished(conn) ==
  /\ \A s \in Side : conn.fin[s] # 0
  /\ conn.ack["internal"] >= conn.seq_end["external"]
  /\ conn.ack["external"] >= conn.seq_end["internal"]

(* Mutant: only finished and reset flows are dropped.                       *)
MutDropped(m) == is_flow_finished(m.conn) \/ \A s \in Side : m.conn.fin[s] = 2

Dropped(m) ==
  \/ is_flow_finished(m.conn)
  \/ m.idle > TCP_ESTABLISHED_TIMEOUT
  \/ \A s \in Side : m.conn.fin[s] = 2

(* Mutant: the ports stay assigned.                                         *)
MutSweep ==
  /\ mappings' = {m \in mappings : ~Dropped(m)}
  /\ UNCHANGED assigned_ports

Sweep ==
  /\ mappings' = {m \in mappings : ~Dropped(m)}
  /\ assigned_ports' = assigned_ports \ {m.external_port : m \in {n \in mappings : Dropped(n)}}

Tick ==
  /\ mappings' = {[m EXCEPT !.idle = IF m.idle \in 0 .. TCP_ESTABLISHED_TIMEOUT
                                     THEN m.idle + 1 ELSE m.idle] : m \in mappings}
  /\ UNCHANGED assigned_ports

Init == mappings = {} /\ assigned_ports = {}

Next == Outgoing \/ Incoming \/ Sweep \/ Tick

Spec == Init /\ [][Next]_vars

(* The timeout thread and the clock go on.                                 *)
FairSpec == Spec /\ WF_vars(Sweep) /\ WF_vars(Tick)

-----------------------------------------------------------------------------
TypeOK ==
  /\ mappings \subseteq Mapping
  /\ assigned_ports \subseteq Pool

(* A port of the pool is assigned exactly as long as a mapping uses it,    *)
(* and never to two: none leaks, none is handed out twice.                 *)
PoolExact ==
  /\ assigned_ports = Pool \cap {m.external_port : m \in mappings}
  /\ \A m, n \in mappings : m.external_port = n.external_port /\ m.external_port \in Pool => m = n

(* Translation out and in are inverse: the answer to a packet goes where   *)
(* the packet came from, and an answer leaves through the port the packet  *)
(* has come in by, even though remote endpoints share buckets and are not  *)
(* compared.  (Unless the pool was empty: then several have NoPort.)       *)
Symmetric ==
  \A r \in Remote : \A m \in Bucketful(r) : m.external_port # NoPort =>
    /\ \A n \in FoundIn(r, m.external_port) : n.internal = m.internal
    /\ \A n \in FoundOut(m.internal, r) : n.external_port = m.external_port

(* When packets stop, the ports come back.                                 *)
Reclaimed ==
  \A port \in Pool : []<>(port \notin assigned_ports) \/ []<><<Outgoing \/ Incoming>>_vars
=============================================================================
