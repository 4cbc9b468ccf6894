----------------------- MODULE TcpConnection_proofs -----------------------
(* Proofs about TcpConnection: whatever is lost, retransmitted or closed   *)
(* first, the two socks never disagree on what has been received, and what *)
(* is missing can be sent again; until a RST the data has no hole.         *)
EXTENDS TcpConnection, FiniteSetTheorems, SequenceTheorems, WellFoundedInduction, TLAPS

-----------------------------------------------------------------------------
(* Numbers, lists, and Selected.                                           *)

(* A set of numbers that is not empty has a least one.                     *)
LEMMA LeastNat ==
  ASSUME NEW T \in SUBSET Nat, T # {}
  PROVE  \E x \in T : \A y \in T : x <= y
<1>1. IsWellFoundedOn(OpToRel(<, Nat), Nat)
  BY NatLessThanWellFounded
<1>2. PICK x \in T : \A y \in T : ~(<<y, x>> \in OpToRel(<, Nat))
  BY <1>1, WFMin
<1>3. \A y \in T : ~(y < x)
  BY <1>2 DEF OpToRel
<1> QED
  BY <1>3

(* Sets of numbers up to m are finite.                                     *)
LEMMA Bounded ==
  ASSUME NEW m \in Nat, NEW S \in SUBSET (1 .. m)
  PROVE  IsFiniteSet(S) /\ Cardinality(S) \in Nat
<1>1. IsFiniteSet(1 .. m)
  BY FS_Interval
<1>2. IsFiniteSet(S)
  BY <1>1, FS_Subset
<1>3. Cardinality(S) \in Nat
  BY <1>2, FS_CardinalityType
<1> QED BY <1>2, <1>3

(* So are their subsets, which have no more elements.                      *)
LEMMA BoundedSubset ==
  ASSUME NEW m \in Nat, NEW S \in SUBSET (1 .. m), NEW T \in SUBSET S
  PROVE  /\ IsFiniteSet(T) /\ Cardinality(T) \in Nat /\ Cardinality(T) <= Cardinality(S)
         /\ T # S => Cardinality(T) # Cardinality(S)
<1>1. IsFiniteSet(S)
  BY Bounded
<1>2. IsFiniteSet(T) /\ Cardinality(T) <= Cardinality(S)
  BY <1>1, FS_Subset
<1>3. Cardinality(S) = Cardinality(T) => S = T
  BY <1>1, FS_Subset
<1>4. Cardinality(T) \in Nat
  BY <1>2, FS_CardinalityType
<1> QED BY <1>2, <1>3, <1>4

(* The n-th of a set of numbers exists.                                    *)
LEMMA NthExists ==
  ASSUME NEW m \in Nat, NEW left \in SUBSET (1 .. m),
         NEW n \in 1 .. Cardinality(left)
  PROVE  \E i \in left : Cardinality({j \in left : j <= i}) = n
<1> DEFINE upto(i) == {j \in left : j <= i}
           rank(i) == Cardinality(upto(i))
           T == {i \in 0 .. m : rank(i) >= n}
<1>1. \A j \in left : j \in Nat /\ 1 <= j /\ j <= m
  OBVIOUS
<1>2. Cardinality(left) \in Nat /\ n \in Nat /\ 1 <= n /\ n <= Cardinality(left)
  <2>1. Cardinality(left) \in Nat
    BY Bounded
  <2> QED BY <2>1
<1>3. \A i \in 0 .. m : rank(i) \in Nat /\ IsFiniteSet(upto(i))
  <2> TAKE i \in 0 .. m
  <2>1. upto(i) \in SUBSET left
    OBVIOUS
  <2> HIDE DEF upto
  <2> QED BY <2>1, BoundedSubset
<1>4. upto(m) = left
  BY <1>1
<1>5. upto(0) = {}
  <2>1. \A j \in left : ~(j <= 0)
    BY <1>1
  <2> QED BY <2>1
<1>6. \A i \in 1 .. m : IF i \in left THEN upto(i) = upto(i - 1) \cup {i} /\ i \notin upto(i - 1)
                                    ELSE upto(i) = upto(i - 1)
  <2> TAKE i \in 1 .. m
  <2>1. \A j \in left : j <= i <=> j <= i - 1 \/ j = i
    BY <1>1
  <2>2. ~(i <= i - 1)
    OBVIOUS
  <2> QED BY <2>1, <2>2
<1> HIDE DEF upto
<1>7. rank(0) = 0
  BY <1>5, FS_EmptySet
<1>8. rank(m) = Cardinality(left)
  BY <1>4
<1>9. \A i \in 1 .. m : rank(i) = IF i \in left THEN rank(i - 1) + 1 ELSE rank(i - 1)
  <2> TAKE i \in 1 .. m
  <2>1. i - 1 \in 0 .. m
    OBVIOUS
  <2>2. IsFiniteSet(upto(i - 1))
    BY <1>3, <2>1
  <2>3. CASE i \in left
    <3>1. upto(i) = upto(i - 1) \cup {i} /\ i \notin upto(i - 1)
      BY <1>6, <2>3
    <3>2. Cardinality(upto(i - 1) \cup {i}) = Cardinality(upto(i - 1)) + 1
      BY <2>2, <3>1, FS_AddElement
    <3> QED BY <2>3, <3>1, <3>2
  <2>4. CASE i \notin left
    BY <1>6, <2>4
  <2> QED BY <2>3, <2>4
<1> HIDE DEF rank
<1>10. m \in T /\ T \in SUBSET Nat
  BY <1>2, <1>8
<1>11. PICK i \in T : \A k \in T : i <= k
  BY <1>10, LeastNat
<1>12. i \in 1 .. m /\ i - 1 \in 0 .. m /\ i - 1 \notin T
  BY <1>2, <1>7, <1>11
<1>13. rank(i) >= n /\ rank(i - 1) < n
  BY <1>2, <1>3, <1>12
<1>14. i \in left /\ rank(i) = n
  BY <1>2, <1>3, <1>9, <1>12, <1>13
<1> QED BY <1>14 DEF rank, upto

(* Each element of a set of numbers has its place, and no other has it.    *)
LEMMA RankOfElement ==
  ASSUME NEW m \in Nat, NEW left \in SUBSET (1 .. m), NEW i \in left
  PROVE  /\ Cardinality({j \in left : j <= i}) \in 1 .. Cardinality(left)
         /\ \A k \in left : Cardinality({j \in left : j <= k}) = Cardinality({j \in left : j <= i})
              => k = i
<1> DEFINE upto(k) == {j \in left : j <= k}
<1>1. \A j \in left : j \in Nat
  OBVIOUS
<1>2. \A k \in left : /\ IsFiniteSet(upto(k)) /\ Cardinality(upto(k)) \in Nat
                      /\ Cardinality(upto(k)) <= Cardinality(left)
  <2> TAKE k \in left
  <2>1. upto(k) \in SUBSET left
    OBVIOUS
  <2> HIDE DEF upto
  <2> QED BY <2>1, BoundedSubset
<1>3. Cardinality(upto(i)) # 0
  <2>1. i \in upto(i)
    BY <1>1
  <2> HIDE DEF upto
  <2> QED BY <1>2, <2>1, FS_EmptySet
<1>4. ASSUME NEW a \in left, NEW b \in left, a < b
      PROVE  Cardinality(upto(a)) # Cardinality(upto(b))
  <2>1. upto(a) \subseteq upto(b)
    <3>1. \A j \in left : j <= a => j <= b
      BY <1>1, <1>4
    <3> QED BY <3>1
  <2>2. b \in upto(b) /\ b \notin upto(a)
    BY <1>1, <1>4
  <2>3. upto(b) \in SUBSET (1 .. m)
    OBVIOUS
  <2> HIDE DEF upto
  <2>4. upto(a) \in SUBSET upto(b) /\ upto(a) # upto(b)
    BY <2>1, <2>2
  <2> QED BY <2>3, <2>4, BoundedSubset
<1>5. ASSUME NEW k \in left, Cardinality(upto(k)) = Cardinality(upto(i))
      PROVE  k = i
  <2>1. ~(k < i) /\ ~(i < k)
    BY <1>4, <1>5
  <2> QED BY <1>1, <2>1
<1>6. Cardinality(left) \in Nat
  BY Bounded
<1> QED BY <1>2, <1>3, <1>5, <1>6

(* What is selected of a list is there, and nothing else is.               *)
LEMMA SelectedEntries ==
  ASSUME NEW S, NEW buf \in Seq(S), NEW left \in SUBSET (DOMAIN buf)
  PROVE  /\ Selected(buf, left) \in Seq(S)
         /\ Range(Selected(buf, left)) = {buf[i] : i \in left}
<1> DEFINE rank(i) == Cardinality({j \in left : j <= i})
           nth(n) == CHOOSE i \in left : rank(i) = n
           sel == [n \in 1 .. Cardinality(left) |-> buf[nth(n)]]
<1>1. left \in SUBSET (1 .. Len(buf)) /\ Len(buf) \in Nat /\ DOMAIN buf = 1 .. Len(buf)
  OBVIOUS
<1>2. Cardinality(left) \in Nat
  BY <1>1, Bounded
<1>3. \A n \in 1 .. Cardinality(left) : nth(n) \in left /\ rank(nth(n)) = n
  <2> TAKE n \in 1 .. Cardinality(left)
  <2>1. \E i \in left : rank(i) = n
    BY <1>1, NthExists
  <2> HIDE DEF rank
  <2> QED BY <2>1
<1>4. \A i \in left : rank(i) \in 1 .. Cardinality(left) /\ nth(rank(i)) = i
  <2> TAKE i \in left
  <2>1. rank(i) \in 1 .. Cardinality(left)
    BY <1>1, RankOfElement
  <2>2. nth(rank(i)) \in left /\ rank(nth(rank(i))) = rank(i)
    BY <1>3, <2>1
  <2>3. \A k \in left : rank(k) = rank(i) => k = i
    BY <1>1, RankOfElement
  <2> HIDE DEF rank, nth
  <2> QED BY <2>1, <2>2, <2>3
<1>5. Selected(buf, left) = sel
  BY DEF Selected
<1> HIDE DEF rank, nth
<1>6. sel \in Seq(S)
  <2>1. \A n \in 1 .. Cardinality(left) : buf[nth(n)] \in S
    BY <1>1, <1>3
  <2> QED BY <1>2, <2>1
<1>7. Range(sel) = {buf[i] : i \in left}
  BY <1>3, <1>4 DEF Range
<1> QED BY <1>5, <1>6, <1>7

(* What follows next without a gap is an interval.                         *)
LEMMA FollowingInterval ==
  ASSUME NEW h \in Host, ofo[h] \in SUBSET (1 .. Segments), NEW next \in Nat
  PROVE  \E m \in Nat : /\ m >= next
                        /\ Following(h, next) = next .. m - 1
                        /\ Cardinality(Following(h, next)) = m - next
                        /\ Following(h, next) \subseteq ofo[h]
<1>1. Segments \in Nat
  BY BoundAssumption
<1>2. \A x \in ofo[h] : x \in Nat /\ 1 <= x /\ x <= Segments
  OBVIOUS
<1> DEFINE T == {u \in Nat : next <= u /\ u \notin ofo[h]}
<1>3. T \in SUBSET Nat /\ T # {}
  <2>1. next + Segments + 1 \in T
    BY <1>1, <1>2
  <2> QED BY <2>1
<1>4. PICK m \in T : \A u \in T : m <= u
  BY <1>3, LeastNat
<1>5. m \in Nat /\ next <= m /\ m \notin ofo[h] /\ \A x \in next .. m - 1 : x \in ofo[h]
  BY <1>4
<1> HIDE DEF T
<1>6. ASSUME NEW x \in Following(h, next)
      PROVE  x \in next .. m - 1
  <2>1. x \in ofo[h] /\ next <= x /\ next .. x \subseteq ofo[h]
    BY DEF Following
  <2>2. ~(m <= x)
    BY <1>5, <2>1
  <2> QED BY <1>2, <1>5, <2>1, <2>2
<1>7. ASSUME NEW x \in next .. m - 1
      PROVE  x \in Following(h, next)
  <2>1. next .. x \subseteq next .. m - 1
    BY <1>5
  <2> QED BY <1>5, <1>7, <2>1 DEF Following
<1>8. Following(h, next) = next .. m - 1
  BY <1>6, <1>7
<1>9. Cardinality(next .. m - 1) = m - next
  BY <1>5, FS_Interval
<1>10. Following(h, next) \subseteq ofo[h]
  BY DEF Following
<1> QED BY <1>5, <1>8, <1>9, <1>10

-----------------------------------------------------------------------------
(* Packets, blocks, and lists of them.                                     *)

(* The packets and blocks of TypeOK.                                       *)
PacketType == [kind : Kind, seq : Nat, ack : Nat]
BlockType == [kind : Kind, seq : Nat, times : 0 .. 3]

(* The two ends of the connection.                                         *)
LEMMA Ends ==
  /\ Host = {"client", "server"}
  /\ \A h \in Host : Peer(h) \in Host /\ Peer(Peer(h)) = h /\ Peer(h) # h
  /\ \A g, h \in Host : g = h \/ g = Peer(h)
  /\ Peer("client") = "server" /\ Peer("server") = "client"
BY DEF Host, Peer

(* What a packet and a block have; seq_end of both.                        *)
LEMMA PacketFields ==
  /\ \A p \in PacketType : p.kind \in Kind /\ p.seq \in Nat /\ p.ack \in Nat
                           /\ seq_end(p) \in Nat /\ seq_end(p) \in {p.seq, p.seq + 1}
  /\ \A b \in BlockType : b.kind \in Kind /\ b.seq \in Nat /\ b.times \in 0 .. 3
                          /\ seq_end(b) \in Nat /\ seq_end(b) \in {b.seq, b.seq + 1}
BY DEF PacketType, BlockType, seq_end, Length

(* The packets and blocks that the actions make have those types.          *)
LEMMA MakePacket ==
  ASSUME NEW kind \in Kind, NEW seq \in Nat, NEW ack \in Nat
  PROVE  /\ Packet(kind, seq, ack) \in PacketType
         /\ Packet(kind, seq, ack).kind = kind
         /\ Packet(kind, seq, ack).seq = seq
         /\ Packet(kind, seq, ack).ack = ack
BY DEF Packet, PacketType

LEMMA MakeBlock ==
  ASSUME NEW kind \in Kind, NEW seq \in Nat
  PROVE  /\ Block(kind, seq) \in BlockType
         /\ Block(kind, seq).kind = kind /\ Block(kind, seq).seq = seq
BY DEF Block, BlockType

(* What is in a list after an operation on it.                             *)
LEMMA RangeOf ==
  ASSUME NEW S, NEW s \in Seq(S), NEW x
  PROVE  x \in Range(s) <=> \E i \in 1 .. Len(s) : x = s[i]
BY DEF Range

(* Each operation on a list, by the entries of its result.                 *)
LEMMA Elements ==
  ASSUME NEW S, NEW s \in Seq(S)
  PROVE  /\ Range(s) \subseteq S
         /\ Range(<<>>) = {}
         /\ \A x : Range(<<x>>) = {x}
         /\ \A x \in S : Append(s, x) \in Seq(S) /\ Range(Append(s, x)) = Range(s) \cup {x}
         /\ \A t \in Seq(S) : s \o t \in Seq(S) /\ Range(s \o t) = Range(s) \cup Range(t)
         /\ s # <<>> => /\ Head(s) \in Range(s)
                        /\ Tail(s) \in Seq(S) /\ Range(Tail(s)) \subseteq Range(s)
<1>1. Range(s) \subseteq S /\ Range(<<>>) = {}
  BY DEF Range
<1>2. \A x : Range(<<x>>) = {x}
  BY DEF Range
<1>3. ASSUME NEW x \in S
      PROVE  Append(s, x) \in Seq(S) /\ Range(Append(s, x)) = Range(s) \cup {x}
  <2>1. Append(s, x) \in Seq(S) /\ Len(Append(s, x)) = Len(s) + 1
    OBVIOUS
  <2>2. \A i \in 1 .. Len(s) : Append(s, x)[i] = s[i]
    OBVIOUS
  <2>3. Append(s, x)[Len(s) + 1] = x
    OBVIOUS
  <2>4. \A y : y \in Range(Append(s, x)) <=> \E i \in 1 .. Len(s) + 1 : y = Append(s, x)[i]
    BY <2>1, RangeOf
  <2>5. \A y : y \in Range(s) <=> \E i \in 1 .. Len(s) : y = s[i]
    BY RangeOf
  <2>6. \A i \in 1 .. Len(s) + 1 : i \in 1 .. Len(s) \/ i = Len(s) + 1
    OBVIOUS
  <2>7. \A i \in 1 .. Len(s) : i \in 1 .. Len(s) + 1
    OBVIOUS
  <2>8. Len(s) + 1 \in 1 .. Len(s) + 1
    OBVIOUS
  <2>9. \A y : y \in Range(Append(s, x)) <=> y \in Range(s) \/ y = x
    BY <2>2, <2>3, <2>4, <2>5, <2>6, <2>7, <2>8
  <2> QED BY <2>1, <2>9
<1>4. ASSUME NEW t \in Seq(S)
      PROVE  s \o t \in Seq(S) /\ Range(s \o t) = Range(s) \cup Range(t)
  <2>1. s \o t \in Seq(S) /\ Len(s \o t) = Len(s) + Len(t)
    OBVIOUS
  <2>2. \A i \in 1 .. Len(s) + Len(t) :
          (s \o t)[i] = IF i <= Len(s) THEN s[i] ELSE t[i - Len(s)]
    OBVIOUS
  <2>3. \A y : y \in Range(s \o t) <=> \E i \in 1 .. Len(s) + Len(t) : y = (s \o t)[i]
    BY <2>1, RangeOf
  <2>4. \A y : y \in Range(s) <=> \E i \in 1 .. Len(s) : y = s[i]
    BY RangeOf
  <2>5. \A y : y \in Range(t) <=> \E i \in 1 .. Len(t) : y = t[i]
    BY RangeOf
  <2>6. ASSUME NEW y \in Range(s \o t)
        PROVE  y \in Range(s) \cup Range(t)
    <3>1. PICK i \in 1 .. Len(s) + Len(t) : y = (s \o t)[i]
      BY <2>3
    <3>2. CASE i <= Len(s)
      BY <2>2, <2>4, <3>1, <3>2
    <3>3. CASE ~(i <= Len(s))
      <4>1. i - Len(s) \in 1 .. Len(t)
        BY <3>3
      <4> QED BY <2>2, <2>5, <3>1, <3>3, <4>1
    <3> QED BY <3>2, <3>3
  <2>7. ASSUME NEW y \in Range(s)
        PROVE  y \in Range(s \o t)
    <3>1. PICK i \in 1 .. Len(s) : y = s[i]
      BY <2>4
    <3>2. i \in 1 .. Len(s) + Len(t) /\ i <= Len(s)
      OBVIOUS
    <3> QED BY <2>2, <2>3, <3>1, <3>2
  <2>8. ASSUME NEW y \in Range(t)
        PROVE  y \in Range(s \o t)
    <3>1. PICK i \in 1 .. Len(t) : y = t[i]
      BY <2>5
    <3>2. Len(s) + i \in 1 .. Len(s) + Len(t) /\ ~(Len(s) + i <= Len(s)) /\ Len(s) + i - Len(s) = i
      OBVIOUS
    <3>3. (s \o t)[Len(s) + i] = y
      BY <2>2, <3>1, <3>2
    <3> QED BY <2>3, <3>2, <3>3
  <2> QED BY <2>1, <2>6, <2>7, <2>8
<1>5. ASSUME s # <<>>
      PROVE  Head(s) \in Range(s) /\ Tail(s) \in Seq(S) /\ Range(Tail(s)) \subseteq Range(s)
  <2>1. Head(s) = s[1] /\ 1 \in 1 .. Len(s)
    BY <1>5
  <2>2. Tail(s) \in Seq(S) /\ Len(Tail(s)) = Len(s) - 1
    BY <1>5
  <2>3. \A i \in 1 .. Len(s) - 1 : Tail(s)[i] = s[i + 1] /\ i + 1 \in 1 .. Len(s)
    BY <1>5
  <2>4. \A y : y \in Range(Tail(s)) => \E i \in 1 .. Len(s) - 1 : y = Tail(s)[i]
    BY <2>2, RangeOf
  <2>5. \A y : y \in Range(s) <=> \E i \in 1 .. Len(s) : y = s[i]
    BY RangeOf
  <2> QED BY <2>1, <2>2, <2>3, <2>4, <2>5
<1> QED BY <1>1, <1>2, <1>3, <1>4, <1>5

-----------------------------------------------------------------------------
(* The invariant.                                                          *)

(* The places of tcp_sock_connect before it has been woken.                *)
Early == {"connect", "hash", "connecting"}
(* What each end keeps in send_buf, and what it sends.                     *)
BlockKind(h) == IF h = "client" THEN {"SYN", "DATA", "FIN"} ELSE {"SYNACK", "FIN"}
PacketKind(h) == BlockKind(h) \cup {"ACK", "RST"}

(* A packet of h acknowledges no more than h has received, and ends within *)
(* what h has numbered; before the SYN|ACK it is a SYN or a RST.           *)
Sent(h, p) ==
  /\ p.kind \in PacketKind(h)
  /\ seq_end(p) <= snd_nxt[h]
  /\ p.ack <= rcv_nxt[h]
  /\ p.kind = "DATA" => p.seq \in 1 .. Segments
  /\ h = "client" /\ app["client"] \in Early => p.kind \in {"SYN", "RST"}

(* A block waits in send_buf with numbers that have been used.             *)
Held(h, b) ==
  /\ b.kind \in BlockKind(h)
  /\ seq_end(b) <= snd_nxt[h]
  /\ b.kind = "DATA" => b.seq \in 1 .. Segments
  /\ h = "client" /\ app["client"] \in Early => b.kind = "SYN"

(* Number x of h can still be sent: its block is kept, or about to be.     *)
Covered(h, x) == Appending(h, x) \/ \E b \in Range(send_buf[h]) : b.seq = x

(* No end takes more than the other has numbered, nor believes that the    *)
(* other has taken more than it has.                                       *)
Agreement ==
  \A h \in Host : snd_una[h] <= rcv_nxt[Peer(h)] /\ rcv_nxt[h] <= snd_nxt[Peer(h)]

(* The same of everything from which the fields of a sock are set later:   *)
(* packets on the wire, blocks, segments out of order, and the FIN that    *)
(* tcp_sock_close has sent and not appended yet.                           *)
Lists ==
  \A h \in Host :
    /\ \A p \in Range(wire[h]) : Sent(Peer(h), p)
    /\ \A b \in Range(send_buf[h]) : Held(h, b)
    /\ \A x \in ofo[h] : x < snd_nxt[Peer(h)]
    /\ app[h] \in {"fin_wait", "last_ack"} => fin[h] < snd_nxt[h]

(* Every number that the other end still lacks can be sent again.          *)
Kept ==
  \A h \in Host : \A x \in Nat : rcv_nxt[Peer(h)] <= x /\ x < snd_nxt[h] => Covered(h, x)

(* Until the SYN|ACK wakes the client the server has only answered its SYN. *)
Opening ==
  /\ hashed["client"] <=> app["client"] \notin {"connect", "hash"}
  /\ IF app["client"] = "connect" THEN snd_nxt["client"] = 0 ELSE snd_nxt["client"] >= 1
  /\ rx["client"] = "synack" => wire["client"] # <<>>
  /\ rx["server"] = "idle"
  /\ state["client"] # "SYN_RECV"
  /\ state["client"] = "SYN_SENT" /\ rx["client"] = "idle" => app["client"] \in Early
  /\ app["client"] \in Early =>
       /\ rx["client"] = "idle" /\ rcv_nxt["client"] <= 1 /\ snd_nxt["client"] <= 1
       /\ state["client"] = IF app["client"] = "connect" THEN "CLOSED" ELSE "SYN_SENT"
       /\ state["server"] \in {"CLOSED", "SYN_RECV"}
       /\ app["server"] = "accept" /\ ~accept_queue
       /\ snd_nxt["server"] <= 1

(* The child of the server does not exist before the SYN.                  *)
Listening ==
  ~hashed["server"] =>
    /\ snd_nxt["server"] = 0 /\ rcv_nxt["server"] = 0
    /\ send_buf["server"] = <<>>
    /\ state["server"] = "CLOSED"
    /\ app["server"] = "accept" /\ ~accept_queue

(* The inductive invariant.                                                *)
IInv == TypeOK /\ Agreement /\ Lists /\ Kept /\ Opening /\ Listening

-----------------------------------------------------------------------------
(* Types, read off once.                                                   *)
LEMMA Types ==
  ASSUME TypeOK, NEW h \in Host
  PROVE  /\ snd_una[h] \in Nat /\ snd_nxt[h] \in Nat /\ rcv_nxt[h] \in Nat
         /\ send_buf[h] \in Seq(BlockType) /\ wire[h] \in Seq(PacketType)
         /\ stored[h] \in SUBSET (1 .. Segments) /\ ofo[h] \in SUBSET (1 .. Segments)
         /\ fin[h] \in Nat
         /\ wire \in [Host -> Seq(PacketType)] /\ send_buf \in [Host -> Seq(BlockType)]
BY DEF TypeOK, BlockType, PacketType

-----------------------------------------------------------------------------
(* What the wire and send_buf hold after a step.                           *)

(* Sending appends one packet to the wire of the other end.                *)
LEMMA SendWire ==
  ASSUME wire \in [Host -> Seq(PacketType)], NEW h \in Host, NEW p \in PacketType, Send(h, p)
  PROVE  /\ wire' \in [Host -> Seq(PacketType)]
         /\ wire'[h] = wire[h]
         /\ Range(wire'[Peer(h)]) = Range(wire[Peer(h)]) \cup {p}
         /\ \A g \in Host : wire[g] # <<>> => wire'[g] # <<>>
<1>1. Peer(h) \in Host /\ Peer(h) # h
  BY Ends
<1>2. wire[Peer(h)] \in Seq(PacketType)
  BY <1>1
<1>3. /\ Append(wire[Peer(h)], p) \in Seq(PacketType)
      /\ Range(Append(wire[Peer(h)], p)) = Range(wire[Peer(h)]) \cup {p}
  BY <1>2, Elements
<1>4. wire' = [wire EXCEPT ![Peer(h)] = Append(wire[Peer(h)], p)]
  BY DEF Send
<1>5. wire'[h] = wire[h] /\ wire'[Peer(h)] = Append(wire[Peer(h)], p)
  BY <1>1, <1>4
<1>6. wire' \in [Host -> Seq(PacketType)]
  BY <1>1, <1>3, <1>4
<1>7. \A g \in Host : g = h \/ g = Peer(h)
  BY Ends
<1>8. Append(wire[Peer(h)], p) # <<>>
  BY <1>2
<1> QED BY <1>3, <1>5, <1>6, <1>7, <1>8

(* Handling a packet takes it off the wire and may answer it.              *)
LEMMA TakeWire ==
  ASSUME wire \in [Host -> Seq(PacketType)], NEW h \in Host, wire[h] # <<>>,
         NEW reply \in Seq(PacketType), Take(h, reply)
  PROVE  /\ wire' \in [Host -> Seq(PacketType)]
         /\ Range(wire'[h]) \subseteq Range(wire[h])
         /\ Range(wire'[Peer(h)]) = Range(wire[Peer(h)]) \cup Range(reply)
         /\ wire[Peer(h)] # <<>> => wire'[Peer(h)] # <<>>
<1>1. Peer(h) \in Host /\ Peer(h) # h
  BY Ends
<1>2. wire[Peer(h)] \in Seq(PacketType) /\ wire[h] \in Seq(PacketType)
  BY <1>1
<1>3. /\ wire[Peer(h)] \o reply \in Seq(PacketType)
      /\ Range(wire[Peer(h)] \o reply) = Range(wire[Peer(h)]) \cup Range(reply)
      /\ Tail(wire[h]) \in Seq(PacketType) /\ Range(Tail(wire[h])) \subseteq Range(wire[h])
  BY <1>2, Elements
<1>4. wire'[h] = Tail(wire[h]) /\ wire'[Peer(h)] = wire[Peer(h)] \o reply
  BY <1>1 DEF Take
<1>5. wire' \in [Host -> Seq(PacketType)]
  BY <1>1, <1>3 DEF Take
<1>6. wire[Peer(h)] # <<>> => wire[Peer(h)] \o reply # <<>>
  BY <1>2
<1> QED BY <1>3, <1>4, <1>5, <1>6

(* The lists of answers.                                                   *)
LEMMA Replies ==
  /\ <<>> \in Seq(PacketType) /\ Range(<<>>) = {}
  /\ \A p \in PacketType : <<p>> \in Seq(PacketType) /\ Range(<<p>>) = {p}
<1>1. <<>> \in Seq(PacketType)
  OBVIOUS
<1>2. \A p \in PacketType : <<p>> \in Seq(PacketType)
  OBVIOUS
<1> QED BY <1>1, <1>2, Elements

(* tcp_free_send_buf leaves the blocks that end beyond the acknowledgement. *)
LEMMA Freed ==
  ASSUME send_buf \in [Host -> Seq(BlockType)], NEW h \in Host, NEW ack \in Nat,
         tcp_free_send_buf(h, ack)
  PROVE  /\ send_buf' \in [Host -> Seq(BlockType)]
         /\ Range(send_buf'[h]) = {b \in Range(send_buf[h]) : seq_end(b) > ack}
         /\ send_buf'[Peer(h)] = send_buf[Peer(h)]
<1> DEFINE left == {i \in DOMAIN send_buf[h] : seq_end(send_buf[h][i]) > ack}
<1>1. send_buf' = [send_buf EXCEPT ![h] = Selected(send_buf[h], left)]
  BY DEF tcp_free_send_buf
<1>2. send_buf[h] \in Seq(BlockType) /\ left \in SUBSET (DOMAIN send_buf[h])
  OBVIOUS
<1>3. /\ Selected(send_buf[h], left) \in Seq(BlockType)
      /\ Range(Selected(send_buf[h], left)) = {send_buf[h][i] : i \in left}
  <2> HIDE DEF left
  <2> QED BY <1>2, SelectedEntries
<1>4. {send_buf[h][i] : i \in left} = {b \in Range(send_buf[h]) : seq_end(b) > ack}
  BY <1>2 DEF Range
<1>5. send_buf'[h] = Selected(send_buf[h], left)
  BY <1>1
<1>6. Peer(h) \in Host /\ Peer(h) # h
  BY Ends
<1> HIDE DEF left
<1> QED BY <1>1, <1>3, <1>4, <1>5, <1>6

(* What thread rx takes has been sent by the peer.                         *)
LEMMA Taken ==
  ASSUME TypeOK, Lists, NEW h \in Host, NEW p \in Arrived(h)
  PROVE  /\ p \in PacketType /\ wire[h] # <<>> /\ rx[h] = "idle" /\ p = Head(wire[h])
         /\ Sent(Peer(h), p) /\ Peer(h) \in Host
<1>1. wire[h] \in Seq(PacketType)
  BY Types
<1>2. wire[h] # <<>> /\ rx[h] = "idle" /\ p = Head(wire[h])
  BY DEF Arrived
<1>3. p \in Range(wire[h]) /\ p \in PacketType
  BY <1>1, <1>2, Elements
<1> QED BY <1>2, <1>3, Ends DEF Lists

(* The packet at the head of a wire was sent by the other end.             *)
LEMMA HeadOf ==
  ASSUME TypeOK, Lists, NEW h \in Host, wire[h] # <<>>
  PROVE  Head(wire[h]) \in PacketType /\ Sent(Peer(h), Head(wire[h]))
<1>1. wire[h] \in Seq(PacketType)
  BY Types
<1>2. Head(wire[h]) \in Range(wire[h]) /\ Head(wire[h]) \in PacketType
  BY <1>1, Elements
<1> QED BY <1>2 DEF Lists

(* Sequence numbers never go back, and tcp_sock_connect does not start     *)
(* anew.  With that, what was sent or held keeps what Sent and Held say.   *)
Grows ==
  /\ \A h \in Host : snd_nxt[h] <= snd_nxt'[h] /\ rcv_nxt[h] <= rcv_nxt'[h]
  /\ app'["client"] \in Early => app["client"] \in Early

LEMMA SentStays ==
  ASSUME TypeOK, TypeOK', Grows, NEW h \in Host, NEW p \in PacketType, Sent(h, p)
  PROVE  Sent(h, p)'
<1>1. snd_nxt[h] <= snd_nxt'[h] /\ rcv_nxt[h] <= rcv_nxt'[h]
  BY DEF Grows
<1>2. /\ snd_nxt[h] \in Nat /\ snd_nxt'[h] \in Nat
      /\ rcv_nxt[h] \in Nat /\ rcv_nxt'[h] \in Nat
  BY DEF TypeOK
<1>3. seq_end(p) \in Nat /\ p.ack \in Nat
  BY PacketFields
<1>4. seq_end(p) <= snd_nxt'[h]
  BY <1>1, <1>2, <1>3 DEF Sent
<1>5. p.ack <= rcv_nxt'[h]
  BY <1>1, <1>2, <1>3 DEF Sent
<1> QED BY <1>4, <1>5 DEF Sent, Grows

LEMMA HeldStays ==
  ASSUME TypeOK, TypeOK', Grows, NEW h \in Host, NEW b \in BlockType, Held(h, b)
  PROVE  Held(h, b)'
<1>1. snd_nxt[h] <= snd_nxt'[h] /\ snd_nxt[h] \in Nat /\ snd_nxt'[h] \in Nat
  BY DEF Grows, TypeOK
<1>2. seq_end(b) \in Nat
  BY PacketFields
<1>3. seq_end(b) <= snd_nxt'[h]
  BY <1>1, <1>2 DEF Held
<1> QED BY <1>3 DEF Held, Grows

(* Lists is preserved when what is added to each list is.                  *)
LEMMA ListsStay ==
  ASSUME TypeOK, TypeOK', Lists, Grows,
         \A h \in Host : \A p \in Range(wire'[h]) : p \in Range(wire[h]) \/ Sent(Peer(h), p)',
         \A h \in Host : \A b \in Range(send_buf'[h]) : b \in Range(send_buf[h]) \/ Held(h, b)',
         \A h \in Host : \A x \in ofo'[h] : x \in ofo[h] \/ x < snd_nxt'[Peer(h)],
         \A h \in Host : app'[h] \in {"fin_wait", "last_ack"} =>
           \/ app[h] \in {"fin_wait", "last_ack"} /\ fin'[h] = fin[h]
           \/ fin'[h] < snd_nxt'[h]
  PROVE  Lists'
<1>1. ASSUME NEW h \in Host, NEW p \in Range(wire'[h])
      PROVE  Sent(Peer(h), p)'
  <2>1. CASE p \in Range(wire[h])
    <3>1. p \in PacketType /\ Sent(Peer(h), p) /\ Peer(h) \in Host
      BY <2>1, Types, Elements, Ends DEF Lists
    <3> QED BY <3>1, SentStays
  <2> QED BY <2>1
<1>2. ASSUME NEW h \in Host, NEW b \in Range(send_buf'[h])
      PROVE  Held(h, b)'
  <2>1. CASE b \in Range(send_buf[h])
    <3>1. b \in BlockType /\ Held(h, b)
      BY <2>1, Types, Elements DEF Lists
    <3> QED BY <3>1, HeldStays
  <2> QED BY <2>1
<1>3. ASSUME NEW h \in Host
      PROVE  /\ snd_nxt[h] <= snd_nxt'[h] /\ snd_nxt[h] \in Nat /\ snd_nxt'[h] \in Nat
             /\ fin[h] \in Nat
  BY DEF Grows, TypeOK
<1>4. ASSUME NEW h \in Host, NEW x \in ofo'[h]
      PROVE  x < snd_nxt'[Peer(h)]
  <2>1. CASE x \in ofo[h]
    <3>1. x < snd_nxt[Peer(h)] /\ Peer(h) \in Host /\ ofo[h] \in SUBSET (1 .. Segments)
      BY <2>1, Ends, Types DEF Lists
    <3>2. x \in Nat
      BY <2>1, <3>1
    <3> QED BY <1>3, <3>1, <3>2
  <2> QED BY <2>1
<1>5. ASSUME NEW h \in Host, app'[h] \in {"fin_wait", "last_ack"}
      PROVE  fin'[h] < snd_nxt'[h]
  <2>1. CASE app[h] \in {"fin_wait", "last_ack"} /\ fin'[h] = fin[h]
    <3>1. fin[h] < snd_nxt[h]
      BY <2>1 DEF Lists
    <3> QED BY <1>3, <2>1, <3>1
  <2> QED BY <1>5, <2>1
<1> QED BY <1>1, <1>2, <1>4, <1>5 DEF Lists

(* A step of an application or a timer in which nothing is sent, freed or  *)
(* acknowledged.                                                           *)
Quiet ==
  /\ UNCHANGED <<snd_una, snd_nxt, rcv_nxt, send_buf, wire, ofo, fin, hashed, rx>>
  /\ app'["client"] = app["client"]
  /\ \A at \in {"hash", "fin_wait", "last_ack"} : app'["server"] = at <=> app["server"] = at

LEMMA QuietStep ==
  ASSUME IInv, TypeOK', Quiet, Opening', Listening'
  PROVE  IInv'
<1>1. Grows
  <2>1. \A h \in Host : snd_nxt[h] \in Nat /\ rcv_nxt[h] \in Nat
    BY DEF IInv, TypeOK
  <2> QED BY <2>1 DEF Grows, Quiet
<1>2. \A h \in Host : app'[h] \in {"fin_wait", "last_ack"} => app[h] \in {"fin_wait", "last_ack"}
  BY DEF Quiet, Host
<1>3. Lists'
  BY <1>1, <1>2, ListsStay DEF Quiet, IInv
<1>4. Agreement'
  BY DEF Quiet, IInv, Agreement
<1>5. \A h \in Host, x \in Nat : Covered(h, x) => Covered(h, x)'
  BY DEF Quiet, Covered, Appending, Host
<1>6. Kept'
  BY <1>5 DEF Quiet, IInv, Kept
<1> QED BY <1>3, <1>4, <1>6 DEF IInv

(* The actions that are quiet.                                             *)
LEMMA QuietSteps ==
  ASSUME IInv, Accept \/ ReadBytes \/ ReadReturnsZero \/ ReadWakes \/ TimeWaitExpires("client")
                 \/ TimeWaitExpires("server") \/ LookupFails
  PROVE  IInv'
<1> USE DEF Host
<1>1. CASE Accept
  <2>1. TypeOK' /\ Quiet
    BY <1>1 DEF Accept, IInv, TypeOK, Quiet, rcvVars, envVars
  <2>2. Opening' /\ Listening'
    BY <1>1 DEF Accept, IInv, TypeOK, Opening, Listening, rcvVars, envVars
  <2> QED BY <2>1, <2>2, QuietStep
<1>2. CASE ReadBytes
  <2>1. TypeOK' /\ Quiet
    BY <1>2 DEF ReadBytes, IInv, TypeOK, Quiet, sockVars, envVars
  <2>2. Opening' /\ Listening'
    BY <1>2 DEF ReadBytes, IInv, TypeOK, Opening, Listening, sockVars, envVars
  <2> QED BY <2>1, <2>2, QuietStep
<1>3. CASE ReadReturnsZero
  <2>1. TypeOK' /\ Quiet
    BY <1>3 DEF ReadReturnsZero, IInv, TypeOK, Quiet, sockVars, rcvVars, envVars
  <2>2. Opening' /\ Listening'
    BY <1>3 DEF ReadReturnsZero, IInv, TypeOK, Opening, Listening, sockVars, rcvVars, envVars
  <2> QED BY <2>1, <2>2, QuietStep
<1>4. CASE ReadWakes
  <2>1. TypeOK' /\ Quiet
    BY <1>4 DEF ReadWakes, IInv, TypeOK, Quiet, sockVars, envVars
  <2>2. Opening' /\ Listening'
    BY <1>4 DEF ReadWakes, IInv, TypeOK, Opening, Listening, sockVars, envVars
  <2> QED BY <2>1, <2>2, QuietStep
<1>5. ASSUME NEW h \in Host, TimeWaitExpires(h)
      PROVE  IInv'
  <2>1. TypeOK'
    <3>1. CASE h = "client"
      <4>1. state' = [state EXCEPT !["client"] = "CLOSED"] /\ UNCHANGED crashed
        BY <1>5, <3>1 DEF TimeWaitExpires
      <4> QED BY <1>5, <4>1 DEF TimeWaitExpires, IInv, TypeOK, rcvVars
    <3>2. CASE h # "client"
      BY <1>5, <3>2 DEF TimeWaitExpires, IInv, TypeOK, rcvVars
    <3> QED BY <3>1, <3>2
  <2>3. Quiet
    BY <1>5 DEF TimeWaitExpires, Quiet, rcvVars
  <2>2. Opening' /\ Listening'
    BY <1>5 DEF TimeWaitExpires, IInv, TypeOK, Opening, Listening, rcvVars, Early
  <2> QED BY <2>1, <2>2, <2>3, QuietStep
<1>6. CASE LookupFails
  <2>1. TypeOK' /\ Quiet
    BY <1>6 DEF LookupFails, IInv, TypeOK, Quiet, sockVars, rcvVars
  <2>2. Opening' /\ Listening'
    BY <1>6 DEF LookupFails, IInv, TypeOK, Opening, Listening, sockVars, rcvVars
  <2> QED BY <2>1, <2>2, QuietStep
<1> QED BY <1>1, <1>2, <1>3, <1>4, <1>5, <1>6

(* Kept is preserved when no block is lost that is not received, and new   *)
(* numbers have their block.                                               *)
LEMMA KeptStays ==
  ASSUME TypeOK, TypeOK', Kept, Grows,
         \A h \in Host, x \in Nat : Covered(h, x) => Covered(h, x)' \/ x < rcv_nxt'[Peer(h)],
         \A h \in Host, x \in Nat : snd_nxt[h] <= x /\ x < snd_nxt'[h] => Covered(h, x)'
  PROVE  Kept'
<1> SUFFICES ASSUME NEW h \in Host, NEW x \in Nat, rcv_nxt'[Peer(h)] <= x, x < snd_nxt'[h]
             PROVE  Covered(h, x)'
  BY DEF Kept
<1>1. Peer(h) \in Host
  BY Ends
<1>2. /\ snd_nxt[h] \in Nat /\ rcv_nxt[Peer(h)] \in Nat /\ rcv_nxt'[Peer(h)] \in Nat
      /\ rcv_nxt[Peer(h)] <= rcv_nxt'[Peer(h)]
  BY <1>1 DEF TypeOK, Grows
<1>3. CASE x < snd_nxt[h]
  <2>1. rcv_nxt[Peer(h)] <= x
    BY <1>2
  <2>2. Covered(h, x)
    BY <1>3, <2>1 DEF Kept
  <2>3. ~(x < rcv_nxt'[Peer(h)])
    BY <1>2
  <2> QED BY <2>2, <2>3
<1>4. CASE ~(x < snd_nxt[h])
  BY <1>2, <1>4
<1> QED BY <1>3, <1>4

(* An application or a timer sends a packet, and may number it or keep a   *)
(* block of it.                                                            *)
LEMMA SendStep ==
  ASSUME IInv, TypeOK', Opening', Listening', Grows,
         NEW h \in Host,
         \/ wire' = wire
         \/ \E p \in PacketType : Send(h, p) /\ Sent(h, p)',
         UNCHANGED <<snd_una, rcv_nxt, ofo>>,
         snd_nxt'[Peer(h)] = snd_nxt[Peer(h)],
         \A g \in Host : \A b \in Range(send_buf'[g]) : b \in Range(send_buf[g]) \/ Held(g, b)',
         \A g \in Host, x \in Nat : Covered(g, x) => Covered(g, x)',
         \A x \in Nat : snd_nxt[h] <= x /\ x < snd_nxt'[h] => Covered(h, x)',
         \A g \in Host : app'[g] \in {"fin_wait", "last_ack"} =>
           \/ app[g] \in {"fin_wait", "last_ack"} /\ fin'[g] = fin[g]
           \/ fin'[g] < snd_nxt'[g]
  PROVE  IInv'
<1>0. TypeOK /\ Agreement /\ Lists /\ Kept
  BY DEF IInv
<1>1. \A g \in Host : \A p \in Range(wire'[g]) : p \in Range(wire[g]) \/ Sent(Peer(g), p)'
  <2>1. CASE wire' = wire
    BY <2>1
  <2>2. ASSUME NEW p \in PacketType, Send(h, p), Sent(h, p)'
        PROVE  \A g \in Host : \A q \in Range(wire'[g]) : q \in Range(wire[g]) \/ Sent(Peer(g), q)'
    <3>1. wire \in [Host -> Seq(PacketType)]
      BY <1>0, Types, Ends
    <3>2. /\ wire'[h] = wire[h]
          /\ Range(wire'[Peer(h)]) = Range(wire[Peer(h)]) \cup {p}
      BY <2>2, <3>1, SendWire
    <3> SUFFICES ASSUME NEW g \in Host, NEW q \in Range(wire'[g])
                 PROVE  q \in Range(wire[g]) \/ Sent(Peer(g), q)'
      OBVIOUS
    <3>3. CASE g = h
      BY <3>2, <3>3
    <3>4. CASE g = Peer(h)
      <4>1. Peer(g) = h
        BY <3>4, Ends
      <4>2. q \in Range(wire[g]) \/ q = p
        BY <3>2, <3>4
      <4> QED BY <2>2, <4>1, <4>2
    <3> QED BY <3>3, <3>4, Ends
  <2> QED BY <2>1, <2>2
<1>2. \A g \in Host : \A x \in ofo'[g] : x \in ofo[g] \/ x < snd_nxt'[Peer(g)]
  OBVIOUS
<1>3. Lists'
  BY <1>0, <1>1, <1>2, ListsStay
<1>4. \A g \in Host : /\ snd_nxt[g] <= snd_nxt'[g] /\ snd_nxt[g] \in Nat /\ snd_nxt'[g] \in Nat
                      /\ rcv_nxt[g] \in Nat /\ Peer(g) \in Host
  BY <1>0, Ends DEF Grows, TypeOK
<1>5. Agreement'
  BY <1>0, <1>4 DEF Agreement
<1>6. \A g \in Host, x \in Nat : snd_nxt[g] <= x /\ x < snd_nxt'[g] => Covered(g, x)'
  <2> TAKE g \in Host, x \in Nat
  <2>1. CASE g = h
    BY <2>1
  <2>2. CASE g = Peer(h)
    <3>1. snd_nxt'[g] = snd_nxt[g]
      BY <2>2
    <3> QED BY <1>4, <3>1
  <2> QED BY <2>1, <2>2, Ends
<1>7. Kept'
  BY <1>0, <1>6, KeptStays
<1> QED BY <1>3, <1>5, <1>7 DEF IInv

-----------------------------------------------------------------------------
(* The applications and the timers.                                        *)

(* The application connects: the SYN takes number 0.                       *)
LEMMA StepConnectSend ==
  ASSUME IInv, ConnectSend
  PROVE  IInv'
<1> USE DEF Host
<1> DEFINE p == Packet("SYN", 0, 0)
<1>1. p \in PacketType /\ p.kind = "SYN" /\ p.seq = 0 /\ p.ack = 0 /\ seq_end(p) = 1
  BY MakePacket DEF Kind, seq_end, Length
<1>2. TypeOK
  BY DEF IInv
<1>3. wire \in [Host -> Seq(PacketType)] /\ Send("client", p)
  BY <1>2, Types DEF ConnectSend
<1>4. wire' \in [Host -> Seq(PacketType)]
  BY <1>1, <1>3, SendWire
<1>5. /\ app["client"] = "connect" /\ app' = [app EXCEPT !["client"] = "hash"]
      /\ snd_nxt' = [snd_nxt EXCEPT !["client"] = 1]
      /\ state' = [state EXCEPT !["client"] = "SYN_SENT"]
      /\ UNCHANGED <<snd_una, rcv_nxt, send_buf, hashed, stored, ofo, unread, notified,
                     accept_queue, rx, fin, crashed, reset, lost, expired>>
  BY DEF ConnectSend, rcvVars, envVars
<1> HIDE DEF p
<1>6. TypeOK'
  BY <1>2, <1>4, <1>5 DEF TypeOK, PacketType
<1>7. snd_nxt["client"] = 0
  BY <1>5 DEF IInv, Opening
<1>8. /\ snd_nxt'["client"] = 1 /\ snd_nxt'["server"] = snd_nxt["server"]
      /\ app'["client"] = "hash" /\ app'["server"] = app["server"]
  BY <1>2, <1>5 DEF TypeOK
<1>9. Grows
  BY <1>2, <1>5, <1>7, <1>8 DEF Grows, TypeOK, Early
<1>10. Opening' /\ Listening'
  BY <1>2, <1>5, <1>8 DEF IInv, Opening, Listening, Early, TypeOK
<1>11. Sent("client", p)'
  <2>1. p.ack <= rcv_nxt'["client"]
    BY <1>1, <1>2, <1>5 DEF TypeOK
  <2> QED BY <1>1, <1>8, <2>1 DEF Sent, PacketKind, BlockKind
<1>12. \A g \in Host, x \in Nat : Covered(g, x) => Covered(g, x)'
  BY <1>5, <1>8 DEF Covered, Appending
<1>13. \A x \in Nat : snd_nxt["client"] <= x /\ x < snd_nxt'["client"] => Covered("client", x)'
  <2> TAKE x \in Nat
  <2>1. x < 1 => x = 0
    OBVIOUS
  <2> QED BY <1>8, <2>1 DEF Covered, Appending
<1>14. \A g \in Host : app'[g] \in {"fin_wait", "last_ack"} =>
         app[g] \in {"fin_wait", "last_ack"} /\ fin'[g] = fin[g]
  BY <1>5, <1>8
<1>15. snd_nxt'[Peer("client")] = snd_nxt[Peer("client")]
  BY <1>8, Ends
<1> QED
  <2>1. \E q \in PacketType : Send("client", q) /\ Sent("client", q)'
    BY <1>1, <1>3, <1>11
  <2>2. \A g \in Host : \A b \in Range(send_buf'[g]) : b \in Range(send_buf[g])
    BY <1>5
  <2>3. UNCHANGED <<snd_una, rcv_nxt, ofo>>
    BY <1>5
  <2> QED BY <1>6, <1>9, <1>10, <1>12, <1>13, <1>14, <1>15, <2>1, <2>2, <2>3, SendStep

(* A sock appends a block to its send_buf.                                 *)
LEMMA Appended ==
  ASSUME send_buf \in [Host -> Seq(BlockType)], NEW h \in Host, NEW b \in BlockType,
         send_buf' = [send_buf EXCEPT ![h] = Append(@, b)]
  PROVE  /\ send_buf' \in [Host -> Seq(BlockType)]
         /\ Range(send_buf'[h]) = Range(send_buf[h]) \cup {b}
         /\ send_buf'[Peer(h)] = send_buf[Peer(h)]
<1>1. Append(send_buf[h], b) \in Seq(BlockType)
      /\ Range(Append(send_buf[h], b)) = Range(send_buf[h]) \cup {b}
  BY Elements
<1>2. send_buf'[h] = Append(send_buf[h], b)
  OBVIOUS
<1>3. Peer(h) # h /\ Peer(h) \in Host
  BY Ends
<1> QED BY <1>1, <1>2, <1>3

(* When the blocks of one host become more, or change their counters, what *)
(* was covered is covered.                                                 *)
LEMMA CoveredStays ==
  ASSUME NEW h \in Host, send_buf'[Peer(h)] = send_buf[Peer(h)],
         \A b \in Range(send_buf[h]) : \E c \in Range(send_buf'[h]) : c.seq = b.seq,
         \A g \in Host : \A x \in Nat : Appending(g, x) => Covered(g, x)'
  PROVE  \A g \in Host, x \in Nat : Covered(g, x) => Covered(g, x)'
<1> TAKE g \in Host, x \in Nat
<1> SUFFICES ASSUME Covered(g, x)
             PROVE  Covered(g, x)'
  OBVIOUS
<1>1. CASE Appending(g, x)
  BY <1>1
<1>2. CASE \E b \in Range(send_buf[g]) : b.seq = x
  <2>1. CASE g = h
    BY <1>2, <2>1 DEF Covered
  <2>2. CASE g = Peer(h)
    BY <1>2, <2>2 DEF Covered
  <2> QED BY <2>1, <2>2, Ends
<1> QED BY <1>1, <1>2 DEF Covered

(* Its block is appended, whether or not the answer is there.              *)
LEMMA StepConnectHash ==
  ASSUME IInv, ConnectHash
  PROVE  IInv'
<1> USE DEF Host
<1> DEFINE b == Block("SYN", 0)
<1>1. b \in BlockType /\ b.kind = "SYN" /\ b.seq = 0 /\ seq_end(b) = 1
  BY MakeBlock DEF Kind, seq_end, Length
<1>2. TypeOK
  BY DEF IInv
<1>3. /\ app["client"] = "hash" /\ app' = [app EXCEPT !["client"] = "connecting"]
      /\ send_buf' = [send_buf EXCEPT !["client"] = Append(@, b)]
      /\ hashed' = [hashed EXCEPT !["client"] = TRUE]
      /\ UNCHANGED <<state, snd_una, snd_nxt, rcv_nxt, stored, ofo, unread, notified, wire,
                     accept_queue, rx, fin, crashed, reset, lost, expired>>
  BY DEF ConnectHash, rcvVars, envVars
<1> HIDE DEF b
<1>4. /\ send_buf' \in [Host -> Seq(BlockType)]
      /\ Range(send_buf'["client"]) = Range(send_buf["client"]) \cup {b}
      /\ send_buf'["server"] = send_buf["server"]
  BY <1>1, <1>2, <1>3, Types, Appended, Ends
<1>5. app'["client"] = "connecting" /\ app'["server"] = app["server"]
  BY <1>2, <1>3 DEF TypeOK
<1>6. TypeOK'
  BY <1>2, <1>3, <1>4, <1>5 DEF TypeOK, BlockType
<1>7. Grows
  BY <1>2, <1>3 DEF Grows, TypeOK, Early
<1>8. Opening' /\ Listening'
  BY <1>2, <1>3, <1>4, <1>5 DEF IInv, Opening, Listening, Early, TypeOK
<1>9. Held("client", b)'
  <2>1. snd_nxt'["client"] >= 1 /\ snd_nxt'["client"] \in Nat
    BY <1>2, <1>3 DEF IInv, Opening, TypeOK
  <2> QED BY <1>1, <2>1 DEF Held, BlockKind
<1>10. \A g \in Host, x \in Nat : Covered(g, x) => Covered(g, x)'
  <2>1. \A g \in Host : \A x \in Nat : Appending(g, x) => Covered(g, x)'
    BY <1>1, <1>3, <1>4, <1>5 DEF Covered, Appending
  <2> QED BY <1>4, <2>1, CoveredStays, Ends
<1>11. \A g \in Host : app'[g] \in {"fin_wait", "last_ack"} =>
         app[g] \in {"fin_wait", "last_ack"} /\ fin'[g] = fin[g]
  BY <1>3, <1>5
<1>12. \A g \in Host : \A c \in Range(send_buf'[g]) : c \in Range(send_buf[g]) \/ Held(g, c)'
  BY <1>4, <1>9
<1>13. \A x \in Nat : snd_nxt["client"] <= x /\ x < snd_nxt'["client"] => Covered("client", x)'
  <2>1. snd_nxt'["client"] = snd_nxt["client"] /\ snd_nxt["client"] \in Nat
    BY <1>2, <1>3 DEF TypeOK
  <2> QED BY <2>1
<1>14. UNCHANGED <<snd_una, rcv_nxt, ofo>> /\ wire' = wire /\ snd_nxt' = snd_nxt
  BY <1>3
<1> QED BY <1>6, <1>7, <1>8, <1>10, <1>11, <1>12, <1>13, <1>14, SendStep

(* tcp_sock_write numbers a segment, sends it and keeps its block.         *)
LEMMA StepWrite ==
  ASSUME IInv, Write
  PROVE  IInv'
<1> USE DEF Host
<1>1. TypeOK
  BY DEF IInv
<1>2. PICK n \in Nat : n = snd_nxt["client"]
  BY <1>1 DEF TypeOK
<1>0. rcv_nxt["client"] \in Nat /\ n >= 1 /\ n <= Segments /\ Segments \in Nat
  BY <1>1, <1>2, BoundAssumption DEF Write, MoreToWrite, TypeOK, IInv, Opening
<1>3. PICK b \in BlockType : b = Block("DATA", n) /\ b.kind = "DATA" /\ b.seq = n /\ seq_end(b) = n + 1
  BY <1>2, MakeBlock DEF Kind, seq_end, Length
<1>4. PICK p \in PacketType : /\ p = Packet("DATA", n, rcv_nxt["client"])
                             /\ p.kind = "DATA" /\ p.seq = n /\ p.ack = rcv_nxt["client"] /\ seq_end(p) = n + 1
  BY <1>0, <1>2, MakePacket DEF Kind, seq_end, Length
<1>5. /\ app["client"] = "write" /\ Send("client", p)
      /\ send_buf' = [send_buf EXCEPT !["client"] = Append(@, b)]
      /\ snd_nxt' = [snd_nxt EXCEPT !["client"] = @ + 1]
      /\ UNCHANGED <<state, snd_una, rcv_nxt, hashed, stored, ofo, unread, notified, app,
                     accept_queue, rx, fin, crashed, reset, lost, expired>>
  BY <1>2, <1>3, <1>4 DEF Write, rcvVars, envVars
<1>6. snd_nxt'["client"] = n + 1 /\ snd_nxt'["server"] = snd_nxt["server"]
      /\ snd_nxt' \in [Host -> Nat]
  <2>1. snd_nxt \in [Host -> Nat] /\ snd_nxt["client"] + 1 \in Nat
    BY <1>1, <1>2 DEF TypeOK
  <2>2. snd_nxt' = [snd_nxt EXCEPT !["client"] = snd_nxt["client"] + 1]
    BY <1>5
  <2> QED BY <1>2, <2>1, <2>2
<1>7. /\ send_buf' \in [Host -> Seq(BlockType)]
      /\ Range(send_buf'["client"]) = Range(send_buf["client"]) \cup {b}
      /\ send_buf'["server"] = send_buf["server"]
  BY <1>1, <1>3, <1>5, Types, Appended, Ends
<1>8. /\ wire' \in [Host -> Seq(PacketType)]
      /\ \A g \in Host : wire[g] # <<>> => wire'[g] # <<>>
  BY <1>1, <1>4, <1>5, Types, SendWire
<1>9. TypeOK'
  BY <1>1, <1>5, <1>6, <1>7, <1>8 DEF TypeOK, BlockType, PacketType
<1>10. Grows
  <2>1. \A g \in Host : snd_nxt[g] \in Nat /\ rcv_nxt[g] \in Nat /\ rcv_nxt'[g] = rcv_nxt[g]
    BY <1>1, <1>5 DEF TypeOK
  <2>2. \A g \in Host : snd_nxt[g] <= snd_nxt'[g]
    BY <1>2, <1>6, <2>1
  <2> QED BY <1>5, <2>1, <2>2 DEF Grows
<1>11. Opening' /\ Listening'
  BY <1>0, <1>1, <1>2, <1>5, <1>6, <1>7, <1>8 DEF IInv, Opening, Listening, Early
<1>12. Held("client", b)' /\ Sent("client", p)'
  BY <1>0, <1>2, <1>3, <1>4, <1>5, <1>6 DEF Held, Sent, BlockKind, PacketKind, Early
<1>13. \A g \in Host, x \in Nat : Covered(g, x) => Covered(g, x)'
  <2>1. \A g \in Host : \A x \in Nat : Appending(g, x) => Covered(g, x)'
    BY <1>5 DEF Covered, Appending
  <2> QED BY <1>7, <2>1, CoveredStays, Ends
<1>14. \A g \in Host : app'[g] \in {"fin_wait", "last_ack"} =>
         app[g] \in {"fin_wait", "last_ack"} /\ fin'[g] = fin[g]
  BY <1>5
<1>15. \A g \in Host : \A c \in Range(send_buf'[g]) : c \in Range(send_buf[g]) \/ Held(g, c)'
  BY <1>7, <1>12
<1>16. \A x \in Nat : n <= x /\ x < n + 1 => Covered("client", x)'
  <2> TAKE x \in Nat
  <2>1. n <= x /\ x < n + 1 => x = n
    BY <1>2
  <2> QED BY <1>3, <1>7, <2>1 DEF Covered
<1>17. UNCHANGED <<snd_una, rcv_nxt, ofo>>
  BY <1>5
<1>18. \E q \in PacketType : Send("client", q) /\ Sent("client", q)'
  BY <1>4, <1>5, <1>12
<1>19. \A x \in Nat : snd_nxt["client"] <= x /\ x < snd_nxt'["client"] => Covered("client", x)'
  BY <1>2, <1>6, <1>16
<1> QED
  BY <1>6, <1>9, <1>10, <1>11, <1>13, <1>14, <1>15, <1>17, <1>18, <1>19, SendStep, Ends

LEMMA AppMoves ==
  ASSUME TypeOK, NEW h \in Host, NEW v, app' = [app EXCEPT ![h] = v]
  PROVE  DOMAIN app' = Host /\ app'[h] = v /\ app'[Peer(h)] = app[Peer(h)]
<1>1. DOMAIN app = Host /\ Peer(h) \in Host /\ Peer(h) # h
  BY Ends DEF TypeOK
<1> QED BY <1>1

(* An application whose call has returned is not early.                    *)
LEMMA AtClose ==
  ASSUME IInv, NEW h \in Host, app[h] \in {"write", "eof", "fin_wait", "last_ack"}
  PROVE  /\ app["client"] \notin Early
         /\ app[h] = "write" => h = "client"
         /\ app[h] = "eof" => h = "server"
         /\ ~hashed["server"] => h = "client"
         /\ app["server"] # "accept" => hashed["server"]
<1>1. TypeOK /\ Opening /\ Listening
  BY DEF IInv
<1>2. h = "client" \/ h = "server"
  BY DEF Host
<1>3. /\ app["client"] \in {"connect", "hash", "connecting", "write", "fin_wait", "last_ack", "closed"}
      /\ app["server"] \in {"accept", "read", "asleep", "eof", "fin_wait", "last_ack", "closed"}
  BY <1>1 DEF TypeOK
<1>4. (app["client"] \in Early => app["server"] = "accept")
      /\ (~hashed["server"] => app["server"] = "accept")
  BY <1>1 DEF Opening, Listening
<1> QED BY <1>2, <1>3, <1>4 DEF Early

(* tcp_sock_close numbers and sends the FIN, whose block is still to come. *)
LEMMA StepCloseSends ==
  ASSUME IInv, NEW h \in Host, CloseSend(h), state[h] \in {"ESTABLISHED", "CLOSE_WAIT"}
  PROVE  IInv'
<1>1. TypeOK /\ Peer(h) \in Host /\ Peer(h) # h
  BY Ends DEF IInv
<1>2. PICK n \in Nat : n = snd_nxt[h]
  BY <1>1 DEF TypeOK
<1>3. PICK p \in PacketType : /\ p = Packet("FIN", n, rcv_nxt[h])
                             /\ p.kind = "FIN" /\ p.ack = rcv_nxt[h] /\ seq_end(p) = n + 1
  <2>1. rcv_nxt[h] \in Nat
    BY <1>1 DEF TypeOK
  <2> QED BY <2>1, MakePacket DEF Kind, seq_end, Length
<1> DEFINE v == IF state[h] = "ESTABLISHED" THEN "fin_wait" ELSE "last_ack"
<1>4. /\ app[h] \in {"write", "eof"} /\ app' = [app EXCEPT ![h] = v]
      /\ Send(h, p)
      /\ snd_nxt' = [snd_nxt EXCEPT ![h] = @ + 1]
      /\ fin' = [fin EXCEPT ![h] = n]
      /\ UNCHANGED <<state, snd_una, rcv_nxt, send_buf, hashed, stored, ofo, unread, notified,
                     accept_queue, rx, crashed, reset, lost, expired>>
  BY <1>2, <1>3 DEF CloseSend, rcvVars, envVars
<1>5. /\ app["client"] \notin Early /\ (~hashed["server"] => h = "client")
      /\ app["server"] # "accept" => hashed["server"]
  BY <1>4, AtClose
<1>6. v \in {"fin_wait", "last_ack"}
  OBVIOUS
<1>7. DOMAIN app' = Host /\ app'[h] = v /\ app'[Peer(h)] = app[Peer(h)]
  BY <1>1, <1>4, AppMoves
<1> HIDE DEF v
<1>8. /\ snd_nxt'[h] = n + 1 /\ snd_nxt'[Peer(h)] = snd_nxt[Peer(h)]
      /\ snd_nxt' \in [Host -> Nat]
      /\ fin'[h] = n /\ fin'[Peer(h)] = fin[Peer(h)] /\ fin' \in [Host -> Nat]
  <2>1. snd_nxt \in [Host -> Nat] /\ fin \in [Host -> Nat]
    BY <1>1 DEF TypeOK
  <2>2. snd_nxt' = [snd_nxt EXCEPT ![h] = n + 1]
    BY <1>2, <1>4
  <2> QED BY <1>1, <1>4, <2>1, <2>2
<1>9. /\ wire' \in [Host -> Seq(PacketType)]
      /\ \A g \in Host : wire[g] # <<>> => wire'[g] # <<>>
  BY <1>1, <1>3, <1>4, Types, SendWire
<1>10. app'["client"] \notin Early /\ app'["client"] \notin {"connect", "hash", "connecting"}
  BY <1>5, <1>6, <1>7, Ends DEF Early
<1>11. TypeOK'
  <2>1. app'["client"] \in {"connect", "hash", "connecting", "write", "fin_wait", "last_ack", "closed"}
        /\ app'["server"] \in {"accept", "read", "asleep", "eof", "fin_wait", "last_ack", "closed"}
    BY <1>1, <1>6, <1>7, Ends DEF TypeOK
  <2> QED BY <1>1, <1>4, <1>7, <1>8, <1>9, <2>1 DEF TypeOK, PacketType
<1>12. \A g \in Host : snd_nxt[g] <= snd_nxt'[g] /\ snd_nxt[g] \in Nat /\ snd_nxt'[g] \in Nat
                       /\ rcv_nxt[g] \in Nat /\ rcv_nxt'[g] = rcv_nxt[g]
  <2> TAKE g \in Host
  <2>1. snd_nxt[g] \in Nat /\ rcv_nxt[g] \in Nat
    BY <1>1 DEF TypeOK
  <2> QED BY <1>2, <1>4, <1>8, <2>1, Ends
<1>13. Grows
  BY <1>10, <1>12 DEF Grows
<1>14. Opening'
  <2>1. Opening
    BY DEF IInv
  <2>2. snd_nxt'["client"] >= 1
    BY <1>5, <1>12, <2>1, Ends DEF Opening, Early
  <2> QED BY <1>4, <1>5, <1>9, <1>10, <2>1, <2>2, Ends DEF Opening, Early
<1>15. Listening'
  <2>1. ~hashed["server"] => app'["server"] = app["server"] /\ snd_nxt'["server"] = snd_nxt["server"]
    BY <1>5, <1>7, <1>8, Ends
  <2> QED BY <1>4, <2>1 DEF IInv, Listening
<1>16. Sent(h, p)'
  <2>1. p.ack <= rcv_nxt'[h]
    BY <1>3, <1>12
  <2> QED BY <1>3, <1>8, <1>10, <2>1 DEF Sent, PacketKind, BlockKind
<1>17. \A g \in Host, x \in Nat : Covered(g, x) => Covered(g, x)'
  <2>1. \A g \in Host : \A x \in Nat : Appending(g, x) => Covered(g, x)'
    <3> TAKE g \in Host
    <3> TAKE x \in Nat
    <3>1. CASE g = h
      BY <1>4, <3>1 DEF Appending
    <3>2. CASE g = Peer(h)
      BY <1>7, <1>8, <3>2 DEF Appending, Covered
    <3> QED BY <3>1, <3>2, Ends
  <2> QED BY <1>4, <2>1, CoveredStays
<1>18. \A g \in Host : app'[g] \in {"fin_wait", "last_ack"} =>
         \/ app[g] \in {"fin_wait", "last_ack"} /\ fin'[g] = fin[g]
         \/ fin'[g] < snd_nxt'[g]
  BY <1>2, <1>7, <1>8, Ends
<1>19. \A x \in Nat : snd_nxt[h] <= x /\ x < snd_nxt'[h] => Covered(h, x)'
  <2> TAKE x \in Nat
  <2>1. snd_nxt[h] <= x /\ x < snd_nxt'[h] => x = n
    BY <1>2, <1>8
  <2> QED BY <1>6, <1>7, <1>8, <2>1 DEF Covered, Appending
<1>20. \E q \in PacketType : Send(h, q) /\ Sent(h, q)'
  BY <1>4, <1>16
<1>21. UNCHANGED <<snd_una, rcv_nxt, ofo>> /\ snd_nxt'[Peer(h)] = snd_nxt[Peer(h)]
       /\ \A g \in Host : \A b \in Range(send_buf'[g]) : b \in Range(send_buf[g])
  BY <1>4, <1>8
<1> QED
  BY <1>11, <1>13, <1>14, <1>15, <1>17, <1>18, <1>19, <1>20, <1>21, SendStep

(* In the other states tcp_sock_close sends nothing.                       *)
LEMMA StepCloseReturns ==
  ASSUME IInv, NEW h \in Host, CloseSend(h), state[h] \notin {"ESTABLISHED", "CLOSE_WAIT"}
  PROVE  IInv'
<1>1. TypeOK /\ Peer(h) \in Host /\ Peer(h) # h
  BY Ends DEF IInv
<1>4. /\ app[h] \in {"write", "eof"} /\ app' = [app EXCEPT ![h] = "closed"]
      /\ UNCHANGED <<state, snd_una, snd_nxt, rcv_nxt, send_buf, hashed, stored, ofo, unread, notified,
                     accept_queue, wire, fin, rx, crashed, reset, lost, expired>>
  BY DEF CloseSend, rcvVars, envVars
<1>5. app["client"] \notin Early /\ (~hashed["server"] => h = "client")
  BY <1>4, AtClose
<1>7. DOMAIN app' = Host /\ app'[h] = "closed" /\ app'[Peer(h)] = app[Peer(h)]
  BY <1>1, <1>4, AppMoves
<1>10. app'["client"] \notin Early
  BY <1>5, <1>7, Ends DEF Early
<1>11. TypeOK'
  <2>1. app'["client"] \in {"connect", "hash", "connecting", "write", "fin_wait", "last_ack", "closed"}
        /\ app'["server"] \in {"accept", "read", "asleep", "eof", "fin_wait", "last_ack", "closed"}
    BY <1>1, <1>7, Ends DEF TypeOK
  <2> QED BY <1>1, <1>4, <1>7, <2>1 DEF TypeOK
<1>12. \A g \in Host : snd_nxt[g] \in Nat /\ rcv_nxt[g] \in Nat
  BY <1>1 DEF TypeOK
<1>13. Grows
  BY <1>4, <1>10, <1>12 DEF Grows
<1>14. Opening'
  BY <1>4, <1>5, <1>10 DEF IInv, Opening, Early
<1>15. Listening'
  <2>1. ~hashed["server"] => app'["server"] = app["server"]
    BY <1>5, <1>7, Ends
  <2> QED BY <1>4, <2>1 DEF IInv, Listening
<1>17. \A g \in Host, x \in Nat : Covered(g, x) => Covered(g, x)'
  <2> TAKE g \in Host, x \in Nat
  <2>1. CASE g = h
    BY <1>4, <2>1 DEF Appending, Covered
  <2>2. CASE g = Peer(h)
    BY <1>4, <1>7, <2>2 DEF Appending, Covered
  <2> QED BY <2>1, <2>2, Ends
<1>18. \A g \in Host : app'[g] \in {"fin_wait", "last_ack"} =>
         app[g] \in {"fin_wait", "last_ack"} /\ fin'[g] = fin[g]
  BY <1>4, <1>7, Ends
<1>19. \A x \in Nat : ~(snd_nxt[h] <= x /\ x < snd_nxt'[h])
  BY <1>4, <1>12
<1> QED
  BY <1>4, <1>11, <1>13, <1>14, <1>15, <1>17, <1>18, <1>19, SendStep

(* The block of the FIN is appended, and the state set.                    *)
LEMMA StepCloseFinish ==
  ASSUME IInv, NEW h \in Host, CloseFinish(h)
  PROVE  IInv'
<1>1. TypeOK /\ Peer(h) \in Host /\ Peer(h) # h
  BY Ends DEF IInv
<1>2. PICK n \in Nat : n = fin[h]
  BY <1>1 DEF TypeOK
<1>3. PICK b \in BlockType : b = Block("FIN", n) /\ b.kind = "FIN" /\ b.seq = n /\ seq_end(b) = n + 1
  BY MakeBlock DEF Kind, seq_end, Length
<1> DEFINE v == IF app[h] = "fin_wait" THEN "FIN_WAIT_1" ELSE "LAST_ACK"
<1>4. /\ app[h] \in {"fin_wait", "last_ack"} /\ app' = [app EXCEPT ![h] = "closed"]
      /\ send_buf' = [send_buf EXCEPT ![h] = Append(@, b)]
      /\ state' = [state EXCEPT ![h] = v]
      /\ UNCHANGED <<snd_una, snd_nxt, rcv_nxt, hashed, stored, ofo, unread, notified,
                     accept_queue, wire, fin, rx, crashed, reset, lost, expired>>
  BY <1>2, <1>3 DEF CloseFinish, rcvVars, envVars
<1>5. app["client"] \notin Early /\ (~hashed["server"] => h = "client")
  BY <1>4, AtClose
<1>6. v \in {"FIN_WAIT_1", "LAST_ACK"}
  OBVIOUS
<1> HIDE DEF v
<1>7. DOMAIN app' = Host /\ app'[h] = "closed" /\ app'[Peer(h)] = app[Peer(h)]
  BY <1>1, <1>4, AppMoves
<1>8. /\ send_buf' \in [Host -> Seq(BlockType)]
      /\ Range(send_buf'[h]) = Range(send_buf[h]) \cup {b}
      /\ send_buf'[Peer(h)] = send_buf[Peer(h)]
  BY <1>1, <1>3, <1>4, Types, Appended
<1>9. state'[h] = v /\ state'[Peer(h)] = state[Peer(h)]
  BY <1>1, <1>4 DEF TypeOK
<1>10. app'["client"] \notin Early
  BY <1>5, <1>7, Ends DEF Early
<1>11. TypeOK'
  <2>1. app'["client"] \in {"connect", "hash", "connecting", "write", "fin_wait", "last_ack", "closed"}
        /\ app'["server"] \in {"accept", "read", "asleep", "eof", "fin_wait", "last_ack", "closed"}
    BY <1>1, <1>7, Ends DEF TypeOK
  <2> QED BY <1>1, <1>4, <1>6, <1>7, <1>8, <2>1 DEF TypeOK, BlockType
<1>12. \A g \in Host : snd_nxt[g] \in Nat /\ rcv_nxt[g] \in Nat
  BY <1>1 DEF TypeOK
<1>13. Grows
  BY <1>4, <1>10, <1>12 DEF Grows
<1>14. Opening'
  <2>1. state'["client"] \in {state["client"], "FIN_WAIT_1", "LAST_ACK"}
    BY <1>6, <1>9, Ends
  <2> QED BY <1>4, <1>5, <1>10, <2>1 DEF IInv, Opening, Early
<1>15. Listening'
  <2>1. ~hashed["server"] => /\ app'["server"] = app["server"] /\ state'["server"] = state["server"]
                             /\ send_buf'["server"] = send_buf["server"]
    BY <1>5, <1>7, <1>8, <1>9, Ends
  <2> QED BY <1>4, <2>1 DEF IInv, Listening
<1>16. Held(h, b)'
  <2>1. n < snd_nxt[h]
    BY <1>2, <1>4 DEF IInv, Lists
  <2>2. n + 1 <= snd_nxt'[h]
    BY <1>4, <1>12, <2>1
  <2> QED BY <1>3, <1>10, <2>2 DEF Held, BlockKind
<1>17. \A g \in Host, x \in Nat : Covered(g, x) => Covered(g, x)'
  <2>1. \A g \in Host : \A x \in Nat : Appending(g, x) => Covered(g, x)'
    <3> TAKE g \in Host
    <3> TAKE x \in Nat
    <3>1. CASE g = h
      BY <1>2, <1>3, <1>4, <1>8, <3>1 DEF Appending, Covered
    <3>2. CASE g = Peer(h)
      BY <1>4, <1>7, <3>2 DEF Appending, Covered
    <3> QED BY <3>1, <3>2, Ends
  <2> QED BY <1>8, <2>1, CoveredStays
<1>18. \A g \in Host : app'[g] \in {"fin_wait", "last_ack"} =>
         app[g] \in {"fin_wait", "last_ack"} /\ fin'[g] = fin[g]
  BY <1>4, <1>7, Ends
<1>19. \A x \in Nat : ~(snd_nxt[h] <= x /\ x < snd_nxt'[h])
  BY <1>4, <1>12
<1>20. \A g \in Host : \A c \in Range(send_buf'[g]) : c \in Range(send_buf[g]) \/ Held(g, c)'
  <2> TAKE g \in Host
  <2>1. CASE g = h
    BY <1>8, <1>16, <2>1
  <2>2. CASE g = Peer(h)
    BY <1>8, <2>2
  <2> QED BY <2>1, <2>2, Ends
<1> QED
  BY <1>4, <1>11, <1>13, <1>14, <1>15, <1>17, <1>18, <1>19, <1>20, SendStep

(* A step that sends a packet and numbers nothing.                         *)
LEMMA SendOnly ==
  ASSUME IInv, TypeOK', NEW h \in Host, NEW p \in PacketType, Send(h, p), Sent(h, p)',
         UNCHANGED <<state, snd_una, snd_nxt, rcv_nxt, hashed, ofo, accept_queue, rx, fin>>,
         app'["client"] = app["client"],
         \A at \in {"accept", "fin_wait", "last_ack"} : app'["server"] = at <=> app["server"] = at,
         send_buf'[Peer(h)] = send_buf[Peer(h)],
         send_buf[h] = <<>> => send_buf'[h] = <<>>,
         \A b \in Range(send_buf[h]) : \E c \in Range(send_buf'[h]) : c.seq = b.seq,
         \A c \in Range(send_buf'[h]) : Held(h, c)'
  PROVE  IInv'
<1>1. TypeOK /\ Opening /\ Listening /\ Peer(h) \in Host
  BY Ends DEF IInv
<1>2. \A g \in Host : snd_nxt[g] \in Nat /\ rcv_nxt[g] \in Nat
  BY <1>1 DEF TypeOK
<1>3. Grows
  BY <1>2 DEF Grows
<1>4. \A g \in Host : wire[g] # <<>> => wire'[g] # <<>>
  BY <1>1, Types, SendWire
<1>5. Opening'
  BY <1>1, <1>4, Ends DEF Opening
<1>6. Listening'
  <2>1. send_buf["server"] = <<>> => send_buf'["server"] = <<>>
    BY Ends
  <2> QED BY <1>1, <2>1 DEF Listening
<1>7. \A g \in Host : \A x \in Nat : Appending(g, x) => Covered(g, x)'
  <2> TAKE g \in Host
  <2> TAKE x \in Nat
  <2>1. CASE g = "client"
    BY <2>1 DEF Appending, Covered
  <2>2. CASE g = "server"
    <3>1. app["server"] # "hash"
      BY <1>1 DEF TypeOK
    <3> QED BY <2>2, <3>1 DEF Appending, Covered
  <2> QED BY <2>1, <2>2, Ends
<1>8. \A g \in Host, x \in Nat : Covered(g, x) => Covered(g, x)'
  BY <1>7, CoveredStays
<1>9. \A g \in Host : app'[g] \in {"fin_wait", "last_ack"} =>
         app[g] \in {"fin_wait", "last_ack"} /\ fin'[g] = fin[g]
  BY Ends
<1>10. \A x \in Nat : ~(snd_nxt[h] <= x /\ x < snd_nxt'[h])
  BY <1>2
<1>11. \A g \in Host : \A c \in Range(send_buf'[g]) : c \in Range(send_buf[g]) \/ Held(g, c)'
  <2> TAKE g \in Host
  <2>1. CASE g = h
    BY <2>1
  <2>2. CASE g = Peer(h)
    BY <2>2
  <2> QED BY <2>1, <2>2, Ends
<1>12. \E q \in PacketType : Send(h, q) /\ Sent(h, q)'
  OBVIOUS
<1> QED
  BY <1>3, <1>5, <1>6, <1>8, <1>9, <1>10, <1>11, <1>12, SendStep

(* What a sock has held it still holds, when it numbers no less.            *)
LEMMA HeldAfter ==
  ASSUME IInv, TypeOK', NEW h \in Host, snd_nxt' = snd_nxt, app'["client"] = app["client"],
         rcv_nxt' = rcv_nxt
  PROVE  \A b \in Range(send_buf[h]) : b \in BlockType /\ Held(h, b)'
<1>1. \A g \in Host : snd_nxt[g] \in Nat /\ rcv_nxt[g] \in Nat
  BY DEF IInv, TypeOK
<1>2. Grows
  BY <1>1 DEF Grows
<1>3. \A b \in Range(send_buf[h]) : b \in BlockType /\ Held(h, b)
  BY Types, Elements DEF IInv, Lists
<1> QED BY <1>2, <1>3, HeldStays DEF IInv

(* A reader that is about to sleep advertises its window.                  *)
LEMMA StepReadSleeps ==
  ASSUME IInv, ReadSleeps
  PROVE  IInv'
<1>1. TypeOK /\ "server" \in Host
  BY Ends DEF IInv
<1>2. snd_nxt["server"] \in Nat /\ rcv_nxt["server"] \in Nat
  BY <1>1 DEF TypeOK
<1>3. PICK p \in PacketType : /\ p = Packet("ACK", snd_nxt["server"], rcv_nxt["server"])
                             /\ p.kind = "ACK" /\ p.ack = rcv_nxt["server"]
                             /\ seq_end(p) = snd_nxt["server"]
  <2>1. \A q : q = Packet("ACK", snd_nxt["server"], rcv_nxt["server"]) =>
          /\ q \in PacketType /\ q.kind = "ACK" /\ q.ack = rcv_nxt["server"]
          /\ seq_end(q) = snd_nxt["server"]
    BY <1>2, MakePacket DEF Kind, seq_end, Length
  <2> QED BY <2>1
<1>4. /\ Send("server", p) /\ app["server"] = "read" /\ app' = [app EXCEPT !["server"] = "asleep"]
      /\ UNCHANGED <<state, snd_una, snd_nxt, rcv_nxt, send_buf, hashed, stored, ofo, unread, notified,
                     accept_queue, fin, rx, crashed, reset, lost, expired>>
  BY <1>3 DEF ReadSleeps, sockVars, rcvVars, envVars
<1>5. DOMAIN app' = Host /\ app'["server"] = "asleep" /\ app'["client"] = app["client"]
  BY <1>1, <1>4, AppMoves, Ends
<1>6. wire' \in [Host -> Seq(PacketType)]
  BY <1>1, <1>3, <1>4, Types, SendWire
<1>7. TypeOK'
  BY <1>1, <1>4, <1>5, <1>6 DEF TypeOK, PacketType
<1>8. Sent("server", p)'
  BY <1>2, <1>3, <1>4 DEF Sent, PacketKind, BlockKind
<1>9. \A c \in Range(send_buf'["server"]) : Held("server", c)'
  BY <1>1, <1>4, <1>5, <1>7, HeldAfter
<1>10. \A at \in {"accept", "fin_wait", "last_ack"} : app'["server"] = at <=> app["server"] = at
  BY <1>4, <1>5
<1> QED
  BY <1>1, <1>4, <1>5, <1>7, <1>8, <1>9, <1>10, SendOnly

(* A timer that gives up sends a RST.                                      *)
LEMMA StepSendReset ==
  ASSUME IInv, NEW h \in Host, SendReset(h)
  PROVE  IInv'
<1>1. TypeOK
  BY DEF IInv
<1>2. snd_nxt[h] \in Nat /\ rcv_nxt[h] \in Nat
  BY <1>1 DEF TypeOK
<1>3. PICK p \in PacketType : /\ p = Packet("RST", snd_nxt[h], rcv_nxt[h])
                             /\ p.kind = "RST" /\ p.ack = rcv_nxt[h] /\ seq_end(p) = snd_nxt[h]
  <2>1. \A q : q = Packet("RST", snd_nxt[h], rcv_nxt[h]) =>
          q \in PacketType /\ q.kind = "RST" /\ q.ack = rcv_nxt[h] /\ seq_end(q) = snd_nxt[h]
    BY <1>2, MakePacket DEF Kind, seq_end, Length
  <2> QED BY <2>1
<1>4. /\ Send(h, p)
      /\ UNCHANGED <<state, snd_una, snd_nxt, rcv_nxt, send_buf, hashed, stored, ofo, unread, notified,
                     accept_queue, fin, rx, app, crashed, reset, lost, expired>>
  BY <1>3 DEF SendReset, sockVars, rcvVars, envVars
<1>6. wire' \in [Host -> Seq(PacketType)]
  BY <1>1, <1>3, <1>4, Types, SendWire
<1>7. TypeOK'
  BY <1>1, <1>4, <1>6 DEF TypeOK, PacketType
<1>8. Sent(h, p)'
  BY <1>2, <1>3, <1>4 DEF Sent, PacketKind, BlockKind
<1>9. \A c \in Range(send_buf'[h]) : Held(h, c)'
  BY <1>1, <1>4, <1>7, HeldAfter
<1> QED
  BY <1>1, <1>4, <1>7, <1>8, <1>9, SendOnly

(* The first block, with one more retransmission counted.                  *)
LEMMA Counted ==
  ASSUME send_buf \in [Host -> Seq(BlockType)], NEW h \in Host,
         send_buf[h] # <<>>, send_buf[h][1].times < 3,
         send_buf' = [send_buf EXCEPT ![h][1].times = @ + 1]
  PROVE  /\ send_buf' \in [Host -> Seq(BlockType)]
         /\ send_buf'[Peer(h)] = send_buf[Peer(h)]
         /\ send_buf[h][1] \in Range(send_buf[h])
         /\ \A b \in Range(send_buf[h]) : \E c \in Range(send_buf'[h]) : c.seq = b.seq
         /\ \A c \in Range(send_buf'[h]) : \E b \in Range(send_buf[h]) : c.seq = b.seq /\ c.kind = b.kind
<1> DEFINE buf == send_buf[h]
           new == [buf EXCEPT ![1] = [buf[1] EXCEPT !.times = @ + 1]]
<1>1. Peer(h) \in Host /\ Peer(h) # h
  BY Ends
<1>2. buf \in Seq(BlockType) /\ 1 \in DOMAIN buf /\ Len(buf) \in Nat /\ DOMAIN buf = 1 .. Len(buf)
  OBVIOUS
<1>3. buf[1] \in BlockType
  BY <1>2
<1>4. buf[1].times \in 0 .. 3 /\ buf[1].times + 1 \in 0 .. 3
  BY <1>3 DEF BlockType
<1>5. [buf[1] EXCEPT !.times = @ + 1] \in BlockType
      /\ [buf[1] EXCEPT !.times = @ + 1].seq = buf[1].seq
      /\ [buf[1] EXCEPT !.times = @ + 1].kind = buf[1].kind
  BY <1>3, <1>4 DEF BlockType
<1>6. new \in Seq(BlockType) /\ Len(new) = Len(buf)
  BY <1>2, <1>5
<1>7. \A i \in 1 .. Len(buf) : new[i].seq = buf[i].seq /\ new[i].kind = buf[i].kind
  BY <1>2, <1>5
<1>8. send_buf' = [send_buf EXCEPT ![h] = new]
  OBVIOUS
<1> HIDE DEF new
<1>9. send_buf'[h] = new /\ send_buf'[Peer(h)] = send_buf[Peer(h)]
      /\ send_buf' \in [Host -> Seq(BlockType)]
  BY <1>1, <1>6, <1>8
<1>10. /\ \A b : b \in Range(buf) <=> \E i \in 1 .. Len(buf) : b = buf[i]
       /\ \A b : b \in Range(new) <=> \E i \in 1 .. Len(buf) : b = new[i]
  BY <1>2, <1>6, RangeOf
<1>11. buf[1] \in Range(buf)
  BY <1>2, <1>10
<1>12. \A b \in Range(buf) : \E c \in Range(new) : c.seq = b.seq
  BY <1>7, <1>10
<1>13. \A c \in Range(new) : \E b \in Range(buf) : c.seq = b.seq /\ c.kind = b.kind
  BY <1>7, <1>10
<1> QED BY <1>9, <1>11, <1>12, <1>13

(* The timer sends the first block again.                                  *)
LEMMA StepRetransmit ==
  ASSUME IInv, NEW h \in Host, Retransmit(h)
  PROVE  IInv'
<1>1. TypeOK /\ send_buf \in [Host -> Seq(BlockType)]
  BY Types DEF IInv
<1>2. snd_nxt[h] \in Nat /\ rcv_nxt[h] \in Nat
  BY <1>1 DEF TypeOK
<1>3. /\ send_buf[h] # <<>> /\ send_buf[h][1].times < 3
      /\ send_buf' = [send_buf EXCEPT ![h][1].times = @ + 1]
      /\ expired < MaxTimeout /\ expired' = expired + 1
      /\ Send(h, Packet(send_buf[h][1].kind, send_buf[h][1].seq, rcv_nxt[h]))
      /\ UNCHANGED <<state, snd_una, snd_nxt, rcv_nxt, hashed, stored, ofo, unread, notified,
                     accept_queue, fin, rx, app, crashed, reset, lost>>
  BY DEF Retransmit, MayRetransmit, rcvVars
<1>4. /\ send_buf' \in [Host -> Seq(BlockType)]
      /\ send_buf'[Peer(h)] = send_buf[Peer(h)]
      /\ send_buf[h][1] \in Range(send_buf[h])
      /\ \A b \in Range(send_buf[h]) : \E c \in Range(send_buf'[h]) : c.seq = b.seq
      /\ \A c \in Range(send_buf'[h]) : \E b \in Range(send_buf[h]) : c.seq = b.seq /\ c.kind = b.kind
  BY <1>1, <1>3, Counted
<1>5. PICK b \in BlockType : b = send_buf[h][1] /\ Held(h, b)
  BY <1>1, <1>4, Types, Elements DEF IInv, Lists
<1>6. b.kind \in Kind /\ b.seq \in Nat
  BY PacketFields
<1>7. PICK p \in PacketType : /\ p = Packet(b.kind, b.seq, rcv_nxt[h])
                             /\ p.kind = b.kind /\ p.seq = b.seq /\ p.ack = rcv_nxt[h]
  BY <1>2, <1>6, MakePacket
<1>8. wire' \in [Host -> Seq(PacketType)] /\ Send(h, p)
  BY <1>1, <1>3, <1>5, <1>7, Types, SendWire
<1>9. expired' \in 0 .. MaxTimeout
  <2>1. expired \in 0 .. MaxTimeout /\ MaxTimeout \in Nat
    BY <1>1, BoundAssumption DEF TypeOK
  <2>2. expired < MaxTimeout /\ expired' = expired + 1
    BY <1>3
  <2> QED BY <2>1, <2>2
<1>10. TypeOK'
  BY <1>1, <1>3, <1>4, <1>8, <1>9 DEF TypeOK, PacketType, BlockType
<1>11. Sent(h, p)'
  <2>1. seq_end(p) = seq_end(b)
    BY <1>7 DEF seq_end
  <2> QED BY <1>2, <1>3, <1>5, <1>7, <2>1 DEF Sent, Held, PacketKind
<1>12. \A c \in Range(send_buf'[h]) : Held(h, c)'
  <2> TAKE c \in Range(send_buf'[h])
  <2>1. PICK a \in Range(send_buf[h]) : c.seq = a.seq /\ c.kind = a.kind
    BY <1>4
  <2>2. Held(h, a)'
    BY <1>1, <1>3, <1>10, HeldAfter
  <2> QED BY <2>1, <2>2 DEF Held, seq_end
<1>13. send_buf[h] = <<>> => send_buf'[h] = <<>>
  BY <1>3
<1> QED
  BY <1>3, <1>4, <1>8, <1>10, <1>11, <1>12, <1>13, SendOnly

-----------------------------------------------------------------------------
(* The thread that receives.                                               *)

(* The receiving thread of a host takes a packet.                          *)
LEMMA RecvStep ==
  ASSUME IInv, TypeOK', Opening', Listening', Grows, NEW h \in Host,
         \A g \in Host : \A p \in Range(wire'[g]) : p \in Range(wire[g]) \/ Sent(Peer(g), p)',
         fin' = fin,
         \A g \in Host : app[g] \in {"hash", "fin_wait", "last_ack"} => app'[g] = app[g],
         \A g \in Host : app'[g] \in {"fin_wait", "last_ack"} => app[g] = app'[g],
         snd_una'[Peer(h)] = snd_una[Peer(h)], snd_nxt'[Peer(h)] = snd_nxt[Peer(h)],
         rcv_nxt'[Peer(h)] = rcv_nxt[Peer(h)], send_buf'[Peer(h)] = send_buf[Peer(h)],
         ofo'[Peer(h)] = ofo[Peer(h)],
         snd_una'[h] <= rcv_nxt[Peer(h)], rcv_nxt'[h] <= snd_nxt[Peer(h)],
         \A x \in ofo'[h] : x \in ofo[h] \/ x < snd_nxt[Peer(h)],
         \A b \in Range(send_buf'[h]) : b \in Range(send_buf[h]) \/ Held(h, b)',
         \A b \in Range(send_buf[h]) : b \in Range(send_buf'[h]) \/ b.seq < rcv_nxt[Peer(h)],
         \A x \in Nat : snd_nxt[h] <= x /\ x < snd_nxt'[h] => Covered(h, x)'
  PROVE  IInv'
<1>0. TypeOK /\ Agreement /\ Lists /\ Kept /\ Peer(h) \in Host
  BY Ends DEF IInv
<1>1. \A g \in Host : /\ snd_nxt[g] \in Nat /\ snd_nxt'[g] \in Nat /\ rcv_nxt[g] \in Nat
                      /\ rcv_nxt'[g] \in Nat /\ snd_una[g] \in Nat /\ snd_una'[g] \in Nat
                      /\ snd_nxt[g] <= snd_nxt'[g] /\ rcv_nxt[g] <= rcv_nxt'[g]
  BY <1>0 DEF TypeOK, Grows
<1>2. Agreement'
  <2> SUFFICES ASSUME NEW g \in Host
               PROVE  snd_una'[g] <= rcv_nxt'[Peer(g)] /\ rcv_nxt'[g] <= snd_nxt'[Peer(g)]
    BY DEF Agreement
  <2>1. CASE g = h
    BY <1>0, <1>1, <2>1
  <2>2. CASE g = Peer(h)
    <3>1. Peer(g) = h /\ snd_una[g] <= rcv_nxt[h] /\ rcv_nxt[g] <= snd_nxt[h]
      BY <1>0, <2>2, Ends DEF Agreement
    <3> QED BY <1>1, <2>2, <3>1
  <2> QED BY <2>1, <2>2, Ends
<1>3. Lists'
  <2>1. \A g \in Host : \A b \in Range(send_buf'[g]) : b \in Range(send_buf[g]) \/ Held(g, b)'
    <3> TAKE g \in Host
    <3>1. CASE g = h
      BY <3>1
    <3>2. CASE g = Peer(h)
      BY <3>2
    <3> QED BY <3>1, <3>2, Ends
  <2>2. \A g \in Host : \A x \in ofo'[g] : x \in ofo[g] \/ x < snd_nxt'[Peer(g)]
    <3> TAKE g \in Host
    <3>1. CASE g = h
      BY <3>1
    <3>2. CASE g = Peer(h)
      BY <3>2
    <3> QED BY <3>1, <3>2, Ends
  <2>3. \A g \in Host : app'[g] \in {"fin_wait", "last_ack"} =>
           app[g] \in {"fin_wait", "last_ack"} /\ fin'[g] = fin[g]
    OBVIOUS
  <2> QED BY <1>0, <2>1, <2>2, <2>3, ListsStay
<1>4. \A g \in Host, x \in Nat : Covered(g, x) => Covered(g, x)' \/ x < rcv_nxt'[Peer(g)]
  <2> TAKE g \in Host, x \in Nat
  <2>1. Appending(g, x) => Covered(g, x)'
    BY DEF Appending, Covered
  <2>2. ASSUME NEW b \in Range(send_buf[g]), b.seq = x
        PROVE  Covered(g, x)' \/ x < rcv_nxt'[Peer(g)]
    <3>1. CASE g = h
      BY <2>2, <3>1 DEF Covered
    <3>2. CASE g = Peer(h)
      BY <2>2, <3>2 DEF Covered
    <3> QED BY <3>1, <3>2, Ends
  <2> QED BY <2>1, <2>2 DEF Covered
<1>5. \A g \in Host, x \in Nat : snd_nxt[g] <= x /\ x < snd_nxt'[g] => Covered(g, x)'
  <2> TAKE g \in Host, x \in Nat
  <2>1. CASE g = h
    BY <2>1
  <2>2. CASE g = Peer(h)
    BY <1>1, <2>2
  <2> QED BY <2>1, <2>2, Ends
<1>6. Kept'
  BY <1>0, <1>4, <1>5, KeptStays
<1> QED BY <1>2, <1>3, <1>6 DEF IInv

(* A packet that tcp_process goes on with.                                 *)
LEMMA Processed ==
  ASSUME IInv, NEW h \in Host, NEW p \in Arrived(h), Processes(h, p)
  PROVE  /\ p \in PacketType /\ p.seq \in Nat /\ p.ack \in Nat /\ seq_end(p) \in Nat
         /\ rcv_nxt[h] <= seq_end(p) /\ seq_end(p) <= snd_nxt[Peer(h)]
         /\ p.ack <= rcv_nxt[Peer(h)]
         /\ p.kind = "DATA" => p.seq \in 1 .. Segments
         /\ wire[h] # <<>> /\ rx[h] = "idle" /\ hashed[h]
         /\ h = "server" => app["client"] \notin Early
<1>1. p \in PacketType /\ wire[h] # <<>> /\ rx[h] = "idle" /\ Sent(Peer(h), p)
  BY Taken DEF IInv
<1>2. hashed[h] /\ p.kind \notin {"SYN", "RST"} /\ rcv_nxt[h] <= seq_end(p)
  BY DEF Processes
<1>3. h = "server" => app["client"] \notin Early
  <2>1. h = "server" => Peer(h) = "client"
    BY Ends
  <2> QED BY <1>1, <1>2, <2>1 DEF Sent
<1> QED BY <1>1, <1>2, <1>3, PacketFields DEF Sent

(* tcp_process frees what is acknowledged, may move rcv_nxt within what    *)
(* the peer has numbered, and may answer.                                  *)
LEMMA ProcessStep ==
  ASSUME IInv, TypeOK', NEW h \in Host, NEW p \in Arrived(h), Processes(h, p),
         NEW reply \in Seq(PacketType), Take(h, reply),
         \A q \in Range(reply) :
           /\ state[h] \notin {"CLOSED", "SYN_SENT"}
           /\ q.kind \in PacketKind(h) /\ seq_end(q) <= snd_nxt[h] /\ q.ack <= rcv_nxt'[h]
           /\ q.kind = "DATA" => q.seq \in 1 .. Segments,
         tcp_free_send_buf(h, p.ack),
         UNCHANGED <<hashed, rx, app, fin, snd_nxt>>,
         state'[Peer(h)] = state[Peer(h)],
         \/ state'[h] = state[h]
         \/ state[h] \notin {"CLOSED", "SYN_SENT"} /\ state'[h] \notin {"SYN_SENT", "SYN_RECV"},
         snd_una'[h] \in {snd_una[h], p.ack}, snd_una'[Peer(h)] = snd_una[Peer(h)],
         rcv_nxt[h] <= rcv_nxt'[h], rcv_nxt'[h] <= snd_nxt[Peer(h)],
         rcv_nxt'[Peer(h)] = rcv_nxt[Peer(h)],
         ofo'[Peer(h)] = ofo[Peer(h)],
         \A x \in ofo'[h] : x \in ofo[h] \/ x < snd_nxt[Peer(h)],
         accept_queue' = accept_queue \/ state[h] = "SYN_RECV"
  PROVE  IInv'
<1>0. TypeOK /\ Agreement /\ Lists /\ Opening /\ Listening /\ Peer(h) \in Host /\ Peer(h) # h
  BY Ends DEF IInv
<1>1. /\ p \in PacketType /\ p.ack \in Nat /\ p.ack <= rcv_nxt[Peer(h)]
      /\ wire[h] # <<>> /\ rx[h] = "idle" /\ hashed[h]
      /\ h = "server" => app["client"] \notin Early
  BY Processed
<1>2. \A g \in Host : /\ snd_nxt[g] \in Nat /\ rcv_nxt[g] \in Nat /\ rcv_nxt'[g] \in Nat
                      /\ snd_una[g] \in Nat /\ rcv_nxt[g] <= rcv_nxt'[g]
  <2>1. \A g \in Host : snd_nxt[g] \in Nat /\ rcv_nxt[g] \in Nat /\ rcv_nxt'[g] \in Nat /\ snd_una[g] \in Nat
    BY <1>0 DEF TypeOK
  <2>2. \A g \in Host : rcv_nxt[g] <= rcv_nxt'[g]
    BY <2>1, Ends
  <2> QED BY <2>1, <2>2
<1>3. Grows
  BY <1>2 DEF Grows
<1>4. /\ send_buf' \in [Host -> Seq(BlockType)]
      /\ Range(send_buf'[h]) = {b \in Range(send_buf[h]) : seq_end(b) > p.ack}
      /\ send_buf'[Peer(h)] = send_buf[Peer(h)]
  BY <1>0, <1>1, Types, Freed
<1>5. /\ Range(wire'[h]) \subseteq Range(wire[h])
      /\ Range(wire'[Peer(h)]) = Range(wire[Peer(h)]) \cup Range(reply)
      /\ wire[Peer(h)] # <<>> => wire'[Peer(h)] # <<>>
  BY <1>0, <1>1, Types, TakeWire
<1>6. h = "client" /\ app["client"] \in Early => state[h] \in {"CLOSED", "SYN_SENT"}
  BY <1>0 DEF Opening
<1>7. \A q \in Range(reply) : Sent(h, q)'
  BY <1>6 DEF Sent
<1>8. \A g \in Host : \A q \in Range(wire'[g]) : q \in Range(wire[g]) \/ Sent(Peer(g), q)'
  <2> SUFFICES ASSUME NEW g \in Host, NEW q \in Range(wire'[g])
               PROVE  q \in Range(wire[g]) \/ Sent(Peer(g), q)'
    OBVIOUS
  <2>1. CASE g = h
    BY <1>5, <2>1
  <2>2. CASE g = Peer(h)
    <3>1. Peer(g) = h
      BY <2>2, Ends
    <3>2. q \in Range(wire[g]) \/ q \in Range(reply)
      BY <1>5, <2>2
    <3> QED BY <1>7, <3>1, <3>2
  <2> QED BY <2>1, <2>2, Ends
<1>9. Opening'
  <2>1. \/ state'["client"] = state["client"]
        \/ state["client"] \notin {"CLOSED", "SYN_SENT"} /\ state'["client"] \notin {"SYN_SENT", "SYN_RECV"}
    BY Ends
  <2>2. rx["client"] = "synack" => wire'["client"] # <<>>
    BY <1>0, <1>1, <1>5, Ends DEF Opening
  <2>3. app["client"] \in Early =>
          /\ h = "client" /\ state'["server"] = state["server"]
          /\ rcv_nxt'["client"] <= 1
          /\ state[h] # "SYN_RECV"
    <3>1. app["client"] \in Early => h = "client"
      BY <1>1, Ends
    <3>2. app["client"] \in Early => rcv_nxt'["client"] <= snd_nxt["server"] /\ snd_nxt["server"] <= 1
                                     /\ state["client"] # "SYN_RECV"
      BY <1>0, <3>1, Ends DEF Opening
    <3> QED BY <1>2, <3>1, <3>2, Ends
  <2>4. app["client"] \in Early => state["client"] \in {"CLOSED", "SYN_SENT"}
    BY <1>0 DEF Opening
  <2> QED BY <1>0, <2>1, <2>2, <2>3, <2>4 DEF Opening
<1>10. Listening'
  <2>1. ~hashed["server"] => h = "client" /\ state["client"] # "SYN_RECV"
    BY <1>0, <1>1, Ends DEF Opening
  <2>2. ~hashed["server"] => /\ rcv_nxt'["server"] = rcv_nxt["server"]
                             /\ send_buf'["server"] = send_buf["server"]
                             /\ state'["server"] = state["server"]
                             /\ accept_queue' = accept_queue
    BY <1>4, <2>1, Ends
  <2> QED BY <1>0, <2>2 DEF Listening
<1>11. snd_una'[h] <= rcv_nxt[Peer(h)]
  BY <1>0, <1>1 DEF Agreement
<1>12. \A b \in Range(send_buf[h]) : b \in Range(send_buf'[h]) \/ b.seq < rcv_nxt[Peer(h)]
  <2> TAKE b \in Range(send_buf[h])
  <2>1. b \in BlockType /\ Held(h, b)
    BY <1>0, Types, Elements DEF Lists
  <2>2. seq_end(b) = b.seq + 1 /\ b.seq \in Nat
    BY <2>1, PacketFields DEF Held, BlockKind, seq_end, Length
  <2> QED BY <1>0, <1>1, <1>2, <1>4, <2>2
<1>13. \A b \in Range(send_buf'[h]) : b \in Range(send_buf[h])
  BY <1>4
<1>14. \A x \in Nat : ~(snd_nxt[h] <= x /\ x < snd_nxt'[h])
  BY <1>2
<1> QED
  BY <1>3, <1>4, <1>8, <1>9, <1>10, <1>11, <1>12, <1>13, <1>14, RecvStep

(* The types after a step of tcp_process.                                  *)
LEMMA ProcessTypes ==
  ASSUME TypeOK, NEW h \in Host, NEW ack \in Nat, wire[h] # <<>>,
         NEW reply \in Seq(PacketType), Take(h, reply), tcp_free_send_buf(h, ack)
  PROVE  /\ wire' \in [Host -> Seq([kind : Kind, seq : Nat, ack : Nat])]
         /\ send_buf' \in [Host -> Seq([kind : Kind, seq : Nat, times : 0 .. 3])]
BY Types, TakeWire, Freed DEF PacketType, BlockType

(* The ACK that answers a packet.                                          *)
LEMMA AckReply ==
  ASSUME NEW h \in Host, NEW seq \in Nat, NEW ack \in Nat
  PROVE  /\ <<Packet("ACK", seq, ack)>> \in Seq(PacketType)
         /\ \A q \in Range(<<Packet("ACK", seq, ack)>>) :
              q.kind \in PacketKind(h) /\ q.kind # "DATA" /\ seq_end(q) = seq /\ q.ack = ack
<1>1. /\ Packet("ACK", seq, ack) \in PacketType
      /\ Packet("ACK", seq, ack).kind = "ACK" /\ Packet("ACK", seq, ack).seq = seq
      /\ Packet("ACK", seq, ack).ack = ack
  BY MakePacket DEF Kind
<1>2. seq_end(Packet("ACK", seq, ack)) = seq
  BY <1>1 DEF seq_end, Length
<1>3. \A q \in Range(<<Packet("ACK", seq, ack)>>) : q = Packet("ACK", seq, ack)
  BY <1>1, Replies
<1> QED BY <1>1, <1>2, <1>3, Replies DEF PacketKind

(* At most an ACK is answered.                                             *)
LEMMA MayAck ==
  ASSUME NEW h \in Host, NEW seq \in Nat, NEW ack \in Nat,
         Take(h, <<Packet("ACK", seq, ack)>>) \/ Take(h, <<>>)
  PROVE  \E reply \in Seq(PacketType) :
           /\ Take(h, reply)
           /\ \A q \in Range(reply) :
                q.kind \in PacketKind(h) /\ q.kind # "DATA" /\ seq_end(q) = seq /\ q.ack = ack
<1>1. CASE Take(h, <<Packet("ACK", seq, ack)>>)
  BY <1>1, AckReply
<1>2. CASE Take(h, <<>>)
  <2>1. \A q \in Range(<<>>) : FALSE
    BY Replies
  <2> QED BY <1>2, <2>1, Replies
<1> QED BY <1>1, <1>2

(* MovePast, Acked and the changes of state, by their types.               *)
LEMMA MovesPast ==
  ASSUME TypeOK, NEW h \in Host, NEW p \in PacketType, MovePast(h, p)
  PROVE  /\ rcv_nxt' \in [Host -> Nat]
         /\ rcv_nxt'[h] = seq_end(p) /\ rcv_nxt'[Peer(h)] = rcv_nxt[Peer(h)]
<1>1. seq_end(p) \in Nat /\ Peer(h) \in Host /\ Peer(h) # h
  BY PacketFields, Ends
<1> QED BY <1>1 DEF MovePast, TypeOK

LEMMA StateMoves ==
  ASSUME TypeOK, NEW h \in Host,
         NEW v \in {"CLOSED", "SYN_RECV", "ESTABLISHED", "CLOSE_WAIT", "LAST_ACK", "FIN_WAIT_1",
                    "FIN_WAIT_2", "TIME_WAIT"},
         state' = [state EXCEPT ![h] = v]
  PROVE  /\ state' \in [Host -> {"CLOSED", "SYN_SENT", "SYN_RECV", "ESTABLISHED", "CLOSE_WAIT",
                                 "LAST_ACK", "FIN_WAIT_1", "FIN_WAIT_2", "TIME_WAIT"}]
         /\ state'[h] = v /\ state'[Peer(h)] = state[Peer(h)]
<1>1. Peer(h) \in Host /\ Peer(h) # h
  BY Ends
<1> QED BY <1>1 DEF TypeOK

LEMMA SndUnaMoves ==
  ASSUME TypeOK, NEW h \in Host, NEW p \in PacketType, Acked(h, p)
  PROVE  /\ snd_una' \in [Host -> Nat]
         /\ snd_una'[h] \in {snd_una[h], p.ack} /\ snd_una'[Peer(h)] = snd_una[Peer(h)]
         /\ tcp_free_send_buf(h, p.ack)
<1>1. p.ack \in Nat /\ Peer(h) \in Host /\ Peer(h) # h
  BY PacketFields, Ends
<1>2. snd_una \in [Host -> Nat]
  BY DEF TypeOK
<1> QED BY <1>1, <1>2 DEF Acked

(* The branches of tcp_process, one lemma each.                            *)
LEMMA StepProcessSynRecv ==
  ASSUME IInv, NEW h \in Host, ProcessSynRecv(h)
  PROVE  IInv'
<1>1. TypeOK /\ Peer(h) \in Host
  BY Ends DEF IInv
<1>2. PICK p \in Arrived(h) :
        /\ Processes(h, p) /\ state[h] = "SYN_RECV" /\ MovePast(h, p)
        /\ accept_queue' = TRUE /\ tcp_free_send_buf(h, p.ack)
        /\ IF p.kind = "FIN"
           THEN /\ state' = [state EXCEPT ![h] = "CLOSE_WAIT"]
                /\ Take(h, <<Packet("ACK", snd_nxt[h], seq_end(p))>>)
                /\ wake_up(h)
           ELSE /\ state' = [state EXCEPT ![h] = "ESTABLISHED"]
                /\ Take(h, <<>>)
                /\ UNCHANGED notified
        /\ UNCHANGED <<snd_una, snd_nxt, hashed, stored, ofo, unread, rx, app, fin, crashed,
                       reset, lost, expired>>
  BY DEF ProcessSynRecv, envVars
<1>3. /\ p \in PacketType /\ p.ack \in Nat /\ seq_end(p) \in Nat /\ wire[h] # <<>>
      /\ rcv_nxt[h] <= seq_end(p) /\ seq_end(p) <= snd_nxt[Peer(h)] /\ snd_nxt[h] \in Nat
  BY <1>1, <1>2, Processed, Types
<1>4. /\ rcv_nxt' \in [Host -> Nat] /\ rcv_nxt'[h] = seq_end(p)
      /\ rcv_nxt'[Peer(h)] = rcv_nxt[Peer(h)]
  BY <1>1, <1>2, <1>3, MovesPast
<1>5. PICK reply \in Seq(PacketType) :
        /\ Take(h, reply)
        /\ \A q \in Range(reply) : /\ q.kind \in PacketKind(h) /\ q.kind # "DATA"
                                   /\ seq_end(q) = snd_nxt[h] /\ q.ack = seq_end(p)
  <2>1. Take(h, <<Packet("ACK", snd_nxt[h], seq_end(p))>>) \/ Take(h, <<>>)
    BY <1>2
  <2> QED BY <1>3, <2>1, MayAck
<1>6. /\ state'[h] \in {"CLOSE_WAIT", "ESTABLISHED"} /\ state'[Peer(h)] = state[Peer(h)]
      /\ state' \in [Host -> {"CLOSED", "SYN_SENT", "SYN_RECV", "ESTABLISHED", "CLOSE_WAIT",
                              "LAST_ACK", "FIN_WAIT_1", "FIN_WAIT_2", "TIME_WAIT"}]
  BY <1>1, <1>2, StateMoves
<1>7. notified' \in [Host -> BOOLEAN]
  BY <1>1, <1>2 DEF wake_up, TypeOK
<1>8. TypeOK'
  BY <1>1, <1>2, <1>3, <1>4, <1>5, <1>6, <1>7, ProcessTypes DEF TypeOK
<1>9. \A q \in Range(reply) :
        /\ state[h] \notin {"CLOSED", "SYN_SENT"}
        /\ q.kind \in PacketKind(h) /\ seq_end(q) <= snd_nxt[h] /\ q.ack <= rcv_nxt'[h]
        /\ q.kind = "DATA" => q.seq \in 1 .. Segments
  BY <1>2, <1>3, <1>4, <1>5
<1> QED
  BY <1>2, <1>3, <1>4, <1>5, <1>6, <1>8, <1>9, ProcessStep

LEMMA StepProcessFinWait1 ==
  ASSUME IInv, NEW h \in Host, ProcessFinWait1(h)
  PROVE  IInv'
<1>1. TypeOK /\ Peer(h) \in Host
  BY Ends DEF IInv
<1>2. PICK p \in Arrived(h) :
        /\ Processes(h, p) /\ state[h] = "FIN_WAIT_1" /\ MovePast(h, p)
        /\ tcp_free_send_buf(h, p.ack)
        /\ IF p.kind = "FIN"
           THEN /\ state' = [state EXCEPT ![h] = "TIME_WAIT"]
                /\ Take(h, <<Packet("ACK", snd_nxt[h], seq_end(p))>>)
           ELSE /\ state' = [state EXCEPT ![h] = "FIN_WAIT_2"]
                /\ Take(h, <<>>)
        /\ UNCHANGED <<snd_una, snd_nxt, hashed, stored, ofo, unread, notified, accept_queue,
                       rx, app, fin, crashed, reset, lost, expired>>
  BY DEF ProcessFinWait1, rcvVars, envVars
<1>3. /\ p \in PacketType /\ p.ack \in Nat /\ seq_end(p) \in Nat /\ wire[h] # <<>>
      /\ rcv_nxt[h] <= seq_end(p) /\ seq_end(p) <= snd_nxt[Peer(h)] /\ snd_nxt[h] \in Nat
  BY <1>1, <1>2, Processed, Types
<1>4. /\ rcv_nxt' \in [Host -> Nat] /\ rcv_nxt'[h] = seq_end(p)
      /\ rcv_nxt'[Peer(h)] = rcv_nxt[Peer(h)]
  BY <1>1, <1>2, <1>3, MovesPast
<1>5. PICK reply \in Seq(PacketType) :
        /\ Take(h, reply)
        /\ \A q \in Range(reply) : /\ q.kind \in PacketKind(h) /\ q.kind # "DATA"
                                   /\ seq_end(q) = snd_nxt[h] /\ q.ack = seq_end(p)
  <2>1. Take(h, <<Packet("ACK", snd_nxt[h], seq_end(p))>>) \/ Take(h, <<>>)
    BY <1>2
  <2> QED BY <1>3, <2>1, MayAck
<1>6. /\ state'[h] \in {"TIME_WAIT", "FIN_WAIT_2"} /\ state'[Peer(h)] = state[Peer(h)]
      /\ state' \in [Host -> {"CLOSED", "SYN_SENT", "SYN_RECV", "ESTABLISHED", "CLOSE_WAIT",
                              "LAST_ACK", "FIN_WAIT_1", "FIN_WAIT_2", "TIME_WAIT"}]
  BY <1>1, <1>2, StateMoves
<1>7. TypeOK'
  BY <1>1, <1>2, <1>3, <1>4, <1>5, <1>6, ProcessTypes DEF TypeOK
<1>8. \A q \in Range(reply) :
        /\ state[h] \notin {"CLOSED", "SYN_SENT"}
        /\ q.kind \in PacketKind(h) /\ seq_end(q) <= snd_nxt[h] /\ q.ack <= rcv_nxt'[h]
        /\ q.kind = "DATA" => q.seq \in 1 .. Segments
  BY <1>2, <1>3, <1>4, <1>5
<1> QED
  BY <1>2, <1>3, <1>4, <1>5, <1>6, <1>7, <1>8, ProcessStep

LEMMA StepProcessLastAck ==
  ASSUME IInv, NEW h \in Host, ProcessLastAck(h)
  PROVE  IInv'
<1>1. TypeOK /\ Peer(h) \in Host /\ <<>> \in Seq(PacketType) /\ Range(<<>>) = {}
  BY Ends, Replies DEF IInv
<1>2. PICK p \in Arrived(h) :
        /\ Processes(h, p) /\ state[h] = "LAST_ACK" /\ MovePast(h, p)
        /\ state' = [state EXCEPT ![h] = "CLOSED"]
        /\ tcp_free_send_buf(h, p.ack) /\ Take(h, <<>>)
        /\ UNCHANGED <<snd_una, snd_nxt, hashed, stored, ofo, unread, notified, accept_queue,
                       rx, app, fin, crashed, reset, lost, expired>>
  BY DEF ProcessLastAck, rcvVars, envVars
<1>3. /\ p \in PacketType /\ p.ack \in Nat /\ seq_end(p) \in Nat /\ wire[h] # <<>>
      /\ rcv_nxt[h] <= seq_end(p) /\ seq_end(p) <= snd_nxt[Peer(h)]
  BY <1>2, Processed
<1>4. /\ rcv_nxt' \in [Host -> Nat] /\ rcv_nxt'[h] = seq_end(p)
      /\ rcv_nxt'[Peer(h)] = rcv_nxt[Peer(h)]
  BY <1>1, <1>2, <1>3, MovesPast
<1>5. /\ state'[h] = "CLOSED" /\ state'[Peer(h)] = state[Peer(h)]
      /\ state' \in [Host -> {"CLOSED", "SYN_SENT", "SYN_RECV", "ESTABLISHED", "CLOSE_WAIT",
                              "LAST_ACK", "FIN_WAIT_1", "FIN_WAIT_2", "TIME_WAIT"}]
  BY <1>1, <1>2, StateMoves
<1>6. TypeOK'
  BY <1>1, <1>2, <1>3, <1>4, <1>5, ProcessTypes DEF TypeOK
<1> QED
  BY <1>1, <1>2, <1>3, <1>4, <1>5, <1>6, ProcessStep

LEMMA StepProcessOther ==
  ASSUME IInv, NEW h \in Host, ProcessOther(h)
  PROVE  IInv'
<1>1. TypeOK /\ rcv_nxt \in [Host -> Nat] /\ Peer(h) \in Host /\ <<>> \in Seq(PacketType) /\ Range(<<>>) = {}
  BY Ends, Replies DEF IInv, TypeOK
<1>2. PICK p \in Arrived(h) :
        /\ Processes(h, p)
        /\ tcp_free_send_buf(h, p.ack)
        /\ IF p.kind = "FIN" /\ FinIsNext(h, p)
           THEN /\ MovePast(h, p)
                /\ IF state[h] = "FIN_WAIT_2"
                   THEN /\ state' = [state EXCEPT ![h] = "TIME_WAIT"]
                        /\ Take(h, <<Packet("ACK", snd_nxt[h], seq_end(p))>>)
                   ELSE Take(h, <<>>) /\ UNCHANGED state
           ELSE Take(h, <<>>) /\ UNCHANGED <<rcv_nxt, state>>
        /\ UNCHANGED <<snd_una, snd_nxt, hashed, stored, ofo, unread, notified, accept_queue,
                       rx, app, fin, crashed, reset, lost, expired>>
  BY DEF ProcessOther, rcvVars, envVars
<1>3. /\ p \in PacketType /\ p.ack \in Nat /\ seq_end(p) \in Nat /\ wire[h] # <<>>
      /\ rcv_nxt[h] <= seq_end(p) /\ seq_end(p) <= snd_nxt[Peer(h)]
      /\ snd_nxt[h] \in Nat /\ rcv_nxt[h] \in Nat /\ snd_nxt[Peer(h)] \in Nat
  BY <1>1, <1>2, Processed, Types
<1>4. /\ rcv_nxt' \in [Host -> Nat] /\ rcv_nxt[h] <= rcv_nxt'[h] /\ rcv_nxt'[h] <= snd_nxt[Peer(h)]
      /\ rcv_nxt'[Peer(h)] = rcv_nxt[Peer(h)]
  <2>1. CASE MovePast(h, p)
    BY <1>1, <1>3, <2>1, MovesPast
  <2>2. CASE UNCHANGED rcv_nxt
    BY <1>1, <1>3, <2>2
  <2> QED BY <1>2, <2>1, <2>2
<1>5. /\ state' \in [Host -> {"CLOSED", "SYN_SENT", "SYN_RECV", "ESTABLISHED", "CLOSE_WAIT",
                              "LAST_ACK", "FIN_WAIT_1", "FIN_WAIT_2", "TIME_WAIT"}]
      /\ state'[Peer(h)] = state[Peer(h)]
      /\ \/ state'[h] = state[h]
         \/ state[h] \notin {"CLOSED", "SYN_SENT"} /\ state'[h] \notin {"SYN_SENT", "SYN_RECV"}
  <2>1. CASE state' = state
    BY <1>1, <2>1 DEF TypeOK
  <2>2. CASE state[h] = "FIN_WAIT_2" /\ state' = [state EXCEPT ![h] = "TIME_WAIT"]
    BY <1>1, <2>2, StateMoves
  <2> QED BY <1>2, <2>1, <2>2
<1>6. PICK reply \in Seq(PacketType) :
        /\ Take(h, reply)
        /\ \A q \in Range(reply) : /\ q.kind \in PacketKind(h) /\ q.kind # "DATA"
                                   /\ seq_end(q) = snd_nxt[h] /\ q.ack <= rcv_nxt'[h]
                                   /\ state[h] = "FIN_WAIT_2"
  <2>1. CASE state[h] = "FIN_WAIT_2" /\ MovePast(h, p) /\ Take(h, <<Packet("ACK", snd_nxt[h], seq_end(p))>>)
    <3>1. rcv_nxt'[h] = seq_end(p)
      BY <1>1, <1>3, <2>1, MovesPast
    <3>2. /\ <<Packet("ACK", snd_nxt[h], seq_end(p))>> \in Seq(PacketType)
          /\ \A q \in Range(<<Packet("ACK", snd_nxt[h], seq_end(p))>>) :
               /\ q.kind \in PacketKind(h) /\ q.kind # "DATA"
               /\ seq_end(q) = snd_nxt[h] /\ q.ack = seq_end(p)
      BY <1>3, AckReply
    <3>3. \A q : q.ack = seq_end(p) => q.ack <= rcv_nxt'[h]
      BY <1>3, <3>1
    <3> QED BY <2>1, <3>2, <3>3
  <2>2. CASE Take(h, <<>>)
    <3>1. \A q \in Range(<<>>) : FALSE
      BY <1>1
    <3> QED BY <1>1, <2>2, <3>1
  <2> QED BY <1>2, <2>1, <2>2
<1>7. TypeOK'
  BY <1>1, <1>2, <1>3, <1>4, <1>5, <1>6, ProcessTypes DEF TypeOK
<1>8. \A q \in Range(reply) :
        /\ state[h] \notin {"CLOSED", "SYN_SENT"}
        /\ q.kind \in PacketKind(h) /\ seq_end(q) <= snd_nxt[h] /\ q.ack <= rcv_nxt'[h]
        /\ q.kind = "DATA" => q.seq \in 1 .. Segments
  BY <1>3, <1>6
<1> QED
  BY <1>2, <1>3, <1>4, <1>5, <1>6, <1>7, <1>8, ProcessStep

LEMMA StepProcessFin ==
  ASSUME IInv, NEW h \in Host, ProcessFin(h)
  PROVE  IInv'
<1>1. TypeOK /\ rcv_nxt \in [Host -> Nat] /\ Peer(h) \in Host /\ <<>> \in Seq(PacketType) /\ Range(<<>>) = {}
  BY Ends, Replies DEF IInv, TypeOK
<1>2. PICK p \in Arrived(h) :
        /\ Processes(h, p) /\ state[h] = "ESTABLISHED" /\ Acked(h, p)
        /\ IF FinIsNext(h, p)
           THEN /\ MovePast(h, p)
                /\ state' = [state EXCEPT ![h] = "CLOSE_WAIT"]
                /\ Take(h, <<Packet("ACK", snd_nxt[h], seq_end(p))>>)
                /\ wake_up(h)
           ELSE Take(h, <<>>) /\ UNCHANGED <<rcv_nxt, state, notified>>
        /\ UNCHANGED <<snd_nxt, hashed, stored, ofo, unread, accept_queue,
                       rx, app, fin, crashed, reset, lost, expired>>
  BY DEF ProcessFin, rcvVars, envVars
<1>3. /\ p \in PacketType /\ p.ack \in Nat /\ seq_end(p) \in Nat /\ wire[h] # <<>>
      /\ rcv_nxt[h] <= seq_end(p) /\ seq_end(p) <= snd_nxt[Peer(h)]
      /\ snd_nxt[h] \in Nat /\ rcv_nxt[h] \in Nat /\ snd_nxt[Peer(h)] \in Nat
  BY <1>1, <1>2, Processed, Types
<1>4. /\ snd_una' \in [Host -> Nat] /\ tcp_free_send_buf(h, p.ack)
      /\ snd_una'[h] \in {snd_una[h], p.ack} /\ snd_una'[Peer(h)] = snd_una[Peer(h)]
  BY <1>1, <1>2, <1>3, SndUnaMoves
<1>5. /\ rcv_nxt' \in [Host -> Nat] /\ rcv_nxt[h] <= rcv_nxt'[h] /\ rcv_nxt'[h] <= snd_nxt[Peer(h)]
      /\ rcv_nxt'[Peer(h)] = rcv_nxt[Peer(h)]
  <2>1. CASE MovePast(h, p)
    BY <1>1, <1>3, <2>1, MovesPast
  <2>2. CASE UNCHANGED rcv_nxt
    BY <1>1, <1>3, <2>2
  <2> QED BY <1>2, <2>1, <2>2
<1>6. /\ state' \in [Host -> {"CLOSED", "SYN_SENT", "SYN_RECV", "ESTABLISHED", "CLOSE_WAIT",
                              "LAST_ACK", "FIN_WAIT_1", "FIN_WAIT_2", "TIME_WAIT"}]
      /\ state'[Peer(h)] = state[Peer(h)] /\ state'[h] \in {"ESTABLISHED", "CLOSE_WAIT"}
  <2>1. CASE state' = state
    BY <1>1, <1>2, <2>1 DEF TypeOK
  <2>2. CASE state' = [state EXCEPT ![h] = "CLOSE_WAIT"]
    BY <1>1, <2>2, StateMoves
  <2> QED BY <1>2, <2>1, <2>2
<1>7. PICK reply \in Seq(PacketType) :
        /\ Take(h, reply)
        /\ \A q \in Range(reply) : /\ q.kind \in PacketKind(h) /\ q.kind # "DATA"
                                   /\ seq_end(q) = snd_nxt[h] /\ q.ack <= rcv_nxt'[h]
  <2>1. CASE MovePast(h, p) /\ Take(h, <<Packet("ACK", snd_nxt[h], seq_end(p))>>)
    <3>1. rcv_nxt'[h] = seq_end(p)
      BY <1>1, <1>3, <2>1, MovesPast
    <3>2. /\ <<Packet("ACK", snd_nxt[h], seq_end(p))>> \in Seq(PacketType)
          /\ \A q \in Range(<<Packet("ACK", snd_nxt[h], seq_end(p))>>) :
               /\ q.kind \in PacketKind(h) /\ q.kind # "DATA"
               /\ seq_end(q) = snd_nxt[h] /\ q.ack = seq_end(p)
      BY <1>3, AckReply
    <3>3. \A q : q.ack = seq_end(p) => q.ack <= rcv_nxt'[h]
      BY <1>3, <3>1
    <3> QED BY <2>1, <3>2, <3>3
  <2>2. CASE Take(h, <<>>)
    <3>1. \A q \in Range(<<>>) : FALSE
      BY <1>1
    <3> QED BY <1>1, <2>2, <3>1
  <2> QED BY <1>2, <2>1, <2>2
<1>8. notified' \in [Host -> BOOLEAN]
  BY <1>1, <1>2 DEF wake_up, TypeOK
<1>9. TypeOK'
  BY <1>1, <1>2, <1>3, <1>4, <1>5, <1>6, <1>7, <1>8, ProcessTypes DEF TypeOK
<1>10. \A q \in Range(reply) :
        /\ state[h] \notin {"CLOSED", "SYN_SENT"}
        /\ q.kind \in PacketKind(h) /\ seq_end(q) <= snd_nxt[h] /\ q.ack <= rcv_nxt'[h]
        /\ q.kind = "DATA" => q.seq \in 1 .. Segments
  BY <1>2, <1>3, <1>7
<1> QED
  BY <1>2, <1>3, <1>4, <1>5, <1>6, <1>7, <1>9, <1>10, ProcessStep

LEMMA StepProcessAck ==
  ASSUME IInv, NEW h \in Host, ProcessAck(h)
  PROVE  IInv'
<1>1. TypeOK /\ rcv_nxt \in [Host -> Nat] /\ Peer(h) \in Host /\ <<>> \in Seq(PacketType) /\ Range(<<>>) = {}
  BY Ends, Replies DEF IInv, TypeOK
<1>2. PICK p \in Arrived(h) :
        /\ Processes(h, p) /\ state[h] = "ESTABLISHED" /\ Acked(h, p)
        /\ \/ Take(h, <<>>) /\ UNCHANGED expired
           \/ /\ expired < MaxTimeout
              /\ send_buf'[h] # <<>> /\ send_buf'[h][1].seq = p.ack
              /\ Take(h, <<Packet(send_buf'[h][1].kind, p.ack, rcv_nxt[h])>>)
              /\ expired' = expired + 1
        /\ UNCHANGED <<state, snd_nxt, rcv_nxt, hashed, stored, ofo, unread, notified,
                       accept_queue, rx, app, fin, crashed, reset, lost>>
  BY DEF ProcessAck, rcvVars
<1>3. /\ p \in PacketType /\ p.ack \in Nat /\ seq_end(p) \in Nat /\ wire[h] # <<>>
      /\ rcv_nxt[h] <= seq_end(p) /\ seq_end(p) <= snd_nxt[Peer(h)]
      /\ snd_nxt[h] \in Nat /\ rcv_nxt[h] \in Nat /\ snd_nxt[Peer(h)] \in Nat
  BY <1>1, <1>2, Processed, Types
<1>4. /\ snd_una' \in [Host -> Nat] /\ tcp_free_send_buf(h, p.ack)
      /\ snd_una'[h] \in {snd_una[h], p.ack} /\ snd_una'[Peer(h)] = snd_una[Peer(h)]
  BY <1>1, <1>2, <1>3, SndUnaMoves
<1>5. PICK reply \in Seq(PacketType) :
        /\ Take(h, reply)
        /\ \A q \in Range(reply) : /\ q.kind \in PacketKind(h)
                                   /\ q.kind = "DATA" => q.seq \in 1 .. Segments
                                   /\ seq_end(q) <= snd_nxt[h] /\ q.ack = rcv_nxt[h]
  <2>1. CASE Take(h, <<>>)
    <3>1. \A q \in Range(<<>>) : FALSE
      BY <1>1
    <3> QED BY <1>1, <2>1, <3>1
  <2>2. CASE /\ send_buf'[h] # <<>> /\ send_buf'[h][1].seq = p.ack
             /\ Take(h, <<Packet(send_buf'[h][1].kind, p.ack, rcv_nxt[h])>>)
    <3>1. /\ send_buf'[h] \in Seq(BlockType)
          /\ Range(send_buf'[h]) \subseteq Range(send_buf[h])
      <4>1. /\ send_buf' \in [Host -> Seq(BlockType)]
            /\ Range(send_buf'[h]) = {b \in Range(send_buf[h]) : seq_end(b) > p.ack}
        BY <1>1, <1>3, <1>4, Types, Freed
      <4> QED BY <4>1
    <3>2. PICK b \in BlockType : b = send_buf'[h][1] /\ Held(h, b)
      <4>1. Head(send_buf'[h]) \in Range(send_buf'[h]) /\ Head(send_buf'[h]) = send_buf'[h][1]
        BY <2>2, <3>1, Elements
      <4>2. send_buf'[h][1] \in Range(send_buf[h])
        BY <3>1, <4>1
      <4>3. send_buf'[h][1] \in BlockType /\ Held(h, send_buf'[h][1])
        BY <1>1, <4>2, Types, Elements DEF IInv, Lists
      <4> QED BY <4>3
    <3>3. b.kind \in Kind /\ b.seq \in Nat /\ b.seq = p.ack
      BY <2>2, <3>2, PacketFields
    <3>4. PICK q \in PacketType : /\ q = Packet(b.kind, p.ack, rcv_nxt[h])
                                  /\ q.kind = b.kind /\ q.seq = b.seq /\ q.ack = rcv_nxt[h]
      BY <1>3, <3>3, MakePacket
    <3>5. Take(h, <<q>>) /\ <<q>> \in Seq(PacketType) /\ Range(<<q>>) = {q}
      BY <2>2, <3>2, <3>4, Replies
    <3>6. seq_end(q) = seq_end(b)
      BY <3>4 DEF seq_end
    <3>7. /\ q.kind \in PacketKind(h)
          /\ q.kind = "DATA" => q.seq \in 1 .. Segments
          /\ seq_end(q) <= snd_nxt[h] /\ q.ack = rcv_nxt[h]
      BY <3>2, <3>4, <3>6 DEF Held, PacketKind
    <3> QED BY <3>5, <3>7
  <2> QED BY <1>2, <2>1, <2>2
<1>6. expired' \in 0 .. MaxTimeout
  <2>1. expired \in 0 .. MaxTimeout /\ MaxTimeout \in Nat
    BY <1>1, BoundAssumption DEF TypeOK
  <2>2. CASE expired' = expired
    BY <2>1, <2>2
  <2>3. CASE expired < MaxTimeout /\ expired' = expired + 1
    BY <2>1, <2>3
  <2> QED BY <1>2, <2>2, <2>3
<1>7. TypeOK'
  BY <1>1, <1>2, <1>3, <1>4, <1>5, <1>6, ProcessTypes DEF TypeOK
<1>8. \A q \in Range(reply) :
        /\ state[h] \notin {"CLOSED", "SYN_SENT"}
        /\ q.kind \in PacketKind(h) /\ seq_end(q) <= snd_nxt[h] /\ q.ack <= rcv_nxt'[h]
        /\ q.kind = "DATA" => q.seq \in 1 .. Segments
  BY <1>2, <1>3, <1>5
<1>9. rcv_nxt[h] <= rcv_nxt'[h] /\ rcv_nxt'[h] <= snd_nxt[Peer(h)]
      /\ rcv_nxt'[Peer(h)] = rcv_nxt[Peer(h)]
  BY <1>2, <1>3
<1> QED
  BY <1>2, <1>3, <1>4, <1>5, <1>7, <1>8, <1>9, ProcessStep

LEMMA StepProcessData ==
  ASSUME IInv, NEW h \in Host, ProcessData(h)
  PROVE  IInv'
<1>1. /\ TypeOK /\ rcv_nxt \in [Host -> Nat] /\ Peer(h) \in Host /\ Peer(h) # h
      /\ stored \in [Host -> SUBSET (1 .. Segments)] /\ ofo \in [Host -> SUBSET (1 .. Segments)]
      /\ unread \in [Host -> BOOLEAN] /\ notified \in [Host -> BOOLEAN]
  BY Ends DEF IInv, TypeOK
<1>2. PICK p \in Arrived(h) :
        /\ Processes(h, p) /\ state[h] = "ESTABLISHED" /\ p.kind = "DATA" /\ Acked(h, p)
        /\ IF p.seq # rcv_nxt[h]
           THEN /\ ofo' = [ofo EXCEPT ![h] = @ \cup {p.seq}]
                /\ UNCHANGED <<rcv_nxt, stored, unread, notified>>
           ELSE /\ rcv_nxt' = [rcv_nxt EXCEPT ![h] = seq_end(p) + Cardinality(Following(h, seq_end(p)))]
                /\ stored' = [stored EXCEPT ![h] = @ \cup {p.seq} \cup Following(h, seq_end(p))]
                /\ ofo' = [ofo EXCEPT ![h] = @ \ Following(h, seq_end(p))]
                /\ unread' = [unread EXCEPT ![h] = TRUE]
                /\ wake_up(h)
        /\ Take(h, <<Packet("ACK", snd_nxt[h], rcv_nxt'[h])>>)
        /\ UNCHANGED <<state, snd_nxt, hashed, accept_queue, rx, app, fin, crashed, reset, lost,
                       expired>>
  BY DEF ProcessData, envVars
<1>3. /\ p \in PacketType /\ p.ack \in Nat /\ seq_end(p) \in Nat /\ wire[h] # <<>>
      /\ rcv_nxt[h] <= seq_end(p) /\ seq_end(p) <= snd_nxt[Peer(h)]
      /\ p.seq \in Nat /\ p.seq \in 1 .. Segments
      /\ snd_nxt[h] \in Nat /\ rcv_nxt[h] \in Nat /\ snd_nxt[Peer(h)] \in Nat
  BY <1>1, <1>2, Processed, Types
<1>4. /\ snd_una' \in [Host -> Nat] /\ tcp_free_send_buf(h, p.ack)
      /\ snd_una'[h] \in {snd_una[h], p.ack} /\ snd_una'[Peer(h)] = snd_una[Peer(h)]
  BY <1>1, <1>2, <1>3, SndUnaMoves
<1>5. p.seq < snd_nxt[Peer(h)] /\ seq_end(p) = p.seq + 1
  BY <1>2, <1>3 DEF seq_end, Length
<1>6. \A x \in ofo[h] : x \in Nat /\ x < snd_nxt[Peer(h)]
  <2>1. \A x \in ofo[h] : x < snd_nxt[Peer(h)]
    BY DEF IInv, Lists
  <2> QED BY <1>1, <2>1
<1>7. /\ rcv_nxt' \in [Host -> Nat] /\ rcv_nxt[h] <= rcv_nxt'[h] /\ rcv_nxt'[h] <= snd_nxt[Peer(h)]
      /\ rcv_nxt'[Peer(h)] = rcv_nxt[Peer(h)]
      /\ stored' \in [Host -> SUBSET (1 .. Segments)] /\ ofo' \in [Host -> SUBSET (1 .. Segments)]
      /\ ofo'[Peer(h)] = ofo[Peer(h)]
      /\ \A x \in ofo'[h] : x \in ofo[h] \/ x < snd_nxt[Peer(h)]
      /\ unread' \in [Host -> BOOLEAN] /\ notified' \in [Host -> BOOLEAN]
  <2>1. CASE p.seq # rcv_nxt[h]
    <3>1. ofo' = [ofo EXCEPT ![h] = @ \cup {p.seq}] /\ UNCHANGED <<rcv_nxt, stored, unread, notified>>
      BY <1>2, <2>1
    <3>2. ofo'[h] = ofo[h] \cup {p.seq} /\ ofo'[Peer(h)] = ofo[Peer(h)]
          /\ ofo' \in [Host -> SUBSET (1 .. Segments)]
      BY <1>1, <1>3, <3>1
    <3>3. rcv_nxt[h] <= snd_nxt[Peer(h)] /\ rcv_nxt[h] <= rcv_nxt[h]
      BY <1>3
    <3> QED BY <1>1, <1>5, <3>1, <3>2, <3>3
  <2>2. CASE p.seq = rcv_nxt[h]
    <3>1. PICK m \in Nat : /\ m >= seq_end(p)
                           /\ Following(h, seq_end(p)) = seq_end(p) .. m - 1
                           /\ Cardinality(Following(h, seq_end(p))) = m - seq_end(p)
                           /\ Following(h, seq_end(p)) \subseteq ofo[h]
      BY <1>1, <1>3, FollowingInterval
    <3>2. seq_end(p) + Cardinality(Following(h, seq_end(p))) = m
      BY <1>3, <3>1
    <3>3. /\ rcv_nxt' = [rcv_nxt EXCEPT ![h] = m]
          /\ stored' = [stored EXCEPT ![h] = @ \cup {p.seq} \cup Following(h, seq_end(p))]
          /\ ofo' = [ofo EXCEPT ![h] = @ \ Following(h, seq_end(p))]
          /\ unread' = [unread EXCEPT ![h] = TRUE]
          /\ notified' = [notified EXCEPT ![h] = TRUE]
      BY <1>2, <2>2, <3>2 DEF wake_up
    <3>4. m <= snd_nxt[Peer(h)]
      <4>1. CASE m = seq_end(p)
        BY <1>3, <4>1
      <4>2. CASE m # seq_end(p)
        <5>1. m - 1 \in Following(h, seq_end(p))
          BY <1>3, <3>1, <4>2
        <5> QED BY <1>3, <1>6, <3>1, <5>1
      <4> QED BY <4>1, <4>2
    <3>5. rcv_nxt' \in [Host -> Nat] /\ rcv_nxt'[h] = m /\ rcv_nxt'[Peer(h)] = rcv_nxt[Peer(h)]
      BY <1>1, <3>3
    <3>6. rcv_nxt[h] <= m
      BY <1>3, <3>1
    <3>7. Following(h, seq_end(p)) \subseteq 1 .. Segments
      BY <1>1, <3>1
    <3>8. stored' \in [Host -> SUBSET (1 .. Segments)]
      <4>1. stored[h] \cup {p.seq} \cup Following(h, seq_end(p)) \in SUBSET (1 .. Segments)
        BY <1>1, <1>3, <3>7
      <4> QED BY <1>1, <3>3, <4>1
    <3>9. /\ ofo' \in [Host -> SUBSET (1 .. Segments)] /\ ofo'[Peer(h)] = ofo[Peer(h)]
          /\ ofo'[h] \subseteq ofo[h]
      <4>1. ofo[h] \ Following(h, seq_end(p)) \in SUBSET (1 .. Segments)
        BY <1>1
      <4> QED BY <1>1, <3>3, <4>1
    <3>10. unread' \in [Host -> BOOLEAN] /\ notified' \in [Host -> BOOLEAN]
      BY <1>1, <3>3
    <3> QED BY <3>4, <3>5, <3>6, <3>8, <3>9, <3>10
  <2> QED BY <2>1, <2>2
<1>8. PICK a \in Nat : a = rcv_nxt'[h]
  BY <1>7
<1>9. PICK reply \in Seq(PacketType) :
        /\ reply = <<Packet("ACK", snd_nxt[h], a)>>
        /\ \A q \in Range(reply) : /\ q.kind \in PacketKind(h) /\ q.kind # "DATA"
                                   /\ seq_end(q) = snd_nxt[h] /\ q.ack = a
  <2>1. /\ <<Packet("ACK", snd_nxt[h], a)>> \in Seq(PacketType)
        /\ \A q \in Range(<<Packet("ACK", snd_nxt[h], a)>>) :
             /\ q.kind \in PacketKind(h) /\ q.kind # "DATA"
             /\ seq_end(q) = snd_nxt[h] /\ q.ack = a
    BY <1>3, AckReply
  <2> QED BY <2>1
<1>10. Take(h, reply)
  BY <1>2, <1>8, <1>9
<1>11. TypeOK'
  BY <1>1, <1>2, <1>3, <1>4, <1>7, <1>10, ProcessTypes DEF TypeOK
<1>12. \A q \in Range(reply) :
        /\ state[h] \notin {"CLOSED", "SYN_SENT"}
        /\ q.kind \in PacketKind(h) /\ seq_end(q) <= snd_nxt[h] /\ q.ack <= rcv_nxt'[h]
        /\ q.kind = "DATA" => q.seq \in 1 .. Segments
  BY <1>2, <1>3, <1>8, <1>9
<1> QED
  BY <1>2, <1>3, <1>4, <1>7, <1>10, <1>11, <1>12, ProcessStep

(* A packet is taken, or lost, and nothing else happens.                   *)
LEMMA Dropped ==
  ASSUME IInv, TypeOK', NEW h \in Host, wire[h] # <<>>, rx[h] = "idle", Take(h, <<>>),
         UNCHANGED <<state, snd_una, snd_nxt, rcv_nxt, send_buf, hashed, ofo, accept_queue, rx,
                     app, fin>>
  PROVE  IInv'
<1>1. /\ TypeOK /\ Agreement /\ Opening /\ Listening /\ Peer(h) \in Host
      /\ <<>> \in Seq(PacketType) /\ Range(<<>>) = {}
  BY Ends, Replies DEF IInv
<1>2. /\ Range(wire'[h]) \subseteq Range(wire[h])
      /\ Range(wire'[Peer(h)]) = Range(wire[Peer(h)]) \cup Range(<<>>)
      /\ wire[Peer(h)] # <<>> => wire'[Peer(h)] # <<>>
  BY <1>1, Types, TakeWire
<1>3. \A g \in Host : snd_nxt[g] \in Nat /\ rcv_nxt[g] \in Nat
  BY <1>1 DEF TypeOK
<1>4. Grows
  BY <1>3 DEF Grows
<1>5. \A g \in Host : \A p \in Range(wire'[g]) : p \in Range(wire[g])
  <2> TAKE g \in Host
  <2>1. CASE g = h
    BY <1>2, <2>1
  <2>2. CASE g = Peer(h)
    BY <1>1, <1>2, <2>2
  <2> QED BY <2>1, <2>2, Ends
<1>6. Opening'
  <2>1. rx["client"] = "synack" => wire'["client"] # <<>>
    BY <1>1, <1>2, Ends DEF Opening
  <2> QED BY <1>1, <2>1 DEF Opening
<1>7. Listening'
  BY <1>1 DEF Listening
<1>8. snd_una'[h] <= rcv_nxt[Peer(h)] /\ rcv_nxt'[h] <= snd_nxt[Peer(h)]
  BY <1>1 DEF Agreement
<1>9. \A x \in Nat : ~(snd_nxt[h] <= x /\ x < snd_nxt'[h])
  BY <1>3
<1> QED
  BY <1>4, <1>5, <1>6, <1>7, <1>8, <1>9, RecvStep

(* A packet that is ignored, and one that is lost.                         *)
LEMMA StepIgnore ==
  ASSUME IInv, NEW h \in Host, Ignore(h)
  PROVE  IInv'
<1>1. TypeOK /\ <<>> \in Seq(PacketType)
  BY Replies DEF IInv
<1>2. /\ wire[h] # <<>> /\ rx[h] = "idle" /\ Take(h, <<>>)
      /\ UNCHANGED <<state, snd_una, snd_nxt, rcv_nxt, send_buf, hashed, stored, ofo, unread,
                     notified, accept_queue, rx, app, fin, crashed, reset, lost, expired>>
  BY DEF Ignore, Arrived, sockVars, rcvVars, envVars
<1>3. wire' \in [Host -> Seq(PacketType)]
  BY <1>1, <1>2, Types, TakeWire
<1>4. TypeOK'
  BY <1>1, <1>2, <1>3 DEF TypeOK, PacketType
<1> QED BY <1>2, <1>4, Dropped

LEMMA StepLose ==
  ASSUME IInv, NEW h \in Host, Lose(h)
  PROVE  IInv'
<1>1. TypeOK /\ <<>> \in Seq(PacketType)
  BY Replies DEF IInv
<1>2. /\ wire[h] # <<>> /\ rx[h] = "idle" /\ Take(h, <<>>)
      /\ lost < MaxLoss /\ lost' = lost + 1
      /\ UNCHANGED <<state, snd_una, snd_nxt, rcv_nxt, send_buf, hashed, stored, ofo, unread,
                     notified, accept_queue, rx, app, fin, crashed, reset, expired>>
  BY DEF Lose, sockVars, rcvVars
<1>3. wire' \in [Host -> Seq(PacketType)]
  BY <1>1, <1>2, Types, TakeWire
<1>4. lost' \in 0 .. MaxLoss
  <2>1. lost \in 0 .. MaxLoss /\ MaxLoss \in Nat
    BY <1>1, BoundAssumption DEF TypeOK
  <2>2. lost < MaxLoss /\ lost' = lost + 1
    BY <1>2
  <2> QED BY <2>1, <2>2
<1>5. TypeOK'
  BY <1>1, <1>2, <1>3, <1>4 DEF TypeOK, PacketType
<1> QED BY <1>2, <1>5, Dropped

(* A RST closes the sock, which may send its FIN on the way.               *)
LEMMA StepReset ==
  ASSUME IInv, NEW h \in Host, Reset(h)
  PROVE  IInv'
<1>1. /\ TypeOK /\ Agreement /\ Opening /\ Listening /\ Peer(h) \in Host /\ Peer(h) # h
      /\ <<>> \in Seq(PacketType) /\ Range(<<>>) = {}
  BY Ends, Replies DEF IInv
<1>2. PICK p \in Arrived(h) :
        /\ hashed[h]
        /\ IF state[h] \in {"ESTABLISHED", "CLOSE_WAIT"}
           THEN /\ Take(h, <<Packet("FIN", snd_nxt[h], rcv_nxt[h])>>)
                /\ send_buf' = [send_buf EXCEPT ![h] = Append(@, Block("FIN", snd_nxt[h]))]
                /\ snd_nxt' = [snd_nxt EXCEPT ![h] = @ + 1]
                /\ state' = [state EXCEPT ![h] = IF @ = "ESTABLISHED" THEN "FIN_WAIT_1" ELSE "LAST_ACK"]
                /\ reset' = TRUE
           ELSE Take(h, <<>>) /\ UNCHANGED <<send_buf, snd_nxt, state, reset>>
        /\ UNCHANGED <<snd_una, rcv_nxt, hashed, stored, ofo, unread, notified, accept_queue, rx,
                       app, fin, crashed, lost, expired>>
  BY DEF Reset, rcvVars
<1>3. wire[h] # <<>> /\ rx[h] = "idle"
  BY <1>1, Taken DEF IInv
<1>4. CASE state[h] \notin {"ESTABLISHED", "CLOSE_WAIT"}
  <2>1. Take(h, <<>>) /\ UNCHANGED <<send_buf, snd_nxt, state, reset>>
    BY <1>2, <1>4
  <2>2. wire' \in [Host -> Seq(PacketType)]
    BY <1>1, <1>3, <2>1, Types, TakeWire
  <2>3. TypeOK'
    BY <1>1, <1>2, <2>1, <2>2 DEF TypeOK, PacketType
  <2> QED BY <1>2, <1>3, <2>1, <2>3, Dropped
<1>5. CASE state[h] \in {"ESTABLISHED", "CLOSE_WAIT"}
  <2>1. PICK n \in Nat : n = snd_nxt[h]
    BY <1>1 DEF TypeOK
  <2>2. rcv_nxt[h] \in Nat
    BY <1>1 DEF TypeOK
  <2>3. PICK b \in BlockType : b = Block("FIN", n) /\ b.kind = "FIN" /\ b.seq = n /\ seq_end(b) = n + 1
    BY MakeBlock DEF Kind, seq_end, Length
  <2>4. PICK q \in PacketType : /\ q = Packet("FIN", n, rcv_nxt[h])
                                /\ q.kind = "FIN" /\ q.ack = rcv_nxt[h] /\ seq_end(q) = n + 1
    BY <2>2, MakePacket DEF Kind, seq_end, Length
  <2>5. /\ Take(h, <<q>>) /\ reset' = TRUE
        /\ send_buf' = [send_buf EXCEPT ![h] = Append(@, b)]
        /\ snd_nxt' = [snd_nxt EXCEPT ![h] = n + 1]
        /\ \E v \in {"FIN_WAIT_1", "LAST_ACK"} : state' = [state EXCEPT ![h] = v]
    BY <1>2, <1>5, <2>1, <2>3, <2>4
  <2>6. <<q>> \in Seq(PacketType) /\ Range(<<q>>) = {q}
    BY Replies
  <2>7. /\ send_buf' \in [Host -> Seq(BlockType)]
        /\ Range(send_buf'[h]) = Range(send_buf[h]) \cup {b}
        /\ send_buf'[Peer(h)] = send_buf[Peer(h)]
    BY <1>1, <2>3, <2>5, Types, Appended
  <2>8. /\ wire' \in [Host -> Seq(PacketType)]
        /\ Range(wire'[h]) \subseteq Range(wire[h])
        /\ Range(wire'[Peer(h)]) = Range(wire[Peer(h)]) \cup {q}
        /\ wire[Peer(h)] # <<>> => wire'[Peer(h)] # <<>>
    BY <1>1, <1>3, <2>5, <2>6, Types, TakeWire
  <2>9. /\ snd_nxt' \in [Host -> Nat] /\ snd_nxt'[h] = n + 1 /\ snd_nxt'[Peer(h)] = snd_nxt[Peer(h)]
    <3>1. snd_nxt \in [Host -> Nat] /\ n + 1 \in Nat
      BY <1>1 DEF TypeOK
    <3> QED BY <1>1, <2>5, <3>1
  <2>10. /\ state' \in [Host -> {"CLOSED", "SYN_SENT", "SYN_RECV", "ESTABLISHED", "CLOSE_WAIT",
                                 "LAST_ACK", "FIN_WAIT_1", "FIN_WAIT_2", "TIME_WAIT"}]
         /\ state'[h] \in {"FIN_WAIT_1", "LAST_ACK"} /\ state'[Peer(h)] = state[Peer(h)]
    BY <1>1, <2>5, StateMoves
  <2>11. TypeOK'
    BY <1>1, <1>2, <2>5, <2>7, <2>8, <2>9, <2>10 DEF TypeOK, PacketType, BlockType
  <2>12. app["client"] \notin Early /\ (~hashed["server"] => h = "client")
    BY <1>1, <1>2, <1>5, Ends DEF Opening
  <2>13. \A g \in Host : snd_nxt[g] \in Nat /\ rcv_nxt[g] \in Nat /\ snd_nxt[g] <= snd_nxt'[g]
    <3> TAKE g \in Host
    <3>1. snd_nxt[g] \in Nat /\ rcv_nxt[g] \in Nat
      BY <1>1 DEF TypeOK
    <3>2. CASE g = h
      BY <2>1, <2>9, <3>1, <3>2
    <3>3. CASE g = Peer(h)
      BY <2>9, <3>1, <3>3
    <3> QED BY <3>1, <3>2, <3>3, Ends
  <2>14. Grows
    BY <1>2, <2>13 DEF Grows
  <2>15. Opening'
    <3>1. rx["client"] = "synack" => wire'["client"] # <<>>
      BY <1>1, <1>3, <2>8, Ends DEF Opening
    <3>2. state'["client"] = state["client"] \/ state'["client"] \notin {"SYN_SENT", "SYN_RECV"}
      BY <2>10, Ends
    <3>3. snd_nxt'["client"] >= 1
      BY <1>1, <2>12, <2>9, <2>13, Ends DEF Opening, Early
    <3>4. app["client"] # "connect"
      BY <2>12 DEF Early
    <3> QED BY <1>1, <1>2, <2>12, <3>1, <3>2, <3>3, <3>4 DEF Opening
  <2>16. Listening'
    <3>1. ~hashed["server"] => /\ snd_nxt'["server"] = snd_nxt["server"]
                               /\ send_buf'["server"] = send_buf["server"]
                               /\ state'["server"] = state["server"]
      BY <2>7, <2>9, <2>10, <2>12, Ends
    <3> QED BY <1>1, <1>2, <3>1 DEF Listening
  <2>17. Sent(h, q)' /\ Held(h, b)'
    <3>1. q.ack <= rcv_nxt'[h]
      BY <1>2, <2>2, <2>4
    <3> QED BY <1>2, <2>3, <2>4, <2>9, <2>12, <3>1 DEF Sent, Held, PacketKind, BlockKind
  <2>18. \A g \in Host : \A r \in Range(wire'[g]) : r \in Range(wire[g]) \/ Sent(Peer(g), r)'
    <3> SUFFICES ASSUME NEW g \in Host, NEW r \in Range(wire'[g])
                 PROVE  r \in Range(wire[g]) \/ Sent(Peer(g), r)'
      OBVIOUS
    <3>1. CASE g = h
      BY <2>8, <3>1
    <3>2. CASE g = Peer(h)
      <4>1. Peer(g) = h
        BY <3>2, Ends
      <4>2. r \in Range(wire[g]) \/ r = q
        BY <2>8, <3>2
      <4> QED BY <2>17, <4>1, <4>2
    <3> QED BY <3>1, <3>2, Ends
  <2>19. \A x \in Nat : snd_nxt[h] <= x /\ x < snd_nxt'[h] => Covered(h, x)'
    <3> TAKE x \in Nat
    <3>1. snd_nxt[h] <= x /\ x < snd_nxt'[h] => x = n
      BY <2>1, <2>9
    <3> QED BY <2>3, <2>7, <3>1 DEF Covered
  <2>20. snd_una'[h] <= rcv_nxt[Peer(h)] /\ rcv_nxt'[h] <= snd_nxt[Peer(h)]
    BY <1>1, <1>2 DEF Agreement
  <2>21. \A c \in Range(send_buf'[h]) : c \in Range(send_buf[h]) \/ Held(h, c)'
    BY <2>7, <2>17
  <2>22. \A c \in Range(send_buf[h]) : c \in Range(send_buf'[h])
    BY <2>7
  <2> QED
    BY <1>1, <1>2, <2>7, <2>9, <2>11, <2>14, <2>15, <2>16, <2>18, <2>19, <2>20, <2>21, <2>22,
       RecvStep
<1> QED BY <1>4, <1>5

(* The server answers the SYN with a new child.                            *)
LEMMA StepListenSyn ==
  ASSUME IInv, ListenSyn
  PROVE  IInv'
<1>1. /\ TypeOK /\ Agreement /\ Lists /\ Opening /\ Listening /\ "server" \in Host
      /\ Peer("server") = "client" /\ "client" \in Host /\ "client" # "server"
  BY Ends DEF IInv
<1>2. PICK p \in Arrived("server") :
        /\ ~hashed["server"] /\ p.kind = "SYN" /\ MovePast("server", p)
        /\ state' = [state EXCEPT !["server"] = "SYN_RECV"]
        /\ hashed' = [hashed EXCEPT !["server"] = TRUE]
        /\ Take("server", <<Packet("SYNACK", 0, seq_end(p))>>)
        /\ snd_nxt' = [snd_nxt EXCEPT !["server"] = 1]
        /\ send_buf' = [send_buf EXCEPT !["server"] = <<Block("SYNACK", 0)>>]
        /\ UNCHANGED <<snd_una, stored, ofo, unread, notified, accept_queue, rx, app, fin, crashed,
                       reset, lost, expired>>
  BY DEF ListenSyn, rcvVars, envVars
<1>3. p \in PacketType /\ wire["server"] # <<>> /\ Sent("client", p)
  BY <1>1, <1>2, Taken
<1>4. PICK e \in Nat : e = seq_end(p) /\ e <= snd_nxt["client"]
  BY <1>3, PacketFields DEF Sent
<1>5. PICK q \in PacketType : /\ q = Packet("SYNACK", 0, e) /\ q.kind = "SYNACK" /\ q.ack = e
                              /\ seq_end(q) = 1
  BY MakePacket DEF Kind, seq_end, Length
<1>6. PICK b \in BlockType : b = Block("SYNACK", 0) /\ b.kind = "SYNACK" /\ b.seq = 0 /\ seq_end(b) = 1
  BY MakeBlock DEF Kind, seq_end, Length
<1>7. /\ Take("server", <<q>>) /\ <<q>> \in Seq(PacketType) /\ Range(<<q>>) = {q}
      /\ send_buf' = [send_buf EXCEPT !["server"] = <<b>>]
      /\ <<b>> \in Seq(BlockType)
  BY <1>2, <1>4, <1>5, <1>6, Replies
<1>8. /\ wire' \in [Host -> Seq(PacketType)]
      /\ Range(wire'["server"]) \subseteq Range(wire["server"])
      /\ Range(wire'["client"]) = Range(wire["client"]) \cup {q}
      /\ wire["client"] # <<>> => wire'["client"] # <<>>
  BY <1>1, <1>3, <1>7, Types, TakeWire
<1>9. /\ send_buf' \in [Host -> Seq(BlockType)] /\ send_buf'["server"] = <<b>>
      /\ send_buf'["client"] = send_buf["client"]
  <2>1. send_buf \in [Host -> Seq(BlockType)]
    BY <1>1, Types
  <2> QED BY <1>1, <1>7, <2>1
<1>10. Range(send_buf'["server"]) = {b}
  BY <1>7, <1>9, Elements
<1>11. /\ rcv_nxt' \in [Host -> Nat] /\ rcv_nxt'["server"] = e /\ rcv_nxt'["client"] = rcv_nxt["client"]
  BY <1>1, <1>2, <1>3, <1>4, MovesPast
<1>12. /\ snd_nxt' \in [Host -> Nat] /\ snd_nxt'["server"] = 1 /\ snd_nxt'["client"] = snd_nxt["client"]
       /\ hashed' \in [Host -> BOOLEAN] /\ hashed'["server"] /\ hashed'["client"] = hashed["client"]
  BY <1>1, <1>2 DEF TypeOK
<1>13. /\ state' \in [Host -> {"CLOSED", "SYN_SENT", "SYN_RECV", "ESTABLISHED", "CLOSE_WAIT",
                               "LAST_ACK", "FIN_WAIT_1", "FIN_WAIT_2", "TIME_WAIT"}]
       /\ state'["server"] = "SYN_RECV" /\ state'["client"] = state["client"]
  BY <1>1, <1>2, StateMoves
<1>14. TypeOK'
  BY <1>1, <1>2, <1>8, <1>9, <1>11, <1>12, <1>13 DEF TypeOK, PacketType, BlockType
<1>15. /\ snd_nxt["server"] = 0 /\ rcv_nxt["server"] = 0 /\ send_buf["server"] = <<>>
  BY <1>1, <1>2 DEF Listening
<1>16. \A g \in Host : snd_nxt[g] <= snd_nxt'[g] /\ rcv_nxt[g] <= rcv_nxt'[g]
  <2>1. snd_nxt["client"] \in Nat /\ rcv_nxt["client"] \in Nat
    BY <1>1 DEF TypeOK
  <2> QED BY <1>11, <1>12, <1>15, <2>1, Ends
<1>17. Grows
  BY <1>2, <1>16 DEF Grows
<1>18. Opening'
  BY <1>1, <1>2, <1>8, <1>11, <1>12, <1>13 DEF Opening
<1>19. Listening'
  BY <1>12 DEF Listening
<1>20. Sent("server", q)' /\ Held("server", b)'
  BY <1>5, <1>6, <1>11, <1>12, Ends DEF Sent, Held, PacketKind, BlockKind
<1>21. q.ack <= rcv_nxt'["server"]
  BY <1>5, <1>11
<1>22. \A g \in Host : \A r \in Range(wire'[g]) : r \in Range(wire[g]) \/ Sent(Peer(g), r)'
  <2> SUFFICES ASSUME NEW g \in Host, NEW r \in Range(wire'[g])
               PROVE  r \in Range(wire[g]) \/ Sent(Peer(g), r)'
    OBVIOUS
  <2>1. CASE g = "server"
    BY <1>8, <2>1
  <2>2. CASE g = "client"
    <3>1. Peer(g) = "server"
      BY <2>2, Ends
    <3>2. r \in Range(wire[g]) \/ r = q
      BY <1>8, <2>2
    <3> QED BY <1>20, <3>1, <3>2
  <2> QED BY <2>1, <2>2, Ends
<1>23. \A x \in Nat : snd_nxt["server"] <= x /\ x < snd_nxt'["server"] => Covered("server", x)'
  <2> TAKE x \in Nat
  <2>1. snd_nxt["server"] <= x /\ x < snd_nxt'["server"] => x = 0
    BY <1>12, <1>15
  <2> QED BY <1>6, <1>10, <2>1 DEF Covered
<1>24. snd_una'["server"] <= rcv_nxt["client"] /\ rcv_nxt'["server"] <= snd_nxt["client"]
  BY <1>1, <1>2, <1>4, <1>11 DEF Agreement
<1>25. \A c \in Range(send_buf'["server"]) : Held("server", c)'
  BY <1>10, <1>20
<1>26. Range(send_buf["server"]) = {}
  BY <1>15, Replies
<1>27. /\ ofo' = ofo /\ fin' = fin /\ app' = app /\ snd_una' = snd_una
  BY <1>2
<1> QED
  BY <1>1, <1>9, <1>11, <1>12, <1>14, <1>17, <1>18, <1>19, <1>22, <1>23, <1>24, <1>25, <1>26,
     <1>27, RecvStep

(* The SYN|ACK wakes tcp_sock_connect, and establishes afterwards.         *)
LEMMA StepSynAckWakes ==
  ASSUME IInv, SynAckWakes
  PROVE  IInv'
<1>1. /\ TypeOK /\ Agreement /\ Lists /\ Opening /\ Listening /\ "server" \in Host
      /\ Peer("client") = "server" /\ "client" \in Host /\ "client" # "server"
  BY Ends DEF IInv
<1>2. PICK p \in Arrived("client") :
        /\ hashed["client"] /\ p.kind = "SYNACK" /\ state["client"] = "SYN_SENT"
        /\ MovePast("client", p)
        /\ rx' = [rx EXCEPT !["client"] = "synack"]
        /\ app' = [app EXCEPT !["client"] = "write"]
        /\ UNCHANGED <<state, snd_una, snd_nxt, send_buf, hashed, stored, ofo, unread, notified,
                       accept_queue, wire, fin, crashed, reset, lost, expired>>
  BY DEF SynAckWakes, rcvVars, envVars
<1>3. p \in PacketType /\ wire["client"] # <<>> /\ rx["client"] = "idle" /\ Sent("server", p)
  BY <1>1, <1>2, Taken
<1>4. PICK e \in Nat : e = seq_end(p) /\ e <= snd_nxt["server"] /\ e >= 1
  BY <1>2, <1>3, PacketFields DEF Sent, seq_end, Length
<1>5. app["client"] \in Early /\ app["client"] = "connecting"
  BY <1>1, <1>2, <1>3 DEF Opening, Early
<1>6. DOMAIN app' = Host /\ app'["client"] = "write" /\ app'["server"] = app["server"]
  BY <1>1, <1>2, AppMoves
<1>7. /\ rcv_nxt' \in [Host -> Nat] /\ rcv_nxt'["client"] = e /\ rcv_nxt'["server"] = rcv_nxt["server"]
  BY <1>1, <1>2, <1>3, <1>4, MovesPast
<1>8. rx' \in [Host -> {"idle", "synack"}] /\ rx'["client"] = "synack" /\ rx'["server"] = rx["server"]
  BY <1>1, <1>2 DEF TypeOK
<1>9. TypeOK'
  BY <1>1, <1>2, <1>6, <1>7, <1>8 DEF TypeOK
<1>10. \A g \in Host : snd_nxt[g] \in Nat /\ rcv_nxt[g] \in Nat
  BY <1>1 DEF TypeOK
<1>11. Grows
  <2>1. rcv_nxt["client"] <= e
    BY <1>1, <1>4, <1>5, <1>10 DEF Opening
  <2>2. \A g \in Host : rcv_nxt[g] <= rcv_nxt'[g]
    BY <1>7, <1>10, <2>1, Ends
  <2> QED BY <1>2, <1>5, <1>10, <2>2 DEF Grows
<1>12. Opening'
  BY <1>1, <1>2, <1>3, <1>5, <1>6, <1>8 DEF Opening, Early
<1>13. Listening'
  BY <1>1, <1>2, <1>6, <1>7 DEF Listening
<1>14. snd_una'["client"] <= rcv_nxt["server"] /\ rcv_nxt'["client"] <= snd_nxt["server"]
  BY <1>1, <1>2, <1>4, <1>7 DEF Agreement
<1>15. \A x \in Nat : ~(snd_nxt["client"] <= x /\ x < snd_nxt'["client"])
  BY <1>1, <1>2, <1>10
<1>16. /\ \A g \in Host : app[g] \in {"hash", "fin_wait", "last_ack"} => app'[g] = app[g]
       /\ \A g \in Host : app'[g] \in {"fin_wait", "last_ack"} => app[g] = app'[g]
  BY <1>5, <1>6, Ends
<1> QED
  BY <1>1, <1>2, <1>7, <1>9, <1>11, <1>12, <1>13, <1>14, <1>15, <1>16, RecvStep

LEMMA StepSynAckEstablishes ==
  ASSUME IInv, SynAckEstablishes
  PROVE  IInv'
<1>1. /\ TypeOK /\ Agreement /\ Lists /\ Opening /\ Listening /\ "server" \in Host
      /\ Peer("client") = "server" /\ "client" \in Host /\ "client" # "server"
  BY Ends DEF IInv
<1>2. /\ rx["client"] = "synack"
      /\ Take("client", <<Packet("ACK", snd_nxt["client"], rcv_nxt["client"])>>)
      /\ state' = [state EXCEPT !["client"] = "ESTABLISHED"]
      /\ Acked("client", Head(wire["client"]))
      /\ rx' = [rx EXCEPT !["client"] = "idle"]
      /\ UNCHANGED <<snd_nxt, rcv_nxt, hashed, stored, ofo, unread, notified, accept_queue, app,
                     fin, crashed, reset, lost, expired>>
  BY DEF SynAckEstablishes, rcvVars, envVars
<1>3. wire["client"] # <<>> /\ app["client"] \notin Early
  BY <1>1, <1>2 DEF Opening
<1>4. PICK p \in PacketType : p = Head(wire["client"]) /\ Sent("server", p)
  BY <1>1, <1>3, HeadOf
<1>5. \A g \in Host : /\ snd_nxt[g] \in Nat /\ rcv_nxt[g] \in Nat /\ snd_una[g] \in Nat
  BY <1>1 DEF TypeOK
<1>6. p.ack \in Nat /\ p.ack <= rcv_nxt["server"]
  BY <1>4, PacketFields DEF Sent
<1>7. /\ snd_una' \in [Host -> Nat] /\ tcp_free_send_buf("client", p.ack)
      /\ snd_una'["client"] \in {snd_una["client"], p.ack} /\ snd_una'["server"] = snd_una["server"]
  BY <1>1, <1>2, <1>4, SndUnaMoves
<1>8. /\ send_buf' \in [Host -> Seq(BlockType)]
      /\ Range(send_buf'["client"]) = {b \in Range(send_buf["client"]) : seq_end(b) > p.ack}
      /\ send_buf'["server"] = send_buf["server"]
  BY <1>1, <1>6, <1>7, Types, Freed
<1>9. PICK reply \in Seq(PacketType) :
        /\ Take("client", reply)
        /\ \A q \in Range(reply) : /\ q.kind \in PacketKind("client") /\ q.kind # "DATA"
                                   /\ seq_end(q) = snd_nxt["client"] /\ q.ack = rcv_nxt["client"]
  BY <1>1, <1>2, <1>5, MayAck
<1>10. /\ wire' \in [Host -> Seq(PacketType)]
       /\ Range(wire'["client"]) \subseteq Range(wire["client"])
       /\ Range(wire'["server"]) = Range(wire["server"]) \cup Range(reply)
       /\ wire["server"] # <<>> => wire'["server"] # <<>>
  BY <1>1, <1>3, <1>9, Types, TakeWire
<1>11. /\ state' \in [Host -> {"CLOSED", "SYN_SENT", "SYN_RECV", "ESTABLISHED", "CLOSE_WAIT",
                               "LAST_ACK", "FIN_WAIT_1", "FIN_WAIT_2", "TIME_WAIT"}]
       /\ state'["client"] = "ESTABLISHED" /\ state'["server"] = state["server"]
  BY <1>1, <1>2, StateMoves
<1>12. rx' \in [Host -> {"idle", "synack"}] /\ rx'["client"] = "idle" /\ rx'["server"] = rx["server"]
  BY <1>1, <1>2 DEF TypeOK
<1>13. TypeOK'
  BY <1>1, <1>2, <1>7, <1>8, <1>10, <1>11, <1>12 DEF TypeOK, PacketType, BlockType
<1>14. Grows
  BY <1>2, <1>5 DEF Grows
<1>15. Opening'
  BY <1>1, <1>2, <1>3, <1>11, <1>12 DEF Opening, Early
<1>16. Listening'
  BY <1>1, <1>2, <1>8, <1>11 DEF Listening
<1>17. \A q \in Range(reply) : Sent("client", q)'
  <2> TAKE q \in Range(reply)
  <2>1. snd_nxt'["client"] \in Nat /\ rcv_nxt'["client"] \in Nat
        /\ snd_nxt'["client"] = snd_nxt["client"] /\ rcv_nxt'["client"] = rcv_nxt["client"]
        /\ app'["client"] \notin Early
    BY <1>1, <1>2, <1>3, <1>5
  <2>2. seq_end(q) <= snd_nxt'["client"] /\ q.ack <= rcv_nxt'["client"]
    BY <1>9, <2>1
  <2> QED BY <1>9, <2>1, <2>2 DEF Sent
<1>18. \A g \in Host : \A r \in Range(wire'[g]) : r \in Range(wire[g]) \/ Sent(Peer(g), r)'
  <2> SUFFICES ASSUME NEW g \in Host, NEW r \in Range(wire'[g])
               PROVE  r \in Range(wire[g]) \/ Sent(Peer(g), r)'
    OBVIOUS
  <2>1. CASE g = "client"
    BY <1>10, <2>1
  <2>2. CASE g = "server"
    <3>1. Peer(g) = "client"
      BY <2>2, Ends
    <3>2. r \in Range(wire[g]) \/ r \in Range(reply)
      BY <1>10, <2>2
    <3> QED BY <1>17, <3>1, <3>2
  <2> QED BY <2>1, <2>2, Ends
<1>19. \A b \in Range(send_buf["client"]) : b \in Range(send_buf'["client"]) \/ b.seq < rcv_nxt["server"]
  <2> TAKE b \in Range(send_buf["client"])
  <2>1. b \in BlockType /\ Held("client", b)
    BY <1>1, Types, Elements DEF Lists
  <2>2. seq_end(b) = b.seq + 1 /\ b.seq \in Nat
    BY <2>1, PacketFields DEF Held, BlockKind, seq_end, Length
  <2> QED BY <1>1, <1>5, <1>6, <1>8, <2>2
<1>20. snd_una'["client"] <= rcv_nxt["server"] /\ rcv_nxt'["client"] <= snd_nxt["server"]
  BY <1>1, <1>2, <1>6, <1>7 DEF Agreement
<1>21. \A x \in Nat : ~(snd_nxt["client"] <= x /\ x < snd_nxt'["client"])
  BY <1>1, <1>2, <1>5
<1>22. \A b \in Range(send_buf'["client"]) : b \in Range(send_buf["client"])
  BY <1>8
<1> QED
  BY <1>1, <1>2, <1>7, <1>8, <1>13, <1>14, <1>15, <1>16, <1>18, <1>19, <1>20, <1>21, <1>22, RecvStep

-----------------------------------------------------------------------------
(* All actions together.                                                   *)

(* The invariant holds at the start and in every step.                     *)
LEMMA IInvInit == Init => IInv
<1> SUFFICES ASSUME Init
             PROVE  IInv
  OBVIOUS
<1> USE DEF Init
<1>1. TypeOK
  <2>1. /\ snd_una \in [Host -> Nat] /\ snd_nxt \in [Host -> Nat] /\ rcv_nxt \in [Host -> Nat]
        /\ fin \in [Host -> Nat] /\ hashed \in [Host -> BOOLEAN]
        /\ unread \in [Host -> BOOLEAN] /\ notified \in [Host -> BOOLEAN]
    OBVIOUS
  <2>2. <<>> \in Seq(PacketType) /\ <<>> \in Seq(BlockType)
    BY Replies, Elements
  <2>3. /\ send_buf \in [Host -> Seq(BlockType)] /\ wire \in [Host -> Seq(PacketType)]
        /\ stored \in [Host -> SUBSET (1 .. Segments)] /\ ofo \in [Host -> SUBSET (1 .. Segments)]
    BY <2>2
  <2>4. /\ DOMAIN app = Host /\ app["client"] = "connect" /\ app["server"] = "accept"
        /\ state \in [Host -> {"CLOSED"}] /\ rx \in [Host -> {"idle"}]
    BY Ends
  <2>5. lost \in 0 .. MaxLoss /\ expired \in 0 .. MaxTimeout
    BY BoundAssumption
  <2>6. crashed = {} /\ reset \in BOOLEAN /\ accept_queue \in BOOLEAN
    OBVIOUS
  <2> HIDE DEF Init
  <2> QED BY <2>1, <2>3, <2>4, <2>5, <2>6 DEF TypeOK, PacketType, BlockType
<1>2. Agreement
  BY Ends DEF Agreement
<1>3. Lists
  <2>1. \A h \in Host : Range(wire[h]) = {} /\ Range(send_buf[h]) = {} /\ ofo[h] = {}
    BY Replies
  <2>2. \A h \in Host : app[h] \notin {"fin_wait", "last_ack"}
    OBVIOUS
  <2> QED BY <2>1, <2>2 DEF Lists
<1>4. Kept
  BY Ends DEF Kept
<1>5. Opening /\ Listening
  BY DEF Opening, Listening, Host, Early
<1> QED BY <1>1, <1>2, <1>3, <1>4, <1>5 DEF IInv

LEMMA IInvStep == IInv /\ [Next]_vars => IInv'
<1> SUFFICES ASSUME IInv, [Next]_vars
             PROVE  IInv'
  OBVIOUS
<1>1. "client" \in Host /\ "server" \in Host
  BY Ends
<1>2. ASSUME NEW h \in Host, tcp_process(h)
      PROVE  IInv'
  BY <1>2, StepProcessSynRecv, StepProcessAck, StepProcessData, StepProcessFin, StepProcessFinWait1,
     StepProcessLastAck, StepProcessOther, StepIgnore, StepReset DEF tcp_process
<1>3. ASSUME NEW h \in Host, Timer(h)
      PROVE  IInv'
  BY <1>3, StepRetransmit, StepSendReset, QuietSteps, Ends DEF Timer
<1>4. ASSUME NEW h \in Host, CloseSend(h) \/ CloseFinish(h)
      PROVE  IInv'
  BY <1>4, StepCloseSends, StepCloseReturns, StepCloseFinish
<1>5. CASE ClientApp
  BY <1>1, <1>4, <1>5, StepConnectSend, StepConnectHash, StepWrite DEF ClientApp
<1>6. CASE ServerApp
  BY <1>1, <1>4, <1>6, QuietSteps, StepReadSleeps DEF ServerApp
<1>7. CASE ClientRx
  BY <1>1, <1>2, <1>7, QuietSteps, StepSynAckWakes, StepSynAckEstablishes DEF ClientRx
<1>8. CASE ServerRx
  BY <1>1, <1>2, <1>8, StepListenSyn DEF ServerRx
<1>9. CASE Lose("client") \/ Lose("server")
  BY <1>1, <1>9, StepLose
<1>10. CASE UNCHANGED vars
  <2>1. Quiet
    BY <1>10 DEF vars, Quiet
  <2>2. TypeOK'
    BY <1>10 DEF vars, IInv, TypeOK
  <2>3. Opening' /\ Listening'
    BY <1>10 DEF vars, IInv, Opening, Listening
  <2> QED BY <2>1, <2>2, <2>3, QuietStep
<1> QED BY <1>1, <1>3, <1>5, <1>6, <1>7, <1>8, <1>9, <1>10 DEF Next

LEMMA Inductive == Spec => []IInv
BY IInvInit, IInvStep, PTL DEF Spec

(* For any number of segments, losses and expiries: an end never takes for *)
(* acknowledged what the other end has not received, nor receives what the *)
(* other has not numbered; snd_una <= rcv_nxt <= snd_nxt across the        *)
(* connection (tcp_in.c, tcp_sock.c), while each end updates its own       *)
(* numbers before or after its packet is on the wire.                      *)
THEOREM SocksAgree == Spec => []AckAgreement
<1>1. IInv => AckAgreement
  BY DEF IInv, Agreement, AckAgreement
<1> QED BY <1>1, Inductive, PTL

(* For any number of segments, losses and expiries: what the other end has *)
(* not received is in send_buf, or about to be appended to it, so that     *)
(* tcp_free_send_buf never frees what may have to be sent again            *)
(* (tcp_in.c:84-101).                                                      *)
THEOREM WhatIsMissingIsKept == Spec => []UnackedKept
<1>1. IInv => UnackedKept
  <2> SUFFICES ASSUME IInv, NEW h \in Host, NEW x \in rcv_nxt[Peer(h)] .. snd_nxt[h] - 1
               PROVE  Appending(h, x) \/ \E i \in 1 .. Len(send_buf[h]) : send_buf[h][i].seq = x
    BY DEF UnackedKept
  <2>1. TypeOK /\ Peer(h) \in Host /\ send_buf[h] \in Seq(BlockType)
    BY Types, Ends DEF IInv
  <2>2. x \in Nat /\ rcv_nxt[Peer(h)] <= x /\ x < snd_nxt[h]
    BY <2>1 DEF TypeOK
  <2>3. Covered(h, x)
    BY <2>2 DEF IInv, Kept
  <2>4. \A b \in Range(send_buf[h]) : \E i \in 1 .. Len(send_buf[h]) : b = send_buf[h][i]
    BY <2>1, RangeOf
  <2> QED BY <2>3, <2>4 DEF Covered
<1> QED BY <1>1, Inductive, PTL

-----------------------------------------------------------------------------
(* No hole in the data.                                                    *)

(* The server has received the FIN of the client, or its application knows *)
(* of it.                                                                  *)
Late == {"CLOSE_WAIT", "LAST_ACK", "FIN_WAIT_1", "FIN_WAIT_2", "TIME_WAIT"}
Done == {"eof", "fin_wait", "last_ack", "closed"}

(* The FIN of the client comes after all its segments.                     *)
FinIsLast ==
  /\ \A p \in Range(wire["server"]) : p.kind = "FIN" => p.seq > Segments
  /\ \A b \in Range(send_buf["client"]) : b.kind = "FIN" => b.seq > Segments
  /\ app["client"] \in {"fin_wait", "last_ack"} => fin["client"] > Segments
  /\ state["server"] \in Late \/ app["server"] \in Done => rcv_nxt["server"] > Segments

(* Nothing is stored before the connection is established, and at the      *)
(* client never.                                                           *)
StoredLater ==
  /\ stored["client"] = {}
  /\ state["server"] = "SYN_RECV" \/ ~hashed["server"] => stored["server"] = {}

(* The inductive invariant behind NoLaterHole.                             *)
DataInv == IInv /\ (~reset => FinIsLast) /\ StoredLater /\ NoLaterHole

(* What a step has to satisfy to preserve it.                              *)
LEMMA OrderlyStep ==
  ASSUME DataInv, IInv', stored'["client"] = {},
         state'["server"] = "SYN_RECV" \/ ~hashed'["server"] => stored'["server"] = {},
         ~reset' =>
           /\ ~reset
           /\ \A p \in Range(wire'["server"]) :
                p.kind = "FIN" => p \in Range(wire["server"]) \/ p.seq > Segments
           /\ \A b \in Range(send_buf'["client"]) : b.kind = "FIN" =>
                b.seq > Segments \/ \E c \in Range(send_buf["client"]) : c.kind = "FIN" /\ c.seq = b.seq
           /\ app'["client"] \in {"fin_wait", "last_ack"} =>
                \/ fin'["client"] > Segments
                \/ app["client"] \in {"fin_wait", "last_ack"} /\ fin'["client"] = fin["client"]
           /\ state'["server"] \in Late \/ app'["server"] \in Done =>
                rcv_nxt'["server"] > Segments \/ state["server"] \in Late \/ app["server"] \in Done
           /\ rcv_nxt["server"] <= rcv_nxt'["server"]
           /\ \/ stored'["server"] = {}
              \/ /\ stored'["server"] = stored["server"]
                 /\ rcv_nxt'["server"] = rcv_nxt["server"] \/ rcv_nxt["server"] > Segments
              \/ \E m \in Nat : /\ stored'["server"] = stored["server"] \cup (rcv_nxt["server"] .. m - 1)
                                /\ rcv_nxt'["server"] = m /\ rcv_nxt["server"] <= m
  PROVE  DataInv'
<1>1. /\ rcv_nxt["server"] \in Nat /\ rcv_nxt'["server"] \in Nat /\ Segments \in Nat
      /\ stored["server"] \in SUBSET (1 .. Segments) /\ stored'["server"] \in SUBSET (1 .. Segments)
  <2>1. TypeOK /\ TypeOK' /\ "server" \in Host
    BY Ends DEF DataInv, IInv
  <2>2. rcv_nxt["server"] \in Nat /\ stored["server"] \in SUBSET (1 .. Segments)
    BY <2>1, Types
  <2>3. rcv_nxt'["server"] \in Nat /\ stored'["server"] \in SUBSET (1 .. Segments)
    BY <2>1 DEF TypeOK
  <2> QED BY <2>2, <2>3, BoundAssumption
<1>2. ~reset' => FinIsLast'
  BY <1>1 DEF DataInv, FinIsLast
<1>3. StoredLater'
  BY DEF StoredLater
<1>4. NoLaterHole'
  <2> SUFFICES ASSUME ~reset', NEW h \in Host, NEW x \in stored'[h], NEW y \in x .. rcv_nxt'[h] - 1,
                      y <= Segments
               PROVE  y \in stored'[h]
    BY DEF NoLaterHole
  <2>1. h = "server"
    BY Ends
  <2>2. x \in Nat /\ x >= 1 /\ y \in Nat /\ x <= y /\ y < rcv_nxt'["server"]
    BY <1>1, <2>1
  <2>3. x \in stored["server"] /\ y < rcv_nxt["server"] => y \in stored["server"]
    <3> SUFFICES ASSUME x \in stored["server"], y < rcv_nxt["server"]
                 PROVE  y \in stored["server"]
      OBVIOUS
    <3>1. y \in {z \in x .. rcv_nxt["server"] - 1 : z <= Segments}
      BY <1>1, <2>2
    <3>2. {z \in x .. rcv_nxt["server"] - 1 : z <= Segments} \subseteq stored["server"]
      BY Ends DEF DataInv, NoLaterHole
    <3> QED BY <3>1, <3>2
  <2>4. CASE /\ stored'["server"] = stored["server"]
             /\ rcv_nxt'["server"] = rcv_nxt["server"] \/ rcv_nxt["server"] > Segments
    BY <1>1, <2>1, <2>2, <2>3, <2>4
  <2>5. ASSUME NEW m \in Nat, stored'["server"] = stored["server"] \cup (rcv_nxt["server"] .. m - 1),
               rcv_nxt'["server"] = m
        PROVE  y \in stored'[h]
    <3>1. CASE y < rcv_nxt["server"]
      <4>1. x \notin rcv_nxt["server"] .. m - 1
        BY <1>1, <2>2, <3>1
      <4> QED BY <2>1, <2>3, <2>5, <3>1, <4>1
    <3>2. CASE ~(y < rcv_nxt["server"])
      <4>1. y \in rcv_nxt["server"] .. m - 1
        BY <1>1, <2>2, <2>5, <3>2
      <4> QED BY <2>1, <2>5, <4>1
    <3> QED BY <3>1, <3>2
  <2>6. stored'["server"] # {}
    BY <2>1
  <2> QED BY <2>4, <2>5, <2>6
<1> QED BY <1>2, <1>3, <1>4 DEF DataInv

(* A step that leaves what the server has received as it is.               *)
LEMMA NothingReceived ==
  ASSUME DataInv, IInv', stored' = stored, rcv_nxt'["server"] = rcv_nxt["server"],
         hashed["server"] => hashed'["server"],
         state'["server"] = state["server"] \/ state'["server"] # "SYN_RECV",
         ~reset' =>
           /\ ~reset
           /\ \A p \in Range(wire'["server"]) :
                p.kind = "FIN" => p \in Range(wire["server"]) \/ p.seq > Segments
           /\ \A b \in Range(send_buf'["client"]) : b.kind = "FIN" =>
                b.seq > Segments \/ \E c \in Range(send_buf["client"]) : c.kind = "FIN" /\ c.seq = b.seq
           /\ app'["client"] \in {"fin_wait", "last_ack"} =>
                \/ fin'["client"] > Segments
                \/ app["client"] \in {"fin_wait", "last_ack"} /\ fin'["client"] = fin["client"]
           /\ state'["server"] \in Late \/ app'["server"] \in Done =>
                state["server"] \in Late \/ app["server"] \in Done
  PROVE  DataInv'
<1>1. rcv_nxt["server"] \in Nat
  BY Ends DEF DataInv, IInv, TypeOK
<1>2. /\ stored'["client"] = {}
      /\ state'["server"] = "SYN_RECV" \/ ~hashed'["server"] => stored'["server"] = {}
      /\ stored'["server"] = stored["server"]
  BY DEF DataInv, StoredLater
<1>3. rcv_nxt["server"] <= rcv_nxt'["server"]
  BY <1>1
<1> QED BY <1>2, <1>3, OrderlyStep

(* In particular one that sends and keeps nothing either.                  *)
LEMMA NothingSent ==
  ASSUME DataInv, IInv', UNCHANGED <<stored, rcv_nxt, hashed, reset, wire, send_buf, fin>>,
         app'["client"] = app["client"],
         state'["server"] = state["server"] \/ state'["server"] # "SYN_RECV",
         state'["server"] \in Late \/ app'["server"] \in Done =>
           state["server"] \in Late \/ app["server"] \in Done
  PROVE  DataInv'
BY NothingReceived

(* The steps of an application in which nothing moves.                     *)
LEMMA OrderlyApp ==
  ASSUME DataInv, IInv', Accept \/ ReadBytes \/ ReadReturnsZero \/ ReadWakes \/ LookupFails
                      \/ TimeWaitExpires("client") \/ TimeWaitExpires("server") \/ UNCHANGED vars
  PROVE  DataInv'
<1>1. TypeOK
  BY DEF DataInv, IInv
<1>2. CASE Accept
  <2>1. /\ UNCHANGED <<stored, rcv_nxt, hashed, reset, wire, send_buf, fin>>
        /\ app'["client"] = app["client"] /\ app'["server"] = "read" /\ state'["server"] = "ESTABLISHED"
    BY <1>1, <1>2, Ends DEF Accept, rcvVars, envVars, TypeOK
  <2> QED BY <2>1, NothingSent DEF Late, Done
<1>3. CASE ReadBytes \/ LookupFails
  BY <1>3, NothingSent DEF ReadBytes, LookupFails, sockVars, rcvVars, envVars
<1>4. CASE ReadReturnsZero
  <2>1. /\ UNCHANGED <<stored, rcv_nxt, hashed, reset, wire, send_buf, fin, state>>
        /\ app'["client"] = app["client"] /\ state["server"] = "CLOSE_WAIT"
    BY <1>1, <1>4, Ends DEF ReadReturnsZero, sockVars, rcvVars, envVars, TypeOK
  <2> QED BY <2>1, NothingSent DEF Late
<1>5. CASE ReadWakes
  <2>1. /\ UNCHANGED <<stored, rcv_nxt, hashed, reset, wire, send_buf, fin, state>>
        /\ app'["client"] = app["client"] /\ app'["server"] = "read"
    BY <1>1, <1>5, Ends DEF ReadWakes, sockVars, envVars, TypeOK
  <2> QED BY <2>1, NothingSent DEF Done
<1>6. ASSUME NEW h \in Host, TimeWaitExpires(h)
      PROVE  DataInv'
  <2>1. /\ UNCHANGED <<stored, rcv_nxt, hashed, reset, wire, send_buf, fin, app>>
        /\ state'["server"] = state["server"]
    BY <1>1, <1>6, Ends DEF TimeWaitExpires, rcvVars, TypeOK
  <2> QED BY <2>1, NothingSent
<1>7. CASE UNCHANGED vars
  BY <1>7, NothingSent DEF vars
<1> QED BY <1>2, <1>3, <1>4, <1>5, <1>6, <1>7, Ends

(* A FIN reaches the wire of the server after the segments only.           *)
LEMMA ServersWire ==
  ASSUME TypeOK, NEW h \in Host, NEW p \in PacketType, Send(h, p),
         h = "client" /\ p.kind = "FIN" => p.seq > Segments
  PROVE  \A q \in Range(wire'["server"]) :
           q.kind = "FIN" => q \in Range(wire["server"]) \/ q.seq > Segments
<1>1. /\ wire'[h] = wire[h]
      /\ Range(wire'[Peer(h)]) = Range(wire[Peer(h)]) \cup {p}
  BY Types, SendWire
<1>2. CASE h = "server"
  BY <1>1, <1>2
<1>3. CASE h = "client"
  <2>1. Range(wire'["server"]) = Range(wire["server"]) \cup {p}
    BY <1>1, <1>3, Ends
  <2> QED BY <1>3, <2>1
<1> QED BY <1>2, <1>3, Ends

(* The applications and the timer, one lemma for each action.              *)
LEMMA OrderlyConnectSend ==
  ASSUME DataInv, IInv', ConnectSend
  PROVE  DataInv'
<1>1. TypeOK /\ "client" \in Host
  BY Ends DEF DataInv, IInv
<1>2. PICK p \in PacketType : p = Packet("SYN", 0, 0) /\ p.kind = "SYN"
  BY MakePacket DEF Kind
<1>3. /\ Send("client", p) /\ app' = [app EXCEPT !["client"] = "hash"]
      /\ state' = [state EXCEPT !["client"] = "SYN_SENT"]
      /\ UNCHANGED <<stored, rcv_nxt, hashed, reset, send_buf, fin>>
  BY <1>2 DEF ConnectSend, rcvVars, envVars
<1>4. \A q \in Range(wire'["server"]) :
        q.kind = "FIN" => q \in Range(wire["server"]) \/ q.seq > Segments
  BY <1>1, <1>2, <1>3, ServersWire
<1>5. app'["client"] = "hash" /\ app'["server"] = app["server"] /\ state'["server"] = state["server"]
  BY <1>1, <1>3, Ends DEF TypeOK
<1> QED BY <1>3, <1>4, <1>5, NothingReceived

LEMMA OrderlyConnectHash ==
  ASSUME DataInv, IInv', ConnectHash
  PROVE  DataInv'
<1>1. TypeOK /\ "client" \in Host
  BY Ends DEF DataInv, IInv
<1>2. PICK b \in BlockType : b = Block("SYN", 0) /\ b.kind = "SYN"
  BY MakeBlock DEF Kind
<1>3. /\ send_buf' = [send_buf EXCEPT !["client"] = Append(@, b)]
      /\ app' = [app EXCEPT !["client"] = "connecting"]
      /\ hashed' = [hashed EXCEPT !["client"] = TRUE]
      /\ UNCHANGED <<stored, rcv_nxt, state, reset, wire, fin>>
  BY <1>2 DEF ConnectHash, rcvVars, envVars
<1>4. Range(send_buf'["client"]) = Range(send_buf["client"]) \cup {b}
  BY <1>1, <1>3, Types, Appended
<1>5. app'["client"] = "connecting" /\ app'["server"] = app["server"]
      /\ hashed'["server"] = hashed["server"]
  BY <1>1, <1>3, Ends DEF TypeOK
<1>6. \A c \in Range(send_buf'["client"]) : c.kind = "FIN" => c \in Range(send_buf["client"])
  BY <1>2, <1>4
<1> QED BY <1>3, <1>5, <1>6, NothingReceived

LEMMA OrderlyWrite ==
  ASSUME DataInv, IInv', Write
  PROVE  DataInv'
<1>1. TypeOK /\ "client" \in Host
  BY Ends DEF DataInv, IInv
<1>2. snd_nxt["client"] \in Nat /\ rcv_nxt["client"] \in Nat
  BY <1>1, Types
<1>3. PICK p \in PacketType : /\ p = Packet("DATA", snd_nxt["client"], rcv_nxt["client"])
                              /\ p.kind = "DATA"
  BY <1>2, MakePacket DEF Kind
<1>4. PICK b \in BlockType : b = Block("DATA", snd_nxt["client"]) /\ b.kind = "DATA"
  BY <1>2, MakeBlock DEF Kind
<1>5. /\ Send("client", p) /\ send_buf' = [send_buf EXCEPT !["client"] = Append(@, b)]
      /\ UNCHANGED <<stored, rcv_nxt, hashed, state, app, reset, fin>>
  BY <1>3, <1>4 DEF Write, rcvVars, envVars
<1>6. \A q \in Range(wire'["server"]) :
        q.kind = "FIN" => q \in Range(wire["server"]) \/ q.seq > Segments
  BY <1>1, <1>3, <1>5, ServersWire
<1>7. Range(send_buf'["client"]) = Range(send_buf["client"]) \cup {b}
  BY <1>1, <1>5, Types, Appended
<1>8. \A c \in Range(send_buf'["client"]) : c.kind = "FIN" => c \in Range(send_buf["client"])
  BY <1>4, <1>7
<1> QED BY <1>5, <1>6, <1>8, NothingReceived

LEMMA OrderlyCloseSend ==
  ASSUME DataInv, IInv', NEW h \in Host, CloseSend(h)
  PROVE  DataInv'
<1>1. TypeOK /\ Segments \in Nat
  BY BoundAssumption DEF DataInv, IInv
<1>2. /\ (app[h] = "write" /\ ~MoreToWrite) \/ app[h] = "eof"
      /\ UNCHANGED <<state, send_buf, stored, rcv_nxt, hashed, reset>>
  BY DEF CloseSend, rcvVars, envVars
<1>3. h = "client" => snd_nxt["client"] > Segments
  <2>1. app["client"] # "eof"
    BY <1>1 DEF TypeOK
  <2>2. h = "client" => ~(snd_nxt["client"] <= Segments) /\ snd_nxt["client"] \in Nat
    BY <1>1, <1>2, <2>1, Types DEF MoreToWrite
  <2> QED BY <1>1, <2>2
<1>4. h = "server" => app["server"] \in Done
  BY <1>1, <1>2 DEF Done, TypeOK
<1>5. CASE state[h] \in {"ESTABLISHED", "CLOSE_WAIT"}
  <2>1. PICK n \in Nat : n = snd_nxt[h]
    BY <1>1, Types
  <2>2. rcv_nxt[h] \in Nat
    BY <1>1, Types
  <2>3. PICK p \in PacketType : p = Packet("FIN", n, rcv_nxt[h]) /\ p.seq = n
    BY <2>2, MakePacket DEF Kind
  <2>4. /\ Send(h, p) /\ fin' = [fin EXCEPT ![h] = n]
        /\ app' = [app EXCEPT ![h] = IF state[h] = "ESTABLISHED" THEN "fin_wait" ELSE "last_ack"]
    BY <1>5, <2>1, <2>3 DEF CloseSend
  <2>5. \A q \in Range(wire'["server"]) :
          q.kind = "FIN" => q \in Range(wire["server"]) \/ q.seq > Segments
    BY <1>1, <1>3, <2>1, <2>3, <2>4, ServersWire
  <2>6. app'[Peer(h)] = app[Peer(h)]
    BY <1>1, <2>4, AppMoves
  <2>7. fin'[h] = n /\ fin'[Peer(h)] = fin[Peer(h)]
    BY <1>1, <2>4, Ends DEF TypeOK
  <2>8. CASE h = "client"
    BY <1>2, <1>3, <2>1, <2>5, <2>6, <2>7, <2>8, NothingReceived, Ends
  <2>9. CASE h = "server"
    BY <1>2, <1>4, <2>5, <2>6, <2>7, <2>9, NothingReceived, Ends
  <2> QED BY <2>8, <2>9, Ends
<1>6. CASE state[h] \notin {"ESTABLISHED", "CLOSE_WAIT"}
  <2>1. app' = [app EXCEPT ![h] = "closed"] /\ UNCHANGED <<wire, fin>>
    BY <1>6 DEF CloseSend
  <2>2. app'[h] = "closed" /\ app'[Peer(h)] = app[Peer(h)]
    BY <1>1, <2>1, AppMoves
  <2>3. CASE h = "client"
    BY <1>2, <2>1, <2>2, <2>3, NothingReceived, Ends
  <2>4. CASE h = "server"
    BY <1>2, <1>4, <2>1, <2>2, <2>4, NothingReceived, Ends
  <2> QED BY <2>3, <2>4, Ends
<1> QED BY <1>5, <1>6

LEMMA OrderlyCloseFinish ==
  ASSUME DataInv, IInv', NEW h \in Host, CloseFinish(h)
  PROVE  DataInv'
<1>1. TypeOK
  BY DEF DataInv, IInv
<1>2. PICK b \in BlockType : b = Block("FIN", fin[h]) /\ b.seq = fin[h]
  BY <1>1, Types, MakeBlock DEF Kind
<1>3. /\ app[h] \in {"fin_wait", "last_ack"} /\ app' = [app EXCEPT ![h] = "closed"]
      /\ send_buf' = [send_buf EXCEPT ![h] = Append(@, b)]
      /\ state' = [state EXCEPT ![h] = IF app[h] = "fin_wait" THEN "FIN_WAIT_1" ELSE "LAST_ACK"]
      /\ UNCHANGED <<stored, rcv_nxt, hashed, reset, wire, fin>>
  BY <1>2 DEF CloseFinish, rcvVars, envVars
<1>4. app'[h] = "closed" /\ app'[Peer(h)] = app[Peer(h)]
  BY <1>1, <1>3, AppMoves
<1>5. /\ Range(send_buf'[h]) = Range(send_buf[h]) \cup {b}
      /\ send_buf'[Peer(h)] = send_buf[Peer(h)]
  BY <1>1, <1>2, <1>3, Types, Appended
<1>6. state'[h] \in {"FIN_WAIT_1", "LAST_ACK"} /\ state'[Peer(h)] = state[Peer(h)]
  BY <1>1, <1>3, Ends DEF TypeOK
<1>7. CASE h = "client"
  <2>1. ~reset => fin["client"] > Segments
    BY <1>3, <1>7 DEF DataInv, FinIsLast
  <2>2. ~reset => \A c \in Range(send_buf'["client"]) : c \in Range(send_buf["client"]) \/ c.seq > Segments
    BY <1>2, <1>5, <1>7, <2>1
  <2> QED BY <1>3, <1>4, <1>6, <1>7, <2>2, NothingReceived, Ends
<1>8. CASE h = "server"
  <2>1. app["server"] \in Done
    BY <1>3, <1>8 DEF Done
  <2> QED BY <1>3, <1>4, <1>5, <1>6, <1>8, <2>1, NothingReceived, Ends
<1> QED BY <1>7, <1>8, Ends

LEMMA OrderlyReadSleeps ==
  ASSUME DataInv, IInv', ReadSleeps
  PROVE  DataInv'
<1>1. TypeOK /\ "server" \in Host
  BY Ends DEF DataInv, IInv
<1>2. PICK p \in PacketType : p = Packet("ACK", snd_nxt["server"], rcv_nxt["server"])
  BY <1>1, Types, MakePacket DEF Kind
<1>3. /\ Send("server", p) /\ app' = [app EXCEPT !["server"] = "asleep"]
      /\ UNCHANGED <<stored, rcv_nxt, hashed, state, reset, send_buf, fin>>
  BY <1>2 DEF ReadSleeps, sockVars, rcvVars, envVars
<1>4. \A q \in Range(wire'["server"]) :
        q.kind = "FIN" => q \in Range(wire["server"]) \/ q.seq > Segments
  BY <1>1, <1>3, ServersWire
<1>5. app'["server"] = "asleep" /\ app'["client"] = app["client"]
  BY <1>1, <1>3, AppMoves, Ends
<1> QED BY <1>3, <1>4, <1>5, NothingReceived DEF Done

LEMMA OrderlySendReset ==
  ASSUME DataInv, IInv', NEW h \in Host, SendReset(h)
  PROVE  DataInv'
<1>1. TypeOK
  BY DEF DataInv, IInv
<1>2. PICK p \in PacketType : p = Packet("RST", snd_nxt[h], rcv_nxt[h]) /\ p.kind = "RST"
  BY <1>1, Types, MakePacket DEF Kind
<1>3. /\ Send(h, p)
      /\ UNCHANGED <<stored, rcv_nxt, hashed, state, app, reset, send_buf, fin>>
  BY <1>2 DEF SendReset, sockVars, rcvVars, envVars
<1>4. \A q \in Range(wire'["server"]) :
        q.kind = "FIN" => q \in Range(wire["server"]) \/ q.seq > Segments
  BY <1>1, <1>2, <1>3, ServersWire
<1> QED BY <1>3, <1>4, NothingReceived

LEMMA OrderlyRetransmit ==
  ASSUME DataInv, IInv', NEW h \in Host, Retransmit(h)
  PROVE  DataInv'
<1>1. TypeOK /\ send_buf \in [Host -> Seq(BlockType)]
  BY Types DEF DataInv, IInv
<1>2. /\ send_buf[h] # <<>> /\ send_buf[h][1].times < 3
      /\ send_buf' = [send_buf EXCEPT ![h][1].times = @ + 1]
      /\ Send(h, Packet(send_buf[h][1].kind, send_buf[h][1].seq, rcv_nxt[h]))
      /\ UNCHANGED <<stored, rcv_nxt, hashed, state, app, reset, fin>>
  BY DEF Retransmit, MayRetransmit, rcvVars
<1>3. /\ send_buf'[Peer(h)] = send_buf[Peer(h)]
      /\ send_buf[h][1] \in Range(send_buf[h])
      /\ \A c \in Range(send_buf'[h]) : \E b \in Range(send_buf[h]) : c.seq = b.seq /\ c.kind = b.kind
  BY <1>1, <1>2, Counted
<1>4. PICK b \in BlockType : b = send_buf[h][1]
  BY <1>1, <1>3, Elements
<1>5. b.kind \in Kind /\ b.seq \in Nat /\ rcv_nxt[h] \in Nat
  BY <1>1, Types, PacketFields
<1>6. PICK p \in PacketType : p = Packet(b.kind, b.seq, rcv_nxt[h]) /\ p.kind = b.kind /\ p.seq = b.seq
  BY <1>5, MakePacket
<1>7. Send(h, p)
  BY <1>2, <1>4, <1>6
<1>8. ~reset => \A q \in Range(wire'["server"]) :
        q.kind = "FIN" => q \in Range(wire["server"]) \/ q.seq > Segments
  <2> SUFFICES ASSUME ~reset
               PROVE  \A q \in Range(wire'["server"]) :
                        q.kind = "FIN" => q \in Range(wire["server"]) \/ q.seq > Segments
    OBVIOUS
  <2>1. h = "client" /\ p.kind = "FIN" => p.seq > Segments
    BY <1>3, <1>4, <1>6 DEF DataInv, FinIsLast
  <2> QED BY <1>1, <1>7, <2>1, ServersWire
<1>9. \A c \in Range(send_buf'["client"]) :
        \E a \in Range(send_buf["client"]) : c.seq = a.seq /\ c.kind = a.kind
  BY <1>3, Ends
<1>10. \A c \in Range(send_buf'["client"]) : c.kind = "FIN" =>
         \E a \in Range(send_buf["client"]) : a.kind = "FIN" /\ a.seq = c.seq
  BY <1>9
<1> QED BY <1>2, <1>8, <1>10, NothingReceived

(* The same of a packet that is taken off the wire and answered.           *)
LEMMA ServersWireTaken ==
  ASSUME TypeOK, NEW h \in Host, wire[h] # <<>>, NEW reply \in Seq(PacketType), Take(h, reply),
         h = "client" => \A q \in Range(reply) : q.kind = "FIN" => q.seq > Segments
  PROVE  \A q \in Range(wire'["server"]) :
           q.kind = "FIN" => q \in Range(wire["server"]) \/ q.seq > Segments
<1>1. /\ Range(wire'[h]) \subseteq Range(wire[h])
      /\ Range(wire'[Peer(h)]) = Range(wire[Peer(h)]) \cup Range(reply)
  BY Types, TakeWire
<1>2. CASE h = "server"
  BY <1>1, <1>2
<1>3. CASE h = "client"
  <2>1. Range(wire'["server"]) = Range(wire["server"]) \cup Range(reply)
    BY <1>1, <1>3, Ends
  <2> QED BY <1>3, <2>1
<1> QED BY <1>2, <1>3, Ends

(* A host takes a packet, and stores nothing of it.                        *)
LEMMA ProcessOrderly ==
  ASSUME DataInv, IInv', NEW h \in Host, wire[h] # <<>>,
         NEW reply \in Seq(PacketType), Take(h, reply),
         ~reset /\ h = "client" => \A q \in Range(reply) : q.kind = "FIN" => q.seq > Segments,
         \A b \in Range(send_buf'[h]) : b \in Range(send_buf[h]),
         send_buf'[Peer(h)] = send_buf[Peer(h)],
         UNCHANGED <<stored, hashed, reset, app, fin>>,
         state'[Peer(h)] = state[Peer(h)], rcv_nxt'[Peer(h)] = rcv_nxt[Peer(h)],
         state'[h] = state[h] \/ state'[h] # "SYN_RECV",
         h = "server" /\ ~reset =>
           /\ rcv_nxt[h] <= rcv_nxt'[h]
           /\ rcv_nxt'[h] = rcv_nxt[h] \/ rcv_nxt[h] > Segments \/ stored[h] = {}
           /\ state'[h] \in Late => state[h] \in Late \/ app[h] \in Done \/ rcv_nxt'[h] > Segments
  PROVE  DataInv'
<1>1. TypeOK
  BY DEF DataInv, IInv
<1>2. ~reset => \A q \in Range(wire'["server"]) :
        q.kind = "FIN" => q \in Range(wire["server"]) \/ q.seq > Segments
  <2> SUFFICES ASSUME ~reset
               PROVE  \A q \in Range(wire'["server"]) :
                        q.kind = "FIN" => q \in Range(wire["server"]) \/ q.seq > Segments
    OBVIOUS
  <2> QED BY <1>1, ServersWireTaken
<1>3. \A b \in Range(send_buf'["client"]) : b \in Range(send_buf["client"])
  BY Ends
<1>4. CASE h = "client"
  <2>1. rcv_nxt'["server"] = rcv_nxt["server"] /\ state'["server"] = state["server"]
    BY <1>4, Ends
  <2> QED BY <1>2, <1>3, <2>1, NothingReceived
<1>5. CASE h = "server"
  <2>1. /\ stored'["client"] = {} /\ stored' = stored
        /\ state'["server"] = "SYN_RECV" \/ ~hashed'["server"] => stored'["server"] = {}
    BY <1>5 DEF DataInv, StoredLater
  <2> QED BY <1>2, <1>3, <1>5, <2>1, OrderlyStep
<1> QED BY <1>4, <1>5, Ends

(* The FIN the server takes from the wire is the last.                     *)
LEMMA FinTaken ==
  ASSUME DataInv, NEW h \in Host, NEW p \in Arrived(h), h = "server", ~reset, p.kind = "FIN"
  PROVE  p.seq \in Nat /\ p.seq > Segments /\ seq_end(p) = p.seq + 1
<1>1. /\ p \in PacketType /\ wire[h] # <<>> /\ p = Head(wire[h]) /\ wire[h] \in Seq(PacketType)
  BY Taken, Types DEF DataInv, IInv
<1>2. p \in Range(wire["server"])
  BY <1>1, Elements
<1> QED BY <1>1, <1>2, PacketFields DEF DataInv, FinIsLast, seq_end, Length

(* What a step of tcp_process needs, read off once.                        *)
LEMMA ProcessFacts ==
  ASSUME DataInv, NEW h \in Host, NEW p \in Arrived(h), Processes(h, p)
  PROVE  /\ TypeOK /\ p \in PacketType /\ p.ack \in Nat /\ wire[h] # <<>>
         /\ p.seq \in Nat /\ seq_end(p) \in Nat /\ rcv_nxt[h] <= seq_end(p)
         /\ rcv_nxt[h] \in Nat /\ snd_nxt[h] \in Nat /\ Segments \in Nat
         /\ send_buf \in [Host -> Seq(BlockType)]
         /\ h = "server" /\ ~reset /\ state[h] \in Late => rcv_nxt[h] > Segments
BY Processed, Types, BoundAssumption DEF DataInv, IInv, FinIsLast

(* An ACK is no FIN.                                                       *)
LEMMA AckOnly ==
  ASSUME NEW h \in Host, NEW seq \in Nat, NEW ack \in Nat,
         Take(h, <<Packet("ACK", seq, ack)>>) \/ Take(h, <<>>)
  PROVE  \E reply \in Seq(PacketType) :
           Take(h, reply) /\ \A q \in Range(reply) : q.kind # "FIN"
<1>1. CASE Take(h, <<Packet("ACK", seq, ack)>>)
  <2>1. /\ <<Packet("ACK", seq, ack)>> \in Seq(PacketType)
        /\ \A q \in Range(<<Packet("ACK", seq, ack)>>) : q.kind # "FIN"
    BY MakePacket, Replies DEF Kind
  <2> QED BY <1>1, <2>1
<1>2. CASE Take(h, <<>>)
  <2>1. <<>> \in Seq(PacketType) /\ \A q \in Range(<<>>) : FALSE
    BY Replies
  <2> QED BY <1>2, <2>1
<1> QED BY <1>1, <1>2

(* The branches of tcp_process, one lemma each.                            *)
LEMMA OrderlySynRecv ==
  ASSUME DataInv, IInv', NEW h \in Host, ProcessSynRecv(h)
  PROVE  DataInv'
<1>1. PICK p \in Arrived(h) :
        /\ Processes(h, p) /\ state[h] = "SYN_RECV" /\ MovePast(h, p)
        /\ tcp_free_send_buf(h, p.ack)
        /\ \/ /\ p.kind = "FIN" /\ state' = [state EXCEPT ![h] = "CLOSE_WAIT"]
              /\ Take(h, <<Packet("ACK", snd_nxt[h], seq_end(p))>>)
           \/ /\ state' = [state EXCEPT ![h] = "ESTABLISHED"]
              /\ Take(h, <<>>)
        /\ UNCHANGED <<hashed, stored, reset, app, fin>>
  BY DEF ProcessSynRecv, envVars
<1>2. /\ TypeOK /\ p \in PacketType /\ p.ack \in Nat /\ wire[h] # <<>>
      /\ p.seq \in Nat /\ seq_end(p) \in Nat /\ rcv_nxt[h] <= seq_end(p)
      /\ snd_nxt[h] \in Nat /\ Segments \in Nat
      /\ send_buf \in [Host -> Seq(BlockType)]
  BY <1>1, ProcessFacts
<1>3. rcv_nxt'[h] = seq_end(p) /\ rcv_nxt'[Peer(h)] = rcv_nxt[Peer(h)]
  BY <1>1, <1>2, MovesPast
<1>4. /\ state'[Peer(h)] = state[Peer(h)]
      /\ \/ state'[h] = "CLOSE_WAIT" /\ p.kind = "FIN"
         \/ state'[h] = "ESTABLISHED"
  BY <1>1, <1>2, StateMoves
<1>5. PICK reply \in Seq(PacketType) :
        Take(h, reply) /\ \A q \in Range(reply) : q.kind # "FIN"
  BY <1>1, <1>2, AckOnly
<1>6. /\ \A b \in Range(send_buf'[h]) : b \in Range(send_buf[h])
      /\ send_buf'[Peer(h)] = send_buf[Peer(h)]
  BY <1>1, <1>2, Freed
<1>7. h = "server" => stored[h] = {}
  BY <1>1 DEF DataInv, StoredLater
<1>8. h = "server" /\ ~reset /\ p.kind = "FIN" => rcv_nxt'[h] > Segments
  <2>1. h = "server" /\ ~reset /\ p.kind = "FIN" => p.seq > Segments /\ seq_end(p) = p.seq + 1
    BY FinTaken
  <2> QED BY <1>2, <1>3, <2>1
<1> QED
  BY <1>1, <1>2, <1>3, <1>4, <1>5, <1>6, <1>7, <1>8, ProcessOrderly DEF Late

LEMMA OrderlyClosing ==
  ASSUME DataInv, IInv', NEW h \in Host, ProcessFinWait1(h) \/ ProcessLastAck(h)
  PROVE  DataInv'
<1>1. PICK p \in Arrived(h) :
        /\ Processes(h, p) /\ state[h] \in Late /\ MovePast(h, p)
        /\ tcp_free_send_buf(h, p.ack)
        /\ \E v \in {"TIME_WAIT", "FIN_WAIT_2", "CLOSED"} : state' = [state EXCEPT ![h] = v]
        /\ Take(h, <<Packet("ACK", snd_nxt[h], seq_end(p))>>) \/ Take(h, <<>>)
        /\ UNCHANGED <<hashed, stored, reset, app, fin>>
  <2>1. CASE ProcessFinWait1(h)
    BY <2>1 DEF ProcessFinWait1, rcvVars, envVars, Late
  <2>2. CASE ProcessLastAck(h)
    BY <2>2 DEF ProcessLastAck, rcvVars, envVars, Late
  <2> QED BY <2>1, <2>2
<1>2. /\ TypeOK /\ p \in PacketType /\ p.ack \in Nat /\ wire[h] # <<>>
      /\ seq_end(p) \in Nat /\ rcv_nxt[h] <= seq_end(p)
      /\ snd_nxt[h] \in Nat
      /\ send_buf \in [Host -> Seq(BlockType)]
      /\ h = "server" /\ ~reset => rcv_nxt[h] > Segments
  BY <1>1, ProcessFacts
<1>3. rcv_nxt'[h] = seq_end(p) /\ rcv_nxt'[Peer(h)] = rcv_nxt[Peer(h)]
  BY <1>1, <1>2, MovesPast
<1>4. state'[Peer(h)] = state[Peer(h)] /\ state'[h] # "SYN_RECV"
  BY <1>1, <1>2, StateMoves
<1>5. PICK reply \in Seq(PacketType) :
        Take(h, reply) /\ \A q \in Range(reply) : q.kind # "FIN"
  BY <1>1, <1>2, AckOnly
<1>6. /\ \A b \in Range(send_buf'[h]) : b \in Range(send_buf[h])
      /\ send_buf'[Peer(h)] = send_buf[Peer(h)]
  BY <1>1, <1>2, Freed
<1> QED
  BY <1>1, <1>2, <1>3, <1>4, <1>5, <1>6, ProcessOrderly

(* The FIN that is next moves rcv_nxt only when all segments are there.    *)
LEMMA FinIsPastAll ==
  ASSUME DataInv, NEW h \in Host, NEW p \in Arrived(h), h = "server", ~reset, p.kind = "FIN",
         FinIsNext(h, p)
  PROVE  rcv_nxt[h] > Segments
<1>1. p.seq \in Nat /\ p.seq > Segments /\ seq_end(p) = p.seq + 1
  BY FinTaken
<1> QED BY <1>1, BoundAssumption DEF FinIsNext

LEMMA OrderlyFin ==
  ASSUME DataInv, IInv', NEW h \in Host, ProcessFin(h) \/ ProcessOther(h)
  PROVE  DataInv'
<1>1. PICK p \in Arrived(h) :
        /\ Processes(h, p)
        /\ tcp_free_send_buf(h, p.ack)
        /\ \/ p.kind = "FIN" /\ FinIsNext(h, p) /\ MovePast(h, p)
           \/ UNCHANGED <<rcv_nxt, state>>
        /\ \/ \E v \in {"TIME_WAIT", "CLOSE_WAIT"} : state' = [state EXCEPT ![h] = v]
           \/ UNCHANGED state
        /\ Take(h, <<Packet("ACK", snd_nxt[h], seq_end(p))>>) \/ Take(h, <<>>)
        /\ UNCHANGED <<hashed, stored, reset, app, fin>>
  <2>1. CASE ProcessFin(h)
    BY <2>1 DEF ProcessFin, Acked, rcvVars, envVars
  <2>2. CASE ProcessOther(h)
    BY <2>2 DEF ProcessOther, rcvVars, envVars
  <2> QED BY <2>1, <2>2
<1>2. /\ TypeOK /\ p \in PacketType /\ p.ack \in Nat /\ wire[h] # <<>>
      /\ seq_end(p) \in Nat /\ rcv_nxt[h] <= seq_end(p) /\ rcv_nxt[h] \in Nat
      /\ snd_nxt[h] \in Nat
      /\ send_buf \in [Host -> Seq(BlockType)]
  BY <1>1, ProcessFacts
<1>3. state'[Peer(h)] = state[Peer(h)] /\ (state'[h] = state[h] \/ state'[h] # "SYN_RECV")
  <2>1. CASE UNCHANGED state
    BY <2>1
  <2>2. CASE \E v \in {"TIME_WAIT", "CLOSE_WAIT"} : state' = [state EXCEPT ![h] = v]
    BY <1>2, <2>2, StateMoves
  <2> QED BY <1>1, <2>1, <2>2
<1>4. PICK reply \in Seq(PacketType) :
        Take(h, reply) /\ \A q \in Range(reply) : q.kind # "FIN"
  BY <1>1, <1>2, AckOnly
<1>5. /\ \A b \in Range(send_buf'[h]) : b \in Range(send_buf[h])
      /\ send_buf'[Peer(h)] = send_buf[Peer(h)]
  BY <1>1, <1>2, Freed
<1>6. CASE p.kind = "FIN" /\ FinIsNext(h, p) /\ MovePast(h, p)
  <2>1. rcv_nxt'[h] = seq_end(p) /\ rcv_nxt'[Peer(h)] = rcv_nxt[Peer(h)]
    BY <1>2, <1>6, MovesPast
  <2>2. h = "server" /\ ~reset => rcv_nxt[h] > Segments
    BY <1>6, FinIsPastAll
  <2>3. h = "server" /\ ~reset => rcv_nxt'[h] > Segments
    BY <1>2, <2>1, <2>2, BoundAssumption
  <2> QED BY <1>1, <1>2, <1>3, <1>4, <1>5, <2>1, <2>2, <2>3, ProcessOrderly
<1>7. CASE UNCHANGED <<rcv_nxt, state>>
  <2>1. /\ UNCHANGED <<hashed, stored, reset, app, fin, rcv_nxt, state>>
        /\ rcv_nxt[h] <= rcv_nxt'[h] /\ wire[h] # <<>>
    BY <1>1, <1>2, <1>7
  <2> QED BY <1>4, <1>5, <2>1, ProcessOrderly
<1> QED BY <1>1, <1>6, <1>7

LEMMA OrderlyAck ==
  ASSUME DataInv, IInv', NEW h \in Host, ProcessAck(h)
  PROVE  DataInv'
<1>1. PICK p \in Arrived(h) :
        /\ Processes(h, p) /\ tcp_free_send_buf(h, p.ack)
        /\ \/ Take(h, <<>>)
           \/ /\ send_buf'[h] # <<>> /\ send_buf'[h][1].seq = p.ack
              /\ Take(h, <<Packet(send_buf'[h][1].kind, p.ack, rcv_nxt[h])>>)
        /\ UNCHANGED <<state, rcv_nxt, hashed, stored, app, fin, reset>>
  BY DEF ProcessAck, Acked, rcvVars
<1>2. /\ TypeOK /\ p \in PacketType /\ p.ack \in Nat /\ wire[h] # <<>> /\ rcv_nxt[h] \in Nat
      /\ send_buf \in [Host -> Seq(BlockType)]
  BY <1>1, ProcessFacts
<1>3. /\ \A b \in Range(send_buf'[h]) : b \in Range(send_buf[h])
      /\ send_buf'[Peer(h)] = send_buf[Peer(h)] /\ send_buf'[h] \in Seq(BlockType)
  <2>1. /\ send_buf' \in [Host -> Seq(BlockType)]
        /\ Range(send_buf'[h]) = {b \in Range(send_buf[h]) : seq_end(b) > p.ack}
        /\ send_buf'[Peer(h)] = send_buf[Peer(h)]
    BY <1>1, <1>2, Freed
  <2> QED BY <2>1
<1>4. PICK reply \in Seq(PacketType) :
        /\ Take(h, reply)
        /\ ~reset /\ h = "client" => \A q \in Range(reply) : q.kind = "FIN" => q.seq > Segments
  <2>1. CASE Take(h, <<>>)
    <3>1. <<>> \in Seq(PacketType) /\ \A q \in Range(<<>>) : FALSE
      BY Replies
    <3> QED BY <2>1, <3>1
  <2>2. CASE /\ send_buf'[h] # <<>> /\ send_buf'[h][1].seq = p.ack
             /\ Take(h, <<Packet(send_buf'[h][1].kind, p.ack, rcv_nxt[h])>>)
    <3>1. PICK b \in BlockType : b = send_buf'[h][1] /\ b \in Range(send_buf[h])
      <4>1. /\ Head(send_buf'[h]) \in Range(send_buf'[h]) /\ Head(send_buf'[h]) = send_buf'[h][1]
            /\ Range(send_buf'[h]) \subseteq BlockType
        BY <1>3, <2>2, Elements
      <4> QED BY <1>3, <4>1
    <3>2. b.kind \in Kind /\ b.seq = p.ack
      BY <2>2, <3>1, PacketFields
    <3>3. PICK q \in PacketType : q = Packet(b.kind, p.ack, rcv_nxt[h]) /\ q.kind = b.kind /\ q.seq = b.seq
      BY <1>2, <3>2, MakePacket
    <3>4. ~reset /\ h = "client" => (q.kind = "FIN" => q.seq > Segments)
      BY <3>1, <3>3 DEF DataInv, FinIsLast
    <3>5. Take(h, <<q>>) /\ <<q>> \in Seq(PacketType) /\ Range(<<q>>) = {q}
      BY <2>2, <3>1, <3>3, Replies
    <3> QED BY <3>4, <3>5
  <2> QED BY <1>1, <2>1, <2>2
<1> QED BY <1>1, <1>2, <1>3, <1>4, ProcessOrderly

(* ProcessData drains the list up to the first hole: no hole is left       *)
(* below.                                                                  *)
LEMMA OrderlyData ==
  ASSUME DataInv, IInv', NEW h \in Host, ProcessData(h)
  PROVE  DataInv'
<1>1. PICK p \in Arrived(h) :
        /\ Processes(h, p) /\ p.kind = "DATA" /\ state[h] = "ESTABLISHED"
        /\ tcp_free_send_buf(h, p.ack)
        /\ IF p.seq # rcv_nxt[h]
           THEN UNCHANGED <<rcv_nxt, stored>>
           ELSE /\ rcv_nxt' = [rcv_nxt EXCEPT ![h] = seq_end(p) + Cardinality(Following(h, seq_end(p)))]
                /\ stored' = [stored EXCEPT ![h] = @ \cup {p.seq} \cup Following(h, seq_end(p))]
        /\ Take(h, <<Packet("ACK", snd_nxt[h], rcv_nxt'[h])>>)
        /\ UNCHANGED <<state, hashed, app, fin, reset>>
  BY DEF ProcessData, Acked, envVars
<1>2. /\ TypeOK /\ p \in PacketType /\ p.ack \in Nat /\ wire[h] # <<>>
      /\ seq_end(p) \in Nat /\ rcv_nxt[h] \in Nat /\ p.seq \in Nat
      /\ send_buf \in [Host -> Seq(BlockType)]
  BY <1>1, ProcessFacts
<1>3. h = "server"
  <2>1. p.kind \in PacketKind(Peer(h))
    BY Taken DEF DataInv, IInv, Sent
  <2> QED BY <1>1, <2>1, Ends DEF PacketKind, BlockKind
<1>4. hashed[h] /\ stored'["client"] = stored["client"] /\ stored["client"] = {}
  <2>1. hashed[h]
    BY <1>1 DEF Processes
  <2>2. stored' = stored \/ \E X : stored' = [stored EXCEPT ![h] = X]
    BY <1>1
  <2>3. stored \in [Host -> SUBSET (1 .. Segments)]
    BY <1>2 DEF TypeOK
  <2>4. stored'["client"] = stored["client"]
    BY <1>3, <2>2, <2>3, Ends
  <2> QED BY <2>1, <2>4 DEF DataInv, StoredLater
<1>5. /\ \A b \in Range(send_buf'[h]) : b \in Range(send_buf[h])
      /\ send_buf'["client"] = send_buf["client"]
  BY <1>1, <1>2, <1>3, Freed, Ends
<1>6. \A q \in Range(wire'["server"]) :
        q.kind = "FIN" => q \in Range(wire["server"]) \/ q.seq > Segments
  <2>1. rcv_nxt'[h] \in Nat /\ snd_nxt[h] \in Nat
    BY <1>2, Types DEF DataInv, IInv, TypeOK
  <2>2. <<Packet("ACK", snd_nxt[h], rcv_nxt'[h])>> \in Seq(PacketType)
    BY <2>1, MakePacket, Replies DEF Kind
  <2> QED BY <1>1, <1>2, <1>3, <2>2, ServersWireTaken
<1>7. CASE p.seq # rcv_nxt[h]
  <2>1. rcv_nxt[h] <= rcv_nxt'[h] /\ UNCHANGED <<rcv_nxt, stored>>
    BY <1>1, <1>2, <1>7
  <2> QED BY <1>1, <1>3, <1>4, <1>5, <1>6, <2>1, OrderlyStep
<1>8. CASE p.seq = rcv_nxt[h]
  <2>1. PICK m \in Nat : /\ m >= seq_end(p)
                         /\ Following(h, seq_end(p)) = seq_end(p) .. m - 1
                         /\ Cardinality(Following(h, seq_end(p))) = m - seq_end(p)
    <3>1. ofo[h] \in SUBSET (1 .. Segments)
      BY <1>2, Types
    <3> QED BY <1>2, <3>1, FollowingInterval
  <2>2. seq_end(p) + Cardinality(Following(h, seq_end(p))) = m /\ seq_end(p) = rcv_nxt[h] + 1
    BY <1>1, <1>2, <1>8, <2>1 DEF seq_end, Length
  <2>3. rcv_nxt'[h] = m
    BY <1>1, <1>2, <1>8, <2>2 DEF TypeOK
  <2>4. {p.seq} \cup Following(h, seq_end(p)) = rcv_nxt[h] .. m - 1
    BY <1>2, <1>8, <2>1, <2>2
  <2>5. stored'[h] = stored[h] \cup (rcv_nxt[h] .. m - 1)
    <3>1. stored'[h] = stored[h] \cup {p.seq} \cup Following(h, seq_end(p))
      BY <1>1, <1>2, <1>8 DEF TypeOK
    <3> QED BY <2>4, <3>1
  <2>6. rcv_nxt[h] <= m
    BY <1>2, <2>1, <2>2
  <2>7. \E k \in Nat : /\ stored'["server"] = stored["server"] \cup (rcv_nxt["server"] .. k - 1)
                       /\ rcv_nxt'["server"] = k /\ rcv_nxt["server"] <= k
    BY <1>3, <2>3, <2>5, <2>6
  <2>8. rcv_nxt["server"] <= rcv_nxt'["server"]
    BY <1>3, <2>3, <2>6
  <2>9. /\ UNCHANGED <<state, hashed, app, fin, reset>>
        /\ state["server"] = "ESTABLISHED" /\ hashed["server"]
    BY <1>1, <1>3, <1>4
  <2> QED BY <1>4, <1>5, <1>6, <2>7, <2>8, <2>9, OrderlyStep
<1> QED BY <1>7, <1>8

LEMMA OrderlyDropped ==
  ASSUME DataInv, IInv', NEW h \in Host, Ignore(h) \/ Lose(h)
  PROVE  DataInv'
<1>1. /\ wire[h] # <<>> /\ Take(h, <<>>)
      /\ UNCHANGED <<state, rcv_nxt, send_buf, hashed, stored, app, fin, reset>>
  BY DEF Ignore, Lose, Arrived, sockVars, rcvVars, envVars
<1>2. <<>> \in Seq(PacketType) /\ \A q \in Range(<<>>) : FALSE
  BY Replies
<1>3. rcv_nxt[h] \in Nat
  BY Types DEF DataInv, IInv
<1>4. rcv_nxt[h] <= rcv_nxt'[h]
  BY <1>1, <1>3
<1> QED BY <1>1, <1>2, <1>4, ProcessOrderly

(* After a RST nothing more is claimed.                                    *)
LEMMA OrderlyReset ==
  ASSUME DataInv, IInv', NEW h \in Host, Reset(h)
  PROVE  DataInv'
<1>1. PICK p \in Arrived(h) :
        /\ IF state[h] \in {"ESTABLISHED", "CLOSE_WAIT"}
           THEN /\ state' = [state EXCEPT ![h] = IF @ = "ESTABLISHED" THEN "FIN_WAIT_1" ELSE "LAST_ACK"]
                /\ reset' = TRUE
           ELSE Take(h, <<>>) /\ UNCHANGED <<send_buf, snd_nxt, state, reset>>
        /\ UNCHANGED <<rcv_nxt, hashed, stored, app, fin>>
  BY DEF Reset, rcvVars
<1>2. TypeOK /\ wire[h] # <<>>
  BY Taken DEF DataInv, IInv
<1>3. CASE state[h] \in {"ESTABLISHED", "CLOSE_WAIT"}
  <2>1. state'[h] # "SYN_RECV" /\ state'[Peer(h)] = state[Peer(h)] /\ reset' = TRUE
    BY <1>1, <1>2, <1>3, Ends DEF TypeOK
  <2>2. state'["server"] = state["server"] \/ state'["server"] # "SYN_RECV"
    BY <2>1, Ends
  <2> QED BY <1>1, <2>1, <2>2, NothingReceived
<1>4. CASE state[h] \notin {"ESTABLISHED", "CLOSE_WAIT"}
  <2>1. <<>> \in Seq(PacketType) /\ \A q \in Range(<<>>) : FALSE
    BY Replies
  <2>2. rcv_nxt[h] \in Nat
    BY <1>2, Types
  <2>3. rcv_nxt[h] <= rcv_nxt'[h]
    BY <1>1, <2>2
  <2> QED BY <1>1, <1>2, <1>4, <2>1, <2>3, ProcessOrderly
<1> QED BY <1>3, <1>4

(* The handshake stores nothing.                                           *)
LEMMA OrderlyListenSyn ==
  ASSUME DataInv, IInv', ListenSyn
  PROVE  DataInv'
<1>1. /\ TypeOK /\ "server" \in Host /\ Peer("server") = "client"
      /\ stored["server"] \in SUBSET (1 .. Segments)
  BY Ends, Types DEF DataInv, IInv
<1>2. PICK p \in Arrived("server") :
        /\ ~hashed["server"] /\ MovePast("server", p)
        /\ state' = [state EXCEPT !["server"] = "SYN_RECV"]
        /\ Take("server", <<Packet("SYNACK", 0, seq_end(p))>>)
        /\ send_buf' = [send_buf EXCEPT !["server"] = <<Block("SYNACK", 0)>>]
        /\ UNCHANGED <<stored, app, fin, reset>>
  BY DEF ListenSyn, rcvVars, envVars
<1>3. p \in PacketType /\ wire["server"] # <<>> /\ seq_end(p) \in Nat
  BY <1>1, <1>2, Taken, PacketFields DEF DataInv, IInv
<1>4. rcv_nxt'["server"] = seq_end(p) /\ rcv_nxt["server"] = 0
  BY <1>1, <1>2, <1>3, MovesPast DEF DataInv, IInv, Listening
<1>5. send_buf'["client"] = send_buf["client"]
  BY <1>1, <1>2, Ends DEF TypeOK
<1>6. state'["server"] = "SYN_RECV"
  BY <1>1, <1>2 DEF TypeOK
<1>7. stored["server"] = {} /\ stored["client"] = {}
  BY <1>2 DEF DataInv, StoredLater
<1>8. \A q \in Range(wire'["server"]) :
        q.kind = "FIN" => q \in Range(wire["server"]) \/ q.seq > Segments
  <2>1. <<Packet("SYNACK", 0, seq_end(p))>> \in Seq(PacketType)
    BY <1>3, MakePacket, Replies DEF Kind
  <2> QED BY <1>1, <1>2, <1>3, <2>1, ServersWireTaken, Ends
<1>9. rcv_nxt["server"] <= rcv_nxt'["server"]
  BY <1>3, <1>4
<1> QED
  BY <1>2, <1>5, <1>6, <1>7, <1>8, <1>9, OrderlyStep DEF Late

LEMMA OrderlySynAck ==
  ASSUME DataInv, IInv', SynAckWakes \/ SynAckEstablishes
  PROVE  DataInv'
<1>1. TypeOK /\ "client" \in Host /\ Peer("client") = "server"
  BY Ends DEF DataInv, IInv
<1>2. CASE SynAckWakes
  <2>1. PICK p \in Arrived("client") :
          /\ MovePast("client", p) /\ app' = [app EXCEPT !["client"] = "write"]
          /\ UNCHANGED <<state, send_buf, hashed, stored, wire, fin, reset>>
    BY <1>2 DEF SynAckWakes, rcvVars, envVars
  <2>2. p \in PacketType
    BY <1>1, Taken DEF DataInv, IInv
  <2>3. rcv_nxt'["server"] = rcv_nxt["server"]
    BY <1>1, <2>1, <2>2, MovesPast
  <2>4. app'["client"] = "write" /\ app'["server"] = app["server"]
    BY <1>1, <2>1, AppMoves
  <2> QED BY <2>1, <2>3, <2>4, NothingReceived
<1>3. CASE SynAckEstablishes
  <2>1. /\ rx["client"] = "synack"
        /\ Take("client", <<Packet("ACK", snd_nxt["client"], rcv_nxt["client"])>>)
        /\ state' = [state EXCEPT !["client"] = "ESTABLISHED"]
        /\ tcp_free_send_buf("client", Head(wire["client"]).ack)
        /\ UNCHANGED <<rcv_nxt, hashed, stored, app, fin, reset>>
    BY <1>3 DEF SynAckEstablishes, Acked, rcvVars, envVars
  <2>2. wire["client"] # <<>>
    BY <2>1 DEF DataInv, IInv, Opening
  <2>3. /\ Head(wire["client"]).ack \in Nat /\ snd_nxt["client"] \in Nat
        /\ rcv_nxt["client"] \in Nat /\ send_buf \in [Host -> Seq(BlockType)]
    BY <1>1, <2>2, HeadOf, PacketFields, Types DEF DataInv, IInv
  <2>4. PICK reply \in Seq(PacketType) :
          Take("client", reply) /\ \A q \in Range(reply) : q.kind # "FIN"
    BY <1>1, <2>1, <2>3, AckOnly
  <2>5. \A q \in Range(wire'["server"]) :
          q.kind = "FIN" => q \in Range(wire["server"]) \/ q.seq > Segments
    BY <1>1, <2>2, <2>4, ServersWireTaken
  <2>6. \A b \in Range(send_buf'["client"]) : b \in Range(send_buf["client"])
    <3>1. Range(send_buf'["client"]) =
            {b \in Range(send_buf["client"]) : seq_end(b) > Head(wire["client"]).ack}
      BY <1>1, <2>1, <2>3, Freed
    <3> QED BY <3>1
  <2>7. state'["server"] = state["server"]
    BY <1>1, <2>1, Ends DEF TypeOK
  <2> QED BY <2>1, <2>5, <2>6, <2>7, NothingReceived
<1> QED BY <1>2, <1>3

(* The invariant holds at the start and in every step.                     *)
LEMMA DataInvInit == Init => DataInv
<1> SUFFICES ASSUME Init
             PROVE  DataInv
  OBVIOUS
<1>1. IInv
  BY IInvInit
<1>2. Range(wire["server"]) = {} /\ Range(send_buf["client"]) = {}
  BY Replies, Ends DEF Init
<1>3. /\ app["client"] = "connect" /\ app["server"] = "accept" /\ state["server"] = "CLOSED"
      /\ \A h \in Host : stored[h] = {}
  BY Ends DEF Init
<1>4. FinIsLast
  BY <1>2, <1>3 DEF FinIsLast, Late, Done
<1>5. StoredLater /\ NoLaterHole
  BY <1>3, Ends DEF StoredLater, NoLaterHole
<1> QED BY <1>1, <1>4, <1>5 DEF DataInv

LEMMA DataInvStep == DataInv /\ [Next]_vars => DataInv'
<1> SUFFICES ASSUME DataInv, [Next]_vars
             PROVE  DataInv'
  OBVIOUS
<1>0. IInv'
  BY IInvStep DEF DataInv
<1>1. "client" \in Host /\ "server" \in Host
  BY Ends
<1>2. ASSUME NEW h \in Host, tcp_process(h)
      PROVE  DataInv'
  BY <1>0, <1>2, OrderlySynRecv, OrderlyAck, OrderlyData, OrderlyFin, OrderlyClosing,
     OrderlyDropped, OrderlyReset DEF tcp_process
<1>3. ASSUME NEW h \in Host, Timer(h)
      PROVE  DataInv'
  BY <1>0, <1>3, OrderlyRetransmit, OrderlySendReset, OrderlyApp, Ends DEF Timer
<1>4. CASE ClientApp
  BY <1>0, <1>1, <1>4, OrderlyConnectSend, OrderlyConnectHash, OrderlyWrite, OrderlyCloseSend,
     OrderlyCloseFinish DEF ClientApp
<1>5. CASE ServerApp
  BY <1>0, <1>1, <1>5, OrderlyApp, OrderlyReadSleeps, OrderlyCloseSend, OrderlyCloseFinish
     DEF ServerApp
<1>6. CASE ClientRx
  BY <1>0, <1>1, <1>2, <1>6, OrderlyApp, OrderlySynAck DEF ClientRx
<1>7. CASE ServerRx
  BY <1>0, <1>1, <1>2, <1>7, OrderlyListenSyn DEF ServerRx
<1>8. CASE Lose("client") \/ Lose("server")
  BY <1>0, <1>1, <1>8, OrderlyDropped
<1>9. CASE UNCHANGED vars
  BY <1>0, <1>9, OrderlyApp
<1> QED BY <1>1, <1>3, <1>4, <1>5, <1>6, <1>7, <1>8, <1>9 DEF Next

(* For any number of segments, losses and expiries: until a RST, the       *)
(* server has no hole in its data after the first segment it has stored;   *)
(* rcv_nxt moves past a segment that was not stored in the handshake only  *)
(* (tcp_in.c:255-277, 287-291).                                            *)
THEOREM NoHoleInData == Spec => []NoLaterHole
<1>1. DataInv => NoLaterHole
  BY DEF DataInv
<1> QED BY <1>1, DataInvInit, DataInvStep, PTL DEF Spec

=============================================================================
