-------------------------- MODULE TcpReceive_proofs --------------------------
(* Proofs about TcpReceive: for every stream, every cutting of it into     *)
(* segments and every window, the reader gets the stream in order.  At the *)
(* end, about the ring buffer between the threads (RingBuffer): for every  *)
(* size it is the FIFO of bytes that TcpReceive takes it for.              *)
EXTENDS TcpReceive, RingBuffer, SequenceTheorems, TLAPS

(* The inductive invariant: the order of the bytes is kept because rcv_nxt *)
(* is the number of bytes taken.                                           *)
IInv == TypeOK /\ DeliveredInOrder /\ Position

LEMMA SegmentType ==
  ASSUME NEW s \in Segment
  PROVE  /\ s.seq \in 0 .. Total /\ s.seq_end \in 0 .. Total
         /\ s.seq < s.seq_end
         /\ s.seq_end - s.seq \in Nat \ {0}
BY SizeAssumption, SegmentAssumption

LEMMA FunctionIsSeq ==
  ASSUME NEW S, NEW n \in Nat, NEW f \in [1 .. n -> S]
  PROVE  f \in Seq(S) /\ Len(f) = n
OBVIOUS

(* The payload of a segment is the bytes between its sequence numbers.     *)
LEMMA BytesValue ==
  ASSUME NEW s \in Segment
  PROVE  /\ Bytes(s) \in Seq(0 .. Total)
         /\ Len(Bytes(s)) = s.seq_end - s.seq
         /\ \A i \in 1 .. s.seq_end - s.seq : Bytes(s)[i] = s.seq + i - 1
<1> DEFINE n == s.seq_end - s.seq
<1>1. n \in Nat
  BY SegmentType
<1>2. \A i \in 1 .. n : s.seq + i - 1 \in 0 .. Total
  BY SegmentType, SizeAssumption
<1>3. Bytes(s) = [i \in 1 .. n |-> s.seq + i - 1]
  BY DEF Bytes
<1> HIDE DEF n
<1>4. Bytes(s) \in [1 .. n -> 0 .. Total]
  BY <1>2, <1>3
<1>5. Bytes(s) \in Seq(0 .. Total) /\ Len(Bytes(s)) = n
  BY <1>1, <1>4, FunctionIsSeq
<1>6. \A i \in 1 .. n : Bytes(s)[i] = s.seq + i - 1
  BY <1>3
<1> QED BY <1>5, <1>6 DEF n

LEMMA InitInv == Init => IInv
<1> SUFFICES ASSUME Init PROVE IInv
  OBVIOUS
<1>1. cur \in Segment
  BY SegmentAssumption DEF Init
<1>2. TypeOK
  <2>1. /\ rcv_nxt \in 0 .. Total + 1
        /\ rcv_wnd \in 0 .. U16 - 1
        /\ edge \in Nat
    BY SizeAssumption DEF Init
  <2>2. /\ rcv_buf \in Seq(0 .. Total)
        /\ ofo \in Seq(Segment)
        /\ got \in Seq(0 .. Total)
    BY DEF Init
  <2> QED BY <1>1, <2>1, <2>2 DEF Init, TypeOK
<1>3. DeliveredInOrder
  BY EmptySeq DEF Init, DeliveredInOrder
<1>4. Position
  BY SizeAssumption, EmptySeq DEF Init, Position, less_of
<1> QED BY <1>2, <1>3, <1>4 DEF IInv

(* An acknowledgement moves the right edge to a number.                    *)
LEMMA SendAckType ==
  ASSUME edge \in Nat, NEW ack \in Nat, NEW wnd \in Nat, SendAck(ack, wnd)
  PROVE  edge' \in Nat
BY DEF SendAck, more_of

(* tcp_rcv_ofo_pkt keeps a list of segments.                               *)
LEMMA OfoType ==
  ASSUME ofo \in Seq(Segment), NEW s \in Segment, tcp_rcv_ofo_pkt(s)
  PROVE  ofo' \in Seq(Segment)
<1>1. PICK i \in 1 .. Len(ofo) + 1 : ofo' = ofo \/ ofo' = InsertAt(ofo, i, s)
  BY DEF tcp_rcv_ofo_pkt
<1>2. InsertAt(ofo, i, s) \in Seq(Segment)
  <2>1. Len(ofo) \in Nat /\ \A k \in 1 .. Len(ofo) : ofo[k] \in Segment
    BY LenProperties, ElementOfSeq
  <2>2. SubSeq(ofo, 1, i - 1) \in Seq(Segment)
    BY <2>1, SubSeqProperties
  <2>3. SubSeq(ofo, i, Len(ofo)) \in Seq(Segment)
    BY <2>1, SubSeqProperties
  <2>4. <<s>> \in Seq(Segment)
    OBVIOUS
  <2> QED BY <2>2, <2>3, <2>4, ConcatProperties DEF InsertAt
<1> QED BY <1>1, <1>2

(* What tcp_process takes from the list is a segment, and the rest is.     *)
LEMMA OfoTakeType ==
  ASSUME ofo \in Seq(Segment), NEW i \in 1 .. Len(ofo)
  PROVE  ofo[i] \in Segment /\ RemoveAt(ofo, i) \in Seq(Segment)
<1>1. Len(ofo) \in Nat /\ \A k \in 1 .. Len(ofo) : ofo[k] \in Segment
  BY LenProperties, ElementOfSeq
<1>2. SubSeq(ofo, 1, i - 1) \in Seq(Segment)
  BY <1>1, SubSeqProperties
<1>3. SubSeq(ofo, i + 1, Len(ofo)) \in Seq(Segment)
  BY <1>1, SubSeqProperties
<1> QED BY <1>1, <1>2, <1>3, ConcatProperties DEF RemoveAt

(* Storing the segment that starts at the byte count keeps the order.      *)
LEMMA StoreInv ==
  ASSUME IInv, Store
  PROVE  IInv'
<1>1. /\ TypeOK /\ DeliveredInOrder /\ Position
      /\ rx = "store"
      /\ cur.seq = rcv_nxt /\ cur \in Segment
  BY DEF IInv, Store, Position, TypeOK
<1>2. /\ rcv_buf' = rcv_buf \o Bytes(cur)
      /\ rcv_wnd' = (rcv_wnd - MSS) % U16
      /\ rx' = "advance"
      /\ UNCHANGED <<state, rcv_nxt, ofo, notified, cur, rd, got, edge, first, torn>>
  BY DEF Store
<1> DEFINE n == cur.seq_end - cur.seq
<1>3. /\ Bytes(cur) \in Seq(0 .. Total) /\ Len(Bytes(cur)) = n /\ n \in Nat
      /\ \A i \in 1 .. n : Bytes(cur)[i] = cur.seq + i - 1
      /\ cur.seq \in 0 .. Total /\ cur.seq_end \in 0 .. Total
  BY <1>1, BytesValue, SegmentType
<1>4. Len(got) + Len(rcv_buf) = cur.seq
  BY <1>1, <1>3, SizeAssumption DEF Position, less_of
<1>5. /\ rcv_buf \in Seq(0 .. Total) /\ got \in Seq(0 .. Total)
      /\ Len(rcv_buf) \in Nat /\ Len(got) \in Nat
  BY <1>1, LenProperties DEF TypeOK
<1> HIDE DEF n
<1>6. /\ rcv_buf' \in Seq(0 .. Total)
      /\ Len(rcv_buf') = Len(rcv_buf) + n
      /\ \A i \in 1 .. Len(rcv_buf) + n :
           rcv_buf'[i] = IF i <= Len(rcv_buf) THEN rcv_buf[i] ELSE Bytes(cur)[i - Len(rcv_buf)]
  BY <1>2, <1>3, <1>5, ConcatProperties
<1>7. TypeOK'
  <2>1. rcv_wnd' \in 0 .. U16 - 1
    BY <1>1, <1>2, SizeAssumption DEF TypeOK
  <2> QED BY <1>1, <1>2, <1>6, <2>1 DEF TypeOK
<1>8. DeliveredInOrder'
  <2>1. ASSUME NEW i \in 1 .. Len(rcv_buf')
        PROVE  rcv_buf'[i] = Len(got) + i - 1
    <3>1. CASE i <= Len(rcv_buf)
      BY <1>1, <1>5, <1>6, <3>1, <2>1 DEF DeliveredInOrder
    <3>2. CASE ~(i <= Len(rcv_buf))
      <4>1. i - Len(rcv_buf) \in 1 .. n
        BY <1>3, <1>5, <1>6, <3>2, <2>1
      <4>2. rcv_buf'[i] = cur.seq + (i - Len(rcv_buf)) - 1
        BY <1>3, <1>5, <1>6, <3>2, <4>1, <2>1
      <4> QED BY <1>3, <1>4, <1>5, <1>6, <4>2, <2>1
    <3> QED BY <3>1, <3>2
  <2> QED BY <1>1, <1>2, <2>1 DEF DeliveredInOrder
<1>9. Position'
  <2>1. Len(got) + Len(rcv_buf') = cur.seq_end
    BY <1>3, <1>4, <1>5, <1>6 DEF n
  <2> QED BY <1>1, <1>2, <2>1 DEF Position
<1> QED BY <1>7, <1>8, <1>9 DEF IInv

(* A read moves a prefix of the buffer behind what was read before.        *)
LEMMA ReadBytesInv ==
  ASSUME IInv, ReadBytes
  PROVE  IInv'
<1> DEFINE rlen == less_of(Len(rcv_buf), ReadLen)
           used == Len(rcv_buf)
           front == SubSeq(rcv_buf, 1, rlen)
<1>1. /\ TypeOK /\ DeliveredInOrder /\ Position
      /\ rcv_buf \in Seq(0 .. Total) /\ got \in Seq(0 .. Total)
      /\ used \in Nat /\ Len(got) \in Nat
  BY LenProperties DEF IInv, TypeOK
<1>2. /\ got' = got \o front
      /\ rcv_buf' = SubSeq(rcv_buf, rlen + 1, used)
      /\ rcv_wnd' = (rcv_wnd + RoundUp(rlen)) % U16
      /\ UNCHANGED <<state, rcv_nxt, ofo, notified, rx, cur, rd, edge, first, torn>>
  BY DEF ReadBytes
<1>3. rlen \in 0 .. used
  BY <1>1, SizeAssumption DEF less_of
<1>4. \A i \in 1 .. used : rcv_buf[i] \in 0 .. Total /\ rcv_buf[i] = Len(got) + i - 1
  BY <1>1, ElementOfSeq DEF DeliveredInOrder
<1>5. /\ front \in Seq(0 .. Total) /\ Len(front) = rlen
      /\ \A i \in 1 .. rlen : front[i] = rcv_buf[i]
  BY <1>1, <1>3, <1>4, SubSeqProperties
<1> HIDE DEF rlen, front
<1>6. /\ rcv_buf' \in Seq(0 .. Total) /\ Len(rcv_buf') = used - rlen
      /\ \A i \in 1 .. used - rlen : rcv_buf'[i] = rcv_buf[rlen + i]
  <2>1. \A i \in rlen + 1 .. used : rcv_buf[i] \in 0 .. Total
    BY <1>3, <1>4
  <2> QED BY <1>1, <1>2, <1>3, <2>1, SubSeqProperties
<1>7. /\ got' \in Seq(0 .. Total) /\ Len(got') = Len(got) + rlen
      /\ \A i \in 1 .. Len(got) + rlen :
           got'[i] = IF i <= Len(got) THEN got[i] ELSE front[i - Len(got)]
  BY <1>1, <1>2, <1>5, ConcatProperties
<1> HIDE DEF used
<1>8. TypeOK'
  <2>1. RoundUp(rlen) \in Int
    BY <1>1, <1>3, SizeAssumption DEF RoundUp
  <2>2. rcv_wnd' \in 0 .. U16 - 1
    BY <1>1, <1>2, <2>1, SizeAssumption DEF TypeOK
  <2> QED BY <1>1, <1>2, <1>6, <1>7, <2>2 DEF TypeOK
<1>9. DeliveredInOrder'
  <2>1. ASSUME NEW i \in 1 .. Len(got')
        PROVE  got'[i] = i - 1
    <3>1. CASE i <= Len(got)
      BY <1>1, <1>7, <2>1, <3>1 DEF DeliveredInOrder
    <3>2. CASE ~(i <= Len(got))
      <4>1. i - Len(got) \in 1 .. rlen /\ i - Len(got) \in 1 .. used
        BY <1>1, <1>3, <1>7, <2>1, <3>2
      <4>2. got'[i] = Len(got) + (i - Len(got)) - 1
        BY <1>4, <1>5, <1>7, <2>1, <3>2, <4>1
      <4> QED BY <1>1, <4>2, <2>1, <1>7
    <3> QED BY <3>1, <3>2
  <2>2. ASSUME NEW i \in 1 .. Len(rcv_buf')
        PROVE  rcv_buf'[i] = Len(got') + i - 1
    <3>1. rlen + i \in 1 .. used
      BY <1>1, <1>3, <1>6, <2>2
    <3>2. rcv_buf'[i] = Len(got) + (rlen + i) - 1
      BY <1>4, <1>6, <2>2, <3>1
    <3> QED BY <1>1, <1>3, <1>6, <1>7, <2>2, <3>2
  <2> QED BY <2>1, <2>2 DEF DeliveredInOrder
<1>10. Position'
  <2>1. Len(got') + Len(rcv_buf') = Len(got) + Len(rcv_buf)
    BY <1>1, <1>3, <1>6, <1>7 DEF used
  <2> QED BY <1>1, <1>2, <2>1 DEF Position
<1> QED BY <1>8, <1>9, <1>10 DEF IInv

(* Moving rcv_nxt over the stored segment.                                 *)
LEMMA AdvanceInv ==
  ASSUME IInv, Advance
  PROVE  IInv'
<1>1. /\ TypeOK /\ DeliveredInOrder /\ Position /\ rx = "advance"
      /\ cur \in Segment /\ ofo \in Seq(Segment)
  BY DEF IInv, Advance, TypeOK
<1>2. /\ rcv_nxt' = cur.seq_end
      /\ UNCHANGED <<state, rcv_wnd, rcv_buf, notified, rd, got, edge, first, torn>>
  BY DEF Advance
<1>3. cur.seq_end \in 0 .. Total
  BY <1>1, SegmentType
<1>4. \/ rx' = "ack" /\ UNCHANGED <<ofo, cur>>
      \/ /\ rx' = "wake" /\ cur' \in Segment /\ ofo' \in Seq(Segment)
         /\ cur'.seq = cur.seq_end
  <2>1. CASE Next_in_ofo(cur.seq_end) = {}
    BY <2>1 DEF Advance
  <2>2. CASE Next_in_ofo(cur.seq_end) # {}
    <3>1. PICK i \in Next_in_ofo(cur.seq_end) :
            cur' = ofo[i] /\ ofo' = RemoveAt(ofo, i) /\ rx' = "wake"
      BY <2>2 DEF Advance
    <3>2. i \in 1 .. Len(ofo) /\ ofo[i].seq = cur.seq_end
      BY <3>1 DEF Next_in_ofo
    <3> QED BY <1>1, <3>1, <3>2, OfoTakeType
  <2> QED BY <2>1, <2>2
<1>5. TypeOK'
  BY <1>1, <1>2, <1>3, <1>4, SizeAssumption DEF TypeOK
<1>6. DeliveredInOrder'
  BY <1>1, <1>2 DEF DeliveredInOrder
<1>7. Position'
  <2>1. Len(got) + Len(rcv_buf) = cur.seq_end
    BY <1>1 DEF Position
  <2> QED BY <1>1, <1>2, <1>3, <1>4, <2>1, SizeAssumption DEF Position, less_of
<1> QED BY <1>5, <1>6, <1>7 DEF IInv

(* Every step keeps the inductive invariant; only three of them move bytes *)
(* or rcv_nxt.                                                             *)
LEMMA StepInv == IInv /\ [Next]_vars => IInv'
<1> SUFFICES ASSUME IInv, [Next]_vars
             PROVE  IInv'
  OBVIOUS
<1>1. TypeOK /\ DeliveredInOrder /\ Position /\ edge \in Nat /\ rcv_nxt \in Nat
      /\ rcv_wnd \in Nat
  BY SizeAssumption DEF IInv, TypeOK
<1>2. ASSUME NEW s \in Segment, ReceiveOutOfOrder(s)
      PROVE  IInv'
  <2>1. edge' \in Nat
    BY <1>1, <1>2, SendAckType DEF ReceiveOutOfOrder
  <2>2. ofo' \in Seq(Segment)
    BY <1>1, <1>2, OfoType DEF ReceiveOutOfOrder, TypeOK
  <2> QED BY <1>1, <1>2, <2>1, <2>2
          DEF ReceiveOutOfOrder, IInv, TypeOK, DeliveredInOrder, Position
<1>3. ASSUME NEW s \in Segment, ReceiveInOrder(s)
      PROVE  IInv'
  BY <1>1, <1>3 DEF ReceiveInOrder, IInv, TypeOK, DeliveredInOrder, Position
<1>4. CASE WakeReader
  BY <1>1, <1>4 DEF WakeReader, wake_up, IInv, TypeOK, DeliveredInOrder, Position
<1>5. CASE Store
  BY <1>5, StoreInv
<1>6. CASE Advance
  BY <1>6, AdvanceInv
<1>7. CASE Acknowledge
  <2>1. edge' \in Nat
    BY <1>1, <1>7, SendAckType DEF Acknowledge
  <2> QED BY <1>1, <1>7, <2>1 DEF Acknowledge, IInv, TypeOK, DeliveredInOrder, Position
<1>8. CASE ReceiveFin
  <2>1. edge' \in Nat
    BY <1>1, <1>8, SendAckType, SizeAssumption DEF ReceiveFin
  <2>2. Position'
    BY <1>1, <1>8, SizeAssumption DEF ReceiveFin, Position, less_of
  <2> QED BY <1>1, <1>8, <2>1, <2>2, SizeAssumption
          DEF ReceiveFin, IInv, TypeOK, DeliveredInOrder
<1>9. CASE EnterCloseWait
  BY <1>1, <1>9 DEF EnterCloseWait, IInv, TypeOK, DeliveredInOrder, Position
<1>10. CASE WakeAtFin
  BY <1>1, <1>10 DEF WakeAtFin, wake_up, IInv, TypeOK, DeliveredInOrder, Position
<1>11. CASE ReadBytes
  BY <1>11, ReadBytesInv
<1>12. CASE FindEmpty
  BY <1>1, <1>12 DEF FindEmpty, IInv, TypeOK, DeliveredInOrder, Position
<1>13. CASE ReadReturnsZero
  BY <1>1, <1>13 DEF ReadReturnsZero, IInv, TypeOK, DeliveredInOrder, Position
<1>14. CASE SendWindowUpdate
  <2>1. edge' \in Nat
    BY <1>1, <1>14, SendAckType DEF SendWindowUpdate, TypeOK
  <2> QED BY <1>1, <1>14, <2>1 DEF SendWindowUpdate, IInv, TypeOK, DeliveredInOrder, Position
<1>15. CASE sleep_on
  BY <1>1, <1>15 DEF sleep_on, IInv, TypeOK, DeliveredInOrder, Position
<1>16. CASE WakeFromSleep
  BY <1>1, <1>16 DEF WakeFromSleep, IInv, TypeOK, DeliveredInOrder, Position
<1>17. CASE Abort
  BY <1>1, <1>17 DEF Abort, IInv, TypeOK, DeliveredInOrder, Position
<1>18. CASE ReadHeaderField
  <2>1. first' \in Nat
    BY <1>1, <1>18 DEF ReadHeaderField
  <2> QED BY <1>1, <1>18, <2>1 DEF ReadHeaderField, IInv, TypeOK, DeliveredInOrder, Position
<1>19. CASE UNCHANGED vars
  BY <1>1, <1>19 DEF vars, IInv, TypeOK, DeliveredInOrder, Position
<1> QED BY <1>2, <1>3, <1>4, <1>5, <1>6, <1>7, <1>8, <1>9, <1>10, <1>11, <1>12,
           <1>13, <1>14, <1>15, <1>16, <1>17, <1>18, <1>19
        DEF Next, Receive, Rx, Reader

(* The variables keep their types, in every interleaving of the threads.   *)
THEOREM TypeCorrect == Spec => []TypeOK
<1>1. IInv => TypeOK
  BY DEF IInv
<1> QED BY <1>1, InitInv, StepInv, PTL DEF Spec

(* tcp_sock_read returns the bytes of the stream in order, each once, for  *)
(* any cutting into segments and any loss, repetition and reordering.      *)
THEOREM ReadInOrder == Spec => []DeliveredInOrder
<1>1. IInv => DeliveredInOrder
  BY DEF IInv
<1> QED BY <1>1, InitInv, StepInv, PTL DEF Spec

-----------------------------------------------------------------------------
(* The elements of a sequence into which one is inserted.                  *)
LEMMA InsertAtElements ==
  ASSUME NEW S, NEW list \in Seq(S), NEW k \in 1 .. Len(list) + 1, NEW e \in S
  PROVE  /\ Len(InsertAt(list, k, e)) = Len(list) + 1
         /\ \A j \in 1 .. Len(list) + 1 :
              InsertAt(list, k, e)[j] =
                IF j < k THEN list[j] ELSE IF j = k THEN e ELSE list[j - 1]
<1> DEFINE n == Len(list)
           before == SubSeq(list, 1, k - 1)
           middle == before \o <<e>>
           after == SubSeq(list, k, n)
<1>1. n \in Nat /\ k \in 1 .. n + 1 /\ \A j \in 1 .. n : list[j] \in S
  BY LenProperties, ElementOfSeq
<1>2. /\ before \in Seq(S) /\ Len(before) = k - 1
      /\ \A j \in 1 .. k - 1 : before[j] = list[j]
  BY <1>1, SubSeqProperties
<1>3. /\ after \in Seq(S) /\ Len(after) = n - k + 1
      /\ \A j \in 1 .. n - k + 1 : after[j] = list[k + j - 1]
  BY <1>1, SubSeqProperties
<1>4. InsertAt(list, k, e) = middle \o after
  BY DEF InsertAt
<1> HIDE DEF n, before, after
<1>5. /\ middle \in Seq(S) /\ Len(middle) = k
      /\ \A j \in 1 .. k - 1 : middle[j] = list[j]
      /\ middle[k] = e
  <2>1. middle = Append(before, e)
    BY <1>2
  <2> QED
    BY <1>1, <1>2, <2>1, AppendProperties
<1> HIDE DEF middle
<1>6. /\ Len(middle \o after) = Len(middle) + Len(after)
      /\ \A j \in 1 .. Len(middle) + Len(after) :
           (middle \o after)[j] = IF j <= Len(middle) THEN middle[j] ELSE after[j - Len(middle)]
  BY <1>3, <1>5, ConcatProperties
<1>7. Len(middle) + Len(after) = n + 1
  BY <1>1, <1>3, <1>5
<1>8. ASSUME NEW j \in 1 .. n + 1
      PROVE  (middle \o after)[j] =
               IF j < k THEN list[j] ELSE IF j = k THEN e ELSE list[j - 1]
  <2>1. CASE j <= k
    BY <1>1, <1>5, <1>6, <1>7, <2>1
  <2>2. CASE j > k
    <3>1. j - k \in 1 .. n - k + 1 /\ k + (j - k) - 1 = j - 1
      BY <1>1, <2>2
    <3> QED
      BY <1>1, <1>3, <1>5, <1>6, <1>7, <2>2, <3>1
  <2>3. j <= k \/ j > k
    BY <1>1
  <2> QED
    BY <2>1, <2>2, <2>3
<1> QED
  BY <1>4, <1>6, <1>7, <1>8 DEF n

(* The elements of a sequence from which one is removed.                   *)
LEMMA RemoveAtElements ==
  ASSUME NEW S, NEW list \in Seq(S), NEW k \in 1 .. Len(list)
  PROVE  /\ Len(RemoveAt(list, k)) = Len(list) - 1
         /\ \A j \in 1 .. Len(list) - 1 :
              RemoveAt(list, k)[j] = list[IF j < k THEN j ELSE j + 1]
<1> DEFINE n == Len(list)
           before == SubSeq(list, 1, k - 1)
           after == SubSeq(list, k + 1, n)
<1>1. n \in Nat /\ k \in 1 .. n /\ \A j \in 1 .. n : list[j] \in S
  BY LenProperties, ElementOfSeq
<1>2. /\ before \in Seq(S) /\ Len(before) = k - 1
      /\ \A j \in 1 .. k - 1 : before[j] = list[j]
  BY <1>1, SubSeqProperties
<1>3. /\ after \in Seq(S) /\ Len(after) = n - k
      /\ \A j \in 1 .. n - k : after[j] = list[k + j]
  BY <1>1, SubSeqProperties
<1>4. RemoveAt(list, k) = before \o after
  BY DEF RemoveAt
<1> HIDE DEF n, before, after
<1>5. /\ Len(before \o after) = Len(before) + Len(after)
      /\ \A j \in 1 .. Len(before) + Len(after) :
           (before \o after)[j] = IF j <= Len(before) THEN before[j] ELSE after[j - Len(before)]
  BY <1>2, <1>3, ConcatProperties
<1>6. Len(before) + Len(after) = n - 1
  BY <1>1, <1>2, <1>3
<1>7. ASSUME NEW j \in 1 .. n - 1
      PROVE  (before \o after)[j] = list[IF j < k THEN j ELSE j + 1]
  <2>1. CASE j < k
    BY <1>1, <1>2, <1>5, <1>6, <2>1
  <2>2. CASE ~(j < k)
    <3>1. j - Len(before) \in 1 .. n - k /\ k + (j - Len(before)) = j + 1
      BY <1>1, <1>2, <2>2
    <3> QED
      BY <1>1, <1>2, <1>3, <1>5, <1>6, <2>2, <3>1
  <2> QED
    BY <2>1, <2>2
<1> QED
  BY <1>4, <1>5, <1>6, <1>7 DEF n

(* The scan has passed all that ends before s, and stopped at something    *)
(* that ends later or at the same place.                                   *)
LEMMA InsertKeepsOrder ==
  ASSUME TypeOK, OfoSorted, NEW s \in Segment, tcp_rcv_ofo_pkt(s)
  PROVE  OfoSorted'
<1>1. PICK k \in 1 .. Len(ofo) + 1 :
        /\ \A j \in 1 .. k - 1 : ~StopsAt(j, s)
        /\ k <= Len(ofo) => StopsAt(k, s)
        /\ IF k <= Len(ofo) /\ ofo[k].seq_end = s.seq_end
           THEN UNCHANGED ofo
           ELSE ofo' = InsertAt(ofo, k, s)
  BY DEF tcp_rcv_ofo_pkt
<1> DEFINE n == Len(ofo)
<1>2. /\ ofo \in Seq(Segment) /\ n \in Nat /\ k \in 1 .. n + 1
      /\ \A j \in 1 .. n : ofo[j] \in Segment
  BY LenProperties, ElementOfSeq DEF TypeOK
<1>3. s.seq_end \in Nat /\ \A j \in 1 .. n : ofo[j].seq_end \in Nat
  BY <1>2, SegmentType, SizeAssumption
<1>4. \A i, j \in 1 .. n : i < j => ofo[i].seq_end < ofo[j].seq_end
  BY DEF OfoSorted
<1>5. \A j \in 1 .. n : j < k => ofo[j].seq_end < s.seq_end
  BY <1>1, <1>2, <1>3 DEF StopsAt
<1>6. CASE UNCHANGED ofo
  BY <1>4, <1>6 DEF OfoSorted
<1>7. CASE ofo' = InsertAt(ofo, k, s) /\ (k <= n => ofo[k].seq_end # s.seq_end)
  <2>1. \A j \in 1 .. n : j >= k => ofo[j].seq_end > s.seq_end
    <3> TAKE j \in 1 .. n
    <3> HAVE j >= k
    <3>1. ofo[k].seq_end > s.seq_end /\ k \in 1 .. n
      BY <1>1, <1>2, <1>3, <1>7 DEF StopsAt
    <3> QED
      BY <1>2, <1>3, <1>4, <3>1
  <2>2. /\ Len(ofo') = n + 1
        /\ \A j \in 1 .. n + 1 :
             ofo'[j] = IF j < k THEN ofo[j] ELSE IF j = k THEN s ELSE ofo[j - 1]
    BY <1>2, <1>7, InsertAtElements
  <2> HIDE DEF n
  <2>3. \A i, j \in 1 .. n + 1 : i < j => ofo'[i].seq_end < ofo'[j].seq_end
    <3> TAKE i, j \in 1 .. n + 1
    <3> HAVE i < j
    <3>1. CASE j < k
      <4>1. i \in 1 .. n /\ j \in 1 .. n /\ i < k
        BY <1>2, <3>1
      <4>2. ofo'[i] = ofo[i] /\ ofo'[j] = ofo[j]
        BY <2>2, <3>1, <4>1
      <4> QED
        BY <1>4, <4>1, <4>2
    <3>2. CASE j = k
      <4>1. i \in 1 .. n /\ i < k
        BY <1>2, <3>2
      <4>2. ofo'[i] = ofo[i] /\ ofo'[j] = s
        BY <2>2, <3>2, <4>1
      <4> QED
        BY <1>5, <4>1, <4>2
    <3>3. CASE j > k /\ i < k
      <4>1. i \in 1 .. n /\ j - 1 \in 1 .. n /\ i < j - 1
        BY <1>2, <3>3
      <4>2. ofo'[i] = ofo[i] /\ ofo'[j] = ofo[j - 1]
        BY <1>2, <2>2, <3>3
      <4> QED
        BY <1>4, <4>1, <4>2
    <3>4. CASE j > k /\ i = k
      <4>1. j - 1 \in 1 .. n /\ j - 1 >= k
        BY <1>2, <3>4
      <4>2. ofo'[i] = s /\ ofo'[j] = ofo[j - 1]
        <5>1. ~(i < k) /\ ~(j < k) /\ j # k
          BY <1>2, <3>4
        <5> QED BY <2>2, <3>4, <5>1
      <4>3. ofo[j - 1].seq_end > s.seq_end /\ ofo[j - 1].seq_end \in Nat
        BY <1>3, <2>1, <4>1
      <4> QED
        BY <1>3, <4>2, <4>3
    <3>5. CASE j > k /\ i > k
      <4>1. i - 1 \in 1 .. n /\ j - 1 \in 1 .. n /\ i - 1 < j - 1
        BY <1>2, <3>5
      <4>2. ofo'[i] = ofo[i - 1] /\ ofo'[j] = ofo[j - 1]
        BY <1>2, <2>2, <3>5
      <4> QED
        BY <1>4, <4>1, <4>2
    <3> QED
      BY <1>2, <3>1, <3>2, <3>3, <3>4, <3>5
  <2> QED
    BY <2>2, <2>3 DEF OfoSorted
<1> QED
  BY <1>1, <1>6, <1>7

LEMMA AdvanceKeepsOrder ==
  ASSUME TypeOK, OfoSorted, Advance
  PROVE  OfoSorted'
<1> DEFINE n == Len(ofo)
<1>1. ofo \in Seq(Segment) /\ n \in Nat
  BY LenProperties DEF TypeOK
<1>2. \A i, j \in 1 .. n : i < j => ofo[i].seq_end < ofo[j].seq_end
  BY DEF OfoSorted
<1>3. CASE UNCHANGED ofo
  BY <1>2, <1>3 DEF OfoSorted
<1>4. CASE \E k \in 1 .. n : ofo' = RemoveAt(ofo, k)
  <2>1. PICK k \in 1 .. n : ofo' = RemoveAt(ofo, k)
    BY <1>4
  <2>2. /\ Len(ofo') = n - 1
        /\ \A j \in 1 .. n - 1 : ofo'[j] = ofo[IF j < k THEN j ELSE j + 1]
    BY <1>1, <2>1, RemoveAtElements
  <2> DEFINE at(j) == IF j < k THEN j ELSE j + 1
  <2>3. \A i, j \in 1 .. n - 1 : at(j) \in 1 .. n /\ (i < j => at(i) < at(j))
    BY <1>1
  <2>4. \A j \in 1 .. n - 1 : ofo'[j] = ofo[at(j)]
    BY <2>2
  <2> HIDE DEF n, at
  <2>5. \A i, j \in 1 .. n - 1 : i < j => ofo'[i].seq_end < ofo'[j].seq_end
    BY <1>2, <2>3, <2>4
  <2> QED
    BY <2>2, <2>5 DEF OfoSorted
<1> QED
  BY <1>3, <1>4 DEF Advance, Next_in_ofo

LEMMA StepKeepsOrder == TypeOK /\ OfoSorted /\ [Next]_vars => OfoSorted'
<1> SUFFICES ASSUME TypeOK, OfoSorted, [Next]_vars
             PROVE  OfoSorted'
  OBVIOUS
<1>1. ASSUME NEW s \in Segment, ReceiveOutOfOrder(s)
      PROVE  OfoSorted'
  BY <1>1, InsertKeepsOrder DEF ReceiveOutOfOrder
<1>2. CASE Advance
  BY <1>2, AdvanceKeepsOrder
<1>3. CASE UNCHANGED ofo
  BY <1>3 DEF OfoSorted
<1>4. ASSUME NEW s \in Segment, ReceiveInOrder(s)
      PROVE  UNCHANGED ofo
  BY <1>4 DEF ReceiveInOrder
<1>5. ReceiveFin \/ Reader \/ UNCHANGED vars => UNCHANGED ofo
  BY DEF ReceiveFin, Reader, ReadBytes, FindEmpty, ReadReturnsZero, ReadHeaderField,
         SendWindowUpdate, sleep_on, WakeFromSleep, vars
<1>6. Rx => Advance \/ UNCHANGED ofo
  BY DEF Rx, WakeReader, Store, Abort, Acknowledge, EnterCloseWait, WakeAtFin
<1> QED
  BY <1>1, <1>2, <1>3, <1>4, <1>5, <1>6 DEF Next, Receive

(* The list of early segments stays sorted and free of duplicates, so that *)
(* the one pass over it in tcp_process finds all that can be taken.        *)
THEOREM ListIsSorted == Spec => []OfoSorted
<1>1. Init => OfoSorted
  BY EmptySeq DEF Init, OfoSorted
<1> QED BY <1>1, StepKeepsOrder, TypeCorrect, PTL DEF Spec
-----------------------------------------------------------------------------
(* The window.  Multiples of MSS are at least MSS apart.                   *)
LEMMA MultiplesApart ==
  ASSUME NEW a \in Nat, NEW b \in Nat, a * MSS < b * MSS + MSS
  PROVE  a <= b /\ a * MSS <= b * MSS
<1>1. MSS \in Nat \ {0}
  BY SizeAssumption
<1>2. a * MSS < (b + 1) * MSS
  BY <1>1
<1>3. a <= b
  <2> SUFFICES ASSUME a >= b + 1 PROVE FALSE
    OBVIOUS
  <2>1. \E c \in Nat : a = b + 1 + c
    <3> WITNESS a - (b + 1) \in Nat
    <3> QED OBVIOUS
  <2>2. PICK c \in Nat : a = b + 1 + c
    BY <2>1
  <2>3. a * MSS = (b + 1) * MSS + c * MSS
    BY <1>1, <2>2
  <2>4. c * MSS >= 0
    BY <1>1
  <2> QED BY <1>1, <1>2, <2>3, <2>4
<1>4. PICK c \in Nat : b = a + c
  BY <1>3
<1>5. b * MSS = a * MSS + c * MSS /\ c * MSS >= 0
  BY <1>1, <1>4
<1> QED BY <1>1, <1>3, <1>5

(* Rounded up to full segments: the least multiple of MSS that is enough.  *)
LEMMA RoundUpIs ==
  ASSUME NEW n \in Nat
  PROVE  \E k \in Nat : RoundUp(n) = k * MSS /\ n <= k * MSS /\ k * MSS < n + MSS
<1>1. MSS \in Nat \ {0}
  BY SizeAssumption
<1> DEFINE d == (n + MSS - 1) \div MSS
           r == (n + MSS - 1) % MSS
<1>2. n + MSS - 1 = d * MSS + r /\ r \in 0 .. MSS - 1 /\ d \in Nat
  BY <1>1
<1> QED BY <1>1, <1>2 DEF RoundUp

LEMMA RoundUpUnique ==
  ASSUME NEW n \in Nat, NEW k \in Nat, n <= k * MSS, k * MSS < n + MSS
  PROVE  RoundUp(n) = k * MSS
<1>1. MSS \in Nat \ {0} /\ k * MSS \in Nat
  BY SizeAssumption
<1>2. PICK j \in Nat : RoundUp(n) = j * MSS /\ n <= j * MSS /\ j * MSS < n + MSS
  BY RoundUpIs
<1>3. j * MSS \in Nat
  BY <1>1
<1>4. j <= k /\ k <= j
  BY <1>1, <1>2, <1>3, MultiplesApart
<1> QED BY <1>2, <1>4

(* A full segment takes as much of the window as it takes of the buffer.   *)
LEMMA RoundUpFull ==
  ASSUME NEW n \in Nat
  PROVE  RoundUp(n + MSS) = RoundUp(n) + MSS
<1>1. MSS \in Nat \ {0}
  BY SizeAssumption
<1>2. PICK k \in Nat : RoundUp(n) = k * MSS /\ n <= k * MSS /\ k * MSS < n + MSS
  BY RoundUpIs
<1>3. (k + 1) * MSS = k * MSS + MSS /\ k * MSS \in Nat /\ k + 1 \in Nat /\ n + MSS \in Nat
  BY <1>1
<1>4. n + MSS <= (k + 1) * MSS /\ (k + 1) * MSS < (n + MSS) + MSS
  BY <1>1, <1>2, <1>3
<1>5. RoundUp(n + MSS) = (k + 1) * MSS
  BY <1>3, <1>4, RoundUpUnique
<1> QED BY <1>2, <1>3, <1>5

(* So does a short one behind full ones.                                   *)
LEMMA RoundUpShort ==
  ASSUME NEW n \in Nat, NEW k \in Nat, n = k * MSS, NEW m \in 1 .. MSS
  PROVE  RoundUp(n + m) = RoundUp(n) + MSS
<1>1. MSS \in Nat \ {0}
  BY SizeAssumption
<1>2. (k + 1) * MSS = k * MSS + MSS /\ k + 1 \in Nat /\ n + m \in Nat
  BY <1>1
<1>3. RoundUp(n) = k * MSS
  BY <1>1, RoundUpUnique
<1>4. n + m <= (k + 1) * MSS /\ (k + 1) * MSS < (n + m) + MSS
  BY <1>1, <1>2
<1>5. RoundUp(n + m) = (k + 1) * MSS
  BY <1>2, <1>4, RoundUpUnique
<1> QED BY <1>2, <1>3, <1>5

(* None takes more of the window.                                          *)
LEMMA RoundUpGrows ==
  ASSUME NEW n \in Nat, NEW m \in 1 .. MSS
  PROVE  RoundUp(n + m) <= RoundUp(n) + MSS
<1>1. MSS \in Nat \ {0} /\ n + m \in Nat
  BY SizeAssumption
<1>2. PICK k \in Nat : RoundUp(n) = k * MSS /\ n <= k * MSS /\ k * MSS < n + MSS
  BY RoundUpIs
<1>3. PICK j \in Nat : RoundUp(n + m) = j * MSS /\ j * MSS < n + m + MSS
  BY <1>1, RoundUpIs
<1>4. (k + 1) * MSS = k * MSS + MSS /\ k * MSS \in Nat /\ k + 1 \in Nat /\ j * MSS \in Nat
  BY <1>1
<1>5. j * MSS < (k + 1) * MSS + MSS
  BY <1>1, <1>2, <1>3, <1>4
<1>6. j * MSS <= (k + 1) * MSS
  BY <1>4, <1>5, MultiplesApart
<1> QED BY <1>2, <1>3, <1>4, <1>6

(* What fits into the buffer fits into the window, which is a multiple.    *)
LEMMA RoundUpFits ==
  ASSUME NEW n \in Nat
  PROVE  /\ RoundUp(n) \in Nat /\ n <= RoundUp(n)
         /\ n <= Capacity => RoundUp(n) <= Capacity
<1>1. MSS \in Nat \ {0} /\ Capacity \in Nat
  BY SizeAssumption
<1>2. PICK k \in Nat : RoundUp(n) = k * MSS /\ n <= k * MSS /\ k * MSS < n + MSS
  BY RoundUpIs
<1> DEFINE c == Capacity \div MSS
<1>3. c \in Nat /\ Capacity = c * MSS
  BY <1>1, WindowAssumption
<1> HIDE DEF c
<1>4. k * MSS \in Nat /\ c * MSS \in Nat
  BY <1>1, <1>3
<1>5. ASSUME n <= Capacity
      PROVE  k * MSS <= c * MSS
  <2>1. k * MSS < c * MSS + MSS
    BY <1>1, <1>2, <1>3, <1>4, <1>5
  <2> QED BY <1>3, <2>1, MultiplesApart
<1> QED BY <1>2, <1>3, <1>4, <1>5

LEMMA RoundUpZero == RoundUp(0) = 0
<1>1. 0 * MSS = 0 /\ MSS \in Nat \ {0}
  BY SizeAssumption
<1> QED BY <1>1, RoundUpUnique

(* The bytes in the buffer are whole segments, unless a short one was      *)
(* stored since the last read: it ended a call of tcp_sock_write.          *)
Aligned ==
  \/ \E k \in Nat : Len(rcv_buf) = k * MSS
  \/ \E t \in Segment :
       Short(t) /\ Len(got) < t.seq_end /\ t.seq_end <= Len(got) + Len(rcv_buf)

(* Whatever is kept or about to be stored was allowed to the peer.         *)
Allowed ==
  /\ \A i \in 1 .. Len(ofo) : MaySend(ofo[i])
  /\ rx \in {"wake", "store"} => MaySend(cur)

(* The FIN is the one sequence number that takes no space.                 *)
Beyond == IF rcv_nxt = Total + 1 THEN 1 ELSE 0

EdgeFits ==
  /\ rd = "update" /\ AckFirst => first <= rcv_nxt
  /\ ~torn => edge <= Len(got) + Capacity + Beyond

Credit ==
  /\ Len(got) + Len(rcv_buf) < Total => rcv_wnd = Capacity - RoundUp(Len(rcv_buf))
  /\ ~torn => rcv_wnd <= Capacity - RoundUp(Len(rcv_buf))

Window ==
  /\ Len(rcv_buf) <= Capacity
  /\ Aligned
  /\ Allowed
  /\ EdgeFits
  /\ Credit
  /\ OverflowsOnlyIfTorn

(* What the proofs below need of IInv.                                     *)
LEMMA Places ==
  ASSUME IInv
  PROVE  /\ Len(got) \in Nat /\ Len(rcv_buf) \in Nat /\ Len(ofo) \in Nat
         /\ Len(got) + Len(rcv_buf) <= Total
         /\ rcv_nxt \in Nat /\ rcv_wnd \in Nat /\ rcv_wnd < U16 /\ edge \in Nat
         /\ rcv_nxt <= Len(got) + Len(rcv_buf) + Beyond
         /\ cur \in Segment /\ cur.seq \in Nat /\ cur.seq_end \in Nat
         /\ cur.seq < cur.seq_end /\ cur.seq_end <= cur.seq + MSS /\ cur.seq_end <= Total
         /\ rx \in {"wake", "store"} =>
              Len(got) + Len(rcv_buf) = cur.seq /\ cur.seq = rcv_nxt
         /\ rx = "advance" => Len(got) + Len(rcv_buf) = cur.seq_end /\ cur.seq = rcv_nxt
         /\ Beyond \in {0, 1}
<1>1. TypeOK /\ Position /\ cur \in Segment
  BY DEF IInv, TypeOK
<1>2. /\ Len(got) \in Nat /\ Len(rcv_buf) \in Nat /\ Len(ofo) \in Nat
  BY <1>1, LenProperties DEF TypeOK
<1>3. /\ rcv_nxt \in Nat /\ rcv_nxt <= Total + 1
      /\ rcv_wnd \in Nat /\ rcv_wnd < U16 /\ edge \in Nat /\ Total \in Nat
  BY <1>1, SizeAssumption DEF TypeOK
<1>4. /\ cur.seq \in Nat /\ cur.seq_end \in Nat
      /\ cur.seq < cur.seq_end /\ cur.seq_end <= cur.seq + MSS /\ cur.seq_end <= Total
  BY <1>1, SegmentType, SegmentAssumption, SizeAssumption
<1>5. CASE rx = "advance"
  <2>1. Len(got) + Len(rcv_buf) = cur.seq_end /\ cur.seq = rcv_nxt
    BY <1>1, <1>5 DEF Position
  <2> QED BY <1>1, <1>2, <1>3, <1>4, <1>5, <2>1 DEF Beyond
<1>6. CASE rx # "advance"
  <2>1. Len(got) + Len(rcv_buf) = less_of(rcv_nxt, Total)
    BY <1>1, <1>6 DEF Position
  <2>2. rx \in {"wake", "store"} => cur.seq = rcv_nxt
    BY <1>1 DEF Position
  <2> QED BY <1>1, <1>2, <1>3, <1>4, <1>6, <2>1, <2>2 DEF Beyond, less_of
<1> QED BY <1>5, <1>6

(* An acknowledgement sent now grants no more than fits.                   *)
LEMMA AckFits ==
  ASSUME IInv, Window, ~torn
  PROVE  rcv_nxt + rcv_wnd <= Len(got) + Capacity + Beyond
<1>1. Capacity \in Nat
  BY SizeAssumption
<1>2. rcv_wnd <= Capacity - RoundUp(Len(rcv_buf))
  BY DEF Window, Credit
<1>3. RoundUp(Len(rcv_buf)) \in Nat /\ Len(rcv_buf) <= RoundUp(Len(rcv_buf))
  BY Places, RoundUpFits
<1> QED BY <1>1, <1>2, <1>3, Places

(* Acknowledgements only add to what the peer may send, and what a header  *)
(* allows fits if its sum does.                                            *)
LEMMA EdgeGrows ==
  ASSUME edge \in Nat, NEW ack \in Nat, NEW wnd \in Nat, SendAck(ack, wnd)
  PROVE  /\ edge' \in Nat /\ edge <= edge'
         /\ edge' = edge \/ edge' = ack + wnd
BY DEF SendAck, more_of

LEMMA MaySendGrows ==
  ASSUME edge \in Nat, edge' \in Nat, edge <= edge', NEW s \in Segment, MaySend(s)
  PROVE  MaySend(s)'
BY SegmentType, SizeAssumption DEF MaySend

LEMMA AllowedKept ==
  ASSUME IInv, Allowed, edge' \in Nat, edge <= edge', UNCHANGED <<ofo, cur>>,
         rx' \in {"wake", "store"} => rx \in {"wake", "store"}
  PROVE  Allowed'
<1>1. \A i \in 1 .. Len(ofo) : ofo[i] \in Segment
  BY ElementOfSeq DEF IInv, TypeOK
<1>2. edge \in Nat /\ cur \in Segment
  BY Places
<1> QED BY <1>1, <1>2, SegmentType, SizeAssumption DEF Allowed, MaySend

(* Steps that change none of the lengths and none of the windows.          *)
LEMMA WindowKept ==
  ASSUME IInv, Window,
         UNCHANGED <<rcv_buf, got, rcv_wnd, ofo, torn, rcv_nxt, edge, cur>>,
         rx' \in {"wake", "store"} => rx \in {"wake", "store"},
         rx' = "aborted" => rx = "aborted",
         rd' = "update" => (rd = "update" /\ first' = first) \/ (AckFirst => first' = rcv_nxt)
  PROVE  Window'
<1>1. Allowed'
  BY AllowedKept, Places DEF Window
<1>2. EdgeFits'
  <2>1. rcv_nxt <= rcv_nxt
    BY Places
  <2> QED BY <2>1 DEF Window, EdgeFits, Beyond
<1>3. Aligned' /\ Credit' /\ OverflowsOnlyIfTorn'
  BY DEF Window, Aligned, Credit, OverflowsOnlyIfTorn
<1> QED BY <1>1, <1>2, <1>3 DEF Window

(* Steps that only send an acknowledgement of the present moment.          *)
LEMMA AckKept ==
  ASSUME IInv, Window, SendAck(rcv_nxt, rcv_wnd),
         UNCHANGED <<rcv_buf, got, rcv_wnd, torn, rcv_nxt, rd, first>>,
         Allowed', rx' # "aborted"
  PROVE  Window'
<1>1. EdgeFits'
  <2>1. edge' = edge \/ edge' = rcv_nxt + rcv_wnd
    BY EdgeGrows, Places
  <2> QED BY <2>1, AckFits DEF Window, EdgeFits, Beyond
<1>2. Aligned' /\ Credit' /\ OverflowsOnlyIfTorn'
  BY DEF Window, Aligned, Credit, OverflowsOnlyIfTorn
<1> QED BY <1>1, <1>2 DEF Window

LEMMA OutOfOrderKeeps ==
  ASSUME IInv, Window, NEW s \in Segment, ReceiveOutOfOrder(s)
  PROVE  Window'
<1>1. /\ MaySend(s) /\ tcp_rcv_ofo_pkt(s) /\ SendAck(rcv_nxt, rcv_wnd) /\ rx = "idle"
      /\ UNCHANGED <<state, rcv_nxt, rcv_wnd, rcv_buf, notified, rx, cur, rd, got, first, torn>>
  BY DEF ReceiveOutOfOrder
<1>2. edge \in Nat /\ edge' \in Nat /\ edge <= edge'
  BY <1>1, EdgeGrows, Places
<1> DEFINE n == Len(ofo)
<1>3. ofo \in Seq(Segment) /\ n \in Nat /\ \A i \in 1 .. n : ofo[i] \in Segment /\ MaySend(ofo[i])
  BY LenProperties, ElementOfSeq DEF IInv, TypeOK, Window, Allowed
<1>4. ASSUME NEW j \in 1 .. Len(ofo')
      PROVE  ofo'[j] \in Segment /\ MaySend(ofo'[j])
  <2>1. CASE ofo' = ofo
    BY <1>3, <1>4, <2>1
  <2>2. CASE \E k \in 1 .. n + 1 : ofo' = InsertAt(ofo, k, s)
    <3>1. PICK k \in 1 .. n + 1 : ofo' = InsertAt(ofo, k, s)
      BY <2>2
    <3>2. /\ Len(ofo') = n + 1
          /\ \A i \in 1 .. n + 1 :
               ofo'[i] = IF i < k THEN ofo[i] ELSE IF i = k THEN s ELSE ofo[i - 1]
      BY <1>3, <3>1, InsertAtElements
    <3> HIDE DEF n
    <3>3. CASE j < k
      <4>1. j \in 1 .. n /\ ofo'[j] = ofo[j]
        BY <1>3, <1>4, <3>2, <3>3
      <4> QED BY <1>3, <4>1
    <3>4. CASE j = k
      BY <1>1, <1>3, <1>4, <3>2, <3>4
    <3>5. CASE j > k
      <4>1. j - 1 \in 1 .. n /\ ofo'[j] = ofo[j - 1]
        BY <1>3, <1>4, <3>2, <3>5
      <4> QED BY <1>3, <4>1
    <3> QED BY <1>3, <1>4, <3>2, <3>3, <3>4, <3>5
  <2> QED BY <1>1, <2>1, <2>2 DEF tcp_rcv_ofo_pkt
<1>5. \A j \in 1 .. Len(ofo') : ofo'[j].seq + MSS <= edge'
  <2> TAKE j \in 1 .. Len(ofo')
  <2>1. ofo'[j] \in Segment /\ ofo'[j].seq + MSS <= edge
    BY <1>4 DEF MaySend
  <2> QED BY <1>2, <2>1, SegmentType, SizeAssumption
<1>6. Allowed'
  BY <1>1, <1>5 DEF Allowed, MaySend
<1> QED BY <1>1, <1>6, AckKept

LEMMA InOrderKeeps ==
  ASSUME IInv, Window, NEW s \in Segment, ReceiveInOrder(s)
  PROVE  Window'
<1>1. /\ MaySend(s) /\ cur' = s /\ rx' = "wake"
      /\ UNCHANGED <<state, rcv_nxt, rcv_wnd, rcv_buf, ofo, notified, rd, got, edge, first, torn>>
  BY DEF ReceiveInOrder
<1>2. Allowed'
  BY <1>1 DEF Window, Allowed, MaySend
<1> QED BY <1>1, <1>2
        DEF Window, Aligned, EdgeFits, Beyond, Credit, OverflowsOnlyIfTorn

LEMMA FinKeeps ==
  ASSUME IInv, Window, ReceiveFin
  PROVE  Window'
<1>1. /\ rx = "idle" /\ rx' = "fin" /\ rcv_nxt = Total /\ rcv_nxt' = Total + 1
      /\ SendAck(Total + 1, rcv_wnd)
      /\ UNCHANGED <<state, rcv_wnd, rcv_buf, ofo, notified, cur, rd, got, first, torn>>
  BY DEF ReceiveFin
<1>2. Total \in Nat /\ Capacity \in Nat /\ Beyond = 0 /\ Beyond' = 1
  BY <1>1, SizeAssumption DEF Beyond
<1>3. edge' \in Nat /\ edge <= edge' /\ (edge' = edge \/ edge' = Total + 1 + rcv_wnd)
  BY <1>1, <1>2, EdgeGrows, Places
<1>4. Allowed'
  BY <1>1, <1>3, AllowedKept DEF Window
<1>5. EdgeFits'
  <2>1. ~torn => edge' <= Len(got) + Capacity + 1
    <3> SUFFICES ASSUME ~torn PROVE edge' <= Len(got) + Capacity + 1
      OBVIOUS
    <3>1. Total + rcv_wnd <= Len(got) + Capacity
      BY <1>1, <1>2, AckFits, Places
    <3>2. edge <= Len(got) + Capacity
      BY <1>2, Places DEF Window, EdgeFits
    <3> QED BY <1>2, <1>3, <3>1, <3>2, Places
  <2>2. rd = "update" /\ AckFirst => first \in Nat /\ first <= Total
    BY <1>1 DEF Window, EdgeFits, IInv, TypeOK
  <2> QED BY <1>1, <1>2, <2>1, <2>2 DEF EdgeFits
<1> QED BY <1>1, <1>4, <1>5
        DEF Window, Aligned, Credit, OverflowsOnlyIfTorn

(* A segment that is allowed fits, and leaves the window large enough.     *)
LEMMA AllowedFits ==
  ASSUME IInv, Window, ~torn, rx \in {"wake", "store"}
  PROVE  Len(rcv_buf) + MSS <= Capacity
<1>1. MSS \in Nat /\ Capacity \in Nat /\ Total \in Nat
  BY SizeAssumption
<1>2. Beyond = 0
  BY <1>1, Places DEF Beyond
<1>3. cur.seq + MSS <= edge /\ edge <= Len(got) + Capacity
  BY <1>1, <1>2, Places DEF Window, Allowed, EdgeFits, MaySend
<1> QED BY <1>1, <1>3, Places

LEMMA AbortKeeps ==
  ASSUME IInv, Window, Abort
  PROVE  Window'
<1>1. /\ rx = "store" /\ rx' = "aborted"
      /\ Len(rcv_buf) + (cur.seq_end - cur.seq) > Capacity
      /\ UNCHANGED <<state, rcv_nxt, rcv_wnd, rcv_buf, ofo, notified, cur, rd, got, edge, first, torn>>
  BY DEF Abort
<1>2. torn
  <2> SUFFICES ASSUME ~torn PROVE FALSE
    BY DEF IInv, TypeOK
  <2>1. Len(rcv_buf) + MSS <= Capacity
    BY <1>1, AllowedFits
  <2>2. MSS \in Nat /\ Capacity \in Nat
    BY SizeAssumption
  <2>3. /\ Len(rcv_buf) \in Nat /\ cur.seq \in Nat /\ cur.seq_end \in Nat
        /\ cur.seq_end <= cur.seq + MSS
    BY Places
  <2> QED BY <1>1, <2>1, <2>2, <2>3
<1>3. Allowed'
  BY <1>1, AllowedKept, Places DEF Window
<1> QED BY <1>1, <1>2, <1>3
        DEF Window, Aligned, EdgeFits, Beyond, Credit, OverflowsOnlyIfTorn

(* What a segment adds to the buffer, the MSS taken off the window pays    *)
(* for.                                                                    *)
LEMMA StoreKeeps ==
  ASSUME IInv, Window, Store
  PROVE  Window'
<1> DEFINE used == Len(rcv_buf)
           n == cur.seq_end - cur.seq
<1>1. /\ rx = "store" /\ rx' = "advance"
      /\ used + n <= Capacity
      /\ rcv_buf' = rcv_buf \o Bytes(cur)
      /\ rcv_wnd' = (rcv_wnd - MSS) % U16
      /\ UNCHANGED <<state, rcv_nxt, ofo, notified, cur, rd, got, edge, first, torn>>
  BY DEF Store
<1>2. /\ MSS \in Nat \ {0} /\ Capacity \in Nat /\ Total \in Nat /\ U16 \in Nat
      /\ used \in Nat /\ n \in 1 .. MSS /\ rcv_wnd \in Nat /\ rcv_wnd < U16
      /\ Len(got) + used = cur.seq /\ cur.seq < Total /\ cur \in Segment
      /\ cur.seq_end = cur.seq + n /\ cur.seq_end <= Total
      /\ Len(got) \in Nat
  <2>1. MSS \in Nat \ {0} /\ Capacity \in Nat /\ Total \in Nat /\ U16 \in Nat
    BY SizeAssumption
  <2>2. /\ used \in Nat /\ rcv_wnd \in Nat /\ rcv_wnd < U16
        /\ Len(got) \in Nat /\ Len(got) + used = cur.seq
        /\ cur \in Segment /\ cur.seq \in Nat /\ cur.seq_end \in Nat
        /\ cur.seq < cur.seq_end /\ cur.seq_end <= cur.seq + MSS /\ cur.seq_end <= Total
    BY <1>1, Places
  <2>3. cur.seq_end = cur.seq + n /\ n \in Nat /\ n >= 1 /\ n <= MSS
    BY <2>1, <2>2
  <2>4. cur.seq < Total
    BY <2>1, <2>2
  <2> HIDE DEF used, n
  <2>5. n \in 1 .. MSS
    BY <2>1, <2>3
  <2> QED BY <2>1, <2>2, <2>3, <2>4, <2>5
<1>3. Len(rcv_buf') = used + n
  <2>1. Bytes(cur) \in Seq(0 .. Total) /\ Len(Bytes(cur)) = n /\ rcv_buf \in Seq(0 .. Total)
    BY <1>2, BytesValue DEF IInv, TypeOK
  <2> QED BY <1>1, <2>1, ConcatProperties
<1> HIDE DEF used, n
<1>4. rcv_wnd = Capacity - RoundUp(used)
  BY <1>2 DEF Window, Credit, used
<1>5. /\ RoundUp(used) \in Nat /\ RoundUp(used + n) \in Nat
      /\ RoundUp(used + n) <= Capacity
      /\ RoundUp(used + n) <= RoundUp(used) + MSS
  <2>1. used + n \in Nat
    BY <1>2
  <2> QED BY <1>1, <1>2, <2>1, RoundUpFits, RoundUpGrows
<1>6. RoundUp(used + n) = RoundUp(used) + MSS \/ cur.seq_end = Total
  <2>1. CASE n = MSS
    BY <1>2, <2>1, RoundUpFull
  <2>2. CASE \E k \in Nat : used = k * MSS
    BY <1>2, <2>2, RoundUpShort
  <2>3. CASE /\ n # MSS
             /\ \E t \in Segment :
                  Short(t) /\ Len(got) < t.seq_end /\ t.seq_end <= Len(got) + used
    <3>1. PICK t \in Segment :
            Short(t) /\ Len(got) < t.seq_end /\ t.seq_end <= Len(got) + used
      BY <2>3
    <3>2. t.seq_end \in Nat /\ t.seq_end < cur.seq_end
      BY <1>2, <3>1, SegmentType
    <3>3. Short(cur)
      BY <1>2, <2>3 DEF Short
    <3>4. cur.seq_end <= Len(got) + Capacity
      BY <1>1, <1>2
    <3>5. ~(cur.seq_end > t.seq_end + Capacity)
      BY <1>2, <3>1, <3>2, <3>4
    <3> QED BY <1>2, <3>1, <3>2, <3>3, <3>5, CallAssumption
  <2> QED BY <2>1, <2>2, <2>3 DEF Window, Aligned, used
<1>7. ASSUME RoundUp(used) + MSS <= Capacity
      PROVE  rcv_wnd' = Capacity - (RoundUp(used) + MSS)
  <2> DEFINE r == RoundUp(used)
  <2>1. rcv_wnd - MSS \in 0 .. U16 - 1
    <3>1. rcv_wnd \in Nat /\ rcv_wnd < U16 /\ MSS \in Nat /\ U16 \in Nat /\ r \in Nat
          /\ Capacity \in Nat /\ rcv_wnd = Capacity - r /\ r + MSS <= Capacity
      BY <1>2, <1>4, <1>5, <1>7
    <3> HIDE DEF r
    <3> QED BY <3>1
  <2>2. (rcv_wnd - MSS) % U16 = rcv_wnd - MSS
    BY <1>2, <2>1
  <2> QED BY <1>1, <1>2, <1>4, <1>5, <2>2
<1>8. Credit'
  <2>1. CASE RoundUp(used + n) = RoundUp(used) + MSS
    <3>1. rcv_wnd' = Capacity - RoundUp(used + n)
      BY <1>5, <1>7, <2>1
    <3>2. RoundUp(Len(rcv_buf))' = RoundUp(used + n)
      BY <1>3 DEF RoundUp
    <3> QED BY <1>2, <1>5, <3>1, <3>2 DEF Credit
  <2>2. CASE cur.seq_end = Total /\ ~torn
    <3>1. RoundUp(used) + MSS <= Capacity
      <4>1. used + MSS <= Capacity
        BY <1>1, <2>2, AllowedFits DEF used
      <4>2. RoundUp(used + MSS) <= Capacity
        BY <1>2, <4>1, RoundUpFits
      <4> QED BY <1>2, <4>2, RoundUpFull
    <3>2. rcv_wnd' = Capacity - (RoundUp(used) + MSS)
      BY <1>7, <3>1
    <3>3. rcv_wnd' <= Capacity - RoundUp(used + n)
      BY <1>2, <1>5, <3>2
    <3>4. ~(Len(got) + (used + n) < Total)
      BY <1>2, <2>2
    <3> QED BY <1>1, <1>3, <3>3, <3>4 DEF Credit, RoundUp
  <2>3. CASE cur.seq_end = Total /\ torn
    <3>1. ~(Len(got) + (used + n) < Total)
      BY <1>2, <2>3
    <3> QED BY <1>1, <1>3, <2>3, <3>1 DEF Credit
  <2> QED BY <1>6, <2>1, <2>2, <2>3
<1>9. Aligned'
  <2>1. CASE n # MSS
    <3>1. Short(cur) /\ Len(got) < cur.seq_end /\ cur.seq_end <= Len(got) + (used + n)
      BY <1>2, <2>1 DEF Short
    <3> QED BY <1>1, <1>2, <1>3, <3>1 DEF Aligned, Short
  <2>2. CASE n = MSS /\ \E k \in Nat : used = k * MSS
    <3>1. PICK k \in Nat : used = k * MSS
      BY <2>2
    <3>2. k + 1 \in Nat /\ used + n = (k + 1) * MSS
      BY <1>2, <2>2, <3>1
    <3> QED BY <1>3, <3>2 DEF Aligned
  <2>3. ASSUME NEW t \in Segment,
               Short(t), Len(got) < t.seq_end, t.seq_end <= Len(got) + used
        PROVE  Aligned'
    <3>1. t.seq_end <= Len(got) + (used + n)
      BY <1>2, <2>3, SegmentType
    <3> QED BY <1>1, <1>3, <2>3, <3>1 DEF Aligned, Short
  <2> QED BY <2>1, <2>2, <2>3 DEF Window, Aligned, used
<1>10. Allowed'
  BY <1>1, AllowedKept, Places DEF Window
<1>11. EdgeFits' /\ OverflowsOnlyIfTorn'
  BY <1>1 DEF Window, EdgeFits, Beyond, OverflowsOnlyIfTorn
<1> QED BY <1>1, <1>2, <1>3, <1>8, <1>9, <1>10, <1>11 DEF Window

LEMMA AdvanceKeeps ==
  ASSUME IInv, Window, Advance
  PROVE  Window'
<1>1. /\ rx = "advance" /\ rcv_nxt' = cur.seq_end /\ rx' \in {"ack", "wake"}
      /\ UNCHANGED <<state, rcv_wnd, rcv_buf, notified, rd, got, edge, first, torn>>
  BY DEF Advance
<1> DEFINE n == Len(ofo)
<1>2. ofo \in Seq(Segment) /\ n \in Nat /\ \A i \in 1 .. n : MaySend(ofo[i])
  BY LenProperties DEF IInv, TypeOK, Window, Allowed
<1>3. Allowed'
  <2>1. CASE rx' = "ack" /\ UNCHANGED ofo
    BY <1>1, <1>2, <2>1 DEF Allowed, MaySend
  <2>2. CASE \E i \in 1 .. n : cur' = ofo[i] /\ ofo' = RemoveAt(ofo, i)
    <3>1. PICK i \in 1 .. n : cur' = ofo[i] /\ ofo' = RemoveAt(ofo, i)
      BY <2>2
    <3>2. /\ Len(ofo') = n - 1
          /\ \A j \in 1 .. n - 1 : ofo'[j] = ofo[IF j < i THEN j ELSE j + 1]
      BY <1>2, <3>1, RemoveAtElements
    <3>3. \A j \in 1 .. n - 1 : (IF j < i THEN j ELSE j + 1) \in 1 .. n
      BY <1>2
    <3> HIDE DEF n
    <3>4. \A j \in 1 .. n - 1 : MaySend(ofo'[j])
      BY <1>2, <3>2, <3>3
    <3> QED BY <1>1, <1>2, <3>1, <3>2, <3>4 DEF Allowed, MaySend
  <2> QED BY <2>1, <2>2 DEF Advance, Next_in_ofo
<1>4. EdgeFits'
  <2>1. Beyond = 0 /\ Beyond' = 0
    BY <1>1, Places, SizeAssumption DEF Beyond
  <2>2. rd = "update" /\ AckFirst => first \in Nat /\ first <= cur.seq_end
    BY <1>1, Places DEF Window, EdgeFits, IInv, TypeOK
  <2> QED BY <1>1, <2>1, <2>2 DEF Window, EdgeFits
<1> QED BY <1>1, <1>3, <1>4 DEF Window, Aligned, Credit, OverflowsOnlyIfTorn

(* The reader takes all there is, and gives back the whole window.         *)
LEMMA ReadKeeps ==
  ASSUME IInv, Window, ReadBytes
  PROVE  Window'
<1> DEFINE used == Len(rcv_buf)
<1>1. used \in Nat /\ used <= Capacity /\ Capacity \in Nat /\ MSS \in Nat \ {0} /\ U16 \in Nat
      /\ U16 > Capacity /\ used <= ReadLen /\ ReadLen \in Nat /\ Len(got) \in Nat
  BY Places, SizeAssumption, WindowAssumption DEF Window
<1>2. less_of(Len(rcv_buf), ReadLen) = used
  BY <1>1 DEF less_of
<1>3. /\ got' = got \o SubSeq(rcv_buf, 1, used)
      /\ rcv_buf' = SubSeq(rcv_buf, used + 1, used)
      /\ rcv_wnd' = (rcv_wnd + RoundUp(used)) % U16
      /\ UNCHANGED <<state, rcv_nxt, ofo, notified, rx, cur, rd, edge, first, torn>>
  BY <1>2 DEF ReadBytes
<1>4. Len(got') = Len(got) + used /\ Len(rcv_buf') = 0
  <2>1. /\ rcv_buf \in Seq(0 .. Total) /\ got \in Seq(0 .. Total)
        /\ \A i \in 1 .. used : rcv_buf[i] \in 0 .. Total
    BY ElementOfSeq DEF IInv, TypeOK
  <2>2. /\ SubSeq(rcv_buf, 1, used) \in Seq(0 .. Total)
        /\ Len(SubSeq(rcv_buf, 1, used)) = used
    BY <1>1, <2>1, SubSeqProperties
  <2>3. Len(SubSeq(rcv_buf, used + 1, used)) = 0
    BY <1>1, <2>1, SubSeqProperties
  <2> QED BY <1>3, <2>1, <2>2, <2>3, ConcatProperties
<1>5. RoundUp(used) \in Nat /\ RoundUp(used) <= Capacity /\ RoundUp(0) = 0
  BY <1>1, RoundUpFits, RoundUpZero
<1> HIDE DEF used
<1>6. Aligned'
  <2>1. 0 = 0 * MSS
    BY <1>1
  <2> QED BY <1>4, <2>1 DEF Aligned
<1>7. Credit'
  <2>1. RoundUp(Len(rcv_buf))' = 0
    BY <1>4, <1>5 DEF RoundUp
  <2>2. ASSUME rcv_wnd <= Capacity - RoundUp(used)
        PROVE  rcv_wnd' = rcv_wnd + RoundUp(used)
    <3>1. rcv_wnd + RoundUp(used) \in 0 .. U16 - 1
      BY <1>1, <1>5, <2>2, Places
    <3>2. (rcv_wnd + RoundUp(used)) % U16 = rcv_wnd + RoundUp(used)
      BY <1>1, <3>1
    <3> QED BY <1>3, <3>2
  <2>3. Len(got') + Len(rcv_buf') = Len(got) + used
    BY <1>1, <1>4
  <2>4. Len(got) + used < Total => rcv_wnd = Capacity - RoundUp(used)
    BY DEF Window, Credit, used
  <2>5. Len(got') + Len(rcv_buf') < Total => rcv_wnd' = Capacity
    BY <1>1, <1>5, <2>2, <2>3, <2>4
  <2>6. ~torn => rcv_wnd' <= Capacity
    <3>1. ~torn => rcv_wnd <= Capacity - RoundUp(used)
      BY DEF Window, Credit, used
    <3> QED BY <1>1, <1>5, <2>2, <3>1, Places
  <2>7. Capacity - 0 = Capacity
    BY <1>1
  <2> QED BY <1>3, <2>1, <2>5, <2>6, <2>7 DEF Credit
<1>8. Allowed'
  BY <1>3, AllowedKept, Places DEF Window
<1>9. EdgeFits'
  <2>1. Beyond' = Beyond
    BY <1>3 DEF Beyond
  <2> QED BY <1>1, <1>3, <1>4, <2>1, Places DEF Window, EdgeFits
<1>10. OverflowsOnlyIfTorn'
  BY <1>3 DEF Window, OverflowsOnlyIfTorn
<1> QED BY <1>1, <1>4, <1>6, <1>7, <1>8, <1>9, <1>10 DEF Window

(* A window update whose two fields were read at different moments grants  *)
(* no more than one sent now, unless the window was read first.            *)
LEMMA UpdateKeeps ==
  ASSUME IInv, Window, SendWindowUpdate
  PROVE  Window'
<1>1. /\ rd = "update" /\ rd' = "sleep_on"
      /\ IF AckFirst THEN SendAck(first, rcv_wnd) ELSE SendAck(rcv_nxt, first)
      /\ torn' = (torn \/ (~AckFirst /\ first # rcv_wnd))
      /\ UNCHANGED <<state, rcv_nxt, rcv_wnd, rcv_buf, ofo, notified, rx, cur, got, first>>
  BY DEF SendWindowUpdate
<1>2. first \in Nat /\ Capacity \in Nat
  BY SizeAssumption DEF IInv, TypeOK
<1>3. edge' \in Nat /\ edge <= edge'
  BY <1>1, <1>2, EdgeGrows, Places
<1>4. ASSUME ~torn'
      PROVE  edge' <= Len(got) + Capacity + Beyond
  <2>1. ~torn /\ (AckFirst \/ first = rcv_wnd)
    BY <1>1, <1>4
  <2>2. edge <= Len(got) + Capacity + Beyond
    BY <2>1 DEF Window, EdgeFits
  <2>3. rcv_nxt + rcv_wnd <= Len(got) + Capacity + Beyond
    BY <2>1, AckFits
  <2>4. CASE AckFirst
    <3>1. first <= rcv_nxt
      BY <1>1, <2>4 DEF Window, EdgeFits
    <3>2. edge' = edge \/ edge' = first + rcv_wnd
      BY <1>1, <1>2, <2>4, EdgeGrows, Places
    <3> QED BY <1>2, <2>2, <2>3, <3>1, <3>2, Places
  <2>5. CASE ~AckFirst
    <3>1. edge' = edge \/ edge' = rcv_nxt + rcv_wnd
      BY <1>1, <1>2, <2>1, <2>5, EdgeGrows, Places
    <3> QED BY <2>2, <2>3, <3>1
  <2> QED BY <2>4, <2>5
<1>5. EdgeFits'
  BY <1>1, <1>4 DEF EdgeFits, Beyond
<1>6. Allowed'
  BY <1>1, <1>3, AllowedKept DEF Window
<1>7. torn => torn'
  BY <1>1
<1> QED BY <1>1, <1>5, <1>6, <1>7
        DEF Window, Aligned, Credit, OverflowsOnlyIfTorn

LEMMA InitWindow == Init => Window
<1> SUFFICES ASSUME Init PROVE Window
  OBVIOUS
<1>1. /\ Len(rcv_buf) = 0 /\ Len(got) = 0 /\ Len(ofo) = 0 /\ Capacity \in Nat
      /\ MSS \in Nat /\ Total \in Nat
  BY SizeAssumption DEF Init
<1>2. Aligned
  <2>1. Len(rcv_buf) = 0 * MSS
    BY <1>1
  <2> QED BY <2>1 DEF Aligned
<1>3. Allowed
  BY <1>1 DEF Init, Allowed
<1>4. EdgeFits
  BY <1>1 DEF Init, EdgeFits, Beyond
<1>5. Credit
  BY <1>1, RoundUpZero DEF Init, Credit
<1> QED BY <1>1, <1>2, <1>3, <1>4, <1>5 DEF Init, Window, OverflowsOnlyIfTorn

LEMMA StepWindow == IInv /\ Window /\ [Next]_vars => Window'
<1> SUFFICES ASSUME IInv, Window, [Next]_vars
             PROVE  Window'
  OBVIOUS
<1>1. ASSUME NEW s \in Segment, Receive(s)
      PROVE  Window'
  BY <1>1, OutOfOrderKeeps, InOrderKeeps DEF Receive
<1>2. CASE ReceiveFin
  BY <1>2, FinKeeps
<1>3. CASE WakeReader
  BY <1>3, WindowKept DEF WakeReader
<1>4. CASE Store
  BY <1>4, StoreKeeps
<1>5. CASE Abort
  BY <1>5, AbortKeeps
<1>6. CASE Advance
  BY <1>6, AdvanceKeeps
<1>7. CASE Acknowledge
  <2>1. /\ SendAck(rcv_nxt, rcv_wnd) /\ rx' = "idle"
        /\ UNCHANGED <<state, rcv_nxt, rcv_wnd, rcv_buf, ofo, notified, cur, rd, got, first, torn>>
    BY <1>7 DEF Acknowledge
  <2>2. edge' \in Nat /\ edge <= edge'
    BY <2>1, EdgeGrows, Places
  <2>3. Allowed'
    BY <2>1, <2>2, AllowedKept DEF Window
  <2> QED BY <2>1, <2>3, AckKept
<1>8. CASE EnterCloseWait
  BY <1>8, WindowKept DEF EnterCloseWait
<1>9. CASE WakeAtFin
  BY <1>9, WindowKept DEF WakeAtFin
<1>10. CASE ReadBytes
  BY <1>10, ReadKeeps
<1>11. CASE SendWindowUpdate
  BY <1>11, UpdateKeeps
<1>12. CASE FindEmpty \/ ReadReturnsZero \/ ReadHeaderField
  BY <1>12, WindowKept DEF FindEmpty, ReadReturnsZero, ReadHeaderField
<1>13. CASE sleep_on \/ WakeFromSleep
  BY <1>13, WindowKept DEF sleep_on, WakeFromSleep
<1>14. CASE UNCHANGED vars
  BY <1>14, WindowKept DEF vars
<1> QED BY <1>1, <1>2, <1>3, <1>4, <1>5, <1>6, <1>7, <1>8, <1>9, <1>10, <1>11,
           <1>12, <1>13, <1>14
        DEF Next, Rx, Reader

(* The strengthened invariant holds in every state.                        *)
LEMMA WindowAlways == Spec => [](IInv /\ Window)
BY InitInv, StepInv, InitWindow, StepWindow, PTL DEF Spec

(* What the invariant says of the peer: the FIN is the only thing that may *)
(* lie behind the window.                                                  *)
LEMMA WindowGrants ==
  ASSUME IInv, Window
  PROVE  GrantsFit
<1>1. ASSUME ~torn, NEW s \in Segment, MaySend(s)
      PROVE  s.seq_end <= Len(got) + Capacity
  <2>1. /\ s.seq_end \in Nat /\ s.seq \in Nat /\ s.seq_end <= s.seq + MSS /\ s.seq_end <= Total
        /\ Capacity \in Nat /\ MSS \in Nat /\ Total \in Nat
    BY SegmentType, SegmentAssumption, SizeAssumption
  <2>2. s.seq_end <= edge /\ edge <= Len(got) + Capacity + Beyond
    BY <1>1, <2>1, Places DEF MaySend, Window, EdgeFits
  <2>3. CASE Beyond = 0
    BY <2>1, <2>2, <2>3, Places
  <2>4. CASE rcv_nxt = Total + 1
    <3>1. rx # "advance"
      BY <2>1, <2>4, Places
    <3>2. Len(got) + Len(rcv_buf) = Total
      BY <2>1, <2>4, <3>1 DEF IInv, Position, less_of
    <3> QED BY <2>1, <3>2, Places DEF Window
  <2> QED BY <2>3, <2>4 DEF Beyond
<1> QED BY <1>1 DEF Window, Credit, GrantsFit

(* The window advertised is what is left of the buffer, and nothing the    *)
(* peer was ever allowed to send exceeds it while no update was torn: for  *)
(* every stream, window and cutting that the assumptions admit.            *)
THEOREM GrantsAlwaysFit == Spec => []GrantsFit
BY WindowAlways, WindowGrants, PTL

(* The assertion of write_ring_buffer fails after a torn window update or  *)
(* not at all.                                                             *)
THEOREM OverflowNeedsTornUpdate == Spec => []OverflowsOnlyIfTorn
<1>1. Window => OverflowsOnlyIfTorn
  BY DEF Window
<1> QED BY <1>1, WindowAlways, PTL
-----------------------------------------------------------------------------
(***************************************************************************)
(* The ring buffer that holds the bytes between the two threads, as        *)
(* RingBuffer models it, of any size.                                      *)
(***************************************************************************)
LEMMA SizeType == size \in Nat /\ size > 1
BY RingSizeAssumption DEF size

(* An index plus a length stays below twice the array, so taking it modulo *)
(* the size is at most one subtraction.                                    *)
LEMMA Wrap ==
  \A x \in 0 .. 2 * size - 1 :
    /\ x % size \in 0 .. size - 1
    /\ x < size => x % size = x
    /\ x >= size => x % size = x - size
BY SizeType

(* The bytes held are counted by the distance from head to tail.           *)
LEMMA UsedValue ==
  ASSUME head \in 0 .. size - 1, tail \in 0 .. size - 1
  PROVE  /\ ring_buffer_used \in 0 .. size - 1
         /\ tail >= head => ring_buffer_used = tail - head
         /\ tail < head => ring_buffer_used = tail - head + size
         /\ (head + ring_buffer_used) % size = tail
<1> DEFINE d == tail - head + size
<1>1. d \in 0 .. 2 * size - 1
  BY SizeType
<1>2. ring_buffer_used = d % size
  BY DEF ring_buffer_used
<1>3. /\ ring_buffer_used \in 0 .. size - 1
      /\ tail >= head => ring_buffer_used = tail - head
      /\ tail < head => ring_buffer_used = tail - head + size
  BY <1>1, <1>2, Wrap, SizeType
<1>4. head + ring_buffer_used \in 0 .. 2 * size - 1
  BY <1>3, SizeType
<1>5. (head + ring_buffer_used) % size = tail
  BY <1>3, <1>4, Wrap, SizeType
<1> QED BY <1>3, <1>5

(* A read returns the oldest bytes, whichever way the copies are split.    *)
LEMMA TakenValue ==
  ASSUME RingTypeOK, NEW len \in 0 .. ring_buffer_used
  PROVE  Taken(len) = [i \in 1 .. len |-> buf[(head + i - 1) % size]]
<1>1. /\ size \in Nat /\ size > 1
      /\ head \in 0 .. size - 1
      /\ buf \in [0 .. size - 1 -> Byte]
      /\ len \in 0 .. size - 1
  <2>1. ring_buffer_used \in 0 .. size - 1
    <3>1. head \in 0 .. size - 1 /\ tail \in 0 .. size - 1
      BY DEF RingTypeOK
    <3> QED BY <3>1, UsedValue
  <2>2. size \in Nat /\ size > 1
    BY SizeType
  <2>3. len \in 0 .. size - 1
    <3> HIDE DEF ring_buffer_used
    <3> QED BY <2>1, <2>2
  <2> QED BY <2>2, <2>3 DEF RingTypeOK
<1>2. ASSUME NEW i \in 1 .. len
      PROVE  (head + i - 1) % size =
               IF i <= size - head THEN head + i - 1 ELSE i - (size - head) - 1
  <2> DEFINE x == head + i - 1
  <2>1. x \in 0 .. 2 * size - 1
    BY <1>1
  <2>2. x % size \in 0 .. size - 1 /\ (x < size => x % size = x) /\ (x >= size => x % size = x - size)
    <3> HIDE DEF x
    <3> QED BY <2>1, Wrap
  <2> QED BY <1>1, <2>2
<1>3. CASE head + len > size
  <2> DEFINE right == size - head
             a == CopyOut(head, right)
             b == CopyOut(0, len - right)
  <2>1. right \in 1 .. len /\ right \in Nat /\ len - right \in Nat
    BY <1>1, <1>3
  <2>2. a \in [1 .. right -> Byte] /\ \A i \in 1 .. right : a[i] = buf[head + i - 1]
    BY <1>1, <2>1 DEF CopyOut
  <2>3. /\ b \in [1 .. len - right -> Byte]
        /\ \A i \in 1 .. len - right : b[i] = buf[i - 1]
    BY <1>1, <2>1 DEF CopyOut
  <2>4. Taken(len) = a \o b
    BY <1>3 DEF Taken
  <2> HIDE DEF a, b, right
  <2>5. a \in Seq(Byte) /\ Len(a) = right /\ b \in Seq(Byte) /\ Len(b) = len - right
    BY <2>1, <2>2, <2>3, FunctionIsSeq
  <2> DEFINE t == [i \in 1 .. len |-> buf[(head + i - 1) % size]]
  <2>6. right + (len - right) = len
    BY <1>1, <2>1
  <2>7. /\ a \o b \in Seq(Byte)
        /\ Len(a \o b) = len
        /\ \A i \in 1 .. len : (a \o b)[i] = IF i <= right THEN a[i] ELSE b[i - right]
    BY <2>5, <2>6, ConcatProperties
  <2>8. ASSUME NEW i \in 1 .. len
        PROVE  (a \o b)[i] = t[i]
    <3>1. CASE i <= right
      <4>1. i \in 1 .. right /\ (head + i - 1) % size = head + i - 1
        BY <1>1, <1>2, <2>1, <3>1 DEF right
      <4> QED BY <2>2, <2>7, <3>1, <4>1
    <3>2. CASE ~(i <= right)
      <4>1. i - right \in 1 .. len - right /\ (head + i - 1) % size = (i - right) - 1
        BY <1>1, <1>2, <2>1, <3>2 DEF right
      <4> QED BY <2>3, <2>7, <3>2, <4>1
    <3> QED BY <3>1, <3>2
  <2>9. t \in Seq(Byte) /\ Len(t) = len
    <3>1. \A i \in 1 .. len : (head + i - 1) % size \in 0 .. size - 1
      BY <1>1, <1>2
    <3>2. t \in [1 .. len -> Byte]
      BY <1>1, <3>1
    <3> QED BY <1>1, <3>2, FunctionIsSeq
  <2> HIDE DEF t
  <2>10. a \o b = t
    BY <2>7, <2>8, <2>9, SeqEqual
  <2> QED BY <2>4, <2>10 DEF t
<1>4. CASE ~(head + len > size)
  <2>1. \A i \in 1 .. len : (head + i - 1) % size = head + i - 1
    BY <1>1, <1>2, <1>4
  <2> QED BY <1>4, <2>1 DEF Taken, CopyOut
<1> QED BY <1>3, <1>4

(* After a write, the slots from tail on hold the data, wherever it wraps, *)
(* and every other slot holds what it held.                                *)
LEMMA StoredValue ==
  ASSUME RingTypeOK, NEW data, data \in Seq(Byte), Len(data) > 0,
         Len(data) <= ring_buffer_free
  PROVE  /\ Stored(data) \in [0 .. size - 1 -> Byte]
         /\ \A j \in 0 .. size - 1 :
              Stored(data)[j] = IF tail <= j /\ j < tail + Len(data)
                                THEN data[j - tail + 1]
                                ELSE IF j < tail + Len(data) - size
                                     THEN data[j + size - tail + 1]
                                     ELSE buf[j]
<1> DEFINE len == Len(data)
           right == size - tail
<1>1. /\ size \in Nat /\ size > 1
      /\ tail \in 0 .. size - 1
      /\ buf \in [0 .. size - 1 -> Byte]
      /\ len \in 1 .. size - 1
      /\ right \in 1 .. size
      /\ \A i \in 1 .. len : data[i] \in Byte
  <2>1. /\ size \in Nat /\ size > 1 /\ tail \in 0 .. size - 1
        /\ buf \in [0 .. size - 1 -> Byte] /\ len \in Nat /\ len > 0
    BY SizeType, LenProperties DEF RingTypeOK
  <2>2. len <= size - 1
    <3>1. ring_buffer_used \in 0 .. size - 1
      BY UsedValue DEF RingTypeOK
    <3> QED BY <2>1, <3>1 DEF ring_buffer_free
  <2>3. \A i \in 1 .. len : data[i] \in Byte
    BY ElementOfSeq
  <2> QED BY <2>1, <2>2, <2>3
<1> HIDE DEF len, right
<1>2. CASE tail + len > size
  <2> DEFINE b == CopyIn(buf, tail, data, 1, right)
  <2>1. right < len
    BY <1>1, <1>2 DEF right
  <2>2. /\ b \in [0 .. size - 1 -> Byte]
        /\ \A j \in 0 .. size - 1 : b[j] = IF tail <= j THEN data[j - tail + 1] ELSE buf[j]
    BY <1>1, <2>1 DEF CopyIn, right
  <2>3. Stored(data) = CopyIn(b, 0, data, right + 1, len - right)
    BY <1>2 DEF Stored, len, right
  <2> HIDE DEF b
  <2>4. \A j \in 0 .. size - 1 :
          Stored(data)[j] = IF j < len - right THEN data[j + right + 1] ELSE b[j]
    BY <1>1, <2>1, <2>3 DEF CopyIn
  <2>5. Stored(data) \in [0 .. size - 1 -> Byte]
    BY <1>1, <2>1, <2>2, <2>3 DEF CopyIn
  <2> QED BY <1>1, <1>2, <2>1, <2>2, <2>4, <2>5 DEF right, len
<1>3. CASE ~(tail + len > size)
  <2>1. Stored(data) = CopyIn(buf, tail, data, 1, len)
    BY <1>3 DEF Stored, len
  <2> QED BY <1>1, <1>3, <2>1 DEF CopyIn, len
<1> QED BY <1>2, <1>3

(* The buffer's variables keep their types.                                *)
THEOREM RingTypeCorrect == RingSpec => []RingTypeOK
<1>1. RingInit => RingTypeOK
  BY SizeType, ByteAssumption, EmptySeq DEF RingInit, alloc_ring_buffer, RingTypeOK
<1>2. ASSUME RingTypeOK, [RingNext]_ringVars
      PROVE  RingTypeOK'
  <2> USE SizeType
  <2>1. ASSUME NEW n \in 1 .. RingSize, NEW data \in [1 .. n -> Byte],
               write_ring_buffer(data)
        PROVE  RingTypeOK'
    <3>1. data \in Seq(Byte) /\ Len(data) = n
      BY RingSizeAssumption, FunctionIsSeq
    <3>2. Len(data) \in 1 .. size - 1
      BY <3>1, RingSizeAssumption DEF size
    <3>3. tail + Len(data) \in 0 .. 2 * size - 1
      BY <3>2, <1>2 DEF RingTypeOK
    <3>4. tail' \in 0 .. size - 1
      BY <2>1, <3>3, Wrap DEF write_ring_buffer, Advanced
    <3>5. Len(data) <= ring_buffer_free
      BY <2>1, <1>2, UsedValue DEF write_ring_buffer, ring_buffer_free, RingTypeOK
    <3>6. buf' \in [0 .. size - 1 -> Byte]
      BY <1>2, <2>1, <3>1, <3>5, StoredValue DEF write_ring_buffer
    <3> QED BY <1>2, <2>1, <3>4, <3>6, EmptySeq DEF write_ring_buffer, Advanced, RingTypeOK
  <2>2. ASSUME NEW n \in 1 .. size, read_ring_buffer(n)
        PROVE  RingTypeOK'
    <3> DEFINE len == ReadLength(n)
    <3>1. len \in 0 .. ring_buffer_used /\ len \in 0 .. size - 1
      BY <1>2, UsedValue, SMTT(30) DEF ReadLength, RingTypeOK
    <3>2. out' = Taken(len) /\ head' = (head + len) % size /\ UNCHANGED <<tail, buf>>
      BY <2>2 DEF read_ring_buffer, Advanced
    <3> HIDE DEF len
    <3>3. head + len \in 0 .. 2 * size - 1
      BY <1>2, <3>1 DEF RingTypeOK
    <3>4. head' \in 0 .. size - 1
      BY <3>2, <3>3, Wrap
    <3>5. out' \in Seq(Byte)
      <4>1. out' = [i \in 1 .. len |-> buf[(head + i - 1) % size]]
        BY <1>2, <3>1, <3>2, TakenValue
      <4>2. ASSUME NEW i \in 1 .. len
            PROVE  buf[(head + i - 1) % size] \in Byte
        <5>1. head + i - 1 \in 0 .. 2 * size - 1
          BY <1>2, <3>1 DEF RingTypeOK
        <5>2. (head + i - 1) % size \in 0 .. size - 1
          BY <5>1, Wrap
        <5> QED BY <1>2, <5>2 DEF RingTypeOK
      <4>3. out' \in [1 .. len -> Byte]
        BY <4>1, <4>2
      <4> QED BY <3>1, <4>3, FunctionIsSeq
    <3> QED BY <1>2, <3>2, <3>4, <3>5 DEF RingTypeOK
  <2>3. CASE UNCHANGED ringVars
    BY <1>2, <2>3 DEF ringVars, RingTypeOK
  <2> QED BY <1>2, <2>1, <2>2, <2>3 DEF RingNext
<1> QED BY <1>1, <1>2, PTL DEF RingSpec

(* The bytes held form a sequence as long as the buffer is used.           *)
LEMMA ContentsValue ==
  ASSUME RingTypeOK
  PROVE  /\ ring_buffer_used \in Nat
         /\ Contents \in Seq(Byte)
         /\ Len(Contents) = ring_buffer_used
         /\ \A i \in 1 .. ring_buffer_used : Contents[i] = buf[(head + i - 1) % size]
<1>1. /\ ring_buffer_used \in 0 .. size - 1
      /\ size \in Nat
      /\ head \in 0 .. size - 1
      /\ buf \in [0 .. size - 1 -> Byte]
  BY SizeType, UsedValue DEF RingTypeOK
<1>2. ASSUME NEW i \in 1 .. ring_buffer_used
      PROVE  buf[(head + i - 1) % size] \in Byte
  <2>1. head + i - 1 \in 0 .. 2 * size - 1
    BY <1>1
  <2>2. (head + i - 1) % size \in 0 .. size - 1
    BY <2>1, Wrap
  <2> QED BY <1>1, <2>2
<1>3. Contents \in [1 .. ring_buffer_used -> Byte]
  BY <1>2 DEF Contents
<1> QED BY <1>1, <1>3, FunctionIsSeq DEF Contents

(* A write appends its data to the bytes held.                             *)
LEMMA WriteAppends ==
  ASSUME RingTypeOK, RingTypeOK', NEW data \in Seq(Byte), write_ring_buffer(data)
  PROVE  /\ Len(Contents) + Len(data) <= RingSize
         /\ Contents' = Contents \o data
<1> DEFINE len == Len(data)
           used == ring_buffer_used
<1>1. /\ size \in Nat /\ size > 1
      /\ head \in 0 .. size - 1
      /\ tail \in 0 .. size - 1
      /\ used \in 0 .. size - 1
      /\ len \in Nat /\ len > 0
      /\ len <= size - used - 1
  BY SizeType, UsedValue, LenProperties
     DEF RingTypeOK, write_ring_buffer, ring_buffer_free
<1>post. head' = head /\ buf' = Stored(data) /\ tail' = (tail + len) % size
  BY DEF write_ring_buffer, Advanced
<1>2. len <= ring_buffer_free
  BY DEF write_ring_buffer, Advanced
<1>3. \A j \in 0 .. size - 1 :
        buf'[j] = IF tail <= j /\ j < tail + len
                  THEN data[j - tail + 1]
                  ELSE IF j < tail + len - size
                       THEN data[j + size - tail + 1]
                       ELSE buf[j]
  BY <1>1, <1>2, <1>post, StoredValue
<1>4. tail >= head => used = tail - head
  BY UsedValue DEF RingTypeOK
<1>5. tail < head => used = tail - head + size
  BY UsedValue DEF RingTypeOK
<1> HIDE DEF len, used
<1>6. tail' = IF tail + len < size THEN tail + len ELSE tail + len - size
  <2> DEFINE x == tail + len
  <2>1. x \in 0 .. 2 * size - 1
    BY <1>1
  <2>2. (x < size => x % size = x) /\ (x >= size => x % size = x - size)
    <3> HIDE DEF x
    <3> QED BY <2>1, Wrap
  <2> QED BY <1>1, <1>post, <2>2
<1>7. ring_buffer_used' = used + len
  <2> DEFINE x == tail' - head + size
  <2>1. ring_buffer_used' = x % size
    BY <1>post DEF ring_buffer_used, size
  <2>2. x \in 0 .. 2 * size - 1
    BY <1>1, <1>6
  <2>3. (x < size => x % size = x) /\ (x >= size => x % size = x - size)
    <3> HIDE DEF x
    <3> QED BY <2>2, Wrap
  <2> QED BY <1>1, <1>4, <1>5, <1>6, <2>1, <2>3
<1>8. /\ Contents \in Seq(Byte) /\ Len(Contents) = used
      /\ \A i \in 1 .. used : Contents[i] = buf[(head + i - 1) % size]
  BY ContentsValue DEF used
<1>9. /\ Contents' \in Seq(Byte) /\ Len(Contents') = used + len
      /\ \A i \in 1 .. used + len : Contents'[i] = buf'[(head + i - 1) % size]
  <2>1. \A i \in 1 .. used + len : (head + i - 1) % size \in 0 .. size - 1
    <3>1. \A i \in 1 .. used + len : head + i - 1 \in 0 .. 2 * size - 1
      BY <1>1
    <3> QED BY <3>1, Wrap
  <2>2. Contents' = [i \in 1 .. used + len |-> buf'[(head + i - 1) % size]]
    BY <1>7, <1>post DEF Contents, size
  <2>3. buf' \in [0 .. size - 1 -> Byte]
    BY DEF RingTypeOK, size
  <2>4. Contents' \in [1 .. used + len -> Byte]
    BY <2>1, <2>2, <2>3
  <2>5. used + len \in Nat
    BY <1>1
  <2> QED BY <2>2, <2>4, <2>5, FunctionIsSeq
<1>10. /\ Contents \o data \in Seq(Byte) /\ Len(Contents \o data) = used + len
       /\ \A i \in 1 .. used + len :
            (Contents \o data)[i] = IF i <= used THEN Contents[i] ELSE data[i - used]
  BY <1>8, ConcatProperties DEF len
<1>11. ASSUME NEW i \in 1 .. used + len
       PROVE  Contents'[i] = (Contents \o data)[i]
  <2> DEFINE x == head + i - 1
             j == x % size
  <2>1. x \in 0 .. 2 * size - 1
    BY <1>1
  <2>2. j \in 0 .. size - 1 /\ (x < size => j = x) /\ (x >= size => j = x - size)
    <3> HIDE DEF x
    <3> QED BY <2>1, Wrap
  <2>3. Contents'[i] = buf'[j]
    BY <1>9
  <2>4. i <= used => Contents[i] = buf[j]
    BY <1>1, <1>8
  <2> HIDE DEF j
  <2>5. CASE i <= used
    <3>1. ~(tail <= j /\ j < tail + len) /\ ~(j < tail + len - size)
      BY <1>1, <1>4, <1>5, <2>2, <2>5
    <3> QED BY <1>3, <1>10, <2>2, <2>3, <2>4, <2>5, <3>1
  <2>6. CASE ~(i <= used)
    <3>1. CASE tail <= j /\ j < tail + len
      <4>1. j - tail + 1 = i - used
        BY <1>1, <1>4, <1>5, <2>2, <2>6, <3>1
      <4> QED BY <1>3, <1>10, <2>2, <2>3, <2>6, <3>1, <4>1
    <3>2. CASE ~(tail <= j /\ j < tail + len)
      <4>1. j < tail + len - size /\ j + size - tail + 1 = i - used
        BY <1>1, <1>4, <1>5, <2>2, <2>6, <3>2
      <4> QED BY <1>3, <1>10, <2>2, <2>3, <2>6, <3>2, <4>1
    <3> QED BY <3>1, <3>2
  <2> QED BY <2>5, <2>6
<1>12. Contents' = Contents \o data
  BY <1>9, <1>10, <1>11, SeqEqual
<1>13. used + len <= RingSize
  BY <1>1, RingSizeAssumption DEF size
<1> QED BY <1>8, <1>12, <1>13 DEF len

(* A read removes from the bytes held the prefix that it returns.          *)
LEMMA ReadTakes ==
  ASSUME RingTypeOK, RingTypeOK', NEW n \in 1 .. size, read_ring_buffer(n)
  PROVE  LET len == ReadLength(n)
         IN  /\ len \in 0 .. Len(Contents)
             /\ out' = SubSeq(Contents, 1, len)
             /\ Contents' = SubSeq(Contents, len + 1, Len(Contents))
<1> DEFINE len == ReadLength(n)
           used == ring_buffer_used
<1>1. /\ size \in Nat /\ size > 1
      /\ head \in 0 .. size - 1
      /\ tail \in 0 .. size - 1
      /\ used \in 0 .. size - 1
      /\ len \in 0 .. used
  <2>1. ring_buffer_used \in 0 .. size - 1
    BY UsedValue DEF RingTypeOK
  <2>2. ReadLength(n) \in 0 .. ring_buffer_used
    BY SizeType, <2>1 DEF ReadLength
  <2> QED BY SizeType, <2>1, <2>2 DEF RingTypeOK
<1>2. /\ out' = Taken(len) /\ head' = (head + len) % size
      /\ tail' = tail /\ buf' = buf
  BY DEF read_ring_buffer, Advanced
<1>3. /\ tail >= head => used = tail - head
      /\ tail < head => used = tail - head + size
  BY UsedValue DEF RingTypeOK
<1>4. out' = [i \in 1 .. len |-> buf[(head + i - 1) % size]]
  <2> HIDE DEF len
  <2>1. len \in 0 .. ring_buffer_used
    BY <1>1
  <2>2. \A k \in 0 .. ring_buffer_used :
          Taken(k) = [i \in 1 .. k |-> buf[(head + i - 1) % size]]
    BY TakenValue
  <2> QED BY <1>2, <2>1, <2>2
<1> HIDE DEF len, used
<1>5. head' = IF head + len < size THEN head + len ELSE head + len - size
  <2> DEFINE x == head + len
  <2>1. x \in 0 .. 2 * size - 1
    BY <1>1
  <2>2. (x < size => x % size = x) /\ (x >= size => x % size = x - size)
    <3> HIDE DEF x
    <3> QED BY <2>1, Wrap
  <2> QED BY <1>1, <1>2, <2>2
<1>6. ring_buffer_used' = used - len
  <2> DEFINE x == tail - head' + size
  <2>1. ring_buffer_used' = x % size
    BY <1>2 DEF ring_buffer_used, size
  <2>2. x \in 0 .. 2 * size - 1
    BY <1>1, <1>5
  <2>3. (x < size => x % size = x) /\ (x >= size => x % size = x - size)
    <3> HIDE DEF x
    <3> QED BY <2>2, Wrap
  <2> QED BY <1>1, <1>3, <1>5, <2>1, <2>3
<1>7. /\ Contents \in Seq(Byte) /\ Len(Contents) = used
      /\ \A i \in 1 .. used : Contents[i] = buf[(head + i - 1) % size]
  BY ContentsValue DEF used
<1>8. /\ Contents' \in Seq(Byte) /\ Len(Contents') = used - len
      /\ \A i \in 1 .. used - len : Contents'[i] = buf[(head' + i - 1) % size]
  <2>1. \A i \in 1 .. used - len : (head' + i - 1) % size \in 0 .. size - 1
    <3>1. \A i \in 1 .. used - len : head' + i - 1 \in 0 .. 2 * size - 1
      BY <1>1, <1>5
    <3> QED BY <3>1, Wrap
  <2>2. Contents' = [i \in 1 .. used - len |-> buf[(head' + i - 1) % size]]
    BY <1>6, <1>2 DEF Contents, size
  <2>3. buf \in [0 .. size - 1 -> Byte]
    BY DEF RingTypeOK
  <2>4. Contents' \in [1 .. used - len -> Byte]
    BY <2>1, <2>2, <2>3
  <2>5. used - len \in Nat
    BY <1>1
  <2> QED BY <2>2, <2>4, <2>5, FunctionIsSeq
<1>9. out' = SubSeq(Contents, 1, len)
  <2> DEFINE s == SubSeq(Contents, 1, len)
  <2>1. \A i \in 1 .. len : Contents[i] \in Byte /\ Contents[i] = buf[(head + i - 1) % size]
    BY <1>1, <1>7, ElementOfSeq
  <2>2. s \in Seq(Byte) /\ Len(s) = len /\ \A i \in 1 .. len : s[i] = Contents[i]
    BY <1>1, <1>7, <2>1, SubSeqProperties
  <2>3. \A i \in 1 .. len : out'[i] = s[i]
    BY <1>4, <2>1, <2>2
  <2>4. out' \in Seq(Byte) /\ Len(out') = len
    <3>1. out' \in [1 .. len -> Byte]
      BY <1>4, <2>1
    <3> QED BY <1>1, <3>1, FunctionIsSeq
  <2> HIDE DEF s
  <2>5. out' = s
    BY <2>2, <2>3, <2>4, SeqEqual
  <2> QED BY <2>5 DEF s
<1>10. Contents' = SubSeq(Contents, len + 1, used)
  <2> DEFINE s == SubSeq(Contents, len + 1, used)
  <2>1. \A i \in len + 1 .. used : Contents[i] \in Byte
    BY <1>1, <1>7, ElementOfSeq
  <2>2. /\ s \in Seq(Byte)
        /\ Len(s) = used - len
        /\ \A i \in 1 .. used - len : s[i] = Contents[len + i]
    BY <1>1, <1>7, <2>1, SubSeqProperties
  <2>3. ASSUME NEW i \in 1 .. used - len
        PROVE  Contents'[i] = s[i]
    <3> DEFINE x == head' + i - 1
               y == head + (len + i) - 1
    <3>1. x \in 0 .. 2 * size - 1 /\ y \in 0 .. 2 * size - 1
      BY <1>1, <1>5
    <3>2. /\ (x < size => x % size = x) /\ (x >= size => x % size = x - size)
          /\ (y < size => y % size = y) /\ (y >= size => y % size = y - size)
      <4> HIDE DEF x, y
      <4> QED BY <3>1, Wrap
    <3>3. x % size = y % size
      BY <1>1, <1>5, <3>1, <3>2
    <3>4. s[i] = buf[y % size]
      <4>1. s[i] = Contents[len + i] /\ len + i \in 1 .. used
        BY <1>1, <2>2
      <4> QED BY <1>7, <4>1
    <3> QED BY <1>8, <3>3, <3>4
  <2> HIDE DEF s
  <2>4. Contents' = s
    BY <1>8, <2>2, <2>3, SeqEqual
  <2> QED BY <2>4 DEF s
<1> QED BY <1>1, <1>7, <1>9, <1>10 DEF len

(* The circular array implements a bounded FIFO of bytes.                  *)
THEOREM RingBufferIsFifo == RingSpec => ImplementsByteQueue
<1>1. RingInit => Fifo!Init
  <2> SUFFICES ASSUME RingInit PROVE Fifo!Init
    OBVIOUS
  <2>1. RingTypeOK
    BY SizeType, ByteAssumption, EmptySeq DEF RingInit, alloc_ring_buffer, RingTypeOK
  <2>2. ring_buffer_used = 0
    BY UsedValue, <2>1 DEF RingTypeOK, RingInit, alloc_ring_buffer
  <2>3. Contents = <<>>
    BY <2>1, <2>2, ContentsValue, EmptySeq
  <2> QED BY <2>3 DEF RingInit, alloc_ring_buffer, Fifo!Init
<1>2. ASSUME RingTypeOK, RingTypeOK', [RingNext]_ringVars
      PROVE  [Fifo!Next]_(Fifo!vars)
  <2>1. ASSUME NEW n \in 1 .. RingSize, NEW data \in [1 .. n -> Byte],
               write_ring_buffer(data)
        PROVE  Fifo!Next
    <3>1. data \in Seq(Byte) /\ Len(data) = n
      BY RingSizeAssumption, FunctionIsSeq
    <3>2. Fifo!Write(data)
      BY <1>2, <2>1, <3>1, WriteAppends DEF Fifo!Write, write_ring_buffer
    <3> QED BY <3>2 DEF Fifo!Next
  <2>2. ASSUME NEW n \in 1 .. size, read_ring_buffer(n)
        PROVE  Fifo!Next
    <3>1. /\ ReadLength(n) \in 0 .. Len(Contents)
          /\ Fifo!Read(ReadLength(n))
      BY <1>2, <2>2, ReadTakes DEF Fifo!Read
    <3> QED BY <3>1 DEF Fifo!Next
  <2>3. CASE UNCHANGED ringVars
    BY <2>3 DEF ringVars, Fifo!vars, Contents, ring_buffer_used, size
  <2> QED BY <1>2, <2>1, <2>2, <2>3 DEF RingNext
<1> QED BY <1>1, <1>2, RingTypeCorrect, PTL DEF RingSpec, ImplementsByteQueue, Fifo!Spec
=============================================================================
