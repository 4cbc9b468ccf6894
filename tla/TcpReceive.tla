----------------------------- MODULE TcpReceive -----------------------------
(***************************************************************************)
(* The receiving half of an established connection of 17-tcp_stack: the    *)
(* thread that reads the interfaces runs tcp_process on each segment, the  *)
(* application thread runs tcp_sock_read in a loop.  They share the socket *)
(* with no lock but rcv_buf_lock (around the ring buffer and rcv_wnd) and  *)
(* the lock inside wait_recv.                                              *)
(*                                                                         *)
(* Bytes are named by their position in the stream; sequence numbers are   *)
(* relative to the first byte, so the FIN has sequence number Total.  The  *)
(* network may lose, delay, duplicate and reorder: a segment may arrive    *)
(* whenever the peer may have sent it.  The peer may send a segment when   *)
(* the test of tcp_sock_write passes for some acknowledgement sent to it.  *)
(***************************************************************************)
EXTENDS Integers, Sequences, SequencesExt

CONSTANTS
  MSS,        (* bytes of a full segment                                   *)
  Capacity,   (* the window a socket starts with, and its ring buffer      *)
  ReadLen,    (* the length tcp_server asks tcp_sock_read for              *)
  Total,      (* bytes in the stream                                       *)
  Segment,    (* the segments the peer cut the stream into                 *)
  U16,        (* 2^16, the range of rcv_wnd                                *)
  AckFirst    (* which argument of tcp_init_hdr the compiler evaluates     *)
              (* first; gcc takes rcv_wnd before rcv_nxt                   *)

ASSUME SizeAssumption ==
  /\ MSS \in Nat \ {0}
  /\ Capacity \in Nat \ {0}
  /\ ReadLen \in Nat \ {0}
  /\ Total \in Nat \ {0}
  /\ U16 \in Nat /\ U16 > Capacity
  /\ AckFirst \in BOOLEAN

ASSUME SegmentAssumption ==
  /\ Segment # {}
  /\ Segment \subseteq [seq : 0 .. Total, seq_end : 0 .. Total]
  /\ \A s \in Segment : s.seq < s.seq_end /\ s.seq_end <= s.seq + MSS

(* alloc_tcp_sock: the window is a whole number of segments, and all of it *)
(* fits into one read of tcp_server.                                       *)
ASSUME WindowAssumption ==
  /\ Capacity % MSS = 0
  /\ ReadLen >= Capacity

(* A call of tcp_sock_write ends in a segment that may be short.  Each     *)
(* call of tcp_client but the last is longer than the window.              *)
Short(s) == s.seq_end < s.seq + MSS
ASSUME CallAssumption ==
  \A s, t \in Segment :
    Short(s) /\ Short(t) /\ s.seq_end < t.seq_end /\ t.seq_end < Total
      => t.seq_end > s.seq_end + Capacity

VARIABLES
  state,      (* TCP_ESTABLISHED or TCP_CLOSE_WAIT                         *)
  rcv_nxt,    (* the next sequence number expected                         *)
  rcv_wnd,    (* the window advertised to the peer, a u16                  *)
  rcv_buf,    (* the bytes in the ring buffer                              *)
  ofo,        (* rcv_ofo_buf, the segments that came too early             *)
  notified,   (* wait_recv->notified                                       *)
  rx,         (* where the receiving thread is                             *)
  cur,        (* the segment it is storing                                 *)
  rd,         (* where the application thread is                           *)
  first,      (* the field it has read first for the header it fills       *)
  torn,       (* a window update has combined values of different moments  *)
  got,        (* all bytes tcp_sock_read has returned so far               *)
  edge        (* the highest ack + rwnd sent to the peer                   *)

rxVars == <<rx, cur, rcv_nxt, ofo>>
vars == <<state, rcv_nxt, rcv_wnd, rcv_buf, ofo, notified, rx, cur, rd, first, torn,
          got, edge>>

-----------------------------------------------------------------------------
Bytes(s) == [i \in 1 .. s.seq_end - s.seq |-> s.seq + i - 1]

less_of(a, b) == IF a < b THEN a ELSE b
more_of(a, b) == IF a > b THEN a ELSE b

(* (n + MSS - 1) / MSS * MSS: n bytes rounded up to full segments.         *)
RoundUp(n) == ((n + MSS - 1) \div MSS) * MSS

(* tcp_send_control_packet(tsk, TCP_ACK), seen by the peer: it may use the *)
(* stream up to ack + rwnd.                                                *)
SendAck(ack, wnd) == edge' = more_of(edge, ack + wnd)

(* The peer's test before it sends: snd_nxt + MSS - snd_una <= adv_wnd.    *)
MaySend(s) == s.seq + MSS <= edge

is_tcp_seq_valid(seq, seq_end) ==
  /\ seq < rcv_nxt + more_of(rcv_wnd, 1)
  /\ rcv_nxt <= seq_end

wake_up == notified' = TRUE

-----------------------------------------------------------------------------
(* The receiving thread.                                                   *)

(* The scan of the list stops at entry i.                                  *)
(* Mutant: equal ends do not stop it, as in 16-tcp_stack.                  *)
MutStopsAt(i, s) == ofo[i].seq_end > s.seq_end
StopsAt(i, s) == ofo[i].seq_end >= s.seq_end

(* The list is kept in the order of seq_end, and a segment that is on it   *)
(* already is not added again.                                             *)
tcp_rcv_ofo_pkt(s) ==
  \E i \in 1 .. Len(ofo) + 1 :
    /\ \A j \in 1 .. i - 1 : ~StopsAt(j, s)
    /\ i <= Len(ofo) => StopsAt(i, s)
    /\ IF i <= Len(ofo) /\ ofo[i].seq_end = s.seq_end
       THEN UNCHANGED ofo
       ELSE ofo' = InsertAt(ofo, i, s)

(* Mutant: the acknowledgement is for the segment kept, as if no segment   *)
(* before it were missing.                                                 *)
MutReceiveOutOfOrder(s) ==
  /\ rx = "idle"
  /\ MaySend(s)
  /\ is_tcp_seq_valid(s.seq, s.seq_end)
  /\ state = "ESTABLISHED"
  /\ rcv_nxt # s.seq
  /\ tcp_rcv_ofo_pkt(s)
  /\ SendAck(s.seq_end, rcv_wnd)
  /\ UNCHANGED <<state, rcv_nxt, rcv_wnd, rcv_buf, notified, rx, cur, rd, got, first, torn>>

(* A segment that is not the next one is kept and acknowledged at once.    *)
ReceiveOutOfOrder(s) ==
  /\ rx = "idle"
  /\ MaySend(s)
  /\ is_tcp_seq_valid(s.seq, s.seq_end)
  /\ state = "ESTABLISHED"
  /\ rcv_nxt # s.seq
  /\ tcp_rcv_ofo_pkt(s)
  /\ SendAck(rcv_nxt, rcv_wnd)
  /\ UNCHANGED <<state, rcv_nxt, rcv_wnd, rcv_buf, notified, rx, cur, rd, got, first, torn>>

(* Mutant: no check that the segment is the next one, as in 15-tcp_stack.  *)
MutReceiveInOrder(s) ==
  /\ rx = "idle"
  /\ MaySend(s)
  /\ is_tcp_seq_valid(s.seq, s.seq_end)
  /\ state = "ESTABLISHED"
  /\ cur' = s
  /\ rx' = "wake"
  /\ UNCHANGED <<state, rcv_nxt, rcv_wnd, rcv_buf, ofo, notified, rd, got, edge, first, torn>>

(* The next segment goes to the buffer, beginning with the wake_up.        *)
ReceiveInOrder(s) ==
  /\ rx = "idle"
  /\ MaySend(s)
  /\ is_tcp_seq_valid(s.seq, s.seq_end)
  /\ state = "ESTABLISHED"
  /\ rcv_nxt = s.seq
  /\ cur' = s
  /\ rx' = "wake"
  /\ UNCHANGED <<state, rcv_nxt, rcv_wnd, rcv_buf, ofo, notified, rd, got, edge, first, torn>>

WakeReader ==
  /\ rx = "wake"
  /\ wake_up
  /\ rx' = "store"
  /\ UNCHANGED <<state, rcv_nxt, rcv_wnd, rcv_buf, ofo, cur, rd, got, edge, first, torn>>

(* Mutant: the window loses the bytes stored, but regains full segments.   *)
MutStore ==
  /\ rx = "store"
  /\ Len(rcv_buf) + (cur.seq_end - cur.seq) <= Capacity
  /\ rcv_buf' = rcv_buf \o Bytes(cur)
  /\ rcv_wnd' = (rcv_wnd - (cur.seq_end - cur.seq)) % U16
  /\ rx' = "advance"
  /\ UNCHANGED <<state, rcv_nxt, ofo, notified, cur, rd, got, edge, first, torn>>

(* Under rcv_buf_lock: write_ring_buffer and one MSS off the window.       *)
Store ==
  /\ rx = "store"
  /\ Len(rcv_buf) + (cur.seq_end - cur.seq) <= Capacity
  /\ rcv_buf' = rcv_buf \o Bytes(cur)
  /\ rcv_wnd' = (rcv_wnd - MSS) % U16
  /\ rx' = "advance"
  /\ UNCHANGED <<state, rcv_nxt, ofo, notified, cur, rd, got, edge, first, torn>>

(* Mutant: the buffer is allocated without the byte that stays free.       *)
MutAbort ==
  /\ rx = "store"
  /\ Len(rcv_buf) + (cur.seq_end - cur.seq) >= Capacity
  /\ rx' = "aborted"
  /\ UNCHANGED <<state, rcv_nxt, rcv_wnd, rcv_buf, ofo, notified, cur, rd, got, edge, first, torn>>

(* The assertion of write_ring_buffer: the process is gone.                *)
Abort ==
  /\ rx = "store"
  /\ Len(rcv_buf) + (cur.seq_end - cur.seq) > Capacity
  /\ rx' = "aborted"
  /\ UNCHANGED <<state, rcv_nxt, rcv_wnd, rcv_buf, ofo, notified, cur, rd, got, edge, first, torn>>

(* rcv_nxt moves over the stored segment; the scan of rcv_ofo_buf takes    *)
(* the segment that is next now, if it is there.                           *)
Next_in_ofo(seq) == {i \in 1 .. Len(ofo) : ofo[i].seq = seq}

Advance ==
  /\ rx = "advance"
  /\ rcv_nxt' = cur.seq_end
  /\ IF Next_in_ofo(cur.seq_end) = {}
     THEN rx' = "ack" /\ UNCHANGED <<ofo, cur>>
     ELSE \E i \in Next_in_ofo(cur.seq_end) :
            /\ \A j \in Next_in_ofo(cur.seq_end) : i <= j
            /\ cur' = ofo[i]
            /\ ofo' = RemoveAt(ofo, i)
            /\ rx' = "wake"
  /\ UNCHANGED <<state, rcv_wnd, rcv_buf, notified, rd, got, edge, first, torn>>

Acknowledge ==
  /\ rx = "ack"
  /\ SendAck(rcv_nxt, rcv_wnd)
  /\ rx' = "idle"
  /\ UNCHANGED <<state, rcv_nxt, rcv_wnd, rcv_buf, ofo, notified, cur, rd, got, first, torn>>

(* Mutant: a FIN is counted whenever it arrives.                           *)
MutReceiveFin ==
  /\ rx = "idle"
  /\ \A s \in Segment : MaySend(s)
  /\ is_tcp_seq_valid(Total, Total + 1)
  /\ rcv_nxt' = rcv_nxt + 1
  /\ SendAck(Total + 1, rcv_wnd)
  /\ rx' = "fin"
  /\ UNCHANGED <<state, rcv_wnd, rcv_buf, ofo, notified, cur, rd, got, first, torn>>

(* The peer sends its FIN after its last write has returned.  Out of order *)
(* it is dropped; repeated in TCP_CLOSE_WAIT it changes nothing.           *)
ReceiveFin ==
  /\ rx = "idle"
  /\ \A s \in Segment : MaySend(s)
  /\ is_tcp_seq_valid(Total, Total + 1)
  /\ state = "ESTABLISHED"
  /\ rcv_nxt = Total
  /\ rcv_nxt' = Total + 1
  /\ SendAck(Total + 1, rcv_wnd)
  /\ rx' = "fin"
  /\ UNCHANGED <<state, rcv_wnd, rcv_buf, ofo, notified, cur, rd, got, first, torn>>

(* tcp_send_FIN_ACK, after its ACK: the state, then the wake_up.           *)
EnterCloseWait ==
  /\ rx = "fin"
  /\ state' = "CLOSE_WAIT"
  /\ rx' = "fin_wake"
  /\ UNCHANGED <<rcv_nxt, rcv_wnd, rcv_buf, ofo, notified, cur, rd, got, edge, first, torn>>

(* Mutant: the reader is not told of the FIN.                              *)
MutWakeAtFin ==
  /\ rx = "fin_wake"
  /\ rx' = "idle"
  /\ UNCHANGED <<state, rcv_nxt, rcv_wnd, rcv_buf, ofo, notified, cur, rd, got, edge, first, torn>>

WakeAtFin ==
  /\ rx = "fin_wake"
  /\ wake_up
  /\ rx' = "idle"
  /\ UNCHANGED <<state, rcv_nxt, rcv_wnd, rcv_buf, ofo, cur, rd, got, edge, first, torn>>

-----------------------------------------------------------------------------
(* The application thread: tcp_sock_read, called again while it returns    *)
(* more than 0.                                                            *)

(* Under rcv_buf_lock: the bytes there are, and their credit.              *)
ReadBytes ==
  LET rlen == less_of(Len(rcv_buf), ReadLen)
  IN  /\ rd = "check"
      /\ rcv_buf # <<>>
      /\ got' = got \o SubSeq(rcv_buf, 1, rlen)
      /\ rcv_buf' = SubSeq(rcv_buf, rlen + 1, Len(rcv_buf))
      /\ rcv_wnd' = (rcv_wnd + RoundUp(rlen)) % U16
      /\ UNCHANGED <<state, rcv_nxt, ofo, notified, rx, cur, rd, edge, first, torn>>

(* The buffer is empty: the lock is released before the state is looked at. *)
FindEmpty ==
  /\ rd = "check"
  /\ rcv_buf = <<>>
  /\ rd' = "empty"
  /\ UNCHANGED <<state, rcv_nxt, rcv_wnd, rcv_buf, ofo, notified, rx, cur, got, edge, first, torn>>

ReadReturnsZero ==
  /\ rd = "empty"
  /\ state = "CLOSE_WAIT"
  /\ rd' = "finished"
  /\ UNCHANGED <<state, rcv_nxt, rcv_wnd, rcv_buf, ofo, notified, rx, cur, got, edge, first, torn>>

(* The window update that a blocking reader sends.  It holds no lock, and  *)
(* reads rcv_nxt and rcv_wnd one after the other.                          *)
ReadHeaderField ==
  /\ rd = "empty"
  /\ state # "CLOSE_WAIT"
  /\ first' = IF AckFirst THEN rcv_nxt ELSE rcv_wnd
  /\ rd' = "update"
  /\ UNCHANGED <<state, rcv_nxt, rcv_wnd, rcv_buf, ofo, notified, rx, cur, got, edge, torn>>

SendWindowUpdate ==
  /\ rd = "update"
  /\ IF AckFirst THEN SendAck(first, rcv_wnd) ELSE SendAck(rcv_nxt, first)
  /\ torn' = (torn \/ (~AckFirst /\ first # rcv_wnd))
  /\ rd' = "sleep_on"
  /\ UNCHANGED <<state, rcv_nxt, rcv_wnd, rcv_buf, ofo, notified, rx, cur, got, first>>

(* sleep_on(wait_recv): at once past the wait if notified, else asleep     *)
(* until the next wake_up.                                                 *)
sleep_on ==
  /\ rd = "sleep_on"
  /\ IF notified
     THEN rd' = "check" /\ notified' = FALSE
     ELSE rd' = "asleep" /\ UNCHANGED notified
  /\ UNCHANGED <<state, rcv_nxt, rcv_wnd, rcv_buf, ofo, rx, cur, got, edge, first, torn>>

WakeFromSleep ==
  /\ rd = "asleep"
  /\ notified
  /\ notified' = FALSE
  /\ rd' = "check"
  /\ UNCHANGED <<state, rcv_nxt, rcv_wnd, rcv_buf, ofo, rx, cur, got, edge, first, torn>>

-----------------------------------------------------------------------------
Init ==
  /\ state = "ESTABLISHED"
  /\ rcv_nxt = 0
  /\ rcv_wnd = Capacity
  /\ rcv_buf = <<>>
  /\ ofo = <<>>
  /\ notified = FALSE
  /\ rx = "idle"
  /\ cur = CHOOSE s \in Segment : TRUE
  /\ rd = "check"
  /\ first = 0
  /\ torn = FALSE
  /\ got = <<>>
  /\ edge = Capacity

Receive(s) == ReceiveOutOfOrder(s) \/ ReceiveInOrder(s)

Rx == \/ WakeReader \/ Store \/ Abort \/ Advance \/ Acknowledge
      \/ EnterCloseWait \/ WakeAtFin

Reader ==
  /\ rx # "aborted"
  /\ \/ ReadBytes \/ FindEmpty \/ ReadReturnsZero
     \/ ReadHeaderField \/ SendWindowUpdate \/ sleep_on \/ WakeFromSleep

Next == (\E s \in Segment : Receive(s)) \/ ReceiveFin \/ Rx \/ Reader

Spec == Init /\ [][Next]_vars

(* Both threads run whenever they can, and what the peer retransmits until *)
(* it is acknowledged arrives in the end.  The sequence number expected    *)
(* selects the segment that can be received in order.                      *)
Fairness ==
  /\ WF_vars(Rx)
  /\ WF_vars(Reader)
  /\ SF_vars(\E s \in Segment : ReceiveInOrder(s))
  /\ SF_vars(ReceiveFin)

FairSpec == Spec /\ Fairness

-----------------------------------------------------------------------------
TypeOK ==
  /\ state \in {"ESTABLISHED", "CLOSE_WAIT"}
  /\ rcv_nxt \in 0 .. Total + 1
  /\ rcv_wnd \in 0 .. U16 - 1
  /\ rcv_buf \in Seq(0 .. Total)
  /\ ofo \in Seq(Segment)
  /\ notified \in BOOLEAN
  /\ rx \in {"idle", "wake", "store", "advance", "ack", "fin", "fin_wake", "aborted"}
  /\ cur \in Segment
  /\ rd \in {"check", "empty", "update", "sleep_on", "asleep", "finished"}
  /\ first \in Nat
  /\ torn \in BOOLEAN
  /\ got \in Seq(0 .. Total)
  /\ edge \in Nat

(* What the reader has got, followed by what waits in the ring buffer, is  *)
(* the stream from its first byte: tcp_process and tcp_rcv_ofo_pkt lose,   *)
(* repeat and misplace nothing, whatever order segments arrive in.         *)
DeliveredInOrder ==
  /\ \A i \in 1 .. Len(got) : got[i] = i - 1
  /\ \A i \in 1 .. Len(rcv_buf) : rcv_buf[i] = Len(got) + i - 1

(* rcv_nxt counts exactly the bytes taken so far, and the segment being    *)
(* stored starts there.                                                    *)
Position ==
  /\ Len(got) + Len(rcv_buf) =
       IF rx = "advance" THEN cur.seq_end ELSE less_of(rcv_nxt, Total)
  /\ rx \in {"wake", "store", "advance"} => cur.seq = rcv_nxt

(* rcv_ofo_buf stays in the order of its seq_end, without duplicates: the *)
(* one pass of tcp_process over it relies on that.                         *)
OfoSorted ==
  \A i, j \in 1 .. Len(ofo) : i < j => ofo[i].seq_end < ofo[j].seq_end

(* The window advertised is what is left of the buffer, in full segments:  *)
(* the MSS taken per segment by tcp_process and the rounded credit of      *)
(* tcp_sock_read cancel out, up to the last segment, which may be a second *)
(* short one in the buffer and is then charged more than it gives back.    *)
(* Whatever the peer was ever allowed to send fits behind the bytes still  *)
(* unread, even if the reader never reads again, unless a window update of *)
(* the reader was torn: no other order of the two threads that write and   *)
(* send the window grants too much.                                        *)
GrantsFit ==
  /\ Len(got) + Len(rcv_buf) < Total => rcv_wnd = Capacity - RoundUp(Len(rcv_buf))
  /\ ~torn => /\ rcv_wnd <= Capacity - RoundUp(Len(rcv_buf))
              /\ \A s \in Segment : MaySend(s) => s.seq_end <= Len(got) + Capacity

(* "rbuf should have enough space for buf" (ring_buffer.h:76): a torn      *)
(* window update is the only way to the failure of that assertion.         *)
OverflowsOnlyIfTorn == rx = "aborted" => torn

(* The reading loop of tcp_server ends, when what is lost is sent again    *)
(* and its process does not abort.                                         *)
EventuallyFinished == <>(rd = "finished" \/ rx = "aborted")
=============================================================================
