------------------------------ MODULE TcpSend ------------------------------
(***************************************************************************)
(* The sending half of an established connection of 17-tcp_stack.  Three   *)
(* threads use the sock, and the locks they would need are commented out:  *)
(* the application in tcp_sock_write, the receiving thread in tcp_process  *)
(* on an acknowledgement, the timer thread in tcp_scan_timer_list.  An     *)
(* action is a statement of one of them, or several between which nothing  *)
(* another thread writes is used; a test and the read-and-write of one     *)
(* variable are one action.  A block that is freed while it is being sent  *)
(* again is read as it was.                                                *)
(*                                                                         *)
(* Sizes are in segments: a segment is full, and data number i is meant    *)
(* for sequence number i.  The peer is a TcpReceive, here one action per   *)
(* segment and one per read; the path is that of tcp_topo_loss.py, which   *)
(* loses packets and keeps their order.                                    *)
(***************************************************************************)
EXTENDS Integers, Sequences, SequencesExt

CONSTANTS
  Load,       (* records: the segments the application writes, and a bound *)
              (* on the expiries of the retransmission timer               *)
  PeerWnd,    (* the receive buffer of the peer                            *)
  Ssthresh,   (* what alloc_tcp_sock sets ssthresh to                      *)
  MaxLoss,    (* bound on the packets lost                                 *)
  U32         (* 2^32, the range of snd_nxt and snd_wnd                    *)

ASSUME SizeAssumption ==
  /\ PeerWnd \in Nat \ {0} /\ Ssthresh \in Nat /\ MaxLoss \in Nat
  /\ U32 \in Nat
  /\ \A l \in Load : l \in [segments : Nat, timeouts : Nat] /\ U32 > l.segments + PeerWnd + 1

VARIABLES
  load,       (* one of Load                                               *)
  snd_una, snd_nxt, snd_wnd, adv_wnd,
  cwnd, ssthresh,
  avoid_cnt, reack_cnt, last_ack, reseq, recovery_point,
  send_buf,   (* the blocks not yet acknowledged                           *)
  enable,     (* retrans_timer.enable                                      *)
  node,       (* the place of retrans_timer in timer_list                  *)
  notified,   (* of wait_send                                              *)
  wr,         (* the application: where it is, its seq, the seq in the     *)
              (* header, the number of the data it is writing              *)
  rx,         (* the receiving thread: where it is, the acknowledgement,   *)
              (* why it sends again, its cur_seq, the block, the header    *)
  tm,         (* the timer thread: where it is, its seq, the block, header *)
  wire, acks, (* the packets on the way to the peer and back               *)
  peer,       (* the data received in order, those kept out of order, how  *)
              (* many have not been read, and whether its process runs     *)
  expired, lost

congestion == <<cwnd, ssthresh, avoid_cnt, reack_cnt, last_ack, reseq, recovery_point>>
window == <<snd_una, snd_nxt, snd_wnd, adv_wnd>>
timer == <<enable, node>>
network == <<wire, acks, peer, expired, lost>>
progress == <<window, congestion, send_buf, timer, notified, wr, rx, tm, network>>
vars == <<load, progress>>

Segments == load.segments

-----------------------------------------------------------------------------
less_of(a, b) == IF a < b THEN a ELSE b
more_of(a, b) == IF a > b THEN a ELSE b

NoBlock == [seq |-> 0, data |-> 0, len |-> 0]

seq_end(b) == b.seq + b.len

(* tcp_send_packet in two steps: the header takes its number from snd_nxt, *)
(* then snd_nxt and snd_wnd move and the packet leaves.                    *)
(* Mutant: snd_wnd is a signed int.                                        *)
Mut_send_packet(hdr, b) ==
  /\ snd_nxt' = (snd_nxt + b.len) % U32
  /\ snd_wnd' = snd_wnd - 1
  /\ wire' = Append(wire, [seq |-> hdr, data |-> b.data, len |-> b.len])

tcp_send_packet(hdr, b) ==
  /\ snd_nxt' = (snd_nxt + b.len) % U32
  /\ snd_wnd' = (snd_wnd - 1) % U32
  /\ wire' = Append(wire, [seq |-> hdr, data |-> b.data, len |-> b.len])

-----------------------------------------------------------------------------
(* tcp_sock_write.                                                         *)

Shut == (snd_nxt + 1 - snd_una) % U32 > adv_wnd \/ snd_wnd < 1

CheckWindow ==
  /\ wr.at = "check"
  /\ wr' = [wr EXCEPT !.at = IF Shut THEN "sleep" ELSE "seq"]
  /\ UNCHANGED <<window, congestion, send_buf, timer, notified, rx, tm, network>>

(* sleep_on(wait_send) returns once there is a notification.               *)
SleepOn ==
  /\ wr.at = "sleep"
  /\ notified
  /\ notified' = FALSE
  /\ wr' = [wr EXCEPT !.at = "check"]
  /\ UNCHANGED <<window, congestion, send_buf, timer, rx, tm, network>>

ReadSeq ==
  /\ wr.at = "seq"
  /\ wr' = [wr EXCEPT !.at = "header", !.seq = snd_nxt]
  /\ UNCHANGED <<window, congestion, send_buf, timer, notified, rx, tm, network>>

WriteHeader ==
  /\ wr.at = "header"
  /\ wr' = [wr EXCEPT !.at = "send", !.hdr = snd_nxt]
  /\ UNCHANGED <<window, congestion, send_buf, timer, notified, rx, tm, network>>

WriteSend ==
  /\ wr.at = "send"
  /\ tcp_send_packet(wr.hdr, [data |-> wr.data, len |-> 1])
  /\ wr' = [wr EXCEPT !.at = "append"]
  /\ UNCHANGED <<snd_una, adv_wnd, congestion, send_buf, timer, notified, rx, tm, acks, peer,
                 expired, lost>>

(* The block joins send_buf when the segment is already on its way.        *)
AppendBlock ==
  /\ wr.at = "append"
  /\ send_buf' = Append(send_buf, [seq |-> wr.seq, data |-> wr.data, len |-> 1])
  /\ wr' = [wr EXCEPT !.at = "arm"]
  /\ UNCHANGED <<window, congestion, timer, notified, rx, tm, network>>

(* The timer's node in timer_list: "out", "in", or "stuck" when it was     *)
(* added to the list it was the last node of: its prev is then itself, so  *)
(* that neither list_delete_entry nor list_add_tail undoes it.             *)
tcp_set_retrans_timer ==
  /\ enable' = TRUE
  /\ node' = IF node = "out" THEN "in" ELSE "stuck"

tcp_unset_retrans_timer ==
  /\ enable' = FALSE
  /\ node' = IF node = "stuck" THEN "stuck" ELSE "out"

ArmTimer ==
  /\ wr.at = "arm"
  /\ IF enable THEN UNCHANGED timer ELSE tcp_set_retrans_timer
  /\ wr' = [wr EXCEPT !.at = IF wr.data = Segments THEN "done" ELSE "check",
                      !.data = @ + 1]
  /\ UNCHANGED <<window, congestion, send_buf, notified, rx, tm, network>>

-----------------------------------------------------------------------------
(* tcp_process on an acknowledgement without payload.                      *)

(* Slow start below ssthresh; above it one segment per window, counted     *)
(* down by avoid_cnt.  Once negative, avoid_cnt does not come back.        *)
Grow ==
  IF cwnd < ssthresh
  THEN cwnd' = cwnd + 1 /\ UNCHANGED avoid_cnt
  ELSE LET cnt == (IF avoid_cnt = 0 THEN cwnd ELSE avoid_cnt) - 1
       IN  /\ avoid_cnt' = more_of(cnt, -1)
           /\ cwnd' = IF cnt = 0 THEN cwnd + 1 ELSE cwnd

(* An acknowledgement below recovery_point, the first with its number, and *)
(* the third repetition of one send the block that is missing again.       *)
TakeAck ==
  LET ack == Head(acks).ack
      partial == ack < recovery_point /\ reseq # ack
      same == last_ack = ack /\ ack >= recovery_point
      third == same /\ reack_cnt = 2
  IN  /\ rx.at = "idle"
      /\ acks # <<>>
      /\ acks' = Tail(acks)
      /\ IF ack < snd_una
         THEN /\ rx' = [rx EXCEPT !.at = "free", !.cb = Head(acks)]
              /\ UNCHANGED congestion
         ELSE /\ rx' = [rx EXCEPT !.at = IF partial \/ third THEN "free" ELSE "una",
                                  !.why = IF partial THEN "partial" ELSE IF third THEN "third"
                                          ELSE "none",
                                  !.cb = Head(acks)]
              /\ Grow
              /\ last_ack' = ack
              /\ reack_cnt' = IF same THEN less_of(reack_cnt + 1, 4) ELSE 0
              /\ UNCHANGED <<ssthresh, reseq, recovery_point>>
      /\ UNCHANGED <<window, send_buf, timer, notified, wr, tm, wire, peer, expired, lost>>

(* tcp_free_send_buf: each block that is acknowledged, and the timer with  *)
(* it; if blocks are left the timer is set again.                          *)
(* Mutant: the block that starts at the acknowledged number is freed too.  *)
MutFreeable == {i \in 1 .. Len(send_buf) : send_buf[i].seq <= rx.cb.ack}
Freeable == {i \in 1 .. Len(send_buf) : seq_end(send_buf[i]) <= rx.cb.ack}

FreeBlock ==
  /\ rx.at = "free"
  /\ \E i \in Freeable : (\A j \in Freeable : i <= j) /\ send_buf' = RemoveAt(send_buf, i)
  /\ tcp_unset_retrans_timer
  /\ rx' = [rx EXCEPT !.at = "rearm"]
  /\ UNCHANGED <<window, congestion, notified, wr, tm, network>>

(* Mutant: the timer is not set again for the blocks that are left.        *)
MutRearmTimer ==
  /\ rx.at = "rearm"
  /\ rx' = [rx EXCEPT !.at = "free"]
  /\ UNCHANGED <<window, congestion, send_buf, timer, notified, wr, tm, network>>

RearmTimer ==
  /\ rx.at = "rearm"
  /\ IF send_buf = <<>> THEN UNCHANGED timer ELSE tcp_set_retrans_timer
  /\ rx' = [rx EXCEPT !.at = "free"]
  /\ UNCHANGED <<window, congestion, send_buf, notified, wr, tm, network>>

FreeDone ==
  /\ rx.at = "free"
  /\ Freeable = {}
  /\ rx' = [rx EXCEPT !.at = IF rx.why = "none" THEN "idle" ELSE "again"]
  /\ UNCHANGED <<window, congestion, send_buf, timer, notified, wr, tm, network>>

(* tcp_retransmission: the first block, if it is the one asked for, sent   *)
(* by way of snd_nxt, which is put back afterwards.                        *)
SendAgain ==
  /\ rx.at = "again"
  /\ IF send_buf # <<>> /\ send_buf[1].seq = rx.cb.ack
     THEN /\ snd_nxt' = send_buf[1].seq
          /\ rx' = [rx EXCEPT !.at = "header", !.seq = snd_nxt, !.blk = send_buf[1]]
     ELSE /\ rx' = [rx EXCEPT !.at = "sent"]
          /\ UNCHANGED snd_nxt
  /\ UNCHANGED <<snd_una, snd_wnd, adv_wnd, congestion, send_buf, timer, notified, wr, tm, network>>

AgainHeader ==
  /\ rx.at = "header"
  /\ rx' = [rx EXCEPT !.at = "send", !.hdr = snd_nxt]
  /\ UNCHANGED <<window, congestion, send_buf, timer, notified, wr, tm, network>>

AgainSend ==
  /\ rx.at = "send"
  /\ tcp_send_packet(rx.hdr, rx.blk)
  /\ rx' = [rx EXCEPT !.at = "restore"]
  /\ UNCHANGED <<snd_una, adv_wnd, congestion, send_buf, timer, notified, wr, tm, acks, peer,
                 expired, lost>>

AgainRestore ==
  /\ rx.at = "restore"
  /\ snd_nxt' = rx.seq
  /\ rx' = [rx EXCEPT !.at = "sent"]
  /\ UNCHANGED <<snd_una, snd_wnd, adv_wnd, congestion, send_buf, timer, notified, wr, tm, network>>

(* Afterwards the window is halved, if this began a recovery.              *)
SentAgain ==
  /\ rx.at = "sent"
  /\ IF rx.why = "third"
     THEN /\ ssthresh' = cwnd \div 2
          /\ cwnd' = cwnd \div 2
          /\ recovery_point' = snd_nxt
          /\ UNCHANGED reseq
     ELSE reseq' = rx.cb.ack /\ UNCHANGED <<ssthresh, cwnd, recovery_point>>
  /\ rx' = [rx EXCEPT !.at = "una", !.why = "none"]
  /\ UNCHANGED <<avoid_cnt, reack_cnt, last_ack, window, send_buf, timer, notified, wr, tm, network>>

AdvanceUna ==
  /\ rx.at = "una"
  /\ snd_una' = more_of(snd_una, rx.cb.ack)
  /\ rx' = [rx EXCEPT !.at = "adv_wnd"]
  /\ UNCHANGED <<snd_nxt, snd_wnd, adv_wnd, congestion, send_buf, timer, notified, wr, tm, network>>

(* Mutant: the advertised window is only ever lowered.                     *)
MutUpdateAdvWnd ==
  /\ rx.at = "adv_wnd"
  /\ adv_wnd' = less_of(adv_wnd, rx.cb.rwnd)
  /\ rx' = [rx EXCEPT !.at = "snd_wnd"]
  /\ UNCHANGED <<snd_una, snd_nxt, snd_wnd, congestion, send_buf, timer, notified, wr, tm, network>>

UpdateAdvWnd ==
  /\ rx.at = "adv_wnd"
  /\ adv_wnd' = rx.cb.rwnd
  /\ rx' = [rx EXCEPT !.at = "snd_wnd"]
  /\ UNCHANGED <<snd_una, snd_nxt, snd_wnd, congestion, send_buf, timer, notified, wr, tm, network>>

(* Mutant: the writer is woken only when snd_wnd was 0, as in              *)
(* tcp_update_window.                                                      *)
MutUpdateSndWnd ==
  /\ rx.at = "snd_wnd"
  /\ snd_wnd' = less_of(adv_wnd, cwnd)
  /\ rx' = [rx EXCEPT !.at = IF snd_wnd = 0 THEN "wake" ELSE "free"]
  /\ UNCHANGED <<snd_una, snd_nxt, adv_wnd, congestion, send_buf, timer, notified, wr, tm, network>>

UpdateSndWnd ==
  /\ rx.at = "snd_wnd"
  /\ snd_wnd' = less_of(adv_wnd, cwnd)
  /\ rx' = [rx EXCEPT !.at = "wake"]
  /\ UNCHANGED <<snd_una, snd_nxt, adv_wnd, congestion, send_buf, timer, notified, wr, tm, network>>

WakeWriter ==
  /\ rx.at = "wake"
  /\ notified' = TRUE
  /\ rx' = [rx EXCEPT !.at = "free"]
  /\ UNCHANGED <<window, congestion, send_buf, timer, wr, tm, network>>

-----------------------------------------------------------------------------
(* tcp_scan_timer_list, when the timer has expired.                        *)

(* The first block, or the list head itself, which is read as a block when *)
(* the list is empty.                                                      *)
FirstBlock ==
  IF send_buf = <<>> THEN NoBlock ELSE send_buf[1]

Expire ==
  /\ tm.at = "idle"
  /\ node # "out"
  /\ expired < load.timeouts
  /\ ssthresh' = cwnd \div 2
  /\ cwnd' = 1
  /\ snd_nxt' = FirstBlock.seq
  /\ tm' = [tm EXCEPT !.at = "header", !.seq = snd_nxt, !.blk = FirstBlock]
  /\ expired' = expired + 1
  /\ UNCHANGED <<snd_una, snd_wnd, adv_wnd, avoid_cnt, reack_cnt, last_ack, reseq, recovery_point,
                 send_buf, timer, notified, wr, rx, wire, acks, peer, lost>>

ExpireHeader ==
  /\ tm.at = "header"
  /\ tm' = [tm EXCEPT !.at = "send", !.hdr = snd_nxt]
  /\ UNCHANGED <<window, congestion, send_buf, timer, notified, wr, rx, network>>

ExpireSend ==
  /\ tm.at = "send"
  /\ tcp_send_packet(tm.hdr, tm.blk)
  /\ tm' = [tm EXCEPT !.at = "restore"]
  /\ UNCHANGED <<snd_una, adv_wnd, congestion, send_buf, timer, notified, wr, rx, acks, peer,
                 expired, lost>>

ExpireRestore ==
  /\ tm.at = "restore"
  /\ snd_nxt' = tm.seq
  /\ tm' = [tm EXCEPT !.at = "idle"]
  /\ UNCHANGED <<snd_una, snd_wnd, adv_wnd, congestion, send_buf, timer, notified, wr, rx, network>>

-----------------------------------------------------------------------------
(* The network and the peer.                                               *)

rcv_nxt == Len(peer.data) + 1
rcv_wnd == PeerWnd - peer.unread

(* The peer after the next segment p: it and those that follow it in ofo.  *)
AtSeq(n) == {q \in peer.ofo : q.seq = n}

Taken(p) ==
  \E k \in 0 .. PeerWnd :
    /\ \A j \in 1 .. k : AtSeq(p.seq + j) # {}
    /\ AtSeq(p.seq + k + 1) = {}
    /\ peer' = [data |-> peer.data \o [j \in 1 .. k + 1 |->
                     IF j = 1 THEN p.data ELSE (CHOOSE q \in AtSeq(p.seq + j - 1) : TRUE).data],
                ofo |-> {q \in peer.ofo : q.seq \notin p.seq .. p.seq + k},
                unread |-> peer.unread + k + 1,
                runs |-> peer.unread + k < PeerWnd]

PeerAck == [ack |-> Len(peer'.data) + 1, rwnd |-> PeerWnd - peer'.unread]

(* A segment outside the window is dropped; any other is acknowledged,     *)
(* unless the buffer has no room for it: write_ring_buffer then aborts.    *)
Deliver ==
  LET p == Head(wire)
  IN  /\ peer.runs
      /\ wire # <<>>
      /\ wire' = Tail(wire)
      /\ IF p.seq < rcv_nxt + more_of(rcv_wnd, 1) /\ rcv_nxt <= seq_end(p)
         THEN /\ IF p.seq = rcv_nxt
                 THEN Taken(p)
                 ELSE peer' = [peer EXCEPT !.ofo = IF AtSeq(p.seq) = {} THEN @ \cup {p} ELSE @]
              /\ acks' = IF peer'.runs THEN Append(acks, PeerAck) ELSE acks
         ELSE UNCHANGED <<peer, acks>>
      /\ UNCHANGED <<window, congestion, send_buf, timer, notified, wr, rx, tm, expired, lost>>

(* The reader of the peer empties its buffer, and says so before it sleeps. *)
PeerReads ==
  /\ peer.runs
  /\ peer.unread > 0
  /\ peer' = [peer EXCEPT !.unread = 0]
  /\ acks' = Append(acks, PeerAck)
  /\ UNCHANGED <<window, congestion, send_buf, timer, notified, wr, rx, tm, wire, expired, lost>>

Lose ==
  /\ lost < MaxLoss
  /\ lost' = lost + 1
  /\ \/ wire # <<>> /\ wire' = Tail(wire) /\ UNCHANGED acks
     \/ acks # <<>> /\ acks' = Tail(acks) /\ UNCHANGED wire
  /\ UNCHANGED <<window, congestion, send_buf, timer, notified, wr, rx, tm, peer, expired>>

-----------------------------------------------------------------------------
(* After the SYN|ACK, which was acknowledgement number 1 and let the       *)
(* congestion window grow once.                                            *)
Init ==
  /\ load \in Load
  /\ snd_una = 1 /\ snd_nxt = 1
  /\ adv_wnd = PeerWnd /\ snd_wnd = less_of(PeerWnd, 2)
  /\ cwnd = 2 /\ ssthresh = Ssthresh
  /\ avoid_cnt = 0 /\ reack_cnt = 0 /\ last_ack = 1
  /\ reseq = U32 - 1 /\ recovery_point = 0
  /\ send_buf = <<>> /\ enable = FALSE /\ node = "out"
  /\ notified = TRUE
  /\ wr = [at |-> IF Segments = 0 THEN "done" ELSE "check", seq |-> 0, hdr |-> 0, data |-> 1]
  /\ rx = [at |-> "idle", cb |-> [ack |-> 1, rwnd |-> PeerWnd], why |-> "none",
           seq |-> 0, blk |-> NoBlock, hdr |-> 0]
  /\ tm = [at |-> "idle", seq |-> 0, blk |-> NoBlock, hdr |-> 0]
  /\ wire = <<>> /\ acks = <<>>
  /\ peer = [data |-> <<>>, ofo |-> {}, unread |-> 0, runs |-> TRUE]
  /\ expired = 0 /\ lost = 0

Writer == \/ CheckWindow \/ SleepOn \/ ReadSeq \/ WriteHeader \/ WriteSend
          \/ AppendBlock \/ ArmTimer
Rx == \/ TakeAck \/ FreeBlock \/ RearmTimer \/ FreeDone
      \/ SendAgain \/ AgainHeader \/ AgainSend \/ AgainRestore \/ SentAgain
      \/ AdvanceUna \/ UpdateAdvWnd \/ UpdateSndWnd \/ WakeWriter
Tm == ExpireHeader \/ ExpireSend \/ ExpireRestore

(* All is written, and all of it acknowledged.                             *)
Finished ==
  /\ wr.at = "done" \/ ~peer.runs
  /\ rx.at = "idle" /\ tm.at = "idle" /\ acks = <<>> /\ (wire = <<>> \/ ~peer.runs)
  /\ UNCHANGED progress

Next ==
  /\ Writer \/ Rx \/ Expire \/ Tm \/ Deliver \/ PeerReads \/ Lose \/ Finished
  /\ UNCHANGED load

Spec == Init /\ [][Next]_vars

Fairness == /\ WF_progress(Writer) /\ WF_progress(Rx) /\ WF_progress(Expire) /\ WF_progress(Tm)
            /\ WF_progress(Deliver) /\ WF_progress(PeerReads)
FairSpec == Spec /\ Fairness
-----------------------------------------------------------------------------
Word == 0 .. U32 - 1
Block == [seq : Word, data : 0 .. Segments, len : 0 .. 1]
Ack == [ack : 1 .. Segments + 1, rwnd : 0 .. PeerWnd]

(* The types, of which the hard ones are the unsigned words: what the      *)
(* three threads compute from each other's values wraps, as in C.          *)
WindowOK ==
  /\ snd_una \in Word /\ snd_nxt \in Word /\ snd_wnd \in Word
  /\ adv_wnd \in 0 .. PeerWnd

CongestionOK ==
  /\ cwnd \in Nat /\ ssthresh \in Nat
  /\ avoid_cnt \in Nat \cup {-1} /\ reack_cnt \in 0 .. 4
  /\ last_ack \in Word /\ reseq \in Word /\ recovery_point \in Word

BufferOK ==
  /\ send_buf \in Seq(Block)
  /\ enable \in BOOLEAN /\ node \in {"out", "in", "stuck"} /\ notified \in BOOLEAN

WriterOK ==
  wr \in [at : {"check", "sleep", "seq", "header", "send", "append", "arm", "done"},
          seq : Word, hdr : Word, data : 1 .. Segments + 1]

RxOK ==
  rx \in [at : {"idle", "free", "rearm", "again", "header", "send", "restore", "sent",
                "una", "adv_wnd", "snd_wnd", "wake"},
          cb : Ack, why : {"none", "partial", "third"},
          seq : Word, blk : Block, hdr : Word]

TmOK ==
  tm \in [at : {"idle", "header", "send", "restore"}, seq : Word, blk : Block, hdr : Word]

NetworkOK ==
  /\ wire \in Seq(Block) /\ acks \in Seq(Ack)
  /\ peer \in [data : Seq(1 .. Segments), ofo : SUBSET Block, unread : Nat, runs : BOOLEAN]
  /\ expired \in 0 .. load.timeouts /\ lost \in 0 .. MaxLoss

TypeOK ==
  WindowOK /\ CongestionOK /\ BufferOK /\ WriterOK /\ RxOK /\ TmOK /\ NetworkOK

(* Neither of the threads that send a block again has done so.             *)
NothingSentAgain == recovery_point = 0 /\ rx.why = "none" /\ expired = 0

(* No lost wake-up of tcp_sock_write: the window opens in three            *)
(* unsynchronised assignments of tcp_process, any of which may fall        *)
(* between the test and sleep_on; a writer asleep with no notification     *)
(* pending still has its window shut.  (A retransmission may also open it, *)
(* by putting snd_nxt back.)  The words keep their types, wrapped or not.  *)
SleepsOnlyIfShut ==
  /\ expired = 0 => TypeOK
  /\ NothingSentAgain /\ wr.at = "sleep" /\ ~notified
       /\ rx.at \notin {"una", "adv_wnd", "snd_wnd", "wake"} => Shut

(* A segment the peer has not acknowledged can be sent again: it is in     *)
(* send_buf, or tcp_sock_write is about to put it there, whatever          *)
(* tcp_free_send_buf has freed meanwhile.  (Once it has been, snd_nxt may  *)
(* give one number to two segments.)                                       *)
UnackedIsKept ==
  NothingSentAgain =>
    \A n \in rcv_nxt .. snd_nxt - 1 :
      \/ wr.at = "append" /\ wr.seq = n
      \/ \E i \in 1 .. Len(send_buf) : send_buf[i].seq = n

(* While blocks wait in send_buf the retransmission timer is in the list,  *)
(* or one of the two threads that test and set it is about to put it in:   *)
(* the races over its enable flag never leave data without a timer.        *)
TimerRuns ==
  node = "out" /\ wr.at \notin {"append", "arm"} /\ rx.at # "rearm" => send_buf = <<>>

(* tcp_sock_write takes all the data and all of it is acknowledged, on a   *)
(* path that loses nothing and is not slow, unless the peer aborts.        *)
AllWritten ==
  [](lost = 0 /\ expired = 0) => <>((wr.at = "done" /\ snd_una = Segments + 1) \/ ~peer.runs)

=============================================================================
