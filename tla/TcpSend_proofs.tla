--------------------------- MODULE TcpSend_proofs ---------------------------
(* Proofs about TcpSend: for every load, window and loss, what the three   *)
(* threads compute from each other's values stays in range until the timer *)
(* has expired, and no block and no wake-up is lost before anything has    *)
(* been sent again; the timer guards the blocks whatever happens.          *)
EXTENDS TcpSend, SequenceTheorems, TLAPS

-----------------------------------------------------------------------------
(* The timer.  Its two tests and its node agree in every interleaving.     *)
Records ==
  /\ wr = [at |-> wr.at, seq |-> wr.seq, hdr |-> wr.hdr, data |-> wr.data]
  /\ rx = [at |-> rx.at, cb |-> rx.cb, why |-> rx.why, seq |-> rx.seq, blk |-> rx.blk,
           hdr |-> rx.hdr]

TimerInv ==
  /\ Records
  /\ enable => node # "out"
  /\ TimerRuns

LEMMA InitTimer == Init => TimerInv
BY DEF Init, TimerInv, Records, TimerRuns

LEMMA StepTimer == TimerInv /\ [Next]_vars => TimerInv'
<1> SUFFICES ASSUME TimerInv, [Next]_vars
             PROVE  TimerInv'
  OBVIOUS
<1> USE DEF TimerInv, Records, TimerRuns
<1>1. CASE CheckWindow \/ SleepOn \/ ReadSeq \/ WriteHeader \/ WriteSend
  <2>1. CASE CheckWindow
    BY <2>1 DEF CheckWindow, timer
  <2>2. CASE SleepOn
    BY <2>2 DEF SleepOn, timer
  <2>3. CASE ReadSeq
    BY <2>3 DEF ReadSeq, timer
  <2>4. CASE WriteHeader
    BY <2>4 DEF WriteHeader, timer
  <2>5. CASE WriteSend
    BY <2>5 DEF WriteSend, timer
  <2> QED BY <1>1, <2>1, <2>2, <2>3, <2>4, <2>5
<1>2. CASE AppendBlock
  BY <1>2 DEF AppendBlock, timer
<1>3. CASE ArmTimer
  BY <1>3 DEF ArmTimer, timer, tcp_set_retrans_timer
<1>4. CASE TakeAck
  BY <1>4 DEF TakeAck, timer
<1>5. CASE FreeBlock
  BY <1>5 DEF FreeBlock, tcp_unset_retrans_timer
<1>6. CASE RearmTimer
  BY <1>6 DEF RearmTimer, timer, tcp_set_retrans_timer
<1>7. CASE FreeDone \/ SendAgain \/ AgainHeader \/ AgainSend \/ AgainRestore \/ SentAgain
  <2>1. CASE FreeDone
    BY <2>1 DEF FreeDone, timer
  <2>2. CASE SendAgain
    BY <2>2 DEF SendAgain, timer
  <2>3. CASE AgainHeader \/ AgainSend \/ AgainRestore
    <3>1. CASE AgainHeader
      BY <3>1 DEF AgainHeader, timer
    <3>2. CASE AgainSend
      BY <3>2 DEF AgainSend, timer
    <3>3. CASE AgainRestore
      BY <3>3 DEF AgainRestore, timer
    <3> QED BY <2>3, <3>1, <3>2, <3>3
  <2>4. CASE SentAgain
    BY <2>4 DEF SentAgain, timer
  <2> QED BY <1>7, <2>1, <2>2, <2>3, <2>4
<1>8. CASE AdvanceUna \/ UpdateAdvWnd \/ UpdateSndWnd \/ WakeWriter
  BY <1>8 DEF AdvanceUna, UpdateAdvWnd, UpdateSndWnd, WakeWriter, timer
<1>9. CASE Expire \/ Tm \/ Deliver \/ PeerReads \/ Lose
  BY <1>9 DEF Expire, Tm, ExpireHeader, ExpireSend, ExpireRestore, Deliver, PeerReads, Lose,
              timer
<1>10. CASE Finished \/ UNCHANGED vars
  BY <1>10 DEF Finished, vars, progress, timer
<1> QED BY <1>1, <1>2, <1>3, <1>4, <1>5, <1>6, <1>7, <1>8, <1>9, <1>10
        DEF Next, Writer, Rx

(* No block waits without a timer, in whatever order the writer and the    *)
(* receiving thread test and set it.                                       *)
THEOREM TimerAlwaysRuns == Spec => []TimerRuns
<1>1. TimerInv => TimerRuns
  BY DEF TimerInv
<1> QED BY <1>1, InitTimer, StepTimer, PTL DEF Spec

-----------------------------------------------------------------------------
(* The numbers, until the timer expires.                                   *)
(* The segments the writer has sent.                                       *)
Written == wr.data - 1 + (IF wr.at \in {"append", "arm"} THEN 1 ELSE 0)

FullBlock == [seq : 1 .. Segments, data : 1 .. Segments, len : {1}]

WriterNumbers ==
  /\ wr.at # "done" => wr.data <= Segments
  /\ wr.at \in {"header", "send", "append"} => wr.seq \in 1 .. wr.data
  /\ wr.at = "send" => wr.hdr \in 1 .. wr.data
  /\ snd_nxt \in 1 .. Written + 1

(* While a block is sent again snd_nxt is back at a number that was sent,  *)
(* or, when the writer has sent meanwhile, at the next one.                *)
RxNumbers ==
  /\ rx.at \in {"header", "send"} => snd_nxt <= Written
  /\ rx.at = "send" => rx.hdr \in 1 .. Written
  /\ rx.at \in {"header", "send", "restore"} =>
       rx.seq \in 1 .. Written + 1 /\ rx.blk.data \in 1 .. Segments /\ rx.blk.len = 1

BufferNumbers ==
  /\ send_buf \in Seq(FullBlock)
  /\ \A i \in 1 .. Len(send_buf) : send_buf[i].seq <= Written

NetworkNumbers ==
  /\ wire \in Seq(FullBlock)
  /\ peer.ofo \subseteq FullBlock
  /\ Len(peer.data) <= Segments
  /\ peer.runs => peer.unread <= PeerWnd

Numbers ==
  /\ tm.at = "idle"
  /\ WriterNumbers /\ RxNumbers /\ BufferNumbers /\ NetworkNumbers

LEMMA Constants ==
  ASSUME load \in Load
  PROVE  /\ Segments \in Nat /\ load.timeouts \in Nat
         /\ PeerWnd \in Nat /\ PeerWnd >= 1 /\ U32 \in Nat
         /\ Segments + PeerWnd + 1 < U32
BY SizeAssumption DEF Segments

(* The sets that depend on the load, which does not change.                *)
LEMMA SameTypes ==
  ASSUME UNCHANGED load
  PROVE  /\ Segments' = Segments /\ load.timeouts' = load.timeouts
         /\ Block' = Block /\ Ack' = Ack /\ FullBlock' = FullBlock
BY DEF Segments, Block, Ack, FullBlock

LEMMA Wraps ==
  ASSUME load \in Load, NEW n \in Int
  PROVE  /\ n % U32 \in Word
         /\ n \in Word => n % U32 = n
<1>1. U32 \in Nat /\ U32 > 0
  BY Constants
<1> QED BY <1>1 DEF Word

LEMMA BlockType ==
  ASSUME load \in Load
  PROVE  /\ FullBlock \subseteq Block
         /\ \A b : b \in FullBlock <=>
              /\ b \in Block
              /\ b.seq \in 1 .. Segments /\ b.data \in 1 .. Segments /\ b.len = 1
<1>1. Segments \in Nat /\ U32 \in Nat /\ Segments < U32
  BY Constants
<1> QED BY <1>1 DEF FullBlock, Block, Word

LEMMA AppendType ==
  ASSUME NEW S, NEW list \in Seq(S), NEW e \in S
  PROVE  /\ Append(list, e) \in Seq(S) /\ Len(Append(list, e)) = Len(list) + 1
         /\ \A i \in 1 .. Len(list) : Append(list, e)[i] = list[i]
         /\ Append(list, e)[Len(list) + 1] = e
BY AppendProperties

(* A sequence from which one element is removed.                           *)
LEMMA Removed ==
  ASSUME NEW S, NEW list \in Seq(S), NEW k \in 1 .. Len(list)
  PROVE  /\ RemoveAt(list, k) \in Seq(S)
         /\ Len(RemoveAt(list, k)) = Len(list) - 1
         /\ \A j \in 1 .. Len(list) - 1 :
              RemoveAt(list, k)[j] = IF j < k THEN list[j] ELSE list[j + 1]
<1> DEFINE n == Len(list)
           before == SubSeq(list, 1, k - 1)
           after == SubSeq(list, k + 1, n)
<1>1. n \in Nat /\ k \in 1 .. n /\ \A j \in 1 .. n : list[j] \in S
  BY LenProperties, ElementOfSeq
<1>2. /\ before \in Seq(S) /\ Len(before) = k - 1
      /\ \A j \in 1 .. k - 1 : before[j] = list[j]
  BY <1>1, SubSeqProperties
<1>3. /\ after \in Seq(S) /\ Len(after) = n - k
      /\ \A j \in 1 .. n - k : after[j] = list[k + j]
  BY <1>1, SubSeqProperties
<1>4. RemoveAt(list, k) = before \o after
  BY DEF RemoveAt
<1> HIDE DEF n, before, after
<1>5. /\ before \o after \in Seq(S)
      /\ Len(before \o after) = Len(before) + Len(after)
      /\ \A j \in 1 .. Len(before) + Len(after) :
           (before \o after)[j] = IF j <= Len(before) THEN before[j] ELSE after[j - Len(before)]
  BY <1>2, <1>3, ConcatProperties
<1>6. Len(before) + Len(after) = n - 1
  BY <1>1, <1>2, <1>3
<1>7. ASSUME NEW j \in 1 .. n - 1
      PROVE  (before \o after)[j] = IF j < k THEN list[j] ELSE list[j + 1]
  <2>1. CASE j < k
    BY <1>1, <1>2, <1>5, <1>6, <2>1
  <2>2. CASE ~(j < k)
    <3>1. j - Len(before) \in 1 .. n - k /\ k + (j - Len(before)) = j + 1
      BY <1>1, <1>2, <2>2
    <3> QED
      BY <1>1, <1>2, <1>3, <1>5, <1>6, <2>2, <3>1
  <2> QED
    BY <2>1, <2>2
<1> QED
  BY <1>4, <1>5, <1>6, <1>7 DEF n

-----------------------------------------------------------------------------
(* tcp_sock_write.                                                         *)
LEMMA WriterTypes ==
  ASSUME load \in Load, UNCHANGED load, TypeOK, Numbers, Writer
  PROVE  TypeOK' /\ Numbers'
<1>1. /\ Segments \in Nat /\ U32 \in Nat /\ Segments + 1 < U32
  BY Constants
<1>2. /\ Segments' = Segments /\ Block' = Block /\ Ack' = Ack /\ FullBlock' = FullBlock
      /\ load.timeouts' = load.timeouts
  BY SameTypes
<1>3. /\ WindowOK /\ CongestionOK /\ BufferOK /\ WriterOK /\ RxOK /\ TmOK /\ NetworkOK
      /\ tm.at = "idle"
      /\ WriterNumbers /\ RxNumbers /\ BufferNumbers /\ NetworkNumbers
  BY DEF TypeOK, Numbers
<1>4. /\ wr.data \in Nat /\ wr.data >= 1 /\ wr.data <= Segments + 1 /\ Written \in Nat
      /\ wr = [at |-> wr.at, seq |-> wr.seq, hdr |-> wr.hdr, data |-> wr.data]
  BY <1>1, <1>3 DEF WriterOK, Written
<1>5. CASE CheckWindow \/ SleepOn \/ ReadSeq \/ WriteHeader
  <2>1. /\ wr'.data = wr.data /\ Written' = Written
        /\ UNCHANGED <<window, congestion, send_buf, timer, rx, tm, network>>
        /\ notified' \in {notified, FALSE}
    BY <1>4, <1>5 DEF CheckWindow, SleepOn, ReadSeq, WriteHeader, Written
  <2>2. WriterOK' /\ WriterNumbers'
    <3>1. CASE CheckWindow \/ SleepOn
      BY <1>2, <1>3, <1>4, <2>1, <3>1 DEF CheckWindow, SleepOn, WriterOK, WriterNumbers, window
    <3>2. CASE ReadSeq \/ WriteHeader
      <4>1. /\ snd_nxt \in Word /\ snd_nxt' = snd_nxt /\ Written = wr.data - 1
            /\ wr.data <= Segments
        BY <1>3, <1>4, <2>1, <3>2
           DEF ReadSeq, WriteHeader, WindowOK, WriterNumbers, Written, window
      <4>2. snd_nxt \in 1 .. wr.data
        BY <1>3, <1>4, <4>1 DEF WriterNumbers
      <4>3. \/ wr.at = "seq" /\ wr'.at = "header" /\ wr'.seq = snd_nxt /\ wr'.hdr = wr.hdr
            \/ wr.at = "header" /\ wr'.at = "send" /\ wr'.seq = wr.seq /\ wr'.hdr = snd_nxt
        BY <1>4, <3>2 DEF ReadSeq, WriteHeader
      <4>4. wr' = [at |-> wr'.at, seq |-> wr'.seq, hdr |-> wr'.hdr, data |-> wr'.data]
        BY <1>4, <3>2 DEF ReadSeq, WriteHeader
      <4>5. WriterOK'
        BY <1>2, <1>3, <2>1, <4>1, <4>3, <4>4 DEF WriterOK
      <4>6. WriterNumbers'
        BY <1>2, <1>3, <1>4, <2>1, <4>1, <4>2, <4>3 DEF WriterNumbers
      <4> QED BY <4>5, <4>6
    <3> QED BY <1>5, <3>1, <3>2
  <2>3. WindowOK' /\ CongestionOK' /\ RxOK' /\ TmOK' /\ NetworkOK' /\ BufferOK'
    <3>1. WindowOK' /\ CongestionOK'
      BY <1>3, <2>1 DEF WindowOK, CongestionOK, window, congestion
    <3>2. RxOK' /\ TmOK' /\ NetworkOK'
      BY <1>2, <1>3, <2>1 DEF RxOK, TmOK, NetworkOK, network
    <3>3. BufferOK'
      BY <1>2, <1>3, <2>1 DEF BufferOK, timer
    <3> QED BY <3>1, <3>2, <3>3
  <2>4. RxNumbers' /\ BufferNumbers' /\ NetworkNumbers'
    BY <1>2, <1>3, <2>1 DEF RxNumbers, BufferNumbers, NetworkNumbers, window, network
  <2> QED BY <1>3, <2>1, <2>2, <2>3, <2>4 DEF TypeOK, Numbers
<1>6. CASE WriteSend
  <2> DEFINE p == [seq |-> wr.hdr, data |-> wr.data, len |-> 1]
  <2>1. /\ wr.at = "send" /\ wr' = [wr EXCEPT !.at = "append"]
        /\ snd_nxt' = (snd_nxt + 1) % U32 /\ snd_wnd' = (snd_wnd - 1) % U32
        /\ wire' = Append(wire, p)
        /\ UNCHANGED <<snd_una, adv_wnd, congestion, send_buf, timer, notified, rx, tm, acks,
                       peer, expired, lost>>
    BY <1>6 DEF WriteSend, tcp_send_packet
  <2>2. Written = wr.data - 1 /\ Written' = wr.data /\ wr.data <= Segments /\ wr'.data = wr.data
    BY <1>3, <1>4, <2>1 DEF Written, WriterNumbers
  <2>3. snd_nxt \in Nat /\ snd_nxt >= 1 /\ snd_nxt <= wr.data /\ snd_wnd \in Int
    BY <1>1, <1>3, <1>4, <2>2 DEF WriterNumbers, WindowOK, Word
  <2>4. snd_nxt' = snd_nxt + 1 /\ snd_nxt' \in Word /\ snd_wnd' \in Word
    <3>1. snd_nxt + 1 \in Word
      BY <1>1, <1>4, <2>2, <2>3 DEF Word
    <3> QED BY <2>1, <2>3, <3>1, Wraps
  <2>5. p \in FullBlock /\ p \in Block
    <3>1. wr.hdr \in 1 .. Segments /\ wr.data \in 1 .. Segments
      BY <1>1, <1>3, <1>4, <2>1, <2>2 DEF WriterNumbers
    <3> QED BY <3>1, BlockType DEF FullBlock
  <2>6. wire' \in Seq(FullBlock) /\ wire' \in Seq(Block)
    BY <1>3, <2>1, <2>5, AppendType DEF NetworkOK, NetworkNumbers
  <2>7. WriterOK' /\ WriterNumbers'
    <3>1. WriterOK'
      BY <1>2, <1>3, <2>1 DEF WriterOK
    <3>2. /\ wr'.at = "append" /\ wr'.seq = wr.seq /\ wr.seq \in 1 .. wr.data
          /\ snd_nxt' \in 1 .. wr.data + 1
      BY <1>3, <1>4, <2>1, <2>3, <2>4 DEF WriterNumbers
    <3> QED BY <1>2, <2>2, <3>1, <3>2 DEF WriterNumbers
  <2>8. WindowOK' /\ CongestionOK' /\ RxOK' /\ TmOK' /\ NetworkOK' /\ BufferOK'
    BY <1>2, <1>3, <2>1, <2>4, <2>6
       DEF WindowOK, CongestionOK, RxOK, TmOK, NetworkOK, BufferOK, congestion, timer
  <2>9. RxNumbers'
    BY <1>2, <1>3, <1>4, <2>1, <2>2, <2>3, <2>4 DEF RxNumbers
  <2>10. BufferNumbers'
    <3>1. \A i \in 1 .. Len(send_buf) : send_buf[i] \in FullBlock /\ send_buf[i].seq <= Written
      BY <1>3, ElementOfSeq DEF BufferNumbers
    <3>2. \A i \in 1 .. Len(send_buf) : send_buf[i].seq <= wr.data
      BY <1>1, <1>4, <2>2, <3>1 DEF FullBlock
    <3> QED BY <1>2, <1>3, <2>1, <2>2, <3>2 DEF BufferNumbers
  <2>11. NetworkNumbers'
    BY <1>2, <1>3, <2>1, <2>6 DEF NetworkNumbers
  <2> QED BY <1>3, <2>1, <2>7, <2>8, <2>9, <2>10, <2>11 DEF TypeOK, Numbers
<1>7. CASE AppendBlock
  <2> DEFINE b == [seq |-> wr.seq, data |-> wr.data, len |-> 1]
  <2>1. /\ wr.at = "append" /\ wr' = [wr EXCEPT !.at = "arm"]
        /\ send_buf' = Append(send_buf, b)
        /\ UNCHANGED <<window, congestion, timer, notified, rx, tm, network>>
    BY <1>7 DEF AppendBlock
  <2>2. Written = wr.data /\ Written' = wr.data /\ wr.data <= Segments /\ wr'.data = wr.data
    BY <1>3, <1>4, <2>1 DEF Written, WriterNumbers
  <2>3. b \in FullBlock /\ b \in Block /\ b.seq <= wr.data
    <3>1. wr.seq \in 1 .. Segments /\ wr.data \in 1 .. Segments /\ wr.seq <= wr.data
      BY <1>1, <1>3, <1>4, <2>1, <2>2 DEF WriterNumbers
    <3> QED BY <3>1, BlockType DEF FullBlock
  <2>4. BufferOK'
    BY <1>2, <1>3, <2>1, <2>3, AppendType DEF BufferOK, timer
  <2>5. BufferNumbers'
    <3> DEFINE n == Len(send_buf)
    <3>1. n \in Nat /\ \A i \in 1 .. n : send_buf[i].seq <= Written
      BY <1>3, LenProperties DEF BufferNumbers
    <3>2. /\ send_buf' \in Seq(FullBlock) /\ Len(send_buf') = n + 1
          /\ \A i \in 1 .. n : send_buf'[i] = send_buf[i]
          /\ send_buf'[n + 1] = b
      BY <1>3, <2>1, <2>3, AppendType DEF BufferNumbers
    <3> HIDE DEF n, b
    <3>3. \A i \in 1 .. n + 1 : send_buf'[i].seq <= Written
      BY <2>2, <2>3, <3>1, <3>2
    <3> QED BY <1>2, <2>2, <3>2, <3>3 DEF BufferNumbers
  <2>6. WriterOK' /\ WriterNumbers'
    BY <1>1, <1>2, <1>3, <1>4, <2>1, <2>2 DEF WriterOK, WriterNumbers, window
  <2>7. WindowOK' /\ CongestionOK' /\ RxOK' /\ TmOK' /\ NetworkOK'
    BY <1>2, <1>3, <2>1
       DEF WindowOK, CongestionOK, RxOK, TmOK, NetworkOK, window, congestion, network
  <2>8. RxNumbers' /\ NetworkNumbers'
    BY <1>2, <1>3, <2>1, <2>2 DEF RxNumbers, NetworkNumbers, window, network
  <2> QED BY <1>3, <2>1, <2>4, <2>5, <2>6, <2>7, <2>8 DEF TypeOK, Numbers
<1>8. CASE ArmTimer
  <2>1. /\ wr.at = "arm"
        /\ wr' = [wr EXCEPT !.at = IF wr.data = Segments THEN "done" ELSE "check",
                            !.data = @ + 1]
        /\ enable' \in BOOLEAN /\ node' \in {"out", "in", "stuck"}
        /\ UNCHANGED <<window, congestion, send_buf, notified, rx, tm, network>>
    BY <1>3, <1>8 DEF ArmTimer, tcp_set_retrans_timer, timer, BufferOK
  <2>2. Written = wr.data /\ Written' = wr.data /\ wr.data <= Segments
    BY <1>3, <1>4, <2>1 DEF Written, WriterNumbers
  <2>3. /\ wr'.at = (IF wr.data = Segments THEN "done" ELSE "check")
        /\ wr'.data = wr.data + 1 /\ wr'.seq = wr.seq /\ wr'.hdr = wr.hdr
        /\ wr' = [at |-> wr'.at, seq |-> wr'.seq, hdr |-> wr'.hdr, data |-> wr'.data]
    BY <1>4, <2>1
  <2>6. WriterOK' /\ WriterNumbers'
    <3>1. wr.data + 1 \in 1 .. Segments + 1
      BY <1>1, <1>4, <2>2
    <3>2. WriterOK'
      BY <1>2, <1>3, <2>3, <3>1 DEF WriterOK
    <3>3. wr.data # Segments => wr.data + 1 <= Segments
      BY <1>1, <1>4, <2>2
    <3>4. snd_nxt' \in 1 .. Written' + 1
      BY <1>3, <2>1, <2>2 DEF WriterNumbers, window
    <3> QED BY <1>2, <2>3, <3>2, <3>3, <3>4 DEF WriterNumbers
  <2>4. WindowOK' /\ CongestionOK' /\ RxOK' /\ TmOK' /\ NetworkOK' /\ BufferOK'
    BY <1>2, <1>3, <2>1
       DEF WindowOK, CongestionOK, RxOK, TmOK, NetworkOK, BufferOK, window, congestion, network
  <2>5. RxNumbers' /\ BufferNumbers' /\ NetworkNumbers'
    BY <1>2, <1>3, <2>1, <2>2 DEF RxNumbers, BufferNumbers, NetworkNumbers, window, network
  <2> QED BY <1>3, <2>1, <2>4, <2>5, <2>6 DEF TypeOK, Numbers
<1> QED BY <1>5, <1>6, <1>7, <1>8 DEF Writer
-----------------------------------------------------------------------------
(* tcp_process on an acknowledgement.                                      *)

(* A step that leaves alone what was written and sends nothing.            *)
LEMMA QuietNumbers ==
  ASSUME UNCHANGED <<load, wr, tm, snd_nxt, send_buf, wire, peer>>, Numbers,
         rx'.at \notin {"header", "send", "restore"}
  PROVE  Numbers'
<1>1. Segments' = Segments /\ FullBlock' = FullBlock /\ Written' = Written
  BY SameTypes DEF Written
<1>2. WriterNumbers' /\ RxNumbers'
  BY <1>1 DEF Numbers, WriterNumbers, RxNumbers
<1>3. BufferNumbers' /\ NetworkNumbers'
  BY <1>1 DEF Numbers, BufferNumbers, NetworkNumbers
<1> QED BY <1>2, <1>3 DEF Numbers

LEMMA RxTypes ==
  ASSUME load \in Load, UNCHANGED load, TypeOK, Numbers, Rx
  PROVE  TypeOK' /\ Numbers'
<1>1. /\ Segments \in Nat /\ U32 \in Nat /\ Segments + PeerWnd + 1 < U32 /\ PeerWnd \in Nat
  BY Constants
<1>2. /\ Segments' = Segments /\ Block' = Block /\ Ack' = Ack /\ FullBlock' = FullBlock
      /\ load.timeouts' = load.timeouts
  BY SameTypes
<1>3. /\ WindowOK /\ CongestionOK /\ BufferOK /\ WriterOK /\ RxOK /\ TmOK /\ NetworkOK
      /\ tm.at = "idle"
      /\ WriterNumbers /\ RxNumbers /\ BufferNumbers /\ NetworkNumbers
  BY DEF TypeOK, Numbers
<1>4. /\ rx = [at |-> rx.at, cb |-> rx.cb, why |-> rx.why, seq |-> rx.seq, blk |-> rx.blk,
               hdr |-> rx.hdr]
      /\ rx.cb \in Ack /\ rx.why \in {"none", "partial", "third"}
      /\ rx.seq \in Word /\ rx.blk \in Block /\ rx.hdr \in Word
  BY <1>3 DEF RxOK
<1>5. /\ Written \in Nat /\ Written <= Segments
      /\ snd_nxt \in Nat /\ snd_nxt >= 1 /\ snd_nxt <= Written + 1 /\ snd_nxt \in Word
  <2>1. wr.data \in Nat /\ wr.data >= 1 /\ wr.data <= Segments + 1
    BY <1>1, <1>3 DEF WriterOK
  <2>2. wr.at \in {"append", "arm"} => wr.data <= Segments
    BY <1>3 DEF WriterNumbers
  <2>3. Written \in Nat /\ Written <= Segments
    BY <1>1, <2>1, <2>2 DEF Written
  <2> QED BY <1>3, <2>3 DEF WriterNumbers, WindowOK
<1>6. /\ rx.cb.ack \in 1 .. Segments + 1 /\ rx.cb.ack \in Word
      /\ rx.cb.rwnd \in 0 .. PeerWnd /\ rx.cb.rwnd \in Word
  BY <1>1, <1>4 DEF Ack, Word
<1>7. CASE TakeAck
  <2> DEFINE ack == Head(acks).ack
  <2>1. /\ acks # <<>> /\ acks' = Tail(acks) /\ acks \in Seq(Ack)
        /\ rx'.at \in {"free", "una"} /\ rx'.why \in {"none", "partial", "third"}
        /\ rx' = [rx EXCEPT !.at = rx'.at, !.why = rx'.why, !.cb = Head(acks)]
        /\ UNCHANGED <<window, send_buf, timer, notified, wr, tm, wire, peer, expired, lost>>
    BY <1>3, <1>4, <1>7 DEF TakeAck, NetworkOK
  <2>2. Head(acks) \in Ack /\ acks' \in Seq(Ack) /\ ack \in Word
    <3>1. Head(acks) \in Ack /\ Tail(acks) \in Seq(Ack)
      BY <2>1, HeadTailProperties
    <3> QED BY <1>1, <2>1, <3>1 DEF Ack, Word
  <2>3. RxOK'
    BY <1>2, <1>4, <2>1, <2>2 DEF RxOK
  <2>4. CongestionOK'
    <3>1. CASE ack < snd_una
      BY <1>3, <1>7, <3>1 DEF TakeAck, CongestionOK, congestion
    <3>2. CASE ~(ack < snd_una)
      <4>1. /\ Grow /\ last_ack' = ack
            /\ reack_cnt' = less_of(reack_cnt + 1, 4) \/ reack_cnt' = 0
            /\ UNCHANGED <<ssthresh, reseq, recovery_point>>
        BY <1>7, <3>2 DEF TakeAck
      <4>2. cwnd' \in Nat /\ avoid_cnt' \in Nat \cup {-1}
        <5>1. cwnd \in Nat /\ ssthresh \in Nat /\ avoid_cnt \in Nat \cup {-1}
          BY <1>3 DEF CongestionOK
        <5>2. CASE cwnd < ssthresh
          BY <4>1, <5>1, <5>2 DEF Grow
        <5>3. CASE ~(cwnd < ssthresh)
          BY <4>1, <5>1, <5>3 DEF Grow, more_of
        <5> QED BY <5>2, <5>3
      <4>3. reack_cnt' \in 0 .. 4
        BY <1>3, <4>1 DEF CongestionOK, less_of
      <4> QED BY <1>3, <2>2, <4>1, <4>2, <4>3 DEF CongestionOK
    <3> QED BY <3>1, <3>2
  <2>5. WindowOK' /\ BufferOK' /\ WriterOK' /\ TmOK'
    BY <1>2, <1>3, <2>1 DEF WindowOK, BufferOK, WriterOK, TmOK, window, timer
  <2>6. NetworkOK'
    BY <1>2, <1>3, <2>1, <2>2 DEF NetworkOK
  <2>7. Numbers'
    BY <2>1, QuietNumbers DEF window
  <2> QED BY <2>3, <2>4, <2>5, <2>6, <2>7 DEF TypeOK
<1>8. CASE FreeBlock
  <2>1. PICK i \in 1 .. Len(send_buf) : send_buf' = RemoveAt(send_buf, i)
    BY <1>8 DEF FreeBlock, Freeable
  <2>2. /\ rx' = [rx EXCEPT !.at = "rearm"]
        /\ enable' = FALSE /\ node' \in {"stuck", "out"}
        /\ UNCHANGED <<window, congestion, notified, wr, tm, network>>
    BY <1>8 DEF FreeBlock, tcp_unset_retrans_timer
  <2> DEFINE n == Len(send_buf)
  <2>3. /\ send_buf \in Seq(FullBlock) /\ send_buf \in Seq(Block) /\ n \in Nat
        /\ \A j \in 1 .. n : send_buf[j].seq <= Written
    BY <1>3, LenProperties DEF BufferOK, BufferNumbers
  <2>4. /\ send_buf' \in Seq(FullBlock) /\ send_buf' \in Seq(Block)
        /\ Len(send_buf') = n - 1
        /\ \A j \in 1 .. n - 1 :
             send_buf'[j] = IF j < i THEN send_buf[j] ELSE send_buf[j + 1]
    BY <2>1, <2>3, Removed
  <2> HIDE DEF n
  <2>5. \A j \in 1 .. n - 1 : send_buf'[j].seq <= Written
    <3>1. \A j \in 1 .. n - 1 : j \in 1 .. n /\ j + 1 \in 1 .. n
      BY <2>3
    <3> QED BY <2>3, <2>4, <3>1
  <2>6. Written' = Written
    BY <2>2 DEF Written
  <2>7. BufferOK' /\ BufferNumbers'
    BY <1>2, <1>3, <2>2, <2>4, <2>5, <2>6 DEF BufferOK, BufferNumbers
  <2>8. WindowOK' /\ CongestionOK' /\ WriterOK' /\ TmOK' /\ NetworkOK'
    BY <1>2, <1>3, <2>2
       DEF WindowOK, CongestionOK, WriterOK, TmOK, NetworkOK, window, congestion, network
  <2>9. RxOK' /\ RxNumbers'
    BY <1>2, <1>4, <2>2 DEF RxOK, RxNumbers
  <2>10. WriterNumbers' /\ NetworkNumbers'
    BY <1>2, <1>3, <2>2, <2>6 DEF WriterNumbers, NetworkNumbers, window, network
  <2> QED BY <1>3, <2>2, <2>7, <2>8, <2>9, <2>10 DEF TypeOK, Numbers
<1>9. CASE RearmTimer \/ FreeDone \/ WakeWriter
  <2>1. /\ rx'.at \in {"free", "idle", "again"} /\ rx' = [rx EXCEPT !.at = rx'.at]
        /\ enable' \in {enable, TRUE} /\ node' \in {node, "in", "stuck"}
        /\ notified' \in {notified, TRUE}
        /\ UNCHANGED <<window, congestion, send_buf, wr, tm, network>>
    <3>1. CASE RearmTimer
      BY <1>4, <3>1 DEF RearmTimer, timer, tcp_set_retrans_timer
    <3>2. CASE FreeDone
      BY <1>4, <3>2 DEF FreeDone, timer
    <3>3. CASE WakeWriter
      BY <1>4, <3>3 DEF WakeWriter, timer
    <3> QED BY <1>9, <3>1, <3>2, <3>3
  <2>2. RxOK'
    BY <1>2, <1>4, <2>1 DEF RxOK
  <2>3. BufferOK'
    BY <1>2, <1>3, <2>1 DEF BufferOK
  <2>4. WindowOK' /\ CongestionOK' /\ WriterOK' /\ TmOK' /\ NetworkOK'
    BY <1>2, <1>3, <2>1
       DEF WindowOK, CongestionOK, WriterOK, TmOK, NetworkOK, window, congestion, network
  <2>5. Numbers'
    BY <2>1, QuietNumbers DEF window, network
  <2> QED BY <2>2, <2>3, <2>4, <2>5 DEF TypeOK
<1>10. CASE AdvanceUna \/ UpdateAdvWnd \/ UpdateSndWnd
  <2>1. /\ rx'.at \in {"adv_wnd", "snd_wnd", "wake"} /\ rx' = [rx EXCEPT !.at = rx'.at]
        /\ snd_una' \in Word /\ snd_wnd' \in Word /\ adv_wnd' \in 0 .. PeerWnd
        /\ UNCHANGED <<snd_nxt, congestion, send_buf, timer, notified, wr, tm, network>>
    <3>1. snd_una \in Word /\ snd_wnd \in Word /\ adv_wnd \in 0 .. PeerWnd /\ cwnd \in Nat
      BY <1>3 DEF WindowOK, CongestionOK
    <3>2. CASE AdvanceUna
      BY <1>4, <1>6, <3>1, <3>2 DEF AdvanceUna, more_of
    <3>3. CASE UpdateAdvWnd
      BY <1>4, <1>6, <3>1, <3>3 DEF UpdateAdvWnd
    <3>4. CASE UpdateSndWnd
      <4>1. less_of(adv_wnd, cwnd) \in Word
        BY <1>1, <3>1 DEF less_of, Word
      <4> QED BY <1>4, <3>1, <3>4, <4>1 DEF UpdateSndWnd
    <3> QED BY <1>10, <3>2, <3>3, <3>4
  <2>2. RxOK'
    BY <1>2, <1>4, <2>1 DEF RxOK
  <2>3. WindowOK' /\ BufferOK'
    BY <1>2, <1>3, <2>1 DEF WindowOK, BufferOK, timer
  <2>4. CongestionOK' /\ WriterOK' /\ TmOK' /\ NetworkOK'
    BY <1>2, <1>3, <2>1 DEF CongestionOK, WriterOK, TmOK, NetworkOK, congestion, network
  <2>5. Numbers'
    BY <2>1, QuietNumbers DEF network
  <2> QED BY <2>2, <2>3, <2>4, <2>5 DEF TypeOK
<1>11. CASE SentAgain
  <2>1. /\ rx' = [rx EXCEPT !.at = "una", !.why = "none"]
        /\ cwnd' \in {cwnd, cwnd \div 2} /\ ssthresh' \in {ssthresh, cwnd \div 2}
        /\ recovery_point' \in {recovery_point, snd_nxt} /\ reseq' \in {reseq, rx.cb.ack}
        /\ UNCHANGED <<avoid_cnt, reack_cnt, last_ack, window, send_buf, timer, notified, wr, tm,
                       network>>
    BY <1>11 DEF SentAgain
  <2>2. CongestionOK'
    <3>1. cwnd \in Nat /\ cwnd \div 2 \in Nat
      BY <1>3 DEF CongestionOK
    <3> QED BY <1>3, <1>5, <1>6, <2>1, <3>1 DEF CongestionOK
  <2>3. RxOK'
    BY <1>2, <1>4, <2>1 DEF RxOK
  <2>4. WindowOK' /\ BufferOK' /\ WriterOK' /\ TmOK' /\ NetworkOK'
    BY <1>2, <1>3, <2>1
       DEF WindowOK, BufferOK, WriterOK, TmOK, NetworkOK, window, timer, network
  <2>5. Numbers'
    BY <1>4, <2>1, QuietNumbers DEF window, network
  <2> QED BY <2>2, <2>3, <2>4, <2>5 DEF TypeOK
<1>12. CASE SendAgain
  <2>1. /\ UNCHANGED <<snd_una, snd_wnd, adv_wnd, congestion, send_buf, timer, notified, wr, tm,
                       network>>
        /\ \/ /\ send_buf # <<>> /\ snd_nxt' = send_buf[1].seq
              /\ rx' = [rx EXCEPT !.at = "header", !.seq = snd_nxt, !.blk = send_buf[1]]
           \/ rx' = [rx EXCEPT !.at = "sent"] /\ snd_nxt' = snd_nxt
    BY <1>12 DEF SendAgain
  <2>2. /\ CongestionOK' /\ BufferOK' /\ WriterOK' /\ TmOK' /\ NetworkOK'
        /\ Written' = Written
    BY <1>2, <1>3, <2>1
       DEF CongestionOK, BufferOK, WriterOK, TmOK, NetworkOK, congestion, timer, network, Written
  <2>3. BufferNumbers' /\ NetworkNumbers'
    BY <1>2, <1>3, <2>1, <2>2 DEF BufferNumbers, NetworkNumbers, network
  <2>4. CASE rx' = [rx EXCEPT !.at = "sent"] /\ snd_nxt' = snd_nxt
    <3>1. WindowOK' /\ RxOK'
      BY <1>2, <1>3, <1>4, <2>1, <2>4 DEF WindowOK, RxOK
    <3>2. WriterNumbers' /\ RxNumbers'
      BY <1>2, <1>3, <1>4, <2>1, <2>2, <2>4 DEF WriterNumbers, RxNumbers
    <3> QED BY <1>3, <2>1, <2>2, <2>3, <3>1, <3>2 DEF TypeOK, Numbers
  <2>5. CASE /\ send_buf # <<>> /\ snd_nxt' = send_buf[1].seq
             /\ rx' = [rx EXCEPT !.at = "header", !.seq = snd_nxt, !.blk = send_buf[1]]
    <3> DEFINE b == send_buf[1]
    <3>1. b \in FullBlock /\ b.seq <= Written
      <4>1. send_buf \in Seq(FullBlock) /\ 1 \in 1 .. Len(send_buf)
        BY <1>3, <2>5, EmptySeq, LenProperties DEF BufferNumbers
      <4> QED BY <1>3, <4>1, ElementOfSeq DEF BufferNumbers
    <3>2. b \in Block /\ b.seq \in 1 .. Segments /\ b.data \in 1 .. Segments /\ b.len = 1
      BY <3>1, BlockType
    <3> HIDE DEF b
    <3>3. /\ rx' = [at |-> "header", cb |-> rx.cb, why |-> rx.why, seq |-> snd_nxt, blk |-> b,
                    hdr |-> rx.hdr]
          /\ snd_nxt' = b.seq
      BY <1>4, <2>5 DEF b
    <3>4. WindowOK'
      <4>1. b.seq \in Word
        BY <1>1, <3>2 DEF Word
      <4> QED BY <1>3, <2>1, <3>3, <4>1 DEF WindowOK
    <3>5. RxOK'
      BY <1>2, <1>4, <1>5, <3>2, <3>3 DEF RxOK
    <3>6. snd_nxt' \in 1 .. Written' + 1 /\ snd_nxt' <= Written'
      BY <1>5, <2>2, <3>1, <3>2, <3>3
    <3>7. WriterNumbers'
      BY <1>2, <1>3, <2>1, <3>6 DEF WriterNumbers
    <3>8. RxNumbers'
      BY <1>2, <1>5, <2>2, <3>2, <3>3, <3>6 DEF RxNumbers
    <3> QED BY <1>3, <2>1, <2>2, <2>3, <3>4, <3>5, <3>7, <3>8 DEF TypeOK, Numbers
  <2> QED BY <2>1, <2>4, <2>5
<1>13. CASE AgainHeader
  <2>1. /\ rx.at = "header"
        /\ rx' = [at |-> "send", cb |-> rx.cb, why |-> rx.why, seq |-> rx.seq, blk |-> rx.blk,
                  hdr |-> snd_nxt]
        /\ UNCHANGED <<window, congestion, send_buf, timer, notified, wr, tm, network>>
    BY <1>4, <1>13 DEF AgainHeader
  <2>2. RxOK'
    BY <1>2, <1>4, <1>5, <2>1 DEF RxOK
  <2>3. /\ WindowOK' /\ CongestionOK' /\ BufferOK' /\ WriterOK' /\ TmOK' /\ NetworkOK'
        /\ Written' = Written
    BY <1>2, <1>3, <2>1
       DEF WindowOK, CongestionOK, BufferOK, WriterOK, TmOK, NetworkOK, window, congestion, timer,
           network, Written
  <2>4. WriterNumbers' /\ BufferNumbers' /\ NetworkNumbers'
    BY <1>2, <1>3, <2>1, <2>3 DEF WriterNumbers, BufferNumbers, NetworkNumbers, window, network
  <2>5. RxNumbers'
    <3>1. snd_nxt <= Written /\ snd_nxt \in 1 .. Written
      BY <1>3, <1>5, <2>1 DEF RxNumbers
    <3> QED BY <1>2, <1>3, <2>1, <2>3, <3>1 DEF RxNumbers, window
  <2> QED BY <1>3, <2>1, <2>2, <2>3, <2>4, <2>5 DEF TypeOK, Numbers
<1>14. CASE AgainSend
  <2> DEFINE p == [seq |-> rx.hdr, data |-> rx.blk.data, len |-> rx.blk.len]
  <2>1. /\ rx.at = "send"
        /\ snd_nxt' = (snd_nxt + rx.blk.len) % U32 /\ snd_wnd' = (snd_wnd - 1) % U32
        /\ wire' = Append(wire, p)
        /\ rx' = [at |-> "restore", cb |-> rx.cb, why |-> rx.why, seq |-> rx.seq, blk |-> rx.blk,
                  hdr |-> rx.hdr]
        /\ UNCHANGED <<snd_una, adv_wnd, congestion, send_buf, timer, notified, wr, tm, acks,
                       peer, expired, lost>>
    BY <1>4, <1>14 DEF AgainSend, tcp_send_packet
  <2>2. /\ snd_nxt <= Written /\ rx.hdr \in 1 .. Written
        /\ rx.seq \in 1 .. Written + 1 /\ rx.blk.data \in 1 .. Segments /\ rx.blk.len = 1
    BY <1>3, <2>1 DEF RxNumbers
  <2>3. snd_nxt' = snd_nxt + 1 /\ snd_nxt' \in Word /\ snd_wnd' \in Word
    <3>1. snd_nxt + 1 \in Word /\ snd_wnd - 1 \in Int
      BY <1>1, <1>3, <1>5, <2>2 DEF Word, WindowOK
    <3>2. (snd_nxt + 1) % U32 = snd_nxt + 1 /\ (snd_wnd - 1) % U32 \in Word
      BY <1>5, <3>1, Wraps
    <3> QED BY <2>1, <2>2, <3>1, <3>2
  <2>4. p \in FullBlock /\ p \in Block
    <3>1. rx.hdr \in 1 .. Segments
      BY <1>1, <1>5, <2>2
    <3> QED BY <2>2, <3>1, BlockType DEF FullBlock
  <2>5. wire' \in Seq(FullBlock) /\ wire' \in Seq(Block)
    BY <1>3, <2>1, <2>4, AppendType DEF NetworkOK, NetworkNumbers
  <2>6. /\ WindowOK' /\ CongestionOK' /\ BufferOK' /\ WriterOK' /\ TmOK'
        /\ Written' = Written
    BY <1>2, <1>3, <2>1, <2>3
       DEF WindowOK, CongestionOK, BufferOK, WriterOK, TmOK, congestion, timer, Written
  <2>7. NetworkOK' /\ NetworkNumbers'
    BY <1>2, <1>3, <2>1, <2>5 DEF NetworkOK, NetworkNumbers
  <2>8. RxOK' /\ RxNumbers'
    BY <1>2, <1>4, <2>1, <2>2, <2>6 DEF RxOK, RxNumbers
  <2>9. snd_nxt' \in 1 .. Written' + 1
    BY <1>5, <2>2, <2>3, <2>6
  <2>10. WriterNumbers' /\ BufferNumbers'
    BY <1>2, <1>3, <2>1, <2>6, <2>9 DEF WriterNumbers, BufferNumbers
  <2> QED BY <1>3, <2>1, <2>6, <2>7, <2>8, <2>10 DEF TypeOK, Numbers
<1>15. CASE AgainRestore
  <2>1. /\ rx.at = "restore" /\ snd_nxt' = rx.seq
        /\ rx' = [rx EXCEPT !.at = "sent"]
        /\ UNCHANGED <<snd_una, snd_wnd, adv_wnd, congestion, send_buf, timer, notified, wr, tm,
                       network>>
    BY <1>15 DEF AgainRestore
  <2>2. rx.seq \in 1 .. Written + 1
    BY <1>3, <2>1 DEF RxNumbers
  <2>3. /\ WindowOK' /\ CongestionOK' /\ BufferOK' /\ WriterOK' /\ TmOK' /\ NetworkOK'
        /\ Written' = Written
    BY <1>2, <1>3, <1>4, <2>1
       DEF WindowOK, CongestionOK, BufferOK, WriterOK, TmOK, NetworkOK, congestion, timer,
           network, Written
  <2>4. RxOK' /\ RxNumbers'
    BY <1>2, <1>4, <2>1 DEF RxOK, RxNumbers
  <2>5. WriterNumbers' /\ BufferNumbers' /\ NetworkNumbers'
    BY <1>2, <1>3, <2>1, <2>2, <2>3 DEF WriterNumbers, BufferNumbers, NetworkNumbers, network
  <2> QED BY <1>3, <2>1, <2>3, <2>4, <2>5 DEF TypeOK, Numbers
<1> QED BY <1>7, <1>8, <1>9, <1>10, <1>11, <1>12, <1>13, <1>14, <1>15 DEF Rx
-----------------------------------------------------------------------------
(* The network and the peer.                                               *)

PeerType ==
  [data : Seq(1 .. Segments), ofo : SUBSET Block, unread : Nat, runs : BOOLEAN]

LEMMA FunctionIsSeq ==
  ASSUME NEW S, NEW n \in Nat, NEW f \in [1 .. n -> S]
  PROVE  f \in Seq(S) /\ Len(f) = n
OBVIOUS

(* The peer takes the segment that is next and those kept behind it: what  *)
(* it has then are segments the writer wrote, and no more than those.      *)
LEMMA TakenType ==
  ASSUME load \in Load, peer \in PeerType, peer.ofo \subseteq FullBlock, peer.runs,
         NEW p \in FullBlock, p.seq = rcv_nxt, Taken(p)
  PROVE  /\ peer' \in PeerType
         /\ peer'.ofo \subseteq FullBlock
         /\ Len(peer'.data) <= Segments
         /\ Len(peer'.data) > Len(peer.data)
         /\ peer'.runs => peer'.unread <= PeerWnd
<1>1. Segments \in Nat /\ PeerWnd \in Nat
  BY Constants
<1> DEFINE n == Len(peer.data)
           at(i) == CHOOSE q \in AtSeq(p.seq + i) : TRUE
<1>2. PICK k \in 0 .. PeerWnd :
        /\ \A j \in 1 .. k : AtSeq(p.seq + j) # {}
        /\ peer' = [data |-> peer.data \o [j \in 1 .. k + 1 |->
                        IF j = 1 THEN p.data ELSE at(j - 1).data],
                    ofo |-> {q \in peer.ofo : q.seq \notin p.seq .. p.seq + k},
                    unread |-> peer.unread + k + 1,
                    runs |-> peer.unread + k < PeerWnd]
  <2>1. \A j \in Int : p.seq + j - 1 = p.seq + (j - 1)
    BY <1>1 DEF FullBlock
  <2> QED BY <2>1 DEF Taken
<1>3. /\ peer.data \in Seq(1 .. Segments) /\ n \in Nat
      /\ p.seq = n + 1 /\ p.seq \in 1 .. Segments /\ p.data \in 1 .. Segments
      /\ peer.unread \in Nat
  BY LenProperties DEF PeerType, rcv_nxt, FullBlock
<1>4. ASSUME NEW i \in 1 .. k
      PROVE  at(i).data \in 1 .. Segments /\ p.seq + i <= Segments
  <2>1. at(i) \in AtSeq(p.seq + i)
    BY <1>2
  <2>2. at(i) \in FullBlock /\ at(i).seq = p.seq + i
    BY <2>1 DEF AtSeq
  <2> QED BY <2>2 DEF FullBlock
<1> DEFINE more == [j \in 1 .. k + 1 |-> IF j = 1 THEN p.data ELSE at(j - 1).data]
<1>5. more \in Seq(1 .. Segments) /\ Len(more) = k + 1
  <2>1. ASSUME NEW j \in 1 .. k + 1
        PROVE  (IF j = 1 THEN p.data ELSE at(j - 1).data) \in 1 .. Segments
    <3>1. j # 1 => j - 1 \in 1 .. k
      OBVIOUS
    <3> QED BY <1>3, <1>4, <3>1
  <2> HIDE DEF at
  <2>2. more \in [1 .. k + 1 -> 1 .. Segments]
    BY <2>1
  <2>3. k + 1 \in Nat
    BY <1>1
  <2> HIDE DEF more
  <2> QED BY <2>2, <2>3, FunctionIsSeq
<1>6. peer' = [data |-> peer.data \o more,
               ofo |-> {q \in peer.ofo : q.seq \notin p.seq .. p.seq + k},
               unread |-> peer.unread + k + 1,
               runs |-> peer.unread + k < PeerWnd]
  BY <1>2
<1> HIDE DEF more, n, at
<1>7. peer.data \o more \in Seq(1 .. Segments) /\ Len(peer.data \o more) = n + (k + 1)
  <2>1. /\ peer.data \o more \in Seq(1 .. Segments)
        /\ Len(peer.data \o more) = Len(peer.data) + Len(more)
    <3>1. peer.data \in Seq(1 .. Segments) /\ more \in Seq(1 .. Segments)
      BY <1>3, <1>5
    <3> QED BY <3>1, ConcatProperties
  <2> QED BY <1>5, <2>1 DEF n
<1>8. n + (k + 1) <= Segments
  <2>1. CASE k = 0
    BY <1>1, <1>3, <2>1
  <2>2. CASE k \in 1 .. k
    <3>1. p.seq + k <= Segments
      BY <1>4, <2>2
    <3> QED BY <1>1, <1>3, <3>1
  <2> QED BY <2>1, <2>2
<1>9. {q \in peer.ofo : q.seq \notin p.seq .. p.seq + k} \in SUBSET FullBlock
  OBVIOUS
<1>10. peer' \in PeerType
  <2>1. {q \in peer.ofo : q.seq \notin p.seq .. p.seq + k} \in SUBSET Block
    BY <1>9, BlockType
  <2> QED BY <1>1, <1>3, <1>6, <1>7, <2>1 DEF PeerType
<1>11. peer'.unread = peer.unread + k + 1 /\ (peer'.runs => peer.unread + k < PeerWnd)
  BY <1>6
<1>12. peer'.data = peer.data \o more /\ peer'.ofo \subseteq FullBlock
  BY <1>6, <1>9
<1>13. Len(peer'.data) = n + (k + 1) /\ n + (k + 1) > n
  BY <1>1, <1>3, <1>7, <1>12
<1>14. peer'.runs => peer'.unread <= PeerWnd
  BY <1>1, <1>3, <1>11
<1> QED BY <1>8, <1>10, <1>12, <1>13, <1>14 DEF n

(* Its acknowledgements stay within the stream and its window.             *)
LEMMA PeerAckType ==
  ASSUME load \in Load, peer' \in PeerType, Len(peer'.data) <= Segments,
         peer'.unread <= PeerWnd
  PROVE  PeerAck \in Ack
<1>1. Segments \in Nat /\ PeerWnd \in Nat
  BY Constants
<1>2. Len(peer'.data) \in Nat /\ peer'.unread \in Nat
  BY LenProperties DEF PeerType
<1> QED BY <1>1, <1>2 DEF PeerAck, Ack

LEMMA NetworkTypes ==
  ASSUME load \in Load, UNCHANGED load, TypeOK, Numbers, Deliver \/ PeerReads \/ Lose
  PROVE  TypeOK' /\ Numbers'
<1>1. /\ Segments \in Nat /\ PeerWnd \in Nat /\ PeerWnd >= 1
  BY Constants
<1>2. /\ Segments' = Segments /\ Block' = Block /\ Ack' = Ack /\ FullBlock' = FullBlock
      /\ load.timeouts' = load.timeouts
  BY SameTypes
<1>3. /\ wire \in Seq(Block) /\ wire \in Seq(FullBlock) /\ acks \in Seq(Ack)
      /\ peer \in PeerType /\ peer.ofo \subseteq FullBlock /\ peer.ofo \subseteq Block
      /\ Len(peer.data) <= Segments /\ Len(peer.data) \in Nat
      /\ peer.runs => peer.unread <= PeerWnd
      /\ peer = [data |-> peer.data, ofo |-> peer.ofo, unread |-> peer.unread,
                 runs |-> peer.runs]
      /\ peer.unread \in Nat /\ peer.data \in Seq(1 .. Segments) /\ peer.runs \in BOOLEAN
      /\ expired \in 0 .. load.timeouts /\ lost \in 0 .. MaxLoss /\ MaxLoss \in Nat
  BY LenProperties, SizeAssumption
     DEF TypeOK, NetworkOK, Numbers, NetworkNumbers, PeerType
<1> DEFINE Net == /\ wire' \in Seq(Block) /\ wire' \in Seq(FullBlock) /\ acks' \in Seq(Ack)
                  /\ peer' \in PeerType /\ peer'.ofo \subseteq FullBlock
                  /\ Len(peer'.data) <= Segments
                  /\ peer'.runs => peer'.unread <= PeerWnd
                  /\ expired' = expired /\ lost' \in 0 .. MaxLoss
<1>4. wire # <<>> => /\ Tail(wire) \in Seq(Block) /\ Tail(wire) \in Seq(FullBlock)
                     /\ Head(wire) \in FullBlock
  BY <1>3, HeadTailProperties
<1>5. ASSUME Deliver
      PROVE  Net
  <2> DEFINE p == Head(wire)
  <2>1. /\ peer.runs /\ wire # <<>> /\ wire' = Tail(wire)
        /\ \/ /\ \/ p.seq = rcv_nxt /\ Taken(p)
                 \/ peer' = [peer EXCEPT !.ofo = IF AtSeq(p.seq) = {} THEN @ \cup {p} ELSE @]
              /\ acks' = IF peer'.runs THEN Append(acks, PeerAck) ELSE acks
           \/ UNCHANGED <<peer, acks>>
        /\ expired' = expired /\ lost' = lost
    BY <1>5 DEF Deliver
  <2>2. p \in FullBlock
    BY <1>4, <2>1
  <2> HIDE DEF p
  <2>3. /\ peer' \in PeerType /\ peer'.ofo \subseteq FullBlock
        /\ Len(peer'.data) <= Segments
        /\ peer'.runs => peer'.unread <= PeerWnd
    <3>1. CASE p.seq = rcv_nxt /\ Taken(p)
      BY <1>3, <2>1, <2>2, <3>1, TakenType
    <3>2. CASE peer' = [peer EXCEPT !.ofo = IF AtSeq(p.seq) = {} THEN @ \cup {p} ELSE @]
      <4>1. p \in Block
        BY <2>2, BlockType
      <4>2. /\ peer'.ofo \subseteq FullBlock /\ peer'.ofo \subseteq Block
            /\ peer' = [data |-> peer.data, ofo |-> peer'.ofo, unread |-> peer.unread,
                        runs |-> peer.runs]
        BY <1>3, <2>2, <3>2, <4>1
      <4> QED BY <1>3, <4>2 DEF PeerType
    <3>3. CASE peer' = peer
      BY <1>3, <3>3
    <3> QED BY <2>1, <3>1, <3>2, <3>3
  <2>4. acks' \in Seq(Ack)
    <3>1. peer'.runs => PeerAck \in Ack
      BY <2>3, PeerAckType
    <3>2. CASE acks' = acks
      BY <1>3, <3>2
    <3>3. CASE peer'.runs /\ acks' = Append(acks, PeerAck)
      BY <1>3, <3>1, <3>3, AppendType
    <3> QED BY <2>1, <3>2, <3>3
  <2> QED BY <1>3, <1>4, <2>1, <2>3, <2>4
<1>6. ASSUME PeerReads
      PROVE  Net
  <2>1. /\ peer' = [peer EXCEPT !.unread = 0] /\ acks' = Append(acks, PeerAck)
        /\ wire' = wire /\ expired' = expired /\ lost' = lost
    BY <1>6 DEF PeerReads
  <2>2. peer' = [data |-> peer.data, ofo |-> peer.ofo, unread |-> 0, runs |-> peer.runs]
    BY <1>3, <2>1
  <2>3. peer' \in PeerType
    BY <1>3, <2>2 DEF PeerType
  <2>4. PeerAck \in Ack
    BY <1>1, <1>3, <2>2, <2>3, PeerAckType
  <2> QED BY <1>1, <1>3, <2>1, <2>2, <2>3, <2>4, AppendType
<1>7. ASSUME Lose
      PROVE  Net
  <2>1. /\ lost' = lost + 1 /\ lost < MaxLoss /\ peer' = peer /\ expired' = expired
        /\ \/ wire # <<>> /\ wire' = Tail(wire) /\ acks' = acks
           \/ acks # <<>> /\ acks' = Tail(acks) /\ wire' = wire
    BY <1>7 DEF Lose
  <2>2. acks # <<>> => Tail(acks) \in Seq(Ack)
    BY <1>3, HeadTailProperties
  <2>3. lost' \in 0 .. MaxLoss
    BY <1>3, <2>1
  <2>4. wire' \in Seq(Block) /\ wire' \in Seq(FullBlock) /\ acks' \in Seq(Ack)
    BY <1>3, <1>4, <2>1, <2>2
  <2> QED BY <1>3, <2>1, <2>3, <2>4
<1>8. Net
  BY <1>5, <1>6, <1>7
<1>9. UNCHANGED <<window, congestion, send_buf, timer, notified, wr, rx, tm>>
  BY DEF Deliver, PeerReads, Lose
<1>10. NetworkOK' /\ NetworkNumbers'
  BY <1>2, <1>3, <1>8 DEF NetworkOK, NetworkNumbers, PeerType
<1>11. /\ WindowOK' /\ CongestionOK' /\ BufferOK' /\ WriterOK' /\ RxOK' /\ TmOK'
       /\ Written' = Written
  BY <1>2, <1>9
     DEF TypeOK, WindowOK, CongestionOK, BufferOK, WriterOK, RxOK, TmOK, window, congestion,
         timer, Written
<1>12. WriterNumbers' /\ RxNumbers' /\ BufferNumbers' /\ tm'.at = "idle"
  BY <1>2, <1>9, <1>11 DEF Numbers, WriterNumbers, RxNumbers, BufferNumbers, window
<1> QED BY <1>10, <1>11, <1>12 DEF TypeOK, Numbers

-----------------------------------------------------------------------------
(* Before the timer has expired, all is in range.                          *)
Sound ==
  /\ load \in Load
  /\ expired \in Nat
  /\ expired = 0 => TypeOK /\ Numbers

LEMMA InitSound == Init => Sound
<1> SUFFICES ASSUME Init PROVE Sound
  OBVIOUS
<1>1. load \in Load
  BY DEF Init
<1>2. /\ Segments \in Nat /\ load.timeouts \in Nat /\ PeerWnd \in Nat /\ PeerWnd >= 1
      /\ U32 \in Nat /\ Segments + PeerWnd + 1 < U32 /\ Ssthresh \in Nat /\ MaxLoss \in Nat
  BY <1>1, Constants, SizeAssumption
<1>3. 0 \in Word /\ 1 \in Word /\ U32 - 1 \in Word /\ less_of(PeerWnd, 2) \in Word
  BY <1>2 DEF Word, less_of
<1>4. NoBlock \in Block
  BY <1>2, <1>3 DEF NoBlock, Block
<1>5. WindowOK /\ CongestionOK
  BY <1>2, <1>3 DEF Init, WindowOK, CongestionOK
<1>6. BufferOK /\ WriterOK /\ TmOK
  <2>1. BufferOK
    <3>1. send_buf \in Seq(Block)
      BY DEF Init
    <3> QED BY <3>1 DEF Init, BufferOK
  <2>2. WriterOK
    BY <1>2, <1>3 DEF Init, WriterOK
  <2>3. TmOK
    BY <1>3, <1>4 DEF Init, TmOK
  <2> QED BY <2>1, <2>2, <2>3
<1>7. RxOK
  BY <1>2, <1>3, <1>4 DEF Init, RxOK, Ack
<1>8. NetworkOK
  BY <1>2 DEF Init, NetworkOK
<1>9. WriterNumbers /\ RxNumbers
  BY <1>2 DEF Init, WriterNumbers, RxNumbers, Written
<1>10. BufferNumbers /\ NetworkNumbers
  BY <1>2, EmptySeq DEF Init, BufferNumbers, NetworkNumbers
<1> QED BY <1>1, <1>5, <1>6, <1>7, <1>8, <1>9, <1>10 DEF Sound, TypeOK, Numbers, Init

LEMMA StepSound == Sound /\ [Next]_vars => Sound'
<1> SUFFICES ASSUME Sound, [Next]_vars
             PROVE  Sound'
  OBVIOUS
<1>1. load \in Load /\ expired \in Nat /\ UNCHANGED load
  BY DEF Sound, Next, vars
<1>2. CASE Writer
  <2>1. expired' = expired
    BY <1>2 DEF Writer, CheckWindow, SleepOn, ReadSeq, WriteHeader, WriteSend, AppendBlock,
                ArmTimer, network
  <2> QED BY <1>1, <1>2, <2>1, WriterTypes DEF Sound
<1>3. CASE Rx
  <2>1. expired' = expired
    BY <1>3 DEF Rx, TakeAck, FreeBlock, RearmTimer, FreeDone, SendAgain, AgainHeader, AgainSend,
                AgainRestore, SentAgain, AdvanceUna, UpdateAdvWnd, UpdateSndWnd, WakeWriter,
                network
  <2> QED BY <1>1, <1>3, <2>1, RxTypes DEF Sound
<1>4. CASE Deliver \/ PeerReads \/ Lose
  <2>1. expired' = expired
    BY <1>4 DEF Deliver, PeerReads, Lose
  <2> QED BY <1>1, <1>4, <2>1, NetworkTypes DEF Sound
<1>5. CASE Expire
  <2>1. expired' = expired + 1
    BY <1>5 DEF Expire
  <2> QED BY <1>1, <2>1 DEF Sound
<1>6. CASE Tm
  <2>1. expired' = expired /\ tm.at # "idle"
    BY <1>6 DEF Tm, ExpireHeader, ExpireSend, ExpireRestore, network
  <2> QED BY <1>1, <2>1 DEF Sound, Numbers
<1>7. CASE UNCHANGED progress
  <2>1. UNCHANGED <<load, window, congestion, send_buf, timer, notified, wr, rx, tm, network>>
    BY <1>1, <1>7 DEF progress
  <2>2. TypeOK' = TypeOK /\ Numbers' = Numbers /\ expired' = expired
    BY <2>1
       DEF TypeOK, WindowOK, CongestionOK, BufferOK, WriterOK, RxOK, TmOK, NetworkOK, Numbers,
           WriterNumbers, RxNumbers, BufferNumbers, NetworkNumbers, Written, Segments, Block, Ack,
           FullBlock, window, congestion, timer, network
  <2> QED BY <1>1, <2>2 DEF Sound
<1> QED BY <1>2, <1>3, <1>4, <1>5, <1>6, <1>7 DEF Next, Finished, vars
-----------------------------------------------------------------------------
(* Nothing is lost before anything has been sent again.                    *)

(* Why the receiving thread is where it is: once something has been sent   *)
(* again, rx.why or recovery_point tells so for ever.                      *)
Reasons ==
  /\ rx.why = "partial" => recovery_point # 0
  /\ rx.at = "idle" => rx.why = "none"
  /\ rx.at \in {"again", "header", "send", "restore", "sent"} => rx.why # "none"

InBuffer(n) == \E i \in 1 .. Len(send_buf) : send_buf[i].seq = n

(* Data number n has sequence number n, and acknowledgements do not run    *)
(* ahead of the peer.                                                      *)
Kept ==
  /\ snd_nxt = Written + 1
  /\ wr.at \in {"header", "send", "append"} => wr.seq = wr.data
  /\ \A i \in 1 .. Len(acks) : acks[i].ack <= rcv_nxt
  /\ rx.cb.ack <= rcv_nxt
  /\ \A n \in rcv_nxt .. snd_nxt - 1 : (wr.at = "append" /\ wr.seq = n) \/ InBuffer(n)

Asleep ==
  wr.at = "sleep" /\ ~notified /\ rx.at \notin {"una", "adv_wnd", "snd_wnd", "wake"} => Shut

Undisturbed == NothingSentAgain => Kept /\ Asleep

LEMMA SameRcvNxt ==
  ASSUME UNCHANGED peer
  PROVE  rcv_nxt' = rcv_nxt
BY DEF rcv_nxt

LEMMA Ranges ==
  ASSUME load \in Load, TypeOK, Numbers
  PROVE  /\ wr = [at |-> wr.at, seq |-> wr.seq, hdr |-> wr.hdr, data |-> wr.data]
         /\ rx = [at |-> rx.at, cb |-> rx.cb, why |-> rx.why, seq |-> rx.seq, blk |-> rx.blk,
                  hdr |-> rx.hdr]
         /\ rx.why \in {"none", "partial", "third"}
         /\ rx.cb.ack \in Nat /\ rx.cb.ack >= 1
         /\ wr.data \in Nat /\ wr.data >= 1 /\ Written \in Nat
         /\ snd_nxt \in Nat /\ snd_nxt >= 1
         /\ rcv_nxt \in Nat /\ rcv_nxt >= 1
         /\ send_buf \in Seq(FullBlock) /\ Len(send_buf) \in Nat
         /\ acks \in Seq(Ack) /\ Len(acks) \in Nat
<1>1. Segments \in Nat
  BY Constants
<1>2. WriterOK /\ RxOK /\ NetworkOK /\ WriterNumbers /\ BufferNumbers
  BY DEF TypeOK, Numbers
<1>3. rx.cb \in Ack /\ rx.why \in {"none", "partial", "third"}
  BY <1>2 DEF RxOK
<1>4. rx.cb.ack \in Nat /\ rx.cb.ack >= 1
  BY <1>1, <1>3 DEF Ack
<1>5. wr.data \in Nat /\ wr.data >= 1 /\ Written \in Nat
  BY <1>1, <1>2 DEF WriterOK, Written
<1>6. snd_nxt \in Nat /\ snd_nxt >= 1
  BY <1>2, <1>5 DEF WriterNumbers
<1>7. peer.data \in Seq(1 .. Segments) /\ acks \in Seq(Ack) /\ send_buf \in Seq(FullBlock)
  BY <1>2 DEF NetworkOK, BufferNumbers
<1>8. rcv_nxt \in Nat /\ rcv_nxt >= 1 /\ Len(acks) \in Nat /\ Len(send_buf) \in Nat
  BY <1>7, LenProperties DEF rcv_nxt
<1> QED BY <1>2, <1>3, <1>4, <1>5, <1>6, <1>7, <1>8 DEF WriterOK, RxOK

LEMMA WriterKeeps ==
  ASSUME load \in Load, UNCHANGED load, TypeOK, Numbers, NothingSentAgain, Kept, Asleep, Writer
  PROVE  Kept' /\ Asleep'
<1>1. /\ wr = [at |-> wr.at, seq |-> wr.seq, hdr |-> wr.hdr, data |-> wr.data]
      /\ wr.data \in Nat /\ wr.data >= 1 /\ snd_nxt \in Nat /\ rcv_nxt \in Nat
      /\ send_buf \in Seq(FullBlock) /\ Len(send_buf) \in Nat
  BY Ranges
<1>2. UNCHANGED <<rx, acks, peer>> /\ rcv_nxt' = rcv_nxt
  <2>1. UNCHANGED <<rx, acks, peer>>
    BY DEF Writer, CheckWindow, SleepOn, ReadSeq, WriteHeader, WriteSend, AppendBlock, ArmTimer,
           network
  <2> QED BY <2>1, SameRcvNxt
<1>3. CASE CheckWindow
  <2>1. /\ wr.at = "check" /\ wr' = [wr EXCEPT !.at = IF Shut THEN "sleep" ELSE "seq"]
        /\ UNCHANGED <<window, send_buf>>
    BY <1>3 DEF CheckWindow
  <2>2. wr'.at = (IF Shut THEN "sleep" ELSE "seq") /\ wr'.data = wr.data
    BY <1>1, <2>1
  <2>3. Shut' = Shut /\ Written' = Written
    BY <2>1, <2>2 DEF Shut, Written, window
  <2>4. Asleep'
    BY <2>2, <2>3 DEF Asleep
  <2>5. Kept'
    BY <1>2, <2>1, <2>2, <2>3 DEF Kept, InBuffer, window
  <2> QED BY <2>4, <2>5
<1>4. CASE SleepOn \/ ReadSeq \/ WriteHeader
  <2>1. /\ UNCHANGED <<window, send_buf>> /\ wr'.data = wr.data
        /\ wr.at # "append" /\ wr'.at \in {"check", "header", "send"}
    BY <1>1, <1>4 DEF SleepOn, ReadSeq, WriteHeader
  <2>2. Written' = Written /\ wr.at \in {"sleep", "seq", "header"}
    BY <1>4, <2>1 DEF SleepOn, ReadSeq, WriteHeader, Written
  <2>3. wr'.at \in {"header", "send"} => wr'.seq = wr.data
    <3>1. CASE SleepOn
      BY <1>1, <3>1 DEF SleepOn
    <3>2. CASE ReadSeq
      <4>1. snd_nxt = wr.data
        BY <1>1, <3>2 DEF ReadSeq, Kept, Written
      <4> QED BY <1>1, <3>2, <4>1 DEF ReadSeq
    <3>3. CASE WriteHeader
      BY <1>1, <3>3 DEF WriteHeader, Kept
    <3> QED BY <1>4, <3>1, <3>2, <3>3
  <2>4. Kept'
    BY <1>2, <2>1, <2>2, <2>3 DEF Kept, InBuffer, window
  <2>5. Asleep'
    BY <2>1 DEF Asleep
  <2> QED BY <2>4, <2>5
<1>5. CASE WriteSend
  <2>1. /\ wr.at = "send" /\ snd_nxt' = (snd_nxt + 1) % U32 /\ send_buf' = send_buf
        /\ wr' = [wr EXCEPT !.at = "append"]
    BY <1>5 DEF WriteSend, tcp_send_packet
  <2>2. wr'.at = "append" /\ wr'.seq = wr.seq /\ wr'.data = wr.data
    BY <1>1, <2>1
  <2>3. /\ Written = wr.data - 1 /\ Written' = wr.data /\ snd_nxt = wr.data
        /\ wr.seq = wr.data
    BY <1>1, <2>1, <2>2 DEF Written, Kept
  <2>4. snd_nxt' = snd_nxt + 1
    <3>1. Segments \in Nat /\ U32 \in Nat /\ Segments + 1 < U32 /\ wr.data <= Segments
      BY <2>1, Constants DEF Numbers, WriterNumbers
    <3>2. snd_nxt + 1 \in Word
      BY <1>1, <2>3, <3>1 DEF Word
    <3> QED BY <1>1, <2>1, <3>2, Wraps
  <2>5. \A n \in rcv_nxt .. snd_nxt - 1 : InBuffer(n)
    BY <2>1 DEF Kept
  <2>6. \A n \in rcv_nxt .. snd_nxt : wr.seq = n \/ InBuffer(n)
    BY <1>1, <2>3, <2>5
  <2>7. \A n \in rcv_nxt' .. snd_nxt' - 1 : (wr'.at = "append" /\ wr'.seq = n) \/ InBuffer(n)'
    BY <1>1, <1>2, <2>1, <2>2, <2>4, <2>6 DEF InBuffer
  <2>8. Kept'
    BY <1>2, <2>2, <2>3, <2>4, <2>7 DEF Kept
  <2>9. Asleep'
    BY <2>2 DEF Asleep
  <2> QED BY <2>8, <2>9
<1>6. CASE AppendBlock
  <2> DEFINE b == [seq |-> wr.seq, data |-> wr.data, len |-> 1]
             m == Len(send_buf)
  <2>1. /\ wr.at = "append" /\ wr' = [wr EXCEPT !.at = "arm"]
        /\ send_buf' = Append(send_buf, b) /\ UNCHANGED window
    BY <1>6 DEF AppendBlock
  <2>2. wr'.at = "arm" /\ wr'.data = wr.data /\ Written' = Written
    BY <1>1, <2>1 DEF Written
  <2>3. /\ Len(send_buf') = m + 1 /\ send_buf'[m + 1] = b
        /\ \A i \in 1 .. m : send_buf'[i] = send_buf[i]
    BY <1>1, <2>1, AppendProperties
  <2>4. b.seq = wr.seq /\ m \in Nat
    BY <1>1
  <2>5. \A n : InBuffer(n) => InBuffer(n)'
    <3> HIDE DEF b, m
    <3>1. \A i \in 1 .. m : i \in 1 .. m + 1
      BY <2>4
    <3> QED BY <2>3, <3>1 DEF InBuffer, m
  <2>6. InBuffer(wr.seq)'
    <3>1. send_buf'[m + 1].seq = wr.seq /\ m + 1 \in 1 .. Len(send_buf')
      BY <2>3, <2>4
    <3> QED BY <1>1, <2>1, <3>1 DEF InBuffer
  <2>7. wr'.seq = wr.seq
    BY <1>1, <2>1
  <2>8. \A n \in rcv_nxt' .. snd_nxt' - 1 : InBuffer(n)'
    <3> SUFFICES ASSUME NEW n \in rcv_nxt' .. snd_nxt' - 1
                 PROVE  InBuffer(n)'
      OBVIOUS
    <3>1. n \in rcv_nxt .. snd_nxt - 1
      BY <1>2, <2>1 DEF window
    <3>2. wr.seq = n \/ InBuffer(n)
      BY <3>1 DEF Kept
    <3>3. CASE wr.seq = n
      <4>1. \E i \in 1 .. Len(send_buf') : send_buf'[i].seq = n
        BY <2>3, <2>4, <3>3
      <4> QED BY <4>1 DEF InBuffer
    <3> QED BY <2>5, <3>2, <3>3
  <2>9. Kept'
    BY <1>2, <2>1, <2>2, <2>8 DEF Kept, window
  <2>10. Asleep'
    BY <2>2 DEF Asleep
  <2> QED BY <2>9, <2>10
<1>7. CASE ArmTimer
  <2>1. /\ wr.at = "arm" /\ UNCHANGED <<window, send_buf>>
        /\ wr'.at \in {"done", "check"} /\ wr'.data = wr.data + 1
    BY <1>1, <1>7 DEF ArmTimer
  <2>2. Written' = Written
    BY <1>1, <2>1 DEF Written
  <2>3. Kept' /\ Asleep'
    BY <1>2, <2>1, <2>2 DEF Kept, InBuffer, Asleep, window
  <2> QED BY <2>3
<1> QED BY <1>3, <1>4, <1>5, <1>6, <1>7 DEF Writer

(* The receiving thread knows why it is where it is.                       *)
LEMMA RxReasons ==
  ASSUME load \in Load, TypeOK, Numbers, Reasons, Rx
  PROVE  /\ Reasons'
         /\ expired' = expired
         /\ NothingSentAgain' => NothingSentAgain
<1>1. /\ rx = [at |-> rx.at, cb |-> rx.cb, why |-> rx.why, seq |-> rx.seq, blk |-> rx.blk,
               hdr |-> rx.hdr]
      /\ rx.why \in {"none", "partial", "third"}
      /\ snd_nxt \in Nat /\ snd_nxt >= 1
  BY Ranges
<1>2. CASE TakeAck
  <2> DEFINE ack == Head(acks).ack
  <2>1. ack \in Nat /\ ack >= 1
    <3>1. Segments \in Nat /\ acks \in Seq(Ack) /\ acks # <<>>
      BY <1>2, Constants, Ranges DEF TakeAck
    <3>2. Head(acks) \in Ack
      BY <3>1, HeadTailProperties
    <3> QED BY <3>1, <3>2 DEF Ack
  <2>2. recovery_point \in Nat
    BY Constants DEF TypeOK, CongestionOK, Word
  <2>3. /\ rx.at = "idle" /\ rx'.at \in {"free", "una"}
        /\ rx'.why = "partial" => rx.why = "partial" \/ ack < recovery_point
        /\ UNCHANGED <<recovery_point, expired>>
    <3>1. CASE ack < snd_una
      BY <1>1, <1>2, <3>1 DEF TakeAck, congestion
    <3>2. CASE ~(ack < snd_una)
      BY <1>1, <1>2, <3>2 DEF TakeAck
    <3> QED BY <3>1, <3>2
  <2>4. rx.why = "none"
    BY <2>3 DEF Reasons
  <2> HIDE DEF ack
  <2> QED BY <2>1, <2>2, <2>3, <2>4 DEF Reasons, NothingSentAgain
<1>3. CASE SentAgain
  <2>1. /\ rx.at = "sent" /\ rx' = [rx EXCEPT !.at = "una", !.why = "none"]
        /\ expired' = expired
        /\ rx.why = "third" => recovery_point' = snd_nxt
        /\ rx.why # "third" => recovery_point' = recovery_point
    BY <1>3 DEF SentAgain, network
  <2>2. rx'.at = "una" /\ rx'.why = "none"
    BY <1>1, <2>1
  <2>3. rx.why \in {"partial", "third"}
    BY <1>1, <2>1 DEF Reasons
  <2>4. recovery_point' # 0
    BY <1>1, <2>1, <2>3 DEF Reasons
  <2> QED BY <2>1, <2>2, <2>4 DEF Reasons, NothingSentAgain
<1>4. CASE FreeDone
  <2>1. /\ rx' = [rx EXCEPT !.at = IF rx.why = "none" THEN "idle" ELSE "again"]
        /\ UNCHANGED <<recovery_point, expired>>
    BY <1>4 DEF FreeDone, congestion, network
  <2>2. rx'.at = (IF rx.why = "none" THEN "idle" ELSE "again") /\ rx'.why = rx.why
    BY <1>1, <2>1
  <2> QED BY <2>1, <2>2 DEF Reasons, NothingSentAgain
<1>5. CASE SendAgain \/ AgainHeader \/ AgainSend \/ AgainRestore
  <2>1. /\ rx'.at \in {"header", "send", "restore", "sent"} /\ rx'.why = rx.why
        /\ rx.at \in {"again", "header", "send", "restore"}
        /\ UNCHANGED <<recovery_point, expired>>
    <3>1. CASE SendAgain
      BY <1>1, <3>1 DEF SendAgain, congestion, network
    <3>2. CASE AgainHeader
      BY <1>1, <3>2 DEF AgainHeader, congestion, network
    <3>3. CASE AgainSend
      BY <1>1, <3>3 DEF AgainSend, congestion, network
    <3>4. CASE AgainRestore
      BY <1>1, <3>4 DEF AgainRestore, congestion, network
    <3> QED BY <1>5, <3>1, <3>2, <3>3, <3>4
  <2> QED BY <2>1 DEF Reasons, NothingSentAgain
<1>6. CASE \/ FreeBlock \/ RearmTimer
           \/ AdvanceUna \/ UpdateAdvWnd \/ UpdateSndWnd \/ WakeWriter
  <2>1. /\ rx'.at \in {"rearm", "free", "adv_wnd", "snd_wnd", "wake"} /\ rx'.why = rx.why
        /\ UNCHANGED <<recovery_point, expired>>
    <3>1. CASE FreeBlock
      BY <1>1, <3>1 DEF FreeBlock, congestion, network
    <3>2. CASE RearmTimer
      BY <1>1, <3>2 DEF RearmTimer, congestion, network
    <3>3. CASE AdvanceUna \/ UpdateAdvWnd
      BY <1>1, <3>3 DEF AdvanceUna, UpdateAdvWnd, congestion, network
    <3>4. CASE UpdateSndWnd \/ WakeWriter
      BY <1>1, <3>4 DEF UpdateSndWnd, WakeWriter, congestion, network
    <3> QED BY <1>6, <3>1, <3>2, <3>3, <3>4
  <2> QED BY <2>1 DEF Reasons, NothingSentAgain
<1> QED BY <1>2, <1>3, <1>4, <1>5, <1>6 DEF Rx

LEMMA RxKeeps ==
  ASSUME load \in Load, UNCHANGED load, TypeOK, Numbers, Reasons, NothingSentAgain,
         NothingSentAgain', Kept, Asleep, Rx
  PROVE  Kept' /\ Asleep'
<1>1. /\ rx = [at |-> rx.at, cb |-> rx.cb, why |-> rx.why, seq |-> rx.seq, blk |-> rx.blk,
               hdr |-> rx.hdr]
      /\ rx.cb.ack \in Nat /\ snd_nxt \in Nat /\ rcv_nxt \in Nat
      /\ send_buf \in Seq(FullBlock) /\ Len(send_buf) \in Nat
      /\ acks \in Seq(Ack) /\ Len(acks) \in Nat
  BY Ranges
<1>2. rx.at \notin {"again", "header", "send", "restore", "sent"}
  BY DEF Reasons, NothingSentAgain
<1>3. CASE TakeAck
  <2>1. /\ rx.at = "idle" /\ acks # <<>> /\ acks' = Tail(acks)
        /\ rx'.cb = Head(acks) /\ rx'.at \in {"free", "una"}
        /\ UNCHANGED <<window, send_buf, notified, wr, peer>>
    BY <1>1, <1>3 DEF TakeAck
  <2>2. /\ rcv_nxt' = rcv_nxt /\ Shut' = Shut /\ Written' = Written
    BY <2>1, SameRcvNxt DEF Shut, Written, window
  <2>3. /\ Len(acks) \in Nat /\ Len(acks) >= 1 /\ Head(acks) = acks[1]
        /\ Len(acks') = Len(acks) - 1
        /\ \A i \in 1 .. Len(acks) - 1 : acks'[i] = acks[i + 1]
    BY <1>1, <2>1, HeadTailProperties
  <2>4. rx'.cb.ack <= rcv_nxt
    <3>1. 1 \in 1 .. Len(acks)
      BY <2>3
    <3> QED BY <2>1, <2>3, <3>1 DEF Kept
  <2>5. \A i \in 1 .. Len(acks') : acks'[i].ack <= rcv_nxt
    <3>1. \A i \in 1 .. Len(acks) - 1 : i + 1 \in 1 .. Len(acks)
      BY <2>3
    <3> QED BY <2>3, <3>1 DEF Kept
  <2>6. Kept'
    BY <2>1, <2>2, <2>4, <2>5 DEF Kept, InBuffer, window
  <2>7. Asleep'
    BY <2>1, <2>2 DEF Asleep
  <2> QED BY <2>6, <2>7
<1>4. CASE FreeBlock
  <2>1. /\ rx.at = "free" /\ rx' = [rx EXCEPT !.at = "rearm"]
        /\ UNCHANGED <<window, notified, wr, network>>
    BY <1>4 DEF FreeBlock
  <2>2. rx'.at = "rearm" /\ rx'.cb = rx.cb
    BY <1>1, <2>1
  <2>3. /\ rcv_nxt' = rcv_nxt /\ Shut' = Shut /\ Written' = Written
    BY <2>1, SameRcvNxt DEF Shut, Written, window, network
  <2>4. PICK k \in Freeable : send_buf' = RemoveAt(send_buf, k)
    BY <1>4 DEF FreeBlock
  <2> DEFINE m == Len(send_buf)
  <2>5. k \in 1 .. m /\ seq_end(send_buf[k]) <= rx.cb.ack
    BY <2>4 DEF Freeable
  <2>6. send_buf[k].seq < rcv_nxt
    <3>1. send_buf[k] \in FullBlock
      BY <1>1, <2>5, ElementOfSeq
    <3>2. Segments \in Nat
      BY Constants
    <3>3. send_buf[k].seq \in Nat /\ send_buf[k].len = 1
      BY <3>1, <3>2 DEF FullBlock
    <3>4. send_buf[k].seq + 1 <= rx.cb.ack
      BY <2>5, <3>3 DEF seq_end
    <3> QED BY <1>1, <3>3, <3>4 DEF Kept
  <2>7. /\ Len(send_buf') = m - 1
        /\ \A j \in 1 .. m - 1 :
             send_buf'[j] = IF j < k THEN send_buf[j] ELSE send_buf[j + 1]
    BY <1>1, <2>4, <2>5, Removed
  <2>8. ASSUME NEW n \in rcv_nxt .. snd_nxt - 1, InBuffer(n)
        PROVE  InBuffer(n)'
    <3>1. PICK j \in 1 .. m : send_buf[j].seq = n
      BY <2>8 DEF InBuffer
    <3>2. j # k
      BY <1>1, <2>6, <2>8, <3>1
    <3>3. CASE j < k
      <4>1. j \in 1 .. m - 1 /\ send_buf'[j] = send_buf[j]
        BY <1>1, <2>5, <2>7, <3>3
      <4>2. \E i \in 1 .. Len(send_buf') : send_buf'[i].seq = n
        BY <2>7, <3>1, <4>1
      <4> QED BY <4>2 DEF InBuffer
    <3>4. CASE j > k
      <4>1. j - 1 \in 1 .. m - 1 /\ send_buf'[j - 1] = send_buf[j]
        BY <1>1, <2>5, <2>7, <3>4
      <4>2. \E i \in 1 .. Len(send_buf') : send_buf'[i].seq = n
        BY <2>7, <3>1, <4>1
      <4> QED BY <4>2 DEF InBuffer
    <3> QED BY <2>5, <3>1, <3>2, <3>3, <3>4
  <2>9. Kept'
    BY <2>1, <2>2, <2>3, <2>8 DEF Kept, window, network
  <2>10. Asleep'
    BY <2>1, <2>2, <2>3 DEF Asleep
  <2> QED BY <2>9, <2>10
<1>5. CASE RearmTimer \/ FreeDone
  <2>1. /\ rx'.cb = rx.cb /\ rx.at \in {"rearm", "free"}
        /\ UNCHANGED <<window, send_buf, notified, wr, network>>
    BY <1>1, <1>5 DEF RearmTimer, FreeDone
  <2>2. rcv_nxt' = rcv_nxt /\ Shut' = Shut /\ Written' = Written
    BY <2>1, SameRcvNxt DEF Shut, Written, window, network
  <2>3. Kept'
    BY <2>1, <2>2 DEF Kept, InBuffer, window, network
  <2>4. Asleep'
    BY <2>1, <2>2 DEF Asleep
  <2> QED BY <2>3, <2>4
<1>6. CASE AdvanceUna \/ UpdateAdvWnd \/ UpdateSndWnd
  <2>1. /\ rx'.cb = rx.cb /\ rx'.at \in {"adv_wnd", "snd_wnd", "wake"}
        /\ UNCHANGED <<snd_nxt, send_buf, notified, wr, network>>
    BY <1>1, <1>6 DEF AdvanceUna, UpdateAdvWnd, UpdateSndWnd
  <2>2. rcv_nxt' = rcv_nxt /\ Written' = Written
    BY <2>1, SameRcvNxt DEF Written, network
  <2>3. Kept'
    BY <2>1, <2>2 DEF Kept, InBuffer, network
  <2>4. Asleep'
    BY <2>1 DEF Asleep
  <2> QED BY <2>3, <2>4
<1>7. CASE WakeWriter
  <2>1. rx'.cb = rx.cb /\ notified' = TRUE /\ UNCHANGED <<window, send_buf, wr, network>>
    BY <1>1, <1>7 DEF WakeWriter
  <2>2. rcv_nxt' = rcv_nxt /\ Written' = Written
    BY <2>1, SameRcvNxt DEF Written, network
  <2>3. Kept'
    BY <2>1, <2>2 DEF Kept, InBuffer, window, network
  <2>4. Asleep'
    BY <2>1 DEF Asleep
  <2> QED BY <2>3, <2>4
<1>8. ~(SendAgain \/ AgainHeader \/ AgainSend \/ AgainRestore \/ SentAgain)
  BY <1>2 DEF SendAgain, AgainHeader, AgainSend, AgainRestore, SentAgain
<1> QED BY <1>3, <1>4, <1>5, <1>6, <1>7, <1>8 DEF Rx

LEMMA NetworkKeeps ==
  ASSUME load \in Load, UNCHANGED load, TypeOK, Numbers, Kept, Asleep,
         Deliver \/ PeerReads \/ Lose
  PROVE  Kept' /\ Asleep'
<1>1. /\ rx.cb.ack \in Nat /\ snd_nxt \in Nat /\ rcv_nxt \in Nat
      /\ acks \in Seq(Ack) /\ Len(acks) \in Nat
  BY Ranges
<1>2. UNCHANGED <<window, send_buf, notified, wr, rx>>
  BY DEF Deliver, PeerReads, Lose
<1>3. /\ peer \in PeerType /\ peer.ofo \subseteq FullBlock
      /\ wire \in Seq(FullBlock)
      /\ peer = [data |-> peer.data, ofo |-> peer.ofo, unread |-> peer.unread,
                 runs |-> peer.runs]
      /\ peer.data \in Seq(1 .. Segments) /\ Len(peer.data) \in Nat
  BY LenProperties DEF TypeOK, NetworkOK, Numbers, NetworkNumbers, PeerType
<1>4. Shut' = Shut /\ Written' = Written
  BY <1>2 DEF Shut, Written, window
<1> DEFINE Follows == /\ rcv_nxt' \in Nat /\ rcv_nxt <= rcv_nxt'
                      /\ \A i \in 1 .. Len(acks') : acks'[i].ack <= rcv_nxt'
<1>5. \A i \in 1 .. Len(acks) : acks[i] \in Ack /\ acks[i].ack \in Nat /\ acks[i].ack <= rcv_nxt
  <2>1. \A i \in 1 .. Len(acks) : acks[i] \in Ack
    BY <1>1, ElementOfSeq
  <2>2. Segments \in Nat
    BY Constants
  <2> QED BY <2>1, <2>2 DEF Ack, Kept
<1>6. ASSUME rcv_nxt' \in Nat, rcv_nxt <= rcv_nxt',
             acks' = acks \/ acks' = Append(acks, PeerAck)
      PROVE  Follows
  <2>1. PeerAck.ack = rcv_nxt'
    BY DEF PeerAck, rcv_nxt
  <2>2. CASE acks' = acks
    BY <1>1, <1>5, <1>6, <2>2
  <2>3. CASE acks' = Append(acks, PeerAck)
    <3> DEFINE m == Len(acks)
    <3>1. /\ Len(acks') = m + 1 /\ acks'[m + 1] = PeerAck
          /\ \A i \in 1 .. m : acks'[i] = acks[i]
      BY <1>1, <2>3, AppendProperties
    <3>2. \A i \in 1 .. m : acks'[i].ack <= rcv_nxt'
      BY <1>1, <1>5, <1>6, <3>1
    <3>3. \A i \in 1 .. m + 1 : i \in 1 .. m \/ i = m + 1
      BY <1>1
    <3> HIDE DEF m
    <3> QED BY <1>6, <2>1, <3>1, <3>2, <3>3
  <2> QED BY <1>6, <2>2, <2>3
<1>7. CASE Deliver
  <2> DEFINE p == Head(wire)
  <2>1. /\ peer.runs /\ wire # <<>>
        /\ \/ /\ \/ p.seq = rcv_nxt /\ Taken(p)
                 \/ peer' = [peer EXCEPT !.ofo = IF AtSeq(p.seq) = {} THEN @ \cup {p} ELSE @]
              /\ acks' = acks \/ acks' = Append(acks, PeerAck)
           \/ UNCHANGED <<peer, acks>>
    BY <1>7 DEF Deliver
  <2>2. p \in FullBlock
    BY <1>3, <2>1, HeadTailProperties
  <2> HIDE DEF p
  <2>3. rcv_nxt' \in Nat /\ rcv_nxt <= rcv_nxt'
    <3>1. CASE p.seq = rcv_nxt /\ Taken(p)
      <4>1. peer' \in PeerType /\ Len(peer'.data) > Len(peer.data)
        BY <1>3, <2>1, <2>2, <3>1, TakenType
      <4>2. Len(peer'.data) \in Nat
        BY <4>1, LenProperties DEF PeerType
      <4> QED BY <1>3, <4>1, <4>2 DEF rcv_nxt
    <3>2. CASE peer' = [peer EXCEPT !.ofo = IF AtSeq(p.seq) = {} THEN @ \cup {p} ELSE @]
      <4>1. peer'.data = peer.data
        BY <1>3, <3>2
      <4> QED BY <1>1, <4>1 DEF rcv_nxt
    <3>3. CASE peer' = peer
      BY <1>1, <3>3 DEF rcv_nxt
    <3> QED BY <2>1, <3>1, <3>2, <3>3
  <2>4. acks' = acks \/ acks' = Append(acks, PeerAck)
    BY <2>1
  <2>5. Follows
    BY <1>6, <2>3, <2>4
  <2> QED BY <1>1, <1>2, <1>4, <2>5 DEF Kept, Asleep, InBuffer, window
<1>8. CASE PeerReads
  <2>1. peer'.data = peer.data /\ acks' = Append(acks, PeerAck)
    BY <1>3, <1>8 DEF PeerReads
  <2>2. rcv_nxt' = rcv_nxt
    BY <2>1 DEF rcv_nxt
  <2>3. Follows
    BY <1>1, <1>6, <2>1, <2>2
  <2> QED BY <1>1, <1>2, <1>4, <2>3 DEF Kept, Asleep, InBuffer, window
<1>9. CASE Lose
  <2>1. /\ peer' = peer
        /\ \/ acks' = acks
           \/ acks # <<>> /\ acks' = Tail(acks)
    BY <1>9 DEF Lose
  <2>2. rcv_nxt' = rcv_nxt
    BY <2>1, SameRcvNxt
  <2>3. CASE acks' = acks
    BY <1>2, <1>4, <2>2, <2>3 DEF Kept, Asleep, InBuffer, window
  <2>4. CASE acks # <<>> /\ acks' = Tail(acks)
    <3>1. /\ Len(acks') = Len(acks) - 1
          /\ \A i \in 1 .. Len(acks) - 1 : acks'[i] = acks[i + 1]
      BY <1>1, <2>4, HeadTailProperties
    <3>2. \A i \in 1 .. Len(acks) - 1 : i + 1 \in 1 .. Len(acks)
      BY <1>1
    <3>3. \A i \in 1 .. Len(acks') : acks'[i].ack <= rcv_nxt
      BY <1>5, <3>1, <3>2
    <3> QED BY <1>2, <1>4, <2>2, <3>3 DEF Kept, Asleep, InBuffer, window
  <2> QED BY <2>1, <2>3, <2>4
<1> QED BY <1>7, <1>8, <1>9

-----------------------------------------------------------------------------
IInv ==
  /\ Sound
  /\ expired = 0 => Reasons /\ Undisturbed

LEMMA InitInv == Init => IInv
<1> SUFFICES ASSUME Init PROVE IInv
  OBVIOUS
<1>1. Sound
  BY InitSound
<1>2. Reasons
  BY DEF Init, Reasons
<1>3. Kept
  <2>1. Len(send_buf) = 0 /\ Len(acks) = 0 /\ rcv_nxt = 1 /\ Written = 0 /\ snd_nxt = 1
    BY DEF Init, rcv_nxt, Written
  <2> QED BY <2>1 DEF Init, Kept
<1>4. Asleep
  BY DEF Init, Asleep
<1> QED BY <1>1, <1>2, <1>3, <1>4 DEF IInv, Undisturbed

LEMMA StepInv == IInv /\ [Next]_vars => IInv'
<1> SUFFICES ASSUME IInv, [Next]_vars
             PROVE  IInv'
  OBVIOUS
<1>1. Sound /\ Sound' /\ load \in Load /\ expired \in Nat /\ UNCHANGED load
  BY StepSound DEF IInv, Sound, Next, vars
<1>2. CASE expired = 0
  <2>1. TypeOK /\ Numbers /\ Reasons /\ Undisturbed
    BY <1>1, <1>2 DEF IInv, Sound
  <2>2. CASE Writer
    <3>1. UNCHANGED <<rx, expired, recovery_point>>
      BY <2>2 DEF Writer, CheckWindow, SleepOn, ReadSeq, WriteHeader, WriteSend, AppendBlock,
                  ArmTimer, network, congestion
    <3>2. Reasons' /\ (NothingSentAgain' => NothingSentAgain)
      BY <2>1, <3>1 DEF Reasons, NothingSentAgain
    <3> QED BY <1>1, <2>1, <2>2, <3>2, WriterKeeps DEF IInv, Undisturbed
  <2>3. CASE Rx
    BY <1>1, <2>1, <2>3, RxReasons, RxKeeps DEF IInv, Undisturbed
  <2>4. CASE Deliver \/ PeerReads \/ Lose
    <3>1. UNCHANGED <<rx, expired, recovery_point>>
      BY <2>4 DEF Deliver, PeerReads, Lose, congestion
    <3>2. Reasons' /\ (NothingSentAgain' => NothingSentAgain)
      BY <2>1, <3>1 DEF Reasons, NothingSentAgain
    <3> QED BY <1>1, <2>1, <2>4, <3>2, NetworkKeeps DEF IInv, Undisturbed
  <2>5. CASE Expire
    <3>1. expired' = expired + 1
      BY <2>5 DEF Expire
    <3> QED BY <1>1, <1>2, <3>1 DEF IInv
  <2>6. CASE Tm
    BY <2>1, <2>6 DEF Numbers, Tm, ExpireHeader, ExpireSend, ExpireRestore
  <2>7. CASE UNCHANGED progress
    <3>1. UNCHANGED <<window, congestion, send_buf, timer, notified, wr, rx, tm, network>>
      BY <2>7 DEF progress
    <3>2. /\ Reasons' = Reasons /\ Undisturbed' = Undisturbed
      BY <3>1 DEF Reasons, Undisturbed, NothingSentAgain, Kept, Asleep, Shut, InBuffer, rcv_nxt,
                  Written, window, congestion, network
    <3> QED BY <1>1, <2>1, <3>2 DEF IInv
  <2> QED BY <2>2, <2>3, <2>4, <2>5, <2>6, <2>7 DEF Next, Finished, vars
<1>3. CASE expired # 0
  <2>1. expired' # 0
    <3>1. expired' = expired \/ expired' = expired + 1
      BY DEF Next, vars, progress, Writer, CheckWindow, SleepOn, ReadSeq, WriteHeader, WriteSend,
             AppendBlock, ArmTimer, Rx, TakeAck, FreeBlock, RearmTimer, FreeDone, SendAgain,
             AgainHeader, AgainSend, AgainRestore, SentAgain, AdvanceUna, UpdateAdvWnd,
             UpdateSndWnd, WakeWriter, Expire, Tm, ExpireHeader, ExpireSend, ExpireRestore,
             Deliver, PeerReads, Lose, Finished, network
    <3> QED BY <1>1, <1>3, <3>1
  <2> QED BY <1>1, <2>1 DEF IInv
<1> QED BY <1>2, <1>3

(* A writer asleep without a notification has its window shut.             *)
THEOREM NoLostWakeUp == Spec => []SleepsOnlyIfShut
<1>1. IInv => SleepsOnlyIfShut
  BY DEF IInv, Sound, Undisturbed, Asleep, SleepsOnlyIfShut, NothingSentAgain
<1> QED BY <1>1, InitInv, StepInv, PTL DEF Spec

(* What the peer has not acknowledged can still be sent again.             *)
THEOREM UnackedAlwaysKept == Spec => []UnackedIsKept
<1>1. IInv => UnackedIsKept
  BY DEF IInv, Undisturbed, Kept, InBuffer, UnackedIsKept, NothingSentAgain
<1> QED BY <1>1, InitInv, StepInv, PTL DEF Spec
=============================================================================
