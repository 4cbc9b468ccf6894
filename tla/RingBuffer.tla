------------------------------ MODULE RingBuffer ------------------------------
(***************************************************************************)
(* include/ring_buffer.h: the receive buffer of a TCP sock, an array used  *)
(* circularly.  One slot of the array is never occupied, which is how an   *)
(* empty buffer is told from a full one.  Both operations run under        *)
(* rcv_buf_lock, so each is one action here.                               *)
(***************************************************************************)
EXTENDS Integers, Sequences

CONSTANTS RingSize,   (* the size passed to alloc_ring_buffer              *)
          Byte        (* the values of a byte                              *)

ASSUME RingSizeAssumption == RingSize \in Nat \ {0}
ASSUME ByteAssumption == 0 \in Byte

VARIABLES head,       (* index of the next byte to read                    *)
          tail,       (* index of the next slot to write                   *)
          buf,        (* the array                                         *)
          out         (* what the latest read_ring_buffer copied out       *)

ringVars == <<head, tail, buf, out>>

(* alloc_ring_buffer allocates one byte more than it was asked for.        *)
size == RingSize + 1

ring_buffer_used == (tail - head + size) % size

(* Mutant: no slot is kept free, so a full buffer looks empty.             *)
MutFree == size - ring_buffer_used
ring_buffer_free == size - ring_buffer_used - 1

-----------------------------------------------------------------------------
(* memcpy of len bytes of the array, from index at on.                     *)
CopyOut(at, len) == [i \in 1 .. len |-> buf[at + i - 1]]

(* The array after memcpy of len bytes of data, from its byte from on, to  *)
(* index at.                                                               *)
CopyIn(b, at, data, from, len) ==
  [i \in 0 .. size - 1 |->
     IF at <= i /\ i < at + len THEN data[from + i - at] ELSE b[i]]

(* Mutant: an index is not brought back to the start of the array.         *)
MutAdvanced(i, len) == i + len

Advanced(i, len) == (i + len) % size

(* The bytes of a read of len bytes: one copy, or two when the bytes wrap. *)
Taken(len) ==
  IF head + len > size
  THEN LET right == size - head
       IN  CopyOut(head, right) \o CopyOut(0, len - right)
  ELSE CopyOut(head, len)

(* The array after a write of data: one copy, or two when it wraps.        *)
Stored(data) ==
  LET len == Len(data)
      right == size - tail
  IN  IF tail + len > size
      THEN CopyIn(CopyIn(buf, tail, data, 1, right), 0, data, right + 1, len - right)
      ELSE CopyIn(buf, tail, data, 1, len)

-----------------------------------------------------------------------------
alloc_ring_buffer ==
  /\ head = 0
  /\ tail = 0
  /\ buf = [i \in 0 .. size - 1 |-> 0]
  /\ out = <<>>

(* A read asks for n bytes and takes what there is of them.                *)
ReadLength(n) == IF ring_buffer_used < n THEN ring_buffer_used ELSE n

read_ring_buffer(n) ==
  LET len == ReadLength(n)
  IN  /\ out' = Taken(len)
      /\ head' = Advanced(head, len)
      /\ UNCHANGED <<tail, buf>>

(* The assert of write_ring_buffer is a guard: a caller that breaks it     *)
(* stops the program, which the modules of the callers check for.          *)
write_ring_buffer(data) ==
  /\ Len(data) > 0
  /\ ring_buffer_free >= Len(data)
  /\ buf' = Stored(data)
  /\ tail' = Advanced(tail, Len(data))
  /\ out' = <<>>
  /\ UNCHANGED head

RingInit == alloc_ring_buffer

RingNext == \/ \E n \in 1 .. RingSize : \E data \in [1 .. n -> Byte] : write_ring_buffer(data)
        \/ \E n \in 1 .. size : read_ring_buffer(n)

RingSpec == RingInit /\ [][RingNext]_ringVars

-----------------------------------------------------------------------------
RingTypeOK ==
  /\ head \in 0 .. size - 1
  /\ tail \in 0 .. size - 1
  /\ buf \in [0 .. size - 1 -> Byte]
  /\ out \in Seq(Byte)

(* The bytes the buffer holds, oldest first.                               *)
Contents == [i \in 1 .. ring_buffer_used |-> buf[(head + i - 1) % size]]

(* The buffer is a FIFO of bytes: what is read is what was written, in     *)
(* order, nothing lost, repeated or overwritten where the copies wrap.     *)
Fifo == INSTANCE ByteQueue WITH queue <- Contents, Capacity <- RingSize
ImplementsByteQueue == Fifo!Spec
=============================================================================
