------------------------------ MODULE ByteQueue ------------------------------
(***************************************************************************)
(* What the receive buffer of a TCP sock promises its two users: a bounded *)
(* FIFO of bytes.  The receiving thread appends a whole segment, the       *)
(* application takes a prefix of at most the length it asked for.          *)
(***************************************************************************)
EXTENDS Integers, Sequences

CONSTANTS Capacity,   (* bytes the buffer can hold at once                 *)
          Byte        (* the values of a byte                              *)

VARIABLES queue,      (* bytes written and not yet read                    *)
          out         (* bytes handed to the reader by the latest read     *)

vars == <<queue, out>>

Init == queue = <<>> /\ out = <<>>

Write(data) == /\ Len(queue) + Len(data) <= Capacity
               /\ queue' = queue \o data
               /\ out' = <<>>

Read(n) == /\ out' = SubSeq(queue, 1, n)
           /\ queue' = SubSeq(queue, n + 1, Len(queue))

Next == \/ \E n \in 1 .. Capacity : \E data \in [1 .. n -> Byte] : Write(data)
        \/ \E n \in 0 .. Len(queue) : Read(n)

Spec == Init /\ [][Next]_vars
=============================================================================
