---------------------------- MODULE MCRingBuffer ----------------------------
(* A buffer of four bytes: every position of head and tail, and copies     *)
(* that wrap at every split.                                               *)
EXTENDS RingBuffer

MCByte == 0 .. 1
=============================================================================
