----------------------------- MODULE MCTcpSend -----------------------------
(* TcpSend with a few segments, and a word just large enough to tell a     *)
(* wrapped window from a small one.                                        *)
EXTENDS TcpSend

MCU32 == 64
(* Windows that close, and a timer that goes off among the other threads.  *)
MCLoad == {[segments |-> 5, timeouts |-> 0], [segments |-> 2, timeouts |-> 1]}
=============================================================================
