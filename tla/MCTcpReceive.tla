---------------------------- MODULE MCTcpReceive ----------------------------
(* A stream cut as tcp_client cuts it: full segments, and one short one at *)
(* the end of each call of tcp_sock_write.  A segment is two bytes and the *)
(* window three segments; a call writes more than a window, as 100000      *)
(* bytes are more than 65535.                                              *)
EXTENDS TcpReceive

Cut(ends) == {[seq |-> IF i = 1 THEN 0 ELSE ends[i - 1], seq_end |-> ends[i]] : i \in DOMAIN ends}

MCSegment == Cut(<<2, 4, 6, 7, 9, 10>>)
=============================================================================
