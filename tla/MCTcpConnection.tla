-------------------------- MODULE MCTcpConnection --------------------------
(* One connection, with one or two segments.  All constants are numbers,   *)
(* given in the configurations.                                            *)
EXTENDS TcpConnection
=============================================================================
