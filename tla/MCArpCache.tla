----------------------------- MODULE MCArpCache -----------------------------
(* Two packets for one host and one for another; the table has one slot    *)
(* for each, and the receiving thread sends one of the packets.            *)
EXTENDS ArpCache

MCTo == [p1 |-> "a", p2 |-> "a", p3 |-> "b"]
=============================================================================
