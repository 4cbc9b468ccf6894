------------------------------ MODULE MCRouter ------------------------------
EXTENDS Router, TLC

(* router_topo.py with two hosts, a and b, behind the addresses ra and rb  *)
(* of the router, and c, which is reached by way of b.  The kernel has a   *)
(* route for x through a device that is no interface of the router.        *)
MCPacket == 1..4
MCSrc == <<"a", "b", "a", "a">>
MCDst == <<"c", "a", "ra", "x">>
MCTtl == <<64, 1, 64, 64>>
MCEcho == {3}
MCHost == {"a", "b"}
MCDevice == [lo |-> "self", eth0 |-> "ra", eth1 |-> "rb"]
MCKernel ==
  <<[dst |-> {"c"}, len |-> 24, gw |-> "b", oif |-> "eth1"],
    [dst |-> {"a", "ra"}, len |-> 24, gw |-> None, oif |-> "eth0"],
    [dst |-> {"b", "rb"}, len |-> 24, gw |-> None, oif |-> "eth1"],
    [dst |-> {"x"}, len |-> 24, gw |-> None, oif |-> "lo"]>>
=============================================================================
