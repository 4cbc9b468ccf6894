------------------------------- MODULE MCLan -------------------------------
EXTENDS Lan, TLC

(* A hub or a switch between two stations and a switch with a third: a     *)
(* tree, with a free port to move to; and cycle_net.py.                    *)
Behind(k1, k2) ==
  [kind |-> (1 :> k1 @@ 2 :> k2), ports |-> {<<b, n>> : b \in 1..2, n \in 1..3},
   trunk |-> {{<<1, 3>>, <<2, 3>>}}, sends |-> 2, moves |-> 1,
   at |-> [a |-> <<1, 1>>, b |-> <<1, 2>>, c |-> <<2, 1>>]]
Ring(kind) ==
  [kind |-> (1 :> kind @@ 2 :> kind @@ 3 :> kind),
   ports |-> {<<b, n>> : b \in 1..3, n \in 1..3} \ {<<3, 3>>},
   trunk |-> {{<<1, 2>>, <<2, 2>>}, {<<2, 3>>, <<3, 1>>}, {<<3, 2>>, <<1, 3>>}},
   sends |-> 1, moves |-> 0,
   at |-> [a |-> <<1, 1>>, b |-> <<2, 1>>]]
MCTopology == {Behind("hub", "switch"), Behind("switch", "switch"), Ring("hub"), Ring("switch")}
=============================================================================
