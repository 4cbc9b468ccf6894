------------------------------ MODULE MCMospf ------------------------------
EXTENDS Mospf
Line == {{1, 2}, {2, 3}, {3}}
Ring == {{1, 2}, {2, 3}, {1, 3}, {3}}
MCNetwork == {[subnets |-> Line, failing |-> {{2, 3}}, lsus |-> 1, routing |-> {1}],
              [subnets |-> Ring, failing |-> {}, lsus |-> 1, routing |-> {1}],
              [subnets |-> Ring, failing |-> {}, lsus |-> 2, routing |-> {}]}

(***************************************************************************)
(* All networks of up to five routers with hosts on each, when all have    *)
(* met and heard of each other and spf_thread has not run yet.  Router 1   *)
(* has heard of the others in the order of their numbers; as all networks  *)
(* are taken, this stands for any order.                                   *)
(***************************************************************************)
Hosts == {{r} : r \in Router}
MCMet == {[subnets |-> Hosts \cup links, failing |-> {}, lsus |-> 1, routing |-> {1}] :
            links \in SUBSET kSubset(2, Router)}

Met ==
  /\ network \in MCMet
  /\ down = {} /\ crashed = {}
  /\ nbrs = [r \in Router |-> {s \in Router : Joined(r, s)}]
  /\ seq = [r \in Router |-> 1]
  /\ db = [r \in Router |->
             SelectSeq([o \in Router |-> [rid |-> o, seq |-> 0, lsa |-> Adverts(o, nbrs[o])]],
                       LAMBDA e : e.rid \in Component(r) \ {r})]
  /\ rtable = [r \in Router |-> [s \in Subnet |-> IF r \in s THEN Direct ELSE NoRoute]]
  /\ net = [c \in Channel |-> <<>>]

\* bound: the five meet and hear of each other as the three do, which is not followed
MCSpec == (Init \/ Met) /\ [][Next]_vars /\ WF_vars(crashed = {} /\ Gossip)
=============================================================================
