------------------------------- MODULE MCNat -------------------------------
(* Two clients for one port, two remote endpoints in one bucket, and a     *)
(* server behind a rule.                                                   *)
EXTENDS Nat

MCClient == {"c1", "c2"}
MCServer == {"s"}
MCRemote == {"r1", "r2"}
MCBucket == [r \in MCRemote |-> 0]
MCRule == {[external_port |-> 8000, internal |-> "s"]}
=============================================================================
