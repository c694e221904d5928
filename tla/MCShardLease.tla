----------------------------- MODULE MCShardLease -----------------------------
(***************************************************************************)
(* A small instance of ShardLease.  The unit of time is two and a half      *)
(* seconds: a lease lasts thirty, an owner renews it every five, and a      *)
(* replica needs ten to stop (ansible-runner is killed ten seconds after it *)
(* was interrupted).  A call takes up to one unit and clocks differ by two: *)
(* one unit more of either, and an owner's lease could expire.              *)
(***************************************************************************)
EXTENDS ShardLeaseTimely

CONSTANTS r1, r2

TwoReplicas == {r1, r2}

TwoShards == [r \in TwoReplicas |-> 2]

===============================================================================
