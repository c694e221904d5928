-------------------------- MODULE MCShardedReconcile --------------------------
(***************************************************************************)
(* Small instances of ShardedReconcile: two replicas, names of both shards, *)
(* one of them with a hash that is no shard's number.                       *)
(***************************************************************************)
EXTENDS ShardedReconcile, TLC

CONSTANTS r1, r2, n1, n2

TwoReplicas == {r1, r2}

TwoShards == [r \in TwoReplicas |-> 2]

(* A rollout from one shard to two.                                         *)
OneThenTwo == r1 :> 1 @@ r2 :> 2

TwoNames == {n1, n2}

OneName == {n1}

TwoHashes == n1 :> 2 @@ n2 :> 3

OneHash == n1 :> 2

===============================================================================
