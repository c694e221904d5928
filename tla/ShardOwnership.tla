---------------------------- MODULE ShardOwnership ----------------------------
(***************************************************************************)
(* What the leases are for: every shard has at most one owner, a replica    *)
(* owns at most one shard, and a shard changes hands only by way of having  *)
(* no owner.                                                                *)
(***************************************************************************)
CONSTANTS Replicas, Shards, NoOwner

VARIABLE owner

Init == owner = [i \in Shards |-> NoOwner]

Take(i, r) ==
    /\ owner[i] = NoOwner
    /\ \A j \in Shards : owner[j] # r
    /\ owner' = [owner EXCEPT ![i] = r]

Drop(i) ==
    /\ owner[i] # NoOwner
    /\ owner' = [owner EXCEPT ![i] = NoOwner]

Next == \E i \in Shards : Drop(i) \/ \E r \in Replicas : Take(i, r)

Spec == Init /\ [][Next]_owner

===============================================================================
