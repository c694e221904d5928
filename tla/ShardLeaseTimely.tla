--------------------------- MODULE ShardLeaseTimely ---------------------------
(***************************************************************************)
(* ShardLease when calls, stops and clocks keep within the lease's duration,*)
(* and what it then implements.                                             *)
(***************************************************************************)
EXTENDS ShardLease

(* An owner's RenewTime can be as old as one call when it starts to wait for*)
(* the next renewal, whose Get and whose Update are two calls more; when it *)
(* fails, the owner has to stop.                                            *)
ASSUME TimingAssumption ==
    3 * CallMax + RenewalInterval + StopMax + ClockSkew < LeaseDuration

OwnerOf(i) ==
    IF \E r \in Replicas : Owns(r) /\ shard[r] = i
      THEN CHOOSE r \in Replicas : Owns(r) /\ shard[r] = i
      ELSE Nobody

Ownership == INSTANCE ShardOwnership
                WITH NoOwner <- Nobody, owner <- [i \in Shards |-> OwnerOf(i)]

(* The leases implement exclusive ownership: a shard never passes from one  *)
(* replica to another without having had no owner, and no replica moves to  *)
(* another shard without having given up the one it had.                    *)
OwnershipSpec == Ownership!Spec

-------------------------------------------------------------------------------
(* The inductive invariant behind ExclusiveShard.                           *)

(* How old an owner's lease can be.                                         *)
Grace(r) ==
    CASE phase[r] = "holding"   -> CallMax + timer[r]
      [] phase[r] = "releasing" -> CallMax + RenewalInterval + timer[r]
      [] OTHER                  -> 3 * CallMax + RenewalInterval + timer[r]

(* The lease of an owner's shard is the owner's, and so young that it looks *)
(* valid to every replica until the owner has stopped, even when a renewal  *)
(* or the release failed.                                                   *)
OwnersHold ==
    \A r \in Replicas :
        Owns(r) => /\ lease[shard[r]].holder = r
                   /\ lease[shard[r]].age <= Grace(r)
                   /\ ~MayLookExpired(lease[shard[r]])

(* An update that the API server would accept is one of a lease that is the *)
(* replica's own, or may look expired.                                      *)
PendingFair ==
    \A r \in Replicas :
        call[r].kind = "update" /\ call[r].fresh =>
            /\ Found(r).holder # Nobody
            /\ Found(r).holder = r \/ MayLookExpired(Found(r))

(* How long a replica can have been in its phase: a renewal starts after the*)
(* interval, and its Get is over when its write starts.                     *)
Latest(r) ==
    CASE call[r].kind = "none" -> Deadline(r)
      [] Reads(r)              -> Deadline(r) + call[r].age
      [] Writes(r)             -> Deadline(r) + CallMax + call[r].age

(* Nothing takes longer than assumed; only a replica that acquires or renews*)
(* makes the calls of acquireLease.                                         *)
InTime(r) ==
    /\ Timed(r) => timer[r] <= Latest(r)
    /\ call[r].kind # "none" => /\ call[r].age <= CallMax
                                /\ phase[r] \in {"acquiring", "holding"}

Deadlines == \A r \in Replicas : InTime(r)

LeaseInv == TypeOK /\ Deadlines /\ PendingFair /\ OwnersHold

===============================================================================
