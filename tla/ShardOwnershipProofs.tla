------------------------- MODULE ShardOwnershipProofs -------------------------
(***************************************************************************)
(* The leases implement exclusive ownership: every step of ShardLease gives *)
(* a shard without an owner to a replica without a shard, takes a shard     *)
(* from its owner, or leaves all owners as they are.                        *)
(***************************************************************************)
EXTENDS ShardLeaseProofs

Holds(i, r) == Owns(r) /\ shard[r] = i

(* The owner is the replica that holds the shard, when there is one.        *)
OwnerHolds ==
    \A i \in Shards :
        /\ OwnerOf(i) \in Replicas \cup {Nobody}
        /\ \A r \in Replicas : OwnerOf(i) = r <=> Holds(i, r)

LEMMA OwnerHoldsInv == LeaseInv => OwnerHolds
<1> SUFFICES ASSUME LeaseInv, NEW i \in Shards
             PROVE  /\ OwnerOf(i) \in Replicas \cup {Nobody}
                    /\ \A r \in Replicas : OwnerOf(i) = r <=> Holds(i, r)
  BY DEF OwnerHolds
<1>1. \A r, q \in Replicas : Holds(i, r) /\ Holds(i, q) => r = q
  BY DEF LeaseInv, OwnersHold, Holds
<1>2. CASE \E r \in Replicas : Holds(i, r)
  <2>1. OwnerOf(i) = CHOOSE r \in Replicas : Holds(i, r)
    BY <1>2 DEF OwnerOf, Holds
  <2>2. OwnerOf(i) \in Replicas /\ Holds(i, OwnerOf(i))
    BY <1>2, <2>1
  <2> QED BY <1>1, <2>2
<1>3. CASE ~\E r \in Replicas : Holds(i, r)
  <2>1. OwnerOf(i) = Nobody
    BY <1>3 DEF OwnerOf, Holds
  <2> QED BY <1>3, <2>1, LeaseAssumption
<1> QED BY <1>2, <1>3

-------------------------------------------------------------------------------
(* Three kinds of steps.                                                    *)

Same(r) == (Owns(r)' <=> Owns(r)) /\ (Owns(r) => shard'[r] = shard[r])

LEMMA KeepStep ==
    ASSUME OwnerHolds, OwnerHolds', \A r \in Replicas : Same(r)
    PROVE  \A i \in Shards : OwnerOf(i)' = OwnerOf(i)
<1> SUFFICES ASSUME NEW i \in Shards PROVE OwnerOf(i)' = OwnerOf(i)
  OBVIOUS
<1>1. \A r \in Replicas : Holds(i, r)' <=> Holds(i, r)
  BY DEF Same, Holds
<1> QED BY <1>1, LeaseAssumption DEF OwnerHolds

LEMMA TakeStep ==
    ASSUME OwnerHolds, OwnerHolds', NEW r \in Replicas, NEW i \in Shards,
           ~Owns(r), Owns(r)', shard'[r] = i,
           \A q \in Replicas \ {r} : Same(q)
    PROVE  Ownership!Take(i, r)
<1>1. \A j \in Shards : OwnerOf(j) # r
  BY DEF OwnerHolds, Holds
<1>2. OwnerOf(i)' = r
  BY DEF OwnerHolds, Holds
<1>3. \A q \in Replicas \ {r} : ~Holds(i, q)'
  BY <1>2 DEF OwnerHolds
<1>4. \A q \in Replicas : ~Holds(i, q)
  BY <1>3 DEF Holds, Same
<1>5. OwnerOf(i) = Nobody
  BY <1>4 DEF OwnerHolds
<1>6. ASSUME NEW j \in Shards \ {i} PROVE OwnerOf(j)' = OwnerOf(j)
  <2>1. \A q \in Replicas : Holds(j, q)' <=> Holds(j, q)
    BY <1>6 DEF Same, Holds
  <2> QED BY <2>1, LeaseAssumption DEF OwnerHolds
<1> QED BY <1>1, <1>2, <1>5, <1>6 DEF Ownership!Take

LEMMA DropStep ==
    ASSUME OwnerHolds, OwnerHolds', NEW r \in Replicas, NEW i \in Shards,
           shard[r] = i, Owns(r), ~Owns(r)', \A q \in Replicas \ {r} : Same(q)
    PROVE  Ownership!Drop(i)
<1>1. OwnerOf(i) = r
  BY DEF OwnerHolds, Holds
<1>2. \A q \in Replicas \ {r} : ~Holds(i, q)
  BY <1>1 DEF OwnerHolds
<1>3. \A q \in Replicas : ~Holds(i, q)'
  BY <1>2 DEF Same, Holds
<1>4. OwnerOf(i)' = Nobody
  BY <1>3 DEF OwnerHolds
<1>5. ASSUME NEW j \in Shards \ {i} PROVE OwnerOf(j)' = OwnerOf(j)
  <2>1. \A q \in Replicas : Holds(j, q)' <=> Holds(j, q)
    BY <1>5 DEF Same, Holds
  <2> QED BY <2>1, LeaseAssumption DEF OwnerHolds
<1> QED BY <1>1, <1>4, <1>5, LeaseAssumption DEF Ownership!Drop

-------------------------------------------------------------------------------
(* Every step is of one of them.                                            *)

Refines == Ownership!Next \/ \A i \in Shards : OwnerOf(i)' = OwnerOf(i)

LEMMA AcquiredStep ==
    ASSUME LeaseInv, OwnerHolds, OwnerHolds', NEW r \in Replicas, NEW calls,
           Acquired(r, calls), phase[r] \in {"acquiring", "holding"}
    PROVE  Refines
<1>1. /\ phase' = [phase EXCEPT ![r] = "holding"] /\ shard' = shard
      /\ phase \in [Replicas -> Phases] /\ shard[r] \in Shards
  BY DEF Acquired, LeaseInv, TypeOK
<1>2. \A q \in Replicas \ {r} : Same(q)
  BY <1>1 DEF Same, Owns
<1>3. Owns(r)' /\ shard'[r] = shard[r]
  BY <1>1 DEF Owns
<1>4. CASE Owns(r)
  <2>1. \A q \in Replicas : Same(q)
    BY <1>2, <1>3, <1>4 DEF Same
  <2> QED BY <2>1, KeepStep DEF Refines
<1>5. CASE ~Owns(r)
  <2>1. Ownership!Take(shard[r], r)
    BY <1>1, <1>2, <1>3, <1>5, TakeStep
  <2> QED BY <1>1, <2>1 DEF Refines, Ownership!Next
<1> QED BY <1>4, <1>5

(* A replica that fails to acquire has no shard; one that fails to renew    *)
(* keeps its own while it stops.                                            *)
LEMMA FailedRefines ==
    ASSUME LeaseInv, OwnerHolds, OwnerHolds', NEW r \in Replicas, NEW calls,
           Failed(r, calls), phase[r] \in {"acquiring", "holding"}
    PROVE  Refines
<1>1. phase \in [Replicas -> Phases] /\ shard \in [Replicas -> Shards]
  BY DEF LeaseInv, TypeOK
<1>2. \A q \in Replicas : Same(q)
  BY <1>1 DEF Failed, Same, Owns
<1> QED BY <1>2, KeepStep DEF Refines

(* The end of a process, and a release, take the shard from its owner.      *)
LEMMA LeaveRefines ==
    ASSUME LeaseInv, OwnerHolds, OwnerHolds', NEW r \in Replicas,
           NEW next \in {"down", "released"}, phase' = [phase EXCEPT ![r] = next],
           \A q \in Replicas \ {r} : shard'[q] = shard[q]
    PROVE  Refines
<1>1. phase \in [Replicas -> Phases] /\ shard[r] \in Shards
  BY DEF LeaseInv, TypeOK
<1>2. ~Owns(r)' /\ \A q \in Replicas \ {r} : Same(q)
  BY <1>1 DEF Same, Owns
<1>3. CASE Owns(r)
  <2>1. Ownership!Drop(shard[r])
    BY <1>1, <1>2, <1>3, DropStep
  <2> QED BY <1>1, <2>1 DEF Refines, Ownership!Next
<1>4. CASE ~Owns(r)
  <2>1. \A q \in Replicas : Same(q)
    BY <1>2, <1>4 DEF Same
  <2> QED BY <2>1, KeepStep DEF Refines
<1> QED BY <1>3, <1>4

LEMMA StepRefines ==
    ASSUME LeaseInv, OwnerHolds, OwnerHolds', [Next]_vars
    PROVE  Refines
<1>1. phase \in [Replicas -> Phases] /\ shard \in [Replicas -> Shards]
  BY DEF LeaseInv, TypeOK
<1>2. ASSUME NEW r \in Replicas, UNCHANGED <<lease, phase, shard, timer>>
      PROVE  Refines
  BY <1>2, KeepStep DEF Same, Owns, Refines
<1>4. ASSUME NEW r \in Replicas, call[r].kind # "none"
      PROVE  phase[r] \in {"acquiring", "holding"}
  BY <1>4 DEF LeaseInv, Deadlines, InTime
<1>a. ASSUME NEW r \in Replicas,
             Get(r) \/ Read(r) \/ FindAbsent(r) \/ FindUsable(r) \/ CancelledCall(r)
      PROVE  Refines
  BY <1>a, <1>2 DEF Get, Read, FindAbsent, FindUsable, Prepare, CancelledCall, vars
<1>3. ASSUME NEW r \in Replicas, FindHeld(r) \/ FindErr(r) \/ FindStale(r)
      PROVE  Refines
  <2>1. call[r].kind \in {"get", "read"} /\ phase[r] \in {"acquiring", "holding"}
    BY <1>3, <1>4 DEF FindHeld, FindErr, FindStale, FindsCurrent, Reads
  <2>2. Failed(r, call) \/ UNCHANGED <<lease, phase, shard, timer>>
    BY <1>3 DEF FindHeld, FindErr, FindStale, Prepare
  <2> QED BY <1>2, <2>1, <2>2, FailedRefines
<1>5. ASSUME NEW r \in Replicas, Accepted(r) PROVE call[r].kind # "none"
  BY <1>5 DEF Accepted
<1>6. ASSUME NEW r \in Replicas, WriteOk(r) PROVE Refines
  BY <1>4, <1>5, <1>6, AcquiredStep DEF WriteOk, WriteLands
<1>7. ASSUME NEW r \in Replicas, WriteConflict(r) \/ WriteErr(r) \/ WriteLost(r)
      PROVE  Refines
  BY <1>4, <1>5, <1>7, FailedRefines DEF WriteConflict, WriteErr, WriteLost, WriteLands, Writes
<1>8. ASSUME NEW r \in Replicas, ReleaseErr(r) \/ Signal(r) PROVE Refines
  <2>1. shard' = shard /\ \A q \in Replicas : Owns(q)' = Owns(q)
    BY <1>1, <1>8 DEF ReleaseErr, Signal, Owns
  <2> QED BY <2>1, KeepStep DEF Same, Refines
<1>9. ASSUME NEW r \in Replicas, ReleaseOk(r) PROVE Refines
  BY <1>9, LeaveRefines DEF ReleaseOk
<1>10. ASSUME NEW r \in Replicas, Stop(r) \/ Crash(r) PROVE Refines
  <2>1. \A q \in Replicas \ {r} : shard'[q] = shard[q]
    BY <1>1, <1>10 DEF Stop, Crash, End
  <2> QED BY <1>10, <2>1, LeaveRefines DEF Stop, Crash, End
<1>11. ASSUME NEW r \in Replicas, Restart(r) PROVE Refines
  <2>1. shard' = shard /\ \A q \in Replicas : Owns(q)' = Owns(q)
    BY <1>1, <1>11 DEF Restart, Owns
  <2> QED BY <2>1, KeepStep DEF Same, Refines
<1>12. CASE Tick \/ UNCHANGED vars
  BY <1>12, KeepStep DEF Tick, vars, Same, Owns, Refines
<1> QED BY <1>a, <1>3, <1>6, <1>7, <1>8, <1>9, <1>10, <1>11, <1>12
        DEF Next, Acts, Fails

(* ShardLease implements ShardOwnership: whatever fails and however late    *)
(* calls are answered, acquireLease and releaseLease move a shard between   *)
(* replicas only by way of having no owner.                                 *)
THEOREM Implements == Spec => OwnershipSpec
<1>1. Init => Ownership!Init
  BY DEF Init, Ownership!Init, OwnerOf, Owns
<1>2. LeaseInv /\ OwnerHolds /\ OwnerHolds' /\ [Next]_vars
         => [Ownership!Next]_[i \in Shards |-> OwnerOf(i)]
  BY StepRefines DEF Refines
<1> QED BY <1>1, <1>2, LeaseInvariant, OwnerHoldsInv, PTL
        DEF Spec, OwnershipSpec, Ownership!Spec

===============================================================================
