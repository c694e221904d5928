--------------------------- MODULE ShardLeaseProofs ---------------------------
(***************************************************************************)
(* Proofs about ShardLease, for any number of replicas and shards and any   *)
(* durations that respect TimingAssumption.                                 *)
(***************************************************************************)
EXTENDS ShardLeaseTimely, TLAPS

LEMMA ShardsType ==
    Shards \subseteq Nat /\ \A r \in Replicas : 0 \in Shards
<1>1. \A r \in Replicas : ReplicasCount[r] \in Nat /\ ReplicasCount[r] > 0
  BY LeaseAssumption
<1> QED BY <1>1 DEF Shards

LEMMA NextShardType ==
    ASSUME shard \in [Replicas -> Shards], NEW r \in Replicas
    PROVE  NextShard(r) \in Shards
<1>1. shard[r] \in Shards /\ Shards \subseteq Nat
  BY ShardsType
<1>2. shard[r] \in Nat
  BY <1>1
<1>3. ReplicasCount[r] \in Nat /\ ReplicasCount[r] > 0
  BY LeaseAssumption
<1>4. NextShard(r) \in 0..(ReplicasCount[r] - 1)
  BY <1>2, <1>3 DEF NextShard
<1> QED BY <1>4 DEF Shards

LEMMA StaleType ==
    ASSUME TypeOK, NEW i \in Shards PROVE Stale(i) \in [Replicas -> Call]
BY DEF TypeOK, Stale, Call

(* What others have read of a lease that changes is no longer fresh.        *)
LEMMA StaleCall ==
    ASSUME TypeOK, NEW i \in Shards, NEW q \in Replicas
    PROVE  /\ Stale(i)[q].kind = call[q].kind
           /\ Stale(i)[q].age = call[q].age
           /\ shard[q] = i => Stale(i)[q].fresh = FALSE
           /\ shard[q] # i => Stale(i)[q] = call[q]
<1>1. call[q] \in Call BY DEF TypeOK
<1>2. Stale(i)[q] = IF shard[q] = i THEN [call[q] EXCEPT !.fresh = FALSE] ELSE call[q]
  BY DEF Stale
<1>3. /\ [call[q] EXCEPT !.fresh = FALSE].kind = call[q].kind
      /\ [call[q] EXCEPT !.fresh = FALSE].age = call[q].age
      /\ [call[q] EXCEPT !.fresh = FALSE].fresh = FALSE
  BY <1>1 DEF Call
<1> QED BY <1>2, <1>3

(* The variables keep their types, for every value of the constants.        *)
LEMMA TypeStep == TypeOK /\ [Next]_vars => TypeOK'
<1> SUFFICES ASSUME TypeOK, [Next]_vars PROVE TypeOK'
  OBVIOUS
<1> USE LeaseAssumption
<1>a. NoCall \in Call /\ NoLease \in Lease
  BY DEF NoCall, Call, NoLease, Lease
<1>1. ASSUME NEW r \in Replicas, NEW calls \in [Replicas -> Call], Failed(r, calls)
      PROVE  /\ phase' \in [Replicas -> Phases] /\ shard' \in [Replicas -> Shards]
             /\ timer' \in [Replicas -> Nat] /\ call' \in [Replicas -> Call]
  BY <1>1, <1>a, NextShardType DEF Failed, TypeOK, Phases
<1>2. ASSUME NEW r \in Replicas, WriteLands(r)
      PROVE  lease' \in [Shards -> Lease]
  BY <1>2 DEF WriteLands, TypeOK, Lease, Call
<1>3. ASSUME NEW r \in Replicas, NEW kind \in {"create", "update"}, Prepare(r, kind)
      PROVE  TypeOK'
  BY <1>3 DEF Prepare, TypeOK, Call
<1>b. ASSUME NEW r \in Replicas, Get(r) \/ Read(r) PROVE TypeOK'
  <2>1. UNCHANGED <<lease, phase, shard, timer>>
    BY <1>b DEF Get, Read
  <2>2. CASE Get(r) BY <2>1, <2>2 DEF Get, TypeOK, Call
  <2>3. CASE Read(r)
    <3>1. call \in [Replicas -> Call] BY DEF TypeOK
    <3>2. call' = [call EXCEPT ![r] = [call[r] EXCEPT !.kind = "read", !.fresh = TRUE]]
      BY <2>3, <3>1 DEF Read
    <3>3. [call[r] EXCEPT !.kind = "read", !.fresh = TRUE] \in Call BY <3>1 DEF Call
    <3> QED BY <2>1, <3>1, <3>2, <3>3 DEF TypeOK
  <2> QED BY <1>b, <2>2, <2>3
<1>4. ASSUME NEW r \in Replicas, End(r) PROVE TypeOK'
  BY <1>4, <1>a, ShardsType DEF End, TypeOK, Lease, Phases
<1>5. CASE Tick
  <2>1. timer' \in [Replicas -> Nat]
    BY <1>5 DEF Tick, TypeOK
  <2>2. call' \in [Replicas -> Call]
    BY <1>5 DEF Tick, TypeOK, Call
  <2>3. lease' \in [Shards -> Lease]
    BY <1>5 DEF Tick, TypeOK, Lease
  <2> QED BY <1>5, <2>1, <2>2, <2>3 DEF Tick, TypeOK
<1>6. ASSUME NEW r \in Replicas, Acts(r) PROVE TypeOK'
  <2>a. CASE Get(r) \/ Read(r) BY <2>a, <1>b
  <2>b. CASE FindStale(r) BY <2>b, <1>1, <1>3 DEF FindStale, TypeOK
  <2>c. CASE CancelledCall(r) BY <2>c DEF CancelledCall, vars, TypeOK
  <2>1. CASE FindAbsent(r) BY <2>1, <1>3 DEF FindAbsent
  <2>2. CASE FindUsable(r) BY <2>2, <1>3 DEF FindUsable
  <2>3. CASE FindHeld(r) BY <2>3, <1>1 DEF FindHeld, TypeOK
  <2>4. CASE WriteOk(r)
    <3>1. Stale(shard[r]) \in [Replicas -> Call] BY StaleType DEF TypeOK
    <3> QED BY <2>4, <3>1, <1>2, <1>a DEF WriteOk, Acquired, TypeOK, Phases
  <2>5. CASE WriteConflict(r) BY <2>5, <1>1 DEF WriteConflict, TypeOK
  <2>6. CASE ReleaseOk(r)
    <3>1. Stale(shard[r]) \in [Replicas -> Call] BY StaleType DEF TypeOK
    <3> QED BY <2>6, <3>1, <1>a DEF ReleaseOk, TypeOK, Phases
  <2>7. CASE Stop(r) BY <2>7, <1>4 DEF Stop
  <2>8. CASE Restart(r) BY <2>8 DEF Restart, TypeOK, Phases
  <2> QED BY <1>6, <2>a, <2>b, <2>c, <2>1, <2>2, <2>3, <2>4, <2>5, <2>6, <2>7, <2>8 DEF Acts
<1>7. ASSUME NEW r \in Replicas, Fails(r) PROVE TypeOK'
  <2>1. CASE FindErr(r) BY <2>1, <1>1 DEF FindErr, TypeOK
  <2>2. CASE WriteErr(r) BY <2>2, <1>1 DEF WriteErr, TypeOK
  <2>3. CASE WriteLost(r)
    <3>1. Stale(shard[r]) \in [Replicas -> Call] BY StaleType DEF TypeOK
    <3> QED BY <2>3, <3>1, <1>1, <1>2 DEF WriteLost, TypeOK
  <2>4. CASE ReleaseErr(r) BY <2>4 DEF ReleaseErr, TypeOK, Phases
  <2>5. CASE Signal(r) BY <2>5 DEF Signal, TypeOK, Phases
  <2>6. CASE Crash(r) BY <2>6, <1>4 DEF Crash
  <2> QED BY <1>7, <2>1, <2>2, <2>3, <2>4, <2>5, <2>6 DEF Fails
<1>8. CASE UNCHANGED vars BY <1>8 DEF vars, TypeOK
<1> QED BY <1>5, <1>6, <1>7, <1>8 DEF Next

(* The variables keep their types, for any number of replicas and shards and *)
(* any durations.                                                           *)
THEOREM TypeCorrect == Spec => []TypeOK
<1>1. Init => TypeOK
  BY ShardsType DEF Init, TypeOK, NoLease, Lease, NoCall, Call, Phases
<1> QED BY <1>1, TypeStep, PTL DEF Spec

-------------------------------------------------------------------------------
(* Exclusive ownership.                                                     *)

(* The API server accepts no write to the lease of another owner's shard.   *)
LEMMA NoTakeover ==
    ASSUME LeaseInv, NEW r \in Replicas, NEW q \in Replicas, r # q,
           Owns(q), shard[r] = shard[q]
    PROVE  ~Accepted(r)
BY LeaseAssumption
   DEF LeaseInv, OwnersHold, PendingFair, Accepted, Found

(* A replica that a step leaves alone stays in time, and so does one that   *)
(* begins a phase, or is not in a timed one.                                *)
LEMMA InTimeStays ==
    ASSUME NEW r \in Replicas, InTime(r), phase'[r] = phase[r], timer'[r] = timer[r],
           call'[r].kind = call[r].kind, call'[r].age = call[r].age
    PROVE  InTime(r)'
<1>1. Timed(r)' = Timed(r) BY DEF Timed
<1>2. Deadline(r)' = Deadline(r) BY DEF Deadline
<1>3. Latest(r)' = Latest(r) BY <1>2 DEF Latest, Reads, Writes
<1> QED BY <1>1, <1>3 DEF InTime

LEMMA InTimeBegins ==
    ASSUME NEW r \in Replicas, call'[r].kind = "none", Timed(r)' => timer'[r] = 0
    PROVE  InTime(r)'
<1>1. Deadline(r)' >= 0 BY LeaseAssumption DEF Deadline
<1>2. Latest(r)' = Deadline(r)' BY DEF Latest, Reads, Writes
<1> QED BY <1>1, <1>2 DEF InTime

(* How long a replica can have been in its phase, whatever its call.        *)
LEMMA LatestOf ==
    ASSUME TypeOK, Deadlines, NEW r \in Replicas
    PROVE  /\ timer[r] \in Nat /\ call[r].age \in Nat /\ call[r] \in Call
           /\ call[r].kind \in {"none", "get", "read", "create", "update"}
           /\ phase[r] = "holding" =>
                /\ timer[r] <= RenewalInterval + 2 * CallMax
                /\ call[r].kind = "none" => timer[r] <= RenewalInterval
           /\ phase[r] = "releasing" => timer[r] <= CallMax
<1>1. /\ timer[r] \in Nat /\ call[r].age \in Nat /\ call[r] \in Call
      /\ call[r].kind \in {"none", "get", "read", "create", "update"}
  BY DEF TypeOK, Call
<1>2. /\ Timed(r) => timer[r] <= Latest(r)
      /\ call[r].kind # "none" => /\ call[r].age <= CallMax
                                  /\ phase[r] \in {"acquiring", "holding"}
  BY DEF Deadlines, InTime
<1>3. phase[r] = "holding" => Deadline(r) = RenewalInterval /\ Timed(r)
  BY DEF Deadline, Timed
<1>4. phase[r] = "releasing" => Deadline(r) = CallMax /\ Timed(r) /\ call[r].kind = "none"
  BY <1>2 DEF Deadline, Timed
<1>5. /\ call[r].kind = "none" => Latest(r) = Deadline(r)
      /\ call[r].kind \in {"get", "read"} => Latest(r) = Deadline(r) + call[r].age
      /\ call[r].kind \in {"create", "update"} => Latest(r) = Deadline(r) + CallMax + call[r].age
  BY DEF Latest, Reads, Writes
<1> QED BY <1>1, <1>2, <1>3, <1>4, <1>5, LeaseAssumption

(* OwnersHold for one replica, from what a step does to it.                 *)
LEMMA HoldsStep ==
    ASSUME LeaseInv, TypeOK', Deadlines', NEW r \in Replicas, Owns(r)',
           lease'[shard'[r]].holder = r, lease'[shard'[r]].age <= Grace(r)'
    PROVE  ~MayLookExpired(lease'[shard'[r]])
<1>1. lease'[shard'[r]].age \in Nat BY DEF TypeOK, Lease
<1>2. timer'[r] <= Latest(r)' BY DEF Deadlines, InTime, Owns, Timed
<1>3. timer'[r] \in Nat /\ call'[r].age \in Nat
      /\ call'[r].kind \in {"none", "get", "read", "create", "update"}
  BY DEF TypeOK, Call
<1>4. /\ phase'[r] = "holding" => timer'[r] <= RenewalInterval + 2 * CallMax
      /\ phase'[r] = "releasing" => timer'[r] <= CallMax
      /\ phase'[r] = "stopping" => timer'[r] <= StopMax
  BY <1>2, <1>3, LeaseAssumption DEF Deadlines, InTime, Latest, Deadline, Reads, Writes
<1>5. Grace(r)' <= 3 * CallMax + RenewalInterval + StopMax /\ Grace(r)' \in Nat
  BY <1>3, <1>4, LeaseAssumption DEF Owns, Grace
<1> QED BY <1>1, <1>5, LeaseAssumption, TimingAssumption DEF MayLookExpired

(* A step of one replica's call that leaves everything else alone.          *)
LEMMA CallStep ==
    ASSUME LeaseInv, TypeOK', NEW r \in Replicas,
           UNCHANGED <<lease, phase, shard, timer>>,
           \A q \in Replicas : q # r => call'[q] = call[q],
           phase[r] \in {"acquiring", "holding"},
           call'[r].age <= CallMax,
           Timed(r) => timer[r] <= Latest(r)',
           call'[r].kind = "update" /\ call'[r].fresh =>
              /\ Found(r).holder # Nobody
              /\ Found(r).holder = r \/ MayLookExpired(Found(r))
    PROVE  LeaseInv'
<1> USE DEF LeaseInv
<1>1. Deadlines'
  <2>1. InTime(r)' BY DEF InTime, Timed
  <2>2. \A q \in Replicas : q # r => InTime(q)'
    BY InTimeStays DEF Deadlines
  <2> QED BY <2>1, <2>2 DEF Deadlines
<1>2. PendingFair'
  BY DEF PendingFair, Found, MayLookExpired
<1>3. OwnersHold'
  BY DEF OwnersHold, Owns, Grace, MayLookExpired
<1> QED BY <1>1, <1>2, <1>3

(* Sending a Get, and its answer.                                           *)
LEMMA GetStep ==
    ASSUME LeaseInv, TypeOK', NEW r \in Replicas, Get(r) \/ Read(r)
    PROVE  LeaseInv'
<1>1. /\ UNCHANGED <<lease, phase, shard, timer>>
      /\ \A q \in Replicas : q # r => call'[q] = call[q]
      /\ phase[r] \in {"acquiring", "holding"}
      /\ call'[r].kind \in {"get", "read"}
      /\ \/ call[r].kind = "none" /\ call'[r].age = 0
         \/ call[r].kind = "get" /\ call'[r].age = call[r].age
  <2>1. call[r] \in Call BY DEF LeaseInv, TypeOK
  <2>2. CASE Get(r) BY <2>2 DEF Get, LeaseInv, TypeOK
  <2>3. CASE Read(r)
    <3>1. call'[r] = [call[r] EXCEPT !.kind = "read", !.fresh = TRUE]
      BY <2>3 DEF Read, LeaseInv, TypeOK
    <3> QED BY <2>1, <2>3, <3>1 DEF Read, LeaseInv, Deadlines, InTime, TypeOK, Call
  <2> QED BY <2>2, <2>3
<1>2. Timed(r) => timer[r] <= Latest(r)
  BY DEF LeaseInv, Deadlines, InTime
<1>3. timer[r] \in Nat /\ Deadline(r) \in Nat /\ call[r].age \in Nat
  BY LeaseAssumption DEF LeaseInv, TypeOK, Call, Deadline
<1>4. Timed(r) => timer[r] <= Latest(r)'
  BY <1>1, <1>2, <1>3 DEF Latest, Reads, Writes, Deadline
<1>5. call'[r].age <= CallMax
  BY <1>1, LeaseAssumption DEF LeaseInv, Deadlines, InTime
<1> QED BY <1>1, <1>4, <1>5, CallStep

(* The write that follows.                                                  *)
LEMMA PrepareStep ==
    ASSUME LeaseInv, TypeOK', NEW r \in Replicas, NEW kind \in {"create", "update"},
           call[r].kind = "read", Prepare(r, kind),
           kind = "update" /\ call[r].fresh =>
              /\ Found(r).holder # Nobody
              /\ Found(r).holder = r \/ MayLookExpired(Found(r))
    PROVE  LeaseInv'
<1>1. call[r] \in Call /\ call[r].age \in Nat /\ call[r].age <= CallMax
      /\ phase[r] \in {"acquiring", "holding"}
  BY DEF LeaseInv, TypeOK, Call, Deadlines, InTime
<1>2. call'[r] = [call[r] EXCEPT !.kind = kind, !.age = 0]
      /\ \A q \in Replicas : q # r => call'[q] = call[q]
  BY DEF Prepare, LeaseInv, TypeOK
<1>3. call'[r].kind = kind /\ call'[r].age = 0 /\ call'[r].fresh = call[r].fresh
  BY <1>1, <1>2 DEF Call
<1>4. Timed(r) => timer[r] <= Latest(r)
  BY DEF LeaseInv, Deadlines, InTime
<1>5. timer[r] \in Nat /\ Deadline(r) \in Nat
  BY LeaseAssumption DEF LeaseInv, TypeOK, Deadline
<1>6. Latest(r) = Deadline(r) + call[r].age
  BY DEF Latest, Reads, Writes
<1>7. Latest(r)' = Deadline(r) + CallMax
  BY <1>3, <1>5, LeaseAssumption DEF Latest, Reads, Writes, Deadline, Prepare
<1>8. Timed(r) => timer[r] <= Latest(r)'
  BY <1>1, <1>4, <1>5, <1>6, <1>7, LeaseAssumption
<1>9. call'[r].age <= CallMax BY <1>3, LeaseAssumption
<1> QED BY <1>1, <1>2, <1>3, <1>8, <1>9, CallStep DEF Prepare

(* A failed acquireLease that left the leases alone.                        *)
LEMMA FailedStep ==
    ASSUME LeaseInv, TypeOK', NEW r \in Replicas, phase[r] \in {"acquiring", "holding"},
           Failed(r, call), UNCHANGED lease
    PROVE  LeaseInv'
<1> USE DEF LeaseInv
<1>1. /\ \A q \in Replicas : q # r =>
            /\ call'[q] = call[q] /\ phase'[q] = phase[q]
            /\ shard'[q] = shard[q] /\ timer'[q] = timer[q]
      /\ call'[r] = NoCall
  BY DEF Failed, TypeOK
<1>2. \/ phase[r] = "acquiring" /\ phase'[r] = "acquiring"
      \/ /\ phase[r] = "holding" /\ phase'[r] = "stopping"
         /\ shard'[r] = shard[r] /\ timer'[r] = 0
  BY DEF Failed, TypeOK
<1>3. Deadlines'
  <2>1. \A q \in Replicas : q # r => InTime(q)'
    BY <1>1, InTimeStays DEF Deadlines
  <2>2. InTime(r)'
    BY <1>1, <1>2, InTimeBegins DEF Timed, NoCall
  <2> QED BY <2>1, <2>2 DEF Deadlines
<1>4. PendingFair'
  BY <1>1 DEF PendingFair, Found, MayLookExpired, NoCall
<1>5. OwnersHold'
  <2>1. \A q \in Replicas : q # r /\ Owns(q)' =>
           /\ lease'[shard'[q]].holder = q /\ lease'[shard'[q]].age <= Grace(q)'
    BY <1>1 DEF OwnersHold, Owns, Grace
  <2>2. Owns(r)' => /\ lease'[shard'[r]].holder = r
                    /\ lease'[shard'[r]].age <= Grace(r)'
    <3>1. SUFFICES ASSUME Owns(r)'
                   PROVE  /\ lease'[shard'[r]].holder = r
                          /\ lease'[shard'[r]].age <= Grace(r)'
      OBVIOUS
    <3>2. phase[r] = "holding" /\ phase'[r] = "stopping" /\ shard'[r] = shard[r]
          /\ timer'[r] = 0
      BY <3>1, <1>2 DEF Owns
    <3>3. /\ lease[shard[r]].holder = r
          /\ lease[shard[r]].age <= CallMax + timer[r]
      BY <3>2 DEF OwnersHold, Owns, Grace
    <3>4. timer[r] <= RenewalInterval + 2 * CallMax /\ timer[r] \in Nat
      BY <3>2, LatestOf
    <3>5. lease[shard[r]].age \in Nat
      BY DEF TypeOK, Lease
    <3> QED BY <3>2, <3>3, <3>4, <3>5, LeaseAssumption DEF Grace
  <2> QED BY <2>1, <2>2, <1>3, HoldsStep DEF OwnersHold
<1> QED BY <1>3, <1>4, <1>5

(* A write that lands: the lease is the writer's, and nobody else's before, *)
(* and what the others have read of it is stale.                            *)
LEMMA LandsStep ==
    ASSUME LeaseInv, TypeOK', NEW r \in Replicas,
           phase[r] \in {"acquiring", "holding"}, WriteLands(r),
           \/ Acquired(r, Stale(shard[r])) \/ Failed(r, Stale(shard[r]))
    PROVE  LeaseInv'
<1> USE DEF LeaseInv
<1>1. /\ \A q \in Replicas : q # r =>
            /\ phase'[q] = phase[q] /\ shard'[q] = shard[q] /\ timer'[q] = timer[q]
            /\ call'[q] = Stale(shard[r])[q]
      /\ call'[r] = NoCall
  <2>1. shard[r] \in Shards BY DEF TypeOK
  <2> QED BY <2>1, StaleType DEF Acquired, Failed, TypeOK
<1>2. \/ phase[r] = "acquiring" /\ phase'[r] = "acquiring"
      \/ /\ phase'[r] \in {"holding", "stopping"} /\ shard'[r] = shard[r]
         /\ timer'[r] = 0
  BY DEF Acquired, Failed, TypeOK
<1>3. /\ call[r].kind # "none" /\ call[r].age <= CallMax /\ call[r].age \in Nat
  BY DEF WriteLands, Accepted, Deadlines, InTime, TypeOK, Call
<1>4. /\ lease'[shard[r]] = [holder |-> r, age |-> call[r].age]
      /\ \A i \in Shards : i # shard[r] => lease'[i] = lease[i]
  BY DEF WriteLands, TypeOK
<1>5. \A q \in Replicas : shard[q] \in Shards
  BY DEF TypeOK
<1>6. Deadlines'
  <2>1. ASSUME NEW q \in Replicas, q # r
        PROVE  call'[q].kind = call[q].kind /\ call'[q].age = call[q].age
    <3>1. call'[q] = Stale(shard[r])[q] BY <2>1, <1>1
    <3> QED BY <3>1, <1>5, StaleCall
  <2>2. \A q \in Replicas : q # r => InTime(q)'
    BY <1>1, <2>1, InTimeStays DEF Deadlines
  <2>3. InTime(r)'
    BY <1>1, <1>2, InTimeBegins DEF Timed, NoCall
  <2> QED BY <2>2, <2>3 DEF Deadlines
<1>7. PendingFair'
  <2>1. ASSUME NEW q \in Replicas, call'[q].kind = "update", call'[q].fresh
        PROVE  q # r /\ shard[q] # shard[r] /\ call'[q] = call[q]
    <3>1. q # r BY <2>1, <1>1 DEF NoCall
    <3>2. call'[q] = Stale(shard[r])[q] BY <3>1, <1>1
    <3> QED BY <2>1, <3>1, <3>2, <1>5, StaleCall
  <2>2. \A q \in Replicas : q # r /\ shard[q] # shard[r] =>
           lease'[shard'[q]] = lease[shard[q]]
    BY <1>1, <1>4, <1>5
  <2> SUFFICES ASSUME NEW q \in Replicas, call'[q].kind = "update", call'[q].fresh
               PROVE  /\ lease'[shard'[q]].holder # Nobody
                      /\ \/ lease'[shard'[q]].holder = q
                         \/ MayLookExpired(lease'[shard'[q]])
    BY DEF PendingFair, MayLookExpired, Found
  <2>3. /\ lease[shard[q]].holder # Nobody
        /\ lease[shard[q]].holder = q \/ MayLookExpired(lease[shard[q]])
    BY <2>1 DEF PendingFair, Found
  <2> QED BY <2>1, <2>2, <2>3
<1>8. OwnersHold'
  <2>1. ASSUME NEW q \in Replicas, q # r, Owns(q)'
        PROVE  lease'[shard'[q]].holder = q /\ lease'[shard'[q]].age <= Grace(q)'
    <3>1. Owns(q) /\ Grace(q)' = Grace(q) /\ shard'[q] = shard[q]
      BY <2>1, <1>1 DEF Owns, Grace
    <3>2. shard[q] # shard[r]
      BY <2>1, <3>1, NoTakeover DEF WriteLands
    <3> QED BY <3>1, <3>2, <1>4, <1>5 DEF OwnersHold
  <2>2. ASSUME Owns(r)'
        PROVE  lease'[shard'[r]].holder = r /\ lease'[shard'[r]].age <= Grace(r)'
    BY <2>2, <1>2, <1>3, <1>4, LeaseAssumption DEF Owns, Grace
  <2> QED BY <2>1, <2>2, <1>6, HoldsStep DEF OwnersHold
<1> QED BY <1>6, <1>7, <1>8

(* A signal, and a release that fails.                                      *)
LEMMA GiveUpStep ==
    ASSUME LeaseInv, TypeOK', NEW r \in Replicas, Signal(r) \/ ReleaseErr(r)
    PROVE  LeaseInv'
<1> USE DEF LeaseInv
<1>1. /\ UNCHANGED <<lease, shard, call>>
      /\ \A q \in Replicas : q # r => phase'[q] = phase[q] /\ timer'[q] = timer[q]
      /\ timer'[r] = 0
      /\ \/ /\ phase[r] = "holding" /\ phase'[r] = "releasing"
            /\ timer[r] <= RenewalInterval /\ call[r].kind = "none"
         \/ phase[r] = "releasing" /\ phase'[r] = "stopping"
  BY LatestOf DEF Signal, ReleaseErr, TypeOK
<1>2. Deadlines'
  <2>1. \A q \in Replicas : q # r => InTime(q)'
    BY <1>1, InTimeStays DEF Deadlines
  <2>2. call[r].kind = "none"
    BY <1>1 DEF Deadlines, InTime
  <2>3. InTime(r)'
    BY <1>1, <2>2, InTimeBegins
  <2> QED BY <2>1, <2>3 DEF Deadlines
<1>3. PendingFair'
  BY <1>1 DEF PendingFair, Found, MayLookExpired
<1>4. OwnersHold'
  <2>1. \A q \in Replicas : q # r /\ Owns(q)' =>
           lease'[shard'[q]].holder = q /\ lease'[shard'[q]].age <= Grace(q)'
    BY <1>1 DEF OwnersHold, Owns, Grace
  <2>2. lease[shard[r]].holder = r /\ lease[shard[r]].age <= Grace(r)
    BY <1>1 DEF OwnersHold, Owns
  <2>3. /\ timer[r] \in Nat /\ lease[shard[r]].age \in Nat
        /\ phase[r] = "releasing" => timer[r] <= CallMax
    BY LatestOf DEF TypeOK, Lease
  <2>4. lease'[shard'[r]].holder = r /\ lease'[shard'[r]].age <= Grace(r)'
    BY <2>2, <2>3, <1>1, LeaseAssumption DEF Grace
  <2> QED BY <2>1, <2>4, <1>2, HoldsStep DEF OwnersHold
<1> QED BY <1>2, <1>3, <1>4

(* A release: the lease deleted is the replica's own.                       *)
LEMMA ReleaseStep ==
    ASSUME LeaseInv, TypeOK', NEW r \in Replicas, ReleaseOk(r)
    PROVE  LeaseInv'
<1> USE DEF LeaseInv
<1>1. /\ UNCHANGED shard
      /\ \A q \in Replicas : q # r => phase'[q] = phase[q] /\ timer'[q] = timer[q]
      /\ call' = Stale(shard[r])
      /\ timer'[r] = 0 /\ phase[r] = "releasing" /\ phase'[r] = "released"
      /\ \A i \in Shards : i # shard[r] => lease'[i] = lease[i]
  BY DEF ReleaseOk, TypeOK
<1>2. \A q \in Replicas : shard[q] \in Shards
  BY DEF TypeOK
<1>3. Deadlines'
  <2>1. \A q \in Replicas :
           call'[q].kind = call[q].kind /\ call'[q].age = call[q].age
    BY <1>1, <1>2, StaleCall
  <2>2. call[r].kind = "none"
    BY <1>1 DEF Deadlines, InTime
  <2>3. \A q \in Replicas : q # r => InTime(q)'
    BY <1>1, <2>1, InTimeStays DEF Deadlines
  <2>4. InTime(r)'
    BY <1>1, <2>1, <2>2, InTimeBegins
  <2> QED BY <2>3, <2>4 DEF Deadlines
<1>4. PendingFair'
  <2>1. ASSUME NEW q \in Replicas, call'[q].kind = "update", call'[q].fresh
        PROVE  shard[q] # shard[r] /\ call'[q] = call[q]
    BY <2>1, <1>1, <1>2, StaleCall
  <2> QED BY <2>1, <1>1, <1>2 DEF PendingFair, Found, MayLookExpired
<1>5. OwnersHold'
  <2>1. ASSUME NEW q \in Replicas, Owns(q)'
        PROVE  lease'[shard'[q]].holder = q /\ lease'[shard'[q]].age <= Grace(q)'
    <3>1. q # r /\ Owns(q) /\ Grace(q)' = Grace(q) /\ shard'[q] = shard[q]
      BY <2>1, <1>1 DEF Owns, Grace
    <3>2. shard[q] # shard[r]
      BY <3>1, <1>1 DEF OwnersHold, Owns
    <3> QED BY <3>1, <3>2, <1>1, <1>2 DEF OwnersHold
  <2> QED BY <2>1, <1>3, HoldsStep DEF OwnersHold
<1> QED BY <1>3, <1>4, <1>5

(* The end of a process.                                                    *)
LEMMA EndStep ==
    ASSUME LeaseInv, TypeOK', NEW r \in Replicas, End(r)
    PROVE  LeaseInv'
<1> USE DEF LeaseInv
<1>1. /\ \A q \in Replicas : q # r =>
            /\ phase'[q] = phase[q] /\ shard'[q] = shard[q]
            /\ timer'[q] = timer[q] /\ call'[q] = call[q]
      /\ phase'[r] = "down" /\ call'[r] = NoCall
  BY DEF End, TypeOK
<1>2. \A i \in Shards :
         /\ lease'[i].age = lease[i].age
         /\ lease[i].holder # r => lease'[i] = lease[i]
         /\ lease[i].holder = r => lease'[i].holder = Gone
  <2> TAKE i \in Shards
  <2>1. lease[i] \in Lease BY DEF TypeOK
  <2>2. lease'[i] = IF lease[i].holder = r THEN [lease[i] EXCEPT !.holder = Gone]
                                           ELSE lease[i]
    BY DEF End
  <2> QED BY <2>1, <2>2 DEF Lease
<1>3. \A q \in Replicas : shard[q] \in Shards
  BY DEF TypeOK
<1>4. Deadlines'
  <2>1. \A q \in Replicas : q # r => InTime(q)'
    BY <1>1, InTimeStays DEF Deadlines
  <2>2. InTime(r)'
    BY <1>1, InTimeBegins DEF Timed, NoCall
  <2> QED BY <2>1, <2>2 DEF Deadlines
<1>5. PendingFair'
  <2> SUFFICES ASSUME NEW q \in Replicas, call'[q].kind = "update", call'[q].fresh
               PROVE  /\ Found(q)'.holder # Nobody
                      /\ Found(q)'.holder = q \/ MayLookExpired(Found(q)')
    BY DEF PendingFair, MayLookExpired
  <2>1. q # r /\ call'[q] = call[q] /\ shard'[q] = shard[q]
    BY <1>1 DEF NoCall
  <2>2. Found(q).holder # Nobody /\ (Found(q).holder = q \/ MayLookExpired(Found(q)))
    BY <2>1 DEF PendingFair
  <2> QED BY <2>1, <2>2, <1>2, <1>3, LeaseAssumption DEF Found, MayLookExpired
<1>6. OwnersHold'
  <2>1. ASSUME NEW q \in Replicas, Owns(q)'
        PROVE  lease'[shard'[q]].holder = q /\ lease'[shard'[q]].age <= Grace(q)'
    <3>1. q # r /\ Owns(q) /\ Grace(q)' = Grace(q) /\ shard'[q] = shard[q]
      BY <2>1, <1>1 DEF Owns, Grace
    <3> QED BY <3>1, <1>2, <1>3 DEF OwnersHold
  <2> QED BY <2>1, <1>4, HoldsStep DEF OwnersHold
<1> QED BY <1>4, <1>5, <1>6

LEMMA RestartStep ==
    ASSUME LeaseInv, TypeOK', NEW r \in Replicas, Restart(r)
    PROVE  LeaseInv'
<1> USE DEF LeaseInv
<1>1. /\ \A q \in Replicas : q # r => phase'[q] = phase[q]
      /\ phase[r] = "down" /\ phase'[r] = "acquiring"
      /\ UNCHANGED <<lease, shard, timer, call>>
  BY DEF Restart, TypeOK
<1>2. Deadlines'
  <2>1. \A q \in Replicas : q # r => InTime(q)'
    BY <1>1, InTimeStays DEF Deadlines
  <2>2. call[r].kind = "none" /\ ~Timed(r)'
    BY <1>1 DEF Deadlines, InTime, Timed
  <2>3. InTime(r)'
    BY <1>1, <2>2, InTimeBegins
  <2> QED BY <2>1, <2>3 DEF Deadlines
<1>3. PendingFair'
  BY <1>1 DEF PendingFair, Found, MayLookExpired
<1>4. OwnersHold'
  BY <1>1 DEF OwnersHold, Owns, Grace, MayLookExpired
<1> QED BY <1>2, <1>3, <1>4

(* Time passes: a lease and the clock of its owner advance together.        *)
LEMMA TickStep ==
    ASSUME LeaseInv, TypeOK', Tick
    PROVE  LeaseInv'
<1> USE DEF LeaseInv
<1>1. /\ UNCHANGED <<phase, shard>>
      /\ \A q \in Replicas :
            /\ timer'[q] = IF Timed(q) THEN timer[q] + 1 ELSE timer[q]
            /\ IF call[q].kind # "none" THEN call[q].age < CallMax
                                        ELSE Timed(q) => timer[q] < Deadline(q)
  BY DEF Tick
<1>2. \A i \in Shards :
         /\ lease'[i].holder = lease[i].holder
         /\ lease'[i].age <= lease[i].age + 1
         /\ MayLookExpired(lease[i]) => MayLookExpired(lease'[i])
  <2> TAKE i \in Shards
  <2>1. lease[i] \in Lease BY DEF TypeOK
  <2>2. lease'[i] = IF lease[i].holder # Nobody /\ lease[i].age < Expired
                      THEN [lease[i] EXCEPT !.age = @ + 1] ELSE lease[i]
    BY DEF Tick
  <2> QED BY <2>1, <2>2, LeaseAssumption DEF Lease, MayLookExpired
<1>3. \A q \in Replicas :
         /\ call'[q].kind = call[q].kind /\ call'[q].fresh = call[q].fresh
         /\ call[q].kind # "none" => call'[q].age = call[q].age + 1
  <2> TAKE q \in Replicas
  <2>1. call[q] \in Call BY DEF TypeOK
  <2>2. call'[q] = IF call[q].kind # "none" THEN [call[q] EXCEPT !.age = @ + 1]
                                            ELSE call[q]
    BY DEF Tick
  <2> QED BY <2>1, <2>2 DEF Call
<1>4. \A q \in Replicas : /\ shard[q] \in Shards /\ timer[q] \in Nat
                          /\ call[q].age \in Nat /\ Deadline(q) \in Nat
  BY LeaseAssumption DEF TypeOK, Call, Deadline
<1>5. Deadlines'
  <2>1. \A q \in Replicas : Deadline(q)' = Deadline(q) /\ (Timed(q)' <=> Timed(q))
    BY <1>1 DEF Deadline, Timed
  <2>2. ASSUME NEW q \in Replicas, Timed(q) PROVE timer'[q] <= Latest(q)'
    <3>1. timer[q] <= Latest(q) /\ timer'[q] = timer[q] + 1
      BY <2>2, <1>1 DEF Deadlines, InTime
    <3>2. CASE call[q].kind = "none"
      <4>1. Latest(q)' = Deadline(q)
        BY <3>2, <2>1, <1>3 DEF Latest, Reads, Writes
      <4>2. timer[q] < Deadline(q)
        BY <3>2, <2>2, <1>1
      <4> QED BY <3>1, <4>1, <4>2, <1>4
    <3>3. CASE call[q].kind # "none"
      <4>1. call[q].kind \in {"get", "read", "create", "update"}
        BY <3>3, LatestOf
      <4>2. Latest(q)' = Latest(q) + 1 /\ Latest(q) \in Nat
        BY <4>1, <2>1, <1>3, <1>4, LeaseAssumption DEF Latest, Reads, Writes
      <4> QED BY <3>1, <4>2, <1>4
    <3> QED BY <3>2, <3>3
  <2>3. \A q \in Replicas : call'[q].kind # "none" =>
           call'[q].age <= CallMax /\ phase'[q] \in {"acquiring", "holding"}
    BY <1>1, <1>3, <1>4, LeaseAssumption DEF Deadlines, InTime
  <2> QED BY <2>1, <2>2, <2>3 DEF Deadlines, InTime
<1>6. PendingFair'
  <2> SUFFICES ASSUME NEW q \in Replicas, call'[q].kind = "update", call'[q].fresh
               PROVE  /\ Found(q)'.holder # Nobody
                      /\ Found(q)'.holder = q \/ MayLookExpired(lease'[shard'[q]])
    BY DEF PendingFair, MayLookExpired, Found
  <2>1. Found(q).holder # Nobody
        /\ (Found(q).holder = q \/ MayLookExpired(lease[shard[q]]))
    BY <1>3 DEF PendingFair, Found
  <2> QED BY <2>1, <1>1, <1>2, <1>4 DEF Found
<1>7. OwnersHold'
  <2>1. ASSUME NEW q \in Replicas, Owns(q)'
        PROVE  lease'[shard'[q]].holder = q /\ lease'[shard'[q]].age <= Grace(q)'
    <3>1. Owns(q) /\ Timed(q) /\ shard'[q] = shard[q]
      BY <2>1, <1>1 DEF Owns, Timed
    <3>2. Grace(q)' = Grace(q) + 1 /\ Grace(q) \in Nat
      BY <3>1, <1>1, <1>4, LeaseAssumption DEF Grace
    <3>3. /\ lease[shard[q]].holder = q /\ lease[shard[q]].age <= Grace(q)
          /\ lease[shard[q]].age \in Nat /\ lease'[shard[q]].age \in Nat
      BY <3>1, <1>1, <1>4 DEF OwnersHold, TypeOK, Lease
    <3> QED BY <3>1, <3>2, <3>3, <1>2, <1>4
  <2> QED BY <2>1, <1>5, HoldsStep DEF OwnersHold
<1> QED BY <1>5, <1>6, <1>7

(* The invariant is inductive.                                              *)
LEMMA InvStep == LeaseInv /\ [Next]_vars => LeaseInv'
<1> SUFFICES ASSUME LeaseInv, [Next]_vars PROVE LeaseInv'
  OBVIOUS
<1>1. TypeOK' BY TypeStep DEF LeaseInv
<1>3. ASSUME NEW r \in Replicas, call[r].kind # "none"
      PROVE  phase[r] \in {"acquiring", "holding"}
  BY <1>3 DEF LeaseInv, Deadlines, InTime
<1>4. ASSUME NEW r \in Replicas, Accepted(r)
      PROVE  call[r].kind # "none"
  BY <1>4 DEF Accepted
<1>8. CASE UNCHANGED vars
  BY <1>8 DEF vars, LeaseInv, TypeOK, Deadlines, InTime, PendingFair, OwnersHold, Timed,
              Latest, Deadline, Reads, Writes, Found, MayLookExpired, Owns, Grace
<1>5. ASSUME NEW r \in Replicas, Acts(r) PROVE LeaseInv'
  <2>a. CASE Get(r) \/ Read(r) BY <2>a, <1>1, GetStep
  <2>b. CASE FindStale(r)
    <3>1. call[r].kind = "read" /\ ~call[r].fresh BY <2>b DEF FindStale
    <3>2. CASE \E kind \in {"create", "update"} : Prepare(r, kind)
      BY <3>1, <3>2, <1>1, PrepareStep
    <3>3. CASE Failed(r, call) /\ UNCHANGED lease
      BY <3>1, <3>3, <1>1, <1>3, FailedStep
    <3> QED BY <2>b, <3>2, <3>3 DEF FindStale
  <2>c. CASE CancelledCall(r) BY <2>c, <1>8 DEF CancelledCall
  <2>1. CASE FindAbsent(r) BY <2>1, <1>1, PrepareStep DEF FindAbsent, FindsCurrent
  <2>2. CASE FindUsable(r)
    <3>1. call[r].kind = "read" /\ Prepare(r, "update") /\ Found(r).holder # Nobody
          /\ (Found(r).holder = r \/ MayLookExpired(Found(r)))
      BY <2>2 DEF FindUsable, FindsCurrent
    <3> QED BY <3>1, <1>1, PrepareStep
  <2>3. CASE FindHeld(r) BY <2>3, <1>1, <1>3, FailedStep DEF FindHeld, FindsCurrent
  <2>4. CASE WriteOk(r)
    <3>1. WriteLands(r) /\ Acquired(r, Stale(shard[r])) BY <2>4 DEF WriteOk
    <3>2. phase[r] \in {"acquiring", "holding"} BY <3>1, <1>3, <1>4 DEF WriteLands
    <3> QED BY <3>1, <3>2, <1>1, LandsStep
  <2>5. CASE WriteConflict(r) BY <2>5, <1>1, <1>3, FailedStep DEF WriteConflict, Writes
  <2>6. CASE ReleaseOk(r) BY <2>6, <1>1, ReleaseStep
  <2>7. CASE Stop(r) BY <2>7, <1>1, EndStep DEF Stop
  <2>8. CASE Restart(r) BY <2>8, <1>1, RestartStep
  <2> QED BY <1>5, <2>a, <2>b, <2>c, <2>1, <2>2, <2>3, <2>4, <2>5, <2>6, <2>7, <2>8 DEF Acts
<1>6. ASSUME NEW r \in Replicas, Fails(r) PROVE LeaseInv'
  <2>1. CASE FindErr(r) BY <2>1, <1>1, <1>3, FailedStep DEF FindErr, Reads
  <2>2. CASE WriteErr(r) BY <2>2, <1>1, <1>3, <1>4, FailedStep DEF WriteErr
  <2>3. CASE WriteLost(r)
    <3>1. WriteLands(r) /\ Failed(r, Stale(shard[r])) BY <2>3 DEF WriteLost
    <3>2. phase[r] \in {"acquiring", "holding"} BY <3>1, <1>3, <1>4 DEF WriteLands
    <3> QED BY <3>1, <3>2, <1>1, LandsStep
  <2>4. CASE ReleaseErr(r) \/ Signal(r) BY <2>4, <1>1, GiveUpStep
  <2>5. CASE Crash(r) BY <2>5, <1>1, EndStep DEF Crash
  <2> QED BY <1>6, <2>1, <2>2, <2>3, <2>4, <2>5 DEF Fails
<1>7. CASE Tick BY <1>7, <1>1, TickStep
<1> QED BY <1>5, <1>6, <1>7, <1>8 DEF Next

(* Owners' leases are valid, pending updates are fair, and nothing takes    *)
(* longer than assumed: the inductive invariant behind Exclusive, kept by   *)
(* every step of acquireLease, of the renewal goroutine and of the clock.   *)
THEOREM LeaseInvariant == Spec => []LeaseInv
<1>1. Init => LeaseInv
  <2> SUFFICES ASSUME Init PROVE LeaseInv
    OBVIOUS
  <2>1. TypeOK
    BY ShardsType DEF Init, TypeOK, NoLease, Lease, NoCall, Call, Phases
  <2> QED BY <2>1 DEF Init, LeaseInv, Deadlines, InTime, PendingFair, OwnersHold, Timed, Owns, NoCall
<1> QED BY <1>1, InvStep, PTL DEF Spec

(* An owner's lease is its own and looks valid to every replica, however    *)
(* calls fail and replicas come and go.                                     *)
THEOREM OwnersHoldTheorem == Spec => []OwnersHold
<1>1. LeaseInv => OwnersHold BY DEF LeaseInv
<1> QED BY <1>1, LeaseInvariant, PTL

(* No two replicas own the same shard at the same time.                     *)
THEOREM Exclusive == Spec => []ExclusiveShard
<1>1. LeaseInv => ExclusiveShard
  <2> SUFFICES ASSUME LeaseInv, NEW r \in Replicas, NEW q \in Replicas,
                      r # q, Owns(r), Owns(q)
               PROVE  shard[r] # shard[q]
    BY DEF ExclusiveShard
  <2> QED BY DEF LeaseInv, OwnersHold
<1> QED BY <1>1, LeaseInvariant, PTL

===============================================================================
