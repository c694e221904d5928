------------------------------ MODULE ShardLease ------------------------------
(***************************************************************************)
(* Replicas of the provider share the AnsibleRuns out among shards.  Before *)
(* its controller starts, a replica acquires the lease of one shard         *)
(* (acquireAndHoldShard); a goroutine renews it until it fails to, or until *)
(* a signal makes it release the lease; either way it then cancels the      *)
(* provider's context, and the replica works on until it has stopped.  The  *)
(* calls of the goroutine use that context too: once it is cancelled they   *)
(* end before anything is sent.                                             *)
(* Time is discrete; the assumptions on how long things take are deadlines  *)
(* that Tick does not pass.                                                 *)
(***************************************************************************)
EXTENDS Naturals, FiniteSets

CONSTANTS
    Replicas,         \* processes of the provider; one that restarts has a new replicaID
    ReplicasCount,    \* per replica, its --replicas flag: how many shards it knows of
    LeaseDuration,    \* leaseDurationSeconds
    RenewalInterval,  \* leaseRenewalInterval
    CallMax,          \* how long a call of the API server takes at most
    StopMax,          \* how long a cancelled replica works on at most
    ClockSkew,        \* how far two replicas' clocks differ at most
    Nobody, Gone      \* no lease; a lease of a replica that is no more

ASSUME LeaseAssumption ==
    /\ ReplicasCount \in [Replicas -> Nat \ {0}]
    /\ LeaseDuration \in Nat /\ RenewalInterval \in Nat
    /\ CallMax \in Nat /\ StopMax \in Nat /\ ClockSkew \in Nat
    /\ Nobody \notin Replicas /\ Gone \notin Replicas /\ Nobody # Gone

Shards == UNION {0..(ReplicasCount[r] - 1) : r \in Replicas}

(* A lease as old as this looks expired to every replica.                   *)
Expired == LeaseDuration + ClockSkew

VARIABLES
    lease,   \* per shard, the Lease object: its holder and the age of its RenewTime
    phase,   \* per replica, where it is in its life
    shard,   \* per replica, the shard it tries to acquire, or has acquired
    timer,   \* per replica, the time since it acquired or renewed, or was told to stop
    call     \* per replica, the call of acquireLease under way

vars == <<lease, phase, shard, timer, call>>

NoLease == [holder |-> Nobody, age |-> 0]
NoCall  == [kind |-> "none", fresh |-> FALSE, age |-> 0]

Lease == [holder : Replicas \cup {Nobody, Gone}, age : Nat]

(* get: a Get on its way to the API server; read: its response on the way   *)
(* back; create, update: the write that follows.  fresh: the Lease that was *)
(* read is still current.  age: since the call was made, which for a write  *)
(* is when RenewTime was computed.                                          *)
Call == [kind : {"none", "get", "read", "create", "update"}, fresh : BOOLEAN, age : Nat]

Phases == {"down", "acquiring", "holding", "releasing", "stopping", "released"}

(* Types: every shard a replica tries or holds is one of the shards.         *)
TypeOK ==
    /\ lease \in [Shards -> Lease]
    /\ phase \in [Replicas -> Phases]
    /\ shard \in [Replicas -> Shards]
    /\ timer \in [Replicas -> Nat]
    /\ call \in [Replicas -> Call]

Init ==
    /\ lease = [i \in Shards |-> NoLease]
    /\ phase = [r \in Replicas |-> "acquiring"]
    /\ shard = [r \in Replicas |-> 0]
    /\ timer = [r \in Replicas |-> 0]
    /\ call = [r \in Replicas |-> NoCall]

-------------------------------------------------------------------------------
(* acquireLease: read the Lease, then create or update it.                  *)

(* Mutant: the loop over the shards ends instead of starting again.         *)
NextShardOnce(r) ==
    IF shard[r] + 1 < ReplicasCount[r] THEN shard[r] + 1 ELSE shard[r]

(* Mutant: the loop does not stop at ReplicasCount.                         *)
NextShardUnbounded(r) == shard[r] + 1

NextShard(r) == (shard[r] + 1) % ReplicasCount[r]

(* Any change of a Lease makes what others have read of it stale.           *)
Stale(i) ==
    [q \in Replicas |-> IF shard[q] = i THEN [call[q] EXCEPT !.fresh = FALSE]
                                        ELSE call[q]]

(* acquireLease returned nil: hold the shard for another interval.          *)
Acquired(r, calls) ==
    /\ phase' = [phase EXCEPT ![r] = "holding"]
    /\ timer' = [timer EXCEPT ![r] = 0]
    /\ call' = [calls EXCEPT ![r] = NoCall]
    /\ UNCHANGED shard

(* Mutant: a renewal that fails makes the replica move on to the next shard.*)
FailedRenewalMovesOn(r, calls) ==
    /\ shard' = [shard EXCEPT ![r] = NextShard(r)]
    /\ call' = [calls EXCEPT ![r] = NoCall]
    /\ UNCHANGED <<phase, timer>>

(* acquireLease returned an error: try the next shard or, when this was a   *)
(* renewal, cancel the provider's context.                                  *)
Failed(r, calls) ==
    /\ IF phase[r] = "acquiring"
         THEN /\ shard' = [shard EXCEPT ![r] = NextShard(r)]
              /\ UNCHANGED <<phase, timer>>
         ELSE /\ phase' = [phase EXCEPT ![r] = "stopping"]
              /\ timer' = [timer EXCEPT ![r] = 0]
              /\ UNCHANGED shard
    /\ call' = [calls EXCEPT ![r] = NoCall]

Found(r) == lease[shard[r]]

Reads(r)  == call[r].kind \in {"get", "read"}
Writes(r) == call[r].kind \in {"create", "update"}

(* A replica gets a Lease when it looks for a shard, and when it is time to *)
(* renew its own.                                                           *)
Get(r) ==
    /\ call[r].kind = "none"
    /\ \/ phase[r] = "acquiring"
       \/ phase[r] = "holding" /\ timer[r] >= RenewalInterval
    /\ call' = [call EXCEPT ![r] = [kind |-> "get", fresh |-> FALSE, age |-> 0]]
    /\ UNCHANGED <<lease, phase, shard, timer>>

Read(r) ==
    /\ call[r].kind = "get"
    /\ call' = [call EXCEPT ![r].kind = "read", ![r].fresh = TRUE]
    /\ UNCHANGED <<lease, phase, shard, timer>>

(* RenewTime was written by another clock than the one it is compared with. *)
MayLookExpired(l) == l.age + ClockSkew >= LeaseDuration
MayLookValid(l)   == l.age < LeaseDuration + ClockSkew

Prepare(r, kind) ==
    /\ call' = [call EXCEPT ![r].kind = kind, ![r].age = 0]
    /\ UNCHANGED <<lease, phase, shard, timer>>

FindsCurrent(r) == call[r].kind = "read" /\ call[r].fresh

FindAbsent(r) ==
    /\ FindsCurrent(r)
    /\ Found(r).holder = Nobody
    /\ Prepare(r, "create")

FindUsable(r) ==
    /\ FindsCurrent(r)
    /\ Found(r).holder # Nobody
    /\ Found(r).holder = r \/ MayLookExpired(Found(r))
    /\ Prepare(r, "update")

FindHeld(r) ==
    /\ FindsCurrent(r)
    /\ Found(r).holder \notin {r, Nobody}
    /\ MayLookValid(Found(r))
    /\ Failed(r, call)
    /\ UNCHANGED lease

(* The Lease changed while the response was on its way: what it says is     *)
(* forgotten here, so the replica may go any of the three ways.             *)
FindStale(r) ==
    /\ call[r].kind = "read" /\ ~call[r].fresh
    /\ \/ \E kind \in {"create", "update"} : Prepare(r, kind)
       \/ Failed(r, call) /\ UNCHANGED lease

FindErr(r) ==
    /\ Reads(r)
    /\ Failed(r, call)
    /\ UNCHANGED lease

(* The API server takes a create when there is no Lease, and an update when *)
(* the Lease is the one that was read.                                      *)
Accepted(r) ==
    \/ call[r].kind = "create" /\ Found(r).holder = Nobody
    \/ call[r].kind = "update" /\ call[r].fresh

WriteLands(r) ==
    /\ Accepted(r)
    /\ lease' = [lease EXCEPT ![shard[r]] = [holder |-> r, age |-> call[r].age]]

WriteOk(r) == WriteLands(r) /\ Acquired(r, Stale(shard[r]))

(* The write lands, but its response is lost.                               *)
WriteLost(r) == WriteLands(r) /\ Failed(r, Stale(shard[r]))

WriteConflict(r) ==
    /\ Writes(r)
    /\ ~Accepted(r)
    /\ Failed(r, call)
    /\ UNCHANGED lease

WriteErr(r) ==
    /\ Accepted(r)
    /\ Failed(r, call)
    /\ UNCHANGED lease

-------------------------------------------------------------------------------
(* The end of a replica.                                                    *)

(* The goroutine notices a signal between two renewals.                     *)
Signal(r) ==
    /\ phase[r] = "holding"
    /\ call[r].kind = "none"
    /\ phase' = [phase EXCEPT ![r] = "releasing"]
    /\ timer' = [timer EXCEPT ![r] = 0]
    /\ UNCHANGED <<lease, shard, call>>

(* releaseLease deletes the Lease, whoever holds it; then the context is    *)
(* cancelled.                                                               *)
ReleaseOk(r) ==
    /\ phase[r] = "releasing"
    /\ lease' = [lease EXCEPT ![shard[r]] = NoLease]
    /\ phase' = [phase EXCEPT ![r] = "released"]
    /\ timer' = [timer EXCEPT ![r] = 0]
    /\ call' = Stale(shard[r])
    /\ UNCHANGED shard

ReleaseErr(r) ==
    /\ phase[r] = "releasing"
    /\ phase' = [phase EXCEPT ![r] = "stopping"]
    /\ timer' = [timer EXCEPT ![r] = 0]
    /\ UNCHANGED <<lease, shard, call>>

(* Mutant: the goroutine's calls do not use the context it cancels, so one  *)
(* that a signal reaches while the replica is stopping deletes the Lease.   *)
CancelledCallSent(r) ==
    /\ phase[r] = "stopping"
    /\ lease' = [lease EXCEPT ![shard[r]] = NoLease]
    /\ call' = Stale(shard[r])
    /\ UNCHANGED <<phase, shard, timer>>

(* After a failed renewal the goroutine goes on: every interval it renews,  *)
(* and at a signal it releases.  Its context is the provider's, which is    *)
(* cancelled by then, so no call is sent, and each only ends in a log line. *)
CancelledCall(r) == phase[r] = "stopping" /\ UNCHANGED vars

(* The process ends, and its replicaID with it.                             *)
End(r) ==
    /\ lease' = [i \in Shards |-> IF lease[i].holder = r
                                    THEN [lease[i] EXCEPT !.holder = Gone]
                                    ELSE lease[i]]
    /\ phase' = [phase EXCEPT ![r] = "down"]
    /\ shard' = [shard EXCEPT ![r] = 0]
    /\ timer' = [timer EXCEPT ![r] = 0]
    /\ call' = [call EXCEPT ![r] = NoCall]

(* mgr.Start returns once the reconciles in progress have ended.            *)
Stop(r) == phase[r] \in {"stopping", "released"} /\ End(r)

(* Also what a signal does to a replica that has not acquired a shard.      *)
Crash(r) == phase[r] # "down" /\ End(r)

Restart(r) ==
    /\ phase[r] = "down"
    /\ phase' = [phase EXCEPT ![r] = "acquiring"]
    /\ UNCHANGED <<lease, shard, timer, call>>

-------------------------------------------------------------------------------
(* Time.                                                                    *)

(* How long a replica is in a phase, where no call of acquireLease bounds it*)
(* instead.  The response of a Delete may still be on its way when the Lease*)
(* is gone.                                                                 *)
Deadline(r) ==
    CASE phase[r] = "holding"   -> RenewalInterval
      [] phase[r] = "releasing" -> CallMax
      [] phase[r] = "stopping"  -> StopMax
      [] phase[r] = "released"  -> CallMax + StopMax
      [] OTHER                  -> 0

Timed(r) == phase[r] \in {"holding", "releasing", "stopping", "released"}

Tick ==
    /\ \A r \in Replicas :
          IF call[r].kind # "none" THEN call[r].age < CallMax
                                   ELSE Timed(r) => timer[r] < Deadline(r)
    /\ timer' = [r \in Replicas |-> IF Timed(r) THEN timer[r] + 1 ELSE timer[r]]
    /\ call' = [r \in Replicas |-> IF call[r].kind # "none"
                                     THEN [call[r] EXCEPT !.age = @ + 1] ELSE call[r]]
    /\ lease' = [i \in Shards |->
                    IF lease[i].holder # Nobody /\ lease[i].age < Expired
                      THEN [lease[i] EXCEPT !.age = @ + 1] ELSE lease[i]]
    /\ UNCHANGED <<phase, shard>>

-------------------------------------------------------------------------------

(* What a replica does when nothing goes wrong, and what goes wrong.        *)
Acts(r) ==
    \/ Get(r) \/ Read(r)
    \/ FindAbsent(r) \/ FindUsable(r) \/ FindHeld(r) \/ FindStale(r)
    \/ WriteOk(r) \/ WriteConflict(r) \/ ReleaseOk(r)
    \/ CancelledCall(r) \/ Stop(r) \/ Restart(r)

Fails(r) ==
    \/ FindErr(r) \/ WriteErr(r) \/ WriteLost(r) \/ ReleaseErr(r)
    \/ Signal(r) \/ Crash(r)

Next == Tick \/ \E r \in Replicas : Acts(r) \/ Fails(r)

Spec == Init /\ [][Next]_vars

Fault == \E r \in Replicas : Fails(r) /\ ~Acts(r)

(* Every replica that can act does, time passes, and failures stop.         *)
Fairness ==
    /\ WF_vars(Tick) /\ \A r \in Replicas : WF_vars(Acts(r))
    /\ <>[][~Fault]_vars

FairSpec == Spec /\ Fairness

-------------------------------------------------------------------------------

(* A replica that acquired a shard and has not given its lease back.        *)
Owns(r) == phase[r] \in {"holding", "releasing", "stopping"}

(* A replica whose controller may be reconciling its shard's AnsibleRuns.   *)
Works(r) == Owns(r) \/ phase[r] = "released"

(* No two replicas own the same shard: not while the calls of a renewal are *)
(* slow, not when one fails and the replica is still stopping, not when two *)
(* replicas take over the same expired lease, or one whose release was      *)
(* delayed.                                                                 *)
ExclusiveShard ==
    \A r, q \in Replicas : r # q /\ Owns(r) /\ Owns(q) => shard[r] # shard[q]

(* When failures stop, every shard has a replica, for good.                 *)
AllShardsServed == <>[](\A i \in Shards : \E r \in Replicas : Owns(r) /\ shard[r] = i)

===============================================================================
