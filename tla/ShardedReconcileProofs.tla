------------------------ MODULE ShardedReconcileProofs ------------------------
(***************************************************************************)
(* Proofs about ShardedReconcile, for any number of replicas and names and  *)
(* any hash.  What the filter and the leases do together follows from two   *)
(* facts: a replica keeps its shard as long as it works (KeepsShard), and   *)
(* owners have different shards (Exclusive).                                *)
(***************************************************************************)
EXTENDS ShardedReconcile, ShardLeaseProofs

(* A replica that works, or starts to, has the shard it had or acquired.    *)
Keeps(q) ==
    phase'[q] # "down" /\ (Works(q) \/ phase'[q] = "holding")
    => Works(q)' /\ shard'[q] = shard[q]

LEMMA FailedKeeps ==
    ASSUME TypeOK, NEW r \in Replicas, NEW calls, Failed(r, calls)
    PROVE  \A q \in Replicas : Keeps(q)
<1>1. phase \in [Replicas -> Phases] /\ shard \in [Replicas -> Shards]
  BY DEF TypeOK
<1>2. CASE phase[r] = "acquiring"
  <2>1. phase' = phase /\ \A q \in Replicas : q # r => shard'[q] = shard[q]
    BY <1>1, <1>2 DEF Failed
  <2> QED BY <1>2, <2>1 DEF Keeps, Works, Owns
<1>3. CASE phase[r] # "acquiring"
  <2>1. shard' = shard /\ phase' = [phase EXCEPT ![r] = "stopping"]
    BY <1>3 DEF Failed
  <2> QED BY <1>1, <2>1 DEF Keeps, Works, Owns
<1> QED BY <1>2, <1>3

LEMMA EndKeeps ==
    ASSUME TypeOK, NEW r \in Replicas, End(r)
    PROVE  \A q \in Replicas : Keeps(q)
<1>1. phase \in [Replicas -> Phases] /\ shard \in [Replicas -> Shards]
  BY DEF TypeOK
<1>2. /\ phase' = [phase EXCEPT ![r] = "down"]
      /\ shard' = [shard EXCEPT ![r] = 0]
  BY DEF End
<1> QED BY <1>1, <1>2 DEF Keeps, Works, Owns

(* A step of one replica that leaves all shards alone.                      *)
LEMMA MoveKeeps ==
    ASSUME TypeOK, NEW r \in Replicas, shard' = shard,
           NEW next \in {"holding", "releasing", "released", "stopping"},
           phase' = [phase EXCEPT ![r] = next]
    PROVE  \A q \in Replicas : Keeps(q)
<1>1. phase \in [Replicas -> Phases] BY DEF TypeOK
<1> QED BY <1>1 DEF Keeps, Works, Owns

LEMMA KeepsShard ==
    ASSUME TypeOK, [Next]_vars
    PROVE  \A q \in Replicas : Keeps(q)
<1>a. ASSUME phase' = phase, shard' = shard PROVE \A q \in Replicas : Keeps(q)
  BY <1>a DEF Keeps, Works, Owns
<1>1. ASSUME NEW r \in Replicas,
             Get(r) \/ Read(r) \/ FindAbsent(r) \/ FindUsable(r) \/ CancelledCall(r)
      PROVE  \A q \in Replicas : Keeps(q)
  BY <1>1, <1>a DEF Get, Read, FindAbsent, FindUsable, CancelledCall, Prepare, vars
<1>b. ASSUME NEW r \in Replicas, FindStale(r)
      PROVE  \A q \in Replicas : Keeps(q)
  BY <1>b, <1>a, FailedKeeps DEF FindStale, Prepare
<1>2. ASSUME NEW r \in Replicas,
             FindHeld(r) \/ FindErr(r) \/ WriteConflict(r) \/ WriteErr(r) \/ WriteLost(r)
      PROVE  \A q \in Replicas : Keeps(q)
  BY <1>2, FailedKeeps DEF FindHeld, FindErr, WriteConflict, WriteErr, WriteLost
<1>3. ASSUME NEW r \in Replicas, WriteOk(r) PROVE \A q \in Replicas : Keeps(q)
  BY <1>3, MoveKeeps DEF WriteOk, Acquired
<1>4. ASSUME NEW r \in Replicas, ReleaseOk(r) \/ ReleaseErr(r) \/ Signal(r)
      PROVE  \A q \in Replicas : Keeps(q)
  BY <1>4, MoveKeeps DEF ReleaseOk, ReleaseErr, Signal
<1>5. ASSUME NEW r \in Replicas, Stop(r) \/ Crash(r)
      PROVE  \A q \in Replicas : Keeps(q)
  BY <1>5, EndKeeps DEF Stop, Crash
<1>6. ASSUME NEW r \in Replicas, Restart(r) PROVE \A q \in Replicas : Keeps(q)
  <2>1. phase \in [Replicas -> Phases] BY DEF TypeOK
  <2>2. shard' = shard /\ phase' = [phase EXCEPT ![r] = "acquiring"] /\ phase[r] = "down"
    BY <1>6 DEF Restart
  <2> QED BY <2>1, <2>2 DEF Keeps, Works, Owns
<1>7. CASE Tick \/ UNCHANGED vars
  <2>1. phase' = phase /\ shard' = shard BY <1>7 DEF Tick, vars
  <2> QED BY <2>1 DEF Keeps, Works, Owns
<1> QED BY <1>1, <1>b, <1>2, <1>3, <1>4, <1>5, <1>6, <1>7 DEF Next, Acts, Fails

-------------------------------------------------------------------------------
(* The queue and the reconcile of one replica.                              *)
Filtered(r) ==
    \A n \in Names : n \in queue[r] \/ working[r].name = n
                     => Works(r) /\ isResourceForShard(r, n)

LEMMA TypesAgree ==
    NoReconcile \in Reconcile /\ \A n \in Names : n # Nobody
BY NameAssumption DEF NoReconcile, Reconcile

LEMMA LeaseStepFiltered ==
    ASSUME TypeOK, QueueOK, LeaseStep
    PROVE  QueueOK'
<1>1. /\ queue \in [Replicas -> SUBSET Names] /\ working \in [Replicas -> Reconcile]
      /\ pending' = pending /\ edits' = edits
      /\ pending \in [Names -> BOOLEAN] /\ edits \in 0..MaxEdits
  BY DEF QueueOK, LeaseStep
<1>2. ASSUME NEW r \in Replicas
      PROVE  /\ queue'[r] = CASE phase'[r] = "down" -> {}
                              [] phase[r] = "acquiring" /\ phase'[r] = "holding" -> InitialEvents(r)
                              [] OTHER -> queue[r]
             /\ working'[r] = IF phase'[r] = "down" THEN NoReconcile ELSE working[r]
  BY DEF LeaseStep
<1>3. queue' \in [Replicas -> SUBSET Names]
  <2>1. \A r \in Replicas : queue'[r] \subseteq Names
    BY <1>1, <1>2 DEF InitialEvents
  <2>2. queue' = [r \in Replicas |-> queue'[r]] BY DEF LeaseStep
  <2> QED BY <2>1, <2>2
<1>4. working' \in [Replicas -> Reconcile]
  BY <1>1, TypesAgree DEF LeaseStep
<1>5. ASSUME NEW r \in Replicas PROVE Filtered(r)'
  <2>1. Filtered(r) /\ Keeps(r)
    BY KeepsShard DEF QueueOK, Filtered, LeaseStep
  <2>2. CASE phase'[r] = "down"
    <3>1. queue'[r] = {} /\ working'[r].name = Nobody
      BY <1>2, <2>2 DEF NoReconcile
    <3> QED BY <3>1, TypesAgree DEF Filtered
  <2>3. CASE phase[r] = "acquiring" /\ phase'[r] = "holding"
    <3>1. Works(r)' /\ shard'[r] = shard[r]
      BY <2>1, <2>3 DEF Keeps
    <3>2. queue'[r] = InitialEvents(r) /\ working'[r] = working[r] /\ ~Works(r)
      BY <1>2, <2>3 DEF Works, Owns
    <3> QED BY <2>1, <3>1, <3>2 DEF Filtered, InitialEvents, isResourceForShard
  <2>4. CASE phase'[r] # "down" /\ ~(phase[r] = "acquiring" /\ phase'[r] = "holding")
    <3>1. queue'[r] = queue[r] /\ working'[r] = working[r]
      BY <1>2, <2>4
    <3>2. Works(r) => Works(r)' /\ shard'[r] = shard[r]
      BY <2>1, <2>4 DEF Keeps
    <3> QED BY <2>1, <3>1, <3>2 DEF Filtered, isResourceForShard
  <2> QED BY <2>2, <2>3, <2>4
<1> QED BY <1>1, <1>3, <1>4, <1>5 DEF QueueOK, Filtered

(* What the controllers do keeps to the protocol of the leases.             *)
LEMMA LeasesKept ==
    (ShardedInit => Init) /\ ([ShardedNext]_allVars => [Next]_vars)
BY DEF ShardedInit, ShardedNext, LeaseStep, Edit, Requeue, Begin, Finish, FinishErr,
       allVars, queueVars

(* A step of a work queue: no replica gains a name its filter rejects.      *)
LEMMA QueueStepFiltered ==
    ASSUME QueueOK, UNCHANGED vars,
           queue' \in [Replicas -> SUBSET Names], working' \in [Replicas -> Reconcile],
           pending' \in [Names -> BOOLEAN], edits' \in 0..MaxEdits,
           \A r \in Replicas, n \in Names :
              n \in queue'[r] \/ working'[r].name = n
              => \/ n \in queue[r] \/ working[r].name = n
                 \/ Works(r) /\ isResourceForShard(r, n)
    PROVE  QueueOK'
<1>1. \A r \in Replicas, n \in Names :
         (Works(r) /\ isResourceForShard(r, n))' = (Works(r) /\ isResourceForShard(r, n))
  BY DEF vars, Works, Owns, isResourceForShard
<1> QED BY <1>1 DEF QueueOK

(* The filter's part of the invariant, one step at a time.                  *)
LEMMA QueueStep == TypeOK /\ QueueOK /\ [ShardedNext]_allVars => QueueOK'
<1> SUFFICES ASSUME TypeOK, QueueOK, [ShardedNext]_allVars PROVE QueueOK'
  OBVIOUS
<1>0. /\ queue \in [Replicas -> SUBSET Names] /\ working \in [Replicas -> Reconcile]
      /\ pending \in [Names -> BOOLEAN] /\ edits \in 0..MaxEdits /\ MaxEdits \in Nat
  BY NameAssumption DEF QueueOK
<1>1. CASE LeaseStep BY <1>1, LeaseStepFiltered
<1>2. ASSUME NEW n \in Names, Edit(n) PROVE QueueOK'
  <2>1. edits' \in 0..MaxEdits /\ pending' \in [Names -> BOOLEAN]
    BY <1>0, <1>2 DEF Edit
  <2>2. /\ queue' \in [Replicas -> SUBSET Names]
        /\ \A r \in Replicas : queue'[r] = IF Works(r) /\ isResourceForShard(r, n)
                                             THEN queue[r] \cup {n} ELSE queue[r]
    BY <1>0, <1>2 DEF Edit
  <2>3. ASSUME NEW r \in Replicas
        PROVE  working'[r] \in Reconcile /\ working'[r].name = working[r].name
    <3>1. working[r] \in Reconcile /\ NoReconcile.name = Nobody /\ n # Nobody
      BY <1>0, TypesAgree DEF NoReconcile
    <3>2. working'[r] = IF working[r].name = n THEN [working[r] EXCEPT !.current = FALSE]
                                               ELSE working[r]
      BY <1>2 DEF Edit
    <3> QED BY <3>1, <3>2 DEF Reconcile
  <2>4. working' \in [Replicas -> Reconcile]
    <3>1. working' = [r \in Replicas |-> working'[r]] BY <1>2 DEF Edit
    <3> QED BY <3>1, <2>3
  <2> QED BY <1>2, <2>1, <2>2, <2>3, <2>4, QueueStepFiltered DEF Edit
<1>3. ASSUME NEW n \in Names, NEW r \in Replicas, Requeue(r, n) PROVE QueueOK'
  <2>1. /\ queue' = [queue EXCEPT ![r] = @ \cup {n}] /\ UNCHANGED <<vars, working, pending, edits>>
        /\ Works(r) /\ isResourceForShard(r, n)
    BY <1>3 DEF Requeue
  <2> QED BY <1>0, <2>1, QueueStepFiltered
<1>4. ASSUME NEW r \in Replicas, Begin(r) PROVE QueueOK'
  <2>1. PICK n \in queue[r] :
           /\ queue' = [queue EXCEPT ![r] = @ \ {n}]
           /\ working' = [working EXCEPT ![r] = [name |-> n, current |-> TRUE]]
    BY <1>4 DEF Begin
  <2>2. n \in Names /\ [name |-> n, current |-> TRUE] \in Reconcile
    BY <1>0 DEF Reconcile
  <2>3. queue' \in [Replicas -> SUBSET Names] /\ working' \in [Replicas -> Reconcile]
    BY <1>0, <2>1, <2>2
  <2>4. UNCHANGED <<vars, pending, edits>> BY <1>4 DEF Begin
  <2>5. \A q \in Replicas, m \in Names :
           m \in queue'[q] \/ working'[q].name = m => m \in queue[q] \/ working[q].name = m
    BY <1>0, <2>1
  <2> QED BY <1>0, <2>3, <2>4, <2>5, QueueStepFiltered
<1>5. ASSUME NEW r \in Replicas, Finish(r) PROVE QueueOK'
  <2>1. /\ working' = [working EXCEPT ![r] = NoReconcile] /\ UNCHANGED <<vars, queue, edits>>
        /\ pending' = [n \in Names |-> pending[n] /\ ~(working[r] = [name |-> n, current |-> TRUE])]
    BY <1>5 DEF Finish
  <2>2. pending' \in [Names -> BOOLEAN] /\ working' \in [Replicas -> Reconcile]
    BY <1>0, <2>1, TypesAgree
  <2>3. \A q \in Replicas, m \in Names : working'[q].name = m => working[q].name = m
    BY <1>0, <2>1, TypesAgree DEF NoReconcile
  <2> QED BY <1>0, <2>1, <2>2, <2>3, QueueStepFiltered
<1>6. ASSUME NEW r \in Replicas, FinishErr(r) PROVE QueueOK'
  <2>1. /\ working' = [working EXCEPT ![r] = NoReconcile] /\ UNCHANGED <<vars, pending, edits>>
        /\ queue' = [queue EXCEPT ![r] = @ \cup {working[r].name}]
        /\ working[r] # NoReconcile
    BY <1>6 DEF FinishErr
  <2>2. working[r].name \in Names
    BY <1>0, <2>1 DEF Reconcile
  <2>3. /\ queue' \in [Replicas -> SUBSET Names] /\ working' \in [Replicas -> Reconcile]
    BY <1>0, <2>1, <2>2, TypesAgree
  <2>4. \A q \in Replicas, m \in Names :
           m \in queue'[q] \/ working'[q].name = m => m \in queue[q] \/ working[q].name = m
    BY <1>0, <2>1, TypesAgree DEF NoReconcile
  <2> QED BY <1>0, <2>1, <2>3, <2>4, QueueStepFiltered
<1>7. CASE UNCHANGED allVars
  BY <1>7 DEF allVars, queueVars, vars, QueueOK, Works, Owns, isResourceForShard
<1> QED BY <1>1, <1>2, <1>3, <1>4, <1>5, <1>6, <1>7 DEF ShardedNext

(* A replica's queue and its reconcile hold names of its own shard only.    *)
THEOREM QueuesFiltered == ShardedSpec => []QueueOK
<1>1. ShardedInit => QueueOK
  BY NameAssumption DEF ShardedInit, QueueOK, NoReconcile, Reconcile
<1>2. ShardedSpec => Spec
  BY PTL, LeasesKept DEF ShardedSpec, Spec
<1>3. ShardedSpec => []TypeOK
  BY <1>2, TypeCorrect, PTL
<1> QED BY <1>1, <1>3, QueueStep, PTL DEF ShardedSpec

-------------------------------------------------------------------------------
(* A replica comes to work on a shard only by acquiring it.                 *)
Acquires(q) == phase[q] = "acquiring" /\ phase'[q] = "holding"

LEMMA MoveAcquires ==
    ASSUME TypeOK, NEW r \in Replicas, NEW next \in Phases,
           phase' = [phase EXCEPT ![r] = next],
           Works(r) \/ next \in {"down", "acquiring"}
                    \/ (phase[r] = "acquiring" /\ next = "holding")
    PROVE  \A q \in Replicas : Works(q)' => Works(q) \/ Acquires(q)
<1>1. phase \in [Replicas -> Phases] BY DEF TypeOK
<1> QED BY <1>1 DEF Works, Owns, Acquires

LEMMA FailedAcquires ==
    ASSUME TypeOK, NEW r \in Replicas, NEW calls, Failed(r, calls),
           phase[r] \in {"acquiring", "holding"}
    PROVE  \A q \in Replicas : Works(q)' => Works(q) \/ Acquires(q)
<1>1. CASE phase[r] = "acquiring"
  <2>1. phase' = phase
    BY <1>1 DEF Failed
  <2> QED BY <2>1 DEF Works, Owns
<1>2. CASE phase[r] = "holding"
  <2>1. phase' = [phase EXCEPT ![r] = "stopping"] /\ Works(r)
    BY <1>2 DEF Failed, Works, Owns
  <2> QED BY <2>1, MoveAcquires DEF Phases
<1> QED BY <1>1, <1>2

LEMMA WorksByAcquiring ==
    ASSUME LeaseInv, [Next]_vars
    PROVE  \A q \in Replicas : Works(q)' => Works(q) \/ Acquires(q)
<1>1. TypeOK
  BY DEF LeaseInv
<1>2. ASSUME NEW r \in Replicas, call[r].kind # "none"
      PROVE  phase[r] \in {"acquiring", "holding"}
  BY <1>2 DEF LeaseInv, Deadlines, InTime
<1>a. ASSUME phase' = phase
      PROVE  \A q \in Replicas : Works(q)' => Works(q) \/ Acquires(q)
  BY <1>a DEF Works, Owns
<1>3. ASSUME NEW r \in Replicas,
             Get(r) \/ Read(r) \/ FindAbsent(r) \/ FindUsable(r) \/ CancelledCall(r)
      PROVE  \A q \in Replicas : Works(q)' => Works(q) \/ Acquires(q)
  BY <1>3, <1>a DEF Get, Read, FindAbsent, FindUsable, CancelledCall, Prepare, vars
<1>4. ASSUME NEW r \in Replicas, FindHeld(r) \/ FindErr(r) \/ FindStale(r)
      PROVE  \A q \in Replicas : Works(q)' => Works(q) \/ Acquires(q)
  <2>1. call[r].kind \in {"get", "read"} /\ phase[r] \in {"acquiring", "holding"}
    BY <1>2, <1>4 DEF FindHeld, FindErr, FindStale, FindsCurrent, Reads
  <2>2. Failed(r, call) \/ phase' = phase
    BY <1>4 DEF FindHeld, FindErr, FindStale, Prepare
  <2> QED BY <1>1, <1>a, <2>1, <2>2, FailedAcquires
<1>5. ASSUME NEW r \in Replicas, WriteConflict(r) \/ WriteErr(r) \/ WriteLost(r)
      PROVE  \A q \in Replicas : Works(q)' => Works(q) \/ Acquires(q)
  BY <1>1, <1>2, <1>5, FailedAcquires
     DEF WriteConflict, WriteErr, WriteLost, WriteLands, Accepted, Writes
<1>6. ASSUME NEW r \in Replicas, WriteOk(r)
      PROVE  \A q \in Replicas : Works(q)' => Works(q) \/ Acquires(q)
  <2>1. phase[r] \in {"acquiring", "holding"}
    BY <1>2, <1>6 DEF WriteOk, WriteLands, Accepted
  <2>2. phase' = [phase EXCEPT ![r] = "holding"]
    BY <1>6 DEF WriteOk, Acquired
  <2> QED BY <1>1, <2>1, <2>2, MoveAcquires DEF Phases, Works, Owns
<1>7. ASSUME NEW r \in Replicas, Signal(r) \/ ReleaseOk(r) \/ ReleaseErr(r)
      PROVE  \A q \in Replicas : Works(q)' => Works(q) \/ Acquires(q)
  <2>1. Works(r)
    BY <1>7 DEF Signal, ReleaseOk, ReleaseErr, Works, Owns
  <2> QED BY <1>1, <1>7, <2>1, MoveAcquires DEF Signal, ReleaseOk, ReleaseErr, Phases
<1>8. ASSUME NEW r \in Replicas, Stop(r) \/ Crash(r) \/ Restart(r)
      PROVE  \A q \in Replicas : Works(q)' => Works(q) \/ Acquires(q)
  BY <1>1, <1>8, MoveAcquires DEF Stop, Crash, End, Restart, Phases
<1>9. CASE Tick \/ UNCHANGED vars
  BY <1>9 DEF Tick, vars, Works, Owns
<1> QED BY <1>3, <1>4, <1>5, <1>6, <1>7, <1>8, <1>9 DEF Next, Acts, Fails

LEMMA LeaseStepQueued ==
    ASSUME LeaseInv, QueueOK, EditsQueued, LeaseStep
    PROVE  EditsQueued'
<1> SUFFICES ASSUME NEW r \in Replicas, NEW n \in Names,
                    pending[n], Works(r)', isResourceForShard(r, n)'
             PROVE  n \in queue'[r] \/ working'[r] = [name |-> n, current |-> TRUE]
  BY DEF EditsQueued, LeaseStep
<1>1. /\ queue'[r] = CASE phase'[r] = "down" -> {}
                       [] phase[r] = "acquiring" /\ phase'[r] = "holding" -> InitialEvents(r)
                       [] OTHER -> queue[r]
      /\ working'[r] = IF phase'[r] = "down" THEN NoReconcile ELSE working[r]
  BY DEF LeaseStep
<1>2. phase'[r] # "down"
  BY DEF Works, Owns
<1>3. Works(r) \/ Acquires(r)
  BY WorksByAcquiring DEF LeaseStep
<1>4. shard'[r] = shard[r]
  BY <1>2, <1>3, KeepsShard DEF Keeps, Acquires, LeaseStep, LeaseInv
<1>5. isResourceForShard(r, n)
  BY <1>4 DEF isResourceForShard
<1>6. CASE Acquires(r)
  BY <1>1, <1>2, <1>5, <1>6 DEF Acquires, InitialEvents
<1>7. CASE ~Acquires(r)
  <2>1. queue'[r] = queue[r] /\ working'[r] = working[r]
    BY <1>1, <1>2, <1>7 DEF Acquires
  <2> QED BY <1>3, <1>5, <1>7, <2>1 DEF EditsQueued
<1> QED BY <1>6, <1>7

LEMMA EditsStep == LeaseInv /\ QueueOK /\ EditsQueued /\ [ShardedNext]_allVars => EditsQueued'
<1> SUFFICES ASSUME LeaseInv, QueueOK, EditsQueued, [ShardedNext]_allVars PROVE EditsQueued'
  OBVIOUS
<1>a. /\ queue \in [Replicas -> SUBSET Names] /\ working \in [Replicas -> Reconcile]
      /\ pending \in [Names -> BOOLEAN]
  BY DEF QueueOK
<1>b. UNCHANGED vars => \A r \in Replicas, n \in Names :
         /\ Works(r)' <=> Works(r)
         /\ isResourceForShard(r, n)' <=> isResourceForShard(r, n)
  BY DEF vars, Works, Owns, isResourceForShard
<1>1. CASE LeaseStep
  BY <1>1, LeaseStepQueued
<1>2. ASSUME NEW m \in Names, Edit(m) PROVE EditsQueued'
  <2> SUFFICES ASSUME NEW r \in Replicas, NEW n \in Names,
                      pending'[n], Works(r), isResourceForShard(r, n)
               PROVE  n \in queue'[r] \/ working'[r] = [name |-> n, current |-> TRUE]
    BY <1>b, <1>2 DEF EditsQueued, Edit
  <2>1. /\ queue'[r] = IF Works(r) /\ isResourceForShard(r, m) THEN queue[r] \cup {m} ELSE queue[r]
        /\ working'[r] = IF working[r].name = m THEN [working[r] EXCEPT !.current = FALSE]
                                                ELSE working[r]
        /\ n # m => pending'[n] = pending[n]
    BY <1>a, <1>2 DEF Edit
  <2>2. CASE n = m
    BY <2>1, <2>2
  <2>3. CASE n # m
    <3>1. n \in queue[r] \/ working[r] = [name |-> n, current |-> TRUE]
      BY <2>1, <2>3 DEF EditsQueued
    <3> QED BY <2>1, <2>3, <3>1
  <2> QED BY <2>2, <2>3
<1>3. ASSUME NEW m \in Names, NEW q \in Replicas, Requeue(q, m) PROVE EditsQueued'
  <2>1. \A r \in Replicas : queue[r] \subseteq queue'[r]
    BY <1>a, <1>3 DEF Requeue
  <2> QED BY <1>b, <1>3, <2>1 DEF Requeue, EditsQueued
<1>4. ASSUME NEW q \in Replicas, Begin(q) PROVE EditsQueued'
  <2>1. PICK m \in queue[q] :
           /\ queue' = [queue EXCEPT ![q] = @ \ {m}]
           /\ working' = [working EXCEPT ![q] = [name |-> m, current |-> TRUE]]
    BY <1>4 DEF Begin
  <2> SUFFICES ASSUME NEW r \in Replicas, NEW n \in Names,
                      pending[n], Works(r), isResourceForShard(r, n)
               PROVE  n \in queue'[r] \/ working'[r] = [name |-> n, current |-> TRUE]
    BY <1>b, <1>4 DEF EditsQueued, Begin
  <2>2. n \in queue[r] \/ working[r] = [name |-> n, current |-> TRUE]
    BY DEF EditsQueued
  <2>3. CASE r = q
    <3>1. n \in queue[r]
      BY <1>4, <2>2, <2>3, TypesAgree DEF Begin, NoReconcile
    <3>2. queue'[r] = queue[r] \ {m} /\ working'[r] = [name |-> m, current |-> TRUE]
      BY <1>a, <2>1, <2>3
    <3> QED BY <3>1, <3>2
  <2>4. CASE r # q
    BY <1>a, <2>1, <2>2, <2>4
  <2> QED BY <2>3, <2>4
<1>5. ASSUME NEW q \in Replicas, Finish(q) PROVE EditsQueued'
  <2> SUFFICES ASSUME NEW r \in Replicas, NEW n \in Names,
                      pending'[n], Works(r), isResourceForShard(r, n)
               PROVE  n \in queue'[r] \/ working'[r] = [name |-> n, current |-> TRUE]
    BY <1>b, <1>5 DEF EditsQueued, Finish
  <2>1. pending[n] /\ working[q] # [name |-> n, current |-> TRUE]
    BY <1>a, <1>5 DEF Finish
  <2>2. n \in queue[r] \/ working[r] = [name |-> n, current |-> TRUE]
    BY <2>1 DEF EditsQueued
  <2>3. queue' = queue /\ (r # q => working'[r] = working[r])
    BY <1>a, <1>5 DEF Finish
  <2> QED BY <2>1, <2>2, <2>3
<1>6. ASSUME NEW q \in Replicas, FinishErr(q) PROVE EditsQueued'
  <2> SUFFICES ASSUME NEW r \in Replicas, NEW n \in Names,
                      pending[n], Works(r), isResourceForShard(r, n)
               PROVE  n \in queue'[r] \/ working'[r] = [name |-> n, current |-> TRUE]
    BY <1>b, <1>6 DEF EditsQueued, FinishErr
  <2>1. n \in queue[r] \/ working[r] = [name |-> n, current |-> TRUE]
    BY DEF EditsQueued
  <2>2. /\ queue'[r] = IF r = q THEN queue[r] \cup {working[r].name} ELSE queue[r]
        /\ r # q => working'[r] = working[r]
    BY <1>a, <1>6 DEF FinishErr
  <2> QED BY <2>1, <2>2
<1>7. CASE UNCHANGED allVars
  BY <1>7, <1>b DEF allVars, queueVars, EditsQueued
<1> QED BY <1>1, <1>2, <1>3, <1>4, <1>5, <1>6, <1>7 DEF ShardedNext

(* No edit falls between two replicas: at any time a replica that works on  *)
(* the shard has the edited name queued, or is at a reconcile that has read *)
(* the edit, whatever became of the leases and of earlier reconciles.       *)
THEOREM EditsStayQueued == ShardedSpec => []EditsQueued
<1>1. ShardedInit => EditsQueued
  BY DEF ShardedInit, EditsQueued
<1>2. ShardedSpec => Spec
  BY PTL, LeasesKept DEF ShardedSpec, Spec
<1>3. ShardedSpec => []LeaseInv
  BY <1>2, LeaseInvariant, PTL
<1> QED BY <1>1, <1>3, QueuesFiltered, EditsStep, PTL DEF ShardedSpec

-------------------------------------------------------------------------------
SameCount == \A r, q \in Replicas : ReplicasCount[r] = ReplicasCount[q]

(* Replicas with the same --replicas flag never reconcile one AnsibleRun at *)
(* the same time while they own a shard, for any durations that respect     *)
(* TimingAssumption.  A rollout that changes the flag has no such theorem.  *)
THEOREM OneAtATime == SameCount => (ShardedSpec => []OneReconciler)
<1> SUFFICES ASSUME SameCount PROVE ShardedSpec => []OneReconciler
  OBVIOUS
<1>1. QueueOK /\ ExclusiveShard => OneReconciler
  <2> SUFFICES ASSUME QueueOK, ExclusiveShard, NEW r \in Replicas, NEW q \in Replicas,
                      r # q, Owns(r), Owns(q), working[r].name = working[q].name,
                      working[r] # NoReconcile
               PROVE  FALSE
    BY DEF OneReconciler
  <2>1. working[r].name \in Names
    BY DEF QueueOK, Reconcile
  <2>2. isResourceForShard(r, working[r].name) /\ isResourceForShard(q, working[r].name)
    BY <2>1 DEF QueueOK
  <2>3. shard[r] = shard[q]
    BY <2>2 DEF isResourceForShard, SameCount
  <2> QED BY <2>3 DEF ExclusiveShard
<1>2. ShardedSpec => Spec
  BY PTL, LeasesKept DEF ShardedSpec, Spec
<1> QED BY <1>1, <1>2, QueuesFiltered, Exclusive, PTL

===============================================================================
