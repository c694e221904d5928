--------------------------- MODULE ShardedReconcile ---------------------------
(***************************************************************************)
(* What a replica does with the shard it has acquired: it reconciles the    *)
(* AnsibleRuns whose name hashes to the shard, and no other.  Its event     *)
(* filter takes the hash modulo its own --replicas flag, which differs      *)
(* between the replicas of a rollout that changes the flag.                 *)
(***************************************************************************)
EXTENDS ShardLeaseTimely

CONSTANTS
    Names,     \* names of AnsibleRuns
    Hash,      \* hashString: FNV-1a of a name, 32 bits
    MaxEdits   \* bound: how often users edit AnsibleRuns

ASSUME NameAssumption ==
    /\ Hash \in [Names -> Nat]
    /\ Nobody \notin Names
    /\ MaxEdits \in Nat

VARIABLES
    queue,     \* per replica, the names in its work queue or on their way there
    working,   \* per replica, the reconcile in progress
    pending,   \* per name, whether an edit waits for a reconcile that has read it
    edits      \* how often users have edited

queueVars == <<queue, working, pending, edits>>
allVars   == <<vars, queueVars>>

(* current: the reconcile has read the last edit of the AnsibleRun.         *)
NoReconcile == [name |-> Nobody, current |-> FALSE]
Reconcile == [name : Names, current : BOOLEAN] \cup {NoReconcile}

ShardedInit ==
    /\ Init
    /\ queue = [r \in Replicas |-> {}]
    /\ working = [r \in Replicas |-> NoReconcile]
    /\ pending = [n \in Names |-> FALSE]
    /\ edits = 0

-------------------------------------------------------------------------------
(* Mutant: the hash itself is compared with the shard.                      *)
isResourceForShardNoModulo(r, n) == Hash[n] = shard[r]

(* Mutant: a shard also accepts the names of the shards below it.           *)
isResourceForShardUpTo(r, n) == Hash[n] % ReplicasCount[r] <= shard[r]

isResourceForShard(r, n) == Hash[n] % ReplicasCount[r] = shard[r]

(* Mutant: the filter is left out for what is there when a replica starts.  *)
InitialEventsUnfiltered(r) == Names

(* Mutant: the filter has no CreateFunc that lets anything through.         *)
InitialEventsDropped(r) == {}

(* When a controller starts, its informer lists all AnsibleRuns, and each is*)
(* an event that the filter accepts or drops.                               *)
InitialEvents(r) == {n \in Names : isResourceForShard(r, n)}

(* Setup builds the controller once it has the shard; a process that ends   *)
(* takes its work queue along.                                              *)
LeaseStep ==
    /\ Next
    /\ queue' = [r \in Replicas |->
                    CASE phase'[r] = "down" -> {}
                      [] phase[r] = "acquiring" /\ phase'[r] = "holding" -> InitialEvents(r)
                      [] OTHER -> queue[r]]
    /\ working' = [r \in Replicas |-> IF phase'[r] = "down" THEN NoReconcile
                                                            ELSE working[r]]
    /\ UNCHANGED <<pending, edits>>

(* A user's edit is an event for every replica that runs a controller.      *)
Edit(n) ==
    /\ edits < MaxEdits
    /\ edits' = edits + 1
    /\ pending' = [pending EXCEPT ![n] = TRUE]
    /\ queue' = [r \in Replicas |-> IF Works(r) /\ isResourceForShard(r, n)
                                      THEN queue[r] \cup {n} ELSE queue[r]]
    /\ working' = [r \in Replicas |-> IF working[r].name = n
                                        THEN [working[r] EXCEPT !.current = FALSE]
                                        ELSE working[r]]
    /\ UNCHANGED vars

(* The poll interval and the informer's resync queue names again.           *)
Requeue(r, n) ==
    /\ Works(r)
    /\ isResourceForShard(r, n)
    /\ queue' = [queue EXCEPT ![r] = @ \cup {n}]
    /\ UNCHANGED <<vars, working, pending, edits>>

(* A replica that stops still works through what is in its queue.           *)
Begin(r) ==
    /\ Works(r)
    /\ working[r] = NoReconcile
    /\ \E n \in queue[r] :
          /\ queue' = [queue EXCEPT ![r] = @ \ {n}]
          /\ working' = [working EXCEPT ![r] = [name |-> n, current |-> TRUE]]
    /\ UNCHANGED <<vars, pending, edits>>

Finish(r) ==
    /\ working[r] # NoReconcile
    /\ pending' = [n \in Names |-> pending[n] /\ ~(working[r] = [name |-> n, current |-> TRUE])]
    /\ working' = [working EXCEPT ![r] = NoReconcile]
    /\ UNCHANGED <<vars, queue, edits>>

(* A reconcile that returns an error is queued again.                       *)
FinishErr(r) ==
    /\ working[r] # NoReconcile
    /\ queue' = [queue EXCEPT ![r] = @ \cup {working[r].name}]
    /\ working' = [working EXCEPT ![r] = NoReconcile]
    /\ UNCHANGED <<vars, pending, edits>>

ShardedNext ==
    \/ LeaseStep
    \/ \E n \in Names : Edit(n) \/ \E r \in Replicas : Requeue(r, n)
    \/ \E r \in Replicas : Begin(r) \/ Finish(r) \/ FinishErr(r)

ShardedSpec == ShardedInit /\ [][ShardedNext]_allVars

(* The leases are kept and failures of theirs stop, and a controller works  *)
(* its queue off; in the end reconciles no longer fail.                     *)
ShardedFairSpec ==
    /\ ShardedSpec
    /\ Fairness
    /\ \A r \in Replicas : WF_allVars(Begin(r)) /\ WF_allVars(Finish(r))
    /\ <>[][\A r \in Replicas : ~FinishErr(r)]_allVars

-------------------------------------------------------------------------------

(* Types, and: a replica has queued and reconciles names of its own shard   *)
(* only, whatever has become of its lease since.                            *)
QueueOK ==
    /\ queue \in [Replicas -> SUBSET Names]
    /\ working \in [Replicas -> Reconcile]
    /\ pending \in [Names -> BOOLEAN]
    /\ edits \in 0..MaxEdits
    /\ \A r \in Replicas, n \in Names :
          n \in queue[r] \/ working[r].name = n
          => Works(r) /\ isResourceForShard(r, n)

(* No edit falls between two replicas: whoever works on the shard of an     *)
(* edited AnsibleRun has its name queued, by the event, the list at the     *)
(* start or a failed reconcile, or is at a reconcile that has read the edit.*)
EditsQueued ==
    \A r \in Replicas, n \in Names :
        pending[n] /\ Works(r) /\ isResourceForShard(r, n)
        => n \in queue[r] \/ working[r] = [name |-> n, current |-> TRUE]

(* An AnsibleRun is not reconciled by two owners of shards at once, which   *)
(* takes the leases and the filters of both replicas.                       *)
OneReconciler ==
    \A r, q \in Replicas :
        r # q /\ Owns(r) /\ Owns(q) /\ working[r].name = working[q].name
        => working[r] = NoReconcile

(* No edit is lost when a shard passes from one replica to another: a       *)
(* reconcile that has read it ends well, on whatever replica.               *)
EditsReconciled == \A n \in Names : pending[n] ~> ~pending[n]

===============================================================================
