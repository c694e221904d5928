------------------------------ MODULE AnsibleRun ------------------------------
(***************************************************************************)
(* The life of one AnsibleRun: the managed reconciler of crossplane-runtime *)
(* calls the provider's ExternalClient, a user edits and deletes the object *)
(* meanwhile, the informer cache lags behind the API server, calls fail,    *)
(* and the provider crashes and restarts.  The reconciler and the API       *)
(* server are not part of this repository; they are modelled from how the   *)
(* controller's Setup and methods use them.                                 *)
(***************************************************************************)
EXTENDS ExternalClient, Naturals

CONSTANTS
    UserOps,      \* what users do after creating the AnsibleRun
    MaxOps,       \* how many times they do it
    MaxCrashes,   \* how many times the provider crashes
    MaxDrifts     \* how many times another hand changes the target system

ASSUME BoundAssumption ==
    /\ UserOps \subseteq {"edit", "touch", "apply", "runPolicy",
                          "deletionPolicy", "delete", "create"}
    /\ MaxOps \in Nat /\ MaxCrashes \in Nat /\ MaxDrifts \in Nat

VARIABLES ops, crashes, drifts   \* how often each has happened

boundVars == <<ops, crashes, drifts>>
vars == <<clientVars, boundVars>>

(* Types: what the client builds and writes is well formed; the runner has a *)
(* policy Init supports.                                                    *)
TypeOK ==
    /\ obj \in Resource /\ cache \in Resource /\ cr \in Resource
    /\ cacheFresh \in BOOLEAN /\ fresh \in BOOLEAN
    /\ pc \in Steps
    /\ shouldDelete \in BOOLEAN
    /\ observation \in Observations
    /\ runner \in Runner
    /\ runErr \in BOOLEAN
    /\ applied \in Params \cup {None, Absent, Partial}
    /\ drift \in BOOLEAN
    /\ owed \in BOOLEAN
    /\ ops \in 0..MaxOps /\ crashes \in 0..MaxCrashes /\ drifts \in 0..MaxDrifts

Init ==
    /\ \E spec \in Params, runPolicy \in RunPolicies, lastApplied \in {None, Foreign} :
          obj = NewResource(spec, runPolicy, lastApplied)
    /\ cache = NoResource
    /\ cacheFresh = FALSE
    /\ cr = NoResource
    /\ fresh = FALSE
    /\ pc = "idle"
    /\ shouldDelete = FALSE
    /\ observation = "none"
    /\ runner = NoRunner
    /\ runErr = FALSE
    /\ applied = Absent
    /\ drift = FALSE
    /\ owed = FALSE
    /\ ops = 0 /\ crashes = 0 /\ drifts = 0

-------------------------------------------------------------------------------
(* The managed reconciler.                                                  *)

EndReconcile(next) ==
    /\ pc' = next
    /\ cr' = NoResource
    /\ fresh' = FALSE
    /\ shouldDelete' = FALSE
    /\ observation' = "none"
    /\ runner' = NoRunner
    /\ runErr' = FALSE

(* The deletion policy that counts is the one read here, before Observe.    *)
StartReconcile ==
    /\ pc = "idle"
    /\ cache.exists
    /\ cr' = cache
    /\ fresh' = cacheFresh
    /\ shouldDelete' = (cache.deletionPolicy # "Orphan")
    /\ pc' = IF cache.deleting /\ cache.deletionPolicy = "Orphan"
               THEN "unfinalize" ELSE "connect"
    /\ UNCHANGED <<apiVars, targetVars, observation, runner, runErr, boundVars>>

AfterObserve ==
    /\ pc = "observed"
    /\ pc' = IF ~cr.deleting THEN "finalizer"
             ELSE IF shouldDelete /\ observation # "missing" THEN "delete"
             ELSE "unfinalize"
    /\ UNCHANGED <<apiVars, copyVars, runVars, targetVars, boundVars>>

(* Nothing is modelled of what follows "create", which CreateNeverRuns says  *)
(* is never reached.                                                        *)
AfterFinalizer ==
    pc' = CASE observation = "missing"  -> "create"
            [] observation = "outdated" -> "update"
            [] OTHER                    -> "success"

Finalized == Updated(obj, [cr EXCEPT !.finalizer = TRUE])

(* AddFinalizer writes the whole copy, unless it has the finalizer.         *)
AddFinalizerOk ==
    /\ pc = "finalizer"
    /\ IF cr.finalizer THEN UNCHANGED <<apiVars, copyVars>>
                       ELSE WriteOk(Finalized)
    /\ AfterFinalizer
    /\ UNCHANGED <<runVars, targetVars, boundVars>>

AddFinalizerErr ==
    /\ pc = "finalizer"
    /\ ~cr.finalizer
    /\ WriteErr(Finalized)
    /\ pc' = "report"
    /\ UNCHANGED <<runVars, targetVars, boundVars>>

Unfinalized ==
    IF obj.deleting THEN NoResource
                    ELSE Updated(obj, [cr EXCEPT !.finalizer = FALSE])

(* The API server removes the object with its last finalizer.               *)
RemoveFinalizerOk ==
    /\ pc = "unfinalize"
    /\ IF cr.finalizer THEN Land(Unfinalized) ELSE UNCHANGED apiVars
    /\ EndReconcile("idle")
    /\ UNCHANGED <<targetVars, boundVars>>

RemoveFinalizerErr ==
    /\ pc = "unfinalize"
    /\ cr.finalizer
    /\ WriteErr(Unfinalized)
    /\ pc' = "report"
    /\ UNCHANGED <<runVars, targetVars, boundVars>>

(* The last write of a reconcile, of its outcome in the condition Synced.   *)
Reported(synced) == StatusUpdated(obj, [cr EXCEPT !.synced = synced])

ReportSuccess ==
    /\ pc = "success"
    /\ Land(Reported("True"))
    /\ EndReconcile("idle")
    /\ UNCHANGED <<targetVars, boundVars>>

ReportError ==
    /\ pc = "report"
    /\ Land(Reported("False"))
    /\ owed' = FALSE
    /\ EndReconcile("idle")
    /\ UNCHANGED <<applied, drift, boundVars>>

(* That write fails; the reconcile ends all the same.                       *)
ReportLost ==
    /\ pc \in {"success", "report"}
    /\ EndReconcile("idle")
    /\ UNCHANGED <<apiVars, targetVars, boundVars>>

-------------------------------------------------------------------------------
(* The environment.                                                         *)

SyncCache ==
    /\ ~cacheFresh
    /\ cache' = obj
    /\ cacheFresh' = TRUE
    /\ UNCHANGED <<obj, copyVars, pc, runVars, targetVars, boundVars>>

(* A crash kills the ansible run of the process.  The restarted process may *)
(* list the object from a cache of the API server that lags, so it is       *)
(* given what the crashed one had read.                                     *)
Crash ==
    /\ pc # "down"
    /\ crashes < MaxCrashes
    /\ crashes' = crashes + 1
    /\ IF pc \in {"running", "destroying"} THEN FailedRunLeaves
                                           ELSE UNCHANGED <<applied, drift>>
    /\ EndReconcile("down")
    /\ UNCHANGED <<apiVars, owed, ops, drifts>>

Restart ==
    /\ pc = "down"
    /\ pc' = "idle"
    /\ UNCHANGED <<apiVars, copyVars, runVars, targetVars, boundVars>>

(* A user's write; the API server gives the object a new resourceVersion.   *)
UserWrite(op, new) ==
    /\ op \in UserOps
    /\ ops < MaxOps
    /\ ops' = ops + 1
    /\ obj' = new
    /\ cacheFresh' = FALSE
    /\ fresh' = FALSE
    /\ UNCHANGED <<cache, cr, pc, runVars, applied, drift, crashes, drifts>>

Edit ==
    /\ obj.exists
    /\ \E spec \in Params \ {obj.spec} :
          UserWrite("edit", [obj EXCEPT !.spec = spec])
    /\ UNCHANGED owed

(* A label, say: nothing the controller reads.                              *)
Touch == obj.exists /\ UserWrite("touch", obj) /\ UNCHANGED owed

(* kubectl apply overwrites the annotation the controller compares with.    *)
Apply ==
    /\ obj.exists
    /\ \E spec \in Params :
          UserWrite("apply", [obj EXCEPT !.spec = spec, !.lastApplied = Foreign])
    /\ UNCHANGED owed

(* One edit may change the spec as well.                                    *)
SwitchRunPolicy ==
    /\ obj.exists
    /\ \E spec \in Params, runPolicy \in RunPolicies \ {obj.runPolicy} :
          UserWrite("runPolicy", [obj EXCEPT !.runPolicy = runPolicy, !.spec = spec])
    /\ UNCHANGED owed

ResetDeletionPolicy ==
    /\ obj.exists
    /\ obj.deletionPolicy # "Delete"
    /\ UserWrite("deletionPolicy", [obj EXCEPT !.deletionPolicy = "Delete"])
    /\ UNCHANGED owed

UserDelete ==
    /\ obj.exists
    /\ ~obj.deleting
    /\ UserWrite("delete", IF obj.finalizer THEN [obj EXCEPT !.deleting = TRUE]
                                            ELSE NoResource)
    /\ UNCHANGED owed

(* A new object of the same name, once the old one is gone.                 *)
UserCreate ==
    /\ ~obj.exists
    /\ \E spec \in Params, runPolicy \in RunPolicies, lastApplied \in {None, Foreign} :
          UserWrite("create", NewResource(spec, runPolicy, lastApplied))
    /\ owed' = FALSE

(* Another hand changes what a run has put on the target system.            *)
Drift ==
    /\ applied \in Params
    /\ drifts < MaxDrifts
    /\ drifts' = drifts + 1
    /\ drift' = TRUE
    /\ UNCHANGED <<apiVars, copyVars, pc, runVars, applied, owed, ops, crashes>>

-------------------------------------------------------------------------------

ReconcileOk ==
    \/ StartReconcile \/ AfterObserve \/ AddFinalizerOk \/ RemoveFinalizerOk
    \/ ReportSuccess \/ ReportError
    \/ ClientOk /\ UNCHANGED boundVars

ReconcileErr ==
    \/ AddFinalizerErr \/ RemoveFinalizerErr \/ ReportLost
    \/ ClientErr /\ UNCHANGED boundVars

User ==
    \/ Edit \/ Touch \/ Apply \/ SwitchRunPolicy \/ ResetDeletionPolicy
    \/ UserDelete \/ UserCreate

Next == ReconcileOk \/ ReconcileErr \/ SyncCache \/ Crash \/ Restart \/ User \/ Drift

Spec == Init /\ [][Next]_vars

(* The work queue always requeues an object (on error, on a watch event, on *)
(* the poll interval), the watch delivers, and the pod is restarted.        *)
Fairness == WF_vars(ReconcileOk \/ ReconcileErr) /\ WF_vars(SyncCache) /\ WF_vars(Restart)

(* A failure that is not the answer to a stale copy or to an invalid spec   *)
(* and that shows: losing a write that changes nothing is no failure.       *)
Fault ==
    /\ ReconcileErr /\ ~ReconcileOk
    /\ pc \in {"skip", "annotate", "record", "finalizer", "success", "report",
               "unfinalize"} => fresh
    /\ pc = "connect" => InitAccepts(cr)

(* Calls and ansible runs stop failing at some time.                        *)
FairSpec == Spec /\ Fairness /\ <>[][~Fault]_vars

-------------------------------------------------------------------------------
(* Safety.                                                                  *)

(* A reconcile reports success (Synced) for a live AnsibleRun only when the *)
(* content of the spec it reports on is what the last run left on the       *)
(* target system, or when an earlier run of that spec was lost after its    *)
(* annotation had been written: whatever edits, deletions, conflicts, lost  *)
(* responses, failed runs and crashes come between handleLastApplied's or   *)
(* Update's run and the reconciler's last status write.                     *)
SuccessMeansApplied ==
    [][ReportSuccess /\ ~cr.deleting => applied = obj.spec \/ owed]_vars

(* While Observe runs ansible, the server's annotation names the parameters *)
(* being run, unless the object was written since: handleLastApplied writes *)
(* the annotation, and sees the write accepted, before it runs anything.    *)
AnnotatedBeforeRun ==
    pc = "running" /\ observation = "none" /\ fresh =>
        /\ obj.lastApplied = runner.content
        /\ obj.spec = runner.content

(* Create is never called: an object that the cache no longer has was never *)
(* seen with the finalizer by a reconcile that did not see it being deleted,*)
(* and AddFinalizer, which the reconciler calls before Create, then fails.  *)
CreateNeverRuns == pc # "create"

(* No write of a reconcile gives the object the finalizer and leaves it     *)
(* without the Orphan policy Observe chose: a deleted AnsibleRun never waits*)
(* for its external resource, unless a user resets the policy.              *)
FinalizerImpliesOrphan ==
    obj.finalizer => obj.deletionPolicy = "Orphan"

DeletionReported ==
    obj.deleting /\ obj.ready = "Deleting" /\ obj.synced = "True"

(* Once the reconciler has recorded that Delete succeeded, no later step    *)
(* puts the content back while the deleted AnsibleRun lives.  (Under        *)
(* CheckWhenObserve Delete runs dry: ReportedDeletionCleaned.)              *)
DeletedMeansCleaned ==
    DeletionReported /\ obj.runPolicy # "CheckWhenObserve" => applied \notin Params

-------------------------------------------------------------------------------
(* Liveness.                                                                *)

Live == obj.exists /\ ~obj.deleting /\ InitAccepts(obj)

(* CheckWhenObserve repairs: when users, failures and drift stop, the target*)
(* system is what the spec describes, for good, whatever crashed before.    *)
CheckConverges ==
    <>[](Live /\ obj.runPolicy = "CheckWhenObserve" => applied = obj.spec /\ ~drift)

(* Under either policy a failed run is retried and an edited spec run, until*)
(* the target system has it, unless a run was lost after its annotation.    *)
ApplyConverges == <>[](Live => applied = obj.spec \/ owed)

(* A deleted AnsibleRun goes away (or is at least not held by the provider).*)
DeletionCompletes == obj.deleting ~> ~obj.deleting

-------------------------------------------------------------------------------
(* What the documents promise and the code does not do.                     *)

(* An AnsibleRun that waited for the provider's finalizer goes away only    *)
(* after its content was removed.                                           *)
DeletionCleansUp ==
    [][obj.deleting /\ ~obj'.exists => applied \notin Params]_vars

(* A reconcile reports success only when the spec is applied.               *)
UpToDateMeansApplied ==
    [][ReportSuccess /\ ~cr.deleting => applied = obj.spec]_vars

(* A deletion reported as successful has removed the content.               *)
ReportedDeletionCleaned == DeletionReported => applied \notin Params

-------------------------------------------------------------------------------
(* The inductive invariants behind the safety properties.                   *)

Reconciling == pc \notin {"idle", "down"}

(* A copy of the current resourceVersion agrees with the API server's on    *)
(* what a reconcile does not change, and nothing was written before Observe *)
(* decided.                                                                 *)
CopiesAgree ==
    /\ cacheFresh => cache = obj
    /\ fresh => /\ Reconciling
                /\ cr.exists = obj.exists /\ cr.deleting = obj.deleting
                /\ cr.finalizer = obj.finalizer
                /\ cr.spec = obj.spec /\ cr.synced = obj.synced
                /\ pc \notin {"annotate", "report"} => cr.lastApplied = obj.lastApplied
                /\ pc \in {"connect", "observe", "skip", "annotate"} => cacheFresh
    /\ Reconciling => cr.exists

(* What the position in the reconcile says about its locals.                *)
Progress ==
    /\ observation = "missing" => ~fresh
    /\ pc = "update" => observation = "outdated"
    /\ pc \in {"idle", "down", "connect", "observe", "skip", "annotate", "extravar"} =>
          observation = "none"
    /\ pc \in {"observe", "skip", "annotate", "extravar", "running", "record", "checking",
               "observed", "finalizer", "update"} =>
          runner.content = cr.spec /\ cr.spec \in Runnable
    /\ pc = "annotate" => cr.lastApplied = cr.spec
    /\ pc = "skip" => cr.synced = "True"
    /\ pc \in {"unfinalize", "delete", "destroying"} => cr.deleting
    /\ pc = "extravar" /\ fresh => obj.lastApplied = obj.spec

CopyInv == TypeOK /\ CopiesAgree /\ Progress /\ AnnotatedBeforeRun

(* Only a reconcile that saw the object being deleted takes its finalizer   *)
(* away, so that nobody else's copy is ahead of the server.                 *)
FinalizerKept ==
    /\ obj.finalizer => obj.exists
    /\ cache.finalizer /\ ~cache.deleting => obj.finalizer
    /\ cache.deleting => /\ obj.finalizer => obj.deleting
                         /\ fresh => cr.deleting
    /\ Reconciling /\ cr.finalizer /\ ~cr.deleting => obj.finalizer
    /\ Reconciling /\ cr.deleting => /\ obj.finalizer => obj.deleting
                                     /\ cache.finalizer => cache.deleting
    /\ pc \in {"connect", "observe"} /\ cr.finalizer /\ ~cr.deleting => cache.exists
    /\ observation = "missing" => ~cr.finalizer
    /\ CreateNeverRuns

(* Orphan reaches the API server before, or together with, the finalizer.   *)
OrphanInv ==
    /\ FinalizerImpliesOrphan
    /\ obj.deleting => obj.finalizer
    /\ obj.synced = "True" => obj.finalizer
    /\ pc \in {"extravar", "running", "record"} /\ fresh => obj.deletionPolicy = "Orphan"
    /\ pc \in {"annotate", "checking", "observed", "finalizer"} =>
          ~fresh \/ cr.deletionPolicy = "Orphan"
    /\ pc \in {"update", "success"} /\ fresh => obj.finalizer
    /\ pc \in {"running", "record"} /\ observation = "outdated" /\ fresh => obj.finalizer

(* No user switches an AnsibleRun to or from CheckWhenObserve.              *)
PolicyKept == "runPolicy" \notin UserOps \/ "CheckWhenObserve" \notin RunPolicies

Checks(resource) == resource.runPolicy = "CheckWhenObserve"

(* A copy that is current, or that has the finalizer, is of the object there*)
(* is, so that its policy is the object's.                                  *)
PolicyOfCopies ==
    /\ Checks(obj) => "CheckWhenObserve" \in RunPolicies
    /\ fresh => cr.runPolicy = obj.runPolicy
    /\ cache.finalizer /\ ~cache.deleting => (Checks(cache) <=> Checks(obj))
    /\ Reconciling /\ cr.finalizer /\ ~cr.deleting => (Checks(cr) <=> Checks(obj))

(* What each policy does of a reconcile.                                    *)
PolicyOfRunner ==
    /\ pc \notin {"idle", "down", "connect", "unfinalize", "report"} =>
          runner.policy = IF Checks(cr) THEN "CheckWhenObserve" ELSE "ObserveAndDelete"
    /\ pc \in {"skip", "annotate", "extravar"} => ~Checks(cr)
    /\ pc \in {"checking", "update"} => Checks(cr)
    /\ pc \in {"running", "record"} =>
          /\ ~runner.checkMode /\ runner.state = "present"
          /\ observation = IF Checks(cr) THEN "outdated" ELSE "none"
    /\ pc \in {"checking", "observed", "finalizer", "update"} /\ Checks(cr) =>
          runner.state = "present"
    /\ runner.checkMode => Checks(cr) /\ pc \notin {"idle", "down", "connect"}
    /\ observation = "outdated" => cr.deleting \/ Checks(cr)
    /\ pc \in {"skip", "annotate", "extravar", "running", "record", "finalizer", "update"} =>
          ~cr.deleting
    /\ pc \in {"update", "running", "record"} /\ Checks(cr) => cr.finalizer

PolicyInv == PolicyOfCopies /\ PolicyOfRunner

(* What an object in sync claims is applied.  Under CheckWhenObserve the    *)
(* annotation claims nothing.                                               *)
ClaimHolds ==
    /\ obj.synced = "True" /\ ~obj.deleting /\ obj.lastApplied \in Params =>
          applied = obj.lastApplied \/ owed
    /\ Checks(obj) => obj.lastApplied \notin Params

(* A deleted object gives way to a new one, which has no claim yet.         *)
DeletedClaimsNothing ==
    (cache.deleting \/ cr.deleting) /\ ~obj.deleting => obj.lastApplied \notin Params

(* Where the reconcile knows that its spec is applied.                      *)
Ran ==
    \/ pc = "record" /\ ~runErr
    \/ pc \in {"observed", "finalizer"} /\ observation # "outdated"
    \/ pc = "success"

ReconcileClaim ==
    /\ pc \in {"extravar", "running"} /\ obj.lastApplied \in Params =>
          obj.lastApplied = runner.content /\ owed
    /\ pc = "skip" /\ fresh => obj.lastApplied = obj.spec
    /\ fresh /\ ~cr.deleting /\ Ran =>
          /\ Checks(obj) \/ obj.lastApplied = obj.spec
          /\ applied = obj.spec \/ owed

ClaimInv == ClaimHolds /\ DeletedClaimsNothing /\ ReconcileClaim

(* The reason Deleting in Ready is of a delete that the cache has seen, and  *)
(* whoever reconciles later, too.                                           *)
CleanInv ==
    /\ DeletedMeansCleaned
    /\ fresh /\ cr.deleting => cache.deleting
    /\ obj.ready = "Deleting" => obj.deleting /\ cache.deleting
    /\ obj.ready = "Deleting" /\ Reconciling => cr.deleting
    /\ cache.ready = "Deleting" => cache.deleting
    /\ cr.ready = "Deleting" => cr.deleting
    /\ pc = "success" /\ cr.deleting /\ ~Checks(cr) => applied \notin Params
    /\ pc = "destroying" => runner.state = "absent"

===============================================================================
