---------------------------- MODULE ExternalClient ----------------------------
(***************************************************************************)
(* The provider's side of one reconcile of one AnsibleRun: connector.Connect,*)
(* the methods Observe, Update and Delete of external, and the runner they *)
(* start.  A method that calls the API server or ansible-runner is split at *)
(* each call, so that anything may happen between two calls; pc names the   *)
(* call to make next.  What calls these methods is in module AnsibleRun.    *)
(***************************************************************************)
EXTENDS AnsibleRunResource

VARIABLES
    \* The API server and what the controller read from it.
    obj,          \* the AnsibleRun in the API server
    cache,        \* the informer cache's copy, which may lag behind obj
    cacheFresh,   \* cache holds the current resourceVersion
    cr,           \* the copy the current reconcile works on
    fresh,        \* cr holds the current resourceVersion
    \* The control state of the current reconcile.
    pc,           \* the next call, "idle" between reconciles, "down" when crashed
    shouldDelete, \* the deletion policy was not Orphan when the reconcile began
    observation,  \* what Observe returned
    runner,       \* the Runner that Init built
    runErr,       \* the last Run of runAnsible failed
    \* The target system, and what the controller owes it.
    applied,      \* what the last run left on the target system
    drift,        \* the target system changed since, by another hand
    owed          \* history: the annotation claims a run that neither succeeded
                  \* nor was reported as failed

apiVars     == <<obj, cache, cacheFresh>>
copyVars    == <<cr, fresh>>
runVars     == <<shouldDelete, observation, runner, runErr>>
targetVars  == <<applied, drift, owed>>
clientVars  == <<obj, cache, cacheFresh, cr, fresh, pc, shouldDelete,
                 observation, runner, runErr, applied, drift, owed>>

Steps ==
    {"down", "idle", "connect", "observe", "skip", "annotate", "extravar",
     "running", "record", "checking", "observed", "finalizer", "create",
     "update", "delete", "destroying", "success", "report", "unfinalize"}

Observations == {"none", "missing", "outdated", "upToDate"}

Runner == [policy    : {"none", "ObserveAndDelete", "CheckWhenObserve"},
           checkMode : BOOLEAN,
           state     : {"none", "present", "absent"},
           content   : Params \cup {None}]

NoRunner == [policy |-> "none", checkMode |-> FALSE, state |-> "none",
             content |-> None]

-------------------------------------------------------------------------------
(* Calls to the API server.  A write carries the resourceVersion of cr, and *)
(* the server refuses it when that is no longer current.  A write that      *)
(* succeeds replaces cr by the object the server returns; a write may also  *)
(* fail for another reason, or land and lose its response.                  *)

(* A write that changes nothing leaves the resourceVersion alone.           *)
Land(new) ==
    /\ fresh
    /\ obj' = new
    /\ cacheFresh' = (cacheFresh /\ new = obj)
    /\ UNCHANGED cache

WriteOk(new) == Land(new) /\ cr' = new /\ UNCHANGED fresh

WriteErr(new) ==
    \/ UNCHANGED <<apiVars, copyVars>>
    \/ Land(new) /\ fresh' = (new = obj) /\ UNCHANGED cr

-------------------------------------------------------------------------------
(* Connect prepares the working directory and builds the runner; any of its *)
(* reads of ProviderConfig, secrets and inventories, or the galaxy install, *)
(* may fail.                                                                *)

ConnectOk ==
    /\ pc = "connect"
    /\ InitAccepts(cr)
    /\ runner' = [policy |-> newRunPolicy(cr.runPolicy), checkMode |-> FALSE,
                  state |-> "none", content |-> cr.spec]
    /\ pc' = "observe"
    /\ UNCHANGED <<apiVars, copyVars, targetVars, shouldDelete, observation, runErr>>

ConnectErr ==
    /\ pc = "connect"
    /\ pc' = "report"
    /\ UNCHANGED <<apiVars, copyVars, runVars, targetVars>>

(* Mutant: check mode is never switched off again.                          *)
KeepCheckMode(r, checkMode) == [r EXCEPT !.checkMode = @ \/ checkMode]

EnableCheckMode(r, checkMode) == [r EXCEPT !.checkMode = checkMode]

-------------------------------------------------------------------------------
(* Observe.  It first sets the deletion policy of its copy to Orphan.       *)

(* Mutant: the copy keeps the policy of the object.                         *)
KeepDeletionPolicy(resource) == resource

SetDeletionPolicy(resource) == [resource EXCEPT !.deletionPolicy = "Orphan"]

(* ObserveAndDelete, the AnsibleRun is being deleted: nothing to observe.   *)
ObserveDeleted ==
    /\ pc = "observe"
    /\ runner.policy = "ObserveAndDelete"
    /\ cr.deleting
    /\ cr' = SetDeletionPolicy(cr)
    /\ observation' = "outdated"
    /\ pc' = "observed"
    /\ UNCHANGED <<apiVars, fresh, targetVars, shouldDelete, runner, runErr>>

(* Mutant: any error of the read counts as NotFound.                        *)
ObserveMissingOnError ==
    /\ pc = "observe"
    /\ runner.policy = "ObserveAndDelete"
    /\ ~cr.deleting
    /\ cr' = SetDeletionPolicy(cr)
    /\ observation' = "missing"
    /\ pc' = "observed"
    /\ UNCHANGED <<apiVars, fresh, targetVars, shouldDelete, runner, runErr>>

(* ObserveAndDelete, the cached client no longer has the object.            *)
ObserveMissing ==
    /\ pc = "observe"
    /\ runner.policy = "ObserveAndDelete"
    /\ ~cr.deleting
    /\ ~cache.exists
    /\ cr' = SetDeletionPolicy(cr)
    /\ observation' = "missing"
    /\ pc' = "observed"
    /\ UNCHANGED <<apiVars, fresh, targetVars, shouldDelete, runner, runErr>>

(* ObserveAndDelete: compare with the last applied parameters, and annotate *)
(* the copy with the ones to apply when there is something to run.          *)
ObserveLastApplied ==
    /\ pc = "observe"
    /\ runner.policy = "ObserveAndDelete"
    /\ ~cr.deleting
    /\ cache.exists
    /\ LET desired == SetDeletionPolicy(cr)
       IN  IF NothingToRun(cache, desired)
             THEN cr' = desired /\ pc' = "skip"
             ELSE /\ cr' = [desired EXCEPT !.lastApplied = desired.spec]
                  /\ pc' = "annotate"
    /\ UNCHANGED <<apiVars, fresh, targetVars, runVars>>

(* CheckWhenObserve: prepare a dry run with state = present.                *)
ObserveCheck ==
    /\ pc = "observe"
    /\ runner.policy = "CheckWhenObserve"
    /\ cr' = SetDeletionPolicy(cr)
    /\ runner' = EnableCheckMode([runner EXCEPT !.state = "present"], TRUE)
    /\ pc' = "checking"
    /\ UNCHANGED <<apiVars, fresh, targetVars, shouldDelete, observation, runErr>>

(* Reading the object or writing the extra variables fails.                 *)
ObserveErr ==
    /\ pc = "observe"
    /\ runner.policy = "CheckWhenObserve" \/ ~cr.deleting
    /\ cr' = SetDeletionPolicy(cr)
    /\ pc' = "report"
    /\ UNCHANGED <<apiVars, fresh, runVars, targetVars>>

(* handleLastApplied, nothing to run: mark Available.                       *)
Skip == StatusUpdated(obj, [cr EXCEPT !.ready = "True"])

SkipOk ==
    /\ pc = "skip"
    /\ WriteOk(Skip)
    /\ observation' = "upToDate"
    /\ pc' = "observed"
    /\ UNCHANGED <<targetVars, shouldDelete, runner, runErr>>

SkipErr ==
    /\ pc = "skip"
    /\ WriteErr(Skip)
    /\ pc' = "report"
    /\ UNCHANGED <<runVars, targetVars>>

(* handleLastApplied, something to run: persist the annotation first.       *)
AnnotateOk ==
    /\ pc = "annotate"
    /\ WriteOk(Updated(obj, cr))
    /\ owed' = TRUE
    /\ pc' = "extravar"
    /\ UNCHANGED <<runVars, applied, drift>>

(* Mutant: the error of the write is dropped.                               *)
AnnotateErrDropped ==
    /\ pc = "annotate"
    /\ WriteErr(Updated(obj, cr))
    /\ owed' = (owed \/ obj' # obj)
    /\ pc' = "extravar"
    /\ UNCHANGED <<runVars, applied, drift>>

AnnotateErr ==
    /\ pc = "annotate"
    /\ WriteErr(Updated(obj, cr))
    /\ owed' = (owed \/ obj' # obj)
    /\ pc' = "report"
    /\ UNCHANGED <<runVars, applied, drift>>

WriteExtraVarOk ==
    /\ pc = "extravar"
    /\ runner' = [runner EXCEPT !.state = "present"]
    /\ pc' = "running"
    /\ UNCHANGED <<apiVars, copyVars, targetVars, shouldDelete, observation, runErr>>

WriteExtraVarErr ==
    /\ pc = "extravar"
    /\ pc' = "report"
    /\ UNCHANGED <<apiVars, copyVars, runVars, targetVars>>

-------------------------------------------------------------------------------
(* Run, as runAnsible, the check of Observe and Delete call it.             *)

(* What a run that succeeds, or one that fails or is killed, leaves on the  *)
(* target system; a dry run leaves everything.  The content brings about    *)
(* the state the extra variable asks for.                                   *)
RunLeaves ==
    IF runner.checkMode
      THEN UNCHANGED <<applied, drift>>
      ELSE /\ applied' = IF runner.state = "absent" THEN Absent ELSE runner.content
           /\ drift' = FALSE

FailedRunLeaves ==
    /\ \/ UNCHANGED applied
       \/ ~runner.checkMode /\ applied' = Partial
    /\ UNCHANGED drift

(* runAnsible sets the condition Ready of the copy from the run's outcome.  *)
RunOk ==
    /\ pc = "running"
    /\ RunLeaves
    /\ owed' = FALSE
    /\ runErr' = FALSE
    /\ cr' = [cr EXCEPT !.ready = "True"]
    /\ pc' = "record"
    /\ UNCHANGED <<apiVars, fresh, shouldDelete, observation, runner>>

RunErr ==
    /\ pc = "running"
    /\ FailedRunLeaves
    /\ runErr' = TRUE
    /\ cr' = [cr EXCEPT !.ready = "False"]
    /\ pc' = "record"
    /\ UNCHANGED <<apiVars, fresh, owed, shouldDelete, observation, runner>>

(* Mutant: runAnsible returns the error of the write, not the run's.        *)
RecordOkErrDropped ==
    /\ pc = "record"
    /\ WriteOk(StatusUpdated(obj, cr))
    /\ observation' = IF observation = "outdated" THEN observation ELSE "upToDate"
    /\ pc' = IF observation = "outdated" THEN "success" ELSE "observed"
    /\ UNCHANGED <<targetVars, shouldDelete, runner, runErr>>

(* runAnsible writes the condition; a failed run is an error in any case.   *)
(* The caller is Update when Observe found the target outdated.             *)
RecordOk ==
    /\ pc = "record"
    /\ WriteOk(StatusUpdated(obj, cr))
    /\ observation' = IF runErr \/ observation = "outdated" THEN observation
                                                            ELSE "upToDate"
    /\ pc' = IF runErr THEN "report"
             ELSE IF observation = "outdated" THEN "success" ELSE "observed"
    /\ UNCHANGED <<targetVars, shouldDelete, runner, runErr>>

RecordErr ==
    /\ pc = "record"
    /\ WriteErr(StatusUpdated(obj, cr))
    /\ pc' = "report"
    /\ UNCHANGED <<runVars, targetVars>>

(* Diff: the dry run reports changes when the target system is not what the *)
(* content describes.                                                       *)
Diff == applied # runner.content \/ drift

CheckOk ==
    /\ pc = "checking"
    /\ observation' = IF Diff THEN "outdated" ELSE "upToDate"
    /\ pc' = "observed"
    /\ UNCHANGED <<apiVars, copyVars, targetVars, shouldDelete, runner, runErr>>

CheckErr ==
    /\ pc = "checking"
    /\ pc' = "report"
    /\ UNCHANGED <<apiVars, copyVars, runVars, targetVars>>

-------------------------------------------------------------------------------
(* Update and Delete.  Create does what Update does.                        *)

Update ==
    /\ pc = "update"
    /\ runner' = EnableCheckMode(runner, FALSE)
    /\ pc' = "running"
    /\ UNCHANGED <<apiVars, copyVars, targetVars, shouldDelete, observation, runErr>>

(* Mutant: the extra variable is not written.                               *)
DeleteNoExtraVar ==
    /\ pc = "delete"
    /\ cr' = [cr EXCEPT !.ready = "Deleting"]
    /\ pc' = "destroying"
    /\ UNCHANGED <<apiVars, fresh, targetVars, shouldDelete, observation, runner, runErr>>

Delete ==
    /\ pc = "delete"
    /\ cr' = [cr EXCEPT !.ready = "Deleting"]
    /\ runner' = [runner EXCEPT !.state = "absent"]
    /\ pc' = "destroying"
    /\ UNCHANGED <<apiVars, fresh, targetVars, shouldDelete, observation, runErr>>

DestroyOk ==
    /\ pc = "destroying"
    /\ RunLeaves
    /\ pc' = "success"
    /\ UNCHANGED <<apiVars, copyVars, runVars, owed>>

(* WriteExtraVar or the run fails.                                          *)
DestroyErr ==
    /\ \/ pc = "delete" /\ cr' = [cr EXCEPT !.ready = "Deleting"]
                        /\ UNCHANGED <<applied, drift>>
       \/ pc = "destroying" /\ FailedRunLeaves /\ UNCHANGED cr
    /\ pc' = "report"
    /\ UNCHANGED <<apiVars, fresh, runVars, owed>>

-------------------------------------------------------------------------------

(* The steps that succeed, and those that fail.                             *)
ClientOk ==
    \/ ConnectOk
    \/ ObserveDeleted \/ ObserveMissing \/ ObserveLastApplied \/ ObserveCheck
    \/ SkipOk \/ AnnotateOk \/ WriteExtraVarOk
    \/ RunOk \/ RecordOk \/ CheckOk
    \/ Update \/ Delete \/ DestroyOk

ClientErr ==
    \/ ConnectErr \/ ObserveErr \/ SkipErr \/ AnnotateErr \/ WriteExtraVarErr
    \/ RunErr \/ RecordErr \/ CheckErr \/ DestroyErr

===============================================================================
