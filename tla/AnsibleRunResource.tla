-------------------------- MODULE AnsibleRunResource --------------------------
(***************************************************************************)
(* The AnsibleRun managed resource as the controller sees it: the fields   *)
(* of the custom resource that a decision of the controller reads, and the *)
(* pure functions the controller applies to them.                          *)
(***************************************************************************)

CONSTANTS
    Params,       \* values of spec.forProvider (playbook or roles, vars, inventories)
    Runnable,     \* those with a playbook or roles, but not both
    RunPolicies,  \* values users give the annotation ansible.crossplane.io/runPolicy
    None,         \* no value: absent annotation, absent object
    Foreign,      \* last-applied annotation written by kubectl: a whole manifest
    Absent,       \* external state left by a successful run with state = absent
    Partial       \* external state left by a run that failed or was killed

ASSUME ResourceAssumption ==
    /\ Runnable \subseteq Params
    /\ RunPolicies \subseteq {"", "ObserveAndDelete", "CheckWhenObserve", "Unsupported"}
    /\ {None, Foreign, Absent, Partial} \cap Params = {}
    /\ None # Foreign
    /\ Absent # Partial

DeletionPolicies == {"Delete", "Orphan"}

ConditionStatus == {"Unknown", "True", "False"}

(* Condition Ready, with the reason Deleting told apart from Unavailable.  *)
ReadyStatus == ConditionStatus \cup {"Deleting"}

Resource ==
    [exists         : BOOLEAN,      \* the object is in the API server
     deleting       : BOOLEAN,      \* metadata.deletionTimestamp is set
     finalizer      : BOOLEAN,      \* the managed reconciler's finalizer
     spec           : Params \cup {None},
     runPolicy      : {"", "ObserveAndDelete", "CheckWhenObserve", "Unsupported"},
     deletionPolicy : DeletionPolicies,
     lastApplied    : Params \cup {None, Foreign},
     ready          : ReadyStatus,
     synced         : ConditionStatus]

NoResource ==
    [exists |-> FALSE, deleting |-> FALSE, finalizer |-> FALSE, spec |-> None,
     runPolicy |-> "", deletionPolicy |-> "Delete", lastApplied |-> None,
     ready |-> "Unknown", synced |-> "Unknown"]

(* What a user's manifest creates; the API server defaults deletionPolicy. *)
NewResource(spec, runPolicy, lastApplied) ==
    [NoResource EXCEPT !.exists = TRUE, !.spec = spec,
                       !.runPolicy = runPolicy, !.lastApplied = lastApplied]

(* An Update writes metadata and spec and leaves the status subresource;   *)
(* a Status().Update writes the status subresource and nothing else.       *)
Updated(server, local) ==
    [local EXCEPT !.ready = server.ready, !.synced = server.synced]

StatusUpdated(server, local) ==
    [server EXCEPT !.ready = local.ready, !.synced = local.synced]

(* Mutant: the default is not filled in.                                   *)
newRunPolicyNoDefault(annotation) ==
    IF annotation \in {"", "ObserveAndDelete", "CheckWhenObserve"}
      THEN annotation ELSE None

(* newRunPolicy: the empty annotation means ObserveAndDelete, and any      *)
(* value but the two supported policies is an error.                       *)
newRunPolicy(annotation) ==
    CASE annotation = "" -> "ObserveAndDelete"
      [] annotation \in {"ObserveAndDelete", "CheckWhenObserve"} -> annotation
      [] OTHER -> None

(* Parameters.Init refuses a spec with both or neither of playbook and     *)
(* roles, and an unsupported run policy.                                   *)
InitAccepts(cr) == cr.spec \in Runnable /\ newRunPolicy(cr.runPolicy) # None

(* getLastAppliedParameters: the annotation decoded as AnsibleRunParameters.*)
(* A kubectl manifest has none of those fields, so it decodes to the empty *)
(* parameters, which no runnable spec is equal to.                         *)
getLastAppliedParameters(observed) == observed.lastApplied

(* Mutant: the outcome of the last reconcile is not looked at.             *)
NothingToRunAnySync(observed, desired) ==
    getLastAppliedParameters(observed) = desired.spec

(* The test of handleLastApplied: nothing to run when the last applied     *)
(* parameters are the desired ones and the last reconcile succeeded.       *)
NothingToRun(observed, desired) ==
    LET lastParameters == getLastAppliedParameters(observed)
        isUpToDate     == lastParameters = desired.spec
        isLastSyncOK   == desired.synced = "True"
    IN  isUpToDate /\ isLastSyncOK

===============================================================================
