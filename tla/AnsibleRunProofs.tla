--------------------------- MODULE AnsibleRunProofs ---------------------------
(***************************************************************************)
(* Proofs about AnsibleRun, for any set of parameters, any mix of users'    *)
(* operations and any bounds: its types, and how a reconcile's copy relates *)
(* to the object in the API server.                                         *)
(***************************************************************************)
EXTENDS AnsibleRun, TLAPS

-------------------------------------------------------------------------------
(* Types.                                                                   *)

LEMMA ResourceTypes ==
    /\ NoResource \in Resource
    /\ \A spec \in Params, runPolicy \in RunPolicies, lastApplied \in {None, Foreign} :
          NewResource(spec, runPolicy, lastApplied) \in Resource
    /\ \A server, local \in Resource : /\ Updated(server, local) \in Resource
                                       /\ StatusUpdated(server, local) \in Resource
<1>1. NoResource \in Resource
  BY DEF NoResource, Resource, DeletionPolicies, ReadyStatus, ConditionStatus
<1>2. ASSUME NEW spec \in Params, NEW runPolicy \in RunPolicies,
             NEW lastApplied \in {None, Foreign}
      PROVE  NewResource(spec, runPolicy, lastApplied) \in Resource
  BY <1>1, ResourceAssumption DEF NewResource, Resource
<1>3. ASSUME NEW server \in Resource, NEW local \in Resource
      PROVE  /\ Updated(server, local) \in Resource
             /\ StatusUpdated(server, local) \in Resource
  BY DEF Updated, StatusUpdated, Resource
<1> QED BY <1>1, <1>2, <1>3

(* Assigning to one field.                                                  *)
LEMMA ResourceExcept ==
    ASSUME NEW r \in Resource
    PROVE  /\ \A v \in BOOLEAN : [r EXCEPT !.finalizer = v] \in Resource
           /\ \A v \in BOOLEAN : [r EXCEPT !.deleting = v] \in Resource
           /\ \A v \in Params : [r EXCEPT !.spec = v] \in Resource
           /\ \A v \in RunPolicies : [r EXCEPT !.runPolicy = v] \in Resource
           /\ \A v \in DeletionPolicies : [r EXCEPT !.deletionPolicy = v] \in Resource
           /\ \A v \in Params \cup {None, Foreign} : [r EXCEPT !.lastApplied = v] \in Resource
           /\ \A v \in ReadyStatus : [r EXCEPT !.ready = v] \in Resource
           /\ \A v \in ConditionStatus : [r EXCEPT !.synced = v] \in Resource
<1>1. ASSUME NEW v \in BOOLEAN PROVE [r EXCEPT !.finalizer = v] \in Resource
  BY DEF Resource
<1>2. ASSUME NEW v \in BOOLEAN PROVE [r EXCEPT !.deleting = v] \in Resource
  BY DEF Resource
<1>3. ASSUME NEW v \in Params PROVE [r EXCEPT !.spec = v] \in Resource
  BY DEF Resource
<1>4. ASSUME NEW v \in RunPolicies PROVE [r EXCEPT !.runPolicy = v] \in Resource
  BY ResourceAssumption DEF Resource
<1>5. ASSUME NEW v \in DeletionPolicies PROVE [r EXCEPT !.deletionPolicy = v] \in Resource
  BY DEF Resource
<1>6. ASSUME NEW v \in Params \cup {None, Foreign}
      PROVE  [r EXCEPT !.lastApplied = v] \in Resource
  BY DEF Resource
<1>7. ASSUME NEW v \in ReadyStatus PROVE [r EXCEPT !.ready = v] \in Resource
  BY DEF Resource
<1>8. ASSUME NEW v \in ConditionStatus PROVE [r EXCEPT !.synced = v] \in Resource
  BY DEF Resource
<1> QED BY <1>1, <1>2, <1>3, <1>4, <1>5, <1>6, <1>7, <1>8

LEMMA ValueTypes ==
    /\ {"True", "False", "Deleting"} \subseteq ReadyStatus
    /\ {"True", "False"} \subseteq ConditionStatus
    /\ {"Orphan", "Delete"} \subseteq DeletionPolicies
BY DEF ReadyStatus, ConditionStatus, DeletionPolicies

(* The fields a write takes from one side or the other.                     *)
SameMeta(new, from) ==
    /\ new.exists = from.exists /\ new.deleting = from.deleting
    /\ new.finalizer = from.finalizer /\ new.spec = from.spec
    /\ new.runPolicy = from.runPolicy /\ new.deletionPolicy = from.deletionPolicy
    /\ new.lastApplied = from.lastApplied

LEMMA WriteFields ==
    ASSUME NEW server \in Resource, NEW local \in Resource
    PROVE  /\ SameMeta(Updated(server, local), local)
           /\ Updated(server, local).ready = server.ready
           /\ Updated(server, local).synced = server.synced
           /\ SameMeta(StatusUpdated(server, local), server)
           /\ StatusUpdated(server, local).ready = local.ready
           /\ StatusUpdated(server, local).synced = local.synced
<1>1. /\ SameMeta(Updated(server, local), local)
      /\ Updated(server, local).ready = server.ready
      /\ Updated(server, local).synced = server.synced
  BY DEF Updated, Resource, SameMeta
<1>2. /\ SameMeta(StatusUpdated(server, local), server)
      /\ StatusUpdated(server, local).ready = local.ready
      /\ StatusUpdated(server, local).synced = local.synced
  BY DEF StatusUpdated, Resource, SameMeta
<1> QED BY <1>1, <1>2

(* The copy with the deletion policy that Observe chooses.                  *)
LEMMA OrphanFields ==
    ASSUME TypeOK
    PROVE  LET desired == SetDeletionPolicy(cr)
           IN  /\ desired \in Resource /\ desired.deletionPolicy = "Orphan"
               /\ desired.exists = cr.exists /\ desired.deleting = cr.deleting
               /\ desired.finalizer = cr.finalizer /\ desired.spec = cr.spec
               /\ desired.runPolicy = cr.runPolicy
               /\ desired.lastApplied = cr.lastApplied
               /\ desired.synced = cr.synced
<1>1. SetDeletionPolicy(cr) \in Resource
  BY ResourceExcept, ValueTypes DEF SetDeletionPolicy, TypeOK
<1> QED BY <1>1 DEF SetDeletionPolicy, TypeOK, Resource

(* The copy with a new condition Ready.                                     *)
LEMMA ReadyFields ==
    ASSUME TypeOK, NEW v, cr' = [cr EXCEPT !.ready = v]
    PROVE  SameMeta(cr', cr) /\ cr'.synced = cr.synced
BY DEF TypeOK, Resource, SameMeta

LEMMA DestroyErrFields ==
    ASSUME TypeOK, DestroyErr
    PROVE  SameMeta(cr', cr) /\ cr'.synced = cr.synced
<1>1. CASE UNCHANGED cr
  BY <1>1 DEF SameMeta
<1>2. CASE cr' = [cr EXCEPT !.ready = "Deleting"]
  BY <1>2, ReadyFields
<1> QED BY <1>1, <1>2 DEF DestroyErr

(* What the controller writes from its copy.                                *)
LEMMA UpdatedFields ==
    ASSUME TypeOK
    PROVE  /\ SameMeta(Updated(obj, cr), cr)
           /\ Updated(obj, cr).ready = obj.ready /\ Updated(obj, cr).synced = obj.synced
BY WriteFields DEF TypeOK

LEMMA StatusFields ==
    ASSUME TypeOK
    PROVE  /\ SameMeta(StatusUpdated(obj, cr), obj)
           /\ StatusUpdated(obj, cr).ready = cr.ready
           /\ StatusUpdated(obj, cr).synced = cr.synced
BY WriteFields DEF TypeOK

LEMMA SkipFields ==
    ASSUME TypeOK
    PROVE  SameMeta(Skip, obj) /\ Skip.ready = "True" /\ Skip.synced = cr.synced
<1> DEFINE local == [cr EXCEPT !.ready = "True"]
<1>1. local \in Resource
  BY ResourceExcept, ValueTypes DEF TypeOK
<1>2. local.ready = "True" /\ local.synced = cr.synced
  BY DEF TypeOK, Resource
<1>3. Skip = StatusUpdated(obj, local)
  BY DEF Skip
<1> HIDE DEF local
<1> QED BY <1>1, <1>2, <1>3, WriteFields DEF TypeOK

LEMMA ReportedFields ==
    ASSUME TypeOK, NEW v \in {"True", "False"}
    PROVE  SameMeta(Reported(v), obj) /\ Reported(v).ready = cr.ready /\ Reported(v).synced = v
<1> DEFINE local == [cr EXCEPT !.synced = v]
<1>1. local \in Resource
  BY ResourceExcept, ValueTypes DEF TypeOK
<1>2. local.ready = cr.ready /\ local.synced = v
  BY DEF TypeOK, Resource
<1>3. Reported(v) = StatusUpdated(obj, local)
  BY DEF Reported
<1> HIDE DEF local
<1> QED BY <1>1, <1>2, <1>3, WriteFields DEF TypeOK

LEMMA FinalizedFields ==
    ASSUME TypeOK
    PROVE  /\ Finalized.exists = cr.exists /\ Finalized.deleting = cr.deleting
           /\ Finalized.finalizer /\ Finalized.spec = cr.spec
           /\ Finalized.runPolicy = cr.runPolicy
           /\ Finalized.deletionPolicy = cr.deletionPolicy
           /\ Finalized.lastApplied = cr.lastApplied
           /\ Finalized.ready = obj.ready /\ Finalized.synced = obj.synced
<1> DEFINE local == [cr EXCEPT !.finalizer = TRUE]
<1>1. local \in Resource
  BY ResourceExcept DEF TypeOK
<1>2. /\ local.exists = cr.exists /\ local.deleting = cr.deleting /\ local.finalizer
      /\ local.spec = cr.spec /\ local.runPolicy = cr.runPolicy
      /\ local.deletionPolicy = cr.deletionPolicy /\ local.lastApplied = cr.lastApplied
  BY DEF TypeOK, Resource
<1>3. Finalized = Updated(obj, local)
  BY DEF Finalized
<1> HIDE DEF local
<1> QED BY <1>1, <1>2, <1>3, WriteFields DEF TypeOK, SameMeta

(* A failed write leaves the object, or replaces it and loses the response. *)
LEMMA WriteErrEffect ==
    ASSUME NEW new, WriteErr(new)
    PROVE  /\ obj' = obj \/ (fresh /\ obj' = new)
           /\ UNCHANGED <<cr, cache>>
           /\ fresh' => fresh /\ obj' = obj
           /\ cacheFresh' => cacheFresh
<1>1. CASE UNCHANGED <<apiVars, copyVars>>
  BY <1>1 DEF apiVars, copyVars
<1>2. CASE Land(new) /\ fresh' = (new = obj) /\ UNCHANGED cr
  BY <1>2 DEF Land
<1> QED BY <1>1, <1>2 DEF WriteErr

LEMMA RunnerTypes ==
    /\ NoRunner \in Runner
    /\ \A r \in Runner :
          /\ r.content \in Params \cup {None}
          /\ \A v \in {"present", "absent"} : [r EXCEPT !.state = v] \in Runner
          /\ \A v \in BOOLEAN : EnableCheckMode(r, v) \in Runner
BY DEF NoRunner, Runner, EnableCheckMode

(* Writing the API server and the copy.                                     *)
LEMMA WriteTypes ==
    ASSUME TypeOK, NEW new \in Resource, WriteOk(new) \/ WriteErr(new) \/ Land(new)
    PROVE  obj' \in Resource /\ cache' \in Resource /\ cacheFresh' \in BOOLEAN
BY DEF TypeOK, WriteOk, WriteErr, Land, apiVars

LEMMA CopyTypes ==
    ASSUME TypeOK, NEW new \in Resource, WriteOk(new) \/ WriteErr(new)
    PROVE  cr' \in Resource /\ fresh' \in BOOLEAN
BY DEF TypeOK, WriteOk, WriteErr, Land, copyVars

(* Every object a reconcile writes is a well-formed one.                    *)
LEMMA WrittenTypes ==
    ASSUME TypeOK
    PROVE  /\ Skip \in Resource /\ Updated(obj, cr) \in Resource
           /\ StatusUpdated(obj, cr) \in Resource
           /\ Finalized \in Resource /\ Unfinalized \in Resource
           /\ Reported("True") \in Resource /\ Reported("False") \in Resource
<1>1. /\ [cr EXCEPT !.ready = "True"] \in Resource
      /\ [cr EXCEPT !.finalizer = TRUE] \in Resource
      /\ [cr EXCEPT !.finalizer = FALSE] \in Resource
      /\ [cr EXCEPT !.synced = "True"] \in Resource
      /\ [cr EXCEPT !.synced = "False"] \in Resource
  BY ResourceExcept, ValueTypes DEF TypeOK
<1> QED BY <1>1, ResourceTypes
        DEF TypeOK, Skip, Finalized, Unfinalized, Reported

LEMMA ClientOkType == TypeOK /\ ClientOk /\ UNCHANGED boundVars => TypeOK'
<1> SUFFICES ASSUME TypeOK, ClientOk, UNCHANGED boundVars PROVE TypeOK'
  OBVIOUS
<1> USE DEF apiVars, copyVars, runVars, targetVars, boundVars
<1>1. CASE ConnectOk
  <2>1. newRunPolicy(cr.runPolicy) \in {"ObserveAndDelete", "CheckWhenObserve"}
    BY <1>1 DEF ConnectOk, InitAccepts, newRunPolicy
  <2>2. cr.spec \in Params \cup {None}
    BY DEF TypeOK, Resource
  <2> QED BY <1>1, <2>1, <2>2 DEF ConnectOk, TypeOK, Runner, Steps
<1>2. CASE ObserveDeleted
  BY <1>2, ResourceExcept, ValueTypes, RunnerTypes DEF ObserveDeleted, TypeOK,
       SetDeletionPolicy, Observations, Steps
<1>3. CASE ObserveMissing
  BY <1>3, ResourceExcept, ValueTypes, RunnerTypes DEF ObserveMissing, TypeOK,
       SetDeletionPolicy, Observations, Steps
<1>4. CASE ObserveLastApplied
  <2>1. SetDeletionPolicy(cr) \in Resource
    BY ResourceExcept, ValueTypes DEF TypeOK, SetDeletionPolicy
  <2>2. SetDeletionPolicy(cr).spec \in Params \cup {None, Foreign}
    BY <2>1 DEF Resource
  <2>3. [SetDeletionPolicy(cr) EXCEPT !.lastApplied = SetDeletionPolicy(cr).spec] \in Resource
    BY <2>1, <2>2, ResourceExcept
  <2> QED BY <1>4, <2>1, <2>3 DEF ObserveLastApplied, TypeOK, Steps
<1>5. CASE ObserveCheck
  BY <1>5, ResourceExcept, ValueTypes, RunnerTypes DEF ObserveCheck, TypeOK,
       SetDeletionPolicy, Steps
<1>6. CASE SkipOk
  BY <1>6, WrittenTypes, WriteTypes, CopyTypes DEF SkipOk, TypeOK, Observations, Steps
<1>7. CASE AnnotateOk
  BY <1>7, WrittenTypes, WriteTypes, CopyTypes DEF AnnotateOk, TypeOK, Steps
<1>8. CASE WriteExtraVarOk
  BY <1>8, RunnerTypes DEF WriteExtraVarOk, TypeOK, Steps
<1>9. CASE RunOk
  BY <1>9, ResourceExcept, ValueTypes, RunnerTypes DEF RunOk, RunLeaves, TypeOK, Steps
<1>10. CASE RecordOk
  BY <1>10, WrittenTypes, WriteTypes, CopyTypes DEF RecordOk, TypeOK, Observations, Steps
<1>11. CASE CheckOk
  BY <1>11 DEF CheckOk, TypeOK, Observations, Steps
<1>12. CASE Update
  BY <1>12, RunnerTypes DEF Update, TypeOK, Steps
<1>13. CASE Delete
  BY <1>13, ResourceExcept, ValueTypes, RunnerTypes DEF Delete, TypeOK, Steps
<1>14. CASE DestroyOk
  BY <1>14, RunnerTypes DEF DestroyOk, RunLeaves, TypeOK, Steps
<1> QED BY <1>1, <1>2, <1>3, <1>4, <1>5, <1>6, <1>7, <1>8, <1>9, <1>10, <1>11, <1>12,
           <1>13, <1>14 DEF ClientOk

LEMMA ClientErrType == TypeOK /\ ClientErr /\ UNCHANGED boundVars => TypeOK'
<1> SUFFICES ASSUME TypeOK, ClientErr, UNCHANGED boundVars PROVE TypeOK'
  OBVIOUS
<1> USE DEF apiVars, copyVars, runVars, targetVars, boundVars
<1>1. CASE ConnectErr BY <1>1 DEF ConnectErr, TypeOK, Steps
<1>2. CASE ObserveErr
  BY <1>2, ResourceExcept, ValueTypes, RunnerTypes DEF ObserveErr, TypeOK,
       SetDeletionPolicy, Steps
<1>3. CASE SkipErr
  BY <1>3, WrittenTypes, WriteTypes, CopyTypes DEF SkipErr, TypeOK, Steps
<1>4. CASE AnnotateErr
  BY <1>4, WrittenTypes, WriteTypes, CopyTypes DEF AnnotateErr, TypeOK, Steps
<1>5. CASE WriteExtraVarErr BY <1>5, ResourceExcept, ValueTypes, RunnerTypes DEF
     WriteExtraVarErr, TypeOK, Steps
<1>6. CASE RunErr
  BY <1>6, ResourceExcept, ValueTypes, RunnerTypes DEF RunErr, FailedRunLeaves,
       TypeOK, Steps
<1>7. CASE RecordErr
  BY <1>7, WrittenTypes, WriteTypes, CopyTypes DEF RecordErr, TypeOK, Steps
<1>8. CASE CheckErr BY <1>8 DEF CheckErr, TypeOK, Steps
<1>9. CASE DestroyErr
  BY <1>9, ResourceExcept, ValueTypes, RunnerTypes DEF DestroyErr, FailedRunLeaves,
       TypeOK, Steps
<1> QED BY <1>1, <1>2, <1>3, <1>4, <1>5, <1>6, <1>7, <1>8, <1>9 DEF ClientErr

LEMMA ReconcilerType ==
    ASSUME TypeOK,
           \/ StartReconcile \/ AfterObserve \/ AddFinalizerOk \/ RemoveFinalizerOk
           \/ ReportSuccess \/ ReportError
           \/ AddFinalizerErr \/ RemoveFinalizerErr \/ ReportLost
    PROVE  TypeOK'
<1> USE DEF apiVars, copyVars, runVars, targetVars, boundVars
<1>1. CASE StartReconcile BY <1>1 DEF StartReconcile, TypeOK, Steps
<1>2. CASE AfterObserve BY <1>2 DEF AfterObserve, TypeOK, Steps
<1>3. CASE AddFinalizerOk
  BY <1>3, WrittenTypes, WriteTypes, CopyTypes
     DEF AddFinalizerOk, AfterFinalizer, TypeOK, Steps
<1>4. ASSUME NEW next \in {"idle", "down"}, EndReconcile(next)
      PROVE  /\ pc' \in Steps /\ cr' \in Resource /\ fresh' \in BOOLEAN
             /\ shouldDelete' \in BOOLEAN /\ observation' \in Observations
             /\ runner' \in Runner /\ runErr' \in BOOLEAN
  BY <1>4, ResourceTypes, RunnerTypes DEF EndReconcile, Steps, Observations
<1>5. CASE RemoveFinalizerOk
  BY <1>5, <1>4, WrittenTypes, WriteTypes DEF RemoveFinalizerOk, TypeOK
<1>6. CASE ReportSuccess
  BY <1>6, <1>4, WrittenTypes, WriteTypes DEF ReportSuccess, TypeOK
<1>7. CASE ReportError
  BY <1>7, <1>4, WrittenTypes, WriteTypes DEF ReportError, TypeOK
<1>8. CASE AddFinalizerErr
  BY <1>8, WrittenTypes, WriteTypes, CopyTypes DEF AddFinalizerErr, TypeOK, Steps
<1>9. CASE RemoveFinalizerErr
  BY <1>9, WrittenTypes, WriteTypes, CopyTypes DEF RemoveFinalizerErr, TypeOK, Steps
<1>10. CASE ReportLost BY <1>10, <1>4 DEF ReportLost, TypeOK
<1> QED BY <1>1, <1>2, <1>3, <1>5, <1>6, <1>7, <1>8, <1>9, <1>10

LEMMA EnvironmentType ==
    TypeOK /\ (SyncCache \/ Crash \/ Restart \/ User \/ Drift) => TypeOK'
<1> SUFFICES ASSUME TypeOK, SyncCache \/ Crash \/ Restart \/ User \/ Drift PROVE TypeOK'
  OBVIOUS
<1> USE DEF apiVars, copyVars, runVars, targetVars, boundVars
<1>a. MaxOps \in Nat /\ MaxCrashes \in Nat /\ MaxDrifts \in Nat
  BY BoundAssumption
<1>1. CASE SyncCache BY <1>1 DEF SyncCache, TypeOK
<1>2. CASE Crash
  <2>1. applied' \in Params \cup {None, Absent, Partial} /\ drift' \in BOOLEAN
    BY <1>2 DEF Crash, FailedRunLeaves, TypeOK
  <2>2. crashes' \in 0..MaxCrashes
    BY <1>2, <1>a DEF Crash, TypeOK
  <2>3. EndReconcile("down")
    BY <1>2 DEF Crash
  <2>4. /\ pc' \in Steps /\ cr' \in Resource /\ fresh' \in BOOLEAN
        /\ shouldDelete' \in BOOLEAN /\ observation' \in Observations
        /\ runner' \in Runner /\ runErr' \in BOOLEAN
    BY <2>3, ResourceTypes, RunnerTypes DEF EndReconcile, Steps, Observations
  <2> QED BY <1>2, <2>1, <2>2, <2>4 DEF Crash, TypeOK
<1>3. CASE Restart BY <1>3 DEF Restart, TypeOK, Steps
<1>4. ASSUME NEW op, NEW new \in Resource, UserWrite(op, new), owed' \in BOOLEAN
      PROVE  TypeOK'
  <2>1. ops' \in 0..MaxOps
    BY <1>4, <1>a DEF UserWrite, TypeOK
  <2> QED BY <1>4, <2>1 DEF UserWrite, TypeOK
<1>5. CASE User
  <2> USE DEF TypeOK
  <2>1. CASE Edit
    BY <2>1, <1>4, ResourceExcept DEF Edit
  <2>2. CASE Touch BY <2>2, <1>4 DEF Touch
  <2>3. CASE Apply
    <3>1. PICK spec \in Params :
             UserWrite("apply", [obj EXCEPT !.spec = spec, !.lastApplied = Foreign])
      BY <2>3 DEF Apply
    <3>2. [[obj EXCEPT !.spec = spec] EXCEPT !.lastApplied = Foreign] \in Resource
      BY ResourceExcept
    <3> QED BY <2>3, <3>1, <3>2, <1>4 DEF Apply
  <2>4. CASE SwitchRunPolicy
    <3>1. PICK spec \in Params, runPolicy \in RunPolicies :
             UserWrite("runPolicy", [obj EXCEPT !.runPolicy = runPolicy, !.spec = spec])
      BY <2>4 DEF SwitchRunPolicy
    <3>2. [[obj EXCEPT !.runPolicy = runPolicy] EXCEPT !.spec = spec] \in Resource
      BY ResourceExcept
    <3> QED BY <2>4, <3>1, <3>2, <1>4 DEF SwitchRunPolicy
  <2>5. CASE ResetDeletionPolicy
    BY <2>5, <1>4, ResourceExcept, ValueTypes DEF ResetDeletionPolicy
  <2>6. CASE UserDelete
    <3>1. [obj EXCEPT !.deleting = TRUE] \in Resource BY ResourceExcept
    <3> QED BY <2>6, <3>1, <1>4, ResourceTypes DEF UserDelete
  <2>7. CASE UserCreate BY <2>7, <1>4, ResourceTypes DEF UserCreate
  <2> QED BY <1>5, <2>1, <2>2, <2>3, <2>4, <2>5, <2>6, <2>7 DEF User
<1>6. CASE Drift BY <1>6, <1>a DEF Drift, TypeOK
<1> QED BY <1>1, <1>2, <1>3, <1>5, <1>6

LEMMA TypeStep == TypeOK /\ [Next]_vars => TypeOK'
<1>1. TypeOK /\ ReconcileOk => TypeOK'
  BY ClientOkType, ReconcilerType DEF ReconcileOk
<1>2. TypeOK /\ ReconcileErr => TypeOK'
  BY ClientErrType, ReconcilerType DEF ReconcileErr
<1>3. TypeOK /\ UNCHANGED vars => TypeOK'
  BY DEF TypeOK, vars, clientVars, boundVars
<1> QED BY <1>1, <1>2, <1>3, EnvironmentType DEF Next

LEMMA TypeInit == Init => TypeOK
<1> SUFFICES ASSUME Init PROVE TypeOK
  OBVIOUS
<1>1. obj \in Resource
  BY ResourceTypes DEF Init
<1>2. ops \in 0..MaxOps /\ crashes \in 0..MaxCrashes /\ drifts \in 0..MaxDrifts
  BY BoundAssumption DEF Init
<1> QED BY <1>1, <1>2, ResourceTypes, RunnerTypes DEF Init, TypeOK, Steps, Observations

(* The variables keep their types, for every value of the constants.        *)
THEOREM TypeCorrect == Spec => []TypeOK
BY TypeInit, TypeStep, PTL DEF Spec

-------------------------------------------------------------------------------
(* The copies a reconcile works on, and how far it is.                      *)

LEMMA ClientOkCopies == CopyInv /\ ClientOk /\ UNCHANGED boundVars => CopyInv'
<1> SUFFICES ASSUME CopyInv, ClientOk, TypeOK'
             PROVE  CopiesAgree' /\ Progress' /\ AnnotatedBeforeRun'
  BY TypeStep DEF CopyInv, Next, ReconcileOk, ReconcileErr
<1> USE DEF CopyInv, CopiesAgree, Progress, AnnotatedBeforeRun, Reconciling, apiVars,
     copyVars, runVars, targetVars
<1>1. CASE ConnectOk
  BY <1>1 DEF ConnectOk, InitAccepts
<1>2. CASE ObserveDeleted
  BY <1>2 DEF ObserveDeleted, TypeOK, Resource, SetDeletionPolicy
<1>3. CASE ObserveMissing
  BY <1>3 DEF ObserveMissing, SetDeletionPolicy
<1>4. CASE ObserveLastApplied
  <2> DEFINE desired == SetDeletionPolicy(cr)
  <2>1. /\ desired \in Resource /\ desired.spec = cr.spec /\ desired.synced = cr.synced
        /\ desired.exists = cr.exists /\ desired.deleting = cr.deleting
        /\ desired.finalizer = cr.finalizer /\ desired.lastApplied = cr.lastApplied
    BY OrphanFields
  <2>2. CASE NothingToRun(cache, desired)
    <3>1. desired.synced = "True"
      BY <2>2 DEF NothingToRun
    <3> QED BY <1>4, <2>1, <2>2, <3>1 DEF ObserveLastApplied, TypeOK
  <2>3. CASE ~NothingToRun(cache, desired)
    <3>1. cr' = [desired EXCEPT !.lastApplied = desired.spec] /\ pc' = "annotate"
      BY <1>4, <2>3 DEF ObserveLastApplied
    <3>2. /\ cr'.spec = desired.spec /\ cr'.synced = desired.synced
          /\ cr'.exists = desired.exists /\ cr'.deleting = desired.deleting
          /\ cr'.finalizer = desired.finalizer /\ cr'.lastApplied = desired.spec
      BY <2>1, <3>1 DEF Resource
    <3> QED BY <1>4, <2>1, <3>1, <3>2 DEF ObserveLastApplied, TypeOK
  <2> QED BY <2>2, <2>3
<1>5. CASE ObserveCheck
  BY <1>5 DEF ObserveCheck, SetDeletionPolicy, EnableCheckMode, Runner
<1>6. CASE SkipOk
  <2>1. /\ pc = "skip" /\ pc' = "observed" /\ observation' = "upToDate" /\ runner' = runner
        /\ obj' = Skip /\ cr' = obj' /\ fresh /\ fresh'
        /\ cacheFresh' = (cacheFresh /\ obj' = obj) /\ cache' = cache
    BY <1>6 DEF SkipOk, WriteOk, Land
  <2>2. obj'.exists = obj.exists /\ obj'.spec = obj.spec
    BY <2>1, SkipFields DEF SameMeta
  <2>3. CopiesAgree'
    BY <2>1, <2>2
  <2>4. Progress'
    BY <2>1, <2>2
  <2> QED BY <2>1, <2>3, <2>4
<1>7. CASE AnnotateOk
  <2>1. /\ pc = "annotate" /\ pc' = "extravar" /\ UNCHANGED runVars
        /\ obj' = Updated(obj, cr) /\ cr' = obj' /\ fresh /\ fresh'
        /\ cacheFresh' = (cacheFresh /\ obj' = obj) /\ cache' = cache
    BY <1>7 DEF AnnotateOk, WriteOk, Land
  <2>2. /\ obj'.exists = cr.exists /\ obj'.spec = cr.spec
        /\ obj'.lastApplied = cr.lastApplied
    BY <2>1, UpdatedFields DEF SameMeta
  <2>3. CopiesAgree'
    BY <2>1, <2>2
  <2>4. Progress'
    BY <2>1, <2>2
  <2> QED BY <2>1, <2>3, <2>4
<1>8. CASE WriteExtraVarOk
  BY <1>8 DEF WriteExtraVarOk, Runner
<1>9. CASE RunOk
  BY <1>9 DEF RunOk
<1>10. CASE RecordOk
  <2>1. /\ obj' = StatusUpdated(obj, cr) /\ cr' = obj' /\ fresh /\ fresh'
        /\ cacheFresh' = (cacheFresh /\ obj' = obj) /\ cache' = cache
    BY <1>10 DEF RecordOk, WriteOk, Land
  <2>2. obj'.exists = obj.exists /\ obj'.spec = obj.spec /\ obj'.deleting = obj.deleting
    BY <2>1, StatusFields DEF SameMeta
  <2>3. pc' \in {"report", "success", "observed"} /\ pc = "record"
    BY <1>10 DEF RecordOk
  <2>4. observation' = "missing" => observation = "missing"
    BY <1>10 DEF RecordOk
  <2>5. CopiesAgree'
    BY <2>1, <2>2, <2>3 DEF TypeOK
  <2>6. Progress'
    BY <1>10, <2>1, <2>2, <2>3, <2>4 DEF RecordOk, TypeOK
  <2> QED BY <2>3, <2>5, <2>6
<1>11. CASE CheckOk
  BY <1>11 DEF CheckOk
<1>12. CASE Update
  BY <1>12 DEF Update, EnableCheckMode, Runner
<1>13. CASE Delete
  BY <1>13 DEF Delete, Runner
<1>14. CASE DestroyOk
  BY <1>14 DEF DestroyOk
<1> QED BY <1>1, <1>2, <1>3, <1>4, <1>5, <1>6, <1>7, <1>8, <1>9, <1>10, <1>11, <1>12,
     <1>13, <1>14 DEF ClientOk

(* A write that fails, or whose response is lost, ends the reconcile.        *)
LEMMA WriteErrCopies ==
    ASSUME CopyInv, NEW new, WriteErr(new), pc' = "report", UNCHANGED runVars,
           pc \in {"skip", "annotate", "record", "finalizer", "unfinalize"}
    PROVE  CopiesAgree' /\ Progress' /\ AnnotatedBeforeRun'
<1> USE DEF CopyInv, CopiesAgree, Progress, AnnotatedBeforeRun, Reconciling, apiVars,
     copyVars, runVars
<1>1. CASE UNCHANGED <<apiVars, copyVars>>
  BY <1>1
<1>2. CASE Land(new) /\ fresh' = (new = obj) /\ UNCHANGED cr
  <2>1. obj' = new /\ cacheFresh' = (cacheFresh /\ obj' = obj) /\ cache' = cache /\ fresh
    BY <1>2 DEF Land
  <2>2. (fresh' => UNCHANGED obj) /\ cr' = cr
    BY <1>2, <2>1
  <2> QED BY <2>1, <2>2 DEF TypeOK
<1> QED BY <1>1, <1>2 DEF WriteErr

LEMMA ClientErrCopies == CopyInv /\ ClientErr /\ UNCHANGED boundVars => CopyInv'
<1> SUFFICES ASSUME CopyInv, ClientErr, TypeOK'
             PROVE  CopiesAgree' /\ Progress' /\ AnnotatedBeforeRun'
  BY TypeStep DEF CopyInv, Next, ReconcileOk, ReconcileErr
<1> USE DEF CopyInv, CopiesAgree, Progress, AnnotatedBeforeRun, Reconciling, apiVars,
     copyVars, runVars, targetVars
<1>1. CASE ConnectErr
  BY <1>1 DEF ConnectErr
<1>2. CASE ObserveErr
  BY <1>2 DEF ObserveErr, SetDeletionPolicy
<1>3. CASE SkipErr
  BY <1>3, WriteErrCopies DEF SkipErr
<1>4. CASE AnnotateErr
  BY <1>4, WriteErrCopies DEF AnnotateErr
<1>5. CASE WriteExtraVarErr
  BY <1>5 DEF WriteExtraVarErr
<1>6. CASE RunErr
  BY <1>6 DEF RunErr
<1>7. CASE RecordErr
  BY <1>7, WriteErrCopies DEF RecordErr
<1>8. CASE CheckErr
  BY <1>8 DEF CheckErr
<1>9. CASE DestroyErr
  <2>1. /\ pc \in {"delete", "destroying"} /\ pc' = "report"
        /\ UNCHANGED <<apiVars, fresh, runVars>>
    BY <1>9 DEF DestroyErr
  <2>2. /\ cr'.exists = cr.exists /\ cr'.deleting = cr.deleting
        /\ cr'.finalizer = cr.finalizer /\ cr'.spec = cr.spec /\ cr'.synced = cr.synced
    BY <1>9, DestroyErrFields DEF SameMeta
  <2> QED BY <2>1, <2>2
<1> QED BY <1>1, <1>2, <1>3, <1>4, <1>5, <1>6, <1>7, <1>8, <1>9 DEF ClientErr

LEMMA ReconcilerCopies ==
    ASSUME CopyInv, TypeOK',
           \/ StartReconcile \/ AfterObserve \/ AddFinalizerOk \/ RemoveFinalizerOk
           \/ ReportSuccess \/ ReportError
           \/ AddFinalizerErr \/ RemoveFinalizerErr \/ ReportLost
    PROVE  CopiesAgree' /\ Progress' /\ AnnotatedBeforeRun'
<1> USE DEF CopyInv, CopiesAgree, Progress, AnnotatedBeforeRun, Reconciling, apiVars,
     copyVars, runVars, targetVars
<1>1. CASE StartReconcile
  BY <1>1 DEF StartReconcile
<1>2. CASE AfterObserve
  BY <1>2 DEF AfterObserve
<1>3. CASE AddFinalizerOk
  <2>1. /\ pc = "finalizer" /\ UNCHANGED runVars
        /\ pc' = CASE observation = "missing"  -> "create"
                   [] observation = "outdated" -> "update"
                   [] OTHER                    -> "success"
    BY <1>3 DEF AddFinalizerOk, AfterFinalizer
  <2>2. CASE cr.finalizer
    <3>1. UNCHANGED <<apiVars, copyVars>>
      BY <1>3, <2>2 DEF AddFinalizerOk
    <3> QED BY <2>1, <3>1
  <2>3. CASE ~cr.finalizer
    <3>1. /\ obj' = Finalized /\ cr' = obj' /\ fresh /\ fresh'
          /\ cacheFresh' = (cacheFresh /\ obj' = obj) /\ cache' = cache
      BY <1>3, <2>3 DEF AddFinalizerOk, WriteOk, Land
    <3>2. obj'.exists = cr.exists /\ obj'.spec = cr.spec
      BY <3>1, FinalizedFields
    <3> QED BY <2>1, <3>1, <3>2
  <2> QED BY <2>2, <2>3
<1>4. CASE RemoveFinalizerOk
  BY <1>4 DEF RemoveFinalizerOk, EndReconcile, Land, NoRunner
<1>5. CASE ReportSuccess
  BY <1>5 DEF ReportSuccess, EndReconcile, Land, NoRunner
<1>6. CASE ReportError
  BY <1>6 DEF ReportError, EndReconcile, Land, NoRunner
<1>7. CASE AddFinalizerErr
  BY <1>7, WriteErrCopies DEF AddFinalizerErr
<1>8. CASE RemoveFinalizerErr
  BY <1>8, WriteErrCopies DEF RemoveFinalizerErr
<1>9. CASE ReportLost
  BY <1>9 DEF ReportLost, EndReconcile, NoRunner
<1> QED BY <1>1, <1>2, <1>3, <1>4, <1>5, <1>6, <1>7, <1>8, <1>9

LEMMA EnvironmentCopies ==
    ASSUME CopyInv, TypeOK', SyncCache \/ Crash \/ Restart \/ User \/ Drift
    PROVE  CopiesAgree' /\ Progress' /\ AnnotatedBeforeRun'
<1> USE DEF CopyInv, CopiesAgree, Progress, AnnotatedBeforeRun, Reconciling, apiVars,
     copyVars, runVars, targetVars
<1>1. CASE SyncCache
  BY <1>1 DEF SyncCache
<1>2. CASE Crash
  BY <1>2 DEF Crash, EndReconcile, NoRunner
<1>3. CASE Restart
  BY <1>3 DEF Restart
<1>4. ASSUME NEW op, NEW new, UserWrite(op, new)
      PROVE  CopiesAgree' /\ Progress' /\ AnnotatedBeforeRun'
  BY <1>4 DEF UserWrite
<1>5. CASE User
  BY <1>5, <1>4 DEF User, Edit, Touch, Apply, SwitchRunPolicy, ResetDeletionPolicy,
       UserDelete, UserCreate
<1>6. CASE Drift
  BY <1>6 DEF Drift
<1> QED BY <1>1, <1>2, <1>3, <1>5, <1>6

LEMMA CopyStep == CopyInv /\ [Next]_vars => CopyInv'
<1>1. CopyInv /\ [Next]_vars => TypeOK'
  BY TypeStep DEF CopyInv
<1>2. CopyInv /\ ReconcileOk => CopyInv'
  BY <1>1, ClientOkCopies, ReconcilerCopies DEF CopyInv, ReconcileOk, Next
<1>3. CopyInv /\ ReconcileErr => CopyInv'
  BY <1>1, ClientErrCopies, ReconcilerCopies DEF CopyInv, ReconcileErr, Next
<1>4. CopyInv /\ (SyncCache \/ Crash \/ Restart \/ User \/ Drift) => CopyInv'
  BY <1>1, EnvironmentCopies DEF CopyInv, Next
<1>5. CopyInv /\ UNCHANGED vars => CopyInv'
  BY DEF CopyInv, TypeOK, CopiesAgree, Progress, AnnotatedBeforeRun, Reconciling,
       vars, clientVars, boundVars
<1> QED BY <1>2, <1>3, <1>4, <1>5 DEF Next

LEMMA CopyInvariant == Spec => []CopyInv
<1>1. Init => TypeOK
  BY TypeInit
<1>2. Init => CopyInv
  BY <1>1 DEF Init, CopyInv, CopiesAgree, Progress, AnnotatedBeforeRun, Reconciling,
       NoResource, NoRunner
<1> QED BY <1>2, CopyStep, PTL DEF Spec

(* No run starts from Observe before the annotation that claims it reached  *)
(* the API server: handleLastApplied's order, for any number of parameters, *)
(* users' operations and crashes.                                           *)
THEOREM AnnotatedFirst == Spec => []AnnotatedBeforeRun
<1>1. CopyInv => AnnotatedBeforeRun
  BY DEF CopyInv
<1> QED BY <1>1, CopyInvariant, PTL

-------------------------------------------------------------------------------
(* Who takes the finalizer away.                                            *)

LEMMA ClientOkKept == CopyInv /\ FinalizerKept /\ ClientOk => FinalizerKept'
<1> SUFFICES ASSUME CopyInv, FinalizerKept, ClientOk PROVE FinalizerKept'
  OBVIOUS
<1> USE DEF CopyInv, CopiesAgree, FinalizerKept, CreateNeverRuns, Reconciling, apiVars,
     copyVars, runVars
<1>1. CASE ConnectOk
  BY <1>1 DEF ConnectOk
<1>2. CASE ObserveDeleted
  BY <1>2 DEF ObserveDeleted, SetDeletionPolicy, TypeOK, Resource
<1>3. CASE ObserveMissing
  BY <1>3 DEF ObserveMissing, SetDeletionPolicy, TypeOK, Resource
<1>4. CASE ObserveLastApplied
  <2>1. cr'.finalizer = cr.finalizer /\ cr'.deleting = cr.deleting
    BY <1>4 DEF ObserveLastApplied, SetDeletionPolicy, TypeOK, Resource
  <2>2. pc = "observe" /\ pc' \in {"skip", "annotate"}
        /\ UNCHANGED <<obj, cache, fresh, observation>>
    BY <1>4 DEF ObserveLastApplied
  <2> QED BY <2>1, <2>2
<1>5. CASE ObserveCheck
  BY <1>5 DEF ObserveCheck, SetDeletionPolicy, TypeOK, Resource
<1>6. CASE SkipOk
  <2>1. /\ pc = "skip" /\ pc' = "observed" /\ observation' = "upToDate" /\ fresh
        /\ obj' = cr' /\ obj' = Skip /\ UNCHANGED cache
    BY <1>6 DEF SkipOk, WriteOk, Land
  <2>2. /\ obj'.finalizer = obj.finalizer /\ obj'.deleting = obj.deleting
        /\ obj'.exists = obj.exists
    BY <2>1, SkipFields DEF SameMeta
  <2> QED BY <2>1, <2>2
<1>7. CASE AnnotateOk
  <2>1. /\ pc = "annotate" /\ pc' = "extravar" /\ UNCHANGED observation /\ fresh
        /\ obj' = cr' /\ obj' = Updated(obj, cr) /\ UNCHANGED cache
    BY <1>7 DEF AnnotateOk, WriteOk, Land
  <2>2. /\ obj'.finalizer = obj.finalizer /\ obj'.deleting = obj.deleting
        /\ obj'.exists = obj.exists
    BY <2>1, UpdatedFields DEF SameMeta
  <2> QED BY <2>1, <2>2
<1>8. CASE WriteExtraVarOk
  BY <1>8 DEF WriteExtraVarOk
<1>9. CASE RunOk
  BY <1>9 DEF RunOk, TypeOK, Resource
<1>10. CASE RecordOk
  <2>1. fresh /\ obj' = cr' /\ cr' = StatusUpdated(obj, cr) /\ UNCHANGED cache
    BY <1>10 DEF RecordOk, WriteOk, Land
  <2>2. /\ obj'.finalizer = obj.finalizer /\ obj'.deleting = obj.deleting
        /\ obj'.exists = obj.exists
    BY <2>1, StatusFields DEF SameMeta
  <2>3. pc = "record" /\ pc' \in {"report", "success", "observed"}
        /\ (observation' = "missing" => observation = "missing")
    BY <1>10 DEF RecordOk
  <2> QED BY <2>1, <2>2, <2>3
<1>11. CASE CheckOk
  BY <1>11 DEF CheckOk
<1>12. CASE Update
  BY <1>12 DEF Update
<1>13. CASE Delete
  BY <1>13 DEF Delete, TypeOK, Resource
<1>14. CASE DestroyOk
  BY <1>14 DEF DestroyOk
<1> QED BY <1>1, <1>2, <1>3, <1>4, <1>5, <1>6, <1>7, <1>8, <1>9, <1>10, <1>11, <1>12,
     <1>13, <1>14 DEF ClientOk

LEMMA ClientErrKept == CopyInv /\ FinalizerKept /\ ClientErr => FinalizerKept'
<1> SUFFICES ASSUME CopyInv, FinalizerKept, ClientErr PROVE FinalizerKept'
  OBVIOUS
<1> USE DEF CopyInv, CopiesAgree, FinalizerKept, CreateNeverRuns, Reconciling, apiVars,
     copyVars, runVars
<1>1. ASSUME NEW new, WriteErr(new), pc' = "report", UNCHANGED runVars,
             pc \in {"skip", "annotate", "record"},
             fresh => /\ new.exists = obj.exists /\ new.deleting = obj.deleting
                      /\ new.finalizer = obj.finalizer
      PROVE  FinalizerKept'
  <2>1. /\ UNCHANGED <<cache, cr, observation>> /\ (fresh' => fresh)
        /\ obj'.exists = obj.exists /\ obj'.deleting = obj.deleting
        /\ obj'.finalizer = obj.finalizer
    BY <1>1 DEF WriteErr, Land
  <2> QED BY <1>1, <2>1
<1>2. CASE ConnectErr
  BY <1>2 DEF ConnectErr
<1>3. CASE ObserveErr
  BY <1>3 DEF ObserveErr, SetDeletionPolicy, TypeOK, Resource
<1>4. CASE SkipErr
  BY <1>4, <1>1, SkipFields DEF SkipErr, SameMeta
<1>5. CASE AnnotateErr
  BY <1>5, <1>1, UpdatedFields DEF AnnotateErr, SameMeta
<1>6. CASE WriteExtraVarErr
  BY <1>6 DEF WriteExtraVarErr
<1>7. CASE RunErr
  BY <1>7 DEF RunErr, TypeOK, Resource
<1>8. CASE RecordErr
  BY <1>8, <1>1, StatusFields DEF RecordErr, SameMeta
<1>9. CASE CheckErr
  BY <1>9 DEF CheckErr
<1>10. CASE DestroyErr
  <2>1. /\ pc \in {"delete", "destroying"} /\ pc' = "report"
        /\ UNCHANGED <<apiVars, fresh, runVars>>
    BY <1>10 DEF DestroyErr
  <2>2. cr'.deleting = cr.deleting /\ cr'.finalizer = cr.finalizer
    BY <1>10, DestroyErrFields DEF SameMeta
  <2> QED BY <2>1, <2>2
<1> QED BY <1>2, <1>3, <1>4, <1>5, <1>6, <1>7, <1>8, <1>9, <1>10 DEF ClientErr

(* Taking the finalizer away is left to a reconcile that saw the deletion,  *)
(* and so was what it read since.                                           *)
LEMMA ReconcilerKept ==
    ASSUME CopyInv, FinalizerKept,
           \/ StartReconcile \/ AfterObserve \/ AddFinalizerOk \/ RemoveFinalizerOk
           \/ ReportSuccess \/ ReportError
           \/ AddFinalizerErr \/ RemoveFinalizerErr \/ ReportLost
    PROVE  FinalizerKept'
<1> USE DEF CopyInv, CopiesAgree, Progress, FinalizerKept, CreateNeverRuns, Reconciling,
     apiVars, copyVars, runVars
<1>1. CASE StartReconcile
  BY <1>1 DEF StartReconcile
<1>2. CASE AfterObserve
  BY <1>2 DEF AfterObserve
<1>3. CASE AddFinalizerOk
  <2>1. /\ pc = "finalizer" /\ UNCHANGED runVars
        /\ pc' = CASE observation = "missing"  -> "create"
                   [] observation = "outdated" -> "update"
                   [] OTHER                    -> "success"
    BY <1>3 DEF AddFinalizerOk, AfterFinalizer
  <2>2. CASE cr.finalizer
    <3>1. UNCHANGED <<apiVars, copyVars>>
      BY <1>3, <2>2 DEF AddFinalizerOk
    <3> QED BY <2>1, <2>2, <3>1
  <2>3. CASE ~cr.finalizer
    <3>1. obj' = Finalized /\ cr' = obj' /\ fresh /\ cache' = cache
      BY <1>3, <2>3 DEF AddFinalizerOk, WriteOk, Land
    <3>2. obj'.exists /\ obj'.finalizer /\ obj'.deleting = cr.deleting
      BY <3>1, <2>1, FinalizedFields
    <3> QED BY <2>1, <3>1, <3>2
  <2> QED BY <2>2, <2>3
<1>4. CASE RemoveFinalizerOk
  <2>1. pc = "unfinalize" /\ ~fresh' /\ UNCHANGED cache /\ pc' = "idle"
        /\ observation' = "none"
    BY <1>4 DEF RemoveFinalizerOk, EndReconcile, Land
  <2>2. CASE UNCHANGED obj
    BY <2>1, <2>2
  <2>3. CASE fresh /\ obj' = Unfinalized
    <3>1. obj' = NoResource
      BY <2>1, <2>3 DEF Unfinalized
    <3> QED BY <2>1, <3>1 DEF NoResource
  <2> QED BY <1>4, <2>2, <2>3 DEF RemoveFinalizerOk, Land
<1>5. CASE ReportSuccess
  BY <1>5, ReportedFields DEF ReportSuccess, EndReconcile, Land, SameMeta
<1>6. CASE ReportError
  BY <1>6, ReportedFields DEF ReportError, EndReconcile, Land, SameMeta
<1>7. CASE AddFinalizerErr
  <2>1. pc = "finalizer" /\ pc' = "report" /\ UNCHANGED <<cache, cr, observation>>
        /\ (fresh' => fresh)
    BY <1>7 DEF AddFinalizerErr, WriteErr, Land
  <2>2. CASE UNCHANGED obj
    BY <2>1, <2>2
  <2>3. CASE fresh /\ obj' = Finalized
    <3>1. obj'.exists /\ obj'.finalizer /\ obj'.deleting = cr.deleting
      BY <2>1, <2>3, FinalizedFields
    <3> QED BY <2>1, <2>3, <3>1
  <2> QED BY <1>7, <2>2, <2>3 DEF AddFinalizerErr, WriteErr, Land
<1>8. CASE RemoveFinalizerErr
  <2>1. pc = "unfinalize" /\ pc' = "report" /\ UNCHANGED <<cache, cr, observation>>
        /\ (fresh' => fresh)
    BY <1>8 DEF RemoveFinalizerErr, WriteErr, Land
  <2>2. CASE UNCHANGED obj
    BY <2>1, <2>2
  <2>3. CASE fresh /\ obj' = Unfinalized
    <3>1. obj' = NoResource
      BY <2>1, <2>3 DEF Unfinalized
    <3> QED BY <2>1, <3>1 DEF NoResource
  <2> QED BY <1>8, <2>2, <2>3 DEF RemoveFinalizerErr, WriteErr, Land
<1>9. CASE ReportLost
  BY <1>9 DEF ReportLost, EndReconcile
<1> QED BY <1>1, <1>2, <1>3, <1>4, <1>5, <1>6, <1>7, <1>8, <1>9

LEMMA EnvironmentKept ==
    ASSUME CopyInv, FinalizerKept, SyncCache \/ Crash \/ Restart \/ User \/ Drift
    PROVE  FinalizerKept'
<1> USE DEF CopyInv, CopiesAgree, FinalizerKept, CreateNeverRuns, Reconciling, apiVars,
     copyVars, runVars
<1>1. CASE SyncCache
  BY <1>1 DEF SyncCache
<1>2. CASE Crash
  BY <1>2 DEF Crash, EndReconcile
<1>3. CASE Restart
  BY <1>3 DEF Restart
<1>4. ASSUME NEW op, NEW new, UserWrite(op, new),
             \/ ~obj.finalizer /\ ~new.finalizer
             \/ new.finalizer = obj.finalizer /\ new.exists /\ (obj.deleting => new.deleting)
      PROVE  FinalizerKept'
  <2>1. obj' = new /\ ~fresh' /\ UNCHANGED <<cache, cr, pc, observation>>
    BY <1>4 DEF UserWrite
  <2>2. CASE ~obj.finalizer /\ ~new.finalizer
    BY <2>1, <2>2
  <2>3. CASE new.finalizer = obj.finalizer /\ new.exists /\ (obj.deleting => new.deleting)
    BY <2>1, <2>3
  <2> QED BY <1>4, <2>2, <2>3
<1>5. CASE Edit
  <2>1. PICK spec \in Params : UserWrite("edit", [obj EXCEPT !.spec = spec])
    BY <1>5 DEF Edit
  <2> QED BY <1>5, <1>4, <2>1 DEF Edit, TypeOK, Resource
<1>6. CASE Touch
  BY <1>6, <1>4 DEF Touch
<1>7. CASE Apply
  <2>1. PICK spec \in Params :
           UserWrite("apply", [obj EXCEPT !.spec = spec, !.lastApplied = Foreign])
    BY <1>7 DEF Apply
  <2> QED BY <1>7, <1>4, <2>1 DEF Apply, TypeOK, Resource
<1>8. CASE SwitchRunPolicy
  <2>1. PICK spec \in Params, runPolicy \in RunPolicies :
           UserWrite("runPolicy", [obj EXCEPT !.runPolicy = runPolicy, !.spec = spec])
    BY <1>8 DEF SwitchRunPolicy
  <2> QED BY <1>8, <1>4, <2>1 DEF SwitchRunPolicy, TypeOK, Resource
<1>9. CASE ResetDeletionPolicy
  BY <1>9, <1>4 DEF ResetDeletionPolicy, TypeOK, Resource
<1>10. CASE UserDelete
  <2>1. CASE obj.finalizer
    BY <1>10, <1>4, <2>1 DEF UserDelete, TypeOK, Resource
  <2>2. CASE ~obj.finalizer
    BY <1>10, <1>4, <2>2 DEF UserDelete, NoResource
  <2> QED BY <2>1, <2>2
<1>11. CASE UserCreate
  BY <1>11, <1>4 DEF UserCreate, NewResource, NoResource
<1>12. CASE Drift
  BY <1>12 DEF Drift
<1> QED BY <1>1, <1>2, <1>3, <1>5, <1>6, <1>7, <1>8, <1>9, <1>10, <1>11, <1>12 DEF User

LEMMA KeptStep == CopyInv /\ FinalizerKept /\ [Next]_vars => FinalizerKept'
<1>1. CASE UNCHANGED vars
  BY <1>1 DEF FinalizerKept, CreateNeverRuns, Reconciling, vars, clientVars
<1> QED BY <1>1, ClientOkKept, ClientErrKept, ReconcilerKept, EnvironmentKept
        DEF Next, ReconcileOk, ReconcileErr

LEMMA KeptInvariant == Spec => []FinalizerKept
<1>1. Init => FinalizerKept
  BY DEF Init, FinalizerKept, CreateNeverRuns, Reconciling, NoResource, NewResource
<1> QED BY <1>1, KeptStep, CopyInvariant, PTL DEF Spec

(* Create is out of reach: Observe reports a missing object only to a       *)
(* reconcile whose copy has no finalizer and is refused by the API server,  *)
(* so that the AddFinalizer that precedes Create fails.                     *)
THEOREM CreateUnreachable == Spec => []CreateNeverRuns
<1>1. FinalizerKept => CreateNeverRuns
  BY DEF FinalizerKept
<1> QED BY <1>1, KeptInvariant, PTL

===============================================================================
