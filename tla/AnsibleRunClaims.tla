--------------------------- MODULE AnsibleRunClaims ---------------------------
(***************************************************************************)
(* Proofs about what an AnsibleRun claims: that the finalizer comes with    *)
(* the Orphan policy, that a copy's run policy is the object's while nobody *)
(* switches it, and that a reported success means an applied spec.          *)
(***************************************************************************)
EXTENDS AnsibleRunProofs

-------------------------------------------------------------------------------
(* The deletion policy.                                                     *)

(* What an object must be for the policy to come with the finalizer.         *)
OrphanSafe(r) ==
    /\ r.finalizer => r.deletionPolicy = "Orphan"
    /\ r.deleting => r.finalizer
    /\ r.synced = "True" => r.finalizer

(* A reconcile that ends, or is about to, has nothing else to keep.          *)
LEMMA EndOrphan ==
    ASSUME OrphanInv, pc' \in {"idle", "report"}, obj' = obj \/ OrphanSafe(obj')
    PROVE  OrphanInv'
BY DEF OrphanInv, FinalizerImpliesOrphan, OrphanSafe

LEMMA ClientOkOrphan ==
    ASSUME CopyInv, OrphanInv, TypeOK', "deletionPolicy" \notin UserOps, ClientOk
    PROVE  OrphanInv'
<1> USE DEF CopyInv, CopiesAgree, Progress, Reconciling, OrphanInv,
     FinalizerImpliesOrphan, apiVars, copyVars, runVars, targetVars
<1>1. CASE ConnectOk
  BY <1>1 DEF ConnectOk
<1>2. CASE ObserveDeleted
  BY <1>2 DEF ObserveDeleted, SetDeletionPolicy
<1>3. CASE ObserveMissing
  BY <1>3 DEF ObserveMissing, SetDeletionPolicy
<1>4. CASE ObserveLastApplied
  <2> DEFINE desired == SetDeletionPolicy(cr)
  <2>1. desired \in Resource /\ desired.deletionPolicy = "Orphan"
    BY OrphanFields
  <2>2. [desired EXCEPT !.lastApplied = desired.spec].deletionPolicy = "Orphan"
    BY <2>1 DEF Resource
  <2>3. /\ UNCHANGED <<apiVars, fresh, observation>> /\ pc' \in {"skip", "annotate"}
        /\ pc' = "annotate" => cr' = [desired EXCEPT !.lastApplied = desired.spec]
    BY <1>4 DEF ObserveLastApplied
  <2> HIDE DEF desired
  <2> QED BY <2>2, <2>3
<1>5. CASE ObserveCheck
  BY <1>5 DEF ObserveCheck, SetDeletionPolicy, EnableCheckMode, Runner
<1>6. CASE SkipOk
  <2>1. /\ pc = "skip" /\ pc' = "observed" /\ observation' = "upToDate" /\ fresh
        /\ cr' = obj' /\ obj' = Skip
    BY <1>6 DEF SkipOk, WriteOk, Land
  <2>2. /\ obj'.finalizer = obj.finalizer /\ obj'.deletionPolicy = obj.deletionPolicy
        /\ obj'.deleting = obj.deleting /\ obj.synced = "True"
        /\ obj'.synced = obj.synced
    BY <2>1, SkipFields DEF SameMeta
  <2> QED BY <2>1, <2>2
<1>7. CASE AnnotateOk
  <2>1. /\ pc = "annotate" /\ pc' = "extravar" /\ UNCHANGED observation /\ fresh
        /\ cr' = obj' /\ obj' = Updated(obj, cr)
    BY <1>7 DEF AnnotateOk, WriteOk, Land
  <2>2. /\ obj'.finalizer = obj.finalizer /\ obj'.deletionPolicy = cr.deletionPolicy
        /\ obj'.deleting = obj.deleting /\ obj'.synced = obj.synced
    BY <2>1, UpdatedFields DEF SameMeta
  <2> QED BY <2>1, <2>2
<1>8. CASE WriteExtraVarOk
  BY <1>8 DEF WriteExtraVarOk, Runner
<1>9. CASE RunOk
  BY <1>9 DEF RunOk, RunLeaves
<1>10. CASE RecordOk
  <2>1. /\ pc = "record" /\ pc' \in {"report", "success", "observed"} /\ fresh
        /\ pc' = "success" => observation = "outdated"
        /\ cr' = obj' /\ obj' = StatusUpdated(obj, cr)
    BY <1>10 DEF RecordOk, WriteOk, Land
  <2>2. /\ obj'.finalizer = obj.finalizer /\ obj'.deletionPolicy = obj.deletionPolicy
        /\ obj'.deleting = obj.deleting /\ obj'.synced = obj.synced
    BY <2>1, StatusFields DEF SameMeta
  <2> QED BY <2>1, <2>2
<1>11. CASE CheckOk
  BY <1>11 DEF CheckOk
<1>12. CASE Update
  BY <1>12 DEF Update, EnableCheckMode, Runner
<1>13. CASE Delete
  BY <1>13 DEF Delete, Runner
<1>14. CASE DestroyOk
  BY <1>14 DEF DestroyOk, RunLeaves
<1> QED BY <1>1, <1>2, <1>3, <1>4, <1>5, <1>6, <1>7, <1>8, <1>9, <1>10, <1>11, <1>12,
     <1>13, <1>14 DEF ClientOk

LEMMA ClientErrOrphan ==
    ASSUME CopyInv, OrphanInv, TypeOK', "deletionPolicy" \notin UserOps, ClientErr
    PROVE  OrphanInv'
<1> USE DEF CopyInv, CopiesAgree, Progress, Reconciling, OrphanInv,
     FinalizerImpliesOrphan, apiVars, copyVars, runVars, targetVars
<1>1. CASE ConnectErr
  BY <1>1 DEF ConnectErr
<1>2. CASE ObserveErr
  BY <1>2 DEF ObserveErr, SetDeletionPolicy
<1>3. CASE SkipErr
  <2>1. pc' = "report" /\ (obj' = obj \/ (fresh /\ obj' = Skip))
    BY <1>3, WriteErrEffect DEF SkipErr
  <2>2. fresh => OrphanSafe(Skip)
    BY SkipFields DEF OrphanSafe, SameMeta
  <2> QED BY <2>1, <2>2, EndOrphan
<1>4. CASE AnnotateErr
  <2>1. pc = "annotate" /\ pc' = "report" /\ (obj' = obj \/ (fresh /\ obj' = Updated(obj, cr)))
    BY <1>4, WriteErrEffect DEF AnnotateErr
  <2>2. fresh => OrphanSafe(Updated(obj, cr))
    BY <2>1, UpdatedFields DEF OrphanSafe, SameMeta
  <2> QED BY <2>1, <2>2, EndOrphan
<1>5. CASE WriteExtraVarErr
  BY <1>5 DEF WriteExtraVarErr
<1>6. CASE RunErr
  BY <1>6 DEF RunErr, FailedRunLeaves
<1>7. CASE RecordErr
  <2>1. pc' = "report" /\ (obj' = obj \/ (fresh /\ obj' = StatusUpdated(obj, cr)))
    BY <1>7, WriteErrEffect DEF RecordErr
  <2>2. fresh => OrphanSafe(StatusUpdated(obj, cr))
    BY StatusFields DEF OrphanSafe, SameMeta
  <2> QED BY <2>1, <2>2, EndOrphan
<1>8. CASE CheckErr
  BY <1>8 DEF CheckErr
<1>9. CASE DestroyErr
  BY <1>9 DEF DestroyErr, FailedRunLeaves
<1> QED BY <1>1, <1>2, <1>3, <1>4, <1>5, <1>6, <1>7, <1>8, <1>9 DEF ClientErr

LEMMA ReconcilerOrphan ==
    ASSUME CopyInv, OrphanInv, TypeOK', "deletionPolicy" \notin UserOps,
           \/ StartReconcile \/ AfterObserve \/ AddFinalizerOk \/ RemoveFinalizerOk
           \/ ReportSuccess \/ ReportError \/ AddFinalizerErr
           \/ RemoveFinalizerErr \/ ReportLost
    PROVE  OrphanInv'
<1> USE DEF CopyInv, CopiesAgree, Progress, Reconciling, OrphanInv,
     FinalizerImpliesOrphan, apiVars, copyVars, runVars, targetVars
<1>1. CASE StartReconcile
  BY <1>1 DEF StartReconcile
<1>2. CASE AfterObserve
  BY <1>2 DEF AfterObserve
<1>3. CASE AddFinalizerOk
  <2>1. /\ pc = "finalizer" /\ UNCHANGED observation
        /\ pc' \in {"create", "update", "success"}
    BY <1>3 DEF AddFinalizerOk, AfterFinalizer
  <2>2. CASE cr.finalizer
    <3>1. UNCHANGED <<obj, fresh>>
      BY <1>3, <2>2 DEF AddFinalizerOk
    <3> QED BY <2>1, <2>2, <3>1
  <2>3. CASE ~cr.finalizer
    <3>1. fresh /\ obj' = Finalized
      BY <1>3, <2>3 DEF AddFinalizerOk, WriteOk, Land
    <3>2. obj'.finalizer /\ obj'.deletionPolicy = cr.deletionPolicy
      BY <3>1, FinalizedFields
    <3> QED BY <2>1, <3>1, <3>2
  <2> QED BY <2>2, <2>3
<1>4. CASE RemoveFinalizerOk
  <2>1. pc' = "idle" /\ (obj' = obj \/ (fresh /\ obj' = Unfinalized))
    BY <1>4 DEF RemoveFinalizerOk, EndReconcile, Land
  <2>2. fresh => OrphanSafe(Unfinalized)
    BY <1>4 DEF RemoveFinalizerOk, Unfinalized, NoResource, OrphanSafe
  <2> QED BY <2>1, <2>2, EndOrphan
<1>5. CASE ReportSuccess
  <2>1. pc = "success" /\ pc' = "idle" /\ fresh /\ obj' = Reported("True")
    BY <1>5 DEF ReportSuccess, EndReconcile, Land
  <2>2. OrphanSafe(Reported("True"))
    BY <2>1, ReportedFields DEF OrphanSafe, SameMeta
  <2> QED BY <2>1, <2>2, EndOrphan
<1>6. CASE ReportError
  <2>1. pc' = "idle" /\ obj' = Reported("False")
    BY <1>6 DEF ReportError, EndReconcile, Land
  <2>2. OrphanSafe(Reported("False"))
    BY ReportedFields DEF OrphanSafe, SameMeta
  <2> QED BY <2>1, <2>2, EndOrphan
<1>7. CASE AddFinalizerErr
  <2>1. pc = "finalizer" /\ pc' = "report" /\ (obj' = obj \/ (fresh /\ obj' = Finalized))
    BY <1>7, WriteErrEffect DEF AddFinalizerErr
  <2>2. fresh => OrphanSafe(Finalized)
    BY <2>1, FinalizedFields DEF OrphanSafe
  <2> QED BY <2>1, <2>2, EndOrphan
<1>8. CASE RemoveFinalizerErr
  <2>1. /\ pc = "unfinalize" /\ pc' = "report"
        /\ obj' = obj \/ (fresh /\ obj' = Unfinalized)
    BY <1>8, WriteErrEffect DEF RemoveFinalizerErr
  <2>2. fresh => OrphanSafe(Unfinalized)
    BY <2>1 DEF Unfinalized, NoResource, OrphanSafe
  <2> QED BY <2>1, <2>2, EndOrphan
<1>9. CASE ReportLost
  BY <1>9 DEF ReportLost, EndReconcile, NoRunner, NoResource
<1> QED BY <1>1, <1>2, <1>3, <1>4, <1>5, <1>6, <1>7, <1>8, <1>9

(* Users leave the finalizer, the deletion policy and the status alone, or   *)
(* replace an object that is gone.                                          *)
LEMMA UserOrphan ==
    ASSUME CopyInv, OrphanInv, NEW op, NEW new, UserWrite(op, new),
           \/ new = NoResource
           \/ /\ new.finalizer = obj.finalizer /\ new.deletionPolicy = obj.deletionPolicy
              /\ new.synced = obj.synced
              /\ new.deleting => obj.finalizer
           \/ ~new.finalizer /\ ~new.deleting /\ new.synced = "Unknown"
    PROVE  OrphanInv'
<1>1. obj' = new /\ ~fresh' /\ pc' = pc /\ UNCHANGED observation
  BY DEF UserWrite, runVars
<1>2. CASE new = NoResource
  BY <1>1, <1>2 DEF NoResource, OrphanInv, FinalizerImpliesOrphan
<1>3. CASE /\ new.finalizer = obj.finalizer /\ new.deletionPolicy = obj.deletionPolicy
           /\ new.synced = obj.synced
           /\ new.deleting => obj.finalizer
  BY <1>1, <1>3 DEF OrphanInv, FinalizerImpliesOrphan
<1>4. CASE ~new.finalizer /\ ~new.deleting /\ new.synced = "Unknown"
  BY <1>1, <1>4 DEF OrphanInv, FinalizerImpliesOrphan
<1> QED BY <1>2, <1>3, <1>4

LEMMA EnvironmentOrphan ==
    ASSUME CopyInv, OrphanInv, TypeOK', "deletionPolicy" \notin UserOps,
           \/ SyncCache \/ Crash \/ Restart \/ Edit
           \/ Touch \/ Apply \/ SwitchRunPolicy \/ ResetDeletionPolicy
           \/ UserDelete \/ UserCreate \/ Drift
    PROVE  OrphanInv'
<1> USE DEF CopyInv, CopiesAgree, Progress, Reconciling, OrphanInv,
     FinalizerImpliesOrphan, apiVars, copyVars, runVars, targetVars
<1>1. CASE SyncCache
  BY <1>1 DEF SyncCache
<1>2. CASE Crash
  BY <1>2 DEF Crash, EndReconcile, NoRunner, NoResource, FailedRunLeaves
<1>3. CASE Restart
  BY <1>3 DEF Restart
<1>4. CASE Edit
  <2>1. PICK spec \in Params :
           UserWrite("edit", [obj EXCEPT !.spec = spec])
    BY <1>4 DEF Edit
  <2>2. DEFINE new == [obj EXCEPT !.spec = spec]
  <2>3. /\ new.finalizer = obj.finalizer /\ new.deletionPolicy = obj.deletionPolicy
        /\ new.synced = obj.synced /\ new.deleting = obj.deleting
    BY DEF TypeOK, Resource
  <2> QED BY <2>1, <2>3, UserOrphan
<1>5. CASE Touch
  BY <1>5, UserOrphan DEF Touch
<1>6. CASE Apply
  <2>1. PICK spec \in Params :
           UserWrite("apply", [obj EXCEPT !.spec = spec, !.lastApplied = Foreign])
    BY <1>6 DEF Apply
  <2>2. DEFINE new == [obj EXCEPT !.spec = spec, !.lastApplied = Foreign]
  <2>3. /\ new.finalizer = obj.finalizer /\ new.deletionPolicy = obj.deletionPolicy
        /\ new.synced = obj.synced /\ new.deleting = obj.deleting
    BY DEF TypeOK, Resource
  <2> QED BY <2>1, <2>3, UserOrphan
<1>7. CASE SwitchRunPolicy
  <2>1. PICK spec \in Params, runPolicy \in RunPolicies :
           UserWrite("runPolicy", [obj EXCEPT !.runPolicy = runPolicy, !.spec = spec])
    BY <1>7 DEF SwitchRunPolicy
  <2>2. DEFINE new == [obj EXCEPT !.runPolicy = runPolicy, !.spec = spec]
  <2>3. /\ new.finalizer = obj.finalizer /\ new.deletionPolicy = obj.deletionPolicy
        /\ new.synced = obj.synced /\ new.deleting = obj.deleting
    BY DEF TypeOK, Resource
  <2> QED BY <2>1, <2>3, UserOrphan
<1>8. CASE ResetDeletionPolicy
  BY <1>8 DEF ResetDeletionPolicy, UserWrite
<1>9. CASE UserDelete
  <2>1. [obj EXCEPT !.deleting = TRUE].finalizer = obj.finalizer
        /\ [obj EXCEPT !.deleting = TRUE].deletionPolicy = obj.deletionPolicy
        /\ [obj EXCEPT !.deleting = TRUE].synced = obj.synced
    BY DEF TypeOK, Resource
  <2> QED BY <1>9, <2>1, UserOrphan DEF UserDelete
<1>10. CASE UserCreate
  <2>1. PICK spec \in Params, runPolicy \in RunPolicies, lastApplied \in {None, Foreign} :
           UserWrite("create", NewResource(spec, runPolicy, lastApplied))
    BY <1>10 DEF UserCreate
  <2> QED BY <2>1, UserOrphan DEF NewResource, NoResource
<1>11. CASE Drift
  BY <1>11 DEF Drift
<1> QED BY <1>1, <1>2, <1>3, <1>4, <1>5, <1>6, <1>7, <1>8, <1>9, <1>10, <1>11

LEMMA OrphanStep ==
    ASSUME "deletionPolicy" \notin UserOps
    PROVE  CopyInv /\ OrphanInv /\ [Next]_vars => OrphanInv'
<1> SUFFICES ASSUME CopyInv, OrphanInv, [Next]_vars PROVE OrphanInv'
  OBVIOUS
<1>1. TypeOK'
  BY TypeStep DEF CopyInv
<1>2. CASE UNCHANGED vars
  BY <1>2 DEF OrphanInv, FinalizerImpliesOrphan, vars, clientVars
<1>3. CASE Next
  BY <1>1, <1>3, ClientOkOrphan, ClientErrOrphan, ReconcilerOrphan, EnvironmentOrphan
     DEF Next, ReconcileOk, ReconcileErr, User
<1> QED BY <1>2, <1>3

(* While no user resets the deletion policy, an AnsibleRun that holds the    *)
(* finalizer has the policy Orphan that Observe sets on its copy, so that   *)
(* its deletion does not wait for the external resource.                    *)
THEOREM FinalizerOrphan ==
    ASSUME "deletionPolicy" \notin UserOps
    PROVE  Spec => []FinalizerImpliesOrphan
<1>1. Init => OrphanInv
  BY DEF Init, OrphanInv, FinalizerImpliesOrphan, NewResource, NoResource
<1>2. OrphanInv => FinalizerImpliesOrphan
  BY DEF OrphanInv
<1> QED BY <1>1, <1>2, OrphanStep, CopyInvariant, PTL DEF Spec

-------------------------------------------------------------------------------
(* The run policy: whose it is, and what a reconcile does under it.          *)

(* A write of the object as it is, but for what the status says, or the     *)
(* annotation, the deletion policy and a new finalizer.                     *)
LEMMA WrittenMeta ==
    ASSUME CopyInv, PolicyOfCopies, fresh,
           NEW new \in {Skip, Updated(obj, cr), StatusUpdated(obj, cr), Finalized}
    PROVE  /\ new.exists = obj.exists /\ new.deleting = obj.deleting
           /\ new.runPolicy = obj.runPolicy
           /\ obj.finalizer => new.finalizer
           /\ new.exists = cr.exists /\ new.deleting = cr.deleting
           /\ new.runPolicy = cr.runPolicy
           /\ cr.finalizer => new.finalizer
<1>a. TypeOK /\ CopiesAgree
  BY DEF CopyInv
<1>b. /\ cr.exists = obj.exists /\ cr.deleting = obj.deleting
      /\ cr.finalizer = obj.finalizer /\ cr.runPolicy = obj.runPolicy
  BY <1>a DEF CopiesAgree, PolicyOfCopies
<1>1. CASE new = Skip
  BY <1>a, <1>b, <1>1, SkipFields DEF SameMeta
<1>2. CASE new = Updated(obj, cr)
  BY <1>a, <1>b, <1>2, UpdatedFields DEF SameMeta
<1>3. CASE new = StatusUpdated(obj, cr)
  BY <1>a, <1>b, <1>3, StatusFields DEF SameMeta
<1>4. CASE new = Finalized
  BY <1>a, <1>b, <1>4, FinalizedFields
<1> QED BY <1>1, <1>2, <1>3, <1>4

(* The copy stays one of the same object.                                   *)
SameCopy ==
    /\ cr'.runPolicy = cr.runPolicy /\ cr'.deleting = cr.deleting
    /\ cr.finalizer => cr'.finalizer
    /\ cr'.finalizer => cr.finalizer \/ fresh

(* The steps within a reconcile that write to the API server.               *)
Writing ==
    \/ SkipOk \/ AnnotateOk \/ RecordOk \/ AddFinalizerOk
    \/ SkipErr \/ AnnotateErr \/ RecordErr \/ AddFinalizerErr \/ RemoveFinalizerErr

LEMMA WritingEffect ==
    ASSUME CopyInv, PolicyOfCopies, Writing
    PROVE  /\ SameCopy /\ UNCHANGED <<cache, applied>> /\ (fresh' => fresh)
           /\ \/ obj' = obj
              \/ /\ fresh /\ obj'.deleting = obj.deleting
                 /\ obj'.runPolicy = obj.runPolicy
              \/ ~fresh' /\ obj' = NoResource
<1>1. ASSUME NEW new \in {Skip, Updated(obj, cr), StatusUpdated(obj, cr), Finalized},
             WriteOk(new) \/ WriteErr(new), UNCHANGED applied
      PROVE  /\ SameCopy /\ UNCHANGED <<cache, applied>> /\ (fresh' => fresh)
             /\ \/ obj' = obj
                \/ /\ fresh /\ obj'.deleting = obj.deleting
                   /\ obj'.runPolicy = obj.runPolicy
  <2>1. CASE WriteOk(new)
    <3>1. fresh /\ fresh' /\ obj' = new /\ cr' = new /\ UNCHANGED cache
      BY <2>1 DEF WriteOk, Land
    <3> QED BY <1>1, <3>1, WrittenMeta DEF SameCopy
  <2>2. CASE WriteErr(new)
    BY <1>1, <2>2, WriteErrEffect, WrittenMeta DEF SameCopy
  <2> QED BY <1>1, <2>1, <2>2
<1>2. CASE SkipOk \/ SkipErr
  BY <1>1, <1>2 DEF SkipOk, SkipErr, targetVars
<1>3. CASE AnnotateOk \/ AnnotateErr
  BY <1>1, <1>3 DEF AnnotateOk, AnnotateErr
<1>4. CASE RecordOk \/ RecordErr
  BY <1>1, <1>4 DEF RecordOk, RecordErr, targetVars
<1>5. CASE AddFinalizerOk
  <2>1. CASE cr.finalizer
    BY <1>5, <2>1 DEF AddFinalizerOk, apiVars, copyVars, targetVars, SameCopy
  <2>2. CASE ~cr.finalizer
    BY <1>1, <1>5, <2>2 DEF AddFinalizerOk, targetVars
  <2> QED BY <2>1, <2>2
<1>6. CASE AddFinalizerErr
  BY <1>1, <1>6 DEF AddFinalizerErr, targetVars
<1>7. CASE RemoveFinalizerErr
  <2>1. WriteErr(Unfinalized) /\ UNCHANGED applied /\ cr.deleting
    BY <1>7 DEF RemoveFinalizerErr, CopyInv, Progress, targetVars
  <2>2. fresh => Unfinalized = NoResource
    BY <2>1 DEF CopyInv, CopiesAgree, Unfinalized
  <2> QED BY <2>1, <2>2, WriteErrEffect DEF SameCopy
<1> QED BY <1>2, <1>3, <1>4, <1>5, <1>6, <1>7 DEF Writing

(* The other steps within a reconcile leave the API server alone.           *)
Local ==
    \/ ConnectOk \/ ObserveDeleted \/ ObserveMissing \/ ObserveLastApplied
    \/ ObserveCheck \/ WriteExtraVarOk \/ RunOk \/ CheckOk \/ Update \/ Delete
    \/ DestroyOk \/ AfterObserve
    \/ ConnectErr \/ ObserveErr \/ WriteExtraVarErr \/ RunErr \/ CheckErr
    \/ DestroyErr

LEMMA LocalEffect ==
    ASSUME CopyInv, Local
    PROVE  SameCopy /\ UNCHANGED <<obj, cache, fresh>>
<1>a. TypeOK
  BY DEF CopyInv
<1> USE DEF apiVars, copyVars, targetVars, runVars
<1>1. CASE UNCHANGED cr
  BY <1>1 DEF SameCopy, Local, ConnectOk, ObserveDeleted, ObserveMissing,
     ObserveLastApplied, ObserveCheck, WriteExtraVarOk, RunOk, CheckOk, Update, Delete,
     DestroyOk, AfterObserve, ConnectErr, ObserveErr, WriteExtraVarErr, RunErr, CheckErr,
     DestroyErr
<1>2. CASE ObserveDeleted \/ ObserveMissing \/ ObserveCheck \/ ObserveErr
  BY <1>a, <1>2, OrphanFields DEF SameCopy, ObserveDeleted, ObserveMissing, ObserveCheck,
     ObserveErr
<1>3. CASE ObserveLastApplied
  <2> DEFINE desired == SetDeletionPolicy(cr)
  <2>1. /\ desired \in Resource /\ desired.runPolicy = cr.runPolicy
        /\ desired.deleting = cr.deleting /\ desired.finalizer = cr.finalizer
    BY <1>a, OrphanFields
  <2>2. /\ UNCHANGED <<obj, cache, fresh>>
        /\ cr' = desired \/ cr' = [desired EXCEPT !.lastApplied = desired.spec]
    BY <1>3 DEF ObserveLastApplied
  <2> HIDE DEF desired
  <2> QED BY <2>1, <2>2 DEF SameCopy, Resource
<1>4. CASE RunOk \/ RunErr \/ Delete
  BY <1>a, <1>4, ReadyFields DEF SameCopy, SameMeta, RunOk, RunErr, Delete
<1>5. CASE DestroyErr
  BY <1>a, <1>5, DestroyErrFields DEF SameCopy, SameMeta, DestroyErr
<1> QED BY <1>1, <1>2, <1>3, <1>4, <1>5
        DEF Local, ConnectOk, WriteExtraVarOk, CheckOk, Update, DestroyOk, AfterObserve,
            ConnectErr, WriteExtraVarErr, CheckErr

LEMMA WithinPolicyOfCopies ==
    ASSUME CopyInv, PolicyOfCopies, FinalizerKept', Writing \/ Local, Reconciling
    PROVE  PolicyOfCopies'
<1>1. /\ SameCopy /\ UNCHANGED cache /\ (fresh' => fresh)
      /\ \/ obj'.runPolicy = obj.runPolicy
         \/ ~fresh' /\ obj' = NoResource
  <2>1. CASE Writing
    BY <2>1, WritingEffect
  <2>2. CASE Local
    BY <2>2, LocalEffect
  <2> QED BY <2>1, <2>2
<1>2. CASE obj'.runPolicy = obj.runPolicy
  BY <1>1, <1>2 DEF PolicyOfCopies, SameCopy, Checks, Reconciling
<1>3. CASE ~fresh' /\ obj' = NoResource
  <2>1. ~obj'.finalizer /\ ~Checks(obj')
    BY <1>3 DEF NoResource, Checks
  <2> QED BY <1>3, <2>1 DEF PolicyOfCopies, FinalizerKept
<1> QED BY <1>1, <1>2, <1>3

LEMMA WithinPolicyOfRunner ==
    ASSUME CopyInv, PolicyOfRunner, SameCopy, TypeOK', Writing \/ Local
    PROVE  PolicyOfRunner'
<1>a. Checks(cr') <=> Checks(cr)
  BY DEF SameCopy, Checks
<1> USE DEF CopyInv, TypeOK, Progress, PolicyOfRunner, SameCopy, runVars
<1>1. CASE ConnectOk
  BY <1>1, <1>a DEF ConnectOk, InitAccepts, newRunPolicy, Checks
<1>2. CASE ObserveDeleted
  BY <1>2, <1>a DEF ObserveDeleted
<1>3. CASE ObserveMissing
  BY <1>3, <1>a DEF ObserveMissing
<1>4. CASE ObserveLastApplied
  BY <1>4, <1>a DEF ObserveLastApplied
<1>5. CASE ObserveCheck
  BY <1>5, <1>a DEF ObserveCheck, EnableCheckMode, Runner
<1>6. CASE SkipOk \/ SkipErr \/ AnnotateOk \/ AnnotateErr
  BY <1>6, <1>a DEF SkipOk, SkipErr, AnnotateOk, AnnotateErr
<1>7. CASE WriteExtraVarOk
  BY <1>7, <1>a DEF WriteExtraVarOk, Runner
<1>8. CASE RunOk \/ RunErr
  BY <1>8, <1>a DEF RunOk, RunErr
<1>9. CASE RecordOk \/ RecordErr
  BY <1>9, <1>a DEF RecordOk, RecordErr
<1>10. CASE CheckOk
  BY <1>10, <1>a DEF CheckOk
<1>11. CASE Update
  BY <1>11, <1>a DEF Update, EnableCheckMode, Runner
<1>12. CASE Delete
  BY <1>12, <1>a DEF Delete, Runner
<1>13. CASE DestroyOk \/ DestroyErr
  BY <1>13, <1>a DEF DestroyOk, DestroyErr
<1>14. CASE AfterObserve
  BY <1>14, <1>a DEF AfterObserve
<1>15. CASE AddFinalizerOk
  <2>1. /\ pc = "finalizer" /\ UNCHANGED runVars
        /\ pc' \in {"create", "update", "success"}
        /\ pc' = "update" => observation = "outdated"
    BY <1>15 DEF AddFinalizerOk, AfterFinalizer
  <2>2. cr'.finalizer
    <3>1. CASE cr.finalizer
      BY <3>1
    <3>2. CASE ~cr.finalizer
      <4>1. cr' = Finalized
        BY <1>15, <3>2 DEF AddFinalizerOk, WriteOk
      <4> QED BY <4>1, FinalizedFields
    <3> QED BY <3>1, <3>2
  <2> QED BY <1>a, <2>1, <2>2
<1>16. CASE \/ AddFinalizerErr \/ RemoveFinalizerErr \/ ConnectErr \/ ObserveErr
            \/ WriteExtraVarErr \/ CheckErr
  BY <1>16, <1>a DEF AddFinalizerErr, RemoveFinalizerErr, ConnectErr, ObserveErr,
     WriteExtraVarErr, CheckErr
<1> QED BY <1>1, <1>2, <1>3, <1>4, <1>5, <1>6, <1>7, <1>8, <1>9, <1>10, <1>11, <1>12,
           <1>13, <1>14, <1>15, <1>16 DEF Writing, Local

(* A reconcile that starts, and one that ends.                              *)
LEMMA EdgePolicy ==
    ASSUME CopyInv, PolicyInv, FinalizerKept, FinalizerKept',
           \/ StartReconcile \/ RemoveFinalizerOk \/ ReportSuccess \/ ReportError
           \/ ReportLost \/ Crash
    PROVE  PolicyInv'
<1>a. TypeOK /\ CopiesAgree
  BY DEF CopyInv
<1>1. CASE StartReconcile
  <2>1. /\ pc' \in {"connect", "unfinalize"} /\ cr' = cache /\ fresh' = cacheFresh
        /\ observation = "none" /\ ~runner.checkMode
        /\ UNCHANGED <<obj, cache, runner, observation>>
    BY <1>1 DEF StartReconcile, apiVars, runVars, CopyInv, Progress, PolicyInv, PolicyOfRunner
  <2> QED BY <1>a, <2>1 DEF PolicyInv, PolicyOfCopies, PolicyOfRunner, CopiesAgree
<1>2. ASSUME NEW next \in {"idle", "down"}, EndReconcile(next), UNCHANGED cache,
             obj'.runPolicy = obj.runPolicy \/ obj' = NoResource
      PROVE  PolicyInv'
  <2>1. PolicyOfRunner'
    BY <1>2 DEF EndReconcile, PolicyOfRunner, NoRunner
  <2>2. ~fresh' /\ ~Reconciling'
    BY <1>2 DEF EndReconcile, Reconciling
  <2>3. CASE obj' = NoResource
    <3>1. ~obj'.finalizer /\ ~Checks(obj')
      BY <2>3 DEF NoResource, Checks
    <3>2. PolicyOfCopies'
      BY <2>2, <3>1 DEF PolicyOfCopies, FinalizerKept
    <3> QED BY <2>1, <3>2 DEF PolicyInv
  <2>4. CASE obj'.runPolicy = obj.runPolicy
    <3>1. PolicyOfCopies'
      BY <1>2, <2>2, <2>4 DEF PolicyInv, PolicyOfCopies, Checks
    <3> QED BY <2>1, <3>1 DEF PolicyInv
  <2> QED BY <1>2, <2>3, <2>4
<1>3. CASE RemoveFinalizerOk
  <2>1. EndReconcile("idle") /\ UNCHANGED cache /\ (obj' = obj \/ (fresh /\ obj' = Unfinalized))
    BY <1>3 DEF RemoveFinalizerOk, Land, apiVars
  <2>2. fresh => Unfinalized = NoResource
    BY <1>3 DEF RemoveFinalizerOk, Unfinalized, CopyInv, Progress, CopiesAgree
  <2> QED BY <1>2, <2>1, <2>2
<1>4. CASE ReportSuccess \/ ReportError
  <2>1. /\ EndReconcile("idle") /\ UNCHANGED cache
        /\ obj' = Reported("True") \/ obj' = Reported("False")
    BY <1>4 DEF ReportSuccess, ReportError, Land
  <2>2. obj'.runPolicy = obj.runPolicy
    BY <1>a, <2>1, ReportedFields DEF SameMeta
  <2> QED BY <1>2, <2>1, <2>2
<1>5. CASE ReportLost \/ Crash
  BY <1>2, <1>5 DEF ReportLost, Crash, apiVars
<1> QED BY <1>1, <1>3, <1>4, <1>5

(* Users, and the cache.                                                    *)
LEMMA UserPolicy ==
    ASSUME PolicyInv, FinalizerKept', NEW op, NEW new, UserWrite(op, new),
           new.runPolicy \in RunPolicies \/ new.runPolicy = obj.runPolicy,
           \/ ~new.finalizer
           \/ Checks(new) <=> Checks(obj)
    PROVE  PolicyInv'
<1>1. obj' = new /\ ~fresh' /\ UNCHANGED <<cache, cr, pc, runner, observation>>
  BY DEF UserWrite, runVars
<1>2. PolicyOfRunner'
  BY <1>1 DEF PolicyInv, PolicyOfRunner, Checks
<1>3. Checks(obj') => "CheckWhenObserve" \in RunPolicies
  BY <1>1 DEF PolicyInv, PolicyOfCopies, Checks
<1>4. CASE ~new.finalizer
  BY <1>1, <1>2, <1>3, <1>4 DEF PolicyInv, PolicyOfCopies, FinalizerKept, Reconciling
<1>5. CASE Checks(new) <=> Checks(obj)
  BY <1>1, <1>2, <1>3, <1>5 DEF PolicyInv, PolicyOfCopies, Checks, Reconciling
<1> QED BY <1>4, <1>5

LEMMA EnvironmentPolicy ==
    ASSUME CopyInv, PolicyInv, FinalizerKept, FinalizerKept', PolicyKept,
           SyncCache \/ Restart \/ User \/ Drift
    PROVE  PolicyInv'
<1>a. TypeOK
  BY DEF CopyInv
<1>1. CASE SyncCache
  <2>1. cache' = obj /\ UNCHANGED <<obj, cr, fresh, pc, runner, observation>>
    BY <1>1 DEF SyncCache, copyVars, runVars
  <2> QED BY <2>1 DEF PolicyInv, PolicyOfCopies, PolicyOfRunner, Checks, Reconciling
<1>2. CASE Restart
  BY <1>2 DEF Restart, PolicyInv, PolicyOfCopies, PolicyOfRunner, Checks, Reconciling,
     apiVars, copyVars, runVars, CopyInv, CopiesAgree
<1>3. CASE Drift
  BY <1>3 DEF Drift, PolicyInv, PolicyOfCopies, PolicyOfRunner, Checks, Reconciling,
     apiVars, copyVars, runVars
<1>4. CASE Edit
  <2>1. PICK spec \in Params : UserWrite("edit", [obj EXCEPT !.spec = spec])
    BY <1>4 DEF Edit
  <2>2. [obj EXCEPT !.spec = spec].runPolicy = obj.runPolicy
    BY <1>a DEF TypeOK, Resource
  <2> QED BY <2>1, <2>2, UserPolicy DEF Checks
<1>5. CASE Touch
  BY <1>5, UserPolicy DEF Touch
<1>6. CASE Apply
  <2>1. PICK spec \in Params :
           UserWrite("apply", [obj EXCEPT !.spec = spec, !.lastApplied = Foreign])
    BY <1>6 DEF Apply
  <2>2. [obj EXCEPT !.spec = spec, !.lastApplied = Foreign].runPolicy = obj.runPolicy
    BY <1>a DEF TypeOK, Resource
  <2> QED BY <2>1, <2>2, UserPolicy DEF Checks
<1>7. CASE SwitchRunPolicy
  <2>1. PICK spec \in Params, runPolicy \in RunPolicies :
           UserWrite("runPolicy", [obj EXCEPT !.runPolicy = runPolicy, !.spec = spec])
    BY <1>7 DEF SwitchRunPolicy
  <2>2. [obj EXCEPT !.runPolicy = runPolicy, !.spec = spec].runPolicy = runPolicy
    BY <1>a DEF TypeOK, Resource
  <2>3. "CheckWhenObserve" \notin RunPolicies
    BY <2>1 DEF PolicyKept, UserWrite
  <2>4. ~Checks(obj) /\ runPolicy # "CheckWhenObserve"
    BY <2>3 DEF PolicyInv, PolicyOfCopies
  <2> QED BY <2>1, <2>2, <2>4, UserPolicy DEF Checks
<1>8. CASE ResetDeletionPolicy
  <2>1. [obj EXCEPT !.deletionPolicy = "Delete"].runPolicy = obj.runPolicy
    BY <1>a DEF TypeOK, Resource
  <2> QED BY <1>8, <2>1, UserPolicy DEF ResetDeletionPolicy, Checks
<1>9. CASE UserDelete
  <2>1. CASE obj.finalizer
    <3>1. [obj EXCEPT !.deleting = TRUE].runPolicy = obj.runPolicy
      BY <1>a DEF TypeOK, Resource
    <3> QED BY <1>9, <2>1, <3>1, UserPolicy DEF UserDelete, Checks
  <2>2. CASE ~obj.finalizer
    <3>1. UserWrite("delete", NoResource)
      BY <1>9, <2>2 DEF UserDelete
    <3>2. /\ obj' = NoResource /\ ~fresh'
          /\ UNCHANGED <<cache, cr, pc, runner, observation>>
      BY <3>1 DEF UserWrite, runVars
    <3>3. ~obj'.finalizer /\ ~Checks(obj')
      BY <3>2 DEF NoResource, Checks
    <3> QED BY <3>2, <3>3 DEF PolicyInv, PolicyOfCopies, PolicyOfRunner, Checks,
            FinalizerKept, Reconciling
  <2> QED BY <2>1, <2>2
<1>10. CASE UserCreate
  <2>1. PICK spec \in Params, runPolicy \in RunPolicies, lastApplied \in {None, Foreign} :
           UserWrite("create", NewResource(spec, runPolicy, lastApplied))
    BY <1>10 DEF UserCreate
  <2>2. /\ NewResource(spec, runPolicy, lastApplied).runPolicy = runPolicy
        /\ ~NewResource(spec, runPolicy, lastApplied).finalizer
    BY DEF NewResource, NoResource
  <2> QED BY <2>1, <2>2, UserPolicy
<1> QED BY <1>1, <1>2, <1>3, <1>4, <1>5, <1>6, <1>7, <1>8, <1>9, <1>10 DEF User

LEMMA WithinReconciling == Writing \/ Local => Reconciling
<1>1. Writing => Reconciling
  BY DEF Writing, Reconciling, SkipOk, AnnotateOk, RecordOk, AddFinalizerOk, SkipErr,
     AnnotateErr, RecordErr, AddFinalizerErr, RemoveFinalizerErr
<1>2. Local => Reconciling
  BY DEF Local, Reconciling, ConnectOk, ObserveDeleted, ObserveMissing,
     ObserveLastApplied, ObserveCheck, WriteExtraVarOk, RunOk, CheckOk, Update, Delete,
     DestroyOk, AfterObserve, ConnectErr, ObserveErr, WriteExtraVarErr, RunErr, CheckErr,
     DestroyErr
<1> QED BY <1>1, <1>2

(* The steps, by what they may do to the API server.                        *)
LEMMA StepKinds ==
    Next => \/ Writing \/ Local
            \/ StartReconcile \/ RemoveFinalizerOk \/ ReportSuccess \/ ReportError
            \/ ReportLost \/ Crash
            \/ SyncCache \/ Restart \/ User \/ Drift
BY DEF Next, ReconcileOk, ReconcileErr, ClientOk, ClientErr, Writing, Local

LEMMA PolicyStep ==
    ASSUME PolicyKept
    PROVE  CopyInv /\ FinalizerKept /\ PolicyInv /\ [Next]_vars => PolicyInv'
<1> SUFFICES ASSUME CopyInv, FinalizerKept, PolicyInv, [Next]_vars PROVE PolicyInv'
  OBVIOUS
<1>1. TypeOK' /\ FinalizerKept'
  BY TypeStep, KeptStep DEF CopyInv
<1>2. CASE UNCHANGED vars
  BY <1>2 DEF PolicyInv, PolicyOfCopies, PolicyOfRunner, Checks, Reconciling, vars,
     clientVars
<1>3. CASE Writing \/ Local
  <2>1. PolicyOfCopies' /\ SameCopy
    BY <1>1, <1>3, WithinReconciling, WithinPolicyOfCopies, WritingEffect, LocalEffect
       DEF PolicyInv
  <2>2. PolicyOfRunner'
    BY <1>1, <1>3, <2>1, WithinPolicyOfRunner DEF PolicyInv
  <2> QED BY <2>1, <2>2 DEF PolicyInv
<1>4. CASE \/ StartReconcile \/ RemoveFinalizerOk \/ ReportSuccess \/ ReportError
           \/ ReportLost \/ Crash
  BY <1>1, <1>4, EdgePolicy
<1>5. CASE SyncCache \/ Restart \/ User \/ Drift
  BY <1>1, <1>5, EnvironmentPolicy
<1> QED BY <1>2, <1>3, <1>4, <1>5, StepKinds

LEMMA PolicyInvariant ==
    ASSUME PolicyKept
    PROVE  Spec => []PolicyInv
<1>1. Init => PolicyInv
  <2> SUFFICES ASSUME Init PROVE PolicyInv
    OBVIOUS
  <2>1. PICK spec \in Params, runPolicy \in RunPolicies, lastApplied \in {None, Foreign} :
           obj = NewResource(spec, runPolicy, lastApplied)
    BY DEF Init
  <2>2. obj.runPolicy \in RunPolicies
    BY <2>1 DEF NewResource, NoResource
  <2> QED BY <2>2 DEF Init, PolicyInv, PolicyOfCopies, PolicyOfRunner, Checks, NoResource,
          NoRunner, Reconciling
<1> QED BY <1>1, PolicyStep, CopyInvariant, KeptInvariant, PTL DEF Spec

-------------------------------------------------------------------------------
(* The claim of the last-applied annotation.                                *)

(* Steps that write nothing to the API server.                              *)
LEMMA LocalClaim ==
    ASSUME CopyInv, PolicyInv, ClaimInv, CopyInv', Local
    PROVE  ClaimInv'
<1>a. SameCopy /\ UNCHANGED <<obj, cache, fresh>>
  BY LocalEffect
<1>b. DeletedClaimsNothing'
  BY <1>a DEF SameCopy, ClaimInv, DeletedClaimsNothing
<1>c. CopiesAgree /\ Progress /\ PolicyOfCopies /\ PolicyOfRunner /\ ReconcileClaim
      /\ (Checks(obj) => obj.lastApplied \notin Params)
  BY DEF CopyInv, PolicyInv, ClaimInv, ClaimHolds
<1>1. ASSUME UNCHANGED <<applied, owed>>, ReconcileClaim'
      PROVE  ClaimInv'
  BY <1>a, <1>b, <1>1 DEF ClaimInv, ClaimHolds, Checks
<1> USE DEF targetVars, runVars, copyVars
<1>2. CASE ObserveDeleted \/ ObserveMissing
  <2>1. pc' = "observed" /\ UNCHANGED <<applied, owed>>
        /\ (cr.deleting \/ observation' = "missing")
    BY <1>2 DEF ObserveDeleted, ObserveMissing
  <2> QED BY <1>1, <1>a, <2>1 DEF SameCopy, CopyInv, Progress, ReconcileClaim, Ran
<1>3. CASE ObserveLastApplied
  <2> DEFINE desired == SetDeletionPolicy(cr)
  <2>1. /\ pc = "observe" /\ pc' \in {"skip", "annotate"} /\ UNCHANGED <<applied, owed>>
        /\ pc' = "skip" => NothingToRun(cache, desired)
    BY <1>3 DEF ObserveLastApplied
  <2>2. pc' = "skip" => cache.lastApplied = cr.spec
    BY <2>1, OrphanFields DEF NothingToRun, getLastAppliedParameters, CopyInv
  <2>3. fresh => cache = obj /\ cr.spec = obj.spec
    BY <1>c, <2>1 DEF CopiesAgree
  <2>4. ReconcileClaim'
    BY <1>a, <2>1, <2>2, <2>3 DEF ReconcileClaim, Ran
  <2> QED BY <1>1, <2>1, <2>4
<1>4. CASE CheckOk
  <2>1. /\ pc = "checking" /\ pc' = "observed" /\ UNCHANGED <<applied, owed, cr>>
        /\ observation' # "outdated" => applied = runner.content
    BY <1>4 DEF CheckOk, Diff
  <2>2. runner.content = cr.spec /\ Checks(cr)
    BY <1>c, <2>1 DEF Progress, PolicyOfRunner
  <2>3. fresh => cr.spec = obj.spec /\ Checks(obj)
    BY <1>c, <2>2 DEF CopiesAgree, PolicyOfCopies, Checks
  <2>4. ReconcileClaim'
    BY <1>a, <2>1, <2>2, <2>3 DEF ReconcileClaim, Ran, Checks
  <2> QED BY <1>1, <2>1, <2>4
<1>5. CASE Update
  <2>1. pc = "update" /\ pc' = "running" /\ UNCHANGED <<applied, owed>>
    BY <1>5 DEF Update
  <2>2. Checks(obj)
    BY <1>c, <2>1 DEF PolicyOfCopies, PolicyOfRunner, Reconciling
  <2>3. ReconcileClaim'
    BY <1>a, <1>c, <2>1, <2>2 DEF ReconcileClaim, Ran
  <2> QED BY <1>1, <2>1, <2>3
<1>6. CASE RunOk
  <2>1. /\ pc = "running" /\ pc' = "record"
        /\ applied' = IF runner.checkMode THEN applied
                      ELSE IF runner.state = "absent" THEN Absent ELSE runner.content
    BY <1>6 DEF RunOk, RunLeaves
  <2>2. applied' = runner.content /\ runner.content = cr.spec
    BY <1>c, <2>1 DEF PolicyOfRunner, Progress
  <2>3. obj.lastApplied \in Params => obj.lastApplied = runner.content
    BY <1>c, <2>1 DEF ReconcileClaim
  <2>4. fresh => obj.spec = runner.content /\ (Checks(obj) \/ obj.lastApplied = obj.spec)
    <3>1. fresh => cr.spec = obj.spec /\ (Checks(cr) <=> Checks(obj))
      BY <1>c DEF CopiesAgree, PolicyOfCopies, Checks
    <3>2. ~Checks(cr) => observation = "none"
      BY <1>c, <2>1 DEF PolicyOfRunner
    <3> QED BY <2>1, <2>2, <3>1, <3>2 DEF CopyInv, AnnotatedBeforeRun
  <2>5. ClaimHolds'
    BY <1>a, <1>c, <2>2, <2>3 DEF ClaimHolds, Checks
  <2>6. ReconcileClaim'
    BY <1>a, <2>1, <2>2, <2>4 DEF ReconcileClaim, Ran, Checks
  <2> QED BY <1>b, <2>5, <2>6 DEF ClaimInv
<1>7. CASE RunErr
  <2>1. pc = "running" /\ pc' = "record" /\ runErr' /\ UNCHANGED owed
    BY <1>7 DEF RunErr
  <2>2. obj.lastApplied \in Params => owed
    BY <1>c, <2>1 DEF ReconcileClaim
  <2>3. ClaimHolds'
    BY <1>a, <1>c, <2>1, <2>2 DEF ClaimHolds, Checks
  <2>4. ReconcileClaim'
    BY <2>1 DEF ReconcileClaim, Ran
  <2> QED BY <1>b, <2>3, <2>4 DEF ClaimInv
<1>8. CASE DestroyOk \/ DestroyErr
  <2>1. pc \in {"delete", "destroying"} /\ pc' \in {"success", "report"} /\ UNCHANGED owed
    BY <1>8 DEF DestroyOk, DestroyErr
  <2>2. cr.deleting
    BY <1>c, <2>1 DEF Progress
  <2>3. ClaimHolds'
    BY <1>a, <1>c, <2>2 DEF ClaimInv, ClaimHolds, DeletedClaimsNothing, Checks
  <2>4. ReconcileClaim'
    BY <1>a, <2>1, <2>2 DEF ReconcileClaim, Ran, SameCopy
  <2> QED BY <1>b, <2>3, <2>4 DEF ClaimInv
<1>9. CASE WriteExtraVarOk
  <2>1. pc = "extravar" /\ pc' = "running" /\ UNCHANGED <<applied, owed, runner.content>>
    BY <1>9 DEF WriteExtraVarOk, CopyInv, TypeOK, Runner
  <2> QED BY <1>1, <1>a, <1>c, <2>1 DEF ReconcileClaim, Ran
<1>10. CASE AfterObserve
  <2>1. /\ pc = "observed" /\ UNCHANGED <<applied, owed, observation, cr>>
        /\ pc' \in {"finalizer", "delete", "unfinalize"}
    BY <1>10 DEF AfterObserve
  <2> QED BY <1>1, <1>a, <1>c, <2>1 DEF ReconcileClaim, Ran, Checks
<1>11. CASE ConnectOk \/ ObserveCheck \/ Delete
  <2>1. UNCHANGED <<applied, owed>> /\ pc' \in {"observe", "checking", "destroying"}
    BY <1>11 DEF ConnectOk, ObserveCheck, Delete
  <2> QED BY <1>1, <2>1 DEF ReconcileClaim, Ran
<1>12. CASE ConnectErr \/ ObserveErr \/ WriteExtraVarErr \/ CheckErr
  <2>1. UNCHANGED <<applied, owed>> /\ pc' = "report"
    BY <1>12 DEF ConnectErr, ObserveErr, WriteExtraVarErr, CheckErr
  <2> QED BY <1>1, <2>1 DEF ReconcileClaim, Ran
<1> QED BY <1>2, <1>3, <1>4, <1>5, <1>6, <1>7, <1>8, <1>9, <1>10, <1>11, <1>12 DEF Local

(* A write that is no annotation leaves the claim alone.                    *)
LEMMA WrittenClaim ==
    ASSUME CopyInv, fresh, pc \notin {"annotate", "report"},
           NEW new \in {Skip, StatusUpdated(obj, cr), Finalized}
    PROVE  /\ new.lastApplied = obj.lastApplied /\ new.synced = obj.synced
           /\ new.spec = obj.spec
<1>a. TypeOK /\ cr.lastApplied = obj.lastApplied /\ cr.synced = obj.synced
      /\ cr.spec = obj.spec
  BY DEF CopyInv, CopiesAgree
<1>1. CASE new = Skip
  BY <1>a, <1>1, SkipFields DEF SameMeta
<1>2. CASE new = StatusUpdated(obj, cr)
  BY <1>a, <1>2, StatusFields DEF SameMeta
<1>3. CASE new = Finalized
  BY <1>a, <1>3, FinalizedFields
<1> QED BY <1>1, <1>2, <1>3

(* What stays of a claim when the object does, or is gone.                  *)
LEMMA ClaimKept ==
    ASSUME ClaimInv, UNCHANGED <<cache, applied, owed>>,
           cr' = NoResource \/ cr'.deleting = cr.deleting,
           \/ obj' = obj
           \/ obj' = NoResource
           \/ /\ obj'.lastApplied = obj.lastApplied /\ obj'.deleting = obj.deleting
              /\ obj'.runPolicy = obj.runPolicy
              /\ \/ obj'.synced = obj.synced
                 \/ obj'.synced = "False"
                 \/ ~obj.deleting /\ obj.lastApplied \in Params =>
                        applied = obj.lastApplied \/ owed
    PROVE  ClaimHolds' /\ DeletedClaimsNothing'
<1>1. ~NoResource.deleting /\ NoResource.lastApplied \notin Params /\ ~Checks(NoResource)
  BY ResourceAssumption DEF NoResource, Checks
<1>2. cr'.deleting => cr.deleting
  BY <1>1
<1>3. CASE obj' = NoResource
  BY <1>1, <1>3 DEF ClaimHolds, DeletedClaimsNothing
<1>4. CASE obj' # NoResource
  BY <1>2, <1>4 DEF ClaimInv, ClaimHolds, DeletedClaimsNothing, Checks
<1> QED BY <1>3, <1>4

LEMMA WritingClaim ==
    ASSUME CopyInv, PolicyInv, ClaimInv, Writing
    PROVE  ClaimInv'
<1>a. /\ SameCopy /\ UNCHANGED <<cache, applied>> /\ (fresh' => fresh)
      /\ \/ obj' = obj
         \/ /\ fresh /\ obj'.deleting = obj.deleting
            /\ obj'.runPolicy = obj.runPolicy
         \/ ~fresh' /\ obj' = NoResource
  BY WritingEffect DEF PolicyInv
<1>b. CopiesAgree /\ Progress /\ PolicyOfCopies /\ PolicyOfRunner /\ ReconcileClaim
  BY DEF CopyInv, PolicyInv, ClaimInv
<1>1. ASSUME NEW new \in {Skip, StatusUpdated(obj, cr), Finalized},
             WriteOk(new), UNCHANGED owed, pc \notin {"annotate", "report"}
      PROVE  /\ ClaimHolds' /\ DeletedClaimsNothing' /\ fresh
             /\ obj'.lastApplied = obj.lastApplied /\ obj'.spec = obj.spec
             /\ (Checks(obj') <=> Checks(obj))
  <2>1. fresh /\ obj' = new /\ cr' = new
    BY <1>1 DEF WriteOk, Land
  <2>2. /\ obj'.lastApplied = obj.lastApplied /\ obj'.synced = obj.synced
        /\ obj'.spec = obj.spec
    BY <1>1, <2>1, WrittenClaim
  <2>3. obj'.deleting = obj.deleting /\ obj'.runPolicy = obj.runPolicy
    BY <1>b, <2>1, WrittenMeta
  <2> QED BY <1>1, <1>a, <2>1, <2>2, <2>3, ClaimKept DEF SameCopy, Checks
<1>2. ASSUME NEW new \in {Skip, StatusUpdated(obj, cr), Finalized},
             WriteErr(new), UNCHANGED owed, pc \notin {"annotate", "report"},
             pc' = "report"
      PROVE  ClaimInv'
  <2>1. obj' = obj \/ (fresh /\ obj' = new)
    BY <1>2, WriteErrEffect
  <2>2. fresh => /\ new.lastApplied = obj.lastApplied /\ new.synced = obj.synced
                 /\ new.deleting = obj.deleting /\ new.runPolicy = obj.runPolicy
    BY <1>2, <1>b, WrittenClaim, WrittenMeta
  <2>3. ClaimHolds' /\ DeletedClaimsNothing'
    BY <1>2, <1>a, <2>1, <2>2, ClaimKept DEF SameCopy
  <2> QED BY <1>2, <2>3 DEF ClaimInv, ReconcileClaim, Ran
<1> USE DEF targetVars, runVars
<1>3. CASE SkipOk
  <2>1. /\ WriteOk(Skip) /\ pc = "skip" /\ pc' = "observed" /\ UNCHANGED <<applied, owed>>
    BY <1>3 DEF SkipOk
  <2>2. /\ ClaimHolds' /\ DeletedClaimsNothing' /\ fresh
        /\ obj'.lastApplied = obj.lastApplied /\ obj'.spec = obj.spec
    BY <1>1, <2>1
  <2>3. obj.lastApplied = obj.spec
    BY <1>b, <2>1, <2>2 DEF ReconcileClaim
  <2>4. obj.spec \in Params /\ obj.synced = "True" /\ ~obj.deleting
    BY <1>b, <2>1, <2>2, ResourceAssumption DEF CopiesAgree, Progress, PolicyOfRunner
  <2>5. applied = obj.spec \/ owed
    BY <2>3, <2>4 DEF ClaimInv, ClaimHolds
  <2> QED BY <2>1, <2>2, <2>3, <2>5 DEF ClaimInv, ReconcileClaim, Ran
<1>4. CASE RecordOk
  <2>1. /\ WriteOk(StatusUpdated(obj, cr)) /\ pc = "record" /\ UNCHANGED <<applied, owed>>
        /\ pc' \in {"report", "success", "observed"} /\ (pc' # "report" => ~runErr)
    BY <1>4 DEF RecordOk
  <2>2. /\ ClaimHolds' /\ DeletedClaimsNothing' /\ fresh
        /\ obj'.lastApplied = obj.lastApplied /\ obj'.spec = obj.spec
        /\ (Checks(obj') <=> Checks(obj))
    BY <1>1, <2>1
  <2> QED BY <1>a, <1>b, <2>1, <2>2 DEF ClaimInv, ReconcileClaim, Ran, SameCopy
<1>5. CASE AddFinalizerOk
  <2>1. /\ pc = "finalizer" /\ UNCHANGED <<applied, owed, observation>>
        /\ pc' \in {"create", "update", "success"}
        /\ pc' = "success" => observation # "outdated"
    BY <1>5 DEF AddFinalizerOk, AfterFinalizer
  <2>2. CASE cr.finalizer
    <3>1. UNCHANGED <<obj, cr, fresh>>
      BY <1>5, <2>2 DEF AddFinalizerOk, apiVars, copyVars
    <3>2. ClaimHolds' /\ DeletedClaimsNothing'
      BY <1>a, <2>1, <3>1, ClaimKept DEF SameCopy
    <3> QED BY <1>b, <2>1, <3>1, <3>2 DEF ClaimInv, ReconcileClaim, Ran, Checks
  <2>3. CASE ~cr.finalizer
    <3>1. WriteOk(Finalized)
      BY <1>5, <2>3 DEF AddFinalizerOk
    <3>2. /\ ClaimHolds' /\ DeletedClaimsNothing' /\ fresh
          /\ obj'.lastApplied = obj.lastApplied /\ obj'.spec = obj.spec
          /\ (Checks(obj') <=> Checks(obj))
      BY <1>1, <2>1, <3>1
    <3> QED BY <1>a, <1>b, <2>1, <3>2 DEF ClaimInv, ReconcileClaim, Ran, SameCopy
  <2> QED BY <2>2, <2>3
<1>6. CASE SkipErr
  BY <1>2, <1>6 DEF SkipErr
<1>7. CASE RecordErr
  BY <1>2, <1>7 DEF RecordErr
<1>8. CASE AddFinalizerErr
  BY <1>2, <1>8 DEF AddFinalizerErr
<1>9. CASE RemoveFinalizerErr
  <2>1. pc' = "report" /\ UNCHANGED owed /\ cr.deleting /\ WriteErr(Unfinalized)
    BY <1>9, <1>b DEF RemoveFinalizerErr, Progress
  <2>2. obj' = obj \/ obj' = NoResource
    BY <1>b, <2>1, WriteErrEffect DEF CopiesAgree, Unfinalized
  <2>3. ClaimHolds' /\ DeletedClaimsNothing'
    BY <1>a, <2>1, <2>2, ClaimKept DEF SameCopy
  <2> QED BY <2>1, <2>3 DEF ClaimInv, ReconcileClaim, Ran
<1>10. CASE AnnotateOk \/ AnnotateErr
  <2>1. /\ pc = "annotate" /\ pc' \in {"extravar", "report"} /\ UNCHANGED runner
        /\ pc' = "extravar" => fresh /\ obj' = Updated(obj, cr) /\ owed'
        /\ obj' = obj \/ (fresh /\ obj' = Updated(obj, cr) /\ owed')
        /\ obj' = obj => (owed => owed')
    BY <1>10, WriteErrEffect DEF AnnotateOk, AnnotateErr, WriteOk, Land
  <2>2. ~cr.deleting /\ ~Checks(cr) /\ cr.lastApplied = cr.spec /\ cr.spec = runner.content
    BY <1>b, <2>1 DEF PolicyOfRunner, Progress
  <2>3. fresh => ~cache.deleting
    BY <1>b, <2>1, <2>2 DEF CopiesAgree
  <2>4. fresh => ~Checks(Updated(obj, cr)) /\ Updated(obj, cr).lastApplied = runner.content
    BY <1>b, <2>2, UpdatedFields DEF CopyInv, SameMeta, Checks
  <2>5. CASE obj' = obj /\ pc' = "report"
    BY <1>a, <2>1, <2>5 DEF ClaimInv, ClaimHolds, DeletedClaimsNothing, ReconcileClaim, Ran,
       SameCopy, Checks
  <2>6. CASE fresh /\ obj' = Updated(obj, cr) /\ owed'
    BY <1>a, <2>1, <2>2, <2>3, <2>4, <2>6
       DEF ClaimInv, ClaimHolds, DeletedClaimsNothing, ReconcileClaim, Ran, SameCopy, Checks
  <2> QED BY <2>1, <2>5, <2>6
<1> QED BY <1>3, <1>4, <1>5, <1>6, <1>7, <1>8, <1>9, <1>10 DEF Writing

(* A reconcile that starts, and one that ends.                              *)
LEMMA EdgeClaim ==
    ASSUME CopyInv, PolicyInv, ClaimInv,
           \/ StartReconcile \/ RemoveFinalizerOk \/ ReportSuccess \/ ReportError
           \/ ReportLost \/ Crash
    PROVE  ClaimInv'
<1>a. CopiesAgree /\ Progress /\ PolicyOfCopies /\ PolicyOfRunner /\ ReconcileClaim /\ TypeOK
  BY DEF CopyInv, PolicyInv, ClaimInv
<1>b. ASSUME NEW next, EndReconcile(next), next \in {"idle", "down"},
             ClaimHolds' /\ DeletedClaimsNothing'
      PROVE  ClaimInv'
  BY <1>b DEF EndReconcile, ClaimInv, ReconcileClaim, Ran
<1>1. CASE StartReconcile
  BY <1>1 DEF StartReconcile, ClaimInv, ClaimHolds, DeletedClaimsNothing, ReconcileClaim,
     Ran, Checks, apiVars, targetVars
<1>2. CASE RemoveFinalizerOk
  <2>1. /\ EndReconcile("idle") /\ UNCHANGED <<cache, applied, owed>>
        /\ cr' = NoResource /\ (obj' = obj \/ (fresh /\ obj' = Unfinalized))
    BY <1>2 DEF RemoveFinalizerOk, EndReconcile, Land, apiVars, targetVars
  <2>2. fresh => Unfinalized = NoResource
    BY <1>2, <1>a DEF RemoveFinalizerOk, Unfinalized, Progress, CopiesAgree
  <2> QED BY <1>b, <2>1, <2>2, ClaimKept
<1>3. CASE ReportSuccess
  <2>1. /\ EndReconcile("idle") /\ UNCHANGED <<cache, applied, owed>> /\ cr' = NoResource
        /\ obj' = Reported("True") /\ fresh /\ pc = "success"
    BY <1>3 DEF ReportSuccess, EndReconcile, Land, targetVars
  <2>2. /\ obj'.lastApplied = obj.lastApplied /\ obj'.deleting = obj.deleting
        /\ obj'.runPolicy = obj.runPolicy
    BY <1>a, <2>1, ReportedFields DEF SameMeta
  <2>3. ~obj.deleting /\ obj.lastApplied \in Params => applied = obj.lastApplied \/ owed
    BY <1>a, <2>1 DEF CopiesAgree, ReconcileClaim, Ran, ClaimInv, ClaimHolds
  <2> QED BY <1>b, <2>1, <2>2, <2>3, ClaimKept
<1>4. CASE ReportError
  <2>1. /\ EndReconcile("idle") /\ UNCHANGED <<cache, applied>> /\ cr' = NoResource
        /\ obj' = Reported("False")
    BY <1>4 DEF ReportError, EndReconcile, Land
  <2>2. /\ obj'.lastApplied = obj.lastApplied /\ obj'.deleting = obj.deleting
        /\ obj'.runPolicy = obj.runPolicy /\ obj'.synced = "False"
    BY <1>a, <2>1, ReportedFields DEF SameMeta
  <2>3. ~cr'.deleting
    BY <2>1 DEF NoResource
  <2>4. ClaimHolds' /\ DeletedClaimsNothing'
    BY <2>1, <2>2, <2>3 DEF ClaimInv, ClaimHolds, DeletedClaimsNothing, Checks
  <2> QED BY <1>b, <2>1, <2>4
<1>5. CASE ReportLost
  BY <1>b, <1>5, ClaimKept DEF ReportLost, EndReconcile, apiVars, targetVars
<1>6. CASE Crash
  <2>1. /\ EndReconcile("down") /\ UNCHANGED <<obj, cache, owed>> /\ cr' = NoResource
    BY <1>6 DEF Crash, EndReconcile, apiVars
  <2>2. CASE UNCHANGED applied
    BY <1>b, <2>1, <2>2, ClaimKept
  <2>3. CASE pc \in {"running", "destroying"}
    <3>1. obj.lastApplied \in Params /\ ~obj.deleting => owed
      BY <1>a, <2>3 DEF ReconcileClaim, Progress, ClaimInv, DeletedClaimsNothing
    <3>2. ~cr'.deleting
      BY <2>1 DEF NoResource
    <3>3. ClaimHolds' /\ DeletedClaimsNothing'
      BY <2>1, <3>1, <3>2 DEF ClaimInv, ClaimHolds, DeletedClaimsNothing, Checks
    <3> QED BY <1>b, <2>1, <3>3
  <2> QED BY <1>6, <2>2, <2>3 DEF Crash
<1> QED BY <1>1, <1>2, <1>3, <1>4, <1>5, <1>6

(* Users set the annotation to what claims nothing, or leave it alone.       *)
LEMMA UserClaim ==
    ASSUME ClaimInv, NEW op, NEW new, UserWrite(op, new),
           \/ new.lastApplied \notin Params
           \/ /\ new.lastApplied = obj.lastApplied /\ UNCHANGED owed
              /\ Checks(new) => Checks(obj)
              /\ new.deleting \/ (new.synced = obj.synced /\ ~obj.deleting)
    PROVE  ClaimInv'
<1>1. obj' = new /\ ~fresh' /\ UNCHANGED <<cache, cr, pc, runner, runErr, observation, applied>>
  BY DEF UserWrite, runVars
<1>2. CASE new.lastApplied \notin Params
  BY <1>1, <1>2 DEF ClaimInv, ClaimHolds, DeletedClaimsNothing, ReconcileClaim, Ran
<1>3. CASE new.lastApplied \in Params
  BY <1>1, <1>3 DEF ClaimInv, ClaimHolds, DeletedClaimsNothing, ReconcileClaim, Ran, Checks
<1> QED BY <1>2, <1>3

LEMMA EnvironmentClaim ==
    ASSUME CopyInv, PolicyInv, ClaimInv, PolicyKept,
           SyncCache \/ Restart \/ User \/ Drift
    PROVE  ClaimInv'
<1>a. TypeOK
  BY DEF CopyInv
<1>s. ASSUME NEW op, NEW new, UserWrite(op, new), UNCHANGED owed,
             new.lastApplied = obj.lastApplied, new.synced = obj.synced,
             new.deleting = obj.deleting, Checks(new) => Checks(obj)
      PROVE  ClaimInv'
  <2>1. CASE obj.deleting
    BY <1>s, <2>1, UserClaim
  <2>2. CASE ~obj.deleting
    BY <1>s, <2>2, UserClaim
  <2> QED BY <2>1, <2>2
<1> USE DEF apiVars, copyVars, runVars, targetVars
<1>1. CASE SyncCache
  BY <1>1 DEF SyncCache, ClaimInv, ClaimHolds, DeletedClaimsNothing, ReconcileClaim, Ran,
     Checks
<1>2. CASE Restart
  BY <1>2 DEF Restart, ClaimInv, ClaimHolds, DeletedClaimsNothing, ReconcileClaim, Ran,
     Checks
<1>3. CASE Drift
  BY <1>3 DEF Drift, ClaimInv, ClaimHolds, DeletedClaimsNothing, ReconcileClaim, Ran,
     Checks
<1>4. CASE Edit
  <2>1. PICK spec \in Params : UserWrite("edit", [obj EXCEPT !.spec = spec])
    BY <1>4 DEF Edit
  <2> DEFINE new == [obj EXCEPT !.spec = spec]
  <2>2. /\ new.runPolicy = obj.runPolicy /\ new.lastApplied = obj.lastApplied
        /\ new.synced = obj.synced /\ new.deleting = obj.deleting
    BY <1>a DEF TypeOK, Resource
  <2>3. UNCHANGED owed
    BY <1>4 DEF Edit
  <2> QED BY <1>s, <2>1, <2>2, <2>3 DEF Checks
<1>5. CASE Touch
  BY <1>s, <1>5 DEF Touch
<1>6. CASE Apply
  <2>1. PICK spec \in Params :
           UserWrite("apply", [obj EXCEPT !.spec = spec, !.lastApplied = Foreign])
    BY <1>6 DEF Apply
  <2>2. [obj EXCEPT !.spec = spec, !.lastApplied = Foreign].lastApplied \notin Params
    BY <1>a, ResourceAssumption DEF TypeOK, Resource
  <2> QED BY <2>1, <2>2, UserClaim
<1>7. CASE SwitchRunPolicy
  <2>1. PICK spec \in Params, runPolicy \in RunPolicies :
           UserWrite("runPolicy", [obj EXCEPT !.runPolicy = runPolicy, !.spec = spec])
    BY <1>7 DEF SwitchRunPolicy
  <2> DEFINE new == [obj EXCEPT !.runPolicy = runPolicy, !.spec = spec]
  <2>2. /\ new.runPolicy = runPolicy /\ new.lastApplied = obj.lastApplied
        /\ new.synced = obj.synced /\ new.deleting = obj.deleting
    BY <1>a DEF TypeOK, Resource
  <2>3. runPolicy # "CheckWhenObserve"
    BY <2>1 DEF PolicyKept, UserWrite
  <2>4. UNCHANGED owed
    BY <1>7 DEF SwitchRunPolicy
  <2> QED BY <1>s, <2>1, <2>2, <2>3, <2>4 DEF Checks
<1>8. CASE ResetDeletionPolicy
  <2> DEFINE new == [obj EXCEPT !.deletionPolicy = "Delete"]
  <2>1. /\ new.runPolicy = obj.runPolicy /\ new.lastApplied = obj.lastApplied
        /\ new.synced = obj.synced /\ new.deleting = obj.deleting
    BY <1>a DEF TypeOK, Resource
  <2>2. UserWrite("deletionPolicy", new) /\ UNCHANGED owed
    BY <1>8 DEF ResetDeletionPolicy
  <2> QED BY <1>s, <2>1, <2>2 DEF Checks
<1>9. CASE UserDelete
  <2>1. CASE obj.finalizer
    <3> DEFINE new == [obj EXCEPT !.deleting = TRUE]
    <3>1. new.runPolicy = obj.runPolicy /\ new.lastApplied = obj.lastApplied /\ new.deleting
      BY <1>a DEF TypeOK, Resource
    <3>2. UserWrite("delete", new) /\ UNCHANGED owed
      BY <1>9, <2>1 DEF UserDelete
    <3> QED BY <3>1, <3>2, UserClaim DEF Checks
  <2>2. CASE ~obj.finalizer
    <3>1. UserWrite("delete", NoResource)
      BY <1>9, <2>2 DEF UserDelete
    <3>2. NoResource.lastApplied \notin Params
      BY ResourceAssumption DEF NoResource
    <3> QED BY <3>1, <3>2, UserClaim
  <2> QED BY <2>1, <2>2
<1>10. CASE UserCreate
  <2>1. PICK spec \in Params, runPolicy \in RunPolicies, lastApplied \in {None, Foreign} :
           UserWrite("create", NewResource(spec, runPolicy, lastApplied))
    BY <1>10 DEF UserCreate
  <2>2. NewResource(spec, runPolicy, lastApplied).lastApplied \notin Params
    BY ResourceAssumption DEF NewResource, NoResource
  <2> QED BY <2>1, <2>2, UserClaim
<1> QED BY <1>1, <1>2, <1>3, <1>4, <1>5, <1>6, <1>7, <1>8, <1>9, <1>10 DEF User

LEMMA ClaimStep ==
    ASSUME PolicyKept
    PROVE  CopyInv /\ FinalizerKept /\ PolicyInv /\ ClaimInv /\ [Next]_vars => ClaimInv'
<1> SUFFICES ASSUME CopyInv, FinalizerKept, PolicyInv, ClaimInv, [Next]_vars PROVE ClaimInv'
  OBVIOUS
<1>1. CopyInv'
  BY CopyStep
<1>2. CASE UNCHANGED vars
  BY <1>2 DEF ClaimInv, ClaimHolds, DeletedClaimsNothing, ReconcileClaim, Ran, Checks,
     vars, clientVars
<1>3. CASE Next
  BY <1>1, <1>3, StepKinds, LocalClaim, WritingClaim, EdgeClaim, EnvironmentClaim
<1> QED BY <1>2, <1>3

LEMMA ClaimInit == Init => ClaimInv
<1> SUFFICES ASSUME Init PROVE ClaimInv
  OBVIOUS
<1>1. PICK spec \in Params, runPolicy \in RunPolicies, lastApplied \in {None, Foreign} :
         obj = NewResource(spec, runPolicy, lastApplied)
  BY DEF Init
<1>2. obj.lastApplied \notin Params
  BY <1>1, ResourceAssumption DEF NewResource, NoResource
<1> QED BY <1>2 DEF Init, ClaimInv, ClaimHolds, DeletedClaimsNothing, ReconcileClaim, Ran

LEMMA ClaimInvariant ==
    ASSUME PolicyKept
    PROVE  Spec => []ClaimInv
BY ClaimInit, ClaimStep, CopyInvariant, KeptInvariant, PolicyInvariant, PTL DEF Spec

(* While nobody switches an AnsibleRun to or from CheckWhenObserve, a        *)
(* reconcile that reports success for a live AnsibleRun leaves its spec     *)
(* applied on the target system, or an earlier run of that spec was lost:   *)
(* handleLastApplied writes the annotation before the run, Update runs      *)
(* without check mode, and nothing but the last write of a reconcile sets   *)
(* the condition Synced.                                                    *)
THEOREM SuccessIsApplied ==
    ASSUME PolicyKept
    PROVE  Spec => SuccessMeansApplied
<1>1. CopyInv /\ ClaimInv /\ [Next]_vars =>
          [ReportSuccess /\ ~cr.deleting => applied = obj.spec \/ owed]_vars
  BY DEF ReportSuccess, Land, ClaimInv, ReconcileClaim, Ran
<1> QED BY <1>1, ClaimInvariant, CopyInvariant, PTL DEF Spec, SuccessMeansApplied

===============================================================================
