-------------------------- MODULE AnsibleRunDeletion --------------------------
(***************************************************************************)
(* Proof that what Delete removed stays removed, but for an AnsibleRun with *)
(* the policy CheckWhenObserve, whose Delete runs dry.  Two things hold it  *)
(* together: only a reconcile that saw the AnsibleRun being deleted reports *)
(* the reason Deleting, and every later one sees it, too, and runs nothing  *)
(* but Delete.                                                              *)
(***************************************************************************)
EXTENDS AnsibleRunClaims

(* A step within a reconcile that writes nothing to the API server.         *)
LEMMA LocalStep ==
    ASSUME CleanInv, Reconciling, UNCHANGED <<obj, cache>>, fresh' => fresh,
           SameCopy, cr'.ready = "Deleting" => cr.deleting,
           \/ UNCHANGED applied \/ applied' \notin Params
           \/ pc = "running" /\ ~cr.deleting,
           pc' = "success" /\ cr.deleting /\ ~Checks(cr) => applied' \notin Params,
           pc' = "destroying" => runner'.state = "absent"
    PROVE  CleanInv'
BY DEF CleanInv, DeletedMeansCleaned, DeletionReported, Reconciling, SameCopy, Checks

(* A write of the API server: it touches neither the deletion mark nor the  *)
(* policy, nor, unless it reports the reconcile, more of the status than    *)
(* Ready.                                                                   *)
LEMMA WriteStep ==
    ASSUME CleanInv, CopiesAgree, UNCHANGED <<cache, applied>>, fresh, SameCopy,
           obj'.deleting = obj.deleting, obj'.runPolicy = obj.runPolicy,
           \/ obj'.ready = obj.ready /\ obj'.synced = obj.synced
           \/ obj'.ready # "Deleting",
           cr'.ready \in {cr.ready, obj'.ready},
           pc' = "success" => ~cr.deleting,
           pc' # "destroying"
    PROVE  CleanInv'
BY DEF CleanInv, DeletedMeansCleaned, DeletionReported, CopiesAgree, Reconciling, SameCopy,
       Checks

(* A reconcile's error, or its last write: of an object that is gone, or of *)
(* an outcome.                                                              *)
LEMMA LastStep ==
    ASSUME CleanInv, CopiesAgree, UNCHANGED <<cache, applied>>,
           \/ pc' \in {"idle", "down"} /\ cr' = NoResource /\ ~fresh'
           \/ pc' = "report" /\ cr' = cr /\ (fresh' => fresh) /\ Reconciling,
           \/ obj' = obj
           \/ obj' = NoResource
           \/ /\ fresh /\ obj'.deleting = obj.deleting
              /\ obj'.runPolicy = obj.runPolicy
              /\ \/ obj'.ready = obj.ready /\ obj'.synced = obj.synced
                 \/ obj'.ready # "Deleting"
                 \/ obj'.ready = cr.ready
                    /\ \/ obj'.synced = "False"
                       \/ cr.deleting /\ ~Checks(obj) => applied \notin Params
    PROVE  CleanInv'
<1>a. NoResource.ready = "Unknown" /\ ~NoResource.deleting  BY DEF NoResource
<1>b. /\ pc' \in {"idle", "down", "report"}
      /\ Reconciling' => Reconciling /\ cr' = cr
      /\ fresh' => fresh /\ cr' = cr
      /\ cr'.ready = "Deleting" => cr'.deleting
  <2>1. CASE cr' = NoResource  BY <1>a, <2>1 DEF Reconciling, CleanInv
  <2>2. CASE cr' = cr  BY <1>a, <2>2 DEF Reconciling, CleanInv
  <2> QED  BY <2>1, <2>2
<1>1. CASE obj' = obj
  BY <1>b, <1>1 DEF CleanInv, DeletedMeansCleaned, DeletionReported
<1>2. CASE obj' = NoResource
  BY <1>a, <1>b, <1>2 DEF CleanInv, DeletedMeansCleaned, DeletionReported
<1>3. CASE fresh /\ obj' # NoResource /\ obj' # obj
  <2>1. cr.deleting = obj.deleting  BY <1>3 DEF CopiesAgree
  <2>2. obj'.ready = "Deleting" => cr.deleting /\ cache.deleting
    BY <1>3, <2>1 DEF CleanInv, CopiesAgree
  <2>3. DeletedMeansCleaned'
    BY <1>3, <2>1 DEF CleanInv, DeletedMeansCleaned, DeletionReported, Checks
  <2> QED  BY <1>b, <1>3, <2>1, <2>2, <2>3 DEF CleanInv
<1> QED  BY <1>1, <1>2, <1>3

(* What the steps within a reconcile do to the condition Ready of the copy. *)
LEMMA LocalReady ==
    ASSUME CopyInv, Local
    PROVE  cr'.ready = "Deleting" => cr.ready = "Deleting" \/ cr.deleting
<1>a. TypeOK /\ Progress
  BY DEF CopyInv
<1> USE DEF copyVars
<1>1. CASE ObserveDeleted \/ ObserveMissing \/ ObserveCheck \/ ObserveErr
  <2>1. cr' = SetDeletionPolicy(cr)
    BY <1>1 DEF ObserveDeleted, ObserveMissing, ObserveCheck, ObserveErr
  <2> QED BY <1>a, <2>1 DEF SetDeletionPolicy, TypeOK, Resource
<1>2. CASE ObserveLastApplied
  <2> DEFINE desired == SetDeletionPolicy(cr)
  <2>1. desired \in Resource /\ desired.ready = cr.ready
    BY <1>a, OrphanFields DEF SetDeletionPolicy, TypeOK, Resource
  <2>2. cr' = desired \/ cr' = [desired EXCEPT !.lastApplied = desired.spec]
    BY <1>2 DEF ObserveLastApplied
  <2> HIDE DEF desired
  <2> QED BY <2>1, <2>2 DEF Resource
<1>3. CASE RunOk \/ RunErr
  <2>1. cr' = [cr EXCEPT !.ready = "True"] \/ cr' = [cr EXCEPT !.ready = "False"]
    BY <1>3 DEF RunOk, RunErr
  <2> QED BY <1>a, <2>1 DEF TypeOK, Resource
<1>4. CASE Delete \/ DestroyErr
  BY <1>a, <1>4 DEF Delete, DestroyErr, Progress
<1> QED BY <1>1, <1>2, <1>3, <1>4
        DEF Local, ConnectOk, WriteExtraVarOk, CheckOk, Update, DestroyOk, AfterObserve,
            ConnectErr, WriteExtraVarErr, CheckErr

LEMMA LocalClean ==
    ASSUME CopyInv, PolicyInv, CleanInv, Local
    PROVE  CleanInv'
<1>a. /\ SameCopy /\ UNCHANGED <<obj, cache, fresh>> /\ Reconciling
      /\ cr'.ready = "Deleting" => cr.deleting
  BY LocalEffect, LocalReady, WithinReconciling DEF CleanInv
<1>b. TypeOK /\ Progress /\ PolicyOfRunner
  BY DEF CopyInv, PolicyInv
<1> USE DEF targetVars, runVars
<1>1. CASE UNCHANGED applied /\ pc' \notin {"success", "destroying"}
  BY <1>a, <1>1, LocalStep
<1>2. CASE RunOk \/ RunErr
  <2>1. pc = "running" /\ pc' = "record"
    BY <1>2 DEF RunOk, RunErr
  <2>2. ~cr.deleting
    BY <1>b, <2>1 DEF PolicyOfRunner
  <2> QED BY <1>a, <2>1, <2>2, LocalStep
<1>3. CASE Delete
  <2>1. UNCHANGED applied /\ pc' = "destroying" /\ runner'.state = "absent"
    BY <1>b, <1>3 DEF Delete, TypeOK, Runner
  <2> QED BY <1>a, <2>1, LocalStep
<1>4. CASE DestroyOk
  <2>1. pc = "destroying" /\ pc' = "success" /\ RunLeaves
    BY <1>4 DEF DestroyOk
  <2>2. UNCHANGED applied \/ applied' = Absent
    BY <2>1 DEF RunLeaves, CleanInv
  <2>3. ~Checks(cr) => applied' = Absent
    BY <1>b, <2>1 DEF RunLeaves, CleanInv, PolicyOfRunner
  <2> QED BY <1>a, <2>1, <2>2, <2>3, LocalStep, ResourceAssumption
<1>5. CASE DestroyErr
  <2>1. pc' = "report" /\ (applied' = applied \/ applied' = Partial)
    BY <1>5 DEF DestroyErr, FailedRunLeaves
  <2> QED BY <1>a, <2>1, LocalStep, ResourceAssumption
<1>6. CASE \/ ConnectOk \/ ObserveDeleted \/ ObserveMissing \/ ObserveLastApplied
           \/ ObserveCheck \/ WriteExtraVarOk \/ CheckOk \/ Update \/ AfterObserve
           \/ ConnectErr \/ ObserveErr \/ WriteExtraVarErr \/ CheckErr
  <2>1. UNCHANGED applied /\ pc' \notin {"success", "destroying"}
    BY <1>6 DEF ConnectOk, ObserveDeleted, ObserveMissing, ObserveLastApplied, ObserveCheck,
       WriteExtraVarOk, CheckOk, Update, AfterObserve, ConnectErr, ObserveErr,
       WriteExtraVarErr, CheckErr
  <2> QED BY <1>1, <2>1
<1> QED BY <1>2, <1>3, <1>4, <1>5, <1>6 DEF Local

LEMMA WritingClean ==
    ASSUME CopyInv, PolicyInv, CleanInv, Writing
    PROVE  CleanInv'
<1>a. SameCopy /\ UNCHANGED <<cache, applied>> /\ (fresh' => fresh) /\ Reconciling
  BY WritingEffect, WithinReconciling DEF PolicyInv
<1>b. TypeOK /\ CopiesAgree /\ Progress /\ PolicyOfCopies /\ PolicyOfRunner
  BY DEF CopyInv, PolicyInv
<1>f. fresh => cr.deleting = obj.deleting
  BY <1>b DEF CopiesAgree
(* What is written says Deleting only of a copy that does.                  *)
<1>w. ASSUME NEW new, fresh,
             \/ new \in {Skip, Updated(obj, cr), Finalized}
             \/ new = StatusUpdated(obj, cr) /\ cr.ready # "Deleting"
      PROVE  /\ new.deleting = obj.deleting /\ new.runPolicy = obj.runPolicy
             /\ \/ new.ready = obj.ready /\ new.synced = obj.synced
                \/ new.ready # "Deleting"
  <2>1. new.deleting = obj.deleting /\ new.runPolicy = obj.runPolicy
    BY <1>b, <1>w, WrittenMeta
  <2>2. CASE new = Skip
    BY <1>b, <2>1, <2>2, SkipFields
  <2>3. CASE new = Updated(obj, cr)
    BY <1>b, <2>1, <2>3, UpdatedFields
  <2>4. CASE new = StatusUpdated(obj, cr) /\ cr.ready # "Deleting"
    BY <1>b, <2>1, <2>4, StatusFields
  <2>5. CASE new = Finalized
    BY <1>b, <2>1, <2>5, FinalizedFields
  <2> QED BY <1>w, <2>2, <2>3, <2>4, <2>5
<1>1. ASSUME NEW new, WriteOk(new),
             \/ new \in {Skip, Updated(obj, cr), Finalized}
             \/ new = StatusUpdated(obj, cr) /\ cr.ready # "Deleting",
             pc' # "destroying", pc' = "success" => ~cr.deleting
      PROVE  CleanInv'
  <2>1. fresh /\ obj' = new /\ cr' = new
    BY <1>1 DEF WriteOk, Land
  <2> QED BY <1>a, <1>b, <1>w, <1>1, <2>1, WriteStep
<1>2. ASSUME NEW new, WriteErr(new), pc' = "report",
             fresh => \/ new = NoResource
                      \/ /\ new.deleting = obj.deleting /\ new.runPolicy = obj.runPolicy
                         /\ \/ new.ready = obj.ready /\ new.synced = obj.synced
                            \/ new.ready # "Deleting"
      PROVE  CleanInv'
  <2>1. cr' = cr /\ (obj' = obj \/ (fresh /\ obj' = new))
    BY <1>2, WriteErrEffect
  <2> QED BY <1>a, <1>b, <1>2, <2>1, LastStep
<1>3. CASE SkipOk
  BY <1>1, <1>3 DEF SkipOk
<1>4. CASE AnnotateOk
  BY <1>1, <1>4 DEF AnnotateOk
<1>5. CASE RecordOk
  <2>1. /\ pc = "record" /\ pc' \in {"report", "success", "observed"}
        /\ WriteOk(StatusUpdated(obj, cr))
    BY <1>5 DEF RecordOk
  <2>2. ~cr.deleting /\ cr.ready # "Deleting"
    BY <1>b, <2>1 DEF PolicyOfRunner, CleanInv
  <2> QED BY <1>1, <2>1, <2>2
<1>6. CASE AddFinalizerOk
  <2>1. pc = "finalizer" /\ pc' \in {"create", "update", "success"}
    BY <1>6 DEF AddFinalizerOk, AfterFinalizer
  <2>2. ~cr.deleting
    BY <1>b, <2>1 DEF PolicyOfRunner
  <2>3. CASE cr.finalizer
    <3>1. UNCHANGED <<obj, cr>>
      BY <1>6, <2>3 DEF AddFinalizerOk, apiVars, copyVars
    <3> QED BY <1>a, <2>1, <2>2, <3>1, LocalStep DEF CleanInv
  <2>4. CASE ~cr.finalizer
    BY <1>1, <1>6, <2>1, <2>2, <2>4 DEF AddFinalizerOk
  <2> QED BY <2>3, <2>4
<1>7. CASE SkipErr
  BY <1>2, <1>w, <1>7 DEF SkipErr
<1>8. CASE AnnotateErr
  BY <1>2, <1>w, <1>8 DEF AnnotateErr
<1>9. CASE RecordErr
  <2>1. pc = "record" /\ ~cr.deleting
    BY <1>9, <1>b DEF RecordErr, PolicyOfRunner
  <2>2. cr.ready # "Deleting"
    BY <2>1 DEF CleanInv
  <2> QED BY <1>2, <1>w, <1>9, <2>2 DEF RecordErr
<1>10. CASE AddFinalizerErr
  BY <1>2, <1>w, <1>10 DEF AddFinalizerErr
<1>11. CASE RemoveFinalizerErr
  <2>1. fresh => Unfinalized = NoResource
    BY <1>11, <1>b DEF RemoveFinalizerErr, Unfinalized, Progress, CopiesAgree
  <2> QED BY <1>2, <1>11, <2>1 DEF RemoveFinalizerErr
<1> QED BY <1>3, <1>4, <1>5, <1>6, <1>7, <1>8, <1>9, <1>10, <1>11 DEF Writing

LEMMA EdgeClean ==
    ASSUME CopyInv, PolicyInv, CleanInv,
           \/ StartReconcile \/ RemoveFinalizerOk \/ ReportSuccess \/ ReportError
           \/ ReportLost \/ Crash
    PROVE  CleanInv'
<1> USE DEF apiVars, targetVars
<1>a. TypeOK /\ CopiesAgree /\ Progress /\ PolicyOfCopies
  BY DEF CopyInv, PolicyInv
<1>1. CASE StartReconcile
  BY <1>1 DEF StartReconcile, CleanInv, DeletedMeansCleaned, DeletionReported, Reconciling
<1>2. CASE RemoveFinalizerOk
  <2>1. /\ pc' = "idle" /\ cr' = NoResource /\ ~fresh' /\ UNCHANGED <<cache, applied>>
        /\ obj' = obj \/ (fresh /\ obj' = Unfinalized)
    BY <1>2 DEF RemoveFinalizerOk, EndReconcile, Land
  <2>2. fresh => Unfinalized = NoResource
    BY <1>2, <1>a DEF RemoveFinalizerOk, Unfinalized, Progress, CopiesAgree
  <2> QED BY <1>a, <2>1, <2>2, LastStep
<1>3. CASE ReportSuccess
  <2>1. /\ pc = "success" /\ pc' = "idle" /\ cr' = NoResource /\ ~fresh'
        /\ UNCHANGED <<cache, applied>> /\ fresh /\ obj' = Reported("True")
    BY <1>3 DEF ReportSuccess, EndReconcile, Land
  <2>2. obj'.deleting = obj.deleting /\ obj'.runPolicy = obj.runPolicy /\ obj'.ready = cr.ready
    BY <1>a, <2>1, ReportedFields DEF SameMeta
  <2>3. cr.deleting /\ ~Checks(obj) => applied \notin Params
    BY <1>a, <2>1 DEF CleanInv, PolicyOfCopies, Checks
  <2> QED BY <1>a, <2>1, <2>2, <2>3, LastStep
<1>4. CASE ReportError
  <2>1. /\ pc' = "idle" /\ cr' = NoResource /\ ~fresh' /\ fresh
        /\ UNCHANGED <<cache, applied>> /\ obj' = Reported("False")
    BY <1>4 DEF ReportError, EndReconcile, Land
  <2>2. /\ obj'.deleting = obj.deleting /\ obj'.runPolicy = obj.runPolicy
        /\ obj'.ready = cr.ready /\ obj'.synced = "False"
    BY <1>a, <2>1, ReportedFields DEF SameMeta
  <2> QED BY <1>a, <2>1, <2>2, LastStep
<1>5. CASE ReportLost
  <2>1. /\ pc' = "idle" /\ cr' = NoResource /\ ~fresh' /\ UNCHANGED <<obj, cache, applied>>
    BY <1>5 DEF ReportLost, EndReconcile
  <2> QED BY <1>a, <2>1, LastStep
<1>6. CASE Crash
  <2>1. /\ pc' = "down" /\ cr' = NoResource /\ ~fresh' /\ UNCHANGED <<obj, cache>>
        /\ applied' = applied \/ applied' = Partial
    BY <1>6 DEF Crash, EndReconcile, FailedRunLeaves
  <2>2. applied' \in Params => applied \in Params
    BY <2>1, ResourceAssumption
  <2>3. NoResource.ready = "Unknown"
    BY DEF NoResource
  <2> QED BY <2>1, <2>2, <2>3 DEF CleanInv, DeletedMeansCleaned, DeletionReported, Reconciling
<1> QED BY <1>1, <1>2, <1>3, <1>4, <1>5, <1>6

(* Users leave the status alone, or replace an object that is gone.         *)
LEMMA UserClean ==
    ASSUME CleanInv, NEW op, NEW new, UserWrite(op, new),
           \/ new.ready # "Deleting"
           \/ /\ new.ready = obj.ready /\ new.synced = obj.synced
              /\ new.deleting = obj.deleting
              /\ Checks(obj) => Checks(new)
    PROVE  CleanInv'
BY DEF UserWrite, CleanInv, DeletedMeansCleaned, DeletionReported, Reconciling, Checks, runVars

LEMMA EnvironmentClean ==
    ASSUME CopyInv, PolicyInv, CleanInv, PolicyKept,
           SyncCache \/ Restart \/ User \/ Drift
    PROVE  CleanInv'
<1> USE DEF apiVars, copyVars, runVars, targetVars
<1>a. TypeOK /\ CopiesAgree  BY DEF CopyInv
<1>b. NoResource.ready = "Unknown" /\ ~NoResource.deleting  BY DEF NoResource
<1>1. CASE SyncCache
  BY <1>1, <1>a DEF SyncCache, CleanInv, DeletedMeansCleaned, DeletionReported, CopiesAgree,
     Reconciling
<1>3. CASE Restart \/ Drift
  BY <1>3, <1>a DEF Restart, Drift, CleanInv, DeletedMeansCleaned, DeletionReported, Reconciling,
     CopiesAgree
<1>4. CASE Edit
  <2>1. PICK spec \in Params : UserWrite("edit", [obj EXCEPT !.spec = spec])
    BY <1>4 DEF Edit
  <2> DEFINE new == [obj EXCEPT !.spec = spec]
  <2>2. /\ new.ready = obj.ready /\ new.synced = obj.synced
        /\ new.deleting = obj.deleting /\ new.runPolicy = obj.runPolicy
    BY <1>a DEF TypeOK, Resource
  <2> QED BY <2>1, <2>2, UserClean DEF Checks
<1>5. CASE Touch
  BY <1>5, UserClean DEF Touch
<1>6. CASE Apply
  <2>1. PICK spec \in Params :
           UserWrite("apply", [obj EXCEPT !.spec = spec, !.lastApplied = Foreign])
    BY <1>6 DEF Apply
  <2> DEFINE new == [obj EXCEPT !.spec = spec, !.lastApplied = Foreign]
  <2>2. /\ new.ready = obj.ready /\ new.synced = obj.synced
        /\ new.deleting = obj.deleting /\ new.runPolicy = obj.runPolicy
    BY <1>a DEF TypeOK, Resource
  <2> QED BY <2>1, <2>2, UserClean DEF Checks
<1>7. CASE SwitchRunPolicy
  <2>1. PICK spec \in Params, runPolicy \in RunPolicies :
           UserWrite("runPolicy", [obj EXCEPT !.runPolicy = runPolicy, !.spec = spec])
    BY <1>7 DEF SwitchRunPolicy
  <2> DEFINE new == [obj EXCEPT !.runPolicy = runPolicy, !.spec = spec]
  <2>2. new.ready = obj.ready /\ new.synced = obj.synced /\ new.deleting = obj.deleting
    BY <1>a DEF TypeOK, Resource
  <2>3. ~Checks(obj)
    BY <2>1 DEF PolicyKept, UserWrite, PolicyInv, PolicyOfCopies
  <2> QED BY <2>1, <2>2, <2>3, UserClean
<1>8. CASE ResetDeletionPolicy
  <2> DEFINE new == [obj EXCEPT !.deletionPolicy = "Delete"]
  <2>1. /\ new.ready = obj.ready /\ new.synced = obj.synced
        /\ new.deleting = obj.deleting /\ new.runPolicy = obj.runPolicy
    BY <1>a DEF TypeOK, Resource
  <2> QED BY <1>8, <2>1, UserClean DEF ResetDeletionPolicy, Checks
<1>9. CASE UserDelete
  <2>1. obj.ready # "Deleting"
    BY <1>9 DEF UserDelete, CleanInv
  <2>2. [obj EXCEPT !.deleting = TRUE].ready = obj.ready
    BY <1>a DEF TypeOK, Resource
  <2> QED BY <1>9, <1>b, <2>1, <2>2, UserClean DEF UserDelete
<1>10. CASE UserCreate
  <2>1. PICK spec \in Params, runPolicy \in RunPolicies, lastApplied \in {None, Foreign} :
           UserWrite("create", NewResource(spec, runPolicy, lastApplied))
    BY <1>10 DEF UserCreate
  <2> QED BY <2>1, UserClean DEF NewResource, NoResource
<1> QED BY <1>1, <1>3, <1>4, <1>5, <1>6, <1>7, <1>8, <1>9, <1>10 DEF User

LEMMA CleanStep ==
    ASSUME PolicyKept
    PROVE  CopyInv /\ PolicyInv /\ CleanInv /\ [Next]_vars => CleanInv'
<1> SUFFICES ASSUME CopyInv, PolicyInv, CleanInv, [Next]_vars PROVE CleanInv'
  OBVIOUS
<1>1. CASE UNCHANGED vars
  BY <1>1 DEF CleanInv, DeletedMeansCleaned, DeletionReported, Reconciling, Checks, vars,
     clientVars
<1>2. CASE Next
  BY <1>2, StepKinds, LocalClean, WritingClean, EdgeClean, EnvironmentClean
<1> QED BY <1>1, <1>2

(* While nobody switches an AnsibleRun to or from CheckWhenObserve, once a   *)
(* reconcile has reported that Delete succeeded, nothing puts the content   *)
(* back while the AnsibleRun being deleted lives: neither a reconcile that  *)
(* starts from a stale cache, nor a run that a crash or a conflict repeats. *)
THEOREM DeletedIsClean ==
    ASSUME PolicyKept
    PROVE  Spec => []DeletedMeansCleaned
<1>1. Init => CleanInv
  BY DEF Init, CleanInv, DeletedMeansCleaned, DeletionReported, Reconciling, NewResource,
     NoResource
<1>2. CleanInv => DeletedMeansCleaned
  BY DEF CleanInv
<1> QED BY <1>1, <1>2, CleanStep, CopyInvariant, PolicyInvariant, PTL DEF Spec

(* Where CheckWhenObserve is not used at all, design.md's word on Delete    *)
(* holds: a deletion reported as successful has removed the content.        *)
THEOREM ReportedIsClean ==
    ASSUME "CheckWhenObserve" \notin RunPolicies
    PROVE  Spec => []ReportedDeletionCleaned
<1>1. PolicyInv /\ DeletedMeansCleaned => ReportedDeletionCleaned
  BY DEF PolicyInv, PolicyOfCopies, Checks, DeletedMeansCleaned, ReportedDeletionCleaned
<1>2. PolicyKept
  BY DEF PolicyKept
<1> QED BY <1>1, <1>2, PolicyInvariant, DeletedIsClean, PTL

===============================================================================
