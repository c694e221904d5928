# provider-ansible in TLA+

provider-ansible is a Crossplane provider: it turns `AnsibleRun` objects of the Kubernetes API into runs of
`ansible-runner`. This directory models what it does to an `AnsibleRun` over its life, what a run finds in its
working directory and says of its failure, and how several replicas of the provider share the `AnsibleRun`s out among
themselves. Paths below are those of the repository.

Contents: [the system](#1-the-system) · [the modules](#2-the-modules) · [the runs](#3-the-runs) ·
[what the code does not do](#4-where-the-code-and-the-documents-part) · [the proofs](#5-the-proofs) ·
[limits](#6-what-is-assumed-and-what-is-left-out) · [plan](#7-plan)

## 1. The system

| Component | State it keeps | Operations | Makes it correct |
|---|---|---|---|
| External client of an `AnsibleRun` (`internal/controller/ansibleRun/ansibleRun.go`, `Observe` … `runAnsible`) | the object's annotation `last-applied-configuration`, its `deletionPolicy`, conditions `Ready` and `Synced`; the target system | `Observe`, `Create`, `Update`, `Delete`, `handleLastApplied`, `runAnsible` | success is reported only for a spec that was applied; an annotation precedes the run it claims; failed runs are retried |
| Managed reconciler (crossplane-runtime, external) | finalizer, `Synced`, the copy it works on | read, Connect, Observe, finalizer, Create / Update / Delete, report | a deleted object goes away; what was deleted stays deleted |
| Connect (`connector.Connect`) | the working directory of the object's UID, the variable `GIT_CRED_DIR` | write playbook, inventory, credentials, requirements; galaxy install; `Init` | the runner is the one for the spec; nothing of an earlier spec is left |
| Runner (`internal/ansible/ansible.go`) | check mode, the extra variable `state` | `Init`, `WriteExtraVar`, `EnableCheckMode`, `Run`, `Diff`, `selectRolePath` | a check changes nothing; a run asks for the state its caller wants |
| Shard leases (`acquireAndHoldShard`, `acquireLease`, `releaseLease`) | one `Lease` per shard | acquire, renew in a goroutine, release at a signal | one owner per shard; every shard served |
| Shard filter (`pkg/shardutil`) and the controller's work queue | the names queued, the reconcile in progress | accept or drop an event: hash of the name modulo the replica's own `--replicas` | an `AnsibleRun` is reconciled by one owner; no edit is lost when its shard moves |
| Failure reason (`Run`, `extractFailureReason`, `parseEvents`) | the artifacts of earlier runs | read the event files of a failed run | the reason is this run's, whole and in order |
| ProviderConfig controller (`internal/controller/config`) | usage records (crossplane-runtime) | wiring only | — |
| Process (`cmd/provider/main.go`) | the provider's context, flags | start, cancel, stop | no reconcile outlives the lease |

How they interact: `main` sets up the controllers; `Setup` acquires a shard lease before it builds the `AnsibleRun`
controller and starts the renewal goroutine, whose only way to say that the lease is lost is to cancel the context
that `mgr.Start` runs under. The managed reconciler calls `Connect`, then the methods of the client it returns.
Those read through the informer cache and write to the API server; the `resourceVersion` of the copy they carry is
the only thing that orders them against users and against what they did not see. The reconciler persists what the
client left on the copy: `Observe` sets `deletionPolicy: Orphan` there and lets later writes take it to the server.

The hard part is that one reconcile makes up to five writes and one long run, none of which is atomic with
another, and that what one reconcile decides rests on what the last one got to write (the annotation *and* the
condition `Synced`). In between a user edits, deletes, re-creates or `kubectl apply`s the object, responses get
lost, the process crashes. For the leases it is time: a renewal that is late, a clock that is ahead, a replica that
still works after it lost its lease. For `Connect` it is what an earlier reconcile has left: files of an earlier
spec, half-written files, roles of another version, another reconcile's variable. `hazards` in `PROJECT.json` lists these places line by line, with the
properties aimed at each.

## 2. The modules

| Module | Models |
|---|---|
| `AnsibleRunResource` | the fields of an `AnsibleRun` that decisions read, and the pure functions on them: `newRunPolicy`, `Init`'s refusals, `getLastAppliedParameters`, the test of `handleLastApplied`; what the API server keeps of an `Update` and of a `Status().Update` |
| `ExternalClient` | `Connect`, `Observe`, `Update`, `Delete`, `handleLastApplied`, `runAnsible`, the runner's check mode, `state` variable and effect on the target system |
| `AnsibleRun` | composes the client with the managed reconciler, the informer cache, users, crashes and drift; the safety and liveness properties; the inductive invariants |
| `MCAnsibleRun` | the small sets its configurations choose from |
| `AnsibleRunProofs`, `AnsibleRunClaims`, `AnsibleRunDeletion` | theorems about `AnsibleRun` (section 5) |
| `Workspace` | every write of `Connect` to a working directory, `GIT_CRED_DIR`, the install of roles, `Init`'s and `WriteExtraVar`'s file, and what `cmdFunc` starts ansible-runner with; several `AnsibleRun`s and workers |
| `MCWorkspace`, `WorkspaceProofs` | small instances; theorems |
| `FailureReason` | the event files of several runs in one working directory, `parseEvents`, `extractFailureReason` and what `Run` returns; small enough for a configuration to instantiate it directly |
| `FailureReasonProofs` | theorems |
| `ShardLease` | `acquireAndHoldShard`, its goroutine, `acquireLease`, `releaseLease`, the end and the restart of a replica, time |
| `ShardOwnership` | the abstract specification: a shard has at most one owner, a replica at most one shard, and a shard changes hands only by way of having none |
| `ShardLeaseTimely` | the assumption on durations under which `ShardLease` implements `ShardOwnership`, the refinement mapping, the inductive invariant |
| `MCShardLease`, `ShardLeaseProofs`, `ShardOwnershipProofs` | small instances; theorems |
| `ShardedReconcile` | composes `ShardLease` with the event filter, the work queue and the reconciles of each replica |
| `MCShardedReconcile`, `ShardedReconcileProofs` | small instances; theorems |

### AnsibleRun: state and actions

`obj` is the object in the API server, `cache` the informer's copy, `cr` the copy of the reconcile in progress. A
`resourceVersion` is not a number but a flag, `cacheFresh` and `fresh`: whether the copy is of the current one.
`Land` is a write that the server accepts, which needs `fresh`; a write that changes nothing keeps the version, as
the API server does. `WriteErr` is every way for a write to fail, the response that gets lost after the write has
landed included. `pc` names the next call the reconcile makes, so that anything may happen between two calls.

| Code | Actions |
|---|---|
| reconcile begins, `deletionPolicy` is read | `StartReconcile` (sets `shouldDelete`) |
| `Connect` | `ConnectOk`, `ConnectErr` |
| `Observe`, ObserveAndDelete | `ObserveDeleted`, `ObserveMissing`, `ObserveLastApplied`, `ObserveErr` |
| `handleLastApplied` | `SkipOk/Err` (nothing to run); `AnnotateOk/Err`, `WriteExtraVarOk/Err`, then `runAnsible` |
| `runAnsible` | `RunOk/Err`, then the status write `RecordOk/Err` |
| `Observe`, CheckWhenObserve | `ObserveCheck`, `CheckOk/Err` |
| `Update`, `Delete` | `Update`; `Delete`, `DestroyOk/Err` |
| reconciler after `Observe` | `AfterObserve`, `AddFinalizerOk/Err`, `RemoveFinalizerOk/Err`, `ReportSuccess`, `ReportError`, `ReportLost` |
| users, kubelet, others | `Edit`, `Touch`, `Apply`, `SwitchRunPolicy`, `ResetDeletionPolicy`, `UserDelete`, `UserCreate`, `Crash`, `Restart`, `SyncCache`, `Drift` |

`applied` is what the last real run left on the target system: a value of `Params`, `Absent` after a successful run
with `state: absent`, `Partial` after one that failed or was killed half-way. That content obeys the `state` variable
is the contract `docs/design.md` asks of it. `owed` is a history variable: the annotation claims a run that neither
succeeded nor was reported as failed. Reporting the failure (`Synced: False`) clears it, since the next reconcile
then runs again.

### ShardLease: state and actions

A `Lease` is its holder and the age of its `RenewTime`; ages stop at `Expired`, past which nothing tells them apart.
A replica is `acquiring`, `holding`, `releasing` (it saw a signal), `stopping` (its context is cancelled, its lease
not given back), `released` (cancelled, lease given back) or `down`. `acquireLease` makes two calls, one after the
other. `Get` sends the first, `Read` is the server's answer, and `FindAbsent`, `FindUsable`, `FindHeld`, `FindStale` (the
lease has changed since it was read) and `FindErr` are what the replica makes of it; `WriteOk`, `WriteLost`,
`WriteConflict` and `WriteErr` are its create or update. Between any two of these anything may happen, and the server
refuses an update of a lease that has changed since it was read (`Stale`).
`Failed` is what an error means: the next shard for a replica that is acquiring, the end for one that is renewing.

After a failed renewal the goroutine calls `ProviderCancel` and does *not* return (`ansibleRun.go:639-644`): while the
replica stops it goes on calling `acquireLease`, and at a signal `releaseLease`. Both use `ctx`, which is
`s.ProviderCtx` (`:618`), the very context that `ProviderCancel` cancels (`cmd/provider/main.go:103-114`), and a client
that is given a cancelled context returns its error before it sends anything. So a stopping replica does call, and no
call of it reaches the server: `CancelledCall`, which changes nothing. Exclusion rests on it: with a context of
its own, a release while stopping deletes the lease and lets another replica in (the mutant `CancelledCallSent`).

A process that restarts has a new replica ID, so that the lease of the one that ended is held by `Gone`.

`ReplicasCount` is the `--replicas` flag of each replica: replicas of one rollout may differ in it.

`Tick` advances time by one unit and is not enabled while something has reached its deadline; this is how
"a call takes at most `CallMax`" and "a cancelled replica stops within `StopMax`" are said.

### ShardedReconcile: state and actions

`queue` and `working` are a replica's work queue and the reconcile it is at; `pending` is whether an edit still waits
for a reconcile that has read it. `LeaseStep` is any step of `ShardLease`; a replica that acquires its shard starts its
controller, whose informer lists every `AnsibleRun` (`InitialEvents`), and one that ends loses its queue. `Edit` is an
event for every replica that works, `Requeue` the poll interval and the resync, both behind `isResourceForShard`.
`Begin`, `Finish` and `FinishErr` are a reconcile's start, its end and its end with an error, which queues it again.
What happens within a reconcile is in `AnsibleRun`; here it only matters when it reads the object.

### Workspace: state and actions

`spec` and `config` are what users have in the API server, `desired` and `provider` what a reconcile has read of them.
`disk` has the content of each file of each working directory, `None` for no file and `Torn` for one whose write failed;
`installed` the version of each role in each path, `gitCredDir` the process's variable.

| Code | Actions |
|---|---|
| `Connect`, in the order of its writes | `Connect` (read, make the directory), `WriteInventory`, `WriteGitCredentials`, `WritePlaybook`, `WriteCredentials`, `WriteRequirements`, `InstallCollections`, `InstallRoles`, `InitRunner` |
| an error at any of them | `Fail`: the reconcile ends, the file of the step, if it is one that has something to write (`Due`), unwritten or torn |
| `Observe`, `Update`, `Delete` | `WriteExtraVar`, `Update`, `EndRun`, `Disconnect` |
| users, kubelet | `Edit` (spec, ProviderConfig or deletion), `Restart` (a container loses its file system) |

Several inventories, and several credentials of a kind, are one content. What the code does not write is as important
as what it does: no inventory leaves the hosts file alone, an installed role stays, nothing removes a directory.

### FailureReason: state and actions

`artifacts` holds the events of the runs that ansible-runner has kept, under the ident of each run; `happened` those of
the newest. A message is the counter of its event. `Start`, `StartErr`, `Emit`, `EndOk` and `EndErr` follow `Run`:
the process starts or not, writes event files (some of no interest, some not readable, some whose data has the wrong
type), and ends well or badly. `ReadDir` sorts by name, in which `10-…` comes before `2-…`: the file at place
`k` is the one with `k - 1` names before it (`Position`), which a proof can speak of and a sorting algorithm it could not.

## 3. The runs

Times are with two workers.

| Run | Checks | Instance |
|---|---|---|
| `reconcile_safety` | `SuccessMeansApplied`, `DeletedMeansCleaned` | both policies, two specs, three user operations of all kinds but a switch of the run policy, one crash (3.5 M states, 45 s) |
| `run_policies` | `TypeOK`, `AnnotatedBeforeRun`, `CreateNeverRuns` | every value of the run-policy annotation, the unsupported included; one spec `Init` refuses; policy switches, one crash |
| `convergence` | `FinalizerImpliesOrphan`, `CheckConverges`, `ApplyConverges`, `DeletionCompletes` | both policies, two edits, deletes or re-creations, one crash, one drift (1.1 M states, 2 min) |
| `shard_leases` | `TypeOK`, `ExclusiveShard`, `OwnershipSpec`, `AllShardsServed` | two replicas, two shards, clocks that differ; a unit is 2.5 s (0.7 M states, 2 min) |
| `sharded` | `QueueOK`, `OneReconciler`, `EditsQueued`, `EditsReconciled` | two replicas, two shards, smaller durations, one name and one edit (1 M states, 2.5 min) |
| `workspace` | `TypeOK`, `RunsOwnContent`, `OwnCredentials` | one `AnsibleRun`, five specs, three ProviderConfigs, two edits (2.6 M states, 30 s) |
| `failure_reason` | `ReasonIsOfThisRun`, `ReasonInOrder` | two runs, the artifacts of both kept, nought or eight quiet tasks and three others each (2.6 M states, 25 s) |
| `orphaned_content`, `dry_delete`, `lost_run`, `two_workers`, `stale_inventory` | what a document or a comment says and the code does not do: section 4 | each the smallest that shows it |

What the properties say:

- `SuccessMeansApplied`: a reconcile sets `Synced: True` on a live object only if the content of the object's spec is
  what is on the target system, *or* a run of it was lost (`owed`). It relates the last write of a reconcile to a run
  that may be several reconciles and a crash back. `owed` is the one exception, and `lost_run` shows it is needed.
- `FinalizerImpliesOrphan`: the Orphan policy `Observe` chose is in the server no later than the finalizer, over
  five different writes that may carry either.
- `AnnotatedBeforeRun`: the order in `handleLastApplied`, which everything above rests on.
- `CreateNeverRuns`: `Create` repeats the run of `Update`, and `Observe` reports a missing object when the cache has
  lost it; by then the copy is stale and has no finalizer, so that `AddFinalizer`, which comes first, fails.
- `DeletedMeansCleaned`: nothing runs the content again after a deletion reported as successful. An object that has
  CheckWhenObserve is excepted; `dry_delete` shows why.
- `CheckConverges`, `ApplyConverges`, `DeletionCompletes`, `AllShardsServed`: when failures stop, the spec is in
  place for good, deleted objects go away, every shard has a replica.
- `ExclusiveShard`, `OwnershipSpec`: see section 5.
- `QueueOK`, `OneReconciler`: a replica queues and reconciles names of its own shard only, whatever becomes of its
  lease while they wait; so two owners never reconcile the same `AnsibleRun`, given one `--replicas`.
- `EditsQueued`: no edit falls between two replicas. Whoever works on the shard of an edited name has it in its queue,
  by the event, the first list or a failed reconcile, or is at a reconcile that has read the edit. `EditsReconciled` is
  what becomes of it under fairness: an edit is not lost when the replica that has it in its queue dies, or when it is made while no
  replica has the shard: the next owner finds the object in its first list.
- `RunsOwnContent`: a run finds the playbook or an installed role, the variables, the state, the inventory and the
  credentials of what *its* reconcile has read. Each file is written at another step, an earlier reconcile may have
  failed at any of them, and `WriteExtraVar` reads back what `Init` wrote. The inventory is claimed only when there is
  one; `stale_inventory` shows why.
- `OwnCredentials`: when ansible-galaxy runs, `GIT_CRED_DIR` names the directory of this `AnsibleRun` and the
  file there is of the ProviderConfig it has read. The run `workspace`, with one `AnsibleRun`, is about the file;
  `two_workers` shows that the variable is lost with two workers, and section 5 that it is not with one.
- `ReasonIsOfThisRun`, `ReasonInOrder`: the reason has each message that counts once and none of an earlier run;
  messages are in order as far as their counters have the same number of digits, which is all the code gives.

**Bounds.** Users act at most `MaxOps` times, the provider crashes `MaxCrashes` times, other hands change the target
`MaxDrifts` times; reconciles, failures of calls and of runs, lost responses and conflicts are not bounded. Two specs
are enough to tell "the one applied" from "another one" and to come back to the first. Two edits show edit and
revert; three operations show delete, create again, edit. Every counterexample of the `AnsibleRun` runs needs at most two
user operations and one crash. `convergence` has no `touch`, `apply` or reset of the deletion policy, which `reconcile_safety` has. The shards have as many replicas as shards, so that every replica that restarts competes
for an expired lease; the durations are those of the code (30 s, 5 s, 10 s to stop), with calls of up to 2.5 s and clocks that differ by 5 s: the
sum of `TimingAssumption` is one unit short of the lease's duration, and at equality,
with one unit more of clock skew, TLC finds two owners: the assumption is not stronger than exclusion needs.
`sharded` has smaller durations that still satisfy it (6, 1, 1, 1 and no skew), which leaves every order of events. Its name hashes to 2, which is no shard: the modulo counts. The other name would double what the first one does, since queues
never mix names; the theorems are for any number. In `workspace` two edits lead over every pair of specs and back,
and the five specs differ in what they leave out, which is where a file of the earlier one could be found. Two
runs in `failure_reason` are one to leave events and one to find them; eight quiet tasks take the counters from 9 to 10.

**Deadlock.** The `AnsibleRun` runs say `CHECK_DEADLOCK FALSE`: once the object is gone and the users' operations are
spent, the system has nothing left to do. The shard runs check for deadlock: time must always be able to pass, which
also shows that the deadlines do not contradict each other.

**Fairness.** `AnsibleRun`'s `FairSpec` assumes that a reconcile in progress goes on and an object that exists is
reconciled again (the work queue requeues after an error, on a watch event, on the poll interval), that the
cache catches up (`SyncCache`: the watch delivers) and that the kubelet restarts the process. It also assumes
that failures stop at some time (`<>[][~Fault]_vars`). A `Fault` is a failing step that is no answer to a stale
copy or to an invalid spec; those go on. A lost response to a write that changed nothing looks the same as any other
step and is allowed for ever. `ShardedReconcile`'s `ShardedFairSpec` assumes that time passes, that each replica makes its next
step in the protocol of the leases and is restarted when down, that failures, signals and crashes stop (`ShardLease`'s
`Fairness`), that a worker takes what its queue has and ends its reconcile, and that in the end reconciles succeed.
`shard_leases` runs `ShardLease`'s own `FairSpec`, the same `Fairness` without workers.
No fairness is assumed of `Requeue`: no edit needs the poll interval.

## 4. Where the code and the documents part

| Run | Property | What happens |
|---|---|---|
| `orphaned_content` | `DeletionCleansUp` | `docs/design.md:467` promises that deleting an `AnsibleRun` runs the content again to clean up. `Observe` sets the Orphan policy (`ansibleRun.go:364`), `handleLastApplied` persists it (`:496`), and the reconciler removes the finalizer of an object with that policy without calling `Delete` |
| `dry_delete` | `ReportedDeletionCleaned` | under CheckWhenObserve `Observe` leaves the runner in check mode; `Update` switches it off (`:433`), `Delete` (`:452`) does not, and reports a dry run as a deletion. `Delete` is reached only after a user has set the deletion policy back to `Delete`, since `Observe` has set Orphan |
| `lost_run` | `UpToDateMeansApplied` | the annotation is written before the run while `Synced` is still `True`; after a crash in between, the edit is skipped as already applied and reported as a success |
| `two_workers` | `OwnCredentials` | `GIT_CRED_DIR` (`:266`) is one for the process; with `--max-reconcile-rate` above 1 another `Connect` overwrites it before this one's ansible-galaxy reads it |
| `stale_inventory` | `OwnInventory` | the hosts file is written when there is an inventory (`:233`) and never removed; after an edit that removes the inventory, which is the trace, the run is given the old one |

Other disagreements that the models contain, and that properties above make an exception for. They have no run of
their own; how to see each is said with it.

- *Switch of the run policy.* `Update` under CheckWhenObserve applies a spec without renewing the annotation (`:433`);
  a user who switches to ObserveAndDelete and restores the older spec in one edit finds the run skipped and reported as a
  success. `reconcile_safety` with `UserOps <- PolicyOps` and `SuccessMeansApplied` alone is violated in two operations.
- *Release before stop.* At a signal the lease is deleted first (`:648`) and the context cancelled afterwards; until
  `mgr.Start` returns, another replica may reconcile the shard as well. `ExclusiveShard` with `Works` for `Owns` is violated.
- *Rollout of `--replicas`.* Replicas take the modulus from their own flag (`shardutil.go:34`), so that while one has 1
  and another 2, both own shards that take a name with an odd hash. `OneReconciler` is violated with
  `ReplicasCount <- OneThenTwo` and `Names <- TwoNames`.
- *Roles.* `Init` runs `Roles[0]` only (`ansible.go:295`), where `docs/design.md:100` says they run one after
  another (`cmdFunc`). ansible-galaxy is called without `--force` (`ansible.go:237`), so that an edit to another
  version of a role changes nothing (`GalaxyInstall`). Requirements of the ProviderConfig and the `AnsibleRun`'s roles are joined
  as text (`ansibleRun.go:321`), so that of two keys `roles` one is lost (`RolesRequired`).
- *No collector.* A comment (`ansibleRun.go:198`) says that Setup starts a collector of working directories; there is
  none, and only `Restart` takes anything out of `dirs`.
- *Reset of the deletion policy.* When a user sets the deletion policy of an `AnsibleRun` back to `Delete`, `Observe`
  goes on answering that the resource exists (`:371`), so `Delete` succeeds again and again and the finalizer stays.
  `DeletionCompletes`, and `FinalizerImpliesOrphan`, hold only while nobody does; `convergence` leaves the operation out.

## 5. The proofs

All are for every value of the constants, under the named assumptions only. `AnsibleRun` has `ResourceAssumption` (the
special values are no parameters, and distinct) and `BoundAssumption` (bounds are naturals); `ShardLease` has
`LeaseAssumption` (at least one shard) and, for exclusion, `TimingAssumption`; `ShardedReconcile` has `NameAssumption` (a
hash is a natural); `Workspace` has `WorkspaceAssumption` (the special values are no contents, specs or paths; the
`AnsibleRun`s are finitely many); `FailureReason` has `ReasonAssumption` (at least one run's artifacts are kept).

| Theorem | States | From |
|---|---|---|
| `AnsibleRunProofs!TypeCorrect` | `[]TypeOK` | — |
| `AnnotatedFirst` | `[]AnnotatedBeforeRun` | `CopyInv` |
| `CreateUnreachable` | `[]CreateNeverRuns` | `CopyInv`, `FinalizerKept` |
| `AnsibleRunClaims!FinalizerOrphan` | `[]FinalizerImpliesOrphan` if no user resets the deletion policy | `CopyInv`, `OrphanInv` |
| `SuccessIsApplied` | `SuccessMeansApplied`, under both run policies, if nobody switches an object to or from CheckWhenObserve (`PolicyKept`) | `CopyInv`, `PolicyInv`, `ClaimInv` |
| `AnsibleRunDeletion!DeletedIsClean` | `[]DeletedMeansCleaned` if `PolicyKept` | `CopyInv`, `PolicyInv`, `CleanInv` |
| `ReportedIsClean` | `[]ReportedDeletionCleaned`, what `dry_delete` refutes, if no object has CheckWhenObserve | `DeletedIsClean`, `PolicyInv` |
| `ShardLeaseProofs!TypeCorrect` | `[]TypeOK` | — |
| `LeaseInvariant`, `OwnersHoldTheorem`, `Exclusive` | `[]LeaseInv`, `[]OwnersHold`, `[]ExclusiveShard` | `TimingAssumption` |
| `ShardOwnershipProofs!Implements` | `Spec => OwnershipSpec` | `LeaseInv`, `TimingAssumption` |
| `ShardedReconcileProofs!QueuesFiltered` | `[]QueueOK` | `TypeOK` of the leases |
| `EditsStayQueued` | `[]EditsQueued` | `QueueOK`, `LeaseInv`, `TimingAssumption` |
| `OneAtATime` | `[]OneReconciler` if all replicas have the same `--replicas` | `QueueOK`, `ExclusiveShard` |
| `WorkspaceProofs!WorkspaceTypes`, `OwnContent` | `[]TypeOK`, `[]RunsOwnContent` | `Inv` |
| `OwnInventoryGiven` | `[]OwnInventory`, what `stale_inventory` refutes, if every spec has an inventory | `OwnContent` |
| `OneWorkerOwnCredentials` | `[]OwnCredentials` if `MaxReconciles = 1` | `Inv`, `OneBusy`, `VariableOwn` |
| `FailureReasonProofs!ReasonInvariant` | `[]ReasonInv` | the order of file names |
| `ReasonOfThisRun`, `ReasonOrder` | `[]ReasonIsOfThisRun`, `[]ReasonInOrder` | `ReasonInv` |

The argument for `AnsibleRun`. A flag `fresh` alone says nothing, so none of the safety properties is inductive.
`CopiesAgree` says what it means: a fresh copy agrees with the server on what a reconcile leaves alone, and until
`Observe` has decided the cache is fresh too, so that a decision from the cache and a write from the copy are
about one version. `Progress` says what the position in the reconcile says about its locals. With `TypeOK` and
`AnnotatedBeforeRun` they make up `CopyInv`, which is inductive; `FinalizerKept` adds
that only a reconcile that saw the deletion takes a finalizer away, so that no copy of a live object has a finalizer
the server has not; with `observation = "missing" => ~fresh` it gives `CreateNeverRuns`.
`OrphanInv` adds where the Orphan policy is at each step. `ClaimInv` adds
`ClaimHolds`: an object in sync, not being deleted, whose annotation is a spec has that spec applied or its run
lost. Its inductive part, `ReconcileClaim`, carries the same claim through a reconcile, from the run to the report.

Under CheckWhenObserve the annotation claims nothing (`Update` applies a spec without writing it), and success rests on
the dry run of this very reconcile having found no difference, or on `Update` having run; `Ran` says at which positions
that is known, and it is known of the policy the reconcile has read. `PolicyInv` says that this policy is the object's:
of a copy that is current, and, while nobody switches, of one that has the finalizer, since only a new object, which has
none, can have another. The hypothesis `PolicyKept` is needed: the switch of the run policy (section 4) is the
counterexample without it.
`CleanInv` says that the reason `Deleting` in `Ready` is of a delete that the cache has
seen, and hence every reconcile that starts later; such a reconcile runs nothing but `state: absent`, and the copies of
reconciles that began before are stale, so that what they write is refused.

The argument for the leases. `ExclusiveShard` follows from `OwnersHold`: an owner's lease is its own. For that to
survive other replicas, the lease must not look expired to any of them while its owner works, which needs its age
bounded by how long the owner has been where it is (`Grace`); `Deadlines` bounds that time. A replica may also have
read the lease before the owner renewed it: `PendingFair` says that an update the server would still accept is of a
lease that is the writer's or looks expired. A lease may be one call old when an owner begins to wait for its renewal,
the renewal may take two more, a Get and an Update, and fail, and the owner then stops, which is where
`3 * CallMax + RenewalInterval + StopMax + ClockSkew < LeaseDuration` comes from. For the code's 30 s, 5 s
and 10 s it leaves 15 s for three calls and the skew of the clocks: calls must take less than five seconds even with
clocks that agree, and nothing in the code sees to it. `Latest` counts where in a renewal an owner is.

`Implements`: with `LeaseInv` the `CHOOSE` in the refinement mapping picks the one replica that holds the shard, and
each step gives a free shard to a replica without one (`TakeStep`), takes it from its owner (`DropStep`) or leaves
all owners as they are (`KeepStep`).

The argument for the filter. A replica has the shard it had for as long as it works (`KeepsShard`, over every step of
`ShardLease`), so that what its filter once accepted it would accept again: `QueueOK` is inductive. Two replicas
that reconcile the same name under one modulus have the same shard, and then `Exclusive` says that they do not both own it.
`EditsQueued` is the other half. A replica comes to work on a shard only by acquiring it (`WorksByAcquiring`, over every
step of `ShardLease`), at which moment its informer lists every name; a name then leaves the queue only into a reconcile
that reads the edit, and comes back when that fails, so that the edit is pending no more when it is in neither.

The argument for the workspace. `Prepared` says, step by step, what a reconcile has behind it: the files that it has had
to write by now have the content it has read (`FilesWritten`), the roles it lists are installed (`RolesThere`), and
`extravars` has the state that was asked for (`RunnerReady`). It is needed because what a run finds is the work of eight
earlier steps. A step of one `AnsibleRun` leaves the files of another alone and installs roles without removing any,
so that `Prepared` of the others survives it; this holds with any number of workers. `GIT_CRED_DIR` alone is not so:
`OneWorkerOwnCredentials` needs that only one reconcile is not idle (`OneBusy`), which `Connect`'s bound gives
for one worker, and then nobody else sets the variable (`VariableOwn`).

The argument for the failure reason. `ReasonInv` says that while ansible-runner runs, the newest artifacts hold what
happened, so that what `Run` reads at the end is of this run, whatever else the directory keeps. That the messages are
then each there once and in order is about the names of files. The library's induction takes a predicate as a parameter,
which no prover here can instantiate; `StrongInduction` is the same principle for a *set* of numbers, from the
well-foundedness of `<`. With it the recursive `digits` is well defined (`DigitsAgree`, `DigitsExist`, `DigitsDef`) and
tells all counters apart (`DigitsInjective`). So the order of names is a strict total order (`NameIrreflexive`,
`NameTransitive`, `NameConnected`), the number of names before a file is a bijection of the files and the places
(`Positions`), and `ReadDir` is what its code promises: every file, once, by name (`ReadDirSorts`).

Only model-checked: liveness (`CheckConverges`, `ApplyConverges`, `DeletionCompletes`, `EditsReconciled`,
`AllShardsServed`), which is out of the prover's reach. Every safety property of a passing run is a theorem; `PolicyKept` is needed for
`SuccessIsApplied` and for `DeletedIsClean`, as TLC shows when `PolicyOps` is put for `SpecOps` in `reconcile_safety`.

## 6. What is assumed, and what is left out

- crossplane-runtime's managed reconciler, controller-runtime's cache, the API server, users and the kubelet are not
  in the repository; they are modelled from how `Setup` and the client use them and marked external in `map`. One
  object is modelled, and one reconcile of it at a time, which is what the work queue guarantees.
- `StopMax` stands for ten seconds: `Run` interrupts ansible-runner and kills it 10 s later (`ansible.go:394-399`).
  The manager would wait up to 30 s for other reasons; a replica that takes that long is outside `TimingAssumption`.
- `CallMax` bounds each call of the API server, from its sending to its answer: the lease calls have no deadline of
  their own, and without one no choice of durations gives exclusion. A write lands, or never will, by
  the time its response is due: none takes effect after its client has seen an error or has ended.
- A call with a cancelled context is not sent (section 2): this is how Go's HTTP client and client-go behave.
- crossplane-runtime's initializer, which before `Connect` writes the external name of an object that has none, is
  left out: it is external, writes through the reconcile's own copy, and no field of the model is touched by it.
- `--replicas 0` is outside `LeaseAssumption`: `acquireAndHoldShard` would spin for ever.
- Users do not remove the provider's finalizer by hand.
- An informer that restarts is given at least what the crashed process had read (an API server's own cache may lag).
- A container that restarts has an empty file system and no roles (`Restart` of `Workspace`), as `docs/design.md:64`
  describes; a process that restarts in a container that does not is the failure of every reconcile in progress (`Fail`).
- That ansible-galaxy leaves an installed role alone, that the last of two equal keys of a YAML document counts, and
  that ansible-runner removes the oldest artifacts, is what these programs do; it is modelled where the code relies on it.
- Abstracted in `Workspace`: the mode of the hosts file, usage tracking, the collections' content, several credentials
  of one kind, the name of the inventory's path.
- Not modelled: the ProviderConfig controller (wiring of a library), the generated code and API types beyond the
  fields decisions read, command lines, the look-up of binaries, logging, metrics.

## 7. Plan

Built, in this order: `AnsibleRunResource`, `ExternalClient`, `AnsibleRun` (the core) and their proofs; `ShardLease`,
`ShardOwnership` and their proofs; `ShardedReconcile`, `Workspace`, `FailureReason` and their proofs. To come:

1. `Implements` carried over to `ShardedReconcile`: the replicas of a rollout, and which names nobody reconciles meanwhile.
2. What holds while users switch the run policy: which claims a switch leaves intact, as a theorem without `PolicyKept`.
3. `Workspace` with several credentials of a kind and inventories of several hosts, whose order of writes decides
   which one stays.
