# Verification of ebs-snapshot-restore

TLA+ modules, TLC runs and TLAPS proofs about the operator in `src/`: a Kubernetes
controller that restores the volumes of StatefulSets from VolumeSnapshots. A user
writes an `EBSSnapshotRestore` resource with *restore plans*; for each plan the
operator validates snapshots, runs hooks, scales the workloads down, deletes and
recreates the PersistentVolumeClaims from the snapshots, scales up, runs hooks again,
and locks the plan so that it is not executed twice.

Contents: [1 inventory](#1-inventory), [2 the model](#2-the-model), [3 what is
checked](#3-what-is-checked), [4 what is proved](#4-what-is-proved), [5 findings and
limits](#5-findings-and-limits), [6 not modelled](#6-not-modelled), [7 plan](#7-plan).

## 1. Inventory

| part | source | state it keeps | operations |
|---|---|---|---|
| Reconciler | `internal/controller/ebssnapshotrestore_controller.go` | none between reconciles | `Reconcile`: the sequence of all phases; errors are returned and retried, hook failures and success requeue after 30 s |
| Validation | `internal/validate/manage_validate.go` | a `lock` variable during the loop over the plans | `ValidateListSnapshots`, `findLatestSnapshotTime`, `validateSnapshot`, `failPlan` |
| Scaling | `internal/scale/manage_scale.go` | copies of target statuses | `ScaleRestorePlan` up and down, four target functions, `recreateSTSWithPodManagementPolicy` |
| Restore | `internal/restore/manage_restore.go` | copies of cluster statuses | `RestoreFromPlan`, `restorePVC`, three waits |
| Hooks | `internal/hooks/manage_hooks.go` | Jobs, ConfigMaps, service accounts in the cluster | `SetupRestoreHooks`, `RunHooks`, `executeHookJob`, `waitForJob`, per-node fan-out |
| Status | `internal/status/manage_status.go` | `status` of the resource | `Patch` and one setter per phase |
| API types | `api/v1alpha1` | spec and status | CRD validation |
| Manager | `cmd/main.go` | leader lease | flags, start-up |

The parts are Go packages called in sequence by one goroutine per resource; they share
`obj`, the resource as last read, and everything durable is in the API server: the
resource's status, the replicas of workloads, claims, volumes, snapshots, Jobs. What moves
at the same time is the cluster: the StatefulSet and Deployment controllers, the database
operators that own some StatefulSets, volume provisioning and binding, SnapScheduler and
its retention, and the user.

What is hard here:

* **Failure anywhere.** Each reconcile is a long sequence of API calls and ten-minute
  waits. Any can fail, and the process can stop between any two; the next reconcile has only
  the status. Deleting and creating a claim is not atomic.
* **The resource changes under the reconcile.** Every status patch decodes the server's
  answer into `obj`, so loops and later phases see plans that were not validated.
* **Several plans, one status.** Plans are visited in Go's random map order and a variable
  crosses from one to the next.
* **Time passes.** Snapshots are taken and expire between a failure and its retry.
* **Hooks** combine a Job, a ConfigMap, a checksum, a TTL and a status entry, read through a
  cache.

What makes each part correct:

* Validation: a plan is restored from one point in time; the lock and the time of a
  restored plan are carried on; one plan's validation does not affect another.
* Scaling: operators stop before and start after the clusters they own; no volume is
  replaced while a workload of its plan runs; a failed scale-up is repeated, a finished one
  is not.
* Restore: each listed claim is replaced by one with the snapshot's data; no cluster starts
  on a mixture; nothing locked is restored again.
* Hooks: pre-restore hooks succeed before anything is deleted; post-restore hooks follow
  the restore; a hook that succeeded is not repeated unless it is mutable and changed.
* Status: a setter changes its own fields only; what one phase records the next relies on.
* All: later reconciles bring an interrupted restore to its end; `Completed` is true.

## 2. The model

| module | models |
|---|---|
| `RestoreCluster` | what is outside the process: plans in the spec, status, workloads, claims, volumes, snapshots, with an action for each thing the surroundings do |
| `Reconciler` | extends it with the reconcile, call by call, for all plans of a resource |
| `PlanLife` | what a restore promises for each plan; `Reconciler` implements it |
| `HookJobs` | one hook in detail: ConfigMap, Job, waits, TTL, cache, node fan-out, status entries |
| `HookLife` | what a hook whose command does not change promises; `HookJobs` implements it |
| `ScaleWorkload` | one workload in numbers: replicas, status, pods, the StatefulSet that is made anew |
| `WorkloadLife` | the switch that `Reconciler` takes a workload for; `ScaleWorkload` implements it |
| `SnapshotSelection` | names and times of snapshots, two passes of list calls against SnapScheduler |
| `HookNames` | names of Jobs and ConfigMaps, the checksum of a command |
| `MC...` | instances for TLC |
| `ReconcilerProofs` | proofs about `Reconciler`: types, scale-down, locks, pre-restore hooks |
| `PlanLifeProofs` | extends it: scale-up, post-restore hooks, `Completed`, the refinement of `PlanLife` |
| `RestoreProofs` | extends that: what the volumes hold |
| `HookJobsProofs`, `ScaleWorkloadProofs` | proofs about these modules, with the refinements of `HookLife` and `WorkloadLife` |
| `SnapshotSelectionProofs`, `HookNamesProofs` | proofs about these modules |
| `Minima` | least and greatest elements, and induction over a set, for the two before |

`HookJobs`, `ScaleWorkload` and `SnapshotSelection` each open one step of `Reconciler`: its
`HookSucceeds` or `HookFails` is a whole run of `HookJobs`; its `PatchReplicas` to `TargetScaled`
is one pass of `ScaleWorkload`; its `ValidatePlan` is one of `SnapshotSelection`. They share no
variables with it. What connects them is what they promise and `Reconciler` takes for granted: a hook that
is passed has run (`HookLife`), a workload is a switch that pods follow (`WorkloadLife`), a validated plan refers
to snapshots of one time (`RefsRight`).

Actions of the surroundings are not code of the operator: each is taken from what the operator
relies on or waits for, and the map calls them external.

### The reconcile: state of `RestoreCluster` and `Reconciler`

| variable | in the code |
|---|---|
| `spec` | keys of `spec.restorePlans` in the API server; `seen` is the same in `obj` |
| `status[p]` | `status.restorePlans[p]`: `known` (has an entry), `listed` (targets in `clusters` and `operators`), `lock`, `time`, `ups` (`countScaleUp`), `refs` (claims of `snapshotsRef`), `done` (hooks with `succeeded` above 0) |
| `phase` | `status.phase` |
| `on`, `pods` | a workload's `spec.replicas` (wanted number or 0); its pods run and are ready |
| `claim`, `data` | the state of a claim; what its volume holds: `Original`, the data of a snapshot time, or `Blank` |
| `snaps`, `now` | times of each claim's ready snapshots; the latest time |
| `pc`, `todo`, `plan`, `work`, `cur` | where `Reconcile` stands, and the loop variables of the function it is in |
| `carry`, `lastErr` | `lock` and `lastErr` of `ValidateListSnapshots` |
| `faults` | bound on failures, see below |

### The reconcile: actions

One action is one API call or the end of one wait, with all that follows in memory until the
next. The names are those of the code where it has one:

* `GetResource`, `SetInitStatusRestorePlan`, `StartValidating`: the start of `Reconcile`.
* `ValidatePlan`, `ValidatePlanFails`, `EndValidation`: an iteration of
  `ValidateListSnapshots` that succeeds or goes through `failPlan`, and its return.
* `StartPreHooks`, `PlanHooks`, `HookSucceeds`, `HookFails`, `EndPlanHooks`, `EndHooks`
  (and `StartPostHooks`): `SetupRestoreHooks` and `RunHooks`.
* `StartScale`, `PassPlan`, `ScalePlan`, `PatchReplicas`, `TargetScaled`, `TargetFails`,
  `PlanScaled`, `EndScale`, each with `"down"` or `"up"`: `ScaleRestorePlan`.
* `StartRestore`, `PassRestore`, `RestorePlan`, `DeletePVC`, `PVCDeleted`, `CreatePVC`,
  `NameVolume`, `PVCBound`, `PVCFails`, `LockPlan`, `EndRestore`: `RestoreFromPlan` and
  `restorePVC`.
* `Complete`: the last phase and the requeue.
* `Abort`: a call whose error is returned without a trace in the status, or a crash. The two
  leave the same state, since nothing but the status outlives a reconcile.

`Refresh` is the patch that may replace `obj`: plans the user has added join `seen`, plans he
removed stay (a decode into a Go map adds keys and removes none). `RangeOver` is what Go says
of a `range` over a map that grows: new entries may or may not be visited.

### The reconcile: what is abstracted

* Replicas are on or off. `status.activePlan`, target phases and error texts are left out;
  because a patch may have been sent for one of them, `Refresh(FALSE)` may still refresh.
* The order of clusters within a plan, and of claims within a cluster, is arbitrary (the
  code follows lists). Operators and clusters keep their order.
* Plans have at least one cluster and share no workloads. A malformed `snapshotRestoreTime` is not
  among the inputs.
* Reads return the present state; a status patch of a stale read is a hazard that is left to reading.
* A failure path that writes the plan's entry and then phase `Failed` is one step, as nothing
  reads the phase.
* A wait that cannot end any more times out (`ScaleHopeless`, `RestoreHopeless`) without
  counting as a fault; a timeout that merely comes early counts as one.
* Storage is provisioned when the claim is made (a class with immediate binding), and a claim
  may be bound with or without the `volumeName` the operator patches in.
* A snapshot is known by its time: one taken of a half-restored volume counts as data of its
  own time.

### `PlanLife`

A plan is *prepared* when its pre-restore hooks have succeeded and its workloads are stopped. Claims are
removed only of a plan that is prepared and not locked; a plan that is prepared stays so until its lock;
locks and scale-ups are final, and a scale-up is recorded only when everything runs. The refinement
mapping in `Reconciler` reads these from hooks' entries, workloads, claims and status. `LifePlans` are
the plans it is about: those that are in the resource from the start to the end and wait for the
operators that could scale their clusters up. `prepared` leaves out nodeAccess hooks, which may pass
without an entry when no node matches.

### One hook: `HookJobs`, `HookLife`

A *mode* is the sort of hook and of cache that a behaviour is about: its targets (the nodes of a nodeAccess
hook, else one), whether it is mutable, whether reads of ConfigMaps and Jobs lag. Only a post-restore hook
may be mutable (a CRD rule in `hooks_types.go`). A version stands for a command with its arguments and
their checksum. `at[n]` says at which call `executeHookJob` stands for target `n`; `cm`, `job`, `entry` are
that target's ConfigMap, Job and status entry, `cmSeen` and `jobSeen` what the cache holds.

* `Start` is `resolveHookFromConfigMap` and `hookSkipReason`; `EnsureConfigMap`, `ReadConfigMap`, `CreateJob`,
  `Recheck` the calls of `executeHookJob`; `SeeJob`, `JobSeen`, `WaitTimesOut` its wait; `Cancelled` the
  errgroup, whose first error cancels the other targets; `WriteStatus`, `WriteFails`, `Finish` the status
  of each target and the return.
* The status holds all hooks in one list, and a merge patch replaces the list: an entry whose own patch failed
  (`unsent`) goes with the next.
* The TTL of 30 s against a poll every 5 s: a Job that ends while it is polled is seen; one that had ended
  before may be removed at any time (`RemoveJob`).
* The set of nodes is fixed during a hook. Service accounts, roles and bindings are made before the Job and are
  calls that may fail (`CallFails`).

`HookLife` speaks of targets on which the hook was executed, those that are recorded, and whether the
restore has gone past. A mutable hook, which may go back to not being up to date, is mapped to one
without targets.

### One workload: `ScaleWorkload`

`obj` is the StatefulSet or Deployment (replicas, policy, being deleted), `status` what its controller
wrote last and whether that is of the present generation, `pods` and `ready` its pods. The operator's
actions are the calls of `scaleClusterDown` and `scaleClusterUp` (or those of the operator functions,
which do less), with `recreateSTSWithPodManagementPolicy` as `Delete`, `Gone`, `Create`; `lock` and `ups`
stand for the plan's status, which decides what a retry does. A Deployment's pods that are terminating
are not counted.

`WorkloadLife` is what `Reconciler` makes of that: `on` and `pods` are Booleans, off and without pods when the
claims are replaced, never off again after that, counted once with the pods there. In the refinement `on` is
`obj.replicas # 0`, and what the pods are while a StatefulSet is away; `pods` is whether there are any until the
lock, and whether all are ready after it, as the two waits ask for these. A workload that others scale, or whose
scale-down is not waited for, is not followed (`ours`).

### Choosing the snapshot: `SnapshotSelection`

A name is the sequence of the words between its dashes, a word is a number, and the order of sequences is that
of Go's strings: a dash sorts before digits and letters. `FindLatest` and `ValidateSnapshot` are one list call
each, so that snapshots are taken, get ready and expire in between. A validation that fails begins again.
`Schedules` gives the claims that each schedule selects; `began` is a history variable, the plan's snapshots
when the validation began.

### Names: `HookNames`

A pure computation: names are sequences of characters, a digit of a SHA-256 carries the string that was
hashed (equal digits of different strings are not modelled). Names that are given are of `Plain` characters, those
that are made of `Chars`; `Letters` stands for the alphabet. The two actions only vary the inputs: a second
hook or node, or another command.

## 3. What is checked

Each run is `tlc -config <run>.cfg <module>.tla`; the longest takes about a minute and a half with two workers.

| run | instance | shows |
|---|---|---|
| `single_plan` (`MCReconciler`) | 1 plan, 1 operator, 1 cluster, 3 claims, a hook of each event; 2 snapshot times, 2 faults, fairness | `TypeOK`; a cluster of a plan in `LifePlans` never runs with some volumes restored and others not (`NeverRunsHalfRestored`); under a lock the volumes hold the restore point of the status, whichever snapshots earlier attempts used (`LockedHoldsRestorePoint`); `ImplementsPlanLife`; the restore is finished and then left alone (`EventuallyRestored`) |
| `two_plans` (`MCReconciler`) | 2 plans, a cluster of 1 claim and one of 2, whose plan names its time; waits skipped down and up; 2 times, 2 faults | `Completed` is written only when all plans that were there from the beginning are restored, up, and their hooks done (`CompletedMeansDone`); a named restore point is that of every volume of a running cluster (`OneRestorePoint`); post-restore hooks follow lock and scale-up (`PostHooksAfterRestore`); `ImplementsPlanLife` |
| `spec_edits` (`MCReconciler`) | 2 plans, 2 clusters, an operator, 3 claims, one skipped; both plans added and one removed at any moment, the snapshots may expire; 1 time, 1 fault | claims are replaced only while their plan is down (`RestoreOnlyWhileDown`), after its pre-restore hooks (`PreHooksFirst`), never under a lock (`LockFinal`) |
| `hook_jobs` (`MCHookJobs`) | a hook with a lagging cache, a mutable one, one on two nodes; 2 versions, an edit, 2 faults of 5 kinds, fairness | one version of a hook that is not mutable succeeds (`OneVersion`); what is recorded ran, with that checksum (`RecordedRan`), and is not run again (`RecordedNotRerun`); the restore goes on only when every target has had the hook (`PassedMeansRan`); `ImplementsHookLife`; success is recorded in the end (`EventuallyRecorded`) |
| `scale_workload` (`MCScaleWorkload`) | each kind of workload with 3 wanted replicas, 5 sets of flags, broken pods; others set 1 or 4 once; 2 faults, fairness | no pod is left when claims are replaced (`StoppedBeforeRestore`); the scale-up takes none away (`UpKeepsPods`) and starts them in parallel where asked (`StartedInParallel`); a counted scale-up of any kind of workload is one (`CountedMeansUp`); the workload is the switch that `Reconciler` takes it for (`ImplementsWorkloadLife`); there is one in the end (`EventuallyUp`) |
| `snapshot_selection` (`MCSnapshotSelection`) | 2 schedules, one of which selects one claim only, 2 clusters, 2 times, retention of 1, fairness | a validated plan refers to ready snapshots of its claims and schedule, of one time (`RefsRight`), not older than any of the plan's that was there when it began and still is (`NotOlder`); it is validated in the end (`CommonTimeSuffices`) |
| `hook_names` (`MCHookNames`) | lengths around 25, 56 and 63, dashes where names are cut, separators inside; words split in two ways | names are labels (`NamesFit`) and tell hooks apart, as far as the plans' names keep clear of the separator (`HooksApart`), and nodes, and on one node hooks with names of up to 56 characters (`NodesApart`); the checksum tells word sequences apart (`EditsSeen`) |
| `lock_leak`, `orphan_plan`, `lost_claim`, `sts_lost`, `prefix_clash` | small instances | the findings of section 5, each with its counterexample |

**Bounds.** `MaxFaults` bounds failed calls, failed hooks or Jobs, early timeouts and crashes together:
two allow a failure while recovering from a failure. `MaxTime` bounds snapshot times: two give a
snapshot newer than the first attempt's. Three claims let one be restored, one in work and one
not yet touched, which is every state a claim can be in relative to the others. Two plans show what one
plan does to another, in both visiting orders. Two nodes show what a hook that fails on one does to the
other. `MaxEdits` is 1, with two versions: more edits come back to a version that was there before.
Three replicas are the fewest of which one is ready, one is there and one is missing; `MaxRescales` is 1.
Two schedules have one whose snapshots are not the plan's.

**Deadlock** is checked in all runs but those of `ScaleWorkload`, `SnapshotSelection` and `HookNames`. There the
behaviour may really end: a workload that is scaled up, a plan that is validated and whose snapshots
have all been taken, a name that has been compared.

**Fairness.** In each `FairSpec` the operator takes its next step when it has one: the work queue retries a
reconcile that returned an error and requeues one that did not, and each wait has a timeout, so no
reconcile can hang. The controllers of workloads, claims, Jobs and snapshots are weakly fair, per object:
they are independent of the operator and retry. There is no fairness for faults, retention, the user, or
a database operator that rescales. `MaxFaults` stands for "failures stop"; no progress could be promised
otherwise. `HookJobs` asks for strong fairness of two steps, `Recheck` and `JobSeen`: they follow `Create` at
once, and lose neither against the 30 s of the TTL nor against the failure of a sibling every time.

**Premises.** `EventuallyRestored` is checked with more claims than faults: with each claim lost between its
deletion and its creation no claim is left to be listed, validation fails for ever, and the property is
false. Other premises are in the properties themselves, with a comment that says which behaviour of the
code they leave out; section 5 lists them.

Every property has a variant of the code (an operator commented *a variant*, defined just before
what it replaces) under which the same run finds it violated: the lock written although a claim
failed, claims of an earlier attempt not restored again, the replicas patched before the StatefulSet is made
anew, the command taken from the spec in place of the ConfigMap, and so on.

## 4. What is proved

The theorems hold for every value of the constants that satisfies the assumption of the module: any plans,
workloads, claims, hooks, nodes, versions, replicas, names and bounds. All safety properties of the passing runs
are proved, the action properties and the three refinements included.

| module | theorem | statement |
|---|---|---|
| `ReconcilerProofs` | `TypeCorrect` | `Spec => []TypeOK` |
| | `RestoreWhileDown` | `Spec => []RestoreOnlyWhileDown` |
| | `LockedForGood` | `Spec => LockFinal` |
| | `HooksBeforeDeletion` | `Spec => PreHooksFirst` |
| `PlanLifeProofs` | `CompletedIsDone` | `Spec => []CompletedMeansDone` |
| | `PostHooksComeLast` | `Spec => PostHooksAfterRestore` |
| | `PlanLifeImplemented` | `Spec => ImplementsPlanLife` |
| `RestoreProofs` | `OnePoint` | `Spec => []OneRestorePoint` |
| | `PlansHold` | `Spec /\ []NoLeak(P) => []HoldsPoint(P)` for plans `P` that stay |
| | `LockedHolds` | `Spec /\ []NoLeak(Stays) => []LockedHoldsRestorePoint` |
| | `PlansRunWhole` | `Spec /\ []NoLeak(P) => []RunsWhole(P)`, under `TakenTogether` |
| | `NeverHalfRestored` | `TakenTogether => (Spec /\ []NoLeak(Stays) => []NeverRunsHalfRestored)` |
| | `AloneHolds` | with one plan, `LockedHolds` and `NeverHalfRestored` without `NoLeak` |
| `HookJobsProofs` | `HookTypes`, `SingleVersion`, `RecordsTrue`, `PassedRan`, `NoRerun` | `TypeOK`, `OneVersion`, `RecordedRan`, `PassedMeansRan`, `RecordedNotRerun` |
| | `HookLifeImplemented` | `Spec => ImplementsHookLife` |
| `ScaleWorkloadProofs` | `WorkloadTypes`, `ClaimsAreFree`, `PodsAreKept`, `ParallelStart`, `CountedIsUp` | `TypeOK`, `StoppedBeforeRestore`, `UpKeepsPods`, `StartedInParallel`, `CountedMeansUp` |
| | `WorkloadLifeImplemented` | `Spec => ImplementsWorkloadLife` |
| `SnapshotSelectionProofs` | `SelectionTypes`, `RestoredIsNotOlder` | `TypeOK`, `NotOlder` |
| | `RefersToOwn` | `NamesApart => (Spec => []RefsRight)` |
| | `SameWordsApart` | a condition on the names that gives `NamesApart` |
| `HookNamesProofs` | `NamesAreLabels`, `HooksHaveTheirNames`, `NodesHaveTheirNames`, `EditsChangeTheChecksum` | `NamesFit`, `HooksApart`, `NodesApart`, `EditsSeen` |

**Assumptions on the constants.** `ConstantsOK` (`RestoreCluster`), `HookConstantsOK`, `WorkloadConstantsOK`,
`SelectionConstantsOK` and `NamesOK` (`HookNames`) say that the tables have their domains, that a bound is a number, that `None` is none
of the objects it is distinguished from, that a workload wants a pod, a plan lists a cluster, and that there are
finitely many claims (without which there need be no latest snapshot). A name of a plan, a hook or a node is not
empty and has no dash at its ends: Kubernetes has it so for plans and nodes; a hook's key has no pattern in
`api/v1alpha1`, so for hooks it is a restriction of these theorems to well-formed keys. No word of a command holds a zero byte, as no string
that a container is given does. TLC evaluates them in each run.

**Hypotheses of theorems.** Three properties need more than the assumptions, and do not hold without.

* `NoLeak(P)`: when `ValidateListSnapshots` has met a locked plan, the plans left that are in `P` are locked too, so
  that `lock` is carried to none of `P` that is not. The other behaviours are finding 1 (`lock_leak`): there a plan is
  locked whose volumes were never restored. `PlansHold` and `PlansRunWhole` show that the damage stays with that plan:
  with `P = {p}` they say what `p` holds, whatever is carried to others. `NoLeak` is about states, so they also say it
  of each behaviour up to the moment at which a lock is carried to `p`. A resource with one plan has no such
  behaviour, which is `AloneHolds`.
* `TakenTogether`: the snapshots that are there at the start were taken of all claims of a cluster. One matching
  snapshot per cluster is enough for `validateSnapshot` (`manage_validate.go:260`), so a claim whose cluster
  has snapshots and which has none keeps its data, and the cluster runs half restored.
* `NamesApart`: no snapshot of another claim or schedule has the name the operator makes of a claim, the plan and a
  time. Claim `data` with plan `a-b` and claim `data-a` with schedule `b` make the same names. `SameWordsApart`
  says when that cannot be: claims have different names and the schedules' names equally many dashes.

### The reconcile

The proofs are inductions that build on each other; each invariant was model-checked on the runs first.

* `TypeInv` is `TypeOK` with `PlanOK`: wherever the code is inside an iteration, `plan` is a plan. Without
  it a step could write outside the status map.
* `DownInv` ties the scale-down loop to the restore loop, which range over different maps (`obj.Spec`
  and `obj.Status`). `PlansDown` says that each plan which is due (it has an entry and no lock) is
  scaled down once the down loop has passed it, and stays so to the end of the restore loop.
  `TargetsDown` says the same of the targets of the plan in work, operators before clusters, which is
  what keeps an operator from scaling its cluster up behind the loop (`OperatorRescales` needs a running
  operator of the plan). `KnownOK` is why the two loops see the same plans: a plan that has an entry, and
  that the user leaves alone, is in the resource and in `seen`, so the down loop visited it; a plan
  added later has no entry and is not restored. `LoopOK` and `RefsOK` say what `todo`, `work`, `cur` and
  the entries range over, `RestoreUnlocked` that the plan being restored is not locked.
* `HookInv` follows the pre-restore hooks in the same way: `HooksFirst` says that a plan which is due and has
  claims has had all its hooks once the hook loop has passed it. `ListedOK` says what is listed in an entry and
  is why the down loop never goes on with a plan that was not validated.
* `UpInv` goes on from the restore to `Completed`. Each loop has one conjunct that says what the plans it has passed
  have: an entry (`ValidatedOK`), a lock (`LockedOK`), a counted scale-up with running workloads (`UpsOK`, and
  `TargetsUp` within a plan), their post-restore hooks (`PostHooksOK`). A loop that ends hands its conjunct on, since
  `HasOK` says that the reconcile loses no plan that was there from the beginning. `EntryOK` is needed for retries:
  a plan without an entry has no lock, no scale-up and no hook from an earlier reconcile.
* `LifeInv` puts these together with `StayOK` (plans that nobody removes are in the resource). Under it lemma
  `OneKind` says that a step changes workloads, or claims, or one plan's entry, and each kind is matched with the
  actions of `PlanLife`.
* `PointInv` says what volumes hold. Once a plan is *chosen* (validated in this reconcile, for the time in its entry),
  each claim with a snapshot of that time is in the list of those to be restored or is *settled*: gone, blank, or
  made from that snapshot (`PointOK`). `RestoringOK` is the same within `restorePVC`: what has been taken
  off the list is settled. All of it is about a set `P` of plans, since no step that works on one plan needs more of
  another. The list that is empty at `LockPlan` gives the property of the lock.
* `HalfInv` adds that a claim which still holds the old data has every snapshot the others of its cluster have
  (`SnapsCover`, from `TakenTogether`), so that a validation that refers to one claim of a cluster refers to all that
  are old; and that a plan with a restored claim is off until its lock, also across failed attempts (`HalfOK`).

`EntryStep` states once what a step may do to a plan's entry, and `LockedForGood` follows from it and
from `RestoreUnlocked`. `StoppedEnvironment` is the lemma that no step of the surroundings starts a stopped
workload of a plan whose operators are down.

Plans in `Removable` are left out of the properties of locks and volumes: the code does not keep them for a plan
that is taken out of the resource (`orphan_plan` below). Plans in `Late` are left out where a plan that joins a
reconcile half-way is not kept to them. Plans with an operator whose scale-down is not waited for are left out of
`RestoreOnlyWhileDown`, `NeverRunsHalfRestored` and `ImplementsPlanLife`: such an operator may still act.

### One hook

`HookJobInv` follows a version from the ConfigMap to the entry: what was read of it (`ReadOK`, `WantOK`) is what the
Job that is waited for carries (`WaitOK`), a Job that succeeded did so with that version (`JobsRan`), a result and
an entry stand for such a Job (`ResOK`, `EntryOK`). For a hook that is not mutable `FixedOK` says that ConfigMap,
cache, Job and what was read have one version, which never changes. `NewOK` says that a target which is executed,
or whose status is to be written, has no entry that counts, `SkipOK` that one which was not executed has had the hook:
with them `PassedMeansRan` and `RecordedNotRerun` are inductive, over any number of reconciles and nodes.

`RecordsTrue` was first tried without the case of a mutable hook behind a lagging cache, and the proof of `WaitOK`
failed there for a good reason: `waitForJob` can read the Job of before an edit, which has been removed, after the new
one was made. The property leaves the case out and section 5 lists it.

### One workload

`WorkloadInv` has a part for where the operator stands (`PcOK`, `ObjectOK`), one for the way down and one for the way
up. Down, `obj.replicas <= pods <= status.replicas` (`DownOK`): pods only go and the status counts them late, so a
status of 0 is no pod, although `observedGeneration` is not compared. Up, it is the other way round (`SteadyOK`:
`ready` and `pods` are at least what the status says and at most what is asked for), so that a status with all pods
ready is true. `UpOK` is about the recreation: a StatefulSet that is being made anew with `OrderedReady` has all its
pods, or asks for none. It starts from a workload that nobody else scales (`Alone`).

For the refinement of `WorkloadLife` two conjuncts were added: what the operator patches is still what it read
(`UpOK`, `pc = "patch"`), and a StatefulSet that is `Parallel` and being deleted has all its pods (`SteadyOK`), so that
it does not seem to be switched off when it is gone. `SwitchFacts` draws from the invariant what the switch needs,
`SwitchStep` finds for each action the step of `WorkloadLife` it is.

### Choosing the snapshot

`RestoredIsNotOlder` rests on facts about names: `Less` is a strict total order on sequences of words
(`LessIrreflexive`, `LessTransitive`, `LessTotal`), so a finite set of them has a greatest (`Greatest`), which is what
the `CHOOSE` in `Later` returns. `LatestOK` then says that the clusters a pass has seen hold nothing of the beginning that
is later, `RefsOK` what the second pass refers to; `SnapsOK` is why a snapshot that is taken during the validation is
none of those. The property once asked that the result be no older than the latest time of the beginning, which is
false with three times: retention may have removed that snapshot from the cluster that made it the latest. `began`
replaced that time.

### Names

What is computed by recursion on a sequence would need induction with an operator as a parameter. `Minima` goes
around that for a property that is a *set* of numbers: `InductiveSet` (a set with 0 and with each successor has
all numbers) follows from the least number that is not in it. `FillsExists` and `FillsAgree` use it to show that the recursive
function in `FlattenSeq` is the one that appends its arguments in order, so that `Stream` of one more word is the
stream with that word and a zero byte (`StreamAppend`).

* `EditsSeen`: streams that are equal have equal last words, since a word holds no zero byte and the one before it
  is where the word begins (`LastWordsAgree`); without them they are equal streams again, of fewer words
  (`StreamsApart`, by induction on their number).
* `NamesFit`: half of what 63 leaves for the separator and the hash, twice, fits (`JobNameFacts`); trimming leaves no
  dash at the end, and the parts are not empty.
* `HooksApart`: a whole name ends in a character that was given, a shortened one in a digit, so equal names are both
  whole or both shortened (`JobNamesApart`). Shortened ones carry the full name in their digits. Whole ones are equal
  only if the plans are: if one plan's name were the shorter, the separator would be found within the other
  (`NotShorter`).
* `NodesApart`: the last six characters carry the node (`NodeJobNamesApart`), and the rest is the hook's name
  where nothing is cut off.

The proof showed that `HooksApart` needs only the names of plans to be clear of the separator, not those of hooks; the
property, which asked for both, was made stronger.

### What stays with TLC

* **Liveness**: `EventuallyRestored`, `EventuallyRecorded`, `EventuallyUp`, `CommonTimeSuffices`. The prover handles
  neither fairness nor `ENABLED`.
* **The findings**, which are counterexamples.

## 5. Findings and limits

Each finding is a run that violates what a document of the repository says.

1. **Lock carried from plan to plan** (`lock_leak`; `manage_validate.go:49`). `lock` is declared before the
   loop and never cleared. A plan visited after a locked one is written as locked, and its restore
   is skipped for good.
2. **A removed plan is restored again** (`orphan_plan`; `manage_restore.go:44`). The lock counts only
   for plans still in the spec, while the loop ranges over those in the status.
3. **A claim lost between delete and create** (`lost_claim`; `manage_restore.go:100`). The retry restores
   the claims that exist and locks the plan.
4. **A StatefulSet lost between delete and create** (`sts_lost`; `manage_scale.go:425`). The new one is made from a
   variable; a crash, or the timeout of 10 s, leaves none, and each later `Get` fails.
5. **Plans whose names begin alike** (`prefix_clash`; `manage_validate.go:176`). Snapshots of a schedule
   `daily-full` are taken for those of `daily`, with a remainder that is later than any time and no time at all.

The following are limits of the code that the properties leave out by a premise. Without it the property
does not hold, in the run's instance or in one made for it.

| limit | where | premise |
|---|---|---|
| Without `snapshotRestoreTime` each attempt chooses the latest time again; a claim without a snapshot of that time keeps what the attempt before gave it, and the cluster runs on two restore points | `manage_validate.go:56`, `:260` | `OneRestorePoint`: plans that name their time |
| One matching snapshot is enough for a cluster: a claim that has none keeps its data beside restored ones | `manage_validate.go:260` | `NeverRunsHalfRestored`: snapshots are taken of whole clusters (`TakenTogether`) |
| A plan added while a reconcile runs joins `obj` after the restore, and its post-restore hooks are run and recorded | `manage_status.go:60` | `PostHooksAfterRestore`: plans not in `Late` |
| A locked plan is validated in each reconcile; when its snapshots expire the resource fails for good | `manage_validate.go:50` | `EventuallyRestored`: `Expirable` is empty |
| When the `Get` after `AlreadyExists` fails, the checksums are not compared and the Job of an older version is recorded as the new one | `manage_hooks.go:661` | `RecordedRan`: not `unchecked` |
| Behind a cache that lags, `waitForJob` may see the Job of a mutable hook from before an edit, which has been removed, and take its success for that of the new one | `manage_hooks.go:451` | `RecordedRan`: not mutable with a lagging cache |
| A Job that hangs is never removed, and a mended hook is refused as stale while it is there | `manage_hooks.go:672` | fairness: each Job ends |
| A node whose Job succeeds after another node's failed is recorded as failed and has the hook run again | `manage_hooks.go:735` | `HookLife`: a target may have the hook more than once |
| The ConfigMap of a mutable hook is patched and read back at once through the cache, which may hold the old command: it is run and recorded, and the hook runs again later | `manage_hooks.go:638` | `RecordedNotRerun`: not mutable with a lagging cache |
| Replicas are raised but never lowered, while the wait asks for exactly `target.replicas`: a workload that was given more is waited for in vain | `manage_scale.go:234` | `EventuallyUp`: not more than wanted again and again |
| The wait of the scale-down does not compare `observedGeneration`; a workload that was just scaled up from zero counts as stopped | `manage_scale.go:205` | `StoppedBeforeRestore`: nobody else changed replicas |
| For `RollingUpdate` the wait of the scale-up does not compare it either (line 269, against 277); after a scale-down that was not waited for it may end at once | `manage_scale.go:269` | `CountedMeansUp`: scale-down waited for |
| `originalReplicas` is `target.replicas`, whatever the workload had | `manage_validate.go:222` | `EventuallyUp` speaks of `target.replicas` |
| `skipWaitScaleUp` with `parallelPodManagement` is refused only after the volumes were replaced; `config/samples/ebs_v1alpha1_ebssnapshotrestore.yaml:17-18` sets both | `manage_scale.go:215` | `EventuallyUp`: not the two flags together |
| The time chosen is the latest of all clusters, also if another cluster lacks it and an earlier one is common | `manage_validate.go:192` | the plan's schedule takes a snapshot of each claim |
| The name of a node's Job is cut at 56 characters, and with it the hash that told two long hook names apart | `manage_hooks.go:128` | `NodesApart`: different nodes, or names of hooks of at most 56 characters |
| A word that moves from `args` to `command` leaves the checksum as it was | `manage_hooks.go:74` | `EditsSeen`: the sequence of words changes |

## 6. Not modelled

* Several resources at once. With `MaxConcurrentReconciles` above one (`cmd/main.go:80`) two resources that name
  the same workloads would scale and restore them side by side, and hooks' Jobs carry no resource name.
* Status patches that start from a stale read of the resource: they carry no resource version. The two patches a
  reconcile begins with answer with the server's object, so the rest works on that.
* Edits of a plan's contents other than a hook's command, and deletion of the resource.
* Target phases, `activePlan` and error texts, which nothing reads; environment variables, secrets, volumes and
  privileges of a hook's pod, which are passed through; the contents of roles and bindings.
* Storage classes that bind late, and claims and snapshots that fail for reasons of their own.
* The manager's start-up and flags, generated deep copies, manifests and the scaffolded tests, which
  have no behaviour of the restore.

## 7. Plan

Done: all the modules of section 2, their runs, and the proofs of section 4. Worth doing next:

1. What `SnapshotSelection` promises to `ValidatePlan`, as an abstract specification. `ValidatePlan` is one step, while
   snapshots may expire between the list calls of `SnapshotSelection`: the abstract step has to allow for that first.
2. Two resources on one cluster, once the code or its documents say what should happen then.
3. A proof of the liveness properties, should the prover come to handle fairness; the runs check them.
