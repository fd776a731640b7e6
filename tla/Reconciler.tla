----------------------------- MODULE Reconciler -----------------------------
(***************************************************************************)
(* EBSSnapshotRestoreReconciler.Reconcile and the validate, scale, restore *)
(* and status managers it calls, for one EBSSnapshotRestore resource.      *)
(*                                                                         *)
(* One action is one call the reconcile makes on the API server, or one    *)
(* wait that ends; the environment, a failing call or a crash can come     *)
(* between any two.  Nothing but the resource's status survives the end of *)
(* a reconcile, so a crash is the same step as a call that fails: the      *)
(* locals are dropped and the next reconcile starts from the status.       *)
(***************************************************************************)
EXTENDS RestoreCluster

VARIABLES
    pc,       \* where the reconcile stands
    seen,     \* the plans of obj.Spec.RestorePlans as the reconcile has them
    todo,     \* plans the current range loop has yet to visit
    plan,     \* the plan of the current iteration, or None
    work,     \* its targets, claims or hooks that are left
    cur,      \* the target or claim being waited for, or None
    carry,    \* the variable lock of ValidateListSnapshots
    lastErr,  \* ValidateListSnapshots has met an error
    faults    \* calls that failed, hooks that failed and crashes so far

localVars == <<pc, seen, todo, plan, work, cur, carry, lastErr>>
vars      == <<clusterVars, localVars, faults>>

Locations ==
    {"idle", "init", "initialised", "validate",
     "setPreHooks", "preHooks", "preHook",
     "setDown", "down", "downTarget", "downWait",
     "setRestoring", "restore", "pvc", "pvcDeleting", "pvcCreate", "pvcProvision", "pvcBind",
     "setUp", "up", "upTarget", "upWait",
     "setPostHooks", "postHooks", "postHook", "setCompleted"}

\* restorePVC runs, or is about to run, for a claim of the current plan.
RestoringAt == {"pvc", "pvcDeleting", "pvcCreate", "pvcProvision", "pvcBind"}

TypeOK ==
    /\ ClusterTypeOK
    /\ pc \in Locations
    /\ seen \in SUBSET Plans
    /\ todo \in SUBSET Plans
    /\ plan \in Plans \cup {None}
    /\ work \in SUBSET (Workloads \cup PVCs \cup Hooks)
    /\ cur \in Workloads \cup PVCs \cup {None}
    /\ carry \in BOOLEAN
    /\ lastErr \in BOOLEAN
    /\ faults \in 0 .. MaxFaults

Init ==
    /\ ClusterInit
    /\ pc = "idle" /\ seen = {} /\ todo = {} /\ plan = None /\ work = {}
    /\ cur = None /\ carry = FALSE /\ lastErr = FALSE /\ faults = 0

-----------------------------------------------------------------------------
(* The end of a reconcile.                                                 *)

\* Reconcile returns; its locals are gone.
Return ==
    /\ pc' = "idle" /\ seen' = {} /\ todo' = {} /\ plan' = None /\ work' = {}
    /\ cur' = None /\ carry' = FALSE /\ lastErr' = FALSE

Fault == faults < MaxFaults /\ faults' = faults + 1

\* A call fails and its error is returned as it is, or the process stops.
Abort ==
    /\ pc # "idle"
    /\ Fault
    /\ Return
    /\ UNCHANGED clusterVars

-----------------------------------------------------------------------------
(* ManageStatus.Patch.  A patch that changes nothing is not sent.  One that *)
(* is sent answers with the whole resource, which is decoded into obj: the *)
(* plans the user added meanwhile join the map the reconcile ranges over,  *)
(* and the plans he removed stay in it.  ActivePlan and the phases of the  *)
(* targets are not in the model, so a patch that seems to change nothing   *)
(* may have been sent for them.                                            *)

Refresh(changed) ==
    \/ seen' = seen \cup spec
    \/ ~changed /\ seen' = seen

\* A range over a map may or may not visit the entries added to it meanwhile.
RangeOver(rest) == \E new \in SUBSET (seen' \ seen) : todo' = rest \cup new

SetPhase(from, ph, to) ==
    /\ pc = from /\ pc' = to
    /\ phase' = ph
    /\ seen' = IF ph # phase THEN seen \cup spec ELSE seen
    /\ UNCHANGED <<spec, status, workloadVars, volumeVars, plan, work, cur, carry, lastErr, faults>>

-----------------------------------------------------------------------------
(* Reconcile, lines 75-90: fetch the resource, start over the status.      *)

GetResource ==
    /\ pc = "idle" /\ pc' = "init"
    /\ seen' = spec
    /\ UNCHANGED <<clusterVars, todo, plan, work, cur, carry, lastErr, faults>>

SetInitStatusRestorePlan == SetPhase("init", "Idle", "initialised") /\ UNCHANGED todo

StartValidating == SetPhase("initialised", "Validating", "validate") /\ todo' = seen'

-----------------------------------------------------------------------------
(* ValidateListSnapshots.                                                  *)

\* The claims a list call by claimSelector returns; deleted ones are in it
\* until their finalizers are gone.
ListedClaims(c) == {v \in PVCs : ClusterOf[v] = c /\ claim[v] # "absent"}

\* findLatestSnapshotTime: the latest time over all clusters, every one of
\* which has a claim with a snapshot.
LatestTime(p, t) ==
    LET listed == {v \in ClaimsOf(p) : claim[v] # "absent"} IN
    /\ \A c \in ClustersOf(p) : \E v \in ListedClaims(c) : snaps[v] # {}
    /\ \E v \in listed : t \in snaps[v]
    /\ \A v \in listed : \A u \in snaps[v] : u <= t

\* (A variant that forgets the time the plan asks for.)
RequestedTimeOfLock(p) == IF status[p].lock THEN status[p].time ELSE NoTime

\* A locked plan stays with the time it was restored from.
RequestedTime(p) == IF status[p].lock THEN status[p].time ELSE SpecTime[p]

ChosenTime(p, t) ==
    IF RequestedTime(p) = NoTime THEN LatestTime(p, t) ELSE t = RequestedTime(p)

\* The claims of a cluster that have a snapshot of time t.
Matching(c, t) == {v \in ListedClaims(c) : t \in snaps[v]}

MatchedClusters(p, t) == {c \in ClustersOf(p) : Matching(c, t) # {}}

\* (A variant that writes the status without the lock it had.)
CarriedLockForgotten(p) == FALSE

\* The variable lock is declared before the loop: once a locked plan has been
\* visited it is true for the plans that follow.
CarriedLock(p) == carry \/ status[p].lock

\* SetValidateRestorePlan.
Validated(p, t, listed, refs) ==
    [status EXCEPT ![p].known = TRUE, ![p].listed = listed, ![p].lock = CarriedLock(p),
                   ![p].time = t, ![p].refs = refs]

RefsOf(cs, t) == UNION {Matching(c, t) : c \in cs}

ValidatePlan(p) ==
    /\ pc = "validate" /\ p \in todo
    /\ \E t \in Times :
          /\ ChosenTime(p, t)
          /\ MatchedClusters(p, t) = ClustersOf(p)
          /\ status' = Validated(p, t, TargetsOf(p), RefsOf(ClustersOf(p), t))
    /\ carry' = CarriedLock(p)
    /\ Refresh(status' # status)
    /\ RangeOver(todo \ {p})
    /\ UNCHANGED <<spec, phase, workloadVars, volumeVars, pc, plan, work, cur, lastErr, faults>>

\* findLatestSnapshotTime gives up at cluster c, after the clusters cs: it has no
\* claim or no snapshot, or a list call fails.
NoLatestTime(p) ==
    /\ RequestedTime(p) = NoTime
    /\ \E cs \in SUBSET ClustersOf(p) : \E c \in ClustersOf(p) \ cs :
          /\ \/ (\A v \in ListedClaims(c) : snaps[v] = {}) /\ UNCHANGED faults
             \/ Fault
          /\ status' = Validated(p, NoTime, cs \cup {c}, {})

\* validateSnapshot gives up at a cluster that has no snapshot of the time, or at
\* a workload that is not found, a snapshot that is not ready, a failing call.
\* The clusters before it keep their SnapshotsRef in the status.
SnapshotInvalid(p) ==
    \E t \in Times :
       /\ ChosenTime(p, t)
       /\ \/ \E cs \in SUBSET MatchedClusters(p, t) : \E c \in ClustersOf(p) \ cs :
                /\ \/ Matching(c, t) = {} /\ UNCHANGED faults
                   \/ Fault
                /\ status' = Validated(p, t, cs \cup {c}, RefsOf(cs, t))
          \/ /\ MatchedClusters(p, t) = ClustersOf(p)
             /\ Fault
             /\ \E os \in (SUBSET OperatorsOf(p)) \ {{}} :
                   status' = Validated(p, t, ClustersOf(p) \cup os, RefsOf(ClustersOf(p), t))

\* failPlan.  The loop goes on with the other plans.
ValidatePlanFails(p) ==
    /\ pc = "validate" /\ p \in todo
    /\ NoLatestTime(p) \/ SnapshotInvalid(p)
    /\ carry' = CarriedLock(p)
    /\ lastErr' = TRUE
    /\ phase' = "Failed"
    /\ Refresh(status' # status \/ phase' # phase)
    /\ RangeOver(todo \ {p})
    /\ UNCHANGED <<spec, workloadVars, volumeVars, pc, plan, work, cur>>

\* The loop is over: return its error, or go on with the pre-restore hooks.
EndValidation ==
    /\ pc = "validate" /\ todo = {}
    /\ IF lastErr THEN Return
       ELSE /\ pc' = IF \E p \in seen : PreHooksOf(p) # {} THEN "setPreHooks" ELSE "setDown"
            /\ carry' = FALSE
            /\ UNCHANGED <<seen, todo, plan, work, cur, lastErr>>
    /\ UNCHANGED <<clusterVars, faults>>

-----------------------------------------------------------------------------
(* RunHooks.  A hook is one step here: HookJobs models its Jobs, ConfigMaps *)
(* and the fan-out over nodes.  The list of hooks is made from obj before  *)
(* the phase is set.                                                       *)

\* The restore point the hook prepares for has passed.
PointPassed(h) ==
    LET st == status[HookPlan[h]] IN st.known /\ st.lock /\ h \notin PostHooks

SkipHook(h) == PointPassed(h) \/ (status[HookPlan[h]].known /\ h \in status[HookPlan[h]].done)

\* A nodeAccess hook is looked at node by node, when its turn comes.
Pending(hs) == {h \in hs : h \in NodeHooks \/ ~SkipHook(h)}

StartPreHooks ==
    /\ SetPhase("setPreHooks", "RunningPreHooks", "preHooks")
    /\ todo' = {p \in seen : PreHooksOf(p) # {}}

StartPostHooks ==
    /\ SetPhase("setPostHooks", "RunningPostHooks", "postHooks")
    /\ todo' = {p \in seen : PostHooksOf(p) # {}}

PlanHooks(p) ==
    /\ \/ pc = "preHooks" /\ pc' = "preHook" /\ work' = Pending(PreHooksOf(p))
       \/ pc = "postHooks" /\ pc' = "postHook" /\ work' = Pending(PostHooksOf(p))
    /\ p \in todo
    /\ todo' = todo \ {p}
    /\ plan' = p
    /\ UNCHANGED <<clusterVars, seen, cur, carry, lastErr, faults>>

\* SetHooksRestoreFromPlan adds an entry for the plan when there is none.
HookSucceeds(h) ==
    /\ pc \in {"preHook", "postHook"} /\ h \in work /\ ~PointPassed(h)
    /\ status' = [status EXCEPT ![plan].known = TRUE, ![plan].done = @ \cup {h}]
    /\ work' = work \ {h}
    /\ Refresh(TRUE)
    /\ UNCHANGED <<spec, phase, workloadVars, volumeVars, pc, todo, plan, cur, carry, lastErr, faults>>

\* (A variant in which the error of a hook is logged and the loop goes on.)
HookFailsIgnored(h) ==
    /\ pc \in {"preHook", "postHook"} /\ h \in work /\ ~PointPassed(h)
    /\ Fault
    /\ status' = [status EXCEPT ![plan].known = TRUE, ![plan].done = @ \ {h}]
    /\ work' = work \ {h}
    /\ Refresh(TRUE)
    /\ UNCHANGED <<spec, phase, workloadVars, volumeVars, pc, todo, plan, cur, carry, lastErr>>

HookFails(h) ==
    /\ pc \in {"preHook", "postHook"} /\ h \in work /\ ~PointPassed(h)
    /\ Fault
    /\ status' = [status EXCEPT ![plan].known = TRUE, ![plan].done = @ \ {h}]
    /\ phase' = "Failed"
    /\ Return
    /\ UNCHANGED <<spec, workloadVars, volumeVars>>

\* A nodeAccess hook is passed with nothing written: no node matches its
\* selector, each one has an entry that says it succeeded, or the writes of the
\* entries failed, which is only logged.
HookPasses(h) ==
    /\ pc \in {"preHook", "postHook"} /\ h \in work \cap NodeHooks
    /\ work' = work \ {h}
    /\ UNCHANGED <<clusterVars, pc, seen, todo, plan, cur, carry, lastErr, faults>>

EndPlanHooks ==
    /\ work = {}
    /\ \/ pc = "preHook" /\ pc' = "preHooks"
       \/ pc = "postHook" /\ pc' = "postHooks"
    /\ plan' = None
    /\ UNCHANGED <<clusterVars, seen, todo, work, cur, carry, lastErr, faults>>

EndHooks ==
    /\ todo = {}
    /\ \/ pc = "preHooks" /\ pc' = "setDown"
       \/ pc = "postHooks" /\ pc' = "setCompleted"
    /\ UNCHANGED <<clusterVars, seen, todo, plan, work, cur, carry, lastErr, faults>>

-----------------------------------------------------------------------------
(* ScaleRestorePlan, with dir "down" or "up".                              *)

\* (A variant that skips the scale-up of any locked plan.)
SkipScaleWhenLocked(dir, p) == status[p].known /\ status[p].lock
SkipScale(dir, p) ==
    /\ status[p].known /\ status[p].lock
    /\ \/ dir = "down"
       \/ status[p].ups > 0

\* (A variant that takes clusters first in both directions.)
NextTargetsClustersFirst(dir) == IF work \cap Clusters # {} THEN work \cap Clusters ELSE work

\* Operators stop before the clusters they own and start after them.
NextTargets(dir) ==
    LET first == IF dir = "down" THEN Operators ELSE Clusters IN
    IF work \cap first # {} THEN work \cap first ELSE work

StartScale(dir) ==
    /\ \/ dir = "down" /\ SetPhase("setDown", "ScalingDown", "down")
       \/ dir = "up"   /\ SetPhase("setUp", "ScalingUp", "up")
    /\ todo' = seen'

PassPlan(dir, p) ==
    /\ pc = dir /\ p \in todo
    /\ SkipScale(dir, p)
    /\ Refresh(FALSE)
    /\ RangeOver(todo \ {p})
    /\ UNCHANGED <<clusterVars, pc, plan, work, cur, carry, lastErr, faults>>

SkipWait(dir) == IF dir = "down" THEN SkipWaitDown ELSE SkipWaitUp

TargetAt == [down |-> "downTarget", up |-> "upTarget"]
WaitAt   == [down |-> "downWait", up |-> "upWait"]

ScalePlan(dir, p) ==
    /\ pc = dir /\ p \in todo
    /\ ~SkipScale(dir, p)
    /\ plan' = p
    /\ work' = TargetsOf(p)
    /\ Refresh(FALSE)
    /\ RangeOver(todo \ {p})
    /\ pc' = TargetAt[dir]
    /\ UNCHANGED <<clusterVars, cur, carry, lastErr, faults>>

\* scaleOperatorDown, scaleClusterDown, scaleClusterUp, scaleOperatorUp: the
\* patch of spec.replicas.
PatchReplicas(dir, w) ==
    /\ pc = TargetAt[dir] /\ w \in NextTargets(dir)
    /\ on' = [on EXCEPT ![w] = (dir = "up")]
    /\ cur' = w
    /\ pc' = WaitAt[dir]
    /\ UNCHANGED <<resourceVars, pods, volumeVars, seen, todo, plan, work, carry, lastErr, faults>>

\* Their wait ends, or is skipped; then processTargets writes the status of the
\* target.  A plan that came into obj after the validation has no target status
\* to write to: the index is out of range, the panic ends the reconcile.
TargetScaled(dir) ==
    /\ pc = WaitAt[dir]
    /\ pods[cur] = (dir = "up") \/ cur \in SkipWait(dir)
    /\ IF cur \in status[plan].listed
       THEN /\ work' = work \ {cur}
            /\ cur' = None
            /\ pc' = TargetAt[dir]
            /\ UNCHANGED <<seen, todo, plan, carry, lastErr>>
       ELSE Return
    /\ UNCHANGED <<clusterVars, faults>>

\* The replicas will not be reached: someone has set others, or pods cannot
\* start because the snapshot a claim of theirs is made from is gone.
ScaleHopeless(dir) ==
    \/ on[cur] # (dir = "up")
    \/ /\ dir = "up"
       /\ \E v \in PVCs : ClusterOf[v] = cur /\ claim[v] = "created" /\ data[v] \notin snaps[v]

\* Get or Patch fails, or the poll times out: the plan's status is written with
\* CountScaleUp 0, then the phase is Failed.  Nothing reads the phase, so the two
\* patches are one step.
TargetFails(dir, w) ==
    /\ \/ pc = TargetAt[dir] /\ w \in NextTargets(dir) /\ Fault
       \/ pc = WaitAt[dir] /\ w = cur /\ Fault
       \/ /\ pc = WaitAt[dir] /\ w = cur
          /\ pods[w] # (dir = "up") /\ w \notin SkipWait(dir)
          /\ ScaleHopeless(dir)
          /\ UNCHANGED faults
    /\ IF w \in status[plan].listed
       THEN /\ status' = [status EXCEPT ![plan].ups = 0]
            /\ phase' = "Failed"
       ELSE UNCHANGED <<status, phase>>
    /\ Return
    /\ UNCHANGED <<spec, workloadVars, volumeVars>>

\* (A variant that counts the scalings of a plan whatever their direction.)
PlanScaledCounted(dir) ==
    /\ pc = TargetAt[dir] /\ work = {}
    /\ status' = [status EXCEPT ![plan].known = TRUE, ![plan].ups = @ + 1]
    /\ Refresh(status' # status)
    /\ RangeOver(todo)
    /\ plan' = None
    /\ pc' = dir
    /\ UNCHANGED <<spec, phase, workloadVars, volumeVars, work, cur, carry, lastErr, faults>>

\* SetScaleRestorePlan.
PlanScaled(dir) ==
    /\ pc = TargetAt[dir] /\ work = {}
    /\ status' = [status EXCEPT ![plan].known = TRUE,
                                ![plan].ups = IF dir = "up" THEN 1 ELSE 0]
    /\ Refresh(status' # status)
    /\ RangeOver(todo)
    /\ plan' = None
    /\ pc' = dir
    /\ UNCHANGED <<spec, phase, workloadVars, volumeVars, work, cur, carry, lastErr, faults>>

EndScale(dir) ==
    /\ pc = dir /\ todo = {}
    /\ \/ dir = "down" /\ pc' = "setRestoring"
       \/ /\ dir = "up"
          /\ pc' = IF \E p \in seen : PostHooksOf(p) # {} THEN "setPostHooks" ELSE "setCompleted"
    /\ UNCHANGED <<clusterVars, seen, todo, plan, work, cur, carry, lastErr, faults>>

-----------------------------------------------------------------------------
(* RestoreFromPlan and restorePVC.                                         *)

\* The loop ranges over the plans of the status, as they were when it started.
StartRestore ==
    /\ SetPhase("setRestoring", "Restoring", "restore")
    /\ todo' = {p \in Plans : status[p].known}

\* (A variant that does not look at the lock.)
SkipRestoreNever(p) == FALSE

\* The lock is looked at only for plans the resource still has.
SkipRestore(p) == p \in seen /\ status[p].lock

PassRestore(p) ==
    /\ pc = "restore" /\ p \in todo
    /\ SkipRestore(p)
    /\ Refresh(FALSE)
    /\ todo' = todo \ {p}
    /\ UNCHANGED <<clusterVars, pc, plan, work, cur, carry, lastErr, faults>>

\* (A variant that leaves out the claims an earlier attempt restored.)
ClaimsToRestoreOnce(p) == {v \in status[p].refs \ SkipRestoring : data[v] = Original}
ClaimsToRestore(p) == status[p].refs \ SkipRestoring

RestorePlan(p) ==
    /\ pc = "restore" /\ p \in todo
    /\ ~SkipRestore(p)
    /\ plan' = p
    /\ work' = ClaimsToRestore(p)
    /\ Refresh(FALSE)
    /\ todo' = todo \ {p}
    /\ pc' = "pvc"
    /\ UNCHANGED <<clusterVars, cur, carry, lastErr, faults>>

\* Delete, for a claim that exists.
DeletePVC(v) ==
    /\ pc = "pvc" /\ v \in work
    /\ claim[v] # "absent"
    /\ claim' = [claim EXCEPT ![v] = "terminating"]
    /\ cur' = v
    /\ pc' = "pvcDeleting"
    /\ UNCHANGED <<resourceVars, workloadVars, data, snaps, now, seen, todo, plan, work, carry, lastErr, faults>>

\* waitPVCDeleted.
PVCDeleted ==
    /\ pc = "pvcDeleting" /\ claim[cur] = "absent"
    /\ pc' = "pvcCreate"
    /\ UNCHANGED <<clusterVars, seen, todo, plan, work, cur, carry, lastErr, faults>>

\* Create from the snapshot of the plan's restore time.
CreatePVC ==
    /\ pc = "pvcCreate" /\ claim[cur] = "absent"
    /\ claim' = [claim EXCEPT ![cur] = "created"]
    /\ data' = [data EXCEPT ![cur] = status[plan].time]
    /\ pc' = "pvcProvision"
    /\ UNCHANGED <<resourceVars, workloadVars, snaps, now, seen, todo, plan, work, cur, carry, lastErr, faults>>

\* waitPVProvisioned, then the patch of spec.volumeName, which names the volume
\* the claim gets anyway.
NameVolume ==
    /\ pc = "pvcProvision" /\ claim[cur] \in {"provisioned", "bound"}
    /\ pc' = "pvcBind"
    /\ UNCHANGED <<clusterVars, seen, todo, plan, work, cur, carry, lastErr, faults>>

\* waitPVCBound.
PVCBound ==
    /\ pc = "pvcBind" /\ claim[cur] = "bound"
    /\ work' = work \ {cur}
    /\ cur' = None
    /\ pc' = "pvc"
    /\ UNCHANGED <<clusterVars, seen, todo, plan, carry, lastErr, faults>>

\* The call of restorePVC that is under way cannot succeed: a claim that is
\* not found is made anew without a name, one the StatefulSet controller has
\* made meanwhile exists already, one its pods hold is never deleted, one whose
\* snapshot is gone gets no volume.
RestoreHopeless ==
    \/ pc = "pvc" /\ \E v \in work : claim[v] = "absent"
    \/ pc = "pvcCreate" /\ claim[cur] # "absent"
    \/ pc = "pvcDeleting" /\ claim[cur] # "absent" /\ on[ClusterOf[cur]]
    \/ pc = "pvcProvision" /\ claim[cur] = "created" /\ data[cur] \notin snaps[cur]

\* (A variant that locks the plan although a claim failed.)
FailedLockTrue == TRUE

\* The lock SetRestoreFromPlan writes when a claim was not restored.
FailedLock == FALSE

\* (A variant that leaves the loop over the plans and scales up what there is.)
PVCFailsAndScalesUp ==
    /\ pc \in RestoringAt
    /\ \/ RestoreHopeless /\ UNCHANGED faults
       \/ (pc = "pvc" => work # {}) /\ Fault
    /\ status' = [status EXCEPT ![plan].lock = FailedLock]
    /\ phase' = "Failed"
    /\ pc' = "setUp" /\ todo' = {} /\ plan' = None /\ work' = {} /\ cur' = None
    /\ UNCHANGED <<spec, workloadVars, volumeVars, seen, carry, lastErr>>

PVCFails ==
    /\ pc \in RestoringAt
    /\ \/ RestoreHopeless /\ UNCHANGED faults
       \/ (pc = "pvc" => work # {}) /\ Fault
    /\ status' = [status EXCEPT ![plan].lock = FailedLock]
    /\ phase' = "Failed"
    /\ Return
    /\ UNCHANGED <<spec, workloadVars, volumeVars>>

\* Every claim of the plan is bound: SetRestoreFromPlan with lock true.
LockPlan ==
    /\ pc = "pvc" /\ work = {}
    /\ status' = [status EXCEPT ![plan].lock = TRUE]
    /\ Refresh(status' # status)
    /\ plan' = None
    /\ pc' = "restore"
    /\ UNCHANGED <<spec, phase, workloadVars, volumeVars, todo, work, cur, carry, lastErr, faults>>

EndRestore ==
    /\ pc = "restore" /\ todo = {}
    /\ pc' = "setUp"
    /\ UNCHANGED <<clusterVars, seen, todo, plan, work, cur, carry, lastErr, faults>>

-----------------------------------------------------------------------------
\* The last line of Reconcile; the next one follows after 30 seconds.
Complete ==
    /\ pc = "setCompleted"
    /\ phase' = "Completed"
    /\ Return
    /\ UNCHANGED <<spec, status, workloadVars, volumeVars, faults>>

Validation ==
    \/ GetResource \/ SetInitStatusRestorePlan \/ StartValidating \/ EndValidation
    \/ \E p \in Plans : ValidatePlan(p) \/ ValidatePlanFails(p)

RunHooks ==
    \/ StartPreHooks \/ StartPostHooks \/ EndPlanHooks \/ EndHooks
    \/ \E p \in Plans : PlanHooks(p)
    \/ \E h \in Hooks : HookSucceeds(h) \/ HookFails(h) \/ HookPasses(h)

ScaleRestorePlan(dir) ==
    \/ StartScale(dir) \/ TargetScaled(dir) \/ PlanScaled(dir) \/ EndScale(dir)
    \/ \E p \in Plans : PassPlan(dir, p) \/ ScalePlan(dir, p)
    \/ \E w \in Workloads : PatchReplicas(dir, w) \/ TargetFails(dir, w)

RestoreFromPlan ==
    \/ StartRestore \/ PVCDeleted \/ CreatePVC \/ NameVolume \/ PVCBound \/ PVCFails
    \/ LockPlan \/ EndRestore
    \/ \E p \in Plans : PassRestore(p) \/ RestorePlan(p)
    \/ \E v \in PVCs : DeletePVC(v)

Reconcile ==
    Validation \/ RunHooks \/ ScaleRestorePlan("down") \/ RestoreFromPlan
    \/ ScaleRestorePlan("up") \/ Complete

Next == Reconcile \/ Abort \/ (Environment /\ UNCHANGED <<localVars, faults>>)

Spec == Init /\ [][Next]_vars

\* The reconcile goes on while it can (faults are bounded, so it is not forced
\* to fail), pods, claims and volumes do what their controllers work towards.
Fairness ==
    /\ WF_vars(Reconcile)
    /\ \A w \in Workloads :
          /\ WF_vars(StartPods(w) /\ UNCHANGED <<localVars, faults>>)
          /\ WF_vars(StopPods(w) /\ UNCHANGED <<localVars, faults>>)
    /\ \A v \in PVCs :
          /\ WF_vars(RecreateClaim(v) /\ UNCHANGED <<localVars, faults>>)
          /\ WF_vars(FinishDelete(v) /\ UNCHANGED <<localVars, faults>>)
          /\ WF_vars(ProvisionVolume(v) /\ UNCHANGED <<localVars, faults>>)
          /\ WF_vars(BindClaim(v) /\ UNCHANGED <<localVars, faults>>)

FairSpec == Spec /\ Fairness

-----------------------------------------------------------------------------
(* Properties.                                                             *)

RestoredClaims(p) == ClaimsOf(p) \ SkipRestoring

\* Plans that lead the life PlanLife describes: they are there from the beginning, stay, and
\* wait for the operators that could scale their clusters up.
LifePlans == {p \in Plans \ (Late \cup Removable) : OperatorsOf(p) \cap SkipWaitDown = {}}

\* A workload has no pods and is not asked for any, as far as the plan lets the
\* operator wait for that.
Stopped(w) == ~on[w] /\ (w \in SkipWaitDown \/ ~pods[w])

\* While a claim of a plan is deleted and made anew, every cluster and operator
\* of the plan stays scaled down; an operator that is not waited for may still
\* scale its cluster up, so plans with one are left out, and so are plans the
\* user takes out of the resource.
\* (ScaleRestorePlan down before RestoreFromPlan; README: scale down "ensuring
\* data consistency".)
RestoreOnlyWhileDown ==
    \A p \in Plans \ Removable :
        plan = p /\ pc \in RestoringAt /\ OperatorsOf(p) \cap SkipWaitDown = {}
        => \A w \in TargetsOf(p) : Stopped(w)

\* Some step deletes a claim of plan p.
Deletes(p) == \E v \in ClaimsOf(p) : claim[v] # "terminating" /\ claim'[v] = "terminating"

\* The lock of a plan the resource keeps is final: it is never taken back, the
\* restore point that goes with it stays, and no claim of the plan is deleted.
\* (README, locking mechanism: "locked to prevent accidental re-execution".)
LockIsFinal ==
    \A p \in Plans \ Removable :
        status[p].lock =>
            /\ status'[p].lock
            /\ status[p].time # NoTime => status'[p].time = status[p].time
            /\ ~Deletes(p)
LockFinal == [][LockIsFinal]_vars

\* No claim of a plan is deleted before each of its pre-restore hooks has
\* succeeded, in this reconcile or an earlier one; a nodeAccess hook may find no
\* node (what is passed without an entry is the matter of HookJobs).
\* (Reconcile runs the hooks before it scales down; RunHooks stops at a failure.)
PreHooksFirst ==
    [][\A p \in Plans \ Removable :
          Deletes(p) => PreHooksOf(p) \ NodeHooks \subseteq status[p].done]_vars

\* No cluster ever runs on volumes of which some are restored while others, that
\* should be, still hold the data from before the restore.  The clusters are those of
\* plans that stay in the resource and wait for their operators to stop.
\* (RestoreFromPlan: a plan that failed half-way is scaled up only after all of
\* it was restored again.)
NeverRunsHalfRestored ==
    \A c \in Clusters : pods[c] /\ PlanOf[c] \in LifePlans =>
        \A v, w \in {u \in PVCs \ SkipRestoring : ClusterOf[u] = c} :
            data[v] \in Times => data[w] # Original

\* No cluster of a plan with snapshotRestoreTime that stays in the resource ever runs
\* on volumes restored from different points in time, whatever fails, however often it
\* is retried and which newer snapshots there are.  When the operator chooses the time,
\* a retry may choose a newer one, which a claim that was away has no snapshot of.
\* (RestorePlan: snapshotRestoreTime is "the exact snapshot timestamp to restore
\* from".)
OneRestorePoint ==
    \A c \in Clusters : pods[c] /\ PlanOf[c] \notin Removable /\ SpecTime[PlanOf[c]] # NoTime =>
        \A v, w \in {u \in PVCs : ClusterOf[u] = c} :
            data[v] \in Times /\ data[w] \in Times => data[v] = data[w]

\* Once a plan is locked, each claim that has a snapshot of the restore point in
\* its status holds that snapshot's data, whichever snapshots earlier attempts
\* took it from; a claim that was lost on the way is the exception, and so are
\* plans the user adds or takes out meanwhile.
\* (ValidateListSnapshots, which chooses the time anew in each reconcile, and
\* RestoreFromPlan, which restores every claim again.)
LockedHoldsRestorePoint ==
    \A p \in Plans \ (Late \cup Removable) : \A v \in RestoredClaims(p) :
        status[p].lock /\ status[p].time \in snaps[v]
        => data[v] \in {status[p].time, Blank} \/ claim[v] = "absent"

\* The phase is Completed only when every plan the resource has had from the
\* beginning is locked and scaled up, its workloads run, and each post-restore
\* hook has succeeded, however many reconciles failed on the way.
\* (Reconcile reaches SetPhase Completed through both loops and the hooks.)
CompletedMeansDone ==
    phase = "Completed" =>
        \A p \in spec \ Late :
            /\ status[p].lock /\ status[p].ups = 1
            /\ PostHooksOf(p) \ NodeHooks \subseteq status[p].done
            /\ \A w \in TargetsOf(p) : on[w] /\ (w \in SkipWaitUp \/ pods[w])

\* A post-restore hook succeeds only for a plan that is locked and scaled up, through
\* all retries.  A plan that is added during a reconcile is the exception: its hooks
\* are run by the end of that reconcile.
\* (README, hooks: "post-restore (after Scale Up)"; SetupRestoreHooks reads the plans
\* from the resource a status patch returned.)
PostHooksAfterRestore ==
    [][\A p \in Plans \ Late : \A h \in PostHooksOf(p) :
          h \in status'[p].done \ status[p].done => status[p].lock /\ status[p].ups = 1]_vars

Done ==
    /\ \A p \in Plans :
          status[p].lock /\ status[p].ups = 1 /\ PostHooksOf(p) \ NodeHooks \subseteq status[p].done
    /\ \A w \in Workloads : pods[w]

\* Whatever call fails or wherever the operator stops, later reconciles finish
\* the restore and leave it alone: from some point on, every plan is locked and
\* all workloads run.
\* (Errors are returned to be retried; the status tells what is done.)
EventuallyRestored == <>[]Done

Prepared(p) ==
    /\ PreHooksOf(p) \ NodeHooks \subseteq status[p].done
    /\ \A w \in TargetsOf(p) : Stopped(w)

Runs(w) == on[w] /\ (w \in SkipWaitUp \/ pods[w])

Life == INSTANCE PlanLife WITH
    Plans       <- LifePlans,
    Claims      <- {v \in PVCs : PlanOf[ClusterOf[v]] \in LifePlans},
    PlanOfClaim <- [v \in PVCs |-> PlanOf[ClusterOf[v]]],
    prepared    <- {p \in LifePlans : Prepared(p)},
    running     <- {p \in LifePlans : \A w \in TargetsOf(p) : Runs(w)},
    removing    <- {v \in PVCs : PlanOf[ClusterOf[v]] \in LifePlans /\ claim[v] = "terminating"},
    locked      <- {p \in LifePlans : status[p].lock},
    up          <- {p \in LifePlans : status[p].lock /\ status[p].ups = 1}

\* Through all failures and retries each plan leads the life PlanLife describes: in
\* particular a plan whose restore failed half-way is not started again before
\* its lock, and one that was scaled up is left running.
\* (Reconcile with ScaleRestorePlan, RestoreFromPlan and the status between them.)
ImplementsPlanLife == Life!Spec

-----------------------------------------------------------------------------
(* What the documentation says and the code does not keep.                 *)

\* README, locking mechanism: "once a restore plan completes successfully, it is
\* locked".  A plan that is locked has restored its claims.
\* (ValidateListSnapshots carries the lock of one plan over to the next.)
LockOnlyAfterRestore ==
    \A p \in Plans : status[p].lock => \A v \in RestoredClaims(p) : data[v] # Original

\* README, locking mechanism: "locked to prevent accidental re-execution".  The
\* claims of a locked plan are not deleted.
\* (RestoreFromPlan looks at the lock only of plans the resource still has.)
LockedNotReexecuted == [][\A p \in Plans : status[p].lock => ~Deletes(p)]_vars

\* README, restore: "deletes existing PVCs and recreates them from
\* VolumeSnapshots".  Once a plan is locked, no claim of it is one that was
\* deleted and not recreated.
\* (restorePVC deletes a claim before it creates the new one, and a retry finds
\* the claims by listing those that exist.)
LockedClaimsRecreated ==
    \A p \in Plans : status[p].lock =>
        \A v \in RestoredClaims(p) : claim[v] # "absent" /\ data[v] # Blank
=============================================================================
