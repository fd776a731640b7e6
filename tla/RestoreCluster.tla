--------------------------- MODULE RestoreCluster ---------------------------
(***************************************************************************)
(* What the operator acts on and what moves without it: the restore plans  *)
(* of one EBSSnapshotRestore resource, its status, the workloads the plans *)
(* name, their PersistentVolumeClaims and the VolumeSnapshots.             *)
(*                                                                         *)
(* The actions of this module are the controllers around the operator (the *)
(* StatefulSet and Deployment controllers, the database operator that owns *)
(* a StatefulSet, volume binding and provisioning, SnapScheduler) and the  *)
(* user who edits the resource.  None of them is code of the operator; each *)
(* is modelled from what the operator waits for.                           *)
(***************************************************************************)
EXTENDS Naturals, FiniteSets

CONSTANTS
    Plans,          \* names of restore plans
    Clusters,       \* StatefulSets named by the plans
    Operators,      \* Deployments named by the plans
    PVCs,           \* claims matched by the claimSelector of some cluster
    Hooks,          \* hooks of all plans
    PlanOf,         \* the plan of a cluster or an operator
    ClusterOf,      \* the cluster whose claimSelector matches a claim
    HookPlan,       \* the plan of a hook
    PostHooks,      \* hooks of the post-restore event; the others are pre-restore
    NodeHooks,      \* hooks with privileges.nodeAccess
    SkipRestoring,  \* claims listed in skipRestoringPVCs
    SkipWaitDown,   \* workloads with skipWaitScaleDown
    SkipWaitUp,     \* workloads with skipWaitScaleUp
    SpecTime,       \* snapshotRestoreTime of a plan, NoTime when it is not set
    Taken,          \* the times of the snapshots each claim has at the start
    Late,           \* plans that are not in the resource at the start
    Removable,      \* plans the user may take out of the resource
    Expirable,      \* times whose snapshots retention may delete
    MaxTime,        \* bound: snapshots are taken at times 1..MaxTime
    MaxFaults,      \* bound: calls that fail, hooks that fail, crashes
    None            \* no plan, no workload, no claim

Workloads == Clusters \cup Operators
Times     == 1 .. MaxTime
NoTime    == 0

\* What a volume holds: the data from before any restore, the data of the
\* snapshot of a time, or nothing.
Original == 0
Blank    == MaxTime + 1

ASSUME ConstantsOK ==
    /\ Clusters \cap Operators = {}
    /\ PlanOf \in [Workloads -> Plans]
    /\ ClusterOf \in [PVCs -> Clusters]
    /\ HookPlan \in [Hooks -> Plans]
    /\ PostHooks \subseteq Hooks
    /\ NodeHooks \subseteq Hooks
    /\ SkipRestoring \subseteq PVCs
    /\ SkipWaitDown \subseteq Workloads
    /\ SkipWaitUp \subseteq Workloads
    /\ MaxTime \in Nat
    /\ SpecTime \in [Plans -> 0 .. MaxTime]
    /\ Taken \in [PVCs -> SUBSET Times]
    /\ Late \subseteq Plans
    /\ Removable \subseteq Plans
    /\ Expirable \subseteq Times
    /\ MaxFaults \in Nat
    /\ None \notin Plans \cup Workloads \cup PVCs

Phases == {"Idle", "Validating", "RunningPreHooks", "ScalingDown", "Restoring",
           "ScalingUp", "RunningPostHooks", "Completed", "Failed"}

(***************************************************************************)
(* The part of RestorePlanStatus that the control flow reads.  known says  *)
(* whether the map status.restorePlans has an entry for the plan; listed   *)
(* are the targets of its clusters and operators lists (a validation that  *)
(* fails leaves some out, a hook status makes an entry with none), refs    *)
(* the claims of their SnapshotsRef lists; ups is CountScaleUp, and done   *)
(* the hooks whose status has Succeeded > 0.                               *)
(***************************************************************************)
PlanStatus == [known : BOOLEAN, listed : SUBSET Workloads, lock : BOOLEAN, time : 0 .. MaxTime,
               ups : {0, 1}, refs : SUBSET PVCs, done : SUBSET Hooks]

NoStatus == [known |-> FALSE, listed |-> {}, lock |-> FALSE, time |-> NoTime,
             ups |-> 0, refs |-> {}, done |-> {}]

\* bound: usable.  terminating: deleted, finalizer still set.  absent: gone.
\* created: made from a snapshot, no volume.  provisioned: a PV carries the
\* claim's UID, the claim is not bound to it yet.
ClaimStates == {"bound", "terminating", "absent", "created", "provisioned"}

VARIABLES
    spec,    \* the plans in spec.restorePlans, as the API server has them
    status,  \* status.restorePlans
    phase,   \* status.phase
    on,      \* workload -> its spec asks for its replicas (not for zero)
    pods,    \* workload -> it has pods, all of them ready
    claim,   \* claim -> one of ClaimStates
    data,    \* claim -> what its volume holds (or will hold, once bound)
    snaps,   \* claim -> times of its snapshots that are ready to use
    now      \* the time of the latest snapshot

resourceVars == <<spec, status, phase>>
workloadVars == <<on, pods>>
volumeVars   == <<claim, data, snaps, now>>
clusterVars  == <<resourceVars, workloadVars, volumeVars>>

ClustersOf(p)  == {c \in Clusters : PlanOf[c] = p}
OperatorsOf(p) == {o \in Operators : PlanOf[o] = p}
TargetsOf(p)   == ClustersOf(p) \cup OperatorsOf(p)
ClaimsOf(p)    == {v \in PVCs : PlanOf[ClusterOf[v]] = p}
PreHooksOf(p)  == {h \in Hooks \ PostHooks : HookPlan[h] = p}
PostHooksOf(p) == {h \in PostHooks : HookPlan[h] = p}

ClusterTypeOK ==
    /\ spec \in SUBSET Plans
    /\ status \in [Plans -> PlanStatus]
    /\ phase \in Phases
    /\ on \in [Workloads -> BOOLEAN]
    /\ pods \in [Workloads -> BOOLEAN]
    /\ claim \in [PVCs -> ClaimStates]
    /\ data \in [PVCs -> 0 .. MaxTime + 1]
    /\ snaps \in [PVCs -> SUBSET Times]
    /\ now \in 0 .. MaxTime

\* The resource has just been created; the workloads run on their volumes.
ClusterInit ==
    /\ spec = Plans \ Late
    /\ status = [p \in Plans |-> NoStatus]
    /\ phase = "Idle"
    /\ on = [w \in Workloads |-> TRUE]
    /\ pods = [w \in Workloads |-> TRUE]
    /\ claim = [v \in PVCs |-> "bound"]
    /\ data = [v \in PVCs |-> Original]
    /\ snaps = Taken
    /\ now \in {t \in 0 .. MaxTime :
                   /\ \A v \in PVCs : \A u \in Taken[v] : u <= t
                   /\ t = 0 \/ \E v \in PVCs : t \in Taken[v]}

-----------------------------------------------------------------------------
(* The workload controllers.                                               *)

\* Pods start once the spec asks for them and every claim they mount is bound.
StartPods(w) ==
    /\ on[w] /\ ~pods[w]
    /\ \A v \in PVCs : ClusterOf[v] = w => claim[v] = "bound"
    /\ pods' = [pods EXCEPT ![w] = TRUE]
    /\ UNCHANGED <<resourceVars, on, volumeVars>>

StopPods(w) ==
    /\ ~on[w] /\ pods[w]
    /\ pods' = [pods EXCEPT ![w] = FALSE]
    /\ UNCHANGED <<resourceVars, on, volumeVars>>

\* The StatefulSet controller makes a missing claim anew from the
\* volumeClaimTemplates: the name comes back, the data does not.
RecreateClaim(v) ==
    /\ on[ClusterOf[v]] /\ claim[v] = "absent"
    /\ claim' = [claim EXCEPT ![v] = "bound"]
    /\ data' = [data EXCEPT ![v] = Blank]
    /\ UNCHANGED <<resourceVars, workloadVars, snaps, now>>

\* A running database operator puts back the replicas of the StatefulSet it
\* owns; this is why a plan names operators to stop first.
OperatorRescales(c) ==
    /\ ~on[c]
    /\ \E o \in OperatorsOf(PlanOf[c]) : pods[o]
    /\ on' = [on EXCEPT ![c] = TRUE]
    /\ UNCHANGED <<resourceVars, pods, volumeVars>>

-----------------------------------------------------------------------------
(* Volumes and snapshots.                                                  *)

\* The pvc-protection finalizer keeps a deleted claim while a pod mounts it.
FinishDelete(v) ==
    /\ claim[v] = "terminating" /\ ~pods[ClusterOf[v]]
    /\ claim' = [claim EXCEPT ![v] = "absent"]
    /\ UNCHANGED <<resourceVars, workloadVars, data, snaps, now>>

\* The CSI provisioner makes a volume from the snapshot, if it still exists.
ProvisionVolume(v) ==
    /\ claim[v] = "created" /\ data[v] \in snaps[v]
    /\ claim' = [claim EXCEPT ![v] = "provisioned"]
    /\ UNCHANGED <<resourceVars, workloadVars, data, snaps, now>>

\* With or without the volumeName the operator patches in.
BindClaim(v) ==
    /\ claim[v] = "provisioned"
    /\ claim' = [claim EXCEPT ![v] = "bound"]
    /\ UNCHANGED <<resourceVars, workloadVars, data, snaps, now>>

\* SnapScheduler snapshots the claims of a plan's schedule that exist.
TakeSnapshots(p) ==
    /\ now < MaxTime
    /\ now' = now + 1
    /\ snaps' = [v \in PVCs |->
                    IF v \in ClaimsOf(p) /\ claim[v] # "absent"
                    THEN snaps[v] \cup {now + 1} ELSE snaps[v]]
    /\ UNCHANGED <<resourceVars, workloadVars, claim, data>>

\* Retention deletes the snapshots of a time.
ExpireSnapshots(t) ==
    /\ \E v \in PVCs : t \in snaps[v]
    /\ snaps' = [v \in PVCs |-> snaps[v] \ {t}]
    /\ UNCHANGED <<resourceVars, workloadVars, claim, data, now>>

-----------------------------------------------------------------------------
(* The user.                                                               *)

AddPlan(p) ==
    /\ p \notin spec
    /\ spec' = spec \cup {p}
    /\ UNCHANGED <<status, phase, workloadVars, volumeVars>>

RemovePlan(p) ==
    /\ p \in spec
    /\ spec' = spec \ {p}
    /\ UNCHANGED <<status, phase, workloadVars, volumeVars>>

-----------------------------------------------------------------------------
Environment ==
    \/ \E w \in Workloads : StartPods(w) \/ StopPods(w)
    \/ \E v \in PVCs : RecreateClaim(v) \/ FinishDelete(v) \/ ProvisionVolume(v) \/ BindClaim(v)
    \/ \E c \in Clusters : OperatorRescales(c)
    \/ \E p \in Plans : TakeSnapshots(p)
    \/ \E t \in Expirable : ExpireSnapshots(t)
    \/ \E p \in Late : AddPlan(p)
    \/ \E p \in Removable : RemovePlan(p)
=============================================================================
