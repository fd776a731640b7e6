---------------------------- MODULE ScaleWorkload ----------------------------
(***************************************************************************)
(* One workload of a plan in numbers: its spec.replicas, its status, its   *)
(* pods, and the StatefulSet that is deleted and made anew to change its   *)
(* podManagementPolicy.  Reconciler takes a workload as on or off and has  *)
(* many of them; here is what one scale-down and one scale-up do, how      *)
(* often they are tried, and what the waits can see of the pods.           *)
(***************************************************************************)
EXTENDS Naturals

CONSTANTS
    Kinds,       \* what the workload may be, see KindNames
    Wanted,      \* target.replicas
    Before,      \* replicas the workload may have before the restore
    Policies,    \* policies its StatefulSet may have before the restore
    Flags,       \* sets of flags the target may have, see FlagNames
    Rescales,    \* replicas someone else may set
    FaultKinds,  \* what may fail: see Fails
    MaxRescales, \* bound on changes someone else makes
    MaxFaults,   \* bound on failures and crashes
    None

\* A StatefulSet by its update strategy, or a Deployment.
KindNames   == {"RollingUpdate", "OnDelete", "Deployment"}
PolicyNames == {"OrderedReady", "Parallel"}
FlagNames   == {"parallelPodManagement", "skipWaitScaleDown", "skipWaitScaleUp"}

Objects == [replicas : Nat, policy : PolicyNames, deleting : BOOLEAN]
Statuses == [replicas : Nat, ready : Nat, fresh : BOOLEAN]

ASSUME WorkloadConstantsOK ==
    /\ Kinds \subseteq KindNames /\ Policies \subseteq PolicyNames
    /\ Wanted \in Nat \ {0} /\ Before \subseteq Nat /\ Rescales \subseteq Nat
    /\ \A fs \in Flags : fs \subseteq FlagNames
    /\ MaxRescales \in Nat /\ MaxFaults \in Nat
    /\ None \notin Objects

VARIABLES
    kind,     \* one of Kinds
    flags,    \* one of Flags
    obj,      \* the StatefulSet or Deployment: its spec, or None
    status,   \* its status; fresh: observedGeneration is the spec's generation
    pods,     \* its pods
    ready,    \* those of them that are ready
    pc,       \* where the operator stands
    sts,      \* the variable sts, or deployment: the object as it was read
    policy,   \* argument of recreateSTSWithPodManagementPolicy
    lock,     \* the plan is locked
    ups,      \* its CountScaleUp
    rescales, \* changes someone else has made
    faults    \* failures and crashes so far

typeVars   == <<kind, flags>>
objectVars == <<typeVars, obj, status, pods, ready>>
planVars   == <<lock, ups>>
boundVars  == <<rescales, faults>>
vars       == <<objectVars, pc, sts, policy, planVars, boundVars>>

Parallel == "parallelPodManagement" \in flags
SkipDown == "skipWaitScaleDown" \in flags
SkipUp   == "skipWaitScaleUp" \in flags

\* scaleClusterUp rejects the two together.
Contradiction == SkipUp /\ Parallel /\ kind # "Deployment"

Recreating == {"delete", "gone", "create"}
Scaling    == {"up", "patch", "upWait", "last"} \cup Recreating

TypeOK ==
    /\ kind \in Kinds /\ flags \in Flags
    /\ obj = None \/ obj \in Objects
    /\ status \in Statuses
    /\ pods \in Nat /\ ready \in 0 .. pods
    /\ pc \in {"idle", "down", "downWait", "restore"} \cup Scaling
    /\ sts = None \/ sts \in Objects
    /\ policy \in PolicyNames
    /\ lock \in BOOLEAN /\ ups \in {0, 1}
    /\ rescales \in 0 .. MaxRescales /\ faults \in 0 .. MaxFaults

\* A Deployment has no policy; it starts its pods at once.  Pods may be broken.
Init ==
    /\ kind \in Kinds /\ flags \in Flags
    /\ \E n \in Before : \E p \in Policies : \E r \in 0 .. n :
          /\ obj = [replicas |-> n, deleting |-> FALSE,
                    policy |-> IF kind = "Deployment" THEN "Parallel" ELSE p]
          /\ status = [replicas |-> n, ready |-> r, fresh |-> TRUE]
          /\ pods = n /\ ready = r
    /\ pc = "idle" /\ sts = None /\ policy = "OrderedReady"
    /\ lock = FALSE /\ ups = 0 /\ rescales = 0 /\ faults = 0

Return == pc' = "idle" /\ sts' = None /\ policy' = "OrderedReady"

\* spec.replicas is patched; the controller has not observed it yet.
SetReplicas(n) ==
    /\ obj' = [obj EXCEPT !.replicas = n]
    /\ status' = [status EXCEPT !.fresh = FALSE]

-----------------------------------------------------------------------------
(* ScaleRestorePlan, for the plan of the workload.                         *)

Begin ==
    /\ pc = "idle"
    /\ \/ ~lock /\ pc' = "down"
       \/ lock /\ ups = 0 /\ pc' = "up"
    /\ UNCHANGED <<objectVars, sts, policy, planVars, boundVars>>

\* scaleClusterDown, scaleOperatorDown: Get, and Patch unless it has no replicas.
ScaleDown ==
    /\ pc = "down" /\ obj # None
    /\ IF obj.replicas # 0 THEN SetReplicas(0) ELSE UNCHANGED <<obj, status>>
    /\ pc' = IF SkipDown THEN "restore" ELSE "downWait"
    /\ UNCHANGED <<typeVars, pods, ready, sts, policy, planVars, boundVars>>

\* (A variant that looks at the pods that are ready only.)
NoReplicasReady == status.ready = 0

NoReplicas == status.replicas = 0 /\ status.ready = 0

DownWaited ==
    /\ pc = "downWait" /\ obj # None
    /\ NoReplicas
    /\ pc' = "restore"
    /\ UNCHANGED <<objectVars, sts, policy, planVars, boundVars>>

\* RestoreFromPlan; that it may fail is in Reconciler.
Restored ==
    /\ pc = "restore" /\ pc' = "up"
    /\ lock' = TRUE
    /\ UNCHANGED <<objectVars, sts, policy, ups, boundVars>>

\* A StatefulSet that starts its pods one by one is made anew before it is
\* asked for any.
NeedsParallel ==
    Parallel /\ kind # "Deployment" /\ obj.policy = "OrderedReady" /\ obj.replicas < Wanted

\* (A variant that patches the replicas first.)
GetUpLate ==
    /\ pc = "up" /\ ~Contradiction
    /\ obj # None
    /\ sts' = obj
    /\ pc' = "patch"
    /\ UNCHANGED <<objectVars, policy, planVars, boundVars>>

\* scaleClusterUp, scaleOperatorUp: Get.
GetUp ==
    /\ pc = "up" /\ ~Contradiction
    /\ obj # None
    /\ sts' = obj
    /\ IF NeedsParallel THEN pc' = "delete" /\ policy' = "Parallel"
                        ELSE pc' = "patch" /\ UNCHANGED policy
    /\ UNCHANGED <<objectVars, planVars, boundVars>>

PatchUp ==
    /\ pc = "patch" /\ obj # None
    /\ IF sts.replicas < Wanted THEN SetReplicas(Wanted) ELSE UNCHANGED <<obj, status>>
    /\ IF SkipUp THEN Return /\ ups' = 1
                 ELSE pc' = "upWait" /\ UNCHANGED <<sts, policy, ups>>
    /\ UNCHANGED <<typeVars, pods, ready, lock, boundVars>>

\* What each kind's wait asks of the status; the template does not change, so
\* every replica is an updated one and the revisions agree.
AllReady ==
    /\ status.ready = Wanted /\ status.replicas = Wanted
    /\ kind = "OnDelete" => status.fresh

UpWaited ==
    /\ pc = "upWait" /\ obj # None
    /\ AllReady
    /\ IF kind = "Deployment" THEN Return /\ ups' = 1
                              ELSE pc' = "last" /\ UNCHANGED <<sts, policy, ups>>
    /\ UNCHANGED <<objectVars, lock, boundVars>>

\* (A variant that puts the policy back only in the reconcile that changed it.)
PutsBackOwn == Parallel /\ obj.policy = "Parallel" /\ sts.policy = "OrderedReady"

PutsBack == Parallel /\ obj.policy = "Parallel"

\* The StatefulSet is read again; SetScaleRestorePlan counts the scale-up.
LastGet ==
    /\ pc = "last" /\ obj # None
    /\ IF PutsBack THEN pc' = "delete" /\ sts' = obj /\ policy' = "OrderedReady" /\ UNCHANGED ups
                   ELSE Return /\ ups' = 1
    /\ UNCHANGED <<objectVars, lock, boundVars>>

-----------------------------------------------------------------------------
(* recreateSTSWithPodManagementPolicy.                                     *)

\* (A variant that deletes the pods with the StatefulSet.)
DeleteCascading ==
    /\ pc = "delete" /\ obj # None
    /\ obj' = [obj EXCEPT !.deleting = TRUE]
    /\ pods' = 0 /\ ready' = 0
    /\ pc' = "gone"
    /\ UNCHANGED <<typeVars, status, sts, policy, planVars, boundVars>>

\* Delete leaves the pods to whom takes them.
Delete ==
    /\ pc = "delete" /\ obj # None
    /\ obj' = [obj EXCEPT !.deleting = TRUE]
    /\ pc' = "gone"
    /\ UNCHANGED <<typeVars, status, pods, ready, sts, policy, planVars, boundVars>>

Gone ==
    /\ pc = "gone" /\ obj = None
    /\ pc' = "create"
    /\ UNCHANGED <<objectVars, sts, policy, planVars, boundVars>>

\* (A variant that makes the StatefulSet with the default number of replicas.)
CreateWithoutReplicas ==
    /\ pc = "create" /\ obj = None
    /\ obj' = [sts EXCEPT !.policy = policy, !.deleting = FALSE, !.replicas = None]
    /\ status' = [replicas |-> 0, ready |-> 0, fresh |-> FALSE]
    /\ IF policy = "Parallel" THEN pc' = "patch" /\ UNCHANGED <<sts, policy, ups>>
                              ELSE Return /\ ups' = 1
    /\ UNCHANGED <<typeVars, pods, ready, lock, boundVars>>

\* Create, from the object as it was read.  Parallel was made for the patch of
\* the replicas, OrderedReady is the end of the scale-up.
Create ==
    /\ pc = "create" /\ obj = None
    /\ obj' = [sts EXCEPT !.policy = policy, !.deleting = FALSE]
    /\ status' = [replicas |-> 0, ready |-> 0, fresh |-> FALSE]
    /\ IF policy = "Parallel" THEN pc' = "patch" /\ UNCHANGED <<sts, policy, ups>>
                              ELSE Return /\ ups' = 1
    /\ UNCHANGED <<typeVars, pods, ready, lock, boundVars>>

-----------------------------------------------------------------------------
(* Failures.                                                               *)

\* A Get or a Delete finds nothing, flags contradict each other, a wait cannot
\* end because someone has set other replicas.
Hopeless ==
    \/ pc \in {"down", "downWait", "up", "patch", "upWait", "last", "delete"} /\ obj = None
    \/ pc = "up" /\ Contradiction
    \/ pc = "downWait" /\ obj # None /\ obj.replicas # 0
    \/ pc = "upWait" /\ obj # None /\ obj.replicas # Wanted

\* (A variant that counts the scale-up in the error path as well.)
FailsCounted(kindOf) ==
    /\ kindOf \in FaultKinds /\ faults < MaxFaults /\ faults' = faults + 1
    /\ pc # "idle" /\ (kindOf = "recreate" <=> pc \in {"gone", "create"})
    /\ Return
    /\ IF pc \in Scaling THEN ups' = 1 ELSE UNCHANGED ups
    /\ UNCHANGED <<objectVars, lock, rescales>>

\* "call": a call fails, a wait ends too early, or the operator stops, outside of
\* recreateSTSWithPodManagementPolicy; "recreate": in it, its wait of 10 seconds
\* included.
Fails(kindOf) ==
    /\ kindOf \in FaultKinds /\ faults < MaxFaults /\ faults' = faults + 1
    /\ pc # "idle" /\ (kindOf = "recreate" <=> pc \in {"gone", "create"})
    /\ Return
    /\ UNCHANGED <<objectVars, planVars, rescales>>

\* Error: the plan keeps CountScaleUp 0 and is tried again.
Stops ==
    /\ Hopeless
    /\ Return
    /\ UNCHANGED <<objectVars, planVars, boundVars>>

-----------------------------------------------------------------------------
(* The controllers and others.                                             *)

Controlled == obj # None /\ ~obj.deleting

\* OrderedReady waits for each pod before it makes the next.
CreatePod ==
    /\ Controlled /\ pods < obj.replicas
    /\ obj.policy = "OrderedReady" => ready = pods
    /\ pods' = pods + 1
    /\ UNCHANGED <<typeVars, obj, status, ready, pc, sts, policy, planVars, boundVars>>

PodReady ==
    /\ ready < pods
    /\ ready' = ready + 1
    /\ UNCHANGED <<typeVars, obj, status, pods, pc, sts, policy, planVars, boundVars>>

RemovePod ==
    /\ Controlled /\ pods > obj.replicas
    /\ pods' = pods - 1
    /\ ready' \in {n \in {ready, ready - 1} \cap Nat : n <= pods'}
    /\ UNCHANGED <<typeVars, obj, status, pc, sts, policy, planVars, boundVars>>

\* The controller writes what it sees when it has done what it can.
WriteStatus ==
    /\ Controlled
    /\ status' = [replicas |-> pods, ready |-> ready, fresh |-> TRUE]
    /\ UNCHANGED <<typeVars, obj, pods, ready, pc, sts, policy, planVars, boundVars>>

\* The garbage collector has orphaned the pods and lets the StatefulSet go.
FinishDelete ==
    /\ obj # None /\ obj.deleting
    /\ obj' = None
    /\ UNCHANGED <<typeVars, status, pods, ready, pc, sts, policy, planVars, boundVars>>

\* A user, an autoscaler or a database operator sets the replicas.
Rescale ==
    /\ rescales < MaxRescales /\ rescales' = rescales + 1
    /\ obj # None
    /\ \E n \in Rescales \ {obj.replicas} : SetReplicas(n)
    /\ UNCHANGED <<typeVars, pods, ready, pc, sts, policy, planVars, faults>>

-----------------------------------------------------------------------------
Operate ==
    \/ Begin \/ ScaleDown \/ DownWaited \/ Restored \/ GetUp \/ PatchUp \/ UpWaited \/ LastGet
    \/ Delete \/ Gone \/ Create \/ Stops

Controllers == CreatePod \/ PodReady \/ RemovePod \/ WriteStatus \/ FinishDelete

Next == Operate \/ (\E k \in FaultKinds : Fails(k)) \/ Controllers \/ Rescale

Spec == Init /\ [][Next]_vars

\* The operator takes its next step, the controllers do their work.
FairSpec ==
    /\ Spec
    /\ WF_vars(Operate)
    /\ WF_vars(CreatePod) /\ WF_vars(PodReady) /\ WF_vars(RemovePod) /\ WF_vars(WriteStatus)
    /\ WF_vars(FinishDelete)

-----------------------------------------------------------------------------
(* Properties.                                                             *)

\* When the claims are about to be replaced, the workload has no pods, although
\* the wait reads only a status that its controller writes later; unless someone
\* else starts pods again.
\* (scaleClusterDown and scaleOperatorDown; README: "scales down ... to zero
\* replicas before performing restore, ensuring data consistency".)
StoppedBeforeRestore == pc = "restore" /\ ~SkipDown /\ rescales = 0 => pods = 0

\* From the restore on, nothing takes a pod away, the two recreations of the
\* StatefulSet and their failures included; without the wait of the scale-down
\* the pods may still be going, and others may ask for fewer.
\* (recreateSTSWithPodManagementPolicy orphans the pods.)
UpKeepsPods == [][lock /\ ~SkipDown /\ rescales = 0 => pods' >= pods]_vars

\* With parallelPodManagement, again if the scale-down was waited for, no pod is
\* started while the policy is OrderedReady, unless others ask for it.
\* (scaleClusterUp makes the StatefulSet anew before it asks for replicas;
\* RestoreTarget: "all pods are started simultaneously instead of sequentially".)
StartedInParallel ==
    [][Parallel /\ ~SkipDown /\ rescales = 0 /\ lock /\ pods' > pods => obj.policy = "Parallel"]_vars

\* A scale-up that is counted, in whichever attempt, has a workload with all its
\* pods ready, and a StatefulSet of policy OrderedReady if it may have changed it; if
\* nobody else has set the replicas.  Where the scale-down was not waited for, the
\* wait of the scale-up may end on a status from before it.
\* (SetScaleRestorePlan with 1 is what keeps later reconciles from scaling.)
CountedMeansUp ==
    ups = 1 /\ rescales = 0 =>
        /\ obj # None
        /\ ~SkipUp /\ ~SkipDown => ready = Wanted
        /\ Parallel /\ kind # "Deployment" => obj.policy = "OrderedReady"

Ours == rescales = 0 /\ ~SkipDown
IsOn == IF obj # None THEN obj.replicas # 0 ELSE pods # 0

\* The switch that Reconciler takes the workload for: a StatefulSet that is being made
\* anew is as its pods are, and one that others scale is not followed any more.
Life == INSTANCE WorkloadLife WITH
            ours     <- Ours,
            waits    <- ~SkipUp,
            on       <- Ours /\ IsOn,
            pods     <- Ours /\ (IF lock THEN ready = Wanted ELSE pods # 0),
            replaced <- Ours /\ lock,
            counted  <- Ours /\ ups = 1

\* With every call and wait of the operator, the recreations of the StatefulSet, late
\* status and failures, the workload is such a switch: off without pods when the claims
\* are replaced, never switched off later, counted once, when all its pods are ready.
\* (Reconciler's PatchReplicas, TargetScaled, StartPods and StopPods stand for
\* scaleClusterDown, scaleClusterUp and the StatefulSet controller.)
ImplementsWorkloadLife == Life!Spec

\* README, scale up: "scales workloads back to their original replica count".  A
\* workload is there again and again: a StatefulSet is not gone for good.
\* (recreateSTSWithPodManagementPolicy has deleted it before it makes the new one, and
\* keeps it only in a variable meanwhile.)
StatefulSetKept == []<>(obj # None)

\* Whatever failed, short of that, and whoever changed the replicas meanwhile, a
\* later reconcile ends the scale-up, and from then on the pods asked for are all
\* ready.  It never does with the two flags that exclude each other, or when others
\* ask for more than target.replicas, which the patch leaves and the wait refuses.
\* (CountScaleUp stays 0 until the waits are over.)
EventuallyUp ==
    ~Contradiction /\ []<>(obj # None /\ obj.replicas <= Wanted) =>
        <>[](ups = 1 /\ obj # None /\ (rescales = 0 => obj.replicas = Wanted)
             /\ ready = obj.replicas)
=============================================================================
