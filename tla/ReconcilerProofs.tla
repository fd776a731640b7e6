-------------------------- MODULE ReconcilerProofs --------------------------
(* Proofs about Reconciler, for any plans, workloads, claims, hooks, bounds *)
(* and edits of the resource.                                               *)
EXTENDS Reconciler, TLAPS

\* Where the reconcile is in the body of a loop over plans.
ScalingAt == {"downTarget", "downWait", "upTarget", "upWait"}
PlanAt    == {"preHook", "postHook"} \cup ScalingAt \cup RestoringAt

PlanOK == pc \in PlanAt => plan \in Plans

TypeInv == TypeOK /\ PlanOK

(***************************************************************************)
(* What the locals of the loops range over.                                *)
(***************************************************************************)
LoopOK ==
    /\ pc = "idle" => todo = {}
    /\ pc \notin {"restore"} \cup RestoringAt => todo \subseteq seen
    /\ pc \in PlanAt \ RestoringAt => plan \in seen
    /\ pc \in {"restore"} \cup RestoringAt => \A p \in todo : status[p].known
    /\ pc \in RestoringAt => status[plan].known
    /\ pc \in ScalingAt => work \subseteq TargetsOf(plan)
    /\ pc \in {"downWait", "upWait"} => cur \in work
    /\ pc \in RestoringAt => work \subseteq ClaimsOf(plan)

\* A plan the user leaves in the resource is there, for the reconcile too, from
\* the moment the status has an entry for it.
KnownOK ==
    \A p \in Plans \ Removable :
        /\ p \in seen => p \in spec
        /\ status[p].known => p \in spec /\ (pc # "idle" => p \in seen)

RefsOK == \A p \in Plans : status[p].refs \subseteq ClaimsOf(p)

(***************************************************************************)
(* Which plans are scaled down.                                            *)
(***************************************************************************)
Waits(p) == OperatorsOf(p) \cap SkipWaitDown = {}
Quiet(p) == Waits(p) => \A w \in TargetsOf(p) : Stopped(w)
Due(p)   == status[p].known /\ ~status[p].lock

\* The loop has passed a plan that is due, or is through with all.
PlansDown ==
    \A p \in Plans \ Removable : Due(p) =>
        /\ pc = "down" /\ p \notin todo => Quiet(p)
        /\ pc \in {"downTarget", "downWait"} /\ p \notin todo /\ p # plan => Quiet(p)
        /\ pc \in {"setRestoring", "restore"} \cup RestoringAt => Quiet(p)

\* The loop over the targets of a plan stops all operators before a cluster.
TargetsDown ==
    pc \in {"downTarget", "downWait"} /\ Waits(plan) =>
        /\ \A w \in TargetsOf(plan) \ work : Stopped(w)
        /\ ~(ClustersOf(plan) \subseteq work) => work \cap Operators = {}
        /\ pc = "downWait" => ~on[cur] /\ (cur \in Clusters => work \cap Operators = {})

RestoreUnlocked ==
    pc \in RestoringAt /\ plan \notin Removable => ~status[plan].lock

DownInv == LoopOK /\ KnownOK /\ RefsOK /\ PlansDown /\ TargetsDown /\ RestoreUnlocked

(***************************************************************************)
(* Which pre-restore hooks have succeeded.                                 *)
(***************************************************************************)
ListedOK ==
    /\ \A p \in Plans : status[p].listed # {} => status[p].known
    /\ pc \in {"downTarget", "downWait"} =>
          TargetsOf(plan) \subseteq work \cup status[plan].listed

Hooked(p) == PreHooksOf(p) \ NodeHooks \subseteq status[p].done

HookedAt == {"setDown", "down", "downTarget", "downWait", "setRestoring", "restore"} \cup RestoringAt

HooksFirst ==
    /\ \A p \in Plans \ Removable : Due(p) /\ ClaimsOf(p) # {} =>
          /\ pc = "preHooks" /\ p \notin todo => Hooked(p)
          /\ pc = "preHook" /\ p \notin todo /\ p # plan => Hooked(p)
          /\ pc \in HookedAt => Hooked(p)
    /\ pc = "preHook" => \/ status[plan].known /\ status[plan].lock
                         \/ PreHooksOf(plan) \ NodeHooks \subseteq status[plan].done \cup work

HookInv == ListedOK /\ HooksFirst

-----------------------------------------------------------------------------
(* Types.                                                                  *)

\* Init gives every variable a value of its type.
LEMMA TypeInit == Init => TypeInv
<1> SUFFICES ASSUME Init PROVE TypeInv
  OBVIOUS
<1>1. NoStatus \in PlanStatus
  BY ConstantsOK DEF ConstantsOK, NoStatus, PlanStatus, NoTime
<1>2. ClusterTypeOK
  BY <1>1, ConstantsOK DEF ConstantsOK, Init, ClusterInit, ClusterTypeOK, Phases, ClaimStates, Original, Times
<1>3. TypeOK
  <2>1. faults \in 0 .. MaxFaults
    BY ConstantsOK DEF ConstantsOK, Init
  <2>2. pc \in Locations
    BY DEF Init, Locations
  <2>3. carry \in BOOLEAN /\ lastErr \in BOOLEAN
    BY DEF Init
  <2> QED
    BY <1>2, <2>1, <2>2, <2>3 DEF Init, TypeOK
<1>4. pc \notin PlanAt
  BY DEF Init, PlanAt, ScalingAt, RestoringAt
<1> QED
  BY <1>3, <1>4 DEF TypeInv, PlanOK

\* The environment keeps the types; it does not touch the locals.
LEMMA TypeEnvironment ==
  ASSUME TypeInv, Environment, UNCHANGED <<localVars, faults>>
  PROVE  TypeInv'
<1> USE ConstantsOK DEF ConstantsOK, TypeInv, TypeOK, ClusterTypeOK, PlanOK,
        clusterVars, resourceVars, workloadVars, volumeVars, localVars
<1>1. CASE \E w \in Workloads : StartPods(w) \/ StopPods(w)
  BY <1>1 DEF StartPods, StopPods
<1>2. CASE \E v \in PVCs : RecreateClaim(v)
  BY <1>2 DEF RecreateClaim, Blank, ClaimStates
<1>3. CASE \E v \in PVCs : FinishDelete(v) \/ ProvisionVolume(v) \/ BindClaim(v)
  BY <1>3 DEF FinishDelete, ProvisionVolume, BindClaim, ClaimStates
<1>4. CASE \E c \in Clusters : OperatorRescales(c)
  BY <1>4 DEF OperatorRescales, Workloads
<1>5. CASE \E p \in Plans : TakeSnapshots(p)
  BY <1>5 DEF TakeSnapshots, Times
<1>6. CASE \E t \in Expirable : ExpireSnapshots(t)
  BY <1>6 DEF ExpireSnapshots
<1>7. CASE \E p \in Late : AddPlan(p)
  BY <1>7 DEF AddPlan
<1>8. CASE \E p \in Removable : RemovePlan(p)
  BY <1>8 DEF RemovePlan
<1> QED
  BY <1>1, <1>2, <1>3, <1>4, <1>5, <1>6, <1>7, <1>8 DEF Environment

LEMMA FaultType ==
  ASSUME faults \in 0 .. MaxFaults, Fault \/ UNCHANGED faults
  PROVE  faults' \in 0 .. MaxFaults
BY ConstantsOK DEF ConstantsOK, Fault

\* Writing one plan's entry keeps the type of the status.
LEMMA StatusType ==
  ASSUME status \in [Plans -> PlanStatus], NEW p, NEW l \in BOOLEAN, NEW k \in BOOLEAN,
         NEW u \in {0, 1}, NEW d \in SUBSET Hooks
  PROVE  /\ [status EXCEPT ![p].lock = l] \in [Plans -> PlanStatus]
         /\ [status EXCEPT ![p].ups = u] \in [Plans -> PlanStatus]
         /\ [status EXCEPT ![p].known = k, ![p].ups = u] \in [Plans -> PlanStatus]
         /\ [status EXCEPT ![p].known = k, ![p].done = d] \in [Plans -> PlanStatus]
<1>1. [status EXCEPT ![p].lock = l] \in [Plans -> PlanStatus]
  BY DEF PlanStatus
<1>2. [status EXCEPT ![p].ups = u] \in [Plans -> PlanStatus]
  BY DEF PlanStatus
<1>3. [status EXCEPT ![p].known = k, ![p].ups = u] \in [Plans -> PlanStatus]
  BY DEF PlanStatus
<1>4. [status EXCEPT ![p].known = k, ![p].done = d] \in [Plans -> PlanStatus]
  BY DEF PlanStatus
<1> QED
  BY <1>1, <1>2, <1>3, <1>4

LEMMA TimesType == \A t \in Times : t \in 0 .. MaxTime
BY ConstantsOK DEF ConstantsOK, Times

LEMMA TargetsType == \A p \in Plans : TargetsOf(p) \in SUBSET Workloads
BY DEF TargetsOf, ClustersOf, OperatorsOf, Workloads

\* The references a validation writes are claims of the plan.
LEMMA RefsOfPlan ==
  \A p \in Plans : \A cs \in SUBSET ClustersOf(p) : \A t : RefsOf(cs, t) \subseteq ClaimsOf(p)
BY ConstantsOK DEF ConstantsOK, RefsOf, Matching, ListedClaims, ClustersOf, ClaimsOf

LEMMA RefsType ==
  \A p \in Plans : \A cs \in SUBSET ClustersOf(p) : \A t : RefsOf(cs, t) \in SUBSET PVCs
BY DEF RefsOf, Matching, ListedClaims

LEMMA CarriedType == ASSUME TypeInv, NEW p \in Plans PROVE CarriedLock(p) \in BOOLEAN
BY DEF TypeInv, TypeOK, ClusterTypeOK, PlanStatus, CarriedLock

\* The entry a failed validation writes: the lock carried over, a time (the one
\* requested, if one was), some of the plan's targets, some of its claims.
LEMMA FailedPlanStatus ==
  ASSUME NEW p \in Plans, NoLatestTime(p) \/ SnapshotInvalid(p)
  PROVE  \E t \in 0 .. MaxTime, listed \in SUBSET Workloads, refs \in SUBSET PVCs :
            /\ status' = Validated(p, t, listed, refs)
            /\ RequestedTime(p) # NoTime => t = RequestedTime(p)
            /\ refs \subseteq ClaimsOf(p)
<1>1. CASE NoLatestTime(p)
  <2>1. PICK cs \in SUBSET ClustersOf(p), c \in ClustersOf(p) : status' = Validated(p, NoTime, cs \cup {c}, {})
    BY <1>1 DEF NoLatestTime
  <2>2. cs \cup {c} \in SUBSET Workloads /\ {} \in SUBSET PVCs /\ {} \subseteq ClaimsOf(p)
    BY DEF ClustersOf, Workloads
  <2>3. NoTime \in 0 .. MaxTime
    BY ConstantsOK DEF ConstantsOK, NoTime
  <2>4. RequestedTime(p) = NoTime
    BY <1>1 DEF NoLatestTime
  <2> QED
    BY <2>1, <2>2, <2>3, <2>4
<1>2. CASE SnapshotInvalid(p)
  <2>1. PICK t \in Times, listed \in SUBSET TargetsOf(p), cs \in SUBSET ClustersOf(p) :
           ChosenTime(p, t) /\ status' = Validated(p, t, listed, RefsOf(cs, t))
    BY <1>2 DEF SnapshotInvalid, MatchedClusters, TargetsOf
  <2>2. RefsOf(cs, t) \in SUBSET PVCs /\ RefsOf(cs, t) \subseteq ClaimsOf(p)
    BY RefsType, RefsOfPlan
  <2>3. listed \in SUBSET Workloads
    BY TargetsType
  <2>4. RequestedTime(p) # NoTime => t = RequestedTime(p)
    BY <2>1 DEF ChosenTime
  <2> QED
    BY <2>1, <2>2, <2>3, <2>4, TimesType
<1> QED
  BY <1>1, <1>2

\* So does SetValidateRestorePlan.
LEMMA ValidatedType ==
  ASSUME TypeInv, NEW p \in Plans, NEW t \in 0 .. MaxTime, NEW listed \in SUBSET Workloads,
         NEW refs \in SUBSET PVCs
  PROVE  Validated(p, t, listed, refs) \in [Plans -> PlanStatus]
<1>1. CarriedLock(p) \in BOOLEAN
  BY CarriedType
<1> DEFINE entry == [status[p] EXCEPT !.known = TRUE, !.listed = listed, !.lock = CarriedLock(p),
                                      !.time = t, !.refs = refs]
<1>2. status \in [Plans -> PlanStatus]
  BY DEF TypeInv, TypeOK, ClusterTypeOK
<1>3. entry \in PlanStatus
  BY <1>1, <1>2 DEF PlanStatus
<1>4. Validated(p, t, listed, refs) = [status EXCEPT ![p] = entry]
  BY <1>2 DEF Validated, PlanStatus
<1> QED
  BY <1>2, <1>3, <1>4

\* Fetching, validating.
LEMMA TypeValidation ==
  ASSUME TypeInv, Validation
  PROVE  TypeInv'
<1> USE ConstantsOK DEF ConstantsOK, TypeInv, TypeOK, ClusterTypeOK, PlanOK, PlanAt, ScalingAt, RestoringAt,
        clusterVars, resourceVars, workloadVars, volumeVars, Locations, Phases
<1>1. CASE GetResource
  BY <1>1 DEF GetResource
<1>2. CASE SetInitStatusRestorePlan
  BY <1>2 DEF SetInitStatusRestorePlan, SetPhase
<1>3. CASE StartValidating
  BY <1>3 DEF StartValidating, SetPhase
<1>4. CASE EndValidation
  BY <1>4 DEF EndValidation, Return
<1>5. ASSUME NEW p \in Plans, ValidatePlan(p) PROVE TypeInv'
  <2>1. PICK t \in Times : status' = Validated(p, t, TargetsOf(p), RefsOf(ClustersOf(p), t))
    BY <1>5 DEF ValidatePlan
  <2>2. status' \in [Plans -> PlanStatus]
    BY <2>1, ValidatedType, TargetsType, RefsType, TimesType
  <2>3. seen' \in SUBSET Plans
    BY <1>5 DEF ValidatePlan, Refresh
  <2>4. todo' \in SUBSET Plans
    BY <1>5, <2>3 DEF ValidatePlan, RangeOver
  <2>5. carry' \in BOOLEAN
    BY <1>5, CarriedType DEF ValidatePlan
  <2> QED
    BY <1>5, <2>2, <2>3, <2>4, <2>5 DEF ValidatePlan
<1>6. ASSUME NEW p \in Plans, ValidatePlanFails(p) PROVE TypeInv'
  <2>1. PICK t \in 0 .. MaxTime, listed \in SUBSET Workloads, refs \in SUBSET PVCs :
           status' = Validated(p, t, listed, refs)
    BY <1>6, FailedPlanStatus DEF ValidatePlanFails
  <2>2. status' \in [Plans -> PlanStatus]
    BY <2>1, ValidatedType
  <2>3. seen' \in SUBSET Plans
    BY <1>6 DEF ValidatePlanFails, Refresh
  <2>4. todo' \in SUBSET Plans
    BY <1>6, <2>3 DEF ValidatePlanFails, RangeOver
  <2>5. carry' \in BOOLEAN
    BY <1>6, CarriedType DEF ValidatePlanFails
  <2>6. Fault \/ UNCHANGED faults
    BY <1>6 DEF ValidatePlanFails, NoLatestTime, SnapshotInvalid
  <2>7. faults' \in 0 .. MaxFaults
    BY <2>6, FaultType
  <2> QED
    BY <1>6, <2>2, <2>3, <2>4, <2>5, <2>7 DEF ValidatePlanFails
<1> QED
  BY <1>1, <1>2, <1>3, <1>4, <1>5, <1>6 DEF Validation

\* Hooks.
LEMMA TypeHooks ==
  ASSUME TypeInv, RunHooks
  PROVE  TypeInv'
<1> USE ConstantsOK DEF TypeInv, TypeOK, ClusterTypeOK, PlanOK, PlanAt, ScalingAt, RestoringAt,
        clusterVars, resourceVars, workloadVars, volumeVars, Locations, Phases
<1>1. CASE StartPreHooks \/ StartPostHooks
  BY <1>1 DEF StartPreHooks, StartPostHooks, SetPhase
<1>2. CASE EndPlanHooks \/ EndHooks
  BY <1>2 DEF EndPlanHooks, EndHooks
<1>3. ASSUME NEW p \in Plans, PlanHooks(p) PROVE TypeInv'
  BY <1>3 DEF PlanHooks, Pending, PreHooksOf, PostHooksOf, ConstantsOK
<1>4. ASSUME NEW h \in Hooks, HookSucceeds(h) PROVE TypeInv'
  <2>1. status[plan].done \cup {h} \in SUBSET Hooks
    BY <1>4 DEF HookSucceeds, PlanStatus
  <2>2. status' \in [Plans -> PlanStatus]
    BY <1>4, <2>1, StatusType DEF HookSucceeds
  <2>3. seen' \in SUBSET Plans
    BY <1>4 DEF HookSucceeds, Refresh
  <2> QED
    BY <1>4, <2>2, <2>3 DEF HookSucceeds
<1>5. ASSUME NEW h \in Hooks, HookFails(h) PROVE TypeInv'
  <2>1. status[plan].done \ {h} \in SUBSET Hooks
    BY <1>5 DEF HookFails, PlanStatus
  <2>2. status' \in [Plans -> PlanStatus]
    BY <1>5, <2>1, StatusType DEF HookFails
  <2>3. faults' \in 0 .. MaxFaults
    BY <1>5, FaultType DEF HookFails
  <2> QED
    BY <1>5, <2>2, <2>3 DEF HookFails, Return
<1>6. ASSUME NEW h \in Hooks, HookPasses(h) PROVE TypeInv'
  BY <1>6 DEF HookPasses
<1> QED
  BY <1>1, <1>2, <1>3, <1>4, <1>5, <1>6 DEF RunHooks

\* Scaling, in either direction.
LEMMA TypeScale ==
  ASSUME TypeInv, NEW dir \in {"down", "up"}, ScaleRestorePlan(dir)
  PROVE  TypeInv'
<1> USE ConstantsOK DEF TypeInv, TypeOK, ClusterTypeOK, PlanOK, PlanAt, ScalingAt, RestoringAt,
        clusterVars, resourceVars, workloadVars, volumeVars, Locations, Phases, TargetAt, WaitAt
<1>1. CASE StartScale(dir)
  BY <1>1 DEF StartScale, SetPhase
<1>2. CASE TargetScaled(dir)
  <2>1. plan \in Plans
    BY <1>2 DEF TargetScaled
  <2>2. CASE Return
    BY <1>2, <2>2 DEF TargetScaled, Return
  <2>3. CASE /\ work' = work \ {cur} /\ cur' = None /\ pc' = TargetAt[dir]
             /\ UNCHANGED <<seen, todo, plan, carry, lastErr>>
    <3>1. TargetAt[dir] \in Locations
      OBVIOUS
    <3> QED
      BY <1>2, <2>1, <2>3, <3>1 DEF TargetScaled
  <2> QED
    BY <1>2, <2>2, <2>3 DEF TargetScaled
<1>3. CASE PlanScaled(dir)
  <2>1. status' \in [Plans -> PlanStatus]
    BY <1>3, StatusType DEF PlanScaled
  <2>2. seen' \in SUBSET Plans
    BY <1>3 DEF PlanScaled, Refresh
  <2>3. todo' \in SUBSET Plans
    BY <1>3, <2>2 DEF PlanScaled, RangeOver
  <2> QED
    BY <1>3, <2>1, <2>2, <2>3 DEF PlanScaled
<1>4. CASE EndScale(dir)
  BY <1>4 DEF EndScale
<1>5. ASSUME NEW p \in Plans, PassPlan(dir, p) \/ ScalePlan(dir, p) PROVE TypeInv'
  <2>1. seen' \in SUBSET Plans
    BY <1>5 DEF PassPlan, ScalePlan, Refresh
  <2>2. todo' \in SUBSET Plans
    BY <1>5, <2>1 DEF PassPlan, ScalePlan, RangeOver
  <2>3. TargetsOf(p) \in SUBSET Workloads
    BY TargetsType
  <2>4. TargetAt[dir] \in Locations
    OBVIOUS
  <2>5. CASE PassPlan(dir, p)
    BY <2>5, <2>1, <2>2 DEF PassPlan
  <2>6. CASE ScalePlan(dir, p)
    BY <2>6, <2>1, <2>2, <2>3, <2>4 DEF ScalePlan
  <2> QED
    BY <1>5, <2>5, <2>6
<1>6. ASSUME NEW w \in Workloads, PatchReplicas(dir, w) PROVE TypeInv'
  BY <1>6 DEF PatchReplicas
<1>7. ASSUME NEW w \in Workloads, TargetFails(dir, w) PROVE TypeInv'
  <2> DEFINE failed == [status EXCEPT ![plan].ups = 0]
  <2>4. failed \in [Plans -> PlanStatus]
    BY StatusType
  <2>5. status' = failed \/ status' = status
    BY <1>7 DEF TargetFails
  <2>6. phase' \in Phases
    BY <1>7 DEF TargetFails
  <2>1. status' \in [Plans -> PlanStatus]
    BY <2>4, <2>5
  <2>2. Fault \/ UNCHANGED faults
    BY <1>7 DEF TargetFails
  <2>3. faults' \in 0 .. MaxFaults
    BY <2>2, FaultType
  <2> QED
    BY <1>7, <2>1, <2>3, <2>6 DEF TargetFails, Return
<1> QED
  BY <1>1, <1>2, <1>3, <1>4, <1>5, <1>6, <1>7 DEF ScaleRestorePlan

\* Restoring.
LEMMA TypeRestore ==
  ASSUME TypeInv, RestoreFromPlan
  PROVE  TypeInv'
<1> USE ConstantsOK DEF TypeInv, TypeOK, ClusterTypeOK, PlanOK, PlanAt, ScalingAt, RestoringAt,
        clusterVars, resourceVars, workloadVars, volumeVars, Locations, Phases
<1>1. CASE StartRestore \/ EndRestore
  BY <1>1 DEF StartRestore, EndRestore, SetPhase
<1>2. CASE PVCDeleted \/ NameVolume \/ PVCBound
  BY <1>2 DEF PVCDeleted, NameVolume, PVCBound
<1>3. CASE CreatePVC
  <2>1. plan \in Plans
    BY <1>3 DEF CreatePVC
  <2>2. status[plan].time \in 0 .. MaxTime + 1
    BY <2>1 DEF PlanStatus, ConstantsOK
  <2>3. claim' \in [PVCs -> ClaimStates] /\ data' \in [PVCs -> 0 .. MaxTime + 1]
    BY <1>3, <2>2 DEF CreatePVC, ClaimStates
  <2> QED
    BY <1>3, <2>1, <2>3 DEF CreatePVC
<1>4. CASE PVCFails
  <2>1. status' \in [Plans -> PlanStatus]
    BY <1>4, StatusType DEF PVCFails, FailedLock
  <2>2. Fault \/ UNCHANGED faults
    BY <1>4 DEF PVCFails
  <2>3. faults' \in 0 .. MaxFaults
    BY <2>2, FaultType
  <2> QED
    BY <1>4, <2>1, <2>3 DEF PVCFails, Return
<1>5. CASE LockPlan
  <2>1. status' \in [Plans -> PlanStatus]
    BY <1>5, StatusType DEF LockPlan
  <2>2. seen' \in SUBSET Plans
    BY <1>5 DEF LockPlan, Refresh
  <2> QED
    BY <1>5, <2>1, <2>2 DEF LockPlan
<1>6. ASSUME NEW p \in Plans, PassRestore(p) \/ RestorePlan(p) PROVE TypeInv'
  <2>1. seen' \in SUBSET Plans
    BY <1>6 DEF PassRestore, RestorePlan, Refresh
  <2>2. ClaimsToRestore(p) \in SUBSET PVCs
    BY DEF ClaimsToRestore, PlanStatus
  <2> QED
    BY <1>6, <2>1, <2>2 DEF PassRestore, RestorePlan
<1>7. ASSUME NEW v \in PVCs, DeletePVC(v) PROVE TypeInv'
  BY <1>7 DEF DeletePVC, ClaimStates
<1> QED
  BY <1>1, <1>2, <1>3, <1>4, <1>5, <1>6, <1>7 DEF RestoreFromPlan

LEMMA TypeStep == TypeInv /\ [Next]_vars => TypeInv'
<1> SUFFICES ASSUME TypeInv, [Next]_vars PROVE TypeInv'
  OBVIOUS
<1>1. CASE UNCHANGED vars
  BY <1>1 DEF TypeInv, TypeOK, ClusterTypeOK, PlanOK, vars, clusterVars, resourceVars,
     workloadVars, volumeVars, localVars
<1>2. CASE Abort
  <2>1. faults' \in 0 .. MaxFaults
    BY <1>2, FaultType DEF Abort, TypeInv, TypeOK
  <2> QED
    BY <1>2, <2>1 DEF Abort, Return, TypeInv, TypeOK, ClusterTypeOK, PlanOK, PlanAt, ScalingAt,
       RestoringAt, clusterVars, resourceVars, workloadVars, volumeVars, Locations
<1>3. CASE Complete
  BY <1>3 DEF Complete, Return, TypeInv, TypeOK, ClusterTypeOK, PlanOK, PlanAt, ScalingAt,
     RestoringAt, workloadVars, volumeVars, Locations, Phases
<1> QED
  BY <1>1, <1>2, <1>3, TypeValidation, TypeHooks, TypeScale, TypeRestore, TypeEnvironment
  DEF Next, Reconcile

\* Every variable of the model stays in its type.
THEOREM TypeCorrect == Spec => []TypeOK
<1>1. TypeInv => TypeOK
  BY DEF TypeInv
<1> QED
  BY <1>1, TypeInit, TypeStep, PTL DEF Spec

-----------------------------------------------------------------------------
(* What a step may do to the status entry of a plan.                       *)

Kept(q) == /\ status'[q].lock = status[q].lock
           /\ status'[q].time = status[q].time
           /\ status'[q].refs = status[q].refs
           /\ status'[q].listed = status[q].listed

EntryValidated(q) ==
    /\ pc = "validate" /\ q \in todo /\ pc' = "validate"
    /\ status'[q].known
    /\ status'[q].lock = CarriedLock(q)
    /\ RequestedTime(q) # NoTime => status'[q].time = RequestedTime(q)
    /\ status'[q].refs \subseteq ClaimsOf(q)
    /\ status'[q].done = status[q].done
    /\ status'[q].ups = status[q].ups

EntryHooked(q) ==
    /\ pc \in {"preHook", "postHook"} /\ q = plan
    /\ status'[q].known /\ Kept(q)
    /\ status'[q].ups = status[q].ups
    /\ \E h \in work : \/ pc' = pc /\ status'[q].done = status[q].done \cup {h}
                       \/ pc' = "idle" /\ status'[q].done = status[q].done \ {h}

EntryScaled(q) ==
    /\ pc \in ScalingAt /\ q = plan
    /\ status[q].known => status'[q].known
    /\ pc' # "idle" => status'[q].known
    /\ Kept(q)
    /\ status'[q].done = status[q].done
    /\ \/ pc' = "idle" /\ status'[q].ups = 0
       \/ pc = "downTarget" /\ pc' = "down" /\ work = {} /\ status'[q].ups = 0
       \/ pc = "upTarget" /\ pc' = "up" /\ work = {} /\ status'[q].ups = 1

EntryRestored(q) ==
    /\ pc \in RestoringAt /\ q = plan
    /\ status'[q].known = status[q].known
    /\ status'[q].time = status[q].time
    /\ status'[q].refs = status[q].refs
    /\ status'[q].listed = status[q].listed
    /\ status'[q].done = status[q].done
    /\ status'[q].ups = status[q].ups
    /\ \/ pc' = "idle" /\ ~status'[q].lock
       \/ pc = "pvc" /\ work = {} /\ pc' = "restore" /\ status'[q].lock

EntryChange(q) ==
    \/ status'[q] = status[q]
    \/ EntryValidated(q) \/ EntryHooked(q) \/ EntryScaled(q) \/ EntryRestored(q)

LEMMA EnvironmentKeepsStatus == Environment => UNCHANGED status
BY DEF Environment, StartPods, StopPods, RecreateClaim, FinishDelete, ProvisionVolume, BindClaim,
   OperatorRescales, TakeSnapshots, ExpireSnapshots, AddPlan, RemovePlan, resourceVars

LEMMA StatusFields ==
  ASSUME TypeInv, NEW q \in Plans
  PROVE  /\ status \in [Plans -> PlanStatus]
         /\ status[q] \in PlanStatus
BY DEF TypeInv, TypeOK, ClusterTypeOK

\* What SetValidateRestorePlan does to the entries.
LEMMA ValidatedEntry ==
  ASSUME TypeInv, NEW p \in Plans, NEW q \in Plans, NEW t, NEW listed, NEW refs
  PROVE  LET new == Validated(p, t, listed, refs) IN
         /\ p # q => new[q] = status[q]
         /\ /\ new[p].known /\ new[p].lock = CarriedLock(p) /\ new[p].time = t
            /\ new[p].refs = refs /\ new[p].listed = listed /\ new[p].done = status[p].done
            /\ new[p].ups = status[p].ups
BY StatusFields DEF Validated, PlanStatus

\* A validation, or one that fails, writes the entry of its plan and no other.
LEMMA ValidationEntry ==
  ASSUME TypeInv, NEW p \in Plans, ValidatePlan(p) \/ ValidatePlanFails(p)
  PROVE  EntryValidated(p) /\ \A q \in Plans \ {p} : status'[q] = status[q]
<1>1. CASE ValidatePlan(p)
  <2>1. PICK t \in Times : /\ ChosenTime(p, t)
                           /\ status' = Validated(p, t, TargetsOf(p), RefsOf(ClustersOf(p), t))
    BY <1>1 DEF ValidatePlan
  <2>2. RequestedTime(p) # NoTime => t = RequestedTime(p)
    BY <2>1 DEF ChosenTime
  <2>3. RefsOf(ClustersOf(p), t) \subseteq ClaimsOf(p)
    BY RefsOfPlan
  <2>4. pc = "validate" /\ p \in todo /\ pc' = "validate"
    BY <1>1 DEF ValidatePlan
  <2> QED
    BY <2>1, <2>2, <2>3, <2>4, ValidatedEntry DEF EntryValidated
<1>2. CASE ValidatePlanFails(p)
  <2>1. PICK t \in 0 .. MaxTime, listed \in SUBSET Workloads, refs \in SUBSET PVCs :
           /\ status' = Validated(p, t, listed, refs)
           /\ RequestedTime(p) # NoTime => t = RequestedTime(p)
           /\ refs \subseteq ClaimsOf(p)
    BY <1>2, FailedPlanStatus DEF ValidatePlanFails
  <2>2. pc = "validate" /\ p \in todo /\ pc' = "validate"
    BY <1>2 DEF ValidatePlanFails
  <2> QED
    BY <2>1, <2>2, ValidatedEntry DEF EntryValidated
<1> QED
  BY <1>1, <1>2

LEMMA EntryStep ==
  ASSUME TypeInv, [Next]_vars, NEW q \in Plans
  PROVE  EntryChange(q)
<1>1. CASE UNCHANGED status
  BY <1>1 DEF EntryChange
<1>2. ASSUME NEW p \in Plans, ValidatePlan(p) \/ ValidatePlanFails(p) PROVE EntryChange(q)
  BY <1>2, ValidationEntry DEF EntryChange
<1>4. ASSUME NEW h \in Hooks, HookSucceeds(h) PROVE EntryChange(q)
  <2>1. /\ plan \in Plans /\ h \in work /\ pc' = pc /\ pc \in {"preHook", "postHook"}
        /\ status' = [status EXCEPT ![plan].known = TRUE, ![plan].done = @ \cup {h}]
    BY <1>4 DEF HookSucceeds, TypeInv, PlanOK, PlanAt
  <2>2. q # plan => status'[q] = status[q]
    BY <2>1, StatusFields
  <2>3. /\ status'[plan].known /\ status'[plan].done = status[plan].done \cup {h}
        /\ status'[plan].ups = status[plan].ups
        /\ status'[plan].lock = status[plan].lock /\ status'[plan].time = status[plan].time
        /\ status'[plan].refs = status[plan].refs /\ status'[plan].listed = status[plan].listed
    BY <2>1, StatusFields DEF PlanStatus
  <2>4. CASE q = plan
    <3>1. EntryHooked(plan)
      BY <2>1, <2>3 DEF EntryHooked, Kept
    <3> QED
      BY <2>4, <3>1 DEF EntryChange
  <2> QED
    BY <2>2, <2>4 DEF EntryChange
<1>5. ASSUME NEW h \in Hooks, HookFails(h) PROVE EntryChange(q)
  BY <1>5, StatusFields DEF HookFails, PlanStatus, Return, EntryChange, EntryHooked, Kept
<1>6. ASSUME NEW dir \in {"down", "up"}, NEW w \in Workloads, TargetFails(dir, w) PROVE EntryChange(q)
  <2>1. pc \in ScalingAt
    BY <1>6 DEF TargetFails, TargetAt, WaitAt, ScalingAt
  <2>2. CASE UNCHANGED status
    BY <2>2, <1>1
  <2>3. CASE status' = [status EXCEPT ![plan].ups = 0]
    <3>1. plan \in Plans /\ pc' = "idle"
      BY <1>6, <2>1 DEF TargetFails, Return, TypeInv, PlanOK, PlanAt
    <3> QED
      BY <2>1, <2>3, <3>1, StatusFields DEF PlanStatus, EntryChange, EntryScaled, Kept
  <2> QED
    BY <1>6, <2>2, <2>3 DEF TargetFails
<1>7. ASSUME NEW dir \in {"down", "up"}, PlanScaled(dir) PROVE EntryChange(q)
  <2>1. /\ pc \in ScalingAt
        /\ \/ pc = "downTarget" /\ pc' = "down" /\ dir = "down"
           \/ pc = "upTarget" /\ pc' = "up" /\ dir = "up"
    BY <1>7 DEF PlanScaled, TargetAt, ScalingAt
  <2> QED
    BY <1>7, <2>1, StatusFields DEF PlanScaled, PlanStatus, EntryChange, EntryScaled, Kept
<1>8. CASE PVCFails
  BY <1>8, StatusFields DEF PVCFails, FailedLock, PlanStatus, Return, EntryChange, EntryRestored
<1>9. CASE LockPlan
  BY <1>9, StatusFields DEF LockPlan, PlanStatus, RestoringAt, EntryChange, EntryRestored
<1>10. CASE UNCHANGED vars
  BY <1>10, <1>1 DEF vars, clusterVars, resourceVars
<1>11. CASE Environment
  BY <1>11, <1>1, EnvironmentKeepsStatus
<1>12. CASE Abort \/ Complete
  BY <1>12, <1>1 DEF Abort, Complete, clusterVars, resourceVars
<1>13. CASE Validation
  <2>1. CASE GetResource \/ EndValidation \/ SetInitStatusRestorePlan \/ StartValidating
    BY <2>1, <1>1 DEF GetResource, EndValidation, SetInitStatusRestorePlan, StartValidating,
       SetPhase, clusterVars, resourceVars
  <2> QED
    BY <1>13, <1>2, <2>1 DEF Validation
<1>14. CASE RunHooks
  <2>1. CASE StartPreHooks \/ StartPostHooks \/ EndPlanHooks \/ EndHooks \/ \E p \in Plans : PlanHooks(p)
    BY <2>1, <1>1 DEF StartPreHooks, StartPostHooks, EndPlanHooks, EndHooks, PlanHooks,
       SetPhase, clusterVars, resourceVars
  <2>2. CASE \E h \in Hooks : HookPasses(h)
    BY <2>2, <1>1 DEF HookPasses, clusterVars, resourceVars
  <2> QED
    BY <1>14, <1>4, <1>5, <2>1, <2>2 DEF RunHooks
<1>15. ASSUME NEW dir \in {"down", "up"}, ScaleRestorePlan(dir) PROVE EntryChange(q)
  <2>1. CASE StartScale(dir) \/ TargetScaled(dir) \/ EndScale(dir)
    BY <2>1, <1>1 DEF StartScale, TargetScaled, EndScale, SetPhase, clusterVars, resourceVars
  <2>2. CASE \E p \in Plans : PassPlan(dir, p) \/ ScalePlan(dir, p)
    BY <2>2, <1>1 DEF PassPlan, ScalePlan, clusterVars, resourceVars
  <2>3. CASE \E w \in Workloads : PatchReplicas(dir, w)
    BY <2>3, <1>1 DEF PatchReplicas, resourceVars
  <2> QED
    BY <1>15, <1>6, <1>7, <2>1, <2>2, <2>3 DEF ScaleRestorePlan
<1>16. CASE RestoreFromPlan
  <2>1. CASE StartRestore \/ PVCDeleted \/ CreatePVC \/ NameVolume \/ PVCBound \/ EndRestore
    BY <2>1, <1>1 DEF StartRestore, PVCDeleted, CreatePVC, NameVolume, PVCBound, EndRestore,
       SetPhase, clusterVars, resourceVars
  <2>2. CASE \E p \in Plans : PassRestore(p) \/ RestorePlan(p)
    BY <2>2, <1>1 DEF PassRestore, RestorePlan, clusterVars, resourceVars
  <2>3. CASE \E v \in PVCs : DeletePVC(v)
    BY <2>3, <1>1 DEF DeletePVC, resourceVars
  <2> QED
    BY <1>16, <1>8, <1>9, <2>1, <2>2, <2>3 DEF RestoreFromPlan
<1> QED
  BY <1>10, <1>11, <1>12, <1>13, <1>14, <1>15, <1>16 DEF Next, Reconcile

-----------------------------------------------------------------------------
(* The locals of the loops.                                                *)

LEMMA RefsStep == TypeInv /\ RefsOK /\ [Next]_vars => RefsOK'
BY EntryStep DEF RefsOK, ClaimsOf, EntryChange, EntryValidated, EntryHooked, EntryScaled,
   EntryRestored, Kept

LEMMA KnownStays == TypeInv /\ [Next]_vars => \A p \in Plans : status[p].known => status'[p].known
BY EntryStep DEF EntryChange, EntryValidated, EntryHooked, EntryScaled, EntryRestored

LEMMA ReturnLoop == Return => LoopOK'
BY DEF Return, LoopOK, PlanAt, ScalingAt, RestoringAt

LEMMA LoopValidation ==
  ASSUME TypeInv, LoopOK, Validation
  PROVE  LoopOK'
<1> USE DEF LoopOK, PlanAt, ScalingAt, RestoringAt
<1>1. CASE GetResource
  BY <1>1 DEF GetResource
<1>2. CASE SetInitStatusRestorePlan
  BY <1>2 DEF SetInitStatusRestorePlan, SetPhase
<1>3. CASE StartValidating
  BY <1>3 DEF StartValidating, SetPhase
<1>4. CASE EndValidation
  BY <1>4, ReturnLoop DEF EndValidation
<1>5. ASSUME NEW p \in Plans, ValidatePlan(p) \/ ValidatePlanFails(p) PROVE LoopOK'
  BY <1>5 DEF ValidatePlan, ValidatePlanFails, Refresh, RangeOver
<1> QED
  BY <1>1, <1>2, <1>3, <1>4, <1>5 DEF Validation

LEMMA LoopHooks ==
  ASSUME TypeInv, LoopOK, RunHooks
  PROVE  LoopOK'
<1> USE DEF LoopOK, PlanAt, ScalingAt, RestoringAt
<1>1. CASE StartPreHooks \/ StartPostHooks
  BY <1>1 DEF StartPreHooks, StartPostHooks, SetPhase
<1>2. CASE EndPlanHooks \/ EndHooks
  BY <1>2 DEF EndPlanHooks, EndHooks
<1>3. ASSUME NEW p \in Plans, PlanHooks(p) PROVE LoopOK'
  BY <1>3 DEF PlanHooks
<1>4. ASSUME NEW h \in Hooks, HookSucceeds(h) PROVE LoopOK'
  BY <1>4 DEF HookSucceeds, Refresh
<1>5. ASSUME NEW h \in Hooks, HookFails(h) PROVE LoopOK'
  BY <1>5, ReturnLoop DEF HookFails
<1>6. ASSUME NEW h \in Hooks, HookPasses(h) PROVE LoopOK'
  BY <1>6 DEF HookPasses, clusterVars, resourceVars
<1> QED
  BY <1>1, <1>2, <1>3, <1>4, <1>5, <1>6 DEF RunHooks

LEMMA LoopScale ==
  ASSUME TypeInv, LoopOK, NEW dir \in {"down", "up"}, ScaleRestorePlan(dir)
  PROVE  LoopOK'
<1> USE DEF LoopOK, PlanAt, ScalingAt, RestoringAt, TargetAt, WaitAt
<1>1. CASE StartScale(dir)
  BY <1>1 DEF StartScale, SetPhase
<1>2. CASE TargetScaled(dir)
  <2>1. CASE Return
    BY <2>1, ReturnLoop
  <2>2. CASE ~Return
    BY <1>2, <2>2 DEF TargetScaled
  <2> QED
    BY <2>1, <2>2
<1>3. CASE PlanScaled(dir)
  BY <1>3 DEF PlanScaled, Refresh, RangeOver
<1>4. CASE EndScale(dir)
  BY <1>4 DEF EndScale
<1>5. ASSUME NEW p \in Plans, PassPlan(dir, p) \/ ScalePlan(dir, p) PROVE LoopOK'
  BY <1>5 DEF PassPlan, ScalePlan, Refresh, RangeOver
<1>6. ASSUME NEW w \in Workloads, PatchReplicas(dir, w) PROVE LoopOK'
  <2>1. w \in work
    BY <1>6 DEF PatchReplicas, NextTargets
  <2> QED
    BY <1>6, <2>1 DEF PatchReplicas
<1>7. ASSUME NEW w \in Workloads, TargetFails(dir, w) PROVE LoopOK'
  BY <1>7, ReturnLoop DEF TargetFails
<1> QED
  BY <1>1, <1>2, <1>3, <1>4, <1>5, <1>6, <1>7 DEF ScaleRestorePlan

LEMMA LoopRestore ==
  ASSUME TypeInv, LoopOK, RefsOK, RestoreFromPlan,
         \A p \in Plans : status[p].known => status'[p].known
  PROVE  LoopOK'
<1> USE DEF LoopOK, PlanAt, ScalingAt, RestoringAt
<1>0. plan \in Plans \/ pc \notin RestoringAt
  BY DEF TypeInv, PlanOK
<1>1. CASE StartRestore
  BY <1>1 DEF StartRestore, SetPhase
<1>2. CASE PVCDeleted \/ CreatePVC \/ NameVolume \/ PVCBound \/ EndRestore
  BY <1>0, <1>2 DEF PVCDeleted, CreatePVC, NameVolume, PVCBound, EndRestore, clusterVars, resourceVars
<1>3. CASE PVCFails
  BY <1>3, ReturnLoop DEF PVCFails
<1>4. CASE LockPlan
  <2>1. todo \subseteq Plans
    BY DEF TypeInv, TypeOK
  <2> QED
    BY <1>4, <2>1 DEF LockPlan
<1>5. ASSUME NEW p \in Plans, PassRestore(p) PROVE LoopOK'
  BY <1>5 DEF PassRestore, clusterVars, resourceVars
<1>6. ASSUME NEW p \in Plans, RestorePlan(p) PROVE LoopOK'
  <2>1. ClaimsToRestore(p) \subseteq ClaimsOf(p)
    BY DEF ClaimsToRestore, RefsOK
  <2>2. work' \subseteq ClaimsOf(plan')
    BY <1>6, <2>1 DEF RestorePlan
  <2>3. pc' = "pvc" /\ plan' = p /\ status[p].known /\ status' = status /\ todo' \subseteq todo
    BY <1>6 DEF RestorePlan, clusterVars, resourceVars
  <2>4. \A q \in todo : status[q].known
    BY <1>6 DEF RestorePlan
  <2> QED
    BY <2>2, <2>3, <2>4
<1>7. ASSUME NEW v \in PVCs, DeletePVC(v) PROVE LoopOK'
  BY <1>0, <1>7 DEF DeletePVC, resourceVars
<1> QED
  BY <1>1, <1>2, <1>3, <1>4, <1>5, <1>6, <1>7 DEF RestoreFromPlan

LEMMA LoopStep == TypeInv /\ LoopOK /\ RefsOK /\ [Next]_vars => LoopOK'
<1> SUFFICES ASSUME TypeInv, LoopOK, RefsOK, [Next]_vars PROVE LoopOK'
  OBVIOUS
<1>1. CASE UNCHANGED <<localVars, status>>
  BY <1>1 DEF localVars, LoopOK
<1>2. CASE UNCHANGED vars
  BY <1>1, <1>2 DEF vars, clusterVars, resourceVars
<1>3. CASE Abort \/ Complete
  BY <1>3, ReturnLoop DEF Abort, Complete
<1>4. CASE Environment /\ UNCHANGED <<localVars, faults>>
  BY <1>1, <1>4, EnvironmentKeepsStatus
<1> QED
  BY <1>2, <1>3, <1>4, KnownStays, LoopValidation, LoopHooks, LoopScale, LoopRestore
  DEF Next, Reconcile

-----------------------------------------------------------------------------
(* The plans the resource has.                                             *)

\* A reconcile sees plans the resource has or had when it looked.
LEMMA SeenStep ==
  ASSUME TypeInv, [Next]_vars
  PROVE  /\ seen' \subseteq seen \cup spec
         /\ pc' # "idle" => IF pc = "idle" THEN spec \subseteq seen' ELSE seen \subseteq seen'
         /\ spec \ Removable \subseteq spec'
<1> DEFINE Goal == /\ seen' \subseteq seen \cup spec
                   /\ pc' # "idle" => IF pc = "idle" THEN spec \subseteq seen' ELSE seen \subseteq seen'
                   /\ spec \ Removable \subseteq spec'
<1>1. CASE Return /\ UNCHANGED spec
  BY <1>1 DEF Return
<1>2. CASE UNCHANGED <<seen, spec>> /\ pc # "idle"
  BY <1>2
<1>3. CASE Refresh(TRUE) /\ UNCHANGED spec /\ pc # "idle"
  BY <1>3 DEF Refresh
<1>4. CASE Refresh(FALSE) /\ UNCHANGED spec /\ pc # "idle"
  BY <1>4 DEF Refresh
<1>5. CASE Environment /\ UNCHANGED localVars
  BY <1>5 DEF Environment, StartPods, StopPods, RecreateClaim, FinishDelete, ProvisionVolume, BindClaim,
     OperatorRescales, TakeSnapshots, ExpireSnapshots, AddPlan, RemovePlan, resourceVars, localVars
<1>6. CASE UNCHANGED vars
  BY <1>6 DEF vars, clusterVars, resourceVars, localVars
<1>7. CASE Abort \/ Complete
  BY <1>1, <1>7 DEF Abort, Complete, clusterVars, resourceVars
<1>8. CASE Validation
  <2>1. CASE GetResource
    BY <2>1 DEF GetResource, clusterVars, resourceVars
  <2>2. CASE EndValidation
    BY <1>1, <1>2, <2>2 DEF EndValidation, clusterVars, resourceVars
  <2>3. CASE SetInitStatusRestorePlan \/ StartValidating
    BY <2>3 DEF SetInitStatusRestorePlan, StartValidating, SetPhase
  <2>4. CASE \E p \in Plans : ValidatePlan(p) \/ ValidatePlanFails(p)
    BY <2>4 DEF ValidatePlan, ValidatePlanFails, Refresh
  <2> QED
    BY <1>8, <2>1, <2>2, <2>3, <2>4 DEF Validation
<1>9. CASE RunHooks
  <2>1. CASE StartPreHooks \/ StartPostHooks
    BY <2>1 DEF StartPreHooks, StartPostHooks, SetPhase
  <2>2. CASE EndPlanHooks \/ EndHooks \/ \E p \in Plans : PlanHooks(p)
    BY <1>2, <2>2 DEF EndPlanHooks, EndHooks, PlanHooks, clusterVars, resourceVars
  <2>3. CASE \E h \in Hooks : HookSucceeds(h)
    BY <1>3, <2>3 DEF HookSucceeds
  <2>4. CASE \E h \in Hooks : HookFails(h)
    BY <1>1, <2>4 DEF HookFails
  <2>5. CASE \E h \in Hooks : HookPasses(h)
    BY <1>2, <2>5 DEF HookPasses, clusterVars, resourceVars
  <2> QED
    BY <1>9, <2>1, <2>2, <2>3, <2>4, <2>5 DEF RunHooks
<1>10. ASSUME NEW dir \in {"down", "up"}, ScaleRestorePlan(dir) PROVE Goal
  <2> USE DEF TargetAt, WaitAt
  <2>1. CASE StartScale(dir)
    BY <2>1 DEF StartScale, SetPhase
  <2>2. CASE TargetScaled(dir)
    BY <1>1, <1>2, <2>2 DEF TargetScaled, clusterVars, resourceVars
  <2>3. CASE PlanScaled(dir)
    BY <2>3 DEF PlanScaled, Refresh
  <2>4. CASE EndScale(dir)
    BY <1>2, <2>4 DEF EndScale, clusterVars, resourceVars
  <2>5. CASE \E p \in Plans : PassPlan(dir, p) \/ ScalePlan(dir, p)
    BY <1>4, <2>5 DEF PassPlan, ScalePlan, clusterVars, resourceVars
  <2>6. CASE \E w \in Workloads : PatchReplicas(dir, w)
    BY <1>2, <2>6 DEF PatchReplicas, resourceVars
  <2>7. CASE \E w \in Workloads : TargetFails(dir, w)
    BY <1>1, <2>7 DEF TargetFails
  <2> QED
    BY <1>10, <2>1, <2>2, <2>3, <2>4, <2>5, <2>6, <2>7 DEF ScaleRestorePlan
<1>11. CASE RestoreFromPlan
  <2>1. CASE StartRestore
    BY <2>1 DEF StartRestore, SetPhase
  <2>2. CASE PVCDeleted \/ CreatePVC \/ NameVolume \/ PVCBound \/ EndRestore
    BY <1>2, <2>2 DEF PVCDeleted, CreatePVC, NameVolume, PVCBound, EndRestore, clusterVars, resourceVars
  <2>3. CASE PVCFails
    BY <1>1, <2>3 DEF PVCFails
  <2>4. CASE LockPlan
    BY <2>4 DEF LockPlan, Refresh
  <2>5. CASE \E p \in Plans : PassRestore(p) \/ RestorePlan(p)
    BY <1>4, <2>5 DEF PassRestore, RestorePlan, clusterVars, resourceVars
  <2>6. CASE \E v \in PVCs : DeletePVC(v)
    BY <1>2, <2>6 DEF DeletePVC, resourceVars
  <2> QED
    BY <1>11, <2>1, <2>2, <2>3, <2>4, <2>5, <2>6 DEF RestoreFromPlan
<1> QED
  BY <1>5, <1>6, <1>7, <1>8, <1>9, <1>10, <1>11 DEF Next, Reconcile

\* An entry appears only for a plan the reconcile has.
LEMMA KnownStep == TypeInv /\ LoopOK /\ KnownOK /\ [Next]_vars => KnownOK'
<1> SUFFICES ASSUME TypeInv, LoopOK, KnownOK, [Next]_vars, NEW p \in Plans \ Removable
             PROVE  /\ p \in seen' => p \in spec'
                    /\ status'[p].known => p \in spec' /\ (pc' # "idle" => p \in seen')
  BY DEF KnownOK
<1>1. p \in seen' => p \in spec'
  BY SeenStep DEF KnownOK
<1>2. status'[p].known => status[p].known \/ (p \in seen /\ pc # "idle")
  BY EntryStep DEF EntryChange, EntryValidated, EntryHooked, EntryScaled, EntryRestored,
     LoopOK, PlanAt, ScalingAt, RestoringAt
<1>3. status'[p].known => p \in spec /\ (pc # "idle" => p \in seen)
  BY <1>2 DEF KnownOK
<1> QED
  BY <1>1, <1>3, SeenStep

-----------------------------------------------------------------------------
(* Scaled down while restoring.                                            *)

\* The parts of a plan are disjoint.
LEMMA Parts ==
  /\ \A c \in Clusters : PlanOf[c] \in Plans /\ c \notin Operators
  /\ \A p \in Plans : TargetsOf(p) = ClustersOf(p) \cup OperatorsOf(p)
  /\ \A p \in Plans : ClustersOf(p) \subseteq Clusters /\ OperatorsOf(p) \subseteq Operators
  /\ \A p \in Plans : \A c \in ClustersOf(p) : PlanOf[c] = p
BY ConstantsOK DEF ConstantsOK, TargetsOf, ClustersOf, OperatorsOf, Workloads

\* A stopped workload stays so while the environment moves, if no operator of
\* its plan has pods.
LEMMA StoppedEnvironment ==
  ASSUME TypeInv, Environment, NEW w \in Workloads, Stopped(w),
         w \in Clusters => \A o \in OperatorsOf(PlanOf[w]) : ~pods[o]
  PROVE  Stopped(w)'
<1> USE DEF Stopped, TypeInv, TypeOK, ClusterTypeOK
<1>1. CASE \E x \in Workloads : StartPods(x) \/ StopPods(x)
  BY <1>1 DEF StartPods, StopPods
<1>2. CASE \E c \in Clusters : OperatorRescales(c)
  BY <1>2, Parts DEF OperatorRescales
<1>3. CASE UNCHANGED workloadVars
  BY <1>3 DEF workloadVars
<1>4. CASE \E v \in PVCs : RecreateClaim(v) \/ FinishDelete(v) \/ ProvisionVolume(v) \/ BindClaim(v)
  BY <1>3, <1>4 DEF RecreateClaim, FinishDelete, ProvisionVolume, BindClaim
<1>5. CASE (\E p \in Plans : TakeSnapshots(p)) \/ (\E t \in Expirable : ExpireSnapshots(t))
  BY <1>3, <1>5 DEF TakeSnapshots, ExpireSnapshots
<1>6. CASE (\E p \in Late : AddPlan(p)) \/ (\E p \in Removable : RemovePlan(p))
  BY <1>3, <1>6 DEF AddPlan, RemovePlan
<1> QED
  BY <1>1, <1>2, <1>4, <1>5, <1>6 DEF Environment

LEMMA OffEnvironment ==
  ASSUME TypeInv, Environment, NEW w \in Workloads, ~on[w],
         w \in Clusters => \A o \in OperatorsOf(PlanOf[w]) : ~pods[o]
  PROVE  ~on'[w]
<1>1. CASE \E c \in Clusters : OperatorRescales(c)
  BY <1>1, Parts DEF OperatorRescales, TypeInv, TypeOK, ClusterTypeOK
<1>2. CASE UNCHANGED on
  BY <1>2
<1> QED
  BY <1>1, <1>2 DEF Environment, StartPods, StopPods, RecreateClaim, FinishDelete, ProvisionVolume,
     BindClaim, TakeSnapshots, ExpireSnapshots, AddPlan, RemovePlan, workloadVars

\* The operators of a plan that is waited for have no pods once stopped.
LEMMA NoOperatorPods ==
  ASSUME NEW p \in Plans, Waits(p), NEW o \in OperatorsOf(p), Stopped(o)
  PROVE  ~pods[o]
BY DEF Waits, Stopped

LEMMA QuietEnvironment ==
  ASSUME TypeInv, Environment, NEW p \in Plans, Quiet(p)
  PROVE  Quiet(p)'
<1> SUFFICES ASSUME Waits(p), NEW w \in TargetsOf(p) PROVE Stopped(w)'
  BY DEF Quiet, Waits, TargetsOf, ClustersOf, OperatorsOf
<1>1. w \in Workloads /\ Stopped(w)
  BY TargetsType DEF Quiet
<1>2. \A o \in OperatorsOf(p) : ~pods[o]
  BY NoOperatorPods, Parts DEF Quiet
<1>3. w \in Clusters => PlanOf[w] = p
  BY Parts DEF TargetsOf, ClustersOf, OperatorsOf
<1> QED
  BY <1>1, <1>2, <1>3, StoppedEnvironment

LEMMA DownEnvironment ==
  ASSUME TypeInv, DownInv, Environment, UNCHANGED localVars
  PROVE  PlansDown' /\ TargetsDown' /\ RestoreUnlocked'
<1>1. UNCHANGED <<status, pc, todo, plan, work, cur>>
  BY EnvironmentKeepsStatus DEF localVars
<1>2. PlansDown'
  BY <1>1, QuietEnvironment DEF DownInv, PlansDown, Due
<1>3. TargetsDown'
  <2> SUFFICES ASSUME pc \in {"downTarget", "downWait"}, Waits(plan)
               PROVE  /\ \A w \in TargetsOf(plan) \ work : Stopped(w)'
                      /\ ~(ClustersOf(plan) \subseteq work) => work \cap Operators = {}
                      /\ pc = "downWait" => ~on'[cur] /\ (cur \in Clusters => work \cap Operators = {})
    BY <1>1 DEF TargetsDown, Waits, TargetsOf, ClustersOf, OperatorsOf
  <2>1. plan \in Plans
    BY DEF TypeInv, PlanOK, PlanAt, ScalingAt
  <2>2. /\ \A w \in TargetsOf(plan) \ work : Stopped(w)
        /\ ~(ClustersOf(plan) \subseteq work) => work \cap Operators = {}
        /\ pc = "downWait" => ~on[cur] /\ (cur \in Clusters => work \cap Operators = {})
    BY DEF DownInv, TargetsDown
  <2>3. work \cap Operators = {} => \A o \in OperatorsOf(plan) : ~pods[o]
    BY <2>1, <2>2, NoOperatorPods, Parts
  <2>4. ASSUME NEW w \in TargetsOf(plan) \ work PROVE Stopped(w)'
    <3>1. w \in Workloads
      BY <2>1, TargetsType
    <3>2. w \in Clusters => PlanOf[w] = plan /\ ~(ClustersOf(plan) \subseteq work)
      BY <2>1, Parts
    <3> QED
      BY <2>2, <2>3, <3>1, <3>2, StoppedEnvironment
  <2>5. ASSUME pc = "downWait" PROVE ~on'[cur]
    <3>1. cur \in TargetsOf(plan)
      BY <2>5 DEF DownInv, LoopOK, ScalingAt
    <3>2. cur \in Workloads
      BY <2>1, <3>1, TargetsType
    <3>3. cur \in Clusters => PlanOf[cur] = plan /\ \A o \in OperatorsOf(plan) : ~pods[o]
      BY <2>1, <2>2, <2>3, <2>5, <3>1, Parts
    <3> QED
      BY <2>2, <2>5, <3>2, <3>3, OffEnvironment
  <2> QED
    BY <2>2, <2>4, <2>5
<1>4. RestoreUnlocked'
  BY <1>1 DEF DownInv, RestoreUnlocked
<1> QED
  BY <1>2, <1>3, <1>4

DownParts == PlansDown /\ TargetsDown /\ RestoreUnlocked

DownAt == {"down", "downTarget", "downWait", "setRestoring", "restore"} \cup RestoringAt

\* Elsewhere nothing is claimed.
LEMMA DownElsewhere == pc' \notin DownAt => DownParts'
BY DEF DownAt, DownParts, PlansDown, TargetsDown, RestoreUnlocked

\* What is claimed of a plan depends on its workloads only.
LEMMA QuietFrame == UNCHANGED workloadVars => \A p \in Plans : Quiet(p) => Quiet(p)'
BY DEF workloadVars, Quiet, Waits, Stopped, TargetsOf, ClustersOf, OperatorsOf

LEMMA DownScale ==
  ASSUME TypeInv, DownInv, ScaleRestorePlan("down")
  PROVE  DownParts'
<1> USE DEF DownInv, TargetAt, WaitAt
<1>0. plan \in Plans \/ pc \notin PlanAt
  BY DEF TypeInv, PlanOK
<1>1. CASE StartScale("down")
  <2>1. /\ pc' = "down" /\ todo' = seen' /\ seen \subseteq seen' /\ pc # "idle"
        /\ UNCHANGED <<status, workloadVars>>
    BY <1>1 DEF StartScale, SetPhase
  <2>2. \A p \in Plans \ Removable : Due(p)' => p \in todo'
    BY <2>1 DEF KnownOK, Due
  <2> QED
    BY <2>1, <2>2 DEF DownParts, PlansDown, TargetsDown, RestoreUnlocked, RestoringAt
<1>2. ASSUME NEW p \in Plans, PassPlan("down", p) PROVE DownParts'
  <2>1. /\ pc = "down" /\ pc' = "down" /\ todo \ {p} \subseteq todo' /\ status[p].lock
        /\ UNCHANGED <<status, workloadVars>>
    BY <1>2 DEF PassPlan, SkipScale, RangeOver, clusterVars, resourceVars
  <2>2. PlansDown'
    BY <2>1, QuietFrame DEF PlansDown, Due, RestoringAt
  <2> QED
    BY <2>1, <2>2 DEF DownParts, TargetsDown, RestoreUnlocked, RestoringAt
<1>3. ASSUME NEW p \in Plans, ScalePlan("down", p) PROVE DownParts'
  <2>1. /\ pc = "down" /\ pc' = "downTarget" /\ todo \ {p} \subseteq todo' /\ plan' = p
        /\ work' = TargetsOf(p)
        /\ UNCHANGED <<status, workloadVars>>
    BY <1>3 DEF ScalePlan, RangeOver, clusterVars, resourceVars
  <2>2. PlansDown'
    BY <2>1, QuietFrame DEF PlansDown, Due, RestoringAt
  <2>3. ClustersOf(plan)' \subseteq work' /\ TargetsOf(plan)' \ work' = {}
    BY <2>1 DEF TargetsOf, ClustersOf, OperatorsOf
  <2>4. TargetsDown'
    BY <2>1, <2>3 DEF TargetsDown
  <2> QED
    BY <2>1, <2>2, <2>4 DEF DownParts, RestoreUnlocked, RestoringAt
<1>4. ASSUME NEW w \in Workloads, PatchReplicas("down", w) PROVE DownParts'
  <2>1. /\ pc = "downTarget" /\ pc' = "downWait" /\ w \in NextTargets("down")
        /\ on' = [on EXCEPT ![w] = FALSE] /\ cur' = w
        /\ UNCHANGED <<status, pods, todo, plan, work>>
    BY <1>4 DEF PatchReplicas, resourceVars
  <2>2. on \in [Workloads -> BOOLEAN]
    BY DEF TypeInv, TypeOK, ClusterTypeOK
  <2>3. \A x \in Workloads : Stopped(x) => Stopped(x)'
    BY <2>1, <2>2 DEF Stopped
  <2>4. \A p \in Plans : Quiet(p) => Quiet(p)'
    BY <2>3, TargetsType DEF Quiet, Waits, TargetsOf, ClustersOf, OperatorsOf
  <2>5. PlansDown'
    BY <2>1, <2>4 DEF PlansDown, Due, RestoringAt
  <2>6. TargetsOf(plan)' = TargetsOf(plan) /\ ClustersOf(plan)' = ClustersOf(plan)
        /\ Waits(plan)' = Waits(plan) /\ TargetsOf(plan) \subseteq Workloads
    BY <1>0, <2>1, TargetsType DEF TargetsOf, ClustersOf, OperatorsOf, Waits, PlanAt, ScalingAt
  <2>7. w \in Clusters => work \cap Operators = {}
    BY <2>1, Parts DEF NextTargets
  <2>8. ~on'[w]
    BY <2>1, <2>2
  <2>9. TargetsDown'
    BY <2>1, <2>3, <2>6, <2>7, <2>8 DEF TargetsDown
  <2> QED
    BY <2>1, <2>5, <2>9 DEF DownParts, RestoreUnlocked, RestoringAt
<1>5. CASE TargetScaled("down")
  <2>1. CASE Return
    BY <2>1, DownElsewhere DEF Return, DownAt, RestoringAt
  <2>2. CASE ~Return
    <3>1. /\ pc = "downWait" /\ pc' = "downTarget" /\ work' = work \ {cur}
          /\ UNCHANGED <<status, workloadVars, todo, plan>>
          /\ pods[cur] = FALSE \/ cur \in SkipWaitDown
      BY <1>5, <2>2 DEF TargetScaled, SkipWait, clusterVars, resourceVars
    <3>2. PlansDown'
      BY <3>1, QuietFrame DEF PlansDown, Due, RestoringAt
    <3>3. TargetsOf(plan)' = TargetsOf(plan) /\ ClustersOf(plan)' = ClustersOf(plan)
          /\ Waits(plan)' = Waits(plan)
      BY <3>1 DEF TargetsOf, ClustersOf, OperatorsOf, Waits
    <3>4. \A x : Stopped(x)' = Stopped(x)
      BY <3>1 DEF Stopped, workloadVars
    <3>5. Waits(plan) => Stopped(cur)
      BY <3>1 DEF TargetsDown, Stopped
    <3>6. ClustersOf(plan) \subseteq Clusters
      BY DEF ClustersOf
    <3>7. TargetsDown'
      BY <3>1, <3>3, <3>4, <3>5, <3>6 DEF TargetsDown
    <3> QED
      BY <3>1, <3>2, <3>7 DEF DownParts, RestoreUnlocked, RestoringAt
  <2> QED
    BY <2>1, <2>2
<1>6. ASSUME NEW w \in Workloads, TargetFails("down", w) PROVE DownParts'
  BY <1>6, DownElsewhere DEF TargetFails, Return, DownAt, RestoringAt
<1>7. CASE PlanScaled("down")
  <2>1. /\ pc = "downTarget" /\ pc' = "down" /\ work = {} /\ todo \subseteq todo'
        /\ UNCHANGED workloadVars
        /\ status' = [status EXCEPT ![plan].known = TRUE, ![plan].ups = 0]
    BY <1>7 DEF PlanScaled, RangeOver
  <2>2. Quiet(plan)
    BY <2>1 DEF TargetsDown, Quiet
  <2>3. \A p \in Plans \ Removable : p # plan /\ Due(p)' => Due(p)
    BY <2>1, StatusFields DEF Due
  <2>4. PlansDown'
    BY <1>0, <2>1, <2>2, <2>3, QuietFrame DEF PlansDown, RestoringAt, PlanAt, ScalingAt
  <2> QED
    BY <2>1, <2>4 DEF DownParts, TargetsDown, RestoreUnlocked, RestoringAt
<1>8. CASE EndScale("down")
  <2>1. pc = "down" /\ pc' = "setRestoring" /\ todo = {} /\ UNCHANGED <<status, workloadVars>>
    BY <1>8 DEF EndScale, clusterVars, resourceVars
  <2>2. PlansDown'
    BY <2>1, QuietFrame DEF PlansDown, Due, RestoringAt
  <2> QED
    BY <2>1, <2>2 DEF DownParts, TargetsDown, RestoreUnlocked, RestoringAt
<1> QED
  BY <1>1, <1>2, <1>3, <1>4, <1>5, <1>6, <1>7, <1>8 DEF ScaleRestorePlan

LEMMA DownRestore ==
  ASSUME TypeInv, DownInv, RestoreFromPlan
  PROVE  DownParts'
<1> USE DEF DownInv
<1>0. plan \in Plans \/ pc \notin RestoringAt
  BY DEF TypeInv, PlanOK, PlanAt
<1>1. UNCHANGED workloadVars
  BY DEF RestoreFromPlan, StartRestore, PVCDeleted, CreatePVC, NameVolume, PVCBound, PVCFails, LockPlan,
     EndRestore, PassRestore, RestorePlan, DeletePVC, SetPhase, clusterVars
<1>2. CASE pc' \in {"idle", "setUp"}
  BY <1>2, DownElsewhere DEF DownAt, RestoringAt
<1>3. ASSUME pc' \in {"restore"} \cup RestoringAt,
             pc \in {"setRestoring", "restore"} \cup RestoringAt,
             \A p \in Plans : Due(p)' => Due(p),
             RestoreUnlocked'
      PROVE  DownParts'
  BY <1>1, <1>3, QuietFrame DEF DownParts, PlansDown, TargetsDown, RestoringAt
<1>4. CASE UNCHANGED <<status, plan>> /\ pc \in RestoringAt /\ pc' \in RestoringAt
  BY <1>3, <1>4 DEF Due, RestoreUnlocked
<1>5. CASE UNCHANGED status /\ pc \in {"setRestoring", "restore"} /\ pc' = "restore"
  BY <1>3, <1>5 DEF Due, RestoreUnlocked, RestoringAt
<1>6. CASE StartRestore
  BY <1>5, <1>6 DEF StartRestore, SetPhase
<1>7. CASE PVCDeleted \/ CreatePVC \/ NameVolume \/ PVCBound
  BY <1>4, <1>7 DEF PVCDeleted, CreatePVC, NameVolume, PVCBound, RestoringAt, clusterVars, resourceVars
<1>8. CASE PVCFails \/ EndRestore
  BY <1>2, <1>8 DEF PVCFails, EndRestore, Return
<1>9. CASE LockPlan
  <2>1. pc = "pvc" /\ pc' = "restore" /\ status' = [status EXCEPT ![plan].lock = TRUE]
    BY <1>9 DEF LockPlan
  <2>2. \A p \in Plans : Due(p)' => Due(p)
    BY <1>0, <2>1, StatusFields DEF Due, RestoringAt, PlanStatus
  <2> QED
    BY <1>3, <2>1, <2>2 DEF RestoreUnlocked, RestoringAt
<1>10. ASSUME NEW p \in Plans, PassRestore(p) PROVE DownParts'
  BY <1>5, <1>10 DEF PassRestore, clusterVars, resourceVars
<1>11. ASSUME NEW p \in Plans, RestorePlan(p) PROVE DownParts'
  <2>1. /\ pc = "restore" /\ pc' = "pvc" /\ plan' = p /\ p \in todo /\ UNCHANGED status
        /\ ~SkipRestore(p)
    BY <1>11 DEF RestorePlan, clusterVars, resourceVars
  <2>2. p \notin Removable => p \in seen
    BY <2>1 DEF LoopOK, KnownOK
  <2>3. RestoreUnlocked'
    BY <2>1, <2>2 DEF RestoreUnlocked, SkipRestore
  <2> QED
    BY <1>3, <2>1, <2>3 DEF Due, RestoringAt
<1>12. ASSUME NEW v \in PVCs, DeletePVC(v) PROVE DownParts'
  BY <1>4, <1>12 DEF DeletePVC, RestoringAt, resourceVars
<1> QED
  BY <1>6, <1>7, <1>8, <1>9, <1>10, <1>11, <1>12 DEF RestoreFromPlan

LEMMA DownStep == TypeInv /\ DownInv /\ [Next]_vars => DownInv'
<1> SUFFICES ASSUME TypeInv, DownInv, [Next]_vars PROVE DownInv'
  OBVIOUS
<1>1. LoopOK' /\ KnownOK' /\ RefsOK'
  BY LoopStep, KnownStep, RefsStep DEF DownInv
<1>2. CASE UNCHANGED vars
  <2>1. UNCHANGED <<status, workloadVars, pc, todo, plan, work, cur>>
    BY <1>2 DEF vars, clusterVars, resourceVars, localVars
  <2>2. PlansDown'
    BY <2>1, QuietFrame DEF DownInv, PlansDown, Due
  <2>3. TargetsDown'
    BY <2>1 DEF DownInv, TargetsDown, Waits, Stopped, TargetsOf, ClustersOf, OperatorsOf, workloadVars
  <2>4. RestoreUnlocked'
    BY <2>1 DEF DownInv, RestoreUnlocked
  <2> QED
    BY <1>1, <2>2, <2>3, <2>4 DEF DownInv
<1>3. CASE Environment /\ UNCHANGED <<localVars, faults>>
  BY <1>1, <1>3, DownEnvironment DEF DownInv
<1>4. CASE Abort \/ Complete
  BY <1>1, <1>4, DownElsewhere DEF Abort, Complete, Return, DownAt, RestoringAt, DownInv, DownParts
<1>5. CASE Validation
  <2>1. pc' \notin DownAt
    BY <1>5 DEF Validation, GetResource, SetInitStatusRestorePlan, StartValidating, EndValidation,
       ValidatePlan, ValidatePlanFails, SetPhase, Return, DownAt, RestoringAt
  <2> QED
    BY <1>1, <2>1, DownElsewhere DEF DownInv, DownParts
<1>6. CASE RunHooks
  <2>1. pc' \notin DownAt
    BY <1>6 DEF RunHooks, StartPreHooks, StartPostHooks, EndPlanHooks, EndHooks, PlanHooks,
       HookSucceeds, HookFails, HookPasses, SetPhase, Return, DownAt, RestoringAt
  <2> QED
    BY <1>1, <2>1, DownElsewhere DEF DownInv, DownParts
<1>7. CASE ScaleRestorePlan("up")
  <2>1. pc' \notin DownAt
    BY <1>7 DEF ScaleRestorePlan, StartScale, TargetScaled, PlanScaled, EndScale, PassPlan, ScalePlan,
       PatchReplicas, TargetFails, TargetAt, WaitAt, SetPhase, Return, DownAt, RestoringAt
  <2> QED
    BY <1>1, <2>1, DownElsewhere DEF DownInv, DownParts
<1> QED
  BY <1>1, <1>2, <1>3, <1>4, <1>5, <1>6, <1>7, DownScale, DownRestore DEF Next, Reconcile, DownInv, DownParts

\* Only restorePVC deletes claims.
LEMMA OnlyDelete ==
  ASSUME TypeInv, [Next]_vars, NEW v \in PVCs, claim[v] # "terminating", claim'[v] = "terminating"
  PROVE  \E u \in PVCs : DeletePVC(u) /\ u = v
<1>0. claim \in [PVCs -> ClaimStates]
  BY DEF TypeInv, TypeOK, ClusterTypeOK
<1>1. claim' # claim
  OBVIOUS
<1>2. ~(UNCHANGED vars \/ Abort \/ Complete \/ Validation \/ RunHooks)
  BY <1>1 DEF vars, clusterVars, volumeVars, Abort, Complete, Validation, GetResource, SetInitStatusRestorePlan,
     StartValidating, EndValidation, ValidatePlan, ValidatePlanFails, SetPhase, RunHooks, StartPreHooks,
     StartPostHooks, EndPlanHooks, EndHooks, PlanHooks, HookSucceeds, HookFails, HookPasses
<1>3. ~(ScaleRestorePlan("down") \/ ScaleRestorePlan("up"))
  BY <1>1 DEF clusterVars, volumeVars, ScaleRestorePlan, StartScale, TargetScaled, PlanScaled, EndScale,
     PassPlan, ScalePlan, PatchReplicas, TargetFails, SetPhase
<1>4. ~Environment
  BY <1>0, <1>1 DEF Environment, StartPods, StopPods, RecreateClaim, FinishDelete, ProvisionVolume, BindClaim,
     OperatorRescales, TakeSnapshots, ExpireSnapshots, AddPlan, RemovePlan, volumeVars
<1>5. CASE RestoreFromPlan
  <2>1. CASE CreatePVC
    BY <1>0, <2>1 DEF CreatePVC
  <2>2. CASE \E u \in PVCs : DeletePVC(u)
    BY <1>0, <2>2 DEF DeletePVC
  <2> QED
    BY <1>1, <1>5, <2>1, <2>2 DEF RestoreFromPlan, StartRestore, PVCDeleted, NameVolume, PVCBound, PVCFails,
       LockPlan, EndRestore, PassRestore, RestorePlan, SetPhase, clusterVars, volumeVars
<1> QED
  BY <1>2, <1>3, <1>4, <1>5 DEF Next, Reconcile

LEMMA DownInit == Init => DownInv
BY DEF Init, ClusterInit, NoStatus, DownInv, LoopOK, KnownOK, RefsOK, PlansDown, TargetsDown,
   RestoreUnlocked, Due, PlanAt, ScalingAt, RestoringAt

LEMMA Invariant == Spec => [](TypeInv /\ DownInv)
BY TypeInit, TypeStep, DownInit, DownStep, PTL DEF Spec

\* While a claim of a plan is deleted and made anew, the plan's clusters and
\* operators stay scaled down, whatever fails, and whatever the user adds.
THEOREM RestoreWhileDown == Spec => []RestoreOnlyWhileDown
<1>1. TypeInv /\ DownInv => RestoreOnlyWhileDown
  <2> SUFFICES ASSUME TypeInv, DownInv, NEW p \in Plans \ Removable, plan = p, pc \in RestoringAt, Waits(p)
               PROVE  \A w \in TargetsOf(p) : Stopped(w)
    BY DEF RestoreOnlyWhileDown, Waits
  <2>1. Due(p)
    BY DEF DownInv, LoopOK, RestoreUnlocked, Due
  <2> QED
    BY <2>1 DEF DownInv, PlansDown, Quiet
<1> QED
  BY <1>1, Invariant, PTL

\* Once locked, a plan the resource keeps stays locked, keeps its restore point,
\* and has no claim deleted.
THEOREM LockedForGood == Spec => LockFinal
<1>1. TypeInv /\ DownInv /\ [Next]_vars => [LockIsFinal]_vars
  <2> SUFFICES ASSUME TypeInv, DownInv, [Next]_vars, NEW p \in Plans \ Removable, status[p].lock
               PROVE  /\ status'[p].lock
                      /\ status[p].time # NoTime => status'[p].time = status[p].time
                      /\ ~Deletes(p)
    BY DEF LockIsFinal
  <2>1. ~(pc \in RestoringAt /\ p = plan)
    BY DEF DownInv, RestoreUnlocked
  <2>2. EntryChange(p)
    BY EntryStep
  <2>3. status'[p].lock
    BY <2>1, <2>2 DEF EntryChange, EntryValidated, EntryHooked, EntryScaled, EntryRestored, Kept, CarriedLock
  <2>4. status[p].time # NoTime => status'[p].time = status[p].time
    BY <2>1, <2>2 DEF EntryChange, EntryValidated, EntryHooked, EntryScaled, EntryRestored, Kept, RequestedTime
  <2>5. ASSUME NEW v \in ClaimsOf(p), claim[v] # "terminating", claim'[v] = "terminating" PROVE FALSE
    <3>1. v \in PVCs /\ claim \in [PVCs -> ClaimStates]
      BY DEF ClaimsOf, TypeInv, TypeOK, ClusterTypeOK
    <3>2. PICK u \in PVCs : DeletePVC(u) /\ u = v
      BY <2>5, <3>1, OnlyDelete
    <3>3. pc \in RestoringAt /\ v \in ClaimsOf(plan) /\ plan \in Plans
      BY <3>2 DEF DeletePVC, RestoringAt, DownInv, LoopOK, TypeInv, PlanOK, PlanAt
    <3>4. plan = p
      BY <3>3 DEF ClaimsOf
    <3> QED
      BY <2>1, <3>3, <3>4
  <2> QED
    BY <2>3, <2>4, <2>5 DEF Deletes
<1>2. Spec => [][Next]_vars
  BY DEF Spec
<1> QED
  BY <1>1, <1>2, Invariant, PTL DEF LockFinal

-----------------------------------------------------------------------------
(* Pre-restore hooks first.                                                *)

LEMMA ListedScale ==
  ASSUME TypeInv, DownInv, ListedOK, ScaleRestorePlan("down")
  PROVE  pc' \in {"downTarget", "downWait"} => TargetsOf(plan') \subseteq work' \cup status'[plan'].listed
<1> USE DEF ListedOK, TargetAt, WaitAt
<1>1. CASE StartScale("down") \/ PlanScaled("down") \/ EndScale("down")
  BY <1>1 DEF StartScale, PlanScaled, EndScale, SetPhase
<1>2. CASE \E p \in Plans : PassPlan("down", p) \/ ScalePlan("down", p)
  BY <1>2 DEF PassPlan, ScalePlan
<1>3. CASE TargetScaled("down")
  <2>1. CASE Return
    BY <2>1 DEF Return
  <2>2. CASE ~Return
    BY <1>3, <2>2 DEF TargetScaled, clusterVars, resourceVars
  <2> QED
    BY <2>1, <2>2
<1>4. CASE \E w \in Workloads : PatchReplicas("down", w)
  BY <1>4 DEF PatchReplicas, resourceVars
<1>5. CASE \E w \in Workloads : TargetFails("down", w)
  BY <1>5 DEF TargetFails, Return
<1> QED
  BY <1>1, <1>2, <1>3, <1>4, <1>5 DEF ScaleRestorePlan

LEMMA ListedStep == TypeInv /\ DownInv /\ ListedOK /\ [Next]_vars => ListedOK'
<1> SUFFICES ASSUME TypeInv, DownInv, ListedOK, [Next]_vars PROVE ListedOK'
  OBVIOUS
<1>1. \A p \in Plans : status'[p].listed # {} => status'[p].known
  BY EntryStep DEF ListedOK, EntryChange, EntryValidated, EntryHooked, EntryScaled, EntryRestored, Kept
<1> SUFFICES ASSUME pc' \in {"downTarget", "downWait"}
             PROVE  TargetsOf(plan') \subseteq work' \cup status'[plan'].listed
  BY <1>1 DEF ListedOK, TargetsOf, ClustersOf, OperatorsOf
<1>2. CASE UNCHANGED <<status, localVars>>
  BY <1>2 DEF ListedOK, localVars
<1>3. CASE UNCHANGED vars
  BY <1>2, <1>3 DEF vars, clusterVars, resourceVars
<1>4. CASE Environment /\ UNCHANGED <<localVars, faults>>
  BY <1>2, <1>4, EnvironmentKeepsStatus
<1>5. CASE Abort \/ Complete
  BY <1>5 DEF Abort, Complete, Return
<1>6. CASE Validation
  BY <1>6 DEF Validation, GetResource, SetInitStatusRestorePlan, StartValidating, EndValidation,
     ValidatePlan, ValidatePlanFails, SetPhase, Return
<1>7. CASE RunHooks
  BY <1>7 DEF RunHooks, StartPreHooks, StartPostHooks, EndPlanHooks, EndHooks, PlanHooks,
     HookSucceeds, HookFails, HookPasses, SetPhase, Return
<1>8. CASE ScaleRestorePlan("up")
  BY <1>8 DEF ScaleRestorePlan, StartScale, TargetScaled, PlanScaled, EndScale, PassPlan, ScalePlan,
     PatchReplicas, TargetFails, TargetAt, WaitAt, SetPhase, Return
<1>9. CASE RestoreFromPlan
  BY <1>9 DEF RestoreFromPlan, StartRestore, PVCDeleted, CreatePVC, NameVolume, PVCBound, PVCFails, LockPlan,
     EndRestore, PassRestore, RestorePlan, DeletePVC, SetPhase, Return, RestoringAt
<1>10. CASE ScaleRestorePlan("down")
  BY <1>10, ListedScale
<1> QED
  BY <1>3, <1>4, <1>5, <1>6, <1>7, <1>8, <1>9, <1>10 DEF Next, Reconcile

\* A plan with claims has a target.
LEMMA HasTargets == \A p \in Plans : ClaimsOf(p) # {} => TargetsOf(p) # {}
BY ConstantsOK DEF ConstantsOK, ClaimsOf, TargetsOf, ClustersOf

LEMMA HookDue ==
  ASSUME UNCHANGED status
  PROVE  \A p \in Plans : /\ Due(p)' = Due(p)
                           /\ Hooked(p)' = Hooked(p)
                           /\ ClaimsOf(p)' = ClaimsOf(p)
BY DEF Due, Hooked, PreHooksOf, ClaimsOf

LEMMA HooksElsewhere == pc' \notin {"preHooks", "preHook"} \cup HookedAt => HooksFirst'
BY DEF HooksFirst

\* Between the hooks and the end of the restore.
LEMMA HooksAfter ==
  ASSUME HooksFirst, pc \in HookedAt, pc' \in HookedAt,
         \A p \in Plans : ClaimsOf(p) # {} /\ Due(p)' => Due(p),
         \A p \in Plans : status'[p].done = status[p].done
  PROVE  HooksFirst'
BY DEF HooksFirst, HookedAt, RestoringAt, Hooked, PreHooksOf, ClaimsOf

LEMMA HooksValidation ==
  ASSUME TypeInv, DownInv, HookInv, Validation
  PROVE  HooksFirst'
<1>1. CASE pc' = "setDown"
  <2>1. /\ UNCHANGED status /\ pc = "validate"
        /\ \A p \in seen : PreHooksOf(p) = {}
    BY <1>1 DEF Validation, GetResource, SetInitStatusRestorePlan, StartValidating, EndValidation,
       ValidatePlan, ValidatePlanFails, SetPhase, Return, clusterVars, resourceVars
  <2>2. \A p \in Plans \ Removable : Due(p)' => Hooked(p)'
    BY <2>1, HookDue DEF Due, Hooked, DownInv, KnownOK
  <2> QED
    BY <1>1, <2>2 DEF HooksFirst
<1>2. CASE pc' # "setDown"
  BY <1>2, HooksElsewhere DEF Validation, GetResource, SetInitStatusRestorePlan, StartValidating, EndValidation,
     ValidatePlan, ValidatePlanFails, SetPhase, Return, HookedAt, RestoringAt
<1> QED
  BY <1>1, <1>2

LEMMA HooksRunHooks ==
  ASSUME TypeInv, DownInv, HookInv, RunHooks
  PROVE  HooksFirst'
<1> USE DEF HookInv
<1>1. CASE StartPreHooks
  <2>1. /\ UNCHANGED status /\ pc = "setPreHooks" /\ pc' = "preHooks"
        /\ todo' = {p \in seen : PreHooksOf(p) # {}}
    BY <1>1 DEF StartPreHooks, SetPhase
  <2>2. \A p \in Plans \ Removable : Due(p)' /\ p \notin todo' => Hooked(p)'
    BY <2>1, HookDue DEF Due, Hooked, DownInv, KnownOK
  <2> QED
    BY <2>1, <2>2 DEF HooksFirst, HookedAt, RestoringAt
<1>2. CASE pc' \in {"idle", "postHooks", "postHook", "setCompleted"}
  BY <1>2, HooksElsewhere DEF HookedAt, RestoringAt
<1>3. CASE StartPostHooks \/ \E h \in Hooks : HookFails(h)
  BY <1>2, <1>3 DEF StartPostHooks, SetPhase, HookFails, Return
<1>4. ASSUME NEW p \in Plans, PlanHooks(p), pc = "preHooks" PROVE HooksFirst'
  <2>1. /\ UNCHANGED status /\ pc' = "preHook" /\ todo' = todo \ {p} /\ plan' = p
        /\ work' = {h \in PreHooksOf(p) : h \in NodeHooks \/ ~SkipHook(h)}
    BY <1>4 DEF PlanHooks, Pending, clusterVars, resourceVars
  <2>2. \A h \in PreHooksOf(p) \ work' :
            h \notin NodeHooks /\ status[p].known /\ (status[p].lock \/ h \in status[p].done)
    BY <2>1 DEF SkipHook, PointPassed, PreHooksOf
  <2>3. \/ status[p].known /\ status[p].lock
        \/ PreHooksOf(p) \ NodeHooks \subseteq status[p].done \cup work'
    BY <2>2
  <2>4. \A q \in Plans \ Removable : Due(q)' /\ ClaimsOf(q) # {} /\ q \notin todo' /\ q # plan' => Hooked(q)'
    BY <1>4, <2>1, HookDue DEF HooksFirst
  <2> QED
    BY <2>1, <2>3, <2>4 DEF HooksFirst, HookedAt, RestoringAt, PreHooksOf, ClaimsOf
<1>5. ASSUME NEW p \in Plans, PlanHooks(p), pc # "preHooks" PROVE HooksFirst'
  BY <1>2, <1>5 DEF PlanHooks
<1>6. ASSUME NEW h \in Hooks, HookSucceeds(h), pc = "preHook" PROVE HooksFirst'
  <2>0. plan \in Plans
    BY <1>6 DEF TypeInv, PlanOK, PlanAt
  <2>1. /\ pc' = "preHook" /\ todo' = todo /\ plan' = plan /\ work' = work \ {h}
        /\ status' = [status EXCEPT ![plan].known = TRUE, ![plan].done = @ \cup {h}]
    BY <1>6 DEF HookSucceeds
  <2>2. \A q \in Plans : q # plan => status'[q] = status[q]
    BY <2>0, <2>1, StatusFields
  <2>3. \A q \in Plans \ Removable : Due(q)' /\ ClaimsOf(q) # {} /\ q \notin todo' /\ q # plan' => Hooked(q)'
    BY <1>6, <2>1, <2>2 DEF HooksFirst, Due, Hooked, PreHooksOf
  <2>4. /\ status'[plan].known /\ status'[plan].lock = status[plan].lock
        /\ status'[plan].done = status[plan].done \cup {h}
    BY <2>0, <2>1, StatusFields DEF PlanStatus
  <2>5. \/ status'[plan].known /\ status'[plan].lock
        \/ PreHooksOf(plan) \ NodeHooks \subseteq status'[plan].done \cup work'
    BY <1>6, <2>1, <2>4 DEF HooksFirst
  <2> QED
    BY <2>1, <2>3, <2>5 DEF HooksFirst, HookedAt, RestoringAt, PreHooksOf, ClaimsOf
<1>7. ASSUME NEW h \in Hooks, HookSucceeds(h) \/ HookPasses(h), pc # "preHook" PROVE HooksFirst'
  BY <1>2, <1>7, HooksElsewhere DEF HookSucceeds, HookPasses, HookedAt, RestoringAt
<1>8. CASE EndPlanHooks /\ pc = "preHook"
  <2>1. UNCHANGED <<status, todo>> /\ pc' = "preHooks" /\ work = {}
    BY <1>8 DEF EndPlanHooks, clusterVars, resourceVars
  <2>2. \A q \in Plans \ Removable : Due(q) /\ ClaimsOf(q) # {} /\ q \notin todo => Hooked(q)
    BY <1>8, <2>1 DEF HooksFirst, Due, Hooked
  <2> QED
    BY <2>1, <2>2, HookDue DEF HooksFirst, HookedAt, RestoringAt
<1>9. CASE EndPlanHooks /\ pc # "preHook"
  BY <1>2, <1>9 DEF EndPlanHooks
<1>10. CASE EndHooks /\ pc = "preHooks"
  <2>1. UNCHANGED status /\ pc' = "setDown" /\ todo = {}
    BY <1>10 DEF EndHooks, clusterVars, resourceVars
  <2>2. \A q \in Plans \ Removable : Due(q) /\ ClaimsOf(q) # {} => Hooked(q)
    BY <1>10, <2>1 DEF HooksFirst
  <2> QED
    BY <2>1, <2>2, HookDue DEF HooksFirst
<1>11. CASE EndHooks /\ pc # "preHooks"
  BY <1>2, <1>11 DEF EndHooks
<1>12. ASSUME NEW h \in Hooks, HookPasses(h), pc = "preHook" PROVE HooksFirst'
  <2>1. /\ UNCHANGED <<status, todo, plan>> /\ pc' = "preHook"
        /\ work' = work \ {h} /\ h \in NodeHooks
    BY <1>12 DEF HookPasses, clusterVars, resourceVars
  <2>2. \A q \in Plans \ Removable : Due(q)' /\ ClaimsOf(q) # {} /\ q \notin todo' /\ q # plan' => Hooked(q)'
    BY <1>12, <2>1, HookDue DEF HooksFirst, Due, Hooked
  <2>3. \/ status'[plan].known /\ status'[plan].lock
        \/ PreHooksOf(plan) \ NodeHooks \subseteq status'[plan].done \cup work'
    BY <1>12, <2>1 DEF HooksFirst
  <2> QED
    BY <2>1, <2>2, <2>3 DEF HooksFirst, HookedAt, RestoringAt, PreHooksOf, ClaimsOf
<1> QED
  BY <1>1, <1>3, <1>4, <1>5, <1>6, <1>7, <1>8, <1>9, <1>10, <1>11, <1>12 DEF RunHooks

LEMMA HooksScale ==
  ASSUME TypeInv, DownInv, HookInv, ScaleRestorePlan("down")
  PROVE  HooksFirst'
<1> USE DEF HookInv, TargetAt, WaitAt
<1>1. CASE UNCHANGED status /\ pc \in HookedAt /\ pc' \in HookedAt
  BY <1>1, HooksAfter, HookDue
<1>2. CASE Return
  BY <1>2, HooksElsewhere DEF Return, HookedAt, RestoringAt
<1>3. CASE StartScale("down")
  BY <1>1, <1>3 DEF StartScale, SetPhase, HookedAt
<1>4. CASE EndScale("down")
  BY <1>1, <1>4 DEF EndScale, HookedAt, clusterVars, resourceVars
<1>5. CASE TargetScaled("down")
  BY <1>1, <1>2, <1>5 DEF TargetScaled, HookedAt, clusterVars, resourceVars
<1>6. CASE \E p \in Plans : PassPlan("down", p) \/ ScalePlan("down", p)
  BY <1>1, <1>6 DEF PassPlan, ScalePlan, HookedAt, clusterVars, resourceVars
<1>7. CASE \E w \in Workloads : PatchReplicas("down", w)
  BY <1>1, <1>7 DEF PatchReplicas, HookedAt, resourceVars
<1>8. CASE \E w \in Workloads : TargetFails("down", w)
  BY <1>2, <1>8 DEF TargetFails
<1>9. CASE PlanScaled("down")
  <2>1. /\ pc = "downTarget" /\ pc' = "down" /\ work = {}
        /\ status' = [status EXCEPT ![plan].known = TRUE, ![plan].ups = 0]
    BY <1>9 DEF PlanScaled
  <2>2. plan \in Plans
    BY <2>1 DEF TypeInv, PlanOK, PlanAt, ScalingAt
  <2>3. ClaimsOf(plan) # {} => status[plan].known
    BY <2>1, <2>2, HasTargets DEF ListedOK
  <2>4. \A p \in Plans : ClaimsOf(p) # {} /\ Due(p)' => Due(p)
    BY <2>1, <2>2, <2>3, StatusFields DEF Due, PlanStatus
  <2>5. \A p \in Plans : status'[p].done = status[p].done
    BY <2>1, <2>2, StatusFields DEF PlanStatus
  <2> QED
    BY <2>1, <2>4, <2>5, HooksAfter DEF HookedAt
<1> QED
  BY <1>3, <1>4, <1>5, <1>6, <1>7, <1>8, <1>9 DEF ScaleRestorePlan

LEMMA HooksRestore ==
  ASSUME TypeInv, DownInv, HookInv, RestoreFromPlan
  PROVE  HooksFirst'
<1> USE DEF HookInv
<1>1. CASE UNCHANGED status /\ pc \in HookedAt /\ pc' \in HookedAt
  BY <1>1, HooksAfter, HookDue
<1>2. CASE pc' \in {"idle", "setUp"}
  BY <1>2, HooksElsewhere DEF HookedAt, RestoringAt
<1>3. CASE StartRestore
  BY <1>1, <1>3 DEF StartRestore, SetPhase, HookedAt
<1>4. CASE PVCDeleted \/ CreatePVC \/ NameVolume \/ PVCBound
  BY <1>1, <1>4 DEF PVCDeleted, CreatePVC, NameVolume, PVCBound, HookedAt, RestoringAt, clusterVars, resourceVars
<1>5. CASE PVCFails \/ EndRestore
  BY <1>2, <1>5 DEF PVCFails, EndRestore, Return
<1>6. CASE \E p \in Plans : PassRestore(p) \/ RestorePlan(p)
  BY <1>1, <1>6 DEF PassRestore, RestorePlan, HookedAt, RestoringAt, clusterVars, resourceVars
<1>7. CASE \E v \in PVCs : DeletePVC(v)
  BY <1>1, <1>7 DEF DeletePVC, HookedAt, RestoringAt, resourceVars
<1>8. CASE LockPlan
  <2>1. pc = "pvc" /\ pc' = "restore" /\ status' = [status EXCEPT ![plan].lock = TRUE]
    BY <1>8 DEF LockPlan
  <2>2. plan \in Plans
    BY <2>1 DEF TypeInv, PlanOK, PlanAt, RestoringAt
  <2>3. \A p \in Plans : (Due(p)' => Due(p)) /\ status'[p].done = status[p].done
    BY <2>1, <2>2, StatusFields DEF Due, PlanStatus
  <2> QED
    BY <2>1, <2>3, HooksAfter DEF HookedAt, RestoringAt
<1> QED
  BY <1>3, <1>4, <1>5, <1>6, <1>7, <1>8 DEF RestoreFromPlan

LEMMA HookStep == TypeInv /\ DownInv /\ HookInv /\ [Next]_vars => HookInv'
<1> SUFFICES ASSUME TypeInv, DownInv, HookInv, [Next]_vars PROVE HooksFirst'
  BY ListedStep DEF HookInv
<1>1. CASE UNCHANGED <<status, localVars>>
  BY <1>1, HookDue DEF HookInv, HooksFirst, localVars, PreHooksOf
<1>2. CASE UNCHANGED vars
  BY <1>1, <1>2 DEF vars, clusterVars, resourceVars
<1>3. CASE Environment /\ UNCHANGED <<localVars, faults>>
  BY <1>1, <1>3, EnvironmentKeepsStatus
<1>4. CASE Abort \/ Complete
  BY <1>4, HooksElsewhere DEF Abort, Complete, Return, HookedAt, RestoringAt
<1>5. CASE ScaleRestorePlan("up")
  BY <1>5, HooksElsewhere DEF ScaleRestorePlan, StartScale, TargetScaled, PlanScaled, EndScale, PassPlan,
     ScalePlan, PatchReplicas, TargetFails, TargetAt, WaitAt, SetPhase, Return, HookedAt, RestoringAt
<1> QED
  BY <1>2, <1>3, <1>4, <1>5, HooksValidation, HooksRunHooks, HooksScale, HooksRestore DEF Next, Reconcile

LEMMA HookInit == Init => HookInv
BY DEF Init, ClusterInit, NoStatus, HookInv, ListedOK, HooksFirst, HookedAt, RestoringAt

\* No claim is deleted before each pre-restore hook of its plan has succeeded,
\* whatever fails and whatever plans the user adds meanwhile.
THEOREM HooksBeforeDeletion == Spec => PreHooksFirst
<1> DEFINE A == \A p \in Plans \ Removable : Deletes(p) => PreHooksOf(p) \ NodeHooks \subseteq status[p].done
<1>1. TypeInv /\ DownInv /\ HookInv /\ [Next]_vars => [A]_vars
  <2> SUFFICES ASSUME TypeInv, DownInv, HookInv, [Next]_vars, NEW p \in Plans \ Removable,
                      NEW v \in ClaimsOf(p), claim[v] # "terminating", claim'[v] = "terminating"
               PROVE  PreHooksOf(p) \ NodeHooks \subseteq status[p].done
    BY DEF Deletes
  <2>1. v \in PVCs
    BY DEF ClaimsOf
  <2>2. DeletePVC(v)
    BY <2>1, OnlyDelete
  <2>3. pc \in RestoringAt /\ v \in ClaimsOf(plan) /\ plan \in Plans
    BY <2>2 DEF DeletePVC, RestoringAt, DownInv, LoopOK, TypeInv, PlanOK, PlanAt
  <2>4. plan = p
    BY <2>3 DEF ClaimsOf
  <2>5. Due(p)
    BY <2>3, <2>4 DEF DownInv, LoopOK, RestoreUnlocked, Due
  <2> QED
    BY <2>3, <2>5 DEF HookInv, HooksFirst, HookedAt, Hooked
<1>2. Spec => [](TypeInv /\ DownInv /\ HookInv)
  BY TypeInit, TypeStep, DownInit, DownStep, HookInit, HookStep, PTL DEF Spec
<1>3. Spec => [][Next]_vars
  BY DEF Spec
<1> QED
  BY <1>1, <1>2, <1>3, PTL DEF PreHooksFirst
=============================================================================
