--------------------------- MODULE RestoreProofs ---------------------------
(* Proofs about Reconciler: which snapshots the claims of a plan are made    *)
(* from, and what a cluster finds in its volumes when its pods start.        *)
EXTENDS PlanLifeProofs

-----------------------------------------------------------------------------
(* One restore point per plan.                                              *)

\* The claim restorePVC works on is one of those that are left.
CurOK == pc \in RestoringAt \ {"pvc"} => cur \in work

Timed(p) == p \notin Removable /\ SpecTime[p] # NoTime

\* The time in the status of a plan that is not locked, and every volume made from
\* a snapshot, is of the time the plan asks for.
TimeOK ==
    \A p \in Plans : Timed(p) =>
        /\ status[p].lock \/ status[p].time \in {NoTime, SpecTime[p]}
        /\ \A v \in ClaimsOf(p) : data[v] \in Times => data[v] = SpecTime[p]

\* restorePVC starts nowhere else.
LEMMA OnlyRestore ==
  ASSUME [Next]_vars, pc' \in RestoringAt
  PROVE  UNCHANGED <<localVars, status>> \/ RestoreFromPlan
<1> USE DEF RestoringAt
<1>1. ~(Validation \/ RunHooks \/ Abort \/ Complete)
  BY DEF Validation, GetResource, SetInitStatusRestorePlan, StartValidating, EndValidation, ValidatePlan,
     ValidatePlanFails, RunHooks, StartPreHooks, StartPostHooks, EndPlanHooks, EndHooks, PlanHooks,
     HookSucceeds, HookFails, HookPasses, SetPhase, Return, Abort, Complete
<1>2. ~(ScaleRestorePlan("down") \/ ScaleRestorePlan("up"))
  BY DEF ScaleRestorePlan, StartScale, TargetScaled, PlanScaled, EndScale, PassPlan, ScalePlan,
     PatchReplicas, TargetFails, SetPhase, Return, TargetAt, WaitAt
<1> QED
  BY <1>1, <1>2, EnvironmentKeepsStatus DEF Next, Reconcile, vars, clusterVars, resourceVars

LEMMA CurStep == TypeInv /\ LoopOK /\ CurOK /\ [Next]_vars => CurOK'
<1> SUFFICES ASSUME TypeInv, LoopOK, CurOK, [Next]_vars, pc' \in RestoringAt \ {"pvc"} PROVE cur' \in work'
  BY DEF CurOK
<1> USE DEF RestoringAt
<1>1. CASE UNCHANGED localVars
  BY <1>1 DEF localVars, CurOK
<1>2. CASE RestoreFromPlan
  <2>1. CASE (\E v \in PVCs : DeletePVC(v)) \/ PVCDeleted \/ CreatePVC \/ NameVolume
    BY <2>1 DEF CurOK, DeletePVC, PVCDeleted, CreatePVC, NameVolume
  <2> QED
    BY <1>2, <2>1 DEF RestoreFromPlan, StartRestore, PVCBound, PVCFails, LockPlan, EndRestore, PassRestore,
       RestorePlan, SetPhase, Return
<1> QED
  BY <1>1, <1>2, OnlyRestore

\* The data of a claim changes, and one that is gone comes back, when it is made anew,
\* by the StatefulSet controller or by restorePVC, which takes the time in the status.
LEMMA DataStep ==
  ASSUME TypeInv, LoopOK, CurOK, [Next]_vars, NEW v \in PVCs,
         data'[v] # data[v] \/ (claim[v] = "absent" /\ claim'[v] # "absent")
  PROVE  \/ data'[v] = Blank /\ on[ClusterOf[v]] /\ claim[v] = "absent" /\ RecreateClaim(v)
         \/ /\ CreatePVC /\ v = cur /\ plan \in Plans /\ v \in ClaimsOf(plan) /\ pc \in RestoringAt
            /\ data'[v] = status[plan].time
<1>0. data \in [PVCs -> 0 .. MaxTime + 1] /\ claim \in [PVCs -> ClaimStates]
  BY DEF TypeInv, TypeOK, ClusterTypeOK
<1>1. CASE UNCHANGED <<data, claim>>
  BY <1>1
<1>2. CASE UNCHANGED vars \/ Abort \/ Complete \/ Validation \/ RunHooks
  BY <1>1, <1>2 DEF vars, clusterVars, volumeVars, Abort, Complete, Validation, GetResource,
     SetInitStatusRestorePlan, StartValidating, EndValidation, ValidatePlan, ValidatePlanFails, SetPhase, RunHooks,
     StartPreHooks, StartPostHooks, EndPlanHooks, EndHooks, PlanHooks, HookSucceeds, HookFails, HookPasses
<1>3. CASE ScaleRestorePlan("down") \/ ScaleRestorePlan("up")
  BY <1>1, <1>3 DEF clusterVars, volumeVars, ScaleRestorePlan, StartScale, TargetScaled, PlanScaled, EndScale,
     PassPlan, ScalePlan, PatchReplicas, TargetFails, SetPhase
<1>4. CASE Environment
  <2>1. CASE \E u \in PVCs : RecreateClaim(u)
    BY <1>0, <2>1 DEF RecreateClaim
  <2>2. CASE \E u \in PVCs : FinishDelete(u) \/ ProvisionVolume(u) \/ BindClaim(u)
    BY <1>0, <2>2 DEF FinishDelete, ProvisionVolume, BindClaim
  <2> QED
    BY <1>1, <1>4, <2>1, <2>2 DEF Environment, StartPods, StopPods, OperatorRescales, TakeSnapshots,
       ExpireSnapshots, AddPlan, RemovePlan, volumeVars
<1>5. CASE RestoreFromPlan
  <2>1. CASE CreatePVC
    <3>1. pc \in RestoringAt \ {"pvc"} /\ data' = [data EXCEPT ![cur] = status[plan].time]
      BY <2>1 DEF CreatePVC, RestoringAt
    <3>2. plan \in Plans /\ cur \in ClaimsOf(plan)
      BY <3>1 DEF CurOK, LoopOK, TypeInv, PlanOK, PlanAt
    <3>3. v = cur
      BY <1>0, <2>1 DEF CreatePVC
    <3> QED
      BY <1>0, <2>1, <3>1, <3>2, <3>3
  <2>2. CASE \E u \in PVCs : DeletePVC(u)
    BY <1>0, <2>2 DEF DeletePVC
  <2> QED
    BY <1>1, <1>5, <2>1, <2>2 DEF RestoreFromPlan, StartRestore, PVCDeleted, NameVolume, PVCBound, PVCFails,
       LockPlan, EndRestore, PassRestore, RestorePlan, SetPhase, clusterVars, volumeVars
<1> QED
  BY <1>2, <1>3, <1>4, <1>5 DEF Next, Reconcile

LEMMA BlankTime == Blank \notin Times /\ Original \notin Times /\ NoTime \notin Times
BY ConstantsOK DEF ConstantsOK, Blank, Original, NoTime, Times

LEMMA TimeStep ==
  ASSUME TypeInv, DownInv, CurOK, TimeOK, [Next]_vars
  PROVE  TimeOK'
<1> SUFFICES ASSUME NEW p \in Plans, Timed(p)
             PROVE  /\ status'[p].lock \/ status'[p].time \in {NoTime, SpecTime[p]}
                    /\ \A v \in ClaimsOf(p) : data'[v] \in Times => data'[v] = SpecTime[p]
  BY DEF TimeOK, Timed, ClaimsOf
<1>1. /\ status[p].lock \/ status[p].time \in {NoTime, SpecTime[p]}
      /\ \A v \in ClaimsOf(p) : data[v] \in Times => data[v] = SpecTime[p]
  BY DEF TimeOK
<1>2. pc \in RestoringAt /\ p = plan => ~status[p].lock
  BY DEF DownInv, RestoreUnlocked, Timed
<1>3. status'[p].lock \/ status'[p].time \in {NoTime, SpecTime[p]}
  BY <1>1, <1>2, EntryStep DEF EntryChange, EntryValidated, EntryHooked, EntryScaled, EntryRestored, Kept,
     CarriedLock, RequestedTime, Timed
<1>4. ASSUME NEW v \in ClaimsOf(p), data'[v] \in Times PROVE data'[v] = SpecTime[p]
  <2>1. v \in PVCs
    BY DEF ClaimsOf
  <2>2. CASE data'[v] # data[v]
    <3>1. plan = p /\ pc \in RestoringAt /\ data'[v] = status[p].time
      BY <1>4, <2>1, <2>2, DataStep, BlankTime DEF DownInv, ClaimsOf
    <3> QED
      BY <1>1, <1>2, <1>4, <3>1, BlankTime
  <2> QED
    BY <1>1, <1>4, <2>2
<1> QED
  BY <1>3, <1>4

\* A plan that asks for a snapshot time gets volumes of that time and no other:
\* until the plan is locked every validation writes that time, and it is the one
\* restorePVC makes claims from.
THEOREM OnePoint == Spec => []OneRestorePoint
<1>1. Init => TypeInv /\ DownInv /\ CurOK /\ TimeOK
  <2>1. Init => CurOK /\ TimeOK
    BY BlankTime DEF Init, ClusterInit, NoStatus, CurOK, TimeOK, RestoringAt, ClaimsOf
  <2> QED
    BY <2>1, TypeInit, DownInit
<1>2. TypeInv /\ DownInv /\ CurOK /\ TimeOK /\ [Next]_vars => (TypeInv /\ DownInv /\ CurOK /\ TimeOK)'
  BY TypeStep, DownStep, CurStep, TimeStep DEF DownInv
<1>3. TimeOK => OneRestorePoint
  BY ConstantsOK, Parts DEF OneRestorePoint, TimeOK, Timed, ClaimsOf
<1> QED
  BY <1>1, <1>2, <1>3, PTL DEF Spec

-----------------------------------------------------------------------------
(* The claims of a locked plan, and those of a running cluster.             *)

\* Plans that are there from the start and stay.
Stays == Plans \ (Late \cup Removable)

\* No lock is carried over to the plans in P: once ValidateListSnapshots has met a
\* locked plan, those of P that are left are locked too.
NoLeak(P) == pc = "validate" /\ carry => \A p \in todo \cap P : status[p].lock

\* The snapshots that are there at the start were taken of all claims of a cluster.
TakenTogether == \A v, w \in PVCs : ClusterOf[v] = ClusterOf[w] => Taken[v] = Taken[w]

\* The claim is gone, or what it was before the restore is.
Settled(v, t) == claim[v] = "absent" \/ data[v] \in {t, Blank}

SnapsOK == \A v \in PVCs : \A t \in snaps[v] : t <= now

\* The time of the restore is one of the past.
Past(p) == status[p].time \in Times /\ \A v \in ClaimsOf(p) : status[p].time <= now

\* The plan has been validated in this reconcile.
Chosen(p) == \/ pc = "validate" /\ p \notin todo /\ ~lastErr
             \/ pc \notin BeforeHooks

PointOK(P) ==
    \A p \in P :
        /\ status[p].lock => /\ Past(p)
                             /\ \A v \in RestoredClaims(p) :
                                   status[p].time \in snaps[v] => Settled(v, status[p].time)
        /\ ~status[p].lock /\ Chosen(p) =>
              /\ Past(p)
              /\ \A v \in RestoredClaims(p) : status[p].time \in snaps[v] =>
                    v \in status[p].refs \/ Settled(v, status[p].time)

\* Inside restorePVC.
RestoringOK(P) ==
    pc \in RestoringAt /\ plan \in P =>
        /\ \A v \in status[plan].refs \ (SkipRestoring \cup work) : Settled(v, status[plan].time)
        /\ pc \in {"pvcProvision", "pvcBind"} => Settled(cur, status[plan].time)

PointInv(P) == SnapsOK /\ PointOK(P) /\ RestoringOK(P)

\* Mounted claims exist.
PodsHold == \A v \in PVCs : pods[ClusterOf[v]] => claim[v] \in {"bound", "terminating"}

\* A claim that is still the one from before the restore has all snapshots the others
\* of its cluster have.
SnapsCover(P) ==
    \A p \in P : \A v, w \in ClaimsOf(p) :
        ClusterOf[v] = ClusterOf[w] /\ claim[w] # "absent" /\ data[w] = Original => snaps[v] \subseteq snaps[w]

Old(v) == claim[v] # "absent" /\ data[v] = Original

\* A plan with a claim made from a snapshot is down until it is locked.
Off(p) == /\ \A w \in TargetsOf(p) : ~on[w]
          /\ \A o \in OperatorsOf(p) : ~pods[o]
          /\ \A v \in ClaimsOf(p) : data[v] \in Times => ~pods[ClusterOf[v]]

HalfOK(P) ==
    \A p \in P \cap LifePlans :
        /\ status[p].lock => \A v \in RestoredClaims(p) : ~Old(v)
        /\ ~status[p].lock /\ Chosen(p) => \A v \in RestoredClaims(p) : Old(v) => v \in status[p].refs
        /\ ~status[p].lock /\ (\E v \in ClaimsOf(p) : data[v] \in Times) => Off(p)

HalfInv(P) == PodsHold /\ SnapsCover(P) /\ HalfOK(P)

LEMMA StaysFacts ==
  /\ \A p \in Stays : p \in Plans /\ p \notin Late /\ p \notin Removable
  /\ LifePlans \subseteq Stays
BY DEF Stays, LifePlans

LEMMA StaysHas == ASSUME LifeInv, NEW p \in Stays PROVE Has(p)
BY StaysFacts DEF LifeInv, StayOK, UpInv, HasOK

\* A claim that is settled stays so: it is made anew from the plan's time, or blank.
LEMMA SettledStep ==
  ASSUME TypeInv, LoopOK, CurOK, [Next]_vars, NEW p \in Plans, NEW v \in ClaimsOf(p), NEW t, Settled(v, t),
         pc \in RestoringAt /\ plan = p => status[p].time = t
  PROVE  Settled(v, t)'
<1>1. v \in PVCs
  BY DEF ClaimsOf
<1>2. CASE data'[v] = data[v] /\ (claim[v] = "absent" => claim'[v] = "absent")
  BY <1>2 DEF Settled
<1>3. CASE data'[v] # data[v] \/ (claim[v] = "absent" /\ claim'[v] # "absent")
  <2>1. data'[v] = Blank \/ (v \in ClaimsOf(plan) /\ pc \in RestoringAt /\ data'[v] = status[plan].time)
    BY <1>1, <1>3, DataStep
  <2>2. v \in ClaimsOf(plan) => plan = p
    BY DEF ClaimsOf
  <2> QED
    BY <2>1, <2>2 DEF Settled
<1> QED
  BY <1>2, <1>3

\* Snapshots come from the schedule and go with retention.
LEMMA SnapsChange ==
  ASSUME [Next]_vars
  PROVE  UNCHANGED <<now, snaps>> \/ (\E q \in Plans : TakeSnapshots(q)) \/ \E t \in Expirable : ExpireSnapshots(t)
<1>1. CASE UNCHANGED vars \/ Abort \/ Complete \/ Validation \/ RunHooks
  BY <1>1 DEF vars, clusterVars, volumeVars, Abort, Complete, Validation, GetResource, SetInitStatusRestorePlan,
     StartValidating, EndValidation, ValidatePlan, ValidatePlanFails, SetPhase, RunHooks, StartPreHooks,
     StartPostHooks, EndPlanHooks, EndHooks, PlanHooks, HookSucceeds, HookFails, HookPasses
<1>2. CASE ScaleRestorePlan("down") \/ ScaleRestorePlan("up")
  BY <1>2 DEF clusterVars, volumeVars, ScaleRestorePlan, StartScale, TargetScaled, PlanScaled, EndScale,
     PassPlan, ScalePlan, PatchReplicas, TargetFails, SetPhase
<1>3. CASE RestoreFromPlan
  BY <1>3 DEF RestoreFromPlan, StartRestore, PVCDeleted, NameVolume, PVCBound, PVCFails, CreatePVC, DeletePVC,
     LockPlan, EndRestore, PassRestore, RestorePlan, SetPhase, clusterVars, volumeVars
<1>4. CASE Environment
  BY <1>4 DEF Environment, StartPods, StopPods, OperatorRescales, RecreateClaim, FinishDelete, ProvisionVolume,
     BindClaim, AddPlan, RemovePlan, volumeVars
<1> QED
  BY <1>1, <1>2, <1>3, <1>4 DEF Next, Reconcile

\* Snapshots are taken at new times.
LEMMA SnapsStep ==
  ASSUME TypeInv, SnapsOK, [Next]_vars
  PROVE  /\ now \in Nat /\ now' \in Nat /\ now <= now' /\ SnapsOK'
         /\ \A v \in PVCs : \A t \in snaps'[v] : t \in snaps[v] \/ t > now
<1>0. now \in Nat /\ now' \in Nat /\ snaps \in [PVCs -> SUBSET Times]
  BY TypeStep, ConstantsOK DEF ConstantsOK, TypeInv, TypeOK, ClusterTypeOK
<1>1. CASE UNCHANGED <<now, snaps>>
  BY <1>0, <1>1 DEF SnapsOK
<1>2. ASSUME NEW p \in Plans, TakeSnapshots(p)
      PROVE  /\ now <= now' /\ SnapsOK'
             /\ \A v \in PVCs : \A t \in snaps'[v] : t \in snaps[v] \/ t > now
  <2>1. now' = now + 1 /\ \A v \in PVCs : \A t \in snaps'[v] : t \in snaps[v] \/ t = now + 1
    BY <1>2 DEF TakeSnapshots
  <2>2. \A v \in PVCs : \A t \in snaps[v] : t \in Nat
    BY <1>0, ConstantsOK DEF Times, ConstantsOK
  <2> QED
    BY <1>0, <2>1, <2>2 DEF SnapsOK
<1>3. ASSUME NEW u \in Expirable, ExpireSnapshots(u)
      PROVE  /\ now <= now' /\ SnapsOK'
             /\ \A v \in PVCs : \A t \in snaps'[v] : t \in snaps[v] \/ t > now
  BY <1>0, <1>3 DEF ExpireSnapshots, SnapsOK
<1> QED
  BY <1>0, <1>1, <1>2, <1>3, SnapsChange

\* A plan counts as validated from the step on that validates it.
LEMMA ChosenStep ==
  ASSUME LifeInv, [Next]_vars, NEW p \in Stays, Chosen(p)'
  PROVE  Chosen(p) \/ ValidatePlan(p)
<1>0. pc # "idle" => p \in seen
  BY StaysHas DEF Has
<1> USE DEF Chosen, BeforeHooks
<1>1. CASE pc \notin BeforeHooks
  BY <1>1
<1>2. CASE pc \in {"idle", "init", "initialised"}
  <2>1. (pc' = "validate" /\ todo' = seen' /\ seen \subseteq seen') \/ pc' \in {"idle", "init", "initialised"}
    BY <1>2, MovesStep, SeenStep DEF LifeInv, Moves, BetweenLoops, LoopStarts, LoopPasses, LoopTakes, InPlan, LoopLeaves,
       RestoringAt, localVars
  <2>2. pc' = "validate" => pc # "idle"
    BY <1>2, MovesStep DEF LifeInv, Moves, BetweenLoops, LoopStarts, LoopPasses, LoopTakes, InPlan, LoopLeaves,
       RestoringAt, localVars
  <2> QED
    BY <1>0, <2>1, <2>2
<1>3. CASE pc = "validate"
  <2>1. CASE UNCHANGED localVars
    BY <1>3, <2>1 DEF localVars
  <2>2. CASE EndValidation
    BY <2>2 DEF EndValidation, Return
  <2>3. ASSUME NEW q \in Plans, ValidatePlan(q) \/ ValidatePlanFails(q) PROVE Chosen(p) \/ ValidatePlan(p)
    BY <1>3, <2>3 DEF ValidatePlan, ValidatePlanFails, RangeOver
  <2>4. CASE Abort
    BY <2>4 DEF Abort, Return
  <2>5. ~(RunHooks \/ RestoreFromPlan \/ Complete \/ ScaleRestorePlan("down") \/ ScaleRestorePlan("up"))
    BY <1>3 DEF RunHooks, StartPreHooks, StartPostHooks, EndPlanHooks, EndHooks, PlanHooks, HookSucceeds,
       HookFails, HookPasses, RestoreFromPlan, StartRestore, PVCDeleted, CreatePVC, NameVolume, PVCBound, PVCFails,
       LockPlan, EndRestore, PassRestore, RestorePlan, DeletePVC, Complete, ScaleRestorePlan, StartScale,
       TargetScaled, PlanScaled, EndScale, PassPlan, ScalePlan, PatchReplicas, TargetFails, SetPhase, TargetAt,
       WaitAt, RestoringAt
  <2> QED
    BY <1>3, <2>1, <2>2, <2>3, <2>4, <2>5 DEF Next, Reconcile, Validation, GetResource, SetInitStatusRestorePlan,
       StartValidating, SetPhase, vars
<1> QED
  BY <1>1, <1>2, <1>3

\* A validation finds a snapshot of the chosen time in every cluster, and refers to
\* every claim that is there and has one.
LEMMA ValidatedPoint ==
  ASSUME TypeInv, SnapsOK, NEW p \in Plans, ValidatePlan(p)
  PROVE  /\ UNCHANGED <<claim, data, snaps, now>>
         /\ Past(p)'
         /\ \A v \in ClaimsOf(p) : status'[p].time \in snaps[v] => v \in status'[p].refs \/ claim[v] = "absent"
         /\ \A c \in ClustersOf(p) : \E v \in PVCs : ClusterOf[v] = c /\ status'[p].time \in snaps[v]
<1>1. PICK t \in Times : /\ MatchedClusters(p, t) = ClustersOf(p)
                         /\ status' = Validated(p, t, TargetsOf(p), RefsOf(ClustersOf(p), t))
  BY DEF ValidatePlan
<1>2. status'[p].time = t /\ status'[p].refs = RefsOf(ClustersOf(p), t)
  BY <1>1, ValidatedEntry
<1>3. UNCHANGED <<claim, data, snaps, now>>
  BY DEF ValidatePlan, volumeVars
<1>4. \A c \in ClustersOf(p) : \E v \in PVCs : ClusterOf[v] = c /\ t \in snaps[v]
  BY <1>1 DEF MatchedClusters, Matching, ListedClaims
<1>5. \A v \in ClaimsOf(p) : v \in PVCs /\ ClusterOf[v] \in ClustersOf(p)
  BY ConstantsOK DEF ConstantsOK, ClaimsOf, ClustersOf
<1>6. \A v \in ClaimsOf(p) : t <= now
  BY <1>4, <1>5 DEF SnapsOK
<1>7. \A v \in ClaimsOf(p) : t \in snaps[v] /\ claim[v] # "absent" => v \in RefsOf(ClustersOf(p), t)
  BY <1>5 DEF RefsOf, Matching, ListedClaims
<1> QED
  BY <1>2, <1>3, <1>4, <1>6, <1>7 DEF Past, ClaimsOf

\* A plan that has been validated keeps its restore point till the end of the
\* reconcile.
LEMMA ChosenKeeps ==
  ASSUME LifeInv, [Next]_vars, NEW p \in Stays, Chosen(p), Chosen(p)'
  PROVE  status'[p].time = status[p].time /\ status'[p].refs = status[p].refs
BY StaysFacts, EntryStep DEF LifeInv, EntryChange, EntryValidated, EntryHooked, EntryScaled, EntryRestored, Kept,
   Chosen, BeforeHooks

LEMMA PastStep ==
  ASSUME TypeInv, SnapsOK, [Next]_vars, NEW p \in Plans, Past(p), status'[p].time = status[p].time
  PROVE  Past(p)'
<1>1. now \in Nat /\ now' \in Nat /\ now <= now' /\ \A t \in Times : t \in Nat
  BY SnapsStep, ConstantsOK DEF ConstantsOK, Times
<1> QED
  BY <1>1 DEF Past, ClaimsOf

\* LockPlan, and nothing else, locks a plan, if no lock is carried over.
LEMMA OnlyLockPlan ==
  ASSUME NEW P, LifeInv, NoLeak(P), [Next]_vars, NEW p \in Plans \cap P, ~status[p].lock, status'[p].lock
  PROVE  /\ pc = "pvc" /\ plan = p /\ work = {} /\ pc' = "restore"
         /\ status'[p].time = status[p].time /\ status'[p].refs = status[p].refs
BY EntryStep DEF LifeInv, EntryChange, EntryValidated, EntryHooked, EntryScaled, EntryRestored, Kept,
   CarriedLock, NoLeak

\* A locked plan keeps its restore point.
LEMMA LockedKeeps ==
  ASSUME LifeInv, [Next]_vars, NEW p \in Stays, status[p].lock, status[p].time \in Times
  PROVE  status'[p].lock /\ status'[p].time = status[p].time /\ ~(pc \in RestoringAt /\ plan = p)
<1>1. ~(pc \in RestoringAt /\ plan = p)
  BY StaysFacts DEF LifeInv, DownInv, RestoreUnlocked
<1> QED
  BY <1>1, StaysFacts, BlankTime, EntryStep DEF LifeInv, EntryChange, EntryValidated, EntryHooked, EntryScaled,
     EntryRestored, Kept, CarriedLock, RequestedTime

LEMMA PointStep ==
  ASSUME NEW P \in SUBSET Stays, LifeInv, CurOK, PointInv(P), NoLeak(P), [Next]_vars
  PROVE  PointOK(P)'
<1> SUFFICES ASSUME NEW p \in P
             PROVE  /\ status'[p].lock =>
                          /\ Past(p)'
                          /\ \A v \in RestoredClaims(p) :
                                status'[p].time \in snaps'[v] => Settled(v, status[p].time)'
                    /\ ~status'[p].lock /\ Chosen(p)' =>
                          /\ Past(p)'
                          /\ \A v \in RestoredClaims(p) : status'[p].time \in snaps'[v] =>
                                v \in status'[p].refs \/ Settled(v, status[p].time)'
  BY DEF PointOK, RestoredClaims, ClaimsOf
<1>0. p \in Plans /\ p \in Stays /\ TypeInv /\ LoopOK /\ SnapsOK
  BY StaysFacts DEF LifeInv, DownInv, PointInv
<1>1. ASSUME Past(p), status'[p].time = status[p].time, NEW v \in RestoredClaims(p), status'[p].time \in snaps'[v]
      PROVE  status[p].time \in snaps[v]
  <2>1. v \in ClaimsOf(p) /\ v \in PVCs
    BY <1>1 DEF RestoredClaims, ClaimsOf
  <2>2. status[p].time <= now /\ status[p].time \in Nat
    BY <1>1, <2>1, ConstantsOK DEF ConstantsOK, Past, Times
  <2> QED
    BY <1>0, <1>1, <2>1, <2>2, SnapsStep
<1>2. ASSUME status'[p].time = status[p].time, NEW v \in RestoredClaims(p), Settled(v, status[p].time)
      PROVE  Settled(v, status[p].time)'
  <2>1. Settled(v, status[p].time) /\ v \in ClaimsOf(p)
    BY <1>2 DEF RestoredClaims
  <2>2. \A t : t = status[p].time => (Settled(v, t) => Settled(v, t)')
    BY <1>0, <2>1, SettledStep
  <2> QED
    BY <1>2, <2>1, <2>2 DEF Settled
<1>3. CASE status[p].lock
  <2>1. Past(p) /\ \A v \in RestoredClaims(p) : status[p].time \in snaps[v] => Settled(v, status[p].time)
    BY <1>3 DEF PointInv, PointOK
  <2>2. status'[p].lock /\ status'[p].time = status[p].time
    BY <1>3, <2>1, LockedKeeps DEF Past
  <2> QED
    BY <1>0, <1>1, <1>2, <2>1, <2>2, PastStep
<1>4. CASE ~status[p].lock /\ status'[p].lock
  <2>1. /\ pc = "pvc" /\ plan = p /\ work = {}
        /\ status'[p].time = status[p].time /\ status'[p].refs = status[p].refs
    BY <1>0, <1>4, OnlyLockPlan
  <2>2. Chosen(p)
    BY <2>1 DEF Chosen, BeforeHooks
  <2>3. Past(p) /\ \A v \in RestoredClaims(p) : status[p].time \in snaps[v] =>
           v \in status[p].refs \/ Settled(v, status[p].time)
    BY <1>4, <2>2 DEF PointInv, PointOK
  <2>4. \A v \in status[p].refs \ SkipRestoring : Settled(v, status[p].time)
    BY <2>1 DEF PointInv, RestoringOK, RestoringAt
  <2>5. \A v \in RestoredClaims(p) : status[p].time \in snaps[v] => Settled(v, status[p].time)
    BY <2>3, <2>4 DEF RestoredClaims
  <2> QED
    BY <1>0, <1>1, <1>2, <1>4, <2>1, <2>3, <2>5, PastStep
<1>5. CASE ~status[p].lock /\ ~status'[p].lock /\ Chosen(p)'
  <2>1. CASE Chosen(p)
    <3>1. status'[p].time = status[p].time /\ status'[p].refs = status[p].refs
      BY <1>5, <2>1, ChosenKeeps
    <3>2. Past(p) /\ \A v \in RestoredClaims(p) : status[p].time \in snaps[v] =>
             v \in status[p].refs \/ Settled(v, status[p].time)
      BY <1>5, <2>1 DEF PointInv, PointOK
    <3> QED
      BY <1>0, <1>1, <1>2, <1>5, <3>1, <3>2, PastStep
  <2>2. CASE ValidatePlan(p)
    BY <1>0, <1>5, <2>2, ValidatedPoint DEF Settled, RestoredClaims
  <2> QED
    BY <1>5, <2>1, <2>2, ChosenStep
<1> QED
  BY <1>3, <1>4, <1>5

LEMMA RestoringStep ==
  ASSUME NEW P \in SUBSET Stays, LifeInv, CurOK, PointInv(P), [Next]_vars
  PROVE  RestoringOK(P)'
<1> DEFINE Back(v, t) == claim'[v] = "absent" \/ data'[v] \in {t, Blank}
           Goal == /\ \A v \in status'[plan'].refs \ (SkipRestoring \cup work') : Back(v, status'[plan'].time)
                   /\ pc' \in {"pvcProvision", "pvcBind"} => Back(cur', status'[plan'].time)
<1> SUFFICES ASSUME pc' \in RestoringAt, plan' \in P PROVE Goal
  BY DEF RestoringOK, Settled
<1>0. TypeInv /\ LoopOK /\ RefsOK /\ plan' \in Plans
  BY StaysFacts DEF LifeInv, DownInv
<1>1. ASSUME pc \in RestoringAt, plan' = plan, UNCHANGED status, NEW v \in ClaimsOf(plan), Settled(v, status[plan].time)
      PROVE  Back(v, status[plan].time)
  <2>1. \A t : t = status[plan].time => (Settled(v, t) => Settled(v, t)')
    BY <1>0, <1>1, SettledStep
  <2> QED
    BY <1>1, <2>1 DEF Settled
<1>2. ASSUME pc \in RestoringAt, plan' = plan, UNCHANGED status
      PROVE  /\ \A v \in status[plan].refs \ (SkipRestoring \cup work) : Back(v, status[plan].time)
             /\ pc \in {"pvcProvision", "pvcBind"} => Back(cur, status[plan].time)
  <2>1. status[plan].refs \subseteq ClaimsOf(plan) /\ (pc # "pvc" => cur \in ClaimsOf(plan))
    BY <1>0, <1>2 DEF RefsOK, CurOK, LoopOK
  <2>2. /\ \A v \in status[plan].refs \ (SkipRestoring \cup work) : Settled(v, status[plan].time)
        /\ pc \in {"pvcProvision", "pvcBind"} => Settled(cur, status[plan].time)
    BY <1>2 DEF PointInv, RestoringOK
  <2> HIDE DEF Back
  <2> QED
    BY <1>1, <1>2, <2>1, <2>2
<1>3. CASE UNCHANGED <<localVars, status>>
  BY <1>2, <1>3 DEF localVars
<1>4. CASE (\E v \in PVCs : DeletePVC(v)) \/ PVCDeleted \/ NameVolume
  <2>1. UNCHANGED <<plan, status, work>> /\ pc \in RestoringAt
    BY <1>4 DEF DeletePVC, PVCDeleted, NameVolume, RestoringAt, clusterVars, resourceVars
  <2>2. pc' \in {"pvcProvision", "pvcBind"} => pc = "pvcProvision" /\ UNCHANGED cur
    BY <1>4 DEF DeletePVC, PVCDeleted, NameVolume
  <2> QED
    BY <1>2, <2>1, <2>2
<1>5. CASE CreatePVC
  <2>1. UNCHANGED <<plan, status, work, cur>> /\ pc = "pvcCreate" /\ data' = [data EXCEPT ![cur] = status[plan].time]
    BY <1>5 DEF CreatePVC, resourceVars
  <2>2. cur \in PVCs
    BY <1>0, <2>1 DEF CurOK, LoopOK, RestoringAt, ClaimsOf
  <2>3. data'[cur] = status[plan].time
    BY <1>0, <2>1, <2>2 DEF TypeInv, TypeOK, ClusterTypeOK
  <2> QED
    BY <1>2, <2>1, <2>3 DEF RestoringAt
<1>6. CASE PVCBound
  <2>1. UNCHANGED <<plan, status>> /\ pc = "pvcBind" /\ pc' = "pvc" /\ work' = work \ {cur}
    BY <1>6 DEF PVCBound, clusterVars, resourceVars
  <2> QED
    BY <1>2, <2>1 DEF RestoringAt
<1>7. ASSUME NEW p \in Plans, RestorePlan(p) PROVE Goal
  BY <1>7 DEF RestorePlan, ClaimsToRestore, clusterVars, resourceVars
<1>8. ~(StartRestore \/ PVCFails \/ LockPlan \/ EndRestore \/ \E p \in Plans : PassRestore(p))
  BY DEF StartRestore, PVCFails, LockPlan, EndRestore, PassRestore, SetPhase, Return, RestoringAt
<1> QED
  BY <1>3, <1>4, <1>5, <1>6, <1>7, <1>8, OnlyRestore DEF RestoreFromPlan

LEMMA PointInit == ASSUME NEW P \in SUBSET Stays PROVE Init => CurOK /\ PointInv(P)
<1> SUFFICES ASSUME Init PROVE CurOK /\ PointInv(P)
  OBVIOUS
<1>1. pc = "idle" /\ \A p \in Plans : status[p] = NoStatus
  BY DEF Init, ClusterInit
<1>2. SnapsOK
  BY DEF Init, ClusterInit, SnapsOK
<1> QED
  BY <1>1, <1>2, StaysFacts DEF CurOK, PointInv, PointOK, RestoringOK, RestoringAt, Chosen, BeforeHooks, NoStatus

LEMMA PointInvStep ==
  ASSUME NEW P \in SUBSET Stays
  PROVE  LifeInv /\ CurOK /\ PointInv(P) /\ NoLeak(P) /\ [Next]_vars => LifeInv' /\ CurOK' /\ PointInv(P)'
<1>1. LifeInv => TypeInv /\ LoopOK
  BY DEF LifeInv, DownInv
<1> QED
  BY <1>1, LifeInvStep, CurStep, SnapsStep, PointStep, RestoringStep DEF PointInv

\* What LockedHoldsRestorePoint says of the plans in P.
HoldsPoint(P) ==
    \A p \in P : \A v \in RestoredClaims(p) : status[p].lock /\ status[p].time \in snaps[v] => Settled(v, status[p].time)

\* A locked plan holds its restore point, as long as no lock is carried over to it,
\* whatever is carried to others: every retry validates and restores all claims anew,
\* so when LockPlan is reached each claim that has a snapshot of the time in the
\* status was made from it.
THEOREM PlansHold == ASSUME NEW P \in SUBSET Stays PROVE Spec /\ []NoLeak(P) => []HoldsPoint(P)
<1>1. PointInv(P) => HoldsPoint(P)
  BY DEF PointInv, PointOK, HoldsPoint
<1>2. LifeInv /\ CurOK /\ PointInv(P) /\ NoLeak(P) /\ [Next]_vars => (LifeInv /\ CurOK /\ PointInv(P))'
  BY PointInvStep
<1>3. Init => LifeInv /\ CurOK /\ PointInv(P)
  BY LifeInvInit, PointInit
<1> QED
  BY <1>1, <1>2, <1>3, PTL DEF Spec

\* All locked plans hold their restore points, as long as no lock is carried over.
THEOREM LockedHolds == Spec /\ []NoLeak(Stays) => []LockedHoldsRestorePoint
<1> DEFINE Inv == LifeInv /\ CurOK /\ PointInv(Stays)
<1>1. Inv => LockedHoldsRestorePoint
  BY DEF PointInv, PointOK, LockedHoldsRestorePoint, Settled, Stays
<1>2. Inv /\ NoLeak(Stays) /\ [Next]_vars => Inv'
  BY PointInvStep
<1>3. Init => Inv
  BY LifeInvInit, PointInit
<1> HIDE DEF Inv
<1> QED
  BY <1>1, <1>2, <1>3, PTL DEF Spec

\* Outside ValidateListSnapshots there is no carried lock.
CarryOK == carry => pc = "validate"

LEMMA CarryStep ==
  ASSUME TypeInv, CarryOK, [Next]_vars
  PROVE  /\ CarryOK'
         /\ carry' => UNCHANGED localVars \/ \E p \in Plans : ValidatePlan(p) \/ ValidatePlanFails(p)
<1>0. carry \in BOOLEAN
  BY DEF TypeInv, TypeOK
<1>1. CASE UNCHANGED localVars
  BY <1>1 DEF localVars, CarryOK
<1>2. CASE \E p \in Plans : ValidatePlan(p) \/ ValidatePlanFails(p)
  <2>1. pc' = "validate"
    BY <1>2 DEF ValidatePlan, ValidatePlanFails
  <2> QED
    BY <1>2, <2>1 DEF CarryOK
<1>3. CASE carry' = FALSE
  BY <1>3 DEF CarryOK
<1>4. carry' = FALSE \/ (carry' = carry /\ pc # "validate")
      \/ UNCHANGED localVars \/ \E p \in Plans : ValidatePlan(p) \/ ValidatePlanFails(p)
  <2>2. CASE GetResource \/ SetInitStatusRestorePlan \/ StartValidating \/ EndValidation
    BY <2>2 DEF GetResource, SetInitStatusRestorePlan, StartValidating, EndValidation, SetPhase, Return
  <2>3. CASE RunHooks
    BY <2>3 DEF RunHooks, StartPreHooks, StartPostHooks, EndPlanHooks, EndHooks, PlanHooks, HookSucceeds, HookFails,
       HookPasses, SetPhase, Return
  <2>4. CASE ScaleRestorePlan("down") \/ ScaleRestorePlan("up")
    BY <2>4 DEF ScaleRestorePlan, StartScale, TargetScaled, PlanScaled, EndScale, PassPlan, ScalePlan,
       PatchReplicas, TargetFails, SetPhase, Return, TargetAt, WaitAt
  <2>5. CASE RestoreFromPlan
    BY <2>5 DEF RestoreFromPlan, StartRestore, PVCDeleted, CreatePVC, NameVolume, PVCBound, PVCFails, LockPlan,
       EndRestore, PassRestore, RestorePlan, DeletePVC, SetPhase, Return, RestoringAt
  <2>6. CASE Abort \/ Complete
    BY <2>6 DEF Abort, Complete, Return
  <2> QED
    BY <2>2, <2>3, <2>4, <2>5, <2>6 DEF Next, Reconcile, Validation, vars
<1> QED
  <2>1. CASE carry' = carry /\ pc # "validate"
    BY <1>0, <2>1 DEF CarryOK
  <2> QED
    BY <1>1, <1>2, <1>3, <1>4, <2>1

\* A resource with one plan carries its lock nowhere.
LEMMA AlonePlan ==
  ASSUME \A p, q \in Plans : p = q
  PROVE  Spec => []NoLeak(Stays)
<1>1. ASSUME TypeInv, DownInv, CarryOK, NoLeak(Stays), [Next]_vars PROVE NoLeak(Stays)'
  <2> SUFFICES ASSUME pc' = "validate", carry', NEW p \in todo' \cap Stays PROVE status'[p].lock
    BY DEF NoLeak
  <2>0. p \in Plans /\ TypeInv'
    BY <1>1, TypeStep DEF TypeInv, TypeOK
  <2>1. CASE UNCHANGED localVars
    <3>1. status[p].lock
      BY <1>1, <2>1 DEF localVars, NoLeak
    <3>2. pc \notin RestoringAt
      BY <2>1 DEF localVars, RestoringAt
    <3> QED
      BY <1>1, <2>0, <3>1, <3>2, EntryStep DEF DownInv, EntryChange, EntryValidated, EntryHooked, EntryScaled,
         EntryRestored, Kept, CarriedLock
  <2>2. ASSUME NEW q \in Plans, ValidatePlan(q) \/ ValidatePlanFails(q) PROVE FALSE
    <3>1. q \in todo /\ todo \subseteq seen /\ pc = "validate"
      BY <1>1, <2>2 DEF ValidatePlan, ValidatePlanFails, DownInv, LoopOK, RestoringAt
    <3>2. p \in todo \ {q} \/ p \in seen' \ seen
      BY <2>2 DEF ValidatePlan, ValidatePlanFails, RangeOver
    <3> QED
      BY <2>0, <3>1, <3>2
  <2> QED
    BY <1>1, <2>1, <2>2, CarryStep
<1>2. TypeInv /\ CarryOK /\ [Next]_vars => CarryOK'
  BY CarryStep
<1>3. Init => TypeInv /\ DownInv /\ CarryOK /\ NoLeak(Stays)
  <2>1. Init => CarryOK /\ NoLeak(Stays)
    BY DEF Init, CarryOK, NoLeak
  <2> QED
    BY <2>1, TypeInit, DownInit
<1> QED
  BY <1>1, <1>2, <1>3, TypeStep, DownStep, PTL DEF Spec

-----------------------------------------------------------------------------
(* No cluster runs on volumes that are half restored.                       *)

\* Pods come from the workload controllers, replicas from the scale-up and from
\* database operators.
LEMMA WorkloadsChange ==
  ASSUME TypeInv, [Next]_vars, NEW w \in Workloads
  PROVE  /\ pods'[w] /\ ~pods[w] => StartPods(w)
         /\ on'[w] /\ ~on[w] => pc = "upTarget" \/ (w \in Clusters /\ OperatorRescales(w))
<1>0. pods \in [Workloads -> BOOLEAN] /\ on \in [Workloads -> BOOLEAN]
  BY DEF TypeInv, TypeOK, ClusterTypeOK
<1>1. CASE UNCHANGED workloadVars
  BY <1>1 DEF workloadVars
<1>2. CASE Environment
  <2>1. CASE \E x \in Workloads : StartPods(x)
    BY <1>0, <2>1 DEF StartPods
  <2>2. CASE \E x \in Workloads : StopPods(x)
    BY <1>0, <2>2 DEF StopPods
  <2>3. CASE \E c \in Clusters : OperatorRescales(c)
    BY <1>0, <2>3 DEF OperatorRescales
  <2> QED
    BY <1>1, <1>2, <2>1, <2>2, <2>3 DEF Environment, RecreateClaim, FinishDelete, ProvisionVolume, BindClaim,
       TakeSnapshots, ExpireSnapshots, AddPlan, RemovePlan
<1>3. CASE UNCHANGED vars \/ Abort \/ Complete \/ Validation \/ RunHooks
  BY <1>1, <1>3 DEF vars, clusterVars, workloadVars, Abort, Complete, Validation, GetResource,
     SetInitStatusRestorePlan, StartValidating, EndValidation, ValidatePlan, ValidatePlanFails, SetPhase, RunHooks,
     StartPreHooks, StartPostHooks, EndPlanHooks, EndHooks, PlanHooks, HookSucceeds, HookFails, HookPasses
<1>4. CASE ScaleRestorePlan("down") \/ ScaleRestorePlan("up")
  <2>1. CASE \E x \in Workloads : PatchReplicas("down", x)
    BY <1>0, <2>1 DEF PatchReplicas
  <2>2. CASE \E x \in Workloads : PatchReplicas("up", x)
    BY <1>0, <2>2 DEF PatchReplicas, TargetAt
  <2> QED
    BY <1>1, <1>4, <2>1, <2>2 DEF ScaleRestorePlan, StartScale, TargetScaled, PlanScaled, EndScale, PassPlan,
       ScalePlan, TargetFails, SetPhase, clusterVars
<1>5. CASE RestoreFromPlan
  BY <1>1, <1>5 DEF RestoreFromPlan, StartRestore, PVCDeleted, CreatePVC, NameVolume, PVCBound, PVCFails,
     LockPlan, EndRestore, PassRestore, RestorePlan, DeletePVC, SetPhase, clusterVars
<1> QED
  BY <1>2, <1>3, <1>4, <1>5 DEF Next, Reconcile

LEMMA PodsHoldStep == TypeInv /\ LoopOK /\ CurOK /\ PodsHold /\ [Next]_vars => PodsHold'
<1> SUFFICES ASSUME TypeInv, LoopOK, CurOK, PodsHold, [Next]_vars, NEW v \in PVCs, pods'[ClusterOf[v]]
             PROVE  claim'[v] \in {"bound", "terminating"}
  BY DEF PodsHold
<1> DEFINE c == ClusterOf[v]
<1>0. c \in Clusters /\ c \in Workloads /\ claim \in [PVCs -> ClaimStates]
  BY ConstantsOK DEF ConstantsOK, Workloads, TypeInv, TypeOK, ClusterTypeOK
<1>1. CASE ~pods[c]
  <2>1. StartPods(c)
    BY <1>0, <1>1, WorkloadsChange
  <2> QED
    BY <2>1 DEF StartPods, volumeVars
<1>2. CASE pods[c]
  <2>1. claim[v] \in {"bound", "terminating"}
    BY <1>2 DEF PodsHold
  <2>2. CASE claim'[v] = claim[v]
    BY <2>1, <2>2
  <2>3. CASE Environment
    <3>1. CASE \E u \in PVCs : RecreateClaim(u) \/ ProvisionVolume(u) \/ BindClaim(u)
      BY <1>0, <2>1, <3>1 DEF RecreateClaim, ProvisionVolume, BindClaim
    <3>2. CASE \E u \in PVCs : FinishDelete(u)
      BY <1>0, <1>2, <2>1, <3>2 DEF FinishDelete
    <3> QED
      BY <2>2, <2>3, <3>1, <3>2 DEF Environment, StartPods, StopPods, OperatorRescales, TakeSnapshots,
         ExpireSnapshots, AddPlan, RemovePlan, volumeVars
  <2>4. CASE UNCHANGED vars \/ Abort \/ Complete \/ Validation \/ RunHooks
    BY <2>2, <2>4 DEF vars, clusterVars, volumeVars, Abort, Complete, Validation, GetResource,
       SetInitStatusRestorePlan, StartValidating, EndValidation, ValidatePlan, ValidatePlanFails, SetPhase, RunHooks,
       StartPreHooks, StartPostHooks, EndPlanHooks, EndHooks, PlanHooks, HookSucceeds, HookFails, HookPasses
  <2>5. CASE ScaleRestorePlan("down") \/ ScaleRestorePlan("up")
    BY <2>2, <2>5 DEF clusterVars, volumeVars, ScaleRestorePlan, StartScale, TargetScaled, PlanScaled, EndScale,
       PassPlan, ScalePlan, PatchReplicas, TargetFails, SetPhase
  <2>6. CASE RestoreFromPlan
    <3>1. CASE \E u \in PVCs : DeletePVC(u)
      BY <1>0, <2>1, <3>1 DEF DeletePVC
    <3>2. CASE CreatePVC
      BY <1>0, <2>1, <3>2 DEF CreatePVC
    <3> QED
      BY <2>2, <2>6, <3>1, <3>2 DEF RestoreFromPlan, StartRestore, PVCDeleted, NameVolume, PVCBound, PVCFails,
         LockPlan, EndRestore, PassRestore, RestorePlan, SetPhase, clusterVars, volumeVars
  <2> QED
    BY <2>3, <2>4, <2>5, <2>6 DEF Next, Reconcile
<1> QED
  BY <1>1, <1>2

\* What restorePVC makes a claim of a plan from is a snapshot.
LEMMA RestoresPast ==
  ASSUME NEW P \in SUBSET Stays, LifeInv, PointInv(P), NEW p \in P, pc \in RestoringAt, plan = p
  PROVE  ~status[p].lock /\ status[p].time \in Times
<1>1. ~status[p].lock
  BY StaysFacts DEF LifeInv, DownInv, RestoreUnlocked
<1>2. Chosen(p)
  BY DEF Chosen, BeforeHooks, RestoringAt
<1> QED
  BY <1>1, <1>2 DEF PointInv, PointOK, Past

\* The data from before the restore does not come back.
LEMMA OldStep ==
  ASSUME NEW P \in SUBSET Stays, LifeInv, CurOK, PointInv(P), [Next]_vars, NEW p \in P, NEW v \in ClaimsOf(p), Old(v)'
  PROVE  Old(v)
<1>1. v \in PVCs /\ TypeInv /\ LoopOK /\ (v \in ClaimsOf(plan) => plan = p)
  BY DEF ClaimsOf, LifeInv, DownInv
<1>2. ASSUME data'[v] # data[v] \/ (claim[v] = "absent" /\ claim'[v] # "absent") PROVE FALSE
  <2>1. data'[v] = Blank \/ (plan = p /\ pc \in RestoringAt /\ data'[v] = status[p].time)
    BY <1>1, <1>2, DataStep
  <2>2. Blank # Original
    BY ConstantsOK DEF ConstantsOK, Blank, Original
  <2> QED
    BY <2>1, <2>2, RestoresPast, BlankTime DEF Old
<1> QED
  BY <1>2 DEF Old

LEMMA CoverStep ==
  ASSUME NEW P \in SUBSET Stays, LifeInv, CurOK, PointInv(P), SnapsCover(P), [Next]_vars
  PROVE  SnapsCover(P)'
<1> SUFFICES ASSUME NEW p \in P, NEW v \in ClaimsOf(p), NEW w \in ClaimsOf(p), ClusterOf[v] = ClusterOf[w],
                    Old(w)'
             PROVE  snaps'[v] \subseteq snaps'[w]
  BY DEF SnapsCover, Old, ClaimsOf
<1>0. v \in PVCs /\ w \in PVCs /\ snaps \in [PVCs -> SUBSET Times]
  BY DEF ClaimsOf, LifeInv, TypeInv, TypeOK, ClusterTypeOK
<1>1. Old(w)
  BY OldStep
<1>2. snaps[v] \subseteq snaps[w]
  BY <1>1 DEF SnapsCover, Old
<1>3. CASE UNCHANGED snaps
  BY <1>2, <1>3
<1>4. ASSUME NEW q \in Plans, TakeSnapshots(q) PROVE snaps'[v] \subseteq snaps'[w]
  <2>1. v \in ClaimsOf(q) => w \in ClaimsOf(q)
    BY <1>0 DEF ClaimsOf
  <2> QED
    BY <1>0, <1>1, <1>2, <1>4, <2>1 DEF TakeSnapshots, Old
<1>5. ASSUME NEW t \in Expirable, ExpireSnapshots(t) PROVE snaps'[v] \subseteq snaps'[w]
  BY <1>0, <1>2, <1>5 DEF ExpireSnapshots
<1> QED
  BY <1>3, <1>4, <1>5, SnapsChange

\* While it is not locked, a plan with a restored claim stays off: only the scale-up
\* and its operators start workloads, and the first comes after the lock.
LEMMA OffStep ==
  ASSUME LifeInv, CurOK, PodsHold, [Next]_vars, NEW p \in LifePlans, ~status[p].lock,
         (\E v \in ClaimsOf(p) : data[v] \in Times) => Off(p),
         \E v \in ClaimsOf(p) : data'[v] \in Times
  PROVE  Off(p)'
<1>0. /\ p \in Plans \ Late /\ p \in Plans \ Removable /\ p \in Stays /\ Has(p) /\ Waits(p)
      /\ TypeInv /\ LoopOK
  BY LifePlanFacts, LifeHas, StaysFacts DEF LifeInv, DownInv
<1>1. \A w \in TargetsOf(p) : w \in Workloads /\ (w \in Clusters => PlanOf[w] = p)
  BY DEF TargetsOf, ClustersOf, OperatorsOf, Workloads
<1>2. \A v \in ClaimsOf(p) : v \in PVCs /\ ClusterOf[v] \in TargetsOf(p)
  BY ConstantsOK DEF ConstantsOK, ClaimsOf, TargetsOf, ClustersOf
<1>3. pc # "upTarget"
  BY <1>0 DEF LifeInv, UpInv, LockedOK, UpAt, UpLoop
<1>4. ASSUME NEW v \in ClaimsOf(p), data'[v] \in Times, data[v] \notin Times
      PROVE  CreatePVC /\ v = cur /\ plan = p /\ pc \in RestoringAt
  BY <1>0, <1>2, <1>4, DataStep, BlankTime DEF ClaimsOf
<1>5. ASSUME NEW v \in ClaimsOf(p), data'[v] \in Times, data[v] \notin Times
      PROVE  UNCHANGED workloadVars /\ ~pods[ClusterOf[v]]
  BY <1>2, <1>4, <1>5 DEF CreatePVC, PodsHold
<1>6. /\ \A w \in TargetsOf(p) : ~on[w]
      /\ \A o \in OperatorsOf(p) : ~pods[o]
  <2>1. CASE \E v \in ClaimsOf(p) : data[v] \in Times
    BY <2>1 DEF Off
  <2>2. CASE \A v \in ClaimsOf(p) : data[v] \notin Times
    <3>1. plan = p /\ pc \in RestoringAt
      BY <1>4, <2>2
    <3>2. Due(p)
      BY <1>0, <3>1 DEF Due, LoopOK
    <3>3. Quiet(p)
      BY <1>0, <3>1, <3>2 DEF LifeInv, DownInv, PlansDown
    <3> QED
      BY <1>0, <3>3 DEF Quiet, Waits, Stopped, TargetsOf, OperatorsOf
  <2> QED
    BY <2>1, <2>2
<1>7. ASSUME NEW w \in TargetsOf(p) PROVE ~on'[w]
  <2>1. ~(w \in Clusters /\ OperatorRescales(w))
    BY <1>1, <1>6, <1>7 DEF OperatorRescales
  <2> QED
    BY <1>0, <1>1, <1>3, <1>6, <1>7, <2>1, WorkloadsChange
<1>8. ASSUME NEW w \in TargetsOf(p), pods'[w] PROVE pods[w]
  BY <1>0, <1>1, <1>6, <1>8, WorkloadsChange DEF StartPods
<1>9. ASSUME NEW v \in ClaimsOf(p), data'[v] \in Times PROVE ~pods'[ClusterOf[v]]
  <2>1. CASE data[v] \in Times
    BY <1>2, <1>8, <1>9, <2>1 DEF Off
  <2>2. CASE data[v] \notin Times
    BY <1>2, <1>5, <1>8, <1>9, <2>2
  <2> QED
    BY <2>1, <2>2
<1>10. \A o \in OperatorsOf(p) : ~pods'[o]
  BY <1>6, <1>8 DEF TargetsOf
<1> QED
  BY <1>7, <1>9, <1>10 DEF Off, TargetsOf, ClustersOf, OperatorsOf, ClaimsOf

LEMMA HalfStep ==
  ASSUME NEW P \in SUBSET Stays, LifeInv, CurOK, PointInv(P), HalfInv(P), NoLeak(P), [Next]_vars
  PROVE  HalfOK(P)'
<1> SUFFICES ASSUME NEW p \in P \cap LifePlans
             PROVE  /\ status'[p].lock => \A v \in RestoredClaims(p) : ~Old(v)'
                    /\ ~status'[p].lock /\ Chosen(p)' => \A v \in RestoredClaims(p) : Old(v)' => v \in status'[p].refs
                    /\ ~status'[p].lock /\ (\E v \in ClaimsOf(p) : data'[v] \in Times) => Off(p)'
  BY DEF HalfOK, LifePlans, RestoredClaims, ClaimsOf, OperatorsOf
<1>0. p \in Stays /\ p \in Plans /\ TypeInv /\ SnapsOK
  BY StaysFacts DEF LifeInv, PointInv
<1>1. \A v \in RestoredClaims(p) : v \in ClaimsOf(p) /\ v \in PVCs /\ v \notin SkipRestoring
  BY DEF RestoredClaims, ClaimsOf
<1>2. ASSUME NEW v \in RestoredClaims(p), Old(v)' PROVE Old(v)
  BY <1>0, <1>1, <1>2, OldStep
<1>3. status[p].lock => status'[p].lock
  BY <1>0, LockedKeeps DEF PointInv, PointOK, Past
<1>4. CASE status'[p].lock
  <2>1. CASE status[p].lock
    BY <1>2, <1>4, <2>1 DEF HalfInv, HalfOK
  <2>2. CASE ~status[p].lock
    <3>1. pc = "pvc" /\ plan = p /\ work = {}
      BY <1>0, <1>4, <2>2, OnlyLockPlan
    <3>2. Chosen(p) /\ pc \in RestoringAt
      BY <3>1 DEF Chosen, BeforeHooks, RestoringAt
    <3>3. \A v \in RestoredClaims(p) : Old(v) => v \in status[p].refs
      BY <2>2, <3>2 DEF HalfInv, HalfOK
    <3>4. \A v \in status[p].refs \ SkipRestoring : Settled(v, status[p].time)
      BY <1>0, <3>1, <3>2 DEF PointInv, RestoringOK
    <3>5. status[p].time \in Times /\ Blank # Original
      BY <1>0, <3>1, <3>2, RestoresPast, ConstantsOK DEF ConstantsOK, Blank, Original
    <3>6. \A v \in RestoredClaims(p) : ~Old(v)
      BY <1>1, <3>3, <3>4, <3>5, BlankTime DEF Old, Settled
    <3> QED
      BY <1>2, <1>4, <3>6
  <2> QED
    BY <2>1, <2>2
<1>5. CASE ~status'[p].lock
  <2>1. ASSUME Chosen(p)', NEW v \in RestoredClaims(p), Old(v)' PROVE v \in status'[p].refs
    <3>1. CASE Chosen(p)
      BY <1>0, <1>2, <1>3, <1>5, <2>1, <3>1, ChosenKeeps DEF HalfInv, HalfOK
    <3>2. CASE ValidatePlan(p)
      <4>1. /\ UNCHANGED <<claim, data, snaps, now>>
            /\ \A u \in ClaimsOf(p) : status'[p].time \in snaps[u] => u \in status'[p].refs \/ claim[u] = "absent"
            /\ \A c \in ClustersOf(p) : \E u \in PVCs : ClusterOf[u] = c /\ status'[p].time \in snaps[u]
        BY <1>0, <3>2, ValidatedPoint
      <4>2. Old(v)
        BY <1>2, <2>1
      <4>3. ClusterOf[v] \in ClustersOf(p)
        BY <1>1, ConstantsOK DEF ConstantsOK, ClaimsOf, ClustersOf
      <4>4. PICK u \in PVCs : ClusterOf[u] = ClusterOf[v] /\ status'[p].time \in snaps[u]
        BY <4>1, <4>3
      <4>5. u \in ClaimsOf(p)
        BY <1>1, <4>4 DEF ClaimsOf
      <4>6. snaps[u] \subseteq snaps[v]
        BY <1>0, <1>1, <4>2, <4>4, <4>5 DEF HalfInv, SnapsCover, Old
      <4> QED
        BY <1>1, <4>1, <4>2, <4>4, <4>6 DEF Old
    <3> QED
      BY <1>0, <2>1, <3>1, <3>2, ChosenStep
  <2>2. ASSUME \E v \in ClaimsOf(p) : data'[v] \in Times PROVE Off(p)'
    BY <1>3, <1>5, <2>2, OffStep DEF HalfInv, HalfOK
  <2> QED
    BY <1>5, <2>1, <2>2
<1> QED
  BY <1>4, <1>5

LEMMA HalfInit == ASSUME TakenTogether, NEW P \in SUBSET Stays PROVE Init => HalfInv(P)
<1> SUFFICES ASSUME Init PROVE HalfInv(P)
  OBVIOUS
<1>1. /\ pc = "idle" /\ snaps = Taken
      /\ \A p \in Plans : ~status[p].lock
      /\ \A v \in PVCs : claim[v] = "bound" /\ data[v] = Original
  BY DEF Init, ClusterInit, NoStatus
<1>2. \A p \in LifePlans : p \in Plans
  BY LifePlanFacts
<1>3. PodsHold
  BY <1>1 DEF PodsHold
<1>4. SnapsCover(P)
  BY <1>1 DEF SnapsCover, TakenTogether, ClaimsOf
<1>5. HalfOK(P)
  BY <1>1, <1>2, BlankTime DEF HalfOK, Chosen, BeforeHooks, ClaimsOf
<1> QED
  BY <1>3, <1>4, <1>5 DEF HalfInv

\* What NeverRunsHalfRestored says of the plans in P.
RunsWhole(P) ==
    \A c \in Clusters : pods[c] /\ PlanOf[c] \in P \cap LifePlans =>
        \A v, w \in {u \in PVCs \ SkipRestoring : ClusterOf[u] = c} : data[v] \in Times => data[w] # Original

WholeInv(P) == LifeInv /\ CurOK /\ PointInv(P) /\ HalfInv(P)

\* Until the lock a plan with a restored claim is off; LockPlan is reached when each
\* claim the validation referred to was restored, and it refers to every claim that
\* still holds the old data.
LEMMA WholeFacts ==
  ASSUME TakenTogether, NEW P \in SUBSET Stays
  PROVE  /\ Init => WholeInv(P)
         /\ WholeInv(P) /\ NoLeak(P) /\ [Next]_vars => WholeInv(P)'
         /\ WholeInv(P) => RunsWhole(P)
<1>1. Init => WholeInv(P)
  BY LifeInvInit, PointInit, HalfInit DEF WholeInv
<1>2. ASSUME WholeInv(P), NoLeak(P), [Next]_vars PROVE WholeInv(P)'
  <2>1. /\ LifeInv /\ CurOK /\ PointInv(P) /\ HalfInv(P)
        /\ TypeInv /\ LoopOK
    BY <1>2 DEF WholeInv, LifeInv, DownInv
  <2>2. PodsHold' /\ SnapsCover(P)'
    BY <1>2, <2>1, PodsHoldStep, CoverStep DEF HalfInv
  <2>3. LifeInv' /\ CurOK' /\ PointInv(P)' /\ HalfOK(P)'
    BY <1>2, <2>1, PointInvStep, HalfStep
  <2> QED
    BY <2>2, <2>3 DEF WholeInv, HalfInv
<1>3. WholeInv(P) => RunsWhole(P)
  <2> SUFFICES ASSUME WholeInv(P), NEW c \in Clusters, pods[c], PlanOf[c] \in P \cap LifePlans,
                      NEW v \in PVCs \ SkipRestoring, NEW w \in PVCs \ SkipRestoring,
                      ClusterOf[v] = c, ClusterOf[w] = c, data[v] \in Times
               PROVE  data[w] # Original
    BY DEF RunsWhole
  <2>1. v \in ClaimsOf(PlanOf[c]) /\ w \in RestoredClaims(PlanOf[c])
    BY DEF ClaimsOf, RestoredClaims
  <2>2. status[PlanOf[c]].lock
    BY <2>1 DEF WholeInv, HalfInv, HalfOK, Off
  <2>3. ~Old(w)
    BY <2>1, <2>2 DEF WholeInv, HalfInv, HalfOK
  <2>4. claim[w] # "absent"
    BY DEF WholeInv, HalfInv, PodsHold
  <2> QED
    BY <2>3, <2>4 DEF Old
<1> QED
  BY <1>1, <1>2, <1>3

\* No cluster of a plan runs half restored, when the snapshots there are at the start
\* were taken of whole clusters and no lock is carried over to the plan, whatever is
\* carried to others.
THEOREM PlansRunWhole ==
  ASSUME TakenTogether, NEW P \in SUBSET Stays
  PROVE  Spec /\ []NoLeak(P) => []RunsWhole(P)
<1>1. /\ Init => WholeInv(P)
      /\ WholeInv(P) /\ NoLeak(P) /\ [Next]_vars => WholeInv(P)'
      /\ WholeInv(P) => RunsWhole(P)
  BY WholeFacts
<1> QED
  BY <1>1, PTL DEF Spec

\* No cluster at all runs half restored, when no lock is carried over.
THEOREM NeverHalfRestored == TakenTogether => (Spec /\ []NoLeak(Stays) => []NeverRunsHalfRestored)
<1> SUFFICES ASSUME TakenTogether PROVE Spec /\ []NoLeak(Stays) => []NeverRunsHalfRestored
  OBVIOUS
<1>1. RunsWhole(Stays) => NeverRunsHalfRestored
  BY StaysFacts DEF RunsWhole, NeverRunsHalfRestored
<1>2. /\ Init => WholeInv(Stays)
      /\ WholeInv(Stays) /\ NoLeak(Stays) /\ [Next]_vars => WholeInv(Stays)'
      /\ WholeInv(Stays) => RunsWhole(Stays)
  BY WholeFacts
<1> QED
  BY <1>1, <1>2, PTL DEF Spec

\* A resource with a single plan needs neither hypothesis on the locks.
THEOREM AloneHolds ==
  (\A p, q \in Plans : p = q) =>
     /\ Spec => []LockedHoldsRestorePoint
     /\ TakenTogether => (Spec => []NeverRunsHalfRestored)
<1> SUFFICES ASSUME \A p, q \in Plans : p = q
             PROVE  /\ Spec => []LockedHoldsRestorePoint
                    /\ TakenTogether => (Spec => []NeverRunsHalfRestored)
  OBVIOUS
<1>1. Spec => []NoLeak(Stays)
  BY AlonePlan
<1>2. Spec => []LockedHoldsRestorePoint
  BY <1>1, LockedHolds, PTL
<1>3. ASSUME TakenTogether PROVE Spec => []NeverRunsHalfRestored
  BY <1>1, <1>3, NeverHalfRestored, PTL
<1> QED
  BY <1>2, <1>3
=============================================================================
