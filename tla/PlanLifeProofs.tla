--------------------------- MODULE PlanLifeProofs ---------------------------
(* Proofs about Reconciler: what its steps do to a plan from the restore to *)
(* the phase Completed, and that each plan leads the life of PlanLife.      *)
EXTENDS ReconcilerProofs

\* The plan is one the reconcile has, or between two reconciles the resource; one
\* that was there at the start and is taken out does not come back.
Has(p) == IF pc = "idle" THEN p \in spec ELSE p \in seen

HasOK ==
    /\ pc = "idle" => seen = {}
    /\ \A p \in Plans \ Late : p \in spec => Has(p)

\* A plan without an entry has never been touched.
EntryOK ==
    \A p \in Plans : ~status[p].known => ~status[p].lock /\ status[p].ups = 0 /\ status[p].done = {}

BeforeHooks == {"idle", "init", "initialised", "validate"}

\* After the validation every plan has its entry.
ValidatedOK ==
    \A p \in Plans \ Late : Has(p) =>
        /\ pc = "validate" /\ p \notin todo => status[p].known
        /\ pc \notin BeforeHooks => status[p].known

\* From the scale-up to the end of the reconcile.
UpLoop == {"up", "upTarget", "upWait"}
PostAt == {"setPostHooks", "postHooks", "postHook", "setCompleted"}
UpAt   == {"setUp"} \cup UpLoop \cup PostAt

\* The restore ends with every plan locked.
LockedOK ==
    \A p \in Plans \ Late : Has(p) =>
        /\ pc = "restore" /\ p \notin todo => status[p].lock
        /\ pc \in RestoringAt /\ p \notin todo /\ p # plan => status[p].lock
        /\ pc \in UpAt => status[p].lock
        /\ pc \in RestoringAt /\ p = plan => ~status[p].lock

\* A scale-up that is counted is that of a locked plan and has brought all
\* workloads up; the loop over the targets of a plan gets there one by one.
RanUp(p) == \A w \in TargetsOf(p) : Runs(w)

UpsOK ==
    \A p \in Plans \ Late : Has(p) =>
        /\ status[p].ups = 1 => status[p].lock /\ RanUp(p)
        /\ pc \in ScalingAt /\ p = plan => status[p].ups = 0
        /\ pc \in {"downTarget", "downWait"} /\ p = plan => ~status[p].lock
        /\ pc = "up" /\ p \notin todo => status[p].ups = 1
        /\ pc \in {"upTarget", "upWait"} /\ p \notin todo /\ p # plan => status[p].ups = 1
        /\ pc \in PostAt => status[p].ups = 1

TargetsUp ==
    pc \in {"upTarget", "upWait"} =>
        /\ \A w \in TargetsOf(plan) \ work : Runs(w)
        /\ pc = "upWait" => on[cur]

\* The hooks of a plan that are left are its own and have not succeeded.
HookWorkOK ==
    /\ pc = "preHook" => work \subseteq PreHooksOf(plan)
    /\ pc = "postHook" => work \subseteq PostHooksOf(plan)
    /\ pc \in {"preHook", "postHook"} => work \cap status[plan].done \subseteq NodeHooks

PostHooked(p) == PostHooksOf(p) \ NodeHooks \subseteq status[p].done

PostHooksOK ==
    /\ \A p \in Plans \ Late : Has(p) =>
          /\ pc = "postHooks" /\ p \notin todo => PostHooked(p)
          /\ pc = "postHook" /\ p \notin todo /\ p # plan => PostHooked(p)
          /\ pc = "setCompleted" => PostHooked(p)
    /\ pc = "postHook" => PostHooksOf(plan) \ NodeHooks \subseteq status[plan].done \cup work

CompletedOK ==
    phase = "Completed" =>
        /\ pc \in {"idle", "init"}
        /\ \A p \in Plans \ Late : Has(p) => status[p].ups = 1 /\ PostHooked(p)

UpInv == /\ HasOK /\ EntryOK /\ ValidatedOK /\ LockedOK /\ UpsOK /\ TargetsUp /\ HookWorkOK
         /\ PostHooksOK /\ CompletedOK

-----------------------------------------------------------------------------
(* How the reconcile goes from one loop over plans to the next, and from    *)
(* plan to plan: each step is one of these, or ends the reconcile, or does  *)
(* not move it.                                                             *)

BetweenLoops ==
    \/ pc \in {"idle", "init"} /\ pc' \in {"init", "initialised"}
    \/ pc = "validate" /\ todo = {} /\ pc' \in {"setPreHooks", "setDown"}
    \/ pc = "preHooks" /\ todo = {} /\ pc' = "setDown"
    \/ pc = "down" /\ todo = {} /\ pc' = "setRestoring"
    \/ pc = "restore" /\ todo = {} /\ pc' = "setUp"
    \/ pc = "up" /\ todo = {} /\ pc' = "setPostHooks"
    \/ pc = "up" /\ todo = {} /\ pc' = "setCompleted" /\ \A p \in seen : PostHooksOf(p) = {}
    \/ pc = "postHooks" /\ todo = {} /\ pc' = "setCompleted"

LoopStarts ==
    \/ pc = "initialised" /\ pc' = "validate" /\ todo' = seen'
    \/ pc = "setPreHooks" /\ pc' = "preHooks"
    \/ pc = "setDown" /\ pc' = "down" /\ todo' = seen'
    \/ pc = "setRestoring" /\ pc' = "restore" /\ todo' = {p \in Plans : status[p].known}
    \/ pc = "setUp" /\ pc' = "up" /\ todo' = seen'
    \/ pc = "setPostHooks" /\ pc' = "postHooks" /\ todo' = {p \in seen : PostHooksOf(p) # {}}

LoopPasses(p) ==
    /\ p \in todo /\ todo \ {p} \subseteq todo' /\ pc' = pc
    /\ \/ pc = "validate" /\ EntryValidated(p)
       \/ pc = "down" /\ SkipScale("down", p)
       \/ pc = "up" /\ SkipScale("up", p)
       \/ pc = "restore" /\ SkipRestore(p)

LoopTakes(p) ==
    /\ p \in todo /\ todo \ {p} \subseteq todo' /\ plan' = p
    /\ \/ pc = "preHooks" /\ pc' = "preHook" /\ work' = Pending(PreHooksOf(p))
       \/ pc = "postHooks" /\ pc' = "postHook" /\ work' = Pending(PostHooksOf(p))
       \/ pc = "down" /\ pc' = "downTarget" /\ ~SkipScale("down", p) /\ work' = TargetsOf(p)
       \/ pc = "up" /\ pc' = "upTarget" /\ ~SkipScale("up", p) /\ work' = TargetsOf(p)
       \/ pc = "restore" /\ pc' = "pvc" /\ ~SkipRestore(p)

InPlan ==
    /\ UNCHANGED <<todo, plan>>
    /\ \/ /\ pc \in {"preHook", "postHook"} /\ pc' = pc
          /\ \E h \in work : /\ work' = work \ {h}
                            /\ \/ status'[plan].done = status[plan].done \cup {h}
                               \/ h \in NodeHooks /\ UNCHANGED status
       \/ pc \in {"downTarget", "downWait"} /\ pc' \in {"downTarget", "downWait"}
       \/ pc \in {"upTarget", "upWait"} /\ pc' \in {"upTarget", "upWait"}
       \/ pc \in RestoringAt /\ pc' \in RestoringAt /\ UNCHANGED status

LoopLeaves ==
    /\ work = {} /\ todo \subseteq todo'
    /\ \/ pc = "preHook" /\ pc' = "preHooks"
       \/ pc = "postHook" /\ pc' = "postHooks"
       \/ pc = "downTarget" /\ pc' = "down"
       \/ pc = "upTarget" /\ pc' = "up" /\ status'[plan].ups = 1
       \/ pc = "pvc" /\ pc' = "restore" /\ status'[plan].lock

Moves ==
    \/ UNCHANGED <<localVars, status>>
    \/ pc' = "idle" /\ Return
    \/ BetweenLoops /\ UNCHANGED status
    \/ LoopStarts /\ UNCHANGED status
    \/ \E p \in Plans : LoopPasses(p)
    \/ \E p \in Plans : LoopTakes(p) /\ UNCHANGED status
    \/ InPlan \/ LoopLeaves

LEMMA MovesStep ==
  ASSUME TypeInv, [Next]_vars
  PROVE  Moves
<1>1. CASE UNCHANGED <<localVars, status>>
  BY <1>1 DEF Moves
<1>2. CASE Return
  BY <1>2 DEF Moves, Return
<1>3. CASE UNCHANGED vars
  BY <1>1, <1>3 DEF vars, clusterVars, resourceVars
<1>4. CASE Environment /\ UNCHANGED <<localVars, faults>>
  BY <1>1, <1>4, EnvironmentKeepsStatus
<1>5. CASE Abort \/ Complete
  BY <1>2, <1>5 DEF Abort, Complete
<1>6. CASE Validation
  <2>1. CASE GetResource \/ SetInitStatusRestorePlan
    BY <2>1 DEF GetResource, SetInitStatusRestorePlan, SetPhase, Moves, BetweenLoops, clusterVars, resourceVars
  <2>2. CASE StartValidating
    BY <2>2 DEF StartValidating, SetPhase, Moves, LoopStarts
  <2>3. CASE EndValidation
    BY <1>2, <2>3 DEF EndValidation, Moves, BetweenLoops, clusterVars, resourceVars
  <2>4. ASSUME NEW p \in Plans, ValidatePlan(p) \/ ValidatePlanFails(p) PROVE Moves
    <3>1. EntryValidated(p) /\ p \in todo /\ todo \ {p} \subseteq todo' /\ pc = "validate" /\ pc' = pc
      BY <2>4, ValidationEntry DEF ValidatePlan, ValidatePlanFails, RangeOver
    <3> QED
      BY <3>1 DEF Moves, LoopPasses
  <2> QED
    BY <1>6, <2>1, <2>2, <2>3, <2>4 DEF Validation
<1>7. CASE RunHooks
  <2>1. CASE StartPreHooks \/ StartPostHooks
    BY <2>1 DEF StartPreHooks, StartPostHooks, SetPhase, Moves, LoopStarts
  <2>2. CASE EndPlanHooks
    BY <2>2 DEF EndPlanHooks, Moves, LoopLeaves
  <2>3. CASE EndHooks
    BY <2>3 DEF EndHooks, Moves, BetweenLoops, clusterVars, resourceVars
  <2>4. ASSUME NEW p \in Plans, PlanHooks(p) PROVE Moves
    <3>1. LoopTakes(p) /\ UNCHANGED status
      BY <2>4 DEF PlanHooks, LoopTakes, clusterVars, resourceVars
    <3> QED
      BY <3>1 DEF Moves
  <2>5. ASSUME NEW h \in Hooks, HookSucceeds(h) PROVE Moves
    <3>1. status'[plan].done = status[plan].done \cup {h}
      BY <2>5, StatusFields DEF HookSucceeds, TypeInv, PlanOK, PlanAt, PlanStatus
    <3> QED
      BY <2>5, <3>1 DEF HookSucceeds, Moves, InPlan
  <2>6. ASSUME NEW h \in Hooks, HookPasses(h) PROVE Moves
    BY <2>6 DEF HookPasses, Moves, InPlan, clusterVars, resourceVars
  <2>7. CASE \E h \in Hooks : HookFails(h)
    BY <1>2, <2>7 DEF HookFails
  <2> QED
    BY <1>7, <2>1, <2>2, <2>3, <2>4, <2>5, <2>6, <2>7 DEF RunHooks
<1>8. ASSUME NEW dir \in {"down", "up"}, ScaleRestorePlan(dir) PROVE Moves
  <2> USE DEF TargetAt, WaitAt
  <2>1. CASE StartScale(dir)
    BY <2>1 DEF StartScale, SetPhase, Moves, LoopStarts
  <2>2. CASE TargetScaled(dir)
    BY <1>2, <2>2 DEF TargetScaled, Moves, InPlan
  <2>3. CASE PlanScaled(dir)
    <3>1. status'[plan].ups = IF dir = "up" THEN 1 ELSE 0
      BY <2>3, StatusFields DEF PlanScaled, TypeInv, PlanOK, PlanAt, ScalingAt, PlanStatus
    <3> QED
      BY <2>3, <3>1 DEF PlanScaled, RangeOver, Moves, LoopLeaves
  <2>4. CASE EndScale(dir)
    BY <2>4 DEF EndScale, Moves, BetweenLoops, clusterVars, resourceVars
  <2>5. ASSUME NEW p \in Plans, PassPlan(dir, p) PROVE Moves
    <3>1. LoopPasses(p)
      BY <2>5 DEF PassPlan, RangeOver, LoopPasses
    <3> QED
      BY <3>1 DEF Moves
  <2>6. ASSUME NEW p \in Plans, ScalePlan(dir, p) PROVE Moves
    <3>1. LoopTakes(p) /\ UNCHANGED status
      BY <2>6 DEF ScalePlan, RangeOver, LoopTakes, clusterVars, resourceVars
    <3> QED
      BY <3>1 DEF Moves
  <2>7. CASE \E w \in Workloads : PatchReplicas(dir, w)
    BY <2>7 DEF PatchReplicas, Moves, InPlan
  <2>8. CASE \E w \in Workloads : TargetFails(dir, w)
    BY <1>2, <2>8 DEF TargetFails
  <2> QED
    BY <1>8, <2>1, <2>2, <2>3, <2>4, <2>5, <2>6, <2>7, <2>8 DEF ScaleRestorePlan
<1>9. CASE RestoreFromPlan
  <2>1. CASE StartRestore
    BY <2>1 DEF StartRestore, SetPhase, Moves, LoopStarts
  <2>2. CASE PVCDeleted \/ CreatePVC \/ NameVolume \/ PVCBound
    BY <2>2 DEF PVCDeleted, CreatePVC, NameVolume, PVCBound, Moves, InPlan, RestoringAt, clusterVars, resourceVars
  <2>3. CASE PVCFails
    BY <1>2, <2>3 DEF PVCFails
  <2>4. CASE LockPlan
    <3>1. status'[plan].lock
      BY <2>4, StatusFields DEF LockPlan, TypeInv, PlanOK, PlanAt, RestoringAt, PlanStatus
    <3> QED
      BY <2>4, <3>1 DEF LockPlan, Moves, LoopLeaves
  <2>5. CASE EndRestore
    BY <2>5 DEF EndRestore, Moves, BetweenLoops, clusterVars, resourceVars
  <2>6. ASSUME NEW p \in Plans, PassRestore(p) PROVE Moves
    <3>1. LoopPasses(p)
      BY <2>6 DEF PassRestore, LoopPasses
    <3> QED
      BY <3>1 DEF Moves
  <2>7. ASSUME NEW p \in Plans, RestorePlan(p) PROVE Moves
    <3>1. LoopTakes(p) /\ UNCHANGED status
      BY <2>7 DEF RestorePlan, LoopTakes, clusterVars, resourceVars
    <3> QED
      BY <3>1 DEF Moves
  <2>8. CASE \E v \in PVCs : DeletePVC(v)
    BY <2>8 DEF DeletePVC, Moves, InPlan, RestoringAt, resourceVars
  <2> QED
    BY <1>9, <2>1, <2>2, <2>3, <2>4, <2>5, <2>6, <2>7, <2>8 DEF RestoreFromPlan
<1> QED
  BY <1>3, <1>4, <1>5, <1>6, <1>7, <1>8, <1>9 DEF Next, Reconcile

-----------------------------------------------------------------------------
(* The plans that are there from the start, their entries and their locks.  *)

\* The user adds only plans that were not there at the start.
LEMMA SpecGrows ==
  ASSUME TypeInv, [Next]_vars
  PROVE  spec' \subseteq spec \cup Late
<1>1. CASE UNCHANGED spec
  BY <1>1
<1>2. CASE Environment
  BY <1>2 DEF Environment, StartPods, StopPods, RecreateClaim, FinishDelete, ProvisionVolume, BindClaim,
     OperatorRescales, TakeSnapshots, ExpireSnapshots, AddPlan, RemovePlan, resourceVars
<1>3. CASE UNCHANGED vars \/ Abort \/ Complete
  BY <1>1, <1>3 DEF vars, Abort, Complete, clusterVars, resourceVars
<1>4. CASE Validation
  BY <1>1, <1>4 DEF Validation, GetResource, SetInitStatusRestorePlan, StartValidating, EndValidation,
     ValidatePlan, ValidatePlanFails, SetPhase, clusterVars, resourceVars
<1>5. CASE RunHooks
  BY <1>1, <1>5 DEF RunHooks, StartPreHooks, StartPostHooks, EndPlanHooks, EndHooks, PlanHooks,
     HookSucceeds, HookFails, HookPasses, SetPhase, clusterVars, resourceVars
<1>6. CASE ScaleRestorePlan("down") \/ ScaleRestorePlan("up")
  BY <1>1, <1>6 DEF ScaleRestorePlan, StartScale, TargetScaled, PlanScaled, EndScale, PassPlan, ScalePlan,
     PatchReplicas, TargetFails, SetPhase, clusterVars, resourceVars
<1>7. CASE RestoreFromPlan
  BY <1>1, <1>7 DEF RestoreFromPlan, StartRestore, PVCDeleted, CreatePVC, NameVolume, PVCBound, PVCFails,
     LockPlan, EndRestore, PassRestore, RestorePlan, DeletePVC, SetPhase, clusterVars, resourceVars
<1> QED
  BY <1>2, <1>3, <1>4, <1>5, <1>6, <1>7 DEF Next, Reconcile

LEMMA HasStep ==
  ASSUME TypeInv, HasOK, [Next]_vars
  PROVE  /\ HasOK'
         /\ \A p \in Plans \ Late : Has(p)' => Has(p)
<1>1. pc' = "idle" => seen' = {}
  <2>1. CASE UNCHANGED localVars
    BY <2>1 DEF HasOK, localVars
  <2>2. CASE Return
    BY <2>2 DEF Return
  <2>3. pc' = "idle" => UNCHANGED localVars \/ Return
    BY MovesStep DEF Moves, BetweenLoops, LoopStarts, LoopPasses, LoopTakes, InPlan, LoopLeaves, RestoringAt
  <2> QED
    BY <2>1, <2>2, <2>3
<1>2. ASSUME NEW p \in Plans \ Late PROVE (p \in spec' => Has(p)') /\ (Has(p)' => Has(p))
  BY SpecGrows, SeenStep DEF HasOK, Has
<1> QED
  BY <1>1, <1>2 DEF HasOK

LEMMA EntryOKStep == TypeInv /\ LoopOK /\ EntryOK /\ [Next]_vars => EntryOK'
<1> SUFFICES ASSUME TypeInv, LoopOK, EntryOK, [Next]_vars, NEW p \in Plans, ~status'[p].known
             PROVE  ~status'[p].lock /\ status'[p].ups = 0 /\ status'[p].done = {}
  BY DEF EntryOK
<1>1. EntryChange(p)
  BY EntryStep
<1>2. ~status[p].known
  BY KnownStays
<1>3. ~EntryValidated(p) /\ ~EntryHooked(p) /\ ~EntryRestored(p)
  BY <1>2 DEF EntryValidated, EntryHooked, EntryRestored, LoopOK
<1> QED
  BY <1>1, <1>2, <1>3 DEF EntryOK, EntryChange, EntryScaled, Kept

LEMMA ValidatedStep ==
  ASSUME TypeInv, HasOK, ValidatedOK, [Next]_vars
  PROVE  ValidatedOK'
<1> SUFFICES ASSUME NEW p \in Plans \ Late, Has(p)'
             PROVE  /\ pc' = "validate" /\ p \notin todo' => status'[p].known
                    /\ pc' \notin BeforeHooks => status'[p].known
  BY DEF ValidatedOK
<1>1. Has(p) /\ (status[p].known => status'[p].known)
  BY HasStep, KnownStays
<1>2. /\ pc = "validate" /\ p \notin todo => status[p].known
      /\ pc \notin BeforeHooks => status[p].known
  BY <1>1 DEF ValidatedOK
<1>3. pc' = "validate" /\ pc # "validate" => p \in todo'
  BY MovesStep DEF Has, Moves, BetweenLoops, LoopStarts, LoopPasses, LoopTakes, InPlan, LoopLeaves,
     RestoringAt, localVars
<1>4. pc' = "validate" /\ pc = "validate" /\ p \in todo /\ p \notin todo' => status'[p].known
  BY MovesStep DEF Moves, BetweenLoops, LoopStarts, LoopPasses, LoopTakes, InPlan, LoopLeaves,
     RestoringAt, localVars, EntryValidated
<1>5. pc' \notin BeforeHooks /\ pc \in BeforeHooks => pc = "validate" /\ p \notin todo
  BY MovesStep DEF BeforeHooks, Moves, BetweenLoops, LoopStarts, LoopPasses, LoopTakes, InPlan, LoopLeaves,
     RestoringAt, localVars
<1> QED
  BY <1>1, <1>2, <1>3, <1>4, <1>5

LEMMA LockedStep ==
  ASSUME TypeInv, LoopOK, HasOK, ValidatedOK, LockedOK, [Next]_vars
  PROVE  LockedOK'
<1> SUFFICES ASSUME NEW p \in Plans \ Late, Has(p)'
             PROVE  /\ pc' = "restore" /\ p \notin todo' => status'[p].lock
                    /\ pc' \in RestoringAt /\ p \notin todo' /\ p # plan' => status'[p].lock
                    /\ pc' \in UpAt => status'[p].lock
                    /\ pc' \in RestoringAt /\ p = plan' => ~status'[p].lock
  BY DEF LockedOK
<1>1. Has(p)
  BY HasStep
<1>2. /\ pc = "restore" /\ p \notin todo => status[p].lock
      /\ pc \in RestoringAt /\ p \notin todo /\ p # plan => status[p].lock
      /\ pc \in UpAt => status[p].lock
      /\ pc \in RestoringAt /\ p = plan => ~status[p].lock
  BY <1>1 DEF LockedOK
<1>3. status[p].lock /\ pc' # "idle" => status'[p].lock
  BY EntryStep DEF EntryChange, EntryValidated, EntryHooked, EntryScaled, EntryRestored, Kept, CarriedLock
<1>4. pc = "setRestoring" => status[p].known
  BY <1>1 DEF ValidatedOK, BeforeHooks
<1> USE DEF RestoringAt, UpAt, UpLoop, PostAt
<1>5. CASE UNCHANGED <<localVars, status>>
  BY <1>2, <1>5 DEF localVars
<1>6. CASE Return
  BY <1>6 DEF Return
<1>7. CASE BetweenLoops /\ UNCHANGED status
  BY <1>2, <1>7 DEF BetweenLoops
<1>8. CASE LoopStarts /\ UNCHANGED status
  BY <1>2, <1>4, <1>8 DEF LoopStarts
<1>9. ASSUME NEW q \in Plans, LoopPasses(q)
      PROVE  /\ pc' = "restore" /\ p \notin todo' => status'[p].lock
             /\ pc' \notin RestoringAt /\ (pc' \in UpAt => status'[p].lock)
  BY <1>2, <1>3, <1>9 DEF LoopPasses, SkipRestore
<1>10. ASSUME NEW q \in Plans, LoopTakes(q), UNCHANGED status
       PROVE  /\ pc' # "restore"
              /\ pc' \in RestoringAt /\ p = plan' => ~status'[p].lock
              /\ pc' \in RestoringAt /\ p \notin todo' /\ p # plan' => status'[p].lock
              /\ pc' \in UpAt => status'[p].lock
  BY <1>1, <1>2, <1>10 DEF LoopTakes, SkipRestore, Has
<1>11. CASE InPlan
  BY <1>2, <1>3, <1>11 DEF InPlan
<1>12. CASE LoopLeaves
  BY <1>2, <1>3, <1>12 DEF LoopLeaves
<1> QED
  BY <1>5, <1>6, <1>7, <1>8, <1>9, <1>10, <1>11, <1>12, MovesStep DEF Moves

-----------------------------------------------------------------------------
(* The scale-up and what it leaves running.                                 *)

\* Nothing but the scale-down of its plan stops a workload.
LEMMA RunsStep ==
  ASSUME TypeInv, [Next]_vars, NEW w \in Workloads, ~(pc = "downTarget" /\ w \in work)
  PROVE  (on[w] => on'[w]) /\ (Runs(w) => Runs(w)')
<1> USE DEF Runs, TypeInv, TypeOK, ClusterTypeOK
<1>1. CASE UNCHANGED workloadVars
  BY <1>1 DEF workloadVars
<1>2. CASE Environment
  <2>1. CASE \E x \in Workloads : StartPods(x) \/ StopPods(x)
    BY <2>1 DEF StartPods, StopPods
  <2>2. CASE \E c \in Clusters : OperatorRescales(c)
    BY <2>2 DEF OperatorRescales
  <2> QED
    BY <1>1, <1>2, <2>1, <2>2 DEF Environment, RecreateClaim, FinishDelete, ProvisionVolume, BindClaim,
       TakeSnapshots, ExpireSnapshots, AddPlan, RemovePlan
<1>3. CASE UNCHANGED vars \/ Abort \/ Complete
  BY <1>1, <1>3 DEF vars, Abort, Complete, clusterVars
<1>4. CASE Validation
  BY <1>1, <1>4 DEF Validation, GetResource, SetInitStatusRestorePlan, StartValidating, EndValidation,
     ValidatePlan, ValidatePlanFails, SetPhase, clusterVars
<1>5. CASE RunHooks
  BY <1>1, <1>5 DEF RunHooks, StartPreHooks, StartPostHooks, EndPlanHooks, EndHooks, PlanHooks,
     HookSucceeds, HookFails, HookPasses, SetPhase, clusterVars
<1>6. ASSUME NEW dir \in {"down", "up"}, ScaleRestorePlan(dir), ~UNCHANGED workloadVars
      PROVE  (on[w] => on'[w]) /\ (Runs(w) => Runs(w)')
  <2>1. PICK x \in Workloads : PatchReplicas(dir, x)
    BY <1>6 DEF ScaleRestorePlan, StartScale, TargetScaled, PlanScaled, EndScale, PassPlan, ScalePlan,
       TargetFails, SetPhase, clusterVars
  <2>2. dir = "down" => pc = "downTarget" /\ x \in work
    BY <2>1 DEF PatchReplicas, NextTargets, TargetAt
  <2> QED
    BY <2>1, <2>2 DEF PatchReplicas
<1>7. CASE RestoreFromPlan
  BY <1>1, <1>7 DEF RestoreFromPlan, StartRestore, PVCDeleted, CreatePVC, NameVolume, PVCBound, PVCFails,
     LockPlan, EndRestore, PassRestore, RestorePlan, DeletePVC, SetPhase, clusterVars
<1> QED
  BY <1>1, <1>2, <1>3, <1>4, <1>5, <1>6, <1>7 DEF Next, Reconcile

\* The targets of another plan are other workloads.
LEMMA OwnTargets ==
  ASSUME TypeInv, LoopOK, pc \in ScalingAt, NEW p \in Plans, NEW w \in TargetsOf(p), w \in work
  PROVE  p = plan
BY DEF LoopOK, TypeInv, PlanOK, PlanAt, TargetsOf, ClustersOf, OperatorsOf

LEMMA TargetsUpStep == TypeInv /\ LoopOK /\ TargetsUp /\ [Next]_vars => TargetsUp'
<1> SUFFICES ASSUME TypeInv, LoopOK, TargetsUp, [Next]_vars, pc' \in {"upTarget", "upWait"}
             PROVE  TargetsUp'
  BY DEF TargetsUp
<1> USE DEF TargetAt, WaitAt
<1>0. plan \in Plans \/ pc \notin PlanAt
  BY DEF TypeInv, PlanOK
<1>1. CASE pc \in {"upTarget", "upWait"} /\ UNCHANGED <<pc, plan, work, cur>>
  <2>1. /\ \A w \in TargetsOf(plan) \ work : Runs(w)
        /\ pc = "upWait" => on[cur] /\ cur \in work
    BY <1>1 DEF TargetsUp, LoopOK
  <2>2. TargetsOf(plan) \subseteq Workloads /\ (pc = "upWait" => cur \in Workloads)
    BY <1>0, <1>1, <2>1, TargetsType DEF PlanAt, ScalingAt, LoopOK
  <2>3. (\A w \in TargetsOf(plan) \ work : Runs(w)') /\ (pc = "upWait" => on'[cur])
    BY <1>1, <2>1, <2>2, RunsStep
  <2> QED
    BY <1>1, <2>3 DEF TargetsUp, TargetsOf, ClustersOf, OperatorsOf
<1>2. CASE UNCHANGED localVars
  BY <1>1, <1>2 DEF localVars
<1>3. CASE UNCHANGED vars \/ Abort \/ Complete \/ (Environment /\ UNCHANGED <<localVars, faults>>)
  BY <1>2, <1>3 DEF vars, Abort, Complete, Return
<1>4. CASE ScaleRestorePlan("up")
  <2>1. ASSUME NEW p \in Plans, ScalePlan("up", p) PROVE TargetsUp'
    BY <2>1 DEF ScalePlan, TargetsUp, TargetsOf, ClustersOf, OperatorsOf
  <2>2. ASSUME NEW w \in Workloads, PatchReplicas("up", w) PROVE TargetsUp'
    <3>1. /\ pc = "upTarget" /\ pc' = "upWait" /\ UNCHANGED <<plan, work>> /\ cur' = w /\ on'[w]
      BY <2>2 DEF PatchReplicas, TypeInv, TypeOK, ClusterTypeOK
    <3>2. TargetsOf(plan) \subseteq Workloads
      BY <1>0, <3>1, TargetsType DEF PlanAt, ScalingAt
    <3>3. \A x \in TargetsOf(plan) \ work : Runs(x)'
      BY <3>1, <3>2, RunsStep DEF TargetsUp
    <3> QED
      BY <3>1, <3>3 DEF TargetsUp, TargetsOf, ClustersOf, OperatorsOf
  <2>3. CASE TargetScaled("up")
    <3>1. /\ pc = "upWait" /\ pc' = "upTarget" /\ UNCHANGED <<plan, workloadVars>> /\ work' = work \ {cur}
          /\ pods[cur] \/ cur \in SkipWaitUp
      BY <2>3 DEF TargetScaled, SkipWait, Return, clusterVars
    <3>2. \A x \in TargetsOf(plan) \ work' : Runs(x)
      BY <3>1 DEF TargetsUp, Runs
    <3> QED
      BY <3>1, <3>2 DEF TargetsUp, TargetsOf, ClustersOf, OperatorsOf, Runs, workloadVars
  <2> QED
    BY <1>4, <2>1, <2>2, <2>3 DEF ScaleRestorePlan, StartScale, PlanScaled, EndScale, PassPlan, TargetFails,
       SetPhase, Return
<1>5. ~(Validation \/ RunHooks \/ ScaleRestorePlan("down") \/ RestoreFromPlan)
  BY DEF Validation, GetResource, SetInitStatusRestorePlan, StartValidating, EndValidation,
     ValidatePlan, ValidatePlanFails, RunHooks, StartPreHooks, StartPostHooks, EndPlanHooks, EndHooks, PlanHooks,
     HookSucceeds, HookFails, HookPasses, ScaleRestorePlan, StartScale, TargetScaled, PlanScaled, EndScale,
     PassPlan, ScalePlan, PatchReplicas, TargetFails, RestoreFromPlan, StartRestore, PVCDeleted, CreatePVC,
     NameVolume, PVCBound, PVCFails, LockPlan, EndRestore, PassRestore, RestorePlan, DeletePVC, SetPhase, Return,
     RestoringAt
<1> QED
  BY <1>3, <1>4, <1>5 DEF Next, Reconcile

\* The count of scale-ups is written at the end of the loop over the targets.
LEMMA UpsEntry ==
  ASSUME TypeInv, [Next]_vars, NEW p \in Plans
  PROVE  /\ status[p].ups \in {0, 1}
         /\ \/ status'[p].ups = status[p].ups
            \/ p = plan /\ pc \in ScalingAt /\ pc' = "idle" /\ status'[p].ups = 0
            \/ p = plan /\ pc = "downTarget" /\ pc' = "down"
            \/ p = plan /\ pc = "upTarget" /\ pc' = "up" /\ work = {}
BY EntryStep, StatusFields DEF PlanStatus, EntryChange, EntryValidated, EntryHooked, EntryScaled, EntryRestored

LEMMA UpsStep ==
  ASSUME TypeInv, LoopOK, HasOK, ValidatedOK, LockedOK, UpsOK, TargetsUp, [Next]_vars
  PROVE  UpsOK'
<1> SUFFICES ASSUME NEW p \in Plans \ Late, Has(p)'
             PROVE  /\ status'[p].ups = 1 => status'[p].lock /\ RanUp(p)'
                    /\ pc' \in ScalingAt /\ p = plan' => status'[p].ups = 0
                    /\ pc' \in {"downTarget", "downWait"} /\ p = plan' => ~status'[p].lock
                    /\ pc' = "up" /\ p \notin todo' => status'[p].ups = 1
                    /\ pc' \in {"upTarget", "upWait"} /\ p \notin todo' /\ p # plan' => status'[p].ups = 1
                    /\ pc' \in PostAt => status'[p].ups = 1
  BY DEF UpsOK
<1>1. Has(p)
  BY HasStep
<1>2. /\ status[p].ups = 1 => status[p].lock /\ RanUp(p)
      /\ pc \in ScalingAt /\ p = plan => status[p].ups = 0
      /\ pc \in {"downTarget", "downWait"} /\ p = plan => ~status[p].lock
      /\ pc = "up" /\ p \notin todo => status[p].ups = 1
      /\ pc \in {"upTarget", "upWait"} /\ p \notin todo /\ p # plan => status[p].ups = 1
      /\ pc \in PostAt => status[p].ups = 1
  BY <1>1 DEF UpsOK
<1>3. /\ pc \in {"down", "up"} => status[p].known
      /\ pc \in UpAt => status[p].lock
      /\ pc \in RestoringAt /\ p = plan => ~status[p].lock
  BY <1>1 DEF ValidatedOK, LockedOK, BeforeHooks
<1>4. ASSUME status'[p].ups = 1 PROVE status'[p].lock /\ RanUp(p)'
  <2>1. \/ status[p].ups = 1
        \/ p = plan /\ pc = "upTarget" /\ work = {}
    BY <1>4, EntryStep DEF EntryChange, EntryValidated, EntryHooked, EntryScaled, EntryRestored
  <2>2. status[p].lock
    BY <1>2, <1>3, <2>1 DEF UpAt, UpLoop
  <2>3. status'[p].lock
    BY <1>3, <1>4, <2>2, EntryStep DEF EntryChange, EntryValidated, EntryHooked, EntryScaled, EntryRestored,
       Kept, CarriedLock
  <2>4. RanUp(p)
    BY <1>2, <2>1 DEF TargetsUp, RanUp
  <2>5. \A w \in TargetsOf(p) : Runs(w) /\ w \in Workloads /\ ~(pc = "downTarget" /\ w \in work)
    BY <1>2, <2>1, <2>4, OwnTargets, TargetsType DEF RanUp, ScalingAt
  <2>6. \A w \in TargetsOf(p) : Runs(w)'
    BY <2>5, RunsStep
  <2> QED
    BY <2>3, <2>6 DEF RanUp, TargetsOf, ClustersOf, OperatorsOf
<1> USE DEF ScalingAt, PostAt, RestoringAt
<1>5. status[p].ups \in {0, 1}
  BY UpsEntry
<1>6. CASE UNCHANGED <<localVars, status>>
  BY <1>2, <1>4, <1>6 DEF localVars
<1>7. CASE Return
  BY <1>4, <1>7 DEF Return
<1>8. CASE BetweenLoops /\ UNCHANGED status
  BY <1>2, <1>4, <1>8 DEF BetweenLoops
<1>9. CASE LoopStarts /\ UNCHANGED status
  BY <1>1, <1>2, <1>4, <1>9 DEF LoopStarts, Has
<1>10. ASSUME NEW q \in Plans, LoopPasses(q)
       PROVE  /\ pc' \notin ScalingAt
              /\ pc' = "up" /\ p \notin todo' => status'[p].ups = 1
              /\ pc' \notin PostAt
  BY <1>2, <1>5, <1>10, UpsEntry DEF LoopPasses, SkipScale
<1>11. ASSUME NEW q \in Plans, LoopTakes(q), UNCHANGED status
       PROVE  /\ pc' \in ScalingAt /\ p = plan' => status'[p].ups = 0
              /\ pc' \in {"downTarget", "downWait"} /\ p = plan' => ~status'[p].lock
              /\ pc' # "up"
              /\ pc' \in {"upTarget", "upWait"} /\ p \notin todo' /\ p # plan' => status'[p].ups = 1
              /\ pc' \in PostAt => status'[p].ups = 1
  <2>1. pc = "down" /\ p = q => ~status[p].lock /\ status[p].ups = 0
    BY <1>2, <1>3, <1>5, <1>11 DEF LoopTakes, SkipScale
  <2>2. pc = "up" /\ p = q => status[p].ups = 0
    BY <1>3, <1>5, <1>11 DEF LoopTakes, SkipScale, UpAt, UpLoop
  <2>3. /\ p \notin todo' /\ p # q => p \notin todo
        /\ plan' = q
        /\ \/ pc = "preHooks" /\ pc' = "preHook"
           \/ pc = "postHooks" /\ pc' = "postHook"
           \/ pc = "down" /\ pc' = "downTarget"
           \/ pc = "up" /\ pc' = "upTarget"
           \/ pc = "restore" /\ pc' = "pvc"
    BY <1>11 DEF LoopTakes
  <2> QED
    BY <1>2, <1>11, <2>1, <2>2, <2>3
<1>12. CASE InPlan
  <2>1. pc' # "idle" /\ pc' # "down" /\ pc' # "up"
    BY <1>12 DEF InPlan
  <2>2. status'[p].ups = status[p].ups
    BY <2>1, UpsEntry
  <2>3. pc \in {"downTarget", "downWait"} => status'[p].lock = status[p].lock
    BY <2>1, EntryStep DEF EntryChange, EntryValidated, EntryHooked, EntryScaled, EntryRestored, Kept
  <2> QED
    BY <1>2, <1>4, <1>12, <2>2, <2>3 DEF InPlan
<1>13. CASE LoopLeaves
  <2>1. pc # "upTarget" \/ p # plan => (pc' \in {"up"} \cup PostAt => status'[p].ups = status[p].ups)
    BY <1>13, UpsEntry DEF LoopLeaves
  <2> QED
    BY <1>2, <1>4, <1>13, <2>1 DEF LoopLeaves
<1> QED
  BY <1>4, <1>6, <1>7, <1>8, <1>9, <1>10, <1>11, <1>12, <1>13, MovesStep DEF Moves

-----------------------------------------------------------------------------
(* The post-restore hooks and the phase Completed.                          *)

\* Within a reconcile, the hooks of a plan that have succeeded only get more.
LEMMA DoneGrows ==
  ASSUME TypeInv, [Next]_vars, pc' # "idle", NEW p \in Plans
  PROVE  status[p].done \subseteq status'[p].done
BY EntryStep DEF EntryChange, EntryValidated, EntryHooked, EntryScaled, EntryRestored

\* What the hook manager leaves out of its list.
LEMMA PendingHooks ==
  ASSUME EntryOK, NEW p \in Plans
  PROVE  /\ Pending(PreHooksOf(p)) \subseteq PreHooksOf(p)
         /\ Pending(PostHooksOf(p)) \subseteq PostHooksOf(p)
         /\ (Pending(PreHooksOf(p)) \cup Pending(PostHooksOf(p))) \cap status[p].done \subseteq NodeHooks
         /\ PostHooksOf(p) \subseteq status[p].done \cup Pending(PostHooksOf(p))
BY DEF EntryOK, Pending, SkipHook, PointPassed, PreHooksOf, PostHooksOf

LEMMA HookWorkStep == TypeInv /\ EntryOK /\ HookWorkOK /\ [Next]_vars => HookWorkOK'
<1> SUFFICES ASSUME TypeInv, EntryOK, HookWorkOK, [Next]_vars, pc' \in {"preHook", "postHook"}
             PROVE  HookWorkOK'
  BY DEF HookWorkOK
<1>1. CASE UNCHANGED <<localVars, status>>
  BY <1>1 DEF localVars, HookWorkOK, PreHooksOf, PostHooksOf
<1>2. ASSUME NEW p \in Plans, LoopTakes(p), UNCHANGED status PROVE HookWorkOK'
  BY <1>2, PendingHooks DEF LoopTakes, HookWorkOK, PreHooksOf, PostHooksOf
<1>3. CASE InPlan
  BY <1>3 DEF InPlan, HookWorkOK, PreHooksOf, PostHooksOf, RestoringAt
<1> QED
  BY <1>1, <1>2, <1>3, MovesStep DEF Moves, BetweenLoops, LoopStarts, LoopPasses, LoopLeaves, Return

LEMMA PostHooksStep ==
  ASSUME TypeInv, EntryOK, HasOK, PostHooksOK, [Next]_vars
  PROVE  PostHooksOK'
<1> DEFINE PlanGoal(p) == /\ pc' = "postHooks" /\ p \notin todo' => PostHooked(p)'
                          /\ pc' = "postHook" /\ p \notin todo' /\ p # plan' => PostHooked(p)'
                          /\ pc' = "setCompleted" => PostHooked(p)'
           WorkGoal == pc' = "postHook" =>
                          PostHooksOf(plan)' \ NodeHooks \subseteq status'[plan'].done \cup work'
<1> USE DEF RestoringAt
<1>1. ASSUME NEW p \in Plans \ Late, Has(p)' PROVE PlanGoal(p)
  <2>1. Has(p)
    BY <1>1, HasStep
  <2>2. /\ pc = "postHooks" /\ p \notin todo => PostHooked(p)
        /\ pc = "postHook" /\ p \notin todo /\ p # plan => PostHooked(p)
        /\ pc = "setCompleted" => PostHooked(p)
        /\ pc = "postHook" /\ p = plan /\ work = {} => PostHooked(p)
    BY <2>1 DEF PostHooksOK, PostHooked
  <2>3. PostHooked(p) /\ pc' # "idle" => PostHooked(p)'
    BY DoneGrows DEF PostHooked, PostHooksOf
  <2>4. PostHooksOf(p) = {} => PostHooked(p)'
    BY DEF PostHooked, PostHooksOf
  <2>5. pc # "idle" => p \in seen
    BY <2>1 DEF Has
  <2> QED
    BY <2>2, <2>3, <2>4, <2>5, MovesStep DEF Moves, BetweenLoops, LoopStarts, LoopPasses, LoopTakes,
       InPlan, LoopLeaves, localVars, Return
<1>2. ASSUME pc' = "postHook" PROVE WorkGoal
  <2>1. CASE UNCHANGED <<localVars, status>>
    BY <1>2, <2>1 DEF localVars, PostHooksOK, PostHooksOf
  <2>2. ASSUME NEW p \in Plans, LoopTakes(p), UNCHANGED status PROVE WorkGoal
    BY <1>2, <2>2, PendingHooks DEF LoopTakes, PostHooksOf
  <2>3. CASE InPlan
    BY <1>2, <2>3 DEF InPlan, PostHooksOK, PostHooksOf
  <2> QED
    BY <1>2, <2>1, <2>2, <2>3, MovesStep DEF Moves, BetweenLoops, LoopStarts, LoopPasses, LoopLeaves, Return
<1> QED
  BY <1>1, <1>2 DEF PostHooksOK

\* The phase is set to Completed in one place only, and reset at the start of
\* the next reconcile.
LEMMA PhaseStep ==
  ASSUME [Next]_vars, phase' = "Completed"
  PROVE  Complete \/ (phase = "Completed" /\ (pc' = "initialised" => pc = "initialised"))
<1>1. CASE UNCHANGED vars \/ Abort \/ Complete
  BY <1>1 DEF vars, localVars, Abort, clusterVars, resourceVars, Return
<1>2. CASE Environment /\ UNCHANGED <<localVars, faults>>
  BY <1>2 DEF Environment, StartPods, StopPods, RecreateClaim, FinishDelete, ProvisionVolume, BindClaim,
     OperatorRescales, TakeSnapshots, ExpireSnapshots, AddPlan, RemovePlan, resourceVars, localVars
<1>3. CASE Validation
  BY <1>3 DEF Validation, GetResource, SetInitStatusRestorePlan, StartValidating, EndValidation, Return,
     ValidatePlan, ValidatePlanFails, SetPhase, clusterVars, resourceVars
<1>4. CASE RunHooks
  <2>1. CASE \E h \in Hooks : HookSucceeds(h) \/ HookFails(h) \/ HookPasses(h)
    BY <2>1 DEF HookSucceeds, HookFails, HookPasses, clusterVars, resourceVars
  <2> QED
    BY <1>4, <2>1 DEF RunHooks, StartPreHooks, StartPostHooks, EndPlanHooks, EndHooks, PlanHooks,
       SetPhase, clusterVars, resourceVars
<1>5. CASE ScaleRestorePlan("down") \/ ScaleRestorePlan("up")
  BY <1>5 DEF ScaleRestorePlan, StartScale, TargetScaled, PlanScaled, EndScale, PassPlan, ScalePlan,
     PatchReplicas, TargetFails, SetPhase, clusterVars, resourceVars, Return, TargetAt, WaitAt
<1>6. CASE RestoreFromPlan
  BY <1>6 DEF RestoreFromPlan, StartRestore, PVCDeleted, CreatePVC, NameVolume, PVCBound, PVCFails,
     LockPlan, EndRestore, PassRestore, RestorePlan, DeletePVC, SetPhase, clusterVars, resourceVars, Return
<1> QED
  BY <1>1, <1>2, <1>3, <1>4, <1>5, <1>6 DEF Next, Reconcile

LEMMA CompletedStep ==
  ASSUME TypeInv, LoopOK, HasOK, UpsOK, PostHooksOK, CompletedOK, [Next]_vars
  PROVE  CompletedOK'
<1> SUFFICES ASSUME phase' = "Completed"
             PROVE  /\ pc' \in {"idle", "init"}
                    /\ \A p \in Plans \ Late : Has(p)' => status'[p].ups = 1 /\ PostHooked(p)'
  BY DEF CompletedOK
<1>1. CASE Complete
  <2>1. pc = "setCompleted" /\ pc' = "idle" /\ UNCHANGED status
    BY <1>1 DEF Complete, Return
  <2> QED
    BY <2>1, HasStep DEF UpsOK, PostAt, PostHooksOK, PostHooked, PostHooksOf
<1>2. CASE phase = "Completed" /\ (pc' = "initialised" => pc = "initialised")
  <2>1. pc \in {"idle", "init"}
    BY <1>2 DEF CompletedOK
  <2>2. pc' \in {"idle", "init"}
    BY <1>2, <2>1, MovesStep DEF Moves, BetweenLoops, LoopStarts, LoopPasses, LoopTakes, InPlan, LoopLeaves,
       localVars, RestoringAt
  <2>3. \A p \in Plans : status'[p] = status[p]
    BY <2>1, EntryStep DEF EntryChange, EntryValidated, EntryHooked, EntryScaled, EntryRestored, ScalingAt,
       RestoringAt
  <2> QED
    BY <1>2, <2>2, <2>3, HasStep DEF CompletedOK, PostHooked, PostHooksOf
<1> QED
  BY <1>1, <1>2, PhaseStep

LEMMA UpInit == Init => UpInv
<1> SUFFICES ASSUME Init PROVE UpInv
  OBVIOUS
<1>1. /\ pc = "idle" /\ seen = {} /\ phase = "Idle"
      /\ \A p \in Plans : status[p] = NoStatus
  BY DEF Init, ClusterInit
<1>2. /\ HasOK /\ EntryOK
  BY <1>1 DEF HasOK, Has, EntryOK, NoStatus
<1>3. pc \notin RestoringAt \cup UpAt \cup ScalingAt \cup PostAt \cup {"preHook"} /\ pc \in BeforeHooks
  BY <1>1 DEF RestoringAt, UpAt, UpLoop, ScalingAt, PostAt, BeforeHooks
<1>4. ValidatedOK /\ LockedOK /\ UpsOK /\ TargetsUp /\ HookWorkOK /\ PostHooksOK /\ CompletedOK
  BY <1>1, <1>3 DEF ValidatedOK, LockedOK, UpsOK, TargetsUp, HookWorkOK, PostHooksOK, CompletedOK, NoStatus
<1> QED
  BY <1>2, <1>4 DEF UpInv

LEMMA UpStep == TypeInv /\ DownInv /\ UpInv /\ [Next]_vars => UpInv'
BY HasStep, EntryOKStep, ValidatedStep, LockedStep, UpsStep, TargetsUpStep, HookWorkStep, PostHooksStep,
   CompletedStep DEF UpInv, DownInv

\* Completed means done: with the phase go the invariants of the loops that lead
\* there, the scale-up loop (which counts a plan once its workloads are up) and the
\* post-restore hooks; both have looked at every plan the resource has had from the
\* beginning, because the reconcile cannot lose one.
THEOREM CompletedIsDone == Spec => []CompletedMeansDone
<1>1. Init => TypeInv /\ DownInv /\ UpInv
  BY TypeInit, DownInit, UpInit
<1>2. TypeInv /\ DownInv /\ UpInv /\ [Next]_vars => (TypeInv /\ DownInv /\ UpInv)'
  BY TypeStep, DownStep, UpStep
<1>3. TypeInv /\ UpInv => CompletedMeansDone
  <2> SUFFICES ASSUME TypeInv, UpInv, phase = "Completed", NEW p \in spec \ Late
               PROVE  /\ status[p].lock /\ status[p].ups = 1
                      /\ PostHooksOf(p) \ NodeHooks \subseteq status[p].done
                      /\ \A w \in TargetsOf(p) : on[w] /\ (w \in SkipWaitUp \/ pods[w])
    BY DEF CompletedMeansDone
  <2>1. p \in Plans /\ Has(p)
    BY DEF TypeInv, TypeOK, ClusterTypeOK, UpInv, HasOK
  <2>2. status[p].ups = 1 /\ PostHooked(p)
    BY <2>1 DEF UpInv, CompletedOK
  <2>3. status[p].lock /\ RanUp(p)
    BY <2>1, <2>2 DEF UpInv, UpsOK
  <2> QED
    BY <2>2, <2>3 DEF PostHooked, RanUp, Runs
<1> QED
  BY <1>1, <1>2, <1>3, PTL DEF Spec

\* Post-restore hooks come last: the step that records one as succeeded is taken in
\* the loop over the post-restore hooks, which the reconcile enters with every plan
\* it has had from the beginning locked and counted as scaled up.
THEOREM PostHooksComeLast == Spec => PostHooksAfterRestore
<1>1. Init => TypeInv /\ DownInv /\ UpInv
  BY TypeInit, DownInit, UpInit
<1>2. TypeInv /\ DownInv /\ UpInv /\ [Next]_vars => (TypeInv /\ DownInv /\ UpInv)'
  BY TypeStep, DownStep, UpStep
<1>3. ASSUME TypeInv, DownInv, UpInv, [Next]_vars, NEW p \in Plans \ Late, NEW h \in PostHooksOf(p),
             h \in status'[p].done \ status[p].done
      PROVE  status[p].lock /\ status[p].ups = 1
  <2>1. EntryHooked(p)
    BY <1>3, EntryStep DEF EntryChange, EntryValidated, EntryScaled, EntryRestored
  <2>2. p = plan /\ pc \in {"preHook", "postHook"} /\ pc' = pc /\ h \in work
    BY <1>3, <2>1 DEF EntryHooked
  <2>3. pc = "postHook"
    BY <1>3, <2>2 DEF UpInv, HookWorkOK, PreHooksOf, PostHooksOf
  <2>4. Has(p)
    BY <1>3, <2>2, <2>3 DEF DownInv, LoopOK, PlanAt, RestoringAt, Has
  <2> QED
    BY <1>3, <2>3, <2>4 DEF UpInv, UpsOK, PostAt
<1>4. TypeInv /\ DownInv /\ UpInv /\ [Next]_vars =>
         [\A p \in Plans \ Late : \A h \in PostHooksOf(p) :
             h \in status'[p].done \ status[p].done => status[p].lock /\ status[p].ups = 1]_vars
  BY <1>3
<1> QED
  BY <1>1, <1>2, <1>4, PTL DEF Spec, PostHooksAfterRestore

-----------------------------------------------------------------------------
(* Each plan leads the life of PlanLife.                                    *)

LPrepared == {p \in LifePlans : Prepared(p)}
LRunning  == {p \in LifePlans : RanUp(p)}
LRemoving == {v \in PVCs : PlanOf[ClusterOf[v]] \in LifePlans /\ claim[v] = "terminating"}
LLocked   == {p \in LifePlans : status[p].lock}
LUp       == {p \in LifePlans : status[p].lock /\ status[p].ups = 1}

\* A plan that is there from the start and stays is one the reconcile has.
StayOK == \A p \in Plans \ (Late \cup Removable) : p \in spec

LifeInv == TypeInv /\ DownInv /\ HookInv /\ UpInv /\ StayOK

LEMMA LifePlanFacts ==
  \A p \in LifePlans : p \in Plans /\ p \notin Late /\ p \notin Removable /\ Waits(p)
BY DEF LifePlans, Waits

LEMMA LifeHas == ASSUME LifeInv, NEW p \in LifePlans PROVE Has(p)
BY LifePlanFacts DEF LifeInv, StayOK, UpInv, HasOK

\* A step changes the workloads, or the claims, or the entry of one plan.
LEMMA OneKind ==
  ASSUME TypeInv, [Next]_vars
  PROVE  \/ UNCHANGED <<status, claim>>
         \/ UNCHANGED <<status, workloadVars>>
         \/ /\ UNCHANGED <<workloadVars, claim>>
            /\ \E p \in Plans : \A q \in Plans \ {p} : status'[q] = status[q]
<1> USE DEF clusterVars, resourceVars, volumeVars
<1>1. CASE UNCHANGED vars \/ Abort \/ Complete
  BY <1>1 DEF vars, Abort, Complete
<1>2. CASE Environment
  BY <1>2 DEF Environment, StartPods, StopPods, RecreateClaim, FinishDelete, ProvisionVolume, BindClaim,
     OperatorRescales, TakeSnapshots, ExpireSnapshots, AddPlan, RemovePlan
<1>3. CASE Validation
  <2>1. ASSUME NEW p \in Plans, ValidatePlan(p) \/ ValidatePlanFails(p)
        PROVE  /\ UNCHANGED <<workloadVars, claim>>
               /\ \A q \in Plans \ {p} : status'[q] = status[q]
    BY <2>1, ValidationEntry DEF ValidatePlan, ValidatePlanFails
  <2> QED
    BY <1>3, <2>1 DEF Validation, GetResource, SetInitStatusRestorePlan, StartValidating, EndValidation, SetPhase
<1>4. CASE RunHooks
  <2>1. CASE \E h \in Hooks : HookSucceeds(h) \/ HookFails(h)
    BY <2>1, StatusFields DEF HookSucceeds, HookFails, TypeInv, PlanOK, PlanAt
  <2> QED
    BY <1>4, <2>1 DEF RunHooks, StartPreHooks, StartPostHooks, EndPlanHooks, EndHooks, PlanHooks,
       HookPasses, SetPhase
<1>5. ASSUME NEW dir \in {"down", "up"}, ScaleRestorePlan(dir)
      PROVE  \/ UNCHANGED <<status, claim>>
             \/ UNCHANGED <<status, workloadVars>>
             \/ /\ UNCHANGED <<workloadVars, claim>>
                /\ \E p \in Plans : \A q \in Plans \ {p} : status'[q] = status[q]
  <2>1. CASE PlanScaled(dir)
    BY <2>1, StatusFields DEF PlanScaled, TypeInv, PlanOK, PlanAt, ScalingAt, TargetAt
  <2>2. CASE \E w \in Workloads : TargetFails(dir, w)
    BY <2>2, StatusFields DEF TargetFails, TypeInv, PlanOK, PlanAt, ScalingAt, TargetAt, WaitAt
  <2> QED
    BY <1>5, <2>1, <2>2 DEF ScaleRestorePlan, StartScale, TargetScaled, EndScale, PassPlan, ScalePlan,
       PatchReplicas, SetPhase
<1>6. CASE RestoreFromPlan
  <2>1. CASE LockPlan \/ PVCFails
    BY <2>1, StatusFields DEF LockPlan, PVCFails, TypeInv, PlanOK, PlanAt, RestoringAt
  <2> QED
    BY <1>6, <2>1 DEF RestoreFromPlan, StartRestore, PVCDeleted, CreatePVC, NameVolume, PVCBound,
       EndRestore, PassRestore, RestorePlan, DeletePVC, SetPhase
<1> QED
  BY <1>1, <1>2, <1>3, <1>4, <1>5, <1>6 DEF Next, Reconcile

LEMMA LifeInvStep == LifeInv /\ [Next]_vars => LifeInv'
<1> SUFFICES ASSUME LifeInv, [Next]_vars PROVE LifeInv'
  OBVIOUS
<1>1. StayOK'
  BY SeenStep DEF LifeInv, StayOK
<1> QED
  BY <1>1, TypeStep, DownStep, HookStep, UpStep DEF LifeInv

LEMMA LifeInvInit == Init => LifeInv
<1>1. Init => StayOK
  BY DEF Init, ClusterInit, StayOK
<1> QED
  BY <1>1, TypeInit, DownInit, HookInit, UpInit DEF LifeInv

\* A plan that is prepared stays so until it is locked: its operators have no pods
\* that could scale a cluster up, only a locked plan is scaled up, and a hook that
\* fails is one that has not succeeded.
LEMMA PreparedStep ==
  ASSUME LifeInv, [Next]_vars, NEW p \in LifePlans, Prepared(p), ~status[p].lock
  PROVE  Prepared(p)'
<1>1. p \in Plans /\ Waits(p) /\ Has(p)
  BY LifePlanFacts, LifeHas
<1>2. p \in Plans \ Late
  BY LifePlanFacts
<1>3. PreHooksOf(p) \ NodeHooks \subseteq status'[p].done
  <2>1. status[p].done \ status'[p].done \subseteq NodeHooks
    BY <1>1, EntryStep DEF EntryChange, EntryValidated, EntryHooked, EntryScaled, EntryRestored,
       LifeInv, UpInv, HookWorkOK
  <2> QED
    BY <2>1 DEF Prepared
<1>4. ASSUME NEW w \in TargetsOf(p) PROVE Stopped(w)'
  <2>1. w \in Workloads /\ Stopped(w)
    BY <1>1, <1>4, TargetsType DEF Prepared
  <2>2. CASE UNCHANGED workloadVars
    BY <2>1, <2>2 DEF workloadVars, Stopped
  <2>3. CASE Environment
    <3>1. \A o \in OperatorsOf(p) : ~pods[o]
      BY <1>1, NoOperatorPods, Parts DEF Prepared
    <3>2. w \in Clusters => PlanOf[w] = p
      BY <1>1, Parts DEF TargetsOf, ClustersOf, OperatorsOf
    <3> QED
      BY <2>1, <2>3, <3>1, <3>2, StoppedEnvironment DEF LifeInv
  <2>4. ASSUME NEW x \in Workloads, PatchReplicas("down", x) PROVE Stopped(w)'
    BY <2>1, <2>4 DEF PatchReplicas, Stopped, LifeInv, TypeInv, TypeOK, ClusterTypeOK
  <2>5. ASSUME NEW x \in Workloads, PatchReplicas("up", x) PROVE Stopped(w)'
    <3>1. pc = "upTarget" /\ x \in work
      BY <2>5 DEF PatchReplicas, TargetAt, NextTargets
    <3>2. status[p].lock
      BY <1>1, <1>2, <3>1 DEF LifeInv, UpInv, LockedOK, UpAt, UpLoop
    <3> QED
      BY <3>2
  <2>6. \/ UNCHANGED workloadVars \/ Environment
        \/ \E x \in Workloads : PatchReplicas("down", x) \/ PatchReplicas("up", x)
    <3>1. CASE UNCHANGED vars \/ Abort \/ Complete \/ Environment
      BY <3>1 DEF vars, Abort, Complete, clusterVars
    <3>2. CASE Validation \/ RunHooks
      BY <3>2 DEF Validation, GetResource, SetInitStatusRestorePlan, StartValidating, EndValidation,
         ValidatePlan, ValidatePlanFails, RunHooks, StartPreHooks, StartPostHooks, EndPlanHooks, EndHooks,
         PlanHooks, HookSucceeds, HookFails, HookPasses, SetPhase, clusterVars
    <3>3. CASE ScaleRestorePlan("down") \/ ScaleRestorePlan("up")
      BY <3>3 DEF ScaleRestorePlan, StartScale, TargetScaled, PlanScaled, EndScale, PassPlan, ScalePlan,
         TargetFails, SetPhase, clusterVars
    <3>4. CASE RestoreFromPlan
      BY <3>4 DEF RestoreFromPlan, StartRestore, PVCDeleted, CreatePVC, NameVolume, PVCBound, PVCFails,
         LockPlan, EndRestore, PassRestore, RestorePlan, DeletePVC, SetPhase, clusterVars
    <3> QED
      BY <3>1, <3>2, <3>3, <3>4 DEF Next, Reconcile
  <2> QED
    BY <2>2, <2>3, <2>4, <2>5, <2>6
<1> QED
  BY <1>3, <1>4 DEF Prepared, PreHooksOf, TargetsOf, ClustersOf, OperatorsOf

\* Locked plans stay locked; those that were scaled up stay so, and run.
LEMMA LockedLife ==
  ASSUME LifeInv, [Next]_vars
  PROVE  LLocked \subseteq LLocked' /\ LUp \subseteq LUp' /\ LUp' \subseteq LRunning' /\ LUp \subseteq LRunning
<1>1. ASSUME NEW p \in LifePlans, status[p].lock PROVE status'[p].lock
  <2>1. ~(pc \in RestoringAt /\ p = plan)
    BY <1>1, LifePlanFacts DEF LifeInv, DownInv, RestoreUnlocked
  <2> QED
    BY <1>1, <2>1, LifePlanFacts, EntryStep DEF LifeInv, EntryChange, EntryValidated, EntryHooked, EntryScaled,
       EntryRestored, Kept, CarriedLock
<1>2. ASSUME NEW p \in LifePlans, status[p].ups = 1 PROVE status'[p].ups = 1
  <2>1. p \in Plans \ Late /\ Has(p)
    BY LifePlanFacts, LifeHas
  <2>2. ~(p = plan /\ pc \in ScalingAt)
    BY <1>2, <2>1 DEF LifeInv, UpInv, UpsOK
  <2> QED
    BY <1>2, <2>1, <2>2, UpsEntry DEF LifeInv, ScalingAt
<1>3. \A p \in LifePlans : status[p].ups = 1 => RanUp(p)
  BY LifePlanFacts, LifeHas DEF LifeInv, UpInv, UpsOK
<1>4. \A p \in LifePlans : status'[p].ups = 1 => RanUp(p)'
  <2>1. LifeInv'
    BY LifeInvStep
  <2>2. LifePlans' = LifePlans
    BY DEF LifePlans, OperatorsOf
  <2>3. \A p \in LifePlans : Has(p)'
    BY <2>1, LifePlanFacts DEF LifeInv, StayOK, UpInv, HasOK
  <2> QED
    BY <2>1, <2>3, LifePlanFacts DEF LifeInv, UpInv, UpsOK
<1>5. LifePlans' = LifePlans
  BY DEF LifePlans, OperatorsOf
<1> QED
  BY <1>1, <1>2, <1>3, <1>4, <1>5 DEF LLocked, LUp, LRunning

\* What a deletion meets.
LEMMA DeleteLife ==
  ASSUME LifeInv, [Next]_vars, NEW v \in LRemoving' \ LRemoving
  PROVE  DeletePVC(v) /\ PlanOf[ClusterOf[v]] \in LPrepared \ LLocked
<1> DEFINE p == PlanOf[ClusterOf[v]]
<1>1. v \in PVCs /\ p \in LifePlans /\ claim[v] # "terminating" /\ claim'[v] = "terminating"
  BY DEF LRemoving, LifePlans, OperatorsOf
<1>2. DeletePVC(v)
  BY <1>1, OnlyDelete DEF LifeInv
<1>3. pc \in RestoringAt /\ v \in ClaimsOf(plan)
  BY <1>2 DEF DeletePVC, RestoringAt, LifeInv, DownInv, LoopOK
<1>4. plan = p /\ p \in Plans \ Removable /\ Waits(p)
  BY <1>1, <1>3, LifePlanFacts DEF ClaimsOf
<1>5. Due(p) /\ ~status[p].lock
  BY <1>3, <1>4 DEF LifeInv, DownInv, LoopOK, RestoreUnlocked, Due
<1>6. \A w \in TargetsOf(p) : Stopped(w)
  BY <1>3, <1>4, <1>5 DEF LifeInv, DownInv, PlansDown, Quiet
<1>7. PreHooksOf(p) \ NodeHooks \subseteq status[p].done
  BY <1>3, <1>4, <1>5 DEF LifeInv, HookInv, HooksFirst, HookedAt, Hooked
<1> QED
  BY <1>1, <1>2, <1>5, <1>6, <1>7 DEF LPrepared, Prepared, LLocked

\* A step touches the state of one claim at most.
LEMMA ClaimStep ==
  ASSUME TypeInv, [Next]_vars, claim' # claim
  PROVE  \E v \in PVCs : \A u \in PVCs \ {v} : claim'[u] = claim[u]
<1>0. claim \in [PVCs -> ClaimStates]
  BY DEF TypeInv, TypeOK, ClusterTypeOK
<1>1. CASE UNCHANGED claim
  BY <1>1
<1>2. CASE UNCHANGED vars \/ Abort \/ Complete \/ Validation \/ RunHooks
  BY <1>1, <1>2 DEF vars, clusterVars, volumeVars, Abort, Complete, Validation, GetResource,
     SetInitStatusRestorePlan, StartValidating, EndValidation, ValidatePlan, ValidatePlanFails, SetPhase, RunHooks,
     StartPreHooks, StartPostHooks, EndPlanHooks, EndHooks, PlanHooks, HookSucceeds, HookFails, HookPasses
<1>3. CASE ScaleRestorePlan("down") \/ ScaleRestorePlan("up")
  BY <1>1, <1>3 DEF clusterVars, volumeVars, ScaleRestorePlan, StartScale, TargetScaled, PlanScaled, EndScale,
     PassPlan, ScalePlan, PatchReplicas, TargetFails, SetPhase
<1>4. CASE Environment
  <2>1. CASE \E v \in PVCs : RecreateClaim(v) \/ FinishDelete(v) \/ ProvisionVolume(v) \/ BindClaim(v)
    BY <1>0, <2>1 DEF RecreateClaim, FinishDelete, ProvisionVolume, BindClaim
  <2> QED
    BY <1>1, <1>4, <2>1 DEF Environment, StartPods, StopPods, OperatorRescales, TakeSnapshots, ExpireSnapshots,
       AddPlan, RemovePlan, volumeVars
<1>5. CASE RestoreFromPlan
  <2>1. CASE CreatePVC
    BY <1>0, <2>1 DEF CreatePVC
  <2>2. CASE \E u \in PVCs : DeletePVC(u)
    BY <1>0, <2>2 DEF DeletePVC
  <2> QED
    BY <1>1, <1>5, <2>1, <2>2 DEF RestoreFromPlan, StartRestore, PVCDeleted, NameVolume, PVCBound, PVCFails,
       LockPlan, EndRestore, PassRestore, RestorePlan, SetPhase, clusterVars, volumeVars
<1> QED
  BY <1>2, <1>3, <1>4, <1>5 DEF Next, Reconcile

\* A step in the words of PlanLife.
LEMMA LifeStep ==
  ASSUME LifeInv, [Next]_vars
  PROVE  \/ UNCHANGED <<LPrepared, LRunning, LRemoving, LLocked, LUp>>
         \/ LPrepared \subseteq LPrepared' \cup LLocked /\ LUp \subseteq LRunning' /\ UNCHANGED <<LRemoving, LLocked, LUp>>
         \/ /\ UNCHANGED <<LPrepared, LRunning, LLocked, LUp>>
            /\ \E v \in PVCs : /\ PlanOf[ClusterOf[v]] \in LifePlans
                              /\ \/ PlanOf[ClusterOf[v]] \in LPrepared \ LLocked /\ LRemoving' = LRemoving \cup {v}
                                 \/ LRemoving' = LRemoving \ {v}
         \/ /\ UNCHANGED <<LPrepared, LRunning, LRemoving, LUp>>
            /\ \E p \in LifePlans : LLocked' = LLocked \cup {p}
         \/ /\ UNCHANGED <<LPrepared, LRunning, LRemoving, LLocked>>
            /\ \E p \in LLocked \cap LRunning : LUp' = LUp \cup {p}
<1>0. LifePlans' = LifePlans
  BY DEF LifePlans, OperatorsOf
<1>1. LPrepared \subseteq LPrepared' \cup LLocked
  BY <1>0, PreparedStep DEF LPrepared, LLocked
<1>2. ASSUME NEW ps \in SUBSET LifePlans, \A p \in ps : status'[p] = status[p], UNCHANGED workloadVars
      PROVE  \A p \in ps : /\ Prepared(p)' = Prepared(p) /\ RanUp(p)' = RanUp(p)
                           /\ status'[p].lock = status[p].lock /\ status'[p].ups = status[p].ups
  BY <1>2 DEF Prepared, RanUp, Runs, Stopped, workloadVars, PreHooksOf, TargetsOf, ClustersOf, OperatorsOf
<1>3. UNCHANGED claim => UNCHANGED LRemoving
  BY <1>0 DEF LRemoving
<1>4. CASE UNCHANGED <<status, claim>>
  <2>1. UNCHANGED <<LLocked, LUp>>
    BY <1>0, <1>4 DEF LLocked, LUp
  <2> QED
    BY <1>1, <1>3, <1>4, <2>1, LockedLife
<1>5. CASE UNCHANGED <<status, workloadVars>>
  <2>1. UNCHANGED <<LPrepared, LRunning, LLocked, LUp>>
    BY <1>0, <1>2, <1>5 DEF LPrepared, LRunning, LLocked, LUp
  <2>2. CASE LRemoving' = LRemoving
    BY <2>1, <2>2
  <2>3. CASE LRemoving' # LRemoving
    <3>1. \E v \in PVCs : \A u \in PVCs \ {v} : claim'[u] = claim[u]
      BY <1>5, <2>3, <1>3, ClaimStep DEF LifeInv
    <3>2. PICK v \in PVCs : \A u \in PVCs \ {v} : claim'[u] = claim[u]
      BY <3>1
    <3>3. \A u \in PVCs \ {v} : u \in LRemoving' <=> u \in LRemoving
      BY <1>0, <3>2 DEF LRemoving
    <3>4. LRemoving \subseteq PVCs /\ LRemoving' \subseteq PVCs
      BY DEF LRemoving
    <3>5. CASE v \in LRemoving'
      <4>1. v \notin LRemoving /\ LRemoving' = LRemoving \cup {v}
        BY <2>3, <3>3, <3>4, <3>5
      <4>2. PlanOf[ClusterOf[v]] \in LPrepared \ LLocked /\ PlanOf[ClusterOf[v]] \in LifePlans
        BY <3>5, <4>1, DeleteLife DEF LPrepared
      <4> QED
        BY <2>1, <3>2, <4>1, <4>2
    <3>6. CASE v \notin LRemoving'
      <4>1. v \in LRemoving /\ LRemoving' = LRemoving \ {v}
        BY <2>3, <3>3, <3>4, <3>6
      <4>2. PlanOf[ClusterOf[v]] \in LifePlans
        BY <4>1 DEF LRemoving
      <4> QED
        BY <2>1, <3>2, <4>1, <4>2
    <3> QED
      BY <3>5, <3>6
  <2> QED
    BY <2>2, <2>3
<1>6. ASSUME UNCHANGED <<workloadVars, claim>>, NEW p \in Plans, \A q \in Plans \ {p} : status'[q] = status[q],
             p \notin LifePlans
      PROVE  UNCHANGED <<LPrepared, LRunning, LRemoving, LLocked, LUp>>
  <2>1. \A q \in LifePlans : status'[q] = status[q]
    BY <1>6, LifePlanFacts
  <2> QED
    BY <1>0, <1>2, <1>3, <1>6, <2>1 DEF LPrepared, LRunning, LLocked, LUp
<1>7. ASSUME UNCHANGED <<workloadVars, claim>>, NEW p \in LifePlans, \A q \in Plans \ {p} : status'[q] = status[q],
             status'[p].done = status[p].done
      PROVE  /\ UNCHANGED <<LPrepared, LRunning, LRemoving>>
             /\ \A q \in LifePlans \ {p} : /\ q \in LLocked' <=> q \in LLocked
                                           /\ q \in LUp' <=> q \in LUp
  <2>1. \A q \in LifePlans : Prepared(q)' = Prepared(q) /\ RanUp(q)' = RanUp(q)
    <3>1. \A q \in LifePlans : status'[q].done = status[q].done
      BY <1>7, LifePlanFacts
    <3> QED
      BY <1>7, <3>1 DEF Prepared, RanUp, Runs, Stopped, workloadVars, PreHooksOf, TargetsOf, ClustersOf, OperatorsOf
  <2>2. \A q \in LifePlans \ {p} : status'[q] = status[q]
    BY <1>7, LifePlanFacts
  <2> QED
    BY <1>0, <1>3, <1>7, <2>1, <2>2 DEF LPrepared, LRunning, LLocked, LUp
<1>8. ASSUME UNCHANGED <<workloadVars, claim>>, NEW p \in LifePlans, \A q \in Plans \ {p} : status'[q] = status[q],
             status'[p].done = status[p].done, status[p].lock = status'[p].lock
      PROVE  \/ UNCHANGED <<LPrepared, LRunning, LRemoving, LLocked, LUp>>
             \/ /\ UNCHANGED <<LPrepared, LRunning, LRemoving, LLocked>>
                /\ p \in LLocked \cap LRunning /\ LUp' = LUp \cup {p}
  <2>1. LLocked' = LLocked
    BY <1>0, <1>7, <1>8 DEF LLocked
  <2>2. LUp' = LUp \/ LUp' = LUp \cup {p}
    BY <1>0, <1>7, <1>8, LockedLife DEF LUp
  <2>3. p \in LUp' => p \in LLocked' /\ p \in LRunning'
    BY LockedLife DEF LUp, LLocked
  <2> QED
    BY <1>7, <1>8, <2>1, <2>2, <2>3
<1>9. ASSUME UNCHANGED <<workloadVars, claim>>, NEW p \in LifePlans, \A q \in Plans \ {p} : status'[q] = status[q],
             status'[p].done = status[p].done, ~status[p].lock, status'[p].lock, status'[p].ups = status[p].ups
      PROVE  UNCHANGED <<LPrepared, LRunning, LRemoving, LUp>> /\ LLocked' = LLocked \cup {p}
  <2>1. status[p].ups # 1
    BY <1>9, LifePlanFacts, LifeHas DEF LifeInv, UpInv, UpsOK
  <2> QED
    BY <1>0, <1>7, <1>9, <2>1 DEF LLocked, LUp
<1>10. ASSUME UNCHANGED <<workloadVars, claim>>, NEW p \in LifePlans, \A q \in Plans \ {p} : status'[q] = status[q],
              status'[p].lock = status[p].lock, status'[p].ups = status[p].ups
       PROVE  UNCHANGED <<LRemoving, LLocked, LUp>>
  <2>1. \A q \in LifePlans : status'[q].lock = status[q].lock /\ status'[q].ups = status[q].ups
    BY <1>10, LifePlanFacts
  <2> QED
    BY <1>0, <1>3, <1>10, <2>1 DEF LLocked, LUp
<1>11. CASE /\ UNCHANGED <<workloadVars, claim>>
            /\ \E p \in Plans : \A q \in Plans \ {p} : status'[q] = status[q]
  <2>1. PICK p \in Plans : \A q \in Plans \ {p} : status'[q] = status[q]
    BY <1>11
  <2>2. CASE p \notin LifePlans
    BY <1>6, <1>11, <2>1, <2>2
  <2>3. CASE p \in LifePlans /\ status'[p].lock = status[p].lock /\ status'[p].ups = status[p].ups
    BY <1>1, <1>10, <1>11, <2>1, <2>3, LockedLife
  <2>4. CASE p \in LifePlans /\ status'[p].done = status[p].done
    <3>1. status[p].lock \in BOOLEAN /\ status'[p].lock \in BOOLEAN
      BY <2>1, StatusFields, TypeStep DEF LifeInv, PlanStatus, TypeInv, TypeOK, ClusterTypeOK
    <3>2. status[p].lock => status'[p].lock
      BY <1>0, <2>4, LockedLife DEF LLocked
    <3>3. ~status[p].lock /\ status'[p].lock => status'[p].ups = status[p].ups
      BY <2>1, EntryStep DEF LifeInv, EntryChange, EntryValidated, EntryHooked, EntryScaled, EntryRestored, Kept
    <3>4. CASE status'[p].lock = status[p].lock
      BY <1>8, <1>11, <2>1, <2>4, <3>4
    <3>5. CASE ~status[p].lock /\ status'[p].lock
      BY <1>9, <1>11, <2>1, <2>4, <3>3, <3>5
    <3> QED
      BY <3>1, <3>2, <3>4, <3>5
  <2>5. \/ status'[p].lock = status[p].lock /\ status'[p].ups = status[p].ups
        \/ status'[p].done = status[p].done
    BY <2>1, EntryStep DEF LifeInv, EntryChange, EntryValidated, EntryHooked, EntryScaled, EntryRestored, Kept
  <2> QED
    BY <2>2, <2>3, <2>4, <2>5
<1> QED
  BY <1>4, <1>5, <1>11, OneKind DEF LifeInv

\* Every run of the reconciler is, plan by plan, a life PlanLife allows: each step
\* is one of its actions or none.
THEOREM PlanLifeImplemented == Spec => ImplementsPlanLife
<1>1. Init => Life!Init
  <2> SUFFICES ASSUME Init PROVE Life!Init
    OBVIOUS
  <2>1. \A p \in LifePlans : ~status[p].lock
    BY LifePlanFacts DEF Init, ClusterInit, NoStatus
  <2>2. \A v \in PVCs : claim[v] # "terminating"
    BY DEF Init, ClusterInit
  <2> QED
    BY <2>1, <2>2 DEF Life!Init
<1>2. LifeInv /\ [Next]_vars => [Life!Next]_(Life!lifeVars)
  <2> SUFFICES ASSUME LifeInv, [Next]_vars PROVE [Life!Next]_(Life!lifeVars)
    OBVIOUS
  <2>1. CASE UNCHANGED <<LPrepared, LRunning, LRemoving, LLocked, LUp>>
    BY <2>1 DEF Life!lifeVars, LPrepared, LRunning, LRemoving, LLocked, LUp, RanUp
  <2>2. CASE /\ LPrepared \subseteq LPrepared' \cup LLocked /\ LUp \subseteq LRunning'
             /\ UNCHANGED <<LRemoving, LLocked, LUp>>
    <3>1. LPrepared' \subseteq LifePlans /\ LRunning' \subseteq LifePlans
      BY DEF LPrepared, LRunning, LifePlans, OperatorsOf
    <3> QED
      BY <2>2, <3>1 DEF Life!Next, Life!Work, LPrepared, LRunning, LRemoving, LLocked, LUp, RanUp
  <2>3. ASSUME UNCHANGED <<LPrepared, LRunning, LLocked, LUp>>,
               NEW v \in PVCs, PlanOf[ClusterOf[v]] \in LifePlans,
               \/ PlanOf[ClusterOf[v]] \in LPrepared \ LLocked /\ LRemoving' = LRemoving \cup {v}
               \/ LRemoving' = LRemoving \ {v}
        PROVE  Life!Next
    <3>1. Life!Delete(v) \/ Life!Gone(v)
      BY <2>3 DEF Life!Delete, Life!Gone, LPrepared, LRunning, LRemoving, LLocked, LUp, RanUp
    <3> QED
      BY <2>3, <3>1 DEF Life!Next
  <2>4. ASSUME UNCHANGED <<LPrepared, LRunning, LRemoving, LUp>>,
               NEW p \in LifePlans, LLocked' = LLocked \cup {p}
        PROVE  Life!Next
    <3>1. Life!Lock(p)
      BY <2>4 DEF Life!Lock, LPrepared, LRunning, LRemoving, LLocked, LUp, RanUp
    <3> QED
      BY <2>4, <3>1 DEF Life!Next
  <2>5. ASSUME UNCHANGED <<LPrepared, LRunning, LRemoving, LLocked>>,
               NEW p \in LLocked \cap LRunning, LUp' = LUp \cup {p}
        PROVE  Life!Next
    <3>1. Life!ScaleUp(p) /\ p \in LifePlans
      BY <2>5 DEF Life!ScaleUp, LPrepared, LRunning, LRemoving, LLocked, LUp, RanUp
    <3> QED
      BY <2>5, <3>1 DEF Life!Next
  <2> QED
    BY <2>1, <2>2, <2>3, <2>4, <2>5, LifeStep
<1>3. Spec => []LifeInv
  BY LifeInvInit, LifeInvStep, PTL DEF Spec
<1> QED
  BY <1>1, <1>2, <1>3, PTL DEF Spec, ImplementsPlanLife, Life!Spec
=============================================================================
