---------------------------- MODULE MCReconciler ----------------------------
(* Small instances of the reconciler.  OnePlan: a plan with an operator, a  *)
(* cluster and a hook of each event.  TwoPlans: a plan with an operator and *)
(* a pre-restore hook, and one with a post-restore hook, each with a        *)
(* cluster; the first cluster has a claim that is skipped.  Bare and Wide:  *)
(* no operator, and a second cluster of two claims.                         *)
EXTENDS Reconciler, TLC

CONSTANTS p1, p2, o1, c1, c2, v1, v2, v3, pre1, post1, post2

OnePlanOf    == o1 :> p1 @@ c1 :> p1
OneClusterOf == [v \in PVCs |-> c1]
OneHookPlan  == pre1 :> p1 @@ post1 :> p1
OneLatest    == p1 :> NoTime
OneTaken     == [v \in PVCs |-> {1}]

TwoPlanOf    == o1 :> p1 @@ c1 :> p1 @@ c2 :> p2
TwoClusterOf == v1 :> c1 @@ v2 :> c2 @@ v3 :> c1
TwoHookPlan  == pre1 :> p1 @@ post2 :> p2
BarePlanOf   == c1 :> p1 @@ c2 :> p2
WideClusterOf == v1 :> c1 @@ v2 :> c2 @@ v3 :> c2
TwoTimes     == p1 :> NoTime @@ p2 :> 1
TwoTaken     == [v \in PVCs |-> {1}]
=============================================================================
