------------------------ MODULE ScaleWorkloadProofs ------------------------
(* Proofs about ScaleWorkload: pods and status of a workload that is scaled *)
(* down and up, and of the StatefulSet that is made anew in between.        *)
EXTENDS ScaleWorkload, TLAPS

\* Only what the operator asks for is done.
Alone == rescales = 0

\* The scale-down was waited for as well, and the claims have been replaced.
Steady == lock /\ Alone /\ ~SkipDown

STS == kind # "Deployment"

\* Where the operator stands tells what the plan says, and what is being made anew.
PcOK ==
    /\ pc \in {"down", "downWait", "restore"} => ~lock
    /\ pc \in Scaling => lock /\ ups = 0
    /\ ups = 1 => lock /\ ~Contradiction
    /\ pc \in Scaling \ {"up"} => sts # None /\ ~Contradiction
    /\ pc \notin Scaling \ {"up"} => sts = None
    /\ pc = "last" => STS
    /\ pc \in Recreating => Parallel /\ STS

\* The StatefulSet goes, for good or not, only where it is made anew.
ObjectOK ==
    /\ obj = None \/ obj.deleting => Parallel /\ STS /\ lock
    /\ obj # None /\ ~STS => obj.policy = "Parallel"
    /\ pc = "gone" => obj = None \/ obj.deleting
    /\ pc = "create" => obj = None

\* Until the claims are replaced, pods only go, and the status counts them late.
DownOK ==
    ~lock /\ Alone =>
        /\ obj # None /\ obj.replicas <= pods /\ pods <= status.replicas
        /\ pc \in {"downWait", "restore"} => obj.replicas = 0
        /\ pc = "restore" /\ ~SkipDown => pods = 0 /\ status.replicas = 0 /\ status.ready = 0

\* Then the workload asks for no pod or for all, a StatefulSet that starts them one by
\* one for no pod until all have been started.
Deleted ==
    /\ obj # None => obj.replicas = sts.replicas /\ obj.policy = sts.policy
    /\ policy = "Parallel" => sts.replicas = 0 /\ sts.policy = "OrderedReady"
    /\ policy = "OrderedReady" => sts.policy = "Parallel"

UpOK ==
    lock /\ Alone =>
        /\ obj # None => obj.replicas \in {0, Wanted}
        /\ sts # None => sts.replicas \in {0, Wanted}
        /\ obj # None /\ obj.deleting /\ obj.policy = "OrderedReady" => obj.replicas = 0
        /\ pc = "delete" => Deleted
        /\ pc = "patch" /\ obj # None => obj.replicas = sts.replicas
        /\ pc \in {"patch", "upWait", "last"} /\ Parallel /\ obj # None =>
              obj.policy = "Parallel" \/ obj.replicas = Wanted
        /\ ups = 1 => obj # None /\ ~obj.deleting /\ (Parallel /\ STS => obj.policy = "OrderedReady")

\* From a workload without pods on, they only come, and the status counts them late.
SteadyOK ==
    Steady =>
        /\ pods <= Wanted /\ status.replicas <= pods /\ status.ready <= ready
        /\ obj # None => pods <= obj.replicas
        /\ pc \in Recreating => pods <= sts.replicas
        /\ obj # None /\ Parallel /\ obj.policy = "OrderedReady" /\ obj.replicas = Wanted => ready = Wanted
        /\ pc = "last" => ready = Wanted
        /\ obj # None /\ obj.deleting /\ obj.policy = "Parallel" => ready = Wanted
        /\ pc \in Recreating /\ policy = "OrderedReady" => ready = Wanted
        /\ ups = 1 /\ ~SkipUp => ready = Wanted

WorkloadInv == TypeOK /\ PcOK /\ ObjectOK /\ DownOK /\ UpOK /\ SteadyOK

-----------------------------------------------------------------------------
(* What the records of the model are after a step.                            *)

LEMMA Constants ==
  /\ Wanted \in Nat /\ Wanted # 0 /\ Before \subseteq Nat /\ Rescales \subseteq Nat
  /\ Policies \subseteq PolicyNames /\ None \notin Objects
BY WorkloadConstantsOK DEF WorkloadConstantsOK

LEMMA ObjectTypes ==
  ASSUME TypeOK
  PROVE  /\ obj # None => obj \in Objects /\ obj.replicas \in Nat /\ obj.policy \in PolicyNames
                          /\ obj.deleting \in BOOLEAN
         /\ sts # None => sts \in Objects /\ sts.replicas \in Nat /\ sts.policy \in PolicyNames
         /\ status.replicas \in Nat /\ status.ready \in Nat /\ pods \in Nat /\ ready \in Nat /\ ready <= pods
         /\ policy \in {"OrderedReady", "Parallel"}
BY DEF TypeOK, Objects, Statuses, PolicyNames

LEMMA ObjectScaled ==
  ASSUME NEW o \in Objects, NEW n \in Nat
  PROVE  /\ [o EXCEPT !.replicas = n] \in Objects \ {None}
         /\ [o EXCEPT !.replicas = n].replicas = n
         /\ [o EXCEPT !.replicas = n].policy = o.policy
         /\ [o EXCEPT !.replicas = n].deleting = o.deleting
BY Constants DEF Objects

LEMMA ObjectDeleted ==
  ASSUME NEW o \in Objects
  PROVE  /\ [o EXCEPT !.deleting = TRUE] \in Objects \ {None}
         /\ [o EXCEPT !.deleting = TRUE].replicas = o.replicas
         /\ [o EXCEPT !.deleting = TRUE].policy = o.policy
         /\ [o EXCEPT !.deleting = TRUE].deleting = TRUE
BY Constants DEF Objects

LEMMA ObjectRemade ==
  ASSUME NEW o \in Objects, NEW p \in PolicyNames
  PROVE  /\ [o EXCEPT !.policy = p, !.deleting = FALSE] \in Objects \ {None}
         /\ [o EXCEPT !.policy = p, !.deleting = FALSE].replicas = o.replicas
         /\ [o EXCEPT !.policy = p, !.deleting = FALSE].policy = p
         /\ [o EXCEPT !.policy = p, !.deleting = FALSE].deleting = FALSE
BY Constants DEF Objects

\* A step that patches the replicas.
LEMMA Patched ==
  ASSUME TypeOK, obj # None, NEW n \in Nat, SetReplicas(n)
  PROVE  /\ obj' # None /\ obj' \in Objects /\ obj'.replicas = n
         /\ obj'.policy = obj.policy /\ (obj'.deleting <=> obj.deleting)
         /\ status'.replicas = status.replicas /\ status'.ready = status.ready
         /\ status' \in Statuses
<1>1. obj' = [obj EXCEPT !.replicas = n] /\ obj \in Objects
  BY ObjectTypes DEF SetReplicas
<1>2. /\ status'.replicas = status.replicas /\ status'.ready = status.ready
      /\ status' \in Statuses
  BY DEF SetReplicas, TypeOK, Statuses
<1> QED
  BY <1>1, <1>2, ObjectTypes, ObjectScaled

LEMMA ScaledDown ==
  ASSUME TypeOK, ScaleDown
  PROVE  /\ obj # None /\ obj' # None /\ obj'.replicas = 0
         /\ obj'.policy = obj.policy /\ (obj'.deleting <=> obj.deleting)
         /\ status'.replicas = status.replicas /\ status'.ready = status.ready
<1>1. CASE obj.replicas # 0
  BY <1>1, Patched DEF ScaleDown
<1>2. CASE obj.replicas = 0
  BY <1>2 DEF ScaleDown
<1> QED
  BY <1>1, <1>2

LEMMA PatchedUp ==
  ASSUME TypeOK, PatchUp
  PROVE  /\ obj # None /\ obj' # None
         /\ obj'.replicas = IF sts.replicas < Wanted THEN Wanted ELSE obj.replicas
         /\ obj'.policy = obj.policy /\ (obj'.deleting <=> obj.deleting)
         /\ status'.replicas = status.replicas /\ status'.ready = status.ready
<1>1. CASE sts.replicas < Wanted
  BY <1>1, Patched, Constants DEF PatchUp
<1>2. CASE ~(sts.replicas < Wanted)
  BY <1>2 DEF PatchUp
<1> QED
  BY <1>1, <1>2

LEMMA Rescaled ==
  ASSUME TypeOK, Rescale
  PROVE  /\ obj # None /\ obj' # None /\ ~Alone'
         /\ obj'.policy = obj.policy /\ (obj'.deleting <=> obj.deleting)
<1>1. ~Alone'
  BY DEF Rescale, Alone, TypeOK
<1> QED
  BY <1>1, Patched, Constants DEF Rescale

\* The step that deletes the StatefulSet.
LEMMA Deletes ==
  ASSUME TypeOK, Delete
  PROVE  /\ obj' # None /\ obj' \in Objects /\ obj'.replicas = obj.replicas
         /\ obj'.policy = obj.policy /\ obj'.deleting = TRUE /\ obj'.deleting
<1>1. obj' = [obj EXCEPT !.deleting = TRUE] /\ obj \in Objects /\ obj.replicas \in Nat /\ obj.policy \in PolicyNames
  BY ObjectTypes DEF Delete
<1>2. obj'.deleting = TRUE
  BY <1>1, ObjectDeleted
<1> QED
  BY <1>1, <1>2, ObjectDeleted

\* The step that makes it anew.
LEMMA Creates ==
  ASSUME TypeOK, PcOK, Create
  PROVE  /\ obj' # None /\ obj' \in Objects /\ obj'.replicas = sts.replicas
         /\ obj'.policy = policy /\ obj'.deleting = FALSE /\ ~obj'.deleting
         /\ status'.replicas = 0 /\ status'.ready = 0
         /\ status' \in Statuses
<1>1. obj' = [sts EXCEPT !.policy = policy, !.deleting = FALSE] /\ sts \in Objects /\ sts.replicas \in Nat
      /\ policy \in PolicyNames
  BY ObjectTypes DEF Create, PcOK, Scaling, Recreating, TypeOK
<1>2. obj'.deleting = FALSE
  BY <1>1, ObjectRemade
<1>3. /\ status'.replicas = 0 /\ status'.ready = 0
      /\ status' \in Statuses
  BY DEF Create, Statuses
<1> QED
  BY <1>1, <1>2, <1>3, ObjectRemade

\* Every step keeps the types.
LEMMA WorkloadTypeStep == TypeOK /\ PcOK /\ [Next]_vars => TypeOK'
<1> SUFFICES ASSUME TypeOK, PcOK, [Next]_vars PROVE TypeOK'
  OBVIOUS
<1>1. CASE UNCHANGED vars
  BY <1>1, Constants, ObjectTypes DEF vars, objectVars, typeVars, planVars, boundVars, TypeOK, Return, Scaling, Recreating, PolicyNames, objectVars, typeVars, planVars, boundVars
<1>2. CASE Begin
  BY <1>2, Constants, ObjectTypes DEF Begin, TypeOK, Return, Scaling, Recreating, PolicyNames, objectVars, typeVars, planVars, boundVars
<1>3. CASE ScaleDown
  <2>1. (UNCHANGED obj \/ obj' \in Objects) /\ status' \in Statuses
    <3>1. CASE SetReplicas(0)
      BY <1>3, <3>1, Patched DEF ScaleDown
    <3>2. CASE UNCHANGED <<obj, status>>
      BY <3>2 DEF TypeOK
    <3> QED
      BY <1>3, <3>1, <3>2 DEF ScaleDown
  <2> QED
    BY <1>3, <2>1, ObjectTypes DEF ScaleDown, TypeOK, typeVars, planVars, boundVars
<1>4. CASE DownWaited
  BY <1>4, Constants, ObjectTypes DEF DownWaited, TypeOK, Return, Scaling, Recreating, PolicyNames, objectVars, typeVars, planVars, boundVars
<1>5. CASE Restored
  BY <1>5, Constants, ObjectTypes DEF Restored, TypeOK, Return, Scaling, Recreating, PolicyNames, objectVars, typeVars, planVars, boundVars
<1>6. CASE GetUp
  BY <1>6, Constants, ObjectTypes DEF GetUp, TypeOK, Return, Scaling, Recreating, PolicyNames, objectVars, typeVars, planVars, boundVars
<1>7. CASE PatchUp
  <2>1. (UNCHANGED obj \/ obj' \in Objects) /\ status' \in Statuses
    <3>1. CASE SetReplicas(Wanted)
      BY <1>7, <3>1, Patched, Constants DEF PatchUp
    <3>2. CASE UNCHANGED <<obj, status>>
      BY <3>2 DEF TypeOK
    <3> QED
      BY <1>7, <3>1, <3>2 DEF PatchUp
  <2> QED
    BY <1>7, <2>1, ObjectTypes DEF PatchUp, Return, TypeOK, Scaling, PolicyNames, typeVars, boundVars
<1>8. CASE UpWaited
  BY <1>8, Constants, ObjectTypes DEF UpWaited, TypeOK, Return, Scaling, Recreating, PolicyNames, objectVars, typeVars, planVars, boundVars
<1>9. CASE LastGet
  BY <1>9, Constants, ObjectTypes DEF LastGet, TypeOK, Return, Scaling, Recreating, PolicyNames, objectVars, typeVars, planVars, boundVars
<1>10. CASE Delete
  <2>1. obj' \in Objects
    BY <1>10, Deletes
  <2> QED
    BY <1>10, <2>1, ObjectTypes DEF Delete, TypeOK, Scaling, Recreating, typeVars, planVars, boundVars
<1>11. CASE Gone
  BY <1>11, Constants, ObjectTypes DEF Gone, TypeOK, Return, Scaling, Recreating, PolicyNames, objectVars, typeVars, planVars, boundVars
<1>12. CASE Create
  <2>1. obj' \in Objects /\ status' \in Statuses
    BY <1>12, Creates
  <2> QED
    BY <1>12, <2>1, ObjectTypes DEF Create, Return, TypeOK, Scaling, PolicyNames, typeVars, boundVars
<1>13. CASE Stops
  BY <1>13, Constants, ObjectTypes DEF Stops, TypeOK, Return, Scaling, Recreating, PolicyNames, objectVars, typeVars, planVars, boundVars
<1>14. CASE CreatePod
  BY <1>14, Constants, ObjectTypes DEF CreatePod, TypeOK, Return, Scaling, Recreating, PolicyNames, objectVars, typeVars, planVars, boundVars
<1>15. CASE PodReady
  BY <1>15, Constants, ObjectTypes DEF PodReady, TypeOK, Return, Scaling, Recreating, PolicyNames, objectVars, typeVars, planVars, boundVars
<1>16. CASE RemovePod
  <2>1. pods' \in Nat /\ ready' \in 0 .. pods'
    BY <1>16, ObjectTypes DEF RemovePod
  <2> QED
    BY <1>16, <2>1 DEF RemovePod, TypeOK, typeVars, planVars, boundVars
<1>17. CASE WriteStatus
  <2>1. status' \in Statuses
    BY <1>17, ObjectTypes DEF WriteStatus, Statuses
  <2> QED
    BY <1>17, <2>1 DEF WriteStatus, TypeOK, typeVars, planVars, boundVars
<1>18. CASE FinishDelete
  BY <1>18, Constants, ObjectTypes DEF FinishDelete, TypeOK, Return, Scaling, Recreating, PolicyNames, objectVars, typeVars, planVars, boundVars
<1>19. CASE Rescale
  <2>1. obj' \in Objects /\ status' \in Statuses
    BY <1>19, Patched, Constants DEF Rescale
  <2>2. rescales' \in 0 .. MaxRescales
    BY <1>19, WorkloadConstantsOK DEF Rescale, TypeOK, WorkloadConstantsOK
  <2> QED
    BY <1>19, <2>1, <2>2, ObjectTypes DEF Rescale, TypeOK, typeVars, planVars
<1>20. ASSUME NEW k \in FaultKinds, Fails(k) PROVE TypeOK'
  <2>1. faults' \in 0 .. MaxFaults
    BY <1>20, WorkloadConstantsOK DEF Fails, TypeOK, WorkloadConstantsOK
  <2> QED
    BY <1>20, <2>1, ObjectTypes DEF Fails, Return, TypeOK, PolicyNames, objectVars, typeVars, planVars
<1> QED
  BY <1>1, <1>2, <1>3, <1>4, <1>5, <1>6, <1>7, <1>8, <1>9, <1>10, <1>11, <1>12, <1>13, <1>14, <1>15, <1>16, <1>17, <1>18, <1>19, <1>20 DEF Next, Operate, Controllers

\* What the operator is at, and the plan.
LEMMA PcStep == TypeOK /\ PcOK /\ [Next]_vars => PcOK'
<1> SUFFICES ASSUME TypeOK, PcOK, [Next]_vars PROVE PcOK'
  OBVIOUS
<1>1. CASE UNCHANGED vars
  BY <1>1 DEF vars, objectVars, typeVars, planVars, boundVars, TypeOK, PcOK, Return, PutsBack, Scaling, Recreating, Contradiction, STS, Parallel, SkipUp, SkipDown, objectVars, typeVars, planVars, boundVars
<1>2. CASE Begin
  BY <1>2 DEF Begin, TypeOK, PcOK, Return, PutsBack, Scaling, Recreating, Contradiction, STS, Parallel, SkipUp, SkipDown, objectVars, typeVars, planVars, boundVars
<1>3. CASE ScaleDown
  BY <1>3 DEF ScaleDown, TypeOK, PcOK, Return, PutsBack, Scaling, Recreating, Contradiction, STS, Parallel, SkipUp, SkipDown, objectVars, typeVars, planVars, boundVars
<1>4. CASE DownWaited
  BY <1>4 DEF DownWaited, TypeOK, PcOK, Return, PutsBack, Scaling, Recreating, Contradiction, STS, Parallel, SkipUp, SkipDown, objectVars, typeVars, planVars, boundVars
<1>5. CASE Restored
  BY <1>5 DEF Restored, TypeOK, PcOK, Return, PutsBack, Scaling, Recreating, Contradiction, STS, Parallel, SkipUp, SkipDown, objectVars, typeVars, planVars, boundVars
<1>6. CASE GetUp
  BY <1>6 DEF GetUp, NeedsParallel, TypeOK, PcOK, Scaling, Recreating, Contradiction, STS, Parallel, SkipUp, objectVars, typeVars, planVars, boundVars
<1>7. CASE PatchUp
  BY <1>7 DEF PatchUp, TypeOK, PcOK, Return, PutsBack, Scaling, Recreating, Contradiction, STS, Parallel, SkipUp, SkipDown, objectVars, typeVars, planVars, boundVars
<1>8. CASE UpWaited
  BY <1>8 DEF UpWaited, TypeOK, PcOK, Return, PutsBack, Scaling, Recreating, Contradiction, STS, Parallel, SkipUp, SkipDown, objectVars, typeVars, planVars, boundVars
<1>9. CASE LastGet
  BY <1>9 DEF LastGet, TypeOK, PcOK, Return, PutsBack, Scaling, Recreating, Contradiction, STS, Parallel, SkipUp, SkipDown, objectVars, typeVars, planVars, boundVars
<1>10. CASE Delete
  BY <1>10 DEF Delete, TypeOK, PcOK, Return, PutsBack, Scaling, Recreating, Contradiction, STS, Parallel, SkipUp, SkipDown, objectVars, typeVars, planVars, boundVars
<1>11. CASE Gone
  BY <1>11 DEF Gone, TypeOK, PcOK, Return, PutsBack, Scaling, Recreating, Contradiction, STS, Parallel, SkipUp, SkipDown, objectVars, typeVars, planVars, boundVars
<1>12. CASE Create
  BY <1>12 DEF Create, TypeOK, PcOK, Return, PutsBack, Scaling, Recreating, Contradiction, STS, Parallel, SkipUp, SkipDown, objectVars, typeVars, planVars, boundVars
<1>13. CASE Stops
  BY <1>13 DEF Stops, TypeOK, PcOK, Return, PutsBack, Scaling, Recreating, Contradiction, STS, Parallel, SkipUp, SkipDown, objectVars, typeVars, planVars, boundVars
<1>14. CASE CreatePod
  BY <1>14 DEF CreatePod, TypeOK, PcOK, Return, PutsBack, Scaling, Recreating, Contradiction, STS, Parallel, SkipUp, SkipDown, objectVars, typeVars, planVars, boundVars
<1>15. CASE PodReady
  BY <1>15 DEF PodReady, TypeOK, PcOK, Return, PutsBack, Scaling, Recreating, Contradiction, STS, Parallel, SkipUp, SkipDown, objectVars, typeVars, planVars, boundVars
<1>16. CASE RemovePod
  BY <1>16 DEF RemovePod, TypeOK, PcOK, Return, PutsBack, Scaling, Recreating, Contradiction, STS, Parallel, SkipUp, SkipDown, objectVars, typeVars, planVars, boundVars
<1>17. CASE WriteStatus
  BY <1>17 DEF WriteStatus, TypeOK, PcOK, Return, PutsBack, Scaling, Recreating, Contradiction, STS, Parallel, SkipUp, SkipDown, objectVars, typeVars, planVars, boundVars
<1>18. CASE FinishDelete
  BY <1>18 DEF FinishDelete, TypeOK, PcOK, Return, PutsBack, Scaling, Recreating, Contradiction, STS, Parallel, SkipUp, SkipDown, objectVars, typeVars, planVars, boundVars
<1>19. CASE Rescale
  BY <1>19 DEF Rescale, TypeOK, PcOK, Return, PutsBack, Scaling, Recreating, Contradiction, STS, Parallel, SkipUp, SkipDown, objectVars, typeVars, planVars, boundVars
<1>20. ASSUME NEW k \in FaultKinds, Fails(k) PROVE PcOK'
  BY <1>20 DEF Fails, TypeOK, PcOK, Return, PutsBack, Scaling, Recreating, Contradiction, STS, Parallel, SkipUp, SkipDown, objectVars, typeVars, planVars, boundVars
<1> QED
  BY <1>1, <1>2, <1>3, <1>4, <1>5, <1>6, <1>7, <1>8, <1>9, <1>10, <1>11, <1>12, <1>13, <1>14, <1>15, <1>16, <1>17, <1>18, <1>19, <1>20 DEF Next, Operate, Controllers

\* When the StatefulSet may be gone.
LEMMA ObjectStep == TypeOK /\ PcOK /\ ObjectOK /\ [Next]_vars => ObjectOK'
<1> SUFFICES ASSUME TypeOK, PcOK, ObjectOK, [Next]_vars PROVE ObjectOK'
  OBVIOUS
<1>1. CASE UNCHANGED vars
  BY <1>1 DEF vars, objectVars, typeVars, planVars, boundVars, PcOK, ObjectOK, Return, Scaling, Recreating, STS, Parallel, objectVars, typeVars, planVars, boundVars
<1>2. CASE Begin
  BY <1>2, ObjectTypes, Constants DEF Begin, PcOK, ObjectOK, Return, Scaling, Recreating, STS, Parallel, objectVars, typeVars, planVars, boundVars
<1>3. CASE ScaleDown
  BY <1>3, ObjectTypes, Constants, ScaledDown DEF ScaleDown, PcOK, ObjectOK, Return, Scaling, Recreating, STS, Parallel, objectVars, typeVars, planVars, boundVars
<1>4. CASE DownWaited
  BY <1>4, ObjectTypes, Constants DEF DownWaited, PcOK, ObjectOK, Return, Scaling, Recreating, STS, Parallel, objectVars, typeVars, planVars, boundVars
<1>5. CASE Restored
  BY <1>5, ObjectTypes, Constants DEF Restored, PcOK, ObjectOK, Return, Scaling, Recreating, STS, Parallel, objectVars, typeVars, planVars, boundVars
<1>6. CASE GetUp
  BY <1>6, ObjectTypes, Constants DEF GetUp, PcOK, ObjectOK, Return, Scaling, Recreating, STS, Parallel, objectVars, typeVars, planVars, boundVars, NeedsParallel
<1>7. CASE PatchUp
  BY <1>7, ObjectTypes, Constants, PatchedUp DEF PatchUp, PcOK, ObjectOK, Return, Scaling, Recreating, STS, Parallel, objectVars, typeVars, planVars, boundVars
<1>8. CASE UpWaited
  BY <1>8, ObjectTypes, Constants DEF UpWaited, PcOK, ObjectOK, Return, Scaling, Recreating, STS, Parallel, objectVars, typeVars, planVars, boundVars
<1>9. CASE LastGet
  BY <1>9, ObjectTypes, Constants DEF LastGet, PcOK, ObjectOK, Return, Scaling, Recreating, STS, Parallel, objectVars, typeVars, planVars, boundVars, PutsBack
<1>10. CASE Delete
  BY <1>10, ObjectTypes, Constants, Deletes DEF Delete, PcOK, ObjectOK, Return, Scaling, Recreating, STS, Parallel, objectVars, typeVars, planVars, boundVars
<1>11. CASE Gone
  BY <1>11, ObjectTypes, Constants DEF Gone, PcOK, ObjectOK, Return, Scaling, Recreating, STS, Parallel, objectVars, typeVars, planVars, boundVars
<1>12. CASE Create
  BY <1>12, ObjectTypes, Constants, Creates DEF Create, PcOK, ObjectOK, Return, Scaling, Recreating, STS, Parallel, objectVars, typeVars, planVars, boundVars
<1>13. CASE Stops
  BY <1>13, ObjectTypes, Constants DEF Stops, PcOK, ObjectOK, Return, Scaling, Recreating, STS, Parallel, objectVars, typeVars, planVars, boundVars
<1>14. CASE CreatePod
  BY <1>14, ObjectTypes, Constants DEF CreatePod, PcOK, ObjectOK, Return, Scaling, Recreating, STS, Parallel, objectVars, typeVars, planVars, boundVars
<1>15. CASE PodReady
  BY <1>15, ObjectTypes, Constants DEF PodReady, PcOK, ObjectOK, Return, Scaling, Recreating, STS, Parallel, objectVars, typeVars, planVars, boundVars
<1>16. CASE RemovePod
  BY <1>16, ObjectTypes, Constants DEF RemovePod, PcOK, ObjectOK, Return, Scaling, Recreating, STS, Parallel, objectVars, typeVars, planVars, boundVars
<1>17. CASE WriteStatus
  BY <1>17, ObjectTypes, Constants DEF WriteStatus, PcOK, ObjectOK, Return, Scaling, Recreating, STS, Parallel, objectVars, typeVars, planVars, boundVars
<1>18. CASE FinishDelete
  BY <1>18, ObjectTypes, Constants DEF FinishDelete, PcOK, ObjectOK, Return, Scaling, Recreating, STS, Parallel, objectVars, typeVars, planVars, boundVars
<1>19. CASE Rescale
  BY <1>19, ObjectTypes, Constants, Rescaled DEF Rescale, PcOK, ObjectOK, Return, Scaling, Recreating, STS, Parallel, objectVars, typeVars, planVars, boundVars
<1>20. ASSUME NEW k \in FaultKinds, Fails(k) PROVE ObjectOK'
  BY <1>20, ObjectTypes, Constants DEF Fails, PcOK, ObjectOK, Return, Scaling, Recreating, STS, Parallel, objectVars, typeVars, planVars, boundVars
<1> QED
  BY <1>1, <1>2, <1>3, <1>4, <1>5, <1>6, <1>7, <1>8, <1>9, <1>10, <1>11, <1>12, <1>13, <1>14, <1>15, <1>16, <1>17, <1>18, <1>19, <1>20 DEF Next, Operate, Controllers

\* The scale-down.
LEMMA DownStep == TypeOK /\ PcOK /\ ObjectOK /\ DownOK /\ [Next]_vars => DownOK'
<1> SUFFICES ASSUME TypeOK, PcOK, ObjectOK, DownOK, [Next]_vars PROVE DownOK'
  OBVIOUS
<1>1. CASE UNCHANGED vars
  BY <1>1 DEF vars, objectVars, typeVars, planVars, boundVars, DownOK, ObjectOK, PcOK, Alone, Return, Scaling, Recreating, STS, Parallel, SkipDown, objectVars, typeVars, planVars, boundVars
<1>2. CASE Begin
  BY <1>2, ObjectTypes, Constants DEF Begin, DownOK, ObjectOK, PcOK, Alone, Return, Scaling, Recreating, STS, Parallel, SkipDown, objectVars, typeVars, planVars, boundVars
<1>3. CASE ScaleDown
  BY <1>3, ObjectTypes, Constants, ScaledDown DEF ScaleDown, DownOK, ObjectOK, PcOK, Alone, Return, Scaling, Recreating, STS, Parallel, SkipDown, objectVars, typeVars, planVars, boundVars
<1>4. CASE DownWaited
  BY <1>4, ObjectTypes, Constants DEF DownWaited, DownOK, ObjectOK, PcOK, Alone, Return, Scaling, Recreating, STS, Parallel, SkipDown, objectVars, typeVars, planVars, boundVars, NoReplicas
<1>5. CASE Restored
  BY <1>5, ObjectTypes, Constants DEF Restored, DownOK, ObjectOK, PcOK, Alone, Return, Scaling, Recreating, STS, Parallel, SkipDown, objectVars, typeVars, planVars, boundVars
<1>6. CASE GetUp
  BY <1>6, ObjectTypes, Constants DEF GetUp, DownOK, ObjectOK, PcOK, Alone, Return, Scaling, Recreating, STS, Parallel, SkipDown, objectVars, typeVars, planVars, boundVars
<1>7. CASE PatchUp
  BY <1>7, ObjectTypes, Constants, PatchedUp DEF PatchUp, DownOK, ObjectOK, PcOK, Alone, Return, Scaling, Recreating, STS, Parallel, SkipDown, objectVars, typeVars, planVars, boundVars
<1>8. CASE UpWaited
  BY <1>8, ObjectTypes, Constants DEF UpWaited, DownOK, ObjectOK, PcOK, Alone, Return, Scaling, Recreating, STS, Parallel, SkipDown, objectVars, typeVars, planVars, boundVars
<1>9. CASE LastGet
  BY <1>9, ObjectTypes, Constants DEF LastGet, DownOK, ObjectOK, PcOK, Alone, Return, Scaling, Recreating, STS, Parallel, SkipDown, objectVars, typeVars, planVars, boundVars
<1>10. CASE Delete
  BY <1>10, ObjectTypes, Constants, Deletes DEF Delete, DownOK, ObjectOK, PcOK, Alone, Return, Scaling, Recreating, STS, Parallel, SkipDown, objectVars, typeVars, planVars, boundVars
<1>11. CASE Gone
  BY <1>11, ObjectTypes, Constants DEF Gone, DownOK, ObjectOK, PcOK, Alone, Return, Scaling, Recreating, STS, Parallel, SkipDown, objectVars, typeVars, planVars, boundVars
<1>12. CASE Create
  BY <1>12, ObjectTypes, Constants, Creates DEF Create, DownOK, ObjectOK, PcOK, Alone, Return, Scaling, Recreating, STS, Parallel, SkipDown, objectVars, typeVars, planVars, boundVars
<1>13. CASE Stops
  BY <1>13, ObjectTypes, Constants DEF Stops, DownOK, ObjectOK, PcOK, Alone, Return, Scaling, Recreating, STS, Parallel, SkipDown, objectVars, typeVars, planVars, boundVars
<1>14. CASE CreatePod
  BY <1>14, ObjectTypes, Constants DEF CreatePod, DownOK, ObjectOK, PcOK, Alone, Return, Scaling, Recreating, STS, Parallel, SkipDown, objectVars, typeVars, planVars, boundVars
<1>15. CASE PodReady
  BY <1>15, ObjectTypes, Constants DEF PodReady, DownOK, ObjectOK, PcOK, Alone, Return, Scaling, Recreating, STS, Parallel, SkipDown, objectVars, typeVars, planVars, boundVars
<1>16. CASE RemovePod
  BY <1>16, ObjectTypes, Constants DEF RemovePod, DownOK, ObjectOK, PcOK, Alone, Return, Scaling, Recreating, STS, Parallel, SkipDown, objectVars, typeVars, planVars, boundVars
<1>17. CASE WriteStatus
  BY <1>17, ObjectTypes, Constants DEF WriteStatus, DownOK, ObjectOK, PcOK, Alone, Return, Scaling, Recreating, STS, Parallel, SkipDown, objectVars, typeVars, planVars, boundVars
<1>18. CASE FinishDelete
  BY <1>18, ObjectTypes, Constants DEF FinishDelete, DownOK, ObjectOK, PcOK, Alone, Return, Scaling, Recreating, STS, Parallel, SkipDown, objectVars, typeVars, planVars, boundVars
<1>19. CASE Rescale
  BY <1>19, ObjectTypes, Constants, Rescaled DEF Rescale, DownOK, ObjectOK, PcOK, Alone, Return, Scaling, Recreating, STS, Parallel, SkipDown, objectVars, typeVars, planVars, boundVars
<1>20. ASSUME NEW k \in FaultKinds, Fails(k) PROVE DownOK'
  BY <1>20, ObjectTypes, Constants DEF Fails, DownOK, ObjectOK, PcOK, Alone, Return, Scaling, Recreating, STS, Parallel, SkipDown, objectVars, typeVars, planVars, boundVars
<1> QED
  BY <1>1, <1>2, <1>3, <1>4, <1>5, <1>6, <1>7, <1>8, <1>9, <1>10, <1>11, <1>12, <1>13, <1>14, <1>15, <1>16, <1>17, <1>18, <1>19, <1>20 DEF Next, Operate, Controllers

\* The scale-up.
LEMMA UpStep == TypeOK /\ PcOK /\ ObjectOK /\ DownOK /\ UpOK /\ [Next]_vars => UpOK'
<1> SUFFICES ASSUME TypeOK, PcOK, ObjectOK, DownOK, UpOK, [Next]_vars PROVE UpOK'
  OBVIOUS
<1>1. CASE UNCHANGED vars
  BY <1>1 DEF vars, objectVars, typeVars, planVars, boundVars, UpOK, Deleted, DownOK, ObjectOK, PcOK, Alone, Return, Scaling, Recreating, STS, Parallel, SkipDown, SkipUp, objectVars, typeVars, planVars, boundVars
<1>2. CASE Begin
  BY <1>2, ObjectTypes, Constants DEF Begin, UpOK, Deleted, DownOK, ObjectOK, PcOK, Alone, Return, Scaling, Recreating, STS, Parallel, SkipDown, SkipUp, objectVars, typeVars, planVars, boundVars
<1>3. CASE ScaleDown
  BY <1>3, ObjectTypes, Constants, ScaledDown DEF ScaleDown, UpOK, Deleted, DownOK, ObjectOK, PcOK, Alone, Return, Scaling, Recreating, STS, Parallel, SkipDown, SkipUp, objectVars, typeVars, planVars, boundVars
<1>4. CASE DownWaited
  BY <1>4, ObjectTypes, Constants DEF DownWaited, UpOK, Deleted, DownOK, ObjectOK, PcOK, Alone, Return, Scaling, Recreating, STS, Parallel, SkipDown, SkipUp, objectVars, typeVars, planVars, boundVars, NoReplicas
<1>5. CASE Restored
  BY <1>5, ObjectTypes, Constants DEF Restored, UpOK, Deleted, DownOK, ObjectOK, PcOK, Alone, Return, Scaling, Recreating, STS, Parallel, SkipDown, SkipUp, objectVars, typeVars, planVars, boundVars
<1>6. CASE GetUp
  BY <1>6, ObjectTypes, Constants DEF GetUp, UpOK, Deleted, DownOK, ObjectOK, PcOK, Alone, Return, Scaling, Recreating, STS, Parallel, SkipDown, SkipUp, objectVars, typeVars, planVars, boundVars, NeedsParallel, PolicyNames
<1>7. CASE PatchUp
  BY <1>7, ObjectTypes, Constants, PatchedUp DEF PatchUp, UpOK, Deleted, DownOK, ObjectOK, PcOK, Alone, Return, Scaling, Recreating, STS, Parallel, SkipDown, SkipUp, objectVars, typeVars, planVars, boundVars, Contradiction
<1>8. CASE UpWaited
  BY <1>8, ObjectTypes, Constants DEF UpWaited, UpOK, Deleted, DownOK, ObjectOK, PcOK, Alone, Return, Scaling, Recreating, STS, Parallel, SkipDown, SkipUp, objectVars, typeVars, planVars, boundVars, AllReady
<1>9. CASE LastGet
  BY <1>9, ObjectTypes, Constants DEF LastGet, UpOK, Deleted, DownOK, ObjectOK, PcOK, Alone, Return, Scaling, Recreating, STS, Parallel, SkipDown, SkipUp, objectVars, typeVars, planVars, boundVars, PutsBack, PolicyNames
<1>10. CASE Delete
  <2>1. /\ pc = "delete" /\ pc' = "gone" /\ lock /\ ups = 0 /\ UNCHANGED <<lock, ups, rescales, sts>> /\ obj # None
    BY <1>10 DEF Delete, PcOK, Scaling, Recreating, planVars, boundVars
  <2>2. Alone => /\ obj.replicas \in {0, Wanted} /\ (sts # None => sts.replicas \in {0, Wanted})
                 /\ (obj.policy = "OrderedReady" => obj.replicas = 0)
    BY <2>1, ObjectTypes DEF UpOK, Deleted
  <2>3. obj'.replicas = obj.replicas /\ obj'.policy = obj.policy
    BY <1>10, Deletes
  <2> QED
    BY <2>1, <2>2, <2>3 DEF UpOK, Alone
<1>11. CASE Gone
  BY <1>11, ObjectTypes, Constants DEF Gone, UpOK, Deleted, DownOK, ObjectOK, PcOK, Alone, Return, Scaling, Recreating, STS, Parallel, SkipDown, SkipUp, objectVars, typeVars, planVars, boundVars
<1>12. CASE Create
  <2>1. /\ pc = "create" /\ lock /\ sts # None /\ STS /\ UNCHANGED <<lock, rescales>>
        /\ IF policy = "Parallel" THEN pc' = "patch" /\ ups' = 0 /\ sts' = sts ELSE pc' = "idle" /\ sts' = None /\ ups' = 1
    BY <1>12 DEF Create, Return, PcOK, Scaling, Recreating, boundVars
  <2>2. Alone => sts.replicas \in {0, Wanted}
    BY <2>1 DEF UpOK
  <2>3. obj'.replicas = sts.replicas /\ obj'.policy = policy /\ obj' # None /\ ~obj'.deleting
    BY <1>12, Creates
  <2> QED
    BY <2>1, <2>2, <2>3, ObjectTypes DEF UpOK, Alone
<1>13. CASE Stops
  BY <1>13, ObjectTypes, Constants DEF Stops, UpOK, Deleted, DownOK, ObjectOK, PcOK, Alone, Return, Scaling, Recreating, STS, Parallel, SkipDown, SkipUp, objectVars, typeVars, planVars, boundVars
<1>14. CASE CreatePod
  BY <1>14, ObjectTypes, Constants DEF CreatePod, UpOK, Deleted, DownOK, ObjectOK, PcOK, Alone, Return, Scaling, Recreating, STS, Parallel, SkipDown, SkipUp, objectVars, typeVars, planVars, boundVars
<1>15. CASE PodReady
  BY <1>15, ObjectTypes, Constants DEF PodReady, UpOK, Deleted, DownOK, ObjectOK, PcOK, Alone, Return, Scaling, Recreating, STS, Parallel, SkipDown, SkipUp, objectVars, typeVars, planVars, boundVars
<1>16. CASE RemovePod
  BY <1>16, ObjectTypes, Constants DEF RemovePod, UpOK, Deleted, DownOK, ObjectOK, PcOK, Alone, Return, Scaling, Recreating, STS, Parallel, SkipDown, SkipUp, objectVars, typeVars, planVars, boundVars
<1>17. CASE WriteStatus
  BY <1>17, ObjectTypes, Constants DEF WriteStatus, UpOK, Deleted, DownOK, ObjectOK, PcOK, Alone, Return, Scaling, Recreating, STS, Parallel, SkipDown, SkipUp, objectVars, typeVars, planVars, boundVars
<1>18. CASE FinishDelete
  BY <1>18, ObjectTypes, Constants DEF FinishDelete, UpOK, Deleted, DownOK, ObjectOK, PcOK, Alone, Return, Scaling, Recreating, STS, Parallel, SkipDown, SkipUp, objectVars, typeVars, planVars, boundVars
<1>19. CASE Rescale
  BY <1>19, ObjectTypes, Constants, Rescaled DEF Rescale, UpOK, Deleted, DownOK, ObjectOK, PcOK, Alone, Return, Scaling, Recreating, STS, Parallel, SkipDown, SkipUp, objectVars, typeVars, planVars, boundVars
<1>20. ASSUME NEW k \in FaultKinds, Fails(k) PROVE UpOK'
  BY <1>20, ObjectTypes, Constants DEF Fails, UpOK, Deleted, DownOK, ObjectOK, PcOK, Alone, Return, Scaling, Recreating, STS, Parallel, SkipDown, SkipUp, objectVars, typeVars, planVars, boundVars
<1> QED
  BY <1>1, <1>2, <1>3, <1>4, <1>5, <1>6, <1>7, <1>8, <1>9, <1>10, <1>11, <1>12, <1>13, <1>14, <1>15, <1>16, <1>17, <1>18, <1>19, <1>20 DEF Next, Operate, Controllers

\* The pods and the status, without rescaling.
LEMMA SteadyStep == TypeOK /\ PcOK /\ ObjectOK /\ DownOK /\ UpOK /\ SteadyOK /\ [Next]_vars => SteadyOK'
<1> SUFFICES ASSUME TypeOK, PcOK, ObjectOK, DownOK, UpOK, SteadyOK, [Next]_vars PROVE SteadyOK'
  OBVIOUS
<1>1. CASE UNCHANGED vars
  BY <1>1 DEF vars, objectVars, typeVars, planVars, boundVars, SteadyOK, Steady, UpOK, Deleted, DownOK, ObjectOK, PcOK, Alone, Return, Scaling, Recreating, STS, Parallel, SkipDown, SkipUp, objectVars, typeVars, planVars, boundVars
<1>2. CASE Begin
  BY <1>2, ObjectTypes, Constants DEF Begin, SteadyOK, Steady, UpOK, Deleted, DownOK, ObjectOK, PcOK, Alone, Return, Scaling, Recreating, STS, Parallel, SkipDown, SkipUp, objectVars, typeVars, planVars, boundVars
<1>3. CASE ScaleDown
  BY <1>3, ObjectTypes, Constants, ScaledDown DEF ScaleDown, SteadyOK, Steady, UpOK, Deleted, DownOK, ObjectOK, PcOK, Alone, Return, Scaling, Recreating, STS, Parallel, SkipDown, SkipUp, objectVars, typeVars, planVars, boundVars
<1>4. CASE DownWaited
  BY <1>4, ObjectTypes, Constants DEF DownWaited, SteadyOK, Steady, UpOK, Deleted, DownOK, ObjectOK, PcOK, Alone, Return, Scaling, Recreating, STS, Parallel, SkipDown, SkipUp, objectVars, typeVars, planVars, boundVars, NoReplicas
<1>5. CASE Restored
  BY <1>5, ObjectTypes, Constants DEF Restored, SteadyOK, Steady, UpOK, Deleted, DownOK, ObjectOK, PcOK, Alone, Return, Scaling, Recreating, STS, Parallel, SkipDown, SkipUp, objectVars, typeVars, planVars, boundVars
<1>6. CASE GetUp
  BY <1>6, ObjectTypes, Constants DEF GetUp, SteadyOK, Steady, UpOK, Deleted, DownOK, ObjectOK, PcOK, Alone, Return, Scaling, Recreating, STS, Parallel, SkipDown, SkipUp, objectVars, typeVars, planVars, boundVars, NeedsParallel, PolicyNames
<1>7. CASE PatchUp
  BY <1>7, ObjectTypes, Constants, PatchedUp DEF PatchUp, SteadyOK, Steady, UpOK, Deleted, DownOK, ObjectOK, PcOK, Alone, Return, Scaling, Recreating, STS, Parallel, SkipDown, SkipUp, objectVars, typeVars, planVars, boundVars, Contradiction
<1>8. CASE UpWaited
  BY <1>8, ObjectTypes, Constants DEF UpWaited, SteadyOK, Steady, UpOK, Deleted, DownOK, ObjectOK, PcOK, Alone, Return, Scaling, Recreating, STS, Parallel, SkipDown, SkipUp, objectVars, typeVars, planVars, boundVars, AllReady
<1>9. CASE LastGet
  BY <1>9, ObjectTypes, Constants DEF LastGet, SteadyOK, Steady, UpOK, Deleted, DownOK, ObjectOK, PcOK, Alone, Return, Scaling, Recreating, STS, Parallel, SkipDown, SkipUp, objectVars, typeVars, planVars, boundVars, PutsBack, PolicyNames
<1>10. CASE Delete
  BY <1>10, ObjectTypes, Constants, Deletes DEF Delete, SteadyOK, Steady, UpOK, Deleted, DownOK, ObjectOK, PcOK, Alone, Return, Scaling, Recreating, STS, Parallel, SkipDown, SkipUp, objectVars, typeVars, planVars, boundVars
<1>11. CASE Gone
  BY <1>11, ObjectTypes, Constants DEF Gone, SteadyOK, Steady, UpOK, Deleted, DownOK, ObjectOK, PcOK, Alone, Return, Scaling, Recreating, STS, Parallel, SkipDown, SkipUp, objectVars, typeVars, planVars, boundVars
<1>12. CASE Create
  <2>1. /\ pc = "create" /\ lock /\ sts # None /\ UNCHANGED <<lock, rescales, pods, ready, flags>>
        /\ IF policy = "Parallel" THEN pc' = "patch" /\ ups' = 0 ELSE pc' = "idle" /\ ups' = 1
    BY <1>12 DEF Create, Return, PcOK, Scaling, Recreating, boundVars, typeVars
  <2>2. Steady => pods <= Wanted /\ pods <= sts.replicas /\ (policy = "OrderedReady" => ready = Wanted)
    BY <2>1 DEF SteadyOK, Recreating
  <2>3. obj'.replicas = sts.replicas /\ obj'.policy = policy /\ ~obj'.deleting /\ status'.replicas = 0 /\ status'.ready = 0
    BY <1>12, Creates
  <2>4. Steady' = Steady
    BY <2>1 DEF Steady, Alone, SkipDown
  <2> QED
    BY <2>1, <2>2, <2>3, <2>4, ObjectTypes DEF SteadyOK, Recreating
<1>13. CASE Stops
  BY <1>13, ObjectTypes, Constants DEF Stops, SteadyOK, Steady, UpOK, Deleted, DownOK, ObjectOK, PcOK, Alone, Return, Scaling, Recreating, STS, Parallel, SkipDown, SkipUp, objectVars, typeVars, planVars, boundVars
<1>14. CASE CreatePod
  <2>1. /\ obj # None /\ ~obj.deleting /\ pods < obj.replicas /\ pods' = pods + 1
        /\ UNCHANGED <<obj, status, ready, pc, sts, policy, lock, ups, rescales, flags>>
    BY <1>14 DEF CreatePod, Controlled, planVars, boundVars, typeVars
  <2>2. Steady' = Steady /\ SkipUp' = SkipUp /\ Parallel' = Parallel
    BY <2>1 DEF Steady, Alone, SkipDown, SkipUp, Parallel
  <2>3. Steady => obj.replicas <= Wanted
    BY <2>1, ObjectTypes, Constants DEF Steady, UpOK
  <2>4. Steady /\ pc \in Recreating => obj.replicas = sts.replicas
    BY <2>1 DEF Recreating, Steady, UpOK, Deleted, ObjectOK
  <2> QED
    BY <2>1, <2>2, <2>3, <2>4, ObjectTypes, Constants DEF SteadyOK
<1>15. CASE PodReady
  BY <1>15, ObjectTypes, Constants DEF PodReady, SteadyOK, Steady, UpOK, Deleted, DownOK, ObjectOK, PcOK, Alone, Return, Scaling, Recreating, STS, Parallel, SkipDown, SkipUp, objectVars, typeVars, planVars, boundVars
<1>16. CASE RemovePod
  <2>1. obj # None /\ pods > obj.replicas /\ UNCHANGED <<lock, rescales, flags>>
    BY <1>16 DEF RemovePod, Controlled, planVars, boundVars, typeVars
  <2>2. ~Steady /\ Steady' = Steady
    BY <2>1, ObjectTypes DEF SteadyOK, Steady, Alone, SkipDown
  <2> QED
    BY <2>2 DEF SteadyOK
<1>17. CASE WriteStatus
  BY <1>17, ObjectTypes, Constants DEF WriteStatus, SteadyOK, Steady, UpOK, Deleted, DownOK, ObjectOK, PcOK, Alone, Return, Scaling, Recreating, STS, Parallel, SkipDown, SkipUp, objectVars, typeVars, planVars, boundVars
<1>18. CASE FinishDelete
  BY <1>18, ObjectTypes, Constants DEF FinishDelete, SteadyOK, Steady, UpOK, Deleted, DownOK, ObjectOK, PcOK, Alone, Return, Scaling, Recreating, STS, Parallel, SkipDown, SkipUp, objectVars, typeVars, planVars, boundVars
<1>19. CASE Rescale
  BY <1>19, ObjectTypes, Constants, Rescaled DEF Rescale, SteadyOK, Steady, UpOK, Deleted, DownOK, ObjectOK, PcOK, Alone, Return, Scaling, Recreating, STS, Parallel, SkipDown, SkipUp, objectVars, typeVars, planVars, boundVars
<1>20. ASSUME NEW k \in FaultKinds, Fails(k) PROVE SteadyOK'
  BY <1>20, ObjectTypes, Constants DEF Fails, SteadyOK, Steady, UpOK, Deleted, DownOK, ObjectOK, PcOK, Alone, Return, Scaling, Recreating, STS, Parallel, SkipDown, SkipUp, objectVars, typeVars, planVars, boundVars
<1> QED
  BY <1>1, <1>2, <1>3, <1>4, <1>5, <1>6, <1>7, <1>8, <1>9, <1>10, <1>11, <1>12, <1>13, <1>14, <1>15, <1>16, <1>17, <1>18, <1>19, <1>20 DEF Next, Operate, Controllers

LEMMA WorkloadInit == Init => WorkloadInv
<1> SUFFICES ASSUME Init PROVE WorkloadInv
  OBVIOUS
<1>1. PICK n \in Before : \E p \in Policies : \E r \in 0 .. n :
          /\ obj = [replicas |-> n, deleting |-> FALSE,
                    policy |-> IF kind = "Deployment" THEN "Parallel" ELSE p]
          /\ status = [replicas |-> n, ready |-> r, fresh |-> TRUE]
          /\ pods = n /\ ready = r
  BY DEF Init
<1>2. PICK p \in Policies, r \in 0 .. n :
          /\ obj = [replicas |-> n, deleting |-> FALSE,
                    policy |-> IF kind = "Deployment" THEN "Parallel" ELSE p]
          /\ status = [replicas |-> n, ready |-> r, fresh |-> TRUE]
          /\ pods = n /\ ready = r
  BY <1>1
<1>3. /\ obj \in Objects /\ obj # None /\ obj.replicas = n /\ ~obj.deleting
      /\ kind = "Deployment" => obj.policy = "Parallel"
  <2> DEFINE pol == IF kind = "Deployment" THEN "Parallel" ELSE p
  <2>1. pol \in PolicyNames /\ n \in Nat
    BY Constants DEF PolicyNames
  <2> HIDE DEF pol
  <2>2. obj = [replicas |-> n, deleting |-> FALSE, policy |-> pol]
    BY <1>2 DEF pol
  <2>3. obj \in Objects
    BY <2>1, <2>2 DEF Objects
  <2>4. obj.replicas = n /\ obj.deleting = FALSE /\ obj.policy = pol
    BY <2>2
  <2> QED
    BY <2>3, <2>4, Constants DEF pol
<1>4. status \in Statuses /\ status.replicas = n /\ n \in Nat /\ r \in 0 .. n
  BY <1>2, Constants DEF Statuses
<1>5. TypeOK
  <2>1. pods \in Nat /\ ready \in 0 .. pods
    BY <1>2, <1>4
  <2>2. rescales \in 0 .. MaxRescales /\ faults \in 0 .. MaxFaults
    BY WorkloadConstantsOK DEF Init, WorkloadConstantsOK
  <2>3. kind \in Kinds /\ flags \in Flags /\ pc = "idle" /\ sts = None /\ policy = "OrderedReady" /\ lock = FALSE /\ ups = 0
    BY DEF Init
  <2> QED
    BY <1>3, <1>4, <2>1, <2>2, <2>3 DEF TypeOK, PolicyNames
<1>6. PcOK /\ ObjectOK /\ DownOK
  BY <1>2, <1>3, <1>4 DEF Init, PcOK, ObjectOK, DownOK, STS, Scaling, Recreating
<1>7. UpOK /\ SteadyOK
  BY DEF Init, UpOK, SteadyOK, Steady
<1> QED
  BY <1>5, <1>6, <1>7 DEF WorkloadInv

\* The invariant holds in every state of scaleClusterDown and scaleClusterUp, in
\* whichever attempt.
THEOREM WorkloadInvariant == Spec => []WorkloadInv
<1>1. WorkloadInv /\ [Next]_vars => WorkloadInv'
  BY WorkloadTypeStep, PcStep, ObjectStep, DownStep, UpStep, SteadyStep DEF WorkloadInv
<1> QED
  BY <1>1, WorkloadInit, PTL DEF Spec

-----------------------------------------------------------------------------
(* What the runs check.                                                       *)

\* The replicas, the status, the pods and what was read of them keep their types.
THEOREM WorkloadTypes == Spec => []TypeOK
<1>1. WorkloadInv => TypeOK
  BY DEF WorkloadInv
<1> QED
  BY <1>1, WorkloadInvariant, PTL

\* scaleClusterDown's and scaleOperatorDown's waits end when the pods are gone.
THEOREM ClaimsAreFree == Spec => []StoppedBeforeRestore
<1>1. WorkloadInv => StoppedBeforeRestore
  BY DEF WorkloadInv, PcOK, DownOK, Alone, StoppedBeforeRestore
<1> QED
  BY <1>1, WorkloadInvariant, PTL

\* The scale-up, with what recreateSTSWithPodManagementPolicy deletes, loses no pod.
THEOREM PodsAreKept == Spec => UpKeepsPods
<1>1. WorkloadInv /\ [Next]_vars => [lock /\ ~SkipDown /\ rescales = 0 => pods' >= pods]_vars
  <2> SUFFICES ASSUME TypeOK, UpOK, SteadyOK, Steady, [Next]_vars PROVE pods' >= pods
    BY DEF WorkloadInv, Steady, Alone
  <2>1. pods \in Nat /\ (obj # None => pods <= obj.replicas /\ obj.replicas \in Nat)
    BY ObjectTypes DEF SteadyOK
  <2>2. ~RemovePod
    BY <2>1 DEF RemovePod, Controlled
  <2>3. pods' = pods \/ pods' = pods + 1
    BY <2>2 DEF vars, objectVars, Next, Operate, Controllers, Begin, ScaleDown, DownWaited, Restored, GetUp, PatchUp,
       UpWaited, LastGet, Delete, Gone, Create, Stops, CreatePod, PodReady, WriteStatus, FinishDelete, Rescale, Fails
  <2> QED
    BY <2>1, <2>3
<1> QED
  BY <1>1, WorkloadInvariant, PTL DEF Spec, UpKeepsPods

\* scaleClusterUp starts the pods in parallel when it was told to.
THEOREM ParallelStart == Spec => StartedInParallel
<1>1. WorkloadInv /\ [Next]_vars =>
         [Parallel /\ ~SkipDown /\ rescales = 0 /\ lock /\ pods' > pods => obj.policy = "Parallel"]_vars
  <2> SUFFICES ASSUME TypeOK, UpOK, SteadyOK, Steady, Parallel, [Next]_vars, pods' > pods PROVE obj.policy = "Parallel"
    BY DEF WorkloadInv, Steady, Alone
  <2>1. pods \in Nat /\ ready \in Nat /\ ready <= pods
    BY ObjectTypes
  <2>2. ~RemovePod
    BY <2>1 DEF RemovePod
  <2>3. CreatePod
    BY <2>1, <2>2 DEF vars, objectVars, Next, Operate, Controllers, Begin, ScaleDown, DownWaited, Restored, GetUp,
       PatchUp, UpWaited, LastGet, Delete, Gone, Create, Stops, PodReady, WriteStatus, FinishDelete, Rescale, Fails
  <2>4. obj # None /\ pods < obj.replicas /\ obj.replicas \in {0, Wanted} /\ obj.policy \in {"OrderedReady", "Parallel"}
    BY <2>3, ObjectTypes DEF CreatePod, Controlled, UpOK, Steady, PolicyNames
  <2> QED
    BY <2>1, <2>4, Constants DEF SteadyOK
<1> QED
  BY <1>1, WorkloadInvariant, PTL DEF Spec, StartedInParallel

\* SetScaleRestorePlan counts a scale-up that has come to its end.
THEOREM CountedIsUp == Spec => []CountedMeansUp
<1>1. WorkloadInv => CountedMeansUp
  BY DEF WorkloadInv, PcOK, UpOK, SteadyOK, Steady, Alone, STS, CountedMeansUp
<1> QED
  BY <1>1, WorkloadInvariant, PTL
-----------------------------------------------------------------------------
(* The switch that Reconciler takes the workload for.                         *)

Running == IF lock THEN ready = Wanted ELSE pods # 0

\* The steps of WorkloadLife in the numbers of ScaleWorkload.
Same       == UNCHANGED <<lock, ups>> /\ (IsOn' <=> IsOn) /\ (Running' <=> Running)
SwitchedOff == ~lock /\ UNCHANGED <<lock, ups>> /\ ~IsOn' /\ (Running' <=> Running)
Stopped    == ~IsOn /\ UNCHANGED <<lock, ups>> /\ ~IsOn' /\ ~Running'
Replaced   == ~IsOn /\ ~Running /\ lock' /\ UNCHANGED ups /\ ~IsOn' /\ ~Running'
SwitchedOn == lock /\ ups = 0 /\ UNCHANGED <<lock, ups>> /\ IsOn' /\ (Running' <=> Running)
Started    == lock /\ IsOn /\ UNCHANGED <<lock, ups>> /\ IsOn' /\ Running'
Counted    == /\ lock /\ ups = 0 /\ (~SkipUp => IsOn /\ Running)
              /\ UNCHANGED lock /\ ups' = 1 /\ IsOn' /\ (Running' <=> Running)

\* What the invariant says of the switch.
LEMMA SwitchFacts ==
  ASSUME WorkloadInv, Ours
  PROVE  /\ pods \in Nat /\ ready \in Nat /\ ready <= pods /\ lock \in BOOLEAN
         /\ ~lock => obj # None /\ obj.replicas \in Nat /\ obj.replicas <= pods
         /\ lock => /\ pods <= Wanted
                    /\ obj # None => obj.replicas \in {0, Wanted} /\ pods <= obj.replicas
                    /\ obj # None /\ obj.deleting => (ready = Wanted \/ obj.replicas = 0)
                    /\ obj = None /\ pc \in Recreating => sts.replicas \in {0, Wanted} /\ pods <= sts.replicas
<1>1. TypeOK /\ DownOK /\ UpOK /\ SteadyOK /\ Alone /\ ~SkipDown /\ (lock => Steady)
  BY DEF WorkloadInv, Ours, Alone, Steady
<1>2. lock \in BOOLEAN
  BY <1>1 DEF TypeOK
<1>3. CASE ~lock
  BY <1>1, <1>2, <1>3, ObjectTypes DEF DownOK
<1>4. CASE lock
  <2>1. pods <= Wanted /\ (obj # None => pods <= obj.replicas) /\ (pc \in Recreating => pods <= sts.replicas)
    BY <1>1, <1>4 DEF SteadyOK
  <2>2. /\ obj # None => obj.replicas \in {0, Wanted}
        /\ sts # None => sts.replicas \in {0, Wanted}
    BY <1>1, <1>4 DEF UpOK
  <2>3. obj # None /\ obj.deleting => (ready = Wanted \/ obj.replicas = 0)
    BY <1>1, <1>4, ObjectTypes DEF UpOK, SteadyOK, PolicyNames
  <2>4. pc \in Recreating => sts # None
    BY DEF WorkloadInv, PcOK, Recreating, Scaling
  <2> QED
    BY <1>1, <1>2, <1>4, <2>1, <2>2, <2>3, <2>4, ObjectTypes
<1> QED
  BY <1>3, <1>4

\* Each step of ScaleWorkload turns the switch as WorkloadLife does, or leaves it.
LEMMA SwitchStep ==
  ASSUME WorkloadInv, WorkloadInv', [Next]_vars, Ours, Ours'
  PROVE  /\ UNCHANGED flags
         /\ Same \/ SwitchedOff \/ Stopped \/ Replaced \/ SwitchedOn \/ Started \/ Counted
<1>0. TypeOK /\ PcOK
  BY DEF WorkloadInv
<1>1. CASE UNCHANGED vars
  BY <1>1, SwitchFacts, Constants DEF vars, Same, IsOn, Running, Return, typeVars, objectVars, planVars, boundVars
<1>2. CASE Begin
  BY <1>2, SwitchFacts, Constants DEF Begin, Same, IsOn, Running, Return, typeVars, objectVars, planVars, boundVars
<1>3. CASE ScaleDown
  <2>1. ~lock /\ UNCHANGED <<flags, lock, ups, pods, ready>>
    BY <1>3 DEF ScaleDown, WorkloadInv, PcOK, typeVars, planVars
  <2>2. ~IsOn'
    BY <1>3, <1>0, ScaledDown DEF IsOn
  <2> QED
    BY <2>1, <2>2 DEF SwitchedOff, Running
<1>4. CASE DownWaited
  BY <1>4, SwitchFacts, Constants DEF DownWaited, Same, IsOn, Running, Return, typeVars, objectVars, planVars, boundVars
<1>5. CASE Restored
  <2>1. ~lock /\ lock' /\ UNCHANGED <<flags, obj, ups, pods, ready>> /\ pods = 0 /\ obj.replicas = 0 /\ obj # None
    BY <1>5 DEF Restored, WorkloadInv, PcOK, DownOK, Ours, Alone, typeVars, objectVars
  <2> QED
    BY <2>1, SwitchFacts, Constants DEF Replaced, IsOn, Running
<1>6. CASE GetUp
  BY <1>6, SwitchFacts, Constants DEF GetUp, Same, IsOn, Running, Return, typeVars, objectVars, planVars, boundVars
<1>7. CASE PatchUp
  <2>1. /\ pc = "patch" /\ lock /\ ups = 0 /\ UNCHANGED <<flags, lock, pods, ready>>
        /\ IF SkipUp THEN ups' = 1 ELSE UNCHANGED ups
    BY <1>7 DEF PatchUp, WorkloadInv, PcOK, Scaling, typeVars
  <2>2. obj # None /\ obj' # None /\ obj'.replicas = IF sts.replicas < Wanted THEN Wanted ELSE obj.replicas
    BY <1>0, <1>7, PatchedUp
  <2>3. obj.replicas = sts.replicas /\ obj.replicas \in {0, Wanted}
    BY <2>1, <2>2 DEF WorkloadInv, UpOK, Ours, Alone
  <2>4. IsOn' /\ (Running' <=> Running)
    BY <2>1, <2>2, <2>3, Constants DEF IsOn, Running
  <2> QED
    BY <2>1, <2>4 DEF SwitchedOn, Counted
<1>8. CASE UpWaited
  <2>1. /\ pc = "upWait" /\ lock /\ ups = 0 /\ obj # None /\ UNCHANGED <<flags, lock, obj, pods, ready>>
        /\ status.ready = Wanted /\ (ups' = 1 \/ UNCHANGED ups)
    BY <1>8 DEF UpWaited, AllReady, Return, WorkloadInv, PcOK, Scaling, objectVars, typeVars
  <2>2. status.ready <= ready
    BY <2>1 DEF WorkloadInv, SteadyOK, Steady, Ours, Alone
  <2>3. ready = Wanted /\ pods = Wanted /\ obj.replicas = Wanted
    BY <1>0, <2>1, <2>2, SwitchFacts, ObjectTypes, Constants
  <2>4. IsOn /\ IsOn' /\ Running /\ Running'
    BY <2>1, <2>3, Constants DEF IsOn, Running
  <2> QED
    BY <2>1, <2>4 DEF Same, Counted
<1>9. CASE LastGet
  <2>1. /\ pc = "last" /\ lock /\ ups = 0 /\ obj # None /\ UNCHANGED <<flags, lock, obj, pods, ready>>
        /\ ups' = 1 \/ UNCHANGED ups
    BY <1>9 DEF LastGet, Return, WorkloadInv, PcOK, Scaling, objectVars, typeVars
  <2>2. ready = Wanted
    BY <2>1 DEF WorkloadInv, SteadyOK, Steady, Ours, Alone
  <2>3. IsOn /\ IsOn' /\ Running /\ Running'
    BY <2>1, <2>2, SwitchFacts, Constants DEF IsOn, Running
  <2> QED
    BY <2>1, <2>3 DEF Same, Counted
<1>10. CASE Delete
  <2>1. obj # None /\ UNCHANGED <<flags, lock, ups, pods, ready>>
    BY <1>10 DEF Delete, typeVars, planVars
  <2>2. obj' # None /\ obj'.replicas = obj.replicas
    BY <1>0, <1>10, Deletes
  <2> QED
    BY <2>1, <2>2 DEF Same, IsOn, Running
<1>11. CASE Gone
  BY <1>11, SwitchFacts, Constants DEF Gone, Same, IsOn, Running, Return, typeVars, objectVars, planVars, boundVars
<1>12. CASE Create
  <2>1. /\ pc \in Recreating /\ lock /\ ups = 0 /\ obj = None /\ UNCHANGED <<flags, lock, pods, ready>>
        /\ IF policy = "Parallel" THEN UNCHANGED ups ELSE ups' = 1
    BY <1>12 DEF Create, Return, WorkloadInv, PcOK, Recreating, Scaling, typeVars
  <2>2. obj' # None /\ obj'.replicas = sts.replicas
    BY <1>0, <1>12, Creates
  <2>3. policy # "Parallel" => ready = Wanted
    BY <1>0, <2>1 DEF WorkloadInv, SteadyOK, Steady, Ours, Alone, TypeOK, PolicyNames
  <2>4. (Running' <=> Running) /\ (IsOn => IsOn')
    BY <2>1, <2>2, SwitchFacts, Constants DEF IsOn, Running
  <2>5. policy # "Parallel" => IsOn /\ Running
    BY <2>1, <2>3, SwitchFacts, Constants DEF IsOn, Running
  <2> QED
    BY <2>1, <2>4, <2>5 DEF Same, SwitchedOn, Counted
<1>13. CASE Stops
  BY <1>13, SwitchFacts, Constants DEF Stops, Same, IsOn, Running, Return, typeVars, objectVars, planVars, boundVars
<1>14. CASE CreatePod
  <2>1. /\ obj # None /\ pods < obj.replicas /\ pods' = pods + 1
        /\ UNCHANGED <<flags, obj, ready, lock, ups>>
    BY <1>14 DEF CreatePod, Controlled, typeVars, planVars
  <2>2. lock
    BY <2>1, SwitchFacts
  <2> QED
    BY <2>1, <2>2 DEF Same, IsOn, Running
<1>15. CASE PodReady
  <2>1. ready < pods /\ ready' = ready + 1 /\ UNCHANGED <<flags, obj, pods, lock, ups>>
    BY <1>15 DEF PodReady, typeVars, planVars
  <2>2. IsOn' <=> IsOn
    BY <2>1 DEF IsOn
  <2>3. CASE ~lock
    BY <2>1, <2>2, <2>3 DEF Same, Running
  <2>4. CASE lock
    <3>1. IsOn /\ ~Running
      BY <2>1, <2>4, SwitchFacts, Constants DEF IsOn, Running
    <3> QED
      BY <2>1, <2>2, <2>4, <3>1 DEF Same, Started
  <2> QED
    BY <2>3, <2>4
<1>16. CASE RemovePod
  <2>1. obj # None /\ pods > obj.replicas /\ pods' = pods - 1 /\ UNCHANGED <<flags, obj, lock, ups>>
    BY <1>16 DEF RemovePod, Controlled, typeVars, planVars
  <2>2. ~lock /\ pods \in Nat /\ obj.replicas \in Nat /\ (IsOn' <=> IsOn)
    BY <2>1, SwitchFacts, Constants DEF IsOn
  <2>3. CASE pods' # 0
    BY <2>1, <2>2, <2>3 DEF Same, Running
  <2>4. CASE pods' = 0
    <3>1. ~IsOn
      BY <2>1, <2>2, <2>4 DEF IsOn
    <3> QED
      BY <2>1, <2>2, <2>4, <3>1 DEF Stopped, Running
  <2> QED
    BY <2>3, <2>4
<1>17. CASE WriteStatus
  BY <1>17, SwitchFacts, Constants DEF WriteStatus, Same, IsOn, Running, Return, typeVars, objectVars, planVars, boundVars
<1>18. CASE FinishDelete
  <2>1. /\ obj # None /\ obj.deleting /\ obj' = None /\ UNCHANGED <<flags, pods, ready, lock, ups>>
        /\ lock
    BY <1>18 DEF FinishDelete, WorkloadInv, ObjectOK, typeVars, planVars
  <2>2. IsOn' <=> IsOn
    BY <2>1, SwitchFacts, Constants DEF IsOn
  <2> QED
    BY <2>1, <2>2 DEF Same, Running
<1>19. ~Rescale
  BY Rescaled DEF WorkloadInv, Ours, Alone
<1>20. ASSUME NEW k \in FaultKinds, Fails(k) PROVE UNCHANGED flags /\ Same
  BY <1>20 DEF Fails, Same, IsOn, Running, Return, typeVars, objectVars, planVars
<1> QED
  BY <1>1, <1>2, <1>3, <1>4, <1>5, <1>6, <1>7, <1>8, <1>9, <1>10, <1>11, <1>12, <1>13, <1>14, <1>15, <1>16, <1>17,
     <1>18, <1>19, <1>20 DEF Next, Operate, Controllers

\* What others have set is not taken back, the flags are not edited.
LEMMA OursStep == TypeOK /\ [Next]_vars => UNCHANGED flags /\ (Ours' => Ours)
<1> SUFFICES ASSUME TypeOK, [Next]_vars PROVE UNCHANGED flags /\ (Ours' => Ours)
  OBVIOUS
<1>1. UNCHANGED flags /\ (UNCHANGED rescales \/ rescales' = rescales + 1)
  BY DEF vars, objectVars, typeVars, boundVars, Next, Operate, Controllers, Begin, ScaleDown, DownWaited, Restored,
     GetUp, PatchUp, UpWaited, LastGet, Delete, Gone, Create, Stops, CreatePod, PodReady, RemovePod, WriteStatus,
     FinishDelete, Rescale, Fails
<1>2. rescales \in Nat
  BY WorkloadConstantsOK DEF TypeOK, WorkloadConstantsOK
<1> QED
  BY <1>1, <1>2 DEF Ours, SkipDown

\* scaleClusterDown, scaleClusterUp and recreateSTSWithPodManagementPolicy turn the
\* switch that Reconciler has of a workload, and nothing else does: every step is one of
\* WorkloadLife's or leaves it alone, for any number of replicas and failures.
THEOREM WorkloadLifeImplemented == Spec => ImplementsWorkloadLife
<1>1. Init => Life!Init
  <2> SUFFICES ASSUME Init PROVE Life!Init
    OBVIOUS
  <2>1. WorkloadInv /\ ~lock /\ ups = 0
    BY WorkloadInit DEF Init
  <2>2. obj # None /\ obj.replicas = pods
    BY <2>1, Constants DEF Init, WorkloadInv, ObjectOK, DownOK, Alone
  <2>3. IsOn <=> Running
    BY <2>1, <2>2 DEF IsOn, Running
  <2>4. Ours \in BOOLEAN /\ IsOn \in BOOLEAN /\ (~SkipUp) \in BOOLEAN /\ (Running = IsOn)
    BY <2>3 DEF Ours, IsOn, SkipUp, Running
  <2>5. (Ours /\ IsOn) \in (IF Ours THEN BOOLEAN ELSE {FALSE})
    <3>1. CASE Ours
      BY <2>4, <3>1
    <3>2. CASE ~Ours
      BY <3>2
    <3> QED
      BY <3>1, <3>2
  <2>6. (Ours /\ Running) = (Ours /\ IsOn) /\ (Ours /\ lock) = FALSE /\ (Ours /\ ups = 1) = FALSE
    BY <2>1, <2>4
  <2> QED
    BY <2>4, <2>5, <2>6 DEF Life!Init, Running
<1>2. WorkloadInv /\ WorkloadInv' /\ [Next]_vars => [Life!Next]_(Life!lifeVars)
  <2> SUFFICES ASSUME WorkloadInv, WorkloadInv', [Next]_vars PROVE Life!Next \/ UNCHANGED Life!lifeVars
    OBVIOUS
  <2>1. UNCHANGED flags /\ (Ours' => Ours)
    BY OursStep DEF WorkloadInv
  <2>2. CASE ~Ours
    <3>1. /\ (~SkipUp)' = (~SkipUp)
          /\ (Ours /\ IsOn)' = (Ours /\ IsOn) /\ (Ours /\ Running)' = (Ours /\ Running)
          /\ (Ours /\ lock)' = (Ours /\ lock) /\ (Ours /\ ups = 1)' = (Ours /\ ups = 1)
          /\ Ours' = Ours
      BY <2>1, <2>2 DEF Ours, SkipUp
    <3> QED
      BY <3>1 DEF Life!lifeVars, Running
  <2>3. CASE Ours /\ ~Ours'
    BY <2>1, <2>3 DEF Life!Next, Life!TakeOver, SkipUp
  <2>4. CASE Ours /\ Ours'
    <3>1. Same \/ SwitchedOff \/ Stopped \/ Replaced \/ SwitchedOn \/ Started \/ Counted
      BY <2>4, SwitchStep
    <3> QED
      BY <2>1, <2>4, <3>1 DEF Life!Next, Life!SwitchOff, Life!StopPods, Life!Replace, Life!SwitchOn, Life!StartPods,
         Life!Count, Life!lifeVars, Same, SwitchedOff, Stopped, Replaced, SwitchedOn, Started, Counted, Running, SkipUp
  <2> QED
    BY <2>1, <2>2, <2>3, <2>4
<1> QED
  BY <1>1, <1>2, WorkloadInvariant, PTL DEF Spec, ImplementsWorkloadLife, Life!Spec
=============================================================================
