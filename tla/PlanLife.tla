------------------------------ MODULE PlanLife ------------------------------
(***************************************************************************)
(* What a restore promises for each of its plans, whatever fails, stops or *)
(* is tried again: claims are replaced only once the plan is prepared (its *)
(* pre-restore hooks have succeeded, its workloads have no pods), it stays *)
(* prepared until it is locked, the lock is final and so is the scale-up,  *)
(* which is recorded only when everything runs.                            *)
(***************************************************************************)
CONSTANTS
    Plans,
    Claims,
    PlanOfClaim

VARIABLES
    prepared,  \* plans whose hooks are done and whose workloads are stopped
    running,   \* plans whose workloads all run
    removing,  \* claims that are being deleted
    locked,    \* plans that are locked
    up         \* locked plans that were scaled up

lifeVars == <<prepared, running, removing, locked, up>>

LifeTypeOK ==
    /\ prepared \in SUBSET Plans /\ running \in SUBSET Plans
    /\ removing \in SUBSET Claims
    /\ locked \in SUBSET Plans
    /\ up \in SUBSET (locked \cap running)

Init ==
    /\ prepared \in SUBSET Plans /\ running \in SUBSET Plans
    /\ removing = {} /\ locked = {} /\ up = {}

\* Hooks run, workloads stop and start.
Work ==
    /\ prepared' \in SUBSET Plans /\ prepared \subseteq prepared' \cup locked
    /\ running' \in SUBSET Plans /\ up \subseteq running'
    /\ UNCHANGED <<removing, locked, up>>

Delete(v) ==
    /\ PlanOfClaim[v] \in prepared \ locked
    /\ removing' = removing \cup {v}
    /\ UNCHANGED <<prepared, running, locked, up>>

Gone(v) ==
    /\ removing' = removing \ {v}
    /\ UNCHANGED <<prepared, running, locked, up>>

Lock(p) ==
    /\ locked' = locked \cup {p}
    /\ UNCHANGED <<prepared, running, removing, up>>

ScaleUp(p) ==
    /\ p \in locked \cap running
    /\ up' = up \cup {p}
    /\ UNCHANGED <<prepared, running, removing, locked>>

Next ==
    \/ Work
    \/ \E v \in Claims : Delete(v) \/ Gone(v)
    \/ \E p \in Plans : Lock(p) \/ ScaleUp(p)

Spec == Init /\ [][Next]_lifeVars
=============================================================================
