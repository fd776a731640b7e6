------------------------------ MODULE HookLife ------------------------------
(***************************************************************************)
(* What a hook whose command never changes promises to the restore, on all *)
(* of its targets: nothing is recorded as succeeded that did not run to its *)
(* end, a record is kept, and the restore goes past the hook only when     *)
(* every target has had it.  A target may have the hook more than once.    *)
(***************************************************************************)
CONSTANT Nodes

VARIABLES
    targets,   \* those of the nodes the hook is for
    executed,  \* targets on which a Job of the hook has succeeded
    recorded,  \* targets whose status entry says so
    passed     \* the reconcile has gone past the hook and not come back to it

lifeVars == <<targets, executed, recorded, passed>>

LifeTypeOK ==
    /\ targets \in SUBSET Nodes
    /\ executed \in SUBSET targets
    /\ recorded \in SUBSET executed
    /\ passed \in BOOLEAN

Init == targets \in SUBSET Nodes /\ executed = {} /\ recorded = {} /\ passed = FALSE

Execute(n) ==
    /\ executed' = executed \cup {n}
    /\ UNCHANGED <<targets, recorded, passed>>

\* One patch of the status may carry the entries of several targets.
Record(ts) ==
    /\ recorded' = recorded \cup (ts \cap executed)
    /\ UNCHANGED <<targets, executed, passed>>

\* An entry whose patch has failed may reach the status with a later one.
Pass(ts) ==
    /\ executed = targets
    /\ recorded' = recorded \cup (ts \cap targets)
    /\ passed' = TRUE
    /\ UNCHANGED <<targets, executed>>

\* The next reconcile is before the hook again.
Again ==
    /\ passed' = FALSE
    /\ UNCHANGED <<targets, executed, recorded>>

Next ==
    \/ \E n \in targets : Execute(n)
    \/ \E ts \in SUBSET targets : Record(ts) \/ Pass(ts)
    \/ Again

Spec == Init /\ [][Next]_lifeVars
=============================================================================
