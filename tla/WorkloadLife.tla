----------------------------- MODULE WorkloadLife -----------------------------
(***************************************************************************)
(* A workload as Reconciler takes it: a switch, and pods that follow it.   *)
(* It is off and has no pods when the claims are replaced, it is switched  *)
(* on again after that, and a scale-up is counted when the pods are there. *)
(***************************************************************************)
VARIABLES
    ours,      \* nobody else switches it, and the operator waits for its end
    waits,     \* the operator waits for its pods as well
    on,        \* pods are asked for
    pods,      \* until the claims are replaced: there are any; then: all are ready
    replaced,  \* the claims have been replaced
    counted    \* the scale-up is on record

lifeVars == <<ours, waits, on, pods, replaced, counted>>

Init ==
    /\ ours \in BOOLEAN /\ waits \in BOOLEAN
    /\ on \in (IF ours THEN BOOLEAN ELSE {FALSE}) /\ pods = on
    /\ replaced = FALSE /\ counted = FALSE

SwitchOff ==
    /\ ~replaced /\ on' = FALSE
    /\ UNCHANGED <<ours, waits, pods, replaced, counted>>

StopPods ==
    /\ ~on /\ pods' = FALSE
    /\ UNCHANGED <<ours, waits, on, replaced, counted>>

Replace ==
    /\ ~on /\ ~pods /\ replaced' = TRUE
    /\ UNCHANGED <<ours, waits, on, pods, counted>>

SwitchOn ==
    /\ replaced /\ ~counted /\ on' = TRUE
    /\ UNCHANGED <<ours, waits, pods, replaced, counted>>

StartPods ==
    /\ replaced /\ on /\ pods' = TRUE
    /\ UNCHANGED <<ours, waits, on, replaced, counted>>

\* A scale-up that is not waited for is counted with the switch.
Count ==
    /\ replaced /\ ~counted
    /\ waits => on /\ pods
    /\ on' = TRUE /\ counted' = TRUE
    /\ UNCHANGED <<ours, waits, pods, replaced>>

\* Someone else sets the replicas: nothing is promised from then on.
TakeOver ==
    /\ ours' = FALSE
    /\ on' = FALSE /\ pods' = FALSE /\ replaced' = FALSE /\ counted' = FALSE
    /\ UNCHANGED waits

Next ==
    \/ ours /\ (SwitchOff \/ StopPods \/ Replace \/ SwitchOn \/ StartPods \/ Count)
    \/ TakeOver

Spec == Init /\ [][Next]_lifeVars
=============================================================================
