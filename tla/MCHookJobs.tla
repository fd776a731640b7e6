----------------------------- MODULE MCHookJobs -----------------------------
(* Small instances of a hook: versions a and b of its command; one target,  *)
(* or the nodes n1 and n2 of a nodeAccess hook.                             *)
EXTENDS HookJobs

CONSTANTS n1, n2, a, b

Mode(ts, access, change, behind) ==
    [targets |-> ts, nodeAccess |-> access, mutable |-> change, lag |-> behind]

MCModes == {Mode({n1}, FALSE, FALSE, TRUE), Mode({n1}, FALSE, TRUE, FALSE),
            Mode({n1, n2}, TRUE, FALSE, FALSE)}
=============================================================================
