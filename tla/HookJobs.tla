------------------------------ MODULE HookJobs ------------------------------
(***************************************************************************)
(* One hook of a plan, as RunHooks brings it to its targets: a nodeAccess  *)
(* hook to each node its selector matches, in parallel, any other hook to  *)
(* one.  Each target has a ConfigMap with the command, a Job, and an entry *)
(* in the status.  The Job controller, the TTL controller, the user and    *)
(* the client's cache move between any two calls.                          *)
(*                                                                         *)
(* A version stands for a command with its arguments and for their         *)
(* checksum; HookNames says what becomes of that.                          *)
(***************************************************************************)
EXTENDS FiniteSets, Naturals

CONSTANTS
    Nodes,       \* targets a hook may have
    Modes,       \* the hooks, and caches, that are looked at: see ModeRecords
    Versions,    \* versions of its command and arguments
    Created,     \* the one the plan is created with
    FaultKinds,  \* what may fail: see Fault
    MaxEdits,    \* bound on the user's edits of the hook
    MaxFaults,   \* bound on failures and crashes
    None

\* targets: the nodes of a nodeAccess hook, else one target; nodeAccess: the hook
\* has privileges.nodeAccess; mutable: it is mutable, which only a post-restore hook
\* may be; lag: reads of ConfigMaps and Jobs come from a cache that lags.
ModeRecords ==
    [targets : SUBSET Nodes, nodeAccess : BOOLEAN, mutable : BOOLEAN, lag : BOOLEAN]

ASSUME HookConstantsOK ==
    /\ IsFiniteSet(Nodes)
    /\ Modes \subseteq ModeRecords
    /\ \A m \in Modes : m.targets # {} /\ (m.nodeAccess \/ Cardinality(m.targets) = 1)
    /\ Created \in Versions
    /\ MaxEdits \in Nat /\ MaxFaults \in Nat
    /\ None \notin Versions \cup [args : Versions, run : {"active", "succeeded", "failed"}]
                   \cup [ok : BOOLEAN, sum : Versions \cup {None}]

Jobs     == [args : Versions, run : {"active", "succeeded", "failed"}]
Statuses == [ok : BOOLEAN, sum : Versions \cup {None}]

VARIABLES
    mode,     \* one of Modes
    args,     \* command and args in the spec
    edits,    \* edits so far
    cm,       \* target -> what its ConfigMap holds, or None
    cmSeen,   \* the same in the cache
    job,      \* target -> its Job, or None
    jobSeen,  \* the same in the cache
    entry,    \* target -> its RestoreHookStatus in the status, or None
    ran,      \* (history) <<n, v>>: a Job with version v has succeeded for n
    pc,       \* "idle", or "run": the reconcile is in RunHooks
    want,     \* target -> version of the hook when RunHooks looked at it
    at,       \* target -> where executeHookJob stands for it
    sum,      \* target -> version read from the ConfigMap, or None
    seen,     \* target -> the variable seen of waitForJob
    res,      \* target -> how executeHookJob ended
    left,     \* targets whose status is still to be written
    unsent,   \* targets whose status is in obj, but its patch failed
    passed,   \* the last reconcile has gone past the hook
    faults,   \* failures and crashes so far
    unchecked \* (history) a Job of another version was waited for: Recheck

storeVars == <<mode, args, edits, cm, cmSeen, job, jobSeen, entry, ran>>
runVars   == <<want, at, sum, seen, res>>
endVars   == <<pc, left, unsent, passed>>
vars      == <<storeVars, runVars, endVars, faults, unchecked>>

Targets    == mode.targets
NodeAccess == mode.nodeAccess
Mutable    == mode.mutable
Lag        == mode.lag

Steps == {"done", "ensure", "read", "create", "recheck", "wait", "waitFinished"}
Waits == {"wait", "waitFinished"}

TypeOK ==
    /\ mode \in Modes /\ unchecked \in BOOLEAN
    /\ args \in Versions /\ edits \in 0 .. MaxEdits
    /\ cm \in [Nodes -> Versions \cup {None}] /\ cmSeen \in [Nodes -> Versions \cup {None}]
    /\ job \in [Nodes -> Jobs \cup {None}] /\ jobSeen \in [Nodes -> Jobs \cup {None}]
    /\ entry \in [Nodes -> Statuses \cup {None}]
    /\ ran \in SUBSET (Nodes \X Versions)
    /\ pc \in {"idle", "run"}
    /\ want \in [Nodes -> Versions] /\ at \in [Nodes -> Steps]
    /\ sum \in [Nodes -> Versions \cup {None}]
    /\ seen \in [Nodes -> BOOLEAN]
    /\ res \in [Nodes -> {"none", "succeeded", "failed", "error"}]
    /\ left \in SUBSET Targets /\ unsent \in SUBSET Targets
    /\ passed \in BOOLEAN
    /\ faults \in 0 .. MaxFaults

Init ==
    /\ mode \in Modes /\ unchecked = FALSE
    /\ args = Created /\ edits = 0
    /\ cm = [n \in Nodes |-> None] /\ cmSeen = cm
    /\ job = [n \in Nodes |-> None] /\ jobSeen = job
    /\ entry = [n \in Nodes |-> None] /\ ran = {}
    /\ pc = "idle" /\ left = {} /\ unsent = {} /\ passed = FALSE
    /\ want = [n \in Nodes |-> args] /\ at = [n \in Nodes |-> "done"]
    /\ sum = [n \in Nodes |-> None] /\ seen = [n \in Nodes |-> FALSE]
    /\ res = [n \in Nodes |-> "none"]
    /\ faults = 0

-----------------------------------------------------------------------------
(* What a Get finds.                                                       *)

SeenCM(n)  == IF Lag THEN cmSeen[n] ELSE cm[n]
SeenJob(n) == IF Lag THEN jobSeen[n] ELSE job[n]

\* "call": a call other than the one of "recheck" fails, or a wait times out
\* early.  "recheck": the Get that follows AlreadyExists fails.  "job": a Job
\* fails.  "delete": someone deletes a Job.  "crash": the operator stops.
Fault(kind) == kind \in FaultKinds /\ faults < MaxFaults /\ faults' = faults + 1

Go(n, to) == at' = [at EXCEPT ![n] = to]

\* executeHookJob returns for a target.
End(n, how) ==
    /\ Go(n, "done")
    /\ res' = [res EXCEPT ![n] = how]

-----------------------------------------------------------------------------
(* RunHooks, or runNodeAccessHook, looks at the hook.                      *)

\* resolveHookFromConfigMap: the version of a hook that is not mutable is the
\* one its ConfigMap holds, once there is one.
Resolved(n) == IF ~Mutable /\ SeenCM(n) # None THEN SeenCM(n) ELSE args

\* (A variant that compares the checksum with the spec for every hook.)
SkipHookBySpec(n) == entry[n] # None /\ entry[n].ok /\ entry[n].sum = args

\* hookSkipReason, for an entry of the hook and its event.
SkipHook(n) ==
    /\ entry[n] # None /\ entry[n].ok
    /\ Mutable => entry[n].sum = Resolved(n)

Start ==
    /\ pc = "idle" /\ pc' = "run"
    /\ want' = [n \in Nodes |-> Resolved(n)]
    /\ at' = [n \in Nodes |-> IF n \notin Targets \/ SkipHook(n) THEN "done" ELSE "ensure"]
    /\ left' = {n \in Targets : ~SkipHook(n)}
    /\ sum' = [n \in Nodes |-> None] /\ seen' = [n \in Nodes |-> FALSE]
    /\ res' = [n \in Nodes |-> "none"]
    /\ passed' = FALSE
    /\ UNCHANGED <<storeVars, unsent, faults, unchecked>>

-----------------------------------------------------------------------------
(* executeHookJob, for a target at each of its calls.                      *)

\* (A variant that leaves every ConfigMap as it is.)
NeedsPatchNever(n) == FALSE

\* A ConfigMap of a mutable hook is brought up to date.
NeedsPatch(n) == Mutable /\ SeenCM(n) # want[n]

\* ensureHookConfigMap, createHookConfigMap: one the cache does not show yet
\* exists already, which is an error.
EnsureConfigMap(n) ==
    /\ at[n] = "ensure"
    /\ IF SeenCM(n) = None /\ cm[n] # None
       THEN End(n, "error") /\ UNCHANGED cm
       ELSE /\ cm' = IF SeenCM(n) = None \/ NeedsPatch(n) THEN [cm EXCEPT ![n] = want[n]] ELSE cm
            /\ Go(n, "read")
            /\ UNCHANGED res
    /\ UNCHANGED <<mode, args, edits, cmSeen, job, jobSeen, entry, ran, want, sum, seen, endVars, faults, unchecked>>

\* (A variant that takes the version from the spec.)
ReadSpec(n) ==
    /\ at[n] = "read"
    /\ sum' = [sum EXCEPT ![n] = args]
    /\ Go(n, "create")
    /\ UNCHANGED <<storeVars, want, seen, res, endVars, faults, unchecked>>

\* (A variant that goes on when the ConfigMap is not found.)
ReadConfigMapOrNothing(n) ==
    /\ at[n] = "read"
    /\ sum' = [sum EXCEPT ![n] = SeenCM(n)]
    /\ Go(n, "create")
    /\ UNCHANGED <<storeVars, want, seen, res, endVars, faults, unchecked>>

\* readHookConfigMap: what runs is what the ConfigMap holds.
ReadConfigMap(n) ==
    /\ at[n] = "read"
    /\ IF SeenCM(n) = None
       THEN End(n, "error") /\ UNCHANGED sum
       ELSE /\ sum' = [sum EXCEPT ![n] = SeenCM(n)]
            /\ Go(n, "create")
            /\ UNCHANGED res
    /\ UNCHANGED <<storeVars, want, seen, endVars, faults, unchecked>>

\* buildJob with the objects it provisions, then Create.  Under AlreadyExists
\* the Job there may have come to its end before.
CreateJob(n) ==
    /\ at[n] = "create"
    /\ IF job[n] = None
       THEN job' = [job EXCEPT ![n] = [args |-> sum[n], run |-> "active"]] /\ Go(n, "wait")
       ELSE Go(n, "recheck") /\ UNCHANGED job
    /\ UNCHANGED <<mode, args, edits, cm, cmSeen, jobSeen, entry, ran, want, sum, seen, res, endVars, faults, unchecked>>

\* (A variant that waits for any Job of the name.)
RecheckNever(n) ==
    /\ at[n] = "recheck"
    /\ Go(n, IF job[n] = None \/ job[n].run # "active" THEN "waitFinished" ELSE "wait")
    /\ UNCHANGED <<storeVars, want, sum, seen, res, endVars, faults, unchecked>>

\* A Job of another version is there, and the wait is going to take it for its own.
Unchecked(n) == job[n] # None /\ job[n].args # sum[n]

\* The Job of the name is looked at: one of another version is an error, any
\* other is waited for, and so is one the Get does not find or that fails.
Recheck(n) ==
    /\ at[n] = "recheck"
    /\ \/ /\ SeenJob(n) # None /\ SeenJob(n).args # sum[n]
          /\ End(n, "error")
          /\ UNCHANGED <<faults, unchecked>>
       \/ /\ \/ (SeenJob(n) # None => SeenJob(n).args = sum[n]) /\ UNCHANGED faults
             \/ Fault("recheck")
          /\ Go(n, IF job[n] = None \/ job[n].run # "active" THEN "waitFinished" ELSE "wait")
          /\ unchecked' = (unchecked \/ Unchecked(n))
          /\ UNCHANGED res
    /\ UNCHANGED <<storeVars, want, sum, seen, endVars>>

\* waitForJob sees the Job for the first time, and it is active.
SeeJob(n) ==
    /\ at[n] \in Waits /\ ~seen[n]
    /\ SeenJob(n) # None /\ SeenJob(n).run = "active"
    /\ seen' = [seen EXCEPT ![n] = TRUE]
    /\ UNCHANGED <<storeVars, want, at, sum, res, endVars, faults, unchecked>>

\* (A variant that takes a Job that is gone for one that has succeeded.)
JobSeenOrGone(n) ==
    /\ at[n] \in Waits
    /\ \/ SeenJob(n) # None /\ SeenJob(n).run = "succeeded" /\ End(n, "succeeded")
       \/ SeenJob(n) # None /\ SeenJob(n).run = "failed" /\ End(n, "failed")
       \/ SeenJob(n) = None /\ seen[n] /\ End(n, "succeeded")
    /\ UNCHANGED <<storeVars, want, sum, seen, endVars, faults, unchecked>>

\* waitForJob ends by itself: the Job has succeeded or failed, or was there
\* and is gone.
JobSeen(n) ==
    /\ at[n] \in Waits
    /\ \/ SeenJob(n) # None /\ SeenJob(n).run = "succeeded" /\ End(n, "succeeded")
       \/ SeenJob(n) # None /\ SeenJob(n).run = "failed" /\ End(n, "failed")
       \/ SeenJob(n) = None /\ seen[n] /\ End(n, "failed")
    /\ UNCHANGED <<storeVars, want, sum, seen, endVars, faults, unchecked>>

\* There is no Job, and none comes.
WaitHopeless(n) == job[n] = None /\ SeenJob(n) = None /\ ~seen[n]

WaitTimesOut(n) ==
    /\ at[n] \in Waits /\ WaitHopeless(n)
    /\ End(n, "failed")
    /\ UNCHANGED <<storeVars, want, sum, seen, endVars, faults, unchecked>>

\* A call fails, or the wait times out on a slow Job.
CallFails(n) ==
    /\ at[n] \in Steps \ {"done", "recheck"}
    /\ Fault("call")
    /\ End(n, IF at[n] \in Waits THEN "failed" ELSE "error")
    /\ UNCHANGED <<storeVars, want, sum, seen, endVars, unchecked>>

\* errgroup: once one target has failed, the context of the others is
\* cancelled, and their calls and waits come back with its error.  The Job of
\* such a target goes on.
Cancelled(n) ==
    /\ at[n] # "done"
    /\ \E m \in Targets : res[m] \in {"failed", "error"}
    /\ End(n, IF at[n] \in Waits THEN "failed" ELSE "error")
    /\ UNCHANGED <<storeVars, want, sum, seen, endVars, faults, unchecked>>

Execute(n) ==
    \/ EnsureConfigMap(n) \/ ReadConfigMap(n) \/ CreateJob(n) \/ Recheck(n)
    \/ SeeJob(n) \/ JobSeen(n) \/ WaitTimesOut(n) \/ CallFails(n) \/ Cancelled(n)

-----------------------------------------------------------------------------
(* The status, once every target is done, and the end of the reconcile.    *)

AllDone == pc = "run" /\ \A n \in Targets : at[n] = "done"

StatusOf(n) == [ok |-> res[n] = "succeeded", sum |-> sum[n]]

Written(ts) == [n \in Nodes |-> IF n \in ts THEN StatusOf(n) ELSE entry[n]]

\* SetHooksRestoreFromPlan.  A merge patch replaces the whole list of hooks, so
\* that an entry whose own patch has failed goes with the next one.
WriteStatus(n) ==
    /\ AllDone /\ n \in left
    /\ entry' = Written({n} \cup unsent)
    /\ left' = left \ {n}
    /\ unsent' = {}
    /\ UNCHANGED <<mode, args, edits, cm, cmSeen, job, jobSeen, ran, pc, passed, runVars, faults, unchecked>>

\* The error of the write ends a plain hook; a nodeAccess hook logs it.
WriteFails(n) ==
    /\ AllDone /\ n \in left
    /\ Fault("call")
    /\ IF NodeAccess
       THEN left' = left \ {n} /\ unsent' = unsent \cup {n} /\ UNCHANGED pc
       ELSE left' = {} /\ unsent' = {} /\ pc' = "idle"
    /\ UNCHANGED <<storeVars, passed, runVars, unchecked>>

\* (A variant in which a hook that timed out lets the restore go on.)
HookErrorTimeout == \E n \in Targets : res[n] = "error"

HookError == \E n \in Targets : res[n] \in {"failed", "error"}

\* runHook and runNodeAccessHook return.  With no error the reconcile goes on,
\* and the status of a later hook of the plan takes the unsent entries along.
Finish ==
    /\ AllDone /\ left = {}
    /\ pc' = "idle" /\ unsent' = {}
    /\ passed' = ~HookError
    /\ entry' \in IF HookError THEN {entry} ELSE {entry, Written(unsent)}
    /\ UNCHANGED <<mode, args, edits, cm, cmSeen, job, jobSeen, ran, left, runVars, faults, unchecked>>

\* The operator stops.
Crash ==
    /\ pc = "run" /\ pc' = "idle"
    /\ Fault("crash")
    /\ at' = [n \in Nodes |-> "done"]
    /\ left' = {} /\ unsent' = {}
    /\ UNCHANGED <<storeVars, passed, want, sum, seen, res, unchecked>>

-----------------------------------------------------------------------------
(* The surroundings.                                                       *)

JobEnds(n) ==
    /\ job[n] # None /\ job[n].run = "active"
    /\ \/ /\ job' = [job EXCEPT ![n].run = "succeeded"]
          /\ ran' = ran \cup {<<n, job[n].args>>}
          /\ UNCHANGED faults
       \/ /\ Fault("job")
          /\ job' = [job EXCEPT ![n].run = "failed"]
          /\ UNCHANGED ran
    /\ UNCHANGED <<mode, args, edits, cm, cmSeen, jobSeen, entry, runVars, endVars, unchecked>>

\* ttlSecondsAfterFinished: 30 seconds, so that a Job that ends while it is
\* polled every 5 seconds is seen; one that had ended before may go.
RemoveJob(n) ==
    /\ job[n] # None /\ job[n].run # "active"
    /\ at[n] # "wait"
    /\ job' = [job EXCEPT ![n] = None]
    /\ UNCHANGED <<mode, args, edits, cm, cmSeen, jobSeen, entry, ran, runVars, endVars, faults, unchecked>>

DeleteJob(n) ==
    /\ job[n] # None
    /\ Fault("delete")
    /\ job' = [job EXCEPT ![n] = None]
    /\ UNCHANGED <<mode, args, edits, cm, cmSeen, jobSeen, entry, ran, runVars, endVars, unchecked>>

\* The cache catches up with the API server.
Sync(n) ==
    /\ Lag
    /\ cmSeen' = [cmSeen EXCEPT ![n] = cm[n]]
    /\ jobSeen' = [jobSeen EXCEPT ![n] = job[n]]
    /\ UNCHANGED <<mode, args, edits, cm, job, entry, ran, runVars, endVars, faults, unchecked>>

Edit ==
    /\ edits < MaxEdits /\ edits' = edits + 1
    /\ args' \in Versions \ {args}
    /\ UNCHANGED <<mode, cm, cmSeen, job, jobSeen, entry, ran, runVars, endVars, faults, unchecked>>

-----------------------------------------------------------------------------
Run == Start \/ Finish \/ \E n \in Nodes : Execute(n) \/ WriteStatus(n) \/ WriteFails(n)

Environment == Edit \/ \E n \in Nodes : JobEnds(n) \/ RemoveJob(n) \/ DeleteJob(n) \/ Sync(n)

Next == Run \/ Crash \/ Environment

Spec == Init /\ [][Next]_vars

\* The reconcile takes its next step; Jobs run, the TTL controller removes them,
\* the cache is brought forward.  The Get after AlreadyExists and the first poll
\* follow Create at once: they do not lose against the 30 seconds of the TTL
\* controller, or against the failure of a sibling, every time.
Fairness ==
    /\ WF_vars(Start) /\ WF_vars(Finish)
    /\ \A n \in Nodes :
          /\ WF_vars(Execute(n)) /\ WF_vars(WriteStatus(n))
          /\ SF_vars(Recheck(n) /\ job[n] # None) /\ SF_vars(JobSeen(n))
          /\ WF_vars(JobEnds(n)) /\ WF_vars(RemoveJob(n)) /\ WF_vars(Sync(n))

FairSpec == Spec /\ Fairness

-----------------------------------------------------------------------------
(* Properties.                                                             *)

Recorded(n) == entry[n] # None /\ entry[n].ok

\* A target never has a hook that is not mutable succeed with two versions of
\* its command, whatever the user edits and wherever a reconcile stops.
\* (ensureHookConfigMap: "preventing args changes in spec from taking effect".)
OneVersion ==
    ~Mutable => \A n \in Nodes : Cardinality({v \in Versions : <<n, v>> \in ran}) <= 1

\* What the status records as succeeded did succeed: a Job with the very version
\* of the checksum, and on that target.  A retry may take a Job of an earlier
\* reconcile for its own; where the Get that tells them apart fails or finds nothing,
\* a Job of another version is recorded as well.  So is the Job of a mutable hook from
\* before an edit that the cache still holds when the new one is made.
\* (executeHookJob after AlreadyExists, waitForJob.)
RecordedRan ==
    ~unchecked /\ ~(Mutable /\ Lag) => \A n \in Nodes : Recorded(n) => <<n, entry[n].sum>> \in ran

\* A hook that is recorded with a version is not given a Job of that version
\* again while the record stands; a mutable one may, if the cache still holds the
\* ConfigMap of before an edit.
\* (README, hooks: "successful hooks are skipped on subsequent reconciles".)
RecordedNotRerun ==
    [][\A n \in Nodes :
          Recorded(n) /\ job[n] = None /\ job'[n] # None /\ ~(Mutable /\ Lag)
          => job'[n].args # entry[n].sum]_vars

\* The restore goes past a hook only when each target has had it succeed: a
\* mutable one with the version the reconcile found in the resource.
\* (RunHooks returns the error of a hook before it looks at the next plan.)
PassedMeansRan ==
    passed => \A n \in Targets :
        IF ~Mutable THEN \E v \in Versions : <<n, v>> \in ran
        ELSE unchecked \/ Lag \/ <<n, want[n]>> \in ran

\* Whatever failed, each target's success comes to be recorded, with the version
\* of the resource when the hook is mutable, and stays so.
\* (A hook that failed or timed out is retried by the next reconcile.)
UpToDate(n) == Recorded(n) /\ (Mutable => entry[n].sum = args)
EventuallyRecorded == <>[](\A n \in Targets : UpToDate(n))

\* The abstract life of a hook whose command does not change: a mutable hook counts
\* as one without targets.
Life == INSTANCE HookLife WITH
            targets  <- IF Mutable THEN {} ELSE Targets,
            executed <- IF Mutable THEN {} ELSE {n \in Targets : \E v \in Versions : <<n, v>> \in ran},
            recorded <- IF Mutable THEN {} ELSE {n \in Targets : Recorded(n)}

\* A hook that is not mutable lives that life, through every crash, retry and
\* stale read.
\* (RunHooks, runNodeAccessHook and the status they write.)
ImplementsHookLife == Life!Spec
=============================================================================
