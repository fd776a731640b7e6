--------------------------- MODULE HookJobsProofs ---------------------------
(* Proofs about HookJobs: what the ConfigMap, the Jobs and the status entries *)
(* of a hook have to do with each other.                                      *)
EXTENDS HookJobs, FiniteSetTheorems, TLAPS

Succeeded(n) == \E v \in Versions : <<n, v>> \in ran

\* A mutable hook with a cache that lags may run, and record, an old version.
Fresh == ~(Mutable /\ Lag)

HasRead == {"create", "recheck"} \cup Waits

\* A target is done when RunHooks is not at the hook, and has no result before.
RunOK ==
    /\ pc = "idle" => left = {} /\ unsent = {} /\ \A n \in Nodes : at[n] = "done"
    /\ \A n \in Nodes : at[n] # "done" => n \in Targets /\ res[n] = "none"
    /\ left \cap unsent = {}

\* A Job is made, and a result comes, after the ConfigMap was read.
ReadOK == \A n \in Nodes : at[n] \in HasRead \/ res[n] = "succeeded" => sum[n] # None

\* The version of a hook that is not mutable is that of its ConfigMap, which stays.
Fixed(n) ==
    /\ cmSeen[n] \in {None, cm[n]}
    /\ job[n] # None => job[n].args = cm[n]
    /\ jobSeen[n] # None => jobSeen[n].args = cm[n]
    /\ sum[n] \in {None, cm[n]}
    /\ \A v \in Versions : <<n, v>> \in ran => v = cm[n]
    /\ cm[n] = None => job[n] = None /\ jobSeen[n] = None

FixedOK == ~Mutable => \A n \in Nodes : Fixed(n)

\* That of a mutable hook is the one the reconcile has from the resource.
WantOK ==
    Mutable /\ ~Lag => \A n \in Nodes :
        /\ at[n] = "read" => cm[n] = want[n]
        /\ at[n] \in HasRead \/ res[n] = "succeeded" => sum[n] = want[n]

\* A Job that has succeeded did so with its version.
JobsRan ==
    \A n \in Nodes :
        /\ job[n] # None /\ job[n].run = "succeeded" => <<n, job[n].args>> \in ran
        /\ jobSeen[n] # None /\ jobSeen[n].run = "succeeded" => <<n, jobSeen[n].args>> \in ran

\* The Job that is waited for.
WaitOK ==
    \A n \in Nodes : at[n] \in Waits /\ ~unchecked /\ job[n] # None => job[n].args = sum[n]

ResOK ==
    \A n \in Nodes : res[n] = "succeeded" =>
        /\ Succeeded(n)
        /\ Fresh /\ ~unchecked => <<n, sum[n]>> \in ran

EntryOK ==
    \A n \in Nodes : Recorded(n) =>
        /\ Succeeded(n)
        /\ Fresh /\ ~unchecked => <<n, entry[n].sum>> \in ran

\* A target that is at its Job, or whose status is to be written, has no record that
\* counts.
NewOK ==
    \A n \in Nodes : at[n] # "done" \/ n \in left \cup unsent =>
        ~Recorded(n) \/ (Mutable /\ (Lag \/ entry[n].sum # want[n]))

\* The hook counts as run for a target.
Ran(n) == IF ~Mutable THEN Succeeded(n) ELSE unchecked \/ Lag \/ <<n, want[n]>> \in ran

\* A target that was skipped has had the hook.
SkipOK == pc = "run" => \A n \in Targets : at[n] = "done" /\ res[n] = "none" => Ran(n)

HookJobInv == /\ TypeOK /\ RunOK /\ ReadOK /\ FixedOK /\ WantOK /\ JobsRan /\ WaitOK /\ ResOK /\ EntryOK
              /\ NewOK /\ SkipOK /\ PassedMeansRan

-----------------------------------------------------------------------------
(* Types.                                                                   *)

LEMMA ModeFacts ==
  ASSUME TypeOK
  PROVE  /\ mode \in ModeRecords /\ Targets \subseteq Nodes
         /\ Targets # {} /\ None \notin Versions /\ None \notin Jobs /\ None \notin Statuses
BY HookConstantsOK DEF HookConstantsOK, TypeOK, ModeRecords, Targets, Jobs, Statuses

LEMMA SeenTypes ==
  ASSUME TypeOK, NEW n \in Nodes
  PROVE  SeenCM(n) \in Versions \cup {None} /\ SeenJob(n) \in Jobs \cup {None} /\ Resolved(n) \in Versions
BY DEF TypeOK, SeenCM, SeenJob, Resolved

LEMMA WrittenTypes ==
  ASSUME TypeOK, NEW ts
  PROVE  Written(ts) \in [Nodes -> Statuses \cup {None}]
<1>1. ASSUME NEW n \in Nodes PROVE StatusOf(n) \in Statuses /\ entry[n] \in Statuses \cup {None}
  BY <1>1 DEF TypeOK, StatusOf, Statuses
<1> QED
  BY <1>1 DEF Written

LEMMA HookTypeInit == Init => TypeOK
<1> SUFFICES ASSUME Init PROVE TypeOK
  OBVIOUS
<1>1. /\ cm \in [Nodes -> Versions \cup {None}] /\ cmSeen \in [Nodes -> Versions \cup {None}]
      /\ job \in [Nodes -> Jobs \cup {None}] /\ jobSeen \in [Nodes -> Jobs \cup {None}]
      /\ entry \in [Nodes -> Statuses \cup {None}]
  BY DEF Init
<1>2. /\ args \in Versions /\ want \in [Nodes -> Versions] /\ at \in [Nodes -> Steps]
      /\ sum \in [Nodes -> Versions \cup {None}] /\ seen \in [Nodes -> BOOLEAN]
      /\ res \in [Nodes -> {"none", "succeeded", "failed", "error"}]
  BY HookConstantsOK DEF HookConstantsOK, Init, Steps
<1>3. /\ edits \in 0 .. MaxEdits /\ faults \in 0 .. MaxFaults
      /\ left \in SUBSET Targets /\ unsent \in SUBSET Targets /\ ran \in SUBSET (Nodes \X Versions)
  BY HookConstantsOK DEF HookConstantsOK, Init
<1>4. mode \in Modes /\ unchecked = FALSE /\ pc = "idle" /\ passed = FALSE
  BY DEF Init
<1> QED
  BY <1>1, <1>2, <1>3, <1>4 DEF TypeOK

LEMMA HookTypeStep == TypeOK /\ ReadOK /\ [Next]_vars => TypeOK'
<1> SUFFICES ASSUME TypeOK, ReadOK, [Next]_vars PROVE TypeOK'
  OBVIOUS
<1> USE DEF Targets, Steps, Waits, End, Go, Fault, storeVars, runVars, endVars
<1>1. CASE UNCHANGED vars
  BY <1>1 DEF vars, TypeOK
<1>2. CASE Start
  <2>1. want' \in [Nodes -> Versions]
    BY <1>2, SeenTypes DEF Start
  <2>2. /\ at' \in [Nodes -> Steps] /\ sum' \in [Nodes -> Versions \cup {None}] /\ seen' \in [Nodes -> BOOLEAN]
        /\ res' \in [Nodes -> {"none", "succeeded", "failed", "error"}]
    BY <1>2 DEF Start
  <2>3. left' \subseteq Targets' /\ pc' = "run" /\ passed' = FALSE
    BY <1>2 DEF Start
  <2>4. UNCHANGED <<storeVars, unsent, faults, unchecked>>
    BY <1>2 DEF Start
  <2> QED
    BY <2>1, <2>2, <2>3, <2>4 DEF TypeOK
<1>3. ASSUME NEW n \in Nodes, EnsureConfigMap(n) PROVE TypeOK'
  BY <1>3 DEF EnsureConfigMap, TypeOK
<1>4. ASSUME NEW n \in Nodes, ReadConfigMap(n) PROVE TypeOK'
  BY <1>4, SeenTypes DEF ReadConfigMap, TypeOK
<1>5. ASSUME NEW n \in Nodes, CreateJob(n) PROVE TypeOK'
  <2>1. [args |-> sum[n], run |-> "active"] \in Jobs
    BY <1>5 DEF CreateJob, ReadOK, HasRead, TypeOK, Jobs
  <2> QED
    BY <1>5, <2>1 DEF CreateJob, TypeOK
<1>6. ASSUME NEW n \in Nodes, Recheck(n) PROVE TypeOK'
  <2>1. unchecked' \in BOOLEAN
    BY <1>6 DEF Recheck, TypeOK, Unchecked
  <2>2. /\ at' \in [Nodes -> Steps] /\ res' \in [Nodes -> {"none", "succeeded", "failed", "error"}]
        /\ faults' \in 0 .. MaxFaults
    BY <1>6, HookConstantsOK DEF Recheck, TypeOK, HookConstantsOK
  <2>3. UNCHANGED <<storeVars, want, sum, seen, endVars>>
    BY <1>6 DEF Recheck
  <2> QED
    BY <2>1, <2>2, <2>3 DEF TypeOK
<1>7. ASSUME NEW n \in Nodes, SeeJob(n) \/ JobSeen(n) \/ WaitTimesOut(n) \/ Cancelled(n) PROVE TypeOK'
  BY <1>7 DEF SeeJob, JobSeen, WaitTimesOut, Cancelled, TypeOK
<1>8. ASSUME NEW n \in Nodes, CallFails(n) PROVE TypeOK'
  BY <1>8, HookConstantsOK DEF CallFails, TypeOK, HookConstantsOK
<1>9. ASSUME NEW n \in Nodes, WriteStatus(n) PROVE TypeOK'
  BY <1>9, WrittenTypes DEF WriteStatus, TypeOK
<1>10. ASSUME NEW n \in Nodes, WriteFails(n) PROVE TypeOK'
  BY <1>10, HookConstantsOK DEF WriteFails, TypeOK, HookConstantsOK
<1>11. CASE Finish
  BY <1>11, WrittenTypes DEF Finish, TypeOK
<1>12. CASE Crash
  BY <1>12, HookConstantsOK DEF Crash, TypeOK, HookConstantsOK
<1>13. ASSUME NEW n \in Nodes, JobEnds(n) PROVE TypeOK'
  <2>1. job' \in [Nodes -> Jobs \cup {None}] /\ job[n] \in Jobs
    BY <1>13 DEF JobEnds, TypeOK, Jobs
  <2> QED
    BY <1>13, <2>1, HookConstantsOK DEF JobEnds, TypeOK, HookConstantsOK, Jobs
<1>14. ASSUME NEW n \in Nodes, RemoveJob(n) \/ DeleteJob(n) PROVE TypeOK'
  BY <1>14, HookConstantsOK DEF RemoveJob, DeleteJob, TypeOK, HookConstantsOK
<1>15. ASSUME NEW n \in Nodes, Sync(n) PROVE TypeOK'
  BY <1>15 DEF Sync, TypeOK
<1>16. CASE Edit
  BY <1>16, HookConstantsOK DEF Edit, TypeOK, HookConstantsOK
<1> QED
  BY <1>1, <1>2, <1>3, <1>4, <1>5, <1>6, <1>7, <1>8, <1>9, <1>10, <1>11, <1>12, <1>13, <1>14, <1>15, <1>16
     DEF Next, Run, Execute, Environment

LEMMA ReadStep == TypeOK /\ ReadOK /\ [Next]_vars => ReadOK'
<1> SUFFICES ASSUME TypeOK, ReadOK, [Next]_vars, NEW n \in Nodes, at'[n] \in HasRead \/ res'[n] = "succeeded"
             PROVE  sum'[n] # None
  BY DEF ReadOK
<1> USE DEF HasRead, Waits, ReadOK, TypeOK
<1>1. CASE UNCHANGED <<at, res, sum>>
  BY <1>1
<1>2. ASSUME NEW m \in Nodes, Execute(m) PROVE sum'[n] # None
  BY <1>2, SeenTypes DEF Execute, EnsureConfigMap, ReadConfigMap, CreateJob, Recheck, SeeJob, JobSeen, WaitTimesOut,
     CallFails, Cancelled, End, Go, runVars
<1>3. CASE Start \/ Crash
  BY <1>3 DEF Start, Crash
<1> QED
  BY <1>1, <1>2, <1>3 DEF Next, Run, Environment, Finish, WriteStatus, WriteFails, JobEnds, RemoveJob, DeleteJob,
     Sync, Edit, runVars, vars

\* The types hold in every state: a Job is made only with what was read from a ConfigMap.
THEOREM HookTypes == Spec => []TypeOK
<1>1. Init => ReadOK
  BY DEF Init, ReadOK, HasRead, Waits
<1> QED
  BY <1>1, HookTypeInit, HookTypeStep, ReadStep, PTL DEF Spec

-----------------------------------------------------------------------------
(* What a step does for one target.                                         *)

\* The hook stays what it is; the history grows.
LEMMA HistoryStep ==
  ASSUME TypeOK, [Next]_vars
  PROVE  /\ UNCHANGED mode /\ ran \subseteq ran'
         /\ unchecked => unchecked'
<1> USE DEF storeVars, runVars, endVars
<1>1. UNCHANGED mode /\ ran \subseteq ran'
  BY DEF vars, Next, Run, Start, Finish, Execute, EnsureConfigMap, ReadConfigMap, CreateJob, Recheck, SeeJob, JobSeen,
     WaitTimesOut, CallFails, Cancelled, WriteStatus, WriteFails, Crash, Environment, Edit, JobEnds, RemoveJob,
     DeleteJob, Sync
<1>2. CASE \E n \in Nodes : Recheck(n)
  <2>1. PICK n \in Nodes : unchecked' = unchecked \/ unchecked' = (unchecked \/ Unchecked(n))
    BY <1>2 DEF Recheck
  <2>2. unchecked => unchecked'
    BY <2>1, Zenon
  <2> QED
    BY <1>1, <2>2
<1>3. CASE UNCHANGED unchecked
  BY <1>1, <1>3
<1> QED
  BY <1>2, <1>3 DEF vars, Next, Run, Start, Finish, Execute, EnsureConfigMap, ReadConfigMap, CreateJob, SeeJob,
     JobSeen, WaitTimesOut, CallFails, Cancelled, WriteStatus, WriteFails, Crash, Environment, Edit, JobEnds, RemoveJob,
     DeleteJob, Sync

\* Its ConfigMap and its Job.
LEMMA StoreStep ==
  ASSUME TypeOK, [Next]_vars, NEW n \in Nodes
  PROVE  /\ cm'[n] = cm[n] \/ (EnsureConfigMap(n) /\ cm'[n] = want[n] /\ at'[n] = "read")
         /\ \/ job'[n] = job[n] \/ job'[n] = None \/ (CreateJob(n) /\ job[n] = None)
            \/ /\ job[n] # None /\ job'[n] # None /\ job'[n].args = job[n].args
               /\ job'[n].run = "succeeded" => <<n, job[n].args>> \in ran'
         /\ cmSeen'[n] \in {cmSeen[n], cm[n]}
         /\ jobSeen'[n] \in {jobSeen[n], job[n]}
         /\ \A v \in Versions : <<n, v>> \in ran' \ ran => job[n] # None /\ job[n].args = v
<1> USE DEF storeVars, TypeOK
<1>1. CASE UNCHANGED storeVars
  BY <1>1
<1>2. ASSUME NEW m \in Nodes, EnsureConfigMap(m) PROVE cm'[n] = cm[n] \/ (m = n /\ cm'[n] = want[n] /\ at'[n] = "read")
  BY <1>2 DEF EnsureConfigMap, Go
<1>3. ASSUME NEW m \in Nodes, CreateJob(m) PROVE job'[n] = job[n] \/ (m = n /\ job[n] = None)
  BY <1>3 DEF CreateJob
<1>4. ASSUME NEW m \in Nodes, JobEnds(m)
      PROVE  /\ \/ job'[n] = job[n]
                \/ /\ job[n] # None /\ job'[n] # None /\ job'[n].args = job[n].args
                   /\ job'[n].run = "succeeded" => <<n, job[n].args>> \in ran'
             /\ \A v \in Versions : <<n, v>> \in ran' \ ran => job[n] # None /\ job[n].args = v
  <2>1. job[m] # None /\ job[m] \in Jobs
    BY <1>4 DEF JobEnds
  <2>2. PICK r \in {"succeeded", "failed"} :
           /\ job' = [job EXCEPT ![m].run = r]
           /\ ran' = IF r = "succeeded" THEN ran \cup {<<m, job[m].args>>} ELSE ran
    BY <1>4 DEF JobEnds
  <2>3. CASE m = n
    <3>1. job'[n] = [job[n] EXCEPT !.run = r]
      BY <2>2, <2>3
    <3>2. job'[n].args = job[n].args /\ job'[n].run = r /\ job'[n] \in Jobs
      BY <2>1, <2>3, <3>1 DEF Jobs
    <3> QED
      BY <2>1, <2>2, <2>3, <3>2, ModeFacts
  <2>4. CASE m # n
    BY <2>2, <2>4
  <2> QED
    BY <2>3, <2>4
<1>5. ASSUME NEW m \in Nodes, RemoveJob(m) \/ DeleteJob(m) PROVE job'[n] = job[n] \/ job'[n] = None
  BY <1>5 DEF RemoveJob, DeleteJob
<1>6. ASSUME NEW m \in Nodes, Sync(m) PROVE cmSeen'[n] \in {cmSeen[n], cm[n]} /\ jobSeen'[n] \in {jobSeen[n], job[n]}
  BY <1>6 DEF Sync
<1>7. \/ UNCHANGED <<cm, cmSeen, job, jobSeen, ran>>
      \/ \E m \in Nodes : EnsureConfigMap(m) \/ CreateJob(m) \/ JobEnds(m) \/ RemoveJob(m) \/ DeleteJob(m) \/ Sync(m)
  BY DEF vars, Next, Run, Start, Finish, Execute, ReadConfigMap, Recheck, SeeJob, JobSeen, WaitTimesOut, CallFails,
     Cancelled, WriteStatus, WriteFails, Crash, Environment, Edit
<1> QED
  <2>1. ASSUME NEW m \in Nodes, EnsureConfigMap(m) PROVE UNCHANGED <<cmSeen, job, jobSeen, ran>>
    BY <2>1 DEF EnsureConfigMap
  <2>2. ASSUME NEW m \in Nodes, CreateJob(m) PROVE UNCHANGED <<cm, cmSeen, jobSeen, ran>>
    BY <2>2 DEF CreateJob
  <2>3. ASSUME NEW m \in Nodes, JobEnds(m) \/ RemoveJob(m) \/ DeleteJob(m) PROVE UNCHANGED <<cm, cmSeen, jobSeen>>
    BY <2>3 DEF JobEnds, RemoveJob, DeleteJob
  <2>4. ASSUME NEW m \in Nodes, RemoveJob(m) \/ DeleteJob(m) PROVE UNCHANGED ran
    BY <2>4 DEF RemoveJob, DeleteJob
  <2>5. ASSUME NEW m \in Nodes, Sync(m) PROVE UNCHANGED <<cm, job, ran>>
    BY <2>5 DEF Sync
  <2> QED
    BY <1>2, <1>3, <1>4, <1>5, <1>6, <1>7, <2>1, <2>2, <2>3, <2>4, <2>5

\* executeHookJob for it: only its own calls move it, in the order of their steps.
LEMMA TargetStep ==
  ASSUME TypeOK, [Next]_vars, NEW n \in Nodes
  PROVE  \/ Start \/ Execute(n)
         \/ /\ at'[n] = at[n] \/ (Crash /\ at'[n] = "done")
            /\ sum'[n] = sum[n] /\ res'[n] = res[n] /\ want'[n] = want[n]
<1> USE DEF TypeOK, runVars
<1>1. ASSUME NEW m \in Nodes, Execute(m), m # n
      PROVE  at'[n] = at[n] /\ sum'[n] = sum[n] /\ res'[n] = res[n] /\ want'[n] = want[n]
  BY <1>1 DEF Execute, EnsureConfigMap, ReadConfigMap, CreateJob, Recheck, SeeJob, JobSeen, WaitTimesOut, CallFails,
     Cancelled, End, Go
<1> QED
  BY <1>1 DEF vars, Next, Run, Finish, WriteStatus, WriteFails, Crash, Environment, Edit, JobEnds, RemoveJob,
     DeleteJob, Sync

\* Its entry, which is written when all are done.
LEMMA RecordStep ==
  ASSUME TypeOK, [Next]_vars, NEW n \in Nodes, entry'[n] # entry[n]
  PROVE  /\ AllDone /\ UNCHANGED <<runVars, mode, ran, unchecked>> /\ entry'[n] = StatusOf(n)
         /\ (n \in left /\ n \notin left') \/ n \in unsent
         /\ n \in left' \cup unsent' => n \in left' \cap unsent
<1>1. ASSUME NEW m \in Nodes, WriteStatus(m)
      PROVE  /\ AllDone /\ UNCHANGED <<runVars, mode, ran, unchecked>> /\ entry'[n] = StatusOf(n)
             /\ n \in {m} \cup unsent /\ m \in left /\ left' = left \ {m} /\ unsent' = {}
  BY <1>1 DEF WriteStatus, Written
<1>2. ASSUME Finish
      PROVE  /\ AllDone /\ UNCHANGED <<runVars, mode, ran, unchecked>> /\ entry'[n] = StatusOf(n)
             /\ n \in unsent /\ left = {} /\ left' = left /\ unsent' = {}
  BY <1>2 DEF Finish, Written
<1>3. Finish \/ \E m \in Nodes : WriteStatus(m)
  BY DEF vars, storeVars, Next, Run, Start, Execute, EnsureConfigMap, ReadConfigMap, CreateJob, Recheck, SeeJob,
     JobSeen, WaitTimesOut, CallFails, Cancelled, WriteFails, Crash, Environment, Edit, JobEnds, RemoveJob, DeleteJob,
     Sync
<1> QED
  BY <1>1, <1>2, <1>3

-----------------------------------------------------------------------------
(* The invariant.                                                           *)

LEMMA RunStep == TypeOK /\ RunOK /\ [Next]_vars => RunOK'
<1> SUFFICES ASSUME TypeOK, RunOK, [Next]_vars PROVE RunOK'
  OBVIOUS
<1> USE DEF RunOK, Targets, TypeOK
<1>1. CASE UNCHANGED <<mode, pc, left, unsent, at, res>>
  BY <1>1
<1>2. ASSUME NEW m \in Nodes, Execute(m) PROVE RunOK'
  <2>1. at[m] # "done" /\ UNCHANGED <<mode, pc, left, unsent>>
    BY <1>2 DEF Execute, EnsureConfigMap, ReadConfigMap, CreateJob, Recheck, SeeJob, JobSeen, WaitTimesOut, CallFails,
       Cancelled, Waits, endVars, storeVars
  <2>2. /\ \A n \in Nodes \ {m} : at'[n] = at[n] /\ res'[n] = res[n]
        /\ at'[m] # "done" => res'[m] = res[m]
    BY <1>2 DEF Execute, EnsureConfigMap, ReadConfigMap, CreateJob, Recheck, SeeJob, JobSeen, WaitTimesOut, CallFails,
       Cancelled, End, Go
  <2> QED
    BY <2>1, <2>2
<1>3. CASE Start
  BY <1>3 DEF Start, storeVars
<1>4. CASE Crash
  BY <1>4 DEF Crash, storeVars
<1>5. CASE Finish \/ \E m \in Nodes : WriteStatus(m) \/ WriteFails(m)
  BY <1>5 DEF Finish, WriteStatus, WriteFails, AllDone, storeVars, runVars
<1> QED
  BY <1>1, <1>2, <1>3, <1>4, <1>5 DEF vars, storeVars, runVars, endVars, Next, Run, Environment, Edit, JobEnds,
     RemoveJob, DeleteJob, Sync

LEMMA FixedStep == TypeOK /\ RunOK /\ ReadOK /\ FixedOK /\ [Next]_vars => FixedOK'
<1> SUFFICES ASSUME TypeOK, RunOK, ReadOK, FixedOK, [Next]_vars, ~Mutable, NEW n \in Nodes PROVE Fixed(n)'
  BY HistoryStep DEF FixedOK, Mutable
<1>1. Fixed(n) /\ SeenCM(n) \in {None, cm[n]} /\ None \notin Versions
  BY ModeFacts DEF FixedOK, Fixed, SeenCM
<1>2. \/ cm'[n] = cm[n]
      \/ cm[n] = None /\ cm'[n] \in Versions
  <2>1. ASSUME EnsureConfigMap(n), at'[n] = "read" PROVE cm[n] = None \/ cm'[n] = cm[n]
    BY <1>1, <2>1 DEF EnsureConfigMap, End, Go, NeedsPatch, TypeOK
  <2>2. want[n] \in Versions
    BY DEF TypeOK
  <2> QED
    BY <2>1, <2>2, StoreStep
<1>3. sum'[n] \in {None, cm[n]}
  <2>1. CASE Start
    BY <2>1 DEF Start
  <2>2. CASE Execute(n)
    BY <1>1, <2>2 DEF Execute, EnsureConfigMap, ReadConfigMap, CreateJob, Recheck, SeeJob, JobSeen, WaitTimesOut,
       CallFails, Cancelled, Fixed, TypeOK, runVars
  <2> QED
    BY <1>1, <2>1, <2>2, TargetStep DEF Fixed
<1>4. job'[n] # None => cm[n] # None /\ job'[n].args = cm[n]
  <2>1. ASSUME CreateJob(n), job[n] = None PROVE cm[n] # None /\ job'[n].args = cm[n]
    <3>1. sum[n] = cm[n] /\ cm[n] # None
      BY <1>1, <2>1 DEF CreateJob, ReadOK, HasRead, Fixed
    <3>2. job'[n] = [args |-> sum[n], run |-> "active"]
      BY <2>1 DEF CreateJob, TypeOK
    <3> QED
      BY <3>1, <3>2
  <2> QED
    BY <1>1, <2>1, StoreStep DEF Fixed
<1>5. \A v \in Versions : <<n, v>> \in ran' => v = cm[n]
  BY <1>1, StoreStep DEF Fixed
<1>6. jobSeen'[n] # None => cm[n] # None /\ jobSeen'[n].args = cm[n]
  BY <1>1, StoreStep DEF Fixed
<1>7. cmSeen'[n] \in {None, cm[n]}
  BY <1>1, StoreStep DEF Fixed
<1> QED
  BY <1>1, <1>2, <1>3, <1>4, <1>5, <1>6, <1>7 DEF Fixed

LEMMA WantStep == TypeOK /\ RunOK /\ WantOK /\ [Next]_vars => WantOK'
<1> SUFFICES ASSUME TypeOK, RunOK, WantOK, [Next]_vars, Mutable, ~Lag, NEW n \in Nodes
             PROVE  /\ at'[n] = "read" => cm'[n] = want'[n]
                    /\ at'[n] \in HasRead \/ res'[n] = "succeeded" => sum'[n] = want'[n]
  BY HistoryStep DEF WantOK, Mutable, Lag
<1> USE DEF HasRead, Waits
<1>1. /\ at[n] = "read" => cm[n] = want[n]
      /\ at[n] \in HasRead \/ res[n] = "succeeded" => sum[n] = want[n]
      /\ at[n] # "done" => res[n] # "succeeded"
      /\ SeenCM(n) = cm[n] /\ want[n] # None
  BY ModeFacts DEF WantOK, RunOK, SeenCM, TypeOK
<1>2. CASE Start
  BY <1>2 DEF Start
<1>3. CASE EnsureConfigMap(n)
  BY <1>1, <1>3 DEF EnsureConfigMap, NeedsPatch, End, Go, TypeOK
<1>4. cm'[n] = cm[n] \/ EnsureConfigMap(n)
  BY StoreStep
<1>5. CASE ReadConfigMap(n) \/ CreateJob(n) \/ Recheck(n) \/ SeeJob(n) \/ JobSeen(n) \/ WaitTimesOut(n) \/ CallFails(n)
           \/ Cancelled(n)
  <2>1. want'[n] = want[n] /\ at'[n] # "read" /\ (at'[n] \in HasRead \/ res'[n] = "succeeded" => at[n] \in HasRead \cup {"read"})
    BY <1>1, <1>5 DEF ReadConfigMap, CreateJob, Recheck, SeeJob, JobSeen, WaitTimesOut, CallFails, Cancelled, End, Go,
       TypeOK, runVars
  <2>2. sum'[n] = sum[n] \/ (at[n] = "read" /\ sum'[n] = cm[n])
    BY <1>1, <1>5 DEF ReadConfigMap, CreateJob, Recheck, SeeJob, JobSeen, WaitTimesOut, CallFails, Cancelled, TypeOK,
       runVars
  <2>3. at[n] = "read" /\ (at'[n] \in HasRead \/ res'[n] = "succeeded") => sum'[n] = cm[n]
    BY <1>1, <1>5 DEF ReadConfigMap, CreateJob, Recheck, SeeJob, JobSeen, WaitTimesOut, CallFails, Cancelled, End, Go,
       TypeOK, runVars
  <2> QED
    BY <1>1, <2>1, <2>2, <2>3
<1> QED
  BY <1>1, <1>2, <1>3, <1>4, <1>5, TargetStep DEF Execute

LEMMA JobsStep == TypeOK /\ ReadOK /\ JobsRan /\ [Next]_vars => JobsRan'
<1> SUFFICES ASSUME TypeOK, ReadOK, JobsRan, [Next]_vars, NEW n \in Nodes
             PROVE  /\ job'[n] # None /\ job'[n].run = "succeeded" => <<n, job'[n].args>> \in ran'
                    /\ jobSeen'[n] # None /\ jobSeen'[n].run = "succeeded" => <<n, jobSeen'[n].args>> \in ran'
  BY DEF JobsRan
<1>1. /\ job[n] # None /\ job[n].run = "succeeded" => <<n, job[n].args>> \in ran
      /\ jobSeen[n] # None /\ jobSeen[n].run = "succeeded" => <<n, jobSeen[n].args>> \in ran
  BY DEF JobsRan
<1>2. ran \subseteq ran'
  BY HistoryStep
<1>3. ASSUME CreateJob(n), job[n] = None PROVE job'[n].run # "succeeded"
  BY <1>3 DEF CreateJob, TypeOK
<1> QED
  BY <1>1, <1>2, <1>3, StoreStep

LEMMA WaitStep == TypeOK /\ WaitOK /\ [Next]_vars => WaitOK'
<1> SUFFICES ASSUME TypeOK, WaitOK, [Next]_vars, NEW n \in Nodes, at'[n] \in Waits, ~unchecked', job'[n] # None
             PROVE  job'[n].args = sum'[n]
  BY DEF WaitOK
<1> USE DEF Waits
<1>0. ~unchecked
  BY HistoryStep
<1>1. CASE at[n] \in Waits
  <2>1. sum'[n] = sum[n]
    <3>1. CASE Start
      BY <3>1 DEF Start
    <3>2. CASE Execute(n)
      BY <1>1, <3>2 DEF Execute, EnsureConfigMap, ReadConfigMap, CreateJob, Recheck, SeeJob, JobSeen, WaitTimesOut,
         CallFails, Cancelled, runVars
    <3> QED
      BY <3>1, <3>2, TargetStep
  <2>2. ~CreateJob(n)
    BY <1>1 DEF CreateJob
  <2> QED
    BY <1>0, <1>1, <2>1, <2>2, StoreStep DEF WaitOK
<1>2. CASE at[n] \notin Waits
  <2>1. CreateJob(n) \/ Recheck(n)
    <3>1. CASE Execute(n)
      BY <1>2, <3>1 DEF Execute, EnsureConfigMap, ReadConfigMap, SeeJob, JobSeen, WaitTimesOut, CallFails,
         Cancelled, End, Go, TypeOK
    <3> QED
      BY <1>2, <3>1, TargetStep DEF Start
  <2>2. CASE CreateJob(n)
    BY <2>2 DEF CreateJob, Go, TypeOK
  <2>3. CASE Recheck(n)
    <3>1. sum'[n] = sum[n] /\ job'[n] = job[n]
      BY <2>3 DEF Recheck, storeVars
    <3>2. ~Unchecked(n)
      <4>1. at'[n] # "done"
        OBVIOUS
      <4>2. unchecked' = (unchecked \/ Unchecked(n))
        BY <2>3, <4>1 DEF Recheck, End, Go, TypeOK
      <4> QED
        BY <4>2
    <3> QED
      BY <3>1, <3>2 DEF Unchecked
  <2> QED
    BY <2>1, <2>2, <2>3
<1> QED
  BY <1>1, <1>2

LEMMA ResStep ==
  ASSUME TypeOK, RunOK, ReadOK, FixedOK, JobsRan, WaitOK, ResOK, [Next]_vars
  PROVE  ResOK'
<1> SUFFICES ASSUME NEW n \in Nodes, res'[n] = "succeeded"
             PROVE  /\ Succeeded(n)'
                    /\ Fresh /\ ~unchecked' => <<n, sum'[n]>> \in ran'
  BY HistoryStep DEF ResOK, Fresh, Mutable, Lag
<1>0. ran \subseteq ran' /\ (unchecked => unchecked')
  BY HistoryStep
<1>1. CASE res[n] = "succeeded" /\ sum'[n] = sum[n]
  BY <1>0, <1>1 DEF ResOK, Succeeded
<1>2. ASSUME Execute(n), ~(res[n] = "succeeded" /\ sum'[n] = sum[n])
      PROVE  JobSeen(n) /\ sum'[n] = sum[n] /\ SeenJob(n) # None /\ SeenJob(n).run = "succeeded"
  <2>1. res[n] = "none"
    BY <1>2 DEF RunOK, Execute, EnsureConfigMap, ReadConfigMap, CreateJob, Recheck, SeeJob, JobSeen, WaitTimesOut,
       CallFails, Cancelled, Waits
  <2>2. JobSeen(n)
    BY <1>2, <2>1 DEF Execute, EnsureConfigMap, ReadConfigMap, CreateJob, Recheck, SeeJob, WaitTimesOut, CallFails,
       Cancelled, End, Go, TypeOK, runVars
  <2> QED
    BY <2>2 DEF JobSeen, End, TypeOK
<1>3. ASSUME JobSeen(n), sum'[n] = sum[n], SeenJob(n) # None, SeenJob(n).run = "succeeded"
      PROVE  /\ Succeeded(n)'
             /\ Fresh /\ ~unchecked' => <<n, sum'[n]>> \in ran'
  <2>1. <<n, SeenJob(n).args>> \in ran /\ SeenJob(n).args \in Versions
    BY <1>3, SeenTypes DEF JobsRan, SeenJob, Jobs
  <2>2. at[n] \in Waits
    BY <1>3 DEF JobSeen
  <2>3. ASSUME Fresh, ~unchecked PROVE SeenJob(n).args = sum[n]
    <3>1. CASE ~Mutable
      <4>1. sum[n] # None
        BY <2>2 DEF ReadOK, HasRead
      <4> QED
        BY <1>3, <3>1, <4>1 DEF FixedOK, Fixed, SeenJob
    <3>2. CASE Mutable
      BY <1>3, <2>2, <2>3, <3>2 DEF Fresh, SeenJob, WaitOK
    <3> QED
      BY <3>1, <3>2
  <2> QED
    BY <1>0, <1>3, <2>1, <2>3 DEF Succeeded
<1> QED
  BY <1>1, <1>2, <1>3, TargetStep DEF Start

LEMMA EntryStep ==
  ASSUME TypeOK, ResOK, EntryOK, [Next]_vars
  PROVE  EntryOK'
<1> SUFFICES ASSUME NEW n \in Nodes, Recorded(n)'
             PROVE  /\ Succeeded(n)'
                    /\ Fresh /\ ~unchecked' => <<n, entry'[n].sum>> \in ran'
  BY HistoryStep DEF EntryOK, Fresh, Mutable, Lag
<1>0. ran \subseteq ran' /\ (unchecked => unchecked')
  BY HistoryStep
<1>1. CASE entry'[n] = entry[n]
  BY <1>0, <1>1 DEF EntryOK, Succeeded, Recorded
<1>2. CASE entry'[n] # entry[n]
  <2>1. entry'[n] = StatusOf(n)
    BY <1>2, RecordStep
  <2>2. res[n] = "succeeded" /\ entry'[n].sum = sum[n]
    <3>1. entry'[n].ok = (res[n] = "succeeded") /\ entry'[n].sum = sum[n]
      BY <2>1 DEF StatusOf
    <3>2. entry'[n].ok
      BY DEF Recorded
    <3> QED
      BY <3>1, <3>2
  <2> QED
    BY <1>0, <2>2 DEF ResOK, Succeeded
<1> QED
  BY <1>1, <1>2

\* The record that does not count stays one as long as the target is not done.
Stale(n) == ~Recorded(n) \/ (Mutable /\ (Lag \/ entry[n].sum # want[n]))

LEMMA NewStep == TypeOK /\ RunOK /\ NewOK /\ [Next]_vars => NewOK'
<1> SUFFICES ASSUME TypeOK, RunOK, NewOK, [Next]_vars, NEW n \in Nodes, at'[n] # "done" \/ n \in left' \cup unsent'
             PROVE  Stale(n)'
  BY DEF NewOK, Stale
<1>0. UNCHANGED <<Mutable, Lag>>
  BY HistoryStep DEF Mutable, Lag
<1>1. CASE Start
  <2>1. ~SkipHook(n)
    BY <1>1 DEF Start, RunOK
  <2>2. entry' = entry /\ want'[n] = Resolved(n)
    BY <1>1 DEF Start, storeVars
  <2>3. Mutable /\ ~Lag => Resolved(n) = args
    BY DEF Resolved
  <2> QED
    BY <1>0, <2>1, <2>2, <2>3 DEF SkipHook, Stale, Recorded
<1>2. CASE ~Start
  <2>1. want'[n] = want[n]
    BY <1>2, TargetStep DEF Execute, EnsureConfigMap, ReadConfigMap, CreateJob, Recheck, SeeJob, JobSeen,
       WaitTimesOut, CallFails, Cancelled, runVars
  <2>2. at'[n] # "done" => at[n] # "done"
    BY <1>2, TargetStep DEF Execute, EnsureConfigMap, ReadConfigMap, CreateJob, Recheck, SeeJob, JobSeen,
       WaitTimesOut, CallFails, Cancelled, runVars, Waits
  <2>3. n \in left' \cup unsent' => n \in left \cup unsent
    BY <1>2 DEF vars, storeVars, runVars, endVars, Next, Run, Execute, EnsureConfigMap, ReadConfigMap, CreateJob,
       Recheck, SeeJob, JobSeen, WaitTimesOut, CallFails, Cancelled, WriteStatus, WriteFails, Finish, Crash,
       Environment, Edit, JobEnds, RemoveJob, DeleteJob, Sync
  <2>4. entry'[n] = entry[n]
    <3> SUFFICES ASSUME entry'[n] # entry[n] PROVE FALSE
      OBVIOUS
    <3>1. AllDone /\ at' = at /\ (n \in left' \cup unsent' => n \in left' \cap unsent)
      BY RecordStep DEF runVars
    <3>2. at[n] = "done"
      BY <3>1 DEF AllDone, RunOK
    <3>3. left' \subseteq left
      BY <3>1 DEF vars, storeVars, runVars, endVars, AllDone, Next, Run, Start, Execute, EnsureConfigMap,
         ReadConfigMap, CreateJob, Recheck, SeeJob, JobSeen, WaitTimesOut, CallFails, Cancelled, WriteStatus,
         WriteFails, Finish, Crash, Environment, Edit, JobEnds, RemoveJob, DeleteJob, Sync
    <3> QED
      BY <3>1, <3>2, <3>3 DEF RunOK
  <2>5. Stale(n)
    BY <2>2, <2>3 DEF NewOK, Stale
  <2> QED
    BY <1>0, <2>1, <2>4, <2>5 DEF Stale, Recorded
<1> QED
  BY <1>1, <1>2

\* What a target has run is not undone.
LEMMA RanKeeps ==
  ASSUME TypeOK, [Next]_vars, NEW n \in Nodes, Ran(n), want'[n] = want[n]
  PROVE  Ran(n)'
<1>1. UNCHANGED <<Mutable, Lag>> /\ ran \subseteq ran' /\ (unchecked => unchecked')
  BY HistoryStep DEF Mutable, Lag
<1> QED
  BY <1>1 DEF Ran, Succeeded

LEMMA SkipStep ==
  ASSUME TypeOK, RunOK, EntryOK, SkipOK, [Next]_vars
  PROVE  SkipOK'
<1> SUFFICES ASSUME pc' = "run", NEW n \in Targets, at'[n] = "done", res'[n] = "none" PROVE Ran(n)'
  BY HistoryStep DEF SkipOK, Targets
<1>0. n \in Nodes
  BY ModeFacts
<1>1. CASE Start
  <2>1. SkipHook(n)
    BY <1>0, <1>1 DEF Start
  <2>2. Succeeded(n) /\ (Fresh /\ ~unchecked => <<n, entry[n].sum>> \in ran)
    BY <1>0, <2>1 DEF EntryOK, SkipHook, Recorded
  <2>3. Mutable /\ ~Lag => entry[n].sum = want'[n]
    BY <1>0, <1>1, <2>1 DEF Start, SkipHook
  <2>4. UNCHANGED <<mode, ran, unchecked>>
    BY <1>1 DEF Start, storeVars
  <2> QED
    BY <2>2, <2>3, <2>4 DEF Ran, Succeeded, Fresh, Mutable, Lag
<1>2. CASE ~Start
  <2>1. pc = "run"
    BY <1>2 DEF vars, storeVars, runVars, endVars, Next, Run, Execute, EnsureConfigMap, ReadConfigMap, CreateJob,
       Recheck, SeeJob, JobSeen, WaitTimesOut, CallFails, Cancelled, WriteStatus, WriteFails, Finish, Crash,
       Environment, Edit, JobEnds, RemoveJob, DeleteJob, Sync
  <2>2. ~Execute(n)
    BY <1>0 DEF Execute, EnsureConfigMap, ReadConfigMap, CreateJob, Recheck, SeeJob, JobSeen, WaitTimesOut, CallFails,
       Cancelled, End, Go, Waits, TypeOK, RunOK
  <2>3. ~Crash
    BY DEF Crash
  <2>4. at[n] = "done" /\ res[n] = "none" /\ want'[n] = want[n]
    BY <1>0, <1>2, <2>2, <2>3, TargetStep
  <2> QED
    BY <1>0, <2>1, <2>4, RanKeeps DEF SkipOK
<1> QED
  BY <1>1, <1>2

\* The reconcile goes past the hook when no target has failed: each was skipped, or
\* has succeeded with the version the reconcile wanted.
LEMMA PassedStep ==
  ASSUME TypeOK, RunOK, WantOK, ResOK, SkipOK, PassedMeansRan, [Next]_vars
  PROVE  PassedMeansRan'
<1> SUFFICES ASSUME passed', NEW n \in Targets PROVE Ran(n)'
  BY HistoryStep DEF PassedMeansRan, Ran, Succeeded, Targets
<1>0. n \in Nodes
  BY ModeFacts
<1>1. CASE Finish
  <2>1. at[n] = "done" /\ res[n] \in {"none", "succeeded"} /\ pc = "run" /\ want'[n] = want[n]
    BY <1>0, <1>1 DEF Finish, AllDone, HookError, TypeOK, runVars
  <2>2. res[n] = "succeeded" => Succeeded(n) /\ (Mutable /\ ~Lag /\ ~unchecked => <<n, want[n]>> \in ran)
    BY <1>0 DEF ResOK, WantOK, Fresh
  <2>3. Ran(n)
    BY <2>1, <2>2 DEF Ran, SkipOK
  <2> QED
    BY <1>0, <2>1, <2>3, RanKeeps
<1>2. CASE ~Finish
  <2>1. passed /\ ~Start
    BY <1>2 DEF vars, storeVars, runVars, endVars, Next, Run, Start, Execute, EnsureConfigMap, ReadConfigMap,
       CreateJob, Recheck, SeeJob, JobSeen, WaitTimesOut, CallFails, Cancelled, WriteStatus, WriteFails, Crash,
       Environment, Edit, JobEnds, RemoveJob, DeleteJob, Sync
  <2>2. want'[n] = want[n]
    BY <1>0, <2>1, TargetStep DEF Execute, EnsureConfigMap, ReadConfigMap, CreateJob, Recheck, SeeJob, JobSeen,
       WaitTimesOut, CallFails, Cancelled, runVars
  <2>3. Ran(n)
    BY <2>1 DEF PassedMeansRan, Ran, Succeeded
  <2> QED
    BY <1>0, <2>2, <2>3, RanKeeps
<1> QED
  BY <1>1, <1>2

LEMMA HookJobInit == Init => HookJobInv
<1> SUFFICES ASSUME Init PROVE HookJobInv
  OBVIOUS
<1>1. TypeOK
  BY HookTypeInit
<1>2. /\ \A n \in Nodes : at[n] = "done" /\ res[n] = "none" /\ entry[n] = None /\ job[n] = None /\ jobSeen[n] = None
                          /\ cm[n] = None /\ cmSeen[n] = None /\ sum[n] = None
      /\ pc = "idle" /\ left = {} /\ unsent = {} /\ passed = FALSE /\ ran = {}
  BY DEF Init
<1> QED
  BY <1>1, <1>2 DEF HookJobInv, RunOK, ReadOK, FixedOK, Fixed, WantOK, JobsRan, WaitOK, ResOK, EntryOK, NewOK, SkipOK,
     PassedMeansRan, HasRead, Waits, Recorded

LEMMA HookJobStep == HookJobInv /\ [Next]_vars => HookJobInv'
BY HookTypeStep, RunStep, ReadStep, FixedStep, WantStep, JobsStep, WaitStep, ResStep, EntryStep, NewStep, SkipStep,
   PassedStep DEF HookJobInv

LEMMA HookJobInvariant == Spec => []HookJobInv
BY HookJobInit, HookJobStep, PTL DEF Spec

-----------------------------------------------------------------------------
(* What follows from it.                                                    *)

\* Every Job of a hook that is not mutable carries the version its ConfigMap has had
\* from the start, so that is the only one that can succeed on a target.
THEOREM SingleVersion == Spec => []OneVersion
<1>1. HookJobInv => OneVersion
  <2> SUFFICES ASSUME HookJobInv, ~Mutable, NEW n \in Nodes
               PROVE  Cardinality({v \in Versions : <<n, v>> \in ran}) <= 1
    BY DEF OneVersion
  <2> DEFINE S == {v \in Versions : <<n, v>> \in ran}
  <2>1. \A v \in S : v = cm[n]
    BY DEF HookJobInv, FixedOK, Fixed
  <2>2. S = {} \/ S = {cm[n]}
    BY <2>1
  <2> HIDE DEF S
  <2>3. Cardinality(S) \in {0, 1}
    BY <2>2, FS_EmptySet, FS_Singleton
  <2> QED
    BY <2>3 DEF S
<1> QED
  BY <1>1, HookJobInvariant, PTL

\* A record of success is that of a Job that succeeded with the recorded version.
THEOREM RecordsTrue == Spec => []RecordedRan
<1>1. HookJobInv => RecordedRan
  BY DEF HookJobInv, EntryOK, RecordedRan, Fresh
<1> QED
  BY <1>1, HookJobInvariant, PTL

\* The restore goes past the hook only when it has run for every target.
THEOREM PassedRan == Spec => []PassedMeansRan
<1>1. HookJobInv => PassedMeansRan
  BY DEF HookJobInv
<1> QED
  BY <1>1, HookJobInvariant, PTL

\* A recorded version gets no new Job: a target at CreateJob has no record that
\* counts, and makes a Job of the version the reconcile wants.
THEOREM NoRerun == Spec => RecordedNotRerun
<1>1. ASSUME HookJobInv, [Next]_vars, NEW n \in Nodes, Recorded(n), job[n] = None, job'[n] # None, ~(Mutable /\ Lag)
      PROVE  job'[n].args # entry[n].sum
  <2>1. CreateJob(n)
    BY <1>1, StoreStep DEF HookJobInv
  <2>2. at[n] = "create" /\ job'[n].args = sum[n]
    <3>1. at[n] = "create" /\ job' = [job EXCEPT ![n] = [args |-> sum[n], run |-> "active"]]
      BY <1>1, <2>1 DEF CreateJob
    <3>2. job \in [Nodes -> Jobs \cup {None}]
      BY <1>1 DEF HookJobInv, TypeOK
    <3> QED
      BY <3>1, <3>2
  <2>3. Mutable /\ entry[n].sum # want[n]
    BY <1>1, <2>2 DEF HookJobInv, NewOK
  <2>4. sum[n] = want[n]
    BY <1>1, <2>2, <2>3 DEF HookJobInv, WantOK, HasRead
  <2> QED
    BY <2>2, <2>3, <2>4
<1>2. HookJobInv /\ [Next]_vars =>
         [\A n \in Nodes : Recorded(n) /\ job[n] = None /\ job'[n] # None /\ ~(Mutable /\ Lag)
                              => job'[n].args # entry[n].sum]_vars
  BY <1>1
<1> QED
  BY <1>2, HookJobInvariant, PTL DEF RecordedNotRerun, Spec

-----------------------------------------------------------------------------
(* A hook that is not mutable leads the life HookLife describes.            *)

LTargets  == IF Mutable THEN {} ELSE Targets
LExecuted == IF Mutable THEN {} ELSE {n \in Targets : Succeeded(n)}
LRecorded == IF Mutable THEN {} ELSE {n \in Targets : Recorded(n)}

\* A step of the hook seen as one of its life.
LEMMA HookLifeStep ==
  ASSUME HookJobInv, HookJobInv', [Next]_vars
  PROVE  /\ LTargets' = LTargets
         /\ \/ LExecuted' = LExecuted /\ LRecorded' = LRecorded /\ (passed' = passed \/ passed' = FALSE)
            \/ LExecuted' = LExecuted /\ passed' = passed
               /\ \E ts \in SUBSET LTargets : LRecorded' = LRecorded \cup (ts \cap LExecuted)
            \/ LExecuted' = LTargets /\ LExecuted = LTargets /\ passed' = TRUE
               /\ \E ts \in SUBSET LTargets : LRecorded' = LRecorded \cup ts
            \/ \E n \in LTargets : LExecuted' = LExecuted \cup {n} /\ LRecorded' = LRecorded /\ passed' = passed
<1>0. /\ UNCHANGED <<mode, Mutable, Targets>> /\ ran \subseteq ran' /\ Targets \subseteq Nodes
  BY HistoryStep, ModeFacts DEF HookJobInv, Mutable, Targets
<1>1. LTargets' = LTargets
  BY <1>0 DEF LTargets
<1>2. ASSUME UNCHANGED ran PROVE LExecuted' = LExecuted
  BY <1>0, <1>2 DEF LExecuted, Succeeded
<1>3. ASSUME UNCHANGED entry PROVE LRecorded' = LRecorded
  BY <1>0, <1>3 DEF LRecorded, Recorded
<1>4. CASE UNCHANGED <<ran, entry>> /\ (passed' = passed \/ passed' = FALSE)
  BY <1>1, <1>2, <1>3, <1>4
<1>5. ASSUME entry' # entry, UNCHANGED ran
      PROVE  LExecuted' = LExecuted /\ \E ts \in SUBSET LTargets : LRecorded' = LRecorded \cup (ts \cap LExecuted)
  <2>1. CASE Mutable
    BY <1>0, <1>2, <1>5, <2>1 DEF LRecorded, LExecuted, LTargets
  <2>2. CASE ~Mutable
    <3>1. \A n \in Targets : Recorded(n) => entry'[n] = entry[n]
      <4> SUFFICES ASSUME NEW n \in Targets, Recorded(n), entry'[n] # entry[n] PROVE FALSE
        OBVIOUS
      <4>1. n \in left \cup unsent
        BY <1>0, RecordStep DEF HookJobInv
      <4> QED
        BY <1>0, <2>2, <4>1 DEF HookJobInv, NewOK
    <3>2. \A n \in Targets : Recorded(n)' => Succeeded(n)
      BY <1>0, <1>5 DEF HookJobInv, EntryOK, Succeeded
    <3>3. LRecorded' = LRecorded \cup (LRecorded' \cap LExecuted) /\ LRecorded' \in SUBSET LTargets
      BY <1>0, <2>2, <3>1, <3>2 DEF LRecorded, LExecuted, LTargets, Recorded
    <3> QED
      BY <1>2, <1>5, <3>3
  <2> QED
    BY <2>1, <2>2
<1>6. CASE \E n \in Nodes : WriteStatus(n)
  <2>1. UNCHANGED <<ran, passed>>
    BY <1>6 DEF WriteStatus
  <2> QED
    BY <1>1, <1>4, <1>5, <2>1
<1>7. CASE Finish
  <2>1. UNCHANGED ran /\ passed' = ~HookError /\ passed' \in BOOLEAN /\ (HookError => entry' = entry)
    BY <1>7 DEF Finish
  <2>2. CASE passed' = FALSE
    BY <1>4, <2>1, <2>2
  <2>3. CASE passed' = TRUE
    <3>1. LExecuted' = LTargets
      <4>1. ~Mutable => \A n \in Targets : \E v \in Versions : <<n, v>> \in ran'
        <5>1. PassedMeansRan'
          BY DEF HookJobInv
        <5> QED
          BY <1>0, <2>3, <5>1 DEF PassedMeansRan
      <4>2. ~Mutable => \A n \in Targets : Succeeded(n)'
        BY <4>1 DEF Succeeded
      <4> QED
        BY <1>0, <4>2 DEF LExecuted, LTargets
    <3>2. \E ts \in SUBSET LTargets : LRecorded' = LRecorded \cup ts
      <4>1. CASE UNCHANGED entry
        <5>1. LRecorded' = LRecorded \cup {} /\ {} \in SUBSET LTargets
          BY <1>3, <4>1
        <5> QED
          BY <5>1
      <4>2. CASE entry' # entry
        BY <1>5, <2>1, <4>2 DEF LExecuted, LTargets
      <4> QED
        BY <4>1, <4>2
    <3> QED
      BY <1>1, <1>2, <2>1, <2>3, <3>1, <3>2
  <2> QED
    BY <2>1, <2>2, <2>3
<1>8. ASSUME NEW n \in Nodes, JobEnds(n)
      PROVE  /\ LRecorded' = LRecorded /\ passed' = passed
             /\ LExecuted' = LExecuted \/ \E m \in LTargets : LExecuted' = LExecuted \cup {m}
  <2>1. UNCHANGED <<entry, passed>> /\ (ran' = ran \/ ran' = ran \cup {<<n, job[n].args>>})
    BY <1>8 DEF JobEnds, endVars
  <2>2. job[n].args \in Versions
    BY <1>8, ModeFacts DEF JobEnds, HookJobInv, TypeOK, Jobs
  <2>3. CASE ran' = ran \cup {<<n, job[n].args>>} /\ ~Mutable /\ n \in Targets
    <3>1. \A m \in Targets : Succeeded(m)' <=> Succeeded(m) \/ m = n
      BY <2>2, <2>3 DEF Succeeded
    <3> QED
      BY <1>0, <1>3, <2>1, <2>3, <3>1 DEF LExecuted, LTargets
  <2>4. CASE ran' = ran
    BY <1>2, <1>3, <2>1, <2>4
  <2>5. CASE Mutable
    BY <1>0, <1>3, <2>1, <2>5 DEF LExecuted
  <2>6. CASE ran' = ran \cup {<<n, job[n].args>>} /\ n \notin Targets
    <3>1. \A m \in Targets : \A v \in Versions : <<m, v>> \in ran' => <<m, v>> \in ran
      BY <2>6
    <3> QED
      BY <1>0, <1>3, <2>1, <3>1 DEF LExecuted, Succeeded
  <2> QED
    BY <1>3, <2>1, <2>3, <2>4, <2>5, <2>6
<1>9. \/ UNCHANGED <<ran, entry>> /\ (passed' = passed \/ passed' = FALSE)
      \/ Finish \/ \E n \in Nodes : WriteStatus(n) \/ JobEnds(n)
  BY DEF vars, storeVars, runVars, endVars, Next, Run, Start, Execute, EnsureConfigMap, ReadConfigMap,
     CreateJob, Recheck, SeeJob, JobSeen, WaitTimesOut, CallFails, Cancelled, WriteFails, Crash,
     Environment, Edit, RemoveJob, DeleteJob, Sync
<1> QED
  BY <1>1, <1>4, <1>6, <1>7, <1>8, <1>9

\* RunHooks and the status it writes keep what HookLife promises of a hook whose
\* command does not change.
THEOREM HookLifeImplemented == Spec => ImplementsHookLife
<1>1. Init => Life!Init
  <2>1. Init => LTargets \subseteq Nodes /\ LExecuted = {} /\ LRecorded = {} /\ passed = FALSE
    BY HookTypeInit, ModeFacts DEF Init, LTargets, LExecuted, LRecorded, Succeeded, Recorded
  <2> QED
    BY <2>1 DEF Life!Init, LTargets, LExecuted, LRecorded, Succeeded
<1>2. HookJobInv /\ HookJobInv' /\ [Next]_vars => [Life!Next]_(Life!lifeVars)
  <2> SUFFICES ASSUME HookJobInv, HookJobInv', [Next]_vars PROVE Life!Next \/ UNCHANGED Life!lifeVars
    OBVIOUS
  <2> QED
    BY HookLifeStep DEF Life!Next, Life!lifeVars, Life!Execute, Life!Record, Life!Pass, Life!Again, LTargets,
       LExecuted, LRecorded, Succeeded
<1> QED
  BY <1>1, <1>2, HookJobInvariant, PTL DEF Spec, ImplementsHookLife, Life!Spec
=============================================================================
