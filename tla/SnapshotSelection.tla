-------------------------- MODULE SnapshotSelection --------------------------
(***************************************************************************)
(* Which VolumeSnapshots a plan without snapshotRestoreTime is restored    *)
(* from.  The operator finds them by their names alone, of the form        *)
(* claim-plan-time, in two passes of list calls over the clusters of the   *)
(* plan, while SnapScheduler goes on taking snapshots.                     *)
(*                                                                         *)
(* A name is the sequence of the words between its dashes and a word is a  *)
(* number, times being the small ones.  Strings compare as these sequences *)
(* do: a dash comes before letters and digits, digits before letters.      *)
(***************************************************************************)
EXTENDS Naturals, SequencesExt

CONSTANTS
    ClaimName,  \* claim -> its name
    PlanName,   \* the name of the plan
    Schedules,  \* name of a SnapshotSchedule of the namespace -> the claims it selects
    Clusters,   \* plan.Clusters: a sequence of sets of claims
    Keep,       \* the number of times whose snapshots retention keeps
    MaxTime     \* bound: snapshots are taken at times 1..MaxTime

Claims == DOMAIN ClaimName
Times  == 1 .. MaxTime
Words  == Seq(Nat)

ASSUME SelectionConstantsOK ==
    /\ IsFiniteSet(Claims) /\ \A c \in Claims : ClaimName[c] \in Words
    /\ PlanName \in Words /\ PlanName \in DOMAIN Schedules
    /\ \A s \in DOMAIN Schedules : s \in Words /\ Schedules[s] \subseteq Claims
    /\ Clusters \in Seq(SUBSET Claims) /\ Clusters # <<>>
    /\ Keep \in Nat \ {0} /\ MaxTime \in Nat \ {0}

\* A VolumeSnapshot: the claim and the schedule it comes from, its label
\* snapscheduler.backube/when, and status.readyToUse.
Snapshots == [of : Claims, by : DOMAIN Schedules, when : Times, ready : BOOLEAN]

NameOf(vs) == ClaimName[vs.of] \o vs.by \o <<vs.when>>

VARIABLES
    snaps,    \* the snapshots of the namespace
    now,      \* the time they are being taken for
    pc,       \* where ValidateListSnapshots stands
    todo,     \* the clusters it has not seen in this pass
    latest,   \* latestTime, the empty sequence when there is none
    refs,     \* SnapshotsRef of the clusters: pairs of a claim and a snapshot
    began     \* the plan's snapshots when the validation began: pairs of a claim and a time

schedVars == <<snaps, now>>
planVars  == <<pc, todo, latest, refs, began>>
vars      == <<schedVars, planVars>>

TypeOK ==
    /\ snaps \subseteq Snapshots
    /\ now \in Times /\ began \subseteq Claims \X Times
    /\ pc \in {"idle", "latest", "validate", "validated"}
    /\ \E i \in 1 .. Len(Clusters) + 1 : todo = SubSeq(Clusters, i, Len(Clusters))
    /\ latest \in Words
    /\ refs \subseteq Claims \X Snapshots
    /\ pc = "idle" => latest = <<>> /\ refs = {}

Init ==
    /\ snaps = {} /\ now = 1
    /\ pc = "idle" /\ todo = <<>> /\ latest = <<>> /\ refs = {} /\ began = {}

-----------------------------------------------------------------------------
(* The names.                                                              *)

\* The order of Go's strings.
Less(u, v) ==
    \/ IsStrictPrefix(u, v)
    \/ \E k \in DOMAIN u \cap DOMAIN v :
          u[k] < v[k] /\ \A j \in 1 .. k - 1 : u[j] = v[j]

\* (A variant without the name of the plan.)
PrefixOfClaim(c) == ClaimName[c]

Prefix(c) == ClaimName[c] \o PlanName

Rest(c, vs) == SubSeq(NameOf(vs), Len(Prefix(c)) + 1, Len(NameOf(vs)))

\* What remains of the names of snapshots that begin with the name of a claim
\* of the cluster and that of the plan.
Whens(cluster) ==
    {Rest(p[1], p[2]) :
        p \in {p \in cluster \X snaps : IsStrictPrefix(Prefix(p[1]), NameOf(p[2]))}}

\* (A variant in which each cluster overwrites the time of those before it.)
LaterLast(u, cluster) == CHOOSE w \in Whens(cluster) : \A v \in Whens(cluster) : ~Less(w, v)

Later(u, cluster) ==
    CHOOSE w \in Whens(cluster) \cup {u} : \A v \in Whens(cluster) \cup {u} : ~Less(w, v)

\* validateSnapshotTime: YYYYMMDDHHMM and nothing else.
IsTime(w) == Len(w) = 1 /\ w[1] \in Times

\* (A variant that leaves the plan out of the name.)
MatchesClaim(c, vs) == IsPrefix(ClaimName[c], NameOf(vs)) /\ latest = <<vs.when>>

\* Label and name.
Matches(c, vs) == latest = <<vs.when>> /\ NameOf(vs) = Prefix(c) \o latest

RefsIn(cluster) == {r \in cluster \X snaps : Matches(r[1], r[2])}

-----------------------------------------------------------------------------
(* ValidateListSnapshots.                                                  *)

\* The snapshots of the plan's schedule.
Own == {<<vs.of, vs.when>> : vs \in {vs \in snaps : vs.by = PlanName}}

\* (A variant that keeps the time that was found.)
FailKeepsTime == pc' = "idle" /\ todo' = <<>> /\ refs' = {} /\ began' = {} /\ UNCHANGED latest

\* failPlan: the error ends the reconcile, which begins again.
Fail == pc' = "idle" /\ todo' = <<>> /\ latest' = <<>> /\ refs' = {} /\ began' = {}

Begin ==
    /\ pc = "idle"
    /\ pc' = "latest" /\ todo' = Clusters /\ began' = Own
    /\ UNCHANGED <<schedVars, latest, refs>>

\* findLatestSnapshotTime, one cluster.
FindLatest ==
    /\ pc = "latest" /\ todo # <<>>
    /\ IF Whens(Head(todo)) = {} THEN Fail
       ELSE /\ latest' = Later(latest, Head(todo))
            /\ todo' = Tail(todo)
            /\ UNCHANGED <<pc, refs, began>>
    /\ UNCHANGED schedVars

CheckTime ==
    /\ pc = "latest" /\ todo = <<>>
    /\ IF IsTime(latest) THEN /\ pc' = "validate" /\ todo' = Clusters
                              /\ UNCHANGED <<latest, refs, began>>
                         ELSE Fail
    /\ UNCHANGED schedVars

AllReady(rs) == \A r \in rs : r[2].ready

\* validateSnapshot, one cluster.
ValidateSnapshot ==
    /\ pc = "validate" /\ todo # <<>>
    /\ LET rs == RefsIn(Head(todo)) IN
       IF rs = {} \/ ~AllReady(rs) THEN Fail
       ELSE /\ refs' = refs \cup rs
            /\ todo' = Tail(todo)
            /\ UNCHANGED <<pc, latest, began>>
    /\ UNCHANGED schedVars

SetValidateRestorePlan ==
    /\ pc = "validate" /\ todo = <<>>
    /\ pc' = "validated"
    /\ UNCHANGED <<schedVars, todo, latest, refs, began>>

-----------------------------------------------------------------------------
(* SnapScheduler.                                                          *)

Taken(c, s, t) == \E vs \in snaps : vs.of = c /\ vs.by = s /\ vs.when = t

\* A schedule takes the snapshots of its claims one after the other.
TakeSnapshot(c, s) ==
    /\ ~Taken(c, s, now)
    /\ snaps' = snaps \cup {[of |-> c, by |-> s, when |-> now, ready |-> FALSE]}
    /\ UNCHANGED <<now, planVars>>

SnapshotReady(vs) ==
    /\ ~vs.ready
    /\ snaps' = (snaps \ {vs}) \cup {[vs EXCEPT !.ready = TRUE]}
    /\ UNCHANGED <<now, planVars>>

\* Retention.
Expire(vs) ==
    /\ vs.when + Keep <= now
    /\ snaps' = snaps \ {vs}
    /\ UNCHANGED <<now, planVars>>

NextTime ==
    /\ now < MaxTime
    /\ \A s \in DOMAIN Schedules : \A c \in Schedules[s] : Taken(c, s, now)
    /\ now' = now + 1
    /\ UNCHANGED <<snaps, planVars>>

-----------------------------------------------------------------------------
Validate == Begin \/ FindLatest \/ CheckTime \/ ValidateSnapshot \/ SetValidateRestorePlan

SnapScheduler ==
    \/ \E s \in DOMAIN Schedules : \E c \in Schedules[s] : TakeSnapshot(c, s)
    \/ \E vs \in snaps : SnapshotReady(vs) \/ Expire(vs)
    \/ NextTime

Next == Validate \/ SnapScheduler

Spec == Init /\ [][Next]_vars

\* The reconcile goes on and is retried; snapshots are taken and get ready.
FairSpec ==
    /\ Spec
    /\ WF_vars(Validate)
    /\ WF_vars(\E s \in DOMAIN Schedules : \E c \in Schedules[s] : TakeSnapshot(c, s))
    /\ WF_vars(\E vs \in snaps : SnapshotReady(vs))

-----------------------------------------------------------------------------
(* Properties.                                                             *)

\* Whatever is taken or removed between the list calls, a validated plan refers,
\* for each of its clusters, to snapshots of its own claims and its own schedule,
\* all of one time and ready.
\* (validateSnapshot matches names and never reads spec.source.)
RefsRight ==
    pc = "validated" =>
        /\ \A i \in DOMAIN Clusters : \E r \in refs : r[1] \in Clusters[i]
        /\ \A r \in refs : r[2].of = r[1] /\ r[2].by = PlanName
        /\ \A r \in refs : r[2].ready /\ <<r[2].when>> = latest

\* The restore point is not older than any snapshot of the plan's claims that was there
\* when the validation started and still is.
\* (findLatestSnapshotTime: the latest of all clusters.)
NotOlder ==
    pc = "validated" =>
        \A vs \in snaps : vs.by = PlanName /\ <<vs.of, vs.when>> \in began
            /\ (\E i \in DOMAIN Clusters : vs.of \in Clusters[i]) => ~Less(latest, <<vs.when>>)

\* From a time on, the claims of every cluster have ready snapshots of one time.
CommonTime ==
    \E t \in Times : \A i \in DOMAIN Clusters : \A c \in Clusters[i] :
        \E vs \in snaps : vs.of = c /\ vs.by = PlanName /\ vs.when = t /\ vs.ready

\* If every claim of the plan keeps a ready snapshot of one and the same time, the
\* plan is validated at last.
\* (README: "automatic selection of the latest available snapshot".)
CommonTimeSuffices == <>[]CommonTime => <>(pc = "validated")
=============================================================================
