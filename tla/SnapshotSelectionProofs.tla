---------------------- MODULE SnapshotSelectionProofs ----------------------
(* Proofs about SnapshotSelection: what a plan refers to, and of which time. *)
EXTENDS SnapshotSelection, Minima, SequenceTheorems

-----------------------------------------------------------------------------
(* The order of the names.                                                    *)

LEMMA WordFacts ==
  ASSUME NEW u \in Words
  PROVE  Len(u) \in Nat /\ DOMAIN u = 1 .. Len(u) /\ \A i \in 1 .. Len(u) : u[i] \in Nat
BY LenProperties, ElementOfSeq DEF Words

LEMMA SameWord ==
  ASSUME NEW u \in Words, NEW v \in Words, Len(u) = Len(v), \A i \in 1 .. Len(u) : u[i] = v[i]
  PROVE  u = v
BY SeqEqual DEF Words

\* Less, by the place where two names differ, or the end of the shorter one.
Shorter(u, v)   == Len(u) < Len(v) /\ \A i \in 1 .. Len(u) : u[i] = v[i]
Differ(u, v, k) == k \in 1 .. Len(u) /\ k <= Len(v) /\ u[k] < v[k] /\ \A j \in 1 .. k - 1 : u[j] = v[j]

LEMMA StrictPrefix ==
  ASSUME NEW u \in Words, NEW v \in Words
  PROVE  IsStrictPrefix(u, v) <=> Shorter(u, v)
<1>1. IsStrictPrefix(u, v) => Shorter(u, v)
  <2> SUFFICES ASSUME IsStrictPrefix(u, v) PROVE Shorter(u, v)
    OBVIOUS
  <2>1. Len(u) <= Len(v) /\ \A i \in 1 .. Len(u) : u[i] = v[i]
    BY DEF Words, IsStrictPrefix, IsPrefix
  <2>2. u # v
    BY DEF IsStrictPrefix
  <2> QED
    BY <2>1, <2>2, SameWord, WordFacts DEF Shorter
<1>2. Shorter(u, v) => IsStrictPrefix(u, v)
  BY DEF Words, IsStrictPrefix, IsPrefix, Shorter
<1> QED
  BY <1>1, <1>2

LEMMA LessWhere ==
  ASSUME NEW u \in Words, NEW v \in Words
  PROVE  Less(u, v) <=> Shorter(u, v) \/ \E k \in Nat : Differ(u, v, k)
<1>1. DOMAIN u \cap DOMAIN v = {k \in 1 .. Len(u) : k <= Len(v)} /\ 1 .. Len(u) \subseteq Nat
  BY WordFacts
<1>2. (\E k \in DOMAIN u \cap DOMAIN v : u[k] < v[k] /\ \A j \in 1 .. k - 1 : u[j] = v[j])
         <=> \E k \in Nat : Differ(u, v, k)
  BY <1>1 DEF Differ
<1> QED
  BY <1>2, StrictPrefix DEF Less

LEMMA LessIrreflexive ==
  ASSUME NEW u \in Words
  PROVE  ~Less(u, u)
BY LessWhere, WordFacts DEF Shorter, Differ

LEMMA DifferBefore ==
  ASSUME NEW u \in Words, NEW v \in Words, NEW w \in Words, NEW k \in Nat
  PROVE  /\ Differ(u, v, k) /\ Shorter(v, w) => Differ(u, w, k)
         /\ Shorter(u, v) /\ Differ(v, w, k) => IF k <= Len(u) THEN Differ(u, w, k) ELSE Shorter(u, w)
<1>1. /\ Len(u) \in Nat /\ Len(v) \in Nat /\ Len(w) \in Nat /\ \A i \in 1 .. Len(u) : u[i] \in Nat
      /\ \A i \in 1 .. Len(v) : v[i] \in Nat
  BY WordFacts
<1>2. ASSUME Differ(u, v, k), Shorter(v, w) PROVE Differ(u, w, k)
  <2>1. k \in 1 .. Len(u) /\ k <= Len(v) /\ u[k] < v[k] /\ Len(v) < Len(w) /\ k \in 1 .. Len(v) /\ v[k] = w[k]
    BY <1>1, <1>2 DEF Differ, Shorter
  <2>2. ASSUME NEW j \in 1 .. k - 1 PROVE u[j] = w[j]
    BY <1>1, <1>2, <2>1 DEF Differ, Shorter
  <2> QED
    BY <1>1, <2>1, <2>2 DEF Differ
<1>3. ASSUME Shorter(u, v), Differ(v, w, k), k <= Len(u) PROVE Differ(u, w, k)
  <2>1. k \in 1 .. Len(u) /\ k <= Len(w) /\ u[k] = v[k] /\ v[k] < w[k]
    BY <1>1, <1>3 DEF Differ, Shorter
  <2>2. ASSUME NEW j \in 1 .. k - 1 PROVE u[j] = w[j]
    BY <1>1, <1>3, <2>1 DEF Differ, Shorter
  <2> QED
    BY <1>1, <2>1, <2>2 DEF Differ
<1>4. ASSUME Shorter(u, v), Differ(v, w, k), ~(k <= Len(u)) PROVE Shorter(u, w)
  <2>1. Len(u) < k /\ k <= Len(w)
    BY <1>1, <1>4 DEF Differ
  <2>2. ASSUME NEW i \in 1 .. Len(u) PROVE u[i] = w[i]
    <3>1. i \in 1 .. k - 1 /\ u[i] = v[i]
      BY <1>1, <1>4, <2>1 DEF Shorter
    <3> QED
      BY <1>4, <3>1 DEF Differ
  <2> QED
    BY <1>1, <2>1, <2>2 DEF Shorter
<1> QED
  BY <1>2, <1>3, <1>4

LEMMA LessTransitive ==
  ASSUME NEW u \in Words, NEW v \in Words, NEW w \in Words, Less(u, v), Less(v, w)
  PROVE  Less(u, w)
<1>1. /\ Len(u) \in Nat /\ Len(v) \in Nat /\ Len(w) \in Nat /\ \A i \in 1 .. Len(u) : u[i] \in Nat
      /\ (\A i \in 1 .. Len(v) : v[i] \in Nat) /\ \A i \in 1 .. Len(w) : w[i] \in Nat
  BY WordFacts
<1>2. CASE Shorter(u, v) /\ Shorter(v, w)
  <2>1. Shorter(u, w)
    BY <1>1, <1>2 DEF Shorter
  <2> QED
    BY <2>1, LessWhere
<1>3. ASSUME NEW k \in Nat, NEW l \in Nat, Differ(u, v, k), Differ(v, w, l) PROVE Less(u, w)
  <2>1. CASE k <= l
    <3>1. /\ k \in 1 .. Len(u) /\ k <= Len(w) /\ u[k] < v[k] /\ v[k] <= w[k]
          /\ \A j \in 1 .. k - 1 : u[j] = v[j] /\ v[j] = w[j]
      BY <1>1, <1>3, <2>1 DEF Differ
    <3>2. u[k] \in Nat /\ v[k] \in Nat /\ w[k] \in Nat
      BY <1>1, <1>3, <3>1 DEF Differ
    <3>3. Differ(u, w, k)
      BY <3>1, <3>2 DEF Differ
    <3> QED
      BY <3>3, LessWhere
  <2>2. CASE l < k
    <3>1. /\ l \in 1 .. Len(u) /\ l <= Len(w) /\ u[l] = v[l] /\ v[l] < w[l]
          /\ \A j \in 1 .. l - 1 : u[j] = v[j] /\ v[j] = w[j]
      BY <1>1, <1>3, <2>2 DEF Differ
    <3>2. Differ(u, w, l)
      BY <3>1 DEF Differ
    <3> QED
      BY <3>2, LessWhere
  <2> QED
    BY <2>1, <2>2
<1>4. ASSUME NEW k \in Nat, Differ(u, v, k), Shorter(v, w) PROVE Less(u, w)
  BY <1>4, DifferBefore, LessWhere
<1>5. ASSUME NEW k \in Nat, Shorter(u, v), Differ(v, w, k) PROVE Less(u, w)
  BY <1>5, DifferBefore, LessWhere
<1> QED
  BY <1>2, <1>3, <1>4, <1>5, LessWhere

LEMMA LessTotal ==
  ASSUME NEW u \in Words, NEW v \in Words, u # v
  PROVE  Less(u, v) \/ Less(v, u)
<1>1. Len(u) \in Nat /\ Len(v) \in Nat /\ (\A i \in 1 .. Len(u) : u[i] \in Nat) /\ \A i \in 1 .. Len(v) : v[i] \in Nat
  BY WordFacts
<1> DEFINE D == {k \in 1 .. Len(u) : k <= Len(v) /\ u[k] # v[k]}
<1>2. D \in SUBSET Nat
  BY <1>1
<1>3. CASE D = {}
  <2>1. \A i \in 1 .. Len(u) : i <= Len(v) => u[i] = v[i]
    BY <1>3
  <2>2. Len(u) # Len(v)
    BY <1>1, <2>1, SameWord
  <2>3. CASE Len(u) < Len(v)
    <3>1. Shorter(u, v)
      BY <1>1, <2>1, <2>3 DEF Shorter
    <3> QED
      BY <3>1, LessWhere
  <2>4. CASE Len(v) < Len(u)
    <3>1. Shorter(v, u)
      BY <1>1, <2>1, <2>4 DEF Shorter
    <3> QED
      BY <3>1, LessWhere
  <2> QED
    BY <1>1, <2>2, <2>3, <2>4
<1>4. CASE D # {}
  <2>1. PICK k \in D : \A j \in D : k <= j
    <3> HIDE DEF D
    <3> QED
      BY <1>2, <1>4, LeastNatural
  <2>2. k \in 1 .. Len(u) /\ k \in 1 .. Len(v) /\ u[k] # v[k] /\ u[k] \in Nat /\ v[k] \in Nat /\ k \in Nat
    BY <1>1, <2>1
  <2>3. ASSUME NEW j \in 1 .. k - 1 PROVE u[j] = v[j]
    <3>1. j \notin D /\ j \in 1 .. Len(u) /\ j <= Len(v)
      BY <1>1, <2>1, <2>2
    <3> QED
      BY <3>1
  <2>4. Differ(u, v, k) \/ Differ(v, u, k)
    BY <1>1, <2>2, <2>3 DEF Differ
  <2> QED
    BY <2>2, <2>4, LessWhere
<1> QED
  BY <1>3, <1>4

\* A finite set of names has a greatest one.
LEMMA Greatest ==
  ASSUME NEW S, S \subseteq Words, IsFiniteSet(S), S # {}
  PROVE  \E w \in S : \A v \in S : ~Less(w, v)
<1> DEFINE Above(w) == {v \in S : Less(w, v)}
           T == {Above(w) : w \in S}
<1>1. T \in SUBSET FiniteSubsetsOf(S) /\ T # {}
  <2>1. ASSUME NEW w \in S PROVE Above(w) \in FiniteSubsetsOf(S)
    <3>1. Above(w) \in SUBSET S
      OBVIOUS
    <3> QED
      BY <3>1, FS_Subset DEF FiniteSubsetsOf
  <2> QED
    BY <2>1
<1>3. \E t \in T : \A u \in T : u \subseteq t => u = t
  <2> HIDE DEF T
  <2> QED
    BY <1>1, SmallestSubset
<1>4. PICK w \in S : \A v \in S : Above(v) \subseteq Above(w) => Above(v) = Above(w)
  <2> HIDE DEF Above
  <2> QED
    BY <1>3
<1>5. ASSUME NEW v \in S, Less(w, v) PROVE FALSE
  <2>1. Above(v) \subseteq Above(w)
    BY <1>5, LessTransitive
  <2>2. Above(v) = Above(w)
    BY <1>4, <2>1
  <2> QED
    BY <1>5, <2>2, LessIrreflexive
<1> QED
  BY <1>5

-----------------------------------------------------------------------------
(* The names of snapshots, and the latest time among them.                    *)

LEMMA SelectionConstants ==
  /\ IsFiniteSet(Claims) /\ (\A c \in Claims : ClaimName[c] \in Words)
  /\ PlanName \in Words /\ PlanName \in DOMAIN Schedules
  /\ \A s \in DOMAIN Schedules : s \in Words /\ Schedules[s] \subseteq Claims
  /\ Clusters \in Seq(SUBSET Claims) /\ Len(Clusters) \in Nat /\ Times \subseteq Nat
  /\ \A i \in 1 .. Len(Clusters) : Clusters[i] \subseteq Claims
<1>1. Clusters \in Seq(SUBSET Claims)
  BY SelectionConstantsOK DEF SelectionConstantsOK
<1>2. Len(Clusters) \in Nat /\ \A i \in 1 .. Len(Clusters) : Clusters[i] \in SUBSET Claims
  BY <1>1, LenProperties, ElementOfSeq
<1> QED
  BY <1>1, <1>2, SelectionConstantsOK DEF SelectionConstantsOK, Times

LEMMA AppendedWord ==
  ASSUME NEW u \in Words, NEW t \in Nat
  PROVE  /\ u \o <<t>> \in Words /\ IsStrictPrefix(u, u \o <<t>>)
         /\ SubSeq(u \o <<t>>, Len(u) + 1, Len(u \o <<t>>)) = <<t>>
<1>1. <<t>> \in Words /\ Len(<<t>>) = 1
  BY DEF Words
<1>2. /\ u \o <<t>> \in Words /\ Len(u \o <<t>>) = Len(u) + 1
      /\ \A i \in 1 .. Len(u) + 1 : (u \o <<t>>)[i] = IF i <= Len(u) THEN u[i] ELSE <<t>>[i - Len(u)]
  BY <1>1, ConcatProperties DEF Words
<1>3. Shorter(u, u \o <<t>>)
  BY <1>2, WordFacts DEF Shorter
<1>4. (u \o <<t>>)[Len(u) + 1] = t
  BY <1>2, WordFacts
<1>5. SubSeq(u \o <<t>>, Len(u) + 1, Len(u) + 1) = <<t>>
  <2> DEFINE v == SubSeq(u \o <<t>>, Len(u) + 1, Len(u) + 1)
  <2>1. Len(u) + 1 \in Int /\ Len(u) + 1 <= Len(u) + 1 /\ Len(u) \in Nat
    BY WordFacts
  <2>2. \A i \in Len(u) + 1 .. Len(u) + 1 : (u \o <<t>>)[i] \in Nat
    BY <1>4, <2>1
  <2>3. v \in Seq(Nat) /\ Len(v) = 1 /\ v[1] = t
    BY <1>4, <2>1, <2>2, SubSeqProperties
  <2> HIDE DEF v
  <2>4. v = <<t>>
    BY <1>1, <2>3, SameWord DEF Words
  <2> QED
    BY <2>4 DEF v
<1> QED
  BY <1>2, <1>3, <1>5, StrictPrefix

LEMMA SnapshotNames ==
  ASSUME NEW vs \in Snapshots
  PROVE  /\ vs.of \in Claims /\ vs.by \in Words /\ vs.when \in Times /\ vs.when \in Nat /\ <<vs.when>> \in Words
         /\ NameOf(vs) \in Words
<1>1. vs.of \in Claims /\ vs.by \in Words /\ vs.when \in Times /\ vs.when \in Nat
  BY SelectionConstants DEF Snapshots
<1>2. ClaimName[vs.of] \in Words /\ <<vs.when>> \in Words
  BY <1>1, SelectionConstants DEF Words
<1>3. ClaimName[vs.of] \o vs.by \in Words
  BY <1>1, <1>2, ConcatProperties DEF Words
<1> QED
  BY <1>1, <1>2, <1>3, ConcatProperties DEF Words, NameOf

LEMMA PrefixWord ==
  ASSUME NEW c \in Claims
  PROVE  Prefix(c) \in Words
BY SelectionConstants, ConcatProperties DEF Prefix, Words

LEMMA RestWord ==
  ASSUME NEW c \in Claims, NEW vs \in Snapshots
  PROVE  Rest(c, vs) \in Words
<1>1. NameOf(vs) \in Words /\ Prefix(c) \in Words
  BY SnapshotNames, PrefixWord
<1>2. Len(NameOf(vs)) \in Nat /\ Len(Prefix(c)) \in Nat /\ \A i \in 1 .. Len(NameOf(vs)) : NameOf(vs)[i] \in Nat
  BY <1>1, WordFacts
<1>3. \A i \in Len(Prefix(c)) + 1 .. Len(NameOf(vs)) : NameOf(vs)[i] \in Nat
  BY <1>2
<1> QED
  BY <1>2, <1>3, SubSeqProperties DEF Rest, Words

\* A snapshot of the plan is found with its time.
LEMMA OwnFound ==
  ASSUME NEW vs \in Snapshots, vs.by = PlanName
  PROVE  IsStrictPrefix(Prefix(vs.of), NameOf(vs)) /\ Rest(vs.of, vs) = <<vs.when>>
<1>1. NameOf(vs) = Prefix(vs.of) \o <<vs.when>>
  BY DEF NameOf, Prefix
<1>2. Prefix(vs.of) \in Words /\ vs.when \in Nat
  BY SnapshotNames, PrefixWord
<1> QED
  BY <1>1, <1>2, AppendedWord DEF Rest

LEMMA WhensWords ==
  ASSUME snaps \subseteq Snapshots, IsFiniteSet(snaps), NEW cluster, cluster \subseteq Claims
  PROVE  Whens(cluster) \subseteq Words /\ IsFiniteSet(Whens(cluster))
<1> DEFINE D == {p \in cluster \X snaps : IsStrictPrefix(Prefix(p[1]), NameOf(p[2]))}
           f == [p \in D |-> Rest(p[1], p[2])]
<1>1. IsFiniteSet(D)
  <2>1. cluster \in SUBSET Claims /\ IsFiniteSet(Claims)
    BY SelectionConstants
  <2>2. IsFiniteSet(cluster)
    BY <2>1, FS_Subset
  <2>3. IsFiniteSet(cluster \X snaps)
    BY <2>2, FS_Product
  <2>4. D \in SUBSET (cluster \X snaps)
    OBVIOUS
  <2> HIDE DEF D
  <2> QED
    BY <2>3, <2>4, FS_Subset
<1>2. Whens(cluster) = {Rest(p[1], p[2]) : p \in D}
  BY DEF Whens
<1>3. f \in Surjection(D, Whens(cluster))
  <2> HIDE DEF D
  <2> QED
    BY <1>2 DEF Surjection
<1>4. Whens(cluster) \subseteq Words
  BY <1>2, RestWord
<1> QED
  BY <1>1, <1>3, <1>4, FS_Surjection

LEMMA LaterGreatest ==
  ASSUME snaps \subseteq Snapshots, IsFiniteSet(snaps), NEW cluster, cluster \subseteq Claims, NEW u \in Words
  PROVE  /\ Later(u, cluster) \in Words
         /\ \A v \in Whens(cluster) \cup {u} : ~Less(Later(u, cluster), v)
<1> DEFINE S == Whens(cluster) \cup {u}
<1>1. S \in SUBSET Words /\ IsFiniteSet(S) /\ S # {}
  BY WhensWords, FS_AddElement
<1>2. \E w \in S : \A v \in S : ~Less(w, v)
  <2> HIDE DEF S
  <2> QED
    BY <1>1, Greatest
<1>3. Later(u, cluster) \in S /\ \A v \in S : ~Less(Later(u, cluster), v)
  BY <1>2 DEF Later
<1> QED
  BY <1>1, <1>3

\* One cluster after the other.
LEMMA NextCluster ==
  ASSUME NEW i \in 1 .. Len(Clusters) + 1, todo = SubSeq(Clusters, i, Len(Clusters))
  PROVE  /\ Len(todo) = Len(Clusters) + 1 - i
         /\ todo # <<>> <=> i <= Len(Clusters)
         /\ todo # <<>> => /\ Head(todo) = Clusters[i] /\ Head(todo) \subseteq Claims
                           /\ i + 1 \in 1 .. Len(Clusters) + 1
                           /\ Tail(todo) = SubSeq(Clusters, i + 1, Len(Clusters))
<1>1. Len(Clusters) \in Nat /\ Clusters \in Seq(SUBSET Claims) /\ i \in Int /\ Len(Clusters) \in Int
  BY SelectionConstants
<1>2. \A j \in i .. Len(Clusters) : Clusters[j] \in SUBSET Claims
  BY <1>1, SelectionConstants
<1>3. todo \in Seq(SUBSET Claims) /\ Len(todo) = Len(Clusters) + 1 - i
  BY <1>1, <1>2, SubSeqProperties
<1>4. CASE i = Len(Clusters) + 1
  BY <1>1, <1>3, <1>4
<1>5. CASE i <= Len(Clusters)
  <2>1. todo # <<>>
    <3>1. Len(todo) # 0
      BY <1>1, <1>3, <1>5
    <3>2. Len(<<>>) = 0
      OBVIOUS
    <3> QED
      BY <3>1, <3>2
  <2>2. i \in 1 .. Len(Clusters) /\ Len(Clusters) \in i .. Len(Clusters)
    BY <1>1, <1>5
  <2>3. Head(todo) = Clusters[i] /\ Tail(todo) = SubSeq(Clusters, i + 1, Len(Clusters))
    BY <1>1, <2>2, HeadTailOfSubSeq
  <2> QED
    BY <1>1, <1>3, <1>5, <2>1, <2>2, <2>3, SelectionConstants
<1> QED
  BY <1>1, <1>4, <1>5

-----------------------------------------------------------------------------
(* The invariant.                                                             *)

\* What the schedules have taken; what the validation has found there, and is there
\* still, had been taken before.
SnapsOK ==
    /\ IsFiniteSet(snaps) /\ \A vs \in snaps : vs.when <= now
    /\ \A b \in began : b[2] <= now /\ (b[2] = now => Taken(b[1], PlanName, now))

\* How many of the clusters a pass has seen.
SeenClusters == Len(Clusters) - Len(todo)

\* The first n clusters hold nothing of when it began that is later than what was found.
Covered(n) ==
    \A vs \in snaps : vs.by = PlanName /\ <<vs.of, vs.when>> \in began
        /\ (\E i \in 1 .. n : vs.of \in Clusters[i]) => ~Less(latest, <<vs.when>>)

LatestOK ==
    /\ pc = "latest" => Covered(SeenClusters)
    /\ pc \in {"validate", "validated"} => Covered(Len(Clusters))

\* What the second pass refers to.
RefsOK ==
    /\ pc = "latest" => refs = {}
    /\ pc = "validated" => todo = <<>>
    /\ \A r \in refs : Matches(r[1], r[2]) /\ r[2].ready
    /\ pc \in {"validate", "validated"} =>
          \A i \in 1 .. SeenClusters : \E r \in refs : r[1] \in Clusters[i]

SelectionInv == TypeOK /\ SnapsOK /\ LatestOK /\ RefsOK

LEMMA SelectionInit == Init => SelectionInv
<1> SUFFICES ASSUME Init PROVE SelectionInv
  OBVIOUS
<1>1. todo = SubSeq(Clusters, Len(Clusters) + 1, Len(Clusters)) /\ Len(Clusters) + 1 \in 1 .. Len(Clusters) + 1
  <2>1. Len(Clusters) \in Nat
    BY SelectionConstants
  <2> QED
    BY <2>1, SubSeqEmpty DEF Init
<1>2. 1 \in Times /\ <<>> \in Words
  BY SelectionConstantsOK, EmptySeq DEF SelectionConstantsOK, Times, Words
<1>3. TypeOK
  BY <1>1, <1>2 DEF Init, TypeOK
<1>4. SnapsOK /\ LatestOK /\ RefsOK
  BY FS_EmptySet DEF Init, SnapsOK, LatestOK, RefsOK
<1> QED
  BY <1>3, <1>4 DEF SelectionInv

\* The schedules, and the removal of what they have taken.
LEMMA SchedulerStep ==
  ASSUME TypeOK, SnapsOK, SnapScheduler
  PROVE  /\ UNCHANGED planVars /\ snaps' \subseteq Snapshots /\ now' \in Times /\ SnapsOK'
         /\ \A vs \in snaps' : vs.by = PlanName /\ <<vs.of, vs.when>> \in began =>
               \E ws \in snaps : ws.of = vs.of /\ ws.by = vs.by /\ ws.when = vs.when
<1>0. /\ snaps \subseteq Snapshots /\ now \in Nat /\ \A b \in began : b[2] \in Nat /\ b = <<b[1], b[2]>>
      /\ \A vs \in snaps : vs.when \in Nat
  <2>1. snaps \subseteq Snapshots /\ now \in Times /\ began \subseteq Claims \X Times /\ Times \subseteq Nat
    BY SelectionConstants DEF TypeOK
  <2>2. \A b \in began : b[2] \in Times /\ b = <<b[1], b[2]>>
    BY <2>1
  <2> QED
    BY <2>1, <2>2, SnapshotNames
<1>1. ASSUME NEW s \in DOMAIN Schedules, NEW c \in Schedules[s], TakeSnapshot(c, s)
      PROVE  /\ UNCHANGED planVars /\ snaps' \subseteq Snapshots /\ now' \in Times /\ SnapsOK'
             /\ \A vs \in snaps' : vs.by = PlanName /\ <<vs.of, vs.when>> \in began =>
                   \E ws \in snaps : ws.of = vs.of /\ ws.by = vs.by /\ ws.when = vs.when
  <2> DEFINE new == [of |-> c, by |-> s, when |-> now, ready |-> FALSE]
  <2>1. snaps' = snaps \cup {new} /\ UNCHANGED <<now, planVars>> /\ ~Taken(c, s, now)
    BY <1>1 DEF TakeSnapshot
  <2>2. new \in Snapshots /\ new.of = c /\ new.by = s /\ new.when = now
    BY SelectionConstants DEF Snapshots, TypeOK
  <2> HIDE DEF new
  <2>3. IsFiniteSet(snaps')
    BY <2>1, FS_AddElement DEF SnapsOK
  <2>4. UNCHANGED <<now, began>>
    BY <2>1 DEF planVars
  <2>5. SnapsOK'
    BY <1>0, <2>1, <2>2, <2>3, <2>4 DEF SnapsOK, Taken
  <2>6. s = PlanName => <<c, now>> \notin began
    BY <1>0, <2>1 DEF SnapsOK
  <2> QED
    BY <1>0, <2>1, <2>2, <2>5, <2>6 DEF TypeOK
<1>2. ASSUME NEW vs \in snaps, SnapshotReady(vs)
      PROVE  /\ UNCHANGED planVars /\ snaps' \subseteq Snapshots /\ now' \in Times /\ SnapsOK'
             /\ \A ws \in snaps' : \E xs \in snaps : xs.of = ws.of /\ xs.by = ws.by /\ xs.when = ws.when
  <2> DEFINE new == [vs EXCEPT !.ready = TRUE]
  <2>1. snaps' = (snaps \ {vs}) \cup {new} /\ UNCHANGED <<now, planVars>>
    BY <1>2 DEF SnapshotReady
  <2>2. new \in Snapshots /\ new.of = vs.of /\ new.by = vs.by /\ new.when = vs.when
    BY <1>0 DEF Snapshots
  <2> HIDE DEF new
  <2>3. IsFiniteSet(snaps')
    BY <2>1, FS_AddElement, FS_RemoveElement DEF SnapsOK
  <2>4. UNCHANGED <<now, began>>
    BY <2>1 DEF planVars
  <2>5. \A ws \in snaps : \E xs \in snaps' : xs.of = ws.of /\ xs.by = ws.by /\ xs.when = ws.when
    BY <2>1, <2>2
  <2>6. \A ws \in snaps' : \E xs \in snaps : xs.of = ws.of /\ xs.by = ws.by /\ xs.when = ws.when
    BY <2>1, <2>2
  <2>7. \A c : Taken(c, PlanName, now) => Taken(c, PlanName, now)'
    BY <2>4, <2>5 DEF Taken
  <2>8. SnapsOK'
    BY <2>3, <2>4, <2>6, <2>7 DEF SnapsOK
  <2> QED
    BY <1>0, <2>1, <2>2, <2>6, <2>8 DEF TypeOK
<1>3. ASSUME NEW vs \in snaps, Expire(vs)
      PROVE  UNCHANGED planVars /\ snaps' \subseteq snaps /\ now' \in Times /\ SnapsOK'
  <2>1. snaps' = snaps \ {vs} /\ UNCHANGED <<now, planVars>> /\ vs.when + Keep <= now
    BY <1>3 DEF Expire
  <2>2. vs.when # now
    BY <1>0, <2>1, SelectionConstantsOK DEF SelectionConstantsOK
  <2>3. IsFiniteSet(snaps') /\ UNCHANGED began
    BY <2>1, FS_RemoveElement DEF SnapsOK, planVars
  <2>4. \A c : Taken(c, PlanName, now) => Taken(c, PlanName, now)'
    BY <2>1, <2>2 DEF Taken
  <2>5. SnapsOK'
    BY <2>1, <2>3, <2>4 DEF SnapsOK
  <2> QED
    BY <2>1, <2>5 DEF TypeOK
<1>4. ASSUME NextTime PROVE UNCHANGED planVars /\ UNCHANGED snaps /\ now' \in Times /\ SnapsOK'
  <2>1. UNCHANGED <<snaps, planVars>> /\ now' = now + 1 /\ now' \in Times
    BY <1>4, SelectionConstantsOK DEF NextTime, TypeOK, Times, SelectionConstantsOK
  <2>2. SnapsOK'
    BY <1>0, <2>1 DEF SnapsOK, planVars
  <2> QED
    BY <2>1, <2>2
<1> QED
  BY <1>0, <1>1, <1>2, <1>3, <1>4 DEF SnapScheduler

LEMMA SelectionTypeStep == SelectionInv /\ [Next]_vars => TypeOK'
<1> SUFFICES ASSUME SelectionInv, [Next]_vars PROVE TypeOK'
  OBVIOUS
<1>0. PICK i \in 1 .. Len(Clusters) + 1 : todo = SubSeq(Clusters, i, Len(Clusters))
  BY DEF SelectionInv, TypeOK
<1>00. TypeOK /\ SnapsOK /\ snaps \subseteq Snapshots /\ IsFiniteSet(snaps)
  BY DEF SelectionInv, TypeOK, SnapsOK
<1>1. CASE UNCHANGED vars
  BY <1>1, <1>00 DEF vars, schedVars, planVars, TypeOK
<1>2. CASE SnapScheduler
  BY <1>2, <1>00, SchedulerStep DEF planVars, TypeOK
<1>3. ASSUME Fail, UNCHANGED schedVars PROVE TypeOK'
  <2>1. todo' = SubSeq(Clusters, Len(Clusters) + 1, Len(Clusters)) /\ Len(Clusters) + 1 \in 1 .. Len(Clusters) + 1
    <3>1. Len(Clusters) \in Nat
      BY SelectionConstants
    <3> QED
      BY <1>3, <3>1, SubSeqEmpty DEF Fail
  <2>2. <<>> \in Words
    BY EmptySeq DEF Words
  <2> QED
    BY <1>3, <1>00, <2>1, <2>2 DEF Fail, TypeOK, schedVars
<1>4. CASE Begin
  <2>1. began' \subseteq Claims \X Times
    <3>1. \A vs \in snaps : <<vs.of, vs.when>> \in Claims \X Times
      BY <1>00, SnapshotNames
    <3> QED
      BY <1>4, <3>1 DEF Begin, Own
  <2>2. todo' = SubSeq(Clusters, 1, Len(Clusters)) /\ 1 \in 1 .. Len(Clusters) + 1
    BY <1>4, SelectionConstants, SubSeqFull DEF Begin
  <2> QED
    BY <1>4, <1>00, <2>1, <2>2 DEF Begin, TypeOK, schedVars
<1>5. CASE FindLatest
  <2>1. CASE ~Fail
    <3>1. /\ todo # <<>> /\ latest' = Later(latest, Head(todo)) /\ todo' = Tail(todo)
          /\ UNCHANGED <<pc, refs, began, schedVars>> /\ pc = "latest"
      BY <1>5, <2>1 DEF FindLatest
    <3>2. Head(todo) \subseteq Claims /\ i + 1 \in 1 .. Len(Clusters) + 1 /\ Tail(todo) = SubSeq(Clusters, i + 1, Len(Clusters))
      BY <1>0, <3>1, NextCluster
    <3>3. latest' \in Words
      BY <1>00, <3>1, <3>2, LaterGreatest DEF TypeOK
    <3> QED
      BY <1>00, <3>1, <3>2, <3>3 DEF TypeOK, schedVars
  <2> QED
    BY <1>3, <1>5, <2>1 DEF FindLatest
<1>6. CASE CheckTime
  <2>1. CASE ~Fail
    <3>1. pc' = "validate" /\ todo' = Clusters /\ UNCHANGED <<latest, refs, began, schedVars>>
      BY <1>6, <2>1 DEF CheckTime
    <3>2. todo' = SubSeq(Clusters, 1, Len(Clusters)) /\ 1 \in 1 .. Len(Clusters) + 1
      BY <3>1, SelectionConstants, SubSeqFull
    <3> QED
      BY <1>00, <3>1, <3>2 DEF TypeOK, schedVars
  <2> QED
    BY <1>3, <1>6, <2>1 DEF CheckTime
<1>7. CASE ValidateSnapshot
  <2>1. CASE ~Fail
    <3>1. /\ todo # <<>> /\ refs' = refs \cup RefsIn(Head(todo)) /\ todo' = Tail(todo)
          /\ UNCHANGED <<pc, latest, began, schedVars>> /\ pc = "validate"
      BY <1>7, <2>1 DEF ValidateSnapshot
    <3>2. Head(todo) \subseteq Claims /\ i + 1 \in 1 .. Len(Clusters) + 1 /\ Tail(todo) = SubSeq(Clusters, i + 1, Len(Clusters))
      BY <1>0, <3>1, NextCluster
    <3>3. refs' \subseteq Claims \X Snapshots
      BY <1>00, <3>1, <3>2 DEF RefsIn, TypeOK
    <3> QED
      BY <1>00, <3>1, <3>2, <3>3 DEF TypeOK, schedVars
  <2> QED
    BY <1>3, <1>7, <2>1 DEF ValidateSnapshot
<1>8. CASE SetValidateRestorePlan
  BY <1>8, <1>00 DEF SetValidateRestorePlan, TypeOK, schedVars
<1> QED
  BY <1>1, <1>2, <1>4, <1>5, <1>6, <1>7, <1>8 DEF Next, Validate

LEMMA SnapsStep == SelectionInv /\ [Next]_vars => SnapsOK'
<1> SUFFICES ASSUME TypeOK, SnapsOK, [Next]_vars PROVE SnapsOK'
  BY DEF SelectionInv
<1>1. CASE UNCHANGED schedVars /\ (began' = began \/ began' = {})
  BY <1>1 DEF SnapsOK, Taken, schedVars
<1>2. CASE SnapScheduler
  BY <1>2, SchedulerStep
<1>3. CASE Begin
  <2>1. began' = Own /\ UNCHANGED schedVars
    BY <1>3 DEF Begin
  <2>2. ASSUME NEW b \in Own PROVE b[2] <= now /\ (b[2] = now => Taken(b[1], PlanName, now))
    <3>1. PICK vs \in snaps : vs.by = PlanName /\ b = <<vs.of, vs.when>>
      BY DEF Own
    <3>2. b[1] = vs.of /\ b[2] = vs.when
      BY <3>1
    <3> QED
      BY <3>1, <3>2 DEF SnapsOK, Taken
  <2> QED
    BY <2>1, <2>2 DEF SnapsOK, Taken, schedVars
<1>4. Next => SnapScheduler \/ Begin \/ (UNCHANGED schedVars /\ (began' = began \/ began' = {}))
  BY DEF Next, Validate, FindLatest, CheckTime, ValidateSnapshot, SetValidateRestorePlan, Fail
<1> QED
  BY <1>1, <1>2, <1>3, <1>4 DEF vars, planVars

\* A later time is no earlier than what the one before it was no earlier than.
LEMMA LaterStill ==
  ASSUME NEW u \in Words, NEW v \in Words, NEW w \in Words, ~Less(v, u), ~Less(u, w)
  PROVE  ~Less(v, w)
<1> SUFFICES ASSUME Less(v, w) PROVE FALSE
  OBVIOUS
<1>1. CASE u = w
  BY <1>1
<1>2. CASE u # w
  <2>1. Less(w, u)
    BY <1>2, LessTotal
  <2> QED
    BY <2>1, LessTransitive
<1> QED
  BY <1>1, <1>2

LEMMA LatestStep == SelectionInv /\ [Next]_vars => LatestOK'
<1> SUFFICES ASSUME TypeOK, SnapsOK, LatestOK, RefsOK, [Next]_vars PROVE LatestOK'
  BY DEF SelectionInv
<1>0. PICK i \in 1 .. Len(Clusters) + 1 : todo = SubSeq(Clusters, i, Len(Clusters))
  BY DEF TypeOK
<1>00. /\ snaps \subseteq Snapshots /\ IsFiniteSet(snaps) /\ Len(Clusters) \in Nat /\ latest \in Words
       /\ SeenClusters = i - 1
  BY <1>0, NextCluster, SelectionConstants DEF TypeOK, SnapsOK, SeenClusters
<1>1. CASE UNCHANGED vars
  BY <1>1 DEF vars, schedVars, planVars, LatestOK, Covered, SeenClusters
<1>2. CASE SnapScheduler
  <2>1. UNCHANGED <<pc, todo, latest, began>>
    BY <1>2, SchedulerStep DEF planVars
  <2>2. ASSUME NEW n, Covered(n) PROVE Covered(n)'
    BY <1>2, <2>1, <2>2, SchedulerStep DEF Covered
  <2> QED
    BY <2>1, <2>2 DEF LatestOK, SeenClusters
<1>3. ASSUME Fail PROVE LatestOK'
  BY <1>3 DEF Fail, LatestOK
<1>4. CASE Begin
  <2>1. pc' = "latest" /\ SeenClusters' = 0
    BY <1>4, <1>00 DEF Begin, SeenClusters
  <2>2. Covered(0)'
    BY DEF Covered
  <2> QED
    BY <2>1, <2>2 DEF LatestOK
<1>5. CASE FindLatest
  <2>1. CASE ~Fail
    <3>1. /\ todo # <<>> /\ latest' = Later(latest, Clusters[i]) /\ todo' = SubSeq(Clusters, i + 1, Len(Clusters))
          /\ UNCHANGED <<pc, began, snaps>> /\ pc = "latest"
          /\ i <= Len(Clusters) /\ Clusters[i] \subseteq Claims /\ i + 1 \in 1 .. Len(Clusters) + 1
      BY <1>0, <1>5, <2>1, NextCluster DEF FindLatest, schedVars
    <3>2. /\ latest' \in Words
          /\ \A v \in Whens(Clusters[i]) \cup {latest} : ~Less(latest', v)
      BY <1>00, <3>1, LaterGreatest
    <3>3. SeenClusters' = i
      <4>1. Len(SubSeq(Clusters, i + 1, Len(Clusters))) = Len(Clusters) - i
        BY <1>00, <3>1, SelectionConstants, SubSeqProperties
      <4> QED
        BY <1>00, <3>1, <4>1 DEF SeenClusters
    <3>4. Covered(i - 1)
      BY <1>00, <3>1 DEF LatestOK
    <3>5. ASSUME NEW vs \in snaps, vs.by = PlanName, <<vs.of, vs.when>> \in began,
                 NEW j \in 1 .. i, vs.of \in Clusters[j]
          PROVE  ~Less(latest', <<vs.when>>)
      <4>0. vs \in Snapshots /\ <<vs.when>> \in Words
        BY <1>00, SnapshotNames
      <4>1. CASE j = i
        <5>1. IsStrictPrefix(Prefix(vs.of), NameOf(vs)) /\ Rest(vs.of, vs) = <<vs.when>>
          BY <3>5, <4>0, OwnFound
        <5>2. <<vs.of, vs>> \in Clusters[i] \X snaps /\ <<vs.of, vs>>[1] = vs.of /\ <<vs.of, vs>>[2] = vs
          BY <3>5, <4>1
        <5>3. <<vs.when>> \in Whens(Clusters[i])
          BY <5>1, <5>2 DEF Whens
        <5> QED
          BY <3>2, <5>3
      <4>2. CASE j < i
        <5>1. j \in 1 .. i - 1
          BY <4>2
        <5>2. ~Less(latest, <<vs.when>>)
          BY <3>4, <3>5, <5>1 DEF Covered
        <5> QED
          BY <1>00, <3>2, <4>0, <5>2, LaterStill
      <4> QED
        BY <4>1, <4>2
    <3>6. Covered(i)'
      BY <3>1, <3>5 DEF Covered
    <3> QED
      BY <3>1, <3>3, <3>6 DEF LatestOK
  <2> QED
    BY <1>3, <1>5, <2>1 DEF FindLatest
<1>6. CASE CheckTime
  <2>1. CASE ~Fail
    <3>1. pc = "latest" /\ todo = <<>> /\ pc' = "validate" /\ UNCHANGED <<latest, began, snaps>>
      BY <1>6, <2>1 DEF CheckTime, schedVars
    <3>2. SeenClusters = Len(Clusters)
      BY <1>00, <3>1 DEF SeenClusters
    <3>3. Covered(Len(Clusters))
      BY <3>1, <3>2 DEF LatestOK
    <3> QED
      BY <3>1, <3>3 DEF LatestOK, Covered
  <2> QED
    BY <1>3, <1>6, <2>1 DEF CheckTime
<1>7. CASE ValidateSnapshot \/ SetValidateRestorePlan
  <2>1. CASE ~Fail
    <3>1. pc = "validate" /\ pc' \in {"validate", "validated"} /\ UNCHANGED <<latest, began, snaps>>
      BY <1>7, <2>1 DEF ValidateSnapshot, SetValidateRestorePlan, schedVars
    <3> QED
      BY <3>1 DEF LatestOK, Covered
  <2> QED
    BY <1>3, <2>1
<1> QED
  BY <1>1, <1>2, <1>4, <1>5, <1>6, <1>7 DEF Next, Validate

LEMMA RefsStep == SelectionInv /\ [Next]_vars => RefsOK'
<1> SUFFICES ASSUME TypeOK, RefsOK, SnapsOK, [Next]_vars PROVE RefsOK'
  BY DEF SelectionInv
<1>0. PICK i \in 1 .. Len(Clusters) + 1 : todo = SubSeq(Clusters, i, Len(Clusters))
  BY DEF TypeOK
<1>00. Len(Clusters) \in Nat /\ SeenClusters = i - 1
  BY <1>0, NextCluster, SelectionConstants DEF SeenClusters
<1>1. CASE UNCHANGED planVars
  BY <1>1 DEF planVars, RefsOK, SeenClusters, Matches
<1>2. ASSUME Fail PROVE RefsOK'
  BY <1>2 DEF Fail, RefsOK
<1>3. CASE Begin
  BY <1>3 DEF Begin, RefsOK, TypeOK
<1>4. CASE FindLatest
  <2>1. CASE ~Fail
    BY <1>4, <2>1 DEF FindLatest, RefsOK
  <2> QED
    BY <1>2, <1>4, <2>1 DEF FindLatest
<1>5. CASE CheckTime
  <2>1. CASE ~Fail
    <3>1. pc = "latest" /\ pc' = "validate" /\ todo' = Clusters /\ refs' = refs /\ refs = {}
      BY <1>5, <2>1 DEF CheckTime, RefsOK
    <3>2. SeenClusters' = 0
      BY <1>00, <3>1 DEF SeenClusters
    <3> QED
      BY <3>1, <3>2 DEF RefsOK
  <2> QED
    BY <1>2, <1>5, <2>1 DEF CheckTime
<1>6. CASE ValidateSnapshot
  <2>1. CASE ~Fail
    <3>1. /\ todo # <<>> /\ pc = "validate" /\ UNCHANGED <<pc, latest>>
          /\ refs' = refs \cup RefsIn(Clusters[i]) /\ RefsIn(Clusters[i]) # {} /\ AllReady(RefsIn(Clusters[i]))
          /\ todo' = SubSeq(Clusters, i + 1, Len(Clusters)) /\ i <= Len(Clusters) /\ i + 1 \in 1 .. Len(Clusters) + 1
      BY <1>0, <1>6, <2>1, NextCluster DEF ValidateSnapshot
    <3>2. SeenClusters' = i
      <4>1. Len(SubSeq(Clusters, i + 1, Len(Clusters))) = Len(Clusters) - i
        BY <1>00, <3>1, SelectionConstants, SubSeqProperties
      <4> QED
        BY <1>00, <3>1, <4>1 DEF SeenClusters
    <3>3. \A r \in RefsIn(Clusters[i]) : r[1] \in Clusters[i] /\ Matches(r[1], r[2]) /\ r[2].ready
      BY <3>1 DEF RefsIn, AllReady
    <3>4. \A r \in refs' : Matches(r[1], r[2])' /\ r[2].ready
      BY <3>1, <3>3 DEF RefsOK, Matches
    <3>5. ASSUME NEW j \in 1 .. i PROVE \E r \in refs' : r[1] \in Clusters[j]
      <4>1. CASE j = i
        BY <3>1, <3>3, <4>1
      <4>2. CASE j < i
        BY <1>00, <3>1, <4>2 DEF RefsOK
      <4> QED
        BY <4>1, <4>2
    <3> QED
      BY <3>1, <3>2, <3>4, <3>5 DEF RefsOK
  <2> QED
    BY <1>2, <1>6, <2>1 DEF ValidateSnapshot
<1>7. CASE SetValidateRestorePlan
  BY <1>7 DEF SetValidateRestorePlan, RefsOK, SeenClusters, Matches
<1>8. CASE SnapScheduler
  BY <1>1, <1>8, SchedulerStep
<1> QED
  BY <1>1, <1>3, <1>4, <1>5, <1>6, <1>7, <1>8 DEF Next, Validate, vars

\* The invariant holds in every state of ValidateListSnapshots' two passes.
THEOREM SelectionInvariant == Spec => []SelectionInv
<1>1. SelectionInv /\ [Next]_vars => SelectionInv'
  BY SelectionTypeStep, SnapsStep, LatestStep, RefsStep DEF SelectionInv
<1> QED
  BY <1>1, SelectionInit, PTL DEF Spec

-----------------------------------------------------------------------------
(* What the runs check.                                                       *)

\* The snapshots, the latest time and the references keep their types: the latest
\* time of findLatestSnapshotTime exists.
THEOREM SelectionTypes == Spec => []TypeOK
<1>1. SelectionInv => TypeOK
  BY DEF SelectionInv
<1> QED
  BY <1>1, SelectionInvariant, PTL

\* findLatestSnapshotTime ends with a time no cluster has a later one of.
THEOREM RestoredIsNotOlder == Spec => []NotOlder
<1>1. SelectionInv => NotOlder
  <2>1. DOMAIN Clusters = 1 .. Len(Clusters)
    BY SelectionConstants, LenProperties
  <2> QED
    BY <2>1 DEF SelectionInv, LatestOK, Covered, NotOlder
<1> QED
  BY <1>1, SelectionInvariant, PTL

\* No snapshot of another claim or another schedule has the name that the operator
\* makes of a claim, the plan and a time.
NamesApart ==
    \A vs \in Snapshots, c \in Claims, t \in Times :
        NameOf(vs) = Prefix(c) \o <<t>> => vs.of = c /\ vs.by = PlanName

LEMMA JoinedWords ==
  ASSUME NEW u \in Words, NEW v \in Words
  PROVE  /\ u \o v \in Words /\ Len(u \o v) = Len(u) + Len(v)
         /\ \A i \in 1 .. Len(u) : (u \o v)[i] = u[i]
         /\ \A i \in 1 .. Len(v) : (u \o v)[Len(u) + i] = v[i]
<1>1. /\ u \o v \in Words /\ Len(u \o v) = Len(u) + Len(v)
      /\ \A i \in 1 .. Len(u) + Len(v) : (u \o v)[i] = IF i <= Len(u) THEN u[i] ELSE v[i - Len(u)]
  BY ConcatProperties DEF Words
<1>2. Len(u) \in Nat /\ Len(v) \in Nat
  BY WordFacts
<1>3. ASSUME NEW i \in 1 .. Len(v) PROVE (u \o v)[Len(u) + i] = v[i]
  <2>1. Len(u) + i \in 1 .. Len(u) + Len(v) /\ ~(Len(u) + i <= Len(u)) /\ Len(u) + i - Len(u) = i
    BY <1>2
  <2> QED
    BY <1>1, <2>1
<1> QED
  BY <1>1, <1>2, <1>3

\* It is so when no two claims have the same name, and the names of the schedules
\* have the same number of words, as without dashes.
LEMMA SameWordsApart ==
  ASSUME \A c, d \in Claims : ClaimName[c] = ClaimName[d] => c = d,
         \A s \in DOMAIN Schedules : Len(s) = Len(PlanName)
  PROVE  NamesApart
<1> SUFFICES ASSUME NEW vs \in Snapshots, NEW c \in Claims, NEW t \in Times, NameOf(vs) = Prefix(c) \o <<t>>
             PROVE  vs.of = c /\ vs.by = PlanName
  BY DEF NamesApart
<1> DEFINE u == ClaimName[vs.of]
           v == vs.by
           x == ClaimName[c]
           y == PlanName
<1>1. u \in Words /\ v \in Words /\ x \in Words /\ y \in Words /\ Len(v) = Len(y) /\ <<vs.when>> \in Words /\ <<t>> \in Words
  <2>1. t \in Nat /\ v \in DOMAIN Schedules
    BY SelectionConstants DEF Snapshots
  <2>2. <<t>> \in Words
    BY <2>1 DEF Words
  <2> QED
    BY <2>1, <2>2, SelectionConstants, SnapshotNames
<1>2. (u \o v) \o <<vs.when>> = (x \o y) \o <<t>>
  BY DEF NameOf, Prefix
<1> HIDE DEF u, v, x, y
<1>3. /\ u \o v \in Words /\ Len(u \o v) = Len(u) + Len(v) /\ x \o y \in Words /\ Len(x \o y) = Len(x) + Len(y)
      /\ Len(u) \in Nat /\ Len(v) \in Nat /\ Len(x) \in Nat
  BY <1>1, JoinedWords, WordFacts
<1>4. /\ Len((u \o v) \o <<vs.when>>) = Len(u \o v) + 1
      /\ \A i \in 1 .. Len(u \o v) : ((u \o v) \o <<vs.when>>)[i] = (u \o v)[i]
  BY <1>1, <1>3, JoinedWords
<1>5. /\ Len((x \o y) \o <<t>>) = Len(x \o y) + 1
      /\ \A i \in 1 .. Len(x \o y) : ((x \o y) \o <<t>>)[i] = (x \o y)[i]
  BY <1>1, <1>3, JoinedWords
<1>6. Len(u) = Len(x)
  BY <1>1, <1>2, <1>3, <1>4, <1>5
<1>7. \A i \in 1 .. Len(u) + Len(v) : (u \o v)[i] = (x \o y)[i]
  BY <1>1, <1>2, <1>3, <1>4, <1>5, <1>6
<1>8. ASSUME NEW i \in 1 .. Len(u) PROVE u[i] = x[i]
  <2>1. i \in 1 .. Len(u) + Len(v)
    BY <1>3
  <2> QED
    BY <1>1, <1>6, <1>7, <2>1, JoinedWords
<1>9. ASSUME NEW i \in 1 .. Len(v) PROVE v[i] = y[i]
  <2>1. Len(u) + i \in 1 .. Len(u) + Len(v)
    BY <1>3
  <2>2. i \in 1 .. Len(y)
    BY <1>1
  <2>3. (u \o v)[Len(u) + i] = v[i]
    BY <1>1, JoinedWords
  <2>4. (x \o y)[Len(x) + i] = y[i]
    BY <1>1, <2>2, JoinedWords
  <2> QED
    BY <1>6, <1>7, <2>1, <2>3, <2>4
<1>11. u = x /\ v = y
  BY <1>1, <1>6, <1>8, <1>9, SameWord
<1>12. vs.of \in Claims
  BY SnapshotNames
<1> QED
  BY <1>11, <1>12 DEF u, v, x, y

\* ValidateListSnapshots refers, for each cluster, to snapshots of its own claims and
\* the plan's schedule, of one time and ready, wherever names are apart.
THEOREM RefersToOwn == NamesApart => (Spec => []RefsRight)
<1> SUFFICES ASSUME NamesApart PROVE Spec => []RefsRight
  OBVIOUS
<1>1. SelectionInv => RefsRight
  <2> SUFFICES ASSUME TypeOK, RefsOK, pc = "validated" PROVE RefsRight
    BY DEF SelectionInv, RefsRight
  <2>1. DOMAIN Clusters = 1 .. Len(Clusters) /\ SeenClusters = Len(Clusters)
    BY SelectionConstants, LenProperties DEF RefsOK, SeenClusters
  <2>2. ASSUME NEW r \in refs
        PROVE  r[2].of = r[1] /\ r[2].by = PlanName /\ r[2].ready /\ <<r[2].when>> = latest
    <3>1. /\ r[1] \in Claims /\ r[2] \in Snapshots /\ latest = <<r[2].when>> /\ r[2].ready
          /\ NameOf(r[2]) = Prefix(r[1]) \o latest
      BY DEF TypeOK, RefsOK, Matches
    <3>2. r[2].when \in Times
      BY <3>1, SnapshotNames
    <3> QED
      BY <3>1, <3>2 DEF NamesApart
  <2> QED
    BY <2>1, <2>2 DEF RefsOK, RefsRight
<1> QED
  BY <1>1, SelectionInvariant, PTL
=============================================================================
