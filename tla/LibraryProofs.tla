---------------------------- MODULE LibraryProofs ----------------------------
(***************************************************************************)
(* Proofs about VersionedCrds: what the #[versioned] macro makes of the    *)
(* history of fields and variants, for every declaration it accepts; and   *)
(* about Quantities: the parsing and printing of durations.                *)
(***************************************************************************)
EXTENDS VersionedCrds, Quantities, Recursion, FiniteSetTheorems, SequenceTheorems

(***************************************************************************)
(* Versions                                                                *)
(***************************************************************************)
\* The order on Kubernetes versions is strict and total.
LEMMA VersionOrder ==
  ASSUME NEW a \in VersionSet, NEW b \in VersionSet, NEW c \in VersionSet
  PROVE  /\ ~VersionLess(a, a)
         /\ VersionLess(a, b) /\ VersionLess(b, c) => VersionLess(a, c)
         /\ VersionLess(a, b) \/ a = b \/ VersionLess(b, a)
<1>1. None \notin {0, 1} \X Nat
  BY VersionedAssumption
<1> DEFINE L == {None} \cup ({0, 1} \X Nat)
<1>2. /\ a.major \in Nat /\ a.level \in L /\ a = [major |-> a.major, level |-> a.level]
      /\ b.major \in Nat /\ b.level \in L /\ b = [major |-> b.major, level |-> b.level]
      /\ c.major \in Nat /\ c.level \in L
  BY DEF VersionSet
<1>3. ASSUME NEW x \in {0, 1} \X Nat
      PROVE  x[1] \in {0, 1} /\ x[2] \in Nat /\ x = <<x[1], x[2]>>
  OBVIOUS
<1>4. ~VersionLess(a, a)
  BY <1>2, <1>3 DEF VersionLess, LevelLess
<1>5. VersionLess(a, b) /\ VersionLess(b, c) => VersionLess(a, c)
  BY <1>2, <1>3 DEF VersionLess, LevelLess
<1>6. VersionLess(a, b) \/ a = b \/ VersionLess(b, a)
  <2>1. CASE a.level = None \/ b.level = None
    BY <1>1, <1>2, <2>1 DEF VersionLess, LevelLess
  <2>2. CASE a.level # None /\ b.level # None
    BY <1>2, <1>3, <2>2 DEF VersionLess, LevelLess
  <2>3. QED
    BY <2>1, <2>2
<1>7. QED
  BY <1>4, <1>5, <1>6

\* A list of all elements of S in ascending order.
Ascends(sorted, S) ==
  /\ Cardinality(S) \in Nat
  /\ sorted \in [1..Cardinality(S) -> S]
  /\ Range(sorted) = S
  /\ \A i, j \in DOMAIN sorted : i < j => VersionLess(sorted[i], sorted[j])

\* Every finite set of versions can be listed: a version's place follows from the
\* number of versions before it.
LEMMA SortedExists ==
  ASSUME NEW S \in SUBSET VersionSet, IsFiniteSet(S)
  PROVE  \E sorted : Ascends(sorted, S)
<1> DEFINE before(v) == {w \in S : VersionLess(w, v)}
           rank == [v \in S |-> Cardinality(before(v))]
           n == Cardinality(S)
<1>1. n \in Nat
  BY FS_CardinalityType
<1>2. ASSUME NEW v \in S
      PROVE  IsFiniteSet(before(v)) /\ Cardinality(before(v)) \in 0..(n - 1)
  <2>1. before(v) \in SUBSET S /\ v \notin before(v)
    BY VersionOrder
  <2>2. /\ IsFiniteSet(before(v)) /\ Cardinality(before(v)) <= n
        /\ n = Cardinality(before(v)) => S = before(v)
    BY <2>1, FS_Subset
  <2>3. Cardinality(before(v)) \in Nat
    BY <2>2, FS_CardinalityType
  <2>4. n # Cardinality(before(v))
    BY <2>1, <2>2
  <2>5. QED
    BY <1>1, <2>2, <2>3, <2>4
<1>3. ASSUME NEW v \in S, NEW w \in S, VersionLess(v, w) PROVE rank[v] < rank[w]
  <2>1. before(v) \in SUBSET before(w) /\ v \in before(w) /\ v \notin before(v)
    BY <1>3, VersionOrder
  <2>2. IsFiniteSet(before(w)) /\ IsFiniteSet(before(v))
    BY <1>2
  <2>3. /\ Cardinality(before(v)) <= Cardinality(before(w))
        /\ Cardinality(before(w)) = Cardinality(before(v)) => before(w) = before(v)
    BY <2>1, <2>2, FS_Subset
  <2>4. Cardinality(before(v)) \in Nat /\ Cardinality(before(w)) \in Nat
    BY <2>2, FS_CardinalityType
  <2>5. Cardinality(before(v)) # Cardinality(before(w))
    BY <2>1, <2>3
  <2>6. Cardinality(before(v)) < Cardinality(before(w))
    BY <2>3, <2>4, <2>5
  <2>7. QED
    BY <2>6
<1>4. rank \in [S -> 0..(n - 1)]
  BY <1>2
<1>5. \A v, w \in S : rank[v] = rank[w] => v = w
  <2>1. ASSUME NEW v \in S, NEW w \in S, rank[v] = rank[w] PROVE v = w
    <3>1. rank[v] \in Int /\ rank[w] \in Int
      BY <1>1, <1>4
    <3>2. ~VersionLess(v, w) /\ ~VersionLess(w, v)
      BY <1>3, <2>1, <3>1
    <3>3. QED
      BY <3>2, VersionOrder
  <2>2. QED
    BY <2>1
<1> HIDE DEF rank
<1>6. rank \in Injection(S, 0..(n - 1))
  BY <1>4, <1>5 DEF Injection, IsInjective
<1>7. IsFiniteSet(0..(n - 1)) /\ Cardinality(0..(n - 1)) = n
  BY <1>1, FS_Interval
<1>8. rank \in Surjection(S, 0..(n - 1))
  BY <1>6, <1>7, FS_Injection
<1>9. \A i \in 1..n : \E v \in S : rank[v] = i - 1
  <2>1. \A i \in 1..n : i - 1 \in 0..(n - 1)
    BY <1>1
  <2>2. QED
    BY <1>8, <2>1 DEF Surjection
<1> DEFINE sorted == [i \in 1..n |-> CHOOSE v \in S : rank[v] = i - 1]
<1>10. \A i \in 1..n : sorted[i] \in S /\ rank[sorted[i]] = i - 1
  BY <1>9
<1>11. ASSUME NEW v \in S PROVE rank[v] + 1 \in 1..n /\ sorted[rank[v] + 1] = v
  <2>1. rank[v] \in 0..(n - 1)
    BY <1>4
  <2>2. rank[v] + 1 \in 1..n /\ (rank[v] + 1) - 1 = rank[v]
    BY <1>1, <2>1
  <2>3. rank[sorted[rank[v] + 1]] = rank[v] /\ sorted[rank[v] + 1] \in S
    BY <1>10, <2>2
  <2>4. QED
    BY <1>5, <2>2, <2>3
<1>12. sorted \in [1..n -> S] /\ DOMAIN sorted = 1..n
  BY <1>10
<1> HIDE DEF sorted
<1>13. Range(sorted) = S
  BY <1>11, <1>12 DEF Range
<1>14. ASSUME NEW i \in 1..n, NEW j \in 1..n, i < j PROVE VersionLess(sorted[i], sorted[j])
  <2>1. sorted[i] \in S /\ sorted[j] \in S
    BY <1>10
  <2>2. rank[sorted[i]] = i - 1 /\ rank[sorted[j]] = j - 1
    BY <1>10
  <2>3. sorted[i] # sorted[j] /\ ~(rank[sorted[j]] < rank[sorted[i]])
    BY <1>14, <2>2
  <2>4. ~VersionLess(sorted[j], sorted[i])
    BY <1>3, <2>1, <2>3
  <2>5. QED
    BY <2>1, <2>3, <2>4, VersionOrder
<1>15. QED
  BY <1>1, <1>12, <1>13, <1>14 DEF Ascends

\* The versions code is generated for: all declared ones, in ascending order.
LEMMA SortedVersionsAscend ==
  ASSUME NEW d, d.versions \in Seq(VersionSet)
  PROVE  /\ Range(d.versions) \in SUBSET VersionSet
         /\ Ascends(SortedVersions(d), Range(d.versions))
<1> DEFINE S == Range(d.versions)
           n == Len(d.versions)
<1>1. n \in Nat /\ d.versions \in [1..n -> VersionSet] /\ DOMAIN d.versions = 1..n
  OBVIOUS
<1>2. S \in SUBSET VersionSet
  BY <1>1 DEF Range
<1>3. d.versions \in Surjection(1..n, S)
  BY <1>1 DEF Surjection, Range
<1>4. IsFiniteSet(S)
  <2>1. IsFiniteSet(1..n)
    BY <1>1, FS_Interval
  <2>2. QED
    BY <1>3, <2>1, FS_Surjection
<1>5. PICK sorted : Ascends(sorted, S)
  <2> HIDE DEF S
  <2>1. QED
    BY <1>2, <1>4, SortedExists
<1>6. Ascends(SortedVersions(d), S)
  <2> HIDE DEF S
  <2> DEFINE ascends(s) == /\ Range(s) = S
                           /\ \A i, j \in DOMAIN s : i < j => VersionLess(s[i], s[j])
  <2>1. sorted \in [1..Cardinality(S) -> S] /\ ascends(sorted)
    BY <1>5 DEF Ascends
  <2>2. SortedVersions(d) = CHOOSE s \in [1..Cardinality(S) -> S] : ascends(s)
    BY DEF SortedVersions, S
  <2> HIDE DEF ascends
  <2>3. SortedVersions(d) \in [1..Cardinality(S) -> S] /\ ascends(SortedVersions(d))
    BY <2>1, <2>2
  <2>4. Cardinality(S) \in Nat
    BY <1>5 DEF Ascends
  <2>5. QED
    BY <2>3, <2>4 DEF Ascends, ascends
<1>7. QED
  BY <1>2, <1>6

(***************************************************************************)
(* Accepted items                                                          *)
(***************************************************************************)
\* What validation leaves of an item's history: its versions are declared ones, and
\* they ascend from its addition over its changes to its deprecation.
AcceptedItem(item, S) ==
  /\ item \in ItemSet /\ S \in SUBSET VersionSet
  /\ item.added \in {None} \cup S /\ item.deprecated \in {None} \cup S
  /\ \A i \in DOMAIN item.changes : item.changes[i].since \in S
  /\ (item.added # None /\ item.deprecated # None) => VersionLess(item.added, item.deprecated)
  /\ \A i \in DOMAIN item.changes :
       /\ item.added # None => VersionLess(item.added, item.changes[i].since)
       /\ item.deprecated # None => VersionLess(item.changes[i].since, item.deprecated)
  /\ \A i, j \in DOMAIN item.changes :
       i < j => VersionLess(item.changes[i].since, item.changes[j].since)
  /\ item.deprecated = None => original(item) = cleaned(item)

\* The types of an item's parts.
LEMMA ItemTypes ==
  ASSUME NEW item \in ItemSet
  PROVE  /\ item.ident \in IdentSet
         /\ item.added \in {None} \cup VersionSet /\ item.deprecated \in {None} \cup VersionSet
         /\ item.changes \in Seq(ChangeSet) /\ Len(item.changes) \in Nat
         /\ DOMAIN item.changes = 1..Len(item.changes)
         /\ \A i \in 1..Len(item.changes) : /\ item.changes[i] \in ChangeSet
                                            /\ item.changes[i].since \in VersionSet
         /\ item.nested \in BOOLEAN
<1>1. item.changes \in Seq(ChangeSet)
  BY DEF ItemSet
<1>2. \A i \in 1..Len(item.changes) : item.changes[i] \in ChangeSet
  BY <1>1
<1>3. \A c \in ChangeSet : c.since \in VersionSet
  BY DEF ChangeSet
<1>4. /\ item.ident \in IdentSet
      /\ item.added \in {None} \cup VersionSet /\ item.deprecated \in {None} \cup VersionSet
      /\ item.nested \in BOOLEAN
  BY DEF ItemSet
<1>5. Len(item.changes) \in Nat /\ DOMAIN item.changes = 1..Len(item.changes)
  BY <1>1
<1>6. QED
  BY <1>1, <1>2, <1>3, <1>4, <1>5

\* An item without errors is accepted.
LEMMA ValidatedItem ==
  ASSUME NEW d, d.versions \in Seq(VersionSet), NEW item \in ItemSet,
         ItemErrors(item, d) = {}, ~UnorderedChanges(item)
  PROVE  AcceptedItem(item, Range(d.versions))
<1> DEFINE S == Range(d.versions)
           n == Len(item.changes)
<1>1. S \in SUBSET VersionSet
  BY SortedVersionsAscend
<1>2. None \notin VersionSet
  BY VersionedAssumption
<1>3. /\ validate_action_combinations(item) /\ validate_action_order(item)
      /\ validate_item_name(item) /\ validate_versions(item, d)
  BY DEF ItemErrors
<1>4. \A i \in 1..n : item.changes[i].since \in VersionSet
  BY ItemTypes
<1>5. DOMAIN item.changes = 1..n /\ n \in Nat
  BY ItemTypes
<1>6. /\ item.added \in {None} \cup S /\ item.deprecated \in {None} \cup S
      /\ \A i \in DOMAIN item.changes : item.changes[i].since \in S
  <2> HIDE DEF S
  <2>1. {item.added, item.deprecated} \cup {item.changes[i].since : i \in DOMAIN item.changes}
          \subseteq S \cup {None}
    BY <1>3 DEF validate_versions, S
  <2>2. item.added \in {None} \cup S /\ item.deprecated \in {None} \cup S
    BY <2>1
  <2>3. ASSUME NEW i \in DOMAIN item.changes PROVE item.changes[i].since \in S
    BY <1>2, <1>4, <1>5, <2>1
  <2>4. QED
    BY <2>2, <2>3
<1>7. (item.added # None /\ item.deprecated # None) => VersionLess(item.added, item.deprecated)
  <2>1. SUFFICES ASSUME item.added # None, item.deprecated # None
                 PROVE  VersionLess(item.added, item.deprecated)
    OBVIOUS
  <2>2. item.added \in VersionSet /\ item.deprecated \in VersionSet
    BY <2>1, ItemTypes
  <2>3. item.added # item.deprecated /\ ~VersionLess(item.deprecated, item.added)
    BY <1>3, <2>1 DEF validate_action_combinations, validate_action_order
  <2>4. QED
    BY <2>2, <2>3, VersionOrder
<1>8. \A i \in DOMAIN item.changes :
        /\ item.added # None => VersionLess(item.added, item.changes[i].since)
        /\ item.deprecated # None => VersionLess(item.changes[i].since, item.deprecated)
  BY <1>3 DEF validate_action_order
<1>9. ASSUME NEW i \in DOMAIN item.changes, NEW j \in DOMAIN item.changes, i < j
      PROVE  VersionLess(item.changes[i].since, item.changes[j].since)
  BY <1>9 DEF UnorderedChanges, NotBefore
<1>10. item.deprecated = None => original(item) = cleaned(item)
  <2>1. item.ident \in IdentSet
    BY ItemTypes
  <2>2. item.ident[2] \in BOOLEAN /\ item.ident = <<item.ident[1], item.ident[2]>>
    BY <2>1 DEF IdentSet
  <2>3. item.deprecated = None => item.ident[2] = FALSE
    BY <1>3, <2>2 DEF validate_item_name
  <2>4. QED
    BY <2>2, <2>3 DEF original, cleaned
<1>11. QED
  BY <1>1, <1>6, <1>7, <1>8, <1>9, <1>10 DEF AcceptedItem

(***************************************************************************)
(* The actions of an item                                                  *)
(***************************************************************************)
\* Two changes are in different versions.
LEMMA SinceDistinct ==
  ASSUME NEW S, NEW item, AcceptedItem(item, S),
         NEW i \in DOMAIN item.changes, NEW j \in DOMAIN item.changes,
         item.changes[i].since = item.changes[j].since
  PROVE  i = j
<1>1. i \in Nat /\ j \in Nat /\ item.changes[i].since \in VersionSet
  BY ItemTypes DEF AcceptedItem
<1>2. /\ i < j => VersionLess(item.changes[i].since, item.changes[j].since)
      /\ j < i => VersionLess(item.changes[j].since, item.changes[i].since)
  BY DEF AcceptedItem
<1>3. QED
  BY <1>1, <1>2, VersionOrder

\* The least of a set of indices.
LEMMA MinOf ==
  ASSUME NEW T, T \subseteq Nat, T # {}
  PROVE  Min(T) \in T /\ \A m \in T : Min(T) <= m
<1>1. \E n \in T : \A m \in T : n <= m
  BY LeastNumber
<1>2. QED
  BY <1>1 DEF Min

\* The changes after the first i.
After(item, i) == (i + 1)..Len(item.changes)

NameAfter(item, i) == NameFrom(item, After(item, i) \cap Renames(item))
TypeAfter(item, i) == TypeFrom(item, After(item, i) \cap Retypes(item))

\* The status of the version of a change.
ChangeAt(item, i) ==
  Change(NameAfter(item, i - 1), TypeAfter(item, i - 1), NameAfter(item, i), TypeAfter(item, i),
         item.changes[i])

Versions(item, i) == {item.changes[j].since : j \in After(item, i)}

ActionsAfter(item, i) ==
  [v \in ({item.deprecated} \ {None}) \cup Versions(item, i) |->
     IF v = item.deprecated THEN Deprecation(cleaned(item), original(item))
     ELSE ChangeAt(item, CHOOSE j \in DOMAIN item.changes : item.changes[j].since = v)]

\* What the item is after its first i changes, and the actions that follow.
PastAt(item, i) ==
  [ident |-> NameAfter(item, i), ty |-> TypeAfter(item, i), actions |-> ActionsAfter(item, i)]

\* After the last change an item is as declared.
LEMMA PastAtEnd ==
  ASSUME NEW S, NEW item, AcceptedItem(item, S)
  PROVE  AsDeclared(item) = PastAt(item, Len(item.changes))
<1> DEFINE n == Len(item.changes)
<1>1. item \in ItemSet /\ n \in Nat
  BY ItemTypes DEF AcceptedItem
<1>2. After(item, n) = {}
  BY <1>1 DEF After
<1>3. NameAfter(item, n) = cleaned(item) /\ TypeAfter(item, n) = item.ty
  BY <1>2 DEF NameAfter, TypeAfter, NameFrom, TypeFrom
<1>4. Versions(item, n) = {}
  BY <1>2 DEF Versions
<1>5. ActionsAfter(item, n) =
        IF item.deprecated = None THEN EmptyMap
        ELSE MapInsert(EmptyMap, item.deprecated, Deprecation(cleaned(item), original(item)))
  <2>1. CASE item.deprecated = None
    <3>1. ({item.deprecated} \ {None}) \cup Versions(item, n) = {}
      BY <1>4, <2>1
    <3>2. QED
      BY <2>1, <3>1 DEF ActionsAfter, EmptyMap
  <2>2. CASE item.deprecated # None
    <3>1. ({item.deprecated} \ {None}) \cup Versions(item, n) = {item.deprecated}
      BY <1>4, <2>2
    <3>2. QED
      BY <2>2, <3>1 DEF ActionsAfter, MapInsert, EmptyMap
  <2>3. QED
    BY <2>1, <2>2
<1>6. (IF item.deprecated # None THEN cleaned(item) ELSE original(item)) = cleaned(item)
  BY DEF AcceptedItem
<1>7. QED
  BY <1>3, <1>5, <1>6 DEF AsDeclared, PastAt

\* Undoing a change leads to the past before it.
LEMMA PastAtStep ==
  ASSUME NEW S, NEW item, AcceptedItem(item, S), NEW i \in 1..Len(item.changes)
  PROVE  Undo(item.changes[i], PastAt(item, i)) = PastAt(item, i - 1)
<1> DEFINE n == Len(item.changes)
           c == item.changes
<1>1. /\ item \in ItemSet /\ n \in Nat /\ DOMAIN c = 1..n
      /\ \A j \in 1..n : c[j].since \in VersionSet
  BY ItemTypes DEF AcceptedItem
<1>2. After(item, i - 1) = {i} \cup After(item, i) /\ After(item, i - 1) \subseteq 1..n
  BY <1>1 DEF After
<1>3. \A j \in After(item, i) : i <= j
  BY <1>1 DEF After
<1>4. ASSUME NEW M, M \subseteq 1..n, i \in M
      PROVE  Min(After(item, i - 1) \cap M) = i /\ After(item, i - 1) \cap M # {}
  <2> DEFINE T == After(item, i - 1) \cap M
  <2>1. T \subseteq Nat /\ i \in T /\ \A j \in T : i <= j
    BY <1>1, <1>2, <1>3, <1>4
  <2> HIDE DEF T
  <2>2. Min(T) \in T /\ Min(T) <= i
    BY <2>1, MinOf
  <2>3. i <= Min(T) /\ Min(T) \in Nat
    BY <2>1, <2>2
  <2>4. Min(T) = i /\ T # {}
    BY <2>1, <2>2, <2>3
  <2>5. QED
    BY <2>4 DEF T
<1>5. ASSUME NEW M, i \notin M PROVE After(item, i - 1) \cap M = After(item, i) \cap M
  BY <1>2, <1>5
<1>6. NameAfter(item, i - 1) = IF c[i].from_name = None THEN NameAfter(item, i) ELSE c[i].from_name
  <2>1. Renames(item) \subseteq 1..n /\ (i \in Renames(item) <=> c[i].from_name # None)
    BY <1>1 DEF Renames
  <2>2. CASE c[i].from_name = None
    BY <1>5, <2>1, <2>2 DEF NameAfter
  <2>3. CASE c[i].from_name # None
    BY <1>4, <2>1, <2>3 DEF NameAfter, NameFrom
  <2>4. QED
    BY <2>2, <2>3
<1>7. TypeAfter(item, i - 1) = IF c[i].from_type = None THEN TypeAfter(item, i) ELSE c[i].from_type
  <2>1. Retypes(item) \subseteq 1..n /\ (i \in Retypes(item) <=> c[i].from_type # None)
    BY <1>1 DEF Retypes
  <2>2. CASE c[i].from_type = None
    BY <1>5, <2>1, <2>2 DEF TypeAfter
  <2>3. CASE c[i].from_type # None
    BY <1>4, <2>1, <2>3 DEF TypeAfter, TypeFrom
  <2>4. QED
    BY <2>2, <2>3
<1>8. ActionsAfter(item, i - 1) = MapInsert(ActionsAfter(item, i), c[i].since, ChangeAt(item, i))
  <2> DEFINE D(k) == ({item.deprecated} \ {None}) \cup Versions(item, k)
             at(v) == IF v = item.deprecated THEN Deprecation(cleaned(item), original(item))
                      ELSE ChangeAt(item, CHOOSE j \in DOMAIN c : c[j].since = v)
  <2>1. Versions(item, i - 1) = Versions(item, i) \cup {c[i].since}
    BY <1>2 DEF Versions
  <2>2. D(i - 1) = D(i) \cup {c[i].since}
    BY <2>1
  <2>3. at(c[i].since) = ChangeAt(item, i)
    <3>1. c[i].since # item.deprecated
      <4>1. item.deprecated # None => VersionLess(c[i].since, item.deprecated)
        BY <1>1 DEF AcceptedItem
      <4>2. c[i].since \in VersionSet /\ None \notin VersionSet
        BY <1>1, VersionedAssumption
      <4>3. QED
        BY <4>1, <4>2, VersionOrder
    <3>2. ASSUME NEW j \in DOMAIN c, c[j].since = c[i].since PROVE j = i
      BY <1>1, <3>2, SinceDistinct
    <3>3. (CHOOSE j \in DOMAIN c : c[j].since = c[i].since) = i
      BY <1>1, <3>2
    <3>4. QED
      BY <3>1, <3>3
  <2>4. ActionsAfter(item, i - 1) = [v \in D(i - 1) |-> at(v)]
    BY DEF ActionsAfter
  <2>5. ActionsAfter(item, i) = [v \in D(i) |-> at(v)]
    BY DEF ActionsAfter
  <2> HIDE DEF at, D
  <2>6. QED
    BY <2>2, <2>3, <2>4, <2>5 DEF MapInsert
<1>9. QED
  BY <1>6, <1>7, <1>8 DEF Undo, PastAt, ChangeAt

\* The recursion back through the changes of an item has its meaning.
LEMMA PastIs ==
  ASSUME NEW S, NEW item, AcceptedItem(item, S), NEW i \in 0..Len(item.changes)
  PROVE  Past(item, item.changes)[i] = PastAt(item, i)
<1> DEFINE n == Len(item.changes)
           Body(g) == [k \in 0..n |-> IF k = n THEN AsDeclared(item)
                                      ELSE Undo(item.changes[k + 1], g[k + 1])]
           closed == [k \in 0..n |-> PastAt(item, k)]
           past == Past(item, item.changes)
<1>1. n \in Nat
  BY ItemTypes DEF AcceptedItem
<1>2. past = CHOOSE g : g = Body(g)
  BY DEF Past
<1>3. AsDeclared(item) = PastAt(item, n)
  BY PastAtEnd
<1>4. \A k \in 0..n : k # n => /\ k + 1 \in 0..n /\ k + 1 \in 1..n
                               /\ Undo(item.changes[k + 1], PastAt(item, k + 1)) = PastAt(item, k)
  <2>1. SUFFICES ASSUME NEW k \in 0..n, k # n
                 PROVE  /\ k + 1 \in 0..n /\ k + 1 \in 1..n
                        /\ Undo(item.changes[k + 1], PastAt(item, k + 1)) = PastAt(item, k)
    OBVIOUS
  <2>2. k + 1 \in 0..n /\ k + 1 \in 1..n /\ (k + 1) - 1 = k
    BY <1>1, <2>1
  <2>3. Undo(item.changes[k + 1], PastAt(item, k + 1)) = PastAt(item, (k + 1) - 1)
    BY <2>2, PastAtStep
  <2>4. QED
    BY <2>2, <2>3
<1>5. closed = Body(closed)
  BY <1>3, <1>4
<1>6. past = Body(past)
  <2> HIDE DEF Body, closed, past
  <2>1. QED
    BY <1>2, <1>5
<1>7. \A k \in 0..n : past[k] = IF k = n THEN AsDeclared(item)
                                ELSE Undo(item.changes[k + 1], past[k + 1])
  <2>1. ASSUME NEW g, g = Body(g), NEW k \in 0..n
        PROVE  g[k] = IF k = n THEN AsDeclared(item) ELSE Undo(item.changes[k + 1], g[k + 1])
    BY <2>1
  <2> HIDE DEF Body, past
  <2>2. QED
    BY <1>6, <2>1
<1> HIDE DEF past
<1> DEFINE T == {m \in 0..n : past[n - m] # PastAt(item, n - m)}
<1>8. ASSUME T # {} PROVE FALSE
  <2>1. PICK m \in T : \A x \in T : m <= x
    <3>1. T \subseteq Nat
      OBVIOUS
    <3> HIDE DEF T
    <3>2. QED
      BY <1>8, <3>1, LeastNumber
  <2>2. m \in 0..n /\ past[n - m] # PastAt(item, n - m)
    OBVIOUS
  <2>3. n \in 0..n /\ n - 0 = n
    BY <1>1
  <2>4. m # 0
    BY <1>3, <1>7, <2>2, <2>3
  <2>5. n - m \in 0..n /\ n - m # n /\ (n - m) + 1 = n - (m - 1) /\ m - 1 \in 0..n /\ ~(m <= m - 1)
    BY <1>1, <2>2, <2>4
  <2>6. past[n - (m - 1)] = PastAt(item, n - (m - 1))
    BY <2>1, <2>5
  <2>7. past[n - m] = Undo(item.changes[(n - m) + 1], past[(n - m) + 1])
    BY <1>7, <2>5
  <2>8. past[n - m] = PastAt(item, n - m)
    BY <1>4, <2>5, <2>6, <2>7
  <2>9. QED
    BY <2>2, <2>8
<1>9. n - i \in 0..n /\ n - (n - i) = i
  BY <1>1
<1>10. past[i] = PastAt(item, i)
  <2>1. n - i \notin T
    BY <1>8
  <2>2. QED
    BY <1>9, <2>1
<1>11. QED
  BY <1>10 DEF past

(***************************************************************************)
(* The status of every version, read off the declaration                   *)
(***************************************************************************)
\* What happens to an item in version v.
StatusOf(item, v) ==
  IF ~PresentIn(item, v) THEN NotPresent
  ELSE IF v = item.added THEN Addition(NameIn(item, v), TypeIn(item, v))
  ELSE IF \E i \in DOMAIN item.changes : item.changes[i].since = v
       THEN ChangeAt(item, CHOOSE i \in DOMAIN item.changes : item.changes[i].since = v)
  ELSE IF v = item.deprecated THEN Deprecation(cleaned(item), original(item))
  ELSE NoChange(DeprecatedIn(item, v), NameIn(item, v), TypeIn(item, v))

ActionVersions(item) ==
  ({item.added, item.deprecated} \ {None})
    \cup {item.changes[i].since : i \in DOMAIN item.changes}

\* The name and type where the changes after the first i are still to come.
LEMMA NameInPast ==
  ASSUME NEW item, NEW v, NEW i, LaterChanges(item, v) = After(item, i)
  PROVE  /\ TypeIn(item, v) = TypeAfter(item, i)
         /\ ~DeprecatedIn(item, v) => NameIn(item, v) = NameAfter(item, i)
BY DEF TypeIn, NameIn, TypeAfter, NameAfter

\* The version in which an item was added.
LEMMA AtAddition ==
  ASSUME NEW S, NEW item, AcceptedItem(item, S), item.added # None
  PROVE  /\ PresentIn(item, item.added) /\ ~DeprecatedIn(item, item.added)
         /\ LaterChanges(item, item.added) = After(item, 0)
         /\ StatusOf(item, item.added) = Addition(NameAfter(item, 0), TypeAfter(item, 0))
<1>1. item.added \in VersionSet
  BY ItemTypes DEF AcceptedItem
<1>2. PresentIn(item, item.added)
  BY <1>1, VersionOrder DEF PresentIn, NotBefore
<1>3. ~DeprecatedIn(item, item.added)
  BY DEF DeprecatedIn, NotBefore, AcceptedItem
<1>4. /\ DOMAIN item.changes = 1..Len(item.changes)
      /\ \A j \in DOMAIN item.changes : VersionLess(item.added, item.changes[j].since)
  BY ItemTypes DEF AcceptedItem
<1>5. LaterChanges(item, item.added) = After(item, 0)
  BY <1>4 DEF LaterChanges, After
<1>6. QED
  BY <1>2, <1>3, <1>5, NameInPast DEF StatusOf

\* A version with a change.
LEMMA AtChange ==
  ASSUME NEW S, NEW item, AcceptedItem(item, S), NEW i \in DOMAIN item.changes
  PROVE  /\ PresentIn(item, item.changes[i].since) /\ ~DeprecatedIn(item, item.changes[i].since)
         /\ item.changes[i].since \notin {item.added, item.deprecated}
         /\ LaterChanges(item, item.changes[i].since) = After(item, i)
         /\ StatusOf(item, item.changes[i].since) = ChangeAt(item, i)
<1> DEFINE c == item.changes
           v == c[i].since
<1>1. /\ item.added \in {None} \cup VersionSet /\ item.deprecated \in {None} \cup VersionSet
      /\ Len(c) \in Nat /\ DOMAIN c = 1..Len(c) /\ \A j \in 1..Len(c) : c[j].since \in VersionSet
      /\ None \notin VersionSet
  BY ItemTypes, VersionedAssumption DEF AcceptedItem
<1>2. /\ item.added # None => VersionLess(item.added, v)
      /\ item.deprecated # None => VersionLess(v, item.deprecated)
      /\ \A j, k \in DOMAIN c : j < k => VersionLess(c[j].since, c[k].since)
  BY DEF AcceptedItem
<1>3. PresentIn(item, v)
  BY <1>1, <1>2, VersionOrder DEF PresentIn, NotBefore
<1>4. ~DeprecatedIn(item, v)
  BY <1>2 DEF DeprecatedIn, NotBefore
<1>5. v \notin {item.added, item.deprecated}
  BY <1>1, <1>2, VersionOrder
<1>6. LaterChanges(item, v) = After(item, i)
  <2>1. ASSUME NEW j \in 1..Len(c) PROVE VersionLess(v, c[j].since) <=> i < j
    <3>1. CASE i < j
      BY <1>1, <1>2, <3>1
    <3>2. CASE ~(i < j)
      <4>1. c[j].since = v \/ VersionLess(c[j].since, v)
        BY <1>1, <1>2, <3>2
      <4>2. v \in VersionSet /\ c[j].since \in VersionSet
        BY <1>1
      <4>3. QED
        BY <3>2, <4>1, <4>2, VersionOrder
    <3>3. QED
      BY <3>1, <3>2
  <2>2. QED
    BY <1>1, <2>1 DEF LaterChanges, After
<1>7. (CHOOSE j \in DOMAIN c : c[j].since = v) = i
  <2>1. \A j \in DOMAIN c : c[j].since = v => j = i
    BY SinceDistinct
  <2>2. QED
    BY <2>1
<1>8. StatusOf(item, v) = ChangeAt(item, i)
  BY <1>3, <1>5, <1>7 DEF StatusOf
<1>9. QED
  BY <1>3, <1>4, <1>5, <1>6, <1>8

\* The version in which an item was deprecated.
LEMMA AtDeprecation ==
  ASSUME NEW S, NEW item, AcceptedItem(item, S), item.deprecated # None
  PROVE  /\ PresentIn(item, item.deprecated) /\ DeprecatedIn(item, item.deprecated)
         /\ item.deprecated # item.added
         /\ LaterChanges(item, item.deprecated) = {}
         /\ StatusOf(item, item.deprecated) = Deprecation(cleaned(item), original(item))
<1> DEFINE v == item.deprecated
<1>1. /\ item.added \in {None} \cup VersionSet /\ v \in VersionSet
      /\ DOMAIN item.changes = 1..Len(item.changes)
      /\ \A j \in 1..Len(item.changes) : item.changes[j].since \in VersionSet
      /\ None \notin VersionSet
  BY ItemTypes, VersionedAssumption DEF AcceptedItem
<1>2. /\ item.added # None => VersionLess(item.added, v)
      /\ \A j \in DOMAIN item.changes : VersionLess(item.changes[j].since, v)
  BY DEF AcceptedItem
<1>3. PresentIn(item, v)
  BY <1>1, <1>2, VersionOrder DEF PresentIn, NotBefore
<1>4. DeprecatedIn(item, v)
  BY <1>1, VersionOrder DEF DeprecatedIn, NotBefore
<1>5. v # item.added
  BY <1>1, <1>2, VersionOrder
<1>6. \A j \in DOMAIN item.changes : ~VersionLess(v, item.changes[j].since)
                                     /\ item.changes[j].since # v
  BY <1>1, <1>2, VersionOrder
<1>7. LaterChanges(item, v) = {}
  BY <1>6 DEF LaterChanges
<1>8. StatusOf(item, v) = Deprecation(cleaned(item), original(item))
  BY <1>3, <1>5, <1>6 DEF StatusOf
<1>9. QED
  BY <1>3, <1>4, <1>5, <1>7, <1>8

\* into_changeset finds the status of every version with an action.
LEMMA ChangesetIs ==
  ASSUME NEW S, NEW item, AcceptedItem(item, S)
  PROVE  into_changeset(item) = [v \in ActionVersions(item) |-> StatusOf(item, v)]
<1> DEFINE n == Len(item.changes)
           A == ({item.deprecated} \ {None}) \cup Versions(item, 0)
<1>1. n \in Nat /\ 0 \in 0..n /\ DOMAIN item.changes = 1..n /\ None \notin VersionSet
      /\ \A j \in 1..n : item.changes[j].since \in VersionSet
  BY ItemTypes, VersionedAssumption DEF AcceptedItem
<1>2. Past(item, item.changes)[0] = PastAt(item, 0)
  BY <1>1, PastIs
<1>3. After(item, 0) = DOMAIN item.changes
  BY <1>1 DEF After
<1>4. ActionVersions(item) = A \cup ({item.added} \ {None})
  BY <1>3 DEF ActionVersions, Versions
<1>5. ActionsAfter(item, 0) = [v \in A |-> StatusOf(item, v)]
  <2> DEFINE at(v) == IF v = item.deprecated THEN Deprecation(cleaned(item), original(item))
                      ELSE ChangeAt(item, CHOOSE j \in DOMAIN item.changes : item.changes[j].since = v)
  <2>1. ASSUME NEW v \in A PROVE at(v) = StatusOf(item, v)
    <3>1. CASE v = item.deprecated
      <4>1. item.deprecated # None
        BY <1>1, <1>3, <3>1 DEF Versions
      <4>2. QED
        BY <3>1, <4>1, AtDeprecation
    <3>2. CASE v # item.deprecated
      <4>1. PICK i \in DOMAIN item.changes : item.changes[i].since = v
        BY <1>3, <3>2 DEF Versions
      <4>2. (CHOOSE j \in DOMAIN item.changes : item.changes[j].since = v) = i
        <5>1. \A j \in DOMAIN item.changes : item.changes[j].since = v => j = i
          BY <4>1, SinceDistinct
        <5>2. QED
          BY <4>1, <5>1
      <4>3. QED
        BY <3>2, <4>1, <4>2, AtChange
    <3>3. QED
      BY <3>1, <3>2
  <2>2. ActionsAfter(item, 0) = [v \in A |-> at(v)]
    BY DEF ActionsAfter
  <2> HIDE DEF at, A
  <2>3. QED
    BY <2>1, <2>2
<1>6. CASE item.added = None
  BY <1>2, <1>4, <1>5, <1>6 DEF into_changeset, Actions, PastAt
<1>7. CASE item.added # None
  <2> DEFINE added == Addition(NameAfter(item, 0), TypeAfter(item, 0))
  <2>1. into_changeset(item) = MapInsert(ActionsAfter(item, 0), item.added, added)
    BY <1>2, <1>7 DEF into_changeset, Actions, PastAt
  <2>2. StatusOf(item, item.added) = added
    BY <1>7, AtAddition
  <2> HIDE DEF added, A
  <2>3. ActionVersions(item) = A \cup {item.added}
    BY <1>4, <1>7
  <2>4. QED
    BY <1>5, <2>1, <2>2, <2>3 DEF MapInsert
<1>8. QED
  BY <1>6, <1>7

(***************************************************************************)
(* Versions without an action                                              *)
(***************************************************************************)
\* In an ascending list the order of versions is that of their places.
LEMMA Places ==
  ASSUME NEW S \in SUBSET VersionSet, NEW versions, Ascends(versions, S)
  PROVE  /\ Len(versions) \in Nat /\ DOMAIN versions = 1..Len(versions)
         /\ \A i \in 1..Len(versions) : versions[i] \in S
         /\ \A v \in S : \E i \in 1..Len(versions) : v = versions[i]
         /\ \A i, j \in 1..Len(versions) : /\ VersionLess(versions[i], versions[j]) <=> i < j
                                           /\ versions[i] = versions[j] => i = j
<1> DEFINE n == Cardinality(S)
<1>1. n \in Nat /\ versions \in [1..n -> S] /\ DOMAIN versions = 1..n
  BY DEF Ascends
<1>2. versions \in Seq(S)
  BY <1>1, SeqDef
<1>3. Len(versions) = n
  BY <1>1, <1>2, LenProperties
<1>4. \A v \in S : \E i \in 1..n : v = versions[i]
  BY <1>1 DEF Ascends, Range
<1>5. ASSUME NEW i \in 1..n, NEW j \in 1..n
      PROVE  /\ VersionLess(versions[i], versions[j]) <=> i < j
             /\ versions[i] = versions[j] => i = j
  <2>1. versions[i] \in VersionSet /\ versions[j] \in VersionSet
    BY <1>1
  <2>2. /\ i < j => VersionLess(versions[i], versions[j])
        /\ j < i => VersionLess(versions[j], versions[i])
    BY <1>1 DEF Ascends
  <2>3. i < j \/ i = j \/ j < i
    BY <1>1
  <2>4. CASE i < j
    <3>1. versions[i] # versions[j]
      BY <2>1, <2>2, <2>4, VersionOrder
    <3>2. QED
      BY <2>2, <2>4, <3>1
  <2>5. CASE i = j
    <3>1. ~VersionLess(versions[i], versions[j])
      BY <2>1, <2>5, VersionOrder
    <3>2. ~(i < j)
      BY <1>1, <2>5
    <3>3. QED
      BY <2>5, <3>1, <3>2
  <2>6. CASE j < i
    <3>1. ~VersionLess(versions[i], versions[j]) /\ versions[i] # versions[j]
      BY <2>1, <2>2, <2>6, VersionOrder
    <3>2. ~(i < j)
      BY <1>1, <2>6
    <3>3. QED
      BY <3>1, <3>2
  <2>7. QED
    BY <2>3, <2>4, <2>5, <2>6
<1>6. QED
  BY <1>1, <1>3, <1>4, <1>5

\* All actions of an accepted item are in declared versions.
LEMMA ActionVersionsDeclared ==
  ASSUME NEW S, NEW item, AcceptedItem(item, S)
  PROVE  /\ S \in SUBSET VersionSet /\ ActionVersions(item) \in SUBSET S
         /\ None \notin S
<1>1. None \notin VersionSet /\ S \in SUBSET VersionSet
  BY VersionedAssumption DEF AcceptedItem
<1>2. QED
  BY <1>1 DEF AcceptedItem, ActionVersions

\* Between two versions without an action in between, nothing happens to the item.
LEMMA QuietVersions ==
  ASSUME NEW S, NEW item, AcceptedItem(item, S), NEW u \in S, NEW v \in S, VersionLess(u, v),
         \A w \in ActionVersions(item) : VersionLess(u, w) => VersionLess(v, w)
  PROVE  /\ PresentIn(item, u) <=> PresentIn(item, v)
         /\ DeprecatedIn(item, u) <=> DeprecatedIn(item, v)
         /\ LaterChanges(item, u) = LaterChanges(item, v)
         /\ NameIn(item, u) = NameIn(item, v) /\ TypeIn(item, u) = TypeIn(item, v)
<1>1. S \in SUBSET VersionSet /\ ActionVersions(item) \in SUBSET S
  BY ActionVersionsDeclared
<1>2. \A w \in ActionVersions(item) : VersionLess(u, w) <=> VersionLess(v, w)
  <2>1. \A w \in ActionVersions(item) : VersionLess(v, w) => VersionLess(u, w)
    BY <1>1, VersionOrder
  <2>2. QED
    BY <2>1
<1>3. /\ item.added # None => item.added \in ActionVersions(item)
      /\ item.deprecated # None => item.deprecated \in ActionVersions(item)
      /\ \A i \in DOMAIN item.changes : item.changes[i].since \in ActionVersions(item)
  BY DEF ActionVersions
<1>4. PresentIn(item, u) <=> PresentIn(item, v)
  BY <1>2, <1>3 DEF PresentIn, NotBefore
<1>5. DeprecatedIn(item, u) <=> DeprecatedIn(item, v)
  BY <1>2, <1>3 DEF DeprecatedIn, NotBefore
<1>6. LaterChanges(item, u) = LaterChanges(item, v)
  BY <1>2, <1>3 DEF LaterChanges
<1>7. NameIn(item, u) = NameIn(item, v) /\ TypeIn(item, u) = TypeIn(item, v)
  BY <1>5, <1>6 DEF NameIn, TypeIn
<1>8. QED
  BY <1>4, <1>5, <1>6, <1>7

\* A version without an action has the item as it is, or does not have it.
LEMMA AtQuietVersion ==
  ASSUME NEW S, NEW item, AcceptedItem(item, S), NEW v \in S, v \notin ActionVersions(item)
  PROVE  StatusOf(item, v) = IF PresentIn(item, v)
                             THEN NoChange(DeprecatedIn(item, v), NameIn(item, v), TypeIn(item, v))
                             ELSE NotPresent
<1>1. v # item.added /\ v # item.deprecated /\ \A i \in DOMAIN item.changes : item.changes[i].since # v
  BY ActionVersionsDeclared DEF ActionVersions
<1>2. QED
  BY <1>1 DEF StatusOf

\* The status of a version before all actions follows from that of the first action.
LEMMA BeforeFirstAction ==
  ASSUME NEW S, NEW item, AcceptedItem(item, S), NEW v \in S, NEW w \in ActionVersions(item),
         \A x \in ActionVersions(item) : VersionLess(v, x) /\ ~VersionLess(x, w)
  PROVE  StatusBefore(StatusOf(item, w), item.ty) = StatusOf(item, v)
<1>1. /\ S \in SUBSET VersionSet /\ ActionVersions(item) \in SUBSET S /\ None \notin S
      /\ v \notin ActionVersions(item)
  BY ActionVersionsDeclared, VersionOrder
<1>2. /\ item.added # None => item.added \in ActionVersions(item)
      /\ item.deprecated # None => item.deprecated \in ActionVersions(item)
      /\ \A i \in DOMAIN item.changes : item.changes[i].since \in ActionVersions(item)
  BY DEF ActionVersions
<1>3. StatusOf(item, v) = IF PresentIn(item, v)
                          THEN NoChange(DeprecatedIn(item, v), NameIn(item, v), TypeIn(item, v))
                          ELSE NotPresent
  BY <1>1, AtQuietVersion
<1>4. ~DeprecatedIn(item, v)
  BY <1>2 DEF DeprecatedIn, NotBefore
<1>5. DeprecatedIn(item, v) = FALSE
  BY <1>4 DEF DeprecatedIn
<1>6. PresentIn(item, v) <=> item.added = None
  BY <1>2 DEF PresentIn, NotBefore
<1>7. DOMAIN item.changes = 1..Len(item.changes) /\ Len(item.changes) \in Nat
  BY ItemTypes DEF AcceptedItem
<1>8. LaterChanges(item, v) = After(item, 0)
  BY <1>2, <1>7 DEF LaterChanges, After
<1>9. NameIn(item, v) = NameAfter(item, 0) /\ TypeIn(item, v) = TypeAfter(item, 0)
  BY <1>4, <1>8, NameInPast
<1>10. CASE item.added # None
  <2>1. w = item.added
    <3>1. \A x \in ActionVersions(item) : x = item.added \/ VersionLess(item.added, x)
      BY <1>10 DEF ActionVersions, AcceptedItem
    <3>2. QED
      BY <1>2, <1>10, <3>1
  <2>2. StatusOf(item, w).status = "Addition"
    <3>1. StatusOf(item, item.added) = Addition(NameAfter(item, 0), TypeAfter(item, 0))
      BY <1>10, AtAddition
    <3>2. QED
      BY <2>1, <3>1 DEF Addition
  <2>3. StatusOf(item, v) = NotPresent
    BY <1>3, <1>6, <1>10
  <2>4. QED
    BY <2>2, <2>3 DEF StatusBefore
<1>11. CASE item.added = None /\ DOMAIN item.changes # {}
  <2>1. 1 \in DOMAIN item.changes
    BY <1>7, <1>11
  <2>2. w = item.changes[1].since
    <3>1. \A x \in ActionVersions(item) :
            x = item.changes[1].since \/ VersionLess(item.changes[1].since, x)
      <4>1. \A j \in DOMAIN item.changes : j = 1 \/ 1 < j
        BY <1>7
      <4>2. QED
        BY <1>11, <2>1, <4>1 DEF ActionVersions, AcceptedItem
    <3>2. QED
      BY <1>2, <2>1, <3>1
  <2>3. StatusOf(item, w) = ChangeAt(item, 1)
    BY <2>1, <2>2, AtChange
  <2>4. /\ ChangeAt(item, 1).status = "Change"
        /\ ChangeAt(item, 1).from_ident = NameAfter(item, 0)
        /\ ChangeAt(item, 1).from_type = TypeAfter(item, 0)
    BY DEF ChangeAt, Change
  <2>5. StatusOf(item, v) = NoChange(FALSE, NameAfter(item, 0), TypeAfter(item, 0))
    BY <1>3, <1>5, <1>6, <1>9, <1>11
  <2>6. QED
    BY <2>3, <2>4, <2>5 DEF StatusBefore
<1>12. CASE item.added = None /\ DOMAIN item.changes = {}
  <2>1. w = item.deprecated /\ item.deprecated # None
    BY <1>12 DEF ActionVersions
  <2>2. StatusOf(item, w) = Deprecation(cleaned(item), original(item))
    <3>1. StatusOf(item, item.deprecated) = Deprecation(cleaned(item), original(item))
      BY <2>1, AtDeprecation
    <3>2. QED
      BY <2>1, <3>1
  <2>3. After(item, 0) = {}
    <3>1. After(item, 0) = 1..Len(item.changes)
      BY <1>7 DEF After
    <3>2. QED
      BY <1>7, <1>12, <3>1
  <2>4. NameAfter(item, 0) = cleaned(item) /\ TypeAfter(item, 0) = item.ty
    BY <2>3 DEF NameAfter, TypeAfter, NameFrom, TypeFrom
  <2>5. StatusOf(item, v) = NoChange(FALSE, cleaned(item), item.ty)
    BY <1>3, <1>5, <1>6, <1>9, <1>12, <2>4
  <2>6. QED
    BY <2>2, <2>5 DEF StatusBefore, Deprecation
<1>13. QED
  BY <1>10, <1>11, <1>12

\* A version without an action takes over the status of the version before it.
LEMMA BetweenActions ==
  ASSUME NEW S, NEW item, AcceptedItem(item, S), NEW u \in S, NEW v \in S, VersionLess(u, v),
         v \notin ActionVersions(item),
         \A w \in ActionVersions(item) : VersionLess(u, w) => VersionLess(v, w),
         NEW last \in BOOLEAN, last <=> \A w \in ActionVersions(item) : ~VersionLess(v, w)
  PROVE  StatusAfter(StatusOf(item, u), last, item.ty) = StatusOf(item, v)
<1>1. /\ PresentIn(item, u) <=> PresentIn(item, v)
      /\ DeprecatedIn(item, u) <=> DeprecatedIn(item, v)
      /\ LaterChanges(item, u) = LaterChanges(item, v)
      /\ NameIn(item, u) = NameIn(item, v) /\ TypeIn(item, u) = TypeIn(item, v)
  BY QuietVersions
<1>2. StatusOf(item, v) = IF PresentIn(item, v)
                          THEN NoChange(DeprecatedIn(item, v), NameIn(item, v), TypeIn(item, v))
                          ELSE NotPresent
  BY AtQuietVersion
<1>3. DeprecatedIn(item, v) \in BOOLEAN
  BY DEF DeprecatedIn
<1>4. CASE ~PresentIn(item, u)
  <2>1. StatusOf(item, u) = NotPresent /\ StatusOf(item, v) = NotPresent
    BY <1>1, <1>2, <1>4 DEF StatusOf
  <2>2. item.added \in ActionVersions(item) /\ VersionLess(u, item.added)
    BY <1>4 DEF PresentIn, NotBefore, ActionVersions
  <2>3. ~last
    BY <2>2
  <2>4. QED
    BY <2>1, <2>3 DEF StatusAfter, NotPresent
<1>5. CASE PresentIn(item, u) /\ u \notin ActionVersions(item)
  <2>1. StatusOf(item, u) = NoChange(DeprecatedIn(item, u), NameIn(item, u), TypeIn(item, u))
    BY <1>5, AtQuietVersion
  <2>2. DeprecatedIn(item, u) = DeprecatedIn(item, v)
    BY <1>1, <1>3 DEF DeprecatedIn
  <2>3. StatusOf(item, u) = StatusOf(item, v)
    BY <1>1, <1>2, <1>5, <2>1, <2>2
  <2>4. StatusOf(item, u).status = "NoChange"
    BY <2>1 DEF NoChange
  <2>5. QED
    BY <2>3, <2>4 DEF StatusAfter
<1>6. CASE u = item.added /\ item.added # None
  <2>1. /\ PresentIn(item, u) /\ ~DeprecatedIn(item, u)
        /\ LaterChanges(item, u) = After(item, 0)
    BY <1>6, AtAddition
  <2>2. StatusOf(item, item.added) = Addition(NameAfter(item, 0), TypeAfter(item, 0))
    BY <1>6, AtAddition
  <2>3. NameIn(item, u) = NameAfter(item, 0) /\ TypeIn(item, u) = TypeAfter(item, 0)
    BY <2>1, NameInPast
  <2>4. DeprecatedIn(item, v) = FALSE
    BY <1>1, <1>3, <2>1
  <2>5. StatusOf(item, v) = NoChange(FALSE, NameAfter(item, 0), TypeAfter(item, 0))
    BY <1>1, <1>2, <2>1, <2>3, <2>4
  <2>6. QED
    BY <1>6, <2>2, <2>5 DEF StatusAfter, Addition
<1>7. ASSUME NEW i \in DOMAIN item.changes, u = item.changes[i].since
      PROVE  StatusAfter(StatusOf(item, u), last, item.ty) = StatusOf(item, v)
  <2>1. /\ PresentIn(item, u) /\ ~DeprecatedIn(item, u)
        /\ LaterChanges(item, u) = After(item, i)
    BY <1>7, AtChange
  <2>2. StatusOf(item, u) = ChangeAt(item, i)
    BY <1>7, AtChange
  <2>3. NameIn(item, u) = NameAfter(item, i) /\ TypeIn(item, u) = TypeAfter(item, i)
    BY <2>1, NameInPast
  <2>4. DeprecatedIn(item, v) = FALSE
    BY <1>1, <1>3, <2>1
  <2>5. StatusOf(item, v) = NoChange(FALSE, NameAfter(item, i), TypeAfter(item, i))
    BY <1>1, <1>2, <2>1, <2>3, <2>4
  <2>6. /\ ChangeAt(item, i).status = "Change" /\ ChangeAt(item, i).ident = NameAfter(item, i)
        /\ ChangeAt(item, i).ty = TypeAfter(item, i)
    BY DEF ChangeAt, Change
  <2>7. QED
    BY <2>2, <2>5, <2>6 DEF StatusAfter
<1>8. CASE u = item.deprecated /\ item.deprecated # None
  <2>1. /\ PresentIn(item, u) /\ DeprecatedIn(item, u)
        /\ LaterChanges(item, u) = {}
    BY <1>8, AtDeprecation
  <2>2. StatusOf(item, item.deprecated) = Deprecation(cleaned(item), original(item))
    BY <1>8, AtDeprecation
  <2>3. NameIn(item, u) = original(item) /\ TypeIn(item, u) = item.ty
    BY <2>1 DEF NameIn, TypeIn, TypeFrom
  <2>4. DeprecatedIn(item, v) = TRUE
    BY <1>1, <1>3, <2>1
  <2>5. StatusOf(item, v) = NoChange(TRUE, original(item), item.ty)
    BY <1>1, <1>2, <2>1, <2>3, <2>4
  <2>6. last
    <3>1. S \in SUBSET VersionSet /\ ActionVersions(item) \in SUBSET S
      BY ActionVersionsDeclared
    <3>2. ASSUME NEW w \in ActionVersions(item) PROVE ~VersionLess(v, w)
      <4>1. w = u \/ VersionLess(w, u)
        BY <1>8 DEF ActionVersions, AcceptedItem
      <4>2. QED
        BY <3>1, <4>1, VersionOrder
    <3>3. QED
      BY <3>2
  <2>7. QED
    BY <1>8, <2>2, <2>5, <2>6 DEF StatusAfter, Deprecation
<1>9. QED
  BY <1>4, <1>5, <1>6, <1>7, <1>8 DEF ActionVersions

(***************************************************************************)
(* insert_container_versions                                               *)
(***************************************************************************)
\* The map after the first k versions.
InsertedAt(item, versions, k) ==
  [v \in ActionVersions(item) \cup {versions[j] : j \in 1..k} |-> StatusOf(item, v)]

\* A set of at most one element.
LEMMA TheOnly ==
  ASSUME NEW T, NEW x, T = {x}
  PROVE  T # {} /\ (CHOOSE y \in T : TRUE) = x
OBVIOUS

\* A function has no values on no arguments only.
LEMMA NoImage ==
  ASSUME NEW f, NEW T
  PROVE  {f[x] : x \in T} = {} <=> T = {}
OBVIOUS

\* The neighbour below decides about a version if there is one.
LEMMA BetweenBelow ==
  ASSUME NEW neighbors, NEW status, neighbors.below = {status}, NEW ty,
         NEW last \in BOOLEAN, last <=> neighbors.above = {}
  PROVE  StatusBetween(neighbors, ty) = StatusAfter(status, last, ty)
<1>1. neighbors.below # {} /\ (CHOOSE y \in neighbors.below : TRUE) = status
  BY TheOnly
<1>2. QED
  BY <1>1 DEF StatusBetween, StatusAfter

\* The first version has no neighbour below it; the next action decides.
LEMMA InsertFirst ==
  ASSUME NEW S, NEW item, AcceptedItem(item, S), NEW versions, Ascends(versions, S),
         ActionVersions(item) # {}, 1 \in 1..Len(versions), versions[1] \notin ActionVersions(item)
  PROVE  StatusBetween(get_neighbors(InsertedAt(item, versions, 0), versions[1]), item.ty)
           = StatusOf(item, versions[1])
<1> DEFINE v == versions[1]
           A == ActionVersions(item)
           n == Len(versions)
           map == InsertedAt(item, versions, 0)
           below == {w \in DOMAIN map : VersionLess(w, v)}
           above == {w \in DOMAIN map : VersionLess(v, w)}
           nearest == {x \in above : \A y \in above : ~VersionLess(y, x)}
           neighbors == get_neighbors(map, v)
<1>1. /\ S \in SUBSET VersionSet /\ A \in SUBSET S
  BY ActionVersionsDeclared
<1>2. /\ n \in Nat /\ \A i \in 1..n : versions[i] \in S
      /\ \A w \in S : \E i \in 1..n : w = versions[i]
      /\ \A i, j \in 1..n : VersionLess(versions[i], versions[j]) <=> i < j
  BY <1>1, Places
<1>3. {versions[j] : j \in 1..0} = {}
  OBVIOUS
<1>4. DOMAIN map = A /\ map = [w \in A |-> StatusOf(item, w)]
  BY <1>3 DEF InsertedAt
<1>5. ASSUME NEW w \in A PROVE VersionLess(v, w) /\ ~VersionLess(w, v)
  <2>1. PICK i \in 1..n : w = versions[i]
    BY <1>1, <1>2
  <2>2. i # 1
    BY <2>1
  <2>3. 1 < i /\ ~(i < 1)
    BY <1>2, <2>2
  <2>4. QED
    BY <1>2, <2>1, <2>3
<1>6. below = {} /\ above = A
  BY <1>4, <1>5
<1>7. PICK w \in A : \A x \in A : ~VersionLess(x, w)
  <2> DEFINE T == {i \in 1..n : versions[i] \in A}
  <2>1. T \subseteq Nat /\ T # {}
    BY <1>1, <1>2
  <2>2. PICK i \in T : \A j \in T : i <= j
    <3> HIDE DEF T
    <3>1. QED
      BY <2>1, LeastNumber
  <2>3. ASSUME NEW x \in A PROVE ~VersionLess(x, versions[i])
    <3>1. PICK j \in 1..n : x = versions[j]
      BY <1>1, <1>2
    <3>2. i <= j /\ i \in 1..n
      BY <2>2, <3>1
    <3>3. ~(j < i)
      BY <1>2, <3>2
    <3>4. QED
      BY <1>2, <3>1, <3>2, <3>3
  <2>4. QED
    BY <2>2, <2>3
<1>8. nearest = {w}
  <2>1. w \in nearest
    BY <1>6, <1>7
  <2>2. ASSUME NEW x \in nearest PROVE x = w
    <3>1. x \in A /\ ~VersionLess(w, x) /\ ~VersionLess(x, w)
      BY <1>6, <1>7, <2>2
    <3>2. x \in VersionSet /\ w \in VersionSet
      BY <1>1, <3>1
    <3>3. QED
      BY <3>1, <3>2, VersionOrder
  <2>3. QED
    BY <2>1, <2>2
<1>9. neighbors.below = {} /\ neighbors.above = {StatusOf(item, w)}
  <2>1. /\ neighbors.below = {map[x] : x \in {x \in below : \A y \in below : ~VersionLess(x, y)}}
        /\ neighbors.above = {map[x] : x \in nearest}
    BY DEF get_neighbors
  <2>2. map[w] = StatusOf(item, w)
    BY <1>4
  <2> HIDE DEF neighbors, map, above, below, nearest
  <2>3. QED
    BY <1>6, <1>8, <2>1, <2>2
<1>10. StatusBetween(neighbors, item.ty) = StatusBefore(StatusOf(item, w), item.ty)
  <2>1. neighbors.above # {} /\ (CHOOSE y \in neighbors.above : TRUE) = StatusOf(item, w)
    BY <1>9, TheOnly
  <2> HIDE DEF neighbors
  <2>2. QED
    BY <1>9, <2>1 DEF StatusBetween
<1>11. v \in S /\ \A x \in A : VersionLess(v, x) /\ ~VersionLess(x, w)
  BY <1>2, <1>5, <1>7
<1>12. StatusBefore(StatusOf(item, w), item.ty) = StatusOf(item, v)
  BY <1>11, BeforeFirstAction
<1>13. QED
  BY <1>10, <1>12

\* Every other version has the version before it as its neighbour.
LEMMA InsertNext ==
  ASSUME NEW S, NEW item, AcceptedItem(item, S), NEW versions, Ascends(versions, S),
         NEW k \in 1..Len(versions), k # 1, versions[k] \notin ActionVersions(item)
  PROVE  StatusBetween(get_neighbors(InsertedAt(item, versions, k - 1), versions[k]), item.ty)
           = StatusOf(item, versions[k])
<1> DEFINE v == versions[k]
           u == versions[k - 1]
           A == ActionVersions(item)
           n == Len(versions)
           D == A \cup {versions[j] : j \in 1..(k - 1)}
           map == InsertedAt(item, versions, k - 1)
           below == {w \in DOMAIN map : VersionLess(w, v)}
           above == {w \in DOMAIN map : VersionLess(v, w)}
           nearest == {x \in below : \A y \in below : ~VersionLess(x, y)}
           least == {x \in above : \A y \in above : ~VersionLess(y, x)}
           neighbors == get_neighbors(map, v)
           last == neighbors.above = {}
<1>1. /\ S \in SUBSET VersionSet /\ A \in SUBSET S
  BY ActionVersionsDeclared
<1>2. /\ n \in Nat /\ \A i \in 1..n : versions[i] \in S
      /\ \A w \in S : \E i \in 1..n : w = versions[i]
      /\ \A i, j \in 1..n : VersionLess(versions[i], versions[j]) <=> i < j
  BY <1>1, Places
<1>3. DOMAIN map = D /\ map = [w \in D |-> StatusOf(item, w)]
  BY DEF InsertedAt
<1>4. k - 1 \in 1..n /\ k - 1 < k /\ k - 1 \in 1..(k - 1) /\ \A j \in 1..(k - 1) : j \in 1..n
  BY <1>2
<1>5. u \in D /\ u \in S /\ v \in S /\ VersionLess(u, v) /\ D \in SUBSET S
  BY <1>1, <1>2, <1>4
<1>6. ASSUME NEW w \in S, VersionLess(w, v) PROVE w = u \/ VersionLess(w, u)
  <2>1. PICK i \in 1..n : w = versions[i]
    BY <1>2
  <2>2. i < k
    BY <1>2, <1>6, <2>1
  <2>3. i = k - 1 \/ i < k - 1
    BY <1>2, <2>2
  <2>4. QED
    BY <1>2, <1>4, <2>1, <2>3
<1>7. nearest = {u}
  <2>1. u \in below
    BY <1>3, <1>5
  <2>2. \A y \in below : y \in S /\ ~VersionLess(u, y)
    <3>1. SUFFICES ASSUME NEW y \in below PROVE y \in S /\ ~VersionLess(u, y)
      OBVIOUS
    <3>2. y \in S /\ VersionLess(y, v)
      BY <1>3, <1>5
    <3>3. y \in VersionSet /\ u \in VersionSet
      BY <1>1, <1>5, <3>2
    <3>4. QED
      BY <1>6, <3>2, <3>3, VersionOrder
  <2>3. ASSUME NEW x \in nearest PROVE x = u
    <3>1. x \in S /\ VersionLess(x, v) /\ ~VersionLess(x, u)
      BY <1>3, <1>5, <2>1
    <3>2. QED
      BY <1>6, <3>1
  <2>4. QED
    BY <2>1, <2>2, <2>3
<1>8. neighbors.below = {StatusOf(item, u)} /\ (last <=> above = {})
  <2>1. /\ neighbors.below = {map[x] : x \in nearest}
        /\ neighbors.above = {map[x] : x \in least}
    BY DEF get_neighbors
  <2>2. map[u] = StatusOf(item, u)
    BY <1>3, <1>5
  <2>3. above # {} => least # {}
    <3> DEFINE T == {i \in 1..n : versions[i] \in above}
    <3>1. SUFFICES ASSUME above # {} PROVE least # {}
      OBVIOUS
    <3>2. T \subseteq Nat /\ T # {}
      <4>1. PICK y \in above : TRUE
        BY <3>1
      <4>2. y \in S
        BY <1>3, <1>5, <4>1
      <4>3. PICK i \in 1..n : y = versions[i]
        BY <1>2, <4>2
      <4>4. i \in T
        BY <4>1, <4>3
      <4>5. T \subseteq Nat
        BY <1>2
      <4>6. QED
        BY <4>4, <4>5
    <3>3. PICK i \in T : \A j \in T : i <= j
      <4> HIDE DEF T
      <4>1. QED
        BY <3>2, LeastNumber
    <3>4. ASSUME NEW y \in above PROVE ~VersionLess(y, versions[i])
      <4>1. PICK j \in 1..n : y = versions[j]
        BY <1>2, <1>3, <1>5
      <4>2. i <= j /\ i \in 1..n
        BY <3>3, <4>1
      <4>3. ~(j < i)
        BY <1>2, <4>2
      <4>4. QED
        BY <1>2, <4>1, <4>2, <4>3
    <3>5. QED
      BY <3>3, <3>4
  <2>4. least \subseteq above
    OBVIOUS
  <2> HIDE DEF neighbors, map, above, below, nearest, least
  <2>5. neighbors.above = {} <=> least = {}
    BY <2>1, NoImage
  <2>6. least = {} <=> above = {}
    BY <2>3, <2>4
  <2>7. neighbors.below = {StatusOf(item, u)}
    BY <1>7, <2>1, <2>2
  <2>8. QED
    BY <2>5, <2>6, <2>7
<1>9. StatusBetween(neighbors, item.ty) = StatusAfter(StatusOf(item, u), last, item.ty)
  <2>1. last \in BOOLEAN
    OBVIOUS
  <2>2. ASSUME NEW l \in BOOLEAN, l <=> neighbors.above = {}
        PROVE  StatusBetween(neighbors, item.ty) = StatusAfter(StatusOf(item, u), l, item.ty)
    <3> HIDE DEF neighbors
    <3>1. QED
      BY <1>8, <2>2, BetweenBelow
  <2> HIDE DEF neighbors
  <2>3. QED
    BY <2>1, <2>2
<1>10. above = {} <=> \A w \in A : ~VersionLess(v, w)
  <2>1. ASSUME NEW j \in 1..(k - 1) PROVE ~VersionLess(v, versions[j])
    BY <1>2, <1>4
  <2>2. QED
    BY <1>3, <2>1
<1>11. last <=> \A w \in A : ~VersionLess(v, w)
  BY <1>8, <1>10
<1>12. \A w \in A : VersionLess(u, w) => VersionLess(v, w)
  <2>1. SUFFICES ASSUME NEW w \in A, VersionLess(u, w) PROVE VersionLess(v, w)
    OBVIOUS
  <2>2. w \in S /\ w # v
    BY <1>1
  <2>3. w \in VersionSet /\ v \in VersionSet /\ u \in VersionSet
    BY <1>1, <1>5, <2>2
  <2>4. w # u /\ ~VersionLess(w, u)
    BY <2>1, <2>3, VersionOrder
  <2>5. ~VersionLess(w, v)
    BY <1>6, <2>2, <2>4
  <2>6. QED
    BY <2>2, <2>3, <2>5, VersionOrder
<1>13. last \in BOOLEAN
  OBVIOUS
<1>14. StatusAfter(StatusOf(item, u), last, item.ty) = StatusOf(item, v)
  <2> HIDE DEF last, v, u
  <2>1. v \notin A
    BY DEF v
  <2>2. QED
    BY <1>5, <1>11, <1>12, <1>13, <2>1, BetweenActions
<1>15. QED
  BY <1>9, <1>14

\* One more version.
LEMMA InsertedAtStep ==
  ASSUME NEW S, NEW item, AcceptedItem(item, S), NEW versions, Ascends(versions, S),
         ActionVersions(item) # {}, NEW k \in 1..Len(versions)
  PROVE  InsertVersion(InsertedAt(item, versions, k - 1), versions[k], item.ty)
           = InsertedAt(item, versions, k)
<1> DEFINE v == versions[k]
           D(i) == ActionVersions(item) \cup {versions[j] : j \in 1..i}
           map(i) == InsertedAt(item, versions, i)
<1>1. S \in SUBSET VersionSet /\ Len(versions) \in Nat
  BY Places, ActionVersionsDeclared
<1>2. 1..k = 1..(k - 1) \cup {k}
  BY <1>1
<1>3. D(k) = D(k - 1) \cup {v}
  BY <1>2
<1>4. \A i : map(i) = [w \in D(i) |-> StatusOf(item, w)]
  BY DEF InsertedAt
<1>5. CASE v \in D(k - 1)
  <2>1. D(k) = D(k - 1)
    BY <1>3, <1>5
  <2>2. DOMAIN map(k - 1) = D(k - 1) /\ map(k) = map(k - 1)
    BY <1>4, <2>1
  <2> HIDE DEF D, map
  <2>3. QED
    BY <1>5, <2>2 DEF InsertVersion, map
<1>6. CASE v \notin D(k - 1)
  <2>1. v \notin ActionVersions(item)
    BY <1>6
  <2>2. StatusBetween(get_neighbors(map(k - 1), v), item.ty) = StatusOf(item, v)
    <3>1. CASE k = 1
      <4>1. 1 \in 1..Len(versions) /\ k - 1 = 0
        BY <3>1
      <4>2. QED
        BY <2>1, <3>1, <4>1, InsertFirst
    <3>2. CASE k # 1
      BY <2>1, <3>2, InsertNext
    <3>3. QED
      BY <3>1, <3>2
  <2>3. DOMAIN map(k - 1) = D(k - 1)
    BY <1>4
  <2> HIDE DEF D, map
  <2>4. InsertVersion(map(k - 1), v, item.ty) = MapInsert(map(k - 1), v, StatusOf(item, v))
    BY <1>6, <2>2, <2>3 DEF InsertVersion
  <2>5. MapInsert(map(k - 1), v, StatusOf(item, v)) = map(k)
    BY <1>3, <1>4, <2>3 DEF MapInsert
  <2>6. QED
    BY <2>4, <2>5 DEF map
<1>7. QED
  BY <1>5, <1>6

\* The recursion over the versions has its meaning: in the end every version has the
\* status the declaration gives it.
LEMMA HistoryIs ==
  ASSUME NEW S, NEW item, AcceptedItem(item, S), NEW versions, Ascends(versions, S),
         ActionVersions(item) # {}
  PROVE  insert_container_versions(into_changeset(item), versions, item.ty)
           = [v \in S |-> StatusOf(item, v)]
<1> DEFINE n == Len(versions)
           changes == into_changeset(item)
           Body(g) == [k \in 0..n |-> IF k = 0 THEN changes
                                      ELSE InsertVersion(g[k - 1], versions[k], item.ty)]
           closed == [k \in 0..n |-> InsertedAt(item, versions, k)]
           inserted == Inserted(changes, versions, item.ty)
<1>1. /\ S \in SUBSET VersionSet /\ ActionVersions(item) \in SUBSET S
      /\ n \in Nat /\ \A i \in 1..n : versions[i] \in S
      /\ \A w \in S : \E i \in 1..n : w = versions[i]
  BY ActionVersionsDeclared, Places
<1>2. inserted = CHOOSE g : g = Body(g)
  BY DEF Inserted
<1>3. changes = InsertedAt(item, versions, 0)
  <2>1. ActionVersions(item) \cup {versions[j] : j \in 1..0} = ActionVersions(item)
    OBVIOUS
  <2>2. QED
    BY <2>1, ChangesetIs DEF InsertedAt
<1>4. \A k \in 1..n : /\ k - 1 \in 0..n /\ k # 0
                      /\ InsertVersion(InsertedAt(item, versions, k - 1), versions[k], item.ty)
                           = InsertedAt(item, versions, k)
  BY <1>1, InsertedAtStep
<1> HIDE DEF changes
<1>5. \A k \in 0..n : k # 0 => k \in 1..n
  BY <1>1
<1>6. closed = Body(closed)
  BY <1>3, <1>4, <1>5
<1>7. inserted = Body(inserted)
  <2> HIDE DEF Body, closed, inserted
  <2>1. QED
    BY <1>2, <1>6
<1>8. \A k \in 0..n : inserted[k] = IF k = 0 THEN changes
                                    ELSE InsertVersion(inserted[k - 1], versions[k], item.ty)
  <2>1. ASSUME NEW g, g = Body(g), NEW k \in 0..n
        PROVE  g[k] = IF k = 0 THEN changes ELSE InsertVersion(g[k - 1], versions[k], item.ty)
    BY <2>1
  <2> HIDE DEF Body, inserted
  <2>2. QED
    BY <1>7, <2>1
<1> HIDE DEF inserted
<1> DEFINE T == {k \in 0..n : inserted[k] # InsertedAt(item, versions, k)}
<1>9. ASSUME T # {} PROVE FALSE
  <2>1. PICK k \in T : \A x \in T : k <= x
    <3>1. T \subseteq Nat
      OBVIOUS
    <3> HIDE DEF T
    <3>2. QED
      BY <1>9, <3>1, LeastNumber
  <2>2. k # 0 /\ k \in 1..n /\ k - 1 \in 0..n /\ ~(k <= k - 1)
    BY <1>3, <1>5, <1>8
  <2>3. inserted[k - 1] = InsertedAt(item, versions, k - 1)
    BY <2>1, <2>2
  <2>4. inserted[k] = InsertedAt(item, versions, k)
    BY <1>4, <1>8, <2>2, <2>3
  <2>5. QED
    BY <2>4
<1>10. n \in 0..n
  BY <1>1
<1>11. inserted[n] = InsertedAt(item, versions, n)
  BY <1>9, <1>10
<1>12. ActionVersions(item) \cup {versions[j] : j \in 1..n} = S
  BY <1>1
<1>13. QED
  BY <1>11, <1>12 DEF insert_container_versions, inserted, changes, InsertedAt

\* The status of a generated item in any version is the one its declaration gives it.
LEMMA StatusIs ==
  ASSUME NEW S, NEW item, AcceptedItem(item, S), NEW versions, Ascends(versions, S), NEW v \in S
  PROVE  StatusAt(Item(item, versions), v) = StatusOf(item, v)
<1> DEFINE made == Item(item, versions)
<1>1. made.history = ChangesOf(item, versions) /\ made.ident = item.ident /\ made.ty = item.ty
  BY DEF Item
<1>2. DOMAIN into_changeset(item) = ActionVersions(item)
  BY ChangesetIs
<1>3. CASE ActionVersions(item) # {}
  <2>1. made.history = [w \in S |-> StatusOf(item, w)]
    BY <1>1, <1>2, <1>3, HistoryIs DEF ChangesOf
  <2>2. made.history[v] = StatusOf(item, v)
    BY <2>1
  <2> HIDE DEF made
  <2>3. QED
    BY <2>2 DEF StatusAt, made
<1>4. CASE ActionVersions(item) = {}
  <2>1. made.history = [w \in Range(versions) |-> NoChange(FALSE, original(item), item.ty)]
    BY <1>1, <1>2, <1>4 DEF ChangesOf
  <2>2. item.added = None /\ item.deprecated = None /\ DOMAIN item.changes = {}
    BY <1>4 DEF ActionVersions
  <2>3. PresentIn(item, v)
    BY <2>2 DEF PresentIn
  <2>4. DeprecatedIn(item, v) = FALSE
    BY <2>2 DEF DeprecatedIn
  <2>5. LaterChanges(item, v) = {}
    BY <2>2 DEF LaterChanges
  <2>6. NameIn(item, v) = cleaned(item) /\ TypeIn(item, v) = item.ty
    BY <2>4, <2>5 DEF NameIn, TypeIn, NameFrom, TypeFrom
  <2>7. cleaned(item) = original(item)
    BY <2>2 DEF AcceptedItem
  <2>8. StatusOf(item, v) = NoChange(FALSE, original(item), item.ty)
    BY <1>4, <2>3, <2>4, <2>6, <2>7, AtQuietVersion
  <2>9. Range(versions) = S
    BY DEF Ascends
  <2>10. made.history[v] = StatusOf(item, v)
    BY <2>1, <2>8, <2>9
  <2> HIDE DEF made
  <2>11. QED
    BY <2>10 DEF StatusAt, made
<1>5. QED
  BY <1>3, <1>4

(***************************************************************************)
(* The definition of a container in a version                              *)
(***************************************************************************)
\* A generated item has the history of its declaration.
LEMMA MadeAlike ==
  ASSUME NEW item, NEW versions, NEW v
  PROVE  /\ PresentIn(Item(item, versions), v) <=> PresentIn(item, v)
         /\ DeprecatedIn(Item(item, versions), v) <=> DeprecatedIn(item, v)
         /\ NameIn(Item(item, versions), v) = NameIn(item, v)
         /\ TypeIn(Item(item, versions), v) = TypeIn(item, v)
<1> DEFINE made == Item(item, versions)
<1>1. /\ made.ident = item.ident /\ made.ty = item.ty /\ made.added = item.added
      /\ made.changes = item.changes /\ made.deprecated = item.deprecated
  BY DEF Item
<1> HIDE DEF made
<1>2. PresentIn(made, v) <=> PresentIn(item, v)
  BY <1>1 DEF PresentIn
<1>3. DeprecatedIn(made, v) <=> DeprecatedIn(item, v)
  BY <1>1 DEF DeprecatedIn
<1>4. LaterChanges(made, v) = LaterChanges(item, v)
  BY <1>1 DEF LaterChanges
<1>5. Renames(made) = Renames(item) /\ Retypes(made) = Retypes(item)
  BY <1>1 DEF Renames, Retypes
<1>6. original(made) = original(item) /\ cleaned(made) = cleaned(item)
  BY <1>1 DEF original, cleaned
<1>7. \A T : NameFrom(made, T) = NameFrom(item, T) /\ TypeFrom(made, T) = TypeFrom(item, T)
  BY <1>1, <1>6 DEF NameFrom, TypeFrom
<1>8. NameIn(made, v) = NameIn(item, v)
  BY <1>3, <1>4, <1>5, <1>6, <1>7 DEF NameIn
<1>9. TypeIn(made, v) = TypeIn(item, v)
  BY <1>4, <1>5, <1>7 DEF TypeIn
<1>10. QED
  BY <1>2, <1>3, <1>8, <1>9 DEF made

\* What the status of a version the item is in says.
SaysHistory(item, v, status) ==
  /\ status.status \in {"Addition", "Change", "Deprecation", "NoChange"}
  /\ "ident" \in DOMAIN status /\ status.ident = NameIn(item, v)
  /\ status.status = "Deprecation" => DeprecatedIn(item, v) /\ TypeIn(item, v) = item.ty
  /\ status.status \in {"Addition", "Change"} =>
       ~DeprecatedIn(item, v) /\ status.ty = TypeIn(item, v)
  /\ status.status = "NoChange" =>
       /\ status.previously_deprecated \in BOOLEAN
       /\ status.previously_deprecated <=> DeprecatedIn(item, v)
       /\ status.ty = TypeIn(item, v)

\* The status that the expansion records for a version says the name, type and deprecation
\* of the history.
LEMMA StatusSays ==
  ASSUME NEW S, NEW item, AcceptedItem(item, S), NEW v \in S, PresentIn(item, v)
  PROVE  SaysHistory(item, v, StatusOf(item, v))
<1>1. CASE v = item.added /\ item.added # None
  <2>1. /\ ~DeprecatedIn(item, v) /\ LaterChanges(item, v) = After(item, 0)
    BY <1>1, AtAddition
  <2>2. StatusOf(item, item.added) = Addition(NameAfter(item, 0), TypeAfter(item, 0))
    BY <1>1, AtAddition
  <2>3. NameIn(item, v) = NameAfter(item, 0) /\ TypeIn(item, v) = TypeAfter(item, 0)
    BY <2>1, NameInPast
  <2>4. StatusOf(item, v) = Addition(NameIn(item, v), TypeIn(item, v))
    BY <1>1, <2>2, <2>3
  <2>5. QED
    BY <2>1, <2>4 DEF SaysHistory, Addition
<1>2. ASSUME NEW i \in DOMAIN item.changes, v = item.changes[i].since
      PROVE  SaysHistory(item, v, StatusOf(item, v))
  <2>1. /\ ~DeprecatedIn(item, v) /\ LaterChanges(item, v) = After(item, i)
        /\ StatusOf(item, v) = ChangeAt(item, i)
    BY <1>2, AtChange
  <2>2. NameIn(item, v) = NameAfter(item, i) /\ TypeIn(item, v) = TypeAfter(item, i)
    BY <2>1, NameInPast
  <2>3. /\ ChangeAt(item, i).status = "Change" /\ "ident" \in DOMAIN ChangeAt(item, i)
        /\ ChangeAt(item, i).ident = NameAfter(item, i) /\ ChangeAt(item, i).ty = TypeAfter(item, i)
    BY DEF ChangeAt, Change
  <2>4. QED
    BY <2>1, <2>2, <2>3 DEF SaysHistory
<1>3. CASE v = item.deprecated /\ item.deprecated # None
  <2>1. /\ DeprecatedIn(item, v) /\ LaterChanges(item, v) = {}
    BY <1>3, AtDeprecation
  <2>2. StatusOf(item, item.deprecated) = Deprecation(cleaned(item), original(item))
    BY <1>3, AtDeprecation
  <2>3. NameIn(item, v) = original(item) /\ TypeIn(item, v) = item.ty
    BY <2>1 DEF NameIn, TypeIn, TypeFrom
  <2>4. StatusOf(item, v) = Deprecation(cleaned(item), NameIn(item, v))
    BY <1>3, <2>2, <2>3
  <2>5. QED
    BY <2>1, <2>3, <2>4 DEF SaysHistory, Deprecation
<1>4. CASE v \notin ActionVersions(item)
  <2>1. StatusOf(item, v) = NoChange(DeprecatedIn(item, v), NameIn(item, v), TypeIn(item, v))
    BY <1>4, AtQuietVersion
  <2>2. DeprecatedIn(item, v) \in BOOLEAN
    BY DEF DeprecatedIn
  <2>3. PICK b \in BOOLEAN : b = DeprecatedIn(item, v)
    BY <2>2
  <2>4. StatusOf(item, v) = NoChange(b, NameIn(item, v), TypeIn(item, v)) /\ (b <=> DeprecatedIn(item, v))
    BY <2>1, <2>3
  <2>5. QED
    BY <2>4 DEF SaysHistory, NoChange
<1>5. QED
  BY <1>1, <1>2, <1>3, <1>4 DEF ActionVersions

\* The field of an item in the definition of a version.
FieldIn(item, v) ==
  [ident |-> NameIn(item, v), ty |-> TypeIn(item, v), deprecated |-> DeprecatedIn(item, v)]

\* The definition of a version has the item if its history does, as its history says.
LEMMA FieldOfVersion ==
  ASSUME NEW S, NEW item, AcceptedItem(item, S), NEW versions, Ascends(versions, S), NEW v \in S
  PROVE  generate_for_container(Item(item, versions), v)
           = IF PresentIn(item, v) THEN {FieldIn(item, v)} ELSE {}
<1> DEFINE made == Item(item, versions)
           status == StatusOf(item, v)
<1>1. StatusAt(made, v) = status
  BY StatusIs
<1>2. made.ty = item.ty
  BY DEF Item
<1> HIDE DEF made
<1>3. CASE ~PresentIn(item, v)
  <2>1. status.status = "NotPresent"
    BY <1>3 DEF StatusOf, NotPresent
  <2> HIDE DEF status
  <2>2. QED
    BY <1>1, <1>3, <2>1 DEF generate_for_container, made
<1>4. CASE PresentIn(item, v)
  <2>1. SaysHistory(item, v, status)
    BY <1>4, StatusSays
  <2> HIDE DEF status
  <2>2. PICK b \in BOOLEAN : b = DeprecatedIn(item, v)
    BY DEF DeprecatedIn
  <2>3. FieldIn(item, v) = [ident |-> NameIn(item, v), ty |-> TypeIn(item, v), deprecated |-> b]
    BY <2>2 DEF FieldIn
  <2>4. CASE status.status = "Deprecation"
    <3>1. b = TRUE
      BY <2>1, <2>2, <2>4 DEF SaysHistory
    <3>2. QED
      BY <1>1, <1>2, <1>4, <2>1, <2>3, <2>4, <3>1 DEF generate_for_container, SaysHistory, made
  <2>5. CASE status.status = "NoChange"
    <3>1. b = status.previously_deprecated
      BY <2>1, <2>2, <2>5 DEF SaysHistory
    <3>2. QED
      BY <1>1, <1>4, <2>1, <2>3, <2>5, <3>1 DEF generate_for_container, SaysHistory, made
  <2>6. CASE status.status \in {"Addition", "Change"}
    <3>1. b = FALSE
      BY <2>1, <2>2, <2>6 DEF SaysHistory
    <3>2. QED
      BY <1>1, <1>4, <2>1, <2>3, <2>6, <3>1 DEF generate_for_container, SaysHistory, made
  <2>7. QED
    BY <2>1, <2>4, <2>5, <2>6 DEF SaysHistory
<1>5. QED
  BY <1>3, <1>4

(***************************************************************************)
(* What the macro makes of a module                                        *)
(***************************************************************************)
\* A container as generated from its declared items.
MadeFrom(c, items, versions) ==
  DOMAIN c = DOMAIN items /\ \A i \in DOMAIN items : c[i] = Item(items[i], versions)

AcceptedItems(items, S) == \A i \in DOMAIN items : AcceptedItem(items[i], S)

\* A declared container whose items are accepted, with what is made of it.
Generates(d, c, items, versions) ==
  /\ items \in Range(d.structs) \cup Range(d.enums)
  /\ AcceptedItems(items, Range(d.versions))
  /\ MadeFrom(c, items, versions)

\* What an accepted module is turned into.
ExpandsTo(d, code) ==
  /\ Range(d.versions) \in SUBSET VersionSet
  /\ Ascends(code.versions, Range(d.versions))
  /\ Range(code.versions) = Range(d.versions)
  /\ code.items = SpecItems(d)
  /\ \A c \in Range(code.structs) : \E items \in Range(d.structs) :
       Generates(d, c, items, code.versions)
  /\ \A c \in Range(code.enums) : \E items \in Range(d.enums) :
       Generates(d, c, items, code.versions)

\* A module without errors is turned into its containers, with its items accepted.
LEMMA Expansion ==
  ASSUME NEW d \in Declarations, ModuleExpansion(d).ok, ~KnownGap(d)
  PROVE  ExpandsTo(d, ModuleExpansion(d).value)
<1> DEFINE S == Range(d.versions)
           versions == SortedVersions(d)
           code == generate_tokens(d)
           containers == Range(d.structs) \cup Range(d.enums)
<1>1. /\ d.versions \in Seq(VersionSet)
      /\ \A n \in DOMAIN d.structs : d.structs[n] \in Seq(ItemSet)
      /\ \A n \in DOMAIN d.enums : d.enums[n] \in Seq(ItemSet)
  BY VersionedAssumption
<1>2. ExpansionErrors(d) = {} /\ ModuleExpansion(d).value = code
  <2> HIDE DEF code
  <2>1. ExpansionErrors(d) = {}
    BY DEF ModuleExpansion, Err
  <2>2. ModuleExpansion(d) = Ok(code)
    BY <2>1 DEF ModuleExpansion, code
  <2>3. QED
    BY <2>1, <2>2 DEF Ok
<1>3. S \in SUBSET VersionSet /\ Ascends(versions, S) /\ Range(versions) = S
  <2>1. S \in SUBSET VersionSet /\ Ascends(versions, S)
    BY <1>1, SortedVersionsAscend
  <2>2. QED
    BY <2>1 DEF Ascends
<1>4. ASSUME NEW c \in containers PROVE AcceptedItems(c, S)
  <2>1. c \in Seq(ItemSet)
    BY <1>1, <1>4 DEF Range
  <2>2. ASSUME NEW i \in DOMAIN c PROVE AcceptedItem(c[i], S)
    <3>1. c[i] \in ItemSet /\ c[i] \in Range(c)
      BY <2>1 DEF Range
    <3>2. ItemErrors(c[i], d) \subseteq ExpansionErrors(d)
      BY <1>4, <3>1 DEF ExpansionErrors
    <3>3. ItemErrors(c[i], d) = {}
      BY <1>2, <3>2
    <3>4. ~UnorderedChanges(c[i])
      <4>1. \/ \E n \in DOMAIN d.structs : c = d.structs[n]
            \/ \E n \in DOMAIN d.enums : c = d.enums[n]
        BY <1>4 DEF Range
      <4>2. QED
        BY <3>1, <4>1 DEF KnownGap
    <3>5. QED
      BY <1>1, <3>1, <3>3, <3>4, ValidatedItem
  <2>3. QED
    BY <2>2 DEF AcceptedItems
<1>5. /\ code.versions = versions /\ code.items = SpecItems(d)
      /\ code.structs = [n \in DOMAIN d.structs |->
                           [i \in DOMAIN d.structs[n] |-> Item(d.structs[n][i], versions)]]
      /\ code.enums = [n \in DOMAIN d.enums |->
                         [i \in DOMAIN d.enums[n] |-> Item(d.enums[n][i], versions)]]
  BY DEF generate_tokens
<1> HIDE DEF code
<1>6. ASSUME NEW c \in Range(code.structs)
      PROVE  \E declaredItems \in Range(d.structs) : Generates(d, c, declaredItems, versions)
  <2>1. PICK n \in DOMAIN d.structs :
          c = [i \in DOMAIN d.structs[n] |-> Item(d.structs[n][i], versions)]
    BY <1>5, <1>6 DEF Range
  <2>2. MadeFrom(c, d.structs[n], versions)
    BY <2>1 DEF MadeFrom
  <2>3. d.structs[n] \in Range(d.structs)
    BY DEF Range
  <2>4. QED
    BY <1>4, <2>2, <2>3 DEF Generates
<1>7. ASSUME NEW c \in Range(code.enums)
      PROVE  \E declaredItems \in Range(d.enums) : Generates(d, c, declaredItems, versions)
  <2>1. PICK n \in DOMAIN d.enums :
          c = [i \in DOMAIN d.enums[n] |-> Item(d.enums[n][i], versions)]
    BY <1>5, <1>7 DEF Range
  <2>2. MadeFrom(c, d.enums[n], versions)
    BY <2>1 DEF MadeFrom
  <2>3. d.enums[n] \in Range(d.enums)
    BY DEF Range
  <2>4. QED
    BY <1>4, <2>2, <2>3 DEF Generates
<1>8. QED
  BY <1>2, <1>3, <1>5, <1>6, <1>7 DEF ExpandsTo

\* Once the macro was applied, the module and what was made of it stay.
VersionedInv ==
  declared # None => declared \in Declarations /\ generated = ModuleExpansion(declared)

\* The macro is applied once: what it made is the expansion of what was declared.
LEMMA VersionedInvariant == VersionedSpec => []VersionedInv
<1>1. VersionedInit => VersionedInv
  BY DEF VersionedInit, VersionedInv
<1>2. VersionedInv /\ [VersionedNext]_versionedVars => VersionedInv'
  <2>1. SUFFICES ASSUME VersionedInv, [VersionedNext]_versionedVars PROVE VersionedInv'
    OBVIOUS
  <2>2. CASE Expand
    BY <2>2 DEF Expand, VersionedInv
  <2>3. ASSUME UNCHANGED <<declared, generated>> PROVE VersionedInv'
    BY <2>1, <2>3 DEF VersionedInv
  <2>4. (Submit \/ Edit \/ Convert \/ Review \/ UNCHANGED versionedVars)
          => UNCHANGED <<declared, generated>>
    BY DEF Submit, Edit, Convert, Review, versionedVars
  <2>5. QED
    BY <2>1, <2>2, <2>3, <2>4 DEF VersionedNext
<1>3. QED
  BY <1>1, <1>2, PTL DEF VersionedSpec

\* Every accepted module has its history in the definitions of all versions.
LEMMA DefinitionsFollow == VersionedInv => DefinitionsFollowHistory
<1>1. SUFFICES ASSUME VersionedInv, Expanded PROVE DefinitionsFollowHistory
  BY DEF DefinitionsFollowHistory
<1> DEFINE d == declared
           code == generated.value
<1>2. ExpandsTo(d, code)
  <2>1. d \in Declarations /\ generated = ModuleExpansion(d) /\ generated.ok /\ ~KnownGap(d)
    BY <1>1 DEF Expanded, VersionedInv
  <2>2. QED
    BY <2>1, Expansion
<1> HIDE DEF d, code
<1>3. ASSUME NEW c \in DefinedContainers(code), NEW v \in Range(code.versions), NEW i \in DOMAIN c
      PROVE  generate_for_container(c[i], v) =
               IF ~PresentIn(c[i], v) THEN {}
               ELSE {[ident |-> NameIn(c[i], v), ty |-> TypeIn(c[i], v),
                      deprecated |-> DeprecatedIn(c[i], v)]}
  <2>1. PICK items : Generates(d, c, items, code.versions)
    BY <1>2, <1>3 DEF ExpandsTo, DefinedContainers
  <2>2. /\ v \in Range(d.versions) /\ AcceptedItem(items[i], Range(d.versions))
        /\ c[i] = Item(items[i], code.versions) /\ Ascends(code.versions, Range(d.versions))
    BY <1>2, <1>3, <2>1 DEF ExpandsTo, Generates, MadeFrom, AcceptedItems
  <2>3. generate_for_container(c[i], v)
          = IF PresentIn(items[i], v) THEN {FieldIn(items[i], v)} ELSE {}
    BY <2>2, FieldOfVersion
  <2>4. /\ PresentIn(c[i], v) <=> PresentIn(items[i], v)
        /\ DeprecatedIn(c[i], v) <=> DeprecatedIn(items[i], v)
        /\ NameIn(c[i], v) = NameIn(items[i], v) /\ TypeIn(c[i], v) = TypeIn(items[i], v)
    BY <2>2, MadeAlike
  <2>5. DeprecatedIn(c[i], v) = DeprecatedIn(items[i], v)
    BY <2>4 DEF DeprecatedIn
  <2>6. QED
    BY <2>3, <2>4, <2>5 DEF FieldIn
<1>4. QED
  BY <1>3 DEF DefinitionsFollowHistory, code

(***************************************************************************)
(* Conversions between neighbouring versions                               *)
(***************************************************************************)
\* Two versions without a declared one in between.
Neighbours(S, u, v) ==
  u \in S /\ v \in S /\ VersionLess(u, v) /\ \A w \in S : VersionLess(u, w) => ~VersionLess(w, v)

\* Versions next to each other in the list have no declared version in between.
LEMMA ListedNeighbours ==
  ASSUME NEW S \in SUBSET VersionSet, NEW versions, Ascends(versions, S),
         NEW k \in 1..(Len(versions) - 1)
  PROVE  /\ k \in DOMAIN versions /\ k + 1 \in DOMAIN versions
         /\ Neighbours(S, versions[k], versions[k + 1])
<1> DEFINE n == Len(versions)
<1>1. /\ n \in Nat /\ DOMAIN versions = 1..n
      /\ \A i \in 1..n : versions[i] \in S
      /\ \A v \in S : \E i \in 1..n : v = versions[i]
      /\ \A i, j \in 1..n : VersionLess(versions[i], versions[j]) <=> i < j
  BY Places
<1>2. k \in 1..n /\ k + 1 \in 1..n /\ k < k + 1
  BY <1>1
<1>3. ASSUME NEW w \in S, VersionLess(versions[k], w) PROVE ~VersionLess(w, versions[k + 1])
  <2>1. PICK i \in 1..n : w = versions[i]
    BY <1>1
  <2>2. k < i
    BY <1>1, <1>2, <1>3, <2>1
  <2>3. ~(i < k + 1)
    BY <1>2, <2>2
  <2>4. QED
    BY <1>1, <1>2, <2>1, <2>3
<1>4. QED
  BY <1>1, <1>2, <1>3 DEF Neighbours

\* What happens to an item between two neighbouring versions.
LEMMA NextVersion ==
  ASSUME NEW S, NEW item, AcceptedItem(item, S), NEW u, NEW v, Neighbours(S, u, v)
  PROVE  /\ PresentIn(item, u) => PresentIn(item, v)
         /\ StatusOf(item, u).status = "NotPresent" <=> ~PresentIn(item, u)
         /\ StatusOf(item, v).status = "NotPresent" <=> ~PresentIn(item, v)
         /\ StatusOf(item, v).status = "Addition" <=> PresentIn(item, v) /\ ~PresentIn(item, u)
         /\ StatusOf(item, v).status = "Change" => StatusOf(item, v).from_ident = NameIn(item, u)
<1>1. /\ S \in SUBSET VersionSet /\ ActionVersions(item) \in SUBSET S /\ None \notin S
      /\ u \in S /\ v \in S
  BY ActionVersionsDeclared DEF Neighbours
<1>2. /\ item.added # None => item.added \in S /\ item.added \in VersionSet
      /\ item.deprecated # None => item.deprecated \in VersionSet
      /\ u \in VersionSet /\ v \in VersionSet
  BY <1>1 DEF ActionVersions
<1>3. PresentIn(item, u) => PresentIn(item, v)
  BY <1>2, VersionOrder DEF PresentIn, NotBefore, Neighbours
<1>4. ASSUME NEW w \in S
      PROVE  StatusOf(item, w).status = "NotPresent" <=> ~PresentIn(item, w)
  <2>1. CASE PresentIn(item, w)
    BY <2>1, StatusSays DEF SaysHistory
  <2>2. CASE ~PresentIn(item, w)
    BY <2>2 DEF StatusOf, NotPresent
  <2>3. QED
    BY <2>1, <2>2
<1>5. CASE v = item.added /\ item.added # None
  <2>1. StatusOf(item, item.added) = Addition(NameAfter(item, 0), TypeAfter(item, 0))
        /\ PresentIn(item, item.added)
    BY <1>5, AtAddition
  <2>2. StatusOf(item, v).status = "Addition"
    BY <1>5, <2>1 DEF Addition
  <2>3. ~PresentIn(item, u)
    BY <1>5 DEF PresentIn, NotBefore, Neighbours
  <2>4. QED
    BY <1>1, <1>3, <1>4, <1>5, <2>1, <2>2, <2>3
<1>6. CASE v # item.added \/ item.added = None
  <2>1. PresentIn(item, v) => PresentIn(item, u)
    <3>1. SUFFICES ASSUME PresentIn(item, v), item.added # None PROVE ~VersionLess(u, item.added)
      BY DEF PresentIn, NotBefore
    <3>2. VersionLess(item.added, v)
      BY <1>2, <1>6, <3>1, VersionOrder DEF PresentIn, NotBefore
    <3>3. QED
      BY <1>2, <3>1, <3>2 DEF Neighbours
  <2>2. StatusOf(item, v).status # "Addition"
    <3>1. ASSUME NEW i \in DOMAIN item.changes PROVE ChangeAt(item, i).status = "Change"
      BY DEF ChangeAt, Change
    <3>2. v # item.added
      BY <1>1, <1>6
    <3>3. ASSUME NEW i \in DOMAIN item.changes, item.changes[i].since = v
          PROVE  StatusOf(item, v).status = "Change"
      <4>1. StatusOf(item, v) = ChangeAt(item, i)
        BY <3>3, AtChange
      <4>2. QED
        BY <3>1, <4>1
    <3>4. CASE \A i \in DOMAIN item.changes : item.changes[i].since # v
      BY <3>2, <3>4 DEF StatusOf, NotPresent, Deprecation, NoChange
    <3>5. QED
      BY <3>3, <3>4
  <2>3. ASSUME StatusOf(item, v).status = "Change"
        PROVE  StatusOf(item, v).from_ident = NameIn(item, u)
    <3>1. PICK i \in DOMAIN item.changes : item.changes[i].since = v
      BY <2>3 DEF StatusOf, NotPresent, Deprecation, NoChange, Addition
    <3>2. StatusOf(item, v) = ChangeAt(item, i) /\ LaterChanges(item, v) = After(item, i)
      BY <3>1, AtChange
    <3>3. ChangeAt(item, i).from_ident = NameAfter(item, i - 1)
      BY DEF ChangeAt, Change
    <3>4. ~DeprecatedIn(item, u)
      <4>1. SUFFICES ASSUME item.deprecated # None PROVE VersionLess(u, item.deprecated)
        BY DEF DeprecatedIn, NotBefore
      <4>2. VersionLess(v, item.deprecated)
        BY <3>1, <4>1 DEF AcceptedItem
      <4>3. QED
        BY <1>2, <4>1, <4>2, VersionOrder DEF Neighbours
    <3>5. LaterChanges(item, u) = After(item, i - 1)
      <4> DEFINE c == item.changes
      <4>1. /\ Len(c) \in Nat /\ DOMAIN c = 1..Len(c)
            /\ \A j \in 1..Len(c) : c[j].since \in VersionSet
        BY ItemTypes DEF AcceptedItem
      <4>2. /\ \A j \in DOMAIN c : c[j].since \in S
            /\ \A j, l \in DOMAIN c : j < l => VersionLess(c[j].since, c[l].since)
        BY DEF AcceptedItem
      <4>3. ASSUME NEW j \in 1..Len(c) PROVE VersionLess(u, c[j].since) <=> i - 1 < j
        <5>1. CASE j = i
          BY <3>1, <4>1, <5>1 DEF Neighbours
        <5>2. CASE i < j
          <6>1. VersionLess(v, c[j].since)
            BY <3>1, <4>1, <4>2, <5>2
          <6>2. VersionLess(u, c[j].since)
            BY <1>2, <4>1, <6>1, VersionOrder DEF Neighbours
          <6>3. QED
            BY <4>1, <5>2, <6>2
        <5>3. CASE j < i
          <6>1. VersionLess(c[j].since, v)
            BY <3>1, <4>1, <4>2, <5>3
          <6>2. ~VersionLess(u, c[j].since)
            BY <4>1, <4>2, <6>1 DEF Neighbours
          <6>3. QED
            BY <4>1, <5>3, <6>2
        <5>4. QED
          BY <4>1, <5>1, <5>2, <5>3
      <4>4. \A j \in 1..Len(c) : i - 1 < j <=> j \in After(item, i - 1)
        BY <4>1 DEF After
      <4>5. After(item, i - 1) \subseteq 1..Len(c)
        BY <4>1 DEF After
      <4>6. QED
        BY <4>1, <4>3, <4>4, <4>5 DEF LaterChanges
    <3>6. QED
      BY <3>2, <3>3, <3>4, <3>5, NameInPast
  <2>4. QED
    BY <1>1, <1>3, <1>4, <2>1, <2>2, <2>3
<1>7. QED
  BY <1>5, <1>6

\* The versions a conversion makes and is given.
To(direction, u, v) == IF direction = "Upgrade" THEN v ELSE u
From(direction, u, v) == IF direction = "Upgrade" THEN u ELSE v

\* What a conversion sets of an item: its name in the version it makes, from a default
\* or from the name in the version it is given.
SetsItem(item, a, direction, u, v) ==
  /\ a.lhs = NameIn(item, To(direction, u, v))
  /\ \/ a.with = DefaultFn
     \/ PresentIn(item, From(direction, u, v)) /\ a.rhs = NameIn(item, From(direction, u, v))

\* The conversion of a struct sets a field if the version it makes has it.
LEMMA FieldAssignments ==
  ASSUME NEW S, NEW item, AcceptedItem(item, S), NEW versions, Ascends(versions, S),
         NEW u, NEW v, Neighbours(S, u, v), NEW direction \in {"Upgrade", "Downgrade"}
  PROVE  LET sets == generate_for_from_impl(Item(item, versions), direction, u, v)
         IN  /\ ~PresentIn(item, To(direction, u, v)) => sets = {}
             /\ PresentIn(item, To(direction, u, v)) => sets # {}
             /\ \A a \in sets : SetsItem(item, a, direction, u, v)
<1> DEFINE old == StatusOf(item, u)
           new == StatusOf(item, v)
           made == Item(item, versions)
           sets == generate_for_from_impl(made, direction, u, v)
<1>1. u \in S /\ v \in S
  BY DEF Neighbours
<1>2. StatusAt(made, u) = old /\ StatusAt(made, v) = new
  BY <1>1, StatusIs
<1>3. /\ PresentIn(item, u) => PresentIn(item, v)
      /\ old.status = "NotPresent" <=> ~PresentIn(item, u)
      /\ new.status = "NotPresent" <=> ~PresentIn(item, v)
      /\ new.status = "Addition" <=> PresentIn(item, v) /\ ~PresentIn(item, u)
      /\ new.status = "Change" => new.from_ident = NameIn(item, u)
  BY NextVersion
<1>4. PresentIn(item, u) => SaysHistory(item, u, old)
  BY <1>1, StatusSays
<1>5. PresentIn(item, v) => SaysHistory(item, v, new)
  BY <1>1, StatusSays
<1> HIDE DEF old, new, made
<1>6. CASE ~PresentIn(item, v)
  <2>1. sets = {}
    BY <1>2, <1>3, <1>6 DEF generate_for_from_impl
  <2>2. ~PresentIn(item, To(direction, u, v))
    BY <1>3, <1>6 DEF To
  <2>3. QED
    BY <2>1, <2>2 DEF made
<1>7. CASE PresentIn(item, v) /\ ~PresentIn(item, u)
  <2>1. new.status = "Addition" /\ new.ident = NameIn(item, v)
    BY <1>3, <1>5, <1>7 DEF SaysHistory
  <2>2. sets = IF direction = "Upgrade" THEN {Assign(NameIn(item, v), None, DefaultFn)} ELSE {}
    BY <1>2, <2>1 DEF generate_for_from_impl
  <2>3. CASE direction = "Upgrade"
    <3>1. To(direction, u, v) = v
      BY <2>3 DEF To
    <3>2. SetsItem(item, Assign(NameIn(item, v), None, DefaultFn), direction, u, v)
      BY <3>1 DEF SetsItem, Assign
    <3> HIDE DEF sets
    <3>3. QED
      BY <1>7, <2>2, <2>3, <3>1, <3>2 DEF sets, made
  <2>4. CASE direction # "Upgrade"
    <3>1. To(direction, u, v) = u
      BY <2>4 DEF To
    <3> HIDE DEF sets
    <3>2. QED
      BY <1>7, <2>2, <2>4, <3>1 DEF sets, made
  <2>5. QED
    BY <2>3, <2>4
<1>8. CASE PresentIn(item, u)
  <2>1. PresentIn(item, v) /\ old.status # "NotPresent" /\ new.status # "Addition"
    BY <1>3, <1>8
  <2>2. /\ get_ident(old) = NameIn(item, u) /\ get_ident(new) = NameIn(item, v)
        /\ new.ident = NameIn(item, v)
    BY <1>4, <1>5, <1>8, <2>1 DEF SaysHistory, get_ident
  <2>3. sets # {} /\ \A a \in sets : /\ a.lhs = NameIn(item, To(direction, u, v))
                                    /\ a.rhs = NameIn(item, From(direction, u, v))
    <3>1. CASE new.status = "Change" /\ direction = "Upgrade"
      <4>1. sets = {Assign(new.ident, new.from_ident, new.upgrade_with)}
        BY <1>2, <2>1, <3>1 DEF generate_for_from_impl
      <4>2. To(direction, u, v) = v /\ From(direction, u, v) = u
        BY <3>1 DEF To, From
      <4>3. new.from_ident = NameIn(item, u)
        BY <1>3, <3>1
      <4>4. QED
        BY <2>2, <4>1, <4>2, <4>3 DEF Assign
    <3>2. CASE new.status = "Change" /\ direction # "Upgrade"
      <4>1. sets = {Assign(new.from_ident, new.ident, new.downgrade_with)}
        BY <1>2, <2>1, <3>2 DEF generate_for_from_impl
      <4>2. QED
        BY <1>3, <2>2, <3>2, <4>1 DEF Assign, To, From
    <3>3. CASE new.status # "Change" /\ direction = "Upgrade"
      <4>1. sets = {Assign(get_ident(new), get_ident(old), None)}
        BY <1>2, <2>1, <3>3 DEF generate_for_from_impl
      <4>2. To(direction, u, v) = v /\ From(direction, u, v) = u
        BY <3>3 DEF To, From
      <4>3. QED
        BY <2>2, <4>1, <4>2 DEF Assign
    <3>4. CASE new.status # "Change" /\ direction # "Upgrade"
      <4>1. sets = {Assign(get_ident(old), get_ident(new), None)}
        BY <1>2, <2>1, <3>4 DEF generate_for_from_impl
      <4>2. QED
        BY <2>2, <3>4, <4>1 DEF Assign, To, From
    <3>5. QED
      BY <3>1, <3>2, <3>3, <3>4
  <2>4. PresentIn(item, To(direction, u, v)) /\ PresentIn(item, From(direction, u, v))
    BY <1>8, <2>1 DEF To, From
  <2>5. \A a \in sets : SetsItem(item, a, direction, u, v)
    BY <2>3, <2>4 DEF SetsItem
  <2> HIDE DEF sets
  <2>6. QED
    BY <2>3, <2>4, <2>5 DEF sets, made
<1>9. QED
  BY <1>6, <1>7, <1>8

\* The conversion of an enum has an arm for each variant; a variant that was added
\* would have none.
LEMMA VariantArms ==
  ASSUME NEW S, NEW item, AcceptedItem(item, S), NEW versions, Ascends(versions, S),
         NEW u, NEW v, Neighbours(S, u, v), NEW direction \in {"Upgrade", "Downgrade"},
         item.added = None
  PROVE  LET arms == VariantArm(Item(item, versions), direction, u, v)
         IN  arms # {} /\ \A a \in arms : /\ a.lhs = NameIn(item, To(direction, u, v))
                                          /\ a.rhs = NameIn(item, From(direction, u, v))
<1> DEFINE old == StatusOf(item, u)
           new == StatusOf(item, v)
           made == Item(item, versions)
<1>1. u \in S /\ v \in S /\ PresentIn(item, u) /\ PresentIn(item, v)
  BY DEF Neighbours, PresentIn
<1>2. StatusAt(made, u) = old /\ StatusAt(made, v) = new
  BY <1>1, StatusIs
<1>3. new.status # "Addition"
  BY <1>1, NextVersion
<1>4. SaysHistory(item, u, old) /\ SaysHistory(item, v, new)
  BY <1>1, StatusSays
<1> HIDE DEF old, new, made
<1>5. get_ident(old) = NameIn(item, u) /\ get_ident(new) = NameIn(item, v)
  BY <1>4 DEF SaysHistory, get_ident
<1>6. CASE direction = "Upgrade"
  <2>1. VariantArm(made, direction, u, v) = {Assign(get_ident(new), get_ident(old), None)}
    BY <1>2, <1>3, <1>6 DEF VariantArm
  <2>2. To(direction, u, v) = v /\ From(direction, u, v) = u
    BY <1>6 DEF To, From
  <2>3. QED
    BY <1>5, <2>1, <2>2 DEF Assign, made
<1>7. CASE direction # "Upgrade"
  <2>1. VariantArm(made, direction, u, v) = {Assign(get_ident(old), get_ident(new), None)}
    BY <1>2, <1>3, <1>7 DEF VariantArm
  <2>2. QED
    BY <1>5, <1>7, <2>1 DEF Assign, To, From, made
<1>8. QED
  BY <1>6, <1>7

\* The idents of a container's definition.
LEMMA IdentsAre ==
  ASSUME NEW S, NEW items, AcceptedItems(items, S), NEW versions, Ascends(versions, S),
         NEW c, MadeFrom(c, items, versions), NEW v \in S, NEW x
  PROVE  x \in Idents(c, v) <=>
           \E i \in DOMAIN items : PresentIn(items[i], v) /\ x = NameIn(items[i], v)
<1>1. ASSUME NEW i \in DOMAIN items
      PROVE  generate_for_container(c[i], v)
               = IF PresentIn(items[i], v) THEN {FieldIn(items[i], v)} ELSE {}
  BY FieldOfVersion DEF AcceptedItems, MadeFrom
<1>2. \A i \in DOMAIN items : FieldIn(items[i], v).ident = NameIn(items[i], v)
  BY DEF FieldIn
<1>3. DOMAIN c = DOMAIN items
  BY DEF MadeFrom
<1>4. x \in Idents(c, v) <=> \E i \in DOMAIN c : \E f \in generate_for_container(c[i], v) : x = f.ident
  BY DEF Idents, Definition
<1>5. QED
  BY <1>1, <1>2, <1>3, <1>4

\* The definitions of a container in one version have no two items of one name.
LEMMA NamesDistinct ==
  ASSUME NEW S, NEW items, AcceptedItems(items, S), NEW versions, Ascends(versions, S),
         NEW c, MadeFrom(c, items, versions), NEW v \in S, ~NameClash(items, v)
  PROVE  DistinctIdents(c, v)
<1>1. ASSUME NEW i \in DOMAIN items
      PROVE  generate_for_container(c[i], v)
               = IF PresentIn(items[i], v) THEN {FieldIn(items[i], v)} ELSE {}
  BY FieldOfVersion DEF AcceptedItems, MadeFrom
<1>2. \A i \in DOMAIN items : FieldIn(items[i], v).ident = NameIn(items[i], v)
  BY DEF FieldIn
<1>3. DOMAIN c = DOMAIN items
  BY DEF MadeFrom
<1>4. ASSUME NEW i \in DOMAIN items, NEW f \in generate_for_container(c[i], v)
      PROVE  PresentIn(items[i], v) /\ f.ident = NameIn(items[i], v)
  <2>1. CASE PresentIn(items[i], v)
    <3>1. generate_for_container(c[i], v) = {FieldIn(items[i], v)}
      BY <1>1, <2>1
    <3>2. f = FieldIn(items[i], v)
      BY <3>1
    <3>3. QED
      BY <1>2, <2>1, <3>2
  <2>2. CASE ~PresentIn(items[i], v)
    <3>1. generate_for_container(c[i], v) = {}
      BY <1>1, <2>2
    <3>2. QED
      BY <3>1
  <2>3. QED
    BY <2>1, <2>2
<1>5. ASSUME NEW i \in DOMAIN items, NEW j \in DOMAIN items,
             NEW f \in generate_for_container(c[i], v), NEW g \in generate_for_container(c[j], v),
             f.ident = g.ident
      PROVE  i = j
  <2>1. /\ PresentIn(items[i], v) /\ PresentIn(items[j], v)
        /\ NameIn(items[i], v) = NameIn(items[j], v)
    BY <1>4, <1>5
  <2>2. QED
    BY <2>1 DEF NameClash
<1>6. QED
  BY <1>3, <1>5 DEF DistinctIdents

\* A nested field that the declaration may have keeps its name.
LEMMA NestedKeepsName ==
  ASSUME NEW item, NEW v, item.changes = <<>>, item.deprecated = None
  PROVE  NameIn(item, v) = cleaned(item)
<1>1. LaterChanges(item, v) \cap Renames(item) = {}
  BY DEF LaterChanges
<1>2. ~DeprecatedIn(item, v)
  BY DEF DeprecatedIn
<1>3. QED
  BY <1>1, <1>2 DEF NameIn, NameFrom

\* The conversion of a struct compiles.
LEMMA StructConverts ==
  ASSUME NEW S, NEW items, AcceptedItems(items, S), NEW versions, Ascends(versions, S),
         NEW c, MadeFrom(c, items, versions), NEW u, NEW v, Neighbours(S, u, v),
         NEW direction \in {"Upgrade", "Downgrade"}, NEW code,
         \A w \in S : ~NameClash(items, w),
         \A i \in DOMAIN items :
           items[i].nested => items[i].changes = <<>> /\ items[i].deprecated = None
  PROVE  FromImplCompiles(c, direction, u, v, code)
<1> DEFINE to == To(direction, u, v)
           from == From(direction, u, v)
           sets(i) == generate_for_from_impl(c[i], direction, u, v)
<1>1. to \in S /\ from \in S
  BY DEF Neighbours, To, From
<1>2. DOMAIN c = DOMAIN items
  BY DEF MadeFrom
<1>3. ASSUME NEW i \in DOMAIN items
      PROVE  /\ ~PresentIn(items[i], to) => sets(i) = {}
             /\ PresentIn(items[i], to) => sets(i) # {}
             /\ \A a \in sets(i) : SetsItem(items[i], a, direction, u, v)
  <2>1. AcceptedItem(items[i], S) /\ c[i] = Item(items[i], versions)
    BY DEF AcceptedItems, MadeFrom
  <2>2. QED
    BY <2>1, FieldAssignments
<1>4. ASSUME NEW i \in DOMAIN items, NEW a \in sets(i)
      PROVE  PresentIn(items[i], to) /\ a.lhs = NameIn(items[i], to)
  BY <1>3 DEF SetsItem
<1>5. \A x : x \in Idents(c, to) <=>
               \E i \in DOMAIN items : PresentIn(items[i], to) /\ x = NameIn(items[i], to)
  BY <1>1, IdentsAre
<1>6. \A x : x \in Idents(c, from) <=>
               \E i \in DOMAIN items : PresentIn(items[i], from) /\ x = NameIn(items[i], from)
  BY <1>1, IdentsAre
<1> HIDE DEF sets, to, from
<1>7. ASSUME NEW i \in DOMAIN c, NEW j \in DOMAIN c, NEW a \in sets(i), NEW b \in sets(j),
             a.lhs = b.lhs
      PROVE  i = j
  <2>1. /\ PresentIn(items[i], to) /\ PresentIn(items[j], to)
        /\ NameIn(items[i], to) = NameIn(items[j], to)
    BY <1>2, <1>4, <1>7
  <2>2. QED
    BY <1>1, <1>2, <2>1 DEF NameClash
<1>8. UNION {{a.lhs : a \in sets(i)} : i \in DOMAIN c} = Idents(c, to)
  <2>1. ASSUME NEW x \in UNION {{a.lhs : a \in sets(i)} : i \in DOMAIN c}
        PROVE  x \in Idents(c, to)
    <3>1. PICK i \in DOMAIN c : \E a \in sets(i) : x = a.lhs
      OBVIOUS
    <3>2. PresentIn(items[i], to) /\ x = NameIn(items[i], to)
      BY <1>2, <1>4, <3>1
    <3>3. QED
      BY <1>2, <1>5, <3>2
  <2>2. ASSUME NEW x \in Idents(c, to)
        PROVE  x \in UNION {{a.lhs : a \in sets(i)} : i \in DOMAIN c}
    <3>1. PICK i \in DOMAIN c : PresentIn(items[i], to) /\ x = NameIn(items[i], to)
      BY <1>2, <1>5
    <3>2. PICK a \in sets(i) : TRUE
      BY <1>2, <1>3, <3>1
    <3>3. a.lhs = x
      BY <1>2, <1>4, <3>1
    <3>4. QED
      BY <3>3
  <2>3. QED
    BY <2>1, <2>2
<1>9. ASSUME NEW i \in DOMAIN c, NEW a \in sets(i)
      PROVE  /\ a.with = DefaultFn \/ a.rhs \in Idents(c, from)
             /\ (c[i].nested /\ "spec From" \in code.items /\ a.with = None) =>
                  a.lhs \in generate_for_json_path(c[i])
  <2>1. SetsItem(items[i], a, direction, u, v)
    BY <1>2, <1>3
  <2>2. a.with = DefaultFn \/ a.rhs \in Idents(c, from)
    <3>1. a.with = DefaultFn \/ (PresentIn(items[i], from) /\ a.rhs = NameIn(items[i], from))
      BY <2>1 DEF SetsItem, from
    <3>2. QED
      BY <1>2, <1>6, <3>1
  <2>3. ASSUME c[i].nested PROVE a.lhs \in generate_for_json_path(c[i])
    <3>1. c[i] = Item(items[i], versions)
      BY <1>2 DEF MadeFrom
    <3>2. c[i].nested = items[i].nested /\ c[i].ident = items[i].ident
      BY <3>1 DEF Item
    <3>3. a.lhs = NameIn(items[i], to) /\ NameIn(items[i], to) = cleaned(items[i])
      BY <1>2, <1>4, <2>3, <3>2, NestedKeepsName
    <3>4. cleaned(items[i]) = cleaned(c[i])
      BY <3>2 DEF cleaned
    <3>5. QED
      BY <2>3, <3>3, <3>4 DEF generate_for_json_path
  <2>4. QED
    BY <2>2, <2>3
<1>10. QED
  BY <1>7, <1>8, <1>9 DEF FromImplCompiles, sets, to, from, To, From

\* The conversion of an enum compiles.
LEMMA EnumConverts ==
  ASSUME NEW S, NEW items, AcceptedItems(items, S), NEW versions, Ascends(versions, S),
         NEW c, MadeFrom(c, items, versions), NEW u, NEW v, Neighbours(S, u, v),
         NEW direction \in {"Upgrade", "Downgrade"},
         \A i \in DOMAIN items : items[i].added = None
  PROVE  ArmsCompile(c, direction, u, v)
<1> DEFINE to == To(direction, u, v)
           from == From(direction, u, v)
           arms(i) == VariantArm(c[i], direction, u, v)
<1>1. to \in S /\ from \in S
  BY DEF Neighbours, To, From
<1>2. DOMAIN c = DOMAIN items
  BY DEF MadeFrom
<1>3. ASSUME NEW i \in DOMAIN items
      PROVE  /\ arms(i) # {}
             /\ \A a \in arms(i) : a.lhs = NameIn(items[i], to) /\ a.rhs = NameIn(items[i], from)
  <2>1. AcceptedItem(items[i], S) /\ c[i] = Item(items[i], versions)
    BY DEF AcceptedItems, MadeFrom
  <2>2. QED
    BY <2>1, VariantArms
<1>4. \A x : x \in Idents(c, to) <=> \E i \in DOMAIN items : x = NameIn(items[i], to)
  BY <1>1, IdentsAre DEF PresentIn
<1>5. \A x : x \in Idents(c, from) <=> \E i \in DOMAIN items : x = NameIn(items[i], from)
  BY <1>1, IdentsAre DEF PresentIn
<1> HIDE DEF arms, to, from
<1>6. UNION {{a.rhs : a \in arms(i)} : i \in DOMAIN c} = Idents(c, from)
  <2>1. ASSUME NEW x \in UNION {{a.rhs : a \in arms(i)} : i \in DOMAIN c}
        PROVE  x \in Idents(c, from)
    <3>1. PICK i \in DOMAIN c : \E a \in arms(i) : x = a.rhs
      OBVIOUS
    <3>2. QED
      BY <1>2, <1>3, <1>5, <3>1
  <2>2. ASSUME NEW x \in Idents(c, from)
        PROVE  x \in UNION {{a.rhs : a \in arms(i)} : i \in DOMAIN c}
    <3>1. PICK i \in DOMAIN c : x = NameIn(items[i], from)
      BY <1>2, <1>5
    <3>2. PICK a \in arms(i) : a.rhs = x
      BY <1>2, <1>3, <3>1
    <3>3. QED
      BY <3>2
  <2>3. QED
    BY <2>1, <2>2
<1>7. \A i \in DOMAIN c : \A a \in arms(i) : a.lhs \in Idents(c, to)
  BY <1>2, <1>3, <1>4
<1>8. QED
  BY <1>6, <1>7 DEF ArmsCompile, arms, to, from, To, From

\* Everything generated for an accepted module compiles.
LEMMA ExpansionCompiles ==
  ASSUME NEW d \in Declarations, ModuleExpansion(d).ok, ~KnownGap(d)
  PROVE  Compiles(d, ModuleExpansion(d).value)
<1> DEFINE S == Range(d.versions)
           code == ModuleExpansion(d).value
           versions == code.versions
<1>1. ExpandsTo(d, code)
  BY Expansion
<1> HIDE DEF code
<1>2. S \in SUBSET VersionSet /\ Ascends(versions, S) /\ code.items = SpecItems(d)
  BY <1>1 DEF ExpandsTo
<1>3. ASSUME NEW items \in Range(d.structs) \cup Range(d.enums), NEW w \in S
      PROVE  ~NameClash(items, w)
  BY DEF KnownGap
<1>4. \A k \in DOMAIN versions : versions[k] \in S
  BY <1>2 DEF Ascends
<1>5. ASSUME NEW k \in DOMAIN versions, NEW c \in Range(code.structs) \cup Range(code.enums)
      PROVE  DistinctIdents(c, versions[k])
  <2>1. PICK items \in Range(d.structs) \cup Range(d.enums) : Generates(d, c, items, versions)
    BY <1>1 DEF ExpandsTo
  <2>2. QED
    BY <1>2, <1>3, <1>4, <2>1, NamesDistinct DEF Generates
<1>6. ASSUME NEW k \in 1..(Len(versions) - 1)
      PROVE  Neighbours(S, versions[k], versions[k + 1])
  BY <1>2, ListedNeighbours
<1>7. ASSUME NEW direction \in {"Upgrade", "Downgrade"}, NEW k \in 1..(Len(versions) - 1),
             NEW fields \in Range(code.structs)
      PROVE  FromImplCompiles(fields, direction, versions[k], versions[k + 1], code)
  <2>1. PICK items \in Range(d.structs) : Generates(d, fields, items, versions)
    BY <1>1 DEF ExpandsTo
  <2>2. ASSUME NEW i \in DOMAIN items, items[i].nested
        PROVE  items[i].changes = <<>> /\ items[i].deprecated = None
    <3>1. PICK n \in DOMAIN d.structs : items = d.structs[n]
      BY DEF Range
    <3>2. items[i] \in Range(d.structs[n])
      BY <3>1 DEF Range
    <3>3. QED
      BY <2>2, <3>2 DEF KnownGap
  <2>3. QED
    BY <1>2, <1>3, <1>6, <2>1, <2>2, StructConverts DEF Generates
<1>8. ASSUME NEW direction \in {"Upgrade", "Downgrade"}, NEW k \in 1..(Len(versions) - 1),
             NEW variants \in Range(code.enums)
      PROVE  ArmsCompile(variants, direction, versions[k], versions[k + 1])
  <2>1. PICK items \in Range(d.enums) : Generates(d, variants, items, versions)
    BY <1>1 DEF ExpandsTo
  <2>2. ASSUME NEW i \in DOMAIN items
        PROVE  items[i].added = None
    <3>1. PICK n \in DOMAIN d.enums : items = d.enums[n]
      BY DEF Range
    <3>2. items[i] \in Range(d.enums[n])
      BY <3>1 DEF Range
    <3>3. QED
      BY <3>2 DEF KnownGap
  <2>3. QED
    BY <1>2, <1>6, <2>1, <2>2, EnumConverts DEF Generates
<1>9. UsesGeneratedStatus(d) => "status struct" \in code.items
  <2>1. ASSUME UsesGeneratedStatus(d) PROVE d.tracking /\ "try_convert" \notin d.skip
    BY <2>1 DEF UsesGeneratedStatus, KnownGap
  <2>2. ASSUME d.tracking, "try_convert" \notin d.skip PROVE "status struct" \in SpecItems(d)
    BY <2>2 DEF SpecItems, generate_status_struct
  <2>3. QED
    BY <1>2, <2>1, <2>2
<1>10. QED
  BY <1>5, <1>7, <1>8, <1>9 DEF Compiles, code

\* For every module the macro accepts outside the known gaps, whatever versions it
\* declares and whatever history its items have: each version's definition holds every
\* item under the name, with the type and with the deprecation its history gives it
\* there (insert_container_versions), and the generated definitions and conversions
\* compile (generate_for_from_impl).
THEOREM ExpansionAlwaysSound == VersionedSpec => []ExpansionIsSound
<1>1. VersionedInv => GeneratedCodeCompiles
  <2>1. SUFFICES ASSUME VersionedInv, Expanded PROVE Compiles(declared, generated.value)
    BY DEF GeneratedCodeCompiles
  <2>2. /\ declared \in Declarations /\ generated = ModuleExpansion(declared)
        /\ ModuleExpansion(declared).ok /\ ~KnownGap(declared)
    BY <2>1 DEF Expanded, VersionedInv
  <2>3. QED
    BY <2>2, ExpansionCompiles
<1>2. VersionedInv => ExpansionIsSound
  BY <1>1, DefinitionsFollow DEF ExpansionIsSound
<1>3. QED
  BY <1>2, VersionedInvariant, PTL

\* An object in version v that was the n-th of its review.
IsObject(o, v, n) ==
  "version" \in DOMAIN o /\ o.version = v /\ "metadata" \in DOMAIN o /\ o.metadata = n

\* A conversion by one version gives an object in that version.
LEMMA SpecKeeps ==
  ASSUME NEW code, NEW o, NEW v, NEW n, IsObject(o, v, n), NEW converted
  PROVE  IsObject(WithSpec(code, o, converted), v, n)
BY DEF IsObject, WithSpec

\* A conversion by one version gives an object in that version.
LEMMA StepConverts ==
  ASSUME NEW code, NEW o, NEW v, NEW n, IsObject(o, v, n), NEW to
  PROVE  IsObject(ObjectFrom(code, o, to), code.versions[to], n)
<1> DEFINE moved == [o EXCEPT !.version = code.versions[to]]
<1>1. IsObject(moved, code.versions[to], n)
  BY DEF IsObject
<1>2. \A converted : IsObject(WithSpec(code, moved, converted), code.versions[to], n)
  BY <1>1, SpecKeeps
<1> HIDE DEF moved
<1>3. QED
  BY <1>2 DEF ObjectFrom, moved

\* Conversions by one version after the other, in a function.
Converting(f, code, obj, path, k) ==
  f = [j \in 0..k |-> IF j = 0 THEN obj ELSE ObjectFrom(code, f[j - 1], path[j])]

\* There is such a function, for any path.
LEMMA PathExists ==
  ASSUME NEW code, NEW obj, NEW path, NEW n \in Nat
  PROVE  \E f : Converting(f, code, obj, path, n)
<1> DEFINE T == {k \in 0..n : ~\E f : Converting(f, code, obj, path, k)}
<1>1. ASSUME T # {} PROVE FALSE
  <2>1. PICK k \in T : \A m \in T : k <= m
    <3>1. T \subseteq Nat
      OBVIOUS
    <3> HIDE DEF T
    <3>2. QED
      BY <1>1, <3>1, LeastNumber
  <2>2. k \in 0..n /\ ~\E f : Converting(f, code, obj, path, k)
    OBVIOUS
  <2>3. CASE k = 0
    <3> DEFINE f == [j \in 0..0 |-> obj]
    <3>1. f = [j \in 0..0 |-> IF j = 0 THEN obj ELSE ObjectFrom(code, f[j - 1], path[j])]
      OBVIOUS
    <3>2. QED
      BY <2>2, <2>3, <3>1 DEF Converting
  <2>4. CASE k # 0
    <3>1. k - 1 \in 0..n /\ k - 1 \notin T /\ k \in Nat
      BY <2>1, <2>4
    <3>2. PICK f : Converting(f, code, obj, path, k - 1)
      BY <3>1
    <3> DEFINE g == [j \in 0..k |-> IF j = k THEN ObjectFrom(code, f[k - 1], path[k]) ELSE f[j]]
    <3>3. \A j \in 0..(k - 1) : f[j] = IF j = 0 THEN obj ELSE ObjectFrom(code, f[j - 1], path[j])
      BY <3>2 DEF Converting
    <3>4. ASSUME NEW j \in 0..k
          PROVE  g[j] = IF j = 0 THEN obj ELSE ObjectFrom(code, g[j - 1], path[j])
      <4>1. CASE j = k
        <5>1. k - 1 \in 0..k /\ g[k - 1] = f[k - 1]
          BY <2>4, <3>1
        <5>2. g[j] = ObjectFrom(code, f[k - 1], path[k])
          BY <4>1
        <5>3. QED
          BY <2>4, <4>1, <5>1, <5>2
      <4>2. CASE j = 0
        BY <2>4, <3>1, <3>3, <4>2
      <4>3. CASE j # k /\ j # 0
        <5>1. j \in 0..(k - 1) /\ j - 1 \in 0..k /\ j - 1 # k
          BY <3>1, <4>3
        <5>2. g[j] = f[j] /\ g[j - 1] = f[j - 1]
          BY <4>3, <5>1
        <5>3. QED
          BY <3>3, <4>3, <5>1, <5>2
      <4>4. QED
        BY <4>1, <4>2, <4>3
    <3>5. g = [j \in 0..k |-> IF j = 0 THEN obj ELSE ObjectFrom(code, g[j - 1], path[j])]
      <4> DEFINE h == [j \in 0..k |-> IF j = 0 THEN obj ELSE ObjectFrom(code, g[j - 1], path[j])]
      <4>1. \A j \in 0..k : g[j] = h[j]
        BY <3>4
      <4>2. DOMAIN g = 0..k /\ DOMAIN h = 0..k
        OBVIOUS
      <4>3. g = h
        BY <4>1, <4>2, Zenon
      <4>4. QED
        BY <4>3
    <3> HIDE DEF g
    <3>6. Converting(g, code, obj, path, k)
      BY <3>5 DEF Converting
    <3>7. QED
      BY <2>2, <3>6
  <2>5. QED
    BY <2>3, <2>4
<1>2. n \in 0..n
  OBVIOUS
<1>3. QED
  BY <1>1, <1>2

\* The place of a version in the list.
LEMMA PositionIs ==
  ASSUME NEW S \in SUBSET VersionSet, NEW versions, Ascends(versions, S), NEW v \in S
  PROVE  Position(versions, v) \in 1..Len(versions) /\ versions[Position(versions, v)] = v
<1>1. \E i \in DOMAIN versions : versions[i] = v
  BY Places
<1>2. DOMAIN versions = 1..Len(versions)
  BY Places
<1>3. QED
  BY <1>1, <1>2 DEF Position

\* A path of conversions ends in the desired version.
LEMMA PathEnds ==
  ASSUME NEW S \in SUBSET VersionSet, NEW versions, Ascends(versions, S), NEW v \in S, NEW w \in S
  PROVE  LET path == conversion_paths(versions, v, w)
         IN  /\ Len(path) \in Nat
             /\ Len(path) = 0 => v = w
             /\ Len(path) # 0 => versions[path[Len(path)]] = w
<1> DEFINE s == Position(versions, v)
           e == Position(versions, w)
           path == conversion_paths(versions, v, w)
<1>1. s \in Int /\ e \in Int /\ versions[s] = v /\ versions[e] = w
  <2>1. Len(versions) \in Nat
    BY Places
  <2>2. QED
    BY <2>1, PositionIs
<1> HIDE DEF s, e
<1>2. CASE s < e
  <2>1. path = [i \in 1..(e - s) |-> s + i]
    BY <1>2 DEF conversion_paths, s, e
  <2> HIDE DEF path
  <2>2. e - s \in Nat /\ e - s # 0
    BY <1>1, <1>2
  <2>3. Len(path) = e - s
    BY <2>1, <2>2
  <2>4. path[e - s] = e
    BY <1>1, <2>1, <2>2
  <2>5. QED
    BY <1>1, <2>2, <2>3, <2>4 DEF path
<1>3. CASE ~(s < e)
  <2>1. path = [i \in 1..(s - e) |-> s - i]
    BY <1>3 DEF conversion_paths, s, e
  <2> HIDE DEF path
  <2>2. s - e \in Nat
    BY <1>1, <1>3
  <2>3. Len(path) = s - e
    BY <2>1, <2>2
  <2>4. s - e # 0 => path[s - e] = e
    BY <1>1, <2>1, <2>2
  <2>5. s - e = 0 => v = w
    BY <1>1
  <2>6. QED
    BY <1>1, <2>2, <2>3, <2>4, <2>5 DEF path
<1>4. QED
  BY <1>2, <1>3

\* An object is converted into the desired version and keeps its metadata.
LEMMA ObjectConverts ==
  ASSUME NEW S \in SUBSET VersionSet, NEW code, Ascends(code.versions, S),
         NEW v \in S, NEW w \in S, NEW o, NEW n, IsObject(o, v, n)
  PROVE  IsObject(ConvertObject(code, o, w), w, n)
<1> DEFINE path == conversion_paths(code.versions, v, w)
           f == CHOOSE g : Converting(g, code, o, path, Len(path))
<1>1. /\ Len(path) \in Nat
      /\ Len(path) = 0 => v = w
      /\ Len(path) # 0 => code.versions[path[Len(path)]] = w
  BY PathEnds
<1>2. o.version = v
  BY DEF IsObject
<1> HIDE DEF path
<1>3. ConvertObject(code, o, w) = f[Len(path)]
  BY <1>2 DEF ConvertObject, Converting, path
<1>4. Converting(f, code, o, path, Len(path))
  BY <1>1, PathExists
<1> HIDE DEF f
<1>5. \A k \in 0..Len(path) :
        f[k] = IF k = 0 THEN o ELSE ObjectFrom(code, f[k - 1], path[k])
  BY <1>4 DEF Converting
<1> DEFINE T == {k \in 0..Len(path) : ~\E x : IsObject(f[k], x, n)}
<1>6. ASSUME T # {} PROVE FALSE
  <2>1. PICK k \in T : \A m \in T : k <= m
    <3>1. T \subseteq Nat
      BY <1>1
    <3> HIDE DEF T
    <3>2. QED
      BY <1>6, <3>1, LeastNumber
  <2>2. k # 0
    BY <1>5, <2>1
  <2>3. k - 1 \in 0..Len(path) /\ k - 1 \notin T
    BY <1>1, <2>1, <2>2
  <2>4. PICK x : IsObject(f[k - 1], x, n)
    BY <2>3
  <2>5. f[k] = ObjectFrom(code, f[k - 1], path[k])
    BY <1>5, <2>2
  <2>6. IsObject(f[k], code.versions[path[k]], n)
    BY <2>4, <2>5, StepConverts
  <2>7. QED
    BY <2>6
<1>7. CASE Len(path) = 0
  BY <1>1, <1>3, <1>5, <1>7
<1>8. CASE Len(path) # 0
  <2>1. Len(path) \in 0..Len(path) /\ Len(path) - 1 \in 0..Len(path)
    BY <1>1, <1>8
  <2>2. PICK x : IsObject(f[Len(path) - 1], x, n)
    BY <1>6, <2>1
  <2>3. f[Len(path)] = ObjectFrom(code, f[Len(path) - 1], path[Len(path)])
    BY <1>5, <1>8, <2>1
  <2>4. QED
    BY <1>1, <1>3, <1>8, <2>2, <2>3, StepConverts
<1>9. QED
  BY <1>7, <1>8

\* A function on 1..k with one more value is the sequence with one more element.
LEMMA OneMore ==
  ASSUME NEW V, NEW n \in Nat, NEW f \in [1..n -> V], NEW k \in 1..n
  PROVE  [i \in 1..k |-> f[i]] = Append([i \in 1..(k - 1) |-> f[i]], f[k])
<1> DEFINE s == [i \in 1..(k - 1) |-> f[i]]
           t == [i \in 1..k |-> f[i]]
<1>1. k - 1 \in Nat /\ k \in Nat /\ \A i \in 1..k : f[i] \in V
  OBVIOUS
<1>2. s \in Seq(V) /\ Len(s) = k - 1 /\ f[k] \in V
  BY <1>1
<1>3. t \in Seq(V) /\ Len(t) = k
  BY <1>1
<1>4. /\ Append(s, f[k]) \in Seq(V) /\ Len(Append(s, f[k])) = k
      /\ \A i \in 1..k : Append(s, f[k])[i] = IF i = k THEN f[k] ELSE s[i]
  BY <1>1, <1>2, AppendProperties
<1>5. \A i \in 1..k : t[i] = Append(s, f[k])[i]
  BY <1>1, <1>4
<1> HIDE DEF s, t
<1>6. t = Append(s, f[k])
  BY <1>3, <1>4, <1>5, SeqEqual
<1>7. QED
  BY <1>6 DEF s, t

\* All objects are converted, or none if one of them is not of the resource.
LEMMA ObjectsConvert ==
  ASSUME NEW code, NEW objects, Len(objects) \in Nat, NEW desired \in Range(code.versions)
  PROVE  convert_objects(code, objects, desired)
           = IF \A i \in 1..Len(objects) : from_json_object(code, objects[i]).ok
             THEN Ok([i \in 1..Len(objects) |-> ConvertObject(code, objects[i], desired)])
             ELSE Err("Parse")
<1> DEFINE n == Len(objects)
           converted == [i \in 1..n |-> ConvertObject(code, objects[i], desired)]
           parse(k) == \A i \in 1..k : from_json_object(code, objects[i]).ok
           upTo(k) == IF parse(k) THEN Ok([i \in 1..k |-> converted[i]]) ELSE Err("Parse")
           f == ConvertedUpTo(code, objects, desired)
           g == [k \in 0..n |-> upTo(k)]
<1>1. upTo(0) = Ok(<<>>)
  <2>1. [i \in 1..0 |-> converted[i]] = <<>>
    OBVIOUS
  <2>2. parse(0)
    OBVIOUS
  <2> HIDE DEF converted, parse
  <2>3. QED
    BY <2>1, <2>2
<1>2. ASSUME NEW k \in 1..n
      PROVE  upTo(k) = ConvertNext(code, upTo(k - 1), objects[k], desired)
  <2>1. k \in Nat /\ k - 1 \in Nat /\ \A i : i \in 1..k <=> i \in 1..(k - 1) \/ i = k
    OBVIOUS
  <2>2. parse(k) <=> parse(k - 1) /\ from_json_object(code, objects[k]).ok
    BY <2>1
  <2>3. [i \in 1..k |-> converted[i]] = Append([i \in 1..(k - 1) |-> converted[i]], converted[k])
    <3>1. converted \in [1..n -> {converted[i] : i \in 1..n}]
      OBVIOUS
    <3> HIDE DEF converted
    <3>2. QED
      BY <3>1, OneMore
  <2>4. converted[k] = ConvertObject(code, objects[k], desired)
    OBVIOUS
  <2> HIDE DEF converted, parse
  <2>5. CASE parse(k - 1)
    <3>1. /\ upTo(k - 1).ok
          /\ upTo(k - 1).value = [i \in 1..(k - 1) |-> converted[i]]
      BY <2>5 DEF Ok
    <3>2. CASE from_json_object(code, objects[k]).ok
      BY <2>2, <2>3, <2>4, <2>5, <3>1, <3>2 DEF ConvertNext
    <3>3. CASE ~from_json_object(code, objects[k]).ok
      BY <2>2, <2>5, <3>1, <3>3 DEF ConvertNext
    <3>4. QED
      BY <3>2, <3>3
  <2>6. CASE ~parse(k - 1)
    <3>1. upTo(k - 1) = Err("Parse") /\ ~upTo(k - 1).ok
      BY <2>6 DEF Err
    <3>2. upTo(k) = Err("Parse")
      BY <2>2, <2>6
    <3>3. QED
      BY <3>1, <3>2 DEF ConvertNext
  <2>7. QED
    BY <2>5, <2>6
<1> HIDE DEF upTo
<1>3. g = [k \in 0..n |-> IF k = 0 THEN Ok(<<>>)
                          ELSE ConvertNext(code, g[k - 1], objects[k], desired)]
  <2>1. ASSUME NEW k \in 0..n
        PROVE  g[k] = IF k = 0 THEN Ok(<<>>) ELSE ConvertNext(code, g[k - 1], objects[k], desired)
    <3>1. CASE k = 0
      BY <1>1, <3>1
    <3>2. CASE k # 0
      <4>1. k \in 1..n /\ k - 1 \in 0..n
        BY <3>2
      <4>2. g[k - 1] = upTo(k - 1) /\ g[k] = upTo(k)
        BY <4>1
      <4>3. QED
        BY <1>2, <3>2, <4>1, <4>2
    <3>3. QED
      BY <3>1, <3>2
  <2>2. QED
    BY <2>1
<1>4. f = [k \in 0..n |-> IF k = 0 THEN Ok(<<>>)
                          ELSE ConvertNext(code, f[k - 1], objects[k], desired)]
  <2> HIDE DEF g
  <2>1. QED
    BY <1>3 DEF ConvertedUpTo
<1> HIDE DEF f, g
<1> DEFINE T == {k \in 0..n : f[k] # upTo(k)}
<1>5. ASSUME T # {} PROVE FALSE
  <2>1. PICK k \in T : \A m \in T : k <= m
    <3>1. T \subseteq Nat
      OBVIOUS
    <3> HIDE DEF T
    <3>2. QED
      BY <1>5, <3>1, LeastNumber
  <2>2. k # 0
    <3>1. 0 \in 0..n /\ f[0] = Ok(<<>>)
      BY <1>4
    <3>2. QED
      BY <1>1, <2>1, <3>1
  <2>3. k \in 1..n /\ k - 1 \in 0..n /\ k - 1 \notin T
    BY <2>1, <2>2
  <2>4. f[k - 1] = upTo(k - 1)
    BY <2>3
  <2>5. f[k] = ConvertNext(code, f[k - 1], objects[k], desired)
    BY <1>4, <2>2, <2>3
  <2>6. QED
    BY <1>2, <2>1, <2>3, <2>4, <2>5
<1>6. f[n] = upTo(n)
  BY <1>5
<1>7. [i \in 1..n |-> converted[i]] = converted
  OBVIOUS
<1>8. convert_objects(code, objects, desired) = f[n]
  BY DEF convert_objects, from_api_version, Ok, f
<1>9. QED
  <2> HIDE DEF converted
  <2>1. convert_objects(code, objects, desired) = upTo(n)
    BY <1>6, <1>8
  <2>2. upTo(n) = IF parse(n) THEN Ok(converted) ELSE Err("Parse")
    BY <1>7 DEF upTo
  <2>3. QED
    BY <2>1, <2>2 DEF converted

\* A name is a name with or without the prefix of deprecated items.
LEMMA NameTypes ==
  ASSUME NEW item \in ItemSet, NEW v
  PROVE  NameIn(item, v) \in IdentSet
<1>1. original(item) \in IdentSet /\ cleaned(item) \in IdentSet
  BY ItemTypes DEF original, cleaned, IdentSet
<1>2. ASSUME NEW renames \in SUBSET Renames(item), renames # {}
      PROVE  item.changes[Min(renames)].from_name \in IdentSet
  <2>1. renames \subseteq Nat /\ Renames(item) \subseteq 1..Len(item.changes)
    BY ItemTypes DEF Renames
  <2>2. Min(renames) \in renames
    BY <1>2, <2>1, MinOf
  <2>3. Min(renames) \in Renames(item) /\ Min(renames) \in 1..Len(item.changes)
    BY <2>1, <2>2
  <2>4. item.changes[Min(renames)] \in ChangeSet
    BY <2>3, ItemTypes
  <2>5. item.changes[Min(renames)].from_name # None
    BY <2>3 DEF Renames
  <2>6. QED
    BY <2>4, <2>5 DEF ChangeSet
<1>3. QED
  BY <1>1, <1>2 DEF NameIn, NameFrom

\* A container has the names its declaration gives it in a version, under which it has a
\* value of a new object.
LEMMA PresentAre ==
  ASSUME NEW S, NEW items, AcceptedItems(items, S), NEW versions, Ascends(versions, S),
         NEW c, MadeFrom(c, items, versions), NEW v \in S
  PROVE  /\ {get_ident(StatusAt(c[i], v)) : i \in PresentItems(c, v)} = Idents(c, v)
         /\ <<>> \notin Idents(c, v)
<1>1. ASSUME NEW i \in DOMAIN items
      PROVE  /\ i \in PresentItems(c, v) <=> PresentIn(items[i], v)
             /\ PresentIn(items[i], v) => get_ident(StatusAt(c[i], v)) = NameIn(items[i], v)
             /\ NameIn(items[i], v) \in IdentSet
  <2>1. AcceptedItem(items[i], S) /\ c[i] = Item(items[i], versions) /\ DOMAIN c = DOMAIN items
    BY DEF AcceptedItems, MadeFrom
  <2>2. generate_for_container(c[i], v)
          = IF PresentIn(items[i], v) THEN {FieldIn(items[i], v)} ELSE {}
    BY <2>1, FieldOfVersion
  <2>3. generate_for_container(c[i], v) # {} <=> PresentIn(items[i], v)
    BY <2>2
  <2>4. ASSUME PresentIn(items[i], v)
        PROVE  get_ident(StatusAt(c[i], v)) = NameIn(items[i], v)
    <3>1. StatusAt(c[i], v) = StatusOf(items[i], v)
      BY <2>1, StatusIs
    <3>2. SaysHistory(items[i], v, StatusOf(items[i], v))
      BY <2>1, <2>4, StatusSays
    <3> HIDE DEF StatusOf
    <3>3. QED
      BY <3>1, <3>2 DEF SaysHistory, get_ident
  <2>5. NameIn(items[i], v) \in IdentSet
    BY <2>1, NameTypes DEF AcceptedItem
  <2>6. QED
    BY <2>1, <2>3, <2>4, <2>5 DEF PresentItems
<1>2. PresentItems(c, v) \subseteq DOMAIN items
  BY DEF PresentItems, MadeFrom
<1>3. \A x : x \in Idents(c, v) <=>
               \E i \in DOMAIN items : PresentIn(items[i], v) /\ x = NameIn(items[i], v)
  BY IdentsAre
<1>4. \A x : x \in {get_ident(StatusAt(c[i], v)) : i \in PresentItems(c, v)} <=> x \in Idents(c, v)
  BY <1>1, <1>2, <1>3
<1>5. <<>> \notin IdentSet
  BY DEF IdentSet
<1>6. <<>> \notin Idents(c, v)
  BY <1>1, <1>3, <1>5
<1>7. QED
  BY <1>4, <1>6

\* The names of the fields of a new object are those of its version.
LEMMA NewObjectHasFields ==
  ASSUME NEW d \in Declarations, ModuleExpansion(d).ok, ~KnownGap(d), NEW code,
         code = ModuleExpansion(d).value, NEW v \in Range(code.versions), NEW empty \in BOOLEAN
  PROVE  /\ DOMAIN SpecValue(code, v, empty) = Idents(code.structs["spec"], v)
         /\ <<>> \notin Idents(code.structs["spec"], v)
<1> DEFINE fields == code.structs["spec"]
           S == Range(d.versions)
<1>1. ExpandsTo(d, code)
  BY Expansion
<1>2. fields \in Range(code.structs)
  <2>1. "spec" \in DOMAIN d.structs
    BY VersionedAssumption
  <2>2. code = generate_tokens(d)
    BY DEF ModuleExpansion, Err, Ok
  <2>3. DOMAIN code.structs = DOMAIN d.structs
    BY <2>2 DEF generate_tokens
  <2>4. QED
    BY <2>1, <2>3 DEF Range
<1>3. PICK items \in Range(d.structs) : Generates(d, fields, items, code.versions)
  BY <1>1, <1>2 DEF ExpandsTo
<1>4. v \in S /\ Ascends(code.versions, S) /\ AcceptedItems(items, S)
      /\ MadeFrom(fields, items, code.versions)
  BY <1>1, <1>3 DEF ExpandsTo, Generates
<1>5. DOMAIN SpecValue(code, v, empty)
        = {get_ident(StatusAt(fields[i], v)) : i \in PresentItems(fields, v)}
  BY DEF SpecValue
<1> HIDE DEF fields
<1>6. QED
  BY <1>4, <1>5, PresentAre DEF fields

\* A copy of a new object is an object of the resource unless something is wrong with it.
LEMMA CopiesParse ==
  ASSUME NEW d \in Declarations, ModuleExpansion(d).ok, ~KnownGap(d), NEW code,
         code = ModuleExpansion(d).value, NEW v \in Range(code.versions), NEW empty \in BOOLEAN,
         NEW n \in Nat, NEW defect \in Defects
  PROVE  LET copy == Damage([NewObject(code, v, empty) EXCEPT !.metadata = n], defect)
         IN  /\ from_json_object(code, copy).ok <=> defect = "none"
             /\ defect = "none" => IsObject(copy, v, n)
<1> DEFINE spec == SpecValue(code, v, empty)
           obj == [NewObject(code, v, empty) EXCEPT !.metadata = n]
           copy == Damage(obj, defect)
           idents == Idents(code.structs["spec"], v)
<1>1. /\ {"version", "kind", "metadata", "spec"} \subseteq DOMAIN obj
      /\ obj.version = v /\ obj.kind = "Kind" /\ obj.metadata = n /\ obj.spec = spec
  BY DEF NewObject
<1>2. DOMAIN spec = idents /\ <<>> \notin idents
  BY NewObjectHasFields
<1>3. /\ v # None /\ None \notin Range(code.versions)
      /\ UnknownVersion \notin Range(code.versions)
  <2>1. Range(code.versions) = Range(d.versions) /\ Range(d.versions) \in SUBSET VersionSet
    BY Expansion DEF ExpandsTo
  <2>2. QED
    BY <2>1, VersionedAssumption
<1>4. \A o : DOMAIN o.spec # Idents(code.structs["spec"], o.version)
               => ~from_json_object(code, o).ok
  BY DEF from_json_object, Idents, Err
<1> HIDE DEF spec, idents, obj
<1>5. CASE defect = "none"
  <2>1. copy = obj
    BY <1>5 DEF Damage
  <2>2. IsObject(obj, v, n)
    BY <1>1 DEF IsObject
  <2>3. from_json_object(code, obj) = Ok(obj)
    <3>1. /\ obj.kind = "Kind" /\ obj.kind # None /\ obj.kind # "number"
          /\ obj.version = v /\ obj.version # None /\ obj.spec = spec
      BY <1>1, <1>3, VersionedAssumption
    <3>2. DOMAIN obj.spec = {f.ident : f \in Definition(code.structs["spec"], obj.version)}
      BY <1>2, <3>1 DEF idents, Idents
    <3>3. QED
      BY <3>1, <3>2 DEF from_json_object
  <2>4. QED
    BY <1>5, <2>1, <2>2, <2>3 DEF Ok, obj
<1>6. CASE defect = "kind missing"
  <2>1. copy = [obj EXCEPT !.kind = None]
    BY <1>6 DEF Damage
  <2>2. copy.kind = None
    BY <1>1, <2>1
  <2> HIDE DEF copy
  <2>3. ~from_json_object(code, copy).ok
    BY <2>2, VersionedAssumption DEF from_json_object, Err
  <2>4. QED
    BY <1>6, <2>3 DEF copy, obj
<1>7. CASE defect = "kind not a string"
  <2>1. copy = [obj EXCEPT !.kind = "number"]
    BY <1>7 DEF Damage
  <2>2. copy.kind = "number"
    BY <1>1, <2>1
  <2> HIDE DEF copy
  <2>3. ~from_json_object(code, copy).ok
    BY <2>2 DEF from_json_object, Err
  <2>4. QED
    BY <1>7, <2>3 DEF copy, obj
<1>8. CASE defect = "other kind"
  <2>1. copy = [obj EXCEPT !.kind = "OtherKind"]
    BY <1>8 DEF Damage
  <2>2. copy.kind = "OtherKind"
    BY <1>1, <2>1
  <2> HIDE DEF copy
  <2>3. ~from_json_object(code, copy).ok
    BY <2>2 DEF from_json_object, Err
  <2>4. QED
    BY <1>8, <2>3 DEF copy, obj
<1>9. CASE defect \in {"version missing", "unknown version"}
  <2>1. copy = [obj EXCEPT !.version = None] \/ copy = [obj EXCEPT !.version = UnknownVersion]
    BY <1>9 DEF Damage
  <2>2. copy.version \in {None, UnknownVersion} /\ copy.version \notin Range(code.versions)
    BY <1>1, <1>3, <2>1
  <2> HIDE DEF copy
  <2>3. ~from_json_object(code, copy).ok
    BY <2>2 DEF from_json_object, Err
  <2>4. QED
    BY <1>9, <2>3 DEF copy, obj
<1>10. CASE defect = "other fields"
  <2>1. copy = [obj EXCEPT !.spec = [ident \in {<<>>} |-> 0]]
    BY <1>10 DEF Damage
  <2>2. copy.spec = [ident \in {<<>>} |-> 0] /\ copy.version = v
    BY <1>1, <2>1
  <2>3. DOMAIN copy.spec # Idents(code.structs["spec"], copy.version)
    BY <1>2, <2>2 DEF idents
  <2>4. ~from_json_object(code, copy).ok
    BY <1>4, <2>3
  <2> HIDE DEF copy
  <2>5. QED
    BY <1>10, <2>4 DEF copy, obj
<1>11. QED
  BY <1>5, <1>6, <1>7, <1>8, <1>9, <1>10 DEF Defects

\* The answer to a review of copies of an object.
AnswerFits(code, review, answer) ==
  LET fine == /\ review.desired \in DOMAIN code.versions
              /\ Range(review.defects) \subseteq {"none"}
  IN  /\ answer.uid = IF review.desired = None THEN None ELSE review.uid
      /\ IF fine
         THEN /\ answer.code = 200
              /\ Len(answer.objects) = Len(review.defects)
              /\ \A i \in DOMAIN answer.objects :
                   /\ answer.objects[i].metadata = i
                   /\ answer.objects[i].version = code.versions[review.desired]
         ELSE answer.code = 400 /\ answer.objects = <<>>

\* A review of copies of a new object is answered for all of them or for none.
LEMMA ReviewIsAnswered ==
  ASSUME NEW d \in Declarations, ModuleExpansion(d).ok, ~KnownGap(d), NEW code,
         code = ModuleExpansion(d).value, NEW v \in Range(code.versions), NEW empty \in BOOLEAN,
         NEW review \in Reviews
  PROVE  AnswerFits(code, review,
                    try_convert(code, from_review(code, NewObject(code, v, empty), review)))
<1> DEFINE obj == NewObject(code, v, empty)
           S == Range(d.versions)
           n == Len(review.defects)
           copy(i) == Damage([obj EXCEPT !.metadata = i], review.defects[i])
           objects == [i \in DOMAIN review.defects |-> copy(i)]
           desired == IF review.desired \in DOMAIN code.versions
                      THEN code.versions[review.desired] ELSE UnknownVersion
           answer == try_convert(code, from_review(code, obj, review))
           fine == /\ review.desired \in DOMAIN code.versions
                   /\ Range(review.defects) \subseteq {"none"}
<1>1. /\ review.desired \in {None} \cup Nat /\ None \notin Nat
      /\ review.defects \in Seq(Defects) /\ n \in Nat /\ DOMAIN review.defects = 1..n
      /\ \A i \in 1..n : review.defects[i] \in Defects
  <2>1. review \in ReviewSet /\ None \notin Nat
    BY VersionedAssumption
  <2>2. review.defects \in Seq(Defects) /\ review.desired \in {None} \cup Nat
    BY <2>1 DEF ReviewSet
  <2>3. QED
    BY <2>1, <2>2
<1>2. /\ S \in SUBSET VersionSet /\ Ascends(code.versions, S) /\ Range(code.versions) = S
      /\ UnknownVersion \notin S
  BY Expansion, VersionedAssumption DEF ExpandsTo
<1>3. DOMAIN code.versions \subseteq Nat
  <2>1. Len(code.versions) \in Nat /\ DOMAIN code.versions = 1..Len(code.versions)
    BY <1>2, Places
  <2>2. QED
    BY <2>1
<1>4. ASSUME NEW i \in 1..n
      PROVE  /\ from_json_object(code, copy(i)).ok <=> review.defects[i] = "none"
             /\ review.defects[i] = "none" => IsObject(copy(i), v, i)
  <2>1. i \in Nat /\ review.defects[i] \in Defects
    BY <1>1
  <2>2. \A defect \in Defects :
          /\ from_json_object(code, Damage([obj EXCEPT !.metadata = i], defect)).ok
               <=> defect = "none"
          /\ defect = "none" => IsObject(Damage([obj EXCEPT !.metadata = i], defect), v, i)
    BY <2>1, CopiesParse
  <2> HIDE DEF obj
  <2>3. QED
    BY <2>1, <2>2
<1>5. Range(review.defects) \subseteq {"none"} <=> \A i \in 1..n : review.defects[i] = "none"
  BY <1>1 DEF Range
<1> HIDE DEF obj, copy
<1>6. Len(objects) = n /\ \A i \in 1..n : objects[i] = copy(i)
  BY <1>1
<1>7. CASE review.desired = None
  <2>1. answer = [uid |-> None, code |-> 400, objects |-> <<>>]
    BY <1>7 DEF try_convert, from_review, Err
  <2>2. review.desired \notin DOMAIN code.versions
    BY <1>1, <1>3, <1>7
  <2> HIDE DEF answer
  <2>3. QED
    BY <1>7, <2>1, <2>2 DEF AnswerFits, answer, obj
<1>8. CASE review.desired # None
  <2> DEFINE result == convert_objects(code, objects, desired)
  <2>1. answer = Answer(review.uid, result)
    BY <1>8 DEF try_convert, from_review, Ok, copy
  <2> HIDE DEF answer
  <2>2. CASE fine
    <3>1. desired \in Range(code.versions) /\ desired = code.versions[review.desired]
      BY <2>2 DEF Range
    <3>2. \A i \in 1..n : from_json_object(code, objects[i]).ok /\ IsObject(objects[i], v, i)
      BY <1>4, <1>5, <1>6, <2>2
    <3> DEFINE converted == [i \in 1..n |-> ConvertObject(code, objects[i], desired)]
    <3> HIDE DEF objects, desired
    <3>3. result = Ok(converted)
      BY <1>1, <1>6, <3>1, <3>2, ObjectsConvert
    <3>4. ASSUME NEW i \in 1..n PROVE IsObject(converted[i], desired, i)
      BY <1>2, <3>1, <3>2, ObjectConverts
    <3> HIDE DEF result
    <3>5. Len(converted) = n /\ DOMAIN converted = 1..n
      BY <1>1
    <3> HIDE DEF converted
    <3>6. answer = [uid |-> review.uid, code |-> 200, objects |-> converted]
      BY <2>1, <3>3 DEF Answer, Ok
    <3>7. QED
      BY <1>8, <2>2, <3>1, <3>4, <3>5, <3>6 DEF AnswerFits, IsObject, answer, obj
  <2>3. CASE ~fine
    <3>1. ~result.ok /\ result.error # "Serialize"
      <4>1. CASE desired \in Range(code.versions)
        <5>1. review.desired \in DOMAIN code.versions
          BY <1>2, <4>1
        <5>2. ~\A i \in 1..n : from_json_object(code, objects[i]).ok
          BY <1>4, <1>5, <1>6, <2>3, <5>1
        <5> HIDE DEF objects, desired
        <5>3. result = Err("Parse")
          BY <1>1, <1>6, <4>1, <5>2, ObjectsConvert
        <5>4. QED
          BY <5>3 DEF Err
      <4>2. CASE desired \notin Range(code.versions)
        <5> HIDE DEF objects, desired
        <5>1. result = Err("ParseDesiredApiVersion")
          BY <4>2 DEF convert_objects, from_api_version, Err
        <5>2. QED
          BY <5>1 DEF Err
      <4>3. QED
        BY <4>1, <4>2
    <3> HIDE DEF result
    <3>2. answer = [uid |-> review.uid, code |-> 400, objects |-> <<>>]
      BY <2>1, <3>1 DEF Answer, http_status_code
    <3>3. QED
      BY <1>8, <2>3, <3>2 DEF AnswerFits, answer, obj
  <2>4. QED
    BY <2>2, <2>3
<1>9. QED
  BY <1>7, <1>8

\* Until it is edited or converted the object is a new one, and an answer is the one to a
\* review of copies of such an object.
ReviewInv ==
  /\ VersionedInv
  /\ edits \in Nat /\ conversions \in Nat
  /\ object # None =>
       /\ declared # None /\ generated.ok
       /\ (edits = 0 /\ conversions = 0) =>
            \E v \in Range(generated.value.versions), empty \in BOOLEAN :
              object = NewObject(generated.value, v, empty)
  /\ response # None =>
       /\ declared # None
       /\ \E v \in Range(generated.value.versions), empty \in BOOLEAN, review \in Reviews :
            response = [review |-> review,
                        answer |-> try_convert(generated.value,
                                     from_review(generated.value,
                                                 NewObject(generated.value, v, empty), review))]

\* The invariant of the reviews.
LEMMA ReviewInvariant == VersionedSpec => []ReviewInv
<1>1. VersionedInit => ReviewInv
  BY DEF VersionedInit, ReviewInv, VersionedInv
<1>2. ReviewInv /\ [VersionedNext]_versionedVars => ReviewInv'
  <2>1. SUFFICES ASSUME ReviewInv, [VersionedNext]_versionedVars PROVE ReviewInv'
    OBVIOUS
  <2>2. CASE Expand
    BY <2>1, <2>2 DEF Expand, ReviewInv, VersionedInv
  <2>3. CASE Submit
    BY <2>1, <2>3 DEF Submit, ReviewInv, VersionedInv
  <2>4. CASE Edit
    <3>1. /\ edits' = edits + 1 /\ response' = None /\ object # None
          /\ UNCHANGED <<declared, generated, conversions>>
      BY <2>4 DEF Edit
    <3>2. QED
      BY <2>1, <3>1 DEF ReviewInv, VersionedInv
  <2>5. CASE Convert
    <3>1. /\ conversions' = conversions + 1 /\ response' = None /\ object # None
          /\ UNCHANGED <<declared, generated, edits>>
      BY <2>5 DEF Convert
    <3>2. QED
      BY <2>1, <3>1 DEF ReviewInv, VersionedInv
  <2>6. CASE Review
    <3>1. /\ object # None /\ edits = 0 /\ conversions = 0
          /\ UNCHANGED <<declared, generated, object, edits, conversions>>
          /\ \E review \in Reviews :
               response' = [review |-> review,
                            answer |-> try_convert(generated.value,
                                         from_review(generated.value, object, review))]
      BY <2>6 DEF Review
    <3>2. QED
      BY <2>1, <3>1 DEF ReviewInv, VersionedInv
  <2>7. CASE UNCHANGED versionedVars
    BY <2>1, <2>7 DEF versionedVars, ReviewInv, VersionedInv
  <2>8. QED
    BY <2>1, <2>2, <2>3, <2>4, <2>5, <2>6, <2>7 DEF VersionedNext
<1>3. QED
  BY <1>1, <1>2, PTL DEF VersionedSpec

\* For every accepted declaration outside the known gaps and every ConversionReview of any
\* number of objects: try_convert converts all of them, in order and into the desired
\* version, or answers with an error and no object; it does the former exactly if the
\* version is known and all objects are of the resource.
THEOREM ReviewsAlwaysAllOrNothing == VersionedSpec => []ReviewsAreAllOrNothing
<1>1. ReviewInv => ReviewsAreAllOrNothing
  <2>1. SUFFICES ASSUME ReviewInv, Expanded, response # None
                 PROVE  AnswerFits(generated.value, response.review, response.answer)
    BY DEF ReviewsAreAllOrNothing, AnswerFits
  <2>2. /\ declared \in Declarations /\ generated = ModuleExpansion(declared)
        /\ ModuleExpansion(declared).ok /\ ~KnownGap(declared)
    BY <2>1 DEF Expanded, ReviewInv, VersionedInv
  <2>3. PICK v \in Range(generated.value.versions), empty \in BOOLEAN, review \in Reviews :
          response = [review |-> review,
                      answer |-> try_convert(generated.value,
                                   from_review(generated.value,
                                               NewObject(generated.value, v, empty), review))]
    BY <2>1 DEF ReviewInv
  <2>4. QED
    BY <2>2, <2>3, ReviewIsAnswered
<1>2. QED
  BY <1>1, ReviewInvariant, PTL


(***************************************************************************)
(* Durations                                                               *)
(***************************************************************************)
UnitNames == {"d", "h", "m", "s", "ms"}
Lengths == {86400000, 3600000, 60000, 1000, 1}

\* The units in their order.
LEMMA UnitFacts ==
  /\ Range(DurationUnits) = UnitNames /\ Len(DurationUnits) = 5
  /\ DurationUnits[1] = "d" /\ DurationUnits[2] = "h" /\ DurationUnits[3] = "m"
  /\ DurationUnits[4] = "s" /\ DurationUnits[5] = "ms"
  /\ UnitRank("d") = 1 /\ UnitRank("h") = 2 /\ UnitRank("m") = 3
  /\ UnitRank("s") = 4 /\ UnitRank("ms") = 5
<1> DEFINE D == DurationUnits
<1>1. D = <<"d", "h", "m", "s", "ms">> /\ DOMAIN D = 1..5 /\ Len(D) = 5
  BY DEF DurationUnits
<1>2. D[1] = "d" /\ D[2] = "h" /\ D[3] = "m" /\ D[4] = "s" /\ D[5] = "ms"
  BY <1>1
<1>3. 1..5 = {1, 2, 3, 4, 5}
  OBVIOUS
<1> HIDE DEF D
<1>4. Range(D) = UnitNames
  BY <1>1, <1>2, <1>3 DEF Range, UnitNames
<1>5. \A u : UnitRank(u) = CHOOSE i \in {1, 2, 3, 4, 5} : D[i] = u
  BY <1>1, <1>3 DEF UnitRank, D
<1>6. UnitRank("d") = 1
  BY <1>2, <1>5
<1>7. UnitRank("h") = 2
  BY <1>2, <1>5
<1>8. UnitRank("m") = 3
  BY <1>2, <1>5
<1>9. UnitRank("s") = 4
  BY <1>2, <1>5
<1>10. UnitRank("ms") = 5
  BY <1>2, <1>5
<1>11. QED
  BY <1>1, <1>2, <1>4, <1>6, <1>7, <1>8, <1>9, <1>10 DEF D

\* The lengths of the units; a millisecond is the last of them.
LEMMA UnitTypes ==
  ASSUME NEW u \in UnitNames
  PROVE  /\ millis(u) \in Lengths /\ millis(u) \in Nat /\ millis("ms") = 1
         /\ UnitRank(u) \in 1..5
         /\ \A v \in UnitNames : UnitRank(u) = UnitRank(v) => u = v
<1>1. u = "d" \/ u = "h" \/ u = "m" \/ u = "s" \/ u = "ms"
  BY DEF UnitNames
<1>2. UnitRank(u) \in 1..5 /\ \A v \in UnitNames : UnitRank(u) = UnitRank(v) => u = v
  BY <1>1, UnitFacts DEF UnitNames
<1>3. \A i \in 1..5 : UnitMillis[i] \in Lengths /\ UnitMillis[i] \in Nat
  BY SMT DEF UnitMillis, Lengths
<1>4. UnitMillis[5] = 1
  BY SMT DEF UnitMillis
<1>5. QED
  BY <1>2, <1>3, <1>4, UnitFacts DEF millis

\* Whole units and the rest of a number of milliseconds.
LEMMA WholeAndRest ==
  ASSUME NEW k \in Lengths, NEW rest \in Nat, NEW max \in Nat, rest <= max
  PROVE  /\ rest \div k \in Nat /\ rest % k \in Nat /\ rest % k <= rest
         /\ rest = (rest \div k) * k + (rest % k) /\ (rest \div k) * k \in Nat
         /\ rest \div k <= max \div k /\ max \div k <= max /\ max \div k \in Nat
<1>1. CASE k = 86400000
  BY <1>1, SMT
<1>2. CASE k = 3600000
  BY <1>2, SMT
<1>3. CASE k = 60000
  BY <1>3, SMT
<1>4. CASE k = 1000
  BY <1>4, SMT
<1>5. CASE k = 1
  BY <1>5, SMT
<1>6. QED
  BY <1>1, <1>2, <1>3, <1>4, <1>5, SMT DEF Lengths

-----------------------------------------------------------------------------
(* What from_str reads.                                                      *)

StartOfDuration == [ok |-> TRUE, value |-> 0, last |-> None]

ReadStates ==
  {Err(e) : e \in {"UnexpectedCharacter", "ParseInt", "NoUnit", "ParseUnit",
                   "InvalidUnitOrdering", "DuplicateUnit", "Overflow"}}
  \cup [ok : {TRUE}, value : Nat, last : {None} \cup UnitNames]

\* A text has groups whose values are numbers or missing.
IsDurationText(text) ==
  /\ Len(text) \in Nat /\ DOMAIN text = 1..Len(text)
  /\ \A i \in 1..Len(text) : text[i].value \in Nat \cup {None}

\* Reading a group keeps the types.
LEMMA ReadGroupType ==
  ASSUME NEW acc \in ReadStates, NEW g, g.value \in Nat \cup {None}
  PROVE  ReadGroup(acc, g) \in ReadStates
<1>1. CASE ~acc.ok
  BY <1>1 DEF ReadGroup
<1>2. CASE acc.ok
  <2>1. acc.value \in Nat
    <3>1. \A e : Err(e).ok = FALSE
      BY DEF Err
    <3>2. acc \in [ok : {TRUE}, value : Nat, last : {None} \cup UnitNames]
      BY <1>2, <3>1 DEF ReadStates
    <3>3. QED
      BY <3>2
  <2>2. ASSUME g.value # None, g.unit \in UnitNames
        PROVE  [ok |-> TRUE, value |-> acc.value + g.value * millis(g.unit), last |-> g.unit]
                 \in ReadStates
    <3>1. millis(g.unit) \in Nat /\ g.value \in Nat
      BY <2>2, UnitTypes
    <3>2. acc.value + g.value * millis(g.unit) \in Nat
      BY <2>1, <3>1
    <3>3. QED
      BY <2>2, <3>2 DEF ReadStates
  <2>3. \A e \in {"UnexpectedCharacter", "ParseInt", "NoUnit", "ParseUnit",
                  "InvalidUnitOrdering", "DuplicateUnit", "Overflow"} : Err(e) \in ReadStates
    BY DEF ReadStates
  <2>4. Range(DurationUnits) = UnitNames
    BY UnitFacts
  <2> HIDE DEF ReadStates
  <2>5. CASE g.value = None
    BY <1>2, <2>3, <2>5 DEF ReadGroup
  <2>6. CASE g.value # None /\ g.unit \notin UnitNames
    BY <1>2, <2>3, <2>4, <2>6 DEF ReadGroup
  <2>7. CASE g.value # None /\ g.unit \in UnitNames
    BY <1>2, <2>2, <2>3, <2>4, <2>7 DEF ReadGroup
  <2>8. QED
    BY <2>5, <2>6, <2>7
<1>3. QED
  BY <1>1, <1>2 DEF ReadStates, Err

\* The recursion over the groups has its meaning.
LEMMA GroupsReadAre ==
  ASSUME NEW text, IsDurationText(text)
  PROVE  /\ GroupsRead(text)[0] = StartOfDuration
         /\ \A n \in 1..Len(text) :
              GroupsRead(text)[n] = ReadGroup(GroupsRead(text)[n - 1], text[n])
         /\ \A n \in 0..Len(text) : GroupsRead(text)[n] \in ReadStates
<1> DEFINE N == Len(text)
           next == [n \in 1..N |-> [r \in ReadStates |-> ReadGroup(r, text[n])]]
           Body(g) == [n \in 0..N |-> IF n = 0 THEN StartOfDuration
                                      ELSE ReadGroup(g[n - 1], text[n])]
           done == GroupsRead(text)
<1>1. StartOfDuration \in ReadStates /\ N \in Nat
  BY DEF StartOfDuration, ReadStates, IsDurationText
<1>2. next \in Steps(N, ReadStates)
  <2>1. \A n \in 1..N, r \in ReadStates : ReadGroup(r, text[n]) \in ReadStates
    BY ReadGroupType DEF IsDurationText
  <2>2. QED
    BY <2>1 DEF Steps
<1>3. PICK f : Iterates(f, N, ReadStates, StartOfDuration, next)
  <2> HIDE DEF N, next
  <2>1. QED
    BY <1>1, <1>2, IterationExists
<1>4. f = Body(f)
  <2>1. ASSUME NEW n \in 0..N
        PROVE  f[n] = IF n = 0 THEN StartOfDuration ELSE ReadGroup(f[n - 1], text[n])
    <3>1. CASE n = 0
      BY <1>3, <3>1 DEF Iterates
    <3>2. CASE n # 0
      <4>1. n \in 1..N /\ n - 1 \in 0..N
        BY <1>1, <3>2
      <4>2. f[n - 1] \in ReadStates /\ f[n] = next[n][f[n - 1]]
        BY <1>3, <4>1 DEF Iterates
      <4>3. QED
        BY <3>2, <4>1, <4>2
    <3>3. QED
      BY <3>1, <3>2
  <2>2. f = [n \in 0..N |-> f[n]]
    BY <1>3 DEF Iterates
  <2>3. QED
    BY <2>1, <2>2
<1>5. done = Body(done)
  BY <1>4 DEF GroupsRead, StartOfDuration
<1>6. /\ done = [n \in 0..N |-> done[n]] /\ done[0] = StartOfDuration
      /\ \A n \in 1..N : done[n] = ReadGroup(done[n - 1], text[n])
  <2>1. ASSUME NEW g, g = Body(g)
        PROVE  /\ g = [n \in 0..N |-> g[n]] /\ g[0] = StartOfDuration
               /\ \A n \in 1..N : g[n] = ReadGroup(g[n - 1], text[n])
    BY <1>1, <2>1
  <2> HIDE DEF Body, N
  <2>2. QED
    BY <1>5, <2>1
<1>7. Follows(done, N, ReadStates, StartOfDuration, next)
  <2> HIDE DEF N, done
  <2>1. QED
    BY <1>6 DEF Follows
<1> HIDE DEF next, done, N
<1>8. Iterates(done, N, ReadStates, StartOfDuration, next)
  BY <1>1, <1>2, <1>7, IterationFollows
<1>9. QED
  BY <1>6, <1>8 DEF Iterates, N, done

-----------------------------------------------------------------------------
(* The texts that are accepted.                                              *)

FineGroup(g) ==
  g.value # None /\ g.unit \in UnitNames /\ g.value <= MaxMillis \div millis(g.unit)

\* The first n groups can be read: each by itself, in the order of the units.
FineUpTo(text, n) ==
  /\ \A i \in 1..n : FineGroup(text[i])
  /\ \A i, j \in 1..n : i < j => UnitRank(text[i].unit) < UnitRank(text[j].unit)

GroupsOf(text, n, unit) == {i \in 1..n : text[i].unit = unit}

\* What the first n groups give a unit.
ShareUpTo(text, n, unit) ==
  LET groups == GroupsOf(text, n, unit)
  IN  IF groups = {} THEN 0 ELSE text[CHOOSE i \in groups : TRUE].value * millis(unit)

SumUpTo(text, n) ==
  ShareUpTo(text, n, "d") + ShareUpTo(text, n, "h") + ShareUpTo(text, n, "m")
  + ShareUpTo(text, n, "s") + ShareUpTo(text, n, "ms")

\* One more group gives its value to its unit, which had none.
LEMMA OneMoreGroup ==
  ASSUME NEW text, NEW n \in Nat \ {0}, FineUpTo(text, n), NEW unit \in UnitNames
  PROVE  ShareUpTo(text, n, unit) = IF text[n].unit = unit THEN text[n].value * millis(unit)
                                    ELSE ShareUpTo(text, n - 1, unit)
<1>1. n \in 1..n /\ \A i \in 1..(n - 1) : i \in 1..n /\ i < n
  OBVIOUS
<1>2. \A i \in 1..(n - 1) : UnitRank(text[i].unit) < UnitRank(text[n].unit)
  BY <1>1 DEF FineUpTo
<1>3. \A i \in 1..n : UnitRank(text[i].unit) \in 1..5
  BY UnitTypes DEF FineUpTo, FineGroup
<1>4. CASE text[n].unit = unit
  <2>1. \A i \in 1..n : text[i].unit = unit => i = n
    <3>1. ASSUME NEW i \in 1..n, text[i].unit = unit, i # n PROVE FALSE
      <4>1. i \in 1..(n - 1)
        BY <3>1
      <4>2. UnitRank(unit) < UnitRank(unit) /\ UnitRank(unit) \in 1..5
        BY <1>2, <1>4, <3>1, <4>1, UnitTypes
      <4>3. QED
        BY <4>2
    <3>2. QED
      BY <3>1
  <2>2. GroupsOf(text, n, unit) = {n}
    BY <1>1, <1>4, <2>1 DEF GroupsOf
  <2>3. (CHOOSE i \in {n} : TRUE) = n
    OBVIOUS
  <2>4. QED
    BY <1>4, <2>2, <2>3 DEF ShareUpTo
<1>5. CASE text[n].unit # unit
  <2>1. GroupsOf(text, n, unit) = GroupsOf(text, n - 1, unit)
    BY <1>1, <1>5 DEF GroupsOf
  <2>2. QED
    BY <1>5, <2>1 DEF ShareUpTo
<1>6. QED
  BY <1>4, <1>5

\* The share of a unit is a number.
LEMMA ShareType ==
  ASSUME NEW text, IsDurationText(text), NEW n \in 0..Len(text), FineUpTo(text, n),
         NEW unit \in UnitNames
  PROVE  ShareUpTo(text, n, unit) \in Nat
<1>1. CASE GroupsOf(text, n, unit) = {}
  BY <1>1 DEF ShareUpTo
<1>2. CASE GroupsOf(text, n, unit) # {}
  <2> DEFINE i == CHOOSE k \in GroupsOf(text, n, unit) : TRUE
  <2>1. i \in 1..n
    BY <1>2 DEF GroupsOf
  <2>2. text[i].value \in Nat
    BY <2>1 DEF FineUpTo, FineGroup, IsDurationText
  <2>3. millis(unit) \in Nat
    BY UnitTypes
  <2> HIDE DEF i
  <2>4. text[i].value * millis(unit) \in Nat
    BY <2>2, <2>3
  <2>5. QED
    BY <1>2, <2>4 DEF ShareUpTo, i
<1>3. QED
  BY <1>1, <1>2

\* The sum grows by what the next group says.
LEMMA SumGrows ==
  ASSUME NEW text, IsDurationText(text), NEW n \in 1..Len(text), FineUpTo(text, n)
  PROVE  /\ SumUpTo(text, n) = SumUpTo(text, n - 1) + text[n].value * millis(text[n].unit)
         /\ SumUpTo(text, n) \in Nat
<1> DEFINE before(u) == ShareUpTo(text, n - 1, u)
           now(u) == ShareUpTo(text, n, u)
           unit == text[n].unit
           gain == text[n].value * millis(unit)
<1>1. /\ n \in Nat \ {0} /\ n - 1 \in 0..Len(text) /\ n \in 1..n /\ n \in 0..Len(text)
      /\ \A i \in 1..(n - 1) : i \in 1..n
  BY DEF IsDurationText
<1>2. FineUpTo(text, n - 1) /\ unit \in UnitNames
  BY <1>1 DEF FineUpTo, FineGroup
<1>3. \A u \in UnitNames : before(u) \in Nat /\ now(u) \in Nat
  BY <1>1, <1>2, ShareType
<1>4. \A u \in UnitNames : now(u) = IF unit = u THEN gain ELSE before(u)
  BY <1>1, OneMoreGroup
<1>5. before(unit) = 0
  <2>1. ASSUME NEW i \in GroupsOf(text, n - 1, unit) PROVE FALSE
    <3>1. i \in 1..(n - 1) /\ text[i].unit = unit /\ i < n
      BY <1>1 DEF GroupsOf
    <3>2. UnitRank(unit) < UnitRank(unit) /\ UnitRank(unit) \in 1..5
      BY <1>1, <1>2, <3>1, UnitTypes DEF FineUpTo
    <3>3. QED
      BY <3>2
  <2>2. QED
    BY <2>1 DEF ShareUpTo
<1>6. gain \in Nat
  BY <1>2, <1>3, <1>4
<1>7. unit \in {"d", "h", "m", "s", "ms"} /\ UnitNames = {"d", "h", "m", "s", "ms"}
  BY <1>2 DEF UnitNames
<1>8. /\ SumUpTo(text, n) = now("d") + now("h") + now("m") + now("s") + now("ms")
      /\ SumUpTo(text, n - 1) = before("d") + before("h") + before("m") + before("s") + before("ms")
  BY DEF SumUpTo
<1> HIDE DEF before, now, gain, unit
<1> SUFFICES SumUpTo(text, n) = SumUpTo(text, n - 1) + gain /\ SumUpTo(text, n) \in Nat
  BY DEF gain, unit
<1>9. CASE unit = "d"
  <2>1. now("d") = gain /\ before("d") = 0
    BY <1>4, <1>5, <1>7, <1>9
  <2>2. now("h") = before("h") /\ now("m") = before("m") /\ now("s") = before("s") /\ now("ms") = before("ms")
    BY <1>4, <1>7, <1>9
  <2>3. before("h") \in Nat /\ before("m") \in Nat /\ before("s") \in Nat /\ before("ms") \in Nat
    BY <1>3, <1>7
  <2>4. QED
    BY <1>6, <1>8, <2>1, <2>2, <2>3
<1>10. CASE unit = "h"
  <2>1. now("h") = gain /\ before("h") = 0
    BY <1>4, <1>5, <1>7, <1>10
  <2>2. now("d") = before("d") /\ now("m") = before("m") /\ now("s") = before("s") /\ now("ms") = before("ms")
    BY <1>4, <1>7, <1>10
  <2>3. before("d") \in Nat /\ before("m") \in Nat /\ before("s") \in Nat /\ before("ms") \in Nat
    BY <1>3, <1>7
  <2>4. QED
    BY <1>6, <1>8, <2>1, <2>2, <2>3
<1>11. CASE unit = "m"
  <2>1. now("m") = gain /\ before("m") = 0
    BY <1>4, <1>5, <1>7, <1>11
  <2>2. now("d") = before("d") /\ now("h") = before("h") /\ now("s") = before("s") /\ now("ms") = before("ms")
    BY <1>4, <1>7, <1>11
  <2>3. before("d") \in Nat /\ before("h") \in Nat /\ before("s") \in Nat /\ before("ms") \in Nat
    BY <1>3, <1>7
  <2>4. QED
    BY <1>6, <1>8, <2>1, <2>2, <2>3
<1>12. CASE unit = "s"
  <2>1. now("s") = gain /\ before("s") = 0
    BY <1>4, <1>5, <1>7, <1>12
  <2>2. now("d") = before("d") /\ now("h") = before("h") /\ now("m") = before("m") /\ now("ms") = before("ms")
    BY <1>4, <1>7, <1>12
  <2>3. before("d") \in Nat /\ before("h") \in Nat /\ before("m") \in Nat /\ before("ms") \in Nat
    BY <1>3, <1>7
  <2>4. QED
    BY <1>6, <1>8, <2>1, <2>2, <2>3
<1>13. CASE unit = "ms"
  <2>1. now("ms") = gain /\ before("ms") = 0
    BY <1>4, <1>5, <1>7, <1>13
  <2>2. now("d") = before("d") /\ now("h") = before("h") /\ now("m") = before("m") /\ now("s") = before("s")
    BY <1>4, <1>7, <1>13
  <2>3. before("d") \in Nat /\ before("h") \in Nat /\ before("m") \in Nat /\ before("s") \in Nat
    BY <1>3, <1>7
  <2>4. QED
    BY <1>6, <1>8, <2>1, <2>2, <2>3
<1>14. QED
  BY <1>7, <1>9, <1>10, <1>11, <1>12, <1>13
\* A text is read to the sum of its groups if they are fine, and otherwise refused.
LEMMA TextIsRead ==
  ASSUME NEW text, IsDurationText(text), NEW n \in 0..Len(text)
  PROVE  /\ FineUpTo(text, n) =>
              GroupsRead(text)[n] = [ok |-> TRUE, value |-> SumUpTo(text, n),
                                     last |-> IF n = 0 THEN None ELSE text[n].unit]
         /\ ~FineUpTo(text, n) => GroupsRead(text)[n].ok = FALSE
<1> DEFINE read == GroupsRead(text)
           Says(k) == /\ FineUpTo(text, k) =>
                           read[k] = [ok |-> TRUE, value |-> SumUpTo(text, k),
                                      last |-> IF k = 0 THEN None ELSE text[k].unit]
                      /\ ~FineUpTo(text, k) => read[k].ok = FALSE
           T == {k \in 0..Len(text) : ~Says(k)}
<1>1. ASSUME T # {} PROVE FALSE
  <2>1. PICK k \in T : \A m \in T : k <= m
    <3>1. T \subseteq Nat
      <4>1. Len(text) \in Nat
        BY DEF IsDurationText
      <4> HIDE DEF Says
      <4>2. QED
        BY <4>1
    <3> HIDE DEF T
    <3>2. QED
      BY <1>1, <3>1, LeastNumber
  <2>2. k \in 0..Len(text) /\ ~Says(k) /\ Len(text) \in Nat
    BY <2>1 DEF IsDurationText
  <2>3. k # 0
    <3>1. FineUpTo(text, 0) /\ read[0] = StartOfDuration
      BY GroupsReadAre DEF FineUpTo
    <3>2. \A u : GroupsOf(text, 0, u) = {}
      BY DEF GroupsOf
    <3>3. \A u : ShareUpTo(text, 0, u) = 0
      BY <3>2 DEF ShareUpTo
    <3>4. SumUpTo(text, 0) = 0
      BY <3>3 DEF SumUpTo
    <3>5. Says(0)
      BY <3>1, <3>4 DEF StartOfDuration
    <3>6. QED
      BY <2>2, <3>5
  <2>4. k - 1 \in 0..Len(text) /\ k \in 1..Len(text) /\ ~(k <= k - 1) /\ k \in 1..k
    BY <2>2, <2>3
  <2>5. Says(k - 1)
    BY <2>1, <2>4
  <2>6. read[k] = ReadGroup(read[k - 1], text[k])
    BY <2>4, GroupsReadAre
  <2> HIDE DEF read
  <2>7. CASE ~FineUpTo(text, k - 1)
    <3>1. ~FineUpTo(text, k)
      <4>1. 1..(k - 1) \subseteq 1..k
        BY <2>4
      <4>2. QED
        BY <2>7, <4>1 DEF FineUpTo
    <3>2. read[k].ok = FALSE
      BY <2>5, <2>6, <2>7 DEF ReadGroup
    <3>3. QED
      BY <2>2, <3>1, <3>2
  <2>8. CASE FineUpTo(text, k - 1)
    <3> DEFINE g == text[k]
               last == IF k - 1 = 0 THEN None ELSE text[k - 1].unit
    <3>1. read[k - 1].ok = TRUE /\ read[k - 1].value = SumUpTo(text, k - 1) /\ read[k - 1].last = last
      BY <2>5, <2>8
    <3>2. last # None <=> k - 1 \in 1..(k - 1)
      <4>1. CASE k - 1 = 0
        BY <4>1
      <4>2. CASE k - 1 # 0
        <5>1. k - 1 \in 1..(k - 1)
          BY <2>4, <4>2
        <5>2. text[k - 1].unit \in UnitNames
          BY <2>8, <5>1 DEF FineUpTo, FineGroup
        <5>3. last # None
          BY <4>2, <5>2, DurationAssumption DEF UnitNames
        <5>4. QED
          BY <5>1, <5>3
      <4>3. QED
        BY <4>1, <4>2
    <3>3. last # None => last = text[k - 1].unit /\ last \in UnitNames
      BY <2>8, <3>2 DEF FineUpTo, FineGroup
    <3>4. FineUpTo(text, k) <=>
            FineGroup(g) /\ (last # None => UnitRank(last) < UnitRank(g.unit))
      <4>1. ASSUME FineUpTo(text, k)
            PROVE  FineGroup(g) /\ (last # None => UnitRank(last) < UnitRank(g.unit))
        <5>1. FineGroup(g)
          BY <2>4, <4>1 DEF FineUpTo
        <5>2. last # None => k - 1 \in 1..k /\ k - 1 < k /\ k \in 1..k
          BY <2>4, <3>2
        <5>3. last # None => UnitRank(text[k - 1].unit) < UnitRank(g.unit)
          BY <4>1, <5>2 DEF FineUpTo
        <5>4. QED
          BY <3>3, <5>1, <5>3
      <4>2. ASSUME FineGroup(g), last # None => UnitRank(last) < UnitRank(g.unit)
            PROVE  FineUpTo(text, k)
        <5>1. \A i \in 1..k : i # k => i \in 1..(k - 1)
          BY <2>4
        <5>2. \A i \in 1..k : FineGroup(text[i]) /\ UnitRank(text[i].unit) \in 1..5
          BY <2>8, <4>2, <5>1, UnitTypes DEF FineUpTo, FineGroup
        <5>3. ASSUME NEW i \in 1..(k - 1) PROVE UnitRank(text[i].unit) < UnitRank(g.unit)
          <6>1. k - 1 \in 1..(k - 1) /\ i <= k - 1
            BY <2>4
          <6>2. UnitRank(last) < UnitRank(g.unit) /\ last = text[k - 1].unit
            BY <3>2, <3>3, <4>2, <6>1
          <6>3. i < k - 1 => UnitRank(text[i].unit) < UnitRank(text[k - 1].unit)
            BY <2>8, <6>1 DEF FineUpTo
          <6>4. i \in 1..k /\ k - 1 \in 1..k
            BY <2>4, <6>1
          <6>5. /\ UnitRank(text[i].unit) \in 1..5 /\ UnitRank(text[k - 1].unit) \in 1..5
                /\ UnitRank(g.unit) \in 1..5
            BY <2>4, <5>2, <6>4
          <6> HIDE DEF last
          <6>6. QED
            BY <6>1, <6>2, <6>3, <6>5
        <5>4. \A i, j \in 1..k : i < j => UnitRank(text[i].unit) < UnitRank(text[j].unit)
          <6>1. SUFFICES ASSUME NEW i \in 1..k, NEW j \in 1..k, i < j
                PROVE  UnitRank(text[i].unit) < UnitRank(text[j].unit)
            OBVIOUS
          <6>2. i \in 1..(k - 1)
            BY <2>4, <6>1
          <6>3. CASE j = k
            BY <5>3, <6>2, <6>3
          <6>4. CASE j # k
            BY <2>8, <5>1, <6>1, <6>2, <6>4 DEF FineUpTo
          <6>5. QED
            BY <6>3, <6>4
        <5>5. QED
          BY <5>2, <5>4 DEF FineUpTo
      <4>3. QED
        BY <4>1, <4>2
    <3>5. g.value \in Nat \cup {None} /\ Range(DurationUnits) = UnitNames
      BY <2>4, UnitFacts DEF IsDurationText
    <3>6. CASE FineUpTo(text, k)
      <4>1. FineGroup(g) /\ (last # None => UnitRank(last) < UnitRank(g.unit))
        BY <3>4, <3>6
      <4>2. g.value \in Nat /\ g.value <= MaxMillis \div millis(g.unit) /\ g.unit \in UnitNames
        BY <3>5, <4>1 DEF FineGroup
      <4>3. g.value <= MaxValue
        <5>1. MaxMillis \div millis(g.unit) <= MaxMillis /\ MaxMillis \div millis(g.unit) \in Nat
          BY <4>2, DurationAssumption, UnitTypes, WholeAndRest
        <5>2. QED
          BY <4>2, <5>1, DurationAssumption
      <4>4. g.unit # None /\ g.value # None
        BY <4>1, <4>2, DurationAssumption DEF UnitNames, FineGroup
      <4>5. /\ ~(g.value > MaxValue) /\ ~(g.value > MaxMillis \div millis(g.unit))
        <5>1. MaxMillis \div millis(g.unit) \in Nat
          BY <4>2, DurationAssumption, UnitTypes, WholeAndRest
        <5>2. QED
          BY <4>2, <4>3, <5>1, DurationAssumption
      <4>6. last # None => /\ ~(UnitRank(g.unit) < UnitRank(last))
                           /\ ~(UnitRank(g.unit) = UnitRank(last))
        <5>1. UnitRank(g.unit) \in 1..5 /\ (last # None => UnitRank(last) \in 1..5)
          BY <3>3, <4>2, UnitTypes
        <5> HIDE DEF last
        <5>2. QED
          BY <4>1, <5>1
      <4>7. ReadGroup(read[k - 1], g)
              = [ok |-> TRUE, value |-> SumUpTo(text, k - 1) + g.value * millis(g.unit),
                 last |-> g.unit]
        <5> HIDE DEF g, last
        <5>1. QED
          BY <3>1, <3>5, <4>2, <4>4, <4>5, <4>6 DEF ReadGroup
      <4>8. SumUpTo(text, k) = SumUpTo(text, k - 1) + g.value * millis(g.unit)
        BY <2>4, <3>6, SumGrows
      <4>9. QED
        BY <2>2, <2>3, <2>6, <3>6, <4>7, <4>8
    <3>7. CASE ~FineUpTo(text, k)
      <4>1. \/ ~FineGroup(g)
            \/ FineGroup(g) /\ last # None /\ ~(UnitRank(last) < UnitRank(g.unit))
        BY <3>4, <3>7
      <4>2. \A e : Err(e).ok = FALSE
        BY DEF Err
      <4> HIDE DEF g, last
      <4>3. CASE g.value = None
        <5>1. \E e : ReadGroup(read[k - 1], g) = Err(e)
          BY <3>1, <4>3 DEF ReadGroup
        <5>2. QED
          BY <2>2, <2>6, <3>7, <4>2, <5>1 DEF g
      <4>4. CASE g.value # None /\ g.unit \notin UnitNames
        <5>1. \E e : ReadGroup(read[k - 1], g) = Err(e)
          BY <3>1, <3>5, <4>4 DEF ReadGroup
        <5>2. QED
          BY <2>2, <2>6, <3>7, <4>2, <5>1 DEF g
      <4>5. CASE g.value # None /\ g.unit \in UnitNames /\ last # None
                   /\ ~(UnitRank(last) < UnitRank(g.unit))
        <5>1. UnitRank(g.unit) \in 1..5 /\ UnitRank(last) \in 1..5
          BY <3>3, <4>5, UnitTypes
        <5>2. UnitRank(g.unit) < UnitRank(last) \/ UnitRank(g.unit) = UnitRank(last)
          BY <4>5, <5>1
        <5>3. \E e : ReadGroup(read[k - 1], g) = Err(e)
          BY <3>1, <3>5, <4>5, <5>2 DEF ReadGroup
        <5>4. QED
          BY <2>2, <2>6, <3>7, <4>2, <5>3 DEF g
      <4>6. CASE g.value # None /\ g.unit \in UnitNames /\ ~FineGroup(g)
        <5>1. g.value \in Nat /\ ~(g.value <= MaxMillis \div millis(g.unit))
          BY <3>5, <4>6 DEF FineGroup
        <5>2. MaxMillis \div millis(g.unit) \in Nat
          BY <4>6, DurationAssumption, UnitTypes, WholeAndRest
        <5>3. g.value > MaxMillis \div millis(g.unit)
          BY <5>1, <5>2
        <5>4. \E e : ReadGroup(read[k - 1], g) = Err(e)
          BY <3>1, <3>5, <4>6, <5>3 DEF ReadGroup
        <5>5. QED
          BY <2>2, <2>6, <3>7, <4>2, <5>4 DEF g
      <4>7. QED
        BY <4>1, <4>3, <4>4, <4>5, <4>6 DEF FineGroup
    <3>8. QED
      BY <3>6, <3>7
  <2>9. QED
    BY <2>7, <2>8
<1>2. Says(n)
  BY <1>1
<1>3. QED
  BY <1>2

\* Which texts are accepted, and as what.
LEMMA TextIsAccepted ==
  ASSUME NEW text, IsDurationText(text), text # <<>>
  PROVE  /\ FineUpTo(text, Len(text)) => duration_from_str(text) = Ok(SumUpTo(text, Len(text)))
         /\ ~FineUpTo(text, Len(text)) => duration_from_str(text).ok = FALSE
<1> DEFINE read == GroupsRead(text)[Len(text)]
<1>1. Len(text) \in 0..Len(text)
  BY DEF IsDurationText
<1>2. ASSUME FineUpTo(text, Len(text))
      PROVE  read.ok = TRUE /\ read.value = SumUpTo(text, Len(text))
  <2> DEFINE last == IF Len(text) = 0 THEN None ELSE text[Len(text)].unit
  <2>1. read = [ok |-> TRUE, value |-> SumUpTo(text, Len(text)), last |-> last]
    BY <1>1, <1>2, TextIsRead
  <2> HIDE DEF read, last
  <2>2. QED
    BY <2>1
<1>3. ~FineUpTo(text, Len(text)) => read.ok = FALSE
  BY <1>1, TextIsRead
<1>4. duration_from_str(text) = IF read.ok THEN Ok(read.value) ELSE read
  BY DEF duration_from_str
<1> HIDE DEF read
<1>5. QED
  BY <1>2, <1>3, <1>4

-----------------------------------------------------------------------------
(* What Display prints.                                                      *)

DurationGroups == [value : Nat, unit : UnitNames]

\* A text that is one group longer is read on from the shorter one.
LEMMA ReadOneMore ==
  ASSUME NEW text \in Seq(DurationGroups), NEW g \in DurationGroups
  PROVE  /\ IsDurationText(text) /\ IsDurationText(Append(text, g))
         /\ Append(text, g) \in Seq(DurationGroups) /\ Len(Append(text, g)) = Len(text) + 1
         /\ GroupsRead(Append(text, g))[Len(text) + 1]
              = ReadGroup(GroupsRead(text)[Len(text)], g)
<1> DEFINE longer == Append(text, g)
           N == Len(text)
           T == {n \in 0..N : GroupsRead(longer)[n] # GroupsRead(text)[n]}
<1>1. /\ longer \in Seq(DurationGroups) /\ Len(longer) = N + 1 /\ longer[N + 1] = g
      /\ \A i \in 1..N : longer[i] = text[i]
  BY AppendProperties
<1>2. N \in Nat /\ DOMAIN text = 1..N /\ DOMAIN longer = 1..(N + 1)
  BY <1>1
<1>3. /\ \A i \in 1..N : text[i].value \in Nat
      /\ \A i \in 1..(N + 1) : longer[i].value \in Nat
  <2>1. /\ \A i \in 1..N : text[i] \in DurationGroups
        /\ \A i \in 1..(N + 1) : longer[i] \in DurationGroups
    BY <1>1, <1>2
  <2>2. \A x \in DurationGroups : x.value \in Nat
    BY DEF DurationGroups
  <2>3. QED
    BY <2>1, <2>2
<1> HIDE DEF longer, N
<1>4. IsDurationText(text) /\ IsDurationText(longer)
  BY <1>1, <1>2, <1>3 DEF IsDurationText, N
<1>5. /\ GroupsRead(longer)[0] = StartOfDuration /\ GroupsRead(text)[0] = StartOfDuration
      /\ \A n \in 1..N : GroupsRead(text)[n] = ReadGroup(GroupsRead(text)[n - 1], text[n])
      /\ \A n \in 1..(N + 1) :
           GroupsRead(longer)[n] = ReadGroup(GroupsRead(longer)[n - 1], longer[n])
  BY <1>1, <1>4, GroupsReadAre DEF N
<1>6. ASSUME T # {} PROVE FALSE
  <2>1. PICK n \in T : \A m \in T : n <= m
    <3>1. T \subseteq Nat
      BY <1>2
    <3> HIDE DEF T
    <3>2. QED
      BY <1>6, <3>1, LeastNumber
  <2>2. n # 0
    BY <1>5
  <2>3. n - 1 \in 0..N /\ n \in 1..N /\ n \in 1..(N + 1) /\ ~(n <= n - 1)
    BY <1>2, <2>2
  <2>4. GroupsRead(longer)[n - 1] = GroupsRead(text)[n - 1]
    BY <2>1, <2>3
  <2>5. QED
    BY <1>1, <1>5, <2>3, <2>4
<1>7. GroupsRead(longer)[N] = GroupsRead(text)[N]
  BY <1>2, <1>6
<1>8. GroupsRead(longer)[N + 1] = ReadGroup(GroupsRead(text)[N], g)
  <2>1. N + 1 \in 1..(N + 1) /\ (N + 1) - 1 = N
    BY <1>2
  <2>2. QED
    BY <1>1, <1>5, <1>7, <2>1
<1>9. QED
  BY <1>1, <1>4, <1>8 DEF longer, N

\* What was printed so far is read as what is no longer in the rest.
Prints(acc, total, rank) ==
  LET read == GroupsRead(acc.text)[Len(acc.text)]
  IN  /\ acc.text \in Seq(DurationGroups) /\ acc.rest \in Nat /\ acc.rest <= MaxMillis
      /\ read.ok = TRUE /\ read.value \in Nat /\ read.value + acc.rest = total
      /\ read.last # None => read.last \in UnitNames /\ UnitRank(read.last) <= rank

\* A unit is printed if there is a whole one, and is less than what was printed before.
LEMMA UnitIsPrinted ==
  ASSUME NEW acc, NEW total \in Nat, NEW unit \in UnitNames, NEW rank \in 0..4,
         UnitRank(unit) = rank + 1, Prints(acc, total, rank)
  PROVE  /\ Prints(EmitUnit(acc, unit), total, rank + 1)
         /\ EmitUnit(acc, unit).rest = acc.rest % millis(unit)
<1> DEFINE k == millis(unit)
           whole == acc.rest \div k
           rest == acc.rest % k
           g == [value |-> whole, unit |-> unit]
           read == GroupsRead(acc.text)[Len(acc.text)]
           new == EmitUnit(acc, unit)
<1>1. /\ acc.text \in Seq(DurationGroups) /\ acc.rest \in Nat /\ acc.rest <= MaxMillis
      /\ read.ok = TRUE /\ read.value \in Nat /\ read.value + acc.rest = total
      /\ read.last # None => read.last \in UnitNames /\ UnitRank(read.last) <= rank
  BY DEF Prints
<1>2. /\ whole \in Nat /\ rest \in Nat /\ rest <= acc.rest /\ acc.rest = whole * k + rest
      /\ whole * k \in Nat /\ whole <= MaxMillis \div k /\ MaxMillis \div k <= MaxMillis
      /\ MaxMillis \div k \in Nat
  BY <1>1, DurationAssumption, UnitTypes, WholeAndRest
<1>3. new = [rest |-> rest, text |-> IF whole = 0 THEN acc.text ELSE Append(acc.text, g)]
  BY DEF EmitUnit
<1>4. new.rest = rest /\ rest <= MaxMillis
  BY <1>1, <1>2, <1>3, DurationAssumption
<1>5. g \in DurationGroups /\ g.value = whole /\ g.unit = unit
  BY <1>2 DEF DurationGroups
<1>6. k \in Nat
  BY UnitTypes
<1> HIDE DEF k, whole, rest, g, read, new
<1>7. CASE whole = 0
  <2>1. new.text = acc.text /\ acc.rest = rest
    BY <1>2, <1>3, <1>6, <1>7
  <2>2. read.last # None => UnitRank(read.last) <= rank + 1
    <3>1. read.last # None => UnitRank(read.last) \in 1..5
      BY <1>1, UnitTypes
    <3>2. QED
      BY <1>1, <3>1
  <2>3. QED
    BY <1>1, <1>2, <1>4, <2>1, <2>2 DEF Prints, read, new, rest, k
<1>8. CASE whole # 0
  <2>1. new.text = Append(acc.text, g)
    BY <1>3, <1>8
  <2>2. /\ new.text \in Seq(DurationGroups) /\ Len(new.text) = Len(acc.text) + 1
        /\ GroupsRead(new.text)[Len(new.text)] = ReadGroup(read, g)
    BY <1>1, <1>5, <2>1, ReadOneMore DEF read
  <2>3. ReadGroup(read, g) = [ok |-> TRUE, value |-> read.value + whole * k, last |-> unit]
    <3>1. unit # None /\ unit \in Range(DurationUnits) /\ whole # None
      BY <1>2, DurationAssumption, UnitFacts DEF UnitNames
    <3>2. ~(whole > MaxValue) /\ ~(whole > MaxMillis \div k)
      BY <1>2, DurationAssumption
    <3>3. read.last # None => /\ ~(UnitRank(unit) < UnitRank(read.last))
                              /\ ~(UnitRank(unit) = UnitRank(read.last))
      <4>1. read.last # None => UnitRank(read.last) \in 1..5
        BY <1>1, UnitTypes
      <4>2. QED
        BY <1>1, <4>1
    <3>4. QED
      BY <1>1, <1>5, <3>1, <3>2, <3>3 DEF ReadGroup, k
  <2>4. read.value + whole * k \in Nat /\ (read.value + whole * k) + rest = total
    BY <1>1, <1>2
  <2>5. UnitRank(unit) <= rank + 1
    OBVIOUS
  <2> DEFINE r == GroupsRead(new.text)[Len(new.text)]
  <2>6. r.ok = TRUE /\ r.value = read.value + whole * k /\ r.last = unit
    BY <2>2, <2>3
  <2> HIDE DEF r
  <2>7. r.value \in Nat /\ r.value + new.rest = total
    BY <1>4, <2>4, <2>6
  <2>8. Prints(new, total, rank + 1)
    BY <1>2, <1>4, <2>2, <2>5, <2>6, <2>7 DEF Prints, r
  <2>9. QED
    BY <1>4, <2>8 DEF new, rest, k
<1>9. QED
  BY <1>7, <1>8

\* The five turns of the loop.
LEMMA UnitsEmittedAre ==
  ASSUME NEW total
  PROVE  LET e == UnitsEmitted(total)
         IN  /\ e[0] = [rest |-> total, text |-> <<>>]
             /\ e[1] = EmitUnit(e[0], "d") /\ e[2] = EmitUnit(e[1], "h")
             /\ e[3] = EmitUnit(e[2], "m") /\ e[4] = EmitUnit(e[3], "s")
             /\ e[5] = EmitUnit(e[4], "ms")
<1> DEFINE start == [rest |-> total, text |-> <<>>]
           Body(g) == [n \in 0..5 |-> IF n = 0 THEN start
                                      ELSE EmitUnit(g[n - 1], DurationUnits[n])]
           d == EmitUnit(start, "d")
           h == EmitUnit(d, "h")
           m == EmitUnit(h, "m")
           s == EmitUnit(m, "s")
           ms == EmitUnit(s, "ms")
           f == [n \in 0..5 |-> IF n = 0 THEN start ELSE IF n = 1 THEN d ELSE IF n = 2 THEN h
                                ELSE IF n = 3 THEN m ELSE IF n = 4 THEN s ELSE ms]
           e == UnitsEmitted(total)
<1>1. e = CHOOSE g : g = Body(g)
  BY UnitFacts DEF UnitsEmitted
<1> HIDE DEF start, e
<1>2. /\ f[0] = start /\ f[1] = d /\ f[2] = h /\ f[3] = m /\ f[4] = s /\ f[5] = ms
  <2> HIDE DEF d, h, m, s, ms
  <2>1. QED
    OBVIOUS
<1>3. f = Body(f)
  <2>1. d = EmitUnit(f[0], "d") /\ h = EmitUnit(f[1], "h") /\ m = EmitUnit(f[2], "m")
        /\ s = EmitUnit(f[3], "s") /\ ms = EmitUnit(f[4], "ms")
    BY <1>2
  <2>2. f = [n \in 0..5 |-> f[n]]
    <3> HIDE DEF d, h, m, s, ms
    <3>1. QED
      OBVIOUS
  <2> HIDE DEF f, d, h, m, s, ms
  <2>3. ASSUME NEW n \in 0..5
        PROVE  f[n] = IF n = 0 THEN start ELSE EmitUnit(f[n - 1], DurationUnits[n])
    <3>1. n = 0 \/ n = 1 \/ n = 2 \/ n = 3 \/ n = 4 \/ n = 5
      OBVIOUS
    <3>2. CASE n = 0
      BY <1>2, <3>2
    <3>3. CASE n = 1
      BY <1>2, <2>1, <3>3, UnitFacts
    <3>4. CASE n = 2
      BY <1>2, <2>1, <3>4, UnitFacts
    <3>5. CASE n = 3
      BY <1>2, <2>1, <3>5, UnitFacts
    <3>6. CASE n = 4
      BY <1>2, <2>1, <3>6, UnitFacts
    <3>7. CASE n = 5
      BY <1>2, <2>1, <3>7, UnitFacts
    <3>8. QED
      BY <3>1, <3>2, <3>3, <3>4, <3>5, <3>6, <3>7
  <2>4. QED
    BY <2>2, <2>3
<1> HIDE DEF f
<1>4. e = Body(e)
  BY <1>1, <1>3
<1>5. \A n \in 0..5 : e[n] = IF n = 0 THEN start ELSE EmitUnit(e[n - 1], DurationUnits[n])
  BY <1>4
<1> HIDE DEF Body
<1>6. e[0] = start /\ e[1] = EmitUnit(e[0], "d") /\ e[2] = EmitUnit(e[1], "h")
  BY <1>5, UnitFacts
<1>7. e[3] = EmitUnit(e[2], "m") /\ e[4] = EmitUnit(e[3], "s") /\ e[5] = EmitUnit(e[4], "ms")
  BY <1>5, UnitFacts
<1>8. QED
  BY <1>6, <1>7 DEF e, start

\* What is printed is read back.
LEMMA PrintedIsRead ==
  ASSUME NEW total \in Nat, total <= MaxMillis
  PROVE  duration_from_str(duration_to_string(total)) = Ok(total)
<1>1. GroupsRead(<<>>)[0] = StartOfDuration /\ <<>> \in Seq(DurationGroups) /\ Len(<<>>) = 0
  <2>1. <<>> \in Seq(DurationGroups) /\ Len(<<>>) = 0 /\ DOMAIN <<>> = 1..0
    OBVIOUS
  <2>2. IsDurationText(<<>>)
    BY <2>1 DEF IsDurationText
  <2>3. QED
    BY <2>1, <2>2, GroupsReadAre
<1>2. CASE total = 0
  <2> DEFINE g == [value |-> 0, unit |-> "s"]
             text == <<g>>
  <2>1. g \in DurationGroups /\ g.value = 0 /\ g.unit = "s"
    BY DEF DurationGroups, UnitNames
  <2>2. text = Append(<<>>, g) /\ Len(text) = 1 /\ text # <<>>
    OBVIOUS
  <2> HIDE DEF g, text
  <2>3. /\ IsDurationText(text) /\ GroupsRead(text)[1] = ReadGroup(StartOfDuration, g)
    <3>1. IsDurationText(Append(<<>>, g))
      BY <1>1, <2>1, ReadOneMore
    <3>2. GroupsRead(Append(<<>>, g))[0 + 1] = ReadGroup(GroupsRead(<<>>)[0], g)
      BY <1>1, <2>1, ReadOneMore
    <3>3. QED
      BY <1>1, <2>2, <3>1, <3>2
  <2>4. "s" \in UnitNames
    BY DEF UnitNames
  <2>5. MaxMillis \div millis("s") \in Nat /\ millis("s") \in Nat
    BY <2>4, DurationAssumption, UnitTypes, WholeAndRest
  <2>6. ReadGroup(StartOfDuration, g) = [ok |-> TRUE, value |-> 0, last |-> "s"]
    <3>1. /\ StartOfDuration.ok = TRUE /\ StartOfDuration.value = 0
          /\ StartOfDuration.last = None
      BY DEF StartOfDuration
    <3>2. "s" # None /\ 0 # None /\ "s" \in Range(DurationUnits)
      BY <2>4, DurationAssumption, UnitFacts
    <3>3. ~(0 > MaxValue) /\ ~(0 > MaxMillis \div millis("s"))
      BY <2>5, DurationAssumption
    <3>4. 0 + 0 * millis("s") = 0
      BY <2>5
    <3>5. QED
      BY <2>1, <3>1, <3>2, <3>3, <3>4 DEF ReadGroup
  <2>7. duration_from_str(text) = Ok(0)
    BY <2>2, <2>3, <2>6 DEF duration_from_str
  <2>8. duration_to_string(total) = text
    BY <1>2 DEF duration_to_string, text, g
  <2>9. QED
    BY <1>2, <2>7, <2>8
<1>3. CASE total # 0
  <2> DEFINE e == UnitsEmitted(total)
             text == e[5].text
  <2>1. /\ e[0] = [rest |-> total, text |-> <<>>]
        /\ e[1] = EmitUnit(e[0], "d") /\ e[2] = EmitUnit(e[1], "h")
        /\ e[3] = EmitUnit(e[2], "m") /\ e[4] = EmitUnit(e[3], "s")
        /\ e[5] = EmitUnit(e[4], "ms")
    BY UnitsEmittedAre
  <2> HIDE DEF e
  <2>2. Prints(e[0], total, 0)
    <3>1. e[0].rest = total /\ e[0].text = <<>>
      BY <2>1
    <3>2. /\ StartOfDuration.ok = TRUE /\ StartOfDuration.value = 0
          /\ StartOfDuration.last = None
      BY DEF StartOfDuration
    <3>3. 0 + total = total
      OBVIOUS
    <3>4. QED
      BY <1>1, <3>1, <3>2, <3>3 DEF Prints
  <2>3. {"d", "h", "m", "s", "ms"} = UnitNames
    BY DEF UnitNames
  <2>4. Prints(e[1], total, 1)
    BY <2>1, <2>2, <2>3, UnitIsPrinted, UnitFacts
  <2>5. Prints(e[2], total, 2)
    BY <2>1, <2>3, <2>4, UnitIsPrinted, UnitFacts
  <2>6. Prints(e[3], total, 3)
    BY <2>1, <2>3, <2>5, UnitIsPrinted, UnitFacts
  <2>7. Prints(e[4], total, 4)
    BY <2>1, <2>3, <2>6, UnitIsPrinted, UnitFacts
  <2>8. Prints(e[5], total, 5) /\ e[5].rest = e[4].rest % millis("ms")
    BY <2>1, <2>3, <2>7, UnitIsPrinted, UnitFacts
  <2>9. e[5].rest = 0
    <3>1. e[4].rest \in Nat
      BY <2>7 DEF Prints
    <3>2. millis("ms") = 1
      BY <2>3, UnitTypes
    <3>3. QED
      BY <2>8, <3>1, <3>2
  <2> DEFINE read == GroupsRead(text)[Len(text)]
  <2>10. read.ok = TRUE /\ read.value = total
    <3>1. read.ok = TRUE /\ read.value \in Nat /\ read.value + e[5].rest = total
      BY <2>8 DEF Prints
    <3> HIDE DEF read
    <3>2. QED
      BY <2>9, <3>1
  <2>11. text # <<>>
    <3>1. StartOfDuration.value = 0
      BY DEF StartOfDuration
    <3>2. QED
      BY <1>1, <1>3, <2>10, <3>1
  <2>12. duration_to_string(total) = text
    BY <1>3, UnitFacts DEF duration_to_string, e
  <2> HIDE DEF text
  <2>13. QED
    BY <2>10, <2>11, <2>12 DEF duration_from_str
<1>4. QED
  BY <1>2, <1>3

-----------------------------------------------------------------------------
\* A duration was read or printed as the operations say.
DurationInv ==
  /\ Done("print") => /\ computed.input \in DurationMillis
                      /\ computed.result = duration_from_str(duration_to_string(computed.input))
  /\ Done("duration") => /\ computed.input \in DurationTexts
                         /\ computed.result = duration_from_str(computed.input)

\* Each quantity is computed with once.
LEMMA DurationInvariant == QuantitySpec => []DurationInv
<1>1. QuantityInit => DurationInv
  BY DEF QuantityInit, DurationInv, Done
<1>2. DurationInv /\ [QuantityNext]_quantityVars => DurationInv'
  <2>1. SUFFICES ASSUME DurationInv, [QuantityNext]_quantityVars PROVE DurationInv'
    OBVIOUS
  <2>2. CASE UNCHANGED computed
    BY <2>1, <2>2 DEF DurationInv, Done
  <2>3. ASSUME NEW operation, NEW input, NEW result, Compute(operation, input, result),
               operation \notin {"print", "duration"}
        PROVE  DurationInv'
    <3>1. computed'.operation = operation
      BY <2>3 DEF Compute
    <3>2. QED
      BY <2>3, <3>1 DEF DurationInv, Done
  <2>4. CASE PrintDuration
    <3>1. PICK total \in DurationMillis :
            Compute("print", total, duration_from_str(duration_to_string(total)))
      BY <2>4 DEF PrintDuration
    <3>2. /\ computed'.operation = "print" /\ computed'.input = total
          /\ computed'.result = duration_from_str(duration_to_string(total))
      BY <3>1 DEF Compute
    <3>3. QED
      BY <3>2 DEF DurationInv, Done
  <2>5. CASE ParseDuration
    <3>1. PICK text \in DurationTexts : Compute("duration", text, duration_from_str(text))
      BY <2>5 DEF ParseDuration
    <3>2. /\ computed'.operation = "duration" /\ computed'.input = text
          /\ computed'.result = duration_from_str(text)
      BY <3>1 DEF Compute
    <3>3. QED
      BY <3>2 DEF DurationInv, Done
  <2>6. CASE FormatForJava
    BY <2>3, <2>6 DEF FormatForJava
  <2>7. CASE ToJavaHeap
    <3>1. PICK text \in MemoryTexts, factor \in Factors, target \in {"Ki", "Mi", "Gi"} :
            \E result : Compute("heap", [text |-> text, factor |-> Ratio32(factor[1], factor[2]),
                                        target |-> target], result)
      BY <2>7 DEF ToJavaHeap
    <3>2. QED
      BY <2>3, <3>1
  <2>8. CASE ParseCpu
    BY <2>3, <2>8 DEF ParseCpu
  <2>9. CASE CheckPod
    <3>1. \E input, result : Compute("pod", input, result)
      BY <2>9 DEF CheckPod
    <3>2. QED
      BY <2>3, <3>1
  <2>10. CASE StartBuilder \/ SetCpu \/ SetMemory \/ SetOther \/ BuildRequirements
    BY <2>2, <2>10 DEF StartBuilder, SetCpu, SetMemory, SetOther, BuildRequirements
  <2>11. QED
    BY <2>1, <2>2, <2>4, <2>5, <2>6, <2>7, <2>8, <2>9, <2>10 DEF QuantityNext, quantityVars
<1>3. QED
  BY <1>1, <1>2, PTL DEF QuantitySpec

\* What the property calls the share of a unit is what the last group leaves to it.
LEMMA SharesAgree ==
  ASSUME NEW text, IsDurationText(text)
  PROVE  SumUpTo(text, Len(text)) = Share(text, "d") + Share(text, "h") + Share(text, "m")
                                    + Share(text, "s") + Share(text, "ms")
<1>1. \A u : GroupsOf(text, Len(text), u) = {i \in DOMAIN text : text[i].unit = u}
  BY DEF GroupsOf, IsDurationText
<1>2. ASSUME NEW u PROVE ShareUpTo(text, Len(text), u) = Share(text, u)
  <2> DEFINE groups == {i \in DOMAIN text : text[i].unit = u}
  <2>1. GroupsOf(text, Len(text), u) = groups
    BY <1>1
  <2>2. Share(text, u) = IF groups = {} THEN 0
                         ELSE text[CHOOSE i \in groups : TRUE].value * millis(u)
    BY DEF Share
  <2> HIDE DEF groups
  <2>3. QED
    BY <2>1, <2>2 DEF ShareUpTo
<1>3. QED
  BY <1>2 DEF SumUpTo

\* Each duration of at most u64::MAX milliseconds that is printed is read back, and a text is
\* accepted exactly if it has known units once, in their order, with values that fit; it is
\* then the sum of its groups.
THEOREM DurationsAlwaysRoundTrip == QuantitySpec => []DurationsRoundTrip
<1>1. DurationInv => DurationsRoundTrip
  <2>1. SUFFICES ASSUME DurationInv PROVE DurationsRoundTrip
    OBVIOUS
  <2>2. ASSUME Done("print") PROVE computed.result = Ok(computed.input)
    <3>1. /\ computed.input \in DurationMillis
          /\ computed.result = duration_from_str(duration_to_string(computed.input))
      BY <2>1, <2>2 DEF DurationInv
    <3>2. \A total \in DurationMillis : total \in Nat /\ total <= MaxMillis
      BY DurationAssumption
    <3>3. QED
      BY <3>1, <3>2, PrintedIsRead
  <2> DEFINE text == computed.input
             known == \A i \in DOMAIN text : /\ text[i].value # None /\ text[i].unit # None
                                             /\ text[i].unit \in Range(DurationUnits)
             ordered == \A i, j \in DOMAIN text :
                          i < j => UnitRank(text[i].unit) < UnitRank(text[j].unit)
             fits == \A i \in DOMAIN text : text[i].value <= MaxMillis \div millis(text[i].unit)
             sum == Share(text, "d") + Share(text, "h") + Share(text, "m")
                    + Share(text, "s") + Share(text, "ms")
  <2>3. ASSUME Done("duration")
        PROVE  /\ computed.result.ok <=> text # <<>> /\ known /\ ordered /\ fits
               /\ computed.result.ok => computed.result.value = sum
    <3>1. text \in DurationTexts /\ computed.result = duration_from_str(text)
      BY <2>1, <2>3 DEF DurationInv
    <3>2. IsDurationText(text) /\ DOMAIN text = 1..Len(text)
      BY <3>1, DurationAssumption DEF IsDurationText
    <3>3. CASE text = <<>>
      <4>1. duration_from_str(text) = Err("EmptyInput")
        BY <3>3 DEF duration_from_str
      <4>2. Err("EmptyInput").ok = FALSE
        BY DEF Err
      <4> HIDE DEF text, known, ordered, fits, sum
      <4>3. QED
        BY <3>1, <3>3, <4>1, <4>2
    <3>4. CASE text # <<>>
      <4>1. FineUpTo(text, Len(text)) <=> known /\ ordered /\ fits
        <5>1. Range(DurationUnits) = UnitNames /\ None \notin UnitNames
          BY UnitFacts, DurationAssumption DEF UnitNames
        <5>2. (\A i \in DOMAIN text : FineGroup(text[i])) <=> known /\ fits
          BY <5>1 DEF FineGroup
        <5> HIDE DEF known, fits
        <5>3. QED
          BY <3>2, <5>2 DEF FineUpTo
      <4>2. FineUpTo(text, Len(text)) => duration_from_str(text) = Ok(SumUpTo(text, Len(text)))
        BY <3>2, <3>4, TextIsAccepted
      <4>3. ~FineUpTo(text, Len(text)) => duration_from_str(text).ok = FALSE
        BY <3>2, <3>4, TextIsAccepted
      <4>4. SumUpTo(text, Len(text)) = sum
        BY <3>2, SharesAgree
      <4> HIDE DEF text, known, ordered, fits, sum
      <4>5. Ok(sum).ok = TRUE /\ Ok(sum).value = sum
        BY DEF Ok
      <4>6. QED
        BY <3>1, <3>4, <4>1, <4>2, <4>3, <4>4, <4>5
    <3>5. QED
      BY <3>3, <3>4
  <2>4. QED
    BY <2>2, <2>3 DEF DurationsRoundTrip
<1>2. QED
  BY <1>1, DurationInvariant, PTL

=============================================================================
