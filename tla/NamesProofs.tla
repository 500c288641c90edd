----------------------------- MODULE NamesProofs -----------------------------
(***************************************************************************)
(* Proofs about Names, for all names, labels, selectors, images, owners    *)
(* and calls that the assumptions of that module allow, and all limits:    *)
(* the names of role groups, keys and the RBAC objects are valid whatever  *)
(* is shortened, labels and selectors fit each other, and what a type of a *)
(* string accepts is what its schema accepts.                              *)
(***************************************************************************)
EXTENDS Names, Recursion, FiniteSetTheorems, SequenceTheorems

\* The limits.
LEMMA NameLimits ==
  /\ LabelMax \in Nat /\ SubdomainMax \in Nat /\ ClusterNameMax \in Nat /\ ProductNameMax \in Nat
  /\ QualifiedMax \in Nat /\ RevisionDigits \in Nat /\ UidLength \in Nat
  /\ HashLength \in Nat \ {0} /\ KeyHashLength \in Nat \ {0}
  /\ LabelMax <= SubdomainMax
<1>1. \A x \in {LabelMax, SubdomainMax, ClusterNameMax, ProductNameMax, QualifiedMax,
                RevisionDigits, UidLength, HashLength, KeyHashLength} : x \in Nat
  BY NameLengths
<1>2. /\ LabelMax \in Nat /\ SubdomainMax \in Nat /\ ClusterNameMax \in Nat
      /\ ProductNameMax \in Nat /\ QualifiedMax \in Nat
  BY <1>1
<1>3. RevisionDigits \in Nat /\ UidLength \in Nat /\ HashLength \in Nat /\ KeyHashLength \in Nat
  BY <1>1
<1>4. HashLength > 0 /\ KeyHashLength > 0 /\ LabelMax <= SubdomainMax
  BY NameLengths
<1>5. QED
  BY <1>2, <1>3, <1>4

\* Some sets of numbers have a greatest and a least element.
LEMMA GreatestIsMax ==
  ASSUME NEW S, S \subseteq Nat, S # {}, NEW b \in Nat, \A n \in S : n <= b
  PROVE  Max(S) \in S /\ \A n \in S : n <= Max(S)
<1>1. PICK m \in S : \A n \in S : n <= m
  BY GreatestNumber
<1>2. \A n \in S : m >= n
  BY <1>1
<1>3. \E x \in S : \A y \in S : x >= y
  BY <1>2
<1>4. Max(S) \in S /\ \A y \in S : Max(S) >= y
  BY <1>3 DEF Max
<1>5. QED
  BY <1>4

\* The least one.
LEMMA LeastIsMin ==
  ASSUME NEW S, S \subseteq Nat, S # {}
  PROVE  Min(S) \in S /\ \A n \in S : Min(S) <= n
<1>1. \E x \in S : \A y \in S : x =< y
  BY LeastNumber
<1>2. QED
  BY <1>1 DEF Min

\* Texts with the same characters are equal.
LEMMA SameTexts ==
  ASSUME NEW V, NEW s \in Seq(V), NEW t \in Seq(V), Len(s) = Len(t),
         \A i \in 1..Len(s) : s[i] = t[i]
  PROVE  s = t
BY SeqEqual

\* Parts of a text.
LEMMA PartOfText ==
  ASSUME NEW V, NEW t \in Seq(V), NEW a \in 1..(Len(t) + 1), NEW b \in 0..Len(t), a <= b + 1
  PROVE  /\ SubSeq(t, a, b) \in Seq(V) /\ Len(SubSeq(t, a, b)) = b - a + 1
         /\ \A i \in 1..(b - a + 1) : SubSeq(t, a, b)[i] = t[a + i - 1]
<1>1. SubSeq(t, a, b) = [i \in 1..(b - a + 1) |-> t[a + i - 1]]
  OBVIOUS
<1>2. \A i \in 1..(b - a + 1) : a + i - 1 \in 1..Len(t)
  OBVIOUS
<1>3. \A i \in 1..(b - a + 1) : t[a + i - 1] \in V
  BY <1>2
<1>4. b - a + 1 \in Nat
  OBVIOUS
<1> DEFINE f == [i \in 1..(b - a + 1) |-> t[a + i - 1]]
<1>5. f \in [1..(b - a + 1) -> V]
  BY <1>3
<1>6. f \in Seq(V) /\ Len(f) = b - a + 1
  BY <1>4, <1>5, IsASeq
<1>7. QED
  BY <1>1, <1>6

\* A sequence is its front and its last element.
LEMMA FrontAndLast ==
  ASSUME NEW V, NEW p \in Seq(V), Len(p) > 0
  PROVE  /\ Front(p) \in Seq(V) /\ Len(Front(p)) = Len(p) - 1
         /\ \A i \in 1..(Len(p) - 1) : Front(p)[i] = p[i]
         /\ Last(p) \in V /\ Last(p) = p[Len(p)]
         /\ Append(Front(p), Last(p)) = p
<1> DEFINE f == Front(p)
           q == Append(f, Last(p))
<1>1. /\ 1 \in 1..(Len(p) + 1) /\ Len(p) - 1 \in 0..Len(p) /\ 1 <= (Len(p) - 1) + 1
      /\ (Len(p) - 1) - 1 + 1 = Len(p) - 1
  OBVIOUS
<1>2. f = SubSeq(p, 1, Len(p) - 1)
  BY DEF Front
<1>3. f \in Seq(V) /\ Len(f) = Len(p) - 1 /\ \A i \in 1..(Len(p) - 1) : f[i] = p[1 + i - 1]
  <2> DEFINE b == Len(p) - 1
  <2>1. b \in 0..Len(p) /\ 1 <= b + 1 /\ 1 \in 1..(Len(p) + 1)
    OBVIOUS
  <2> HIDE DEF b
  <2>2. SubSeq(p, 1, b) \in Seq(V) /\ Len(SubSeq(p, 1, b)) = b - 1 + 1
        /\ \A i \in 1..(b - 1 + 1) : SubSeq(p, 1, b)[i] = p[1 + i - 1]
    BY <2>1, PartOfText
  <2>3. b - 1 + 1 = b
    BY <2>1
  <2>4. QED
    BY <1>2, <2>2, <2>3 DEF b
<1>4. \A i \in 1..(Len(p) - 1) : f[i] = p[i]
  <2>1. \A i \in 1..(Len(p) - 1) : 1 + i - 1 = i
    OBVIOUS
  <2>2. QED
    BY <1>3, <2>1
<1>5. Last(p) \in V /\ Last(p) = p[Len(p)]
  BY DEF Last
<1> HIDE DEF f
<1>6. q = p
  <2>1. /\ q \in Seq(V) /\ Len(q) = Len(p) /\ q[Len(p)] = p[Len(p)]
        /\ \A i \in 1..(Len(p) - 1) : q[i] = p[i]
    BY <1>3, <1>4, <1>5, AppendProperties
  <2> HIDE DEF q
  <2>2. \A i \in 1..Len(p) : i \in 1..(Len(p) - 1) \/ i = Len(p)
    OBVIOUS
  <2>3. \A i \in 1..Len(q) : q[i] = p[i]
    BY <2>1, <2>2
  <2>4. QED
    BY <2>1, <2>3, SeqEqual
<1>7. QED
  BY <1>3, <1>4, <1>5, <1>6 DEF f

\* The front and the last element of what was appended to.
LEMMA FrontOfAppend ==
  ASSUME NEW V, NEW q \in Seq(V), NEW x \in V
  PROVE  Front(Append(q, x)) = q /\ Last(Append(q, x)) = x
<1> DEFINE a == Append(q, x)
           f == Front(a)
<1>1. /\ a \in Seq(V) /\ Len(a) = Len(q) + 1 /\ a[Len(q) + 1] = x /\ Len(q) \in Nat
      /\ \A i \in 1..Len(q) : a[i] = q[i]
  BY AppendProperties
<1> HIDE DEF a
<1>2. Len(a) > 0 /\ Len(a) - 1 = Len(q)
  BY <1>1
<1>3. f \in Seq(V) /\ Len(f) = Len(q) /\ (\A i \in 1..Len(q) : f[i] = a[i]) /\ Last(a) = a[Len(a)]
  BY <1>1, <1>2, FrontAndLast
<1> HIDE DEF f
<1>4. \A i \in 1..Len(f) : f[i] = q[i]
  BY <1>1, <1>3
<1>5. f = q
  BY <1>3, <1>4, SeqEqual
<1>6. QED
  BY <1>1, <1>3, <1>5 DEF a, f

\* Text after text.
LEMMA TextAfterText ==
  ASSUME NEW V, NEW s \in Seq(V), NEW t \in Seq(V)
  PROVE  /\ s \o t \in Seq(V) /\ Len(s \o t) = Len(s) + Len(t)
         /\ \A i \in 1..Len(s) : (s \o t)[i] = s[i]
         /\ \A i \in (Len(s) + 1)..(Len(s) + Len(t)) : (s \o t)[i] = t[i - Len(s)]
BY ConcatProperties

\* Texts after texts, and a character after them.
LEMMA TextsAssociate ==
  ASSUME NEW s \in Seq(Characters), NEW t \in Seq(Characters), NEW u \in Seq(Characters)
  PROVE  (s \o t) \o u = s \o (t \o u)
OBVIOUS

\* The character goes to the last of them.
LEMMA AppendAfterText ==
  ASSUME NEW s \in Seq(Characters), NEW t \in Seq(Characters), NEW c \in Characters
  PROVE  Append(s \o t, c) = s \o Append(t, c)
OBVIOUS

\* The bytes of a text: one for each character, two for one outside ASCII.
LEMMA BytesAreBounded ==
  ASSUME NEW text \in Seq(Characters)
  PROVE  /\ Bytes(text) \in Nat /\ Len(text) <= Bytes(text)
         /\ IsAscii(text) => Bytes(text) = Len(text)
         /\ Bytes(text) = 0 => text = <<>>
<1> DEFINE D == DOMAIN text
           E == {i \in D : text[i] = "e"}
<1>1. D = 1..Len(text) /\ Len(text) \in Nat
  OBVIOUS
<1>2. IsFiniteSet(D)
  BY <1>1, FS_Interval
<1>3. E \in SUBSET D
  OBVIOUS
<1>4. IsFiniteSet(E)
  BY <1>2, <1>3, FS_Subset
<1>5. Cardinality(E) \in Nat
  BY <1>4, FS_CardinalityType
<1>6. IsAscii(text) => Cardinality(E) = 0
  <2>1. IsAscii(text) => E = {}
    BY DEF IsAscii, Range
  <2>2. QED
    BY <2>1, FS_EmptySet
<1>7. Bytes(text) = Len(text) + Cardinality(E)
  BY DEF Bytes
<1> HIDE DEF E, D
<1>8. Len(text) = 0 => text = <<>>
  BY EmptySeq
<1>9. QED
  BY <1>1, <1>5, <1>6, <1>7, <1>8

\* The start of a text has no more bytes.
LEMMA BytesOfStart ==
  ASSUME NEW text \in Seq(Characters), NEW n \in 0..Len(text)
  PROVE  /\ SubSeq(text, 1, n) \in Seq(Characters) /\ Len(SubSeq(text, 1, n)) = n
         /\ \A i \in 1..n : SubSeq(text, 1, n)[i] = text[i]
         /\ Bytes(SubSeq(text, 1, n)) <= Bytes(text)
         /\ IsAscii(text) => IsAscii(SubSeq(text, 1, n))
<1> DEFINE s == SubSeq(text, 1, n)
           E == {i \in DOMAIN text : text[i] = "e"}
           F == {i \in DOMAIN s : s[i] = "e"}
<1>1. s \in Seq(Characters) /\ Len(s) = n /\ \A i \in 1..n : s[i] = text[i]
  <2>1. 1 \in 1..(Len(text) + 1) /\ 1 <= n + 1 /\ n - 1 + 1 = n /\ \A i \in 1..n : 1 + i - 1 = i
    OBVIOUS
  <2>2. QED
    BY <2>1, PartOfText
<1> HIDE DEF s
<1>2. DOMAIN s = 1..n /\ DOMAIN text = 1..Len(text) /\ n \in Nat /\ Len(text) \in Nat /\ n <= Len(text)
  BY <1>1
<1>3. F \subseteq E
  BY <1>1, <1>2
<1>4. IsFiniteSet(E)
  <2>1. IsFiniteSet(DOMAIN text)
    BY <1>2, FS_Interval
  <2>2. QED
    BY <2>1, FS_Subset
<1>5. Cardinality(F) <= Cardinality(E) /\ IsFiniteSet(F)
  BY <1>3, <1>4, FS_Subset
<1>6. Cardinality(E) \in Nat /\ Cardinality(F) \in Nat
  BY <1>4, <1>5, FS_CardinalityType
<1>7. Bytes(s) = n + Cardinality(F) /\ Bytes(text) = Len(text) + Cardinality(E)
  BY <1>1 DEF Bytes
<1>8. IsAscii(text) => IsAscii(s)
  BY <1>1, <1>2 DEF IsAscii, Range
<1> HIDE DEF E, F
<1>9. Bytes(s) <= Bytes(text)
  BY <1>2, <1>5, <1>6, <1>7
<1>10. QED
  BY <1>1, <1>8, <1>9 DEF s

\* The longest start of a text that fits.
LEMMA TruncateIs ==
  ASSUME NEW text \in Seq(Characters), NEW max \in Nat
  PROVE  LET t == truncate_at_char_boundary(text, max)
         IN  /\ Len(t) \in 0..Len(text) /\ t = SubSeq(text, 1, Len(t)) /\ Bytes(t) <= max
             /\ IsAscii(text) => Len(t) = IF Len(text) <= max THEN Len(text) ELSE max
             /\ Bytes(text) <= max => t = text
<1> DEFINE fits == {n \in 0..Len(text) : Bytes(SubSeq(text, 1, n)) <= max}
           n == CHOOSE n \in fits : \A k \in fits : k <= n
           t == truncate_at_char_boundary(text, max)
<1>1. Len(text) \in Nat /\ 0 \in 0..Len(text)
  OBVIOUS
<1>2. fits \subseteq Nat /\ \A k \in fits : k <= Len(text)
  OBVIOUS
<1>3. 0 \in fits
  <2>1. SubSeq(text, 1, 0) = <<>>
    OBVIOUS
  <2>2. <<>> \in Seq(Characters) /\ Len(<<>>) = 0
    OBVIOUS
  <2>3. IsAscii(<<>>)
    BY DEF IsAscii, Range
  <2>4. Bytes(<<>>) = Len(<<>>)
    BY <2>2, <2>3, BytesAreBounded
  <2>5. Bytes(SubSeq(text, 1, 0)) <= max
    <3> DEFINE s == SubSeq(text, 1, 0)
    <3>1. s = <<>>
      BY <2>1
    <3> HIDE DEF s
    <3>2. Bytes(s) = 0
      BY <2>2, <2>4, <3>1
    <3>3. Bytes(s) <= max
      BY <3>2
    <3>4. QED
      BY <3>3 DEF s
  <2>6. QED
    BY <1>1, <2>5
<1>4. t = SubSeq(text, 1, n)
  BY DEF truncate_at_char_boundary
<1>5. n \in fits /\ \A k \in fits : k <= n
  <2> HIDE DEF fits
  <2>1. \E m \in fits : \A k \in fits : k <= m
    BY <1>1, <1>2, <1>3, GreatestNumber
  <2>2. QED
    BY <2>1
<1>6. n \in 0..Len(text) /\ Bytes(SubSeq(text, 1, n)) <= max
  BY <1>5
<1> HIDE DEF n
<1>7. Len(t) = n /\ t = SubSeq(text, 1, Len(t)) /\ Bytes(t) <= max
  BY <1>4, <1>6, BytesOfStart
<1>8. ASSUME IsAscii(text) PROVE n = IF Len(text) <= max THEN Len(text) ELSE max
  <2>1. \A k \in 0..Len(text) : Bytes(SubSeq(text, 1, k)) = k
    BY <1>8, BytesOfStart, BytesAreBounded
  <2>2. \A k \in 0..Len(text) : k \in fits <=> k <= max
    BY <2>1
  <2> HIDE DEF fits
  <2>3. CASE Len(text) <= max
    <3>1. Len(text) \in fits
      BY <1>1, <2>2, <2>3
    <3>2. QED
      BY <1>1, <1>5, <1>6, <2>3, <3>1
  <2>4. CASE ~(Len(text) <= max)
    <3>1. max \in fits
      BY <1>1, <2>2, <2>4
    <3>2. n <= max
      BY <1>5, <1>6, <2>2
    <3>3. QED
      BY <1>1, <1>5, <1>6, <2>4, <3>1, <3>2
  <2>5. QED
    BY <2>3, <2>4
<1>9. ASSUME Bytes(text) <= max PROVE t = text
  <2>1. SubSeq(text, 1, Len(text)) = text
    BY SubSeqFull
  <2>2. Len(text) \in fits
    <3> DEFINE s == SubSeq(text, 1, Len(text))
    <3> HIDE DEF s
    <3>1. s = text
      BY <2>1 DEF s
    <3>2. Bytes(s) <= max
      BY <1>9, <3>1
    <3>3. QED
      BY <1>1, <3>2 DEF s
  <2> HIDE DEF fits
  <2>3. Len(text) <= n
    BY <1>5, <2>2
  <2>4. n = Len(text)
    BY <1>1, <1>6, <2>3
  <2>5. QED
    BY <1>4, <2>1, <2>4
<1>10. QED
  BY <1>6, <1>7, <1>8, <1>9

(***************************************************************************)
(* Splitting texts                                                         *)
(***************************************************************************)
\* The parts before each number of characters.
LEMMA PartsAre ==
  ASSUME NEW text \in Seq(Characters), NEW separator
  PROVE  LET parts == PartsUpTo(text, separator)
         IN  /\ parts[0] = << <<>> >>
             /\ \A n \in 1..Len(text) : parts[n] = SplitNext(parts[n - 1], text[n], separator)
             /\ \A n \in 0..Len(text) : parts[n] \in Seq(Seq(Characters)) /\ Len(parts[n]) > 0
<1> DEFINE N == Len(text)
           V == {p \in Seq(Seq(Characters)) : Len(p) > 0}
           first == << <<>> >>
           next == [n \in 1..N |-> [p \in V |-> SplitNext(p, text[n], separator)]]
           Body(f) == [n \in 0..N |-> IF n = 0 THEN first
                                      ELSE SplitNext(f[n - 1], text[n], separator)]
           parts == PartsUpTo(text, separator)
<1>1. N \in Nat /\ \A n \in 1..N : text[n] \in Characters
  OBVIOUS
<1>2. first \in V
  <2>1. <<>> \in Seq(Characters)
    OBVIOUS
  <2>2. QED
    BY <2>1
<1>3. ASSUME NEW p \in V, NEW c \in Characters PROVE SplitNext(p, c, separator) \in V
  <2>1. p \in Seq(Seq(Characters)) /\ Len(p) > 0 /\ Len(p) \in Nat
    OBVIOUS
  <2>2. Last(p) \in Seq(Characters)
    BY <2>1 DEF Last
  <2>3. Append(Last(p), c) \in Seq(Characters)
    BY <2>2
  <2>4. Front(p) \in Seq(Seq(Characters))
    BY <2>1, PartOfText DEF Front
  <2>5. Append(p, <<>>) \in V
    <3>1. <<>> \in Seq(Characters)
      OBVIOUS
    <3>2. QED
      BY <2>1, <3>1, AppendProperties
  <2>6. Append(Front(p), Append(Last(p), c)) \in V
    BY <2>3, <2>4, AppendProperties
  <2>7. QED
    BY <2>5, <2>6 DEF SplitNext
<1>4. next \in Steps(N, V)
  BY <1>1, <1>3 DEF Steps
<1> HIDE DEF V
<1>5. PICK g : Iterates(g, N, V, first, next)
  BY <1>1, <1>2, <1>4, IterationExists
<1>6. g = Body(g)
  <2>1. g \in [0..N -> V] /\ g[0] = first /\ \A n \in 1..N : g[n] = next[n][g[n - 1]]
    BY <1>5 DEF Iterates
  <2>2. ASSUME NEW n \in 0..N
        PROVE  g[n] = IF n = 0 THEN first ELSE SplitNext(g[n - 1], text[n], separator)
    <3>1. CASE n = 0
      BY <2>1, <3>1
    <3>2. CASE n # 0
      <4>1. n \in 1..N /\ n - 1 \in 0..N
        BY <1>1, <3>2
      <4>2. g[n - 1] \in V
        BY <2>1, <4>1
      <4>3. next[n][g[n - 1]] = SplitNext(g[n - 1], text[n], separator)
        BY <4>1, <4>2
      <4>4. QED
        BY <2>1, <3>2, <4>1, <4>3
    <3>3. QED
      BY <3>1, <3>2
  <2>3. QED
    BY <2>1, <2>2
<1>7. parts = CHOOSE f : f = Body(f)
  BY DEF PartsUpTo
<1>8. parts = Body(parts)
  BY <1>6, <1>7
<1>9. ASSUME NEW n \in 0..N
      PROVE  parts[n] = IF n = 0 THEN first ELSE SplitNext(parts[n - 1], text[n], separator)
  BY <1>8
<1>10. parts[0] = first
  BY <1>1, <1>9
<1>11. ASSUME NEW n \in 1..N PROVE parts[n] = SplitNext(parts[n - 1], text[n], separator)
  <2>1. n \in 0..N /\ n # 0
    BY <1>1
  <2>2. QED
    BY <1>9, <2>1
<1>12. Iterates(parts, N, V, first, next)
  <2>1. parts = [n \in 0..N |-> parts[n]]
    BY <1>8
  <2>2. \A n \in 1..N : parts[n - 1] \in V => parts[n] = next[n][parts[n - 1]]
    BY <1>11
  <2> HIDE DEF next, first, parts
  <2>3. Follows(parts, N, V, first, next)
    BY <1>10, <2>1, <2>2 DEF Follows, first
  <2>4. QED
    BY <1>1, <1>2, <1>4, <2>3, IterationFollows
<1>13. \A n \in 0..N : parts[n] \in V
  BY <1>12 DEF Iterates
<1>14. \A n \in 0..N : parts[n] \in Seq(Seq(Characters)) /\ Len(parts[n]) > 0
  BY <1>13 DEF V
<1>15. QED
  BY <1>10, <1>11, <1>14

\* A set of numbers with 0 and with the next of each of its numbers has all up to N.
LEMMA EveryNumber ==
  ASSUME NEW N \in Nat, NEW T, 0 \in T, \A n \in 1..N : n - 1 \in T => n \in T
  PROVE  0..N \subseteq T
<1> DEFINE D == {n \in 0..N : n \notin T}
<1>1. ASSUME D # {} PROVE FALSE
  <2>1. D \subseteq Nat
    OBVIOUS
  <2>2. PICK n \in D : \A m \in D : n <= m
    <3> HIDE DEF D
    <3>1. QED
      BY <1>1, <2>1, LeastNumber
  <2>3. n # 0 /\ n \in 1..N /\ n - 1 \in 0..N /\ ~(n <= n - 1)
    OBVIOUS
  <2>4. n - 1 \in T
    BY <2>2, <2>3
  <2>5. QED
    BY <2>3, <2>4
<1>2. QED
  BY <1>1

\* What a part of the text comes to does not depend on what follows.
LEMMA PartsOfStart ==
  ASSUME NEW s \in Seq(Characters), NEW t \in Seq(Characters), NEW separator
  PROVE  \A n \in 0..Len(s) : PartsUpTo(s \o t, separator)[n] = PartsUpTo(s, separator)[n]
<1> DEFINE u == s \o t
           P == PartsUpTo(u, separator)
           Q == PartsUpTo(s, separator)
           T == {n \in 0..Len(s) : P[n] = Q[n]}
<1>1. u \in Seq(Characters) /\ Len(u) = Len(s) + Len(t) /\ Len(s) \in Nat /\ \A i \in 1..Len(s) : u[i] = s[i]
  BY TextAfterText
<1> HIDE DEF u
<1>2. P[0] = Q[0]
  BY <1>1, PartsAre
<1>3. \A n \in 1..Len(s) : /\ P[n] = SplitNext(P[n - 1], u[n], separator)
                           /\ Q[n] = SplitNext(Q[n - 1], s[n], separator)
  <2>1. \A n \in 1..Len(s) : n \in 1..Len(u)
    BY <1>1
  <2>2. QED
    BY <1>1, <2>1, PartsAre
<1> HIDE DEF P, Q
<1>4. 0 \in T
  BY <1>2
<1>5. ASSUME NEW n \in 1..Len(s), n - 1 \in T PROVE n \in T
  <2>1. P[n - 1] = Q[n - 1] /\ u[n] = s[n] /\ n \in 0..Len(s)
    BY <1>1, <1>5
  <2>2. P[n] = Q[n]
    BY <1>3, <2>1
  <2>3. QED
    BY <2>1, <2>2
<1> HIDE DEF T
<1>6. 0..Len(s) \subseteq T
  BY <1>1, <1>4, <1>5, EveryNumber
<1>7. QED
  BY <1>6 DEF T, P, Q, u

\* A split text has a part.
LEMMA SplitType ==
  ASSUME NEW text \in Seq(Characters), NEW separator
  PROVE  /\ Split(text, separator) \in Seq(Seq(Characters)) /\ Len(Split(text, separator)) > 0
         /\ Last(Split(text, separator)) \in Seq(Characters)
         /\ Front(Split(text, separator)) \in Seq(Seq(Characters))
         /\ Len(Front(Split(text, separator))) = Len(Split(text, separator)) - 1
<1> DEFINE p == Split(text, separator)
<1>1. Len(text) \in 0..Len(text)
  OBVIOUS
<1>2. p \in Seq(Seq(Characters)) /\ Len(p) > 0
  BY <1>1, PartsAre DEF Split
<1> HIDE DEF p
<1>3. Last(p) \in Seq(Characters)
  BY <1>2 DEF Last
<1>4. Front(p) \in Seq(Seq(Characters)) /\ Len(Front(p)) = Len(p) - 1
  <2>1. 1 \in 1..(Len(p) + 1) /\ Len(p) - 1 \in 0..Len(p) /\ 1 <= Len(p) - 1 + 1
        /\ Len(p) - 1 - 1 + 1 = Len(p) - 1
    BY <1>2
  <2>2. QED
    BY <1>2, <2>1, PartOfText DEF Front
<1>5. QED
  BY <1>2, <1>3, <1>4 DEF p

\* A text without the separator goes to the last part.
LEMMA SplitAfter ==
  ASSUME NEW s \in Seq(Characters), NEW t \in Seq(Characters), NEW separator,
         \A i \in 1..Len(t) : t[i] # separator
  PROVE  Split(s \o t, separator)
           = Append(Front(Split(s, separator)), Last(Split(s, separator)) \o t)
<1> DEFINE u == s \o t
           N == Len(t)
           P == PartsUpTo(u, separator)
           p == Split(s, separator)
           S(k) == SubSeq(t, 1, k)
           T == {k \in 0..N : P[Len(s) + k] = Append(Front(p), Last(p) \o S(k))}
<1>1. /\ u \in Seq(Characters) /\ Len(u) = Len(s) + N /\ N \in Nat /\ Len(s) \in Nat
      /\ \A i \in (Len(s) + 1)..(Len(s) + N) : u[i] = t[i - Len(s)]
  BY TextAfterText
<1>2. /\ p \in Seq(Seq(Characters)) /\ Len(p) > 0 /\ Last(p) \in Seq(Characters)
      /\ Front(p) \in Seq(Seq(Characters)) /\ Len(Front(p)) = Len(p) - 1
  BY SplitType
<1>3. P[Len(s)] = p
  <2>1. Len(s) \in 0..Len(s)
    BY <1>1
  <2>2. QED
    BY <2>1, PartsOfStart DEF Split
<1>4. \A k \in 1..N : P[Len(s) + k] = SplitNext(P[Len(s) + (k - 1)], t[k], separator)
  <2>1. \A n \in 1..Len(u) : P[n] = SplitNext(P[n - 1], u[n], separator)
    BY <1>1, PartsAre
  <2> HIDE DEF P, u
  <2>2. TAKE k \in 1..N
  <2>3. /\ Len(s) + k \in 1..Len(u) /\ (Len(s) + k) - 1 = Len(s) + (k - 1)
        /\ Len(s) + k \in (Len(s) + 1)..(Len(s) + N) /\ (Len(s) + k) - Len(s) = k
    BY <1>1
  <2>4. u[Len(s) + k] = t[k]
    BY <1>1, <2>3
  <2>5. QED
    BY <2>1, <2>3, <2>4
<1> HIDE DEF P, u, p
<1>5. 0 \in T
  <2>1. S(0) = <<>>
    OBVIOUS
  <2>2. Last(p) \o <<>> = Last(p)
    BY <1>2, ConcatEmptySeq
  <2>3. Append(Front(p), Last(p)) = p
    BY <1>2, FrontAndLast
  <2>4. Len(s) + 0 = Len(s) /\ 0 \in 0..N
    BY <1>1
  <2>5. P[Len(s) + 0] = Append(Front(p), Last(p) \o S(0))
    BY <1>3, <2>1, <2>2, <2>3, <2>4
  <2>6. QED
    BY <2>4, <2>5
<1>6. ASSUME NEW k \in 1..N, k - 1 \in T PROVE k \in T
  <2> DEFINE l == Last(p) \o S(k - 1)
             a == Append(Front(p), l)
  <2>1. P[Len(s) + (k - 1)] = a
    BY <1>6
  <2>2. t[k] # separator
    OBVIOUS
  <2>3. S(k - 1) \in Seq(Characters) /\ S(k) = Append(S(k - 1), t[k])
    BY <1>1, PartOfText
  <2>4. l \in Seq(Characters) /\ Append(l, t[k]) = Last(p) \o S(k)
    <3>1. l \in Seq(Characters)
      BY <1>2, <2>3, ConcatProperties
    <3>2. t[k] \in Characters
      OBVIOUS
    <3>3. Append(Last(p) \o S(k - 1), t[k]) = Last(p) \o Append(S(k - 1), t[k])
      BY <1>2, <2>3, <3>2, AppendAfterText, Zenon
    <3>4. QED
      BY <2>3, <3>1, <3>3
  <2> HIDE DEF l
  <2>5. Front(a) = Front(p) /\ Last(a) = l
    BY <1>2, <2>4, FrontOfAppend
  <2>6. SplitNext(a, t[k], separator) = Append(Front(p), Append(l, t[k]))
    BY <2>2, <2>5 DEF SplitNext
  <2>7. P[Len(s) + k] = Append(Front(p), Last(p) \o S(k))
    <3>1. P[Len(s) + k] = SplitNext(P[Len(s) + (k - 1)], t[k], separator)
      BY <1>4
    <3> HIDE DEF a
    <3>2. P[Len(s) + k] = SplitNext(a, t[k], separator)
      BY <2>1, <3>1, Zenon
    <3>3. QED
      BY <2>4, <2>6, <3>2, Zenon
  <2>8. k \in 0..N
    BY <1>1
  <2>9. QED
    BY <2>7, <2>8, Zenon
<1> HIDE DEF T
<1>7. 0..N \subseteq T
  BY <1>1, <1>5, <1>6, EveryNumber
<1>8. N \in T
  BY <1>1, <1>7
<1>9. S(N) = t
  BY SubSeqFull
<1>10. QED
  BY <1>1, <1>8, <1>9 DEF T, Split, P, p, u

\* The empty text.
LEMMA EmptyText ==
  /\ <<>> \in Seq(Characters) /\ Len(<<>>) = 0
  /\ \A text \in Seq(Characters) : Len(text) = 0 => text = <<>>
<1>1. <<>> \in Seq(Characters) /\ Len(<<>>) = 0
  OBVIOUS
<1>2. QED
  BY <1>1, EmptySeq

\* A text of one character.
LEMMA OneCharacter ==
  ASSUME NEW c \in Characters
  PROVE  <<c>> \in Seq(Characters) /\ Len(<<c>>) = 1 /\ <<c>>[1] = c
OBVIOUS

\* An empty text is one empty part.
LEMMA SplitNothing ==
  ASSUME NEW separator
  PROVE  Split(<<>>, separator) = << <<>> >>
<1>1. PICK e \in Seq(Characters) : e = <<>>
  BY EmptyText
<1>2. Len(e) = 0
  BY <1>1
<1>3. PartsUpTo(e, separator)[0] = << <<>> >>
  BY PartsAre
<1>4. QED
  BY <1>1, <1>2, <1>3 DEF Split

\* A text without the separator is one part.
LEMMA SplitOne ==
  ASSUME NEW text \in Seq(Characters), NEW separator,
         \A i \in 1..Len(text) : text[i] # separator
  PROVE  Split(text, separator) = <<text>>
<1>1. PICK e \in Seq(Characters) : e = <<>>
  BY EmptyText
<1>2. Split(e \o text, separator)
        = Append(Front(Split(e, separator)), Last(Split(e, separator)) \o text)
  BY SplitAfter
<1>3. e \o text = text
  BY <1>1, ConcatEmptySeq
<1>4. Split(e, separator) = << e >>
  BY <1>1, SplitNothing
<1>5. Front(<<e>>) = <<>> /\ Last(<<e>>) = e
  BY DEF Front, Last
<1>6. Append(<<>>, text) = <<text>>
  OBVIOUS
<1>7. QED
  BY <1>2, <1>3, <1>4, <1>5, <1>6, Zenon

\* After the separator a new part begins.
LEMMA SplitAtSeparator ==
  ASSUME NEW s \in Seq(Characters), NEW t \in Seq(Characters), NEW separator \in Characters,
         \A i \in 1..Len(t) : t[i] # separator
  PROVE  Split(s \o <<separator>> \o t, separator) = Append(Split(s, separator), t)
<1>1. PICK u \in Seq(Characters) : u = s \o <<separator>>
  BY OneCharacter, ConcatProperties
<1>2. /\ Len(s) \in Nat /\ Len(u) = Len(s) + 1 /\ u[Len(s) + 1] = separator
      /\ u = Append(s, separator)
  <2>1. Append(s, separator) = u
    BY <1>1, AppendIsConcat
  <2>2. QED
    BY <2>1, AppendProperties
<1>3. Split(u, separator) = Append(Split(s, separator), <<>>)
  <2> DEFINE P == PartsUpTo(u, separator)
  <2>1. P[Len(u)] = SplitNext(P[Len(u) - 1], u[Len(u)], separator)
    <3>1. Len(u) \in 1..Len(u)
      BY <1>2
    <3>2. QED
      BY <3>1, PartsAre
  <2>2. Len(u) - 1 = Len(s) /\ u[Len(u)] = separator
    BY <1>2
  <2>3. P[Len(s)] = Split(s, separator)
    <3>1. PICK v \in Seq(Characters) : v = <<separator>>
      BY OneCharacter
    <3>2. \A n \in 0..Len(s) : PartsUpTo(s \o v, separator)[n] = PartsUpTo(s, separator)[n]
      BY PartsOfStart
    <3>3. s \o v = u
      BY <1>1, <3>1
    <3>4. Len(s) \in 0..Len(s)
      BY <1>2
    <3>5. QED
      BY <3>2, <3>3, <3>4, Zenon DEF Split
  <2>4. P[Len(u)] = Split(u, separator)
    BY DEF Split
  <2> HIDE DEF P
  <2>5. QED
    BY <2>1, <2>2, <2>3, <2>4 DEF SplitNext
<1>4. Split(u \o t, separator)
        = Append(Front(Split(u, separator)), Last(Split(u, separator)) \o t)
  BY SplitAfter
<1>5. PICK e \in Seq(Characters) : e = <<>>
  BY EmptyText
<1>6. Split(s, separator) \in Seq(Seq(Characters))
  BY SplitType
<1>7. Front(Append(Split(s, separator), e)) = Split(s, separator)
      /\ Last(Append(Split(s, separator), e)) = e
  BY <1>6, FrontOfAppend
<1>8. e \o t = t
  BY <1>5, ConcatEmptySeq
<1>9. QED
  BY <1>1, <1>3, <1>4, <1>5, <1>7, <1>8, Zenon

\* A character is a separator or in a part.
LEMMA CharactersOfParts ==
  ASSUME NEW text \in Seq(Characters), NEW separator, NEW i \in 1..Len(text), text[i] # separator
  PROVE  LET parts == Split(text, separator)
         IN  \E j \in 1..Len(parts) : \E k \in 1..Len(parts[j]) : parts[j][k] = text[i]
<1> DEFINE P == PartsUpTo(text, separator)
           In(p) == \E j \in 1..Len(p) : \E k \in 1..Len(p[j]) : p[j][k] = text[i]
           T == {n \in 0..Len(text) : n >= i => In(P[n])}
<1>1. Len(text) \in Nat /\ i \in Nat /\ i > 0
  OBVIOUS
<1>2. /\ \A n \in 1..Len(text) : P[n] = SplitNext(P[n - 1], text[n], separator)
      /\ \A n \in 0..Len(text) : P[n] \in Seq(Seq(Characters)) /\ Len(P[n]) > 0
  BY PartsAre
<1> HIDE DEF P
<1>3. 0 \in T
  BY <1>1
<1>4. ASSUME NEW n \in 1..Len(text), n - 1 \in T PROVE n \in T
  <2>1. PICK p \in Seq(Seq(Characters)) : p = P[n - 1]
    BY <1>2
  <2>2. Len(p) > 0
    BY <1>2, <2>1
  <2>3. PICK c \in Characters : c = text[n]
    OBVIOUS
  <2>4. P[n] = SplitNext(p, c, separator)
    BY <1>2, <2>1, <2>3
  <2>5. SUFFICES ASSUME n >= i PROVE In(P[n])
    OBVIOUS
  <2>6. CASE c = separator
    <3>1. n # i /\ n - 1 >= i
      <4>1. n # i
        BY <2>3, <2>6
      <4>2. n \in Nat /\ n >= i /\ i \in Nat
        BY <1>1, <2>5
      <4>3. QED
        BY <4>1, <4>2
    <3>2. In(p)
      BY <1>4, <2>1, <3>1
    <3>3. PICK j \in 1..Len(p) : \E k \in 1..Len(p[j]) : p[j][k] = text[i]
      BY <3>2
    <3>4. PICK e \in Seq(Characters) : e = <<>>
      BY EmptyText
    <3>5. PICK q \in Seq(Seq(Characters)) : q = Append(p, e)
      BY AppendProperties
    <3>10. Len(q) = Len(p) + 1 /\ \A l \in 1..Len(p) : q[l] = p[l]
      BY <3>5, AppendProperties
    <3>6. j \in 1..Len(q) /\ q[j] = p[j]
      BY <3>10
    <3>7. In(q)
      BY <3>3, <3>6
    <3>8. P[n] = q
      BY <2>4, <2>6, <3>4, <3>5 DEF SplitNext
    <3>9. QED
      BY <3>7, <3>8
  <2>7. CASE c # separator
    <3>1. PICK f \in Seq(Seq(Characters)) : f = Front(p)
      BY <2>2, FrontAndLast
    <3>2. PICK l \in Seq(Characters) : l = Last(p)
      BY <2>2, FrontAndLast
    <3>3. PICK m \in Seq(Characters) : m = Append(l, c)
      BY AppendProperties
    <3>4. PICK q \in Seq(Seq(Characters)) : q = Append(f, m)
      BY AppendProperties
    <3>5. P[n] = q
      BY <2>4, <2>7, <3>1, <3>2, <3>3, <3>4 DEF SplitNext
    <3>6. Len(m) = Len(l) + 1 /\ m[Len(l) + 1] = c /\ \A k \in 1..Len(l) : m[k] = l[k]
      BY <3>3, AppendProperties
    <3>7. Len(q) = Len(f) + 1 /\ q[Len(f) + 1] = m /\ \A j \in 1..Len(f) : q[j] = f[j]
      BY <3>4, AppendProperties
    <3>8. Len(f) = Len(p) - 1 /\ l = p[Len(p)] /\ \A j \in 1..(Len(p) - 1) : f[j] = p[j]
      BY <2>2, <3>1, <3>2, FrontAndLast
    <3>9. CASE n = i
      <4>1. m[Len(l) + 1] = text[i] /\ Len(l) + 1 \in 1..Len(m)
        BY <2>3, <3>6, <3>9
      <4>2. Len(f) + 1 \in 1..Len(q)
        BY <3>7
      <4>3. QED
        BY <3>5, <3>7, <4>1, <4>2
    <3>10. CASE n # i
      <4>1. In(p)
        BY <1>1, <1>4, <2>1, <2>5, <3>10
      <4>2. PICK j \in 1..Len(p) : \E k \in 1..Len(p[j]) : p[j][k] = text[i]
        BY <4>1
      <4>3. PICK k \in 1..Len(p[j]) : p[j][k] = text[i]
        BY <4>2
      <4>4. CASE j = Len(p)
        <5>1. k \in 1..Len(m) /\ m[k] = text[i]
          BY <3>6, <3>8, <4>3, <4>4
        <5>2. Len(f) + 1 \in 1..Len(q)
          BY <3>7
        <5>3. QED
          BY <3>5, <3>7, <5>1, <5>2
      <4>5. CASE j # Len(p)
        <5>1. j \in 1..(Len(p) - 1) /\ j \in 1..Len(f) /\ j \in 1..Len(q)
          BY <3>7, <3>8, <4>5
        <5>2. q[j] = p[j]
          BY <3>7, <3>8, <5>1
        <5>3. QED
          BY <3>5, <4>3, <5>1, <5>2
      <4>6. QED
        BY <4>4, <4>5
    <3>11. QED
      BY <3>9, <3>10
  <2>8. QED
    BY <2>6, <2>7
<1> HIDE DEF T
<1>5. 0..Len(text) \subseteq T
  BY <1>1, <1>3, <1>4, EveryNumber
<1>6. Len(text) \in T
  BY <1>1, <1>5
<1>7. QED
  BY <1>1, <1>6 DEF T, P, Split

(***************************************************************************)
(* String types                                                            *)
(***************************************************************************)
\* The attributes of the types of Kubernetes names.
LEMMA NameTypesAre ==
  /\ \A type \in {"ConfigMapName", "ClusterRoleName", "DaemonSetName",
       "ListenerName", "ListenerClassName",
       "PersistentVolumeClaimName", "RoleBindingName",
       "SecretClassName", "SecretName", "ServiceAccountName"} :
       AttributesOf(type) = <<Is("is_rfc_1123_dns_subdomain_name")>>
  /\ \A type \in {"ConfigMapKey", "SecretKey"} :
       AttributesOf(type) = <<Attribute("min_length", 1), Attribute("max_length", SubdomainMax),
            Attribute("regex", "config_key")>>
  /\ \A type \in {"Hostname"} :
       AttributesOf(type) = <<Attribute("min_length", 1), Attribute("max_length", SubdomainMax),
            Attribute("regex", "hostname")>>
  /\ \A type \in {"ContainerName", "DeploymentName"} :
       AttributesOf(type) = <<Is("is_rfc_1123_label_name")>>
  /\ \A type \in {"NamespaceName", "VolumeName"} :
       AttributesOf(type) = <<Is("is_rfc_1123_label_name"), Is("is_valid_label_value")>>
  /\ \A type \in {"ServiceName"} :
       AttributesOf(type) = <<Is("is_rfc_1035_label_name"), Is("is_valid_label_value")>>
  /\ \A type \in {"StatefulSetName"} :
       AttributesOf(type) = <<Attribute("max_length", LabelMax - 1 - RevisionDigits),
            Is("is_rfc_1123_label_name"), Is("is_valid_label_value")>>
  /\ \A type \in {"Uid"} :
       AttributesOf(type) = <<Is("is_uid"), Is("is_valid_label_value")>>
<1> DEFINE T == NameTypes
<1>1. ASSUME NEW type \in DOMAIN T PROVE AttributesOf(type) = T[type]
  <2> DEFINE D == DOMAIN T
  <2>1. AttributesOf(type)
          = CASE type \in D -> T[type]
              [] type \in DOMAIN OperatorNameTypes -> OperatorNameTypes[type]
              [] type = "QualifiedRoleGroupName" -> QualifiedRoleGroupName
              [] type = "EnvVarName" -> EnvVarName
    BY DEF AttributesOf
  <2>2. type \in D /\ type \notin DOMAIN OperatorNameTypes
        /\ type \notin {"QualifiedRoleGroupName", "EnvVarName"}
    BY DEF NameTypes, OperatorNameTypes
  <2> HIDE DEF D, T
  <2>3. QED
    BY <2>1, <2>2
<1>2. /\ \A type \in {"ConfigMapName", "ClusterRoleName", "DaemonSetName",
           "ListenerName", "ListenerClassName", "PersistentVolumeClaimName", "RoleBindingName",
           "SecretClassName", "SecretName", "ServiceAccountName"} :
           type \in DOMAIN T /\ T[type] = <<Is("is_rfc_1123_dns_subdomain_name")>>
  BY DEF NameTypes
<1>3. /\ \A type \in {"ConfigMapKey", "SecretKey"} :
           /\ type \in DOMAIN T
           /\ T[type] = <<Attribute("min_length", 1), Attribute("max_length", SubdomainMax),
                         Attribute("regex", "config_key")>>
      /\ "Hostname" \in DOMAIN T
      /\ T["Hostname"] = <<Attribute("min_length", 1), Attribute("max_length", SubdomainMax),
                           Attribute("regex", "hostname")>>
  BY DEF NameTypes
<1>4. /\ \A type \in {"ContainerName", "DeploymentName"} :
           type \in DOMAIN T /\ T[type] = <<Is("is_rfc_1123_label_name")>>
      /\ \A type \in {"NamespaceName", "VolumeName"} :
           /\ type \in DOMAIN T
           /\ T[type] = <<Is("is_rfc_1123_label_name"), Is("is_valid_label_value")>>
  BY DEF NameTypes
<1>5. /\ {"ServiceName", "StatefulSetName", "Uid"} \subseteq DOMAIN T
      /\ T["ServiceName"] = <<Is("is_rfc_1035_label_name"), Is("is_valid_label_value")>>
      /\ T["StatefulSetName"] = <<Attribute("max_length", LabelMax - 1 - RevisionDigits),
            Is("is_rfc_1123_label_name"), Is("is_valid_label_value")>>
      /\ T["Uid"] = <<Is("is_uid"), Is("is_valid_label_value")>>
  BY DEF NameTypes
<1> HIDE DEF T
<1>6. QED
  BY <1>1, <1>2, <1>3, <1>4, <1>5

\* The attributes of the types of the operators' names.
LEMMA OperatorNameTypesAre ==
  /\ \A type \in {"ProductName"} :
       AttributesOf(type) = <<Attribute("max_length", ProductNameMax),
            Is("is_rfc_1123_dns_subdomain_name"), Is("is_valid_label_value")>>
  /\ \A type \in {"ProductVersion", "ControllerName", "OperatorName"} :
       AttributesOf(type) = <<Is("is_valid_label_value")>>
  /\ \A type \in {"ClusterName"} :
       AttributesOf(type) = <<Attribute("max_length", ClusterNameMax),
            Is("is_rfc_1035_label_name"), Is("is_valid_label_value")>>
  /\ \A type \in {"RoleGroupName", "RoleName"} :
       AttributesOf(type) = <<Is("is_rfc_1123_label_name"), Is("is_valid_label_value")>>
  /\ AttributesOf("QualifiedRoleGroupName") = QualifiedRoleGroupName
  /\ AttributesOf("EnvVarName") = EnvVarName
<1>1. DOMAIN OperatorNameTypes \cap DOMAIN NameTypes = {}
  BY DEF NameTypes, OperatorNameTypes
<1>2. {"ProductName", "ProductVersion", "ControllerName", "OperatorName", "ClusterName",
       "RoleGroupName", "RoleName"} \subseteq DOMAIN OperatorNameTypes
  BY DEF OperatorNameTypes
<1>3. {"QualifiedRoleGroupName", "EnvVarName"}
        \cap (DOMAIN OperatorNameTypes \cup DOMAIN NameTypes) = {}
  BY DEF NameTypes, OperatorNameTypes
<1>4. \A type \in DOMAIN OperatorNameTypes : AttributesOf(type) = OperatorNameTypes[type]
  <2> DEFINE D == DOMAIN NameTypes
             E == DOMAIN OperatorNameTypes
  <2>1. D \cap E = {}
    BY <1>1
  <2>2. \A type \in E : type \notin D
    BY <2>1
  <2>3. ASSUME NEW type, type \notin D, type \in E
        PROVE  AttributesOf(type) = OperatorNameTypes[type]
    <3> HIDE DEF D, E
    <3>1. AttributesOf(type)
            = CASE type \in D -> NameTypes[type]
                [] type \in E -> OperatorNameTypes[type]
                [] type = "QualifiedRoleGroupName" -> QualifiedRoleGroupName
                [] type = "EnvVarName" -> EnvVarName
      BY DEF AttributesOf, D, E
    <3>2. QED
      BY <2>3, <3>1, <1>3 DEF E
  <2> HIDE DEF D
  <2>4. QED
    BY <2>2, <2>3
<1>5. /\ AttributesOf("QualifiedRoleGroupName") = QualifiedRoleGroupName
      /\ AttributesOf("EnvVarName") = EnvVarName
  BY <1>3 DEF AttributesOf
<1>6. /\ OperatorNameTypes["ProductName"]
           = <<Attribute("max_length", ProductNameMax), Is("is_rfc_1123_dns_subdomain_name"),
               Is("is_valid_label_value")>>
      /\ OperatorNameTypes["ClusterName"]
           = <<Attribute("max_length", ClusterNameMax), Is("is_rfc_1035_label_name"),
               Is("is_valid_label_value")>>
  BY DEF OperatorNameTypes
<1>7. /\ \A type \in {"ProductVersion", "ControllerName", "OperatorName"} :
           OperatorNameTypes[type] = <<Is("is_valid_label_value")>>
      /\ \A type \in {"RoleGroupName", "RoleName"} :
           OperatorNameTypes[type] = <<Is("is_rfc_1123_label_name"), Is("is_valid_label_value")>>
  BY DEF OperatorNameTypes
<1>8. QED
  BY <1>2, <1>4, <1>5, <1>6, <1>7

\* There are no other types.
LEMMA TypeNamesAre ==
  TypeNames =
    {"ConfigMapName", "ClusterRoleName", "DaemonSetName",
     "ListenerName", "ListenerClassName",
     "PersistentVolumeClaimName", "RoleBindingName",
     "SecretClassName", "SecretName", "ServiceAccountName",
     "ConfigMapKey", "SecretKey", "Hostname", "ContainerName",
     "DeploymentName", "NamespaceName", "VolumeName",
     "ServiceName", "StatefulSetName", "Uid", "ProductName",
     "ProductVersion", "ControllerName", "OperatorName",
     "ClusterName", "RoleGroupName", "RoleName",
     "QualifiedRoleGroupName", "EnvVarName"}
BY DEF TypeNames, NameTypes, OperatorNameTypes

\* There is room for the label of a revision.
LEMMA LabelRoom ==
  LabelMax - 1 - RevisionDigits \in Nat /\ QualifiedMax <= LabelMax - 1 - RevisionDigits
BY NameLimits, NameLengths

\* What attributes are there.
Attributes ==
  [kind : {"is_uid", "is_rfc_1123_dns_subdomain_name", "is_rfc_1123_label_name",
           "is_rfc_1035_label_name", "is_valid_label_value"}, value : {None}]
  \cup [kind : {"min_length"}, value : {1}] \cup [kind : {"max_length"}, value : Nat]
  \cup [kind : {"regex"}, value : {"config_key", "hostname", "env_var"}]

\* The attributes of one to three types.
LEMMA ShortLists ==
  /\ \A x \in Attributes : <<x>> \in Seq(Attributes) /\ Len(<<x>>) = 1 /\ <<x>>[1] = x
  /\ \A x, y \in Attributes :
       /\ <<x, y>> \in Seq(Attributes) /\ Len(<<x, y>>) = 2
       /\ <<x, y>>[1] = x /\ <<x, y>>[2] = y
  /\ \A x, y, z \in Attributes :
       /\ <<x, y, z>> \in Seq(Attributes) /\ Len(<<x, y, z>>) = 3
       /\ <<x, y, z>>[1] = x /\ <<x, y, z>>[2] = y /\ <<x, y, z>>[3] = z
OBVIOUS

\* The attributes by their kind.
LEMMA AttributesAre ==
  /\ \A kind \in {"is_uid", "is_rfc_1123_dns_subdomain_name", "is_rfc_1123_label_name",
                  "is_rfc_1035_label_name", "is_valid_label_value"} :
       Is(kind) \in Attributes /\ Is(kind).kind = kind /\ RegexOf(Is(kind)) = kind
  /\ \A n \in Nat : /\ Attribute("max_length", n) \in Attributes
                    /\ Attribute("max_length", n).kind = "max_length"
                    /\ Attribute("max_length", n).value = n
                    /\ RegexOf(Attribute("max_length", n)) = "MatchAll"
  /\ /\ Attribute("min_length", 1) \in Attributes
     /\ Attribute("min_length", 1).kind = "min_length"
     /\ Attribute("min_length", 1).value = 1
     /\ RegexOf(Attribute("min_length", 1)) = "MatchAll"
  /\ \A regex \in {"config_key", "hostname", "env_var"} :
       /\ Attribute("regex", regex) \in Attributes /\ Attribute("regex", regex).kind = "regex"
       /\ RegexOf(Attribute("regex", regex)) = regex
BY DEF Attributes, Attribute, Is, RegexOf

\* Every type has such attributes, one of them with an expression; a Uid is the only uid,
\* and the names of environment variables have no greatest length.
LEMMA TypesHaveAttributes ==
  ASSUME NEW type \in TypeNames
  PROVE  /\ AttributesOf(type) \in Seq(Attributes)
         /\ \E i \in 1..Len(AttributesOf(type)) : RegexOf(AttributesOf(type)[i]) # "MatchAll"
         /\ type # "Uid" =>
              \A i \in 1..Len(AttributesOf(type)) : AttributesOf(type)[i].kind # "is_uid"
         /\ \A i, j \in 1..Len(AttributesOf(type)) :
              RegexOf(AttributesOf(type)[i]) = "env_var" => AttributesOf(type)[j].kind # "max_length"
<1> DEFINE a == AttributesOf(type)
<1>1. CASE type \in {"ConfigMapName", "ClusterRoleName", "DaemonSetName", "ListenerName",
                     "ListenerClassName", "PersistentVolumeClaimName", "RoleBindingName",
                     "SecretClassName", "SecretName", "ServiceAccountName"}
  <2>1. PICK x \in Attributes : x = Is("is_rfc_1123_dns_subdomain_name") /\ x.kind = "is_rfc_1123_dns_subdomain_name" /\ RegexOf(x) = "is_rfc_1123_dns_subdomain_name"
    BY AttributesAre
  <2>2. a = <<x>>
    BY <1>1, <2>1, NameTypesAre
  <2> HIDE DEF a
  <2>3. Len(a) = 1 /\ a \in Seq(Attributes) /\ a[1] = x
    BY <2>2, ShortLists
  <2>4. QED
    BY <1>1, <2>1, <2>3 DEF a
<1>2. CASE type \in {"ConfigMapKey", "SecretKey"}
  <2>1. PICK x \in Attributes : x = Attribute("min_length", 1) /\ x.kind = "min_length" /\ RegexOf(x) = "MatchAll"
    BY AttributesAre
  <2>2. PICK y \in Attributes : y = Attribute("max_length", SubdomainMax) /\ y.kind = "max_length" /\ RegexOf(y) = "MatchAll"
    BY AttributesAre, NameLimits
  <2>3. PICK z \in Attributes : z = Attribute("regex", "config_key") /\ z.kind = "regex" /\ RegexOf(z) = "config_key"
    BY AttributesAre
  <2>4. a = <<x, y, z>>
    BY <1>2, <2>1, <2>2, <2>3, NameTypesAre
  <2> HIDE DEF a
  <2>5. Len(a) = 3 /\ a \in Seq(Attributes) /\ a[1] = x /\ a[2] = y /\ a[3] = z
    BY <2>4, ShortLists
  <2>6. QED
    BY <1>2, <2>1, <2>2, <2>3, <2>5 DEF a
<1>3. CASE type \in {"Hostname"}
  <2>1. PICK x \in Attributes : x = Attribute("min_length", 1) /\ x.kind = "min_length" /\ RegexOf(x) = "MatchAll"
    BY AttributesAre
  <2>2. PICK y \in Attributes : y = Attribute("max_length", SubdomainMax) /\ y.kind = "max_length" /\ RegexOf(y) = "MatchAll"
    BY AttributesAre, NameLimits
  <2>3. PICK z \in Attributes : z = Attribute("regex", "hostname") /\ z.kind = "regex" /\ RegexOf(z) = "hostname"
    BY AttributesAre
  <2>4. a = <<x, y, z>>
    BY <1>3, <2>1, <2>2, <2>3, NameTypesAre
  <2> HIDE DEF a
  <2>5. Len(a) = 3 /\ a \in Seq(Attributes) /\ a[1] = x /\ a[2] = y /\ a[3] = z
    BY <2>4, ShortLists
  <2>6. QED
    BY <1>3, <2>1, <2>2, <2>3, <2>5 DEF a
<1>4. CASE type \in {"ContainerName", "DeploymentName"}
  <2>1. PICK x \in Attributes : x = Is("is_rfc_1123_label_name") /\ x.kind = "is_rfc_1123_label_name" /\ RegexOf(x) = "is_rfc_1123_label_name"
    BY AttributesAre
  <2>2. a = <<x>>
    BY <1>4, <2>1, NameTypesAre
  <2> HIDE DEF a
  <2>3. Len(a) = 1 /\ a \in Seq(Attributes) /\ a[1] = x
    BY <2>2, ShortLists
  <2>4. QED
    BY <1>4, <2>1, <2>3 DEF a
<1>5. CASE type \in {"NamespaceName", "VolumeName"}
  <2>1. PICK x \in Attributes : x = Is("is_rfc_1123_label_name") /\ x.kind = "is_rfc_1123_label_name" /\ RegexOf(x) = "is_rfc_1123_label_name"
    BY AttributesAre
  <2>2. PICK y \in Attributes : y = Is("is_valid_label_value") /\ y.kind = "is_valid_label_value" /\ RegexOf(y) = "is_valid_label_value"
    BY AttributesAre
  <2>3. a = <<x, y>>
    BY <1>5, <2>1, <2>2, NameTypesAre
  <2> HIDE DEF a
  <2>4. Len(a) = 2 /\ a \in Seq(Attributes) /\ a[1] = x /\ a[2] = y
    BY <2>3, ShortLists
  <2>5. QED
    BY <1>5, <2>1, <2>2, <2>4 DEF a
<1>6. CASE type \in {"ServiceName"}
  <2>1. PICK x \in Attributes : x = Is("is_rfc_1035_label_name") /\ x.kind = "is_rfc_1035_label_name" /\ RegexOf(x) = "is_rfc_1035_label_name"
    BY AttributesAre
  <2>2. PICK y \in Attributes : y = Is("is_valid_label_value") /\ y.kind = "is_valid_label_value" /\ RegexOf(y) = "is_valid_label_value"
    BY AttributesAre
  <2>3. a = <<x, y>>
    BY <1>6, <2>1, <2>2, NameTypesAre
  <2> HIDE DEF a
  <2>4. Len(a) = 2 /\ a \in Seq(Attributes) /\ a[1] = x /\ a[2] = y
    BY <2>3, ShortLists
  <2>5. QED
    BY <1>6, <2>1, <2>2, <2>4 DEF a
<1>7. CASE type \in {"StatefulSetName"}
  <2>1. PICK x \in Attributes : x = Attribute("max_length", LabelMax - 1 - RevisionDigits) /\ x.kind = "max_length" /\ RegexOf(x) = "MatchAll"
    BY AttributesAre, LabelRoom
  <2>2. PICK y \in Attributes : y = Is("is_rfc_1123_label_name") /\ y.kind = "is_rfc_1123_label_name" /\ RegexOf(y) = "is_rfc_1123_label_name"
    BY AttributesAre
  <2>3. PICK z \in Attributes : z = Is("is_valid_label_value") /\ z.kind = "is_valid_label_value" /\ RegexOf(z) = "is_valid_label_value"
    BY AttributesAre
  <2>4. a = <<x, y, z>>
    BY <1>7, <2>1, <2>2, <2>3, NameTypesAre
  <2> HIDE DEF a
  <2>5. Len(a) = 3 /\ a \in Seq(Attributes) /\ a[1] = x /\ a[2] = y /\ a[3] = z
    BY <2>4, ShortLists
  <2>6. QED
    BY <1>7, <2>1, <2>2, <2>3, <2>5 DEF a
<1>8. CASE type \in {"Uid"}
  <2>1. PICK x \in Attributes : x = Is("is_uid") /\ x.kind = "is_uid" /\ RegexOf(x) = "is_uid"
    BY AttributesAre
  <2>2. PICK y \in Attributes : y = Is("is_valid_label_value") /\ y.kind = "is_valid_label_value" /\ RegexOf(y) = "is_valid_label_value"
    BY AttributesAre
  <2>3. a = <<x, y>>
    BY <1>8, <2>1, <2>2, NameTypesAre
  <2> HIDE DEF a
  <2>4. Len(a) = 2 /\ a \in Seq(Attributes) /\ a[1] = x /\ a[2] = y
    BY <2>3, ShortLists
  <2>5. QED
    BY <1>8, <2>1, <2>2, <2>4 DEF a
<1>9. CASE type \in {"ProductName"}
  <2>1. PICK x \in Attributes : x = Attribute("max_length", ProductNameMax) /\ x.kind = "max_length" /\ RegexOf(x) = "MatchAll"
    BY AttributesAre, NameLimits
  <2>2. PICK y \in Attributes : y = Is("is_rfc_1123_dns_subdomain_name") /\ y.kind = "is_rfc_1123_dns_subdomain_name" /\ RegexOf(y) = "is_rfc_1123_dns_subdomain_name"
    BY AttributesAre
  <2>3. PICK z \in Attributes : z = Is("is_valid_label_value") /\ z.kind = "is_valid_label_value" /\ RegexOf(z) = "is_valid_label_value"
    BY AttributesAre
  <2>4. a = <<x, y, z>>
    BY <1>9, <2>1, <2>2, <2>3, OperatorNameTypesAre
  <2> HIDE DEF a
  <2>5. Len(a) = 3 /\ a \in Seq(Attributes) /\ a[1] = x /\ a[2] = y /\ a[3] = z
    BY <2>4, ShortLists
  <2>6. QED
    BY <1>9, <2>1, <2>2, <2>3, <2>5 DEF a
<1>10. CASE type \in {"ProductVersion", "ControllerName", "OperatorName"}
  <2>1. PICK x \in Attributes : x = Is("is_valid_label_value") /\ x.kind = "is_valid_label_value" /\ RegexOf(x) = "is_valid_label_value"
    BY AttributesAre
  <2>2. a = <<x>>
    BY <1>10, <2>1, OperatorNameTypesAre
  <2> HIDE DEF a
  <2>3. Len(a) = 1 /\ a \in Seq(Attributes) /\ a[1] = x
    BY <2>2, ShortLists
  <2>4. QED
    BY <1>10, <2>1, <2>3 DEF a
<1>11. CASE type \in {"ClusterName"}
  <2>1. PICK x \in Attributes : x = Attribute("max_length", ClusterNameMax) /\ x.kind = "max_length" /\ RegexOf(x) = "MatchAll"
    BY AttributesAre, NameLimits
  <2>2. PICK y \in Attributes : y = Is("is_rfc_1035_label_name") /\ y.kind = "is_rfc_1035_label_name" /\ RegexOf(y) = "is_rfc_1035_label_name"
    BY AttributesAre
  <2>3. PICK z \in Attributes : z = Is("is_valid_label_value") /\ z.kind = "is_valid_label_value" /\ RegexOf(z) = "is_valid_label_value"
    BY AttributesAre
  <2>4. a = <<x, y, z>>
    BY <1>11, <2>1, <2>2, <2>3, OperatorNameTypesAre
  <2> HIDE DEF a
  <2>5. Len(a) = 3 /\ a \in Seq(Attributes) /\ a[1] = x /\ a[2] = y /\ a[3] = z
    BY <2>4, ShortLists
  <2>6. QED
    BY <1>11, <2>1, <2>2, <2>3, <2>5 DEF a
<1>12. CASE type \in {"RoleGroupName", "RoleName"}
  <2>1. PICK x \in Attributes : x = Is("is_rfc_1123_label_name") /\ x.kind = "is_rfc_1123_label_name" /\ RegexOf(x) = "is_rfc_1123_label_name"
    BY AttributesAre
  <2>2. PICK y \in Attributes : y = Is("is_valid_label_value") /\ y.kind = "is_valid_label_value" /\ RegexOf(y) = "is_valid_label_value"
    BY AttributesAre
  <2>3. a = <<x, y>>
    BY <1>12, <2>1, <2>2, OperatorNameTypesAre
  <2> HIDE DEF a
  <2>4. Len(a) = 2 /\ a \in Seq(Attributes) /\ a[1] = x /\ a[2] = y
    BY <2>3, ShortLists
  <2>5. QED
    BY <1>12, <2>1, <2>2, <2>4 DEF a
<1>13. CASE type \in {"QualifiedRoleGroupName"}
  <2>1. PICK x \in Attributes : x = Attribute("max_length", QualifiedMax) /\ x.kind = "max_length" /\ RegexOf(x) = "MatchAll"
    BY AttributesAre, NameLimits
  <2>2. PICK y \in Attributes : y = Is("is_rfc_1035_label_name") /\ y.kind = "is_rfc_1035_label_name" /\ RegexOf(y) = "is_rfc_1035_label_name"
    BY AttributesAre
  <2>3. PICK z \in Attributes : z = Is("is_valid_label_value") /\ z.kind = "is_valid_label_value" /\ RegexOf(z) = "is_valid_label_value"
    BY AttributesAre
  <2>4. a = <<x, y, z>>
    BY <1>13, <2>1, <2>2, <2>3, OperatorNameTypesAre DEF QualifiedRoleGroupName
  <2> HIDE DEF a
  <2>5. Len(a) = 3 /\ a \in Seq(Attributes) /\ a[1] = x /\ a[2] = y /\ a[3] = z
    BY <2>4, ShortLists
  <2>6. QED
    BY <1>13, <2>1, <2>2, <2>3, <2>5 DEF a
<1>14. CASE type \in {"EnvVarName"}
  <2>1. PICK x \in Attributes : x = Attribute("min_length", 1) /\ x.kind = "min_length" /\ RegexOf(x) = "MatchAll"
    BY AttributesAre
  <2>2. PICK y \in Attributes : y = Attribute("regex", "env_var") /\ y.kind = "regex" /\ RegexOf(y) = "env_var"
    BY AttributesAre
  <2>3. a = <<x, y>>
    BY <1>14, <2>1, <2>2, OperatorNameTypesAre DEF EnvVarName
  <2> HIDE DEF a
  <2>4. Len(a) = 2 /\ a \in Seq(Attributes) /\ a[1] = x /\ a[2] = y
    BY <2>3, ShortLists
  <2>5. QED
    BY <1>14, <2>1, <2>2, <2>4 DEF a
<1>15. QED
  BY <1>1, <1>2, <1>3, <1>4, <1>5, <1>6, <1>7, <1>8, <1>9, <1>10, <1>11, <1>12, <1>13, <1>14, TypeNamesAre

\* The least and the greatest length of a type are the tightest bounds of its attributes.
LEMMA LengthsAre ==
  ASSUME NEW type \in TypeNames
  PROVE  LET a == AttributesOf(type)
         IN  /\ MIN_LENGTH(type) \in Nat /\ MAX_LENGTH(type) \in Nat /\ MAX_LENGTH(type) <= NoLimit
             /\ \A i \in 1..Len(a) : /\ LowerBound(a[i]) \in Nat /\ LowerBound(a[i]) <= MIN_LENGTH(type)
                                    /\ UpperBound(a[i]) \in Nat /\ MAX_LENGTH(type) <= UpperBound(a[i])
             /\ MIN_LENGTH(type) = 0 \/ \E i \in 1..Len(a) : MIN_LENGTH(type) = LowerBound(a[i])
             /\ \/ MAX_LENGTH(type) = NoLimit
                \/ \E i \in 1..Len(a) : MAX_LENGTH(type) = UpperBound(a[i])
<1> DEFINE a == AttributesOf(type)
           L == {0} \cup {LowerBound(a[i]) : i \in DOMAIN a}
           U == {NoLimit} \cup {UpperBound(a[i]) : i \in DOMAIN a}
<1>1. a \in Seq(Attributes)
  BY TypesHaveAttributes
<1>2. MIN_LENGTH(type) = Max(L) /\ MAX_LENGTH(type) = Min(U)
  BY DEF MIN_LENGTH, MAX_LENGTH, MinLength, MaxLength
<1> HIDE DEF a
<1>3. DOMAIN a = 1..Len(a) /\ \A i \in 1..Len(a) : a[i] \in Attributes
  BY <1>1
<1>4. NoLimit \in Nat
  BY SMT DEF NoLimit
<1>5. ASSUME NEW x \in Attributes
      PROVE  /\ LowerBound(x) \in Nat /\ LowerBound(x) <= 1 + UidLength
             /\ UpperBound(x) \in Nat
  BY <1>4, NameLimits, SMT DEF Attributes, LowerBound, UpperBound
<1>6. L \subseteq Nat /\ U \subseteq Nat /\ L # {} /\ U # {} /\ 1 + UidLength \in Nat
      /\ \A n \in L : n <= 1 + UidLength
  BY <1>3, <1>4, <1>5, NameLimits
<1>7. /\ 0 \in L /\ NoLimit \in U
      /\ \A i \in 1..Len(a) : LowerBound(a[i]) \in L /\ UpperBound(a[i]) \in U
      /\ \A n \in L : n = 0 \/ \E i \in 1..Len(a) : n = LowerBound(a[i])
      /\ \A n \in U : n = NoLimit \/ \E i \in 1..Len(a) : n = UpperBound(a[i])
  BY <1>3
<1> HIDE DEF L, U
<1>8. Max(L) \in L /\ \A n \in L : n <= Max(L)
  BY <1>6, GreatestIsMax
<1>9. Min(U) \in U /\ \A n \in U : Min(U) <= n
  BY <1>6, LeastIsMin
<1>10. QED
  BY <1>2, <1>3, <1>5, <1>6, <1>7, <1>8, <1>9 DEF a

\* A type accepts the texts all its attributes hold for, as they are.
LEMMA AcceptedWhenAllHold ==
  ASSUME NEW type \in TypeNames, NEW text
  PROVE  /\ from_str(type, text).ok
              <=> \A i \in 1..Len(AttributesOf(type)) : Holds(AttributesOf(type)[i], type, text)
         /\ from_str(type, text).ok => from_str(type, text) = Ok(text)
<1> DEFINE a == AttributesOf(type)
           failing == {i \in DOMAIN a : ~Holds(a[i], type, text)}
<1>1. DOMAIN a = 1..Len(a)
  BY TypesHaveAttributes
<1>2. from_str(type, text) = IF failing = {} THEN Ok(text) ELSE Err(a[Min(failing)].kind)
  BY DEF from_str, Checked
<1>3. failing = {} <=> \A i \in 1..Len(a) : Holds(a[i], type, text)
  BY <1>1
<1> HIDE DEF failing
<1>4. \A v : Ok(v).ok /\ ~Err(v).ok
  BY DEF Ok, Err
<1>5. QED
  BY <1>2, <1>3, <1>4

(***************************************************************************)
(* Labels                                                                  *)
(***************************************************************************)
\* What the expression of an RFC 1123 label says.
LEMMA LabelIs ==
  ASSUME NEW text \in Seq(Characters)
  PROVE  /\ Rfc1123Label(text)
              <=> /\ text # <<>> /\ text[1] \in Lower /\ text[Len(text)] \in Lower
                  /\ \A i \in 1..Len(text) : text[i] \in Lower \cup {"-"}
         /\ Rfc1035Label(text) <=> Rfc1123Label(text) /\ text[1] = "a"
<1>1. Len(text) \in Nat /\ (text # <<>> <=> Len(text) > 0) /\ Last(text) = text[Len(text)]
  BY EmptyText DEF Last
<1>2. \A i \in 1..Len(text) : i = 1 \/ i = Len(text) \/ i \in 2..(Len(text) - 1)
  BY <1>1
<1>3. Len(text) > 0 => 1 \in 1..Len(text) /\ Len(text) \in 1..Len(text)
  BY <1>1
<1>4. \A i \in 2..(Len(text) - 1) : i \in 1..Len(text)
  BY <1>1
<1>5. Len(text) > 0 /\ ~(Len(text) > 1) => Len(text) = 1
  <2>1. \A n \in Nat : n > 0 /\ ~(n > 1) => n = 1
    OBVIOUS
  <2>2. QED
    BY <1>1, <2>1
<1>6. "a" \in Lower
  BY DEF Lower
<1>7. QED
  BY <1>1, <1>2, <1>3, <1>4, <1>5, <1>6 DEF Rfc1123Label, Rfc1035Label, Framed

\* An RFC 1123 label is a label value and one part of a subdomain.
LEMMA LabelsAreUsable ==
  ASSUME NEW text \in Seq(Characters), Rfc1123Label(text)
  PROVE  /\ IsAscii(text) /\ Bytes(text) = Len(text) /\ Len(text) > 0
         /\ Rfc1123Subdomain(text) /\ LABEL_VALUE_REGEX(text)
         /\ Len(text) <= LabelMax => /\ is_lowercase_rfc_1123_label(text)
                                     /\ LabelValue(text) = Ok(text)
                                     /\ Rfc1035Label(text) => is_lowercase_rfc_1035_label(text)
         /\ Len(text) <= SubdomainMax => is_lowercase_rfc_1123_subdomain(text)
<1>1. /\ text # <<>> /\ text[1] \in Lower /\ text[Len(text)] \in Lower
      /\ \A i \in 1..Len(text) : text[i] \in Lower \cup {"-"}
  BY LabelIs
<1>2. Len(text) \in Nat /\ Len(text) > 0 /\ DOMAIN text = 1..Len(text) /\ Last(text) = text[Len(text)]
  BY <1>1, EmptyText DEF Last
<1>3. IsAscii(text)
  BY <1>1, <1>2 DEF IsAscii, Range, Lower
<1>4. Bytes(text) = Len(text)
  BY <1>3, BytesAreBounded
<1>5. \A i \in 1..Len(text) : text[i] # "."
  BY <1>1 DEF Lower
<1>6. Split(text, ".") = <<text>>
  BY <1>5, SplitOne
<1>7. Rfc1123Subdomain(text)
  <2>1. Range(<<text>>) = {text}
    BY DEF Range
  <2>2. QED
    BY <1>6, <2>1 DEF Rfc1123Subdomain
<1>8. LABEL_VALUE_REGEX(text)
  <2>1. \A i \in 2..(Len(text) - 1) : i \in 1..Len(text)
    BY <1>2
  <2>2. Lower \subseteq AlNum /\ Lower \cup {"-"} \subseteq AlNum \cup {"-", "_", "."}
    BY DEF Lower, AlNum
  <2>3. QED
    BY <1>1, <1>2, <2>1, <2>2 DEF LABEL_VALUE_REGEX, Framed
<1>9. ASSUME Len(text) <= LabelMax
      PROVE  /\ is_lowercase_rfc_1123_label(text) /\ LabelValue(text) = Ok(text)
             /\ Rfc1035Label(text) => is_lowercase_rfc_1035_label(text)
  <2>1. Bytes(text) <= LabelMax /\ ~(Bytes(text) > LabelMax)
    BY <1>2, <1>4, <1>9, NameLimits
  <2>2. QED
    BY <1>3, <1>8, <2>1
    DEF is_lowercase_rfc_1123_label, is_lowercase_rfc_1035_label, validate_all, LabelValue
<1>10. Len(text) <= SubdomainMax => is_lowercase_rfc_1123_subdomain(text)
  BY <1>4, <1>7 DEF is_lowercase_rfc_1123_subdomain, validate_all
<1>11. QED
  BY <1>2, <1>3, <1>4, <1>7, <1>8, <1>9, <1>10

\* A label after a label, or what follows a name after it.
LEMMA LabelAndSuffix ==
  ASSUME NEW s \in Seq(Characters), Rfc1123Label(s), NEW t \in Seq(Characters),
         \A i \in 1..Len(t) : t[i] \in Lower \cup {"-"}, t # <<>> => t[Len(t)] \in Lower
  PROVE  /\ s \o t \in Seq(Characters) /\ Len(s \o t) = Len(s) + Len(t)
         /\ Rfc1123Label(s \o t) /\ (s \o t)[1] = s[1]
<1>1. PICK u \in Seq(Characters) : u = s \o t
  BY ConcatProperties
<1>2. /\ Len(u) = Len(s) + Len(t) /\ Len(s) \in Nat /\ Len(t) \in Nat
      /\ \A i \in 1..Len(s) : u[i] = s[i]
      /\ \A i \in (Len(s) + 1)..(Len(s) + Len(t)) : u[i] = t[i - Len(s)]
  BY <1>1, TextAfterText
<1>3. /\ s # <<>> /\ s[1] \in Lower /\ s[Len(s)] \in Lower
      /\ \A i \in 1..Len(s) : s[i] \in Lower \cup {"-"}
  BY LabelIs
<1>4. Len(s) > 0 /\ Len(u) > 0 /\ u # <<>> /\ (t # <<>> <=> Len(t) > 0)
  BY <1>2, <1>3, EmptyText
<1>5. u[1] = s[1]
  BY <1>2, <1>4
<1>6. u[Len(u)] \in Lower
  <2>1. CASE Len(t) = 0
    BY <1>2, <1>3, <1>4, <2>1
  <2>2. CASE Len(t) # 0
    <3>1. Len(u) \in (Len(s) + 1)..(Len(s) + Len(t)) /\ Len(u) - Len(s) = Len(t)
      BY <1>2, <2>2
    <3>2. QED
      BY <1>2, <1>4, <2>2, <3>1
  <2>3. QED
    BY <2>1, <2>2
<1>7. ASSUME NEW i \in 1..Len(u) PROVE u[i] \in Lower \cup {"-"}
  <2>1. CASE i \in 1..Len(s)
    BY <1>2, <1>3, <2>1
  <2>2. CASE i \notin 1..Len(s)
    <3>1. i \in (Len(s) + 1)..(Len(s) + Len(t)) /\ i - Len(s) \in 1..Len(t)
      BY <1>2, <2>2
    <3>2. QED
      BY <1>2, <3>1
  <2>3. QED
    BY <2>1, <2>2
<1>8. Rfc1123Label(u)
  BY <1>3, <1>4, <1>5, <1>6, <1>7, LabelIs
<1>9. QED
  BY <1>1, <1>2, <1>5, <1>8

(***************************************************************************)
(* The names of role groups                                                *)
(***************************************************************************)
\* A type for labels accepts every label that is short enough for it.
LEMMA TypeAcceptsLabel ==
  ASSUME NEW type \in TypeNames, NEW text \in Seq(Characters), Rfc1123Label(text),
         Len(text) <= LabelMax,
         \A i \in 1..Len(AttributesOf(type)) :
           LET x == AttributesOf(type)[i]
           IN  \/ x.kind \in {"is_rfc_1123_dns_subdomain_name", "is_rfc_1123_label_name",
                              "is_valid_label_value"}
               \/ x.kind = "is_rfc_1035_label_name" /\ Rfc1035Label(text)
               \/ x.kind = "max_length" /\ Len(text) <= x.value
  PROVE  from_str(type, text) = Ok(text)
<1> DEFINE a == AttributesOf(type)
<1>1. /\ IsAscii(text) /\ Bytes(text) = Len(text) /\ Len(text) \in Nat
      /\ is_lowercase_rfc_1123_label(text) /\ LabelValue(text) = Ok(text)
      /\ Rfc1035Label(text) => is_lowercase_rfc_1035_label(text)
      /\ is_lowercase_rfc_1123_subdomain(text)
  BY LabelsAreUsable, NameLimits
<1>2. NoLimit \in Nat /\ Len(text) <= NoLimit
  <2>1. NoLimit \in Nat
    BY SMT DEF NoLimit
  <2>2. SubdomainMax <= NoLimit
    BY NameInputs
  <2>3. QED
    BY <1>1, <2>1, <2>2, NameLimits
<1>3. ASSUME NEW i \in 1..Len(a) PROVE Len(text) <= UpperBound(a[i])
  <2>1. PICK x : x = a[i]
    OBVIOUS
  <2>2. \/ x.kind \in {"is_rfc_1123_dns_subdomain_name", "is_rfc_1123_label_name",
                      "is_valid_label_value", "is_rfc_1035_label_name"}
        \/ x.kind = "max_length" /\ Len(text) <= x.value
    BY <2>1
  <2>3. Len(text) <= LabelMax /\ Len(text) <= SubdomainMax
    BY <1>1, NameLimits
  <2>4. Len(text) <= UpperBound(x)
    BY <2>2, <2>3 DEF UpperBound
  <2>5. QED
    BY <2>1, <2>4
<1>4. Len(text) <= MAX_LENGTH(type)
  BY <1>2, <1>3, LengthsAre
<1>5. ASSUME NEW i \in 1..Len(a) PROVE Holds(a[i], type, text)
  <2>1. PICK x : x = a[i]
    OBVIOUS
  <2>2. \/ x.kind \in {"is_rfc_1123_dns_subdomain_name", "is_rfc_1123_label_name",
                      "is_valid_label_value"}
        \/ x.kind = "is_rfc_1035_label_name" /\ Rfc1035Label(text)
        \/ x.kind = "max_length"
    BY <2>1
  <2>3. Ok(text).ok
    BY DEF Ok
  <2>4. Holds(x, type, text)
    BY <1>1, <1>4, <2>2, <2>3 DEF Holds
  <2>5. QED
    BY <2>1, <2>4
<1>6. QED
  BY <1>5, AcceptedWhenAllHold

\* What is accepted as a label value.
LEMMA LabelValueIs ==
  ASSUME NEW text \in Seq(Characters), LabelValue(text).ok
  PROVE  /\ LabelValue(text) = Ok(text) /\ ~(Bytes(text) > LabelMax) /\ IsAscii(text)
         /\ LABEL_VALUE_REGEX(text)
<1>1. \A v : Ok(v).ok /\ ~Err(v).ok
  BY DEF Ok, Err
<1>2. Bytes(text) \in Nat /\ LabelMax \in Nat
  BY BytesAreBounded, NameLimits
<1>3. ~(Bytes(text) > LabelMax)
  BY <1>1 DEF LabelValue
<1>4. Bytes(text) <= LabelMax
  BY <1>2, <1>3
<1>5. IsAscii(text)
  BY <1>1, <1>3, <1>4 DEF LabelValue
<1>6. LabelValue(text) = IF LABEL_VALUE_REGEX(text) THEN Ok(text) ELSE Err("ValueInvalid")
  BY <1>3, <1>5 DEF LabelValue
<1>7. QED
  BY <1>1, <1>3, <1>5, <1>6

\* What is accepted as the name of a cluster.
LEMMA ClusterNameIs ==
  ASSUME NEW text \in Seq(Characters), from_str("ClusterName", text).ok
  PROVE  /\ Rfc1035Label(text) /\ Rfc1123Label(text) /\ Len(text) \in Nat
         /\ Len(text) > 0 /\ Len(text) <= ClusterNameMax /\ LabelValue(text) = Ok(text)
<1>1. "ClusterName" \in TypeNames
  BY TypeNamesAre
<1>2. PICK x \in Attributes : x = Attribute("max_length", ClusterNameMax) /\ x.kind = "max_length"
                             /\ x.value = ClusterNameMax
  BY AttributesAre, NameLimits
<1>3. PICK y \in Attributes : y = Is("is_rfc_1035_label_name") /\ y.kind = "is_rfc_1035_label_name"
  BY AttributesAre
<1>4. PICK z \in Attributes : z = Is("is_valid_label_value") /\ z.kind = "is_valid_label_value"
  BY AttributesAre
<1>5. AttributesOf("ClusterName") = <<x, y, z>>
  BY <1>2, <1>3, <1>4, OperatorNameTypesAre
<1>6. /\ Len(AttributesOf("ClusterName")) = 3 /\ AttributesOf("ClusterName")[1] = x
      /\ AttributesOf("ClusterName")[2] = y /\ AttributesOf("ClusterName")[3] = z
  BY <1>5, ShortLists
<1>7. Holds(x, "ClusterName", text) /\ Holds(y, "ClusterName", text) /\ Holds(z, "ClusterName", text)
  BY <1>1, <1>6, AcceptedWhenAllHold
<1>8. UpperBound(x) = ClusterNameMax
  BY <1>2 DEF UpperBound
<1>9. MAX_LENGTH("ClusterName") <= ClusterNameMax /\ MAX_LENGTH("ClusterName") \in Nat
  BY <1>1, <1>6, <1>8, LengthsAre
<1>10. Bytes(text) <= MAX_LENGTH("ClusterName")
  BY <1>2, <1>7 DEF Holds
<1>11. Rfc1035Label(text)
  BY <1>3, <1>7 DEF Holds, is_lowercase_rfc_1035_label, validate_all
<1>12. LabelValue(text).ok
  BY <1>4, <1>7 DEF Holds
<1>13. Rfc1123Label(text)
  BY <1>11, LabelIs
<1>14. Len(text) \in Nat /\ Len(text) > 0 /\ Bytes(text) = Len(text)
  BY <1>13, LabelsAreUsable
<1>15. QED
  BY <1>9, <1>10, <1>11, <1>12, <1>13, <1>14, LabelValueIs, NameLimits

\* What is accepted as the name of a role or of a role group.
LEMMA RoleNameIs ==
  ASSUME NEW text \in Seq(Characters), NEW type \in {"RoleName", "RoleGroupName"},
         from_str(type, text).ok
  PROVE  Rfc1123Label(text) /\ LabelValue(text) = Ok(text)
<1>1. type \in TypeNames
  BY TypeNamesAre
<1>2. PICK y \in Attributes : y = Is("is_rfc_1123_label_name") /\ y.kind = "is_rfc_1123_label_name"
  BY AttributesAre
<1>3. PICK z \in Attributes : z = Is("is_valid_label_value") /\ z.kind = "is_valid_label_value"
  BY AttributesAre
<1>4. AttributesOf(type) = <<y, z>>
  BY <1>2, <1>3, OperatorNameTypesAre
<1>5. Len(AttributesOf(type)) = 2 /\ AttributesOf(type)[1] = y /\ AttributesOf(type)[2] = z
  BY <1>4, ShortLists
<1>6. Holds(y, type, text) /\ Holds(z, type, text)
  <2>1. \A i \in 1..2 : Holds(AttributesOf(type)[i], type, text)
    BY <1>1, <1>5, AcceptedWhenAllHold
  <2>2. QED
    BY <1>5, <2>1
<1>7. Rfc1123Label(text)
  BY <1>2, <1>6 DEF Holds, is_lowercase_rfc_1123_label, validate_all
<1>8. LabelValue(text).ok
  BY <1>3, <1>6 DEF Holds
<1>9. QED
  BY <1>7, <1>8, LabelValueIs

\* A hash is a text of letters and digits.
LEMMA HashIs ==
  ASSUME NEW n \in Nat \ {0}, NEW hash \in Hash(n)
  PROVE  /\ hash \in Seq(Characters) /\ Len(hash) = n /\ \A i \in 1..n : hash[i] \in Lower
         /\ <<"-">> \o hash \in Seq(Characters) /\ Len(<<"-">> \o hash) = n + 1
         /\ (<<"-">> \o hash)[1] = "-"
         /\ \A i \in 2..(n + 1) : (<<"-">> \o hash)[i] \in Lower
<1>1. Lower \subseteq Characters /\ "-" \in Characters
  BY DEF Lower, Characters
<1>2. hash \in [1..n -> Lower]
  BY DEF Hash
<1>3. hash \in [1..n -> Characters] /\ \A i \in 1..n : hash[i] \in Lower
  BY <1>1, <1>2
<1>4. hash \in Seq(Characters) /\ Len(hash) = n
  BY <1>3
<1>5. PICK d \in Seq(Characters) : d = <<"-">> /\ Len(d) = 1 /\ d[1] = "-"
  BY <1>1, OneCharacter
<1>6. /\ d \o hash \in Seq(Characters) /\ Len(d \o hash) = 1 + n
      /\ \A i \in 1..1 : (d \o hash)[i] = d[i]
      /\ \A i \in 2..(1 + n) : (d \o hash)[i] = hash[i - 1]
  BY <1>4, <1>5, TextAfterText
<1>7. \A i \in 2..(n + 1) : (d \o hash)[i] \in Lower
  <2>1. \A i \in 2..(n + 1) : i - 1 \in 1..n /\ i \in 2..(1 + n)
    OBVIOUS
  <2>2. QED
    BY <1>3, <1>6, <2>1
<1>8. (d \o hash)[1] = "-" /\ Len(d \o hash) = n + 1
  BY <1>5, <1>6
<1>9. QED
  BY <1>3, <1>4, <1>5, <1>6, <1>7, <1>8

\* A text that is too long is cut and ends with the hash.
LEMMA ShortenedIs ==
  ASSUME NEW original \in Seq(Characters), IsAscii(original), NEW max \in Nat,
         NEW n \in Nat \ {0}, NEW hash \in Hash(n), n + 2 <= max
  PROVE  LET e == ensure_max_string_length(original, max, hash)
         IN  /\ Bytes(original) <= max => e = original
             /\ ~(Bytes(original) <= max) =>
                  /\ max - n - 1 \in 1..Len(original)
                  /\ \/ e = SubSeq(original, 1, max - n - 1) \o hash
                     \/ e = SubSeq(original, 1, max - n - 1) \o (<<"-">> \o hash)
<1> DEFINE name == truncate_at_char_boundary(original, max - Len(hash))
           kept == Front(name)
           e == ensure_max_string_length(original, max, hash)
<1>1. /\ hash \in Seq(Characters) /\ Len(hash) = n
      /\ <<"-">> \o hash \in Seq(Characters)
  BY HashIs
<1>2. Bytes(original) = Len(original) /\ Len(original) \in Nat
  BY BytesAreBounded
<1>3. CASE Bytes(original) <= max
  <2>1. ~(Bytes(original) > max)
    BY <1>2, <1>3
  <2>2. e = original
    BY <1>3, <2>1 DEF ensure_max_string_length
  <2>3. QED
    BY <1>3, <2>2
<1>4. CASE ~(Bytes(original) <= max)
  <2> DEFINE m == max - n
  <2>1. m \in Nat /\ m >= 2 /\ m - 1 = max - n - 1 /\ max - Len(hash) = m
    BY <1>1
  <2>2. ~(Len(original) <= m) /\ m - 1 \in 1..Len(original) /\ m \in 0..Len(original)
    BY <1>2, <1>4, <2>1
  <2> HIDE DEF m
  <2>3. name = truncate_at_char_boundary(original, m)
    BY <2>1
  <2>4. Len(name) = m /\ name = SubSeq(original, 1, m)
    BY <2>1, <2>2, <2>3, TruncateIs
  <2>5. name \in Seq(Characters) /\ \A i \in 1..m : name[i] = original[i]
    BY <2>2, <2>4, BytesOfStart
  <2>6. /\ kept \in Seq(Characters) /\ Len(kept) = m - 1 /\ \A i \in 1..(m - 1) : kept[i] = name[i]
    <3>1. PICK x \in Seq(Characters) : x = name
      BY <2>5
    <3>2. Len(x) = m /\ Len(x) > 0
      BY <2>1, <2>4, <3>1
    <3>3. /\ Front(x) \in Seq(Characters) /\ Len(Front(x)) = Len(x) - 1
          /\ \A i \in 1..(Len(x) - 1) : Front(x)[i] = x[i]
      BY <3>2, FrontAndLast
    <3> HIDE DEF name
    <3>4. kept = Front(x)
      BY <3>1
    <3> HIDE DEF kept
    <3>5. QED
      BY <3>1, <3>2, <3>3, <3>4
  <2>7. kept = SubSeq(original, 1, m - 1)
    <3> DEFINE s == SubSeq(original, 1, m - 1)
    <3>1. m - 1 \in 0..Len(original)
      BY <2>2
    <3>2. s \in Seq(Characters) /\ Len(s) = m - 1 /\ \A i \in 1..(m - 1) : s[i] = original[i]
      BY <3>1, BytesOfStart
    <3> HIDE DEF s, kept, name
    <3>3. \A i \in 1..(m - 1) : i \in 1..m
      BY <2>1
    <3>4. \A i \in 1..Len(kept) : kept[i] = s[i]
      BY <2>5, <2>6, <3>2, <3>3
    <3>5. kept = s
      BY <2>6, <3>2, <3>4, SeqEqual
    <3>6. QED
      BY <3>5 DEF s
  <2>8. \/ e = kept \o <<"-">> \o hash
        \/ e = kept \o hash
    <3>1. ~(Len(name) <= 1)
      BY <2>1, <2>4
    <3> HIDE DEF name, kept
    <3>2. e = IF Last(kept) # "-" \/ Last(name) = "-" THEN kept \o <<"-">> \o hash
              ELSE kept \o hash
      BY <1>4, <3>1 DEF ensure_max_string_length, name, kept
    <3>3. QED
      BY <3>2
  <2> HIDE DEF kept
  <2>9. kept \o <<"-">> \o hash = kept \o (<<"-">> \o hash)
    <3>1. PICK d \in Seq(Characters) : d = <<"-">>
      <4>1. "-" \in Characters
        BY DEF Characters
      <4>2. QED
        BY <4>1, OneCharacter
    <3>2. PICK x \in Seq(Characters) : x = kept
      BY <2>6
    <3>3. PICK y \in Seq(Characters) : y = hash
      BY <1>1
    <3>4. (x \o d) \o y = x \o (d \o y)
      BY TextsAssociate, Zenon
    <3>5. QED
      BY <3>1, <3>2, <3>3, <3>4, Zenon
  <2>10. e = kept \o hash \/ e = kept \o (<<"-">> \o hash)
    BY <2>8, <2>9, Zenon
  <2> HIDE DEF e
  <2>11. \/ e = SubSeq(original, 1, max - n - 1) \o hash
         \/ e = SubSeq(original, 1, max - n - 1) \o (<<"-">> \o hash)
    BY <2>1, <2>7, <2>10, Zenon
  <2>12. max - n - 1 \in 1..Len(original)
    BY <2>1, <2>2
  <2>13. QED
    BY <1>4, <2>11, <2>12, Zenon DEF e
<1>5. QED
  BY <1>3, <1>4

\* A label that is shortened is a label that starts like it.
LEMMA ShortenedLabelIs ==
  ASSUME NEW original \in Seq(Characters), Rfc1123Label(original), NEW max \in Nat,
         NEW n \in Nat \ {0}, NEW hash \in Hash(n), n + 2 <= max
  PROVE  LET e == ensure_max_string_length(original, max, hash)
         IN  /\ e \in Seq(Characters) /\ Rfc1123Label(e) /\ Len(e) <= max
             /\ e[1] = original[1]
             /\ \A k \in 0..Len(original) :
                  k <= max - n - 1 => k <= Len(e) /\ \A i \in 1..k : e[i] = original[i]
             /\ Len(original) <= max => e = original
<1> DEFINE e == ensure_max_string_length(original, max, hash)
<1>1. /\ IsAscii(original) /\ Bytes(original) = Len(original) /\ Len(original) \in Nat
      /\ Len(original) > 0
  BY LabelsAreUsable
<1>2. CASE Bytes(original) <= max
  <2>1. e = original
    BY <1>1, <1>2, ShortenedIs
  <2> HIDE DEF e
  <2>2. QED
    BY <1>1, <1>2, <2>1 DEF e
<1>3. CASE ~(Bytes(original) <= max)
  <2>1. PICK m \in Nat : m = max - n - 1 /\ m >= 1
    <3>1. max - n - 1 \in Nat /\ max - n - 1 >= 1
      OBVIOUS
    <3>2. QED
      BY <3>1
  <2>2. m \in 1..Len(original) /\ \E tail \in {hash, <<"-">> \o hash} : e = SubSeq(original, 1, m) \o tail
    <3>1. /\ max - n - 1 \in 1..Len(original)
          /\ \/ e = SubSeq(original, 1, max - n - 1) \o hash
             \/ e = SubSeq(original, 1, max - n - 1) \o (<<"-">> \o hash)
      BY <1>1, <1>3, ShortenedIs, Zenon
    <3> HIDE DEF e
    <3>2. m \in 1..Len(original)
      BY <2>1, <3>1
    <3>3. e = SubSeq(original, 1, m) \o hash \/ e = SubSeq(original, 1, m) \o (<<"-">> \o hash)
      BY <2>1, <3>1, Zenon
    <3>4. QED
      BY <3>2, <3>3, Zenon
  <2>3. PICK tail \in {hash, <<"-">> \o hash} : e = SubSeq(original, 1, m) \o tail
    BY <2>2
  <2>4. PICK s \in Seq(Characters) : s = SubSeq(original, 1, m) /\ Len(s) = m /\ \A i \in 1..m : s[i] = original[i]
    <3>1. m \in 0..Len(original)
      BY <2>1, <2>2
    <3>2. QED
      BY <3>1, BytesOfStart
  <2>5. /\ tail \in Seq(Characters) /\ Len(tail) \in Nat /\ Len(tail) > 0 /\ Len(tail) <= n + 1
        /\ tail[Len(tail)] \in Lower
        /\ \A i \in 1..Len(tail) : tail[i] \in Lower \cup {"-"}
    <3>1. CASE tail = hash
      BY <3>1, HashIs
    <3>2. CASE tail = <<"-">> \o hash
      <4>1. /\ tail \in Seq(Characters) /\ Len(tail) = n + 1 /\ tail[1] = "-"
            /\ \A i \in 2..(n + 1) : tail[i] \in Lower
        BY <3>2, HashIs
      <4>2. \A i \in 1..(n + 1) : i = 1 \/ i \in 2..(n + 1)
        OBVIOUS
      <4>3. n + 1 \in 2..(n + 1)
        OBVIOUS
      <4>4. QED
        BY <4>1, <4>2, <4>3
    <3>3. QED
      BY <3>1, <3>2
  <2>6. e = s \o tail
    BY <2>3, <2>4
  <2> HIDE DEF e
  <2>7. /\ e \in Seq(Characters) /\ Len(e) = m + Len(tail)
        /\ \A i \in 1..m : e[i] = s[i]
        /\ \A i \in (m + 1)..(m + Len(tail)) : e[i] = tail[i - m]
    BY <2>4, <2>5, <2>6, TextAfterText
  <2>8. /\ original[1] \in Lower /\ \A i \in 1..Len(original) : original[i] \in Lower \cup {"-"}
    BY LabelIs
  <2>9. ASSUME NEW i \in 1..Len(e) PROVE e[i] \in Lower \cup {"-"}
    <3>1. CASE i \in 1..m
      <4>1. i \in 1..Len(original)
        BY <2>2, <3>1
      <4>2. QED
        BY <2>4, <2>7, <2>8, <3>1, <4>1
    <3>2. CASE i \notin 1..m
      <4>1. i \in (m + 1)..(m + Len(tail)) /\ i - m \in 1..Len(tail)
        BY <2>5, <2>7, <3>2
      <4>2. QED
        BY <2>5, <2>7, <4>1
    <3>3. QED
      BY <3>1, <3>2
  <2>10. e[Len(e)] \in Lower
    <3>1. Len(e) \in (m + 1)..(m + Len(tail)) /\ Len(e) - m = Len(tail)
      BY <2>5, <2>7
    <3>2. QED
      BY <2>5, <2>7, <3>1
  <2>11. e[1] = original[1] /\ e # <<>>
    <3>1. 1 \in 1..m /\ Len(e) > 0
      BY <2>1, <2>5, <2>7
    <3>2. QED
      BY <2>4, <2>7, <3>1, EmptyText
  <2>12. Rfc1123Label(e)
    BY <2>7, <2>8, <2>9, <2>10, <2>11, LabelIs
  <2>13. Len(e) <= max
    BY <2>1, <2>5, <2>7
  <2>14. ASSUME NEW k \in 0..Len(original), k <= max - n - 1
         PROVE  k <= Len(e) /\ \A i \in 1..k : e[i] = original[i]
    <3>1. k <= m /\ \A i \in 1..k : i \in 1..m
      BY <2>1, <2>14
    <3>2. k <= Len(e)
      BY <2>5, <2>7, <3>1
    <3>3. QED
      BY <2>4, <2>7, <3>1, <3>2
  <2>15. ~(Len(original) <= max)
    BY <1>1, <1>3
  <2>16. QED
    BY <2>7, <2>11, <2>12, <2>13, <2>14, <2>15 DEF e
<1>4. QED
  BY <1>2, <1>3

\* The types of a role group's objects accept the labels RFC 1035 describes.
LEMMA ObjectTypesAcceptLabels ==
  ASSUME NEW text \in Seq(Characters), Rfc1035Label(text), Len(text) <= LabelMax
  PROVE  /\ \A type \in {"ConfigMapName", "DaemonSetName", "DeploymentName", "ListenerName",
                        "ServiceName"} : from_str(type, text) = Ok(text)
         /\ Len(text) <= QualifiedMax =>
              \A type \in {"StatefulSetName", "QualifiedRoleGroupName"} : from_str(type, text) = Ok(text)
<1>1. Rfc1123Label(text) /\ Len(text) \in Nat
  BY LabelIs
<1>2. PICK w \in Attributes : w = Is("is_rfc_1035_label_name") /\ w.kind = "is_rfc_1035_label_name"
  BY AttributesAre
<1>3. PICK x \in Attributes : x = Is("is_rfc_1123_label_name") /\ x.kind = "is_rfc_1123_label_name"
  BY AttributesAre
<1>4. PICK y \in Attributes : /\ y = Is("is_rfc_1123_dns_subdomain_name")
                             /\ y.kind = "is_rfc_1123_dns_subdomain_name"
  BY AttributesAre
<1>5. PICK z \in Attributes : z = Is("is_valid_label_value") /\ z.kind = "is_valid_label_value"
  BY AttributesAre
<1>6. ASSUME NEW type \in {"ConfigMapName", "DaemonSetName", "ListenerName"}
      PROVE  from_str(type, text) = Ok(text)
  <2>1. type \in TypeNames
    BY TypeNamesAre
  <2>2. AttributesOf(type) = <<y>>
    BY <1>4, NameTypesAre
  <2>3. Len(AttributesOf(type)) = 1 /\ AttributesOf(type)[1] = y
    BY <2>2, ShortLists
  <2>4. QED
    BY <1>1, <1>4, <2>1, <2>3, TypeAcceptsLabel
<1>7. from_str("DeploymentName", text) = Ok(text)
  <2>1. "DeploymentName" \in TypeNames
    BY TypeNamesAre
  <2>2. AttributesOf("DeploymentName") = <<x>>
    BY <1>3, NameTypesAre
  <2>3. Len(AttributesOf("DeploymentName")) = 1 /\ AttributesOf("DeploymentName")[1] = x
    BY <2>2, ShortLists
  <2>4. QED
    BY <1>1, <1>3, <2>1, <2>3, TypeAcceptsLabel
<1>8. from_str("ServiceName", text) = Ok(text)
  <2>1. "ServiceName" \in TypeNames
    BY TypeNamesAre
  <2>2. AttributesOf("ServiceName") = <<w, z>>
    BY <1>2, <1>5, NameTypesAre
  <2>3. /\ Len(AttributesOf("ServiceName")) = 2 /\ AttributesOf("ServiceName")[1] = w
        /\ AttributesOf("ServiceName")[2] = z
    BY <2>2, ShortLists
  <2>4. \A i \in 1..2 : i = 1 \/ i = 2
    OBVIOUS
  <2>5. QED
    BY <1>1, <1>2, <1>5, <2>1, <2>3, <2>4, TypeAcceptsLabel
<1>9. \A i \in 1..3 : i = 1 \/ i = 2 \/ i = 3
  OBVIOUS
<1>10. ASSUME Len(text) <= QualifiedMax PROVE from_str("StatefulSetName", text) = Ok(text)
  <2>1. "StatefulSetName" \in TypeNames
    BY TypeNamesAre
  <2>2. PICK v \in Attributes : /\ v = Attribute("max_length", LabelMax - 1 - RevisionDigits)
                               /\ v.kind = "max_length" /\ v.value = LabelMax - 1 - RevisionDigits
    BY AttributesAre, LabelRoom
  <2>3. AttributesOf("StatefulSetName") = <<v, x, z>>
    BY <1>3, <1>5, <2>2, NameTypesAre
  <2>4. /\ Len(AttributesOf("StatefulSetName")) = 3 /\ AttributesOf("StatefulSetName")[1] = v
        /\ AttributesOf("StatefulSetName")[2] = x /\ AttributesOf("StatefulSetName")[3] = z
    BY <2>3, ShortLists
  <2>5. Len(text) <= v.value
    BY <1>1, <1>10, <2>2, LabelRoom, NameLimits
  <2>6. QED
    BY <1>1, <1>3, <1>5, <1>9, <2>1, <2>2, <2>4, <2>5, TypeAcceptsLabel
<1>11. ASSUME Len(text) <= QualifiedMax PROVE from_str("QualifiedRoleGroupName", text) = Ok(text)
  <2>1. "QualifiedRoleGroupName" \in TypeNames
    BY TypeNamesAre
  <2>2. PICK v \in Attributes : /\ v = Attribute("max_length", QualifiedMax)
                               /\ v.kind = "max_length" /\ v.value = QualifiedMax
    BY AttributesAre, NameLimits
  <2>3. AttributesOf("QualifiedRoleGroupName") = <<v, w, z>>
    BY <1>2, <1>5, <2>2, OperatorNameTypesAre DEF QualifiedRoleGroupName
  <2>4. /\ Len(AttributesOf("QualifiedRoleGroupName")) = 3
        /\ AttributesOf("QualifiedRoleGroupName")[1] = v
        /\ AttributesOf("QualifiedRoleGroupName")[2] = w
        /\ AttributesOf("QualifiedRoleGroupName")[3] = z
    BY <2>3, ShortLists
  <2>5. Len(text) <= v.value
    BY <1>11, <2>2
  <2>6. QED
    BY <1>1, <1>2, <1>5, <1>9, <2>1, <2>2, <2>4, <2>5, TypeAcceptsLabel
<1>12. QED
  BY <1>6, <1>7, <1>8, <1>10, <1>11

\* What follows a name.
LEMMA SuffixIs ==
  ASSUME NEW text, IsNameSuffix(text)
  PROVE  /\ text \in Seq(Characters) /\ Len(text) \in Nat /\ Len(text) > 0
         /\ \A i \in 1..Len(text) : text[i] \in Lower \cup {"-"}
         /\ text # <<>> /\ text[Len(text)] \in Lower
<1>1. text \in Seq(Lower \cup {"-"}) /\ text # <<>> /\ Last(text) \in Lower
  BY DEF IsNameSuffix
<1>2. Lower \cup {"-"} \subseteq Characters
  BY DEF Lower, Characters
<1>3. text \in Seq(Characters)
  BY <1>1, <1>2, SeqMonotonic
<1>4. Len(text) \in Nat /\ Len(text) > 0
  BY <1>1, <1>3, EmptyText
<1>5. QED
  BY <1>1, <1>3, <1>4 DEF Last

\* The suffixes and the names there are.
LEMMA NamesAre ==
  /\ \A text \in ParseTexts \cup KeyTexts \cup KeyPrefixes \cup ClusterNames \cup RoleNames
       \cup RoleGroupNames \cup ProductNames : text \in Seq(Characters)
  /\ \A text \in ClusterNames : from_str("ClusterName", text).ok
  /\ \A text \in RoleNames : from_str("RoleName", text).ok
  /\ \A text \in RoleGroupNames : from_str("RoleGroupName", text).ok
  /\ \A text \in ProductNames : from_str("ProductName", text).ok
  /\ \A text \in KeyPrefixes : KeyPrefix(text).ok
  /\ \A text \in ParseTexts : Len(text) <= NoLimit
  /\ \A text \in {Headless, Metrics, ServiceAccountSuffix, RoleBindingSuffix, ClusterRoleSuffix} :
       IsNameSuffix(text)
BY NameInputs

\* Two labels with a hyphen between them are a label.
LEMMA TwoLabels ==
  ASSUME NEW x \in Seq(Characters), Rfc1035Label(x), NEW y \in Seq(Characters), Rfc1123Label(y)
  PROVE  \E z \in Seq(Characters) :
           /\ z = x \o <<"-">> \o y /\ Rfc1035Label(z) /\ Len(x) <= Len(z)
           /\ \A i \in 1..Len(x) : z[i] = x[i]
<1>1. PICK d \in Seq(Characters) : d = <<"-">> /\ Len(d) = 1 /\ d[1] = "-"
  <2>1. "-" \in Characters
    BY DEF Characters
  <2>2. QED
    BY <2>1, OneCharacter
<1>2. (x \o d) \o y = x \o (d \o y)
  BY TextsAssociate, Zenon
<1>3. PICK t \in Seq(Characters) : t = d \o y
  BY ConcatProperties
<1>4. /\ Len(t) = 1 + Len(y) /\ Len(y) \in Nat /\ t[1] = "-"
      /\ \A i \in 2..(1 + Len(y)) : t[i] = y[i - 1]
  BY <1>1, <1>3, TextAfterText
<1>5. y # <<>> /\ y[Len(y)] \in Lower /\ \A i \in 1..Len(y) : y[i] \in Lower \cup {"-"}
  BY LabelIs
<1>6. Len(y) > 0
  BY <1>4, <1>5, EmptyText
<1>7. \A i \in 1..Len(t) : t[i] \in Lower \cup {"-"}
  <2>1. \A i \in 1..(1 + Len(y)) : i = 1 \/ (i \in 2..(1 + Len(y)) /\ i - 1 \in 1..Len(y))
    BY <1>4
  <2>2. QED
    BY <1>4, <1>5, <2>1
<1>8. t[Len(t)] \in Lower
  <2>1. Len(t) \in 2..(1 + Len(y)) /\ Len(t) - 1 = Len(y)
    BY <1>4, <1>6
  <2>2. QED
    BY <1>4, <1>5, <2>1
<1>9. Rfc1123Label(x) /\ x[1] = "a"
  BY LabelIs
<1>10. PICK z \in Seq(Characters) : z = x \o t
  BY ConcatProperties
<1>11. Rfc1123Label(z) /\ z[1] = x[1]
  BY <1>7, <1>8, <1>9, <1>10, LabelAndSuffix
<1>12. Rfc1035Label(z)
  BY <1>9, <1>11, LabelIs
<1>13. Len(z) = Len(x) + Len(t) /\ Len(x) \in Nat /\ \A i \in 1..Len(x) : z[i] = x[i]
  BY <1>10, TextAfterText
<1>15. z = x \o <<"-">> \o y
  BY <1>1, <1>2, <1>3, <1>10, Zenon
<1>16. Len(x) <= Len(z)
  BY <1>4, <1>13
<1>17. QED
  BY <1>12, <1>13, <1>15, <1>16, Zenon

\* Three labels with hyphens between them are a label.
LEMMA FullNameIs ==
  ASSUME NEW a \in Seq(Characters), NEW b \in Seq(Characters), NEW c \in Seq(Characters),
         Rfc1035Label(a), Rfc1123Label(b), Rfc1123Label(c)
  PROVE  LET full == a \o <<"-">> \o b \o <<"-">> \o c
         IN  /\ full \in Seq(Characters) /\ Rfc1035Label(full)
             /\ Len(a) <= Len(full) /\ \A i \in 1..Len(a) : full[i] = a[i]
<1>3. PICK m \in Seq(Characters) : /\ m = a \o <<"-">> \o b /\ Rfc1035Label(m) /\ Len(a) <= Len(m)
                                  /\ \A i \in 1..Len(a) : m[i] = a[i]
  BY TwoLabels, Zenon
<1>4. PICK f \in Seq(Characters) : /\ f = m \o <<"-">> \o c /\ Rfc1035Label(f) /\ Len(m) <= Len(f)
                                  /\ \A i \in 1..Len(m) : f[i] = m[i]
  BY <1>3, TwoLabels, Zenon
<1>5. Len(a) <= Len(f) /\ \A i \in 1..Len(a) : f[i] = a[i]
  <2>1. Len(a) \in Nat /\ Len(m) \in Nat /\ Len(f) \in Nat
    OBVIOUS
  <2>2. \A i \in 1..Len(a) : i \in 1..Len(m)
    BY <1>3, <2>1
  <2>3. QED
    BY <1>3, <1>4, <2>1, <2>2
<1>6. f = a \o <<"-">> \o b \o <<"-">> \o c
  BY <1>3, <1>4, Zenon
<1>7. QED
  BY <1>4, <1>5, <1>6, Zenon

\* The names of a role group's objects.
LEMMA ResourceNamesAreValid ==
  ASSUME NEW cluster \in ClusterNames, NEW role \in RoleNames, NEW group \in RoleGroupNames,
         NEW hash \in Hash(HashLength)
  PROVE  LET r == [cluster |-> cluster, role |-> role, group |-> group]
             names == ResourceNames(r, hash)
             full == cluster \o <<"-">> \o role \o <<"-">> \o group
         IN  /\ \A kind \in DOMAIN names : names[kind].ok
             /\ SubSeq(names.qualified.value, 1, Len(cluster)) = cluster
             /\ Len(full) <= QualifiedMax => names.qualified = Ok(full)
<1> DEFINE r == [cluster |-> cluster, role |-> role, group |-> group]
           names == ResourceNames(r, hash)
           full == cluster \o <<"-">> \o role \o <<"-">> \o group
<1>1. /\ cluster \in Seq(Characters) /\ role \in Seq(Characters) /\ group \in Seq(Characters)
      /\ Rfc1035Label(cluster) /\ Len(cluster) \in Nat /\ Len(cluster) > 0
      /\ Len(cluster) <= ClusterNameMax /\ Rfc1123Label(role) /\ Rfc1123Label(group)
  BY NamesAre, ClusterNameIs, RoleNameIs
<1>2. PICK f \in Seq(Characters) : /\ f = full /\ Rfc1035Label(f) /\ Len(cluster) <= Len(f)
                                  /\ \A i \in 1..Len(cluster) : f[i] = cluster[i]
  <2>1. /\ full \in Seq(Characters) /\ Rfc1035Label(full) /\ Len(cluster) <= Len(full)
        /\ \A i \in 1..Len(cluster) : full[i] = cluster[i]
    BY <1>1, FullNameIs, Zenon
  <2> HIDE DEF full
  <2>2. QED
    BY <2>1
<1> HIDE DEF full, names, r
<1>3. /\ QualifiedMax \in Nat /\ HashLength \in Nat \ {0} /\ HashLength + 2 <= QualifiedMax
      /\ Len(cluster) <= QualifiedMax - HashLength - 1 /\ QualifiedMax <= LabelMax
  BY <1>1, NameLimits, NameLengths
<1>4. Rfc1123Label(f) /\ f[1] = "a" /\ Len(f) \in Nat
  BY <1>2, LabelIs
<1> DEFINE e == ensure_max_string_length(f, QualifiedMax, hash)
<1>5. /\ e \in Seq(Characters) /\ Rfc1123Label(e) /\ Len(e) <= QualifiedMax
      /\ e[1] = f[1]
      /\ Len(f) <= QualifiedMax => e = f
      /\ \A k \in 0..Len(f) :
           k <= QualifiedMax - HashLength - 1 => k <= Len(e) /\ \A i \in 1..k : e[i] = f[i]
  BY <1>3, <1>4, ShortenedLabelIs
<1>6. names = LET qualified == from_str("QualifiedRoleGroupName", e)
                  typed(type, suffix) ==
                    IF qualified.ok THEN from_str(type, qualified.value \o suffix) ELSE qualified
              IN  [qualified |-> qualified,
                   config_map |-> typed("ConfigMapName", <<>>),
                   daemon_set |-> typed("DaemonSetName", <<>>),
                   deployment |-> typed("DeploymentName", <<>>),
                   stateful_set |-> typed("StatefulSetName", <<>>),
                   headless |-> typed("ServiceName", Headless),
                   metrics |-> typed("ServiceName", Metrics),
                   listener |-> typed("ListenerName", <<>>)]
  <2>1. ensure_max_string_length(cluster \o <<"-">> \o role \o <<"-">> \o group, QualifiedMax, hash) = e
    BY <1>2, Zenon DEF full
  <2>2. r.cluster = cluster /\ r.role = role /\ r.group = group
    BY DEF r
  <2> HIDE DEF e, r
  <2>3. qualified_role_group_name(r, hash) = from_str("QualifiedRoleGroupName", e)
    BY <2>1, <2>2, Zenon DEF qualified_role_group_name
  <2>4. QED
    BY <2>3, Zenon DEF ResourceNames, AndThen, names
<1> HIDE DEF e
<1>7. Rfc1035Label(e) /\ Len(e) \in Nat /\ Len(e) <= LabelMax
  <2>1. Rfc1035Label(e)
    BY <1>4, <1>5, LabelIs
  <2>2. Len(e) \in Nat
    BY <1>5
  <2>3. QED
    BY <1>3, <1>5, <2>1, <2>2, NameLimits
<1>8. from_str("QualifiedRoleGroupName", e) = Ok(e) /\ from_str("StatefulSetName", e) = Ok(e)
      /\ \A type \in {"ConfigMapName", "DaemonSetName", "DeploymentName", "ListenerName"} :
           from_str(type, e) = Ok(e)
  BY <1>5, <1>7, ObjectTypesAcceptLabels
<1>9. ASSUME NEW suffix \in {Headless, Metrics} PROVE from_str("ServiceName", e \o suffix).ok
  <2>1. /\ suffix \in Seq(Characters) /\ Len(suffix) \in Nat /\ Len(suffix) > 0
        /\ \A i \in 1..Len(suffix) : suffix[i] \in Lower \cup {"-"}
        /\ suffix # <<>> /\ suffix[Len(suffix)] \in Lower
    BY NamesAre, SuffixIs
  <2>2. QualifiedMax + Len(suffix) <= LabelMax
    BY NameLengths
  <2>3. PICK s \in Seq(Characters) : /\ s = e \o suffix /\ Len(s) = Len(e) + Len(suffix)
                                    /\ Rfc1123Label(s) /\ s[1] = e[1]
    BY <1>5, <2>1, LabelAndSuffix
  <2>4. Len(s) <= LabelMax
    BY <1>3, <1>5, <1>7, <2>1, <2>2, <2>3, NameLimits
  <2>5. Rfc1035Label(s)
    BY <1>4, <1>5, <2>3, LabelIs
  <2>6. from_str("ServiceName", s) = Ok(s)
    BY <2>4, <2>5, ObjectTypesAcceptLabels
  <2>7. QED
    BY <2>3, <2>6 DEF Ok
<1>10. e \o <<>> = e
  BY <1>5, ConcatEmptySeq
<1>11. Ok(e).ok /\ Ok(e).value = e
  BY DEF Ok
<1>12. names = [qualified |-> Ok(e), config_map |-> Ok(e), daemon_set |-> Ok(e),
                deployment |-> Ok(e), stateful_set |-> Ok(e),
                headless |-> from_str("ServiceName", e \o Headless),
                metrics |-> from_str("ServiceName", e \o Metrics), listener |-> Ok(e)]
  <2>1. /\ from_str("ConfigMapName", e \o <<>>) = Ok(e) /\ from_str("DaemonSetName", e \o <<>>) = Ok(e)
        /\ from_str("DeploymentName", e \o <<>>) = Ok(e) /\ from_str("ListenerName", e \o <<>>) = Ok(e)
        /\ from_str("StatefulSetName", e \o <<>>) = Ok(e)
    BY <1>8, <1>10
  <2>2. QED
    BY <1>6, <1>8, <1>11, <2>1, Zenon
<1>13. \A kind \in DOMAIN names : names[kind].ok
  <2>1. PICK h : h = from_str("ServiceName", e \o Headless) /\ h.ok
    BY <1>9
  <2>2. PICK m : m = from_str("ServiceName", e \o Metrics) /\ m.ok
    BY <1>9
  <2>3. names = [qualified |-> Ok(e), config_map |-> Ok(e), daemon_set |-> Ok(e),
                 deployment |-> Ok(e), stateful_set |-> Ok(e), headless |-> h,
                 metrics |-> m, listener |-> Ok(e)]
    BY <1>12, <2>1, <2>2, Zenon
  <2>4. QED
    BY <1>11, <2>1, <2>2, <2>3
<1>14. names.qualified = Ok(e)
  BY <1>12
<1>15. SubSeq(e, 1, Len(cluster)) = cluster
  <2>1. PICK n \in Nat : n = Len(cluster)
    BY <1>1
  <2>2. n \in 0..Len(f) /\ n <= QualifiedMax - HashLength - 1
    BY <1>1, <1>2, <1>3, <1>4, <2>1
  <2>3. n <= Len(e) /\ \A i \in 1..n : e[i] = f[i]
    BY <1>5, <2>2
  <2>4. n \in 0..Len(e)
    BY <1>7, <2>1, <2>3
  <2>5. PICK s \in Seq(Characters) : /\ s = SubSeq(e, 1, n) /\ Len(s) = n
                                    /\ \A i \in 1..n : s[i] = e[i]
    BY <1>5, <2>4, BytesOfStart
  <2>6. \A i \in 1..n : s[i] = cluster[i]
    BY <1>2, <2>1, <2>3, <2>5
  <2>7. s = cluster
    BY <1>1, <2>1, <2>5, <2>6, SeqEqual
  <2>8. QED
    BY <2>1, <2>5, <2>7
<1>16. Len(full) <= QualifiedMax => names.qualified = Ok(full)
  BY <1>2, <1>5, <1>14, Zenon
<1>17. SubSeq(names.qualified.value, 1, Len(cluster)) = cluster
  BY <1>11, <1>14, <1>15, Zenon
<1>18. QED
  BY <1>13, <1>16, <1>17, Zenon DEF names, full, r

(***************************************************************************)
(* Keys                                                                    *)
(***************************************************************************)
\* The places of a text.
LEMMA PlacesAre ==
  ASSUME NEW text \in Seq(Characters)
  PROVE  /\ Len(text) \in Nat /\ DOMAIN text = 1..Len(text)
         /\ text # <<>> => Len(text) > 0 /\ 1 \in 1..Len(text) /\ Len(text) \in 1..Len(text)
         /\ text = <<>> => Len(text) = 0
<1>1. Len(text) \in Nat /\ DOMAIN text = 1..Len(text)
  OBVIOUS
<1>2. text # <<>> => Len(text) # 0
  BY EmptyText
<1>3. text = <<>> => Len(text) = 0
  OBVIOUS
<1>4. \A n \in Nat : n # 0 => n > 0 /\ 1 \in 1..n /\ n \in 1..n
  OBVIOUS
<1>5. QED
  BY <1>1, <1>2, <1>3, <1>4

\* The numbers up to a number.
LEMMA NumbersUpTo ==
  /\ \A n \in Nat : \A j \in 1..n : j \in Nat /\ 1 <= j /\ j <= n
  /\ \A l, n \in Nat : \A h \in 1..n : l \in 1..n /\ l <= 1 /\ n <= h => l = 1 /\ h = n
OBVIOUS

\* A text without spaces around it stays as it is.
LEMMA NothingToTrim ==
  ASSUME NEW text \in Seq(Characters), text # <<>>, text[1] # " ", text[Len(text)] # " "
  PROVE  trim(text) = text
<1> DEFINE keep == {i \in DOMAIN text : text[i] # " "}
           lo == CHOOSE i \in keep : \A j \in keep : i <= j
           hi == CHOOSE i \in keep : \A j \in keep : j <= i
<1>1. Len(text) \in Nat /\ Len(text) > 0 /\ DOMAIN text = 1..Len(text)
  BY PlacesAre
<1>2. 1 \in keep /\ Len(text) \in keep /\ keep \subseteq 1..Len(text)
  <2>1. 1 \in DOMAIN text /\ Len(text) \in DOMAIN text
    BY PlacesAre
  <2>2. keep \subseteq DOMAIN text
    OBVIOUS
  <2>3. 1 \in keep /\ Len(text) \in keep
    BY <2>1
  <2> HIDE DEF keep
  <2>4. QED
    BY <1>1, <2>2, <2>3
<1>3. trim(text) = IF keep = {} THEN <<>> ELSE SubSeq(text, lo, hi)
  BY DEF trim
<1> HIDE DEF keep
<1>4. lo \in keep /\ \A j \in keep : lo <= j
  <2>1. \A j \in keep : 1 <= j
    <3>1. \A j \in 1..Len(text) : 1 <= j
      BY NumbersUpTo, <1>1, Zenon
    <3>2. QED
      BY <1>2, <3>1
  <2>2. \E i \in keep : \A j \in keep : i <= j
    BY <1>2, <2>1
  <2>3. QED
    BY <2>2
<1>5. hi \in keep /\ \A j \in keep : j <= hi
  <2>1. \A j \in keep : j <= Len(text)
    <3>1. \A j \in 1..Len(text) : j <= Len(text)
      BY NumbersUpTo, <1>1, Zenon
    <3>2. QED
      BY <1>2, <3>1
  <2>2. \E i \in keep : \A j \in keep : j <= i
    BY <1>2, <2>1
  <2>3. QED
    BY <2>2
<1> HIDE DEF lo, hi
<1>6. lo = 1 /\ hi = Len(text)
  <2>1. lo <= 1 /\ lo \in 1..Len(text) /\ Len(text) <= hi /\ hi \in 1..Len(text)
    BY <1>2, <1>4, <1>5, Zenon
  <2>2. QED
    BY NumbersUpTo, <1>1, <2>1, Zenon
<1>7. SubSeq(text, 1, Len(text)) = text
  BY SubSeqFull
<1>8. QED
  BY <1>2, <1>3, <1>6, <1>7

\* What is left of a text that is trimmed is part of it.
LEMMA TrimmedIs ==
  ASSUME NEW text \in Seq(Characters)
  PROVE  trim(text) \in Seq(Characters)
<1> DEFINE keep == {i \in DOMAIN text : text[i] # " "}
           lo == CHOOSE i \in keep : \A j \in keep : i <= j
           hi == CHOOSE i \in keep : \A j \in keep : j <= i
<1>1. Len(text) \in Nat /\ DOMAIN text = 1..Len(text)
  OBVIOUS
<1>2. keep \subseteq 1..Len(text) /\ keep \subseteq Nat /\ \A j \in keep : j <= Len(text)
  <2>1. keep \subseteq 1..Len(text)
    BY <1>1
  <2>2. \A j \in 1..Len(text) : j \in Nat /\ j <= Len(text)
    BY NumbersUpTo, <1>1, Zenon
  <2> HIDE DEF keep
  <2>3. QED
    BY <2>1, <2>2
<1>3. trim(text) = IF keep = {} THEN <<>> ELSE SubSeq(text, lo, hi)
  BY DEF trim
<1> HIDE DEF keep
<1>4. CASE keep = {}
  BY <1>3, <1>4, EmptyText
<1>5. CASE keep # {}
  <2>1. \E i \in keep : \A j \in keep : i <= j
    BY <1>2, <1>5, LeastNumber
  <2>2. \E i \in keep : \A j \in keep : j <= i
    BY <1>1, <1>2, <1>5, GreatestNumber
  <2>3. lo \in keep /\ \A j \in keep : lo <= j
    BY <2>1
  <2>4. hi \in keep /\ \A j \in keep : j <= hi
    BY <2>2
  <2> HIDE DEF lo, hi
  <2>5. lo \in 1..Len(text) /\ hi \in 1..Len(text) /\ lo <= hi
    BY <1>2, <2>3, <2>4
  <2>6. lo \in 1..(Len(text) + 1) /\ hi \in 0..Len(text) /\ lo <= hi + 1
    BY <1>1, <2>5
  <2>7. SubSeq(text, lo, hi) \in Seq(Characters)
    BY <2>6, PartOfText
  <2>8. QED
    BY <1>3, <1>5, <2>7
<1>6. QED
  BY <1>4, <1>5

\* A part of a key that is accepted.
LEMMA KeyPartIs ==
  ASSUME NEW text \in Seq(Characters), NEW max \in Nat, NEW matches \in BOOLEAN
  PROVE  /\ KeyPart(text, max, matches).ok
              <=> text # <<>> /\ Bytes(text) <= max /\ IsAscii(text) /\ matches
         /\ KeyPart(text, max, matches).ok => KeyPart(text, max, matches) = Ok(text)
<1>1. \A v : Ok(v).ok /\ ~Err(v).ok
  BY DEF Ok, Err
<1>2. Bytes(text) \in Nat
  BY BytesAreBounded
<1>3. CASE text = <<>>
  BY <1>1, <1>3 DEF KeyPart
<1>4. CASE text # <<>> /\ Bytes(text) > max
  <2>1. ~(Bytes(text) <= max)
    BY <1>2, <1>4
  <2>2. KeyPart(text, max, matches) = Err("TooLong")
    BY <1>4, <2>1 DEF KeyPart
  <2>3. QED
    BY <1>1, <2>1, <2>2
<1>5. CASE text # <<>> /\ Bytes(text) <= max /\ ~IsAscii(text)
  <2>1. ~(Bytes(text) > max)
    BY <1>2, <1>5
  <2>2. KeyPart(text, max, matches) = Err("NotAscii")
    BY <1>5, <2>1 DEF KeyPart
  <2>3. QED
    BY <1>1, <1>5, <2>2
<1>6. CASE text # <<>> /\ Bytes(text) <= max /\ IsAscii(text)
  <2>1. ~(Bytes(text) > max)
    BY <1>2, <1>6
  <2>2. KeyPart(text, max, matches) = IF matches THEN Ok(text) ELSE Err("Invalid")
    BY <1>6, <2>1 DEF KeyPart
  <2>3. QED
    BY <1>1, <1>6, <2>2
<1>7. QED
  <2>1. Bytes(text) <= max \/ Bytes(text) > max
    BY <1>2
  <2>2. QED
    BY <1>3, <1>4, <1>5, <1>6, <2>1

\* The values of the names and prefixes of keys, and of a key.
Fits(key) == /\ Bytes(key.name) <= LabelMax /\ LabelValue(key.name).ok
             /\ key.prefix # None => Bytes(key.prefix) <= SubdomainMax

\* A name that is accepted is a label value.
LEMMA KeyNameIs ==
  ASSUME NEW text \in Seq(Characters)
  PROVE  /\ KeyName(text).ok
              <=> text # <<>> /\ Bytes(text) <= LabelMax /\ IsAscii(text) /\ LABEL_VALUE_REGEX(text)
         /\ KeyName(text).ok => KeyName(text) = Ok(text) /\ LabelValue(text).ok
<1>1. LABEL_VALUE_REGEX(text) \in BOOLEAN
  BY DEF LABEL_VALUE_REGEX, Framed
<1>2. Bytes(text) \in Nat /\ LabelMax \in Nat
  BY BytesAreBounded, NameLimits
<1>3. /\ KeyName(text).ok
           <=> text # <<>> /\ Bytes(text) <= LabelMax /\ IsAscii(text) /\ LABEL_VALUE_REGEX(text)
      /\ KeyName(text).ok => KeyName(text) = Ok(text)
  BY <1>1, <1>2, KeyPartIs DEF KeyName
<1>4. ASSUME KeyName(text).ok PROVE LabelValue(text).ok
  <2>1. Bytes(text) <= LabelMax /\ IsAscii(text) /\ LABEL_VALUE_REGEX(text)
    BY <1>3, <1>4
  <2>2. ~(Bytes(text) > LabelMax)
    BY <1>2, <2>1
  <2>3. LabelValue(text) = Ok(text)
    BY <2>1, <2>2 DEF LabelValue
  <2>4. QED
    BY <2>3 DEF Ok
<1>5. QED
  BY <1>3, <1>4

\* A key that is accepted fits.
LEMMA AcceptedKeysFit ==
  ASSUME NEW input \in Seq(Characters), key_from_str(input).ok
  PROVE  Fits(key_from_str(input).value)
<1> DEFINE parts == Split(trim(input), "/")
           prefix == IF Len(parts) = 2 THEN KeyPrefix(parts[1]) ELSE Ok(None)
           name == KeyName(Last(parts))
<1>1. \A v : Ok(v).ok /\ ~Err(v).ok /\ Ok(v).value = v
  BY DEF Ok, Err
<1>2. parts \in Seq(Seq(Characters)) /\ Len(parts) > 0 /\ Last(parts) \in Seq(Characters)
  BY TrimmedIs, SplitType
<1>3. key_from_str(input)
        = CASE trim(input) = <<>> -> Err("EmptyInput")
            [] trim(input) # <<>> /\ Len(parts) > 2 -> Err("NestedPrefix")
            [] OTHER -> IF ~prefix.ok THEN prefix
                        ELSE IF ~name.ok THEN name
                        ELSE Ok([prefix |-> prefix.value, name |-> name.value])
  BY DEF key_from_str
<1> HIDE DEF parts, prefix, name
<1>4. /\ prefix.ok /\ name.ok
      /\ key_from_str(input) = Ok([prefix |-> prefix.value, name |-> name.value])
  <2>1. trim(input) # <<>> /\ ~(trim(input) # <<>> /\ Len(parts) > 2)
    BY <1>1, <1>3
  <2>2. key_from_str(input) = IF ~prefix.ok THEN prefix
                              ELSE IF ~name.ok THEN name
                              ELSE Ok([prefix |-> prefix.value, name |-> name.value])
    BY <1>3, <2>1
  <2>3. QED
    BY <2>2
<1>5. /\ name = Ok(Last(parts)) /\ Bytes(Last(parts)) <= LabelMax /\ LabelValue(Last(parts)).ok
  BY <1>2, <1>4, KeyNameIs DEF name
<1>6. \/ prefix.value = None
      \/ Bytes(prefix.value) <= SubdomainMax
  <2>1. CASE Len(parts) = 2
    <3>1. prefix = KeyPrefix(parts[1]) /\ parts[1] \in Seq(Characters)
      <4>1. 1 \in DOMAIN parts
        BY <1>2, <2>1
      <4>2. parts[1] \in Seq(Characters)
        BY <1>2, <4>1
      <4>3. prefix = KeyPrefix(parts[1])
        BY <2>1, Zenon DEF prefix
      <4>4. QED
        BY <4>2, <4>3
    <3>2. KEY_PREFIX_REGEX(parts[1]) \in BOOLEAN
      BY DEF KEY_PREFIX_REGEX
    <3>3. prefix = Ok(parts[1]) /\ Bytes(parts[1]) <= SubdomainMax
      BY <1>4, <3>1, <3>2, KeyPartIs, NameLimits DEF KeyPrefix
    <3>4. QED
      BY <1>1, <3>3
  <2>2. CASE Len(parts) # 2
    BY <1>1, <2>2 DEF prefix
  <2>3. QED
    BY <2>1, <2>2
<1>7. PICK k : k = [prefix |-> prefix.value, name |-> name.value]
  OBVIOUS
<1>8. k.prefix = prefix.value /\ k.name = Last(parts)
  BY <1>1, <1>5, <1>7
<1>9. Fits(k)
  BY <1>5, <1>6, <1>8 DEF Fits
<1>10. QED
  BY <1>1, <1>4, <1>7, <1>9

\* A text that is shortened is a text.
LEMMA ShortenedType ==
  ASSUME NEW original \in Seq(Characters), NEW max \in Nat, NEW n \in Nat \ {0},
         NEW hash \in Hash(n), n + 2 <= max
  PROVE  ensure_max_string_length(original, max, hash) \in Seq(Characters)
<1> DEFINE name == truncate_at_char_boundary(original, max - Len(hash))
           kept == Front(name)
           e == ensure_max_string_length(original, max, hash)
<1>1. /\ hash \in Seq(Characters) /\ Len(hash) = n
      /\ <<"-">> \o hash \in Seq(Characters)
  BY HashIs
<1>2. max - Len(hash) \in Nat /\ Bytes(original) \in Nat
  BY <1>1, BytesAreBounded
<1>3. PICK d \in Seq(Characters) : d = <<"-">>
  <2>1. "-" \in Characters
    BY DEF Characters
  <2>2. QED
    BY <2>1, OneCharacter
<1>4. name \in Seq(Characters) /\ Len(name) \in Nat
  <2>1. Len(name) \in 0..Len(original) /\ name = SubSeq(original, 1, Len(name))
    BY <1>2, TruncateIs
  <2> HIDE DEF name
  <2>2. name \in Seq(Characters)
    BY <2>1, BytesOfStart
  <2>3. QED
    BY <2>2
<1>5. e = IF Bytes(original) <= max THEN original
          ELSE IF Len(name) <= 1 THEN hash
          ELSE IF Last(kept) # "-" \/ Last(name) = "-" THEN kept \o <<"-">> \o hash
               ELSE kept \o hash
  <2> HIDE DEF name
  <2>1. CASE Bytes(original) <= max
    <3>1. ~(Bytes(original) > max)
      BY <1>2, <2>1
    <3>2. e = original
      BY <2>1, <3>1 DEF ensure_max_string_length, name
    <3>3. QED
      BY <2>1, <3>2
  <2>2. CASE ~(Bytes(original) <= max) /\ Len(name) <= 1
    <3>1. Bytes(original) > max
      BY <1>2, <2>2
    <3>2. e = hash
      BY <2>2, <3>1 DEF ensure_max_string_length, name
    <3>3. QED
      BY <2>2, <3>2
  <2>3. CASE ~(Bytes(original) <= max) /\ ~(Len(name) <= 1)
    <3> HIDE DEF kept
    <3>1. e = IF Last(kept) # "-" \/ Last(name) = "-" THEN kept \o <<"-">> \o hash
              ELSE kept \o hash
      BY <2>3 DEF ensure_max_string_length, name, kept
    <3>2. QED
      BY <2>3, <3>1, Zenon
  <2>4. QED
    BY <2>1, <2>2, <2>3
<1> HIDE DEF name, e
<1>6. ~(Len(name) <= 1) => kept \in Seq(Characters)
  <2>1. ~(Len(name) <= 1) => Len(name) > 0
    BY <1>4
  <2>2. PICK x \in Seq(Characters) : x = name
    BY <1>4
  <2>3. Len(x) > 0 => Front(x) \in Seq(Characters)
    BY FrontAndLast
  <2>4. QED
    BY <2>1, <2>2, <2>3
<1> HIDE DEF kept
<1>7. \A s, t \in Seq(Characters) : s \o t \in Seq(Characters)
  BY ConcatProperties
<1>8. ~(Len(name) <= 1) => kept \o <<"-">> \in Seq(Characters) /\ kept \o hash \in Seq(Characters)
                           /\ kept \o <<"-">> \o hash \in Seq(Characters)
  BY <1>1, <1>3, <1>6, <1>7, Zenon
<1>9. e \in Seq(Characters)
  BY <1>1, <1>5, <1>8, Zenon
<1>10. QED
  BY <1>9 DEF e

\* A text of allowed characters, and one that ends with a letter or a digit too.
StartsAllowed(text) ==
  text[1] \in AlNum /\ \A i \in 1..Len(text) : text[i] \in AlNum \cup {"-", "_", "."}

\* What shortening makes usable: it also ends with a letter or a digit.
Allowed(text) == text # <<>> /\ StartsAllowed(text) /\ text[Len(text)] \in AlNum

\* A text of allowed characters is the value of a label.
LEMMA AllowedIs ==
  ASSUME NEW text \in Seq(Characters), Allowed(text)
  PROVE  LABEL_VALUE_REGEX(text) /\ IsAscii(text) /\ Bytes(text) = Len(text)
<1>1. Len(text) \in Nat /\ DOMAIN text = 1..Len(text)
  BY PlacesAre
<1>2. \A i \in 2..(Len(text) - 1) : i \in 1..Len(text)
  BY <1>1
<1>3. LABEL_VALUE_REGEX(text)
  BY <1>2 DEF LABEL_VALUE_REGEX, Framed, Last, Allowed, StartsAllowed
<1>4. IsAscii(text)
  BY <1>1 DEF IsAscii, Range, AlNum, Allowed, StartsAllowed
<1>5. QED
  BY <1>3, <1>4, BytesAreBounded

\* A long name of allowed characters is shortened to an accepted one.
LEMMA ShortenedNameIs ==
  ASSUME NEW text \in Seq(Characters), StartsAllowed(text), ~(Bytes(text) <= LabelMax),
         NEW hash \in Hash(KeyHashLength)
  PROVE  LET e == ensure_max_string_length(text, LabelMax, hash)
         IN  e \in Seq(Characters) /\ Allowed(e) /\ Len(e) <= LabelMax
<1> DEFINE e == ensure_max_string_length(text, LabelMax, hash)
           n == KeyHashLength
           k == LabelMax - n - 1
<1>1. n \in Nat \ {0} /\ LabelMax \in Nat /\ n + 2 <= LabelMax
  BY NameLimits, NameLengths
<1>2. IsAscii(text)
  <2>1. DOMAIN text = 1..Len(text)
    BY PlacesAre
  <2>2. QED
    BY <2>1 DEF IsAscii, Range, AlNum, StartsAllowed
<1>3. /\ k \in 1..Len(text)
      /\ e = SubSeq(text, 1, k) \o hash \/ e = SubSeq(text, 1, k) \o (<<"-">> \o hash)
  BY <1>1, <1>2, ShortenedIs
<1>4. PICK s \in Seq(Characters) : /\ s = SubSeq(text, 1, k) /\ Len(s) = k
                                  /\ \A i \in 1..k : s[i] = text[i]
  <2>1. k \in 0..Len(text)
    BY <1>1, <1>3
  <2>2. QED
    BY <2>1, BytesOfStart
<1>5. \E t \in Seq(Characters) :
        /\ e = s \o t /\ Len(t) \in n..(n + 1) /\ t[Len(t)] \in Lower
        /\ \A i \in 1..Len(t) : t[i] \in Lower \cup {"-"}
  <2>1. /\ hash \in Seq(Characters) /\ Len(hash) = n /\ \A i \in 1..n : hash[i] \in Lower
        /\ <<"-">> \o hash \in Seq(Characters) /\ Len(<<"-">> \o hash) = n + 1
        /\ (<<"-">> \o hash)[1] = "-"
        /\ \A i \in 2..(n + 1) : (<<"-">> \o hash)[i] \in Lower
    BY <1>1, HashIs
  <2>2. n \in 1..n /\ n \in n..(n + 1) /\ n + 1 \in n..(n + 1) /\ n + 1 \in 2..(n + 1)
    BY <1>1
  <2>3. \A i \in 1..(n + 1) : i = 1 \/ i \in 2..(n + 1)
    BY <1>1
  <2> HIDE DEF e, n, k
  <2>4. CASE e = s \o hash
    BY <2>1, <2>2, <2>4
  <2>5. CASE e = s \o (<<"-">> \o hash)
    <3>1. PICK h \in Seq(Characters) : h = <<"-">> \o hash
      BY <2>1
    <3>2. Len(h) = n + 1 /\ h[1] = "-" /\ \A i \in 2..(n + 1) : h[i] \in Lower
      BY <2>1, <3>1
    <3>3. \A i \in 1..Len(h) : h[i] \in Lower \cup {"-"}
      BY <2>3, <3>2
    <3>4. e = s \o h /\ Len(h) \in n..(n + 1) /\ h[Len(h)] \in Lower
      BY <2>2, <2>5, <3>1, <3>2
    <3>5. QED
      BY <3>3, <3>4
  <2>6. QED
    BY <1>3, <1>4, <2>4, <2>5
<1>6. PICK t \in Seq(Characters) :
        /\ e = s \o t /\ Len(t) \in n..(n + 1) /\ t[Len(t)] \in Lower
        /\ \A i \in 1..Len(t) : t[i] \in Lower \cup {"-"}
  BY <1>5
<1> HIDE DEF e
<1>7. /\ e \in Seq(Characters) /\ Len(e) = k + Len(t)
      /\ \A i \in 1..k : e[i] = s[i]
      /\ \A i \in (k + 1)..(k + Len(t)) : e[i] = t[i - k]
  <2>1. /\ s \o t \in Seq(Characters) /\ Len(s \o t) = Len(s) + Len(t)
        /\ \A i \in 1..Len(s) : (s \o t)[i] = s[i]
        /\ \A i \in (Len(s) + 1)..(Len(s) + Len(t)) : (s \o t)[i] = t[i - Len(s)]
    BY TextAfterText
  <2> HIDE DEF k
  <2>2. e = s \o t /\ Len(s) = k
    BY <1>4, <1>6
  <2>3. QED
    BY <2>1, <2>2, Zenon
<1>8. k \in Nat /\ k > 0 /\ Len(t) \in Nat /\ Len(t) > 0 /\ k + Len(t) <= LabelMax
  BY <1>1, <1>3, <1>6
<1>9. \A i \in 1..(k + Len(t)) : i \in 1..k \/ (i \in (k + 1)..(k + Len(t)) /\ i - k \in 1..Len(t))
  BY <1>8
<1>10. \A i \in 1..k : i \in 1..Len(text)
  BY <1>3
<1>11. Lower \subseteq AlNum
  BY DEF Lower, AlNum
<1> HIDE DEF k, n
<1>12. \A i \in 1..Len(e) : e[i] \in AlNum \cup {"-", "_", "."}
  <2>1. \A i \in 1..Len(text) : text[i] \in AlNum \cup {"-", "_", "."}
    BY DEF StartsAllowed
  <2>2. \A i \in 1..k : e[i] \in AlNum \cup {"-", "_", "."}
    BY <1>4, <1>7, <1>10, <2>1, Zenon
  <2>3. \A i \in (k + 1)..(k + Len(t)) : i - k \in 1..Len(t)
    BY <1>8
  <2>4. \A i \in (k + 1)..(k + Len(t)) : e[i] \in Lower \cup {"-"}
    BY <1>6, <1>7, <2>3, Zenon
  <2>5. QED
    BY <1>7, <1>9, <1>11, <2>2, <2>4
<1>13. e[1] \in AlNum
  <2>1. 1 \in 1..k
    BY <1>8
  <2>2. text[1] \in AlNum
    BY DEF StartsAllowed
  <2>3. e[1] = s[1] /\ s[1] = text[1]
    BY <1>4, <1>7, <2>1, Zenon
  <2>4. QED
    BY <2>2, <2>3, Zenon
<1>14. e[Len(e)] \in AlNum
  <2>1. k + Len(t) \in (k + 1)..(k + Len(t)) /\ (k + Len(t)) - k = Len(t)
    BY <1>8
  <2>2. e[k + Len(t)] = t[Len(t)]
    BY <1>7, <2>1
  <2>3. QED
    BY <1>6, <1>7, <1>11, <2>2
<1>15. e # <<>> /\ Len(e) <= LabelMax
  <2>1. Len(e) > 0
    BY <1>7, <1>8
  <2>2. QED
    BY <1>7, <1>8, <2>1, PlacesAre
<1>16. QED
  BY <1>7, <1>12, <1>13, <1>14, <1>15 DEF e, Allowed, StartsAllowed

\* A prefix that is accepted has neither slashes nor spaces.
LEMMA PrefixIs ==
  ASSUME NEW p \in Seq(Characters), KeyPrefix(p).ok
  PROVE  /\ KeyPrefix(p) = Ok(p) /\ p # <<>>
         /\ \A i \in 1..Len(p) : p[i] \in AlNum \cup {"-", "."}
<1> DEFINE q == IF p # <<>> /\ Last(p) = "." THEN Front(p) ELSE p
           parts == Split(q, ".")
<1>1. KEY_PREFIX_REGEX(p) \in BOOLEAN
  BY DEF KEY_PREFIX_REGEX
<1>2. p # <<>> /\ KEY_PREFIX_REGEX(p) /\ KeyPrefix(p) = Ok(p)
  BY <1>1, KeyPartIs, NameLimits DEF KeyPrefix
<1>3. Len(p) \in Nat /\ Len(p) > 0
  BY <1>2, PlacesAre
<1>4. /\ q \in Seq(Characters) /\ Len(q) \in {Len(p), Len(p) - 1}
      /\ \A i \in 1..Len(q) : q[i] = p[i]
      /\ Len(q) # Len(p) => p[Len(p)] = "."
  <2>1. /\ Front(p) \in Seq(Characters) /\ Len(Front(p)) = Len(p) - 1
        /\ \A i \in 1..(Len(p) - 1) : Front(p)[i] = p[i]
        /\ Last(p) = p[Len(p)]
    BY <1>3, FrontAndLast
  <2>2. CASE Last(p) = "."
    <3>1. q = Front(p)
      BY <1>2, <2>2
    <3> HIDE DEF q
    <3>2. QED
      BY <2>1, <2>2, <3>1
  <2>3. CASE Last(p) # "."
    <3>1. q = p
      BY <2>3
    <3> HIDE DEF q
    <3>2. QED
      BY <3>1
  <2>4. QED
    BY <2>2, <2>3
<1>5. /\ Len(parts) > 1 /\ \A part \in Range(parts) : part # <<>>
      /\ \A i \in 1..Len(parts) - 1 : Range(parts[i]) \subseteq AlNum \cup {"-"}
      /\ Range(Last(parts)) \subseteq Letter
  BY <1>2, Zenon DEF KEY_PREFIX_REGEX
<1> HIDE DEF q
<1>6. parts \in Seq(Seq(Characters)) /\ Len(parts) \in Nat /\ Len(parts) > 0
  BY <1>4, SplitType
<1>7. \A i \in 1..Len(q) : q[i] # "." =>
        \E j \in 1..Len(parts) : \E k \in 1..Len(parts[j]) : parts[j][k] = q[i]
  BY <1>4, CharactersOfParts
<1> HIDE DEF parts
<1>8. ASSUME NEW j \in 1..Len(parts), NEW k \in 1..Len(parts[j]) PROVE parts[j][k] \in AlNum \cup {"-"}
  <2>1. PICK part \in Seq(Characters) : part = parts[j]
    BY <1>6
  <2>2. part[k] \in Range(part)
    <3>1. k \in DOMAIN part
      BY <2>1
    <3>2. QED
      BY <3>1 DEF Range
  <2>3. j \in 1..Len(parts) - 1 \/ j = Len(parts)
    BY <1>6
  <2>4. Range(part) \subseteq AlNum \cup {"-"} \/ Range(part) \subseteq Letter
    BY <1>5, <2>1, <2>3 DEF Last
  <2>5. Letter \subseteq AlNum
    BY DEF AlNum, Letter
  <2>6. QED
    BY <2>1, <2>2, <2>4, <2>5
<1>9. \A i \in 1..Len(q) : q[i] \in AlNum \cup {"-", "."}
  BY <1>7, <1>8
<1>10. \A i \in 1..Len(p) : p[i] \in AlNum \cup {"-", "."}
  <2>1. \A i \in 1..Len(p) : i \in 1..Len(q) \/ (i = Len(p) /\ Len(q) # Len(p))
    BY <1>3, <1>4
  <2>2. QED
    BY <1>4, <1>9, <2>1
<1>11. QED
  BY <1>2, <1>10

\* Two texts one after the other.
LEMMA JoinedTexts ==
  \A s, t \in Seq(Characters) :
    /\ s \o t \in Seq(Characters) /\ Len(s \o t) = Len(s) + Len(t)
    /\ \A i \in 1..Len(s) : (s \o t)[i] = s[i]
    /\ \A i \in (Len(s) + 1)..(Len(s) + Len(t)) : (s \o t)[i] = t[i - Len(s)]
BY ConcatProperties

\* A pair of parts.
LEMMA TwoParts ==
  ASSUME NEW p \in Seq(Characters), NEW q \in Seq(Characters)
  PROVE  Append(<<p>>, q) = <<p, q>> /\ Len(<<p, q>>) = 2 /\ <<p, q>>[1] = p /\ Last(<<p, q>>) = q
<1> DEFINE V == Seq(Characters)
<1>0. p \in V /\ q \in V
  OBVIOUS
<1> HIDE DEF V
<1>1. Append(<<p>>, q) = <<p, q>>
  <2>0. /\ <<p>> \in Seq(V) /\ Len(<<p>>) = 1 /\ <<p>>[1] = p
        /\ <<p, q>> \in Seq(V) /\ Len(<<p, q>>) = 2 /\ <<p, q>>[1] = p /\ <<p, q>>[2] = q
    BY <1>0
  <2>1. PICK s \in Seq(V) : s = <<p>> /\ Len(s) = 1 /\ s[1] = p
    BY <2>0, Zenon
  <2>2. PICK t \in Seq(V) : t = <<p, q>> /\ Len(t) = 2 /\ t[1] = p /\ t[2] = q
    BY <2>0, Zenon
  <2>3. /\ Append(s, q) \in Seq(V) /\ Len(Append(s, q)) = 2
        /\ Append(s, q)[1] = p /\ Append(s, q)[2] = q
    BY <1>0, <2>1, AppendProperties
  <2>4. PICK a \in Seq(V) : a = Append(s, q) /\ Len(a) = 2 /\ a[1] = p /\ a[2] = q
    BY <2>3
  <2>5. \A i \in 1..Len(a) : a[i] = t[i]
    BY <2>2, <2>4
  <2>6. a = t
    BY <2>2, <2>4, <2>5, SeqEqual
  <2>7. QED
    BY <2>1, <2>2, <2>4, <2>6, Zenon
<1>2. Len(<<p, q>>) = 2 /\ <<p, q>>[1] = p /\ Last(<<p, q>>) = q
  BY DEF Last
<1>3. QED
  BY <1>1, <1>2

\* A name of a key, after a prefix or alone, is accepted.
LEMMA JoinedKeyIs ==
  ASSUME NEW name \in Seq(Characters), Allowed(name), Len(name) <= LabelMax
  PROVE  /\ key_from_str(name).ok
         /\ \A p \in Seq(Characters) : KeyPrefix(p).ok => key_from_str(p \o <<"/">> \o name).ok
<1>1. KeyName(name).ok /\ KeyName(name) = Ok(name)
  <2>1. LABEL_VALUE_REGEX(name) /\ IsAscii(name) /\ Bytes(name) = Len(name)
    BY AllowedIs
  <2>2. name # <<>> /\ Bytes(name) <= LabelMax
    BY <2>1 DEF Allowed
  <2>3. QED
    BY <2>1, <2>2, KeyNameIs
<1>2. \A v : Ok(v).ok /\ Ok(v).value = v
  BY DEF Ok
<1>3. Len(name) \in Nat /\ Len(name) > 0 /\ 1 \in 1..Len(name) /\ Len(name) \in 1..Len(name)
  BY PlacesAre DEF Allowed
<1>4. \A i \in 1..Len(name) : name[i] # "/" /\ name[i] # " "
  BY DEF Allowed, StartsAllowed, AlNum
<1>5. key_from_str(name).ok
  <2>1. name # <<>> /\ trim(name) = name
    BY <1>3, <1>4, NothingToTrim DEF Allowed
  <2>2. Split(name, "/") = <<name>>
    BY <1>4, SplitOne
  <2>3. Len(<<name>>) = 1 /\ Last(<<name>>) = name
    BY DEF Last
  <2> DEFINE parts == Split(trim(name), "/")
             prefix == IF Len(parts) = 2 THEN KeyPrefix(parts[1]) ELSE Ok(None)
             last == KeyName(Last(parts))
  <2>4. key_from_str(name)
          = CASE trim(name) = <<>> -> Err("EmptyInput")
              [] trim(name) # <<>> /\ Len(parts) > 2 -> Err("NestedPrefix")
              [] OTHER -> IF ~prefix.ok THEN prefix
                          ELSE IF ~last.ok THEN last
                          ELSE Ok([prefix |-> prefix.value, name |-> last.value])
    BY DEF key_from_str
  <2>5. Len(parts) = 1 /\ last = Ok(name)
    BY <1>1, <2>1, <2>2, <2>3
  <2>6. prefix = Ok(None)
    <3>1. ~(Len(parts) = 2)
      BY <2>5
    <3> HIDE DEF parts
    <3>2. QED
      BY <3>1
  <2> HIDE DEF parts, prefix, last
  <2>7. trim(name) # <<>> /\ ~(Len(parts) > 2) /\ prefix.ok /\ last.ok
    BY <1>2, <2>1, <2>5, <2>6
  <2>8. key_from_str(name) = Ok([prefix |-> prefix.value, name |-> last.value])
    BY <2>4, <2>7
  <2>9. QED
    BY <1>2, <2>8
<1>6. ASSUME NEW p \in Seq(Characters), KeyPrefix(p).ok
      PROVE  key_from_str(p \o <<"/">> \o name).ok
  <2>1. /\ KeyPrefix(p) = Ok(p) /\ p # <<>>
        /\ \A i \in 1..Len(p) : p[i] \in AlNum \cup {"-", "."}
    BY <1>6, PrefixIs
  <2>2. \A i \in 1..Len(p) : p[i] # "/" /\ p[i] # " "
    BY <2>1 DEF AlNum
  <2>3. PICK x \in Seq(Characters) :
          /\ x = p \o <<"/">> \o name /\ x # <<>> /\ x[1] # " " /\ x[Len(x)] # " "
    <3>1. "/" \in Characters
      BY DEF Characters
    <3>2. PICK d \in Seq(Characters) : d = <<"/">> /\ Len(d) = 1
      BY <3>1, OneCharacter
    <3>3. PICK y \in Seq(Characters) : /\ y = p \o d /\ Len(y) = Len(p) + 1
                                       /\ \A i \in 1..Len(p) : y[i] = p[i]
      <4>1. /\ p \o d \in Seq(Characters) /\ Len(p \o d) = Len(p) + Len(d)
            /\ \A i \in 1..Len(p) : (p \o d)[i] = p[i]
        BY JoinedTexts, Zenon
      <4>2. QED
        BY <3>2, <4>1, Zenon
    <3>4. PICK x \in Seq(Characters) :
            /\ x = y \o name /\ Len(x) = Len(y) + Len(name)
            /\ \A i \in 1..Len(y) : x[i] = y[i]
            /\ \A i \in (Len(y) + 1)..(Len(y) + Len(name)) : x[i] = name[i - Len(y)]
      BY JoinedTexts, Zenon
    <3>5. Len(p) \in Nat /\ Len(p) > 0 /\ 1 \in 1..Len(p)
      BY <2>1, PlacesAre
    <3>6. /\ 1 \in 1..Len(y) /\ Len(x) \in (Len(y) + 1)..(Len(y) + Len(name)) /\ Len(x) > 0
          /\ Len(x) - Len(y) = Len(name)
      BY <1>3, <3>3, <3>4, <3>5
    <3>7. x[1] = p[1] /\ x[Len(x)] = name[Len(name)]
      BY <3>3, <3>4, <3>5, <3>6, Zenon
    <3>8. x # <<>>
      BY <3>6, PlacesAre
    <3>9. x[1] # " " /\ x[Len(x)] # " "
      BY <1>3, <1>4, <2>2, <3>5, <3>7, Zenon
    <3>10. x = p \o <<"/">> \o name
      BY <3>2, <3>3, <3>4, Zenon
    <3>11. QED
      BY <3>8, <3>9, <3>10, Zenon
  <2>4. trim(x) = x
    BY <2>3, NothingToTrim
  <2>5. PICK parts : parts = Split(x, "/") /\ Len(parts) = 2 /\ parts[1] = p /\ Last(parts) = name
    <3>1. "/" \in Characters
      BY DEF Characters
    <3>2. Split(p \o <<"/">> \o name, "/") = Append(Split(p, "/"), name)
      BY <1>4, <3>1, SplitAtSeparator, Zenon
    <3>3. Split(p, "/") = <<p>>
      BY <2>2, SplitOne
    <3>4. Append(<<p>>, name) = <<p, name>>
      BY TwoParts, Zenon
    <3>5. Len(<<p, name>>) = 2 /\ <<p, name>>[1] = p /\ Last(<<p, name>>) = name
      BY TwoParts, Zenon
    <3>6. QED
      BY <2>3, <3>2, <3>3, <3>4, <3>5, Zenon
  <2> DEFINE prefix == IF Len(parts) = 2 THEN KeyPrefix(parts[1]) ELSE Ok(None)
             last == KeyName(Last(parts))
  <2>6. key_from_str(x)
          = CASE x = <<>> -> Err("EmptyInput")
              [] x # <<>> /\ Len(parts) > 2 -> Err("NestedPrefix")
              [] OTHER -> IF ~prefix.ok THEN prefix
                          ELSE IF ~last.ok THEN last
                          ELSE Ok([prefix |-> prefix.value, name |-> last.value])
    BY <2>4, <2>5 DEF key_from_str
  <2>7. prefix = Ok(p) /\ last = Ok(name)
    BY <1>1, <2>1, <2>5, Zenon
  <2> HIDE DEF prefix, last
  <2>8. x # <<>> /\ ~(Len(parts) > 2) /\ prefix.ok /\ last.ok
    <3>1. ~(Len(parts) > 2)
      <4>1. ~(2 > 2)
        OBVIOUS
      <4>2. QED
        BY <2>5, <4>1, Zenon
    <3>2. prefix.ok /\ last.ok
      BY <1>2, <2>7
    <3>3. QED
      BY <2>3, <3>1, <3>2, Zenon
  <2>9. key_from_str(x) = Ok([prefix |-> prefix.value, name |-> last.value])
    BY <2>6, <2>8
  <2>10. QED
    BY <1>2, <2>3, <2>9
<1>7. QED
  BY <1>5, <1>6

\* What is said of keys.
LEMMA KeysFit ==
  ASSUME NEW prefix \in {None} \cup KeyPrefixes, NEW text \in KeyTexts,
         NEW hash \in Hash(KeyHashLength)
  PROVE  LET parsed == key_from_str(text)
             trimmed == new_trimmed(prefix, text, hash)
         IN  /\ parsed.ok => Fits(parsed.value)
             /\ parsed.ok => (prefix = None /\ Bytes(text) <= LabelMax => trimmed = parsed)
             /\ trimmed.ok => Fits(trimmed.value)
             /\ (Bytes(text) > LabelMax /\ text[1] \in AlNum /\ Range(text) \subseteq AlNum \cup {"-", "_", "."})
                  => trimmed.ok
<1> DEFINE parsed == key_from_str(text)
           trimmed == new_trimmed(prefix, text, hash)
           short == ensure_max_string_length(text, LabelMax, hash)
<1>1. /\ text \in Seq(Characters) /\ \A p \in KeyPrefixes : p \in Seq(Characters) /\ KeyPrefix(p).ok
  BY NamesAre
<1>2. /\ KeyHashLength \in Nat \ {0} /\ LabelMax \in Nat /\ KeyHashLength + 2 <= LabelMax
      /\ Bytes(text) \in Nat
  BY <1>1, NameLimits, NameLengths, BytesAreBounded
<1>3. short \in Seq(Characters)
  BY <1>1, <1>2, ShortenedType
<1>4. trimmed = key_from_str(IF prefix = None THEN short ELSE prefix \o <<"/">> \o short)
  BY DEF new_trimmed
<1>5. parsed.ok => Fits(parsed.value)
  BY <1>1, AcceptedKeysFit
<1>6. ASSUME prefix = None, Bytes(text) <= LabelMax PROVE trimmed = parsed
  <2>1. ~(Bytes(text) > LabelMax)
    BY <1>2, <1>6
  <2>2. short = text
    BY <1>6, <2>1 DEF ensure_max_string_length
  <2> HIDE DEF short
  <2>3. QED
    BY <1>4, <1>6, <2>2
<1> HIDE DEF short, trimmed
<1>7. ASSUME trimmed.ok PROVE Fits(trimmed.value)
  <2>1. CASE prefix = None
    BY <1>3, <1>4, <1>7, <2>1, AcceptedKeysFit
  <2>2. CASE prefix # None
    <3>1. prefix \in Seq(Characters)
      BY <1>1, <2>2
    <3>2. "/" \in Characters
      BY DEF Characters
    <3>3. PICK d \in Seq(Characters) : d = <<"/">>
      BY <3>2, OneCharacter
    <3>4. (prefix \o d) \o short \in Seq(Characters)
      BY <1>3, <3>1, JoinedTexts, Zenon
    <3>5. prefix \o <<"/">> \o short \in Seq(Characters)
      BY <3>3, <3>4, Zenon
    <3>6. trimmed = key_from_str(prefix \o <<"/">> \o short)
      BY <1>4, <2>2, Zenon
    <3>7. QED
      BY <1>7, <3>5, <3>6, AcceptedKeysFit
  <2>3. QED
    BY <2>1, <2>2
<1>80. Bytes(text) > LabelMax => ~(Bytes(text) <= LabelMax)
  BY <1>2
<1>8. ASSUME Bytes(text) > LabelMax, text[1] \in AlNum, Range(text) \subseteq AlNum \cup {"-", "_", "."}
      PROVE  trimmed.ok
  <2>1. ~(Bytes(text) <= LabelMax)
    BY <1>8, <1>80, Zenon
  <2>2. StartsAllowed(text)
    <3>1. \A i \in 1..Len(text) : text[i] \in Range(text)
      BY <1>1 DEF Range
    <3>2. QED
      BY <1>8, <3>1, Zenon DEF StartsAllowed
  <2>3. short \in Seq(Characters) /\ Allowed(short) /\ Len(short) <= LabelMax
    BY <1>1, <2>1, <2>2, ShortenedNameIs DEF short
  <2>4. /\ key_from_str(short).ok
        /\ \A p \in Seq(Characters) : KeyPrefix(p).ok => key_from_str(p \o <<"/">> \o short).ok
    BY <2>3, JoinedKeyIs
  <2>5. CASE prefix = None
    BY <1>4, <2>4, <2>5, Zenon
  <2>6. CASE prefix # None
    <3>1. prefix \in KeyPrefixes
      BY <2>6
    <3>2. QED
      BY <1>1, <1>4, <2>4, <2>6, <3>1, Zenon
  <2>7. QED
    BY <2>5, <2>6
<1>9. QED
  BY <1>5, <1>6, <1>7, <1>8 DEF trimmed

\* What step of the model gives which name.
LEMMA NamedBy ==
  ASSUME NamesNext
  PROVE  named' = named \/ ParseName \/ NameRoleGroup \/ MakeKey \/ ResolveImage
         \/ RecommendLabels \/ MakeQuery \/ BuildRbac
BY DEF NamesNext, CallMetaBuilder

(***************************************************************************)
(* RBAC objects                                                            *)
(***************************************************************************)
\* Two texts with the same end are the same.
LEMMA SameEnd ==
  ASSUME NEW s \in Seq(Characters), NEW t \in Seq(Characters), NEW u \in Seq(Characters),
         s \o u = t \o u
  PROVE  s = t
<1>1. Len(s) + Len(u) = Len(t) + Len(u) /\ Len(s) \in Nat /\ Len(t) \in Nat /\ Len(u) \in Nat
  <2>1. Len(s \o u) = Len(s) + Len(u) /\ Len(t \o u) = Len(t) + Len(u)
    BY JoinedTexts
  <2>2. QED
    BY <2>1
<1>2. Len(s) = Len(t)
  BY <1>1
<1>3. \A i \in 1..Len(s) : s[i] = t[i]
  <2>1. \A i \in 1..Len(s) : (s \o u)[i] = s[i]
    BY JoinedTexts, Zenon
  <2>2. \A i \in 1..Len(t) : (t \o u)[i] = t[i]
    BY JoinedTexts, Zenon
  <2>3. PICK w : w = s \o u /\ w = t \o u
    OBVIOUS
  <2>4. \A i \in 1..Len(s) : w[i] = s[i]
    BY <2>1, <2>3, Zenon
  <2>5. \A i \in 1..Len(t) : w[i] = t[i]
    BY <2>2, <2>3, Zenon
  <2>6. QED
    BY <1>2, <2>4, <2>5, Zenon
<1>4. QED
  BY <1>2, <1>3, SeqEqual

\* What is accepted as the name of a product.
LEMMA ProductNameIs ==
  ASSUME NEW text \in Seq(Characters), from_str("ProductName", text).ok
  PROVE  /\ Rfc1123Subdomain(text) /\ Bytes(text) <= ProductNameMax /\ LabelValue(text) = Ok(text)
<1>1. "ProductName" \in TypeNames
  BY TypeNamesAre
<1>2. PICK x \in Attributes : x = Attribute("max_length", ProductNameMax) /\ x.kind = "max_length"
                             /\ x.value = ProductNameMax
  BY AttributesAre, NameLimits
<1>3. PICK y \in Attributes : /\ y = Is("is_rfc_1123_dns_subdomain_name")
                             /\ y.kind = "is_rfc_1123_dns_subdomain_name"
  BY AttributesAre
<1>4. PICK z \in Attributes : z = Is("is_valid_label_value") /\ z.kind = "is_valid_label_value"
  BY AttributesAre
<1>5. AttributesOf("ProductName") = <<x, y, z>>
  BY <1>2, <1>3, <1>4, OperatorNameTypesAre
<1>6. /\ Len(AttributesOf("ProductName")) = 3 /\ AttributesOf("ProductName")[1] = x
      /\ AttributesOf("ProductName")[2] = y /\ AttributesOf("ProductName")[3] = z
  BY <1>5, ShortLists
<1>7. Holds(x, "ProductName", text) /\ Holds(y, "ProductName", text) /\ Holds(z, "ProductName", text)
  BY <1>1, <1>6, AcceptedWhenAllHold
<1>8. UpperBound(x) = ProductNameMax
  BY <1>2 DEF UpperBound
<1>9. MAX_LENGTH("ProductName") <= ProductNameMax /\ MAX_LENGTH("ProductName") \in Nat
  BY <1>1, <1>6, <1>8, LengthsAre
<1>10. Bytes(text) <= MAX_LENGTH("ProductName")
  BY <1>2, <1>7 DEF Holds
<1>11. Rfc1123Subdomain(text)
  BY <1>3, <1>7 DEF Holds, is_lowercase_rfc_1123_subdomain, validate_all
<1>12. LabelValue(text).ok
  BY <1>4, <1>7 DEF Holds
<1>13. Bytes(text) \in Nat
  BY BytesAreBounded
<1>14. QED
  BY <1>9, <1>10, <1>11, <1>12, <1>13, LabelValueIs, NameLimits

\* The types for subdomains accept every subdomain that is short enough.
LEMMA SubdomainTypesAccept ==
  ASSUME NEW type \in {"ServiceAccountName", "RoleBindingName", "ClusterRoleName"},
         NEW text \in Seq(Characters), is_lowercase_rfc_1123_subdomain(text)
  PROVE  from_str(type, text) = Ok(text)
<1>1. type \in TypeNames
  BY TypeNamesAre
<1>2. PICK y \in Attributes : /\ y = Is("is_rfc_1123_dns_subdomain_name")
                             /\ y.kind = "is_rfc_1123_dns_subdomain_name"
  BY AttributesAre
<1>3. AttributesOf(type) = <<y>>
  BY <1>2, NameTypesAre
<1>4. Len(AttributesOf(type)) = 1 /\ AttributesOf(type)[1] = y
  BY <1>3, ShortLists
<1>5. Holds(y, type, text)
  BY <1>2 DEF Holds
<1>6. \A i \in 1..1 : i = 1
  OBVIOUS
<1>7. QED
  BY <1>1, <1>4, <1>5, <1>6, AcceptedWhenAllHold

\* The name of a cluster and a suffix.
LEMMA ClusterAndSuffix ==
  ASSUME NEW cluster \in Seq(Characters), from_str("ClusterName", cluster).ok,
         NEW type \in {"ServiceAccountName", "RoleBindingName"},
         NEW suffix, IsNameSuffix(suffix), ClusterNameMax + Len(suffix) <= SubdomainMax
  PROVE  from_str(type, cluster \o suffix) = Ok(cluster \o suffix)
<1>1. /\ Rfc1123Label(cluster) /\ Len(cluster) \in Nat /\ Len(cluster) <= ClusterNameMax
  BY ClusterNameIs
<1>2. /\ suffix \in Seq(Characters) /\ Len(suffix) \in Nat /\ Len(suffix) > 0
      /\ \A i \in 1..Len(suffix) : suffix[i] \in Lower \cup {"-"}
      /\ suffix # <<>> /\ suffix[Len(suffix)] \in Lower
  BY SuffixIs
<1>3. PICK s \in Seq(Characters) : /\ s = cluster \o suffix /\ Len(s) = Len(cluster) + Len(suffix)
                                  /\ Rfc1123Label(s)
  BY <1>1, <1>2, LabelAndSuffix
<1>4. Len(s) <= SubdomainMax
  BY <1>1, <1>2, <1>3, NameLimits
<1>5. is_lowercase_rfc_1123_subdomain(s)
  BY <1>3, <1>4, LabelsAreUsable
<1>6. from_str(type, s) = Ok(s)
  <2>1. type \in {"ServiceAccountName", "RoleBindingName", "ClusterRoleName"}
    OBVIOUS
  <2>2. QED
    BY <1>5, <2>1, SubdomainTypesAccept
<1>7. QED
  BY <1>3, <1>6

\* One more part.
LEMMA AppendedPart ==
  ASSUME NEW f \in Seq(Seq(Characters)), NEW m \in Seq(Characters)
  PROVE  /\ Append(f, m) \in Seq(Seq(Characters)) /\ Len(Append(f, m)) = Len(f) + 1
         /\ \A i \in 1..Len(f) : Append(f, m)[i] = f[i]
         /\ Append(f, m)[Len(f) + 1] = m
<1> DEFINE V == Seq(Characters)
<1>1. f \in Seq(V) /\ m \in V
  OBVIOUS
<1> HIDE DEF V
<1>2. /\ Append(f, m) \in Seq(V) /\ Len(Append(f, m)) = Len(f) + 1
      /\ \A i \in 1..Len(f) : Append(f, m)[i] = f[i]
      /\ Append(f, m)[Len(f) + 1] = m
  BY <1>1, AppendProperties
<1>3. QED
  BY <1>2, Zenon DEF V

\* The name of a product and a suffix.
LEMMA ProductAndSuffix ==
  ASSUME NEW product \in Seq(Characters), from_str("ProductName", product).ok,
         NEW suffix, IsNameSuffix(suffix), ProductNameMax + Len(suffix) <= SubdomainMax
  PROVE  from_str("ClusterRoleName", product \o suffix) = Ok(product \o suffix)
<1>1. Rfc1123Subdomain(product) /\ Bytes(product) <= ProductNameMax /\ LabelValue(product) = Ok(product)
  BY ProductNameIs
<1>2. /\ suffix \in Seq(Characters) /\ Len(suffix) \in Nat /\ Len(suffix) > 0
      /\ \A i \in 1..Len(suffix) : suffix[i] \in Lower \cup {"-"}
      /\ suffix # <<>> /\ suffix[Len(suffix)] \in Lower
  BY SuffixIs
<1>3. PICK s \in Seq(Characters) : /\ s = product \o suffix /\ Len(s) = Len(product) + Len(suffix)
                                   /\ \A i \in 1..Len(product) : s[i] = product[i]
                                   /\ \A i \in (Len(product) + 1)..(Len(product) + Len(suffix)) :
                                        s[i] = suffix[i - Len(product)]
  BY <1>2, JoinedTexts, Zenon
<1>4. LabelValue(product).ok
  BY <1>1 DEF Ok
<1>5. IsAscii(product) /\ Bytes(product) = Len(product) /\ Len(product) \in Nat
  BY <1>4, LabelValueIs, BytesAreBounded
<1>6. IsAscii(s)
  <2>1. \A i \in 1..Len(product) : product[i] # "e"
    BY <1>5 DEF IsAscii, Range
  <2>2. \A i \in 1..Len(suffix) : suffix[i] # "e"
    BY <1>2 DEF Lower
  <2>3. \A i \in 1..Len(s) : i \in 1..Len(product)
          \/ (i \in (Len(product) + 1)..(Len(product) + Len(suffix)) /\ i - Len(product) \in 1..Len(suffix))
    BY <1>2, <1>3, <1>5
  <2>4. \A i \in 1..Len(s) : s[i] # "e"
    <3>1. \A i \in 1..Len(product) : s[i] # "e"
      BY <1>3, <2>1, Zenon
    <3>2. \A i \in (Len(product) + 1)..(Len(product) + Len(suffix)) :
            i - Len(product) \in 1..Len(suffix) => s[i] # "e"
      <4>1. SUFFICES ASSUME NEW i \in (Len(product) + 1)..(Len(product) + Len(suffix)),
                            NEW j \in 1..Len(suffix), j = i - Len(product)
                     PROVE  s[i] # "e"
        OBVIOUS
      <4>2. s[i] = suffix[i - Len(product)]
        BY <1>3, SMT
      <4>4. s[i] = suffix[j]
        BY <4>1, <4>2, Zenon
      <4>3. QED
        BY <2>2, <4>4, Zenon
    <3>3. QED
      BY <2>3, <3>1, <3>2, Zenon
  <2>5. DOMAIN s = 1..Len(s)
    BY PlacesAre
  <2>6. QED
    BY <2>4, <2>5, Zenon DEF IsAscii, Range
<1>7. Bytes(s) <= SubdomainMax
  <2>1. Bytes(s) = Len(s)
    BY <1>6, BytesAreBounded
  <2>2. Len(product) <= ProductNameMax /\ ProductNameMax \in Nat /\ SubdomainMax \in Nat
    BY <1>1, <1>5, NameLimits
  <2>3. Len(product) + Len(suffix) <= SubdomainMax
    BY <1>2, <1>5, <2>2
  <2>4. QED
    BY <1>3, <2>1, <2>3, Zenon
<1>8. PICK p \in Seq(Seq(Characters)) : p = Split(product, ".") /\ Len(p) > 0
  BY SplitType
<1>9. \A j \in 1..Len(p) : Rfc1123Label(p[j])
  <2>1. \A j \in 1..Len(p) : p[j] \in Range(p)
    BY DEF Range
  <2>2. QED
    BY <1>1, <1>8, <2>1 DEF Rfc1123Subdomain
<1>10. PICK f \in Seq(Seq(Characters)) : /\ f = Front(p) /\ Len(f) = Len(p) - 1
                                        /\ \A i \in 1..(Len(p) - 1) : f[i] = p[i]
  BY <1>8, FrontAndLast
<1>11. PICK l \in Seq(Characters) : l = Last(p) /\ l = p[Len(p)]
  BY <1>8, FrontAndLast
<1>12. Rfc1123Label(l)
  <2>1. Len(p) \in 1..Len(p)
    BY <1>8
  <2>2. QED
    BY <1>9, <1>11, <2>1
<1>13. PICK m \in Seq(Characters) : m = l \o suffix /\ Rfc1123Label(m)
  BY <1>2, <1>12, LabelAndSuffix
<1>14. Split(s, ".") = Append(f, m)
  <2>1. \A i \in 1..Len(suffix) : suffix[i] # "."
    BY <1>2 DEF Lower
  <2>2. Split(product \o suffix, ".")
          = Append(Front(Split(product, ".")), Last(Split(product, ".")) \o suffix)
    BY <1>2, <2>1, SplitAfter
  <2>3. QED
    BY <1>3, <1>8, <1>10, <1>11, <1>13, <2>2, Zenon
<1>15. Rfc1123Subdomain(s)
  <2>1. PICK a \in Seq(Seq(Characters)) : /\ a = Append(f, m) /\ Len(a) = Len(f) + 1
                                         /\ \A i \in 1..Len(f) : a[i] = f[i]
                                         /\ a[Len(f) + 1] = m
    BY AppendedPart, Zenon
  <2>2. \A i \in 1..Len(a) : i = Len(f) + 1 \/ (i \in 1..Len(f) /\ i \in 1..(Len(p) - 1) /\ i \in 1..Len(p))
    BY <1>10, <2>1
  <2>3. \A i \in 1..Len(a) : Rfc1123Label(a[i])
    <3>1. \A i \in 1..(Len(p) - 1) : i \in 1..Len(p) => Rfc1123Label(f[i])
      BY <1>9, <1>10, Zenon
    <3>2. \A i \in 1..Len(f) : i \in 1..(Len(p) - 1) /\ i \in 1..Len(p) => Rfc1123Label(a[i])
      BY <2>1, <3>1, Zenon
    <3>3. Rfc1123Label(a[Len(f) + 1])
      <4>1. PICK x : x = a[Len(f) + 1]
        OBVIOUS
      <4>2. x = m
        <5>1. a[Len(f) + 1] = m
          BY <2>1, SMT
        <5>2. QED
          BY <4>1, <5>1, Zenon
      <4>3. Rfc1123Label(x)
        BY <1>13, <4>2
      <4>4. QED
        BY <4>1, <4>3
    <3>4. QED
      BY <2>2, <3>2, <3>3, Zenon
  <2>4. \A part \in Range(a) : Rfc1123Label(part)
    <3>1. DOMAIN a = 1..Len(a)
      OBVIOUS
    <3>2. QED
      BY <2>3, <3>1, Zenon DEF Range
  <2>5. QED
    BY <1>14, <2>1, <2>4 DEF Rfc1123Subdomain
<1>16. is_lowercase_rfc_1123_subdomain(s)
  BY <1>7, <1>15 DEF is_lowercase_rfc_1123_subdomain, validate_all
<1>17. from_str("ClusterRoleName", s) = Ok(s)
  BY <1>16, SubdomainTypesAccept
<1>18. QED
  BY <1>3, <1>17

\* The metadata of an object of the RBAC resources.
RbacOwner(owner) == [name |-> owner.name, uid |-> owner.uid, controller |-> TRUE]

\* The metadata of one of its objects.
RbacMeta(owner, name, labels) ==
  [name |-> name, namespace |-> owner.namespace, labels |-> labels, finalizers |-> None,
   owner_references |-> IF RbacOwner(owner) = None THEN None ELSE <<RbacOwner(owner)>>]

\* An owner without a uid.
LEMMA NoOwnerReference ==
  ASSUME NEW owner, owner.uid = None, NEW product, NEW labels
  PROVE  ~build_rbac_resources(owner, product, labels).ok
<1>1. OwnerReference(owner, TRUE) = Err("MissingObjectKey")
  BY DEF OwnerReference
<1>2. ~Err("MissingObjectKey").ok
  BY DEF Err
<1> DEFINE sa == owner.name \o ServiceAccountSuffix
           meta(name) == ownerreference_from_resource(
                           [name_and_namespace(NewMeta, owner) EXCEPT !.name = name], owner, TRUE)
<1>3. meta(sa) = Err("MissingObjectKey")
  BY <1>1, <1>2, Zenon DEF ownerreference_from_resource
<1>4. build_rbac_resources(owner, product, labels) = meta(sa)
  <2>1. ~meta(sa).ok
    BY <1>2, <1>3, Zenon
  <2>2. QED
    BY <2>1, Zenon DEF build_rbac_resources
<1>5. QED
  BY <1>2, <1>3, <1>4, Zenon

\* The metadata that is built, by the first and by the second functions.
LEMMA RbacMetaIs ==
  ASSUME NEW owner, owner.uid # None, NEW name, NEW labels
  PROVE  LET first == ownerreference_from_resource(
                        [name_and_namespace(NewMeta, owner) EXCEPT !.name = name], owner, TRUE)
         IN  /\ first.ok
             /\ build_meta(with_labels(first.value, labels)) = RbacMeta(owner, name, labels)
             /\ build_metadata(owner, name, labels) = RbacMeta(owner, name, labels)
<1> DEFINE b(r) == [annotations |-> None, finalizers |-> None, generate_name |-> None, labels |-> None,
                    namespace |-> owner.namespace, name |-> name, ownerreference |-> r]
           o == RbacOwner(owner)
           first == ownerreference_from_resource(
                      [name_and_namespace(NewMeta, owner) EXCEPT !.name = name], owner, TRUE)
<1>1. OwnerReference(owner, TRUE) = Ok(o)
  BY DEF OwnerReference, RbacOwner
<1>2. Ok(o).ok /\ Ok(o).value = o /\ Ok(b(o)).ok /\ Ok(b(o)).value = b(o)
  BY DEF Ok
<1> HIDE DEF o
<1>3. [name_and_namespace(NewMeta, owner) EXCEPT !.name = name] = b(None)
  <2>1. PICK m : m = [name_and_namespace(NewMeta, owner) EXCEPT !.name = name]
    OBVIOUS
  <2>2. m \in [annotations : {None}, finalizers : {None}, generate_name : {None}, labels : {None},
                namespace : {owner.namespace}, name : {name}, ownerreference : {None}]
    BY <2>1 DEF name_and_namespace, NewMeta
  <2>3. m = b(None)
    BY <2>2
  <2>4. QED
    BY <2>1, <2>3
<1>4. [b(None) EXCEPT !.ownerreference = o] = b(o)
  OBVIOUS
<1>5. first = Ok(b(o))
  BY <1>1, <1>2, <1>3, <1>4, Zenon DEF ownerreference_from_resource
<1>6. with_labels(b(o), labels) = [b(o) EXCEPT !.labels = labels]
  BY DEF with_labels
<1>7. build_meta([b(o) EXCEPT !.labels = labels])
        = [name |-> name, namespace |-> owner.namespace, labels |-> labels, finalizers |-> None,
           owner_references |-> IF o = None THEN None ELSE <<o>>]
  BY DEF build_meta
<1>8. build_meta(with_labels(b(o), labels)) = RbacMeta(owner, name, labels)
  BY <1>6, <1>7, Zenon DEF RbacMeta, o
<1>9. build_metadata(owner, name, labels) = RbacMeta(owner, name, labels)
  <2>1. expect(OwnerReference(owner, TRUE)) = o
    BY <1>1, <1>2 DEF expect
  <2>2. [NewMeta EXCEPT !.name = name, !.namespace = owner.namespace, !.ownerreference = o] = b(o)
    <3>1. PICK m : m = [NewMeta EXCEPT !.name = name, !.namespace = owner.namespace,
                                       !.ownerreference = o]
      OBVIOUS
    <3>2. m \in [annotations : {None}, finalizers : {None}, generate_name : {None}, labels : {None},
                namespace : {owner.namespace}, name : {name}, ownerreference : {o}]
      BY <3>1 DEF NewMeta
    <3>3. m = b(o)
      BY <3>2
    <3>4. QED
      BY <3>1, <3>3
  <2>3. build_metadata(owner, name, labels) = build_meta(with_labels(b(o), labels))
    BY <2>1, <2>2, Zenon DEF build_metadata
  <2>4. QED
    BY <1>8, <2>3
<1> HIDE DEF first, b
<1>10. first.ok /\ first.value = b(o)
  BY <1>2, <1>5
<1>11. build_meta(with_labels(first.value, labels)) = RbacMeta(owner, name, labels)
  BY <1>8, <1>10, Zenon
<1>12. QED
  BY <1>9, <1>10, <1>11, Zenon DEF first

\* The resources that are built.
LEMMA RbacIs ==
  ASSUME NEW owner, owner.uid # None, NEW product, NEW labels
  PROVE  build_rbac_resources(owner, product, labels)
           = Ok([account |-> RbacMeta(owner, owner.name \o ServiceAccountSuffix, labels),
                 binding |-> RbacMeta(owner, owner.name \o RoleBindingSuffix, labels),
                 role |-> product \o ClusterRoleSuffix,
                 subject |-> [name |-> owner.name \o ServiceAccountSuffix, namespace |-> owner.namespace]])
<1> DEFINE meta(name) == ownerreference_from_resource(
                           [name_and_namespace(NewMeta, owner) EXCEPT !.name = name], owner, TRUE)
           sa == owner.name \o ServiceAccountSuffix
           rb == owner.name \o RoleBindingSuffix
<1>1. /\ meta(sa).ok /\ build_meta(with_labels(meta(sa).value, labels)) = RbacMeta(owner, sa, labels)
      /\ meta(rb).ok /\ build_meta(with_labels(meta(rb).value, labels)) = RbacMeta(owner, rb, labels)
  BY RbacMetaIs
<1>2. build_rbac_resources(owner, product, labels)
        = IF ~meta(sa).ok THEN meta(sa)
          ELSE Ok([account |-> build_meta(with_labels(meta(sa).value, labels)),
                   binding |-> build_meta(with_labels(meta(rb).value, labels)),
                   role |-> product \o ClusterRoleSuffix,
                   subject |-> [name |-> sa, namespace |-> owner.namespace]])
  BY Zenon DEF build_rbac_resources
<1> HIDE DEF meta, sa, rb
<1>3. build_rbac_resources(owner, product, labels)
        = Ok([account |-> RbacMeta(owner, sa, labels), binding |-> RbacMeta(owner, rb, labels),
              role |-> product \o ClusterRoleSuffix,
              subject |-> [name |-> sa, namespace |-> owner.namespace]])
  BY <1>1, <1>2, Zenon
<1>4. QED
  BY <1>3 DEF sa, rb

\* The second functions build the same.
LEMMA RbacIsTheSame ==
  ASSUME NEW owner \in Owners, owner.uid # None, from_str("ClusterName", owner.name).ok,
         NEW product \in ProductNames, NEW labels
  PROVE  build_v2_resources(owner, product, labels)
           = [account |-> RbacMeta(owner, owner.name \o ServiceAccountSuffix, labels),
              binding |-> RbacMeta(owner, owner.name \o RoleBindingSuffix, labels),
              role |-> product \o ClusterRoleSuffix,
              subject |-> [name |-> owner.name \o ServiceAccountSuffix, namespace |-> owner.namespace]]
<1> DEFINE sa == owner.name \o ServiceAccountSuffix
           rb == owner.name \o RoleBindingSuffix
           cr == product \o ClusterRoleSuffix
<1>1. owner.name \in Seq(Characters)
  BY LabelAssumption
<1>2. product \in Seq(Characters) /\ from_str("ProductName", product).ok
  BY NamesAre
<1>3. IsNameSuffix(ServiceAccountSuffix) /\ IsNameSuffix(RoleBindingSuffix)
      /\ IsNameSuffix(ClusterRoleSuffix)
  BY NamesAre
<1>4. /\ ClusterNameMax + Len(ServiceAccountSuffix) <= SubdomainMax
      /\ ClusterNameMax + Len(RoleBindingSuffix) <= SubdomainMax
      /\ ProductNameMax + Len(ClusterRoleSuffix) <= SubdomainMax
  BY NameLengths
<1>5. from_str("ServiceAccountName", sa) = Ok(sa)
  BY <1>1, <1>3, <1>4, ClusterAndSuffix
<1>6. from_str("RoleBindingName", rb) = Ok(rb)
  BY <1>1, <1>3, <1>4, ClusterAndSuffix
<1>7. from_str("ClusterRoleName", cr) = Ok(cr)
  BY <1>2, <1>3, <1>4, ProductAndSuffix
<1>8. \A v : Ok(v).ok /\ Ok(v).value = v
  BY DEF Ok
<1>9. /\ service_account_name(owner.name) = sa /\ role_binding_name(owner.name) = rb
      /\ cluster_role_name(product) = cr
  BY <1>5, <1>6, <1>7, <1>8, Zenon
     DEF service_account_name, role_binding_name, cluster_role_name, expect
<1> HIDE DEF sa, rb, cr
<1>10. /\ build_metadata(owner, sa, labels) = RbacMeta(owner, sa, labels)
       /\ build_metadata(owner, rb, labels) = RbacMeta(owner, rb, labels)
  BY RbacMetaIs
<1>11. build_service_account(owner, labels) = RbacMeta(owner, sa, labels)
  BY <1>9, <1>10, Zenon DEF build_service_account
<1>12. build_role_binding(owner, product, labels)
         = [metadata |-> RbacMeta(owner, rb, labels), role |-> cr,
            subject |-> [name |-> sa, namespace |-> owner.namespace]]
  BY <1>9, <1>10, Zenon DEF build_role_binding
<1>13. build_v2_resources(owner, product, labels)
         = [account |-> RbacMeta(owner, sa, labels), binding |-> RbacMeta(owner, rb, labels),
            role |-> cr, subject |-> [name |-> sa, namespace |-> owner.namespace]]
  <2>1. PICK x : x = build_role_binding(owner, product, labels)
    OBVIOUS
  <2>2. /\ x.metadata = RbacMeta(owner, rb, labels) /\ x.role = cr
        /\ x.subject = [name |-> sa, namespace |-> owner.namespace]
    BY <1>12, <2>1
  <2>3. build_v2_resources(owner, product, labels)
          = [account |-> build_service_account(owner, labels), binding |-> x.metadata,
             role |-> x.role, subject |-> x.subject]
    BY <2>1, Zenon DEF build_v2_resources
  <2>4. QED
    BY <1>11, <2>2, <2>3, Zenon
<1>14. QED
  BY <1>13 DEF sa, rb, cr

\* What is said of the RBAC objects.
LEMMA RbacAgrees ==
  ASSUME NEW owner \in Owners, NEW other \in Owners, owner.name # other.name,
         NEW product \in ProductNames
  PROVE  LET labels == [name |-> product]
             v1 == build_rbac_resources(owner, product, labels)
             second == build_rbac_resources(other, product, labels)
             v2 == IF owner.uid = None \/ ~from_str("ClusterName", owner.name).ok THEN None
                   ELSE build_v2_resources(owner, product, labels)
         IN  /\ v1.ok <=> owner.uid # None
             /\ v1.ok => v1.value.subject = [name |-> v1.value.account.name,
                                             namespace |-> v1.value.binding.namespace]
             /\ v2 # None => v1 = Ok(v2)
             /\ v1.ok /\ second.ok => /\ v1.value.account.name # second.value.account.name
                                      /\ v1.value.binding.name # second.value.binding.name
<1> DEFINE labels == [name |-> product]
           v1 == build_rbac_resources(owner, product, labels)
           second == build_rbac_resources(other, product, labels)
           v2 == IF owner.uid = None \/ ~from_str("ClusterName", owner.name).ok THEN None
                 ELSE build_v2_resources(owner, product, labels)
           built(o) == [account |-> RbacMeta(o, o.name \o ServiceAccountSuffix, labels),
                        binding |-> RbacMeta(o, o.name \o RoleBindingSuffix, labels),
                        role |-> product \o ClusterRoleSuffix,
                        subject |-> [name |-> o.name \o ServiceAccountSuffix, namespace |-> o.namespace]]
<1> HIDE DEF labels
<1>1. \A v : Ok(v).ok /\ Ok(v).value = v
  BY DEF Ok
<1>2. \A o : o.uid # None => build_rbac_resources(o, product, labels) = Ok(built(o))
  BY RbacIs
<1>3. \A o : o.uid = None => ~build_rbac_resources(o, product, labels).ok
  BY NoOwnerReference
<1>4. ASSUME NEW o PROVE /\ built(o).account.name = o.name \o ServiceAccountSuffix
                         /\ built(o).binding.name = o.name \o RoleBindingSuffix
                         /\ built(o).binding.namespace = o.namespace
                         /\ built(o).subject = [name |-> o.name \o ServiceAccountSuffix,
                                                namespace |-> o.namespace]
  BY DEF RbacMeta
<1>5. v2 # None => owner.uid # None /\ v2 = built(owner)
  BY RbacIsTheSame
<1> HIDE DEF built
<1>6. v1.ok <=> owner.uid # None
  BY <1>1, <1>2, <1>3
<1>7. v1.ok => v1.value = built(owner)
  BY <1>1, <1>2, <1>3
<1>8. second.ok => second.value = built(other)
  BY <1>1, <1>2, <1>3
<1>9. v2 # None => v1 = Ok(v2)
  BY <1>2, <1>5
<1>10. /\ owner.name \o ServiceAccountSuffix # other.name \o ServiceAccountSuffix
       /\ owner.name \o RoleBindingSuffix # other.name \o RoleBindingSuffix
  <2>1. owner.name \in Seq(Characters) /\ other.name \in Seq(Characters)
    BY LabelAssumption
  <2>2. ServiceAccountSuffix \in Seq(Characters) /\ RoleBindingSuffix \in Seq(Characters)
    BY NamesAre, SuffixIs
  <2>3. QED
    BY <2>1, <2>2, SameEnd
<1> HIDE DEF v1, second, v2
<1>11. v1.ok => v1.value.subject = [name |-> v1.value.account.name,
                                    namespace |-> v1.value.binding.namespace]
  <2>1. PICK w : w = built(owner)
    OBVIOUS
  <2>2. /\ w.account.name = owner.name \o ServiceAccountSuffix
        /\ w.binding.namespace = owner.namespace
        /\ w.subject = [name |-> owner.name \o ServiceAccountSuffix, namespace |-> owner.namespace]
    BY <1>4, <2>1
  <2>3. QED
    BY <1>7, <2>1, <2>2
<1>12. v1.ok /\ second.ok => /\ v1.value.account.name # second.value.account.name
                             /\ v1.value.binding.name # second.value.binding.name
  <2>1. /\ built(owner).account.name = owner.name \o ServiceAccountSuffix
        /\ built(owner).binding.name = owner.name \o RoleBindingSuffix
        /\ built(other).account.name = other.name \o ServiceAccountSuffix
        /\ built(other).binding.name = other.name \o RoleBindingSuffix
    BY <1>4
  <2>2. PICK w, x : w = built(owner) /\ x = built(other)
    OBVIOUS
  <2>3. w.account.name # x.account.name /\ w.binding.name # x.binding.name
    BY <1>10, <2>1, <2>2, Zenon
  <2>4. QED
    BY <1>7, <1>8, <2>2, <2>3
<1>13. QED
  BY <1>6, <1>9, <1>11, <1>12 DEF v1, second, v2, labels

(***************************************************************************)
(* Recommended labels and selectors                                        *)
(***************************************************************************)
\* The keys of the recommended labels.
LabelKeys == {"instance", "name", "version", "component", "role-group", "managed-by", "vendor"}

\* Labels that are inserted have valid values.
LEMMA InsertedAreValid ==
  ASSUME NEW n \in Nat, NEW pairs, DOMAIN pairs = 1..n, InsertAll(pairs).ok,
         \A i \in 1..n : pairs[i].value \in Seq(Characters)
  PROVE  \A i \in 1..n : LabelValue(pairs[i].value).ok
<1> DEFINE invalid == {i \in 1..n : ~LabelValue(pairs[i].value).ok}
<1>1. InsertAll(pairs) = IF invalid # {} THEN LabelValue(pairs[Min(invalid)].value)
                         ELSE Ok([k \in {pairs[i].key : i \in 1..n} |->
                                    pairs[Max({i \in 1..n : pairs[i].key = k})].value])
  BY Zenon DEF InsertAll
<1>2. ASSUME invalid # {} PROVE FALSE
  <2>1. invalid \subseteq Nat
    OBVIOUS
  <2>2. \E i \in invalid : \A j \in invalid : i <= j
    BY <1>2, <2>1, LeastNumber
  <2>3. Min(invalid) \in invalid
    BY <2>2 DEF Min
  <2>4. InsertAll(pairs) = LabelValue(pairs[Min(invalid)].value)
    BY <1>1, <1>2, Zenon
  <2>5. ~LabelValue(pairs[Min(invalid)].value).ok
    BY <2>3
  <2> HIDE DEF invalid
  <2>6. QED
    BY <2>4, <2>5
<1>3. QED
  BY <1>2

\* The labels with some keys.
Chosen(keys, n, w) == [k \in {keys[i] : i \in 1..n} |-> w[k]]

\* Labels with keys that differ and valid values are what is inserted.
LEMMA InsertedAre ==
  ASSUME NEW n \in Nat, NEW keys, DOMAIN keys = 1..n, NEW w, NEW pairs, DOMAIN pairs = 1..n,
         \A i, j \in 1..n : keys[i] = keys[j] => i = j,
         \A i \in 1..n : pairs[i].key = keys[i] /\ pairs[i].value = w[keys[i]],
         \A i \in 1..n : LabelValue(pairs[i].value).ok
  PROVE  InsertAll(pairs) = Ok(Chosen(keys, n, w))
<1> DEFINE invalid == {i \in 1..n : ~LabelValue(pairs[i].value).ok}
           places(k) == {i \in 1..n : pairs[i].key = k}
<1>1. InsertAll(pairs) = IF invalid # {} THEN LabelValue(pairs[Min(invalid)].value)
                         ELSE Ok([k \in {pairs[i].key : i \in 1..n} |-> pairs[Max(places(k))].value])
  BY Zenon DEF InsertAll
<1>2. invalid = {}
  OBVIOUS
<1>3. ASSUME NEW i \in 1..n PROVE pairs[Max(places(keys[i]))].value = w[keys[i]]
  <2>1. places(keys[i]) = {i}
    OBVIOUS
  <2>2. Max({i}) = i
    <3>1. \E x \in {i} : \A y \in {i} : y <= x
      OBVIOUS
    <3>2. Max({i}) \in {i}
      BY <3>1 DEF Max
    <3>3. QED
      BY <3>2
  <2>3. QED
    BY <2>1, <2>2
<1>4. {pairs[i].key : i \in 1..n} = {keys[i] : i \in 1..n}
  OBVIOUS
<1> HIDE DEF invalid, places
<1>5. \A k \in {keys[i] : i \in 1..n} : pairs[Max(places(k))].value = w[k]
  BY <1>3
<1>6. [k \in {keys[i] : i \in 1..n} |-> pairs[Max(places(k))].value]
        = [k \in {keys[i] : i \in 1..n} |-> w[k]]
  BY <1>5
<1>7. QED
  BY <1>1, <1>2, <1>4, <1>6, Zenon DEF Chosen

\* The label of each key.
LEMMA LabelsByKey ==
  ASSUME NEW o
  PROVE  /\ LabelFor("instance", o) = Pair("instance", o.cluster)
         /\ LabelFor("name", o) = Pair("name", o.product)
         /\ LabelFor("version", o) = Pair("version", o.version)
         /\ LabelFor("component", o) = Pair("component", o.role)
         /\ LabelFor("role-group", o) = Pair("role-group", o.group)
         /\ LabelFor("vendor", o) = Pair("vendor", <<"A">>)
         /\ LabelFor("managed-by", o)
              = Pair("managed-by", full_controller_name(o.operator, o.controller).value)
         /\ \A k \in LabelKeys : LabelFor(k, o).key = k
<1>1. LabelFor("instance", o) = Pair("instance", o.cluster)
  BY DEF LabelFor
<1>2. LabelFor("name", o) = Pair("name", o.product)
  BY DEF LabelFor
<1>3. LabelFor("version", o) = Pair("version", o.version)
  BY DEF LabelFor
<1>4. LabelFor("component", o) = Pair("component", o.role)
  BY DEF LabelFor
<1>5. LabelFor("role-group", o) = Pair("role-group", o.group)
  BY DEF LabelFor
<1>6. LabelFor("vendor", o) = Pair("vendor", <<"A">>)
  BY DEF LabelFor
<1>7. LabelFor("managed-by", o)
        = Pair("managed-by", full_controller_name(o.operator, o.controller).value)
  BY DEF LabelFor
<1>8. \A k, v : Pair(k, v).key = k
  BY DEF Pair
<1>9. \A k \in LabelKeys : LabelFor(k, o).key = k
  BY <1>8 DEF LabelFor
<1>10. QED
  BY <1>1, <1>2, <1>3, <1>4, <1>5, <1>6, <1>7, <1>9

\* The value of each label.
LEMMA LabelValuesAre ==
  ASSUME NEW o
  PROVE  /\ LabelFor("instance", o).value = o.cluster
         /\ LabelFor("name", o).value = o.product
         /\ LabelFor("version", o).value = o.version
         /\ LabelFor("component", o).value = o.role
         /\ LabelFor("role-group", o).value = o.group
         /\ LabelFor("vendor", o).value = <<"A">>
         /\ LabelFor("managed-by", o).value = full_controller_name(o.operator, o.controller).value
<1>1. LabelFor("instance", o).value = o.cluster
  BY DEF LabelFor, Pair
<1>2. LabelFor("name", o).value = o.product
  BY DEF LabelFor, Pair
<1>3. LabelFor("version", o).value = o.version
  BY DEF LabelFor, Pair
<1>4. LabelFor("component", o).value = o.role
  BY DEF LabelFor, Pair
<1>5. LabelFor("role-group", o).value = o.group
  BY DEF LabelFor, Pair
<1>6. LabelFor("vendor", o).value = <<"A">>
  BY DEF LabelFor, Pair
<1>7. LabelFor("managed-by", o).value = full_controller_name(o.operator, o.controller).value
  BY DEF LabelFor, Pair
<1>8. QED
  BY <1>1, <1>2, <1>3, <1>4, <1>5, <1>6, <1>7, Zenon

\* The types that accept label values.
LEMMA LabelTypesAre ==
  ASSUME NEW type \in {"ProductVersion", "ControllerName", "OperatorName"},
         NEW text \in Seq(Characters)
  PROVE  /\ from_str(type, text).ok <=> LabelValue(text).ok
         /\ from_str(type, text).ok => from_str(type, text) = Ok(text)
<1>1. type \in TypeNames
  BY TypeNamesAre
<1>2. PICK z \in Attributes : z = Is("is_valid_label_value") /\ z.kind = "is_valid_label_value"
  BY AttributesAre
<1>3. AttributesOf(type) = <<z>>
  BY <1>2, OperatorNameTypesAre
<1>4. Len(AttributesOf(type)) = 1 /\ AttributesOf(type)[1] = z
  BY <1>3, ShortLists
<1>5. Holds(z, type, text) <=> LabelValue(text).ok
  BY <1>2 DEF Holds
<1>6. \A i \in 1..1 : i = 1
  OBVIOUS
<1>7. 1 \in 1..1
  OBVIOUS
<1>8. QED
  BY <1>1, <1>4, <1>5, <1>6, <1>7, AcceptedWhenAllHold

\* The name of a controller that the labels show.
LEMMA ControllerNameIs ==
  ASSUME NEW operator \in Seq(Characters), NEW controller \in Seq(Characters)
  PROVE  LET full == format_full_controller_name(operator, controller)
             result == full_controller_name(operator, controller)
         IN  /\ full \in Seq(Characters)
             /\ LabelValue(full).ok => result = Ok(full)
             /\ LabelValue(operator).ok =>
                  result.ok /\ result.value \in Seq(Characters) /\ LabelValue(result.value).ok
<1> DEFINE full == format_full_controller_name(operator, controller)
           result == full_controller_name(operator, controller)
<1>1. full \in Seq(Characters)
  <2>1. "_" \in Characters
    BY DEF Characters
  <2>2. PICK d \in Seq(Characters) : d = <<"_">>
    BY <2>1, OneCharacter
  <2>3. (operator \o d) \o controller \in Seq(Characters)
    BY JoinedTexts, Zenon
  <2>4. QED
    BY <2>2, <2>3, Zenon DEF format_full_controller_name
<1>2. result = from_str("ControllerName", IF from_str("ControllerName", full).ok THEN full ELSE operator)
  BY Zenon DEF full_controller_name
<1> HIDE DEF full, result
<1>3. /\ from_str("ControllerName", full).ok <=> LabelValue(full).ok
      /\ from_str("ControllerName", full).ok => from_str("ControllerName", full) = Ok(full)
      /\ from_str("ControllerName", operator).ok <=> LabelValue(operator).ok
      /\ from_str("ControllerName", operator).ok => from_str("ControllerName", operator) = Ok(operator)
  <2>1. "ControllerName" \in {"ProductVersion", "ControllerName", "OperatorName"}
    OBVIOUS
  <2>2. QED
    BY <1>1, <2>1, LabelTypesAre
<1>4. \A v : Ok(v).ok /\ Ok(v).value = v
  BY DEF Ok
<1>5. LabelValue(full).ok => result = Ok(full)
  BY <1>1, <1>2, <1>3, Zenon
<1>6. ~LabelValue(full).ok => result = from_str("ControllerName", operator)
  BY <1>1, <1>2, <1>3, Zenon
<1>7. ~LabelValue(full).ok /\ LabelValue(operator).ok => result = Ok(operator)
  BY <1>3, <1>6, Zenon
<1>8. LabelValue(operator).ok =>
        result.ok /\ result.value \in Seq(Characters) /\ LabelValue(result.value).ok
  <2>1. CASE LabelValue(full).ok
    <3>1. result.ok /\ result.value = full
      BY <1>4, <1>5, <2>1
    <3>2. QED
      BY <1>1, <2>1, <3>1
  <2>2. CASE ~LabelValue(full).ok
    <3>1. LabelValue(operator).ok => result.ok /\ result.value = operator
      BY <1>4, <1>7, <2>2
    <3>2. QED
      BY <3>1
  <2>3. QED
    BY <2>1, <2>2
<1>9. QED
  BY <1>1, <1>5, <1>8 DEF full, result

\* The values of the labels of an object.
LabelsOf(o) == [k \in LabelKeys |-> LabelFor(k, o).value]

\* Some of them.
LabelsWith(o, set) == [k \in set |-> LabelsOf(o)[k]]

\* The vendor is a label value.
LEMMA VendorIs ==
  <<"A">> \in Seq(Characters) /\ LabelValue(<<"A">>).ok
<1>1. "A" \in Characters
  BY DEF Characters
<1>2. PICK d \in Seq(Characters) : d = <<"A">> /\ Len(d) = 1 /\ d[1] = "A"
  BY <1>1, OneCharacter
<1>3. Allowed(d)
  <2>1. \A i \in 1..1 : i = 1
    OBVIOUS
  <2>2. d # <<>>
    BY <1>2, EmptyText
  <2>3. QED
    BY <1>2, <2>1, <2>2 DEF Allowed, StartsAllowed, AlNum
<1>4. 1 <= LabelMax
  BY NameLimits, NameLengths
<1>5. d # <<>> /\ Bytes(d) <= LabelMax /\ IsAscii(d) /\ LABEL_VALUE_REGEX(d)
  BY <1>2, <1>3, <1>4, AllowedIs DEF Allowed
<1>6. LabelValue(d).ok
  BY <1>5, KeyNameIs
<1>7. QED
  BY <1>2, <1>6

\* The parts of a typed object are label values, and so are all its labels.
LEMMA TypedLabelsAre ==
  ASSUME NEW o \in LabelInputs, TypedParts(o)
  PROVE  /\ full_controller_name(o.operator, o.controller).ok
         /\ \A k \in LabelKeys : LabelFor(k, o).value \in Seq(Characters) /\ LabelValue(LabelFor(k, o).value).ok
<1>1. /\ o.cluster \in Seq(Characters) /\ o.product \in Seq(Characters)
      /\ o.version \in Seq(Characters) /\ o.operator \in Seq(Characters)
      /\ o.controller \in Seq(Characters) /\ o.role \in Seq(Characters) /\ o.group \in Seq(Characters)
  BY LabelAssumption
<1>2. \A v : Ok(v).ok
  BY DEF Ok
<1>3. LabelValue(o.cluster).ok
  BY <1>1, <1>2, ClusterNameIs DEF TypedParts
<1>4. LabelValue(o.product).ok
  BY <1>1, <1>2, ProductNameIs DEF TypedParts
<1>5. LabelValue(o.version).ok /\ LabelValue(o.operator).ok
  BY <1>1, LabelTypesAre DEF TypedParts
<1>6. LabelValue(o.role).ok /\ LabelValue(o.group).ok
  BY <1>1, <1>2, RoleNameIs DEF TypedParts
<1>7. PICK r : /\ r = full_controller_name(o.operator, o.controller)
               /\ r.ok /\ r.value \in Seq(Characters) /\ LabelValue(r.value).ok
  BY <1>1, <1>5, ControllerNameIs
<1>8. \A k, v : Pair(k, v).value = v
  BY DEF Pair
<1>9. <<"A">> \in Seq(Characters) /\ LabelValue(<<"A">>).ok
  BY VendorIs
<1>10. \A k \in LabelKeys : LabelFor(k, o).value \in {o.cluster, o.product, o.version, o.role, o.group, <<"A">>, r.value}
  <2>1. /\ LabelFor("instance", o).value = o.cluster /\ LabelFor("name", o).value = o.product
        /\ LabelFor("version", o).value = o.version /\ LabelFor("component", o).value = o.role
        /\ LabelFor("role-group", o).value = o.group /\ LabelFor("vendor", o).value = <<"A">>
    BY LabelValuesAre, Zenon
  <2>2. LabelFor("managed-by", o).value = r.value
    BY <1>7, LabelValuesAre, Zenon
  <2>3. QED
    BY <2>1, <2>2 DEF LabelKeys
<1>11. QED
  BY <1>1, <1>3, <1>4, <1>5, <1>6, <1>7, <1>9, <1>10

\* The labels of a list of keys that differ.
LEMMA LabelSetIs ==
  ASSUME NEW o, full_controller_name(o.operator, o.controller).ok,
         NEW n \in Nat, NEW keys, DOMAIN keys = 1..n, \A i \in 1..n : keys[i] \in LabelKeys,
         \A i, j \in 1..n : keys[i] = keys[j] => i = j,
         \A k \in LabelKeys : LabelValue(LabelFor(k, o).value).ok
  PROVE  LabelSet(keys, o) = Ok(Chosen(keys, n, LabelsOf(o)))
<1> DEFINE pairs == [i \in DOMAIN keys |-> LabelFor(keys[i], o)]
           w == LabelsOf(o)
<1>1. LabelSet(keys, o) = InsertAll(pairs)
  BY Zenon DEF LabelSet, AndThen
<1>2. DOMAIN pairs = 1..n /\ \A i \in 1..n : pairs[i] = LabelFor(keys[i], o)
  OBVIOUS
<1>3. \A k \in LabelKeys : LabelFor(k, o).key = k /\ LabelFor(k, o).value = w[k]
  BY LabelsByKey DEF LabelsOf
<1> HIDE DEF pairs, w
<1>4. \A i \in 1..n : pairs[i].key = keys[i] /\ pairs[i].value = w[keys[i]]
  BY <1>2, <1>3
<1>5. \A i \in 1..n : LabelValue(pairs[i].value).ok
  BY <1>2
<1>6. InsertAll(pairs) = Ok(Chosen(keys, n, w))
  BY <1>2, <1>4, <1>5, InsertedAre
<1>7. QED
  BY <1>1, <1>6 DEF w

\* Seven labels one after the other.
LEMMA ListsOfLabels ==
  ASSUME NEW V, NEW a \in V, NEW b \in V, NEW c \in V, NEW d \in V, NEW e \in V, NEW f \in V, NEW g \in V
  PROVE  LET three == Append(<<a, b>>, c)
             four == Append(three, d)
             seven == four \o <<e, f, g>>
         IN  /\ DOMAIN three = 1..3 /\ three[1] = a /\ three[2] = b /\ three[3] = c
             /\ DOMAIN four = 1..4 /\ four[1] = a /\ four[2] = b /\ four[3] = c /\ four[4] = d
             /\ DOMAIN seven = 1..7 /\ seven[1] = a /\ seven[2] = b /\ seven[3] = c /\ seven[4] = d
             /\ seven[5] = e /\ seven[6] = f /\ seven[7] = g
<1>1. PICK s \in Seq(V) : s = <<a, b>> /\ Len(s) = 2 /\ s[1] = a /\ s[2] = b
  <2>1. <<a, b>> \in Seq(V) /\ Len(<<a, b>>) = 2 /\ <<a, b>>[1] = a /\ <<a, b>>[2] = b
    OBVIOUS
  <2>2. QED
    BY <2>1, Zenon
<1>2. PICK t \in Seq(V) : /\ t = <<e, f, g>> /\ Len(t) = 3 /\ t[1] = e /\ t[2] = f /\ t[3] = g
  <2>1. /\ <<e, f, g>> \in Seq(V) /\ Len(<<e, f, g>>) = 3
        /\ <<e, f, g>>[1] = e /\ <<e, f, g>>[2] = f /\ <<e, f, g>>[3] = g
    OBVIOUS
  <2>2. QED
    BY <2>1, Zenon
<1>3. PICK u \in Seq(V) : u = Append(s, c) /\ Len(u) = 3 /\ u[1] = a /\ u[2] = b /\ u[3] = c
  <2>1. /\ Append(s, c) \in Seq(V) /\ Len(Append(s, c)) = 3
        /\ Append(s, c)[1] = a /\ Append(s, c)[2] = b /\ Append(s, c)[3] = c
    BY <1>1, AppendProperties
  <2>2. QED
    BY <2>1, Zenon
<1>4. PICK v \in Seq(V) : /\ v = Append(u, d) /\ Len(v) = 4 /\ v[1] = a /\ v[2] = b /\ v[3] = c
                         /\ v[4] = d
  <2>1. /\ Append(u, d) \in Seq(V) /\ Len(Append(u, d)) = 4
        /\ Append(u, d)[1] = a /\ Append(u, d)[2] = b /\ Append(u, d)[3] = c /\ Append(u, d)[4] = d
    BY <1>3, AppendProperties
  <2>2. QED
    BY <2>1, Zenon
<1>5. PICK w \in Seq(V) : /\ w = v \o t /\ Len(w) = 7 /\ w[1] = a /\ w[2] = b /\ w[3] = c
                         /\ w[4] = d /\ w[5] = e /\ w[6] = f /\ w[7] = g
  <2>1. /\ v \o t \in Seq(V) /\ Len(v \o t) = 7
        /\ (v \o t)[1] = a /\ (v \o t)[2] = b /\ (v \o t)[3] = c /\ (v \o t)[4] = d
        /\ (v \o t)[5] = e /\ (v \o t)[6] = f /\ (v \o t)[7] = g
    BY <1>2, <1>4, ConcatProperties
  <2>2. QED
    BY <2>1, Zenon
<1>6. DOMAIN u = 1..3 /\ DOMAIN v = 1..4 /\ DOMAIN w = 1..7
  <2>1. \A x \in Seq(V) : DOMAIN x = 1..Len(x)
    OBVIOUS
  <2>2. QED
    BY <1>3, <1>4, <1>5, <2>1, Zenon
<1>7. u = Append(<<a, b>>, c) /\ v = Append(Append(<<a, b>>, c), d)
      /\ w = Append(Append(<<a, b>>, c), d) \o <<e, f, g>>
  BY <1>1, <1>2, <1>3, <1>4, <1>5, Zenon
<1>8. QED
  BY <1>3, <1>4, <1>5, <1>6, <1>7, Zenon

\* A list of keys that differ, and the keys in it.
IsListOf(keys, n, set) ==
  /\ DOMAIN keys = 1..n /\ \A i \in 1..n : keys[i] \in LabelKeys
  /\ \A i, j \in 1..n : keys[i] = keys[j] => i = j
  /\ {keys[i] : i \in 1..n} = set

\* The lists of keys of the label sets.
LEMMA ListsOfKeys ==
  /\ IsListOf(<<"instance", "name", "component">>, 3, {"instance", "name", "component"})
  /\ IsListOf(<<"instance", "name", "component", "role-group">>, 4,
              {"instance", "name", "component", "role-group"})
  /\ IsListOf(<<"instance", "name", "version", "managed-by", "vendor">>, 5,
              {"instance", "name", "version", "managed-by", "vendor"})
  /\ IsListOf(<<"instance", "name", "version", "component", "managed-by", "vendor">>, 6,
              {"instance", "name", "version", "component", "managed-by", "vendor"})
  /\ IsListOf(<<"instance", "name", "component", "role-group", "managed-by", "vendor">>, 6,
              {"instance", "name", "component", "role-group", "managed-by", "vendor"})
  /\ IsListOf(<<"instance", "name", "version", "component", "role-group", "managed-by", "vendor">>, 7,
              LabelKeys)
  /\ IsListOf(<<"instance", "name", "component", "role-group", "managed-by", "version", "vendor">>, 7,
              LabelKeys)
<1>1. IsListOf(<<"instance", "name", "component">>, 3, {"instance", "name", "component"})
  BY DEF IsListOf, LabelKeys
<1>2. IsListOf(<<"instance", "name", "component", "role-group">>, 4,
               {"instance", "name", "component", "role-group"})
  BY DEF IsListOf, LabelKeys
<1>3. IsListOf(<<"instance", "name", "version", "managed-by", "vendor">>, 5,
               {"instance", "name", "version", "managed-by", "vendor"})
  BY DEF IsListOf, LabelKeys
<1>4. IsListOf(<<"instance", "name", "version", "component", "managed-by", "vendor">>, 6,
               {"instance", "name", "version", "component", "managed-by", "vendor"})
  BY DEF IsListOf, LabelKeys
<1>5. IsListOf(<<"instance", "name", "component", "role-group", "managed-by", "vendor">>, 6,
               {"instance", "name", "component", "role-group", "managed-by", "vendor"})
  BY DEF IsListOf, LabelKeys
<1>6. IsListOf(<<"instance", "name", "version", "component", "role-group", "managed-by", "vendor">>, 7,
               LabelKeys)
  BY DEF IsListOf, LabelKeys
<1>7. IsListOf(<<"instance", "name", "component", "role-group", "managed-by", "version", "vendor">>, 7,
               LabelKeys)
  BY DEF IsListOf, LabelKeys
<1>8. QED
  BY <1>1, <1>2, <1>3, <1>4, <1>5, <1>6, <1>7

\* A label set of a list of keys.
LEMMA LabelSetOfList ==
  ASSUME NEW o, full_controller_name(o.operator, o.controller).ok,
         NEW n \in Nat, NEW keys, NEW set, IsListOf(keys, n, set),
         \A k \in LabelKeys : LabelValue(LabelFor(k, o).value).ok
  PROVE  LabelSet(keys, o) = Ok(LabelsWith(o, set))
<1>1. /\ DOMAIN keys = 1..n /\ \A i \in 1..n : keys[i] \in LabelKeys
      /\ \A i, j \in 1..n : keys[i] = keys[j] => i = j
  BY DEF IsListOf
<1>2. LabelSet(keys, o) = Ok(Chosen(keys, n, LabelsOf(o)))
  BY <1>1, LabelSetIs
<1>3. {keys[i] : i \in 1..n} = set
  BY DEF IsListOf
<1>4. QED
  BY <1>2, <1>3, Zenon DEF Chosen, LabelsWith

\* Pairs that are the labels of a list of keys.
LEMMA InsertedList ==
  ASSUME NEW o, NEW n \in Nat, NEW keys, NEW set, IsListOf(keys, n, set),
         \A k \in LabelKeys : LabelValue(LabelFor(k, o).value).ok,
         NEW pairs, DOMAIN pairs = 1..n, \A i \in 1..n : pairs[i] = LabelFor(keys[i], o)
  PROVE  InsertAll(pairs) = Ok(LabelsWith(o, set))
<1> DEFINE w == LabelsOf(o)
<1>1. /\ DOMAIN keys = 1..n /\ \A i \in 1..n : keys[i] \in LabelKeys
      /\ \A i, j \in 1..n : keys[i] = keys[j] => i = j
  BY DEF IsListOf
<1>2. \A k \in LabelKeys : LabelFor(k, o).key = k /\ LabelFor(k, o).value = w[k]
  BY LabelsByKey DEF LabelsOf
<1> HIDE DEF w
<1>3. \A i \in 1..n : pairs[i].key = keys[i] /\ pairs[i].value = w[keys[i]]
  BY <1>1, <1>2
<1>4. \A i \in 1..n : LabelValue(pairs[i].value).ok
  BY <1>1
<1>5. InsertAll(pairs) = Ok(Chosen(keys, n, w))
  BY <1>1, <1>3, <1>4, InsertedAre
<1>6. {keys[i] : i \in 1..n} = set
  BY DEF IsListOf
<1>7. QED
  BY <1>5, <1>6, Zenon DEF Chosen, LabelsWith, w

\* The seven labels of the first functions.
LEMMA FirstLabelsAre ==
  ASSUME NEW o
  PROVE  LET full == format_full_controller_name(o.operator, o.controller)
             r == recommended(o)
             s == role_selector(o)
             g == role_group_selector(o)
         IN  /\ DOMAIN s = 1..3 /\ s[1] = LabelFor("instance", o) /\ s[2] = LabelFor("name", o)
             /\ s[3] = LabelFor("component", o)
             /\ DOMAIN g = 1..4 /\ g[1] = LabelFor("instance", o) /\ g[2] = LabelFor("name", o)
             /\ g[3] = LabelFor("component", o) /\ g[4] = LabelFor("role-group", o)
             /\ DOMAIN r = 1..7 /\ r[1] = LabelFor("instance", o) /\ r[2] = LabelFor("name", o)
             /\ r[3] = LabelFor("component", o) /\ r[4] = LabelFor("role-group", o)
             /\ r[5] = Pair("managed-by", full) /\ r[6] = LabelFor("version", o)
             /\ r[7] = LabelFor("vendor", o)
<1> DEFINE full == format_full_controller_name(o.operator, o.controller)
<1>1. PICK a, b, c, d, e, f, g :
        /\ a = Pair("instance", o.cluster) /\ b = Pair("name", o.product)
        /\ c = Pair("component", o.role) /\ d = Pair("role-group", o.group)
        /\ e = Pair("managed-by", full)
        /\ f = Pair("version", o.version) /\ g = Pair("vendor", <<"A">>)
  OBVIOUS
<1>2. a = LabelFor("instance", o) /\ b = LabelFor("name", o)
  BY <1>1, LabelsByKey, Zenon
<1>3. c = LabelFor("component", o) /\ d = LabelFor("role-group", o)
  BY <1>1, LabelsByKey, Zenon
<1>4. f = LabelFor("version", o) /\ g = LabelFor("vendor", o)
  BY <1>1, LabelsByKey, Zenon
<1>5. /\ role_selector(o) = Append(<<a, b>>, c)
      /\ role_group_selector(o) = Append(Append(<<a, b>>, c), d)
      /\ recommended(o) = Append(Append(<<a, b>>, c), d) \o <<e, f, g>>
  BY <1>1, Zenon DEF recommended, role_group_selector, role_selector, common
<1> DEFINE V == {a, b, c, d, e, f, g}
<1>6. a \in V /\ b \in V /\ c \in V /\ d \in V /\ e \in V /\ f \in V /\ g \in V
  OBVIOUS
<1> HIDE DEF V
<1>7. LET three == Append(<<a, b>>, c)
          four == Append(three, d)
          seven == four \o <<e, f, g>>
      IN  /\ DOMAIN three = 1..3 /\ three[1] = a /\ three[2] = b /\ three[3] = c
          /\ DOMAIN four = 1..4 /\ four[1] = a /\ four[2] = b /\ four[3] = c /\ four[4] = d
          /\ DOMAIN seven = 1..7 /\ seven[1] = a /\ seven[2] = b /\ seven[3] = c /\ seven[4] = d
          /\ seven[5] = e /\ seven[6] = f /\ seven[7] = g
  BY <1>6, ListsOfLabels
<1>8. PICK r, s, t : r = recommended(o) /\ s = role_selector(o) /\ t = role_group_selector(o)
  OBVIOUS
<1>9. /\ DOMAIN s = 1..3 /\ s[1] = a /\ s[2] = b /\ s[3] = c
      /\ DOMAIN t = 1..4 /\ t[1] = a /\ t[2] = b /\ t[3] = c /\ t[4] = d
      /\ DOMAIN r = 1..7 /\ r[1] = a /\ r[2] = b /\ r[3] = c /\ r[4] = d
      /\ r[5] = e /\ r[6] = f /\ r[7] = g
  BY <1>5, <1>7, <1>8, Zenon
<1>10. e = Pair("managed-by", full)
  BY <1>1
<1>11. QED
  BY <1>2, <1>3, <1>4, <1>8, <1>9, <1>10, Zenon

\* Labels that are part of others.
PartOfLabels(sub, super) == \A k \in DOMAIN sub : k \in DOMAIN super /\ sub[k] = super[k]

\* Fewer keys, fewer labels.
LEMMA FewerLabels ==
  ASSUME NEW A, NEW B, A \subseteq B, NEW o
  PROVE  PartOfLabels(LabelsWith(o, A), LabelsWith(o, B))
BY DEF PartOfLabels, LabelsWith

\* The labels of the first functions, if they are accepted.
LEMMA AcceptedLabelsAre ==
  ASSUME NEW o \in LabelInputs, InsertAll(recommended(o)).ok
  PROVE  /\ full_controller_name(o.operator, o.controller).ok
         /\ \A k \in LabelKeys : LabelValue(LabelFor(k, o).value).ok
         /\ InsertAll(recommended(o)) = Ok(LabelsWith(o, LabelKeys))
         /\ InsertAll(role_selector(o)) = Ok(LabelsWith(o, {"instance", "name", "component"}))
         /\ InsertAll(role_group_selector(o))
              = Ok(LabelsWith(o, {"instance", "name", "component", "role-group"}))
<1> DEFINE full == format_full_controller_name(o.operator, o.controller)
           c == full_controller_name(o.operator, o.controller)
<1>1. /\ o.cluster \in Seq(Characters) /\ o.product \in Seq(Characters)
      /\ o.version \in Seq(Characters) /\ o.operator \in Seq(Characters)
      /\ o.controller \in Seq(Characters) /\ o.role \in Seq(Characters) /\ o.group \in Seq(Characters)
  BY LabelAssumption
<1>2. full \in Seq(Characters) /\ (LabelValue(full).ok => c = Ok(full))
  BY <1>1, ControllerNameIs
<1>3. PICK r, s, g :
        /\ r = recommended(o) /\ s = role_selector(o) /\ g = role_group_selector(o)
        /\ DOMAIN s = 1..3 /\ s[1] = LabelFor("instance", o) /\ s[2] = LabelFor("name", o)
        /\ s[3] = LabelFor("component", o)
        /\ DOMAIN g = 1..4 /\ g[1] = LabelFor("instance", o) /\ g[2] = LabelFor("name", o)
        /\ g[3] = LabelFor("component", o) /\ g[4] = LabelFor("role-group", o)
        /\ DOMAIN r = 1..7 /\ r[1] = LabelFor("instance", o) /\ r[2] = LabelFor("name", o)
        /\ r[3] = LabelFor("component", o) /\ r[4] = LabelFor("role-group", o)
        /\ r[5] = Pair("managed-by", full) /\ r[6] = LabelFor("version", o)
        /\ r[7] = LabelFor("vendor", o)
  BY FirstLabelsAre
<1> HIDE DEF full, c
<1>4. \A k, v : Pair(k, v).key = k /\ Pair(k, v).value = v
  BY DEF Pair
<1>5. /\ LabelFor("instance", o).value = o.cluster /\ LabelFor("name", o).value = o.product
      /\ LabelFor("component", o).value = o.role /\ LabelFor("role-group", o).value = o.group
      /\ LabelFor("version", o).value = o.version
  BY LabelValuesAre, Zenon
<1>6. LabelFor("vendor", o).value = <<"A">> /\ LabelFor("managed-by", o) = Pair("managed-by", c.value)
  <2>1. LabelFor("vendor", o).value = <<"A">>
    BY LabelValuesAre, Zenon
  <2>2. LabelFor("managed-by", o) = Pair("managed-by", c.value)
    BY LabelsByKey, Zenon DEF c
  <2>3. QED
    BY <2>1, <2>2, Zenon
<1>7. <<"A">> \in Seq(Characters)
  BY VendorIs
<1>8. \A i \in 1..7 : r[i].value \in Seq(Characters)
  <2>1. \A i \in 1..7 : i = 1 \/ i = 2 \/ i = 3 \/ i = 4 \/ i = 5 \/ i = 6 \/ i = 7
    OBVIOUS
  <2>2. /\ r[1].value \in Seq(Characters) /\ r[2].value \in Seq(Characters)
        /\ r[3].value \in Seq(Characters) /\ r[4].value \in Seq(Characters)
    BY <1>1, <1>3, <1>5
  <2>3. /\ r[5].value \in Seq(Characters) /\ r[6].value \in Seq(Characters)
        /\ r[7].value \in Seq(Characters)
    <3>1. r[5].value = full
      BY <1>3, <1>4
    <3>2. r[6].value = o.version /\ r[7].value = <<"A">>
      BY <1>3, <1>5, <1>6, Zenon
    <3>3. QED
      BY <1>1, <1>2, <1>7, <3>1, <3>2, Zenon
  <2>4. QED
    BY <2>1, <2>2, <2>3
<1>9. \A i \in 1..7 : LabelValue(r[i].value).ok
  BY <1>3, <1>8, InsertedAreValid
<1>10. c = Ok(full)
  <2>1. LabelValue(r[5].value).ok
    BY <1>9
  <2>2. r[5].value = full
    BY <1>3, <1>4
  <2>3. QED
    BY <1>2, <2>1, <2>2, Zenon
<1>11. c.ok /\ c.value = full
  BY <1>10 DEF Ok
<1>12. r[5] = LabelFor("managed-by", o)
  BY <1>3, <1>6, <1>11, Zenon
<1>13. \A k \in LabelKeys : LabelValue(LabelFor(k, o).value).ok
  <2>1. /\ LabelValue(LabelFor("instance", o).value).ok /\ LabelValue(LabelFor("name", o).value).ok
        /\ LabelValue(LabelFor("component", o).value).ok
        /\ LabelValue(LabelFor("role-group", o).value).ok
    <3>1. 1 \in 1..7 /\ 2 \in 1..7 /\ 3 \in 1..7 /\ 4 \in 1..7
      OBVIOUS
    <3>2. QED
      BY <1>3, <1>9, <3>1, Zenon
  <2>2. /\ LabelValue(LabelFor("managed-by", o).value).ok /\ LabelValue(LabelFor("version", o).value).ok
        /\ LabelValue(LabelFor("vendor", o).value).ok
    <3>1. 5 \in 1..7 /\ 6 \in 1..7 /\ 7 \in 1..7
      OBVIOUS
    <3>2. QED
      BY <1>3, <1>9, <1>12, <3>1, Zenon
  <2>3. QED
    BY <2>1, <2>2 DEF LabelKeys
<1> DEFINE K == <<"instance", "name", "component", "role-group", "managed-by", "version", "vendor">>
           K3 == <<"instance", "name", "component">>
           K4 == <<"instance", "name", "component", "role-group">>
<1>14. /\ IsListOf(K, 7, LabelKeys) /\ IsListOf(K3, 3, {"instance", "name", "component"})
       /\ IsListOf(K4, 4, {"instance", "name", "component", "role-group"})
  BY ListsOfKeys, Zenon
<1>15. \A i \in 1..7 : r[i] = LabelFor(K[i], o)
  <2>1. \A i \in 1..7 : i = 1 \/ i = 2 \/ i = 3 \/ i = 4 \/ i = 5 \/ i = 6 \/ i = 7
    OBVIOUS
  <2>2. /\ K[1] = "instance" /\ K[2] = "name" /\ K[3] = "component" /\ K[4] = "role-group"
        /\ K[5] = "managed-by" /\ K[6] = "version" /\ K[7] = "vendor"
    OBVIOUS
  <2> HIDE DEF K
  <2>3. /\ r[1] = LabelFor(K[1], o) /\ r[2] = LabelFor(K[2], o) /\ r[3] = LabelFor(K[3], o)
        /\ r[4] = LabelFor(K[4], o) /\ r[5] = LabelFor(K[5], o) /\ r[6] = LabelFor(K[6], o)
        /\ r[7] = LabelFor(K[7], o)
    BY <1>3, <1>12, <2>2, Zenon
  <2>4. QED
    BY <2>1, <2>3
<1>16. \A i \in 1..3 : s[i] = LabelFor(K3[i], o)
  <2>1. \A i \in 1..3 : i = 1 \/ i = 2 \/ i = 3
    OBVIOUS
  <2>2. K3[1] = "instance" /\ K3[2] = "name" /\ K3[3] = "component"
    OBVIOUS
  <2> HIDE DEF K3
  <2>3. s[1] = LabelFor(K3[1], o) /\ s[2] = LabelFor(K3[2], o) /\ s[3] = LabelFor(K3[3], o)
    BY <1>3, <2>2, Zenon
  <2>4. QED
    BY <2>1, <2>3
<1>17. \A i \in 1..4 : g[i] = LabelFor(K4[i], o)
  <2>1. \A i \in 1..4 : i = 1 \/ i = 2 \/ i = 3 \/ i = 4
    OBVIOUS
  <2>2. K4[1] = "instance" /\ K4[2] = "name" /\ K4[3] = "component" /\ K4[4] = "role-group"
    OBVIOUS
  <2> HIDE DEF K4
  <2>3. /\ g[1] = LabelFor(K4[1], o) /\ g[2] = LabelFor(K4[2], o) /\ g[3] = LabelFor(K4[3], o)
        /\ g[4] = LabelFor(K4[4], o)
    BY <1>3, <2>2, Zenon
  <2>4. QED
    BY <2>1, <2>3
<1> HIDE DEF K, K3, K4
<1>18. 7 \in Nat /\ 3 \in Nat /\ 4 \in Nat
  OBVIOUS
<1>19. InsertAll(r) = Ok(LabelsWith(o, LabelKeys))
  <2>1. DOMAIN r = 1..7 /\ 7 \in Nat
    BY <1>3, <1>18
  <2>2. PICK n \in Nat : n = 7
    BY <2>1
  <2>3. DOMAIN r = 1..n /\ (\A i \in 1..n : r[i] = LabelFor(K[i], o))
        /\ IsListOf(K, n, LabelKeys)
    BY <1>14, <1>15, <2>1, <2>2
  <2>4. QED
    BY <1>13, <2>3, InsertedList
<1>20. InsertAll(s) = Ok(LabelsWith(o, {"instance", "name", "component"}))
  <2>1. DOMAIN s = 1..3 /\ 3 \in Nat
    BY <1>3, <1>18
  <2>2. PICK n \in Nat : n = 3
    BY <2>1
  <2>3. DOMAIN s = 1..n /\ (\A i \in 1..n : s[i] = LabelFor(K3[i], o))
        /\ IsListOf(K3, n, {"instance", "name", "component"})
    BY <1>14, <1>16, <2>1, <2>2
  <2>4. QED
    BY <1>13, <2>3, InsertedList
<1>21. InsertAll(g) = Ok(LabelsWith(o, {"instance", "name", "component", "role-group"}))
  <2>1. DOMAIN g = 1..4 /\ 4 \in Nat
    BY <1>3, <1>18
  <2>2. PICK n \in Nat : n = 4
    BY <2>1
  <2>3. DOMAIN g = 1..n /\ (\A i \in 1..n : g[i] = LabelFor(K4[i], o))
        /\ IsListOf(K4, n, {"instance", "name", "component", "role-group"})
    BY <1>14, <1>17, <2>1, <2>2
  <2>4. QED
    BY <1>13, <2>3, InsertedList
<1>22. QED
  BY <1>3, <1>11, <1>13, <1>19, <1>20, <1>21, Zenon DEF c

\* What is said of labels.
LEMMA LabelsMatch ==
  ASSUME NEW o \in LabelInputs
  PROVE  LET v1 == [recommended |-> InsertAll(recommended(o)), role |-> InsertAll(role_selector(o)),
                    role_group |-> InsertAll(role_group_selector(o))]
             v2 == [cluster |-> recommended_labels_for_cluster_resources(o),
                    role |-> recommended_labels_for_role_resources(o),
                    role_group |-> recommended_labels_for_role_group_resources(o),
                    unversioned |-> recommended_labels_for_unversioned_role_group_resources(o),
                    role_selector |-> v2_role_selector(o),
                    role_group_selector |-> v2_role_group_selector(o)]
         IN  /\ v1.recommended.ok =>
                  /\ v1.role.ok /\ v1.role_group.ok
                  /\ PartOfLabels(v1.role.value, v1.role_group.value)
                  /\ PartOfLabels(v1.role_group.value, v1.recommended.value)
             /\ TypedParts(o) =>
                  /\ \A set \in DOMAIN v2 : v2[set].ok
                  /\ PartOfLabels(v2.role_selector.value, v2.role.value)
                  /\ PartOfLabels(v2.role_group_selector.value, v2.unversioned.value)
                  /\ PartOfLabels(v2.unversioned.value, v2.role_group.value)
                  /\ PartOfLabels(v2.cluster.value, v2.role.value)
                  /\ v1.recommended.ok => v2.role_group = v1.recommended
<1>1. \A v : Ok(v).ok /\ Ok(v).value = v
  BY DEF Ok
<1> DEFINE R == {"instance", "name", "component"}
           G == {"instance", "name", "component", "role-group"}
           C == {"instance", "name", "version", "managed-by", "vendor"}
           L == {"instance", "name", "version", "component", "managed-by", "vendor"}
           U == {"instance", "name", "component", "role-group", "managed-by", "vendor"}
           W(set) == LabelsWith(o, set)
<1>2. R \subseteq G /\ G \subseteq LabelKeys /\ R \subseteq L /\ G \subseteq U /\ U \subseteq LabelKeys
      /\ C \subseteq L
  BY DEF LabelKeys
<1>3. \A A, B : A \subseteq B => PartOfLabels(W(A), W(B))
  BY FewerLabels
<1>4. ASSUME InsertAll(recommended(o)).ok
      PROVE  /\ InsertAll(recommended(o)) = Ok(W(LabelKeys))
             /\ InsertAll(role_selector(o)) = Ok(W(R)) /\ InsertAll(role_group_selector(o)) = Ok(W(G))
  BY <1>4, AcceptedLabelsAre
<1>5. ASSUME TypedParts(o)
      PROVE  /\ recommended_labels_for_cluster_resources(o) = Ok(W(C))
             /\ recommended_labels_for_role_resources(o) = Ok(W(L))
             /\ recommended_labels_for_role_group_resources(o) = Ok(W(LabelKeys))
             /\ recommended_labels_for_unversioned_role_group_resources(o) = Ok(W(U))
             /\ v2_role_selector(o) = Ok(W(R)) /\ v2_role_group_selector(o) = Ok(W(G))
  <2>1. /\ full_controller_name(o.operator, o.controller).ok
        /\ \A k \in LabelKeys : LabelValue(LabelFor(k, o).value).ok
    BY <1>5, TypedLabelsAre
  <2>2. \A n \in {3, 4, 5, 6, 7} : n \in Nat
    OBVIOUS
  <2> DEFINE K3 == <<"instance", "name", "component">>
             K4 == <<"instance", "name", "component", "role-group">>
             K5 == <<"instance", "name", "version", "managed-by", "vendor">>
             K6 == <<"instance", "name", "version", "component", "managed-by", "vendor">>
             KU == <<"instance", "name", "component", "role-group", "managed-by", "vendor">>
             K7 == <<"instance", "name", "version", "component", "role-group", "managed-by", "vendor">>
  <2>3. /\ IsListOf(K3, 3, R) /\ IsListOf(K4, 4, G) /\ IsListOf(K5, 5, C) /\ IsListOf(K6, 6, L)
        /\ IsListOf(KU, 6, U) /\ IsListOf(K7, 7, LabelKeys)
    BY ListsOfKeys, Zenon
  <2>4. /\ recommended_labels_for_cluster_resources(o) = LabelSet(K5, o)
        /\ recommended_labels_for_role_resources(o) = LabelSet(K6, o)
        /\ recommended_labels_for_role_group_resources(o) = LabelSet(K7, o)
        /\ recommended_labels_for_unversioned_role_group_resources(o) = LabelSet(KU, o)
        /\ v2_role_selector(o) = LabelSet(K3, o) /\ v2_role_group_selector(o) = LabelSet(K4, o)
    BY Zenon DEF recommended_labels_for_cluster_resources, recommended_labels_for_role_resources,
                 recommended_labels_for_role_group_resources,
                 recommended_labels_for_unversioned_role_group_resources,
                 v2_role_selector, v2_role_group_selector
  <2> HIDE DEF K3, K4, K5, K6, KU, K7, R, G, C, L, U
  <2>5. \A n \in Nat : \A keys, set : IsListOf(keys, n, set) => LabelSet(keys, o) = Ok(W(set))
    BY <2>1, LabelSetOfList
  <2>6. /\ LabelSet(K3, o) = Ok(W(R)) /\ LabelSet(K4, o) = Ok(W(G)) /\ LabelSet(K5, o) = Ok(W(C))
        /\ LabelSet(K6, o) = Ok(W(L)) /\ LabelSet(KU, o) = Ok(W(U)) /\ LabelSet(K7, o) = Ok(W(LabelKeys))
    BY <2>2, <2>3, <2>5
  <2>7. QED
    BY <2>4, <2>6
<1> HIDE DEF R, G, C, L, U, W
<1>6. PICK a, b, c, d, e, f :
        /\ a = recommended_labels_for_cluster_resources(o)
        /\ b = recommended_labels_for_role_resources(o)
        /\ c = recommended_labels_for_role_group_resources(o)
        /\ d = recommended_labels_for_unversioned_role_group_resources(o)
        /\ e = v2_role_selector(o) /\ f = v2_role_group_selector(o)
  OBVIOUS
<1>7. PICK x, y, z : /\ x = InsertAll(recommended(o)) /\ y = InsertAll(role_selector(o))
                    /\ z = InsertAll(role_group_selector(o))
  OBVIOUS
<1>8. x.ok => /\ y.ok /\ z.ok
              /\ PartOfLabels(y.value, z.value) /\ PartOfLabels(z.value, x.value)
  BY <1>1, <1>2, <1>3, <1>4, <1>7
<1>9. TypedParts(o) => a.ok /\ b.ok /\ c.ok /\ d.ok /\ e.ok /\ f.ok
  BY <1>1, <1>5, <1>6
<1>10. TypedParts(o) => /\ PartOfLabels(e.value, b.value) /\ PartOfLabels(f.value, d.value)
                        /\ PartOfLabels(d.value, c.value) /\ PartOfLabels(a.value, b.value)
  BY <1>1, <1>2, <1>3, <1>5, <1>6
<1>11. TypedParts(o) => (x.ok => c = x)
  BY <1>4, <1>5, <1>6, <1>7
<1> DEFINE v1 == [recommended |-> x, role |-> y, role_group |-> z]
           v2 == [cluster |-> a, role |-> b, role_group |-> c, unversioned |-> d,
                  role_selector |-> e, role_group_selector |-> f]
<1>12. v1.recommended = x /\ v1.role = y /\ v1.role_group = z
  OBVIOUS
<1>13. /\ v2.cluster = a /\ v2.role = b /\ v2.role_group = c /\ v2.unversioned = d
       /\ v2.role_selector = e /\ v2.role_group_selector = f
  OBVIOUS
<1>14. a.ok /\ b.ok /\ c.ok /\ d.ok /\ e.ok /\ f.ok => \A set \in DOMAIN v2 : v2[set].ok
  OBVIOUS
<1> HIDE DEF v1, v2
<1>15. /\ v1.recommended.ok =>
            /\ v1.role.ok /\ v1.role_group.ok
            /\ PartOfLabels(v1.role.value, v1.role_group.value)
            /\ PartOfLabels(v1.role_group.value, v1.recommended.value)
       /\ TypedParts(o) =>
            /\ \A set \in DOMAIN v2 : v2[set].ok
            /\ PartOfLabels(v2.role_selector.value, v2.role.value)
            /\ PartOfLabels(v2.role_group_selector.value, v2.unversioned.value)
            /\ PartOfLabels(v2.unversioned.value, v2.role_group.value)
            /\ PartOfLabels(v2.cluster.value, v2.role.value)
            /\ v1.recommended.ok => v2.role_group = v1.recommended
  BY <1>8, <1>9, <1>10, <1>11, <1>12, <1>13, <1>14
<1>16. QED
  BY <1>6, <1>7, <1>15, Zenon DEF v1, v2

(***************************************************************************)
(* The queries of label selectors                                          *)
(***************************************************************************)
\* A query of clauses: they are all there, and separated by commas.
QueryOf(q, S) ==
  /\ q \in Seq(S \cup {Comma}) /\ Comma \notin S
  /\ \A i \in 1..Len(q) : (q[i] = Comma) <=> (i % 2 = 0)
  /\ Len(q) = 0 \/ Len(q) % 2 = 1
  /\ \A c \in S : \E i \in 1..Len(q) : q[i] = c

\* A list of clauses, as a set.
ClausesOf(clauses, n) == {clauses[i] : i \in 1..n}

\* Arithmetic of the places in a query.
LEMMA QueryPlaces ==
  /\ \A n \in Nat : \A i \in 1..(2 * n - 1) : i % 2 # 0 => (i + 1) \div 2 \in 1..n
  /\ \A n \in Nat : \A k \in 1..n : /\ 2 * k - 1 \in 1..(2 * n - 1) /\ (2 * k - 1) % 2 # 0
                                /\ ((2 * k - 1) + 1) \div 2 = k
  /\ \A n \in Nat \ {0} : 2 * n - 1 \in Nat /\ (2 * n - 1) % 2 = 1 /\ 2 * n - 1 > 0
OBVIOUS

\* Clauses that are joined are a query of them.
LEMMA JoinedIs ==
  ASSUME NEW n \in Nat, NEW clauses, DOMAIN clauses = 1..n, Len(clauses) = n,
         \A i \in 1..n : clauses[i] # Comma
  PROVE  /\ QueryOf(Joined(clauses), ClausesOf(clauses, n))
         /\ Len(Joined(clauses)) = 0 <=> n = 0
<1> DEFINE S == ClausesOf(clauses, n)
           m == 2 * n - 1
           q == [i \in 1..m |-> IF i % 2 = 0 THEN Comma ELSE clauses[(i + 1) \div 2]]
<1>1. Joined(clauses) = q
  BY DEF Joined
<1>2. S = {clauses[i] : i \in 1..n} /\ Comma \notin S
  BY DEF ClausesOf
<1>3. \A i \in 1..m : q[i] \in S \cup {Comma}
  <2> SUFFICES ASSUME NEW i \in 1..m PROVE q[i] \in S \cup {Comma}
    OBVIOUS
  <2>1. CASE i % 2 = 0
    BY <2>1
  <2>2. CASE i % 2 # 0
    BY <2>2, <1>2, QueryPlaces
  <2> QED BY <2>1, <2>2
<1>4. \A i \in 1..m : (q[i] = Comma) <=> (i % 2 = 0)
  <2> SUFFICES ASSUME NEW i \in 1..m PROVE (q[i] = Comma) <=> (i % 2 = 0)
    OBVIOUS
  <2>1. CASE i % 2 = 0
    BY <2>1
  <2>2. CASE i % 2 # 0
    BY <2>2, QueryPlaces
  <2> QED BY <2>1, <2>2
<1>5. \A k \in 1..n : q[2 * k - 1] = clauses[k]
  <2> SUFFICES ASSUME NEW k \in 1..n PROVE q[2 * k - 1] = clauses[k]
    OBVIOUS
  <2>1. PICK j : j = 2 * k - 1
    OBVIOUS
  <2>2. j \in 1..m /\ j % 2 # 0 /\ (j + 1) \div 2 = k
    BY <2>1, QueryPlaces
  <2> QED BY <2>1, <2>2, Zenon
<1>6. q \in [1..m -> S \cup {Comma}] /\ DOMAIN q = 1..m
  BY <1>3
<1> HIDE DEF q, S
<1>7. CASE n = 0
  <2>1. 1..m = {}
    BY <1>7
  <2>2. q = <<>>
    BY <2>1, <1>6
  <2>3. q \in Seq(S \cup {Comma}) /\ Len(q) = 0
    BY <2>2
  <2>4. S = {}
    BY <1>2, <1>7
  <2> QED BY <1>1, <1>2, <1>4, <2>3, <2>4, <1>7 DEF QueryOf, S
<1>8. CASE n # 0
  <2>1. m \in Nat /\ m % 2 = 1 /\ m > 0
    BY <1>8, QueryPlaces
  <2> HIDE DEF m
  <2>2. q \in Seq(S \cup {Comma}) /\ Len(q) = m
    BY <2>1, <1>6
  <2>3. \A c \in S : \E i \in 1..m : q[i] = c
    BY <1>2, <1>5, QueryPlaces DEF m
  <2> QED BY <1>1, <1>2, <1>4, <1>8, <2>1, <2>2, <2>3 DEF QueryOf, S
<1> QED BY <1>7, <1>8

\* Two queries and a comma between them are a query.
LEMMA QueriesJoined ==
  ASSUME NEW A, NEW a, QueryOf(a, A), Len(a) > 0, NEW B, NEW b, QueryOf(b, B), Len(b) > 0
  PROVE  QueryOf(a \o <<Comma>> \o b, A \cup B)
<1> DEFINE C == A \cup B
           V == C \cup {Comma}
           ac == a \o <<Comma>>
           q == ac \o b
<1>1. a \in Seq(A \cup {Comma}) /\ b \in Seq(B \cup {Comma}) /\ Comma \notin C
  BY DEF QueryOf
<1>2. a \in Seq(V) /\ b \in Seq(V) /\ <<Comma>> \in Seq(V) /\ Len(<<Comma>>) = 1 /\ <<Comma>>[1] = Comma
  BY <1>1
<1> HIDE DEF V
<1>3. /\ ac \in Seq(V) /\ Len(ac) = Len(a) + 1 /\ \A i \in 1..Len(a) : ac[i] = a[i]
      /\ ac[Len(a) + 1] = Comma
  <2>1. /\ ac \in Seq(V) /\ Len(ac) = Len(a) + Len(<<Comma>>)
        /\ \A i \in 1..Len(a) : ac[i] = a[i]
        /\ \A i \in (Len(a) + 1)..(Len(a) + Len(<<Comma>>)) : ac[i] = <<Comma>>[i - Len(a)]
    BY <1>2, TextAfterText, Zenon
  <2>2. Len(a) \in Nat
    BY <1>2
  <2> HIDE DEF ac
  <2> QED BY <2>1, <2>2, <1>2
<1> HIDE DEF ac
<1>4. /\ q \in Seq(V) /\ Len(q) = Len(ac) + Len(b) /\ \A i \in 1..Len(ac) : q[i] = ac[i]
      /\ \A i \in (Len(ac) + 1)..(Len(ac) + Len(b)) : q[i] = b[i - Len(ac)]
  <2>1. ac \in Seq(V) /\ b \in Seq(V)
    BY <1>2, <1>3
  <2>2. PICK s \in Seq(V) : s = ac
    BY <2>1
  <2>3. /\ s \o b \in Seq(V) /\ Len(s \o b) = Len(s) + Len(b)
        /\ \A i \in 1..Len(s) : (s \o b)[i] = s[i]
        /\ \A i \in (Len(s) + 1)..(Len(s) + Len(b)) : (s \o b)[i] = b[i - Len(s)]
    BY <2>1, TextAfterText, Zenon
  <2> QED BY <2>2, <2>3
<1> HIDE DEF q
<1>5. PICK l, m \in Nat : l = Len(a) /\ m = Len(b)
  BY <1>2
<1>6. /\ l % 2 = 1 /\ m % 2 = 1 /\ l > 0 /\ m > 0
      /\ \A i \in 1..l : (a[i] = Comma) <=> (i % 2 = 0)
      /\ \A i \in 1..m : (b[i] = Comma) <=> (i % 2 = 0)
      /\ \A c \in A : \E i \in 1..l : a[i] = c
      /\ \A c \in B : \E i \in 1..m : b[i] = c
  BY <1>5 DEF QueryOf
<1>7. /\ Len(q) = l + 1 + m /\ \A i \in 1..l : q[i] = a[i] /\ q[l + 1] = Comma
      /\ \A i \in (l + 2)..(l + 1 + m) : q[i] = b[i - (l + 1)]
  <2>1. Len(ac) = l + 1
    BY <1>3, <1>5
  <2>2. \A i \in 1..l : i \in 1..(l + 1)
    OBVIOUS
  <2> QED BY <2>1, <2>2, <1>3, <1>4, <1>5
<1>8. \A i \in 1..(l + 1 + m) : (q[i] = Comma) <=> (i % 2 = 0)
  <2> SUFFICES ASSUME NEW i \in 1..(l + 1 + m) PROVE (q[i] = Comma) <=> (i % 2 = 0)
    OBVIOUS
  <2>1. CASE i \in 1..l
    BY <2>1, <1>6, <1>7
  <2>2. CASE i = l + 1
    BY <2>2, <1>6, <1>7
  <2>3. CASE i \in (l + 2)..(l + 1 + m)
    <3>1. PICK k \in 1..m : k = i - (l + 1) /\ (k % 2 = 0 <=> i % 2 = 0)
      BY <2>3, <1>6
    <3> QED BY <2>3, <3>1, <1>6, <1>7
  <2> QED BY <2>1, <2>2, <2>3
<1>9. \A c \in C : \E i \in 1..(l + 1 + m) : q[i] = c
  <2> SUFFICES ASSUME NEW c \in C PROVE \E i \in 1..(l + 1 + m) : q[i] = c
    OBVIOUS
  <2>1. CASE c \in A
    BY <2>1, <1>6, <1>7
  <2>2. CASE c \in B
    <3>1. PICK k \in 1..m : b[k] = c
      BY <2>2, <1>6
    <3>2. PICK i \in (l + 2)..(l + 1 + m) : i - (l + 1) = k /\ i \in 1..(l + 1 + m)
      OBVIOUS
    <3> QED BY <3>1, <3>2, <1>7
  <2> QED BY <2>1, <2>2
<1>10. (l + 1 + m) % 2 = 1
  BY <1>6
<1> QED BY <1>1, <1>4, <1>7, <1>8, <1>9, <1>10 DEF QueryOf, V, q, ac

\* What the clauses of a selector are, and when they hold.
ClauseHolds(r, labels) ==
  LET has == r.key \in DOMAIN labels
  IN  CASE r.operator = "In" -> has /\ labels[r.key] \in r.values
        [] r.operator = "NotIn" -> ~(has /\ labels[r.key] \in r.values)
        [] r.operator = "Exists" -> has
        [] r.operator = "DoesNotExist" -> ~has

\* Which requirements are valid.
ValidRequirement(r) ==
  CASE r.operator \in {"In", "NotIn"} -> r.values \notin {None, {}}
    [] r.operator \in {"Exists", "DoesNotExist"} -> r.values \in {None, {}}
    [] OTHER -> FALSE

\* The parts of a clause.
LEMMA ClauseIs ==
  ASSUME NEW k, NEW o, NEW v
  PROVE  /\ Clause(k, o, v).key = k /\ Clause(k, o, v).operator = o
         /\ Clause(k, o, v).values = v
BY DEF Clause

\* A clause is no comma.
LEMMA NoComma ==
  ASSUME NEW k, NEW o, NEW v, o # ","
  PROVE  Clause(k, o, v) # Comma
BY DEF Clause, Comma

\* A comma always holds.
LEMMA CommaHolds ==
  \A labels : Satisfies(Comma, labels)
<1> SUFFICES ASSUME NEW labels PROVE Satisfies(Comma, labels)
  OBVIOUS
<1>1. Comma.operator = ","
  BY DEF Comma, Clause
<1> QED BY <1>1 DEF Satisfies

\* The label of a selector holds as its clause does.
LEMMA LabelClauseHolds ==
  ASSUME NEW key, NEW value, NEW labels
  PROVE  Satisfies(Clause(key, "=", {value}), labels) <=> key \in DOMAIN labels /\ labels[key] = value
<1> DEFINE c == Clause(key, "=", {value})
<1>1. c.key = key /\ c.operator = "=" /\ c.values = {value}
  BY ClauseIs
<1> HIDE DEF c
<1>2. Satisfies(c, labels) <=> key \in DOMAIN labels /\ labels[key] \in {value}
  BY <1>1 DEF Satisfies
<1> QED BY <1>2 DEF c

\* A requirement is refused if it is invalid, and holds as its clause does.
LEMMA RequirementHolds ==
  ASSUME NEW r
  PROVE  /\ clause_of(r).ok <=> ValidRequirement(r)
         /\ clause_of(r).ok =>
              /\ clause_of(r).value # Comma
              /\ \A labels : Satisfies(clause_of(r).value, labels) <=> ClauseHolds(r, labels)
<1>1. \A x : Ok(x).ok /\ Ok(x).value = x /\ ~Err(x).ok
  BY DEF Ok, Err
<1>2. CASE r.operator \in {"In", "NotIn"}
  <2>1. clause_of(r) = IF r.values # None /\ r.values # {} THEN Ok(Clause(r.key, r.operator, r.values))
                       ELSE Err("LabelSelectorBinaryOperatorWithoutValues")
    BY <1>2 DEF clause_of
  <2>2. ValidRequirement(r) <=> r.values # None /\ r.values # {}
    BY <1>2 DEF ValidRequirement
  <2>3. clause_of(r).ok <=> r.values # None /\ r.values # {}
    BY <1>1, <2>1
  <2>4. ASSUME r.values # None /\ r.values # {}
        PROVE  clause_of(r).value # Comma
               /\ \A labels : Satisfies(clause_of(r).value, labels) <=> ClauseHolds(r, labels)
    <3> DEFINE c == Clause(r.key, r.operator, r.values)
    <3>1. clause_of(r).value = c
      BY <1>1, <2>1, <2>4
    <3>5. PICK k, o, v : k = r.key /\ o = r.operator /\ v = r.values
      OBVIOUS
    <3>6. o # ","
      BY <1>2, <3>5
    <3>4. /\ Clause(k, o, v).key = k /\ Clause(k, o, v).operator = o
          /\ Clause(k, o, v).values = v
      BY ClauseIs
    <3>7. Clause(k, o, v) # Comma
      BY <3>6, NoComma
    <3>2. c.key = r.key /\ c.operator = r.operator /\ c.values = r.values /\ c # Comma
      BY <3>4, <3>5, <3>7
    <3> HIDE DEF c
    <3>3. ASSUME NEW labels PROVE Satisfies(c, labels) <=> ClauseHolds(r, labels)
      <4>1. CASE r.operator = "In"
        BY <3>2, <4>1 DEF Satisfies, ClauseHolds
      <4>2. CASE r.operator = "NotIn"
        BY <3>2, <4>2 DEF Satisfies, ClauseHolds
      <4> QED BY <4>1, <4>2, <1>2
    <3> QED BY <3>1, <3>2, <3>3
  <2> QED BY <2>2, <2>3, <2>4
<1>3. CASE r.operator \in {"Exists", "DoesNotExist"}
  <2>1. clause_of(r) = IF r.values # None /\ r.values # {} THEN Err("LabelSelectorUnaryOperatorWithValues")
                       ELSE Ok(Clause(r.key, r.operator, {}))
    BY <1>3 DEF clause_of
  <2>2. ValidRequirement(r) <=> ~(r.values # None /\ r.values # {})
    BY <1>3 DEF ValidRequirement
  <2>3. clause_of(r).ok <=> ~(r.values # None /\ r.values # {})
    BY <1>1, <2>1
  <2>4. ASSUME ~(r.values # None /\ r.values # {})
        PROVE  clause_of(r).value # Comma
               /\ \A labels : Satisfies(clause_of(r).value, labels) <=> ClauseHolds(r, labels)
    <3> DEFINE c == Clause(r.key, r.operator, {})
    <3>1. clause_of(r).value = c
      BY <1>1, <2>1, <2>4
    <3>5. PICK k, o : k = r.key /\ o = r.operator
      OBVIOUS
    <3>6. o # ","
      BY <1>3, <3>5
    <3>4. /\ Clause(k, o, {}).key = k /\ Clause(k, o, {}).operator = o
      BY ClauseIs
    <3>7. Clause(k, o, {}) # Comma
      BY <3>6, NoComma
    <3>2. c.key = r.key /\ c.operator = r.operator /\ c # Comma
      BY <3>4, <3>5, <3>7
    <3> HIDE DEF c
    <3>3. ASSUME NEW labels PROVE Satisfies(c, labels) <=> ClauseHolds(r, labels)
      <4>1. CASE r.operator = "Exists"
        BY <3>2, <4>1 DEF Satisfies, ClauseHolds
      <4>2. CASE r.operator = "DoesNotExist"
        BY <3>2, <4>2 DEF Satisfies, ClauseHolds
      <4> QED BY <4>1, <4>2, <1>3
    <3> QED BY <3>1, <3>2, <3>3
  <2> QED BY <2>2, <2>3, <2>4
<1>4. CASE ~(r.operator \in {"In", "NotIn"}) /\ ~(r.operator \in {"Exists", "DoesNotExist"})
  <2>1. clause_of(r) = Err("LabelSelectorInvalidOperator")
    BY <1>4 DEF clause_of
  <2>2. ~ValidRequirement(r)
    BY <1>4 DEF ValidRequirement
  <2> QED BY <1>1, <2>1, <2>2
<1> QED BY <1>2, <1>3, <1>4

\* A list without elements.
LEMMA NoElements ==
  ASSUME NEW V, NEW s \in Seq(V)
  PROVE  /\ Len(s) \in Nat /\ DOMAIN s = 1..Len(s) /\ (s = <<>> <=> Len(s) = 0)
         /\ s \o <<>> = s /\ <<>> \o s = s
OBVIOUS

\* The list of the values of a function on 1..n.
LEMMA ListLength ==
  ASSUME NEW n \in Nat, NEW f, f = [i \in 1..n |-> f[i]]
  PROVE  DOMAIN f = 1..n /\ Len(f) = n
<1>1. f \in [1..n -> {f[i] : i \in 1..n}]
  OBVIOUS
<1> QED BY <1>1

\* The clauses of the labels and requirements of a selector.
LabelClauses(s) ==
  IF s.labels = None THEN {}
  ELSE {Clause(s.labels[i].key, "=", {s.labels[i].value}) : i \in 1..Len(s.labels)}

\* The clauses of the requirements of a selector.
RequirementClauses(s) ==
  IF s.expressions = None THEN {}
  ELSE {clause_of(s.expressions[i]).value : i \in 1..Len(s.expressions)}

\* The labels of a selector are a query.
LEMMA LabelQueryIs ==
  ASSUME NEW s, s.labels # None, s.labels \in Seq(Range(s.labels))
  PROVE  LET q == Joined([i \in DOMAIN s.labels |-> Clause(s.labels[i].key, "=", {s.labels[i].value})])
         IN  QueryOf(q, LabelClauses(s))
<1> DEFINE n == Len(s.labels)
           f == [i \in DOMAIN s.labels |-> Clause(s.labels[i].key, "=", {s.labels[i].value})]
<1>1. n \in Nat /\ DOMAIN s.labels = 1..n
  BY NoElements
<1>2. /\ f = [i \in 1..n |-> f[i]] /\ \A i \in 1..n : f[i] = Clause(s.labels[i].key, "=", {s.labels[i].value})
  BY <1>1
<1>3. {f[i] : i \in 1..n} = LabelClauses(s)
  BY <1>2 DEF LabelClauses
<1>4. \A i \in 1..n : f[i] # Comma
  <2>1. \A k, v : Clause(k, "=", v) # Comma
    BY NoComma
  <2> QED BY <1>2, <2>1
<1> HIDE DEF f, n
<1>5. DOMAIN f = 1..n /\ Len(f) = n
  BY <1>1, <1>2, ListLength
<1>6. QueryOf(Joined(f), ClausesOf(f, n))
  BY <1>1, <1>4, <1>5, JoinedIs
<1>7. ClausesOf(f, n) = LabelClauses(s)
  BY <1>3 DEF ClausesOf
<1> QED BY <1>6, <1>7 DEF f

\* The valid requirements of a selector are a query.
LEMMA RequirementQueryIs ==
  ASSUME NEW s, s.expressions # None, s.expressions \in Seq(Range(s.expressions)),
         \A i \in DOMAIN s.expressions : clause_of(s.expressions[i]).ok
  PROVE  LET clauses == [i \in DOMAIN s.expressions |-> clause_of(s.expressions[i])]
             q == Joined([i \in DOMAIN clauses |-> clauses[i].value])
         IN  QueryOf(q, RequirementClauses(s)) /\ (Len(q) = 0 <=> s.expressions = <<>>)
<1> DEFINE n == Len(s.expressions)
           clauses == [i \in DOMAIN s.expressions |-> clause_of(s.expressions[i])]
           f == [i \in DOMAIN clauses |-> clauses[i].value]
<1>1. n \in Nat /\ DOMAIN s.expressions = 1..n /\ (s.expressions = <<>> <=> n = 0)
  BY NoElements
<1>2. /\ f = [i \in 1..n |-> f[i]] /\ \A i \in 1..n : f[i] = clause_of(s.expressions[i]).value
  BY <1>1
<1>3. {f[i] : i \in 1..n} = RequirementClauses(s)
  BY <1>2 DEF RequirementClauses
<1>4. \A i \in 1..n : f[i] # Comma
  BY <1>1, <1>2, RequirementHolds
<1> HIDE DEF f, n
<1>5. DOMAIN f = 1..n /\ Len(f) = n
  BY <1>1, <1>2, ListLength
<1>6. QueryOf(Joined(f), ClausesOf(f, n)) /\ (Len(Joined(f)) = 0 <=> n = 0)
  BY <1>1, <1>4, <1>5, JoinedIs
<1>7. ClausesOf(f, n) = RequirementClauses(s)
  BY <1>3 DEF ClausesOf
<1> QED BY <1>1, <1>6, <1>7 DEF f

\* A query is understood, and holds if all of its clauses do.
LEMMA QueryHolds ==
  ASSUME NEW q, NEW S, QueryOf(q, S)
  PROVE  /\ ParsesAsQuery(q)
         /\ \A labels : (\A c \in Range(q) : Satisfies(c, labels)) <=> \A c \in S : Satisfies(c, labels)
<1>1. /\ q \in Seq(S \cup {Comma}) /\ DOMAIN q = 1..Len(q) /\ Len(q) \in Nat
      /\ \A i \in 1..Len(q) : q[i] \in S \cup {Comma}
  BY DEF QueryOf
<1>2. q = <<>> \/ Len(q) % 2 = 1
  <2>1. Len(q) = 0 => q = <<>>
    BY <1>1, NoElements
  <2> QED BY <2>1 DEF QueryOf
<1>3. ParsesAsQuery(q)
  BY <1>1, <1>2 DEF ParsesAsQuery, QueryOf
<1>4. S \subseteq Range(q) /\ Range(q) \subseteq S \cup {Comma}
  BY <1>1 DEF Range, QueryOf
<1> QED BY <1>3, <1>4, CommaHolds

\* A selector as the API server understands it.
Selects(s, labels) ==
  /\ s.labels # None => \A i \in DOMAIN s.labels :
       s.labels[i].key \in DOMAIN labels /\ labels[s.labels[i].key] = s.labels[i].value
  /\ s.expressions # None => \A r \in Range(s.expressions) : ClauseHolds(r, labels)

\* A selector selects what its clauses hold for.
LEMMA SelectedIs ==
  ASSUME NEW s, s.labels # None => s.labels \in Seq(Range(s.labels)),
         s.expressions # None => s.expressions \in Seq(Range(s.expressions)),
         s.expressions # None => \A i \in DOMAIN s.expressions : clause_of(s.expressions[i]).ok,
         NEW labels
  PROVE  (\A c \in LabelClauses(s) \cup RequirementClauses(s) : Satisfies(c, labels)) <=> Selects(s, labels)
<1>1. (\A c \in LabelClauses(s) : Satisfies(c, labels))
        <=> (s.labels # None => \A i \in DOMAIN s.labels :
               s.labels[i].key \in DOMAIN labels /\ labels[s.labels[i].key] = s.labels[i].value)
  <2>1. CASE s.labels = None
    BY <2>1 DEF LabelClauses
  <2>2. CASE s.labels # None
    <3>1. DOMAIN s.labels = 1..Len(s.labels)
      BY <2>2, NoElements
    <3>2. LabelClauses(s) = {Clause(s.labels[i].key, "=", {s.labels[i].value}) : i \in DOMAIN s.labels}
      BY <2>2, <3>1 DEF LabelClauses
    <3>3. \A i : Satisfies(Clause(s.labels[i].key, "=", {s.labels[i].value}), labels)
                   <=> s.labels[i].key \in DOMAIN labels /\ labels[s.labels[i].key] = s.labels[i].value
      <4> SUFFICES ASSUME NEW i
                   PROVE  Satisfies(Clause(s.labels[i].key, "=", {s.labels[i].value}), labels)
                            <=> s.labels[i].key \in DOMAIN labels /\ labels[s.labels[i].key] = s.labels[i].value
        OBVIOUS
      <4>1. PICK k, v : k = s.labels[i].key /\ v = s.labels[i].value
        OBVIOUS
      <4>2. Satisfies(Clause(k, "=", {v}), labels) <=> k \in DOMAIN labels /\ labels[k] = v
        BY LabelClauseHolds, Zenon
      <4> QED BY <4>1, <4>2
    <3> QED BY <2>2, <3>2, <3>3
  <2> QED BY <2>1, <2>2
<1>2. (\A c \in RequirementClauses(s) : Satisfies(c, labels))
        <=> (s.expressions # None => \A r \in Range(s.expressions) : ClauseHolds(r, labels))
  <2>1. CASE s.expressions = None
    BY <2>1 DEF RequirementClauses
  <2>2. CASE s.expressions # None
    <3>1. DOMAIN s.expressions = 1..Len(s.expressions)
      BY <2>2, NoElements
    <3>2. RequirementClauses(s) = {clause_of(s.expressions[i]).value : i \in DOMAIN s.expressions}
      BY <2>2, <3>1 DEF RequirementClauses
    <3>3. \A i \in DOMAIN s.expressions :
            Satisfies(clause_of(s.expressions[i]).value, labels) <=> ClauseHolds(s.expressions[i], labels)
      BY <2>2, RequirementHolds
    <3>4. Range(s.expressions) = {s.expressions[i] : i \in DOMAIN s.expressions}
      BY DEF Range
    <3> QED BY <2>2, <3>2, <3>3, <3>4
  <2> QED BY <2>1, <2>2
<1> QED BY <1>1, <1>2 DEF Selects

\* What is made of a selector: a query of its clauses, or an error.
LEMMA QueryIs ==
  ASSUME NEW s, s.labels # None => s.labels \in Seq(Range(s.labels)),
         s.expressions # None => s.expressions \in Seq(Range(s.expressions))
  PROVE  LET valid == s.expressions # None => \A i \in DOMAIN s.expressions : clause_of(s.expressions[i]).ok
         IN  /\ to_query_string(s).ok <=> valid
             /\ valid => QueryOf(to_query_string(s).value, LabelClauses(s) \cup RequirementClauses(s))
<1> DEFINE labels == IF s.labels = None THEN <<>>
                     ELSE Joined([i \in DOMAIN s.labels |-> Clause(s.labels[i].key, "=", {s.labels[i].value})])
           clauses == [i \in DOMAIN s.expressions |-> clause_of(s.expressions[i])]
           errors == {i \in DOMAIN clauses : ~clauses[i].ok}
           q == Joined([i \in DOMAIN clauses |-> clauses[i].value])
           valid == s.expressions # None => \A i \in DOMAIN s.expressions : clause_of(s.expressions[i]).ok
<1>1. \A x : Ok(x).ok /\ Ok(x).value = x
  BY DEF Ok
<1>2. to_query_string(s)
        = IF s.expressions = None THEN Ok(labels)
          ELSE IF errors # {} THEN clauses[Min(errors)]
          ELSE Ok(labels \o (IF s.expressions # <<>> /\ labels # <<>> THEN <<Comma>> ELSE <<>>) \o q)
  BY DEF to_query_string
<1>3. \A i \in DOMAIN s.expressions : clauses[i] = clause_of(s.expressions[i])
  OBVIOUS
<1>4. QueryOf(labels, LabelClauses(s))
  <2>1. CASE s.labels = None
    <3>1. LabelClauses(s) = {} /\ labels = <<>>
      BY <2>1 DEF LabelClauses
    <3>2. QueryOf(<<>>, {})
      BY DEF QueryOf
    <3> QED BY <3>1, <3>2
  <2>2. CASE s.labels # None
    BY <2>2, LabelQueryIs
  <2> QED BY <2>1, <2>2
<1>5. CASE s.expressions = None
  <2>1. RequirementClauses(s) = {} /\ to_query_string(s) = Ok(labels)
    BY <1>2, <1>5 DEF RequirementClauses
  <2> HIDE DEF labels, clauses
  <2> QED BY <1>1, <1>4, <1>5, <2>1
<1>6. CASE s.expressions # None /\ ~valid
  <2>1. errors # {} /\ errors \subseteq Nat
    BY <1>3, <1>6, NoElements
  <2>2. to_query_string(s) = clauses[Min(errors)]
    BY <1>2, <1>6, <2>1
  <2> HIDE DEF labels, clauses, q
  <2>3. Min(errors) \in errors
    BY <2>1, LeastIsMin
  <2> QED BY <1>6, <2>2, <2>3
<1>7. CASE s.expressions # None /\ valid
  <2>1. QueryOf(q, RequirementClauses(s)) /\ (Len(q) = 0 <=> s.expressions = <<>>)
    BY <1>7, RequirementQueryIs
  <2>2. errors = {}
    BY <1>3, <1>7
  <2> DEFINE A == LabelClauses(s)
             B == RequirementClauses(s)
             w == labels \o (IF s.expressions # <<>> /\ labels # <<>> THEN <<Comma>> ELSE <<>>) \o q
  <2>3. to_query_string(s) = Ok(w)
    BY <1>2, <1>7, <2>2
  <2> HIDE DEF labels, clauses, q, A, B
  <2>4. QueryOf(w, A \cup B)
    <3>1. /\ labels \in Seq(A \cup {Comma}) /\ q \in Seq(B \cup {Comma})
          /\ labels = <<>> <=> Len(labels) = 0
          /\ q = <<>> <=> Len(q) = 0
          /\ Len(labels) \in Nat /\ Len(q) \in Nat
      <4>1. labels \in Seq(A \cup {Comma}) /\ q \in Seq(B \cup {Comma})
        BY <1>4, <2>1 DEF QueryOf, A, B
      <4> QED BY <4>1, NoElements, Zenon
    <3>2. CASE Len(labels) = 0
      <4>1. A = {}
        BY <1>4, <3>2 DEF QueryOf, A
      <4>2. w = <<>> \o <<>> \o q
        BY <3>1, <3>2
      <4>3. w = q
        BY <4>2, <3>1
      <4> QED BY <4>1, <4>3, <2>1 DEF B
    <3>3. CASE Len(q) = 0
      <4>1. B = {}
        BY <2>1, <3>3 DEF QueryOf, B
      <4>2. w = labels \o <<>> \o <<>>
        BY <2>1, <3>1, <3>3
      <4>3. w = labels
        BY <4>2, <3>1
      <4> QED BY <4>1, <4>3, <1>4 DEF A
    <3>4. CASE Len(labels) > 0 /\ Len(q) > 0
      <4>1. w = labels \o <<Comma>> \o q
        <5>1. s.expressions # <<>> /\ labels # <<>>
          BY <2>1, <3>1, <3>4
        <5> QED BY <5>1, Zenon
      <4> HIDE DEF w
      <4>2. QueryOf(labels, A) /\ QueryOf(q, B)
        BY <1>4, <2>1 DEF A, B
      <4> QED BY <4>1, <4>2, <3>4, QueriesJoined
    <3> QED BY <3>1, <3>2, <3>3, <3>4
  <2> HIDE DEF w
  <2> QED BY <1>1, <1>7, <2>3, <2>4 DEF A, B
<1> QED BY <1>5, <1>6, <1>7

\* Queries are understood and select what the selector stands for.
LEMMA QueriesSelect ==
  ASSUME NEW s \in Selectors
  PROVE  LET requirements == IF s.expressions = None THEN {} ELSE Range(s.expressions)
             query == to_query_string(s)
         IN  /\ query.ok <=> \A r \in requirements : ValidRequirement(r)
             /\ query.ok => /\ ParsesAsQuery(query.value)
                            /\ \A labels : Selects(s, labels)
                                 <=> \A c \in Range(query.value) : Satisfies(c, labels)
<1> DEFINE requirements == IF s.expressions = None THEN {} ELSE Range(s.expressions)
           query == to_query_string(s)
           valid == s.expressions # None => \A i \in DOMAIN s.expressions : clause_of(s.expressions[i]).ok
<1>1. /\ s.labels # None => s.labels \in Seq(Range(s.labels))
      /\ s.expressions # None => s.expressions \in Seq(Range(s.expressions))
  BY LabelAssumption
<1>2. /\ query.ok <=> valid
      /\ valid => QueryOf(query.value, LabelClauses(s) \cup RequirementClauses(s))
  BY <1>1, QueryIs, Zenon
<1>3. valid <=> \A r \in requirements : ValidRequirement(r)
  BY RequirementHolds DEF Range
<1> HIDE DEF query
<1>4. ASSUME query.ok, NEW labels
      PROVE  Selects(s, labels) <=> \A c \in Range(query.value) : Satisfies(c, labels)
  <2>1. (\A c \in LabelClauses(s) \cup RequirementClauses(s) : Satisfies(c, labels)) <=> Selects(s, labels)
    BY <1>1, <1>2, <1>4, SelectedIs
  <2> QED BY <1>2, <1>4, <2>1, QueryHolds
<1>5. query.ok => ParsesAsQuery(query.value)
  BY <1>2, QueryHolds
<1> QED BY <1>2, <1>3, <1>4, <1>5 DEF query

(***************************************************************************)
(* ObjectMetaBuilder                                                       *)
(***************************************************************************)
\* A list of numbers has an upper bound.
LEMMA NumbersAreBounded ==
  ASSUME NEW N \in Nat, NEW f, \A i \in 1..N : f[i] \in Nat
  PROVE  \E b \in Nat : \A i \in 1..N : f[i] <= b
<1> DEFINE T == {n \in 0..N : \E b \in Nat : \A i \in 1..n : f[i] <= b}
<1>1. 0 \in T
  OBVIOUS
<1>2. ASSUME NEW n \in 1..N, n - 1 \in T PROVE n \in T
  <2>1. PICK b \in Nat : \A i \in 1..(n - 1) : f[i] <= b
    BY <1>2
  <2>2. PICK c \in Nat : c >= b /\ c >= f[n]
    <3>1. f[n] \in Nat
      OBVIOUS
    <3> QED BY <3>1
  <2>3. \A i \in 1..n : f[i] <= c
    <3> SUFFICES ASSUME NEW i \in 1..n PROVE f[i] <= c
      OBVIOUS
    <3>1. f[i] \in Nat
      OBVIOUS
    <3> QED BY <2>1, <2>2, <3>1
  <2> QED BY <2>3
<1> HIDE DEF T
<1>3. 0..N \subseteq T
  BY <1>1, <1>2, EveryNumber
<1>4. N \in T
  BY <1>3
<1> QED BY <1>4 DEF T

\* The keys that a call gives.
Gives(call) == {call.labels[j].key : j \in DOMAIN call.labels}

\* The labels of one call.
LEMMA CollectedAre ==
  ASSUME NEW call \in MetaCalls
  PROVE  LET labels == try_from_iter(call.labels)
         IN  /\ DOMAIN labels = Gives(call) /\ labels \in [Gives(call) -> Nat]
             /\ \A k \in Gives(call) : labels[k] \in Nat /\ Pair(k, labels[k]) \in Range(call.labels)
<1> DEFINE pairs == call.labels
           vs(k) == {pairs[i].value : i \in {j \in DOMAIN pairs : pairs[j].key = k}}
           kept(k) == CHOOSE v \in vs(k) : \A w \in vs(k) : w <= v
<1>1. /\ pairs \in Seq(Range(pairs))
      /\ \A x \in Range(pairs) : x = Pair(x.key, x.value) /\ x.value \in Nat
  BY LabelAssumption
<1>2. Len(pairs) \in Nat /\ DOMAIN pairs = 1..Len(pairs)
  BY <1>1, NoElements
<1>3. \A i \in 1..Len(pairs) : pairs[i] \in Range(pairs)
  BY <1>2 DEF Range
<1>4. try_from_iter(pairs) = [k \in Gives(call) |-> kept(k)]
  BY DEF try_from_iter, Gives
<1>5. ASSUME NEW k \in Gives(call)
      PROVE  kept(k) \in Nat /\ Pair(k, kept(k)) \in Range(pairs)
  <2>1. PICK b \in Nat : \A i \in 1..Len(pairs) : pairs[i].value <= b
    <3> DEFINE f == [i \in 1..Len(pairs) |-> pairs[i].value]
    <3>1. \A i \in 1..Len(pairs) : f[i] = pairs[i].value /\ f[i] \in Nat
      BY <1>1, <1>3
    <3> HIDE DEF f
    <3>2. \E b \in Nat : \A i \in 1..Len(pairs) : f[i] <= b
      BY <1>2, <3>1, NumbersAreBounded
    <3> QED BY <3>1, <3>2
  <2>2. vs(k) # {} /\ vs(k) \subseteq Nat /\ \A v \in vs(k) : v <= b
    BY <1>1, <1>2, <1>3, <2>1 DEF Gives
  <2>3. \E v \in vs(k) : \A w \in vs(k) : w <= v
    <3> HIDE DEF vs
    <3> QED BY <2>2, GreatestNumber
  <2>4. kept(k) \in vs(k)
    <3> HIDE DEF vs
    <3> QED BY <2>3
  <2>5. PICK i \in 1..Len(pairs) : pairs[i].key = k /\ pairs[i].value = kept(k)
    BY <1>2, <2>4
  <2> HIDE DEF kept, vs
  <2>6. pairs[i] = Pair(k, kept(k)) /\ kept(k) \in Nat
    BY <1>1, <1>3, <2>5
  <2> QED BY <1>3, <2>6
<1> HIDE DEF kept
<1> QED BY <1>4, <1>5

\* Maps of labels are not Option::None.
LEMMA LabelsAreSome ==
  ASSUME NEW K, NEW f, f \in [K -> Nat], \A k \in K : \E call \in MetaCalls : k \in Gives(call)
  PROVE  f # None
<1> DEFINE keys == {label.key : label \in UNION {Range(call.labels) : call \in MetaCalls}}
<1>1. K \subseteq keys
  BY DEF Gives, Range
<1>2. \A set \in SUBSET keys : None \notin [set -> Nat]
  BY NoLabelsAssumption
<1> HIDE DEF keys
<1> QED BY <1>1, <1>2

\* The call that decides from where on labels are kept.
LastReset(calls, f) ==
  /\ f \in 1..Len(calls) /\ (calls[f].kind = "labels" \/ f = 1)
  /\ \A j \in f + 1..Len(calls) : calls[j].kind # "labels"

\* The call that decides about a key.
Decides(calls, i, k) ==
  k \in Gives(calls[i]) /\ \A j \in i + 1..Len(calls) : k \notin Gives(calls[j])

\* Labels are those of the calls from one of them on.
LabelsFollow(calls, f, labels) ==
  /\ labels # None
  /\ DOMAIN labels = UNION {Gives(calls[i]) : i \in f..Len(calls)}
  /\ \A k \in DOMAIN labels : \E i \in f..Len(calls) :
       Decides(calls, i, k) /\ Pair(k, labels[k]) \in Range(calls[i].labels)

\* A builder after its calls.
BuilderFollows(b) ==
  /\ b.calls \in Seq(MetaCalls) /\ "labels" \in DOMAIN b.meta
  /\ \E f \in Nat : LastReset(b.calls, f) /\ LabelsFollow(b.calls, f, b.meta.labels)

\* One more call.
LEMMA OneMoreCall ==
  ASSUME NEW calls \in Seq(MetaCalls), NEW call \in MetaCalls
  PROVE  /\ Append(calls, call) \in Seq(MetaCalls) /\ Len(Append(calls, call)) = Len(calls) + 1
         /\ \A i \in 1..Len(calls) : Append(calls, call)[i] = calls[i]
         /\ Append(calls, call)[Len(calls) + 1] = call /\ Len(calls) \in Nat
BY AppendProperties

\* A call that replaces all labels, or is the first.
LEMMA FirstLabels ==
  ASSUME NEW calls \in Seq(MetaCalls), NEW call \in MetaCalls,
         call.kind = "labels" \/ Len(calls) = 0
  PROVE  LET new == Append(calls, call)
         IN  /\ LastReset(new, Len(calls) + 1)
             /\ LabelsFollow(new, Len(calls) + 1, try_from_iter(call.labels))
<1> DEFINE new == Append(calls, call)
           labels == try_from_iter(call.labels)
<1>1. PICK n \in Nat : n = Len(calls) /\ Len(new) = n + 1 /\ new[n + 1] = call
  BY OneMoreCall
<1>2. /\ DOMAIN labels = Gives(call)
      /\ \A k \in Gives(call) : labels[k] \in Nat /\ Pair(k, labels[k]) \in Range(call.labels)
  BY CollectedAre
<1>3. labels \in [Gives(call) -> Nat]
  BY CollectedAre
<1> HIDE DEF new, labels
<1>4. labels # None
  BY <1>3, LabelsAreSome
<1>5. /\ (n + 1)..(n + 1) = {n + 1} /\ (n + 1) + 1..(n + 1) = {} /\ n + 1 \in 1..(n + 1)
      /\ n = 0 => n + 1 = 1
  OBVIOUS
<1>6. LastReset(new, n + 1)
  BY <1>1, <1>5 DEF LastReset
<1>7. \A k \in Gives(call) : Decides(new, n + 1, k)
  BY <1>1, <1>5 DEF Decides
<1>8. LabelsFollow(new, n + 1, labels)
  BY <1>1, <1>2, <1>4, <1>5, <1>7 DEF LabelsFollow
<1> QED BY <1>1, <1>6, <1>8 DEF new, labels

\* A call that adds labels to those there are.
LEMMA MoreLabels ==
  ASSUME NEW calls \in Seq(MetaCalls), NEW call \in MetaCalls, call.kind # "labels",
         NEW f \in Nat, LastReset(calls, f), NEW old, LabelsFollow(calls, f, old)
  PROVE  LET new == Append(calls, call)
         IN  /\ LastReset(new, f)
             /\ LabelsFollow(new, f, extend_labels(old, try_from_iter(call.labels)))
<1> DEFINE new == Append(calls, call)
           more == try_from_iter(call.labels)
           labels == extend_labels(old, more)
<1>1. PICK n \in Nat : /\ n = Len(calls) /\ Len(new) = n + 1 /\ new[n + 1] = call
                       /\ \A i \in 1..n : new[i] = calls[i] /\ calls[i] \in MetaCalls
  BY OneMoreCall
<1>2. /\ DOMAIN more = Gives(call)
      /\ \A k \in Gives(call) : more[k] \in Nat /\ Pair(k, more[k]) \in Range(call.labels)
  BY CollectedAre
<1>3. /\ labels = [k \in DOMAIN old \cup DOMAIN more |-> labels[k]]
      /\ \A k \in DOMAIN more : labels[k] = more[k]
      /\ \A k \in DOMAIN old \ DOMAIN more : labels[k] = old[k]
  BY DEF extend_labels
<1> HIDE DEF new, more, labels
<1>4. /\ f \in 1..n /\ (calls[f].kind = "labels" \/ f = 1)
      /\ \A j \in f + 1..n : calls[j].kind # "labels"
  BY <1>1 DEF LastReset
<1>5. LastReset(new, f)
  <2>1. \A j \in f + 1..(n + 1) : j = n + 1 \/ (j \in f + 1..n /\ j \in 1..n)
    BY <1>4
  <2>2. f \in 1..(n + 1)
    BY <1>4
  <2> QED BY <1>1, <1>4, <2>1, <2>2 DEF LastReset
<1>6. /\ DOMAIN old = UNION {Gives(calls[i]) : i \in f..n}
      /\ \A k \in DOMAIN old : \E i \in f..n : Decides(calls, i, k) /\ Pair(k, old[k]) \in Range(calls[i].labels)
  BY <1>1 DEF LabelsFollow
<1>7. \A i \in f..n : i \in 1..n /\ i \in f..(n + 1)
  BY <1>4
<1>8. n + 1 \in f..(n + 1) /\ \A i \in f..(n + 1) : i \in f..n \/ i = n + 1
  BY <1>4
<1>9. DOMAIN labels = UNION {Gives(new[i]) : i \in f..(n + 1)}
  <2>1. DOMAIN labels = DOMAIN old \cup DOMAIN more
    BY <1>3
  <2>2. \A i \in f..n : Gives(new[i]) = Gives(calls[i])
    BY <1>1, <1>7
  <2>3. Gives(new[n + 1]) = DOMAIN more
    BY <1>1, <1>2
  <2> QED BY <1>6, <1>7, <1>8, <2>1, <2>2, <2>3
<1>10. ASSUME NEW k \in DOMAIN labels
       PROVE  \E i \in f..(n + 1) : /\ Decides(new, i, k) /\ Pair(k, labels[k]) \in Range(new[i].labels)
                                    /\ labels[k] \in Nat
  <2>1. CASE k \in DOMAIN more
    <3>1. Decides(new, n + 1, k)
      <4>1. (n + 1) + 1..(n + 1) = {}
        OBVIOUS
      <4> QED BY <1>1, <1>2, <2>1, <4>1 DEF Decides
    <3>2. Pair(k, labels[k]) \in Range(new[n + 1].labels) /\ labels[k] \in Nat
      BY <1>1, <1>2, <1>3, <2>1
    <3> QED BY <1>8, <3>1, <3>2
  <2>2. CASE k \notin DOMAIN more
    <3>1. k \in DOMAIN old /\ labels[k] = old[k]
      BY <1>3, <2>2
    <3>2. PICK i \in f..n : Decides(calls, i, k) /\ Pair(k, old[k]) \in Range(calls[i].labels)
      BY <1>6, <3>1
    <3>3. \A j \in i + 1..(n + 1) : j = n + 1 \/ (j \in i + 1..n /\ j \in 1..n)
      BY <1>4
    <3>4. Decides(new, i, k)
      <4>1. k \in Gives(calls[i]) /\ \A j \in i + 1..n : k \notin Gives(calls[j])
        BY <1>1, <3>2 DEF Decides
      <4> QED BY <1>1, <1>2, <1>7, <2>2, <3>3, <4>1 DEF Decides
    <3>5. old[k] \in Nat
      <4>1. PICK v : v = old[k]
        OBVIOUS
      <4>2. Pair(k, v).value \in Nat
        BY <1>1, <1>7, <3>2, <4>1, LabelAssumption
      <4> QED BY <4>1, <4>2 DEF Pair
    <3> QED BY <1>1, <1>7, <3>1, <3>2, <3>4, <3>5
  <2> QED BY <2>1, <2>2
<1>11. labels # None
  <2>1. labels \in [DOMAIN labels -> Nat]
    BY <1>3, <1>10
  <2>2. \A k \in DOMAIN labels : \E c \in MetaCalls : k \in Gives(c)
    BY <1>1, <1>7, <1>8, <1>9
  <2> QED BY <2>1, <2>2, LabelsAreSome
<1>12. LabelsFollow(new, f, labels)
  BY <1>1, <1>9, <1>10, <1>11 DEF LabelsFollow
<1> QED BY <1>5, <1>12 DEF new, more, labels

\* The builder there is after a call.
LEMMA NextBuilder ==
  ASSUME NEW b, NEW call \in MetaCalls,
         b = [calls |-> <<>>, meta |-> NewMeta] \/ BuilderFollows(b)
  PROVE  LET labels == try_from_iter(call.labels)
         IN  BuilderFollows(
               [calls |-> Append(b.calls, call),
                meta  |-> IF call.kind = "labels" THEN set_labels(b.meta, labels)
                          ELSE with_labels(with_finalizers(b.meta, <<call.kind>>), labels)])
<1> DEFINE labels == try_from_iter(call.labels)
           meta == IF call.kind = "labels" THEN set_labels(b.meta, labels)
                   ELSE with_labels(with_finalizers(b.meta, <<call.kind>>), labels)
           new == [calls |-> Append(b.calls, call), meta |-> meta]
<1>1. new.calls = Append(b.calls, call) /\ new.meta = meta
  OBVIOUS
<1>2. /\ b.calls \in Seq(MetaCalls) /\ "labels" \in DOMAIN b.meta
      /\ b.meta.labels = None => Len(b.calls) = 0
      /\ b.meta.labels # None => BuilderFollows(b)
  <2>1. CASE b = [calls |-> <<>>, meta |-> NewMeta]
    <3>1. b.calls = <<>> /\ b.meta = NewMeta
      BY <2>1
    <3>2. "labels" \in DOMAIN NewMeta /\ NewMeta.labels = None
      BY DEF NewMeta
    <3>3. <<>> \in Seq(MetaCalls) /\ Len(<<>>) = 0
      OBVIOUS
    <3> QED BY <3>1, <3>2, <3>3
  <2>2. CASE BuilderFollows(b)
    BY <2>2 DEF BuilderFollows, LabelsFollow
  <2> QED BY <2>1, <2>2
<1>3. /\ "labels" \in DOMAIN meta
      /\ call.kind = "labels" => meta.labels = labels
      /\ call.kind # "labels" =>
           meta.labels = IF b.meta.labels = None THEN labels ELSE extend_labels(b.meta.labels, labels)
  <2> DEFINE finalized == with_finalizers(b.meta, <<call.kind>>)
  <2>1. "labels" \in DOMAIN finalized /\ finalized.labels = b.meta.labels
    BY <1>2 DEF with_finalizers
  <2>2. /\ "labels" \in DOMAIN set_labels(b.meta, labels)
        /\ set_labels(b.meta, labels).labels = labels
    <3> HIDE DEF labels
    <3> QED BY <1>2 DEF set_labels
  <2>3. /\ "labels" \in DOMAIN with_labels(finalized, labels)
        /\ with_labels(finalized, labels).labels
             = IF finalized.labels = None THEN labels ELSE extend_labels(finalized.labels, labels)
    <3> HIDE DEF labels, finalized
    <3> QED BY <2>1 DEF with_labels
  <2> HIDE DEF labels
  <2> QED BY <2>1, <2>2, <2>3
<1> HIDE DEF meta, new
<1>4. Append(b.calls, call) \in Seq(MetaCalls) /\ Len(b.calls) \in Nat
  BY <1>2, OneMoreCall
<1>5. ASSUME call.kind = "labels" \/ b.meta.labels = None PROVE BuilderFollows(new)
  <2>1. meta.labels = labels
    BY <1>3, <1>5
  <2>2. /\ LastReset(Append(b.calls, call), Len(b.calls) + 1)
        /\ LabelsFollow(Append(b.calls, call), Len(b.calls) + 1, labels)
    BY <1>2, <1>5, FirstLabels
  <2>3. Len(b.calls) + 1 \in Nat
    BY <1>4
  <2> HIDE DEF labels
  <2> QED BY <1>1, <1>3, <1>4, <2>1, <2>2, <2>3 DEF BuilderFollows
<1>6. ASSUME call.kind # "labels" /\ b.meta.labels # None PROVE BuilderFollows(new)
  <2>1. PICK f \in Nat : LastReset(b.calls, f) /\ LabelsFollow(b.calls, f, b.meta.labels)
    BY <1>2, <1>6 DEF BuilderFollows
  <2>2. meta.labels = extend_labels(b.meta.labels, labels)
    BY <1>3, <1>6
  <2>3. /\ LastReset(Append(b.calls, call), f)
        /\ LabelsFollow(Append(b.calls, call), f, extend_labels(b.meta.labels, labels))
    BY <1>2, <1>6, <2>1, MoreLabels
  <2> HIDE DEF labels
  <2> QED BY <1>1, <1>3, <1>4, <2>1, <2>2, <2>3 DEF BuilderFollows
<1> QED BY <1>5, <1>6 DEF new, meta

\* The place of the last call that replaces all labels.
StartOf(calls) ==
  LET reset == {i \in DOMAIN calls : calls[i].kind = "labels"}
  IN  IF reset = {} THEN 1 ELSE CHOOSE i \in reset : \A j \in reset : j <= i

\* The place of the last call from one on that gives a key.
LastGiving(calls, from, k) ==
  CHOOSE i \in from..Len(calls) :
    k \in Gives(calls[i]) /\ \A j \in i + 1..Len(calls) : k \notin Gives(calls[j])

\* The last call that replaces all labels, and the last one that gives a key, are the ones.
LEMMA LastCallsAre ==
  ASSUME NEW calls, Len(calls) \in Nat, DOMAIN calls = 1..Len(calls), NEW f \in Nat, LastReset(calls, f)
  PROVE  /\ StartOf(calls) = f
         /\ \A k, i : i \in f..Len(calls) /\ Decides(calls, i, k) => LastGiving(calls, f, k) = i
<1> DEFINE reset == {i \in DOMAIN calls : calls[i].kind = "labels"}
           from == StartOf(calls)
           last(k) == LastGiving(calls, f, k)
<1>1. /\ f \in 1..Len(calls) /\ (calls[f].kind = "labels" \/ f = 1)
      /\ \A j \in f + 1..Len(calls) : calls[j].kind # "labels"
  BY DEF LastReset
<1>4. from = IF reset = {} THEN 1 ELSE CHOOSE i \in reset : \A j \in reset : j <= i
  BY DEF StartOf
<1>5. \A k : last(k) = CHOOSE i \in f..Len(calls) :
                          k \in Gives(calls[i]) /\ \A j \in i + 1..Len(calls) : k \notin Gives(calls[j])
  BY DEF LastGiving
<1> HIDE DEF from, last
<1>2. from = f
  <2>1. \A i \in reset : i \in 1..Len(calls) /\ i <= f
    BY <1>1
  <2>2. CASE reset = {}
    <3>1. f \notin reset
      BY <2>2
    <3> QED BY <1>1, <1>4, <2>2, <3>1
  <2>3. CASE reset # {}
    <3>1. PICK i : i \in reset
      BY <2>3
    <3>2. f \in reset
      BY <1>1, <2>1, <3>1
    <3>3. \A j \in reset : j <= f
      BY <2>1
    <3>4. \A j \in reset : (\A m \in reset : m <= j) => j = f
      BY <2>1, <3>2
    <3> HIDE DEF reset
    <3> DEFINE g == CHOOSE j \in reset : \A m \in reset : m <= j
    <3>5. g \in reset /\ \A m \in reset : m <= g
      BY <3>2, <3>3
    <3>6. g = f
      BY <3>4, <3>5
    <3> QED BY <1>4, <2>3, <3>6 DEF reset
  <2> QED BY <2>2, <2>3
<1>3. ASSUME NEW k, NEW i, i \in f..Len(calls), Decides(calls, i, k) PROVE last(k) = i
  <2>1. k \in Gives(calls[i]) /\ \A j \in i + 1..Len(calls) : k \notin Gives(calls[j])
    BY <1>3 DEF Decides
  <2>2. \A m \in f..Len(calls) :
          (k \in Gives(calls[m]) /\ \A j \in m + 1..Len(calls) : k \notin Gives(calls[j])) => m = i
    BY <1>3, <2>1
  <2>3. last(k) \in f..Len(calls) /\ k \in Gives(calls[last(k)])
        /\ \A j \in last(k) + 1..Len(calls) : k \notin Gives(calls[j])
    BY <1>3, <1>5, <2>1
  <2> QED BY <2>2, <2>3
<1> QED BY <1>2, <1>3 DEF from, last

\* The labels that are built follow the calls.
LEMMA BuiltLabelsFollow ==
  ASSUME NEW b, BuilderFollows(b)
  PROVE  LET calls == b.calls
             from == StartOf(calls)
             keys == UNION {Gives(calls[i]) : i \in from..Len(calls)}
             last(k) == LastGiving(calls, from, k)
             labels == build_meta(b.meta).labels
         IN  /\ DOMAIN labels = keys
             /\ \A k \in keys : Pair(k, labels[k]) \in Range(calls[last(k)].labels)
<1> DEFINE calls == b.calls
           from == StartOf(calls)
           last(k) == LastGiving(calls, from, k)
           labels == b.meta.labels
           keys == UNION {Gives(calls[i]) : i \in from..Len(calls)}
<1>1. calls \in Seq(MetaCalls)
  BY DEF BuilderFollows
<1>2. PICK f \in Nat : LastReset(calls, f) /\ LabelsFollow(calls, f, labels)
  BY DEF BuilderFollows
<1>3. /\ from = f
      /\ \A k, i : i \in f..Len(calls) /\ Decides(calls, i, k) => last(k) = i
  <2>1. Len(calls) \in Nat /\ DOMAIN calls = 1..Len(calls)
    BY <1>1
  <2> HIDE DEF calls
  <2> QED BY <1>2, <2>1, LastCallsAre, Zenon
<1>4. build_meta(b.meta).labels = labels
  BY DEF build_meta
<1>5. DOMAIN labels = keys
  BY <1>2, <1>3 DEF LabelsFollow
<1> HIDE DEF last, from, labels, calls
<1>6. ASSUME NEW k \in keys PROVE Pair(k, labels[k]) \in Range(calls[last(k)].labels)
  <2>1. PICK i \in f..Len(calls) : Decides(calls, i, k) /\ Pair(k, labels[k]) \in Range(calls[i].labels)
    BY <1>2, <1>5, <1>6 DEF LabelsFollow
  <2> QED BY <1>3, <2>1
<1> QED BY <1>4, <1>5, <1>6, Zenon DEF last, from, labels, calls

(***************************************************************************)
(* String types and their schemas                                          *)
(***************************************************************************)
\* The expressions of attributes, and of types.
Regexes ==
  {"MatchAll", "Unknown", "config_key", "hostname", "env_var", "is_uid",
   "is_rfc_1123_dns_subdomain_name", "is_rfc_1123_label_name", "is_rfc_1035_label_name",
   "is_valid_label_value"}

\* They stay what they are when they are combined.
LEMMA RegexesAre ==
  /\ \A x \in Attributes : RegexOf(x) \in Regexes \ {"Unknown"}
  /\ \A r, s \in Regexes : combine(r, s) \in Regexes
<1>1. ASSUME NEW x \in Attributes PROVE RegexOf(x) \in Regexes \ {"Unknown"}
  <2>1. CASE x.kind = "regex"
    BY <2>1 DEF Attributes, RegexOf, Regexes
  <2>2. CASE x.kind \in {"min_length", "max_length"}
    BY <2>2 DEF RegexOf, Regexes
  <2>3. CASE x.kind \in {"is_uid", "is_rfc_1123_dns_subdomain_name", "is_rfc_1123_label_name",
                         "is_rfc_1035_label_name", "is_valid_label_value"}
    BY <2>3 DEF RegexOf, Regexes
  <2> QED BY <2>1, <2>2, <2>3 DEF Attributes
<1>2. \A r, s \in Regexes : combine(r, s) \in Regexes
  BY DEF combine, Regexes
<1> QED BY <1>1, <1>2

\* The expression that is combined from the last attributes on.
LEMMA CombinedSteps ==
  ASSUME NEW a \in Seq(Attributes)
  PROVE  LET combined == CombinedFrom(a)
         IN  /\ combined[0] = "MatchAll"
             /\ \A n \in 1..Len(a) : combined[n] = combine(RegexOf(a[Len(a) + 1 - n]), combined[n - 1])
             /\ \A n \in 0..Len(a) : combined[n] \in Regexes
<1> DEFINE N == Len(a)
           V == Regexes
           first == "MatchAll"
           next == [n \in 1..N |-> [r \in V |-> combine(RegexOf(a[N + 1 - n]), r)]]
           Body(f) == [n \in 0..N |-> IF n = 0 THEN first
                                      ELSE combine(RegexOf(a[N + 1 - n]), f[n - 1])]
           combined == CombinedFrom(a)
<1>1. N \in Nat /\ \A n \in 1..N : a[n] \in Attributes
  OBVIOUS
<1>2. first \in V
  BY DEF Regexes
<1>3. ASSUME NEW r \in V, NEW n \in 1..N PROVE combine(RegexOf(a[N + 1 - n]), r) \in V
  <2>1. N + 1 - n \in 1..N
    BY <1>1
  <2>2. RegexOf(a[N + 1 - n]) \in V
    BY <1>1, <2>1, RegexesAre
  <2> QED BY <2>2, RegexesAre
<1>4. next \in Steps(N, V)
  BY <1>1, <1>3 DEF Steps
<1> HIDE DEF V
<1>5. PICK g : Iterates(g, N, V, first, next)
  BY <1>1, <1>2, <1>4, IterationExists
<1>6. g = Body(g)
  <2>1. g \in [0..N -> V] /\ g[0] = first /\ \A n \in 1..N : g[n] = next[n][g[n - 1]]
    BY <1>5 DEF Iterates
  <2>2. ASSUME NEW n \in 0..N
        PROVE  g[n] = IF n = 0 THEN first ELSE combine(RegexOf(a[N + 1 - n]), g[n - 1])
    <3>1. CASE n = 0
      BY <2>1, <3>1
    <3>2. CASE n # 0
      <4>1. n \in 1..N /\ n - 1 \in 0..N
        BY <1>1, <3>2
      <4>2. g[n - 1] \in V
        BY <2>1, <4>1
      <4>3. next[n][g[n - 1]] = combine(RegexOf(a[N + 1 - n]), g[n - 1])
        BY <4>1, <4>2
      <4>4. QED
        BY <2>1, <3>2, <4>1, <4>3
    <3>3. QED
      BY <3>1, <3>2
  <2>3. QED
    BY <2>1, <2>2
<1>7. combined = CHOOSE f : f = Body(f)
  BY DEF CombinedFrom
<1>8. combined = Body(combined)
  BY <1>6, <1>7
<1>9. ASSUME NEW n \in 0..N
      PROVE  combined[n] = IF n = 0 THEN first ELSE combine(RegexOf(a[N + 1 - n]), combined[n - 1])
  BY <1>8
<1>10. combined[0] = first
  BY <1>1, <1>9
<1>11. ASSUME NEW n \in 1..N PROVE combined[n] = combine(RegexOf(a[N + 1 - n]), combined[n - 1])
  <2>1. n \in 0..N /\ n # 0
    BY <1>1
  <2>2. QED
    BY <1>9, <2>1
<1>12. Iterates(combined, N, V, first, next)
  <2>1. combined = [n \in 0..N |-> combined[n]]
    BY <1>8
  <2>2. \A n \in 1..N : combined[n - 1] \in V => combined[n] = next[n][combined[n - 1]]
    BY <1>11
  <2> HIDE DEF next, first, combined
  <2>3. Follows(combined, N, V, first, next)
    BY <1>10, <2>1, <2>2 DEF Follows, first
  <2>4. QED
    BY <1>1, <1>2, <1>4, <2>3, IterationFollows
<1>13. \A n \in 0..N : combined[n] \in V
  BY <1>12 DEF Iterates
<1>15. QED
  BY <1>10, <1>11, <1>13 DEF V

\* Attributes have one expression: that of one of them, when the others match everything.
OneRegex(a, l, n, regex) ==
  \/ regex = "Unknown"
  \/ regex = "MatchAll" /\ \A i \in l..n : RegexOf(a[i]) = "MatchAll"
  \/ \E i \in l..n : regex = RegexOf(a[i]) /\ \A j \in l..n : j # i => RegexOf(a[j]) = "MatchAll"

\* The expression of a type is that of one of its attributes, or unknown.
LEMMA CombinedIs ==
  ASSUME NEW a \in Seq(Attributes)
  PROVE  OneRegex(a, 1, Len(a), CombinedFrom(a)[Len(a)])
<1> DEFINE N == Len(a)
           c == CombinedFrom(a)
           T == {n \in 0..N : OneRegex(a, N + 1 - n, N, c[n])}
<1>1. /\ c[0] = "MatchAll" /\ N \in Nat
      /\ \A n \in 1..N : c[n] = combine(RegexOf(a[N + 1 - n]), c[n - 1])
  BY CombinedSteps
<1> HIDE DEF c, N
<1>2. 0 \in T
  <2>1. (N + 1 - 0)..N = {} /\ 0 \in 0..N
    BY <1>1
  <2> QED BY <1>1, <2>1 DEF OneRegex
<1>3. ASSUME NEW n \in 1..N, n - 1 \in T PROVE n \in T
  <2>1. PICK m : m = N + 1 - n
    OBVIOUS
  <2>2. /\ m \in 1..N /\ N + 1 - (n - 1) = m + 1 /\ n \in 0..N
        /\ \A i \in m..N : i = m \/ i \in m + 1..N
        /\ \A i \in m + 1..N : i \in m..N /\ i # m
        /\ m \in m..N
    BY <1>1, <2>1
  <2>3. OneRegex(a, m + 1, N, c[n - 1])
    BY <1>3, <2>2
  <2>4. c[n] = combine(RegexOf(a[m]), c[n - 1])
    BY <1>1, <2>1
  <2>5. c[n] = (CASE c[n - 1] = "MatchAll" -> RegexOf(a[m])
                  [] c[n - 1] # "MatchAll" /\ RegexOf(a[m]) = "MatchAll" -> c[n - 1]
                  [] OTHER -> "Unknown")
    BY <2>4 DEF combine
  <2>6. OneRegex(a, m, N, c[n])
    <3>1. CASE c[n - 1] = "MatchAll" /\ \A i \in m + 1..N : RegexOf(a[i]) = "MatchAll"
      BY <2>2, <2>5, <3>1 DEF OneRegex
    <3>2. CASE c[n - 1] # "MatchAll" /\ RegexOf(a[m]) = "MatchAll"
      <4>1. c[n] = c[n - 1]
        BY <2>5, <3>2
      <4> QED BY <2>2, <2>3, <3>2, <4>1 DEF OneRegex
    <3>3. CASE c[n - 1] # "MatchAll" /\ RegexOf(a[m]) # "MatchAll"
      BY <2>5, <3>3 DEF OneRegex
    <3>4. CASE c[n - 1] = "MatchAll" /\ ~\A i \in m + 1..N : RegexOf(a[i]) = "MatchAll"
      BY <2>2, <2>3, <3>4 DEF OneRegex
    <3> QED BY <3>1, <3>2, <3>3, <3>4
  <2> QED BY <2>1, <2>2, <2>6
<1> HIDE DEF T
<1>4. 0..N \subseteq T
  BY <1>1, <1>2, <1>3, EveryNumber
<1>5. N \in T
  BY <1>1, <1>4
<1>6. N + 1 - N = 1
  BY <1>1
<1> QED BY <1>5, <1>6 DEF T, N, c

\* The characters of a text that a validator accepts.
LEMMA FramedIs ==
  ASSUME NEW text \in Seq(Characters), NEW first, NEW middle, NEW last, Framed(text, first, middle, last)
  PROVE  text # <<>> /\ \A i \in 1..Len(text) : text[i] \in first \cup middle \cup last
<1>1. Len(text) \in Nat /\ (text # <<>> => Len(text) > 0) /\ Last(text) = text[Len(text)]
  BY EmptyText DEF Last
<1>2. \A i \in 1..Len(text) : i = 1 \/ (Len(text) > 1 /\ (i = Len(text) \/ i \in 2..(Len(text) - 1)))
  BY <1>1
<1> QED BY <1>1, <1>2 DEF Framed

\* A text of parts without characters outside ASCII has none.
LEMMA AsciiParts ==
  ASSUME NEW text \in Seq(Characters), NEW separator, separator # "e",
         \A part \in Range(Split(text, separator)) : \A k \in 1..Len(part) : part[k] # "e"
  PROVE  \A i \in 1..Len(text) : text[i] # "e"
<1> DEFINE parts == Split(text, separator)
<1>1. DOMAIN parts = 1..Len(parts)
  BY SplitType
<1> SUFFICES ASSUME NEW i \in 1..Len(text), text[i] = "e" PROVE FALSE
  OBVIOUS
<1>2. \E j \in 1..Len(parts) : \E k \in 1..Len(parts[j]) : parts[j][k] = text[i]
  BY CharactersOfParts
<1>3. \A j \in 1..Len(parts) : parts[j] \in Range(parts)
  BY <1>1 DEF Range
<1> HIDE DEF parts
<1> QED BY <1>2, <1>3 DEF parts

\* The parts of a text are texts.
LEMMA PartsAreTexts ==
  ASSUME NEW text \in Seq(Characters), NEW separator
  PROVE  \A part \in Range(Split(text, separator)) : part \in Seq(Characters)
<1>1. Split(text, separator) \in Seq(Seq(Characters))
  BY SplitType
<1> QED BY <1>1 DEF Range

\* Texts without such characters.
LEMMA AsciiIs ==
  ASSUME NEW text \in Seq(Characters)
  PROVE  IsAscii(text) <=> \A i \in 1..Len(text) : text[i] # "e"
BY DEF IsAscii, Range

\* Subdomains and domains are ASCII, and a subdomain is not empty.
LEMMA DomainsAreAscii ==
  ASSUME NEW text \in Seq(Characters)
  PROVE  /\ Rfc1123Subdomain(text) => IsAscii(text) /\ text # <<>>
         /\ is_domain(text) => IsAscii(text)
<1>1. "." # "e"
  OBVIOUS
<1>2. ASSUME Rfc1123Subdomain(text) PROVE IsAscii(text) /\ text # <<>>
  <2>1. ASSUME NEW part \in Range(Split(text, ".")), NEW k \in 1..Len(part) PROVE part[k] # "e"
    <3>1. part \in Seq(Characters) /\ Rfc1123Label(part)
      BY <1>2, PartsAreTexts DEF Rfc1123Subdomain
    <3>2. part[k] \in Lower \cup {"-"}
      BY <3>1, LabelIs
    <3> QED BY <3>2 DEF Lower
  <2>2. IsAscii(text)
    BY <1>1, <2>1, AsciiParts, AsciiIs
  <2>3. ASSUME text = <<>> PROVE FALSE
    <3>1. <<>> \in Range(Split(text, "."))
      <4>1. Split(text, ".") = << <<>> >>
        BY <2>3, SplitNothing
      <4> QED BY <4>1 DEF Range
    <3>2. Rfc1123Label(<<>>)
      BY <1>2, <3>1 DEF Rfc1123Subdomain
    <3> QED BY <3>2 DEF Rfc1123Label, Framed
  <2> QED BY <2>2, <2>3
<1>3. ASSUME is_domain(text) PROVE IsAscii(text)
  <2> DEFINE s == IF text # <<>> /\ Last(text) = "." THEN Front(text) ELSE text
  <2>1. \A part \in Range(Split(s, ".")) : Framed(part, AlNum, AlNum \cup {"-"}, AlNum)
    BY <1>3 DEF is_domain, validate_all
  <2>2. /\ s \in Seq(Characters) /\ Len(s) \in Nat /\ Len(text) \in Nat
        /\ \A i \in 1..Len(text) : text[i] # "e" \/ (i \in 1..Len(s) /\ text[i] = s[i])
    <3>1. CASE text # <<>> /\ Last(text) = "."
      <4>1. Len(text) > 0 /\ Len(text) \in Nat
        BY <3>1, EmptyText
      <4>2. /\ Front(text) \in Seq(Characters) /\ Len(Front(text)) = Len(text) - 1
            /\ \A i \in 1..(Len(text) - 1) : Front(text)[i] = text[i]
            /\ text[Len(text)] = "."
        BY <3>1, <4>1, FrontAndLast
      <4>3. s = Front(text)
        BY <3>1
      <4> HIDE DEF s
      <4>4. \A i \in 1..Len(text) : i = Len(text) \/ i \in 1..(Len(text) - 1)
        BY <4>1
      <4> QED BY <1>1, <4>1, <4>2, <4>3, <4>4
    <3>2. CASE ~(text # <<>> /\ Last(text) = ".")
      <4>1. s = text
        BY <3>2
      <4> HIDE DEF s
      <4> QED BY <4>1
    <3> QED BY <3>1, <3>2
  <2> HIDE DEF s
  <2>3. ASSUME NEW part \in Range(Split(s, ".")), NEW k \in 1..Len(part) PROVE part[k] # "e"
    <3>1. part \in Seq(Characters) /\ Framed(part, AlNum, AlNum \cup {"-"}, AlNum)
      BY <2>1, <2>2, PartsAreTexts
    <3>2. part[k] \in AlNum \cup (AlNum \cup {"-"}) \cup AlNum
      BY <3>1, FramedIs
    <3> QED BY <3>2 DEF AlNum
  <2>4. \A i \in 1..Len(s) : s[i] # "e"
    BY <1>1, <2>2, <2>3, AsciiParts
  <2> QED BY <2>2, <2>4, AsciiIs
<1> QED BY <1>2, <1>3

\* What every expression but that of environment variables and those that accept all says.
LEMMA RegexesAreAscii ==
  ASSUME NEW text \in Seq(Characters), NEW regex \in Regexes \ {"MatchAll", "Unknown", "env_var"},
         MatchesRegex(regex, text)
  PROVE  IsAscii(text)
<1>1. CASE regex = "config_key"
  <2>1. Range(text) \subseteq AlNum \cup {"-", ".", "_"}
    BY <1>1 DEF MatchesRegex
  <2> QED BY <2>1 DEF IsAscii, AlNum
<1>2. CASE regex = "hostname"
  BY <1>2, DomainsAreAscii DEF MatchesRegex
<1>3. CASE regex = "is_rfc_1035_label_name"
  <2>1. Rfc1123Label(text)
    BY <1>3, LabelIs DEF MatchesRegex
  <2> QED BY <2>1, LabelsAreUsable
<1>4. CASE regex = "is_rfc_1123_label_name"
  BY <1>4, LabelsAreUsable DEF MatchesRegex
<1>5. CASE regex = "is_rfc_1123_dns_subdomain_name"
  BY <1>5, DomainsAreAscii DEF MatchesRegex
<1>6. CASE regex = "is_valid_label_value"
  <2>1. LABEL_VALUE_REGEX(text)
    BY <1>6 DEF MatchesRegex
  <2>2. \A i \in 1..Len(text) : text[i] \in AlNum \cup (AlNum \cup {"-", "_", "."}) \cup AlNum
    BY <2>1, FramedIs DEF LABEL_VALUE_REGEX
  <2> QED BY <2>2, AsciiIs DEF AlNum
<1>7. CASE regex = "is_uid"
  <2>1. IsUuid(text)
    BY <1>7 DEF MatchesRegex
  <2>2. \A i \in 1..Len(text) : text[i] \in AlNum \cup {"-"}
    BY <2>1 DEF IsUuid, Range
  <2> QED BY <2>2, AsciiIs DEF AlNum
<1> QED BY <1>1, <1>2, <1>3, <1>4, <1>5, <1>6, <1>7 DEF Regexes

\* What the validators of names check besides the expression.
LEMMA ValidatorsAre ==
  ASSUME NEW text \in Seq(Characters)
  PROVE  /\ is_lowercase_rfc_1035_label(text) <=> Bytes(text) <= LabelMax /\ Rfc1035Label(text)
         /\ is_lowercase_rfc_1123_label(text) <=> Bytes(text) <= LabelMax /\ Rfc1123Label(text)
         /\ is_lowercase_rfc_1123_subdomain(text) <=> Bytes(text) <= SubdomainMax /\ Rfc1123Subdomain(text)
         /\ LabelValue(text).ok <=> Bytes(text) <= LabelMax /\ IsAscii(text) /\ LABEL_VALUE_REGEX(text)
<1>1. LabelValue(text).ok <=> ~(Bytes(text) > LabelMax) /\ IsAscii(text) /\ LABEL_VALUE_REGEX(text)
  <2>1. \A x : Ok(x).ok /\ ~Err(x).ok
    BY DEF Ok, Err
  <2>2. LabelValue(text) = IF Bytes(text) > LabelMax THEN Err("ValueTooLong")
                           ELSE IF ~IsAscii(text) THEN Err("ValueNotAscii")
                           ELSE IF LABEL_VALUE_REGEX(text) THEN Ok(text) ELSE Err("ValueInvalid")
    <3>1. Bytes(text) > LabelMax <=> ~(Bytes(text) <= LabelMax)
      BY BytesAreBounded, NameLimits
    <3> QED BY <3>1 DEF LabelValue
  <2> QED BY <2>1, <2>2
<1>2. Bytes(text) > LabelMax <=> ~(Bytes(text) <= LabelMax)
  BY BytesAreBounded, NameLimits
<1> QED BY <1>1, <1>2 DEF is_lowercase_rfc_1035_label, is_lowercase_rfc_1123_label,
                         is_lowercase_rfc_1123_subdomain, validate_all

\* The kinds of attributes that stand for an expression of their own.
RegexKinds ==
  {"is_uid", "is_rfc_1123_dns_subdomain_name", "is_rfc_1123_label_name", "is_rfc_1035_label_name",
   "is_valid_label_value"}

\* The attributes one by one.
LEMMA AttributeCases ==
  ASSUME NEW x \in Attributes
  PROVE  /\ \/ x.kind = "min_length" /\ x.value = 1 /\ RegexOf(x) = "MatchAll"
               /\ LowerBound(x) = 1 /\ UpperBound(x) = NoLimit
            \/ x.kind = "max_length" /\ x.value \in Nat /\ RegexOf(x) = "MatchAll"
               /\ LowerBound(x) = 0 /\ UpperBound(x) = x.value
            \/ x.kind = "regex" /\ x.value \in {"config_key", "hostname", "env_var"}
               /\ RegexOf(x) = x.value /\ LowerBound(x) = 0 /\ UpperBound(x) = NoLimit
            \/ x.kind \in RegexKinds /\ RegexOf(x) = x.kind
         /\ x.kind \in {"is_rfc_1123_label_name", "is_rfc_1035_label_name", "is_valid_label_value"} =>
              LowerBound(x) = 1 /\ UpperBound(x) = LabelMax
         /\ x.kind = "is_rfc_1123_dns_subdomain_name" => LowerBound(x) = 1 /\ UpperBound(x) = SubdomainMax
<1>1. CASE x.kind = "min_length"
  <2>1. x.value = 1
    BY <1>1 DEF Attributes
  <2> QED BY <1>1, <2>1 DEF RegexOf, LowerBound, UpperBound
<1>2. CASE x.kind = "max_length"
  <2>1. x.value \in Nat
    BY <1>2 DEF Attributes
  <2> QED BY <1>2, <2>1 DEF RegexOf, LowerBound, UpperBound
<1>3. CASE x.kind = "regex"
  <2>1. x.value \in {"config_key", "hostname", "env_var"}
    BY <1>3 DEF Attributes
  <2> QED BY <1>3, <2>1 DEF RegexOf, LowerBound, UpperBound
<1>4. CASE x.kind \in RegexKinds
  BY <1>4 DEF RegexKinds, RegexOf, LowerBound, UpperBound
<1>5. x.kind \in {"min_length", "max_length", "regex"} \cup RegexKinds
  BY DEF Attributes, RegexKinds
<1> QED BY <1>1, <1>2, <1>3, <1>4, <1>5

\* The expressions by name.
LEMMA RegexCases ==
  ASSUME NEW text
  PROVE  /\ MatchesRegex("MatchAll", text) /\ MatchesRegex("Unknown", text)
         /\ MatchesRegex("is_rfc_1035_label_name", text) <=> Rfc1035Label(text)
         /\ MatchesRegex("is_rfc_1123_label_name", text) <=> Rfc1123Label(text)
         /\ MatchesRegex("is_rfc_1123_dns_subdomain_name", text) <=> Rfc1123Subdomain(text)
         /\ MatchesRegex("is_valid_label_value", text) <=> LABEL_VALUE_REGEX(text)
         /\ MatchesRegex("is_uid", text) => IsUuid(text)
BY DEF MatchesRegex

\* What holds of a text by its kind.
LEMMA HoldsIs ==
  ASSUME NEW x \in Attributes, NEW type, NEW text \in Seq(Characters)
  PROVE  /\ x.kind = "min_length" => (Holds(x, type, text) <=> Bytes(text) >= MIN_LENGTH(type))
         /\ x.kind = "max_length" => (Holds(x, type, text) <=> Bytes(text) <= MAX_LENGTH(type))
         /\ x.kind = "regex" => (Holds(x, type, text) <=> MatchesRegex(x.value, text))
         /\ x.kind = "is_rfc_1035_label_name" =>
              (Holds(x, type, text) <=> Bytes(text) <= LabelMax /\ Rfc1035Label(text))
         /\ x.kind = "is_rfc_1123_label_name" =>
              (Holds(x, type, text) <=> Bytes(text) <= LabelMax /\ Rfc1123Label(text))
         /\ x.kind = "is_rfc_1123_dns_subdomain_name" =>
              (Holds(x, type, text) <=> Bytes(text) <= SubdomainMax /\ Rfc1123Subdomain(text))
         /\ x.kind = "is_valid_label_value" =>
              (Holds(x, type, text) <=> Bytes(text) <= LabelMax /\ IsAscii(text) /\ LABEL_VALUE_REGEX(text))
         /\ x.kind = "is_uid" => (Holds(x, type, text) <=> IsUuid(text))
<1>1. /\ x.kind = "is_rfc_1035_label_name" => (Holds(x, type, text) <=> is_lowercase_rfc_1035_label(text))
      /\ x.kind = "is_rfc_1123_label_name" => (Holds(x, type, text) <=> is_lowercase_rfc_1123_label(text))
      /\ x.kind = "is_rfc_1123_dns_subdomain_name" =>
           (Holds(x, type, text) <=> is_lowercase_rfc_1123_subdomain(text))
      /\ x.kind = "is_valid_label_value" => (Holds(x, type, text) <=> LabelValue(text).ok)
      /\ x.kind = "is_uid" => (Holds(x, type, text) <=> IsUuid(text))
  BY DEF Holds
<1>2. /\ x.kind = "min_length" => (Holds(x, type, text) <=> Bytes(text) >= MIN_LENGTH(type))
      /\ x.kind = "max_length" => (Holds(x, type, text) <=> Bytes(text) <= MAX_LENGTH(type))
      /\ x.kind = "regex" => (Holds(x, type, text) <=> MatchesRegex(x.value, text))
  BY DEF Holds
<1> QED BY <1>1, <1>2, ValidatorsAre

\* An attribute that holds is kept by the bounds and the expression in the schema.
LEMMA HeldIsInSchema ==
  ASSUME NEW type \in TypeNames, NEW text \in Seq(Characters), Len(text) <= NoLimit,
         NEW x \in Attributes, x.kind # "is_uid", Holds(x, type, text),
         LowerBound(x) <= MIN_LENGTH(type)
  PROVE  /\ LowerBound(x) <= Len(text)
         /\ MAX_LENGTH(type) = UpperBound(x) => Len(text) <= MAX_LENGTH(type)
         /\ MatchesRegex(RegexOf(x), text)
<1>1. /\ Bytes(text) \in Nat /\ Len(text) \in Nat /\ Len(text) <= Bytes(text)
      /\ (Bytes(text) = 0 => Len(text) = 0) /\ (text # <<>> => Len(text) >= 1)
      /\ LabelMax \in Nat /\ SubdomainMax \in Nat /\ MIN_LENGTH(type) \in Nat /\ MAX_LENGTH(type) \in Nat
      /\ NoLimit \in Nat
  <2>1. Bytes(text) \in Nat /\ Len(text) \in Nat /\ Len(text) <= Bytes(text)
        /\ (Bytes(text) = 0 => text = <<>>)
    BY BytesAreBounded
  <2>2. text # <<>> => Len(text) >= 1
    BY <2>1, EmptyText
  <2>3. NoLimit \in Nat
    BY SMT DEF NoLimit
  <2> QED BY <2>1, <2>2, <2>3, EmptyText, NameLimits, LengthsAre
<1>2. CASE x.kind = "min_length"
  <2>1. Bytes(text) >= MIN_LENGTH(type) /\ LowerBound(x) = 1 /\ UpperBound(x) = NoLimit
        /\ RegexOf(x) = "MatchAll"
    BY <1>2, HoldsIs, AttributeCases DEF RegexKinds
  <2>2. Len(text) = 0 => Bytes(text) = 0
    <3>1. ASSUME Len(text) = 0 PROVE IsAscii(text)
      <4>1. 1..Len(text) = {}
        BY <3>1
      <4>2. \A i \in 1..Len(text) : text[i] # "e"
        BY <4>1, Zenon
      <4> QED BY <4>2, AsciiIs
    <3> QED BY <3>1, BytesAreBounded
  <2> QED BY <1>1, <2>1, <2>2, RegexCases
<1>3. CASE x.kind = "max_length"
  <2>1. Bytes(text) <= MAX_LENGTH(type) /\ LowerBound(x) = 0 /\ RegexOf(x) = "MatchAll"
    BY <1>3, HoldsIs, AttributeCases DEF RegexKinds
  <2> QED BY <1>1, <2>1, RegexCases
<1>4. CASE x.kind = "regex"
  <2>1. MatchesRegex(RegexOf(x), text) /\ LowerBound(x) = 0 /\ UpperBound(x) = NoLimit
    BY <1>4, HoldsIs, AttributeCases DEF RegexKinds
  <2> QED BY <1>1, <2>1
<1>5. CASE x.kind \in {"is_rfc_1123_label_name", "is_rfc_1035_label_name", "is_valid_label_value"}
  <2>1. /\ LowerBound(x) = 1 /\ UpperBound(x) = LabelMax /\ RegexOf(x) = x.kind
    BY <1>5, AttributeCases DEF RegexKinds
  <2>2. Bytes(text) <= LabelMax /\ MatchesRegex(RegexOf(x), text)
    BY <1>5, <2>1, HoldsIs, RegexCases
  <2>3. text # <<>>
    BY <1>5, HoldsIs DEF Rfc1035Label, Rfc1123Label, LABEL_VALUE_REGEX, Framed
  <2> QED BY <1>1, <2>1, <2>2, <2>3
<1>6. CASE x.kind = "is_rfc_1123_dns_subdomain_name"
  <2>1. /\ LowerBound(x) = 1 /\ UpperBound(x) = SubdomainMax /\ RegexOf(x) = x.kind
    BY <1>6, AttributeCases DEF RegexKinds
  <2>2. Bytes(text) <= SubdomainMax /\ MatchesRegex(RegexOf(x), text) /\ text # <<>>
    BY <1>6, <2>1, HoldsIs, RegexCases, DomainsAreAscii
  <2> QED BY <1>1, <2>1, <2>2
<1>7. x.kind \in {"min_length", "max_length", "regex"} \cup RegexKinds
  BY DEF Attributes, RegexKinds
<1> QED BY <1>2, <1>3, <1>4, <1>5, <1>6, <1>7 DEF RegexKinds

\* An attribute holds if the schema accepts the text with the attribute's expression.
LEMMA SchemaHolds ==
  ASSUME NEW type \in TypeNames, NEW text \in Seq(Characters), NEW x \in Attributes,
         MIN_LENGTH(type) <= Len(text), Len(text) <= MAX_LENGTH(type), MAX_LENGTH(type) <= UpperBound(x),
         MatchesRegex(RegexOf(x), text), x.kind = "max_length" => IsAscii(text)
  PROVE  Holds(x, type, text)
<1>1. /\ Bytes(text) \in Nat /\ Len(text) \in Nat /\ Len(text) <= Bytes(text)
      /\ IsAscii(text) => Bytes(text) = Len(text)
      /\ LabelMax \in Nat /\ SubdomainMax \in Nat /\ MIN_LENGTH(type) \in Nat /\ MAX_LENGTH(type) \in Nat
  BY BytesAreBounded, NameLimits, LengthsAre
<1>2. CASE x.kind \in {"min_length", "max_length"}
  <2>1. CASE x.kind = "min_length"
    <3>1. Bytes(text) >= MIN_LENGTH(type)
      BY <1>1
    <3> QED BY <2>1, <3>1, HoldsIs
  <2>2. CASE x.kind = "max_length"
    <3>1. Bytes(text) <= MAX_LENGTH(type)
      BY <1>1, <2>2
    <3> QED BY <2>2, <3>1, HoldsIs
  <2> QED BY <1>2, <2>1, <2>2
<1>3. CASE x.kind = "regex"
  <2>1. RegexOf(x) = x.value
    BY <1>3, AttributeCases DEF RegexKinds
  <2> QED BY <1>3, <2>1, HoldsIs
<1>4. CASE x.kind = "is_uid"
  <2>1. RegexOf(x) = "is_uid"
    BY <1>4, AttributeCases DEF RegexKinds
  <2> QED BY <1>4, <2>1, HoldsIs, RegexCases
<1>5. CASE x.kind \in {"is_rfc_1123_label_name", "is_rfc_1035_label_name", "is_valid_label_value",
                       "is_rfc_1123_dns_subdomain_name"}
  <2>1. RegexOf(x) = x.kind
    BY <1>5, AttributeCases DEF RegexKinds
  <2>2. IsAscii(text)
    <3>1. RegexOf(x) \in Regexes \ {"MatchAll", "Unknown", "env_var"}
      BY <1>5, <2>1 DEF Regexes
    <3> QED BY <3>1, RegexesAreAscii
  <2>3. Bytes(text) <= UpperBound(x)
    <3>1. UpperBound(x) \in Nat
      BY <1>1, <1>5, AttributeCases
    <3> QED BY <1>1, <2>2, <3>1
  <2>4. CASE x.kind = "is_rfc_1123_dns_subdomain_name"
    BY <2>1, <2>3, <2>4, HoldsIs, RegexCases, AttributeCases
  <2>5. CASE x.kind = "is_rfc_1123_label_name"
    <3>1. Bytes(text) <= LabelMax
      BY <2>3, <2>5, AttributeCases
    <3> QED BY <2>1, <2>5, <3>1, HoldsIs, RegexCases
  <2>6. CASE x.kind = "is_rfc_1035_label_name"
    <3>1. Bytes(text) <= LabelMax
      BY <2>3, <2>6, AttributeCases
    <3> QED BY <2>1, <2>6, <3>1, HoldsIs, RegexCases
  <2>7. CASE x.kind = "is_valid_label_value"
    <3>1. Bytes(text) <= LabelMax
      BY <2>3, <2>7, AttributeCases
    <3> QED BY <2>1, <2>2, <2>7, <3>1, HoldsIs, RegexCases
  <2> QED BY <1>5, <2>4, <2>5, <2>6, <2>7
<1>6. x.kind \in {"min_length", "max_length", "regex"} \cup RegexKinds
  BY DEF Attributes, RegexKinds
<1> QED BY <1>2, <1>3, <1>4, <1>5, <1>6 DEF RegexKinds

\* The constants IS_RFC_... of a type.
LEMMA PromisesAre ==
  ASSUME NEW type \in TypeNames
  PROVE  LET a == AttributesOf(type)
             has(kind) == \E i \in 1..Len(a) : a[i].kind = kind
         IN  /\ "1035" \in Promises(type) <=> has("is_rfc_1035_label_name")
             /\ "1123" \in Promises(type) <=> has("is_rfc_1035_label_name") \/ has("is_rfc_1123_label_name")
             /\ "subdomain" \in Promises(type)
                  <=> \/ has("is_rfc_1035_label_name") \/ has("is_rfc_1123_label_name")
                      \/ has("is_rfc_1123_dns_subdomain_name")
<1> DEFINE a == AttributesOf(type)
           kinds == {a[i].kind : i \in DOMAIN a}
<1>1. DOMAIN a = 1..Len(a)
  BY TypesHaveAttributes
<1>2. Promises(type)
        = (IF "is_rfc_1035_label_name" \in kinds THEN {"1035", "1123", "subdomain"} ELSE {})
          \cup (IF "is_rfc_1123_label_name" \in kinds THEN {"1123", "subdomain"} ELSE {})
          \cup (IF "is_rfc_1123_dns_subdomain_name" \in kinds THEN {"subdomain"} ELSE {})
  BY DEF Promises
<1>3. \A kind : kind \in kinds <=> \E i \in 1..Len(a) : a[i].kind = kind
  BY <1>1
<1> HIDE DEF kinds, a
<1>4. /\ "1035" \in Promises(type) <=> "is_rfc_1035_label_name" \in kinds
      /\ "1123" \in Promises(type)
           <=> "is_rfc_1035_label_name" \in kinds \/ "is_rfc_1123_label_name" \in kinds
      /\ "subdomain" \in Promises(type)
           <=> \/ "is_rfc_1035_label_name" \in kinds \/ "is_rfc_1123_label_name" \in kinds
               \/ "is_rfc_1123_dns_subdomain_name" \in kinds
  BY <1>2
<1> QED BY <1>3, <1>4 DEF a

\* Parsed names keep what their type promises.
LEMMA ParsedNamesKeep ==
  ASSUME NEW type \in TypeNames, NEW text \in ParseTexts
  PROVE  LET result == from_str(type, text)
         IN  /\ result.ok /\ type # "Uid" => SchemaAccepts(type, text)
             /\ SchemaAccepts(type, text) /\ REGEX(type) # "Unknown" => result.ok
             /\ result.ok =>
                  /\ "1035" \in Promises(type) => is_lowercase_rfc_1035_label(text)
                  /\ "1123" \in Promises(type) => is_lowercase_rfc_1123_label(text)
                  /\ "subdomain" \in Promises(type) => is_lowercase_rfc_1123_subdomain(text)
<1> DEFINE a == AttributesOf(type)
           ok == from_str(type, text).ok
<1>1. text \in Seq(Characters) /\ Len(text) <= NoLimit /\ Len(text) \in Nat
  BY NameInputs
<1>2. /\ a \in Seq(Attributes) /\ \A i \in 1..Len(a) : a[i] \in Attributes
      /\ \E i \in 1..Len(a) : RegexOf(a[i]) # "MatchAll"
      /\ type # "Uid" => \A i \in 1..Len(a) : a[i].kind # "is_uid"
      /\ \A i, j \in 1..Len(a) : RegexOf(a[i]) = "env_var" => a[j].kind # "max_length"
  BY TypesHaveAttributes
<1>3. ok <=> \A i \in 1..Len(a) : Holds(a[i], type, text)
  BY AcceptedWhenAllHold
<1>4. /\ MIN_LENGTH(type) \in Nat /\ MAX_LENGTH(type) \in Nat
      /\ \A i \in 1..Len(a) : LowerBound(a[i]) <= MIN_LENGTH(type) /\ MAX_LENGTH(type) <= UpperBound(a[i])
      /\ MIN_LENGTH(type) = 0 \/ \E i \in 1..Len(a) : MIN_LENGTH(type) = LowerBound(a[i])
      /\ MAX_LENGTH(type) = NoLimit \/ \E i \in 1..Len(a) : MAX_LENGTH(type) = UpperBound(a[i])
  BY LengthsAre
<1>5. OneRegex(a, 1, Len(a), REGEX(type))
  BY <1>2, CombinedIs DEF REGEX
<1>6. SchemaAccepts(type, text)
        <=> MIN_LENGTH(type) <= Len(text) /\ Len(text) <= MAX_LENGTH(type) /\ MatchesRegex(REGEX(type), text)
  BY <1>1, <1>4 DEF SchemaAccepts
<1> HIDE DEF a, ok
<1>7. ASSUME ok, type # "Uid" PROVE SchemaAccepts(type, text)
  <2>1. ASSUME NEW i \in 1..Len(a)
        PROVE  /\ LowerBound(a[i]) <= Len(text)
               /\ MAX_LENGTH(type) = UpperBound(a[i]) => Len(text) <= MAX_LENGTH(type)
               /\ MatchesRegex(RegexOf(a[i]), text)
    <3>1. PICK x \in Attributes : x = a[i]
      BY <1>2
    <3>2. x.kind # "is_uid" /\ Holds(x, type, text) /\ LowerBound(x) <= MIN_LENGTH(type)
      BY <1>2, <1>3, <1>4, <1>7, <3>1
    <3> QED BY <1>1, <3>1, <3>2, HeldIsInSchema
  <2>2. MIN_LENGTH(type) <= Len(text)
    BY <1>1, <1>4, <2>1
  <2>3. Len(text) <= MAX_LENGTH(type)
    BY <1>1, <1>4, <2>1
  <2>4. MatchesRegex(REGEX(type), text)
    BY <1>5, <2>1, RegexCases DEF OneRegex
  <2> QED BY <1>6, <2>2, <2>3, <2>4
<1>8. ASSUME SchemaAccepts(type, text), REGEX(type) # "Unknown" PROVE ok
  <2>1. PICK i \in 1..Len(a) : /\ REGEX(type) = RegexOf(a[i]) /\ REGEX(type) # "MatchAll"
                               /\ \A j \in 1..Len(a) : j # i => RegexOf(a[j]) = "MatchAll"
    BY <1>2, <1>5, <1>8 DEF OneRegex
  <2>2. \A j \in 1..Len(a) : a[j].kind = "max_length" => REGEX(type) # "env_var"
    BY <1>2, <2>1
  <2>3. REGEX(type) \in Regexes
    BY <1>2, <2>1, RegexesAre
  <2>4. REGEX(type) # "env_var" => IsAscii(text)
    BY <1>1, <1>6, <1>8, <2>1, <2>3, RegexesAreAscii
  <2>5. ASSUME NEW j \in 1..Len(a) PROVE Holds(a[j], type, text)
    <3>1. PICK x \in Attributes : x = a[j]
      BY <1>2
    <3>2. MatchesRegex(RegexOf(x), text)
      BY <1>6, <1>8, <2>1, <3>1, RegexCases
    <3>3. x.kind = "max_length" => IsAscii(text)
      BY <2>2, <2>4, <3>1
    <3>4. MAX_LENGTH(type) <= UpperBound(x)
      BY <1>4, <3>1
    <3> QED BY <1>1, <1>6, <1>8, <3>1, <3>2, <3>3, <3>4, SchemaHolds
  <2> QED BY <1>3, <2>5
<1>9. ASSUME ok
      PROVE  /\ "1035" \in Promises(type) => is_lowercase_rfc_1035_label(text)
             /\ "1123" \in Promises(type) => is_lowercase_rfc_1123_label(text)
             /\ "subdomain" \in Promises(type) => is_lowercase_rfc_1123_subdomain(text)
  <2>1. ASSUME NEW i \in 1..Len(a)
        PROVE  /\ a[i].kind = "is_rfc_1035_label_name" => Bytes(text) <= LabelMax /\ Rfc1035Label(text)
               /\ a[i].kind = "is_rfc_1123_label_name" => Bytes(text) <= LabelMax /\ Rfc1123Label(text)
               /\ a[i].kind = "is_rfc_1123_dns_subdomain_name" =>
                    Bytes(text) <= SubdomainMax /\ Rfc1123Subdomain(text)
    <3>1. PICK x \in Attributes : x = a[i]
      BY <1>2
    <3>2. Holds(x, type, text)
      BY <1>3, <1>9, <3>1
    <3> QED BY <1>1, <3>1, <3>2, HoldsIs
  <2>2. Rfc1035Label(text) => Rfc1123Label(text)
    BY <1>1, LabelIs
  <2>3. Bytes(text) <= LabelMax => Bytes(text) <= SubdomainMax
    BY <1>1, BytesAreBounded, NameLimits
  <2>4. Rfc1123Label(text) => Rfc1123Subdomain(text)
    BY <1>1, LabelsAreUsable
  <2>5. /\ "1035" \in Promises(type) <=> \E i \in 1..Len(a) : a[i].kind = "is_rfc_1035_label_name"
        /\ "1123" \in Promises(type) <=> \/ \E i \in 1..Len(a) : a[i].kind = "is_rfc_1035_label_name"
                                         \/ \E i \in 1..Len(a) : a[i].kind = "is_rfc_1123_label_name"
        /\ "subdomain" \in Promises(type)
             <=> \/ \E i \in 1..Len(a) : a[i].kind = "is_rfc_1035_label_name"
                 \/ \E i \in 1..Len(a) : a[i].kind = "is_rfc_1123_label_name"
                 \/ \E i \in 1..Len(a) : a[i].kind = "is_rfc_1123_dns_subdomain_name"
    BY PromisesAre DEF a
  <2>6. "1035" \in Promises(type) => Bytes(text) <= LabelMax /\ Rfc1035Label(text)
    BY <2>1, <2>5
  <2>7. "1123" \in Promises(type) => Bytes(text) <= LabelMax /\ Rfc1123Label(text)
    BY <2>1, <2>2, <2>5
  <2>8. "subdomain" \in Promises(type) => Bytes(text) <= SubdomainMax /\ Rfc1123Subdomain(text)
    BY <2>1, <2>2, <2>3, <2>4, <2>5
  <2> QED BY <1>1, <2>6, <2>7, <2>8, ValidatorsAre
<1> QED BY <1>7, <1>8, <1>9 DEF ok

(***************************************************************************)
(* Images                                                                  *)
(***************************************************************************)
\* What the characters of a version become in a label.
Formatted(cut) == [i \in DOMAIN cut |-> IF cut[i] = ":" THEN "-" ELSE cut[i]]

\* It is as long as the version.
LEMMA FormattedIs ==
  ASSUME NEW cut \in Seq(Characters)
  PROVE  /\ Formatted(cut) \in Seq(Characters) /\ Len(Formatted(cut)) = Len(cut)
         /\ \A i \in 1..Len(cut) : Formatted(cut)[i] = IF cut[i] = ":" THEN "-" ELSE cut[i]
         /\ IsAscii(cut) => IsAscii(Formatted(cut))
<1>1. DOMAIN cut = 1..Len(cut) /\ Len(cut) \in Nat
  OBVIOUS
<1>2. \A i \in 1..Len(cut) : (IF cut[i] = ":" THEN "-" ELSE cut[i]) \in Characters
  <2>1. \A i \in 1..Len(cut) : cut[i] \in Characters
    OBVIOUS
  <2>2. "-" \in Characters
    BY DEF Characters
  <2> QED BY <2>1, <2>2
<1> DEFINE f == [i \in 1..Len(cut) |-> IF cut[i] = ":" THEN "-" ELSE cut[i]]
<1>3. f \in [1..Len(cut) -> Characters]
  BY <1>2
<1>4. f \in Seq(Characters) /\ Len(f) = Len(cut)
  BY <1>1, <1>3, IsASeq
<1>5. Formatted(cut) = f
  BY <1>1 DEF Formatted
<1>6. \A i \in 1..Len(cut) : f[i] = IF cut[i] = ":" THEN "-" ELSE cut[i]
  OBVIOUS
<1> HIDE DEF f
<1>7. IsAscii(cut) => IsAscii(f)
  <2>1. (\A i \in 1..Len(cut) : cut[i] # "e") => \A i \in 1..Len(f) : f[i] # "e"
    BY <1>4, <1>6
  <2> QED BY <1>4, <2>1, AsciiIs
<1> QED BY <1>4, <1>5, <1>6, <1>7

\* The label of a version.
LEMMA VersionLabelIs ==
  ASSUME NEW version \in Seq(Characters)
  PROVE  LET cut == truncate_at_char_boundary(version, LabelMax)
         IN  /\ cut \in Seq(Characters)
             /\ Bytes(version) > LabelMax /\ Bytes(cut) < LabelMax =>
                  prepare_app_version_label_value(version) = Err("Panic")
             /\ ~(Bytes(version) > LabelMax /\ Bytes(cut) < LabelMax) =>
                  prepare_app_version_label_value(version) = LabelValue(Formatted(cut))
<1> DEFINE cut == truncate_at_char_boundary(version, LabelMax)
<1>1. /\ Len(cut) \in 0..Len(version) /\ cut = SubSeq(version, 1, Len(cut))
  BY NameLimits, TruncateIs
<1>2. cut \in Seq(Characters)
  <2>1. PICK n \in 0..Len(version) : cut = SubSeq(version, 1, n)
    BY <1>1
  <2> QED BY <2>1, BytesOfStart
<1>3. prepare_app_version_label_value(version)
        = IF Bytes(version) > LabelMax /\ Bytes(cut) < LabelMax THEN Err("Panic")
          ELSE LabelValue(Formatted(cut))
  BY DEF prepare_app_version_label_value, Formatted
<1> QED BY <1>2, <1>3

\* The errors of label values.
LEMMA LabelErrors ==
  ASSUME NEW text \in Seq(Characters)
  PROVE  /\ LabelValue(text).ok \/ LabelValue(text).error # "Panic"
         /\ ~LabelValue(text).ok /\ IsAscii(text) /\ Len(text) <= LabelMax => ~LABEL_VALUE_REGEX(text)
<1>1. (Bytes(text) > LabelMax) \/ (Bytes(text) <= LabelMax)
  BY BytesAreBounded, NameLimits
<1>2. ~(Bytes(text) > LabelMax /\ Bytes(text) <= LabelMax)
  BY BytesAreBounded, NameLimits
<1>3. LabelValue(text) \in {Err("ValueTooLong"), Err("ValueNotAscii"), Err("ValueInvalid"), Ok(text)}
  BY <1>1 DEF LabelValue
<1>4. LabelValue(text).ok \/ LabelValue(text).error # "Panic"
  BY <1>3 DEF Ok, Err
<1>5. IsAscii(text) /\ Len(text) <= LabelMax /\ LABEL_VALUE_REGEX(text) => LabelValue(text).ok
  <2> SUFFICES ASSUME IsAscii(text), Len(text) <= LabelMax, LABEL_VALUE_REGEX(text)
               PROVE  LabelValue(text).ok
    OBVIOUS
  <2>1. Bytes(text) <= LabelMax
    BY BytesAreBounded
  <2>2. LabelValue(text) = Ok(text)
    BY <1>2, <2>1 DEF LabelValue
  <2> QED BY <2>2 DEF Ok
<1> QED BY <1>4, <1>5

\* The texts of versions are texts.
LEMMA VersionsAreTexts ==
  ASSUME NEW version \in VersionTexts
  PROVE  /\ version \in Seq(Characters)
         /\ \A i \in 1..Len(version) : version[i] \in AlNum \cup {"-", "_", ".", ":", "e"}
<1>1. AlNum \cup {"-", "_", ".", ":", "e"} \subseteq Characters
  BY DEF AlNum, Characters
<1> DEFINE chars == AlNum \cup {"-", "_", ".", ":", "e"}
<1>2. version \in Seq(chars)
  BY DEF VersionTexts
<1> HIDE DEF chars
<1>3. Len(version) \in Nat /\ version \in [1..Len(version) -> chars]
  BY <1>2
<1>4. version \in [1..Len(version) -> Characters]
  BY <1>1, <1>3 DEF chars
<1>5. version \in Seq(Characters)
  BY <1>3, <1>4, IsASeq
<1>6. \A i \in 1..Len(version) : version[i] \in chars
  BY <1>3
<1> QED BY <1>5, <1>6 DEF chars

\* The start of a version in ASCII that fits into a label.
LEMMA AsciiVersionIs ==
  ASSUME NEW version \in Seq(Characters), IsAscii(version), version # <<>>
  PROVE  LET cut == truncate_at_char_boundary(version, LabelMax)
         IN  /\ cut \in Seq(Characters) /\ Len(cut) \in 1..LabelMax
             /\ Len(cut) = IF Len(version) > LabelMax THEN LabelMax ELSE Len(version)
             /\ \A i \in 1..Len(cut) : i \in 1..Len(version) /\ cut[i] = version[i]
             /\ IsAscii(cut)
             /\ ~(Bytes(version) > LabelMax /\ Bytes(cut) < LabelMax)
<1> DEFINE cut == truncate_at_char_boundary(version, LabelMax)
<1>1. /\ Len(cut) \in 0..Len(version) /\ cut = SubSeq(version, 1, Len(cut))
      /\ Len(cut) = IF Len(version) <= LabelMax THEN Len(version) ELSE LabelMax
  BY NameLimits, TruncateIs
<1>2. LabelMax \in Nat /\ LabelMax > 0
  BY NameLengths, NameLimits
<1>3. Len(version) \in Nat /\ Len(version) > 0
  BY PlacesAre
<1> HIDE DEF cut
<1>4. /\ cut \in Seq(Characters) /\ IsAscii(cut)
      /\ \A i \in 1..Len(cut) : cut[i] = version[i]
  <2>1. PICK n \in 0..Len(version) : n = Len(cut) /\ cut = SubSeq(version, 1, n)
    BY <1>1
  <2> QED BY <2>1, BytesOfStart
<1>5. Bytes(cut) = Len(cut) /\ Bytes(version) = Len(version)
  BY <1>4, BytesAreBounded
<1>6. /\ Len(cut) \in 1..LabelMax
      /\ Len(cut) = IF Len(version) > LabelMax THEN LabelMax ELSE Len(version)
      /\ ~(Len(version) > LabelMax /\ Len(cut) < LabelMax)
      /\ \A i \in 1..Len(cut) : i \in 1..Len(version)
  BY <1>1, <1>2, <1>3
<1> QED BY <1>4, <1>5, <1>6 DEF cut

\* The numbers between the first and the last.
LEMMA MiddleNumbers ==
  \A n \in Nat : \A i \in 2..(n - 1) : i \in 1..n
OBVIOUS

\* A text of the characters of labels between letters or digits is a label value.
LEMMA FramedLabel ==
  ASSUME NEW text \in Seq(Characters), text # <<>>, text[1] \in AlNum, text[Len(text)] \in AlNum,
         \A i \in 1..Len(text) : text[i] \in AlNum \cup {"-", "_", "."}
  PROVE  LABEL_VALUE_REGEX(text)
<1>1. Len(text) \in Nat
  BY PlacesAre, Zenon
<1>2. Last(text) = text[Len(text)]
  BY Zenon DEF Last
<1>3. \A i \in 2..(Len(text) - 1) : i \in 1..Len(text)
  BY <1>1, MiddleNumbers, Zenon
<1>4. \A i \in 2..(Len(text) - 1) : text[i] \in AlNum \cup {"-", "_", "."}
  BY <1>3, Zenon
<1> QED BY <1>2, <1>4, Zenon DEF LABEL_VALUE_REGEX, Framed

\* A label is what the version becomes; one that is a label stays as it is, and one
\* in ASCII is refused only if what is left of it ends like no label.
LEMMA LabelOfVersion ==
  ASSUME NEW version \in VersionTexts, version # <<>>
  PROVE  LET label == prepare_app_version_label_value(version)
         IN  /\ IsAscii(version) => label.ok \/ label.error # "Panic"
             /\ LabelValue(version).ok => label = Ok(version)
             /\ IsAscii(version) /\ ~label.ok =>
                  \/ version[1] \notin AlNum
                  \/ version[IF Len(version) > LabelMax THEN LabelMax ELSE Len(version)] \notin AlNum
             /\ label.ok => LabelValue(label.value).ok
<1> DEFINE cut == truncate_at_char_boundary(version, LabelMax)
           label == prepare_app_version_label_value(version)
           end == IF Len(version) > LabelMax THEN LabelMax ELSE Len(version)
<1>1. /\ version \in Seq(Characters)
      /\ \A i \in 1..Len(version) : version[i] \in AlNum \cup {"-", "_", ".", ":", "e"}
  BY VersionsAreTexts
<1>2. /\ cut \in Seq(Characters)
      /\ Bytes(version) > LabelMax /\ Bytes(cut) < LabelMax => label = Err("Panic")
      /\ ~(Bytes(version) > LabelMax /\ Bytes(cut) < LabelMax) => label = LabelValue(Formatted(cut))
  BY <1>1, VersionLabelIs
<1>3. Bytes(version) <= LabelMax => cut = version
  BY <1>1, NameLimits, TruncateIs
<1>4. Bytes(version) \in Nat /\ LabelMax \in Nat
  BY <1>1, BytesAreBounded, NameLimits
<1>5. IsAscii(version) =>
        /\ Len(cut) \in 1..LabelMax /\ Len(cut) = end
        /\ \A i \in 1..Len(cut) : i \in 1..Len(version) /\ cut[i] = version[i]
        /\ IsAscii(cut) /\ label = LabelValue(Formatted(cut))
  BY <1>1, <1>2, AsciiVersionIs
<1>6. PICK f \in Seq(Characters) :
        /\ f = Formatted(cut) /\ Len(f) = Len(cut)
        /\ \A i \in 1..Len(cut) : f[i] = IF cut[i] = ":" THEN "-" ELSE cut[i]
        /\ IsAscii(cut) => IsAscii(f)
  BY <1>2, FormattedIs
<1> HIDE DEF cut, label
<1>7. IsAscii(version) => label.ok \/ label.error # "Panic"
  BY <1>5, <1>6, LabelErrors
<1>8. ASSUME LabelValue(version).ok PROVE label = Ok(version)
  <2>1. /\ LabelValue(version) = Ok(version) /\ ~(Bytes(version) > LabelMax) /\ IsAscii(version)
        /\ LABEL_VALUE_REGEX(version)
    BY <1>1, <1>8, LabelValueIs
  <2>2. cut = version
    BY <1>3, <1>4, <2>1
  <2>3. \A i \in 1..Len(version) : version[i] \in AlNum \cup {"-", "_", "."}
    <3>1. \A i \in 1..Len(version) : version[i] \in AlNum \cup (AlNum \cup {"-", "_", "."}) \cup AlNum
      BY <1>1, <2>1, FramedIs DEF LABEL_VALUE_REGEX
    <3> QED BY <3>1
  <2>4. \A i \in 1..Len(version) : version[i] # ":"
    BY <2>3 DEF AlNum
  <2>5. f = version
    <3>1. Len(f) = Len(version) /\ \A i \in 1..Len(f) : f[i] = version[i]
      BY <1>6, <2>2, <2>4
    <3> QED BY <1>1, <3>1, SameTexts
  <2> QED BY <1>5, <1>6, <2>1, <2>5
<1>9. ASSUME IsAscii(version), ~label.ok, version[1] \in AlNum, version[end] \in AlNum
      PROVE  FALSE
  <2>1. \A i \in 1..Len(version) : version[i] # "e"
    BY <1>1, <1>9, AsciiIs
  <2>2. \A i \in 1..Len(f) : /\ i \in 1..Len(version)
                             /\ f[i] = IF version[i] = ":" THEN "-" ELSE version[i]
    BY <1>5, <1>6, <1>9
  <2>3. \A i \in 1..Len(f) : f[i] \in AlNum \cup {"-", "_", "."}
    BY <1>1, <2>1, <2>2
  <2>4. Len(f) = end /\ Len(f) \in 1..LabelMax
    BY <1>5, <1>6, <1>9
  <2> HIDE DEF end
  <2>5. 1 \in 1..Len(f) /\ Len(f) \in 1..Len(f) /\ Len(f) <= LabelMax /\ f # <<>>
    BY <1>4, <2>4
  <2>6. f[1] \in AlNum /\ f[Len(f)] \in AlNum
    <3>1. \A c \in AlNum : c # ":"
      BY DEF AlNum
    <3> QED BY <1>9, <2>2, <2>4, <2>5, <3>1
  <2>7. LABEL_VALUE_REGEX(f)
    BY <2>3, <2>5, <2>6, FramedLabel
  <2> QED BY <1>5, <1>6, <1>9, <2>5, <2>7, LabelErrors
<1>10. label.ok => LabelValue(label.value).ok
  <2>1. ~Err("Panic").ok
    BY DEF Err
  <2>2. label.ok => label = LabelValue(f)
    BY <1>2, <1>6, <2>1
  <2>3. LabelValue(f).ok => LabelValue(f) = Ok(f) /\ Ok(f).value = f
    BY LabelValueIs DEF Ok
  <2> QED BY <2>2, <2>3
<1> QED BY <1>7, <1>8, <1>9, <1>10 DEF label, end

\* The ends of texts that are trimmed.
LEMMA TrimEndIs ==
  ASSUME NEW text \in Seq(Characters), NEW c
  PROVE  LET t == TrimEnd(text, c)
         IN  t \in Seq(Characters) /\ (Len(t) > 0 => t[Len(t)] # c)
<1> DEFINE ends(n) == (n > 0 => text[n] # c) /\ \A i \in (n + 1)..Len(text) : text[i] = c
           n == CHOOSE n \in 0..Len(text) : ends(n)
           T == {k \in 0..Len(text) : \A i \in (k + 1)..Len(text) : text[i] = c}
<1>1. Len(text) \in Nat
  OBVIOUS
<1>2. \E k \in 0..Len(text) : ends(k)
  <2>1. T \subseteq Nat
    OBVIOUS
  <2>2. Len(text) \in T
    BY <1>1
  <2> HIDE DEF T
  <2>3. PICK k \in T : \A j \in T : k <= j
    BY <2>1, <2>2, LeastNumber
  <2>4. k \in 0..Len(text) /\ \A i \in (k + 1)..Len(text) : text[i] = c
    BY <2>3 DEF T
  <2>5. ASSUME k > 0, text[k] = c PROVE FALSE
    <3>1. k - 1 \in 0..Len(text) /\ \A i \in ((k - 1) + 1)..Len(text) : i = k \/ i \in (k + 1)..Len(text)
      BY <1>1, <2>4, <2>5
    <3>2. \A i \in ((k - 1) + 1)..Len(text) : text[i] = c
      BY <2>4, <2>5, <3>1
    <3>3. k - 1 \in T
      BY <3>1, <3>2 DEF T
    <3>4. k <= k - 1
      BY <2>3, <3>3
    <3> QED BY <1>1, <2>4, <3>4
  <2> QED BY <2>4, <2>5
<1>3. n \in 0..Len(text) /\ ends(n)
  BY <1>2
<1>4. TrimEnd(text, c) = SubSeq(text, 1, n)
  BY DEF TrimEnd
<1> HIDE DEF n
<1>5. PICK t : t = TrimEnd(text, c)
  OBVIOUS
<1>6. t \in Seq(Characters) /\ Len(t) = n /\ \A i \in 1..n : t[i] = text[i]
  BY <1>3, <1>4, <1>5, BytesOfStart
<1>7. Len(t) > 0 => t[Len(t)] # c
  BY <1>1, <1>3, <1>6
<1> QED BY <1>5, <1>6, <1>7

\* A text from its end to its start.
LEMMA ReverseIs ==
  ASSUME NEW text \in Seq(Characters)
  PROVE  /\ Reverse(text) \in Seq(Characters) /\ Len(Reverse(text)) = Len(text)
         /\ \A i \in 1..Len(text) : Reverse(text)[i] = text[(Len(text) - i) + 1]
<1> DEFINE f == [i \in 1..Len(text) |-> text[(Len(text) - i) + 1]]
<1>1. Len(text) \in Nat /\ \A i \in 1..Len(text) : (Len(text) - i) + 1 \in 1..Len(text)
  OBVIOUS
<1>2. f \in [1..Len(text) -> Characters]
  BY <1>1
<1>3. f \in Seq(Characters) /\ Len(f) = Len(text)
  BY <1>1, <1>2, IsASeq
<1>4. Reverse(text) = f
  BY DEF Reverse
<1> QED BY <1>3, <1>4

\* The starts of texts that are trimmed.
LEMMA TrimStartIs ==
  ASSUME NEW text \in Seq(Characters), NEW c
  PROVE  LET t == TrimStart(text, c)
         IN  t \in Seq(Characters) /\ (Len(t) > 0 => t[1] # c)
<1>1. PICK r \in Seq(Characters) : r = Reverse(text)
  BY ReverseIs
<1>2. PICK e \in Seq(Characters) : e = TrimEnd(r, c) /\ (Len(e) > 0 => e[Len(e)] # c)
  BY TrimEndIs
<1>3. PICK t : t = TrimStart(text, c) /\ t = Reverse(e)
  BY <1>1, <1>2 DEF TrimStart
<1>4. t \in Seq(Characters) /\ Len(t) = Len(e) /\ \A i \in 1..Len(e) : t[i] = e[(Len(e) - i) + 1]
  BY <1>3, ReverseIs
<1>5. Len(e) \in Nat /\ (Len(e) > 0 => 1 \in 1..Len(e) /\ (Len(e) - 1) + 1 = Len(e))
  OBVIOUS
<1>6. Len(t) > 0 => t[1] # c
  BY <1>2, <1>4, <1>5
<1> QED BY <1>3, <1>4, <1>6

\* Texts that follow each other have no double slash where they meet.
LEMMA OneSlash ==
  ASSUME NEW s \in Seq(Characters), NEW t \in Seq(Characters), NoDoubleSlash(s), NoDoubleSlash(t),
         Len(s) > 0 /\ Len(t) > 0 => s[Len(s)] # "/" \/ t[1] # "/"
  PROVE  NoDoubleSlash(s \o t)
<1>1. PICK u \in Seq(Characters) :
        /\ u = s \o t /\ Len(u) = Len(s) + Len(t)
        /\ \A i \in 1..Len(s) : u[i] = s[i]
        /\ \A i \in (Len(s) + 1)..(Len(s) + Len(t)) : u[i] = t[i - Len(s)]
  <2>1. PICK u : u = s \o t
    OBVIOUS
  <2>2. /\ u \in Seq(Characters) /\ Len(u) = Len(s) + Len(t)
        /\ \A i \in 1..Len(s) : u[i] = s[i]
        /\ \A i \in (Len(s) + 1)..(Len(s) + Len(t)) : u[i] = t[i - Len(s)]
    BY <2>1, TextAfterText, Zenon
  <2> QED BY <2>1, <2>2
<1>2. Len(s) \in Nat /\ Len(t) \in Nat
  OBVIOUS
<1>3. /\ \A i \in 1..(Len(s) - 1) : s[i] = "/" => s[i + 1] # "/"
      /\ \A i \in 1..(Len(t) - 1) : t[i] = "/" => t[i + 1] # "/"
  BY DEF NoDoubleSlash
<1>4. ASSUME NEW i \in 1..(Len(u) - 1), u[i] = "/" PROVE u[i + 1] # "/"
  <2>1. CASE i + 1 <= Len(s)
    <3>1. i \in 1..(Len(s) - 1) /\ i \in 1..Len(s) /\ i + 1 \in 1..Len(s)
      BY <1>2, <2>1
    <3> QED BY <1>1, <1>3, <1>4, <3>1
  <2>2. CASE i = Len(s)
    <3>1. /\ i \in 1..Len(s) /\ i + 1 \in (Len(s) + 1)..(Len(s) + Len(t)) /\ (i + 1) - Len(s) = 1
          /\ Len(s) > 0 /\ Len(t) > 0
      BY <1>1, <1>2, <2>2
    <3>2. u[i] = s[Len(s)] /\ u[i + 1] = t[1]
      BY <1>1, <2>2, <3>1
    <3> QED BY <1>4, <3>1, <3>2
  <2>3. CASE i > Len(s)
    <3>1. /\ i \in (Len(s) + 1)..(Len(s) + Len(t)) /\ i + 1 \in (Len(s) + 1)..(Len(s) + Len(t))
          /\ i - Len(s) \in 1..(Len(t) - 1) /\ (i + 1) - Len(s) = (i - Len(s)) + 1
      BY <1>1, <1>2, <2>3
    <3>2. u[i] = t[i - Len(s)] /\ u[i + 1] = t[(i - Len(s)) + 1]
      BY <1>1, <3>1
    <3> QED BY <1>3, <1>4, <3>1, <3>2
  <2> QED BY <1>1, <1>2, <2>1, <2>2, <2>3
<1> QED BY <1>1, <1>4 DEF NoDoubleSlash

\* A text ends with the text it was made with.
LEMMA EndIsSuffix ==
  ASSUME NEW s \in Seq(Characters), NEW t \in Seq(Characters)
  PROVE  IsSuffix(t, s \o t)
<1>1. PICK u \in Seq(Characters) :
        /\ u = s \o t /\ Len(u) = Len(s) + Len(t)
        /\ \A i \in (Len(s) + 1)..(Len(s) + Len(t)) : u[i] = t[i - Len(s)]
  <2>1. PICK u : u = s \o t
    OBVIOUS
  <2>2. /\ u \in Seq(Characters) /\ Len(u) = Len(s) + Len(t)
        /\ \A i \in 1..Len(s) : u[i] = s[i]
        /\ \A i \in (Len(s) + 1)..(Len(s) + Len(t)) : u[i] = t[i - Len(s)]
    BY <2>1, TextAfterText, Zenon
  <2> QED BY <2>1, <2>2
<1>2. PICK r \in Seq(Characters) :
        r = Reverse(t) /\ Len(r) = Len(t) /\ \A i \in 1..Len(t) : r[i] = t[(Len(t) - i) + 1]
  BY ReverseIs
<1>3. PICK q \in Seq(Characters) :
        q = Reverse(u) /\ Len(q) = Len(u) /\ \A i \in 1..Len(u) : q[i] = u[(Len(u) - i) + 1]
  BY ReverseIs
<1>4. Len(s) \in Nat /\ Len(t) \in Nat /\ Len(r) \in 0..Len(q) /\ Len(r) \in 0..Len(r)
  BY <1>1, <1>2, <1>3
<1>5. ASSUME NEW i \in 1..Len(t) PROVE r[i] = q[i]
  <2>1. /\ i \in 1..Len(u) /\ (Len(u) - i) + 1 \in (Len(s) + 1)..(Len(s) + Len(t))
        /\ ((Len(u) - i) + 1) - Len(s) = (Len(t) - i) + 1
    BY <1>1, <1>4
  <2> QED BY <1>1, <1>2, <1>3, <2>1
<1>6. SubSeq(r, 1, Len(r)) = SubSeq(q, 1, Len(r))
  <2>1. PICK x \in Seq(Characters) : x = SubSeq(r, 1, Len(r)) /\ Len(x) = Len(r)
                                     /\ \A i \in 1..Len(r) : x[i] = r[i]
    BY <1>4, BytesOfStart
  <2>2. PICK y \in Seq(Characters) : y = SubSeq(q, 1, Len(r)) /\ Len(y) = Len(r)
                                     /\ \A i \in 1..Len(r) : y[i] = q[i]
    BY <1>4, BytesOfStart
  <2>3. x = y
    BY <1>2, <1>5, <2>1, <2>2, SameTexts
  <2> QED BY <2>1, <2>2, <2>3
<1>7. Len(r) <= Len(q)
  BY <1>4
<1> QED BY <1>1, <1>2, <1>3, <1>6, <1>7 DEF IsSuffix, IsPrefix

\* Versions that are put together.
LEMMA VersionsJoin ==
  ASSUME NEW s \in VersionTexts, NEW t \in VersionTexts, NEW u \in VersionTexts, Len(t) > 0
  PROVE  s \o t \o u \in VersionTexts /\ s \o t \o u # <<>>
<1> DEFINE chars == AlNum \cup {"-", "_", ".", ":", "e"}
<1>1. VersionTexts = Seq(chars)
  BY DEF VersionTexts
<1> HIDE DEF chars
<1>2. s \in Seq(chars) /\ t \in Seq(chars) /\ u \in Seq(chars)
  BY <1>1
<1>3. Len(s) \in Nat /\ Len(t) \in Nat /\ Len(u) \in Nat
  BY <1>2
<1>4. s \o t \in Seq(chars) /\ Len(s \o t) = Len(s) + Len(t)
  BY <1>2, TextAfterText
<1>5. (s \o t) \o u \in Seq(chars) /\ Len((s \o t) \o u) = Len(s \o t) + Len(u)
  BY <1>2, <1>4, TextAfterText
<1>6. Len((s \o t) \o u) # 0
  BY <1>3, <1>4, <1>5
<1>7. Len(<<>>) = 0
  OBVIOUS
<1> QED BY <1>1, <1>5, <1>6, <1>7

\* The words the code puts into versions.
LEMMA VersionWords ==
  /\ <<"-">> \in VersionTexts /\ Len(<<"-">>) > 0
  /\ STACKABLE \in VersionTexts /\ Len(STACKABLE) > 0
  /\ LATEST \in VersionTexts /\ DEV \in VersionTexts
<1> DEFINE chars == AlNum \cup {"-", "_", ".", ":", "e"}
<1>1. VersionTexts = Seq(chars)
  BY DEF VersionTexts
<1>2. "-" \in chars /\ "a" \in chars /\ "1" \in chars /\ "." \in chars
  BY DEF AlNum
<1> HIDE DEF chars
<1>3. <<"-">> \in Seq(chars) /\ Len(<<"-">>) > 0
  BY <1>2
<1>4. STACKABLE \in Seq(chars) /\ Len(STACKABLE) > 0
  BY <1>2 DEF STACKABLE
<1>5. LATEST \in Seq(chars)
  BY <1>2 DEF LATEST
<1>6. DEV \in Seq(chars)
  BY <1>2 DEF DEV
<1> QED BY <1>1, <1>3, <1>4, <1>5, <1>6

\* The version of an image.
LEMMA AppVersionIs ==
  ASSUME NEW image \in Images, NEW operator \in Operators
  PROVE  app_version(image, operator) \in VersionTexts /\ app_version(image, operator) # <<>>
<1> DEFINE custom == CASE image.custom.tag # None -> image.custom.tag
                       [] image.custom.tag = None /\ image.custom.hash # None -> image.custom.hash
                       [] OTHER -> LATEST
           own == CASE image.stackable_version # None -> image.stackable_version
                    [] image.stackable_version = None /\ operator.pull_request -> DEV
                    [] OTHER -> operator.version
<1>1. /\ image.product_version \in VersionTexts
      /\ image.stackable_version # None => image.stackable_version \in VersionTexts
      /\ image.custom # None =>
           /\ image.custom.tag # None => image.custom.tag \in VersionTexts
           /\ image.custom.hash # None => image.custom.hash \in VersionTexts
  BY ImageInputs
<1>2. operator.version \in VersionTexts
  BY ImageInputs
<1>3. image.custom # None => custom \in VersionTexts
  BY <1>1, VersionWords
<1>4. own \in VersionTexts
  BY <1>1, <1>2, VersionWords
<1>5. app_version(image, operator)
        = IF image.custom # None THEN image.product_version \o <<"-">> \o custom
          ELSE image.product_version \o STACKABLE \o own
  BY DEF app_version
<1> HIDE DEF custom, own
<1>6. PICK p, c, o : p = image.product_version /\ c = custom /\ o = own
  OBVIOUS
<1>7. image.custom # None => p \o <<"-">> \o c \in VersionTexts /\ p \o <<"-">> \o c # <<>>
  BY <1>1, <1>3, <1>6, VersionsJoin, VersionWords
<1>8. p \o STACKABLE \o o \in VersionTexts /\ p \o STACKABLE \o o # <<>>
  BY <1>1, <1>4, <1>6, VersionsJoin, VersionWords
<1> QED BY <1>5, <1>6, <1>7, <1>8

\* One slash is between a repository and a name, and the version comes last.
LEMMA ReferenceIs ==
  ASSUME NEW repo \in Seq(Characters), NEW name \in Seq(Characters), NEW version \in VersionTexts,
         NoDoubleSlash(TrimEnd(trim(repo), "/")), NoDoubleSlash(TrimStart(trim(name), "/"))
  PROVE  LET reference == TrimEnd(trim(repo), "/") \o <<"/">> \o TrimStart(trim(name), "/") \o <<":">> \o version
         IN  reference \in Seq(Characters) /\ IsSuffix(version, reference) /\ NoDoubleSlash(reference)
<1>1. trim(repo) \in Seq(Characters) /\ trim(name) \in Seq(Characters)
  BY TrimmedIs
<1>2. PICK r \in Seq(Characters) : r = TrimEnd(trim(repo), "/") /\ (Len(r) > 0 => r[Len(r)] # "/")
  BY <1>1, TrimEndIs
<1>3. PICK n \in Seq(Characters) : n = TrimStart(trim(name), "/") /\ (Len(n) > 0 => n[1] # "/")
  BY <1>1, TrimStartIs
<1>4. PICK slash \in Seq(Characters) : slash = <<"/">> /\ Len(slash) = 1 /\ slash[1] = "/"
  <2>1. "/" \in Characters
    BY DEF Characters
  <2> QED BY <2>1, OneCharacter
<1>5. PICK colon \in Seq(Characters) : colon = <<":">> /\ Len(colon) = 1 /\ colon[1] = ":"
  <2>1. ":" \in Characters
    BY DEF Characters
  <2> QED BY <2>1, OneCharacter
<1>6. version \in Seq(Characters) /\ \A i \in 1..Len(version) : version[i] # "/"
  BY VersionsAreTexts DEF AlNum
<1>7. NoDoubleSlash(slash) /\ NoDoubleSlash(colon) /\ NoDoubleSlash(version)
  <2>1. \A i \in 1..(1 - 1) : FALSE
    OBVIOUS
  <2>2. Len(version) \in Nat /\ \A i \in 1..(Len(version) - 1) : i \in 1..Len(version)
    BY <1>6
  <2> QED BY <1>4, <1>5, <1>6, <2>1, <2>2 DEF NoDoubleSlash
<1>8. NoDoubleSlash(r) /\ NoDoubleSlash(n)
  BY <1>2, <1>3
<1>9. PICK u \in Seq(Characters) : u = r \o slash /\ NoDoubleSlash(u)
  <2>1. Len(r) > 0 /\ Len(slash) > 0 => r[Len(r)] # "/" \/ slash[1] # "/"
    BY <1>2
  <2>2. NoDoubleSlash(r \o slash)
    BY <1>7, <1>8, <2>1, OneSlash
  <2> QED BY <2>2, JoinedTexts
<1>10. PICK v \in Seq(Characters) : v = u \o n /\ NoDoubleSlash(v)
  BY <1>3, <1>8, <1>9, OneSlash, JoinedTexts
<1>11. PICK w \in Seq(Characters) : w = v \o colon /\ NoDoubleSlash(w) /\ Len(w) > 0 /\ w[Len(w)] = ":"
  <2>1. ":" # "/"
    OBVIOUS
  <2>2. NoDoubleSlash(v \o colon)
    BY <1>5, <1>7, <1>10, <2>1, OneSlash
  <2>3. PICK w : w = v \o colon
    OBVIOUS
  <2>4. w \in Seq(Characters) /\ Len(w) = Len(v) + Len(colon)
        /\ \A i \in (Len(v) + 1)..(Len(v) + Len(colon)) : w[i] = colon[i - Len(v)]
    BY <2>3, TextAfterText, Zenon
  <2>5. Len(v) \in Nat
    OBVIOUS
  <2>6. Len(w) = Len(v) + 1 /\ Len(w) \in (Len(v) + 1)..(Len(v) + Len(colon)) /\ Len(w) - Len(v) = 1
        /\ Len(w) > 0
    BY <1>5, <2>4, <2>5
  <2>7. w[Len(w)] = colon[Len(w) - Len(v)]
    BY <2>4, <2>6, Zenon
  <2> QED BY <1>5, <2>2, <2>3, <2>4, <2>6, <2>7
<1>12. w \o version \in Seq(Characters) /\ NoDoubleSlash(w \o version) /\ IsSuffix(version, w \o version)
  <2>1. ":" # "/"
    OBVIOUS
  <2>2. NoDoubleSlash(w \o version)
    BY <1>6, <1>7, <1>11, <2>1, OneSlash
  <2> QED BY <1>6, <1>11, <2>2, EndIsSuffix, JoinedTexts
<1>13. TrimEnd(trim(repo), "/") \o <<"/">> \o TrimStart(trim(name), "/") \o <<":">> \o version = w \o version
  BY <1>2, <1>3, <1>4, <1>5, <1>9, <1>10, <1>11, Zenon
<1> QED BY <1>12, <1>13

\* An image that is resolved has a label that shows its version.
LEMMA ImagesLabelled ==
  ASSUME NEW image \in Images, NEW name \in ImageNames, NEW repository \in Repositories,
         NEW operator \in Operators
  PROVE  LET version == app_version(image, operator)
             result == resolve(image, name, repository, operator)
             reference == result.value.image
             slashes == {i \in DOMAIN reference : reference[i] = "/"}
         IN  /\ IsAscii(version) => result.ok \/ result.error # "Panic"
             /\ LabelValue(version).ok => result.ok /\ result.value.label = version
             /\ (IsAscii(version) /\ ~result.ok) =>
                   \/ version[1] \notin AlNum
                   \/ version[IF Len(version) > LabelMax THEN LabelMax ELSE Len(version)] \notin AlNum
             /\ result.ok =>
                   /\ LabelValue(result.value.label).ok
                   /\ image.custom = None =>
                        IsSuffix(version, reference) /\ \A i \in slashes : i + 1 \notin slashes
             /\ operator.pull_request =>
                   version = app_version(image, [version |-> DEV, pull_request |-> FALSE])
<1> DEFINE version == app_version(image, operator)
           repo == IF image.repo # None THEN image.repo ELSE repository
           trimmed == TrimEnd(trim(repo), "/") \o <<"/">> \o TrimStart(trim(name), "/") \o <<":">> \o version
           reference == IF image.custom # None THEN image.custom.reference ELSE trimmed
           label == prepare_app_version_label_value(version)
           result == resolve(image, name, repository, operator)
<1>1. version \in VersionTexts /\ version # <<>>
  BY AppVersionIs
<1>2. repo \in Seq(Characters) /\ NoDoubleSlash(TrimEnd(trim(repo), "/"))
  <2>1. repo \in Repositories \cup ({i.repo : i \in Images} \ {None})
    OBVIOUS
  <2> HIDE DEF repo
  <2> QED BY <2>1, ImageInputs
<1>3. name \in Seq(Characters) /\ NoDoubleSlash(TrimStart(trim(name), "/"))
  BY ImageInputs
<1> HIDE DEF repo
<1>4. result = IF label.ok THEN Ok([label |-> label.value, image |-> reference]) ELSE label
  BY DEF resolve, AndThen, repo
<1>5. operator.pull_request => version = app_version(image, [version |-> DEV, pull_request |-> FALSE])
  <2>1. [version |-> DEV, pull_request |-> FALSE].version = DEV
        /\ [version |-> DEV, pull_request |-> FALSE].pull_request = FALSE
    OBVIOUS
  <2> QED BY <2>1 DEF app_version
<1> HIDE DEF version
<1>6. /\ trimmed \in Seq(Characters) /\ IsSuffix(version, trimmed) /\ NoDoubleSlash(trimmed)
  BY <1>1, <1>2, <1>3, ReferenceIs
<1>7. /\ IsAscii(version) => label.ok \/ label.error # "Panic"
      /\ LabelValue(version).ok => label = Ok(version)
      /\ IsAscii(version) /\ ~label.ok =>
           \/ version[1] \notin AlNum
           \/ version[IF Len(version) > LabelMax THEN LabelMax ELSE Len(version)] \notin AlNum
      /\ label.ok => LabelValue(label.value).ok
  BY <1>1, LabelOfVersion
<1> HIDE DEF label, trimmed, result
<1>8. \A v : Ok(v).ok /\ Ok(v).value = v
  BY DEF Ok
<1>9. label.ok => /\ result.ok /\ result.value.label = label.value
                  /\ image.custom = None => result.value.image = trimmed
  <2>1. PICK v : v = [label |-> label.value, image |-> reference]
    OBVIOUS
  <2>2. v.label = label.value /\ (image.custom = None => v.image = trimmed)
    BY <2>1
  <2>3. label.ok => result = Ok(v)
    BY <1>4, <2>1
  <2> QED BY <1>8, <2>2, <2>3
<1>10. ~label.ok => result = label
  BY <1>4
<1>11. \A i \in {j \in DOMAIN trimmed : trimmed[j] = "/"} :
         i + 1 \notin {j \in DOMAIN trimmed : trimmed[j] = "/"}
  <2>1. DOMAIN trimmed = 1..Len(trimmed) /\ Len(trimmed) \in Nat
    BY <1>6
  <2>2. \A i \in 1..Len(trimmed) : i + 1 \in 1..Len(trimmed) => i \in 1..(Len(trimmed) - 1)
    BY <2>1
  <2> QED BY <1>6, <2>1, <2>2 DEF NoDoubleSlash
<1>12. LabelValue(version).ok => result.ok /\ result.value.label = version
  BY <1>7, <1>8, <1>9
<1>13. result.ok /\ image.custom = None =>
         /\ IsSuffix(version, result.value.image)
         /\ \A i \in {j \in DOMAIN result.value.image : result.value.image[j] = "/"} :
              i + 1 \notin {j \in DOMAIN result.value.image : result.value.image[j] = "/"}
  BY <1>6, <1>9, <1>10, <1>11
<1>14. result.ok => LabelValue(result.value.label).ok
  BY <1>7, <1>9, <1>10
<1>15. /\ IsAscii(version) => result.ok \/ result.error # "Panic"
       /\ IsAscii(version) /\ ~result.ok =>
            \/ version[1] \notin AlNum
            \/ version[IF Len(version) > LabelMax THEN LabelMax ELSE Len(version)] \notin AlNum
  BY <1>7, <1>9, <1>10
<1> QED BY <1>5, <1>12, <1>13, <1>14, <1>15 DEF version, result

(***************************************************************************)
(* What is made of valid names, labels and calls is valid                  *)
(***************************************************************************)
\* A step names nothing or one thing.
LEMMA NamedAs ==
  ASSUME NamesNext
  PROVE  /\ named' = named \/ ParseName \/ ~Named("parse")'
         /\ named' = named \/ NameRoleGroup \/ ~Named("role group")'
         /\ named' = named \/ MakeKey \/ ~Named("key")'
         /\ named' = named \/ ResolveImage \/ ~Named("image")'
         /\ named' = named \/ RecommendLabels \/ ~Named("labels")'
         /\ named' = named \/ MakeQuery \/ ~Named("query")'
         /\ named' = named \/ BuildRbac \/ ~Named("rbac")'
<1>1. \A w, i, r : [what |-> w, input |-> i, result |-> r].what = w
  OBVIOUS
<1>2. ParseName => named'.what = "parse"
  BY <1>1 DEF ParseName, Name
<1>3. NameRoleGroup => named'.what = "role group"
  BY <1>1 DEF NameRoleGroup, Name
<1>4. MakeKey => named'.what = "key"
  BY <1>1 DEF MakeKey, Name
<1>5. ResolveImage => named'.what = "image"
  BY <1>1 DEF ResolveImage, Name
<1>6. RecommendLabels => named'.what = "labels"
  BY <1>1 DEF RecommendLabels, Name
<1>7. MakeQuery => named'.what = "query"
  BY <1>1 DEF MakeQuery, Name
<1>8. BuildRbac => named'.what = "rbac"
  BY <1>1 DEF BuildRbac, Name
<1>9. named' = named \/ ParseName \/ NameRoleGroup \/ MakeKey \/ ResolveImage \/ RecommendLabels
      \/ MakeQuery \/ BuildRbac
  BY NamedBy
<1> QED BY <1>2, <1>3, <1>4, <1>5, <1>6, <1>7, <1>8, <1>9 DEF Named

\* The names of role groups.
LEMMA RoleGroupsStep ==
  ASSUME RoleGroupNamesAreValid, [NamesNext]_namesVars
  PROVE  RoleGroupNamesAreValid'
<1>1. CASE named' = named
  BY <1>1 DEF RoleGroupNamesAreValid, Named
<1>2. CASE NameRoleGroup
  <2>1. PICK cluster \in ClusterNames, role \in RoleNames, group \in RoleGroupNames,
             hash \in Hash(HashLength) :
          named' = [what |-> "role group", input |-> [cluster |-> cluster, role |-> role, group |-> group],
                    result |-> ResourceNames([cluster |-> cluster, role |-> role, group |-> group], hash)]
    BY <1>2 DEF NameRoleGroup, Name
  <2>2. PICK r, names : /\ r = [cluster |-> cluster, role |-> role, group |-> group]
                        /\ names = ResourceNames(r, hash)
    OBVIOUS
  <2>3. r.cluster = cluster /\ r.role = role /\ r.group = group
    BY <2>2
  <2>4. /\ \A kind \in DOMAIN names : names[kind].ok
        /\ SubSeq(names.qualified.value, 1, Len(cluster)) = cluster
        /\ Len(cluster \o <<"-">> \o role \o <<"-">> \o group) <= QualifiedMax
             => names.qualified = Ok(cluster \o <<"-">> \o role \o <<"-">> \o group)
    BY <2>2, ResourceNamesAreValid
  <2>5. named'.input = r /\ named'.result = names
    BY <2>1, <2>2
  <2> QED BY <2>3, <2>4, <2>5, Zenon DEF RoleGroupNamesAreValid
<1> QED BY <1>1, <1>2, NamedAs DEF namesVars, RoleGroupNamesAreValid

\* Parsed names.
LEMMA ParsedStep ==
  ASSUME ParsedNamesKeepPromises, [NamesNext]_namesVars
  PROVE  ParsedNamesKeepPromises'
<1>1. CASE named' = named
  BY <1>1 DEF ParsedNamesKeepPromises, Named
<1>2. CASE ParseName
  <2>1. PICK type \in TypeNames, text \in ParseTexts :
          named' = [what |-> "parse", input |-> [type |-> type, text |-> text],
                    result |-> from_str(type, text)]
    BY <1>2 DEF ParseName, Name
  <2>2. named'.input.type = type /\ named'.input.text = text /\ named'.result = from_str(type, text)
    BY <2>1
  <2> QED BY <2>2, ParsedNamesKeep, Zenon DEF ParsedNamesKeepPromises
<1> QED BY <1>1, <1>2, NamedAs DEF namesVars, ParsedNamesKeepPromises

\* Keys.
LEMMA KeysStep ==
  ASSUME ShortenedKeysFit, [NamesNext]_namesVars
  PROVE  ShortenedKeysFit'
<1>1. CASE named' = named
  BY <1>1 DEF ShortenedKeysFit, Named
<1>2. CASE MakeKey
  <2>1. PICK prefix \in {None} \cup KeyPrefixes, text \in KeyTexts, hash \in Hash(KeyHashLength) :
          named' = [what |-> "key", input |-> [prefix |-> prefix, text |-> text],
                    result |-> [parsed |-> key_from_str(text), trimmed |-> new_trimmed(prefix, text, hash)]]
    BY <1>2 DEF MakeKey, Name
  <2>2. /\ named'.input.prefix = prefix /\ named'.input.text = text
        /\ named'.result.parsed = key_from_str(text) /\ named'.result.trimmed = new_trimmed(prefix, text, hash)
    BY <2>1
  <2>3. PICK parsed, trimmed : parsed = key_from_str(text) /\ trimmed = new_trimmed(prefix, text, hash)
    OBVIOUS
  <2>4. /\ parsed.ok => Fits(parsed.value)
        /\ parsed.ok => (prefix = None /\ Bytes(text) <= LabelMax => trimmed = parsed)
        /\ trimmed.ok => Fits(trimmed.value)
        /\ (Bytes(text) > LabelMax /\ text[1] \in AlNum /\ Range(text) \subseteq AlNum \cup {"-", "_", "."})
             => trimmed.ok
    BY <2>3, KeysFit
  <2> QED BY <2>2, <2>3, <2>4, Zenon DEF ShortenedKeysFit, Fits
<1> QED BY <1>1, <1>2, NamedAs DEF namesVars, ShortenedKeysFit

\* Images.
LEMMA ImagesStep ==
  ASSUME ImagesAreLabelled, [NamesNext]_namesVars
  PROVE  ImagesAreLabelled'
<1>1. CASE named' = named
  BY <1>1 DEF ImagesAreLabelled, Named
<1>2. CASE ResolveImage
  <2>1. PICK image \in Images, name \in ImageNames, repository \in Repositories, operator \in Operators :
          named' = [what |-> "image", input |-> [image |-> image, name |-> name, operator |-> operator],
                    result |-> resolve(image, name, repository, operator)]
    BY <1>2 DEF ResolveImage, Name
  <2>2. /\ named'.input.image = image /\ named'.input.operator = operator
        /\ named'.result = resolve(image, name, repository, operator)
    BY <2>1
  <2>3. PICK version, result : /\ version = app_version(image, operator)
                               /\ result = resolve(image, name, repository, operator)
    OBVIOUS
  <2>4. LET slashes == {i \in DOMAIN result.value.image : result.value.image[i] = "/"}
        IN  /\ IsAscii(version) => result.ok \/ result.error # "Panic"
            /\ LabelValue(version).ok => result.ok /\ result.value.label = version
            /\ (IsAscii(version) /\ ~result.ok) =>
                  \/ version[1] \notin AlNum
                  \/ version[IF Len(version) > LabelMax THEN LabelMax ELSE Len(version)] \notin AlNum
            /\ result.ok =>
                  /\ LabelValue(result.value.label).ok
                  /\ image.custom = None =>
                       IsSuffix(version, result.value.image) /\ \A i \in slashes : i + 1 \notin slashes
            /\ operator.pull_request =>
                  version = app_version(image, [version |-> DEV, pull_request |-> FALSE])
    BY <2>3, ImagesLabelled
  <2>5. named'.result = result
    BY <2>2, <2>3
  <2> QED BY <2>2, <2>3, <2>4, <2>5, Zenon DEF ImagesAreLabelled
<1> QED BY <1>1, <1>2, NamedAs DEF namesVars, ImagesAreLabelled

\* Queries.
LEMMA QueriesStep ==
  ASSUME QueriesSelectTheSame, [NamesNext]_namesVars
  PROVE  QueriesSelectTheSame'
<1>1. CASE named' = named
  BY <1>1 DEF QueriesSelectTheSame, Named
<1>2. CASE MakeQuery
  <2>1. PICK s \in Selectors :
          named' = [what |-> "query", input |-> s, result |-> to_query_string(s)]
    BY <1>2 DEF MakeQuery, Name
  <2>2. named'.input = s /\ named'.result = to_query_string(s)
    BY <2>1
  <2>3. PICK query : query = to_query_string(s)
    OBVIOUS
  <2> DEFINE requirements == IF s.expressions = None THEN {} ELSE Range(s.expressions)
  <2>4. /\ query.ok <=> \A r \in requirements : ValidRequirement(r)
        /\ query.ok => /\ ParsesAsQuery(query.value)
                       /\ \A labels : Selects(s, labels)
                            <=> \A c \in Range(query.value) : Satisfies(c, labels)
    BY <2>3, QueriesSelect
  <2>5. ASSUME NEW labels
        PROVE  Selects(s, labels)
                 <=> /\ s.labels # None => \A i \in DOMAIN s.labels :
                          s.labels[i].key \in DOMAIN labels /\ labels[s.labels[i].key] = s.labels[i].value
                     /\ \A r \in requirements : ClauseHolds(r, labels)
    BY DEF Selects
  <2> HIDE DEF requirements
  <2>6. query.ok => \A labels \in LabelMaps :
          (/\ s.labels # None => \A i \in DOMAIN s.labels :
                s.labels[i].key \in DOMAIN labels /\ labels[s.labels[i].key] = s.labels[i].value
           /\ \A r \in requirements : ClauseHolds(r, labels))
          <=> \A c \in Range(query.value) : Satisfies(c, labels)
    BY <2>4, <2>5, Zenon
  <2> QED BY <2>2, <2>3, <2>4, <2>6, Zenon DEF QueriesSelectTheSame, requirements, ValidRequirement, ClauseHolds
<1> QED BY <1>1, <1>2, NamedAs DEF namesVars, QueriesSelectTheSame

\* RBAC objects.
LEMMA RbacStep ==
  ASSUME RbacGenerationsAgree, [NamesNext]_namesVars
  PROVE  RbacGenerationsAgree'
<1>1. CASE named' = named
  BY <1>1 DEF RbacGenerationsAgree, Named
<1>2. CASE BuildRbac
  <2>1. PICK owner \in Owners, other \in Owners, product \in ProductNames :
          /\ owner.name # other.name
          /\ named' =
               [what |-> "rbac", input |-> [owner |-> owner, other |-> other, product |-> product],
                result |->
                  [v1 |-> build_rbac_resources(owner, product, [name |-> product]),
                   other |-> build_rbac_resources(other, product, [name |-> product]),
                   v2 |-> IF owner.uid = None \/ ~from_str("ClusterName", owner.name).ok THEN None
                          ELSE build_v2_resources(owner, product, [name |-> product])]]
    BY <1>2 DEF BuildRbac, Name
  <2>2. PICK v1, second, v2 :
          /\ v1 = build_rbac_resources(owner, product, [name |-> product])
          /\ second = build_rbac_resources(other, product, [name |-> product])
          /\ v2 = IF owner.uid = None \/ ~from_str("ClusterName", owner.name).ok THEN None
                  ELSE build_v2_resources(owner, product, [name |-> product])
    OBVIOUS
  <2>3. /\ named'.input.owner = owner /\ named'.result.v1 = v1 /\ named'.result.other = second
        /\ named'.result.v2 = v2
    BY <2>1, <2>2
  <2>4. /\ v1.ok <=> owner.uid # None
        /\ v1.ok => v1.value.subject = [name |-> v1.value.account.name,
                                        namespace |-> v1.value.binding.namespace]
        /\ v2 # None => v1 = Ok(v2)
        /\ v1.ok /\ second.ok => /\ v1.value.account.name # second.value.account.name
                                 /\ v1.value.binding.name # second.value.binding.name
    BY <2>1, <2>2, RbacAgrees
  <2> QED BY <2>3, <2>4, Zenon DEF RbacGenerationsAgree
<1> QED BY <1>1, <1>2, NamedAs DEF namesVars, RbacGenerationsAgree

\* Labels.
LEMMA LabelsStep ==
  ASSUME SelectorsMatchLabels, [NamesNext]_namesVars
  PROVE  SelectorsMatchLabels'
<1>1. CASE named' = named
  BY <1>1 DEF SelectorsMatchLabels, Named
<1>2. CASE RecommendLabels
  <2> DEFINE V2(o) == [cluster |-> recommended_labels_for_cluster_resources(o),
                       role |-> recommended_labels_for_role_resources(o),
                       role_group |-> recommended_labels_for_role_group_resources(o),
                       unversioned |-> recommended_labels_for_unversioned_role_group_resources(o),
                       role_selector |-> v2_role_selector(o),
                       role_group_selector |-> v2_role_group_selector(o)]
  <2>1. PICK o \in LabelInputs :
          named' = [what |-> "labels", input |-> o,
                    result |-> [recommended |-> InsertAll(recommended(o)), role |-> InsertAll(role_selector(o)),
                                role_group |-> InsertAll(role_group_selector(o)),
                                v2 |-> IF ~TypedParts(o) THEN None ELSE V2(o)]]
    BY <1>2 DEF RecommendLabels, Name
  <2>2. PICK v1 : v1 = [recommended |-> InsertAll(recommended(o)), role |-> InsertAll(role_selector(o)),
                        role_group |-> InsertAll(role_group_selector(o))]
    OBVIOUS
  <2>3. PICK v2 : v2 = V2(o)
    OBVIOUS
  <2>4. /\ v1.recommended.ok =>
             /\ v1.role.ok /\ v1.role_group.ok
             /\ PartOfLabels(v1.role.value, v1.role_group.value)
             /\ PartOfLabels(v1.role_group.value, v1.recommended.value)
        /\ TypedParts(o) =>
             /\ \A set \in DOMAIN v2 : v2[set].ok
             /\ PartOfLabels(v2.role_selector.value, v2.role.value)
             /\ PartOfLabels(v2.role_group_selector.value, v2.unversioned.value)
             /\ PartOfLabels(v2.unversioned.value, v2.role_group.value)
             /\ PartOfLabels(v2.cluster.value, v2.role.value)
             /\ v1.recommended.ok => v2.role_group = v1.recommended
    BY <2>2, <2>3, LabelsMatch
  <2> HIDE DEF V2
  <2>5. /\ named'.result.recommended = v1.recommended /\ named'.result.role = v1.role
        /\ named'.result.role_group = v1.role_group
    BY <2>1, <2>2
  <2>6. named'.result.v2 # None => TypedParts(o) /\ named'.result.v2 = v2
    BY <2>1, <2>3
  <2>7. PICK w, result : w = named'.result.v2 /\ result = named'.result
    OBVIOUS
  <2>8. w # None => TypedParts(o) /\ w = v2
    BY <2>6, <2>7
  <2>9. /\ result.recommended = v1.recommended /\ result.role = v1.role
        /\ result.role_group = v1.role_group /\ result.v2 = w
    BY <2>5, <2>7
  <2>10. /\ result.recommended.ok =>
              /\ result.role.ok /\ result.role_group.ok
              /\ PartOfLabels(result.role.value, result.role_group.value)
              /\ PartOfLabels(result.role_group.value, result.recommended.value)
         /\ w # None =>
              /\ \A set \in DOMAIN w : w[set].ok
              /\ PartOfLabels(w.role_selector.value, w.role.value)
              /\ PartOfLabels(w.role_group_selector.value, w.unversioned.value)
              /\ PartOfLabels(w.unversioned.value, w.role_group.value)
              /\ PartOfLabels(w.cluster.value, w.role.value)
         /\ w # None /\ result.recommended.ok => w.role_group = result.recommended
    BY <2>4, <2>8, <2>9, Zenon
  <2>11. /\ named'.result.recommended.ok =>
              /\ named'.result.role.ok /\ named'.result.role_group.ok
              /\ PartOfLabels(named'.result.role.value, named'.result.role_group.value)
              /\ PartOfLabels(named'.result.role_group.value, named'.result.recommended.value)
         /\ named'.result.v2 # None =>
              /\ \A set \in DOMAIN named'.result.v2 : named'.result.v2[set].ok
              /\ PartOfLabels(named'.result.v2.role_selector.value, named'.result.v2.role.value)
              /\ PartOfLabels(named'.result.v2.role_group_selector.value, named'.result.v2.unversioned.value)
              /\ PartOfLabels(named'.result.v2.unversioned.value, named'.result.v2.role_group.value)
              /\ PartOfLabels(named'.result.v2.cluster.value, named'.result.v2.role.value)
         /\ named'.result.v2 # None /\ named'.result.recommended.ok =>
              named'.result.v2.role_group = named'.result.recommended
    BY <2>7, <2>10
  <2> QED BY <2>11, Zenon DEF SelectorsMatchLabels, PartOfLabels
<1> QED BY <1>1, <1>2, NamedAs DEF namesVars, SelectorsMatchLabels

\* A builder of metadata follows its calls.
BuilderInv == metaBuilder # None => BuilderFollows(metaBuilder)

\* It keeps following them.
LEMMA BuilderStep ==
  ASSUME BuilderInv, [NamesNext]_namesVars
  PROVE  BuilderInv'
<1>1. CASE metaBuilder' = metaBuilder
  BY <1>1 DEF BuilderInv
<1>2. CASE CallMetaBuilder
  <2>1. PICK call \in MetaCalls :
          LET b == IF metaBuilder = None THEN [calls |-> <<>>, meta |-> NewMeta] ELSE metaBuilder
              labels == try_from_iter(call.labels)
          IN  metaBuilder' =
                [calls |-> Append(b.calls, call),
                 meta  |-> IF call.kind = "labels" THEN set_labels(b.meta, labels)
                           ELSE with_labels(with_finalizers(b.meta, <<call.kind>>), labels)]
    BY <1>2 DEF CallMetaBuilder
  <2>2. PICK b : b = IF metaBuilder = None THEN [calls |-> <<>>, meta |-> NewMeta] ELSE metaBuilder
    OBVIOUS
  <2>3. b = [calls |-> <<>>, meta |-> NewMeta] \/ BuilderFollows(b)
    BY <2>2 DEF BuilderInv
  <2>4. BuilderFollows(
          [calls |-> Append(b.calls, call),
           meta  |-> IF call.kind = "labels" THEN set_labels(b.meta, try_from_iter(call.labels))
                     ELSE with_labels(with_finalizers(b.meta, <<call.kind>>), try_from_iter(call.labels))])
    BY <2>3, NextBuilder
  <2>5. metaBuilder' = [calls |-> Append(b.calls, call),
           meta  |-> IF call.kind = "labels" THEN set_labels(b.meta, try_from_iter(call.labels))
                     ELSE with_labels(with_finalizers(b.meta, <<call.kind>>), try_from_iter(call.labels))]
    BY <2>1, <2>2
  <2>6. PICK m : m = metaBuilder'
    OBVIOUS
  <2>7. BuilderFollows(m)
    BY <2>4, <2>5, <2>6
  <2> QED BY <2>6, <2>7 DEF BuilderInv
<1>3. NamesNext => metaBuilder' = metaBuilder \/ CallMetaBuilder
  BY DEF NamesNext, ParseName, NameRoleGroup, MakeKey, ResolveImage, RecommendLabels, MakeQuery, BuildRbac,
         Name
<1> QED BY <1>1, <1>2, <1>3 DEF namesVars

\* What it builds is what was asked for.
LEMMA MetadataIsBuilt ==
  ASSUME BuilderInv
  PROVE  MetadataFollowsCalls
<1> SUFFICES ASSUME metaBuilder # None PROVE MetadataFollowsCalls
  BY DEF MetadataFollowsCalls
<1>1. BuilderFollows(metaBuilder)
  BY DEF BuilderInv
<1>2. LET calls == metaBuilder.calls
          from == StartOf(calls)
          keys == UNION {Gives(calls[i]) : i \in from..Len(calls)}
          last(k) == LastGiving(calls, from, k)
          labels == build_meta(metaBuilder.meta).labels
      IN  /\ DOMAIN labels = keys
          /\ \A k \in keys : Pair(k, labels[k]) \in Range(calls[last(k)].labels)
  BY <1>1, BuiltLabelsFollow
<1> QED BY <1>2, Zenon DEF MetadataFollowsCalls, StartOf, LastGiving, Gives

\* What is made of valid names, labels and calls is valid (NamesAreUsable), and what
\* a builder of metadata has is what its calls gave it.
NamesInv ==
  /\ RoleGroupNamesAreValid /\ ParsedNamesKeepPromises /\ ShortenedKeysFit
  /\ ImagesAreLabelled /\ SelectorsMatchLabels /\ QueriesSelectTheSame
  /\ RbacGenerationsAgree /\ BuilderInv

\* NamesAreUsable: for all names, labels, selectors, images, owners and calls that the
\* assumptions allow, and all limits.
THEOREM NamesAlwaysUsable == NamesSpec => []NamesAreUsable
<1>1. NamesInit => NamesInv
  BY DEF NamesInit, NamesInv, RoleGroupNamesAreValid, ParsedNamesKeepPromises, ShortenedKeysFit,
         ImagesAreLabelled, SelectorsMatchLabels, QueriesSelectTheSame, RbacGenerationsAgree, Named, BuilderInv
<1>2. NamesInv /\ [NamesNext]_namesVars => NamesInv'
  <2> SUFFICES ASSUME NamesInv, [NamesNext]_namesVars PROVE NamesInv'
    OBVIOUS
  <2>1. RoleGroupNamesAreValid' /\ ParsedNamesKeepPromises' /\ ShortenedKeysFit' /\ ImagesAreLabelled'
    BY RoleGroupsStep, ParsedStep, KeysStep, ImagesStep DEF NamesInv
  <2>2. SelectorsMatchLabels' /\ QueriesSelectTheSame' /\ RbacGenerationsAgree' /\ BuilderInv'
    BY LabelsStep, QueriesStep, RbacStep, BuilderStep DEF NamesInv
  <2> QED BY <2>1, <2>2 DEF NamesInv
<1>3. NamesInv => NamesAreUsable
  BY MetadataIsBuilt DEF NamesInv, NamesAreUsable
<1> QED BY <1>1, <1>2, <1>3, PTL DEF NamesSpec
=============================================================================
