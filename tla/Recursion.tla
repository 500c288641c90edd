------------------------------ MODULE Recursion ------------------------------
(***************************************************************************)
(* Induction and recursion for the proofs about recursive functions, in a  *)
(* form that needs no operators as parameters: facts are sets of numbers,  *)
(* and what a recursion does in each step is a function.                   *)
(***************************************************************************)
EXTENDS Integers, WellFoundedInduction, TLAPS

\* A set of natural numbers has a least element.
LEMMA LeastNumber ==
  ASSUME NEW T, T \subseteq Nat, T # {}
  PROVE  \E n \in T : \A m \in T : n <= m
<1>1. \E n \in T : \A m \in T : ~(<<m, n>> \in OpToRel(<, Nat))
  BY NatLessThanWellFounded, WFMin
<1>2. PICK n \in T : \A m \in T : ~(<<m, n>> \in OpToRel(<, Nat))
  BY <1>1
<1>3. ASSUME NEW m \in T PROVE n <= m
  <2>1. <<m, n>> \in Nat \X Nat /\ <<m, n>>[1] = m /\ <<m, n>>[2] = n
    OBVIOUS
  <2>2. ~(m < n)
    BY <1>2, <2>1 DEF OpToRel
  <2>3. QED
    BY <2>2
<1>4. QED
  BY <1>3

\* A function on 0..N with values in V that is defined by its value at 0 and by what
\* each step makes of the value before.
Iterates(f, N, V, first, next) ==
  f \in [0..N -> V] /\ f[0] = first /\ \A n \in 1..N : f[n] = next[n][f[n - 1]]

Steps(N, V) == [1..N -> [V -> V]]

\* Such a function exists.
LEMMA IterationExists ==
  ASSUME NEW N \in Nat, NEW V, NEW first \in V, NEW next \in Steps(N, V)
  PROVE  \E f : Iterates(f, N, V, first, next)
<1> USE DEF Steps
<1> DEFINE Exists(k) ==
      \E f \in [0..k -> V] : f[0] = first /\ \A n \in 1..k : f[n] = next[n][f[n - 1]]
<1> DEFINE T == {k \in 0..N : ~Exists(k)}
<1>1. ASSUME T # {} PROVE FALSE
  <2>1. PICK k \in T : \A m \in T : k <= m
    <3>1. T \subseteq Nat
      OBVIOUS
    <3> HIDE DEF T
    <3>2. QED
      BY <1>1, <3>1, LeastNumber
  <2>2. CASE k = 0
    <3> DEFINE f == [n \in 0..0 |-> first]
    <3>1. f \in [0..0 -> V] /\ f[0] = first /\ 1..0 = {}
      OBVIOUS
    <3>2. QED
      BY <2>2, <3>1
  <2>3. CASE k # 0
    <3>1. k - 1 \in 0..N /\ k \in 1..N /\ ~(k <= k - 1) /\ k \in Nat
      BY <2>3
    <3>2. Exists(k - 1)
      BY <2>1, <3>1
    <3>3. PICK f \in [0..(k - 1) -> V] :
            f[0] = first /\ \A n \in 1..(k - 1) : f[n] = next[n][f[n - 1]]
      BY <3>2
    <3> DEFINE g == [n \in 0..k |-> IF n = k THEN next[k][f[k - 1]] ELSE f[n]]
    <3>4. f[k - 1] \in V /\ next[k][f[k - 1]] \in V
      BY <3>1
    <3>5. g \in [0..k -> V]
      BY <3>1, <3>4
    <3>6. g[0] = first
      BY <3>1, <3>3
    <3>7. ASSUME NEW n \in 1..k PROVE g[n] = next[n][g[n - 1]]
      <4>1. n - 1 \in 0..(k - 1) /\ g[n - 1] = f[n - 1]
        BY <3>1
      <4>2. CASE n = k
        BY <3>1, <4>1, <4>2
      <4>3. CASE n # k
        <5>1. n \in 1..(k - 1) /\ g[n] = f[n]
          BY <3>1, <4>3
        <5>2. QED
          BY <3>3, <4>1, <5>1
      <4>4. QED
        BY <4>2, <4>3
    <3> HIDE DEF g
    <3>8. Exists(k)
      BY <3>5, <3>6, <3>7
    <3>9. QED
      BY <2>1, <3>8
  <2>4. QED
    BY <2>2, <2>3
<1>2. N \in 0..N
  OBVIOUS
<1>3. Exists(N)
  BY <1>1, <1>2
<1>4. QED
  BY <1>3 DEF Iterates

\* A function that takes the next step from every value in V.
Follows(f, N, V, first, next) ==
  /\ f = [n \in 0..N |-> f[n]] /\ f[0] = first
  /\ \A n \in 1..N : f[n - 1] \in V => f[n] = next[n][f[n - 1]]

\* Its values are all in V.
LEMMA IterationFollows ==
  ASSUME NEW N \in Nat, NEW V, NEW first \in V, NEW next \in Steps(N, V),
         NEW f, Follows(f, N, V, first, next)
  PROVE  Iterates(f, N, V, first, next)
<1> USE DEF Steps, Follows
<1> DEFINE T == {n \in 0..N : f[n] \notin V}
<1>1. ASSUME T # {} PROVE FALSE
  <2>1. PICK n \in T : \A m \in T : n <= m
    <3>1. T \subseteq Nat
      OBVIOUS
    <3> HIDE DEF T
    <3>2. QED
      BY <1>1, <3>1, LeastNumber
  <2>2. n # 0
    OBVIOUS
  <2>3. n - 1 \in 0..N /\ n \in 1..N /\ ~(n <= n - 1)
    BY <2>2
  <2>4. f[n - 1] \in V
    BY <2>1, <2>3
  <2>5. f[n] = next[n][f[n - 1]]
    BY <2>3, <2>4
  <2>6. QED
    BY <2>3, <2>4, <2>5
<1>2. \A n \in 0..N : f[n] \in V
  BY <1>1
<1>3. f \in [0..N -> V]
  BY <1>2
<1>4. \A n \in 1..N : n - 1 \in 0..N
  OBVIOUS
<1>5. QED
  BY <1>2, <1>3, <1>4 DEF Iterates

\* A set of natural numbers that has a bound has a greatest element.
LEMMA GreatestNumber ==
  ASSUME NEW T, T \subseteq Nat, T # {}, NEW b \in Nat, \A n \in T : n <= b
  PROVE  \E n \in T : \A m \in T : m <= n
<1> DEFINE D == {b - n : n \in T}
<1>1. D \subseteq Nat /\ D # {}
  <2>1. \A n \in T : b - n \in Nat
    OBVIOUS
  <2>2. PICK n \in T : TRUE
    OBVIOUS
  <2>3. b - n \in D
    BY <2>2
  <2>4. QED
    BY <2>1, <2>3
<1> HIDE DEF D
<1>2. PICK d \in D : \A e \in D : d <= e
  BY <1>1, LeastNumber
<1>3. PICK n \in T : d = b - n
  BY DEF D
<1>4. ASSUME NEW m \in T PROVE m <= n
  <2>1. b - m \in D
    BY DEF D
  <2>2. QED
    BY <1>2, <1>3, <2>1
<1>5. QED
  BY <1>4
=============================================================================
