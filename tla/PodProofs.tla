----------------------------- MODULE PodProofs -----------------------------
(***************************************************************************)
(* Proofs about what is put together for a pod: volumes and mounts, the    *)
(* connections of its product, the containers of git-sync, and what the    *)
(* builders of PodBuilder make, for any number of services, databases,     *)
(* repositories, containers and calls.                                     *)
(***************************************************************************)
EXTENDS PodBuilder, GitSync, Recursion, FiniteSetTheorems, SequenceTheorems

(***************************************************************************)
(* Volumes and mounts                                                      *)
(***************************************************************************)
\* Builders B that collect items of I in the field `items`.
Collects(B, I) ==
  \A b \in B : /\ b.items \in Seq(I)
               /\ \A s \in Seq(I) : [b EXCEPT !.items = s] \in B /\ [b EXCEPT !.items = s].items = s

Results(B) == [ok : {TRUE}, value : B] \cup [ok : {FALSE}, error : {"Collision"}, value : B]

\* An IndexMap has one entry per key.
Distinct(b) == \A i, j \in DOMAIN b.items : b.items[i].key = b.items[j].key => i = j

\* What a builder b has become when the items `new` were added with result r.
Collected(b, new, r) ==
  /\ Distinct(r.value)
  /\ ToSet(b.items) \subseteq ToSet(r.value.items)
  /\ ToSet(r.value.items) \subseteq ToSet(b.items) \cup new
  /\ r.ok => new \subseteq ToSet(r.value.items)
  /\ ~r.ok => \E old \in ToSet(b.items) \cup new, item \in new : old.key = item.key /\ old # item

\* add_volume returns a builder in either case.
LEMMA AddVolumeType ==
  ASSUME NEW B, NEW I, Collects(B, I), NEW b \in B, NEW item \in I
  PROVE  add_volume(b, item) \in Results(B)
<1>1. Append(b.items, item) \in Seq(I)
  BY DEF Collects
<1>2. [b EXCEPT !.items = Append(b.items, item)] \in B
  BY <1>1 DEF Collects
<1>3. QED
  BY <1>2 DEF add_volume, Results, Ok

\* add_volume adds the item or finds it there, unless another one has its key.
LEMMA AddVolumeCollects ==
  ASSUME NEW B, NEW I, Collects(B, I), NEW b \in B, NEW item \in I, Distinct(b)
  PROVE  Collected(b, {item}, add_volume(b, item))
<1>0. b.items \in Seq(I) /\ DOMAIN b.items = 1..Len(b.items) /\ Len(b.items) \in Nat
  BY DEF Collects
<1>1. CASE Keyed(b, item) = {}
  <2> DEFINE s == Append(b.items, item)
             c == [b EXCEPT !.items = s]
  <2>1. add_volume(b, item) = Ok(c)
    BY <1>1 DEF add_volume
  <2>2. s \in Seq(I) /\ DOMAIN s = 1..(Len(b.items) + 1) /\ s[Len(b.items) + 1] = item
        /\ \A i \in 1..Len(b.items) : s[i] = b.items[i]
    BY <1>0
  <2>3. c.items = s
    BY <2>2 DEF Collects
  <2>4. \A i \in 1..Len(b.items) : b.items[i].key # item.key
    BY <1>0, <1>1 DEF Keyed
  <2> HIDE DEF s, c
  <2>5. Distinct(c)
    <3>1. SUFFICES ASSUME NEW i \in DOMAIN s, NEW j \in DOMAIN s, s[i].key = s[j].key PROVE i = j
      BY <2>3 DEF Distinct
    <3>2. \A k \in DOMAIN s : k \in 1..Len(b.items) \/ k = Len(b.items) + 1
      BY <1>0, <2>2
    <3>3. CASE i \in 1..Len(b.items) /\ j \in 1..Len(b.items)
      BY <1>0, <2>2, <3>1, <3>3 DEF Distinct
    <3>4. CASE i = Len(b.items) + 1 \/ j = Len(b.items) + 1
      BY <2>2, <2>4, <3>1, <3>2, <3>4
    <3>5. QED
      BY <3>2, <3>3, <3>4
  <2>6. ToSet(s) = ToSet(b.items) \cup {item}
    <3>1. ASSUME NEW x \in ToSet(s) PROVE x \in ToSet(b.items) \cup {item}
      <4>1. PICK i \in DOMAIN s : x = s[i]
        BY DEF ToSet
      <4>2. i \in 1..Len(b.items) \/ i = Len(b.items) + 1
        BY <1>0, <2>2, <4>1
      <4>3. QED
        BY <1>0, <2>2, <4>1, <4>2 DEF ToSet
    <3>2. ASSUME NEW x \in ToSet(b.items) PROVE x \in ToSet(s)
      <4>1. PICK i \in 1..Len(b.items) : x = b.items[i]
        BY <1>0 DEF ToSet
      <4>2. i \in DOMAIN s
        BY <1>0, <2>2, <4>1
      <4>3. QED
        BY <2>2, <4>1, <4>2 DEF ToSet
    <3>3. item \in ToSet(s)
      <4>1. Len(b.items) + 1 \in DOMAIN s
        BY <1>0, <2>2
      <4>2. QED
        BY <2>2, <4>1 DEF ToSet
    <3>4. QED
      BY <3>1, <3>2, <3>3
  <2>7. Ok(c).ok /\ Ok(c).value = c
    BY DEF Ok
  <2>8. QED
    BY <2>1, <2>3, <2>5, <2>6, <2>7 DEF Collected
<1>2. CASE Keyed(b, item) # {}
  <2> DEFINE k == CHOOSE i \in Keyed(b, item) : TRUE
  <2>1. k \in DOMAIN b.items /\ b.items[k].key = item.key
    BY <1>2 DEF Keyed
  <2>2. b.items[k] \in ToSet(b.items)
    BY <2>1 DEF ToSet
  <2>3. CASE b.items[k] = item
    <3>1. add_volume(b, item) = Ok(b)
      BY <1>2, <2>3 DEF add_volume
    <3>2. Ok(b).ok /\ Ok(b).value = b
      BY DEF Ok
    <3> HIDE DEF k
    <3>3. QED
      BY <2>2, <2>3, <3>1, <3>2 DEF Collected
  <2>4. CASE b.items[k] # item
    <3> DEFINE r == [ok |-> FALSE, error |-> "Collision", value |-> b]
    <3>1. add_volume(b, item) = r
      BY <1>2, <2>4 DEF add_volume
    <3>2. ~r.ok /\ r.value = b
      OBVIOUS
    <3> HIDE DEF k, r
    <3>3. QED
      BY <2>1, <2>2, <2>4, <3>1, <3>2 DEF Collected
  <2>5. QED
    BY <2>3, <2>4
<1>3. QED
  BY <1>1, <1>2

\* The recursive definition of AddedFirst has its meaning.
LEMMA AddedFirstStep ==
  ASSUME NEW B, NEW I, Collects(B, I), NEW b \in B, NEW items \in Seq(I)
  PROVE  /\ AddedFirst(b, items) \in [0..Len(items) -> Results(B)]
         /\ AddedFirst(b, items)[0] = Ok(b)
         /\ \A n \in 1..Len(items) : AddedFirst(b, items)[n] = IF AddedFirst(b, items)[n - 1].ok THEN add_volume(AddedFirst(b, items)[n - 1].value, items[n])
                                      ELSE AddedFirst(b, items)[n - 1]
<1> DEFINE N == Len(items)
           Step(n, kept) == IF kept.ok THEN add_volume(kept.value, items[n]) ELSE kept
           next == [n \in 1..N |-> [kept \in Results(B) |-> Step(n, kept)]]
           Body(g) == [n \in 0..Len(items) |-> IF n = 0 THEN Ok(b) ELSE Step(n, g[n - 1])]
<1>1. N \in Nat /\ Ok(b) \in Results(B)
  <2>1. Ok(b) \in Results(B)
    BY DEF Ok, Results
  <2>2. QED
    BY <2>1
<1>2. next \in Steps(N, Results(B))
  <2>1. \A n \in 1..N : items[n] \in I
    OBVIOUS
  <2>2. ASSUME NEW n \in 1..N, NEW kept \in Results(B) PROVE Step(n, kept) \in Results(B)
    <3>1. kept.value \in B
      BY DEF Results
    <3>2. add_volume(kept.value, items[n]) \in Results(B)
      BY <2>1, <3>1, AddVolumeType
    <3>3. QED
      BY <3>2
  <2> HIDE DEF Step
  <2>3. QED
    BY <2>2 DEF Steps
<1> HIDE DEF Step, Results
<1>3. PICK f : Iterates(f, N, Results(B), Ok(b), next)
  <2> HIDE DEF N, next
  <2>1. QED
    BY <1>1, <1>2, IterationExists
<1>4. f = Body(f)
  <2>1. ASSUME NEW n \in 0..N
        PROVE  f[n] = IF n = 0 THEN Ok(b) ELSE Step(n, f[n - 1])
    <3>1. CASE n = 0
      BY <1>3, <3>1 DEF Iterates
    <3>2. CASE n # 0
      <4>1. n \in 1..N /\ n - 1 \in 0..N
        BY <1>1, <3>2
      <4>2. f[n - 1] \in Results(B) /\ f[n] = next[n][f[n - 1]]
        BY <1>3, <4>1 DEF Iterates
      <4>3. QED
        BY <3>2, <4>1, <4>2
    <3>3. QED
      BY <3>1, <3>2
  <2>2. f = [n \in 0..N |-> f[n]]
    BY <1>3 DEF Iterates
  <2>3. QED
    BY <2>1, <2>2
<1> DEFINE done == AddedFirst(b, items)
<1>5. done = Body(done)
  <2>1. done = CHOOSE g : g = Body(g)
    BY DEF AddedFirst, Step
  <2> HIDE DEF done, Body
  <2>2. QED
    BY <1>4, <2>1
<1> HIDE DEF done
<1>6. ASSUME NEW g, g = Body(g)
      PROVE  /\ g = [n \in 0..N |-> g[n]] /\ g[0] = Ok(b)
             /\ \A n \in 1..N : g[n] = Step(n, g[n - 1])
  <2>1. \A n \in 0..N : g[n] = IF n = 0 THEN Ok(b) ELSE Step(n, g[n - 1])
    BY <1>6
  <2>2. g = [n \in 0..N |-> g[n]]
    BY <1>6
  <2>3. 0 \in 0..N /\ \A n \in 1..N : n \in 0..N /\ n # 0
    BY <1>1
  <2> HIDE DEF N, Body
  <2>4. QED
    BY <2>1, <2>2, <2>3
<1>7. /\ done = [n \in 0..N |-> done[n]] /\ done[0] = Ok(b)
      /\ \A n \in 1..N : done[n] = Step(n, done[n - 1])
  <2> HIDE DEF Body, N
  <2>1. QED
    BY <1>5, <1>6
<1>8. Follows(done, N, Results(B), Ok(b), next)
  BY <1>7 DEF Follows
<1>9. done \in [0..N -> Results(B)]
  <2> HIDE DEF next, N
  <2>1. Iterates(done, N, Results(B), Ok(b), next)
    BY <1>1, <1>2, <1>8, IterationFollows
  <2>2. QED
    BY <2>1 DEF Iterates
<1>10. QED
  BY <1>7, <1>9 DEF done, Step

\* The items at the first n places.
FirstItems(items, n) == {items[i] : i \in 1..n}

\* Whether one more item is added or an earlier error is kept, the result is that of
\* adding all of them.
LEMMA CollectedStep ==
  ASSUME NEW B, NEW I, Collects(B, I), NEW b \in B, NEW new \in SUBSET I, NEW item \in I,
         NEW r \in Results(B), Collected(b, new, r)
  PROVE  Collected(b, new \cup {item}, IF r.ok THEN add_volume(r.value, item) ELSE r)
<1>1. r.value \in B /\ Distinct(r.value)
  BY DEF Results, Collected
<1>2. CASE r.ok
  <2> DEFINE next == add_volume(r.value, item)
  <2>1. Collected(r.value, {item}, next)
    BY <1>1, AddVolumeCollects
  <2> HIDE DEF next
  <2>2. Collected(b, new \cup {item}, next)
    <3>1. Distinct(next.value) /\ ToSet(b.items) \subseteq ToSet(next.value.items)
      BY <2>1 DEF Collected
    <3>2. ToSet(next.value.items) \subseteq ToSet(b.items) \cup new \cup {item}
      BY <2>1 DEF Collected
    <3>3. next.ok => new \cup {item} \subseteq ToSet(next.value.items)
      BY <1>2, <2>1 DEF Collected
    <3>4. ~next.ok => \E old \in ToSet(b.items) \cup (new \cup {item}), x \in new \cup {item} :
                        old.key = x.key /\ old # x
      BY <2>1 DEF Collected
    <3>5. QED
      BY <3>1, <3>2, <3>3, <3>4 DEF Collected
  <2>3. QED
    BY <1>2, <2>2 DEF next
<1>3. CASE ~r.ok
  BY <1>3 DEF Collected
<1>4. QED
  BY <1>2, <1>3

\* add_volumes adds all items or stops at one that collides.
LEMMA AddVolumesCollects ==
  ASSUME NEW B, NEW I, Collects(B, I), NEW b \in B, NEW items \in Seq(I), Distinct(b)
  PROVE  /\ add_volumes(b, items) \in Results(B)
         /\ Collected(b, ToSet(items), add_volumes(b, items))
<1> DEFINE N == Len(items)
           f == AddedFirst(b, items)
           T == {n \in 0..N : ~Collected(b, FirstItems(items, n), f[n])}
<1>1. /\ N \in Nat /\ f \in [0..N -> Results(B)] /\ f[0] = Ok(b)
      /\ \A n \in 1..N : f[n] = IF f[n - 1].ok THEN add_volume(f[n - 1].value, items[n]) ELSE f[n - 1]
  BY AddedFirstStep
<1>2. \A n \in 1..N : items[n] \in I
  OBVIOUS
<1>3. ToSet(items) = FirstItems(items, N)
  BY DEF ToSet, FirstItems
<1> HIDE DEF N, f
<1>4. ASSUME T # {} PROVE FALSE
  <2>1. PICK n \in T : \A m \in T : n <= m
    <3>1. T \subseteq Nat
      BY <1>1
    <3> HIDE DEF T
    <3>2. QED
      BY <1>4, <3>1, LeastNumber
  <2>2. CASE n = 0
    <3>1. FirstItems(items, 0) = {}
      BY DEF FirstItems
    <3>2. f[0].ok /\ f[0].value = b
      BY <1>1 DEF Ok
    <3>3. Collected(b, FirstItems(items, 0), f[0])
      BY <3>1, <3>2 DEF Collected
    <3>4. QED
      BY <2>1, <2>2, <3>3
  <2>3. CASE n # 0
    <3>1. n \in 1..N /\ n - 1 \in 0..N /\ ~(n <= n - 1)
      BY <1>1, <2>3
    <3>2. Collected(b, FirstItems(items, n - 1), f[n - 1])
      BY <2>1, <3>1
    <3>3. FirstItems(items, n) = FirstItems(items, n - 1) \cup {items[n]}
      <4>1. 1..n = 1..(n - 1) \cup {n}
        BY <3>1
      <4>2. QED
        BY <4>1 DEF FirstItems
    <3>4. FirstItems(items, n - 1) \in SUBSET I /\ items[n] \in I /\ f[n - 1] \in Results(B)
      <4>1. 1..(n - 1) \subseteq 1..N
        BY <1>1, <3>1
      <4>2. QED
        BY <1>1, <1>2, <3>1, <4>1 DEF FirstItems
    <3>5. Collected(b, FirstItems(items, n), f[n])
      <4> DEFINE old == FirstItems(items, n - 1)
                 r == f[n - 1]
                 x == items[n]
      <4>1. f[n] = IF r.ok THEN add_volume(r.value, x) ELSE r
        BY <1>1, <3>1
      <4>2. Collected(b, old, r) /\ old \in SUBSET I /\ x \in I /\ r \in Results(B)
        BY <3>2, <3>4
      <4>3. FirstItems(items, n) = old \cup {x}
        BY <3>3
      <4> HIDE DEF old, r, x
      <4>4. Collected(b, old \cup {x}, IF r.ok THEN add_volume(r.value, x) ELSE r)
        BY <4>2, CollectedStep
      <4>5. QED
        BY <4>1, <4>3, <4>4
    <3>6. QED
      BY <2>1, <3>5
  <2>4. QED
    BY <2>2, <2>3
<1>5. N \in 0..N /\ add_volumes(b, items) = f[N]
  BY <1>1 DEF add_volumes, f, N
<1>6. Collected(b, FirstItems(items, N), f[N])
  BY <1>4, <1>5
<1>7. QED
  BY <1>1, <1>3, <1>5, <1>6

(***************************************************************************)
(* The secrets of a service                                                *)
(***************************************************************************)
\* The services that a pod can be connected to.
Connectable ==
  Services \cup {resolve_bucket(b).value : b \in {r \in Resources.references : resolve_bucket(r).ok}}

\* The secrets a service needs: its credentials, and the certificate of its CA.
Uses(s) ==
  (IF s.credentials = None THEN {}
   ELSE {[class |-> s.credentials.class, suffix |-> CredentialSuffix[s.kind],
          scope |-> s.credentials.scope, parts |-> "public-private"]})
  \cup (IF tls_ca_cert_secret_class(s.tls) = None THEN {}
        ELSE {[class |-> tls_ca_cert_secret_class(s.tls), suffix |-> "ca-cert",
               scope |-> None, parts |-> "public"]})

\* The volume for such a secret, and its mount.
SecretVolume(u) ==
  [key |-> <<u.class, u.suffix>>,
   content |-> <<[class |-> u.class, scope |-> u.scope, parts |-> u.parts]>>]

SecretMount(u) == [key |-> SecretPath(u.class), content |-> <<<<u.class, u.suffix>>, <<>>>>]

VolumesOf(s) == {SecretVolume(u) : u \in Uses(s)}
MountsOf(s) == {SecretMount(u) : u \in Uses(s)}

AllVolumes == UNION {VolumesOf(s) : s \in Connectable}
AllMounts == UNION {MountsOf(s) : s \in Connectable}

\* What is connected has the fields of a service.
LEMMA ConnectableIsService == \A s \in Connectable : IsService(s)
<1>1. ASSUME NEW b \in Resources.references, resolve_bucket(b).ok PROVE IsService(resolve_bucket(b).value)
  <2>1. ASSUME NEW c, IsConnection(c), resolve_connection(c).ok PROVE IsService(resolve_connection(c).value)
    <3>1. CASE c.inline
      BY <2>1, <3>1 DEF resolve_connection, Ok, IsConnection
    <3>2. CASE ~c.inline /\ c.name \in DOMAIN Resources.connections
      BY <3>2, ConnectionConstants DEF resolve_connection, Ok
    <3>3. CASE ~c.inline /\ c.name \notin DOMAIN Resources.connections
      <4>1. resolve_connection(c) = Err("RetrieveS3Connection")
        BY <3>3 DEF resolve_connection
      <4>2. QED
        BY <2>1, <4>1 DEF Err
    <3>4. QED
      BY <3>1, <3>2, <3>3
  <2>2. CASE b.inline
    <3>1. resolve_bucket(b) = resolve_connection(b.connection) /\ IsConnection(b.connection)
      BY <2>2, ConnectionConstants DEF resolve_bucket
    <3>2. QED
      BY <1>1, <2>1, <3>1
  <2>3. CASE ~b.inline /\ b.name \in DOMAIN Resources.buckets
    <3>1. /\ resolve_bucket(b) = resolve_connection(Resources.buckets[b.name])
          /\ IsConnection(Resources.buckets[b.name])
      BY <2>3, ConnectionConstants DEF resolve_bucket
    <3>2. QED
      BY <1>1, <2>1, <3>1
  <2>4. CASE ~b.inline /\ b.name \notin DOMAIN Resources.buckets
    <3>1. resolve_bucket(b) = Err("RetrieveS3Bucket")
      BY <2>4 DEF resolve_bucket
    <3>2. QED
      BY <1>1, <3>1 DEF Err
  <2>5. QED
    BY <2>2, <2>3, <2>4
<1>2. QED
  BY <1>1, ConnectionConstants DEF Connectable

\* A sequence of at most two items, each of which may be missing.
LEMMA UpToTwo ==
  ASSUME NEW x, NEW y, NEW A \in BOOLEAN, NEW C \in BOOLEAN, NEW q, NEW S,
         q = (IF A THEN <<>> ELSE <<x>>) \o (IF C THEN <<>> ELSE <<y>>),
         S = (IF A THEN {} ELSE {x}) \cup (IF C THEN {} ELSE {y})
  PROVE  q \in Seq(S) /\ ToSet(q) = S
<1>0. <<>> \in Seq({x, y}) /\ <<x>> \in Seq({x, y}) /\ <<y>> \in Seq({x, y})
  OBVIOUS
<1>1. ASSUME NEW z PROVE <<z>> \in Seq({z}) /\ ToSet(<<z>>) = {z}
  <2>1. <<z>> \in Seq({z}) /\ DOMAIN <<z>> = {1} /\ <<z>>[1] = z
    OBVIOUS
  <2>2. QED
    BY <2>1 DEF ToSet
<1>2. CASE A /\ C
  <2>1. q = <<>> \o <<>> /\ S = {}
    BY <1>2
  <2>2. <<>> \o <<>> = <<>>
    BY <1>0, ConcatEmptySeq
  <2>3. <<>> \in Seq({}) /\ DOMAIN <<>> = {}
    OBVIOUS
  <2>4. QED
    BY <2>1, <2>2, <2>3 DEF ToSet
<1>3. CASE A /\ ~C
  <2>1. q = <<>> \o <<y>> /\ S = {y}
    BY <1>3
  <2>2. <<>> \o <<y>> = <<y>>
    BY <1>0, ConcatEmptySeq
  <2>3. QED
    BY <1>1, <2>1, <2>2
<1>4. CASE ~A /\ C
  <2>1. q = <<x>> \o <<>> /\ S = {x}
    BY <1>4
  <2>2. <<x>> \o <<>> = <<x>>
    BY <1>0, ConcatEmptySeq
  <2>3. QED
    BY <1>1, <2>1, <2>2
<1>5. CASE ~A /\ ~C
  <2>1. q = <<x>> \o <<y>> /\ S = {x, y}
    BY <1>5
  <2>2. Len(<<x>>) = 1 /\ Len(<<y>>) = 1 /\ <<x>>[1] = x /\ <<y>>[1] = y
    OBVIOUS
  <2>3. /\ q \in Seq({x, y}) /\ Len(q) = 1 + 1
        /\ \A i \in 1..(1 + 1) : q[i] = IF i <= 1 THEN <<x>>[i] ELSE <<y>>[i - 1]
    BY <1>0, <2>1, <2>2, ConcatProperties
  <2>4. DOMAIN q = {1, 2} /\ q[1] = x /\ q[2] = y
    BY <2>2, <2>3
  <2>5. QED
    BY <2>1, <2>3, <2>4 DEF ToSet
<1>6. QED
  BY <1>2, <1>3, <1>4, <1>5

\* volumes_and_mounts gives a volume and a mount for each secret.
LEMMA ServiceItems ==
  ASSUME NEW s
  PROVE  LET added == volumes_and_mounts(s)
         IN  /\ added.volumes \in Seq(VolumesOf(s)) /\ ToSet(added.volumes) = VolumesOf(s)
             /\ added.mounts \in Seq(MountsOf(s)) /\ ToSet(added.mounts) = MountsOf(s)
<1> DEFINE class == tls_ca_cert_secret_class(s.tls)
           ca == [class |-> class, suffix |-> "ca-cert", scope |-> None, parts |-> "public"]
           own == [class |-> s.credentials.class, suffix |-> CredentialSuffix[s.kind],
                   scope |-> s.credentials.scope, parts |-> "public-private"]
<1>1. ASSUME NEW name, NEW v, NEW parts
      PROVE  to_volume(name, v, parts) = [key |-> name, content |-> <<[class |-> v.class, scope |-> v.scope, parts |-> parts]>>]
  <2> DEFINE x == [class |-> v.class, scope |-> v.scope, parts |-> parts]
  <2>1. <<x>> # <<>> /\ Last(<<x>>) = x
    BY DEF Last
  <2>2. QED
    BY <2>1 DEF to_volume, VolumeBuilder_build, VolumeSource
<1>2. tls_volumes_and_mounts(s.tls) =
        IF class = None THEN [volumes |-> <<>>, mounts |-> <<>>]
        ELSE [volumes |-> <<SecretVolume(ca)>>, mounts |-> <<SecretMount(ca)>>]
  <2>1. to_volume(<<class, "ca-cert">>, [class |-> class, scope |-> None], "public") = SecretVolume(ca)
    BY <1>1 DEF SecretVolume
  <2>2. VolumeMountBuilder_build(<<class, "ca-cert">>, SecretPath(class), <<>>) = SecretMount(ca)
    BY DEF VolumeMountBuilder_build, SecretMount
  <2> HIDE DEF class
  <2>3. QED
    BY <2>1, <2>2 DEF tls_volumes_and_mounts, class
<1>3. volumes_and_mounts(s) =
        IF s.credentials = None THEN tls_volumes_and_mounts(s.tls)
        ELSE [volumes |-> <<SecretVolume(own)>> \o tls_volumes_and_mounts(s.tls).volumes,
              mounts |-> <<SecretMount(own)>> \o tls_volumes_and_mounts(s.tls).mounts]
  <2> DEFINE name == <<s.credentials.class, CredentialSuffix[s.kind]>>
  <2>1. to_volume(name, s.credentials, CredentialParts) = SecretVolume(own)
    BY <1>1 DEF SecretVolume, CredentialParts
  <2>2. VolumeMountBuilder_build(name, SecretPath(s.credentials.class), <<>>) = SecretMount(own)
    BY DEF VolumeMountBuilder_build, SecretMount
  <2>3. QED
    BY <2>1, <2>2 DEF volumes_and_mounts
<1>4. /\ s.credentials # None => own \in Uses(s)
      /\ class # None => ca \in Uses(s)
      /\ Uses(s) = (IF s.credentials = None THEN {} ELSE {own}) \cup (IF class = None THEN {} ELSE {ca})
  BY DEF Uses
<1> DEFINE P == volumes_and_mounts(s)
<1> HIDE DEF class, ca, own, P
<1>5. /\ P.volumes = (IF s.credentials = None THEN <<>> ELSE <<SecretVolume(own)>>)
                       \o (IF class = None THEN <<>> ELSE <<SecretVolume(ca)>>)
      /\ P.mounts = (IF s.credentials = None THEN <<>> ELSE <<SecretMount(own)>>)
                       \o (IF class = None THEN <<>> ELSE <<SecretMount(ca)>>)
  <2> DEFINE tls == tls_volumes_and_mounts(s.tls)
  <2>1. /\ tls.volumes = (IF class = None THEN <<>> ELSE <<SecretVolume(ca)>>)
        /\ tls.mounts = (IF class = None THEN <<>> ELSE <<SecretMount(ca)>>)
    BY <1>2
  <2>2. tls.volumes = <<>> \o tls.volumes /\ tls.mounts = <<>> \o tls.mounts
    <3>1. CASE class = None
      BY <2>1, <3>1
    <3>2. CASE class # None
      BY <2>1, <3>2
    <3>3. QED
      BY <3>1, <3>2
  <2> HIDE DEF tls
  <2>3. P = IF s.credentials = None THEN tls
            ELSE [volumes |-> <<SecretVolume(own)>> \o tls.volumes, mounts |-> <<SecretMount(own)>> \o tls.mounts]
    BY <1>3 DEF P, tls
  <2>4. QED
    BY <2>1, <2>2, <2>3
<1>6. /\ VolumesOf(s) = (IF s.credentials = None THEN {} ELSE {SecretVolume(own)})
                          \cup (IF class = None THEN {} ELSE {SecretVolume(ca)})
      /\ MountsOf(s) = (IF s.credentials = None THEN {} ELSE {SecretMount(own)})
                          \cup (IF class = None THEN {} ELSE {SecretMount(ca)})
  BY <1>4 DEF VolumesOf, MountsOf
<1> DEFINE A == s.credentials = None
           C == class = None
<1>7. A \in BOOLEAN /\ C \in BOOLEAN
  OBVIOUS
<1>8. P.volumes \in Seq(VolumesOf(s)) /\ ToSet(P.volumes) = VolumesOf(s)
  <2> HIDE DEF A, C
  <2> DEFINE x == SecretVolume(own)
             y == SecretVolume(ca)
  <2>1. /\ P.volumes = (IF A THEN <<>> ELSE <<x>>) \o (IF C THEN <<>> ELSE <<y>>)
        /\ VolumesOf(s) = (IF A THEN {} ELSE {x}) \cup (IF C THEN {} ELSE {y})
    BY <1>5, <1>6 DEF A, C
  <2> HIDE DEF x, y
  <2>2. QED
    BY <1>7, <2>1, UpToTwo
<1>9. P.mounts \in Seq(MountsOf(s)) /\ ToSet(P.mounts) = MountsOf(s)
  <2> HIDE DEF A, C
  <2> DEFINE x == SecretMount(own)
             y == SecretMount(ca)
  <2>1. /\ P.mounts = (IF A THEN <<>> ELSE <<x>>) \o (IF C THEN <<>> ELSE <<y>>)
        /\ MountsOf(s) = (IF A THEN {} ELSE {x}) \cup (IF C THEN {} ELSE {y})
    BY <1>5, <1>6 DEF A, C
  <2> HIDE DEF x, y
  <2>2. QED
    BY <1>7, <2>1, UpToTwo
<1>10. QED
  BY <1>8, <1>9 DEF P

(***************************************************************************)
(* Adding a service to a pod                                               *)
(***************************************************************************)
VolumeBuilders == [items : Seq(AllVolumes)]
MountBuilders == [items : Seq(AllMounts)]
PodContainers == [1..ContainerCount -> MountBuilders]
MountResults == [ok : BOOLEAN, value : PodContainers]

\* The volumes of a pod and the mounts of a container are collected alike.
LEMMA RecordsCollect ==
  ASSUME NEW I
  PROVE  Collects([items : Seq(I)], I)
  BY DEF Collects

\* Adding mounts to one container.
LEMMA ContainerCollects ==
  ASSUME NEW b \in MountBuilders, Distinct(b), NEW mounts \in Seq(AllMounts)
  PROVE  /\ Collected(b, ToSet(mounts), add_volumes(b, mounts))
         /\ add_volumes(b, mounts).ok \in BOOLEAN /\ add_volumes(b, mounts).value \in MountBuilders
<1>1. Collects(MountBuilders, AllMounts)
  BY RecordsCollect DEF MountBuilders
<1>2. add_volumes(b, mounts) \in Results(MountBuilders) /\ Collected(b, ToSet(mounts), add_volumes(b, mounts))
  BY <1>1, AddVolumesCollects
<1>3. QED
  BY <1>2 DEF Results

\* The recursive definition of MountedFirst has its meaning.
LEMMA MountedFirstStep ==
  ASSUME NEW containers \in PodContainers, NEW mounts \in Seq(AllMounts),
         \A c \in 1..ContainerCount : Distinct(containers[c])
  PROVE  /\ MountedFirst(containers, mounts) \in [0..ContainerCount -> MountResults]
         /\ MountedFirst(containers, mounts)[0] = Ok(containers)
         /\ \A n \in 1..ContainerCount : MountedFirst(containers, mounts)[n] = IF ~MountedFirst(containers, mounts)[n - 1].ok THEN MountedFirst(containers, mounts)[n - 1]
              ELSE [ok |-> add_volumes(containers[n], mounts).ok,
                    value |-> [MountedFirst(containers, mounts)[n - 1].value EXCEPT ![n] = add_volumes(containers[n], mounts).value]]
<1> DEFINE N == ContainerCount
           Step(n, kept) == IF ~kept.ok THEN kept
                            ELSE [ok |-> add_volumes(containers[n], mounts).ok,
                                  value |-> [kept.value EXCEPT ![n] = add_volumes(containers[n], mounts).value]]
           next == [n \in 1..N |-> [kept \in MountResults |-> Step(n, kept)]]
           Body(g) == [n \in 0..ContainerCount |-> IF n = 0 THEN Ok(containers) ELSE Step(n, g[n - 1])]
<1>1. N \in Nat /\ Ok(containers) \in MountResults
  BY ConnectionConstants DEF Ok, MountResults
<1>2. next \in Steps(N, MountResults)
  <2>1. ASSUME NEW n \in 1..N, NEW kept \in MountResults PROVE Step(n, kept) \in MountResults
    <3>1. /\ add_volumes(containers[n], mounts).ok \in BOOLEAN
          /\ add_volumes(containers[n], mounts).value \in MountBuilders
      BY ContainerCollects DEF PodContainers
    <3>2. kept.value \in PodContainers
      BY DEF MountResults
    <3>3. [kept.value EXCEPT ![n] = add_volumes(containers[n], mounts).value] \in PodContainers
      BY <3>1, <3>2 DEF PodContainers
    <3>4. QED
      BY <3>1, <3>3 DEF MountResults
  <2> HIDE DEF Step, MountResults
  <2>2. QED
    BY <2>1 DEF Steps
<1> HIDE DEF Step, MountResults
<1>3. PICK f : Iterates(f, N, MountResults, Ok(containers), next)
  <2> HIDE DEF N, next
  <2>1. QED
    BY <1>1, <1>2, IterationExists
<1>4. f = Body(f)
  <2>1. ASSUME NEW n \in 0..N
        PROVE  f[n] = IF n = 0 THEN Ok(containers) ELSE Step(n, f[n - 1])
    <3>1. CASE n = 0
      BY <1>3, <3>1 DEF Iterates
    <3>2. CASE n # 0
      <4>1. n \in 1..N /\ n - 1 \in 0..N
        BY <1>1, <3>2
      <4>2. f[n - 1] \in MountResults /\ f[n] = next[n][f[n - 1]]
        BY <1>3, <4>1 DEF Iterates
      <4>3. QED
        BY <3>2, <4>1, <4>2
    <3>3. QED
      BY <3>1, <3>2
  <2>2. f = [n \in 0..N |-> f[n]]
    BY <1>3 DEF Iterates
  <2>3. QED
    BY <2>1, <2>2
<1> DEFINE done == MountedFirst(containers, mounts)
<1>5. done = Body(done)
  <2>1. done = CHOOSE g : g = Body(g)
    BY DEF MountedFirst, Step
  <2> HIDE DEF done, Body
  <2>2. QED
    BY <1>4, <2>1
<1> HIDE DEF done
<1>6. ASSUME NEW g, g = Body(g)
      PROVE  /\ g = [n \in 0..N |-> g[n]] /\ g[0] = Ok(containers)
             /\ \A n \in 1..N : g[n] = Step(n, g[n - 1])
  <2>1. \A n \in 0..N : g[n] = IF n = 0 THEN Ok(containers) ELSE Step(n, g[n - 1])
    BY <1>6
  <2>2. g = [n \in 0..N |-> g[n]]
    BY <1>6
  <2>3. 0 \in 0..N /\ \A n \in 1..N : n \in 0..N /\ n # 0
    BY <1>1
  <2> HIDE DEF N, Body
  <2>4. QED
    BY <2>1, <2>2, <2>3
<1>7. /\ done = [n \in 0..N |-> done[n]] /\ done[0] = Ok(containers)
      /\ \A n \in 1..N : done[n] = Step(n, done[n - 1])
  <2> HIDE DEF Body, N
  <2>1. QED
    BY <1>5, <1>6
<1>8. Follows(done, N, MountResults, Ok(containers), next)
  BY <1>7 DEF Follows
<1>9. done \in [0..N -> MountResults]
  <2> HIDE DEF next, N
  <2>1. Iterates(done, N, MountResults, Ok(containers), next)
    BY <1>1, <1>2, <1>8, IterationFollows
  <2>2. QED
    BY <2>1 DEF Iterates
<1>10. QED
  BY <1>7, <1>9 DEF done, Step

\* What the containers have become when mounts were added to the first n of them.
ContainersCollected(containers, new, r, n) ==
  /\ \A c \in 1..ContainerCount :
        /\ Distinct(r.value[c])
        /\ ToSet(containers[c].items) \subseteq ToSet(r.value[c].items)
        /\ ToSet(r.value[c].items) \subseteq ToSet(containers[c].items) \cup new
        /\ (r.ok /\ c <= n) => new \subseteq ToSet(r.value[c].items)
  /\ ~r.ok => \E c \in 1..ContainerCount : \E old \in ToSet(containers[c].items) \cup new, item \in new :
                 old.key = item.key /\ old # item

\* The same for one more container.
LEMMA OneMoreContainer ==
  ASSUME NEW containers \in PodContainers, NEW mounts \in Seq(AllMounts),
         \A c \in 1..ContainerCount : Distinct(containers[c]),
         NEW n \in 1..ContainerCount, NEW r \in MountResults,
         ContainersCollected(containers, ToSet(mounts), r, n - 1), r.ok
  PROVE  ContainersCollected(containers, ToSet(mounts),
           [ok |-> add_volumes(containers[n], mounts).ok,
            value |-> [r.value EXCEPT ![n] = add_volumes(containers[n], mounts).value]], n)
<1> DEFINE added == add_volumes(containers[n], mounts)
           new == ToSet(mounts)
           next == [ok |-> added.ok, value |-> [r.value EXCEPT ![n] = added.value]]
<1>1. Collected(containers[n], new, added)
  BY ContainerCollects DEF PodContainers
<1>2. r.value \in PodContainers
  BY DEF MountResults
<1> HIDE DEF added
<1>3. /\ next.ok = added.ok /\ next.value[n] = added.value
      /\ \A c \in 1..ContainerCount : c # n => next.value[c] = r.value[c]
  BY <1>2 DEF PodContainers
<1> HIDE DEF next, new
<1>4. ContainersCollected(containers, new, r, n - 1)
  BY DEF new
<1>5. ASSUME NEW c \in 1..ContainerCount
      PROVE  /\ Distinct(next.value[c])
             /\ ToSet(containers[c].items) \subseteq ToSet(next.value[c].items)
             /\ ToSet(next.value[c].items) \subseteq ToSet(containers[c].items) \cup new
             /\ (next.ok /\ c <= n) => new \subseteq ToSet(next.value[c].items)
  <2>1. CASE c = n
    BY <1>1, <1>3, <2>1 DEF Collected
  <2>2. CASE c # n
    <3>1. c <= n => c <= n - 1
      BY <2>2, ConnectionConstants
    <3>2. QED
      BY <1>3, <1>4, <2>2, <3>1 DEF ContainersCollected
  <2>3. QED
    BY <2>1, <2>2
<1>6. ~next.ok => \E c \in 1..ContainerCount : \E old \in ToSet(containers[c].items) \cup new, item \in new :
                    old.key = item.key /\ old # item
  BY <1>1, <1>3 DEF Collected
<1>7. ContainersCollected(containers, new, next, n)
  BY <1>5, <1>6 DEF ContainersCollected
<1>8. QED
  BY <1>7 DEF new, next, added

\* All containers get the mounts, or one of them has another one at a path.
LEMMA ContainersGetMounts ==
  ASSUME NEW containers \in PodContainers, NEW mounts \in Seq(AllMounts),
         \A c \in 1..ContainerCount : Distinct(containers[c])
  PROVE  LET r == MountedFirst(containers, mounts)[ContainerCount]
         IN  r \in MountResults /\ ContainersCollected(containers, ToSet(mounts), r, ContainerCount)
<1> DEFINE N == ContainerCount
           f == MountedFirst(containers, mounts)
           T == {n \in 0..N : ~ContainersCollected(containers, ToSet(mounts), f[n], n)}
<1>1. /\ N \in Nat /\ f \in [0..N -> MountResults] /\ f[0] = Ok(containers)
      /\ \A n \in 1..N : f[n] = IF ~f[n - 1].ok THEN f[n - 1]
                                ELSE [ok |-> add_volumes(containers[n], mounts).ok,
                                      value |-> [f[n - 1].value EXCEPT ![n] = add_volumes(containers[n], mounts).value]]
  BY MountedFirstStep, ConnectionConstants
<1> HIDE DEF f
<1>2. ASSUME T # {} PROVE FALSE
  <2>1. PICK n \in T : \A m \in T : n <= m
    <3>1. T \subseteq Nat
      BY <1>1
    <3> HIDE DEF T
    <3>2. QED
      BY <1>2, <3>1, LeastNumber
  <2>2. CASE n = 0
    <3>1. f[0].ok /\ f[0].value = containers
      BY <1>1 DEF Ok
    <3>2. \A c \in 1..ContainerCount : ~(c <= 0)
      OBVIOUS
    <3>3. ContainersCollected(containers, ToSet(mounts), f[0], 0)
      BY <3>1, <3>2 DEF ContainersCollected
    <3>4. QED
      BY <2>1, <2>2, <3>3
  <2>3. CASE n # 0
    <3>1. n \in 1..N /\ n - 1 \in 0..N /\ ~(n <= n - 1)
      BY <1>1, <2>3
    <3> DEFINE r == f[n - 1]
               new == ToSet(mounts)
    <3>2. ContainersCollected(containers, new, r, n - 1) /\ r \in MountResults
      BY <1>1, <2>1, <3>1
    <3>3. f[n] = IF ~r.ok THEN r
                 ELSE [ok |-> add_volumes(containers[n], mounts).ok,
                       value |-> [r.value EXCEPT ![n] = add_volumes(containers[n], mounts).value]]
      BY <1>1, <3>1
    <3> HIDE DEF r
    <3>4. CASE r.ok
      BY <2>1, <3>1, <3>2, <3>3, <3>4, OneMoreContainer
    <3>5. CASE ~r.ok
      <4>1. ContainersCollected(containers, new, r, n)
        BY <3>2, <3>5 DEF ContainersCollected
      <4>2. QED
        BY <2>1, <3>3, <3>5, <4>1
    <3>6. QED
      BY <3>4, <3>5
  <2>4. QED
    BY <2>2, <2>3
<1>3. N \in 0..N
  BY <1>1
<1>4. QED
  BY <1>1, <1>2, <1>3 DEF f

\* The volumes of a pod, its containers and their variables.
IsWiring(w) ==
  /\ w = [volumes |-> w.volumes, env |-> w.env, containers |-> w.containers]
  /\ w.volumes \in VolumeBuilders /\ Distinct(w.volumes)
  /\ w.containers \in PodContainers /\ \A c \in 1..ContainerCount : Distinct(w.containers[c])

\* What a pod has become when service s was added.
ServiceAdded(pod, s, r) ==
  /\ IsWiring(r.pod) /\ r.pod.env = pod.env /\ r.ok \in BOOLEAN
  /\ ToSet(pod.volumes.items) \subseteq ToSet(r.pod.volumes.items)
  /\ ToSet(r.pod.volumes.items) \subseteq ToSet(pod.volumes.items) \cup VolumesOf(s)
  /\ \A c \in 1..ContainerCount :
        /\ ToSet(pod.containers[c].items) \subseteq ToSet(r.pod.containers[c].items)
        /\ ToSet(r.pod.containers[c].items) \subseteq ToSet(pod.containers[c].items) \cup MountsOf(s)
  /\ r.ok => /\ VolumesOf(s) \subseteq ToSet(r.pod.volumes.items)
             /\ \A c \in 1..ContainerCount : MountsOf(s) \subseteq ToSet(r.pod.containers[c].items)
  /\ ~r.ok => \/ \E old \in ToSet(pod.volumes.items) \cup VolumesOf(s), item \in VolumesOf(s) :
                    old.key = item.key /\ old # item
              \/ \E c \in 1..ContainerCount : \E old \in ToSet(pod.containers[c].items) \cup MountsOf(s),
                                                 item \in MountsOf(s) : old.key = item.key /\ old # item

\* add_volumes_and_mounts adds all secrets of the service, or meets another use.
LEMMA ServiceIsAdded ==
  ASSUME NEW s \in Connectable, NEW pod, IsWiring(pod)
  PROVE  ServiceAdded(pod, s, add_volumes_and_mounts(pod, s))
<1> DEFINE added == volumes_and_mounts(s)
           withVolumes == add_volumes(pod.volumes, added.volumes)
           mounted == MountedFirst(pod.containers, added.mounts)[ContainerCount]
           r == add_volumes_and_mounts(pod, s)
<1>1. /\ ToSet(added.volumes) = VolumesOf(s) /\ ToSet(added.mounts) = MountsOf(s)
      /\ added.volumes \in Seq(AllVolumes) /\ added.mounts \in Seq(AllMounts)
  <2>1. /\ ToSet(added.volumes) = VolumesOf(s) /\ ToSet(added.mounts) = MountsOf(s)
        /\ added.volumes \in Seq(VolumesOf(s)) /\ added.mounts \in Seq(MountsOf(s))
    BY ServiceItems
  <2>2. VolumesOf(s) \subseteq AllVolumes /\ MountsOf(s) \subseteq AllMounts
    BY DEF AllVolumes, AllMounts
  <2>3. ASSUME NEW A, NEW C, A \subseteq C, NEW q \in Seq(A) PROVE q \in Seq(C)
    BY <2>3
  <2> HIDE DEF added
  <2>4. QED
    BY <2>1, <2>2, <2>3
<1>2. withVolumes \in Results(VolumeBuilders) /\ Collected(pod.volumes, VolumesOf(s), withVolumes)
  <2>1. Collects(VolumeBuilders, AllVolumes)
    BY RecordsCollect DEF VolumeBuilders
  <2>2. pod.volumes \in VolumeBuilders /\ Distinct(pod.volumes)
    BY DEF IsWiring
  <2> HIDE DEF added
  <2>3. withVolumes \in Results(VolumeBuilders) /\ Collected(pod.volumes, ToSet(added.volumes), withVolumes)
    BY <1>1, <2>1, <2>2, AddVolumesCollects
  <2>4. QED
    BY <1>1, <2>3
<1>3. mounted \in MountResults /\ ContainersCollected(pod.containers, MountsOf(s), mounted, ContainerCount)
  <2>1. pod.containers \in PodContainers /\ \A c \in 1..ContainerCount : Distinct(pod.containers[c])
    BY DEF IsWiring
  <2> HIDE DEF added
  <2>2. mounted \in MountResults /\ ContainersCollected(pod.containers, ToSet(added.mounts), mounted, ContainerCount)
    BY <1>1, <2>1, ContainersGetMounts
  <2>3. QED
    BY <1>1, <2>2
<1>4. r = IF ~withVolumes.ok THEN [ok |-> FALSE, pod |-> [pod EXCEPT !.volumes = withVolumes.value]]
          ELSE [ok |-> mounted.ok, pod |-> [pod EXCEPT !.volumes = withVolumes.value, !.containers = mounted.value]]
  BY DEF add_volumes_and_mounts
<1>5. withVolumes.value \in VolumeBuilders /\ withVolumes.ok \in BOOLEAN
  BY <1>2 DEF Results
<1>6. mounted.value \in PodContainers /\ mounted.ok \in BOOLEAN
  BY <1>3 DEF MountResults
<1> HIDE DEF withVolumes, mounted, r
<1>7. pod = [volumes |-> pod.volumes, env |-> pod.env, containers |-> pod.containers]
  BY DEF IsWiring
<1>8. CASE ~withVolumes.ok
  <2>1. /\ ~r.ok /\ r.ok \in BOOLEAN
        /\ r.pod = [volumes |-> withVolumes.value, env |-> pod.env, containers |-> pod.containers]
    BY <1>4, <1>7, <1>8
  <2>2. r.pod.volumes = withVolumes.value /\ r.pod.env = pod.env /\ r.pod.containers = pod.containers
    BY <2>1
  <2>3. IsWiring(r.pod)
    <3>1. Distinct(withVolumes.value)
      BY <1>2 DEF Collected
    <3>2. QED
      BY <1>5, <2>1, <2>2, <3>1 DEF IsWiring
  <2>4. /\ ToSet(pod.volumes.items) \subseteq ToSet(r.pod.volumes.items)
        /\ ToSet(r.pod.volumes.items) \subseteq ToSet(pod.volumes.items) \cup VolumesOf(s)
    BY <1>2, <2>2 DEF Collected
  <2>5. \E old \in ToSet(pod.volumes.items) \cup VolumesOf(s), item \in VolumesOf(s) :
            old.key = item.key /\ old # item
    BY <1>2, <1>8 DEF Collected
  <2>6. \A c \in 1..ContainerCount : r.pod.containers[c] = pod.containers[c]
    BY <2>2
  <2>7. ServiceAdded(pod, s, r)
    BY <2>1, <2>2, <2>3, <2>4, <2>5, <2>6 DEF ServiceAdded
  <2>8. QED
    BY <2>7 DEF r
<1>9. CASE withVolumes.ok
  <2>1. /\ r.ok = mounted.ok /\ r.ok \in BOOLEAN
        /\ r.pod = [volumes |-> withVolumes.value, env |-> pod.env, containers |-> mounted.value]
    BY <1>4, <1>6, <1>7, <1>9
  <2>2. r.pod.volumes = withVolumes.value /\ r.pod.env = pod.env /\ r.pod.containers = mounted.value
    BY <2>1
  <2>3. IsWiring(r.pod)
    <3>1. Distinct(withVolumes.value) /\ \A c \in 1..ContainerCount : Distinct(mounted.value[c])
      BY <1>2, <1>3 DEF Collected, ContainersCollected
    <3>2. QED
      BY <1>5, <1>6, <2>1, <2>2, <3>1 DEF IsWiring
  <2>4. /\ ToSet(pod.volumes.items) \subseteq ToSet(r.pod.volumes.items)
        /\ ToSet(r.pod.volumes.items) \subseteq ToSet(pod.volumes.items) \cup VolumesOf(s)
        /\ VolumesOf(s) \subseteq ToSet(r.pod.volumes.items)
    BY <1>2, <1>9, <2>2 DEF Collected
  <2>5. \A c \in 1..ContainerCount : c <= ContainerCount
    BY ConnectionConstants
  <2>6. /\ \A c \in 1..ContainerCount :
              /\ ToSet(pod.containers[c].items) \subseteq ToSet(mounted.value[c].items)
              /\ ToSet(mounted.value[c].items) \subseteq ToSet(pod.containers[c].items) \cup MountsOf(s)
              /\ mounted.ok => MountsOf(s) \subseteq ToSet(mounted.value[c].items)
        /\ ~mounted.ok => \E c \in 1..ContainerCount : \E old \in ToSet(pod.containers[c].items) \cup MountsOf(s),
                                                         item \in MountsOf(s) : old.key = item.key /\ old # item
    BY <1>3, <2>5 DEF ContainersCollected
  <2>7. r.ok = mounted.ok /\ r.ok \in BOOLEAN /\ r.pod.containers = mounted.value /\ r.pod.env = pod.env
    BY <2>1, <2>2
  <2>8. ServiceAdded(pod, s, r)
    BY <2>3, <2>4, <2>6, <2>7 DEF ServiceAdded
  <2>9. QED
    BY <2>8 DEF r
<1>10. QED
  BY <1>5, <1>8, <1>9 DEF r

(***************************************************************************)
(* The files of a service are mounted                                      *)
(***************************************************************************)
\* Two uses of secrets whose volumes or mounts collide want different secrets under
\* one path.
LEMMA UsesCollide ==
  ASSUME NEW s, NEW t, IsService(s), IsService(t), s.kind # "oidc", t.kind # "oidc",
         NEW u \in Uses(s), NEW o \in Uses(t), u.class = o.class,
         u.suffix # o.suffix \/ SecretVolume(u) # SecretVolume(o)
  PROVE  \E class \in ClassesOf(s) : \E w \in Wants(s, class), x \in Wants(t, class) : w # x
<1>1. ASSUME NEW r, IsService(r), r.kind # "oidc", NEW y \in Uses(r)
      PROVE  /\ <<y.suffix, y.scope>> \in Wants(r, y.class) /\ y.class \in ClassesOf(r)
             /\ y.parts = IF y.suffix = "ca-cert" THEN "public" ELSE "public-private"
  <2>1. CASE r.credentials # None /\ y = [class |-> r.credentials.class, suffix |-> CredentialSuffix[r.kind],
                                          scope |-> r.credentials.scope, parts |-> "public-private"]
    <3>1. /\ y.class = r.credentials.class /\ y.suffix = CredentialSuffix[r.kind]
          /\ y.scope = r.credentials.scope /\ y.parts = "public-private"
      BY <2>1
    <3>2. y.suffix # "ca-cert"
      BY <1>1, <3>1 DEF CredentialSuffix, IsService
    <3>3. <<y.suffix, y.scope>> \in Wants(r, y.class)
      BY <1>1, <2>1, <3>1 DEF Wants
    <3>4. y.class \in ClassesOf(r)
      BY <2>1, <3>1 DEF ClassesOf
    <3>5. QED
      BY <3>1, <3>2, <3>3, <3>4
  <2>2. CASE /\ tls_ca_cert_secret_class(r.tls) # None
             /\ y = [class |-> tls_ca_cert_secret_class(r.tls), suffix |-> "ca-cert",
                     scope |-> None, parts |-> "public"]
    <3>1. /\ y.class = tls_ca_cert_secret_class(r.tls) /\ y.suffix = "ca-cert"
          /\ y.scope = None /\ y.parts = "public"
      BY <2>2
    <3>2. <<y.suffix, y.scope>> \in Wants(r, y.class)
      BY <1>1, <3>1 DEF Wants
    <3>3. y.class \in ClassesOf(r)
      BY <2>2, <3>1 DEF ClassesOf
    <3>4. QED
      BY <3>1, <3>2, <3>3
  <2>3. QED
    BY <1>1, <2>1, <2>2 DEF Uses
<1>2. /\ <<u.suffix, u.scope>> \in Wants(s, u.class) /\ u.class \in ClassesOf(s)
      /\ <<o.suffix, o.scope>> \in Wants(t, u.class)
  BY <1>1
<1>3. u.suffix # o.suffix \/ u.scope # o.scope
  <2>1. ASSUME u.suffix = o.suffix, u.scope = o.scope PROVE FALSE
    <3>1. u.parts = o.parts
      BY <1>1, <2>1
    <3>2. SecretVolume(u) = SecretVolume(o)
      BY <2>1, <3>1 DEF SecretVolume
    <3>3. QED
      BY <2>1, <3>2
  <2>2. QED
    BY <2>1
<1>4. <<u.suffix, u.scope>> # <<o.suffix, o.scope>>
  BY <1>3
<1>5. QED
  BY <1>2, <1>4

\* A service at a place among the connections.
IsServiceAt(q, i) == q[i].what = "service" /\ q[i].with.kind # "oidc"

\* Services that were added have their volumes and mounts.
Provided(w, q) ==
  \A i \in 1..Len(q) : (IsServiceAt(q, i) /\ q[i].ok) =>
    /\ VolumesOf(q[i].with) \subseteq ToSet(w.volumes.items)
    /\ \A c \in 1..ContainerCount : MountsOf(q[i].with) \subseteq ToSet(w.containers[c].items)

\* Every volume and every mount is there for a service.
Needed(w, q) ==
  /\ \A v \in ToSet(w.volumes.items) :
        \E i \in 1..Len(q) : IsServiceAt(q, i) /\ v \in VolumesOf(q[i].with)
  /\ \A c \in 1..ContainerCount : \A m \in ToSet(w.containers[c].items) :
        \E i \in 1..Len(q) : IsServiceAt(q, i) /\ m \in MountsOf(q[i].with)

\* Every variable of a database is there, and every variable is one of a database.
VariablesOf(env, q) ==
  /\ \A i \in 1..Len(q) : q[i].what = "database" =>
        \A v \in connection_details(q[i].with).envs : v.name \in DOMAIN env
  /\ \A n \in DOMAIN env :
        \E i \in 1..Len(q) : /\ q[i].what = "database" /\ q[i].ok
                             /\ env[n] \in connection_details(q[i].with).envs /\ env[n].name = n

ConnectionResults ==
  [what : {"service", "unresolved", "database"},
   with : Connectable \cup Resources.references \cup Databases, ok : BOOLEAN]

\* The inductive invariant.
ConnectionInv ==
  /\ connected \in Seq(ConnectionResults)
  /\ \A i \in 1..Len(connected) : connected[i].what = "service" => connected[i].with \in Connectable
  /\ IsWiring(wiring)
  /\ Provided(wiring, connected) /\ Needed(wiring, connected)
  /\ VariablesOf(wiring.env, connected)
  /\ FailsOnlyOnConflict

\* One more connection leaves the earlier ones as they are.
LEMMA OneMoreConnection ==
  ASSUME connected \in Seq(ConnectionResults), NEW x \in ConnectionResults, connected' = Append(connected, x)
  PROVE  /\ connected' \in Seq(ConnectionResults) /\ Len(connected) \in Nat
         /\ Len(connected') = Len(connected) + 1 /\ connected'[Len(connected) + 1] = x
         /\ \A i \in 1..Len(connected) : connected'[i] = connected[i] /\ i \in 1..Len(connected')
         /\ \A i \in 1..Len(connected') : i \in 1..Len(connected) \/ i = Len(connected) + 1
         /\ Len(connected) + 1 \in 1..Len(connected')
<1>1. /\ connected' \in Seq(ConnectionResults) /\ Len(connected) \in Nat
      /\ Len(connected') = Len(connected) + 1 /\ connected'[Len(connected) + 1] = x
  OBVIOUS
<1>2. \A i \in 1..Len(connected) : connected'[i] = connected[i]
  OBVIOUS
<1>3. QED
  BY <1>1, <1>2

\* Failures among the earlier connections stay explained.
LEMMA EarlierFailures ==
  ASSUME connected \in Seq(ConnectionResults), NEW x \in ConnectionResults, connected' = Append(connected, x),
         FailsOnlyOnConflict, NEW i \in 1..Len(connected),
         connected'[i].what = "service", ~connected'[i].ok
  PROVE  \E j \in 1..i :
           /\ connected'[j].what = "service"
           /\ \E class \in ClassesOf(connected'[i].with) :
                 \E w \in Wants(connected'[i].with, class), o \in Wants(connected'[j].with, class) : w # o
<1>1. /\ Len(connected) \in Nat /\ DOMAIN connected = 1..Len(connected)
      /\ \A j \in 1..Len(connected) : connected'[j] = connected[j]
  BY OneMoreConnection
<1>2. 1..i \subseteq 1..Len(connected)
  BY <1>1
<1>3. PICK j \in 1..i :
           /\ connected[j].what = "service"
           /\ \E class \in ClassesOf(connected[i].with) :
                 \E w \in Wants(connected[i].with, class), o \in Wants(connected[j].with, class) : w # o
  <2>1. i \in DOMAIN connected /\ connected[i].what = "service" /\ ~connected[i].ok
    BY <1>1
  <2>2. QED
    BY <2>1, Zenon DEF FailsOnlyOnConflict
<1>4. connected'[j] = connected[j] /\ connected'[i] = connected[i]
  BY <1>1, <1>2
<1>5. /\ connected'[j].what = "service"
      /\ \E class \in ClassesOf(connected'[i].with) :
            \E w \in Wants(connected'[i].with, class), o \in Wants(connected'[j].with, class) : w # o
  <2> DEFINE P(s, t) == \E class \in ClassesOf(s) : \E w \in Wants(s, class), o \in Wants(t, class) : w # o
  <2>1. P(connected[i].with, connected[j].with)
    BY <1>3
  <2> HIDE DEF P
  <2>2. P(connected'[i].with, connected'[j].with)
    BY <1>4, <2>1
  <2>3. QED
    BY <1>3, <1>4, <2>2 DEF P
<1>6. QED
  BY <1>5

\* Something that adds no volumes, mounts or failed services keeps what is known of them.
LEMMA ServicesStay ==
  ASSUME ConnectionInv, NEW x \in ConnectionResults, connected' = Append(connected, x),
         x.what = "service" => x.with \in Connectable /\ x.with.kind = "oidc" /\ x.ok,
         IsWiring(wiring'), wiring'.volumes = wiring.volumes, wiring'.containers = wiring.containers
  PROVE  /\ connected' \in Seq(ConnectionResults)
         /\ \A i \in 1..Len(connected') : connected'[i].what = "service" => connected'[i].with \in Connectable
         /\ Provided(wiring', connected') /\ Needed(wiring', connected')
         /\ FailsOnlyOnConflict'
<1> DEFINE n == Len(connected)
<1>1. connected \in Seq(ConnectionResults)
  BY DEF ConnectionInv
<1>2. /\ connected' \in Seq(ConnectionResults) /\ n \in Nat
      /\ Len(connected') = n + 1 /\ connected'[n + 1] = x
      /\ \A i \in 1..n : connected'[i] = connected[i] /\ i \in 1..Len(connected')
      /\ \A i \in 1..Len(connected') : i \in 1..n \/ i = n + 1
  BY <1>1, OneMoreConnection
<1> HIDE DEF n
<1>3. ~IsServiceAt(connected', n + 1)
  BY <1>2 DEF IsServiceAt
<1>4. \A i \in 1..n : IsServiceAt(connected', i) <=> IsServiceAt(connected, i)
  BY <1>2 DEF IsServiceAt
<1>5. \A i \in 1..Len(connected') : connected'[i].what = "service" => connected'[i].with \in Connectable
  BY <1>2 DEF ConnectionInv, n
<1>6. Provided(wiring', connected')
  <2>1. SUFFICES ASSUME NEW i \in 1..Len(connected'), IsServiceAt(connected', i), connected'[i].ok
                 PROVE  /\ VolumesOf(connected'[i].with) \subseteq ToSet(wiring.volumes.items)
                        /\ \A c \in 1..ContainerCount : MountsOf(connected'[i].with) \subseteq ToSet(wiring.containers[c].items)
    BY DEF Provided
  <2>2. i \in 1..n
    BY <1>2, <1>3, <2>1
  <2>3. connected'[i] = connected[i] /\ IsServiceAt(connected, i)
    BY <1>2, <1>4, <2>1, <2>2
  <2>4. QED
    BY <2>1, <2>2, <2>3 DEF ConnectionInv, Provided, n
<1>7. Needed(wiring', connected')
  <2>1. ASSUME NEW v \in ToSet(wiring.volumes.items)
        PROVE  \E i \in 1..Len(connected') : IsServiceAt(connected', i) /\ v \in VolumesOf(connected'[i].with)
    <3>1. PICK i \in 1..n : IsServiceAt(connected, i) /\ v \in VolumesOf(connected[i].with)
      BY DEF ConnectionInv, Needed, n
    <3>2. QED
      BY <1>2, <1>4, <3>1
  <2>2. ASSUME NEW c \in 1..ContainerCount, NEW m \in ToSet(wiring.containers[c].items)
        PROVE  \E i \in 1..Len(connected') : IsServiceAt(connected', i) /\ m \in MountsOf(connected'[i].with)
    <3>1. PICK i \in 1..n : IsServiceAt(connected, i) /\ m \in MountsOf(connected[i].with)
      BY DEF ConnectionInv, Needed, n
    <3>2. QED
      BY <1>2, <1>4, <3>1
  <2>3. QED
    BY <2>1, <2>2 DEF Needed
<1>8. FailsOnlyOnConflict'
  <2>1. SUFFICES ASSUME NEW i \in DOMAIN connected', connected'[i].what = "service", ~connected'[i].ok
                 PROVE  \E j \in 1..i :
                           /\ connected'[j].what = "service"
                           /\ \E class \in ClassesOf(connected'[i].with) :
                                 \E w \in Wants(connected'[i].with, class), o \in Wants(connected'[j].with, class) : w # o
    BY DEF FailsOnlyOnConflict
  <2>2. i \in 1..Len(connected')
    BY <1>2
  <2>3. i \in 1..n
    BY <1>2, <2>1, <2>2
  <2>4. FailsOnlyOnConflict
    BY DEF ConnectionInv
  <2>5. QED
    BY <1>1, <2>1, <2>3, <2>4, EarlierFailures DEF n
<1>9. QED
  BY <1>2, <1>5, <1>6, <1>7, <1>8

\* The variables are still those of databases if nothing was added to them.
LEMMA VariablesStay ==
  ASSUME ConnectionInv, NEW x \in ConnectionResults, connected' = Append(connected, x),
         x.what # "database", wiring'.env = wiring.env
  PROVE  VariablesOf(wiring'.env, connected')
<1> DEFINE n == Len(connected)
<1>1. connected \in Seq(ConnectionResults)
  BY DEF ConnectionInv
<1>2. /\ connected'[n + 1] = x
      /\ \A i \in 1..n : connected'[i] = connected[i] /\ i \in 1..Len(connected')
      /\ \A i \in 1..Len(connected') : i \in 1..n \/ i = n + 1
  BY <1>1, OneMoreConnection
<1>3. VariablesOf(wiring.env, connected)
  BY DEF ConnectionInv
<1> HIDE DEF n
<1>4. ASSUME NEW i \in 1..Len(connected'), connected'[i].what = "database",
             NEW v \in connection_details(connected'[i].with).envs
      PROVE  v.name \in DOMAIN wiring.env
  <2>1. i \in 1..n /\ connected'[i] = connected[i]
    BY <1>2, <1>4
  <2>2. QED
    BY <1>3, <1>4, <2>1 DEF VariablesOf, n
<1>5. ASSUME NEW k \in DOMAIN wiring.env
      PROVE  \E i \in 1..Len(connected') :
               /\ connected'[i].what = "database" /\ connected'[i].ok
               /\ wiring.env[k] \in connection_details(connected'[i].with).envs /\ wiring.env[k].name = k
  <2>1. PICK i \in 1..n : /\ connected[i].what = "database" /\ connected[i].ok
                          /\ wiring.env[k] \in connection_details(connected[i].with).envs /\ wiring.env[k].name = k
    BY <1>3 DEF VariablesOf, n
  <2>2. i \in 1..Len(connected') /\ connected'[i] = connected[i]
    BY <1>2
  <2>3. QED
    BY <2>1, <2>2
<1>6. QED
  BY <1>4, <1>5 DEF VariablesOf

\* Connecting a service.
LEMMA ConnectServiceStep ==
  ASSUME ConnectionInv, NEW s \in Connectable, ConnectService(s)
  PROVE  ConnectionInv'
<1>1. CASE s.kind = "oidc"
  <2> DEFINE x == [what |-> "service", with |-> s, ok |-> TRUE]
  <2>1. wiring' = wiring /\ connected' = Append(connected, x)
    BY <1>1 DEF ConnectService
  <2>2. x \in ConnectionResults /\ x.what = "service" /\ x.with = s /\ x.ok
    BY DEF ConnectionResults
  <2>3. IsWiring(wiring') /\ wiring'.volumes = wiring.volumes /\ wiring'.containers = wiring.containers
        /\ wiring'.env = wiring.env
    BY <2>1 DEF ConnectionInv
  <2> HIDE DEF x
  <2>4. x.what # "database"
    BY <2>2
  <2>5. QED
    BY <1>1, <2>1, <2>2, <2>3, <2>4, ServicesStay, VariablesStay DEF ConnectionInv
<1>2. CASE s.kind # "oidc"
  <2> DEFINE r == add_volumes_and_mounts(wiring, s)
             x == [what |-> "service", with |-> s, ok |-> r.ok]
             n == Len(connected)
  <2>0. connected \in Seq(ConnectionResults) /\ IsWiring(wiring)
    BY DEF ConnectionInv
  <2>1. wiring' = r.pod /\ connected' = Append(connected, x)
    BY <1>2 DEF ConnectService
  <2>2. ServiceAdded(wiring, s, r)
    BY <2>0, ServiceIsAdded
  <2> HIDE DEF r
  <2>3. x \in ConnectionResults /\ x.what = "service" /\ x.with = s /\ x.ok = r.ok
    BY <2>2 DEF ConnectionResults, ServiceAdded
  <2> HIDE DEF x
  <2>4. /\ connected' \in Seq(ConnectionResults) /\ n \in Nat
        /\ Len(connected') = n + 1 /\ connected'[n + 1] = x
        /\ \A i \in 1..n : connected'[i] = connected[i] /\ i \in 1..Len(connected')
        /\ \A i \in 1..Len(connected') : i \in 1..n \/ i = n + 1
        /\ n + 1 \in 1..Len(connected')
    BY <2>0, <2>1, <2>3, OneMoreConnection
  <2> HIDE DEF n
  <2>5. IsServiceAt(connected', n + 1)
    BY <1>2, <2>3, <2>4 DEF IsServiceAt
  <2>6. \A i \in 1..n : IsServiceAt(connected', i) <=> IsServiceAt(connected, i)
    BY <2>4 DEF IsServiceAt
  <2>7. \A i \in 1..Len(connected') : connected'[i].what = "service" => connected'[i].with \in Connectable
    BY <2>3, <2>4 DEF ConnectionInv, n
  <2>8. Provided(wiring', connected')
    <3>1. SUFFICES ASSUME NEW i \in 1..Len(connected'), IsServiceAt(connected', i), connected'[i].ok
                   PROVE  /\ VolumesOf(connected'[i].with) \subseteq ToSet(r.pod.volumes.items)
                          /\ \A c \in 1..ContainerCount :
                                MountsOf(connected'[i].with) \subseteq ToSet(r.pod.containers[c].items)
      BY <2>1 DEF Provided
    <3>2. CASE i \in 1..n
      <4>1. connected'[i] = connected[i] /\ IsServiceAt(connected, i) /\ connected[i].ok
        BY <2>4, <2>6, <3>1, <3>2
      <4>2. /\ VolumesOf(connected[i].with) \subseteq ToSet(wiring.volumes.items)
            /\ \A c \in 1..ContainerCount : MountsOf(connected[i].with) \subseteq ToSet(wiring.containers[c].items)
        BY <3>2, <4>1 DEF ConnectionInv, Provided, n
      <4>3. QED
        BY <2>2, <4>1, <4>2 DEF ServiceAdded
    <3>3. CASE i = n + 1
      <4>1. connected'[i].with = s /\ r.ok
        BY <2>3, <2>4, <3>1, <3>3
      <4>2. QED
        BY <2>2, <4>1 DEF ServiceAdded
    <3>4. QED
      BY <2>4, <3>2, <3>3
  <2>9. /\ \A v \in ToSet(wiring.volumes.items) \cup VolumesOf(s) :
              \E i \in 1..Len(connected') : IsServiceAt(connected', i) /\ v \in VolumesOf(connected'[i].with)
        /\ \A c \in 1..ContainerCount : \A m \in ToSet(wiring.containers[c].items) \cup MountsOf(s) :
              \E i \in 1..Len(connected') : IsServiceAt(connected', i) /\ m \in MountsOf(connected'[i].with)
    <3>1. connected'[n + 1].with = s
      BY <2>3, <2>4
    <3>2. ASSUME NEW v \in ToSet(wiring.volumes.items) \cup VolumesOf(s)
          PROVE  \E i \in 1..Len(connected') : IsServiceAt(connected', i) /\ v \in VolumesOf(connected'[i].with)
      <4>1. CASE v \in VolumesOf(s)
        BY <2>4, <2>5, <3>1, <4>1
      <4>2. CASE v \in ToSet(wiring.volumes.items)
        <5>1. PICK i \in 1..n : IsServiceAt(connected, i) /\ v \in VolumesOf(connected[i].with)
          BY <4>2 DEF ConnectionInv, Needed, n
        <5>2. QED
          BY <2>4, <2>6, <5>1
      <4>3. QED
        BY <4>1, <4>2
    <3>3. ASSUME NEW c \in 1..ContainerCount, NEW m \in ToSet(wiring.containers[c].items) \cup MountsOf(s)
          PROVE  \E i \in 1..Len(connected') : IsServiceAt(connected', i) /\ m \in MountsOf(connected'[i].with)
      <4>1. CASE m \in MountsOf(s)
        BY <2>4, <2>5, <3>1, <4>1
      <4>2. CASE m \in ToSet(wiring.containers[c].items)
        <5>1. PICK i \in 1..n : IsServiceAt(connected, i) /\ m \in MountsOf(connected[i].with)
          BY <4>2 DEF ConnectionInv, Needed, n
        <5>2. QED
          BY <2>4, <2>6, <5>1
      <4>3. QED
        BY <4>1, <4>2
    <3>4. QED
      BY <3>2, <3>3
  <2>10. Needed(wiring', connected')
    <3>1. /\ ToSet(wiring'.volumes.items) \subseteq ToSet(wiring.volumes.items) \cup VolumesOf(s)
          /\ \A c \in 1..ContainerCount :
                ToSet(wiring'.containers[c].items) \subseteq ToSet(wiring.containers[c].items) \cup MountsOf(s)
      BY <2>1, <2>2 DEF ServiceAdded
    <3>2. QED
      BY <2>9, <3>1 DEF Needed
  <2>11. FailsOnlyOnConflict'
    <3>1. SUFFICES ASSUME NEW i \in DOMAIN connected', connected'[i].what = "service", ~connected'[i].ok
                   PROVE  \E j \in 1..i :
                             /\ connected'[j].what = "service"
                             /\ \E class \in ClassesOf(connected'[i].with) :
                                   \E w \in Wants(connected'[i].with, class), o \in Wants(connected'[j].with, class) : w # o
      BY DEF FailsOnlyOnConflict
    <3>2. i \in 1..Len(connected')
      BY <2>4
    <3>3. CASE i \in 1..n
      <4>1. FailsOnlyOnConflict
        BY DEF ConnectionInv
      <4>2. QED
        BY <2>0, <2>1, <2>3, <3>1, <3>3, <4>1, EarlierFailures DEF n
    <3>4. CASE i = n + 1
      <4>1. connected'[i].with = s /\ ~r.ok /\ 1..i = 1..Len(connected')
        BY <2>3, <2>4, <3>1, <3>4
      <4>2. ASSUME NEW j \in 1..i, IsServiceAt(connected', j),
                   \E class \in ClassesOf(s) :
                      \E w \in Wants(s, class), o \in Wants(connected'[j].with, class) : w # o
            PROVE  \E k \in 1..i :
                      /\ connected'[k].what = "service"
                      /\ \E class \in ClassesOf(connected'[i].with) :
                            \E w \in Wants(connected'[i].with, class), o \in Wants(connected'[k].with, class) : w # o
        BY <4>1, <4>2 DEF IsServiceAt
      <4>3. ASSUME NEW j \in 1..i, IsServiceAt(connected', j)
            PROVE  IsService(s) /\ IsService(connected'[j].with) /\ connected'[j].with.kind # "oidc"
        BY <2>7, <4>1, <4>3, ConnectableIsService DEF IsServiceAt
      <4>4. CASE \E old \in ToSet(wiring.volumes.items) \cup VolumesOf(s), item \in VolumesOf(s) :
                    old.key = item.key /\ old # item
        <5>1. PICK old \in ToSet(wiring.volumes.items) \cup VolumesOf(s), item \in VolumesOf(s) :
                     old.key = item.key /\ old # item
          BY <4>4
        <5>2. PICK j \in 1..i : IsServiceAt(connected', j) /\ old \in VolumesOf(connected'[j].with)
          BY <2>9, <4>1
        <5> DEFINE t == connected'[j].with
        <5>3. PICK u \in Uses(s) : item = SecretVolume(u)
          BY DEF VolumesOf
        <5>4. PICK o \in Uses(t) : old = SecretVolume(o)
          BY <5>2 DEF VolumesOf
        <5>5. u.class = o.class
          BY <5>1, <5>3, <5>4 DEF SecretVolume
        <5>6. IsService(s) /\ IsService(t) /\ t.kind # "oidc"
          BY <4>3, <5>2
        <5> HIDE DEF t
        <5>7. \E class \in ClassesOf(s) : \E w \in Wants(s, class), y \in Wants(t, class) : w # y
          BY <1>2, <5>1, <5>3, <5>4, <5>5, <5>6, UsesCollide
        <5>8. QED
          BY <4>2, <5>2, <5>7 DEF t
      <4>5. CASE \E c \in 1..ContainerCount : \E old \in ToSet(wiring.containers[c].items) \cup MountsOf(s),
                                                 item \in MountsOf(s) : old.key = item.key /\ old # item
        <5>1. PICK c \in 1..ContainerCount : \E old \in ToSet(wiring.containers[c].items) \cup MountsOf(s),
                                                 item \in MountsOf(s) : old.key = item.key /\ old # item
          BY <4>5
        <5>2. PICK old \in ToSet(wiring.containers[c].items) \cup MountsOf(s), item \in MountsOf(s) :
                     old.key = item.key /\ old # item
          BY <5>1
        <5>3. PICK j \in 1..i : IsServiceAt(connected', j) /\ old \in MountsOf(connected'[j].with)
          BY <2>9, <4>1
        <5> DEFINE t == connected'[j].with
        <5>4. PICK u \in Uses(s) : item = SecretMount(u)
          BY DEF MountsOf
        <5>5. PICK o \in Uses(t) : old = SecretMount(o)
          BY <5>3 DEF MountsOf
        <5>6. u.class = o.class
          BY <5>2, <5>4, <5>5 DEF SecretMount, SecretPath
        <5>7. u.suffix # o.suffix
          BY <5>2, <5>4, <5>5, <5>6 DEF SecretMount
        <5>8. IsService(s) /\ IsService(t) /\ t.kind # "oidc"
          BY <4>3, <5>3
        <5> HIDE DEF t
        <5>9. \E class \in ClassesOf(s) : \E w \in Wants(s, class), y \in Wants(t, class) : w # y
          BY <1>2, <5>6, <5>7, <5>8, UsesCollide
        <5>10. QED
          BY <4>2, <5>3, <5>9 DEF t
      <4>6. QED
        BY <2>2, <4>1, <4>4, <4>5 DEF ServiceAdded
    <3>5. QED
      BY <2>4, <3>2, <3>3, <3>4
  <2>12. VariablesOf(wiring'.env, connected')
    <3>1. wiring'.env = wiring.env
      BY <2>1, <2>2 DEF ServiceAdded
    <3>2. x.what # "database"
      BY <2>3
    <3>3. QED
      BY <2>1, <2>3, <3>1, <3>2, VariablesStay
  <2>13. IsWiring(wiring')
    BY <2>1, <2>2 DEF ServiceAdded
  <2>14. QED
    BY <2>4, <2>7, <2>8, <2>10, <2>11, <2>12, <2>13 DEF ConnectionInv
<1>3. QED
  BY <1>1, <1>2

\* The variables of a database.
LEMMA DatabaseVariables ==
  ASSUME NEW d, NEW v \in connection_details(d).envs
  PROVE  /\ v.name[1] = Uppercase(d.name) /\ v.secret = d.secret
         /\ \A w \in connection_details(d).envs : w.name = v.name => w = v
<1>1. ASSUME NEW n, NEW secret
      PROVE  username_and_password_envs(n, secret) =
               {[name |-> <<Uppercase(n), k>>, secret |-> secret, key |-> k] : k \in {"username", "password"}}
  BY DEF username_and_password_envs, env_var_with_value_from_secret
<1>2. \/ connection_details(d).envs = {}
      \/ connection_details(d).envs = username_and_password_envs(d.name, d.secret)
      \/ connection_details(d).envs = {[name |-> <<Uppercase(d.name), "url">>, secret |-> d.secret, key |-> "connectionUrl"]}
  BY DEF connection_details, derby_connection_details, jdbc_connection_details, generic_connection_details,
         templated_connection_details, env_var_with_value_from_secret
<1>3. CASE connection_details(d).envs = username_and_password_envs(d.name, d.secret)
  BY <1>1, <1>3
<1>4. CASE connection_details(d).envs = {[name |-> <<Uppercase(d.name), "url">>, secret |-> d.secret, key |-> "connectionUrl"]}
  BY <1>4
<1>5. QED
  BY <1>2, <1>3, <1>4

\* Connecting a database.
LEMMA ConnectDatabaseStep ==
  ASSUME ConnectionInv, NEW d \in Databases, ConnectDatabase(d)
  PROVE  ConnectionInv'
<1> DEFINE x == [what |-> "database", with |-> d, ok |-> TRUE]
           envs == connection_details(d).envs
           added == [k \in {e.name : e \in envs} |-> CHOOSE e \in envs : e.name = k]
           n == Len(connected)
<1>0. connected \in Seq(ConnectionResults)
  BY DEF ConnectionInv
<1>1. connected' = Append(connected, x) /\ x \in ConnectionResults
  BY DEF ConnectDatabase, ConnectionResults
<1>2. x.what = "database" /\ x.with = d /\ x.ok
  OBVIOUS
<1>3. wiring' = [volumes |-> wiring.volumes, env |-> Overlay(wiring.env, added), containers |-> wiring.containers]
  <2>1. wiring' = [wiring EXCEPT !.env = add_to_container(wiring.env, connection_details(d))]
    BY DEF ConnectDatabase
  <2>2. add_to_container(wiring.env, connection_details(d)) = Overlay(wiring.env, added)
    BY DEF add_to_container
  <2>3. wiring = [volumes |-> wiring.volumes, env |-> wiring.env, containers |-> wiring.containers]
    BY DEF ConnectionInv, IsWiring
  <2> HIDE DEF added
  <2>4. QED
    BY <2>1, <2>2, <2>3
<1> DEFINE env == Overlay(wiring.env, added)
<1>4. /\ DOMAIN env = DOMAIN wiring.env \cup {e.name : e \in envs}
      /\ \A k \in DOMAIN env : env[k] = IF k \in {e.name : e \in envs} THEN added[k] ELSE wiring.env[k]
  <2>1. DOMAIN added = {e.name : e \in envs}
    OBVIOUS
  <2> HIDE DEF added
  <2>2. QED
    BY <2>1 DEF Overlay
<1>5. \A k \in {e.name : e \in envs} : added[k] \in envs /\ added[k].name = k
  OBVIOUS
<1> HIDE DEF x, added, env, envs
<1>6. /\ wiring'.volumes = wiring.volumes /\ wiring'.containers = wiring.containers /\ wiring'.env = env
      /\ wiring' = [volumes |-> wiring'.volumes, env |-> wiring'.env, containers |-> wiring'.containers]
  BY <1>3 DEF env
<1>7. IsWiring(wiring')
  BY <1>6 DEF IsWiring, ConnectionInv
<1>8. /\ connected'[n + 1] = x
      /\ \A i \in 1..n : connected'[i] = connected[i] /\ i \in 1..Len(connected')
      /\ \A i \in 1..Len(connected') : i \in 1..n \/ i = n + 1
      /\ n + 1 \in 1..Len(connected')
  BY <1>0, <1>1, OneMoreConnection
<1> HIDE DEF n
<1>9. VariablesOf(wiring.env, connected)
  BY DEF ConnectionInv
<1>10. ASSUME NEW i \in 1..Len(connected'), connected'[i].what = "database",
              NEW v \in connection_details(connected'[i].with).envs
       PROVE  v.name \in DOMAIN env
  <2>1. CASE i = n + 1
    BY <1>2, <1>4, <1>8, <1>10, <2>1 DEF envs
  <2>2. CASE i \in 1..n
    <3>1. v.name \in DOMAIN wiring.env
      BY <1>8, <1>9, <1>10, <2>2 DEF VariablesOf, n
    <3>2. QED
      BY <1>4, <3>1
  <2>3. QED
    BY <1>8, <2>1, <2>2
<1>11. ASSUME NEW k \in DOMAIN env
       PROVE  \E i \in 1..Len(connected') :
                /\ connected'[i].what = "database" /\ connected'[i].ok
                /\ env[k] \in connection_details(connected'[i].with).envs /\ env[k].name = k
  <2>1. CASE k \in {e.name : e \in envs}
    <3>1. env[k] \in connection_details(d).envs /\ env[k].name = k
      BY <1>4, <1>5, <2>1 DEF envs
    <3>2. QED
      BY <1>2, <1>8, <3>1
  <2>2. CASE k \notin {e.name : e \in envs}
    <3>1. k \in DOMAIN wiring.env /\ env[k] = wiring.env[k]
      BY <1>4, <2>2
    <3>2. PICK i \in 1..n : /\ connected[i].what = "database" /\ connected[i].ok
                            /\ wiring.env[k] \in connection_details(connected[i].with).envs /\ wiring.env[k].name = k
      BY <1>9, <3>1 DEF VariablesOf, n
    <3>3. i \in 1..Len(connected') /\ connected'[i] = connected[i]
      BY <1>8
    <3>4. QED
      BY <3>1, <3>2, <3>3
  <2>3. QED
    BY <2>1, <2>2
<1>12. VariablesOf(wiring'.env, connected')
  <2>1. VariablesOf(env, connected')
    BY <1>10, <1>11 DEF VariablesOf
  <2>2. QED
    BY <1>6, <2>1
<1>13. x.what # "service"
  BY <1>2
<1>14. QED
  BY <1>1, <1>6, <1>7, <1>12, <1>13, ServicesStay DEF ConnectionInv

\* The invariant holds in every behaviour.
LEMMA ConnectionInvariant == ConnectionSpec => []ConnectionInv
<1>1. ConnectionInit => ConnectionInv
  <2> SUFFICES ASSUME ConnectionInit PROVE ConnectionInv
    OBVIOUS
  <2>1. /\ connected = <<>> /\ Len(connected) = 0 /\ connected \in Seq(ConnectionResults)
        /\ DOMAIN connected = {} /\ 1..Len(connected) = {}
    BY DEF ConnectionInit
  <2>2. /\ wiring.volumes = [items |-> <<>>] /\ wiring.env = <<>>
        /\ wiring.containers = [c \in 1..ContainerCount |-> [items |-> <<>>]]
        /\ wiring = [volumes |-> wiring.volumes, env |-> wiring.env, containers |-> wiring.containers]
    BY DEF ConnectionInit
  <2>3. /\ [items |-> <<>>] \in VolumeBuilders /\ [items |-> <<>>] \in MountBuilders
        /\ Distinct([items |-> <<>>]) /\ ToSet(<<>>) = {}
    <3>1. <<>> \in Seq(AllVolumes) /\ <<>> \in Seq(AllMounts) /\ DOMAIN <<>> = {}
      OBVIOUS
    <3>2. QED
      BY <3>1 DEF VolumeBuilders, MountBuilders, Distinct, ToSet
  <2>4. IsWiring(wiring)
    BY <2>2, <2>3 DEF IsWiring, PodContainers
  <2>5. Needed(wiring, connected)
    BY <2>2, <2>3 DEF Needed
  <2>6. Provided(wiring, connected)
    BY <2>1 DEF Provided
  <2>7. VariablesOf(wiring.env, connected)
    <3>1. DOMAIN wiring.env = {}
      BY <2>2
    <3>2. QED
      BY <2>1, <3>1 DEF VariablesOf
  <2>8. FailsOnlyOnConflict
    BY <2>1 DEF FailsOnlyOnConflict
  <2>9. QED
    BY <2>1, <2>4, <2>5, <2>6, <2>7, <2>8 DEF ConnectionInv
<1>2. ConnectionInv /\ [ConnectionNext]_connectionVars => ConnectionInv'
  <2> SUFFICES ASSUME ConnectionInv, [ConnectionNext]_connectionVars PROVE ConnectionInv'
    OBVIOUS
  <2>1. CASE UNCHANGED connectionVars
    BY <2>1 DEF connectionVars, ConnectionInv, FailsOnlyOnConflict
  <2>2. ASSUME NEW s \in Services, ConnectService(s) PROVE ConnectionInv'
    BY <2>2, ConnectServiceStep DEF Connectable
  <2>3. ASSUME NEW d \in Databases, ConnectDatabase(d) PROVE ConnectionInv'
    BY <2>3, ConnectDatabaseStep
  <2>4. ASSUME NEW b \in Resources.references, ConnectBucket(b) PROVE ConnectionInv'
    <3>1. CASE resolve_bucket(b).ok
      <4>1. resolve_bucket(b).value \in Connectable
        BY <3>1 DEF Connectable
      <4>2. ConnectService(resolve_bucket(b).value)
        BY <2>4, <3>1 DEF ConnectBucket
      <4>3. QED
        BY <4>1, <4>2, ConnectServiceStep
    <3>2. CASE ~resolve_bucket(b).ok
      <4> DEFINE x == [what |-> "unresolved", with |-> b, ok |-> FALSE]
      <4>1. wiring' = wiring /\ connected' = Append(connected, x)
        BY <2>4, <3>2 DEF ConnectBucket
      <4>2. x \in ConnectionResults
        BY DEF ConnectionResults
      <4>3. x.what # "service" /\ x.what # "database"
        OBVIOUS
      <4> HIDE DEF x
      <4>4. IsWiring(wiring') /\ wiring'.volumes = wiring.volumes /\ wiring'.containers = wiring.containers
            /\ wiring'.env = wiring.env
        BY <4>1 DEF ConnectionInv
      <4>5. QED
        BY <4>1, <4>2, <4>3, <4>4, ServicesStay, VariablesStay DEF ConnectionInv
    <3>3. QED
      BY <3>1, <3>2
  <2>5. QED
    BY <2>1, <2>2, <2>3, <2>4 DEF ConnectionNext
<1>3. QED
  BY <1>1, <1>2, PTL DEF ConnectionSpec

(***************************************************************************)
(* What follows from it                                                    *)
(***************************************************************************)
\* Where a container has the volume and the mount of a secret, it sees this secret
\* under its path.
LEMMA SecretIsMounted ==
  ASSUME IsWiring(wiring), NEW c \in 1..ContainerCount, NEW u,
         SecretVolume(u) \in ToSet(wiring.volumes.items), SecretMount(u) \in ToSet(wiring.containers[c].items)
  PROVE  Mounted(c, SecretPath(u.class)) = {[class |-> u.class, scope |-> u.scope, parts |-> u.parts]}
<1> DEFINE v == SecretVolume(u)
           m == SecretMount(u)
           content == [class |-> u.class, scope |-> u.scope, parts |-> u.parts]
<1>1. v.key = <<u.class, u.suffix>> /\ v.content = <<content>> /\ v.content[1] = content
  BY DEF SecretVolume
<1>2. m.key = SecretPath(u.class) /\ m.content = <<<<u.class, u.suffix>>, <<>>>> /\ m.content[1] = v.key
  BY <1>1 DEF SecretMount
<1> HIDE DEF v, m, content
<1>3. ASSUME NEW b, Distinct(b), NEW x \in ToSet(b.items), NEW y \in ToSet(b.items), x.key = y.key PROVE x = y
  BY <1>3 DEF Distinct, ToSet
<1>4. Distinct(wiring.volumes) /\ Distinct(wiring.containers[c])
  BY DEF IsWiring
<1>5. v \in ToSet(wiring.volumes.items) /\ m \in ToSet(wiring.containers[c].items)
  BY DEF v, m
<1>6. ASSUME NEW w \in ToSet(wiring.volumes.items), NEW k \in ToSet(wiring.containers[c].items),
             k.key = SecretPath(u.class), k.content[1] = w.key
      PROVE  w = v
  <2>1. k = m
    BY <1>2, <1>3, <1>4, <1>5, <1>6
  <2>2. w.key = v.key
    BY <1>2, <1>6, <2>1
  <2>3. QED
    BY <1>3, <1>4, <1>5, <2>2
<1> DEFINE seen == {w \in ToSet(wiring.volumes.items) :
                      \E k \in ToSet(wiring.containers[c].items) : k.key = SecretPath(u.class) /\ k.content[1] = w.key}
<1>7. seen = {v}
  BY <1>2, <1>5, <1>6
<1>8. Mounted(c, SecretPath(u.class)) = {w.content[1] : w \in seen}
  BY DEF Mounted
<1> HIDE DEF seen
<1>9. QED
  BY <1>1, <1>7, <1>8 DEF content

\* Services have their files.
LEMMA FilesFollow == ConnectionInv => FilesAreMounted
<1> SUFFICES ASSUME ConnectionInv, NEW s \in ConnectedAll("service"), NEW c \in 1..ContainerCount, s.kind # "oidc"
             PROVE  /\ \A p \in credentials_mount_paths(s) :
                          Mounted(c, p.directory) = {[class |-> s.credentials.class, scope |-> s.credentials.scope,
                                                      parts |-> "public-private"]}
                    /\ \A p \in tls_ca_cert_mount_path(s.tls) :
                          Mounted(c, p.directory) = {[class |-> s.tls.class, scope |-> None, parts |-> "public"]}
  BY DEF FilesAreMounted
<1>1. PICK i \in DOMAIN connected : connected[i].what = "service" /\ connected[i].ok /\ connected[i].with = s
  BY DEF ConnectedAll
<1>2. i \in 1..Len(connected) /\ IsServiceAt(connected, i) /\ IsWiring(wiring)
  BY <1>1 DEF ConnectionInv, IsServiceAt
<1>3. VolumesOf(s) \subseteq ToSet(wiring.volumes.items) /\ MountsOf(s) \subseteq ToSet(wiring.containers[c].items)
  BY <1>1, <1>2 DEF ConnectionInv, Provided
<1>4. ASSUME NEW u \in Uses(s)
      PROVE  Mounted(c, SecretPath(u.class)) = {[class |-> u.class, scope |-> u.scope, parts |-> u.parts]}
  <2>1. SecretVolume(u) \in VolumesOf(s) /\ SecretMount(u) \in MountsOf(s)
    BY DEF VolumesOf, MountsOf
  <2>2. QED
    BY <1>2, <1>3, <2>1, SecretIsMounted
<1>5. ASSUME NEW p \in credentials_mount_paths(s)
      PROVE  Mounted(c, p.directory) = {[class |-> s.credentials.class, scope |-> s.credentials.scope,
                                         parts |-> "public-private"]}
  <2> DEFINE u == [class |-> s.credentials.class, suffix |-> CredentialSuffix[s.kind],
                   scope |-> s.credentials.scope, parts |-> "public-private"]
  <2>1. s.credentials # None /\ p.directory = SecretPath(s.credentials.class)
    BY DEF credentials_mount_paths
  <2>2. u \in Uses(s)
    BY <2>1 DEF Uses
  <2>3. u.class = s.credentials.class /\ u.scope = s.credentials.scope /\ u.parts = "public-private"
    OBVIOUS
  <2> HIDE DEF u
  <2>4. QED
    BY <1>4, <2>1, <2>2, <2>3
<1>6. ASSUME NEW p \in tls_ca_cert_mount_path(s.tls)
      PROVE  Mounted(c, p.directory) = {[class |-> s.tls.class, scope |-> None, parts |-> "public"]}
  <2> DEFINE class == tls_ca_cert_secret_class(s.tls)
             u == [class |-> class, suffix |-> "ca-cert", scope |-> None, parts |-> "public"]
  <2>1. class # None /\ p.directory = SecretPath(class)
    BY DEF tls_ca_cert_mount_path
  <2>2. u \in Uses(s)
    BY <2>1 DEF Uses
  <2>3. u.class = class /\ u.scope = None /\ u.parts = "public"
    OBVIOUS
  <2>4. class = s.tls.class
    BY <2>1 DEF tls_ca_cert_secret_class
  <2> HIDE DEF u, class
  <2>5. QED
    BY <1>4, <2>1, <2>2, <2>3, <2>4
<1>7. QED
  BY <1>5, <1>6

\* A path without its trailing slashes is a prefix of it.
LEMMA TrimmedIsPrefix ==
  ASSUME NEW path, NEW L \in Nat, DOMAIN path = 1..L
  PROVE  \E k \in 0..L : trim_end_matches(path) = SubSeq(path, 1, k)
<1> DEFINE blank == ""
           kept == {i \in 1..L : path[i] # blank}
           last == CHOOSE i \in DOMAIN path : path[i] # "" /\ \A j \in DOMAIN path : j > i => path[j] = ""
<1>0. DOMAIN path = 1..L
  OBVIOUS
<1>1. CASE kept = {}
  <2>1. \A i \in DOMAIN path : path[i] = ""
    BY <1>0, <1>1
  <2>2. trim_end_matches(path) = SubSeq(path, 1, 0)
    BY <2>1 DEF trim_end_matches
  <2>3. 0 \in 0..L
    OBVIOUS
  <2>4. QED
    BY <2>2, <2>3
<1>2. CASE kept # {}
  <2>1. \E i \in DOMAIN path : path[i] # blank /\ \A j \in DOMAIN path : j > i => path[j] = blank
    <3> HIDE DEF blank, last
    <3>1. PICK n \in kept : \A m \in kept : m <= n
      <4>1. kept \subseteq Nat /\ \A m \in kept : m <= L
        OBVIOUS
      <4> HIDE DEF kept
      <4>2. QED
        BY <1>2, <4>1, GreatestNumber
    <3>2. n \in 1..L /\ path[n] # blank
      BY <3>1
    <3>3. \A j \in 1..L : j > n => path[j] = blank
      BY <3>1, <3>2
    <3>4. QED
      BY <1>0, <3>2, <3>3
  <2>2. last \in DOMAIN path
    BY <2>1
  <2>3. ~(\A i \in DOMAIN path : path[i] = "")
    BY <2>1
  <2>4. trim_end_matches(path) = SubSeq(path, 1, last)
    BY <2>3 DEF trim_end_matches
  <2>5. last \in 0..L
    <3> HIDE DEF blank, last, kept
    <3>1. QED
      BY <1>0, <2>2
  <2>6. QED
    BY <2>4, <2>5
<1>3. QED
  BY <1>1, <1>2

\* The well-known configuration is looked for below the root path.
LEMMA WellKnownPath ==
  ASSUME NEW s, IsService(s)
  PROVE  \A i \in 1..(Len(well_known_config_path(s)) - 2) : well_known_config_path(s)[i] = s.root_path[i]
<1> DEFINE path == s.root_path
<1>0. path \in Seq(STRING) /\ Len(path) \in Nat
  BY DEF IsService
<1>1. PICK k \in 0..Len(path) : trim_end_matches(path) = SubSeq(path, 1, k)
  <2> DEFINE L == Len(path)
  <2>1. L \in Nat
    BY <1>0
  <2>2. DOMAIN path = 1..L
    BY <1>0
  <2> HIDE DEF L
  <2>3. \E k \in 0..L : trim_end_matches(path) = SubSeq(path, 1, k)
    BY <2>1, <2>2, TrimmedIsPrefix
  <2>4. QED
    BY <2>3 DEF L
<1> DEFINE prefix == SubSeq(path, 1, k)
           rest == <<".well-known", "openid-configuration">>
           S == {path[i] : i \in 1..k} \cup {".well-known", "openid-configuration"}
<1>2. /\ prefix = [i \in 1..k |-> path[i]] /\ prefix \in Seq(S) /\ Len(prefix) = k
      /\ \A i \in 1..k : prefix[i] = path[i]
  <2>1. k \in Nat /\ 1..k \subseteq 1..Len(path)
    BY <1>0
  <2>2. prefix = [i \in 1..k |-> path[i]]
    BY <1>0, <2>1
  <2>3. QED
    BY <2>1, <2>2
<1>3. rest \in Seq(S) /\ Len(rest) = 2
  OBVIOUS
<1>4. well_known_config_path(s) = prefix \o rest
  BY <1>1 DEF well_known_config_path
<1> HIDE DEF prefix, rest, S
<1>5. /\ Len(prefix \o rest) = k + 2
      /\ \A i \in 1..k : (prefix \o rest)[i] = prefix[i]
  <2>1. /\ Len(prefix \o rest) = Len(prefix) + Len(rest)
        /\ \A i \in 1..(Len(prefix) + Len(rest)) :
              (prefix \o rest)[i] = IF i <= Len(prefix) THEN prefix[i] ELSE rest[i - Len(prefix)]
    <3>1. prefix \in Seq(S)
      BY <1>2
    <3>2. rest \in Seq(S)
      BY <1>3
    <3>3. QED
      BY <3>1, <3>2, ConcatProperties
  <2>2. k \in Nat /\ \A i \in 1..k : i \in 1..(k + 2) /\ i <= k
    BY <1>0
  <2>3. QED
    BY <1>2, <1>3, <2>1, <2>2
<1>6. QED
  BY <1>2, <1>4, <1>5

\* The port of a service is a number.
LEMMA PortIsNumber ==
  ASSUME NEW s, IsService(s)
  PROVE  port(s) \in Nat /\ port(s) # None
<1>1. s.port = None \/ s.port \in Nat
  BY DEF IsService
<1>2. DefaultPort[s.kind][1] \in Nat /\ DefaultPort[s.kind][2] \in Nat
  BY DEF IsService, DefaultPort
<1>3. QED
  BY <1>1, <1>2, ConnectionConstants DEF port

\* The endpoint of any service, whatever its port and its TLS settings.
LEMMA EndpointIsReachable ==
  ASSUME NEW s, IsService(s)
  PROVE  LET url == endpoint(s)
         IN  IF s.kind = "ldap" /\ s.host = "v6" THEN ~url.ok
             ELSE /\ url.ok
                  /\ url.value.scheme = (IF s.kind = "ldap" THEN IF uses_tls(s.tls) THEN "ldaps" ELSE "ldap"
                                                            ELSE IF uses_tls(s.tls) THEN "https" ELSE "http")
                  /\ (s.kind # "ldap" /\ s.port = 80 /\ uses_tls(s.tls)) \/ port_or_known_default(url.value) = port(s)
<1> DEFINE p == port(s)
<1>0. p \in Nat /\ p # None /\ 80 # None /\ 443 # None
  BY PortIsNumber, ConnectionConstants
<1>1. p = 80 /\ uses_tls(s.tls) /\ s.kind # "ldap" => s.port = 80
  <2>1. s.kind # "ldap" => DefaultPort[s.kind][2] = 443
    BY DEF IsService, DefaultPort
  <2>2. QED
    BY <2>1 DEF port
<1> HIDE DEF p
<1>2. CASE s.kind = "ldap"
  <2> DEFINE scheme == IF uses_tls(s.tls) THEN "ldaps" ELSE "ldap"
  <2>1. endpoint(s) = Url_parse(scheme, s.host, p)
    BY <1>2 DEF endpoint, ldap_endpoint_url, p
  <2>2. SchemePort[scheme] = None /\ scheme \in {"ldap", "ldaps"}
    BY DEF SchemePort
  <2> HIDE DEF scheme
  <2>3. CASE s.host = "v6"
    BY <1>2, <2>1, <2>3 DEF Url_parse, Err
  <2>4. CASE s.host # "v6"
    <3>1. endpoint(s) = Ok([scheme |-> scheme, host |-> s.host, port |-> p])
      BY <1>0, <2>1, <2>2, <2>4 DEF Url_parse
    <3>2. endpoint(s).ok /\ endpoint(s).value.scheme = scheme /\ endpoint(s).value.port = p
      BY <3>1 DEF Ok
    <3>3. port_or_known_default(endpoint(s).value) = p
      BY <1>0, <3>2 DEF port_or_known_default
    <3>4. QED
      BY <1>2, <2>4, <3>2, <3>3 DEF scheme, p
  <2>5. QED
    BY <2>3, <2>4
<1>3. CASE s.kind # "ldap"
  <2> DEFINE host == as_url_host(s.host)
             parsed == IF p = 80 THEN None ELSE p
  <2>1. host # "v6"
    BY DEF as_url_host
  <2>2. SchemePort["http"] = 80 /\ SchemePort["https"] = 443
    BY DEF SchemePort
  <2> HIDE DEF host
  <2>3. Url_parse("http", host, p) = Ok([scheme |-> "http", host |-> host, port |-> parsed])
    BY <2>1, <2>2 DEF Url_parse
  <2>4. CASE ~uses_tls(s.tls)
    <3>1. endpoint(s) = Ok([scheme |-> "http", host |-> host, port |-> parsed])
      BY <1>3, <2>3, <2>4 DEF endpoint, http_endpoint, p, host
    <3>2. endpoint(s).ok /\ endpoint(s).value.scheme = "http" /\ endpoint(s).value.port = parsed
      BY <3>1 DEF Ok
    <3>3. port_or_known_default(endpoint(s).value) = p
      BY <1>0, <2>2, <3>2 DEF port_or_known_default
    <3>4. QED
      BY <1>3, <2>4, <3>2, <3>3 DEF p
  <2>5. CASE uses_tls(s.tls)
    <3> DEFINE url == [scheme |-> "http", host |-> host, port |-> parsed]
    <3>1. endpoint(s) = Ok(Url_set_scheme(url, "https"))
      <4>1. Url_parse("http", as_url_host(s.host), port(s)).ok /\ Url_parse("http", as_url_host(s.host), port(s)).value = url
        BY <2>3 DEF Ok, p, host
      <4>2. http_endpoint(s) = Ok(Url_set_scheme(url, "https"))
        BY <2>5, <4>1 DEF http_endpoint
      <4>3. QED
        BY <1>3, <4>2 DEF endpoint
    <3>2. /\ Url_set_scheme(url, "https").scheme = "https"
          /\ Url_set_scheme(url, "https").port = IF parsed = 443 THEN None ELSE parsed
      BY <2>2 DEF Url_set_scheme
    <3> DEFINE changed == Url_set_scheme(url, "https")
    <3> HIDE DEF changed
    <3>3. endpoint(s).ok /\ endpoint(s).value = changed
      BY <3>1 DEF Ok, changed
    <3>4. changed.scheme = "https" /\ changed.port = IF parsed = 443 THEN None ELSE parsed
      BY <3>2 DEF changed
    <3>5. p # 80 => port_or_known_default(changed) = p
      BY <1>0, <2>2, <3>4 DEF port_or_known_default
    <3>6. QED
      BY <1>1, <1>3, <2>5, <3>3, <3>4, <3>5 DEF p
  <2>6. QED
    BY <2>4, <2>5
<1>4. QED
  BY <1>2, <1>3

\* Services have their endpoints.
LEMMA EndpointsFollow == ConnectionInv => EndpointsAreReachable
<1> SUFFICES ASSUME ConnectionInv, NEW s \in ConnectedAll("service")
             PROVE  LET url == endpoint(s)
                    IN  IF s.kind = "ldap" /\ s.host = "v6" THEN ~url.ok
                        ELSE /\ url.ok
                             /\ url.value.scheme = (IF s.kind = "ldap" THEN IF uses_tls(s.tls) THEN "ldaps" ELSE "ldap"
                                                                       ELSE IF uses_tls(s.tls) THEN "https" ELSE "http")
                             /\ (s.kind # "ldap" /\ s.port = 80 /\ uses_tls(s.tls)) \/ port_or_known_default(url.value) = port(s)
                             /\ s.kind = "oidc" => \A i \in 1..(Len(well_known_config_path(s)) - 2) :
                                                        well_known_config_path(s)[i] = s.root_path[i]
                             /\ uses_tls_verification(s.tls) => url.value.scheme \in {"https", "ldaps"}
  BY DEF EndpointsAreReachable
<1>1. PICK i \in DOMAIN connected : connected[i].what = "service" /\ connected[i].with = s
  BY DEF ConnectedAll
<1>2. i \in 1..Len(connected) /\ s \in Connectable
  BY <1>1 DEF ConnectionInv
<1>3. IsService(s)
  BY <1>2, ConnectableIsService
<1> DEFINE url == endpoint(s)
<1>4. IF s.kind = "ldap" /\ s.host = "v6" THEN ~url.ok
      ELSE /\ url.ok
           /\ url.value.scheme = (IF s.kind = "ldap" THEN IF uses_tls(s.tls) THEN "ldaps" ELSE "ldap"
                                                     ELSE IF uses_tls(s.tls) THEN "https" ELSE "http")
           /\ (s.kind # "ldap" /\ s.port = 80 /\ uses_tls(s.tls)) \/ port_or_known_default(url.value) = port(s)
  BY <1>3, EndpointIsReachable
<1>5. \A j \in 1..(Len(well_known_config_path(s)) - 2) : well_known_config_path(s)[j] = s.root_path[j]
  BY <1>3, WellKnownPath
<1>6. uses_tls_verification(s.tls) => uses_tls(s.tls)
  BY DEF uses_tls_verification
<1> HIDE DEF url
<1>7. IF s.kind = "ldap" /\ s.host = "v6" THEN ~url.ok
      ELSE /\ url.ok
           /\ url.value.scheme = (IF s.kind = "ldap" THEN IF uses_tls(s.tls) THEN "ldaps" ELSE "ldap"
                                                     ELSE IF uses_tls(s.tls) THEN "https" ELSE "http")
           /\ (s.kind # "ldap" /\ s.port = 80 /\ uses_tls(s.tls)) \/ port_or_known_default(url.value) = port(s)
           /\ s.kind = "oidc" => \A j \in 1..(Len(well_known_config_path(s)) - 2) :
                                      well_known_config_path(s)[j] = s.root_path[j]
           /\ uses_tls_verification(s.tls) => url.value.scheme \in {"https", "ldaps"}
  BY <1>4, <1>5, <1>6
<1>8. QED
  BY <1>7 DEF url

\* Databases have their own variables.
LEMMA CredentialsFollow == ConnectionInv => DatabaseCredentialsAreOwn
<1> SUFFICES ASSUME ConnectionInv, NEW d \in ConnectedAll("database"),
                    \A e \in ConnectedAll("database") : e # d => Uppercase(e.name) # Uppercase(d.name)
             PROVE  /\ \A v \in connection_details(d).envs : v.name \in DOMAIN wiring.env /\ wiring.env[v.name] = v
                    /\ \A n \in connection_details(d).in_url :
                          n \in DOMAIN wiring.env /\ wiring.env[n].secret = d.secret
                    /\ \A e \in ConnectedAll("database") \ {d} :
                          (d.database = "derby" /\ e.database = "derby" /\ d.location = None /\ e.location = None)
                              => connection_details(d).location # connection_details(e).location
  BY DEF DatabaseCredentialsAreOwn
<1>1. PICK i \in 1..Len(connected) : connected[i].what = "database" /\ connected[i].with = d
  BY DEF ConnectedAll, ConnectionInv
<1>2. VariablesOf(wiring.env, connected)
  BY DEF ConnectionInv
<1>3. ASSUME NEW v \in connection_details(d).envs PROVE v.name \in DOMAIN wiring.env /\ wiring.env[v.name] = v
  <2>1. v.name \in DOMAIN wiring.env
    BY <1>1, <1>2 DEF VariablesOf
  <2> DEFINE w == wiring.env[v.name]
  <2>2. PICK j \in 1..Len(connected) :
               /\ connected[j].what = "database" /\ connected[j].ok
               /\ w \in connection_details(connected[j].with).envs /\ w.name = v.name
    BY <1>2, <2>1 DEF VariablesOf
  <2> DEFINE e == connected[j].with
  <2>3. e \in ConnectedAll("database")
    <3>1. j \in DOMAIN connected
      BY DEF ConnectionInv
    <3>2. QED
      BY <2>2, <3>1 DEF ConnectedAll
  <2> HIDE DEF w, e
  <2>4. w \in connection_details(e).envs /\ w.name = v.name
    BY <2>2 DEF e
  <2>5. w.name[1] = Uppercase(e.name) /\ v.name[1] = Uppercase(d.name)
    BY <2>4, DatabaseVariables
  <2>6. e = d
    BY <2>3, <2>4, <2>5
  <2>7. w = v
    BY <2>4, <2>6, DatabaseVariables
  <2>8. QED
    BY <2>1, <2>7 DEF w
<1>4. ASSUME NEW n \in connection_details(d).in_url PROVE n \in DOMAIN wiring.env /\ wiring.env[n].secret = d.secret
  <2>1. PICK v \in connection_details(d).envs : v.name = n
    <3>1. \/ connection_details(d).in_url = {}
          \/ connection_details(d).in_url = {v.name : v \in connection_details(d).envs}
      <4>1. ASSUME NEW v PROVE {v.name} = {w.name : w \in {v}}
        OBVIOUS
      <4>2. QED
        BY <4>1 DEF connection_details, derby_connection_details, jdbc_connection_details,
                    generic_connection_details, templated_connection_details
    <3>2. QED
      BY <3>1
  <2>2. n \in DOMAIN wiring.env /\ wiring.env[n] = v
    BY <1>3, <2>1
  <2>3. QED
    BY <2>2, DatabaseVariables
<1>5. ASSUME NEW e \in ConnectedAll("database") \ {d},
             d.database = "derby", e.database = "derby", d.location = None, e.location = None
      PROVE  connection_details(d).location # connection_details(e).location
  <2>1. d.name # e.name
    <3>1. Uppercase(e.name) # Uppercase(d.name)
      BY <1>5
    <3>2. QED
      BY <3>1 DEF Uppercase
  <2>2. /\ connection_details(d).location = <<"/tmp/derby", d.name>>
        /\ connection_details(e).location = <<"/tmp/derby", e.name>>
    BY <1>5 DEF connection_details, derby_connection_details, derby_location
  <2>3. QED
    BY <2>1, <2>2
<1>6. QED
  BY <1>3, <1>4, <1>5

\* Whatever services and databases a pod is connected to, in whatever order, its
\* containers have the files, addresses and credentials for all of them, and adding
\* one fails only where two uses of a SecretClass exclude each other.
THEOREM ConnectionsAreAlwaysComplete == ConnectionSpec => []ConnectionsAreComplete
<1>1. ConnectionInv => ConnectionsAreComplete
  BY FilesFollow, EndpointsFollow, CredentialsFollow DEF ConnectionsAreComplete, ConnectionInv
<1>2. QED
  BY <1>1, ConnectionInvariant, PTL

(***************************************************************************)
(* GitSync: mounts                                                         *)
(***************************************************************************)
\* What a concatenation of sequences contains.
LEMMA ConcatContains ==
  ASSUME NEW S, NEW s \in Seq(S), NEW t \in Seq(S)
  PROVE  s \o t \in Seq(S) /\ ToSet(s \o t) = ToSet(s) \cup ToSet(t)
<1> DEFINE st == s \o t
<1>1. /\ st \in Seq(S) /\ Len(st) = Len(s) + Len(t) /\ Len(s) \in Nat /\ Len(t) \in Nat
      /\ \A i \in 1..(Len(s) + Len(t)) : st[i] = IF i <= Len(s) THEN s[i] ELSE t[i - Len(s)]
  BY ConcatProperties
<1>2. DOMAIN st = 1..(Len(s) + Len(t)) /\ DOMAIN s = 1..Len(s) /\ DOMAIN t = 1..Len(t)
  BY <1>1
<1> HIDE DEF st
<1>3. ToSet(st) \subseteq ToSet(s) \cup ToSet(t)
  <2>1. ASSUME NEW i \in DOMAIN st PROVE st[i] \in ToSet(s) \cup ToSet(t)
    <3>1. CASE i <= Len(s)
      BY <1>1, <1>2, <3>1 DEF ToSet
    <3>2. CASE ~(i <= Len(s))
      <4>1. i - Len(s) \in 1..Len(t) /\ st[i] = t[i - Len(s)]
        BY <1>1, <1>2, <3>2
      <4>2. QED
        BY <1>2, <4>1 DEF ToSet
    <3>3. QED
      BY <3>1, <3>2
  <2>2. QED
    BY <2>1 DEF ToSet
<1>4. ToSet(s) \subseteq ToSet(st)
  <2>1. ASSUME NEW i \in DOMAIN s PROVE s[i] \in ToSet(st)
    <3>1. i \in 1..(Len(s) + Len(t)) /\ i <= Len(s)
      BY <1>1, <1>2
    <3>2. QED
      BY <1>1, <1>2, <3>1 DEF ToSet
  <2>2. QED
    BY <2>1 DEF ToSet
<1>5. ToSet(t) \subseteq ToSet(st)
  <2>1. ASSUME NEW i \in DOMAIN t PROVE t[i] \in ToSet(st)
    <3>1. i + Len(s) \in 1..(Len(s) + Len(t)) /\ ~(i + Len(s) <= Len(s)) /\ (i + Len(s)) - Len(s) = i
      BY <1>1, <1>2
    <3>2. st[i + Len(s)] = t[i]
      BY <1>1, <3>1
    <3>3. QED
      BY <1>2, <3>1, <3>2 DEF ToSet
  <2>2. QED
    BY <2>1 DEF ToSet
<1>6. QED
  BY <1>1, <1>3, <1>4, <1>5 DEF st

\* What a sequence of one element contains.
LEMMA OneContains ==
  ASSUME NEW S, NEW x \in S
  PROVE  <<x>> \in Seq(S) /\ ToSet(<<x>>) = {x}
<1>1. <<x>> \in Seq(S) /\ DOMAIN <<x>> = {1} /\ <<x>>[1] = x
  OBVIOUS
<1>2. QED
  BY <1>1 DEF ToSet

\* What the empty sequence contains.
LEMMA NoneContains ==
  ASSUME NEW S
  PROVE  <<>> \in Seq(S) /\ ToSet(<<>>) = {}
BY DEF ToSet

\* The mounts of every git-sync container, and those for keys and certificates.
ExtraItems(extra) == {[key |-> m.path, content |-> <<m.name>>] : m \in ToSet(extra)}

RootItem(i) == [key |-> RootDir, content |-> <<ContentVolume(i)>>]
LogItem == [key |-> <<"/stackable/log">>, content |-> <<LogVolume>>]

BaseItems(i, extra) == {RootItem(i), LogItem} \cup ExtraItems(extra)

SshItems(i, sync) ==
  IF HasCredentials(sync, "ssh") THEN {[key |-> SshPath(i), content |-> <<SshVolume(i)>>]} ELSE {}

CaItems(i, sync) ==
  IF needs_ca_cert(sync) THEN {[key |-> CaPath(i), content |-> <<CaVolume(i)>>]} ELSE {}

\* The mounts of the repository, the log and the caller.
LEMMA BaseMounts ==
  ASSUME NEW i, NEW extra, extra \in Seq(ToSet(extra)), NEW S, BaseItems(i, extra) \subseteq S
  PROVE  /\ root_and_log_mounts(i, extra) \in Seq(S)
         /\ ToSet(root_and_log_mounts(i, extra)) = BaseItems(i, extra)
<1> DEFINE own == <<RootItem(i), LogItem>>
           others == [j \in DOMAIN extra |-> [key |-> extra[j].path, content |-> <<extra[j].name>>]]
<1>1. own \in Seq(S) /\ ToSet(own) = {RootItem(i), LogItem}
  <2>1. own \in Seq(S) /\ DOMAIN own = {1, 2} /\ own[1] = RootItem(i) /\ own[2] = LogItem
    BY DEF BaseItems
  <2>2. QED
    BY <2>1 DEF ToSet
<1>2. DOMAIN extra = 1..Len(extra) /\ Len(extra) \in Nat
  OBVIOUS
<1>3. \A j \in DOMAIN extra : extra[j] \in ToSet(extra)
  BY DEF ToSet
<1>4. \A j \in DOMAIN extra : others[j] \in ExtraItems(extra)
  BY <1>3 DEF ExtraItems
<1>5. others \in Seq(S)
  <2>1. others \in [1..Len(extra) -> S]
    BY <1>2, <1>4 DEF BaseItems
  <2>2. QED
    BY <1>2, <2>1
<1>6. ToSet(others) = ExtraItems(extra)
  BY DEF ToSet, ExtraItems
<1>7. root_and_log_mounts(i, extra) = own \o others
  BY DEF root_and_log_mounts, RootItem, LogItem
<1> HIDE DEF own, others
<1>8. QED
  BY <1>1, <1>5, <1>6, <1>7, ConcatContains DEF BaseItems

\* All mounts of a container of v1alpha2.
LEMMA VolumeMounts ==
  ASSUME NEW i, NEW sync, NEW extra, extra \in Seq(ToSet(extra))
  PROVE  LET S == BaseItems(i, extra) \cup SshItems(i, sync) \cup CaItems(i, sync)
         IN  volume_mounts(i, sync, extra) \in Seq(S) /\ ToSet(volume_mounts(i, sync, extra)) = S
<1> DEFINE S == BaseItems(i, extra) \cup SshItems(i, sync) \cup CaItems(i, sync)
           base == root_and_log_mounts(i, extra)
           ssh == ssh_mounts(i, sync)
           ca == IF needs_ca_cert(sync)
                 THEN <<[key |-> CaPath(i), content |-> <<CaVolume(i)>>]>> ELSE <<>>
<1>1. base \in Seq(S) /\ ToSet(base) = BaseItems(i, extra)
  <2>1. BaseItems(i, extra) \subseteq S
    OBVIOUS
  <2> HIDE DEF S
  <2>2. QED
    BY <2>1, BaseMounts
<1>2. ssh \in Seq(S) /\ ToSet(ssh) = SshItems(i, sync)
  <2>1. CASE HasCredentials(sync, "ssh")
    <3> DEFINE x == [key |-> SshPath(i), content |-> <<SshVolume(i)>>]
    <3>1. ssh = <<x>> /\ SshItems(i, sync) = {x} /\ x \in S
      BY <2>1 DEF ssh_mounts, SshItems
    <3> HIDE DEF S, x, ssh
    <3>2. QED
      BY <3>1, OneContains
  <2>2. CASE ~HasCredentials(sync, "ssh")
    <3>1. ssh = <<>> /\ SshItems(i, sync) = {}
      BY <2>2 DEF ssh_mounts, SshItems
    <3> HIDE DEF S, ssh
    <3>2. QED
      BY <3>1, NoneContains
  <2>3. QED
    BY <2>1, <2>2
<1>3. ca \in Seq(S) /\ ToSet(ca) = CaItems(i, sync)
  <2>1. CASE needs_ca_cert(sync)
    <3> DEFINE x == [key |-> CaPath(i), content |-> <<CaVolume(i)>>]
    <3>1. ca = <<x>> /\ CaItems(i, sync) = {x} /\ x \in S
      BY <2>1 DEF CaItems
    <3> HIDE DEF S, x, ca
    <3>2. QED
      BY <3>1, OneContains
  <2>2. CASE ~needs_ca_cert(sync)
    <3>1. ca = <<>> /\ CaItems(i, sync) = {}
      BY <2>2 DEF CaItems
    <3> HIDE DEF S, ca
    <3>2. QED
      BY <3>1, NoneContains
  <2>3. QED
    BY <2>1, <2>2
<1>4. volume_mounts(i, sync, extra) = base \o ssh \o ca
  BY DEF volume_mounts
<1>5. ToSet(base) \cup ToSet(ssh) \cup ToSet(ca) = S
  BY <1>1, <1>2, <1>3
<1> HIDE DEF S, base, ssh, ca
<1>6. base \o ssh \in Seq(S) /\ ToSet(base \o ssh) = ToSet(base) \cup ToSet(ssh)
  BY <1>1, <1>2, ConcatContains
<1>7. base \o ssh \o ca \in Seq(S) /\ ToSet(base \o ssh \o ca) = S
  <2> DEFINE bs == base \o ssh
  <2>1. bs \in Seq(S) /\ ToSet(bs) \cup ToSet(ca) = S
    BY <1>5, <1>6
  <2> HIDE DEF bs
  <2>2. bs \o ca \in Seq(S) /\ ToSet(bs \o ca) = ToSet(bs) \cup ToSet(ca)
    BY <1>3, <2>1, ConcatContains
  <2>3. QED
    BY <2>1, <2>2 DEF bs
<1>8. QED
  BY <1>4, <1>7 DEF S

\* A container has the mounts it was created with, and its two variants the same.
LEMMA ContainerIsCreated ==
  ASSUME NEW i, NEW sync, NEW one_time, NEW S, NEW mounts \in Seq(S), NEW env, NEW git_config
  PROVE  LET c == create_git_sync_container(i, sync, one_time, mounts, env, git_config)
             added == add_volumes([items |-> <<>>], mounts)
         IN  /\ c.ok = added.ok /\ c.ok \in BOOLEAN
             /\ c.ok => /\ c.value.mounts = added.value.items
                        /\ ToSet(c.value.mounts) = ToSet(mounts)
                        /\ c.value.args = args(sync, one_time, git_config)
                        /\ c.value.env = env
<1> DEFINE added == add_volumes([items |-> <<>>], mounts)
           B == [items : Seq(S)]
           b == [items |-> <<>>]
<1>1. Collects(B, S) /\ b \in B /\ Distinct(b) /\ b.items = <<>> /\ ToSet(b.items) = {}
  BY RecordsCollect, NoneContains DEF Distinct
<1>2. /\ add_volumes(b, mounts) \in Results(B)
      /\ Collected(b, ToSet(mounts), add_volumes(b, mounts))
  <2> HIDE DEF B, b
  <2>1. QED
    BY <1>1, AddVolumesCollects
<1>3. added = add_volumes(b, mounts)
  OBVIOUS
<1> HIDE DEF added, B, b
<1>4. added.ok \in BOOLEAN /\ (added.ok => ToSet(added.value.items) = ToSet(mounts))
  BY <1>1, <1>2, <1>3 DEF Results, Collected
<1>5. QED
  BY <1>4 DEF create_git_sync_container, Ok, Err, added

(***************************************************************************)
(* GitSync: options                                                        *)
(***************************************************************************)
\* The Git configuration of the operator, and what a user appends.
ConfigItems(i, sync) ==
  (IF needs_ca_cert(sync) THEN {[key |-> "http.sslCAInfo", value |-> ca_cert_path(i)]} ELSE {})
  \cup {[key |-> "http.sslverify", value |-> FALSE], [key |-> "safe.directory", value |-> RootDir]}

UserItem(sync) == [key |-> "user", value |-> sync.git_sync_conf["--git-config"]]

UserItems(sync) == IF "--git-config" \in DOMAIN sync.git_sync_conf THEN <<UserItem(sync)>> ELSE <<>>

\* What the operator puts into the Git configuration.
LEMMA OperatorConfig ==
  ASSUME NEW i, NEW sync
  PROVE  internal_git_config(i, sync) \in Seq(ConfigItems(i, sync))
<1> DEFINE S == ConfigItems(i, sync)
           a == IF needs_ca_cert(sync) THEN <<[key |-> "http.sslCAInfo", value |-> ca_cert_path(i)]>> ELSE <<>>
           b == IF sync.tls # None /\ sync.tls.verification = "none"
                THEN <<[key |-> "http.sslverify", value |-> FALSE]>> ELSE <<>>
           c == <<[key |-> "safe.directory", value |-> RootDir]>>
<1>1. a \in Seq(S)
  <2>1. CASE needs_ca_cert(sync)
    <3> DEFINE x == [key |-> "http.sslCAInfo", value |-> ca_cert_path(i)]
    <3>1. a = <<x>> /\ x \in S
      BY <2>1 DEF ConfigItems
    <3> HIDE DEF S, x, a
    <3>2. QED
      BY <3>1, OneContains
  <2>2. CASE ~needs_ca_cert(sync)
    <3>1. a = <<>>
      BY <2>2
    <3> HIDE DEF S, a
    <3>2. QED
      BY <3>1, NoneContains
  <2>3. QED
    BY <2>1, <2>2
<1>2. b \in Seq(S)
  <2> DEFINE x == [key |-> "http.sslverify", value |-> FALSE]
  <2>1. (b = <<x>> \/ b = <<>>) /\ x \in S
    BY DEF ConfigItems
  <2> HIDE DEF S, x, b
  <2>2. QED
    BY <2>1, OneContains, NoneContains
<1>3. c \in Seq(S)
  <2> DEFINE x == [key |-> "safe.directory", value |-> RootDir]
  <2>1. c = <<x>> /\ x \in S
    BY DEF ConfigItems
  <2> HIDE DEF S, x, c
  <2>2. QED
    BY <2>1, OneContains
<1>4. internal_git_config(i, sync) = a \o b \o c
  BY DEF internal_git_config
<1> HIDE DEF S, a, b, c
<1>5. a \o b \in Seq(S)
  BY <1>1, <1>2, ConcatContains
<1>6. a \o b \o c \in Seq(S)
  <2> DEFINE ab == a \o b
  <2>1. ab \in Seq(S)
    BY <1>5
  <2> HIDE DEF ab
  <2>2. ab \o c \in Seq(S)
    BY <1>3, <2>1, ConcatContains
  <2>3. QED
    BY <2>2 DEF ab
<1>7. QED
  BY <1>4, <1>6 DEF S

\* The options of a container: the operator's, the user's others, and both Git configurations.
OptionNames == {"--repo", "--ref", "--depth", "--period", "--link", "--root", "--one-time"}

Layered(a, sync, one_time, git_config) ==
  LET own == internal_args(sync, one_time)
      user == sync.git_sync_conf
  IN  /\ DOMAIN own = OptionNames
      /\ \A x \in OptionNames : a[x] = own[x]
      /\ \A x \in DOMAIN user \ (OptionNames \cup {"--git-config"}) : a[x] = user[x]
      /\ a["--git-config"] = git_config \o UserItems(sync)
      /\ own["--root"] = RootDir /\ own["--one-time"] = one_time

\* Overlaying the options gives those layers.
LEMMA ArgsAreLayered ==
  ASSUME NEW sync, NEW one_time, NEW git_config
  PROVE  Layered(args(sync, one_time, git_config), sync, one_time, git_config)
<1> DEFINE user == sync.git_sync_conf
           own == internal_args(sync, one_time)
           rest == [x \in DOMAIN user \ {"--git-config"} |-> user[x]]
           last == [x \in {"--git-config"} |-> git_config \o UserItems(sync)]
           a == args(sync, one_time, git_config)
<1>1. /\ DOMAIN own = OptionNames
      /\ own["--root"] = RootDir /\ own["--one-time"] = one_time
  BY DEF internal_args, OptionNames
<1>2. a = Overlay(Overlay(rest, own), last)
  BY DEF args, UserItems, UserItem
<1>3. /\ DOMAIN rest = DOMAIN user \ {"--git-config"} /\ \A x \in DOMAIN rest : rest[x] = user[x]
      /\ DOMAIN last = {"--git-config"} /\ last["--git-config"] = git_config \o UserItems(sync)
      /\ "--git-config" \notin DOMAIN own
  BY <1>1 DEF OptionNames
<1> HIDE DEF own, rest, last, a
<1>4. /\ \A x \in DOMAIN own : a[x] = own[x]
      /\ \A x \in DOMAIN user \ (DOMAIN own \cup {"--git-config"}) : a[x] = user[x]
      /\ a["--git-config"] = last["--git-config"]
  BY <1>2, <1>3 DEF Overlay
<1>5. QED
  BY <1>1, <1>3, <1>4 DEF own, a, Layered

\* The Git configuration of a container, and its last entry.
LEMMA ConfigIsLayered ==
  ASSUME NEW i, NEW sync
  PROVE  LET q == internal_git_config(i, sync) \o UserItems(sync)
         IN  /\ ToSet(q) \subseteq ConfigItems(i, sync) \cup {UserItem(sync)}
             /\ "--git-config" \in DOMAIN sync.git_sync_conf => Last(q) = UserItem(sync)
<1> DEFINE p == internal_git_config(i, sync)
           u == UserItem(sync)
           S == ConfigItems(i, sync) \cup {u}
           s == UserItems(sync)
<1>1. p \in Seq(S)
  <2>1. p \in Seq(ConfigItems(i, sync)) /\ ConfigItems(i, sync) \subseteq S
    BY OperatorConfig
  <2> HIDE DEF p, S
  <2>2. QED
    BY <2>1
<1>2. s \in Seq(S) /\ u \in S
  <2>1. (s = <<u>> \/ s = <<>>) /\ u \in S
    BY DEF UserItems
  <2> HIDE DEF s, u, S
  <2>2. QED
    BY <2>1, OneContains, NoneContains
<1>3. "--git-config" \in DOMAIN sync.git_sync_conf => s = <<u>>
  BY DEF UserItems
<1> HIDE DEF p, u, S, s
<1>4. ToSet(p \o s) \subseteq S
  <2> DEFINE q == p \o s
  <2>1. q \in Seq(S)
    BY <1>1, <1>2, ConcatContains
  <2> HIDE DEF q
  <2>2. ToSet(q) \subseteq S
    BY <2>1 DEF ToSet
  <2>3. QED
    BY <2>2 DEF q
<1>5. ASSUME s = <<u>> PROVE Last(p \o s) = u
  <2>1. /\ Len(p) \in Nat /\ Len(s) = 1 /\ s[1] = u
    BY <1>1, <1>5
  <2>2. /\ Len(p \o s) = Len(p) + Len(s)
        /\ \A j \in 1..(Len(p) + Len(s)) : (p \o s)[j] = IF j <= Len(p) THEN p[j] ELSE s[j - Len(p)]
    BY <1>1, <1>2, ConcatProperties
  <2>3. Len(p) + 1 \in 1..(Len(p) + Len(s)) /\ ~(Len(p) + 1 <= Len(p)) /\ (Len(p) + 1) - Len(p) = 1
    BY <2>1
  <2>4. Len(p \o s) = Len(p) + 1 /\ (p \o s)[Len(p) + 1] = u
    BY <2>1, <2>2, <2>3
  <2>5. QED
    BY <2>4 DEF Last
<1>6. QED
  BY <1>3, <1>4, <1>5 DEF p, u, S, s

\* What a repository is built to.
IsBuiltFrom(r, i, sync, extra, env) ==
  /\ ToSet(r.container.mounts) = BaseItems(i, extra) \cup SshItems(i, sync) \cup CaItems(i, sync)
  /\ r.init_container.mounts = r.container.mounts
  /\ r.container.env = env_vars(i, sync, env)
  /\ r.container.args = args(sync, FALSE, internal_git_config(i, sync))
  /\ r.init_container.args = args(sync, TRUE, internal_git_config(i, sync))
  /\ r.content_volume = ContentVolume(i)
  /\ r.content_mount = [key |-> <<"/stackable/app/git", i>>, content |-> <<ContentVolume(i)>>]
  /\ r.content_folder = content_folder(i, sync)
  /\ {v.name : v \in r.ssh_volumes} = IF HasCredentials(sync, "ssh") THEN {SshVolume(i)} ELSE {}
  /\ {v.name : v \in r.ca_cert_volumes} = IF needs_ca_cert(sync) THEN {CaVolume(i)} ELSE {}

\* A resource that is built without an error is what its specification asks for.
LEMMA ResourceIsBuilt ==
  ASSUME NEW i, NEW sync, NEW extra, extra \in Seq(ToSet(extra)), NEW env, GitSyncResource(i, sync, extra, env).ok
  PROVE  IsBuiltFrom(GitSyncResource(i, sync, extra, env).value, i, sync, extra, env)
<1> DEFINE mounts == volume_mounts(i, sync, extra)
           S == BaseItems(i, extra) \cup SshItems(i, sync) \cup CaItems(i, sync)
           vars == env_vars(i, sync, env)
           config == internal_git_config(i, sync)
           c1 == create_git_sync_container(i, sync, FALSE, mounts, vars, config)
           c2 == create_git_sync_container(i, sync, TRUE, mounts, vars, config)
           ssh == IF HasCredentials(sync, "ssh") THEN {[name |-> SshVolume(i), secret |-> sync.credentials.secret]} ELSE {}
           ca == IF needs_ca_cert(sync) THEN {[name |-> CaVolume(i), class |-> sync.tls.class, parts |-> "public"]} ELSE {}
           r == GitSyncResource(i, sync, extra, env)
<1>1. mounts \in Seq(S) /\ ToSet(mounts) = S
  BY VolumeMounts
<1>2. /\ c1.ok = c2.ok
      /\ c1.ok => /\ c1.value.mounts = c2.value.mounts
                  /\ ToSet(c1.value.mounts) = S
                  /\ c1.value.args = args(sync, FALSE, config)
                  /\ c2.value.args = args(sync, TRUE, config)
                  /\ c1.value.env = vars
  <2> DEFINE added == add_volumes([items |-> <<>>], mounts)
             c(o) == create_git_sync_container(i, sync, o, mounts, vars, config)
  <2>1. ASSUME NEW o
        PROVE  /\ c(o).ok = added.ok
               /\ c(o).ok => /\ c(o).value.mounts = added.value.items
                            /\ ToSet(c(o).value.mounts) = ToSet(mounts)
                            /\ c(o).value.args = args(sync, o, config)
                            /\ c(o).value.env = vars
    <3> HIDE DEF mounts, S, vars, config
    <3>1. QED
      BY <1>1, ContainerIsCreated
  <2>2. c1 = c(FALSE) /\ c2 = c(TRUE)
    OBVIOUS
  <2> HIDE DEF mounts, S, vars, config, c, c1, c2, added
  <2>3. /\ c(FALSE).ok = added.ok
        /\ c(FALSE).ok => /\ c(FALSE).value.mounts = added.value.items
                          /\ ToSet(c(FALSE).value.mounts) = ToSet(mounts)
                          /\ c(FALSE).value.args = args(sync, FALSE, config)
                          /\ c(FALSE).value.env = vars
    BY <2>1, Zenon
  <2>4. /\ c(TRUE).ok = added.ok
        /\ c(TRUE).ok => /\ c(TRUE).value.mounts = added.value.items
                         /\ c(TRUE).value.args = args(sync, TRUE, config)
    BY <2>1, Zenon
  <2>5. QED
    BY <1>1, <2>2, <2>3, <2>4, Zenon
<1>3. c1.ok /\ r.value = ContentResource(i, sync, c1.value, c2.value, ssh, ca)
  <2> DEFINE e == EnvVarError(IF HasCredentials(sync, "basicAuth") THEN sync.credentials.secret ELSE None, env)
             built == ContentResource(i, sync, c1.value, c2.value, ssh, ca)
  <2>1. r = IF ~e.ok THEN e
            ELSE IF ~scheme_check(sync) THEN Err("SchemeMismatch")
            ELSE IF ~c1.ok THEN c1 ELSE Ok(built)
    BY DEF GitSyncResource
  <2>2. r.ok
    OBVIOUS
  <2> HIDE DEF c1, c2, ssh, ca, e, built, r
  <2>3. c1.ok /\ r.value = built
    BY <2>1, <2>2 DEF Ok, Err
  <2>4. QED
    BY <2>3 DEF built
<1>4. {v.name : v \in ssh} = IF HasCredentials(sync, "ssh") THEN {SshVolume(i)} ELSE {}
  <2>1. CASE HasCredentials(sync, "ssh")
    BY <2>1
  <2>2. CASE ~HasCredentials(sync, "ssh")
    BY <2>2
  <2>3. QED
    BY <2>1, <2>2
<1>5. {v.name : v \in ca} = IF needs_ca_cert(sync) THEN {CaVolume(i)} ELSE {}
  <2>1. CASE needs_ca_cert(sync)
    BY <2>1
  <2>2. CASE ~needs_ca_cert(sync)
    BY <2>2
  <2>3. QED
    BY <2>1, <2>2
<1> DEFINE built == ContentResource(i, sync, c1.value, c2.value, ssh, ca)
<1>6. /\ built.container = c1.value /\ built.init_container = c2.value
      /\ built.content_volume = ContentVolume(i)
      /\ built.content_mount = [key |-> <<"/stackable/app/git", i>>, content |-> <<ContentVolume(i)>>]
      /\ built.content_folder = content_folder(i, sync)
      /\ built.ssh_volumes = ssh /\ built.ca_cert_volumes = ca
  <2> HIDE DEF c1, c2, ssh, ca
  <2>1. QED
    BY DEF ContentResource
<1>7. r.value = built
  BY <1>3
<1>8. ToSet(r.value.container.mounts) = S /\ r.value.init_container.mounts = r.value.container.mounts
  <2> HIDE DEF c1, c2, ssh, ca, built, S, r
  <2>1. QED
    BY <1>2, <1>3, <1>6, <1>7
<1>9. /\ r.value.container.env = vars
      /\ r.value.container.args = args(sync, FALSE, config)
      /\ r.value.init_container.args = args(sync, TRUE, config)
  <2> HIDE DEF c1, c2, ssh, ca, built, S, r
  <2>1. QED
    BY <1>2, <1>3, <1>6, <1>7
<1> HIDE DEF c1, c2, ssh, ca, built
<1>10. QED
  BY <1>4, <1>5, <1>6, <1>7, <1>8, <1>9 DEF IsBuiltFrom, S

\* The files of a repository are mounted.
LEMMA RepositoryHasItsFiles ==
  ASSUME NEW i, NEW sync, sync.git_folder \in Seq(ToSet(sync.git_folder)),
         NEW extra, extra \in Seq(ToSet(extra)), NEW env, GitSyncResource(i, sync, extra, env).ok
  PROVE  HasItsFiles(GitSyncResource(i, sync, extra, env).value, extra, env)
<1> DEFINE r == GitSyncResource(i, sync, extra, env).value
           S == BaseItems(i, extra) \cup SshItems(i, sync) \cup CaItems(i, sync)
           config == internal_git_config(i, sync)
<1>1. /\ ToSet(r.container.mounts) = S
      /\ r.init_container.mounts = r.container.mounts
      /\ r.container.env = env_vars(i, sync, env)
      /\ r.container.args = args(sync, FALSE, config)
      /\ r.content_volume = ContentVolume(i)
      /\ r.content_mount = [key |-> <<"/stackable/app/git", i>>, content |-> <<ContentVolume(i)>>]
      /\ r.content_folder = content_folder(i, sync)
      /\ {v.name : v \in r.ssh_volumes} = IF HasCredentials(sync, "ssh") THEN {SshVolume(i)} ELSE {}
      /\ {v.name : v \in r.ca_cert_volumes} = IF needs_ca_cert(sync) THEN {CaVolume(i)} ELSE {}
  <2>1. IsBuiltFrom(r, i, sync, extra, env)
    BY ResourceIsBuilt
  <2> HIDE DEF r
  <2>2. QED
    BY <2>1 DEF IsBuiltFrom
<1>2. /\ args(sync, FALSE, config)["--git-config"] = config \o UserItems(sync)
      /\ args(sync, FALSE, config)["--root"] = RootDir
  <2>1. Layered(args(sync, FALSE, config), sync, FALSE, config)
    BY ArgsAreLayered, Zenon
  <2>2. "--root" \in OptionNames
    BY DEF OptionNames
  <2>3. QED
    BY <2>1, <2>2, Zenon DEF Layered
<1> HIDE DEF r
<1>3. {m.content[1] : m \in S} = {ContentVolume(i)} \cup {v.name : v \in r.ssh_volumes \cup r.ca_cert_volumes}
                                 \cup {LogVolume} \cup {m.name : m \in ToSet(extra)}
  <2>1. {m.content[1] : m \in BaseItems(i, extra)} = {ContentVolume(i), LogVolume} \cup {m.name : m \in ToSet(extra)}
    <3>1. {m.content[1] : m \in ExtraItems(extra)} = {m.name : m \in ToSet(extra)}
      <4>1. \A m \in ToSet(extra) : [key |-> m.path, content |-> <<m.name>>].content[1] = m.name
        OBVIOUS
      <4>2. \A m \in ToSet(extra) : m.name \in {x.content[1] : x \in ExtraItems(extra)}
        BY <4>1 DEF ExtraItems
      <4>3. \A x \in ExtraItems(extra) : x.content[1] \in {m.name : m \in ToSet(extra)}
        BY <4>1 DEF ExtraItems
      <4>4. QED
        BY <4>2, <4>3
    <3>2. RootItem(i).content[1] = ContentVolume(i) /\ LogItem.content[1] = LogVolume
      BY DEF RootItem, LogItem
    <3>3. QED
      BY <3>1, <3>2 DEF BaseItems
  <2>2. {m.content[1] : m \in SshItems(i, sync)} = {v.name : v \in r.ssh_volumes}
    <3>1. CASE HasCredentials(sync, "ssh")
      <4>1. {v.name : v \in r.ssh_volumes} = {SshVolume(i)}
        BY <1>1, <3>1
      <4>2. SshItems(i, sync) = {[key |-> SshPath(i), content |-> <<SshVolume(i)>>]}
        BY <3>1 DEF SshItems
      <4> DEFINE x == [key |-> SshPath(i), content |-> <<SshVolume(i)>>]
      <4>3. x.content[1] = SshVolume(i)
        OBVIOUS
      <4>4. SshItems(i, sync) = {x}
        BY <4>2
      <4> HIDE DEF x
      <4>5. {m.content[1] : m \in SshItems(i, sync)} = {SshVolume(i)}
        BY <4>3, <4>4
      <4>6. QED
        BY <4>1, <4>5
    <3>2. CASE ~HasCredentials(sync, "ssh")
      <4>1. {v.name : v \in r.ssh_volumes} = {}
        BY <1>1, <3>2
      <4>2. SshItems(i, sync) = {}
        BY <3>2 DEF SshItems
      <4>3. QED
        BY <4>1, <4>2
    <3>3. QED
      BY <3>1, <3>2
  <2>3. {m.content[1] : m \in CaItems(i, sync)} = {v.name : v \in r.ca_cert_volumes}
    <3>1. CASE needs_ca_cert(sync)
      <4>1. {v.name : v \in r.ca_cert_volumes} = {CaVolume(i)}
        BY <1>1, <3>1
      <4>2. CaItems(i, sync) = {[key |-> CaPath(i), content |-> <<CaVolume(i)>>]}
        BY <3>1 DEF CaItems
      <4> DEFINE x == [key |-> CaPath(i), content |-> <<CaVolume(i)>>]
      <4>3. x.content[1] = CaVolume(i)
        OBVIOUS
      <4>4. CaItems(i, sync) = {x}
        BY <4>2
      <4> HIDE DEF x
      <4>5. {m.content[1] : m \in CaItems(i, sync)} = {CaVolume(i)}
        BY <4>3, <4>4
      <4>6. QED
        BY <4>1, <4>5
    <3>2. CASE ~needs_ca_cert(sync)
      <4>1. {v.name : v \in r.ca_cert_volumes} = {}
        BY <1>1, <3>2
      <4>2. CaItems(i, sync) = {}
        BY <3>2 DEF CaItems
      <4>3. QED
        BY <4>1, <4>2
    <3>3. QED
      BY <3>1, <3>2
  <2>4. {m.content[1] : m \in S} = {m.content[1] : m \in BaseItems(i, extra)}
            \cup {m.content[1] : m \in SshItems(i, sync)} \cup {m.content[1] : m \in CaItems(i, sync)}
    OBVIOUS
  <2>5. {v.name : v \in r.ssh_volumes \cup r.ca_cert_volumes}
            = {v.name : v \in r.ssh_volumes} \cup {v.name : v \in r.ca_cert_volumes}
    OBVIOUS
  <2> HIDE DEF S
  <2>6. QED
    BY <2>1, <2>2, <2>3, <2>4, <2>5
<1>4. ASSUME NEW x \in {"GITSYNC_SSH_KEY_FILE", "GITSYNC_SSH_KNOWN_HOSTS_FILE"},
             x \in DOMAIN env_vars(i, sync, env), x \notin DOMAIN env
      PROVE  env_vars(i, sync, env)[x].directory \in {m.key : m \in S}
  <2>1. CASE HasCredentials(sync, "basicAuth")
    <3> DEFINE own == basic_auth_env(sync.credentials.secret)
    <3>1. env_vars(i, sync, env) = Overlay(own, env)
      BY <2>1 DEF env_vars, HasCredentials
    <3>2. x \notin DOMAIN own
      BY DEF basic_auth_env
    <3> HIDE DEF own
    <3>3. QED
      BY <1>4, <3>1, <3>2 DEF Overlay
  <2>2. CASE HasCredentials(sync, "ssh")
    <3> DEFINE own == [GITSYNC_SSH_KEY_FILE |-> [directory |-> SshPath(i), file |-> "key"],
                       GITSYNC_SSH_KNOWN_HOSTS_FILE |-> [directory |-> SshPath(i), file |-> "knownHosts"]]
    <3>1. env_vars(i, sync, env) = Overlay(own, env)
      BY <2>2 DEF env_vars, HasCredentials
    <3>2. x \in DOMAIN own /\ own[x].directory = SshPath(i)
      OBVIOUS
    <3> HIDE DEF own
    <3>3. env_vars(i, sync, env)[x].directory = SshPath(i)
      BY <1>4, <3>1, <3>2 DEF Overlay
    <3>4. SshPath(i) \in {m.key : m \in SshItems(i, sync)}
      BY <2>2 DEF SshItems
    <3>5. QED
      BY <3>3, <3>4
  <2>3. CASE ~HasCredentials(sync, "basicAuth") /\ ~HasCredentials(sync, "ssh")
    <3>1. env_vars(i, sync, env) = Overlay(<<>>, env)
      BY <2>3 DEF env_vars
    <3>2. DOMAIN <<>> = {}
      OBVIOUS
    <3>3. QED
      BY <1>4, <3>1, <3>2 DEF Overlay
  <2>4. QED
    BY <2>1, <2>2, <2>3
<1>5. ASSUME NEW c \in ToSet(config \o UserItems(sync))
      PROVE  /\ c.key = "http.sslCAInfo" => c.value.directory \in {m.key : m \in S}
             /\ c.key = "safe.directory" => c.value = RootDir
  <2>1. c \in ConfigItems(i, sync) \cup {UserItem(sync)}
    <3>1. ToSet(config \o UserItems(sync)) \subseteq ConfigItems(i, sync) \cup {UserItem(sync)}
      BY ConfigIsLayered
    <3>2. QED
      BY <1>5, <3>1
  <2>2. needs_ca_cert(sync) => ca_cert_path(i).directory \in {m.key : m \in CaItems(i, sync)}
    BY DEF CaItems, ca_cert_path
  <2>3. c.key = "http.sslCAInfo" => needs_ca_cert(sync) /\ c.value = ca_cert_path(i)
    BY <2>1 DEF ConfigItems, UserItem
  <2>4. c.key = "safe.directory" => c.value = RootDir
    BY <2>1 DEF ConfigItems, UserItem
  <2>5. QED
    BY <2>2, <2>3, <2>4
<1>6. [key |-> RootDir, content |-> <<ContentVolume(i)>>] \in S
  BY DEF BaseItems, RootItem
<1>7. content_folder(i, sync)[1] = "/stackable/app/git" /\ content_folder(i, sync)[2] = i
  <2> DEFINE own == <<"/stackable/app/git", i, "current">>
             rest == relative_git_folder(sync)
             T == ToSet(sync.git_folder) \cup {"/stackable/app/git", i, "current"}
  <2>1. rest \in Seq(T)
    <3>1. rest \in Seq(ToSet(sync.git_folder))
      <4> DEFINE folder == sync.git_folder
      <4>1. rest = folder \/ (folder # <<>> /\ rest = Tail(folder))
        BY Zenon DEF relative_git_folder
      <4>2. folder \in Seq(ToSet(folder))
        OBVIOUS
      <4> HIDE DEF folder, rest
      <4>3. QED
        BY <4>1, <4>2, HeadTailProperties DEF folder
    <3>2. ToSet(sync.git_folder) \subseteq T
      OBVIOUS
    <3> HIDE DEF T, rest
    <3>3. QED
      BY <3>1, <3>2
  <2>2. own \in Seq(T) /\ Len(own) = 3 /\ own[1] = "/stackable/app/git" /\ own[2] = i
    OBVIOUS
  <2> HIDE DEF own, rest, T
  <2>3. /\ Len(rest) \in Nat
        /\ \A j \in 1..(Len(own) + Len(rest)) :
              (own \o rest)[j] = IF j <= Len(own) THEN own[j] ELSE rest[j - Len(own)]
    <3>1. own \in Seq(T)
      BY <2>2
    <3>2. QED
      BY <2>1, <3>1, ConcatProperties
  <2>4. (own \o rest)[1] = own[1] /\ (own \o rest)[2] = own[2]
    <3> DEFINE all == own \o rest
               n == Len(own)
               m == Len(rest)
    <3>1. n = 3 /\ m \in Nat /\ \A j \in 1..(n + m) : all[j] = IF j <= n THEN own[j] ELSE rest[j - n]
      BY <2>2, <2>3
    <3> HIDE DEF all, n, m
    <3>2. 1 \in 1..(n + m) /\ 2 \in 1..(n + m) /\ 1 <= n /\ 2 <= n
      BY <3>1
    <3>3. all[1] = own[1] /\ all[2] = own[2]
      BY <3>1, <3>2
    <3>4. QED
      BY <3>3 DEF all
  <2>5. content_folder(i, sync) = own \o rest
    BY DEF content_folder, own, rest
  <2>6. QED
    BY <2>2, <2>4, <2>5
<1>8. \A k \in DOMAIN r.content_mount.key : r.content_folder[k] = r.content_mount.key[k]
  <2>1. r.content_mount.key = <<"/stackable/app/git", i>>
    BY <1>1
  <2>2. DOMAIN r.content_mount.key = {1, 2} /\ r.content_mount.key[1] = "/stackable/app/git"
        /\ r.content_mount.key[2] = i
    BY <2>1
  <2>3. QED
    BY <1>1, <1>7, <2>2
<1> HIDE DEF S, config
<1>9. /\ {m.content[1] : m \in ToSet(r.container.mounts)}
            = ({r.content_volume} \cup {v.name : v \in r.ssh_volumes \cup r.ca_cert_volumes})
              \cup {LogVolume} \cup {m.name : m \in ToSet(extra)}
      /\ \A x \in ({"GITSYNC_SSH_KEY_FILE", "GITSYNC_SSH_KNOWN_HOSTS_FILE"} \cap DOMAIN r.container.env) \ DOMAIN env :
            r.container.env[x].directory \in {m.key : m \in ToSet(r.container.mounts)}
  <2>1. {m.content[1] : m \in ToSet(r.container.mounts)}
            = ({r.content_volume} \cup {v.name : v \in r.ssh_volumes \cup r.ca_cert_volumes})
              \cup {LogVolume} \cup {m.name : m \in ToSet(extra)}
    BY <1>1, <1>3
  <2>2. QED
    BY <1>1, <1>4, <2>1
<1>10. \A c \in ToSet(r.container.args["--git-config"]) :
          /\ c.key = "http.sslCAInfo" => c.value.directory \in {m.key : m \in ToSet(r.container.mounts)}
          /\ c.key = "safe.directory" => c.value = r.container.args["--root"]
  BY <1>1, <1>2, <1>5
<1>11. /\ [key |-> r.container.args["--root"], content |-> r.content_mount.content] \in ToSet(r.container.mounts)
       /\ r.init_container.mounts = r.container.mounts
  <2>1. r.container.args["--root"] = RootDir /\ r.content_mount.content = <<ContentVolume(i)>>
    <3>1. r.content_mount = [key |-> <<"/stackable/app/git", i>>, content |-> <<ContentVolume(i)>>]
      BY <1>1
    <3>2. r.container.args["--root"] = RootDir
      BY <1>1, <1>2, Zenon
    <3>3. r.content_mount.content = <<ContentVolume(i)>>
      BY <3>1
    <3>4. QED
      BY <3>2, <3>3
  <2>2. QED
    BY <1>1, <1>6, <2>1
<1>12. HasItsFiles(r, extra, env)
  BY <1>8, <1>9, <1>10, <1>11 DEF HasItsFiles
<1>13. QED
  BY <1>12 DEF r

\* The containers of a repository follow the operator, and the user elsewhere.
LEMMA RepositoryObeysTheOperator ==
  ASSUME NEW i, NEW sync, NEW extra, extra \in Seq(ToSet(extra)), NEW env,
         GitSyncResource(i, sync, extra, env).ok
  PROVE  ObeysTheOperator(sync, GitSyncResource(i, sync, extra, env).value)
<1> DEFINE r == GitSyncResource(i, sync, extra, env).value
           config == internal_git_config(i, sync)
           user == sync.git_sync_conf
<1>1. /\ r.container.args = args(sync, FALSE, config)
      /\ r.init_container.args = args(sync, TRUE, config)
  <2>1. IsBuiltFrom(r, i, sync, extra, env)
    BY ResourceIsBuilt
  <2> HIDE DEF r
  <2>2. QED
    BY <2>1, Zenon DEF IsBuiltFrom
<1>2. /\ Layered(r.container.args, sync, FALSE, config)
      /\ Layered(r.init_container.args, sync, TRUE, config)
  <2>1. /\ Layered(args(sync, FALSE, config), sync, FALSE, config)
        /\ Layered(args(sync, TRUE, config), sync, TRUE, config)
    BY ArgsAreLayered, Zenon
  <2>2. QED
    BY <1>1, <2>1, Zenon
<1>3. \A x \in OptionNames : x # "--one-time" => internal_args(sync, FALSE)[x] = internal_args(sync, TRUE)[x]
  BY DEF internal_args, OptionNames
<1>4. "--git-config" \in DOMAIN user => Last(config \o UserItems(sync)).value = user["--git-config"]
  <2>1. "--git-config" \in DOMAIN user => Last(config \o UserItems(sync)) = UserItem(sync)
    BY ConfigIsLayered
  <2>2. UserItem(sync).value = user["--git-config"]
    BY DEF UserItem
  <2>3. QED
    BY <2>1, <2>2
<1>5. "--one-time" \in OptionNames
  BY DEF OptionNames
<1> HIDE DEF r, config
<1>6. \A x \in DOMAIN internal_args(sync, FALSE) :
          /\ r.container.args[x] = internal_args(sync, FALSE)[x]
          /\ x # "--one-time" => r.init_container.args[x] = r.container.args[x]
  BY <1>2, <1>3, Zenon DEF Layered
<1>7. \A x \in DOMAIN user \ (DOMAIN internal_args(sync, FALSE) \cup {"--git-config"}) : r.container.args[x] = user[x]
  BY <1>2, Zenon DEF Layered
<1>8. "--git-config" \in DOMAIN user => Last(r.container.args["--git-config"]).value = user["--git-config"]
  BY <1>2, <1>4, Zenon DEF Layered
<1>9. r.init_container.args["--one-time"] /\ ~r.container.args["--one-time"]
  BY <1>2, <1>5, Zenon DEF Layered
<1>10. ObeysTheOperator(sync, r)
  BY <1>6, <1>7, <1>8, <1>9, Zenon DEF ObeysTheOperator
<1>11. QED
  BY <1>10 DEF r

(***************************************************************************)
(* GitSync: upgrades                                                       *)
(***************************************************************************)
\* A list of results is an error, or each of them succeeded.
LEMMA AllSucceeded ==
  ASSUME NEW results, DOMAIN results \subseteq Nat, FirstError(results).ok
  PROVE  /\ \A i \in DOMAIN results : results[i].ok
         /\ FirstError(results).value = [i \in DOMAIN results |-> results[i].value]
<1> DEFINE failed == {i \in DOMAIN results : ~results[i].ok}
           first == CHOOSE i \in failed : \A j \in failed : i <= j
<1>1. FirstError(results) = IF failed # {} THEN results[first] ELSE Ok([i \in DOMAIN results |-> results[i].value])
  BY DEF FirstError
<1>2. ASSUME failed # {} PROVE FALSE
  <2>1. \E i \in failed : \A j \in failed : i <= j
    <3>1. failed \subseteq Nat
      OBVIOUS
    <3> HIDE DEF failed
    <3>2. QED
      BY <1>2, <3>1, LeastNumber
  <2>2. first \in failed
    BY <2>1
  <2>3. ~results[first].ok
    BY <2>2
  <2>4. FirstError(results) = results[first]
    BY <1>1, <1>2
  <2> HIDE DEF first, failed
  <2>5. QED
    BY <2>3, <2>4
<1>3. \A i \in DOMAIN results : results[i].ok
  BY <1>2
<1>4. FirstError(results) = Ok([i \in DOMAIN results |-> results[i].value])
  BY <1>1, <1>2
<1>5. QED
  BY <1>3, <1>4 DEF Ok

\* What a downgrade to v1alpha1 and an upgrade make of a specification.
LEMMA DownAndUp ==
  ASSUME NEW sync, IsGitSync(sync)
  PROVE  LET old == DowngradedSync(sync)
             new == UpgradedSync(old)
         IN  /\ old = [sync EXCEPT !.credentials = old.credentials]
             /\ new = [sync EXCEPT !.credentials = new.credentials]
             /\ \/ old.credentials = None /\ new.credentials = None
                \/ /\ old.credentials # None /\ new.credentials # None
                   /\ new.credentials = [type |-> "basicAuth", secret |-> old.credentials]
             /\ new = sync \/ (HasCredentials(sync, "ssh") /\ new.credentials = None)
<1> DEFINE old == DowngradedSync(sync)
           new == UpgradedSync(old)
<1>0. sync = [repo |-> sync.repo, git_folder |-> sync.git_folder, git_sync_conf |-> sync.git_sync_conf,
              credentials |-> sync.credentials, tls |-> sync.tls]
  BY DEF IsGitSync
<1>1. /\ old.credentials = credentials_to_secret(sync.credentials)
      /\ old = [sync EXCEPT !.credentials = old.credentials]
  BY <1>0 DEF DowngradedSync
<1>2. /\ new.credentials = credentials_secret_to_basic_auth(old.credentials)
      /\ new = [sync EXCEPT !.credentials = new.credentials]
  <2>1. DOMAIN old = DOMAIN sync /\ "credentials" \in DOMAIN sync
    BY <1>0, <1>1
  <2>2. new = [old EXCEPT !.credentials = credentials_secret_to_basic_auth(@)]
    BY DEF UpgradedSync
  <2> HIDE DEF old, new
  <2>3. new.credentials = credentials_secret_to_basic_auth(old.credentials)
    BY <2>1, <2>2
  <2>4. new = [sync EXCEPT !.credentials = new.credentials]
    BY <1>0, <1>1, <2>1, <2>2
  <2>5. QED
    BY <2>3, <2>4
<1> HIDE DEF old, new
<1>3. CASE sync.credentials = None
  <2>1. old.credentials = None
    BY <1>1, <1>3 DEF credentials_to_secret
  <2>2. new.credentials = None
    BY <1>2, <2>1 DEF credentials_secret_to_basic_auth
  <2>3. new = sync
    BY <1>0, <1>2, <1>3, <2>2
  <2>4. QED
    BY <1>1, <1>2, <2>1, <2>2, <2>3 DEF old, new
<1>4. CASE sync.credentials # None /\ sync.credentials.type = "basicAuth"
  <2>1. /\ sync.credentials.secret # None
        /\ sync.credentials = [type |-> sync.credentials.type, secret |-> sync.credentials.secret]
    BY <1>4 DEF IsGitSync
  <2>2. old.credentials = sync.credentials.secret
    BY <1>1, <1>4 DEF credentials_to_secret
  <2>3. new.credentials = [type |-> "basicAuth", secret |-> old.credentials]
    BY <1>2, <2>1, <2>2 DEF credentials_secret_to_basic_auth
  <2>4. new.credentials = sync.credentials
    BY <1>4, <2>1, <2>2, <2>3
  <2>5. new = sync
    BY <1>0, <1>2, <2>4
  <2>6. QED
    BY <1>1, <1>2, <1>4, <2>1, <2>2, <2>3, <2>4, <2>5 DEF old, new
<1>5. CASE sync.credentials # None /\ sync.credentials.type = "ssh"
  <2>1. old.credentials = None
    BY <1>1, <1>5 DEF credentials_to_secret
  <2>2. new.credentials = None
    BY <1>2, <2>1 DEF credentials_secret_to_basic_auth
  <2>3. QED
    BY <1>1, <1>2, <1>5, <2>1, <2>2 DEF HasCredentials, old, new
<1>6. QED
  BY <1>3, <1>4, <1>5 DEF IsGitSync

\* Both versions build the same from specifications that say the same.
LEMMA SameResource ==
  ASSUME NEW i, NEW sync, NEW old, NEW new, IsGitSync(sync),
         old = [sync EXCEPT !.credentials = old.credentials], new = [sync EXCEPT !.credentials = new.credentials],
         \/ old.credentials = None /\ new.credentials = None
         \/ /\ old.credentials # None /\ new.credentials # None
            /\ new.credentials = [type |-> "basicAuth", secret |-> old.credentials],
         scheme_check(new), new.tls # None => new.tls.verification = "webPki",
         NEW extra, extra \in Seq(ToSet(extra)), NEW env
  PROVE  GitSyncResource_v1alpha1(i, old, extra, env) = GitSyncResource(i, new, extra, env)
<1>1. /\ old.repo = new.repo /\ old.git_folder = new.git_folder
      /\ old.git_sync_conf = new.git_sync_conf /\ old.tls = new.tls
  BY DEF IsGitSync
<1>2. ~HasCredentials(new, "ssh") /\ (HasCredentials(new, "basicAuth") <=> old.credentials # None)
  <2>1. CASE new.credentials = None
    BY <2>1 DEF HasCredentials
  <2>2. CASE new.credentials # None
    <3>1. new.credentials.type = "basicAuth"
      BY <2>2
    <3>2. QED
      BY <2>2, <3>1 DEF HasCredentials
  <2>3. QED
    BY <2>1, <2>2
<1>3. HasCredentials(new, "basicAuth") => new.credentials.secret = old.credentials
  BY <1>2
<1>4. ~needs_ca_cert(new)
  <2>1. CASE new.tls = None
    BY <2>1 DEF needs_ca_cert, tls_ca_cert_secret_class
  <2>2. CASE new.tls # None
    <3>1. new.tls.verification # "secretClass"
      BY <2>2
    <3>2. QED
      BY <3>1 DEF needs_ca_cert, tls_ca_cert_secret_class
  <2>3. QED
    BY <2>1, <2>2
<1>5. volume_mounts(i, new, extra) = root_and_log_mounts(i, extra)
  <2> DEFINE base == root_and_log_mounts(i, extra)
             S == BaseItems(i, extra)
  <2>1. base \in Seq(S)
    BY BaseMounts
  <2>2. volume_mounts(i, new, extra) = base \o <<>> \o <<>>
    BY <1>2, <1>4 DEF volume_mounts, ssh_mounts
  <2> HIDE DEF base, S
  <2>3. base \o <<>> = base
    BY <2>1, ConcatEmptySeq
  <2>4. volume_mounts(i, new, extra) = base
    BY <2>2, <2>3, Zenon
  <2>5. QED
    BY <2>4 DEF base
<1>6. env_vars(i, new, env)
         = Overlay(IF old.credentials = None THEN <<>> ELSE basic_auth_env(old.credentials), env)
  <2>1. CASE old.credentials = None
    BY <1>2, <2>1 DEF env_vars
  <2>2. CASE old.credentials # None
    BY <1>2, <1>3, <2>2 DEF env_vars
  <2>3. QED
    BY <2>1, <2>2
<1>7. internal_git_config(i, new) = <<[key |-> "safe.directory", value |-> RootDir]>>
  <2> DEFINE c == <<[key |-> "safe.directory", value |-> RootDir]>>
             S == {[key |-> "safe.directory", value |-> RootDir]}
  <2>1. ~(new.tls # None /\ new.tls.verification = "none")
    OBVIOUS
  <2>2. internal_git_config(i, new) = <<>> \o <<>> \o c
    BY <1>4, <2>1 DEF internal_git_config
  <2>3. c \in Seq(S)
    OBVIOUS
  <2>4. <<>> \in Seq(S)
    OBVIOUS
  <2> HIDE DEF c, S
  <2>5. <<>> \o <<>> = <<>> /\ <<>> \o c = c
    BY <2>3, <2>4, ConcatEmptySeq
  <2>6. internal_git_config(i, new) = c
    BY <2>2, <2>5, Zenon
  <2>7. QED
    BY <2>6 DEF c
<1>8. EnvVarError(IF HasCredentials(new, "basicAuth") THEN new.credentials.secret ELSE None, env)
         = EnvVarError(old.credentials, env)
  <2>1. (IF HasCredentials(new, "basicAuth") THEN new.credentials.secret ELSE None) = old.credentials
    BY <1>2, <1>3
  <2>2. QED
    BY <2>1, Zenon
<1> DEFINE mounts == root_and_log_mounts(i, extra)
           vars == Overlay(IF old.credentials = None THEN <<>> ELSE basic_auth_env(old.credentials), env)
           config == <<[key |-> "safe.directory", value |-> RootDir]>>
<1>9. ASSUME NEW o
      PROVE  create_git_sync_container(i, old, o, mounts, vars, config)
               = create_git_sync_container(i, new, o, mounts, vars, config)
  <2>1. internal_args(old, o) = internal_args(new, o)
    BY <1>1, Zenon DEF internal_args
  <2>2. args(old, o, config) = args(new, o, config)
    <3> HIDE DEF config
    <3>1. QED
      BY <1>1, <2>1, Zenon DEF args
  <2> HIDE DEF mounts, vars, config
  <2>3. QED
    BY <2>2, Zenon DEF create_git_sync_container
<1>10. content_folder(i, old) = content_folder(i, new)
  BY <1>1, Zenon DEF content_folder, relative_git_folder
<1> DEFINE e == EnvVarError(old.credentials, env)
           c(o) == create_git_sync_container(i, new, o, mounts, vars, config)
           built(s) == ContentResource(i, s, c(FALSE).value, c(TRUE).value, {}, {})
<1>11. built(old) = built(new)
  <2> HIDE DEF c
  <2>1. QED
    BY <1>10, Zenon DEF ContentResource
<1>12. GitSyncResource_v1alpha1(i, old, extra, env)
         = IF ~e.ok THEN e ELSE IF ~c(FALSE).ok THEN c(FALSE) ELSE Ok(built(old))
  <2>1. /\ create_git_sync_container(i, old, FALSE, mounts, vars, config) = c(FALSE)
        /\ create_git_sync_container(i, old, TRUE, mounts, vars, config) = c(TRUE)
    <3> HIDE DEF mounts, vars, config
    <3>1. QED
      BY <1>9, Zenon
  <2>2. QED
    BY <2>1, Zenon DEF GitSyncResource_v1alpha1
<1>13. GitSyncResource(i, new, extra, env)
         = IF ~e.ok THEN e ELSE IF ~c(FALSE).ok THEN c(FALSE) ELSE Ok(built(new))
  BY <1>2, <1>4, <1>5, <1>6, <1>7, <1>8, Zenon DEF GitSyncResource
<1> DEFINE failed == c(FALSE)
           b == built(new)
           all(x) == IF ~e.ok THEN e ELSE IF ~failed.ok THEN failed ELSE Ok(x)
<1>14. /\ GitSyncResource_v1alpha1(i, old, extra, env) = all(built(old))
       /\ GitSyncResource(i, new, extra, env) = all(built(new))
  BY <1>12, <1>13, Zenon
<1> HIDE DEF all, built
<1>15. QED
  BY <1>11, <1>14, Zenon

\* Upgrading changes nothing but what v1alpha1 cannot say.
LEMMA UpgradeKeeps ==
  ASSUME NEW syncs, DOMAIN syncs \subseteq Nat, \A i \in DOMAIN syncs : IsGitSync(syncs[i]),
         NEW extra, extra \in Seq(ToSet(extra)), NEW env
  PROVE  KeptByUpgrade(syncs, extra, env)
<1> DEFINE old == [i \in DOMAIN syncs |-> DowngradedSync(syncs[i])]
           new == [i \in DOMAIN old |-> UpgradedSync(old[i])]
<1>1. DOMAIN old = DOMAIN syncs /\ DOMAIN new = DOMAIN syncs
  OBVIOUS
<1>2. ASSUME NEW i \in DOMAIN syncs
      PROVE  /\ old[i] = [syncs[i] EXCEPT !.credentials = old[i].credentials]
             /\ new[i] = [syncs[i] EXCEPT !.credentials = new[i].credentials]
             /\ \/ old[i].credentials = None /\ new[i].credentials = None
                \/ /\ old[i].credentials # None /\ new[i].credentials # None
                   /\ new[i].credentials = [type |-> "basicAuth", secret |-> old[i].credentials]
             /\ new[i] = syncs[i] \/ (HasCredentials(syncs[i], "ssh") /\ new[i].credentials = None)
  <2>1. old[i] = DowngradedSync(syncs[i]) /\ new[i] = UpgradedSync(DowngradedSync(syncs[i]))
    OBVIOUS
  <2>2. IsGitSync(syncs[i])
    OBVIOUS
  <2> HIDE DEF old, new
  <2>3. QED
    BY <2>1, <2>2, DownAndUp
<1> HIDE DEF old, new
<1>3. ASSUME \A i \in DOMAIN new : /\ scheme_check(new[i])
                                   /\ new[i].tls # None => new[i].tls.verification = "webPki"
      PROVE  GitSyncResources_new_v1alpha1(old, extra, env) = GitSyncResources_new(new, extra, env)
  <2>1. ASSUME NEW i \in DOMAIN syncs
        PROVE  GitSyncResource_v1alpha1(i, old[i], extra, env) = GitSyncResource(i, new[i], extra, env)
    <3> DEFINE o == old[i]
               n == new[i]
               s == syncs[i]
    <3>1. /\ o = [s EXCEPT !.credentials = o.credentials] /\ n = [s EXCEPT !.credentials = n.credentials]
          /\ \/ o.credentials = None /\ n.credentials = None
             \/ /\ o.credentials # None /\ n.credentials # None
                /\ n.credentials = [type |-> "basicAuth", secret |-> o.credentials]
      BY <1>2
    <3>2. scheme_check(n) /\ (n.tls # None => n.tls.verification = "webPki") /\ IsGitSync(s)
      BY <1>1, <1>3
    <3> HIDE DEF o, n, s
    <3>3. GitSyncResource_v1alpha1(i, o, extra, env) = GitSyncResource(i, n, extra, env)
      BY <3>1, <3>2, SameResource
    <3>4. QED
      BY <3>3 DEF o, n
  <2>2. [i \in DOMAIN old |-> GitSyncResource_v1alpha1(i, old[i], extra, env)]
           = [i \in DOMAIN new |-> GitSyncResource(i, new[i], extra, env)]
    BY <1>1, <2>1
  <2>3. QED
    BY <2>2, Zenon DEF GitSyncResources_new_v1alpha1, GitSyncResources_new
<1>4. \A i \in DOMAIN new : new[i] = syncs[i] \/ (HasCredentials(syncs[i], "ssh") /\ new[i].credentials = None)
  BY <1>1, <1>2
<1>5. QED
  BY <1>3, <1>4, Zenon DEF old, new, KeptByUpgrade

\* The inductive invariant: what is there was built from what was asked for.
GitSyncInv ==
  synced # None =>
      /\ synced.syncs \in GitSyncs /\ synced.mounts \in ExtraMounts
      /\ synced.resources = GitSyncResources_new(synced.syncs, synced.mounts, synced.env)

\* What was built is built from what was asked for, always.
LEMMA GitSyncInvariant == GitSyncSpec => []GitSyncInv
<1>1. GitSyncInit => GitSyncInv
  BY DEF GitSyncInit, GitSyncInv
<1>2. GitSyncInv /\ [GitSyncNext]_synced => GitSyncInv'
  <2>1. ASSUME GitSyncNext PROVE GitSyncInv'
    <3>1. PICK s \in GitSyncs, m \in ExtraMounts, e \in ExtraEnvVars :
              synced' = [syncs |-> s, mounts |-> m, env |-> e, resources |-> GitSyncResources_new(s, m, e)]
      BY <2>1 DEF GitSyncNext
    <3>2. synced'.syncs = s /\ synced'.mounts = m /\ synced'.env = e
          /\ synced'.resources = GitSyncResources_new(s, m, e)
      BY <3>1
    <3>3. QED
      BY <3>2 DEF GitSyncInv
  <2>2. ASSUME GitSyncInv, UNCHANGED synced PROVE GitSyncInv'
    BY <2>2 DEF GitSyncInv
  <2>3. QED
    BY <2>1, <2>2
<1>3. QED
  BY <1>1, <1>2, PTL DEF GitSyncSpec

\* For any specifications of repositories and any mounts and variables of the
\* caller: each git-sync container has a volume for every mount and a mount for
\* every file it is told of, and obeys the options of the operator and otherwise
\* those of the user; a specification of v1alpha1 and its upgrade build the same.
THEOREM GitSyncIsAlwaysComplete == GitSyncSpec => []GitSyncIsComplete
<1>1. ASSUME GitSyncInv, synced # None
      PROVE  /\ DOMAIN synced.syncs \subseteq Nat /\ synced.mounts \in Seq(ToSet(synced.mounts))
             /\ \A i \in DOMAIN synced.syncs : IsGitSync(synced.syncs[i])
             /\ synced.resources = GitSyncResources_new(synced.syncs, synced.mounts, synced.env)
  <2>1. /\ synced.syncs \in GitSyncs /\ synced.mounts \in ExtraMounts
        /\ synced.resources = GitSyncResources_new(synced.syncs, synced.mounts, synced.env)
    BY <1>1 DEF GitSyncInv
  <2> DEFINE q == synced.syncs
  <2>2. q \in Seq(ToSet(q)) /\ \A i \in DOMAIN q : IsGitSync(q[i])
    BY <2>1, GitSyncConstants
  <2>3. DOMAIN q \subseteq Nat
    <3> HIDE DEF q
    <3>1. QED
      BY <2>2
  <2>4. synced.mounts \in Seq(ToSet(synced.mounts))
    BY <2>1, GitSyncConstants
  <2>5. QED
    BY <2>1, <2>2, <2>3, <2>4
<1>2. ASSUME GitSyncInv, BuiltAll, NEW i \in DOMAIN synced.syncs
      PROVE  LET r == GitSyncResource(i, synced.syncs[i], synced.mounts, synced.env)
             IN  r.ok /\ synced.resources.value[i] = r.value
  <2> DEFINE results == [j \in DOMAIN synced.syncs |-> GitSyncResource(j, synced.syncs[j], synced.mounts, synced.env)]
  <2>1. synced.resources = FirstError(results) /\ synced.resources.ok /\ DOMAIN results \subseteq Nat
    BY <1>1, <1>2 DEF BuiltAll, GitSyncResources_new
  <2>2. results[i] = GitSyncResource(i, synced.syncs[i], synced.mounts, synced.env) /\ i \in DOMAIN results
    BY <1>2
  <2> HIDE DEF results
  <2>3. /\ \A j \in DOMAIN results : results[j].ok
        /\ FirstError(results).value = [j \in DOMAIN results |-> results[j].value]
    BY <2>1, AllSucceeded
  <2>4. results[i].ok /\ synced.resources.value[i] = results[i].value
    BY <2>1, <2>2, <2>3
  <2>5. QED
    BY <2>2, <2>4
<1>3. GitSyncInv => GitFilesAreMounted
  <2>1. ASSUME GitSyncInv, BuiltAll, NEW i \in DOMAIN synced.syncs
        PROVE  HasItsFiles(synced.resources.value[i], synced.mounts, synced.env)
    <3> DEFINE sync == synced.syncs[i]
               extra == synced.mounts
               r == GitSyncResource(i, sync, extra, synced.env)
    <3>1. r.ok /\ synced.resources.value[i] = r.value
      BY <1>2, <2>1
    <3>2. extra \in Seq(ToSet(extra)) /\ sync.git_folder \in Seq(ToSet(sync.git_folder))
      BY <1>1, <2>1 DEF BuiltAll, IsGitSync
    <3> HIDE DEF sync, extra
    <3>3. HasItsFiles(r.value, extra, synced.env)
      BY <3>1, <3>2, RepositoryHasItsFiles
    <3>4. QED
      BY <3>1, <3>3 DEF extra
  <2>2. QED
    BY <2>1 DEF GitFilesAreMounted
<1>4. GitSyncInv => InternalOptionsAreKept
  <2>1. ASSUME GitSyncInv, BuiltAll, NEW i \in DOMAIN synced.syncs
        PROVE  ObeysTheOperator(synced.syncs[i], synced.resources.value[i])
    <3> DEFINE sync == synced.syncs[i]
               extra == synced.mounts
               r == GitSyncResource(i, sync, extra, synced.env)
    <3>1. r.ok /\ synced.resources.value[i] = r.value
      BY <1>2, <2>1
    <3>2. extra \in Seq(ToSet(extra))
      BY <1>1, <2>1 DEF BuiltAll
    <3> HIDE DEF sync, extra
    <3>3. ObeysTheOperator(sync, r.value)
      BY <3>1, <3>2, RepositoryObeysTheOperator
    <3>4. QED
      BY <3>1, <3>3 DEF sync
  <2>2. QED
    BY <2>1 DEF InternalOptionsAreKept
<1>5. GitSyncInv => UpgradeKeepsResources
  <2>1. ASSUME GitSyncInv, synced # None PROVE UpgradeKeepsResources
    <3>1. /\ DOMAIN synced.syncs \subseteq Nat /\ synced.mounts \in Seq(ToSet(synced.mounts))
          /\ \A i \in DOMAIN synced.syncs : IsGitSync(synced.syncs[i])
      BY <1>1, <2>1
    <3>2. QED
      BY <2>1, <3>1, UpgradeKeeps DEF UpgradeKeepsResources
  <2>2. QED
    BY <2>1 DEF UpgradeKeepsResources
<1>6. GitSyncInv => GitSyncIsComplete
  BY <1>3, <1>4, <1>5 DEF GitSyncIsComplete
<1>7. QED
  BY <1>6, GitSyncInvariant, PTL


(***************************************************************************)
(* PodBuilder: calls and what they add                                     *)
(***************************************************************************)
\* The history after one more call.
LEMMA OneMoreCall ==
  ASSUME NEW H, history \in Seq(H), NEW h \in H, history' = Append(history, h)
  PROVE  /\ history' \in Seq(H) /\ Len(history) \in Nat
         /\ DOMAIN history = 1..Len(history) /\ DOMAIN history' = 1..(Len(history) + 1)
         /\ history'[Len(history) + 1] = h
         /\ \A i \in 1..Len(history) : history'[i] = history[i] /\ history[i] \in H
OBVIOUS

\* The last call about a field decides it.
LEMMA LastCallStep ==
  ASSUME NEW H, history \in Seq(H), NEW c, NEW ok \in BOOLEAN, [call |-> c, ok |-> ok] \in H,
         history' = Append(history, [call |-> c, ok |-> ok]), NEW f
  PROVE  Decided(f)' = IF ok /\ f \in DOMAIN Writes(c) THEN Writes(c)[f] ELSE Decided(f)
<1> DEFINE n == Len(history)
           says(h) == h.ok /\ f \in DOMAIN Writes(h.call)
           about == {i \in DOMAIN history : says(history[i])}
           aboutNext == {i \in DOMAIN history' : says(history'[i])}
           lastOf(s) == CHOOSE i \in s : \A j \in s : j <= i
           h == [call |-> c, ok |-> ok]
<1>1. /\ n \in Nat /\ DOMAIN history = 1..n /\ DOMAIN history' = 1..(n + 1) /\ history'[n + 1] = h
      /\ \A i \in 1..n : history'[i] = history[i]
  BY OneMoreCall
<1>2. Decided(f) = IF about = {} THEN None ELSE Writes(history[lastOf(about)].call)[f]
  BY DEF Decided
<1>3. Decided(f)' = IF aboutNext = {} THEN None ELSE Writes(history'[lastOf(aboutNext)].call)[f]
  BY DEF Decided
<1>4. says(h) <=> (ok /\ f \in DOMAIN Writes(c))
  OBVIOUS
<1>5. h.call = c
  OBVIOUS
<1> HIDE DEF says, h, n
<1>6. about \subseteq 1..n /\ aboutNext = IF says(h) THEN about \cup {n + 1} ELSE about
  BY <1>1
<1> HIDE DEF about, aboutNext
<1>7. CASE says(h)
  <2>1. lastOf(aboutNext) = n + 1
    <3>0. aboutNext = about \cup {n + 1}
      BY <1>6, <1>7
    <3>1. n + 1 \in aboutNext
      BY <3>0
    <3>1a. \A j \in aboutNext : j \in Int /\ j <= n + 1
      BY <1>1, <1>6, <3>0
    <3>2. \A i \in aboutNext : (\A j \in aboutNext : j <= i) => i = n + 1
      <4>1. ASSUME NEW i \in aboutNext, n + 1 <= i PROVE i = n + 1
        BY <1>1, <3>1a, <4>1
      <4>2. QED
        BY <3>1, <4>1
    <3>3. QED
      BY <3>1, <3>1a, <3>2
  <2>2. aboutNext # {}
    BY <1>6, <1>7
  <2> HIDE DEF lastOf
  <2>3. QED
    BY <1>1, <1>3, <1>4, <1>5, <1>7, <2>1, <2>2
<1>8. CASE ~says(h)
  <2>1. aboutNext = about
    BY <1>6, <1>8
  <2>2. ASSUME about # {} PROVE lastOf(about) \in 1..n
    <3>1. \E i \in about : \A j \in about : j <= i
      <4>1. about \subseteq Nat /\ \A j \in about : j <= n
        BY <1>1, <1>6
      <4>2. QED
        BY <1>1, <2>2, <4>1, GreatestNumber
    <3>2. QED
      BY <1>6, <3>1
  <2> HIDE DEF lastOf
  <2>3. QED
    BY <1>1, <1>2, <1>3, <1>4, <1>8, <2>1, <2>2
<1>9. QED
  BY <1>7, <1>8

\* What a call makes of the items of a builder b, if it offers those in `new`.
Grown(b, new, r) ==
  /\ Distinct(r.value)
  /\ Range(b.items) \subseteq Range(r.value.items)
  /\ Range(r.value.items) \subseteq Range(b.items) \cup new
  /\ r.ok => new \subseteq Range(r.value.items)

\* A call that offers nothing leaves the items as they are.
LEMMA ItemsStay ==
  ASSUME NEW b, NEW r, Distinct(b), r.value.items = b.items
  PROVE  Grown(b, {}, r)
BY DEF Grown, Distinct

\* Volumes are added to the items, and nothing else of the builder changes.
LEMMA ItemsAreAdded ==
  ASSUME NEW I, NEW b, b.items \in Seq(I), b = [b EXCEPT !.items = b.items], "items" \in DOMAIN b,
         Distinct(b), NEW new \in Seq(I)
  PROVE  /\ add_volumes(b, new).ok \in BOOLEAN
         /\ \E s \in Seq(I) : add_volumes(b, new).value = [b EXCEPT !.items = s]
         /\ Grown(b, Range(new), add_volumes(b, new))
<1> DEFINE B == {[b EXCEPT !.items = s] : s \in Seq(I)}
           r == add_volumes(b, new)
<1>1. \A s \in Seq(I) : [b EXCEPT !.items = s] \in B /\ [b EXCEPT !.items = s].items = s
  OBVIOUS
<1>2. Collects(B, I)
  <2>1. ASSUME NEW e \in B
        PROVE  /\ e.items \in Seq(I)
               /\ \A s \in Seq(I) : [e EXCEPT !.items = s] \in B /\ [e EXCEPT !.items = s].items = s
    <3>1. PICK t \in Seq(I) : e = [b EXCEPT !.items = t]
      OBVIOUS
    <3>2. e.items = t
      BY <3>1
    <3>3. ASSUME NEW s \in Seq(I) PROVE [e EXCEPT !.items = s] = [b EXCEPT !.items = s]
      BY <3>1
    <3>4. QED
      BY <1>1, <3>2, <3>3
  <2>2. QED
    BY <2>1 DEF Collects
<1>3. b \in B
  OBVIOUS
<1> HIDE DEF B
<1>4. r \in Results(B) /\ Collected(b, ToSet(new), r)
  BY <1>2, <1>3, AddVolumesCollects
<1>5. ToSet(new) = Range(new) /\ ToSet(b.items) = Range(b.items) /\ ToSet(r.value.items) = Range(r.value.items)
  BY DEF ToSet, Range
<1>6. r.ok \in BOOLEAN /\ r.value \in B
  BY <1>4 DEF Results
<1> HIDE DEF r
<1>7. Grown(b, Range(new), r)
  BY <1>4, <1>5 DEF Collected, Grown
<1>8. \E s \in Seq(I) : r.value = [b EXCEPT !.items = s]
  BY <1>6 DEF B
<1>9. QED
  BY <1>6, <1>7, <1>8 DEF r

\* The items that calls on builders of this kind offer.
Offers(calls) == UNION {Range(Offered(c)) : c \in calls}

\* Whatever has items keeps them apart, and has those of the calls that succeeded.
ItemsFollow(b, calls) ==
  /\ b.items \in Seq(Offers(calls)) /\ Distinct(b)
  /\ \A i \in DOMAIN history : history[i].ok => Range(Offered(history[i].call)) \subseteq Range(b.items)
  /\ Range(b.items) \subseteq UNION {Range(Offered(history[i].call)) : i \in DOMAIN history}

\* One more call keeps this.
LEMMA ItemsFollowStep ==
  ASSUME NEW calls, history \in Seq([call : calls, ok : BOOLEAN]), NEW c \in calls, NEW b, NEW r,
         ItemsFollow(b, calls), r.ok \in BOOLEAN, Grown(b, Range(Offered(c)), r),
         r.value.items \in Seq(Offers(calls)), history' = Append(history, [call |-> c, ok |-> r.ok]),
         builder' = r.value
  PROVE  /\ builder'.items \in Seq(Offers(calls)) /\ Distinct(builder')
         /\ \A i \in DOMAIN history' : history'[i].ok => Range(Offered(history'[i].call)) \subseteq Range(builder'.items)
         /\ Range(builder'.items) \subseteq UNION {Range(Offered(history'[i].call)) : i \in DOMAIN history'}
<1> DEFINE n == Len(history)
           h == [call |-> c, ok |-> r.ok]
           items == builder'.items
<1>1. /\ n \in Nat /\ DOMAIN history = 1..n /\ DOMAIN history' = 1..(n + 1) /\ history'[n + 1] = h
      /\ \A i \in 1..n : history'[i] = history[i]
  BY OneMoreCall
<1>2. h.call = c /\ (h.ok <=> r.ok) /\ items = r.value.items
  OBVIOUS
<1> HIDE DEF n, h
<1>3. items \in Seq(Offers(calls)) /\ Distinct(builder')
  BY DEF Grown
<1>4. ASSUME NEW i \in DOMAIN history', history'[i].ok PROVE Range(Offered(history'[i].call)) \subseteq Range(items)
  <2>1. CASE i = n + 1
    BY <1>1, <1>2, <1>4, <2>1 DEF Grown
  <2>2. CASE i # n + 1
    <3>1. i \in DOMAIN history /\ history'[i] = history[i]
      BY <1>1, <2>2
    <3>2. Range(Offered(history[i].call)) \subseteq Range(b.items)
      BY <1>4, <3>1 DEF ItemsFollow
    <3>3. QED
      BY <1>2, <3>1, <3>2 DEF Grown
  <2>3. QED
    BY <2>1, <2>2
<1>5. ASSUME NEW x \in Range(items) PROVE \E i \in DOMAIN history' : x \in Range(Offered(history'[i].call))
  <2>1. x \in Range(b.items) \cup Range(Offered(c))
    BY <1>2, <1>5 DEF Grown
  <2>2. CASE x \in Range(Offered(c))
    <3>1. n + 1 \in DOMAIN history' /\ history'[n + 1].call = c
      BY <1>1, <1>2
    <3>2. QED
      BY <2>2, <3>1
  <2>3. CASE x \in Range(b.items)
    <3>1. PICK i \in DOMAIN history : x \in Range(Offered(history[i].call))
      BY <2>3 DEF ItemsFollow
    <3>2. i \in DOMAIN history' /\ history'[i] = history[i]
      BY <1>1
    <3>3. QED
      BY <3>1, <3>2
  <2>4. QED
    BY <2>1, <2>2, <2>3
<1>6. Range(items) \subseteq UNION {Range(Offered(history'[i].call)) : i \in DOMAIN history'}
  BY <1>5
<1>7. QED
  BY <1>3, <1>4, <1>6

(***************************************************************************)
(* PodBuilder: the fields and items of pods and containers                 *)
(***************************************************************************)
PodShape(b) ==
  b = [fields |-> b.fields, items |-> b.items, containers |-> b.containers, init_containers |-> b.init_containers]

ContainerShape(b) == b = [fields |-> b.fields, items |-> b.items]

\* What a call with result r writes to the fields F of a builder b.
Written(b, c, r, F) ==
  /\ DOMAIN b.fields \subseteq DOMAIN r.value.fields
  /\ \A f \in DOMAIN r.value.fields \cap F :
        /\ r.value.fields[f] = IF r.ok /\ f \in DOMAIN Writes(c) THEN Writes(c)[f] ELSE b.fields[f]
        /\ f \in DOMAIN b.fields \/ (r.ok /\ f \in DOMAIN Writes(c))

\* A setter replaces the fields of its argument and nothing else.
LEMMA FieldsAreSet ==
  ASSUME NEW b, NEW g, PodShape(b) \/ ContainerShape(b)
  PROVE  LET r == set(b, g) IN
         /\ r.ok = TRUE
         /\ r.value = [b EXCEPT !.fields = Overlay(b.fields, g)]
         /\ DOMAIN r.value.fields = DOMAIN b.fields \cup DOMAIN g
         /\ \A f \in DOMAIN b.fields \cup DOMAIN g :
               r.value.fields[f] = IF f \in DOMAIN g THEN g[f] ELSE b.fields[f]
<1> DEFINE v == [b EXCEPT !.fields = Overlay(b.fields, g)]
<1>1. set(b, g) = Ok(v)
  BY DEF set
<1>2. v.fields = Overlay(b.fields, g)
  BY DEF PodShape, ContainerShape
<1> HIDE DEF v
<1>3. set(b, g).ok = TRUE /\ set(b, g).value = v
  BY <1>1 DEF Ok
<1>4. DOMAIN v.fields = DOMAIN b.fields \cup DOMAIN g
      /\ \A f \in DOMAIN b.fields \cup DOMAIN g : v.fields[f] = IF f \in DOMAIN g THEN g[f] ELSE b.fields[f]
  BY <1>2 DEF Overlay
<1>5. QED
  BY <1>3, <1>4 DEF v

\* What a setter leaves of a pod, and of a container.
LEMMA SetKeepsPod ==
  ASSUME NEW b, NEW g, PodShape(b)
  PROVE  LET r == set(b, g) IN
         /\ PodShape(r.value) /\ r.value.items = b.items /\ r.value.containers = b.containers
         /\ r.value.init_containers = b.init_containers
<1> DEFINE o == Overlay(b.fields, g)
           v == [b EXCEPT !.fields = o]
<1>1. set(b, g).value = v
  BY FieldsAreSet
<1> HIDE DEF o
<1>2. v.items = b.items /\ v.containers = b.containers /\ v.init_containers = b.init_containers /\ v.fields = o
  BY DEF PodShape
<1>3. v = [fields |-> o, items |-> b.items, containers |-> b.containers, init_containers |-> b.init_containers]
  BY DEF PodShape
<1> HIDE DEF v
<1>4. QED
  BY <1>1, <1>2, <1>3 DEF PodShape

\* The same of a container.
LEMMA SetKeepsContainer ==
  ASSUME NEW b, NEW g, ContainerShape(b)
  PROVE  ContainerShape(set(b, g).value) /\ set(b, g).value.items = b.items
<1> DEFINE o == Overlay(b.fields, g)
           v == [b EXCEPT !.fields = o]
<1>1. set(b, g).value = v
  BY FieldsAreSet
<1> HIDE DEF o
<1>2. v.items = b.items /\ v.fields = o
  BY DEF ContainerShape
<1>3. v = [fields |-> o, items |-> b.items]
  BY DEF ContainerShape
<1> HIDE DEF v
<1>4. QED
  BY <1>1, <1>2, <1>3 DEF ContainerShape

\* What a call offers is a sequence.
LEMMA OfferedIsSequence ==
  ASSUME NEW calls, NEW c \in calls,
         c.call = "add_volumes" => c.volumes \in Seq(Range(c.volumes)),
         c.call = "add_volume_mounts" => c.mounts \in Seq(Range(c.mounts))
  PROVE  Offered(c) \in Seq(Offers(calls))
<1>1. Range(Offered(c)) \subseteq Offers(calls)
  BY DEF Offers
<1>2. ASSUME NEW n \in Nat, DOMAIN Offered(c) = 1..n, Offered(c) = [i \in 1..n |-> Offered(c)[i]]
      PROVE  Offered(c) \in Seq(Offers(calls))
  <2>1. \A i \in 1..n : Offered(c)[i] \in Offers(calls)
    BY <1>1, <1>2 DEF Range
  <2>2. Offered(c) \in [1..n -> Offers(calls)]
    BY <1>2, <2>1
  <2> HIDE DEF Offers
  <2>3. QED
    BY <2>2, SeqDef
<1>3. CASE c.call = "add_volumes"
  <2> DEFINE f(i) == VolumeBuilder_build(c.volumes[i].name, c.volumes[i].sources)
  <2>1. Offered(c) = [i \in DOMAIN c.volumes |-> f(i)]
    BY <1>3 DEF Offered
  <2>2. DOMAIN c.volumes = 1..Len(c.volumes) /\ Len(c.volumes) \in Nat
    BY <1>3
  <2> HIDE DEF f
  <2>3. QED
    BY <1>2, <2>1, <2>2
<1>4. CASE c.call = "add_volume_mounts"
  <2> DEFINE f(i) == VolumeMountBuilder_build(c.mounts[i].name, c.mounts[i].path, c.mounts[i].options)
  <2>1. Offered(c) = [i \in DOMAIN c.mounts |-> f(i)]
    BY <1>4 DEF Offered
  <2>2. DOMAIN c.mounts = 1..Len(c.mounts) /\ Len(c.mounts) \in Nat
    BY <1>4
  <2> HIDE DEF f
  <2>3. QED
    BY <1>2, <2>1, <2>2
<1>5. CASE c.call \in {"add_listener_class", "add_listener_name"}
  <2>1. \E v : Offered(c) = <<v>>
    BY <1>5 DEF Offered, add_listener_volume_by_listener_class, add_listener_volume_by_listener_name
  <2>2. PICK v : Offered(c) = <<v>>
    BY <2>1
  <2>3. v \in Offers(calls)
    BY <1>1, <2>2 DEF Range
  <2>4. QED
    BY <2>2, <2>3
<1>6. CASE c.call \notin {"add_volumes", "add_volume_mounts", "add_listener_class", "add_listener_name"}
  <2>1. Offered(c) = <<>>
    BY <1>6 DEF Offered
  <2>2. QED
    BY <2>1
<1>7. QED
  BY <1>3, <1>4, <1>5, <1>6

\* A call that is about other things offers nothing.
LEMMA NothingOffered ==
  ASSUME NEW c, c.call \notin {"add_volumes", "add_volume_mounts", "add_listener_class", "add_listener_name"}
  PROVE  Range(Offered(c)) = {}
<1>1. Offered(c) = <<>>
  BY DEF Offered
<1>2. QED
  BY <1>1 DEF Range

(***************************************************************************)
(* PodBuilder: one call on a pod or a container                            *)
(***************************************************************************)
Decides == AffinityFields \cup {"metadata"}

\* A call that fills fields, when the fields it is about are among those it sets.
LEMMA FieldsAreWritten ==
  ASSUME NEW b, NEW c, NEW g, NEW F, PodShape(b) \/ ContainerShape(b),
         DOMAIN Writes(c) \cap F = DOMAIN g \cap F, \A f \in DOMAIN g \cap F : Writes(c)[f] = g[f]
  PROVE  Written(b, c, set(b, g), F)
<1> DEFINE r == set(b, g)
<1>1. /\ r.ok = TRUE
      /\ DOMAIN r.value.fields = DOMAIN b.fields \cup DOMAIN g
      /\ \A f \in DOMAIN b.fields \cup DOMAIN g : r.value.fields[f] = IF f \in DOMAIN g THEN g[f] ELSE b.fields[f]
  BY FieldsAreSet
<1> HIDE DEF r
<1>2. \A f \in F : (f \in DOMAIN Writes(c) <=> f \in DOMAIN g) /\ (f \in DOMAIN g => Writes(c)[f] = g[f])
  OBVIOUS
<1>3. QED
  BY <1>1, <1>2 DEF Written, r

\* Volumes and mounts leave the fields alone.
LEMMA FieldsStay ==
  ASSUME NEW b, NEW c, NEW r, NEW F, r.value.fields = b.fields, DOMAIN Writes(c) \cap F = {}
  PROVE  Written(b, c, r, F)
BY DEF Written

\* A call on a pod: its fields, and what it is called for.
PodStep(b, c, r) ==
  /\ r.ok \in BOOLEAN /\ PodShape(r.value)
  /\ Written(b, c, r, Decides)
  /\ r.value.items \in Seq(Offers(PodCalls)) /\ Grown(b, Range(Offered(c)), r)
  /\ r.value.containers = IF c.call = "add_container" THEN Append(b.containers, c.container) ELSE b.containers
  /\ r.value.init_containers =
        IF c.call = "add_init_container"
        THEN Append(b.init_containers, IF c.container.resources # None THEN c.container
                                       ELSE [c.container EXCEPT !.resources = DefaultResources])
        ELSE b.init_containers

\* A call that only sets fields.
LEMMA SettingStep ==
  ASSUME NEW b, NEW c, NEW g, PodShape(b), Distinct(b), b.items \in Seq(Offers(PodCalls)),
         c.call \in {"set", "affinity", "with_status", "extend", "termination_grace_period"},
         DOMAIN Writes(c) \cap Decides = DOMAIN g \cap Decides,
         \A f \in DOMAIN g \cap Decides : Writes(c)[f] = g[f]
  PROVE  PodStep(b, c, set(b, g))
<1> DEFINE r == set(b, g)
<1>1. PodShape(r.value) /\ r.value.items = b.items /\ r.value.containers = b.containers
      /\ r.value.init_containers = b.init_containers
  BY SetKeepsPod
<1>2. r.ok = TRUE
  BY FieldsAreSet
<1>3. Written(b, c, r, Decides)
  BY FieldsAreWritten
<1> HIDE DEF r
<1>4. Range(Offered(c)) = {}
  BY NothingOffered
<1>5. Grown(b, Range(Offered(c)), r)
  BY <1>1, <1>4, ItemsStay
<1>6. QED
  BY <1>1, <1>2, <1>3, <1>5 DEF PodStep, r

\* A call does this, whichever it is.
LEMMA PodCallStep ==
  ASSUME NEW c \in PodCalls, NEW b, PodShape(b), Distinct(b), b.items \in Seq(Offers(PodCalls)),
         Decides \subseteq DOMAIN b.fields
  PROVE  PodStep(b, c, PodCall(b, c))
<1>0. IsPodCall(c)
  BY BuilderConstants
<1>1. CASE c.call = "set"
  <2>1. PodCall(b, c) = set(b, c.fields) /\ Writes(c) = c.fields
    BY <1>1 DEF PodCall, Writes
  <2>2. QED
    BY <1>1, <2>1, SettingStep
<1>2. CASE c.call = "affinity"
  <2> DEFINE g == [x \in AffinityFields |-> c.affinities[x]]
  <2>1. PodCall(b, c) = set(b, g) /\ Writes(c) = c.affinities
    BY <1>2 DEF PodCall, Writes, affinity
  <2>2. DOMAIN g = DOMAIN c.affinities /\ \A f \in DOMAIN g : c.affinities[f] = g[f]
    BY <1>0, <1>2 DEF IsPodCall, AffinityFields
  <2> HIDE DEF g
  <2>3. QED
    BY <1>2, <2>1, <2>2, SettingStep
<1>3. CASE c.call = "with_status"
  <2> DEFINE g == [status |-> (IF b.fields.status = None THEN {} ELSE b.fields.status) \cup {c.condition}]
  <2>1. PodCall(b, c) = set(b, g) /\ Writes(c) = <<>>
    BY <1>3 DEF PodCall, Writes, with_status
  <2>2. DOMAIN g \cap Decides = {} /\ DOMAIN Writes(c) = {}
    BY <2>1 DEF Decides, AffinityFields
  <2> HIDE DEF g
  <2>3. QED
    BY <1>3, <2>1, <2>2, SettingStep
<1>4. CASE c.call = "extend"
  <2> DEFINE g == [x \in {c.field} |-> (IF b.fields[c.field] = None THEN <<>> ELSE b.fields[c.field]) \o c.list]
  <2>1. PodCall(b, c) = set(b, g) /\ Writes(c) = <<>>
    BY <1>4 DEF PodCall, Writes, extend_list
  <2>2. DOMAIN g \cap Decides = {} /\ DOMAIN Writes(c) = {}
    BY <1>0, <1>4, <2>1 DEF Decides, AffinityFields, IsPodCall
  <2> HIDE DEF g
  <2>3. QED
    BY <1>4, <2>1, <2>2, SettingStep
<1>5. CASE c.call = "termination_grace_period"
  <2>1. Writes(c) = <<>> /\ DOMAIN Writes(c) = {} /\ Range(Offered(c)) = {}
    BY <1>5, NothingOffered DEF Writes
  <2>2. CASE c.duration.secs <= MaxI64
    <3> DEFINE g == [termination_grace_period_seconds |-> c.duration.secs]
    <3>1. PodCall(b, c) = set(b, g)
      BY <1>5, <2>2 DEF PodCall, termination_grace_period
    <3>2. DOMAIN g \cap Decides = {}
      BY DEF Decides, AffinityFields
    <3> HIDE DEF g
    <3>3. QED
      BY <1>5, <2>1, <3>1, <3>2, SettingStep
  <2>3. CASE ~(c.duration.secs <= MaxI64)
    <3> DEFINE r == [ok |-> FALSE, error |-> "TerminationGracePeriodTooLong", value |-> b]
    <3>1. PodCall(b, c) = r
      BY <1>5, <2>3 DEF PodCall, termination_grace_period
    <3>2. r.ok = FALSE /\ r.value = b
      OBVIOUS
    <3> HIDE DEF r
    <3>3. Grown(b, Range(Offered(c)), r)
      BY <2>1, <3>2, ItemsStay
    <3>4. Written(b, c, r, Decides)
      BY <2>1, <3>2, FieldsStay
    <3>5. QED
      BY <1>5, <3>1, <3>2, <3>3, <3>4 DEF PodStep
  <2>4. QED
    BY <2>2, <2>3
<1>6. CASE c.call \in {"add_volumes", "add_listener_class", "add_listener_name"}
  <2> DEFINE r == add_volumes(b, Offered(c))
  <2>1. PodCall(b, c) = r /\ DOMAIN Writes(c) = {}
    BY <1>6 DEF PodCall, Writes
  <2>2. Offered(c) \in Seq(Offers(PodCalls))
    BY <1>0, <1>6, OfferedIsSequence DEF IsPodCall
  <2>3. b = [b EXCEPT !.items = b.items] /\ "items" \in DOMAIN b
    BY DEF PodShape
  <2>4. /\ r.ok \in BOOLEAN
        /\ \E s \in Seq(Offers(PodCalls)) : r.value = [b EXCEPT !.items = s]
        /\ Grown(b, Range(Offered(c)), r)
    BY <2>2, <2>3, ItemsAreAdded
  <2> HIDE DEF r
  <2>5. PICK s \in Seq(Offers(PodCalls)) : r.value = [b EXCEPT !.items = s]
    BY <2>4
  <2>6. r.value = [fields |-> b.fields, items |-> s, containers |-> b.containers,
                   init_containers |-> b.init_containers]
    BY <2>5 DEF PodShape
  <2>7. PodShape(r.value) /\ r.value.fields = b.fields /\ r.value.items = s /\ r.value.containers = b.containers
        /\ r.value.init_containers = b.init_containers
    BY <2>6 DEF PodShape
  <2>8. Written(b, c, r, Decides)
    BY <2>1, <2>7, FieldsStay
  <2>9. QED
    BY <1>6, <2>1, <2>4, <2>7, <2>8 DEF PodStep
<1>7. CASE c.call \in {"add_container", "add_init_container"}
  <2> DEFINE x == IF c.container.resources # None THEN c.container
                  ELSE [c.container EXCEPT !.resources = DefaultResources]
             cs == IF c.call = "add_container" THEN Append(b.containers, c.container) ELSE b.containers
             ics == IF c.call = "add_init_container" THEN Append(b.init_containers, x) ELSE b.init_containers
             v == [fields |-> b.fields, items |-> b.items, containers |-> cs, init_containers |-> ics]
  <2>1. PodCall(b, c) = Ok(v)
    <3>1. CASE c.call = "add_container"
      <4>1. PodCall(b, c) = Ok([b EXCEPT !.containers = Append(b.containers, c.container)])
        BY <3>1 DEF PodCall, add_container, PodShape
      <4>2. cs = Append(b.containers, c.container) /\ ics = b.init_containers
        BY <3>1
      <4> HIDE DEF cs, ics
      <4>3. [b EXCEPT !.containers = cs]
              = [fields |-> b.fields, items |-> b.items, containers |-> cs, init_containers |-> b.init_containers]
        BY DEF PodShape
      <4>4. QED
        BY <4>1, <4>2, <4>3
    <3>2. CASE c.call = "add_init_container"
      <4>1. PodCall(b, c) = Ok([b EXCEPT !.init_containers = Append(b.init_containers, x)])
        BY <3>2 DEF PodCall, add_init_container, PodShape
      <4>2. ics = Append(b.init_containers, x) /\ cs = b.containers
        BY <3>2
      <4> HIDE DEF cs, ics, x
      <4>3. [b EXCEPT !.init_containers = ics]
              = [fields |-> b.fields, items |-> b.items, containers |-> b.containers, init_containers |-> ics]
        BY DEF PodShape
      <4>4. QED
        BY <4>1, <4>2, <4>3
    <3>3. QED
      BY <1>7, <3>1, <3>2
  <2>2. DOMAIN Writes(c) = {} /\ Range(Offered(c)) = {}
    BY <1>7, NothingOffered DEF Writes
  <2> DEFINE r == Ok(v)
  <2>3. r.ok = TRUE /\ r.value = v
    BY DEF Ok
  <2> HIDE DEF x, cs, ics
  <2>4. v.fields = b.fields /\ v.items = b.items /\ v.containers = cs /\ v.init_containers = ics
    OBVIOUS
  <2>5. PodShape(v)
    BY DEF PodShape
  <2> HIDE DEF v, r
  <2>6. Grown(b, Range(Offered(c)), r)
    BY <2>2, <2>3, <2>4, ItemsStay
  <2>7. Written(b, c, r, Decides)
    BY <2>2, <2>3, <2>4, FieldsStay
  <2>8. PodStep(b, c, r)
    BY <2>3, <2>4, <2>5, <2>6, <2>7 DEF PodStep, cs, ics, x
  <2>9. QED
    BY <2>1, <2>8 DEF r
<1>8. QED
  BY <1>0, <1>1, <1>2, <1>3, <1>4, <1>5, <1>6, <1>7 DEF IsPodCall

\* A call on a container.
ContainerStep(b, c, r) ==
  /\ r.ok \in BOOLEAN /\ ContainerShape(r.value)
  /\ \A f : f # "env" => Written(b, c, r, {f})
  /\ r.value.items \in Seq(Offers(ContainerCalls)) /\ Grown(b, Range(Offered(c)), r)

\* A call that sets fields.
LEMMA ContainerSettingStep ==
  ASSUME NEW b, NEW c, NEW g, ContainerShape(b), Distinct(b), b.items \in Seq(Offers(ContainerCalls)),
         c.call \in {"set", "image_from_product_image", "lifecycle", "add_env_vars"},
         \A f : f # "env" => /\ f \in DOMAIN Writes(c) <=> f \in DOMAIN g
                             /\ f \in DOMAIN g => Writes(c)[f] = g[f]
  PROVE  ContainerStep(b, c, set(b, g))
<1> DEFINE r == set(b, g)
<1>1. ContainerShape(r.value) /\ r.value.items = b.items
  BY SetKeepsContainer
<1>2. r.ok = TRUE
  BY FieldsAreSet
<1>3. ASSUME NEW f, f # "env" PROVE Written(b, c, r, {f})
  <2>1. DOMAIN Writes(c) \cap {f} = DOMAIN g \cap {f} /\ \A x \in DOMAIN g \cap {f} : Writes(c)[x] = g[x]
    BY <1>3
  <2>2. QED
    BY <2>1, FieldsAreWritten
<1> HIDE DEF r
<1>4. Range(Offered(c)) = {}
  BY NothingOffered
<1>5. Grown(b, Range(Offered(c)), r)
  BY <1>1, <1>4, ItemsStay
<1>6. QED
  BY <1>1, <1>2, <1>3, <1>5 DEF ContainerStep, r

\* A call does this, whichever it is.
LEMMA ContainerCallStep ==
  ASSUME NEW c \in ContainerCalls, NEW b, ContainerShape(b), Distinct(b), b.items \in Seq(Offers(ContainerCalls))
  PROVE  ContainerStep(b, c, ContainerCall(b, c))
<1>0. IsContainerCall(c)
  BY BuilderConstants
<1>1. CASE c.call = "set"
  <2>1. ContainerCall(b, c) = set(b, c.fields) /\ Writes(c) = c.fields
    BY <1>1 DEF ContainerCall, Writes
  <2>2. QED
    BY <1>1, <2>1, ContainerSettingStep
<1>2. CASE c.call = "image_from_product_image"
  <2> DEFINE g == [image |-> c.image.image, image_pull_policy |-> c.image.pull_policy]
  <2>1. ContainerCall(b, c) = set(b, g) /\ Writes(c) = g
    BY <1>2 DEF ContainerCall, Writes, image_from_product_image
  <2> HIDE DEF g
  <2>2. QED
    BY <1>2, <2>1, ContainerSettingStep
<1>3. CASE c.call = "lifecycle"
  <2> DEFINE g == [x \in {"post_start", "pre_stop"} |-> c.lifecycle[x]]
  <2>1. ContainerCall(b, c) = set(b, g) /\ Writes(c) = c.lifecycle
    BY <1>3 DEF ContainerCall, Writes, lifecycle
  <2>2. DOMAIN g = DOMAIN c.lifecycle /\ \A f \in DOMAIN g : c.lifecycle[f] = g[f]
    BY <1>0, <1>3 DEF IsContainerCall
  <2> HIDE DEF g
  <2>3. QED
    BY <1>3, <2>1, <2>2, ContainerSettingStep
<1>4. CASE c.call = "add_env_vars"
  <2> DEFINE g == [x \in {"env"} |-> (IF b.fields["env"] = None THEN <<>> ELSE b.fields["env"]) \o c.env_vars]
  <2>1. ContainerCall(b, c) = set(b, g) /\ Writes(c) = <<>>
    BY <1>4 DEF ContainerCall, Writes, add_env_vars, extend_list
  <2>2. DOMAIN g = {"env"} /\ DOMAIN Writes(c) = {}
    BY <2>1
  <2> HIDE DEF g
  <2>3. QED
    BY <1>4, <2>1, <2>2, ContainerSettingStep
<1>5. CASE c.call = "add_volume_mounts"
  <2> DEFINE r == add_volumes(b, Offered(c))
  <2>1. ContainerCall(b, c) = r /\ DOMAIN Writes(c) = {}
    BY <1>5 DEF ContainerCall, Writes
  <2>2. Offered(c) \in Seq(Offers(ContainerCalls))
    BY <1>0, <1>5, OfferedIsSequence DEF IsContainerCall
  <2>3. b = [b EXCEPT !.items = b.items] /\ "items" \in DOMAIN b
    BY DEF ContainerShape
  <2>4. /\ r.ok \in BOOLEAN
        /\ \E s \in Seq(Offers(ContainerCalls)) : r.value = [b EXCEPT !.items = s]
        /\ Grown(b, Range(Offered(c)), r)
    BY <2>2, <2>3, ItemsAreAdded
  <2> HIDE DEF r
  <2>5. PICK s \in Seq(Offers(ContainerCalls)) : r.value = [b EXCEPT !.items = s]
    BY <2>4
  <2>6. r.value = [fields |-> b.fields, items |-> s]
    BY <2>5 DEF ContainerShape
  <2>7. ContainerShape(r.value) /\ r.value.fields = b.fields /\ r.value.items = s
    BY <2>6 DEF ContainerShape
  <2>8. \A f : Written(b, c, r, {f})
    BY <2>1, <2>7, FieldsStay
  <2>9. QED
    BY <2>1, <2>4, <2>7, <2>8 DEF ContainerStep
<1>6. QED
  BY <1>0, <1>1, <1>2, <1>3, <1>4, <1>5 DEF IsContainerCall

(***************************************************************************)
(* PodBuilder: the invariants of pods, containers and variables            *)
(***************************************************************************)
\* The containers given to a pod, once one more is.
LEMMA GivenStep ==
  ASSUME NEW calls, history \in Seq([call : calls, ok : BOOLEAN]), NEW c \in calls, NEW ok \in BOOLEAN,
         history' = Append(history, [call |-> c, ok |-> ok]), NEW x
  PROVE  Given(x)' = IF c.call = x THEN Given(x) \cup {c.container} ELSE Given(x)
<1> DEFINE n == Len(history)
           h == [call |-> c, ok |-> ok]
           about == {i \in DOMAIN history : history[i].call.call = x}
           aboutNext == {i \in DOMAIN history' : history'[i].call.call = x}
<1>1. /\ n \in Nat /\ DOMAIN history = 1..n /\ DOMAIN history' = 1..(n + 1) /\ history'[n + 1] = h
      /\ \A i \in 1..n : history'[i] = history[i]
  BY OneMoreCall
<1>2. h.call = c
  OBVIOUS
<1>3. Given(x) = {history[i].call.container : i \in about}
      /\ Given(x)' = {history'[i].call.container : i \in aboutNext}
  BY DEF Given
<1> HIDE DEF n, h
<1>4. aboutNext = IF c.call = x THEN about \cup {n + 1} ELSE about
  BY <1>1, <1>2
<1>5. \A i \in about : history'[i] = history[i]
  BY <1>1
<1> HIDE DEF about, aboutNext
<1>6. CASE c.call = x
  <2>1. aboutNext = about \cup {n + 1} /\ history'[n + 1].call.container = c.container
    BY <1>1, <1>2, <1>4, <1>6
  <2>2. {history'[i].call.container : i \in aboutNext} = {history[i].call.container : i \in about} \cup {c.container}
    BY <1>5, <2>1
  <2>3. QED
    BY <1>3, <1>6, <2>2
<1>7. CASE c.call # x
  <2>1. {history'[i].call.container : i \in aboutNext} = {history[i].call.container : i \in about}
    BY <1>4, <1>5, <1>7
  <2>2. QED
    BY <1>3, <1>7, <2>1
<1>8. QED
  BY <1>6, <1>7

\* The elements of a sequence, once one more is appended.
LEMMA OneMoreElement ==
  ASSUME NEW S, NEW s \in Seq(S), NEW x
  PROVE  Range(Append(s, x)) = Range(s) \cup {x}
<1>1. DOMAIN s = 1..Len(s) /\ Len(s) \in Nat
  OBVIOUS
<1>2. DOMAIN Append(s, x) = 1..(Len(s) + 1) /\ Append(s, x)[Len(s) + 1] = x
      /\ \A i \in 1..Len(s) : Append(s, x)[i] = s[i]
  BY <1>1
<1> DEFINE t == Append(s, x)
<1> HIDE DEF t
<1>3. DOMAIN t = DOMAIN s \cup {Len(s) + 1}
  BY <1>1, <1>2 DEF t
<1>4. QED
  BY <1>1, <1>2, <1>3 DEF Range, t

AllGiven == {c.container : c \in PodCalls}
AllLimited == AllGiven \cup {[c.container EXCEPT !.resources = DefaultResources] : c \in PodCalls}

\* An init container as the pod has it.
IsLimited(x) ==
  /\ x.resources # None
  /\ x \in Given("add_init_container") \/ x.resources.limits = x.resources.requests

PodInv ==
  /\ PodShape(builder) /\ ItemsFollow(builder, PodCalls)
  /\ Decides \subseteq DOMAIN builder.fields
  /\ \A f \in Decides : builder.fields[f] = Decided(f)
  /\ builder.containers \in Seq(AllGiven) /\ Range(builder.containers) = Given("add_container")
  /\ builder.init_containers \in Seq(AllLimited)
  /\ \A x \in Range(builder.init_containers) : IsLimited(x)

\* One more call on a pod.
LEMMA PodInvStep ==
  ASSUME PodInv, history \in Seq([call : PodCalls, ok : BOOLEAN]), NEW c \in PodCalls, NEW r,
         PodStep(builder, c, r), builder' = r.value, history' = Append(history, [call |-> c, ok |-> r.ok])
  PROVE  PodInv'
<1>0. r.ok \in BOOLEAN /\ [call |-> c, ok |-> r.ok] \in [call : PodCalls, ok : BOOLEAN]
  BY DEF PodStep
<1>1. PodShape(builder)'
  BY DEF PodStep
<1>2. ItemsFollow(builder, PodCalls)'
  <2>1. ItemsFollow(builder, PodCalls) /\ Grown(builder, Range(Offered(c)), r)
        /\ r.value.items \in Seq(Offers(PodCalls))
    BY DEF PodInv, PodStep
  <2>2. /\ builder'.items \in Seq(Offers(PodCalls)) /\ Distinct(builder')
        /\ \A i \in DOMAIN history' :
              history'[i].ok => Range(Offered(history'[i].call)) \subseteq Range(builder'.items)
        /\ Range(builder'.items) \subseteq UNION {Range(Offered(history'[i].call)) : i \in DOMAIN history'}
    BY <1>0, <2>1, ItemsFollowStep
  <2>3. QED
    BY <2>2 DEF ItemsFollow
<1>3. (Decides \subseteq DOMAIN builder.fields)'
  BY DEF PodStep, PodInv, Written, Decides, AffinityFields
<1>4. ASSUME NEW f \in Decides PROVE builder'.fields[f] = Decided(f)'
  <2>1. Decided(f)' = IF r.ok /\ f \in DOMAIN Writes(c) THEN Writes(c)[f] ELSE Decided(f)
    BY <1>0, LastCallStep
  <2>2. builder.fields[f] = Decided(f)
    BY DEF PodInv
  <2>3. f \in DOMAIN r.value.fields
    BY <1>3 DEF Decides, AffinityFields
  <2>4. r.value.fields[f] = IF r.ok /\ f \in DOMAIN Writes(c) THEN Writes(c)[f] ELSE builder.fields[f]
    BY <2>3 DEF PodStep, Written
  <2>5. QED
    BY <2>1, <2>2, <2>4
<1>5. \A x : Given(x)' = IF c.call = x THEN Given(x) \cup {c.container} ELSE Given(x)
  BY <1>0, GivenStep
<1>6. (builder.containers \in Seq(AllGiven) /\ Range(builder.containers) = Given("add_container"))'
  <2>1. builder.containers \in Seq(AllGiven) /\ Range(builder.containers) = Given("add_container")
    BY DEF PodInv
  <2>2. builder'.containers = IF c.call = "add_container" THEN Append(builder.containers, c.container)
                              ELSE builder.containers
    BY DEF PodStep
  <2>3. c.container \in AllGiven
    BY DEF AllGiven
  <2> HIDE DEF AllGiven
  <2>4. Append(builder.containers, c.container) \in Seq(AllGiven)
        /\ Range(Append(builder.containers, c.container)) = Range(builder.containers) \cup {c.container}
    BY <2>1, <2>3, OneMoreElement
  <2>5. QED
    BY <1>5, <2>1, <2>2, <2>4 DEF AllGiven
<1>7. (/\ builder.init_containers \in Seq(AllLimited)
       /\ \A x \in Range(builder.init_containers) : IsLimited(x))'
  <2> DEFINE old == builder.init_containers
             x == IF c.container.resources # None THEN c.container
                  ELSE [c.container EXCEPT !.resources = DefaultResources]
  <2>1. old \in Seq(AllLimited) /\ \A y \in Range(old) : IsLimited(y)
    BY DEF PodInv
  <2>2. builder'.init_containers = IF c.call = "add_init_container" THEN Append(old, x) ELSE old
    BY DEF PodStep
  <2>3. x \in AllLimited
    BY DEF AllLimited, AllGiven
  <2>4. \A y : IsLimited(y) => IsLimited(y)'
    BY <1>5 DEF IsLimited
  <2>5. ASSUME c.call = "add_init_container" PROVE IsLimited(x)'
    <3>1. CASE c.container.resources # None
      BY <1>5, <2>5, <3>1 DEF IsLimited
    <3>2. CASE c.container.resources = None
      <4>1. c.container = [name |-> c.container.name, resources |-> c.container.resources]
        BY <2>5, BuilderConstants DEF IsPodCall
      <4>2. x = [c.container EXCEPT !.resources = DefaultResources]
        BY <3>2
      <4>3. x.resources = DefaultResources
        BY <4>1, <4>2
      <4>4. DefaultResources.limits = DefaultResources.requests
        BY DEF DefaultResources
      <4>5. x.resources.limits = x.resources.requests /\ x.resources # None
        BY <4>3, <4>4, ResourcesAreSome
      <4>6. QED
        BY <4>5 DEF IsLimited
    <3>3. QED
      BY <3>1, <3>2
  <2> HIDE DEF x, old
  <2>6. Append(old, x) \in Seq(AllLimited) /\ Range(Append(old, x)) = Range(old) \cup {x}
    BY <2>1, <2>3, OneMoreElement
  <2>7. builder'.init_containers \in Seq(AllLimited)
    BY <2>1, <2>2, <2>6
  <2>8. \A y \in Range(builder'.init_containers) : IsLimited(y)'
    BY <2>1, <2>2, <2>4, <2>5, <2>6
  <2>9. QED
    BY <2>7, <2>8 DEF AllLimited, AllGiven
<1>8. QED
  BY <1>1, <1>2, <1>3, <1>4, <1>6, <1>7 DEF PodInv, Decides, AffinityFields

ContainerInv ==
  /\ ContainerShape(builder) /\ ItemsFollow(builder, ContainerCalls)
  /\ \A f \in DOMAIN builder.fields \ {"env"} : builder.fields[f] = Decided(f)

\* One more call on a container.
LEMMA ContainerInvStep ==
  ASSUME ContainerInv, history \in Seq([call : ContainerCalls, ok : BOOLEAN]), NEW c \in ContainerCalls, NEW r,
         ContainerStep(builder, c, r), builder' = r.value,
         history' = Append(history, [call |-> c, ok |-> r.ok])
  PROVE  ContainerInv'
<1>0. r.ok \in BOOLEAN /\ [call |-> c, ok |-> r.ok] \in [call : ContainerCalls, ok : BOOLEAN]
  BY DEF ContainerStep
<1>1. ContainerShape(builder)'
  BY DEF ContainerStep
<1>2. ItemsFollow(builder, ContainerCalls)'
  <2>1. ItemsFollow(builder, ContainerCalls) /\ Grown(builder, Range(Offered(c)), r)
        /\ r.value.items \in Seq(Offers(ContainerCalls))
    BY DEF ContainerInv, ContainerStep
  <2>2. /\ builder'.items \in Seq(Offers(ContainerCalls)) /\ Distinct(builder')
        /\ \A i \in DOMAIN history' :
              history'[i].ok => Range(Offered(history'[i].call)) \subseteq Range(builder'.items)
        /\ Range(builder'.items) \subseteq UNION {Range(Offered(history'[i].call)) : i \in DOMAIN history'}
    BY <1>0, <2>1, ItemsFollowStep
  <2>3. QED
    BY <2>2 DEF ItemsFollow
<1>3. ASSUME NEW f \in DOMAIN builder'.fields \ {"env"} PROVE builder'.fields[f] = Decided(f)'
  <2>1. Decided(f)' = IF r.ok /\ f \in DOMAIN Writes(c) THEN Writes(c)[f] ELSE Decided(f)
    BY <1>0, LastCallStep
  <2>2. Written(builder, c, r, {f}) /\ f \in DOMAIN r.value.fields
    BY <1>3 DEF ContainerStep
  <2>3. /\ r.value.fields[f] = IF r.ok /\ f \in DOMAIN Writes(c) THEN Writes(c)[f] ELSE builder.fields[f]
        /\ f \in DOMAIN builder.fields \/ (r.ok /\ f \in DOMAIN Writes(c))
    BY <2>2 DEF Written
  <2>4. f \in DOMAIN builder.fields => builder.fields[f] = Decided(f)
    BY <1>3 DEF ContainerInv
  <2>5. QED
    BY <2>1, <2>3, <2>4
<1>4. QED
  BY <1>1, <1>2, <1>3 DEF ContainerInv

EnvInv == \A f \in DOMAIN builder : builder[f] = Decided(f)

\* One more call on a set of variables.
LEMMA EnvInvStep ==
  ASSUME EnvInv, history \in Seq([call : EnvVarCalls, ok : BOOLEAN]), NEW c \in EnvVarCalls,
         builder' = EnvVarCall(builder, c).value,
         history' = Append(history, [call |-> c, ok |-> EnvVarCall(builder, c).ok])
  PROVE  EnvInv' /\ EnvVarCall(builder, c).ok \in BOOLEAN
<1> DEFINE r == EnvVarCall(builder, c)
<1>1. CASE c.call = "with_env_var" /\ c.name \in InvalidEnvVars
  <2>1. r.ok = FALSE /\ r.value = builder
    BY <1>1 DEF EnvVarCall, with_env_var
  <2> HIDE DEF r
  <2>2. [call |-> c, ok |-> r.ok] \in [call : EnvVarCalls, ok : BOOLEAN] /\ r.ok \in BOOLEAN
    BY <2>1
  <2>3. \A f : Decided(f)' = Decided(f)
    BY <2>1, <2>2, LastCallStep DEF r
  <2>4. QED
    BY <2>1, <2>2, <2>3 DEF EnvInv, r
<1>2. ASSUME NEW g, r = Ok(Overlay(builder, g)), Writes(c) = g PROVE EnvInv' /\ r.ok \in BOOLEAN
  <2>1. r.ok = TRUE /\ r.value = Overlay(builder, g)
    BY <1>2 DEF Ok
  <2> HIDE DEF r
  <2>2. [call |-> c, ok |-> r.ok] \in [call : EnvVarCalls, ok : BOOLEAN] /\ r.ok \in BOOLEAN
    BY <2>1
  <2>3. \A f : Decided(f)' = IF f \in DOMAIN g THEN g[f] ELSE Decided(f)
    BY <1>2, <2>1, <2>2, LastCallStep DEF r
  <2>4. builder' = Overlay(builder, g)
    BY <2>1 DEF r
  <2>5. \A f \in DOMAIN builder' : builder'[f] = Decided(f)'
    BY <2>3, <2>4 DEF Overlay, EnvInv
  <2>6. QED
    BY <2>2, <2>5 DEF EnvInv
<1>3. CASE c.call = "with_env_var" /\ c.name \notin InvalidEnvVars
  <2>1. r = Ok(Overlay(builder, [x \in {c.name} |-> c.source])) /\ Writes(c) = [x \in {c.name} |-> c.source]
    BY <1>3 DEF EnvVarCall, with_env_var, Writes
  <2>2. QED
    BY <1>2, <2>1
<1>4. CASE c.call = "set"
  <2>1. r = Ok(Overlay(builder, c.fields)) /\ Writes(c) = c.fields
    BY <1>4 DEF EnvVarCall, EnvVarSet_merge, Writes
  <2>2. QED
    BY <1>2, <2>1
<1>5. QED
  BY <1>1, <1>3, <1>4, BuilderConstants

(***************************************************************************)
(* PodBuilder: security contexts                                           *)
(***************************************************************************)
Groups == DOMAIN SecurityGroups
ContextFields == Groups \cup {"run_as_non_root", "run_as_user"}
GivenValues == {None} \cup {c.value : c \in SecurityCalls}

\* A group of options in which one was set.
WithOption(S, o, v, old) == [x \in S |-> IF x = o THEN v ELSE IF old = None THEN None ELSE old[x]]

\* The same as the code of containers has it.
WithOptionSet(S, o, v, old) == [(IF old = None THEN [x \in S |-> None] ELSE old) EXCEPT ![o] = v]

\* An option is set in the same way for pods and containers.
LEMMA OptionIsSet ==
  ASSUME NEW g \in Groups, NEW o \in SecurityGroups[g], NEW v \in GivenValues, NEW old \in {None} \cup GroupValues(g),
         None \notin GroupValues(g)
  PROVE  /\ WithOptionSet(SecurityGroups[g], o, v, old) = WithOption(SecurityGroups[g], o, v, old)
         /\ WithOption(SecurityGroups[g], o, v, old) \in GroupValues(g)
         /\ WithOption(SecurityGroups[g], o, v, old)[o] = v
         /\ \A x \in SecurityGroups[g] :
               (x # o /\ old # None) => WithOption(SecurityGroups[g], o, v, old)[x] = old[x]
<1> DEFINE S == SecurityGroups[g]
           new == [x \in S |-> IF x = o THEN v ELSE IF old = None THEN None ELSE old[x]]
<1>0. SUFFICES /\ [(IF old = None THEN [x \in S |-> None] ELSE old) EXCEPT ![o] = v] = new
               /\ new \in GroupValues(g) /\ new[o] = v
               /\ \A x \in S : (x # o /\ old # None) => new[x] = old[x]
  BY DEF WithOption, WithOptionSet
<1>1. GroupValues(g) = [S -> GivenValues] /\ None \in GivenValues
  BY DEF GroupValues, GivenValues
<1> HIDE DEF S, GivenValues
<1>2. CASE old = None
  <2>1. new = [x \in S |-> IF x = o THEN v ELSE None]
    BY <1>2
  <2>2. [[x \in S |-> None] EXCEPT ![o] = v] = [x \in S |-> IF x = o THEN v ELSE None]
    BY DEF S
  <2>3. new \in GroupValues(g) /\ new[o] = v
    BY <1>1, <2>1 DEF S
  <2>4. QED
    BY <1>2, <2>1, <2>2, <2>3 DEF S
<1>3. CASE old # None
  <2>1. old \in [S -> GivenValues]
    BY <1>1, <1>3
  <2>2. new = [x \in S |-> IF x = o THEN v ELSE old[x]]
    BY <1>3
  <2>3. [old EXCEPT ![o] = v] = [x \in S |-> IF x = o THEN v ELSE old[x]]
    BY <2>1 DEF S
  <2>4. new \in GroupValues(g) /\ new[o] = v /\ \A x \in S : x # o => new[x] = old[x]
    BY <1>1, <2>1, <2>2 DEF S
  <2>5. QED
    BY <1>3, <2>2, <2>3, <2>4 DEF S
<1>4. QED
  BY <1>2, <1>3

\* The same for all options, values and states of a group.
LEMMA OptionIsSetAll ==
  ASSUME NEW g \in Groups, None \notin GroupValues(g)
  PROVE  \A o \in SecurityGroups[g], v \in GivenValues, w \in {None} \cup GroupValues(g) :
            /\ WithOptionSet(SecurityGroups[g], o, v, w) = WithOption(SecurityGroups[g], o, v, w)
            /\ WithOption(SecurityGroups[g], o, v, w) \in GroupValues(g)
            /\ WithOption(SecurityGroups[g], o, v, w)[o] = v
            /\ \A x \in SecurityGroups[g] :
                  (x # o /\ w # None) => WithOption(SecurityGroups[g], o, v, w)[x] = w[x]
BY OptionIsSet

\* The group of options that was set by call number i.
IsKept(i) ==
  LET c == history[i].call
      replaced == \E j \in DOMAIN history :
                      j > i /\ history[j].call.group = c.group /\ history[j].call.option = c.option
  IN  c.group # None => /\ builder.pod[c.group] # None
                        /\ ~replaced => builder.pod[c.group][c.option] = c.value

SecurityInv ==
  /\ builder = [container |-> builder.container, pod |-> builder.pod]
  /\ builder.container = [x \in ContextFields |-> builder.container[x]]
  /\ builder.pod = [x \in ContextFields |-> builder.pod[x]]
  /\ \A g \in Groups : /\ builder.pod[g] \in {None} \cup GroupValues(g)
                       /\ builder.container[g] = builder.pod[g]
  /\ \A i \in DOMAIN history : IsKept(i)

\* One more option.
LEMMA SecurityInvStep ==
  ASSUME SecurityInv, history \in Seq([call : SecurityCalls, ok : BOOLEAN]), NEW c \in SecurityCalls,
         builder' = SecurityCall(builder, c).value,
         history' = Append(history, [call |-> c, ok |-> SecurityCall(builder, c).ok])
  PROVE  SecurityInv' /\ SecurityCall(builder, c).ok \in BOOLEAN
<1> DEFINE n == Len(history)
           h == [call |-> c, ok |-> SecurityCall(builder, c).ok]
<1>0. SecurityCall(builder, c).ok = TRUE
  BY DEF SecurityCall, Ok
<1>1. /\ n \in Nat /\ DOMAIN history = 1..n /\ DOMAIN history' = 1..(n + 1) /\ history'[n + 1] = h
      /\ \A i \in 1..n : history'[i] = history[i] /\ history[i].call \in SecurityCalls
  <2>1. h \in [call : SecurityCalls, ok : BOOLEAN]
    BY <1>0
  <2> DEFINE H == [call : SecurityCalls, ok : BOOLEAN]
  <2>2. \A x \in H : x.call \in SecurityCalls
    OBVIOUS
  <2> HIDE DEF H, h
  <2>3. history \in Seq(H) /\ h \in H /\ history' = Append(history, h)
    BY <2>1 DEF H, h
  <2>4. QED
    BY <2>2, <2>3, OneMoreCall
<1>2. h.call = c
  OBVIOUS
<1> HIDE DEF n, h
<1>3. IsSecurityCall(c) /\ \A i \in 1..n : IsSecurityCall(history[i].call)
  BY <1>1, SecurityConstants
<1>4. \A g \in Groups : None \notin GroupValues(g)
  BY SecurityConstants DEF Groups
<1>5. ASSUME c.group = None
      PROVE  /\ builder' = [container |-> builder'.container, pod |-> builder'.pod]
             /\ builder'.container = [x \in ContextFields |-> builder'.container[x]]
             /\ builder'.pod = [x \in ContextFields |-> builder'.pod[x]]
             /\ \A g \in Groups : builder'.pod[g] = builder.pod[g] /\ builder'.container[g] = builder.container[g]
  <2> DEFINE container == [builder.container EXCEPT ![c.option] = c.value]
             pod == [builder.pod EXCEPT ![c.option] = c.value]
  <2>1. builder' = [container |-> container, pod |-> pod]
    <3>1. builder' = [builder EXCEPT !.container[c.option] = c.value, !.pod[c.option] = c.value]
      BY <1>5 DEF SecurityCall, Ok
    <3>2. QED
      BY <3>1 DEF SecurityInv
  <2>2. c.option \in ContextFields /\ c.option \notin Groups
    BY <1>3, <1>5 DEF IsSecurityCall, ContextFields, Groups, SecurityGroups
  <2>3. container = [x \in ContextFields |-> container[x]] /\ \A g \in Groups : container[g] = builder.container[g]
    BY <2>2 DEF SecurityInv, ContextFields
  <2>4. pod = [x \in ContextFields |-> pod[x]] /\ \A g \in Groups : pod[g] = builder.pod[g]
    BY <2>2 DEF SecurityInv, ContextFields
  <2> HIDE DEF container, pod
  <2>5. builder'.container = container /\ builder'.pod = pod
    BY <2>1
  <2>6. QED
    BY <2>1, <2>3, <2>4, <2>5
<1>6. ASSUME c.group # None
      PROVE  /\ builder' = [container |-> builder'.container, pod |-> builder'.pod]
             /\ builder'.container = [x \in ContextFields |-> builder'.container[x]]
             /\ builder'.pod = [x \in ContextFields |-> builder'.pod[x]]
             /\ \A g \in Groups : builder'.container[g] = builder'.pod[g]
             /\ \A g \in Groups \ {c.group} : builder'.pod[g] = builder.pod[g]
             /\ c.group \in Groups /\ c.option \in SecurityGroups[c.group]
             /\ builder'.pod[c.group] \in GroupValues(c.group) /\ builder'.pod[c.group][c.option] = c.value
             /\ builder.pod[c.group] # None =>
                   \A x \in SecurityGroups[c.group] \ {c.option} :
                      builder'.pod[c.group][x] = builder.pod[c.group][x]
  <2> DEFINE g == c.group
             S == SecurityGroups[g]
             old == builder.pod[g]
             new == WithOption(S, c.option, c.value, old)
             inContainer == WithOptionSet(S, c.option, c.value, old)
             container == [builder.container EXCEPT ![g] = new]
             pod == [builder.pod EXCEPT ![g] = new]
  <2>1. g \in Groups /\ c.option \in S /\ c.value \in GivenValues
    BY <1>3, <1>6 DEF IsSecurityCall, Groups, GivenValues
  <2>2. old \in {None} \cup GroupValues(g) /\ builder.container[g] = old
    BY <2>1 DEF SecurityInv
  <2>3. /\ inContainer = new /\ new \in GroupValues(g) /\ new[c.option] = c.value
        /\ \A x \in S : (x # c.option /\ old # None) => new[x] = old[x]
    <3>1. None \notin GroupValues(g)
      BY <1>4, <2>1
    <3>2. \A o \in SecurityGroups[g], v \in GivenValues, w \in {None} \cup GroupValues(g) :
            /\ WithOptionSet(SecurityGroups[g], o, v, w) = WithOption(SecurityGroups[g], o, v, w)
            /\ WithOption(SecurityGroups[g], o, v, w) \in GroupValues(g)
            /\ WithOption(SecurityGroups[g], o, v, w)[o] = v
            /\ \A x \in SecurityGroups[g] :
                  (x # o /\ w # None) => WithOption(SecurityGroups[g], o, v, w)[x] = w[x]
      <4> HIDE DEF g
      <4>1. QED
        BY <2>1, <3>1, OptionIsSetAll
    <3> HIDE DEF g
    <3>3. QED
      BY <2>1, <2>2, <3>2
  <2>4. builder' = [container |-> container, pod |-> pod]
    <3>1. builder' = [container |-> container_option(builder.container, g, c.option, c.value),
                      pod |-> pod_option(builder.pod, g, c.option, c.value)]
      BY <1>6 DEF SecurityCall, Ok
    <3>2. container_option(builder.container, g, c.option, c.value) = [builder.container EXCEPT ![g] = inContainer]
      BY <2>2 DEF container_option, WithOptionSet
    <3>3. pod_option(builder.pod, g, c.option, c.value) = pod
      BY DEF pod_option, WithOption
    <3>4. QED
      BY <2>3, <3>1, <3>2, <3>3
  <2> HIDE DEF new, inContainer
  <2>5. g \in ContextFields
    BY <2>1 DEF ContextFields
  <2>6. /\ container = [x \in ContextFields |-> container[x]] /\ container[g] = new
        /\ \A f \in ContextFields : f # g => container[f] = builder.container[f]
    BY <2>5 DEF SecurityInv
  <2>7. /\ pod = [x \in ContextFields |-> pod[x]] /\ pod[g] = new
        /\ \A f \in ContextFields : f # g => pod[f] = builder.pod[f]
    BY <2>5 DEF SecurityInv
  <2> HIDE DEF container, pod
  <2>8. builder'.container = container /\ builder'.pod = pod
    BY <2>4
  <2>9. \A f \in Groups : f \in ContextFields /\ builder.container[f] = builder.pod[f]
    BY DEF ContextFields, SecurityInv
  <2>10. QED
    BY <2>1, <2>3, <2>4, <2>6, <2>7, <2>8, <2>9
<1>7. ASSUME NEW i \in DOMAIN history' PROVE IsKept(i)'
  <2> DEFINE d == history'[i].call
             replacedNext == \E j \in DOMAIN history' :
                                j > i /\ history'[j].call.group = d.group /\ history'[j].call.option = d.option
  <2>1. SUFFICES ASSUME d.group # None
                 PROVE  builder'.pod[d.group] # None /\ (~replacedNext => builder'.pod[d.group][d.option] = d.value)
    BY DEF IsKept
  <2>2. CASE i = n + 1
    <3>1. d = c
      BY <1>1, <1>2, <2>2
    <3>2. builder'.pod[c.group] # None /\ builder'.pod[c.group][c.option] = c.value
      BY <1>4, <1>6, <2>1, <3>1
    <3>3. QED
      BY <3>1, <3>2
  <2>3. CASE i # n + 1
    <3>1. i \in 1..n /\ i \in DOMAIN history /\ d = history[i].call /\ n + 1 > i
      BY <1>1, <2>3
    <3>2. d.group \in Groups /\ d.option \in SecurityGroups[d.group]
      BY <1>3, <2>1, <3>1 DEF IsSecurityCall, Groups
    <3> DEFINE replaced == \E j \in DOMAIN history :
                              j > i /\ history[j].call.group = d.group /\ history[j].call.option = d.option
    <3>3. builder.pod[d.group] # None /\ (~replaced => builder.pod[d.group][d.option] = d.value)
      BY <2>1, <3>1 DEF SecurityInv, IsKept
    <3>4. replaced => replacedNext
      BY <1>1
    <3>5. (c.group = d.group /\ c.option = d.option) => replacedNext
      <4>1. n + 1 \in DOMAIN history' /\ history'[n + 1].call = c
        BY <1>1, <1>2
      <4>2. QED
        BY <3>1, <4>1
    <3> HIDE DEF d, replaced, replacedNext
    <3>6. CASE c.group = d.group
      <4>1. builder'.pod[d.group] # None
        BY <1>4, <1>6, <2>1, <3>2, <3>6
      <4>2. c.option # d.option => builder'.pod[d.group][d.option] = builder.pod[d.group][d.option]
        BY <1>6, <2>1, <3>2, <3>3, <3>6
      <4>3. QED
        BY <3>3, <3>4, <3>5, <3>6, <4>1, <4>2
    <3>7. CASE c.group # d.group
      <4>1. builder'.pod[d.group] = builder.pod[d.group]
        BY <1>5, <1>6, <3>2, <3>7
      <4>2. QED
        BY <3>3, <3>4, <4>1
    <3>8. QED
      BY <3>6, <3>7
  <2>4. QED
    BY <2>2, <2>3
<1>8. ASSUME NEW g \in Groups
      PROVE  builder'.pod[g] \in {None} \cup GroupValues(g) /\ builder'.container[g] = builder'.pod[g]
  <2>1. builder.pod[g] \in {None} \cup GroupValues(g) /\ builder.container[g] = builder.pod[g]
    BY DEF SecurityInv
  <2>2. QED
    BY <1>5, <1>6, <2>1
<1>9. /\ builder' = [container |-> builder'.container, pod |-> builder'.pod]
      /\ builder'.container = [x \in ContextFields |-> builder'.container[x]]
      /\ builder'.pod = [x \in ContextFields |-> builder'.pod[x]]
  BY <1>5, <1>6
<1>10. SecurityInv'
  BY <1>7, <1>8, <1>9 DEF SecurityInv, ContextFields, Groups, GroupValues
<1>11. QED
  BY <1>0, <1>10

(***************************************************************************)
(* PodBuilder: volumes of the secret operator, probes and placement        *)
(***************************************************************************)
VolumeCalls == {c \in SecretCalls : c.call = "volume"}
AllScopes ==
  {"pod", "node"} \cup {c.scope : c \in SecretCalls}
    \cup UNION {Range(c.scope.services) \cup Range(c.scope.listener_volumes) : c \in VolumeCalls}

\* The scopes of a SecretClassVolume are a sequence.
LEMMA ScopesAreSequence ==
  ASSUME NEW c \in VolumeCalls
  PROVE  to_ephemeral_volume_source(c.scope) \in Seq(AllScopes)
<1>1. IsSecretCall(c) /\ c.call = "volume"
  BY BuilderConstants DEF VolumeCalls
<1>2. ASSUME NEW T, T \subseteq AllScopes, NEW s \in Seq(T) PROVE s \in Seq(AllScopes)
  <2> HIDE DEF AllScopes
  <2>1. \A i \in 1..Len(s) : s[i] \in AllScopes
    BY <1>2
  <2>2. s \in [1..Len(s) -> AllScopes] /\ Len(s) \in Nat
    BY <1>2, <2>1
  <2>3. QED
    BY <2>2, SeqDef
<1>3. Range(c.scope.services) \subseteq AllScopes /\ Range(c.scope.listener_volumes) \subseteq AllScopes
  BY DEF AllScopes
<1>4. c.scope.services \in Seq(AllScopes) /\ c.scope.listener_volumes \in Seq(AllScopes)
  <2>1. c.scope.services \in Seq(Range(c.scope.services))
        /\ c.scope.listener_volumes \in Seq(Range(c.scope.listener_volumes))
    BY <1>1 DEF IsSecretCall
  <2>2. QED
    BY <1>2, <1>3, <2>1
<1>5. "pod" \in AllScopes /\ "node" \in AllScopes
  BY DEF AllScopes
<1> DEFINE pod == IF c.scope.pod THEN <<"pod">> ELSE <<>>
           node == IF c.scope.node THEN <<"node">> ELSE <<>>
<1>6. pod \in Seq(AllScopes)
  <2> HIDE DEF AllScopes
  <2>1. QED
    BY <1>5
<1>7. node \in Seq(AllScopes)
  <2> HIDE DEF AllScopes
  <2>1. QED
    BY <1>5
<1>8. to_ephemeral_volume_source(c.scope) = pod \o node \o c.scope.services \o c.scope.listener_volumes
  BY DEF to_ephemeral_volume_source
<1> HIDE DEF pod, node, AllScopes
<1>9. QED
  BY <1>4, <1>6, <1>7, <1>8

ScopeRequests(h) == {i \in DOMAIN h : h[i].call.call = "scope"}

\* The scopes requested are at the end, in order.
SecretInv ==
  /\ builder = [x \in DOMAIN builder |-> builder[x]]
  /\ {"scopes", "kerberos"} \subseteq DOMAIN builder
  /\ builder.scopes \in Seq(AllScopes)
  /\ \A i \in ScopeRequests(history) :
        LET place == Len(builder.scopes) - Cardinality({j \in ScopeRequests(history) : j > i})
        IN  place \in DOMAIN builder.scopes /\ builder.scopes[place] = history[i].call.scope

\* A call other than a request keeps the scopes.
LEMMA SecretCallKeeps ==
  ASSUME SecretInv, NEW c \in SecretCalls, c.call \in {"kerberos", "set"}
  PROVE  LET r == SecretCall(builder, c) IN
         /\ r.ok = TRUE
         /\ r.value = [x \in DOMAIN r.value |-> r.value[x]]
         /\ {"scopes", "kerberos"} \subseteq DOMAIN r.value
         /\ r.value.scopes = builder.scopes
<1>1. CASE c.call = "kerberos"
  <2> DEFINE v == [builder EXCEPT !.kerberos = Append(builder.kerberos, c.name)]
  <2>1. SecretCall(builder, c) = Ok(v)
    BY <1>1 DEF SecretCall
  <2>2. DOMAIN v = DOMAIN builder /\ v.scopes = builder.scopes /\ v = [x \in DOMAIN v |-> v[x]]
    BY DEF SecretInv
  <2> HIDE DEF v
  <2>3. QED
    BY <2>1, <2>2 DEF SecretInv, Ok
<1>2. CASE c.call = "set"
  <2> DEFINE v == Overlay(builder, c.fields)
  <2>1. SecretCall(builder, c) = Ok(v)
    BY <1>2 DEF SecretCall
  <2>2. "scopes" \notin DOMAIN c.fields
    BY <1>2, BuilderConstants DEF IsSecretCall
  <2>3. /\ DOMAIN builder \subseteq DOMAIN v /\ v = [x \in DOMAIN v |-> v[x]]
        /\ v.scopes = builder.scopes
    BY <2>2 DEF SecretInv, Overlay
  <2> HIDE DEF v
  <2>4. QED
    BY <2>1, <2>3 DEF SecretInv, Ok
<1>3. QED
  BY <1>1, <1>2

\* One more call on a secret volume.
LEMMA SecretInvStep ==
  ASSUME SecretInv, history \in Seq([call : SecretCalls, ok : BOOLEAN]), NEW c \in SecretCalls, c.call # "volume",
         builder' = SecretCall(builder, c).value,
         history' = Append(history, [call |-> c, ok |-> SecretCall(builder, c).ok])
  PROVE  SecretInv' /\ SecretCall(builder, c).ok \in BOOLEAN
<1> DEFINE n == Len(history)
           r == SecretCall(builder, c)
           h == [call |-> c, ok |-> r.ok]
<1>0. IsSecretCall(c)
  BY BuilderConstants
<1>1. r.ok = TRUE
  BY <1>0, SecretCallKeeps DEF IsSecretCall, SecretCall, Ok
<1>2. h.call = c /\ h \in [call : SecretCalls, ok : BOOLEAN]
  BY <1>1
<1> HIDE DEF r, h
<1>3. /\ n \in Nat /\ DOMAIN history = 1..n /\ DOMAIN history' = 1..(n + 1) /\ history'[n + 1] = h
      /\ \A i \in 1..n : history'[i] = history[i]
  BY <1>2, OneMoreCall DEF h, r
<1> HIDE DEF n
<1> DEFINE R == ScopeRequests(history)
           Q == ScopeRequests(history')
<1>4. R \subseteq 1..n /\ Q = IF c.call = "scope" THEN R \cup {n + 1} ELSE R
  BY <1>2, <1>3 DEF ScopeRequests
<1> HIDE DEF R, Q
<1>4a. \A j \in R : j \in Int /\ j <= n /\ ~(j > n + 1) /\ n + 1 > j
  BY <1>3, <1>4
<1>5. CASE c.call = "scope"
  <2> DEFINE s == builder.scopes
             t == Append(s, c.scope)
             v == [builder EXCEPT !.scopes = t]
  <2>1. builder' = v
    BY <1>5 DEF SecretCall, Ok, r
  <2>2. DOMAIN v = DOMAIN builder /\ v.scopes = t /\ v = [x \in DOMAIN v |-> v[x]]
    BY DEF SecretInv
  <2>3. s \in Seq(AllScopes) /\ c.scope \in AllScopes
    BY DEF SecretInv, AllScopes
  <2> HIDE DEF v, AllScopes, s
  <2>4. /\ t \in Seq(AllScopes) /\ Len(t) = Len(s) + 1 /\ Len(s) \in Nat
        /\ DOMAIN s = 1..Len(s) /\ DOMAIN t = 1..(Len(s) + 1)
        /\ t[Len(s) + 1] = c.scope /\ \A i \in 1..Len(s) : t[i] = s[i]
    BY <2>3
  <2> HIDE DEF t
  <2>5. ASSUME NEW i \in Q
        PROVE  /\ Len(t) - Cardinality({j \in Q : j > i}) \in DOMAIN t
               /\ t[Len(t) - Cardinality({j \in Q : j > i})] = history'[i].call.scope
    <3>1. CASE i = n + 1
      <4>0. \A j \in Q : ~(j > i)
        BY <1>3, <1>4, <1>4a, <1>5, <3>1
      <4>1. {j \in Q : j > i} = {}
        BY <4>0
      <4>2. Cardinality({j \in Q : j > i}) = 0
        BY <4>1, FS_EmptySet
      <4>3. history'[i].call.scope = c.scope
        BY <1>2, <1>3, <3>1
      <4> DEFINE m == Cardinality({j \in Q : j > i})
      <4> HIDE DEF m
      <4>4. m = 0
        BY <4>2 DEF m
      <4>5. Len(t) - m = Len(s) + 1
        BY <2>4, <4>4
      <4> DEFINE p == Len(s) + 1
      <4>6. p \in DOMAIN t /\ t[p] = c.scope /\ Len(t) - m = p
        BY <2>4, <4>5
      <4> HIDE DEF p
      <4>7. QED
        BY <4>3, <4>6 DEF m
    <3>2. CASE i # n + 1
      <4> DEFINE later == {j \in R : j > i}
      <4>0. i \in R /\ i \in 1..n /\ n + 1 > i /\ n + 1 \notin R /\ Q = R \cup {n + 1}
        <5>1. Q = R \cup {n + 1}
          BY <1>4, <1>5
        <5>2. i \in R
          BY <3>2, <5>1
        <5>3. n + 1 \notin R
          BY <1>3, <1>4
        <5>4. i \in 1..n /\ n + 1 > i
          BY <1>3, <1>4, <5>2
        <5>5. QED
          BY <5>1, <5>2, <5>3, <5>4
      <4>1. {j \in Q : j > i} = later \cup {n + 1} /\ n + 1 \notin later
        <5> DEFINE x == n + 1
        <5>1. x > i /\ x \notin R /\ Q = R \cup {x}
          BY <4>0
        <5> HIDE DEF x
        <5>2. {j \in Q : j > i} = later \cup {x} /\ x \notin later
          BY <5>1
        <5>3. QED
          BY <5>2 DEF x
      <4>2. IsFiniteSet(later)
        <5>1. later \subseteq 1..n
          BY <1>4
        <5>2. IsFiniteSet(1..n)
          BY <1>3, FS_Interval
        <5>3. QED
          BY <5>1, <5>2, FS_Subset
      <4>3. Cardinality(later) \in Nat
        BY <4>2, FS_CardinalityType
      <4>4. Cardinality({j \in Q : j > i}) = Cardinality(later) + 1
        BY <4>1, <4>2, FS_AddElement
      <4>5. Len(s) - Cardinality(later) \in DOMAIN s /\ s[Len(s) - Cardinality(later)] = history[i].call.scope
        BY <4>0 DEF SecretInv, R, s
      <4>6. history'[i] = history[i]
        BY <1>3, <4>0
      <4> DEFINE k == Cardinality(later)
                 m == Cardinality({j \in Q : j > i})
      <4> HIDE DEF k, m
      <4>7. k \in Nat /\ m = k + 1 /\ Len(s) - k \in 1..Len(s) /\ s[Len(s) - k] = history[i].call.scope
        BY <2>4, <4>3, <4>4, <4>5 DEF k, m
      <4>8. PICK p \in 1..Len(s) : p = Len(s) - k
        BY <4>7
      <4>9. Len(t) - m = p
        BY <2>4, <4>7, <4>8
      <4>10. p \in DOMAIN t /\ t[p] = s[p]
        BY <2>4
      <4>11. QED
        BY <4>6, <4>7, <4>8, <4>9, <4>10 DEF m
    <3>3. QED
      BY <3>1, <3>2
  <2>6. builder'.scopes = t /\ t \in Seq(AllScopes) /\ {"scopes", "kerberos"} \subseteq DOMAIN builder'
        /\ builder' = [x \in DOMAIN builder' |-> builder'[x]]
    BY <2>1, <2>2, <2>4 DEF SecretInv
  <2>7. SecretInv'
    BY <2>5, <2>6 DEF SecretInv, Q, AllScopes, VolumeCalls
  <2>8. QED
    BY <1>1, <2>7 DEF r
<1>6. CASE c.call # "scope"
  <2>1. c.call \in {"kerberos", "set"}
    BY <1>0, <1>6 DEF IsSecretCall
  <2>2. /\ builder' = [x \in DOMAIN builder' |-> builder'[x]]
        /\ {"scopes", "kerberos"} \subseteq DOMAIN builder' /\ builder'.scopes = builder.scopes
    BY <2>1, SecretCallKeeps
  <2>3. Q = R
    BY <1>4, <1>6
  <2>4. \A i \in R : history'[i] = history[i]
    BY <1>3, <1>4
  <2> DEFINE place(i) == Len(builder.scopes) - Cardinality({j \in R : j > i})
  <2>5. /\ builder.scopes \in Seq(AllScopes)
        /\ \A i \in R : place(i) \in DOMAIN builder.scopes /\ builder.scopes[place(i)] = history[i].call.scope
    BY DEF SecretInv, R
  <2>6. \A i \in Q : LET p == Len(builder'.scopes) - Cardinality({j \in Q : j > i})
                     IN  p \in DOMAIN builder'.scopes /\ builder'.scopes[p] = history'[i].call.scope
    BY <2>2, <2>3, <2>4, <2>5
  <2>7. SecretInv'
    BY <2>2, <2>5, <2>6 DEF SecretInv, Q, AllScopes, VolumeCalls
  <2>8. QED
    BY <1>1, <2>7 DEF r
<1>7. QED
  BY <1>5, <1>6

ProbeFields ==
  {"period", "success_threshold", "failure_threshold", "timeout", "initial_delay", "termination_grace_period"}

ProbeInv ==
  /\ builder = [x \in ProbeFields |-> builder[x]]
  /\ \A d \in FailureDurations : /\ builder.period # Whole(0)
                                 /\ builder.failure_threshold = threshold(d, builder.period)

\* The failure durations after one more call.
LEMMA FailureDurationsStep ==
  ASSUME NEW calls, history \in Seq([call : calls, ok : BOOLEAN]), NEW c \in calls, NEW ok \in BOOLEAN,
         history' = Append(history, [call |-> c, ok |-> ok])
  PROVE  FailureDurations' = IF ~SetsFailures(c) THEN FailureDurations
                             ELSE IF ok /\ c.call # "set" THEN {c.duration} ELSE {}
<1> DEFINE n == Len(history)
           h == [call |-> c, ok |-> ok]
           last == {i \in DOMAIN history :
                      /\ SetsFailures(history[i].call)
                      /\ \A j \in DOMAIN history : SetsFailures(history[j].call) => j <= i}
           lastNext == {i \in DOMAIN history' :
                          /\ SetsFailures(history'[i].call)
                          /\ \A j \in DOMAIN history' : SetsFailures(history'[j].call) => j <= i}
           counts(x) == x.ok /\ x.call.call # "set"
           these == {i \in last : counts(history[i])}
           theseNext == {i \in lastNext : counts(history'[i])}
<1>1. /\ n \in Nat /\ DOMAIN history = 1..n /\ DOMAIN history' = 1..(n + 1) /\ history'[n + 1] = h
      /\ \A i \in 1..n : history'[i] = history[i]
  BY OneMoreCall
<1>2. h.call = c /\ (h.ok <=> ok) /\ (counts(h) <=> ok /\ c.call # "set")
  OBVIOUS
<1>3. /\ FailureDurations = {history[i].call.duration : i \in these}
      /\ FailureDurations' = {history'[i].call.duration : i \in theseNext}
  BY DEF FailureDurations
<1> HIDE DEF n, h, counts
<1>4. CASE SetsFailures(c)
  <2>1. lastNext = {n + 1}
    <3>1. n + 1 \in DOMAIN history' /\ SetsFailures(history'[n + 1].call) /\ \A j \in DOMAIN history' : j <= n + 1
      BY <1>1, <1>2, <1>4
    <3>2. n + 1 \in lastNext
      BY <3>1
    <3>3. ASSUME NEW i \in lastNext PROVE i = n + 1
      <4>1. i \in 1..(n + 1) /\ n + 1 <= i
        BY <1>1, <3>1
      <4>2. QED
        BY <1>1, <4>1
    <3> HIDE DEF lastNext
    <3>4. QED
      BY <3>2, <3>3
  <2> HIDE DEF lastNext
  <2>2. theseNext = IF counts(h) THEN {n + 1} ELSE {}
    BY <1>1, <2>1
  <2> HIDE DEF theseNext
  <2>3. history'[n + 1].call.duration = c.duration
    BY <1>1, <1>2
  <2>4. {history'[i].call.duration : i \in theseNext} = IF counts(h) THEN {c.duration} ELSE {}
    BY <2>2, <2>3
  <2>5. QED
    BY <1>2, <1>3, <1>4, <2>4
<1>5. CASE ~SetsFailures(c)
  <2>1. \A i \in DOMAIN history' : SetsFailures(history'[i].call) <=> i \in 1..n /\ SetsFailures(history[i].call)
    BY <1>1, <1>2, <1>5
  <2>2. lastNext = last
    BY <1>1, <2>1
  <2> HIDE DEF last, lastNext
  <2>3. \A i \in last : history'[i] = history[i]
    BY <1>1 DEF last
  <2>4. theseNext = these
    BY <2>2, <2>3
  <2>5. \A i \in these : history'[i] = history[i]
    BY <2>3
  <2> HIDE DEF these, theseNext
  <2>6. {history'[i].call.duration : i \in theseNext} = {history[i].call.duration : i \in these}
    BY <2>4, <2>5
  <2>7. QED
    BY <1>3, <1>5, <2>6
<1>6. QED
  BY <1>4, <1>5

\* One more call on a probe.
LEMMA ProbeInvStep ==
  ASSUME ProbeInv, history \in Seq([call : ProbeCalls, ok : BOOLEAN]), NEW c \in ProbeCalls, c.call # "period",
         builder' = ProbeCall(builder, c).value,
         history' = Append(history, [call |-> c, ok |-> ProbeCall(builder, c).ok])
  PROVE  ProbeInv' /\ ProbeCall(builder, c).ok \in BOOLEAN
<1> DEFINE r == ProbeCall(builder, c)
<1>0. IsProbeCall(c)
  BY BuilderConstants
<1>1. r.ok \in BOOLEAN
  BY <1>0 DEF IsProbeCall, ProbeCall, with_threshold_duration, Ok
<1>2. FailureDurations' = IF ~SetsFailures(c) THEN FailureDurations
                          ELSE IF r.ok /\ c.call # "set" THEN {c.duration} ELSE {}
  BY <1>1, FailureDurationsStep
<1>3. CASE c.call = "set"
  <2>1. r.value = Overlay(builder, c.fields)
    BY <1>3 DEF ProbeCall, Ok
  <2>2. DOMAIN c.fields \subseteq ProbeFields \ {"period"}
    BY <1>0, <1>3 DEF IsProbeCall, ProbeFields
  <2>3. DOMAIN builder = ProbeFields
    BY DEF ProbeInv
  <2>4. DOMAIN builder \cup DOMAIN c.fields = ProbeFields
    BY <2>2, <2>3
  <2>5. /\ builder' = [x \in ProbeFields |-> builder'[x]]
        /\ \A x \in ProbeFields \ DOMAIN c.fields : builder'[x] = builder[x]
    BY <2>1, <2>4 DEF Overlay
  <2>6. builder'.period = builder.period
    BY <2>2, <2>5 DEF ProbeFields
  <2>7. SetsFailures(c) <=> "failure_threshold" \in DOMAIN c.fields
    BY <1>3 DEF SetsFailures
  <2>8. CASE SetsFailures(c)
    <3>1. FailureDurations' = {}
      BY <1>2, <1>3, <2>8
    <3>2. QED
      BY <1>1, <2>5, <2>6, <3>1 DEF ProbeInv, ProbeFields
  <2>9. CASE ~SetsFailures(c)
    <3>1. FailureDurations' = FailureDurations
      BY <1>2, <2>9
    <3>2. builder'.failure_threshold = builder.failure_threshold
      BY <2>5, <2>7, <2>9 DEF ProbeFields
    <3>3. QED
      BY <1>1, <2>5, <2>6, <3>1, <3>2 DEF ProbeInv, ProbeFields
  <2>10. QED
    BY <2>8, <2>9
<1>4. CASE c.call = "threshold_duration"
  <2>1. c.field \in {"failure_threshold", "success_threshold"}
        /\ (SetsFailures(c) <=> c.field = "failure_threshold")
    BY <1>0, <1>4 DEF IsProbeCall, SetsFailures
  <2>2. CASE builder.period = Whole(0)
    <3>1. r.ok = FALSE /\ r.value = builder
      BY <1>4, <2>2 DEF ProbeCall, with_threshold_duration
    <3>2. FailureDurations' \subseteq FailureDurations
      BY <1>2, <3>1
    <3>3. QED
      BY <1>1, <3>1, <3>2 DEF ProbeInv, ProbeFields
  <2>3. CASE builder.period # Whole(0)
    <3> DEFINE v == [builder EXCEPT ![c.field] = threshold(c.duration, builder.period)]
    <3>1. r.ok = TRUE /\ r.value = v
      BY <1>4, <2>3 DEF ProbeCall, with_threshold_duration, Ok
    <3>2. v = [x \in ProbeFields |-> v[x]] /\ v.period = builder.period
          /\ v[c.field] = threshold(c.duration, builder.period)
          /\ \A x \in ProbeFields : x # c.field => v[x] = builder[x]
      BY <2>1 DEF ProbeInv, ProbeFields
    <3> HIDE DEF v
    <3>3. builder'.period # Whole(0)
      BY <2>3, <3>1, <3>2
    <3>4. CASE c.field = "failure_threshold"
      <4>1. FailureDurations' = {c.duration}
        BY <1>2, <1>4, <2>1, <3>1, <3>4
      <4>2. v.failure_threshold = threshold(c.duration, builder.period)
        BY <3>2, <3>4
      <4>3. QED
        BY <1>1, <2>1, <3>1, <3>2, <3>3, <4>1, <4>2 DEF ProbeInv, ProbeFields
    <3>5. CASE c.field # "failure_threshold"
      <4>1. FailureDurations' = FailureDurations
        BY <1>2, <2>1, <3>5
      <4>2. v.failure_threshold = builder.failure_threshold
        BY <3>2, <3>5 DEF ProbeFields
      <4>3. QED
        BY <1>1, <3>1, <3>2, <3>3, <4>1, <4>2 DEF ProbeInv, ProbeFields
    <3>6. QED
      BY <3>4, <3>5
  <2>4. QED
    BY <2>2, <2>3
<1>5. QED
  BY <1>0, <1>3, <1>4 DEF IsProbeCall

\* The threshold of a built probe is that of the last request.
LEMMA ProbesFollow == (kind = "probe" => ProbeInv) => ThresholdsFollowRequests
<1> SUFFICES ASSUME kind = "probe", ProbeInv, ProbeBuilder_build(builder).ok
             PROVE  \A d \in FailureDurations :
                      /\ builder.period # Whole(0)
                      /\ ProbeBuilder_build(builder).value.failure_threshold = threshold(d, builder.period)
  BY DEF ThresholdsFollowRequests
<1>1. ProbeBuilder_build(builder).value.failure_threshold = builder.failure_threshold
  BY DEF ProbeBuilder_build, Ok, Err
<1>2. QED
  BY <1>1 DEF ProbeInv

(***************************************************************************)
(* PodBuilder: whatever is built is as the calls asked                     *)
(***************************************************************************)
\* The calls so far, and what each kind of builder has made of them.
BuilderInv ==
  /\ kind \in DOMAIN New
  /\ history \in Seq([call : CallsOn[kind], ok : BOOLEAN])
  /\ kind = "pod" => PodInv
  /\ kind = "container" => ContainerInv
  /\ kind = "env" => EnvInv
  /\ kind = "security" => SecurityInv
  /\ kind = "secret" => SecretInv
  /\ kind = "probe" => ProbeInv

Kinds == {"pod", "container", "env", "security", "secret", "probe", "placement"}

\* The kinds of builders, and the calls on each.
LEMMA KindsOfBuilders ==
  /\ DOMAIN New = Kinds
  /\ CallsOn["pod"] = PodCalls /\ CallsOn["container"] = ContainerCalls /\ CallsOn["env"] = EnvVarCalls
  /\ CallsOn["security"] = SecurityCalls /\ CallsOn["secret"] = {c \in SecretCalls : c.call # "volume"}
  /\ CallsOn["probe"] = {c \in ProbeCalls : c.call # "period"} /\ CallsOn["placement"] = {}
<1>1. DOMAIN New = Kinds
  BY DEF New, Kinds
<1>2. QED
  BY <1>1 DEF CallsOn

\* Nothing was called yet.
LEMMA NothingDecided ==
  ASSUME history = <<>>
  PROVE  /\ \A f : Decided(f) = None
         /\ \A x : Given(x) = {}
         /\ FailureDurations = {} /\ ScopeRequests(history) = {} /\ DOMAIN history = {}
<1>1. DOMAIN history = {}
  OBVIOUS
<1>2. \A f : Decided(f) = None
  BY <1>1 DEF Decided
<1>3. \A x : Given(x) = {}
  BY <1>1 DEF Given
<1>4. FailureDurations = {}
  BY <1>1 DEF FailureDurations
<1>5. ScopeRequests(history) = {}
  BY <1>1 DEF ScopeRequests
<1>6. QED
  BY <1>1, <1>2, <1>3, <1>4, <1>5

\* A builder without items and calls.
LEMMA NoItems ==
  ASSUME history = <<>>, NEW b, b.items = <<>>, NEW calls
  PROVE  ItemsFollow(b, calls)
<1>1. DOMAIN history = {}
  OBVIOUS
<1>2. DOMAIN b.items = {} /\ b.items \in Seq(Offers(calls)) /\ Range(b.items) = {}
  BY DEF Range
<1>3. Distinct(b)
  BY <1>2 DEF Distinct
<1>4. QED
  BY <1>1, <1>2, <1>3 DEF ItemsFollow

\* The invariant holds in every reachable state.
LEMMA BuilderInvariant == BuilderSpec => []BuilderInv
<1>1. BuilderInit => BuilderInv
  <2> SUFFICES ASSUME BuilderInit PROVE BuilderInv
    OBVIOUS
  <2>1. kind \in Kinds /\ builder \in New[kind] /\ history = <<>>
    BY KindsOfBuilders DEF BuilderInit
  <2>2. history \in Seq([call : CallsOn[kind], ok : BOOLEAN])
    BY <2>1
  <2>3. ASSUME kind = "pod" PROVE PodInv
    <3>1. builder = PodBuilder_new
      BY <2>1, <2>3 DEF New
    <3>2. /\ PodShape(builder) /\ builder.items = <<>> /\ builder.containers = <<>> /\ builder.init_containers = <<>>
          /\ builder.fields = [x \in PodFields |-> None]
      BY <3>1 DEF PodShape, PodBuilder_new
    <3>3. Decides \subseteq PodFields
      BY DEF Decides, PodFields
    <3>4. ItemsFollow(builder, PodCalls)
      BY <2>1, <3>2, NoItems
    <3>5. \A f \in Decides : f \in DOMAIN builder.fields /\ builder.fields[f] = Decided(f)
      BY <2>1, <3>2, <3>3, NothingDecided
    <3>6. Range(<<>>) = {}
      BY DEF Range
    <3>7. builder.containers \in Seq(AllGiven) /\ Range(builder.containers) = Given("add_container")
      BY <2>1, <3>2, <3>6, NothingDecided
    <3>8. builder.init_containers \in Seq(AllLimited) /\ Range(builder.init_containers) = {}
      BY <3>2, <3>6
    <3>9. QED
      BY <3>2, <3>4, <3>5, <3>7, <3>8 DEF PodInv
  <2>4. ASSUME kind = "container" PROVE ContainerInv
    <3>1. builder = ContainerBuilder_new
      BY <2>1, <2>4 DEF New
    <3>2. ContainerShape(builder) /\ builder.items = <<>> /\ builder.fields = [x \in ContainerFields |-> None]
      BY <3>1 DEF ContainerShape, ContainerBuilder_new
    <3>3. ItemsFollow(builder, ContainerCalls)
      BY <2>1, <3>2, NoItems
    <3>4. \A f \in DOMAIN builder.fields : builder.fields[f] = Decided(f)
      BY <2>1, <3>2, NothingDecided
    <3>5. QED
      BY <3>2, <3>3, <3>4 DEF ContainerInv
  <2>5. ASSUME kind = "env" PROVE EnvInv
    <3>1. builder = <<>>
      BY <2>1, <2>5 DEF New
    <3>2. DOMAIN builder = {}
      BY <3>1
    <3>3. QED
      BY <3>2 DEF EnvInv
  <2>6. ASSUME kind = "security" PROVE SecurityInv
    <3>1. builder = with_stackable_defaults
      BY <2>1, <2>6 DEF New
    <3> DEFINE container == [x \in ContextFields |-> None]
               pod == [x \in ContextFields |-> IF x = "run_as_non_root" THEN TRUE ELSE None]
    <3>2. builder = [container |-> container, pod |-> pod]
      BY <3>1 DEF with_stackable_defaults, ContextFields, Groups
    <3>3. \A g \in Groups : g \in ContextFields /\ g # "run_as_non_root"
      BY DEF Groups, ContextFields, SecurityGroups
    <3>4. \A g \in Groups : pod[g] = None /\ container[g] = None
      BY <3>3
    <3>5. container = [x \in ContextFields |-> container[x]] /\ pod = [x \in ContextFields |-> pod[x]]
      OBVIOUS
    <3> HIDE DEF container, pod
    <3>6. builder.container = container /\ builder.pod = pod
      BY <3>2
    <3>7. DOMAIN history = {}
      BY <2>1
    <3>8. QED
      BY <3>2, <3>4, <3>5, <3>6, <3>7 DEF SecurityInv
  <2>7. ASSUME kind = "secret" PROVE SecretInv
    <3>1. builder \in {[SecretBuilder_new EXCEPT !.scopes = to_ephemeral_volume_source(c.scope)] : c \in VolumeCalls}
      BY <2>1, <2>7 DEF New, VolumeCalls
    <3>2. PICK c \in VolumeCalls :
            builder = [SecretBuilder_new EXCEPT !.scopes = to_ephemeral_volume_source(c.scope)]
      BY <3>1
    <3> DEFINE s == to_ephemeral_volume_source(c.scope)
    <3>3. s \in Seq(AllScopes)
      BY ScopesAreSequence
    <3> HIDE DEF s, AllScopes
    <3>4. builder = [SecretBuilder_new EXCEPT !.scopes = s]
      BY <3>2 DEF s
    <3>5. builder = [x \in DOMAIN builder |-> builder[x]] /\ {"scopes", "kerberos"} \subseteq DOMAIN builder
          /\ builder.scopes = s
      BY <3>4 DEF SecretBuilder_new
    <3>6. ScopeRequests(history) = {}
      BY <2>1, NothingDecided
    <3>7. QED
      BY <3>3, <3>5, <3>6 DEF SecretInv
  <2>8. ASSUME kind = "probe" PROVE ProbeInv
    <3>1. builder \in {ProbeBuilder_new(p) : p \in {c.period : c \in {c \in ProbeCalls : c.call = "period"}}}
      BY <2>1, <2>8 DEF New
    <3>2. PICK c \in ProbeCalls : c.call = "period" /\ builder = ProbeBuilder_new(c.period)
      BY <3>1
    <3>3. builder = [x \in ProbeFields |-> builder[x]]
      BY <3>2 DEF ProbeBuilder_new, ProbeFields
    <3>4. FailureDurations = {}
      BY <2>1, NothingDecided
    <3>5. QED
      BY <3>3, <3>4 DEF ProbeInv
  <2>9. QED
    BY <2>1, <2>2, <2>3, <2>4, <2>5, <2>6, <2>7, <2>8, KindsOfBuilders DEF BuilderInv
<1>2. BuilderInv /\ [BuilderNext]_builderVars => BuilderInv'
  <2> SUFFICES ASSUME BuilderInv, [BuilderNext]_builderVars PROVE BuilderInv'
    OBVIOUS
  <2>1. CASE BuilderNext
    <3>1. PICK c \in CallsOn[kind] : builder' = Result(c).value
                                     /\ history' = Append(history, [call |-> c, ok |-> Result(c).ok])
      BY <2>1 DEF BuilderNext
    <3>2. kind' = kind /\ kind \in Kinds
      BY <2>1, KindsOfBuilders DEF BuilderNext, BuilderInv
    <3>3. history \in Seq([call : CallsOn[kind], ok : BOOLEAN])
      BY DEF BuilderInv
    <3>4. ASSUME Result(c).ok \in BOOLEAN PROVE history' \in Seq([call : CallsOn[kind], ok : BOOLEAN])
      <4> DEFINE H == [call : CallsOn[kind], ok : BOOLEAN]
                 h == [call |-> c, ok |-> Result(c).ok]
      <4>1. h \in H
        BY <3>4
      <4> HIDE DEF h, H
      <4>2. history \in Seq(H) /\ history' = Append(history, h)
        BY <3>1, <3>3 DEF H, h
      <4>3. history' \in Seq(H)
        BY <4>1, <4>2
      <4>4. QED
        BY <4>3 DEF H
    <3>5. CASE kind = "pod"
      <4> DEFINE r == PodCall(builder, c)
      <4>1. Result(c) = r /\ CallsOn[kind] = PodCalls
        BY <3>5, KindsOfBuilders DEF Result
      <4>2. PodInv /\ c \in PodCalls
        BY <3>5, <4>1 DEF BuilderInv
      <4>3. PodStep(builder, c, r)
        BY <4>2, PodCallStep DEF PodInv, ItemsFollow
      <4> HIDE DEF r
      <4>4. PodInv'
        BY <3>1, <3>3, <4>1, <4>2, <4>3, PodInvStep
      <4>5. r.ok \in BOOLEAN
        BY <4>3 DEF PodStep
      <4>6. QED
        BY <3>2, <3>4, <3>5, <4>1, <4>4, <4>5, KindsOfBuilders DEF BuilderInv
    <3>6. CASE kind = "container"
      <4> DEFINE r == ContainerCall(builder, c)
      <4>1. Result(c) = r /\ CallsOn[kind] = ContainerCalls
        BY <3>6, KindsOfBuilders DEF Result
      <4>2. ContainerInv /\ c \in ContainerCalls
        BY <3>6, <4>1 DEF BuilderInv
      <4>3. ContainerStep(builder, c, r)
        BY <4>2, ContainerCallStep DEF ContainerInv, ItemsFollow
      <4> HIDE DEF r
      <4>4. ContainerInv'
        BY <3>1, <3>3, <4>1, <4>2, <4>3, ContainerInvStep
      <4>5. r.ok \in BOOLEAN
        BY <4>3 DEF ContainerStep
      <4>6. QED
        BY <3>2, <3>4, <3>6, <4>1, <4>4, <4>5, KindsOfBuilders DEF BuilderInv
    <3>7. CASE kind = "env"
      <4>1. Result(c) = EnvVarCall(builder, c) /\ CallsOn[kind] = EnvVarCalls
        BY <3>7, KindsOfBuilders DEF Result
      <4>2. EnvInv
        BY <3>7 DEF BuilderInv
      <4>3. EnvInv' /\ EnvVarCall(builder, c).ok \in BOOLEAN
        BY <3>1, <3>3, <4>1, <4>2, EnvInvStep
      <4>4. QED
        BY <3>2, <3>4, <3>7, <4>1, <4>3, KindsOfBuilders DEF BuilderInv
    <3>8. CASE kind = "security"
      <4>1. Result(c) = SecurityCall(builder, c) /\ CallsOn[kind] = SecurityCalls
        BY <3>8, KindsOfBuilders DEF Result
      <4>2. SecurityInv
        BY <3>8 DEF BuilderInv
      <4>3. SecurityInv' /\ SecurityCall(builder, c).ok \in BOOLEAN
        BY <3>1, <3>3, <4>1, <4>2, SecurityInvStep
      <4>4. QED
        BY <3>2, <3>4, <3>8, <4>1, <4>3, KindsOfBuilders DEF BuilderInv
    <3>9. CASE kind = "secret"
      <4>1. Result(c) = SecretCall(builder, c) /\ CallsOn[kind] = {x \in SecretCalls : x.call # "volume"}
        BY <3>9, KindsOfBuilders DEF Result
      <4>2. SecretInv /\ c \in SecretCalls /\ c.call # "volume"
        BY <3>9, <4>1 DEF BuilderInv
      <4>3. history \in Seq([call : SecretCalls, ok : BOOLEAN])
        <5> DEFINE H == [call : CallsOn[kind], ok : BOOLEAN]
                   G == [call : SecretCalls, ok : BOOLEAN]
        <5>1. H \subseteq G
          BY <4>1
        <5> HIDE DEF H, G
        <5>2. history \in Seq(H)
          BY <3>3 DEF H
        <5>3. history \in Seq(G)
          BY <5>1, <5>2
        <5>4. QED
          BY <5>3 DEF G
      <4>4. SecretInv' /\ SecretCall(builder, c).ok \in BOOLEAN
        BY <3>1, <4>1, <4>2, <4>3, SecretInvStep
      <4>5. QED
        BY <3>2, <3>4, <3>9, <4>1, <4>4, KindsOfBuilders DEF BuilderInv
    <3>10. CASE kind = "probe"
      <4>1. Result(c) = ProbeCall(builder, c) /\ CallsOn[kind] = {x \in ProbeCalls : x.call # "period"}
        BY <3>10, KindsOfBuilders DEF Result
      <4>2. ProbeInv /\ c \in ProbeCalls /\ c.call # "period"
        BY <3>10, <4>1 DEF BuilderInv
      <4>3. history \in Seq([call : ProbeCalls, ok : BOOLEAN])
        <5> DEFINE H == [call : CallsOn[kind], ok : BOOLEAN]
                   G == [call : ProbeCalls, ok : BOOLEAN]
        <5>1. H \subseteq G
          BY <4>1
        <5> HIDE DEF H, G
        <5>2. history \in Seq(H)
          BY <3>3 DEF H
        <5>3. history \in Seq(G)
          BY <5>1, <5>2
        <5>4. QED
          BY <5>3 DEF G
      <4>4. ProbeInv' /\ ProbeCall(builder, c).ok \in BOOLEAN
        BY <3>1, <4>1, <4>2, <4>3, ProbeInvStep
      <4>5. QED
        BY <3>2, <3>4, <3>10, <4>1, <4>4, KindsOfBuilders DEF BuilderInv
    <3>11. kind # "placement"
      BY KindsOfBuilders
    <3>12. QED
      BY <3>2, <3>5, <3>6, <3>7, <3>8, <3>9, <3>10, <3>11 DEF Kinds
  <2>2. CASE UNCHANGED builderVars
    <3>1. kind' = kind /\ builder' = builder /\ history' = history
      BY <2>2 DEF builderVars
    <3>2. /\ \A f : Decided(f)' = Decided(f)
          /\ \A x : Given(x)' = Given(x)
      BY <3>1 DEF Decided, Given
    <3>3. FailureDurations' = FailureDurations
      BY <3>1 DEF FailureDurations
    <3>4. PodInv => PodInv'
      <4>1. \A x : IsLimited(x)' <=> IsLimited(x)
        BY <3>2 DEF IsLimited
      <4>2. QED
        BY <3>1, <3>2, <4>1 DEF PodInv, ItemsFollow
    <3>5. ContainerInv => ContainerInv'
      BY <3>1, <3>2 DEF ContainerInv, ItemsFollow
    <3>6. EnvInv => EnvInv'
      BY <3>1, <3>2 DEF EnvInv
    <3>7. SecurityInv => SecurityInv'
      BY <3>1 DEF SecurityInv, IsKept
    <3>8. SecretInv => SecretInv'
      BY <3>1 DEF SecretInv
    <3>9. ProbeInv => ProbeInv'
      BY <3>1, <3>3 DEF ProbeInv
    <3>10. QED
      BY <3>1, <3>4, <3>5, <3>6, <3>7, <3>8, <3>9 DEF BuilderInv
  <2>3. QED
    BY <2>1, <2>2
<1>3. QED
  BY <1>1, <1>2, PTL DEF BuilderSpec

\* Volumes and mounts are those offered, each once.
LEMMA ItemsOfPods == BuilderInv => FirstContentWins
<1> SUFFICES ASSUME BuilderInv, kind \in {"pod", "container"} PROVE FirstContentWins
  BY DEF FirstContentWins
<1>1. ItemsFollow(builder, PodCalls) \/ ItemsFollow(builder, ContainerCalls)
  BY DEF BuilderInv, PodInv, ContainerInv
<1>2. Items = builder.items
  BY DEF Items
<1>3. QED
  BY <1>1, <1>2 DEF FirstContentWins, ItemsFollow, Distinct

\* What comes out of the builders is what was decided last.
LEMMA FieldsOfBuilders == BuilderInv => LastCallDecides
<1> SUFFICES ASSUME BuilderInv, kind \in {"pod", "container", "env"},
                    NEW f \in DOMAIN Built \ {"volume_mounts", "env"}
             PROVE  Built[f] = Decided(f)
  BY DEF LastCallDecides
<1>1. CASE kind = "pod"
  <2> DEFINE a == [x \in AffinityFields \ {"node_selector"} |-> builder.fields[x]]
             m == [node_selector |-> builder.fields.node_selector, metadata |-> builder.fields.metadata]
  <2>1. Built = Overlay(a, m)
    BY <1>1 DEF Built, build_template, build_spec
  <2>2. f \in Decides /\ Built[f] = builder.fields[f]
    BY <2>1 DEF Overlay, Decides, AffinityFields
  <2>3. QED
    BY <1>1, <2>2 DEF BuilderInv, PodInv
<1>2. CASE kind = "container"
  <2> DEFINE g == [volume_mounts |-> IF builder.items = <<>> THEN None ELSE builder.items]
  <2>1. Built = Overlay(builder.fields, g) /\ DOMAIN g = {"volume_mounts"}
    BY <1>2 DEF Built, ContainerBuilder_build
  <2> HIDE DEF g
  <2>2. f \in DOMAIN builder.fields \ {"env"} /\ Built[f] = builder.fields[f]
    BY <2>1 DEF Overlay
  <2>3. QED
    BY <1>2, <2>2 DEF BuilderInv, ContainerInv
<1>3. CASE kind = "env"
  BY <1>3 DEF Built, BuilderInv, EnvInv
<1>4. QED
  BY <1>1, <1>2, <1>3

\* The containers of a built pod.
LEMMA ContainersOfPods == BuilderInv => InitContainersAreLimited
<1> SUFFICES ASSUME BuilderInv, kind = "pod" PROVE InitContainersAreLimited
  BY DEF InitContainersAreLimited
<1> DEFINE spec == build_template(builder).spec
<1>1. spec = build_spec(builder)
  BY DEF build_template
<1>2. spec.init_containers = builder.init_containers /\ spec.containers = builder.containers
  BY <1>1 DEF build_spec
<1>3. PodBuilder_build(builder).ok => PodBuilder_build(builder).value.spec = build_spec(builder)
  <2> HIDE DEF spec
  <2>1. QED
    BY DEF PodBuilder_build, Ok, Err
<1>4. PodInv
  BY DEF BuilderInv
<1> HIDE DEF spec
<1>5. /\ \A c \in Range(spec.init_containers) :
            /\ c.resources # None
            /\ c \in Given("add_init_container") \/ c.resources.limits = c.resources.requests
      /\ Range(spec.containers) = Given("add_container")
  BY <1>2, <1>4 DEF PodInv, IsLimited
<1>6. QED
  BY <1>1, <1>3, <1>5 DEF InitContainersAreLimited, spec

\* The options of security contexts.
LEMMA OptionsOfContexts == BuilderInv => SecurityOptionsAreKept
<1> SUFFICES ASSUME BuilderInv, kind = "security", NEW i \in DOMAIN history,
                    ~ \E j \in DOMAIN history : /\ j > i /\ history[j].call.group = history[i].call.group
                                                /\ history[j].call.option = history[i].call.option,
                    history[i].call.group # None
             PROVE  /\ builder.pod[history[i].call.group][history[i].call.option] = history[i].call.value
                    /\ builder.container[history[i].call.group] = builder.pod[history[i].call.group]
  BY DEF SecurityOptionsAreKept
<1>1. SecurityInv
  BY DEF BuilderInv
<1>2. IsKept(i)
  BY <1>1 DEF SecurityInv
<1>3. history[i].call.group \in Groups
  <2>1. history[i].call \in SecurityCalls
    <3>1. history \in Seq([call : SecurityCalls, ok : BOOLEAN])
      BY KindsOfBuilders DEF BuilderInv
    <3> DEFINE H == [call : SecurityCalls, ok : BOOLEAN]
    <3>2. \A x \in H : x.call \in SecurityCalls
      OBVIOUS
    <3> HIDE DEF H
    <3>3. history \in Seq(H)
      BY <3>1 DEF H
    <3>4. QED
      BY <3>2, <3>3
  <2>2. QED
    BY <2>1, SecurityConstants DEF IsSecurityCall, Groups
<1>4. QED
  BY <1>1, <1>2, <1>3 DEF SecurityInv, IsKept

\* The annotations and scopes of secret volumes.
LEMMA AnnotationsOfVolumes == BuilderInv => SecretVolumesAsRequested
<1> SUFFICES ASSUME BuilderInv, kind = "secret" PROVE SecretVolumesAsRequested
  BY DEF SecretVolumesAsRequested
<1> DEFINE built == SecretBuilder_build(builder)
<1>1. built.scope = builder.scopes /\ built.annotations = SecretAnnotations(builder)
  BY DEF SecretBuilder_build
<1> HIDE DEF built
<1>2. SecretInv
  BY DEF BuilderInv
<1>3. ("scope" \in built.annotations) <=> (built.scope # <<>>)
  BY <1>1 DEF SecretAnnotations
<1>4. ASSUME "tls-pkcs12.password" \in built.annotations
      PROVE  "format" \in built.annotations /\ builder.format = "tls-pkcs12"
  <2>1. tls_pkcs12_password(builder)
    BY <1>1, <1>4 DEF SecretAnnotations
  <2>2. builder.format = "tls-pkcs12"
    BY <2>1 DEF tls_pkcs12_password
  <2>3. builder.format # None
    BY <2>2, BuilderConstants
  <2>4. "format" \in built.annotations
    BY <1>1, <2>3 DEF SecretAnnotations
  <2>5. QED
    BY <2>2, <2>4
<1> DEFINE requests == {i \in DOMAIN history : history[i].call.call = "scope"}
           place(i) == Len(built.scope) - Cardinality({j \in requests : j > i})
<1>5. \A i \in requests : place(i) \in DOMAIN built.scope /\ built.scope[place(i)] = history[i].call.scope
  BY <1>1, <1>2 DEF SecretInv, ScopeRequests
<1>6. QED
  BY <1>3, <1>4, <1>5 DEF SecretVolumesAsRequested, built

\* Selectors say what they are about.
LEMMA SelectorsOfRoles == BudgetsSelectTheirRole
<1> SUFFICES ASSUME NEW p \in Pods
             PROVE  LET same == p.app = builder.app /\ p.cluster = builder.cluster
                    IN  /\ Selects(new_with_role(builder), p) <=> (same /\ p.role = builder.role)
                        /\ Selects(affinity_between_role_pods(builder), p) <=> (same /\ p.role = builder.role)
                        /\ Selects(affinity_between_cluster_pods(builder), p) <=> same
  BY DEF BudgetsSelectTheirRole
<1>1. DOMAIN new_with_role(builder) = {"name", "instance", "component"}
      /\ DOMAIN affinity_between_cluster_pods(builder) = {"name", "instance"}
  BY DEF new_with_role, affinity_between_cluster_pods
<1>2. new_with_role(builder) = affinity_between_role_pods(builder)
  BY DEF new_with_role, affinity_between_role_pods
<1>3. Selects(new_with_role(builder), p) <=> (p.app = builder.app /\ p.cluster = builder.cluster /\ p.role = builder.role)
  BY <1>1 DEF Selects, Labels_, new_with_role
<1>4. Selects(affinity_between_cluster_pods(builder), p) <=> (p.app = builder.app /\ p.cluster = builder.cluster)
  BY <1>1 DEF Selects, Labels_, affinity_between_cluster_pods
<1>5. QED
  BY <1>2, <1>3, <1>4

\* Whatever sequence of calls is made on a builder, successful or not: the
\* object it builds has the fields that the last call about each decided, the
\* volumes and mounts of all calls that succeeded, limited init containers, the
\* security options, scopes and passwords that were asked for, and the failure
\* threshold of the last duration (PodBuilder, ContainerBuilder and their like).
\* How far that threshold, a quotient of f32, covers the duration is left to TLC.
THEOREM BuildersAlwaysDoAsCalled == BuilderSpec => []CallsDecide
<1>1. BuilderInv => CallsDecide
  <2> SUFFICES ASSUME BuilderInv PROVE CallsDecide
    OBVIOUS
  <2>1. ThresholdsFollowRequests
    BY ProbesFollow DEF BuilderInv
  <2>2. QED
    BY <2>1, ItemsOfPods, FieldsOfBuilders, ContainersOfPods, OptionsOfContexts, AnnotationsOfVolumes,
       SelectorsOfRoles DEF CallsDecide
<1>2. QED
  BY <1>1, BuilderInvariant, PTL

=============================================================================
