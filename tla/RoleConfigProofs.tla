--------------------------- MODULE RoleConfigProofs ---------------------------
(***************************************************************************)
(* Proofs about the merge of a role group with its role and the defaults   *)
(* of the operator, for every custom resource: any sets of containers,     *)
(* loggers, arguments, keys and variables, and any number of role groups.  *)
(***************************************************************************)
EXTENDS RoleConfig, Recursion, FiniteSetTheorems, SequenceTheorems

(***************************************************************************)
(* Laws of the merge of configuration fragments                            *)
(***************************************************************************)
\* Option<T: Atomic>: merging three layers pairwise gives the tightest value
\* that is set, whichever pair is merged first.
LEMMA MergeOptionAssociative ==
  ASSUME NEW a, NEW b, NEW c
  PROVE  merge_option(merge_option(a, b), c) = merge_option(a, merge_option(b, c))
BY DEF merge_option

\* A merged map has the entries of both.
LEMMA MergeLoggersDomain ==
  ASSUME NEW a, NEW b
  PROVE  DOMAIN merge_loggers(a, b) = DOMAIN a \cup DOMAIN b
BY DEF merge_loggers

\* Maps (BTreeMap<K, V: Merge>) merge associatively when their values do: a
\* role group merged into the merge of role and defaults is the merge of role
\* group and role merged with the defaults.
THEOREM MergeLoggersAssociative ==
  ASSUME NEW a, NEW b, NEW c
  PROVE  merge_loggers(merge_loggers(a, b), c) = merge_loggers(a, merge_loggers(b, c))
PROOF
<1> DEFINE ab == merge_loggers(a, b)
           bc == merge_loggers(b, c)
           all == DOMAIN a \cup DOMAIN b \cup DOMAIN c
<1>1. DOMAIN ab = DOMAIN a \cup DOMAIN b /\ DOMAIN bc = DOMAIN b \cup DOMAIN c
  BY MergeLoggersDomain
<1>2. merge_loggers(ab, c) = [l \in all |->
        IF l \notin DOMAIN c THEN ab[l]
        ELSE IF l \notin DOMAIN ab THEN c[l] ELSE merge_option(ab[l], c[l])]
  <2>1. DOMAIN ab \cup DOMAIN c = all
    BY <1>1
  <2> QED
    BY <2>1 DEF merge_loggers
<1>3. merge_loggers(a, bc) = [l \in all |->
        IF l \notin DOMAIN bc THEN a[l]
        ELSE IF l \notin DOMAIN a THEN bc[l] ELSE merge_option(a[l], bc[l])]
  <2>1. DOMAIN a \cup DOMAIN bc = all
    BY <1>1
  <2> QED
    BY <2>1 DEF merge_loggers
<1>4. ASSUME NEW l \in all
      PROVE  (IF l \notin DOMAIN c THEN ab[l]
              ELSE IF l \notin DOMAIN ab THEN c[l] ELSE merge_option(ab[l], c[l]))
           = (IF l \notin DOMAIN bc THEN a[l]
              ELSE IF l \notin DOMAIN a THEN bc[l] ELSE merge_option(a[l], bc[l]))
  <2>1. l \in DOMAIN ab => ab[l] =
          (IF l \notin DOMAIN b THEN a[l]
           ELSE IF l \notin DOMAIN a THEN b[l] ELSE merge_option(a[l], b[l]))
    BY <1>1 DEF merge_loggers
  <2>2. l \in DOMAIN bc => bc[l] =
          (IF l \notin DOMAIN c THEN b[l]
           ELSE IF l \notin DOMAIN b THEN c[l] ELSE merge_option(b[l], c[l]))
    BY <1>1 DEF merge_loggers
  <2>3. merge_option(merge_option(a[l], b[l]), c[l])
          = merge_option(a[l], merge_option(b[l], c[l]))
    BY MergeOptionAssociative
  <2> HIDE DEF ab, bc
  <2> QED
    BY <1>1, <2>1, <2>2, <2>3
<1> HIDE DEF ab, bc, all
<1>5. merge_loggers(ab, c) = merge_loggers(a, bc)
  BY <1>2, <1>3, <1>4
<1> QED
  BY <1>5 DEF ab, bc

\* The tightest layer wins: a level set by the role group is the level after
\* the merge, whatever role and defaults say; and a level it leaves unset is
\* the one that role and defaults give.
THEOREM RoleGroupWins ==
  ASSUME NEW group, NEW role, NEW defaults, NEW l \in DOMAIN group
  PROVE  LET all == merge_loggers(group, merge_loggers(role, defaults))
         IN  /\ group[l] # None => all[l] = group[l]
             /\ (group[l] = None /\ l \in DOMAIN role \cup DOMAIN defaults) =>
                  all[l] = merge_loggers(role, defaults)[l]
PROOF
<1> DEFINE wider == merge_loggers(role, defaults)
<1>1. DOMAIN wider = DOMAIN role \cup DOMAIN defaults
  BY MergeLoggersDomain
<1>2. merge_loggers(group, wider)[l] =
        IF l \notin DOMAIN wider THEN group[l] ELSE merge_option(group[l], wider[l])
  BY DEF merge_loggers
<1> HIDE DEF wider
<1>3. /\ group[l] # None => merge_loggers(group, wider)[l] = group[l]
      /\ (group[l] = None /\ l \in DOMAIN wider) =>
           merge_loggers(group, wider)[l] = wider[l]
  BY <1>2 DEF merge_option
<1> QED
  BY <1>1, <1>3 DEF wider

\* With the default configuration of all containers as the widest layer, a
\* container is in the merged configuration whatever role and role group say.
THEOREM EveryContainerMerged ==
  ASSUME NEW group, NEW role, NEW c \in Containers
  PROVE  c \in DOMAIN merge_logging(group, merge_logging(role, default_logging)).containers
PROOF
<1>1. c \in DOMAIN default_logging.containers
  BY DEF default_logging
<1>2. merge_logging(role, default_logging).containers
        = merge_containers(role.containers, default_logging.containers)
  BY DEF merge_logging
<1>3. c \in DOMAIN merge_logging(role, default_logging).containers
  BY <1>1, <1>2 DEF merge_containers
<1>4. merge_logging(group, merge_logging(role, default_logging)).containers
        = merge_containers(group.containers, merge_logging(role, default_logging).containers)
  BY DEF merge_logging
<1> QED
  BY <1>3, <1>4 DEF merge_containers

(***************************************************************************)
(* The first option that is set, by place                                  *)
(***************************************************************************)
Places == 1..3

\* A set of places has a first one.
LEMMA FirstPlace ==
  ASSUME NEW I \in SUBSET Places, I # {}
  PROVE  Min(I) \in I /\ \A i \in I : Min(I) <= i
<1>1. \E n \in I : \A m \in I : n <= m
  <2>1. I \subseteq Nat
    BY DEF Places
  <2>2. QED
    BY <2>1, LeastNumber
<1>2. \E n \in I : \A m \in I : n =< m
  BY <1>1
<1>3. QED
  BY <1>2 DEF Min

\* all is wide, whose places are I, with one more place i in front.
InFront(i, I, all, wide) ==
  /\ I \in SUBSET Places /\ i \in Places /\ \A j \in I : i < j
  /\ DOMAIN wide = I /\ DOMAIN all = I \cup {i} /\ \A j \in I : all[j] = wide[j]

\* An option in front of all others: it counts if it is set, else the others do.
LEMMA FirstSetExtends ==
  ASSUME NEW I, NEW i, NEW all, NEW wide, InFront(i, I, all, wide)
  PROVE  FirstSet(all) = merge_option(all[i], FirstSet(wide))
<1> USE DEF InFront
<1> DEFINE S == {j \in DOMAIN all : all[j] # None}
           T == {j \in DOMAIN wide : wide[j] # None}
<1>1. S \in SUBSET Places /\ T \in SUBSET Places
  OBVIOUS
<1>2. CASE all[i] = None
  <2>1. S = T
    BY <1>2
  <2>2. T # {} => all[Min(T)] = wide[Min(T)]
    <3>1. T # {} => Min(T) \in T
      BY <1>1, FirstPlace
    <3>2. QED
      BY <3>1
  <2> HIDE DEF S, T
  <2>3. FirstSet(all) = (IF S = {} THEN None ELSE all[Min(S)])
    BY DEF FirstSet, S
  <2>4. FirstSet(wide) = (IF T = {} THEN None ELSE wide[Min(T)])
    BY DEF FirstSet, T
  <2>5. QED
    BY <1>2, <2>1, <2>2, <2>3, <2>4 DEF merge_option
<1>3. CASE all[i] # None
  <2>1. i \in S
    BY <1>3
  <2>2. Min(S) \in S /\ Min(S) <= i
    BY <1>1, <2>1, FirstPlace
  <2>3. Min(S) = i
    <3>1. Min(S) \in I \cup {i} /\ Min(S) \in Int /\ i \in Int
      BY <1>1, <2>2 DEF Places
    <3>2. Min(S) \in I => i < Min(S)
      OBVIOUS
    <3> HIDE DEF S
    <3>3. QED
      BY <2>2, <3>1, <3>2
  <2>4. FirstSet(all) = all[i]
    BY <2>1, <2>3 DEF FirstSet
  <2>5. QED
    BY <1>3, <2>4 DEF merge_option
<1>4. QED
  BY <1>2, <1>3

\* The same for the appenders, of which each has a level that may be set.
LEMMA AppenderExtends ==
  ASSUME NEW I, NEW i, NEW all, NEW wide, InFront(i, I, all, wide),
         \A j \in I : wide[j] \in Appenders \cup {None}, all[i] \in Appenders \cup {None}
  PROVE  ExpectedAppender(all) = merge_appender(all[i], ExpectedAppender(wide))
<1> USE DEF InFront
<1> DEFINE S == {j \in DOMAIN all : all[j] # None}
           T == {j \in DOMAIN wide : wide[j] # None}
           inS == [j \in S |-> all[j].level]
           inT == [j \in T |-> wide[j].level]
<1>1. S \in SUBSET Places /\ T \in SUBSET Places /\ T \subseteq I
  OBVIOUS
<1>2. ExpectedAppender(all) = (IF S = {} THEN None ELSE [level |-> FirstSet(inS)])
  BY DEF ExpectedAppender
<1>3. ExpectedAppender(wide) = (IF T = {} THEN None ELSE [level |-> FirstSet(inT)])
  BY DEF ExpectedAppender
<1>4. CASE all[i] = None
  <2>1. S = T
    BY <1>4
  <2>2. inS = inT
    BY <2>1
  <2> HIDE DEF inS, inT, S, T
  <2>3. QED
    BY <1>2, <1>3, <1>4, <2>1, <2>2 DEF merge_appender
<1>5. CASE all[i] # None
  <2>1. S = T \cup {i} /\ S # {} /\ all[i] = [level |-> all[i].level]
    BY <1>5 DEF Appenders
  <2>2. DOMAIN inS = T \cup {i} /\ DOMAIN inT = T /\ \A j \in T : inS[j] = inT[j]
    BY <2>1
  <2>3. inS[i] = all[i].level
    BY <2>1
  <2>4. \A j \in T : i < j
    BY <1>1
  <2> HIDE DEF inS, inT, S, T
  <2>5. FirstSet(inS) = merge_option(all[i].level, FirstSet(inT))
    <3>1. InFront(i, T, inS, inT)
      BY <1>1, <2>2, <2>4
    <3> HIDE DEF InFront
    <3>2. QED
      BY <2>3, <3>1, FirstSetExtends
  <2>6. CASE T = {}
    <3>1. FirstSet(inT) = None
      BY <2>2, <2>6 DEF FirstSet
    <3>2. FirstSet(inS) = all[i].level
      BY <2>5, <3>1 DEF merge_option
    <3>3. QED
      BY <1>2, <1>3, <1>5, <2>1, <2>6, <3>2 DEF merge_appender
  <2>7. CASE T # {}
    <3>1. FirstSet(inT) \in Levels \cup {None}
      <4> DEFINE set == {j \in DOMAIN inT : inT[j] # None}
      <4>1. set \in SUBSET Places
        BY <1>1, <2>2
      <4>2. set # {} => Min(set) \in set
        BY <4>1, FirstPlace
      <4>3. \A j \in T : inT[j] \in Levels \cup {None}
        BY DEF inT, T, Appenders
      <4> HIDE DEF set
      <4>4. FirstSet(inT) = (IF set = {} THEN None ELSE inT[Min(set)])
        BY DEF FirstSet, set
      <4>5. set # {} => Min(set) \in T
        BY <4>2, <2>2 DEF set
      <4>6. QED
        BY <4>3, <4>4, <4>5
    <3>2. [level |-> FirstSet(inT)] # None
      BY <3>1, LoggingAssumption DEF Appenders
    <3>3. QED
      BY <1>2, <1>3, <1>5, <2>1, <2>5, <2>7, <3>2 DEF merge_appender
  <2>8. QED
    BY <2>6, <2>7
<1>6. QED
  BY <1>4, <1>5

(***************************************************************************)
(* The choice for a container                                              *)
(***************************************************************************)
LayerChoices == CustomChoices \cup AutomaticChoices

\* ExpectedChoice with the layers that count given.
Expected(said, visible) ==
  IF visible = {} THEN None
  ELSE IF said[Min(visible)].variant = "Custom"
  THEN [variant |-> "Custom", config_map |-> FirstSet([i \in visible |-> said[i].config_map])]
  ELSE [variant |-> "Automatic",
        loggers |-> [l \in UNION {DOMAIN said[i].loggers : i \in visible} |->
                       FirstSet([i \in {j \in visible : l \in DOMAIN said[j].loggers} |->
                                   said[i].loggers[l]])],
        console |-> ExpectedAppender([i \in visible |-> said[i].console]),
        file    |-> ExpectedAppender([i \in visible |-> said[i].file])]

\* The layers that count among those from k on.
VisibleFrom(said, k) ==
  {i \in k..3 : /\ said[i] # None
                /\ \A j \in k..i : said[j] # None => said[j].variant = said[i].variant}

\* A choice has the variant of its kind, and None has none.
LEMMA ChoiceKinds ==
  /\ \A x \in CustomChoices : x.variant = "Custom" /\ x # None
  /\ \A x \in AutomaticChoices : x.variant = "Automatic" /\ x # None
  /\ \A x \in LayerChoices : x.variant = "Custom" => x \in CustomChoices
  /\ \A x \in LayerChoices : x.variant # "Custom" => x \in AutomaticChoices
<1>1. None \notin CustomChoices /\ None \notin AutomaticChoices
  BY LoggingAssumption
<1>2. \A x \in CustomChoices : x.variant = "Custom"
  BY DEF CustomChoices
<1>3. \A x \in AutomaticChoices : x.variant = "Automatic"
  BY DEF AutomaticChoices
<1>4. QED
  BY <1>1, <1>2, <1>3 DEF LayerChoices

\* Merging loggers keeps their types.
LEMMA MergeLoggersType ==
  ASSUME NEW K, NEW V, None \notin V,
         NEW a \in MapsFrom(K, V \cup {None}), NEW b \in MapsFrom(K, V \cup {None})
  PROVE  merge_loggers(a, b) \in MapsFrom(K, V \cup {None})
<1>1. PICK A \in SUBSET K : a \in [A -> V \cup {None}]
  BY DEF MapsFrom
<1>2. PICK B \in SUBSET K : b \in [B -> V \cup {None}]
  BY DEF MapsFrom
<1>3. merge_loggers(a, b) \in [A \cup B -> V \cup {None}]
  BY <1>1, <1>2 DEF merge_loggers, merge_option
<1>4. A \cup B \in SUBSET K
  OBVIOUS
<1>5. QED
  BY <1>3, <1>4 DEF MapsFrom

\* Merging appenders keeps their type.
LEMMA MergeAppenderType ==
  ASSUME NEW a \in Appenders \cup {None}, NEW b \in Appenders \cup {None}
  PROVE  merge_appender(a, b) \in Appenders \cup {None}
  BY DEF merge_appender, merge_option, Appenders

\* Merging two choices gives a choice, and None only for nothing.
LEMMA MergeChoiceType ==
  ASSUME NEW a \in LayerChoices \cup {None}, NEW b \in LayerChoices \cup {None}
  PROVE  /\ merge_choice(a, b) \in LayerChoices \cup {None}
         /\ merge_choice(a, b) = None <=> a = None /\ b = None
<1>1. CASE a = None \/ b = None
  BY <1>1, ChoiceKinds DEF merge_choice
<1>2. CASE a # None /\ b # None /\ a.variant # b.variant
  BY <1>2 DEF merge_choice
<1>3. CASE a # None /\ b # None /\ a.variant = b.variant /\ a.variant = "Custom"
  <2>1. a \in CustomChoices /\ b \in CustomChoices
    BY <1>3, ChoiceKinds
  <2>2. merge_choice(a, b) \in CustomChoices
    BY <1>3, <2>1 DEF merge_choice, merge_option, CustomChoices
  <2>3. QED
    BY <1>3, <2>2, ChoiceKinds DEF LayerChoices
<1>4. CASE a # None /\ b # None /\ a.variant = b.variant /\ a.variant # "Custom"
  <2>1. a \in AutomaticChoices /\ b \in AutomaticChoices
    BY <1>4, ChoiceKinds
  <2>2. merge_loggers(a.loggers, b.loggers) \in MapsFrom(Loggers, Levels \cup {None})
    BY <2>1, MergeLoggersType, LoggingAssumption DEF AutomaticChoices
  <2>3. /\ merge_appender(a.console, b.console) \in Appenders \cup {None}
        /\ merge_appender(a.file, b.file) \in Appenders \cup {None}
    BY <2>1, MergeAppenderType DEF AutomaticChoices
  <2>4. merge_automatic(a, b) \in AutomaticChoices
    BY <2>2, <2>3 DEF merge_automatic, AutomaticChoices
  <2>5. merge_choice(a, b) = merge_automatic(a, b)
    BY <1>4 DEF merge_choice
  <2>6. QED
    BY <1>4, <2>4, <2>5, ChoiceKinds DEF LayerChoices
<1>5. QED
  BY <1>1, <1>2, <1>3, <1>4

\* The layers that count from k on: those from k + 1 on, with k in front if it says the
\* same variant, or k alone if it says the other one.
LEMMA VisibleStep ==
  ASSUME NEW said \in [Places -> LayerChoices \cup {None}], NEW k \in Places
  PROVE  LET V == VisibleFrom(said, k + 1)
         IN  /\ V \in SUBSET Places /\ (\A i \in V : k < i /\ said[i] # None)
             /\ \A i \in V : said[i].variant = said[Min(V)].variant
             /\ VisibleFrom(said, k) =
                  IF said[k] = None THEN V
                  ELSE IF V = {} \/ said[Min(V)].variant = said[k].variant THEN V \cup {k}
                  ELSE {k}
<1> DEFINE V == VisibleFrom(said, k + 1)
<1>1. V \in SUBSET Places /\ \A i \in V : k < i /\ said[i] # None
  BY DEF VisibleFrom, Places
<1>2. V # {} => Min(V) \in V /\ \A i \in V : Min(V) <= i
  BY <1>1, FirstPlace
<1>3. ASSUME NEW i \in V PROVE said[i].variant = said[Min(V)].variant
  <2>1. Min(V) \in V /\ Min(V) <= i
    BY <1>2
  <2>2. said[Min(V)] # None /\ k < Min(V) /\ Min(V) \in Int /\ i \in Int /\ k \in Int
    BY <1>1, <2>1 DEF Places
  <2>3. Min(V) \in (k + 1)..i
    BY <2>1, <2>2
  <2>4. QED
    BY <2>2, <2>3 DEF VisibleFrom
<1>4. ASSUME NEW i \in Places
      PROVE  i \in VisibleFrom(said, k) <=>
               i \in (IF said[k] = None THEN V
                      ELSE IF V = {} \/ said[Min(V)].variant = said[k].variant THEN V \cup {k}
                      ELSE {k})
  <2>1. CASE i < k
    <3>1. i \notin VisibleFrom(said, k) /\ i \notin V /\ i # k
      BY <2>1 DEF VisibleFrom, Places
    <3>2. QED
      BY <3>1
  <2>2. CASE i = k
    <3>1. k..k = {k} /\ k \in k..3 /\ k \notin V
      BY DEF VisibleFrom, Places
    <3>2. k \in VisibleFrom(said, k) <=> said[k] # None
      BY <3>1 DEF VisibleFrom
    <3> HIDE DEF V
    <3>3. QED
      BY <2>2, <3>1, <3>2
  <2>3. CASE k < i
    <3>1. k..i = {k} \cup (k + 1)..i /\ i \in k..3 /\ i \in (k + 1)..3
      BY <2>3 DEF Places
    <3>2. i \in VisibleFrom(said, k) <=>
            i \in V /\ (said[k] # None => said[k].variant = said[i].variant)
      BY <3>1 DEF VisibleFrom
    <3> HIDE DEF V
    <3>3. i # k
      BY <2>3 DEF Places
    <3>4. QED
      BY <1>3, <3>2, <3>3
  <2>4. i \in Int /\ k \in Int
    BY DEF Places
  <2>5. QED
    BY <2>1, <2>2, <2>3, <2>4
<1>5. VisibleFrom(said, k) \subseteq Places
  BY DEF VisibleFrom, Places
<1> HIDE DEF V
<1>6. VisibleFrom(said, k) =
        IF said[k] = None THEN V
        ELSE IF V = {} \/ said[Min(V)].variant = said[k].variant THEN V \cup {k}
        ELSE {k}
  BY <1>1, <1>4, <1>5
<1>7. QED
  BY <1>1, <1>3, <1>6 DEF V

\* One option alone.
LEMMA FirstSetAlone ==
  ASSUME NEW k \in Places, NEW options, DOMAIN options = {k}
  PROVE  FirstSet(options) = options[k]
<1> DEFINE none == [i \in {} |-> None]
<1>1. FirstSet(none) = None
  BY DEF FirstSet
<1>2. InFront(k, {}, options, none)
  BY DEF InFront
<1> HIDE DEF none
<1>3. FirstSet(options) = merge_option(options[k], FirstSet(none))
  BY <1>2, FirstSetExtends
<1>4. QED
  BY <1>1, <1>3 DEF merge_option

\* One appender alone.
LEMMA AppenderAlone ==
  ASSUME NEW k \in Places, NEW appenders, DOMAIN appenders = {k}, appenders[k] \in Appenders \cup {None}
  PROVE  ExpectedAppender(appenders) = appenders[k]
<1> DEFINE none == [i \in {} |-> None]
<1>1. ExpectedAppender(none) = None
  BY DEF ExpectedAppender
<1>2. InFront(k, {}, appenders, none)
  BY DEF InFront
<1> HIDE DEF none
<1>3. ExpectedAppender(appenders) = merge_appender(appenders[k], ExpectedAppender(none))
  BY <1>2, AppenderExtends
<1>4. QED
  BY <1>1, <1>3 DEF merge_appender

\* A layer that counts alone is taken as it is.
LEMMA ExpectedAlone ==
  ASSUME NEW said \in [Places -> LayerChoices \cup {None}], NEW k \in Places, said[k] # None
  PROVE  Expected(said, {k}) = said[k]
<1>1. Min({k}) = k
  BY FirstPlace
<1>2. said[k] \in LayerChoices
  OBVIOUS
<1>3. CASE said[k].variant = "Custom"
  <2>1. said[k] \in CustomChoices
    BY <1>2, <1>3, ChoiceKinds
  <2>2. FirstSet([i \in {k} |-> said[i].config_map]) = said[k].config_map
    BY FirstSetAlone
  <2>3. Expected(said, {k}) = [variant |-> "Custom", config_map |-> said[k].config_map]
    BY <1>1, <1>3, <2>2 DEF Expected
  <2>4. QED
    BY <2>1, <2>3 DEF CustomChoices
<1>4. CASE said[k].variant # "Custom"
  <2>1. said[k] \in AutomaticChoices
    BY <1>2, <1>4, ChoiceKinds
  <2> DEFINE loggers == [l \in UNION {DOMAIN said[i].loggers : i \in {k}} |->
                           FirstSet([i \in {j \in {k} : l \in DOMAIN said[j].loggers} |->
                                       said[i].loggers[l]])]
             console == ExpectedAppender([i \in {k} |-> said[i].console])
             file == ExpectedAppender([i \in {k} |-> said[i].file])
  <2>2. console = said[k].console
    BY <2>1, AppenderAlone DEF AutomaticChoices
  <2>3. file = said[k].file
    BY <2>1, AppenderAlone DEF AutomaticChoices
  <2>4. loggers = said[k].loggers
    <3>1. UNION {DOMAIN said[i].loggers : i \in {k}} = DOMAIN said[k].loggers
      OBVIOUS
    <3>2. ASSUME NEW l \in DOMAIN said[k].loggers
          PROVE  FirstSet([i \in {j \in {k} : l \in DOMAIN said[j].loggers} |-> said[i].loggers[l]])
                   = said[k].loggers[l]
      <4>1. {j \in {k} : l \in DOMAIN said[j].loggers} = {k}
        OBVIOUS
      <4>2. FirstSet([i \in {k} |-> said[i].loggers[l]]) = said[k].loggers[l]
        BY FirstSetAlone
      <4>3. QED
        BY <4>1, <4>2
    <3>3. said[k].loggers = [l \in DOMAIN said[k].loggers |-> said[k].loggers[l]]
      BY <2>1 DEF AutomaticChoices, MapsFrom
    <3>4. QED
      BY <3>1, <3>2, <3>3
  <2>5. Expected(said, {k}) =
          [variant |-> "Automatic", loggers |-> loggers, console |-> console, file |-> file]
    BY <1>1, <1>4 DEF Expected
  <2> HIDE DEF loggers, console, file
  <2>6. said[k] = [variant |-> "Automatic", loggers |-> said[k].loggers,
                   console |-> said[k].console, file |-> said[k].file]
    BY <2>1 DEF AutomaticChoices
  <2>7. QED
    BY <2>2, <2>3, <2>4, <2>5, <2>6
<1>5. QED
  BY <1>3, <1>4

\* A custom configuration in front of others.
LEMMA CustomExtends ==
  ASSUME NEW said \in [Places -> LayerChoices \cup {None}], NEW k \in Places,
         NEW V \in SUBSET Places, V # {}, \A i \in V : k < i /\ said[i] \in CustomChoices,
         said[k] \in CustomChoices
  PROVE  Expected(said, V \cup {k}) =
           [variant |-> "Custom",
            config_map |-> merge_option(said[k].config_map, Expected(said, V).config_map)]
<1>1. Min(V) \in V /\ Min(V \cup {k}) \in V \cup {k}
  BY FirstPlace
<1>2. said[Min(V)].variant = "Custom" /\ said[Min(V \cup {k})].variant = "Custom"
  BY <1>1, ChoiceKinds
<1> DEFINE wide == [i \in V |-> said[i].config_map]
           all == [i \in V \cup {k} |-> said[i].config_map]
<1>3. Expected(said, V) = [variant |-> "Custom", config_map |-> FirstSet(wide)]
  BY <1>2 DEF Expected
<1>4. Expected(said, V \cup {k}) = [variant |-> "Custom", config_map |-> FirstSet(all)]
  BY <1>2 DEF Expected
<1>5. all[k] = said[k].config_map /\ InFront(k, V, all, wide)
  BY DEF InFront
<1> HIDE DEF all, wide
<1>6. FirstSet(all) = merge_option(said[k].config_map, FirstSet(wide))
  BY <1>5, FirstSetExtends
<1>7. QED
  BY <1>3, <1>4, <1>6

\* An automatic configuration in front of others.
LEMMA AutomaticExtends ==
  ASSUME NEW said \in [Places -> LayerChoices \cup {None}], NEW k \in Places,
         NEW V \in SUBSET Places, V # {}, \A i \in V : k < i /\ said[i] \in AutomaticChoices,
         said[k] \in AutomaticChoices
  PROVE  Expected(said, V \cup {k}) = merge_automatic(said[k], Expected(said, V))
<1> DEFINE W == V \cup {k}
           keys(S) == UNION {DOMAIN said[i].loggers : i \in S}
           level(S, l) == FirstSet([i \in {j \in S : l \in DOMAIN said[j].loggers} |-> said[i].loggers[l]])
           loggers(S) == [l \in keys(S) |-> level(S, l)]
           console(S) == ExpectedAppender([i \in S |-> said[i].console])
           file(S) == ExpectedAppender([i \in S |-> said[i].file])
<1>1. Min(V) \in V /\ Min(W) \in W
  BY FirstPlace
<1>2. said[Min(V)].variant # "Custom" /\ said[Min(W)].variant # "Custom"
  BY <1>1, ChoiceKinds
<1>3. Expected(said, V) = [variant |-> "Automatic", loggers |-> loggers(V),
                           console |-> console(V), file |-> file(V)]
  BY <1>2 DEF Expected
<1>4. Expected(said, W) = [variant |-> "Automatic", loggers |-> loggers(W),
                           console |-> console(W), file |-> file(W)]
  BY <1>2 DEF Expected
<1>5. console(W) = merge_appender(said[k].console, console(V))
  <2> DEFINE wide == [i \in V |-> said[i].console]
             all == [i \in V \cup {k} |-> said[i].console]
  <2>1. all[k] = said[k].console /\ InFront(k, V, all, wide)
    BY DEF InFront
  <2>2. all[k] \in Appenders \cup {None} /\ \A i \in V : wide[i] \in Appenders \cup {None}
    BY DEF AutomaticChoices
  <2> HIDE DEF wide, all
  <2>3. ExpectedAppender(all) = merge_appender(said[k].console, ExpectedAppender(wide))
    BY <2>1, <2>2, AppenderExtends
  <2>4. QED
    BY <2>3 DEF all, wide
<1>6. file(W) = merge_appender(said[k].file, file(V))
  <2> DEFINE wide == [i \in V |-> said[i].file]
             all == [i \in V \cup {k} |-> said[i].file]
  <2>1. all[k] = said[k].file /\ InFront(k, V, all, wide)
    BY DEF InFront
  <2>2. all[k] \in Appenders \cup {None} /\ \A i \in V : wide[i] \in Appenders \cup {None}
    BY DEF AutomaticChoices
  <2> HIDE DEF wide, all
  <2>3. ExpectedAppender(all) = merge_appender(said[k].file, ExpectedAppender(wide))
    BY <2>1, <2>2, AppenderExtends
  <2>4. QED
    BY <2>3 DEF all, wide
<1>7. loggers(W) = merge_loggers(said[k].loggers, loggers(V))
  <2>1. keys(W) = DOMAIN said[k].loggers \cup keys(V) /\ DOMAIN loggers(V) = keys(V)
    OBVIOUS
  <2>2. ASSUME NEW l \in keys(W)
        PROVE  level(W, l) = IF l \notin keys(V) THEN said[k].loggers[l]
                             ELSE IF l \notin DOMAIN said[k].loggers THEN level(V, l)
                             ELSE merge_option(said[k].loggers[l], level(V, l))
    <3> DEFINE SV == {j \in V : l \in DOMAIN said[j].loggers}
               SW == {j \in W : l \in DOMAIN said[j].loggers}
               wide == [i \in SV |-> said[i].loggers[l]]
               all == [i \in SW |-> said[i].loggers[l]]
    <3>1. SV \in SUBSET Places /\ \A j \in SV : k < j
      OBVIOUS
    <3>2. l \in keys(V) <=> SV # {}
      OBVIOUS
    <3>3. CASE l \notin DOMAIN said[k].loggers
      <4>1. SW = SV
        BY <3>3
      <4>2. l \in keys(V)
        BY <3>3, <2>1
      <4>3. all = wide
        BY <4>1
      <4>4. QED
        BY <3>3, <4>2, <4>3
    <3>4. CASE l \in DOMAIN said[k].loggers
      <4>1. SW = SV \cup {k}
        BY <3>4
      <4>2. all[k] = said[k].loggers[l] /\ InFront(k, SV, all, wide)
        BY <3>1, <4>1 DEF InFront
      <4>3. FirstSet(all) = level(W, l) /\ FirstSet(wide) = level(V, l)
        OBVIOUS
      <4> HIDE DEF all, wide, SW, SV, W, keys, level
      <4>4. FirstSet(all) = merge_option(said[k].loggers[l], FirstSet(wide))
        BY <4>2, FirstSetExtends
      <4>5. CASE SV = {}
        <5>1. FirstSet(all) = all[k]
          BY <4>2, <4>5, FirstSetAlone DEF InFront
        <5>2. QED
          BY <3>2, <4>2, <4>3, <4>5, <5>1
      <4>6. CASE SV # {}
        BY <3>2, <3>4, <4>3, <4>4, <4>6
      <4>7. QED
        BY <4>5, <4>6
    <3>5. QED
      BY <3>3, <3>4
  <2>3. \A l \in keys(V) : loggers(V)[l] = level(V, l)
    OBVIOUS
  <2>4. merge_loggers(said[k].loggers, loggers(V)) =
          [l \in keys(W) |-> IF l \notin keys(V) THEN said[k].loggers[l]
                             ELSE IF l \notin DOMAIN said[k].loggers THEN loggers(V)[l]
                             ELSE merge_option(said[k].loggers[l], loggers(V)[l])]
    BY <2>1 DEF merge_loggers
  <2>5. loggers(W) = [l \in keys(W) |-> level(W, l)]
    OBVIOUS
  <2> HIDE DEF loggers, keys, level, W
  <2>6. QED
    BY <2>2, <2>3, <2>4, <2>5
<1> HIDE DEF console, file, loggers
<1>8. QED
  BY <1>3, <1>4, <1>5, <1>6, <1>7 DEF merge_automatic

\* What is expected of the layers from k on is layer k merged with what is expected of
\* the wider ones.
LEMMA MergeStep ==
  ASSUME NEW said \in [Places -> LayerChoices \cup {None}], NEW k \in Places,
         Expected(said, VisibleFrom(said, k + 1)) \in LayerChoices \cup {None},
         Expected(said, VisibleFrom(said, k + 1)) = None <=> VisibleFrom(said, k + 1) = {}
  PROVE  /\ Expected(said, VisibleFrom(said, k))
              = merge_choice(said[k], Expected(said, VisibleFrom(said, k + 1)))
         /\ Expected(said, VisibleFrom(said, k)) \in LayerChoices \cup {None}
         /\ Expected(said, VisibleFrom(said, k)) = None <=> VisibleFrom(said, k) = {}
<1> DEFINE V == VisibleFrom(said, k + 1)
           W == VisibleFrom(said, k)
           wider == Expected(said, V)
<1>1. /\ V \in SUBSET Places /\ (\A i \in V : k < i /\ said[i] # None)
      /\ \A i \in V : said[i].variant = said[Min(V)].variant
      /\ W = IF said[k] = None THEN V
             ELSE IF V = {} \/ said[Min(V)].variant = said[k].variant THEN V \cup {k}
             ELSE {k}
  BY VisibleStep
<1>2. wider \in LayerChoices \cup {None} /\ (wider = None <=> V = {})
  OBVIOUS
<1>3. V # {} => Min(V) \in V
  BY <1>1, FirstPlace
<1> HIDE DEF V, W
<1>4. V # {} => wider.variant = said[Min(V)].variant
  <2>1. CASE V # {} /\ said[Min(V)].variant = "Custom"
    BY <2>1 DEF Expected
  <2>2. CASE V # {} /\ said[Min(V)].variant # "Custom"
    <3>1. said[Min(V)] \in AutomaticChoices
      BY <1>1, <1>3, <2>2, ChoiceKinds
    <3>2. said[Min(V)].variant = "Automatic"
      BY <3>1, ChoiceKinds
    <3>3. wider.variant = "Automatic"
      BY <2>2 DEF Expected
    <3>4. QED
      BY <3>2, <3>3
  <2>3. QED
    BY <2>1, <2>2
<1> HIDE DEF wider
<1>5. Expected(said, W) = merge_choice(said[k], wider)
  <2>1. CASE said[k] = None
    BY <1>1, <2>1 DEF merge_choice, wider
  <2>2. CASE said[k] # None /\ V = {}
    <3>1. W = {k}
      BY <1>1, <2>2
    <3>2. QED
      BY <1>2, <2>2, <3>1, ExpectedAlone DEF merge_choice
  <2>3. CASE said[k] # None /\ V # {} /\ said[Min(V)].variant # said[k].variant
    <3>1. W = {k}
      BY <1>1, <2>3
    <3>2. QED
      BY <1>2, <1>4, <2>3, <3>1, ExpectedAlone DEF merge_choice
  <2>4. CASE said[k] # None /\ V # {} /\ said[Min(V)].variant = said[k].variant
              /\ said[k].variant = "Custom"
    <3>1. W = V \cup {k}
      BY <1>1, <2>4
    <3>2. said[k] \in CustomChoices /\ \A i \in V : k < i /\ said[i] \in CustomChoices
      BY <1>1, <2>4, ChoiceKinds
    <3>3. Expected(said, W) = [variant |-> "Custom",
            config_map |-> merge_option(said[k].config_map, wider.config_map)]
      BY <1>1, <2>4, <3>1, <3>2, CustomExtends DEF wider
    <3>4. QED
      BY <1>2, <1>4, <2>4, <3>3 DEF merge_choice
  <2>5. CASE said[k] # None /\ V # {} /\ said[Min(V)].variant = said[k].variant
              /\ said[k].variant # "Custom"
    <3>1. W = V \cup {k}
      BY <1>1, <2>5
    <3>2. said[k] \in AutomaticChoices /\ \A i \in V : k < i /\ said[i] \in AutomaticChoices
      BY <1>1, <2>5, ChoiceKinds
    <3>3. Expected(said, W) = merge_automatic(said[k], wider)
      BY <1>1, <2>5, <3>1, <3>2, AutomaticExtends DEF wider
    <3>4. QED
      BY <1>2, <1>4, <2>5, <3>3 DEF merge_choice
  <2>6. QED
    BY <2>1, <2>2, <2>3, <2>4, <2>5
<1>6. /\ merge_choice(said[k], wider) \in LayerChoices \cup {None}
      /\ merge_choice(said[k], wider) = None <=> said[k] = None /\ wider = None
  <2>1. said[k] \in LayerChoices \cup {None}
    OBVIOUS
  <2>2. QED
    BY <1>2, <2>1, MergeChoiceType
<1>7. W = {} <=> said[k] = None /\ V = {}
  BY <1>1
<1>8. QED
  BY <1>2, <1>5, <1>6, <1>7 DEF W, V, wider

\* Merging the layers of a container pairwise gives what is expected of all three.
THEOREM ExpectedIsMerged ==
  ASSUME NEW said \in [Places -> LayerChoices \cup {None}]
  PROVE  /\ ExpectedChoice(said) = merge_choice(said[1], merge_choice(said[2], said[3]))
         /\ ExpectedChoice(said) \in LayerChoices \cup {None}
<1> DEFINE E(k) == Expected(said, VisibleFrom(said, k))
           Good(k) == E(k) \in LayerChoices \cup {None} /\ (E(k) = None <=> VisibleFrom(said, k) = {})
<1>1. VisibleFrom(said, 3 + 1) = {}
  BY DEF VisibleFrom
<1>2. E(3 + 1) = None /\ Good(3 + 1)
  BY <1>1 DEF Expected
<1>3. Good(3) /\ E(3) = merge_choice(said[3], None)
  BY <1>2, MergeStep DEF Places
<1>4. E(3) = said[3]
  BY <1>3 DEF merge_choice
<1>5. 2 + 1 = 3 /\ 1 + 1 = 2
  OBVIOUS
<1>6. Good(2) /\ E(2) = merge_choice(said[2], E(3))
  BY <1>3, <1>5, MergeStep DEF Places
<1>7. Good(1) /\ E(1) = merge_choice(said[1], E(2))
  BY <1>5, <1>6, MergeStep DEF Places
<1>8. VisibleFrom(said, 1) = Visible(said)
  BY DEF VisibleFrom, Visible
<1>9. Expected(said, Visible(said)) = ExpectedChoice(said)
  BY DEF Expected, ExpectedChoice
<1> HIDE DEF E
<1>10. QED
  BY <1>4, <1>6, <1>7, <1>8, <1>9 DEF E

(***************************************************************************)
(* Merge and validation of the logging configuration of a role group       *)
(***************************************************************************)
\* What a layer says about a container.
SaidBy(logging, c) == IF c \in DOMAIN logging.containers THEN logging.containers[c] ELSE None

SaidByAll(group, role, defaults, c) == [i \in 1..3 |-> SaidBy(<<group, role, defaults>>[i], c)]

\* The logging configuration of three layers, as validate_config merges them.
MergedLogging(group, role, defaults) == merge_logging(group, merge_logging(role, defaults))

\* What merging two maps of containers gives.
LEMMA MergeContainersSays ==
  ASSUME NEW a, NEW b
  PROVE  /\ DOMAIN merge_containers(a, b) = DOMAIN a \cup DOMAIN b
         /\ \A c \in DOMAIN a \cup DOMAIN b :
              merge_containers(a, b)[c] =
                merge_choice(IF c \in DOMAIN a THEN a[c] ELSE None, IF c \in DOMAIN b THEN b[c] ELSE None)
<1>1. DOMAIN merge_containers(a, b) = DOMAIN a \cup DOMAIN b
  BY DEF merge_containers
<1>2. ASSUME NEW c \in DOMAIN a \cup DOMAIN b
      PROVE  merge_containers(a, b)[c] =
               merge_choice(IF c \in DOMAIN a THEN a[c] ELSE None, IF c \in DOMAIN b THEN b[c] ELSE None)
  <2>1. merge_containers(a, b)[c] =
          IF c \notin DOMAIN b THEN a[c] ELSE IF c \notin DOMAIN a THEN b[c] ELSE merge_choice(a[c], b[c])
    BY DEF merge_containers
  <2>2. \A x : merge_choice(None, x) = x /\ merge_choice(x, None) = x
    BY DEF merge_choice
  <2>3. QED
    BY <2>1, <2>2
<1>3. QED
  BY <1>1, <1>2

\* The merged configuration says of every container what is expected.
LEMMA MergedSaysExpected ==
  ASSUME NEW group, NEW role, NEW defaults, IsLogging(group), IsLogging(role), IsLogging(defaults)
  PROVE  /\ DOMAIN MergedLogging(group, role, defaults).containers
              = DOMAIN group.containers \cup DOMAIN role.containers \cup DOMAIN defaults.containers
         /\ DOMAIN MergedLogging(group, role, defaults).containers \subseteq Containers
         /\ \A c : /\ SaidBy(MergedLogging(group, role, defaults), c)
                         = ExpectedChoice(SaidByAll(group, role, defaults, c))
                   /\ ExpectedChoice(SaidByAll(group, role, defaults, c)) \in LayerChoices \cup {None}
<1> DEFINE wide == merge_containers(role.containers, defaults.containers)
           all == merge_containers(group.containers, wide)
           said(c) == SaidByAll(group, role, defaults, c)
<1>1. MergedLogging(group, role, defaults).containers = all
  BY DEF MergedLogging, merge_logging
<1>2. /\ DOMAIN wide = DOMAIN role.containers \cup DOMAIN defaults.containers
      /\ DOMAIN all = DOMAIN group.containers \cup DOMAIN wide
  BY DEF merge_containers
<1>3. ASSUME NEW logging, IsLogging(logging), NEW c
      PROVE  DOMAIN logging.containers \subseteq Containers /\ SaidBy(logging, c) \in LayerChoices \cup {None}
  BY <1>3 DEF IsLogging, IsMap, SaidBy, LayerChoices
<1>4. ASSUME NEW c
      PROVE  /\ SaidBy(MergedLogging(group, role, defaults), c) = ExpectedChoice(said(c))
             /\ ExpectedChoice(said(c)) \in LayerChoices \cup {None}
  <2>1. said(c)[1] = SaidBy(group, c) /\ said(c)[2] = SaidBy(role, c) /\ said(c)[3] = SaidBy(defaults, c)
    BY DEF SaidByAll
  <2>2. said(c) \in [Places -> LayerChoices \cup {None}]
    <3>1. \A i \in Places : said(c)[i] \in LayerChoices \cup {None}
      BY <1>3, <2>1 DEF Places
    <3>2. said(c) = [i \in Places |-> said(c)[i]]
      BY DEF Places, SaidByAll
    <3> HIDE DEF said
    <3>3. QED
      BY <3>1, <3>2
  <2> HIDE DEF said
  <2>3. /\ ExpectedChoice(said(c)) = merge_choice(said(c)[1], merge_choice(said(c)[2], said(c)[3]))
        /\ ExpectedChoice(said(c)) \in LayerChoices \cup {None}
    BY <2>2, ExpectedIsMerged
  <2>4. (IF c \in DOMAIN wide THEN wide[c] ELSE None) = merge_choice(SaidBy(role, c), SaidBy(defaults, c))
    <3>1. CASE c \in DOMAIN wide
      BY <1>2, <3>1, MergeContainersSays DEF SaidBy
    <3>2. CASE c \notin DOMAIN wide
      BY <1>2, <3>2 DEF SaidBy, merge_choice
    <3>3. QED
      BY <3>1, <3>2
  <2> HIDE DEF wide
  <2>5. (IF c \in DOMAIN all THEN all[c] ELSE None)
          = merge_choice(SaidBy(group, c), IF c \in DOMAIN wide THEN wide[c] ELSE None)
    <3>1. CASE c \in DOMAIN all
      BY <1>2, <3>1, MergeContainersSays DEF SaidBy
    <3>2. CASE c \notin DOMAIN all
      BY <1>2, <3>2 DEF SaidBy, merge_choice
    <3>3. QED
      BY <3>1, <3>2
  <2>6. SaidBy(MergedLogging(group, role, defaults), c) = (IF c \in DOMAIN all THEN all[c] ELSE None)
    BY <1>1 DEF SaidBy
  <2> HIDE DEF all
  <2>7. QED
    BY <2>1, <2>3, <2>4, <2>5, <2>6
<1>5. DOMAIN all \subseteq Containers
  BY <1>2, <1>3
<1> HIDE DEF all, wide
<1>6. QED
  BY <1>1, <1>2, <1>4, <1>5

\* The first of three options that is set.
LEMMA FirstOfThree ==
  ASSUME NEW a, NEW b, NEW c
  PROVE  FirstSet(<<a, b, c>>) = merge_option(a, merge_option(b, c))
<1> DEFINE all == <<a, b, c>>
           two == [i \in {2, 3} |-> IF i = 2 THEN b ELSE c]
           one == [i \in {3} |-> c]
<1>1. InFront(2, {3}, two, one)
  BY DEF InFront, Places
<1>2. InFront(1, {2, 3}, all, two)
  <2>1. DOMAIN all = {1, 2, 3} /\ all[2] = b /\ all[3] = c
    OBVIOUS
  <2>2. QED
    BY <2>1 DEF InFront, Places
<1>3. one[3] = c /\ two[2] = b /\ all[1] = a
  OBVIOUS
<1>4. FirstSet(one) = one[3]
  <2>1. DOMAIN one = {3} /\ 3 \in Places
    BY DEF Places
  <2> HIDE DEF one
  <2>2. QED
    BY <2>1, FirstSetAlone
<1> HIDE DEF all, two, one
<1>5. FirstSet(two) = merge_option(two[2], FirstSet(one)) /\ FirstSet(all) = merge_option(all[1], FirstSet(two))
  BY <1>1, <1>2, FirstSetExtends
<1>6. QED
  BY <1>3, <1>4, <1>5 DEF all

\* The field that a failing validation names is one that is not set.
LEMMA FirstUnsetIsUnset ==
  ASSUME NEW choice \in LayerChoices \cup {None}, UnsetInChoice(choice) # {}
  PROVE  FirstUnset(choice) \in UnsetInChoice(choice)
<1>1. choice # None
  BY DEF UnsetInChoice
<1>2. CASE choice.variant = "Custom"
  <2>1. PICK p \in UnsetInChoice(choice) : TRUE
    OBVIOUS
  <2>2. \A q \in UnsetInChoice(choice) : choice.variant = "Automatic" => p[2] <= q[2]
    BY <1>2
  <2>3. QED
    BY <2>1, <2>2 DEF FirstUnset
<1>3. CASE choice.variant # "Custom"
  <2>1. choice \in AutomaticChoices
    BY <1>1, <1>3, ChoiceKinds
  <2> DEFINE T == {l \in DOMAIN choice.loggers : choice.loggers[l] = None}
  <2>2. UnsetInChoice(choice) = {<<"loggers", l>> : l \in T}
    BY <1>1, <1>3 DEF UnsetInChoice
  <2>3. T \subseteq Nat
    BY <2>1, LoggingAssumption DEF AutomaticChoices, MapsFrom
  <2>4. T # {}
    BY <2>2
  <2> HIDE DEF T
  <2>5. PICK l \in T : \A m \in T : l <= m
    BY <2>3, <2>4, LeastNumber
  <2>6. \A q \in UnsetInChoice(choice) : <<"loggers", l>>[2] <= q[2]
    BY <2>2, <2>5
  <2>7. <<"loggers", l>> \in UnsetInChoice(choice)
    BY <2>2
  <2>8. QED
    BY <2>6, <2>7 DEF FirstUnset
<1>4. QED
  BY <1>2, <1>3

\* The elements of the path of an error.
PathElements == {"containers", "config_map", "loggers"} \cup Nat

\* Sequences of two and three elements are made of shorter ones.
LEMMA ShortSequences ==
  ASSUME NEW S, NEW a \in S, NEW b \in S, NEW c \in S
  PROVE  <<a>> \o <<b>> = <<a, b>> /\ <<a, b>> \o <<c>> = <<a, b, c>>
<1>1. <<a>> \in Seq(S) /\ <<b>> \in Seq(S) /\ <<c>> \in Seq(S) /\ <<a, b>> \in Seq(S)
      /\ <<a, b, c>> \in Seq(S)
  OBVIOUS
<1>2. Append(<<a>>, b) = <<a>> \o <<b>> /\ Append(<<a, b>>, c) = <<a, b>> \o <<c>>
  BY <1>1, AppendIsConcat
<1>3. Append(<<a>>, b) = <<a, b>>
  <2> DEFINE s == Append(<<a>>, b)
  <2>1. s \in Seq(S) /\ Len(s) = 2 /\ s[1] = a /\ s[2] = b
    BY <1>1, AppendProperties
  <2> HIDE DEF s
  <2>2. \A i \in 1..Len(s) : s[i] = <<a, b>>[i]
    BY <2>1
  <2>3. s = <<a, b>>
    BY <1>1, <2>1, <2>2, SeqEqual
  <2>4. QED
    BY <2>3 DEF s
<1>4. Append(<<a, b>>, c) = <<a, b, c>>
  <2> DEFINE s == Append(<<a, b>>, c)
  <2>1. s \in Seq(S) /\ Len(s) = 3 /\ s[1] = a /\ s[2] = b /\ s[3] = c
    BY <1>1, AppendProperties
  <2> HIDE DEF s
  <2>2. \A i \in 1..Len(s) : s[i] = <<a, b, c>>[i]
    BY <2>1
  <2>3. s = <<a, b, c>>
    BY <1>1, <2>1, <2>2, SeqEqual
  <2>4. QED
    BY <2>3 DEF s
<1>5. QED
  BY <1>2, <1>3, <1>4

\* Two elements in front of a sequence.
LEMMA TwoInFront ==
  ASSUME NEW S, NEW a \in S, NEW b \in S, NEW path \in Seq(S)
  PROVE  LET all == <<a, b>> \o path
         IN  all[2] = b /\ SubSeq(all, 3, Len(all)) = path
<1> DEFINE front == <<a, b>>
           all == front \o path
<1>1. front \in Seq(S) /\ Len(front) = 2 /\ front[2] = b
  OBVIOUS
<1> HIDE DEF front
<1>2. /\ all \in Seq(S) /\ Len(all) = 2 + Len(path) /\ all[2] = b
      /\ \A i \in 1..Len(path) : all[2 + i] = path[i]
  <2>1. /\ all \in Seq(S) /\ Len(all) = Len(front) + Len(path)
        /\ \A i \in 1..(Len(front) + Len(path)) :
             all[i] = IF i <= Len(front) THEN front[i] ELSE path[i - Len(front)]
    BY <1>1, ConcatProperties
  <2>2. Len(path) \in Nat
    OBVIOUS
  <2> HIDE DEF all
  <2>3. all[2] = b
    BY <1>1, <2>1, <2>2
  <2>4. ASSUME NEW i \in 1..Len(path) PROVE all[2 + i] = path[i]
    <3>1. 2 + i \in 1..(2 + Len(path)) /\ ~(2 + i <= 2) /\ (2 + i) - 2 = i
      BY <2>2
    <3>2. QED
      BY <1>1, <2>1, <3>1
  <2>5. QED
    BY <1>1, <2>1, <2>3, <2>4
<1> HIDE DEF all
<1> DEFINE rest == SubSeq(all, 3, Len(all))
<1>3. rest \in Seq(S) /\ Len(rest) = Len(path)
  BY <1>2
<1>4. \A i \in 1..Len(path) : rest[i] = path[i]
  BY <1>2
<1> HIDE DEF rest
<1>5. rest = path
  BY <1>3, <1>4, SeqEqual
<1>6. QED
  BY <1>2, <1>5 DEF rest, all, front

\* The path of an error is the container followed by the field.
LEMMA ErrorPath ==
  ASSUME NEW choice \in LayerChoices \cup {None}, NEW path \in UnsetInChoice(choice), NEW c \in Nat
  PROVE  LET error == <<"containers", c>> \o path
         IN  error[2] = c /\ SubSeq(error, 3, Len(error)) = path
<1>1. choice # None
  BY DEF UnsetInChoice
<1>2. CASE choice.variant = "Custom"
  <2>1. path = <<"config_map">>
    BY <1>1, <1>2 DEF UnsetInChoice
  <2>2. path \in Seq(PathElements)
    BY <2>1 DEF PathElements
  <2>3. "containers" \in PathElements /\ c \in PathElements
    BY DEF PathElements
  <2>4. QED
    BY <2>2, <2>3, TwoInFront
<1>3. CASE choice.variant # "Custom"
  <2>1. PICK l \in DOMAIN choice.loggers : path = <<"loggers", l>>
    BY <1>1, <1>3 DEF UnsetInChoice
  <2>2. choice \in AutomaticChoices
    BY <1>1, <1>3, ChoiceKinds
  <2>3. l \in Nat
    BY <2>2, LoggingAssumption DEF AutomaticChoices, MapsFrom
  <2>4. path \in Seq(PathElements)
    <3>1. "loggers" \in PathElements /\ l \in PathElements
      BY <2>3 DEF PathElements
    <3>2. QED
      BY <2>1, <3>1
  <2>5. "containers" \in PathElements /\ c \in PathElements
    BY DEF PathElements
  <2>6. QED
    BY <2>4, <2>5, TwoInFront
<1>4. QED
  BY <1>2, <1>3

\* The types of a custom resource.
LEMMA SpecTypes ==
  ASSUME spec \in Specs, NEW g \in DOMAIN spec.groups
  PROVE  /\ IsLogging(spec.defaults) /\ IsLogging(spec.role.logging)
         /\ IsLogging(spec.groups[g].logging)
         /\ spec.role.jvm \in JvmOverrides /\ spec.groups[g].jvm \in JvmOverrides
         /\ spec.role.config \in FileOverrides /\ spec.groups[g].config \in FileOverrides
         /\ IsEnvVars(spec.role.env) /\ IsEnvVars(spec.groups[g].env)
         /\ spec.groups[g].replicas \in Nat \cup {None}
         /\ g \in GroupNames
  BY RoleConfigAssumption

\* What LoggingPrecedence says about the result for one role group.
LoggingAsExpected(g, got) ==
  LET flag == FirstSet(<<spec.groups[g].logging.enable_vector_agent,
                         spec.role.logging.enable_vector_agent,
                         spec.defaults.enable_vector_agent>>)
      failing == {c \in Containers : UnsetInChoice(ExpectedChoice(Said(g, c))) # {}}
  IN  IF got.ok
      THEN /\ flag # None /\ failing = {}
           /\ got.value.enable_vector_agent = flag
           /\ DOMAIN got.value.containers =
                DOMAIN spec.groups[g].logging.containers
                  \cup DOMAIN spec.role.logging.containers
                  \cup DOMAIN spec.defaults.containers
           /\ \A c \in DOMAIN got.value.containers :
                got.value.containers[c] = ExpectedChoice(Said(g, c))
      ELSE IF flag = None THEN got.error = <<"enable_vector_agent">>
      ELSE /\ got.error[2] \in failing
           /\ SubSeq(got.error, 3, Len(got.error))
                \in UnsetInChoice(ExpectedChoice(Said(g, got.error[2])))

\* Merging and validating a role group gives what is expected.
LEMMA ValidatedAsExpected ==
  ASSUME spec \in Specs, NEW g \in DOMAIN spec.groups
  PROVE  LoggingAsExpected(g, validate_config(g))
<1> DEFINE group == spec.groups[g].logging
           role == spec.role.logging
           defaults == spec.defaults
           all == MergedLogging(group, role, defaults)
           flag == FirstSet(<<group.enable_vector_agent, role.enable_vector_agent,
                              defaults.enable_vector_agent>>)
           wanted(c) == ExpectedChoice(Said(g, c))
           failing == {c \in Containers : UnsetInChoice(wanted(c)) # {}}
           unset == {c \in DOMAIN all.containers : UnsetInChoice(all.containers[c]) # {}}
           first == CHOOSE c \in unset : \A d \in unset : c <= d
           got == validate_config(g)
<1> SUFFICES LoggingAsExpected(g, got)
  OBVIOUS
<1>1. IsLogging(group) /\ IsLogging(role) /\ IsLogging(defaults)
  BY SpecTypes
<1>2. ASSUME NEW c PROVE SaidByAll(group, role, defaults, c) = Said(g, c)
  <2> DEFINE layers == <<group, role, defaults>>
  <2>1. ASSUME NEW i \in 1..3
        PROVE  SaidBy(layers[i], c) =
                 IF c \in DOMAIN layers[i].containers THEN layers[i].containers[c] ELSE None
    BY DEF SaidBy
  <2>2. SaidByAll(group, role, defaults, c) = [i \in 1..3 |-> SaidBy(layers[i], c)]
    BY DEF SaidByAll
  <2>3. Said(g, c) = [i \in 1..3 |->
          IF c \in DOMAIN layers[i].containers THEN layers[i].containers[c] ELSE None]
    BY DEF Said
  <2> HIDE DEF layers
  <2>4. QED
    BY <2>1, <2>2, <2>3
<1>3. /\ DOMAIN all.containers
           = DOMAIN group.containers \cup DOMAIN role.containers \cup DOMAIN defaults.containers
      /\ DOMAIN all.containers \subseteq Containers
      /\ \A c : SaidBy(all, c) = wanted(c) /\ wanted(c) \in LayerChoices \cup {None}
  <2>1. /\ DOMAIN all.containers
             = DOMAIN group.containers \cup DOMAIN role.containers \cup DOMAIN defaults.containers
        /\ DOMAIN all.containers \subseteq Containers
        /\ \A c : /\ SaidBy(all, c) = ExpectedChoice(SaidByAll(group, role, defaults, c))
                  /\ ExpectedChoice(SaidByAll(group, role, defaults, c)) \in LayerChoices \cup {None}
    <3> HIDE DEF group, role, defaults
    <3>1. QED
      BY <1>1, MergedSaysExpected
  <2> HIDE DEF all, group, role, defaults
  <2>2. QED
    BY <1>2, <2>1
<1>4. all.enable_vector_agent = flag
  <2>1. all.enable_vector_agent = merge_option(group.enable_vector_agent,
          merge_option(role.enable_vector_agent, defaults.enable_vector_agent))
    BY DEF MergedLogging, merge_logging
  <2>2. QED
    BY <2>1, FirstOfThree
<1>5. got = validate(all)
  BY DEF validate_config, MergedLogging
<1> HIDE DEF all
<1>6. unset = failing
  <2>1. \A c \in DOMAIN all.containers : all.containers[c] = wanted(c)
    BY <1>3 DEF SaidBy
  <2>2. \A c : c \notin DOMAIN all.containers => wanted(c) = None
    BY <1>3 DEF SaidBy
  <2>3. UnsetInChoice(None) = {}
    BY DEF UnsetInChoice
  <2> HIDE DEF wanted
  <2>4. QED
    BY <1>3, <2>1, <2>2, <2>3
<1>7. unset # {} => first \in unset
  <2>1. unset \subseteq Nat
    BY <1>3, LoggingAssumption
  <2> HIDE DEF unset
  <2>2. unset # {} => \E c \in unset : \A d \in unset : c <= d
    BY <2>1, LeastNumber
  <2>3. QED
    BY <2>2
<1>8. got = IF all.enable_vector_agent = None THEN Err(<<"enable_vector_agent">>)
            ELSE IF unset # {} THEN Err(<<"containers", first>> \o FirstUnset(all.containers[first]))
            ELSE Ok(all)
  BY <1>5 DEF validate
<1>9. LoggingAsExpected(g, got) <=>
        IF got.ok
        THEN /\ flag # None /\ failing = {}
             /\ got.value.enable_vector_agent = flag
             /\ DOMAIN got.value.containers
                  = DOMAIN group.containers \cup DOMAIN role.containers \cup DOMAIN defaults.containers
             /\ \A c \in DOMAIN got.value.containers : got.value.containers[c] = wanted(c)
        ELSE IF flag = None THEN got.error = <<"enable_vector_agent">>
        ELSE /\ got.error[2] \in failing
             /\ SubSeq(got.error, 3, Len(got.error)) \in UnsetInChoice(wanted(got.error[2]))
  BY DEF LoggingAsExpected
<1> HIDE DEF got, flag, first
<1>10. CASE flag = None
  <2>1. ~got.ok /\ got.error = <<"enable_vector_agent">>
    BY <1>4, <1>8, <1>10 DEF Err
  <2>2. QED
    BY <1>9, <1>10, <2>1
<1>11. CASE flag # None /\ unset # {}
  <2>1. first \in unset /\ first \in Nat /\ first \in DOMAIN all.containers
    BY <1>3, <1>7, <1>11, LoggingAssumption
  <2> DEFINE choice == all.containers[first]
             path == FirstUnset(choice)
  <2>2. choice = wanted(first) /\ choice \in LayerChoices \cup {None}
    BY <1>3, <2>1 DEF SaidBy
  <2>3. UnsetInChoice(choice) # {}
    BY <2>1
  <2>4. got = Err(<<"containers", first>> \o path)
    BY <1>4, <1>8, <1>11
  <2> HIDE DEF choice, unset, wanted
  <2>5. path \in UnsetInChoice(choice)
    BY <2>2, <2>3, FirstUnsetIsUnset
  <2> HIDE DEF path
  <2> DEFINE error == <<"containers", first>> \o path
  <2>6. error[2] = first /\ SubSeq(error, 3, Len(error)) = path
    BY <2>1, <2>2, <2>5, ErrorPath
  <2> HIDE DEF error
  <2>7. ~got.ok /\ got.error = error
    BY <2>4 DEF Err, error
  <2>8. first \in failing
    BY <1>6, <2>1
  <2> HIDE DEF failing
  <2>9. QED
    BY <1>9, <1>11, <2>2, <2>5, <2>6, <2>7, <2>8
<1>12. CASE flag # None /\ unset = {}
  <2>1. got.ok /\ got.value = all
    BY <1>4, <1>8, <1>12 DEF Ok
  <2>2. \A c \in DOMAIN all.containers : all.containers[c] = wanted(c)
    BY <1>3 DEF SaidBy
  <2> HIDE DEF unset, failing, wanted
  <2>3. QED
    BY <1>3, <1>4, <1>6, <1>9, <1>12, <2>1, <2>2
<1>13. QED
  BY <1>10, <1>11, <1>12

\* The two levels of the Vector container are set for every choice without an unset field.
LEMMA VectorLevelsAreSet ==
  ASSUME NEW choice \in LayerChoices, UnsetInChoice(choice) = {}
  PROVE  None \notin Range(vector_container(choice))
<1>1. INFO # None /\ choice # None
  BY LoggingAssumption, ChoiceKinds DEF LayerChoices
<1>2. vector_container(choice).log_level # None
  <2>1. CASE choice.variant = "Automatic"
    <3>1. choice \in AutomaticChoices
      BY <2>1, ChoiceKinds
    <3>2. \A l \in DOMAIN choice.loggers : choice.loggers[l] # None
      BY <1>1, <2>1 DEF UnsetInChoice
    <3>3. QED
      BY <1>1, <2>1, <3>2 DEF vector_container, root_log_level
  <2>2. CASE choice.variant # "Automatic"
    BY <1>1, <2>2 DEF vector_container
  <2>3. QED
    BY <2>1, <2>2
<1>3. vector_container(choice).file_log_level # None
  BY <1>1 DEF vector_container
<1>4. Range(vector_container(choice)) =
        {vector_container(choice).log_level, vector_container(choice).file_log_level}
  BY DEF Range, vector_container
<1>5. QED
  BY <1>2, <1>3, <1>4

\* What EveryContainerConfigured says about the result for one role group.
ContainersConfigured(got) ==
  (spec.defaults = default_logging /\ got.ok) =>
    \A c \in Containers :
      LET choice == validate_logging_configuration_for_container(got.value, c)
      IN  IF choice.ok
          THEN None \notin Range(vector_container(choice.value))
          ELSE choice.error = "ParseContainerName"

\* With the default configuration of all containers, every container has a choice.
LEMMA EveryContainerHasChoice ==
  ASSUME spec \in Specs, NEW g \in DOMAIN spec.groups
  PROVE  ContainersConfigured(validate_config(g))
<1> DEFINE got == validate_config(g)
<1> SUFFICES ASSUME spec.defaults = default_logging, got.ok, NEW c \in Containers
             PROVE  LET choice == validate_logging_configuration_for_container(got.value, c)
                    IN  IF choice.ok
                        THEN None \notin Range(vector_container(choice.value))
                        ELSE choice.error = "ParseContainerName"
  BY DEF ContainersConfigured
<1> DEFINE said == Said(g, c)
           choice == got.value.containers[c]
<1>1. LoggingAsExpected(g, got)
  BY ValidatedAsExpected
<1> HIDE DEF got
<1>2. /\ c \in DOMAIN got.value.containers
      /\ choice = ExpectedChoice(said)
      /\ UnsetInChoice(ExpectedChoice(said)) = {}
  <2>1. /\ {d \in Containers : UnsetInChoice(ExpectedChoice(Said(g, d))) # {}} = {}
        /\ DOMAIN default_logging.containers \subseteq DOMAIN got.value.containers
        /\ \A d \in DOMAIN got.value.containers : got.value.containers[d] = ExpectedChoice(Said(g, d))
    BY <1>1 DEF LoggingAsExpected
  <2>2. DOMAIN default_logging.containers = Containers
    BY DEF default_logging
  <2>3. QED
    BY <2>1, <2>2
<1>3. said \in [Places -> LayerChoices \cup {None}] /\ said[3] = default_container_log_config
  <2> DEFINE layers == <<spec.groups[g].logging, spec.role.logging, spec.defaults>>
  <2>1. \A i \in Places : IsLogging(layers[i])
    BY SpecTypes DEF Places
  <2>2. layers[3] = default_logging
    OBVIOUS
  <2>3. said = [i \in Places |->
                  IF c \in DOMAIN layers[i].containers THEN layers[i].containers[c] ELSE None]
    BY DEF Said, Places
  <2> HIDE DEF layers, said
  <2>4. \A i \in Places : (IF c \in DOMAIN layers[i].containers THEN layers[i].containers[c] ELSE None)
                            \in LayerChoices \cup {None}
    BY <2>1 DEF IsLogging, IsMap, LayerChoices
  <2>5. said \in [Places -> LayerChoices \cup {None}]
    BY <2>3, <2>4
  <2>6. said[3] = IF c \in DOMAIN layers[3].containers THEN layers[3].containers[c] ELSE None
    BY <2>3 DEF Places
  <2>7. QED
    BY <2>2, <2>5, <2>6 DEF default_logging
<1> HIDE DEF said
<1>4. ExpectedChoice(said) \in LayerChoices
  <2>1. said[3] \in AutomaticChoices
    <3>1. [l \in {ROOT} |-> INFO] \in MapsFrom(Loggers, Levels \cup {None})
      <4>1. {ROOT} \in SUBSET Loggers /\ [l \in {ROOT} |-> INFO] \in [{ROOT} -> Levels \cup {None}]
        BY LoggingAssumption
      <4>2. QED
        BY <4>1 DEF MapsFrom
    <3>2. [level |-> INFO] \in Appenders
      BY LoggingAssumption DEF Appenders
    <3>3. QED
      BY <1>3, <3>1, <3>2 DEF default_container_log_config, AutomaticChoices
  <2>2. said[3] \in LayerChoices /\ said[3] # None
    BY <2>1, ChoiceKinds DEF LayerChoices
  <2>3. said[1] \in LayerChoices \cup {None} /\ said[2] \in LayerChoices \cup {None}
    BY <1>3 DEF Places
  <2>4. merge_choice(said[2], said[3]) \in LayerChoices /\ merge_choice(said[2], said[3]) # None
    <3>1. /\ merge_choice(said[2], said[3]) \in LayerChoices \cup {None}
          /\ merge_choice(said[2], said[3]) = None <=> said[2] = None /\ said[3] = None
      BY <2>2, <2>3, MergeChoiceType
    <3>2. QED
      BY <2>2, <3>1
  <2>5. /\ merge_choice(said[1], merge_choice(said[2], said[3])) \in LayerChoices \cup {None}
        /\ merge_choice(said[1], merge_choice(said[2], said[3])) # None
    <3> DEFINE wide == merge_choice(said[2], said[3])
    <3>1. wide \in LayerChoices \cup {None} /\ wide # None
      BY <2>4
    <3> HIDE DEF wide
    <3>2. /\ merge_choice(said[1], wide) \in LayerChoices \cup {None}
          /\ merge_choice(said[1], wide) = None <=> said[1] = None /\ wide = None
      BY <2>3, <3>1, MergeChoiceType
    <3>3. QED
      BY <3>1, <3>2 DEF wide
  <2>6. ExpectedChoice(said) = merge_choice(said[1], merge_choice(said[2], said[3]))
    BY <1>3, ExpectedIsMerged
  <2>7. QED
    BY <2>5, <2>6
<1>5. choice \in LayerChoices /\ choice # None /\ UnsetInChoice(choice) = {}
  BY <1>2, <1>4, ChoiceKinds DEF LayerChoices
<1> DEFINE result == validate_logging_configuration_for_container(got.value, c)
<1>6. result = IF choice.variant = "Custom" /\ choice.config_map \in BadConfigMaps
               THEN Err("ParseContainerName") ELSE Ok(choice)
  BY <1>2, <1>5 DEF validate_logging_configuration_for_container
<1> HIDE DEF choice
<1>7. None \notin Range(vector_container(choice))
  BY <1>5, VectorLevelsAreSet
<1> HIDE DEF result
<1>8. IF result.ok THEN None \notin Range(vector_container(result.value))
      ELSE result.error = "ParseContainerName"
  BY <1>6, <1>7 DEF Ok, Err
<1>9. QED
  BY <1>8 DEF result

(***************************************************************************)
(* Overrides of a JSON file                                                *)
(***************************************************************************)
PatchResults == {Ok(doc) : doc \in Files} \cup {Err("ApplyJsonPatch")}

\* The overrides that the second generation applies.
JsonOverrides ==
  [kind : {"JsonMergePatch", "UserProvided"}, doc : Files]
    \cup [kind : {"JsonPatch"}, ops : Seq(PatchOperations)]

\* A function from some of the keys is a document.
LEMMA FileIntro ==
  ASSUME NEW doc, DOMAIN doc \subseteq FileKeys, doc \in [DOMAIN doc -> FileValues]
  PROVE  doc \in Files
BY DEF Files, MapsFrom

\* A document is a function from some of the keys.
LEMMA FileElim ==
  ASSUME NEW doc \in Files
  PROVE  DOMAIN doc \subseteq FileKeys /\ doc \in [DOMAIN doc -> FileValues]
BY DEF Files, MapsFrom

\* A merge patch makes a document of a document, and an empty one changes nothing.
LEMMA MergePatchType ==
  ASSUME NEW doc \in Files, NEW patch \in Files
  PROVE  MergePatch(doc, patch) \in Files
<1> DEFINE result == MergePatch(doc, patch)
           keys == (DOMAIN doc \cup DOMAIN patch) \ {k \in DOMAIN patch : patch[k] = Null}
<1>1. result = [k \in keys |-> IF k \in DOMAIN patch THEN patch[k] ELSE doc[k]]
  BY DEF MergePatch
<1>2. keys \subseteq FileKeys
  BY FileElim
<1>3. \A k \in keys : (IF k \in DOMAIN patch THEN patch[k] ELSE doc[k]) \in FileValues
  BY FileElim
<1> HIDE DEF keys, result
<1>4. DOMAIN result = keys /\ result \in [keys -> FileValues]
  BY <1>1, <1>3
<1>5. result \in Files
  BY <1>2, <1>4, FileIntro
<1>6. QED
  BY <1>5 DEF result

LEMMA EmptyPatch ==
  ASSUME NEW doc \in Files
  PROVE  MergePatch(doc, <<>>) = doc
<1>1. DOMAIN << >> = {}
  OBVIOUS
<1>2. doc = [k \in DOMAIN doc |-> doc[k]]
  BY FileElim
<1>3. MergePatch(doc, <<>>) = [k \in DOMAIN doc |-> doc[k]]
  BY <1>1 DEF MergePatch
<1>4. QED
  BY <1>2, <1>3

\* An operation of a patch makes a document, or fails.
LEMMA PatchStepType ==
  ASSUME NEW result \in PatchResults, NEW op \in PatchOperations
  PROVE  PatchStep(result, op) \in PatchResults
<1>1. CASE ~result.ok
  BY <1>1 DEF PatchStep
<1>2. CASE result.ok
  <2>1. PICK doc \in Files : result = Ok(doc)
    BY <1>2 DEF PatchResults, Err
  <2>2. result.value = doc
    BY <2>1 DEF Ok
  <2>3. op.key \in FileKeys /\ op.value \in FileValues
    BY DEF PatchOperations
  <2>4. DOMAIN doc \subseteq FileKeys /\ doc \in [DOMAIN doc -> FileValues]
    BY FileElim
  <2> DEFINE less == [k \in DOMAIN doc \ {op.key} |-> doc[k]]
             more == [k \in DOMAIN doc \cup {op.key} |-> IF k = op.key THEN op.value ELSE doc[k]]
  <2>5. less \in Files
    <3>1. DOMAIN less \subseteq FileKeys /\ less \in [DOMAIN less -> FileValues]
      BY <2>4
    <3> HIDE DEF less
    <3>2. QED
      BY <3>1, FileIntro
  <2>6. more \in Files
    <3>1. DOMAIN more \subseteq FileKeys
      BY <2>3, <2>4
    <3>2. more \in [DOMAIN more -> FileValues]
      BY <2>3, <2>4
    <3> HIDE DEF more
    <3>3. QED
      BY <3>1, <3>2, FileIntro
  <2>7. PatchStep(result, op) \in {Err("ApplyJsonPatch"), Ok(less), Ok(more)}
    BY <1>2, <2>2 DEF PatchStep
  <2> HIDE DEF less, more
  <2>8. QED
    BY <2>5, <2>6, <2>7 DEF PatchResults
<1>3. QED
  BY <1>1, <1>2

\* So does a whole patch.
LEMMA PatchType ==
  ASSUME NEW doc \in Files, NEW ops \in Seq(PatchOperations)
  PROVE  Patch(doc, ops) \in PatchResults
<1> DEFINE N == Len(ops)
           next == [n \in 1..N |-> [r \in PatchResults |-> PatchStep(r, ops[n])]]
           Body(g) == [n \in 0..Len(ops) |-> IF n = 0 THEN Ok(doc) ELSE PatchStep(g[n - 1], ops[n])]
<1>1. Ok(doc) \in PatchResults /\ N \in Nat
  BY DEF PatchResults
<1>2. next \in Steps(N, PatchResults)
  <2>1. \A n \in 1..N, r \in PatchResults : PatchStep(r, ops[n]) \in PatchResults
    BY PatchStepType
  <2>2. QED
    BY <2>1 DEF Steps
<1>3. PICK f : Iterates(f, N, PatchResults, Ok(doc), next)
  <2> HIDE DEF N, next
  <2>1. QED
    BY <1>1, <1>2, IterationExists
<1>4. f = Body(f)
  <2>1. ASSUME NEW n \in 0..N
        PROVE  f[n] = IF n = 0 THEN Ok(doc) ELSE PatchStep(f[n - 1], ops[n])
    <3>1. CASE n = 0
      BY <1>3, <3>1 DEF Iterates
    <3>2. CASE n # 0
      <4>1. n \in 1..N /\ n - 1 \in 0..N
        BY <1>1, <3>2
      <4>2. f[n - 1] \in PatchResults /\ f[n] = next[n][f[n - 1]]
        BY <1>3, <4>1 DEF Iterates
      <4>3. QED
        BY <3>2, <4>1, <4>2
    <3>3. QED
      BY <3>1, <3>2
  <2>2. f = [n \in 0..N |-> f[n]]
    BY <1>3 DEF Iterates
  <2>3. QED
    BY <2>1, <2>2
<1>5. Patched(doc, ops) = Body(Patched(doc, ops))
  BY <1>4 DEF Patched
<1> DEFINE done == Patched(doc, ops)
<1>6. Follows(done, N, PatchResults, Ok(doc), next)
  <2>1. ASSUME NEW g, g = Body(g) PROVE Follows(g, N, PatchResults, Ok(doc), next)
    <3>1. g = [n \in 0..N |-> g[n]] /\ g[0] = Ok(doc)
      BY <1>1, <2>1
    <3>2. \A n \in 1..N : g[n] = PatchStep(g[n - 1], ops[n])
      BY <1>1, <2>1
    <3>3. QED
      BY <3>1, <3>2 DEF Follows
  <2> HIDE DEF Body, next, N
  <2>2. QED
    BY <1>5, <2>1
<1> HIDE DEF next, done, N
<1>7. Iterates(done, N, PatchResults, Ok(doc), next)
  BY <1>1, <1>2, <1>6, IterationFollows
<1>8. done[N] \in PatchResults
  BY <1>1, <1>7 DEF Iterates
<1>9. QED
  BY <1>8 DEF Patch, N, done

\* An override makes a document of a document.
LEMMA ApplyOneType ==
  ASSUME NEW overrides \in JsonOverrides, NEW base \in Files
  PROVE  ApplyOne(overrides, base) \in Files
<1>1. CASE overrides.kind = "JsonMergePatch"
  <2>1. overrides.doc \in Files
    BY <1>1 DEF JsonOverrides
  <2>2. QED
    BY <1>1, <2>1, MergePatchType DEF ApplyOne
<1>2. CASE overrides.kind = "UserProvided"
  BY <1>2 DEF ApplyOne, JsonOverrides
<1>3. CASE overrides.kind = "JsonPatch"
  <2>1. overrides.ops \in Seq(PatchOperations)
    BY <1>3 DEF JsonOverrides
  <2> DEFINE patched == Patch(base, overrides.ops)
  <2>2. patched \in PatchResults
    BY <2>1, PatchType
  <2>3. ApplyOne(overrides, base) = IF patched.ok THEN patched.value ELSE base
    BY <1>3 DEF ApplyOne
  <2> HIDE DEF patched
  <2>4. patched.ok => patched.value \in Files
    BY <2>2 DEF PatchResults, Ok, Err
  <2>5. QED
    BY <2>3, <2>4
<1>4. QED
  BY <1>1, <1>2, <1>3 DEF JsonOverrides

\* The overrides of a sequence are applied one after the other, from the last to the first.
LEMMA AppliedStep ==
  ASSUME NEW items \in Seq(JsonOverrides), NEW base \in Files
  PROVE  /\ Applied(items, base) \in [0..Len(items) -> Files]
         /\ Applied(items, base)[0] = base
         /\ \A n \in 1..Len(items) : Applied(items, base)[n]
              = ApplyOne(items[Len(items) - n + 1], Applied(items, base)[n - 1])
<1> DEFINE N == Len(items)
           next == [n \in 1..N |-> [doc \in Files |-> ApplyOne(items[N - n + 1], doc)]]
           Body(g) == [n \in 0..Len(items) |->
                         IF n = 0 THEN base ELSE ApplyOne(items[Len(items) - n + 1], g[n - 1])]
<1>1. N \in Nat
  OBVIOUS
<1>2. next \in Steps(N, Files)
  <2>1. \A n \in 1..N : N - n + 1 \in 1..N
    BY <1>1
  <2>2. \A n \in 1..N, doc \in Files : ApplyOne(items[N - n + 1], doc) \in Files
    BY <2>1, ApplyOneType
  <2>3. QED
    BY <2>2 DEF Steps
<1>3. PICK f : Iterates(f, N, Files, base, next)
  <2> HIDE DEF N, next
  <2>1. QED
    BY <1>1, <1>2, IterationExists
<1>4. f = Body(f)
  <2>1. ASSUME NEW n \in 0..N
        PROVE  f[n] = IF n = 0 THEN base ELSE ApplyOne(items[N - n + 1], f[n - 1])
    <3>1. CASE n = 0
      BY <1>3, <3>1 DEF Iterates
    <3>2. CASE n # 0
      <4>1. n \in 1..N /\ n - 1 \in 0..N
        BY <1>1, <3>2
      <4>2. f[n - 1] \in Files /\ f[n] = next[n][f[n - 1]]
        BY <1>3, <4>1 DEF Iterates
      <4>3. QED
        BY <3>2, <4>1, <4>2
    <3>3. QED
      BY <3>1, <3>2
  <2>2. f = [n \in 0..N |-> f[n]]
    BY <1>3 DEF Iterates
  <2>3. QED
    BY <2>1, <2>2
<1>5. Applied(items, base) = Body(Applied(items, base))
  BY <1>4 DEF Applied
<1> DEFINE done == Applied(items, base)
<1>6. ASSUME NEW g, g = Body(g)
      PROVE  /\ g = [n \in 0..N |-> g[n]] /\ g[0] = base
             /\ \A n \in 1..N : g[n] = ApplyOne(items[N - n + 1], g[n - 1])
  <2>1. \A n \in 0..N : g[n] = IF n = 0 THEN base ELSE ApplyOne(items[N - n + 1], g[n - 1])
    BY <1>6
  <2>2. g = [n \in 0..N |-> g[n]]
    BY <1>6
  <2>3. 0 \in 0..N /\ \A n \in 1..N : n \in 0..N /\ n # 0
    BY <1>1
  <2> HIDE DEF N, Body
  <2>4. QED
    BY <2>1, <2>2, <2>3
<1>7. /\ done = [n \in 0..N |-> done[n]] /\ done[0] = base
      /\ \A n \in 1..N : done[n] = ApplyOne(items[N - n + 1], done[n - 1])
  <2> HIDE DEF Body, N
  <2>1. QED
    BY <1>5, <1>6
<1> HIDE DEF done
<1>8. Follows(done, N, Files, base, next)
  BY <1>7 DEF Follows
<1>9. done \in [0..N -> Files]
  <2> HIDE DEF next, N
  <2>1. Iterates(done, N, Files, base, next)
    BY <1>1, <1>2, <1>8, IterationFollows
  <2>2. QED
    BY <2>1 DEF Iterates
<1>10. QED
  BY <1>7, <1>9 DEF done

\* The result for a sequence of one override,
LEMMA ApplyFirst ==
  ASSUME NEW a \in JsonOverrides, NEW base \in Files
  PROVE  Applied(<<a>>, base)[1] = ApplyOne(a, base)
<1> DEFINE items == <<a>>
<1>1. items \in Seq(JsonOverrides) /\ Len(items) = 1 /\ items[1] = a
  OBVIOUS
<1> HIDE DEF items
<1>2. /\ Applied(items, base)[0] = base
      /\ \A n \in 1..1 : Applied(items, base)[n]
           = ApplyOne(items[1 - n + 1], Applied(items, base)[n - 1])
  BY <1>1, AppliedStep
<1>3. Applied(items, base)[1] = ApplyOne(items[1 - 1 + 1], Applied(items, base)[1 - 1])
  BY <1>2
<1>4. 1 - 1 = 0 /\ 0 + 1 = 1
  OBVIOUS
<1>5. QED
  BY <1>1, <1>2, <1>3, <1>4 DEF items

\* of two
LEMMA ApplySecond ==
  ASSUME NEW a \in JsonOverrides, NEW b \in JsonOverrides, NEW base \in Files
  PROVE  Applied(<<a, b>>, base)[2] = ApplyOne(a, ApplyOne(b, base))
<1> DEFINE items == <<a, b>>
<1>1. items \in Seq(JsonOverrides) /\ Len(items) = 2 /\ items[1] = a /\ items[2] = b
  OBVIOUS
<1> HIDE DEF items
<1>2. /\ Applied(items, base)[0] = base
      /\ \A n \in 1..2 : Applied(items, base)[n]
           = ApplyOne(items[2 - n + 1], Applied(items, base)[n - 1])
  BY <1>1, AppliedStep
<1>3. /\ Applied(items, base)[1] = ApplyOne(items[2 - 1 + 1], Applied(items, base)[1 - 1])
      /\ Applied(items, base)[2] = ApplyOne(items[2 - 2 + 1], Applied(items, base)[2 - 1])
  BY <1>2
<1>4. 1 - 1 = 0 /\ 2 - 1 + 1 = 2 /\ 2 - 2 + 1 = 1 /\ 2 - 1 = 1
  OBVIOUS
<1>5. QED
  BY <1>1, <1>2, <1>3, <1>4 DEF items

\* and of three.
LEMMA ApplyThird ==
  ASSUME NEW a \in JsonOverrides, NEW b \in JsonOverrides, NEW c \in JsonOverrides, NEW base \in Files
  PROVE  Applied(<<a, b, c>>, base)[3] = ApplyOne(a, ApplyOne(b, ApplyOne(c, base)))
<1> DEFINE items == <<a, b, c>>
<1>1. items \in Seq(JsonOverrides) /\ Len(items) = 3 /\ items[1] = a /\ items[2] = b /\ items[3] = c
  OBVIOUS
<1> HIDE DEF items
<1>2. /\ Applied(items, base)[0] = base
      /\ \A n \in 1..3 : Applied(items, base)[n]
           = ApplyOne(items[3 - n + 1], Applied(items, base)[n - 1])
  BY <1>1, AppliedStep
<1>3. /\ Applied(items, base)[1] = ApplyOne(items[3 - 1 + 1], Applied(items, base)[1 - 1])
      /\ Applied(items, base)[2] = ApplyOne(items[3 - 2 + 1], Applied(items, base)[2 - 1])
      /\ Applied(items, base)[3] = ApplyOne(items[3 - 3 + 1], Applied(items, base)[3 - 1])
  BY <1>2
<1>4. /\ 1 - 1 = 0 /\ 2 - 1 = 1 /\ 3 - 1 = 2
      /\ 3 - 1 + 1 = 3 /\ 3 - 2 + 1 = 2 /\ 3 - 3 + 1 = 1
  OBVIOUS
<1>5. QED
  BY <1>1, <1>2, <1>3, <1>4 DEF items

\* What the second generation makes of an override that the first accepts, and of one that
\* it rejects for what is in the file.
LEMMA GenerationsApply ==
  ASSUME NEW overrides \in JsonOverrides, NEW base \in Files
  PROVE  LET first == apply_v1(overrides, base)
         IN  /\ first.ok => ApplyOne(overrides, base) = first.value
             /\ (/\ ~first.ok
                 /\ overrides.kind = "JsonPatch" =>
                      \A i \in DOMAIN overrides.ops : overrides.ops[i].op # "unparsable")
                  => ApplyOne(overrides, base) = base
<1> DEFINE first == apply_v1(overrides, base)
           patched == Patch(base, overrides.ops)
           unparsable == \E i \in DOMAIN overrides.ops : overrides.ops[i].op = "unparsable"
<1>1. CASE overrides.kind = "JsonMergePatch"
  BY <1>1 DEF apply_v1, ApplyOne, Ok
<1>2. CASE overrides.kind = "UserProvided"
  BY <1>2 DEF apply_v1, ApplyOne, Ok
<1>3. CASE overrides.kind = "JsonPatch"
  <2>1. first = IF unparsable THEN Err("DeserializeJsonPatchOperation") ELSE patched
    BY <1>3 DEF apply_v1
  <2>2. ApplyOne(overrides, base) = IF patched.ok THEN patched.value ELSE base
    BY <1>3 DEF ApplyOne
  <2>3. (overrides.kind = "JsonPatch" =>
           \A i \in DOMAIN overrides.ops : overrides.ops[i].op # "unparsable") <=> ~unparsable
    BY <1>3
  <2> HIDE DEF patched, unparsable, first
  <2>4. /\ first.ok => ApplyOne(overrides, base) = first.value
        /\ (~first.ok /\ ~unparsable) => ApplyOne(overrides, base) = base
    BY <2>1, <2>2 DEF Err
  <2>5. QED
    BY <2>3, <2>4 DEF first
<1>4. QED
  BY <1>1, <1>2, <1>3 DEF JsonOverrides

\* What can be written at a role is applied as one of the overrides above.
LEMMA IntoJsonType ==
  ASSUME NEW overrides \in FileOverrides
  PROVE  into_json(overrides) \in JsonOverrides
<1>1. CASE overrides.kind = "KeyValue"
  <2>1. overrides.doc \in Files
    BY <1>1 DEF FileOverrides
  <2>2. QED
    BY <1>1, <2>1 DEF into_json, JsonOverrides
<1>2. CASE overrides.kind # "KeyValue"
  BY <1>2 DEF into_json, JsonOverrides, FileOverrides
<1>3. QED
  BY <1>1, <1>2


\* What ConfigOverridesLayered says about the result for one role group.
FilesLayered(g, value) ==
  LET role  == into_json(spec.role.config)
      group == into_json(spec.groups[g].config)
      both  == value.config
      file  == apply(both, OperatorFile)
      first == apply_v1(role, OperatorFile)
  IN  /\ \A i \in DOMAIN both.items : both.items[i].kind # "Sequence"
      /\ group.kind = "UserProvided" => file = group.doc
      /\ (group = DefaultOverrides /\ first.ok) => file = first.value
      /\ (first.ok /\ apply_v1(group, first.value).ok) =>
           file = apply_v1(group, first.value).value
      /\ ~first.ok => file = apply(group, OperatorFile)
      /\ apply(merge_config_overrides(both, DefaultOverrides), OperatorFile) = file
      /\ \A section \in {"cli", "pod"} :
           LET tight == spec.groups[g][section]
               wide  == spec.role[section]
           IN  value[section] = [k \in DOMAIN wide \cup DOMAIN tight |->
                                   IF k \in DOMAIN tight THEN tight[k] ELSE wide[k]]

\* The file of a role group, when the custom resource deserializes.
LEMMA ConfigIsLayered ==
  ASSUME spec \in Specs, NEW g \in DOMAIN spec.groups, Deserializes, with_validated_config(g).ok
  PROVE  FilesLayered(g, with_validated_config(g).value)
<1> DEFINE role == into_json(spec.role.config)
           group == into_json(spec.groups[g].config)
           value == with_validated_config(g).value
           both == value.config
           base == OperatorFile
           last == DefaultOverrides
           file == apply(both, base)
           first == apply_v1(role, base)
           below == ApplyOne(role, base)
<1>1. spec.role.config \in FileOverrides /\ spec.groups[g].config \in FileOverrides /\ base \in Files
  BY SpecTypes, RoleConfigAssumption
<1>2. role \in JsonOverrides /\ group \in JsonOverrides
  BY <1>1, IntoJsonType
<1>3. last \in JsonOverrides
  <2>1. << >> \in [{} -> FileValues] /\ {} \in SUBSET FileKeys
    OBVIOUS
  <2>2. << >> \in Files
    BY <2>1 DEF Files, MapsFrom
  <2>3. QED
    BY <2>2 DEF DefaultOverrides, JsonOverrides
<1>4. /\ value.config = merge_config_overrides(spec.groups[g].config, spec.role.config)
      /\ value.cli = extend(spec.role.cli, spec.groups[g].cli)
      /\ value.pod = merge_from(spec.role.pod, spec.groups[g].pod)
  BY DEF with_validated_config, Ok
<1> HIDE DEF value
<1>5. role.kind # "Sequence" /\ group.kind # "Sequence" /\ last.kind # "Sequence"
  BY <1>2, <1>3 DEF JsonOverrides
<1>6. both = [kind |-> "Sequence", items |-> <<group, role>>]
  <2>1. AsSequence(group) = <<group>> /\ AsSequence(role) = <<role>>
    BY <1>5 DEF AsSequence
  <2> HIDE DEF group, role
  <2>2. <<group>> \o <<role>> = <<group, role>>
    BY <1>2, ShortSequences
  <2>3. QED
    BY <1>4, <2>1, <2>2 DEF merge_config_overrides, group, role
<1>7. role.kind = "JsonPatch" => \A i \in DOMAIN role.ops : role.ops[i].op # "unparsable"
  <2>1. role.kind = "JsonPatch" => role = spec.role.config
    BY DEF into_json
  <2>2. spec.role.config.kind = "JsonPatch" =>
          \A i \in DOMAIN spec.role.config.ops : spec.role.config.ops[i].op # "unparsable"
    BY DEF Deserializes
  <2>3. QED
    BY <2>1, <2>2
<1>8. \A section \in {"cli", "pod"} :
        LET tight == spec.groups[g][section]
            wide  == spec.role[section]
        IN  value[section] = [k \in DOMAIN wide \cup DOMAIN tight |->
                                IF k \in DOMAIN tight THEN tight[k] ELSE wide[k]]
  BY <1>4 DEF merge_from, extend
<1> HIDE DEF role, group, both, last
<1>9. file = ApplyOne(group, below)
  <2>1. Applied(<<group, role>>, base)[2] = ApplyOne(group, ApplyOne(role, base))
    BY <1>1, <1>2, ApplySecond
  <2>2. AsSequence(both) = <<group, role>> /\ Len(<<group, role>>) = 2
    BY <1>6 DEF AsSequence
  <2>3. QED
    BY <2>1, <2>2 DEF apply
<1>10. apply(group, base) = ApplyOne(group, base)
  <2>1. Applied(<<group>>, base)[1] = ApplyOne(group, base)
    BY <1>1, <1>2, ApplyFirst
  <2>2. AsSequence(group) = <<group>> /\ Len(<<group>>) = 1
    BY <1>5 DEF AsSequence
  <2>3. QED
    BY <2>1, <2>2 DEF apply
<1>11. apply(merge_config_overrides(both, last), base) = file
  <2>1. into_json(both) = both /\ into_json(last) = last
    BY <1>6 DEF into_json, last, DefaultOverrides
  <2>2. AsSequence(both) = <<group, role>> /\ AsSequence(last) = <<last>>
    BY <1>5, <1>6 DEF AsSequence
  <2>3. <<group, role>> \o <<last>> = <<group, role, last>>
    BY <1>2, <1>3, ShortSequences
  <2> DEFINE three == merge_config_overrides(both, last)
  <2>4. three = [kind |-> "Sequence", items |-> <<group, role, last>>]
    BY <2>1, <2>2, <2>3 DEF merge_config_overrides
  <2> HIDE DEF three
  <2>5. AsSequence(three) = <<group, role, last>> /\ Len(<<group, role, last>>) = 3
    BY <2>4 DEF AsSequence
  <2>6. Applied(<<group, role, last>>, base)[3] = ApplyOne(group, ApplyOne(role, ApplyOne(last, base)))
    <3>1. base \in Files /\ role \in JsonOverrides /\ group \in JsonOverrides /\ last \in JsonOverrides
      BY <1>1, <1>2, <1>3
    <3> HIDE DEF base
    <3>2. QED
      BY <3>1, ApplyThird
  <2>7. ApplyOne(last, base) = base
    BY <1>1, EmptyPatch DEF ApplyOne, last, DefaultOverrides
  <2>8. QED
    BY <1>9, <2>5, <2>6, <2>7 DEF apply, three
<1>12. below \in Files
  BY <1>1, <1>2, ApplyOneType
<1>13. /\ first.ok => below = first.value
       /\ ~first.ok => below = base
  BY <1>1, <1>2, <1>7, GenerationsApply
<1> HIDE DEF below, first
<1>14. apply_v1(group, below).ok => ApplyOne(group, below) = apply_v1(group, below).value
  BY <1>2, <1>12, GenerationsApply
<1>15. group = last => ApplyOne(group, below) = below
  BY <1>12, EmptyPatch DEF ApplyOne, last, DefaultOverrides
<1>16. group.kind = "UserProvided" => ApplyOne(group, below) = group.doc
  BY DEF ApplyOne
<1> HIDE DEF file
<1>17. \A i \in DOMAIN both.items : both.items[i].kind # "Sequence"
  <2>1. both.items = <<group, role>>
    BY <1>6
  <2>2. QED
    BY <1>5, <2>1
<1>18. /\ group.kind = "UserProvided" => file = group.doc
       /\ (group = last /\ first.ok) => file = first.value
       /\ (first.ok /\ apply_v1(group, first.value).ok) => file = apply_v1(group, first.value).value
       /\ ~first.ok => file = apply(group, base)
  BY <1>9, <1>10, <1>13, <1>14, <1>15, <1>16
<1>19. QED
  BY <1>8, <1>11, <1>17, <1>18 DEF FilesLayered, role, group, both, file, first, value, last

(***************************************************************************)
(* JVM arguments                                                           *)
(***************************************************************************)
ArgumentLists == Seq(Arguments)

\* The recursive definition of Retained has its meaning.
LEMMA RetainedStep ==
  ASSUME NEW args \in ArgumentLists, NEW removed
  PROVE  /\ Retained(args, removed) \in [0..Len(args) -> ArgumentLists]
         /\ Retained(args, removed)[0] = <<>>
         /\ \A n \in 1..Len(args) : Retained(args, removed)[n] =
              IF args[n] \in removed THEN Retained(args, removed)[n - 1]
              ELSE Append(Retained(args, removed)[n - 1], args[n])
<1> DEFINE N == Len(args)
           Step(n, kept) == IF args[n] \in removed THEN kept ELSE Append(kept, args[n])
           next == [n \in 1..N |-> [kept \in ArgumentLists |-> Step(n, kept)]]
           Body(g) == [n \in 0..Len(args) |-> IF n = 0 THEN <<>> ELSE Step(n, g[n - 1])]
<1>1. N \in Nat /\ << >> \in ArgumentLists
  BY DEF ArgumentLists
<1>2. next \in Steps(N, ArgumentLists)
  <2>1. ASSUME NEW n \in 1..N, NEW kept \in ArgumentLists PROVE Step(n, kept) \in ArgumentLists
    <3>1. args[n] \in Arguments
      BY DEF ArgumentLists
    <3>2. Append(kept, args[n]) \in ArgumentLists
      BY <3>1, AppendProperties DEF ArgumentLists
    <3>3. QED
      BY <3>2
  <2> HIDE DEF Step, ArgumentLists
  <2>2. QED
    BY <2>1 DEF Steps
<1> HIDE DEF Step, ArgumentLists
<1>3. PICK f : Iterates(f, N, ArgumentLists, <<>>, next)
  <2> HIDE DEF N, next
  <2>1. QED
    BY <1>1, <1>2, IterationExists
<1>4. f = Body(f)
  <2>1. ASSUME NEW n \in 0..N
        PROVE  f[n] = IF n = 0 THEN <<>> ELSE Step(n, f[n - 1])
    <3>1. CASE n = 0
      BY <1>3, <3>1 DEF Iterates
    <3>2. CASE n # 0
      <4>1. n \in 1..N /\ n - 1 \in 0..N
        BY <1>1, <3>2
      <4>2. f[n - 1] \in ArgumentLists /\ f[n] = next[n][f[n - 1]]
        BY <1>3, <4>1 DEF Iterates
      <4>3. QED
        BY <3>2, <4>1, <4>2
    <3>3. QED
      BY <3>1, <3>2
  <2>2. f = [n \in 0..N |-> f[n]]
    BY <1>3 DEF Iterates
  <2>3. QED
    BY <2>1, <2>2
<1> DEFINE done == Retained(args, removed)
<1>5. done = Body(done)
  <2>1. done = CHOOSE g : g = Body(g)
    BY DEF Retained, Step
  <2> HIDE DEF done, Body
  <2>2. QED
    BY <1>4, <2>1
<1> HIDE DEF done
<1>6. ASSUME NEW g, g = Body(g)
      PROVE  /\ g = [n \in 0..N |-> g[n]] /\ g[0] = <<>>
             /\ \A n \in 1..N : g[n] = Step(n, g[n - 1])
  <2>1. \A n \in 0..N : g[n] = IF n = 0 THEN <<>> ELSE Step(n, g[n - 1])
    BY <1>6
  <2>2. g = [n \in 0..N |-> g[n]]
    BY <1>6
  <2>3. 0 \in 0..N /\ \A n \in 1..N : n \in 0..N /\ n # 0
    BY <1>1
  <2> HIDE DEF N, Body
  <2>4. QED
    BY <2>1, <2>2, <2>3
<1>7. /\ done = [n \in 0..N |-> done[n]] /\ done[0] = <<>>
      /\ \A n \in 1..N : done[n] = Step(n, done[n - 1])
  <2> HIDE DEF Body, N
  <2>1. QED
    BY <1>5, <1>6
<1>8. Follows(done, N, ArgumentLists, <<>>, next)
  BY <1>7 DEF Follows
<1>9. done \in [0..N -> ArgumentLists]
  <2> HIDE DEF next, N
  <2>1. Iterates(done, N, ArgumentLists, <<>>, next)
    BY <1>1, <1>2, <1>8, IterationFollows
  <2>2. QED
    BY <2>1 DEF Iterates
<1>10. QED
  BY <1>7, <1>9 DEF done, Step

\* What is retained of a list is a list.
LEMMA RetainType ==
  ASSUME NEW args \in ArgumentLists, NEW removed
  PROVE  retain(args, removed) \in ArgumentLists
<1>1. Len(args) \in 0..Len(args)
  BY DEF ArgumentLists
<1>2. QED
  BY <1>1, RetainedStep DEF retain

\* What is left of the first arguments does not depend on what follows them.
LEMMA RetainedPrefix ==
  ASSUME NEW s \in ArgumentLists, NEW t \in ArgumentLists, NEW removed,
         Len(s) <= Len(t), \A i \in 1..Len(s) : s[i] = t[i]
  PROVE  \A n \in 0..Len(s) : Retained(s, removed)[n] = Retained(t, removed)[n]
<1> DEFINE T == {n \in 0..Len(s) : Retained(s, removed)[n] # Retained(t, removed)[n]}
<1>0. Len(s) \in Nat /\ Len(t) \in Nat
  BY DEF ArgumentLists
<1>1. ASSUME T # {} PROVE FALSE
  <2>1. PICK n \in T : \A m \in T : n <= m
    <3>1. T \subseteq Nat
      BY <1>0
    <3> HIDE DEF T
    <3>2. QED
      BY <1>1, <3>1, LeastNumber
  <2>2. n # 0
    BY RetainedStep
  <2>3. n - 1 \in 0..Len(s) /\ n \in 1..Len(s) /\ n \in 1..Len(t) /\ ~(n <= n - 1)
    BY <1>0, <2>2
  <2>4. Retained(s, removed)[n - 1] = Retained(t, removed)[n - 1]
    BY <2>1, <2>3
  <2>5. s[n] = t[n]
    BY <2>3
  <2>6. Retained(s, removed)[n] = IF s[n] \in removed THEN Retained(s, removed)[n - 1]
                                  ELSE Append(Retained(s, removed)[n - 1], s[n])
    BY <2>3, RetainedStep
  <2>7. Retained(t, removed)[n] = IF t[n] \in removed THEN Retained(t, removed)[n - 1]
                                  ELSE Append(Retained(t, removed)[n - 1], t[n])
    BY <2>3, RetainedStep
  <2>8. QED
    BY <2>4, <2>5, <2>6, <2>7
<1>2. QED
  BY <1>1

\* One more argument is kept at the end or removed.
LEMMA RetainAppend ==
  ASSUME NEW s \in ArgumentLists, NEW e \in Arguments, NEW removed
  PROVE  retain(Append(s, e), removed) =
           IF e \in removed THEN retain(s, removed) ELSE Append(retain(s, removed), e)
<1> DEFINE t == Append(s, e)
           N == Len(s)
<1>1. /\ t \in ArgumentLists /\ Len(t) = N + 1 /\ N \in Nat
      /\ \A i \in 1..N : s[i] = t[i]
      /\ t[N + 1] = e
  BY AppendProperties DEF ArgumentLists
<1> HIDE DEF t
<1>2. Retained(s, removed)[N] = Retained(t, removed)[N]
  <2>1. Len(s) <= Len(t) /\ N \in 0..Len(s)
    BY <1>1
  <2>2. QED
    BY <1>1, <2>1, RetainedPrefix
<1>3. Retained(t, removed)[N + 1] = IF t[N + 1] \in removed THEN Retained(t, removed)[(N + 1) - 1]
                                    ELSE Append(Retained(t, removed)[(N + 1) - 1], t[N + 1])
  <2>1. N + 1 \in 1..Len(t)
    BY <1>1
  <2>2. QED
    BY <1>1, <2>1, RetainedStep
<1>4. (N + 1) - 1 = N
  BY <1>1
<1>5. QED
  BY <1>1, <1>2, <1>3, <1>4 DEF retain, t

\* The arguments that are retained of two lists, one after the other.
LEMMA RetainConcat ==
  ASSUME NEW s \in ArgumentLists, NEW t \in ArgumentLists, NEW removed
  PROVE  retain(s \o t, removed) = retain(s, removed) \o retain(t, removed)
<1> DEFINE st == s \o t
           N == Len(s)
           front == retain(s, removed)
           P(k) == Retained(st, removed)[N + k] = front \o Retained(t, removed)[k]
           T == {k \in 0..Len(t) : ~P(k)}
<1>1. /\ st \in ArgumentLists /\ Len(st) = N + Len(t) /\ N \in Nat /\ Len(t) \in Nat
      /\ \A i \in 1..(N + Len(t)) : st[i] = IF i <= N THEN s[i] ELSE t[i - N]
  BY ConcatProperties DEF ArgumentLists
<1>2. front \in ArgumentLists
  BY RetainType
<1> HIDE DEF st, front
<1>3. P(0)
  <2>1. \A i \in 1..Len(s) : s[i] = st[i]
    BY <1>1
  <2>2. Len(s) <= Len(st) /\ N \in 0..Len(s)
    BY <1>1
  <2>3. Retained(s, removed)[N] = Retained(st, removed)[N]
    BY <1>1, <2>1, <2>2, RetainedPrefix
  <2>4. Retained(t, removed)[0] = <<>> /\ N + 0 = N
    BY <1>1, RetainedStep
  <2>5. front \o <<>> = front
    BY <1>2, ConcatEmptySeq DEF ArgumentLists
  <2>6. QED
    BY <2>3, <2>4, <2>5 DEF retain, front
<1>4. ASSUME T # {} PROVE FALSE
  <2>1. PICK k \in T : \A m \in T : k <= m
    <3>1. T \subseteq Nat
      BY <1>1
    <3> HIDE DEF T
    <3>2. QED
      BY <1>4, <3>1, LeastNumber
  <2>2. k # 0
    BY <1>3
  <2>3. /\ k - 1 \in 0..Len(t) /\ k \in 1..Len(t) /\ ~(k <= k - 1) /\ N + k \in 1..Len(st)
        /\ (N + k) - 1 = N + (k - 1) /\ ~(N + k <= N) /\ (N + k) - N = k
    BY <1>1, <2>2
  <2>4. P(k - 1)
    BY <2>1, <2>3
  <2>5. st[N + k] = t[k] /\ t[k] \in Arguments
    BY <1>1, <2>3 DEF ArgumentLists
  <2> DEFINE before == Retained(t, removed)[k - 1]
  <2>6. before \in ArgumentLists
    BY <2>3, RetainedStep
  <2>7. Retained(st, removed)[N + k] =
          IF st[N + k] \in removed THEN Retained(st, removed)[N + (k - 1)]
          ELSE Append(Retained(st, removed)[N + (k - 1)], st[N + k])
    BY <1>1, <2>3, RetainedStep
  <2>8. Retained(t, removed)[k] = IF t[k] \in removed THEN before ELSE Append(before, t[k])
    BY <2>3, RetainedStep
  <2>9. Append(front \o before, t[k]) = front \o Append(before, t[k])
    <3> HIDE DEF before
    <3>1. Append(before, t[k]) = before \o <<t[k]>>
      BY <2>5, <2>6, AppendIsConcat DEF ArgumentLists
    <3>2. front \o before \in ArgumentLists /\ <<t[k]>> \in ArgumentLists
      BY <1>2, <2>5, <2>6, ConcatProperties DEF ArgumentLists
    <3>3. Append(front \o before, t[k]) = (front \o before) \o <<t[k]>>
      BY <2>5, <3>2, AppendIsConcat DEF ArgumentLists
    <3>4. (front \o before) \o <<t[k]>> = front \o (before \o <<t[k]>>)
      <4> DEFINE end == <<t[k]>>
      <4>1. front \in Seq(Arguments) /\ before \in Seq(Arguments) /\ end \in Seq(Arguments)
        BY <1>2, <2>6, <3>2 DEF ArgumentLists
      <4> HIDE DEF end
      <4>2. (front \o before) \o end = front \o (before \o end)
        BY <4>1, ConcatAssociative
      <4>3. QED
        BY <4>2 DEF end
    <3>5. QED
      BY <3>1, <3>3, <3>4
  <2>10. P(k)
    BY <2>4, <2>5, <2>7, <2>8, <2>9
  <2>11. QED
    BY <2>10
<1>5. P(Len(t))
  BY <1>1, <1>4
<1>6. QED
  BY <1>1, <1>5 DEF retain, st, front

\* Removing twice removes what either removes.
LEMMA RetainTwice ==
  ASSUME NEW s \in ArgumentLists, NEW R, NEW G
  PROVE  retain(retain(s, R), G) = retain(s, R \cup G)
<1> DEFINE N == Len(s)
           P(n) == Retained(s, R \cup G)[n] = retain(Retained(s, R)[n], G)
           T == {n \in 0..N : ~P(n)}
<1>1. N \in Nat
  BY DEF ArgumentLists
<1>2. P(0)
  <2>1. << >> \in ArgumentLists /\ Len(<< >>) = 0
    BY DEF ArgumentLists
  <2>2. retain(<<>>, G) = <<>>
    BY <2>1, RetainedStep DEF retain
  <2>3. QED
    BY <2>2, RetainedStep
<1>3. ASSUME T # {} PROVE FALSE
  <2>1. PICK n \in T : \A m \in T : n <= m
    <3>1. T \subseteq Nat
      BY <1>1
    <3> HIDE DEF T
    <3>2. QED
      BY <1>3, <3>1, LeastNumber
  <2>2. n # 0
    BY <1>2
  <2>3. n - 1 \in 0..N /\ n \in 1..N /\ ~(n <= n - 1)
    BY <1>1, <2>2
  <2>4. P(n - 1)
    BY <2>1, <2>3
  <2> DEFINE before == Retained(s, R)[n - 1]
  <2>5. before \in ArgumentLists /\ s[n] \in Arguments
    <3>1. Retained(s, R) \in [0..N -> ArgumentLists]
      BY RetainedStep
    <3>2. before \in ArgumentLists
      BY <2>3, <3>1
    <3>3. s[n] \in Arguments
      BY <2>3 DEF ArgumentLists
    <3>4. QED
      BY <3>2, <3>3
  <2>6. Retained(s, R)[n] = IF s[n] \in R THEN before ELSE Append(before, s[n])
    BY <2>3, RetainedStep
  <2>7. Retained(s, R \cup G)[n] = IF s[n] \in R \cup G THEN Retained(s, R \cup G)[n - 1]
                                   ELSE Append(Retained(s, R \cup G)[n - 1], s[n])
    BY <2>3, RetainedStep
  <2> HIDE DEF before
  <2>8. retain(Append(before, s[n]), G) =
          IF s[n] \in G THEN retain(before, G) ELSE Append(retain(before, G), s[n])
    BY <2>5, RetainAppend
  <2>9. Retained(s, R \cup G)[n - 1] = retain(before, G)
    BY <2>4 DEF before
  <2>10. P(n)
    <3>1. CASE s[n] \in R
      BY <2>6, <2>7, <2>9, <3>1
    <3>2. CASE s[n] \notin R
      BY <2>6, <2>7, <2>8, <2>9, <3>2
    <3>3. QED
      BY <3>1, <3>2
  <2>11. QED
    BY <2>10
<1>4. P(N)
  <2>1. N \in 0..N
    BY <1>1
  <2> HIDE DEF N
  <2>2. QED
    BY <1>3, <2>1
<1>5. QED
  BY <1>4 DEF retain

\* The merge of the first generation: it fails for a bad pattern, and else its result has
\* additions only.
LEMMA TryMerge ==
  ASSUME NEW self \in JvmOverrides, NEW defaults
  PROVE  LET result == try_merge(self, defaults)
         IN  /\ result.ok <=> self.remove_regex \cap InvalidPatterns = {}
             /\ result.ok => /\ result.value.add = retain(defaults.add, RemovedBy(self)) \o self.add
                             /\ result.value.remove = {} /\ result.value.remove_regex = {}
<1>1. CASE self.remove_regex \cap InvalidPatterns # {}
  BY <1>1 DEF try_merge, Err
<1>2. CASE self.remove_regex \cap InvalidPatterns = {}
  <2> DEFINE kept == retain(defaults.add, RemovedBy(self))
             value == [self EXCEPT !.add = kept \o @, !.remove = {}, !.remove_regex = {}]
  <2>1. try_merge(self, defaults) = Ok(value)
    BY <1>2 DEF try_merge
  <2> HIDE DEF kept
  <2>2. value.add = kept \o self.add /\ value.remove = {} /\ value.remove_regex = {}
    BY DEF JvmOverrides
  <2> HIDE DEF value
  <2>3. Ok(value).ok /\ Ok(value).value = value
    BY DEF Ok
  <2>4. QED
    BY <1>2, <2>1, <2>2, <2>3 DEF kept
<1>3. QED
  BY <1>1, <1>2

\* The arguments of the role applied to those of the operator, then those of the role group.
LEMMA LayersRetain ==
  ASSUME NEW role \in JvmOverrides, NEW group \in JvmOverrides
  PROVE  retain(retain(OperatorArgs, RemovedBy(role)) \o role.add, RemovedBy(group)) \o group.add
           = retain(OperatorArgs, RemovedBy(role) \cup RemovedBy(group))
               \o retain(role.add, RemovedBy(group)) \o group.add
<1> DEFINE R == RemovedBy(role)
           G == RemovedBy(group)
<1>1. OperatorArgs \in ArgumentLists /\ role.add \in ArgumentLists
  BY RoleConfigAssumption DEF ArgumentLists, JvmOverrides
<1> HIDE DEF R, G
<1>2. retain(OperatorArgs, R) \in ArgumentLists
  BY <1>1, RetainType
<1>3. retain(retain(OperatorArgs, R) \o role.add, G)
        = retain(retain(OperatorArgs, R), G) \o retain(role.add, G)
  BY <1>1, <1>2, RetainConcat
<1>4. retain(retain(OperatorArgs, R), G) = retain(OperatorArgs, R \cup G)
  BY <1>1, RetainTwice
<1>5. QED
  BY <1>3, <1>4 DEF R, G

\* Overrides without preceding ones, after none and after one.
LEMMA OwnApplied ==
  ASSUME NEW a, NEW args
  PROVE  AppliedOwn(<<>>, args)[0] = args /\ AppliedOwn(<<a>>, args)[1] = ApplyOwn(a, args)
<1>1. AppliedOwn(<<>>, args)[0] = args
  <2> DEFINE Body(g) == [i \in 0..Len(<<>>) |->
                           IF i = 0 THEN args ELSE ApplyOwn(<<>>[Len(<<>>) - i + 1], g[i - 1])]
             f == [i \in {0} |-> args]
  <2>1. Len(<<>>) = 0 /\ 0..0 = {0}
    OBVIOUS
  <2>2. \A g : Body(g) = [i \in {0} |-> args]
    BY <2>1
  <2>3. f = Body(f)
    BY <2>2
  <2>4. AppliedOwn(<<>>, args) = CHOOSE g : g = Body(g)
    BY DEF AppliedOwn
  <2> HIDE DEF Body, f
  <2>5. AppliedOwn(<<>>, args) = [i \in {0} |-> args]
    BY <2>2, <2>3, <2>4
  <2>6. QED
    BY <2>5
<1>2. AppliedOwn(<<a>>, args)[1] = ApplyOwn(a, args)
  <2> DEFINE before == <<a>>
             Body(g) == [i \in 0..Len(before) |->
                           IF i = 0 THEN args ELSE ApplyOwn(before[Len(before) - i + 1], g[i - 1])]
             f == [i \in 0..1 |-> IF i = 0 THEN args ELSE ApplyOwn(a, args)]
  <2>1. Len(before) = 1 /\ before[1] = a /\ 1 - 1 + 1 = 1 /\ 1 - 1 = 0
    OBVIOUS
  <2>2. AppliedOwn(before, args) = CHOOSE g : g = Body(g)
    BY DEF AppliedOwn
  <2> HIDE DEF before
  <2>3. ASSUME NEW g
        PROVE  Body(g) = [i \in 0..1 |-> IF i = 0 THEN args ELSE ApplyOwn(a, g[0])]
    <3>1. \A i \in 0..1 : i # 0 => before[Len(before) - i + 1] = a /\ i - 1 = 0
      BY <2>1
    <3>2. QED
      BY <2>1, <3>1
  <2>4. f = Body(f)
    <3>1. f[0] = args
      OBVIOUS
    <3> HIDE DEF f, Body
    <3>2. Body(f) = [i \in 0..1 |-> IF i = 0 THEN args ELSE ApplyOwn(a, f[0])]
      BY <2>3
    <3>3. QED
      BY <3>1, <3>2 DEF f
  <2> HIDE DEF Body, f
  <2> DEFINE done == AppliedOwn(before, args)
  <2>5. done = Body(done)
    BY <2>2, <2>4
  <2> HIDE DEF done
  <2>6. done = [i \in 0..1 |-> IF i = 0 THEN args ELSE ApplyOwn(a, done[0])]
    BY <2>3, <2>5
  <2>7. done[0] = args /\ done[1] = ApplyOwn(a, done[0])
    <3>1. ASSUME NEW x PROVE LET g == [i \in 0..1 |-> IF i = 0 THEN args ELSE ApplyOwn(a, x)]
                             IN  g[0] = args /\ g[1] = ApplyOwn(a, x)
      OBVIOUS
    <3>2. QED
      BY <2>6, <3>1
  <2>8. QED
    BY <2>7 DEF done, before
<1>3. QED
  BY <1>1, <1>2

\* Overrides with preceding ones, after one
LEMMA FlatApplied ==
  ASSUME NEW a, NEW args
  PROVE  AppliedFlat(<<a>>, args)[1] = ApplyFlat(a, args)
<1> DEFINE before == <<a>>
           Body(g) == [i \in 0..Len(before) |->
                         IF i = 0 THEN args ELSE ApplyFlat(before[Len(before) - i + 1], g[i - 1])]
           f == [i \in 0..1 |-> IF i = 0 THEN args ELSE ApplyFlat(a, args)]
<1>1. Len(before) = 1 /\ before[1] = a
  OBVIOUS
<1>2. AppliedFlat(before, args) = CHOOSE g : g = Body(g)
  BY DEF AppliedFlat
<1> HIDE DEF before
<1>3. ASSUME NEW g
      PROVE  Body(g) = [i \in 0..1 |-> IF i = 0 THEN args ELSE ApplyFlat(a, g[0])]
  <2>1. \A i \in 0..1 : i # 0 => before[Len(before) - i + 1] = a /\ i - 1 = 0
    BY <1>1
  <2>2. QED
    BY <1>1, <2>1
<1>4. f = Body(f)
  <2>1. f[0] = args
    OBVIOUS
  <2> HIDE DEF f, Body
  <2>2. Body(f) = [i \in 0..1 |-> IF i = 0 THEN args ELSE ApplyFlat(a, f[0])]
    BY <1>3
  <2>3. QED
    BY <2>1, <2>2 DEF f
<1> HIDE DEF Body, f
<1> DEFINE done == AppliedFlat(before, args)
<1>5. done = Body(done)
  BY <1>2, <1>4
<1> HIDE DEF done
<1>6. done = [i \in 0..1 |-> IF i = 0 THEN args ELSE ApplyFlat(a, done[0])]
  BY <1>3, <1>5
<1>7. done[0] = args /\ done[1] = ApplyFlat(a, done[0])
  <2>1. ASSUME NEW x PROVE LET g == [i \in 0..1 |-> IF i = 0 THEN args ELSE ApplyFlat(a, x)]
                           IN  g[0] = args /\ g[1] = ApplyFlat(a, x)
    OBVIOUS
  <2>2. QED
    BY <1>6, <2>1
<1>8. QED
  BY <1>7 DEF done, before

\* and after two.
LEMMA FlatAppliedTwice ==
  ASSUME NEW a, NEW b, NEW args
  PROVE  AppliedFlat(<<a, b>>, args)[2] = ApplyFlat(a, ApplyFlat(b, args))
<1> DEFINE before == <<a, b>>
           Body(g) == [i \in 0..Len(before) |->
                         IF i = 0 THEN args ELSE ApplyFlat(before[Len(before) - i + 1], g[i - 1])]
           Steps3(x, y) == [i \in 0..2 |-> IF i = 0 THEN args ELSE IF i = 1 THEN x ELSE y]
           f == Steps3(ApplyFlat(b, args), ApplyFlat(a, ApplyFlat(b, args)))
<1>1. Len(before) = 2 /\ before[1] = a /\ before[2] = b
  OBVIOUS
<1>2. AppliedFlat(before, args) = CHOOSE g : g = Body(g)
  BY DEF AppliedFlat
<1> HIDE DEF before
<1>3. ASSUME NEW g PROVE Body(g) = Steps3(ApplyFlat(b, g[0]), ApplyFlat(a, g[1]))
  <2>1. \A i \in 0..2 : /\ i = 1 => before[Len(before) - i + 1] = b /\ i - 1 = 0
                        /\ i = 2 => before[Len(before) - i + 1] = a /\ i - 1 = 1
                        /\ i \in {0, 1, 2}
    BY <1>1
  <2>2. QED
    BY <1>1, <2>1
<1>4. ASSUME NEW x, NEW y PROVE Steps3(x, y)[0] = args /\ Steps3(x, y)[1] = x /\ Steps3(x, y)[2] = y
  OBVIOUS
<1> HIDE DEF Body, Steps3
<1>5. f = Body(f)
  BY <1>3, <1>4
<1> HIDE DEF f
<1> DEFINE done == AppliedFlat(before, args)
<1>6. done = Body(done)
  BY <1>2, <1>5
<1> HIDE DEF done
<1>7. done = Steps3(ApplyFlat(b, done[0]), ApplyFlat(a, done[1]))
  BY <1>3, <1>6
<1>8. done[0] = args /\ done[1] = ApplyFlat(b, done[0]) /\ done[2] = ApplyFlat(a, done[1])
  BY <1>4, <1>7
<1>9. QED
  BY <1>8 DEF done, before

\* Overrides with these preceding ones.
After(self, before) ==
  self = [add |-> self.add, remove |-> self.remove, remove_regex |-> self.remove_regex,
          preceding_overrides |-> before]

\* Merging keeps what the receiver adds and removes, and adds to what precedes it.
LEMMA MergeJvmKeeps ==
  ASSUME NEW self, NEW before, After(self, before), NEW defaults
  PROVE  /\ After(merge_jvm(self, defaults), Append(before, defaults))
         /\ \A args : ApplyOwn(merge_jvm(self, defaults), args) = ApplyOwn(self, args)
<1> DEFINE both == merge_jvm(self, defaults)
<1>1. self.preceding_overrides = before
  BY DEF After
<1>2. both = [self EXCEPT !.preceding_overrides = Append(before, defaults)]
  BY <1>1 DEF merge_jvm
<1> DEFINE before2 == Append(before, defaults)
<1> HIDE DEF before2
<1>3. both = [self EXCEPT !.preceding_overrides = before2]
  BY <1>2 DEF before2
<1> HIDE DEF both
<1>4. /\ both.add = self.add /\ both.remove = self.remove /\ both.remove_regex = self.remove_regex
      /\ both.preceding_overrides = before2
  BY <1>3 DEF After
<1>5. both = [add |-> self.add, remove |-> self.remove, remove_regex |-> self.remove_regex,
              preceding_overrides |-> before2]
  BY <1>3 DEF After
<1>6. After(both, before2)
  BY <1>4, <1>5 DEF After
<1>7. \A args : ApplyOwn(both, args) = ApplyOwn(self, args)
  BY <1>4 DEF ApplyOwn, RemovedBy
<1>8. QED
  BY <1>6, <1>7 DEF both, before2

\* One layer merged into another, and applied.
LEMMA ApplyMerged ==
  ASSUME NEW self \in JvmOverrides, NEW defaults
  PROVE  /\ After(merge_jvm(self, defaults), <<defaults>>)
         /\ merge_jvm(self, defaults).preceding_overrides = <<defaults>>
         /\ \A args : ApplyOwn(merge_jvm(self, defaults), args) = ApplyOwn(self, args)
         /\ \A args : apply_to(merge_jvm(self, defaults), args)
                        = ApplyOwn(self, ApplyFlat(defaults, args))
<1> DEFINE both == merge_jvm(self, defaults)
<1>1. After(self, <<>>)
  BY DEF JvmOverrides, After
<1>2. Append(<<>>, defaults) = <<defaults>>
  OBVIOUS
<1>3. After(both, <<defaults>>) /\ \A x : ApplyOwn(both, x) = ApplyOwn(self, x)
  BY <1>1, <1>2, MergeJvmKeeps
<1> HIDE DEF both
<1>4. both.preceding_overrides = <<defaults>> /\ Len(<<defaults>>) = 1
  BY <1>3 DEF After
<1>5. ASSUME NEW args PROVE apply_to(both, args) = ApplyOwn(self, ApplyFlat(defaults, args))
  <2>1. apply_to(both, args) = ApplyOwn(both, AppliedFlat(<<defaults>>, args)[1])
    BY <1>4 DEF apply_to
  <2>2. AppliedFlat(<<defaults>>, args)[1] = ApplyFlat(defaults, args)
    BY FlatApplied
  <2>3. QED
    BY <1>3, <2>1, <2>2
<1>6. QED
  BY <1>3, <1>4, <1>5 DEF both

\* Overrides as a user writes them have no preceding ones.
LEMMA FlatIsOwn ==
  ASSUME NEW self \in JvmOverrides, NEW args
  PROVE  ApplyFlat(self, args) = ApplyOwn(self, args)
<1>1. self.preceding_overrides = <<>> /\ Len(<<>>) = 0
  BY DEF JvmOverrides
<1>2. AppliedOwn(<<>>, args)[0] = args
  BY OwnApplied
<1>3. QED
  BY <1>1, <1>2 DEF ApplyFlat

\* Three layers, merged from either end.
LEMMA ThreeLayersCompose ==
  ASSUME NEW tight \in JvmOverrides, NEW mid \in JvmOverrides, NEW wide \in JvmOverrides, NEW args
  PROVE  apply_to(merge_jvm(merge_jvm(tight, mid), wide), args)
           = apply_to(merge_jvm(tight, merge_jvm(mid, wide)), args)
<1> DEFINE tm == merge_jvm(tight, mid)
           left == merge_jvm(tm, wide)
           mw == merge_jvm(mid, wide)
<1>1. After(tm, <<mid>>)
  BY ApplyMerged
<1>2. \A x : ApplyOwn(tm, x) = ApplyOwn(tight, x)
  BY ApplyMerged
<1> HIDE DEF tm
<1>3. left.preceding_overrides = <<mid, wide>> /\ Len(<<mid, wide>>) = 2
  <2>1. left.preceding_overrides = Append(<<mid>>, wide)
    <3>1. After(left, Append(<<mid>>, wide))
      BY <1>1, MergeJvmKeeps
    <3> HIDE DEF left
    <3>2. QED
      BY <3>1 DEF After
  <2>2. Append(<<mid>>, wide) = <<mid>> \o <<wide>>
    <3>1. <<mid>> \in Seq({mid, wide}) /\ wide \in {mid, wide}
      OBVIOUS
    <3>2. QED
      BY <3>1, AppendIsConcat
  <2>3. <<mid>> \o <<wide>> = <<mid, wide>>
    <3>1. mid \in {mid, wide} /\ wide \in {mid, wide}
      OBVIOUS
    <3>2. QED
      BY <3>1, ShortSequences
  <2>4. QED
    BY <2>1, <2>2, <2>3
<1>4. \A x : ApplyOwn(left, x) = ApplyOwn(tm, x)
  BY <1>1, MergeJvmKeeps
<1> HIDE DEF left
<1>5. apply_to(left, args) = ApplyOwn(tight, ApplyOwn(mid, ApplyOwn(wide, args)))
  <2>1. apply_to(left, args) = ApplyOwn(left, AppliedFlat(<<mid, wide>>, args)[2])
    BY <1>3 DEF apply_to
  <2>2. AppliedFlat(<<mid, wide>>, args)[2] = ApplyFlat(mid, ApplyFlat(wide, args))
    BY FlatAppliedTwice
  <2>3. ApplyFlat(mid, ApplyFlat(wide, args)) = ApplyOwn(mid, ApplyOwn(wide, args))
    BY FlatIsOwn
  <2>4. QED
    BY <1>2, <1>4, <2>1, <2>2, <2>3
<1>6. ApplyFlat(mw, args) = ApplyOwn(mid, ApplyOwn(wide, args))
  <2>1. mw.preceding_overrides = <<wide>> /\ Len(<<wide>>) = 1
    BY ApplyMerged
  <2>2. \A x : ApplyOwn(mw, x) = ApplyOwn(mid, x)
    BY ApplyMerged
  <2> HIDE DEF mw
  <2>3. ApplyFlat(mw, args) = ApplyOwn(mw, AppliedOwn(<<wide>>, args)[1])
    BY <2>1 DEF ApplyFlat
  <2>4. AppliedOwn(<<wide>>, args)[1] = ApplyOwn(wide, args)
    BY OwnApplied
  <2>5. QED
    BY <2>2, <2>3, <2>4
<1> HIDE DEF mw
<1>7. apply_to(merge_jvm(tight, mw), args) = ApplyOwn(tight, ApplyFlat(mw, args))
  BY ApplyMerged
<1>8. QED
  BY <1>5, <1>6, <1>7 DEF left, tm, mw

\* The result of the first generation for one role group.
LEMMA FirstGenerationJvm ==
  ASSUME spec \in Specs, NEW g \in DOMAIN spec.groups
  PROVE  LET got == get_merged_jvm_argument_overrides(g)
         IN  /\ got.ok => /\ got.value.remove = {} /\ got.value.remove_regex = {}
                          /\ got.value.add = ExpectedArgs(g)
             /\ got.ok <=> (spec.role.jvm.remove_regex \cup spec.groups[g].jvm.remove_regex)
                             \cap InvalidPatterns = {}
<1> DEFINE role == spec.role.jvm
           group == spec.groups[g].jvm
           operator == new_with_only_additions(OperatorArgs)
           from_role == try_merge(role, operator)
           got == get_merged_jvm_argument_overrides(g)
<1>1. role \in JvmOverrides /\ group \in JvmOverrides
  BY SpecTypes
<1>2. operator.add = OperatorArgs
  BY DEF new_with_only_additions
<1>3. got = IF ~from_role.ok THEN from_role ELSE try_merge(group, from_role.value)
  BY DEF get_merged_jvm_argument_overrides
<1>4. ExpectedArgs(g) = retain(OperatorArgs, RemovedBy(role) \cup RemovedBy(group))
                          \o retain(role.add, RemovedBy(group)) \o group.add
  BY DEF ExpectedArgs
<1>5. (role.remove_regex \cup group.remove_regex) \cap InvalidPatterns = {}
        <=> role.remove_regex \cap InvalidPatterns = {} /\ group.remove_regex \cap InvalidPatterns = {}
  OBVIOUS
<1>6. /\ got.ok => /\ got.value.remove = {} /\ got.value.remove_regex = {}
                   /\ got.value.add = ExpectedArgs(g)
      /\ got.ok <=> (role.remove_regex \cup group.remove_regex) \cap InvalidPatterns = {}
  <2> HIDE DEF role, group, operator, got
  <2>1. /\ from_role.ok <=> role.remove_regex \cap InvalidPatterns = {}
        /\ from_role.ok => from_role.value.add = retain(OperatorArgs, RemovedBy(role)) \o role.add
    BY <1>1, <1>2, TryMerge
  <2> DEFINE wide == from_role.value
             all == try_merge(group, wide)
  <2> HIDE DEF from_role, wide
  <2>2. /\ all.ok <=> group.remove_regex \cap InvalidPatterns = {}
        /\ all.ok => /\ all.value.add = retain(wide.add, RemovedBy(group)) \o group.add
                     /\ all.value.remove = {} /\ all.value.remove_regex = {}
    BY <1>1, TryMerge
  <2>3. retain(retain(OperatorArgs, RemovedBy(role)) \o role.add, RemovedBy(group)) \o group.add
          = ExpectedArgs(g)
    BY <1>1, <1>4, LayersRetain
  <2>4. CASE ~from_role.ok
    BY <1>3, <1>5, <2>1, <2>4
  <2>5. CASE from_role.ok
    <3>1. got = all
      BY <1>3, <2>5 DEF wide
    <3>2. wide.add = retain(OperatorArgs, RemovedBy(role)) \o role.add
      BY <2>1, <2>5 DEF wide
    <3> HIDE DEF all
    <3>3. QED
      BY <1>5, <2>1, <2>2, <2>3, <2>5, <3>1, <3>2
  <2>6. QED
    BY <2>4, <2>5
<1>7. QED
  BY <1>6

\* The arguments the second generation gives to one role group.
LEMMA SecondGenerationJvm ==
  ASSUME spec \in Specs, NEW g \in DOMAIN spec.groups
  PROVE  apply_to(merge_jvm(spec.groups[g].jvm, spec.role.jvm), OperatorArgs) = ExpectedArgs(g)
<1> DEFINE role == spec.role.jvm
           group == spec.groups[g].jvm
<1>1. role \in JvmOverrides /\ group \in JvmOverrides
  BY SpecTypes
<1>2. ExpectedArgs(g) = retain(OperatorArgs, RemovedBy(role) \cup RemovedBy(group))
                          \o retain(role.add, RemovedBy(group)) \o group.add
  BY DEF ExpectedArgs
<1> HIDE DEF role, group
<1>3. apply_to(merge_jvm(group, role), OperatorArgs) = ApplyOwn(group, ApplyOwn(role, OperatorArgs))
  <2>1. apply_to(merge_jvm(group, role), OperatorArgs) = ApplyOwn(group, ApplyFlat(role, OperatorArgs))
    BY <1>1, ApplyMerged
  <2>2. ApplyFlat(role, OperatorArgs) = ApplyOwn(role, OperatorArgs)
    BY <1>1, FlatIsOwn
  <2>3. QED
    BY <2>1, <2>2
<1>4. ApplyOwn(group, ApplyOwn(role, OperatorArgs))
        = retain(retain(OperatorArgs, RemovedBy(role)) \o role.add, RemovedBy(group)) \o group.add
  BY DEF ApplyOwn
<1>5. QED
  BY <1>1, <1>2, <1>3, <1>4, LayersRetain DEF role, group

(***************************************************************************)
(* Replicas                                                                *)
(***************************************************************************)
\* A finite set has an order.
LEMMA OrderOfSet ==
  ASSUME NEW S, IsFiniteSet(S)
  PROVE  Cardinality(S) \in Nat /\ SetToSeq(S) \in [1..Cardinality(S) -> S]
<1>1. Cardinality(S) \in Nat /\ ExistsBijection(1..Cardinality(S), S)
  BY FS_CardinalityType
<1>2. \E f \in [1..Cardinality(S) -> S] : IsInjective(f)
  BY <1>1 DEF ExistsBijection, Bijection, Injection
<1>3. QED
  BY <1>1, <1>2 DEF SetToSeq

\* The recursive definition of the sum has its meaning.
LEMMA SummedStep ==
  ASSUME NEW D, IsFiniteSet(D), NEW replicas \in [D -> Nat]
  PROVE  /\ Summed(replicas) \in [0..Cardinality(D) -> Nat]
         /\ Summed(replicas)[0] = 0
         /\ \A n \in 1..Cardinality(D) :
              Summed(replicas)[n] = Summed(replicas)[n - 1] + replicas[SetToSeq(D)[n]]
<1> DEFINE N == Cardinality(D)
           order == SetToSeq(D)
           next == [n \in 1..N |-> [x \in Nat |-> x + replicas[order[n]]]]
           Body(g) == [n \in 0..N |-> IF n = 0 THEN 0 ELSE g[n - 1] + replicas[order[n]]]
<1>1. N \in Nat /\ order \in [1..N -> D] /\ DOMAIN replicas = D
  BY OrderOfSet
<1> DEFINE done == Summed(replicas)
<1>2. done = CHOOSE g : g = Body(g)
  BY <1>1 DEF Summed
<1> HIDE DEF N, order, done
<1>3. \A n \in 1..N : replicas[order[n]] \in Nat
  BY <1>1
<1>4. next \in Steps(N, Nat)
  BY <1>3 DEF Steps
<1>5. PICK f : Iterates(f, N, Nat, 0, next)
  <2> HIDE DEF next
  <2>1. 0 \in Nat
    OBVIOUS
  <2>2. QED
    BY <1>1, <1>4, <2>1, IterationExists
<1>6. f = Body(f)
  <2>1. ASSUME NEW n \in 0..N
        PROVE  f[n] = IF n = 0 THEN 0 ELSE f[n - 1] + replicas[order[n]]
    <3>1. CASE n = 0
      BY <1>5, <3>1 DEF Iterates
    <3>2. CASE n # 0
      <4>1. n \in 1..N /\ n - 1 \in 0..N
        BY <1>1, <3>2
      <4>2. f[n - 1] \in Nat /\ f[n] = next[n][f[n - 1]]
        BY <1>5, <4>1 DEF Iterates
      <4>3. QED
        BY <3>2, <4>1, <4>2
    <3>3. QED
      BY <3>1, <3>2
  <2>2. f = [n \in 0..N |-> f[n]]
    BY <1>5 DEF Iterates
  <2>3. QED
    BY <2>1, <2>2
<1>7. done = Body(done)
  <2> HIDE DEF Body
  <2>1. QED
    BY <1>2, <1>6
<1>8. /\ done = [n \in 0..N |-> done[n]] /\ done[0] = 0
      /\ \A n \in 1..N : done[n] = done[n - 1] + replicas[order[n]]
  <2>1. ASSUME NEW g, g = Body(g)
        PROVE  /\ g = [n \in 0..N |-> g[n]] /\ g[0] = 0
               /\ \A n \in 1..N : g[n] = g[n - 1] + replicas[order[n]]
    <3>1. \A n \in 0..N : g[n] = IF n = 0 THEN 0 ELSE g[n - 1] + replicas[order[n]]
      BY <2>1
    <3>2. g = [n \in 0..N |-> g[n]]
      BY <2>1
    <3>3. 0 \in 0..N /\ \A n \in 1..N : n \in 0..N /\ n # 0
      BY <1>1
    <3> HIDE DEF Body
    <3>4. QED
      BY <3>1, <3>2, <3>3
  <2> HIDE DEF Body
  <2>2. QED
    BY <1>7, <2>1
<1>9. Follows(done, N, Nat, 0, next)
  BY <1>8 DEF Follows
<1>10. done \in [0..N -> Nat]
  <2> HIDE DEF next
  <2>1. 0 \in Nat
    OBVIOUS
  <2>2. Iterates(done, N, Nat, 0, next)
    BY <1>1, <1>4, <1>9, <2>1, IterationFollows
  <2>3. QED
    BY <2>2 DEF Iterates
<1>11. QED
  BY <1>8, <1>10 DEF done, N, order

\* A sum of numbers is a number, and if none of them is 0 at least as large as there are many.
LEMMA SumBound ==
  ASSUME NEW D, IsFiniteSet(D), NEW replicas \in [D -> Nat]
  PROVE  /\ Cardinality(D) \in Nat /\ sum(replicas) \in Nat
         /\ (\A d \in D : replicas[d] # 0) => sum(replicas) >= Cardinality(D)
<1> DEFINE N == Cardinality(D)
           done == Summed(replicas)
           T == {n \in 0..N : ~(done[n] >= n)}
<1>1. N \in Nat /\ SetToSeq(D) \in [1..N -> D] /\ N \in 0..N
  BY OrderOfSet
<1>2. /\ done \in [0..N -> Nat] /\ done[0] = 0
      /\ \A n \in 1..N : done[n] = done[n - 1] + replicas[SetToSeq(D)[n]]
  BY SummedStep
<1>3. sum(replicas) = done[N]
  BY DEF sum
<1> HIDE DEF done, N
<1>4. ASSUME \A d \in D : replicas[d] # 0, T # {} PROVE FALSE
  <2>1. PICK n \in T : \A m \in T : n <= m
    <3>1. T \subseteq Nat
      BY <1>1
    <3> HIDE DEF T
    <3>2. QED
      BY <1>4, <3>1, LeastNumber
  <2>2. n # 0
    BY <1>2
  <2>3. n - 1 \in 0..N /\ n \in 1..N /\ ~(n <= n - 1) /\ n \in Nat
    BY <1>1, <2>2
  <2>4. done[n - 1] >= n - 1
    BY <2>1, <2>3
  <2>5. replicas[SetToSeq(D)[n]] \in Nat /\ replicas[SetToSeq(D)[n]] # 0
    BY <1>1, <1>4, <2>3
  <2>6. done[n] = done[n - 1] + replicas[SetToSeq(D)[n]] /\ done[n - 1] \in Nat
    BY <1>2, <2>3
  <2>7. done[n] >= n
    BY <2>3, <2>4, <2>5, <2>6
  <2>8. QED
    BY <2>7
<1>5. (\A d \in D : replicas[d] # 0) => done[N] >= N
  BY <1>1, <1>4
<1>6. QED
  BY <1>1, <1>2, <1>3, <1>5 DEF N

\* The two counts of the replicas, for role groups that set them or not.
LEMMA CountsAgree ==
  ASSUME NEW D, IsFiniteSet(D), NEW replicas \in [D -> Nat \cup {None}]
  PROVE  LET zero  == fixed_replica_count(replicas, "TreatAsZero")
             unset == fixed_replica_count(replicas, "TreatAsNone")
         IN  /\ zero # None => zero = estimated_replica_count(replicas)
             /\ unset # None => unset = zero /\ unset >= Cardinality(D) /\ unset > 0
             /\ (zero # None /\ unset = None) => D = {} \/ \E g \in D : replicas[g] = 0
             /\ zero = None => \E g \in D : replicas[g] = None
<1> DEFINE zero == fixed_replica_count(replicas, "TreatAsZero")
           unset == fixed_replica_count(replicas, "TreatAsNone")
<1>0. None \notin Nat /\ DOMAIN replicas = D
  BY RoleConfigAssumption
<1>1. zero = IF \E g \in D : replicas[g] = None THEN None ELSE sum(replicas)
  BY <1>0 DEF fixed_replica_count
<1>2. unset = IF D = {} THEN None
              ELSE IF \E g \in D : replicas[g] = 0 \/ replicas[g] = None THEN None ELSE sum(replicas)
  BY <1>0 DEF fixed_replica_count
<1>3. estimated_replica_count(replicas) = sum([g \in D |-> merge_option(replicas[g], 1)])
  BY <1>0 DEF estimated_replica_count
<1> HIDE DEF zero, unset
<1>4. CASE \E g \in D : replicas[g] = None
  <2>1. zero = None /\ unset = None
    BY <1>1, <1>2, <1>4
  <2>2. QED
    BY <1>4, <2>1 DEF zero, unset
<1>5. CASE ~\E g \in D : replicas[g] = None
  <2>1. replicas \in [D -> Nat]
    BY <1>5
  <2>2. replicas = [g \in D |-> merge_option(replicas[g], 1)]
    BY <1>5 DEF merge_option
  <2>3. /\ Cardinality(D) \in Nat /\ sum(replicas) \in Nat
        /\ (\A d \in D : replicas[d] # 0) => sum(replicas) >= Cardinality(D)
    BY <2>1, SumBound
  <2>4. D # {} => Cardinality(D) # 0
    BY FS_EmptySet
  <2>5. zero = sum(replicas) /\ zero # None /\ zero = estimated_replica_count(replicas)
    BY <1>0, <1>1, <1>3, <1>5, <2>2, <2>3
  <2>6. unset = IF D = {} \/ (\E g \in D : replicas[g] = 0) THEN None ELSE sum(replicas)
    BY <1>2, <1>5
  <2>7. unset # None => unset = zero /\ unset >= Cardinality(D) /\ unset > 0
    <3> SUFFICES ASSUME unset # None PROVE unset = zero /\ unset >= Cardinality(D) /\ unset > 0
      OBVIOUS
    <3>1. D # {} /\ \A g \in D : replicas[g] # 0
      BY <2>6
    <3>2. unset = sum(replicas) /\ sum(replicas) >= Cardinality(D) /\ Cardinality(D) # 0
      BY <2>3, <2>4, <2>6, <3>1
    <3>3. sum(replicas) > 0
      BY <2>3, <3>2
    <3>4. QED
      BY <2>5, <3>2, <3>3
  <2>8. unset = None => D = {} \/ \E g \in D : replicas[g] = 0
    BY <1>0, <2>3, <2>6
  <2>9. QED
    BY <2>5, <2>7, <2>8 DEF zero, unset
<1>6. QED
  BY <1>4, <1>5 DEF zero, unset

(***************************************************************************)
(* References between environment variables                                *)
(***************************************************************************)
\* What one more level of depth makes of the closures of the references.
Deeper(env, closure) ==
  [name \in DOMAIN env |->
     IF env[name] = None THEN {}
     ELSE LET refs == referenced_env_vars(env, env[name])
          IN  IF \E r \in refs : closure[r] = None THEN None
              ELSE refs \cup UNION {closure[r] : r \in refs}]

Shallow(env) == [name \in DOMAIN env |-> IF env[name] = None THEN {} ELSE None]

ClosuresOf(env) == [DOMAIN env -> {None} \cup SUBSET DOMAIN env]

\* One level deeper, a closure is again a set of variables, or none.
LEMMA DeeperType ==
  ASSUME NEW env, IsEnvVars(env), NEW closure \in ClosuresOf(env)
  PROVE  Deeper(env, closure) \in ClosuresOf(env)
<1> SUFFICES ASSUME NEW name \in DOMAIN env
             PROVE  (IF env[name] = None THEN {}
                     ELSE LET refs == referenced_env_vars(env, env[name])
                          IN  IF \E r \in refs : closure[r] = None THEN None
                              ELSE refs \cup UNION {closure[r] : r \in refs})
                      \in {None} \cup SUBSET DOMAIN env
  BY DEF Deeper, ClosuresOf
<1> DEFINE refs == referenced_env_vars(env, env[name])
<1>1. refs \subseteq DOMAIN env
  BY DEF referenced_env_vars
<1> HIDE DEF refs
<1>2. CASE \E r \in refs : closure[r] = None
  BY <1>2 DEF refs
<1>3. CASE ~\E r \in refs : closure[r] = None
  <2>1. \A r \in refs : closure[r] \in SUBSET DOMAIN env
    BY <1>1, <1>3 DEF ClosuresOf
  <2>2. refs \cup UNION {closure[r] : r \in refs} \in SUBSET DOMAIN env
    BY <1>1, <2>1
  <2>3. QED
    BY <1>3, <2>2 DEF refs
<1>4. QED
  BY <1>2, <1>3

\* The recursive definition of the closures has its meaning.
LEMMA ClosuresStep ==
  ASSUME NEW env, IsEnvVars(env)
  PROVE  /\ Closures(env) \in [0..MaxRecursionDepth -> ClosuresOf(env)]
         /\ Closures(env)[0] = Shallow(env)
         /\ \A d \in 1..MaxRecursionDepth : Closures(env)[d] = Deeper(env, Closures(env)[d - 1])
<1> DEFINE N == MaxRecursionDepth
           V == ClosuresOf(env)
           next == [d \in 1..N |-> [c \in V |-> Deeper(env, c)]]
           Body(g) == [d \in 0..N |-> IF d = 0 THEN Shallow(env) ELSE Deeper(env, g[d - 1])]
           done == Closures(env)
<1>1. N \in Nat
  BY RoleConfigAssumption
<1>2. done = CHOOSE g : g = Body(g)
  <2> DEFINE Written(g) ==
        [depth \in 0..MaxRecursionDepth |->
          [name \in DOMAIN env |->
             IF env[name] = None THEN {}
             ELSE IF depth = 0 THEN None
             ELSE LET refs == referenced_env_vars(env, env[name])
                  IN  IF \E r \in refs : g[depth - 1][r] = None THEN None
                      ELSE refs \cup UNION {g[depth - 1][r] : r \in refs}]]
  <2>1. done = CHOOSE g : g = Written(g)
    BY DEF Closures
  <2>2. ASSUME NEW g PROVE Written(g) = Body(g)
    <3>1. ASSUME NEW d \in 0..N PROVE Written(g)[d] = Body(g)[d]
      <4>1. CASE d = 0
        BY <4>1 DEF Shallow
      <4>2. CASE d # 0
        BY <4>2 DEF Deeper
      <4>3. QED
        BY <4>1, <4>2
    <3>2. Written(g) = [d \in 0..N |-> Written(g)[d]] /\ Body(g) = [d \in 0..N |-> Body(g)[d]]
      OBVIOUS
    <3> HIDE DEF Written, Body
    <3>3. QED
      BY <3>1, <3>2
  <2> HIDE DEF Written, Body, done
  <2>3. QED
    BY <2>1, <2>2
<1> HIDE DEF done
<1>3. Shallow(env) \in V
  BY DEF Shallow, ClosuresOf
<1>4. \A c \in V : Deeper(env, c) \in V
  BY DeeperType
<1> HIDE DEF V, N
<1>5. next \in Steps(N, V)
  BY <1>4 DEF Steps
<1>6. PICK f : Iterates(f, N, V, Shallow(env), next)
  <2> HIDE DEF next
  <2>1. QED
    BY <1>1, <1>3, <1>5, IterationExists
<1>7. f = Body(f)
  <2>1. ASSUME NEW n \in 0..N
        PROVE  f[n] = IF n = 0 THEN Shallow(env) ELSE Deeper(env, f[n - 1])
    <3>1. CASE n = 0
      BY <1>6, <3>1 DEF Iterates
    <3>2. CASE n # 0
      <4>1. n \in 1..N /\ n - 1 \in 0..N
        BY <1>1, <3>2
      <4>2. f[n - 1] \in V /\ f[n] = next[n][f[n - 1]]
        BY <1>6, <4>1 DEF Iterates
      <4>3. QED
        BY <3>2, <4>1, <4>2
    <3>3. QED
      BY <3>1, <3>2
  <2>2. f = [n \in 0..N |-> f[n]]
    BY <1>6 DEF Iterates
  <2>3. QED
    BY <2>1, <2>2
<1>8. done = Body(done)
  <2> HIDE DEF Body
  <2>1. QED
    BY <1>2, <1>7
<1>9. /\ done = [n \in 0..N |-> done[n]] /\ done[0] = Shallow(env)
      /\ \A n \in 1..N : done[n] = Deeper(env, done[n - 1])
  <2>1. ASSUME NEW g, g = Body(g)
        PROVE  /\ g = [n \in 0..N |-> g[n]] /\ g[0] = Shallow(env)
               /\ \A n \in 1..N : g[n] = Deeper(env, g[n - 1])
    <3>1. \A n \in 0..N : g[n] = IF n = 0 THEN Shallow(env) ELSE Deeper(env, g[n - 1])
      BY <2>1
    <3>2. g = [n \in 0..N |-> g[n]]
      BY <2>1
    <3>3. 0 \in 0..N /\ \A n \in 1..N : n \in 0..N /\ n # 0
      BY <1>1
    <3> HIDE DEF Body
    <3>4. QED
      BY <3>1, <3>2, <3>3
  <2> HIDE DEF Body
  <2>2. QED
    BY <1>8, <2>1
<1>10. Follows(done, N, V, Shallow(env), next)
  BY <1>9 DEF Follows
<1>11. done \in [0..N -> V]
  <2> HIDE DEF next
  <2>1. Iterates(done, N, V, Shallow(env), next)
    BY <1>1, <1>3, <1>5, <1>10, IterationFollows
  <2>2. QED
    BY <2>1 DEF Iterates
<1>12. QED
  BY <1>9, <1>11 DEF done, N, V

\* The variables that the value of another one refers to.
Refs(env, name) == referenced_env_vars(env, env[name])

\* The closure of a variable from those of the variables it refers to.
Reached(env, name, closure) ==
  IF \E r \in Refs(env, name) : closure[r] = None THEN None
  ELSE Refs(env, name) \cup UNION {closure[r] : r \in Refs(env, name)}

\* The closures of a variable, by depth.
LEMMA ClosureAt ==
  ASSUME NEW env, IsEnvVars(env), NEW n \in DOMAIN env
  PROVE  /\ {} # None /\ Refs(env, n) \subseteq DOMAIN env
         /\ \A d \in 0..MaxRecursionDepth :
              /\ Closures(env)[d][n] \in {None} \cup SUBSET DOMAIN env
              /\ env[n] = None => Closures(env)[d][n] = {}
         /\ env[n] # None => Closures(env)[0][n] = None
         /\ \A d \in 1..MaxRecursionDepth : env[n] # None =>
              Closures(env)[d][n] = Reached(env, n, Closures(env)[d - 1])
<1> DEFINE c == Closures(env)
           N == MaxRecursionDepth
<1>1. /\ c \in [0..N -> ClosuresOf(env)] /\ c[0] = Shallow(env)
      /\ \A d \in 1..N : c[d] = Deeper(env, c[d - 1])
  BY ClosuresStep
<1>2. N \in Nat /\ {} # None
  BY RoleConfigAssumption
<1>3. Refs(env, n) \subseteq DOMAIN env
  BY DEF Refs, referenced_env_vars
<1> HIDE DEF c, N
<1>4. \A d \in 0..N : c[d][n] \in {None} \cup SUBSET DOMAIN env
  BY <1>1 DEF ClosuresOf
<1>5. c[0][n] = IF env[n] = None THEN {} ELSE None
  BY <1>1 DEF Shallow
<1>6. ASSUME NEW d \in 1..N
      PROVE  c[d][n] = IF env[n] = None THEN {} ELSE Reached(env, n, c[d - 1])
  <2> DEFINE closure == c[d - 1]
  <2>1. Deeper(env, closure)[n] = IF env[n] = None THEN {} ELSE Reached(env, n, closure)
    BY DEF Deeper, Refs, Reached
  <2> HIDE DEF closure
  <2>2. c[d] = Deeper(env, closure)
    BY <1>1 DEF closure
  <2>3. QED
    BY <2>1, <2>2 DEF closure
<1>7. \A d \in 0..N : d = 0 \/ d \in 1..N
  BY <1>2
<1>8. \A d \in 0..N : env[n] = None => c[d][n] = {}
  BY <1>5, <1>6, <1>7
<1>9. QED
  BY <1>2, <1>3, <1>4, <1>5, <1>6, <1>8 DEF c, N

\* One depth of a variable that refers to others
LEMMA ClosureDeeper ==
  ASSUME NEW env, IsEnvVars(env), NEW n \in DOMAIN env, env[n] # None,
         NEW d \in 1..MaxRecursionDepth
  PROVE  Closures(env)[d][n] = Reached(env, n, Closures(env)[d - 1])
BY ClosureAt

\* and of one whose value comes from elsewhere.
LEMMA ClosureEmpty ==
  ASSUME NEW env, IsEnvVars(env), NEW n \in DOMAIN env, env[n] = None,
         NEW d \in 0..MaxRecursionDepth
  PROVE  Closures(env)[d][n] = {}
BY ClosureAt

\* A closure found at one depth is the one at the next.
LEMMA ClosureStable ==
  ASSUME NEW env, IsEnvVars(env)
  PROVE  \A d \in 1..MaxRecursionDepth : \A n \in DOMAIN env :
           Closures(env)[d - 1][n] # None => Closures(env)[d][n] = Closures(env)[d - 1][n]
<1> DEFINE c == Closures(env)
           N == MaxRecursionDepth
           P(d) == \A n \in DOMAIN env : c[d - 1][n] # None => c[d][n] = c[d - 1][n]
           T == {d \in 1..N : ~P(d)}
<1>1. N \in Nat
  BY RoleConfigAssumption
<1>2. ASSUME T # {} PROVE FALSE
  <2>1. PICK d \in T : \A m \in T : d <= m
    <3>1. T \subseteq Nat
      BY <1>1
    <3> HIDE DEF T
    <3>2. QED
      BY <1>2, <3>1, LeastNumber
  <2>2. d \in 1..N /\ d - 1 \in 0..N /\ d \in 0..N
    BY <1>1
  <2>3. P(d)
    <3> SUFFICES ASSUME NEW n \in DOMAIN env, c[d - 1][n] # None PROVE c[d][n] = c[d - 1][n]
      OBVIOUS
    <3>1. CASE env[n] = None
      BY <2>2, <3>1, ClosureEmpty
    <3>2. CASE env[n] # None
      <4> DEFINE refs == Refs(env, n)
      <4>1. d - 1 # 0
        BY <3>2, ClosureAt
      <4>2. d - 1 \in 1..N /\ ~(d <= d - 1)
        BY <2>2, <4>1
      <4>3. P(d - 1)
        BY <2>1, <4>2
      <4>4. refs \subseteq DOMAIN env
        BY ClosureAt
      <4> DEFINE e == d - 1
      <4>5. c[d][n] = Reached(env, n, c[d - 1]) /\ c[e][n] = Reached(env, n, c[e - 1])
        <5>1. e \in 1..N
          BY <4>2
        <5> HIDE DEF e
        <5>2. QED
          BY <2>2, <3>2, <5>1, ClosureDeeper
      <4> DEFINE near == c[d - 1]
                 far == c[e - 1]
      <4>6. \A r \in refs : far[r] # None => near[r] = far[r]
        BY <4>3, <4>4
      <4> HIDE DEF near, far
      <4>7. Reached(env, n, far) # None
        BY <4>5 DEF far
      <4>8. ~\E r \in refs : far[r] = None
        BY <4>7 DEF Reached
      <4>9. \A r \in refs : near[r] = far[r]
        BY <4>6, <4>8
      <4>10. Reached(env, n, near) = Reached(env, n, far)
        BY <4>9 DEF Reached
      <4>11. QED
        BY <4>5, <4>10 DEF near, far
    <3>3. QED
      BY <3>1, <3>2
  <2>4. QED
    BY <2>3
<1>3. QED
  BY <1>2

\* A closure found at one depth is the one at every depth from there on.
LEMMA ClosureKept ==
  ASSUME NEW env, IsEnvVars(env), NEW n \in DOMAIN env, NEW d \in 0..MaxRecursionDepth,
         Closures(env)[d][n] # None
  PROVE  \A e \in d..MaxRecursionDepth : Closures(env)[e][n] = Closures(env)[d][n]
<1> DEFINE c == Closures(env)
           N == MaxRecursionDepth
           T == {e \in d..N : c[e][n] # c[d][n]}
<1>1. N \in Nat
  BY RoleConfigAssumption
<1>2. ASSUME T # {} PROVE FALSE
  <2>1. PICK e \in T : \A m \in T : e <= m
    <3>1. T \subseteq Nat
      BY <1>1
    <3> HIDE DEF T
    <3>2. QED
      BY <1>2, <3>1, LeastNumber
  <2>2. e # d
    OBVIOUS
  <2>3. e \in 1..N /\ e - 1 \in d..N /\ ~(e <= e - 1)
    BY <1>1, <2>2
  <2>4. c[e - 1][n] = c[d][n]
    BY <2>1, <2>3
  <2>5. c[e][n] = c[e - 1][n]
    BY <2>3, <2>4, ClosureStable
  <2>6. QED
    BY <2>4, <2>5
<1>3. QED
  BY <1>2

\* A variable in the closure of another one has its own closure one level before, and the
\* other contains it.
LEMMA ClosureOfReference ==
  ASSUME NEW env, IsEnvVars(env)
  PROVE  \A d \in 1..MaxRecursionDepth : \A n \in DOMAIN env : Closures(env)[d][n] # None =>
           \A r \in Closures(env)[d][n] :
             Closures(env)[d - 1][r] # None /\ Closures(env)[d - 1][r] \subseteq Closures(env)[d][n]
<1> DEFINE c == Closures(env)
           N == MaxRecursionDepth
           P(d) == \A n \in DOMAIN env : c[d][n] # None =>
                     \A r \in c[d][n] : c[d - 1][r] # None /\ c[d - 1][r] \subseteq c[d][n]
           T == {d \in 1..N : ~P(d)}
<1>1. N \in Nat
  BY RoleConfigAssumption
<1>2. ASSUME T # {} PROVE FALSE
  <2>1. PICK d \in T : \A m \in T : d <= m
    <3>1. T \subseteq Nat
      BY <1>1
    <3> HIDE DEF T
    <3>2. QED
      BY <1>2, <3>1, LeastNumber
  <2>2. d \in 1..N /\ d - 1 \in 0..N /\ d \in 0..N
    BY <1>1
  <2>3. P(d)
    <3> SUFFICES ASSUME NEW n \in DOMAIN env, c[d][n] # None, NEW r \in c[d][n]
                 PROVE  c[d - 1][r] # None /\ c[d - 1][r] \subseteq c[d][n]
      OBVIOUS
    <3> DEFINE refs == Refs(env, n)
    <3>1. env[n] # None /\ refs \subseteq DOMAIN env
      BY <2>2, ClosureAt
    <3> DEFINE near == c[d - 1]
    <3>2. c[d][n] = Reached(env, n, near)
      BY <2>2, <3>1, ClosureDeeper
    <3>3. /\ \A q \in refs : c[d - 1][q] # None /\ c[d - 1][q] \subseteq c[d][n]
          /\ r \in refs \/ \E q \in refs : r \in c[d - 1][q]
      <4> HIDE DEF near
      <4>1. /\ \A q \in refs : near[q] # None /\ near[q] \subseteq c[d][n]
            /\ r \in refs \/ \E q \in refs : r \in near[q]
        BY <3>2 DEF Reached
      <4>2. QED
        BY <4>1 DEF near
    <3> HIDE DEF refs
    <3>4. CASE r \in refs
      BY <3>3, <3>4
    <3>5. CASE \E q \in refs : r \in c[d - 1][q]
      <4>1. PICK q \in refs : r \in c[d - 1][q]
        BY <3>5
      <4>2. q \in DOMAIN env /\ c[d - 1][q] # None /\ c[d - 1][q] \subseteq c[d][n]
        BY <3>1, <3>3
      <4>3. c[d - 1][q] \in SUBSET DOMAIN env
        BY <2>2, <4>2, ClosureAt
      <4>4. d - 1 # 0
        <5>1. c[0][q] = {} \/ c[0][q] = None
          <6>1. 0 \in 0..N
            BY <1>1
          <6>2. QED
            BY <4>2, <6>1, ClosureAt
        <5>2. QED
          BY <4>1, <4>2, <5>1
      <4>5. d - 1 \in 1..N /\ ~(d <= d - 1)
        BY <2>2, <4>4
      <4>6. P(d - 1)
        BY <2>1, <4>5
      <4>7. c[(d - 1) - 1][r] # None /\ c[(d - 1) - 1][r] \subseteq c[d - 1][q]
        BY <4>1, <4>2, <4>6
      <4>8. c[d - 1][r] = c[(d - 1) - 1][r]
        BY <4>1, <4>3, <4>5, <4>7, ClosureStable
      <4>9. QED
        BY <4>2, <4>7, <4>8
    <3>6. QED
      BY <3>3, <3>4, <3>5
  <2>4. QED
    BY <2>3
<1>3. QED
  BY <1>2

\* A closure that was found does not contain its variable, and contains the closures of the
\* variables in it.
LEMMA ClosureIsStrict ==
  ASSUME NEW env, IsEnvVars(env), NEW n \in DOMAIN env, calculate_closure(env)[n] # None
  PROVE  /\ calculate_closure(env)[n] \subseteq DOMAIN env
         /\ n \notin calculate_closure(env)[n]
         /\ \A r \in calculate_closure(env)[n] :
              /\ calculate_closure(env)[r] # None
              /\ calculate_closure(env)[r] \subseteq calculate_closure(env)[n]
<1> DEFINE c == Closures(env)
           N == MaxRecursionDepth
           all == calculate_closure(env)
           T == {d \in 0..N : c[d][n] # None}
<1>1. N \in Nat /\ N \in 0..N /\ all = c[N]
  BY RoleConfigAssumption DEF calculate_closure
<1>2. all[n] \subseteq DOMAIN env
  BY <1>1, ClosureAt
<1> HIDE DEF all
<1>3. PICK d \in T : \A m \in T : d <= m
  <2>1. T \subseteq Nat /\ T # {}
    BY <1>1 DEF all
  <2> HIDE DEF T
  <2>2. QED
    BY <2>1, LeastNumber
<1>4. d \in 0..N /\ c[d][n] # None /\ c[N][n] = c[d][n]
  <2>1. N \in d..N
    BY <1>1
  <2>2. QED
    BY <2>1, ClosureKept
<1>5. n \notin c[d][n]
  <2> SUFFICES ASSUME n \in c[d][n] PROVE FALSE
    OBVIOUS
  <2>1. d # 0
    <3>1. c[0][n] = {} \/ c[0][n] = None
      <4>1. 0 \in 0..N
        BY <1>1
      <4>2. QED
        BY <4>1, ClosureAt
    <3>2. QED
      BY <1>4, <3>1
  <2>2. d \in 1..N /\ d - 1 \in 0..N /\ ~(d <= d - 1)
    BY <1>1, <1>4, <2>1
  <2>3. c[d - 1][n] # None
    BY <1>4, <2>2, ClosureOfReference
  <2>4. QED
    BY <1>3, <2>2, <2>3
<1>6. ASSUME NEW r \in all[n] PROVE all[r] # None /\ all[r] \subseteq all[n]
  <2>1. N # 0
    <3>1. c[0][n] = {} \/ c[0][n] = None
      <4>1. 0 \in 0..N
        BY <1>1
      <4>2. QED
        BY <4>1, ClosureAt
    <3>2. QED
      BY <1>1, <1>4, <3>1
  <2>2. N \in 1..N /\ r \in DOMAIN env
    BY <1>1, <1>2, <2>1
  <2>3. c[N - 1][r] # None /\ c[N - 1][r] \subseteq c[N][n]
    BY <1>1, <1>4, <2>2, ClosureOfReference
  <2>4. c[N][r] = c[N - 1][r]
    BY <2>2, <2>3, ClosureStable
  <2>5. QED
    BY <1>1, <2>3, <2>4
<1>7. QED
  BY <1>1, <1>2, <1>4, <1>5, <1>6 DEF all

\* A finite set of numbers has a bound; by induction over the number of its elements.
LEMMA FiniteIsBounded ==
  ASSUME NEW S \in SUBSET Nat, IsFiniteSet(S)
  PROVE  \E b \in Nat : \A x \in S : x <= b
<1> DEFINE Bounded(A) == \E b \in Nat : \A x \in A : x <= b
           T == {n \in Nat : \E A \in SUBSET S : Cardinality(A) = n /\ ~Bounded(A)}
<1>1. ASSUME T # {} PROVE FALSE
  <2>1. PICK n \in T : \A m \in T : n <= m
    <3>1. T \subseteq Nat
      OBVIOUS
    <3> HIDE DEF T
    <3>2. QED
      BY <1>1, <3>1, LeastNumber
  <2>2. PICK A \in SUBSET S : Cardinality(A) = n /\ ~Bounded(A)
    OBVIOUS
  <2>3. IsFiniteSet(A)
    BY FS_Subset
  <2>4. A # {}
    <3>1. 0 \in Nat /\ \A x \in {} : x <= 0
      OBVIOUS
    <3>2. QED
      BY <2>2, <3>1
  <2>5. PICK x \in A : x \in Nat
    BY <2>4
  <2> DEFINE B == A \ {x}
  <2>6. IsFiniteSet(B) /\ Cardinality(B) = n - 1 /\ B \in SUBSET S
    BY <2>2, <2>3, <2>5, FS_RemoveElement
  <2>7. Cardinality(B) \in Nat
    BY <2>6, FS_CardinalityType
  <2> HIDE DEF B
  <2>8. Bounded(B)
    <3>1. n \in Nat /\ ~(n <= n - 1)
      OBVIOUS
    <3>2. n - 1 \notin T
      BY <2>1, <3>1
    <3>3. QED
      BY <2>6, <2>7, <3>2
  <2>9. PICK b \in Nat : \A y \in B : y <= b
    BY <2>8
  <2>10. Bounded(A)
    <3>1. \A y \in A : y = x \/ y \in B
      BY DEF B
    <3>2. CASE x <= b
      BY <2>9, <3>1, <3>2
    <3>3. CASE ~(x <= b)
      <4>1. \A y \in B : y \in Nat
        BY <2>6
      <4>2. \A y \in A : y <= x
        BY <2>5, <2>9, <3>1, <3>3, <4>1
      <4>3. QED
        BY <2>5, <4>2
    <3>4. QED
      BY <3>2, <3>3
  <2>11. QED
    BY <2>2, <2>10
<1>2. Cardinality(S) \in Nat /\ S \in SUBSET S
  BY FS_CardinalityType
<1>3. QED
  BY <1>1, <1>2

\* Of two different sort keys, one comes first.
LEMMA KeysAreOrdered ==
  ASSUME NEW s \in SUBSET EnvNames, NEW t \in SUBSET EnvNames, s # t
  PROVE  KeyLess(s, t) \/ KeyLess(t, s)
<1> DEFINE D == (s \ t) \cup (t \ s)
<1>1. D \in SUBSET EnvNames /\ D # {}
  OBVIOUS
<1>2. D \subseteq Nat /\ IsFiniteSet(D)
  BY <1>1, RoleConfigAssumption, FS_Subset
<1>3. PICK m \in D : \A x \in D : x <= m
  <2> HIDE DEF D
  <2>1. PICK b \in Nat : \A x \in D : x <= b
    BY <1>2, FiniteIsBounded
  <2>2. QED
    BY <1>1, <1>2, <2>1, GreatestNumber
<1>4. \A x \in D : x # m => x < m
  BY <1>2, <1>3
<1>5. CASE m \in t \ s
  <2>1. \A x \in s \ t : x < m
    BY <1>4, <1>5
  <2>2. QED
    BY <1>5, <2>1 DEF KeyLess
<1>6. CASE m \in s \ t
  <2>1. \A x \in t \ s : x < m
    BY <1>4, <1>6
  <2>2. QED
    BY <1>6, <2>1 DEF KeyLess
<1>7. QED
  BY <1>5, <1>6

\* The order of the keys is transitive.
LEMMA KeysAreTransitive ==
  ASSUME NEW s \in SUBSET EnvNames, NEW t \in SUBSET EnvNames, NEW u \in SUBSET EnvNames,
         KeyLess(s, t), KeyLess(t, u)
  PROVE  KeyLess(s, u)
<1>0. EnvNames \subseteq Nat
  BY RoleConfigAssumption
<1>1. PICK m \in t \ s : \A x \in s \ t : x < m
  BY DEF KeyLess
<1>2. PICK k \in u \ t : \A x \in t \ u : x < k
  BY DEF KeyLess
<1>3. m \in Nat /\ k \in Nat /\ m # k
  BY <1>0, <1>1, <1>2
<1>4. CASE m < k
  <2>1. k \notin s
    BY <1>1, <1>2, <1>3, <1>4
  <2>2. ASSUME NEW x \in s \ u PROVE x < k
    <3>1. x \in Nat
      BY <1>0
    <3>2. CASE x \in t
      BY <1>2, <3>2
    <3>3. CASE x \notin t
      <4>1. x < m
        BY <1>1, <3>3
      <4>2. QED
        BY <1>3, <1>4, <3>1, <4>1
    <3>4. QED
      BY <3>2, <3>3
  <2>3. QED
    BY <1>2, <2>1, <2>2 DEF KeyLess
<1>5. CASE k < m
  <2>1. m \in u
    BY <1>1, <1>2, <1>3, <1>5
  <2>2. ASSUME NEW x \in s \ u PROVE x < m
    <3>1. x \in Nat
      BY <1>0
    <3>2. CASE x \notin t
      BY <1>1, <3>2
    <3>3. CASE x \in t
      <4>1. x < k
        BY <1>2, <3>3
      <4>2. QED
        BY <1>3, <1>5, <3>1, <4>1
    <3>4. QED
      BY <3>2, <3>3
  <2>3. QED
    BY <1>1, <2>1, <2>2 DEF KeyLess
<1>6. QED
  BY <1>3, <1>4, <1>5

\* Sort keys are sets of variables, different for different variables, and the key of a
\* variable comes after those of the variables in its closure.
LEMMA SortKeys ==
  ASSUME NEW env, IsEnvVars(env), NEW n \in DOMAIN env
  PROVE  /\ sort_key(env, n) \in SUBSET EnvNames
         /\ \A m \in DOMAIN env : sort_key(env, m) = sort_key(env, n) => m = n
         /\ calculate_closure(env)[n] # None => \A r \in calculate_closure(env)[n] :
              r \in DOMAIN env /\ KeyLess(sort_key(env, r), sort_key(env, n))
<1> DEFINE all == calculate_closure(env)
<1>1. \A m \in DOMAIN env : all[m] # None =>
        /\ all[m] \subseteq DOMAIN env /\ m \notin all[m]
        /\ \A r \in all[m] : all[r] # None /\ all[r] \subseteq all[m]
  BY ClosureIsStrict
<1>2. \A m \in DOMAIN env : sort_key(env, m) = IF all[m] = None THEN {m} ELSE all[m] \cup {m}
  BY DEF sort_key
<1> HIDE DEF all
<1>3. DOMAIN env \subseteq EnvNames
  BY DEF IsEnvVars, IsMap
<1>4. sort_key(env, n) \in SUBSET EnvNames
  BY <1>1, <1>2, <1>3
<1>5. ASSUME NEW m \in DOMAIN env, sort_key(env, m) = sort_key(env, n), m # n PROVE FALSE
  <2>1. CASE all[m] = None
    <3>1. sort_key(env, m) = {m} /\ n \in sort_key(env, n)
      BY <1>2, <2>1
    <3>2. QED
      BY <1>5, <3>1
  <2>2. CASE all[n] = None
    <3>1. sort_key(env, n) = {n} /\ m \in sort_key(env, m)
      BY <1>2, <2>2
    <3>2. QED
      BY <1>5, <3>1
  <2>3. CASE all[m] # None /\ all[n] # None
    <3>1. all[m] \cup {m} = all[n] \cup {n}
      BY <1>2, <1>5, <2>3
    <3>2. m \in all[n] /\ n \in all[m]
      BY <1>5, <3>1
    <3>3. all[m] \subseteq all[n]
      BY <1>1, <2>3, <3>2
    <3>4. QED
      BY <1>1, <2>3, <3>2, <3>3
  <2>4. QED
    BY <2>1, <2>2, <2>3
<1>6. ASSUME all[n] # None, NEW r \in all[n]
      PROVE  r \in DOMAIN env /\ KeyLess(sort_key(env, r), sort_key(env, n))
  <2>1. r \in DOMAIN env /\ all[r] # None /\ all[r] \subseteq all[n] /\ n \notin all[n]
    BY <1>1, <1>6
  <2>2. sort_key(env, r) = all[r] \cup {r} /\ sort_key(env, n) = all[n] \cup {n}
    BY <1>2, <1>6, <2>1
  <2>3. n \in sort_key(env, n) \ sort_key(env, r) /\ sort_key(env, r) \ sort_key(env, n) = {}
    BY <1>6, <2>1, <2>2
  <2>4. QED
    BY <2>1, <2>3 DEF KeyLess
<1>7. QED
  BY <1>4, <1>5, <1>6 DEF all

\* The variables with a smaller key, and their number.
Before(env, n) == {m \in DOMAIN env : KeyLess(sort_key(env, m), sort_key(env, n))}
Rank(env, n) == Cardinality(Before(env, n))

\* The variables of a container are finitely many.
LEMMA EnvIsFinite ==
  ASSUME NEW env, IsEnvVars(env)
  PROVE  IsFiniteSet(DOMAIN env) /\ Cardinality(DOMAIN env) \in Nat
<1>1. DOMAIN env \in SUBSET EnvNames /\ IsFiniteSet(EnvNames)
  BY RoleConfigAssumption DEF IsEnvVars, IsMap
<1>2. IsFiniteSet(DOMAIN env)
  BY <1>1, FS_Subset
<1>3. QED
  BY <1>2, FS_CardinalityType

\* A smaller key has a smaller rank.
LEMMA RankLess ==
  ASSUME NEW env, IsEnvVars(env), NEW m \in DOMAIN env, NEW n \in DOMAIN env,
         KeyLess(sort_key(env, m), sort_key(env, n))
  PROVE  Rank(env, m) \in Nat /\ Rank(env, n) \in Nat /\ Rank(env, m) < Rank(env, n)
<1> DEFINE A == Before(env, m)
           B == Before(env, n)
<1>1. \A k \in DOMAIN env : sort_key(env, k) \in SUBSET EnvNames
  BY SortKeys
<1>2. A \subseteq B
  <2> SUFFICES ASSUME NEW k \in DOMAIN env, KeyLess(sort_key(env, k), sort_key(env, m))
               PROVE  KeyLess(sort_key(env, k), sort_key(env, n))
    BY DEF Before
  <2>1. QED
    BY <1>1, KeysAreTransitive
<1>3. m \in B /\ m \notin A
  BY DEF Before, KeyLess
<1>4. IsFiniteSet(B) /\ IsFiniteSet(A)
  <2>1. B \in SUBSET DOMAIN env /\ A \in SUBSET DOMAIN env
    BY DEF Before
  <2> HIDE DEF A, B
  <2>2. QED
    BY <2>1, EnvIsFinite, FS_Subset
<1> HIDE DEF A, B
<1>5. Cardinality(A) \in Nat /\ Cardinality(B) \in Nat
  BY <1>4, FS_CardinalityType
<1>6. Cardinality(A) <= Cardinality(B) /\ Cardinality(A) # Cardinality(B)
  <2>1. /\ Cardinality(A) <= Cardinality(B)
        /\ Cardinality(B) = Cardinality(A) => B = A
    BY <1>2, <1>4, FS_Subset
  <2>2. QED
    BY <1>3, <2>1
<1>7. Rank(env, m) = Cardinality(A) /\ Rank(env, n) = Cardinality(B)
  BY DEF Rank, A, B
<1>8. QED
  BY <1>5, <1>6, <1>7

\* Every place is the rank of exactly one variable.
LEMMA RanksAreThePlaces ==
  ASSUME NEW env, IsEnvVars(env)
  PROVE  LET N == Cardinality(DOMAIN env)
         IN  /\ \A n \in DOMAIN env : Rank(env, n) \in 0..(N - 1)
             /\ \A m, n \in DOMAIN env : Rank(env, m) = Rank(env, n) => m = n
             /\ \A i \in 0..(N - 1) : \E n \in DOMAIN env : Rank(env, n) = i
<1> DEFINE D == DOMAIN env
           N == Cardinality(D)
           P == 0..(N - 1)
           rank == [n \in D |-> Rank(env, n)]
<1>1. IsFiniteSet(D) /\ N \in Nat
  BY EnvIsFinite
<1>2. ASSUME NEW n \in D PROVE Rank(env, n) \in P
  <2> DEFINE B == Before(env, n)
  <2>1. n \notin B /\ B \in SUBSET D
    BY DEF Before, KeyLess
  <2> HIDE DEF B
  <2>2. IsFiniteSet(B) /\ Cardinality(B) <= N /\ (N = Cardinality(B) => D = B)
    BY <1>1, <2>1, FS_Subset
  <2>3. Cardinality(B) \in Nat
    BY <2>2, FS_CardinalityType
  <2>4. Cardinality(B) # N
    BY <2>1, <2>2
  <2> HIDE DEF N
  <2>5. Cardinality(B) \in 0..(N - 1)
    BY <1>1, <2>2, <2>3, <2>4
  <2>6. QED
    BY <2>5 DEF Rank, B
<1>3. ASSUME NEW m \in D, NEW n \in D, Rank(env, m) = Rank(env, n), m # n PROVE FALSE
  <2>1. /\ sort_key(env, m) \in SUBSET EnvNames /\ sort_key(env, n) \in SUBSET EnvNames
        /\ sort_key(env, m) # sort_key(env, n)
    BY <1>3, SortKeys
  <2>2. \/ KeyLess(sort_key(env, m), sort_key(env, n))
        \/ KeyLess(sort_key(env, n), sort_key(env, m))
    BY <2>1, KeysAreOrdered
  <2>3. \/ Rank(env, m) \in Nat /\ Rank(env, n) \in Nat /\ Rank(env, m) < Rank(env, n)
        \/ Rank(env, m) \in Nat /\ Rank(env, n) \in Nat /\ Rank(env, n) < Rank(env, m)
    BY <2>2, RankLess
  <2>4. QED
    BY <1>3, <2>3
<1>4. rank \in Injection(D, P)
  BY <1>2, <1>3 DEF Injection, IsInjective
<1>5. IsFiniteSet(P) /\ Cardinality(P) = N
  <2>1. 0 \in Int /\ N - 1 \in Int
    BY <1>1
  <2> HIDE DEF N
  <2>2. IsFiniteSet(0..(N - 1)) /\ Cardinality(0..(N - 1)) = IF 0 > N - 1 THEN 0 ELSE (N - 1) - 0 + 1
    BY <2>1, FS_Interval
  <2>3. QED
    BY <1>1, <2>2
<1>6. rank \in Surjection(D, P)
  <2> HIDE DEF rank, P
  <2>1. Cardinality(D) = Cardinality(P) <=> rank \in Surjection(D, P)
    BY <1>4, <1>5, FS_Injection
  <2>2. QED
    BY <1>5, <2>1
<1>7. \A i \in P : \E n \in D : rank[n] = i
  <2> HIDE DEF rank, P
  <2>1. QED
    BY <1>6 DEF Surjection
<1>8. QED
  BY <1>2, <1>3, <1>7

\* Every variable is there once, after the variables in its closure.
InOrder(env) ==
  LET order   == into_iter(env)
      closure == calculate_closure(env)
      at(n)   == CHOOSE i \in DOMAIN order : order[i] = n
  IN  /\ Len(order) = Cardinality(DOMAIN env) /\ Range(order) = DOMAIN env
      /\ \A n \in DOMAIN env : closure[n] # None =>
           /\ n \notin closure[n]
           /\ \A r \in closure[n] : at(r) < at(n)

\* The order of the variables in a container: every variable is at its rank, so that a
\* variable whose closure was found comes after the variables in it.
LEMMA VariablesInOrder ==
  ASSUME NEW env, IsEnvVars(env)
  PROVE  InOrder(env)
<1> DEFINE D == DOMAIN env
           N == Cardinality(D)
           order == into_iter(env)
           at(n) == CHOOSE i \in DOMAIN order : order[i] = n
<1>1. N \in Nat
  BY EnvIsFinite
<1>2. /\ \A n \in D : Rank(env, n) \in 0..(N - 1)
      /\ \A m, n \in D : Rank(env, m) = Rank(env, n) => m = n
      /\ \A i \in 0..(N - 1) : \E n \in D : Rank(env, n) = i
  BY RanksAreThePlaces
<1>3. order = [i \in 1..N |-> CHOOSE n \in D : Rank(env, n) = i - 1]
  <2> DEFINE key == [n \in D |-> sort_key(env, n)]
             before(n) == {m \in D : KeyLess(key[m], key[n])}
  <2>1. \A n \in D : before(n) = Before(env, n)
    BY DEF Before
  <2>2. order = [i \in 1..N |-> CHOOSE n \in D : Cardinality(before(n)) = i - 1]
    BY DEF into_iter
  <2> HIDE DEF before
  <2>3. \A n \in D : Cardinality(before(n)) = Rank(env, n)
    BY <2>1 DEF Rank
  <2>4. \A i \in 1..N : (CHOOSE n \in D : Cardinality(before(n)) = i - 1)
                          = (CHOOSE n \in D : Rank(env, n) = i - 1)
    BY <2>3
  <2> HIDE DEF order
  <2>5. QED
    BY <2>2, <2>4
<1> HIDE DEF order, N
<1>4. ASSUME NEW i \in 1..N PROVE order[i] \in D /\ Rank(env, order[i]) = i - 1
  <2>1. i - 1 \in 0..(N - 1)
    BY <1>1
  <2>2. \E n \in D : Rank(env, n) = i - 1
    BY <1>2, <2>1
  <2>3. QED
    BY <1>3, <2>2
<1>5. DOMAIN order = 1..N /\ order \in [1..N -> D]
  BY <1>3, <1>4
<1>6. Len(order) = N
  <2>1. order \in Seq(D)
    BY <1>1, <1>5, IsASeq
  <2>2. DOMAIN order = 1..Len(order) /\ Len(order) \in Nat
    BY <2>1
  <2>3. QED
    BY <1>1, <1>5, <2>2
<1>7. ASSUME NEW n \in D PROVE at(n) = Rank(env, n) + 1 /\ at(n) \in 1..N /\ order[at(n)] = n
  <2> DEFINE i == Rank(env, n) + 1
  <2>1. i \in 1..N /\ i - 1 = Rank(env, n)
    BY <1>1, <1>2
  <2>2. order[i] = n
    BY <1>2, <1>4, <2>1
  <2>3. ASSUME NEW j \in 1..N, order[j] = n PROVE j = i
    <3>1. Rank(env, n) = j - 1
      BY <1>4, <2>3
    <3>2. QED
      BY <1>1, <3>1
  <2>4. at(n) \in 1..N /\ order[at(n)] = n
    BY <1>5, <2>1, <2>2
  <2> HIDE DEF i, at
  <2>5. at(n) = i
    BY <2>3, <2>4
  <2>6. QED
    BY <2>4, <2>5 DEF i
<1>8. Range(order) = D
  <2>1. Range(order) = {order[i] : i \in 1..N}
    BY <1>5 DEF Range
  <2>2. \A n \in D : \E i \in 1..N : order[i] = n
    BY <1>7
  <2>3. QED
    BY <1>4, <2>1, <2>2
<1> HIDE DEF at
<1>9. ASSUME NEW n \in D, calculate_closure(env)[n] # None
      PROVE  /\ n \notin calculate_closure(env)[n]
             /\ \A r \in calculate_closure(env)[n] : at(r) < at(n)
  <2>1. n \notin calculate_closure(env)[n]
    BY <1>9, ClosureIsStrict
  <2>2. ASSUME NEW r \in calculate_closure(env)[n] PROVE at(r) < at(n)
    <3>1. r \in D /\ KeyLess(sort_key(env, r), sort_key(env, n))
      BY <1>9, SortKeys
    <3>2. Rank(env, r) \in Nat /\ Rank(env, n) \in Nat /\ Rank(env, r) < Rank(env, n)
      BY <3>1, RankLess
    <3>3. at(r) = Rank(env, r) + 1 /\ at(n) = Rank(env, n) + 1
      BY <1>7, <3>1
    <3>4. QED
      BY <3>2, <3>3
  <2>3. QED
    BY <2>1, <2>2
<1>10. QED
  BY <1>6, <1>8, <1>9 DEF InOrder, order, at, N

\* Two layers of variables are again variables, those of the second first.
LEMMA ExtendedEnv ==
  ASSUME NEW self, IsEnvVars(self), NEW other, IsEnvVars(other)
  PROVE  /\ IsEnvVars(extend(self, other))
         /\ DOMAIN other \subseteq DOMAIN extend(self, other)
         /\ \A n \in DOMAIN other : extend(self, other)[n] = other[n]
<1> DEFINE all == extend(self, other)
<1>1. all = [k \in DOMAIN self \cup DOMAIN other |->
               IF k \in DOMAIN other THEN other[k] ELSE self[k]]
  BY DEF extend
<1> HIDE DEF all
<1>2. DOMAIN all = DOMAIN self \cup DOMAIN other
  BY <1>1
<1>3. \A k \in DOMAIN all : all[k] \in {None} \cup SUBSET EnvNames
  BY <1>1, <1>2 DEF IsEnvVars, IsMap
<1>4. all = [k \in DOMAIN all |-> all[k]]
  BY <1>1
<1>5. all \in [DOMAIN all -> {None} \cup SUBSET EnvNames]
  BY <1>3, <1>4
<1>6. DOMAIN all \subseteq EnvNames
  BY <1>2 DEF IsEnvVars, IsMap
<1>7. IsEnvVars(all)
  BY <1>5, <1>6 DEF IsEnvVars, IsMap
<1>8. QED
  BY <1>1, <1>2, <1>7 DEF all

(***************************************************************************)
(* The invariant: every result is the one of the operation on the role     *)
(* group, and the second generation has results only for a custom resource *)
(* that deserializes.                                                      *)
(***************************************************************************)
RoleInv ==
  /\ spec \in Specs
  /\ DOMAIN merged = GroupNames /\ DOMAIN validated = GroupNames
  /\ \A g \in DOMAIN spec.groups :
       /\ merged[g].logging \in {NotYet, validate_config(g)}
       /\ merged[g].jvm \in {NotYet, get_merged_jvm_argument_overrides(g)}
       /\ \/ validated[g] \in {NotYet, Err("Deserialize")}
          \/ Deserializes /\ validated[g] = with_validated_config(g)

\* Every step of the two generations keeps the invariant.
LEMMA ResultsAreTheOperations == RoleSpec => []RoleInv
<1>1. RoleInit => RoleInv
  <2> SUFFICES ASSUME RoleInit PROVE RoleInv
    OBVIOUS
  <2>1. \A g \in DOMAIN spec.groups : g \in GroupNames
    BY RoleConfigAssumption DEF RoleInit
  <2>2. spec \in Specs /\ DOMAIN merged = GroupNames /\ DOMAIN validated = GroupNames
    BY DEF RoleInit
  <2>3. \A g \in DOMAIN spec.groups :
          merged[g] = [logging |-> NotYet, jvm |-> NotYet] /\ validated[g] = NotYet
    BY <2>1 DEF RoleInit
  <2>4. ASSUME NEW g \in DOMAIN spec.groups
        PROVE  /\ merged[g].logging \in {NotYet, validate_config(g)}
               /\ merged[g].jvm \in {NotYet, get_merged_jvm_argument_overrides(g)}
               /\ validated[g] \in {NotYet, Err("Deserialize")}
    BY <2>3
  <2>5. QED
    BY <2>2, <2>4 DEF RoleInv
<1>2. RoleInv /\ [RoleNext]_roleVars => RoleInv'
  <2> SUFFICES ASSUME RoleInv, [RoleNext]_roleVars PROVE RoleInv'
    OBVIOUS
  <2>1. spec' = spec
    BY DEF RoleNext, Merge, Validate, roleVars
  <2>2. /\ \A g : validate_config(g)' = validate_config(g)
        /\ \A g : get_merged_jvm_argument_overrides(g)' = get_merged_jvm_argument_overrides(g)
        /\ \A g : with_validated_config(g)' = with_validated_config(g)
        /\ Deserializes' = Deserializes
    BY <2>1 DEF validate_config, get_merged_jvm_argument_overrides, with_validated_config, Deserializes
  <2>3. ASSUME NEW h \in GroupNames, Merge(h) PROVE RoleInv'
    <3>1. validated' = validated /\ DOMAIN merged' = DOMAIN merged
      BY <2>3 DEF Merge
    <3>2. ASSUME NEW g \in DOMAIN spec.groups
          PROVE  /\ merged'[g].logging \in {NotYet, validate_config(g)}
                 /\ merged'[g].jvm \in {NotYet, get_merged_jvm_argument_overrides(g)}
      <4>1. g \in DOMAIN merged
        BY RoleConfigAssumption DEF RoleInv
      <4>2. CASE g = h
        <5>1. merged'[g] = [logging |-> validate_config(g),
                            jvm |-> get_merged_jvm_argument_overrides(g)]
          BY <2>3, <4>1, <4>2 DEF Merge
        <5>2. QED
          BY <5>1
      <4>3. CASE g # h
        <5>1. merged'[g] = merged[g]
          BY <2>3, <4>1, <4>3 DEF Merge
        <5>2. QED
          BY <5>1 DEF RoleInv
      <4>4. QED
        BY <4>2, <4>3
    <3>3. QED
      BY <2>1, <2>2, <3>1, <3>2 DEF RoleInv
  <2>4. ASSUME NEW h \in GroupNames, Validate(h) PROVE RoleInv'
    <3>1. merged' = merged /\ DOMAIN validated' = DOMAIN validated
      BY <2>4 DEF Validate
    <3>2. ASSUME NEW g \in DOMAIN spec.groups
          PROVE  \/ validated'[g] \in {NotYet, Err("Deserialize")}
                 \/ Deserializes /\ validated'[g] = with_validated_config(g)
      <4>1. g \in DOMAIN validated
        BY RoleConfigAssumption DEF RoleInv
      <4>2. CASE g = h
        <5>1. validated'[g] = IF Deserializes THEN with_validated_config(g) ELSE Err("Deserialize")
          BY <2>4, <4>1, <4>2 DEF Validate
        <5>2. CASE Deserializes
          BY <5>1, <5>2
        <5>3. CASE ~Deserializes
          BY <5>1, <5>3
        <5>4. QED
          BY <5>2, <5>3
      <4>3. CASE g # h
        <5>1. validated'[g] = validated[g]
          BY <2>4, <4>1, <4>3 DEF Validate
        <5>2. QED
          BY <5>1 DEF RoleInv
      <4>4. QED
        BY <4>2, <4>3
    <3>3. QED
      BY <2>1, <2>2, <3>1, <3>2 DEF RoleInv
  <2>5. CASE UNCHANGED roleVars
    BY <2>1, <2>2, <2>5 DEF RoleInv, roleVars
  <2>6. QED
    BY <2>3, <2>4, <2>5 DEF RoleNext
<1>3. QED
  BY <1>1, <1>2, PTL DEF RoleSpec

\* The tightest layer wins, whatever is set at several layers: each logger, appender and
\* Vector flag of the merged logging section, each container's choice, the file made of the
\* config overrides and the command line and Pod overrides are those of the tightest layer
\* that says something, for every custom resource and any number of role groups.
THEOREM TightestLayerAlwaysWins == RoleSpec => []TightestLayerWins
<1>1. RoleInv => TightestLayerWins
  <2> SUFFICES ASSUME RoleInv PROVE TightestLayerWins
    OBVIOUS
  <2>1. spec \in Specs /\ ~NotYet.ok /\ ~Err("Deserialize").ok
    BY DEF RoleInv, NotYet, Err
  <2>2. LoggingPrecedence
    <3>1. ASSUME NEW g \in DOMAIN spec.groups, merged[g].logging # NotYet
          PROVE  LoggingAsExpected(g, merged[g].logging)
      <4>1. merged[g].logging = validate_config(g)
        BY <3>1 DEF RoleInv
      <4>2. LoggingAsExpected(g, validate_config(g))
        BY <2>1, ValidatedAsExpected
      <4>3. QED
        BY <4>1, <4>2
    <3>2. QED
      BY <3>1 DEF LoggingPrecedence, LoggingAsExpected, Groups
  <2>3. EveryContainerConfigured
    <3>1. ASSUME NEW g \in DOMAIN spec.groups PROVE ContainersConfigured(merged[g].logging)
      <4>1. CASE merged[g].logging = NotYet
        BY <2>1, <4>1 DEF ContainersConfigured
      <4>2. CASE merged[g].logging = validate_config(g)
        BY <2>1, <4>2, EveryContainerHasChoice
      <4>3. QED
        BY <4>1, <4>2 DEF RoleInv
    <3>2. QED
      BY <3>1 DEF EveryContainerConfigured, ContainersConfigured, Groups
  <2>4. ConfigOverridesLayered
    <3>1. ASSUME NEW g \in DOMAIN spec.groups, validated[g].ok
          PROVE  FilesLayered(g, validated[g].value)
      <4>1. Deserializes /\ validated[g] = with_validated_config(g)
        BY <2>1, <3>1 DEF RoleInv
      <4>2. QED
        BY <2>1, <3>1, <4>1, ConfigIsLayered
    <3>2. QED
      BY <3>1 DEF ConfigOverridesLayered, FilesLayered, Groups
  <2>5. QED
    BY <2>2, <2>3, <2>4 DEF TightestLayerWins
<1>2. QED
  BY <1>1, ResultsAreTheOperations, PTL


\* Both generations of the code make the same of a role and its role groups: the JVM gets the
\* same arguments from the eager merge and from the overrides applied later, in whichever order
\* three layers are combined, and the counts of replicas agree.
THEOREM GenerationsAlwaysAgree == RoleSpec => []GenerationsAgree
<1>1. RoleInv => GenerationsAgree
  <2> SUFFICES ASSUME RoleInv PROVE GenerationsAgree
    OBVIOUS
  <2>1. spec \in Specs /\ ~NotYet.ok /\ ~Err("Deserialize").ok
    BY DEF RoleInv, NotYet, Err
  <2>2. JvmGenerationsAgree
    <3> SUFFICES ASSUME NEW g \in DOMAIN spec.groups
                 PROVE  /\ merged[g].jvm.ok =>
                             /\ merged[g].jvm.value.remove = {}
                             /\ merged[g].jvm.value.remove_regex = {}
                             /\ merged[g].jvm.value.add = ExpectedArgs(g)
                        /\ merged[g].jvm # NotYet =>
                             (merged[g].jvm.ok <=>
                                (spec.role.jvm.remove_regex \cup spec.groups[g].jvm.remove_regex)
                                   \cap InvalidPatterns = {})
                        /\ validated[g].ok =>
                             apply_to(validated[g].value.jvm, OperatorArgs) = ExpectedArgs(g)
      BY DEF JvmGenerationsAgree, Groups
    <3>1. validated[g].ok => apply_to(validated[g].value.jvm, OperatorArgs) = ExpectedArgs(g)
      <4> SUFFICES ASSUME validated[g].ok
                   PROVE  apply_to(validated[g].value.jvm, OperatorArgs) = ExpectedArgs(g)
        OBVIOUS
      <4>1. validated[g] = with_validated_config(g)
        BY <2>1 DEF RoleInv
      <4>2. validated[g].value.jvm = merge_jvm(spec.groups[g].jvm, spec.role.jvm)
        BY <4>1 DEF with_validated_config, Ok
      <4>3. QED
        BY <2>1, <4>2, SecondGenerationJvm
    <3>2. CASE merged[g].jvm = NotYet
      BY <2>1, <3>1, <3>2
    <3>3. CASE merged[g].jvm # NotYet
      <4>1. merged[g].jvm = get_merged_jvm_argument_overrides(g)
        BY <3>3 DEF RoleInv
      <4>2. QED
        BY <2>1, <3>1, <4>1, FirstGenerationJvm
    <3>4. QED
      BY <3>2, <3>3
  <2>3. PrecedingOverridesCompose
    <3> SUFFICES ASSUME NEW g \in DOMAIN spec.groups, NEW h \in DOMAIN spec.groups
                 PROVE  LET tight == spec.groups[g].jvm
                            mid   == spec.role.jvm
                            wide  == spec.groups[h].jvm
                        IN  apply_to(merge_jvm(merge_jvm(tight, mid), wide), OperatorArgs)
                              = apply_to(merge_jvm(tight, merge_jvm(mid, wide)), OperatorArgs)
      BY DEF PrecedingOverridesCompose, Groups
    <3>1. /\ spec.groups[g].jvm \in JvmOverrides /\ spec.role.jvm \in JvmOverrides
          /\ spec.groups[h].jvm \in JvmOverrides
      BY <2>1, SpecTypes
    <3>2. QED
      BY <3>1, ThreeLayersCompose
  <2>4. ReplicaCountsAgree
    <3> DEFINE D == DOMAIN spec.groups
               replicas == [g \in D |-> spec.groups[g].replicas]
    <3>1. IsFiniteSet(D)
      BY <2>1, RoleConfigAssumption, FS_Subset
    <3>2. \A g \in D : spec.groups[g].replicas \in Nat \cup {None}
      BY <2>1, SpecTypes
    <3>3. replicas \in [D -> Nat \cup {None}] /\ \A g \in D : replicas[g] = spec.groups[g].replicas
      BY <3>2
    <3> HIDE DEF replicas, D
    <3>4. LET zero  == fixed_replica_count(replicas, "TreatAsZero")
              unset == fixed_replica_count(replicas, "TreatAsNone")
          IN  /\ zero # None => zero = estimated_replica_count(replicas)
              /\ unset # None => unset = zero /\ unset >= Cardinality(D) /\ unset > 0
              /\ (zero # None /\ unset = None) => D = {} \/ \E g \in D : replicas[g] = 0
              /\ zero = None => \E g \in D : replicas[g] = None
      BY <3>1, <3>3, CountsAgree
    <3>5. QED
      BY <3>4 DEF ReplicaCountsAgree, Groups, D, replicas
  <2>5. QED
    BY <2>2, <2>3, <2>4 DEF GenerationsAgree
<1>2. QED
  BY <1>1, ResultsAreTheOperations, PTL


\* In every container, a variable comes after all variables its value refers to, directly or
\* through others, unless these form a cycle or a chain longer than the limit; and every
\* variable is there once, with the value of the tightest layer.
THEOREM ReferencesAlwaysComeFirst == RoleSpec => []ReferencesComeFirst
<1>1. RoleInv => ReferencesComeFirst
  <2> SUFFICES ASSUME RoleInv, NEW g \in DOMAIN spec.groups, validated[g].ok
               PROVE  LET env     == extend(OperatorEnv, validated[g].value.env)
                          order   == into_iter(env)
                          closure == calculate_closure(env)
                          at(n)   == CHOOSE i \in DOMAIN order : order[i] = n
                      IN  /\ Len(order) = Cardinality(DOMAIN env) /\ Range(order) = DOMAIN env
                          /\ \A n \in DOMAIN spec.groups[g].env : env[n] = spec.groups[g].env[n]
                          /\ \A n \in DOMAIN env : closure[n] # None =>
                               /\ n \notin closure[n]
                               /\ \A r \in closure[n] : at(r) < at(n)
    BY DEF ReferencesComeFirst, Groups
  <2>1. spec \in Specs /\ ~NotYet.ok /\ ~Err("Deserialize").ok
    BY DEF RoleInv, NotYet, Err
  <2> DEFINE role == spec.role.env
             group == spec.groups[g].env
             own == extend(role, group)
             env == extend(OperatorEnv, own)
  <2>2. validated[g].value.env = own
    <3>1. validated[g] = with_validated_config(g)
      BY <2>1 DEF RoleInv
    <3>2. QED
      BY <3>1 DEF with_validated_config, Ok
  <2>3. IsEnvVars(role) /\ IsEnvVars(group) /\ IsEnvVars(OperatorEnv)
    BY <2>1, SpecTypes, RoleConfigAssumption
  <2> HIDE DEF role, group
  <2>4. IsEnvVars(own) /\ DOMAIN group \subseteq DOMAIN own /\ \A n \in DOMAIN group : own[n] = group[n]
    BY <2>3, ExtendedEnv
  <2> HIDE DEF own
  <2>5. IsEnvVars(env) /\ \A n \in DOMAIN own : env[n] = own[n]
    BY <2>3, <2>4, ExtendedEnv
  <2> HIDE DEF env
  <2>6. \A n \in DOMAIN group : env[n] = group[n]
    BY <2>4, <2>5
  <2>7. InOrder(env)
    BY <2>5, VariablesInOrder
  <2> DEFINE all == extend(OperatorEnv, validated[g].value.env)
  <2>8. env = all
    BY <2>2 DEF env
  <2>9. InOrder(all) /\ \A n \in DOMAIN group : all[n] = group[n]
    BY <2>6, <2>7, <2>8
  <2>10. QED
    BY <2>9 DEF InOrder, group
<1>2. QED
  BY <1>1, ResultsAreTheOperations, PTL


=============================================================================
