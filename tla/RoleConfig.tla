------------------------------ MODULE RoleConfig ------------------------------
(***************************************************************************)
(* How a role and its role groups become the configuration of Pods.  The  *)
(* user writes the same sections at the role and at each role group; the   *)
(* operator adds its defaults.  Two generations of the code exist, and     *)
(* both are modelled on the same input:                                    *)
(*   role_utils.rs, config_overrides.rs               first generation     *)
(*   v2/role_utils.rs, v2/jvm_argument_overrides.rs,                        *)
(*   v2/config_overrides.rs, v2/env_overrides.rs,                           *)
(*   v2/builder/pod/container.rs                      second generation    *)
(* The first merges eagerly and reports errors while merging; the second   *)
(* keeps what cannot be merged right away as a sequence to apply later and *)
(* rejects bad input when the custom resource is deserialized.             *)
(***************************************************************************)
EXTENDS LoggingConfig, FiniteSets, FiniteSetsExt, SequencesExt, Functions

CONSTANTS
  GroupNames,        \* names a role group is asked for
  Specs,             \* custom resources: [defaults, role, groups]
  Arguments,         \* JVM arguments
  OperatorArgs,      \* those the operator generates
  FileKeys, FileValues, \* what a JSON document consists of
  OperatorFile,      \* the one the operator generates
  EnvNames,          \* names of environment variables in their order, as numbers
  OperatorEnv,       \* the environment variables the operator sets
  Matches,           \* [pattern |-> the arguments its anchored form matches]
  InvalidPatterns,   \* strings that are not a regular expression
  InvalidEnvNames,   \* those that are not an EnvVarName
  MaxRecursionDepth, \* ENV_VAR_DEPENDENCY_RESOLVER_MAX_RECURSION_DEPTH
  Null               \* JSON null

\* What a user can write at a role and at each role group.
JvmOverrides ==
  [add : Seq(Arguments), remove : SUBSET Arguments,
   remove_regex : SUBSET DOMAIN Matches, preceding_overrides : {<<>>}]

Files == MapsFrom(FileKeys, FileValues)

PatchOperations ==
  [op : {"add", "replace", "remove", "unparsable"}, key : FileKeys, value : FileValues]

FileOverrides ==
  [kind : {"JsonMergePatch", "UserProvided", "KeyValue"}, doc : Files]
    \cup [kind : {"JsonPatch"}, ops : Seq(PatchOperations)]

\* An environment variable is the set of the names its value refers to with
\* $(NAME), or None when its value comes from elsewhere.
IsEnvVars(env) == IsMap(env, EnvNames, {None} \cup SUBSET EnvNames)

ASSUME RoleConfigAssumption ==
  /\ MaxRecursionDepth \in Nat
  /\ OperatorArgs \in Seq(Arguments)
  /\ OperatorFile \in Files
  /\ EnvNames \subseteq Nat /\ IsFiniteSet(EnvNames) /\ \A names \in SUBSET EnvNames : names # None
  /\ IsEnvVars(OperatorEnv)
  /\ IsFiniteSet(GroupNames)
  /\ \A s \in Specs :
       /\ IsLogging(s.defaults)
       /\ DOMAIN s.groups \subseteq GroupNames
       /\ \A layer \in {s.role} \cup {s.groups[g] : g \in DOMAIN s.groups} :
            /\ IsLogging(layer.logging)
            /\ layer.jvm \in JvmOverrides
            /\ layer.config \in FileOverrides
            /\ IsEnvVars(layer.env)
            /\ layer.replicas \in Nat \cup {None}
  /\ None \notin Nat

VARIABLES
  spec,       \* the custom resource and the operator's defaults
  merged,     \* what the first generation made of each role group
  validated   \* what the second generation made of each role group

roleVars == <<spec, merged, validated>>

NotYet == [ok |-> FALSE, error |-> "NotYet"]

-----------------------------------------------------------------------------
(* JVM argument overrides, first generation.                                *)

RemovedBy(overrides) ==
  overrides.remove \cup UNION {Matches[r] : r \in overrides.remove_regex}

\* What is left of the first arguments, for each number of them.
Retained(args, removed) ==
  LET kept[i \in 0..Len(args)] ==
        IF i = 0 THEN <<>>
        ELSE IF args[i] \in removed THEN kept[i - 1] ELSE Append(kept[i - 1], args[i])
  IN  kept

\* Vec::retain
retain(args, removed) == Retained(args, removed)[Len(args)]

try_merge(self, defaults) ==
  IF self.remove_regex \cap InvalidPatterns # {}
  THEN Err("InvalidRemoveRegex")
  ELSE Ok([self EXCEPT
             !.add = retain(defaults.add, RemovedBy(self)) \o @,
             !.remove = {},
             !.remove_regex = {}])

new_with_only_additions(args) ==
  [add |-> args, remove |-> {}, remove_regex |-> {}, preceding_overrides |-> <<>>]

\* Mutant: the usual merge order, the role into the role group first.
get_merged_jvm_argument_overrides_UsualOrder(role_group) ==
  IF role_group \notin DOMAIN spec.groups THEN Err("MissingRoleGroup")
  ELSE LET from_group == try_merge(spec.groups[role_group].jvm, spec.role.jvm)
       IN  IF ~from_group.ok THEN from_group
           ELSE try_merge(from_group.value, new_with_only_additions(OperatorArgs))

get_merged_jvm_argument_overrides(role_group) ==
  IF role_group \notin DOMAIN spec.groups THEN Err("MissingRoleGroup")
  ELSE LET from_role == try_merge(spec.role.jvm, new_with_only_additions(OperatorArgs))
       IN  IF ~from_role.ok THEN from_role
           ELSE try_merge(spec.groups[role_group].jvm, from_role.value)

-----------------------------------------------------------------------------
(* JVM argument overrides, second generation.                               *)

merge_jvm(self, defaults) ==
  [self EXCEPT !.preceding_overrides = Append(@, defaults)]

ApplyOwn(self, args) ==
  retain(args, RemovedBy(self)) \o self.add

\* The preceding overrides are applied first, the last of them before the
\* others.  The recursion is unrolled to the depth that three merged layers
\* reach: the overrides before Flat ones have no preceding ones themselves.
AppliedOwn(before, args) ==
  LET done[i \in 0..Len(before)] ==
        IF i = 0 THEN args ELSE ApplyOwn(before[Len(before) - i + 1], done[i - 1])
  IN  done

ApplyFlat(self, args) ==
  ApplyOwn(self, AppliedOwn(self.preceding_overrides, args)[Len(self.preceding_overrides)])

AppliedFlat(before, args) ==
  LET done[i \in 0..Len(before)] ==
        IF i = 0 THEN args ELSE ApplyFlat(before[Len(before) - i + 1], done[i - 1])
  IN  done

apply_to(self, args) ==
  ApplyOwn(self, AppliedFlat(self.preceding_overrides, args)[Len(self.preceding_overrides)])

-----------------------------------------------------------------------------
(* Overrides of a JSON file.  Documents are flat: a function from keys.     *)

\* DeepMerge for serde_json::Value and json_patch::merge (RFC 7396).
MergePatch(doc, patch) ==
  LET removed == {k \in DOMAIN patch : patch[k] = Null}
  IN  [k \in (DOMAIN doc \cup DOMAIN patch) \ removed |->
         IF k \in DOMAIN patch THEN patch[k] ELSE doc[k]]

\* json_patch::patch (RFC 6902): operations in order, all or nothing.
PatchStep(result, op) ==
  IF ~result.ok THEN result
  ELSE LET doc == result.value
       IN  IF op.op # "add" /\ op.key \notin DOMAIN doc THEN Err("ApplyJsonPatch")
           ELSE IF op.op = "remove" THEN Ok([k \in DOMAIN doc \ {op.key} |-> doc[k]])
           ELSE Ok([k \in DOMAIN doc \cup {op.key} |->
                      IF k = op.key THEN op.value ELSE doc[k]])

Patched(doc, ops) ==
  LET done[i \in 0..Len(ops)] == IF i = 0 THEN Ok(doc) ELSE PatchStep(done[i - 1], ops[i])
  IN  done

Patch(doc, ops) == Patched(doc, ops)[Len(ops)]

\* First generation: operations are strings that are parsed here, and a patch
\* that does not apply is an error.
apply_v1(overrides, base) ==
  CASE overrides.kind = "JsonMergePatch" -> Ok(MergePatch(base, overrides.doc))
    [] overrides.kind = "UserProvided" -> Ok(overrides.doc)
    [] overrides.kind = "JsonPatch" ->
         IF \E i \in DOMAIN overrides.ops : overrides.ops[i].op = "unparsable"
         THEN Err("DeserializeJsonPatchOperation")
         ELSE Patch(base, overrides.ops)

\* Second generation, for the variants a user can write: a patch that does not
\* apply leaves the document as it was.
ApplyOne(overrides, base) ==
  CASE overrides.kind = "JsonMergePatch" -> MergePatch(base, overrides.doc)
    [] overrides.kind = "UserProvided" -> overrides.doc
    [] overrides.kind = "JsonPatch" ->
         LET patched == Patch(base, overrides.ops)
         IN  IF patched.ok THEN patched.value ELSE base

AsSequence(overrides) ==
  IF overrides.kind = "Sequence" THEN overrides.items ELSE <<overrides>>

\* A sequence starts with the latest override, and its elements are not
\* sequences (ConfigOverridesLayered).
Applied(items, base) ==
  LET done[i \in 0..Len(items)] ==
        IF i = 0 THEN base ELSE ApplyOne(items[Len(items) - i + 1], done[i - 1])
  IN  done

apply(overrides, base) ==
  LET items == AsSequence(overrides)
  IN  Applied(items, base)[Len(items)]

DefaultOverrides == [kind |-> "JsonMergePatch", doc |-> <<>>]

\* From<JsonOrKeyValueConfigOverrides> for JsonConfigOverrides
into_json(overrides) ==
  IF overrides.kind = "KeyValue"
  THEN [kind |-> "JsonMergePatch", doc |-> overrides.doc]
  ELSE overrides

\* Mutant: the wider layer is taken for the latest override.
merge_config_overrides_Swapped(self, defaults) ==
  [kind |-> "Sequence",
   items |-> AsSequence(into_json(defaults)) \o AsSequence(into_json(self))]

\* Merge for JsonOrKeyValueConfigOverrides and for JsonConfigOverrides
merge_config_overrides(self, defaults) ==
  [kind |-> "Sequence",
   items |-> AsSequence(into_json(self)) \o AsSequence(into_json(defaults))]

\* BTreeMap::extend: KeyValueConfigOverrides, EnvOverrides, EnvVarSet::merge
\* and the command line overrides.
extend(self, other) ==
  [k \in DOMAIN self \cup DOMAIN other |->
     IF k \in DOMAIN other THEN other[k] ELSE self[k]]

\* DeepMerge for PodTemplateSpec, on the fields the overrides set: the argument
\* wins over the receiver.
merge_from(self, other) == extend(self, other)

-----------------------------------------------------------------------------
(* Environment variables.  A variable is the set of the names its value     *)
(* refers to with $(NAME), or None when its value comes from elsewhere.     *)

referenced_env_vars(env_vars, value) == value \cap DOMAIN env_vars

\* The names a variable refers to, directly or through others, for each depth;
\* None when a cycle is reached or the depth is exhausted.
Closures(env_vars) ==
  LET closure[depth \in 0..MaxRecursionDepth] ==
        [name \in DOMAIN env_vars |->
           IF env_vars[name] = None THEN {}
           ELSE IF depth = 0 THEN None
           ELSE LET refs == referenced_env_vars(env_vars, env_vars[name])
                IN  IF \E r \in refs : closure[depth - 1][r] = None THEN None
                    ELSE refs \cup UNION {closure[depth - 1][r] : r \in refs}]
  IN  closure

calculate_closure(env_vars) == Closures(env_vars)[MaxRecursionDepth]

\* The elements of a sort key; the key lists them in descending order.
sort_key(env_vars, name) ==
  LET closure == calculate_closure(env_vars)[name]
  IN  IF closure = None THEN {name} ELSE closure \cup {name}

\* Mutant: the names of a key are listed in ascending order.
KeyLess_Ascending(s, t) ==
  \/ \E m \in s \ t : (\A x \in t \ s : m < x) /\ \E x \in t : m < x
  \/ \E m \in t \ s : (\A x \in s \ t : m < x) /\ \A x \in s : x < m

\* Lexicographic order of two descending lists: they agree down to the greatest
\* element that only one of them has, and the list that has it is greater.
KeyLess(s, t) == \E m \in t \ s : \A x \in s \ t : x < m

\* IntoIterator: the order in which the variables are put into the container.
into_iter(env_vars) ==
  LET key == [n \in DOMAIN env_vars |-> sort_key(env_vars, n)]
      before(n) == {m \in DOMAIN env_vars : KeyLess(key[m], key[n])}
  IN  [i \in 1..Cardinality(DOMAIN env_vars) |->
         CHOOSE n \in DOMAIN env_vars : Cardinality(before(n)) = i - 1]

-----------------------------------------------------------------------------
(* Replicas.                                                                *)

\* The replicas of the first role groups, for each number of them, in the order
\* in which the map of role groups gives them.
Summed(replicas) ==
  LET order == SetToSeq(DOMAIN replicas)
      total[i \in 0..Cardinality(DOMAIN replicas)] ==
        IF i = 0 THEN 0 ELSE total[i - 1] + replicas[order[i]]
  IN  total

\* Iterator::sum
sum(replicas) == Summed(replicas)[Cardinality(DOMAIN replicas)]

\* Sum for Option: None as soon as one element is None.
fixed_replica_count(replicas, zero_replicas_counting) ==
  LET Counted(g) == IF replicas[g] = 0 /\ zero_replicas_counting = "TreatAsNone"
                    THEN None ELSE replicas[g]
  IN  IF zero_replicas_counting = "TreatAsNone" /\ DOMAIN replicas = {} THEN None
      ELSE IF \E g \in DOMAIN replicas : Counted(g) = None THEN None
      ELSE sum(replicas)

estimated_replica_count(replicas) ==
  sum([g \in DOMAIN replicas |-> merge_option(replicas[g], 1)])

-----------------------------------------------------------------------------
(* Operations.                                                              *)

\* RoleGroup::validate_config, the same in both generations.
validate_config(role_group) ==
  LET role_config == merge_logging(spec.role.logging, spec.defaults)
  IN  validate(merge_logging(spec.groups[role_group].logging, role_config))

\* What deserializing the custom resource checks in the second generation: the
\* patterns, the names of environment variables and the patch operations of
\* the role and of every role group.
Deserializes ==
  \A layer \in {spec.role} \cup Range(spec.groups) :
    /\ layer.jvm.remove_regex \cap InvalidPatterns = {}
    /\ DOMAIN layer.env \cap InvalidEnvNames = {}
    /\ layer.config.kind = "JsonPatch" =>
         \A i \in DOMAIN layer.config.ops : layer.config.ops[i].op # "unparsable"

with_validated_config(role_group) ==
  LET role   == spec.role
      group  == spec.groups[role_group]
      config == validate_config(role_group)
  IN  IF ~config.ok THEN config
      ELSE Ok([logging |-> config.value,
               config  |-> merge_config_overrides(group.config, role.config),
               env     |-> extend(role.env, group.env),
               cli     |-> extend(role.cli, group.cli),
               pod     |-> merge_from(role.pod, group.pod),
               jvm     |-> merge_jvm(group.jvm, role.jvm),
               replicas |-> group.replicas])

\* The first generation handles one role group.
Merge(role_group) ==
  /\ merged' = [merged EXCEPT ![role_group] =
       [logging |-> IF role_group \in DOMAIN spec.groups
                    THEN validate_config(role_group) ELSE Err("MissingRoleGroup"),
        jvm     |-> get_merged_jvm_argument_overrides(role_group)]]
  /\ UNCHANGED <<spec, validated>>

\* The second generation handles one role group; it cannot start on a custom
\* resource that does not deserialize.
Validate(role_group) ==
  /\ role_group \in DOMAIN spec.groups
  /\ validated' = [validated EXCEPT ![role_group] =
       IF Deserializes THEN with_validated_config(role_group) ELSE Err("Deserialize")]
  /\ UNCHANGED <<spec, merged>>

RoleInit ==
  /\ spec \in Specs
  /\ merged = [g \in GroupNames |-> [logging |-> NotYet, jvm |-> NotYet]]
  /\ validated = [g \in GroupNames |-> NotYet]

RoleNext == \E g \in GroupNames : Merge(g) \/ Validate(g)

RoleSpec == RoleInit /\ [][RoleNext]_roleVars
-----------------------------------------------------------------------------
(* Properties.                                                              *)

Groups == DOMAIN spec.groups

\* Options by their place, the tightest layer first: the first one that is set.
FirstSet(options) ==
  LET set == {i \in DOMAIN options : options[i] # None}
  IN  IF set = {} THEN None ELSE options[Min(set)]

\* What the layers say about a container, the tightest first.
Said(g, c) ==
  LET layers == <<spec.groups[g].logging, spec.role.logging, spec.defaults>>
  IN  [i \in 1..3 |-> IF c \in DOMAIN layers[i].containers THEN layers[i].containers[c] ELSE None]

\* The layers that count: a choice hides all wider ones from the first that is
\* of the other variant.
Visible(said) ==
  {i \in 1..3 : /\ said[i] # None
                /\ \A j \in 1..i : said[j] # None => said[j].variant = said[i].variant}

ExpectedAppender(appenders) ==
  LET set == {i \in DOMAIN appenders : appenders[i] # None}
  IN  IF set = {} THEN None ELSE [level |-> FirstSet([i \in set |-> appenders[i].level])]

ExpectedChoice(said) ==
  LET visible == Visible(said)
  IN  IF visible = {} THEN None
      ELSE IF said[Min(visible)].variant = "Custom"
      THEN [variant |-> "Custom", config_map |-> FirstSet([i \in visible |-> said[i].config_map])]
      ELSE [variant |-> "Automatic",
            loggers |-> [l \in UNION {DOMAIN said[i].loggers : i \in visible} |->
                           FirstSet([i \in {j \in visible : l \in DOMAIN said[j].loggers} |->
                                       said[i].loggers[l]])],
            console |-> ExpectedAppender([i \in visible |-> said[i].console]),
            file    |-> ExpectedAppender([i \in visible |-> said[i].file])]

\* A role group wins over its role and the role over the operator's defaults,
\* at every depth of the configuration: each logger and appender has the level
\* of the tightest layer that sets it, among the layers not hidden by a
\* container configured the other way (custom or automatic).  Validation fails
\* exactly when a required field is set by none of them, and then names one.
LoggingPrecedence ==
  \A g \in Groups :
    LET got    == merged[g].logging
        flag   == FirstSet(<<spec.groups[g].logging.enable_vector_agent,
                             spec.role.logging.enable_vector_agent,
                             spec.defaults.enable_vector_agent>>)
        failing == {c \in Containers : UnsetInChoice(ExpectedChoice(Said(g, c))) # {}}
    IN  got # NotYet =>
          IF got.ok
          THEN /\ flag # None /\ failing = {}
               /\ got.value.enable_vector_agent = flag
               /\ DOMAIN got.value.containers =
                    DOMAIN spec.groups[g].logging.containers
                      \cup DOMAIN spec.role.logging.containers
                      \cup DOMAIN spec.defaults.containers
               /\ \A c \in DOMAIN got.value.containers :
                    got.value.containers[c] = ExpectedChoice(Said(g, c))
          ELSE IF flag = None THEN got.error = <<"enable_vector_agent">>
          ELSE /\ got.error[2] \in failing
               /\ SubSeq(got.error, 3, Len(got.error))
                    \in UnsetInChoice(ExpectedChoice(Said(g, got.error[2])))

\* With the default configuration for all containers as the operator's default,
\* no role or role group can leave a container without a configuration: the
\* error that validate_logging_configuration_for_container comments with "This
\* should never happen" does not happen.
EveryContainerConfigured ==
  \A g \in Groups :
    (spec.defaults = default_logging /\ merged[g].logging.ok) =>
      \A c \in Containers :
        LET choice == validate_logging_configuration_for_container(
                        merged[g].logging.value, c)
        IN  IF choice.ok
            THEN None \notin Range(vector_container(choice.value))
            ELSE choice.error = "ParseContainerName"

\* The arguments the JVM should get: the operator's ones that neither level
\* removes, the role's that the role group does not remove, the role group's.
ExpectedArgs(g) ==
  LET role  == spec.role.jvm
      group == spec.groups[g].jvm
  IN  retain(OperatorArgs, RemovedBy(role) \cup RemovedBy(group))
        \o retain(role.add, RemovedBy(group))
        \o group.add

\* Merging JVM arguments eagerly (first generation) and applying the role's
\* overrides before the role group's (second generation) give the same
\* arguments.  The eager merge leaves no removal behind, on which
\* effective_jvm_config_after_merging would panic, and fails exactly for a bad
\* pattern of the role or of the role group.
JvmGenerationsAgree ==
  \A g \in Groups :
    /\ merged[g].jvm.ok =>
         /\ merged[g].jvm.value.remove = {}
         /\ merged[g].jvm.value.remove_regex = {}
         /\ merged[g].jvm.value.add = ExpectedArgs(g)
    /\ merged[g].jvm # NotYet =>
         (merged[g].jvm.ok <=>
            (spec.role.jvm.remove_regex \cup spec.groups[g].jvm.remove_regex)
               \cap InvalidPatterns = {})
    /\ validated[g].ok =>
         apply_to(validated[g].value.jvm, OperatorArgs) = ExpectedArgs(g)

\* How three layers of JVM overrides are combined does not matter: merging the
\* widest into the middle one first, or the middle one into the tightest first,
\* gives the same arguments (the order of preceding_overrides and its reversal
\* in apply_to fit together).
PrecedingOverridesCompose ==
  \A g, h \in Groups :
    LET tight == spec.groups[g].jvm
        mid   == spec.role.jvm
        wide  == spec.groups[h].jvm
    IN  Deserializes =>
          apply_to(merge_jvm(merge_jvm(tight, mid), wide), OperatorArgs)
            = apply_to(merge_jvm(tight, merge_jvm(mid, wide)), OperatorArgs)

\* The file a role group gets is the operator's file with the role's override
\* applied first and the role group's second.  An override of the role that
\* does not apply does not keep the role group's from being applied, the
\* default override changes nothing, a document provided by the role group
\* hides everything below, and where the first generation accepts an override
\* the second gives the same document.  Merging never nests sequences.  Command
\* line and Pod overrides are those of the role group completed by the role's,
\* although they are merged in the opposite direction.
ConfigOverridesLayered ==
  \A g \in Groups :
    validated[g].ok =>
      LET role  == into_json(spec.role.config)
          group == into_json(spec.groups[g].config)
          both  == validated[g].value.config
          file  == apply(both, OperatorFile)
          first == apply_v1(role, OperatorFile)
      IN  /\ \A i \in DOMAIN both.items : both.items[i].kind # "Sequence"
          /\ group.kind = "UserProvided" => file = group.doc
          /\ (group = DefaultOverrides /\ first.ok) => file = first.value
          /\ (first.ok /\ apply_v1(group, first.value).ok) =>
               file = apply_v1(group, first.value).value
          /\ ~first.ok => file = apply(group, OperatorFile)
          /\ apply(merge_config_overrides(both, DefaultOverrides), OperatorFile) = file
          /\ \A section \in {"cli", "pod"} :
               LET tight == spec.groups[g][section]
                   wide  == spec.role[section]
               IN  validated[g].value[section] =
                     [k \in DOMAIN wide \cup DOMAIN tight |->
                        IF k \in DOMAIN tight THEN tight[k] ELSE wide[k]]

\* In the container, a variable comes after every variable its value refers
\* to, which is what Kubernetes needs to expand the reference, and every
\* variable appears once with the value of the tightest layer.  Variables that
\* reach a cycle, or a chain longer than the limit, are the exception.
ReferencesComeFirst ==
  \A g \in Groups :
    validated[g].ok =>
      LET env     == extend(OperatorEnv, validated[g].value.env)
          order   == into_iter(env)
          closure == calculate_closure(env)
          at(n)   == CHOOSE i \in DOMAIN order : order[i] = n
      IN  /\ Len(order) = Cardinality(DOMAIN env) /\ Range(order) = DOMAIN env
          /\ \A n \in DOMAIN spec.groups[g].env : env[n] = spec.groups[g].env[n]
          /\ \A n \in DOMAIN env : closure[n] # None =>
               /\ n \notin closure[n]
               /\ \A r \in closure[n] : at(r) < at(n)

\* A replica count that is reported as fixed is the number of replicas the role
\* groups ask for together; when zeros count as unset it is never 0 and no role
\* group is left without replicas.
ReplicaCountsAgree ==
  LET replicas == [g \in Groups |-> spec.groups[g].replicas]
      zero     == fixed_replica_count(replicas, "TreatAsZero")
      unset    == fixed_replica_count(replicas, "TreatAsNone")
  IN  /\ zero # None => zero = estimated_replica_count(replicas)
      /\ unset # None => unset = zero /\ unset >= Cardinality(Groups) /\ unset > 0
      /\ (zero # None /\ unset = None) => Groups = {} \/ \E g \in Groups : replicas[g] = 0
      /\ zero = None => \E g \in Groups : replicas[g] = None

\* Whatever is set at several layers, the tightest one wins, at every depth and
\* for every kind of setting, and no layer removes what the others need.
TightestLayerWins == LoggingPrecedence /\ EveryContainerConfigured /\ ConfigOverridesLayered

\* Both generations of the code make the same of a role and its role groups.
GenerationsAgree == JvmGenerationsAgree /\ PrecedingOverridesCompose /\ ReplicaCountsAgree

=============================================================================
