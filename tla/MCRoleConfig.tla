----------------------------- MODULE MCRoleConfig -----------------------------
(* Custom resources for RoleConfig.  One section is varied over all its      *)
(* layers while the others stay empty: the sections are merged separately.   *)
EXTENDS RoleConfig

CONSTANTS g1, g2, WARN

BadName == "not a name"

-----------------------------------------------------------------------------
Auto(loggers, console, file) ==
  [variant |-> "Automatic", loggers |-> loggers, console |-> console, file |-> file]
Cust(config_map) == [variant |-> "Custom", config_map |-> config_map]

ContainerChoices ==
  {Cust(None), Cust("cm"), Cust(BadName), None,
   Auto(<<>>, None, None),
   Auto(ROOT :> WARN, [level |-> WARN], None),
   Auto(ROOT :> None, [level |-> None], [level |-> None]),
   Auto(2 :> WARN @@ 3 :> None, None, [level |-> WARN])}

Sections(choices) ==
  {[enable_vector_agent |-> flag, containers |-> containers] :
     flag \in {None, TRUE},
     containers \in {<<>>} \cup [{1} -> choices] \cup [{1, 2} -> {Cust("cm"), Cust(None)}]}

Loggings == Sections(ContainerChoices)
Defaults ==
  {default_logging,
   [enable_vector_agent |-> None, containers |-> 1 :> Auto(2 :> INFO, None, [level |-> INFO])],
   [enable_vector_agent |-> FALSE, containers |-> 1 :> Cust("cm") @@ 2 :> None]}

-----------------------------------------------------------------------------
MatchesHere == "a.*" :> {"a"} @@ "[ab]" :> {"a", "b"} @@ "(" :> {}
Jvms ==
  {[add |-> add, remove |-> remove, remove_regex |-> regex, preceding_overrides |-> <<>>] :
     add \in {<<>>, <<"a">>, <<"b", "a">>}, remove \in {{}, {"b"}},
     regex \in {{}, {"a.*"}, {"(", "[ab]"}}}
ArgsHere == <<"b", "a", "c">>
NoJvm == new_with_only_additions(<<>>)

-----------------------------------------------------------------------------
FileHere == "x" :> 1
Op(op, key, value) == [op |-> op, key |-> key, value |-> value]
JsonPatch(ops) == [kind |-> "JsonPatch", ops |-> ops]
Document(kind, doc) == [kind |-> kind, doc |-> doc]
Configs ==
  {DefaultOverrides,
   Document("JsonMergePatch", "x" :> 2 @@ "y" :> 2),
   Document("JsonMergePatch", "x" :> Null @@ "y" :> 3),
   Document("UserProvided", "y" :> 4),
   Document("KeyValue", "x" :> 5),
   JsonPatch(<<Op("replace", "x", 6)>>),
   JsonPatch(<<Op("replace", "y", 7), Op("remove", "y", Null), Op("add", "z", 7)>>),
   JsonPatch(<<Op("replace", "x", 8), Op("remove", "z", Null)>>),
   JsonPatch(<<Op("unparsable", "x", Null)>>)}

-----------------------------------------------------------------------------
\* 0 is not a valid name; 2 is set from a field.
EnvHere == 2 :> None
Envs(sets) ==
  UNION {[names -> {{}, {1}, {1, 4}, {2}, {3, 5}}] : names \in sets}
    \cup {0 :> {}, 2 :> {3}}

-----------------------------------------------------------------------------
CliOptions == {<<>>, "k" :> 1, "k" :> 2 @@ "l" :> 2, "l" :> 3}
Layer == [logging |-> [enable_vector_agent |-> None, containers |-> <<>>], jvm |-> NoJvm,
          config |-> DefaultOverrides, env |-> <<>>, cli |-> <<>>, pod |-> <<>>, replicas |-> None]
Resource(role, groups) == [defaults |-> default_logging, role |-> role, groups |-> groups]

SpecsHere ==
  {[Resource([Layer EXCEPT !.logging = r], g1 :> [Layer EXCEPT !.logging = l])
      EXCEPT !.defaults = d] : r \in Loggings, l \in Loggings, d \in Defaults}
  \cup {Resource([Layer EXCEPT !.jvm = r], g1 :> [Layer EXCEPT !.jvm = l] @@ g2 :> [Layer EXCEPT !.jvm = m]) :
          r \in Jvms, l \in Jvms, m \in {o \in Jvms : o.add = <<"b", "a">> /\ o.remove = {}}}
  \cup {Resource([Layer EXCEPT !.config = r], g1 :> [Layer EXCEPT !.config = l]) :
          r \in Configs, l \in Configs}
  \cup {Resource([Layer EXCEPT !.env = r], g1 :> [Layer EXCEPT !.env = l]) :
          r \in Envs({{}, {1}, {3, 4}}), l \in Envs({{}, {1}, {1, 3}, {3, 4}, {1, 4}})}
  \cup {Resource([Layer EXCEPT !.cli = r, !.pod = l], g1 :> [Layer EXCEPT !.cli = l, !.pod = r]) :
          r \in CliOptions, l \in CliOptions}
  \cup {Resource(Layer, [g \in names |-> [Layer EXCEPT !.replicas = n[g]]]) :
          names \in SUBSET {g1, g2}, n \in [{g1, g2} -> {None, 0, 1, 3}]}
=============================================================================
