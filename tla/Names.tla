-------------------------------- MODULE Names --------------------------------
(***************************************************************************)
(* Names, labels and selectors: the validators for names, the string types  *)
(* generated by attributed_string_type! with their CRD schema, names that   *)
(* are composed and shortened, keys and labels, label selectors, object     *)
(* metadata and the RBAC objects named after a cluster.                     *)
(*                                                                          *)
(* A text is a sequence of characters, one for each class the validators    *)
(* tell apart: "a" and "A" for letters, "1" for digits, "-", "_", ".", "/", *)
(* ":", " ", "=" and "e" for a letter outside ASCII, which takes two bytes. *)
(* The length limits are constants; the values TLC uses are scaled down.    *)
(***************************************************************************)
EXTENDS Options, Naturals, Sequences, SequencesExt, FiniteSets, Functions, TLC

CONSTANTS
  LabelMax,            \* RFC_1123_LABEL_MAX_LENGTH, RFC_1035_LABEL_MAX_LENGTH, LABEL_VALUE_MAX_LEN
  SubdomainMax,        \* RFC_1123_SUBDOMAIN_MAX_LENGTH, KEY_PREFIX_MAX_LEN
  ClusterNameMax, ProductNameMax, QualifiedMax,
  RevisionDigits,      \* digits of the controller-revision-hash label
  UidLength,           \* uuid::fmt::Hyphenated::LENGTH
  HashLength,          \* of shortened resource names
  KeyHashLength,       \* of shortened keys
  Headless, Metrics, ServiceAccountSuffix, RoleBindingSuffix, ClusterRoleSuffix, OperatorSuffix,
  ParseTexts,          \* texts given to the string types
  KeyTexts,            \* texts given to Key::from_str and new_trimmed
  KeyPrefixes,         \* valid prefixes given to new_trimmed
  ClusterNames, RoleNames, RoleGroupNames,   \* valid names of a cluster and its role groups
  ProductNames,        \* valid names of products
  Images,              \* ProductImages: [custom, product_version, stackable_version, repo]
  ImageNames, Repositories,                  \* of the operator's own images
  Operators,           \* versions of the operator: [version, pull_request]
  LabelInputs,         \* ObjectLabels
  Selectors, LabelMaps,                      \* LabelSelectors and the labels they are tried on
  Owners,              \* [name, namespace, uid]
  MetaCalls, MaxMetaCalls,                   \* calls of the ObjectMetaBuilder
  NamePanic

\* The const assertions of role_group_utils.rs, role_utils.rs and cluster_resources.rs.
ASSUME NameLengths ==
  /\ {LabelMax, SubdomainMax, ClusterNameMax, ProductNameMax, QualifiedMax,
      RevisionDigits, UidLength, HashLength, KeyHashLength} \subseteq Nat
  /\ HashLength > 0 /\ KeyHashLength > 0 /\ LabelMax <= SubdomainMax
  /\ ClusterNameMax + 1 + HashLength <= QualifiedMax
  /\ QualifiedMax <= LabelMax - 1 - RevisionDigits
  /\ QualifiedMax + Len(Headless) <= LabelMax /\ QualifiedMax + Len(Metrics) <= LabelMax
  /\ ClusterNameMax + Len(ServiceAccountSuffix) <= SubdomainMax
  /\ ClusterNameMax + Len(RoleBindingSuffix) <= SubdomainMax
  /\ ProductNameMax + Len(ClusterRoleSuffix) <= SubdomainMax
  /\ ProductNameMax + Len(OperatorSuffix) <= LabelMax
  /\ 2 + HashLength <= QualifiedMax /\ 2 + KeyHashLength <= LabelMax

VARIABLES named,       \* what was named and the result
          metaBuilder  \* the calls of an ObjectMetaBuilder and its state

namesVars == <<named, metaBuilder>>

Characters == {"a", "A", "1", "-", "_", ".", "/", ":", " ", "=", "e"}

Bytes(text) == Len(text) + Cardinality({i \in DOMAIN text : text[i] = "e"})
IsAscii(text) == "e" \notin Range(text)

Letter == {"a", "A"}
Lower == {"a", "1"}
AlNum == {"a", "A", "1"}

-----------------------------------------------------------------------------
(* The validators                                                            *)

\* [first]([middle]*[last])?
Framed(text, first, middle, last) ==
  /\ text # <<>> /\ text[1] \in first
  /\ Len(text) > 1 => Last(text) \in last /\ \A i \in 2..Len(text) - 1 : text[i] \in middle

\* str::split
SplitNext(parts, c, separator) ==
  IF c = separator THEN Append(parts, <<>>) ELSE Append(Front(parts), Append(Last(parts), c))

PartsUpTo(text, separator) ==
  LET parts[n \in 0..Len(text)] ==
        IF n = 0 THEN << <<>> >> ELSE SplitNext(parts[n - 1], text[n], separator)
  IN  parts

Split(text, separator) == PartsUpTo(text, separator)[Len(text)]

Rfc1123Label(text) == Framed(text, Lower, Lower \cup {"-"}, Lower)
Rfc1035Label(text) == Framed(text, {"a"}, Lower \cup {"-"}, Lower)
Rfc1123Subdomain(text) == \A part \in Range(Split(text, ".")) : Rfc1123Label(part)
LABEL_VALUE_REGEX(text) == Framed(text, AlNum, AlNum \cup {"-", "_", "."}, AlNum)

validate_all(text, max, matches) == Bytes(text) <= max /\ matches

is_lowercase_rfc_1123_label(text) == validate_all(text, LabelMax, Rfc1123Label(text))
is_lowercase_rfc_1123_subdomain(text) == validate_all(text, SubdomainMax, Rfc1123Subdomain(text))
is_lowercase_rfc_1035_label(text) == validate_all(text, LabelMax, Rfc1035Label(text))

\* The domain of a cluster: labels in either case, one dot may follow.
is_domain(text) ==
  LET labels == Split(IF text # <<>> /\ Last(text) = "." THEN Front(text) ELSE text, ".")
  IN  validate_all(text, SubdomainMax,
                   \A part \in Range(labels) : Framed(part, AlNum, AlNum \cup {"-"}, AlNum))

LabelValue(text) ==
  CASE Bytes(text) > LabelMax -> Err("ValueTooLong")
    [] Bytes(text) <= LabelMax /\ ~IsAscii(text) -> Err("ValueNotAscii")
    [] OTHER -> IF LABEL_VALUE_REGEX(text) THEN Ok(text) ELSE Err("ValueInvalid")

\* uuid::Uuid::try_parse, of the forms that are label values: with or without hyphens.
IsUuid(text) ==
  \/ Len(text) = UidLength /\ \A i \in DOMAIN text : text[i] \in (IF i = 2 THEN {"-"} ELSE AlNum)
  \/ Len(text) = UidLength - 1 /\ Range(text) \subseteq AlNum

-----------------------------------------------------------------------------
(* attributed_string_type!                                                   *)

Attribute(kind, value) == [kind |-> kind, value |-> value]
Is(kind) == Attribute(kind, None)

NameTypes ==
  LET subdomain == <<Is("is_rfc_1123_dns_subdomain_name")>>
      label == <<Is("is_rfc_1123_label_name")>>
      key == <<Attribute("min_length", 1), Attribute("max_length", SubdomainMax),
               Attribute("regex", "config_key")>>
      hostname == <<Attribute("min_length", 1), Attribute("max_length", SubdomainMax),
                    Attribute("regex", "hostname")>>
      volume == <<Is("is_rfc_1123_label_name"), Is("is_valid_label_value")>>
      service == <<Is("is_rfc_1035_label_name"), Is("is_valid_label_value")>>
      statefulSet == <<Attribute("max_length", LabelMax - 1 - RevisionDigits),
                       Is("is_rfc_1123_label_name"), Is("is_valid_label_value")>>
      uid == <<Is("is_uid"), Is("is_valid_label_value")>>
  IN  [ConfigMapName |-> subdomain, ConfigMapKey |-> key, ContainerName |-> label,
       ClusterRoleName |-> subdomain, DaemonSetName |-> subdomain, DeploymentName |-> label,
       Hostname |-> hostname, ListenerName |-> subdomain, ListenerClassName |-> subdomain,
       NamespaceName |-> volume, PersistentVolumeClaimName |-> subdomain,
       RoleBindingName |-> subdomain, SecretClassName |-> subdomain, SecretKey |-> key,
       SecretName |-> subdomain, ServiceAccountName |-> subdomain, ServiceName |-> service,
       StatefulSetName |-> statefulSet, Uid |-> uid, VolumeName |-> volume]

OperatorNameTypes ==
  LET labelValue == <<Is("is_valid_label_value")>>
      role == <<Is("is_rfc_1123_label_name"), Is("is_valid_label_value")>>
  IN  [ProductName |-> <<Attribute("max_length", ProductNameMax),
                         Is("is_rfc_1123_dns_subdomain_name"), Is("is_valid_label_value")>>,
       ProductVersion |-> labelValue,
       ClusterName |-> <<Attribute("max_length", ClusterNameMax),
                         Is("is_rfc_1035_label_name"), Is("is_valid_label_value")>>,
       ControllerName |-> labelValue, OperatorName |-> labelValue,
       RoleGroupName |-> role, RoleName |-> role]

QualifiedRoleGroupName ==
  <<Attribute("max_length", QualifiedMax), Is("is_rfc_1035_label_name"), Is("is_valid_label_value")>>

EnvVarName == <<Attribute("min_length", 1), Attribute("regex", "env_var")>>

TypeNames ==
  DOMAIN NameTypes \cup DOMAIN OperatorNameTypes \cup {"QualifiedRoleGroupName", "EnvVarName"}

AttributesOf(type) ==
  CASE type \in DOMAIN NameTypes -> NameTypes[type]
    [] type \in DOMAIN OperatorNameTypes -> OperatorNameTypes[type]
    [] type = "QualifiedRoleGroupName" -> QualifiedRoleGroupName
    [] type = "EnvVarName" -> EnvVarName

\* usize::MAX; no text in the model is longer.
NoLimit == 1000

LowerBound(a) ==
  CASE a.kind = "min_length" -> a.value
    [] a.kind \in {"max_length", "regex"} -> 0
    [] a.kind = "is_uid" -> UidLength
    [] OTHER -> 1

UpperBound(a) ==
  CASE a.kind = "max_length" -> a.value
    [] a.kind \in {"min_length", "regex"} -> NoLimit
    [] a.kind = "is_uid" -> UidLength
    [] a.kind = "is_rfc_1123_dns_subdomain_name" -> SubdomainMax
    [] OTHER -> LabelMax

MinLength(attributes) == Max({0} \cup {LowerBound(attributes[i]) : i \in DOMAIN attributes})
MaxLength(attributes) == Min({NoLimit} \cup {UpperBound(attributes[i]) : i \in DOMAIN attributes})

MIN_LENGTH(type) == MinLength(AttributesOf(type))
MAX_LENGTH(type) == MaxLength(AttributesOf(type))

\* Regex::combine: two expressions are too hard to combine.
combine(a, b) == CASE b = "MatchAll" -> a [] b # "MatchAll" /\ a = "MatchAll" -> b [] OTHER -> "Unknown"

RegexOf(a) ==
  CASE a.kind = "regex" -> a.value
    [] a.kind \in {"min_length", "max_length"} -> "MatchAll"
    [] OTHER -> a.kind

\* The attributes are combined from the last one on.
CombinedFrom(attributes) ==
  LET count == Len(attributes)
      combined[n \in 0..count] ==
        IF n = 0 THEN "MatchAll"
        ELSE combine(RegexOf(attributes[count + 1 - n]), combined[n - 1])
  IN  combined

REGEX(type) == CombinedFrom(AttributesOf(type))[Len(AttributesOf(type))]

MatchesRegex(regex, text) ==
  CASE regex \in {"MatchAll", "Unknown"} -> TRUE
    [] regex = "config_key" -> text # <<>> /\ Range(text) \subseteq AlNum \cup {"-", ".", "_"}
    [] regex = "hostname" -> is_domain(text) /\ \A part \in Range(Split(text, ".")) : Len(part) < LabelMax
    [] regex = "env_var" -> text # <<>> /\ Range(text) \cap {"e", "="} = {}
    [] regex = "is_rfc_1035_label_name" -> Rfc1035Label(text)
    [] regex = "is_rfc_1123_label_name" -> Rfc1123Label(text)
    [] regex = "is_rfc_1123_dns_subdomain_name" -> Rfc1123Subdomain(text)
    [] regex = "is_valid_label_value" -> LABEL_VALUE_REGEX(text)
    [] regex = "is_uid" -> Len(text) = UidLength /\ IsUuid(text)

Holds(a, type, text) ==
  CASE a.kind = "min_length" -> Bytes(text) >= MIN_LENGTH(type)
    [] a.kind = "max_length" -> Bytes(text) <= MAX_LENGTH(type)
    [] a.kind = "regex" -> MatchesRegex(a.value, text)
    [] a.kind = "is_rfc_1035_label_name" -> is_lowercase_rfc_1035_label(text)
    [] a.kind = "is_rfc_1123_dns_subdomain_name" -> is_lowercase_rfc_1123_subdomain(text)
    [] a.kind = "is_rfc_1123_label_name" -> is_lowercase_rfc_1123_label(text)
    [] a.kind = "is_valid_label_value" -> LabelValue(text).ok
    [] a.kind = "is_uid" -> IsUuid(text)

\* from_str: the attributes are checked in order, the first that fails is the error.
Checked(attributes, failing, text) ==
  IF failing = {} THEN Ok(text) ELSE Err(attributes[Min(failing)].kind)

from_str(type, text) ==
  LET attributes == AttributesOf(type)
  IN  Checked(attributes, {i \in DOMAIN attributes : ~Holds(attributes[i], type, text)}, text)

expect(result) == IF result.ok THEN result.value ELSE NamePanic

\* json_schema, as the API server applies it: lengths in characters.
SchemaAccepts(type, text) ==
  /\ Len(text) >= MIN_LENGTH(type) /\ Len(text) <= MAX_LENGTH(type)
  /\ MatchesRegex(REGEX(type), text)

\* @trait_impl: the constants IS_RFC_... that a type gets.
Promises(type) ==
  LET kinds == {AttributesOf(type)[i].kind : i \in DOMAIN AttributesOf(type)}
  IN  (IF "is_rfc_1035_label_name" \in kinds THEN {"1035", "1123", "subdomain"} ELSE {})
      \cup (IF "is_rfc_1123_label_name" \in kinds THEN {"1123", "subdomain"} ELSE {})
      \cup (IF "is_rfc_1123_dns_subdomain_name" \in kinds THEN {"subdomain"} ELSE {})

-----------------------------------------------------------------------------
(* Composed names                                                            *)

\* floor_char_boundary and truncate
truncate_at_char_boundary(text, max) ==
  LET fits == {n \in 0..Len(text) : Bytes(SubSeq(text, 1, n)) <= max}
  IN  SubSeq(text, 1, CHOOSE n \in fits : \A k \in fits : k <= n)

\* hash is the start of the hex encoded digest of the original.
ensure_max_string_length(original, max, hash) ==
  LET name == truncate_at_char_boundary(original, max - Len(hash))
      kept == Front(name)
  IN  CASE Bytes(original) <= max -> original
        [] Bytes(original) > max /\ Len(name) <= 1 -> hash
        [] OTHER -> IF Last(kept) # "-" \/ Last(name) = "-" THEN kept \o <<"-">> \o hash
                    ELSE kept \o hash

qualified_role_group_name(r, hash) ==
  from_str("QualifiedRoleGroupName",
    ensure_max_string_length(r.cluster \o <<"-">> \o r.role \o <<"-">> \o r.group, QualifiedMax, hash))

\* The names of a role group's objects; an error is an expect that fails.
ResourceNames(r, hash) ==
  LET qualified == qualified_role_group_name(r, hash)
      typed(type, suffix) == AndThen(qualified, LAMBDA name : from_str(type, name \o suffix))
  IN  [qualified |-> qualified,
       config_map |-> typed("ConfigMapName", <<>>), daemon_set |-> typed("DaemonSetName", <<>>),
       deployment |-> typed("DeploymentName", <<>>), stateful_set |-> typed("StatefulSetName", <<>>),
       headless |-> typed("ServiceName", Headless), metrics |-> typed("ServiceName", Metrics),
       listener |-> typed("ListenerName", <<>>)]

\* role_utils.rs: the names of a cluster's RBAC objects.
service_account_name(cluster) == expect(from_str("ServiceAccountName", cluster \o ServiceAccountSuffix))
role_binding_name(cluster) == expect(from_str("RoleBindingName", cluster \o RoleBindingSuffix))
cluster_role_name(product) == expect(from_str("ClusterRoleName", product \o ClusterRoleSuffix))

-----------------------------------------------------------------------------
(* Keys                                                                      *)

trim(text) ==
  LET keep == {i \in DOMAIN text : text[i] # " "}
      lo == CHOOSE i \in keep : \A j \in keep : i <= j
      hi == CHOOSE i \in keep : \A j \in keep : j <= i
  IN  IF keep = {} THEN <<>> ELSE SubSeq(text, lo, hi)

\* ^[a-zA-Z](\.?[a-zA-Z0-9-])*\.[a-zA-Z]{2,}\.?$
KEY_PREFIX_REGEX(text) ==
  LET parts == Split(IF text # <<>> /\ Last(text) = "." THEN Front(text) ELSE text, ".")
  IN  /\ Len(parts) > 1 /\ \A part \in Range(parts) : part # <<>>
      /\ parts[1][1] \in Letter
      /\ \A i \in 1..Len(parts) - 1 : Range(parts[i]) \subseteq AlNum \cup {"-"}
      /\ Len(Last(parts)) > 1 /\ Range(Last(parts)) \subseteq Letter

KeyPart(text, max, matches) ==
  CASE text = <<>> -> Err("Empty")
    [] text # <<>> /\ Bytes(text) > max -> Err("TooLong")
    [] text # <<>> /\ Bytes(text) <= max /\ ~IsAscii(text) -> Err("NotAscii")
    [] OTHER -> IF matches THEN Ok(text) ELSE Err("Invalid")

KeyPrefix(text) == KeyPart(text, SubdomainMax, KEY_PREFIX_REGEX(text))
KeyName(text) == KeyPart(text, LabelMax, LABEL_VALUE_REGEX(text))

key_from_str(input) ==
  LET parts == Split(trim(input), "/")
      prefix == IF Len(parts) = 2 THEN KeyPrefix(parts[1]) ELSE Ok(None)
      name == KeyName(Last(parts))
  IN  CASE trim(input) = <<>> -> Err("EmptyInput")
        [] trim(input) # <<>> /\ Len(parts) > 2 -> Err("NestedPrefix")
        [] OTHER -> IF ~prefix.ok THEN prefix
                    ELSE IF ~name.ok THEN name
                    ELSE Ok([prefix |-> prefix.value, name |-> name.value])

new_trimmed(prefix, name, hash) ==
  LET short == ensure_max_string_length(name, LabelMax, hash)
  IN  key_from_str(IF prefix = None THEN short ELSE prefix \o <<"/">> \o short)

-----------------------------------------------------------------------------
(* ProductImage::resolve                                                     *)

\* The words the code puts into versions: "-stackable", "latest", "0.0.0-dev".
STACKABLE == <<"-", "a">>
LATEST == <<"a", "a">>
DEV == <<"1", ".", "1">>

TrimEnd(text, c) ==
  SubSeq(text, 1, CHOOSE n \in 0..Len(text) : /\ n > 0 => text[n] # c
                                             /\ \A i \in n + 1..Len(text) : text[i] = c)
TrimStart(text, c) == Reverse(TrimEnd(Reverse(text), c))

\* ImageRef::parse finds the tag or the hash of a custom image.
app_version(image, operator) ==
  IF image.custom # None
  THEN image.product_version \o <<"-">> \o
         (CASE image.custom.tag # None -> image.custom.tag
            [] image.custom.tag = None /\ image.custom.hash # None -> image.custom.hash
            [] OTHER -> LATEST)
  ELSE image.product_version \o STACKABLE \o
         (CASE image.stackable_version # None -> image.stackable_version
            [] image.stackable_version = None /\ operator.pull_request -> DEV
            [] OTHER -> operator.version)

\* String::truncate panics if the limit is inside a character.
prepare_app_version_label_value(version) ==
  LET formatted(cut) == [i \in DOMAIN cut |-> IF cut[i] = ":" THEN "-" ELSE cut[i]]
      checked(cut) == IF Bytes(version) > LabelMax /\ Bytes(cut) < LabelMax THEN Err("Panic")
                      ELSE LabelValue(formatted(cut))
  IN  checked(truncate_at_char_boundary(version, LabelMax))

\* The custom image is used as it is.
resolve(image, name, repository, operator) ==
  LET version == app_version(image, operator)
      repo == IF image.repo # None THEN image.repo ELSE repository
      reference == IF image.custom # None THEN image.custom.reference
                   ELSE TrimEnd(trim(repo), "/") \o <<"/">>
                        \o TrimStart(trim(name), "/") \o <<":">> \o version
  IN  AndThen(prepare_app_version_label_value(version),
              LAMBDA label : Ok([label |-> label, image |-> reference]))

-----------------------------------------------------------------------------
(* Labels                                                                    *)

\* KeyValuePairs::try_from_iter: the pairs are collected in a set ordered by key
\* and value, then in a map: of two values for a key the greater one stays.
try_from_iter(pairs) ==
  LET kept(k) == LET vs == {pairs[i].value : i \in {j \in DOMAIN pairs : pairs[j].key = k}}
                 IN  CHOOSE v \in vs : \A w \in vs : w <= v
  IN  [k \in {pairs[i].key : i \in DOMAIN pairs} |-> kept(k)]

extend_labels(labels, other) ==
  [k \in DOMAIN labels \cup DOMAIN other |-> IF k \in DOMAIN other THEN other[k] ELSE labels[k]]

\* Labels that are inserted one by one: the first invalid value is the error, and
\* of two values for a key the later one stays.
InsertAll(pairs) ==
  LET invalid == {i \in DOMAIN pairs : ~LabelValue(pairs[i].value).ok}
      places(k) == {i \in DOMAIN pairs : pairs[i].key = k}
  IN  IF invalid # {} THEN LabelValue(pairs[Min(invalid)].value)
      ELSE Ok([k \in {pairs[i].key : i \in DOMAIN pairs} |-> pairs[Max(places(k))].value])

Pair(key, value) == [key |-> key, value |-> value]

common(o) == <<Pair("instance", o.cluster), Pair("name", o.product)>>
role_selector(o) == Append(common(o), Pair("component", o.role))
role_group_selector(o) == Append(role_selector(o), Pair("role-group", o.group))

format_full_controller_name(operator, controller) == operator \o <<"_">> \o controller

recommended(o) ==
  role_group_selector(o) \o
    <<Pair("managed-by", format_full_controller_name(o.operator, o.controller)),
      Pair("version", o.version), Pair("vendor", <<"A">>)>>

\* v2: the operator name alone if the full name is too long.
full_controller_name(operator, controller) ==
  LET full == format_full_controller_name(operator, controller)
  IN  from_str("ControllerName", IF from_str("ControllerName", full).ok THEN full ELSE operator)

\* v2: label_app_kubernetes_io_* and the label sets made of them.
LabelFor(key, o) ==
  Pair(key, CASE key = "instance" -> o.cluster [] key = "name" -> o.product
              [] key = "version" -> o.version [] key = "component" -> o.role
              [] key = "role-group" -> o.group [] key = "vendor" -> <<"A">>
              [] key = "managed-by" -> full_controller_name(o.operator, o.controller).value)

\* An error is an expect that fails.
LabelSet(keys, o) ==
  AndThen(full_controller_name(o.operator, o.controller),
          LAMBDA name : InsertAll([i \in DOMAIN keys |-> LabelFor(keys[i], o)]))

recommended_labels_for_cluster_resources(o) ==
  LabelSet(<<"instance", "name", "version", "managed-by", "vendor">>, o)
recommended_labels_for_role_resources(o) ==
  LabelSet(<<"instance", "name", "version", "component", "managed-by", "vendor">>, o)
recommended_labels_for_role_group_resources(o) ==
  LabelSet(<<"instance", "name", "version", "component", "role-group", "managed-by", "vendor">>, o)
recommended_labels_for_unversioned_role_group_resources(o) ==
  LabelSet(<<"instance", "name", "component", "role-group", "managed-by", "vendor">>, o)
v2_role_selector(o) == LabelSet(<<"instance", "name", "component">>, o)
v2_role_group_selector(o) == LabelSet(<<"instance", "name", "component", "role-group">>, o)

\* The string types v2 requires of the parts.
TypedParts(o) ==
  /\ from_str("ClusterName", o.cluster).ok /\ from_str("ProductName", o.product).ok
  /\ from_str("ProductVersion", o.version).ok /\ from_str("OperatorName", o.operator).ok
  /\ from_str("ControllerName", o.controller).ok
  /\ from_str("RoleName", o.role).ok /\ from_str("RoleGroupName", o.group).ok

-----------------------------------------------------------------------------
(* LabelSelectorExt::to_query_string.  A query is a sequence of clauses and  *)
(* commas.                                                                   *)

Clause(key, operator, values) == [key |-> key, operator |-> operator, values |-> values]
Comma == Clause(None, ",", {})

clause_of(r) ==
  CASE r.operator \in {"In", "NotIn"} ->
         IF r.values # None /\ r.values # {} THEN Ok(Clause(r.key, r.operator, r.values))
         ELSE Err("LabelSelectorBinaryOperatorWithoutValues")
    [] r.operator \in {"Exists", "DoesNotExist"} ->
         IF r.values # None /\ r.values # {} THEN Err("LabelSelectorUnaryOperatorWithValues")
         ELSE Ok(Clause(r.key, r.operator, {}))
    [] OTHER -> Err("LabelSelectorInvalidOperator")

\* Itertools::join
Joined(clauses) ==
  [i \in 1..2 * Len(clauses) - 1 |-> IF i % 2 = 0 THEN Comma ELSE clauses[(i + 1) \div 2]]

\* Mutant: the separator is added for empty expressions too.
to_query_string_Comma(s) ==
  LET labels == IF s.labels = None THEN <<>>
                ELSE Joined([i \in DOMAIN s.labels |-> Clause(s.labels[i].key, "=", {s.labels[i].value})])
      clauses == [i \in DOMAIN s.expressions |-> clause_of(s.expressions[i])]
      errors == {i \in DOMAIN clauses : ~clauses[i].ok}
  IN  IF s.expressions = None THEN Ok(labels)
      ELSE IF errors # {} THEN clauses[Min(errors)]
      ELSE Ok(labels \o (IF labels # <<>> THEN <<Comma>> ELSE <<>>)
                     \o Joined([i \in DOMAIN clauses |-> clauses[i].value]))

to_query_string(s) ==
  LET labels == IF s.labels = None THEN <<>>
                ELSE Joined([i \in DOMAIN s.labels |-> Clause(s.labels[i].key, "=", {s.labels[i].value})])
      clauses == [i \in DOMAIN s.expressions |-> clause_of(s.expressions[i])]
      errors == {i \in DOMAIN clauses : ~clauses[i].ok}
  IN  IF s.expressions = None THEN Ok(labels)
      ELSE IF errors # {} THEN clauses[Min(errors)]
      ELSE Ok(labels \o (IF s.expressions # <<>> /\ labels # <<>> THEN <<Comma>> ELSE <<>>)
                     \o Joined([i \in DOMAIN clauses |-> clauses[i].value]))

\* The API server: clauses separated by commas, all of which must hold.
ParsesAsQuery(q) ==
  /\ \A i \in DOMAIN q : (q[i] = Comma) <=> (i % 2 = 0)
  /\ q = <<>> \/ Len(q) % 2 = 1

Satisfies(c, labels) ==
  LET has == c.key \in DOMAIN labels
  IN  CASE c.operator \in {"=", "In"} -> has /\ labels[c.key] \in c.values
        [] c.operator = "NotIn" -> ~has \/ labels[c.key] \notin c.values
        [] c.operator = "Exists" -> has
        [] c.operator = "DoesNotExist" -> ~has
        [] c.operator = "," -> TRUE

-----------------------------------------------------------------------------
(* ObjectMetaBuilder, OwnerReferenceBuilder and the RBAC objects             *)

NewMeta == [annotations |-> None, finalizers |-> None, generate_name |-> None, labels |-> None,
            namespace |-> None, name |-> None, ownerreference |-> None]

with_labels(b, labels) ==
  [b EXCEPT !.labels = IF @ = None THEN labels ELSE extend_labels(@, labels)]
set_labels(b, labels) == [b EXCEPT !.labels = labels]
with_finalizers(b, finalizers) ==
  [b EXCEPT !.finalizers = IF @ = None THEN finalizers ELSE @ \o finalizers]
name_and_namespace(b, resource) == [b EXCEPT !.name = resource.name, !.namespace = resource.namespace]

\* initialize_from_resource and build: all but the uid of a resource is known.
OwnerReference(owner, controller) ==
  IF owner.uid = None THEN Err("MissingObjectKey")
  ELSE Ok([name |-> owner.name, uid |-> owner.uid, controller |-> controller])

ownerreference_from_resource(b, owner, controller) ==
  LET reference == OwnerReference(owner, controller)
  IN  IF reference.ok THEN Ok([b EXCEPT !.ownerreference = reference.value]) ELSE reference

build_meta(b) ==
  [name |-> b.name, namespace |-> b.namespace, labels |-> b.labels, finalizers |-> b.finalizers,
   owner_references |-> IF b.ownerreference = None THEN None ELSE <<b.ownerreference>>]

build_rbac_resources(owner, product, labels) ==
  LET sa == owner.name \o ServiceAccountSuffix
      meta(name) == ownerreference_from_resource([name_and_namespace(NewMeta, owner) EXCEPT !.name = name],
                                                 owner, TRUE)
  IN  IF ~meta(sa).ok THEN meta(sa)
      ELSE Ok([account |-> build_meta(with_labels(meta(sa).value, labels)),
               binding |-> build_meta(with_labels(meta(owner.name \o RoleBindingSuffix).value, labels)),
               role |-> product \o ClusterRoleSuffix,
               subject |-> [name |-> sa, namespace |-> owner.namespace]])

\* v2: build_service_account and build_role_binding, for a typed cluster with a uid.
build_metadata(owner, name, labels) ==
  build_meta(with_labels([NewMeta EXCEPT !.name = name, !.namespace = owner.namespace,
                                         !.ownerreference = expect(OwnerReference(owner, TRUE))], labels))

build_service_account(owner, labels) == build_metadata(owner, service_account_name(owner.name), labels)

build_role_binding(owner, product, labels) ==
  [metadata |-> build_metadata(owner, role_binding_name(owner.name), labels),
   role     |-> cluster_role_name(product),
   subject  |-> [name |-> service_account_name(owner.name), namespace |-> owner.namespace]]

\* Both, as build_rbac_resources returns them.
build_v2_resources(owner, product, labels) ==
  LET binding == build_role_binding(owner, product, labels)
  IN  [account |-> build_service_account(owner, labels), binding |-> binding.metadata,
       role |-> binding.role, subject |-> binding.subject]

-----------------------------------------------------------------------------
(* Inputs                                                                    *)

\* What follows a name in another name.
IsNameSuffix(text) == text \in Seq(Lower \cup {"-"}) /\ text # <<>> /\ Last(text) \in Lower

NoDoubleSlash(text) == \A i \in 1..Len(text) - 1 : text[i] = "/" => text[i + 1] # "/"

\* Tags, hashes and versions.
VersionTexts == Seq(AlNum \cup {"-", "_", ".", ":", "e"})

ASSUME NameInputs ==
  /\ ParseTexts \cup KeyTexts \cup KeyPrefixes \cup ClusterNames \cup RoleNames
       \cup RoleGroupNames \cup ProductNames \subseteq Seq(Characters)
  /\ SubdomainMax <= NoLimit /\ \A text \in ParseTexts : Len(text) <= NoLimit
  /\ \A text \in KeyPrefixes : KeyPrefix(text).ok
  /\ \A text \in ClusterNames : from_str("ClusterName", text).ok
  /\ \A text \in RoleNames : from_str("RoleName", text).ok
  /\ \A text \in RoleGroupNames : from_str("RoleGroupName", text).ok
  /\ \A text \in ProductNames : from_str("ProductName", text).ok
  /\ IsNameSuffix(Headless) /\ IsNameSuffix(Metrics) /\ IsNameSuffix(ServiceAccountSuffix)
  /\ IsNameSuffix(RoleBindingSuffix) /\ IsNameSuffix(ClusterRoleSuffix)

\* Slashes are trimmed where a repository and a name meet; no other are double.
ASSUME ImageInputs ==
  /\ \A image \in Images :
       /\ image.product_version \in VersionTexts
       /\ image.stackable_version # None => image.stackable_version \in VersionTexts
       /\ image.custom # None =>
            /\ image.custom.tag # None => image.custom.tag \in VersionTexts
            /\ image.custom.hash # None => image.custom.hash \in VersionTexts
  /\ \A operator \in Operators :
       operator.version \in VersionTexts /\ operator.pull_request \in BOOLEAN
  /\ \A text \in Repositories \cup ({image.repo : image \in Images} \ {None}) :
       text \in Seq(Characters) /\ NoDoubleSlash(TrimEnd(trim(text), "/"))
  /\ \A text \in ImageNames :
       text \in Seq(Characters) /\ NoDoubleSlash(TrimStart(trim(text), "/"))

ASSUME LabelAssumption ==
  /\ \A o \in LabelInputs :
       {o.cluster, o.product, o.version, o.operator, o.controller, o.role, o.group}
         \subseteq Seq(Characters)
  /\ \A s \in Selectors :
       /\ s.labels # None => s.labels \in Seq(Range(s.labels))
       /\ s.expressions # None => s.expressions \in Seq(Range(s.expressions))
  /\ \A owner \in Owners : owner.name \in Seq(Characters)
  /\ \A call \in MetaCalls :
       /\ call.labels \in Seq(Range(call.labels))
       /\ \A label \in Range(call.labels) : label = Pair(label.key, label.value) /\ label.value \in Nat

\* Option::None is no map of labels.
ASSUME NoLabelsAssumption ==
  LET keys == {label.key : label \in UNION {Range(call.labels) : call \in MetaCalls}}
  IN  \A set \in SUBSET keys : None \notin [set -> Nat]

-----------------------------------------------------------------------------
(* Steps                                                                     *)

NamesInit == named = None /\ metaBuilder = None

Name(what, input, result) ==
  /\ named' = [what |-> what, input |-> input, result |-> result]
  /\ UNCHANGED metaBuilder

ParseName ==
  \E type \in TypeNames, text \in ParseTexts :
    Name("parse", [type |-> type, text |-> text], from_str(type, text))

\* The digits of a hash are letters and digits.
Hash(n) == [1..n -> Lower]

NameRoleGroup ==
  \E cluster \in ClusterNames, role \in RoleNames, group \in RoleGroupNames, hash \in Hash(HashLength) :
    LET r == [cluster |-> cluster, role |-> role, group |-> group]
    IN  Name("role group", r, ResourceNames(r, hash))

MakeKey ==
  \E prefix \in {None} \cup KeyPrefixes, text \in KeyTexts, hash \in Hash(KeyHashLength) :
    Name("key", [prefix |-> prefix, text |-> text],
         [parsed |-> key_from_str(text), trimmed |-> new_trimmed(prefix, text, hash)])

RecommendLabels ==
  \E o \in LabelInputs :
    Name("labels", o,
         [recommended |-> InsertAll(recommended(o)), role |-> InsertAll(role_selector(o)),
          role_group |-> InsertAll(role_group_selector(o)),
          v2 |-> IF ~TypedParts(o) THEN None
                 ELSE [cluster |-> recommended_labels_for_cluster_resources(o),
                       role |-> recommended_labels_for_role_resources(o),
                       role_group |-> recommended_labels_for_role_group_resources(o),
                       unversioned |-> recommended_labels_for_unversioned_role_group_resources(o),
                       role_selector |-> v2_role_selector(o),
                       role_group_selector |-> v2_role_group_selector(o)]])

ResolveImage ==
  \E image \in Images, name \in ImageNames, repository \in Repositories, operator \in Operators :
    Name("image", [image |-> image, name |-> name, operator |-> operator],
         resolve(image, name, repository, operator))

MakeQuery == \E s \in Selectors : Name("query", s, to_query_string(s))

BuildRbac ==
  \E owner, other \in Owners, product \in ProductNames :
    LET labels == [name |-> product]
    IN  /\ owner.name # other.name
        /\ Name("rbac", [owner |-> owner, other |-> other, product |-> product],
             [v1 |-> build_rbac_resources(owner, product, labels),
              other |-> build_rbac_resources(other, product, labels),
              v2 |-> IF owner.uid = None \/ ~from_str("ClusterName", owner.name).ok THEN None
                     ELSE build_v2_resources(owner, product, labels)])

\* A call adds one label, adds a map or replaces all labels.
CallMetaBuilder ==
  \E call \in MetaCalls :
    LET b == IF metaBuilder = None THEN [calls |-> <<>>, meta |-> NewMeta] ELSE metaBuilder
        labels == try_from_iter(call.labels)
    IN  /\ Len(b.calls) < MaxMetaCalls
        /\ metaBuilder' =
             [calls |-> Append(b.calls, call),
              meta  |-> IF call.kind = "labels" THEN set_labels(b.meta, labels)
                        ELSE with_labels(with_finalizers(b.meta, <<call.kind>>), labels)]
        /\ UNCHANGED named

NamesNext ==
  \/ /\ named = None /\ metaBuilder = None
     /\ ParseName \/ NameRoleGroup \/ MakeKey \/ ResolveImage \/ RecommendLabels
        \/ MakeQuery \/ BuildRbac
  \/ named = None /\ CallMetaBuilder

NamesSpec == NamesInit /\ [][NamesNext]_namesVars

-----------------------------------------------------------------------------
(* Properties                                                                *)

Named(what) == named # None /\ named.what = what

\* The names of a role group's objects are valid for their kind whatever the
\* valid names they are composed of, however they had to be shortened: no expect
\* fails.  The cluster name is never shortened, and names that were not shortened
\* tell the role groups of a role apart.
RoleGroupNamesAreValid ==
  Named("role group") =>
    LET r == named.input
        names == named.result
        full == r.cluster \o <<"-">> \o r.role \o <<"-">> \o r.group
    IN  /\ \A kind \in DOMAIN names : names[kind].ok
        /\ SubSeq(names.qualified.value, 1, Len(r.cluster)) = r.cluster
        /\ Len(full) <= QualifiedMax => names.qualified = Ok(full)

\* What a string type accepts keeps the constants it promises (IS_RFC_...) and
\* passes the schema in the CRD; what passes a schema with an expression is
\* accepted.  A Uid may be written without hyphens, which its schema rejects.
ParsedNamesKeepPromises ==
  Named("parse") =>
    LET type == named.input.type
        text == named.input.text
    IN  /\ named.result.ok /\ type # "Uid" => SchemaAccepts(type, text)
        /\ SchemaAccepts(type, text) /\ REGEX(type) # "Unknown" => named.result.ok
        /\ named.result.ok =>
             /\ "1035" \in Promises(type) => is_lowercase_rfc_1035_label(text)
             /\ "1123" \in Promises(type) => is_lowercase_rfc_1123_label(text)
             /\ "subdomain" \in Promises(type) => is_lowercase_rfc_1123_subdomain(text)

\* A key that is accepted, shortened or not, fits the limits, and shortening makes
\* every name usable that starts with a letter or digit and has allowed characters.
ShortenedKeysFit ==
  Named("key") =>
    LET text == named.input.text
        parsed == named.result.parsed
        trimmed == named.result.trimmed
        fits(key) == /\ Bytes(key.name) <= LabelMax /\ LabelValue(key.name).ok
                     /\ key.prefix # None => Bytes(key.prefix) <= SubdomainMax
    IN  /\ parsed.ok => fits(parsed.value) /\ (named.input.prefix = None /\ Bytes(text) <= LabelMax => trimmed = parsed)
        /\ trimmed.ok => fits(trimmed.value)
        /\ (Bytes(text) > LabelMax /\ text[1] \in AlNum /\ Range(text) \subseteq AlNum \cup {"-", "_", "."})
             => trimmed.ok

\* The selectors of a role and of a role group select the objects with the
\* recommended labels; the two generations of the functions give the same labels,
\* and the second never panics.
SelectorsMatchLabels ==
  Named("labels") =>
    LET v1 == named.result
        v2 == named.result.v2
        within(sub, super) == \A k \in DOMAIN sub : k \in DOMAIN super /\ sub[k] = super[k]
    IN  /\ v1.recommended.ok =>
             /\ v1.role.ok /\ v1.role_group.ok
             /\ within(v1.role.value, v1.role_group.value)
             /\ within(v1.role_group.value, v1.recommended.value)
        /\ v2 # None =>
             /\ \A set \in DOMAIN v2 : v2[set].ok
             /\ within(v2.role_selector.value, v2.role.value)
             /\ within(v2.role_group_selector.value, v2.unversioned.value)
             /\ within(v2.unversioned.value, v2.role_group.value)
             /\ within(v2.cluster.value, v2.role.value)
        /\ v2 # None /\ v1.recommended.ok => v2.role_group = v1.recommended

\* An image that is resolved comes with a label that can be set.  It shows the
\* version that is pulled, all of it if a label can hold it; a version in ASCII
\* is cut without a panic, and refused only if what is left ends like no label.
\* An operator of a pull request asks for the image the nightly one asks for,
\* and there is one slash between a repository and a name.
ImagesAreLabelled ==
  Named("image") =>
    LET image == named.input.image
        version == app_version(image, named.input.operator)
        result == named.result
        reference == result.value.image
        slashes == {i \in DOMAIN reference : reference[i] = "/"}
    IN  /\ IsAscii(version) => result.ok \/ result.error # "Panic"
        /\ LabelValue(version).ok => result.ok /\ result.value.label = version
        /\ (IsAscii(version) /\ ~result.ok) =>
              \/ version[1] \notin AlNum
              \/ version[IF Len(version) > LabelMax THEN LabelMax ELSE Len(version)] \notin AlNum
        /\ result.ok =>
              /\ LabelValue(result.value.label).ok
              /\ image.custom = None =>
                   IsSuffix(version, reference) /\ \A i \in slashes : i + 1 \notin slashes
        /\ named.input.operator.pull_request =>
              version = app_version(image, [version |-> DEV, pull_request |-> FALSE])

\* A query that is built is understood by the API server and selects exactly the
\* labels the selector stands for; a selector is refused exactly when one of its
\* requirements is invalid.
QueriesSelectTheSame ==
  Named("query") =>
    LET s == named.input
        requirements == IF s.expressions = None THEN {} ELSE Range(s.expressions)
        valid(r) == CASE r.operator \in {"In", "NotIn"} -> r.values \notin {None, {}}
                      [] r.operator \in {"Exists", "DoesNotExist"} -> r.values \in {None, {}}
                      [] OTHER -> FALSE
        selects(labels) ==
          /\ s.labels # None => \A i \in DOMAIN s.labels :
               s.labels[i].key \in DOMAIN labels /\ labels[s.labels[i].key] = s.labels[i].value
          /\ \A r \in requirements :
               LET has == r.key \in DOMAIN labels
               IN  CASE r.operator = "In" -> has /\ labels[r.key] \in r.values
                     [] r.operator = "NotIn" -> ~(has /\ labels[r.key] \in r.values)
                     [] r.operator = "Exists" -> has
                     [] r.operator = "DoesNotExist" -> ~has
        query == named.result
    IN  /\ query.ok <=> \A r \in requirements : valid(r)
        /\ query.ok => /\ ParsesAsQuery(query.value)
                       /\ \A labels \in LabelMaps :
                            selects(labels) <=> \A c \in Range(query.value) : Satisfies(c, labels)

\* rbac.rs (v2): "the output is identical" to build_rbac_resources.  The binding
\* is for the service account that is built with it, and two clusters of one
\* product never share a service account or a binding.
RbacGenerationsAgree ==
  Named("rbac") =>
    LET v1 == named.result.v1
        v2 == named.result.v2
        other == named.result.other
    IN  /\ v1.ok <=> named.input.owner.uid # None
        /\ v1.ok => v1.value.subject = [name |-> v1.value.account.name,
                                        namespace |-> v1.value.binding.namespace]
        /\ v2 # None => v1 = Ok(v2)
        /\ v1.ok /\ other.ok => /\ v1.value.account.name # other.value.account.name
                                /\ v1.value.binding.name # other.value.binding.name

\* The labels of built metadata: the last call that gives a key a value decides
\* about it, and a key given before all labels were replaced is gone.
MetadataFollowsCalls ==
  metaBuilder # None =>
    LET calls == metaBuilder.calls
        gives(i) == {calls[i].labels[j].key : j \in DOMAIN calls[i].labels}
        reset == {i \in DOMAIN calls : calls[i].kind = "labels"}
        from == IF reset = {} THEN 1 ELSE CHOOSE i \in reset : \A j \in reset : j <= i
        keys == UNION {gives(i) : i \in from..Len(calls)}
        last(k) == CHOOSE i \in from..Len(calls) :
                     k \in gives(i) /\ \A j \in i + 1..Len(calls) : k \notin gives(j)
        labels == build_meta(metaBuilder.meta).labels
    IN  /\ DOMAIN labels = keys
        /\ \A k \in keys : Pair(k, labels[k]) \in Range(calls[last(k)].labels)

\* What is made of valid names, labels and calls is valid too, and selectors
\* find the objects that were labelled for them.
NamesAreUsable ==
  /\ RoleGroupNamesAreValid /\ ParsedNamesKeepPromises /\ ShortenedKeysFit
  /\ ImagesAreLabelled /\ SelectorsMatchLabels /\ QueriesSelectTheSame
  /\ RbacGenerationsAgree /\ MetadataFollowsCalls

=============================================================================
