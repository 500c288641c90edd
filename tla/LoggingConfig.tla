---------------------------- MODULE LoggingConfig ----------------------------
(***************************************************************************)
(* The logging section of a role or role group, from the three layers in  *)
(* which it can be written (operator defaults, role, role group) to what  *)
(* the Vector container is given:                                         *)
(*   config/merge.rs            the Merge trait: options, maps            *)
(*   derive/merge.rs            derived Merge of structs and of enums     *)
(*   config/fragment.rs         FromFragment: required and optional fields*)
(*   product_logging/spec.rs    the logging types and their defaults      *)
(*   v2/product_logging/framework.rs  the checks of one container         *)
(*                                                                         *)
(* It is the configuration type with the richest merge in the library: a  *)
(* map of containers, an enum inside it, a map and two optional structs   *)
(* inside that.  A struct with a single field is represented by the field *)
(* (LoggerConfigFragment by its level, ContainerLogConfigFragment by its  *)
(* choice).                                                                *)
(***************************************************************************)
EXTENDS Options, Naturals, Sequences

CONSTANTS
  Containers,    \* the containers of the product (T: Ord), as numbers
  Loggers,       \* logger names in their order, as numbers
  ROOT,          \* AutomaticContainerLogConfig::ROOT_LOGGER
  Levels,        \* LogLevel
  INFO,          \* LogLevel::default()
  ConfigMaps,    \* the strings written for the name of a ConfigMap
  BadConfigMaps  \* those that are not a ConfigMapName

-----------------------------------------------------------------------------
(* Fragments: what one layer of the configuration says.                     *)

\* The maps from some of these keys.
MapsFrom(keys, values) == UNION {[some -> values] : some \in SUBSET keys}

IsMap(map, keys, values) == DOMAIN map \subseteq keys /\ map \in [DOMAIN map -> values]

\* AppenderConfigFragment
Appenders == [level : Levels \cup {None}]

\* ContainerLogConfigChoiceFragment
CustomChoices == [variant : {"Custom"}, config_map : ConfigMaps \cup {None}]
AutomaticChoices ==
  [variant : {"Automatic"}, loggers : MapsFrom(Loggers, Levels \cup {None}),
   console : Appenders \cup {None}, file : Appenders \cup {None}]

\* LoggingFragment
IsLogging(fragment) ==
  /\ fragment = [enable_vector_agent |-> fragment.enable_vector_agent, containers |-> fragment.containers]
  /\ IsMap(fragment.containers, Containers, CustomChoices \cup AutomaticChoices \cup {None})

ASSUME LoggingAssumption ==
  /\ Containers \subseteq Nat
  /\ Loggers \subseteq Nat
  /\ ROOT \in Loggers
  /\ INFO \in Levels
  /\ None \notin Levels \cup Appenders \cup CustomChoices \cup AutomaticChoices

-----------------------------------------------------------------------------
(* Merge: `self` is the tighter scope, `defaults` the wider one.            *)

\* Option<T: Atomic>
merge_option(self, defaults) == IF self = None THEN defaults ELSE self

\* BTreeMap<String, LoggerConfigFragment>: entries of either map, and the
\* merge of both where both have one.
merge_loggers(self, defaults) ==
  [l \in DOMAIN self \cup DOMAIN defaults |->
     IF l \notin DOMAIN defaults THEN self[l]
     ELSE IF l \notin DOMAIN self THEN defaults[l]
     ELSE merge_option(self[l], defaults[l])]

\* Option<AppenderConfigFragment>, written out in the Merge of the automatic
\* configuration because the type is not Atomic.
merge_appender(self, defaults) ==
  IF self = None THEN defaults
  ELSE IF defaults = None THEN self
  ELSE [level |-> merge_option(self.level, defaults.level)]

merge_automatic(self, defaults) ==
  [variant |-> "Automatic",
   loggers |-> merge_loggers(self.loggers, defaults.loggers),
   console |-> merge_appender(self.console, defaults.console),
   file    |-> merge_appender(self.file, defaults.file)]

\* Option<ContainerLogConfigChoiceFragment>, derived for an enum: nothing set
\* inherits everything, the same variant is merged field by field, another
\* variant discards the defaults.
merge_choice(self, defaults) ==
  IF self = None THEN defaults
  ELSE IF defaults = None THEN self
  ELSE IF self.variant # defaults.variant THEN self
  ELSE IF self.variant = "Custom"
       THEN [variant |-> "Custom",
             config_map |-> merge_option(self.config_map, defaults.config_map)]
       ELSE merge_automatic(self, defaults)

\* BTreeMap<T, ContainerLogConfigFragment>
merge_containers(self, defaults) ==
  [c \in DOMAIN self \cup DOMAIN defaults |->
     IF c \notin DOMAIN defaults THEN self[c]
     ELSE IF c \notin DOMAIN self THEN defaults[c]
     ELSE merge_choice(self[c], defaults[c])]

merge_logging(self, defaults) ==
  [enable_vector_agent |->
     merge_option(self.enable_vector_agent, defaults.enable_vector_agent),
   containers |-> merge_containers(self.containers, defaults.containers)]

-----------------------------------------------------------------------------
(* FromFragment: the required fields must be set after the merge.           *)

\* The required fields of one container's choice that are not set: the
\* ConfigMap of a custom configuration, the level of a logger.  The level of
\* an appender is optional.
UnsetInChoice(choice) ==
  IF choice = None THEN {}
  ELSE IF choice.variant = "Custom"
       THEN {<<"config_map">> : x \in {choice.config_map} \cap {None}}
       ELSE {<<"loggers", l>> : l \in {k \in DOMAIN choice.loggers : choice.loggers[k] = None}}

\* The path of the first unset required field, in the order in which the
\* fields and the map entries are visited: the error stops the validation.
FirstUnset(choice) ==
  CHOOSE p \in UnsetInChoice(choice) :
    \A q \in UnsetInChoice(choice) :
      choice.variant = "Automatic" => p[2] <= q[2]

validate(fragment) ==
  LET failing == {c \in DOMAIN fragment.containers :
                    UnsetInChoice(fragment.containers[c]) # {}}
      first   == CHOOSE c \in failing : \A d \in failing : c <= d
  IN  IF fragment.enable_vector_agent = None
      THEN Err(<<"enable_vector_agent">>)
      ELSE IF failing # {}
      THEN Err(<<"containers", first>> \o FirstUnset(fragment.containers[first]))
      ELSE Ok(fragment)

-----------------------------------------------------------------------------
(* Defaults and use of the validated configuration.                         *)

default_container_log_config ==
  [variant |-> "Automatic",
   loggers |-> [l \in {ROOT} |-> INFO],
   console |-> [level |-> INFO],
   file    |-> [level |-> INFO]]

default_logging ==
  [enable_vector_agent |-> FALSE,
   containers |-> [c \in Containers |-> default_container_log_config]]

root_log_level(automatic) ==
  IF ROOT \in DOMAIN automatic.loggers THEN automatic.loggers[ROOT] ELSE INFO

\* The choice for one container, with the name of a custom ConfigMap checked.
validate_logging_configuration_for_container(logging, container) ==
  IF container \notin DOMAIN logging.containers
  THEN Err("GetContainerLogConfiguration")
  ELSE LET choice == logging.containers[container]
       IN  IF choice = None THEN Err("GetContainerLogConfiguration")
           ELSE IF choice.variant = "Custom" /\ choice.config_map \in BadConfigMaps
           THEN Err("ParseContainerName")
           ELSE Ok(choice)

\* The two levels the Vector container is started with: VECTOR_LOG and
\* VECTOR_FILE_LOG_LEVEL.
vector_container(choice) ==
  [log_level |->
     IF choice.variant = "Automatic" THEN root_log_level(choice) ELSE INFO,
   file_log_level |->
     IF choice.variant # "Automatic" THEN INFO
     ELSE IF choice.file = None THEN INFO
     ELSE IF choice.file.level = None THEN INFO
     ELSE choice.file.level]
=============================================================================
