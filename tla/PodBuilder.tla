----------------------------- MODULE PodBuilder -----------------------------
(***************************************************************************)
(* The builders of stackable-operator/src/builder/pod, pdb.rs and the      *)
(* volumes of commons/secret_class.rs, as sequences of calls on a builder: *)
(* PodBuilder and ContainerBuilder with what they deduplicate, the         *)
(* security contexts of pods and containers, the ProbeBuilder, and the     *)
(* volumes of the secret operator and the listener operator.               *)
(* A field that is set and never read by the builder is one entry of       *)
(* "fields"; a Duration is its whole seconds and the milliseconds beyond.  *)
(***************************************************************************)
EXTENDS Float32, FiniteSets, PodVolumes

CONSTANTS
    PodCalls, ContainerCalls, SecurityCalls, ProbeCalls, SecretCalls,  \* the calls made
    InvalidEnvVars, EnvVarCalls,   \* names that are no EnvVarName, and the calls on an EnvVarSet
    Pods,          \* [app, cluster, role, group]: pods that budgets and affinities select from
    MaxI32, MaxI64,  \* i32::MAX and i64::MAX, scaled down
    MaxCalls       \* bound: calls on one builder

Durations == [secs : Nat, millis : 0..999]

Whole(secs) == [secs |-> secs, millis |-> 0]

\* The arguments of a call have the types of the code.
IsPodCall(c) ==
    /\ c.call \in {"set", "affinity", "with_status", "extend", "add_volumes", "add_listener_class",
                   "add_listener_name", "add_container", "add_init_container", "termination_grace_period"}
    /\ c.call = "affinity" =>
          DOMAIN c.affinities = {"pod_affinity", "pod_anti_affinity", "node_affinity", "node_selector"}
    /\ c.call = "extend" => c.field \in {"tolerations", "image_pull_secrets"}
    /\ c.call = "add_volumes" => c.volumes \in Seq(Range(c.volumes))
    /\ c.call = "termination_grace_period" => c.duration \in Durations
    /\ c.call \in {"add_container", "add_init_container"} =>
          c.container = [name |-> c.container.name, resources |-> c.container.resources]

IsContainerCall(c) ==
    /\ c.call \in {"set", "image_from_product_image", "lifecycle", "add_env_vars", "add_volume_mounts"}
    /\ c.call = "lifecycle" => DOMAIN c.lifecycle = {"post_start", "pre_stop"}
    /\ c.call = "add_volume_mounts" => c.mounts \in Seq(Range(c.mounts))

IsProbeCall(c) ==
    /\ c.call \in {"period", "threshold_duration", "set"}
    /\ c.call = "period" => c.period \in Durations
    /\ c.call = "threshold_duration" =>
          c.duration \in Durations /\ c.field \in {"failure_threshold", "success_threshold"}
    /\ c.call = "set" =>
          DOMAIN c.fields \subseteq {"success_threshold", "failure_threshold", "timeout", "initial_delay",
                                    "termination_grace_period"}

IsSecretCall(c) ==
    /\ c.call \in {"volume", "scope", "kerberos", "set"}
    /\ c.call = "volume" =>
          /\ c.scope.services \in Seq(Range(c.scope.services))
          /\ c.scope.listener_volumes \in Seq(Range(c.scope.listener_volumes))
    /\ c.call = "set" => DOMAIN c.fields \cap {"scopes", "kerberos"} = {}

ASSUME BuilderConstants ==
    /\ MaxI32 \in Nat /\ MaxI64 \in Nat /\ None # "tls-pkcs12"
    /\ \A c \in PodCalls : IsPodCall(c)
    /\ \A c \in ContainerCalls : IsContainerCall(c)
    /\ \A c \in EnvVarCalls : c.call \in {"with_env_var", "set"}
    /\ \A c \in ProbeCalls : IsProbeCall(c)
    /\ \A c \in SecretCalls : IsSecretCall(c)

VARIABLES
    kind,       \* which builder
    builder,    \* its state
    history     \* the calls so far, each with whether it succeeded

builderVars == <<kind, builder, history>>

\* what the setters of PodBuilder and ContainerBuilder do: one field, or the
\* several fields that one argument fills
set(b, fields) == Ok([b EXCEPT !.fields = Overlay(@, fields)])

\* Option<Vec>::get_or_insert_with(Vec::new).extend
extend_list(b, field, items) ==
    LET old == IF b.fields[field] = None THEN <<>> ELSE b.fields[field]
    IN  set(b, [x \in {field} |-> old \o items])

------------------------------------------------------------------------------
(* Volumes of the listener operator, and the calls that add volumes *)

\* ListenerReference::to_annotation
ListenerAnnotation(reference, name) == [key |-> reference, value |-> name]

build_ephemeral(annotation) ==
    [storage_class |-> "listeners.stackable.tech", annotations |-> {annotation}]

add_listener_volume_by_listener_class(name, class) ==
    <<VolumeBuilder_build(name, <<build_ephemeral(ListenerAnnotation("listener-class", class))>>)>>

add_listener_volume_by_listener_name(name, listener) ==
    <<VolumeBuilder_build(name, <<build_ephemeral(ListenerAnnotation("listener-name", listener))>>)>>

\* the volumes or mounts of a call, as they are built
Offered(c) ==
    CASE c.call = "add_volumes" ->
            [i \in DOMAIN c.volumes |-> VolumeBuilder_build(c.volumes[i].name, c.volumes[i].sources)]
      [] c.call = "add_listener_class" -> add_listener_volume_by_listener_class(c.name, c.listener)
      [] c.call = "add_listener_name" -> add_listener_volume_by_listener_name(c.name, c.listener)
      [] c.call = "add_volume_mounts" ->
            [i \in DOMAIN c.mounts |->
                VolumeMountBuilder_build(c.mounts[i].name, c.mounts[i].path, c.mounts[i].options)]
      [] OTHER -> <<>>

------------------------------------------------------------------------------
(* PodBuilder *)

AffinityFields == {"pod_affinity", "pod_anti_affinity", "node_affinity", "node_selector"}

PodFields ==
    AffinityFields \cup {"metadata", "service_account_name", "host_network", "node_name",
        "restart_policy", "security_context", "termination_grace_period_seconds",
        "status", "tolerations", "image_pull_secrets"}

PodBuilder_new ==
    [fields |-> [x \in PodFields |-> None], items |-> <<>>,
     containers |-> <<>>, init_containers |-> <<>>]

\* all four parts are replaced, those that are absent in the argument too
affinity(b, affinities) == set(b, [x \in AffinityFields |-> affinities[x]])

\* phase and with_condition create the status when there is none
with_status(b, condition) ==
    set(b, [status |-> (IF b.fields.status = None THEN {} ELSE b.fields.status) \cup {condition}])

DefaultLimits == [cpu |-> "10m", memory |-> "128Mi"]
DefaultResources == [limits |-> DefaultLimits, requests |-> DefaultLimits]

ASSUME ResourcesAreSome == None # DefaultResources

\* init containers without resources get default limits and requests
add_init_container(b, container) ==
    Ok([b EXCEPT !.init_containers = Append(@,
        IF container.resources # None THEN container
        ELSE [container EXCEPT !.resources = DefaultResources])])

add_container(b, container) == Ok([b EXCEPT !.containers = Append(@, container)])

\* seconds that do not fit into an i64 are refused
termination_grace_period(b, duration) ==
    IF duration.secs <= MaxI64
    THEN set(b, [termination_grace_period_seconds |-> duration.secs])
    ELSE [ok |-> FALSE, error |-> "TerminationGracePeriodTooLong", value |-> b]

PodCall(b, c) ==
    CASE c.call = "set" -> set(b, c.fields)
      [] c.call = "affinity" -> affinity(b, c.affinities)
      [] c.call = "with_status" -> with_status(b, c.condition)
      [] c.call = "extend" -> extend_list(b, c.field, c.list)
      [] c.call \in {"add_volumes", "add_listener_class", "add_listener_name"} -> add_volumes(b, Offered(c))
      [] c.call = "add_container" -> add_container(b, c.container)
      [] c.call = "add_init_container" -> add_init_container(b, c.container)
      [] c.call = "termination_grace_period" -> termination_grace_period(b, c.duration)

build_spec(b) ==
    [containers |-> b.containers, init_containers |-> b.init_containers,
     affinity |-> [x \in AffinityFields \ {"node_selector"} |-> b.fields[x]],
     node_selector |-> b.fields.node_selector,
     enable_service_links |-> FALSE,
     volumes |-> IF b.items = <<>> THEN None ELSE b.items]

\* a Pod needs metadata; a template does not, and never has a status
PodBuilder_build(b) ==
    IF b.fields.metadata = None THEN Err("MissingObjectKey")
    ELSE Ok([metadata |-> b.fields.metadata, spec |-> build_spec(b), status |-> b.fields.status])

build_template(b) == [metadata |-> b.fields.metadata, spec |-> build_spec(b)]

------------------------------------------------------------------------------
(* ContainerBuilder *)

ContainerFields ==
    {"image", "image_pull_policy", "command", "args", "env", "container_ports",
     "resources", "security_context", "readiness_probe", "liveness_probe", "startup_probe",
     "post_start", "pre_stop"}

\* new refuses a name that is no DNS label (Names)
ContainerBuilder_new ==
    [fields |-> [x \in ContainerFields |-> None], items |-> <<>>]

image_from_product_image(b, product_image) ==
    set(b, [image |-> product_image.image, image_pull_policy |-> product_image.pull_policy])

\* lifecycle replaces both hooks; lifecycle_post_start and _pre_stop one
lifecycle(b, lifecycle_) ==
    set(b, [x \in {"post_start", "pre_stop"} |-> lifecycle_[x]])

\* environment variables are appended, whatever their source, duplicates too
add_env_vars(b, env_vars) == extend_list(b, "env", env_vars)

ContainerCall(b, c) ==
    CASE c.call = "set" -> set(b, c.fields)
      [] c.call = "image_from_product_image" -> image_from_product_image(b, c.image)
      [] c.call = "lifecycle" -> lifecycle(b, c.lifecycle)
      [] c.call = "add_env_vars" -> add_env_vars(b, c.env_vars)
      [] c.call = "add_volume_mounts" -> add_volumes(b, Offered(c))

ContainerBuilder_build(b) ==
    Overlay(b.fields, [volume_mounts |-> IF b.items = <<>> THEN None ELSE b.items])

------------------------------------------------------------------------------
(* EnvVarSet: a map from the name to a value, a field path or a key reference *)

\* with_env_var parses the name first; with_value and the others are given one
\* that is valid, and with_values is the same for each of several
with_env_var(set_, name, source) ==
    IF name \in InvalidEnvVars THEN [ok |-> FALSE, error |-> "ParseEnvVarName", value |-> set_]
    ELSE Ok(Overlay(set_, [x \in {name} |-> source]))

EnvVarSet_merge(set_, other) == Ok(Overlay(set_, other))

EnvVarCall(b, c) ==
    CASE c.call = "with_env_var" -> with_env_var(b, c.name, c.source)
      [] c.call = "set" -> EnvVarSet_merge(b, c.fields)

------------------------------------------------------------------------------
(* Security contexts: options in groups, of a container and of a pod *)

SecurityGroups ==
    [se_linux_options |-> {"level", "role", "type", "user"},
     seccomp_profile |-> {"localhost_profile", "type"},
     windows_options |-> {"gmsa_credential_spec", "gmsa_credential_spec_name", "run_as_user_name"}]

\* an option belongs to a group, or is one of the context itself
IsSecurityCall(c) ==
    IF c.group = None THEN c.option \in {"run_as_non_root", "run_as_user"}
    ELSE c.group \in DOMAIN SecurityGroups /\ c.option \in SecurityGroups[c.group]

\* what a group of options is, once one of them was set
GroupValues(group) == [SecurityGroups[group] -> {None} \cup {c.value : c \in SecurityCalls}]

ASSUME SecurityConstants ==
    /\ \A c \in SecurityCalls : IsSecurityCall(c)
    /\ None \notin DOMAIN SecurityGroups
    /\ \A group \in DOMAIN SecurityGroups : None \notin GroupValues(group)

\* SecurityContextBuilder: get_or_insert_with(default), then one option
container_option(context, group, option, value) ==
    [context EXCEPT ![group] =
        [(IF @ = None THEN [x \in SecurityGroups[group] |-> None] ELSE @) EXCEPT ![option] = value]]

\* PodSecurityContextBuilder: a new group with the option, the rest default or as it was
pod_option(context, group, option, value) ==
    [context EXCEPT ![group] =
        [x \in SecurityGroups[group] |->
            IF x = option THEN value ELSE IF @ = None THEN None ELSE @[x]]]

\* the pod context starts with runAsNonRoot, the container context with nothing
with_stackable_defaults ==
    [container |-> [x \in DOMAIN SecurityGroups \cup {"run_as_non_root", "run_as_user"} |-> None],
     pod |-> [x \in DOMAIN SecurityGroups \cup {"run_as_non_root", "run_as_user"} |->
                IF x = "run_as_non_root" THEN TRUE ELSE None]]

SecurityCall(b, c) ==
    IF c.group = None
    THEN Ok([b EXCEPT !.container[c.option] = c.value, !.pod[c.option] = c.value])
    ELSE Ok([container |-> container_option(b.container, c.group, c.option, c.value),
             pod |-> pod_option(b.pod, c.group, c.option, c.value)])

------------------------------------------------------------------------------
(* ProbeBuilder *)

\* action, with the defaults, and with_period: the types demand them first
ProbeBuilder_new(period) ==
    [period |-> period, success_threshold |-> 1, failure_threshold |-> 1, timeout |-> Whole(1),
     initial_delay |-> Whole(0), termination_grace_period |-> None]

\* the nanoseconds of a Duration as an f32: of the seconds and of the rest
Nanos32(duration) ==
    Add32(Mul32(Ratio32(duration.secs, 1), Ratio32(1000000000, 1)), Ratio32(duration.millis * 1000000, 1))

\* Duration::div_duration_f32
div_duration_f32(duration, period) == Div32(Nanos32(duration), Nanos32(period))

\* clamped to 0..i32::MAX as f32, which rounds i32::MAX up; the cast back saturates
threshold(duration, period) ==
    LET periods == div_duration_f32(duration, period)
    IN  IF Less32(periods, Ratio32(MaxI32, 1)) THEN Ceil32(periods) ELSE MaxI32

with_threshold_duration(b, field, duration) ==
    IF b.period = Whole(0) THEN [ok |-> FALSE, error |-> "PeriodIsZero", value |-> b]
    ELSE Ok([b EXCEPT ![field] = threshold(duration, b.period)])

ProbeCall(b, c) ==
    CASE c.call = "threshold_duration" -> with_threshold_duration(b, c.field, c.duration)
      [] c.call = "set" -> Ok(Overlay(b, c.fields))

\* whole seconds, which must fit into an i32, those of the grace period into an i64
ProbeBuilder_build(b) ==
    LET grace == b.termination_grace_period
    IN  IF \/ \E d \in {b.period, b.timeout, b.initial_delay} : d.secs > MaxI32
           \/ grace # None /\ grace.secs > MaxI64
        THEN Err("DurationTooLong")
        ELSE Ok([period_seconds |-> b.period.secs, timeout_seconds |-> b.timeout.secs,
                 initial_delay_seconds |-> b.initial_delay.secs,
                 termination_grace_period_seconds |-> IF grace = None THEN None ELSE grace.secs,
                 failure_threshold |-> b.failure_threshold,
                 success_threshold |-> b.success_threshold])

------------------------------------------------------------------------------
(* SecretOperatorVolumeSourceBuilder *)

SecretBuilder_new ==
    [scopes |-> <<>>, format |-> None, password |-> None, kerberos |-> <<>>, lifetime |-> None,
     domain_components |-> None]

\* with_service_scope and its like append, the other setters replace; the
\* scopes of a SecretClassVolume come as pod, node, services, listener volumes
SecretCall(b, c) ==
    CASE c.call = "scope" -> Ok([b EXCEPT !.scopes = Append(@, c.scope)])
      [] c.call = "kerberos" -> Ok([b EXCEPT !.kerberos = Append(@, c.name)])
      [] c.call = "set" -> Ok(Overlay(b, c.fields))

\* the password is for PKCS12 stores only and ignored with any other format
tls_pkcs12_password(b) == b.password # None /\ b.format = "tls-pkcs12"

\* an annotation exists only for what was asked for
SecretAnnotations(b) ==
    {"class", "provision-parts"}
        \cup {a \in {"scope"} : b.scopes # <<>>}
        \cup {a \in {"format"} : b.format # None}
        \cup {a \in {"kerberos.service.names"} : b.kerberos # <<>>}
        \cup {a \in {"tls-pkcs12.password"} : tls_pkcs12_password(b)}
        \cup {a \in {"cert.lifetime"} : b.lifetime # None}
        \cup {a \in {"domain-components"} : b.domain_components # None}

SecretBuilder_build(b) ==
    [storage_class |-> "secrets.stackable.tech", access |-> "ReadWriteOnce",
     annotations |-> SecretAnnotations(b), scope |-> b.scopes]

\* SecretClassVolume::to_ephemeral_volume_source
to_ephemeral_volume_source(scope) ==
    (IF scope.pod THEN <<"pod">> ELSE <<>>) \o (IF scope.node THEN <<"node">> ELSE <<>>)
        \o scope.services \o scope.listener_volumes

------------------------------------------------------------------------------
(* Disruption budgets and affinities select pods by their labels *)

Labels_(pod) == [name |-> pod.app, instance |-> pod.cluster, component |-> pod.role, group |-> pod.group]

Selects(match_labels, pod) == \A l \in DOMAIN match_labels : Labels_(pod)[l] = match_labels[l]

\* PodDisruptionBudgetBuilder::new_with_role: the role selector
new_with_role(pod) == [name |-> pod.app, instance |-> pod.cluster, component |-> pod.role]

affinity_between_role_pods(pod) ==
    [name |-> pod.app, instance |-> pod.cluster, component |-> pod.role]

affinity_between_cluster_pods(pod) == [name |-> pod.app, instance |-> pod.cluster]

------------------------------------------------------------------------------
New ==
    [pod |-> {PodBuilder_new}, container |-> {ContainerBuilder_new},
     env |-> {<<>>}, security |-> {with_stackable_defaults},
     secret |-> {[SecretBuilder_new EXCEPT !.scopes = to_ephemeral_volume_source(c.scope)] :
                    c \in {c \in SecretCalls : c.call = "volume"}},
     probe |-> {ProbeBuilder_new(p) : p \in {c.period : c \in {c \in ProbeCalls : c.call = "period"}}},
     placement |-> Pods]

CallsOn ==
    [pod |-> PodCalls, container |-> ContainerCalls, env |-> EnvVarCalls, security |-> SecurityCalls,
     secret |-> {c \in SecretCalls : c.call # "volume"}, probe |-> {c \in ProbeCalls : c.call # "period"}, placement |-> {}]

Result(c) ==
    CASE kind = "pod" -> PodCall(builder, c)
      [] kind = "container" -> ContainerCall(builder, c)
      [] kind = "env" -> EnvVarCall(builder, c)
      [] kind = "security" -> SecurityCall(builder, c)
      [] kind = "secret" -> SecretCall(builder, c)
      [] kind = "probe" -> ProbeCall(builder, c)

BuilderInit ==
    /\ kind \in DOMAIN New
    /\ builder \in New[kind]
    /\ history = <<>>

BuilderNext ==
    /\ Len(history) < MaxCalls
    /\ \E c \in CallsOn[kind] :
        LET r == Result(c) IN
        /\ builder' = r.value
        /\ history' = Append(history, [call |-> c, ok |-> r.ok])
    /\ UNCHANGED kind

BuilderSpec == BuilderInit /\ [][BuilderNext]_builderVars

------------------------------------------------------------------------------
Items == IF kind \in {"pod", "container"} THEN builder.items ELSE <<>>

\* However often volumes and mounts are added, and whoever fails with a
\* collision in between: no name (or mount path) is used twice, each call that
\* succeeded has exactly its content in the result, and nothing else got in.
FirstContentWins ==
    kind \in {"pod", "container"} =>
        /\ \A i, j \in DOMAIN Items : Items[i].key = Items[j].key => i = j
        /\ \A i \in DOMAIN history :
              history[i].ok => Range(Offered(history[i].call)) \subseteq Range(Items)
        /\ Range(Items) \subseteq UNION {Range(Offered(history[i].call)) : i \in DOMAIN history}

\* the fields a call is documented to determine
Writes(c) ==
    CASE c.call = "set" -> c.fields
      [] c.call = "affinity" -> c.affinities
      [] c.call = "lifecycle" -> c.lifecycle
      [] c.call = "image_from_product_image" ->
            [image |-> c.image.image, image_pull_policy |-> c.image.pull_policy]
      [] c.call = "with_env_var" -> [x \in {c.name} |-> c.source]
      [] OTHER -> <<>>

\* what comes out of the builder
Built ==
    CASE kind = "container" -> ContainerBuilder_build(builder)
      [] kind = "env" -> builder
      [] kind = "pod" ->
            LET template == build_template(builder)
            IN  Overlay(template.spec.affinity,
                        [node_selector |-> template.spec.node_selector, metadata |-> template.metadata])

\* what the last successful call about a field said of it
Decided(f) ==
    LET about == {i \in DOMAIN history : history[i].ok /\ f \in DOMAIN Writes(history[i].call)}
        last == CHOOSE i \in about : \A j \in about : j <= i
    IN  IF about = {} THEN None ELSE Writes(history[last].call)[f]

\* Each field of a built pod or container, and each variable of an EnvVarSet,
\* is what the last successful call that is about it said, an absent value
\* included: affinity() and lifecycle() leave nothing of earlier calls behind.
LastCallDecides ==
    kind \in {"pod", "container", "env"} =>
        \A f \in DOMAIN Built \ {"volume_mounts", "env"} : Built[f] = Decided(f)

\* the containers that calls of one kind were given
Given(call) ==
    {history[i].call.container : i \in {i \in DOMAIN history : history[i].call.call = call}}

\* Every init container of a built pod has resources: its own if it has some,
\* else limits with equal requests.  No other container is given any.
InitContainersAreLimited ==
    kind = "pod" =>
        LET spec == build_template(builder).spec
        IN  /\ \A c \in Range(spec.init_containers) :
                  /\ c.resources # None
                  /\ c \in Given("add_init_container") \/ c.resources.limits = c.resources.requests
            /\ Range(spec.containers) = Given("add_container")
            /\ PodBuilder_build(builder).ok => PodBuilder_build(builder).value.spec = spec

\* An option of a security context keeps the value it was given last, whatever
\* is set beside it in its group, and in the contexts of pods and of
\* containers alike although the two are written in different ways.
SecurityOptionsAreKept ==
    kind = "security" =>
        \A i \in DOMAIN history :
            LET c == history[i].call
                replaced == \E j \in DOMAIN history :
                                j > i /\ history[j].call.group = c.group /\ history[j].call.option = c.option
            IN  (~replaced /\ c.group # None) =>
                    /\ builder.pod[c.group][c.option] = c.value
                    /\ builder.container[c.group] = builder.pod[c.group]

\* A password is passed on for PKCS12 stores only, whether it is set before or
\* after the format, and every requested scope reaches the secret operator in
\* the order of the requests.
SecretVolumesAsRequested ==
    kind = "secret" =>
        LET built == SecretBuilder_build(builder)
            requests == {i \in DOMAIN history : history[i].call.call = "scope"}
            place(i) == Len(built.scope) - Cardinality({j \in requests : j > i})
        IN  /\ "tls-pkcs12.password" \in built.annotations =>
                    "format" \in built.annotations /\ builder.format = "tls-pkcs12"
            /\ ("scope" \in built.annotations) <=> (built.scope # <<>>)
            /\ \A i \in requests :
                  place(i) \in DOMAIN built.scope /\ built.scope[place(i)] = history[i].call.scope

\* the calls that determine the failure threshold, directly or by a duration
SetsFailures(c) ==
    IF c.call = "set" THEN "failure_threshold" \in DOMAIN c.fields ELSE c.field = "failure_threshold"

\* the failure duration asked for, unless with_failure_threshold came later
FailureDurations ==
    LET last == {i \in DOMAIN history :
                    /\ SetsFailures(history[i].call)
                    /\ \A j \in DOMAIN history : SetsFailures(history[j].call) => j <= i}
    IN  {history[i].call.duration : i \in {i \in last : history[i].ok /\ history[i].call.call # "set"}}

\* The threshold of a built probe comes from the last failure duration that
\* was asked for and from the period of the probe, also when the threshold was
\* set otherwise before, or a later request was refused.
ThresholdsFollowRequests ==
    kind = "probe" =>
        LET probe == ProbeBuilder_build(builder)
        IN  probe.ok => \A d \in FailureDurations :
                /\ builder.period # Whole(0)
                /\ probe.value.failure_threshold = threshold(d, builder.period)

\* count times a duration
Times(count, duration) ==
    LET rest == (count % 1000) * duration.millis
    IN  [secs |-> count * duration.secs + (count \div 1000) * duration.millis + rest \div 1000,
         millis |-> rest % 1000]

Plus(duration, millis) ==
    [secs |-> duration.secs + (duration.millis + millis) \div 1000,
     millis |-> (duration.millis + millis) % 1000]

AtMost(d, e) == d.secs < e.secs \/ (d.secs = e.secs /\ d.millis <= e.millis)

\* what the rounding of the quotient may cost: a 2000000th of the duration, in milliseconds
Inaccuracy(duration) == duration.secs \div 2000

\* A probe that was asked to fail after a duration fails after so many attempts
\* that their periods cover it, and one attempt fewer would not exceed it, but
\* for the rounding of large durations and up to the largest threshold.  The period
\* that Kubernetes is given lacks the part of a second, once per attempt.
ProbesCoverDuration ==
    kind = "probe" =>
        LET built == ProbeBuilder_build(builder)
            attempts == built.value.failure_threshold
            cut == [secs |-> built.value.period_seconds, millis |-> builder.period.millis]
        IN  built.ok => \A d \in FailureDurations :
                /\ attempts < MaxI32 => AtMost(d, Plus(Times(attempts, cut), Inaccuracy(d)))
                /\ attempts > 0 => AtMost(Times(attempts - 1, cut), Plus(d, Inaccuracy(d)))

\* The budget of a role and the affinity between its pods select the same
\* pods: all role groups of the role, in this cluster only.
BudgetsSelectTheirRole ==
    kind = "placement" =>
        \A p \in Pods :
            LET same == p.app = builder.app /\ p.cluster = builder.cluster
            IN  /\ Selects(new_with_role(builder), p) <=> (same /\ p.role = builder.role)
                /\ Selects(affinity_between_role_pods(builder), p) <=> (same /\ p.role = builder.role)
                /\ Selects(affinity_between_cluster_pods(builder), p) <=> same

\* A built object is what the sequence of calls asked for.
CallsDecide ==
    /\ FirstContentWins /\ LastCallDecides /\ InitContainersAreLimited
    /\ SecurityOptionsAreKept /\ SecretVolumesAsRequested /\ ThresholdsFollowRequests
    /\ BudgetsSelectTheirRole

\* A built object is what was asked for, probes that last long enough included.
BuiltAsCalled == CallsDecide /\ ProbesCoverDuration

==============================================================================
