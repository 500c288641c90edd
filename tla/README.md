# A TLA+ model of operator-rs

This directory holds TLA+ modules that model [operator-rs](../src/README.md), the framework
the Stackable operators are built on, TLC configurations that check them on small instances,
and proofs that TLAPS checks for all instances. Paths below are relative to `src/crates/`;
`OP` is `stackable-operator/src`, `WH` is `stackable-webhook/src`.

`PROJECT.json` lists the components, runs, mutants, theorems, hazards and findings, and maps
each definition to the source lines it models.

## 1. The system

operator-rs is a library. A Stackable operator is a process that links it and runs

* one or more **controllers** (`kube::runtime::Controller`): a reflector caches the cluster
  objects (custom resources), and a change of one of them or of what it owns triggers the
  controller's `reconcile`. At most one reconciliation per cluster object and controller
  runs at a time, but several controllers of one operator may work on the same cluster
  object, and during a rolling update two operator processes run;
* a **webhook server**, which the API server calls to convert and mutate objects and whose
  certificate it must trust; the conversions are generated by the **#[versioned] macro**
  from the history of each field;
* an **end-of-support checker** and a **signal watcher** for the shutdown, and **telemetry**
  around all of it.

A `reconcile` function follows the pattern documented at `OP/cluster_resources.rs:367`:
create `ClusterResources` from the cached cluster object, merge the configuration of
product, role and role group, build the objects with the builders (Pods with their volumes,
connections, logging and git-sync containers), `add` each one, create missing random
Secrets, call `delete_orphaned_resources`, compute the status conditions from what `add`
returned, patch the status, and report an error as an event. In the pods that result, shell
code that the library generates starts and stops the product and its Vector agent.

### Inventory

| Component | State | Operations | What makes it correct |
|---|---|---|---|
| Cluster resources (`OP/cluster_resources.rs`) | the snapshot of the cluster object, `resource_ids`, the objects in the API server | `new`, `add` (label check, mutation, overrides, apply strategy), `delete_orphaned_resources` | deletes only orphans, deletes all of them, `stopped` stops, converges after any failure |
| Webhook server (`WH`) | served certificate, channel of capacity 1, update loop, caBundles, connections | serve, rotate, write bundles, report the initial reconciliation, shut down | no certificate gets lost, none is trusted before it is served or served after it expired, shutdown ends |
| Random secrets (`OP/commons/random_secret_creation.rs`) | the Secret, what the caller read | get, delete, create | contents survive the migration to a mutable Secret |
| Status conditions (`OP/status/condition`) | workload status, operation flags, stored conditions | builders, merge, timestamps, patch | conditions say what was seen, transition times mark transitions, the status settles |
| Kubernetes client (`OP/client/mod.rs`) | none of its own; calls of several requests | get, create, patch, delete, wait | a call takes effect at once or fails, waits return |
| Signal watcher, end-of-support checker, start-up (`OP/utils/signal.rs`, `OP/eos`) | a watch channel, an interval, a timeout | handles, ticks, warning, CRD wait | each handle completes, warn only when due, waits end in time |
| Config merge, fragments, overrides, roles (`OP/config`, `OP/role_utils.rs`, `OP/v2`) | none | merge three levels, validate | the most specific level wins; merging is associative; both generations agree |
| CRD versioning (`stackable-versioned*`, `k8s-version`) | change history of fields, objects in some version | expand, convert, track | generated code compiles, conversions keep values |
| Quantities and durations (`OP/memory.rs`, `OP/cpu.rs`, `stackable-shared/src/time`) | none | parse, scale, round, format | bounded rounding loss, round trips |
| Names, labels, validation, image selection (`OP/kvp`, `OP/validation.rs`, `OP/v2/types`, `OP/commons/product_image_selection.rs`) | sets of key/value pairs | parse, compose, shorten, select | syntax, uniqueness, selectors match |
| Builders (`OP/builder`) | objects under construction | add containers, volumes, mounts, probes, budgets | no duplicate or clashing entries, the last call decides |
| Product logging (`OP/product_logging`, `OP/utils/bash.rs`) | log files, shutdown file, processes of a pod | configure frameworks, transform events, size volumes, shut down | events arrive as configured, Vector ends last |
| Connections (`OP/crd`, `OP/database_connections`) | volumes and variables of a pod | resolve, mount, build URLs | files and credentials are where the product is told |
| Git sync (`OP/crd/git_sync`) | none | build containers, convert versions | as above; user options do not replace internal ones |
| Reports, feature gates (`OP/logging`, `OP/client/feature_gates.rs`) | none | events, notes, gates | nothing silent, nothing cut wrongly |
| Telemetry (`stackable-telemetry`) | process-wide subscriber, exporters, request spans | configure, init, drop, trace | exporters live as long as their owner, traces stay apart |
| Certificates, YAML, CLI, tools | mostly none | cryptography, layout, I/O | see `PROJECT.json` |

Behaviours that are hard to test, and where they come from:

* each `.await` in a reconciliation is a point where the user, another controller, the
  garbage collector or Kubernetes itself can change what was read before;
* the reflector lags: a reconciliation may work on a cluster object that was edited, deleted
  or created again under the same name;
* `try_join!` runs the sweeps of all kinds concurrently and drops the rest when one fails,
  while requests that were already sent take effect later;
* the two futures of the webhook server share one task and a channel of capacity one; its
  rotation timer follows the monotonic clock, certificates the wall clock;
* the process may stop at any point, and its only persistent state is in the API server;
* the shell code in the pods handles signals between any two commands, and its two
  containers talk through a file;
* an object travels through versions of its CRD in any order and is edited in each;
* limits (63 characters, 1024 bytes, an f32, whole seconds) are met where nobody looks.

The `hazards` of `PROJECT.json` name each at its line, with the properties that cover it.

## 2. Modules

| Module | Models |
|---|---|
| `ClusterResources` | controllers, cluster objects, API server, reflectors, garbage collector |
| `WebhookServer` | TLS server, certificate update loop, connections, process restarts |
| `RandomSecret` | `create_random_secret_if_not_exists` |
| `StatusConditions` | condition builders, `compute_conditions`, status patches |
| `OperatorProcess` | start-up, signal watcher and handles, end-of-support checker, wait for a CRD |
| `SignalBroadcast` | abstract: one signal multiplied to all handles |
| `ClientCalls` | the client's calls as the requests they consist of |
| `AtomicStore` | abstract: a successful call takes effect at one moment |
| `VectorAgent` | the product's script and the Vector container of one pod |
| `LoggingConfig` | `Merge`, `FromFragment` and the derive macros, on the logging configuration |
| `RoleConfig` | roles and role groups in both generations of the code |
| `VersionedCrds` | the `#[versioned]` macro, the conversions it generates, order of versions |
| `Quantities`, `Float32` | memory, CPU, durations, resource requirements; Rust's `f32` |
| `Names` | validators, string types, composed names, keys, image versions, labels, selectors, metadata, RBAC |
| `PodBuilder`, `PodVolumes` | builders of Pods, containers, probes, budgets; volumes and mounts |
| `LogPipeline` | log configurations per framework, Vector's transforms, sizes of log volumes |
| `Connections` | S3, LDAP, OIDC, TLS, databases |
| `GitSync` | git-sync containers of v1alpha1 and v1alpha2 and their conversion |
| `ControllerReports` | controller errors as events, feature gates |
| `Telemetry` | `Tracing`, its builder, the axum layer |
| `Options` | `Option` and `Result` |
| `MC*` | instances for TLC; `MCLibrary` and `MCOperator` run several of the above together |
| `ClusterResourcesProofs`, `NamesProofs` | theorems about `ClusterResources` and `Names` |
| `ServerProofs` | theorems about `WebhookServer`, `Telemetry`, `ControllerReports` and `LogPipeline` |
| `OperatorProofs` | theorems about `RandomSecret`, `ClientCalls`, `OperatorProcess`, `VectorAgent` and `StatusConditions` |
| `PodProofs` | theorems about `PodVolumes`, `Connections`, `GitSync` and `PodBuilder` |
| `RoleConfigProofs` | theorems about `LoggingConfig` and `RoleConfig` |
| `LibraryProofs` | theorems about `VersionedCrds` and the durations of `Quantities` |
| `Recursion` | lemmas on numbers and recursive functions that these rest on |

An operator named `X_Y` next to `X` is the definition `X` with a plausible mistake; each
property has one that violates it (`mutants` in `PROJECT.json`). They are not used by the
specifications.

`MCLibrary` composes the components that compute something from their input. They share no
state, so a behaviour is one of exactly one of them (`part`), and the others stay in an
initial state. `MCOperator` does the same for the running parts; those that do not run are
put where none of their actions is enabled, so that their fairness asks for nothing. Where
one component uses another, it does so through the operators themselves: `RoleConfig`
extends `LoggingConfig`, `GitSync` extends `Connections`, and both use `PodVolumes`, as
`PodBuilder` does.

### ClusterResources

State: `cluster[c]`, `store[r]` are the API server; `cache[p]` is the reflector; `pc`,
`snap`, `todo`, `resource_ids`, `listed`, `orphans`, `result` are the local state of the
reconciliation of `p` (a controller and a cluster object); `inflight` holds delete requests
of futures that were dropped. An object is a UID, its owner, the three labels that identify
it, and whether it runs Pods.

| Action | Code |
|---|---|
| `Start` | `ClusterResources::new` on the cached object |
| `AddRejected`, `AddOverrideFails`, `AddApplies`, `AddGets`, `AddGetsNothing`, `AddDryRun`, `AddFails` | one call of `add` and its outcomes, in the order of its checks |
| `BeginSweep`, `ListKind`, `ListFails`, `DeleteOrphan`, `DeleteGone`, `DeleteFails`, `Finish` | `delete_orphaned_resources`, one list call per kind, then one delete call per orphan; kinds interleave |
| `Return` (part of the failing actions) | an error leaves `reconcile`; its ClusterResources is dropped |
| `LateDelete`, `LoseDelete`, `GarbageCollect`, `WatchEvent`, `ForeignCreate`, `Crash`, edits by users | the environment |

`maybe_mutate` gives the Pods of StatefulSets, DaemonSets and Deployments (not Jobs) of a
stopped cluster; `apply_to` is the user's override, merged after that. Server-side apply
keeps the UID of an existing object and takes over its labels and owner.

### WebhookServer

`TlsServerStep` is `TlsServer::run`: `Bind`, then the biased `select!` with `Shutdown`,
`CheckRotation` followed by `Generate` and `Send` (rotation happens inside the select
branch, so nothing else is polled until it is done), and `Accept`. `UpdateLoopStep` is the
loop of `WebhookServer::run`: `Receive`, then per webhook `SkipHook`, `Patch` of each
object, `HookDone`. A failure ends `try_join!` and with it the process, which is restarted.
`SenderAlive` says who still holds the sending half of the channel: the server, and each
connection task through its `TlsAcceptor`.

### OperatorProcess, ClientCalls and their abstractions

In `OperatorProcess`, `watch` is the value and version of the watch channel, `receiver[h]`
the version a handle has seen, `eos` the checker with the time its interval is due, `crd`
and `wait` the CRD and the wait for it, whose view of the CRD lags. `SignalBroadcast` knows
only whether the signal was sent and who waits; `SignalIsBroadcast` maps the channel onto
it.

`ClientCalls` serves a call request by request: `create_if_missing` looks and then creates,
`ensure_deleted` deletes and then watches for the UID to disappear, `list` has the objects
of one `endpoint` (a namespace, or the cluster), `update` may carry the version the caller
`read` and is then refused if another one is stored; a request may be refused for other
reasons, and others create, change and finalize in between. `AtomicStore` lets a call take
effect at one moment. `CallsAreAtomic` maps the objects and the pending calls onto it.

### VectorAgent

`script` is the place in the product's start script with the functions of
`OP/utils/bash.rs`, `product` and `agent` the two processes, `shutdown_file` what they
share. `Trap` runs the signal handler between two commands or by ending `wait`. The Vector
container tests for the file, establishes its watch, sleeps and kills Vector. The pod may be
deleted, and containers restarted as its policy says.

### RandomSecret and StatusConditions

`Get`, `Delete`, `Create` are the three requests of `create_random_secret_if_not_exists`,
with rejected requests and lost responses as separate outcomes. `kept` remembers the
contents users rely on, and `interrupted` that a migration was cut off or met another
process; they are not state of the code and only the properties read them.

In `StatusConditions`, `Begin` reads the cluster object, `Add` applies the workloads one by
one (a stopped cluster's without replicas, unless `overrides`, its objectOverrides, give
them some) and reads what the API server has, `Compute` folds the builders' condition sets and stamps the times, `PatchStatus`
writes. `merge` takes the condition of higher rank for each type and joins the messages of
equal ones; messages are the sets of workloads they name.

### LoggingConfig and RoleConfig

The library keeps no state here: a custom resource comes in, the configuration of a role
group goes out. `spec` is the custom resource together with the operator's defaults, and
`merged[g]` and `validated[g]` are what the first generation (`OP/role_utils.rs`,
`OP/config_overrides.rs`) and the second (`OP/v2`) make of role group `g`; the actions
`Merge` and `Validate` stand for a product operator's calls. Both generations get the same
input, so that they can be compared where they must agree.

`LoggingConfig` uses the logging section because it exercises all of the merge: a map of
containers, an enum inside it, a map and optional structs inside that. `None` is a model
value; keys whose order matters (containers, loggers, environment variables) are numbers. A
regular expression is the set of arguments its anchored form matches, or invalid. JSON
documents are flat, which is enough to tell patches and their order apart. `KeyLess` is the
lexicographic order of the descending name lists that the code sorts environment variables
by, stated on sets: the list that has the greatest name not in both is the greater one. The
recursion of `apply_to` is unrolled to the depth that three layers reach; sequences of file
overrides are never nested, which `ConfigOverridesLayered` checks.

### VersionedCrds

`Expand` is the macro: it validates a declaration, turns the actions of each item into a
change per version, fills the versions in between from their neighbours, and gives the
definitions and conversions that the generated code consists of. `Submit`, `Edit`, `Convert`
and `Review` are users and the API server, who create an object in some version, change
fields and send ConversionReviews to the generated `try_convert`. `truth` is what a user
last put into each field and in which version; only the properties read it. A version is a
position in the order of `k8s-version`, whose comparison of versions and levels is modelled
too. `KnownGap` names the declarations that the macro accepts although their code does not
compile or cannot keep values (section 6).

### Parts that compute

`Quantities` keeps numbers as the code does: `Float32` rounds every operation to 24 bits,
ties to even. `Names` has texts as sequences of character classes (letters, digits, the
separators, a two-byte letter), so that limits in bytes and in characters differ; lengths
are scaled down, and the `const` assertions of the code are its assumption `NameLengths`.
`PodBuilder` keeps the calls made on a builder next to its state, so that its properties can
say what the last of them asked for. `LogPipeline` knows an event by which of its fields are
there and usable. `Connections` and `GitSync` put volumes, mounts and variables together as
`PodVolumes` collects them. `Telemetry` has a `Tracing` that is built, initialised layer by
layer and dropped, and requests that are polled in turns on a worker.

## 3. Runs

| Run | Shows |
|---|---|
| `reconcile_interleaved` | two controllers on one cluster, one sometimes in a dry run, under edits, object overrides, faults, deletions and crashes: `OrphansStillOwn`, `NoOrphansAfterSuccess`, `StoppedRunsNoPods` |
| `reconcile_recreated` | the first two for two clusters that are deleted and created again, next to an object with propagated labels, a resource `add` rejects and a kind that may not be listed |
| `reconcile_converges` | `Converges`: a cluster that is not paused ends up as asked |
| `webhook_rotation` | `NoLostRotation`, `BundleNeverAhead`, `NeverExpired`, `InitialReconcileSound`, and under fairness `BundlesCatchUp`, `InitialReconcileHappens`, `ShutdownWithoutClients` |
| `conditions` | `AvailableIsAccurate`, `StoppedIsNotAvailable` (but for overrides), `TransitionTimes` for runs that start from the stored conditions, and `Settles`, whatever they start from |
| `library` | what is computed from an input is right for every sampled input; the table below |
| `operator_process` | the running parts of an operator and its pods; the table below |
| `reused_name_deleted`, `dry_run_fails`, `webhook_shutdown_hangs`, `random_secret_lost`, `vector_shutdown_missed` | end in a violation, each a finding (section 6) |

The properties of `library`; where one is a conjunction, its named parts are given:

| Property | Says |
|---|---|
| `TightestLayerWins` | role group over role over defaults at every depth of the merge (`LoggingPrecedence`) and in files (`ConfigOverridesLayered`), and no container loses its configuration |
| `GenerationsAgree` | both generations of the configuration code give the same JVM arguments, the grouping of merges is irrelevant (`PrecedingOverridesCompose`), and the ways to count replicas agree |
| `ReferencesComeFirst` | an environment variable follows those it refers to |
| `ExpansionIsSound` | `DefinitionsFollowHistory`: each version has the items its history gives it; `GeneratedCodeCompiles`: conversions and upgrades refer only to what exists |
| `ConversionsKeepValues` | an object read in the version it was written in has the values last written, along any path of conversions |
| `ReviewsAreAllOrNothing` | a ConversionReview is answered with all its objects, in their order and in the desired version, or with none |
| `QuantitiesAreExact` | `JavaHeapFitsQuantity`, `AcceptedCpuIsExact` (below 1000 CPUs, with at most four decimals), `RangesKeepRatio` (what was printed keeps the ratio, or cannot be read back), with `f32` rounding and integer limits |
| `DurationsRoundTrip` | a printed duration reads back as itself; exactly the texts with known units (`d`, `h`, `m`, `s`, `ms`), each once and from large to small, are accepted, as the sum of their groups |
| `NamesAreUsable` | `RoleGroupNamesAreValid`, `ParsedNamesKeepPromises`, `ShortenedKeysFit`, `ImagesAreLabelled`, `SelectorsMatchLabels`, `QueriesSelectTheSame`, `RbacGenerationsAgree`, `MetadataFollowsCalls` |
| `TelemetryIsOwn` | `ExportersBelongToTracing`, `OutputsAsConfigured`, `ResponsesCarryOwnTrace` while requests interleave on a worker |
| `BuiltAsCalled` | what a builder builds follows its calls: the last one decides, init containers are limited, security options are kept, the last duration decides a threshold (`CallsDecide`), which covers it up to the rounding of `f32` and the cut of the period (`ProbesCoverDuration`), budgets select the Pods of their role |
| `LogsArriveAsConfigured` | `EventsKeepContent`, `LevelsRoundTrip`, `FrameworksAgree`, `CapturedAsConfigured`, `LogFilesFitVolume` |
| `ConnectionsAreComplete` | `FilesAreMounted`, `FailsOnlyOnConflict`, `EndpointsAreReachable`, `DatabaseCredentialsAreOwn` |
| `GitSyncIsComplete` | `GitFilesAreMounted`, `InternalOptionsAreKept`, `UpgradeKeepsResources` |
| `ReportsAreComplete` | `EventNotesFit` and are cut at a character, `FailuresAreReported`, `GatesAreComplete` |

The properties of `operator_process`:

| Property | Says |
|---|---|
| `SignalIsBroadcast` | the watch channel with its versions implements `SignalBroadcast`: every handle completes after the signal, whenever it was cloned, and none before it |
| `CheckerIsPunctual` | no support check after the signal, however many ticks are overdue; an ended support period is reported |
| `CrdWaitEndsInTime` | the wait for a CRD ends, and never with a timeout before the timeout |
| `CallsAreAtomic` | every call of the client, request by request, implements `AtomicStore`: one that succeeds took effect at one moment, on its own resource |
| `KeptUnlessInterrupted` | the contents of a Secret survive a migration nothing interrupts |
| `VectorOutlivesProduct` | in a pod that is not restarted Vector ends last, with everything sent |
| `PartsProgress` | `WaitsReturn`: `ensure_deleted` and `wait_created` return; `BecomesMutable`: a mutable Secret exists in the end; `PodStopsAndRestarts`: SIGTERM reaches the product, Vector follows it unless it misses the file (finding 5), and a restarted container has Vector again |

**Bounds.** `MaxDisturbances` caps edits, faults and interference; two suffice for every
pair of them to interleave with a reconciliation at every point, which is what the hazards
need (a crash and an edit, an edit and an outside deletion); the run about reused names
needs four, and so do two migrations of a Secret that each meet two faults. `MaxUid` caps
how many objects are created while a reflector lags. Two clusters, two reconcilers of one
cluster and up to four resources give each reconciler something of its own, something shared
by kind and something foreign. For the webhook server, the lifetime of a certificate covers
several check intervals, and `MaxTime` lets a rotation start while an earlier certificate is
still being written, before and after a restart; a jump of the wall clock by one makes a
certificate due early. In `StatusConditions` a workload with one replica is either ready or
not, which is all that the builders tell apart; one workload of each kind lets each builder
disagree with the others, and overrides may start one or both of the two that
have replicas.

In `OperatorProcess`, `MaxTime` 3 with an interval and a timeout of 2 has ticks before, at
and after each deadline. In `ClientCalls`, `MaxUid` 2 lets an object be created again behind
a waiting caller and `MaxVersion` 1 lets a replace be outdated. In `VectorAgent`, `MaxExits`
2 allows a restart of each container, and one unshipped log line shows whether it is lost.

`MCRoleConfig` varies one section of the custom resource at a time over all layers, since
the code merges the sections separately: for logging each kind of choice with set, unset and
absent fields at three levels; for JVM arguments additions, exact removals, patterns and an
invalid pattern at the role and two role groups; for files each kind of override, among them
patches that do not apply; for the environment self-references, cycles, chains up to and
beyond the depth limit (2 instead of 10), references to unknown names and invalid names.
`MCVersionedCrds` has up to four versions, with and without changes in those between, each
way an item can change between them, two edits of a user and three conversions, enough to go
up, edit and come back down. `MCNames` scales the limits of names down so that texts around
each of them are few. `MCQuantities` samples the values at which a unit, a rounding or a
limit changes. The durations of probes include those that no `f32` holds (16777217 s), that
rounding lifts above a multiple of the period (11 s), parts of seconds, and seconds that fit
into an `i64` and not into an `i32`; the two limits are 2^25 - 1 and 10^9 there, since TLC's
integers end where an `i32` does. `MaxCalls` 3 lets a call on a builder
be repeated with another one in between, `MaxMetaCalls` 3 the same for metadata, and
`MaxConnections` 2 lets two connections collide on a volume or a mount.

**Deadlock** is checked except where the system really stops: the webhook server after a
shutdown, or after an error when the restarts are used up; the calls of `library`, which
return; the process and the pods of `operator_process`, which end.

**Fairness.** For `ClusterResources`, each reconciliation proceeds and is triggered again
(kube's controller requeues failures through the operator's `error_policy` and successes
through the watches), watch events arrive and the garbage collector runs; nothing is assumed
of failures, edits or other users, which are bounded. For the webhook server, both futures
are polled and an operator that ended with an error is restarted by Kubernetes; a client
need neither finish its handshake, for which the code has no timeout, nor disconnect. For
`RandomSecret` and `StatusConditions` each process goes on with its calls and starts over
after it returned. For `OperatorProcess`, the runtime polls tasks that were woken and time
passes; neither the signal nor an answer of the API server has to come. For `ClientCalls`,
the API server answers requests and whoever set a finalizer removes it. For `VectorAgent`,
each container goes on; nothing obliges the product to write or to end, or the pod to be
deleted.

## 4. Proofs

Assumptions are those of the modules: the types of the constants, that the combination of
operator and controller name is unique (`ManagersUnique`, required by the documentation of
`ClusterResources::new`), and interval ≤ buffer < lifetime (`IntervalFitsBuffer`, required
by a comment in `WH/tls/cert_resolver.rs`). `SweepDeletesOnlyOrphans`, `SweepIsComplete` and
`StoppedClusterStops` also assume `ForeignNamesApart`, that nobody else creates objects
under the names the operator uses; without it `OrphansStillOwn` is false (finding 1).

*ClusterResources.* `OrphansStillOwn` is not inductive: that a listed orphan is still the
reconciler's own when it is deleted needs to know where any object with an owner came from
(`Provenance`), that UIDs are not shared (`DistinctUids`), that `resource_ids` holds exactly
the UIDs of what was added and still exists (`IdsMatch`), and that no later apply can bring
a listed orphan back under another owner (`OrphansMine`: only the same reconciler builds it,
and it is not wanted in this reconciliation). `ListedComplete` carries completeness through
the interleaved sweeps, `AddedStopped` the effect of `stopped` through the remaining `add`
calls. `Working(p)` gathers these for a reconciliation that is under way, `IndInv` for all;
`ClusterResourcesProofs` has one lemma per action.

*WebhookServer.* `CertOrder` numbers certificates in the order of generation, sending,
serving and writing; with it the channel holds nothing or the served certificate.
`UpdateProgress` says what the update loop has written so far, from which `NoLostRotation`
follows. `Deadline` relates the next check to the expiry, by the wall clock of the last
check. `IndInv` is their conjunction with the types and `InitialReconcileSound`.

*StatusConditions.* `AvailableIsAccurate` speaks of the end of a computation that reads the
workloads one by one. `ComputedFromSeen` says what the condition sets come to when all of
them are folded; the lemmas before it show that the merge by rank keeps the worst status and
collects the names of all workloads that have it, in whatever order the builders are merged.
`SeenStopped` links a stopped cluster to the replicas its own `add` wrote, which is why
Stopped and Available exclude each other unless the overrides that were read give every
StatefulSet and Deployment replicas (`StoppedIsNotAvailable`). `TimesMarkTransitions`
is an action property and follows from `ComputedFromSeen` in the step of the patch.
`ConditionConstants` assumes that DaemonSets have other names than the other workloads,
which are kept in one function.

*RandomSecret.* While nothing interrupted a migration (`Undisturbed`), the Secret has the
contents users rely on, or exactly one process is between delete and create and holds them;
a process that is about to create fresh contents cannot overwrite them, because the API
server refuses to create what exists. `ContentsAreKeptAlone` turns `KeptUnlessInterrupted`
into a promise without ghost state: for a single process without the three faults that fall
between delete and create, the contents are kept.

*ClientCalls implements AtomicStore.* `CallsTakeEffectOnce` goes through each request of each
call: it either leaves the objects and the pending calls of `AtomicStore` unchanged, or is
the moment at which the call takes effect or fails. A caller holds only an object that one
of its calls returned (`HeldObject`, `PromisedObject`), so what an update compares with the
stored object is an object. `ClientInv` is needed to know that a
call that waits for a UID is past its delete. `ClientConstants` assumes that two resources
are two objects of the API server and that `None` is none of the values.

*OperatorProcess and VectorAgent.* `SignalInv` says that a handle completes only after the
channel was written, and that a running checker holds a pending handle: with it every step
is one of `SignalBroadcast` or a stutter (`SignalIsMultiplied`), and a check after the
shutdown is impossible (`ShutdownStopsChecks`). `WaitInv` gives `TimeoutsAreNotEarly`. In
`VectorAgent`, `ShutdownOrder` follows the shutdown file: it is there only after the script
exited, the script exits only after the product, Vector sleeps only after the file.

*Telemetry.* `LifecycleInv` describes a `Tracing` half way through `init` (`IsTracing`: the
layers and providers are those of the outputs that come `Before` the current one), so that
an `init` that fails leaves nothing running; `BuiltSettings` is shown to depend on the last
call per output only, by induction over the calls. `RequestInv` says that no span is entered
between polls and that, once a request exists, nothing its span depends on changes
(`SetUpIsStable`).

*ControllerReports.* A report is computed in one step (`ReportInv`), so `ReportsAreComplete`
is about the operators. The bytes of a text grow with each character (`BytesGrow`), so the
boundary that `find_start_of_char` finds is that of exactly one prefix (`StartIsFound`) and
the next boundary lies behind the limit; hence a cut note ends with a character, fits, and
could not be longer (`TruncatedFits`). The filters for enabled and disabled gates share out
the places of the lines (`FiltersShare`), so none is lost or listed twice.
`ReportConstants` assumes that a character has one to four bytes and that a chain of errors
has at least the error itself.

*LogPipeline.* What is generated follows from its input in one step (`LoggedAsGenerated`).
Levels are compared by their ranks (`LevelOrder`); a literal of log4j lets the events at or
above its level pass, one of logback too, if ERROR counts as FATAL (`LiteralsPass`), and the
level of a logger is found in the generated file where the configuration has it
(`PassesGenerated`). The transforms of Vector differ in few fields (`TransformFacts`), by
which an event tells its time or the lack of one (`EventTimes`). The files of one container
take at most three times its size (`FilesTake`), and so do their sums (`FilesFit`).
`LogPipelineAssumption` assumes that loggers and appenders have levels, that a size is at
least one MiB, and that a file is rolled over before it exceeds its maximum by more than
half a MiB; with more, two files of one MiB would not fit into three.

*Connections.* The pod is built up call by call, so this needs an inductive invariant.
Volumes and mounts are kept in lists in which a key occurs once (`Distinct`); adding to one
either finds the item, appends it, or fails because another item has its key
(`AddVolumeCollects`, `AddVolumesCollects`). Hence items only grow, and each stems from a
service that was connected (`IsWiring`, `Needed`), and what a connected service needs stays
there (`Provided`). What a failure means follows from where the other item came from: two
uses of one SecretClass that differ. `VariablesOf` traces each variable to a database, which
is the only one with this name in upper case. The endpoints are a fact about the operators
(`EndpointIsReachable`), for any host, port and root path. `ConnectionConstants` assumes
what the types say: a port is a number, a verification one of the three variants, a root
path a sequence of segments, and `None` none of them.

*GitSync.* What is built follows from the specification in one step (`GitSyncInv`), so
`GitSyncIsComplete` is about the operators. `add_volumes` keeps all that it is given, so the
mounts of a container are the mounts of the caller and those for the repository, the key
and the certificate (`BaseMounts`, `VolumeMounts`, `ContainerIsCreated`); the variables and
options that name a file name one of these (`RepositoryHasItsFiles`). A variable that the
caller sets replaces the operator's, so `GitFilesAreMounted` excludes it. Options are
overlays of which the operator's come last, except those for git, which keep both and have
the user's last (`ArgsAreLayered`, `ConfigIsLayered`, `RepositoryObeysTheOperator`). An
upgrade after a downgrade gives the specification back, but for SSH credentials
(`DownAndUp`), and both versions build the same from it (`SameResource`, `UpgradeKeeps`).
`GitSyncConstants` assumes that specifications have the fields of the code.

*PodBuilder.* The inductive invariant `BuilderInv` relates what each builder holds to the
calls that were made. For pods and containers it says that each field that a call is
documented to determine is what the last successful call about it said (`LastCallStep`),
that items are distinct and those of the successful calls (`ItemsFollow`), and that the
containers are those given (`GivenStep`). A call is shown to write its fields, to grow its
items and to touch nothing else before the invariant is looked at (`PodCallStep`,
`ContainerCallStep`). A security option is kept in a group that was there or is created
(`OptionIsSet`): both ways in which the code writes it give the same group. Scopes are
found by counting the requests after them (`SecretInvStep`). The failure duration of a
probe is that of the last call about its threshold (`FailureDurationsStep`), whatever the
quotient of the two durations is (`ProbesFollow`); `CallsDecide` is all of `BuiltAsCalled`
but `ProbesCoverDuration`, which is about the value of this quotient. `BuilderConstants` and `SecurityConstants` assume
that arguments have the types of the code; `ResourcesAreSome` and the conjuncts on `None`
that an absent value is none of the values.

*LoggingConfig and RoleConfig.* `RoleInv` says that each result is what the operation makes
of the custom resource; what remains is a fact about the operators, for every custom
resource of the assumed form (`LoggingAssumption`, `RoleConfigAssumption`: the fields have
the types the code gives them).
- `MergeLoggersAssociative`, `RoleGroupWins` and `EveryContainerMerged` hold for all maps.
  Enums do not merge associatively (a role of the other variant hides the defaults from the
  role group), which is why `validate_config` merges the defaults into the role first;
  `ExpectedIsMerged` is the result for that order, and `TightestLayerAlwaysWins` rests on it.
  Its part on files shows that a sequence of overrides, latest first, is applied layer by
  layer (`ApplyFirst`, `ApplySecond`, `ApplyThird`), patches that fail included.
- `GenerationsAlwaysAgree`: removing by two sets one after the other is removing by their
  union, and removal distributes over concatenation (`RetainTwice`, `RetainConcat`); so
  `try_merge`, which removes at once, and `apply_to`, which removes when all is known, give
  the same arguments (`GenerationsApply`), and overrides kept for later compose
  (`ThreeLayersCompose`). The counts agree because each sum has a term for each role group
  (`CountsAgree`).
- `ReferencesAlwaysComeFirst`: a complete closure does not depend on the depth it was
  computed to (`ClosureStable`), contains the closures of what it refers to
  (`ClosureOfReference`) and never the variable itself (`ClosureIsStrict`), so the sort key
  of a variable is greater than those of all it refers to; the order on keys is strict and
  transitive, and the rank of a variable is its place (`RanksAreThePlaces`).

*VersionedCrds.* The macro is applied once, so `VersionedInv` only says that what was
generated is the expansion of what was declared; the rest holds for every declaration with
the types of the code (`VersionedAssumption`).
- `ExpansionAlwaysSound`. An accepted declaration has its versions in strictly ascending
  order (`VersionOrder`, `SortedVersionsAscend`). `into_changeset` goes back through the
  actions of an item and `insert_container_versions` forward through the versions; both
  loops have closed forms (`PastIs`, `ChangesetIs`; `HistoryIs`), by which the status of an
  item in a version is that of the last action up to it, or follows from the next action if
  there is none (`StatusIs`, `StatusSays`). `FieldOfVersion` reads the generated field off
  this status, which is `DefinitionsFollowHistory`. For `GeneratedCodeCompiles`, neighbours
  in the list of versions have nothing between them (`ListedNeighbours`, `NextVersion`), so
  that both sides of an assignment are fields of their definitions (`FieldAssignments`), and
  both sides of a match arm variants of theirs (`VariantArms`).
- `ReviewsAlwaysAllOrNothing`. Each pair of versions has a path of conversions that ends in
  the second one (`PathExists`, `PathEnds`), so an object that parses comes out in the
  desired version (`ObjectConverts`); the loop of `convert_objects` gives all of them, or an
  error if one does not parse (`ObjectsConvert`, `ReviewIsAnswered`).

*Quantities.* `DurationsAlwaysRoundTrip` rests on `DurationAssumption`: texts are sequences
of groups whose value is a number or absent, printed durations fit `u64` milliseconds, and
the largest value of a group is at least that. `DurationInv` says that a result is what the
operation makes of its input; the rest is about the two loops.
- `TextIsRead` is the invariant of the loop of `from_str`: it has not failed so far exactly
  if the groups read are known, in order and none overflows; then the last unit is that of
  the last group and the value the sum of a share for each unit. A further group adds to the
  share of its own unit, which had no group yet (`OneMoreGroup`, `SumGrows`).
- `PrintedIsRead` runs both loops side by side: after each unit, reading what was printed
  gives the whole minus the rest that is left, and the last unit read is no later one
  (`UnitIsPrinted`), so that the next can be appended (`ReadOneMore`). After milliseconds no
  rest is left. That each unit is a multiple of the next is not needed, only what a division
  with rest is (`WholeAndRest`).

*Names.* `NamesAlwaysUsable` rests on `NameLengths` (the `const` assertions of the code, and
that a hash is not empty), `NameInputs` (texts are texts; the names a cluster, role and role
group come with were accepted by their types; suffixes end in a letter or digit),
`ImageInputs` (versions, tags and hashes have the characters such texts have, and
repositories no double slash), `LabelAssumption` and `NoLabelsAssumption`. Most of what is
made is made in one step, so `NamesInv` is `NamesAreUsable` with a stronger conjunct for the
builder of metadata (`BuilderInv`), which says for each key which of the calls so far decided
about it; replacing all labels starts over (`NextBuilder`, `BuiltLabelsFollow`).
- A text is truncated to its longest prefix that fits (`TruncateIs`); what is kept of a label
  is a label unless it ends with a dash, and the dash before the hash covers that
  (`ShortenedLabelIs`), so the shortened name is an RFC 1035 label, starts with the whole
  cluster name, and every type of object accepts it with its suffix (`NamesAre`,
  `ResourceNamesAreValid`).
- `Split` of a text, a separator and another text gives the parts of both (`SplitAfter`,
  `SplitAtSeparator`), by which a trimmed key has the prefix and the name it was made of
  (`JoinedKeyIs`) and a suffix of a subdomain belongs to its last part (`ProductAndSuffix`).
- The schema and `from_str` of a string type go through the same attributes, one with limits
  and expressions combined, the other one by one; for each attribute that is a validator the
  combined limits are its own or tighter, in bytes as in characters, since what the expression
  accepts is ASCII (`HeldIsInSchema`, `SchemaHolds`, `RegexesAreAscii`).
- For labels, a key occurs once in each list (`LabelsByKey`), so an inserted list is the
  function of its pairs and a longer list extends it (`LabelsMatch`). A query of clauses has
  them at its odd places (`JoinedIs`, `QueriesJoined`), and each holds for the same labels as
  its requirement (`ClauseIs`, `RequirementHolds`).
- An ASCII version is cut after `LabelMax` characters, never inside one (`AsciiVersionIs`),
  and as the characters in its middle are all allowed, only its two ends can make it no label
  (`LabelOfVersion`). Trimming removes exactly the slashes around the one that is added
  (`TrimEndIs`, `OneSlash`).

*Recursive functions.* The induction theorems of the library take an operator as parameter,
which the installed provers cannot instantiate. `Recursion` uses its rule for well-founded
sets once, in `LeastNumber`: a nonempty set of numbers has a least element. What is to be
shown of all numbers is then shown by contradiction from the least exception. With it
`IterationExists` shows that a function defined by f[0] and f[n - 1] exists on 0..N, and
`IterationFollows` that it is the one the definition names; `retain`, `Patch`, `apply`,
`apply_to`, `sum`, `SumsOf`, `calculate_closure`, `BuiltSettings`, `BytesUpTo`, `ChainUpTo`,
`Filtered`, `AddedFirst`, `MountedFirst`, `GroupsRead`, `UnitsEmitted`, `PartsUpTo` and
`CombinedFrom` are such functions. Those of `VersionedCrds`
(`into_changeset`, `insert_container_versions`, `ConvertObject`, `ConvertedUpTo`) do not all
count upwards; `LeastNumber` is used on their closed forms instead.

Only model-checked:
- liveness (fairness and ENABLED are out of the prover's reach): `Converges`,
  `BundlesCatchUp`, `InitialReconcileHappens`, `ShutdownWithoutClients`, `Settles`,
  `PartsProgress`, and the liveness in `SignalIsBroadcast`, `CheckerIsPunctual` and
  `CrdWaitEndsInTime`, whose safety is proved as said above;
- `QuantitiesAreExact` and `ProbesCoverDuration`, which compute with an `f32` rounded by a
  fold of the community modules, whose meaning the provers do not know;
- `ConversionsKeepValues`: with what is proved of single conversions it needs an invariant
  that relates each value of an object, through nested fields and a whole path of
  conversions, to the tracked removals its status carries.

## 5. Not modelled

Inside the modelled components: an apply request or a status or caBundle patch that reaches
the API server after its sender gave up (deletes of abandoned futures are modelled, because
`try_join!` itself produces them); objects whose identifying labels the user overrides,
which the sweep does not see by definition; the caller of a conversion webhook whose
maintenance is disabled and who waits for the initial reconciliation; the error of sending
to a closed channel, which cannot happen because the receiver lives as long as the server;
errors of `accept`, which change nothing; the syntax of regular expressions and of `$(NAME)`
references with their escapes; the fields that Vector's transforms drop (the spans of tracing-rs
and the properties of log4j: the `rest` of an event is what they keep); a
ConversionReview whose object has an `apiVersion` that is no string, which is refused like an
unknown version, in other words; nested JSON documents and the list keys by which k8s-openapi
merges deeply; the token streams of the macros, of which `VersionedCrds` keeps what they
declare and call.

Components without a module: *rollout status* compares two pairs of numbers of one object;
*certificates* are cryptography, of which `WebhookServer` has a fresh certificate with a
validity, or an error; *YAML and secrets helpers*, the *container debugging tool* and the
*build tasks* are input and output. Partly modelled, with what is left out: object overrides
(the merge strategies), merge and fragments (the derive macros), configuration files (the
writers, which are layout), commons (cache settings, the reference to an OPA cluster),
authentication and listeners (CRDs that other operators act on, static classes), Kubernetes
versions (the parsers), utilities and the command line (declarations for clap).

## 6. Findings

Each is a run that ends in a violation.

1. `reused_name_deleted`: orphans are found by owner UID and deleted by name without a
   precondition; an object of somebody else that takes over the name in between is deleted.
2. `dry_run_fails`: each `add` under `NoApply` fails with `MissingObjectKey`, as a resource
   that was not applied has no UID.
3. `webhook_shutdown_hangs`: an open connection keeps the update loop, and so
   `WebhookServer::run`, from returning after the shutdown signal.
4. `random_secret_lost`: the migration of an immutable Secret deletes before it creates; if
   the create fails, the contents are lost, although the documentation says they are kept.
5. `vector_shutdown_missed`: the Vector container tests for the shutdown file before it
   watches the directory; a file created in between is noticed by neither.

Observations met while modelling, which have no run. The models follow the code in each.

*Cluster resources and client.* While a cluster is paused, `add` of a resource that does not
exist fails with `GetResource`, although changes are said to be ignored
(`OP/commons/cluster_operation.rs:16`). `delete` and `ensure_deleted` of a missing object
return an error, although they are described as deleting an object "if it is not deleted
already". `create_if_missing` fails with AlreadyExists when another creator comes first.
`objectOverrides` are applied after a stopped cluster's replicas were set to 0: one for
`spec.replicas` starts its Pods again, and the status may say Stopped and Available at once.

*Configuration.* `EnvVarSet::iter` is documented (`OP/v2/builder/pod/container.rs:81`) to
sort "so that variables referencing other variables come after the referenced ones". A
variable that refers to one on a cycle, for instance one that refers to itself, is sorted by
its name alone, although it is not on the cycle; `ReferencesComeFirst` excludes it.

*Quantities and builders.* The documentation of `Duration` names `2y2h20m42s` as a format it
parses (`stackable-shared/src/time/duration.rs:2` and `:63`); `DurationUnit` has no years, and
`from_str` refuses the text. `to_java_heap` rounds to the nearest value. A CPU of 0.127 is
rejected because of `f32`, although "only milli-precision" is asked for (`OP/cpu.rs:112`).
So is what the code prints itself: `with_cpu_range("127m", 5.0)` is accepted and requests
0.127, which `check_limit_to_request_ratio` cannot read back; conversely 1.0240001,
16384.001 or 1048.5761 are accepted as a neighbouring thousandth, since an `f32` has no room
for so many digits (why `AcceptedCpuIsExact` has bounds). A `Duration` below a millisecond is
printed as the empty text, which `from_str` refuses, and one of more milliseconds than a
`u64` holds is printed but not read back; `DurationMillis` has neither. `with_resource`
warns that it does not overwrite, and overwrites. `add_volumes` and `add_volume_mounts` keep
what came before a collision. `with_failure_threshold_duration` divides by the exact period
while `build` truncates it to seconds (15 s with a period of 1.5 s give 10 attempts, one a
second). Its quotient is an `f32` of nanoseconds: 11 s or 60 s with a period of 1 s give 12 or 61
attempts, 16777217 s give 16777216. A comment says probes
match the Kubernetes defaults, while their failure threshold is 1.

*Names.* The version label of an image is truncated to 63 bytes, which may leave a dot or
dash at its end, so that `resolve` fails, and panics inside a longer character. The comment
on label values allows the empty one, the expression does not. `Labels::try_from` keeps the
greatest of several values of a key, `insert` the last. `Uid` accepts UUIDs without hyphens,
its schema does not. `KEY_PREFIX_REGEX` accepts uppercase letters and a trailing dot.
Different splits into role and role group can compose to the same name. `name_is_dns_label`
accepts a prefix of 63 characters that nothing can follow.

*CRD versioning.* Some declarations the macro accepts expand to code that does not compile
or that panics (`KnownGap`): changes that are not in order of version, nested fields with
changes, an added enum variant, two items that have one name in some version, and a shared
tracking field. The generated round trip test
names `try_convert` even where it is skipped. `AddAssign` and `SubAssign` of `Level` discard
their result.

*Telemetry.* Request spans have level TRACE: with OTLP at INFO, responses carry the trace of
the connection. A server host without scheme or an IPv6 address is an error, so the
attributes are missing. A failed initialisation may have set the propagator already.

*Operator process and pods.* Signal handles also complete when the sending task ends without
a signal. A Vector process that crashes goes unnoticed by its script, SIGTERM before
`prepare_signal_handlers` is ignored by process 1, and a stale shutdown file may stop Vector
once after a restart. The script of git-sync runs with `-u`, so a SIGTERM before
`term_child_pid` is set aborts it. Events of tracing-rs without a timestamp get the current
one, and no error is recorded.

*Connections.* LDAP and database URLs print IPv6 hosts without brackets, S3 and OIDC with
them. An S3 or OIDC endpoint with TLS and port 80 becomes 443, although the configured port
is documented to be used. Credentials and a CA from the same SecretClass collide at their
mount path. Version v1alpha1 of GitSync ignores its TLS settings, and an `http` repository
of that version fails with SchemeMismatch after the upgrade, where `tls` defaults to the web
PKI; the downgrade loses SSH credentials, as a FIXME says.

## 7. Plan

Modelled and checked: sections 2 and 3. Proved: section 4. What remains, in this order:

1. `ConversionsKeepValues` as a theorem, with what `TrackingRemovals` keeps as its invariant.
2. `SweepSpec`, an abstract specification of orphan removal (one atomic step that deletes
   what is labelled, owned and not added), which `ClusterResources` implements without
   foreign names; and the mapping as a theorem.
3. Deep merge with nested documents and list keys; the composition of `OperatorProcess` with
   an abstract webhook server as parties to one shutdown.
