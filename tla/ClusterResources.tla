--------------------------- MODULE ClusterResources ---------------------------
(***************************************************************************)
(* The reconcile loop that every Stackable operator builds on top of       *)
(* crates/stackable-operator/src/cluster_resources.rs: a ClusterResources  *)
(* value is created from a snapshot of the cluster object, every resource  *)
(* the cluster needs is passed to `add`, and `delete_orphaned_resources`   *)
(* then deletes what carries the cluster's labels and owner but was not    *)
(* added.  Each .await is a step of its own, so that user edits, deletions *)
(* by others, API failures, restarts of the operator and the other         *)
(* controllers of the same operator interleave with it.                    *)
(*                                                                         *)
(* Modelled from how the code uses them: the API server (`store`), the     *)
(* reflector cache of kube::runtime::Controller (`cache`) and the garbage  *)
(* collector.                                                              *)
(***************************************************************************)
EXTENDS Naturals, FiniteSets

CONSTANTS
  Clusters,         \* cluster objects (custom resources), by name
  Reconcilers,      \* (controller, cluster) pairs; a controller runs at most one
                    \* reconciliation per cluster object at a time
  Resources,        \* (kind, name) keys of namespaced objects in the API server
  Managers,         \* values of the managed-by label
  Apps,             \* values of the app name label
  FirstUid,         \* the UID of a cluster object at the start
  Asked,            \* the resources the cluster objects ask for at the start
  ClusterOf,        \* the cluster a reconciler works on
  ManagerOf,        \* its full controller name, <operator_name>_<controller_name>
  AppOf,            \* its app_name
  BuiltBy,          \* the reconciler whose code builds a resource, or NoOne
  KindOf,           \* the kind of a resource
  BuiltLabels,      \* the labels a resource is built with
  OverrideOf,       \* what the user's objectOverrides do to a resource
  DryRun,           \* the reconcilers that sometimes use ClusterResourceApplyStrategy::NoApply
  Forbidden,        \* <<reconciler, kind>> pairs the operator's role may not list
  ForeignNames,     \* keys under which somebody else creates objects
  Environment,      \* which disturbances happen
  MaxDisturbances,  \* bound on the number of disturbances
  MaxUid,           \* bound on the UIDs handed out while a reflector lags behind
  NoOne,            \* not a reconciler
  MissingLabel,     \* the value of a label that is not set
  Overwritten       \* the app name label the user's override sets

VARIABLES
  cluster,       \* cluster[c]: the cluster object in the API server
  store,         \* store[r]: the object stored under key r
  nextUid,       \* the next UID the API server hands out
  cache,         \* cache[p]: what p's reflector last saw of its cluster object
  pc,            \* pc[p]: where p's reconcile function is
  snap,          \* snap[p]: the fields of p's ClusterResources set by `new`
  todo,          \* todo[p]: resources not yet passed to `add`
  resource_ids,  \* resource_ids[p]: the UIDs collected by `add`
  listed,        \* listed[p]: the kinds whose list call has returned
  orphans,       \* orphans[p]: listed orphans whose delete call has not returned
  result,        \* result[p]: what p's last reconciliation returned
  inflight,      \* delete requests of abandoned futures, still on their way
  disturbances   \* how many disturbances happened so far

serverVars == <<store, nextUid, inflight>>
localVars  == <<pc, snap, todo, resource_ids, listed, orphans, result>>
vars == <<cluster, serverVars, cache, localVars, disturbances>>

(***************************************************************************)
(* Kinds and labels                                                        *)
(***************************************************************************)
\* The kinds that implement the ClusterResource trait.
ClusterResourceKinds ==
  {"ConfigMap", "Secret", "Service", "ServiceAccount", "RoleBinding",
   "PodDisruptionBudget", "Listener", "Job", "StatefulSet", "DaemonSet", "Deployment"}

\* Mistake: a kind implements the trait but is forgotten in the sweep.
SweptKinds_ForgetStatefulSet == ClusterResourceKinds \ {"StatefulSet"}
SweptKinds_ForgetConfigMap   == ClusterResourceKinds \ {"ConfigMap"}

\* The kinds delete_orphaned_resources joins over.
SweptKinds ==
  {"Service", "StatefulSet", "DaemonSet", "Deployment", "Job", "ConfigMap",
   "Secret", "ServiceAccount", "RoleBinding", "PodDisruptionBudget", "Listener"}

\* A swept kind nobody stores an object of returns an empty list: not tracked.
TrackedKinds == SweptKinds \cap {KindOf[r] : r \in Resources}

\* The kinds whose pod template runs Pods.
PodKinds == {"Job", "StatefulSet", "DaemonSet", "Deployment"}

\* The kinds with a maybe_mutate of their own.
StoppableKinds == {"StatefulSet", "DaemonSet", "Deployment"}

LabelSets ==
  [instance: Clusters \cup {MissingLabel},
   managed_by: Managers \cup {MissingLabel},
   name: Apps \cup {MissingLabel}]

ASSUME ConstantsAssumption ==
  /\ IsFiniteSet(Clusters)
  /\ ClusterOf \in [Reconcilers -> Clusters]
  /\ ManagerOf \in [Reconcilers -> Managers]
  /\ AppOf \in [Reconcilers -> Apps]
  /\ BuiltBy \in [Resources -> Reconcilers \cup {NoOne}]
  /\ NoOne \notin Reconcilers
  /\ MissingLabel \notin Clusters \cup Managers \cup Apps
  /\ Overwritten \in Apps
  /\ KindOf \in [Resources -> ClusterResourceKinds]
  /\ BuiltLabels \in [Resources -> LabelSets]
  /\ OverrideOf \in [Resources -> {"none", "replicas", "labels", "unparsable"}]
  /\ MaxDisturbances \in Nat
  /\ MaxUid \in Nat

ASSUME StartAssumption ==
  /\ Asked \subseteq Resources
  /\ FirstUid \in [Clusters -> 1..Cardinality(Clusters)]
  /\ \A c, d \in Clusters : c # d => FirstUid[c] # FirstUid[d]

\* "The combination of (operator_name, controller_name) must be unique for each
\* controller in the cluster."
ASSUME ManagersUnique ==
  \A p, q \in Reconcilers : ClusterOf[p] = ClusterOf[q] /\ ManagerOf[p] = ManagerOf[q] => p = q

\* ClusterResources::get_required_labels and the selector of
\* list_deployed_cluster_resources
get_required_labels(p) ==
  [instance |-> ClusterOf[p], managed_by |-> ManagerOf[p], name |-> AppOf[p]]

\* The error of check_labels, which compares instance, managed-by and name in
\* that order and stops at the first difference; "Ok" when there is none.
check_labels(labels, expected) ==
  LET differs(l) == labels[l] # expected[l]
      error(l)   == IF labels[l] = MissingLabel THEN "MissingLabel"
                                                ELSE "UnexpectedLabelContent"
  IN CASE differs("instance")   -> error("instance")
       [] ~differs("instance") /\ differs("managed_by") -> error("managed_by")
       [] ~differs("instance") /\ ~differs("managed_by") /\ differs("name")
            -> error("name")
       [] OTHER -> "Ok"

(***************************************************************************)
(* Objects                                                                 *)
(***************************************************************************)
Uid == Nat
NoOwner == 0

\* uid 0: nothing is stored under the key.
NoObject == [uid |-> 0, owner |-> NoOwner, pods |-> FALSE,
             labels |-> [instance |-> MissingLabel, managed_by |-> MissingLabel,
                         name |-> MissingLabel]]

Objects == [uid: Uid, owner: Uid, pods: BOOLEAN, labels: LabelSets]

Exists(r) == store[r].uid # 0

\* overrides: whether spec.objectOverrides is set.
ClusterObjects == [uid: Uid, desired: SUBSET Resources, stopped: BOOLEAN, paused: BOOLEAN,
                   overrides: BOOLEAN]

Strategies == {"Default", "ReconciliationPaused", "ClusterStopped", "NoApply"}

\* From<&ClusterOperation> for ClusterResourceApplyStrategy
StrategyFrom(operation) ==
  IF operation.paused THEN "ReconciliationPaused"
  ELSE IF operation.stopped THEN "ClusterStopped" ELSE "Default"

\* Mistake: a stopped cluster keeps its orphans.
delete_orphans_OnlyDefault(strategy) == strategy = "Default"

delete_orphans(strategy) == strategy \in {"ClusterStopped", "Default"}

\* Mistake: only Deployments are scaled down.
maybe_mutate_OnlyDeployment(r, strategy) ==
  /\ KindOf[r] \in PodKinds
  /\ ~(strategy = "ClusterStopped" /\ KindOf[r] = "Deployment")

\* maybe_mutate: does the resource, once built, still ask for Pods?
maybe_mutate(r, strategy) ==
  /\ KindOf[r] \in PodKinds
  /\ ~(strategy = "ClusterStopped" /\ KindOf[r] \in StoppableKinds)

\* What the overrides p works with do to r.
Override(p, r) == IF snap[p].overrides THEN OverrideOf[r] ELSE "none"

\* object_overrides.apply_to: the user's overrides are merged last.  An override
\* of the replicas brings the Pods back, one of the labels changes the app name.
apply_to(p, r, pods, labels) ==
  [pods   |-> pods \/ Override(p, r) = "replicas",
   labels |-> IF Override(p, r) = "labels" THEN [labels EXCEPT !.name = Overwritten]
                                           ELSE labels]

\* The object a server-side apply leaves behind: an existing object keeps its UID.
Applied(p, r) ==
  LET final == apply_to(p, r, maybe_mutate(r, snap[p].strategy), BuiltLabels[r])
  IN [uid    |-> IF Exists(r) THEN store[r].uid ELSE nextUid,
      owner  |-> snap[p].uid,
      pods   |-> final.pods,
      labels |-> final.labels]

\* apply_patch: one request, creating the object when it does not exist
ApplyPatch(p, r) ==
  /\ store' = [store EXCEPT ![r] = Applied(p, r)]
  /\ nextUid' = IF Exists(r) THEN nextUid ELSE nextUid + 1

Remove(r) == store' = [store EXCEPT ![r] = NoObject]

(***************************************************************************)
(* The environment                                                         *)
(***************************************************************************)
Disturb(what) ==
  /\ what \in Environment
  /\ disturbances < MaxDisturbances
  /\ disturbances' = disturbances + 1

\* The user adds a role group to the cluster object or removes one.
ToggleResource(c, r) ==
  /\ Disturb("edit")
  /\ cluster[c].uid # 0
  /\ BuiltBy[r] # NoOne /\ ClusterOf[BuiltBy[r]] = c
  /\ cluster' = [cluster EXCEPT ![c].desired =
                   IF r \in @ THEN @ \ {r} ELSE @ \cup {r}]
  /\ UNCHANGED <<serverVars, cache, localVars>>

\* The user edits spec.clusterOperation.
SetOperation(c) ==
  /\ Disturb("operation")
  /\ cluster[c].uid # 0
  /\ \E stopped, paused \in BOOLEAN :
       /\ <<stopped, paused>> # <<cluster[c].stopped, cluster[c].paused>>
       /\ cluster' = [cluster EXCEPT ![c].stopped = stopped, ![c].paused = paused]
  /\ UNCHANGED <<serverVars, cache, localVars>>

\* The user sets spec.objectOverrides or removes it.
ToggleOverrides(c) ==
  /\ Disturb("override")
  /\ cluster[c].uid # 0
  /\ cluster' = [cluster EXCEPT ![c].overrides = ~@]
  /\ UNCHANGED <<serverVars, cache, localVars>>

\* The user deletes the cluster object ...
DeleteCluster(c) ==
  /\ Disturb("recreate")
  /\ cluster[c].uid # 0
  /\ cluster' = [cluster EXCEPT ![c].uid = 0]
  /\ UNCHANGED <<serverVars, cache, localVars>>

\* ... and creates it again under the same name, with a new UID.
RecreateCluster(c) ==
  /\ "recreate" \in Environment
  /\ cluster[c].uid = 0
  /\ cluster' = [cluster EXCEPT ![c].uid = nextUid]
  /\ nextUid' = nextUid + 1
  /\ UNCHANGED <<store, inflight, cache, localVars, disturbances>>

\* Somebody deletes an object of the cluster.
ExternalDelete(r) ==
  /\ Disturb("external")
  /\ Exists(r)
  /\ Remove(r)
  /\ UNCHANGED <<cluster, nextUid, inflight, cache, localVars>>

\* Somebody creates an object with the labels of the cluster but without being
\* owned by it, for example a controller that propagates labels to what it owns.
ForeignCreate(r) ==
  /\ Disturb("foreign")
  /\ r \in ForeignNames
  /\ ~Exists(r)
  /\ store' = [store EXCEPT ![r] =
                 [uid |-> nextUid, owner |-> NoOwner, pods |-> FALSE,
                  labels |-> BuiltLabels[r]]]
  /\ nextUid' = nextUid + 1
  /\ UNCHANGED <<cluster, inflight, cache, localVars>>

\* The garbage collector removes objects whose owner is gone.  A controller whose
\* reflector lags behind may create them again and again: from MaxUid on, the
\* collector waits for the reflectors.
GarbageCollect(r) ==
  /\ Exists(r)
  /\ store[r].owner # NoOwner
  /\ \A c \in Clusters : cluster[c].uid # store[r].owner
  /\ nextUid < MaxUid \/ \A p \in Reconcilers : cache[p] = cluster[ClusterOf[p]]
  /\ Remove(r)
  /\ UNCHANGED <<cluster, nextUid, inflight, cache, localVars, disturbances>>

\* A delete request whose sender no longer waits for it reaches the API server.
\* It names the object, not its UID.
LateDelete(r) ==
  /\ r \in inflight
  /\ Remove(r)
  /\ inflight' = inflight \ {r}
  /\ UNCHANGED <<cluster, nextUid, cache, localVars, disturbances>>

\* ... or it never does.
LoseDelete(r) ==
  /\ r \in inflight
  /\ inflight' = inflight \ {r}
  /\ UNCHANGED <<cluster, store, nextUid, cache, localVars, disturbances>>

\* The reflector of a controller receives the watch events for the cluster object.
WatchEvent(p) ==
  /\ cache[p] # cluster[ClusterOf[p]]
  /\ cache' = [cache EXCEPT ![p] = cluster[ClusterOf[p]]]
  /\ UNCHANGED <<cluster, serverVars, localVars, disturbances>>

(***************************************************************************)
(* The reconciler                                                          *)
(***************************************************************************)
Errors ==
  {"MissingLabel", "UnexpectedLabelContent", "ApplyObjectOverrides", "GetResource",
   "ApplyPatch", "MissingObjectKey", "ListClusterResources", "DeleteOrphanedResource",
   "Crashed"}

Snapshots == [uid: Uid, desired: SUBSET Resources, strategy: Strategies, overrides: BOOLEAN]
NoSnapshot == [uid |-> 0, desired |-> {}, strategy |-> "Default", overrides |-> FALSE]

\* The resources p's reconcile function builds for the snapshot it works on.
Wanted(p) == {r \in snap[p].desired : BuiltBy[r] = p}

\* The delete requests that may still be on their way when p's futures are
\* dropped: each kind's task deletes one orphan after the other.
AbandonedDeletes(p) ==
  {S \in SUBSET orphans[p] : \A a, b \in S : KindOf[a] = KindOf[b] => a = b}

\* Mistake: the list of orphans outlives the reconciliation.
Return_KeepOrphans(p, outcome) ==
  /\ pc' = [pc EXCEPT ![p] = "idle"]
  /\ todo' = [todo EXCEPT ![p] = {}]
  /\ resource_ids' = [resource_ids EXCEPT ![p] = {}]
  /\ listed' = [listed EXCEPT ![p] = {}]
  /\ UNCHANGED orphans
  /\ snap' = [snap EXCEPT ![p] = NoSnapshot]
  /\ result' = [result EXCEPT ![p] = outcome]
  /\ UNCHANGED <<cluster, cache>>

\* The reconcile function returns, dropping its ClusterResources.
Return(p, outcome) ==
  /\ pc' = [pc EXCEPT ![p] = "idle"]
  /\ todo' = [todo EXCEPT ![p] = {}]
  /\ resource_ids' = [resource_ids EXCEPT ![p] = {}]
  /\ listed' = [listed EXCEPT ![p] = {}]
  /\ orphans' = [orphans EXCEPT ![p] = {}]
  /\ snap' = [snap EXCEPT ![p] = NoSnapshot]
  /\ result' = [result EXCEPT ![p] = outcome]
  /\ UNCHANGED <<cluster, cache>>

\* The caller of `new` passes the strategy of the cluster operation, or a dry run.
ChosenStrategies(p) ==
  {StrategyFrom(cache[p])} \cup (IF p \in DryRun THEN {"NoApply"} ELSE {})

\* The controller calls reconcile with the object in its cache; the reconcile
\* function calls ClusterResources::new.
Start(p) ==
  /\ pc[p] = "idle"
  /\ cache[p].uid # 0
  /\ \E strategy \in ChosenStrategies(p) :
       snap' = [snap EXCEPT ![p] = [uid |-> cache[p].uid, desired |-> cache[p].desired,
                                    strategy |-> strategy,
                                    overrides |-> cache[p].overrides]]
  /\ todo' = [todo EXCEPT ![p] = {r \in cache[p].desired : BuiltBy[r] = p}]
  /\ resource_ids' = [resource_ids EXCEPT ![p] = {}]
  /\ pc' = [pc EXCEPT ![p] = "add"]
  /\ result' = [result EXCEPT ![p] = "None"]
  /\ UNCHANGED <<cluster, serverVars, cache, listed, orphans, disturbances>>

\* `add` up to its first await: labels are checked on the resource as built.
LabelsOk(p, r) == check_labels(BuiltLabels[r], get_required_labels(p)) = "Ok"

Adding(p, r) == pc[p] = "add" /\ r \in todo[p]

\* The end of a successful `add`: the UID is recorded.
Added(p, r, uid) ==
  /\ todo' = [todo EXCEPT ![p] = @ \ {r}]
  /\ resource_ids' = [resource_ids EXCEPT ![p] = @ \cup {uid}]
  /\ UNCHANGED <<pc, snap, listed, orphans, result>>

\* add: check_labels fails
AddRejected(p, r) ==
  /\ Adding(p, r)
  /\ ~LabelsOk(p, r)
  /\ Return(p, check_labels(BuiltLabels[r], get_required_labels(p)))
  /\ UNCHANGED <<serverVars, disturbances>>

\* add: an override that matches the resource cannot be parsed as its kind
AddOverrideFails(p, r) ==
  /\ Adding(p, r)
  /\ LabelsOk(p, r)
  /\ Override(p, r) = "unparsable"
  /\ Return(p, "ApplyObjectOverrides")
  /\ UNCHANGED <<serverVars, disturbances>>

\* `add` reaches ClusterResourceApplyStrategy::run.
Running(p, r, strategies) ==
  /\ Adding(p, r)
  /\ LabelsOk(p, r)
  /\ Override(p, r) # "unparsable"
  /\ snap[p].strategy \in strategies

\* run: Default and ClusterStopped apply the resource
AddApplies(p, r) ==
  /\ Running(p, r, {"Default", "ClusterStopped"})
  /\ ApplyPatch(p, r)
  /\ Added(p, r, Applied(p, r).uid)
  /\ UNCHANGED <<cluster, cache, inflight, disturbances>>

\* run: ReconciliationPaused only gets the resource
AddGets(p, r) ==
  /\ Running(p, r, {"ReconciliationPaused"})
  /\ Exists(r)
  /\ Added(p, r, store[r].uid)
  /\ UNCHANGED <<cluster, serverVars, cache, disturbances>>

\* run: ReconciliationPaused, and there is nothing to get
AddGetsNothing(p, r) ==
  /\ Running(p, r, {"ReconciliationPaused"})
  /\ ~Exists(r)
  /\ Return(p, "GetResource")
  /\ UNCHANGED <<serverVars, disturbances>>

\* run: NoApply hands the built resource back, which the API server never gave a UID
AddDryRun(p, r) ==
  /\ Running(p, r, {"NoApply"})
  /\ Return(p, "MissingObjectKey")
  /\ UNCHANGED <<serverVars, disturbances>>

\* run: the request fails.  An apply may have taken effect all the same, when
\* only the response is lost.
AddFails(p, r) ==
  /\ Running(p, r, {"Default", "ClusterStopped", "ReconciliationPaused"})
  /\ Disturb("fault")
  /\ IF snap[p].strategy = "ReconciliationPaused"
     THEN Return(p, "GetResource") /\ UNCHANGED <<store, nextUid>>
     ELSE Return(p, "ApplyPatch") /\ (ApplyPatch(p, r) \/ UNCHANGED <<store, nextUid>>)
  /\ UNCHANGED inflight

\* All resources were added: delete_orphaned_resources is called.  It does
\* nothing when the strategy keeps orphans.
BeginSweep(p) ==
  /\ pc[p] = "add"
  /\ todo[p] = {}
  /\ IF delete_orphans(snap[p].strategy)
     THEN /\ pc' = [pc EXCEPT ![p] = "sweep"]
          /\ UNCHANGED <<snap, todo, resource_ids, listed, orphans, result, cluster, cache>>
     ELSE Return(p, "Ok")
  /\ UNCHANGED <<serverVars, disturbances>>

\* Mistake: the selector does not ask for the managed-by label.
Deployed_AnyManager(p, k) ==
  {r \in Resources : /\ Exists(r)
                     /\ KindOf[r] = k
                     /\ store[r].labels.instance = ClusterOf[p]
                     /\ store[r].labels.name = AppOf[p]
                     /\ store[r].owner = snap[p].uid}

\* Mistake: the objects are not filtered by their owner.
Deployed_AnyOwner(p, k) ==
  {r \in Resources : /\ Exists(r)
                     /\ KindOf[r] = k
                     /\ store[r].labels = get_required_labels(p)}

\* list_deployed_cluster_resources: the label selector on the server, the owner
\* filter in the client
Deployed(p, k) ==
  {r \in Resources : /\ Exists(r)
                     /\ KindOf[r] = k
                     /\ store[r].labels = get_required_labels(p)
                     /\ store[r].owner = snap[p].uid}

\* delete_orphaned_resources_of_kind up to its first await.  A kind that may not
\* be listed is skipped.
ListKind(p, k) ==
  /\ pc[p] = "sweep"
  /\ k \notin listed[p]
  /\ listed' = [listed EXCEPT ![p] = @ \cup {k}]
  /\ orphans' = [orphans EXCEPT ![p] =
                   IF <<p, k>> \in Forbidden THEN @
                   ELSE @ \cup {r \in Deployed(p, k) : store[r].uid \notin resource_ids[p]}]
  /\ UNCHANGED <<cluster, serverVars, cache, pc, snap, todo, resource_ids, result, disturbances>>

\* The list call fails; try_join! drops the tasks of the other kinds.
ListFails(p, k) ==
  /\ pc[p] = "sweep"
  /\ k \notin listed[p]
  /\ Disturb("fault")
  /\ Return(p, "ListClusterResources")
  /\ \E late \in AbandonedDeletes(p) : inflight' = inflight \cup late
  /\ UNCHANGED <<store, nextUid>>

\* client.delete, by name, of one listed orphan
DeleteOrphan(p, r) ==
  /\ pc[p] = "sweep"
  /\ r \in orphans[p]
  /\ Exists(r)
  /\ Remove(r)
  /\ orphans' = [orphans EXCEPT ![p] = @ \ {r}]
  /\ UNCHANGED <<cluster, nextUid, inflight, cache, pc, snap, todo, resource_ids, listed,
                 result, disturbances>>

\* client.delete of an object that is gone already is an error.
DeleteGone(p, r) ==
  /\ pc[p] = "sweep"
  /\ r \in orphans[p]
  /\ ~Exists(r)
  /\ Return(p, "DeleteOrphanedResource")
  /\ \E late \in AbandonedDeletes(p) : inflight' = inflight \cup late
  /\ UNCHANGED <<store, nextUid, disturbances>>

\* The delete call fails; the request itself may still arrive.
DeleteFails(p, r) ==
  /\ pc[p] = "sweep"
  /\ r \in orphans[p]
  /\ Disturb("fault")
  /\ Return(p, "DeleteOrphanedResource")
  /\ \E late \in AbandonedDeletes(p) : inflight' = inflight \cup late
  /\ UNCHANGED <<store, nextUid>>

\* All kinds were listed and their orphans deleted.
Finish(p) ==
  /\ pc[p] = "sweep"
  /\ listed[p] = TrackedKinds
  /\ orphans[p] = {}
  /\ Return(p, "Ok")
  /\ UNCHANGED <<serverVars, disturbances>>

\* The operator process dies in the middle of a reconciliation and is restarted.
Crash(p) ==
  /\ pc[p] # "idle"
  /\ Disturb("crash")
  /\ Return(p, "Crashed")
  /\ \E late \in AbandonedDeletes(p) : inflight' = inflight \cup late
  /\ UNCHANGED <<store, nextUid>>

(***************************************************************************)
(* Specification                                                           *)
(***************************************************************************)
\* A reconciliation step that no failure interrupts.
Proceed(p) ==
  \/ Start(p) \/ BeginSweep(p) \/ Finish(p)
  \/ \E r \in Resources :
       \/ AddRejected(p, r) \/ AddOverrideFails(p, r) \/ AddApplies(p, r)
       \/ AddGets(p, r) \/ AddGetsNothing(p, r) \/ AddDryRun(p, r)
       \/ DeleteOrphan(p, r) \/ DeleteGone(p, r)
  \/ \E k \in TrackedKinds : ListKind(p, k)

Fail(p) ==
  \/ Crash(p)
  \/ \E r \in Resources : AddFails(p, r) \/ DeleteFails(p, r)
  \/ \E k \in TrackedKinds : ListFails(p, k)

EnvironmentStep ==
  \/ \E c \in Clusters :
       \/ \E r \in Resources : ToggleResource(c, r)
       \/ SetOperation(c) \/ ToggleOverrides(c) \/ DeleteCluster(c) \/ RecreateCluster(c)
  \/ \E r \in Resources :
       \/ ExternalDelete(r) \/ ForeignCreate(r) \/ GarbageCollect(r)
       \/ LateDelete(r) \/ LoseDelete(r)
  \/ \E p \in Reconcilers : WatchEvent(p)

\* Every cluster object exists, with some of its resources asked for; nothing was
\* deployed yet.
FirstAsked(c) ==
  {r \in Asked : BuiltBy[r] # NoOne /\ ClusterOf[BuiltBy[r]] = c}

Init ==
  /\ cluster = [c \in Clusters |-> [uid |-> FirstUid[c], desired |-> FirstAsked(c),
                                    stopped |-> FALSE, paused |-> FALSE,
                                    overrides |-> FALSE]]
  /\ store = [r \in Resources |-> NoObject]
  /\ nextUid = Cardinality(Clusters) + 1
  /\ inflight = {}
  /\ cache = [p \in Reconcilers |-> cluster[ClusterOf[p]]]
  /\ pc = [p \in Reconcilers |-> "idle"]
  /\ snap = [p \in Reconcilers |-> NoSnapshot]
  /\ todo = [p \in Reconcilers |-> {}]
  /\ resource_ids = [p \in Reconcilers |-> {}]
  /\ listed = [p \in Reconcilers |-> {}]
  /\ orphans = [p \in Reconcilers |-> {}]
  /\ result = [p \in Reconcilers |-> "None"]
  /\ disturbances = 0

Next ==
  \/ EnvironmentStep
  \/ \E p \in Reconcilers : Proceed(p) \/ Fail(p)

Spec == Init /\ [][Next]_vars

\* A failed reconciliation is retried and one that succeeded is triggered again by
\* the watches on the cluster object and on what it owns; watches deliver and the
\* garbage collector runs.
Fairness ==
  /\ \A p \in Reconcilers : WF_vars(Proceed(p)) /\ WF_vars(WatchEvent(p))
  /\ \A r \in Resources : WF_vars(GarbageCollect(r))

FairSpec == Spec /\ Fairness

(***************************************************************************)
(* Properties                                                              *)
(***************************************************************************)
\* Every variable has its type; the API server hands out a UID once; a reconcile
\* function that returned, whatever way, left no work behind in its
\* ClusterResources for the next reconciliation to pick up.
TypeOK ==
  /\ cluster \in [Clusters -> ClusterObjects]
  /\ store \in [Resources -> Objects]
  /\ nextUid \in Nat \ {0}
  /\ cache \in [Reconcilers -> ClusterObjects]
  /\ pc \in [Reconcilers -> {"idle", "add", "sweep"}]
  /\ snap \in [Reconcilers -> Snapshots]
  /\ todo \in [Reconcilers -> SUBSET Resources]
  /\ resource_ids \in [Reconcilers -> SUBSET Uid]
  /\ listed \in [Reconcilers -> SUBSET ClusterResourceKinds]
  /\ orphans \in [Reconcilers -> SUBSET Resources]
  /\ result \in [Reconcilers -> Errors \cup {"None", "Ok"}]
  /\ inflight \in SUBSET Resources
  /\ disturbances \in Nat
  /\ \A c \in Clusters : cluster[c].uid < nextUid
  /\ \A r \in Resources : store[r].uid < nextUid
  /\ \A p \in Reconcilers : /\ pc[p] # "add" => todo[p] = {}
                            /\ pc[p] # "sweep" => orphans[p] = {} /\ listed[p] = {}

\* What delete_orphaned_resources is about to delete by name is, at the moment of
\* the delete call and not only when it was listed, either gone or an object that
\* this reconciler built, for the cluster object it works on, and did not add in
\* this reconciliation.  So a failed `add`, another controller of the same
\* cluster, another cluster or a re-created one never costs a resource its life.
OrphansStillOwn ==
  \A p \in Reconcilers : \A r \in orphans[p] :
    /\ r \notin Wanted(p)
    /\ Exists(r) => /\ BuiltBy[r] = p
                    /\ store[r].owner = snap[p].uid
                    /\ store[r].uid \notin resource_ids[p]

\* When delete_orphaned_resources is about to return Ok, no object is left that is
\* labelled as belonging to the cluster and owned by it, of a kind the operator
\* may list, that the cluster no longer asks for.
NoOrphansAfterSuccess ==
  \A p \in Reconcilers :
    pc[p] = "sweep" /\ listed[p] = TrackedKinds /\ orphans[p] = {} =>
      \A r \in Resources :
        (/\ Exists(r)
         /\ store[r].labels = get_required_labels(p)
         /\ store[r].owner = snap[p].uid
         /\ <<p, KindOf[r]>> \notin Forbidden) => r \in Wanted(p)

\* Once all resources of a stopped cluster were applied, its StatefulSets,
\* DaemonSets and Deployments run no Pods, whatever they ran before, unless the
\* user's object overrides ask for Pods.
StoppedRunsNoPods ==
  \A p \in Reconcilers : pc[p] = "sweep" /\ snap[p].strategy = "ClusterStopped" =>
    \A r \in Wanted(p) :
      KindOf[r] \in StoppableKinds /\ Override(p, r) # "replicas" /\ Exists(r)
        => ~store[r].pods

\* A resource of p is where its cluster object says it should be.
Settled(p, r) ==
  LET c == cluster[ClusterOf[p]] IN
  IF c.uid = 0 THEN ~Exists(r)
  ELSE IF r \notin c.desired THEN ~Exists(r)
  ELSE /\ Exists(r)
       /\ store[r].owner = c.uid
       /\ store[r].pods = (/\ KindOf[r] \in PodKinds
                           /\ c.stopped /\ KindOf[r] \in StoppableKinds
                                => c.overrides /\ OverrideOf[r] = "replicas")

\* When edits, failures, restarts and interference stop, every cluster that is not
\* paused ends up with exactly the resources it asks for, stopped or running as it
\* asks, whatever was left half done; late delete requests do not matter.
Converges ==
  <>[](\A p \in Reconcilers \ DryRun : \A r \in Resources :
         BuiltBy[r] = p /\ ~cluster[ClusterOf[p]].paused => Settled(p, r))

(***************************************************************************)
(* The inductive strengthening of the safety properties                    *)
(***************************************************************************)
\* Nobody else creates objects under the names the operator uses.
ForeignNamesApart == \A r \in ForeignNames \cap Resources : BuiltBy[r] = NoOne

\* An object that has an owner was applied by the reconciler that builds it.
Provenance ==
  \A r \in Resources : store[r].owner # NoOwner =>
    /\ BuiltBy[r] \in Reconcilers
    /\ store[r].labels.instance = ClusterOf[BuiltBy[r]]
    /\ store[r].labels.managed_by = ManagerOf[BuiltBy[r]]

\* No two objects have the same UID.
DistinctUids ==
  \A r, s \in Resources : r # s /\ Exists(r) => store[r].uid # store[s].uid

\* resource_ids holds the UIDs of exactly those objects that were added.
IdsMatch(p) ==
  /\ \A i \in resource_ids[p] : i < nextUid
  /\ \A r \in Resources : Exists(r) =>
       (store[r].uid \in resource_ids[p] <=> r \in Wanted(p) \ todo[p])

\* What was added to a stopped cluster is stopped.
AddedStopped(p) ==
  snap[p].strategy = "ClusterStopped" =>
    \A r \in Wanted(p) \ todo[p] :
      KindOf[r] \in StoppableKinds /\ Override(p, r) # "replicas" /\ Exists(r)
        => ~store[r].pods

\* What is about to be deleted was built by p for this cluster object and not added.
OrphansMine(p) ==
  \A r \in orphans[p] : /\ BuiltBy[r] = p
                        /\ r \notin Wanted(p)
                        /\ Exists(r) => store[r].owner = snap[p].uid

\* Everything of a listed kind that looks like p's is wanted or about to be deleted.
ListedComplete(p) ==
  pc[p] = "sweep" =>
    \A r \in Resources :
      (/\ Exists(r)
       /\ store[r].labels = get_required_labels(p)
       /\ store[r].owner = snap[p].uid
       /\ KindOf[r] \in listed[p]
       /\ <<p, KindOf[r]>> \notin Forbidden) => r \in Wanted(p) \/ r \in orphans[p]

Working(p) ==
  /\ snap[p].uid # 0
  /\ todo[p] \subseteq Wanted(p)
  /\ IdsMatch(p) /\ AddedStopped(p) /\ OrphansMine(p) /\ ListedComplete(p)

IndInv ==
  /\ TypeOK /\ Provenance /\ DistinctUids
  /\ \A p \in Reconcilers : pc[p] # "idle" => Working(p)

(***************************************************************************)
(* What the documentation says                                             *)
(***************************************************************************)
\* ClusterResourceApplyStrategy::NoApply: "Dry-run strategy that doesn't actually
\* create any workload resources. This is useful for Superset and Airflow clusters
\* that need to wait for their databases to be set up first."  So a dry run gets
\* through `add`.
DryRunSucceeds == \A p \in DryRun : result[p] # "MissingObjectKey"

=============================================================================
