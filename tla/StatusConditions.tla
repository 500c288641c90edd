--------------------------- MODULE StatusConditions ---------------------------
(***************************************************************************)
(* The conditions in the status of a cluster (status/condition): builders  *)
(* look at the workloads a reconcile run applied and at the cluster        *)
(* operation, their condition sets are merged, and the result is merged    *)
(* into the conditions the resource had when the run started.  The         *)
(* resource comes from a reflector, which may lag behind the API server.   *)
(***************************************************************************)
EXTENDS Naturals

CONSTANTS
  StatefulSets, Deployments, DaemonSets,  \* the workloads of the cluster
  Replicas,       \* the replicas each StatefulSet and Deployment asks for
  Overrides,      \* the objectOverrides of spec.replicas that users write
  MaxChanges,     \* bound on the changes by users and by Kubernetes
  LastTime         \* bound on the clock

ASSUME ConditionConstants ==
  /\ Replicas \in Nat \ {0}
  /\ DaemonSets \cap (StatefulSets \cup Deployments) = {}
  /\ \A o \in Overrides : \E D \in SUBSET (StatefulSets \cup Deployments) : o \in [D -> 0..Replicas]
  /\ MaxChanges \in Nat /\ LastTime \in Nat

VARIABLES
  operation,      \* the ClusterOperation in the spec
  overrides,      \* overrides[w]: the spec.replicas of w in the objectOverrides in the spec
  requested,      \* requested[w]: the replicas in the spec of w in the API server
  ready,          \* ready[w]: the available or ready replicas in its status
  status,         \* the conditions in the API server
  cache,          \* the resource in the reflector: its operation, overrides and conditions
  run,            \* the reconcile run: where it is, its resource, the workloads it saw
                  \* and the conditions it computed
  clock, changes

vars == <<operation, overrides, requested, ready, status, cache, run, clock, changes>>

Workloads == StatefulSets \cup Deployments \cup DaemonSets

(***************************************************************************)
(* Conditions                                                              *)
(***************************************************************************)
\* ClusterConditionType, in the order of the conditions vector
Types == {"Available", "Degraded", "Progressing", "ReconciliationPaused", "Stopped"}

\* The derived order of ClusterConditionStatus
Rank(s) == CASE s = "True" -> 1 [] s = "False" -> 2 [] s = "Unknown" -> 3

\* A time of 0 stands for no last_transition_time; the message is the set of
\* workloads it names.
NoStatus == [status |-> "None", time |-> 0, names |-> {}]
Empty == [t \in Types |-> NoStatus]
Condition(s, names) == [status |-> s, time |-> 0, names |-> names]

\* Mistake: the fields are taken from the old condition.
update_timestamps_OldFields(old, new) ==
  [old EXCEPT !.time = IF old.status = new.status THEN old.time ELSE clock]
\* Mistake: the time is always set.
update_timestamps_Always(old, new) == [new EXCEPT !.time = clock]

update_timestamps(old, new) ==
  [new EXCEPT !.time = IF old.status = new.status THEN old.time ELSE clock]

\* Mistake: the lowest status wins.
update_message_Lowest(old, new) ==
  IF old.status = new.status THEN [new EXCEPT !.names = old.names \cup new.names]
  ELSE IF Rank(old.status) > Rank(new.status) THEN new ELSE old

update_message(old, new) ==
  IF old.status = new.status THEN [new EXCEPT !.names = old.names \cup new.names]
  ELSE IF Rank(old.status) < Rank(new.status) THEN new ELSE old

\* ClusterConditionSet::merge, with one of the two functions above as the combiner
merge(olds, news, combiner) ==
  [t \in Types |->
     LET old == olds[t]
         new == news[t]
     IN CASE old = NoStatus -> new
          [] old # NoStatus /\ new = NoStatus -> old
          [] OTHER -> IF combiner = "update_message" THEN update_message(old, new)
                                                     ELSE update_timestamps(old, new)]

(***************************************************************************)
(* Condition builders                                                      *)
(***************************************************************************)
\* stateful_set_available, deployment_available
ReplicasAvailable(w) == w.requested = w.ready /\ w.requested # 0
\* daemon_set_available
daemon_set_available(w) == w.ready > 0

is_available(w, seen) ==
  IF w \in DaemonSets THEN daemon_set_available(seen[w]) ELSE ReplicasAvailable(seen[w])

\* The builder of one kind; `seen` are the workloads that were added to it.
available(seen, kind) ==
  LET unavailable == {w \in kind : ~is_available(w, seen)}
  IN [Empty EXCEPT !["Available"] =
        Condition(IF unavailable = {} THEN "True" ELSE "False", unavailable)]

\* Mistake: a paused cluster that is to be stopped counts as stopped.
cluster_stopped_IgnorePause(op) == IF op.stopped THEN "True" ELSE "False"

cluster_stopped(op) ==
  IF op.stopped /\ op.paused THEN "Unknown" ELSE IF op.stopped THEN "True" ELSE "False"

\* ClusterOperationsConditionBuilder
operations(op) ==
  [Empty EXCEPT !["ReconciliationPaused"] = Condition(IF op.paused THEN "True" ELSE "False", {}),
                !["Stopped"] = Condition(cluster_stopped(op), {})]

\* The condition set of one builder after the other is merged into an empty one.
compute_conditions(old, op, seen) ==
  LET join(set, built) == merge(set, built, "update_message")
      workloads == join(join(available(seen, StatefulSets), available(seen, Deployments)),
                        available(seen, DaemonSets))
  IN merge(old, join(workloads, operations(op)), "update_timestamps")

(***************************************************************************)
(* A reconcile run                                                         *)
(***************************************************************************)
Resource == [operation |-> operation, overrides |-> overrides, conditions |-> status]
NewResource == [operation |-> [stopped |-> FALSE, paused |-> FALSE],
                overrides |-> [w \in {} |-> 0], conditions |-> Empty]
NewRun(at, resource) ==
  [at |-> at, resource |-> resource, seen |-> [w \in {} |-> 0], computed |-> Empty]
NoRun == NewRun("idle", NewResource)

Begin ==
  /\ run.at = "idle"
  /\ run' = NewRun("adding", cache)
  /\ UNCHANGED <<operation, overrides, requested, ready, status, cache, clock, changes>>

\* ClusterResources::add applies a workload, or only reads it while the cluster is
\* paused, and returns it with its status.  A stopped cluster has no replicas, unless
\* the user's overrides, which come last, give it some.
Add(w) ==
  LET op == run.resource.operation
      mutated == IF op.stopped THEN 0 ELSE Replicas
      overridden == IF w \in DOMAIN run.resource.overrides THEN run.resource.overrides[w] ELSE mutated
      spec == IF op.paused THEN requested[w] ELSE overridden
  IN /\ run.at = "adding" /\ w \notin DOMAIN run.seen
     /\ requested' = [requested EXCEPT ![w] = spec]
     /\ run' = [run EXCEPT !.seen = [v \in (DOMAIN @) \cup {w} |->
                  IF v = w THEN [requested |-> spec, ready |-> ready[w]] ELSE @[v]]]
     /\ UNCHANGED <<operation, overrides, ready, status, cache, clock, changes>>

Compute ==
  /\ run.at = "adding" /\ DOMAIN run.seen = Workloads
  /\ run' = [run EXCEPT !.at = "computed",
                        !.computed = compute_conditions(run.resource.conditions,
                                                        run.resource.operation, run.seen)]
  /\ UNCHANGED <<operation, overrides, requested, ready, status, cache, clock, changes>>

\* Client::merge_patch_status, apply_patch_status
PatchStatus ==
  /\ run.at = "computed"
  /\ status' = run.computed
  /\ run' = NoRun
  /\ UNCHANGED <<operation, overrides, requested, ready, cache, clock, changes>>

(***************************************************************************)
(* The environment                                                         *)
(***************************************************************************)
Change == changes < MaxChanges /\ changes' = changes + 1

\* The run fails somewhere, or the operator restarts.
Abandon ==
  /\ run.at # "idle" /\ Change
  /\ run' = NoRun
  /\ UNCHANGED <<operation, overrides, requested, ready, status, cache, clock>>

EditOperation(op) ==
  /\ Change
  /\ operation' = op
  /\ UNCHANGED <<overrides, requested, ready, status, cache, run, clock>>

EditOverrides(o) ==
  /\ Change
  /\ overrides' = o
  /\ UNCHANGED <<operation, requested, ready, status, cache, run, clock>>

\* Pods become ready, or stop being so.
SetReady(w, n) ==
  /\ Change
  /\ ready' = [ready EXCEPT ![w] = n]
  /\ UNCHANGED <<operation, overrides, requested, status, cache, run, clock>>

WatchEvent ==
  /\ cache' = Resource
  /\ UNCHANGED <<operation, overrides, requested, ready, status, run, clock, changes>>

Tick ==
  /\ clock < LastTime /\ clock' = clock + 1
  /\ UNCHANGED <<operation, overrides, requested, ready, status, cache, run, changes>>

ClusterOperations == [stopped: BOOLEAN, paused: BOOLEAN]

Init ==
  /\ operation = NewResource.operation /\ overrides = NewResource.overrides
  /\ requested = [w \in Workloads |-> Replicas]
  /\ ready \in [Workloads -> 0..Replicas]
  /\ status = Empty
  /\ cache = NewResource
  /\ run = NoRun
  /\ clock = 1 /\ changes = 0

Reconcile == Begin \/ (\E w \in Workloads : Add(w)) \/ Compute \/ PatchStatus

Next ==
  \/ Reconcile \/ Abandon \/ WatchEvent \/ Tick
  \/ \E op \in ClusterOperations : EditOperation(op)
  \/ \E o \in Overrides : EditOverrides(o)
  \/ \E w \in Workloads, n \in 0..Replicas : SetReady(w, n)

Spec == Init /\ [][Next]_vars

\* Changes and errors trigger a reconcile run, and watch events arrive.
FairSpec == Spec /\ WF_vars(Reconcile) /\ WF_vars(WatchEvent)

(***************************************************************************)
(* Properties                                                              *)
(***************************************************************************)
\* Whether all workloads a run saw are available
AllAvailable(seen) == \A w \in Workloads : is_available(w, seen)

\* What a run computes says Available exactly if all workloads it saw are, and its
\* message names exactly those that are not, however they spread over the builders.
AvailableIsAccurate ==
  run.at = "computed" =>
    LET c == run.computed["Available"]
    IN /\ c.status = "True" <=> AllAvailable(run.seen)
       /\ c.names = {w \in Workloads : ~is_available(w, run.seen)}

\* A run says of a stopped cluster that it is available only if the overrides it read
\* give every StatefulSet and Deployment replicas, whatever the user edits meanwhile.
StoppedIsNotAvailable ==
  run.at = "computed" /\ run.computed["Stopped"].status = "True"
                      /\ run.computed["Available"].status = "True"
    => \A w \in StatefulSets \cup Deployments :
         w \in DOMAIN run.resource.overrides /\ run.resource.overrides[w] # 0

\* "Last time the condition transitioned from one status to another": if the run
\* started from the conditions that are stored, however much happened since, the time
\* in a stored condition changes with its status, and only then.
TransitionTimes ==
  [][run.resource.conditions = status =>
       \A t \in Types : status[t] # NoStatus =>
         IF status'[t].status = status[t].status THEN status'[t].time = status[t].time
         ELSE status'[t].time \in 1..clock]_vars

\* When nothing changes any more the conditions describe the cluster for good, even
\* if runs started from outdated resources.
Settles ==
  <>[](/\ status["Available"].status = "True" <=>
            AllAvailable([w \in Workloads |-> [requested |-> requested[w], ready |-> ready[w]]])
       /\ status["ReconciliationPaused"].status = "True" <=> operation.paused
       /\ status["Stopped"].status = cluster_stopped(operation))

=============================================================================
