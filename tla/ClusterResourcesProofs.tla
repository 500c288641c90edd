------------------------ MODULE ClusterResourcesProofs ------------------------
(***************************************************************************)
(* Proofs about ClusterResources, for any number of clusters, controllers  *)
(* and resources and any number of disturbances.                           *)
(***************************************************************************)
EXTENDS ClusterResources, FiniteSetTheorems, TLAPS

(***************************************************************************)
(* Type correctness                                                        *)
(***************************************************************************)
\* What a reconcile function returns is a result.
LEMMA CheckLabelsResult ==
  ASSUME NEW labels, NEW expected
  PROVE  check_labels(labels, expected) \in Errors \cup {"None", "Ok"}
BY DEF check_labels, Errors

\* Returning keeps the types of what it resets.
LEMMA ReturnTypes ==
  ASSUME TypeOK, NEW p \in Reconcilers, NEW outcome \in Errors \cup {"None", "Ok"},
         Return(p, outcome),
         nextUid' \in Nat \ {0}, nextUid <= nextUid',
         store' \in [Resources -> Objects],
         \A r \in Resources : store'[r].uid < nextUid',
         inflight' \in SUBSET Resources, disturbances' \in Nat
  PROVE  TypeOK'
BY ConstantsAssumption
   DEF TypeOK, Return, Snapshots, NoSnapshot, Strategies, ClusterObjects, Uid

\* Applying a resource keeps the types of the API server's state.
LEMMA ApplyTypes ==
  ASSUME TypeOK, NEW p \in Reconcilers, NEW r \in Resources, ApplyPatch(p, r)
  PROVE  /\ nextUid' \in Nat \ {0} /\ nextUid <= nextUid'
         /\ store' \in [Resources -> Objects]
         /\ \A s \in Resources : store'[s].uid < nextUid'
         /\ Applied(p, r).uid \in Uid
<1>1. BuiltLabels[r] \in LabelSets /\ Overwritten \in Apps
  BY ConstantsAssumption
<1>2. [BuiltLabels[r] EXCEPT !.name = Overwritten] \in LabelSets
  BY <1>1 DEF LabelSets
<1>3. apply_to(p, r, maybe_mutate(r, snap[p].strategy), BuiltLabels[r])
        \in [pods: BOOLEAN, labels: LabelSets]
  BY <1>1, <1>2 DEF apply_to, maybe_mutate
<1>4. Applied(p, r) \in Objects /\ Applied(p, r).uid <= nextUid
      /\ (~Exists(r) \/ Applied(p, r).uid < nextUid)
  BY <1>3 DEF Applied, Objects, TypeOK, Snapshots, Exists, Uid
<1>5. QED
  BY <1>4 DEF ApplyPatch, TypeOK, Objects, Uid

\* Removing an object does as well.
LEMMA RemoveTypes ==
  ASSUME TypeOK, NEW r \in Resources, Remove(r)
  PROVE  /\ store' \in [Resources -> Objects]
         /\ \A s \in Resources : store'[s].uid < nextUid
BY DEF TypeOK, Remove, NoObject, Objects, LabelSets, NoOwner, Uid

\* So does a change of a cluster object.
LEMMA ClusterTypes ==
  ASSUME TypeOK, NEW c \in Clusters, NEW object \in ClusterObjects,
         cluster' = [cluster EXCEPT ![c] = object], object.uid < nextUid',
         nextUid' \in Nat \ {0}, nextUid <= nextUid', disturbances' \in Nat,
         UNCHANGED <<store, inflight, cache, localVars>>
  PROVE  TypeOK'
<1>1. cluster' \in [Clusters -> ClusterObjects]
  BY DEF TypeOK
<1>2. \A d \in Clusters : cluster[d].uid \in Nat /\ cluster[d].uid < nextUid
  BY DEF TypeOK, ClusterObjects, Uid
<1>3. \A d \in Clusters : cluster'[d].uid < nextUid'
  BY <1>2 DEF TypeOK
<1>4. QED
  BY <1>1, <1>3 DEF TypeOK, localVars, Objects, Uid

\* A step of the environment keeps the types.
LEMMA EnvironmentTypes == TypeOK /\ EnvironmentStep => TypeOK'
<1> SUFFICES ASSUME TypeOK, EnvironmentStep PROVE TypeOK'
  OBVIOUS
<1>0. /\ cluster \in [Clusters -> ClusterObjects]
      /\ nextUid \in Nat \ {0} /\ disturbances \in Nat
      /\ \A c \in Clusters : cluster[c].uid \in Nat /\ cluster[c].uid < nextUid
  BY DEF TypeOK, ClusterObjects, Uid
<1>1. ASSUME NEW c \in Clusters, NEW r \in Resources, ToggleResource(c, r) PROVE TypeOK'
  <2> DEFINE asked == cluster[c].desired
             object == [cluster[c] EXCEPT !.desired =
                          IF r \in asked THEN asked \ {r} ELSE asked \cup {r}]
  <2>1. object \in ClusterObjects /\ object.uid = cluster[c].uid
    BY <1>0 DEF ClusterObjects, Uid
  <2>2. cluster' = [cluster EXCEPT ![c] = object]
    BY <1>0, <1>1 DEF ToggleResource
  <2> HIDE DEF object
  <2>3. /\ nextUid' \in Nat \ {0} /\ nextUid <= nextUid' /\ disturbances' \in Nat
        /\ object.uid < nextUid'
        /\ UNCHANGED <<store, inflight, cache, localVars>>
    BY <1>0, <1>1, <2>1 DEF ToggleResource, Disturb, serverVars
  <2>4. QED
    BY <2>1, <2>2, <2>3, ClusterTypes
<1>2. ASSUME NEW c \in Clusters, SetOperation(c) PROVE TypeOK'
  <2>1. PICK stopped \in BOOLEAN, paused \in BOOLEAN :
          cluster' = [cluster EXCEPT ![c].stopped = stopped, ![c].paused = paused]
    BY <1>2 DEF SetOperation
  <2> DEFINE object == [cluster[c] EXCEPT !.stopped = stopped, !.paused = paused]
  <2>2. object \in ClusterObjects /\ object.uid = cluster[c].uid
    BY <1>0 DEF ClusterObjects, Uid
  <2>3. cluster' = [cluster EXCEPT ![c] = object]
    BY <1>0, <2>1
  <2> HIDE DEF object
  <2>4. /\ nextUid' \in Nat \ {0} /\ nextUid <= nextUid' /\ disturbances' \in Nat
        /\ object.uid < nextUid'
        /\ UNCHANGED <<store, inflight, cache, localVars>>
    BY <1>0, <1>2, <2>2 DEF SetOperation, Disturb, serverVars
  <2>5. QED
    BY <2>2, <2>3, <2>4, ClusterTypes
<1>3. ASSUME NEW c \in Clusters, ToggleOverrides(c) PROVE TypeOK'
  <2> DEFINE object == [cluster[c] EXCEPT !.overrides = ~cluster[c].overrides]
  <2>1. object \in ClusterObjects /\ object.uid = cluster[c].uid
    BY <1>0 DEF ClusterObjects, Uid
  <2>2. cluster' = [cluster EXCEPT ![c] = object]
    BY <1>0, <1>3 DEF ToggleOverrides
  <2> HIDE DEF object
  <2>3. /\ nextUid' \in Nat \ {0} /\ nextUid <= nextUid' /\ disturbances' \in Nat
        /\ object.uid < nextUid'
        /\ UNCHANGED <<store, inflight, cache, localVars>>
    BY <1>0, <1>3, <2>1 DEF ToggleOverrides, Disturb, serverVars
  <2>4. QED
    BY <2>1, <2>2, <2>3, ClusterTypes
<1>4. ASSUME NEW c \in Clusters, DeleteCluster(c) PROVE TypeOK'
  <2> DEFINE object == [cluster[c] EXCEPT !.uid = 0]
  <2>1. object \in ClusterObjects /\ object.uid = 0
    BY <1>0 DEF ClusterObjects, Uid
  <2>2. cluster' = [cluster EXCEPT ![c] = object]
    BY <1>0, <1>4 DEF DeleteCluster
  <2> HIDE DEF object
  <2>3. /\ nextUid' \in Nat \ {0} /\ nextUid <= nextUid' /\ disturbances' \in Nat
        /\ object.uid < nextUid'
        /\ UNCHANGED <<store, inflight, cache, localVars>>
    BY <1>0, <1>4, <2>1 DEF DeleteCluster, Disturb, serverVars
  <2>4. QED
    BY <2>1, <2>2, <2>3, ClusterTypes
<1>5. ASSUME NEW c \in Clusters, RecreateCluster(c) PROVE TypeOK'
  <2> DEFINE object == [cluster[c] EXCEPT !.uid = nextUid]
  <2>1. object \in ClusterObjects /\ object.uid = nextUid
    BY <1>0 DEF ClusterObjects, Uid
  <2>2. cluster' = [cluster EXCEPT ![c] = object]
    BY <1>0, <1>5 DEF RecreateCluster
  <2> HIDE DEF object
  <2>3. /\ nextUid' \in Nat \ {0} /\ nextUid <= nextUid' /\ disturbances' \in Nat
        /\ object.uid < nextUid'
        /\ UNCHANGED <<store, inflight, cache, localVars>>
    BY <1>0, <1>5, <2>1 DEF RecreateCluster
  <2>4. QED
    BY <2>1, <2>2, <2>3, ClusterTypes
<1>6. ASSUME NEW r \in Resources, ExternalDelete(r) PROVE TypeOK'
  BY <1>6, RemoveTypes DEF ExternalDelete, Disturb, localVars, TypeOK
<1>7. ASSUME NEW r \in Resources, ForeignCreate(r) PROVE TypeOK'
  <2>1. [uid |-> nextUid, owner |-> NoOwner, pods |-> FALSE, labels |-> BuiltLabels[r]]
          \in Objects
    BY ConstantsAssumption DEF TypeOK, Objects, NoOwner, Uid
  <2>2. QED
    BY <1>7, <2>1 DEF ForeignCreate, Disturb, localVars, TypeOK, ClusterObjects, Objects, Uid
<1>8. ASSUME NEW r \in Resources, GarbageCollect(r) PROVE TypeOK'
  BY <1>8, RemoveTypes DEF GarbageCollect, localVars, TypeOK
<1>9. ASSUME NEW r \in Resources, LateDelete(r) PROVE TypeOK'
  BY <1>9, RemoveTypes DEF LateDelete, localVars, TypeOK
<1>10. ASSUME NEW r \in Resources, LoseDelete(r) PROVE TypeOK'
  BY <1>10 DEF LoseDelete, localVars, TypeOK
<1>11. ASSUME NEW p \in Reconcilers, WatchEvent(p) PROVE TypeOK'
  BY <1>11, ConstantsAssumption DEF WatchEvent, serverVars, localVars, TypeOK
<1>12. QED
  BY <1>1, <1>2, <1>3, <1>4, <1>5, <1>6, <1>7, <1>8, <1>9, <1>10, <1>11
     DEF EnvironmentStep

\* A reconciliation step keeps the types.
LEMMA ProceedTypes ==
  ASSUME TypeOK, NEW p \in Reconcilers, Proceed(p) PROVE TypeOK'
<1> USE ConstantsAssumption
<1>1. CASE Start(p)
  BY <1>1 DEF Start, ChosenStrategies, StrategyFrom, serverVars, TypeOK, ClusterObjects, Snapshots, Strategies,
              Uid, Errors
<1>2. CASE BeginSweep(p)
  <2>1. CASE delete_orphans(snap[p].strategy)
    BY <1>2, <2>1 DEF BeginSweep, serverVars, TypeOK
  <2>2. CASE ~delete_orphans(snap[p].strategy)
    BY <1>2, <2>2, ReturnTypes DEF BeginSweep, serverVars, TypeOK
  <2>3. QED
    BY <2>1, <2>2
<1>3. CASE Finish(p)
  BY <1>3, ReturnTypes DEF Finish, serverVars, TypeOK
<1>4. ASSUME NEW r \in Resources, AddRejected(p, r) PROVE TypeOK'
  BY <1>4, ReturnTypes, CheckLabelsResult DEF AddRejected, serverVars, TypeOK
<1>5. ASSUME NEW r \in Resources, AddOverrideFails(p, r) PROVE TypeOK'
  BY <1>5, ReturnTypes DEF AddOverrideFails, serverVars, TypeOK, Errors
<1>6. ASSUME NEW r \in Resources, AddApplies(p, r) PROVE TypeOK'
  BY <1>6, ApplyTypes DEF AddApplies, Running, Adding, Added, TypeOK, ClusterObjects, Uid
<1>7. ASSUME NEW r \in Resources, AddGets(p, r) PROVE TypeOK'
  BY <1>7 DEF AddGets, Running, Adding, Added, serverVars, TypeOK, Objects, Uid
<1>8. ASSUME NEW r \in Resources, AddGetsNothing(p, r) PROVE TypeOK'
  BY <1>8, ReturnTypes DEF AddGetsNothing, serverVars, TypeOK, Errors
<1>9. ASSUME NEW r \in Resources, AddDryRun(p, r) PROVE TypeOK'
  BY <1>9, ReturnTypes DEF AddDryRun, serverVars, TypeOK, Errors
<1>10. ASSUME NEW r \in Resources, DeleteOrphan(p, r) PROVE TypeOK'
  BY <1>10, RemoveTypes DEF DeleteOrphan, TypeOK
<1>11. ASSUME NEW r \in Resources, DeleteGone(p, r) PROVE TypeOK'
  BY <1>11, ReturnTypes DEF DeleteGone, AbandonedDeletes, TypeOK, Errors
<1>12. ASSUME NEW k \in TrackedKinds, ListKind(p, k) PROVE TypeOK'
  <2>1. k \in ClusterResourceKinds
    BY DEF TrackedKinds, SweptKinds, ClusterResourceKinds
  <2>2. QED
    BY <1>12, <2>1 DEF ListKind, Deployed, serverVars, TypeOK
<1>13. QED
  BY <1>1, <1>2, <1>3, <1>4, <1>5, <1>6, <1>7, <1>8, <1>9, <1>10, <1>11, <1>12 DEF Proceed

\* A failing or crashing reconciliation does as well.
LEMMA FailTypes ==
  ASSUME TypeOK, NEW p \in Reconcilers, Fail(p) PROVE TypeOK'
<1> USE ConstantsAssumption
<1>1. CASE Crash(p)
  BY <1>1, ReturnTypes DEF Crash, Disturb, AbandonedDeletes, TypeOK, Errors
<1>2. ASSUME NEW r \in Resources, AddFails(p, r) PROVE TypeOK'
  <2>1. CASE ApplyPatch(p, r)
    <3>1. /\ nextUid' \in Nat \ {0} /\ nextUid <= nextUid'
          /\ store' \in [Resources -> Objects]
          /\ \A s \in Resources : store'[s].uid < nextUid'
      BY <2>1, ApplyTypes
    <3>2. inflight' \in SUBSET Resources /\ disturbances' \in Nat
      BY <1>2 DEF AddFails, Disturb, TypeOK
    <3>3. \E outcome \in Errors : Return(p, outcome)
      BY <1>2 DEF AddFails, Errors
    <3>4. QED
      BY <3>1, <3>2, <3>3, ReturnTypes
  <2>2. CASE UNCHANGED <<store, nextUid>>
    BY <1>2, <2>2, ReturnTypes DEF AddFails, Disturb, TypeOK, Errors
  <2>3. QED
    BY <1>2, <2>1, <2>2 DEF AddFails
<1>3. ASSUME NEW r \in Resources, DeleteFails(p, r) PROVE TypeOK'
  BY <1>3, ReturnTypes DEF DeleteFails, Disturb, AbandonedDeletes, TypeOK, Errors
<1>4. ASSUME NEW k \in TrackedKinds, ListFails(p, k) PROVE TypeOK'
  BY <1>4, ReturnTypes DEF ListFails, Disturb, AbandonedDeletes, TypeOK, Errors
<1>5. QED
  BY <1>1, <1>2, <1>3, <1>4 DEF Fail

LEMMA InitTypes == Init => TypeOK
<1> SUFFICES ASSUME Init PROVE TypeOK
  OBVIOUS
<1> USE ConstantsAssumption
<1>1. Cardinality(Clusters) \in Nat
  BY FS_CardinalityType
<1>2. \A c \in Clusters : FirstAsked(c) \in SUBSET Resources
  BY StartAssumption DEF FirstAsked
<1>3. cluster \in [Clusters -> ClusterObjects]
      /\ \A c \in Clusters : cluster[c].uid < nextUid
  BY <1>1, <1>2, StartAssumption DEF Init, ClusterObjects, Uid
<1>4. NoObject \in Objects /\ NoObject.uid = 0
  BY DEF NoObject, Objects, LabelSets, NoOwner, Uid
<1>5. QED
  BY <1>1, <1>3, <1>4 DEF Init, TypeOK, Snapshots, NoSnapshot, Strategies, Uid

\* Every state of the reconcile loop is well typed, the API server never hands out
\* a UID twice, and a reconcile function that returned, was cancelled or died left
\* nothing behind for the next one (ClusterResources::new starts afresh).
THEOREM TypeCorrect == Spec => []TypeOK
<1>1. Init => TypeOK
  BY InitTypes
<1>2. TypeOK /\ [Next]_vars => TypeOK'
  <2> SUFFICES ASSUME TypeOK, [Next]_vars PROVE TypeOK'
    OBVIOUS
  <2>1. CASE Next
    BY <2>1, EnvironmentTypes, ProceedTypes, FailTypes DEF Next
  <2>2. CASE UNCHANGED vars
    BY <2>2 DEF vars, serverVars, localVars, TypeOK
  <2>3. QED
    BY <2>1, <2>2
<1>3. QED
  BY <1>1, <1>2, PTL DEF Spec

(***************************************************************************)
(* Safety                                                                  *)
(***************************************************************************)
\* check_labels accepts exactly the expected labels.
LEMMA CheckLabelsOk ==
  ASSUME NEW labels, NEW expected, check_labels(labels, expected) = "Ok"
  PROVE  labels.instance = expected.instance /\ labels.managed_by = expected.managed_by
BY DEF check_labels

\* What a reconciler p sees of a step in which it applies nothing itself: objects
\* stay or disappear, and only objects p does not build change or appear.
Bystander(p) ==
  /\ nextUid' \in Nat /\ nextUid <= nextUid'
  /\ \A r \in Resources :
       \/ store'[r] = store[r]
       \/ store'[r] = NoObject
       \/ BuiltBy[r] # p /\ store'[r].uid = (IF Exists(r) THEN store[r].uid ELSE nextUid)

\* The state of p's ClusterResources does not change.
Keeps(p) ==
  /\ pc'[p] = pc[p] /\ snap'[p] = snap[p] /\ todo'[p] = todo[p]
  /\ resource_ids'[p] = resource_ids[p] /\ listed'[p] = listed[p] /\ orphans'[p] = orphans[p]

\* Labels identify the reconciler that built an owned object.
LEMMA LabelsIdentify ==
  ASSUME TypeOK, Provenance, NEW p \in Reconcilers, NEW r \in Resources,
         store[r].owner # NoOwner, store[r].labels = get_required_labels(p)
  PROVE  BuiltBy[r] = p
BY ConstantsAssumption, ManagersUnique DEF Provenance, get_required_labels

\* Working(p) survives whatever others do.
LEMMA BystanderKeeps ==
  ASSUME TypeOK, TypeOK', Provenance', NEW p \in Reconcilers, Working(p), Bystander(p), Keeps(p)
  PROVE  Working(p)'
<1>1. Wanted(p)' = Wanted(p) /\ \A r : Override(p, r)' = Override(p, r)
  BY DEF Wanted, Keeps, Override
<1>2. \A r \in Resources : NoObject.uid = 0 /\ store[r].uid \in Nat /\ store[r].uid < nextUid
  BY DEF TypeOK, Objects, Uid, NoObject
<1>3. IdsMatch(p)'
  <2>1. \A i \in resource_ids[p] : i \in Nat /\ i < nextUid
    BY DEF Working, IdsMatch, TypeOK, Uid
  <2>2. \A i \in resource_ids'[p] : i < nextUid'
    BY <2>1 DEF Keeps, Bystander, TypeOK
  <2>3. ASSUME NEW r \in Resources, Exists(r)'
        PROVE  (store[r].uid \in resource_ids[p] <=> r \in Wanted(p) \ todo[p])'
    <3>1. CASE store'[r] = store[r]
      BY <1>1, <2>3, <3>1 DEF Working, IdsMatch, Keeps, Exists
    <3>2. CASE store'[r] = NoObject
      BY <1>2, <2>3, <3>2 DEF Exists
    <3>3. CASE BuiltBy[r] # p /\ store'[r].uid = (IF Exists(r) THEN store[r].uid ELSE nextUid)
      <4>1. r \notin Wanted(p)
        BY <3>3 DEF Wanted
      <4>2. store'[r].uid \notin resource_ids[p]
        BY <1>2, <2>1, <3>3, <4>1 DEF Working, IdsMatch, TypeOK
      <4>3. QED
        BY <1>1, <4>1, <4>2 DEF Keeps
    <3>4. QED
      BY <3>1, <3>2, <3>3 DEF Bystander
  <2>4. QED
    BY <2>2, <2>3 DEF IdsMatch
<1>4. AddedStopped(p)'
  <2>1. ASSUME NEW r \in Wanted(p) PROVE store'[r] = store[r] \/ ~Exists(r)'
    BY <1>2, <2>1 DEF Wanted, Bystander, Exists, TypeOK, Snapshots
  <2>2. QED
    BY <1>1, <2>1 DEF Working, AddedStopped, Keeps, Exists
<1>5. OrphansMine(p)'
  <2>1. ASSUME NEW r \in orphans[p] PROVE store'[r] = store[r] \/ ~Exists(r)'
    BY <1>2, <2>1 DEF Working, OrphansMine, Bystander, Exists, TypeOK
  <2>2. QED
    BY <1>1, <2>1 DEF Working, OrphansMine, Keeps, Exists
<1>6. ListedComplete(p)'
  <2> SUFFICES ASSUME pc'[p] = "sweep", NEW r \in Resources, Exists(r)',
                      store'[r].labels = get_required_labels(p),
                      store'[r].owner = snap'[p].uid, KindOf[r] \in listed'[p],
                      <<p, KindOf[r]>> \notin Forbidden
               PROVE  (r \in Wanted(p) \/ r \in orphans[p])'
    BY DEF ListedComplete, get_required_labels
  <2>1. BuiltBy[r] = p
    <3>1. store'[r].owner # NoOwner
      BY DEF Working, Keeps, NoOwner
    <3>2. QED
      BY <3>1, ConstantsAssumption, ManagersUnique DEF Provenance, get_required_labels
  <2>2. store'[r] = store[r]
    BY <1>2, <2>1 DEF Bystander, Exists
  <2>3. QED
    BY <1>1, <2>2 DEF Working, ListedComplete, Keeps, Exists
<1>7. QED
  BY <1>1, <1>3, <1>4, <1>5, <1>6 DEF Working, Keeps

\* The parts of the invariant that are about the API server alone.
Stored == Provenance /\ DistinctUids

\* Removing an object disturbs nobody.
LEMMA RemoveKeeps ==
  ASSUME TypeOK, Stored, NEW r \in Resources, Remove(r), UNCHANGED nextUid
  PROVE  Stored' /\ \A p \in Reconcilers : Bystander(p)
<1>1. \A s \in Resources : store'[s] = store[s] \/ store'[s] = NoObject
  BY DEF Remove, TypeOK
<1>2. NoObject.uid = 0 /\ NoObject.owner = NoOwner
  BY DEF NoObject
<1>3. QED
  BY <1>1, <1>2 DEF Stored, Provenance, DistinctUids, Bystander, Exists, TypeOK

\* An object created by somebody else disturbs nobody.
LEMMA ForeignKeeps ==
  ASSUME TypeOK, Stored, ForeignNamesApart, NEW r \in Resources, ForeignCreate(r)
  PROVE  Stored' /\ \A p \in Reconcilers : Bystander(p)
<1>1. /\ \A s \in Resources \ {r} : store'[s] = store[s]
      /\ store'[r].uid = nextUid /\ store'[r].owner = NoOwner
      /\ nextUid' = nextUid + 1 /\ ~Exists(r)
  BY DEF ForeignCreate, TypeOK
<1>2. \A s \in Resources : store[s].uid \in Nat /\ store[s].uid < nextUid
  BY DEF TypeOK, Objects, Uid
<1>3. \A p \in Reconcilers : BuiltBy[r] # p
  BY ConstantsAssumption DEF ForeignNamesApart, ForeignCreate
<1>4. Provenance'
  BY <1>1 DEF Stored, Provenance
<1>5. DistinctUids'
  BY <1>1, <1>2 DEF Stored, DistinctUids, Exists
<1>6. \A p \in Reconcilers : Bystander(p)
  BY <1>1, <1>3 DEF Bystander, TypeOK
<1>7. QED
  BY <1>4, <1>5, <1>6 DEF Stored

\* A resource that p applies is p's own, and disturbs no other reconciler.
LEMMA ApplyKeeps ==
  ASSUME TypeOK, Stored, NEW p \in Reconcilers, Working(p), NEW r \in todo[p],
         LabelsOk(p, r), ApplyPatch(p, r)
  PROVE  /\ Stored'
         /\ \A q \in Reconcilers : q # p => Bystander(q)
         /\ r \in Resources /\ BuiltBy[r] = p /\ r \in Wanted(p)
         /\ store'[r].uid = (IF Exists(r) THEN store[r].uid ELSE nextUid)
         /\ store'[r].uid # 0 /\ store'[r].uid < nextUid'
         /\ store'[r] = Applied(p, r)
         /\ \A s \in Resources \ {r} : store'[s] = store[s]
<1>0. r \in Resources /\ BuiltBy[r] = p /\ r \in Wanted(p) /\ snap[p].uid # NoOwner
  BY DEF Working, Wanted, TypeOK, Snapshots, NoOwner
<1>1. /\ \A s \in Resources \ {r} : store'[s] = store[s]
      /\ store'[r] = Applied(p, r)
      /\ nextUid' = IF Exists(r) THEN nextUid ELSE nextUid + 1
  BY <1>0 DEF ApplyPatch, TypeOK
<1>2. \A s \in Resources : store[s].uid \in Nat /\ store[s].uid < nextUid
  BY DEF TypeOK, Objects, Uid
<1>3. /\ store'[r].uid = (IF Exists(r) THEN store[r].uid ELSE nextUid)
      /\ store'[r].labels = apply_to(p, r, maybe_mutate(r, snap[p].strategy),
                                     BuiltLabels[r]).labels
  BY <1>1 DEF Applied
<1>4. /\ BuiltLabels[r].instance = ClusterOf[p] /\ BuiltLabels[r].managed_by = ManagerOf[p]
  BY CheckLabelsOk DEF LabelsOk, get_required_labels
<1>5. store'[r].labels.instance = ClusterOf[p] /\ store'[r].labels.managed_by = ManagerOf[p]
  <2>1. BuiltLabels[r] \in LabelSets
    BY <1>0, ConstantsAssumption
  <2>2. [BuiltLabels[r] EXCEPT !.name = Overwritten].instance = BuiltLabels[r].instance
        /\ [BuiltLabels[r] EXCEPT !.name = Overwritten].managed_by = BuiltLabels[r].managed_by
    BY <2>1 DEF LabelSets
  <2>3. QED
    BY <1>3, <1>4, <2>2 DEF apply_to
<1>6. Provenance'
  BY <1>0, <1>1, <1>5 DEF Stored, Provenance
<1>7. DistinctUids'
  BY <1>1, <1>2, <1>3 DEF Stored, DistinctUids, Exists
<1>8. \A q \in Reconcilers : q # p => Bystander(q)
  BY <1>0, <1>1, <1>3 DEF Bystander, TypeOK
<1>9. store'[r].uid # 0 /\ store'[r].uid < nextUid'
  BY <1>0, <1>1, <1>2, <1>3 DEF Exists, TypeOK
<1>10. QED
  BY <1>0, <1>1, <1>3, <1>6, <1>7, <1>8, <1>9 DEF Stored

\* A step of one reconciler: the others are bystanders.
LEMMA OneActs ==
  ASSUME IndInv, TypeOK', Stored', NEW p \in Reconcilers,
         \A q \in Reconcilers \ {p} : Bystander(q) /\ Keeps(q),
         pc'[p] # "idle" => Working(p)'
  PROVE  IndInv'
<1>1. ASSUME NEW q \in Reconcilers \ {p}, pc'[q] # "idle" PROVE Working(q)'
  BY <1>1, BystanderKeeps DEF IndInv, Keeps, Stored
<1>2. QED
  BY <1>1 DEF IndInv, Stored

\* A step that leaves the API server alone disturbs nobody.
LEMMA QuietKeeps ==
  ASSUME TypeOK, Stored, UNCHANGED <<store, nextUid>>
  PROVE  Stored' /\ \A p \in Reconcilers : Bystander(p)
BY DEF TypeOK, Stored, Provenance, DistinctUids, Exists, Bystander

\* A reconciliation that returns, whatever it did last.
LEMMA ReturnKeeps ==
  ASSUME IndInv, TypeOK', Stored', NEW p \in Reconcilers, NEW outcome, Return(p, outcome),
         \A q \in Reconcilers \ {p} : Bystander(q)
  PROVE  IndInv'
<1>1. pc'[p] = "idle"
  BY DEF Return, IndInv, TypeOK
<1>2. \A q \in Reconcilers \ {p} : Keeps(q)
  BY DEF Return, Keeps, IndInv, TypeOK
<1>3. QED
  BY <1>1, <1>2, OneActs

\* The environment keeps the invariant.
LEMMA EnvironmentSafe ==
  ASSUME ForeignNamesApart, IndInv, EnvironmentStep PROVE IndInv'
<1>0. TypeOK /\ Stored /\ TypeOK'
  BY EnvironmentTypes DEF IndInv, Stored
<1>1. Stored' /\ \A p \in Reconcilers : Bystander(p)
  <2>1. CASE \E c \in Clusters : RecreateCluster(c)
    BY <1>0, <2>1 DEF RecreateCluster, TypeOK, Stored, Provenance, DistinctUids, Exists, Bystander
  <2>2. CASE \E r \in Resources : ExternalDelete(r) \/ GarbageCollect(r) \/ LateDelete(r)
    BY <1>0, <2>2, RemoveKeeps DEF ExternalDelete, GarbageCollect, LateDelete
  <2>3. CASE \E r \in Resources : ForeignCreate(r)
    BY <1>0, <2>3, ForeignKeeps
  <2>4. CASE UNCHANGED <<store, nextUid>>
    BY <1>0, <2>4, QuietKeeps
  <2>5. QED
    BY <2>1, <2>2, <2>3, <2>4
       DEF EnvironmentStep, ToggleResource, SetOperation, ToggleOverrides, DeleteCluster,
           LoseDelete, WatchEvent, serverVars
<1>2. UNCHANGED localVars
  BY DEF EnvironmentStep, ToggleResource, SetOperation, ToggleOverrides, DeleteCluster,
         RecreateCluster, ExternalDelete, ForeignCreate, GarbageCollect, LateDelete, LoseDelete,
         WatchEvent
<1>3. \A p \in Reconcilers : Keeps(p)
  BY <1>2 DEF Keeps, localVars
<1>4. ASSUME NEW p \in Reconcilers, pc'[p] # "idle" PROVE Working(p)'
  BY <1>0, <1>1, <1>3, <1>4, BystanderKeeps DEF IndInv, Keeps, Stored
<1>5. QED
  BY <1>0, <1>1, <1>4 DEF IndInv, Stored

\* A failing reconciliation keeps the invariant: what an interrupted `add` or
\* sweep did is covered, the rest is forgotten.
LEMMA FailSafe ==
  ASSUME IndInv, NEW p \in Reconcilers, Fail(p) PROVE IndInv'
<1>0. TypeOK /\ Stored /\ TypeOK' /\ (pc[p] # "idle" => Working(p))
  BY FailTypes DEF IndInv, Stored
<1>1. CASE Crash(p)
  BY <1>0, <1>1, QuietKeeps, ReturnKeeps DEF Crash
<1>2. ASSUME NEW r \in Resources, AddFails(p, r) PROVE IndInv'
  <2>1. CASE ApplyPatch(p, r)
    <3>1. Stored' /\ \A q \in Reconcilers : q # p => Bystander(q)
      BY <1>0, <1>2, <2>1, ApplyKeeps DEF AddFails, Running, Adding
    <3>2. QED
      BY <1>0, <1>2, <3>1, ReturnKeeps DEF AddFails
  <2>2. CASE UNCHANGED <<store, nextUid>>
    BY <1>0, <1>2, <2>2, QuietKeeps, ReturnKeeps DEF AddFails
  <2>3. QED
    BY <1>2, <2>1, <2>2 DEF AddFails
<1>3. ASSUME NEW r \in Resources, DeleteFails(p, r) PROVE IndInv'
  BY <1>0, <1>3, QuietKeeps, ReturnKeeps DEF DeleteFails
<1>4. ASSUME NEW k \in TrackedKinds, ListFails(p, k) PROVE IndInv'
  BY <1>0, <1>4, QuietKeeps, ReturnKeeps DEF ListFails
<1>5. QED
  BY <1>1, <1>2, <1>3, <1>4 DEF Fail

\* `add` of a resource that got through: the UID that is recorded is the one of the
\* object that is stored.
LEMMA AddedKeeps ==
  ASSUME IndInv, TypeOK', Stored', NEW p \in Reconcilers, NEW r \in Resources,
         pc[p] = "add", r \in todo[p], Added(p, r, store'[r].uid),
         Exists(r)', store'[r].uid < nextUid', nextUid <= nextUid',
         store'[r].uid = (IF Exists(r) THEN store[r].uid ELSE nextUid),
         \A s \in Resources \ {r} : store'[s] = store[s],
         snap[p].strategy = "ClusterStopped" /\ KindOf[r] \in StoppableKinds
           /\ Override(p, r) # "replicas" => ~store'[r].pods,
         \A q \in Reconcilers \ {p} : Bystander(q)
  PROVE  IndInv'
<1>0. TypeOK /\ Working(p)
  BY DEF IndInv
<1>1. /\ pc'[p] = "add" /\ snap'[p] = snap[p] /\ orphans'[p] = {}
      /\ todo'[p] = todo[p] \ {r}
      /\ resource_ids'[p] = resource_ids[p] \cup {store'[r].uid}
  BY <1>0 DEF Added, TypeOK
<1>2. Wanted(p)' = Wanted(p) /\ \A s : Override(p, s)' = Override(p, s)
  BY <1>1 DEF Wanted, Override
<1>3. IdsMatch(p)'
  <2>1. \A i \in resource_ids'[p] : i < nextUid'
    BY <1>0, <1>1 DEF Working, IdsMatch, TypeOK, Uid
  <2>2. r \in Wanted(p) /\ r \notin todo'[p] /\ store'[r].uid \in resource_ids'[p]
    BY <1>0, <1>1 DEF Working
  <2>3. ASSUME NEW s \in Resources \ {r}, Exists(s)'
        PROVE  store'[s].uid \in resource_ids'[p] <=> s \in Wanted(p) \ todo'[p]
    <3>1. store'[s].uid # store'[r].uid
      BY <2>3 DEF Stored, DistinctUids
    <3>2. store'[s] = store[s] /\ Exists(s)
      BY <2>3 DEF Exists
    <3>3. QED
      BY <1>0, <1>1, <3>1, <3>2 DEF Working, IdsMatch
  <2>4. QED
    BY <1>2, <2>1, <2>2, <2>3 DEF IdsMatch
<1>4. AddedStopped(p)'
  <2> SUFFICES ASSUME snap[p].strategy = "ClusterStopped", NEW s \in Wanted(p), s \notin todo'[p],
                      KindOf[s] \in StoppableKinds, Override(p, s) # "replicas", Exists(s)'
               PROVE  ~store'[s].pods
    BY <1>1, <1>2 DEF AddedStopped
  <2>1. CASE s = r
    BY <2>1
  <2>2. CASE s # r
    <3>1. s \in Resources /\ s \notin todo[p]
      BY <1>0, <1>1, <2>2 DEF Wanted, TypeOK, Snapshots
    <3>2. QED
      BY <1>0, <2>2, <3>1 DEF Working, AddedStopped, Exists
  <2>3. QED
    BY <2>1, <2>2
<1>5. Working(p)'
  <2>1. OrphansMine(p)' /\ ListedComplete(p)'
    BY <1>1 DEF OrphansMine, ListedComplete
  <2>2. QED
    BY <1>0, <1>1, <1>2, <1>3, <1>4, <2>1 DEF Working
<1>6. \A q \in Reconcilers \ {p} : Keeps(q)
  BY <1>0 DEF Added, Keeps, TypeOK
<1>7. QED
  BY <1>5, <1>6, OneActs

\* A step of p that changes nothing but its own state of the reconciliation.
LEMMA LocalStep ==
  ASSUME IndInv, TypeOK', UNCHANGED <<store, nextUid>>, NEW p \in Reconcilers,
         \A q \in Reconcilers \ {p} : Keeps(q), Working(p)'
  PROVE  IndInv'
BY QuietKeeps, OneActs DEF IndInv, Stored

\* A reconciliation step keeps the invariant.
LEMMA ProceedSafe ==
  ASSUME IndInv, NEW p \in Reconcilers, Proceed(p) PROVE IndInv'
<1>0. TypeOK /\ Stored /\ TypeOK' /\ (pc[p] # "idle" => Working(p))
  BY ProceedTypes DEF IndInv, Stored
<1>1. CASE Start(p)
  <2>1. /\ snap'[p].uid # 0 /\ pc'[p] = "add"
        /\ todo'[p] = Wanted(p)' /\ resource_ids'[p] = {} /\ orphans'[p] = {}
    BY <1>0, <1>1 DEF Start, Wanted, TypeOK
  <2>2. Working(p)'
    BY <1>0, <2>1 DEF Working, IdsMatch, AddedStopped, OrphansMine, ListedComplete
  <2>3. \A q \in Reconcilers \ {p} : Keeps(q)
    BY <1>0, <1>1 DEF Start, Keeps, TypeOK
  <2>4. QED
    BY <1>0, <1>1, <2>2, <2>3, LocalStep DEF Start, serverVars
<1>2. CASE BeginSweep(p)
  <2>1. CASE delete_orphans(snap[p].strategy)
    <3>1. /\ pc' = [pc EXCEPT ![p] = "sweep"] /\ listed[p] = {}
          /\ UNCHANGED <<store, nextUid, snap, todo, resource_ids, listed, orphans>>
      BY <1>0, <1>2, <2>1 DEF BeginSweep, serverVars, TypeOK
    <3>2. Working(p)'
      <4>1. Working(p) /\ listed'[p] = {}
        BY <1>0, <1>2, <3>1 DEF BeginSweep
      <4>2. Wanted(p)' = Wanted(p) /\ \A s : Override(p, s)' = Override(p, s)
        BY <3>1 DEF Wanted, Override
      <4>3. ListedComplete(p)'
        BY <4>1 DEF ListedComplete
      <4>4. QED
        BY <3>1, <4>1, <4>2, <4>3 DEF Working, IdsMatch, AddedStopped, OrphansMine, Exists
    <3>3. \A q \in Reconcilers \ {p} : Keeps(q)
      BY <1>0, <3>1 DEF Keeps, TypeOK
    <3>4. QED
      BY <1>0, <3>1, <3>2, <3>3, LocalStep
  <2>2. CASE ~delete_orphans(snap[p].strategy)
    BY <1>0, <1>2, <2>2, QuietKeeps, ReturnKeeps DEF BeginSweep, serverVars
  <2>3. QED
    BY <2>1, <2>2
<1>3. CASE Finish(p)
  BY <1>0, <1>3, QuietKeeps, ReturnKeeps DEF Finish, serverVars
<1>4. ASSUME NEW r \in Resources,
             AddRejected(p, r) \/ AddOverrideFails(p, r) \/ AddGetsNothing(p, r)
               \/ AddDryRun(p, r) \/ DeleteGone(p, r)
      PROVE  IndInv'
  <2>1. UNCHANGED <<store, nextUid>> /\ \E outcome : Return(p, outcome)
    BY <1>4 DEF AddRejected, AddOverrideFails, AddGetsNothing, AddDryRun, DeleteGone, serverVars
  <2>2. QED
    BY <1>0, <2>1, QuietKeeps, ReturnKeeps
<1>5. ASSUME NEW r \in Resources, AddApplies(p, r) PROVE IndInv'
  <2>1. pc[p] = "add" /\ r \in todo[p] /\ LabelsOk(p, r) /\ ApplyPatch(p, r) /\ Working(p)
    BY <1>0, <1>5 DEF AddApplies, Running, Adding
  <2>2. /\ Stored' /\ \A q \in Reconcilers : q # p => Bystander(q)
        /\ store'[r].uid = (IF Exists(r) THEN store[r].uid ELSE nextUid)
        /\ store'[r].uid # 0 /\ store'[r].uid < nextUid'
        /\ store'[r] = Applied(p, r)
        /\ \A s \in Resources \ {r} : store'[s] = store[s]
    BY <1>0, <2>1, ApplyKeeps
  <2>3. nextUid <= nextUid'
    BY <1>0, <2>1, ApplyTypes
  <2>4. snap[p].strategy = "ClusterStopped" /\ KindOf[r] \in StoppableKinds
          /\ Override(p, r) # "replicas" => ~store'[r].pods
    <3>1. store'[r].pods = (maybe_mutate(r, snap[p].strategy) \/ Override(p, r) = "replicas")
      <4>1. Applied(p, r).pods
              = apply_to(p, r, maybe_mutate(r, snap[p].strategy), BuiltLabels[r]).pods
        BY DEF Applied
      <4>2. @ = (maybe_mutate(r, snap[p].strategy) \/ Override(p, r) = "replicas")
        BY DEF apply_to
      <4>3. QED
        BY <2>2, <4>1, <4>2
    <3>2. QED
      BY <3>1, Zenon DEF maybe_mutate
  <2>5. Added(p, r, store'[r].uid) /\ Exists(r)'
    BY <1>5, <2>2 DEF AddApplies, Exists
  <2>6. QED
    BY <1>0, <2>1, <2>2, <2>3, <2>4, <2>5, AddedKeeps
<1>7. ASSUME NEW r \in Resources, AddGets(p, r) PROVE IndInv'
  <2>1. /\ pc[p] = "add" /\ r \in todo[p] /\ Exists(r) /\ Added(p, r, store[r].uid)
        /\ UNCHANGED <<store, nextUid>> /\ snap[p].strategy = "ReconciliationPaused"
    BY <1>7 DEF AddGets, Running, Adding, serverVars
  <2>2. store'[r].uid < nextUid' /\ nextUid <= nextUid' /\ Exists(r)'
    BY <1>0, <2>1 DEF TypeOK, Exists
  <2>3. Stored' /\ \A q \in Reconcilers \ {p} : Bystander(q)
    BY <1>0, <2>1, QuietKeeps
  <2>4. QED
    BY <1>0, <2>1, <2>2, <2>3, AddedKeeps
<1>8. ASSUME NEW r \in Resources, DeleteOrphan(p, r) PROVE IndInv'
  <2>1. /\ Remove(r) /\ UNCHANGED nextUid /\ r \in orphans[p] /\ pc[p] = "sweep"
        /\ UNCHANGED <<pc, snap, todo, resource_ids, listed>>
        /\ orphans' = [orphans EXCEPT ![p] = @ \ {r}]
    BY <1>8 DEF DeleteOrphan
  <2>2. Stored' /\ \A q \in Reconcilers : Bystander(q)
    BY <1>0, <2>1, RemoveKeeps
  <2>3. ~Exists(r)' /\ \A s \in Resources \ {r} : store'[s] = store[s]
    BY <1>0, <2>1 DEF Remove, Exists, NoObject, TypeOK
  <2>4. orphans'[p] = orphans[p] \ {r} /\ Working(p)
    BY <1>0, <2>1 DEF TypeOK
  <2>5. Wanted(p)' = Wanted(p) /\ \A s : Override(p, s)' = Override(p, s)
    BY <2>1 DEF Wanted, Override
  <2>6. IdsMatch(p)'
    BY <2>1, <2>3, <2>4, <2>5 DEF Working, IdsMatch, Exists
  <2>7. AddedStopped(p)'
    <3>1. Wanted(p) \subseteq Resources
      BY <1>0 DEF Wanted, TypeOK, Snapshots
    <3>2. QED
      BY <2>1, <2>3, <2>4, <2>5, <3>1 DEF Working, AddedStopped, Exists
  <2>8. OrphansMine(p)'
    <3>1. orphans[p] \subseteq Resources
      BY <1>0 DEF TypeOK
    <3>2. QED
      BY <2>1, <2>3, <2>4, <2>5, <3>1 DEF Working, OrphansMine, Exists
  <2>9. ListedComplete(p)'
    BY <2>1, <2>3, <2>4, <2>5 DEF Working, ListedComplete, Exists, get_required_labels
  <2>10. Working(p)'
    BY <2>1, <2>4, <2>5, <2>6, <2>7, <2>8, <2>9 DEF Working
  <2>11. \A q \in Reconcilers \ {p} : Keeps(q)
    BY <1>0, <2>1 DEF Keeps, TypeOK
  <2>12. QED
    BY <1>0, <2>2, <2>10, <2>11, OneActs
<1>9. ASSUME NEW k \in TrackedKinds, ListKind(p, k) PROVE IndInv'
  <2> DEFINE found == {r \in Deployed(p, k) : store[r].uid \notin resource_ids[p]}
  <2>1. /\ pc[p] = "sweep" /\ UNCHANGED <<store, nextUid, pc, snap, todo, resource_ids>>
        /\ listed'[p] = listed[p] \cup {k}
        /\ orphans'[p] = IF <<p, k>> \in Forbidden THEN orphans[p] ELSE orphans[p] \cup found
    BY <1>0, <1>9 DEF ListKind, serverVars, TypeOK
  <2>2. Working(p) /\ todo[p] = {}
    BY <1>0, <2>1 DEF TypeOK
  <2>3. Wanted(p)' = Wanted(p) /\ \A s : Override(p, s)' = Override(p, s)
    BY <2>1 DEF Wanted, Override
  <2>4. IdsMatch(p)' /\ AddedStopped(p)'
    BY <2>1, <2>2, <2>3 DEF Working, IdsMatch, AddedStopped, Exists
  <2>5. OrphansMine(p)'
    <3>1. ASSUME NEW r \in found
          PROVE  BuiltBy[r] = p /\ r \notin Wanted(p) /\ store[r].owner = snap[p].uid
      <4>1. /\ r \in Resources /\ Exists(r) /\ store[r].owner = snap[p].uid
            /\ store[r].labels = get_required_labels(p) /\ store[r].uid \notin resource_ids[p]
        BY <3>1 DEF Deployed
      <4>2. BuiltBy[r] = p
        BY <1>0, <2>2, <4>1, LabelsIdentify DEF Stored, Working, NoOwner
      <4>3. r \notin Wanted(p)
        BY <2>2, <4>1 DEF Working, IdsMatch
      <4>4. QED
        BY <4>1, <4>2, <4>3
    <3>2. QED
      BY <2>1, <2>2, <2>3, <3>1 DEF Working, OrphansMine, Exists
  <2>6. ListedComplete(p)'
    <3> SUFFICES ASSUME NEW r \in Resources, Exists(r), store[r].labels = get_required_labels(p),
                        store[r].owner = snap[p].uid, KindOf[r] \in listed'[p],
                        <<p, KindOf[r]>> \notin Forbidden
                 PROVE  r \in Wanted(p) \/ r \in orphans'[p]
      BY <2>1, <2>3 DEF ListedComplete, Exists, get_required_labels
    <3>1. CASE KindOf[r] \in listed[p]
      BY <2>1, <2>2, <3>1 DEF Working, ListedComplete
    <3>2. CASE KindOf[r] = k
      <4>1. r \in Deployed(p, k)
        BY <3>2 DEF Deployed
      <4>2. CASE store[r].uid \in resource_ids[p]
        BY <2>2, <4>2 DEF Working, IdsMatch
      <4>3. CASE store[r].uid \notin resource_ids[p]
        BY <2>1, <3>2, <4>1, <4>3
      <4>4. QED
        BY <4>2, <4>3
    <3>3. QED
      BY <2>1, <3>1, <3>2
  <2>7. Working(p)'
    BY <2>1, <2>2, <2>3, <2>4, <2>5, <2>6 DEF Working
  <2>8. \A q \in Reconcilers \ {p} : Keeps(q)
    BY <1>0, <1>9 DEF ListKind, Keeps, TypeOK
  <2>9. QED
    BY <1>0, <2>1, <2>7, <2>8, LocalStep
<1>10. QED
  BY <1>1, <1>2, <1>3, <1>4, <1>5, <1>7, <1>8, <1>9 DEF Proceed

LEMMA InitSafe == Init => IndInv
<1> SUFFICES ASSUME Init PROVE IndInv
  OBVIOUS
<1>1. TypeOK
  BY InitTypes
<1>2. \A r \in Resources : store[r] = NoObject
  BY DEF Init
<1>3. Provenance /\ DistinctUids
  BY <1>2 DEF Provenance, DistinctUids, Exists, NoObject
<1>4. \A p \in Reconcilers : pc[p] = "idle"
  BY DEF Init
<1>5. QED
  BY <1>1, <1>3, <1>4 DEF IndInv

\* The inductive invariant holds in every reachable state, when nobody else uses
\* the names the operator uses.
LEMMA Inductive ==
  ASSUME ForeignNamesApart
  PROVE  Spec => []IndInv
<1>1. Init => IndInv
  BY InitSafe
<1>2. IndInv /\ [Next]_vars => IndInv'
  <2> SUFFICES ASSUME IndInv, [Next]_vars PROVE IndInv'
    OBVIOUS
  <2>1. CASE Next
    BY <2>1, EnvironmentSafe, ProceedSafe, FailSafe DEF Next
  <2>2. CASE UNCHANGED vars
    <3>1. TypeOK' /\ UNCHANGED <<store, nextUid>> /\ \A p \in Reconcilers : Keeps(p)
      BY <2>2 DEF vars, serverVars, localVars, IndInv, TypeOK, Keeps
    <3>2. Stored' /\ \A p \in Reconcilers : Bystander(p)
      BY <3>1, QuietKeeps DEF IndInv, Stored
    <3>3. ASSUME NEW p \in Reconcilers, pc'[p] # "idle" PROVE Working(p)'
      BY <3>1, <3>2, <3>3, BystanderKeeps DEF IndInv, Keeps, Stored
    <3>4. QED
      BY <3>1, <3>2, <3>3 DEF IndInv, Stored
  <2>3. QED
    BY <2>1, <2>2
<1>3. QED
  BY <1>1, <1>2, PTL DEF Spec

\* However edits, failures, restarts, deletions by others, lagging watches and the
\* other controllers interleave: what delete_orphaned_resources is about to delete
\* by name is gone or is still an object of this reconciler and this cluster object
\* that was not added.  The names must not be used by others, because `delete` does
\* not name the UID that was listed.
THEOREM SweepDeletesOnlyOrphans ==
  ASSUME ForeignNamesApart
  PROVE  Spec => []OrphansStillOwn
<1>1. IndInv => OrphansStillOwn
  <2> SUFFICES ASSUME IndInv, NEW p \in Reconcilers, NEW r \in orphans[p]
               PROVE  /\ r \notin Wanted(p)
                      /\ Exists(r) => /\ BuiltBy[r] = p
                                      /\ store[r].owner = snap[p].uid
                                      /\ store[r].uid \notin resource_ids[p]
    BY DEF OrphansStillOwn
  <2>1. Working(p) /\ r \in Resources
    BY DEF IndInv, TypeOK
  <2>2. QED
    BY <2>1 DEF Working, OrphansMine, IdsMatch
<1>2. QED
  BY <1>1, Inductive, PTL

\* When delete_orphaned_resources is about to return Ok, no object that carries the
\* cluster's labels and owner is left that was not asked for.
THEOREM SweepIsComplete ==
  ASSUME ForeignNamesApart
  PROVE  Spec => []NoOrphansAfterSuccess
<1>1. IndInv => NoOrphansAfterSuccess
  <2> SUFFICES ASSUME IndInv, NEW p \in Reconcilers, pc[p] = "sweep",
                      listed[p] = TrackedKinds, orphans[p] = {},
                      NEW r \in Resources, Exists(r), store[r].labels = get_required_labels(p),
                      store[r].owner = snap[p].uid, <<p, KindOf[r]>> \notin Forbidden
               PROVE  r \in Wanted(p)
    BY DEF NoOrphansAfterSuccess
  <2>1. KindOf[r] \in TrackedKinds
    BY ConstantsAssumption DEF TrackedKinds, SweptKinds, ClusterResourceKinds
  <2>2. Working(p)
    BY DEF IndInv
  <2>3. QED
    BY <2>1, <2>2 DEF Working, ListedComplete
<1>2. QED
  BY <1>1, Inductive, PTL

\* Once every resource of a stopped cluster was added, none of its StatefulSets,
\* DaemonSets and Deployments runs Pods, unless the user's overrides ask for them.
THEOREM StoppedClusterStops ==
  ASSUME ForeignNamesApart
  PROVE  Spec => []StoppedRunsNoPods
<1>1. IndInv => StoppedRunsNoPods
  BY DEF IndInv, TypeOK, Working, AddedStopped, StoppedRunsNoPods
<1>2. QED
  BY <1>1, Inductive, PTL
=============================================================================
