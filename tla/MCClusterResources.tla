------------------------- MODULE MCClusterResources -------------------------
(***************************************************************************)
(* Instances of ClusterResources for TLC.  One operator runs the           *)
(* controllers a and b on the cluster c1; the reconciler d works on the    *)
(* cluster c2 with the same controller as a.  `sts`, `cma`, `svc` and      *)
(* `cmb` are what a and b build for c1, `cmd` is what d builds for c2, and *)
(* `other` is built by nobody.                                             *)
(***************************************************************************)
EXTENDS ClusterResources, TLC

CONSTANTS c1, c2, a, b, d, sts, cma, cmb, cmd, svc, other, m1, m2, app, app2

MCClusterOf == (a :> c1 @@ b :> c1 @@ d :> c2)
MCManagerOf == (a :> m1 @@ b :> m2 @@ d :> m1)
MCBuiltBy   == (sts :> a @@ cma :> a @@ cmb :> b @@ cmd :> d @@ svc :> a @@ other :> NoOne)
MCKindOf    == (sts :> "StatefulSet" @@ cma :> "ConfigMap" @@ cmb :> "ConfigMap"
                @@ cmd :> "ConfigMap" @@ svc :> "Service" @@ other :> "ConfigMap")

Restricted(f, S) == [x \in S |-> f[x]]

FirstUidHere  == Restricted(c1 :> 1 @@ c2 :> 2, Clusters)
ClusterOfHere == Restricted(MCClusterOf, Reconcilers)
ManagerOfHere == Restricted(MCManagerOf, Reconcilers)
AppOfHere     == [p \in Reconcilers |-> app]
BuiltByHere   == Restricted(MCBuiltBy, Resources)
KindOfHere    == Restricted(MCKindOf, Resources)

\* The code of a controller gives its resources the labels it requires; `other`
\* carries labels propagated from one of a's resources.
Labelled(p) == [instance |-> MCClusterOf[p], managed_by |-> MCManagerOf[p], name |-> app]
GoodLabels  == [r \in Resources |-> Labelled(IF r = other THEN a ELSE MCBuiltBy[r])]

\* ... unless it forgets one.
ForgottenLabels ==
  [r \in Resources |-> IF r = svc THEN [GoodLabels[svc] EXCEPT !.managed_by = MissingLabel]
                                  ELSE GoodLabels[r]]

NoOverrides == [r \in Resources |-> "none"]
AllOverrides ==
  [r \in Resources |-> CASE r = sts -> "replicas" [] r = cma -> "unparsable"
                         [] r = cmb -> "labels"   [] OTHER   -> "none"]

ServicesDenied == {<<a, "Service">>}
=============================================================================
