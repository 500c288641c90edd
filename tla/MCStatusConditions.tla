------------------------- MODULE MCStatusConditions -------------------------
(* A StatefulSet, a Deployment and a DaemonSet.                              *)
EXTENDS StatusConditions

CONSTANTS s1, d1, n1

\* none, replicas for both, and replicas for one of them only
MCOverrides == {[w \in {} |-> 0], [w \in {s1, d1} |-> 1],
                [w \in {s1, d1} |-> IF w = s1 THEN 1 ELSE 0]}
=============================================================================
