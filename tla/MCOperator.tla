----------------------------- MODULE MCOperator -----------------------------
(* OperatorProcess, ClientCalls, RandomSecret and VectorAgent share no       *)
(* state; a behaviour of the model is one of exactly one of them.  The parts *)
(* that are not run are put into a state in which none of their actions is   *)
(* enabled, so that their fairness asks for nothing.                         *)
EXTENDS OperatorProcess, ClientCalls, RandomSecret, VectorAgent

CONSTANTS reconciler, cleanup   \* the callers

InNamespace(ns) == [scope |-> "Namespaced", namespace |-> ns, name |-> "x"]

MCResources == {InNamespace("a"), InNamespace("b")}

MCCalls ==
    (({reconciler} \X {"get", "list", "create", "create_if_missing", "merge_patch",
                       "apply_patch", "update", "delete", "ensure_deleted", "wait_created"})
        \X {InNamespace("a")})
    \cup (({cleanup} \X {"create_if_missing"}) \X {InNamespace("a")})
    \cup (({cleanup} \X {"apply_patch"}) \X {InNamespace("b")})

VARIABLE part

ProcessAbsent ==
    /\ options = [kubernetes_cluster_domain |-> None, disabled |-> TRUE]
    /\ startup = [at |-> "InferKubeConfig", domain |-> None]
    /\ watch = None /\ receiver = [h \in Handles |-> [at |-> "absent", seen |-> 0]]
    /\ now = MaxTime
    /\ eos = [at |-> "idle", due |-> 0, checks |-> FALSE, warned |-> FALSE]
    /\ crd = [established |-> FALSE, seen |-> FALSE]
    /\ wait = [at |-> "returned", deadline |-> 0, result |-> None]

SecretAbsent ==
    /\ secret = [exists |-> TRUE, contents |-> 1, immutable |-> FALSE]
    /\ kept = 1 /\ fresh = 2 /\ interrupted = FALSE /\ disturbances = MaxDisturbances
    /\ pc = [p \in Reconcilers |-> "Ok"] /\ existing = [p \in Reconcilers |-> secret]

PodAbsent ==
    /\ pod = [restart_policy |-> "Never", nounset |-> FALSE, deleted |-> TRUE]
    /\ script = [NewScript EXCEPT !.at = "exited"] /\ product = "ended" /\ term = FALSE /\ exits = 0
    /\ shutdown_file = TRUE /\ agent = "exited" /\ missed = FALSE /\ unshipped = 0

OperatorInit ==
    \/ part = "process" /\ ProcessInit /\ ClientInit /\ SecretAbsent /\ PodAbsent
    \/ part = "client" /\ ProcessAbsent /\ ClientInit /\ SecretAbsent /\ PodAbsent
    \/ part = "secret" /\ ProcessAbsent /\ ClientInit /\ SecretInit /\ PodAbsent
    \/ part = "pod" /\ ProcessAbsent /\ ClientInit /\ SecretAbsent /\ PodInit

OperatorNext ==
    /\ UNCHANGED part
    /\ \/ part = "process" /\ ProcessNext /\ UNCHANGED <<clientVars, secretVars, podVars>>
       \/ part = "client" /\ ClientNext /\ UNCHANGED <<processVars, secretVars, podVars>>
       \/ part = "secret" /\ SecretNext /\ UNCHANGED <<processVars, clientVars, podVars>>
       \/ part = "pod" /\ PodNext /\ UNCHANGED <<processVars, clientVars, secretVars>>

OperatorSpec ==
    /\ OperatorInit
    /\ [][OperatorNext]_<<part, processVars, clientVars, secretVars, podVars>>
    /\ ProcessFairness /\ ClientFairness /\ SecretFairness /\ PodFairness

\* What each part waits for comes: ensure_deleted and wait_created return, a
\* migrated Secret is mutable in the end, and SIGTERM stops a pod while a
\* container that exits by itself comes back with Vector.
PartsProgress == WaitsReturn /\ BecomesMutable /\ PodStopsAndRestarts

=============================================================================
