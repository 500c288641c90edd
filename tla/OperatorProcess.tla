--------------------------- MODULE OperatorProcess ---------------------------
(***************************************************************************)
(* The life of an operator process: initialize_operator (client/mod.rs)    *)
(* with the cluster domain (utils/cluster_info.rs, utils/kubelet.rs), the  *)
(* SignalWatcher and its handles (utils/signal.rs), the end-of-support     *)
(* checker that is given one of them (eos/mod.rs), and the wait for a CRD  *)
(* to be established.  The tasks run on one tokio runtime and interleave   *)
(* at their awaits.  watch channels, intervals, timeouts and the watch of  *)
(* kube-rs are external and modelled as they are used here.                *)
(***************************************************************************)
EXTENDS Naturals, FiniteSets, Options

CONSTANTS
    Handles,          \* what SignalWatcher::handle returns, one per task
    EosHandle,        \* the handle given to EndOfSupportChecker::run
    Domains,          \* cluster domains
    Interval,         \* EndOfSupportOptions::interval
    EosDate,          \* built_datetime + support_duration
    CrdTimeout,       \* the timeout of crd_established
    MaxTime           \* bound: the clock stops here

ASSUME ProcessAssumption ==
    /\ EosHandle \in Handles
    /\ {Interval, CrdTimeout} \subseteq Nat \ {0}
    /\ {EosDate, MaxTime} \subseteq Nat
    /\ None \notin [version : {0, 1}, open : BOOLEAN] /\ None # "TimeoutElapsed"

VARIABLES
    options,     \* the command line: configured domain, eos disabled
    startup,     \* how far initialize_operator got, and what it returned
    watch,       \* the watch channel of the SignalWatcher, None before sigterm()
    receiver,    \* per handle: how far it is, and the version its receiver has seen
    now,         \* the clock
    eos,         \* the end-of-support checker
    crd,         \* the CRD in the cluster, and what the watch delivered of it
    wait         \* the call of crd_established

processVars == <<options, startup, watch, receiver, now, eos, crd, wait>>

------------------------------------------------------------------------------
(* initialize_operator *)

KubernetesClusterInfoOptions ==
    [kubernetes_cluster_domain : Domains \cup {None}, disabled : BOOLEAN]

Running == startup.at = "running"

\* kube::Config::infer and Client::try_from, either of which may fail
InferConfig ==
    /\ startup.at = "config"
    /\ startup' \in {[startup EXCEPT !.at = to] :
                        to \in {"cluster_info", "InferKubeConfig", "CreateKubeClient"}}
    /\ UNCHANGED <<options, watch, receiver, now, eos, crd, wait>>

\* KubeletConfig::fetch: the request or its deserialisation may fail
fetch == {Ok(d) : d \in Domains} \cup {Err("FetchNodeKubeletConfig")}

\* a configured domain wins; only without one is the kubelet asked
KubernetesClusterInfo_new ==
    IF options.kubernetes_cluster_domain # None
    THEN {Ok(options.kubernetes_cluster_domain)}
    ELSE fetch

initialize_operator ==
    /\ startup.at = "cluster_info"
    /\ \E info \in KubernetesClusterInfo_new :
          startup' = IF info.ok THEN [at |-> "running", domain |-> info.value]
                     ELSE [startup EXCEPT !.at = "NewKubeletClusterInfo"]
    /\ UNCHANGED <<options, watch, receiver, now, eos, crd, wait>>

------------------------------------------------------------------------------
(* SignalWatcher *)

\* registering the signal handler may fail; otherwise a task waits for it
sigterm ==
    /\ Running /\ watch = None
    /\ \/ watch' = [version |-> 0, open |-> TRUE] /\ UNCHANGED startup
       \/ startup' = [startup EXCEPT !.at = "SignalError"] /\ UNCHANGED watch
    /\ UNCHANGED <<options, receiver, now, eos, crd, wait>>

\* the spawned task sends the value and ends, which drops the sender
SendSignal ==
    /\ watch # None /\ watch.open
    /\ watch' = [version |-> 1, open |-> FALSE]
    /\ UNCHANGED <<options, startup, receiver, now, eos, crd, wait>>

handle_Seen(h) == [receiver EXCEPT ![h] = [at |-> "pending", seen |-> watch.version]]

\* the receiver of the watcher itself never sees a change, nor do its clones
handle(h) == [receiver EXCEPT ![h] = [at |-> "pending", seen |-> 0]]

AcquireHandle(h) ==
    /\ Running /\ watch # None /\ receiver[h].at = "absent" /\ h # EosHandle
    /\ receiver' = handle(h)
    /\ UNCHANGED <<options, startup, watch, now, eos, crd, wait>>

\* watch::Receiver::changed: an unseen version, or no sender any more.
\* A sender that ended has sent; its error is discarded all the same.
Changed(h) == receiver[h].at = "pending" /\ receiver[h].seen # watch.version

CompleteHandle(h) ==
    /\ Changed(h) /\ h # EosHandle
    /\ receiver' = [receiver EXCEPT ![h].at = "completed"]
    /\ UNCHANGED <<options, startup, watch, now, eos, crd, wait>>

------------------------------------------------------------------------------
(* EndOfSupportChecker *)

\* new may fail to parse the built time; run returns at once when disabled,
\* dropping the handle, and its interval is due immediately otherwise
StartChecker ==
    /\ Running /\ watch # None /\ eos.at = "idle"
    /\ \/ eos' = [eos EXCEPT !.at = "ParseBuiltTime"] /\ UNCHANGED receiver
       \/ /\ options.disabled
          /\ eos' = [eos EXCEPT !.at = "returned"]
          /\ UNCHANGED receiver
       \/ /\ ~options.disabled
          /\ eos' = [eos EXCEPT !.at = "running", !.due = now]
          /\ receiver' = handle(EosHandle)
    /\ UNCHANGED <<options, startup, watch, now, crd, wait>>

TickReady_Unbiased == eos.at = "running" /\ now >= eos.due

\* the biased select: the shutdown branch is polled before the interval
TickReady == eos.at = "running" /\ now >= eos.due /\ ~Changed(EosHandle)

\* a late tick does not move the ones after it: they follow in a burst
CheckEndOfSupport ==
    /\ TickReady
    /\ eos' = [eos EXCEPT !.due = @ + Interval, !.checks = ~@,
                          !.warned = @ \/ ~(now <= EosDate)]
    /\ UNCHANGED <<options, startup, watch, receiver, now, crd, wait>>

StopChecker ==
    /\ eos.at = "running" /\ Changed(EosHandle)
    /\ eos' = [eos EXCEPT !.at = "returned"]
    /\ receiver' = [receiver EXCEPT ![EosHandle].at = "completed"]
    /\ UNCHANGED <<options, startup, watch, now, crd, wait>>

------------------------------------------------------------------------------
(* crd_established *)

crd_established ==
    /\ Running /\ wait.at = "idle"
    /\ now + CrdTimeout <= MaxTime      \* bound: the clock reaches the deadline
    /\ wait' = [wait EXCEPT !.at = "waiting", !.deadline = now + CrdTimeout]
    /\ crd' = [crd EXCEPT !.seen = FALSE]
    /\ UNCHANGED <<options, startup, watch, receiver, now, eos>>

\* the API server establishes the CRD, or it is removed again
ChangeCrd ==
    /\ wait.at # "returned"
    /\ crd' = [crd EXCEPT !.established = ~@]
    /\ UNCHANGED <<options, startup, watch, receiver, now, eos, wait>>

\* await_condition watches the CRD and sees its states late
DeliverCrd ==
    /\ wait.at = "waiting"
    /\ crd' = [crd EXCEPT !.seen = @ \/ crd.established]
    /\ UNCHANGED <<options, startup, watch, receiver, now, eos, wait>>

CrdOutcome_NoTimeout == IF crd.seen THEN {"established"} ELSE {"Api"}

\* tokio::time::timeout polls what it guards before its deadline
CrdOutcome ==
    IF crd.seen THEN {"established"}
    ELSE {"Api"} \cup {r \in {"TimeoutElapsed"} : now >= wait.deadline}

\* whether the API answers with an error is not the operator's choice, so a
\* wait that has not met its condition nor its deadline stays pending
ReturnFromWait(outcome) ==
    /\ wait.at = "waiting" /\ outcome \in CrdOutcome
    /\ wait' = [wait EXCEPT !.at = "returned", !.result = outcome]
    /\ UNCHANGED <<options, startup, watch, receiver, now, eos, crd>>

PassTime ==
    /\ Running /\ now < MaxTime
    /\ now' = now + 1
    /\ UNCHANGED <<options, startup, watch, receiver, eos, crd, wait>>

------------------------------------------------------------------------------
ProcessInit ==
    /\ options \in KubernetesClusterInfoOptions
    /\ startup = [at |-> "config", domain |-> None]
    /\ watch = None
    /\ receiver = [h \in Handles |-> [at |-> "absent", seen |-> 0]]
    /\ now = 0
    /\ eos = [at |-> "idle", due |-> 0, checks |-> FALSE, warned |-> FALSE]
    /\ crd = [established |-> FALSE, seen |-> FALSE]
    /\ wait = [at |-> "idle", deadline |-> 0, result |-> None]

ProcessNext ==
    \/ InferConfig \/ initialize_operator
    \/ sigterm \/ SendSignal
    \/ \E h \in Handles : AcquireHandle(h) \/ CompleteHandle(h)
    \/ StartChecker \/ CheckEndOfSupport \/ StopChecker
    \/ crd_established \/ ChangeCrd \/ DeliverCrd
    \/ \E r \in {"established", "Api", "TimeoutElapsed"} : ReturnFromWait(r)
    \/ PassTime

\* the runtime polls every task that was woken, and time passes; neither the
\* signal nor an answer of the API server has to come
ProcessFairness ==
    /\ \A h \in Handles : WF_processVars(CompleteHandle(h))
    /\ WF_processVars(CheckEndOfSupport) /\ WF_processVars(StopChecker)
    /\ WF_processVars(ReturnFromWait("established") \/ ReturnFromWait("TimeoutElapsed"))
    /\ WF_processVars(PassTime)

ProcessSpec == ProcessInit /\ [][ProcessNext]_processVars /\ ProcessFairness

------------------------------------------------------------------------------
Handles_(at) == {h \in Handles : receiver[h].at = at}

Broadcast == INSTANCE SignalBroadcast WITH
    sent <- watch # None /\ watch.version > 0,
    waiting <- Handles_("pending"),
    completed <- Handles_("completed")

\* SignalWatcher implements SignalBroadcast: no handle completes before the
\* signal, and every handle completes after it, the ones acquired when the
\* signal had already been sent included.
SignalIsBroadcast == Broadcast!BroadcastSpec

\* Once the signal has arrived the checker looks at the clock no more, however
\* many ticks are overdue: biased select polls the shutdown first.
NoCheckAfterShutdown ==
    [][eos'.checks # eos.checks => watch.version = 0]_processVars

\* A checker that runs past the end of support says so, unless it is shut down:
\* the tick that comes too early does not stop the later ones.
EndOfSupportReported ==
    (eos.at = "running" /\ now > EosDate) ~> (eos.warned \/ eos.at # "running")

\* crd_established returns, whether the CRD is ever established or not, in a
\* process that goes on.
CrdWaitEnds == (wait.at = "waiting") ~> (wait.at = "returned" \/ ~Running)

\* The wait is not cut short: it reports a timeout only when the whole
\* timeout has passed, and never for a CRD it has seen established.
TimeoutIsNotEarly ==
    wait.result = "TimeoutElapsed" => now >= wait.deadline /\ ~crd.seen

\* The checker warns in time, and never after the shutdown.
CheckerIsPunctual == NoCheckAfterShutdown /\ EndOfSupportReported

\* The wait for the CRD ends, and not too early.
CrdWaitEndsInTime == CrdWaitEnds /\ []TimeoutIsNotEarly

==============================================================================
