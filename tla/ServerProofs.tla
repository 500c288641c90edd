---------------------------- MODULE ServerProofs ----------------------------
(***************************************************************************)
(* Proofs about what an operator serves and reports: the webhook server    *)
(* with its certificates (WebhookServer), traces and logs (Telemetry), the *)
(* events of failures and the metrics of feature gates                     *)
(* (ControllerReports), and what becomes of the logs of products           *)
(* (LogPipeline), for any number of webhooks, objects, connections,        *)
(* requests and faults, any lifetimes that fit together, any texts, and    *)
(* any configurations of loggers.                                          *)
(***************************************************************************)
EXTENDS WebhookServer, Telemetry, ControllerReports, LogPipeline, Recursion, SequenceTheorems

(***************************************************************************)
(* WebhookServer                                                           *)
(***************************************************************************)
\* An object is a webhook and the index of one of its objects.
LEMMA TargetsAre ==
  /\ \A h \in Hooks : \A j \in 1..NumTargets[h] : <<h, j>> \in Targets
  /\ \A t \in Targets : /\ t[1] \in Hooks /\ t[2] \in 1..NumTargets[t[1]]
                        /\ t = <<t[1], t[2]>>
BY DEF Targets

\* The steps of the two futures, of the connections and of the world around them.
LEMMA StepCases ==
  ASSUME Next
  PROVE  \/ Tick \/ Hibernate \/ Sigterm \/ Restart \/ RestartFails
         \/ RunWithoutWebhooks \/ Bind \/ BindFails \/ Shutdown \/ CheckRotation
         \/ Generate \/ GenerateFails \/ Send
         \/ Receive \/ EncodeFails \/ RotationDone \/ ReceiveNone
         \/ \E h \in Hooks : SkipHook(h) \/ Patch(h) \/ PatchFails(h) \/ HookDone(h)
         \/ ConnectionStep
BY DEF Next, TlsServerStep, UpdateLoopStep

(***************************************************************************)
(* Type correctness                                                        *)
(***************************************************************************)
\* Writing a certificate into one object's caBundle keeps the type of bundle.
LEMMA WriteTypes ==
  ASSUME TypeOK, NEW t, bundle' = [bundle EXCEPT ![t] = updater.cert]
  PROVE  bundle' \in [Targets -> Nat]
BY DEF TypeOK

\* A connection's task changes nothing but its own state.
LEMMA ConnectionTypes == TypeOK /\ ConnectionStep => TypeOK'
BY DEF TypeOK, ConnectionStep, Accept, Handshake, HandshakeFails, Disconnect, clockVars,
       serverVars, updateVars, Certs, Results

\* Every step keeps the types.
LEMMA TypeStep == TypeOK /\ [Next]_vars => TypeOK'
<1> SUFFICES ASSUME TypeOK, [Next]_vars PROVE TypeOK'
  OBVIOUS
<1> USE ServerConstants DEF TypeOK, Certs, Results, NoCert, Idle
<1>1. CASE UNCHANGED vars
  BY <1>1 DEF vars, clockVars, serverVars, updateVars
<1>2. CASE Tick \/ Hibernate \/ Sigterm
  <2>1. mono' \in Nat /\ drift' \in Nat
    BY <1>2 DEF Tick, Hibernate, Sigterm, clockVars
  <2>2. signal' \in BOOLEAN
    BY <1>2 DEF Tick, Hibernate, Sigterm
  <2>3. QED
    BY <1>2, <2>1, <2>2 DEF Tick, Hibernate, Sigterm, clockVars, serverVars, updateVars
<1>3. CASE RunWithoutWebhooks \/ Bind \/ Shutdown
  BY <1>3 DEF RunWithoutWebhooks, Bind, Shutdown, clockVars, serverVars, updateVars
<1>4. CASE BindFails \/ GenerateFails \/ EncodeFails \/ ReceiveNone \/ RestartFails
  BY <1>4 DEF BindFails, GenerateFails, EncodeFails, ReceiveNone, RestartFails, Abort,
              clockVars, serverVars, updateVars
<1>5. CASE CheckRotation
  BY <1>5 DEF CheckRotation, clockVars, updateVars
<1>6. CASE Generate
  BY <1>6 DEF Generate, wall, clockVars, updateVars
<1>7. CASE Send
  BY <1>7 DEF Send, clockVars, updateVars
<1>8. CASE Receive
  <2>1. [cert |-> channel, hook |-> 1, target |-> 1]
          \in [cert: Nat, hook: 0..(registered + 1), target: Nat]
    BY <1>8 DEF Receive
  <2>2. QED
    BY <1>8, <2>1 DEF Receive, clockVars, serverVars
<1>9. CASE RotationDone
  BY <1>9 DEF RotationDone, clockVars, serverVars
<1>10. ASSUME NEW h \in Hooks, SkipHook(h) \/ Patch(h) \/ PatchFails(h) \/ HookDone(h)
      PROVE  TypeOK'
  <2>1. CASE SkipHook(h) \/ HookDone(h)
    <3>1. updater' \in [cert: Nat, hook: 0..(registered + 1), target: Nat]
      <4>1. updater.hook \in 0..registered
        BY <2>1 DEF SkipHook, HookDone, Busy, Hooks
      <4>2. updater' = [updater EXCEPT !.hook = @ + 1, !.target = 1]
        BY <2>1 DEF SkipHook, HookDone, NextHook
      <4>3. updater.hook + 1 \in 0..(registered + 1)
        BY <4>1
      <4>4. QED
        BY <4>2, <4>3
    <3>2. initial' \in [Hooks -> BOOLEAN]
      BY <2>1 DEF SkipHook, HookDone
    <3>3. QED
      BY <2>1, <3>1, <3>2 DEF SkipHook, HookDone, clockVars, serverVars
  <2>2. CASE Patch(h)
    <3>1. updater' \in [cert: Nat, hook: 0..(registered + 1), target: Nat]
      BY <2>2 DEF Patch
    <3>2. bundle' \in [Targets -> Nat]
      BY <2>2, WriteTypes DEF Patch
    <3>3. QED
      BY <2>2, <3>1, <3>2 DEF Patch, clockVars, serverVars
  <2>3. CASE PatchFails(h)
    <3>1. bundle' \in [Targets -> Nat]
      BY <2>3, WriteTypes DEF PatchFails
    <3>2. QED
      BY <2>3, <3>1 DEF PatchFails, Abort, clockVars, serverVars
  <2>4. QED
    BY <1>10, <2>1, <2>2, <2>3
<1>11. CASE Restart
  BY <1>11 DEF Restart, Boot, wall, clockVars
<1>12. CASE ConnectionStep
  BY <1>12, ConnectionTypes
<1>13. QED
  BY StepCases, <1>1, <1>2, <1>4, <1>5, <1>6, <1>7, <1>8, <1>9, <1>10, <1>11, <1>12, <1>3

\* The initial states have the types.
LEMMA TypeInit == Init => TypeOK
<1> SUFFICES ASSUME Init PROVE TypeOK
  OBVIOUS
<1>1. updater \in [cert: Nat, hook: 0..(registered + 1), target: Nat]
  BY ServerConstants DEF Init, Idle
<1>2. served \in Certs /\ pending \in Certs
  BY ServerConstants DEF Init, Certs, NoCert
<1>3. signal \in BOOLEAN /\ outcome \in Results
  BY DEF Init, Results
<1>4. bundle \in [Targets -> Nat] /\ initial \in [Hooks -> BOOLEAN]
      /\ conn \in [Conns -> {"closed", "handshake", "open"}]
  BY DEF Init
<1>5. QED
  BY <1>1, <1>2, <1>3, <1>4, ServerConstants DEF Init, TypeOK

\* TypeOK holds in every reachable state of the server.
THEOREM TypeCorrect == Spec => []TypeOK
BY TypeInit, TypeStep, PTL DEF Spec

(***************************************************************************)
(* The order of certificates                                               *)
(***************************************************************************)
\* A step that leaves the certificates alone keeps their order.
LEMMA OrderUntouched ==
  ASSUME CertOrder, UNCHANGED <<bootCert, served, lastCert, channel, bundle>>,
         server' = server \/ server' # "sending", pending' = pending,
         updater' = updater
  PROVE  CertOrder'
BY DEF CertOrder

\* Every step keeps the certificates in order.
LEMMA OrderStep == TypeOK /\ CertOrder /\ [Next]_vars => CertOrder'
<1> SUFFICES ASSUME TypeOK, CertOrder, [Next]_vars PROVE CertOrder'
  OBVIOUS
<1>0. /\ served.id \in Nat /\ pending.id \in Nat /\ lastCert \in Nat /\ channel \in Nat
      /\ bootCert \in Nat /\ updater \in [cert: Nat, hook: 0..(registered + 1), target: Nat]
      /\ bundle \in [Targets -> Nat]
  BY DEF TypeOK, Certs
<1>1. CASE UNCHANGED vars \/ Tick \/ Hibernate \/ Sigterm \/ RestartFails
  BY <1>1, OrderUntouched DEF vars, Tick, Hibernate, Sigterm, RestartFails, clockVars,
     serverVars, updateVars
<1>2. CASE RunWithoutWebhooks \/ Bind \/ BindFails \/ Shutdown \/ CheckRotation
           \/ GenerateFails
  BY <1>2, OrderUntouched DEF RunWithoutWebhooks, Bind, BindFails, Shutdown, CheckRotation,
     GenerateFails, Abort, clockVars, serverVars, updateVars
<1>3. CASE ConnectionStep \/ ReceiveNone
  BY <1>3, OrderUntouched DEF ConnectionStep, Accept, Handshake, HandshakeFails, Disconnect,
     ReceiveNone, clockVars, serverVars, updateVars
<1>4. CASE Generate
  BY <1>0, <1>4 DEF Generate, CertOrder, clockVars, updateVars
<1>5. CASE Send
  BY <1>0, <1>5 DEF Send, CertOrder, clockVars, updateVars
<1>6. CASE Receive
  BY <1>0, <1>6 DEF Receive, CertOrder, clockVars, serverVars
<1>7. CASE EncodeFails
  BY <1>0, <1>7 DEF EncodeFails, Abort, CertOrder, clockVars, serverVars, updateVars
<1>8. CASE RotationDone
  BY <1>0, <1>8 DEF RotationDone, CertOrder, clockVars, serverVars
<1>9. ASSUME NEW h \in Hooks, SkipHook(h) \/ HookDone(h)
      PROVE  CertOrder'
  <2>1. updater # Idle /\ updater' = [updater EXCEPT !.hook = @ + 1, !.target = 1]
    BY <1>9 DEF SkipHook, HookDone, Busy, NextHook
  <2>2. updater'.cert = updater.cert /\ updater'.target = 1
    BY <1>0, <2>1
  <2>3. QED
    BY <1>9, <2>1, <2>2 DEF SkipHook, HookDone, CertOrder, clockVars, serverVars
<1>10. ASSUME NEW h \in Hooks, Patch(h) \/ PatchFails(h)
       PROVE  CertOrder'
  <2>1. updater # Idle
    BY <1>10 DEF Patch, PatchFails, Busy
  <2>2. \A t \in Targets : bundle'[t] <= served.id
    BY <1>0, <1>10, <2>1 DEF Patch, PatchFails, CertOrder
  <2>3. updater'.cert = updater.cert /\ updater'.target > 0
    BY <1>0, <1>10, <2>1 DEF Patch, PatchFails, CertOrder
  <2>4. UNCHANGED <<bootCert, served, lastCert, channel, server, pending>>
    BY <1>10 DEF Patch, PatchFails, Abort, serverVars
  <2>5. QED
    BY <2>1, <2>2, <2>3, <2>4 DEF CertOrder
<1>11. CASE Restart
  <2>1. /\ server' = "created" /\ served'.id = lastCert + 1 /\ lastCert' = lastCert + 1
        /\ channel' = lastCert + 1 /\ bootCert' = lastCert + 1 /\ updater' = Idle
        /\ bundle' = bundle
    BY <1>11 DEF Restart, Boot
  <2>2. QED
    BY <1>0, <2>1 DEF CertOrder
<1>12. QED
  BY StepCases, <1>1, <1>2, <1>3, <1>4, <1>5, <1>6, <1>7, <1>8, <1>9, <1>10, <1>11

(***************************************************************************)
(* The update loop                                                         *)
(***************************************************************************)
\* A step that leaves the update loop and the served certificate alone, and starts
\* no server, keeps its progress.
LEMMA ProgressUntouched ==
  ASSUME UpdateProgress, InitialReconcileSound,
         UNCHANGED <<registered, channel, updater, bundle, initial, bootCert, served>>,
         running' => running
  PROVE  UpdateProgress' /\ InitialReconcileSound'
BY DEF UpdateProgress, InitialReconcileSound, Maintained, Patched

\* So does a step after which nothing runs.
LEMMA ProgressStopped ==
  ASSUME ~running' PROVE UpdateProgress' /\ InitialReconcileSound'
BY DEF UpdateProgress, InitialReconcileSound

\* Going on to the next webhook passes the objects of the webhook before it only.
LEMMA NextHookPasses ==
  ASSUME TypeOK, NextHook, NEW t \in Targets, Patched(t)'
  PROVE  Patched(t) \/ t[1] = updater.hook
<1>1. /\ updater \in [cert: Nat, hook: 0..(registered + 1), target: Nat]
      /\ updater' = [updater EXCEPT !.hook = @ + 1, !.target = 1]
  BY DEF TypeOK, NextHook
<1>2. updater'.hook = updater.hook + 1 /\ updater'.target = 1 /\ updater.hook \in Nat
  BY <1>1
<1>3. t[1] \in Nat /\ t[2] \in Nat \ {0}
  BY TargetsAre, ServerConstants DEF Hooks
<1>4. QED
  BY <1>2, <1>3 DEF Patched

\* Every step keeps the progress of the update loop.
LEMMA ProgressStep ==
  TypeOK /\ CertOrder /\ UpdateProgress /\ InitialReconcileSound /\ [Next]_vars
    => UpdateProgress' /\ InitialReconcileSound'
<1> SUFFICES ASSUME TypeOK, CertOrder, UpdateProgress, InitialReconcileSound, [Next]_vars
             PROVE  UpdateProgress' /\ InitialReconcileSound'
  OBVIOUS
<1>0. /\ served.id \in Nat /\ pending.id \in Nat /\ lastCert \in Nat /\ channel \in Nat
      /\ bootCert \in Nat /\ updater \in [cert: Nat, hook: 0..(registered + 1), target: Nat]
      /\ bundle \in [Targets -> Nat] /\ registered \in Nat /\ initial \in [Hooks -> BOOLEAN]
  BY ServerConstants DEF TypeOK, Certs
<1>1. CASE UNCHANGED vars \/ Tick \/ Hibernate \/ Sigterm
  BY <1>1, ProgressUntouched DEF vars, Tick, Hibernate, Sigterm, clockVars, serverVars,
     updateVars, running
<1>2. CASE Bind \/ Shutdown \/ CheckRotation \/ Generate
  BY <1>2, ProgressUntouched DEF Bind, Shutdown, CheckRotation, Generate, clockVars,
     serverVars, updateVars, running
<1>3. CASE ConnectionStep
  BY <1>3, ProgressUntouched DEF ConnectionStep, Accept, Handshake, HandshakeFails,
     Disconnect, clockVars, serverVars, updateVars, running
<1>4. CASE RunWithoutWebhooks \/ BindFails \/ GenerateFails \/ EncodeFails \/ ReceiveNone
           \/ RestartFails \/ \E h \in Hooks : PatchFails(h)
  BY <1>4, ProgressStopped DEF RunWithoutWebhooks, BindFails, GenerateFails, EncodeFails,
     ReceiveNone, RestartFails, PatchFails, Abort, running
<1>5. CASE Send
  <2>1. channel' # 0 /\ UNCHANGED <<registered, updater, bundle, initial, bootCert, outcome>>
    BY <1>0, <1>5 DEF Send, CertOrder, updateVars
  <2>2. QED
    BY <1>5, <2>1 DEF Send, UpdateProgress, InitialReconcileSound, Maintained, Patched, running
<1>6. CASE Receive
  <2>1. /\ channel # 0 /\ updater' = [cert |-> channel, hook |-> 1, target |-> 1]
        /\ UNCHANGED <<registered, served, bundle, initial, bootCert, outcome>>
    BY <1>6 DEF Receive, serverVars
  <2>2. channel = served.id
    BY <2>1 DEF CertOrder
  <2>3. updater'.cert = served.id /\ updater'.hook = 1 /\ updater'.target = 1
    BY <2>1, <2>2
  <2>4. \A t \in Targets : ~Patched(t)'
    BY <2>3, TargetsAre, ServerConstants DEF Patched, Hooks
  <2>5. updater' # Idle
    BY <2>3 DEF Idle
  <2>6. QED
    BY <2>1, <2>3, <2>4, <2>5 DEF UpdateProgress, InitialReconcileSound, running
<1>7. CASE RotationDone
  <2>1. /\ running /\ updater # Idle /\ updater.hook > registered /\ updater' = Idle
        /\ UNCHANGED <<registered, served, channel, bundle, initial, bootCert, outcome>>
    BY <1>7 DEF RotationDone, serverVars
  <2>2. \A t \in Targets : Maintained(t[1]) => Patched(t)
    BY <1>0, <2>1, TargetsAre DEF Maintained, Patched, Hooks
  <2>3. channel = 0 => \A t \in Targets : Maintained(t[1]) => bundle[t] = served.id
    BY <2>1, <2>2 DEF UpdateProgress
  <2>4. QED
    BY <2>1, <2>3 DEF UpdateProgress, InitialReconcileSound, Maintained, running
<1>8. ASSUME NEW h \in Hooks, SkipHook(h)
      PROVE  UpdateProgress' /\ InitialReconcileSound'
  <2>1. /\ running /\ updater # Idle /\ updater.hook = h /\ h \in Ignored /\ NextHook
        /\ UNCHANGED <<registered, served, channel, bundle, initial, bootCert, outcome>>
    BY <1>8 DEF SkipHook, Busy, serverVars
  <2>2. updater'.cert = updater.cert
    BY <1>0, <2>1 DEF NextHook
  <2>3. updater' # Idle
    <3>1. updater'.target = 1
      BY <1>0, <2>1 DEF NextHook
    <3>2. QED
      BY <3>1 DEF Idle
  <2>4. \A t \in Targets : Maintained(t[1]) /\ Patched(t)' => Patched(t)
    BY <2>1, NextHookPasses DEF Maintained
  <2>5. QED
    BY <2>1, <2>2, <2>3, <2>4 DEF UpdateProgress, InitialReconcileSound, Maintained, running
<1>9. ASSUME NEW h \in Hooks, HookDone(h)
      PROVE  UpdateProgress' /\ InitialReconcileSound'
  <2>1. /\ running /\ updater # Idle /\ updater.hook = h /\ h \notin Ignored /\ NextHook
        /\ updater.target > NumTargets[h] /\ h <= registered
        /\ UNCHANGED <<registered, served, channel, bundle, bootCert, outcome>>
    BY <1>9 DEF HookDone, Busy, serverVars
  <2>2. updater'.cert = updater.cert
    BY <1>0, <2>1 DEF NextHook
  <2>3. updater' # Idle
    <3>1. updater'.target = 1
      BY <1>0, <2>1 DEF NextHook
    <3>2. QED
      BY <3>1 DEF Idle
  <2>4. \A t \in Targets : t[1] = h => Patched(t)
    BY <1>0, <2>1, TargetsAre, ServerConstants DEF Patched
  <2>5. \A t \in Targets : Patched(t)' => Patched(t)
    BY <2>1, <2>4, NextHookPasses
  <2>6. UpdateProgress'
    BY <2>1, <2>2, <2>3, <2>5 DEF UpdateProgress, Maintained, running
  <2>7. \A t \in Targets : t[1] = h => bundle[t] >= bootCert
    <3>1. Maintained(h)
      BY <2>1, <1>0 DEF Maintained, Hooks
    <3>2. \A t \in Targets : t[1] = h => bundle[t] = updater.cert
      BY <2>1, <2>4, <3>1 DEF UpdateProgress
    <3>3. QED
      BY <1>0, <2>1, <3>2 DEF CertOrder
  <2>8. \A g \in Hooks : initial'[g] => initial[g] \/ g = h
    BY <1>0, <1>9 DEF HookDone
  <2>9. InitialReconcileSound'
    BY <2>1, <2>7, <2>8, ServerConstants DEF InitialReconcileSound, running
  <2>10. QED
    BY <2>6, <2>9
<1>10. ASSUME NEW h \in Hooks, Patch(h)
       PROVE  UpdateProgress' /\ InitialReconcileSound'
  <2> DEFINE here == <<h, updater.target>>
  <2>1. /\ running /\ updater # Idle /\ updater.hook = h /\ h \notin Ignored
        /\ updater.target <= NumTargets[h]
        /\ bundle' = [bundle EXCEPT ![here] = updater.cert]
        /\ updater' = [updater EXCEPT !.target = @ + 1]
        /\ UNCHANGED <<registered, served, channel, initial, bootCert, outcome>>
    BY <1>10 DEF Patch, Busy, serverVars
  <2>2. here \in Targets
    BY <1>0, <2>1, TargetsAre, ServerConstants DEF CertOrder
  <2>3. bundle'[here] = updater.cert /\ \A t \in Targets : t # here => bundle'[t] = bundle[t]
    BY <1>0, <2>1, <2>2
  <2>4. /\ updater'.cert = updater.cert /\ updater'.hook = h
        /\ updater'.target = updater.target + 1
    BY <1>0, <2>1
  <2>5. updater' # Idle
    BY <1>0, <2>4 DEF Idle, CertOrder, Hooks
  <2>6. \A t \in Targets : Patched(t)' => Patched(t) \/ t = here
    <3> TAKE t \in Targets
    <3>1. t = <<t[1], t[2]>> /\ t[1] \in Nat /\ t[2] \in Nat
      BY TargetsAre, ServerConstants DEF Hooks
    <3>2. updater.target \in Nat /\ h \in Nat
      BY <1>0 DEF Hooks
    <3>3. t[1] = h /\ t[2] = updater.target => t = here
      BY <3>1
    <3>4. QED
      BY <2>1, <2>4, <3>1, <3>2, <3>3 DEF Patched
  <2> HIDE DEF here
  <2>7. UpdateProgress'
    BY <2>1, <2>3, <2>4, <2>5, <2>6 DEF UpdateProgress, Maintained, running
  <2>8. updater.cert >= bootCert
    BY <1>0, <2>1 DEF CertOrder
  <2>9. InitialReconcileSound'
    BY <2>1, <2>3, <2>8 DEF InitialReconcileSound, running
  <2>10. QED
    BY <2>7, <2>9
<1>11. CASE Restart
  <2>1. /\ channel' # 0 /\ updater' = Idle /\ \A h \in Hooks : ~initial'[h]
    BY <1>0, <1>11 DEF Restart, Boot
  <2>2. QED
    BY <2>1, ServerConstants DEF UpdateProgress, InitialReconcileSound
<1>12. QED
  BY StepCases, <1>1, <1>2, <1>3, <1>4, <1>5, <1>6, <1>7, <1>8, <1>9, <1>10, <1>11

(***************************************************************************)
(* Expiry                                                                  *)
(***************************************************************************)
\* A step that leaves the server alone keeps its deadline, even if time passes.
LEMMA DeadlineUntouched ==
  ASSUME TypeOK, Deadline, NEW m \in Nat, NEW d \in Nat,
         UNCHANGED <<server, nextTick, checkedDrift, served, pending, outcome>>,
         mono' = m, drift' = d, mono <= m, drift <= d,
         server = "created" /\ outcome = "running" => m = mono
  PROVE  Deadline'
<1>1. /\ mono \in Nat /\ drift \in Nat /\ nextTick \in Nat /\ checkedDrift \in Nat
      /\ Interval \in Nat /\ Lifetime \in Nat
  BY ServerConstants DEF TypeOK
<1>2. QED
  BY <1>1 DEF Deadline, running, wall

\* Every step keeps the deadline.
LEMMA DeadlineStep == TypeOK /\ Deadline /\ [Next]_vars => Deadline'
<1> SUFFICES ASSUME TypeOK, Deadline, [Next]_vars PROVE Deadline'
  OBVIOUS
<1>0. /\ mono \in Nat /\ drift \in Nat /\ nextTick \in Nat /\ checkedDrift \in Nat
      /\ served.not_after \in Nat /\ pending.not_after \in Nat
      /\ Interval \in Nat /\ Lifetime \in Nat /\ Buffer \in Nat
      /\ Interval <= Buffer /\ Buffer < Lifetime
  BY ServerConstants, IntervalFitsBuffer DEF TypeOK, Certs
<1>1. CASE Tick
  BY <1>0, <1>1, DeadlineUntouched DEF Tick, serverVars, running
<1>2. CASE Hibernate
  BY <1>0, <1>2, DeadlineUntouched DEF Hibernate, serverVars
<1>3. CASE Sigterm \/ Receive \/ RotationDone \/ UNCHANGED vars
  BY <1>0, <1>3, DeadlineUntouched DEF Sigterm, Receive, RotationDone, vars, clockVars,
     serverVars
<1>4. CASE ConnectionStep
  BY <1>0, <1>4, DeadlineUntouched DEF ConnectionStep, Accept, Handshake, HandshakeFails,
     Disconnect, clockVars, serverVars
<1>5. CASE \E h \in Hooks : SkipHook(h) \/ Patch(h) \/ HookDone(h)
  BY <1>0, <1>5, DeadlineUntouched DEF SkipHook, Patch, HookDone, clockVars, serverVars
<1>6. CASE RunWithoutWebhooks \/ BindFails \/ GenerateFails \/ EncodeFails \/ ReceiveNone
           \/ RestartFails \/ \E h \in Hooks : PatchFails(h)
  BY <1>6 DEF RunWithoutWebhooks, BindFails, GenerateFails, EncodeFails, ReceiveNone,
     RestartFails, PatchFails, Abort, running, Deadline
<1>7. CASE Bind
  BY <1>0, <1>7 DEF Bind, Deadline, running, clockVars
<1>8. CASE Shutdown
  BY <1>8 DEF Shutdown, Deadline
<1>9. CASE CheckRotation
  <2>1. mono >= nextTick /\ nextTick' = nextTick + Interval /\ checkedDrift' = drift
        /\ UNCHANGED <<mono, drift, served>>
    BY <1>9 DEF CheckRotation, clockVars
  <2>2. CASE needs_rotation
    BY <1>0, <1>9, <2>1, <2>2 DEF CheckRotation, Deadline, wall
  <2>3. CASE ~needs_rotation
    <3>1. mono + drift + Buffer < served.not_after
      BY <1>0, <2>3 DEF needs_rotation, wall
    <3>2. QED
      BY <1>0, <1>9, <2>1, <2>3, <3>1 DEF CheckRotation, Deadline
  <2>4. QED
    BY <2>2, <2>3
<1>10. CASE Generate
  <2>1. /\ running /\ server = "generating" /\ server' = "sending"
        /\ pending'.not_after = mono + drift + Lifetime
        /\ UNCHANGED <<nextTick, checkedDrift, outcome>>
    BY <1>10 DEF Generate, wall
  <2>2. QED
    BY <1>0, <2>1 DEF Deadline, wall
<1>11. CASE Send
  BY <1>0, <1>11 DEF Send, Deadline
<1>12. CASE Restart
  <2>1. /\ server' = "created" /\ served'.not_after = mono + drift + Lifetime
        /\ checkedDrift' = drift /\ mono' = mono
    BY <1>12 DEF Restart, Boot, wall, clockVars
  <2>2. QED
    BY <1>0, <2>1 DEF Deadline
<1>13. QED
  BY StepCases, <1>1, <1>2, <1>3, <1>4, <1>5, <1>6, <1>7, <1>8, <1>9, <1>10, <1>11, <1>12

(***************************************************************************)
(* The safety properties                                                   *)
(***************************************************************************)
\* The initial states satisfy the inductive invariant.
LEMMA IndInit == Init => IndInv
<1> SUFFICES ASSUME Init PROVE IndInv
  OBVIOUS
<1>1. TypeOK
  BY TypeInit
<1>2. CertOrder
  BY DEF Init, CertOrder
<1>3. UpdateProgress /\ InitialReconcileSound
  BY ServerConstants DEF Init, UpdateProgress, InitialReconcileSound
<1>4. Deadline
  BY ServerConstants DEF Init, Deadline
<1>5. QED
  BY <1>1, <1>2, <1>3, <1>4 DEF IndInv

\* Every step keeps the inductive invariant.
LEMMA IndStep == IndInv /\ [Next]_vars => IndInv'
BY TypeStep, OrderStep, ProgressStep, DeadlineStep DEF IndInv

\* The inductive invariant holds in every reachable state.
LEMMA IndAlways == Spec => []IndInv
BY IndInit, IndStep, PTL DEF Spec

\* A served certificate is never forgotten on its way into the caBundle of the
\* maintained objects, whatever the update loop, the rotation and the restarts do.
THEOREM RotationsReachTheirTargets == Spec => []NoLostRotation
<1>1. IndInv => NoLostRotation
  BY DEF IndInv, CertOrder, UpdateProgress, NoLostRotation
<1>2. QED
  BY IndAlways, <1>1, PTL

\* The server never serves an expired certificate up to its next check unless the
\* wall clock jumped: rotation starts early enough for every lifetime, buffer and
\* interval with interval <= buffer < lifetime.
THEOREM CertificatesStayValid == Spec => []NeverExpired
<1>1. IndInv => NeverExpired
  <2> SUFFICES ASSUME IndInv, running, server = "serving", mono <= nextTick,
                      drift = checkedDrift
               PROVE  wall < served.not_after
    BY DEF NeverExpired
  <2>1. nextTick + checkedDrift < served.not_after
    BY DEF IndInv, Deadline
  <2>2. QED
    BY <2>1 DEF IndInv, TypeOK, Certs, wall
<1>2. QED
  BY IndAlways, <1>1, PTL

\* When the creator of a conversion webhook is told that the CRDs are reconciled,
\* this process has written all of them.
THEOREM InitialReconcileIsSound == Spec => []InitialReconcileSound
BY IndAlways, PTL DEF IndInv

\* No caBundle holds a certificate that is not served yet.
THEOREM BundlesAreServed == Spec => []BundleNeverAhead
<1>1. IndInv => BundleNeverAhead
  BY DEF IndInv, CertOrder, BundleNeverAhead
<1>2. QED
  BY IndAlways, <1>1, PTL

(***************************************************************************)
(* Telemetry: what a builder makes of its calls                            *)
(***************************************************************************)
\* A sequence of calls.
IsCalls(calls) ==
  /\ Len(calls) \in Nat /\ DOMAIN calls = 1..Len(calls)
  /\ \A i \in 1..Len(calls) : IsCall(calls[i])

\* Values that say whether something is enabled.
Switches(calls) ==
  {Disabled} \cup {IntoSettings(calls[i].value) : i \in 1..Len(calls)}

\* IntoSettings enables an output exactly if the value of the call turns it on.
LEMMA IntoSettingsEnabled ==
  ASSUME NEW call, IsCall(call)
  PROVE  IntoSettings(call.value).enabled <=> TurnsOn(call.value)
  BY DEF IsCall, IntoSettings, TurnsOn, SettingsOf, Enabled, Disabled

\* The recursive definition of AfterCalls has its meaning.
LEMMA AfterCallsStep ==
  ASSUME NEW calls, IsCalls(calls)
  PROVE  /\ AfterCalls(calls) \in [0..Len(calls) -> [Outputs -> Switches(calls)]]
         /\ AfterCalls(calls)[0] = NewTracingBuilder
         /\ \A n \in 1..Len(calls) :
              AfterCalls(calls)[n] = with_output(AfterCalls(calls)[n - 1], calls[n].output, calls[n].value)
<1> DEFINE N == Len(calls)
           V == [Outputs -> Switches(calls)]
           next == [n \in 1..N |-> [b \in V |-> with_output(b, calls[n].output, calls[n].value)]]
<1>1. NewTracingBuilder \in V
  BY DEF NewTracingBuilder, Switches
<1>2. ASSUME NEW n \in 1..N, NEW b \in V PROVE with_output(b, calls[n].output, calls[n].value) \in V
  BY DEF with_output, Switches
<1>3. next \in [1..N -> [V -> V]]
  BY <1>2
<1>4. N \in Nat
  BY DEF IsCalls
<1> HIDE DEF V
<1>5. PICK f \in [0..N -> V] :
        f[0] = NewTracingBuilder /\ \A n \in 1..N : f[n] = next[n][f[n - 1]]
  <2>1. next \in Steps(N, V)
    BY <1>3 DEF Steps
  <2> HIDE DEF next, N
  <2>2. \E f : Iterates(f, N, V, NewTracingBuilder, next)
    BY <1>1, <1>4, <2>1, IterationExists
  <2>3. QED
    BY <2>2 DEF Iterates
<1>6. ASSUME NEW n \in 0..N
      PROVE  f[n] = IF n = 0 THEN NewTracingBuilder
                    ELSE with_output(f[n - 1], calls[n].output, calls[n].value)
  <2>1. CASE n = 0
    BY <1>5, <2>1
  <2>2. CASE n # 0
    <3>1. n \in 1..N /\ f[n - 1] \in V
      BY <1>4, <2>2
    <3>2. QED
      BY <1>5, <2>2, <3>1
  <2>3. QED
    BY <2>1, <2>2
<1> DEFINE Body(g) == [n \in 0..Len(calls) |-> IF n = 0 THEN NewTracingBuilder
                                ELSE with_output(g[n - 1], calls[n].output, calls[n].value)]
<1>7. f = Body(f)
  BY <1>6
<1>8. AfterCalls(calls) = Body(AfterCalls(calls))
  BY <1>7 DEF AfterCalls
<1> HIDE DEF N
<1>9. ASSUME NEW g, g = Body(g), NEW n \in 0..N
      PROVE  g[n] = IF n = 0 THEN NewTracingBuilder
                    ELSE with_output(g[n - 1], calls[n].output, calls[n].value)
  BY <1>9 DEF N
<1>10. ASSUME NEW g, g = Body(g) PROVE g \in [0..N -> V]
  <2> DEFINE T == {n \in 0..N : g[n] \notin V}
  <2>1. ASSUME T # {} PROVE FALSE
    <3>1. PICK n \in T : \A m \in T : n <= m
      <4>1. T \subseteq Nat
        BY <1>4
      <4> HIDE DEF T
      <4>2. QED
        BY <2>1, <4>1, LeastNumber
    <3>2. n # 0
      BY <1>1, <1>9, <1>10
    <3>3. n - 1 \in 0..N /\ n \in 1..N /\ ~(n <= n - 1)
      BY <1>4, <3>2
    <3>4. g[n - 1] \in V
      BY <3>1, <3>3
    <3>5. g[n] \in V
      BY <1>2, <1>9, <1>10, <3>2, <3>3, <3>4
    <3>6. QED
      BY <3>5
  <2>2. \A n \in 0..N : g[n] \in V
    BY <2>1
  <2>3. QED
    BY <1>10, <2>2 DEF N
<1> HIDE DEF Body
<1>11. 0 \in 0..N /\ \A n \in 1..N : n \in 0..N /\ n # 0
  BY <1>4
<1>12. QED
  BY <1>8, <1>9, <1>10, <1>11 DEF N, V

\* An output is enabled exactly if the last call for it asks for it; by induction over
\* the calls.
LEMMA LastCallWins ==
  ASSUME NEW calls, IsCalls(calls)
  PROVE  \A n \in 0..Len(calls), o \in Outputs :
           AfterCalls(calls)[n][o].enabled <=> o \in WantedOutputs(calls, n)
<1> DEFINE after == AfterCalls(calls)
           P(n) == \A o \in Outputs : after[n][o].enabled <=> o \in WantedOutputs(calls, n)
           T == {n \in 0..Len(calls) : ~P(n)}
<1>1. ASSUME T # {} PROVE FALSE
  <2>1. PICK n \in T : \A m \in T : n <= m
    <3>1. T \subseteq Nat
      BY DEF IsCalls
    <3> HIDE DEF T
    <3>2. QED
      BY <1>1, <3>1, LeastNumber
  <2>2. CASE n = 0
    <3>1. \A o \in Outputs : after[0][o] = Disabled
      BY AfterCallsStep DEF NewTracingBuilder
    <3>2. WantedOutputs(calls, 0) = {}
      BY DEF WantedOutputs, LastCall
    <3>3. P(0)
      BY <3>1, <3>2 DEF Disabled
    <3>4. QED
      BY <2>2, <3>3
  <2>3. CASE n # 0
    <3>1. n - 1 \in 0..Len(calls) /\ n \in 1..Len(calls) /\ ~(n <= n - 1) /\ n \in Nat
      BY <2>3 DEF IsCalls
    <3>2. P(n - 1)
      BY <2>1, <3>1
    <3>3. after[n] = with_output(after[n - 1], calls[n].output, calls[n].value)
      BY <3>1, AfterCallsStep
    <3>4. after[n - 1] \in [Outputs -> Switches(calls)]
      BY <3>1, AfterCallsStep
    <3>5. IsCall(calls[n])
      BY <3>1 DEF IsCalls
    <3>6. ASSUME NEW o \in Outputs PROVE after[n][o].enabled <=> o \in WantedOutputs(calls, n)
      <4>1. CASE o = calls[n].output
        <5>1. after[n][o] = IntoSettings(calls[n].value)
          BY <3>3, <3>4, <4>1 DEF with_output
        <5>2. LastCall(calls, n, o) = {n}
          BY <3>1, <4>1 DEF LastCall
        <5>3. o \in WantedOutputs(calls, n) <=> TurnsOn(calls[n].value)
          BY <5>2 DEF WantedOutputs
        <5>4. QED
          BY <3>5, <5>1, <5>3, IntoSettingsEnabled
      <4>2. CASE o # calls[n].output
        <5>1. after[n][o] = after[n - 1][o]
          BY <3>3, <3>4, <4>2 DEF with_output
        <5>2. LastCall(calls, n, o) = LastCall(calls, n - 1, o)
          BY <3>1, <4>2 DEF LastCall
        <5>3. o \in WantedOutputs(calls, n) <=> o \in WantedOutputs(calls, n - 1)
          BY <5>2 DEF WantedOutputs
        <5>4. QED
          BY <3>2, <5>1, <5>3
      <4>3. QED
        BY <4>1, <4>2
    <3>7. QED
      BY <2>1, <3>6
  <2>4. QED
    BY <2>2, <2>3
<1>2. QED
  BY <1>1

\* What a builder enables is what its calls ask for.
LEMMA BuiltAsWanted ==
  ASSUME NEW calls \in BuilderCalls
  PROVE  \A o \in Outputs : BuiltSettings(calls)[o].enabled <=> o \in WantedOutputs(calls, Len(calls))
<1>1. IsCalls(calls)
  BY TelemetryConstants DEF IsCalls
<1>2. Len(calls) \in 0..Len(calls)
  BY <1>1 DEF IsCalls
<1>3. QED
  BY <1>1, <1>2, LastCallWins DEF BuiltSettings

\* What pre_configured enables is what the options ask for.
LEMMA PreConfiguredAsWanted ==
  ASSUME NEW opts \in TelemetryOptions
  PROVE  \A o \in Outputs : pre_configured(opts)[o].enabled <=> o \in OptionsWant(opts)
<1> DEFINE console == [output |-> "console", value |-> Maybe("CONSOLE_LOG_LEVEL", ~opts.console_log_disabled)]
           file == [output |-> "file", value |-> Maybe("FILE_LOG_LEVEL", opts.file_log_directory # None)]
           log == [output |-> "otlp_log",
                   value |-> Triple("OTEL_LOG_EXPORTER_LEVEL", opts.otel_log_exporter_enabled)]
           trace == [output |-> "otlp_trace",
                     value |-> Triple("OTEL_TRACE_EXPORTER_LEVEL", opts.otel_trace_exporter_enabled)]
           calls == <<console, file, log, trace>>
<1>1. /\ {opts.console_log_disabled, opts.otel_log_exporter_enabled,
          opts.otel_trace_exporter_enabled} \subseteq BOOLEAN
  BY TelemetryConstants
<1>2. IsCall(console) /\ IsCall(file)
  BY DEF IsCall, Maybe, Outputs
<1>3. IsCall(log) /\ IsCall(trace)
  BY <1>1 DEF IsCall, Triple, Outputs
<1>4. /\ console.output = "console" /\ file.output = "file"
      /\ log.output = "otlp_log" /\ trace.output = "otlp_trace"
  OBVIOUS
<1>5. /\ TurnsOn(log.value) <=> opts.otel_log_exporter_enabled
      /\ TurnsOn(trace.value) <=> opts.otel_trace_exporter_enabled
  BY <1>1 DEF TurnsOn, Triple
<1>6. /\ TurnsOn(console.value) <=> ~opts.console_log_disabled
      /\ TurnsOn(file.value) <=> opts.file_log_directory # None
  <2>1. \A v \in {"CONSOLE_LOG_LEVEL", "FILE_LOG_LEVEL"} : [variable |-> v, level |-> "INFO"] # None
    BY TelemetryConstants
  <2>2. QED
    BY <1>1, <2>1 DEF TurnsOn, Maybe
<1> HIDE DEF console, file, log, trace
<1>7. /\ Len(calls) = 4 /\ DOMAIN calls = 1..4
      /\ calls[1] = console /\ calls[2] = file /\ calls[3] = log /\ calls[4] = trace
  OBVIOUS
<1> HIDE DEF calls
<1>8. IsCalls(calls)
  BY <1>2, <1>3, <1>7 DEF IsCalls
<1>9. /\ LastCall(calls, 4, "console") = {1} /\ LastCall(calls, 4, "file") = {2}
      /\ LastCall(calls, 4, "otlp_log") = {3} /\ LastCall(calls, 4, "otlp_trace") = {4}
  BY <1>4, <1>7 DEF LastCall
<1>10. \A o \in Outputs : o \in WantedOutputs(calls, 4) <=> o \in OptionsWant(opts)
  BY <1>1, <1>5, <1>6, <1>7, <1>9 DEF WantedOutputs, OptionsWant, Outputs
<1>11. pre_configured(opts) = AfterCalls(calls)[4]
  BY <1>7 DEF pre_configured, BuiltSettings, calls, console, file, log, trace
<1>12. QED
  BY <1>7, <1>8, <1>10, <1>11, LastCallWins

(***************************************************************************)
(* The life of a Tracing                                                   *)
(***************************************************************************)
Stages == Outputs \cup {"none", "subscriber", "ready", "failed", "dropped"}

AllSettings ==
  {NewTracingBuilder} \cup {pre_configured(o) : o \in TelemetryOptions}
  \cup {BuiltSettings(calls) : calls \in BuilderCalls}

TracingStates ==
  [at: Stages, settings: AllSettings, wanted: SUBSET Outputs, layers: Seq(Outputs),
   logger_provider: {None, "running", "shut down"}, tracer_provider: {None, "running", "shut down"}]

\* The outputs that init has dealt with when it is at a stage.
Before(at) ==
  CASE at = "console" -> {}
    [] at = "file" -> {"console"}
    [] at = "otlp_log" -> {"console", "file"}
    [] at = "otlp_trace" -> {"console", "file", "otlp_log"}
    [] OTHER -> Outputs

\* On the way to a subscriber, and until it is dropped, a Tracing has the layers and the
\* exporters that were asked for, as far as init got; otherwise no exporter of it runs.
IsTracing(g) ==
  /\ g \in TracingStates
  /\ g.at # "none" => \A o \in Outputs : g.settings[o].enabled <=> o \in g.wanted
  /\ g.at \in Outputs \cup {"subscriber", "ready"} =>
       /\ ToSet(g.layers) = g.wanted \cap Before(g.at)
       /\ g.logger_provider = "running" <=> "otlp_log" \in g.wanted \cap Before(g.at)
       /\ g.tracer_provider = "running" <=> "otlp_trace" \in g.wanted \cap Before(g.at)
  /\ g.at \in {"none", "failed", "dropped"} =>
       g.logger_provider # "running" /\ g.tracer_provider # "running"

\* A Tracing with layers that is in use is the installed one.
LifecycleInv ==
  /\ DOMAIN tracing = Tracings /\ \A t \in Tracings : IsTracing(tracing[t])
  /\ subscriber \in Tracings \cup {None}
  /\ \A t \in Tracings : tracing[t].at = "ready" /\ tracing[t].layers # <<>> => subscriber = t

\* A new layer is one more.
LEMMA LayerAdded ==
  ASSUME NEW s \in Seq(Outputs), NEW o \in Outputs
  PROVE  Append(s, o) \in Seq(Outputs) /\ ToSet(Append(s, o)) = ToSet(s) \cup {o}
<1>1. Append(s, o) \in Seq(Outputs)
  OBVIOUS
<1>2. /\ DOMAIN Append(s, o) = DOMAIN s \cup {Len(s) + 1}
      /\ Append(s, o)[Len(s) + 1] = o /\ \A i \in DOMAIN s : Append(s, o)[i] = s[i]
  OBVIOUS
<1>3. QED
  BY <1>1, <1>2 DEF ToSet

\* A Tracing that is shut down.
LEMMA DroppedTracing ==
  ASSUME NEW g, IsTracing(g), g.at # "none", NEW at \in {"failed", "dropped"}
  PROVE  /\ IsTracing(Dropped(g, at)) /\ Dropped(g, at).at = at
         /\ Dropped(g, at).layers = g.layers /\ Dropped(g, at).settings = g.settings
<1> DEFINE d == Dropped(g, at)
<1>1. g \in TracingStates /\ at \in Stages
  BY DEF IsTracing, Stages
<1>2. Down(g.tracer_provider) \in {None, "shut down"} /\ Down(g.logger_provider) \in {None, "shut down"}
  BY DEF Down
<1>3. /\ d \in TracingStates /\ d.at = at /\ d.layers = g.layers /\ d.settings = g.settings
      /\ d.wanted = g.wanted
      /\ d.logger_provider \in {None, "shut down"} /\ d.tracer_provider \in {None, "shut down"}
  BY <1>1, <1>2 DEF Dropped, TracingStates
<1> HIDE DEF d
<1>4. d.logger_provider # "running" /\ d.tracer_provider # "running"
  BY <1>3, TelemetryConstants
<1>5. QED
  BY <1>3, <1>4 DEF IsTracing, Outputs, d

\* A stage of init that has nothing to push, or has pushed its layer.
LEMMA StagePassed ==
  ASSUME NEW g, IsTracing(g), g.at \in Outputs
  PROVE  LET next == IF g.settings[g.at].enabled THEN WithLayer(g) ELSE [g EXCEPT !.at = NextOutput[g.at]]
         IN  IsTracing(next) /\ next.at \in Outputs \cup {"subscriber"}
<1> DEFINE to == NextOutput[g.at]
<1>1. g \in TracingStates /\ g.settings \in AllSettings
  BY DEF IsTracing, TracingStates
<1>2. /\ to \in Outputs \cup {"subscriber"} /\ to \in Stages
      /\ Before(to) = Before(g.at) \cup {g.at} /\ g.at \notin Before(g.at)
  BY DEF NextOutput, Outputs, Before, Stages
<1>3. /\ \A o \in Outputs : g.settings[o].enabled <=> o \in g.wanted
      /\ ToSet(g.layers) = g.wanted \cap Before(g.at)
      /\ g.logger_provider = "running" <=> "otlp_log" \in g.wanted \cap Before(g.at)
      /\ g.tracer_provider = "running" <=> "otlp_trace" \in g.wanted \cap Before(g.at)
  BY DEF IsTracing, Outputs
<1> HIDE DEF to
<1>4. ASSUME NEW n \in TracingStates, n.at = to, n.settings = g.settings, n.wanted = g.wanted,
             ToSet(n.layers) = g.wanted \cap Before(to),
             n.logger_provider = "running" <=> "otlp_log" \in g.wanted \cap Before(to),
             n.tracer_provider = "running" <=> "otlp_trace" \in g.wanted \cap Before(to)
      PROVE  IsTracing(n) /\ n.at \in Outputs \cup {"subscriber"}
  <2>1. to # "none" /\ to \notin {"failed", "dropped"} /\ to \in Outputs \cup {"subscriber", "ready"}
    BY <1>2 DEF Outputs
  <2>2. QED
    BY <1>2, <1>3, <1>4, <2>1 DEF IsTracing
<1>5. CASE ~g.settings[g.at].enabled
  <2> DEFINE n == [g EXCEPT !.at = to]
  <2>1. /\ n \in TracingStates /\ n.at = to /\ n.settings = g.settings /\ n.wanted = g.wanted
        /\ n.layers = g.layers /\ n.logger_provider = g.logger_provider
        /\ n.tracer_provider = g.tracer_provider
    BY <1>1, <1>2 DEF TracingStates
  <2>2. g.wanted \cap Before(to) = g.wanted \cap Before(g.at)
    BY <1>2, <1>3, <1>5
  <2> HIDE DEF n
  <2>3. IsTracing(n) /\ n.at \in Outputs \cup {"subscriber"}
    BY <1>3, <1>4, <2>1, <2>2
  <2>4. QED
    BY <1>5, <2>3 DEF n, to
<1>6. CASE g.settings[g.at].enabled
  <2> DEFINE pushed == [g EXCEPT !.layers = Append(@, g.at), !.at = to]
             n == WithLayer(g)
  <2>1. g.layers \in Seq(Outputs) /\ g.at \in g.wanted
    BY <1>1, <1>3, <1>6 DEF TracingStates
  <2>2. /\ Append(g.layers, g.at) \in Seq(Outputs)
        /\ ToSet(Append(g.layers, g.at)) = g.wanted \cap Before(to)
    BY <1>2, <1>3, <2>1, LayerAdded
  <2>3. /\ pushed \in TracingStates /\ pushed.at = to /\ pushed.settings = g.settings
        /\ pushed.wanted = g.wanted /\ pushed.layers = Append(g.layers, g.at)
        /\ pushed.logger_provider = g.logger_provider /\ pushed.tracer_provider = g.tracer_provider
    BY <1>1, <1>2, <2>2 DEF TracingStates
  <2>4. n = CASE g.at = "otlp_log" -> [pushed EXCEPT !.logger_provider = "running"]
              [] g.at = "otlp_trace" -> [pushed EXCEPT !.tracer_provider = "running"]
              [] OTHER -> pushed
    BY DEF WithLayer, to
  <2> HIDE DEF pushed, n
  <2>5. /\ n \in TracingStates /\ n.at = to /\ n.settings = g.settings /\ n.wanted = g.wanted
        /\ n.layers = Append(g.layers, g.at)
        /\ n.logger_provider = IF g.at = "otlp_log" THEN "running" ELSE g.logger_provider
        /\ n.tracer_provider = IF g.at = "otlp_trace" THEN "running" ELSE g.tracer_provider
    <3>1. CASE g.at = "otlp_log"
      BY <2>3, <2>4, <3>1 DEF TracingStates
    <3>2. CASE g.at = "otlp_trace"
      BY <2>3, <2>4, <3>2 DEF TracingStates
    <3>3. CASE g.at \notin {"otlp_log", "otlp_trace"}
      BY <2>3, <2>4, <3>3
    <3>4. QED
      BY <3>1, <3>2, <3>3
  <2>6. /\ n.logger_provider = "running" <=> "otlp_log" \in g.wanted \cap Before(to)
        /\ n.tracer_provider = "running" <=> "otlp_trace" \in g.wanted \cap Before(to)
    BY <1>2, <1>3, <2>1, <2>5
  <2>7. IsTracing(n) /\ n.at \in Outputs \cup {"subscriber"}
    BY <1>4, <2>2, <2>5, <2>6
  <2>8. QED
    BY <1>6, <2>7 DEF n
<1>7. QED
  BY <1>5, <1>6

\* No Tracing yet.
LEMMA NoTracingYet ==
  /\ NoTracing \in TracingStates /\ NoTracing.at = "none" /\ NoTracing.layers = <<>>
  /\ NoTracing.logger_provider = None /\ NoTracing.tracer_provider = None
  /\ IsTracing(NoTracing)
<1>1. <<>> \in Seq(Outputs) /\ "none" \in Stages /\ NewTracingBuilder \in AllSettings
  BY DEF Stages, AllSettings
<1>2. /\ NoTracing.at = "none" /\ NoTracing.layers = <<>>
      /\ NoTracing.logger_provider = None /\ NoTracing.tracer_provider = None
  BY DEF NoTracing
<1>3. NoTracing \in TracingStates
  BY <1>1 DEF NoTracing, TracingStates
<1>4. QED
  BY <1>2, <1>3, TelemetryConstants DEF IsTracing, Outputs

\* A Tracing that was built.
LEMMA BuiltTracing ==
  ASSUME NEW settings \in AllSettings, NEW wanted \in SUBSET Outputs,
         \A o \in Outputs : settings[o].enabled <=> o \in wanted
  PROVE  LET new == [NoTracing EXCEPT !.at = "console", !.settings = settings, !.wanted = wanted]
         IN  IsTracing(new) /\ new.at = "console"
<1> DEFINE new == [NoTracing EXCEPT !.at = "console", !.settings = settings, !.wanted = wanted]
<1>1. /\ new.at = "console" /\ new.settings = settings /\ new.wanted = wanted /\ new.layers = <<>>
      /\ new.logger_provider = None /\ new.tracer_provider = None /\ new \in TracingStates
  <2>1. "console" \in Stages
    BY DEF Stages, Outputs
  <2>2. QED
    BY <2>1, NoTracingYet DEF TracingStates
<1> HIDE DEF new
<1>2. Before("console") = {} /\ "console" \in Outputs /\ ToSet(<<>>) = {}
  BY DEF Before, Outputs, ToSet
<1>3. QED
  BY <1>1, <1>2, TelemetryConstants DEF IsTracing, new

\* A step of one Tracing that installs nothing.
LEMMA TracingMoves ==
  ASSUME LifecycleInv, NEW t \in Tracings, NEW g, IsTracing(g), tracing' = [tracing EXCEPT ![t] = g],
         subscriber' = subscriber, g.at = "ready" => g.layers = <<>>
  PROVE  LifecycleInv'
  BY DEF LifecycleInv

\* Every step keeps the invariant about the life of Tracings.
LEMMA LifecycleStep ==
  ASSUME LifecycleInv, [TelemetryNext]_telemetryVars
  PROVE  LifecycleInv'
<1>1. ASSUME NEW t \in Tracings, PreConfigured(t) \/ UseBuilder(t) PROVE LifecycleInv'
  <2>1. PICK settings \in AllSettings, wanted \in SUBSET Outputs :
          /\ \A o \in Outputs : settings[o].enabled <=> o \in wanted
          /\ BuildTracing(t, settings, wanted)
    <3>1. CASE PreConfigured(t)
      <4>1. PICK o \in TelemetryOptions : BuildTracing(t, pre_configured(o), OptionsWant(o))
        BY <3>1 DEF PreConfigured
      <4>2. pre_configured(o) \in AllSettings /\ OptionsWant(o) \in SUBSET Outputs
        BY DEF AllSettings, OptionsWant, Outputs
      <4>3. QED
        BY <4>1, <4>2, PreConfiguredAsWanted
    <3>2. CASE UseBuilder(t)
      <4>1. PICK calls \in BuilderCalls : BuildTracing(t, BuiltSettings(calls), WantedOutputs(calls, Len(calls)))
        BY <3>2 DEF UseBuilder
      <4>2. BuiltSettings(calls) \in AllSettings /\ WantedOutputs(calls, Len(calls)) \in SUBSET Outputs
        BY DEF AllSettings, WantedOutputs
      <4>3. QED
        BY <4>1, <4>2, BuiltAsWanted
    <3>3. QED
      BY <1>1, <3>1, <3>2
  <2> DEFINE new == [NoTracing EXCEPT !.at = "console", !.settings = settings, !.wanted = wanted]
  <2>2. IsTracing(new) /\ new.at = "console"
    BY <2>1, BuiltTracing
  <2>3. tracing' = [tracing EXCEPT ![t] = new] /\ subscriber' = subscriber
    BY <2>1 DEF BuildTracing
  <2> HIDE DEF new
  <2>4. QED
    BY <2>2, <2>3, TracingMoves
<1>2. ASSUME NEW t \in Tracings, PushLayer(t) PROVE LifecycleInv'
  <2> DEFINE g == tracing[t]
             next == IF g.settings[g.at].enabled THEN WithLayer(g) ELSE [g EXCEPT !.at = NextOutput[g.at]]
  <2>1. IsTracing(g) /\ g.at \in Outputs
    BY <1>2 DEF LifecycleInv, PushLayer
  <2>2. IsTracing(next) /\ next.at \in Outputs \cup {"subscriber"}
    BY <2>1, StagePassed
  <2>3. tracing' = [tracing EXCEPT ![t] = next] /\ subscriber' = subscriber
    BY <1>2 DEF PushLayer
  <2> HIDE DEF next
  <2>4. next.at # "ready"
    BY <2>2 DEF Outputs
  <2>5. QED
    BY <2>2, <2>3, <2>4, TracingMoves
<1>3. ASSUME NEW t \in Tracings, NEW at \in {"failed", "dropped"}, tracing[t].at # "none",
             tracing' = [tracing EXCEPT ![t] = Dropped(tracing[t], at)], subscriber' = subscriber
      PROVE  LifecycleInv'
  <2>1. IsTracing(Dropped(tracing[t], at)) /\ Dropped(tracing[t], at).at = at
    BY <1>3, DroppedTracing DEF LifecycleInv
  <2>2. QED
    BY <1>3, <2>1, TracingMoves
<1>4. ASSUME NEW t \in Tracings, LayerFails(t) \/ DropTracing(t) PROVE LifecycleInv'
  BY <1>3, <1>4 DEF LayerFails, DropTracing, Outputs
<1>5. ASSUME NEW t \in Tracings, SetSubscriber(t) PROVE LifecycleInv'
  <2> DEFINE g == tracing[t]
             ready == [g EXCEPT !.at = "ready"]
  <2>1. IsTracing(g) /\ g.at = "subscriber"
    BY <1>5 DEF SetSubscriber, LifecycleInv
  <2>2. IsTracing(ready) /\ ready.at = "ready" /\ ready.layers = g.layers
    <3>1. /\ ready \in TracingStates /\ ready.at = "ready" /\ ready.layers = g.layers
          /\ ready.settings = g.settings /\ ready.wanted = g.wanted
          /\ ready.logger_provider = g.logger_provider /\ ready.tracer_provider = g.tracer_provider
      BY <2>1 DEF IsTracing, TracingStates, Stages
    <3>2. Before("ready") = Before("subscriber")
      BY DEF Before
    <3> HIDE DEF ready
    <3>3. QED
      BY <2>1, <3>1, <3>2 DEF IsTracing
  <2>3. CASE tracing' = [tracing EXCEPT ![t].at = "ready"] /\ g.layers = <<>> /\ subscriber' = subscriber
    <3>1. tracing' = [tracing EXCEPT ![t] = ready]
      BY <2>3
    <3> HIDE DEF ready
    <3>2. QED
      BY <2>2, <2>3, <3>1, TracingMoves
  <2>4. CASE tracing' = [tracing EXCEPT ![t].at = "ready"] /\ subscriber = None /\ subscriber' = t
    <3>1. tracing' = [tracing EXCEPT ![t] = ready]
      BY <2>4
    <3>2. \A u \in Tracings : tracing[u].at = "ready" => tracing[u].layers = <<>>
      BY <2>4, TelemetryConstants DEF LifecycleInv
    <3> HIDE DEF ready
    <3>3. QED
      BY <2>2, <2>4, <3>1, <3>2 DEF LifecycleInv
  <2>5. CASE tracing' = [tracing EXCEPT ![t] = Dropped(g, "failed")] /\ subscriber' = subscriber
    BY <1>3, <2>1, <2>5
  <2>6. QED
    BY <1>5, <2>3, <2>4, <2>5 DEF SetSubscriber
<1>6. ASSUME NEW w \in Workers, NEW r \in Requests,
             CallService(w, r) \/ PollPending(w, r) \/ PollReady(w, r)
      PROVE  LifecycleInv'
  BY <1>6 DEF CallService, PollPending, PollReady, lifecycleVars, LifecycleInv
<1>7. CASE UNCHANGED telemetryVars
  BY <1>7 DEF telemetryVars, lifecycleVars, LifecycleInv
<1>8. QED
  BY <1>1, <1>2, <1>4, <1>5, <1>6, <1>7 DEF TelemetryNext

(***************************************************************************)
(* Requests                                                                *)
(***************************************************************************)
\* Telemetry is set up: init of every Tracing is over, and one is installed.
SetUp == subscriber \in Tracings /\ \A t \in Tracings : tracing[t].at \in {"ready", "failed", "dropped"}

\* The context a request belongs to.
Own(r, header) ==
  IF propagator /\ header \notin {None, "invalid"} THEN Ctx(header, "client") ELSE ConnectionContext(r)

\* The trace that a response may carry.
Carries(r, q) ==
  q.response # None => q.response = IF SpansExported THEN Ctx(Own(r, q.header).trace, r) ELSE ConnectionContext(r)

\* A request that is being handled, with a span of its own.
IsRequest(r, q) ==
  /\ q.at \in {"pending", "done"}
  /\ q = [at |-> q.at, header |-> q.header, span |-> q.span, response |-> q.response]
  /\ q.span = [context |-> q.span.context, parent |-> q.span.parent, links |-> q.span.links,
               current_links |-> q.span.current_links, server |-> q.span.server, status |-> q.span.status]
  /\ q.span.context = Ctx(Own(r, q.header).trace, r) /\ q.span.parent = Own(r, q.header).span
  /\ q.span.links \subseteq {ConnectionContext(r)}
  /\ Carries(r, q)

\* No span is left entered on a worker, and there are requests only once telemetry is
\* set up: what their spans were made of does not change any more.
RequestInv ==
  /\ DOMAIN request = Requests /\ entered = [w \in Workers |-> <<>>]
  /\ \A r \in Requests : request[r].at = "none" \/ IsRequest(r, request[r])
  /\ (\E r \in Requests : request[r].at # "none") => SetUp

\* Once telemetry is set up, nothing that spans are made of changes.
LEMMA SetUpIsStable ==
  ASSUME LifecycleInv, SetUp, NEW t \in Tracings,
         \/ PreConfigured(t) \/ UseBuilder(t) \/ PushLayer(t) \/ LayerFails(t)
         \/ SetSubscriber(t) \/ DropTracing(t)
  PROVE  /\ SetUp' /\ UNCHANGED <<request, entered, propagator, subscriber>>
         /\ SpansExported' <=> SpansExported
<1>1. tracing[t].at \in {"ready", "failed", "dropped"}
  BY DEF SetUp
<1>2. DropTracing(t)
  BY <1>1 DEF PreConfigured, UseBuilder, BuildTracing, PushLayer, LayerFails, SetSubscriber, Outputs
<1>3. /\ tracing' = [tracing EXCEPT ![t] = Dropped(tracing[t], "dropped")]
      /\ UNCHANGED <<request, entered, propagator, subscriber>>
  BY <1>2 DEF DropTracing, requestVars
<1>4. /\ Dropped(tracing[t], "dropped").at = "dropped"
      /\ Dropped(tracing[t], "dropped").layers = tracing[t].layers
      /\ Dropped(tracing[t], "dropped").settings = tracing[t].settings
  BY <1>1, DroppedTracing DEF LifecycleInv
<1>5. SetUp'
  BY <1>3, <1>4 DEF SetUp, LifecycleInv
<1>6. /\ tracing'[subscriber].layers = tracing[subscriber].layers
      /\ tracing'[subscriber].settings = tracing[subscriber].settings
  BY <1>3, <1>4 DEF SetUp, LifecycleInv
<1>7. SpansExported' <=> SpansExported
  BY <1>3, <1>6 DEF SpansExported
<1>8. QED
  BY <1>3, <1>5, <1>7

\* The span of a new request.
LEMMA SpanFromRequest ==
  ASSUME NEW r, NEW header, NEW host
  PROVE  LET q == [at |-> "pending", header |-> header,
                   span |-> from_request(r, header, host, ConnectionContext(r)), response |-> None]
         IN  IsRequest(r, q)
<1> DEFINE span == from_request(r, header, host, ConnectionContext(r))
           q == [at |-> "pending", header |-> header, span |-> span, response |-> None]
<1>1. extract_context(header, ConnectionContext(r)) = Own(r, header)
  BY DEF extract_context, Own
<1>2. /\ span = [context |-> span.context, parent |-> span.parent, links |-> span.links,
                 current_links |-> span.current_links, server |-> span.server, status |-> span.status]
      /\ span.context = Ctx(Own(r, header).trace, r) /\ span.parent = Own(r, header).span
      /\ span.links \subseteq {ConnectionContext(r)}
  BY <1>1 DEF from_request
<1> HIDE DEF span
<1>3. IsRequest(r, q)
  BY <1>2 DEF IsRequest, Carries
<1>4. QED
  BY <1>3 DEF span

\* A request that is answered.
LEMMA RequestFinalized ==
  ASSUME RequestInv, NEW w \in Workers, NEW r \in Requests, IsRequest(r, request[r]), NEW result
  PROVE  IsRequest(r, Finalized(w, r, result))
<1> DEFINE q == request[r]
           f == Finalized(w, r, result)
           status == IF result \in {"server error", "error"} THEN "Error" ELSE None
           response == IF result = "error" \/ ~propagator THEN None
                       ELSE IF SpansExported THEN q.span.context ELSE CurrentContext(w, r)
<1>1. CurrentContext(w, r) = ConnectionContext(r)
  BY DEF RequestInv, CurrentContext
<1>2. response # None => response = IF SpansExported THEN Ctx(Own(r, q.header).trace, r)
                                    ELSE ConnectionContext(r)
  BY <1>1 DEF IsRequest
<1>3. f = [q EXCEPT !.at = "done", !.span = [q.span EXCEPT !.status = status], !.response = response]
  BY DEF Finalized, IsRequest
<1> HIDE DEF response, status, f
<1>4. [q.span EXCEPT !.status = status]
      = [context |-> q.span.context, parent |-> q.span.parent, links |-> q.span.links,
         current_links |-> q.span.current_links, server |-> q.span.server, status |-> status]
  BY DEF IsRequest
<1>5. f = [at |-> "done", header |-> q.header, span |-> [q.span EXCEPT !.status = status],
           response |-> response]
  BY <1>3 DEF IsRequest
<1>6. /\ f.at = "done" /\ f.header = q.header /\ f.response = response
      /\ f.span = [context |-> q.span.context, parent |-> q.span.parent, links |-> q.span.links,
                   current_links |-> q.span.current_links, server |-> q.span.server, status |-> status]
  BY <1>4, <1>5
<1>7. /\ f = [at |-> f.at, header |-> f.header, span |-> f.span, response |-> f.response]
      /\ f.span = [context |-> f.span.context, parent |-> f.span.parent, links |-> f.span.links,
                   current_links |-> f.span.current_links, server |-> f.span.server,
                   status |-> f.span.status]
      /\ f.span.context = q.span.context /\ f.span.parent = q.span.parent
      /\ f.span.links = q.span.links
  BY <1>4, <1>5, <1>6
<1>8. IsRequest(r, f)
  BY <1>2, <1>6, <1>7 DEF IsRequest, Carries
<1>9. QED
  BY <1>8 DEF f

\* A request stays what it is while nothing that its span was made of changes.
LEMMA RequestStays ==
  ASSUME NEW r, NEW q, IsRequest(r, q), propagator' = propagator, SpansExported' <=> SpansExported
  PROVE  IsRequest(r, q)'
<1>1. Own(r, q.header)' = Own(r, q.header)
  BY DEF Own, Ctx, ConnectionContext
<1>2. Carries(r, q)'
  BY <1>1 DEF IsRequest, Carries, Ctx, ConnectionContext
<1>3. QED
  BY <1>1, <1>2 DEF IsRequest, Ctx, ConnectionContext

\* Every step keeps the invariant about requests.
LEMMA RequestStep ==
  ASSUME LifecycleInv, RequestInv, [TelemetryNext]_telemetryVars
  PROVE  RequestInv'
<1>1. ASSUME NEW t \in Tracings,
             \/ PreConfigured(t) \/ UseBuilder(t) \/ PushLayer(t) \/ LayerFails(t)
             \/ SetSubscriber(t) \/ DropTracing(t)
      PROVE  RequestInv'
  <2>1. UNCHANGED <<request, entered>>
    BY <1>1 DEF PreConfigured, UseBuilder, BuildTracing, PushLayer, LayerFails, SetSubscriber,
                DropTracing, requestVars
  <2>2. CASE \A r \in Requests : request[r].at = "none"
    BY <2>1, <2>2 DEF RequestInv
  <2>3. CASE \E r \in Requests : request[r].at # "none"
    <3>1. SetUp
      BY <2>3 DEF RequestInv
    <3>2. SetUp' /\ propagator' = propagator /\ (SpansExported' <=> SpansExported)
      BY <1>1, <3>1, SetUpIsStable
    <3>3. \A r \in Requests : IsRequest(r, request[r]) => IsRequest(r, request[r])'
      <4>1. ASSUME NEW r \in Requests, NEW q, q = request[r], IsRequest(r, q) PROVE IsRequest(r, q)'
        BY <3>2, <4>1, RequestStays
      <4>2. QED
        BY <2>1, <4>1 DEF IsRequest, Carries, Own, SpansExported
    <3>4. QED
      BY <2>1, <3>2, <3>3 DEF RequestInv
  <2>4. QED
    BY <2>2, <2>3
<1>2. ASSUME NEW w \in Workers, NEW r \in Requests, subscriber # None,
             \A t \in Tracings : tracing[t].at \in {"ready", "failed"},
             CallService(w, r) \/ PollPending(w, r) \/ PollReady(w, r)
      PROVE  RequestInv'
  <2>1. /\ UNCHANGED <<tracing, subscriber, propagator, entered>> /\ (SpansExported' <=> SpansExported)
        /\ SetUp /\ SetUp'
    <3>1. UNCHANGED <<tracing, subscriber, propagator, entered>>
      BY <1>2 DEF CallService, PollPending, PollReady, LeaveSpan, lifecycleVars
    <3>2. SetUp
      BY <1>2 DEF SetUp, LifecycleInv
    <3>3. QED
      BY <3>1, <3>2 DEF SpansExported, SetUp
  <2>2. ASSUME NEW q, IsRequest(r, q), request' = [request EXCEPT ![r] = q]
        PROVE  RequestInv'
    <3>1. ASSUME NEW s \in Requests PROVE (request[s].at = "none" \/ IsRequest(s, request[s]))'
      <4>1. CASE s = r
        <5>1. IsRequest(r, q)' 
          BY <2>1, <2>2, RequestStays
        <5>2. request'[r] = q
          BY <2>2 DEF RequestInv
        <5>3. QED
          BY <2>1, <4>1, <5>1, <5>2 DEF IsRequest, Carries, Own, SpansExported
      <4>2. CASE s # r
        <5>1. request'[s] = request[s]
          BY <2>2, <4>2 DEF RequestInv
        <5>2. QED
          BY <2>1, <5>1 DEF RequestInv, IsRequest, Carries, Own, SpansExported
      <4>3. QED
        BY <4>1, <4>2
    <3>2. QED
      BY <2>1, <2>2, <3>1 DEF RequestInv
  <2>3. CASE CallService(w, r)
    <3>1. PICK header \in TraceHeaders, host \in RequestHosts :
            request' = [request EXCEPT ![r] =
              [at |-> "pending", header |-> header,
               span |-> from_request(r, header, host, CurrentContext(w, r)), response |-> None]]
      BY <2>3 DEF CallService
    <3>2. CurrentContext(w, r) = ConnectionContext(r)
      BY DEF RequestInv, CurrentContext
    <3> DEFINE q == [at |-> "pending", header |-> header,
                     span |-> from_request(r, header, host, ConnectionContext(r)), response |-> None]
    <3>3. IsRequest(r, q)
      BY SpanFromRequest
    <3>4. request' = [request EXCEPT ![r] = q]
      BY <3>1, <3>2
    <3> HIDE DEF q
    <3>5. QED
      BY <2>2, <3>3, <3>4
  <2>4. CASE PollPending(w, r)
    <3>1. request' = request
      BY <2>4 DEF PollPending
    <3>2. QED
      BY <2>1, <3>1 DEF RequestInv, IsRequest, Carries, Own, SpansExported
  <2>5. CASE PollReady(w, r)
    <3>1. PICK result \in {"ok", "server error", "error"} :
            request' = [request EXCEPT ![r] = Finalized(w, r, result)]
      BY <2>5 DEF PollReady
    <3>2. IsRequest(r, request[r])
      BY <2>5 DEF PollReady, RequestInv
    <3>3. IsRequest(r, Finalized(w, r, result))
      BY <3>2, RequestFinalized
    <3>4. QED
      BY <2>2, <3>1, <3>3
  <2>6. QED
    BY <1>2, <2>3, <2>4, <2>5
<1>3. CASE UNCHANGED telemetryVars
  BY <1>3 DEF telemetryVars, lifecycleVars, requestVars, RequestInv, IsRequest, Carries, Own,
              SpansExported, SetUp
<1>4. QED
  BY <1>1, <1>2, <1>3 DEF TelemetryNext

\* The initial states satisfy the inductive invariant.
LEMMA TelemetryInvInit == TelemetryInit => LifecycleInv /\ RequestInv
<1> SUFFICES ASSUME TelemetryInit PROVE LifecycleInv /\ RequestInv
  OBVIOUS
<1>1. LifecycleInv
  BY NoTracingYet DEF TelemetryInit, LifecycleInv
<1>2. RequestInv
  BY DEF TelemetryInit, RequestInv, NoRequest
<1>3. QED
  BY <1>1, <1>2

\* The inductive invariant implies what is promised.
LEMMA TelemetryInvSuffices == LifecycleInv /\ RequestInv => TelemetryIsOwn
<1> SUFFICES ASSUME LifecycleInv, RequestInv PROVE TelemetryIsOwn
  OBVIOUS
<1>1. ASSUME NEW t \in Tracings
      PROVE  /\ IsTracing(tracing[t])
             /\ tracing[t].at \in {"subscriber", "ready"} =>
                  /\ ToSet(tracing[t].layers) = tracing[t].wanted
                  /\ tracing[t].logger_provider = "running" <=> "otlp_log" \in tracing[t].wanted
                  /\ tracing[t].tracer_provider = "running" <=> "otlp_trace" \in tracing[t].wanted
  <2>1. IsTracing(tracing[t]) /\ tracing[t].wanted \subseteq Outputs
    BY DEF LifecycleInv, IsTracing, TracingStates
  <2>2. tracing[t].at \in {"subscriber", "ready"} => Before(tracing[t].at) = Outputs
    BY DEF Before
  <2>3. QED
    BY <2>1, <2>2 DEF IsTracing
<1>2. OutputsAsConfigured
  BY <1>1 DEF OutputsAsConfigured
<1>3. ASSUME NEW t \in Tracings,
             tracing[t].logger_provider = "running" \/ tracing[t].tracer_provider = "running"
      PROVE  tracing[t].at \in Outputs \cup {"subscriber", "ready"}
  <2>1. tracing[t].at \in Stages /\ tracing[t].at \notin {"none", "failed", "dropped"}
    BY <1>1, <1>3 DEF IsTracing, TracingStates
  <2>2. QED
    BY <2>1 DEF Stages
<1>4. ExportersBelongToTracing
  BY <1>1, <1>3 DEF ExportersBelongToTracing, LifecycleInv
<1>5. ASSUME NEW r \in Requests, request[r].at = "done"
      PROVE  /\ request[r].span.parent = Own(r, request[r].header).span
             /\ Carries(r, request[r]) /\ request[r].span.links \subseteq {ConnectionContext(r)}
  BY <1>5 DEF RequestInv, IsRequest
<1>6. ResponsesCarryOwnTrace
  BY <1>5 DEF ResponsesCarryOwnTrace, Own, Carries
<1>7. QED
  BY <1>2, <1>4, <1>6 DEF TelemetryIsOwn

\* Exporters run exactly as long as their Tracing is in use, its layers are those that
\* the last call of the builder for each output asked for, and every response carries
\* the trace of its own request (tracing/mod.rs, instrumentation/axum/mod.rs), for any
\* number of Tracings and requests, however init fails and polls interleave.
THEOREM TelemetryGoesWhereConfigured == TelemetrySpec => []TelemetryIsOwn
<1>1. LifecycleInv /\ RequestInv /\ [TelemetryNext]_telemetryVars => LifecycleInv' /\ RequestInv'
  BY LifecycleStep, RequestStep
<1>2. QED
  BY <1>1, TelemetryInvInit, TelemetryInvSuffices, PTL DEF TelemetrySpec

(***************************************************************************)
(* Texts, as the lengths of their characters                               *)
(***************************************************************************)
Texts == Seq(1..4)

\* What BytesUpTo counts with.
ByteCounts == Nat

\* The recursive definition of BytesUpTo has its meaning.
LEMMA BytesStep ==
  ASSUME NEW text \in Texts
  PROVE  /\ BytesUpTo(text) \in [0..Len(text) -> ByteCounts]
         /\ BytesUpTo(text)[0] = 0
         /\ \A n \in 1..Len(text) : BytesUpTo(text)[n] = BytesUpTo(text)[n - 1] + text[n]
<1> DEFINE N == Len(text)
           Step(n, kept) == kept + text[n]
           next == [n \in 1..N |-> [kept \in ByteCounts |-> Step(n, kept)]]
           Body(g) == [n \in 0..Len(text) |-> IF n = 0 THEN 0 ELSE Step(n, g[n - 1])]
<1>1. N \in Nat /\ 0 \in ByteCounts
  BY DEF Texts, ByteCounts
<1>2. next \in Steps(N, ByteCounts)
  <2>1. \A n \in 1..N : text[n] \in 1..4
    BY DEF Texts
  <2>2. ASSUME NEW n \in 1..N, NEW kept \in ByteCounts PROVE Step(n, kept) \in ByteCounts
    BY <2>1 DEF ByteCounts
  <2> HIDE DEF Step, ByteCounts
  <2>3. QED
    BY <2>2 DEF Steps
<1> HIDE DEF Step, ByteCounts
<1>3. PICK f : Iterates(f, N, ByteCounts, 0, next)
  <2> HIDE DEF N, next
  <2>1. QED
    BY <1>1, <1>2, IterationExists
<1>4. f = Body(f)
  <2>1. ASSUME NEW n \in 0..N
        PROVE  f[n] = IF n = 0 THEN 0 ELSE Step(n, f[n - 1])
    <3>1. CASE n = 0
      BY <1>3, <3>1 DEF Iterates
    <3>2. CASE n # 0
      <4>1. n \in 1..N /\ n - 1 \in 0..N
        BY <1>1, <3>2
      <4>2. f[n - 1] \in ByteCounts /\ f[n] = next[n][f[n - 1]]
        BY <1>3, <4>1 DEF Iterates
      <4>3. QED
        BY <3>2, <4>1, <4>2
    <3>3. QED
      BY <3>1, <3>2
  <2>2. f = [n \in 0..N |-> f[n]]
    BY <1>3 DEF Iterates
  <2>3. QED
    BY <2>1, <2>2
<1> DEFINE done == BytesUpTo(text)
<1>5. done = Body(done)
  <2>1. done = CHOOSE g : g = Body(g)
    BY DEF BytesUpTo, Step
  <2> HIDE DEF done, Body
  <2>2. QED
    BY <1>4, <2>1
<1> HIDE DEF done
<1>6. ASSUME NEW g, g = Body(g)
      PROVE  /\ g = [n \in 0..N |-> g[n]] /\ g[0] = 0
             /\ \A n \in 1..N : g[n] = Step(n, g[n - 1])
  <2>1. \A n \in 0..N : g[n] = IF n = 0 THEN 0 ELSE Step(n, g[n - 1])
    BY <1>6
  <2>2. g = [n \in 0..N |-> g[n]]
    BY <1>6
  <2>3. 0 \in 0..N /\ \A n \in 1..N : n \in 0..N /\ n # 0
    BY <1>1
  <2> HIDE DEF N, Body
  <2>4. QED
    BY <2>1, <2>2, <2>3
<1>7. /\ done = [n \in 0..N |-> done[n]] /\ done[0] = 0
      /\ \A n \in 1..N : done[n] = Step(n, done[n - 1])
  <2> HIDE DEF Body, N
  <2>1. QED
    BY <1>5, <1>6
<1>8. Follows(done, N, ByteCounts, 0, next)
  BY <1>7 DEF Follows
<1>9. done \in [0..N -> ByteCounts]
  <2> HIDE DEF next, N
  <2>1. Iterates(done, N, ByteCounts, 0, next)
    BY <1>1, <1>2, <1>8, IterationFollows
  <2>2. QED
    BY <2>1 DEF Iterates
<1>10. QED
  BY <1>7, <1>9 DEF done, Step

\* The recursive definition of ChainUpTo has its meaning: the text is a text.
LEMMA JoinedStep ==
  ASSUME NEW errors \in Seq(Texts), errors # <<>>
  PROVE  /\ ChainUpTo(errors) \in [0..(Len(errors) - 1) -> Texts]
         /\ ChainUpTo(errors)[0] = errors[1]
         /\ \A n \in 1..(Len(errors) - 1) : ChainUpTo(errors)[n] = ChainUpTo(errors)[n - 1] \o <<1, 1>> \o errors[n + 1]
<1> DEFINE N == (Len(errors) - 1)
           Step(n, kept) == kept \o <<1, 1>> \o errors[n + 1]
           next == [n \in 1..N |-> [kept \in Texts |-> Step(n, kept)]]
           Body(g) == [n \in 0..(Len(errors) - 1) |-> IF n = 0 THEN errors[1] ELSE Step(n, g[n - 1])]
<1>1. N \in Nat /\ errors[1] \in Texts
  <2>1. Len(errors) \in Nat /\ Len(errors) # 0
    BY EmptySeq
  <2>2. QED
    BY <2>1
<1>2. next \in Steps(N, Texts)
  <2>1. \A n \in 1..N : errors[n + 1] \in Texts
    OBVIOUS
  <2>2. <<1, 1>> \in Texts
    BY DEF Texts
  <2>3. ASSUME NEW n \in 1..N, NEW kept \in Texts PROVE Step(n, kept) \in Texts
    <3>1. kept \o <<1, 1>> \in Texts
      BY <2>2, ConcatProperties DEF Texts
    <3>2. QED
      BY <2>1, <3>1, ConcatProperties DEF Texts
  <2> HIDE DEF Step, Texts
  <2>4. QED
    BY <2>3 DEF Steps
<1> HIDE DEF Step, Texts
<1>3. PICK f : Iterates(f, N, Texts, errors[1], next)
  <2> HIDE DEF N, next
  <2>1. QED
    BY <1>1, <1>2, IterationExists
<1>4. f = Body(f)
  <2>1. ASSUME NEW n \in 0..N
        PROVE  f[n] = IF n = 0 THEN errors[1] ELSE Step(n, f[n - 1])
    <3>1. CASE n = 0
      BY <1>3, <3>1 DEF Iterates
    <3>2. CASE n # 0
      <4>1. n \in 1..N /\ n - 1 \in 0..N
        BY <1>1, <3>2
      <4>2. f[n - 1] \in Texts /\ f[n] = next[n][f[n - 1]]
        BY <1>3, <4>1 DEF Iterates
      <4>3. QED
        BY <3>2, <4>1, <4>2
    <3>3. QED
      BY <3>1, <3>2
  <2>2. f = [n \in 0..N |-> f[n]]
    BY <1>3 DEF Iterates
  <2>3. QED
    BY <2>1, <2>2
<1> DEFINE done == ChainUpTo(errors)
<1>5. done = Body(done)
  <2>1. done = CHOOSE g : g = Body(g)
    BY DEF ChainUpTo, Step
  <2> HIDE DEF done, Body
  <2>2. QED
    BY <1>4, <2>1
<1> HIDE DEF done
<1>6. ASSUME NEW g, g = Body(g)
      PROVE  /\ g = [n \in 0..N |-> g[n]] /\ g[0] = errors[1]
             /\ \A n \in 1..N : g[n] = Step(n, g[n - 1])
  <2>1. \A n \in 0..N : g[n] = IF n = 0 THEN errors[1] ELSE Step(n, g[n - 1])
    BY <1>6
  <2>2. g = [n \in 0..N |-> g[n]]
    BY <1>6
  <2>3. 0 \in 0..N /\ \A n \in 1..N : n \in 0..N /\ n # 0
    BY <1>1
  <2> HIDE DEF N, Body
  <2>4. QED
    BY <2>1, <2>2, <2>3
<1>7. /\ done = [n \in 0..N |-> done[n]] /\ done[0] = errors[1]
      /\ \A n \in 1..N : done[n] = Step(n, done[n - 1])
  <2> HIDE DEF Body, N
  <2>1. QED
    BY <1>5, <1>6
<1>8. Follows(done, N, Texts, errors[1], next)
  BY <1>7 DEF Follows
<1>9. done \in [0..N -> Texts]
  <2> HIDE DEF next, N
  <2>1. Iterates(done, N, Texts, errors[1], next)
    BY <1>1, <1>2, <1>8, IterationFollows
  <2>2. QED
    BY <2>1 DEF Iterates
<1>10. QED
  BY <1>7, <1>9 DEF done, Step

\* Kept closed in the lemmas that do not look into a sequence.
SeqsOf(V) == Seq(V)

\* The recursive definition of Filtered has its meaning.
LEMMA FilteredStep ==
  ASSUME NEW V, NEW s \in SeqsOf(V), NEW places
  PROVE  /\ Filtered(s, places) \in [0..Len(s) -> SeqsOf(V)]
         /\ Filtered(s, places)[0] = <<>>
         /\ \A n \in 1..Len(s) : Filtered(s, places)[n] = IF n \in places THEN Append(Filtered(s, places)[n - 1], s[n]) ELSE Filtered(s, places)[n - 1]
<1> DEFINE N == Len(s)
           Step(n, kept) == IF n \in places THEN Append(kept, s[n]) ELSE kept
           next == [n \in 1..N |-> [kept \in SeqsOf(V) |-> Step(n, kept)]]
           Body(g) == [n \in 0..Len(s) |-> IF n = 0 THEN <<>> ELSE Step(n, g[n - 1])]
<1>1. N \in Nat /\ << >> \in SeqsOf(V)
  BY DEF SeqsOf
<1>2. next \in Steps(N, SeqsOf(V))
  <2>1. ASSUME NEW n \in 1..N, NEW kept \in SeqsOf(V) PROVE Step(n, kept) \in SeqsOf(V)
    <3>1. s[n] \in V
      BY DEF SeqsOf
    <3>2. Append(kept, s[n]) \in SeqsOf(V)
      BY <3>1, AppendProperties DEF SeqsOf
    <3>3. QED
      BY <3>2
  <2> HIDE DEF Step, SeqsOf
  <2>2. QED
    BY <2>1 DEF Steps
<1> HIDE DEF Step, SeqsOf
<1>3. PICK f : Iterates(f, N, SeqsOf(V), <<>>, next)
  <2> HIDE DEF N, next
  <2>1. QED
    BY <1>1, <1>2, IterationExists
<1>4. f = Body(f)
  <2>1. ASSUME NEW n \in 0..N
        PROVE  f[n] = IF n = 0 THEN <<>> ELSE Step(n, f[n - 1])
    <3>1. CASE n = 0
      BY <1>3, <3>1 DEF Iterates
    <3>2. CASE n # 0
      <4>1. n \in 1..N /\ n - 1 \in 0..N
        BY <1>1, <3>2
      <4>2. f[n - 1] \in SeqsOf(V) /\ f[n] = next[n][f[n - 1]]
        BY <1>3, <4>1 DEF Iterates
      <4>3. QED
        BY <3>2, <4>1, <4>2
    <3>3. QED
      BY <3>1, <3>2
  <2>2. f = [n \in 0..N |-> f[n]]
    BY <1>3 DEF Iterates
  <2>3. QED
    BY <2>1, <2>2
<1> DEFINE done == Filtered(s, places)
<1>5. done = Body(done)
  <2>1. done = CHOOSE g : g = Body(g)
    BY DEF Filtered, Step
  <2> HIDE DEF done, Body
  <2>2. QED
    BY <1>4, <2>1
<1> HIDE DEF done
<1>6. ASSUME NEW g, g = Body(g)
      PROVE  /\ g = [n \in 0..N |-> g[n]] /\ g[0] = <<>>
             /\ \A n \in 1..N : g[n] = Step(n, g[n - 1])
  <2>1. \A n \in 0..N : g[n] = IF n = 0 THEN <<>> ELSE Step(n, g[n - 1])
    BY <1>6
  <2>2. g = [n \in 0..N |-> g[n]]
    BY <1>6
  <2>3. 0 \in 0..N /\ \A n \in 1..N : n \in 0..N /\ n # 0
    BY <1>1
  <2> HIDE DEF N, Body
  <2>4. QED
    BY <2>1, <2>2, <2>3
<1>7. /\ done = [n \in 0..N |-> done[n]] /\ done[0] = <<>>
      /\ \A n \in 1..N : done[n] = Step(n, done[n - 1])
  <2> HIDE DEF Body, N
  <2>1. QED
    BY <1>5, <1>6
<1>8. Follows(done, N, SeqsOf(V), <<>>, next)
  BY <1>7 DEF Follows
<1>9. done \in [0..N -> SeqsOf(V)]
  <2> HIDE DEF next, N
  <2>1. Iterates(done, N, SeqsOf(V), <<>>, next)
    BY <1>1, <1>2, <1>8, IterationFollows
  <2>2. QED
    BY <2>1 DEF Iterates
<1>10. QED
  BY <1>7, <1>9 DEF done, Step

\* The bytes of the first characters do not depend on what follows them.
LEMMA BytesPrefix ==
  ASSUME NEW s \in Texts, NEW t \in Texts, Len(s) <= Len(t), \A i \in 1..Len(s) : s[i] = t[i]
  PROVE  \A n \in 0..Len(s) : BytesUpTo(s)[n] = BytesUpTo(t)[n]
<1> DEFINE T == {n \in 0..Len(s) : BytesUpTo(s)[n] # BytesUpTo(t)[n]}
<1>0. Len(s) \in Nat /\ Len(t) \in Nat
  BY DEF Texts
<1>1. ASSUME T # {} PROVE FALSE
  <2>1. PICK n \in T : \A m \in T : n <= m
    <3>1. T \subseteq Nat
      BY <1>0
    <3> HIDE DEF T
    <3>2. QED
      BY <1>1, <3>1, LeastNumber
  <2>2. n # 0
    BY BytesStep
  <2>3. n - 1 \in 0..Len(s) /\ n \in 1..Len(s) /\ n \in 1..Len(t) /\ ~(n <= n - 1)
    BY <1>0, <2>2
  <2>4. BytesUpTo(s)[n - 1] = BytesUpTo(t)[n - 1]
    BY <2>1, <2>3
  <2>5. s[n] = t[n]
    BY <2>3
  <2>6. BytesUpTo(s)[n] = BytesUpTo(s)[n - 1] + s[n]
    BY <2>3, BytesStep
  <2>7. BytesUpTo(t)[n] = BytesUpTo(t)[n - 1] + t[n]
    BY <2>3, BytesStep
  <2>8. QED
    BY <2>4, <2>5, <2>6, <2>7
<1>2. QED
  BY <1>1

\* Each further character adds bytes.
LEMMA BytesGrow ==
  ASSUME NEW text \in Texts, NEW m \in 0..Len(text), NEW n \in 0..Len(text), m < n
  PROVE  BytesUpTo(text)[m] < BytesUpTo(text)[n]
<1> DEFINE T == {k \in 0..Len(text) : m < k /\ ~(BytesUpTo(text)[m] < BytesUpTo(text)[k])}
<1>0. Len(text) \in Nat /\ \A k \in 1..Len(text) : text[k] \in 1..4
  BY DEF Texts
<1>1. ASSUME T # {} PROVE FALSE
  <2>1. PICK k \in T : \A j \in T : k <= j
    <3>1. T \subseteq Nat
      BY <1>0
    <3> HIDE DEF T
    <3>2. QED
      BY <1>1, <3>1, LeastNumber
  <2>2. k \in 1..Len(text) /\ k - 1 \in 0..Len(text) /\ ~(k <= k - 1) /\ m <= k - 1
    BY <1>0
  <2>3. BytesUpTo(text)[m] <= BytesUpTo(text)[k - 1]
    <3>1. BytesUpTo(text)[m] \in Nat /\ BytesUpTo(text)[k - 1] \in Nat
      BY <2>2, BytesStep DEF ByteCounts
    <3>2. CASE m = k - 1
      BY <3>1, <3>2
    <3>3. CASE m # k - 1
      <4>1. m < k - 1 /\ k - 1 \notin T
        BY <2>1, <2>2, <3>3
      <4>2. QED
        BY <2>2, <3>1, <4>1
    <3>4. QED
      BY <3>2, <3>3
  <2>4. BytesUpTo(text)[k] = BytesUpTo(text)[k - 1] + text[k]
    BY <2>2, BytesStep
  <2>5. BytesUpTo(text)[m] \in Nat /\ BytesUpTo(text)[k - 1] \in Nat /\ text[k] \in 1..4
    BY <1>0, <2>2, BytesStep DEF ByteCounts
  <2>6. BytesUpTo(text)[m] < BytesUpTo(text)[k]
    BY <2>3, <2>4, <2>5
  <2>7. QED
    BY <2>6
<1>2. QED
  BY <1>1

\* The start of a text is a text, and has the bytes of its characters.
LEMMA StartOfText ==
  ASSUME NEW text \in Texts, NEW k \in 0..Len(text)
  PROVE  /\ SubSeq(text, 1, k) \in Texts /\ Len(SubSeq(text, 1, k)) = k
         /\ ByteLength(SubSeq(text, 1, k)) = BytesUpTo(text)[k]
<1> DEFINE s == SubSeq(text, 1, k)
<1>1. s \in Texts /\ Len(s) = k /\ \A i \in 1..k : s[i] = text[i]
  BY DEF Texts
<1>2. Len(s) <= Len(text)
  BY <1>1 DEF Texts
<1> HIDE DEF s
<1>3. BytesUpTo(s)[k] = BytesUpTo(text)[k]
  <2>1. \A n \in 0..Len(s) : BytesUpTo(s)[n] = BytesUpTo(text)[n]
    BY <1>1, <1>2, BytesPrefix
  <2>2. k \in 0..Len(s)
    BY <1>1
  <2>3. QED
    BY <2>1, <2>2
<1>4. QED
  BY <1>1, <1>3 DEF ByteLength, s

\* One more character adds its bytes.
LEMMA OneMoreCharacter ==
  ASSUME NEW s \in Texts, NEW e \in 1..4
  PROVE  /\ Append(s, e) \in Texts /\ Len(Append(s, e)) = Len(s) + 1
         /\ ByteLength(Append(s, e)) = ByteLength(s) + e
<1> DEFINE t == Append(s, e)
           N == Len(s)
<1>1. t \in Texts /\ Len(t) = N + 1 /\ N \in Nat /\ t[N + 1] = e /\ \A i \in 1..N : s[i] = t[i]
  BY AppendProperties DEF Texts
<1> HIDE DEF t
<1>2. BytesUpTo(s)[N] = BytesUpTo(t)[N]
  <2>1. Len(s) <= Len(t) /\ N \in 0..Len(s)
    BY <1>1
  <2>2. QED
    BY <1>1, <2>1, BytesPrefix
<1>3. BytesUpTo(t)[N + 1] = BytesUpTo(t)[(N + 1) - 1] + t[N + 1]
  <2>1. N + 1 \in 1..Len(t)
    BY <1>1
  <2>2. QED
    BY <1>1, <2>1, BytesStep
<1>4. (N + 1) - 1 = N
  BY <1>1
<1>5. QED
  BY <1>1, <1>2, <1>3, <1>4 DEF ByteLength, t

(***************************************************************************)
(* The note of an event                                                    *)
(***************************************************************************)
\* find_start_of_char finds the start of some character, and the next one starts
\* behind the position.
LEMMA StartIsFound ==
  ASSUME NEW text \in Texts, NEW pos \in Nat
  PROVE  \E k \in 0..Len(text) :
           /\ find_start_of_char(text, pos) = BytesUpTo(text)[k] /\ BytesUpTo(text)[k] <= pos
           /\ k < Len(text) => BytesUpTo(text)[k + 1] > pos
<1> DEFINE S == {BytesUpTo(text)[k] : k \in 0..Len(text)} \cap 0..pos
<1>0. Len(text) \in Nat /\ \A k \in 0..Len(text) : BytesUpTo(text)[k] \in Nat
  BY BytesStep DEF Texts, ByteCounts
<1>1. 0 \in S
  <2>1. 0 \in 0..Len(text) /\ BytesUpTo(text)[0] = 0
    BY <1>0, BytesStep
  <2>2. QED
    BY <2>1
<1>2. \E x \in S : \A y \in S : y <= x
  <2>1. S \subseteq Nat /\ \A y \in S : y <= pos
    BY <1>0
  <2> HIDE DEF S
  <2>2. QED
    BY <1>1, <2>1, GreatestNumber
<1>3. find_start_of_char(text, pos) = CHOOSE x \in S : \A y \in S : x >= y
  BY DEF find_start_of_char, Max
<1>4. \E x \in S : \A y \in S : x >= y
  <2>1. S \subseteq Nat
    OBVIOUS
  <2> HIDE DEF S
  <2>2. QED
    BY <1>2, <2>1
<1> DEFINE p == find_start_of_char(text, pos)
<1>5. p \in S /\ \A y \in S : p >= y
  <2> HIDE DEF S
  <2>1. QED
    BY <1>3, <1>4
<1>6. PICK k \in 0..Len(text) : p = BytesUpTo(text)[k]
  BY <1>5
<1>7. BytesUpTo(text)[k] <= pos
  BY <1>5, <1>6
<1>8. ASSUME k < Len(text) PROVE BytesUpTo(text)[k + 1] > pos
  <2>1. k + 1 \in 0..Len(text) /\ k < k + 1
    BY <1>0, <1>8
  <2>2. BytesUpTo(text)[k] < BytesUpTo(text)[k + 1]
    BY <2>1, BytesGrow
  <2>3. BytesUpTo(text)[k] \in Nat /\ BytesUpTo(text)[k + 1] \in Nat
    BY <1>0, <2>1
  <2>4. CASE BytesUpTo(text)[k + 1] \in S
    BY <1>5, <1>6, <2>2, <2>3, <2>4
  <2>5. CASE BytesUpTo(text)[k + 1] \notin S
    BY <2>1, <2>3, <2>5
  <2>6. QED
    BY <2>4, <2>5
<1>9. QED
  BY <1>6, <1>7, <1>8

\* At the start of a character a text can be truncated, to the characters before.
LEMMA TruncatedAtStart ==
  ASSUME NEW text \in Texts, NEW k \in 0..Len(text)
  PROVE  Truncated(text, BytesUpTo(text)[k]) = Ok(SubSeq(text, 1, k))
<1> DEFINE S == {j \in 0..Len(text) : BytesUpTo(text)[j] = BytesUpTo(text)[k]}
<1>0. Len(text) \in Nat /\ \A j \in 0..Len(text) : BytesUpTo(text)[j] \in Nat
  BY BytesStep DEF Texts, ByteCounts
<1>1. ASSUME NEW j \in S PROVE j = k
  <2>1. CASE j < k
    <3>1. BytesUpTo(text)[j] < BytesUpTo(text)[k]
      BY <2>1, BytesGrow
    <3>2. QED
      BY <1>0, <3>1
  <2>2. CASE k < j
    <3>1. BytesUpTo(text)[k] < BytesUpTo(text)[j]
      BY <2>2, BytesGrow
    <3>2. QED
      BY <1>0, <3>1
  <2>3. QED
    BY <1>0, <2>1, <2>2
<1>2. S = {k}
  BY <1>1
<1>3. Max({k}) = k
  BY <1>0 DEF Max
<1>4. Truncated(text, BytesUpTo(text)[k]) = IF S = {} THEN Err("panic") ELSE Ok(SubSeq(text, 1, Max(S)))
  BY DEF Truncated
<1>5. QED
  BY <1>2, <1>3, <1>4

\* What EventNotesFit says of the note made of a text.
NoteFits(text, note, limit) ==
  LET kept == SubSeq(text, 1, Len(note) - 1)
  IN  /\ ByteLength(note) <= limit
      /\ ByteLength(text) <= limit => note = text
      /\ (ByteLength(text) > limit /\ EllipsisLen <= limit) =>
              /\ note = Append(kept, EllipsisLen)
              /\ ByteLength(kept) + text[Len(kept) + 1] + EllipsisLen > limit

\* The result of truncate_with_ellipsis fits, for every text and limit.
LEMMA TruncatedFits ==
  ASSUME NEW text \in Texts, NEW limit \in Nat
  PROVE  /\ truncate_with_ellipsis(text, limit).ok
         /\ NoteFits(text, truncate_with_ellipsis(text, limit).value, limit)
<1> DEFINE end == Max({limit - EllipsisLen, 0})
           cut == Truncated(text, find_start_of_char(text, end))
           result == truncate_with_ellipsis(text, limit)
<1>0. Len(text) \in Nat /\ \A j \in 0..Len(text) : BytesUpTo(text)[j] \in Nat
  BY BytesStep DEF Texts, ByteCounts
<1>1. ByteLength(text) \in Nat
  BY <1>0 DEF ByteLength
<1>2. CASE ByteLength(text) <= limit
  <2>1. result = Ok(text)
    BY <1>2 DEF truncate_with_ellipsis
  <2>2. result.ok /\ result.value = text
    BY <2>1 DEF Ok
  <2>3. NoteFits(text, text, limit)
    BY <1>1, <1>2 DEF NoteFits
  <2>4. QED
    BY <2>2, <2>3
<1>3. CASE ~(ByteLength(text) <= limit)
  <2>1. end \in Nat /\ end = IF EllipsisLen <= limit THEN limit - EllipsisLen ELSE 0
    BY DEF Max, EllipsisLen
  <2> HIDE DEF end
  <2>2. PICK k \in 0..Len(text) :
          /\ find_start_of_char(text, end) = BytesUpTo(text)[k] /\ BytesUpTo(text)[k] <= end
          /\ k < Len(text) => BytesUpTo(text)[k + 1] > end
    BY <2>1, StartIsFound
  <2> DEFINE s == SubSeq(text, 1, k)
  <2>3. s \in Texts /\ Len(s) = k /\ ByteLength(s) = BytesUpTo(text)[k]
    BY StartOfText
  <2>4. cut = Ok(s)
    BY <2>2, TruncatedAtStart
  <2>5. cut.ok /\ cut.value = s
    BY <2>4 DEF Ok
  <2> HIDE DEF s
  <2>6. result = Ok(s \o IF EllipsisLen <= limit THEN <<EllipsisLen>> ELSE <<>>)
    BY <1>3, <2>5 DEF truncate_with_ellipsis, end
  <2>7. CASE EllipsisLen <= limit
    <3> DEFINE note == Append(s, EllipsisLen)
    <3>1. s \o <<EllipsisLen>> = note
      BY <2>3 DEF Texts
    <3>2. result.ok /\ result.value = note
      BY <2>6, <2>7, <3>1 DEF Ok
    <3>3. note \in Texts /\ Len(note) = k + 1 /\ ByteLength(note) = ByteLength(s) + EllipsisLen
      <4>1. EllipsisLen \in 1..4
        BY DEF EllipsisLen
      <4>2. QED
        BY <2>3, <4>1, OneMoreCharacter
    <3> HIDE DEF note
    <3>4. Len(note) - 1 = k
      BY <1>0, <3>3
    <3>5. SubSeq(text, 1, Len(note) - 1) = s
      BY <3>4 DEF s
    <3>6. EllipsisLen \in Nat /\ BytesUpTo(text)[k] \in Nat /\ end = limit - EllipsisLen
      BY <1>0, <2>1, <2>7 DEF EllipsisLen
    <3>7. ByteLength(note) <= limit
      BY <2>2, <2>3, <3>3, <3>6
    <3>8. k < Len(text)
      <4>1. CASE k = Len(text)
        <5>1. ByteLength(text) = BytesUpTo(text)[k]
          BY <4>1 DEF ByteLength
        <5>2. QED
          BY <1>3, <2>2, <3>6, <5>1
      <4>2. QED
        BY <1>0, <4>1
    <3>9. ByteLength(s) + text[Len(s) + 1] + EllipsisLen > limit
      <4>1. k + 1 \in 1..Len(text) /\ (k + 1) - 1 = k
        BY <1>0, <3>8
      <4>2. BytesUpTo(text)[k + 1] = BytesUpTo(text)[(k + 1) - 1] + text[k + 1]
        BY <4>1, BytesStep
      <4>3. text[k + 1] \in Nat
        BY <4>1 DEF Texts
      <4>4. BytesUpTo(text)[k] + text[k + 1] > end
        BY <2>2, <3>8, <4>1, <4>2
      <4>5. QED
        BY <2>3, <3>6, <4>3, <4>4
    <3>10. note = Append(s, EllipsisLen)
      BY DEF note
    <3>11. NoteFits(text, note, limit)
      BY <1>3, <3>5, <3>7, <3>9, <3>10 DEF NoteFits
    <3>12. QED
      BY <3>2, <3>11
  <2>8. CASE ~(EllipsisLen <= limit)
    <3>1. s \o <<>> = s
      BY <2>3 DEF Texts
    <3>2. result.ok /\ result.value = s
      BY <2>6, <2>8, <3>1 DEF Ok
    <3>3. ByteLength(s) <= limit
      BY <1>0, <2>1, <2>2, <2>3, <2>8
    <3>4. NoteFits(text, s, limit)
      BY <1>3, <2>8, <3>3 DEF NoteFits
    <3>5. QED
      BY <3>2, <3>4
  <2>9. QED
    BY <2>7, <2>8
<1>4. QED
  BY <1>2, <1>3

\* The chain of the errors of an outcome is a text.
LEMMA ChainIsText ==
  ASSUME NEW errors \in Seq(Texts), errors # <<>>
  PROVE  Chain(errors) \in Texts
<1>1. Len(errors) \in Nat /\ Len(errors) # 0
  BY EmptySeq
<1>2. Len(errors) - 1 \in 0..(Len(errors) - 1)
  BY <1>1
<1>3. QED
  BY <1>2, JoinedStep DEF Chain

\* What a reconciliation reports: log entries, and an event if its error is about
\* an object and can be published.
IsReport(done, limit, report) ==
  \/ /\ done.result = "Ok" /\ report = [events |-> <<>>, logs |-> <<"info">>]
  \/ /\ done.result = "QueueError" /\ report = [events |-> <<>>, logs |-> <<"warn">>]
  \/ /\ done.result \notin {"Ok", "QueueError", "ReconcilerFailed"}
     /\ report = [events |-> <<>>, logs |-> <<"error">>]
  \/ /\ done.result = "ReconcilerFailed"
     /\ report = [events |-> <<>>, logs |-> <<"error", "error">>]
  \/ /\ done.result = "ReconcilerFailed"
     /\ report = [events |-> <<error_to_event(done, limit)>>, logs |-> <<"error">>]

\* report_controller_reconciled gives such a report.
LEMMA ReportCases ==
  ASSUME NEW done, NEW limit
  PROVE  IsReport(done, limit, report_controller_reconciled(done, limit))
<1> DEFINE publish == publish_controller_error_as_k8s_event(done, limit)
           report == report_controller_reconciled(done, limit)
           first == IF done.result = "QueueError" THEN "warn" ELSE "error"
           event == error_to_event(done, limit)
<1>1. CASE done.result = "Ok"
  BY <1>1 DEF report_controller_reconciled, IsReport
<1>2. CASE done.result # "Ok"
  <2>1. report = [publish EXCEPT !.logs = <<first>> \o @]
    BY <1>2 DEF report_controller_reconciled
  <2>2. CASE done.result # "ReconcilerFailed"
    <3>1. publish = [events |-> <<>>, logs |-> <<>>]
      BY <2>2 DEF publish_controller_error_as_k8s_event
    <3>2. <<first>> \o <<>> = <<first>>
      OBVIOUS
    <3> HIDE DEF publish, first, report
    <3>3. report = [events |-> <<>>, logs |-> <<first>>]
      BY <2>1, <3>1, <3>2
    <3>4. CASE done.result = "QueueError"
      BY <3>3, <3>4 DEF first, IsReport, report
    <3>5. CASE done.result # "QueueError"
      BY <1>2, <2>2, <3>3, <3>5 DEF first, IsReport, report
    <3>6. QED
      BY <3>4, <3>5
  <2>3. CASE done.result = "ReconcilerFailed"
    <3>1. first = "error"
      BY <2>3
    <3>2. <<"error">> \o <<>> = <<"error">> /\ <<"error">> \o <<"error">> = <<"error", "error">>
      <4>1. ASSUME NEW x PROVE <<x>> \o <<>> = <<x>>
        <5>1. <<x>> \in Seq({x})
          OBVIOUS
        <5>2. QED
          BY <5>1
      <4>2. ASSUME NEW x PROVE <<x>> \o <<x>> = <<x, x>>
        <5>1. <<x>> \in Seq({x}) /\ <<x, x>> \in Seq({x})
          OBVIOUS
        <5> DEFINE both == <<x>> \o <<x>>
        <5>2. both \in Seq({x}) /\ Len(both) = 2 /\ Len(<<x, x>>) = 2
          BY <5>1, ConcatProperties
        <5> HIDE DEF both
        <5>3. \A i \in 1..Len(both) : both[i] = x /\ <<x, x>>[i] = x
          BY <5>1, <5>2
        <5>4. both = <<x, x>>
          BY <5>1, <5>2, <5>3, SeqEqual
        <5>5. QED
          BY <5>4 DEF both
      <4>3. QED
        BY <4>1, <4>2
    <3>3. publish \in {[events |-> <<event>>, logs |-> <<>>], [events |-> <<>>, logs |-> <<"error">>]}
      BY <2>3 DEF publish_controller_error_as_k8s_event
    <3> HIDE DEF publish, first, report, event
    <3>4. CASE publish = [events |-> <<event>>, logs |-> <<>>]
      <4>1. report = [events |-> <<event>>, logs |-> <<"error">>]
        BY <2>1, <3>1, <3>2, <3>4
      <4>2. QED
        BY <2>3, <4>1 DEF IsReport, report, event
    <3>5. CASE publish = [events |-> <<>>, logs |-> <<"error">>]
      <4>1. report = [events |-> <<>>, logs |-> <<"error", "error">>]
        BY <2>1, <3>1, <3>2, <3>5
      <4>2. QED
        BY <2>3, <4>1 DEF IsReport, report
    <3>6. QED
      BY <3>3, <3>4, <3>5
  <2>4. QED
    BY <2>2, <2>3
<1>3. QED
  BY <1>1, <1>2

(***************************************************************************)
(* Feature gates                                                           *)
(***************************************************************************)
\* filter keeps a sequence of the same elements.
LEMMA FilterType ==
  ASSUME NEW V, NEW s \in SeqsOf(V), NEW places
  PROVE  filter(s, places) \in SeqsOf(V)
<1>1. Len(s) \in 0..Len(s)
  BY DEF SeqsOf
<1>2. QED
  BY <1>1, FilteredStep DEF filter

\* Two filters that share out the places share out the elements.
LEMMA FiltersShare ==
  ASSUME NEW V, NEW s \in SeqsOf(V), NEW P, NEW Q,
         \A i \in 1..Len(s) : i \in P <=> i \notin Q
  PROVE  Len(filter(s, P)) + Len(filter(s, Q)) = Len(s)
<1> DEFINE p == Filtered(s, P)
           q == Filtered(s, Q)
           size == [k \in 0..Len(s) |-> Len(p[k]) + Len(q[k])]
           T == {k \in 0..Len(s) : size[k] # k}
<1>0. Len(s) \in Nat /\ \A n \in 1..Len(s) : s[n] \in V
  BY DEF SeqsOf
<1>1. ASSUME T # {} PROVE FALSE
  <2>1. PICK n \in T : \A m \in T : n <= m
    <3>1. T \subseteq Nat
      <4> HIDE DEF size
      <4>1. QED
        BY <1>0
    <3> HIDE DEF T
    <3>2. QED
      BY <1>1, <3>1, LeastNumber
  <2>2. n # 0
    <3>1. p[0] = <<>> /\ q[0] = <<>>
      BY FilteredStep
    <3>2. size[0] = 0
      <4>1. size[0] = Len(p[0]) + Len(q[0])
        BY <1>0
      <4>2. Len(p[0]) = 0 /\ Len(q[0]) = 0
        BY <3>1
      <4> HIDE DEF size, p, q
      <4>3. QED
        BY <4>1, <4>2
    <3> HIDE DEF size
    <3>3. QED
      BY <3>2
  <2>3. n - 1 \in 0..Len(s) /\ n \in 1..Len(s) /\ ~(n <= n - 1) /\ n \in 0..Len(s)
    <3> HIDE DEF size
    <3>1. QED
      BY <1>0, <2>2
  <2>4. size[n - 1] = n - 1
    <3> HIDE DEF size
    <3>1. QED
      BY <2>1, <2>3
  <2>5. p[n - 1] \in SeqsOf(V) /\ q[n - 1] \in SeqsOf(V)
    <3>1. p[n - 1] \in SeqsOf(V)
      BY <2>3, FilteredStep
    <3>2. q[n - 1] \in SeqsOf(V)
      BY <2>3, FilteredStep
    <3>3. QED
      BY <3>1, <3>2
  <2>6. p[n] = IF n \in P THEN Append(p[n - 1], s[n]) ELSE p[n - 1]
    BY <2>3, FilteredStep
  <2>7. q[n] = IF n \in Q THEN Append(q[n - 1], s[n]) ELSE q[n - 1]
    BY <2>3, FilteredStep
  <2> DEFINE a == Len(p[n - 1])
             b == Len(q[n - 1])
  <2> HIDE DEF p, q, T
  <2>8. /\ Len(Append(p[n - 1], s[n])) = a + 1 /\ a \in Nat
        /\ Len(Append(q[n - 1], s[n])) = b + 1 /\ b \in Nat
    BY <2>5 DEF SeqsOf
  <2>9. a + b = n - 1 /\ size[n] = Len(p[n]) + Len(q[n]) /\ n \in Nat
    <3>1. size[n - 1] = a + b
      BY <2>3
    <3>2. size[n] = Len(p[n]) + Len(q[n])
      BY <2>3
    <3> HIDE DEF size, a, b
    <3>3. QED
      BY <1>0, <2>3, <2>4, <3>1, <3>2
  <2>10. size[n] = n
    <3>1. \/ Len(p[n]) = a + 1 /\ Len(q[n]) = b
          \/ Len(p[n]) = a /\ Len(q[n]) = b + 1
      <4>1. CASE n \in P
        <5>1. n \notin Q
          BY <2>3, <4>1
        <5>2. QED
          BY <2>6, <2>7, <2>8, <4>1, <5>1
      <4>2. CASE n \notin P
        <5>1. n \in Q
          BY <2>3, <4>2
        <5>2. QED
          BY <2>6, <2>7, <2>8, <4>2, <5>1
      <4>3. QED
        BY <4>1, <4>2
    <3> DEFINE x == Len(p[n])
               y == Len(q[n])
    <3>2. size[n] = x + y /\ a \in Nat /\ b \in Nat /\ a + b = n - 1 /\ n \in Nat
      BY <2>8, <2>9
    <3>3. \/ x = a + 1 /\ y = b
          \/ x = a /\ y = b + 1
      BY <3>1
    <3> HIDE DEF a, b, size, x, y
    <3>4. QED
      BY <3>2, <3>3
  <2>11. QED
    BY <2>10 DEF T
<1>2. Len(s) \in 0..Len(s)
  BY <1>0
<1>3. size[Len(s)] = Len(s)
  <2> HIDE DEF size
  <2>1. QED
    BY <1>1, <1>2
<1>4. QED
  BY <1>2, <1>3 DEF filter

\* An element at one of the places is kept.
LEMMA FilterHas ==
  ASSUME NEW V, NEW s \in SeqsOf(V), NEW P, NEW i \in 1..Len(s), i \in P
  PROVE  s[i] \in ToSet(filter(s, P))
<1> DEFINE p == Filtered(s, P)
           Has(t) == \E j \in 1..Len(t) : t[j] = s[i]
           T == {n \in i..Len(s) : ~Has(p[n])}
<1>0. Len(s) \in Nat /\ \A n \in 1..Len(s) : s[n] \in V
  BY DEF SeqsOf
<1>1. ASSUME T # {} PROVE FALSE
  <2>1. PICK n \in T : \A m \in T : n <= m
    <3>1. T \subseteq Nat
      BY <1>0
    <3> HIDE DEF T
    <3>2. QED
      BY <1>1, <3>1, LeastNumber
  <2>2. n - 1 \in 0..Len(s) /\ n \in 1..Len(s) /\ ~(n <= n - 1)
    BY <1>0
  <2>3. p[n - 1] \in Seq(V) /\ s[n] \in V
    BY <1>0, <2>2, FilteredStep DEF SeqsOf
  <2>4. p[n] = IF n \in P THEN Append(p[n - 1], s[n]) ELSE p[n - 1]
    BY <2>2, FilteredStep
  <2> DEFINE old == p[n - 1]
             new == Append(old, s[n])
  <2>5. /\ Len(old) \in Nat /\ Len(new) = Len(old) + 1 /\ new[Len(old) + 1] = s[n]
        /\ \A j \in 1..Len(old) : new[j] = old[j]
    BY <2>3, AppendProperties
  <2>6. CASE n = i
    <3>1. p[n] = new
      BY <2>4, <2>6
    <3>2. Len(old) + 1 \in 1..Len(new) /\ new[Len(old) + 1] = s[i]
      BY <2>5, <2>6
    <3> HIDE DEF new, old, p
    <3>3. Has(p[n])
      BY <3>1, <3>2
    <3>4. QED
      BY <2>1, <3>3
  <2>7. CASE n # i
    <3>1. n - 1 \in i..Len(s)
      BY <1>0, <2>2, <2>7
    <3>2. Has(old)
      BY <2>1, <2>2, <3>1
    <3>3. PICK j \in 1..Len(old) : old[j] = s[i]
      BY <3>2
    <3>4. j \in 1..Len(new) /\ new[j] = s[i]
      BY <2>5, <3>3
    <3>5. p[n] = old \/ p[n] = new
      BY <2>4
    <3> HIDE DEF new, old, p
    <3>6. Has(p[n])
      BY <3>2, <3>4, <3>5
    <3>7. QED
      BY <2>1, <3>6
  <2>8. QED
    BY <2>6, <2>7
<1>2. Len(s) \in i..Len(s)
  BY <1>0
<1>3. PICK j \in 1..Len(p[Len(s)]) : p[Len(s)][j] = s[i]
  BY <1>1, <1>2
<1>4. p[Len(s)] = filter(s, P) /\ filter(s, P) \in Seq(V)
  BY FilterType DEF filter, SeqsOf
<1>5. DOMAIN filter(s, P) = 1..Len(filter(s, P))
  BY <1>4
<1>6. QED
  BY <1>3, <1>4, <1>5 DEF ToSet

\* The gates that a response lists, if all of them can be read.
GatesOf(gates) == [i \in DOMAIN gates |-> parse_from_metric(gates[i]).value]
PlacesOf(gates, enabled) == {i \in DOMAIN gates : gates[i].enabled = enabled}

\* What GatesAreComplete says of the answers to both requests.
GatesShared(gates, enabled, disabled) ==
  /\ enabled.ok = disabled.ok
  /\ enabled.ok =>
        /\ Len(enabled.value) + Len(disabled.value) = Len(gates)
        /\ \A i \in DOMAIN gates :
              parse_from_metric(gates[i]).value
                \in ToSet(IF gates[i].count # 0 THEN enabled.value ELSE disabled.value)

\* It holds for every response.
LEMMA GatesAreShared ==
  ASSUME NEW V, NEW body \in SeqsOf(V)
  PROVE  GatesShared(MetricLines(body), get_gates(body, TRUE), get_gates(body, FALSE))
<1> DEFINE gates == MetricLines(body)
           AllRead == \A i \in DOMAIN gates : parse_from_metric(gates[i]).ok
           v == GatesOf(gates)
           W == {v[i] : i \in DOMAIN gates}
<1>1. gates \in Seq(V)
  BY FilterType DEF MetricLines, SeqsOf
<1>2. parse_from_metrics(body) = IF AllRead THEN Ok(v) ELSE Err("ParseFeatureGate")
  BY DEF parse_from_metrics, GatesOf
<1> HIDE DEF gates
<1>3. CASE ~AllRead
  <2>1. ~parse_from_metrics(body).ok
    BY <1>2, <1>3 DEF Err
  <2>2. /\ get_gates(body, TRUE) = parse_from_metrics(body)
        /\ get_gates(body, FALSE) = parse_from_metrics(body)
    BY <2>1 DEF get_gates
  <2>3. QED
    BY <2>1, <2>2 DEF GatesShared
<1>4. CASE AllRead
  <2>1. parse_from_metrics(body).ok /\ parse_from_metrics(body).value = v
    BY <1>2, <1>4 DEF Ok
  <2> HIDE DEF v
  <2>2. /\ get_gates(body, TRUE) = Ok(filter(v, PlacesOf(v, TRUE)))
        /\ get_gates(body, FALSE) = Ok(filter(v, PlacesOf(v, FALSE)))
    BY <2>1 DEF get_gates, PlacesOf
  <2>3. /\ get_gates(body, TRUE).ok = TRUE /\ get_gates(body, TRUE).value = filter(v, PlacesOf(v, TRUE))
        /\ get_gates(body, FALSE).ok = TRUE /\ get_gates(body, FALSE).value = filter(v, PlacesOf(v, FALSE))
    <3> DEFINE on == filter(v, PlacesOf(v, TRUE))
               off == filter(v, PlacesOf(v, FALSE))
    <3> HIDE DEF on, off
    <3>1. Ok(on).ok = TRUE /\ Ok(on).value = on /\ Ok(off).ok = TRUE /\ Ok(off).value = off
      BY DEF Ok
    <3>2. QED
      BY <2>2, <3>1 DEF on, off
  <2>4. v \in Seq(W) /\ Len(v) = Len(gates) /\ DOMAIN gates = 1..Len(gates) /\ DOMAIN v = DOMAIN gates
    BY <1>1 DEF v, GatesOf
  <2> HIDE DEF W
  <2>5. ASSUME NEW i \in DOMAIN gates
        PROVE  /\ v[i].enabled = (gates[i].count # 0) /\ v[i] = parse_from_metric(gates[i]).value
    <3>1. parse_from_metric(gates[i]).ok
      BY <1>4
    <3>2. v[i] = parse_from_metric(gates[i]).value
      BY DEF v, GatesOf
    <3>3. parse_from_metric(gates[i]).value.enabled = (gates[i].count # 0)
      BY <3>1 DEF parse_from_metric, Ok, Err
    <3>4. QED
      BY <3>2, <3>3
  <2>6. ASSUME NEW i \in DOMAIN gates
        PROVE  /\ i \in PlacesOf(v, TRUE) <=> gates[i].count # 0
               /\ i \in PlacesOf(v, FALSE) <=> ~(gates[i].count # 0)
    BY <2>4, <2>5 DEF PlacesOf
  <2>7. Len(filter(v, PlacesOf(v, TRUE))) + Len(filter(v, PlacesOf(v, FALSE))) = Len(gates)
    <3>1. \A i \in 1..Len(v) : i \in PlacesOf(v, TRUE) <=> i \notin PlacesOf(v, FALSE)
      BY <2>4, <2>6
    <3>2. v \in SeqsOf(W)
      BY <2>4 DEF SeqsOf
    <3>3. QED
      BY <2>4, <3>1, <3>2, FiltersShare
  <2>8. ASSUME NEW i \in DOMAIN gates
        PROVE  parse_from_metric(gates[i]).value
                 \in ToSet(IF gates[i].count # 0 THEN filter(v, PlacesOf(v, TRUE))
                           ELSE filter(v, PlacesOf(v, FALSE)))
    <3>1. v \in SeqsOf(W) /\ i \in 1..Len(v)
      BY <2>4 DEF SeqsOf
    <3>2. CASE gates[i].count # 0
      <4>1. v[i] \in ToSet(filter(v, PlacesOf(v, TRUE)))
        BY <2>6, <3>1, <3>2, FilterHas
      <4>2. QED
        BY <2>5, <3>2, <4>1
    <3>3. CASE ~(gates[i].count # 0)
      <4>1. v[i] \in ToSet(filter(v, PlacesOf(v, FALSE)))
        BY <2>6, <3>1, <3>3, FilterHas
      <4>2. QED
        BY <2>5, <3>3, <4>1
    <3>4. QED
      BY <3>2, <3>3
  <2> HIDE DEF AllRead
  <2>9. GatesShared(gates, get_gates(body, TRUE), get_gates(body, FALSE))
    BY <2>3, <2>7, <2>8 DEF GatesShared
  <2>10. QED
    BY <2>9 DEF gates
<1>5. QED
  BY <1>3, <1>4

(***************************************************************************)
(* ReportsAreComplete                                                      *)
(***************************************************************************)
\* What is reported is the report of some outcome or the gates of some response.
ReportInv ==
  \/ reported = None
  \/ \E o \in Outcomes, n \in NoteLimits :
       reported = [what |-> "outcome", of |-> o, limit |-> n, is |-> report_controller_reconciled(o, n)]
  \/ \E b \in MetricBodies :
       reported = [what |-> "gates", of |-> b, enabled |-> get_gates(b, TRUE), disabled |-> get_gates(b, FALSE)]

\* The report of an outcome is complete and its note fits.
LEMMA OutcomesAreReported ==
  ASSUME NEW o \in Outcomes, NEW n \in NoteLimits,
         reported = [what |-> "outcome", of |-> o, limit |-> n, is |-> report_controller_reconciled(o, n)]
  PROVE  EventNotesFit /\ FailuresAreReported
<1> DEFINE report == report_controller_reconciled(o, n)
           text == Chain(o.chain)
           event == error_to_event(o, n)
<1>1. reported.of = o /\ reported.limit = n /\ reported.is = report
  OBVIOUS
<1>2. IsReport(o, n, report)
  BY ReportCases
<1>3. n \in Nat /\ text \in Texts
  BY ReportConstants, ChainIsText DEF Texts
<1> HIDE DEF report
<1>4. report.events = <<>> \/ report.events = <<event>>
  BY <1>2 DEF IsReport
<1>5. event.note = truncate_with_ellipsis(text, n) /\ event.reason = o.category /\ event.secondary = o.secondary
  BY DEF error_to_event
<1> HIDE DEF text, event
<1>6. event.note.ok /\ NoteFits(text, event.note.value, n)
  BY <1>3, <1>5, TruncatedFits
<1>7. ToSet(report.events) \subseteq {event}
  BY <1>4 DEF ToSet
<1>8. EventNotesFit
  <2>1. \A e \in ToSet(report.events) : e = event
    BY <1>7
  <2>2. QED
    BY <1>1, <1>6, <2>1 DEF EventNotesFit, NoteFits, text
<1>9. FailuresAreReported
  <2>1. /\ ToSet(<<"error">>) = {"error"} /\ ToSet(<<"error", "error">>) = {"error"}
        /\ Len(<<>>) = 0 /\ Len(<<"error">>) = 1 /\ Len(<<"error", "error">>) = 2
        /\ Len(<<"info">>) = 1 /\ Len(<<"warn">>) = 1 /\ Len(<<event>>) = 1
    BY DEF ToSet
  <2>2. o.result \notin {"Ok", "QueueError"} => "error" \in ToSet(report.logs)
    BY <1>2, <2>1 DEF IsReport
  <2>3. report.logs # <<>>
    BY <1>2 DEF IsReport
  <2>4. o.result = "ReconcilerFailed" <=> Len(report.events) + Len(report.logs) = 2
    <3>1. CASE o.result # "ReconcilerFailed"
      <4>1. report.events = <<>> /\ Len(report.logs) = 1
        BY <1>2, <2>1, <3>1 DEF IsReport
      <4>2. QED
        BY <2>1, <3>1, <4>1
    <3>2. CASE o.result = "ReconcilerFailed"
      <4>1. \/ report = [events |-> <<>>, logs |-> <<"error", "error">>]
            \/ report = [events |-> <<event>>, logs |-> <<"error">>]
        BY <1>2, <3>2 DEF IsReport, event
      <4>2. Len(report.events) + Len(report.logs) = 2
        <5>1. CASE report = [events |-> <<>>, logs |-> <<"error", "error">>]
          <6>1. report.events = <<>> /\ report.logs = <<"error", "error">>
            BY <5>1
          <6>2. QED
            BY <2>1, <6>1
        <5>2. CASE report = [events |-> <<event>>, logs |-> <<"error">>]
          <6>1. report.events = <<event>> /\ report.logs = <<"error">>
            BY <5>2
          <6>2. QED
            BY <2>1, <6>1
        <5>3. QED
          BY <4>1, <5>1, <5>2
      <4>3. QED
        BY <3>2, <4>2
    <3>3. QED
      BY <3>1, <3>2
  <2>5. report.events # <<>> => report.events[1] = event
    BY <1>4
  <2>6. QED
    BY <1>1, <1>5, <2>2, <2>3, <2>4, <2>5 DEF FailuresAreReported
<1>10. QED
  BY <1>8, <1>9

\* For every chain of errors, limit and response of the API server, what an
\* operator reports or is told is neither lost nor cut in the wrong place.
THEOREM ReportsAreAlwaysComplete == ReportSpec => []ReportsAreComplete
<1>1. ReportInit => ReportInv
  BY DEF ReportInit, ReportInv
<1>2. ReportInv /\ [ReportNext]_reported => ReportInv'
  BY DEF ReportInv, ReportNext
<1>3. ReportInv => ReportsAreComplete
  <2> SUFFICES ASSUME ReportInv PROVE ReportsAreComplete
    OBVIOUS
  <2>1. CASE reported = None
    BY <2>1 DEF ReportsAreComplete, EventNotesFit, FailuresAreReported, GatesAreComplete, Reported
  <2>2. ASSUME NEW o \in Outcomes, NEW n \in NoteLimits,
               reported = [what |-> "outcome", of |-> o, limit |-> n, is |-> report_controller_reconciled(o, n)]
        PROVE  ReportsAreComplete
    <3>1. EventNotesFit /\ FailuresAreReported
      BY <2>2, OutcomesAreReported
    <3>2. ~Reported("gates")
      BY <2>2 DEF Reported
    <3>3. QED
      BY <3>1, <3>2 DEF ReportsAreComplete, GatesAreComplete
  <2>3. ASSUME NEW b \in MetricBodies,
               reported = [what |-> "gates", of |-> b, enabled |-> get_gates(b, TRUE), disabled |-> get_gates(b, FALSE)]
        PROVE  ReportsAreComplete
    <3>1. ~Reported("outcome")
      BY <2>3 DEF Reported
    <3>2. reported.of = b /\ reported.enabled = get_gates(b, TRUE) /\ reported.disabled = get_gates(b, FALSE)
      BY <2>3
    <3>3. GatesShared(MetricLines(b), get_gates(b, TRUE), get_gates(b, FALSE))
      BY ReportConstants, GatesAreShared DEF SeqsOf
    <3>4. GatesAreComplete
      BY <3>2, <3>3 DEF GatesAreComplete, GatesShared
    <3>5. QED
      BY <3>1, <3>4 DEF ReportsAreComplete, EventNotesFit, FailuresAreReported
  <2>4. QED
    BY <2>1, <2>2, <2>3 DEF ReportInv
<1>4. QED
  BY <1>1, <1>2, <1>3, PTL DEF ReportSpec

(***************************************************************************)
(* LogPipeline                                                             *)
(***************************************************************************)

\* The order of the levels.
LEMMA LevelRanks ==
  /\ LevelRank("TRACE") = 1 /\ LevelRank("DEBUG") = 2 /\ LevelRank("INFO") = 3
  /\ LevelRank("WARN") = 4 /\ LevelRank("ERROR") = 5 /\ LevelRank("FATAL") = 6
  /\ LevelRank("NONE") = 7
<1>1. /\ DOMAIN LogLevels = 1..7 /\ LogLevels[1] = "TRACE" /\ LogLevels[2] = "DEBUG"
      /\ LogLevels[3] = "INFO" /\ LogLevels[4] = "WARN" /\ LogLevels[5] = "ERROR"
      /\ LogLevels[6] = "FATAL" /\ LogLevels[7] = "NONE"
  BY DEF LogLevels
<1>2. \A i \in 1..7 : i = 1 \/ i = 2 \/ i = 3 \/ i = 4 \/ i = 5 \/ i = 6 \/ i = 7
  OBVIOUS
<1>3. ASSUME NEW level, NEW k \in 1..7, LogLevels[k] = level,
             \A i \in 1..7 : LogLevels[i] = level => i = k
      PROVE  LevelRank(level) = k
  BY <1>1, <1>3 DEF LevelRank
<1>4. \A i, j \in 1..7 : LogLevels[i] = LogLevels[j] => i = j
  BY <1>1, <1>2
<1>5. \A k \in 1..7 : LevelRank(LogLevels[k]) = k
  BY <1>3, <1>4
<1>6. QED
  BY <1>1, <1>5

\* What each transform does: the level names it reads are event levels, and
\* where it differs from the others.
LEMMA TransformFacts ==
  ASSUME NEW f \in DOMAIN Transforms
  PROVE  LET t == Transforms[f]
         IN  /\ \A l \in DOMAIN t.levels : t.levels[l] \in EventLevels
             /\ f # "py" => "WARN" \in DOMAIN t.levels
             /\ f # "tracing_rs" => t.reports_missing = TRUE
             /\ f = "tracing_rs" => t.alternative = FALSE
             /\ t.reports_missing \in BOOLEAN /\ t.alternative \in BOOLEAN
             /\ t.rest = (f # "py") /\ t.tags \in BOOLEAN
<1>1. \A l \in DOMAIN AnyCase : AnyCase[l] \in EventLevels
  BY DEF AnyCase, EventLevels
<1>2. \A l \in DOMAIN UpperCase : UpperCase[l] \in EventLevels
  BY DEF UpperCase, EventLevels
<1>3. \A l \in DOMAIN processed_files_py_levels : processed_files_py_levels[l] \in EventLevels
  BY DEF processed_files_py_levels, EventLevels
<1>4. "WARN" \in DOMAIN AnyCase /\ "WARN" \in DOMAIN UpperCase
  BY DEF AnyCase, UpperCase, EventLevels
<1> HIDE DEF AnyCase, UpperCase, processed_files_py_levels
<1>5. CASE f = "tracing_rs"
  BY <1>1, <1>4, <1>5 DEF Transforms, processed_files_tracing_rs
<1>6. CASE f = "opa_json"
  BY <1>1, <1>4, <1>6 DEF Transforms, processed_files_opa_json
<1>7. CASE f = "log4j"
  BY <1>2, <1>4, <1>7 DEF Transforms, processed_files_log4j
<1>8. CASE f = "log4j2"
  BY <1>2, <1>4, <1>8 DEF Transforms, processed_files_log4j2
<1>9. CASE f = "py"
  BY <1>3, <1>9 DEF Transforms, processed_files_py
<1>10. CASE f = "airlift"
  BY <1>2, <1>4, <1>10 DEF Transforms, processed_files_airlift
<1>11. f \in {"tracing_rs", "opa_json", "log4j", "log4j2", "py", "airlift"}
  BY DEF Transforms
<1>12. QED
  BY <1>5, <1>6, <1>7, <1>8, <1>9, <1>10, <1>11

\* The time of an event is its own if it has one, and is said to be missing otherwise.
TimeIsTold(f, e, time) ==
  /\ e.timestamp = "good" => time.value = "timestamp" /\ time.errors = {}
  /\ (time.value = "now" /\ ~(f = "tracing_rs" /\ e.timestamp = "absent"))
        => time.errors \cap {"timestamp", "time"} # {}

\* EventTime tells the time, whatever the transform.
LEMMA EventTimes ==
  ASSUME NEW f \in DOMAIN Transforms, NEW e, e.timestamp \in {"absent", "bad", "good"}
  PROVE  TimeIsTold(f, e, EventTime(Transforms[f], e))
<1> DEFINE t == Transforms[f]
           bad == {x \in {"timestamp"} : e.timestamp = "bad"}
           time == EventTime(t, e)
<1>1. /\ f # "tracing_rs" => t.reports_missing = TRUE
      /\ t.alternative \in BOOLEAN
  BY TransformFacts
<1>2. e.timestamp = "bad" => "timestamp" \in bad
  OBVIOUS
<1> HIDE DEF t, bad
<1>3. CASE e.timestamp = "good"
  <2>1. time = [value |-> "timestamp", errors |-> {}]
    BY <1>3 DEF EventTime
  <2>2. QED
    BY <1>3, <2>1 DEF TimeIsTold, t
<1>4. CASE e.timestamp # "good" /\ t.alternative
  <2>1. time = IF e.time = "good" THEN [value |-> "time", errors |-> bad]
                                  ELSE [value |-> "now", errors |-> bad \cup {"time"}]
    BY <1>4 DEF EventTime, bad
  <2>2. QED
    BY <1>4, <2>1 DEF TimeIsTold, t
<1>5. CASE e.timestamp # "good" /\ ~t.alternative
  <2>1. time = [value |-> "now",
                errors |-> bad \cup {x \in {"timestamp"} : t.reports_missing}]
    BY <1>5 DEF EventTime, bad
  <2>2. e.timestamp = "bad" \/ f # "tracing_rs" => "timestamp" \in time.errors
    BY <1>1, <1>2, <2>1
  <2>3. QED
    BY <1>5, <2>1, <2>2 DEF TimeIsTold, t
<1>6. QED
  BY <1>1, <1>3, <1>4, <1>5

\* What is sent holds the fields of the event, and its errors if there are any.
LEMMA SentFields ==
  ASSUME NEW P, DOMAIN P = {"timestamp", "logger", "level", "message", "errors"}
  PROVE  LET sent == extended_logs(P).event
         IN  /\ sent.timestamp = P.timestamp /\ sent.level = P.level
             /\ sent.message = P.message
             /\ ("errors" \in DOMAIN sent) = (P.errors # {})
             /\ P.errors = IF "errors" \in DOMAIN sent THEN sent.errors ELSE {}
<1> DEFINE dropped == {x \in {"errors"} : P.errors = {}}
           sent == extended_logs(P).event
<1>1. sent = [x \in DOMAIN P \ dropped |-> P[x]]
  BY DEF extended_logs
<1>2. ("errors" \in dropped) = (P.errors = {}) /\ \A x : x \in dropped => x = "errors"
  OBVIOUS
<1> HIDE DEF dropped, sent
<1>3. /\ sent.timestamp = P.timestamp /\ sent.level = P.level
      /\ sent.message = P.message
      /\ ("errors" \in DOMAIN sent) = (P.errors # {})
      /\ P.errors # {} => sent.errors = P.errors
  BY <1>1, <1>2
<1>4. P.errors = IF "errors" \in DOMAIN sent THEN sent.errors ELSE {}
  BY <1>3
<1>5. QED
  BY <1>3, <1>4 DEF sent

\* The message of an event comes first and is followed by the rest.
LEMMA MessageParts ==
  ASSUME NEW first \in BOOLEAN, NEW second \in BOOLEAN
  PROVE  LET m == (IF first THEN <<"message">> ELSE <<>>) \o (IF second THEN <<"rest">> ELSE <<>>)
         IN  /\ first => m[1] = "message"
             /\ second => "rest" \in {m[i] : i \in DOMAIN m}
<1> DEFINE m == (IF first THEN <<"message">> ELSE <<>>) \o (IF second THEN <<"rest">> ELSE <<>>)
<1>1. CASE first /\ second
  <2>1. m = <<"message">> \o <<"rest">>
    BY <1>1
  <2>2. DOMAIN m = 1..2 /\ m[1] = "message" /\ m[2] = "rest"
    BY <2>1
  <2> HIDE DEF m
  <2>3. 2 \in DOMAIN m
    BY <2>2
  <2>4. QED
    BY <2>2, <2>3 DEF m
<1>2. CASE first /\ ~second
  <2>1. m = <<"message">> \o <<>>
    BY <1>2
  <2>2. <<"message">> \in Seq({"message"}) /\ <<"message">>[1] = "message"
    OBVIOUS
  <2>3. <<"message">> \o <<>> = <<"message">>
    BY <2>2, ConcatEmptySeq
  <2> HIDE DEF m
  <2>4. QED
    BY <1>2, <2>1, <2>2, <2>3 DEF m
<1>3. CASE ~first /\ second
  <2>1. m = <<>> \o <<"rest">>
    BY <1>3
  <2> HIDE DEF m
  <2>2. DOMAIN m = 1..1 /\ m[1] = "rest"
    <3>1. <<"rest">> \in Seq({"rest"}) /\ <<"rest">>[1] = "rest" /\ DOMAIN <<"rest">> = 1..1
      OBVIOUS
    <3>2. <<>> \o <<"rest">> = <<"rest">>
      BY <3>1, ConcatEmptySeq
    <3>3. QED
      BY <2>1, <3>1, <3>2
  <2>3. 1 \in DOMAIN m
    BY <2>2
  <2>4. QED
    BY <1>3, <2>2, <2>3 DEF m
<1>4. QED
  BY <1>1, <1>2, <1>3

\* An event that is sent keeps its content.
LEMMA EventsAreKept ==
  ASSUME NEW f \in DOMAIN Transforms, NEW e \in EventsRead,
         logged = [what |-> "event", format |-> f, event |-> e,
                   sent |-> extended_logs(Transform(Transforms[f], e))]
  PROVE  EventsKeepContent
<1> DEFINE t == Transforms[f]
           P == Transform(t, e)
           sent == logged.sent.event
           faults == IF "errors" \in DOMAIN sent THEN sent.errors ELSE {}
<1>1. /\ logged.event = e /\ logged.format = f
      /\ logged.sent = extended_logs(P)
  OBVIOUS
<1>2. ASSUME DOMAIN P = {"timestamp", "logger", "level", "message", "errors"}
      PROVE  /\ sent.timestamp = P.timestamp /\ sent.level = P.level
             /\ sent.message = P.message
             /\ ("errors" \in DOMAIN sent) = (P.errors # {}) /\ faults = P.errors
  <2> HIDE DEF P
  <2>1. QED
    BY <1>1, <1>2, SentFields
<1>3. CASE ~Readable(t, e)
  <2>1. P = UnreadableEvent
    BY <1>3 DEF Transform
  <2>2. /\ DOMAIN P = {"timestamp", "logger", "level", "message", "errors"}
        /\ P.message = <<"raw">> /\ P.errors # {}
    <3> DEFINE empty == ""
               raw == <<"raw">>
    <3>1. UnreadableEvent = [timestamp |-> "now", logger |-> empty, level |-> "INFO",
                             message |-> raw, errors |-> {"event"}]
      BY DEF UnreadableEvent
    <3> HIDE DEF P, empty, raw
    <3>2. /\ DOMAIN P = {"timestamp", "logger", "level", "message", "errors"}
          /\ P.message = raw /\ P.errors = {"event"}
      BY <2>1, <3>1
    <3>3. QED
      BY <3>2 DEF raw
  <2>3. sent.message = <<"raw">> /\ faults # {}
    <3> HIDE DEF P, sent, faults
    <3>1. QED
      BY <1>2, <2>2
  <2> HIDE DEF P, sent, faults
  <2>4. QED
    BY <1>1, <1>3, <2>3 DEF EventsKeepContent, sent, faults
<1>4. CASE Readable(t, e)
  <2> DEFINE known == e.level \in DOMAIN t.levels
             time == EventTime(t, e)
             message == (IF e.message = "good" THEN <<"message">> ELSE <<>>)
                          \o (IF e.rest /\ t.rest THEN <<"rest">> ELSE <<>>)
             errors == time.errors \cup {x \in {"level"} : ~known}
                         \cup {x \in {"tags"} : e.shape = "among other tags"}
                         \cup {x \in {"logger", "message"} : e[x] # "good"}
  <2>1. /\ e.timestamp \in {"absent", "bad", "good"} /\ e.rest \in BOOLEAN
        /\ DOMAIN e = {"shape", "timestamp", "time", "logger", "level", "message", "rest"}
    BY <1>4 DEF Readable, EventsRead
  <2>2. P = [timestamp |-> time.value,
             logger |-> IF e.logger = "good" THEN "logger" ELSE "",
             level |-> IF known THEN t.levels[e.level] ELSE "INFO",
             message |-> message, errors |-> errors]
    BY <1>4 DEF Transform, ParsedEvent
  <2>3. /\ DOMAIN P = {"timestamp", "logger", "level", "message", "errors"}
        /\ P.timestamp = time.value /\ P.message = message /\ P.errors = errors
        /\ P.level = IF known THEN t.levels[e.level] ELSE "INFO"
    <3> HIDE DEF P, time, message, errors, known, t
    <3>1. QED
      BY <2>2
  <2>4. /\ sent.timestamp = time.value /\ sent.message = message /\ faults = errors
        /\ sent.level = IF known THEN t.levels[e.level] ELSE "INFO"
        /\ ("errors" \in DOMAIN sent) = (errors # {})
    <3> HIDE DEF P, sent, faults, time, message, errors, known, t
    <3>1. QED
      BY <1>2, <2>3
  <2>5. /\ \A l \in DOMAIN t.levels : t.levels[l] \in EventLevels
        /\ f # "py" => "WARN" \in DOMAIN t.levels
        /\ t.rest = (f # "py")
    BY TransformFacts
  <2>6. TimeIsTold(f, e, time)
    BY <2>1, EventTimes
  <2>7. /\ e.message = "good" => sent.message[1] = "message"
        /\ (e.rest /\ f # "py") => "rest" \in {sent.message[i] : i \in DOMAIN sent.message}
    <3>1. (e.message = "good") \in BOOLEAN /\ (e.rest /\ t.rest) \in BOOLEAN
      OBVIOUS
    <3>2. /\ e.message = "good" => message[1] = "message"
          /\ (e.rest /\ t.rest) => "rest" \in {message[i] : i \in DOMAIN message}
      BY <3>1, MessageParts
    <3> HIDE DEF message, sent, t
    <3>3. QED
      BY <2>4, <2>5, <3>2
  <2>8. e.timestamp = "good" => sent.timestamp = "timestamp"
    BY <2>4, <2>6 DEF TimeIsTold
  <2>9. sent.level \in EventLevels
    <3> HIDE DEF sent, t
    <3>1. QED
      BY <2>4, <2>5 DEF EventLevels
  <2>10. time.errors \subseteq faults /\ (~known => "level" \in faults)
    <3> HIDE DEF faults, time, known
    <3>1. QED
      BY <2>4
  <2>11. (sent.timestamp = "now" /\ ~(f = "tracing_rs" /\ e.timestamp = "absent"))
            => faults \cap {"timestamp", "time"} # {}
    <3> HIDE DEF faults, sent, time
    <3>1. QED
      BY <2>4, <2>6, <2>10 DEF TimeIsTold
  <2>12. (e.shape = "object" /\ e.timestamp = "good" /\ e.logger = "good" /\ e.message = "good"
            /\ e.level = "WARN" /\ f # "py") => "errors" \notin DOMAIN sent
    <3>1. ASSUME e.shape = "object", e.timestamp = "good", e.logger = "good",
                 e.message = "good", e.level = "WARN", f # "py"
          PROVE  errors = {}
      <4>1. time.errors = {} /\ known
        BY <2>5, <2>6, <3>1 DEF TimeIsTold
      <4>2. e["logger"] = "good" /\ e["message"] = "good"
        BY <3>1
      <4> HIDE DEF time, known
      <4>3. QED
        BY <3>1, <4>1, <4>2
    <3> HIDE DEF errors, sent
    <3>2. QED
      BY <2>4, <3>1
  <2> HIDE DEF sent, faults, P, time, message, errors
  <2>13. QED
    BY <1>1, <1>4, <2>7, <2>8, <2>9, <2>10, <2>11, <2>12 DEF EventsKeepContent, sent, faults
<1>5. QED
  BY <1>3, <1>4

\* Levels are compared by their ranks.
Ranks == [TRACE |-> 1, DEBUG |-> 2, INFO |-> 3, WARN |-> 4, ERROR |-> 5, FATAL |-> 6, NONE |-> 7]

\* The comparison of two levels.
LEMMA LevelOrder ==
  /\ \A l \in AllLevels : Ranks[l] \in 1..7 /\ (l # "NONE" => Ranks[l] < 7)
  /\ \A l, k \in AllLevels :
       AtLeast(l, k) \in BOOLEAN /\ (AtLeast(l, k) <=> Ranks[l] >= Ranks[k])
<1>1. \A l \in AllLevels : LevelRank(l) = Ranks[l]
  BY LevelRanks DEF AllLevels, EventLevels, Ranks
<1>2. \A l \in AllLevels : Ranks[l] \in 1..7 /\ (l # "NONE" => Ranks[l] < 7)
  BY DEF AllLevels, EventLevels, Ranks
<1>3. QED
  BY <1>1, <1>2 DEF AtLeast

\* The names of the levels that a framework writes are read back.
LEMMA LevelsAreReadBack == LevelsRoundTrip
<1> DEFINE arrives(l, f, literal) ==
             literal \in DOMAIN Transforms[f].levels /\ AtLeast(l, Transforms[f].levels[literal])
           coarse(f, literal) ==
             literal \in DOMAIN Transforms[f].levels /\ Transforms[f].levels[literal] \in EventLevels
<1>1. /\ Transforms["log4j"].levels = UpperCase /\ Transforms["log4j2"].levels = UpperCase
      /\ Transforms["py"].levels = processed_files_py_levels
      /\ Transforms["opa_json"].levels = AnyCase
  <2> HIDE DEF UpperCase, processed_files_py_levels, AnyCase
  <2>1. QED
    BY DEF Transforms, processed_files_log4j, processed_files_log4j2, processed_files_py,
           processed_files_opa_json
<1>2. ASSUME NEW l \in EventLevels
      PROVE  /\ UpperCase[to_log4j_literal(l)] = l
             /\ to_logback_literal(l) \in DOMAIN UpperCase
             /\ AtLeast(l, UpperCase[to_logback_literal(l)])
  <2>1. UpperCase[to_log4j_literal(l)] = l
    BY DEF UpperCase, to_log4j_literal, EventLevels
  <2>2. /\ to_logback_literal(l) \in EventLevels
        /\ to_logback_literal(l) = IF l = "FATAL" THEN "ERROR" ELSE l
    BY DEF to_logback_literal, EventLevels
  <2>3. Ranks[l] >= Ranks[to_logback_literal(l)]
    BY <2>2, LevelOrder DEF Ranks, AllLevels
  <2>4. AtLeast(l, to_logback_literal(l))
    BY <2>2, <2>3, LevelOrder DEF AllLevels
  <2>5. QED
    BY <2>1, <2>2, <2>4 DEF UpperCase
<1>3. ASSUME NEW l \in EventLevels
      PROVE  /\ to_python_expression(l) \in DOMAIN processed_files_py_levels
             /\ processed_files_py_levels[to_python_expression(l)] \in EventLevels
             /\ l # "TRACE" => processed_files_py_levels[to_python_expression(l)] = l
  BY DEF to_python_expression, processed_files_py_levels, EventLevels
<1>4. ASSUME NEW l \in EventLevels
      PROVE  /\ to_opa_literal(l) \in DOMAIN AnyCase
             /\ AnyCase[to_opa_literal(l)] \in EventLevels
  BY DEF to_opa_literal, AnyCase, EventLevels
<1>5. ASSUME NEW l \in EventLevels
      PROVE  /\ \A f \in {"log4j", "log4j2"} : Transforms[f].levels[to_log4j_literal(l)] = l
             /\ arrives(l, "log4j", to_logback_literal(l))
             /\ coarse("py", to_python_expression(l)) /\ coarse("opa_json", to_opa_literal(l))
             /\ l \in {"DEBUG", "INFO", "WARN", "ERROR", "FATAL"} =>
                     Transforms["py"].levels[to_python_expression(l)] = l
  <2> HIDE DEF UpperCase, processed_files_py_levels, AnyCase
  <2>1. \A f \in {"log4j", "log4j2"} : Transforms[f].levels[to_log4j_literal(l)] = l
    BY <1>1, <1>2
  <2>2. arrives(l, "log4j", to_logback_literal(l))
    BY <1>1, <1>2
  <2>3. coarse("py", to_python_expression(l)) /\ coarse("opa_json", to_opa_literal(l))
    BY <1>1, <1>3, <1>4
  <2>4. l \in {"DEBUG", "INFO", "WARN", "ERROR", "FATAL"} =>
          Transforms["py"].levels[to_python_expression(l)] = l
    BY <1>1, <1>3
  <2>5. QED
    BY <2>1, <2>2, <2>3, <2>4
<1>6. QED
  BY <1>5 DEF LevelsRoundTrip

\* What is configured for a container.
Configured(c) ==
  [what |-> "config", config |-> c,
   log4j |-> create_log4j_config(c, 10), log4j2 |-> create_log4j2_config(c, 10),
   logback |-> create_logback_config(c, 10), shell |-> capture_shell_output(c)]

\* The level that decides about the events of a logger.
LevelOf(config, logger) ==
  IF logger \in DOMAIN config.loggers THEN config.loggers[logger] ELSE root_level(config)

\* The levels of a configuration are levels.
LEMMA ConfiguredLevels ==
  ASSUME NEW c \in LogConfigs
  PROVE  /\ root_level(c) \in AllLevels /\ LevelOf(c, "ROOT") = root_level(c)
         /\ \A logger : LevelOf(c, logger) \in AllLevels
         /\ OrInfo(c.console) \in AllLevels /\ OrInfo(c.file) \in AllLevels
         /\ \A logger \in DOMAIN c.loggers : c.loggers[logger] \in AllLevels
<1>1. /\ c.loggers \in [DOMAIN c.loggers -> AllLevels]
      /\ c.console \in AllLevels \cup {None} /\ c.file \in AllLevels \cup {None}
  BY LogPipelineAssumption
<1>2. "INFO" \in AllLevels
  BY DEF AllLevels, EventLevels
<1> HIDE DEF AllLevels
<1>3. root_level(c) \in AllLevels
  BY <1>1, <1>2 DEF root_level
<1>4. LevelOf(c, "ROOT") = root_level(c)
  BY DEF LevelOf, root_level
<1>5. \A logger \in DOMAIN c.loggers : c.loggers[logger] \in AllLevels
  BY <1>1
<1>6. \A logger : LevelOf(c, logger) \in AllLevels
  BY <1>3, <1>5 DEF LevelOf
<1>7. OrInfo(c.console) \in AllLevels /\ OrInfo(c.file) \in AllLevels
  BY <1>1, <1>2 DEF OrInfo
<1>8. QED
  BY <1>3, <1>4, <1>5, <1>6, <1>7

\* A generated file lets the events pass that the literals of its levels let pass.
LetsPass(literal, level) == literal # "OFF" /\ AtLeast(level, literal)

\* For the literals of log4j and logback, these are the events at or above the level.
LEMMA LiteralsPass ==
  ASSUME NEW level \in EventLevels, NEW l \in AllLevels
  PROVE  /\ LetsPass(to_log4j_literal(l), level) <=> AtLeast(level, l)
         /\ level # "FATAL" =>
              (LetsPass(to_logback_literal(l), level)
                <=> AtLeast(IF level = "ERROR" THEN "FATAL" ELSE level, l))
<1>1. level \in AllLevels /\ level # "NONE"
  BY DEF AllLevels, EventLevels
<1>2. CASE l = "NONE"
  <2>1. to_log4j_literal(l) = "OFF" /\ to_logback_literal(l) = "OFF"
    BY <1>2 DEF to_log4j_literal, to_logback_literal
  <2>2. \A k \in EventLevels : k \in AllLevels /\ k # "NONE"
    BY DEF AllLevels, EventLevels
  <2>3. \A k \in EventLevels : ~AtLeast(k, l)
    <3>1. Ranks["NONE"] = 7
      BY DEF Ranks
    <3>2. ASSUME NEW k \in EventLevels PROVE ~AtLeast(k, l)
      <4>1. k \in AllLevels /\ Ranks[k] \in 1..7 /\ Ranks[k] < 7
        BY <2>2, LevelOrder
      <4>2. ~(Ranks[k] >= Ranks[l])
        BY <1>2, <3>1, <4>1
      <4>3. AtLeast(k, l) <=> Ranks[k] >= Ranks[l]
        BY <4>1, LevelOrder
      <4>4. QED
        BY <4>2, <4>3
    <3>3. QED
      BY <3>2
  <2>4. "FATAL" \in EventLevels
    BY DEF EventLevels
  <2>5. QED
    BY <2>1, <2>3, <2>4 DEF LetsPass
<1>3. CASE l # "NONE"
  <2>1. l # "OFF" /\ to_log4j_literal(l) = l
    BY <1>3 DEF to_log4j_literal, AllLevels, EventLevels
  <2>2. LetsPass(to_log4j_literal(l), level) <=> AtLeast(level, l)
    BY <2>1 DEF LetsPass
  <2>3. ASSUME level # "FATAL"
        PROVE  LetsPass(to_logback_literal(l), level)
                 <=> AtLeast(IF level = "ERROR" THEN "FATAL" ELSE level, l)
    <3>1. CASE l = "FATAL"
      <4>1. to_logback_literal(l) = "ERROR" /\ "ERROR" \in AllLevels /\ "FATAL" \in AllLevels
        BY <3>1 DEF to_logback_literal, AllLevels, EventLevels
      <4>2. AtLeast(level, "ERROR") <=> level = "ERROR"
        <5>1. Ranks[level] >= Ranks["ERROR"] <=> level = "ERROR"
          BY <2>3 DEF Ranks, EventLevels
        <5>2. QED
          BY <1>1, <4>1, <5>1, LevelOrder
      <4>3. AtLeast("FATAL", "FATAL") /\ (level # "ERROR" => ~AtLeast(level, "FATAL"))
        <5>1. level # "ERROR" => ~(Ranks[level] >= Ranks["FATAL"])
          BY <2>3 DEF Ranks, EventLevels
        <5>2. Ranks["FATAL"] >= Ranks["FATAL"]
          BY DEF Ranks
        <5>3. QED
          BY <1>1, <4>1, <5>1, <5>2, LevelOrder
      <4>4. QED
        BY <3>1, <4>1, <4>2, <4>3 DEF LetsPass
    <3>2. CASE l # "FATAL"
      <4>1. to_logback_literal(l) = l /\ "FATAL" \in AllLevels /\ "ERROR" \in AllLevels
        BY <1>3, <3>2 DEF to_logback_literal, AllLevels, EventLevels
      <4>2. AtLeast("ERROR", l) /\ AtLeast("FATAL", l)
        <5>1. Ranks["ERROR"] >= Ranks[l] /\ Ranks["FATAL"] >= Ranks[l]
          BY <1>3, <3>2 DEF Ranks, AllLevels, EventLevels
        <5>2. QED
          BY <4>1, <5>1, LevelOrder
      <4>3. QED
        BY <2>1, <4>1, <4>2 DEF LetsPass
    <3>3. QED
      BY <3>1, <3>2
  <2>4. QED
    BY <2>2, <2>3
<1>4. QED
  BY <1>2, <1>3

\* What passes a generated file, for the two levels that decide about it.
LEMMA PassesGenerated ==
  ASSUME NEW c \in LogConfigs, NEW literal \in [AllLevels -> {"OFF"} \cup AllLevels],
         NEW size, NEW logger, NEW level
  PROVE  LET file == GeneratedConfig(c, literal, size)
         IN  /\ Passes(file, logger, level, file.console) =
                  (/\ LetsPass(literal[LevelOf(c, logger)], level)
                   /\ LetsPass(literal[OrInfo(c.console)], level))
             /\ Passes(file, logger, level, file.file) =
                  (/\ LetsPass(literal[LevelOf(c, logger)], level)
                   /\ LetsPass(literal[OrInfo(c.file)], level))
<1> DEFINE file == GeneratedConfig(c, literal, size)
<1>1. /\ file.root = literal[root_level(c)]
      /\ file.loggers = [n \in DOMAIN c.loggers \ {"ROOT"} |-> literal[c.loggers[n]]]
      /\ file.console = literal[OrInfo(c.console)] /\ file.file = literal[OrInfo(c.file)]
  BY DEF GeneratedConfig
<1> HIDE DEF file
<1>2. (IF logger \in DOMAIN file.loggers THEN file.loggers[logger] ELSE file.root)
        = literal[LevelOf(c, logger)]
  <2>1. CASE logger = "ROOT"
    BY <1>1, <2>1, ConfiguredLevels
  <2>2. CASE logger # "ROOT"
    BY <1>1, <2>2 DEF LevelOf
  <2>3. QED
    BY <2>1, <2>2
<1>3. \A appender : Passes(file, logger, level, appender) =
                      (LetsPass(literal[LevelOf(c, logger)], level) /\ LetsPass(appender, level))
  BY <1>2 DEF Passes, LetsPass
<1>4. QED
  BY <1>1, <1>3 DEF file

\* An event is wanted if its level is at or above the level of its logger and of the appender.
LEMMA WantedLevels ==
  ASSUME NEW c \in LogConfigs, NEW logger, NEW level \in AllLevels,
         NEW appender, OrInfo(appender) \in AllLevels
  PROVE  /\ Wanted(c, logger, level, appender) \in BOOLEAN
         /\ Wanted(c, logger, level, appender)
              <=> (AtLeast(level, LevelOf(c, logger)) /\ AtLeast(level, OrInfo(appender)))
<1>1. LevelOf(c, logger) \in AllLevels
  BY ConfiguredLevels
<1>2. QED
  BY <1>1, LevelOrder DEF Wanted, LevelOf

\* The frameworks show and write the same events.
LEMMA FrameworksDoAgree ==
  ASSUME NEW c \in LogConfigs, logged = Configured(c)
  PROVE  FrameworksAgree
<1>1. /\ logged.config = c /\ logged.log4j = create_log4j_config(c, 10)
      /\ logged.log4j2 = create_log4j2_config(c, 10)
      /\ logged.logback = create_logback_config(c, 10)
  BY DEF Configured
<1> DEFINE logback == [l \in AllLevels |-> to_logback_literal(l)]
<1>2. /\ Log4jLiterals \in [AllLevels -> {"OFF"} \cup AllLevels]
      /\ \A l \in AllLevels : Log4jLiterals[l] = to_log4j_literal(l)
  BY DEF Log4jLiterals, to_log4j_literal, AllLevels, EventLevels
<1>3. /\ logback \in [AllLevels -> {"OFF"} \cup AllLevels]
      /\ \A l \in AllLevels : logback[l] = to_logback_literal(l)
  BY DEF to_logback_literal, AllLevels, EventLevels
<1>4. /\ logged.log4j = GeneratedConfig(c, Log4jLiterals, 10)
      /\ logged.log4j2 = GeneratedConfig(c, Log4jLiterals, 10)
      /\ logged.logback = GeneratedConfig(c, logback, 10)
  BY <1>1 DEF create_log4j_config, create_log4j2_config, create_logback_config
<1> HIDE DEF logback
<1>5. ASSUME NEW logger, NEW level \in EventLevels
      PROVE  LET seen == IF level = "ERROR" THEN "FATAL" ELSE level
             IN  /\ Wanted(c, logger, level, c.console) = Passes(logged.log4j, logger, level, logged.log4j.console)
                 /\ Wanted(c, logger, level, c.file) = Passes(logged.log4j2, logger, level, logged.log4j2.file)
                 /\ level # "FATAL" => (Wanted(c, logger, seen, c.file)
                                         = Passes(logged.logback, logger, level, logged.logback.file))
  <2> DEFINE seen == IF level = "ERROR" THEN "FATAL" ELSE level
             own == LevelOf(c, logger)
             console == OrInfo(c.console)
             file == OrInfo(c.file)
  <2>1. level \in AllLevels /\ seen \in AllLevels
    BY DEF AllLevels, EventLevels
  <2>2. own \in AllLevels /\ console \in AllLevels /\ file \in AllLevels
    BY ConfiguredLevels
  <2>3. /\ Wanted(c, logger, level, c.console) \in BOOLEAN /\ Wanted(c, logger, level, c.file) \in BOOLEAN
        /\ Wanted(c, logger, seen, c.file) \in BOOLEAN
        /\ Wanted(c, logger, level, c.console) <=> (AtLeast(level, own) /\ AtLeast(level, console))
        /\ Wanted(c, logger, level, c.file) <=> (AtLeast(level, own) /\ AtLeast(level, file))
        /\ Wanted(c, logger, seen, c.file) <=> (AtLeast(seen, own) /\ AtLeast(seen, file))
    <3> HIDE DEF seen
    <3>1. QED
      BY <2>1, <2>2, WantedLevels
  <2>4. /\ Passes(logged.log4j, logger, level, logged.log4j.console) =
             (/\ LetsPass(Log4jLiterals[own], level) /\ LetsPass(Log4jLiterals[console], level))
        /\ Passes(logged.log4j2, logger, level, logged.log4j2.file) =
             (/\ LetsPass(Log4jLiterals[own], level) /\ LetsPass(Log4jLiterals[file], level))
    <3> DEFINE generated == GeneratedConfig(c, Log4jLiterals, 10)
    <3>1. /\ Passes(generated, logger, level, generated.console) =
               (/\ LetsPass(Log4jLiterals[own], level) /\ LetsPass(Log4jLiterals[console], level))
          /\ Passes(generated, logger, level, generated.file) =
               (/\ LetsPass(Log4jLiterals[own], level) /\ LetsPass(Log4jLiterals[file], level))
      BY <1>2, PassesGenerated
    <3> HIDE DEF generated, own, console, file
    <3>2. QED
      BY <1>4, <3>1 DEF generated
  <2>5. Passes(logged.logback, logger, level, logged.logback.file) =
          (/\ LetsPass(logback[own], level) /\ LetsPass(logback[file], level))
    <3> DEFINE generated == GeneratedConfig(c, logback, 10)
    <3>1. Passes(generated, logger, level, generated.file) =
            (/\ LetsPass(logback[own], level) /\ LetsPass(logback[file], level))
      BY <1>3, PassesGenerated
    <3> HIDE DEF generated, own, file
    <3>2. QED
      BY <1>4, <3>1 DEF generated
  <2>6. /\ LetsPass(Log4jLiterals[own], level) <=> AtLeast(level, own)
        /\ LetsPass(Log4jLiterals[console], level) <=> AtLeast(level, console)
        /\ LetsPass(Log4jLiterals[file], level) <=> AtLeast(level, file)
    BY <1>2, <2>2, LiteralsPass
  <2>7. level # "FATAL" => /\ LetsPass(logback[own], level) <=> AtLeast(seen, own)
                           /\ LetsPass(logback[file], level) <=> AtLeast(seen, file)
    BY <1>3, <2>2, LiteralsPass
  <2> HIDE DEF seen, own, console, file
  <2>8. Wanted(c, logger, level, c.console) = Passes(logged.log4j, logger, level, logged.log4j.console)
    BY <2>3, <2>4, <2>6
  <2>9. Wanted(c, logger, level, c.file) = Passes(logged.log4j2, logger, level, logged.log4j2.file)
    BY <2>3, <2>4, <2>6
  <2>10. level # "FATAL" => (Wanted(c, logger, seen, c.file)
                              = Passes(logged.logback, logger, level, logged.logback.file))
    BY <2>3, <2>5, <2>7
  <2>11. QED
    BY <2>8, <2>9, <2>10 DEF seen
<1>6. QED
  BY <1>1, <1>5 DEF FrameworksAgree

\* An event passes the higher of two levels if it passes both.
LEMMA HigherLevels ==
  ASSUME NEW a \in AllLevels, NEW b \in AllLevels, NEW level \in AllLevels
  PROVE  /\ HigherLevel(a, b) \in AllLevels
         /\ AtLeast(level, HigherLevel(a, b)) <=> (AtLeast(level, a) /\ AtLeast(level, b))
<1>1. /\ Ranks[a] \in 1..7 /\ Ranks[b] \in 1..7 /\ Ranks[level] \in 1..7
      /\ AtLeast(a, b) <=> Ranks[a] >= Ranks[b]
      /\ AtLeast(level, a) <=> Ranks[level] >= Ranks[a]
      /\ AtLeast(level, b) <=> Ranks[level] >= Ranks[b]
  BY LevelOrder
<1>2. CASE AtLeast(a, b)
  <2>1. HigherLevel(a, b) = a
    BY <1>2 DEF HigherLevel
  <2>2. AtLeast(level, a) => AtLeast(level, b)
    BY <1>1, <1>2
  <2>3. QED
    BY <2>1, <2>2
<1>3. CASE ~AtLeast(a, b)
  <2>1. HigherLevel(a, b) = b
    BY <1>3 DEF HigherLevel
  <2>2. AtLeast(level, b) => AtLeast(level, a)
    BY <1>1, <1>3
  <2>3. QED
    BY <2>1, <2>2
<1>4. QED
  BY <1>2, <1>3

\* Vector emits its own events from the level of the root logger on.
LEMMA VectorDoesEmit ==
  ASSUME NEW c \in LogConfigs, NEW l \in EventLevels \ {"FATAL"}, AtLeast(l, root_level(c))
  PROVE  VectorEmits(c, l)
<1> DEFINE root == root_level(c)
<1>1. root \in AllLevels /\ l \in AllLevels
  BY ConfiguredLevels DEF AllLevels
<1>2. Ranks[l] >= Ranks[root]
  BY <1>1, LevelOrder
<1>3. root \in EventLevels \ {"FATAL"}
  <2>1. Ranks[l] <= 5 /\ Ranks["FATAL"] = 6 /\ Ranks["NONE"] = 7
    BY DEF Ranks, EventLevels
  <2>2. root # "FATAL" /\ root # "NONE"
    <3> HIDE DEF root
    <3>1. QED
      BY <1>1, <1>2, <2>1, LevelOrder
  <2>3. QED
    BY <1>1, <2>2 DEF AllLevels
<1>4. \A k \in EventLevels : to_vector_literal(k) # "off"
  BY DEF to_vector_literal, EventLevels
<1> HIDE DEF root
<1>5. to_vector_literal(root) # "off" /\ \E k \in EventLevels :
         to_vector_literal(k) = to_vector_literal(root) /\ AtLeast(l, k)
  BY <1>3, <1>4, AtLeast(l, root) DEF root
<1>6. QED
  BY <1>5 DEF VectorEmits, root

\* The output of scripts and Vector's own events obey the configuration.
LEMMA CapturedIsConfigured ==
  ASSUME NEW c \in LogConfigs, logged = Configured(c)
  PROVE  CapturedAsConfigured
<1> DEFINE shell == logged.shell
           root == root_level(c)
           console == OrInfo(c.console)
           file == OrInfo(c.file)
<1>1. logged.config = c /\ logged.shell = capture_shell_output(c)
  BY DEF Configured
<1>2. /\ root \in AllLevels /\ console \in AllLevels /\ file \in AllLevels
      /\ LevelOf(c, "ROOT") = root
  BY ConfiguredLevels
<1>3. "INFO" \in AllLevels /\ "ERROR" \in AllLevels
  BY DEF AllLevels, EventLevels
<1>4. ASSUME NEW level \in AllLevels, NEW appender, OrInfo(appender) \in AllLevels
      PROVE  AtLeast(level, ShellLevel(c, appender)) = Wanted(c, "ROOT", level, appender)
  <2>1. /\ ShellLevel(c, appender) \in AllLevels
        /\ AtLeast(level, ShellLevel(c, appender)) <=>
             (AtLeast(level, root) /\ AtLeast(level, OrInfo(appender)))
    BY <1>2, <1>4, HigherLevels DEF ShellLevel
  <2>2. AtLeast(level, ShellLevel(c, appender)) \in BOOLEAN
    BY <2>1, LevelOrder
  <2>3. /\ Wanted(c, "ROOT", level, appender) \in BOOLEAN
        /\ Wanted(c, "ROOT", level, appender)
             <=> (AtLeast(level, root) /\ AtLeast(level, OrInfo(appender)))
    <3> HIDE DEF root
    <3>1. QED
      BY <1>2, <1>4, WantedLevels
  <2>4. QED
    BY <2>1, <2>2, <2>3
<1>5. /\ shell.stdout = redirect(c, "INFO") /\ shell.stderr = redirect(c, "ERROR")
      /\ shell.mkdir = AtLeast("ERROR", ShellLevel(c, c.file))
  BY <1>1 DEF capture_shell_output
<1> HIDE DEF shell
<1>6. ASSUME NEW s \in {"stdout", "stderr"}
      PROVE  /\ shell[s].output = Wanted(c, "ROOT", CapturedLevel[s], c.console)
             /\ shell[s].log_file = Wanted(c, "ROOT", CapturedLevel[s], c.file)
             /\ shell[s].log_file => shell.mkdir
  <2>1. CapturedLevel[s] \in AllLevels /\ shell[s] = redirect(c, CapturedLevel[s])
    BY <1>3, <1>5 DEF CapturedLevel
  <2>2. /\ shell[s].output = AtLeast(CapturedLevel[s], ShellLevel(c, c.console))
        /\ shell[s].log_file = AtLeast(CapturedLevel[s], ShellLevel(c, c.file))
    BY <2>1 DEF redirect
  <2>3. /\ shell[s].output = Wanted(c, "ROOT", CapturedLevel[s], c.console)
        /\ shell[s].log_file = Wanted(c, "ROOT", CapturedLevel[s], c.file)
    <3>1. /\ AtLeast(CapturedLevel[s], ShellLevel(c, c.console))
               = Wanted(c, "ROOT", CapturedLevel[s], c.console)
          /\ AtLeast(CapturedLevel[s], ShellLevel(c, c.file))
               = Wanted(c, "ROOT", CapturedLevel[s], c.file)
      BY <1>2, <1>4, <2>1
    <3>2. QED
      BY <2>2, <3>1
  <2>4. shell[s].log_file => shell.mkdir
    <3>1. ShellLevel(c, c.file) \in AllLevels
      BY <1>2, <1>3, HigherLevels DEF ShellLevel
    <3>2. Ranks[CapturedLevel[s]] <= Ranks["ERROR"] /\ CapturedLevel[s] \in AllLevels
      BY <2>1 DEF CapturedLevel, Ranks
    <3>3. AtLeast(CapturedLevel[s], ShellLevel(c, c.file)) => AtLeast("ERROR", ShellLevel(c, c.file))
      BY <1>3, <3>1, <3>2, LevelOrder
    <3>4. QED
      BY <1>5, <2>2, <3>3
  <2>5. QED
    BY <2>3, <2>4
<1>7. ASSUME NEW l \in EventLevels \ {"FATAL"}
      PROVE  /\ vector_log_level_filter(c, l) = AtLeast(l, OrInfo(c.file))
             /\ Wanted(c, "ROOT", l, c.file) => VectorEmits(c, l)
  <2>1. l \in AllLevels
    BY DEF AllLevels
  <2>2. vector_log_level_filter(c, l) = AtLeast(l, file)
    <3>1. CASE file \in {"FATAL", "NONE"}
      <4>1. Ranks[l] <= 5 /\ Ranks["FATAL"] = 6 /\ Ranks["NONE"] = 7
        BY DEF Ranks, EventLevels
      <4>2. AtLeast(l, file) = FALSE
        <5> HIDE DEF file
        <5>1. AtLeast(l, file) \in BOOLEAN /\ (AtLeast(l, file) <=> Ranks[l] >= Ranks[file])
          BY <1>2, <2>1, LevelOrder
        <5>2. Ranks[l] \in 1..7 /\ ~(Ranks[l] >= Ranks[file])
          BY <2>1, <3>1, <4>1, LevelOrder
        <5>3. QED
          BY <5>1, <5>2
      <4>3. QED
        BY <3>1, <4>2 DEF vector_log_level_filter
    <3>2. CASE file \notin {"FATAL", "NONE"}
      BY <3>2 DEF vector_log_level_filter
    <3>3. QED
      BY <3>1, <3>2
  <2>3. Wanted(c, "ROOT", l, c.file) => AtLeast(l, root)
    BY <1>2, <2>1, WantedLevels
  <2>4. QED
    BY <2>2, <2>3, VectorDoesEmit
<1>8. QED
  BY <1>1, <1>6, <1>7 DEF CapturedAsConfigured, shell

\* The recursive definition of the sums of sizes has its meaning.
LEMMA SumsOfStep ==
  ASSUME NEW sizes, NEW N \in Nat, sizes \in [1..N -> Nat], Len(sizes) = N
  PROVE  /\ SumsOf(sizes) \in [0..N -> Nat] /\ SumsOf(sizes)[0] = 0
         /\ \A n \in 1..N : SumsOf(sizes)[n] = SumsOf(sizes)[n - 1] + sizes[n]
<1> DEFINE next == [n \in 1..N |-> [x \in Nat |-> x + sizes[n]]]
           Body(g) == [n \in 0..N |-> IF n = 0 THEN 0 ELSE g[n - 1] + sizes[n]]
           done == SumsOf(sizes)
<1>1. done = CHOOSE g : g = Body(g)
  BY DEF SumsOf
<1> HIDE DEF done
<1>2. \A n \in 1..N : sizes[n] \in Nat
  OBVIOUS
<1>3. next \in Steps(N, Nat)
  BY <1>2 DEF Steps
<1>4. PICK f : Iterates(f, N, Nat, 0, next)
  <2> HIDE DEF next
  <2>1. 0 \in Nat
    OBVIOUS
  <2>2. QED
    BY <1>3, <2>1, IterationExists
<1>5. f = Body(f)
  <2>1. ASSUME NEW n \in 0..N
        PROVE  f[n] = IF n = 0 THEN 0 ELSE f[n - 1] + sizes[n]
    <3>1. CASE n = 0
      BY <1>4, <3>1 DEF Iterates
    <3>2. CASE n # 0
      <4>1. n \in 1..N /\ n - 1 \in 0..N
        BY <3>2
      <4>2. f[n - 1] \in Nat /\ f[n] = next[n][f[n - 1]]
        BY <1>4, <4>1 DEF Iterates
      <4>3. QED
        BY <3>2, <4>1, <4>2
    <3>3. QED
      BY <3>1, <3>2
  <2>2. f = [n \in 0..N |-> f[n]]
    BY <1>4 DEF Iterates
  <2>3. QED
    BY <2>1, <2>2
<1>6. done = Body(done)
  <2> HIDE DEF Body
  <2>1. QED
    BY <1>1, <1>5
<1>7. /\ done = [n \in 0..N |-> done[n]] /\ done[0] = 0
      /\ \A n \in 1..N : done[n] = done[n - 1] + sizes[n]
  <2>1. ASSUME NEW g, g = Body(g)
        PROVE  /\ g = [n \in 0..N |-> g[n]] /\ g[0] = 0
               /\ \A n \in 1..N : g[n] = g[n - 1] + sizes[n]
    <3>1. \A n \in 0..N : g[n] = IF n = 0 THEN 0 ELSE g[n - 1] + sizes[n]
      BY <2>1
    <3>2. g = [n \in 0..N |-> g[n]]
      BY <2>1
    <3>3. 0 \in 0..N /\ \A n \in 1..N : n \in 0..N /\ n # 0
      OBVIOUS
    <3> HIDE DEF Body
    <3>4. QED
      BY <3>1, <3>2, <3>3
  <2> HIDE DEF Body
  <2>2. QED
    BY <1>6, <2>1
<1>8. Follows(done, N, Nat, 0, next)
  BY <1>7 DEF Follows
<1>9. done \in [0..N -> Nat]
  <2> HIDE DEF next
  <2>1. 0 \in Nat
    OBVIOUS
  <2>2. Iterates(done, N, Nat, 0, next)
    BY <1>3, <1>8, <2>1, IterationFollows
  <2>3. QED
    BY <2>2 DEF Iterates
<1>10. QED
  BY <1>7, <1>9 DEF done

\* Both files of a container take at most three times the size it is given.
LEMMA FilesTake ==
  ASSUME NEW size \in Nat \ {0}, NEW config
  PROVE  LET file == create_log4j_config(config, size)
             used == (1 + file.archived) * (file.max_file_size * 1024 + Overshoot)
         IN  used \in Nat /\ used <= 3072 * size
<1> DEFINE max == max_log_file_size(size)
<1>1. Overshoot \in 0..512
  BY LogPipelineAssumption
<1>2. max \in Nat /\ (2 * max <= size \/ (max = 1 /\ size >= 1))
  BY DEF max_log_file_size
<1>3. create_log4j_config(config, size).archived = 1
      /\ create_log4j_config(config, size).max_file_size = max
  BY DEF create_log4j_config, GeneratedConfig
<1> HIDE DEF max
<1>4. (1 + 1) * (max * 1024 + Overshoot) = 2048 * max + 2 * Overshoot
  BY <1>1, <1>2
<1>5. 2048 * max + 2 * Overshoot \in Nat /\ 2048 * max + 2 * Overshoot <= 3072 * size
  BY <1>1, <1>2
<1>6. QED
  BY <1>3, <1>4, <1>5

\* The log files of all containers fit on the volume.
LEMMA FilesFit ==
  ASSUME NEW s \in LogSizes,
         logged = [what |-> "volume", sizes |-> s, limit |-> calculate_log_volume_size_limit(s)]
  PROVE  LogFilesFitVolume
<1> DEFINE N == Len(s)
           file(i) == create_log4j_config([loggers |-> <<>>, console |-> None, file |-> None], s[i])
           used == [i \in DOMAIN s |-> (1 + file(i).archived) * (file(i).max_file_size * 1024 + Overshoot)]
           total == SumsOf(s)
           filled == SumsOf(used)
           T == {n \in 0..N : ~(filled[n] <= 3072 * total[n])}
<1>1. /\ logged.sizes = s /\ logged.limit = 3 * total[N]
  BY DEF calculate_log_volume_size_limit
<1>2. s \in Seq(Nat \ {0})
  BY LogPipelineAssumption
<1>3. N \in Nat /\ DOMAIN s = 1..N /\ s \in [1..N -> Nat] /\ \A i \in 1..N : s[i] \in Nat \ {0}
  BY <1>2
<1>4. \A i \in 1..N : used[i] \in Nat /\ used[i] <= 3072 * s[i]
  <2>1. ASSUME NEW i \in 1..N
        PROVE  LET u == (1 + file(i).archived) * (file(i).max_file_size * 1024 + Overshoot)
               IN  u \in Nat /\ u <= 3072 * s[i]
    <3>1. s[i] \in Nat \ {0}
      BY <1>3
    <3>2. QED
      BY <3>1, FilesTake
  <2> HIDE DEF file, N
  <2>2. QED
    BY <1>3, <2>1
<1>5. used \in [1..N -> Nat]
  <2>1. used = [i \in 1..N |-> used[i]]
    BY <1>3
  <2> HIDE DEF used, N
  <2>2. QED
    BY <1>4, <2>1
<1>6. Len(used) = N
  <2>1. used \in Seq(Nat) /\ DOMAIN used = 1..N
    <3> HIDE DEF used, N
    <3>1. QED
      BY <1>3, <1>5
  <2> HIDE DEF used, N
  <2>2. QED
    BY <1>3, <2>1
<1>7. /\ total \in [0..N -> Nat] /\ total[0] = 0
      /\ \A n \in 1..N : total[n] = total[n - 1] + s[n]
  BY <1>3, SumsOfStep
<1>8. /\ filled \in [0..N -> Nat] /\ filled[0] = 0
      /\ \A n \in 1..N : filled[n] = filled[n - 1] + used[n]
  <2> HIDE DEF used, N
  <2>1. QED
    BY <1>3, <1>5, <1>6, SumsOfStep
<1> HIDE DEF used, total, filled, N
<1>9. ASSUME T # {} PROVE FALSE
  <2>1. PICK n \in T : \A m \in T : n <= m
    <3>1. T \subseteq Nat
      BY <1>3
    <3> HIDE DEF T
    <3>2. QED
      BY <1>9, <3>1, LeastNumber
  <2>2. n # 0
    BY <1>7, <1>8
  <2>3. n - 1 \in 0..N /\ n \in 1..N /\ ~(n <= n - 1)
    BY <1>3, <2>2
  <2>4. filled[n - 1] <= 3072 * total[n - 1]
    BY <2>1, <2>3
  <2>5. /\ filled[n] = filled[n - 1] + used[n] /\ total[n] = total[n - 1] + s[n]
        /\ filled[n - 1] \in Nat /\ total[n - 1] \in Nat
        /\ used[n] \in Nat /\ s[n] \in Nat /\ used[n] <= 3072 * s[n]
    BY <1>3, <1>4, <1>7, <1>8, <2>3
  <2>6. filled[n] <= 3072 * total[n]
    BY <2>4, <2>5
  <2>7. QED
    BY <2>6
<1>10. N \in 0..N
  BY <1>3
<1>11. filled[N] <= 3072 * total[N] /\ total[N] \in Nat
  BY <1>7, <1>9, <1>10
<1>12. filled[N] <= logged.limit * 1024
  BY <1>1, <1>11
<1>13. QED
  BY <1>1, <1>6, <1>12 DEF LogFilesFitVolume, used, filled

\* What is looked at, and what was made of it.
LoggedAsGenerated ==
  \/ logged = None
  \/ \E f \in DOMAIN Transforms, e \in EventsRead :
       logged = [what |-> "event", format |-> f, event |-> e,
                 sent |-> extended_logs(Transform(Transforms[f], e))]
  \/ \E c \in LogConfigs : logged = Configured(c)
  \/ \E s \in LogSizes :
       logged = [what |-> "volume", sizes |-> s, limit |-> calculate_log_volume_size_limit(s)]

\* What was generated does as it was configured.
LEMMA GeneratedArrives == LoggedAsGenerated => LogsArriveAsConfigured
<1>1. LevelsRoundTrip
  BY LevelsAreReadBack
<1>2. CASE logged = None
  BY <1>1, <1>2 DEF LogsArriveAsConfigured, EventsKeepContent, FrameworksAgree,
                    CapturedAsConfigured, LogFilesFitVolume, Logged
<1>3. ASSUME NEW f \in DOMAIN Transforms, NEW e \in EventsRead,
             logged = [what |-> "event", format |-> f, event |-> e,
                       sent |-> extended_logs(Transform(Transforms[f], e))]
      PROVE  LogsArriveAsConfigured
  <2>1. EventsKeepContent
    BY <1>3, EventsAreKept
  <2>2. ~Logged("config") /\ ~Logged("volume")
    BY <1>3 DEF Logged
  <2>3. QED
    BY <1>1, <2>1, <2>2 DEF LogsArriveAsConfigured, FrameworksAgree, CapturedAsConfigured,
                            LogFilesFitVolume
<1>4. ASSUME NEW c \in LogConfigs, logged = Configured(c)
      PROVE  LogsArriveAsConfigured
  <2>1. FrameworksAgree /\ CapturedAsConfigured
    BY <1>4, FrameworksDoAgree, CapturedIsConfigured
  <2>2. ~Logged("event") /\ ~Logged("volume")
    BY <1>4 DEF Logged, Configured
  <2>3. QED
    BY <1>1, <2>1, <2>2 DEF LogsArriveAsConfigured, EventsKeepContent, LogFilesFitVolume
<1>5. ASSUME NEW s \in LogSizes,
             logged = [what |-> "volume", sizes |-> s, limit |-> calculate_log_volume_size_limit(s)]
      PROVE  LogsArriveAsConfigured
  <2>1. LogFilesFitVolume
    BY <1>5, FilesFit
  <2>2. ~Logged("event") /\ ~Logged("config")
    BY <1>5 DEF Logged
  <2>3. QED
    BY <1>1, <2>1, <2>2 DEF LogsArriveAsConfigured, EventsKeepContent, FrameworksAgree,
                            CapturedAsConfigured
<1>6. QED
  BY <1>2, <1>3, <1>4, <1>5 DEF LoggedAsGenerated

\* Whatever is logged in whatever format, and for all configurations and sizes: events keep
\* their content, levels their names, all frameworks, scripts and Vector itself obey the same
\* levels, and the files fit on their volume.
THEOREM LogsAlwaysArrive == PipelineSpec => []LogsArriveAsConfigured
<1>1. PipelineInit => LoggedAsGenerated
  BY DEF PipelineInit, LoggedAsGenerated
<1>2. LoggedAsGenerated /\ [PipelineNext]_logged => LoggedAsGenerated'
  <2>1. CASE UNCHANGED logged
    BY <2>1 DEF LoggedAsGenerated
  <2>2. CASE ReadFile
    BY <2>2 DEF ReadFile, LoggedAsGenerated
  <2>3. CASE ConfigureLogging
    BY <2>3 DEF ConfigureLogging, LoggedAsGenerated, Configured
  <2>4. CASE SizeVolume
    BY <2>4 DEF SizeVolume, LoggedAsGenerated
  <2>5. QED
    BY <2>1, <2>2, <2>3, <2>4 DEF PipelineNext
<1>3. LoggedAsGenerated => LogsArriveAsConfigured
  BY GeneratedArrives
<1>4. QED
  BY <1>1, <1>2, <1>3, PTL DEF PipelineSpec
=============================================================================
