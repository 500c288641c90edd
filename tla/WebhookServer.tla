---------------------------- MODULE WebhookServer ----------------------------
(***************************************************************************)
(* The webhook server of crates/stackable-webhook: a TLS server that       *)
(* rotates its own certificate (tls/mod.rs, tls/cert_resolver.rs), a       *)
(* channel of capacity one, and a loop that writes each new certificate    *)
(* into the caBundle of the CRDs and MutatingWebhookConfigurations that    *)
(* make the API server call it (lib.rs, webhooks/).                        *)
(*                                                                         *)
(* `try_join!` polls both futures in one task: code between two awaits is  *)
(* one step.  Connections are tasks of their own.  Time is counted in      *)
(* units no longer than the check interval; the wall clock may jump ahead  *)
(* of the monotonic clock, as it does when the machine hibernates.         *)
(***************************************************************************)
EXTENDS Naturals

CONSTANTS
  MaxHooks,        \* bound on the number of registered webhooks
  NumTargets,      \* NumTargets[h]: how many objects webhook h maintains: the CRDs of
                   \* a conversion webhook, one configuration of a mutating webhook
  Conversion,      \* the webhooks that are conversion webhooks
  Ignored,         \* the webhooks whose maintenance is disabled
  Conns,           \* TCP connections
  Lifetime,        \* WEBHOOK_CERTIFICATE_LIFETIME
  Buffer,          \* CERTIFICATE_EXPIRY_BUFFER
  Interval,        \* CERTIFICATE_ROTATION_CHECK_INTERVAL
  MaxTime,         \* bound on the monotonic clock
  MaxDrift,        \* bound on how far the wall clock jumps ahead in total
  MaxRestarts,     \* bound on the restarts of the operator
  Faults           \* which operations may fail: "bind", "generate", "encode", "patch",
                   \* "handshake"

Hooks == 1..MaxHooks

ASSUME ServerConstants ==
  /\ MaxHooks \in Nat
  /\ NumTargets \in [Hooks -> Nat]
  /\ Conversion \subseteq Hooks /\ Ignored \subseteq Hooks
  /\ Lifetime \in Nat /\ Buffer \in Nat /\ Interval \in Nat \ {0}
  /\ MaxTime \in Nat /\ MaxDrift \in Nat /\ MaxRestarts \in Nat

\* "ensure it stays well above CERTIFICATE_ROTATION_CHECK_INTERVAL (currently 5
\* minutes), otherwise the certificate could expire between checks"
ASSUME IntervalFitsBuffer == Interval <= Buffer /\ Buffer < Lifetime

VARIABLES
  registered,   \* webhooks 1..registered were passed to WebhookServer::new
  mono,         \* the monotonic clock tokio::time uses
  drift,        \* the wall clock is mono + drift
  server,       \* where TlsServer::run is
  nextTick,     \* when rotation_check_interval fires next (monotonic)
  checkedDrift, \* the drift when the expiry was last compared with the wall clock
  served,       \* current_certified_key and current_not_after of the resolver
  pending,      \* a certificate generated by rotate_certificate and not sent yet
  lastCert,     \* number of certificates generated so far
  channel,      \* the certificate in the channel, 0 when it is empty
  updater,      \* where cert_update_loop is
  bundle,       \* bundle[t]: the certificate in the caBundle of t in the API server
  initial,      \* initial[h]: whether the oneshot of conversion webhook h was used
  bootCert,     \* the first certificate of this process
  conn,         \* conn[c]: the state of a connection's task
  signal,       \* the shutdown signal was received
  outcome,      \* what WebhookServer::run returned
  restarts      \* how often the operator was restarted

clockVars  == <<mono, drift>>
serverVars == <<server, nextTick, checkedDrift, served, pending, lastCert>>
updateVars == <<updater, bundle, initial>>
vars == <<registered, clockVars, serverVars, channel, updateVars, bootCert, conn, signal,
          outcome, restarts>>

Targets == UNION {{<<h, j>> : j \in 1..NumTargets[h]} : h \in Hooks}
wall == mono + drift
running == outcome = "running"

Certs == [id: Nat, not_after: Nat]
NoCert == [id |-> 0, not_after |-> 0]
Idle == [cert |-> 0, hook |-> 0, target |-> 0]

\* The registered webhooks that are told about new certificates.
Maintained(h) == h \in 1..registered /\ h \notin Ignored

(***************************************************************************)
(* The clocks                                                              *)
(***************************************************************************)
\* Time passes, but a timer that fired is polled before it does, and the operator
\* calls run right after new.
Tick ==
  /\ mono < MaxTime
  /\ ~(running /\ server = "created")
  /\ ~(running /\ server = "serving" /\ mono >= nextTick)
  /\ mono' = mono + 1
  /\ UNCHANGED <<registered, drift, serverVars, channel, updateVars, bootCert, conn, signal,
                 outcome, restarts>>

\* The machine wakes up from hibernation.
Hibernate ==
  /\ drift < MaxDrift
  /\ drift' = drift + 1
  /\ UNCHANGED <<registered, mono, serverVars, channel, updateVars, bootCert, conn, signal,
                 outcome, restarts>>

Sigterm ==
  /\ ~signal
  /\ signal' = TRUE
  /\ UNCHANGED <<registered, clockVars, serverVars, channel, updateVars, bootCert, conn,
                 outcome, restarts>>

(***************************************************************************)
(* TlsServer::run                                                          *)
(***************************************************************************)
\* try_join! returns the first error and drops both futures.
Abort(result) ==
  /\ outcome' = result
  /\ UNCHANGED <<registered, clockVars, bootCert, conn, signal, restarts>>

\* WebhookServer::run returns at once when no webhook is registered.
RunWithoutWebhooks ==
  /\ running /\ server = "created" /\ registered = 0
  /\ outcome' = "ok"
  /\ UNCHANGED <<registered, clockVars, serverVars, channel, updateVars, bootCert, conn,
                 signal, restarts>>

\* The interval is created and the TCP listener is bound.
Bind ==
  /\ running /\ server = "created" /\ registered > 0
  /\ server' = "serving"
  /\ nextTick' = mono + Interval
  /\ UNCHANGED <<registered, clockVars, checkedDrift, served, pending, lastCert, channel,
                 updateVars, bootCert, conn, signal, outcome, restarts>>

BindFails ==
  /\ "bind" \in Faults
  /\ running /\ server = "created" /\ registered > 0
  /\ Abort("BindTcpListener")
  /\ UNCHANGED <<serverVars, channel, updateVars>>

\* The select! is biased: the shutdown signal comes first.
Shutdown ==
  /\ running /\ server = "serving" /\ signal
  /\ server' = "stopped"
  /\ UNCHANGED <<registered, clockVars, nextTick, checkedDrift, served, pending, lastCert,
                 channel, updateVars, bootCert, conn, signal, outcome, restarts>>

\* Mistake: the expiry buffer is forgotten.
needs_rotation_NoBuffer == wall >= served.not_after

\* CertificateResolver::needs_rotation, with checked_sub
needs_rotation ==
  LET deadline == IF served.not_after >= Buffer THEN served.not_after - Buffer ELSE 0
  IN wall >= deadline

\* The timer fires: expiry is checked against the wall clock.  A tick that was
\* missed is made up for at once (MissedTickBehavior::Burst).
CheckRotation ==
  /\ running /\ server = "serving" /\ ~signal
  /\ mono >= nextTick
  /\ nextTick' = nextTick + Interval
  /\ checkedDrift' = drift
  /\ server' = IF needs_rotation THEN "generating" ELSE "serving"
  /\ UNCHANGED <<registered, clockVars, served, pending, lastCert, channel, updateVars,
                 bootCert, conn, signal, outcome, restarts>>

\* Mistake: the blocking thread sends the certificate, which is stored later.
Generate_SendsEarly ==
  /\ running /\ server = "generating" /\ channel = 0
  /\ server' = "sending"
  /\ lastCert' = lastCert + 1
  /\ pending' = [id |-> lastCert + 1, not_after |-> wall + Lifetime]
  /\ channel' = lastCert + 1
  /\ UNCHANGED <<registered, clockVars, nextTick, checkedDrift, served, updateVars,
                 bootCert, conn, signal, outcome, restarts>>

\* generate_new_certificate_inner up to the send: the blocking thread is done.
Generate ==
  /\ running /\ server = "generating"
  /\ server' = "sending"
  /\ lastCert' = lastCert + 1
  /\ pending' = [id |-> lastCert + 1, not_after |-> wall + Lifetime]
  /\ UNCHANGED <<registered, clockVars, nextTick, checkedDrift, served, channel, updateVars,
                 bootCert, conn, signal, outcome, restarts>>

GenerateFails ==
  /\ "generate" \in Faults
  /\ running /\ server = "generating"
  /\ Abort("RotateCertificate")
  /\ UNCHANGED <<serverVars, channel, updateVars>>

\* Mistake: the certificate is served but the channel is skipped when it is full.
Send_TrySend ==
  /\ running /\ server = "sending"
  /\ channel' = IF channel = 0 THEN pending.id ELSE channel
  /\ served' = pending
  /\ pending' = NoCert
  /\ server' = "serving"
  /\ UNCHANGED <<registered, clockVars, nextTick, checkedDrift, lastCert, updateVars,
                 bootCert, conn, signal, outcome, restarts>>

\* certificate_tx.send waits for room in the channel; rotate_certificate then stores
\* the new key and its expiry.  Nothing else of the select! is polled meanwhile.
Send ==
  /\ running /\ server = "sending"
  /\ channel = 0
  /\ channel' = pending.id
  /\ served' = pending
  /\ pending' = NoCert
  /\ server' = "serving"
  /\ UNCHANGED <<registered, clockVars, nextTick, checkedDrift, lastCert, updateVars,
                 bootCert, conn, signal, outcome, restarts>>

\* A connection is accepted and handed to a task that holds the TLS acceptor.
Accept(c) ==
  /\ running /\ server = "serving" /\ ~signal /\ mono < nextTick
  /\ conn[c] = "closed"
  /\ conn' = [conn EXCEPT ![c] = "handshake"]
  /\ UNCHANGED <<registered, clockVars, serverVars, channel, updateVars, bootCert, signal,
                 outcome, restarts>>

(***************************************************************************)
(* TlsServer::handle_request                                               *)
(***************************************************************************)
Handshake(c) ==
  /\ running
  /\ conn[c] = "handshake"
  /\ conn' = [conn EXCEPT ![c] = "open"]
  /\ UNCHANGED <<registered, clockVars, serverVars, channel, updateVars, bootCert, signal,
                 outcome, restarts>>

HandshakeFails(c) ==
  /\ "handshake" \in Faults
  /\ running
  /\ conn[c] = "handshake"
  /\ conn' = [conn EXCEPT ![c] = "closed"]
  /\ UNCHANGED <<registered, clockVars, serverVars, channel, updateVars, bootCert, signal,
                 outcome, restarts>>

\* The client closes the connection; nothing in the server does.
Disconnect(c) ==
  /\ running
  /\ conn[c] = "open"
  /\ conn' = [conn EXCEPT ![c] = "closed"]
  /\ UNCHANGED <<registered, clockVars, serverVars, channel, updateVars, bootCert, signal,
                 outcome, restarts>>

(***************************************************************************)
(* cert_update_loop                                                        *)
(***************************************************************************)
\* The resolver, and with it the sender, is held by TlsServer::run and by the
\* TLS acceptor of every connection's task.
\* Mistake: WebhookServer keeps a sender of its own.
SenderAlive_Always == TRUE

SenderAlive == server # "stopped" \/ \E c \in Conns : conn[c] # "closed"

\* cert_rx.recv returns a certificate.
Receive ==
  /\ running /\ registered > 0
  /\ updater = Idle
  /\ channel # 0
  /\ updater' = [cert |-> channel, hook |-> 1, target |-> 1]
  /\ channel' = 0
  /\ UNCHANGED <<registered, clockVars, serverVars, bundle, initial, bootCert, conn, signal,
                 outcome, restarts>>

\* The received certificate cannot be encoded as PEM.
EncodeFails ==
  /\ "encode" \in Faults
  /\ running /\ registered > 0
  /\ updater = Idle
  /\ channel # 0
  /\ channel' = 0
  /\ Abort("EncodeCertificateAuthorityAsPem")
  /\ UNCHANGED <<serverVars, updateVars>>

\* The webhook the update loop is at.
Busy(h) == running /\ updater # Idle /\ updater.hook = h /\ h <= registered
NextHook == updater' = [updater EXCEPT !.hook = @ + 1, !.target = 1]

\* ignore_certificate_rotation
SkipHook(h) ==
  /\ Busy(h) /\ h \in Ignored
  /\ NextHook
  /\ UNCHANGED <<registered, clockVars, serverVars, channel, bundle, initial, bootCert, conn,
                 signal, outcome, restarts>>

\* reconcile_crd, or the patch of a MutatingWebhookConfiguration
Patch(h) ==
  /\ Busy(h) /\ h \notin Ignored
  /\ updater.target <= NumTargets[h]
  /\ bundle' = [bundle EXCEPT ![<<h, updater.target>>] = updater.cert]
  /\ updater' = [updater EXCEPT !.target = @ + 1]
  /\ UNCHANGED <<registered, clockVars, serverVars, channel, initial, bootCert, conn, signal,
                 outcome, restarts>>

\* The patch fails, or only its response is lost.
PatchFails(h) ==
  /\ "patch" \in Faults
  /\ Busy(h) /\ h \notin Ignored
  /\ updater.target <= NumTargets[h]
  /\ \/ bundle' = [bundle EXCEPT ![<<h, updater.target>>] = updater.cert]
     \/ UNCHANGED bundle
  /\ Abort("UpdateCertificate")
  /\ UNCHANGED <<serverVars, channel, updater, initial>>

\* Mistake: the oneshot is used when the first CRD was patched.
HookDone_Early(h) ==
  /\ Busy(h) /\ h \notin Ignored
  /\ \/ updater.target > NumTargets[h] /\ NextHook
     \/ updater.target = 2 /\ updater' = updater
  /\ initial' = IF h \in Conversion THEN [initial EXCEPT ![h] = TRUE] ELSE initial
  /\ UNCHANGED <<registered, clockVars, serverVars, channel, bundle, bootCert, conn, signal,
                 outcome, restarts>>

\* handle_certificate_rotation returns; a conversion webhook uses its oneshot.
HookDone(h) ==
  /\ Busy(h) /\ h \notin Ignored
  /\ updater.target > NumTargets[h]
  /\ NextHook
  /\ initial' = IF h \in Conversion THEN [initial EXCEPT ![h] = TRUE] ELSE initial
  /\ UNCHANGED <<registered, clockVars, serverVars, channel, bundle, bootCert, conn, signal,
                 outcome, restarts>>

\* All webhooks know the certificate; the loop goes back to recv.
RotationDone ==
  /\ running /\ updater # Idle /\ updater.hook > registered
  /\ updater' = Idle
  /\ UNCHANGED <<registered, clockVars, serverVars, channel, bundle, initial, bootCert, conn,
                 signal, outcome, restarts>>

\* recv returns None: the loop ends.  try_join! returns when the server ended too.
ReceiveNone ==
  /\ running /\ registered > 0
  /\ updater = Idle /\ channel = 0 /\ ~SenderAlive
  /\ outcome' = "ok"
  /\ UNCHANGED <<registered, clockVars, serverVars, channel, updateVars, bootCert, conn,
                 signal, restarts>>

(***************************************************************************)
(* The operator process                                                    *)
(***************************************************************************)
\* WebhookServer::new, in a new process: the first certificate is sent to the
\* channel before anybody reads it.
Boot(cert) ==
  /\ server' = "created"
  /\ served' = [id |-> cert, not_after |-> wall + Lifetime]
  /\ pending' = NoCert
  /\ lastCert' = cert
  /\ channel' = cert
  /\ bootCert' = cert
  /\ checkedDrift' = drift
  /\ nextTick' = mono + Interval
  /\ updater' = Idle
  /\ initial' = [h \in Hooks |-> FALSE]
  /\ conn' = [c \in Conns |-> "closed"]
  /\ outcome' = "running"

\* The operator ended with an error and Kubernetes starts it again.
Restart ==
  /\ outcome \notin {"running", "ok"} /\ ~signal
  /\ restarts < MaxRestarts
  /\ restarts' = restarts + 1
  /\ Boot(lastCert + 1)
  /\ UNCHANGED <<registered, clockVars, bundle, signal>>

\* WebhookServer::new fails in the new process.
RestartFails ==
  /\ "generate" \in Faults
  /\ outcome \notin {"running", "ok"} /\ ~signal
  /\ restarts < MaxRestarts
  /\ restarts' = restarts + 1
  /\ outcome' = "CreateTlsServer"
  /\ UNCHANGED <<registered, clockVars, serverVars, channel, updateVars, bootCert, conn, signal>>

\* Mistake: the first certificate is not sent to the channel.
Init_NoFirstCert ==
  /\ registered \in 0..MaxHooks
  /\ mono = 0 /\ drift = 0
  /\ server = "created" /\ nextTick = Interval /\ checkedDrift = 0
  /\ served = [id |-> 1, not_after |-> Lifetime]
  /\ pending = NoCert /\ lastCert = 1
  /\ channel = 0
  /\ updater = Idle
  /\ bundle = [t \in Targets |-> 0]
  /\ initial = [h \in Hooks |-> FALSE]
  /\ bootCert = 1
  /\ conn = [c \in Conns |-> "closed"]
  /\ signal = FALSE /\ outcome = "running" /\ restarts = 0

Init ==
  /\ registered \in 0..MaxHooks
  /\ mono = 0 /\ drift = 0
  /\ server = "created" /\ nextTick = Interval /\ checkedDrift = 0
  /\ served = [id |-> 1, not_after |-> Lifetime]
  /\ pending = NoCert /\ lastCert = 1
  /\ channel = 1
  /\ updater = Idle
  /\ bundle = [t \in Targets |-> 0]
  /\ initial = [h \in Hooks |-> FALSE]
  /\ bootCert = 1
  /\ conn = [c \in Conns |-> "closed"]
  /\ signal = FALSE /\ outcome = "running" /\ restarts = 0

TlsServerStep ==
  \/ RunWithoutWebhooks \/ Bind \/ BindFails \/ Shutdown \/ CheckRotation
  \/ Generate \/ GenerateFails \/ Send

UpdateLoopStep ==
  \/ Receive \/ EncodeFails \/ RotationDone \/ ReceiveNone
  \/ \E h \in Hooks : SkipHook(h) \/ Patch(h) \/ PatchFails(h) \/ HookDone(h)

ConnectionStep ==
  \E c \in Conns : Accept(c) \/ Handshake(c) \/ HandshakeFails(c) \/ Disconnect(c)

Next ==
  \/ Tick \/ Hibernate \/ Sigterm \/ Restart \/ RestartFails
  \/ TlsServerStep \/ UpdateLoopStep \/ ConnectionStep

Spec == Init /\ [][Next]_vars

\* Both futures are polled and crashed operators are restarted.  Clients need not
\* finish a handshake, which has no timeout, nor close their connections, and no
\* signal need arrive.
Fairness ==
  /\ WF_vars(TlsServerStep) /\ WF_vars(UpdateLoopStep)
  /\ WF_vars(Restart \/ RestartFails) /\ WF_vars(Tick)

FairSpec == Spec /\ Fairness

(***************************************************************************)
(* Properties                                                              *)
(***************************************************************************)
Results == {"running", "ok", "CreateTlsServer", "BindTcpListener", "RotateCertificate",
            "EncodeCertificateAuthorityAsPem", "UpdateCertificate"}

\* The variables have their types, and the update loop stays within the webhooks
\* that were registered.
TypeOK ==
  /\ registered \in 0..MaxHooks
  /\ mono \in Nat /\ drift \in Nat /\ nextTick \in Nat /\ checkedDrift \in Nat
  /\ server \in {"created", "serving", "generating", "sending", "stopped"}
  /\ served \in Certs /\ pending \in Certs
  /\ lastCert \in Nat /\ channel \in Nat /\ bootCert \in Nat
  /\ updater \in [cert: Nat, hook: 0..(registered + 1), target: Nat]
  /\ bundle \in [Targets -> Nat]
  /\ initial \in [Hooks -> BOOLEAN]
  /\ conn \in [Conns -> {"closed", "handshake", "open"}]
  /\ signal \in BOOLEAN /\ outcome \in Results /\ restarts \in Nat

\* The update loop has patched t with the certificate it works on.
Patched(t) ==
  \/ t[1] < updater.hook
  \/ t[1] = updater.hook /\ t[2] < updater.target

\* A certificate that is served is never forgotten on its way to the API server:
\* as long as the server runs, each maintained object either has the served
\* certificate in its caBundle, or that certificate is in the channel, or the
\* update loop is about to write it there.
NoLostRotation ==
  running =>
    \A t \in Targets : Maintained(t[1]) =>
      \/ bundle[t] = served.id
      \/ channel = served.id
      \/ updater.cert = served.id /\ updater # Idle /\ ~Patched(t)

\* The served certificate does not expire between two checks, unless the wall clock
\* jumped since the last one: rotation starts a buffer ahead, which is longer than
\* the interval.
NeverExpired ==
  running /\ server = "serving" /\ mono <= nextTick /\ drift = checkedDrift
    => wall < served.not_after

\* Once a conversion webhook told its creator that the CRDs were reconciled, all of
\* them were written by this process.
InitialReconcileSound ==
  running => \A h \in Conversion : initial[h] =>
    \A t \in Targets : t[1] = h => bundle[t] >= bootCert

\* The API server never trusts a certificate the running server does not serve yet:
\* the key is stored in the same poll that sends the certificate to the update loop.
BundleNeverAhead == running => \A t \in Targets : bundle[t] <= served.id

(***************************************************************************)
(* The inductive invariant behind the safety properties                    *)
(***************************************************************************)
\* Certificates are numbered in the order they are generated, sent, served and
\* written; at most the served one waits in the channel.
CertOrder ==
  /\ bootCert \in 1..served.id /\ served.id <= lastCert
  /\ channel \in {0, served.id}
  /\ server = "sending" => served.id < pending.id /\ pending.id <= lastCert
  /\ updater # Idle => updater.cert \in bootCert..served.id /\ updater.target > 0
  /\ \A t \in Targets : bundle[t] <= served.id

\* With an empty channel the update loop works on the served certificate or is done
\* with it, and what it has passed has been written.
UpdateProgress ==
  running =>
    /\ channel = 0 /\ updater = Idle
         => \A t \in Targets : Maintained(t[1]) => bundle[t] = served.id
    /\ channel = 0 /\ updater # Idle => updater.cert = served.id
    /\ updater # Idle
         => \A t \in Targets : Maintained(t[1]) /\ Patched(t) => bundle[t] = updater.cert

\* The next check comes before the certificate expires, by the wall clock of the
\* last check.
Deadline ==
  running =>
    /\ server = "created" => served.not_after = mono + checkedDrift + Lifetime
    /\ server = "serving" => nextTick + checkedDrift < served.not_after
    /\ server = "generating" => nextTick + checkedDrift <= wall + Interval
    /\ server = "sending" => nextTick + checkedDrift < pending.not_after

IndInv == TypeOK /\ CertOrder /\ UpdateProgress /\ InitialReconcileSound /\ Deadline

(***************************************************************************)
(* Liveness                                                                *)
(***************************************************************************)
\* Again and again, every maintained object has the served certificate, unless the
\* server ended.
BundlesCatchUp ==
  []<>(~running \/ \A t \in Targets : Maintained(t[1]) => bundle[t] = served.id)

\* A maintained conversion webhook reports its initial reconciliation, after each
\* start of the operator.
InitialReconcileHappens ==
  <>[](~running \/ \A h \in Conversion : Maintained(h) => initial[h])

\* A shutdown signal ends the server once the clients have left.
ShutdownWithoutClients == signal ~> (~running \/ \E c \in Conns : conn[c] # "closed")

\* lib.rs: "Both futures complete with Ok(_) when a shutdown signal is received."
ShutdownCompletes == signal ~> ~running

=============================================================================
