------------------------------ MODULE Telemetry ------------------------------
(***************************************************************************)
(* stackable-telemetry: a Tracing is built from options or with a builder,  *)
(* initialised (which installs the process-wide subscriber) and shuts its   *)
(* exporters down when it is dropped; the axum layer gives every request a  *)
(* span that is entered while the request's future is polled, takes the     *)
(* trace from the request's headers and puts it in those of the response.   *)
(***************************************************************************)
EXTENDS Options, Naturals, Sequences, SequencesExt, FiniteSets, TLC

CONSTANTS
  Tracings,         \* Tracing values of the process
  TelemetryOptions, \* the options they are made of
  BuilderCalls,     \* sequences of calls of the TracingBuilder
  Environment,      \* the levels in environment variables
  Requests, Workers,
  TraceHeaders,     \* None, "invalid" or the trace a client sends
  RequestHosts      \* the host information of a request

Outputs == {"console", "file", "otlp_log", "otlp_trace"}

\* what a builder can be called with (the Into<Settings> of its arguments)
IsCall(call) ==
  /\ call.output \in Outputs /\ call.value.from \in {"settings", "option", "pair", "triple"}
  /\ call.value.from = "triple" => call.value.enabled \in BOOLEAN

ASSUME TelemetryConstants ==
  /\ None \notin Tracings /\ None # "running"
  /\ None \notin [variable : {"CONSOLE_LOG_LEVEL", "FILE_LOG_LEVEL"}, level : {"INFO"}]
  /\ \A calls \in BuilderCalls :
       /\ Len(calls) \in Nat /\ DOMAIN calls = 1..Len(calls)
       /\ \A i \in DOMAIN calls : IsCall(calls[i])
  /\ \A o \in TelemetryOptions :
       {o.console_log_disabled, o.otel_log_exporter_enabled, o.otel_trace_exporter_enabled} \subseteq BOOLEAN

VARIABLES
  tracing,          \* tracing[t]: its settings, layers, providers and where init is
  subscriber,       \* the Tracing whose layers are installed, or None
  propagator,       \* the text map propagator was set
  request,          \* request[r]: its headers, span and response
  entered           \* entered[w]: the spans entered on a worker thread, innermost last

lifecycleVars == <<tracing, subscriber, propagator>>
requestVars == <<request, entered>>
telemetryVars == <<lifecycleVars, requestVars>>

-----------------------------------------------------------------------------
(* Settings                                                                  *)

Disabled == [enabled |-> FALSE, variable |-> None, level |-> None]
Enabled(variable, level) == [enabled |-> TRUE, variable |-> variable, level |-> level]

\* SettingsBuilder: what is not set has these values.
SettingsOf(given) ==
  Enabled(IF "variable" \in DOMAIN given THEN given.variable ELSE "RUST_LOG",
          IF "level" \in DOMAIN given THEN given.level ELSE "OFF")

\* From<Settings>, From<Option<T>>, From<(&str, LevelFilter)> and From<(&str, LevelFilter, bool)>
IntoSettings(v) ==
  CASE v.from = "settings" -> SettingsOf(v.given)
    [] v.from = "option" -> IF v.given = None THEN Disabled ELSE SettingsOf(v.given)
    [] v.from = "pair" -> Enabled(v.variable, v.level)
    [] v.from = "triple" -> IF v.enabled THEN Enabled(v.variable, v.level) ELSE Disabled

\* The level in the environment variable wins over the default.
env_filter_builder(s) == IF s.variable \in DOMAIN Environment THEN Environment[s.variable] ELSE s.level

\* TracingBuilder::service_name
NewTracingBuilder == [o \in Outputs |-> Disabled]

\* with_console_output, with_file_output, with_otlp_log_exporter, with_otlp_trace_exporter
with_output(builder, output, v) == [builder EXCEPT ![output] = IntoSettings(v)]

\* The builder after each of the calls, and after all of them
AfterCalls(calls) ==
  LET after[n \in 0..Len(calls)] ==
        IF n = 0 THEN NewTracingBuilder ELSE with_output(after[n - 1], calls[n].output, calls[n].value)
  IN  after

BuiltSettings(calls) == AfterCalls(calls)[Len(calls)]

Triple(variable, enabled) ==
  [from |-> "triple", variable |-> variable, level |-> "INFO", enabled |-> enabled]
Maybe(variable, enabled) ==
  [from |-> "option", given |-> IF enabled THEN [variable |-> variable, level |-> "INFO"] ELSE None]

pre_configured(options) ==
  BuiltSettings(<<[output |-> "console", value |-> Maybe("CONSOLE_LOG_LEVEL", ~options.console_log_disabled)],
          [output |-> "file", value |-> Maybe("FILE_LOG_LEVEL", options.file_log_directory # None)],
          [output |-> "otlp_log", value |-> Triple("OTEL_LOG_EXPORTER_LEVEL", options.otel_log_exporter_enabled)],
          [output |-> "otlp_trace", value |-> Triple("OTEL_TRACE_EXPORTER_LEVEL", options.otel_trace_exporter_enabled)]>>)

-----------------------------------------------------------------------------
(* init and Drop                                                             *)

NoTracing == [at |-> "none", settings |-> NewTracingBuilder, wanted |-> {}, layers |-> <<>>,
              logger_provider |-> None, tracer_provider |-> None]

\* wanted: the outputs that were asked for, whatever the builder makes of it
BuildTracing(t, settings, wanted) ==
  /\ tracing[t].at = "none"
  /\ tracing' = [tracing EXCEPT ![t] = [NoTracing EXCEPT !.at = "console", !.settings = settings,
                                                         !.wanted = wanted]]
  /\ UNCHANGED <<subscriber, propagator, requestVars>>

\* The outputs that the options ask for
OptionsWant(o) ==
  (IF o.console_log_disabled THEN {} ELSE {"console"})
  \cup (IF o.file_log_directory # None THEN {"file"} ELSE {})
  \cup (IF o.otel_log_exporter_enabled THEN {"otlp_log"} ELSE {})
  \cup (IF o.otel_trace_exporter_enabled THEN {"otlp_trace"} ELSE {})

PreConfigured(t) ==
  \E o \in TelemetryOptions : BuildTracing(t, pre_configured(o), OptionsWant(o))

\* What the last of the first n calls for an output asks for
LastCall(calls, n, o) ==
  {i \in 1..n : calls[i].output = o /\ \A j \in (i + 1)..n : calls[j].output # o}
TurnsOn(v) == ~(v.from = "option" /\ v.given = None) /\ (v.from = "triple" => v.enabled)
WantedOutputs(calls, n) == {o \in Outputs : \E i \in LastCall(calls, n, o) : TurnsOn(calls[i].value)}

UseBuilder(t) ==
  \E calls \in BuilderCalls : BuildTracing(t, BuiltSettings(calls), WantedOutputs(calls, Len(calls)))

Down(provider) == IF provider = None THEN None ELSE "shut down"

\* Drop: the tracer provider, then the logger provider; an error is only logged.
Dropped(g, at) ==
  [g EXCEPT !.at = at, !.tracer_provider = Down(@), !.logger_provider = Down(@)]

NextOutput == [console |-> "file", file |-> "otlp_log", otlp_log |-> "otlp_trace", otlp_trace |-> "subscriber"]

\* The layer of an output is pushed; what it needs is built before.
WithLayer(g) ==
  LET pushed == [g EXCEPT !.layers = Append(@, g.at), !.at = NextOutput[g.at]]
  IN  CASE g.at = "otlp_log" -> [pushed EXCEPT !.logger_provider = "running"]
        [] g.at = "otlp_trace" -> [pushed EXCEPT !.tracer_provider = "running"]
        [] OTHER -> pushed

PushLayer(t) ==
  LET g == tracing[t]
  IN  /\ g.at \in Outputs
      /\ tracing' = [tracing EXCEPT ![t] = IF g.settings[g.at].enabled THEN WithLayer(g)
                                           ELSE [g EXCEPT !.at = NextOutput[g.at]]]
      /\ propagator' = (propagator \/ (g.at = "otlp_trace" /\ g.settings[g.at].enabled))
      /\ UNCHANGED <<subscriber, requestVars>>

\* InitRollingFileAppender, InstallOtelLogExporter, InstallOtelTraceExporter: init
\* returns and self is dropped.
LayerFails(t) ==
  LET g == tracing[t]
  IN  /\ g.at \in Outputs \ {"console"} /\ g.settings[g.at].enabled
      /\ tracing' = [tracing EXCEPT ![t] = Dropped(g, "failed")]
      /\ UNCHANGED <<subscriber, propagator, requestVars>>

\* set_global_default succeeds once in a process.
SetSubscriber(t) ==
  LET g == tracing[t]
  IN  /\ g.at = "subscriber"
      /\ CASE g.layers = <<>> -> /\ tracing' = [tracing EXCEPT ![t].at = "ready"]
                                 /\ UNCHANGED subscriber
           [] g.layers # <<>> /\ subscriber = None ->
                /\ tracing' = [tracing EXCEPT ![t].at = "ready"]
                /\ subscriber' = t
           [] OTHER -> /\ tracing' = [tracing EXCEPT ![t] = Dropped(g, "failed")]
                       /\ UNCHANGED subscriber
      /\ UNCHANGED <<propagator, requestVars>>

DropTracing(t) ==
  /\ tracing[t].at = "ready"
  /\ tracing' = [tracing EXCEPT ![t] = Dropped(@, "dropped")]
  /\ UNCHANGED <<subscriber, propagator, requestVars>>

-----------------------------------------------------------------------------
(* Requests.  A context is [trace, span]; that of the connection a request   *)
(* came in on is current on the worker that handles it.                      *)

Ctx(trace, span) == [trace |-> trace, span |-> span]
ConnectionContext(r) == Ctx("connection", r)

\* The spans of requests have the lowest level: only if it is exported have they a context.
SpansExported ==
  LET g == tracing[subscriber]
  IN  "otlp_trace" \in ToSet(g.layers) /\ env_filter_builder(g.settings["otlp_trace"]) = "TRACE"

\* The innermost span that was entered on the worker, else the connection's
CurrentContext(w, r) ==
  IF entered[w] = <<>> THEN ConnectionContext(r) ELSE request[Last(entered[w])].span.context

\* HeaderExtractor::extract_context: without a propagator or a readable header it
\* is the current context.
extract_context(header, current) ==
  IF propagator /\ header \notin {None, "invalid"} THEN Ctx(header, "client") ELSE current

\* The port in the host, or the one the scheme implies
server_host_to_tuple(host, scheme) ==
  CASE host.port # None -> IF host.port \in 0..65535 THEN Ok(<<host.name, host.port>>) ELSE Err("ParsePort")
    [] host.port = None /\ scheme = "https" -> Ok(<<host.name, 443>>)
    [] host.port = None /\ scheme = "http" -> Ok(<<host.name, 80>>)
    [] OTHER -> Err("InvalidScheme")

server_host(h) ==
  CASE h.forwarded # None -> server_host_to_tuple(h.forwarded, h.scheme)
    [] h.forwarded = None /\ h.host # None -> server_host_to_tuple(h.host, h.scheme)
    [] h.forwarded = None /\ h.host = None /\ h.uri # None -> Ok(<<h.uri.name, h.uri.port>>)
    [] OTHER -> Err("ExtractHost")

\* Span::from_request: a context from the headers becomes the parent, and the new
\* and the current span are linked to each other's trace.
from_request(r, header, host, current) ==
  LET new == extract_context(header, current)
      server == server_host(host)
  IN  [context |-> Ctx(new.trace, r), parent |-> new.span,
       links   |-> IF new # current THEN {current} ELSE {},
       current_links |-> IF new # current THEN {new} ELSE {},
       server  |-> IF server.ok THEN server.value ELSE None, status |-> None]

\* TraceService::call: the span is entered for the call of the inner service only.
CallService(w, r) ==
  \E header \in TraceHeaders, host \in RequestHosts :
    /\ request[r].at = "none"
    /\ request' = [request EXCEPT ![r] =
         [at |-> "pending", header |-> header,
          span |-> from_request(r, header, host, CurrentContext(w, r)), response |-> None]]
    /\ UNCHANGED <<entered, lifecycleVars>>

\* Mutant: the guard outlives a poll that is not ready.
LeaveSpan_Held(w, r) == entered' = [entered EXCEPT ![w] = Append(@, r)]

\* ResponseFuture::poll: the guard is dropped when poll returns.
LeaveSpan(w, r) == UNCHANGED entered

PollPending(w, r) ==
  /\ request[r].at = "pending"
  /\ LeaveSpan(w, r)
  /\ UNCHANGED <<request, lifecycleVars>>

\* finalize_with_response, finalize_with_error: the response carries the context
\* that is current while the span is entered.
Finalized(w, r, result) ==
  [request[r] EXCEPT
     !.at = "done",
     !.span.status = IF result \in {"server error", "error"} THEN "Error" ELSE None,
     !.response = IF result = "error" \/ ~propagator THEN None
                  ELSE IF SpansExported THEN request[r].span.context ELSE CurrentContext(w, r)]

PollReady(w, r) ==
  /\ request[r].at = "pending"
  /\ \E result \in {"ok", "server error", "error"} :
       request' = [request EXCEPT ![r] = Finalized(w, r, result)]
  /\ UNCHANGED <<entered, lifecycleVars>>

-----------------------------------------------------------------------------
NoRequest == [at |-> "none"]

TelemetryInit ==
  /\ tracing = [t \in Tracings |-> NoTracing]
  /\ subscriber = None /\ propagator = FALSE
  /\ request = [r \in Requests |-> NoRequest]
  /\ entered = [w \in Workers |-> <<>>]

\* Requests are traced once telemetry is set up.
TelemetryNext ==
  \/ \E t \in Tracings : \/ PreConfigured(t) \/ UseBuilder(t) \/ PushLayer(t) \/ LayerFails(t)
                         \/ SetSubscriber(t) \/ DropTracing(t)
  \/ \E w \in Workers, r \in Requests :
       /\ subscriber # None /\ \A t \in Tracings : tracing[t].at \in {"ready", "failed"}
       /\ CallService(w, r) \/ PollPending(w, r) \/ PollReady(w, r)

TelemetrySpec == TelemetryInit /\ [][TelemetryNext]_telemetryVars

-----------------------------------------------------------------------------
(* Properties                                                                *)

\* Exporters run exactly as long as the Tracing they belong to is in use: an init
\* that fails half way, or that comes too late to install its subscriber, shuts
\* down what it had started and leaves the installed one alone; a Tracing that was
\* returned is the installed one (or has no layers).
ExportersBelongToTracing ==
  \A t \in Tracings :
    LET g == tracing[t]
        running(p) == p = "running"
    IN  /\ running(g.logger_provider) \/ running(g.tracer_provider) =>
             g.at \in Outputs \cup {"subscriber", "ready"}
        /\ g.at = "ready" => /\ g.layers # <<>> => subscriber = t
                             /\ "otlp_log" \in g.wanted => running(g.logger_provider)
                             /\ "otlp_trace" \in g.wanted => running(g.tracer_provider)

\* The layers of an initialised Tracing are those that were asked for, in the
\* options or by the last call of the builder for each of them.
OutputsAsConfigured ==
  \A t \in Tracings : tracing[t].at \in {"subscriber", "ready"} => ToSet(tracing[t].layers) = tracing[t].wanted

\* A response carries the trace its client sent, or that of its own connection
\* (also when spans of requests are not exported), and a span has its own request's
\* context as parent, however polls interleave.
ResponsesCarryOwnTrace ==
  \A r \in Requests : request[r].at = "done" =>
    LET q == request[r]
        own == IF propagator /\ q.header \notin {None, "invalid"} THEN Ctx(q.header, "client")
               ELSE ConnectionContext(r)
    IN  /\ q.span.parent = own.span
        /\ q.response # None =>
             q.response = IF SpansExported THEN Ctx(own.trace, r) ELSE ConnectionContext(r)
        /\ q.span.links \subseteq {ConnectionContext(r)}

\* Telemetry goes where it was configured to go while its Tracing lives, and a
\* request is traced as itself.
TelemetryIsOwn == ExportersBelongToTracing /\ OutputsAsConfigured /\ ResponsesCarryOwnTrace

==============================================================================
