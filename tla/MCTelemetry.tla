----------------------------- MODULE MCTelemetry -----------------------------
EXTENDS Telemetry

MCTelemetryOptions ==
  LET options(quiet, dir, log, trace) ==
        [console_log_disabled |-> quiet, file_log_directory |-> dir,
         otel_log_exporter_enabled |-> log, otel_trace_exporter_enabled |-> trace]
  IN  {options(TRUE, None, TRUE, TRUE), options(FALSE, "dir", TRUE, FALSE), options(TRUE, None, FALSE, FALSE)}

MCBuilderCalls ==
  LET call(o, v) == [output |-> o, value |-> v]
      pair == [from |-> "pair", variable |-> "V", level |-> "INFO"]
      off == [from |-> "triple", variable |-> "V", level |-> "INFO", enabled |-> FALSE]
      settings == [from |-> "settings", given |-> [level |-> "DEBUG"]]
  IN  {<<>>, <<call("console", pair), call("otlp_log", settings)>>,
       <<call("file", settings), call("file", off), call("otlp_trace", pair)>>}

MCEnvironment == "OTEL_TRACE_EXPORTER_LEVEL" :> "TRACE"

MCRequestHosts ==
  {[forwarded |-> [name |-> "f", port |-> None], host |-> [name |-> "h", port |-> 8443],
    scheme |-> "https", uri |-> None],
   [forwarded |-> None, host |-> [name |-> "h", port |-> 70000], scheme |-> "http", uri |-> None],
   [forwarded |-> None, host |-> None, scheme |-> "https", uri |-> [name |-> "u", port |-> 443]],
   [forwarded |-> None, host |-> [name |-> "h", port |-> None], scheme |-> None, uri |-> None]}
==============================================================================
