----------------------------- MODULE LogPipeline -----------------------------
(***************************************************************************)
(* What becomes of a log event (product_logging/framework.rs, spec.rs):    *)
(* the configuration that is generated for log4j, log4j2, logback and for  *)
(* the output of shell scripts decides what is printed and what is written *)
(* to files, and the transforms of the generated Vector configuration turn *)
(* each line of such a file into an event of one form.                     *)
(* An event is known by which of its fields are there and usable.          *)
(***************************************************************************)
EXTENDS Integers, Sequences, FiniteSets, Options

CONSTANTS
    LogConfigs,     \* [loggers, console, file]: automatic configurations
    LogSizes,       \* sequences of maximum log file sizes in MiB, one per container
    Overshoot       \* KiB by which a log file exceeds its maximum before it is rolled over

VARIABLE logged     \* what is looked at, and what was made of it

LogLevels == <<"TRACE", "DEBUG", "INFO", "WARN", "ERROR", "FATAL", "NONE">>
LevelRank(level) == CHOOSE i \in DOMAIN LogLevels : LogLevels[i] = level
AtLeast(level, other) == LevelRank(level) >= LevelRank(other)
HigherLevel(a, b) == IF AtLeast(a, b) THEN a ELSE b

EventLevels == {"TRACE", "DEBUG", "INFO", "WARN", "ERROR", "FATAL"}
AllLevels == EventLevels \cup {"NONE"}

\* Loggers have a level and appenders may have one.  A log file that is as small as it
\* can be must not exceed its maximum by more than half of it.
ASSUME LogPipelineAssumption ==
    /\ \A c \in LogConfigs :
          /\ c.loggers \in [DOMAIN c.loggers -> AllLevels]
          /\ c.console \in AllLevels \cup {None} /\ c.file \in AllLevels \cup {None}
    /\ \A s \in LogSizes : s \in Seq(Nat \ {0})
    /\ Overshoot \in 0..512

------------------------------------------------------------------------------
(* Literals *)

to_vector_literal(level) ==
    CASE level = "NONE" -> "off" [] level = "FATAL" -> "error"
      [] level = "TRACE" -> "trace" [] level = "DEBUG" -> "debug" [] level = "INFO" -> "info"
      [] level = "WARN" -> "warn" [] level = "ERROR" -> "error"

to_logback_literal(level) ==
    IF level = "FATAL" THEN "ERROR" ELSE IF level = "NONE" THEN "OFF" ELSE level

to_log4j_literal(level) == IF level = "NONE" THEN "OFF" ELSE level

to_opa_literal(level) ==
    IF level \in {"TRACE", "DEBUG"} THEN "debug" ELSE IF level = "INFO" THEN "info" ELSE "error"

to_python_expression(level) ==
    CASE level \in {"TRACE", "DEBUG"} -> "DEBUG" [] level = "INFO" -> "INFO"
      [] level = "WARN" -> "WARNING" [] level = "ERROR" -> "ERROR"
      [] level = "FATAL" -> "CRITICAL" [] level = "NONE" -> "CRITICAL + 1"

------------------------------------------------------------------------------
(* Configuration of the frameworks *)

OrInfo(level) == IF level = None THEN "INFO" ELSE level

root_level(config) ==
    IF "ROOT" \in DOMAIN config.loggers THEN config.loggers["ROOT"] ELSE "INFO"

max_log_file_size(max_size_in_mib) ==
    IF max_size_in_mib \div 2 > 1 THEN max_size_in_mib \div 2 ELSE 1

\* the levels of loggers and appenders in one of the generated files
GeneratedConfig(config, literal, size) ==
    [root |-> literal[root_level(config)],
     loggers |-> [n \in DOMAIN config.loggers \ {"ROOT"} |-> literal[config.loggers[n]]],
     console |-> literal[OrInfo(config.console)], file |-> literal[OrInfo(config.file)],
     max_file_size |-> max_log_file_size(size), archived |-> 1]

Log4jLiterals == [l \in AllLevels |-> to_log4j_literal(l)]

create_log4j_config(config, size) == GeneratedConfig(config, Log4jLiterals, size)

create_log4j2_config(config, size) == GeneratedConfig(config, Log4jLiterals, size)

create_logback_config(config, size) ==
    GeneratedConfig(config, [l \in AllLevels |-> to_logback_literal(l)], size)

\* console and file levels of capture_shell_output
ShellLevel(config, appender) ==
    HigherLevel(root_level(config), OrInfo(appender))

\* what is kept of stdout or stderr: in the output, in the log file
redirect(config, level) ==
    [output |-> AtLeast(level, ShellLevel(config, config.console)),
     log_file |-> AtLeast(level, ShellLevel(config, config.file))]

capture_shell_output(config) ==
    [stdout |-> redirect(config, "INFO"), stderr |-> redirect(config, "ERROR"),
     mkdir |-> AtLeast("ERROR", ShellLevel(config, config.file))]

\* filtered_logs_vector: Vector's own events that are sent, and what VECTOR_LOG lets it emit
vector_log_level_filter(config, level) ==
    IF OrInfo(config.file) \in {"FATAL", "NONE"} THEN FALSE ELSE AtLeast(level, OrInfo(config.file))

VectorEmits(config, level) ==
    LET literal == to_vector_literal(root_level(config))
    IN  literal # "off" /\ \E l \in EventLevels : to_vector_literal(l) = literal /\ AtLeast(level, l)

\* the sums of the first sizes, for each number of them
SumsOf(sizes) ==
    LET total[i \in 0..Len(sizes)] == IF i = 0 THEN 0 ELSE total[i - 1] + sizes[i]
    IN  total

\* three times the sum, in MiB
calculate_log_volume_size_limit(sizes) == 3 * SumsOf(sizes)[Len(sizes)]

------------------------------------------------------------------------------
(* The transforms processed_files_* of create_vector_config *)

UpperCase == [l \in EventLevels |-> l]

\* upcase(level)
AnyCase ==
    [l \in EventLevels \cup {"trace", "debug", "info", "warn", "error", "fatal"} |->
        CASE l = "trace" -> "TRACE" [] l = "debug" -> "DEBUG" [] l = "info" -> "INFO"
          [] l = "warn" -> "WARN" [] l = "error" -> "ERROR" [] l = "fatal" -> "FATAL" [] OTHER -> l]

processed_files_py_levels ==
    [l \in {"DEBUG", "INFO", "WARNING", "ERROR", "CRITICAL"} |->
        IF l = "WARNING" THEN "WARN" ELSE IF l = "CRITICAL" THEN "FATAL" ELSE l]

\* levels: the accepted level names; alternative: a second field that may hold
\* the time; reports_missing: an event without a time has an error; rest: what
\* else the event holds (fields, a stack trace) is added to the message; tags:
\* an event among other tags is still found
processed_files_tracing_rs ==
    [levels |-> AnyCase, alternative |-> FALSE, reports_missing |-> FALSE, rest |-> TRUE, tags |-> FALSE]
processed_files_opa_json ==
    [levels |-> AnyCase, alternative |-> TRUE, reports_missing |-> TRUE, rest |-> TRUE, tags |-> FALSE]
processed_files_log4j ==
    [levels |-> UpperCase, alternative |-> FALSE, reports_missing |-> TRUE, rest |-> TRUE, tags |-> TRUE]
processed_files_log4j2 ==
    [levels |-> UpperCase, alternative |-> TRUE, reports_missing |-> TRUE, rest |-> TRUE, tags |-> FALSE]
processed_files_py ==
    [levels |-> processed_files_py_levels, alternative |-> FALSE, reports_missing |-> TRUE,
     rest |-> FALSE, tags |-> FALSE]
processed_files_airlift ==
    [levels |-> UpperCase, alternative |-> FALSE, reports_missing |-> TRUE, rest |-> TRUE, tags |-> FALSE]

Transforms ==
    [tracing_rs |-> processed_files_tracing_rs, opa_json |-> processed_files_opa_json,
     log4j |-> processed_files_log4j, log4j2 |-> processed_files_log4j2,
     py |-> processed_files_py, airlift |-> processed_files_airlift]

\* .timestamp starts as now(); a usable field replaces it
EventTime(transform, event) ==
    LET bad == {f \in {"timestamp"} : event.timestamp = "bad"}
    IN  CASE event.timestamp = "good" -> [value |-> "timestamp", errors |-> {}]
          [] event.timestamp # "good" /\ transform.alternative ->
                IF event.time = "good" THEN [value |-> "time", errors |-> bad]
                ELSE [value |-> "now", errors |-> bad \cup {"time"}]
          [] OTHER ->
                [value |-> "now",
                 errors |-> bad \cup {f \in {"timestamp"} : transform.reports_missing}]

\* an event whose fields could be read
ParsedEvent(transform, event) ==
    LET time == EventTime(transform, event)
        known == event.level \in DOMAIN transform.levels
    IN  [timestamp |-> time.value,
         logger |-> IF event.logger = "good" THEN "logger" ELSE "",
         level |-> IF known THEN transform.levels[event.level] ELSE "INFO",
         message |-> (IF event.message = "good" THEN <<"message">> ELSE <<>>)
                        \o (IF event.rest /\ transform.rest THEN <<"rest">> ELSE <<>>),
         errors |-> time.errors \cup {f \in {"level"} : ~known}
                        \cup {f \in {"tags"} : event.shape = "among other tags"}
                        \cup {f \in {"logger", "message"} : event[f] # "good"}]

Readable(transform, event) ==
    event.shape = "object" \/ (event.shape = "among other tags" /\ transform.tags)

\* what cannot be parsed is sent as it is
UnreadableEvent_Dropped ==
    [timestamp |-> "now", logger |-> "", level |-> "INFO", message |-> <<>>, errors |-> {"event"}]
UnreadableEvent ==
    [timestamp |-> "now", logger |-> "", level |-> "INFO", message |-> <<"raw">>, errors |-> {"event"}]

Transform(transform, event) ==
    IF Readable(transform, event) THEN ParsedEvent(transform, event) ELSE UnreadableEvent

\* processed_files_stdout and processed_files_stderr
CapturedLevel == [stdout |-> "INFO", stderr |-> "ERROR"]

\* extended_logs_files removes an empty list of errors; extended_logs adds the
\* namespace, the cluster, the role and the role group
extended_logs(event) ==
    [event |-> [f \in DOMAIN event \ {f \in {"errors"} : event.errors = {}} |-> event[f]],
     tags |-> {"namespace", "cluster", "role", "roleGroup", "container", "file"}]

------------------------------------------------------------------------------
EventsRead ==
    [shape : {"object", "among other tags"},
     timestamp : {"absent", "bad", "good"}, time : {"absent", "bad", "good"},
     logger : {"absent", "empty", "good"},
     level : {None, "info", "WARN", "WARNING", "CRITICAL", "unknown"},
     message : {"absent", "empty", "good"}, rest : BOOLEAN]
    \cup [shape : {"unparsable", "not an object"}]

PipelineInit == logged = None

ReadFile ==
    \E f \in DOMAIN Transforms, e \in EventsRead :
        logged' = [what |-> "event", format |-> f, event |-> e,
                   sent |-> extended_logs(Transform(Transforms[f], e))]

ConfigureLogging ==
    \E c \in LogConfigs :
        logged' = [what |-> "config", config |-> c,
                   log4j |-> create_log4j_config(c, 10), log4j2 |-> create_log4j2_config(c, 10),
                   logback |-> create_logback_config(c, 10), shell |-> capture_shell_output(c)]

SizeVolume ==
    \E s \in LogSizes :
        logged' = [what |-> "volume", sizes |-> s, limit |-> calculate_log_volume_size_limit(s)]

PipelineNext == logged = None /\ (ReadFile \/ ConfigureLogging \/ SizeVolume)

PipelineSpec == PipelineInit /\ [][PipelineNext]_logged

------------------------------------------------------------------------------
Logged(what) == logged # None /\ logged.what = what

\* No line is lost or silently changed: a line that is not an event is sent as
\* it was read, a usable field is used, and a default is accompanied by an
\* error, except that events of tracing-rs may lack their time and that the
\* files of Python hold nothing beside the message.  An event in order has no
\* errors at all.
EventsKeepContent ==
    Logged("event") =>
        LET e == logged.event
            sent == logged.sent.event
            faults == IF "errors" \in DOMAIN sent THEN sent.errors ELSE {}
        IN  IF ~Readable(Transforms[logged.format], e) THEN sent.message = <<"raw">> /\ faults # {}
            ELSE /\ e.message = "good" => sent.message[1] = "message"
                 /\ (e.rest /\ logged.format # "py") => "rest" \in {sent.message[i] : i \in DOMAIN sent.message}
                 /\ e.timestamp = "good" => sent.timestamp = "timestamp"
                 /\ sent.level \in EventLevels
                 /\ (sent.timestamp = "now" /\ ~(logged.format = "tracing_rs" /\ e.timestamp = "absent"))
                        => faults \cap {"timestamp", "time"} # {}
                 /\ e.level \notin DOMAIN Transforms[logged.format].levels => "level" \in faults
                 /\ (e.shape = "object" /\ e.timestamp = "good" /\ e.logger = "good" /\ e.message = "good"
                        /\ e.level = "WARN" /\ logged.format # "py") => "errors" \notin DOMAIN sent

\* The level names that a framework writes are the ones the transform of its
\* files reads: an event arrives with the level it was logged with, up to the
\* levels the framework does not have.
LevelsRoundTrip ==
    Logged("config") =>
        \A l \in EventLevels :
            LET arrives(f, literal) ==
                    literal \in DOMAIN Transforms[f].levels /\ AtLeast(l, Transforms[f].levels[literal])
                coarse(f, literal) ==
                    literal \in DOMAIN Transforms[f].levels /\ Transforms[f].levels[literal] \in EventLevels
            IN  /\ \A f \in {"log4j", "log4j2"} : Transforms[f].levels[to_log4j_literal(l)] = l
                /\ arrives("log4j", to_logback_literal(l))
                /\ coarse("py", to_python_expression(l)) /\ coarse("opa_json", to_opa_literal(l))
                /\ l \in {"DEBUG", "INFO", "WARN", "ERROR", "FATAL"} =>
                        Transforms["py"].levels[to_python_expression(l)] = l

\* the events of a level that a configuration asks to be shown or written
Wanted(config, logger, level, appender) ==
    /\ AtLeast(level, IF logger \in DOMAIN config.loggers THEN config.loggers[logger]
                                                           ELSE root_level(config))
    /\ AtLeast(level, OrInfo(appender))

\* log4j's own threshold rule, for the literals of a generated file
Passes(file, logger, level, appender) ==
    LET passes(literal) == literal # "OFF" /\ AtLeast(level, literal)
    IN  passes(IF logger \in DOMAIN file.loggers THEN file.loggers[logger] ELSE file.root)
            /\ passes(appender)

\* Whatever the framework, the same events are shown and written: those at or
\* above the level of their logger and of the appender.  logback, which has no
\* FATAL, passes its ERROR events where FATAL is asked for.
FrameworksAgree ==
    Logged("config") =>
        \A logger \in {"ROOT", "org.a", "org.b"}, level \in EventLevels :
            LET c == logged.config
                seen == IF level = "ERROR" THEN "FATAL" ELSE level
            IN  /\ Wanted(c, logger, level, c.console) = Passes(logged.log4j, logger, level, logged.log4j.console)
                /\ Wanted(c, logger, level, c.file) = Passes(logged.log4j2, logger, level, logged.log4j2.file)
                /\ level # "FATAL" => (Wanted(c, logger, seen, c.file)
                                        = Passes(logged.logback, logger, level, logged.logback.file))

\* The output of scripts obeys the same configuration, as if stdout were
\* logged at INFO and stderr at ERROR by the root logger, which are the levels
\* Vector gives to the captured lines; no redirection goes into a directory
\* that is not created; and Vector's own events obey the file level too.
CapturedAsConfigured ==
    Logged("config") =>
        LET c == logged.config
            shell == logged.shell
        IN  /\ \A s \in {"stdout", "stderr"} :
                  /\ shell[s].output = Wanted(c, "ROOT", CapturedLevel[s], c.console)
                  /\ shell[s].log_file = Wanted(c, "ROOT", CapturedLevel[s], c.file)
                  /\ shell[s].log_file => shell.mkdir
            /\ \A l \in EventLevels \ {"FATAL"} :
                  /\ vector_log_level_filter(c, l) = AtLeast(l, OrInfo(c.file))
                  /\ Wanted(c, "ROOT", l, c.file) => VectorEmits(c, l)

\* The active and the archived log files of all containers fit on the volume,
\* each of them larger than its maximum by what is written before it rolls over.
LogFilesFitVolume ==
    Logged("volume") =>
        LET used == [i \in DOMAIN logged.sizes |->
                        LET file == create_log4j_config([loggers |-> <<>>, console |-> None, file |-> None],
                                                        logged.sizes[i])
                        IN  (1 + file.archived) * (file.max_file_size * 1024 + Overshoot)]
        IN  SumsOf(used)[Len(used)] <= logged.limit * 1024

\* What a product logs arrives as it was configured and fits its volume.
LogsArriveAsConfigured ==
    /\ EventsKeepContent /\ LevelsRoundTrip /\ FrameworksAgree
    /\ CapturedAsConfigured /\ LogFilesFitVolume

==============================================================================
