--------------------------- MODULE MCLogPipeline ---------------------------
EXTENDS LogPipeline

MCLogConfigs ==
    [loggers : [{"ROOT", "org.a"} -> {"DEBUG", "WARN", "FATAL", "NONE"}]
                \cup [{"org.a"} -> {"TRACE", "ERROR"}] \cup {<<>>},
     console : {None, "TRACE", "ERROR"},
     file : {None} \cup EventLevels \cup {"NONE"}]

MCLogSizes == UNION {[1..n -> {1, 2, 5, 10}] : n \in 1..3}

=============================================================================
