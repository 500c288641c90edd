------------------------ MODULE MCControllerReports ------------------------
EXTENDS ControllerReports

MCTexts == UNION {[1..n -> {1, 2, 4}] : n \in 0..4}

MCOutcomes ==
    [result : {"ReconcilerFailed"}, chain : {<<t>> : t \in MCTexts} \cup {<<<<1>>, t>> : t \in MCTexts},
     category : {"Bar"}, secondary : {None, "ConfigMap"}, published : BOOLEAN]
    \cup [result : {"Ok", "QueueError", "ObjectNotFound"}, chain : {<<<<1>>>>},
          category : {"Bar"}, secondary : {None}, published : BOOLEAN]

MCNoteLimits == {2, 5, 7, 8}

MetricLine(metric, labels, count) == [metric |-> metric, labels |-> labels, count |-> count]

MCMetricLines ==
    {MetricLine("kubernetes_feature_enabled", [name |-> n, stage |-> s], c) :
        n \in {"A", "B"}, s \in {"ALPHA", ""}, c \in {0, 1}}
    \cup {MetricLine("kubernetes_feature_enabled", [name |-> "A", stage |-> "GAMMA"], 1),
          MetricLine("kubernetes_feature_enabled", [name |-> "A"], 1),
          MetricLine("kubernetes_feature_enabled", [name |-> "A", stage |-> "BETA"], 256),
          MetricLine("kubernetes_feature_enabled", None, 1),
          MetricLine("kubernetes_feature_enabled_total", [name |-> "A", stage |-> "BETA"], 1),
          MetricLine("apiserver_requests", None, 1)}

MCMetricBodies == UNION {[1..n -> MCMetricLines] : n \in 0..3}

=============================================================================
