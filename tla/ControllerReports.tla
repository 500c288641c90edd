------------------------- MODULE ControllerReports -------------------------
(***************************************************************************)
(* What an operator tells about its work and learns about its cluster:     *)
(* the result of a reconciliation as log entries and a Kubernetes event    *)
(* (logging/controller.rs, logging/k8s_events.rs), and the feature gates   *)
(* in the metrics of the API server (client/feature_gates.rs).             *)
(* A text is the sequence of the lengths of its characters in UTF-8.       *)
(***************************************************************************)
EXTENDS Integers, Sequences, SequencesExt, FiniteSetsExt, Options

CONSTANTS
    Outcomes,       \* reconciliations: [result, chain, category, secondary, published]
    NoteLimits,     \* limits of an event's note in bytes; the code has 1024
    MetricBodies    \* /metrics responses, as sequences of lines

\* A character has up to four bytes; an error has at least itself in its chain.
ASSUME ReportConstants ==
    /\ \A o \in Outcomes : o.chain \in Seq(Seq(1..4)) /\ o.chain # <<>>
    /\ NoteLimits \subseteq Nat
    /\ \A b \in MetricBodies : b \in Seq({b[i] : i \in DOMAIN b})

VARIABLE reported   \* the case looked at, and what came of it

------------------------------------------------------------------------------
(* Events *)

EllipsisLen == 3

\* the bytes of the first characters, for each number of them
BytesUpTo(text) ==
    LET bytes[k \in 0..Len(text)] == IF k = 0 THEN 0 ELSE bytes[k - 1] + text[k]
    IN  bytes

ByteLength(text) == BytesUpTo(text)[Len(text)]

find_start_of_char_Any(text, pos) == pos

\* the greatest character boundary up to pos
find_start_of_char(text, pos) ==
    Max({BytesUpTo(text)[k] : k \in 0..Len(text)} \cap 0..pos)

\* String::truncate, which panics inside of a character
Truncated(text, bytes) ==
    LET kept == {k \in 0..Len(text) : BytesUpTo(text)[k] = bytes}
    IN  IF kept = {} THEN Err("panic") ELSE Ok(SubSeq(text, 1, Max(kept)))

truncate_with_ellipsis(text, max_len) ==
    LET end == Max({max_len - EllipsisLen, 0})       \* saturating_sub
        cut == Truncated(text, find_start_of_char(text, end))
    IN  IF ByteLength(text) <= max_len THEN Ok(text)
        ELSE IF ~cut.ok THEN cut
        ELSE Ok(cut.value \o IF EllipsisLen <= max_len THEN <<EllipsisLen>> ELSE <<>>)

\* the error and its sources, joined by ": "
ChainUpTo(errors) ==
    LET text[n \in 0..(Len(errors) - 1)] ==
          IF n = 0 THEN errors[1] ELSE text[n - 1] \o <<1, 1>> \o errors[n + 1]
    IN  text

Chain(errors) == ChainUpTo(errors)[Len(errors) - 1]

error_to_event(outcome, limit) ==
    [type |-> "Warning", reason |-> outcome.category, action |-> "Reconcile",
     note |-> truncate_with_ellipsis(Chain(outcome.chain), limit), secondary |-> outcome.secondary]

\* errors of other kinds are for the administrator and not about an object
publish_controller_error_as_k8s_event(outcome, limit) ==
    IF outcome.result # "ReconcilerFailed" THEN [events |-> <<>>, logs |-> <<>>]
    ELSE IF outcome.published THEN [events |-> <<error_to_event(outcome, limit)>>, logs |-> <<>>]
    ELSE [events |-> <<>>, logs |-> <<"error">>]

report_controller_reconciled(outcome, limit) ==
    IF outcome.result = "Ok" THEN [events |-> <<>>, logs |-> <<"info">>]
    ELSE LET publish == publish_controller_error_as_k8s_event(outcome, limit)
         IN  [publish EXCEPT !.logs = <<IF outcome.result = "QueueError" THEN "warn" ELSE "error">> \o @]

------------------------------------------------------------------------------
(* Feature gates *)

FeatureStages == {"ALPHA", "BETA", "", "DEPRECATED"}

\* a line [metric, labels, count]; labels are None if their syntax is wrong
parse_from_metric(line) ==
    IF /\ line.metric = "kubernetes_feature_enabled"
       /\ line.labels # None /\ Cardinality(DOMAIN line.labels) >= 2
       /\ {"name", "stage"} \subseteq DOMAIN line.labels
       /\ line.labels["stage"] \in FeatureStages
       /\ line.count \in 0..255
    THEN Ok([name |-> line.labels["name"], stage |-> line.labels["stage"], enabled |-> line.count # 0])
    ELSE Err("ParseFeatureGate")

\* Iterator::filter: the elements at these places, of the first i
Filtered(s, places) ==
    LET kept[i \in 0..Len(s)] ==
          IF i = 0 THEN <<>> ELSE IF i \in places THEN Append(kept[i - 1], s[i]) ELSE kept[i - 1]
    IN  kept

filter(s, places) == Filtered(s, places)[Len(s)]

\* the lines that begin with the name of the metric, other metrics among them
MetricLines(body) ==
    filter(body, {i \in DOMAIN body : body[i].metric \in
                     {"kubernetes_feature_enabled", "kubernetes_feature_enabled_total"}})

\* one line that cannot be parsed fails the whole request
parse_from_metrics(body) ==
    LET gates == MetricLines(body)
    IN  IF \A i \in DOMAIN gates : parse_from_metric(gates[i]).ok
        THEN Ok([i \in DOMAIN gates |-> parse_from_metric(gates[i]).value])
        ELSE Err("ParseFeatureGate")

\* get_enabled_feature_gates, get_disabled_feature_gates
get_gates(body, enabled) ==
    LET gates == parse_from_metrics(body)
    IN  IF gates.ok THEN Ok(filter(gates.value, {i \in DOMAIN gates.value : gates.value[i].enabled = enabled}))
        ELSE gates

------------------------------------------------------------------------------
ReportInit == reported = None

ReportNext ==
    /\ reported = None
    /\ \/ \E o \in Outcomes, n \in NoteLimits :
             reported' = [what |-> "outcome", of |-> o, limit |-> n, is |-> report_controller_reconciled(o, n)]
       \/ \E b \in MetricBodies :
             reported' = [what |-> "gates", of |-> b, enabled |-> get_gates(b, TRUE), disabled |-> get_gates(b, FALSE)]

ReportSpec == ReportInit /\ [][ReportNext]_reported

Reported(what) == reported # None /\ reported.what = what

\* The note of an event never exceeds the limit of the API server, is never cut
\* inside of a character, and is the whole chain of errors where it fits;
\* otherwise it keeps all that fits in front of the ellipsis.
EventNotesFit ==
    Reported("outcome") =>
        \A e \in ToSet(reported.is.events) :
            LET text == Chain(reported.of.chain)
                note == e.note.value
                kept == SubSeq(text, 1, Len(note) - 1)
            IN  /\ e.note.ok /\ ByteLength(note) <= reported.limit
                /\ ByteLength(text) <= reported.limit => note = text
                /\ (ByteLength(text) > reported.limit /\ EllipsisLen <= reported.limit) =>
                        /\ note = Append(kept, EllipsisLen)
                        /\ ByteLength(kept) + text[Len(kept) + 1] + EllipsisLen > reported.limit

\* A failed reconciliation is never silent: it is logged as an error, and there
\* is an event for the user or a second log entry that there is none.  Nothing
\* else is reported to the user.
FailuresAreReported ==
    Reported("outcome") =>
        LET is == reported.is
        IN  /\ reported.of.result \notin {"Ok", "QueueError"} => "error" \in ToSet(is.logs)
            /\ is.logs # <<>>
            /\ reported.of.result = "ReconcilerFailed" <=> Len(is.events) + Len(is.logs) = 2
            /\ is.events # <<>> => is.events[1].reason = reported.of.category
                                    /\ is.events[1].secondary = reported.of.secondary

\* Every gate of the API server is either enabled or disabled; if one of them
\* cannot be read, both requests fail and none is reported as missing.
GatesAreComplete ==
    Reported("gates") =>
        LET gates == MetricLines(reported.of)
        IN  /\ reported.enabled.ok = reported.disabled.ok
            /\ reported.enabled.ok =>
                  /\ Len(reported.enabled.value) + Len(reported.disabled.value) = Len(gates)
                  /\ \A i \in DOMAIN gates :
                        LET gate == parse_from_metric(gates[i]).value
                        IN  gate \in ToSet(IF gates[i].count # 0 THEN reported.enabled.value ELSE reported.disabled.value)

\* Nothing that an operator reports or is told is lost or cut in the wrong place.
ReportsAreComplete == EventNotesFit /\ FailuresAreReported /\ GatesAreComplete

=============================================================================
