--------------------------- MODULE GaugeAnalysis ---------------------------
(***************************************************************************)
(* The offline analyzer of a gauge log, analyze_read_control.py: what it   *)
(* concludes from a sequence of rows, whatever wrote them.                 *)
(*                                                                         *)
(* The analyzer does not import the observer: it has its own copy of the   *)
(* protocol (labels, order of the modes).  A row is a record as the        *)
(* observer writes it; the plan a probe recorded is given by RecordedPlan. *)
(***************************************************************************)
EXTENDS Integers, Sequences, FiniteSets

CONSTANT RecordedPlan(_)    \* labels of the plan recorded in a probe, by mode

ExpectedLabels(mode) ==
    <<"usb_pre", "status_pre", "wake_reason", "current_now_pre", "current_avg_pre">>
    \o (IF mode = "treatment"
        THEN <<"middle_charge_counter", "middle_shadow", "middle_raw">>
        ELSE <<"middle_current_now_1", "middle_current_now_2", "middle_current_now_3">>)
    \o <<"usb_mid", "status_mid", "current_avg_post", "current_now_post",
         "status_post", "usb_post">>

ExpectedModes == <<"treatment", "control", "control", "treatment",
                   "treatment", "control", "control", "treatment">>

AcceptedCompleteStops == {"none", "callback_limit_reached", "service_deadline"}

Flag(condition, issue) == IF condition THEN {issue} ELSE {}

-----------------------------------------------------------------------------
(* parse_jsonl_text(): a torn line is a parse error, never a row.  A row is *)
(* its position in the log.                                                *)

Events(log) == {i \in DOMAIN log : log[i].event # "torn"}
ParseErrors(log) == DOMAIN log \ Events(log)

Positions(log, event) == {i \in Events(log) : log[i].event = event}
First(S) == CHOOSE i \in S : \A j \in S : i <= j
Last1(S) == CHOOSE i \in S : \A j \in S : i >= j

\* _event_diagnostics()
StructuralIssues(log) ==
    LET ends == Positions(log, "finished")
        armed == Positions(log, "armed")
    IN  Flag(ends = {}, "finished_event_missing")
        \cup Flag(\E i \in ends : log[i].reason = "none", "finished_reason_missing")
        \cup Flag(\E i, j \in ends : i < j, "multiple_finished_events")
        \cup Flag(\E i \in ends, j \in Events(log) : i < j, "event_after_finished")
        \cup Flag(armed = {}, "armed_event_missing")
        \cup Flag(armed # {} /\ First(Events(log)) \notin armed, "armed_event_not_first")
        \cup Flag(ParseErrors(log) # {}, "malformed_jsonl_rows")

-----------------------------------------------------------------------------
(* _attempt_record(): one row "resume-signal". *)

Trace(p) == SubSeq(RecordedPlan(p.mode), 1, p.reads)
KnownMode(p) == p.mode \in {"treatment", "control"}

\* _validate_trace_timing(): the bounds the probe itself applies, found again
\* in its stamps.  A gap or a reversal between two reads is no entry of the
\* trace: the probe ends before the second read.
TimingIssues(p) ==
    Flag(p.stop = "clock_reversal_during_read", "clock_reversal_during_read")
    \cup Flag(p.stop = "read_duration_over_limit", "read_duration_over_limit_in_trace")

LabelIssues(p) ==
    LET canonical == IF KnownMode(p) THEN ExpectedLabels(p.mode) ELSE <<>>
        trace == IF p.captured THEN Trace(p) ELSE <<>>
    IN  Flag(~KnownMode(p), "unknown_mode")
        \cup Flag(KnownMode(p) /\ RecordedPlan(p.mode) # canonical, "plan_labels_mismatch")
        \cup Flag(p.complete /\ trace # canonical, "complete_trace_labels_mismatch")
        \cup Flag(~p.complete /\ KnownMode(p) /\ trace # SubSeq(canonical, 1, Len(trace)),
                  "incomplete_trace_not_plan_prefix")

QualityIssues(p) ==
    LabelIssues(p) \cup TimingIssues(p)
    \cup Flag(p.complete /\ ~p.captured, "complete_without_captured")
    \cup Flag(p.complete /\ p.stop \notin AcceptedCompleteStops,
              "complete_with_error_or_unknown_stop_reason")
    \cup Flag(p.stop = "read_error", "trace_contains_read_error")
    \cup Flag(p.captured /\ p.index < 0, "callback_index_missing_or_invalid")
    \cup Flag(p.index >= Len(ExpectedModes), "callback_index_out_of_range")
    \cup Flag(p.index \in 0..(Len(ExpectedModes) - 1) /\ p.mode # ExpectedModes[p.index + 1],
              "mode_does_not_match_callback_sequence")
    \cup Flag(p.complete /\ p.odd # "none", "pre_post_not_numeric")

\* analyze(): the probes of the resume rows, by their rows; two captures with
\* the same index spoil both.
Attempts(log) == [i \in Positions(log, "resume-signal") |-> log[i].probe]

Captures(log) == {i \in DOMAIN Attempts(log) : Attempts(log)[i].captured}

Usable(log) ==
    LET at == Attempts(log)
    IN  {i \in Captures(log) :
            /\ at[i].complete
            /\ QualityIssues(at[i]) = {}
            /\ \A j \in Captures(log) : j # i => at[j].index # at[i].index}

\* The captures are numbered from zero, in the order of their rows.
SequenceIssues(log) ==
    Flag(\E i \in Captures(log) :
            Attempts(log)[i].index # Cardinality({j \in Captures(log) : j < i}),
         "callback_index_sequence_gap_or_reordering")

\* stream.status, stream.finished_reason and stream.possible_truncation
CompleteStructurally(log) ==
    /\ \E i \in DOMAIN log : Positions(log, "finished") = {i}
    /\ ParseErrors(log) = {}
    /\ StructuralIssues(log) \cup SequenceIssues(log) = {}

FinishedReason(log) ==
    LET ends == Positions(log, "finished")
    IN  IF ends = {} THEN "none" ELSE log[Last1(ends)].reason

PossibleTruncation(log) ==
    \/ Positions(log, "finished") = {}
    \/ ParseErrors(log) # {}
    \/ "event_after_finished" \in StructuralIssues(log)
    \/ SequenceIssues(log) # {}

\* _group_results(): the comparison of the two modes over the whole log.
UsableIn(log, mode) == {i \in Usable(log) : Attempts(log)[i].mode = mode}

GlobalComparison(log) ==
    IF \A mode \in {"treatment", "control"} : UsableIn(log, mode) # {}
    THEN "descriptive_only_both_modes_present"
    ELSE "inconclusive_missing_mode_or_usable_data"
=============================================================================
