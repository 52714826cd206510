--------------------------- MODULE GaugeObserver ---------------------------
(***************************************************************************)
(* The gauge observer: observer.py (LifecycleEngine and its Linux adapter) *)
(* and the bounded probe it runs at a resume, read_control.py.             *)
(*                                                                         *)
(* One process, one event loop: a handler runs to its end, so each handler *)
(* is one action.  What changes under a handler is what it reads (the USB  *)
(* state, the gauge) and the clocks it stamps with; both are chosen here   *)
(* at every read.  `boot` is CLOCK_BOOTTIME since arm(), in units of the   *)
(* five-second poll; it never goes back.  CLOCK_MONOTONIC only serves to   *)
(* time the reads and the gaps between them, which appear as the reasons   *)
(* they lead to.                                                           *)
(***************************************************************************)
EXTENDS Integers, Sequences

CONSTANTS
    UnplugWait,     \* MAX_UNPLUG_WAIT_SECONDS, in units
    Total,          \* MAX_TOTAL_SECONDS, and the lifetime of the probe
    Stable,         \* MIN_UNPLUG_STABLE_SECONDS
    MaxMetadata,    \* max_parent_metadata_reads
    MaxCallbacks,   \* max_callbacks of the probe
    ReadBudget      \* read_budget of the probe

\* The bounds the two constructors check.
ASSUME LimitsAssumption ==
    /\ UnplugWait \in Nat /\ Total \in Nat /\ Stable \in Nat
    /\ Total > 0
    /\ MaxMetadata \in Nat \ {0}
    /\ MaxCallbacks \in 1..8
    /\ ReadBudget \in 1..14

None == "none"
Never == -1     \* a time that has not come

VARIABLES
    phase,       \* new, waiting_unplug, observing, stopped (dead: power lost)
    boot,        \* boottime since arm()
    nextPoll,    \* earliest time of the next timer callback
    suspending,  \* when logind announced a suspend that has not ended, or Never
    candidate,   \* _unplug_candidate: time of the first "0", or Never
    reads,       \* parent_metadata_reads
    control,     \* the ReadControl: attempts, stop reason
    stopReason,  \* stop_reason of the engine
    out,         \* rows kept in memory (their number), rows in the log, sink state
    usbZero      \* history: time of the first "0" since the last other reading

vars == <<phase, boot, nextPoll, suspending, candidate, reads, control,
          stopReason, out, usbZero>>

-----------------------------------------------------------------------------
(* The probe: read_control.py. *)

ModeSequence == <<"treatment", "control", "control", "treatment",
                  "treatment", "control", "control", "treatment">>

Prelude == <<"usb_pre", "status_pre", "wake_reason",
             "current_now_pre", "current_avg_pre">>
TreatmentMiddle == <<"middle_charge_counter", "middle_shadow", "middle_raw">>
ControlMiddle == <<"middle_current_now_1", "middle_current_now_2",
                   "middle_current_now_3">>
Epilogue == <<"usb_mid", "status_mid", "current_avg_post",
              "current_now_post", "status_post", "usb_post">>

\* Mutant: the last two readings in the other order.
PlanForSwapped(mode) ==
    Prelude \o (IF mode = "treatment" THEN TreatmentMiddle ELSE ControlMiddle)
            \o <<"usb_mid", "status_mid", "current_avg_post",
                 "current_now_post", "usb_post", "status_post">>

PlanFor(mode) ==
    Prelude \o (IF mode = "treatment" THEN TreatmentMiddle ELSE ControlMiddle)
            \o Epilogue

PlanReads == 14     \* MAX_PLAN_READS

UsbLabels == {"usb_pre", "usb_mid", "usb_post"}
StatusLabels == {"status_pre", "status_mid", "status_post"}
CurrentLabels == {"current_now_pre", "current_avg_pre",
                  "current_now_post", "current_avg_post"}

\* What may end a probe before its k+1st read: the deadline, then the gap
\* since the read before.
GuardStops(k, now) ==
    IF now >= Total THEN {"service_deadline"}
    ELSE IF k > 0 THEN {"clock_reversal_between_reads", "interread_gap_over_limit"}
    ELSE {}

\* What may end a probe after the read of `label`.
ReadStops(label) ==
    {"clock_reversal_during_read", "read_error", "read_duration_over_limit"}
    \cup (IF label \in UsbLabels THEN {"usb_not_disconnected"} ELSE {})
    \cup (IF label \in StatusLabels THEN {"status_not_discharging"} ELSE {})

\* The record of a probe: the trace is the first `reads` labels of the plan,
\* `odd` the current reading that is not a number, if one is.
Probe(index, n, stop, complete, odd) ==
    [captured |-> TRUE, index |-> index, mode |-> ModeSequence[index + 1],
     reads |-> n, stop |-> stop, complete |-> complete, odd |-> odd]

NotCaptured(stop) ==
    [captured |-> FALSE, index |-> -1, mode |-> None, reads |-> 0,
     stop |-> stop, complete |-> FALSE, odd |-> None]

\* A plan read to its end: the deadline and the callback limit are still
\* looked at, and the data are kept.
CompleteStop(index, now) ==
    IF now >= Total THEN "service_deadline"
    ELSE IF index + 1 >= MaxCallbacks THEN "callback_limit_reached" ELSE None

\* The ways a probe ends: before a read, after one, at the end of its budget.
EndedBefore(index, k, now) == {Probe(index, k, s, FALSE, None) : s \in GuardStops(k, now)}

EndedAfter(index, k) ==
    {Probe(index, k, s, FALSE, None) : s \in ReadStops(PlanFor(ModeSequence[index + 1])[k])}

EndedAtBudget(index, now) ==
    IF ReadBudget < PlanReads
    THEN {Probe(index, ReadBudget, "read_budget_exhausted", FALSE, None)}
    ELSE {Probe(index, PlanReads, CompleteStop(index, now), TRUE, odd) :
            odd \in CurrentLabels \cup {None}}

\* Every probe capture() may return for callback `index` when it ends at `now`.
Probes(index, now) ==
    (UNION {EndedBefore(index, k, now) : k \in 0..(ReadBudget - 1)})
    \cup (UNION {EndedAfter(index, k) : k \in 1..ReadBudget})
    \cup EndedAtBudget(index, now)

\* capture(): the returned record and the control afterwards.  A clock that
\* raises ends the call with no record and no stop (control_exception).
Captured(start, now) ==
    IF control.stop # None THEN {<<NotCaptured(control.stop), control>>}
    ELSE IF start >= Total
    THEN {<<NotCaptured("service_deadline"),
            [control EXCEPT !.stop = "service_deadline"]>>}
    ELSE IF control.attempts >= MaxCallbacks
    THEN {<<NotCaptured("callback_limit"), [control EXCEPT !.stop = "callback_limit"]>>}
    ELSE {<<p, [attempts |-> control.attempts + 1, stop |-> p.stop]>> :
            p \in Probes(control.attempts, now)}
         \cup {<<NotCaptured("control_exception"),
                 [control EXCEPT !.attempts = @ + 1]>>}

-----------------------------------------------------------------------------
(* Rows and the sink: _emit() and finish(). *)

Row(event, reason, probe) == [event |-> event, reason |-> reason, probe |-> probe]
Plain(event) == Row(event, None, NotCaptured(None))
Torn == Plain("torn")     \* a line the sink wrote in part

\* Mutant: a sink that failed is tried again at the next row.
EmitRetrying(o, row) ==
    LET kept == [o EXCEPT !.rows = @ + 1]
    IN  {[kept EXCEPT !.log = Append(@, row)], [kept EXCEPT !.failed = TRUE]}

\* _emit(): the row is kept, then written unless the sink has failed before.
\* The write may fail, with part of the line or none of it in the file.
Emit(o, row) ==
    LET kept == [o EXCEPT !.rows = @ + 1]
    IN  IF o.failed THEN {kept}
        ELSE {[kept EXCEPT !.log = Append(@, row)]}
             \cup {[kept EXCEPT !.failed = TRUE, !.log = l] :
                    l \in {o.log, Append(o.log, Torn)}}

FinishedRow(reason) == Row("finished", reason, NotCaptured(None))

\* finish(): only the first call has an effect; one row, one close.
Finish(o, reason) ==
    /\ phase' = "stopped"
    /\ stopReason' = reason
    /\ out' \in {[w EXCEPT !.closed = TRUE] : w \in Emit(o, FinishedRow(reason))}

\* _record_and_stop(), and every "if not self._emit(row): finish(sink_error)":
\* the row, then the end; a sink that failed is the reason that counts.
RecordAndStop(row, reason) ==
    \E o \in Emit(out, row) : Finish(o, IF o.failed THEN "sink_error" ELSE reason)

\* A row after which the engine goes on to `next`, unless the sink fails.
RecordAndGo(row, next) ==
    \E o \in Emit(out, row) :
        IF o.failed THEN Finish(o, "sink_error")
        ELSE /\ out' = o /\ phase' = next /\ UNCHANGED stopReason

-----------------------------------------------------------------------------
(* The engine's reads and deadlines. *)

\* Bound: a handler takes one unit at most.
Within(t, start) == t..(start + 1)

\* _deadline_reason()
DeadlineReason(t) ==
    IF t >= Total THEN "total_timeout"
    ELSE IF phase = "waiting_unplug" /\ t >= UnplugWait THEN "unplug_wait_timeout"
    ELSE None

UsbValues == {"0", "1", "other"}

Meta(attempted, value, stop, after) ==
    [attempted |-> attempted, value |-> value, stop |-> stop, after |-> after]

\* A read begun at `before`: its deadline, its value or its failure.
MetadataAt(before, now) ==
    IF before >= Total THEN {Meta(FALSE, None, "total_timeout", before)}
    ELSE [attempted : {TRUE}, value : UsbValues, stop : {None}, after : Within(before, now)]
         \cup [attempted : {TRUE}, value : {None}, after : Within(before, now),
               stop : {"parent_metadata_read_error", "parent_clock_reversal",
                       "parent_metadata_read_over_limit"}]

\* _read_metadata("usb/online")
Metadata(now) ==
    IF reads >= MaxMetadata
    THEN {Meta(FALSE, None, "parent_metadata_budget", now)}
    ELSE UNION {MetadataAt(before, now) : before \in Within(now, now)}

\* What a metadata read leaves behind: the counter and the clock.
Account(m) ==
    /\ reads' = IF m.attempted THEN reads + 1 ELSE reads
    /\ boot' = m.after

\* The history of the "0" readings, whatever the engine makes of them.
Watch(m) == usbZero' = IF m.value # "0" THEN Never
                       ELSE IF usbZero = Never THEN m.after ELSE usbZero

-----------------------------------------------------------------------------
Init ==
    /\ phase = "new"
    /\ boot = 0
    /\ nextPoll = 1
    /\ suspending = Never
    /\ candidate = Never
    /\ reads = 0
    /\ control = [attempts |-> 0, stop |-> None]
    /\ stopReason = None
    /\ out = [rows |-> 0, log |-> <<>>, failed |-> FALSE, closed |-> FALSE]
    /\ usbZero = Never

\* arm()
Arm ==
    /\ phase = "new"
    /\ RecordAndGo(Plain("armed"), "waiting_unplug")
    /\ UNCHANGED <<boot, nextPoll, suspending, candidate, reads, control, usbZero>>

\* Mutant: the timer is not kept after the unplug.
PollDueOnce ==
    /\ phase = "waiting_unplug"
    /\ boot >= nextPoll
    /\ nextPoll' = boot + 1

\* poll_while_awake(), called by the five-second timer.
PollDue ==
    /\ phase \in {"waiting_unplug", "observing"}
    /\ boot >= nextPoll
    /\ nextPoll' = boot + 1

PollLate ==
    /\ PollDue
    /\ DeadlineReason(boot) # None
    /\ Finish(out, DeadlineReason(boot))
    /\ UNCHANGED <<boot, suspending, candidate, reads, control, usbZero>>

PollReading(m) ==
    /\ PollDue
    /\ DeadlineReason(boot) = None
    /\ m \in Metadata(boot)
    /\ Account(m)
    /\ Watch(m)
    /\ UNCHANGED <<suspending, control>>

\* The read itself, the deadline after it, or the value ends the observation.
PollStops ==
    \E m \in Metadata(boot) :
        /\ PollReading(m)
        /\ \/ /\ m.stop # None
              /\ RecordAndStop(Plain("parent-poll"), m.stop)
           \/ /\ m.stop = None /\ DeadlineReason(m.after) # None
              /\ RecordAndStop(Plain("poll-deadline"), DeadlineReason(m.after))
           \/ /\ m.stop = None /\ DeadlineReason(m.after) = None /\ m.value = "other"
              /\ RecordAndStop(Plain("poll-invalid-usb"), "invalid_usb_value")
        /\ UNCHANGED candidate

\* A value read in time.
PollValue(m, v) ==
    /\ PollReading(m)
    /\ m.stop = None
    /\ DeadlineReason(m.after) = None
    /\ m.value = v

Quiet == UNCHANGED <<phase, stopReason, out>>

\* Mutant: the candidate survives a reconnection.
PollWaitingOneKept ==
    \E m \in Metadata(boot) :
        phase = "waiting_unplug" /\ PollValue(m, "1") /\ Quiet /\ UNCHANGED candidate

PollWaitingOne ==
    \E m \in Metadata(boot) :
        /\ phase = "waiting_unplug"
        /\ PollValue(m, "1")
        /\ candidate' = Never
        /\ \/ candidate = Never /\ Quiet
           \/ /\ candidate # Never
              /\ RecordAndGo(Plain("unplug-candidate-cancelled"), phase)

PollWaitingZero ==
    \E m \in Metadata(boot) :
        /\ phase = "waiting_unplug"
        /\ PollValue(m, "0")
        /\ \/ /\ candidate = Never
              /\ candidate' = m.after
              /\ RecordAndGo(Plain("unplug-candidate"), phase)
           \/ /\ candidate # Never /\ m.after - candidate < Stable
              /\ Quiet /\ UNCHANGED candidate
           \/ /\ candidate # Never /\ m.after - candidate >= Stable
              /\ RecordAndGo(Plain("unplugged"), "observing")
              /\ UNCHANGED candidate

PollObserving ==
    \E m \in Metadata(boot), v \in {"0", "1"} :
        /\ phase = "observing"
        /\ PollValue(m, v)
        /\ UNCHANGED candidate
        /\ IF v = "1"
           THEN RecordAndStop(Plain("replugged"), "usb_reconnected")
           ELSE Quiet

\* on_prepare_for_sleep(TRUE).  Outside OBSERVING the signal is ignored.
PrepareSleepReading(m) ==
    /\ suspending = Never
    /\ suspending' = boot
    /\ phase = "observing"
    /\ DeadlineReason(boot) = None
    /\ m \in Metadata(boot)
    /\ Account(m)
    /\ Watch(m)
    /\ UNCHANGED <<nextPoll, candidate, control>>

PrepareSleep ==
    \E m \in Metadata(boot) :
        /\ PrepareSleepReading(m)
        /\ CASE m.stop # None ->
                  RecordAndStop(Plain("prepare-sleep"), m.stop)
             [] m.value = "1" ->
                  RecordAndStop(Plain("replugged-during-prepare"),
                                "usb_reconnected")
             [] m.value = "other" ->
                  RecordAndStop(Plain("prepare-invalid-usb"),
                                "invalid_usb_value")
             [] m.value = "0" /\ DeadlineReason(m.after) # None ->
                  RecordAndStop(Plain("prepare-sleep"),
                                DeadlineReason(m.after))
             [] OTHER ->
                  RecordAndGo(Plain("prepare-sleep"), phase)

PrepareSleepIgnored ==
    /\ suspending = Never
    /\ phase = "waiting_unplug"
    /\ suspending' = boot
    /\ UNCHANGED <<boot, nextPoll, candidate, reads, control, usbZero>>
    /\ Quiet

\* A signal handled after the deadline: no read, no row but the end.
SignalLate ==
    /\ phase = "observing"
    /\ DeadlineReason(boot) # None
    /\ suspending' = IF suspending = Never THEN boot ELSE Never
    /\ Finish(out, DeadlineReason(boot))
    /\ UNCHANGED <<boot, nextPoll, candidate, reads, control, usbZero>>

\* Mutant: a complete probe at the callback limit is no reason to stop.
MapProbeStopLenient(stop) ==
    IF stop = "callback_limit_reached" THEN None ELSE "probe_stopped"

\* _map_probe_stop()
MapProbeStop(stop) ==
    CASE stop = "usb_not_disconnected" -> "usb_reconnected"
      [] stop = "status_not_discharging" -> "status_changed"
      [] stop = "read_error" -> "gauge_read_error"
      [] stop = "read_duration_over_limit" -> "probe_read_over_limit"
      [] stop = "interread_gap_over_limit" -> "probe_interread_gap_over_limit"
      [] stop = "read_budget_exhausted" -> "probe_read_budget"
      [] stop = "service_deadline" -> "total_timeout"
      [] stop = "callback_limit_reached" -> "callback_limit"
      [] OTHER -> stop

\* on_prepare_for_sleep(FALSE): the probe comes before anything else is read.
\* A suspend is taken to last one unit at least.
Resume ==
    /\ suspending # Never
    /\ boot > suspending
    /\ phase = "observing"
    /\ DeadlineReason(boot) = None
    /\ suspending' = Never
    /\ \E start \in Within(boot, boot) : \E now \in Within(start, boot) :
       \E c \in Captured(start, now) :
        LET row == Row("resume-signal", None, c[1])
            why == IF c[1].stop # None THEN MapProbeStop(c[1].stop)
                   ELSE DeadlineReason(now)
        IN  /\ control' = c[2]
            /\ boot' = now
            /\ IF why # None THEN RecordAndStop(row, why)
               ELSE RecordAndGo(row, phase)
    /\ UNCHANGED <<nextPoll, candidate, reads, usbZero>>

ResumeIgnored ==
    /\ suspending # Never
    /\ boot > suspending
    /\ phase = "waiting_unplug"
    /\ suspending' = Never
    /\ UNCHANGED <<boot, nextPoll, candidate, reads, control, usbZero>>
    /\ Quiet

\* The adapter's finally clause, reached by an exception or an interrupt.
AdapterExit ==
    /\ phase # "stopped"
    /\ Finish(out, "adapter_exit")
    /\ UNCHANGED <<boot, nextPoll, suspending, candidate, reads, control, usbZero>>

\* Time passes between two callbacks, awake or suspended.
Tick ==
    /\ phase \in {"waiting_unplug", "observing"}
    /\ boot <= Total
    /\ boot' = boot + 1
    /\ UNCHANGED <<phase, nextPoll, suspending, candidate, reads, control,
                   stopReason, out, usbZero>>

Poll == PollLate \/ PollStops \/ PollWaitingOne \/ PollWaitingZero \/ PollObserving

Next ==
    \/ Arm
    \/ PollLate
    \/ PollStops
    \/ PollWaitingOne
    \/ PollWaitingZero
    \/ PollObserving
    \/ PrepareSleep
    \/ PrepareSleepIgnored
    \/ SignalLate
    \/ Resume
    \/ ResumeIgnored
    \/ AdapterExit
    \/ Tick

Spec == Init /\ [][Next]_vars

-----------------------------------------------------------------------------
\* The reasons of the probe, of the engine, and the names of the rows.
ProbeStops ==
    {None, "service_deadline", "callback_limit", "callback_limit_reached",
     "control_exception", "read_budget_exhausted", "clock_reversal_between_reads",
     "interread_gap_over_limit", "clock_reversal_during_read", "read_error",
     "read_duration_over_limit", "usb_not_disconnected", "status_not_discharging"}
MetadataStops ==
    {"parent_metadata_budget", "parent_metadata_read_error",
     "parent_clock_reversal", "parent_metadata_read_over_limit"}
MappedStops ==
    {"status_changed", "gauge_read_error", "probe_read_over_limit",
     "probe_interread_gap_over_limit", "probe_read_budget"}
EngineReasons ==
    ProbeStops \cup MetadataStops \cup MappedStops
    \cup {"total_timeout", "unplug_wait_timeout", "invalid_usb_value",
          "usb_reconnected", "sink_error", "adapter_exit"}
Events ==
    {"armed", "parent-poll", "poll-deadline", "poll-invalid-usb",
     "unplug-candidate", "unplug-candidate-cancelled", "unplugged", "replugged",
     "prepare-sleep", "replugged-during-prepare", "prepare-invalid-usb",
     "resume-signal", "finished", "torn"}

Probed == [captured : BOOLEAN, index : Int, mode : {"treatment", "control", None},
           reads : Nat, stop : ProbeStops, complete : BOOLEAN,
           odd : CurrentLabels \cup {None}]
Rows == [event : Events, reason : EngineReasons, probe : Probed]
Outs == [rows : Nat, log : Seq(Rows), failed : BOOLEAN, closed : BOOLEAN]
Controls == [attempts : 0..MaxCallbacks, stop : ProbeStops]

\* Types of the state of the observer.
TypeOK ==
    /\ phase \in {"new", "waiting_unplug", "observing", "stopped", "dead"}
    /\ boot \in Nat /\ nextPoll \in Nat
    /\ suspending \in Nat \cup {Never}
    /\ candidate \in Nat \cup {Never} /\ usbZero \in Nat \cup {Never}
    /\ reads \in 0..MaxMetadata
    /\ control \in Controls
    /\ stopReason \in EngineReasons
    /\ out \in Outs

\* The probe never outlives the engine: once the control has stopped, for
\* whatever reason, the engine has stopped too and reads nothing more.
StopTogether == control.stop # None => phase = "stopped"

\* No gauge is read before a stable unplug: while the engine observes, the
\* readings since the last one that was not "0" span the required time.
StableUnplug ==
    phase = "observing" => usbZero # Never /\ boot - usbZero >= Stable
=============================================================================
