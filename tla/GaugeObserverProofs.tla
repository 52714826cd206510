------------------------ MODULE GaugeObserverProofs ------------------------
(***************************************************************************)
(* Proofs about GaugeObserver: typing, the stable unplug and the common    *)
(* end of probe and engine, for every value of the limits.  Then about     *)
(* GaugeEvidence: what the log is worth to the analyzer, however its sink  *)
(* failed and its end was lost.                                            *)
(***************************************************************************)
EXTENDS GaugeEvidence, TLAPS

\* While the engine waits, its candidate is the start of the current run of
\* "0" readings; this is what makes the test on the candidate a statement
\* about all the readings in between.
CandidateIsRun ==
    /\ usbZero <= boot
    /\ phase = "new" => candidate = Never /\ usbZero = Never
    /\ phase = "waiting_unplug" => candidate = usbZero

GaugeInv == TypeOK /\ CandidateIsRun /\ StableUnplug /\ StopTogether

-----------------------------------------------------------------------------
(* What the helpers return. *)

LEMMA NotCapturedTypes ==
    ASSUME NEW stop \in ProbeStops
    PROVE  NotCaptured(stop) \in Probed /\ NotCaptured(stop).stop = stop
  BY DEF NotCaptured, Probed, None

LEMMA RowTypes ==
    ASSUME NEW event \in Events, NEW reason \in EngineReasons, NEW probe \in Probed
    PROVE  Row(event, reason, probe) \in Rows
  BY DEF Row, Rows

LEMMA PlainTypes == ASSUME NEW event \in Events PROVE Plain(event) \in Rows
<1>1. None \in ProbeStops /\ None \in EngineReasons
  BY DEF ProbeStops, EngineReasons
<1>2. QED
  BY <1>1, NotCapturedTypes, RowTypes DEF Plain

LEMMA EmitTypes ==
    ASSUME NEW o \in Outs, NEW row \in Rows, NEW w \in Emit(o, row)
    PROVE  w \in Outs
<1>1. Torn \in Rows
  BY PlainTypes DEF Torn, Events
<1> DEFINE kept == [o EXCEPT !.rows = @ + 1]
<1>2. kept \in Outs /\ kept.log = o.log /\ o.log \in Seq(Rows)
  BY DEF Outs
<1>3. Append(o.log, row) \in Seq(Rows) /\ Append(o.log, Torn) \in Seq(Rows)
  BY <1>1, <1>2
<1>4. \/ w = kept
      \/ w = [kept EXCEPT !.log = Append(@, row)]
      \/ \E l \in {o.log, Append(o.log, Torn)} :
            w = [kept EXCEPT !.failed = TRUE, !.log = l]
  BY DEF Emit
<1> HIDE DEF kept
<1>5. QED
  BY <1>2, <1>3, <1>4 DEF Outs

LEMMA FinishTypes ==
    ASSUME NEW o \in Outs, NEW reason \in EngineReasons, Finish(o, reason)
    PROVE  out' \in Outs /\ phase' = "stopped" /\ stopReason' = reason
<1>1. FinishedRow(reason) \in Rows
  BY RowTypes, NotCapturedTypes DEF FinishedRow, ProbeStops, Events
<1>2. PICK w \in Emit(o, FinishedRow(reason)) : out' = [w EXCEPT !.closed = TRUE]
  BY DEF Finish
<1>3. w \in Outs
  BY <1>1, EmitTypes
<1>4. QED
  BY <1>2, <1>3 DEF Finish, Outs

LEMMA RecordAndStopTypes ==
    ASSUME out \in Outs, NEW row \in Rows, NEW reason \in EngineReasons,
           RecordAndStop(row, reason)
    PROVE  out' \in Outs /\ phase' = "stopped" /\ stopReason' \in EngineReasons
<1>1. PICK o \in Emit(out, row) :
            Finish(o, IF o.failed THEN "sink_error" ELSE reason)
  BY DEF RecordAndStop
<1>2. o \in Outs
  BY EmitTypes
<1>3. (IF o.failed THEN "sink_error" ELSE reason) \in EngineReasons
  BY DEF EngineReasons
<1>4. QED
  BY <1>1, <1>2, <1>3, FinishTypes

LEMMA RecordAndGoTypes ==
    ASSUME out \in Outs, stopReason \in EngineReasons, NEW row \in Rows, NEW next,
           RecordAndGo(row, next)
    PROVE  out' \in Outs /\ phase' \in {next, "stopped"} /\ stopReason' \in EngineReasons
<1>1. PICK o \in Emit(out, row) :
            IF o.failed THEN Finish(o, "sink_error")
            ELSE out' = o /\ phase' = next /\ UNCHANGED stopReason
  BY DEF RecordAndGo
<1>2. o \in Outs
  BY EmitTypes
<1>3. CASE o.failed
  <2>1. "sink_error" \in EngineReasons
    BY DEF EngineReasons
  <2>2. QED
    BY <1>1, <1>2, <1>3, <2>1, FinishTypes
<1>4. CASE ~o.failed
  BY <1>1, <1>2, <1>4
<1>5. QED
  BY <1>3, <1>4

LEMMA MetadataFacts ==
    ASSUME TypeOK, NEW m \in Metadata(boot)
    PROVE  /\ m.after \in Nat /\ m.after >= boot
           /\ m.attempted \in BOOLEAN /\ m.stop \in EngineReasons
           /\ m.attempted => reads < MaxMetadata
           /\ m.value \in UsbValues => m.attempted
           /\ m.stop # None \/ m.value \in UsbValues
<1>1. CASE reads >= MaxMetadata
  <2>1. m = Meta(FALSE, None, "parent_metadata_budget", boot)
    BY <1>1 DEF Metadata
  <2>2. "parent_metadata_budget" \in EngineReasons
    BY DEF EngineReasons, MetadataStops
  <2>3. QED
    BY <2>1, <2>2 DEF Meta, None, UsbValues, TypeOK
<1>2. CASE ~(reads >= MaxMetadata)
  <2>1. PICK before \in Within(boot, boot) : m \in MetadataAt(before, boot)
    BY <1>2 DEF Metadata
  <2>2. boot \in Nat /\ before \in Nat /\ before >= boot /\ reads < MaxMetadata
    BY <1>2, <2>1, LimitsAssumption DEF Within, TypeOK
  <2>3. CASE m = Meta(FALSE, None, "total_timeout", before)
    <3>1. "total_timeout" \in EngineReasons
      BY DEF EngineReasons
    <3>2. QED
      BY <2>2, <2>3, <3>1 DEF Meta, None, UsbValues
  <2>4. CASE m \in [attempted : {TRUE}, value : UsbValues, stop : {None},
                   after : Within(before, boot)]
    <3>1. None \in EngineReasons
      BY DEF EngineReasons, ProbeStops
    <3>2. m.after \in Nat /\ m.after >= boot
      BY <2>2, <2>4 DEF Within
    <3>3. QED
      BY <2>2, <2>4, <3>1, <3>2
  <2>5. CASE m \in [attempted : {TRUE}, value : {None}, after : Within(before, boot),
                   stop : {"parent_metadata_read_error", "parent_clock_reversal",
                           "parent_metadata_read_over_limit"}]
    <3>1. m.stop \in EngineReasons /\ m.stop # None
      BY <2>5 DEF EngineReasons, MetadataStops, None
    <3>2. m.after \in Nat /\ m.after >= boot
      BY <2>2, <2>5 DEF Within
    <3>3. QED
      BY <2>2, <2>5, <3>1, <3>2
  <2>6. QED
    BY <2>1, <2>3, <2>4, <2>5 DEF MetadataAt
<1>3. QED
  BY <1>1, <1>2

LEMMA DeadlineTypes == ASSUME NEW t PROVE DeadlineReason(t) \in EngineReasons
  BY DEF DeadlineReason, EngineReasons, ProbeStops

LEMMA MapTypes ==
    ASSUME NEW stop \in ProbeStops
    PROVE  MapProbeStop(stop) \in EngineReasons /\ (stop # None => MapProbeStop(stop) # None)
  BY DEF MapProbeStop, None, EngineReasons, ProbeStops, MappedStops

-----------------------------------------------------------------------------
(* The probe. *)

LEMMA StopsAreNamed ==
    /\ \A k, now : GuardStops(k, now) \subseteq ProbeStops
    /\ \A label : ReadStops(label) \subseteq ProbeStops
    /\ \A index, now : CompleteStop(index, now) \in ProbeStops
  BY DEF GuardStops, ReadStops, CompleteStop, ProbeStops

LEMMA ProbeTypes ==
    ASSUME NEW index \in 0..7, NEW n \in Nat, NEW stop \in ProbeStops,
           NEW complete \in BOOLEAN, NEW odd \in CurrentLabels \cup {None}
    PROVE  Probe(index, n, stop, complete, odd) \in Probed
<1>1. index + 1 \in 1..8 /\ index \in Int
  OBVIOUS
<1>2. \A i \in 1..8 : ModeSequence[i] \in {"treatment", "control"}
  BY DEF ModeSequence
<1>3. QED
  BY <1>1, <1>2 DEF Probe, Probed

LEMMA ProbesTypes ==
    ASSUME NEW index \in 0..7, NEW now, NEW p \in Probes(index, now)
    PROVE  p \in Probed
<1>1. ReadBudget \in 1..14 /\ ReadBudget \in Nat
  BY LimitsAssumption
<1>2. None \in CurrentLabels \cup {None} /\ FALSE \in BOOLEAN
  OBVIOUS
<1>3. CASE \E k \in 0..(ReadBudget - 1) : p \in EndedBefore(index, k, now)
  <2>1. PICK k \in 0..(ReadBudget - 1) : p \in EndedBefore(index, k, now)
    BY <1>3
  <2>2. PICK s \in GuardStops(k, now) : p = Probe(index, k, s, FALSE, None)
    BY <2>1 DEF EndedBefore
  <2>3. k \in Nat /\ s \in ProbeStops
    BY <1>1, <2>1, <2>2, StopsAreNamed
  <2>4. QED
    BY <1>2, <2>2, <2>3, ProbeTypes
<1>4. CASE \E k \in 1..ReadBudget : p \in EndedAfter(index, k)
  <2>1. PICK k \in 1..ReadBudget : p \in EndedAfter(index, k)
    BY <1>4
  <2>2. PICK s \in ReadStops(PlanFor(ModeSequence[index + 1])[k]) :
            p = Probe(index, k, s, FALSE, None)
    BY <2>1 DEF EndedAfter
  <2>3. k \in Nat /\ s \in ProbeStops
    BY <1>1, <2>1, <2>2, StopsAreNamed
  <2>4. QED
    BY <1>2, <2>2, <2>3, ProbeTypes
<1>5. CASE p \in EndedAtBudget(index, now)
  <2>1. "read_budget_exhausted" \in ProbeStops
    BY DEF ProbeStops
  <2>2. CASE p = Probe(index, ReadBudget, "read_budget_exhausted", FALSE, None)
    BY <1>1, <1>2, <2>1, <2>2, ProbeTypes
  <2>3. CASE \E odd \in CurrentLabels \cup {None} :
                p = Probe(index, PlanReads, CompleteStop(index, now), TRUE, odd)
    BY <2>3, ProbeTypes, StopsAreNamed DEF PlanReads
  <2>4. QED
    BY <1>5, <2>2, <2>3 DEF EndedAtBudget
<1>6. \/ p \in UNION {EndedBefore(index, k, now) : k \in 0..(ReadBudget - 1)}
      \/ p \in UNION {EndedAfter(index, k) : k \in 1..ReadBudget}
      \/ p \in EndedAtBudget(index, now)
  BY DEF Probes
<1>7. QED
  BY <1>3, <1>4, <1>5, <1>6

\* capture() reports why it stopped: a control that stops returns its reason.
LEMMA CapturedFacts ==
    ASSUME control \in Controls, control.stop = None,
           NEW start, NEW now, NEW c \in Captured(start, now)
    PROVE  /\ c[1] \in Probed
           /\ c[2] \in Controls
           /\ c[2].stop # None => c[1].stop # None
<1>1. control.attempts \in 0..MaxCallbacks /\ MaxCallbacks \in 1..8
  BY LimitsAssumption DEF Controls
<1>2. CASE start >= Total
  <2>1. c = <<NotCaptured("service_deadline"),
              [control EXCEPT !.stop = "service_deadline"]>>
    BY <1>2 DEF Captured
  <2>2. QED
    BY <2>1, NotCapturedTypes DEF Controls, ProbeStops, None
<1>3. CASE ~(start >= Total) /\ control.attempts >= MaxCallbacks
  <2>1. c = <<NotCaptured("callback_limit"), [control EXCEPT !.stop = "callback_limit"]>>
    BY <1>3 DEF Captured
  <2>2. QED
    BY <2>1, NotCapturedTypes DEF Controls, ProbeStops, None
<1>4. CASE ~(start >= Total) /\ ~(control.attempts >= MaxCallbacks)
  <2>1. control.attempts \in 0..7 /\ control.attempts + 1 \in 0..MaxCallbacks
    BY <1>1, <1>4
  <2>2. \/ c = <<NotCaptured("control_exception"), [control EXCEPT !.attempts = @ + 1]>>
        \/ \E p \in Probes(control.attempts, now) :
              c = <<p, [attempts |-> control.attempts + 1, stop |-> p.stop]>>
    BY <1>4 DEF Captured
  <2>3. CASE c = <<NotCaptured("control_exception"), [control EXCEPT !.attempts = @ + 1]>>
    BY <2>1, <2>3, NotCapturedTypes DEF Controls, ProbeStops, None
  <2>4. CASE \E p \in Probes(control.attempts, now) :
              c = <<p, [attempts |-> control.attempts + 1, stop |-> p.stop]>>
    <3>1. PICK p \in Probes(control.attempts, now) :
              c = <<p, [attempts |-> control.attempts + 1, stop |-> p.stop]>>
      BY <2>4
    <3>2. p \in Probed
      BY <2>1, ProbesTypes
    <3>3. p.stop \in ProbeStops
      BY <3>2 DEF Probed
    <3>4. QED
      BY <2>1, <3>1, <3>2, <3>3 DEF Controls
  <2>5. QED
    BY <2>2, <2>3, <2>4
<1>5. QED
  BY <1>2, <1>3, <1>4


-----------------------------------------------------------------------------
(* One lemma per action. *)

LEMMA ReadFacts ==
    ASSUME GaugeInv, NEW m \in Metadata(boot), Account(m), Watch(m)
    PROVE  /\ boot' = m.after /\ boot' \in Nat /\ boot' >= boot
           /\ reads' \in 0..MaxMetadata
           /\ usbZero' \in Nat \cup {Never} /\ usbZero' <= boot'
<1>1. /\ m.after \in Nat /\ m.after >= boot /\ m.attempted \in BOOLEAN
      /\ m.attempted => reads < MaxMetadata
  BY MetadataFacts DEF GaugeInv
<1>2. boot \in Nat /\ reads \in 0..MaxMetadata /\ MaxMetadata \in Nat
  BY LimitsAssumption DEF GaugeInv, TypeOK
<1>3. reads' \in 0..MaxMetadata
  BY <1>1, <1>2 DEF Account
<1>4. boot' = m.after
  BY DEF Account
<1>5. usbZero \in Nat \cup {Never} /\ usbZero <= boot
  BY DEF GaugeInv, TypeOK, CandidateIsRun
<1>6. usbZero' \in {Never, usbZero, m.after}
  BY DEF Watch
<1>7. QED
  BY <1>1, <1>2, <1>3, <1>4, <1>5, <1>6 DEF Never

\* An action that ends the engine has nothing left to show but types.
LEMMA EndedInv ==
    ASSUME TypeOK', usbZero' <= boot', phase' = "stopped"
    PROVE  GaugeInv'
  BY DEF GaugeInv, CandidateIsRun, StableUnplug, StopTogether

LEMMA ArmInv == ASSUME GaugeInv, Arm PROVE GaugeInv'
<1>1. out' \in Outs /\ phase' \in {"waiting_unplug", "stopped"}
      /\ stopReason' \in EngineReasons
  BY RecordAndGoTypes, PlainTypes DEF Arm, GaugeInv, TypeOK, Events
<1>2. TypeOK'
  BY <1>1 DEF Arm, GaugeInv, TypeOK
<1>3. QED
  BY <1>1, <1>2 DEF Arm, GaugeInv, CandidateIsRun, StableUnplug, StopTogether

LEMMA LateInv == ASSUME GaugeInv, PollLate \/ SignalLate \/ AdapterExit PROVE GaugeInv'
<1>1. out \in Outs /\ DeadlineReason(boot) \in EngineReasons
      /\ "adapter_exit" \in EngineReasons
  BY DeadlineTypes DEF GaugeInv, TypeOK, EngineReasons
<1>2. out' \in Outs /\ phase' = "stopped" /\ stopReason' \in EngineReasons
  BY <1>1, FinishTypes DEF PollLate, SignalLate, AdapterExit
<1>3. /\ UNCHANGED <<boot, candidate, reads, control, usbZero>>
      /\ nextPoll' \in Nat /\ suspending' \in Nat \cup {Never}
  BY DEF PollLate, PollDue, SignalLate, AdapterExit, GaugeInv, TypeOK
<1>4. TypeOK'
  BY <1>2, <1>3 DEF GaugeInv, TypeOK
<1>5. QED
  BY <1>2, <1>3, <1>4, EndedInv DEF GaugeInv, CandidateIsRun

\* What every poll that reads leaves alone.
LEMMA PollFrame ==
    ASSUME GaugeInv, NEW m \in Metadata(boot), PollReading(m)
    PROVE  /\ boot' = m.after /\ boot' \in Nat /\ boot' >= boot
           /\ reads' \in 0..MaxMetadata
           /\ usbZero' \in Nat \cup {Never} /\ usbZero' <= boot'
           /\ nextPoll' \in Nat
           /\ UNCHANGED <<suspending, control>>
<1>1. Account(m) /\ Watch(m)
  BY DEF PollReading
<1>2. nextPoll' \in Nat /\ UNCHANGED <<suspending, control>>
  BY DEF PollReading, PollDue, GaugeInv, TypeOK
<1>3. QED
  BY <1>1, <1>2, ReadFacts

LEMMA PollStopsInv == ASSUME GaugeInv, PollStops PROVE GaugeInv'
<1>1. PICK m \in Metadata(boot) :
        /\ PollReading(m)
        /\ UNCHANGED candidate
        /\ \/ RecordAndStop(Plain("parent-poll"), m.stop)
           \/ RecordAndStop(Plain("poll-deadline"), DeadlineReason(m.after))
           \/ RecordAndStop(Plain("poll-invalid-usb"), "invalid_usb_value")
  BY DEF PollStops
<1>2. m.stop \in EngineReasons /\ DeadlineReason(m.after) \in EngineReasons
      /\ "invalid_usb_value" \in EngineReasons
  BY MetadataFacts, DeadlineTypes DEF GaugeInv, EngineReasons
<1>3. {"parent-poll", "poll-deadline", "poll-invalid-usb"} \subseteq Events
  BY DEF Events
<1>4. out \in Outs
  BY DEF GaugeInv, TypeOK
<1>5. out' \in Outs /\ phase' = "stopped" /\ stopReason' \in EngineReasons
  BY <1>1, <1>2, <1>3, <1>4, RecordAndStopTypes, PlainTypes
<1>6. TypeOK'
  BY <1>1, <1>5, PollFrame DEF GaugeInv, TypeOK
<1>7. QED
  BY <1>1, <1>5, <1>6, PollFrame, EndedInv

\* A reading in time: the engine keeps its phase, moves on, or ends.
LEMMA PollWaitingOneInv == ASSUME GaugeInv, PollWaitingOne PROVE GaugeInv'
<1>1. PICK m \in Metadata(boot) :
        /\ phase = "waiting_unplug"
        /\ PollValue(m, "1")
        /\ candidate' = Never
        /\ Quiet \/ RecordAndGo(Plain("unplug-candidate-cancelled"), phase)
  BY DEF PollWaitingOne
<1>2. PollReading(m) /\ usbZero' = Never
  BY <1>1 DEF PollValue, PollReading, Watch
<1>3. out' \in Outs /\ phase' \in {"waiting_unplug", "stopped"}
      /\ stopReason' \in EngineReasons
  <2>1. out \in Outs /\ stopReason \in EngineReasons
    BY DEF GaugeInv, TypeOK
  <2>2. Plain("unplug-candidate-cancelled") \in Rows
    BY PlainTypes DEF Events
  <2>3. QED
    BY <1>1, <2>1, <2>2, RecordAndGoTypes DEF Quiet
<1>4. TypeOK'
  BY <1>1, <1>2, <1>3, PollFrame DEF GaugeInv, TypeOK
<1>5. control.stop = None /\ control' = control
  BY <1>1, <1>2, PollFrame DEF GaugeInv, StopTogether
<1>6. QED
  BY <1>1, <1>2, <1>3, <1>4, <1>5, PollFrame
  DEF GaugeInv, CandidateIsRun, StableUnplug, StopTogether

LEMMA PollWaitingZeroInv == ASSUME GaugeInv, PollWaitingZero PROVE GaugeInv'
<1>1. PICK m \in Metadata(boot) :
        /\ phase = "waiting_unplug"
        /\ PollValue(m, "0")
        /\ \/ /\ candidate = Never
              /\ candidate' = m.after
              /\ RecordAndGo(Plain("unplug-candidate"), phase)
           \/ /\ candidate # Never
              /\ Quiet /\ UNCHANGED candidate
           \/ /\ candidate # Never /\ m.after - candidate >= Stable
              /\ RecordAndGo(Plain("unplugged"), "observing")
              /\ UNCHANGED candidate
  BY DEF PollWaitingZero
<1>2. /\ PollReading(m)
      /\ usbZero' = IF usbZero = Never THEN m.after ELSE usbZero
  BY <1>1 DEF PollValue, PollReading, Watch
<1>3. candidate = usbZero /\ control.stop = None /\ control' = control
  BY <1>1, <1>2, PollFrame DEF GaugeInv, CandidateIsRun, StopTogether
<1>4. candidate' = usbZero' /\ candidate' \in Nat \cup {Never}
  BY <1>1, <1>2, <1>3, PollFrame
<1>5. /\ out' \in Outs /\ stopReason' \in EngineReasons
      /\ \/ phase' \in {"waiting_unplug", "stopped"}
         \/ /\ phase' = "observing" /\ candidate # Never
            /\ m.after - candidate >= Stable
  <2>1. out \in Outs /\ stopReason \in EngineReasons
    BY DEF GaugeInv, TypeOK
  <2>2. Plain("unplug-candidate") \in Rows /\ Plain("unplugged") \in Rows
    BY PlainTypes DEF Events
  <2>3. QED
    BY <1>1, <2>1, <2>2, RecordAndGoTypes DEF Quiet
<1>6. TypeOK'
  BY <1>2, <1>4, <1>5, PollFrame DEF GaugeInv, TypeOK
<1>7. StableUnplug'
  BY <1>2, <1>3, <1>5, PollFrame DEF StableUnplug
<1>8. QED
  BY <1>2, <1>3, <1>4, <1>5, <1>6, <1>7, PollFrame
  DEF GaugeInv, CandidateIsRun, StopTogether

LEMMA LaterIsLonger ==
    \A b, c \in Nat, u, s \in Int : (c >= b /\ b - u >= s) => c - u >= s
  OBVIOUS

\* While observing, "0" keeps the run going and time only adds to it.
LEMMA RunGoesOn ==
    ASSUME GaugeInv, phase = "observing", boot' \in Nat, boot' >= boot,
           usbZero' = usbZero
    PROVE  usbZero' # Never /\ boot' - usbZero' >= Stable
<1>1. usbZero # Never /\ boot - usbZero >= Stable
  BY DEF GaugeInv, StableUnplug
<1>2. boot \in Nat /\ usbZero \in Int /\ Stable \in Int
  BY LimitsAssumption DEF GaugeInv, TypeOK, Never
<1>3. boot' - usbZero >= Stable
  BY <1>1, <1>2, LaterIsLonger
<1>4. QED
  BY <1>1, <1>3

LEMMA PollObservingInv == ASSUME GaugeInv, PollObserving PROVE GaugeInv'
<1>1. PICK m \in Metadata(boot), v \in {"0", "1"} :
        /\ phase = "observing"
        /\ PollValue(m, v)
        /\ UNCHANGED candidate
        /\ IF v = "1" THEN RecordAndStop(Plain("replugged"), "usb_reconnected") ELSE Quiet
  BY DEF PollObserving
<1>2. PollReading(m) /\ m.value = v
  BY <1>1 DEF PollValue
<1>3. out \in Outs /\ stopReason \in EngineReasons /\ candidate' = candidate
  BY <1>1 DEF GaugeInv, TypeOK
<1>4. CASE v = "1"
  <2>1. Plain("replugged") \in Rows /\ "usb_reconnected" \in EngineReasons
    BY PlainTypes DEF Events, EngineReasons
  <2>2. out' \in Outs /\ phase' = "stopped" /\ stopReason' \in EngineReasons
    BY <1>1, <1>3, <1>4, <2>1, RecordAndStopTypes
  <2>3. TypeOK'
    BY <1>2, <1>3, <2>2, PollFrame DEF GaugeInv, TypeOK
  <2>4. QED
    BY <1>2, <2>2, <2>3, PollFrame, EndedInv
<1>5. CASE v = "0"
  <2>1. UNCHANGED <<phase, stopReason, out>>
    BY <1>1, <1>5 DEF Quiet
  <2>2. usbZero' = usbZero
    BY <1>1, <1>2, <1>5 DEF PollReading, Watch, GaugeInv, StableUnplug
  <2>3. TypeOK'
    BY <1>2, <1>3, <2>1, PollFrame DEF GaugeInv, TypeOK
  <2>4. control' = control
    BY <1>2, PollFrame
  <2>5. QED
    BY <1>1, <1>2, <2>1, <2>2, <2>3, <2>4, PollFrame, RunGoesOn
    DEF GaugeInv, CandidateIsRun, StableUnplug, StopTogether
<1>6. QED
  BY <1>1, <1>4, <1>5

LEMMA PrepareSleepInv == ASSUME GaugeInv, PrepareSleep PROVE GaugeInv'
<1>1. PICK m \in Metadata(boot) :
        /\ PrepareSleepReading(m)
        /\ \/ RecordAndStop(Plain("prepare-sleep"), m.stop)
           \/ RecordAndStop(Plain("replugged-during-prepare"), "usb_reconnected")
           \/ RecordAndStop(Plain("prepare-invalid-usb"), "invalid_usb_value")
           \/ RecordAndStop(Plain("prepare-sleep"), DeadlineReason(m.after))
           \/ m.value = "0" /\ RecordAndGo(Plain("prepare-sleep"), phase)
  <2>1. PICK m \in Metadata(boot) :
        /\ PrepareSleepReading(m)
        /\ CASE m.stop # None -> RecordAndStop(Plain("prepare-sleep"), m.stop)
             [] m.value = "1" ->
                  RecordAndStop(Plain("replugged-during-prepare"), "usb_reconnected")
             [] m.value = "other" ->
                  RecordAndStop(Plain("prepare-invalid-usb"), "invalid_usb_value")
             [] m.value = "0" /\ DeadlineReason(m.after) # None ->
                  RecordAndStop(Plain("prepare-sleep"), DeadlineReason(m.after))
             [] OTHER -> RecordAndGo(Plain("prepare-sleep"), phase)
    BY DEF PrepareSleep
  <2>2. m.stop # None \/ m.value \in UsbValues
    BY MetadataFacts DEF GaugeInv
  <2>3. QED
    BY <2>1, <2>2 DEF UsbValues
<1>2. /\ phase = "observing" /\ Account(m) /\ Watch(m)
      /\ suspending' = boot /\ UNCHANGED <<nextPoll, candidate, control>>
  BY <1>1 DEF PrepareSleepReading
<1>3. /\ boot' = m.after /\ boot' \in Nat /\ boot' >= boot
      /\ reads' \in 0..MaxMetadata
      /\ usbZero' \in Nat \cup {Never} /\ usbZero' <= boot'
  BY <1>2, ReadFacts
<1>4. out \in Outs /\ stopReason \in EngineReasons /\ boot \in Nat
  BY DEF GaugeInv, TypeOK
<1>5. /\ Plain("prepare-sleep") \in Rows /\ Plain("replugged-during-prepare") \in Rows
      /\ Plain("prepare-invalid-usb") \in Rows
  BY PlainTypes DEF Events
<1>6. /\ m.stop \in EngineReasons /\ DeadlineReason(m.after) \in EngineReasons
      /\ "usb_reconnected" \in EngineReasons /\ "invalid_usb_value" \in EngineReasons
  BY MetadataFacts, DeadlineTypes DEF GaugeInv, EngineReasons
<1>7. /\ out' \in Outs /\ stopReason' \in EngineReasons
      /\ phase' = "stopped" \/ (phase' = "observing" /\ m.value = "0")
  BY <1>1, <1>2, <1>4, <1>5, <1>6, RecordAndStopTypes, RecordAndGoTypes
<1>8. TypeOK'
  BY <1>2, <1>3, <1>4, <1>7 DEF GaugeInv, TypeOK
<1>9. CASE phase' = "stopped"
  BY <1>3, <1>8, <1>9, EndedInv
<1>10. CASE phase' = "observing" /\ m.value = "0"
  <2>1. usbZero' = usbZero
    BY <1>2, <1>10 DEF Watch, GaugeInv, StableUnplug
  <2>2. QED
    BY <1>2, <1>3, <1>8, <1>10, <2>1, RunGoesOn
    DEF GaugeInv, CandidateIsRun, StableUnplug, StopTogether
<1>11. QED
  BY <1>7, <1>9, <1>10

LEMMA ResumeInv == ASSUME GaugeInv, Resume PROVE GaugeInv'
<1>1. PICK start \in Within(boot, boot) : \E now \in Within(start, boot) :
       \E c \in Captured(start, now) :
        LET row == Row("resume-signal", None, c[1])
            why == IF c[1].stop # None THEN MapProbeStop(c[1].stop)
                   ELSE DeadlineReason(now)
        IN  /\ control' = c[2]
            /\ boot' = now
            /\ IF why # None THEN RecordAndStop(row, why)
               ELSE RecordAndGo(row, phase)
  BY DEF Resume
<1>2. PICK now \in Within(start, boot) : \E c \in Captured(start, now) :
        LET row == Row("resume-signal", None, c[1])
            why == IF c[1].stop # None THEN MapProbeStop(c[1].stop)
                   ELSE DeadlineReason(now)
        IN  /\ control' = c[2]
            /\ boot' = now
            /\ IF why # None THEN RecordAndStop(row, why)
               ELSE RecordAndGo(row, phase)
  BY <1>1
<1>3. PICK c \in Captured(start, now) :
        LET row == Row("resume-signal", None, c[1])
            why == IF c[1].stop # None THEN MapProbeStop(c[1].stop)
                   ELSE DeadlineReason(now)
        IN  /\ control' = c[2]
            /\ boot' = now
            /\ IF why # None THEN RecordAndStop(row, why)
               ELSE RecordAndGo(row, phase)
  BY <1>2
<1> DEFINE row == Row("resume-signal", None, c[1])
           why == IF c[1].stop # None THEN MapProbeStop(c[1].stop)
                  ELSE DeadlineReason(now)
<1>4. /\ phase = "observing" /\ suspending' = Never
      /\ UNCHANGED <<nextPoll, candidate, reads, usbZero>>
  BY DEF Resume
<1>5. /\ control \in Controls /\ control.stop = None /\ out \in Outs
      /\ stopReason \in EngineReasons /\ boot \in Nat
  BY <1>4 DEF GaugeInv, TypeOK, StopTogether
<1>6. c[1] \in Probed /\ c[2] \in Controls /\ (c[2].stop # None => c[1].stop # None)
  BY <1>5, CapturedFacts
<1>7. now \in Nat /\ now >= boot
  BY <1>1, <1>2, <1>5 DEF Within
<1>8. row \in Rows
  BY <1>6, RowTypes DEF Events, EngineReasons, ProbeStops
<1>9. why \in EngineReasons /\ (c[1].stop # None => why # None)
  <2>1. c[1].stop \in ProbeStops
    BY <1>6 DEF Probed
  <2>2. QED
    BY <2>1, MapTypes, DeadlineTypes
<1>10. /\ control' = c[2] /\ boot' = now
       /\ IF why # None THEN RecordAndStop(row, why) ELSE RecordAndGo(row, phase)
  BY <1>3
<1> HIDE DEF row, why
<1>11. /\ out' \in Outs /\ stopReason' \in EngineReasons
       /\ phase' = "stopped" \/ (phase' = "observing" /\ why = None)
  BY <1>4, <1>5, <1>8, <1>9, <1>10, RecordAndStopTypes, RecordAndGoTypes
<1>12. TypeOK'
  BY <1>4, <1>6, <1>7, <1>10, <1>11 DEF GaugeInv, TypeOK
<1>13. usbZero' <= boot'
  BY <1>4, <1>7, <1>10 DEF GaugeInv, TypeOK, CandidateIsRun, Never
<1>14. CASE phase' = "stopped"
  BY <1>12, <1>13, <1>14, EndedInv
<1>15. CASE phase' = "observing" /\ why = None
  <2>1. control'.stop = None
    BY <1>6, <1>9, <1>10, <1>15
  <2>2. usbZero' # Never /\ boot' - usbZero' >= Stable
    BY <1>4, <1>7, <1>10, RunGoesOn
  <2>3. QED
    BY <1>12, <1>13, <1>15, <2>1, <2>2
    DEF GaugeInv, CandidateIsRun, StableUnplug, StopTogether
<1>16. QED
  BY <1>11, <1>14, <1>15

LEMMA IgnoredInv ==
    ASSUME GaugeInv, PrepareSleepIgnored \/ ResumeIgnored PROVE GaugeInv'
<1>1. UNCHANGED <<phase, boot, nextPoll, candidate, reads, control, stopReason,
                  out, usbZero>>
  BY DEF PrepareSleepIgnored, ResumeIgnored, Quiet
<1>2. suspending' \in Nat \cup {Never}
  BY DEF PrepareSleepIgnored, ResumeIgnored, GaugeInv, TypeOK
<1>3. TypeOK'
  BY <1>1, <1>2 DEF GaugeInv, TypeOK
<1>4. QED
  BY <1>1, <1>3 DEF GaugeInv, CandidateIsRun, StableUnplug, StopTogether

LEMMA TickInv == ASSUME GaugeInv, Tick PROVE GaugeInv'
<1>1. /\ boot' = boot + 1
      /\ UNCHANGED <<phase, nextPoll, suspending, candidate, reads, control,
                     stopReason, out, usbZero>>
  BY DEF Tick
<1>2. TypeOK'
  BY <1>1 DEF GaugeInv, TypeOK
<1>3. StableUnplug' /\ usbZero' <= boot'
  BY <1>1, LimitsAssumption DEF GaugeInv, TypeOK, StableUnplug, CandidateIsRun, Never
<1>4. QED
  BY <1>1, <1>2, <1>3 DEF GaugeInv, CandidateIsRun, StopTogether

-----------------------------------------------------------------------------
LEMMA GaugeInitHolds == ASSUME Init PROVE GaugeInv
<1>1. out = [rows |-> 0, log |-> <<>>, failed |-> FALSE, closed |-> FALSE] => out \in Outs
  BY DEF Outs
<1>2. control = [attempts |-> 0, stop |-> None] => control \in Controls
  BY LimitsAssumption DEF Controls, ProbeStops
<1>3. QED
  BY <1>1, <1>2, LimitsAssumption
  DEF Init, GaugeInv, TypeOK, CandidateIsRun, StableUnplug, StopTogether, Never,
      EngineReasons, ProbeStops

LEMMA GaugeStepHolds == ASSUME GaugeInv, [Next]_vars PROVE GaugeInv'
<1>1. CASE Next
  BY <1>1, ArmInv, LateInv, PollStopsInv, PollWaitingOneInv, PollWaitingZeroInv,
     PollObservingInv, PrepareSleepInv, IgnoredInv, ResumeInv, TickInv DEF Next
<1>2. CASE UNCHANGED vars
  BY <1>2 DEF vars, GaugeInv, TypeOK, CandidateIsRun, StableUnplug, StopTogether
<1>3. QED
  BY <1>1, <1>2

\* The inductive invariant holds at the start and is kept by every step.
THEOREM GaugeInvHolds == Spec => []GaugeInv
  BY GaugeInitHolds, GaugeStepHolds, PTL DEF Spec

\* The state keeps its types; in particular neither budget is ever exceeded:
\* at most MaxMetadata parent reads and MaxCallbacks probes.
THEOREM GaugeTyped == Spec => []TypeOK
<1>1. GaugeInv => TypeOK
  BY DEF GaugeInv
<1>2. QED
  BY <1>1, GaugeInvHolds, PTL

\* No observation, and so no gauge read, before a stable unplug.
THEOREM GaugeStableUnplug == Spec => []StableUnplug
<1>1. GaugeInv => StableUnplug
  BY DEF GaugeInv
<1>2. QED
  BY <1>1, GaugeInvHolds, PTL

\* A stopped probe has stopped its engine, whatever the reason was.
THEOREM GaugeStopTogether == Spec => []StopTogether
<1>1. GaugeInv => StopTogether
  BY DEF GaugeInv
<1>2. QED
  BY <1>1, GaugeInvHolds, PTL

-----------------------------------------------------------------------------
(* The rows of a log, and the log that is left of it. *)

\* A log that is cut somewhere, perhaps in the middle of a line, or that has one more
\* row which is no probe's, keeps what was said of its rows.
LEMMA RowsCut ==
    ASSUME NEW log \in Seq(Rows), NEW new \in Seq(Rows), NEW n \in Nat,
           RowsSound(log, n),
           \A i \in DOMAIN new : \/ i \in DOMAIN log /\ new[i] = log[i]
                                 \/ i = Len(new) /\ new[i].event # "resume-signal"
    PROVE  RowsSound(new, n)
<1>1. Len(new) \in Nat /\ DOMAIN new = 1..Len(new)
      /\ Len(log) \in Nat /\ DOMAIN log = 1..Len(log)
  OBVIOUS
<1>2. ASSUME NEW i \in DOMAIN new, new[i].event = "resume-signal"
      PROVE  i \in DOMAIN log /\ new[i] = log[i]
  BY <1>2
<1>3. ASSUME NEW i \in DOMAIN new, NEW j \in 1..(i - 1)
      PROVE  j \in DOMAIN log /\ new[j] = log[j]
  <2>1. i \in 1..Len(new) /\ Len(new) \in Nat
    BY <1>1
  <2>2. j \in 1..Len(new) /\ j # Len(new)
    BY <2>1
  <2>3. QED
    BY <1>1, <2>2
<1>4. ASSUME NEW i \in DOMAIN new, new[i].event = "resume-signal"
      PROVE  /\ ProbeSound(new[i].probe, n)
             /\ \A j \in DOMAIN new :
                (new[j].event = "resume-signal" /\ j # i
                 /\ new[i].probe.captured /\ new[j].probe.captured)
                    => new[i].probe.index # new[j].probe.index
  BY <1>2, <1>4 DEF RowsSound
<1>5. ASSUME NEW i \in DOMAIN new, new[i].event = "resume-signal",
             new[i].probe.complete
      PROVE  /\ \E j \in 1..(i - 1) : new[j].event = "unplugged"
             /\ \A j \in 1..(i - 1) : ~Replugged(new[j].event)
  <2>1. /\ \E j \in 1..(i - 1) : log[j].event = "unplugged"
        /\ \A j \in 1..(i - 1) : ~Replugged(log[j].event)
    BY <1>2, <1>5 DEF RowsSound
  <2>2. QED
    BY <1>3, <2>1
<1>6. QED
  BY <1>4, <1>5 DEF RowsSound

\* A row the engine may add: no end, and a probe only of a callback after all those
\* before, complete only in a log that says the phone is unplugged.
Addable(log, row, before, after) ==
    /\ row.event # "finished"
    /\ row.event = "resume-signal" =>
        /\ ProbeSound(row.probe, after)
        /\ row.probe.captured => row.probe.index >= before
        /\ row.probe.complete =>
            /\ \E j \in DOMAIN log : log[j].event = "unplugged"
            /\ \A j \in DOMAIN log : ~Replugged(log[j].event)

LEMMA ProbeStaysSound ==
    ASSUME NEW p \in Probed, NEW n \in Nat, NEW m \in Nat, n <= m, ProbeSound(p, n)
    PROVE  ProbeSound(p, m)
<1>1. p.index \in Int
  BY DEF Probed
<1> QED
  BY <1>1 DEF ProbeSound

LEMMA RowsAdded ==
    ASSUME NEW log \in Seq(Rows), NEW n \in Nat, NEW m \in Nat, n <= m,
           RowsSound(log, n), NEW row \in Rows, Addable(log, row, n, m)
    PROVE  RowsSound(Append(log, row), m)
<1> DEFINE new == Append(log, row)
<1>1. /\ Len(log) \in Nat /\ DOMAIN log = 1..Len(log)
      /\ new \in Seq(Rows) /\ DOMAIN new = 1..(Len(log) + 1)
      /\ \A i \in 1..Len(log) : new[i] = log[i]
      /\ new[Len(log) + 1] = row
  OBVIOUS
<1> HIDE DEF new
<1>2. \A i \in DOMAIN new : i \in DOMAIN log \/ (i = Len(log) + 1 /\ new[i] = row)
  BY <1>1
<1>3. \A i \in DOMAIN log : i \in DOMAIN new /\ new[i] = log[i]
  BY <1>1
<1>4. ASSUME NEW i \in DOMAIN log, log[i].event = "resume-signal"
      PROVE  /\ ProbeSound(log[i].probe, m)
             /\ log[i].probe.captured => log[i].probe.index < n
             /\ log[i].probe.index \in Int
  <2>1. ProbeSound(log[i].probe, n)
    BY <1>4 DEF RowsSound
  <2>2. log[i] \in Rows
    OBVIOUS
  <2>3. log[i].probe \in Probed
    BY <2>2 DEF Rows
  <2>4. log[i].probe.index \in Int
    BY <2>3 DEF Probed
  <2>5. ProbeSound(log[i].probe, m)
    BY <2>1, <2>3, ProbeStaysSound
  <2>6. log[i].probe.captured => log[i].probe.index < n
    BY <2>1 DEF ProbeSound
  <2>7. QED
    BY <2>4, <2>5, <2>6
<1>5. ASSUME NEW i \in DOMAIN new, new[i].event = "resume-signal"
      PROVE  ProbeSound(new[i].probe, m)
  BY <1>2, <1>3, <1>4, <1>5 DEF Addable
<1>6. row.event = "resume-signal" /\ row.probe.captured
        => row.probe.index \in Int /\ row.probe.index >= n
  <2>1. row.probe.index \in Int
    BY DEF Rows, Probed
  <2>2. QED
    BY <2>1 DEF Addable
<1>7. ASSUME NEW i \in DOMAIN new, NEW j \in DOMAIN new, i # j,
             new[i].event = "resume-signal", new[j].event = "resume-signal",
             new[i].probe.captured, new[j].probe.captured
      PROVE  new[i].probe.index # new[j].probe.index
  <2>1. CASE i \in DOMAIN log /\ j \in DOMAIN log
    BY <1>3, <1>7, <2>1 DEF RowsSound
  <2>2. CASE i \in DOMAIN log /\ new[j] = row
    <3>1. log[i].probe.index < n /\ log[i].probe.index \in Int
      BY <1>3, <1>4, <1>7, <2>2
    <3>2. QED
      BY <1>3, <1>6, <1>7, <2>2, <3>1
  <2>3. CASE j \in DOMAIN log /\ new[i] = row
    <3>1. log[j].probe.index < n /\ log[j].probe.index \in Int
      BY <1>3, <1>4, <1>7, <2>3
    <3>2. QED
      BY <1>3, <1>6, <1>7, <2>3, <3>1
  <2>4. QED
    BY <1>2, <1>7, <2>1, <2>2, <2>3
<1>8. ASSUME NEW i \in DOMAIN new, new[i].event = "resume-signal",
             new[i].probe.complete
      PROVE  /\ \E j \in 1..(i - 1) : new[j].event = "unplugged"
             /\ \A j \in 1..(i - 1) : ~Replugged(new[j].event)
  <2>1. \A j \in 1..(i - 1) : j \in DOMAIN log /\ new[j] = log[j]
    BY <1>1
  <2>2. CASE i \in DOMAIN log
    <3>1. /\ \E j \in 1..(i - 1) : log[j].event = "unplugged"
          /\ \A j \in 1..(i - 1) : ~Replugged(log[j].event)
      BY <1>3, <1>8, <2>2 DEF RowsSound
    <3>2. QED
      BY <2>1, <3>1
  <2>3. CASE i = Len(log) + 1 /\ new[i] = row
    <3>1. /\ \E j \in DOMAIN log : log[j].event = "unplugged"
          /\ \A j \in DOMAIN log : ~Replugged(log[j].event)
      BY <1>8, <2>3 DEF Addable
    <3>2. DOMAIN log = 1..(i - 1)
      BY <1>1, <2>3
    <3>3. QED
      BY <2>1, <3>1, <3>2
  <2>4. QED
    BY <1>2, <2>2, <2>3
<1>9. RowsSound(new, m)
  BY <1>5, <1>7, <1>8 DEF RowsSound
<1> QED
  BY <1>9 DEF new
-----------------------------------------------------------------------------
(* What a write leaves in the log. *)

\* What the engine's log satisfies as long as it runs.
Running(o, callbacks) ==
    /\ o \in Outs
    /\ ~o.failed => Len(o.log) = o.rows
    /\ \A i \in DOMAIN o.log : o.log[i].event # "finished"
    /\ RowsSound(o.log, callbacks)

LEMMA EmitForms ==
    ASSUME NEW o \in Outs, NEW row, NEW w \in Emit(o, row)
    PROVE  /\ w.rows = o.rows + 1
           /\ \/ ~o.failed /\ ~w.failed /\ w.log = Append(o.log, row)
              \/ w.failed /\ w.log = Append(o.log, Torn)
              \/ w.failed /\ w.log = o.log
<1> DEFINE kept == [o EXCEPT !.rows = @ + 1]
<1>1. \/ o.failed /\ w = kept
      \/ ~o.failed /\ w = [kept EXCEPT !.log = Append(@, row)]
      \/ \E l \in {o.log, Append(o.log, Torn)} :
            w = [kept EXCEPT !.failed = TRUE, !.log = l]
  BY DEF Emit
<1>2. /\ kept.rows = o.rows + 1 /\ kept.log = o.log /\ kept.failed = o.failed
      /\ kept \in [rows : Nat, log : Seq(Rows), failed : BOOLEAN, closed : BOOLEAN]
  BY DEF Outs
<1> HIDE DEF kept
<1> QED
  BY <1>1, <1>2

LEMMA TornFacts == Torn \in Rows /\ Torn.event = "torn"
<1>1. Torn \in Rows
  BY PlainTypes DEF Torn, Events
<1> QED
  BY <1>1 DEF Torn, Plain, Row

LEMMA EmitKeeps ==
    ASSUME NEW o, NEW n \in Nat, NEW m \in Nat, n <= m, Running(o, n),
           NEW row \in Rows, Addable(o.log, row, n, m), NEW w \in Emit(o, row)
    PROVE  /\ Running(w, m)
           /\ \A i \in DOMAIN o.log : i \in DOMAIN w.log /\ w.log[i] = o.log[i]
           /\ \A i \in DOMAIN w.log :
                \/ i \in DOMAIN o.log
                \/ w.log[i] \in {row, Torn}
           /\ ~w.failed => \E i \in DOMAIN w.log : w.log[i] = row
<1>1. /\ o \in Outs /\ o.log \in Seq(Rows) /\ Len(o.log) \in Nat
      /\ DOMAIN o.log = 1..Len(o.log) /\ w \in Outs
  <2>1. o \in Outs
    BY DEF Running
  <2>2. o.log \in Seq(Rows)
    BY <2>1 DEF Outs
  <2> QED
    BY <2>1, <2>2, EmitTypes
<1>2. \A i \in DOMAIN o.log : o.log[i] \in Rows
  BY <1>1
<1>3. RowsSound(o.log, m)
  <2>1. \A i \in DOMAIN o.log :
          ProbeSound(o.log[i].probe, n) => ProbeSound(o.log[i].probe, m)
    <3>1. \A i \in DOMAIN o.log : o.log[i].probe \in Probed
      BY <1>2 DEF Rows
    <3> QED
      BY <3>1, ProbeStaysSound
  <2> QED
    BY <2>1 DEF Running, RowsSound
<1>4. CASE w.log = o.log /\ w.failed
  BY <1>1, <1>3, <1>4 DEF Running
<1>5. CASE w.log = Append(o.log, Torn) /\ w.failed
  <2>1. /\ w.log \in Seq(Rows) /\ DOMAIN w.log = 1..(Len(o.log) + 1)
        /\ Len(w.log) = Len(o.log) + 1
        /\ \A i \in 1..Len(o.log) : w.log[i] = o.log[i]
        /\ w.log[Len(o.log) + 1] = Torn
    BY <1>1, <1>5, TornFacts
  <2>2. \A i \in DOMAIN w.log : \/ i \in DOMAIN o.log /\ w.log[i] = o.log[i]
                                \/ i = Len(w.log) /\ w.log[i] = Torn
    BY <1>1, <2>1
  <2>3. RowsSound(w.log, m)
    BY <1>1, <1>3, <2>1, <2>2, RowsCut, TornFacts
  <2>4. \A i \in DOMAIN w.log : w.log[i].event # "finished"
    BY <2>2, TornFacts DEF Running
  <2> QED
    BY <1>1, <1>5, <2>1, <2>2, <2>3, <2>4 DEF Running
<1>6. CASE w.log = Append(o.log, row) /\ ~o.failed /\ ~w.failed
  <2>1. /\ w.log \in Seq(Rows) /\ DOMAIN w.log = 1..(Len(o.log) + 1)
        /\ Len(w.log) = Len(o.log) + 1
        /\ \A i \in 1..Len(o.log) : w.log[i] = o.log[i]
        /\ w.log[Len(o.log) + 1] = row
    BY <1>1, <1>6
  <2>2. \A i \in DOMAIN w.log : \/ i \in DOMAIN o.log /\ w.log[i] = o.log[i]
                                \/ i = Len(w.log) /\ w.log[i] = row
    BY <1>1, <2>1
  <2>3. RowsSound(w.log, m)
    BY <1>1, <1>6, RowsAdded DEF Running
  <2>4. \A i \in DOMAIN w.log : w.log[i].event # "finished"
    BY <2>2 DEF Running, Addable
  <2>5. Len(w.log) = w.rows
    BY <1>1, <1>6, <2>1, EmitForms DEF Running
  <2>6. \E i \in DOMAIN w.log : w.log[i] = row
    BY <1>1, <2>1
  <2>7. Running(w, m)
    BY <1>1, <2>3, <2>4, <2>5 DEF Running
  <2>8. \A i \in DOMAIN o.log : i \in DOMAIN w.log /\ w.log[i] = o.log[i]
    BY <1>1, <2>1
  <2> QED
    BY <2>2, <2>6, <2>7, <2>8
<1> QED
  BY <1>1, <1>4, <1>5, <1>6, EmitForms

\* The end of the engine: the last row, when it is written at all, is the end.
LEMMA FinishKeeps ==
    ASSUME NEW o, Running(o, control'.attempts), NEW reason \in EngineReasons,
           Finish(o, reason), TypeOK'
    PROVE  EvidenceInv'
<1>1. FinishedRow(reason) \in Rows
  BY RowTypes, NotCapturedTypes DEF FinishedRow, ProbeStops, Events
<1>2. /\ FinishedRow(reason).event = "finished"
      /\ FinishedRow(reason).reason = reason
  BY DEF FinishedRow, Row
<1>3. PICK w \in Emit(o, FinishedRow(reason)) : out' = [w EXCEPT !.closed = TRUE]
  BY DEF Finish
<1>4. /\ o \in Outs /\ o.log \in Seq(Rows) /\ Len(o.log) \in Nat
      /\ DOMAIN o.log = 1..Len(o.log) /\ w \in Outs
  <2>1. o \in Outs
    BY DEF Running
  <2>2. o.log \in Seq(Rows)
    BY <2>1 DEF Outs
  <2> QED
    BY <1>1, <2>1, <2>2, EmitTypes
<1>5. out'.log = w.log /\ out'.rows = w.rows /\ out'.failed = w.failed
  BY <1>3, <1>4 DEF Outs
<1>6. control'.attempts \in Nat
  <2>1. control' \in Controls
    BY DEF TypeOK
  <2> QED
    BY <2>1, LimitsAssumption DEF Controls
<1>7. phase' = "stopped" /\ stopReason' = reason
  BY DEF Finish
<1>8. CASE w.log = o.log /\ w.failed
  <2>1. \A i \in DOMAIN Log' : Log'[i].event # "finished"
    BY <1>5, <1>8 DEF Running, Log
  <2>2. RowsSound(Log', control'.attempts)
    BY <1>5, <1>8 DEF Running, Log
  <2> QED
    BY <1>5, <1>7, <1>8, <2>1, <2>2
    DEF EvidenceInv, SinkWhole, EndIsLast, ObservesUnplugged
<1>9. CASE w.log = Append(o.log, Torn) /\ w.failed
  <2>1. /\ w.log \in Seq(Rows) /\ DOMAIN w.log = 1..(Len(o.log) + 1)
        /\ Len(w.log) = Len(o.log) + 1
        /\ \A i \in 1..Len(o.log) : w.log[i] = o.log[i]
        /\ w.log[Len(o.log) + 1] = Torn
    BY <1>4, <1>9, TornFacts
  <2>2. \A i \in DOMAIN w.log : \/ i \in DOMAIN o.log /\ w.log[i] = o.log[i]
                                \/ i = Len(w.log) /\ w.log[i] = Torn
    BY <1>4, <2>1
  <2>3. \A i \in DOMAIN Log' : Log'[i].event # "finished"
    BY <1>5, <2>2, TornFacts DEF Running, Log
  <2>4. RowsSound(w.log, control'.attempts)
    BY <1>4, <1>6, <2>1, <2>2, RowsCut, TornFacts DEF Running
  <2> QED
    BY <1>5, <1>7, <1>9, <2>3, <2>4
    DEF EvidenceInv, SinkWhole, EndIsLast, ObservesUnplugged, Log
<1>10. CASE w.log = Append(o.log, FinishedRow(reason)) /\ ~o.failed /\ ~w.failed
  <2>1. /\ DOMAIN w.log = 1..(Len(o.log) + 1)
        /\ Len(w.log) = Len(o.log) + 1
        /\ \A i \in 1..Len(o.log) : w.log[i] = o.log[i]
        /\ w.log[Len(o.log) + 1] = FinishedRow(reason)
    BY <1>1, <1>4, <1>10
  <2>2. \A i \in DOMAIN w.log : \/ i \in DOMAIN o.log /\ w.log[i] = o.log[i]
                                \/ i = Len(w.log) /\ w.log[i] = FinishedRow(reason)
    BY <1>4, <2>1
  <2>3. Len(w.log) = w.rows
    BY <1>4, <1>10, <2>1, EmitForms DEF Running
  <2>4. EndIsLast'
    BY <1>2, <1>5, <1>7, <2>2, <2>3 DEF Running, EndIsLast, Log
  <2>5. w.log \in Seq(Rows)
    BY <1>1, <1>4, <1>10
  <2>6. \A i \in DOMAIN w.log : \/ i \in DOMAIN o.log /\ w.log[i] = o.log[i]
                                \/ i = Len(w.log) /\ w.log[i].event # "resume-signal"
    BY <1>2, <2>2
  <2>7. RowsSound(w.log, control'.attempts)
    BY <1>4, <1>6, <2>5, <2>6, RowsCut DEF Running
  <2> QED
    BY <1>5, <1>7, <2>3, <2>4, <2>7
    DEF EvidenceInv, SinkWhole, ObservesUnplugged, Log
<1> QED
  BY <1>4, <1>8, <1>9, <1>10, EmitForms

-----------------------------------------------------------------------------
(* What a handler leaves in the log, by the way it ends. *)

LEMMA EvidenceRuns ==
    ASSUME EvidenceInv, ~dead, phase # "stopped"
    PROVE  /\ Running(out, control.attempts) /\ control.attempts \in Nat
           /\ out \in Outs
           /\ \A i \in DOMAIN Log : ~Replugged(Log[i].event)
<1>1. control \in Controls /\ out \in Outs
  BY DEF EvidenceInv, TypeOK
<1>2. control.attempts \in Nat
  BY <1>1, LimitsAssumption DEF Controls
<1>3. \A i \in DOMAIN Log : Log[i].event # "finished"
  BY DEF EvidenceInv, EndIsLast
<1>4. \A i \in DOMAIN Log : ~Replugged(Log[i].event)
  BY DEF EvidenceInv, ObservesUnplugged
<1> QED
  BY <1>1, <1>2, <1>3, <1>4 DEF Running, EvidenceInv, SinkWhole, Log

LEMMA AttemptsNat == ASSUME TypeOK' PROVE control'.attempts \in Nat
<1>1. control' \in Controls
  BY DEF TypeOK
<1> QED
  BY <1>1, LimitsAssumption DEF Controls

LEMMA StopKeeps ==
    ASSUME EvidenceInv, ~dead, phase # "stopped", TypeOK',
           control.attempts <= control'.attempts,
           NEW row \in Rows, Addable(Log, row, control.attempts, control'.attempts),
           NEW reason \in EngineReasons, RecordAndStop(row, reason)
    PROVE  EvidenceInv'
<1>1. PICK o \in Emit(out, row) :
            Finish(o, IF o.failed THEN "sink_error" ELSE reason)
  BY DEF RecordAndStop
<1>2. Running(o, control'.attempts)
  BY <1>1, EvidenceRuns, AttemptsNat, EmitKeeps DEF Log
<1>3. (IF o.failed THEN "sink_error" ELSE reason) \in EngineReasons
  BY DEF EngineReasons
<1> QED
  BY <1>1, <1>2, <1>3, FinishKeeps

LEMMA GoKeeps ==
    ASSUME EvidenceInv, ~dead, phase # "stopped", TypeOK',
           control.attempts <= control'.attempts,
           NEW row \in Rows, Addable(Log, row, control.attempts, control'.attempts),
           ~Replugged(row.event),
           NEW next, RecordAndGo(row, next),
           next = "observing" => phase = "observing" \/ row.event = "unplugged"
    PROVE  EvidenceInv'
<1>1. PICK o \in Emit(out, row) :
            IF o.failed THEN Finish(o, "sink_error")
            ELSE out' = o /\ phase' = next /\ UNCHANGED stopReason
  BY DEF RecordAndGo
<1>2. /\ Running(o, control'.attempts)
      /\ \A i \in DOMAIN out.log : i \in DOMAIN o.log /\ o.log[i] = out.log[i]
      /\ \A i \in DOMAIN o.log : \/ i \in DOMAIN out.log
                                 \/ o.log[i] \in {row, Torn}
      /\ ~o.failed => \E i \in DOMAIN o.log : o.log[i] = row
  BY <1>1, EvidenceRuns, AttemptsNat, EmitKeeps DEF Log
<1>3. CASE o.failed
  <2>1. "sink_error" \in EngineReasons
    BY DEF EngineReasons
  <2> QED
    BY <1>1, <1>2, <1>3, <2>1, FinishKeeps
<1>4. CASE ~o.failed
  <2>1. out' = o /\ phase' = next /\ stopReason' = stopReason
    BY <1>1, <1>4
  <2>2. SinkWhole' /\ EndIsLast' /\ RowsSound(Log', control'.attempts)
    BY <1>2, <2>1 DEF Running, SinkWhole, EndIsLast, Log
  <2>3. \A i \in DOMAIN Log' : ~Replugged(Log'[i].event)
    <3>1. \A i \in DOMAIN out.log : ~Replugged(out.log[i].event)
      BY EvidenceRuns DEF Log
    <3>2. ~Replugged(Torn.event)
      BY TornFacts DEF Replugged
    <3> QED
      BY <1>2, <2>1, <3>1, <3>2 DEF Log
  <2>4. phase' = "observing" => \E i \in DOMAIN Log' : Log'[i].event = "unplugged"
    <3>1. CASE phase = "observing"
      <4>1. \E i \in DOMAIN out.log : out.log[i].event = "unplugged"
        BY <3>1 DEF EvidenceInv, ObservesUnplugged, Log
      <4> QED
        BY <1>2, <2>1, <4>1 DEF Log
    <3>2. CASE row.event = "unplugged"
      BY <1>2, <1>4, <2>1, <3>2 DEF Log
    <3> QED
      BY <2>1, <3>1, <3>2
  <2> QED
    BY <2>2, <2>3, <2>4 DEF EvidenceInv, ObservesUnplugged
<1> QED
  BY <1>3, <1>4

LEMMA EndKeeps ==
    ASSUME EvidenceInv, ~dead, phase # "stopped", TypeOK', UNCHANGED control,
           NEW reason \in EngineReasons, Finish(out, reason)
    PROVE  EvidenceInv'
  BY EvidenceRuns, FinishKeeps

LEMMA QuietKeeps ==
    ASSUME EvidenceInv, TypeOK', UNCHANGED <<phase, stopReason, out, control, dead>>
    PROVE  EvidenceInv'
  BY DEF EvidenceInv, SinkWhole, EndIsLast, ObservesUnplugged, Log

\* The rows that are not a probe's.
PlainEvents == Events \ {"finished", "resume-signal"}

LEMMA PlainAddable ==
    ASSUME NEW event \in PlainEvents, NEW n, NEW m
    PROVE  /\ Plain(event) \in Rows /\ Plain(event).event = event
           /\ Addable(Log, Plain(event), n, m)
<1>1. Plain(event) \in Rows
  BY PlainTypes DEF PlainEvents
<1>2. Plain(event).event = event
  BY DEF Plain, Row
<1> QED
  BY <1>1, <1>2 DEF Addable, PlainEvents

LEMMA PlainStops ==
    ASSUME EvidenceInv, ~dead, phase # "stopped", TypeOK', UNCHANGED control,
           NEW event \in PlainEvents, NEW reason \in EngineReasons,
           RecordAndStop(Plain(event), reason)
    PROVE  EvidenceInv'
<1>1. control.attempts \in Nat
  BY EvidenceRuns
<1> QED
  BY <1>1, PlainAddable, StopKeeps

LEMMA PlainGoes ==
    ASSUME EvidenceInv, ~dead, phase # "stopped", TypeOK', UNCHANGED control,
           NEW event \in PlainEvents, ~Replugged(event), NEW next,
           RecordAndGo(Plain(event), next),
           next = "observing" => phase = "observing" \/ event = "unplugged"
    PROVE  EvidenceInv'
<1>1. control.attempts \in Nat
  BY EvidenceRuns
<1>2. ~Replugged(Plain(event).event) /\ Plain(event).event = event
  BY PlainAddable
<1> QED
  BY <1>1, <1>2, PlainAddable, GoKeeps

-----------------------------------------------------------------------------
(* The probe. *)

\* A probe of capture() is the next callback's; a complete one has the whole plan.
LEMMA ProbesSound ==
    ASSUME NEW index \in 0..7, NEW now, NEW p \in Probes(index, now)
    PROVE  ProbeSound(p, index + 1) /\ (p.captured => p.index >= index)
<1>1. ASSUME NEW n, NEW stop, NEW odd
      PROVE  LET q == Probe(index, n, stop, FALSE, odd)
             IN  ProbeSound(q, index + 1) /\ (q.captured => q.index >= index)
  BY DEF Probe, ProbeSound
<1>2. ASSUME NEW odd
      PROVE  LET q == Probe(index, PlanReads, CompleteStop(index, now), TRUE, odd)
             IN  ProbeSound(q, index + 1) /\ (q.captured => q.index >= index)
  BY DEF Probe, ProbeSound, CompleteStop
<1>3. \/ \E n, stop, odd : p = Probe(index, n, stop, FALSE, odd)
      \/ \E odd : p = Probe(index, PlanReads, CompleteStop(index, now), TRUE, odd)
  BY DEF Probes, EndedBefore, EndedAfter, EndedAtBudget
<1> QED
  BY <1>1, <1>2, <1>3

LEMMA CapturedSound ==
    ASSUME control \in Controls, NEW start, NEW now, NEW c \in Captured(start, now)
    PROVE  /\ c[2].attempts >= control.attempts
           /\ ProbeSound(c[1], c[2].attempts)
           /\ c[1].captured => c[1].index >= control.attempts
<1>1. control.attempts \in 0..MaxCallbacks /\ MaxCallbacks \in 1..8
  BY LimitsAssumption DEF Controls
<1>2. ASSUME NEW stop, NEW n
      PROVE  ProbeSound(NotCaptured(stop), n) /\ ~NotCaptured(stop).captured
  BY DEF NotCaptured, ProbeSound
<1>3. ASSUME NEW stop, c[1] = NotCaptured(stop),
             c[2].attempts \in {control.attempts, control.attempts + 1}
      PROVE  /\ c[2].attempts >= control.attempts
             /\ ProbeSound(c[1], c[2].attempts)
             /\ ~c[1].captured
  BY <1>1, <1>2, <1>3
<1>4. CASE control.attempts < MaxCallbacks /\ \E p \in Probes(control.attempts, now) :
              c = <<p, [attempts |-> control.attempts + 1, stop |-> p.stop]>>
  <2>1. control.attempts \in 0..7
    BY <1>1, <1>4
  <2> QED
    BY <1>4, <2>1, ProbesSound
<1>5. CASE c = <<NotCaptured(control.stop), control>>
  BY <1>3, <1>5
<1>6. CASE c = <<NotCaptured("service_deadline"),
                 [control EXCEPT !.stop = "service_deadline"]>>
  <2>1. c[2].attempts = control.attempts
    BY <1>6 DEF Controls
  <2> QED
    BY <1>3, <1>6, <2>1
<1>7. CASE c = <<NotCaptured("callback_limit"), [control EXCEPT !.stop = "callback_limit"]>>
  <2>1. c[2].attempts = control.attempts
    BY <1>7 DEF Controls
  <2> QED
    BY <1>3, <1>7, <2>1
<1>8. CASE c = <<NotCaptured("control_exception"), [control EXCEPT !.attempts = @ + 1]>>
  <2>1. c[2].attempts = control.attempts + 1
    BY <1>8 DEF Controls
  <2> QED
    BY <1>3, <1>8, <2>1
<1>9. \/ c = <<NotCaptured(control.stop), control>>
      \/ c = <<NotCaptured("service_deadline"),
               [control EXCEPT !.stop = "service_deadline"]>>
      \/ c = <<NotCaptured("callback_limit"), [control EXCEPT !.stop = "callback_limit"]>>
      \/ c = <<NotCaptured("control_exception"), [control EXCEPT !.attempts = @ + 1]>>
      \/ /\ ~(control.attempts >= MaxCallbacks)
         /\ \E p \in Probes(control.attempts, now) :
              c = <<p, [attempts |-> control.attempts + 1, stop |-> p.stop]>>
  BY DEF Captured
<1> QED
  BY <1>1, <1>4, <1>5, <1>6, <1>7, <1>8, <1>9

-----------------------------------------------------------------------------
(* The actions. *)

LEMMA ReasonsNamed ==
    /\ {"sink_error", "adapter_exit", "invalid_usb_value", "usb_reconnected"}
          \subseteq EngineReasons
    /\ \A t : DeadlineReason(t) \in EngineReasons
    /\ \A event \in {"armed", "parent-poll", "poll-deadline", "poll-invalid-usb",
                     "unplug-candidate", "unplug-candidate-cancelled", "unplugged",
                     "replugged", "prepare-sleep", "replugged-during-prepare",
                     "prepare-invalid-usb"} : event \in PlainEvents
    /\ \A event \in {"armed", "unplug-candidate", "unplug-candidate-cancelled",
                     "unplugged", "prepare-sleep"} : ~Replugged(event)
  BY DeadlineTypes DEF EngineReasons, PlainEvents, Events, Replugged

LEMMA ReasonsRead ==
    ASSUME GaugeInv, NEW m \in Metadata(boot) PROVE m.stop \in EngineReasons
  BY MetadataFacts DEF GaugeInv

LEMMA ArmKeeps ==
    ASSUME EvidenceInv, TypeOK', ~dead, Arm PROVE EvidenceInv'
  BY PlainGoes, ReasonsNamed DEF Arm

LEMMA EndsKeep ==
    ASSUME EvidenceInv, TypeOK', ~dead, PollLate \/ SignalLate \/ AdapterExit
    PROVE  EvidenceInv'
<1>1. PICK reason \in EngineReasons : Finish(out, reason)
  BY ReasonsNamed DEF PollLate, SignalLate, AdapterExit
<1>2. phase # "stopped" /\ UNCHANGED control
  BY DEF PollLate, PollDue, SignalLate, AdapterExit
<1> QED
  BY <1>1, <1>2, EndKeeps

LEMMA PollStopsKeeps ==
    ASSUME EvidenceInv, GaugeInv, TypeOK', ~dead, PollStops PROVE EvidenceInv'
<1>1. PICK m \in Metadata(boot) :
        /\ PollReading(m)
        /\ \/ RecordAndStop(Plain("parent-poll"), m.stop)
           \/ RecordAndStop(Plain("poll-deadline"), DeadlineReason(m.after))
           \/ RecordAndStop(Plain("poll-invalid-usb"), "invalid_usb_value")
  BY DEF PollStops
<1>2. phase # "stopped" /\ UNCHANGED control
  BY <1>1 DEF PollReading, PollDue
<1>3. m.stop \in EngineReasons
  BY ReasonsRead
<1>4. CASE RecordAndStop(Plain("parent-poll"), m.stop)
  BY <1>2, <1>3, <1>4, PlainStops, ReasonsNamed
<1>5. CASE RecordAndStop(Plain("poll-deadline"), DeadlineReason(m.after))
  BY <1>2, <1>5, PlainStops, ReasonsNamed
<1>6. CASE RecordAndStop(Plain("poll-invalid-usb"), "invalid_usb_value")
  BY <1>2, <1>6, PlainStops, ReasonsNamed
<1> QED
  BY <1>1, <1>4, <1>5, <1>6

LEMMA PollOneKeeps ==
    ASSUME EvidenceInv, TypeOK', ~dead, UNCHANGED dead, PollWaitingOne
    PROVE  EvidenceInv'
<1>1. PICK m \in Metadata(boot) :
        /\ PollValue(m, "1")
        /\ Quiet \/ RecordAndGo(Plain("unplug-candidate-cancelled"), phase)
  BY DEF PollWaitingOne
<1>2. phase = "waiting_unplug" /\ UNCHANGED control
  BY <1>1 DEF PollWaitingOne, PollValue, PollReading
<1>3. CASE Quiet
  BY <1>2, <1>3, QuietKeeps DEF Quiet
<1>4. CASE RecordAndGo(Plain("unplug-candidate-cancelled"), phase)
  BY <1>2, <1>4, PlainGoes, ReasonsNamed
<1> QED
  BY <1>1, <1>3, <1>4

LEMMA PollZeroKeeps ==
    ASSUME EvidenceInv, TypeOK', ~dead, UNCHANGED dead, PollWaitingZero
    PROVE  EvidenceInv'
<1>1. PICK m \in Metadata(boot) :
        /\ PollValue(m, "0")
        /\ \/ Quiet
           \/ RecordAndGo(Plain("unplug-candidate"), phase)
           \/ RecordAndGo(Plain("unplugged"), "observing")
  BY DEF PollWaitingZero
<1>2. phase = "waiting_unplug" /\ UNCHANGED control
  BY <1>1 DEF PollWaitingZero, PollValue, PollReading
<1>3. CASE Quiet
  BY <1>2, <1>3, QuietKeeps DEF Quiet
<1>4. CASE RecordAndGo(Plain("unplug-candidate"), phase)
  BY <1>2, <1>4, PlainGoes, ReasonsNamed
<1>5. CASE RecordAndGo(Plain("unplugged"), "observing")
  BY <1>2, <1>5, PlainGoes, ReasonsNamed
<1> QED
  BY <1>1, <1>3, <1>4, <1>5

LEMMA PollObservingKeeps ==
    ASSUME EvidenceInv, TypeOK', ~dead, UNCHANGED dead, PollObserving
    PROVE  EvidenceInv'
<1>1. PICK m \in Metadata(boot), v \in {"0", "1"} :
        /\ phase = "observing"
        /\ PollValue(m, v)
        /\ Quiet \/ RecordAndStop(Plain("replugged"), "usb_reconnected")
  BY DEF PollObserving
<1>2. phase # "stopped" /\ UNCHANGED control
  BY <1>1 DEF PollValue, PollReading
<1>3. CASE Quiet
  BY <1>2, <1>3, QuietKeeps DEF Quiet
<1>4. CASE RecordAndStop(Plain("replugged"), "usb_reconnected")
  BY <1>2, <1>4, PlainStops, ReasonsNamed
<1> QED
  BY <1>1, <1>3, <1>4

LEMMA PrepareSleepKeeps ==
    ASSUME EvidenceInv, GaugeInv, TypeOK', ~dead, PrepareSleep PROVE EvidenceInv'
<1>1. PICK m \in Metadata(boot) :
        /\ PrepareSleepReading(m)
        /\ \/ RecordAndStop(Plain("prepare-sleep"), m.stop)
           \/ RecordAndStop(Plain("replugged-during-prepare"), "usb_reconnected")
           \/ RecordAndStop(Plain("prepare-invalid-usb"), "invalid_usb_value")
           \/ RecordAndStop(Plain("prepare-sleep"), DeadlineReason(m.after))
           \/ RecordAndGo(Plain("prepare-sleep"), phase)
  BY DEF PrepareSleep
<1>2. phase = "observing" /\ UNCHANGED control
  BY <1>1 DEF PrepareSleepReading
<1>3. m.stop \in EngineReasons
  BY ReasonsRead
<1>4. CASE RecordAndStop(Plain("prepare-sleep"), m.stop)
  BY <1>2, <1>3, <1>4, PlainStops, ReasonsNamed
<1>5. CASE RecordAndStop(Plain("replugged-during-prepare"), "usb_reconnected")
  BY <1>2, <1>5, PlainStops, ReasonsNamed
<1>6. CASE RecordAndStop(Plain("prepare-invalid-usb"), "invalid_usb_value")
  BY <1>2, <1>6, PlainStops, ReasonsNamed
<1>7. CASE RecordAndStop(Plain("prepare-sleep"), DeadlineReason(m.after))
  BY <1>2, <1>7, PlainStops, ReasonsNamed
<1>8. CASE RecordAndGo(Plain("prepare-sleep"), phase)
  BY <1>2, <1>8, PlainGoes, ReasonsNamed
<1> QED
  BY <1>1, <1>4, <1>5, <1>6, <1>7, <1>8

LEMMA ResumeKeeps ==
    ASSUME EvidenceInv, GaugeInv, TypeOK', ~dead, Resume PROVE EvidenceInv'
<1> DEFINE Why(c, now) == IF c[1].stop # None THEN MapProbeStop(c[1].stop)
                          ELSE DeadlineReason(now)
           Records(c, now) ==
             /\ control' = c[2]
             /\ IF Why(c, now) # None
                THEN RecordAndStop(Row("resume-signal", None, c[1]), Why(c, now))
                ELSE RecordAndGo(Row("resume-signal", None, c[1]), phase)
<1>1. \E start \in Within(boot, boot) : \E now \in Within(start, boot) :
        \E c \in Captured(start, now) : Records(c, now)
  BY DEF Resume
<1> HIDE DEF Records
<1>2. PICK start, now, c : c \in Captured(start, now) /\ Records(c, now)
  BY <1>1
<1> DEFINE row == Row("resume-signal", None, c[1])
           why == Why(c, now)
<1>3. phase = "observing"
  BY DEF Resume
<1>4. control \in Controls /\ control.stop = None
  BY <1>3 DEF GaugeInv, TypeOK, StopTogether
<1>5. /\ c[1] \in Probed
      /\ c[2].attempts >= control.attempts
      /\ ProbeSound(c[1], c[2].attempts)
      /\ c[1].captured => c[1].index >= control.attempts
  BY <1>2, <1>4, CapturedFacts, CapturedSound
<1>6. control' = c[2]
  BY <1>2 DEF Records
<1>7. row \in Rows /\ row.event = "resume-signal" /\ row.probe = c[1]
  BY <1>5, RowTypes DEF Row, Events, EngineReasons, ProbeStops
<1>8. why \in EngineReasons
  <2>1. c[1].stop \in ProbeStops
    BY <1>5 DEF Probed
  <2> QED
    BY <2>1, MapTypes, DeadlineTypes
<1>9. IF why # None THEN RecordAndStop(row, why) ELSE RecordAndGo(row, phase)
  BY <1>2 DEF Records
<1> HIDE DEF row, why
<1>10. \E j \in DOMAIN Log : Log[j].event = "unplugged"
  BY <1>3 DEF EvidenceInv, ObservesUnplugged
<1>11. \A j \in DOMAIN Log : ~Replugged(Log[j].event)
  BY <1>3, EvidenceRuns
<1>12. Addable(Log, row, control.attempts, control'.attempts)
  BY <1>5, <1>6, <1>7, <1>10, <1>11 DEF Addable
<1>13. ~Replugged(row.event)
  BY <1>7 DEF Replugged
<1>14. control.attempts <= control'.attempts
  <2>1. control.attempts \in Nat /\ control'.attempts \in Nat
    BY <1>3, EvidenceRuns, AttemptsNat
  <2> QED
    BY <1>5, <1>6, <2>1
<1> QED
  BY <1>3, <1>7, <1>8, <1>9, <1>12, <1>13, <1>14, StopKeeps, GoKeeps

LEMMA OtherKeeps ==
    ASSUME EvidenceInv, TypeOK', UNCHANGED dead,
           PrepareSleepIgnored \/ ResumeIgnored \/ Tick
    PROVE  EvidenceInv'
  BY QuietKeeps DEF PrepareSleepIgnored, ResumeIgnored, Tick, Quiet

-----------------------------------------------------------------------------
(* The loss of power. *)

LEMMA PowerLossGauge ==
    ASSUME GaugeInv, PowerLoss PROVE GaugeInv'
<1>1. PICK n \in 0..Len(out.log), cut \in BOOLEAN :
        out' = [out EXCEPT !.log = SubSeq(out.log, 1, n)
                                   \o (IF cut THEN <<Torn>> ELSE <<>>)]
  BY DEF PowerLoss
<1>2. out \in Outs /\ out.log \in Seq(Rows)
  BY DEF GaugeInv, TypeOK, Outs
<1>3. SubSeq(out.log, 1, n) \in Seq(Rows)
  BY <1>2
<1>4. (IF cut THEN <<Torn>> ELSE <<>>) \in Seq(Rows)
  BY TornFacts
<1>5. SubSeq(out.log, 1, n) \o (IF cut THEN <<Torn>> ELSE <<>>) \in Seq(Rows)
  BY <1>3, <1>4
<1>6. out' \in Outs
  BY <1>1, <1>2, <1>5 DEF Outs
<1>7. TypeOK'
  BY <1>6, LimitsAssumption DEF GaugeInv, TypeOK, PowerLoss
<1> QED
  BY <1>7 DEF GaugeInv, CandidateIsRun, StableUnplug, StopTogether, PowerLoss, Never

LEMMA PowerLossKeeps ==
    ASSUME EvidenceInv, TypeOK', PowerLoss PROVE EvidenceInv'
<1>1. PICK n \in 0..Len(out.log), cut \in BOOLEAN :
        /\ cut => n < Len(out.log)
        /\ out' = [out EXCEPT !.log = SubSeq(out.log, 1, n)
                                      \o (IF cut THEN <<Torn>> ELSE <<>>)]
  BY DEF PowerLoss
<1>2. /\ out \in Outs /\ out.log \in Seq(Rows) /\ Len(out.log) \in Nat
      /\ DOMAIN out.log = 1..Len(out.log)
  <2>1. out \in Outs
    BY DEF EvidenceInv, TypeOK
  <2>2. out.log \in Seq(Rows)
    BY <2>1 DEF Outs
  <2> QED
    BY <2>1, <2>2
<1> DEFINE new == SubSeq(out.log, 1, n) \o (IF cut THEN <<Torn>> ELSE <<>>)
<1>3. n \in Nat /\ n <= Len(out.log)
  BY <1>2
<1>4. /\ SubSeq(out.log, 1, n) \in Seq(Rows) /\ Len(SubSeq(out.log, 1, n)) = n
      /\ \A i \in 1..n : SubSeq(out.log, 1, n)[i] = out.log[i]
  BY <1>2, <1>3
<1>5. /\ new \in Seq(Rows)
      /\ \A i \in 1..n : new[i] = out.log[i]
      /\ Len(new) = IF cut THEN n + 1 ELSE n
      /\ cut => new[n + 1] = Torn
  <2> DEFINE sub == SubSeq(out.log, 1, n)
  <2>1. sub \in Seq(Rows) /\ Len(sub) = n /\ \A i \in 1..n : sub[i] = out.log[i]
    BY <1>4
  <2> HIDE DEF sub
  <2>2. CASE cut
    <3>1. new = sub \o <<Torn>>
      BY <2>2 DEF sub
    <3>2. <<Torn>> \in Seq(Rows) /\ Len(<<Torn>>) = 1 /\ <<Torn>>[1] = Torn
      BY TornFacts
    <3> QED
      BY <1>3, <2>1, <2>2, <3>1, <3>2
  <2>3. CASE ~cut
    <3>1. new = sub \o << >>
      BY <2>3 DEF sub
    <3> QED
      BY <1>3, <2>1, <2>3, <3>1
  <2> QED
    BY <2>2, <2>3
<1>6. out'.log = new /\ out'.rows = out.rows /\ out'.failed = out.failed
  BY <1>1, <1>2 DEF Outs
<1> HIDE DEF new
<1>7. \A i \in DOMAIN new : \/ i \in DOMAIN out.log /\ new[i] = out.log[i] /\ i <= n
                            \/ cut /\ i = Len(new) /\ new[i] = Torn
  BY <1>2, <1>3, <1>5
<1>8. dead' = TRUE /\ UNCHANGED <<control, stopReason>>
      /\ (phase = "stopped" => phase' = "stopped")
  BY DEF PowerLoss
<1>9. EndIsLast'
  <2>1. ASSUME NEW i \in DOMAIN new, new[i].event = "finished"
        PROVE  /\ i = Len(new) /\ i = out.rows /\ phase' = "stopped"
               /\ new[i].reason = stopReason'
    <3>1. i \in DOMAIN out.log /\ new[i] = out.log[i] /\ i <= n
      BY <1>7, <2>1, TornFacts
    <3>2. /\ i = Len(out.log) /\ i = out.rows /\ phase = "stopped"
          /\ out.log[i].reason = stopReason
      BY <2>1, <3>1 DEF EvidenceInv, EndIsLast, Log
    <3>3. n = Len(out.log) /\ ~cut
      BY <1>1, <1>2, <1>3, <3>1, <3>2
    <3> QED
      BY <1>5, <1>8, <3>1, <3>2, <3>3
  <2> QED
    BY <1>6, <2>1 DEF EndIsLast, Log
<1>10. RowsSound(new, control.attempts)
  <2>1. \A i \in DOMAIN new : \/ i \in DOMAIN out.log /\ new[i] = out.log[i]
                              \/ i = Len(new) /\ new[i].event # "resume-signal"
    BY <1>7, TornFacts
  <2>2. control.attempts \in Nat
    <3>1. control \in Controls
      BY DEF EvidenceInv, TypeOK
    <3> QED
      BY <3>1, LimitsAssumption DEF Controls
  <2> QED
    BY <1>2, <1>5, <2>1, <2>2, RowsCut DEF EvidenceInv, Log
<1> QED
  BY <1>6, <1>8, <1>9, <1>10 DEF EvidenceInv, SinkWhole, ObservesUnplugged, Log

LEMMA EvidenceInitHolds ==
    ASSUME Init PROVE GaugeInv /\ EvidenceInv
<1>1. GaugeInv
  BY GaugeInitHolds
<1>2. Log = <<>> /\ out.rows = 0
  BY DEF Init, Log
<1> QED
  BY <1>1, <1>2
  DEF Init, GaugeInv, EvidenceInv, SinkWhole, EndIsLast, ObservesUnplugged, RowsSound

LEMMA EvidenceStepHolds ==
    ASSUME GaugeInv, EvidenceInv, [EvidenceNext]_evidenceVars
    PROVE  GaugeInv' /\ EvidenceInv'
<1>1. CASE ~dead /\ Next /\ UNCHANGED dead
  <2>1. GaugeInv'
    BY <1>1, GaugeStepHolds
  <2>2. TypeOK'
    BY <2>1 DEF GaugeInv
  <2> QED
    BY <1>1, <2>1, <2>2, ArmKeeps, EndsKeep, PollStopsKeeps, PollOneKeeps, PollZeroKeeps,
       PollObservingKeeps, PrepareSleepKeeps, ResumeKeeps, OtherKeeps DEF Next
<1>2. CASE PowerLoss
  <2>1. GaugeInv'
    BY <1>2, PowerLossGauge
  <2>2. TypeOK'
    BY <2>1 DEF GaugeInv
  <2> QED
    BY <1>2, <2>1, <2>2, PowerLossKeeps
<1>3. CASE UNCHANGED evidenceVars
  <2>1. GaugeInv'
    BY <1>3, GaugeStepHolds DEF evidenceVars
  <2>2. TypeOK' /\ UNCHANGED <<phase, stopReason, out, control, dead>>
    BY <1>3, <2>1 DEF GaugeInv, evidenceVars, vars
  <2> QED
    BY <2>1, <2>2, QuietKeeps
<1> QED
  BY <1>1, <1>2, <1>3 DEF EvidenceNext

-----------------------------------------------------------------------------
(* What the analyzer makes of it. *)

LEMMA WholeFollows == ASSUME EvidenceInv PROVE CompleteIsWhole
<1> SUFFICES ASSUME Analysis!CompleteStructurally(Log)
             PROVE  /\ Len(Log) = out.rows /\ phase = "stopped"
                    /\ Analysis!FinishedReason(Log) = stopReason
  BY DEF CompleteIsWhole
<1>1. PICK i \in DOMAIN Log : Analysis!Positions(Log, "finished") = {i}
  BY DEF Analysis!CompleteStructurally
<1>2. Log[i].event = "finished" /\ i \in Int
  <2>1. out \in Outs
    BY DEF EvidenceInv, TypeOK
  <2>2. Log \in Seq(Rows)
    BY <2>1 DEF Outs, Log
  <2> QED
    BY <1>1, <2>2 DEF Analysis!Positions
<1>3. Analysis!Last1({i}) = i
  BY <1>2 DEF Analysis!Last1
<1>4. Analysis!FinishedReason(Log) = Log[i].reason
  BY <1>1, <1>3 DEF Analysis!FinishedReason
<1> QED
  BY <1>2, <1>4 DEF EvidenceInv, EndIsLast

\* The analyzer's copy of the plan is the probe's.
LEMMA PlansAgree ==
    ASSUME NEW mode
    PROVE  PlanFor(mode) = Analysis!ExpectedLabels(mode)
  BY DEF PlanFor, Analysis!ExpectedLabels, Prelude, TreatmentMiddle, ControlMiddle, Epilogue

LEMMA SeqJoined ==
    ASSUME NEW S, NEW s \in Seq(S), NEW t \in Seq(S)
    PROVE  s \o t \in Seq(S) /\ Len(s \o t) = Len(s) + Len(t)
<1>1. s \o t \in Seq(S)
  OBVIOUS
<1>2. Len(s \o t) = Len(s) + Len(t)
  OBVIOUS
<1> QED
  BY <1>1, <1>2

LEMMA SeqWhole ==
    ASSUME NEW S, NEW s \in Seq(S) PROVE SubSeq(s, 1, Len(s)) = s
  OBVIOUS

LEMMA PlanLength ==
    ASSUME NEW mode \in {"treatment", "control"}
    PROVE  SubSeq(PlanFor(mode), 1, PlanReads) = PlanFor(mode)
<1> DEFINE middle == IF mode = "treatment" THEN TreatmentMiddle ELSE ControlMiddle
           Labels == UsbLabels \cup StatusLabels \cup CurrentLabels
                     \cup {"wake_reason", "middle_charge_counter", "middle_shadow",
                           "middle_raw", "middle_current_now_1",
                           "middle_current_now_2", "middle_current_now_3"}
<1>1. Prelude \in Seq(Labels) /\ Len(Prelude) = 5
  BY DEF Prelude, UsbLabels, StatusLabels, CurrentLabels
<1>2. middle \in Seq(Labels) /\ Len(middle) = 3
  <2>1. TreatmentMiddle \in Seq(Labels) /\ Len(TreatmentMiddle) = 3
    BY DEF TreatmentMiddle
  <2>2. ControlMiddle \in Seq(Labels) /\ Len(ControlMiddle) = 3
    BY DEF ControlMiddle
  <2> HIDE DEF Labels
  <2> QED
    BY <2>1, <2>2
<1>3. Epilogue \in Seq(Labels) /\ Len(Epilogue) = 6
  BY DEF Epilogue, UsbLabels, StatusLabels, CurrentLabels
<1>4. PlanFor(mode) = (Prelude \o middle) \o Epilogue
  BY DEF PlanFor
<1> HIDE DEF middle, Labels
<1> DEFINE before == Prelude \o middle
<1>5. before \in Seq(Labels) /\ Len(before) = Len(Prelude) + Len(middle)
  BY <1>1, <1>2, SeqJoined, Zenon
<1> HIDE DEF before
<1>6. before \o Epilogue \in Seq(Labels)
      /\ Len(before \o Epilogue) = Len(before) + Len(Epilogue)
  BY <1>3, <1>5, SeqJoined, Zenon
<1>7. PlanFor(mode) \in Seq(Labels) /\ Len(PlanFor(mode)) = 14
  BY <1>1, <1>2, <1>3, <1>4, <1>5, <1>6 DEF before
<1> QED
  BY <1>7, SeqWhole DEF PlanReads

LEMMA QualityFollows ==
    ASSUME NEW p \in Probed, NEW n, ProbeSound(p, n), p.complete, p.odd = None
    PROVE  Analysis!QualityIssues(p) = {}
<1>1. /\ p.captured /\ p.reads = PlanReads /\ p.index \in 0..7
      /\ p.mode = ModeSequence[p.index + 1]
      /\ p.stop \in {None, "callback_limit_reached", "service_deadline"}
  BY DEF ProbeSound
<1>2. p.mode \in {"treatment", "control"}
  <2>1. \A i \in 1..8 : ModeSequence[i] \in {"treatment", "control"}
    BY DEF ModeSequence
  <2>2. p.index + 1 \in 1..8
    BY <1>1
  <2> QED
    BY <1>1, <2>1, <2>2
<1>3. Analysis!Trace(p) = Analysis!ExpectedLabels(p.mode)
  BY <1>1, <1>2, PlanLength, PlansAgree DEF Analysis!Trace
<1>4. Analysis!LabelIssues(p) = {}
  BY <1>1, <1>2, <1>3, PlansAgree DEF Analysis!LabelIssues, Analysis!KnownMode, Analysis!Flag
<1>5. Analysis!TimingIssues(p) = {}
  BY <1>1 DEF Analysis!TimingIssues, Analysis!Flag, None
<1>6. Analysis!ExpectedModes = ModeSequence /\ Len(ModeSequence) = 8
  BY DEF Analysis!ExpectedModes, ModeSequence
<1> QED
  BY <1>1, <1>4, <1>5, <1>6
  DEF Analysis!QualityIssues, Analysis!Flag, Analysis!AcceptedCompleteStops, None

LEMMA UsableFollows == ASSUME EvidenceInv PROVE UsableEvidence
<1>1. out \in Outs
  BY DEF EvidenceInv, TypeOK
<1>2. Log \in Seq(Rows)
  BY <1>1 DEF Outs, Log
<1> DEFINE at == Analysis!Attempts(Log)
<1>3. /\ DOMAIN at = {i \in DOMAIN Log : Log[i].event = "resume-signal"}
      /\ \A i \in DOMAIN at : at[i] = Log[i].probe
  BY DEF Analysis!Attempts, Analysis!Positions, Analysis!Events
<1>4. \A i \in DOMAIN at : at[i] \in Probed /\ ProbeSound(at[i], control.attempts)
  <2>1. \A i \in DOMAIN Log : Log[i] \in Rows
    BY <1>2
  <2>2. \A i \in DOMAIN Log : Log[i].probe \in Probed
    BY <2>1 DEF Rows
  <2> QED
    BY <1>3, <2>2 DEF EvidenceInv, RowsSound
<1>5. \A i, j \in DOMAIN at :
        (i # j /\ at[i].captured /\ at[j].captured) => at[i].index # at[j].index
  BY <1>3 DEF EvidenceInv, RowsSound
<1>6. Analysis!Captures(Log) = {i \in DOMAIN at : at[i].captured}
  BY DEF Analysis!Captures
<1> HIDE DEF at
<1>7. ASSUME NEW i \in DOMAIN at, at[i].complete, at[i].odd = None
      PROVE  i \in Analysis!Usable(Log)
  <2>1. Analysis!QualityIssues(at[i]) = {}
    BY <1>4, <1>7, QualityFollows
  <2>2. at[i].captured
    BY <1>4, <1>7 DEF ProbeSound
  <2> QED
    BY <1>5, <1>6, <1>7, <2>1, <2>2 DEF Analysis!Usable, at
<1>8. ASSUME NEW i \in DOMAIN at, i \in Analysis!Usable(Log)
      PROVE  at[i].complete /\ at[i].odd = None
  <2>1. at[i].complete /\ Analysis!QualityIssues(at[i]) = {}
    BY <1>8 DEF Analysis!Usable, at
  <2>2. at[i].odd = None
    BY <2>1 DEF Analysis!QualityIssues, Analysis!Flag, None
  <2> QED
    BY <2>1, <2>2
<1>9. CompleteProbesUsable
  BY <1>7, <1>8 DEF CompleteProbesUsable, at
<1>10. UsableWhileUnplugged
  BY DEF EvidenceInv, RowsSound, UsableWhileUnplugged, Replugged
<1> QED
  BY <1>9, <1>10 DEF UsableEvidence

LEMMA EvidenceInvHolds == EvidenceSpec => [](GaugeInv /\ EvidenceInv)
<1>1. EvidenceInit => GaugeInv /\ EvidenceInv
  BY EvidenceInitHolds DEF EvidenceInit
<1>2. GaugeInv /\ EvidenceInv /\ [EvidenceNext]_evidenceVars => GaugeInv' /\ EvidenceInv'
  BY EvidenceStepHolds
<1> QED
  BY <1>1, <1>2, PTL DEF EvidenceSpec

\* Whatever the sink loses, tears or refuses, and wherever the power is cut: a log the
\* analyzer calls structurally complete has every row the engine kept, and its end.
THEOREM CompleteLogIsWhole == EvidenceSpec => []CompleteIsWhole
<1>1. EvidenceInv => CompleteIsWhole
  BY WholeFollows
<1> QED
  BY <1>1, EvidenceInvHolds, PTL

\* The analyzer takes a probe for evidence exactly when the observer completed it with
\* numbers, and its row comes after the confirmed unplug and before any replug.
THEOREM EvidenceIsUsable == EvidenceSpec => []UsableEvidence
<1>1. EvidenceInv => UsableEvidence
  BY UsableFollows
<1> QED
  BY <1>1, EvidenceInvHolds, PTL
=============================================================================
