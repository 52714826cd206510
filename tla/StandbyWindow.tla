--------------------------- MODULE StandbyWindow ---------------------------
(***************************************************************************)
(* collect-matched-standby-window.py: one standby window, from the first   *)
(* sample to the last document, with the termination signal that may come  *)
(* between any two steps of the loop.                                      *)
(*                                                                         *)
(* The result of build_result() copies the counters and keeps the lists    *)
(* themselves: `published` holds the copies, and a document is completed   *)
(* with the lists when it is written.  Times are in units of the poll.     *)
(***************************************************************************)
EXTENDS Integers, Sequences

CONSTANTS
    MaxEvents,          \* MAX_EVENTS
    MaxUsbEvents,       \* MAX_USB_EVENTS
    MaxEndpoints,       \* MAX_ENDPOINT_SAMPLES
    Threshold,          \* --threshold
    MaxSeconds,         \* --max-seconds
    LongestSuspend      \* bound: a suspend between two samples

WindowAssumption ==
    /\ MaxEvents \in Nat \ {0} /\ MaxEndpoints \in Nat \ {0}
    /\ MaxUsbEvents \in Nat \ {0, 1}      \* 64 in the code, which pops index 1
    /\ Threshold \in Nat \ {0} /\ MaxSeconds \in Nat \ {0}

VARIABLES
    stage,      \* where main() is
    clock,      \* [boot, mono]: the two clocks, since the start
    window,     \* the Window
    pending,    \* events of the last sample not recorded yet
    fresh,      \* what the last sample made: the events main() looks at
    published,  \* state["result"], None before the handler is installed
    files,      \* the document at --out, the temporary one beside it, and the
                \* one an interrupted write still holds
    past        \* history: every event, in order

standbyVars == <<stage, clock, window, pending, fresh, published, files, past>>

None == [kind |-> "none"]

-----------------------------------------------------------------------------
(* Readings. *)

\* parse_online(): anything but the two exact values is unknown.
Online == {"1", "0", "error"}

\* usb_state(), charging_state(): what one sample reads besides the clocks.
Readings ==
    [usb : Online, links : BOOLEAN, other : {"none", "online", "unknown"},
     status : {"Discharging", "Charging"}]

\* usb_attached: the power flag is the exact "1", or a link has a carrier.
Attached(r) == r.usb = "1" \/ r.links

\* discharge_endpoint()
Endpoint(r) == r.usb = "0" /\ r.other = "none" /\ r.status = "Discharging"

\* sample(): the clocks, then what main() makes of the readings.
Sample(c, r) ==
    [boot |-> c.boot, mono |-> c.mono, attached |-> Attached(r), endpoint |-> Endpoint(r)]

\* suspended_total() and suspend_gap()
SuspendedTotal(s) == s.boot - s.mono
SuspendGap(a, b) ==
    LET gap == SuspendedTotal(b) - SuspendedTotal(a)
    IN  IF gap < Threshold THEN 0 ELSE gap

Suspend(gap) == [kind |-> "suspend_gap", seconds |-> gap]
Usb(from, to) == [kind |-> "usb_transition", from |-> from, to |-> to]

\* classify()
Classify(a, b) == IF SuspendGap(a, b) <= 0 THEN <<>> ELSE <<Suspend(SuspendGap(a, b))>>

\* usb_transition(), independent of the suspend.
UsbTransition(a, b) ==
    IF a.attached = b.attached THEN <<>>
    ELSE <<Usb(a.attached, b.attached)>>

-----------------------------------------------------------------------------
(* The Window: bounded lists, unbounded totals. *)

NewWindow ==
    [events |-> <<>>, total |-> 0, dropped |-> 0, usb |-> <<>>, usbTotal |-> 0,
     gaps |-> <<>>, gapCount |-> 0, suspended |-> 0,
     endpoints |-> <<>>, endpointsTotal |-> 0, samples |-> 0,
     first |-> None, last |-> None]

\* append, then pop(0) beyond the capacity.
Push(list, item, capacity) ==
    LET longer == Append(list, item)
    IN  IF Len(longer) > capacity THEN Tail(longer) ELSE longer

\* append, then pop(1): the first transition is kept.
PushKeepingFirst(list, item, capacity) ==
    LET longer == Append(list, item)
    IN  IF Len(longer) > capacity THEN <<Head(longer)>> \o Tail(Tail(longer)) ELSE longer

\* _retain_sample(): the other samples are only counted.
Retain(w, s) ==
    IF s.endpoint
    THEN [w EXCEPT !.endpointsTotal = @ + 1,
                   !.endpoints = Push(@, s.boot, MaxEndpoints)]
    ELSE w

\* observe(), up to the recording of the events.
Take(w, s) ==
    LET seen == [Retain(w, s) EXCEPT !.samples = @ + 1, !.last = s]
    IN  IF w.first = None THEN [seen EXCEPT !.first = s] ELSE seen

NewEvents(w, s) == Classify(w.last, s) \o UsbTransition(w.last, s)

\* Mutant: the seconds of a suspend go with it when the log drops it.
RecordRetained(w, e) ==
    LET kept == [w EXCEPT !.total = @ + 1,
                          !.dropped = IF Len(w.events) >= MaxEvents THEN @ + 1 ELSE @,
                          !.events = Push(@, e, MaxEvents)]
    IN  IF e.kind = "suspend_gap"
        THEN [kept EXCEPT !.gapCount = @ + 1, !.gaps = Push(@, e, MaxEvents),
                          !.suspended = @ + e.seconds - IF Len(w.gaps) < MaxEvents THEN 0
                                                        ELSE Head(w.gaps).seconds]
        ELSE [kept EXCEPT !.usbTotal = @ + 1,
                          !.usb = PushKeepingFirst(@, e, MaxUsbEvents)]

\* _record()
Record(w, e) ==
    LET kept == [w EXCEPT !.total = @ + 1,
                          !.dropped = IF Len(w.events) >= MaxEvents THEN @ + 1 ELSE @,
                          !.events = Push(@, e, MaxEvents)]
    IN  IF e.kind = "suspend_gap"
        THEN [kept EXCEPT !.gapCount = @ + 1, !.suspended = @ + e.seconds,
                          !.gaps = Push(@, e, MaxEvents)]
        ELSE [kept EXCEPT !.usbTotal = @ + 1,
                          !.usb = PushKeepingFirst(@, e, MaxUsbEvents)]

\* unplug_event() and replug_event(): the first transition of that direction.
FirstOf(list, to) ==
    LET hits == {i \in DOMAIN list : list[i].to = to}
    IN  IF hits = {} THEN None ELSE list[CHOOSE i \in hits : \A j \in hits : i <= j]

FirstUsb(w, to) == FirstOf(w.usb, to)

-----------------------------------------------------------------------------
(* Documents. *)

\* build_result(): what it copies at that moment.
Result(w, ended) ==
    [kind |-> "result", ended |-> ended.boot, elapsed |-> w.last.boot - w.first.boot,
     total |-> w.total, retained |-> Len(w.events), dropped |-> w.dropped,
     suspended |-> w.suspended, gapCount |-> w.gapCount, gaps |-> w.gaps,
     unplug |-> FirstUsb(w, FALSE), replug |-> FirstUsb(w, TRUE),
     endpointsRetained |-> Len(w.endpoints), samples |-> w.samples]

\* What json.dump() makes of a result: its lists as they are now.
Document(result) ==
    [result |-> result, events |-> window.events, endpoints |-> window.endpoints]

Torn == [kind |-> "torn"]

\* write_result(), first half: the temporary file, truncated then filled.
OpenTmp(result) == files' = [files EXCEPT !.tmp = Document(result)]

\* Second half: os.replace().
Replace == files' = [files EXCEPT !.out = files.tmp, !.tmp = None]

\* What an interrupted writer does to the file the handler renamed: both have
\* the same inode, and leaving `with open(tmp)` flushes the rest of its buffer
\* at its own offset.  Only the same bytes do no harm.
Flushed(doc, held) == IF held \in {None, doc} THEN doc ELSE Torn

-----------------------------------------------------------------------------
Init ==
    /\ stage = "start"
    /\ clock = [boot |-> 0, mono |-> 0]
    /\ window = NewWindow
    /\ pending = <<>>
    /\ fresh = <<>>
    /\ published = None
    /\ files = [out |-> None, tmp |-> None, held |-> None]
    /\ past = <<>>

\* The first sample, the result made of it, and the handler.
Begin ==
    /\ stage = "start"
    /\ \E s \in {Sample(clock, r) : r \in Readings} :
            /\ window' = Take(window, s)
            /\ published' = Result(Take(window, s), s)
    /\ stage' = "open"
    /\ UNCHANGED <<clock, pending, fresh, files, past>>

\* write_result(), by the main program.
Open ==
    /\ stage = "open"
    /\ OpenTmp(published)
    /\ stage' = "replace"
    /\ UNCHANGED <<clock, window, pending, fresh, published, past>>

ReplugSeen == \E i \in DOMAIN fresh : fresh[i].kind = "usb_transition" /\ fresh[i].to

\* The rename, and the break after a replug.
Replaced ==
    /\ stage = "replace"
    /\ Replace
    /\ stage' = IF ReplugSeen THEN "ending" ELSE "check"
    /\ UNCHANGED <<clock, window, pending, fresh, published, past>>

\* deadline_reached()
Check ==
    /\ stage = "check"
    /\ stage' = IF clock.boot >= MaxSeconds THEN "ending" ELSE "asleep"
    /\ UNCHANGED <<clock, window, pending, fresh, published, files, past>>

\* time.sleep(), with a suspend of the processor or none.
Sleep ==
    /\ stage = "asleep"
    /\ \E gap \in 0..LongestSuspend :
        clock' = [boot |-> clock.boot + 1 + gap, mono |-> clock.mono + 1]
    /\ stage' = "sample"
    /\ UNCHANGED <<window, pending, fresh, published, files, past>>

\* sample("poll") and the first half of observe().
Observe ==
    /\ stage = "sample"
    /\ \E s \in {Sample(clock, r) : r \in Readings} :
            /\ window' = Take(window, s)
            /\ fresh' = NewEvents(window, s)
    /\ pending' = fresh'
    /\ past' = past \o fresh'
    /\ stage' = IF fresh' = <<>> THEN "check" ELSE "record"
    /\ UNCHANGED <<clock, published, files>>

\* The second half: one event after the other.
RecordOne ==
    /\ stage = "record"
    /\ window' = Record(window, Head(pending))
    /\ pending' = Tail(pending)
    /\ stage' = IF Len(pending) = 1 THEN "build" ELSE "record"
    /\ UNCHANGED <<clock, fresh, published, files, past>>

\* build_result() and state["result"].
Build ==
    /\ stage = "build"
    /\ published' = Result(window, window.last)
    /\ stage' = "open"
    /\ UNCHANGED <<clock, window, pending, fresh, files, past>>

\* After the loop: a last sample that the window does not observe.
BuildLast ==
    /\ stage = "ending"
    /\ published' = Result(window, [window.last EXCEPT !.boot = clock.boot])
    /\ stage' = "open last"
    /\ UNCHANGED <<clock, window, pending, fresh, files, past>>

OpenLast ==
    /\ stage = "open last"
    /\ OpenTmp(published)
    /\ stage' = "replace last"
    /\ UNCHANGED <<clock, window, pending, fresh, published, past>>

ReplacedLast ==
    /\ stage = "replace last"
    /\ Replace
    /\ stage' = "done"
    /\ UNCHANGED <<clock, window, pending, fresh, published, past>>

Running == stage \notin {"start", "signalled", "handler replace", "done", "dead"}

\* SIGTERM or SIGINT: the handler runs between two steps of the program and
\* writes state["result"] through the same temporary file, which the program
\* may hold open.
Signal ==
    /\ Running
    /\ files' = [files EXCEPT !.tmp = Document(published), !.held = files.tmp]
    /\ stage' = "handler replace"
    /\ UNCHANGED <<clock, window, pending, fresh, published, past>>

\* Mutant: the handler returns to the program.
HandlerReturns ==
    /\ stage = "handler replace"
    /\ files' = [out |-> Flushed(files.tmp, files.held), tmp |-> None, held |-> None]
    /\ stage' = "check"
    /\ UNCHANGED <<clock, window, pending, fresh, published, past>>

HandlerReplaced ==
    /\ stage = "handler replace"
    /\ files' = [out |-> Flushed(files.tmp, files.held), tmp |-> None, held |-> None]
    /\ stage' = "signalled"
    /\ UNCHANGED <<clock, window, pending, fresh, published, past>>

\* The signal before the handler, the kill or the power cut: a temporary file
\* may be left behind, written in part.
Die ==
    /\ stage \notin {"signalled", "done", "dead"}
    /\ stage' = "dead"
    /\ files' \in {files, [files EXCEPT !.tmp = IF @ = None THEN None ELSE Torn]}
    /\ UNCHANGED <<clock, window, pending, fresh, published, past>>

Step ==
    \/ Begin
    \/ Open
    \/ Replaced
    \/ Check
    \/ Sleep
    \/ Observe
    \/ RecordOne
    \/ Build
    \/ BuildLast
    \/ OpenLast
    \/ ReplacedLast

Next == Step \/ Signal \/ HandlerReplaced \/ Die

Spec == Init /\ [][Next]_standbyVars /\ WF_standbyVars(Step) /\ WF_standbyVars(HandlerReplaced)

-----------------------------------------------------------------------------
\* What the events say, heard in their order.
NoStory == [seconds |-> 0, gaps |-> 0, unplug |-> None, replug |-> None]

Heard(story, e) ==
    IF e.kind = "suspend_gap"
    THEN [story EXCEPT !.seconds = @ + e.seconds, !.gaps = @ + 1]
    ELSE IF e.to THEN [story EXCEPT !.replug = IF @ = None THEN e ELSE @]
                 ELSE [story EXCEPT !.unplug = IF @ = None THEN e ELSE @]

Stories(events) ==
    LET told[n \in 0..Len(events)] ==
            IF n = 0 THEN NoStory ELSE Heard(told[n - 1], events[n])
    IN  told

Story(events) == Stories(events)[Len(events)]

\* The document of a window that came to its end tells all of it, however
\* small the lists it keeps: every second of every suspend that passes the
\* threshold, also one met in the same pair of samples as a transition, and
\* the first unplug and the replug that ended it.
FinalTellsAll ==
    stage = "done" =>
        LET r == files.out.result
        IN  /\ r.total = Len(past) /\ r.dropped + Len(files.out.events) = Len(past)
            /\ Story(past) = [seconds |-> r.suspended, gaps |-> r.gapCount,
                              unplug |-> r.unplug, replug |-> r.replug]
            /\ r.suspended <= r.elapsed

\* The collector ends, by its deadline, a replug or a signal.
Ended == stage \in {"done", "signalled", "dead"}

Ends == <>Ended

\* "The retained sequence is bounded and its length is reported": the lengths
\* a document reports are those of the lists it holds.
LengthsReported ==
    files.out \notin {None, Torn} =>
        /\ Len(files.out.events) = files.out.result.retained
        /\ Len(files.out.endpoints) = files.out.result.endpointsRetained

-----------------------------------------------------------------------------
(* The inductive invariant: what the window holds, with the events of the last   *)
(* pair of samples that it has still to record, is what happened.                *)

Stages == {"start", "open", "replace", "check", "asleep", "sample", "record", "build",
           "ending", "open last", "replace last", "done",
           "handler replace", "signalled", "dead"}

Collecting == stage \notin {"start", "handler replace", "signalled", "dead"}

Samples == [boot : Nat, mono : Nat, attached : BOOLEAN, endpoint : BOOLEAN]
Gaps == [kind : {"suspend_gap"}, seconds : Nat]
Unplug == Usb(TRUE, FALSE)
Replug == Usb(FALSE, TRUE)
Events == Gaps \cup {Unplug, Replug}

Windows ==
    [events : Seq(Events), total : Nat, dropped : Nat, usb : Seq({Unplug, Replug}),
     usbTotal : Nat, gaps : Seq(Gaps), gapCount : Nat, suspended : Nat,
     endpoints : Seq(Nat), endpointsTotal : Nat, samples : Nat,
     first : Samples, last : Samples]

GapWaits == pending # <<>> /\ pending[1].kind = "suspend_gap"
MoveWaits == pending # <<>> /\ pending[Len(pending)].kind = "usb_transition"

\* The transitions so far.
Moves == IF MoveWaits THEN Append(window.usb, pending[Len(pending)]) ELSE window.usb

SecondsSoFar == window.suspended + IF GapWaits THEN pending[1].seconds ELSE 0
GapsSoFar == window.gapCount + IF GapWaits THEN 1 ELSE 0

WindowTyped ==
    /\ clock \in [boot : Nat, mono : Nat]
    /\ window \in Windows /\ Len(window.events) <= MaxEvents
    /\ past \in Seq(Events) /\ pending \in Seq(Events) /\ fresh \in Seq(Events)
    \* A pair of samples gives a suspend, a transition or both, in this order.
    /\ Len(pending) <= 2
    /\ Len(pending) = 2 => pending[1] \in Gaps /\ pending[2] \notin Gaps

\* One unplug at most, and one replug, with which the loop ends.
MovesInv ==
    /\ Moves \in {<<>>, <<Unplug>>, <<Replug>>, <<Unplug, Replug>>}
    /\ Moves # <<>> => window.last.attached = Moves[Len(Moves)].to
    /\ stage \in {"check", "asleep", "sample"} => Moves \in {<<>>, <<Unplug>>}
    /\ stage \in {"record", "build", "open", "replace"} /\ ~ReplugSeen
         => Moves \in {<<>>, <<Unplug>>}

StoryInv ==
    Story(past) = [seconds |-> SecondsSoFar, gaps |-> GapsSoFar,
                   unplug |-> FirstOf(Moves, FALSE), replug |-> FirstOf(Moves, TRUE)]

CountInv ==
    /\ window.total + Len(pending) = Len(past)
    /\ window.dropped + Len(window.events) = window.total
    /\ pending # <<>> <=> stage = "record"

\* The processor was down for no longer than the clocks went apart.
ClockInv ==
    /\ window.first.mono <= window.last.mono /\ window.last.mono <= clock.mono
    /\ SuspendedTotal(window.last) <= SuspendedTotal(clock)
    /\ SecondsSoFar <= SuspendedTotal(window.last) - SuspendedTotal(window.first)

\* The last documents are of the window as it is.
LastInv ==
    /\ stage \in {"open last", "replace last", "done"} =>
         published = Result(window, [window.last EXCEPT !.boot = clock.boot])
    /\ stage = "replace last" => files.tmp = Document(published)
    /\ stage = "done" => files.out = Document(published)

CollectorInv ==
    /\ stage \in Stages
    /\ stage = "start" =>
         /\ clock = [boot |-> 0, mono |-> 0] /\ window = NewWindow
         /\ pending = <<>> /\ fresh = <<>> /\ past = <<>>
    /\ Collecting => WindowTyped /\ MovesInv /\ StoryInv /\ CountInv /\ ClockInv
    /\ LastInv

StandbyInv == DOMAIN files = {"out", "tmp", "held"} /\ CollectorInv
=============================================================================
