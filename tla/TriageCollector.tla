-------------------------- MODULE TriageCollector --------------------------
(***************************************************************************)
(* collector.py, the battery triage collector, with the processes it       *)
(* counts, and analyze.py, which adds up what its capture says.            *)
(*                                                                         *)
(* The GLib loop runs one callback at a time, but the processes do not     *)
(* wait: between the pass over /proc/PID/stat and the reading of the       *)
(* control groups of the most active ones, a process may end and its PID   *)
(* be used again.  Times are in units of the sampling interval.            *)
(***************************************************************************)
EXTENDS Integers, Sequences, FiniteSets

CONSTANTS
    Pids,
    MaxReported,    \* max_reported
    Duration,       \* --duration
    MaxTicks,       \* bound: CPU ticks of a process
    MaxStart,       \* bound: processes that use one PID after the other
    MaxRequests     \* bound: logind calls observed

CollectorAssumption ==
    /\ IsFiniteSet(Pids)
    /\ MaxReported \in Nat \ {0} /\ Duration \in Nat \ {0}
    /\ MaxStart \in Nat \ {0} /\ MaxTicks \in Nat

VARIABLES
    procs,      \* [start, ticks]: who has a PID now, what each process has used
    time,       \* [boot, mono, asleep]
    loop,       \* [state, idle, timer, due]: the main loop and its sources
    tracker,    \* ProcessTracker: previous, cache; and current, while sampling
    requests,   \* logind calls: seen by the filter, looked up, not recorded yet
    capture     \* rows of the file

collectorVars == <<procs, time, loop, tracker, requests, capture>>

Starts == 1..MaxStart
Identities == Pids \X Starts    \* (pid, start_ticks)

Row(event) == [event |-> event]

Emit(rows) == capture' = capture \o rows

-----------------------------------------------------------------------------
Init ==
    /\ procs = [start |-> [p \in Pids |-> 1], ticks |-> [k \in Identities |-> 0]]
    /\ time = [boot |-> 0, mono |-> 0, asleep |-> FALSE]
    /\ loop = [state |-> "new", idle |-> TRUE, timer |-> TRUE, due |-> 1]
    /\ tracker = [previous |-> <<>>, cache |-> <<>>, current |-> <<>>]
    /\ requests = [idle |-> 0, lookups |-> 0, seen |-> 0]
    /\ capture = <<>>

\* run_observer(), up to the loop.
Arm ==
    /\ loop.state = "new"
    /\ loop' = [loop EXCEPT !.state = "running"]
    /\ Emit(<<Row("armed")>>)
    /\ UNCHANGED <<procs, time, tracker, requests>>

\* A callback runs while the loop does, and those already due when it is told
\* to quit run too.
Dispatching == loop.state \in {"running", "quitting"} /\ ~time.asleep

-----------------------------------------------------------------------------
(* sample_cb() and ProcessTracker.sample(). *)

Expired == time.boot >= Duration

\* The one-shot idle source and the timer call the same function.
SampleSource ==
    \/ /\ loop.idle
       /\ loop' = [loop EXCEPT !.idle = FALSE,
            !.state = IF Expired THEN "quitting" ELSE "sampling"]
    \/ /\ loop.timer /\ time.mono >= loop.due
       /\ loop' = [loop EXCEPT !.due = time.mono + 1, !.timer = ~Expired,
                               !.state = IF Expired THEN "quitting" ELSE "sampling"]

SampleExpired ==
    /\ Dispatching /\ Expired
    /\ SampleSource
    /\ Emit(<<Row("duration-expired")>>)
    /\ UNCHANGED <<procs, time, tracker, requests>>

\* The stat pass: each process is read, or skipped when it cannot be.
SampleStats ==
    /\ Dispatching /\ ~Expired
    /\ SampleSource
    /\ \E readable \in SUBSET Pids :
        tracker' = [tracker EXCEPT !.current =
                        [k \in {<<p, procs.start[p]>> : p \in readable} |-> procs.ticks[k]]]
    /\ UNCHANGED <<procs, time, requests, capture>>

\* Ticks since the last sample, of the identities both samples know.
Delta(k) == tracker.current[k] - tracker.previous[k]
Active == {k \in DOMAIN tracker.current \cap DOMAIN tracker.previous : Delta(k) > 0}

\* The most active ones, at most MaxReported; ties fall either way.
LeaderSets ==
    {L \in SUBSET Active :
        /\ Cardinality(L) = IF Cardinality(Active) < MaxReported
                            THEN Cardinality(Active) ELSE MaxReported
        /\ \A k \in L, j \in Active \ L : Delta(k) >= Delta(j)}

\* /proc/PID/cgroup, of whoever has the PID now, unless it is remembered.
Unit(k) == IF k \in DOMAIN tracker.cache THEN tracker.cache[k] ELSE procs.start[k[1]]

\* Mutant: the counters of the first sample stay the reference.
PreviousKept ==
    [k \in DOMAIN tracker.current |->
        IF k \in DOMAIN tracker.previous THEN tracker.previous[k] ELSE tracker.current[k]]

Previous == tracker.current

\* What is remembered once the row is made: only identities just seen.
Cache(leaders) ==
    [k \in (DOMAIN tracker.cache \cup leaders) \cap DOMAIN tracker.current |-> Unit(k)]

\* The leaders' control groups, and the row.  A row whose boot id could not be
\* read counts for nothing in the analysis: it is as a row not there.
SampleRow ==
    /\ loop.state = "sampling"
    /\ loop' = [loop EXCEPT !.state = "running"]
    /\ \E leaders \in LeaderSets :
        /\ Emit(<<[event |-> "sample",
                   delta |-> [k \in leaders |-> Delta(k)],
                   unit |-> [k \in leaders |-> Unit(k)],
                   omitted |-> Cardinality(Active) - Cardinality(leaders)]>>)
        /\ tracker' = [previous |-> Previous, cache |-> Cache(leaders), current |-> <<>>]
    /\ UNCHANGED <<procs, time, requests>>

-----------------------------------------------------------------------------
(* The other sources of the loop. *)

\* timeout_add_seconds(duration, loop.quit)
DurationTimer ==
    /\ Dispatching /\ loop.state = "running"
    /\ time.mono >= Duration
    /\ loop' = [loop EXCEPT !.state = "quitting"]
    /\ UNCHANGED <<procs, time, tracker, requests, capture>>

\* on_sleep(TRUE), then the phone sleeps.
GoToSleep ==
    /\ loop.state = "running" /\ ~time.asleep
    /\ time.boot <= Duration
    /\ time' = [time EXCEPT !.asleep = TRUE]
    /\ Emit(<<Row("prepare-for-sleep")>>)
    /\ UNCHANGED <<procs, loop, tracker, requests>>

\* on_sleep(FALSE), which looks at the deadline.
Resume ==
    /\ time.asleep
    /\ time' = [time EXCEPT !.asleep = FALSE, !.boot = @ + 1]
    /\ Emit(<<Row("prepare-for-sleep")>>
            \o IF Expired' THEN <<Row("duration-expired-after-resume")>> ELSE <<>>)
    /\ loop' = IF Expired' THEN [loop EXCEPT !.state = "quitting"] ELSE loop
    /\ UNCHANGED <<procs, tracker, requests>>

\* message_filter(), on the thread of the connection.
RequestSeen ==
    /\ loop.state \in {"running", "sampling"}
    /\ requests.seen < MaxRequests
    /\ requests' = [requests EXCEPT !.idle = @ + 1, !.seen = @ + 1]
    /\ UNCHANGED <<procs, time, loop, tracker, capture>>

\* start_pid_lookup(), then pid_lookup_done(), on the loop.
StartLookup ==
    /\ Dispatching /\ requests.idle > 0
    /\ requests' = [requests EXCEPT !.idle = @ - 1, !.lookups = @ + 1]
    /\ UNCHANGED <<procs, time, loop, tracker, capture>>

LookupDone ==
    /\ Dispatching /\ requests.lookups > 0
    /\ requests' = [requests EXCEPT !.lookups = @ - 1]
    /\ Emit(<<Row("logind-request")>>)
    /\ UNCHANGED <<procs, time, loop, tracker>>

\* The end of the loop.
Stopped ==
    /\ loop.state = "quitting"
    /\ loop' = [loop EXCEPT !.state = "stopped"]
    /\ Emit(<<Row("stopped")>>)
    /\ UNCHANGED <<procs, time, tracker, requests>>

-----------------------------------------------------------------------------
(* What the collector does not decide. *)

\* While a sample is made, a process ends and another takes its PID.
Reuse ==
    /\ loop.state = "sampling"
    /\ \E p \in Pids :
        /\ procs.start[p] < MaxStart
        /\ procs' = [procs EXCEPT !.start[p] = @ + 1]
    /\ UNCHANGED <<time, loop, tracker, requests, capture>>

\* An interval passes: some PIDs have a new process, some processes have used
\* the processor.
Tick ==
    /\ loop.state = "running" /\ ~time.asleep
    /\ time.boot <= Duration
    /\ time' = [time EXCEPT !.boot = @ + 1, !.mono = @ + 1]
    /\ \E busy, reused \in SUBSET Pids :
        LET start == [p \in Pids |-> IF p \in reused /\ procs.start[p] < MaxStart
                                    THEN procs.start[p] + 1 ELSE procs.start[p]]
        IN  procs' = [start |-> start,
                      ticks |-> [k \in Identities |->
                        IF k[1] \in busy /\ k[2] = start[k[1]] /\ procs.ticks[k] < MaxTicks
                        THEN procs.ticks[k] + 1 ELSE procs.ticks[k]]]
    /\ UNCHANGED <<loop, tracker, requests, capture>>

Next ==
    \/ Arm
    \/ SampleExpired
    \/ SampleStats
    \/ SampleRow
    \/ DurationTimer
    \/ GoToSleep
    \/ Resume
    \/ RequestSeen
    \/ StartLookup
    \/ LookupDone
    \/ Stopped
    \/ Reuse
    \/ Tick

Spec == Init /\ [][Next]_collectorVars

-----------------------------------------------------------------------------
(* analyze.py *)

\* analyze(), explicit deltas: what a row gives an identity.
TicksIn(row, k) ==
    IF row.event = "sample" /\ k \in DOMAIN row.delta THEN row.delta[k] ELSE 0

\* The sum over the capture, row by row.
Summed(rows, k) ==
    LET sum[n \in 0..Len(rows)] == IF n = 0 THEN 0 ELSE sum[n - 1] + TicksIn(rows[n], k)
    IN  sum

CpuTicks(rows, k) == Summed(rows, k)[Len(rows)]

\* The analyzer never gives a process time it has not used: not twice what
\* two samples saw, not what another process used under the same PID.
TicksNeverInvented == \A k \in Identities : CpuTicks(capture, k) <= procs.ticks[k]

\* Once the capture says its time is over no sample follows, whatever the
\* order of the callbacks that were due, and "stopped" is its last row.
OverIsOver ==
    \A i \in DOMAIN capture :
        /\ capture[i].event \in {"duration-expired", "duration-expired-after-resume"} =>
                \A j \in DOMAIN capture : capture[j].event = "sample" => j < i
        /\ capture[i].event = "stopped" => i = Len(capture) /\ loop.state = "stopped"

-----------------------------------------------------------------------------
(* The inductive invariant *)

States == {"new", "running", "sampling", "quitting", "stopped"}

Ends == {"duration-expired", "duration-expired-after-resume"}

PlainRows == [event : Ends \cup {"armed", "prepare-for-sleep", "logind-request", "stopped"}]

Counts == 0..MaxTicks

PartOf(S) == UNION {[K -> S] : K \in SUBSET Identities}

SampleRows == [event : {"sample"}, delta : PartOf(Counts), unit : PartOf(Starts),
      omitted : Int]

TriageTyped ==
    /\ procs \in [start : [Pids -> Starts], ticks : [Identities -> Counts]]
    /\ time \in [boot : Nat, mono : Nat, asleep : BOOLEAN]
    /\ loop \in [state : States, idle : BOOLEAN, timer : BOOLEAN, due : Nat]
    /\ tracker \in [previous : PartOf(Counts), cache : PartOf(Starts),
         current : PartOf(Counts)]
    /\ capture \in Seq(PlainRows \cup SampleRows)

\* No callback but the last ones runs after the deadline.
LoopInv ==
    /\ time.mono <= time.boot
    /\ time.asleep => loop.state = "running"
    /\ loop.state = "sampling" => ~Expired
    /\ loop.state \in {"quitting", "stopped"} => Expired

\* What the rows say of the state, and of each other.
RowsOver(rows, state) ==
    /\ \A i \in DOMAIN rows :
        /\ rows[i].event \in Ends => state \in {"quitting", "stopped"}
        /\ rows[i].event = "stopped" => i = Len(rows) /\ state = "stopped"
    /\ \A i, j \in DOMAIN rows :
        rows[i].event \in Ends /\ rows[j].event = "sample" => j < i

\* What is reported of a process is at most what the last sample saw of it.
CountsInv ==
    \A k \in Identities :
        /\ CpuTicks(capture, k) \in Nat /\ CpuTicks(capture, k) <= procs.ticks[k]
        /\ k \in DOMAIN tracker.previous =>
            CpuTicks(capture, k) <= tracker.previous[k]
                  /\ tracker.previous[k] <= procs.ticks[k]
        /\ k \in DOMAIN tracker.current =>
            CpuTicks(capture, k) <= tracker.current[k]
                  /\ tracker.current[k] <= procs.ticks[k]

TriageInv == TriageTyped /\ LoopInv /\ RowsOver(capture, loop.state) /\ CountsInv
=============================================================================
