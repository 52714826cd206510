----------------------------- MODULE BatteryLog -----------------------------
(***************************************************************************)
(* battery-app: recorder.py writes one row for each minute awake and for   *)
(* each signal of logind, and analyze() of model.py makes the observed     *)
(* sleep out of the rows the application loads.                            *)
(*                                                                         *)
(* The recorder takes no inhibitor: it may be frozen before it has read a  *)
(* signal, and between the two clocks of one snapshot.  Times are whole    *)
(* seconds; the counters of the battery are left out.                      *)
(***************************************************************************)
EXTENDS Integers, Sequences

CONSTANTS
    MaxTime,        \* bound: CLOCK_BOOTTIME
    MaxRows,        \* bound: rows of a session
    MaxView,        \* MAX_VIEW_ROWS
    MaxSuspends     \* bound: suspends

LogAssumption ==
    /\ MaxTime \in Nat /\ MaxRows \in Nat /\ MaxSuspends \in Nat
    /\ MaxView \in Nat \ {0}

VARIABLES
    clocks,     \* [boottime, mono]
    power,      \* [state, suspends]: logind and the kernel
    bus,        \* signals sent to the recorder and not handled yet
    recorder,   \* [at, event, boottime]: between two callbacks, or in a snapshot
    buffer,     \* rows written and not flushed: a flush that fails keeps them
    rowsOnDisk, \* the session's file
    lag         \* history: seconds awake between the two clocks of snapshots

logVars == <<clocks, power, bus, recorder, buffer, rowsOnDisk, lag>>

Idle == [at |-> "idle", event |-> "none", boottime |-> 0]
Off == [Idle EXCEPT !.at = "off"]
Over == [Idle EXCEPT !.at = "over"]

Init ==
    /\ clocks = [boottime |-> 0, mono |-> 0]
    /\ power = [state |-> "awake", suspends |-> 0]
    /\ bus = <<>> /\ buffer = <<>> /\ rowsOnDisk = <<>>
    /\ recorder = Off
    /\ lag = 0

-----------------------------------------------------------------------------
(* The phone *)

Running == power.state # "asleep"

Second ==
    /\ clocks.boottime < MaxTime
    /\ clocks' = [boottime |-> clocks.boottime + 1,
                  mono |-> clocks.mono + IF Running THEN 1 ELSE 0]
    /\ lag' = lag + IF Running /\ recorder.at = "snapshot" THEN 1 ELSE 0
    /\ UNCHANGED <<power, bus, recorder, buffer, rowsOnDisk>>

Signal(s) == bus' = IF recorder.at = "off" THEN <<>> ELSE Append(bus, s)

\* logind says that a sleep is coming, and waits for nobody here.
PrepareForSleep ==
    /\ power.state = "awake" /\ power.suspends < MaxSuspends
    /\ power' = [state |-> "preparing", suspends |-> power.suspends + 1]
    /\ Signal("prepare-sleep")
    /\ UNCHANGED <<clocks, recorder, buffer, rowsOnDisk, lag>>

Suspend ==
    /\ power.state = "preparing"
    /\ power' = [power EXCEPT !.state = "asleep"]
    /\ UNCHANGED <<clocks, bus, recorder, buffer, rowsOnDisk, lag>>

\* The kernel runs again, or refused to sleep.
Wake ==
    /\ power.state \in {"preparing", "asleep"}
    /\ power' = [power EXCEPT !.state = "resumed"]
    /\ UNCHANGED <<clocks, bus, recorder, buffer, rowsOnDisk, lag>>

Resumed ==
    /\ power.state = "resumed"
    /\ power' = [power EXCEPT !.state = "awake"]
    /\ Signal("resume-signal")
    /\ UNCHANGED <<clocks, recorder, buffer, rowsOnDisk, lag>>

-----------------------------------------------------------------------------
(* recorder.py *)

Room == Len(rowsOnDisk) + Len(buffer) < MaxRows

\* main(): a new session, the subscriptions, and the row that says so.
Start ==
    /\ recorder.at = "off" /\ Running
    /\ recorder' = [at |-> "snapshot", event |-> "started", boottime |-> clocks.boottime]
    /\ UNCHANGED <<clocks, power, bus, buffer, rowsOnDisk, lag>>

\* A callback of the loop begins its snapshot with the boot clock.
Begin(event) ==
    /\ recorder.at = "idle" /\ Running /\ Room
    /\ recorder' = [at |-> "snapshot", event |-> event, boottime |-> clocks.boottime]

\* pm()
Pm ==
    /\ bus # <<>>
    /\ Begin(Head(bus))
    /\ bus' = Tail(bus)
    /\ UNCHANGED <<clocks, power, buffer, rowsOnDisk, lag>>

\* sample(), screen()
Sample ==
    /\ Begin("sample")
    /\ UNCHANGED <<clocks, power, bus, buffer, rowsOnDisk, lag>>

\* record(): the monotonic clock, the row, and a flush, which may fail and then
\* leaves the rows to the next one.  `held` is history: lag at the time of the row.
Record ==
    /\ recorder.at = "snapshot" /\ Running
    /\ LET row == [event |-> recorder.event, boottime |-> recorder.boottime,
                   mono |-> clocks.mono, held |-> lag]
           all == Append(buffer, row)
       IN  \/ rowsOnDisk' = rowsOnDisk \o all /\ buffer' = <<>>
           \/ buffer' = all /\ UNCHANGED rowsOnDisk
    /\ recorder' = IF recorder.event = "stopped" THEN Over ELSE Idle
    /\ UNCHANGED <<clocks, power, bus, lag>>

\* stop(): the last row.
StopRecorder ==
    /\ Begin("stopped")
    /\ UNCHANGED <<clocks, power, bus, buffer, rowsOnDisk, lag>>

\* Killed: what was not flushed is lost, a line cut short is never trusted.
Kill ==
    /\ recorder.at # "off"
    /\ recorder' = Over
    /\ bus' = <<>> /\ buffer' = <<>>
    /\ UNCHANGED <<clocks, power, rowsOnDisk, lag>>

\* A session is one file: a recorder started again writes another.
LogNext ==
    /\ recorder.at # "over"
    /\ \/ Second \/ PrepareForSleep \/ Suspend \/ Wake \/ Resumed
       \/ Start \/ Pm \/ Sample \/ Record \/ StopRecorder \/ Kill

LogSpec == Init /\ [][LogNext]_logVars

-----------------------------------------------------------------------------
(* model.py *)

\* load(): the end of the session.
Load == SubSeq(rowsOnDisk,
      1 + IF Len(rowsOnDisk) > MaxView THEN Len(rowsOnDisk) - MaxView ELSE 0,
               Len(rowsOnDisk))

NoRow == [event |-> "none", boottime |-> 0, mono |-> 0, held |-> 0]

\* Mutant: a resume is compared with the row before it, whatever that row is.
PairAny(acc, row) ==
    IF row.event = "prepare-sleep" THEN [acc EXCEPT !.pending = row]
    ELSE IF row.event # "resume-signal" THEN acc
    ELSE LET dt == row.boottime - acc.pending.boottime
             awake == row.mono - acc.pending.mono
         IN  [pending |-> NoRow,
              sleep |-> acc.sleep + IF 0 <= awake /\ awake <= dt
                    /\ dt > 0 THEN dt - awake ELSE 0]

\* analyze(), one row: a resume is paired with the prepare that waits, if any,
\* and counts when the clocks agree.
Pair(acc, row) ==
    IF row.event = "prepare-sleep" THEN [acc EXCEPT !.pending = row]
    ELSE IF row.event # "resume-signal" \/ acc.pending = NoRow THEN acc
    ELSE LET dt == row.boottime - acc.pending.boottime
             awake == row.mono - acc.pending.mono
         IN  [pending |-> NoRow,
              sleep |-> acc.sleep + IF 0 <= awake /\ awake <= dt
                    /\ dt > 0 THEN dt - awake ELSE 0]

\* The loop of analyze(): what it has after the first n rows.
Analyzed(rows) ==
    LET acc[n \in 0..Len(rows)] ==
            IF n = 0 THEN [pending |-> NoRow, sleep |-> 0] ELSE Pair(acc[n - 1], rows[n])
    IN  acc

SleepSeconds == Analyzed(Load)[Len(Load)].sleep

-----------------------------------------------------------------------------
\* The observed sleep is never more than the phone slept between the first and
\* the last row shown, but for the seconds a snapshot itself was held up: not
\* when rows are missing, late, outside the view, or when the session begins in
\* the middle of a suspend.
SleepNotInvented ==
    Load # <<>> =>
        LET first == Load[1]
            last == Load[Len(Load)]
        IN  SleepSeconds <= (last.boottime - last.mono) - (first.boottime - first.mono) + lag

-----------------------------------------------------------------------------
(* The inductive invariant *)

Events == {"started", "prepare-sleep", "resume-signal", "sample", "stopped"}

Rows == [event : Events, boottime : Nat, mono : Nat, held : Nat]

LogTyped ==
    /\ clocks \in [boottime : Nat, mono : Nat] /\ lag \in Nat
    /\ recorder \in [at : {"off", "idle", "snapshot", "over"},
                     event : Events \cup {"none"}, boottime : Nat]
    /\ recorder.at = "snapshot" => recorder.event \in Events
    /\ bus \in Seq(Events)
    /\ buffer \in Seq(Rows) /\ rowsOnDisk \in Seq(Rows)

\* The seconds asleep, or held up in a snapshot, until a row began: never less
\* than those until an earlier one.
Still(row) == row.boottime - row.mono + row.held

InOrder(rows) ==
    \A i \in 1..Len(rows) : \A j \in i..Len(rows) :
        Still(rows[i]) <= Still(rows[j]) /\ rows[i].held <= rows[j].held

\* Until the snapshot in progress began.
StillNow == (IF recorder.at = "snapshot" THEN recorder.boottime ELSE clocks.boottime)
                - clocks.mono + lag

LogInv ==
    /\ LogTyped
    /\ recorder.at = "snapshot" => recorder.boottime <= clocks.boottime
    /\ InOrder(rowsOnDisk \o buffer)
    /\ LET rows == rowsOnDisk \o buffer
       IN  \A i \in 1..Len(rows) : Still(rows[i]) <= StillNow /\ rows[i].held <= lag
=============================================================================
