----------------------------- MODULE RtcAnchor -----------------------------
(* rtc-time-anchor.py: the wall clock is restored after an offline start from *)
(* a pair (RTC counter, trusted time) kept in a file, because the counter of  *)
(* the PMIC cannot be written.  Time passes in half seconds; the counter      *)
(* counts seconds; anchors and lags are in quarters of a second, for the      *)
(* middle of the two clock readings of a capture.                             *)
EXTENDS Integers

CONSTANTS MaxNow,      \* the last half second of a behaviour
          MaxElapsed,  \* MAX_ELAPSED, in seconds
          StartLag,    \* how far behind the clock starts after a power loss
          MaxResets    \* counter resets

VARIABLES
  now,       \* the true time
  lag,       \* how far the system clock is behind it, in quarters
  zero,      \* when the counter of the RTC was zero
  anchor,    \* rtc-anchor.json: [unix, rtc], or None
  fresh,     \* rtc-anchor.json.new: "none", "torn" or "whole"
  capture,   \* rtc-time-anchor.py capture: [pc, before, sum, rtc]
  restore,   \* rtc-time-anchor.py restore: [pc, target]
  resets     \* resets of the counter so far

vars == <<now, lag, zero, anchor, fresh, capture, restore, resets>>

None == [unix |-> -1, rtc |-> -1]
Idle == [pc |-> "idle", before |-> 0, unix |-> 0, rtc |-> 0]

RtcInit ==
  /\ now = 0 /\ lag = 0 /\ zero = 0 /\ resets = 0
  /\ anchor = None /\ fresh = "none"
  /\ capture = Idle /\ restore = [pc |-> "idle", target |-> 0]

\* since_epoch of the RTC, and time.time().
Counter == (now - zero) \div 2
Clock == 2 * now - lag

-----------------------------------------------------------------------------
\* capture(): the clock, the counter, the clock again; the operator vouches for
\* the current time.
Before ==
  /\ capture.pc = "idle" /\ lag = 0
  /\ capture' = [Idle EXCEPT !.pc = "rtc", !.before = Clock]
  /\ UNCHANGED <<now, lag, zero, anchor, fresh, restore, resets>>

ReadRtc ==
  /\ capture.pc = "rtc"
  /\ capture' = [capture EXCEPT !.pc = "after", !.rtc = Counter]
  /\ UNCHANGED <<now, lag, zero, anchor, fresh, restore, resets>>

\* Mutant: only a clock that went back is refused, not a slow reading.
InTimeAnyhow(before, after) == after >= before

\* At most a second between the two, and none back.
InTime(before, after) == after - before <= 4 /\ after >= before

After ==
  /\ capture.pc = "after"
  /\ capture' = IF InTime(capture.before, Clock)
                THEN [capture EXCEPT !.pc = "open", !.unix = (capture.before + Clock) \div 2]
                ELSE Idle
  /\ UNCHANGED <<now, lag, zero, anchor, fresh, restore, resets>>

\* O_EXCL: a file left by a capture that was cut off refuses this one.
OpenNew ==
  /\ capture.pc = "open"
  /\ IF fresh = "none" THEN fresh' = "torn" /\ capture' = [capture EXCEPT !.pc = "write"]
     ELSE capture' = Idle /\ UNCHANGED fresh
  /\ UNCHANGED <<now, lag, zero, anchor, restore, resets>>

\* Written and synced; an error removes the file again.
WriteNew ==
  /\ capture.pc = "write"
  /\ \/ fresh' = "whole" /\ capture' = [capture EXCEPT !.pc = "replace"]
     \/ fresh' = "none" /\ capture' = Idle
  /\ UNCHANGED <<now, lag, zero, anchor, restore, resets>>

ReplaceAnchor ==
  /\ capture.pc = "replace"
  /\ anchor' = [unix |-> capture.unix, rtc |-> capture.rtc]
  /\ fresh' = "none" /\ capture' = Idle
  /\ UNCHANGED <<now, lag, zero, restore, resets>>

-----------------------------------------------------------------------------
\* evaluate(): the counter has gone on from the anchor's, at most MaxElapsed.
Elapsed == Counter - anchor.rtc
Target == anchor.unix + 4 * Elapsed

\* restore: anchor and counter read, and the clock advanced when the target is
\* more than a second past it; check stops before that.
Evaluate ==
  /\ restore.pc = "idle" /\ anchor # None
  /\ Elapsed >= 0 /\ Elapsed <= MaxElapsed
  /\ Target > Clock + 4
  /\ restore' = [pc |-> "set", target |-> Target]
  /\ UNCHANGED <<now, lag, zero, anchor, fresh, capture, resets>>

SetClock ==
  /\ restore.pc = "set"
  /\ lag' = 2 * now - restore.target
  /\ restore' = [pc |-> "idle", target |-> 0]
  /\ UNCHANGED <<now, zero, anchor, fresh, capture, resets>>

-----------------------------------------------------------------------------
\* Time passes; the network sets the clock; the phone starts again, with its
\* clock behind and the files as they were; the counter restarts from zero.
Passes ==
  /\ now < MaxNow /\ now' = now + 1
  /\ UNCHANGED <<lag, zero, anchor, fresh, capture, restore, resets>>

Synchronised ==
  /\ lag # 0 /\ restore.pc = "idle" /\ capture.pc = "idle" /\ lag' = 0
  /\ UNCHANGED <<now, zero, anchor, fresh, capture, restore, resets>>

Restarted ==
  /\ lag' = StartLag
  /\ capture' = Idle /\ restore' = [pc |-> "idle", target |-> 0]
  /\ \/ UNCHANGED <<zero, resets>>
     \/ resets < MaxResets /\ resets' = resets + 1 /\ zero' = now
  /\ UNCHANGED <<now, anchor, fresh>>

RtcNext ==
  \/ Before \/ ReadRtc \/ After \/ OpenNew \/ WriteNew \/ ReplaceAnchor
  \/ Evaluate \/ SetClock \/ Passes \/ Synchronised \/ Restarted

RtcSpec == RtcInit /\ [][RtcNext]_vars

-----------------------------------------------------------------------------
\* The restored clock is never more than a second ahead of the true time (the
\* rounding of the counter and of the capture), whatever happened to the counter
\* and to the file since the anchor was taken.
NotAhead == lag >= -4

-----------------------------------------------------------------------------
\* The inductive invariant: a pair (unix, rtc) is sound when the counter it
\* holds is not too small for its time; a reset only moves the zero later,
\* which makes every pair err on the safe side.
RtcAssumption == StartLag \in Nat

Holding == {"open", "write", "replace"}

Captures ==
  [pc : {"idle", "rtc", "after"} \cup Holding, before : Int, unix : Int, rtc : Int]

Typed ==
  /\ now \in Int /\ lag \in Int /\ zero \in Int /\ zero <= now
  /\ anchor \in [unix : Int, rtc : Int]
  /\ capture \in Captures
  /\ restore \in [pc : {"idle", "set"}, target : Int]

\* A pair of quarters: `late` is what reading the clocks may have added.
Sound(time, counter, late) == time <= 4 * counter + 2 * zero + late

CaptureSound ==
  /\ capture.pc = "rtc" => capture.before <= 2 * now
  /\ capture.pc = "after" => Sound(capture.before, capture.rtc, 2)
  /\ capture.pc \in Holding => Sound(capture.unix, capture.rtc, 4)

AnchorSound == anchor # None => Sound(anchor.unix, anchor.rtc, 4)
RestoreSound == restore.pc = "set" => restore.target <= 2 * now + 4

ClockInv == Typed /\ CaptureSound /\ AnchorSound /\ RestoreSound /\ NotAhead
=============================================================================
