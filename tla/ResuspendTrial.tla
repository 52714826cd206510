--------------------------- MODULE ResuspendTrial ---------------------------
(* gauge-resuspend-trial.py: the phone unplugged is suspended once, and again *)
(* each time the battery gauge alone woke it.  The trial shares the phone     *)
(* with its user: an input, a cable, an inhibitor or another RTC alarm must   *)
(* stop it.  Time is counted in ticks awake, and does not pass in suspend.     *)
EXTENDS Naturals

CONSTANTS Quiet,      \* ticks without input before a suspend (6 seconds)
          Settle,     \* ticks after the unplug before the first one (12 seconds)
          MaxTicks,   \* bound on the time awake
          MaxSuspends \* bound on the suspends

VARIABLES
  trialPc,    \* where the program is
  memory,     \* its variables: last_input, prev, handled, seen, saw_resume, unplug, reason, owned
  ticks,      \* monotonic time
  input,      \* the user: the last input, whether it is unread, and the last one read
  usb,        \* the cable is in
  alarm,      \* whose RTC alarm is set: "none", "trial" or "other"
  sleeping,   \* the phone: "awake", "asked" by logind to sleep, or "asleep"
  resumes,    \* last_suspend_time: its changes
  reason,     \* last_resume_reason
  answered    \* history: the resumes that logind was asked for

vars == <<trialPc, memory, ticks, input, usb, alarm, sleeping, resumes, reason, answered>>
Phone == <<ticks, input, usb, sleeping, resumes, reason>>

NotYet == MaxSuspends + 1

TrialInit ==
  /\ trialPc = "start"
  /\ memory = [last |-> 0, prev |-> 0, handled |-> NotYet, seen |-> 0, saw |-> FALSE,
               unplug |-> 0, reason |-> "key", owned |-> "none"]
  /\ ticks = 0 /\ input = [at |-> 0, unread |-> FALSE, read |-> 0]
  /\ usb = TRUE /\ alarm \in {"none", "other"} /\ sleeping = "awake"
  /\ resumes = 0 /\ reason = "key" /\ answered = {}

\* drain(): an input that can be read is dated now.
Drained == IF input.unread THEN ticks ELSE memory.last
ReadInput == input' = [input EXCEPT !.unread = FALSE, !.read = input.at]
Running == sleeping # "asleep"

\* allowed(): the reason and the cable; the capacity is taken as sufficient.
Allowed(why, cable, quiet) == why = "gauge" /\ ~cable /\ quiet >= Quiet

-----------------------------------------------------------------------------
\* Inhibitors come and go: what logind says of them, or that it fails, is a choice.
Start ==
  /\ trialPc = "start" /\ Running
  /\ trialPc' \in (IF alarm = "none" THEN {"plugged", "finally"} ELSE {"finally"})
  /\ UNCHANGED <<memory, alarm, answered>> /\ UNCHANGED Phone

\* Waiting for the unplug, ten minutes at most.
AwaitUnplug ==
  /\ trialPc = "plugged" /\ Running /\ ReadInput
  /\ \/ ~usb /\ trialPc' = "quiet"
        /\ memory' = [memory EXCEPT !.last = Drained, !.prev = resumes, !.seen = ticks, !.unplug = ticks]
     \/ usb /\ trialPc' \in {"plugged", "finally"} /\ memory' = [memory EXCEPT !.last = Drained]
  /\ UNCHANGED <<alarm, ticks, usb, sleeping, resumes, reason, answered>>

\* Until the user has been quiet, thirty seconds at most.
AwaitQuiet ==
  /\ trialPc = "quiet" /\ Running
  /\ IF ticks - memory.last < Quiet \/ ticks - memory.unplug < Settle
     THEN /\ ReadInput /\ memory' = [memory EXCEPT !.last = Drained]
          /\ trialPc' \in {"quiet", "finally"}
     ELSE trialPc' = "eligible" /\ UNCHANGED <<memory, input>>
  /\ UNCHANGED <<alarm, ticks, usb, sleeping, resumes, reason, answered>>

\* The look before the first suspend, and the end alarm set by rtcwake.
Eligible ==
  /\ trialPc = "eligible" /\ Running /\ ReadInput
  /\ memory' = [memory EXCEPT !.last = Drained]
  /\ \/ ~usb /\ ticks - Drained >= Quiet /\ alarm' = "trial" /\ trialPc' = "alarm"
     \/ trialPc' = "finally" /\ UNCHANGED alarm
  /\ UNCHANGED <<ticks, usb, sleeping, resumes, reason, answered>>

OwnAlarm ==
  /\ trialPc = "alarm" /\ Running
  /\ memory' = [memory EXCEPT !.owned = alarm]
  /\ trialPc' = "first"
  /\ UNCHANGED <<alarm, answered>> /\ UNCHANGED Phone

\* logind's Suspend returns before the phone sleeps, or refuses: an inhibitor, or a
\* suspend already under way.
FirstSuspend ==
  /\ trialPc = "first" /\ Running
  /\ \/ sleeping = "awake" /\ sleeping' = "asked" /\ trialPc' = "loop"
     \/ trialPc' = "finally" /\ UNCHANGED sleeping
  /\ UNCHANGED <<memory, alarm, ticks, input, usb, resumes, reason, answered>>

\* A turn of the loop: the inputs, the cable, a new resume.
Turn ==
  /\ trialPc = "loop" /\ Running /\ ReadInput
  /\ IF usb THEN trialPc' = "finally" /\ memory' = [memory EXCEPT !.last = Drained]
     ELSE /\ trialPc' = "decide"
          /\ memory' = IF resumes = memory.prev THEN [memory EXCEPT !.last = Drained]
                       ELSE [memory EXCEPT !.last = Drained, !.prev = resumes, !.seen = ticks,
                               !.handled = NotYet, !.saw = TRUE]
  /\ UNCHANGED <<alarm, ticks, usb, sleeping, resumes, reason, answered>>

\* Whether this resume is to be answered: the reason is read now, and logind asked.
Decide ==
  /\ trialPc = "decide" /\ Running
  /\ memory' = [memory EXCEPT !.reason = reason]
  /\ \/ /\ memory.saw /\ memory.prev # memory.handled /\ ticks - memory.seen >= Quiet
        /\ Allowed(reason, FALSE, ticks - memory.last)
        /\ trialPc' = "again"
     \/ trialPc' = "loop"
  /\ UNCHANGED <<alarm, answered>> /\ UNCHANGED Phone

\* Mutant: the inputs that came while logind was asked are not read.
FinalInputUnread == memory.last

\* The inputs read once more before the request.
FinalInput == Drained

\* Each resume is answered once, and the inputs are read for the last time.
Again ==
  /\ trialPc = "again" /\ Running /\ ReadInput
  /\ memory' = [memory EXCEPT !.handled = memory.prev, !.last = FinalInput]
  /\ trialPc' = "check"
  /\ UNCHANGED <<alarm, ticks, usb, sleeping, resumes, reason, answered>>

\* The final check: the cable and the time now, the reason and the inputs as read before.
FinalCheck ==
  /\ trialPc = "check" /\ Running
  /\ trialPc' = IF Allowed(memory.reason, usb, ticks - memory.last) THEN "request" ELSE "loop"
  /\ UNCHANGED <<memory, alarm, answered>> /\ UNCHANGED Phone

\* The record, and logind's Suspend, which may refuse.
Request ==
  /\ trialPc = "request" /\ Running
  /\ trialPc' = "loop" /\ answered' = answered \cup {memory.prev}
  /\ \/ sleeping = "awake" /\ sleeping' = "asked"
     \/ UNCHANGED sleeping
  /\ UNCHANGED <<memory, alarm, ticks, input, usb, resumes, reason>>

\* The end of the ten minutes, a signal, or an error.
Ends ==
  /\ trialPc \notin {"finally", "over"} /\ Running
  /\ trialPc' = "finally"
  /\ UNCHANGED <<memory, alarm, answered>> /\ UNCHANGED Phone

\* finally: the alarm is cleared if it is the one read after it was set.
Finally ==
  /\ trialPc = "finally" /\ Running
  /\ trialPc' = "over"
  /\ alarm' = IF memory.owned # "none" /\ alarm = memory.owned THEN "none" ELSE alarm
  /\ UNCHANGED <<memory, answered>> /\ UNCHANGED Phone

-----------------------------------------------------------------------------
\* The phone and its user, at any moment.
Tick ==
  /\ Running /\ ticks < MaxTicks /\ ticks' = ticks + 1
  /\ UNCHANGED <<trialPc, memory, alarm, input, usb, sleeping, resumes, reason, answered>>

Touch ==
  /\ Running /\ input' = [input EXCEPT !.at = ticks, !.unread = TRUE]
  /\ UNCHANGED <<trialPc, memory, alarm, ticks, usb, sleeping, resumes, reason, answered>>

Cable ==
  /\ Running /\ usb' = ~usb
  /\ UNCHANGED <<trialPc, memory, alarm, ticks, input, sleeping, resumes, reason, answered>>

\* The phone does what logind was asked, or something awake prevents it; or it is put to
\* sleep by its user or its idle policy, whatever the trial is doing.
Sleeps ==
  /\ Running
  /\ \/ sleeping' = "asleep"
     \/ sleeping = "asked" /\ sleeping' = "awake"
  /\ UNCHANGED <<trialPc, memory, alarm, ticks, input, usb, resumes, reason, answered>>

\* The phone wakes: by the gauge, a key or the alarm, which is then used up.
Wakes ==
  /\ sleeping = "asleep" /\ sleeping' = "awake"
  /\ resumes < MaxSuspends /\ resumes' = resumes + 1
  /\ \/ reason' = "gauge" /\ UNCHANGED <<input, alarm>>
     \/ reason' = "key" /\ input' = [input EXCEPT !.at = ticks, !.unread = TRUE] /\ UNCHANGED alarm
     \/ alarm # "none" /\ reason' = "alarm" /\ alarm' = "none" /\ UNCHANGED input
  /\ UNCHANGED <<trialPc, memory, ticks, usb, answered>>

TrialNext ==
  \/ Start \/ AwaitUnplug \/ AwaitQuiet \/ Eligible \/ OwnAlarm \/ FirstSuspend
  \/ Turn \/ Decide \/ Again \/ FinalCheck \/ Request \/ Ends \/ Finally
  \/ Tick \/ Touch \/ Cable \/ Sleeps \/ Wakes

TrialSpec == TrialInit /\ [][TrialNext]_vars

-----------------------------------------------------------------------------
\* Whenever the trial asks logind for a suspend, no input its reads could see is
\* younger than the quiet time.  When it asks again, that is for a resume it has not
\* asked for before, and this resume was the gauge's, unless the phone has slept and
\* woken since.  What comes between the final reads and the call is not seen: it does
\* not stop the suspend, and nothing here says it would.
QuietWhenAsked ==
  /\ trialPc \in {"first", "request"} => input.read + Quiet <= ticks
  /\ trialPc = "request" => /\ memory.prev \notin answered
                            /\ reason = "gauge" \/ resumes # memory.prev

-----------------------------------------------------------------------------
(* The inductive invariant.  An input that was read is never later than the    *)
(* last one the program knows; after the first request every resume that was   *)
(* asked for is handled, and none is later than the last one the program saw.  *)

TrialAssumption == Quiet \in Nat /\ Settle \in Nat /\ MaxTicks \in Nat /\ MaxSuspends \in Nat

Reasons == {"gauge", "key", "alarm"}
Memories == [last : Nat, prev : Nat, handled : Nat, seen : Nat, saw : BOOLEAN, unplug : Nat,
             reason : Reasons, owned : {"none", "trial", "other"}]
Inputs == [at : Nat, unread : BOOLEAN, read : Nat]

Typed ==
  /\ memory \in Memories /\ ticks \in Nat /\ input \in Inputs /\ resumes \in Nat
  /\ alarm \in {"none", "trial", "other"} /\ reason \in Reasons /\ answered \subseteq Nat

\* What was read is known, and was quiet before a request.
InputKnown ==
  /\ input.at <= ticks /\ input.read <= memory.last
  /\ input.unread \/ input.at <= memory.last
  /\ trialPc \in {"alarm", "first", "request"} => memory.last + Quiet <= ticks

\* The reason the program read is that of the resume it answers.
ReasonKnown ==
  trialPc \in {"again", "check", "request"} =>
    memory.reason = "gauge" /\ (resumes = memory.prev => reason = memory.reason)

\* Which resumes were asked for, at each step of the program.
AnsweredOnce ==
  /\ memory.prev <= resumes /\ \A r \in answered : r <= memory.prev
  /\ trialPc \in {"start", "plugged", "quiet", "eligible", "alarm", "first"} => answered = {}
  /\ trialPc \in {"again", "check", "request"} => memory.prev \notin answered
  /\ trialPc \in {"loop", "decide"} /\ memory.prev \in answered => memory.handled = memory.prev
  /\ trialPc \in {"check", "request"} => memory.handled = memory.prev

QuietInv == Typed /\ InputKnown /\ ReasonKnown /\ AnsweredOnce
=============================================================================
