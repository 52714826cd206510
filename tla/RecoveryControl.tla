--------------------------- MODULE RecoveryControl ---------------------------
(***************************************************************************)
(* recovery-control: arm-r3.py starts measure-r3.sh on a phone in its      *)
(* recovery, the script measures a chain of suspends with the policy of    *)
(* the phone changed, and fetch-r3.py judges the log it left.              *)
(*                                                                         *)
(* The script runs under set -e: a test that is false ends it, its EXIT    *)
(* trap restores, and HUP, INT or TERM may come at any step.  A shell runs *)
(* its EXIT trap once: a signal in a restoration that the trap runs cuts   *)
(* it short.  The restoration itself runs under set +e: a write of it that *)
(* the kernel refuses is passed over.  Time is one unit for each           *)
(* checkpoint.                                                             *)
(***************************************************************************)
EXTENDS Integers, Sequences, SequencesExt

CONSTANTS
    Checkpoints,    \* TOTAL_SECONDS in checkpoints
    MaxWakes,       \* the script's bound on wakes
    MaxOthers       \* bound: what others do to the alarm and the cable

ControlAssumption ==
    /\ Checkpoints \in Nat \ {0} /\ MaxWakes \in Nat /\ MaxOthers \in Nat

VARIABLES
    arm,        \* where arm-r3.py is
    script,     \* [at, trap, owned, target, start, wakes, restored, refused]; refused is
                \* history: what the last restoration could not write
    phone,      \* [usb, sleepable, governor, alarm, time]
    log,        \* result.txt
    others,     \* how often somebody else acted
    report      \* [at, log, valid, verified]: fetch-r3.py

controlVars == <<arm, script, phone, log, others, report>>

None == -1
Theirs == -2        \* an alarm that is not the script's

NotRunning == [at |-> "absent", trap |-> FALSE, owned |-> FALSE, target |-> None, start |-> 0,
               wakes |-> 0, restored |-> FALSE, refused |-> {}]

Init ==
    /\ arm = "start"
    /\ script = NotRunning
    /\ phone = [usb |-> "1", sleepable |-> FALSE, governor |-> "performance",
                alarm |-> None, time |-> 0]
    /\ log = <<>>
    /\ others = 0
    /\ report = [at |-> "none", log |-> <<>>, valid |-> FALSE, verified |-> FALSE]

\* A snapshot, and the lines that are not snapshots.
Snapshot(name) == [line |-> name, usb |-> phone.usb, time |-> phone.time]
Line(name) == [line |-> name, usb |-> "", time |-> phone.time]

-----------------------------------------------------------------------------
(* arm-r3.py *)

\* The preflight: plugged in, no alarm, the sleep disabled, nothing of an earlier
\* round; then the script is pushed and its digest compared.
Push ==
    /\ arm = "start"
    /\ \/ /\ phone.usb = "1" /\ phone.alarm = None /\ ~phone.sleepable
          /\ arm' = "pushed"
       \/ arm' = "stopped"
    /\ UNCHANGED <<script, phone, log, others, report>>

\* The script is started apart from the shell.
Launch ==
    /\ arm = "pushed"
    /\ arm' = "launched"
    /\ script' = [script EXCEPT !.at = "preflight"]
    /\ UNCHANGED <<phone, log, others, report>>

\* One second later the log and the processes confirm that it waits, or not.
Confirm ==
    /\ arm = "launched"
    /\ arm' = IF log # <<>> /\ script.at \notin {"dead", "cut"} THEN "armed" ELSE "stopped"
    /\ UNCHANGED <<script, phone, log, others, report>>

-----------------------------------------------------------------------------
(* measure-r3.sh *)

At(at) == script.at = at
Goto(at) == script' = [script EXCEPT !.at = at]

\* exit: the EXIT trap restores unless it has been done; a restoration of the
\* script's own that is interrupted begins again in the trap.
Exit ==
    script' = IF script.trap THEN [script EXCEPT !.at = "cut"]
              ELSE IF script.restored THEN [script EXCEPT !.at = "dead"]
              ELSE [script EXCEPT !.at = "restore alarm", !.trap = TRUE]

\* The preflight and the originals, before there is any trap.
Preflight ==
    /\ At("preflight")
    /\ \/ /\ phone.usb = "1" /\ phone.alarm = None /\ phone.governor = "performance"
          /\ Goto("unplug") /\ log' = <<Line("WAITING_FOR_UNPLUG")>>
       \/ Goto("dead") /\ UNCHANGED log
    /\ UNCHANGED <<arm, phone, others, report>>

\* Ten minutes for the operator, then twenty seconds.
AwaitUnplug ==
    /\ At("unplug")
    /\ IF phone.usb = "0" THEN Goto("policy") ELSE Exit
    /\ UNCHANGED <<arm, phone, log, others, report>>

\* The sleep is allowed, then the governors; each must give a zero target.
AllowSleep ==
    /\ At("policy")
    /\ \/ phone.usb = "0" /\ Goto("powersave") /\ phone' = [phone EXCEPT !.sleepable = TRUE]
       \/ Exit /\ UNCHANGED phone      \* plugged in, or not discharging
    /\ UNCHANGED <<arm, log, others, report>>

Powersave ==
    /\ At("powersave")
    /\ phone' = [phone EXCEPT !.governor = "powersave"]
    /\ \/ Goto("before") \/ Exit
    /\ UNCHANGED <<arm, log, others, report>>

Before ==
    /\ At("before")
    /\ log' = Append(log, Snapshot("BEFORE"))
    /\ script' = [script EXCEPT !.at = "loop", !.start = phone.time]
    /\ UNCHANGED <<arm, phone, others, report>>

Deadline == script.start + Checkpoints

\* The head of the loop: the time left, the cable and the governors.
Loop ==
    /\ At("loop")
    /\ IF phone.time >= Deadline THEN Goto("after") /\ UNCHANGED log
       ELSE IF phone.usb # "0" THEN Exit /\ log' = Append(log, Line("EARLY_USB"))
       ELSE Goto(IF script.owned THEN "disown" ELSE "own") /\ UNCHANGED log
    /\ UNCHANGED <<arm, phone, others, report>>

\* The alarm of the last turn is cleared when it is still the script's.
Disown ==
    /\ At("disown")
    /\ IF phone.alarm \in {None, script.target}
       THEN Goto("own") /\ phone' = [phone EXCEPT !.alarm = None]
       ELSE Exit /\ UNCHANGED phone
    /\ UNCHANGED <<arm, log, others, report>>

\* The alarm is owned before it is written, and read back.
Own ==
    /\ At("own")
    /\ IF phone.alarm = None
       THEN script' = [script EXCEPT !.at = "alarm", !.owned = TRUE, !.target = phone.time + 1]
       ELSE Exit
    /\ UNCHANGED <<arm, phone, log, others, report>>

\* The kernel refuses an alarm while there is another.
WriteAlarm ==
    /\ At("alarm")
    /\ \/ /\ phone.alarm = None
          /\ phone' = [phone EXCEPT !.alarm = script.target] /\ Goto("suspend")
       \/ UNCHANGED phone /\ Exit
    /\ UNCHANGED <<arm, log, others, report>>

\* The phone sleeps until the alarm or something else wakes it, or refuses.
Suspend ==
    /\ At("suspend")
    /\ \/ /\ phone.time < Deadline
          /\ phone' = [phone EXCEPT !.time = @ + 1,
                                    !.alarm = IF @ = script.target THEN None ELSE @]
          /\ script' = [script EXCEPT !.at = "woken", !.wakes = @ + 1]
       \/ /\ UNCHANGED phone
          /\ script' = [script EXCEPT !.at = "woken", !.wakes = @ + 1]
       \/ UNCHANGED phone /\ Exit
    /\ UNCHANGED <<arm, log, others, report>>

Woken ==
    /\ At("woken")
    /\ log' = Append(log, Snapshot("WAKE"))
    /\ IF script.wakes <= MaxWakes THEN Goto("loop") ELSE Exit
    /\ UNCHANGED <<arm, phone, others, report>>

After ==
    /\ At("after")
    /\ log' = Append(log, Snapshot("AFTER"))
    /\ Goto("restore alarm")
    /\ UNCHANGED <<arm, phone, others, report>>

\* restore(): an alarm that is owned and not somebody else's goes, then the
\* governors and the sleep are as before, each unless the write is refused, and
\* only then it is done.
PutBack(what, next, restored) ==
    /\ phone' = restored
    /\ script' = [script EXCEPT !.at = next, !.refused = @ \ {what}]

NotPutBack(what, next) ==
    /\ script' = [script EXCEPT !.at = next, !.refused = @ \cup {what}]
    /\ UNCHANGED phone

Clearable == script.owned /\ phone.alarm \in {None, script.target}

RestoreAlarm ==
    /\ At("restore alarm")
    /\ \/ PutBack("alarm", "restore governor",
                  [phone EXCEPT !.alarm = IF Clearable THEN None ELSE @])
       \/ Clearable /\ NotPutBack("alarm", "restore governor")
    /\ UNCHANGED <<arm, log, others, report>>

\* Mutant: the restoration is noted as done when it begins.
RestoreGovernorEarly ==
    /\ At("restore governor")
    /\ phone' = [phone EXCEPT !.governor = "performance"]
    /\ script' = [script EXCEPT !.at = "restore sleep", !.restored = TRUE]
    /\ UNCHANGED <<arm, log, others, report>>

RestoreGovernor ==
    /\ At("restore governor")
    /\ \/ PutBack("governor", "restore sleep", [phone EXCEPT !.governor = "performance"])
       \/ NotPutBack("governor", "restore sleep")
    /\ UNCHANGED <<arm, log, others, report>>

RestoreSleep ==
    /\ At("restore sleep")
    /\ \/ PutBack("sleep", "restored", [phone EXCEPT !.sleepable = FALSE])
       \/ NotPutBack("sleep", "restored")
    /\ UNCHANGED <<arm, log, others, report>>

\* The end of restore(), and of a measurement that came to its end.
Restored ==
    /\ At("restored")
    /\ script' = [script EXCEPT !.at = IF script.trap THEN "dead" ELSE "finish", !.restored = TRUE]
    /\ log' = Append(log, Line("RESTORATION"))
    /\ UNCHANGED <<arm, phone, others, report>>

Finish ==
    /\ At("finish")
    /\ log' = Append(log, Line("FINISHED"))
    /\ Goto("dead")
    /\ UNCHANGED <<arm, phone, others, report>>

\* HUP, INT or TERM: exit 2.
Signalled ==
    /\ script.at \notin {"absent", "preflight", "dead", "cut"}
    /\ Exit
    /\ UNCHANGED <<arm, phone, log, others, report>>

-----------------------------------------------------------------------------
(* The operator and the rest of the phone *)

Cable ==
    /\ others < MaxOthers
    /\ others' = others + 1
    /\ phone' = [phone EXCEPT !.usb = IF @ = "1" THEN "0" ELSE "1"]
    /\ UNCHANGED <<arm, script, log, report>>

\* The clock service of the recovery sets the one alarm there is.
OtherAlarm ==
    /\ others < MaxOthers
    /\ others' = others + 1
    /\ phone' = [phone EXCEPT !.alarm = Theirs]
    /\ UNCHANGED <<arm, script, log, report>>

-----------------------------------------------------------------------------
(* fetch-r3.py *)

Has(name) == \E i \in DOMAIN report.log : report.log[i].line = name
Sample(name) == report.log[CHOOSE i \in DOMAIN report.log : report.log[i].line = name]

\* The log first, then the state of the phone; the files of a round are written
\* once.
FetchLog ==
    /\ report.at = "none" /\ script.at # "absent" /\ log # <<>>
    /\ report' = [report EXCEPT !.at = "log", !.log = log]
    /\ UNCHANGED <<arm, script, phone, log, others>>

\* analyze(), and the duration: both ends of the whole interval unplugged.
ValidControl ==
    /\ Has("FINISHED") /\ Has("BEFORE") /\ Has("AFTER")
    /\ Sample("BEFORE").usb = "0" /\ Sample("AFTER").usb = "0"
    /\ Sample("AFTER").time - Sample("BEFORE").time >= Checkpoints

\* The values read after the log, against the ones expected.
RestorationVerified ==
    ~phone.sleepable /\ phone.governor = "performance" /\ phone.alarm = None /\ phone.usb = "1"

Fetch ==
    /\ report.at = "log"
    /\ report' = [report EXCEPT !.at = "fetched", !.valid = ValidControl,
                                !.verified = RestorationVerified]
    /\ UNCHANGED <<arm, script, phone, log, others>>

ControlNext ==
    \/ Push \/ Launch \/ Confirm
    \/ Preflight \/ AwaitUnplug \/ AllowSleep \/ Powersave \/ Before \/ Loop \/ Disown \/ Own
    \/ WriteAlarm \/ Suspend \/ Woken \/ After
    \/ RestoreAlarm \/ RestoreGovernor \/ RestoreSleep \/ Restored \/ Finish
    \/ Signalled
    \/ Cable \/ OtherAlarm \/ FetchLog \/ Fetch

ControlSpec == Init /\ [][ControlNext]_controlVars

-----------------------------------------------------------------------------
SleepBack == "sleep" \in script.refused \/ ~phone.sleepable
GovernorBack == "governor" \in script.refused \/ phone.governor = "performance"
AlarmBack == "alarm" \in script.refused \/ phone.alarm \in {None, Theirs}

\* However the script ends, and wherever one signal stops it, the phone is as it
\* was found: the sleep disabled, the governors back, and no alarm of the script's,
\* each but where the kernel refused the write, which keeps none of the others from
\* being put back; and a control that is reported valid has been through all of it.
LeavesPhoneAsFound ==
    /\ At("dead") => SleepBack /\ GovernorBack /\ AlarmBack
    /\ report.valid => script.restored

-----------------------------------------------------------------------------
(* The inductive invariant.  Until it allows the sleep the script has changed   *)
(* nothing, each step of a restoration puts one thing back or is refused, and   *)
(* nothing changes it again before the script is over.                          *)

Early == {"absent", "preflight", "unplug", "policy"}
Measures == {"powersave", "before", "loop", "disown", "own", "alarm", "suspend", "woken",
             "after", "restore alarm", "cut"}
Restores == {"restore governor", "restore sleep", "restored", "finish", "dead"}

Scripts == [at : Early \cup Measures \cup Restores, trap : BOOLEAN, owned : BOOLEAN,
            target : Int, start : Nat, wakes : Nat, restored : BOOLEAN,
            refused : SUBSET {"alarm", "governor", "sleep"}]
Phones == [usb : {"0", "1"}, sleepable : BOOLEAN, governor : {"performance", "powersave"},
           alarm : Int, time : Nat]
Rows == [line : {"WAITING_FOR_UNPLUG", "BEFORE", "EARLY_USB", "WAKE", "AFTER",
                 "RESTORATION", "FINISHED"}, usb : {"", "0", "1"}, time : Nat]
Reports == [at : {"none", "log", "fetched"}, log : Seq(Rows), valid : BOOLEAN,
            verified : BOOLEAN]

Typed ==
  script \in Scripts /\ phone \in Phones /\ log \in Seq(Rows) /\ report \in Reports

Quiet == SleepBack /\ GovernorBack

\* What the phone is at each step of the script.
AsFound ==
  /\ script.at \in Early \cup {"restored", "finish", "dead"} => Quiet
  /\ script.at = "restore sleep" => GovernorBack
  /\ phone.alarm \in {None, Theirs} \/ (script.owned /\ phone.alarm = script.target)
  /\ script.at \in Early \cup Restores => AlarmBack

Finished(rows) == \E i \in DOMAIN rows : rows[i].line = "FINISHED"

ControlInv ==
  /\ Typed /\ AsFound
  /\ arm \in {"start", "pushed"} => script.at = "absent"
  /\ script.restored => script.at \in {"finish", "dead"}
  /\ script.at = "finish" => script.restored /\ ~script.trap
  /\ script.at = "alarm" => script.owned
  /\ Finished(log) => script.restored
  /\ report.at = "log" /\ Finished(report.log) => script.restored
  /\ report.valid => script.restored
=============================================================================
