---------------------------- MODULE CameraCapture ----------------------------
(***************************************************************************)
(* The one-shot photo: lmi-camera.py asks systemd for the service of       *)
(* lmi-camera-capture-service.py, which takes one picture and replaces     *)
(* latest.ppm and then latest.json, and saves what it then finds there.    *)
(*                                                                         *)
(* Several applications may ask at once.  systemd has one job for the      *)
(* unit: who asks while it is activating gets the answer of that job.      *)
(* A picture is the number of the run that took it.                        *)
(***************************************************************************)
EXTENDS Naturals, FiniteSets

CONSTANTS
    Clients,        \* applications that take one photo
    MaxRuns         \* bound: runs of the service

CaptureAssumption == IsFiniteSet(Clients) /\ MaxRuns \in Nat

VARIABLES
    unit,       \* [run, at]: the service
    answers,    \* run -> the end systemd gave it
    latest,     \* [ppm, json]: the runs whose picture and description are there
    private,    \* the private directories of the captures, by run
    client,     \* client -> [at, run, ppm, json]
    photos      \* saved: a set of [client, run, ppm, json]

captureVars == <<unit, answers, latest, private, client, photos>>

Waits == [at |-> "idle", run |-> 0, ppm |-> 0, json |-> 0]

Init ==
    /\ unit = [run |-> 0, at |-> "inactive"]
    /\ answers = [r \in 1..MaxRuns |-> "none"]
    /\ latest = [ppm |-> 0, json |-> 0]
    /\ private = {}
    /\ client = [c \in Clients |-> Waits]
    /\ photos = {}

-----------------------------------------------------------------------------
(* The service, as systemd runs it *)

Goto(at) == unit' = [unit EXCEPT !.at = at]

Over(answer) ==
    /\ Goto("inactive")
    /\ answers' = [answers EXCEPT ![unit.run] = answer]

\* The backend leaves a private directory with the picture, or fails; 46 seconds
\* are its limit, and then the directory it made is not known here.
Backend ==
    /\ unit.at = "capture"
    /\ \/ private' = private \cup {unit.run} /\ Goto("image") /\ UNCHANGED answers
       \/ private' \in {private, private \cup {unit.run}} /\ Over("failed")
    /\ UNCHANGED <<latest, client, photos>>

\* The log, the type and the size of the picture are checked; then a temporary
\* file takes the place of latest.ppm.
ReplaceImage ==
    /\ unit.at = "image"
    /\ \/ latest' = [latest EXCEPT !.ppm = unit.run] /\ Goto("meta")
       \/ UNCHANGED latest /\ Goto("failing")
    /\ UNCHANGED <<answers, private, client, photos>>

ReplaceMeta ==
    /\ unit.at = "meta"
    /\ \/ latest' = [latest EXCEPT !.json = unit.run] /\ Goto("ending")
       \/ UNCHANGED latest /\ Goto("failing")
    /\ UNCHANGED <<answers, private, client, photos>>

\* The finally block: the directory goes, or the program fails because of it.
Finally ==
    /\ unit.at \in {"ending", "failing"}
    /\ \/ private' = private \ {unit.run} /\ Over(IF unit.at = "ending" THEN "success" ELSE "failed")
       \/ UNCHANGED private /\ Over("failed")
    /\ UNCHANGED <<latest, client, photos>>

\* TimeoutStartSec: systemd ends the program where it is.
StartTimeout ==
    /\ unit.at # "inactive"
    /\ Over("failed")
    /\ UNCHANGED <<latest, private, client, photos>>

-----------------------------------------------------------------------------
(* lmi-camera.py --once *)

Set(c, value) == client' = [client EXCEPT ![c] = value]

\* take_photo(), capture_worker(): systemctl start begins a run or joins the one
\* that is activating.
TakePhoto(c) ==
    /\ client[c].at = "idle"
    /\ \/ /\ unit.at = "inactive" /\ unit.run < MaxRuns
          /\ unit' = [run |-> unit.run + 1, at |-> "capture"]
       \/ unit.at # "inactive" /\ UNCHANGED unit
    /\ Set(c, [Waits EXCEPT !.at = "waiting", !.run = unit'.run])
    /\ UNCHANGED <<answers, latest, private, photos>>

\* systemctl did not answer in 55 seconds.
Timeout(c) ==
    /\ client[c].at = "waiting"
    /\ Set(c, [client[c] EXCEPT !.at = "over"])
    /\ UNCHANGED <<unit, answers, latest, private, photos>>

\* Mutant: the return code of systemctl is not looked at.
AnsweredAny(c) == TRUE

\* The job of the run it waited for succeeded.
Answered(c) == answers[client[c].run] = "success"

Answer(c) ==
    /\ client[c].at = "waiting" /\ answers[client[c].run] # "none"
    /\ Set(c, [client[c] EXCEPT !.at = IF Answered(c) THEN "ppm" ELSE "over"])
    /\ UNCHANGED <<unit, answers, latest, private, photos>>

\* The picture is read, then the description; a file that is not there ends it.
ReadImage(c) ==
    /\ client[c].at = "ppm"
    /\ Set(c, IF latest.ppm = 0 THEN [client[c] EXCEPT !.at = "over"]
              ELSE [client[c] EXCEPT !.at = "json", !.ppm = latest.ppm])
    /\ UNCHANGED <<unit, answers, latest, private, photos>>

ReadMeta(c) ==
    /\ client[c].at = "json"
    /\ Set(c, IF latest.json = 0 THEN [client[c] EXCEPT !.at = "over"]
              ELSE [client[c] EXCEPT !.at = "save", !.json = latest.json])
    /\ UNCHANGED <<unit, answers, latest, private, photos>>

\* The file is made with O_EXCL, and finished() tells the user; or it fails.
Save(c) ==
    /\ client[c].at = "save"
    /\ photos' \in {photos, photos \cup {[client |-> c, run |-> client[c].run,
                                          ppm |-> client[c].ppm, json |-> client[c].json]}}
    /\ Set(c, [client[c] EXCEPT !.at = "over"])
    /\ UNCHANGED <<unit, answers, latest, private>>

\* finished(): the user may try again.
Finished(c) ==
    /\ client[c].at = "over"
    /\ Set(c, Waits)
    /\ UNCHANGED <<unit, answers, latest, private, photos>>

CaptureNext ==
    \/ Backend \/ ReplaceImage \/ ReplaceMeta \/ Finally \/ StartTimeout
    \/ \E c \in Clients :
        \/ TakePhoto(c) \/ Timeout(c) \/ Answer(c) \/ ReadImage(c) \/ ReadMeta(c)
        \/ Save(c) \/ Finished(c)

CaptureSpec == Init /\ [][CaptureNext]_captureVars

-----------------------------------------------------------------------------
\* A photo that is saved was never taken before the run that was under way when
\* the user pressed the button, whatever failed before and whoever else asks:
\* the picture and its description are those of that run or of a later one.
PhotoNotOld ==
    \A p \in photos : p.ppm >= p.run /\ p.json >= p.run

-----------------------------------------------------------------------------
(* The inductive invariant: a run that succeeded has replaced both files, which *)
(* are never of an earlier run again, and nobody reads them before that.        *)

ClientTypes ==
    [at : {"idle", "waiting", "ppm", "json", "save", "over"},
     run : Nat, ppm : Nat, json : Nat]

CaptureTyped ==
    /\ unit \in [run : 0..MaxRuns,
                 at : {"inactive", "capture", "image", "meta", "ending", "failing"}]
    /\ unit.at # "inactive" => unit.run # 0
    /\ answers \in [1..MaxRuns -> {"none", "failed", "success"}]
    /\ latest \in [ppm : 0..unit.run, json : 0..unit.run]
    /\ client \in [Clients -> ClientTypes]

\* The run replaces the picture, then the description.
RunReplaces ==
    /\ unit.at \in {"meta", "ending"} => latest.ppm = unit.run
    /\ unit.at = "ending" => latest.json = unit.run

SuccessShown ==
    \A r \in 1..MaxRuns :
        answers[r] = "success" => latest.ppm >= r /\ latest.json >= r

\* A run is answered once, when it is over.
Unanswered ==
    \A r \in 1..MaxRuns :
        r > unit.run \/ (r = unit.run /\ unit.at # "inactive") => answers[r] = "none"

ClientAfterSuccess ==
    \A c \in Clients :
        /\ client[c].at = "waiting" => client[c].run \in 1..MaxRuns
        /\ client[c].at \in {"ppm", "json", "save"} =>
             client[c].run \in 1..MaxRuns /\ answers[client[c].run] = "success"
        /\ client[c].at \in {"json", "save"} => client[c].ppm >= client[c].run
        /\ client[c].at = "save" => client[c].json >= client[c].run

PhotoInv ==
    /\ CaptureTyped /\ RunReplaces /\ SuccessShown /\ Unanswered
    /\ ClientAfterSuccess /\ PhotoNotOld
=============================================================================
