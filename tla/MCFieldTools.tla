---------------------------- MODULE MCFieldTools ----------------------------
(***************************************************************************)
(* The programs that run on their own, on the phone or against it, checked *)
(* in one run: a behaviour is one of them, chosen at the start, on its     *)
(* small instance.  They have no state in common.  The gauge observer and  *)
(* its analysis keep the variables of GaugeEvidence; every other program   *)
(* lives in the slots s1 to s10, as PhoneTools and HostTools place them.   *)
(***************************************************************************)
EXTENDS GaugeEvidence, PhoneTools, HostTools

toolVars == <<tool, slots, evidenceVars>>

-----------------------------------------------------------------------------
\* What the programs assume of the bounds they are given here.
ASSUME ToolsAssumption ==
    /\ Standby!WindowAssumption /\ Guard!GuardAssumption
    /\ Sleep!HookAssumption /\ Triage!CollectorAssumption
    /\ Regmap!RegmapAssumption /\ Trial!TrialAssumption
    /\ Photo!CaptureAssumption /\ Battery!LogAssumption
    /\ Recovery!ControlAssumption /\ Bundle!BundleAssumption
    /\ Packages!PackagesAssumption
    /\ Thumbs!ThumbnailAssumption /\ Hal!HalAssumption
    /\ Seed!SeedAssumption /\ Rtc!RtcAssumption /\ Receipt!MarksAssumption
    /\ Resuspend!TrialAssumption /\ Userdata!BuildAssumption

-----------------------------------------------------------------------------
Off == "off"        \* a slot the program does not use

Off10 == TRUE
Off9 == s10 = Off
Off8 == s9 = Off /\ Off9
Off7 == s8 = Off /\ Off8
Off6 == s7 = Off /\ Off7
Off4 == s5 = Off /\ s6 = Off /\ Off6
Off3 == s4 = Off /\ Off4
Off0 == s1 = Off /\ s2 = Off /\ s3 = Off /\ Off3

\* The gauge, when another program is chosen: an observer that is not there.
NoGauge == Init /\ dead = TRUE

OneTool ==
    \/ tool = "standby" /\ Standby!Init /\ Off8
    \/ tool = "guard" /\ Guard!Init /\ Off6
    \/ tool = "sleep" /\ Sleep!Init /\ Off4
    \/ tool = "triage" /\ Triage!Init /\ Off6
    \/ tool = "policy" /\ Policy!Init /\ Off4
    \/ tool = "regmap" /\ Regmap!Init /\ Off6
    \/ tool = "trial" /\ Trial!Init /\ Off6
    \/ tool = "runtime" /\ Runtime!Init /\ Off7
    \/ tool = "photo" /\ Photo!Init /\ Off6
    \/ tool = "rtc" /\ Rtc!RtcInit /\ Off8
    \/ tool = "resuspend" /\ Resuspend!TrialInit /\ Off10
    \/ tool = "battery" /\ Battery!Init /\ Off7
    \/ tool = "recovery" /\ Recovery!Init /\ Off6
    \/ tool = "idle" /\ Idle!IdleInit /\ Off9
    \/ tool = "boot" /\ Boot!DualInit /\ Off9
    \/ tool = "receipt" /\ Receipt!MenuInit /\ Off7
    \/ tool = "bundle" /\ Bundle!Init /\ Off6
    \/ tool = "packages" /\ Packages!BuildInit /\ Off6
    \/ tool = "closure" /\ Closure!M0Init /\ Off7
    \/ tool = "thumbs" /\ Thumbs!ThumbInit /\ Off4
    \/ tool = "hal" /\ Hal!Init /\ Off10
    \/ tool = "seed" /\ Seed!SeedInit /\ Off8
    \/ tool = "userdata" /\ Userdata!Init /\ Off3

ToolsInit ==
    \/ tool = "gauge" /\ EvidenceInit /\ Off0
    \/ NoGauge /\ OneTool

Still10 == UNCHANGED <<tool, evidenceVars>>
Still9 == UNCHANGED s10 /\ Still10
Still8 == UNCHANGED s9 /\ Still9
Still7 == UNCHANGED s8 /\ Still8
Still6 == UNCHANGED s7 /\ Still7
Still4 == UNCHANGED <<s5, s6>> /\ Still6
Still3 == UNCHANGED s4 /\ Still4

ToolsNext ==
    \/ tool = "gauge" /\ EvidenceNext /\ UNCHANGED <<tool, slots>>
    \/ tool = "standby" /\ Standby!Next /\ Still8
    \/ tool = "guard" /\ Guard!Next /\ Still6
    \/ tool = "sleep" /\ Sleep!Next /\ Still4
    \/ tool = "triage" /\ Triage!Next /\ Still6
    \/ tool = "policy" /\ Policy!Next /\ Still4
    \/ tool = "regmap" /\ Regmap!Next /\ Still6
    \/ tool = "trial" /\ Trial!Next /\ Still6
    \/ tool = "runtime" /\ Runtime!Next /\ Still7
    \/ tool = "photo" /\ Photo!CaptureNext /\ Still6
    \/ tool = "rtc" /\ Rtc!RtcNext /\ Still8
    \/ tool = "resuspend" /\ Resuspend!TrialNext /\ Still10
    \/ tool = "battery" /\ Battery!LogNext /\ Still7
    \/ tool = "recovery" /\ Recovery!ControlNext /\ Still6
    \/ tool = "idle" /\ Idle!IdleNext /\ Still9
    \/ tool = "boot" /\ Boot!DualNext /\ Still9
    \/ tool = "receipt" /\ Receipt!MenuNext /\ Still7
    \/ tool = "bundle" /\ Bundle!BundleNext /\ Still6
    \/ tool = "packages" /\ Packages!BuildNext /\ Still6
    \/ tool = "closure" /\ Closure!M0Next /\ Still7
    \/ tool = "thumbs" /\ Thumbs!ThumbNext /\ Still4
    \/ tool = "hal" /\ Hal!Next /\ Still10
    \/ tool = "seed" /\ Seed!SeedNext /\ Still8
    \/ tool = "userdata" /\ Userdata!Next /\ Still3

\* The gauge's timer is never held for ever, nor the collector of the standby window,
\* nor the HAL's client outside the calls into the vendor's library; the others are
\* checked for what they never do.
OfGauge(A) == tool = "gauge" /\ ~dead /\ A /\ UNCHANGED <<dead, tool, slots>>
OfStandby(A) == tool = "standby" /\ A /\ Still8
OfHal(A) == tool = "hal" /\ A /\ Still10

ToolsSpec ==
    /\ ToolsInit /\ [][ToolsNext]_toolVars
    /\ WF_toolVars(OfGauge(Arm))
    /\ WF_toolVars(OfGauge(Tick))
    /\ WF_toolVars(OfGauge(Poll))
    /\ WF_toolVars(OfStandby(Standby!Step))
    /\ WF_toolVars(OfStandby(Standby!HandlerReplaced))
    /\ WF_toolVars(OfHal(Hal!Own))

-----------------------------------------------------------------------------
(* The properties.  Each is stated in its module and only speaks of that       *)
(* program here; those of the gauge are in GaugeEvidence and GaugeObserver.    *)

\* The standby window's document tells every suspend and the first unplug and
\* replug, however small its lists (collect-matched-standby-window.py).
StandbyFinalTellsAll ==
    tool = "standby" => Standby!FinalTellsAll

\* The USB guard keeps the phone awake with one inhibitor at most, and with none
\* once the PC is gone or the service stopped (lmi-usb-pc-guard.py).
GuardLetsSleep ==
    tool = "guard" => Guard!NoneAfterUnplug /\ Guard!OneInhibitor

\* The triage never invents processor time, and samples nothing once its capture
\* is over (collector.py, analyze.py).
TriageCounts ==
    tool = "triage" => Triage!TicksNeverInvented /\ Triage!OverIsOver

\* A photo is never that of a run before the button was pressed
\* (lmi-camera-capture-service.py).
PhotoIsNew ==
    tool = "photo" => Photo!PhotoNotOld

\* The clock restored from the anchor is not ahead (rtc-time-anchor.py).
ClockNotAhead ==
    tool = "rtc" => Rtc!NotAhead

\* A whole partition table is left wherever the migration stops, and a partition
\* is flashed once (migrate.py, flash-mobian.py).
PartitionsOneCopy ==
    tool = "boot" => Boot!OneCopyWhole /\ Boot!FlashedOnce

\* The boot menu is flashed only after it started Mobian directly and every entry was
\* tried, on the phone (manage.py).
MenuFlashQualified ==
    tool = "receipt" => Receipt!FlashQualified

\* An image preview shows the version of the picture whose second and size its label
\* carries (lmi-photos-thumbnails).
ThumbnailTrue ==
    tool = "thumbs" => Thumbs!LabelTrue

\* A switch of system is confirmed only of the system that started after it
\* (switch-os.py).
SwitchTrue ==
    [][tool = "boot" => Boot!SwitchTruth]_toolVars

\* The resuspend trial asks for a suspend only after the quiet time, as far as its reads
\* can see, and once for each resume (gauge-resuspend-trial.py).
QuietWhenAsked ==
    tool = "resuspend" => Resuspend!QuietWhenAsked

\* No sleep is shown that was not slept: rows of two sleeps are never paired, whatever
\* record was lost (sleep_hook.py, compare_sleep.py) or cut (recorder.py, model.py).
SleepRecordsTrue ==
    /\ tool = "sleep" => Sleep!OneLossNoFalsePair
    /\ tool = "battery" => Battery!SleepNotInvented

\* A reader says of an attribute or a register only what it has read there: a refused
\* read is not an absence (ufs-policy-read.py), and a row of the charger is of the
\* registers it names, during its sample (pm8150b-charger-targeted-read.py).
ReadingsTrue ==
    /\ tool = "policy" => Policy!NoFalseAbsence
    /\ tool = "regmap" => Regmap!RowIsOfTheRegister

\* What a trial changes on the phone is put back, whatever ends it, but where the
\* restoring write was refused or not confirmed: governors, sleep mode and alarm (measure-r3.sh), radios
\* (android-idle-trial.py), and the clients of the policy prototypes, none of which is
\* isolated before its record is on disk.
PhoneAsFound ==
    /\ tool = "recovery" => Recovery!LeavesPhoneAsFound
    /\ tool = "idle" => Idle!RadiosBack
    /\ tool = "trial" => Trial!RecordFirst /\ Trial!TrialLeavesNothing

\* What a clean-up says it took down is down: mounts, devices and processes of the
\* private runtime, the mount and the loop device of the userdata builder.
CleanupsDone ==
    /\ tool = "runtime" => Runtime!RemovedIsGone
    /\ tool = "userdata" => Userdata!CleanedUp

\* What is published is what its record says: a recipe pins one build of the menu, the
\* packages of a candidate have its own sources, a locked closure is one resolution,
\* and a userdata image has passed its checks and is whole (a sparse one, if no second
\* build of the version has begun).
ArtifactsTrue ==
    /\ tool = "bundle" => Bundle!RecipeIsOneBundle
    /\ tool = "packages" => Packages!PublishedIsPatched
    /\ tool = "closure" => Closure!LockIsWhole
    /\ tool = "userdata" => Userdata!PublishedChecked

\* The userdata builder never detaches a loop device that is not its own
\* (loop-cleanup.sh).
OwnDetached ==
    [][tool = "userdata" => Userdata!OwnDetached]_toolVars

\* The saved time never goes back, a restored clock is not before it, and no temporary
\* file is left in the way but by a kill or a loss of power (lmi-time-seed).
SeedHolds ==
    tool = "seed" => Seed!SeedNotLost /\ Seed!FloorHolds /\ Seed!NoLeftOver

\* A picture the HAL's client saves is the frame it says, whole
\* (camera-module-capture.c).
ImageTrue ==
    tool = "hal" => Hal!ImageTrue

\* A buffer goes to another frame only when the camera has done with it.
BufferFree ==
    [][tool = "hal" => Hal!BufferFree]_toolVars

\* However the HAL's client ends, it has closed each fence once and given every buffer
\* back, and it says it succeeded when nothing is queued and nothing went wrong.
CaptureEndsClean ==
    tool = "hal" => Hal!FencesClosedOnce /\ Hal!StatusTrue

\* No wait of its own holds a program: the collector of the standby window ends, and
\* the HAL's client is over or in a call into the vendor's library.
WaitsEnd ==
    <>[](/\ tool = "standby" => Standby!Ended
         /\ tool = "hal" => Hal!OverOrInCall)
=============================================================================
