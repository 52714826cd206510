--------------------------- MODULE FieldToolsProofs ---------------------------
(***************************************************************************)
(* The theorems about the programs of MCFieldTools, for every value of the *)
(* constants they have there.  What a program's steps do is proved in      *)
(* PhoneToolsProofs and HostToolsProofs; here it is put together.          *)
(***************************************************************************)
EXTENDS MCFieldTools, PhoneToolsProofs, HostToolsProofs

-----------------------------------------------------------------------------
(* The chosen program never changes, and only takes its own steps. *)

LEMMA ChosenInit ==
  ASSUME ToolsInit
  PROVE  /\ tool = "guard" => Guard!Init
         /\ tool = "rtc" => Rtc!RtcInit
         /\ tool = "receipt" => Receipt!MenuInit
         /\ tool = "seed" => Seed!SeedInit
         /\ tool = "thumbs" => Thumbs!ThumbInit
         /\ tool = "photo" => Photo!Init
         /\ tool = "hal" => Hal!Init
         /\ tool = "boot" => Boot!DualInit
         /\ tool = "resuspend" => Resuspend!TrialInit
         /\ tool = "userdata" => Userdata!Init
         /\ tool = "runtime" => Runtime!Init
         /\ tool = "trial" => Trial!Init
         /\ tool = "idle" => Idle!IdleInit
         /\ tool = "recovery" => Recovery!Init
         /\ tool = "policy" => Policy!Init
         /\ tool = "regmap" => Regmap!Init
         /\ tool = "bundle" => Bundle!Init
         /\ tool = "packages" => Packages!BuildInit
         /\ tool = "closure" => Closure!M0Init
         /\ tool = "sleep" => Sleep!Init
         /\ tool = "battery" => Battery!Init
         /\ tool = "triage" => Triage!Init
         /\ tool = "standby" => Standby!Init
  BY DEF ToolsInit, OneTool

LEMMA ChosenStep ==
  ASSUME [ToolsNext]_toolVars
  PROVE  /\ tool' = tool
         /\ tool = "guard" => [Guard!Next]_slots
         /\ tool = "rtc" => [Rtc!RtcNext]_slots
         /\ tool = "receipt" => [Receipt!MenuNext]_slots
         /\ tool = "seed" => [Seed!SeedNext]_slots
         /\ tool = "thumbs" => [Thumbs!ThumbNext]_slots
         /\ tool = "photo" => [Photo!CaptureNext]_slots
         /\ tool = "hal" => [Hal!Next]_slots
         /\ tool = "boot" => [Boot!DualNext]_slots
         /\ tool = "resuspend" => [Resuspend!TrialNext]_slots
         /\ tool = "userdata" => [Userdata!Next]_slots
         /\ tool = "runtime" => [Runtime!Next]_slots
         /\ tool = "trial" => [Trial!Next]_slots
         /\ tool = "idle" => [Idle!IdleNext]_slots
         /\ tool = "recovery" => [Recovery!ControlNext]_slots
         /\ tool = "policy" => [Policy!Next]_slots
         /\ tool = "regmap" => [Regmap!Next]_slots
         /\ tool = "bundle" => [Bundle!BundleNext]_slots
         /\ tool = "packages" => [Packages!BuildNext]_slots
         /\ tool = "closure" => [Closure!M0Next]_slots
         /\ tool = "sleep" => [Sleep!Next]_slots
         /\ tool = "battery" => [Battery!LogNext]_slots
         /\ tool = "triage" => [Triage!Next]_slots
         /\ tool = "standby" => [Standby!Next]_slots
  BY DEF ToolsNext, toolVars, slots, Still10, Still9, Still8, Still7, Still6, Still4,
         Still3

-----------------------------------------------------------------------------
\* The USB guard keeps the phone awake with one inhibitor at most, whenever that
\* one dies, and with none after a whole poll without a PC or once the service has
\* stopped, however the cable moved between the reads of a poll.
THEOREM GuardSleeps == ToolsSpec => []GuardLetsSleep
<1> DEFINE Inv == tool = "guard" => Guard!GuardInv
<1>1. ToolsInit => Inv
  BY ChosenInit, GuardInitHolds
<1>2. Inv /\ [ToolsNext]_toolVars => Inv'
  BY ChosenStep, GuardStepHolds, ToolsAssumption
<1>3. Inv => GuardLetsSleep
  BY DEF Guard!GuardInv, Guard!OnlyChild, Guard!Released, Guard!OneInhibitor,
         Guard!NoneAfterUnplug, GuardLetsSleep
<1> QED
  BY <1>1, <1>2, <1>3, PTL DEF ToolsSpec

\* A restore never sets the clock more than a second ahead, however long ago the
\* anchor was captured and however often the counter was reset since.
THEOREM NeverAhead == ToolsSpec => []ClockNotAhead
<1> DEFINE Inv == tool = "rtc" => Rtc!ClockInv
<1>1. ToolsInit => Inv
  BY ChosenInit, ClockInitHolds
<1>2. Inv /\ [ToolsNext]_toolVars => Inv'
  BY ChosenStep, ClockStepHolds, ToolsAssumption DEF Rtc!RtcAssumption
<1>3. Inv => ClockNotAhead
  BY DEF Rtc!ClockInv, ClockNotAhead
<1> QED
  BY <1>1, <1>2, <1>3, PTL DEF ToolsSpec

\* Whatever the two programs overwrite of each other's receipt, wherever they are
\* killed and whatever is in the temporary file: a menu that was flashed had started
\* Mobian on the phone directly, and each of its entries was tried there.
THEOREM FlashedWhenQualified == ToolsSpec => []MenuFlashQualified
<1> DEFINE Inv == tool = "receipt" => Receipt!MenuInv
<1>1. ToolsInit => Inv
  BY ChosenInit, MenuInitHolds
<1>2. Inv /\ [ToolsNext]_toolVars => Inv'
  BY ChosenStep, MenuStepHolds, ToolsAssumption
<1>3. Inv => MenuFlashQualified
  BY DEF Receipt!MenuInv, MenuFlashQualified
<1> QED
  BY <1>1, <1>2, <1>3, PTL DEF ToolsSpec

\* Wherever a run of the time seed ends or the power fails: the saved time never
\* goes back, a restored clock is not before it, and only a kill or a loss of power
\* leaves a temporary file in the way of a later run.
THEOREM SeedKept == ToolsSpec => []SeedHolds
<1> DEFINE Inv == tool = "seed" => Seed!SeedInv
<1>1. ToolsInit => Inv
  BY ChosenInit, SeedInitHolds, ToolsAssumption
<1>2. Inv /\ [ToolsNext]_toolVars => Inv'
  BY ChosenStep, SeedStepHolds, ToolsAssumption
<1>3. Inv => SeedHolds
  BY DEF Seed!SeedInv, Seed!OnlyOwnLeft, Seed!NoLeftOver, SeedHolds
<1> QED
  BY <1>1, <1>2, <1>3, PTL DEF ToolsSpec

\* However often the owner replaces a picture while thumbnailers run and are killed,
\* a preview carries the second and the size of the version it shows: one that matches
\* the picture shows it, or an earlier version of the same second and size.
THEOREM LabelKept == ToolsSpec => []ThumbnailTrue
<1> DEFINE Inv == tool = "thumbs" => Thumbs!ThumbInv
<1>1. ToolsInit => Inv
  BY ChosenInit, ThumbInitHolds, ToolsAssumption
<1>2. Inv /\ [ToolsNext]_toolVars => Inv'
  BY ChosenStep, ThumbStepHolds, ToolsAssumption
<1>3. Inv => ThumbnailTrue
  BY DEF Thumbs!ThumbInv, Thumbs!OutputKnown, Thumbs!LabelTrue, ThumbnailTrue
<1> QED
  BY <1>1, <1>2, <1>3, PTL DEF ToolsSpec

\* Whatever button is pressed twice, whichever client dies and however often systemd
\* starts the unit again: a photo in the gallery is of a run its button asked for.
THEOREM PhotoNew == ToolsSpec => []PhotoIsNew
<1> DEFINE Inv == tool = "photo" => Photo!PhotoInv
<1>1. ToolsInit => Inv
  BY ChosenInit, PhotoInitHolds, ToolsAssumption
<1>2. Inv /\ [ToolsNext]_toolVars => Inv'
  BY ChosenStep, PhotoStepHolds, ToolsAssumption
<1>3. Inv => PhotoIsNew
  BY DEF Photo!PhotoInv, PhotoIsNew
<1> QED
  BY <1>1, <1>2, <1>3, PTL DEF ToolsSpec

\* For any number of buffers, any last frame and any order of the HAL's answers,
\* signals and errors: a saved picture is of the frame it is saved as.
THEOREM FrameShown == ToolsSpec => []ImageTrue
<1> DEFINE Inv == tool = "hal" => Hal!HalInv
<1>1. ToolsInit => Inv
  BY ChosenInit, HalInitHolds, ToolsAssumption
<1>2. Inv /\ [ToolsNext]_toolVars => Inv'
  BY ChosenStep, HalStepHolds, ToolsAssumption
<1>3. Inv => ImageTrue
  BY DEF Hal!HalInv, ImageTrue
<1> QED
  BY <1>1, <1>2, <1>3, PTL DEF ToolsSpec

\* However a capture ends, each fence is closed once and each buffer given back, and
\* it says it succeeded only with nothing queued, and whenever nothing went wrong.
THEOREM EndsClean == ToolsSpec => []CaptureEndsClean
<1> DEFINE Inv == tool = "hal" => Hal!HalInv
<1>1. ToolsInit => Inv
  BY ChosenInit, HalInitHolds, ToolsAssumption
<1>2. Inv /\ [ToolsNext]_toolVars => Inv'
  BY ChosenStep, HalStepHolds, ToolsAssumption
<1>3. Inv => CaptureEndsClean
  BY DEF Hal!HalInv, Hal!NoTrouble, Hal!Ending,
         Hal!StatusTrue, CaptureEndsClean
<1> QED
  BY <1>1, <1>2, <1>3, PTL DEF ToolsSpec

\* A buffer is asked for again, or given back, only once the camera has done with it.
THEOREM BuffersKept == ToolsSpec => BufferFree
<1> DEFINE Inv == tool = "hal" => Hal!HalInv
<1>1. ToolsInit => Inv
  BY ChosenInit, HalInitHolds, ToolsAssumption
<1>2. Inv /\ [ToolsNext]_toolVars => Inv'
  BY ChosenStep, HalStepHolds, ToolsAssumption
<1>3. Inv /\ [ToolsNext]_toolVars => [tool = "hal" => Hal!BufferFree]_toolVars
  BY ChosenStep, HalBuffersFree, ToolsAssumption
<1> QED
  BY <1>1, <1>2, <1>3, PTL DEF ToolsSpec, BufferFree

\* Wherever the migration is killed between its writes: one copy of the partition
\* table is whole, and a partition is never flashed a second time.
THEOREM PartitionKept == ToolsSpec => []PartitionsOneCopy
<1> DEFINE Inv == tool = "boot" => Boot!DualInv
<1>1. ToolsInit => Inv
  BY ChosenInit, DualInitHolds
<1>2. Inv /\ [ToolsNext]_toolVars => Inv'
  BY ChosenStep, DualStepHolds
<1>3. Inv => PartitionsOneCopy
  BY DualMeans DEF PartitionsOneCopy
<1> QED
  BY <1>1, <1>2, <1>3, PTL DEF ToolsSpec

\* Whatever the phone does while the switch waits: it confirms a system only after
\* that one has started since the switch was asked for.
THEOREM SwitchConfirmed == ToolsSpec => SwitchTrue
<1> DEFINE Inv == tool = "boot" => Boot!DualInv
<1>1. ToolsInit => Inv
  BY ChosenInit, DualInitHolds
<1>2. Inv /\ [ToolsNext]_toolVars => Inv'
  BY ChosenStep, DualStepHolds
<1>3. Inv /\ [ToolsNext]_toolVars => [tool = "boot" => Boot!SwitchTruth]_toolVars
  BY ChosenStep, SwitchMeans
<1> QED
  BY <1>1, <1>2, <1>3, PTL DEF ToolsSpec, SwitchTrue

\* For any length of the quiet time, and wherever an input, a cable or a sleep falls
\* between the reads of the loop: when the trial asks logind for a suspend, no input its
\* reads could see is younger than that, and it asks for each resume once, one of the
\* gauge unless the phone has slept since.
THEOREM QuietKept == ToolsSpec => []QuietWhenAsked
<1> DEFINE Inv == tool = "resuspend" => Resuspend!QuietInv
<1>1. ToolsInit => Inv
  BY ChosenInit, QuietInitHolds, ToolsAssumption
<1>2. Inv /\ [ToolsNext]_toolVars => Inv'
  BY ChosenStep, QuietStepHolds, ToolsAssumption
<1>3. Inv => QuietWhenAsked
  BY QuietMeans, ToolsAssumption DEF QuietWhenAsked
<1> QED
  BY <1>1, <1>2, <1>3, PTL DEF ToolsSpec

\* For any number of builders and of loop devices: a builder only detaches the device
\* it attached, though the others attach and free theirs between its reads.
THEOREM LoopsKept == ToolsSpec => OwnDetached
<1> DEFINE Inv == tool = "userdata" => Userdata!BuildInv
<1>1. ToolsInit => Inv
  BY ChosenInit, BuildInitHolds, ToolsAssumption
<1>2. Inv /\ [ToolsNext]_toolVars => Inv'
  BY ChosenStep, BuildStepHolds, ToolsAssumption
<1>3. Inv /\ [ToolsNext]_toolVars => [tool = "userdata" => Userdata!OwnDetached]_toolVars
  BY ChosenStep, OwnMeans, ToolsAssumption
<1> QED
  BY <1>1, <1>2, <1>3, PTL DEF ToolsSpec, OwnDetached

\* Wherever a step fails or a signal arrives: what a clean-up says it removed is gone,
\* the mounts of the private runtime in the order that lets each one go.
THEOREM CleanedUp == ToolsSpec => []CleanupsDone
<1> DEFINE Inv == /\ tool = "runtime" => Runtime!RuntimeInv
                  /\ tool = "userdata" => Userdata!BuildInv
<1>1. ToolsInit => Inv
  BY ChosenInit, RuntimeInitHolds, BuildInitHolds, ToolsAssumption
<1>2. Inv /\ [ToolsNext]_toolVars => Inv'
  BY ChosenStep, RuntimeStepHolds, BuildStepHolds, ToolsAssumption
<1>3. Inv => CleanupsDone
  BY CleanedMeans DEF Runtime!RuntimeInv, CleanupsDone
<1> QED
  BY <1>1, <1>2, <1>3, PTL DEF ToolsSpec

\* For any number of clients, of wakes and of checkpoints, and wherever a trial is
\* killed, a write fails or the hook meets ExecStopPost: governors, alarm, sleep mode,
\* radios and devfreq clients are put back, each but where its own restoring write was
\* refused or not confirmed (the clients, unless one was changed by somebody else or the
\* unit stopped over a pre at work), and a client is isolated only while its whole record
\* is on disk.
THEOREM FoundAgain == ToolsSpec => []PhoneAsFound
<1> DEFINE Inv == /\ tool = "recovery" => Recovery!ControlInv
                  /\ tool = "idle" => Idle!RadiosInv
                  /\ tool = "trial" => Trial!TrialInv
<1>1. ToolsInit => Inv
  BY ChosenInit, ControlInitHolds, RadiosInitHolds, TrialInitHolds, ToolsAssumption
<1>2. Inv /\ [ToolsNext]_toolVars => Inv'
  BY ChosenStep, ControlStepHolds, RadiosStepHolds, TrialStepHolds, ToolsAssumption
<1>3. Inv => PhoneAsFound
  BY ControlMeans, RadiosMean, TrialMeans DEF PhoneAsFound
<1> QED
  BY <1>1, <1>2, <1>3, PTL DEF ToolsSpec

\* For any lines of a debugfs file, any directories and any attributes: what a reader
\* says of a register or of an attribute is what it read there, whatever the chip or
\* the driver does meanwhile; in a file with a regular step `_offset()` finds the line
\* of every register, which is shown by induction over the lines.
THEOREM ReadTrue == ToolsSpec => []ReadingsTrue
<1> DEFINE Inv == /\ tool = "policy" => Policy!ReadInv
                  /\ tool = "regmap" => Regmap!RegmapInv
<1>1. ToolsInit => Inv
  BY ChosenInit, ReadInitHolds, RegmapInitHolds, ToolsAssumption
<1>2. Inv /\ [ToolsNext]_toolVars => Inv'
  BY ChosenStep, ReadStepHolds, RegmapStepHolds, ToolsAssumption
<1>3. Inv => ReadingsTrue
  BY ReadMeans, RowsMean DEF ReadingsTrue
<1> QED
  BY <1>1, <1>2, <1>3, PTL DEF ToolsSpec

\* For any kits and lengths of components, any candidates, any packages and any number
\* of offers, wherever a program is killed or meets another run of itself: a recipe that
\* is accepted pins one container, in which the loader finds every component; packages
\* are published with their own sources; a locked closure is whole; and an image under
\* its name has passed the checks, however many builds of its version run, and is whole,
\* the sparse one if no second build has begun.
THEOREM ArtifactsHold == ToolsSpec => []ArtifactsTrue
<1> DEFINE Inv == /\ tool = "bundle" => Bundle!BundleInv
                  /\ tool = "packages" => Packages!PackagesInv
                  /\ tool = "closure" => Closure!M0Inv
                  /\ tool = "userdata" => Userdata!BuildInv /\ Userdata!PublishInv
<1>1. ToolsInit => Inv
  BY ChosenInit, BundleInitHolds, PackagesInitHolds, ClosureInitHolds, BuildInitHolds,
     PublishInitHolds, ToolsAssumption
<1>2. Inv /\ [ToolsNext]_toolVars => Inv'
  BY ChosenStep, BundleStepHolds, PackagesStepHolds, ClosureStepHolds, BuildStepHolds,
     PublishStepHolds, ToolsAssumption
<1>3. Inv => ArtifactsTrue
  BY BundleMeans, PackagesMean, ClosureMeans, PublishMeans, ToolsAssumption
     DEF ArtifactsTrue
<1> QED
  BY <1>1, <1>2, <1>3, PTL DEF ToolsSpec

\* Whatever record of a sleep was lost or cut, and wherever the recorder was frozen,
\* late or killed: no sleep is reported that was not slept between its two records.
THEOREM RecordsTrue == ToolsSpec => []SleepRecordsTrue
<1> DEFINE Inv == /\ tool = "sleep" => Sleep!SleepInv
                  /\ tool = "battery" => Battery!LogInv
<1>1. ToolsInit => Inv
  BY ChosenInit, SleepInitHolds, BatteryInitHolds
<1>2. Inv /\ [ToolsNext]_toolVars => Inv'
  BY ChosenStep, SleepStepHolds, BatteryStepHolds
<1>3. Inv => SleepRecordsTrue
  BY SleepMeans, BatteryMeans, ToolsAssumption DEF SleepRecordsTrue
<1> QED
  BY <1>1, <1>2, <1>3, PTL DEF ToolsSpec

\* Whoever uses a PID after whom, and in whatever order the callbacks come that are due
\* at once: the analysis of a triage gives no process more processor time than it has
\* used, and once a row says the capture is over no sample follows it.
THEOREM TriageTrue == ToolsSpec => []TriageCounts
<1> DEFINE Inv == tool = "triage" => Triage!TriageInv
<1>1. ToolsInit => Inv
  BY ChosenInit, TriageInitHolds, ToolsAssumption
<1>2. Inv /\ [ToolsNext]_toolVars => Inv'
  BY ChosenStep, TriageStepHolds, ToolsAssumption
<1>3. Inv => TriageCounts
  BY TriageMeans DEF TriageCounts
<1> QED
  BY <1>1, <1>2, <1>3, PTL DEF ToolsSpec

\* However few events its lists keep, and whenever the phone sleeps between two samples
\* or the cable comes and goes: the last document of a standby window tells all of it.
THEOREM StandbyTold == ToolsSpec => []StandbyFinalTellsAll
<1> DEFINE Inv == tool = "standby" => Standby!StandbyInv
<1>1. ToolsInit => Inv
  BY ChosenInit, StandbyInitHolds
<1>2. Inv /\ [ToolsNext]_toolVars => Inv'
  BY ChosenStep, StandbyStepHolds, ToolsAssumption
<1>3. Inv => StandbyFinalTellsAll
  BY StandbyMeans DEF StandbyFinalTellsAll
<1> QED
  BY <1>1, <1>2, <1>3, PTL DEF ToolsSpec
=============================================================================
