----------------------------- MODULE PhoneTools -----------------------------
(***************************************************************************)
(* The programs of MCFieldTools that run on the phone, and those of the PC *)
(* that try, flash or read it, each in the slots of ToolSlots, as many as  *)
(* it has variables.                                                       *)
(***************************************************************************)
EXTENDS ToolSlots

CONSTANTS
    RequiredPositives, Inhibitors,                  \* of the USB guard
    MaxNow, MaxElapsed, StartLag, MaxResets,        \* of the clock anchor
    Pids, MaxClock, FirstSeed, MaxBoots,            \* of the time seed
    PhotoClients, MaxRuns,                          \* of the one-shot photo
    Thumbnailers, Sizes, MaxVersions,               \* of the thumbnails
    N, Limit, Modulus, Warm,                        \* of the HAL's client
    QuietTicks, SettleTicks, AwakeTicks, MaxResumes,    \* of the resuspend trial
    IsolatedClients, MaxTrials, MaxCycles,          \* of the policy prototypes
    Programs, Entries,                              \* of the menu's receipt
    Checkpoints, MaxWakes, MaxOthers,               \* of the recovery control
    Dirs, Attrs                                     \* of the policy report

Guard == INSTANCE UsbGuard WITH
    cable <- s1, service <- s2, guard <- s3, seen <- s4, alive <- s5, away <- s6

Rtc == INSTANCE RtcAnchor WITH
    now <- s1, lag <- s2, zero <- s3, anchor <- s4, fresh <- s5, capture <- s6,
    restore <- s7, resets <- s8

Seed == INSTANCE TimeSeed WITH
    clock <- s1, disk <- s2, durable <- s3, unit <- s4, run <- s5, boots <- s6,
    best <- s7, past <- s8

Photo == INSTANCE CameraCapture WITH
    unit <- s1, answers <- s2, latest <- s3, private <- s4, client <- s5,
    photos <- s6, Clients <- PhotoClients

Thumbs == INSTANCE Thumbnails WITH
    versions <- s1, picture <- s2, output <- s3, run <- s4,
    Runs <- Thumbnailers

Hal == INSTANCE HalCapture WITH
    mode <- s1, prog <- s2, slot <- s3, handle <- s4, taken <- s5, writer <- s6,
    content <- s7, fences <- s8, image <- s9, trouble <- s10

Resuspend == INSTANCE ResuspendTrial WITH
    trialPc <- s1, memory <- s2, ticks <- s3, input <- s4, usb <- s5,
    alarm <- s6, sleeping <- s7, resumes <- s8, reason <- s9, answered <- s10,
    Quiet <- QuietTicks, Settle <- SettleTicks, MaxTicks <- AwakeTicks,
    MaxSuspends <- MaxResumes

Runtime == INSTANCE PrivateRuntime WITH
    runtime <- s1, mounted <- s2, mounts <- s3, loopdev <- s4, procs <- s5,
    verdict <- s6, trouble <- s7

Trial == INSTANCE PolicyTrial WITH
    trial <- s1, suspend <- s2, client <- s3, record <- s4, helper <- s5,
    spoiled <- s6,
    N <- IsolatedClients

Receipt == INSTANCE MenuReceipt WITH
    receipt <- s1, temporary <- s2, run <- s3, handset <- s4, trials <- s5,
    seen <- s6, flashed <- s7

Boot == INSTANCE DualBoot WITH
    gpt <- s1, migrate <- s2, flasher <- s3, records <- s4, part <- s5,
    flashes <- s6, switch <- s7, phone <- s8, ran <- s9

Recovery == INSTANCE RecoveryControl WITH
    arm <- s1, script <- s2, phone <- s3, log <- s4, others <- s5, report <- s6

Idle == INSTANCE AndroidIdle WITH
    radios <- s1, pc <- s2, script <- s3, before <- s4, saidPid <- s5,
    returned <- s6, powered <- s7, armed <- s8, refusal <- s9

Policy == INSTANCE PolicyRead WITH
    reader <- s1, phone <- s2, sysfs <- s3, lines <- s4
=============================================================================
