----------------------------- MODULE HostTools -----------------------------
(***************************************************************************)
(* The programs of MCFieldTools that build on the PC what the phone will   *)
(* run, and the readers and recorders of the phone, whose records are      *)
(* judged on the PC; each in the slots of ToolSlots, as many as it has     *)
(* variables.                                                              *)
(***************************************************************************)
EXTENDS ToolSlots

CONSTANTS
    Nothing,                            \* no file, no device's backing
    ImageBuilders, LoopDevices,         \* of the userdata builder
    OthersImage,
    BundleRuns, Align, PayloadSizes, Budget,        \* of the menu's bundle
    PackageOperators, CandidateSets,    \* of the package builders
    PackageNames, DirectRoots,          \* of the closure of the base system
    ForbiddenNames, MaxOffers,
    Addresses, Asked, Signature,        \* of the register sampler
    MaxLines, MaxVersion, MaxSamples,
    MaxEvents, MaxUsbEvents, MaxEndpoints,          \* of the standby window
    Threshold, MaxSeconds, LongestSuspend,
    MaxTransitions, HookBoots,          \* of the sleep hook
    MaxTime, MaxRows, MaxView, LoggedSuspends,      \* of the battery recorder
    TracedPids, MaxReported, Duration,  \* of the battery triage
    MaxUsed, MaxStart, MaxRequests

Userdata == INSTANCE UserdataBuild WITH
    loops <- s1, files <- s2, bld <- s3,
    Builders <- ImageBuilders, Devices <- LoopDevices, Other <- OthersImage,
    None <- Nothing

Bundle == INSTANCE MenuBundle WITH
    kits <- s1, builder <- s2, bin <- s3, record <- s4, prepare <- s5,
    recipe <- s6,
    Builders <- BundleRuns, Sizes <- PayloadSizes

Packages == INSTANCE PackageBuild WITH
    agenda <- s1, tree <- s2, debs <- s3, lockOf <- s4, builder <- s5,
    published <- s6,
    Operators <- PackageOperators, Agendas <- CandidateSets

Closure == INSTANCE M0Closure WITH
    mirror <- s1, lists <- s2, acquire <- s3, plan <- s4, rows <- s5,
    cache <- s6, locked <- s7,
    Names <- PackageNames, Roots <- DirectRoots, Forbidden <- ForbiddenNames,
    MaxVersion <- MaxOffers

Regmap == INSTANCE RegmapRead WITH
    session <- s1, debugfs <- s2, chip <- s3, candidates <- s4, retained <- s5,
    sampled <- s6

Standby == INSTANCE StandbyWindow WITH
    stage <- s1, clock <- s2, window <- s3, pending <- s4, fresh <- s5,
    published <- s6, files <- s7, past <- s8

Sleep == INSTANCE SleepHook WITH
    machine <- s1, number <- s2, hookLog <- s3, lost <- s4,
    MaxBoots <- HookBoots

Battery == INSTANCE BatteryLog WITH
    clocks <- s1, power <- s2, bus <- s3, recorder <- s4, buffer <- s5,
    rowsOnDisk <- s6, lag <- s7,
    MaxSuspends <- LoggedSuspends

Triage == INSTANCE TriageCollector WITH
    procs <- s1, time <- s2, loop <- s3, tracker <- s4, requests <- s5,
    capture <- s6,
    Pids <- TracedPids, MaxTicks <- MaxUsed
=============================================================================
