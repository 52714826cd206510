SPECIFICATION ToolsSpec
CONSTANTS
    UnplugWait = 4
    Total = 6
    Stable = 2
    MaxMetadata = 4
    MaxCallbacks = 2
    ReadBudget = 14
    Nothing = Nothing
    RequiredPositives = 2
    Inhibitors = {i1, i2}
    MaxNow = 9
    MaxElapsed = 3
    StartLag = 12
    MaxResets = 1
    Programs = {p1, p2}
    Entries = {e1, e2}
    ImageBuilders = {b1}
    LoopDevices = {d1, d2}
    OthersImage = OthersImage
    PhotoClients = {c1, c2}
    MaxRuns = 3
    Thumbnailers = {r1, r2}
    Sizes = {1, 2}
    MaxVersions = 2
    N = 2
    Limit = 4
    Modulus = 9
    Warm = 2
    Pids = {1, 2}
    MaxClock = 5
    FirstSeed = 1
    MaxBoots = 2
    QuietTicks = 1
    SettleTicks = 1
    AwakeTicks = 3
    MaxResumes = 2
    IsolatedClients = 2
    MaxTrials = 2
    MaxCycles = 2
    Checkpoints = 2
    MaxWakes = 2
    MaxOthers = 3
    Dirs = {"host", "qcom"}
    Attrs = {"rpm_lvl"}
    BundleRuns = {"b1", "b2"}
    Align = 2
    PayloadSizes = {1, 2}
    Budget = 10
    PackageOperators = {"o1", "o2"}
    CandidateSets = {{"irq", "search"}, {"irq", "linear"}}
    PackageNames = {"a", "b", "c"}
    DirectRoots = {"a"}
    ForbiddenNames = {"c"}
    MaxOffers = 1
    Addresses = {0, 1, 2, 3, 4}
    Asked = {1, 2, 3}
    Signature = {1, 3}
    MaxLines = 5
    MaxVersion = 1
    MaxTransitions = 3
    HookBoots = 2
    MaxTime = 2
    MaxRows = 4
    MaxView = 3
    LoggedSuspends = 2
    TracedPids = {1}
    MaxReported = 1
    Duration = 3
    MaxUsed = 3
    MaxStart = 2
    MaxRequests = 1
    MaxSamples = 2
    MaxEvents = 1
    MaxUsbEvents = 2
    MaxEndpoints = 1
    Threshold = 2
    MaxSeconds = 4
    LongestSuspend = 2
INVARIANT CompleteIsWhole
INVARIANT UsableEvidence
INVARIANT StopTogether
INVARIANT StableUnplug
INVARIANT StandbyFinalTellsAll
INVARIANT GuardLetsSleep
INVARIANT SleepRecordsTrue
INVARIANT TriageCounts
INVARIANT ReadingsTrue
INVARIANT PhotoIsNew
INVARIANT ClockNotAhead
INVARIANT PartitionsOneCopy
INVARIANT MenuFlashQualified
INVARIANT PhoneAsFound
INVARIANT CleanupsDone
INVARIANT ArtifactsTrue
INVARIANT ThumbnailTrue
INVARIANT SeedHolds
INVARIANT ImageTrue
INVARIANT CaptureEndsClean
INVARIANT QuietWhenAsked
PROPERTY Stops
PROPERTY WaitsEnd
PROPERTY SwitchTrue
PROPERTY OwnDetached
PROPERTY BufferFree
CHECK_DEADLOCK FALSE
