# Verification of the lmi Linux port

The repository brings Linux 7 and Mobian/Phosh to the Xiaomi POCO F2 Pro (lmi).
Most of it is kernel patches, configuration and records of trials.  The logic of its own
is in the programs that run on the phone, the programs that measure it, and the builders
and installers on the PC.  This directory models those in TLA+, checks the models with TLC
on small instances, and proves with TLAPS what matters most for every instance.

Paths below are relative to the repository's root.

## Components

Programs that act together, or with systemd and the user:

| Component | State it keeps | Operations | What makes it hard |
|---|---|---|---|
| NPU suspend policy, `userspace/power/scripts/lmi-npu-suspend`, its sleep hook and `ExecStopPost` drop-in | governor of each devfreq node; recovery record and flock in `/run` | `pre`, `post`, `recover` | killed or failing between two writes; systemd and root run it at the same time; others change governors; reboot |
| Camera application and preview publisher, `userspace/camera/files` | window's wish and generation, control threads, GLib idle queue, foreground lease, unit state, `live.json` | focus changes, start and stop jobs, publishing | three processes and several threads; late answers; a unit on its way out |
| One-shot capture service, `userspace/camera/files/lmi-camera-capture-service.py` | `latest.ppm` and `latest.json`, the unit's job | take, replace twice, save | several applications share one job; two files that change one after the other; timeouts on both sides |
| Private camera runtime, `userspace/camera/diagnostics/camera-test-*.py` | mounts, loop device, three child processes | acquire, note, remove in reverse | a signal between acquiring a thing and noting it; steps of the removal that fail |
| Camera HAL client, `userspace/camera/diagnostics/camera-module-capture.c` | buffers in flight, fences, the answers of the HAL, saved picture | submit, wait, take back, save, flush, clean up | the HAL's threads call back at any time, late or never; descriptors that must be closed once |
| Snapshot launcher and V4L2 producers, `userspace/camera/snapshot-bundle`, `userspace/camera/diagnostics/native-pipewire-v4l2*.c` | lease, streaming state, saved media-link and pad formats, buffers | configure, stream on/off, lease tick, restore | partial set-up, signals, lease written by one program and parsed by another |
| Phosh home shortcuts, `userspace/phosh/home-drag-candidate` | two GSettings lists; drops that wait for an idle callback | drag, home-remove, favorite-add, favorite-remove | a drop is computed at one time and applied at another; two keys change together |
| USB PC guard, `userspace/mobian-clean-linux7/battery-triage/lmi-usb-pc-guard.py` | inhibitor child, run of positive samples | poll, start, release | the cable moves between two reads; a child that exits by itself or does not end |
| Clock anchor, `userspace/power/clock/rtc-time-anchor.py` | anchor file and its `.new` | capture, evaluate, restore | the clock is set during a capture; the counter restarts; a crash between creation and rename |
| Time seed, `build/userdata/profiles/time-seed` | seed file and temporary files | restore at boot, save by timer and at shutdown | power lost at any step; pids used again; the clock moves while it is compared |
| Photo previews, `userspace/apps/files/lmi-photos-thumbnails` | thumbnails, each labelled with its picture's time and size | look, convert, look again, publish | the picture changes meanwhile; two runs at once |
| Battery application, `userspace/power/battery-app` | rows of a session, a buffer | record at minutes and sleep signals; analyze | frozen with a signal unread, or between the two clocks of a row; flushes that fail |

Programs that measure the phone, each once, and leave evidence:

| Component | State it keeps | Operations | What makes it hard |
|---|---|---|---|
| Gauge read control and observer, `userspace/power/diagnostics/gauge-read-control-candidate` | phase, deadlines, budgets, log | arm, poll, sleep and wake signals, finish | deadlines against a clock that runs in sleep; two budgets and two stop reasons; a sink that fails; power lost |
| Gauge evidence analysis, `analyze_read_control.py` there | none: rows in, conclusion out | | its own copy of the protocol; logs cut anywhere |
| Standby window collector, `userspace/power/diagnostics/collect-matched-standby-window.py` | bounded lists with counters, last result, output file | sample, record, checkpoint, finish | a signal between any two steps; copies and live lists in one document |
| Battery triage sleep hook and comparison | append-only log | note before and after a sleep; pair | records lost in silence; reboots |
| Battery triage collector and analysis | previous ticks by process identity, cache, rows | sample, timers, logind calls, stop | PIDs used again between two passes; callbacks due at once |
| UFS policy report, `userspace/power/diagnostics/ufs-policy-read.py` | one report | guard, list, read, classify | refusals look like absences; entries that come and go |
| Charger register sampler, `kernel/experimental/linux7/tools/pm8150b-charger-targeted-read.py` | geometry of a debugfs file | resolve, sample | offsets by arithmetic in a file with lines missing |
| Suspend policy prototypes, `kernel/diagnostics/power/scripts/lmi-*.py` | recovery record, bounded unit | apply, pre, post, restore | no lock: hook and `ExecStopPost` together; kills |
| Gauge resuspend trial, `userspace/power/diagnostics/gauge-resuspend-trial.py` | its alarm, last input, handled resumes | wait, suspend, judge the resume, look again, ask | the user, the cable, inhibitors and other alarms at any time, also between the last look and the call |
| Recovery control, `userspace/power/diagnostics/recovery-control` | alarm, governors, sleep switch, log | arm, measure, restore, fetch | `set -e`, traps and signals at any step |
| Android idle trial, `userspace/power/diagnostics/android-idle-trial.py` and its script | radios, script on the phone | arm, baseline, return | the PC loses the phone at any command; who restores what |

Programs that build and install:

| Component | State it keeps | Operations | What makes it hard |
|---|---|---|---|
| Dual boot migration and switch, `build/dualboot/migration` and `build/dualboot/switch-os.py` | two copies of the partition table, flash records | four writes, two flashes, switch | power lost between two writes; repeated runs; "it started" said of the wrong system |
| Permanent boot menu, `build/boot-menu/permanent` | receipt | record, verify, install | two programs read, change and write one file without a lock |
| Boot menu bundle and recipe | container, its record, recipe, manifest | assemble, prepare, verify | two builds of one directory; files half written |
| Package builders, the twelve `build-packages.py` | shared source trees, changelogs, stamps, objects | patch, compile, publish | incremental builds over each other's sources; kills; who takes which lock |
| M0 package closure, `userspace/base/scripts/acquire-m0-closure.py` | plan, rows, cache, lock file | resolve twice, download, verify, lock | the archive changes while it runs |
| Userdata image build, `build/userdata/build-derived-userdata.sh`, `lib/loop-cleanup.sh` | loop devices, mount, package policy, outputs | attach, change, check, publish, clean up | trap, signals and kills; devices of others; a failed command that did its work |

Not modelled: the gralloc bridge, the Wi-Fi start, the observation initramfs, profile
staging and image verification, the camera and memory probes, the CPU idle switch, the
panel driver, kernel patches, device trees and configurations, the other image build
scripts (see *Not modelled*).

How they interact: systemd runs the NPU policy around every sleep, and root may run it at
any time; all runs share the flock and the record.  The camera application and the
publisher share the lease (written by the application), the frames and their description
(written by the publisher) and the unit's state, which both systemctl and the publisher's
exit change; the publisher and the capture service run the private runtime, and in it the
HAL client, whose picture they publish.  The home's
drops, menus and the shell share two GSettings keys.  The gauge observer and the analyzer
share a log and a protocol that each has its own copy of; so do the sleep hook and its
comparison, the triage collector and its analysis, the battery recorder and the page, the
recovery script and the fetch.  The package builders share source trees and locks; the
bundle builder and the recipe share an output directory, the two boot menu programs a
receipt.  Everything else stands alone, with the phone, the user and the kernel around it.

What makes each correct:

- *NPU policy*: no node is left at zero bandwidth without the means to undo it;
  every suspend is followed by the original policy; what others selected stays.
- *Camera*: the camera runs when, and only when, its window is in front; the
  window never waits for ever, and shows what is delivered; a photo is of the run it was
  asked of, and one whole frame; a runtime that is said to be removed is.
- *Snapshot*: whatever ends the program, the media chain is as it was; frames flow
  only under a live lease, and do flow then.
- *Home shortcuts*: a gesture changes one shortcut, at once; no duplicates, no sixth
  favorite, no lost slot.
- *Clock*: neither the anchor nor the seed puts the clock ahead or loses time saved.
- *Previews*: the label of a preview is that of the version it shows, so that a viewer is
  misled only by two versions of one second and one size.
- *Measurements*: what a log or a report says happened, whatever was lost of it; nothing
  is read that should not be; the phone is as it was found.
- *Installers*: at no step is the phone without a valid table, is a partition written
  twice or without its qualification, or is an artifact published that is not what its
  record says.

The hazards behind these are listed, each at its line, in `PROJECT.json`.

## Modules

| Module | Models | |
|---|---|---|
| `NpuSuspend`, `MCNpuSuspend` | `lmi-npu-suspend`, the hook, the drop-in, systemd's unit cycle, devfreq | safety, liveness |
| `LmiCamera` | `lmi-camera.py`, `lmi-camera-preview-service.py`, the unit | safety, liveness |
| `LmiSnapshot` | `lmi-snapshot` in V4L2 mode, `native-pipewire-v4l2-bayer-source.c`, the CAMSS chain | safety, liveness |
| `HalCapture` | `camera-module-capture.c`: its main thread and the HAL's | safety, liveness |
| `HomeShortcuts` | what the home promises: sets of shortcuts, one gesture a step | abstract |
| `HomeDrag`, `MCHomeDrag` | `lmi-home-order.h`, `lmi-home-dnd.h`, `home-remove.inc`, the menu entries | implements `HomeShortcuts` |
| `GaugeObserver`, `GaugeAnalysis`, `GaugeEvidence` | the observer with its probe; the analyzer, as operators on a log; both, with the loss of power between them | safety, liveness |
| `StandbyWindow`, `UsbGuard`, `SleepHook`, `TriageCollector`, `PolicyRead`, `RegmapRead`, `PolicyTrial`, `PrivateRuntime`, `CameraCapture`, `RtcAnchor`, `ResuspendTrial`, `BatteryLog`, `RecoveryControl`, `AndroidIdle`, `DualBoot`, `MenuReceipt`, `MenuBundle`, `PackageBuild`, `M0Closure`, `Thumbnails` | one program, or the few that share a file, each | safety |
| `UserdataBuild` | the userdata builder and its loop helpers | safety |
| `TimeSeed` | `lmi-time-seed`, its three units, the image's hook | safety |
| `ToolSlots`, `PhoneTools`, `HostTools` | the slots that hold a program's variables; the instances of the programs that run on the phone, or flash, try or read it from the PC, and of the builders and recorders, with their constants | |
| `MCFieldTools` | the gauge, those twenty, `HalCapture`, `UserdataBuild` and `TimeSeed` in one run | |
| `NpuSuspendProofs`, `LmiCameraProofs`, `LmiSnapshotProofs`, `HomeDragProofs`, `GaugeObserverProofs` | | TLAPS |
| `PhoneToolsProofs`, `HostToolsProofs`, `FieldToolsProofs` | the invariants of the programs of `PhoneTools` and `HostTools`; the theorems about `MCFieldTools` | TLAPS |

### NpuSuspend

A process is a run of the script: `pc` is the step it is at and `job` its locals.
`Enter` and `Admit` are the beginning of `main()` up to the `Node` objects (whose
path is fixed there, `job[p].path`); `Load`, `RestoreRead`, `RestoreWrite`,
`RestoreConfirm`, `RestoreEnd` and `Unlink` are `recover()` with `restore_all()`;
`Inspect`, `Create`, `Save`, `ApplyWrite`, `ApplyConfirm`, `Undo` and `ApplyEnd` are
`apply_all()` with `save_state()`.  A step is a run of the code in which at most one
thing others can see changes; the reads before a write form one step (`RestoreRead`),
so the window between look and write is there.  The record is absent, created but
not written, or complete.  `systemd-suspend.service` goes through `Suspend`, `Resume`,
`StopPost` and `UnitDone`, or is stopped under the hook (`StopUnit`).  `Kill` ends any
run, `Reboot` clears `/run` and resets the governors, `External` changes a governor, a
limit, or the device a class link resolves to.  The order of the nodes in a loop is
left open, which covers every order the dictionary could have.

Faults: `refused` (a write fails and changes nothing; also the write of the record),
`unapplied` (devfreq stores the governor and fails before its first target) and
`kill`.

### LmiCamera

The GTK thread's handlers (`Foreground`, `Background`, `Idle`, `PollPreview`, `Close`)
run to the end.  Control threads wait in `waiting`; the one with `control_lock` is
`ctl`, and its reads of `want_preview` and of the generation, its `systemctl` call and
its return are separate steps (`CtlDesired`, `CtlGeneration`, `CtlCall`, `CtlReturn`,
`CtlTimeout`, `CtlRefused`).  systemd is `StartJob`, `StopJob` and `UnitExit`: a start
of an active unit does nothing, a start of a stopping one waits, a stop cancels it.
The publisher goes through `Boot` (old files are removed), `Check` (lease, then
`READY=1`), `Publish`, `LeaseLost` or `BackendFails`, `Drain` (end marker) and `Exit`.
`SIGTERM` before its handler is installed ends it with no marker (`Terminated`).

The lease needs no variable: its age stays under four seconds while the application
renews it each second, and its content is `want_preview`.  Clock values are kept as
the comparisons the code makes with them: whether the description of a frame is newer
than `live_started`, and whether four seconds have passed since `start_preview()`.
`preview_control_ready()` sets `live_started` to a second ago, so that afterwards the
description may be on either side: `\E o \in BOOLEAN`.

Faults: `backend` (no frames, the camera program ends), `killed` (publisher or
application), `timeout` (systemctl takes over 15 seconds), `refused` (systemd's start
limit).  A stop that systemctl refuses is left out.

### LmiSnapshot

The launcher is `lau`: it waits for its producer (`wait`), shows a notice, runs its loop,
or is on its way out (`final`, `reap`).  The producer of a launch is `src[l]`; its steps
are those of `main()` in the order of the code, from `SaveFormats` to `RestoreFormats`, and
every failure takes the exit the code takes: before the links are both enabled nothing is
restored, afterwards everything is.  `SIGTERM` ends a producer at once until `Setup` has
given it to the loop, and is read by the loop afterwards.  A killed launcher frees its
lock, leaves its lease and has `SIGTERM` sent to its producer, so that a second launcher
can meet it; that is why `src` has a slot per launch.  The lease is a text of tokens,
written as `json.dumps` writes it and searched as `strstr` searches.

From the kernel the model takes that a queue with buffers belongs to one open file and
that the links of a chain that streams cannot be changed; the formats of the four blocks
are one value.  `lost` records which part of the chain no producer will give back: a
restoring step failed, the program died while it had the chain, its second link was
refused, or it saved the formats while another producer still had them.

### HalCapture

`prog` is the thread of `main()`: `Reset` and `Request` hand a buffer to the HAL, `Wait` is
the wait for the result under `capture_mutex`, `Fence` that for the release fence, `Image`
the picture, `Advance` and `Turn` the loop, `CloseDevice` and `Release` the end.  The HAL
gives a result, with a fence or without (`Result`), finishes writing a buffer it gave back
early (`Signal`) and reports errors (`Notify`), at any time and in any order; a fence is the descriptor
of its frame, and `fences` says whether it is open, closed or closed twice.  `still` and
`sequence` go frame by frame on one buffer, `pipeline` and `foreground` keep `N` in flight.
The frame number wraps at `Modulus`.  `trouble` records that something failed outside the
client: a run in which it stays `FALSE` must succeed.

### HomeShortcuts and HomeDrag

The functions of `lmi-home-order.h` are operators that give the set of their results,
empty for `NULL`.  `DragReceived` is `lmi_home_drag_received()` with every origin and
target; it queues a drop with the lists it was computed from.  `DropApply` is the idle
callback: it compares, then commits both keys or none.  `OtherWrites` is any other
writer of the settings.

`HomeShortcuts` keeps only which applications are in the dock and on the home, and lets
a step copy, remove or transfer one.  `OneGestureOneShortcut` is its specification under
the mapping from lists to sets: reordering, a stale drop and a refused write are
stutters; a transfer whose two sides came apart, a shortcut lost or duplicated by a
displacement, or a drop that overwrites what happened since, would be none of its steps.

### GaugeObserver, GaugeAnalysis and GaugeEvidence

One event loop: a handler runs to its end and is one action (`Arm`, the four `Poll...`,
`PrepareSleep`, `Resume`, `AdapterExit`).  What a handler reads (the cable, the gauge, the
clocks) is chosen at each read, with every way the code can reject it; the monotonic clock
appears as the reasons it leads to, `boot` is CLOCK_BOOTTIME.  The probe a resume runs goes
through its reads one by one until one ends it, or not.  `out` is what the sink was given
and what the log holds; an append may fail or leave a torn line, and then the sink is
closed.  `GaugeAnalysis` has the analyzer's verdicts as operators on a log, whose rows are its positions;
`GaugeEvidence` adds `PowerLoss`, which cuts the end of the log anywhere, and relates both.

### The measuring programs

- `StandbyWindow`: `main()` of the collector as stages; a signal may come between any two.
  `published` keeps what `build_result()` copied; a document is completed with the live
  lists when it is written, which is the code's aliasing.
- `UsbGuard`: a poll reads the signals in two steps, the cable moves in between; `update()`
  and `release()` are whole.
- `SleepHook`: appends that may be lost or cut; `compare()` is a fold over the log.
- `TriageCollector`: the GLib loop with its sources that may be due together; a sample is
  the pass over the processes and then the row, and a PID may be used again in between;
  `analyze()` is a fold.
- `PolicyRead`: the guard's answers, the snippet on the phone line by line against a driver
  that moves entries and a policy that refuses, then the parser's verdicts.
- `RegmapRead`: a debugfs file is the addresses of its lines; the geometry is inferred from
  the first two, as the code does, and a read is checked against the line it finds.
- `PolicyTrial`: the unit, the hook and `ExecStopPost` each as a helper with a program
  counter; kills and refused writes anywhere, no lock.
- `PrivateRuntime`: `Acquire` and `Note` are two steps for each thing, so that a signal may
  fall between; the three programs differ in their list of stages.
- `CameraCapture`: one job of the unit, the clients that wait for it; a picture is the
  number of its run.
- `RtcAnchor`: time in half seconds, clocks in quarters, counters in seconds with their
  rounding; capture and restore are separate programs, with `Synchronised`, `Restarted` and
  the counter's reset between their steps.
- `TimeSeed`: what the programs see on the disk is one variable, what a
  loss of power leaves of it another; `Sync`, the last step of a save, makes them one.  A
  run of the script is its steps, each of which may fail into its trap, be killed by
  systemd, or lose its power; `Tick` and `Discipline` are the clock and whoever sets it.
- `Thumbnails`: a picture is a number of its versions, each with a time and a size; a label
  is the whole second and the size, and `run` are the runs that look, convert and publish.
- `ResuspendTrial`: the program's waits and looks as steps, with everything the user, the
  cable, logind and other alarms may do between two of them: a turn of the loop (`Turn`),
  the decision (`Decide`), the last read of the inputs (`Again`), the last check with the
  cable (`FinalCheck`) and logind's call (`Request`).  logind answers before the phone sleeps
  (`sleeping = "asked"`), and the phone may also be put to sleep by others.
- `BatteryLog`: the recorder's two clock reads are two steps; a freeze by suspend may fall
  between; `analyze()` is a fold over the rows the view loads.
- `RecoveryControl`: the script under `set -e`: every test that is false goes to the trap;
  a signal at any step, also in the restoration.  The restoration runs without `set -e`:
  each of its writes may be refused (`refused`), and the next one is made all the same.
- `AndroidIdle`: the PC's commands and the script's waits; each command may fail with its
  effect done or not.

### The installers and builders

- `DualBoot`: the partition table is four parts (two tables, two headers with the checksum
  of their table); a copy is whole when its header fits its table.  Writes can be torn, and
  the whole migration started again.  The flashers leave stages in a record.  `switch-os.py`
  asks the phone which system runs, reboots it and confirms.
- `MenuReceipt`: a run of either program holds the receipt it has read; `save_receipt()` is
  three steps on a temporary file that all programs share.  `shown` and `seen` are what the
  phone has really started: Mobian directly, and each entry.
- `MenuBundle`: the container is the sequence of its bytes, so that offsets, padding and
  lengths are those of `bundle-format.h`; a checksum of bytes is those bytes.
- `PackageBuild`: a source tree has its sources, its changelog's version, its stamp, and
  what its objects were compiled from: an incremental build takes the objects that the
  stamp calls up to date.
- `M0Closure`: the mirror moves under the program; each download finds it as it then is.
- `UserdataBuild`: one action for each command or group of commands with one effect, on the
  image (`work`), the mount, the loop device and the names in `outputs/`.  Any command may
  fail (`Interrupted`), and the trap then runs `CleanMount`, `detach_owned_loop()` again and
  `Remove`; a kill ends it there.  `losetup --detach` may do its work and report a failure,
  or the reverse; `Other` is anybody else's image on a device.  The helpers compare the path
  of the backing file that the kernel gives for a device: here a device has an image, and
  two images are the same or not.  `CleanMount` runs without errexit: a policy whose restoring
  fails is not reported, a mount that is not its own is.

### MCFieldTools

Twenty-four programs that share no state are checked together: a behaviour chooses one and
stays with it, so the states are those of twenty-four instances side by side and none is
multiplied with another.  The gauge has variables of its own; the others live in the slots
`s1` to `s10`, put in place of their variables by `INSTANCE ... WITH`, which also gives the
bounds.  A property of the run is that of the module for its program; a few of one kind
are stated together, each program's part as a conjunct.

## Runs

| Run | Instance | Shows |
|---|---|---|
| `npu_safety` | 2 nodes, 2 paths, systemd and one shell, 2 faults, 2 changes by others | `WriteAhead`, `ExternalPreserved` |
| `npu_live` | 2 nodes, systemd only, 1 fault (`refused` or `kill`) | `AwakeRestored`, `Restored` |
| `npu_manual_pre` | 1 node, one shell in mode `pre` | `RestrictedToSuspend` is violated |
| `camera` | 4 focus changes, 1 fault of any kind | `BackgroundSound`, `LastAnswerCounts`, `Stops`, `ControlSettles` |
| `camera_stale_failure` | 3 focus changes, no fault | `ReadyIsShown` is violated |
| `camera_lost_resume` | 3 focus changes, no fault | `ResumeNotLost` is violated |
| `snapshot` | 2 producers at once, any number of failures, kills and restarts | `ChainReturned`, `StreamsSound`, `NoOrphan`, `Paused` |
| `snapshot_follows` | 1 launch at a time | `FollowsLease` is violated |
| `home_drag` | 3 applications, 3 slots, a dock of 2, one waiting drop, one foreign write | `ShortcutsSound`, `OneGestureOneShortcut` |
| `home_drag_present` | 3 applications, 2 slots, a dock of 2 | `PresentPermits` is violated |
| `tools` | one of twenty-four programs, each on its instance (below); 2.2 million states | 26 properties (below) |
| `standby_lengths` | lists of one entry (of two cable events), a window of 4 | `LengthsReported` is violated |

What `tools` shows:

| Property | Of | Says |
|---|---|---|
| `StableUnplug` | `GaugeObserver` | no gauge is read before the cable has been out for the required time without interruption |
| `StopTogether` | | when the probe has stopped for good, so has the engine |
| `Stops` | | the observer ends, unless the power goes |
| `CompleteIsWhole` | `GaugeEvidence` | a log the analyzer calls complete has every row of the engine and its own end |
| `UsableEvidence` | | the observer's and the analyzer's protocol agree on which probes count, and those were taken on battery |
| `StandbyFinalTellsAll` | `StandbyWindow` | the final document tells every second asleep and the first unplug and replug, however small the lists |
| `GuardLetsSleep` | `UsbGuard` | one inhibitor at most; none after a poll without a PC or when stopped |
| `SleepRecordsTrue` | `SleepHook`, `BatteryLog` | one lost record never makes a false pair of the rest; the page never shows more sleep than there was |
| `TriageCounts` | `TriageCollector` | no process is given time it did not use; nothing is sampled once the capture is over |
| `ReadingsTrue` | `PolicyRead`, `RegmapRead` | a refused or failed read is never reported as an absent attribute; a row holds values of the registers it names, read during its sample, or blanks |
| `PhoneAsFound` | `RecoveryControl`, `AndroidIdle`, `PolicyTrial` | a trial leaves the phone as it found it, whatever ends it, but where the restoring write itself was refused or not confirmed: governors, sleep mode and alarm, radios, the clients of the prototypes, with a record before any is isolated |
| `CleanupsDone` | `PrivateRuntime`, `UserdataBuild` | a removal that is announced is complete, and a builder's clean-up that reports no failure has left no mount and no device |
| `OwnDetached` | `UserdataBuild` | no device of others is detached |
| `ArtifactsTrue` | `MenuBundle`, `PackageBuild`, `M0Closure`, `UserdataBuild` | a verified recipe pins one build's container; a published candidate was compiled from its own sources; the lock is one closed resolution with its archives; a userdata image that is there passed every check and is whole, the sparse one if no second build of the version has begun |
| `PhotoIsNew` | `CameraCapture` | a photo is not from before the run it was asked of |
| `ImageTrue`, `BufferFree`, `CaptureEndsClean` | `HalCapture` | a saved picture is the whole frame it says; a buffer changes hands only when the camera has done with it; every fence is closed once, and success is said of a run that drained all it had queued |
| `ThumbnailTrue` | `Thumbnails` | a preview carries the second and the size of the version it shows: one that a viewer accepts for a picture shows it, or an earlier version of the same second and size |
| `ClockNotAhead` | `RtcAnchor` | a restored clock is at most a second ahead |
| `SeedHolds` | `TimeSeed` | the saved time never goes back, a restored clock is not before it, and nothing is left in the way of a later save but by a kill or a loss of power |
| `QuietWhenAsked` | `ResuspendTrial` | when the trial asks for a suspend, no input its reads could see is younger than the quiet time; it asks once for a resume, which was the gauge's unless the phone has slept since |
| `PartitionsOneCopy`, `SwitchTrue` | `DualBoot` | a whole table at every instant, one flash of each partition; a switch is confirmed only of the right start |
| `MenuFlashQualified` | `MenuReceipt` | no flash before the menu started Mobian directly and every entry was tried |
| `WaitsEnd` | `StandbyWindow`, `HalCapture` | the collector ends; the HAL's client comes to its end or stays in a call into the vendor's library: no wait of its own, for an answer, a fence or a drain, holds it |

Why the bounds are enough to be of interest:

- *NPU.*  Two nodes give a loop that fails on one and succeeds on the other.  Two faults
  give a failed recovery of a failed apply.  Two paths and two changes by others let a
  device be rebound under a process that holds its old path, and back.  The unit's cycle
  repeats without bound.  The liveness run leaves out the shell and the changes by
  others, because the code promises nothing with them: a manual run can hold the lock
  through `post` and `ExecStopPost`, and recovery respects what others selected; it leaves
  out `unapplied` because a governor that reads `performance` is never written again.
- *Camera.*  Four focus changes are enough for a control thread to be overtaken twice and
  for a publisher to meet its successor's start job.  One fault: each fault by itself
  must be harmless.  Deadlock checking is off because a closed application stops.
- *Snapshot.*  Nothing is counted: failures, kills and launches repeat without bound.  Two
  producers are one of a killed launcher and one of the launcher after it; with a third,
  two of them would have lost their launchers.
- *HAL client.*  With two buffers and four frames each buffer goes round twice while the
  other is in flight; 9 is the smallest modulus `HalAssumption` allows, so
  that the endless mode comes to its end, short of the wrap.  The HAL may answer out of order, late,
  with errors, or not at all, and may leave a fence unsignalled.  With the code's three
  buffers (and 11; 858746 states) the same properties hold.
- *Time seed.*  The first boot leaves files and pids for the second; the clock has three
  seconds, so that it can be before, at and after the seed, and be set back once it was saved.
- *Home.*  Three applications in a dock of two and three slots let a dock be full, a slot
  be occupied, and the displaced shortcut find room or none.  A second waiting drop is
  another writer to the first one, and foreign writes produce every list a second drop
  could commit in one key; with two waiting drops, 2 slots and no foreign write
  (561711 states) the same properties hold.
- *Tools.*  Time limits are a few units long, enough for each deadline to be met, missed
  and met by a sleep.  The gauge has two probes (a treatment and a control), a metadata
  budget that can run out, and a read budget of one whole probe.  Lists of the standby
  window hold one entry, so every second event is dropped, and the list of cable events
  two, which is the least that keeps the first; two samples of a cable event and a
  suspend fit.  The hook has three transitions over two boots, so that a record of
  the first can meet one of the last.  The triage has one PID used by two processes over
  three samples.  The policy report has the two places an attribute may be.  The sampler
  has files of up to five lines with every set of lines missing, and a signature that is
  partly asked.  The policy trial has two clients and two trials, so that a record left by
  the first meets the second; two suspends.  The photo has two applications and three runs:
  one before, one shared, one after.  The anchor has two captures' time and one reset; the
  clock starts three seconds behind.  The resuspend trial has two suspends in three
  ticks awake, with a quiet and a settling time of one tick each: an input is then old
  enough, too young, or unread at each look.  The battery view shows three of four rows.  The
  recovery control has two checkpoints, two wakes and three acts of others.  The receipt
  has two programs and two entries, the bundle two builders with components of one or two
  bytes in blocks of two, the packages two operators and the candidates that patch the same
  trees in both orders, the closure three names with one forbidden and one change of
  version.  The previews have two runs, a picture with two versions and two sizes: the
  version may change before, between and after the two looks of either.  Nothing else is
  counted.  Deadlock checking is off because the programs end.
- *Userdata.*  One builder and an `Other` that takes and leaves devices: another build with
  another version has files of its own and is an `Other` to this one.  Two devices let one
  be attached without being attributed while another is in use.

Fairness.  A started process of the NPU script runs on and systemd takes a unit it has
started to its end (weak fairness of `Run(p)` and of the unit's steps); nobody has to
suspend, and no fault has to happen.  The camera's GTK loop, threads and publisher run
on, the clock moves (`Settle`), and a publisher with a lease keeps publishing; systemd
runs its jobs.  The producer's steps and timers, the launcher's turns with an answer from
the screen, and its clean-up run on; no signal has to come and nobody has to close the
notice.  The HAL client's main thread runs on between its calls into the
vendor's library (`Own`), each of its waits having an end.  The camera owes it nothing, and no
such call need return: the program's head says that `flush()` and `close()` can block, so
`WaitsEnd` lets the client stay in a call, and leaves that to its caller's timeout.  The
gauge's timer fires and time passes while the observer lives; the standby collector's loop
takes its steps.  None of it is more than a scheduler, a timer and
systemd's own timeouts give.  The user, the cable, the power and the faults have no
fairness.

### What the violations show

- `npu_manual_pre`: a manual `pre` that starts while the unit is activating is admitted,
  and applies the policy after the unit is done.  The state of the unit is asked once
  (`pre_allowed()`), and nothing holds it.
- `camera_stale_failure`: `preview_failed()` does not compare generations.  The user
  leaves and comes back while a start fails: the failure, delivered late, clears
  `live_running` of the new preview.  The camera runs, the window stays dark.
- `camera_lost_resume`: the publisher sees the lease lost and is on its way out while the
  unit is still active.  The user comes back before a control thread has asked for a
  stop; `systemctl start` returns at once; the unit exits and nobody starts it again
  until the window loses and regains the focus.
- `snapshot_follows`: the launcher writes `"active": true`, the producer looks for
  `"active":true`.  Every lease reads as inactive: the producer pauses at its first look
  and the application keeps a node without frames.
- `home_drag_present`: the last favorite, also on the home, cannot be dragged from the
  home onto the dock's background, although it could onto its own icon.
- `standby_lengths`: the signal handler writes the last result, whose lengths were counted
  when it was built, with the lists as they are now: an event recorded since is in the list
  and not in the length that is reported for it.

Three more such disagreements are only noted, under their hazards.  The resuspend trial's
report says it asks for a suspend only with USB offline and six seconds without an input;
between the last reads of the two and logind's call it writes and syncs a row, and an input or
a cable that comes then does not stop the suspend (`Request` may follow a `Touch` or a `Cable`;
`QuietWhenAsked` speaks of what the reads could see).  `lmi-time-seed` compares
the clock with the seed and then has `date -s` set it: a clock that passes the seed in
between is set back by that much, although the profile's README says it never is.  The
userdata builder looks for existing outputs once, at the beginning: two builds with one
version that run together both find none, and the `mv` of the later one replaces what the
earlier one has published.

## Proofs

Each proof module EXTENDS its component's module and TLAPS, states an inductive invariant
as a conjunction of named parts, and shows it with one step for each action.

`NpuSuspendProofs` proves for every finite or infinite set of nodes, paths and shells,
every set of fault kinds and every bound:

- `TypeCorrect`: `Spec => []TypeOK`.  `TypeOK` is inductive; it is split into what the
  helpers `Goto`, `Quit`, `Spawn`, `Done` and `Undo` touch (`ProcType`) and the rest
  (`HostType`), with a lemma per helper.
- `WriteAheadHolds`: `Spec => []WriteAhead`.  `WriteAhead` alone is not inductive: that
  `Unlink` is safe depends on what a process found several steps earlier, and on nobody
  else having been at work since.  `IInv` adds the exclusion of the flock (`LockInv`: a
  process past `start` holds it) and what each step knows (`StepInv`): no record before
  `Create`, a partial one at `Save`, a complete one for the process's own paths while it
  applies, and clean nodes for those `restore_all()` is done with unless one failed.
  A step of one process leaves the others' part alone because they are at `idle` or
  `start`; an external change never selects `powersave`; a rebound device starts with
  `performance`, and a record that names its old path is then not needed for it.
- `AwakeHolds`: `Spec => []AwakeRestored`.  `AwakeInv` says, when systemd is alone with the
  script and at most one thing went wrong (`Alone`): the nodes a run is done with are
  restored (`Undone`); if nothing went wrong yet, the run after the sleep leaves nothing; in
  any case the last run of the unit does, since one failure is no more to come.
- `ExternalGovernorPreserved`: `Spec => ExternalPreserved`, in two halves.  Only
  `RestoreWrite` and `ApplyWrite` replace a governor of others, each by a process that
  has looked at the node and not written yet (`Racing`); and a process comes to such a
  step only by a look that found a governor of the script's own (`RunLooks`, one step
  per action).

`LmiCameraProofs`: `Spec => []BackgroundSound` and `Spec => []LastAnswerCounts`, for every
bound on the focus changes and the faults and every set of fault kinds.  Neither is
inductive: whether the unit stops depends on which thread has read which wish.  The
invariant follows the chain of responsibility: `LiveWanted` (a preview in the window is
wished for), `StopUnderway` (no wish and a unit that runs: some thread waits, has read the
absent wish, or systemd is at a stop), `ResultOfStart` (what an answer in the queue or in a
thread's hands means for the unit), and `AnswerUnderway` (a window that waits for a start:
an answer of its generation is in the queue, or a thread will give it).

`LmiSnapshotProofs`: `Spec => []StreamsSound` and `Spec => []ChainReturned`, for every finite
set of launches.  `ChainInv` says, of each producer, what it owns of the chain at its step
(`Owned`, `Staged`, `Holding`), that a producer past `Configure` is alone to hold it, since
the queue's buffers belong to one open file (`Alone`, for each pair), and what is still owed:
the links (`LinksOwed`) and the formats (`FormatsOwed`) are either as at boot, or some
producer has them saved, or are recorded in `lost`.

`HomeDragProofs`: `Spec => []ShortcutsSound`, and `Spec => OneGestureOneShortcut`, that is,
`HomeDrag` implements `HomeShortcuts`, for every set of applications, every number of slots,
limit of the dock and number of waiting drops.  `DragInv` says that the two lists have no
duplicates and keep their sizes and that every drop in the queue is one gesture of the sound
lists it was computed from (`Gesture`).  A lemma for each list operator says what it does to
the set of its list; a commit whose comparison holds is then the step of `HomeShortcuts`
that the gesture names, and everything else is a stutter.

`GaugeObserverProofs`: type correctness, `StableUnplug` and `StopTogether`, for every value
of the six limits.  `GaugeInv` relates the candidate of an unplug with the history of the
readings, through every poll and every reading in a sleep signal, and the reasons of the
probe with those of the engine, through the whole course of a probe.  Then, with the loss of
power, `EvidenceSpec => []CompleteIsWhole` and `EvidenceSpec => []UsableEvidence`: what the
analyzer concludes is true of the observer that wrote the log.  `EvidenceInv` says that a sink
that never failed has every row, that an end in the log is its last row and the engine's own,
that an engine that observes has its unplug in the log and no replug, and what a record of a
probe can be (`ProbeSound`: its index, its mode, and when it is complete).  `RowsCut` is the lemma that a
log cut anywhere, perhaps inside a line, keeps what was said of its rows; `QualityFollows`
that the analyzer's copy of the protocol finds no fault with a probe the observer completed.

`FieldToolsProofs`: twenty theorems about the programs of `MCFieldTools`, for every value of
the constants they have there.  Each program has its inductive invariant at the end of its own
module, below its properties, so that TLC can check it there; `PhoneToolsProofs` and
`HostToolsProofs` prove that its steps keep it, and `FieldToolsProofs` that a behaviour takes
the steps of the program it has chosen and no other (`Chosen`).

- `GuardSleeps`: `OneInhibitor` and `NoneAfterUnplug`, for every number of positive samples and
  every set of processes: only the child the guard holds is alive, and a poll that was begun
  away from a PC has seen no candidate, wherever the cable went between its reads.
- `NeverAhead`: a pair (time, counter) is sound when `time <= 4 * counter + 2 * zero + 4`; the
  second that remains is the counter's rounding and the half of the second a capture may
  take, and a reset of the counter only moves `zero` on.
- `SeedKept`: what is durable is never newer than what is seen; a run knows the file it has
  made, and a temporary file without a run is left by a kill or a loss of power (`SeedInv`).
- `LabelKept`: a run holds a version the picture has had, and what it publishes carries that
  one's label; no two versions have the same time to the nanosecond, so a picture found
  twice with one time was not changed in between (`ThumbInv`).
- `PhotoNew`: the unit, the files it replaces and every client agree which run is the latest,
  and a client takes no run that began before its button (`PhotoInv`).
- `FrameShown`, `EndsClean`, `BuffersKept`: who holds a buffer and who its fence, slot by slot
  and for both ways of capturing, at each line of the client's thread (`HalInv`): a slot that
  is not taken has a buffer the camera has done with or a writer that signals the fence in
  the slot; on the way out every open fence is in a slot that the clean-up still visits.
- `FlashedWhenQualified`: everything a receipt, a temporary file or a program can hold, the
  direct start and the entries' trials alike, was seen on the phone, so that lost updates only take away.
- `PartitionKept`, `SwitchConfirmed`: the migration starts on two old copies only, so the writes
  it has done say what the disk holds (`WritesInOrder`), and the copy it is not at is whole; a
  flash has its record before it (`RecordsFirst`); a system that is up has started (`UpHasRun`).
- `QuietKept`: an input that was read is never later than the last one the program knows; the
  reason it has read is still that of the last resume, or the phone has resumed since; and
  the resumes that logind was asked for are handled ones, until a later one is seen (`QuietInv`).
- `LoopsKept`: a builder attaches one device at most, and what it is about to detach it has just
  found its own; another builder's step cannot make it a third one's (`BuildInv`).
- `CleanedUp`: of the private runtime, the root is first in the list of mounts and so the last
  to go (`RootLast`), and whatever is there is in a list, or is about to be noted, or the run
  was interrupted just then (`Noted`, `LoopNoted`); of the builders, `BuildInv` again.
- `FoundAgain`: for any number of clients, trials, wakes and checkpoints.  Of the radios: off
  after the PC's action only while the trial is armed, its process known and its return still
  to come, or when a restoration was refused (`RadiosInv`).  Of the recovery control: what the
  phone is at each step of the script, the alarm being its own only as long as it says so,
  and each step of the restoration either done or refused (`AsFound`).  Of the prototypes: only the worker writes the record and isolates, under an active
  unit that will restore, so that a stop which nothing excuses finds it past its work or not
  yet let in (`Owed`); and what ExecStopPost has gone over stays restored, though the hook's
  `post` runs beside it (`StopperKnows`, `WorkerKnows`).
- `ReadTrue`: for any file of debugfs with sorted lines, any directories and attributes.  The
  sampler infers from two lines where every register is; that `_offset()` then finds each line
  is an induction over the lines (`NatSetInduction`: a set of naturals with 0 and every
  successor is all of them, from the library's theorem on the smallest element).  Whatever the
  chip and the driver do between the look at the geometry and a read, a row has the register's
  value at that moment (`RegmapInv`), and so has an attribute of the policy report (`ReadInv`).
- `ArtifactsHold`: of the menu, for any alignment and any lengths of the components: a record is
  nothing or one run's container, the recipe program holds the container its record told, and
  the manifest it leaves when killed is not that of the files (`BundleInv`); `BuildLoads` follows
  the offsets through `build()` and shows that the loader accepts what it made and finds every
  component whole.  Of the packages: the trees hold what the steps so far have put there, under
  the lock, for any candidates (`PackagesInv`).  Of the closure: the lock file is one resolution,
  closed under what its packages need, for any mirrors (`M0Inv`).  Of the userdata builder: the
  image is what the step says and the `.part` files are of an image that passed (`PublishInv`),
  for any number of builds of one version, which nothing in the code keeps apart: they write
  the same `.part` files, always of images that passed, and the raw one in a single `mv`.  The
  sparse one is written in place, so a second build can cut short what the first has compared:
  that it is whole is claimed of a state in which one build at most has begun (`OneBuild`).
- `RecordsTrue`: the loops of `compare()` and `analyze()` are recursive functions of the number of
  records, and what they have after each is again an induction over naturals.  Of the hook: two
  records that follow each other are of one transition, unless two were lost, and the last one
  of a boot is the transition's in progress, or the records since were lost (`SleepInv`).  Of
  the recorder: `boottime - mono + held`, the seconds asleep or held up until a row began, never
  falls from one row to the next, nor on the way to the snapshot in progress, so that pairs
  which do not overlap add up to no more than passed between the first and the last row
  (`LogInv`); `held` is history, the seconds lost between the two clocks of snapshots so far.
- `TriageTrue`: a process is known by its PID and its start, so that whoever has the PID later is
  another.  What the rows add up to for it is at most what the last sample saw of it, and that
  at most what it has used (`CountsInv`), whichever of the two maps of the tracker still has it;
  the sum over the rows, and over the processes of a row, is again an induction over naturals.
  Once a closing row is written the loop is quitting or has stopped, and neither a timer nor a
  signal that was due with it finds the capture open (`RowsOver`).
- `StandbyTold`: what the window holds, with the events of the last pair of samples that it has
  still to record, is what happened: the totals are those of the story, the transitions that are
  kept are one of four lists, for the loop ends with a replug, and the seconds of suspend are no
  more than the two clocks went apart (`StandbyInv`).  `StoryGoesOn` says that one event more is heard
  after the others, again an induction over naturals.  It is assumed that two transitions
  fit in the window (the code keeps 64): with room for one, `pop(1)` would drop the replug.

Assumptions are the named ones of the modules (the service is not a shell, "none" is no
process, limits are naturals, and so on); TLC evaluates those of its instances.

Only model-checked: liveness and everything that needs ENABLED, which are out of the prover's
reach.  Every invariant and every action property of a passing run is a theorem.

## Not modelled

- In the NPU policy: ownership and symlink tests (taken to pass), other kernels (nothing
  is applied there), the exact frequencies.  A read that fails counts as a value that
  differs.
- In the camera: pictures, and `take_photo()` from a live preview.
- In the snapshot: the OEM mode, the plain producer that is tried when the Bayer one gives
  no frame, the inhibitor of sleep, the conversion of frames, and how many pads a block has
  (`save_formats()` keeps eight).
- In the HAL client: a device without `close()`, two answers for one frame, and the clean-up after a failure that
  comes before the pipeline has marked its fences (its slots then still hold 0, and
  descriptor 0 is closed for each).  Conversion of pictures.
- In the previews: limits and formats, and a picture that is replaced without a change of
  its time, which the second look cannot see.
- In the time seed: the checks of owner and mode of the files.
- In the home: widgets, icons, styles; another process writing between the comparison
  and `g_settings_apply()`, which are one callback here.
- In the battery application: the window, the charts, the export, the automatic start.
- In the measuring programs: formatting, hashing, argument parsing, self-tests, and values
  that no verdict depends on.
- The gralloc bridge: a shim between two vendor interfaces, whose correctness is that of
  memory layouts that are not here.
- The Wi-Fi start and the Android mounts, the observation initramfs: sequences of commands
  at boot whose outcome is the vendor's programs' and the kernel's.
- Profile staging and image verification, the camera and memory probes: sequential programs
  with one answer and no state that outlives them.
- The CPU idle switch `lmi-cpu-idle`: 27 lines, the record and the steps of the NPU policy on
  other files.
- `thumbnail-internal-target/build-packages.py`: the thirteenth builder works on a target of
  its own and shares no tree with the others.
- The panel driver (register sequences under DRM's locks), kernel patches (to code that is
  not here), device trees and configurations, the other image build scripts (sequential,
  run by hand), tests, data, and the records under `docs/` and `historical/`.

## What is left

In the order of what it would add: the photo from a live preview, beside a publisher that
is killed between its two files; the plain producer as the second candidate of the
launcher.
