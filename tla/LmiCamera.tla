------------------------------ MODULE LmiCamera ------------------------------
(***************************************************************************)
(* The rear-camera application (userspace/camera/files/lmi-camera.py), its *)
(* preview publisher (lmi-camera-preview-service.py) and the systemd unit  *)
(* that runs the publisher.                                                *)
(*                                                                         *)
(* The GTK thread runs its handlers to the end, one at a time.  Every      *)
(* change of the window's foreground state starts a control thread; the    *)
(* control threads take turns on control_lock, and the one that has it     *)
(* runs systemctl for whatever the window wants by then.  What they find   *)
(* goes back to the GTK thread through its idle queue.  The publisher      *)
(* looks at the foreground lease before it starts and while it runs, and   *)
(* leaves frames, then an end marker, in /run/lmi-camera.                  *)
(*                                                                         *)
(* The lease file says what foreground_changed() stores in want_preview a  *)
(* moment later, and the open application renews it every second: it is    *)
(* alive exactly when the application is open and wants the preview.       *)
(* Clock readings are kept as the comparisons made with them: old (the     *)
(* marker's mtime is not after live_started) and settled (four seconds     *)
(* have passed since start_preview()).  The one-shot mode is left out.     *)
(***************************************************************************)
EXTENDS Naturals, Sequences

CONSTANTS
  MaxGeneration,  \* bound: foreground changes in a behaviour
  Faults,         \* the kinds of fault that occur
  MaxFaults       \* bound: faults in a behaviour

FaultKinds == {"backend", "killed", "timeout", "refused"}

ASSUME BoundAssumption == MaxGeneration \in Nat /\ MaxFaults \in Nat
ASSUME FaultAssumption == Faults \subseteq FaultKinds

VARIABLES
  app,          \* "open", or "gone" once the window is closed or the process died
  want, gen,    \* want_preview, preview_generation
  live,         \* live_running
  starting,     \* preview_starting
  shown,        \* live_pixbuf is set: there is a picture to save
  settled,      \* preview_started_monotonic is four seconds ago
  waiting,      \* control threads that wait for control_lock
  ctl,          \* the control thread that has it
  idleq,        \* callbacks queued with GLib.idle_add
  unit, queued, \* ActiveState of the preview unit; a start job waits for it to stop
  proc,         \* the publisher process
  meta,         \* live.json: its kind, and whether the window ignores it as old
  faults

guiVars == <<app, want, gen, live, starting, shown, settled>>
ctlVars == <<waiting, ctl>>
unitVars == <<unit, queued, proc>>
vars == <<guiVars, ctlVars, idleq, unitVars, meta, faults>>

NoCtl == [pc |-> "none", desired |-> FALSE, gen |-> 0]
NoMeta == [kind |-> "none", old |-> FALSE]
Marker(kind) == [kind |-> kind, old |-> FALSE]

Init ==
  /\ app = "open"
  /\ want = FALSE /\ gen = 0
  /\ live = FALSE /\ starting = FALSE /\ shown = FALSE /\ settled = FALSE
  /\ waiting = 0 /\ ctl = NoCtl
  /\ idleq = <<>>
  /\ unit = "inactive" /\ queued = FALSE /\ proc = "none"
  /\ meta = NoMeta
  /\ faults = 0

Fault(kind) == kind \in Faults /\ faults < MaxFaults /\ faults' = faults + 1

InForeground == app = "open" /\ want

\* Mutated form: the lease of an application that has died still counts.
LeaseOutlives == want

\* foreground_alive() of the publisher.
LeaseAlive == InForeground

----------------------------------------------------------------------------
(* The GTK thread *)

\* Nothing published before now counts for the preview that starts now.
StartPreview ==
  /\ live' = TRUE /\ starting' = TRUE /\ shown' = FALSE /\ settled' = FALSE
  /\ meta' = [meta EXCEPT !.old = meta.kind # "none"]

\* Mutated forms: the control thread is not started.
ForegroundNoThread ==
  /\ app = "open" /\ ~want /\ gen < MaxGeneration
  /\ want' = TRUE /\ gen' = gen + 1
  /\ StartPreview
  /\ UNCHANGED <<app, waiting, ctl, idleq, unitVars, faults>>

BackgroundNoThread ==
  /\ app = "open" /\ want /\ gen < MaxGeneration
  /\ want' = FALSE /\ gen' = gen + 1
  /\ live' = FALSE
  /\ UNCHANGED <<app, starting, shown, settled, waiting, ctl, idleq, unitVars, meta, faults>>

\* The window comes to the front.
Foreground ==
  /\ app = "open" /\ ~want /\ gen < MaxGeneration
  /\ want' = TRUE /\ gen' = gen + 1
  /\ StartPreview
  /\ waiting' = waiting + 1
  /\ UNCHANGED <<app, ctl, idleq, unitVars, faults>>

\* The window is hidden or another one comes to the front.
Background ==
  /\ app = "open" /\ want /\ gen < MaxGeneration
  /\ want' = FALSE /\ gen' = gen + 1
  /\ live' = FALSE
  /\ waiting' = waiting + 1
  /\ UNCHANGED <<app, starting, shown, settled, ctl, idleq, unitVars, meta, faults>>

\* preview_failed(): whichever preview the failure was of.
PreviewFailed ==
  /\ live' = FALSE
  /\ UNCHANGED <<starting, shown, meta>>

\* preview_control_ready() moves live_started to a second ago, wherever that
\* puts the marker that is there.
PreviewControlReady(c) ==
  IF c.gen = gen /\ c.desired /\ want
  THEN /\ starting' = FALSE
       /\ \E o \in BOOLEAN : meta' = [meta EXCEPT !.old = o /\ meta.kind # "none"]
       /\ UNCHANGED <<live, shown>>
  ELSE UNCHANGED <<live, starting, shown, meta>>

Idle ==
  /\ app = "open" /\ idleq # <<>>
  /\ idleq' = Tail(idleq)
  /\ IF Head(idleq).failed
     THEN PreviewFailed
     ELSE PreviewControlReady(Head(idleq))
  /\ UNCHANGED <<app, want, gen, settled, ctlVars, unitVars, faults>>

PollPreview ==
  /\ app = "open" /\ live /\ ~starting
  /\ meta.kind # "none" /\ ~meta.old
  /\ \/ /\ meta.kind = "ended" /\ settled
        /\ PreviewFailed
     \/ /\ meta.kind = "frame" /\ ~shown
        /\ shown' = TRUE
        /\ UNCHANGED <<live, starting, meta>>
  /\ UNCHANGED <<app, want, gen, settled, ctlVars, idleq, unitVars, faults>>

\* Four seconds pass after start_preview().
Settle ==
  /\ live /\ ~settled
  /\ settled' = TRUE
  /\ UNCHANGED <<app, want, gen, live, starting, shown, ctlVars, idleq, unitVars, meta, faults>>

----------------------------------------------------------------------------
(* systemd: the jobs of systemctl start and stop, and the unit's state *)

StartJob ==
  \/ /\ unit = "inactive"
     /\ unit' = "activating" /\ proc' = "boot"
     /\ UNCHANGED queued
  \/ /\ unit = "deactivating"
     /\ queued' = TRUE
     /\ UNCHANGED <<unit, proc>>
  \/ /\ unit \in {"activating", "active"}
     /\ UNCHANGED unitVars

\* Mutated form: the publisher's loop does not look at the request.
StopJobIgnored ==
  \/ /\ unit \in {"activating", "active"}
     /\ unit' = "deactivating"
     /\ queued' = FALSE
     /\ UNCHANGED proc
  \/ /\ unit \in {"inactive", "deactivating"}
     /\ queued' = FALSE
     /\ UNCHANGED <<unit, proc>>

\* What SIGTERM makes of the publisher: a request to stop, once it has a handler.
\* Before that it is gone at once, which may be after Boot, too.
Terminated ==
  \/ proc \in {"boot", "check", "ended"} /\ proc' = "ended"
  \/ proc \in {"check", "run", "drain"} /\ proc' = "drain"

StopJob ==
  \/ /\ unit \in {"activating", "active"}
     /\ unit' = "deactivating"
     /\ queued' = FALSE
     /\ Terminated
  \/ /\ unit \in {"inactive", "deactivating"}
     /\ queued' = FALSE
     /\ UNCHANGED <<unit, proc>>

\* The start job is over: systemctl start, if it still waits, has its result.
JobOver(result) ==
  ctl' = IF ctl.pc = "wait" /\ ctl.desired THEN [ctl EXCEPT !.pc = result] ELSE ctl

\* The process is gone; a start job that waited for it goes ahead, and one that
\* waited for its READY=1 has failed.
UnitExit ==
  /\ unit' = IF queued THEN "activating" ELSE "inactive"
  /\ proc' = IF queued THEN "boot" ELSE "none"
  /\ queued' = FALSE
  /\ IF queued THEN UNCHANGED ctl ELSE JobOver("failed")

----------------------------------------------------------------------------
(* launch_preview() on a control thread *)

\* The thread takes control_lock and reads want_preview.
CtlDesired ==
  /\ app = "open" /\ waiting > 0 /\ ctl.pc = "none"
  /\ waiting' = waiting - 1
  /\ ctl' = [pc |-> "read", desired |-> want, gen |-> 0]
  /\ UNCHANGED <<guiVars, idleq, unitVars, meta, faults>>

CtlGeneration ==
  /\ ctl.pc = "read"
  /\ ctl' = [ctl EXCEPT !.pc = "call", !.gen = gen]
  /\ UNCHANGED <<guiVars, waiting, idleq, unitVars, meta, faults>>

CtlCall ==
  /\ ctl.pc = "call"
  /\ IF ctl.desired THEN StartJob ELSE StopJob
  /\ ctl' = IF app # "open" THEN NoCtl
            ELSE [ctl EXCEPT !.pc = IF ctl.desired /\ unit = "active" THEN "done" ELSE "wait"]
  /\ UNCHANGED <<guiVars, waiting, idleq, meta, faults>>

\* What follows the call: the callback, and another thread if the window has
\* changed its mind since the generation was read.
CtlFinish(failed) ==
  /\ idleq' = IF failed /\ ~ctl.desired
              THEN idleq
              ELSE Append(idleq, [failed |-> failed, gen |-> ctl.gen, desired |-> ctl.desired])
  /\ waiting' = IF ctl.gen # gen THEN waiting + 1 ELSE waiting
  /\ ctl' = NoCtl

\* systemctl waits for its job: a start is over when the unit is active or has
\* failed, a stop when it is inactive.
CtlReturn ==
  /\ \/ ctl.pc \in {"done", "failed"}
     \/ ctl.pc = "wait" /\ ~ctl.desired /\ unit = "inactive"
  /\ CtlFinish(ctl.pc = "failed")
  /\ UNCHANGED <<guiVars, unitVars, meta, faults>>

\* systemd refuses to start the unit: it has been started too often of late.
CtlRefused ==
  /\ ctl.pc = "call" /\ ctl.desired /\ app = "open"
  /\ unit = "inactive" /\ Fault("refused")
  /\ ctl' = [ctl EXCEPT !.pc = "failed"]
  /\ UNCHANGED <<guiVars, waiting, idleq, unitVars, meta>>

\* subprocess.run gives up after 15 seconds.
CtlTimeout ==
  /\ ctl.pc = "wait" /\ Fault("timeout")
  /\ CtlFinish(TRUE)
  /\ UNCHANGED <<guiVars, unitVars, meta>>

----------------------------------------------------------------------------
(* The publisher *)

\* It removes what an earlier session left.
Boot ==
  /\ proc = "boot"
  /\ proc' = "check"
  /\ meta' = NoMeta
  /\ UNCHANGED <<guiVars, ctlVars, idleq, unit, queued, faults>>

\* READY=1, or the assertion fails and the end marker is left all the same.
Check ==
  /\ proc = "check"
  /\ IF LeaseAlive
     THEN unit' = "active" /\ proc' = "run" /\ JobOver("done")
     ELSE proc' = "drain" /\ UNCHANGED <<unit, ctl>>
  /\ UNCHANGED <<guiVars, waiting, idleq, queued, meta, faults>>

Publish ==
  /\ proc = "run"
  /\ meta' = Marker("frame")
  /\ UNCHANGED <<guiVars, ctlVars, idleq, unitVars, faults>>

\* foreground_alive() is looked at every 0.2 s.
LeaseLost ==
  /\ proc = "run" /\ ~LeaseAlive
  /\ proc' = "drain"
  /\ UNCHANGED <<guiVars, ctlVars, idleq, unit, queued, meta, faults>>

\* No frames for eight seconds, or the camera program ends by itself.
BackendFails ==
  /\ proc = "run" /\ Fault("backend")
  /\ proc' = "drain"
  /\ UNCHANGED <<guiVars, ctlVars, idleq, unit, queued, meta>>

\* The finally block: the camera program is terminated, the end marker written.
Drain ==
  /\ proc = "drain"
  /\ proc' = "ended"
  /\ meta' = Marker("ended")
  /\ UNCHANGED <<guiVars, ctlVars, idleq, unit, queued, faults>>

Exit ==
  /\ proc = "ended"
  /\ UnitExit
  /\ UNCHANGED <<guiVars, waiting, idleq, meta, faults>>

\* MemoryMax, the watchdog or TimeoutStopSec: no finally block runs.
Killed ==
  /\ proc # "none" /\ Fault("killed")
  /\ UnitExit
  /\ UNCHANGED <<guiVars, waiting, idleq, meta>>

----------------------------------------------------------------------------
(* The end of the application *)

\* Its control threads die with it; a systemctl that one of them has just
\* started may outlive it.
Leave ==
  /\ app' = "gone" /\ live' = FALSE
  /\ waiting' = 0 /\ idleq' = <<>>
  /\ \/ ctl' = NoCtl
     \/ ctl.pc \in {"read", "call"} /\ UNCHANGED ctl

\* close_camera() itself asks systemd to stop the unit, as does the thread that
\* its foreground_changed() starts; nobody reads the generation any more.
Close ==
  /\ app = "open"
  /\ want' = FALSE
  /\ StopJob
  /\ Leave
  /\ UNCHANGED <<gen, starting, shown, settled, meta, faults>>

AppKilled ==
  /\ app = "open" /\ Fault("killed")
  /\ Leave
  /\ UNCHANGED <<want, gen, starting, shown, settled, unitVars, meta>>

Gui == Idle \/ PollPreview
Control == CtlDesired \/ CtlGeneration \/ CtlCall \/ CtlReturn
Publisher == Boot \/ Check \/ Drain \/ Exit

Next ==
  \/ Foreground \/ Background \/ Close \/ AppKilled
  \/ Gui \/ Settle
  \/ Control \/ CtlRefused \/ CtlTimeout
  \/ Publisher \/ Publish \/ LeaseLost \/ BackendFails \/ Killed

Spec == Init /\ [][Next]_vars

\* The GTK loop, the threads and the publisher run on; time passes.
Fairness ==
  /\ WF_vars(Idle) /\ WF_vars(PollPreview) /\ WF_vars(Settle)
  /\ WF_vars(Control)
  /\ WF_vars(Publisher) /\ WF_vars(LeaseLost) /\ WF_vars(Publish)

FairSpec == Spec /\ Fairness

----------------------------------------------------------------------------
(* Properties *)

\* Every variable has its type, a control thread works only while the window it
\* belongs to may still exist, and systemd has a process exactly for a unit
\* that is not inactive.
TypeOK ==
  /\ app \in {"open", "gone"}
  /\ {want, live, starting, shown, settled, queued} \subseteq BOOLEAN
  /\ gen \in 0..MaxGeneration
  /\ waiting \in Nat
  /\ ctl \in [pc : {"none", "read", "call", "wait", "done", "failed"},
             desired : BOOLEAN, gen : 0..MaxGeneration]
  /\ idleq \in Seq([failed : BOOLEAN, desired : BOOLEAN, gen : 0..MaxGeneration])
  /\ unit \in {"inactive", "activating", "active", "deactivating"}
  /\ proc \in {"none", "boot", "check", "run", "drain", "ended"}
  /\ meta \in [kind : {"none", "frame", "ended"}, old : BOOLEAN]
  /\ faults \in Nat
  /\ app = "gone" => waiting = 0 /\ idleq = <<>> /\ ctl.pc \in {"none", "read", "call"}
  /\ (proc = "none") <=> (unit = "inactive")

\* No control thread is left and the GTK thread has heard what they found.
Quiet == waiting = 0 /\ ctl.pc = "none" /\ idleq = <<>>

\* The window changes while control threads are between reading want_preview,
\* calling systemctl and returning.  Whatever they did, once they are through
\* and the window is in the background the unit is stopped or stopping, and no
\* start job is left that would bring it back (launch_preview()).
BackgroundOff ==
  (app = "open" /\ Quiet /\ ~want) => unit \in {"inactive", "deactivating"} /\ ~queued

\* The window, its control threads and the unit belong together, and the camera
\* is off in the background.
BackgroundSound == TypeOK /\ BackgroundOff

\* preview_control_ready() drops the answers of an earlier generation.  It never
\* drops the last one: once the control threads are through, the window does not
\* wait for a start any more.
LastAnswerCounts ==
  (app = "open" /\ Quiet /\ want /\ live) => ~starting

\* Leaving for another application, closing the window or the death of the
\* application stops the camera, or the window is in the foreground again
\* (foreground_alive() and the two ways to systemctl stop).
Stops == ~InForeground ~> (unit = "inactive" \/ InForeground)

\* The control threads come to an end: a stop never waits for a unit that does
\* not stop, and the threads do not go on starting one another
\* (launch_preview():129-130).
ControlSettles == <>[]Quiet

\* "Bringing the app forward starts it" (userspace/camera/README.md:950): a
\* preview that the publisher delivers while the window is in the foreground is
\* shown.  preview_failed() has no generation check, so that the failure of an
\* earlier start ends the preview that has just begun.
ReadyIsShown ==
  (app = "open" /\ Quiet /\ want /\ proc = "run") => live

\* "Bringing the app forward starts it" (userspace/camera/README.md:950), with
\* no fault of any process: once the control threads are through, the unit of a
\* foreground window runs.  systemctl start returns at once for a unit that is
\* still active though its publisher has seen the lease lost and is on its way
\* out.
ResumeNotLost ==
  (app = "open" /\ Quiet /\ want /\ faults = 0) => unit # "inactive"
=============================================================================
