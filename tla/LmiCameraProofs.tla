--------------------------- MODULE LmiCameraProofs ---------------------------
(***************************************************************************)
(* Proofs about LmiCamera: typing, and what the control threads have       *)
(* settled once they are through, for every number of changes of the       *)
(* foreground and every kind and number of faults.                         *)
(***************************************************************************)
EXTENDS LmiCamera, TLAPS

CtlStates ==
  [pc : {"none", "read", "call", "wait", "done", "failed"},
   desired : BOOLEAN, gen : 0..MaxGeneration]
Answers == [failed : BOOLEAN, desired : BOOLEAN, gen : 0..MaxGeneration]
Metas == [kind : {"none", "frame", "ended"}, old : BOOLEAN]

\* The unit is stopped or stopping, and no start job waits for that.
Off == unit \in {"inactive", "deactivating"} /\ ~queued

\* Only a start has a result of its own.
ResultOfStart == ctl.pc \in {"done", "failed"} => ctl.desired

\* In the background either somebody will still ask for a stop, or it is done.
StopUnderway ==
  app = "open" /\ ~want =>
    \/ waiting > 0
    \/ ctl.pc \in {"read", "call"} /\ ~ctl.desired
    \/ (ctl.pc = "none" \/ ~ctl.desired) /\ Off

\* The live preview is that of the window in front.
LiveWanted == app = "open" /\ live => want

\* An answer that ends the wait for a start when the GTK thread gets it.
Ending(a) == a.failed \/ (a.desired /\ a.gen = gen)

\* While the window waits for a start, the answer is on its way: a thread will
\* read the present wish, has read it with the present generation, or has
\* queued what it found.
AnswerUnderway ==
  app = "open" /\ live /\ starting =>
    \/ waiting > 0
    \/ ctl.pc # "none" /\ ctl.desired /\ (ctl.pc = "read" \/ ctl.gen = gen)
    \/ \E i \in 1..Len(idleq) : Ending(idleq[i])

-----------------------------------------------------------------------------
(* Typing, a lemma for each helper that several actions use. *)

Wishes == {want, live, starting, shown, settled, queued} \subseteq BOOLEAN
Gone == app = "gone" => waiting = 0 /\ idleq = <<>> /\ ctl.pc \in {"none", "read", "call"}
UnitTyped ==
  /\ unit \in {"inactive", "activating", "active", "deactivating"}
  /\ proc \in {"none", "boot", "check", "run", "drain", "ended"}
  /\ (proc = "none") <=> (unit = "inactive")

Typed ==
  /\ app \in {"open", "gone"}
  /\ want \in BOOLEAN /\ live \in BOOLEAN /\ starting \in BOOLEAN
  /\ shown \in BOOLEAN /\ settled \in BOOLEAN /\ queued \in BOOLEAN
  /\ gen \in 0..MaxGeneration
  /\ waiting \in Nat
  /\ ctl \in CtlStates
  /\ idleq \in Seq(Answers)
  /\ UnitTyped
  /\ meta \in Metas
  /\ faults \in Nat
  /\ Gone

LEMMA TypedIsTypeOK == TypeOK <=> Typed
BY DEF TypeOK, Typed, CtlStates, Answers, Metas, Gone, UnitTyped

LEMMA FaultCounts ==
  ASSUME NEW kind, Fault(kind), faults \in Nat
  PROVE  faults' \in Nat
BY DEF Fault

\* systemd has a process exactly for a unit that is not inactive, whatever it is
\* asked for.
LEMMA StartTyped ==
  ASSUME UnitTyped, queued \in BOOLEAN, StartJob
  PROVE  UnitTyped' /\ queued' \in BOOLEAN
BY DEF StartJob, UnitTyped, unitVars

LEMMA StopTyped ==
  ASSUME UnitTyped, queued \in BOOLEAN, StopJob
  PROVE  UnitTyped' /\ queued' \in BOOLEAN
BY DEF StopJob, UnitTyped, unitVars, Terminated

LEMMA JobOverTyped ==
  ASSUME ctl \in CtlStates, NEW result \in {"done", "failed"}, JobOver(result)
  PROVE  /\ ctl' \in CtlStates
         /\ ctl'.desired = ctl.desired /\ ctl'.gen = ctl.gen
         /\ \/ ctl'.pc = ctl.pc
            \/ ctl.pc = "wait" /\ ctl.desired /\ ctl'.pc = result
BY DEF JobOver, CtlStates

LEMMA ExitTyped ==
  ASSUME UnitTyped, queued \in BOOLEAN, ctl \in CtlStates, UnitExit
  PROVE  /\ UnitTyped' /\ queued' \in BOOLEAN
         /\ ctl' \in CtlStates
         /\ ctl'.desired = ctl.desired /\ ctl'.gen = ctl.gen
         /\ \/ ctl'.pc = ctl.pc
            \/ ctl.pc = "wait" /\ ctl.desired /\ ctl'.pc = "failed"
<1>1. UnitTyped' /\ queued' \in BOOLEAN
  BY DEF UnitExit, UnitTyped
<1>2. CASE queued
  BY <1>1, <1>2 DEF UnitExit
<1>3. CASE ~queued
  BY <1>1, <1>3, JobOverTyped DEF UnitExit
<1>4. QED
  BY <1>2, <1>3

LEMMA FinishTyped ==
  ASSUME Typed, app = "open", NEW failed \in BOOLEAN, CtlFinish(failed)
  PROVE  /\ waiting' \in Nat /\ waiting' >= waiting
         /\ ctl' = NoCtl /\ ctl' \in CtlStates
         /\ idleq' \in Seq(Answers)
<1>1. NoCtl \in CtlStates
  BY BoundAssumption DEF NoCtl, CtlStates, Typed
<1>2. [failed |-> failed, gen |-> ctl.gen, desired |-> ctl.desired] \in Answers
  BY DEF Typed, CtlStates, Answers
<1>3. idleq' \in Seq(Answers)
  BY <1>2 DEF CtlFinish, Typed
<1>4. QED
  BY <1>1, <1>3 DEF CtlFinish, Typed

LEMMA ReadyTyped ==
  ASSUME Typed, NEW c \in Answers, PreviewControlReady(c)
  PROVE  /\ live' = live /\ shown' = shown
         /\ starting' = starting \/ starting' = FALSE
         /\ meta' \in Metas
<1>1. \A o \in BOOLEAN : (o /\ meta.kind # "none") \in BOOLEAN
  OBVIOUS
<1>2. \A b \in BOOLEAN : [meta EXCEPT !.old = b] \in Metas
  BY DEF Typed, Metas
<1>3. QED
  BY <1>1, <1>2 DEF PreviewControlReady, Typed

-----------------------------------------------------------------------------
(* Typing, action by action. *)

LEMMA InitTyped == Init => Typed
<1> SUFFICES ASSUME Init PROVE Typed
  OBVIOUS
<1>1. NoCtl \in CtlStates /\ NoMeta \in Metas
  BY BoundAssumption DEF NoCtl, CtlStates, NoMeta, Metas
<1>2. 0 \in 0..MaxGeneration /\ <<>> \in Seq(Answers)
  BY BoundAssumption
<1>3. Gone /\ UnitTyped
  BY DEF Init, Gone, UnitTyped
<1>4. QED
  BY <1>1, <1>2, <1>3 DEF Init, Typed

LEMMA WindowTyped ==
  ASSUME Typed, Foreground \/ Background \/ PollPreview \/ Settle
  PROVE  Typed'
<1> USE BoundAssumption DEF Typed, guiVars, ctlVars, unitVars
<1>1. Gone' /\ UnitTyped'
  BY DEF Foreground, Background, PollPreview, Settle, Gone, UnitTyped
<1>2. meta' \in Metas
  <2>1. \A b \in BOOLEAN : [meta EXCEPT !.old = b] \in Metas
    BY DEF Metas
  <2>2. (meta.kind # "none") \in BOOLEAN
    OBVIOUS
  <2>3. QED
    BY <2>1, <2>2
       DEF Foreground, Background, PollPreview, Settle, StartPreview, PreviewFailed
<1>3. CASE Foreground
  <2>1. gen' \in 0..MaxGeneration /\ waiting' \in Nat
    BY <1>3 DEF Foreground
  <2>2. QED
    BY <1>1, <1>2, <1>3, <2>1 DEF Foreground, StartPreview
<1>4. CASE Background
  <2>1. gen' \in 0..MaxGeneration /\ waiting' \in Nat
    BY <1>4 DEF Background
  <2>2. QED
    BY <1>1, <1>2, <1>4, <2>1 DEF Background
<1>5. CASE PollPreview
  BY <1>1, <1>2, <1>5 DEF PollPreview, PreviewFailed
<1>6. CASE Settle
  BY <1>1, <1>2, <1>6 DEF Settle
<1>7. QED
  BY <1>3, <1>4, <1>5, <1>6

LEMMA IdleTyped ==
  ASSUME Typed, Idle
  PROVE  Typed'
<1>1. idleq \in Seq(Answers) /\ idleq # <<>> /\ app = "open" /\ app' = app
  BY DEF Idle, Typed
<1>2. Head(idleq) \in Answers /\ idleq' \in Seq(Answers)
  BY <1>1 DEF Idle
<1>3. Gone' /\ UnitTyped'
  BY <1>1 DEF Idle, Typed, Gone, UnitTyped, ctlVars, unitVars
<1>4. /\ live' \in BOOLEAN /\ starting' \in BOOLEAN /\ shown' \in BOOLEAN
      /\ meta' \in Metas
  <2>1. CASE Head(idleq).failed
    BY <2>1 DEF Idle, PreviewFailed, Typed
  <2>2. CASE ~Head(idleq).failed
    BY <1>2, <2>2, ReadyTyped DEF Idle, Typed
  <2>3. QED
    BY <2>1, <2>2
<1>5. QED
  BY <1>2, <1>3, <1>4 DEF Idle, Typed, ctlVars, unitVars

LEMMA CtlTyped ==
  ASSUME Typed, Control \/ CtlRefused
  PROVE  Typed'
<1> USE BoundAssumption DEF Typed, guiVars, ctlVars, unitVars
<1>1. CASE CtlDesired
  BY <1>1 DEF CtlDesired, CtlStates, Gone, UnitTyped
<1>2. CASE CtlGeneration
  <2>1. ctl' \in CtlStates /\ ctl'.pc = "call"
    BY <1>2 DEF CtlGeneration, CtlStates
  <2>2. Gone' /\ UnitTyped'
    BY <1>2, <2>1 DEF CtlGeneration, Gone, UnitTyped
  <2>3. QED
    BY <1>2, <2>1, <2>2 DEF CtlGeneration
<1>3. CASE CtlCall
  <2>1. UnitTyped' /\ queued' \in BOOLEAN
    BY <1>3, StartTyped, StopTyped DEF CtlCall
  <2>2. ctl' \in CtlStates
    BY <1>3 DEF CtlCall, CtlStates, NoCtl
  <2>3. Gone'
    BY <1>3 DEF CtlCall, Gone, NoCtl
  <2>4. QED
    BY <1>3, <2>1, <2>2, <2>3 DEF CtlCall
<1>4. CASE CtlReturn
  <2>1. app = "open"
    BY <1>4 DEF CtlReturn, Gone
  <2>2. waiting' \in Nat /\ ctl' \in CtlStates /\ idleq' \in Seq(Answers)
    BY <1>4, <2>1, FinishTyped DEF CtlReturn
  <2>3. Gone' /\ UnitTyped'
    BY <1>4, <2>1 DEF CtlReturn, Gone, UnitTyped
  <2>4. QED
    BY <1>4, <2>2, <2>3 DEF CtlReturn
<1>5. CASE CtlRefused
  <2>1. faults' \in Nat
    BY <1>5, FaultCounts DEF CtlRefused
  <2>2. QED
    BY <1>5, <2>1 DEF CtlRefused, CtlStates, Gone, UnitTyped
<1>6. QED
  BY <1>1, <1>2, <1>3, <1>4, <1>5 DEF Control

LEMMA TimeoutTyped ==
  ASSUME Typed, CtlTimeout
  PROVE  Typed'
<1>1. app = "open"
  BY DEF CtlTimeout, Typed, Gone
<1>2. waiting' \in Nat /\ ctl' \in CtlStates /\ idleq' \in Seq(Answers)
  BY <1>1, FinishTyped DEF CtlTimeout
<1>3. Gone' /\ UnitTyped'
  BY <1>1 DEF CtlTimeout, Typed, Gone, UnitTyped, guiVars, unitVars
<1>4. faults' \in Nat
  BY FaultCounts DEF CtlTimeout, Typed
<1>5. QED
  BY <1>2, <1>3, <1>4 DEF CtlTimeout, Typed, guiVars, unitVars

LEMMA PublisherTyped ==
  ASSUME Typed, Publisher \/ Publish \/ LeaseLost \/ BackendFails \/ Killed
  PROVE  Typed'
<1> USE DEF Typed, guiVars, ctlVars, unitVars
<1>1. CASE Boot
  BY <1>1 DEF Boot, NoMeta, Metas, Gone, UnitTyped
<1>2. CASE Check
  <2>1. CASE LeaseAlive
    <3>1. /\ ctl' \in CtlStates
          /\ ctl'.pc = ctl.pc \/ ctl.pc = "wait"
      BY <1>2, <2>1, JobOverTyped DEF Check
    <3>2. Gone' /\ UnitTyped'
      BY <1>2, <2>1, <3>1 DEF Check, Gone, UnitTyped
    <3>3. QED
      BY <1>2, <2>1, <3>1, <3>2 DEF Check
  <2>2. CASE ~LeaseAlive
    BY <1>2, <2>2 DEF Check, Gone, UnitTyped
  <2>3. QED
    BY <2>1, <2>2
<1>3. CASE Drain \/ Publish \/ LeaseLost
  <2>1. Marker("frame") \in Metas /\ Marker("ended") \in Metas
    BY DEF Marker, Metas
  <2>2. meta' \in Metas
    BY <1>3, <2>1 DEF Drain, Publish, LeaseLost
  <2>3. Gone' /\ UnitTyped'
    BY <1>3 DEF Drain, Publish, LeaseLost, Gone, UnitTyped
  <2>4. QED
    BY <1>3, <2>2, <2>3 DEF Drain, Publish, LeaseLost
<1>4. CASE Exit \/ Killed
  <2>1. /\ UnitTyped' /\ queued' \in BOOLEAN /\ ctl' \in CtlStates
        /\ ctl'.pc = ctl.pc \/ ctl.pc = "wait"
    BY <1>4, ExitTyped DEF Exit, Killed
  <2>2. Gone'
    BY <1>4, <2>1 DEF Exit, Killed, Gone
  <2>3. faults' \in Nat
    BY <1>4, FaultCounts DEF Exit, Killed
  <2>4. QED
    BY <1>4, <2>1, <2>2, <2>3 DEF Exit, Killed
<1>5. CASE BackendFails
  <2>1. faults' \in Nat
    BY <1>5, FaultCounts DEF BackendFails
  <2>2. QED
    BY <1>5, <2>1 DEF BackendFails, Gone, UnitTyped
<1>6. QED
  BY <1>1, <1>2, <1>3, <1>4, <1>5 DEF Publisher

LEMMA LeaveTyped ==
  ASSUME Typed, Close \/ AppKilled
  PROVE  Typed' /\ app' = "gone"
<1>1. /\ app' = "gone" /\ live' = FALSE /\ waiting' = 0 /\ idleq' = <<>>
      /\ \/ ctl' = NoCtl
         \/ ctl.pc \in {"read", "call"} /\ ctl' = ctl
  BY DEF Close, AppKilled, Leave
<1>2. ctl' \in CtlStates /\ Gone' /\ idleq' \in Seq(Answers)
  <2>1. NoCtl \in CtlStates /\ NoCtl.pc = "none"
    BY BoundAssumption DEF NoCtl, CtlStates
  <2>2. <<>> \in Seq(Answers)
    OBVIOUS
  <2>3. QED
    BY <1>1, <2>1, <2>2 DEF Typed, Gone
<1>3. UnitTyped' /\ queued' \in BOOLEAN
  BY StopTyped DEF Close, AppKilled, Typed, UnitTyped, unitVars
<1>4. want' \in BOOLEAN /\ faults' \in Nat
  BY FaultCounts DEF Close, AppKilled, Typed
<1>5. QED
  BY <1>1, <1>2, <1>3, <1>4 DEF Close, AppKilled, Typed

LEMMA NextTyped ==
  ASSUME Typed, [Next]_vars
  PROVE  Typed'
<1>1. CASE UNCHANGED vars
  BY <1>1 DEF vars, guiVars, ctlVars, unitVars, Typed, Gone, UnitTyped
<1>2. CASE Next
  BY <1>2, WindowTyped, IdleTyped, CtlTyped, TimeoutTyped, PublisherTyped, LeaveTyped
     DEF Next, Gui
<1>3. QED
  BY <1>1, <1>2

-----------------------------------------------------------------------------
(* What the control threads know, action by action. *)

Settling == ResultOfStart /\ StopUnderway /\ LiveWanted /\ AnswerUnderway

\* A stop that is done stays done while nobody wants the camera: the publisher
\* does not find a lease, and no start job waits.
LEMMA ExitStaysOff ==
  ASSUME Off, UnitExit
  PROVE  Off'
BY DEF Off, UnitExit

LEMMA StopTurnsOff ==
  ASSUME UnitTyped, StopJob
  PROVE  Off'
BY DEF StopJob, Off, UnitTyped

LEMMA InitSettling == Init => Settling
BY DEF Init, Settling, ResultOfStart, StopUnderway, LiveWanted, AnswerUnderway, Off, NoCtl

\* A change of the foreground leaves a thread that will look at it.
LEMMA WindowSettling ==
  ASSUME Typed, Settling, Foreground \/ Background \/ PollPreview \/ Settle
  PROVE  Settling'
<1> USE DEF Typed, Settling, ResultOfStart, StopUnderway, LiveWanted, AnswerUnderway,
            guiVars, ctlVars, unitVars
<1>1. CASE Foreground
  BY <1>1 DEF Foreground, StartPreview
<1>2. CASE Background
  BY <1>2 DEF Background
<1>3. CASE PollPreview
  <2>1. UNCHANGED <<app, want, waiting, ctl, unit, queued>>
    BY <1>3 DEF PollPreview
  <2>2. live /\ ~starting /\ starting' = starting
    BY <1>3 DEF PollPreview, PreviewFailed
  <2>3. QED
    BY <2>1, <2>2 DEF Off
<1>4. CASE Settle
  BY <1>4 DEF Settle, Off, Ending
<1>5. QED
  BY <1>1, <1>2, <1>3, <1>4

\* The GTK thread drops only answers that cannot end the wait.
LEMMA IdleSettling ==
  ASSUME Typed, Settling, Idle
  PROVE  Settling'
<1>1. /\ idleq \in Seq(Answers) /\ idleq # <<>> /\ idleq' = Tail(idleq)
      /\ UNCHANGED <<app, want, gen, ctl, waiting, unit, queued>>
  BY DEF Idle, Typed, ctlVars, unitVars
<1>2. Head(idleq) \in Answers
  BY <1>1
<1>3. /\ live' => live
      /\ starting' /\ live' => starting /\ ~Head(idleq).failed
  <2>1. CASE Head(idleq).failed
    BY <2>1 DEF Idle, PreviewFailed
  <2>2. CASE ~Head(idleq).failed
    BY <1>2, <2>2, ReadyTyped DEF Idle, Typed
  <2>3. QED
    BY <2>1, <2>2
<1>4. ResultOfStart' /\ StopUnderway' /\ LiveWanted'
  BY <1>1, <1>3 DEF Settling, ResultOfStart, StopUnderway, LiveWanted, Off
<1>5. AnswerUnderway'
  <2> SUFFICES ASSUME app = "open", live, starting, live', starting',
                      ~(\/ waiting > 0
                        \/ ctl.pc # "none" /\ ctl.desired /\ (ctl.pc = "read" \/ ctl.gen = gen))
               PROVE  (\E i \in 1..Len(idleq) : Ending(idleq[i]))'
    BY <1>1, <1>3 DEF AnswerUnderway
  <2>1. PICK i \in 1..Len(idleq) : Ending(idleq[i])
    BY DEF Settling, AnswerUnderway
  <2>2. i # 1
    <3> SUFFICES ASSUME Ending(Head(idleq)) PROVE FALSE
      BY <1>1, <2>1
    <3>1. want
      BY DEF Settling, LiveWanted
    <3>2. ~Head(idleq).failed
      BY <1>3
    <3>3. starting' = FALSE
      BY <3>1, <3>2 DEF Ending, Idle, PreviewControlReady
    <3>4. QED
      BY <3>3
  <2>3. Len(idleq') = Len(idleq) - 1 /\ \A j \in 1..Len(idleq') : idleq'[j] = idleq[j + 1]
    BY <1>1
  <2>4. i - 1 \in 1..Len(idleq') /\ idleq'[i - 1] = idleq[i]
    BY <1>1, <2>1, <2>2, <2>3
  <2>5. \A a : Ending(a) <=> a.failed \/ (a.desired /\ a.gen = gen')
    BY <1>1 DEF Ending
  <2>6. QED
    BY <2>1, <2>4, <2>5 DEF Ending
<1>6. QED
  BY <1>4, <1>5 DEF Settling

\* A thread that is through has left its answer in the queue.
LEMMA FinishSettling ==
  ASSUME Typed, Settling, app = "open", ctl.pc \in {"wait", "done", "failed"},
         NEW failed \in BOOLEAN, CtlFinish(failed), UNCHANGED <<guiVars, unitVars>>
  PROVE  Settling'
<1>1. /\ waiting' \in Nat /\ waiting' >= waiting /\ ctl'.pc = "none"
      /\ UNCHANGED <<app, want, gen, live, starting, unit, queued>>
  BY FinishTyped DEF NoCtl, guiVars, unitVars
<1>2. ResultOfStart' /\ StopUnderway' /\ LiveWanted'
  BY <1>1 DEF Typed, Settling, ResultOfStart, StopUnderway, LiveWanted, Off
<1>3. AnswerUnderway'
  <2> SUFFICES ASSUME live, starting, ~(waiting > 0)
               PROVE  (\E i \in 1..Len(idleq) : Ending(idleq[i]))'
    BY <1>1 DEF AnswerUnderway, Typed
  <2> DEFINE answer == [failed |-> failed, gen |-> ctl.gen, desired |-> ctl.desired]
  <2>1. idleq \in Seq(Answers) /\ answer \in Answers
    BY DEF Typed, CtlStates, Answers
  <2>2. CASE ctl.desired /\ ctl.gen = gen
    <3>1. idleq' = Append(idleq, answer)
      BY <2>2 DEF CtlFinish
    <3>2. Len(idleq) + 1 \in 1..Len(idleq') /\ idleq'[Len(idleq) + 1] = answer
      BY <2>1, <3>1
    <3>3. Ending(answer)
      BY <2>2 DEF Ending
    <3>4. QED
      BY <1>1, <3>2, <3>3 DEF Ending
  <2>3. CASE \E i \in 1..Len(idleq) : Ending(idleq[i])
    <3>1. PICK i \in 1..Len(idleq) : Ending(idleq[i])
      BY <2>3
    <3>2. idleq' = idleq \/ idleq' = Append(idleq, answer)
      BY DEF CtlFinish
    <3>3. i \in 1..Len(idleq') /\ idleq'[i] = idleq[i]
      BY <2>1, <3>1, <3>2
    <3>4. QED
      BY <1>1, <3>1, <3>3 DEF Ending
  <2>4. QED
    BY <2>2, <2>3 DEF Settling, AnswerUnderway
<1>4. QED
  BY <1>2, <1>3 DEF Settling

\* A systemctl call that has been decided is the present wish, or another thread
\* waits for its turn.
LEMMA CtlSettling ==
  ASSUME Typed, Settling, Control
  PROVE  Settling'
<1>1. CASE CtlDesired
  BY <1>1 DEF CtlDesired, Typed, Settling, ResultOfStart, StopUnderway, LiveWanted,
              AnswerUnderway, guiVars
<1>2. CASE CtlGeneration
  <2>1. /\ ctl.pc = "read" /\ ctl'.pc = "call"
        /\ ctl'.desired = ctl.desired /\ ctl'.gen = gen
        /\ UNCHANGED <<app, want, gen, live, starting, waiting, idleq, unit, queued>>
    BY <1>2 DEF CtlGeneration, Typed, CtlStates, guiVars, unitVars
  <2>2. QED
    BY <2>1 DEF Settling, ResultOfStart, StopUnderway, LiveWanted, AnswerUnderway, Off, Ending
<1>3. CASE CtlCall
  <2>1. /\ ctl.pc = "call"
        /\ UNCHANGED <<app, want, gen, live, starting, waiting, idleq>>
    BY <1>3 DEF CtlCall, guiVars
  <2>2. CASE app # "open"
    BY <1>3, <2>1, <2>2
       DEF CtlCall, NoCtl, Settling, ResultOfStart, StopUnderway, LiveWanted, AnswerUnderway
  <2>3. CASE app = "open"
    <3>1. /\ ctl'.desired = ctl.desired /\ ctl'.gen = ctl.gen
          /\ \/ ctl'.pc = "wait"
             \/ ctl'.pc = "done" /\ ctl.desired
      BY <1>3, <2>3 DEF CtlCall, Typed, CtlStates
    <3>2. ~ctl.desired => Off'
      BY <1>3, StopTurnsOff DEF CtlCall, Typed
    <3>3. QED
      BY <2>1, <2>3, <3>1, <3>2
         DEF Settling, ResultOfStart, StopUnderway, LiveWanted, AnswerUnderway, Ending
  <2>4. QED
    BY <2>2, <2>3
<1>4. CASE CtlReturn
  <2>1. ctl.pc \in {"wait", "done", "failed"} /\ app = "open"
    BY <1>4 DEF CtlReturn, Typed, Gone
  <2>2. QED
    BY <1>4, <2>1, FinishSettling DEF CtlReturn
<1>5. QED
  BY <1>1, <1>2, <1>3, <1>4 DEF Control

LEMMA FaultySettling ==
  ASSUME Typed, Settling, CtlRefused \/ CtlTimeout
  PROVE  Settling'
<1>1. CASE CtlRefused
  <2>1. /\ ctl'.pc = "failed" /\ ctl'.desired /\ ctl'.desired = ctl.desired
        /\ ctl'.gen = ctl.gen /\ ctl.pc = "call"
        /\ UNCHANGED <<app, want, gen, live, starting, waiting, idleq, unit, queued>>
    BY <1>1 DEF CtlRefused, Typed, CtlStates, guiVars, unitVars
  <2>2. QED
    BY <2>1 DEF Settling, ResultOfStart, StopUnderway, LiveWanted, AnswerUnderway, Ending
<1>2. CASE CtlTimeout
  <2>1. ctl.pc \in {"wait", "done", "failed"} /\ app = "open"
    BY <1>2 DEF CtlTimeout, Typed, Gone
  <2>2. QED
    BY <1>2, <2>1, FinishSettling DEF CtlTimeout
<1>3. QED
  BY <1>1, <1>2

\* What the publisher does, or systemd on its end, keeps a stop that is done.
LEMMA PublisherSettling ==
  ASSUME Typed, Settling, Publisher \/ Publish \/ LeaseLost \/ BackendFails \/ Killed
  PROVE  Settling'
<1>1. UNCHANGED <<app, want, gen, live, starting, waiting, idleq>>
  BY DEF Publisher, Boot, Check, Drain, Exit, Publish, LeaseLost, BackendFails, Killed,
         guiVars, ctlVars
<1>2. /\ ctl'.desired = ctl.desired /\ ctl'.gen = ctl.gen
      /\ \/ ctl'.pc = ctl.pc
         \/ ctl.pc = "wait" /\ ctl.desired /\ ctl'.pc \in {"done", "failed"}
  <2>1. CASE Check /\ LeaseAlive
    BY <2>1, JobOverTyped DEF Check, Typed
  <2>2. CASE Exit \/ Killed
    BY <2>2, ExitTyped DEF Exit, Killed, Typed
  <2>3. CASE ctl' = ctl
    BY <2>3
  <2>4. ctl' = ctl \/ (Check /\ LeaseAlive) \/ Exit \/ Killed
    BY DEF Publisher, Boot, Check, Drain, Publish, LeaseLost, BackendFails, ctlVars
  <2>5. QED
    BY <2>1, <2>2, <2>3, <2>4
<1>3. Off /\ app = "open" /\ ~want => Off'
  <2>1. CASE Exit \/ Killed
    BY <2>1, ExitStaysOff DEF Exit, Killed
  <2>2. CASE ~(Exit \/ Killed)
    BY <2>2 DEF Publisher, Boot, Check, Drain, Publish, LeaseLost, BackendFails,
                LeaseAlive, InForeground, Off, unitVars
  <2>3. QED
    BY <2>1, <2>2
<1>4. QED
  BY <1>1, <1>2, <1>3
     DEF Settling, ResultOfStart, StopUnderway, LiveWanted, AnswerUnderway, Ending

LEMMA LeaveSettling ==
  ASSUME Typed, Settling, Close \/ AppKilled
  PROVE  Settling'
<1>1. app' = "gone"
  BY LeaveTyped
<1>2. ctl' = NoCtl \/ ctl' = ctl
  BY DEF Close, AppKilled, Leave
<1>3. QED
  BY <1>1, <1>2
     DEF Settling, ResultOfStart, StopUnderway, LiveWanted, AnswerUnderway, NoCtl

LEMMA NextSettling ==
  ASSUME Typed, Settling, [Next]_vars
  PROVE  Settling'
<1>1. CASE UNCHANGED vars
  BY <1>1 DEF vars, guiVars, ctlVars, unitVars, Settling, ResultOfStart, StopUnderway,
              LiveWanted, AnswerUnderway, Off, Ending
<1>2. CASE Next
  BY <1>2, WindowSettling, IdleSettling, CtlSettling, FaultySettling,
     PublisherSettling, LeaveSettling DEF Next, Gui
<1>3. QED
  BY <1>1, <1>2

-----------------------------------------------------------------------------
(* The theorems. *)

LEMMA CameraInvHolds == Spec => [](Typed /\ Settling)
<1>1. Init => Typed /\ Settling
  BY InitTyped, InitSettling
<1>2. Typed /\ Settling /\ [Next]_vars => (Typed /\ Settling)'
  BY NextTyped, NextSettling
<1>3. QED
  BY <1>1, <1>2, PTL DEF Spec

\* Once the control threads of a window in the background are through, the camera
\* is off and no start job is left: launch_preview() reads want_preview again after every
\* call, whatever happened during it.
THEOREM BackgroundSoundHolds == Spec => []BackgroundSound
<1>1. Typed /\ Settling => BackgroundSound
  BY TypedIsTypeOK
     DEF BackgroundSound, BackgroundOff, Settling, StopUnderway, Quiet, Off, Typed
<1>2. QED
  BY <1>1, CameraInvHolds, PTL

\* preview_control_ready() never drops the answer the window waits for.
THEOREM LastAnswerCountsHolds == Spec => []LastAnswerCounts
<1>1. Typed /\ Settling => LastAnswerCounts
  <2> SUFFICES ASSUME Typed, Settling, app = "open", Quiet, live, starting
               PROVE  FALSE
    BY DEF LastAnswerCounts
  <2>1. waiting = 0 /\ ctl.pc = "none" /\ Len(idleq) = 0
    BY DEF Quiet
  <2>2. QED
    BY <2>1 DEF Settling, AnswerUnderway
<1>2. QED
  BY <1>1, CameraInvHolds, PTL
=============================================================================
