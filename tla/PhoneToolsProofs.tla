--------------------------- MODULE PhoneToolsProofs ---------------------------
(***************************************************************************)
(* Proofs about the programs of PhoneTools: every step of a program keeps  *)
(* its inductive invariant, which is stated in its module.  The theorems   *)
(* themselves are in FieldToolsProofs.                                     *)
(***************************************************************************)
EXTENDS PhoneTools, Sequences, TLAPS, FiniteSetTheorems

-----------------------------------------------------------------------------
(* The USB guard: s1 is the cable, s2 the service, s3 the guard, s4 what was   *)
(* seen, s5 the inhibitors alive, s6 the history `away`.                       *)

LEMMA GuardInitHolds == Guard!Init => Guard!GuardInv
  BY DEF Guard!Init, Guard!GuardInv, Guard!GuardTyped, Guard!OnlyChild,
           Guard!NoCandidate, Guard!Released, Guard!NewGuard,
         Guard!NoSnapshot, Guard!NoChild

\* Releasing the child leaves nothing alive.
LEMMA ReleaseEnds ==
  ASSUME Guard!GuardTyped, Guard!OnlyChild, Guard!Release
  PROVE  /\ s5' = {} /\ s3'.child = Guard!NoChild
         /\ s3' \in [child : Inhibitors \cup {Guard!NoChild}, positives : Nat,
                        stopping : BOOLEAN]
  BY DEF Guard!GuardTyped, Guard!OnlyChild, Guard!Release

LEMMA CountedTyped ==
  ASSUME Guard!GuardAssumption, Guard!GuardTyped
  PROVE  Guard!Counted \in Nat
  BY DEF Guard!GuardAssumption, Guard!GuardTyped, Guard!Counted

\* A valid sample: a dead child is forgotten before another one is started.
LEMMA ValidHolds ==
  ASSUME Guard!GuardAssumption, Guard!GuardInv, Guard!UpdateValid
  PROVE  Guard!GuardInv'
<1>1. Guard!Counted \in Nat
  BY CountedTyped DEF Guard!GuardInv
<1>2. s6 = "connected" /\ s6' = "connected"
  BY DEF Guard!GuardInv, Guard!NoCandidate, Guard!UpdateValid, Guard!Qualifies, Guard!Polled
<1>3. s2 = "update" /\ s2' = "asleep" /\ UNCHANGED <<s1, s4>>
  BY DEF Guard!UpdateValid
<1>4. Guard!Held \in Inhibitors \cup {Guard!NoChild} /\ \A i \in s5 : i = Guard!Held
  BY DEF Guard!GuardInv, Guard!GuardTyped, Guard!OnlyChild, Guard!Held
<1>5. CASE Guard!Held = Guard!NoChild /\ Guard!Counted >= RequiredPositives
  <2>1. s5 = {}
    BY <1>4, <1>5 DEF Guard!GuardInv, Guard!OnlyChild
  <2>2. PICK i \in Inhibitors \ s5 :
          /\ s5' = s5 \cup {i}
          /\ s3' = [s3 EXCEPT !.positives = Guard!Counted, !.child = i]
    BY <1>5 DEF Guard!UpdateValid
  <2>3. Guard!GuardTyped' /\ s3'.child = i
    BY <1>1, <1>2, <1>3, <2>2 DEF Guard!GuardInv, Guard!GuardTyped
  <2>4. Guard!OnlyChild'
    BY <2>1, <2>2, <2>3 DEF Guard!OnlyChild, Guard!NoChild, Guard!GuardAssumption
  <2> QED
    BY <1>2, <1>3, <2>3, <2>4 DEF Guard!GuardInv, Guard!NoCandidate, Guard!Released
<1>6. CASE ~(Guard!Held = Guard!NoChild /\ Guard!Counted >= RequiredPositives)
  <2>1. /\ s3' = [s3 EXCEPT !.positives = Guard!Counted, !.child = Guard!Held]
        /\ s5' = s5
    BY <1>6 DEF Guard!UpdateValid
  <2>2. Guard!GuardTyped' /\ s3'.child = Guard!Held
    BY <1>1, <1>2, <1>3, <1>4, <2>1 DEF Guard!GuardInv, Guard!GuardTyped
  <2>3. Guard!OnlyChild'
    BY <1>4, <2>1, <2>2 DEF Guard!GuardInv, Guard!OnlyChild, Guard!NoChild
  <2> QED
    BY <1>2, <1>3, <2>2, <2>3 DEF Guard!GuardInv, Guard!NoCandidate, Guard!Released
<1> QED
  BY <1>5, <1>6

LEMMA GuardStepHolds ==
  ASSUME Guard!GuardAssumption, Guard!GuardInv, [Guard!Next]_slots
  PROVE  Guard!GuardInv'
<1>1. CASE Guard!UpdateValid
  BY <1>1, ValidHolds
<1> USE DEF Guard!GuardInv, Guard!OnlyChild, Guard!NoCandidate, Guard!Released
<1>2. CASE Guard!Start
  BY <1>2 DEF Guard!Start, Guard!GuardTyped, Guard!NewGuard, Guard!NoChild
<1>3. CASE Guard!Cable
  BY <1>3 DEF Guard!Cable, Guard!GuardTyped
<1>4. CASE Guard!ReadSignals
  <2>1. PICK c \in {s1 = "pc", FALSE} :
          s4' = [candidate |-> c, vbus |-> FALSE]
    BY <1>4 DEF Guard!ReadSignals
  <2>2. s4' \in [candidate : BOOLEAN, vbus : BOOLEAN]
        /\ (s1 # "pc" => ~s4'.candidate)
    BY <2>1
  <2> QED
    BY <1>4, <2>2 DEF Guard!ReadSignals, Guard!GuardTyped
<1>5. CASE Guard!ReadVbus
  BY <1>5 DEF Guard!ReadVbus, Guard!GuardTyped
<1>6. CASE Guard!UpdateInvalid
  BY <1>6, ReleaseEnds DEF Guard!UpdateInvalid, Guard!GuardTyped, Guard!Polled
<1>7. CASE Guard!Wake
  BY <1>7 DEF Guard!Wake, Guard!GuardTyped
<1>8. CASE Guard!StopSignal
  BY <1>8 DEF Guard!StopSignal, Guard!GuardTyped
<1>9. CASE Guard!Leave
  BY <1>9, ReleaseEnds DEF Guard!Leave, Guard!GuardTyped
<1>10. CASE Guard!InhibitorDies
  BY <1>10 DEF Guard!InhibitorDies, Guard!GuardTyped
<1>11. CASE Guard!Fail
  BY <1>11 DEF Guard!Fail, Guard!GuardTyped
<1>12. CASE UNCHANGED slots
  BY <1>12 DEF slots, Guard!GuardTyped
<1> QED
  BY <1>1, <1>2, <1>3, <1>4, <1>5, <1>6, <1>7, <1>8, <1>9, <1>10, <1>11, <1>12
           DEF Guard!Next

-----------------------------------------------------------------------------
(* The clock anchor: s1 is the true time, s2 the lag of the clock, s3 the      *)
(* counter's zero, s4 the anchor, s6 the capture, s7 the restore.              *)

\* Half a counter's second is all the division loses.
LEMMA CounterBounds ==
  ASSUME s1 \in Int, s3 \in Int
  PROVE  /\ Rtc!Counter \in Int
         /\ 2 * Rtc!Counter <= s1 - s3
         /\ s1 - s3 - 1 <= 2 * Rtc!Counter
  BY DEF Rtc!Counter

LEMMA Halves ==
  ASSUME NEW a \in Int, NEW b \in Int, b - a <= 4
  PROVE  (a + b) \div 2 \in Int /\ (a + b) \div 2 <= a + 2
  OBVIOUS

LEMMA BeforeTyped ==
  ASSUME NEW c \in Rtc!Captures, NEW t \in Int
  PROVE  LET d == [c EXCEPT !.pc = "rtc", !.before = t]
         IN  d \in Rtc!Captures /\ d.pc = "rtc" /\ d.before = t
  BY DEF Rtc!Captures, Rtc!Holding

LEMMA IdleTyped == Rtc!Idle \in Rtc!Captures /\ Rtc!Idle.pc = "idle"
  BY DEF Rtc!Idle, Rtc!Captures, Rtc!Holding

LEMMA ClockInitHolds == Rtc!RtcInit => Rtc!ClockInv
  BY DEF Rtc!RtcInit, Rtc!ClockInv, Rtc!Typed, Rtc!CaptureSound, Rtc!AnchorSound,
           Rtc!RestoreSound,
         Rtc!NotAhead, Rtc!None, Rtc!Idle, Rtc!Captures, Rtc!Holding

LEMMA BeforeHolds == Rtc!ClockInv /\ Rtc!Before => Rtc!ClockInv'
<1> SUFFICES ASSUME Rtc!ClockInv, Rtc!Before PROVE Rtc!ClockInv'
  OBVIOUS
<1>1. s1 \in Int /\ Rtc!Clock = 2 * s1
  BY DEF Rtc!Before, Rtc!Clock, Rtc!ClockInv, Rtc!Typed
<1>2. /\ s6' = [Rtc!Idle EXCEPT !.pc = "rtc", !.before = 2 * s1]
      /\ UNCHANGED <<s1, s2, s3, s4, s5, s7, s8>>
  BY <1>1 DEF Rtc!Before
<1>3. 2 * s1 \in Int
  BY <1>1
<1>4. s6' \in Rtc!Captures /\ s6'.pc = "rtc" /\ s6'.before = 2 * s1
  BY <1>2, <1>3, IdleTyped, BeforeTyped
<1>5. Rtc!Typed'
  BY <1>2, <1>4 DEF Rtc!ClockInv, Rtc!Typed
<1>6. Rtc!CaptureSound'
  BY <1>1, <1>2, <1>4 DEF Rtc!CaptureSound, Rtc!Holding
<1>7. Rtc!AnchorSound' /\ Rtc!RestoreSound' /\ Rtc!NotAhead'
  BY <1>2 DEF Rtc!ClockInv, Rtc!AnchorSound, Rtc!RestoreSound, Rtc!NotAhead, Rtc!Sound
<1> QED
  BY <1>5, <1>6, <1>7 DEF Rtc!ClockInv

LEMMA ClockStepHolds ==
  ASSUME StartLag \in Nat, Rtc!ClockInv, [Rtc!RtcNext]_slots
  PROVE  Rtc!ClockInv'
<1>1. CASE Rtc!Before
  BY <1>1, BeforeHolds
<1> USE DEF Rtc!ClockInv, Rtc!Typed, Rtc!Captures, Rtc!Holding
<1>2. CASE Rtc!ReadRtc
  <2>1. Rtc!Counter \in Int /\ s1 - s3 - 1 <= 2 * Rtc!Counter
    BY CounterBounds
  <2>2. /\ s6.pc = "rtc"
        /\ s6' = [s6 EXCEPT !.pc = "after", !.rtc = Rtc!Counter]
        /\ UNCHANGED <<s1, s2, s3, s4, s5, s7, s8>>
    BY <1>2 DEF Rtc!ReadRtc
  <2>3. Rtc!Typed'
    BY <2>1, <2>2
  <2>4. /\ s6'.pc = "after" /\ s6'.before = s6.before
        /\ s6'.rtc = Rtc!Counter /\ s6.before <= 2 * s1
    BY <2>2 DEF Rtc!CaptureSound
  <2>5. s6.before <= 4 * Rtc!Counter + 2 * s3 + 2
    BY <2>1, <2>4
  <2>6. Rtc!CaptureSound'
    BY <2>2, <2>4, <2>5 DEF Rtc!CaptureSound, Rtc!Sound
  <2> QED
    BY <2>2, <2>3, <2>6 DEF Rtc!AnchorSound, Rtc!RestoreSound, Rtc!NotAhead, Rtc!Sound
<1>3. CASE Rtc!After
  <2>1. CASE Rtc!InTime(s6.before, Rtc!Clock)
    <3>1. Rtc!Clock \in Int
      BY DEF Rtc!Clock
    <3>2. (s6.before + Rtc!Clock) \div 2 \in Int
          /\ (s6.before + Rtc!Clock) \div 2 <= s6.before + 2
      BY <2>1, <3>1, Halves DEF Rtc!InTime
    <3>3. s6.pc = "after"
          /\ s6' = [s6 EXCEPT !.pc = "open",
                                        !.unix = (s6.before + Rtc!Clock) \div 2]
          /\ UNCHANGED <<s1, s2, s3, s4, s5, s7, s8>>
      BY <1>3, <2>1 DEF Rtc!After
    <3>4. Rtc!Typed'
      BY <3>2, <3>3
    <3>5. Rtc!Sound(s6'.unix, s6'.rtc, 4)
      BY <3>2, <3>3 DEF Rtc!CaptureSound, Rtc!Sound
    <3> QED
      BY <3>3, <3>4, <3>5
      DEF Rtc!CaptureSound, Rtc!AnchorSound, Rtc!RestoreSound, Rtc!NotAhead, Rtc!Sound
  <2>2. CASE ~Rtc!InTime(s6.before, Rtc!Clock)
    BY <1>3, <2>2
    DEF Rtc!After, Rtc!Idle, Rtc!CaptureSound, Rtc!AnchorSound, Rtc!RestoreSound,
             Rtc!NotAhead, Rtc!Sound
  <2> QED BY <2>1, <2>2
<1>4. CASE Rtc!OpenNew
  BY <1>4 DEF Rtc!OpenNew, Rtc!Idle, Rtc!CaptureSound, Rtc!AnchorSound, Rtc!RestoreSound,
           Rtc!NotAhead, Rtc!Sound
<1>5. CASE Rtc!WriteNew
  BY <1>5 DEF Rtc!WriteNew, Rtc!Idle, Rtc!CaptureSound, Rtc!AnchorSound,
           Rtc!RestoreSound, Rtc!NotAhead, Rtc!Sound
<1>6. CASE Rtc!ReplaceAnchor
  BY <1>6 DEF Rtc!ReplaceAnchor, Rtc!Idle, Rtc!CaptureSound, Rtc!AnchorSound,
           Rtc!RestoreSound, Rtc!NotAhead, Rtc!Sound
<1>7. CASE Rtc!Evaluate
  <2>1. Rtc!Target \in Int /\ Rtc!Target <= 2 * s1 + 4
    BY <1>7, CounterBounds DEF Rtc!Evaluate, Rtc!Target, Rtc!Elapsed, Rtc!AnchorSound,
             Rtc!Sound
  <2> QED
    BY <1>7, <2>1 DEF Rtc!Evaluate, Rtc!CaptureSound, Rtc!AnchorSound, Rtc!RestoreSound,
             Rtc!NotAhead, Rtc!Sound
<1>8. CASE Rtc!SetClock
  BY <1>8 DEF Rtc!SetClock, Rtc!CaptureSound, Rtc!AnchorSound, Rtc!RestoreSound,
           Rtc!NotAhead, Rtc!Sound
<1>9. CASE Rtc!Passes
  BY <1>9 DEF Rtc!Passes, Rtc!CaptureSound, Rtc!AnchorSound, Rtc!RestoreSound,
           Rtc!NotAhead, Rtc!Sound
<1>10. CASE Rtc!Synchronised
  BY <1>10 DEF Rtc!Synchronised, Rtc!CaptureSound, Rtc!AnchorSound, Rtc!RestoreSound,
           Rtc!NotAhead, Rtc!Sound
<1>11. CASE Rtc!Restarted
  <2>1. s3' \in Int /\ s3 <= s3' /\ s3' <= s1 /\ s1' = s1
    BY <1>11 DEF Rtc!Restarted
  <2>2. Rtc!AnchorSound'
    BY <1>11, <2>1 DEF Rtc!Restarted, Rtc!AnchorSound, Rtc!Sound
  <2> QED
    BY <1>11, <2>1, <2>2 DEF Rtc!Restarted, Rtc!Idle, Rtc!CaptureSound, Rtc!RestoreSound,
             Rtc!NotAhead
<1>12. CASE UNCHANGED slots
  BY <1>12 DEF slots, Rtc!CaptureSound, Rtc!AnchorSound, Rtc!RestoreSound, Rtc!NotAhead,
           Rtc!Sound
<1> QED
  BY <1>1, <1>2, <1>3, <1>4, <1>5, <1>6, <1>7, <1>8, <1>9, <1>10, <1>11, <1>12
           DEF Rtc!RtcNext

-----------------------------------------------------------------------------
(* The time seed: s1 is the clock, s2 the directory, s3 what a loss of power   *)
(* leaves, s4 the unit, s5 the run, s7 the largest seed so far, s8 the past.   *)

LEMMA NoSeedRun ==
  ASSUME Seed!SeedAssumption
  PROVE  /\ Seed!NoRun \in Seed!RunTypes
         /\ Seed!NoRun.pc = "none" /\ Seed!NoRun.mode = "save"
<1>1. (CHOOSE p \in Pids : TRUE) \in Pids
  BY DEF Seed!SeedAssumption
<1> QED
  BY <1>1 DEF Seed!NoRun, Seed!RunTypes

LEMMA SeedInitHolds ==
  ASSUME Seed!SeedAssumption, Seed!SeedInit
  PROVE  Seed!SeedInv
<1>1. Seed!Typed
  BY NoSeedRun DEF Seed!SeedAssumption, Seed!SeedInit, Seed!Typed, Seed!Absent
<1> QED
  BY <1>1, NoSeedRun
  DEF Seed!SeedInit, Seed!SeedInv, Seed!RunServes, Seed!NotBefore, Seed!ClockReached,
      Seed!OnlyOwnLeft, Seed!SeedNotLost, Seed!FloorHolds, Seed!Restoring, Seed!Typed

\* The run goes on: only its step changes, and what it has read.
LEMMA SeedGoesOn ==
  ASSUME Seed!SeedInv, s5' \in Seed!RunTypes,
         s5'.mode = s5.mode, s5'.pid = s5.pid, s5.pc # "none", s5'.pc # "none",
         s5'.pc \in Seed!Restoring => s5.pc \in Seed!Restoring,
         s1' \in Nat, s1' >= s1 \/ s4 = "starting",
         s5'.pc \notin Seed!Restoring /\ s5.mode = "restore" => s1' >= 2 * s5'.seed,
         s2' \in [seed : Nat, tmp : [Pids -> Int]], s2'.seed >= s2.seed,
         s5'.pc \in {"create", "write", "move"} => s5'.now >= s2'.seed,
         \A p \in Pids : s2'.tmp[p] # Seed!Absent =>
           \/ p = s5.pid /\ s5'.pc \in {"write", "move"}
           \/ s2.tmp[p] # Seed!Absent /\ (p # s5.pid \/ s8.cut),
         UNCHANGED <<s3, s4, s7, s8>>
  PROVE  Seed!SeedInv'
<1> USE DEF Seed!SeedInv
<1>1. Seed!Typed'
  BY DEF Seed!Typed
<1>2. Seed!RunServes' /\ Seed!ClockReached' /\ Seed!NotBefore'
  BY DEF Seed!RunServes, Seed!ClockReached, Seed!NotBefore, Seed!Typed
<1>3. Seed!OnlyOwnLeft'
  BY DEF Seed!OnlyOwnLeft, Seed!Typed, Seed!Absent
<1>4. Seed!SeedNotLost'
  BY DEF Seed!SeedNotLost, Seed!Typed
<1>5. Seed!FloorHolds'
  BY DEF Seed!FloorHolds, Seed!Typed
<1> QED
  BY <1>1, <1>2, <1>3, <1>4, <1>5

\* The run ends: a start is good only when the clock was restored.
LEMMA SeedRunEnds ==
  ASSUME Seed!SeedAssumption, Seed!SeedInv, NEW good \in BOOLEAN, Seed!Ends(good),
         s5.pc # "none", good => s5.pc \notin Seed!Restoring,
         s2' \in [seed : Nat, tmp : [Pids -> Int]], s3' \in Nat, s7' \in Nat,
         Seed!SeedNotLost',
         \A p \in Pids : s2'.tmp[p] # Seed!Absent => s8.cut,
         UNCHANGED s1
  PROVE  Seed!SeedInv'
<1> USE DEF Seed!SeedInv
<1>1. /\ s5' = Seed!NoRun /\ s4' = Seed!Unit(good)
      /\ s8' = [s8 EXCEPT !.floor = IF s5.mode = "restore" /\ good THEN s5.seed ELSE @]
  BY DEF Seed!Ends
<1>2. s5 \in Seed!RunTypes /\ s8 \in [floor : Nat, cut : BOOLEAN] /\ s1 \in Nat
  BY DEF Seed!Typed
<1>3. /\ s8' \in [floor : Nat, cut : BOOLEAN] /\ s8'.cut = s8.cut
      /\ s8'.floor = IF s5.mode = "restore" /\ good THEN s5.seed ELSE s8.floor
  BY <1>1, <1>2 DEF Seed!RunTypes
<1>4. s4' \in {"off", "starting", "active", "failed", "stopping"}
  BY <1>1, <1>2 DEF Seed!Unit, Seed!Typed, Seed!RunTypes
<1>5. Seed!Typed'
  BY <1>1, <1>2, <1>3, <1>4, NoSeedRun DEF Seed!Typed
<1>6. Seed!RunServes' /\ Seed!ClockReached' /\ Seed!NotBefore'
  BY <1>1, NoSeedRun DEF Seed!RunServes, Seed!ClockReached, Seed!NotBefore, Seed!Restoring
<1>7. Seed!OnlyOwnLeft'
  BY <1>3 DEF Seed!OnlyOwnLeft, Seed!Absent
<1>8. Seed!FloorHolds'
  <2>1. CASE s5.mode = "restore"
    BY <1>1, <1>2, <1>3, <2>1 DEF Seed!Unit, Seed!FloorHolds, Seed!ClockReached
  <2>2. CASE s5.mode # "restore"
    BY <1>1, <1>2, <1>3, <2>2 DEF Seed!Unit, Seed!FloorHolds, Seed!RunTypes
  <2> QED
    BY <2>1, <2>2
<1> QED
  BY <1>5, <1>6, <1>7, <1>8

LEMMA SeedFails ==
  ASSUME Seed!SeedAssumption, Seed!SeedInv, s5.pc # "none",
         NEW trapped \in BOOLEAN, Seed!Fails(trapped),
         s5.pc \in {"write", "move"} => trapped,
         UNCHANGED <<s1, s3, s7>>
  PROVE  Seed!SeedInv'
<1>1. s2' \in [seed : Nat, tmp : [Pids -> Int]] /\ s2'.seed = s2.seed
      /\ \A p \in Pids : s2'.tmp[p] # Seed!Absent =>
           s2.tmp[p] # Seed!Absent /\ (trapped => p # s5.pid)
  BY DEF Seed!Fails, Seed!SeedInv, Seed!Typed, Seed!Absent, Seed!RunTypes
<1>2. \A p \in Pids : s2'.tmp[p] # Seed!Absent => s8.cut
  BY <1>1 DEF Seed!SeedInv, Seed!OnlyOwnLeft
<1>3. s3' \in Nat /\ s7' \in Nat /\ Seed!SeedNotLost'
  BY <1>1 DEF Seed!SeedInv, Seed!Typed, Seed!SeedNotLost
<1> QED
  BY <1>1, <1>2, <1>3, SeedRunEnds DEF Seed!Fails

\* The two halves of a run.
LEMMA SeedRestoreHolds ==
  ASSUME Seed!SeedAssumption, Seed!SeedInv,
         Seed!ReadSeed \/ Seed!ReadClock \/ Seed!SetClock \/ Seed!Verify
  PROVE  Seed!SeedInv'
<1>1. /\ s5 \in Seed!RunTypes /\ s2 \in [seed : Nat, tmp : [Pids -> Int]] /\ s1 \in Nat
      /\ s5.pc \in Seed!Restoring /\ s5.pc \notin {"none", "write", "move"}
      /\ s5.mode = "restore" /\ s4 = "starting"
  BY DEF Seed!SeedInv, Seed!Typed, Seed!RunServes, Seed!Restoring, Seed!ReadSeed,
         Seed!ReadClock, Seed!SetClock, Seed!Verify
<1>2. \A p \in Pids : s2.tmp[p] # Seed!Absent => s8.cut
  BY <1>1 DEF Seed!SeedInv, Seed!OnlyOwnLeft, Seed!Restoring
<1>3. ASSUME s5' \in Seed!RunTypes, s5'.mode = s5.mode, s5'.pid = s5.pid,
             s5'.pc \in {"current", "set", "verify", "now"}, s1' \in Nat,
             s5'.pc = "now" => s1' >= 2 * s5'.seed,
             UNCHANGED <<s2, s3, s4, s7, s8>>
      PROVE  Seed!SeedInv'
  <2>1. s5'.pc \notin Seed!Restoring => s5'.pc = "now"
    BY <1>3 DEF Seed!Restoring
  <2>2. \A p \in Pids : s2'.tmp[p] # Seed!Absent =>
           s2.tmp[p] # Seed!Absent /\ (p # s5.pid \/ s8.cut)
    BY <1>2, <1>3
  <2> QED
    BY <1>1, <1>3, <2>1, <2>2, SeedGoesOn
<1>4. CASE Seed!ReadSeed
  <2>1. /\ s5' = [s5 EXCEPT !.pc = "current", !.seed = s2.seed]
        /\ UNCHANGED <<s1, s2, s3, s4, s7, s8>>
    BY <1>4 DEF Seed!ReadSeed, Seed!Disk
  <2>2. /\ s5' \in Seed!RunTypes /\ s5'.mode = s5.mode /\ s5'.pid = s5.pid
        /\ s5'.pc = "current"
    BY <1>1, <2>1 DEF Seed!RunTypes
  <2> QED
    BY <1>1, <1>3, <2>1, <2>2
<1>5. CASE Seed!ReadClock
  <2>1. /\ s5' = [s5 EXCEPT !.pc = IF Seed!Second < s5.seed THEN "set" ELSE "now"]
        /\ UNCHANGED <<s1, s2, s3, s4, s7, s8>>
    BY <1>5 DEF Seed!ReadClock, Seed!Disk, Seed!Goto
  <2>2. /\ s5' \in Seed!RunTypes /\ s5'.mode = s5.mode /\ s5'.pid = s5.pid
        /\ s5'.seed = s5.seed
        /\ s5'.pc = IF Seed!Second < s5.seed THEN "set" ELSE "now"
    BY <1>1, <2>1 DEF Seed!RunTypes
  <2>3. s5'.pc = "now" => s1 >= 2 * s5'.seed
    BY <1>1, <2>2 DEF Seed!Second, Seed!RunTypes
  <2> QED
    BY <1>1, <1>3, <2>1, <2>2, <2>3
<1>6. CASE Seed!SetClock
  <2>1. CASE Seed!Fails(FALSE) /\ UNCHANGED s1
    BY <1>1, <1>6, <2>1, SeedFails DEF Seed!SetClock
  <2>2. CASE ~(Seed!Fails(FALSE) /\ UNCHANGED s1)
    <3>1. /\ s5' = [s5 EXCEPT !.pc = "verify"] /\ s1' = 2 * s5.seed
          /\ UNCHANGED <<s2, s3, s4, s7, s8>>
      BY <1>6, <2>2 DEF Seed!SetClock, Seed!Goto
    <3>2. /\ s5' \in Seed!RunTypes /\ s5'.mode = s5.mode /\ s5'.pid = s5.pid
          /\ s5'.pc = "verify" /\ s1' \in Nat
      BY <1>1, <3>1 DEF Seed!RunTypes
    <3> QED
      BY <1>3, <3>1, <3>2
  <2> QED
    BY <2>1, <2>2
<1>7. CASE Seed!Verify
  <2>1. CASE Seed!Second >= s5.seed
    <3>1. s5' = [s5 EXCEPT !.pc = "now"] /\ UNCHANGED <<s1, s2, s3, s4, s7, s8>>
      BY <1>7, <2>1 DEF Seed!Verify, Seed!Goto
    <3>2. /\ s5' \in Seed!RunTypes /\ s5'.mode = s5.mode /\ s5'.pid = s5.pid
          /\ s5'.pc = "now" /\ s5'.seed = s5.seed
      BY <1>1, <3>1 DEF Seed!RunTypes
    <3>3. s1 >= 2 * s5'.seed
      BY <1>1, <2>1, <3>2 DEF Seed!Second, Seed!RunTypes
    <3> QED
      BY <1>1, <1>3, <3>1, <3>2, <3>3
  <2>2. CASE ~(Seed!Second >= s5.seed)
    BY <1>1, <1>7, <2>2, SeedFails DEF Seed!Verify
  <2> QED
    BY <2>1, <2>2
<1> QED
  BY <1>4, <1>5, <1>6, <1>7

LEMMA SeedSaveHolds ==
  ASSUME Seed!SeedAssumption, Seed!SeedInv,
         Seed!ReadNow \/ Seed!Previous \/ Seed!Create \/ Seed!Write \/ Seed!Move
           \/ Seed!Sync
  PROVE  Seed!SeedInv'
<1>1. /\ s5 \in Seed!RunTypes /\ s2 \in [seed : Nat, tmp : [Pids -> Int]] /\ s1 \in Nat
      /\ s3 \in Nat /\ s7 \in Nat /\ s8 \in [floor : Nat, cut : BOOLEAN]
      /\ s5.pc \in {"now", "previous", "create", "write", "move", "sync"}
  BY DEF Seed!SeedInv, Seed!Typed, Seed!ReadNow, Seed!Previous, Seed!Create, Seed!Write,
         Seed!Move, Seed!Sync
<1>2. /\ s5.mode = "restore" => s1 >= 2 * s5.seed
      /\ \A p \in Pids : s2.tmp[p] # Seed!Absent =>
           s8.cut \/ (p = s5.pid /\ s5.pc \in {"write", "move"})
  BY <1>1 DEF Seed!SeedInv, Seed!OnlyOwnLeft, Seed!ClockReached, Seed!Restoring
<1>3. /\ s7 <= s3 /\ s7 <= s2.seed
      /\ s5.pc \in {"create", "write", "move"} => s5.now >= s2.seed
  BY <1>1 DEF Seed!SeedInv, Seed!SeedNotLost, Seed!NotBefore, Seed!Typed
\* A step that moves the run on, and touches no temporary file but its own.
<1>4. ASSUME s5' \in Seed!RunTypes, s5'.mode = s5.mode, s5'.pid = s5.pid,
             s5'.seed = s5.seed,
             s5'.pc \in {"previous", "create", "write", "move", "sync"},
             s2' \in [seed : Nat, tmp : [Pids -> Int]], s2'.seed >= s2.seed,
             s5'.pc \in {"create", "write", "move"} => s5'.now >= s2'.seed,
             \A p \in Pids : p # s5.pid => s2'.tmp[p] = s2.tmp[p],
             s5'.pc \notin {"write", "move"} /\ s2'.tmp[s5.pid] # Seed!Absent =>
               s2.tmp[s5.pid] # Seed!Absent /\ s5.pc \notin {"write", "move"},
             UNCHANGED <<s1, s3, s4, s7, s8>>
      PROVE  Seed!SeedInv'
  <2>1. \A p \in Pids : s2'.tmp[p] # Seed!Absent =>
           \/ p = s5.pid /\ s5'.pc \in {"write", "move"}
           \/ s2.tmp[p] # Seed!Absent /\ (p # s5.pid \/ s8.cut)
    BY <1>2, <1>4
  <2>2. s5'.pc \notin Seed!Restoring \cup {"none"} /\ s5.pc # "none" /\ s1' >= s1
    BY <1>1, <1>4 DEF Seed!Restoring
  <2>3. s5.mode = "restore" => s1' >= 2 * s5'.seed
    BY <1>2, <1>4
  <2> QED
    BY <1>1, <1>4, <2>1, <2>2, <2>3, SeedGoesOn
<1>5. ASSUME NEW pc \in {"create", "write", "move", "sync"}, s5' = [s5 EXCEPT !.pc = pc]
      PROVE  /\ s5' \in Seed!RunTypes /\ s5'.mode = s5.mode /\ s5'.pid = s5.pid
             /\ s5'.seed = s5.seed /\ s5'.now = s5.now /\ s5'.pc = pc
  BY <1>1, <1>5 DEF Seed!RunTypes
<1>6. ASSUME Seed!Fails(TRUE), UNCHANGED <<s1, s3, s7>>
      PROVE  Seed!SeedInv'
  BY <1>1, <1>6, SeedFails
<1>7. s5.pid \in Pids
  BY <1>1 DEF Seed!RunTypes
<1>8. CASE Seed!ReadNow
  <2>1. Seed!Second \in Nat
    BY <1>1 DEF Seed!Second
  <2>2. /\ s5' = [s5 EXCEPT !.pc = "previous", !.now = Seed!Second] /\ s5.pc = "now"
        /\ UNCHANGED <<s1, s2, s3, s4, s7, s8>>
    BY <1>8 DEF Seed!ReadNow, Seed!Disk
  <2>3. /\ s5' \in Seed!RunTypes /\ s5'.mode = s5.mode /\ s5'.pid = s5.pid
        /\ s5'.seed = s5.seed /\ s5'.pc = "previous"
    BY <1>1, <2>1, <2>2 DEF Seed!RunTypes
  <2> QED
    BY <1>1, <1>4, <2>2, <2>3
<1>9. CASE Seed!Previous
  <2>1. CASE s5.now < s2.seed
    <3>1. Seed!Ends(TRUE) /\ UNCHANGED <<s1, s2, s3, s7>> /\ s5.pc = "previous"
      BY <1>9, <2>1 DEF Seed!Previous, Seed!Disk
    <3>2. Seed!SeedNotLost' /\ s5.pc \notin Seed!Restoring /\ s5.pc # "none"
      BY <1>1, <1>3, <3>1 DEF Seed!SeedNotLost, Seed!Restoring
    <3> QED
      BY <1>1, <1>2, <3>1, <3>2, SeedRunEnds
  <2>2. CASE ~(s5.now < s2.seed)
    <3>1. s5' = [s5 EXCEPT !.pc = "create"] /\ UNCHANGED <<s1, s2, s3, s4, s7, s8>>
          /\ s5.pc = "previous"
      BY <1>9, <2>2 DEF Seed!Previous, Seed!Disk, Seed!Goto
    <3>2. s5.now >= s2.seed
      BY <1>1, <2>2 DEF Seed!RunTypes
    <3> QED
      BY <1>1, <1>4, <1>5, <3>1, <3>2
  <2> QED
    BY <2>1, <2>2
<1>10. CASE Seed!Create
  <2>1. CASE s2.tmp[s5.pid] # Seed!Absent
    BY <1>6, <1>10, <2>1 DEF Seed!Create
  <2>2. CASE s2.tmp[s5.pid] = Seed!Absent
    <3>1. /\ s5' = [s5 EXCEPT !.pc = "write"] /\ s2' = [s2 EXCEPT !.tmp[s5.pid] = Seed!Part]
          /\ UNCHANGED <<s1, s3, s4, s7, s8>> /\ s5.pc = "create"
      BY <1>10, <2>2 DEF Seed!Create, Seed!Goto
    <3>2. s2' \in [seed : Nat, tmp : [Pids -> Int]] /\ s2'.seed = s2.seed
          /\ \A p \in Pids : p # s5.pid => s2'.tmp[p] = s2.tmp[p]
      BY <1>1, <1>7, <3>1 DEF Seed!Part
    <3> QED
      BY <1>1, <1>3, <1>4, <1>5, <3>1, <3>2
  <2> QED
    BY <2>1, <2>2
<1>11. CASE Seed!Write
  <2>1. CASE Seed!Fails(TRUE)
    BY <1>6, <1>11, <2>1 DEF Seed!Write
  <2>2. CASE ~Seed!Fails(TRUE)
    <3>1. /\ s5' = [s5 EXCEPT !.pc = "move"] /\ s2' = [s2 EXCEPT !.tmp[s5.pid] = s5.now]
          /\ UNCHANGED <<s1, s3, s4, s7, s8>> /\ s5.pc = "write"
      BY <1>11, <2>2 DEF Seed!Write, Seed!Goto
    <3>2. s2' \in [seed : Nat, tmp : [Pids -> Int]] /\ s2'.seed = s2.seed
          /\ \A p \in Pids : p # s5.pid => s2'.tmp[p] = s2.tmp[p]
      BY <1>1, <1>7, <3>1 DEF Seed!RunTypes
    <3> QED
      BY <1>1, <1>3, <1>4, <1>5, <3>1, <3>2
  <2> QED
    BY <2>1, <2>2
<1>12. CASE Seed!Move
  <2>1. CASE Seed!Fails(TRUE)
    BY <1>6, <1>12, <2>1 DEF Seed!Move
  <2>2. CASE ~Seed!Fails(TRUE)
    <3>1. /\ s5' = [s5 EXCEPT !.pc = "sync"]
          /\ s2' = [s2 EXCEPT !.seed = s5.now, !.tmp[s5.pid] = Seed!Absent]
          /\ UNCHANGED <<s1, s3, s4, s7, s8>> /\ s5.pc = "move"
      BY <1>12, <2>2 DEF Seed!Move, Seed!Goto
    <3>2. s5.now \in Nat /\ Seed!Absent \in Int
      BY <1>1 DEF Seed!Absent, Seed!RunTypes
    <3>3. /\ s2' \in [seed : Nat, tmp : [Pids -> Int]] /\ s2'.seed = s5.now
          /\ s2'.tmp[s5.pid] = Seed!Absent
          /\ \A p \in Pids : p # s5.pid => s2'.tmp[p] = s2.tmp[p]
      BY <1>1, <1>7, <3>1, <3>2
    <3> QED
      BY <1>1, <1>3, <1>4, <1>5, <3>1, <3>2, <3>3
  <2> QED
    BY <2>1, <2>2
<1>13. CASE Seed!Sync
  <2>1. CASE Seed!Fails(TRUE) /\ UNCHANGED <<s3, s7>>
    BY <1>6, <1>13, <2>1 DEF Seed!Sync
  <2>2. CASE ~(Seed!Fails(TRUE) /\ UNCHANGED <<s3, s7>>)
    <3>1. /\ Seed!Ends(TRUE) /\ UNCHANGED <<s1, s2>> /\ s5.pc = "sync"
          /\ s3' = s2.seed /\ s7' = IF s2.seed > s7 THEN s2.seed ELSE s7
      BY <1>13, <2>2 DEF Seed!Sync
    <3>2. Seed!SeedNotLost' /\ s5.pc \notin Seed!Restoring /\ s5.pc # "none"
          /\ s3' \in Nat /\ s7' \in Nat
      BY <1>1, <1>3, <3>1 DEF Seed!SeedNotLost, Seed!Restoring
    <3> QED
      BY <1>1, <1>2, <3>1, <3>2, SeedRunEnds
  <2> QED
    BY <2>1, <2>2
<1> QED
  BY <1>8, <1>9, <1>10, <1>11, <1>12, <1>13

\* The run is ended from outside.
LEMMA SeedCutHolds ==
  ASSUME Seed!SeedAssumption, Seed!SeedInv,
         Seed!Terminated \/ Seed!Killed \/ Seed!PowerLoss
  PROVE  Seed!SeedInv'
<1>1. /\ s5 \in Seed!RunTypes /\ s2 \in [seed : Nat, tmp : [Pids -> Int]] /\ s1 \in Nat
      /\ s3 \in Nat /\ s7 \in Nat /\ s8 \in [floor : Nat, cut : BOOLEAN]
      /\ s7 <= s3 /\ s7 <= s2.seed
  BY DEF Seed!SeedInv, Seed!Typed, Seed!SeedNotLost
<1>2. CASE Seed!Terminated
  <2>1. s5.pc # "none" /\ UNCHANGED <<s1, s3, s7>>
    BY <1>2 DEF Seed!Terminated
  <2>2. CASE s5.pc \in {"write", "move", "sync"}
    <3>1. Seed!Fails(TRUE)
      BY <1>2, <2>2 DEF Seed!Terminated, Seed!Fails
    <3> QED
      BY <2>1, <3>1, SeedFails
  <2>3. CASE s5.pc \notin {"write", "move", "sync"}
    <3>1. Seed!Fails(FALSE)
      BY <1>2, <2>3 DEF Seed!Terminated, Seed!Fails
    <3> QED
      BY <2>1, <2>3, <3>1, SeedFails
  <2> QED
    BY <2>2, <2>3
\* No run is left, and something may be in the way.
<1>3. ASSUME s5' = Seed!NoRun, s8' = [s8 EXCEPT !.cut = TRUE], s1' = s1, s7' = s7,
             s3' \in {s3, s2.seed}, s2' \in [seed : Nat, tmp : [Pids -> Int]],
             s2'.seed \in {s3, s2.seed},
             s4' \in {"off", "starting", "active", "failed", "stopping"},
             s4' = "active" => s4 = "active"
      PROVE  Seed!SeedInv'
  <2>1. s8' \in [floor : Nat, cut : BOOLEAN] /\ s8'.cut /\ s8'.floor = s8.floor
    BY <1>1, <1>3
  <2>2. Seed!Typed'
    BY <1>1, <1>3, <2>1, NoSeedRun DEF Seed!Typed
  <2>3. Seed!RunServes' /\ Seed!ClockReached' /\ Seed!NotBefore' /\ Seed!OnlyOwnLeft'
    BY <1>3, <2>1, NoSeedRun
    DEF Seed!RunServes, Seed!ClockReached, Seed!NotBefore, Seed!Restoring,
        Seed!OnlyOwnLeft
  <2>4. Seed!SeedNotLost' /\ Seed!FloorHolds'
    BY <1>1, <1>3, <2>1 DEF Seed!SeedInv, Seed!SeedNotLost, Seed!FloorHolds
  <2> QED
    BY <2>2, <2>3, <2>4 DEF Seed!SeedInv
<1>4. CASE Seed!Killed
  <2>1. /\ s4' \in {"off", "starting", "active", "failed", "stopping"}
        /\ s4' = "active" => s4 = "active"
    BY <1>1, <1>4 DEF Seed!Killed, Seed!Unit, Seed!SeedInv, Seed!Typed
  <2> QED
    BY <1>1, <1>3, <1>4, <2>1 DEF Seed!Killed, Seed!Disk
<1>5. CASE Seed!PowerLoss
  <2>1. PICK s \in {s3, s2.seed}, t \in {Seed!Absent, Seed!Part, s2.tmp[s5.pid]} :
          s3' = s /\ s2' = [s2 EXCEPT !.seed = s, !.tmp[s5.pid] = t]
    BY <1>5 DEF Seed!PowerLoss
  <2>2. t \in Int /\ s \in Nat
    BY <1>1 DEF Seed!Absent, Seed!Part, Seed!RunTypes
  <2>3. s2' \in [seed : Nat, tmp : [Pids -> Int]] /\ s2'.seed = s
    BY <1>1, <2>1, <2>2
  <2> QED
    BY <1>3, <1>5, <2>1, <2>3 DEF Seed!PowerLoss
<1> QED
  BY <1>2, <1>4, <1>5

LEMMA SeedStartTypes ==
  ASSUME Seed!SeedAssumption, NEW mode \in {"restore", "save", "stop"}, NEW p \in Pids,
         Seed!Start(mode, p)
  PROVE  /\ s5' \in Seed!RunTypes /\ s5'.mode = mode /\ s5'.pid = p
         /\ s5'.pc = IF mode = "restore" THEN "seed" ELSE "now"
  BY NoSeedRun DEF Seed!Start, Seed!RunTypes

\* systemd, the clock and who sets it.
LEMMA SeedWorldHolds ==
  ASSUME Seed!SeedAssumption, Seed!SeedInv, NEW p \in Pids, NEW c \in 0..MaxClock,
         Seed!Boot(p, c) \/ Seed!Timer(p) \/ Seed!Shutdown(p) \/ Seed!Tick
           \/ Seed!Discipline(c)
  PROVE  Seed!SeedInv'
<1>1. /\ s5 \in Seed!RunTypes /\ s1 \in Nat /\ s8 \in [floor : Nat, cut : BOOLEAN]
      /\ MaxClock \in Nat /\ c \in Nat
  BY DEF Seed!SeedInv, Seed!Typed, Seed!SeedAssumption
<1>2. s5 = Seed!NoRun => \A q \in Pids : s2.tmp[q] # Seed!Absent => s8.cut
  BY NoSeedRun DEF Seed!SeedInv, Seed!OnlyOwnLeft
<1> USE DEF Seed!SeedInv, Seed!Disk
<1>3. CASE Seed!Boot(p, c)
  <2>1. /\ s5 = Seed!NoRun /\ s4' = "starting" /\ s1' = c /\ Seed!Start("restore", p)
        /\ s8' = [s8 EXCEPT !.floor = 0] /\ UNCHANGED <<s2, s3, s7>>
    BY <1>3 DEF Seed!Boot
  <2>2. s5' \in Seed!RunTypes /\ s5'.mode = "restore" /\ s5'.pc = "seed"
    BY <2>1, SeedStartTypes
  <2>3. s8' \in [floor : Nat, cut : BOOLEAN] /\ s8'.cut = s8.cut
    BY <1>1, <2>1
  <2>4. Seed!Typed'
    BY <1>1, <2>1, <2>2, <2>3 DEF Seed!Typed
  <2>5. Seed!RunServes' /\ Seed!ClockReached' /\ Seed!NotBefore' /\ Seed!FloorHolds'
    BY <2>1, <2>2
    DEF Seed!RunServes, Seed!ClockReached, Seed!NotBefore, Seed!Restoring,
        Seed!FloorHolds
  <2>6. Seed!OnlyOwnLeft' /\ Seed!SeedNotLost'
    BY <1>2, <2>1, <2>3 DEF Seed!OnlyOwnLeft, Seed!SeedNotLost, Seed!Absent
  <2> QED
    BY <2>4, <2>5, <2>6
\* A run that saves begins while the service is active, or as it stops.
<1>4. ASSUME NEW mode \in {"save", "stop"}, Seed!Start(mode, p), s5 = Seed!NoRun,
             s4' = IF mode = "save" THEN "active" ELSE "stopping", s4 = "active",
             UNCHANGED <<s1, s2, s3, s7, s8>>
      PROVE  Seed!SeedInv'
  <2>1. s5' \in Seed!RunTypes /\ s5'.mode = mode /\ s5'.pc = "now"
    BY <1>4, SeedStartTypes
  <2>2. Seed!Typed'
    BY <1>1, <1>4, <2>1 DEF Seed!Typed
  <2>3. Seed!RunServes' /\ Seed!ClockReached' /\ Seed!NotBefore' /\ Seed!FloorHolds'
    BY <1>4, <2>1
    DEF Seed!RunServes, Seed!ClockReached, Seed!NotBefore, Seed!Restoring,
        Seed!FloorHolds
  <2>4. Seed!OnlyOwnLeft' /\ Seed!SeedNotLost'
    BY <1>2, <1>4 DEF Seed!OnlyOwnLeft, Seed!SeedNotLost, Seed!Absent
  <2> QED
    BY <2>2, <2>3, <2>4
<1>5. CASE Seed!Timer(p)
  <2>1. /\ Seed!Start("save", p) /\ s5 = Seed!NoRun /\ s4 = "active"
        /\ UNCHANGED <<s1, s2, s3, s4, s7, s8>>
    BY <1>5 DEF Seed!Timer
  <2> QED
    BY <1>4, <2>1
<1>6. CASE Seed!Shutdown(p)
  <2>1. CASE s4 = "active"
    <3>1. /\ Seed!Start("stop", p) /\ s5 = Seed!NoRun /\ s4' = "stopping"
          /\ UNCHANGED <<s1, s2, s3, s7, s8>>
      BY <1>6, <2>1 DEF Seed!Shutdown
    <3> QED
      BY <1>4, <2>1, <3>1
  <2>2. CASE s4 # "active"
    <3>1. s5 = Seed!NoRun /\ s4' = "off" /\ UNCHANGED <<s1, s2, s3, s5, s7, s8>>
      BY <1>6, <2>2 DEF Seed!Shutdown
    <3> QED
      BY <3>1, NoSeedRun
      DEF Seed!Typed, Seed!RunServes, Seed!ClockReached, Seed!NotBefore,
          Seed!Restoring, Seed!OnlyOwnLeft, Seed!SeedNotLost, Seed!FloorHolds
  <2> QED
    BY <2>1, <2>2
<1>7. CASE Seed!Tick
  <2>1. s1' \in Nat /\ s1' >= s1 /\ UNCHANGED <<s2, s3, s4, s5, s7, s8>>
    BY <1>1, <1>7 DEF Seed!Tick
  <2>2. Seed!Typed' /\ Seed!RunServes' /\ Seed!NotBefore' /\ Seed!OnlyOwnLeft'
        /\ Seed!SeedNotLost'
    BY <2>1 DEF Seed!Typed, Seed!RunServes, Seed!NotBefore, Seed!OnlyOwnLeft,
                Seed!SeedNotLost
  <2>3. Seed!ClockReached' /\ Seed!FloorHolds'
    BY <1>1, <2>1 DEF Seed!ClockReached, Seed!FloorHolds, Seed!RunTypes
  <2> QED
    BY <2>2, <2>3
<1>8. CASE Seed!Discipline(c)
  <2>1. /\ s4 \in {"active", "failed"} /\ s1' = c /\ s8' = [s8 EXCEPT !.floor = 0]
        /\ UNCHANGED <<s2, s3, s4, s5, s7>>
    BY <1>8 DEF Seed!Discipline
  <2>2. s8' \in [floor : Nat, cut : BOOLEAN] /\ s8'.cut = s8.cut /\ s8'.floor = 0
    BY <1>1, <2>1
  <2>3. Seed!Typed' /\ Seed!RunServes' /\ Seed!NotBefore' /\ Seed!OnlyOwnLeft'
        /\ Seed!SeedNotLost'
    BY <1>1, <2>1, <2>2 DEF Seed!Typed, Seed!RunServes, Seed!NotBefore,
                            Seed!OnlyOwnLeft, Seed!SeedNotLost
  <2>4. Seed!ClockReached' /\ Seed!FloorHolds'
    BY <1>1, <2>1, <2>2
    DEF Seed!ClockReached, Seed!FloorHolds, Seed!RunServes, Seed!RunTypes
  <2> QED
    BY <2>3, <2>4
<1> QED
  BY <1>3, <1>5, <1>6, <1>7, <1>8

LEMMA SeedStepHolds ==
  ASSUME Seed!SeedAssumption, Seed!SeedInv, [Seed!SeedNext]_slots
  PROVE  Seed!SeedInv'
<1>1. CASE UNCHANGED slots
  BY <1>1 DEF slots, Seed!SeedInv, Seed!Typed, Seed!RunServes, Seed!ClockReached,
              Seed!NotBefore, Seed!OnlyOwnLeft, Seed!SeedNotLost, Seed!FloorHolds
<1>2. ASSUME NEW c \in 0..MaxClock, Seed!Discipline(c)
      PROVE  Seed!SeedInv'
  BY <1>2, SeedWorldHolds DEF Seed!SeedAssumption
<1>3. CASE Seed!Tick
  BY <1>3, SeedWorldHolds DEF Seed!SeedAssumption
<1>4. ASSUME NEW p \in Pids, Seed!Timer(p) \/ Seed!Shutdown(p)
      PROVE  Seed!SeedInv'
  BY <1>4, SeedWorldHolds DEF Seed!SeedAssumption
<1>5. ASSUME NEW p \in Pids, NEW c \in 0..MaxClock, Seed!Boot(p, c)
      PROVE  Seed!SeedInv'
  BY <1>5, SeedWorldHolds
<1> QED
  BY <1>1, <1>2, <1>3, <1>4, <1>5, SeedRestoreHolds, SeedSaveHolds, SeedCutHolds
  DEF Seed!SeedNext

-----------------------------------------------------------------------------
(* The thumbnails: s1 is what the picture has been, s2 the version it is, s3 the *)
(* thumbnail in the cache, s4 the runs.                                          *)

LEMMA ThumbInitHolds ==
  ASSUME Thumbs!ThumbInit
  PROVE  Thumbs!ThumbInv
<1>1. PICK s \in Sizes : s1 = <<[time |-> 1, size |-> s]>>
  BY DEF Thumbs!ThumbInit
<1>2. s1 \in Seq(Thumbs!Version) /\ Len(s1) = 1
  <2>1. [time |-> 1, size |-> s] \in Thumbs!Version
    BY DEF Thumbs!Version
  <2> QED
    BY <1>1, <2>1
<1>3. Thumbs!Idle \in Thumbs!RunTypes /\ Thumbs!Idle.pc = "idle"
  BY DEF Thumbs!Idle, Thumbs!RunTypes, Thumbs!NoStat
<1>4. Thumbs!ThumbTyped /\ Thumbs!TimesDiffer
  BY <1>2, <1>3 DEF Thumbs!ThumbInit, Thumbs!ThumbTyped, Thumbs!TimesDiffer
<1>5. Thumbs!StatBefore /\ Thumbs!OutputKnown
  BY <1>3 DEF Thumbs!ThumbInit, Thumbs!StatBefore, Thumbs!OutputKnown
<1> QED
  BY <1>4, <1>5 DEF Thumbs!ThumbInv

\* A step of one run, which may replace the thumbnail.
LEMMA ThumbRunGoesOn ==
  ASSUME Thumbs!ThumbInv, NEW r \in Thumbnailers,
         s4' \in [Thumbnailers -> Thumbs!RunTypes],
         \A q \in Thumbnailers \ {r} : s4'[q] = s4[q],
         s4'[r].pc \in {"old", "generate"} =>
           \E v \in 1..Len(s1) : s4'[r].stat = s1[v],
         s4'[r].pc = "time" =>
           /\ s4'[r].shows \in 1..Len(s1)
           /\ \E v \in 1..s4'[r].shows : s4'[r].stat = s1[v],
         s4'[r].pc \in {"size", "replace"} =>
           s4'[r].shows \in 1..Len(s1) /\ s4'[r].stat = s1[s4'[r].shows],
         \/ s3' = s3
         \/ /\ s3'.of \in 1..Len(s1)
            /\ s3'.label = Thumbs!Label(s1[s3'.of].time, s1[s3'.of].size),
         UNCHANGED <<s1, s2>>
  PROVE  Thumbs!ThumbInv'
<1>1. Thumbs!ThumbTyped' /\ Thumbs!TimesDiffer'
  BY DEF Thumbs!ThumbInv, Thumbs!ThumbTyped, Thumbs!TimesDiffer
<1>2. Thumbs!StatBefore'
  BY DEF Thumbs!ThumbInv, Thumbs!StatBefore
<1>3. Thumbs!OutputKnown'
  BY DEF Thumbs!ThumbInv, Thumbs!OutputKnown, Thumbs!NoOutput
<1> QED
  BY <1>1, <1>2, <1>3 DEF Thumbs!ThumbInv

LEMMA ThumbRunHolds ==
  ASSUME Thumbs!ThumbInv, NEW r \in Thumbnailers,
         \/ Thumbs!Launch(r) \/ Thumbs!Stat(r) \/ Thumbs!Old(r) \/ Thumbs!Generate(r)
         \/ Thumbs!TimeAgain(r) \/ Thumbs!SizeAgain(r) \/ Thumbs!Replace(r)
  PROVE  Thumbs!ThumbInv'
<1>1. /\ s1 \in Seq(Thumbs!Version) /\ Len(s1) \in Nat
      /\ s2 \in {0, Len(s1)} /\ s4 \in [Thumbnailers -> Thumbs!RunTypes]
      /\ s4[r] \in Thumbs!RunTypes
      /\ \A v \in 1..Len(s1) : s1[v] \in Thumbs!Version
  <2>1. s1 \in Seq(Thumbs!Version) /\ s4 \in [Thumbnailers -> Thumbs!RunTypes]
        /\ s2 \in {0, Len(s1)}
    BY DEF Thumbs!ThumbInv, Thumbs!ThumbTyped
  <2>2. /\ Len(s1) \in Nat
        /\ \A v \in 1..Len(s1) : s1[v] \in Thumbs!Version
    BY <2>1
  <2>3. s4[r] \in Thumbs!RunTypes
    BY <2>1
  <2> QED
    BY <2>1, <2>2, <2>3
<1>2. /\ s4[r].pc \in {"old", "generate"} => \E v \in 1..Len(s1) : s4[r].stat = s1[v]
      /\ s4[r].pc = "time" =>
           /\ s4[r].shows \in 1..Len(s1)
           /\ \E v \in 1..s4[r].shows : s4[r].stat = s1[v]
      /\ s4[r].pc \in {"size", "replace"} =>
           s4[r].shows \in 1..Len(s1) /\ s4[r].stat = s1[s4[r].shows]
  BY DEF Thumbs!ThumbInv, Thumbs!StatBefore
\* A run that gives up remembers nothing.
<1>3. ASSUME Thumbs!GiveUp(r), UNCHANGED <<s1, s2>>,
             \/ s3' = s3
             \/ /\ s3'.of \in 1..Len(s1)
                /\ s3'.label = Thumbs!Label(s1[s3'.of].time, s1[s3'.of].size)
      PROVE  Thumbs!ThumbInv'
  <2>1. Thumbs!Idle \in Thumbs!RunTypes /\ Thumbs!Idle.pc = "idle"
    BY DEF Thumbs!Idle, Thumbs!RunTypes, Thumbs!NoStat
  <2>2. /\ s4' \in [Thumbnailers -> Thumbs!RunTypes] /\ s4'[r].pc = "idle"
        /\ \A q \in Thumbnailers \ {r} : s4'[q] = s4[q]
    BY <1>1, <1>3, <2>1 DEF Thumbs!GiveUp
  <2> QED
    BY <1>3, <2>2, ThumbRunGoesOn
\* One that goes on keeps what it has asked and made.
<1>4. ASSUME NEW pc \in {"stat", "old", "generate", "time", "size", "replace"},
             s4' = [s4 EXCEPT ![r].pc = pc]
      PROVE  /\ s4' \in [Thumbnailers -> Thumbs!RunTypes] /\ s4'[r].pc = pc
             /\ s4'[r].stat = s4[r].stat /\ s4'[r].shows = s4[r].shows
             /\ \A q \in Thumbnailers \ {r} : s4'[q] = s4[q]
  BY <1>1, <1>4 DEF Thumbs!RunTypes
<1>5. CASE Thumbs!Launch(r)
  <2>1. s4' = [s4 EXCEPT ![r].pc = "stat"] /\ UNCHANGED <<s1, s2, s3>>
    BY <1>5 DEF Thumbs!Launch, Thumbs!Step
  <2> QED
    BY <1>4, <2>1, ThumbRunGoesOn
<1>6. CASE Thumbs!Stat(r)
  <2>1. CASE s2 = 0
    BY <1>3, <1>6, <2>1 DEF Thumbs!Stat
  <2>2. CASE s2 # 0
    <3>1. s2 \in 1..Len(s1) /\ s1[s2] \in Thumbs!Version
      BY <1>1, <2>2
    <3>2. s4' = [s4 EXCEPT ![r].pc = "old", ![r].stat = s1[s2]]
          /\ UNCHANGED <<s1, s2, s3>>
      BY <1>6, <2>2 DEF Thumbs!Stat
    <3>3. /\ s4'[r].pc = "old" /\ s4'[r].stat = s1[s2]
          /\ \A q \in Thumbnailers \ {r} : s4'[q] = s4[q]
      BY <1>1, <3>2 DEF Thumbs!RunTypes
    <3>4. s4' \in [Thumbnailers -> Thumbs!RunTypes]
      BY <1>1, <3>1, <3>2 DEF Thumbs!RunTypes, Thumbs!Version
    <3> QED
      BY <3>1, <3>2, <3>3, <3>4, ThumbRunGoesOn
  <2> QED
    BY <2>1, <2>2
<1>7. CASE Thumbs!Old(r)
  <2>1. CASE Thumbs!GiveUp(r)
    BY <1>3, <1>7, <2>1 DEF Thumbs!Old
  <2>2. CASE ~Thumbs!GiveUp(r)
    <3>1. s4' = [s4 EXCEPT ![r].pc = "generate"] /\ UNCHANGED <<s1, s2, s3>>
          /\ s4[r].pc = "old"
      BY <1>7, <2>2 DEF Thumbs!Old, Thumbs!Step
    <3> QED
      BY <1>2, <1>4, <3>1, ThumbRunGoesOn
  <2> QED
    BY <2>1, <2>2
<1>8. CASE Thumbs!Generate(r)
  <2>1. CASE Thumbs!GiveUp(r)
    BY <1>3, <1>8, <2>1 DEF Thumbs!Generate
  <2>2. CASE ~Thumbs!GiveUp(r)
    <3>1. /\ s4[r].pc = "generate" /\ s2 # 0
          /\ s4' = [s4 EXCEPT ![r].pc = "time", ![r].shows = s2]
          /\ UNCHANGED <<s1, s2, s3>>
      BY <1>8, <2>2 DEF Thumbs!Generate
    <3>2. s2 = Len(s1) /\ s2 \in 1..Len(s1)
      BY <1>1, <3>1
    <3>3. /\ s4' \in [Thumbnailers -> Thumbs!RunTypes] /\ s4'[r].pc = "time"
          /\ s4'[r].stat = s4[r].stat /\ s4'[r].shows = s2
          /\ \A q \in Thumbnailers \ {r} : s4'[q] = s4[q]
      BY <1>1, <3>1, <3>2 DEF Thumbs!RunTypes
    <3> QED
      BY <1>2, <3>1, <3>2, <3>3, ThumbRunGoesOn
  <2> QED
    BY <2>1, <2>2
\* The time is that of the last version, so the run has asked and shows that one.
<1>9. CASE Thumbs!TimeAgain(r)
  <2>1. CASE s2 # 0 /\ s1[s2].time = s4[r].stat.time
    <3>1. s4' = [s4 EXCEPT ![r].pc = "size"] /\ UNCHANGED <<s1, s2, s3>>
          /\ s4[r].pc = "time"
      BY <1>9, <2>1 DEF Thumbs!TimeAgain, Thumbs!Step
    <3>2. PICK v \in 1..s4[r].shows : s4[r].stat = s1[v]
      BY <1>2, <3>1
    <3>3. s2 = Len(s1) /\ s2 \in 1..Len(s1) /\ s4[r].shows \in 1..Len(s1)
          /\ v \in 1..Len(s1)
      BY <1>1, <1>2, <2>1, <3>1
    <3>4. v = s2
      BY <2>1, <3>2, <3>3 DEF Thumbs!ThumbInv, Thumbs!TimesDiffer
    <3>5. s4[r].shows = v
      BY <3>2, <3>3, <3>4
    <3> QED
      BY <1>4, <3>1, <3>2, <3>3, <3>5, ThumbRunGoesOn
  <2>2. CASE ~(s2 # 0 /\ s1[s2].time = s4[r].stat.time)
    BY <1>3, <1>9, <2>2 DEF Thumbs!TimeAgain
  <2> QED
    BY <2>1, <2>2
<1>10. CASE Thumbs!SizeAgain(r)
  <2>1. CASE Thumbs!GiveUp(r)
    BY <1>3, <1>10, <2>1 DEF Thumbs!SizeAgain
  <2>2. CASE ~Thumbs!GiveUp(r)
    <3>1. s4' = [s4 EXCEPT ![r].pc = "replace"] /\ UNCHANGED <<s1, s2, s3>>
          /\ s4[r].pc = "size"
      BY <1>10, <2>2 DEF Thumbs!SizeAgain, Thumbs!Step
    <3> QED
      BY <1>2, <1>4, <3>1, ThumbRunGoesOn
  <2> QED
    BY <2>1, <2>2
<1>11. CASE Thumbs!Replace(r)
  <2>1. /\ s4[r].pc = "replace" /\ Thumbs!GiveUp(r) /\ UNCHANGED <<s1, s2>>
        /\ s3' \in {s3, [label |-> Thumbs!Label(s4[r].stat.time, s4[r].stat.size),
                         of |-> s4[r].shows]}
    BY <1>11 DEF Thumbs!Replace
  <2> QED
    BY <1>2, <1>3, <2>1
<1> QED
  BY <1>5, <1>6, <1>7, <1>8, <1>9, <1>10, <1>11

\* The owner: another version, which has another time, or none.
LEMMA ThumbOwnerHolds ==
  ASSUME Thumbs!ThumbInv, NEW t \in Nat, NEW s \in Sizes,
         Thumbs!Write(t, s) \/ Thumbs!Delete
  PROVE  Thumbs!ThumbInv'
<1>1. /\ s1 \in Seq(Thumbs!Version) /\ Len(s1) \in Nat
      /\ s2 \in {0, Len(s1)} /\ s4 \in [Thumbnailers -> Thumbs!RunTypes]
  BY DEF Thumbs!ThumbInv, Thumbs!ThumbTyped
<1>2. CASE Thumbs!Delete
  <2>1. s2' = 0 /\ UNCHANGED <<s1, s3, s4>>
    BY <1>2 DEF Thumbs!Delete
  <2> QED
    BY <2>1 DEF Thumbs!ThumbInv, Thumbs!ThumbTyped, Thumbs!TimesDiffer,
                Thumbs!StatBefore, Thumbs!OutputKnown
<1>3. CASE Thumbs!Write(t, s)
  <2> DEFINE new == [time |-> t, size |-> s]
  <2>1. /\ \A v \in 1..Len(s1) : s1[v].time # t
        /\ s1' = Append(s1, new) /\ s2' = Len(s1) + 1 /\ UNCHANGED <<s3, s4>>
    BY <1>3 DEF Thumbs!Write
  <2>2. /\ s1' \in Seq(Thumbs!Version) /\ Len(s1') = Len(s1) + 1
        /\ s1'[Len(s1) + 1] = new /\ \A v \in 1..Len(s1) : s1'[v] = s1[v]
    <3>1. new \in Thumbs!Version
      BY DEF Thumbs!Version
    <3> HIDE DEF new
    <3> QED
      BY <1>1, <2>1, <3>1
  <2>3. Thumbs!ThumbTyped'
    BY <1>1, <2>1, <2>2 DEF Thumbs!ThumbTyped
  <2>4. Thumbs!TimesDiffer'
    BY <1>1, <2>1, <2>2 DEF Thumbs!ThumbInv, Thumbs!TimesDiffer
  <2>5. 1..Len(s1) \subseteq 1..Len(s1') /\ \A v \in 1..Len(s1) : 1..v \subseteq 1..Len(s1)
    BY <1>1, <2>2
  <2>6. Thumbs!StatBefore'
    BY <2>1, <2>2, <2>5 DEF Thumbs!ThumbInv, Thumbs!StatBefore
  <2>7. Thumbs!OutputKnown'
    BY <2>1, <2>2, <2>5 DEF Thumbs!ThumbInv, Thumbs!OutputKnown, Thumbs!NoOutput
  <2> QED
    BY <2>3, <2>4, <2>6, <2>7 DEF Thumbs!ThumbInv
<1> QED
  BY <1>2, <1>3

LEMMA ThumbStepHolds ==
  ASSUME Thumbs!ThumbnailAssumption, Thumbs!ThumbInv, [Thumbs!ThumbNext]_slots
  PROVE  Thumbs!ThumbInv'
<1>1. CASE UNCHANGED slots
  BY <1>1 DEF slots, Thumbs!ThumbInv, Thumbs!ThumbTyped, Thumbs!TimesDiffer,
              Thumbs!StatBefore, Thumbs!OutputKnown
<1>2. ASSUME NEW t \in 1..(2 * MaxVersions), NEW s \in Sizes, Thumbs!Write(t, s)
      PROVE  Thumbs!ThumbInv'
  BY <1>2, ThumbOwnerHolds DEF Thumbs!ThumbnailAssumption
<1>3. CASE Thumbs!Delete
  <2>1. s2' = 0 /\ UNCHANGED <<s1, s3, s4>>
    BY <1>3 DEF Thumbs!Delete
  <2> QED
    BY <2>1 DEF Thumbs!ThumbInv, Thumbs!ThumbTyped, Thumbs!TimesDiffer,
                Thumbs!StatBefore, Thumbs!OutputKnown
<1> QED
  BY <1>1, <1>2, <1>3, ThumbRunHolds DEF Thumbs!ThumbNext

-----------------------------------------------------------------------------
(* The one-shot photo: s1 is the service, s2 the answers of systemd, s3 latest.ppm *)
(* and latest.json, s4 the private directories, s5 the applications, s6 what they  *)
(* saved.                                                                          *)

LEMMA PhotoInitHolds ==
  ASSUME Photo!CaptureAssumption, Photo!Init
  PROVE  Photo!PhotoInv
<1>1. Photo!Waits \in Photo!ClientTypes /\ Photo!Waits.at = "idle"
  BY DEF Photo!Waits, Photo!ClientTypes
<1>2. Photo!CaptureTyped
  BY <1>1 DEF Photo!CaptureAssumption, Photo!Init, Photo!CaptureTyped
<1>3. Photo!RunReplaces /\ Photo!SuccessShown /\ Photo!Unanswered
  BY DEF Photo!Init, Photo!RunReplaces, Photo!SuccessShown, Photo!Unanswered
<1>4. Photo!ClientAfterSuccess /\ Photo!PhotoNotOld
  BY <1>1 DEF Photo!Init, Photo!ClientAfterSuccess, Photo!PhotoNotOld
<1> QED
  BY <1>2, <1>3, <1>4 DEF Photo!PhotoInv

LEMMA PhotoServiceHolds ==
  ASSUME Photo!CaptureAssumption, Photo!PhotoInv,
         \/ Photo!Backend \/ Photo!ReplaceImage \/ Photo!ReplaceMeta \/ Photo!Finally
         \/ Photo!StartTimeout
  PROVE  Photo!PhotoInv'
<1> USE DEF Photo!PhotoInv
<1>1. /\ MaxRuns \in Nat
      /\ s1 \in [run : 0..MaxRuns, at : {"inactive", "capture", "image", "meta",
                                         "ending", "failing"}]
      /\ s2 \in [1..MaxRuns -> {"none", "failed", "success"}]
      /\ s3 \in [ppm : 0..s1.run, json : 0..s1.run]
      /\ s5 \in [PhotoClients -> Photo!ClientTypes]
      /\ s1.at # "inactive" /\ s1.run \in 1..MaxRuns
  BY DEF Photo!CaptureAssumption, Photo!CaptureTyped, Photo!Backend,
         Photo!ReplaceImage, Photo!ReplaceMeta, Photo!Finally, Photo!StartTimeout
\* The run goes on: it replaces its files in order.
<1>2. ASSUME s1' \in [run : 0..MaxRuns, at : {"image", "meta", "ending", "failing"}],
             s1'.run = s1.run, s3' \in [ppm : 0..s1.run, json : 0..s1.run],
             s3'.ppm >= s3.ppm, s3'.json >= s3.json,
             s1'.at \in {"meta", "ending"} => s3'.ppm = s1.run,
             s1'.at = "ending" => s3'.json = s1.run,
             UNCHANGED <<s2, s5, s6>>
      PROVE  Photo!PhotoInv'
  <2>1. Photo!CaptureTyped'
    BY <1>1, <1>2 DEF Photo!CaptureTyped
  <2>2. Photo!RunReplaces' /\ Photo!Unanswered'
    BY <1>1, <1>2 DEF Photo!RunReplaces, Photo!Unanswered
  <2>3. Photo!SuccessShown'
    BY <1>1, <1>2 DEF Photo!SuccessShown
  <2>4. Photo!ClientAfterSuccess' /\ Photo!PhotoNotOld'
    BY <1>2 DEF Photo!ClientAfterSuccess, Photo!PhotoNotOld
  <2> QED
    BY <2>1, <2>2, <2>3, <2>4
\* The run is over: it succeeded only when both files are its own.
<1>3. ASSUME NEW answer \in {"failed", "success"}, Photo!Over(answer),
             answer = "success" => s1.at = "ending",
             UNCHANGED <<s3, s5, s6>>
      PROVE  Photo!PhotoInv'
  <2>1. s1' = [s1 EXCEPT !.at = "inactive"] /\ s2' = [s2 EXCEPT ![s1.run] = answer]
    BY <1>3 DEF Photo!Over, Photo!Goto
  <2>2. /\ s1' \in [run : 0..MaxRuns, at : {"inactive"}]
        /\ s1'.run = s1.run /\ s1'.at = "inactive"
        /\ s2' \in [1..MaxRuns -> {"none", "failed", "success"}]
        /\ s2'[s1.run] = answer /\ \A r \in 1..MaxRuns : r # s1.run => s2'[r] = s2[r]
    BY <1>1, <2>1
  <2>3. Photo!CaptureTyped'
    BY <1>1, <1>3, <2>2 DEF Photo!CaptureTyped
  <2>4. Photo!RunReplaces' /\ Photo!Unanswered'
    BY <1>1, <2>2 DEF Photo!RunReplaces, Photo!Unanswered
  <2>5. Photo!SuccessShown'
    BY <1>1, <1>3, <2>2 DEF Photo!SuccessShown, Photo!RunReplaces
  <2>6. s2[s1.run] = "none"
    BY <1>1 DEF Photo!Unanswered
  <2>7. Photo!ClientAfterSuccess' /\ Photo!PhotoNotOld'
    BY <1>1, <1>3, <2>2, <2>6 DEF Photo!ClientAfterSuccess, Photo!PhotoNotOld
  <2> QED
    BY <2>3, <2>4, <2>5, <2>7
<1>4. ASSUME NEW at \in {"image", "meta", "ending", "failing"}, Photo!Goto(at)
      PROVE  /\ s1' \in [run : 0..MaxRuns, at : {"image", "meta", "ending", "failing"}]
             /\ s1'.run = s1.run /\ s1'.at = at
  BY <1>1, <1>4 DEF Photo!Goto
<1>5. CASE Photo!Backend
  <2>1. CASE Photo!Goto("image") /\ UNCHANGED s2
    BY <1>1, <1>2, <1>4, <1>5, <2>1 DEF Photo!Backend
  <2>2. CASE Photo!Over("failed")
    BY <1>3, <1>5, <2>2 DEF Photo!Backend
  <2> QED
    BY <1>5, <2>1, <2>2 DEF Photo!Backend
<1>6. CASE Photo!ReplaceImage
  <2>1. CASE Photo!Goto("meta") /\ s3' = [s3 EXCEPT !.ppm = s1.run]
    <3>1. /\ s3' \in [ppm : 0..s1.run, json : 0..s1.run]
          /\ s3'.ppm = s1.run /\ s3'.json = s3.json /\ s3.ppm <= s1.run
      BY <1>1, <2>1
    <3> QED
      BY <1>1, <1>2, <1>4, <1>6, <2>1, <3>1 DEF Photo!ReplaceImage
  <2>2. CASE Photo!Goto("failing") /\ UNCHANGED s3
    BY <1>1, <1>2, <1>4, <1>6, <2>2 DEF Photo!ReplaceImage
  <2> QED
    BY <1>6, <2>1, <2>2 DEF Photo!ReplaceImage
<1>7. CASE Photo!ReplaceMeta
  <2>1. CASE Photo!Goto("ending") /\ s3' = [s3 EXCEPT !.json = s1.run]
    <3>1. /\ s3' \in [ppm : 0..s1.run, json : 0..s1.run]
          /\ s3'.json = s1.run /\ s3'.ppm = s3.ppm /\ s3.json <= s1.run
      BY <1>1, <2>1
    <3>2. s3.ppm = s1.run
      BY <1>7 DEF Photo!ReplaceMeta, Photo!RunReplaces
    <3> QED
      BY <1>1, <1>2, <1>4, <1>7, <2>1, <3>1, <3>2 DEF Photo!ReplaceMeta
  <2>2. CASE Photo!Goto("failing") /\ UNCHANGED s3
    BY <1>1, <1>2, <1>4, <1>7, <2>2 DEF Photo!ReplaceMeta
  <2> QED
    BY <1>7, <2>1, <2>2 DEF Photo!ReplaceMeta
<1>8. CASE Photo!Finally
  <2>1. CASE Photo!Over("failed")
    BY <1>3, <1>8, <2>1 DEF Photo!Finally
  <2>2. CASE s1.at = "ending" /\ Photo!Over("success")
    BY <1>3, <1>8, <2>2 DEF Photo!Finally
  <2> QED
    BY <1>8, <2>1, <2>2 DEF Photo!Finally
<1>9. CASE Photo!StartTimeout
  BY <1>3, <1>9 DEF Photo!StartTimeout
<1> QED
  BY <1>5, <1>6, <1>7, <1>8, <1>9

\* An application goes on: it reads what is there only after its run succeeded.
LEMMA PhotoClientGoesOn ==
  ASSUME Photo!PhotoInv, NEW c \in PhotoClients, NEW value \in Photo!ClientTypes,
         Photo!Set(c, value),
         value.at = "waiting" => value.run \in 1..MaxRuns,
         value.at \in {"ppm", "json", "save"} =>
           value.run \in 1..MaxRuns /\ s2[value.run] = "success",
         value.at \in {"json", "save"} => value.ppm >= value.run,
         value.at = "save" => value.json >= value.run,
         UNCHANGED <<s1, s2, s3>>,
         \A p \in s6' \ s6 : p.ppm >= p.run /\ p.json >= p.run
  PROVE  Photo!PhotoInv'
<1> USE DEF Photo!PhotoInv
<1>1. s5' \in [PhotoClients -> Photo!ClientTypes] /\ s5'[c] = value
      /\ \A d \in PhotoClients : d # c => s5'[d] = s5[d]
  BY DEF Photo!Set, Photo!CaptureTyped
<1>2. Photo!CaptureTyped'
  BY <1>1 DEF Photo!CaptureTyped
<1>3. Photo!RunReplaces' /\ Photo!SuccessShown' /\ Photo!Unanswered'
  BY DEF Photo!RunReplaces, Photo!SuccessShown, Photo!Unanswered
<1>4. Photo!ClientAfterSuccess'
  BY <1>1 DEF Photo!ClientAfterSuccess
<1>5. Photo!PhotoNotOld'
  BY DEF Photo!PhotoNotOld
<1> QED
  BY <1>2, <1>3, <1>4, <1>5

LEMMA PhotoWaiting ==
  ASSUME NEW n \in Nat
  PROVE  LET v == [Photo!Waits EXCEPT !.at = "waiting", !.run = n]
         IN  v \in Photo!ClientTypes /\ v.at = "waiting" /\ v.run = n
<1>1. Photo!Waits \in Photo!ClientTypes
  BY DEF Photo!Waits, Photo!ClientTypes
<1> QED
  BY <1>1 DEF Photo!ClientTypes

LEMMA PhotoClientHolds ==
  ASSUME Photo!CaptureAssumption, Photo!PhotoInv, NEW c \in PhotoClients,
         \/ Photo!TakePhoto(c) \/ Photo!Timeout(c) \/ Photo!Answer(c)
         \/ Photo!ReadImage(c) \/ Photo!ReadMeta(c) \/ Photo!Save(c)
         \/ Photo!Finished(c)
  PROVE  Photo!PhotoInv'
<1>1. /\ MaxRuns \in Nat
      /\ s1 \in [run : 0..MaxRuns, at : {"inactive", "capture", "image", "meta",
                                         "ending", "failing"}]
      /\ s1.at # "inactive" => s1.run \in 1..MaxRuns
      /\ s2 \in [1..MaxRuns -> {"none", "failed", "success"}]
      /\ s3 \in [ppm : Nat, json : Nat]
      /\ s5[c] \in Photo!ClientTypes
  BY DEF Photo!CaptureAssumption, Photo!PhotoInv, Photo!CaptureTyped
<1>2. /\ s5[c].at = "waiting" => s5[c].run \in 1..MaxRuns
      /\ s5[c].at \in {"ppm", "json", "save"} =>
           s5[c].run \in 1..MaxRuns /\ s2[s5[c].run] = "success"
      /\ s5[c].at \in {"json", "save"} => s5[c].ppm >= s5[c].run
      /\ s5[c].at = "save" => s5[c].json >= s5[c].run
  BY DEF Photo!PhotoInv, Photo!ClientAfterSuccess
<1>3. Photo!Waits \in Photo!ClientTypes /\ Photo!Waits.at = "idle"
  BY DEF Photo!Waits, Photo!ClientTypes
\* One that is over asks nothing more.
<1>4. ASSUME Photo!Set(c, [s5[c] EXCEPT !.at = "over"]), UNCHANGED <<s1, s2, s3>>,
             \A p \in s6' \ s6 : p.ppm >= p.run /\ p.json >= p.run
      PROVE  Photo!PhotoInv'
  <2> DEFINE value == [s5[c] EXCEPT !.at = "over"]
  <2>1. value \in Photo!ClientTypes /\ value.at = "over"
    BY <1>1 DEF Photo!ClientTypes
  <2>2. Photo!Set(c, value)
    BY <1>4
  <2> HIDE DEF value
  <2> QED
    BY <1>4, <2>1, <2>2, PhotoClientGoesOn
<1>5. CASE Photo!TakePhoto(c)
  <2> DEFINE value == [Photo!Waits EXCEPT !.at = "waiting", !.run = s1'.run]
  <2>1. /\ Photo!Set(c, value) /\ UNCHANGED <<s2, s3, s4, s6>>
        /\ \/ s1.at # "inactive" /\ s1' = s1
           \/ s1.run < MaxRuns /\ s1' = [run |-> s1.run + 1, at |-> "capture"]
              /\ s1.at = "inactive"
    BY <1>5 DEF Photo!TakePhoto
  <2>2. s1'.run \in 1..MaxRuns
    BY <1>1, <2>1
  <2>3. /\ value \in Photo!ClientTypes /\ value.at = "waiting" /\ value.run = s1'.run
    <3>1. s1'.run \in Nat
      BY <1>1, <2>2
    <3> QED
      BY <3>1, PhotoWaiting, Zenon
  <2> HIDE DEF value
  <2>4. CASE s1' = s1
    BY <2>1, <2>2, <2>3, <2>4, PhotoClientGoesOn
  <2>5. CASE s1' # s1
    <3> USE DEF Photo!PhotoInv
    <3>1. s5' \in [PhotoClients -> Photo!ClientTypes] /\ s5'[c] = value
          /\ \A d \in PhotoClients : d # c => s5'[d] = s5[d]
      BY <2>1, <2>3 DEF Photo!Set, Photo!CaptureTyped
    <3>2. /\ s1' \in [run : 0..MaxRuns, at : {"capture"}] /\ s1'.run = s1.run + 1
          /\ s1'.at = "capture" /\ s1.at = "inactive" /\ s1.run \in Nat
          /\ UNCHANGED <<s2, s3, s6>>
      BY <1>1, <2>1, <2>5
    <3>3. Photo!CaptureTyped'
      BY <1>1, <3>1, <3>2 DEF Photo!CaptureTyped
    <3>4. Photo!RunReplaces' /\ Photo!SuccessShown'
      BY <3>2 DEF Photo!RunReplaces, Photo!SuccessShown
    <3>5. Photo!Unanswered'
      BY <3>2 DEF Photo!Unanswered
    <3>6. Photo!ClientAfterSuccess' /\ Photo!PhotoNotOld'
      BY <2>2, <2>3, <3>1, <3>2 DEF Photo!ClientAfterSuccess, Photo!PhotoNotOld
    <3> QED
      BY <3>3, <3>4, <3>5, <3>6
  <2> QED
    BY <2>4, <2>5
<1>6. CASE Photo!Timeout(c)
  BY <1>4, <1>6 DEF Photo!Timeout
<1>7. CASE Photo!Answer(c)
  <2>1. CASE Photo!Answered(c)
    <3> DEFINE value == [s5[c] EXCEPT !.at = "ppm"]
    <3>1. Photo!Set(c, value) /\ s5[c].at = "waiting" /\ UNCHANGED <<s1, s2, s3, s4, s6>>
      BY <1>7, <2>1 DEF Photo!Answer
    <3>2. value \in Photo!ClientTypes /\ value.at = "ppm" /\ value.run = s5[c].run
      BY <1>1 DEF Photo!ClientTypes
    <3> HIDE DEF value
    <3> QED
      BY <1>2, <2>1, <3>1, <3>2, PhotoClientGoesOn DEF Photo!Answered
  <2>2. CASE ~Photo!Answered(c)
    BY <1>4, <1>7, <2>2 DEF Photo!Answer
  <2> QED
    BY <2>1, <2>2
<1>8. CASE Photo!ReadImage(c)
  <2>1. CASE s3.ppm = 0
    BY <1>4, <1>8, <2>1 DEF Photo!ReadImage
  <2>2. CASE s3.ppm # 0
    <3> DEFINE value == [s5[c] EXCEPT !.at = "json", !.ppm = s3.ppm]
    <3>1. Photo!Set(c, value) /\ s5[c].at = "ppm" /\ UNCHANGED <<s1, s2, s3, s4, s6>>
      BY <1>8, <2>2 DEF Photo!ReadImage
    <3>2. /\ value \in Photo!ClientTypes /\ value.at = "json" /\ value.run = s5[c].run
          /\ value.ppm = s3.ppm
      BY <1>1 DEF Photo!ClientTypes
    <3>3. s3.ppm >= s5[c].run
      BY <1>2, <3>1 DEF Photo!PhotoInv, Photo!SuccessShown
    <3> HIDE DEF value
    <3> QED
      BY <1>2, <3>1, <3>2, <3>3, PhotoClientGoesOn
  <2> QED
    BY <2>1, <2>2
<1>9. CASE Photo!ReadMeta(c)
  <2>1. CASE s3.json = 0
    BY <1>4, <1>9, <2>1 DEF Photo!ReadMeta
  <2>2. CASE s3.json # 0
    <3> DEFINE value == [s5[c] EXCEPT !.at = "save", !.json = s3.json]
    <3>1. Photo!Set(c, value) /\ s5[c].at = "json" /\ UNCHANGED <<s1, s2, s3, s4, s6>>
      BY <1>9, <2>2 DEF Photo!ReadMeta
    <3>2. /\ value \in Photo!ClientTypes /\ value.at = "save" /\ value.run = s5[c].run
          /\ value.ppm = s5[c].ppm /\ value.json = s3.json
      BY <1>1 DEF Photo!ClientTypes
    <3>3. s3.json >= s5[c].run
      BY <1>2, <3>1 DEF Photo!PhotoInv, Photo!SuccessShown
    <3> HIDE DEF value
    <3> QED
      BY <1>2, <3>1, <3>2, <3>3, PhotoClientGoesOn
  <2> QED
    BY <2>1, <2>2
<1>10. CASE Photo!Save(c)
  <2> DEFINE photo == [client |-> c, run |-> s5[c].run, ppm |-> s5[c].ppm,
                       json |-> s5[c].json]
  <2>1. /\ s5[c].at = "save" /\ s6' \in {s6, s6 \cup {photo}}
        /\ Photo!Set(c, [s5[c] EXCEPT !.at = "over"]) /\ UNCHANGED <<s1, s2, s3>>
    BY <1>10 DEF Photo!Save
  <2>2. photo.ppm >= photo.run /\ photo.json >= photo.run
    BY <1>2, <2>1
  <2>3. \A p \in s6' \ s6 : p.ppm >= p.run /\ p.json >= p.run
    BY <2>1, <2>2
  <2> QED
    BY <1>4, <2>1, <2>3
<1>11. CASE Photo!Finished(c)
  <2>1. Photo!Set(c, Photo!Waits) /\ UNCHANGED <<s1, s2, s3, s4, s6>>
    BY <1>11 DEF Photo!Finished
  <2> QED
    BY <1>3, <2>1, PhotoClientGoesOn
<1> QED
  BY <1>5, <1>6, <1>7, <1>8, <1>9, <1>10, <1>11

LEMMA PhotoStepHolds ==
  ASSUME Photo!CaptureAssumption, Photo!PhotoInv, [Photo!CaptureNext]_slots
  PROVE  Photo!PhotoInv'
<1>1. CASE UNCHANGED slots
  BY <1>1 DEF slots, Photo!PhotoInv, Photo!CaptureTyped, Photo!RunReplaces,
              Photo!SuccessShown, Photo!Unanswered, Photo!ClientAfterSuccess,
              Photo!PhotoNotOld
<1> QED
  BY <1>1, PhotoServiceHolds, PhotoClientHolds DEF Photo!CaptureNext

-----------------------------------------------------------------------------
(* The HAL's client: s1 is the mode, s2 the main thread, s3 the slots, s4 the      *)
(* buffers allocated, s5 the requests the HAL has, s6 the frames it may still      *)
(* write, s7 those it has written, s8 the fences, s9 the image, s10 the trouble.   *)

LEMMA ModSmall ==
  ASSUME NEW m \in Nat \ {0}, NEW n \in Nat, n < m
  PROVE  n % m = n
OBVIOUS

LEMMA ModRange ==
  ASSUME NEW m \in Nat \ {0}, NEW n \in Int
  PROVE  n % m \in 0..(m - 1)
OBVIOUS

\* Two numbers less than m apart are not the same modulo m.
LEMMA ModDiffer ==
  ASSUME NEW m \in Nat \ {0}, NEW f \in Nat, NEW g \in Nat, f < g, g < f + m
  PROVE  f % m # g % m
<1> DEFINE a == f \div m  b == g \div m
<1>1. /\ f = m * a + (f % m) /\ g = m * b + (g % m)
      /\ a \in Int /\ b \in Int
  OBVIOUS
<1> HIDE DEF a, b
<1>2. ASSUME f % m = g % m
      PROVE  FALSE
  <2>1. g - f = m * (b - a)
    BY <1>1, <1>2, Z3
  <2>2. CASE b - a <= 0
    BY <1>1, <2>1, <2>2
  <2>3. CASE b - a >= 1
    BY <1>1, <2>1, <2>3
  <2> QED
    BY <1>1, <2>2, <2>3
<1> QED
  BY <1>2

\* The bounds of frames and slots: no frame number of a run wraps, and the frames
\* that are in flight together have slots of their own.
LEMMA HalArithmetic ==
  ASSUME Hal!HalAssumption
  PROVE  /\ N \in Nat \ {0} /\ Modulus \in Nat
         /\ Hal!Count \in Nat /\ N <= Hal!Count /\ Hal!Count + N < Modulus
         /\ Hal!Piped => Hal!Depth = N
         /\ ~Hal!Piped => Hal!Depth = 1
         /\ \A n \in 0..(Modulus - 1) : Hal!UInt(n) = n
         /\ 0 \in Hal!SlotIds
         /\ \A f \in 1..(Modulus - 1) : Hal!SlotOf(f) \in Hal!SlotIds
         /\ \A f, g \in 1..(Modulus - 1) :
              f < g /\ g < f + Hal!Depth => Hal!SlotOf(f) # Hal!SlotOf(g)
<1>1. /\ N \in Nat \ {0} /\ Limit \in Nat /\ Modulus \in Int /\ Limit >= N
      /\ Modulus > Limit + 2 * N
  BY DEF Hal!HalAssumption
<1>2. Modulus \in Nat \ {0}
  BY <1>1
<1>3. Hal!Count \in Nat /\ N <= Hal!Count /\ Hal!Count + N < Modulus
  BY <1>1 DEF Hal!Count
<1>4. (Hal!Piped => Hal!Depth = N) /\ (~Hal!Piped => Hal!Depth = 1)
  BY DEF Hal!Depth
<1>5. \A n \in 0..(Modulus - 1) : Hal!UInt(n) = n
  BY <1>2, ModSmall DEF Hal!UInt
<1>6. 0 \in Hal!SlotIds
  BY <1>1 DEF Hal!SlotIds
<1>7. ASSUME NEW f \in 1..(Modulus - 1)
      PROVE  Hal!SlotOf(f) \in Hal!SlotIds
  BY <1>1, ModRange DEF Hal!SlotOf, Hal!SlotIds
<1>8. ASSUME NEW f \in 1..(Modulus - 1), NEW g \in 1..(Modulus - 1),
             f < g, g < f + Hal!Depth
      PROVE  Hal!SlotOf(f) # Hal!SlotOf(g)
  <2>1. CASE Hal!Piped
    <3>1. f - 1 \in Nat /\ g - 1 \in Nat /\ f - 1 < g - 1 /\ g - 1 < f - 1 + N
      BY <1>1, <1>2, <1>4, <1>8, <2>1
    <3>2. (f - 1) % N # (g - 1) % N
      BY <1>1, <3>1, ModDiffer
    <3> QED
      BY <2>1, <3>2 DEF Hal!SlotOf
  <2>2. CASE ~Hal!Piped
    BY <1>2, <1>4, <1>8, <2>2
  <2> QED
    BY <2>1, <2>2
<1> QED
  BY <1>1, <1>2, <1>3, <1>4, <1>5, <1>6, <1>7, <1>8

\* The mode never changes, nor what depends on it.
LEMMA HalModeStays ==
  ASSUME s1' = s1
  PROVE  /\ Hal!SlotIds' = Hal!SlotIds
         /\ \A f \in Hal!Frames : Hal!SlotOf(f)' = Hal!SlotOf(f)
         /\ Hal!Piped' = Hal!Piped /\ Hal!Count' = Hal!Count /\ Hal!Depth' = Hal!Depth
BY DEF Hal!SlotIds, Hal!SlotOf, Hal!Piped, Hal!Count, Hal!Depth

\* What the main thread does to itself leaves slots, buffers and fences in agreement.
LEMMA HalBuffersStay ==
  ASSUME Hal!HalTyped, UNCHANGED <<s1, s3, s5, s6, s7>>
  PROVE  Hal!SlotAgrees => Hal!SlotAgrees'
BY HalModeStays DEF Hal!SlotAgrees, Hal!OwnSlots, Hal!HalTyped, Hal!SlotTypes

LEMMA HalFencesStay ==
  ASSUME Hal!HalTyped, UNCHANGED <<s1, s3, s8>>
  PROVE  Hal!FenceRemembered => Hal!FenceRemembered'
BY HalModeStays DEF Hal!FenceRemembered, Hal!HalTyped, Hal!SlotTypes

\* The main thread goes to the clean-up, or to the flush before it, having failed.
LEMMA HalGivesUp ==
  ASSUME Hal!HalAssumption, Hal!HalInv, NEW pc \in {"close", "flush"},
         s2' = [s2 EXCEPT !.pc = pc, !.status = "failed"], s10' = TRUE,
         s2.pc \notin {"release", "exited", "aborted"},
         s9' \in [frame : Int, of : Int],
         s9'.of = s9'.frame \/ s1 = "still",
         UNCHANGED <<s1, s3, s4, s5, s6, s7, s8>>
  PROVE  Hal!HalInv'
<1>1. /\ s2' \in Hal!ProgTypes /\ s2'.pc \in {"close", "flush"}
      /\ s2'.status = "failed"
      /\ s2'.frame = s2.frame /\ s2'.last = s2.last /\ s10' = TRUE
  BY DEF Hal!HalInv, Hal!HalTyped, Hal!ProgTypes
<1>2. Hal!HalTyped'
  BY <1>1, HalModeStays DEF Hal!HalInv, Hal!HalTyped, Hal!ProgTypes
<1>3. Hal!NextRequest' /\ Hal!FlightHasSlots' /\ Hal!SlotInHand' /\ Hal!NoTrouble'
  BY <1>1 DEF Hal!NextRequest, Hal!FlightHasSlots, Hal!SlotInHand, Hal!NoTrouble,
              Hal!Requesting, Hal!Working, Hal!Awaiting
<1>4. Hal!Ending' /\ Hal!FencesClosedOnce'
  BY <1>1, HalModeStays DEF Hal!HalInv, Hal!Ending, Hal!FencesClosedOnce
<1>5. Hal!SlotAgrees' /\ Hal!FenceRemembered'
  BY HalBuffersStay, HalFencesStay DEF Hal!HalInv
<1>6. Hal!ImageTrue'
  BY <1>1 DEF Hal!ImageTrue
<1> QED
  BY <1>2, <1>3, <1>4, <1>5, <1>6 DEF Hal!HalInv

LEMMA HalFails ==
  ASSUME Hal!HalAssumption, Hal!HalInv, Hal!Fail,
         s2.pc \notin {"release", "exited", "aborted"},
         s9' \in [frame : Int, of : Int],
         s9'.of = s9'.frame \/ s1 = "still",
         UNCHANGED <<s1, s3, s4, s5, s6, s7, s8>>
  PROVE  Hal!HalInv'
BY HalGivesUp DEF Hal!Fail

\* The HAL has no request but those of the slots.
LEMMA HalTaken ==
  ASSUME Hal!HalAssumption, Hal!HalInv, s2.pc \notin {"release", "exited", "aborted"}
  PROVE  \A f \in s5 : /\ f \in 1..(Modulus - 1) /\ f \in Hal!Frames
                       /\ Hal!SlotOf(f) \in Hal!SlotIds
                       /\ s3[Hal!SlotOf(f)].frame = f
                       /\ ~s3[Hal!SlotOf(f)].received /\ s6[Hal!SlotOf(f)] = f
<1>1. \A f \in s5 : f \in 1..(Modulus - 1) /\ f \in Hal!Frames
  BY HalArithmetic DEF Hal!HalInv, Hal!SlotAgrees, Hal!OwnSlots, Hal!HalTyped, Hal!Frames
<1> QED
  BY <1>1, HalArithmetic DEF Hal!HalInv, Hal!SlotAgrees, Hal!OwnSlots

\* The main thread goes on, and leaves slots and buffers alone: what is no longer in
\* flight was done with.
LEMMA HalGoesOn ==
  ASSUME Hal!HalAssumption, Hal!HalInv, Hal!Working,
         s2' \in Hal!ProgTypes, s2'.frame <= s2'.last, Hal!Working',
         s2'.status = s2.status, Hal!NextRequest', Hal!SlotInHand',
         \A f \in Hal!Frames : Hal!InFlight(f)' => Hal!InFlight(f),
         \A s \in Hal!SlotIds :
           Hal!InFlight(s3[s].frame) /\ ~Hal!InFlight(s3[s].frame)' =>
             s6[s] = 0 /\ s3[s].fence = Hal!NoFence,
         s9' \in [frame : Int, of : Int], s9'.of = s9'.frame \/ s9' = s9,
         UNCHANGED <<s1, s3, s4, s5, s6, s7, s8, s10>>
  PROVE  Hal!HalInv'
<1>1. Hal!HalTyped'
  BY HalModeStays DEF Hal!HalInv, Hal!HalTyped, Hal!ProgTypes
<1>2. /\ s2'.pc \notin {"begin", "allocate", "flush", "close"}
      /\ s2'.pc \notin {"release", "exited", "aborted"}
      /\ s2.pc \notin {"begin", "allocate", "close", "release", "exited", "aborted"}
  BY DEF Hal!Working, Hal!Awaiting, Hal!Requesting
<1>3. Hal!SlotAgrees' /\ Hal!FenceRemembered'
  BY <1>2, HalBuffersStay, HalFencesStay DEF Hal!HalInv
<1>4. Hal!NoTrouble' /\ Hal!Ending' /\ Hal!FencesClosedOnce'
  BY <1>2, HalModeStays
  DEF Hal!HalInv, Hal!NoTrouble, Hal!Ending, Hal!FencesClosedOnce
<1>5. Hal!ImageTrue'
  BY <1>2 DEF Hal!HalInv, Hal!ImageTrue
<1>6. Hal!FlightHasSlots'
  <2>1. \A f \in Hal!Frames : Hal!InFlight(f) => s3[Hal!SlotOf(f)].frame = f
    BY DEF Hal!HalInv, Hal!FlightHasSlots
  <2>2. \A s \in Hal!SlotIds : ~Hal!InFlight(s3[s].frame) =>
           s6[s] = 0 /\ s3[s].fence = Hal!NoFence
    BY DEF Hal!HalInv, Hal!FlightHasSlots
  <2> QED
    BY <2>1, <2>2, HalModeStays DEF Hal!FlightHasSlots
<1> QED
  BY <1>1, <1>3, <1>4, <1>5, <1>6 DEF Hal!HalInv

\* What the frame that is waited for has: a slot of its own, which is its own.
LEMMA HalFrameInFlight ==
  ASSUME Hal!HalAssumption, Hal!HalInv, Hal!Awaiting
  PROVE  /\ s2.frame \in Hal!Frames \ {0} /\ Hal!InFlight(s2.frame)
         /\ Hal!SlotOf(s2.frame) \in Hal!SlotIds
         /\ s3[Hal!SlotOf(s2.frame)].frame = s2.frame
<1>1. /\ s2.frame \in 1..Hal!Count /\ s2.frame <= s2.last
      /\ Hal!Depth \in Nat /\ Hal!Depth >= 1
  BY HalArithmetic DEF Hal!HalInv, Hal!HalTyped, Hal!ProgTypes
<1>2. s2.frame \in 1..(Modulus - 1) /\ s2.frame \in Hal!Frames \ {0}
  BY <1>1, HalArithmetic DEF Hal!Frames
<1>3. Hal!InFlight(s2.frame)
  BY <1>1, <1>2 DEF Hal!InFlight
<1> QED
  BY <1>2, <1>3, HalArithmetic DEF Hal!HalInv, Hal!FlightHasSlots, Hal!Working

LEMMA HalWaitHolds ==
  ASSUME Hal!HalAssumption, Hal!HalInv, Hal!Wait
  PROVE  Hal!HalInv'
<1> DEFINE s == Hal!SlotOf(s2.frame)
<1>1. /\ s2.pc = "wait" /\ Hal!Awaiting /\ Hal!Working
      /\ UNCHANGED <<s1, s3, s4, s5, s6, s7, s8, s9>>
  BY DEF Hal!Wait, Hal!Awaiting, Hal!Working, Hal!Hal
<1>2. s2.frame \in Hal!Frames \ {0} /\ s \in Hal!SlotIds /\ s3[s].frame = s2.frame
  BY <1>1, HalFrameInFlight
<1>3. s9 \in [frame : Int, of : Int] /\ (s9.of = s9.frame \/ s1 = "still")
  BY DEF Hal!HalInv, Hal!HalTyped, Hal!ImageTrue
<1>4. CASE Hal!NoResult /\ s10' = TRUE
  <2>1. PICK pc \in {"close", "flush"} : s2' = [s2 EXCEPT !.pc = pc, !.status = "failed"]
    BY <1>4 DEF Hal!NoResult
  <2> QED
    BY <1>1, <1>3, <1>4, <2>1, HalGivesUp
<1>5. CASE Hal!Answered(s) /\ UNCHANGED s10
  <2>1. Hal!Answered(s) /\ UNCHANGED s10
    BY <1>5
  <2>2. CASE s3[s].received /\ ~s3[s].error /\ ~s3[s].bad
    <3>1. s2' = [s2 EXCEPT !.pc = "fence"]
      BY <1>2, <1>5, <2>2 DEF Hal!Wait
    <3>2. /\ s2' \in Hal!ProgTypes /\ s2'.pc = "fence" /\ s2'.frame = s2.frame
          /\ s2'.last = s2.last /\ s2'.status = s2.status /\ s2'.frame <= s2'.last
      BY <3>1 DEF Hal!HalInv, Hal!HalTyped, Hal!ProgTypes
    <3>3. Hal!Awaiting' /\ Hal!Working' /\ Hal!NextRequest'
      BY <3>2 DEF Hal!Awaiting, Hal!Working, Hal!NextRequest, Hal!Requesting
    <3>4. \A f \in Hal!Frames : Hal!InFlight(f)' <=> Hal!InFlight(f)
      BY <1>1, <3>2, <3>3, HalModeStays DEF Hal!InFlight, Hal!Awaiting, Hal!Requesting
    <3>5. Hal!SlotInHand'
      BY <1>1, <1>2, <2>2, <3>2, HalModeStays DEF Hal!SlotInHand
    <3>6. \A t \in Hal!SlotIds : Hal!InFlight(s3[t].frame)' <=> Hal!InFlight(s3[t].frame)
      BY <1>1, <3>4 DEF Hal!HalInv, Hal!HalTyped, Hal!SlotTypes
    <3> QED
      BY <1>1, <1>3, <2>1, <3>2, <3>3, <3>4, <3>5, <3>6, HalGoesOn
  <2>3. CASE ~(s3[s].received /\ ~s3[s].error /\ ~s3[s].bad)
    <3>1. s10 = TRUE
      BY <1>2, <2>1, <2>3 DEF Hal!HalInv, Hal!NoTrouble, Hal!Answered, Hal!HalTyped
    <3>2. Hal!NoResult /\ s10' = TRUE
      BY <1>2, <2>1, <2>3, <3>1 DEF Hal!Wait
    <3> QED
      BY <1>4, <3>2
  <2> QED
    BY <2>2, <2>3
<1> QED
  BY <1>4, <1>5 DEF Hal!Wait

LEMMA HalFlushHolds ==
  ASSUME Hal!HalAssumption, Hal!HalInv, Hal!Flush
  PROVE  Hal!HalInv'
<1>1. /\ s2.pc = "flush" /\ s2.status = "failed"
      /\ s2' = [s2 EXCEPT !.pc = "close", !.status = "failed"]
      /\ UNCHANGED <<s1, s3, s4, s5, s6, s7, s8, s9, s10>>
  BY DEF Hal!HalInv, Hal!HalTyped, Hal!ProgTypes, Hal!Ending, Hal!Flush, Hal!Hal
<1>2. s10 = TRUE
  BY <1>1 DEF Hal!HalInv, Hal!NoTrouble, Hal!HalTyped
<1>3. s9 \in [frame : Int, of : Int] /\ (s9.of = s9.frame \/ s1 = "still")
  BY DEF Hal!HalInv, Hal!HalTyped, Hal!ImageTrue
<1> QED
  BY <1>1, <1>2, <1>3, HalGivesUp

LEMMA HalImageHolds ==
  ASSUME Hal!HalAssumption, Hal!HalInv, Hal!Image
  PROVE  Hal!HalInv'
<1> DEFINE s == Hal!SlotOf(s2.frame)
<1>1. /\ s2.pc = "image" /\ Hal!Awaiting /\ Hal!Working
      /\ UNCHANGED <<s1, s3, s4, s5, s6, s7, s8>>
  BY DEF Hal!Image, Hal!Awaiting, Hal!Working, Hal!Hal
<1>2. s2.frame \in Hal!Frames \ {0} /\ s \in Hal!SlotIds /\ s3[s].frame = s2.frame
  BY <1>1, HalFrameInFlight
<1>3. s9 \in [frame : Int, of : Int] /\ (s9.of = s9.frame \/ s1 = "still")
  BY DEF Hal!HalInv, Hal!HalTyped, Hal!ImageTrue
\* The buffer is that of the frame, and the camera has done with it.
<1>4. Hal!Shown(s) = s2.frame
  <2>1. s3[s].received /\ s3[s].fence = Hal!NoFence
    BY <1>1 DEF Hal!HalInv, Hal!SlotInHand
  <2> QED
    BY <1>1, <1>2, <2>1 DEF Hal!HalInv, Hal!SlotAgrees, Hal!OwnSlots, Hal!Shown
<1>5. CASE Hal!Fail
  <2>1. \/ s9' = [frame |-> s2.frame, of |-> s2.frame] \/ s9' = s9
        \/ s1 = "still" /\ s9' = [frame |-> s2.frame, of |-> Hal!Torn]
    BY <1>4, <1>5 DEF Hal!Image
  <2>2. s2.frame \in Int
    BY <1>2, HalArithmetic DEF Hal!Frames
  <2>3. s9' \in [frame : Int, of : Int] /\ (s9'.of = s9'.frame \/ s1 = "still")
    BY <1>3, <2>1, <2>2 DEF Hal!Torn
  <2> QED
    BY <1>1, <1>5, <2>3, HalFails
<1>6. CASE ~Hal!Fail
  <2>1. /\ s2' = [s2 EXCEPT !.pc = "advance"] /\ s10' = s10
        /\ s9' = [frame |-> s2.frame, of |-> s2.frame] \/ s9' = s9
    BY <1>4, <1>6 DEF Hal!Image
  <2>2. s9' \in [frame : Int, of : Int] /\ (s9'.of = s9'.frame \/ s9' = s9)
    <3>1. s2.frame \in Int
      BY <1>2, HalArithmetic DEF Hal!Frames
    <3> QED
      BY <1>3, <2>1, <3>1
  <2>3. /\ s2' \in Hal!ProgTypes /\ s2'.pc = "advance" /\ s2'.frame = s2.frame
        /\ s2'.last = s2.last /\ s2'.status = s2.status /\ s2'.frame <= s2'.last
    BY <2>1 DEF Hal!HalInv, Hal!HalTyped, Hal!ProgTypes
  <2>4. Hal!Awaiting' /\ Hal!Working' /\ Hal!NextRequest'
    BY <2>3 DEF Hal!Awaiting, Hal!Working, Hal!NextRequest, Hal!Requesting
  <2>5. \A f \in Hal!Frames : Hal!InFlight(f)' <=> Hal!InFlight(f)
    BY <1>1, <2>3, <2>4, HalModeStays DEF Hal!InFlight, Hal!Awaiting, Hal!Requesting
  <2>6. Hal!SlotInHand'
    BY <1>1, <1>2, <2>3, HalModeStays DEF Hal!HalInv, Hal!SlotInHand
  <2>7. \A t \in Hal!SlotIds : Hal!InFlight(s3[t].frame)' <=> Hal!InFlight(s3[t].frame)
    BY <1>1, <2>5 DEF Hal!HalInv, Hal!HalTyped, Hal!SlotTypes
  <2> QED
    BY <1>1, <2>1, <2>2, <2>3, <2>4, <2>5, <2>6, <2>7, HalGoesOn
<1> QED
  BY <1>5, <1>6

\* The frame is done with; the next request is N frames later, if it is asked for.
LEMMA HalAdvanceHolds ==
  ASSUME Hal!HalAssumption, Hal!HalInv, Hal!Advance
  PROVE  Hal!HalInv'
<1> DEFINE s == Hal!SlotOf(s2.frame)
<1>1. /\ s2.pc = "advance" /\ Hal!Awaiting /\ Hal!Working
      /\ UNCHANGED <<s1, s3, s4, s5, s6, s7, s8, s9, s10>>
  BY DEF Hal!Advance, Hal!Awaiting, Hal!Working, Hal!Hal
<1>2. s2.frame \in Hal!Frames \ {0} /\ s \in Hal!SlotIds /\ s3[s].frame = s2.frame
  BY <1>1, HalFrameInFlight
<1>3. s6[s] = 0 /\ s3[s].fence = Hal!NoFence
  BY <1>1, <1>2 DEF Hal!HalInv, Hal!SlotInHand, Hal!SlotAgrees, Hal!OwnSlots
<1>4. /\ s2 \in Hal!ProgTypes /\ s2.frame \in 1..Hal!Count /\ s2.last \in 1..Hal!Count
      /\ s2.frame <= s2.last
      /\ N \in Nat \ {0} /\ Modulus \in Nat /\ Hal!Count + N < Modulus
      /\ Hal!Count \in Nat
  BY HalArithmetic DEF Hal!HalInv, Hal!HalTyped, Hal!ProgTypes
<1>5. /\ Hal!UInt(s2.frame + N) = s2.frame + N
      /\ Hal!UInt(s2.frame + 1) = s2.frame + 1
      /\ Hal!UInt(s2.frame + N - 1) = s2.frame + N - 1
  BY <1>4, HalArithmetic
\* The slot of the frame is the only one that leaves the flight.
<1>6. ASSUME NEW t \in Hal!SlotIds, s3[t].frame = s2.frame
      PROVE  s6[t] = 0 /\ s3[t].fence = Hal!NoFence
  BY <1>1, <1>2, <1>3, <1>6 DEF Hal!HalInv, Hal!SlotAgrees, Hal!OwnSlots
<1>7. \A t \in Hal!SlotIds : s3[t].frame \in Hal!Frames
  BY DEF Hal!HalInv, Hal!HalTyped, Hal!SlotTypes
<1>8. s9' \in [frame : Int, of : Int]
  BY <1>1 DEF Hal!HalInv, Hal!HalTyped
<1>9. PICK last \in {s2.last, s2.frame + N - 1} :
        /\ last <= s2.last /\ (last # s2.last => Hal!Piped)
        /\ LET next == IF Hal!Piped THEN s2.frame + N ELSE s2.frame + 1
           IN  s2' = IF ~Hal!Piped \/ next > last
                     THEN [s2 EXCEPT !.pc = "turn", !.last = last]
                     ELSE [s2 EXCEPT !.pc = "reset", !.last = last, !.next = next]
  <2>1. PICK late \in IF s1 = "pipeline" THEN BOOLEAN ELSE {FALSE} :
          LET last == Hal!Drain(late)
              next == IF Hal!Piped THEN Hal!UInt(s2.frame + N) ELSE Hal!UInt(s2.frame + 1)
          IN  s2' = IF ~Hal!Piped \/ next > last
                    THEN [s2 EXCEPT !.pc = "turn", !.last = last]
                    ELSE [s2 EXCEPT !.pc = "reset", !.last = last, !.next = next]
    BY DEF Hal!Advance
  <2>2. /\ Hal!Drain(late) \in {s2.last, s2.frame + N - 1} /\ Hal!Drain(late) <= s2.last
        /\ Hal!Drain(late) # s2.last => Hal!Piped
    <3>1. \/ Hal!Drain(late) = s2.last
          \/ /\ late /\ Hal!UInt(s2.frame + N - 1) < s2.last
             /\ Hal!Drain(late) = Hal!UInt(s2.frame + N - 1)
      BY Zenon DEF Hal!Drain
    <3>2. late => Hal!Piped
      BY Zenon DEF Hal!Piped
    <3> QED
      BY <1>4, <1>5, <3>1, <3>2
  <2> QED
    BY <1>5, <2>1, <2>2
<1>10. last \in 1..Hal!Count /\ s2.frame <= last /\ last <= s2.last
  BY <1>4, <1>9
<1>11. CASE ~Hal!Piped \/ s2.frame + N > last
  <2>1. /\ s2' \in Hal!ProgTypes /\ s2'.pc = "turn" /\ s2'.frame = s2.frame
        /\ s2'.last = last /\ s2'.status = s2.status
    BY <1>4, <1>9, <1>10, <1>11 DEF Hal!ProgTypes
  <2>2. Hal!Working' /\ Hal!NextRequest' /\ Hal!SlotInHand'
    BY <2>1 DEF Hal!Working, Hal!Requesting, Hal!NextRequest, Hal!SlotInHand
  <2>3. /\ \A f \in Hal!Frames : Hal!InFlight(f)' => Hal!InFlight(f)
        /\ \A f \in Hal!Frames : Hal!InFlight(f) /\ ~Hal!InFlight(f)' => f = s2.frame
    <3>1. ASSUME NEW f \in Hal!Frames
          PROVE  /\ Hal!InFlight(f)' <=> f \in 1..(Modulus - 1) /\ Hal!Piped
                       /\ s2.frame < f /\ f <= s2.frame + N /\ f <= last
                 /\ Hal!InFlight(f) <=> f \in 1..(Modulus - 1)
                       /\ s2.frame <= f /\ f < s2.frame + Hal!Depth /\ f <= s2.last
      BY <1>1, <2>1, HalModeStays DEF Hal!InFlight, Hal!Awaiting, Hal!Requesting
    <3>2. (Hal!Piped => Hal!Depth = N) /\ (~Hal!Piped => Hal!Depth = 1)
      BY HalArithmetic
    <3>3. CASE Hal!Piped
      BY <1>4, <1>9, <1>10, <1>11, <3>1, <3>2, <3>3
    <3>4. CASE ~Hal!Piped
      BY <1>4, <1>9, <3>1, <3>2, <3>4
    <3> QED
      BY <3>3, <3>4
  <2>4. \A t \in Hal!SlotIds :
           Hal!InFlight(s3[t].frame) /\ ~Hal!InFlight(s3[t].frame)' =>
             s6[t] = 0 /\ s3[t].fence = Hal!NoFence
    BY <1>1, <1>6, <1>7, <2>3
  <2> QED
    BY <1>1, <1>8, <1>10, <2>1, <2>2, <2>3, <2>4, HalGoesOn
<1>12. CASE Hal!Piped /\ ~(s2.frame + N > last)
  <2>1. last = s2.last /\ s2.frame + N <= s2.last
    BY <1>4, <1>9, <1>12
  <2>2. s2' = [s2 EXCEPT !.pc = "reset", !.last = last, !.next = s2.frame + N]
    BY <1>9, <1>12
  <2>3. s2.frame + N \in 1..Hal!Count
    BY <1>4, <2>1
  <2>4. /\ s2' \in Hal!ProgTypes /\ s2'.pc = "reset" /\ s2'.frame = s2.frame
        /\ s2'.last = s2.last /\ s2'.status = s2.status /\ s2'.next = s2.frame + N
    BY <1>4, <2>1, <2>2, <2>3 DEF Hal!ProgTypes
  <2>5. Hal!Working' /\ Hal!NextRequest' /\ Hal!SlotInHand'
    BY <1>1, <1>12, <2>1, <2>4, HalModeStays
    DEF Hal!Working, Hal!Requesting, Hal!NextRequest, Hal!SlotInHand
  <2>6. /\ \A f \in Hal!Frames : Hal!InFlight(f)' => Hal!InFlight(f)
        /\ \A f \in Hal!Frames : Hal!InFlight(f) /\ ~Hal!InFlight(f)' => f = s2.frame
    <3>1. ASSUME NEW f \in Hal!Frames
          PROVE  /\ Hal!InFlight(f)' <=> f \in 1..(Modulus - 1)
                       /\ s2.frame + N - Hal!Depth < f /\ f < s2.frame + N
                 /\ Hal!InFlight(f) <=> f \in 1..(Modulus - 1)
                       /\ s2.frame <= f /\ f < s2.frame + Hal!Depth /\ f <= s2.last
      <4>1. ~Hal!Awaiting' /\ Hal!Requesting' /\ s2'.pc # "turn" /\ ~Hal!Requesting
        BY <1>1, <2>4 DEF Hal!Awaiting, Hal!Requesting
      <4>2. Hal!InFlight(f)' <=> f \in 1..(Modulus - 1)
               /\ s2.frame + N - Hal!Depth < f /\ f < s2.frame + N
        <5>1. s2'.next = s2.frame + N /\ Hal!Depth' = N /\ Hal!Depth = N
          BY <1>1, <1>12, <2>4, HalModeStays, HalArithmetic
        <5> QED
          BY <1>4, <4>1, <5>1 DEF Hal!InFlight
      <4> QED
        BY <1>1, <4>1, <4>2 DEF Hal!InFlight
    <3>2. Hal!Depth = N
      BY <1>12, HalArithmetic
    <3> QED
      BY <1>4, <2>1, <3>1, <3>2
  <2>7. \A t \in Hal!SlotIds :
           Hal!InFlight(s3[t].frame) /\ ~Hal!InFlight(s3[t].frame)' =>
             s6[t] = 0 /\ s3[t].fence = Hal!NoFence
    BY <1>1, <1>6, <1>7, <2>6
  <2> QED
    BY <1>1, <1>4, <1>8, <2>4, <2>5, <2>6, <2>7, HalGoesOn
<1> QED
  BY <1>11, <1>12

\* The next frame, or the end: then nothing is in flight.
LEMMA HalTurnHolds ==
  ASSUME Hal!HalAssumption, Hal!HalInv, Hal!Turn
  PROVE  Hal!HalInv'
<1>1. /\ s2.pc = "turn" /\ Hal!Working /\ ~Hal!Awaiting /\ ~Hal!Requesting
      /\ UNCHANGED <<s1, s3, s4, s5, s6, s7, s8, s9, s10>>
  BY DEF Hal!Turn, Hal!Awaiting, Hal!Requesting, Hal!Working, Hal!Hal
<1>2. /\ s2 \in Hal!ProgTypes /\ s2.frame \in 1..Hal!Count /\ s2.last \in 1..Hal!Count
      /\ s2.frame <= s2.last
      /\ N \in Nat \ {0} /\ Modulus \in Nat /\ Hal!Count + N < Modulus
      /\ Hal!Count \in Nat
  BY HalArithmetic DEF Hal!HalInv, Hal!HalTyped, Hal!ProgTypes
<1>3. Hal!UInt(s2.frame + 1) = s2.frame + 1
  BY <1>2, HalArithmetic
<1>4. \A t \in Hal!SlotIds : s3[t].frame \in Hal!Frames
  BY DEF Hal!HalInv, Hal!HalTyped, Hal!SlotTypes
<1>5. \A f \in Hal!Frames :
        Hal!InFlight(f) <=> /\ f \in 1..(Modulus - 1) /\ Hal!Piped
                            /\ s2.frame < f /\ f <= s2.frame + N /\ f <= s2.last
  BY <1>1 DEF Hal!InFlight
<1>6. CASE s2.frame + 1 > s2.last
  <2>1. s2' = [s2 EXCEPT !.pc = "close"]
    BY <1>3, <1>6 DEF Hal!Turn
  <2>2. /\ s2' \in Hal!ProgTypes /\ s2'.pc = "close" /\ s2'.frame = s2.frame
        /\ s2'.last = s2.last /\ s2'.status = s2.status
    BY <1>2, <2>1 DEF Hal!ProgTypes
  <2>3. \A s \in Hal!SlotIds : s6[s] = 0
    <3>1. \A f \in Hal!Frames : ~Hal!InFlight(f)
      BY <1>2, <1>5, <1>6 DEF Hal!Frames
    <3> QED
      BY <1>1, <1>4, <3>1 DEF Hal!HalInv, Hal!FlightHasSlots
  <2>4. s5 = {}
    BY <1>1, <2>3, HalTaken, HalArithmetic
  <2>5. Hal!HalTyped'
    BY <1>1, <1>2, <2>2, HalModeStays DEF Hal!HalInv, Hal!HalTyped, Hal!ProgTypes
  <2>6. Hal!NextRequest' /\ Hal!FlightHasSlots' /\ Hal!SlotInHand'
    BY <2>2 DEF Hal!NextRequest, Hal!FlightHasSlots, Hal!SlotInHand, Hal!Requesting,
                Hal!Working, Hal!Awaiting
  <2>7. Hal!NoTrouble' /\ Hal!FencesClosedOnce' /\ Hal!ImageTrue'
    BY <1>1, <2>2, HalModeStays
    DEF Hal!HalInv, Hal!NoTrouble, Hal!FencesClosedOnce, Hal!ImageTrue
  <2>8. Hal!Ending'
    BY <1>1, <2>2, <2>3, <2>4, HalModeStays DEF Hal!HalInv, Hal!Ending
  <2>9. Hal!SlotAgrees' /\ Hal!FenceRemembered'
    BY <1>1, HalBuffersStay, HalFencesStay DEF Hal!HalInv
  <2> QED
    BY <2>5, <2>6, <2>7, <2>8, <2>9 DEF Hal!HalInv
<1>7. CASE ~(s2.frame + 1 > s2.last)
  <2>1. s2.frame + 1 \in 1..Hal!Count /\ s2.frame + 1 <= s2.last
    BY <1>2, <1>7
  <2>2. s2' = [s2 EXCEPT !.frame = s2.frame + 1,
                         !.next = IF Hal!Piped THEN s2.next ELSE s2.frame + 1,
                         !.pc = IF Hal!Piped THEN "wait" ELSE "reset"]
    BY <1>3, <1>7 DEF Hal!Turn
  <2>3. /\ s2' \in Hal!ProgTypes /\ s2'.frame = s2.frame + 1 /\ s2'.last = s2.last
        /\ s2'.status = s2.status
        /\ s2'.next = IF Hal!Piped THEN s2.next ELSE s2.frame + 1
        /\ s2'.pc = IF Hal!Piped THEN "wait" ELSE "reset"
    BY <1>2, <2>1, <2>2 DEF Hal!ProgTypes
  <2>4. Hal!Working' /\ Hal!SlotInHand'
    BY <2>3 DEF Hal!Working, Hal!Awaiting, Hal!Requesting, Hal!SlotInHand
  <2>5. Hal!NextRequest'
    BY <1>1, <2>1, <2>3, HalModeStays DEF Hal!NextRequest, Hal!Requesting
  <2>6. \A f \in Hal!Frames : Hal!InFlight(f)' <=> Hal!InFlight(f)
    <3>1. CASE Hal!Piped
      <4>1. Hal!Awaiting' /\ ~Hal!Requesting' /\ s2'.pc # "turn" /\ Hal!Depth' = N
        BY <1>1, <2>3, <3>1, HalModeStays, HalArithmetic
        DEF Hal!Awaiting, Hal!Requesting
      <4>2. \A f \in Hal!Frames :
              Hal!InFlight(f)' <=> /\ f \in 1..(Modulus - 1)
                                   /\ s2.frame + 1 <= f /\ f < s2.frame + 1 + N
                                   /\ f <= s2.last
        BY <2>3, <4>1 DEF Hal!InFlight
      <4> QED
        BY <1>2, <1>5, <3>1, <4>2
    <3>2. CASE ~Hal!Piped
      <4>1. /\ ~Hal!Awaiting' /\ Hal!Requesting' /\ s2'.pc # "turn" /\ Hal!Depth' = 1
            /\ s2'.next = s2.frame + 1
        BY <1>1, <2>3, <3>2, HalModeStays, HalArithmetic
        DEF Hal!Awaiting, Hal!Requesting
      <4>2. \A f \in Hal!Frames : ~Hal!InFlight(f)'
        BY <1>2, <4>1 DEF Hal!InFlight
      <4> QED
        BY <1>5, <3>2, <4>2
    <3> QED
      BY <3>1, <3>2
  <2>7. \A t \in Hal!SlotIds : Hal!InFlight(s3[t].frame)' <=> Hal!InFlight(s3[t].frame)
    BY <1>1, <1>4, <2>6
  <2>8. s9' \in [frame : Int, of : Int]
    BY <1>1 DEF Hal!HalInv, Hal!HalTyped
  <2> QED
    BY <1>1, <2>1, <2>3, <2>4, <2>5, <2>6, <2>7, <2>8, HalGoesOn
<1> QED
  BY <1>6, <1>7

\* The device is opened: the fences of the slots are now absent.
LEMMA HalBeginHolds ==
  ASSUME Hal!HalAssumption, Hal!HalInv, Hal!Begin
  PROVE  Hal!HalInv'
<1>1. s2.pc = "begin" /\ UNCHANGED <<s1, s4, s5, s6, s7, s8, s9>>
  BY DEF Hal!Begin, Hal!Hal
<1>2. CASE Hal!Fail
  <2>1. s3' = s3
    BY <1>2, <1>1 DEF Hal!Begin, Hal!Fail, Hal!HalInv, Hal!HalTyped, Hal!ProgTypes
  <2>2. s9 \in [frame : Int, of : Int] /\ (s9.of = s9.frame \/ s1 = "still")
    BY DEF Hal!HalInv, Hal!HalTyped, Hal!ImageTrue
  <2> QED
    BY <1>1, <1>2, <2>1, <2>2, HalFails
<1>3. CASE ~Hal!Fail
  <2>1. /\ s2' = [s2 EXCEPT !.pc = "allocate"] /\ s10' = s10
        /\ s3' = [s \in Hal!SlotIds |-> [s3[s] EXCEPT !.fence = Hal!NoFence]]
    BY <1>3 DEF Hal!Begin
  <2>2. /\ s2' \in Hal!ProgTypes /\ s2'.pc = "allocate" /\ s2'.frame = s2.frame
        /\ s2'.last = s2.last /\ s2'.next = s2.next /\ s2'.status = s2.status
    BY <2>1 DEF Hal!HalInv, Hal!HalTyped, Hal!ProgTypes
  <2>3. /\ s3' \in [Hal!SlotIds -> Hal!SlotTypes]
        /\ \A s \in Hal!SlotIds :
             /\ s3'[s].frame = s3[s].frame /\ s3'[s].received = s3[s].received
             /\ s3'[s].error = s3[s].error /\ s3'[s].bad = s3[s].bad
             /\ s3'[s].fence = Hal!NoFence
    BY <2>1 DEF Hal!HalInv, Hal!HalTyped, Hal!SlotTypes
  <2>4. (\A s \in Hal!SlotIds : s3[s].frame = 0 /\ s6[s] = 0) /\ s5 = {}
    <3>1. \A s \in Hal!SlotIds : s3[s].frame = 0 /\ s6[s] = 0
      BY <1>1 DEF Hal!HalInv, Hal!NextRequest, Hal!SlotAgrees, Hal!OwnSlots
    <3> QED
      BY <1>1, <3>1, HalTaken, HalArithmetic
  <2>5. Hal!HalTyped'
    BY <1>1, <2>1, <2>2, <2>3, HalModeStays
    DEF Hal!HalInv, Hal!HalTyped, Hal!ProgTypes
  <2>6. Hal!NextRequest'
    BY <1>1, <2>2, <2>3, HalModeStays DEF Hal!HalInv, Hal!NextRequest, Hal!Requesting
  <2>7. Hal!FlightHasSlots' /\ Hal!SlotInHand' /\ Hal!FencesClosedOnce'
    BY <2>2 DEF Hal!FlightHasSlots, Hal!SlotInHand, Hal!Working, Hal!Awaiting,
                Hal!Requesting, Hal!FencesClosedOnce
  <2>8. Hal!NoTrouble' /\ Hal!Ending' /\ Hal!ImageTrue'
    BY <1>1, <2>1, <2>2, <2>3, HalModeStays
    DEF Hal!HalInv, Hal!NoTrouble, Hal!Ending, Hal!ImageTrue
  <2>9. Hal!SlotAgrees'
    <3>1. /\ \A s \in Hal!SlotIds : s6[s] = 0
          /\ \A s \in Hal!SlotIds : s3[s].received => s7[s] = s3[s].frame
      BY <1>1, <2>4 DEF Hal!HalInv, Hal!SlotAgrees, Hal!OwnSlots
    <3> QED
      BY <1>1, <2>3, <2>4, <3>1, HalModeStays DEF Hal!SlotAgrees, Hal!OwnSlots
  <2>10. Hal!FenceRemembered'
    <3>1. \A f \in Hal!Frames \ {0} : s8[f] # "open" /\ s8[f] # "twice"
      <4>1. \A f \in Hal!Frames \ {0} : Hal!SlotOf(f) \in Hal!SlotIds
        BY HalArithmetic DEF Hal!Frames
      <4>2. \A s \in Hal!SlotIds : s3[s].fence \in {Hal!NoFence, Hal!Stdin}
        <5>1. \A s \in Hal!SlotIds : s3[s].fence \notin {Hal!NoFence, Hal!Stdin} =>
                                       s3[s].fence = s3[s].frame
          BY <1>1 DEF Hal!HalInv, Hal!FenceRemembered
        <5> QED
          BY <2>4, <5>1 DEF Hal!Stdin
      <4>3. \A f \in Hal!Frames \ {0} : f \notin {Hal!NoFence, Hal!Stdin}
        BY DEF Hal!Frames, Hal!NoFence, Hal!Stdin
      <4> QED
        BY <1>1, <4>1, <4>2, <4>3 DEF Hal!HalInv, Hal!FenceRemembered, Hal!Stdin
    <3> QED
      BY <1>1, <2>3, <3>1, HalModeStays DEF Hal!FenceRemembered, Hal!Stdin
  <2> QED
    BY <2>5, <2>6, <2>7, <2>8, <2>9, <2>10 DEF Hal!HalInv
<1> QED
  BY <1>2, <1>3

LEMMA HalAllocateHolds ==
  ASSUME Hal!HalAssumption, Hal!HalInv, Hal!Allocate
  PROVE  Hal!HalInv'
<1>1. s2.pc = "allocate" /\ UNCHANGED <<s1, s3, s5, s6, s7, s8, s9>>
  BY DEF Hal!Allocate, Hal!Hal
<1>2. /\ s2 \in Hal!ProgTypes /\ s2.slot \in Hal!SlotIds
      /\ s4 \in [Hal!SlotIds -> {"none", "held", "released"}]
      /\ s2.frame = 1 /\ s2.next = 1 /\ s2.last = Hal!Count
      /\ \A s \in Hal!SlotIds : s3[s].frame = 0 /\ s3[s].fence = Hal!NoFence /\ s6[s] = 0
  BY <1>1 DEF Hal!HalInv, Hal!HalTyped, Hal!ProgTypes, Hal!NextRequest, Hal!SlotAgrees,
           Hal!OwnSlots
<1>3. CASE Hal!Fail
  <2>1. s4' = s4
    BY <1>1, <1>2, <1>3 DEF Hal!Allocate, Hal!Fail, Hal!ProgTypes
  <2>2. s9 \in [frame : Int, of : Int] /\ (s9.of = s9.frame \/ s1 = "still")
    BY DEF Hal!HalInv, Hal!HalTyped, Hal!ImageTrue
  <2> QED
    BY <1>1, <1>3, <2>1, <2>2, HalFails
<1>4. CASE ~Hal!Fail
  <2>1. /\ s4' = [s4 EXCEPT ![s2.slot] = "held"] /\ s10' = s10
        /\ \/ s2.slot + 1 \in Hal!SlotIds /\ s2' = [s2 EXCEPT !.slot = s2.slot + 1]
           \/ s2' = [s2 EXCEPT !.pc = "reset"]
    BY <1>4 DEF Hal!Allocate
  <2>2. /\ s2' \in Hal!ProgTypes /\ s2'.pc \in {"allocate", "reset"}
        /\ s2'.frame = s2.frame /\ s2'.last = s2.last /\ s2'.next = s2.next
        /\ s2'.status = s2.status
    BY <1>1, <1>2, <2>1 DEF Hal!ProgTypes
  <2>3. /\ s4' \in [Hal!SlotIds -> {"none", "held", "released"}]
        /\ \A s \in Hal!SlotIds : s4'[s] # "released"
    BY <1>1, <1>2, <2>1 DEF Hal!HalInv, Hal!Ending
  <2>4. Hal!HalTyped'
    BY <1>1, <1>2, <2>1, <2>2, <2>3, HalModeStays
    DEF Hal!HalInv, Hal!HalTyped, Hal!ProgTypes
  <2>5. 1 <= N /\ 1 <= Hal!Count /\ N <= Hal!Count
    BY HalArithmetic
  <2>6. Hal!NextRequest'
    BY <1>1, <1>2, <2>2, <2>5, HalModeStays DEF Hal!NextRequest, Hal!Requesting
  <2>7. Hal!FlightHasSlots'
    <3>1. CASE s2'.pc = "reset"
      <4>1. \A f \in Hal!Frames : ~Hal!InFlight(f)'
        BY <1>2, <2>2, <3>1 DEF Hal!InFlight, Hal!Awaiting, Hal!Requesting
      <4> QED
        BY <1>1, <1>2, <4>1, HalModeStays DEF Hal!FlightHasSlots
    <3>2. CASE s2'.pc = "allocate"
      BY <3>2 DEF Hal!FlightHasSlots, Hal!Working, Hal!Awaiting, Hal!Requesting
    <3> QED
      BY <2>2, <3>1, <3>2
  <2>8. Hal!SlotInHand' /\ Hal!FencesClosedOnce' /\ Hal!NoTrouble' /\ Hal!ImageTrue'
    BY <1>1, <2>1, <2>2, HalModeStays
    DEF Hal!HalInv, Hal!SlotInHand, Hal!FencesClosedOnce, Hal!NoTrouble, Hal!ImageTrue
  <2>9. Hal!Ending'
    BY <1>1, <2>2, <2>3, HalModeStays DEF Hal!Ending
  <2>10. Hal!SlotAgrees' /\ Hal!FenceRemembered'
    BY <1>1, HalBuffersStay, HalFencesStay DEF Hal!HalInv
  <2> QED
    BY <2>4, <2>6, <2>7, <2>8, <2>9, <2>10 DEF Hal!HalInv
<1> QED
  BY <1>3, <1>4

\* What is in flight while a request is made, and that its slot is free.
LEMMA HalRequestFree ==
  ASSUME Hal!HalAssumption, Hal!HalInv, Hal!Requesting
  PROVE  /\ s2.next \in 1..(Modulus - 1) /\ s2.next \in Hal!Frames
         /\ ~Hal!InFlight(s2.next)
         /\ Hal!SlotOf(s2.next) \in Hal!SlotIds
         /\ s6[Hal!SlotOf(s2.next)] = 0
         /\ s3[Hal!SlotOf(s2.next)].fence = Hal!NoFence
         /\ \A f \in Hal!Frames : Hal!InFlight(f) => Hal!SlotOf(f) # Hal!SlotOf(s2.next)
<1> DEFINE s == Hal!SlotOf(s2.next)
<1>1. /\ s2.next \in 1..Hal!Count /\ Hal!Count + N < Modulus /\ N \in Nat \ {0}
      /\ Modulus \in Nat /\ Hal!Count \in Nat /\ Hal!Depth \in {1, N}
  BY HalArithmetic DEF Hal!HalInv, Hal!HalTyped, Hal!ProgTypes
<1>2. s2.next \in 1..(Modulus - 1) /\ s2.next \in Hal!Frames /\ s \in Hal!SlotIds
  BY <1>1, HalArithmetic DEF Hal!Frames
<1>3. ~Hal!Awaiting /\ s2.pc # "turn" /\ Hal!Working
  BY DEF Hal!Awaiting, Hal!Requesting, Hal!Working
<1>4. \A f \in Hal!Frames :
        Hal!InFlight(f) <=> /\ f \in 1..(Modulus - 1)
                            /\ s2.next - Hal!Depth < f /\ f < s2.next
  BY <1>3 DEF Hal!InFlight
<1>5. ~Hal!InFlight(s2.next)
  BY <1>1, <1>2, <1>4
<1>6. \A f \in Hal!Frames : Hal!InFlight(f) => Hal!SlotOf(f) # s
  <2>1. ASSUME NEW f \in Hal!Frames, Hal!InFlight(f)
        PROVE  f \in 1..(Modulus - 1) /\ f < s2.next /\ s2.next < f + Hal!Depth
    BY <1>1, <1>4, <2>1
  <2> QED
    BY <1>2, <2>1, HalArithmetic
<1>7. s6[s] = 0 /\ s3[s].fence = Hal!NoFence
  <2>1. s3[s].frame \in Hal!Frames
    BY <1>2 DEF Hal!HalInv, Hal!HalTyped, Hal!SlotTypes
  <2>2. ~Hal!InFlight(s3[s].frame)
    <3>1. CASE s3[s].frame = 0
      BY <1>4, <2>1, <3>1
    <3>2. CASE s3[s].frame # 0
      <4>1. Hal!SlotOf(s3[s].frame) = s
        BY <1>2, <3>2 DEF Hal!HalInv, Hal!SlotAgrees, Hal!OwnSlots, Hal!Requesting
      <4> QED
        BY <1>6, <2>1, <4>1
    <3> QED
      BY <3>1, <3>2
  <2> QED
    BY <1>2, <1>3, <2>2 DEF Hal!HalInv, Hal!FlightHasSlots
<1> QED
  BY <1>2, <1>5, <1>6, <1>7

\* The slot of the next request forgets a frame that is done with.
LEMMA HalResetHolds ==
  ASSUME Hal!HalAssumption, Hal!HalInv, Hal!Reset
  PROVE  Hal!HalInv'
<1> DEFINE s == Hal!SlotOf(s2.next)
<1>1. s2.pc = "reset" /\ Hal!Requesting /\ UNCHANGED <<s1, s4, s5, s6, s7, s8, s9>>
  BY DEF Hal!Reset, Hal!Hal, Hal!Requesting
<1>2. /\ s2.next \in 1..(Modulus - 1) /\ s2.next \in Hal!Frames /\ s \in Hal!SlotIds
      /\ ~Hal!InFlight(s2.next)
      /\ s6[s] = 0 /\ s3[s].fence = Hal!NoFence
      /\ \A f \in Hal!Frames : Hal!InFlight(f) => Hal!SlotOf(f) # s
  BY <1>1, HalRequestFree
<1>3. CASE Hal!Fail
  <2>1. s3' = s3
    BY <1>1, <1>3 DEF Hal!Reset, Hal!Fail, Hal!HalInv, Hal!HalTyped, Hal!ProgTypes
  <2>2. s9 \in [frame : Int, of : Int] /\ (s9.of = s9.frame \/ s1 = "still")
    BY DEF Hal!HalInv, Hal!HalTyped, Hal!ImageTrue
  <2> QED
    BY <1>1, <1>3, <2>1, <2>2, HalFails
<1>4. CASE ~Hal!Fail
  <2>1. /\ s2' = [s2 EXCEPT !.pc = "request"] /\ s10' = s10
        /\ s3' = [s3 EXCEPT ![s] = Hal!Fresh(s2.next)]
    BY <1>4 DEF Hal!Reset
  <2>2. /\ s2' \in Hal!ProgTypes /\ s2'.pc = "request" /\ s2'.frame = s2.frame
        /\ s2'.last = s2.last /\ s2'.next = s2.next /\ s2'.status = s2.status
    BY <2>1 DEF Hal!HalInv, Hal!HalTyped, Hal!ProgTypes
  <2>3. /\ Hal!Fresh(s2.next) \in Hal!SlotTypes
        /\ Hal!Fresh(s2.next).frame = s2.next /\ ~Hal!Fresh(s2.next).received
        /\ ~Hal!Fresh(s2.next).error /\ ~Hal!Fresh(s2.next).bad
        /\ Hal!Fresh(s2.next).fence = Hal!NoFence
    BY <1>2 DEF Hal!Fresh, Hal!SlotTypes
  <2>4. /\ s3' \in [Hal!SlotIds -> Hal!SlotTypes] /\ s3'[s] = Hal!Fresh(s2.next)
        /\ \A t \in Hal!SlotIds : t # s => s3'[t] = s3[t]
    BY <1>2, <2>1, <2>3 DEF Hal!HalInv, Hal!HalTyped
  <2>5. Hal!HalTyped'
    BY <1>1, <2>1, <2>2, <2>4, HalModeStays
    DEF Hal!HalInv, Hal!HalTyped, Hal!ProgTypes
  <2>6. Hal!NextRequest'
    BY <1>1, <2>2, HalModeStays DEF Hal!HalInv, Hal!NextRequest, Hal!Requesting
  <2>7. /\ \A f \in Hal!Frames : Hal!InFlight(f)' <=> Hal!InFlight(f)
        /\ Hal!Working
    BY <1>1, <2>2, HalModeStays
    DEF Hal!InFlight, Hal!Awaiting, Hal!Requesting, Hal!Working
  <2>8. Hal!FlightHasSlots'
    <3>1. ASSUME NEW f \in Hal!Frames, Hal!InFlight(f)'
          PROVE  s3'[Hal!SlotOf(f)].frame = f
      <4>1. Hal!InFlight(f) /\ f \in 1..(Modulus - 1)
        BY <2>7, <3>1 DEF Hal!InFlight
      <4>2. Hal!SlotOf(f) \in Hal!SlotIds /\ Hal!SlotOf(f) # s
        BY <1>2, <4>1, HalArithmetic
      <4> QED
        BY <2>4, <2>7, <4>1, <4>2 DEF Hal!HalInv, Hal!FlightHasSlots
    <3>2. ASSUME NEW t \in Hal!SlotIds, ~Hal!InFlight(s3[t].frame), t # s
          PROVE  s6[t] = 0 /\ s3'[t].fence = Hal!NoFence
      BY <2>4, <2>7, <3>2 DEF Hal!HalInv, Hal!FlightHasSlots
    <3>3. \A t \in Hal!SlotIds : s3[t].frame \in Hal!Frames
      BY DEF Hal!HalInv, Hal!HalTyped, Hal!SlotTypes
    <3>4. \A t \in Hal!SlotIds : ~Hal!InFlight(s3[t].frame)' =>
             s6[t] = 0 /\ s3'[t].fence = Hal!NoFence
      <4>1. ASSUME NEW t \in Hal!SlotIds, t # s
            PROVE  Hal!InFlight(s3[t].frame)' <=> Hal!InFlight(s3[t].frame)
        BY <2>4, <2>7, <3>3, <4>1
      <4> QED
        BY <1>2, <2>3, <2>4, <3>2, <4>1
    <3> QED
      BY <1>1, <3>1, <3>4, HalModeStays DEF Hal!FlightHasSlots
  <2>9. Hal!SlotInHand'
    BY <1>1, <1>2, <2>2, <2>3, <2>4, HalModeStays DEF Hal!SlotInHand
  <2>10. Hal!NoTrouble'
    BY <1>1, <2>1, <2>2, <2>3, <2>4, HalModeStays DEF Hal!HalInv, Hal!NoTrouble
  <2>11. Hal!Ending' /\ Hal!FencesClosedOnce' /\ Hal!ImageTrue'
    BY <1>1, <2>2, HalModeStays
    DEF Hal!HalInv, Hal!Ending, Hal!FencesClosedOnce, Hal!ImageTrue
  <2>12. Hal!SlotAgrees'
    <3>1. \A f \in s5 : /\ f \in Hal!Frames \ {0} /\ Hal!SlotOf(f) \in Hal!SlotIds
                        /\ Hal!SlotOf(f) # s
      BY <1>1, <1>2, HalTaken
    <3>2. /\ \A t \in Hal!SlotIds : s3'[t].frame \in Hal!Frames
          /\ \A t \in Hal!SlotIds : s6[t] \in Hal!Frames
      BY <2>4 DEF Hal!HalInv, Hal!HalTyped, Hal!SlotTypes
    <3> QED
      BY <1>1, <1>2, <2>3, <2>4, <3>1, <3>2, HalModeStays
      DEF Hal!HalInv, Hal!SlotAgrees, Hal!OwnSlots
  <2>13. Hal!FenceRemembered'
    <3>1. \A f \in Hal!Frames \ {Hal!Stdin} :
             /\ s8[f] # "twice"
             /\ s8[f] = "open" => s3'[Hal!SlotOf(f)].fence = f
      <4>1. ASSUME NEW f \in Hal!Frames \ {Hal!Stdin}, s8[f] = "open"
            PROVE  s3'[Hal!SlotOf(f)].fence = f
        <5>1. s3[Hal!SlotOf(f)].fence = f /\ f # Hal!NoFence
          BY <1>1, <4>1 DEF Hal!HalInv, Hal!FenceRemembered, Hal!Frames, Hal!NoFence
        <5>2. Hal!SlotOf(f) \in Hal!SlotIds
          BY <4>1, HalArithmetic DEF Hal!Frames, Hal!Stdin
        <5> QED
          BY <1>2, <2>4, <5>1, <5>2
      <4> QED
        BY <1>1, <4>1 DEF Hal!HalInv, Hal!FenceRemembered
    <3>2. \A t \in Hal!SlotIds : s3'[t].fence \notin {Hal!NoFence, Hal!Stdin} =>
             /\ s3'[t].fence = s3'[t].frame /\ s3'[t].received
             /\ s8[s3'[t].fence] = "open"
      BY <1>1, <1>2, <2>3, <2>4 DEF Hal!HalInv, Hal!FenceRemembered
    <3> QED
      BY <1>1, <3>1, <3>2, HalModeStays DEF Hal!FenceRemembered, Hal!Stdin
  <2> QED
    BY <2>5, <2>6, <2>8, <2>9, <2>10, <2>11, <2>12, <2>13 DEF Hal!HalInv
<1> QED
  BY <1>3, <1>4

\* The request is made: its frame is in flight from now on.
LEMMA HalSubmitted ==
  ASSUME Hal!HalAssumption, Hal!HalInv, s2.pc = "request", s1' = s1,
         s2' = Hal!Submitted
  PROVE  /\ s2' \in Hal!ProgTypes /\ s2'.pc \in {"wait", "reset", "turn"}
         /\ s2'.frame = s2.frame /\ s2'.last = s2.last /\ s2'.status = s2.status
         /\ Hal!NextRequest'
         /\ \A f \in Hal!Frames : Hal!InFlight(f)' <=> Hal!InFlight(f) \/ f = s2.next
<1>1. /\ s2 \in Hal!ProgTypes /\ s2.frame \in 1..Hal!Count /\ s2.next \in 1..Hal!Count
      /\ s2.last \in 1..Hal!Count /\ s2.next <= s2.last
      /\ Hal!Count + N < Modulus /\ N \in Nat \ {0} /\ N <= Hal!Count
      /\ Modulus \in Nat /\ Hal!Count \in Nat
  BY HalArithmetic
  DEF Hal!HalInv, Hal!HalTyped, Hal!ProgTypes, Hal!NextRequest, Hal!Requesting
<1>2. /\ ~Hal!Piped => s2.next = s2.frame /\ Hal!Depth = 1
      /\ Hal!Piped => /\ Hal!Depth = N
                      /\ \/ s2.next = s2.frame + N
                         \/ s2.frame = 1 /\ s2.next <= N
  BY HalArithmetic DEF Hal!HalInv, Hal!NextRequest, Hal!Requesting
<1>3. s2.next \in 1..(Modulus - 1)
  BY <1>1
<1>4. \A f \in Hal!Frames :
        Hal!InFlight(f) <=> /\ f \in 1..(Modulus - 1)
                            /\ s2.next - Hal!Depth < f /\ f < s2.next
  BY DEF Hal!InFlight, Hal!Awaiting, Hal!Requesting
<1>5. Hal!Depth' = Hal!Depth /\ Hal!Piped' = Hal!Piped
  BY HalModeStays
<1>6. CASE ~Hal!Piped \/ (s2.frame = 1 /\ s2.next = N)
  <2>1. s2' = [s2 EXCEPT !.pc = "wait"]
    BY <1>1, <1>6 DEF Hal!Submitted
  <2>2. /\ s2' \in Hal!ProgTypes /\ s2'.pc = "wait" /\ s2'.frame = s2.frame
        /\ s2'.last = s2.last /\ s2'.status = s2.status
    BY <1>1, <2>1 DEF Hal!ProgTypes
  <2>3. Hal!NextRequest'
    BY <2>2 DEF Hal!NextRequest, Hal!Requesting
  <2>4. \A f \in Hal!Frames :
          Hal!InFlight(f)' <=> /\ f \in 1..(Modulus - 1) /\ f <= s2.last
                               /\ s2.frame <= f /\ f < s2.frame + Hal!Depth
    BY <1>5, <2>2 DEF Hal!InFlight, Hal!Awaiting, Hal!Requesting
  <2>5. \A f \in Hal!Frames : Hal!InFlight(f)' <=> Hal!InFlight(f) \/ f = s2.next
    <3>1. CASE ~Hal!Piped
      BY <1>1, <1>2, <1>3, <1>4, <2>4, <3>1
    <3>2. CASE Hal!Piped
      BY <1>1, <1>2, <1>3, <1>4, <1>6, <2>4, <3>2
    <3> QED
      BY <3>1, <3>2
  <2> QED
    BY <2>2, <2>3, <2>5
<1>7. CASE Hal!Piped /\ s2.frame = 1 /\ s2.next < N
  <2>1. s2' = [s2 EXCEPT !.pc = "reset", !.next = s2.next + 1]
    BY <1>1, <1>7 DEF Hal!Submitted
  <2>2. s2.next + 1 \in 1..Hal!Count /\ s2.next + 1 <= N
    BY <1>1, <1>7
  <2>3. /\ s2' \in Hal!ProgTypes /\ s2'.pc = "reset" /\ s2'.frame = s2.frame
        /\ s2'.last = s2.last /\ s2'.status = s2.status /\ s2'.next = s2.next + 1
    BY <1>1, <2>1, <2>2 DEF Hal!ProgTypes
  <2>4. N <= s2.last
    BY <1>1, <1>7 DEF Hal!HalInv, Hal!NextRequest, Hal!Requesting
  <2>5. Hal!NextRequest'
    BY <1>1, <1>5, <1>7, <2>2, <2>3, <2>4 DEF Hal!NextRequest, Hal!Requesting
  <2>6. \A f \in Hal!Frames :
          Hal!InFlight(f)' <=> /\ f \in 1..(Modulus - 1)
                               /\ s2.next + 1 - N < f /\ f < s2.next + 1
    <3>1. s2'.next = s2.next + 1 /\ Hal!Depth' = N
      BY <1>2, <1>5, <1>7, <2>3
    <3> QED
      BY <1>1, <2>3, <3>1 DEF Hal!InFlight, Hal!Awaiting, Hal!Requesting
  <2>7. \A f \in Hal!Frames : Hal!InFlight(f)' <=> Hal!InFlight(f) \/ f = s2.next
    <3>1. Hal!Depth = N
      BY <1>2, <1>7
    <3> QED
      BY <1>1, <1>3, <1>4, <1>7, <2>2, <2>6, <3>1
  <2> QED
    BY <2>3, <2>5, <2>7
<1>8. CASE Hal!Piped /\ ~(s2.frame = 1 /\ s2.next <= N)
  <2>1. s2.next = s2.frame + N
    BY <1>2, <1>8
  <2>2. s2' = [s2 EXCEPT !.pc = "turn"]
    BY <1>1, <1>8 DEF Hal!Submitted
  <2>3. /\ s2' \in Hal!ProgTypes /\ s2'.pc = "turn" /\ s2'.frame = s2.frame
        /\ s2'.last = s2.last /\ s2'.status = s2.status
    BY <1>1, <2>2 DEF Hal!ProgTypes
  <2>4. Hal!NextRequest'
    BY <2>3 DEF Hal!NextRequest, Hal!Requesting
  <2>5. \A f \in Hal!Frames :
          Hal!InFlight(f)' <=> /\ f \in 1..(Modulus - 1) /\ s2.frame < f
                               /\ f <= s2.frame + N /\ f <= s2.last
    BY <1>5, <1>8, <2>3 DEF Hal!InFlight, Hal!Awaiting, Hal!Requesting
  <2>6. \A f \in Hal!Frames : Hal!InFlight(f)' <=> Hal!InFlight(f) \/ f = s2.next
    <3>1. Hal!Depth = N
      BY <1>2, <1>8
    <3> QED
      BY <1>1, <1>3, <1>4, <2>1, <2>5, <3>1
  <2> QED
    BY <2>3, <2>4, <2>6
<1> QED
  BY <1>1, <1>6, <1>7, <1>8

LEMMA HalRequestHolds ==
  ASSUME Hal!HalAssumption, Hal!HalInv, Hal!Request
  PROVE  Hal!HalInv'
<1> DEFINE s == Hal!SlotOf(s2.next)
<1>1. s2.pc = "request" /\ Hal!Requesting /\ UNCHANGED <<s1, s3, s4, s7, s8, s9>>
  BY DEF Hal!Request, Hal!Requesting
<1>2. /\ s2.next \in 1..(Modulus - 1) /\ s2.next \in Hal!Frames /\ s \in Hal!SlotIds
      /\ ~Hal!InFlight(s2.next) /\ s6[s] = 0
      /\ \A f \in Hal!Frames : Hal!InFlight(f) => Hal!SlotOf(f) # s
  BY <1>1, HalRequestFree
<1>3. s3[s].frame = s2.next /\ ~s3[s].received
  BY <1>1 DEF Hal!HalInv, Hal!SlotInHand
<1>4. CASE Hal!Fail
  <2>1. UNCHANGED <<s5, s6>>
    <3>1. Hal!Submitted.pc # "close" /\ s2'.pc = "close"
      BY <1>1, <1>4 DEF Hal!Fail, Hal!Submitted, Hal!HalInv, Hal!HalTyped, Hal!ProgTypes
    <3> QED
      BY <3>1 DEF Hal!Request
  <2>2. s9 \in [frame : Int, of : Int] /\ (s9.of = s9.frame \/ s1 = "still")
    BY DEF Hal!HalInv, Hal!HalTyped, Hal!ImageTrue
  <2> QED
    BY <1>1, <1>4, <2>1, <2>2, HalFails
<1>5. CASE ~Hal!Fail
  <2>1. /\ s5' = s5 \union {s2.next} /\ s6' = [s6 EXCEPT ![s] = s2.next]
        /\ s2' = Hal!Submitted /\ s10' = s10
    BY <1>5 DEF Hal!Request
  <2>2. /\ s2' \in Hal!ProgTypes /\ s2'.pc \in {"wait", "reset", "turn"}
        /\ s2'.frame = s2.frame /\ s2'.last = s2.last /\ s2'.status = s2.status
        /\ Hal!NextRequest'
        /\ \A f \in Hal!Frames : Hal!InFlight(f)' <=> Hal!InFlight(f) \/ f = s2.next
    BY <1>1, <2>1, HalSubmitted
  <2>3. /\ s6' \in [Hal!SlotIds -> Hal!Frames] /\ s6'[s] = s2.next
        /\ \A t \in Hal!SlotIds : t # s => s6'[t] = s6[t]
    BY <1>2, <2>1 DEF Hal!HalInv, Hal!HalTyped
  <2>4. Hal!HalTyped'
    BY <1>1, <1>2, <2>1, <2>2, <2>3, HalModeStays
    DEF Hal!HalInv, Hal!HalTyped, Hal!ProgTypes
  <2>5. /\ \A t \in Hal!SlotIds : s3[t].frame \in Hal!Frames
        /\ \A f \in Hal!Frames : Hal!InFlight(f) => s3[Hal!SlotOf(f)].frame = f
        /\ \A t \in Hal!SlotIds : ~Hal!InFlight(s3[t].frame) =>
              s6[t] = 0 /\ s3[t].fence = Hal!NoFence
    BY <1>1 DEF Hal!HalInv, Hal!HalTyped, Hal!SlotTypes, Hal!FlightHasSlots, Hal!Working
  <2>6. Hal!FlightHasSlots'
    <3>1. ASSUME NEW t \in Hal!SlotIds, ~Hal!InFlight(s3[t].frame)'
          PROVE  s6'[t] = 0 /\ s3[t].fence = Hal!NoFence
      <4>1. ~Hal!InFlight(s3[t].frame) /\ s3[t].frame # s2.next
        BY <1>1, <2>2, <2>5, <3>1
      <4> QED
        BY <1>3, <2>3, <2>5, <4>1
    <3>2. \A f \in Hal!Frames : Hal!InFlight(f)' => s3[Hal!SlotOf(f)].frame = f
      BY <1>3, <2>2, <2>5
    <3> QED
      BY <1>1, <3>1, <3>2, HalModeStays DEF Hal!FlightHasSlots
  <2>7. Hal!SlotInHand' /\ Hal!NoTrouble' /\ Hal!FencesClosedOnce' /\ Hal!ImageTrue'
    BY <1>1, <2>1, <2>2, HalModeStays
    DEF Hal!HalInv, Hal!SlotInHand, Hal!NoTrouble, Hal!FencesClosedOnce, Hal!ImageTrue
  <2>8. Hal!Ending'
    BY <1>1, <2>2, HalModeStays DEF Hal!HalInv, Hal!Ending
  <2>9. Hal!SlotAgrees'
    <3>1. \A f \in s5 : /\ f \in Hal!Frames \ {0} /\ Hal!SlotOf(f) \in Hal!SlotIds
                        /\ Hal!SlotOf(f) # s
      BY <1>1, <1>2, HalTaken
    <3>2. \A f \in s5' : f \in Hal!Frames /\ Hal!SlotOf(f) \in Hal!SlotIds
      BY <1>2, <2>1, <3>1
    <3> QED
      BY <1>1, <1>2, <1>3, <2>1, <2>3, <2>5, <3>1, <3>2, HalModeStays
      DEF Hal!HalInv, Hal!SlotAgrees, Hal!OwnSlots
  <2>10. Hal!FenceRemembered'
    BY <1>1, HalFencesStay DEF Hal!HalInv
  <2> QED
    BY <2>2, <2>4, <2>6, <2>7, <2>8, <2>9, <2>10 DEF Hal!HalInv
<1> QED
  BY <1>4, <1>5

\* The frame's fence is signalled and closed.
LEMMA HalFenceHolds ==
  ASSUME Hal!HalAssumption, Hal!HalInv, Hal!Fence
  PROVE  Hal!HalInv'
<1> DEFINE s == Hal!SlotOf(s2.frame)
<1>1. /\ s2.pc = "fence" /\ Hal!Awaiting /\ Hal!Working
      /\ UNCHANGED <<s1, s4, s5, s6, s7, s9>>
  BY DEF Hal!Fence, Hal!Awaiting, Hal!Working, Hal!Hal
<1>2. /\ s2.frame \in Hal!Frames \ {0} /\ s \in Hal!SlotIds /\ s3[s].frame = s2.frame
      /\ Hal!InFlight(s2.frame)
  BY <1>1, HalFrameInFlight
<1>3. /\ s3[s] \in Hal!SlotTypes /\ s3[s].received
      /\ s6[s] \in {0, s2.frame}
      /\ s3[s].fence \in {Hal!NoFence, Hal!Stdin, s2.frame}
      /\ s3[s].fence = Hal!NoFence => s6[s] = 0
      /\ s3[s].fence \notin {Hal!NoFence, Hal!Stdin} => s8[s2.frame] = "open"
  BY <1>1, <1>2
  DEF Hal!HalInv, Hal!HalTyped, Hal!SlotAgrees, Hal!OwnSlots, Hal!FenceRemembered,
           Hal!SlotInHand
<1>4. CASE Hal!Fail
  <2>1. UNCHANGED <<s3, s8>>
    BY <1>1, <1>4 DEF Hal!Fence, Hal!Fail, Hal!HalInv, Hal!HalTyped, Hal!ProgTypes
  <2>2. s9 \in [frame : Int, of : Int] /\ (s9.of = s9.frame \/ s1 = "still")
    BY DEF Hal!HalInv, Hal!HalTyped, Hal!ImageTrue
  <2> QED
    BY <1>1, <1>4, <2>1, <2>2, HalFails
<1>5. CASE ~Hal!Fail
  <2>1. /\ s3[s].fence # Hal!NoFence => s6[s] # s2.frame
        /\ s8' = Hal!Close(s8, s3[s].fence) /\ s3' = [s3 EXCEPT ![s].fence = Hal!NoFence]
        /\ s2' = [s2 EXCEPT !.pc = "image"] /\ s10' = s10
    BY <1>5 DEF Hal!Fence
  <2>2. /\ s2' \in Hal!ProgTypes /\ s2'.pc = "image" /\ s2'.frame = s2.frame
        /\ s2'.last = s2.last /\ s2'.status = s2.status
    BY <2>1 DEF Hal!HalInv, Hal!HalTyped, Hal!ProgTypes
  <2>3. /\ s3' \in [Hal!SlotIds -> Hal!SlotTypes]
        /\ s3'[s].fence = Hal!NoFence
        /\ \A t \in Hal!SlotIds :
             /\ s3'[t].frame = s3[t].frame /\ s3'[t].received = s3[t].received
             /\ s3'[t].error = s3[t].error /\ s3'[t].bad = s3[t].bad
             /\ t # s => s3'[t].fence = s3[t].fence
    BY <1>2, <2>1 DEF Hal!HalInv, Hal!HalTyped, Hal!SlotTypes
  <2>4. s6[s] = 0
    BY <1>3, <2>1
  <2>5. /\ s8' \in [Hal!Frames -> {"none", "open", "closed", "twice"}]
        /\ \A f \in Hal!Frames \ {s3[s].fence} : s8'[f] = s8[f]
        /\ s3[s].fence \in Hal!Frames \ {Hal!Stdin} => s8'[s2.frame] = "closed"
    <3>1. s8 \in [Hal!Frames -> {"none", "open", "closed", "twice"}]
      BY DEF Hal!HalInv, Hal!HalTyped
    <3>2. CASE s3[s].fence = Hal!NoFence
      BY <2>1, <3>1, <3>2 DEF Hal!Close, Hal!Frames, Hal!NoFence
    <3>3. CASE s3[s].fence = Hal!Stdin
      <4>1. s3[s].fence # Hal!NoFence
        BY <3>3 DEF Hal!Stdin, Hal!NoFence
      <4> QED
        BY <2>1, <3>1, <3>3, <4>1 DEF Hal!Close
    <3>4. CASE s3[s].fence \notin {Hal!NoFence, Hal!Stdin}
      <4>1. s3[s].fence = s2.frame /\ s8[s2.frame] = "open"
        BY <1>3, <3>4
      <4> QED
        BY <1>2, <2>1, <3>1, <3>4, <4>1 DEF Hal!Close
    <3> QED
      BY <3>2, <3>3, <3>4
  <2>6. Hal!HalTyped'
    BY <1>1, <2>1, <2>2, <2>3, <2>5, HalModeStays
    DEF Hal!HalInv, Hal!HalTyped, Hal!ProgTypes
  <2>7. Hal!NextRequest'
    BY <2>2 DEF Hal!NextRequest, Hal!Requesting
  <2>8. Hal!FlightHasSlots'
    <3>1. \A f \in Hal!Frames : Hal!InFlight(f)' <=> Hal!InFlight(f)
      BY <1>1, <2>2, HalModeStays DEF Hal!InFlight, Hal!Awaiting, Hal!Requesting
    <3>2. \A t \in Hal!SlotIds : Hal!InFlight(s3[t].frame)' <=> Hal!InFlight(s3[t].frame)
      BY <2>3, <3>1 DEF Hal!HalInv, Hal!HalTyped, Hal!SlotTypes
    <3>3. /\ \A f \in Hal!Frames : Hal!InFlight(f) =>
                Hal!SlotOf(f) \in Hal!SlotIds /\ s3[Hal!SlotOf(f)].frame = f
          /\ \A t \in Hal!SlotIds : ~Hal!InFlight(s3[t].frame) =>
                s6[t] = 0 /\ s3[t].fence = Hal!NoFence
      BY <1>1, HalArithmetic DEF Hal!HalInv, Hal!FlightHasSlots, Hal!InFlight
    <3> QED
      BY <1>1, <2>3, <3>1, <3>2, <3>3, HalModeStays DEF Hal!FlightHasSlots
  <2>9. Hal!SlotInHand'
    BY <1>1, <1>2, <1>3, <2>2, <2>3, HalModeStays DEF Hal!SlotInHand
  <2>10. Hal!NoTrouble' /\ Hal!FencesClosedOnce' /\ Hal!ImageTrue'
    BY <1>1, <2>1, <2>2, <2>3, HalModeStays
    DEF Hal!HalInv, Hal!NoTrouble, Hal!FencesClosedOnce, Hal!ImageTrue
  <2>11. Hal!Ending'
    BY <1>1, <2>2, HalModeStays DEF Hal!HalInv, Hal!Ending
  <2>12. Hal!SlotAgrees'
    <3>1. \A f \in s5 : f \in Hal!Frames \ {0} /\ Hal!SlotOf(f) \in Hal!SlotIds
      BY <1>1, HalTaken
    <3>2. \A t \in Hal!SlotIds : s3[t].frame \in Hal!Frames
      BY DEF Hal!HalInv, Hal!HalTyped, Hal!SlotTypes
    <3> QED
      BY <1>1, <2>3, <2>4, <3>1, <3>2, HalModeStays DEF Hal!HalInv, Hal!SlotAgrees,
               Hal!OwnSlots
  <2>13. Hal!FenceRemembered'
    <3>1. ASSUME NEW t \in Hal!SlotIds, s3'[t].fence \notin {Hal!NoFence, Hal!Stdin}
          PROVE  /\ s3'[t].fence = s3'[t].frame /\ s3'[t].received
                 /\ s8'[s3'[t].fence] = "open"
      <4>1. t # s /\ s3'[t].fence = s3[t].fence
        BY <2>3, <3>1
      <4>2. /\ s3[t].fence = s3[t].frame /\ s3[t].received
            /\ s8[s3[t].fence] = "open" /\ s3[t].fence \in Hal!Frames
        BY <1>1, <3>1, <4>1
        DEF Hal!HalInv, Hal!FenceRemembered, Hal!HalTyped, Hal!SlotTypes
      <4>3. s3[t].fence # s3[s].fence
        <5>1. s3[t].frame = 0 \/ Hal!SlotOf(s3[t].frame) = t
          BY <1>1 DEF Hal!HalInv, Hal!SlotAgrees, Hal!OwnSlots
        <5>2. s3[t].fence # 0
          BY <3>1, <4>1 DEF Hal!Stdin
        <5> QED
          BY <1>2, <1>3, <3>1, <4>1, <4>2, <5>1, <5>2
      <4> QED
        BY <2>3, <2>5, <4>1, <4>2, <4>3
    <3>2. ASSUME NEW f \in Hal!Frames \ {Hal!Stdin}
          PROVE  s8'[f] # "twice" /\ (s8'[f] = "open" => s3'[Hal!SlotOf(f)].fence = f)
      <4>1. /\ s8[f] # "twice" /\ (s8[f] = "open" => s3[Hal!SlotOf(f)].fence = f)
            /\ Hal!SlotOf(f) \in Hal!SlotIds
        BY <1>1, HalArithmetic DEF Hal!HalInv, Hal!FenceRemembered, Hal!Frames, Hal!Stdin
      <4>2. CASE f = s3[s].fence
        BY <1>3, <2>5, <3>2, <4>2 DEF Hal!Frames, Hal!NoFence
      <4>3. CASE f # s3[s].fence
        BY <2>3, <2>5, <4>1, <4>3
      <4> QED
        BY <4>2, <4>3
    <3> QED
      BY <1>1, <3>1, <3>2, HalModeStays DEF Hal!FenceRemembered, Hal!Stdin
  <2> QED
    BY <2>6, <2>7, <2>8, <2>9, <2>10, <2>11, <2>12, <2>13 DEF Hal!HalInv
<1> QED
  BY <1>4, <1>5

\* The device is closed, or the program ends there.
LEMMA HalCloseHolds ==
  ASSUME Hal!HalAssumption, Hal!HalInv, Hal!CloseDevice
  PROVE  Hal!HalInv'
<1>1. s2.pc = "close" /\ UNCHANGED <<s1, s3, s4, s7, s8, s9>>
  BY DEF Hal!CloseDevice
<1>2. /\ s2' \in Hal!ProgTypes /\ s2'.frame = s2.frame /\ s2'.last = s2.last
      /\ \/ /\ s2'.pc = "release" /\ s2'.status = s2.status /\ s10' = s10
            /\ s5' = {} /\ s6' = [s \in Hal!SlotIds |-> 0]
         \/ /\ s2'.pc = "aborted" /\ s2'.status = "failed" /\ s10' = TRUE
            /\ UNCHANGED <<s5, s6>>
  BY DEF Hal!HalInv, Hal!HalTyped, Hal!ProgTypes, Hal!CloseDevice
<1>3. 0 \in Hal!Frames
  BY HalArithmetic DEF Hal!Frames
<1>4. Hal!HalTyped'
  <2>1. /\ s5' \subseteq Hal!Frames
        /\ s6' \in [Hal!SlotIds -> Hal!Frames]
        /\ s10' \in BOOLEAN
    BY <1>2, <1>3 DEF Hal!HalInv, Hal!HalTyped
  <2> QED
    BY <1>1, <1>2, <2>1, HalModeStays DEF Hal!HalInv, Hal!HalTyped, Hal!ProgTypes
<1>5. Hal!NextRequest' /\ Hal!FlightHasSlots' /\ Hal!SlotInHand'
  BY <1>2 DEF Hal!NextRequest, Hal!FlightHasSlots, Hal!SlotInHand, Hal!Requesting,
              Hal!Working, Hal!Awaiting
<1>6. Hal!NoTrouble' /\ Hal!FencesClosedOnce' /\ Hal!ImageTrue'
  BY <1>1, <1>2, HalModeStays
  DEF Hal!HalInv, Hal!NoTrouble, Hal!FencesClosedOnce, Hal!ImageTrue
<1>7. Hal!Ending'
  <2>1. Hal!OwnSlots
    BY <1>1 DEF Hal!HalInv, Hal!SlotAgrees
  <2>2. Hal!OwnSlots'
    BY <1>1, <2>1, HalModeStays DEF Hal!OwnSlots, Hal!SlotOf, Hal!Piped
  <2> QED
    BY <1>1, <1>2, <2>2, HalModeStays DEF Hal!HalInv, Hal!Ending
<1>8. Hal!FenceRemembered'
  BY <1>1, HalFencesStay DEF Hal!HalInv
<1> QED
  BY <1>2, <1>4, <1>5, <1>6, <1>7, <1>8 DEF Hal!HalInv

\* What is left is given back: each fence once, since one slot remembers it.
LEMMA HalReleaseHolds ==
  ASSUME Hal!HalAssumption, Hal!HalInv, Hal!Release
  PROVE  Hal!HalInv'
<1>1. s2.pc = "release" /\ UNCHANGED <<s1, s3, s5, s6, s7, s9>>
  BY DEF Hal!Release, Hal!Hal
<1>2. /\ s2' \in Hal!ProgTypes /\ s2'.frame = s2.frame /\ s2'.last = s2.last
      /\ s2'.pc = "exited"
      /\ \/ s2'.status = s2.status /\ s10' = s10
         \/ s2'.status = "failed" /\ s10' = TRUE
  BY DEF Hal!HalInv, Hal!HalTyped, Hal!ProgTypes, Hal!Release
<1>3. /\ s4' \in [Hal!SlotIds -> {"none", "held", "released"}]
      /\ \A s \in Hal!SlotIds : s4'[s] # "held"
  BY DEF Hal!HalInv, Hal!HalTyped, Hal!Release
<1>4. /\ s8' \in [Hal!Frames -> {"none", "open", "closed", "twice"}]
      /\ \A f \in Hal!Frames \ {Hal!Stdin} : s8'[f] \in {"none", "closed"}
  <2> DEFINE keeps(f) == {s \in Hal!SlotIds : s3[s].fence = f}
  <2>1. s8' = [f \in Hal!Frames |->
                 IF keeps(f) = {} THEN s8[f]
                 ELSE IF s8[f] = "open" /\ \E s \in keeps(f) : keeps(f) = {s}
                 THEN "closed" ELSE "twice"]
    BY DEF Hal!Release, Hal!CloseAll
  <2>2. s8 \in [Hal!Frames -> {"none", "open", "closed", "twice"}]
    BY DEF Hal!HalInv, Hal!HalTyped
  <2>3. ASSUME NEW f \in Hal!Frames \ {Hal!Stdin}
        PROVE  \/ keeps(f) = {} /\ s8[f] \in {"none", "closed"}
               \/ s8[f] = "open" /\ \E s \in keeps(f) : keeps(f) = {s}
    <3>1. /\ s8[f] # "twice" /\ (s8[f] = "open" => s3[Hal!SlotOf(f)].fence = f)
          /\ Hal!SlotOf(f) \in Hal!SlotIds /\ f # Hal!NoFence
      BY <1>1, HalArithmetic
      DEF Hal!HalInv, Hal!FenceRemembered, Hal!Frames, Hal!Stdin, Hal!NoFence
    <3>2. \A s \in keeps(f) : s = Hal!SlotOf(f) /\ s8[f] = "open"
      <4>1. \A s \in keeps(f) : s3[s].frame = f /\ s8[f] = "open"
        BY <1>1, <3>1 DEF Hal!HalInv, Hal!FenceRemembered
      <4>2. \A s \in Hal!SlotIds : s3[s].frame = 0 \/ Hal!SlotOf(s3[s].frame) = s
        BY <1>1 DEF Hal!HalInv, Hal!Ending, Hal!OwnSlots
      <4> QED
        BY <4>1, <4>2 DEF Hal!Stdin
    <3>3. CASE s8[f] = "open"
      <4>1. keeps(f) = {Hal!SlotOf(f)}
        BY <3>1, <3>2, <3>3
      <4> QED
        BY <3>3, <4>1
    <3>4. CASE s8[f] # "open"
      <4>1. keeps(f) = {}
        BY <3>2, <3>4
      <4> QED
        BY <2>2, <3>1, <3>4, <4>1
    <3> QED
      BY <3>3, <3>4
  <2> HIDE DEF keeps
  <2> QED
    BY <2>1, <2>2, <2>3
<1>5. Hal!HalTyped'
  BY <1>1, <1>2, <1>3, <1>4, HalModeStays DEF Hal!HalInv, Hal!HalTyped, Hal!ProgTypes
<1>6. Hal!NextRequest' /\ Hal!FlightHasSlots' /\ Hal!SlotInHand'
  BY <1>2 DEF Hal!NextRequest, Hal!FlightHasSlots, Hal!SlotInHand, Hal!Requesting,
              Hal!Working, Hal!Awaiting
<1>7. Hal!NoTrouble' /\ Hal!ImageTrue'
  BY <1>1, <1>2, HalModeStays DEF Hal!HalInv, Hal!NoTrouble, Hal!ImageTrue
<1>8. Hal!Ending' /\ Hal!FencesClosedOnce'
  BY <1>1, <1>2, <1>3, <1>4, HalModeStays
  DEF Hal!HalInv, Hal!Ending, Hal!FencesClosedOnce, Hal!Stdin
<1> QED
  BY <1>2, <1>5, <1>6, <1>7, <1>8 DEF Hal!HalInv

\* What the HAL's threads leave alone: the main thread, and whose slot is whose.
LEMMA HalAnswers ==
  ASSUME Hal!HalAssumption, Hal!HalInv, Hal!Open, UNCHANGED <<s1, s2, s4, s9>>,
         s3' \in [Hal!SlotIds -> Hal!SlotTypes], s5' \subseteq s5,
         s6' \in [Hal!SlotIds -> Hal!Frames], s7' \in [Hal!SlotIds -> Hal!Frames],
         s8' \in [Hal!Frames -> {"none", "open", "closed", "twice"}], s10' \in BOOLEAN,
         \A t \in Hal!SlotIds :
            /\ s3'[t].frame = s3[t].frame /\ s6'[t] \in {s6[t], 0}
            /\ s3'[t].fence = s3[t].fence \/ s6[t] # 0
  PROVE  /\ Hal!HalTyped' /\ Hal!NextRequest' /\ Hal!FlightHasSlots' /\ Hal!Ending'
         /\ Hal!ImageTrue' /\ Hal!FencesClosedOnce'
<1>1. s2.pc \notin {"begin", "release", "exited", "aborted"}
  BY DEF Hal!Open
<1>2. Hal!HalTyped'
  BY HalModeStays DEF Hal!HalInv, Hal!HalTyped, Hal!ProgTypes
<1>3. Hal!NextRequest'
  <2>1. \A s \in Hal!SlotIds : s3[s].frame = 0 => s6[s] = 0
    BY <1>1 DEF Hal!HalInv, Hal!SlotAgrees
  <2>2. s2.pc = "allocate" =>
          \A s \in Hal!SlotIds : s3'[s].frame = 0 /\ s3'[s].fence = Hal!NoFence
    <3> SUFFICES ASSUME s2.pc = "allocate", NEW s \in Hal!SlotIds
                 PROVE  s3'[s].frame = 0 /\ s3'[s].fence = Hal!NoFence
      OBVIOUS
    <3>1. s3[s].frame = 0 /\ s3[s].fence = Hal!NoFence
      BY DEF Hal!HalInv, Hal!NextRequest
    <3> QED
      BY <2>1, <3>1
  <2>3. Hal!NextRequest
    BY DEF Hal!HalInv
  <2> QED
    BY <1>1, <2>2, <2>3, HalModeStays DEF Hal!NextRequest, Hal!Requesting
<1>4. Hal!FlightHasSlots'
  <2>1. \A f \in Hal!Frames : Hal!InFlight(f)' <=> Hal!InFlight(f)
    BY HalModeStays DEF Hal!InFlight, Hal!Awaiting, Hal!Requesting
  <2>2. \A t \in Hal!SlotIds :
          s3[t].frame \in Hal!Frames
          /\ (Hal!InFlight(s3[t].frame)' <=> Hal!InFlight(s3'[t].frame))
    BY <2>1 DEF Hal!HalInv, Hal!HalTyped, Hal!SlotTypes
  <2>3. Hal!Working' <=> Hal!Working
    BY DEF Hal!Working, Hal!Awaiting, Hal!Requesting
  <2>4. Hal!Working =>
          /\ \A f \in Hal!Frames : Hal!InFlight(f) =>
                Hal!SlotOf(f) \in Hal!SlotIds /\ s3[Hal!SlotOf(f)].frame = f
          /\ \A t \in Hal!SlotIds : ~Hal!InFlight(s3[t].frame) =>
                s6[t] = 0 /\ s3[t].fence = Hal!NoFence
    BY HalArithmetic DEF Hal!HalInv, Hal!FlightHasSlots, Hal!InFlight
  <2> QED
    BY <2>1, <2>2, <2>3, <2>4, HalModeStays DEF Hal!FlightHasSlots
<1>5. Hal!Ending'
  BY <1>1, HalModeStays DEF Hal!HalInv, Hal!Ending
<1>6. Hal!ImageTrue' /\ Hal!FencesClosedOnce'
  BY <1>1 DEF Hal!HalInv, Hal!ImageTrue, Hal!FencesClosedOnce
<1> QED
  BY <1>2, <1>3, <1>4, <1>5, <1>6

\* A slot that is told of an error.
LEMMA SlotMarked ==
  ASSUME NEW x \in Hal!SlotTypes, NEW y, y = [x EXCEPT !.error = TRUE]
  PROVE  /\ y \in Hal!SlotTypes /\ y.frame = x.frame /\ y.received = x.received
         /\ y.fence = x.fence
  BY DEF Hal!SlotTypes

LEMMA HalResultHolds ==
  ASSUME Hal!HalAssumption, Hal!HalInv, NEW f \in Hal!Frames, Hal!Result(f)
  PROVE  Hal!HalInv'
<1> DEFINE s == Hal!SlotOf(f)
<1>1. /\ s2.pc \notin {"begin", "release", "exited", "aborted"} /\ f \in s5
      /\ s5' = s5 \ {f} /\ UNCHANGED <<s1, s2, s4, s9>>
  BY DEF Hal!Result, Hal!Open
<1>2. /\ f \in 1..(Modulus - 1) /\ f \in Hal!Frames /\ f # 0 /\ s \in Hal!SlotIds
      /\ s3[s].frame = f /\ ~s3[s].received /\ s6[s] = f
  BY <1>1, HalTaken
<1>3. PICK outcome \in {"good", "bad", "wrong"}, fenced \in BOOLEAN :
        /\ s3' = Hal!Deliver(f, outcome, IF fenced THEN f ELSE Hal!NoFence)
        /\ s8' = IF fenced THEN [s8 EXCEPT ![f] = "open"] ELSE s8
        /\ IF fenced THEN UNCHANGED <<s6, s7>>
           ELSE s6' = [s6 EXCEPT ![s] = 0] /\ s7' = [s7 EXCEPT ![s] = f]
        /\ s10' = (s10 \/ outcome # "good")
  BY DEF Hal!Result
<1> DEFINE fence == IF fenced THEN f ELSE Hal!NoFence
<1>4. /\ s3 \in [Hal!SlotIds -> Hal!SlotTypes]
      /\ s6 \in [Hal!SlotIds -> Hal!Frames] /\ s7 \in [Hal!SlotIds -> Hal!Frames]
      /\ s8 \in [Hal!Frames -> {"none", "open", "closed", "twice"}] /\ s10 \in BOOLEAN
  BY DEF Hal!HalInv, Hal!HalTyped
<1>5. 0 \in Hal!Frames /\ fence \in Hal!Frames \union {Hal!NoFence}
  BY <1>2, HalArithmetic DEF Hal!Frames
<1>6. \A t \in Hal!SlotIds \ {s} : s3[t].frame # f
  BY <1>1, <1>2 DEF Hal!HalInv, Hal!SlotAgrees, Hal!OwnSlots
<1>7. /\ s3' \in [Hal!SlotIds -> Hal!SlotTypes]
      /\ \A t \in Hal!SlotIds \ {s} : s3'[t] = s3[t]
      /\ s3'[s].frame = f /\ s3'[s].received /\ s3'[s].fence = fence
      /\ s3'[s].bad = (outcome = "bad")
      /\ s3'[s].error = (s3[s].error \/ outcome = "wrong")
  <2>1. s3' = [t \in Hal!SlotIds |->
                 IF s3[t].frame # f \/ s3[t].received THEN s3[t]
                 ELSE [s3[t] EXCEPT !.received = TRUE, !.bad = (outcome = "bad"),
                          !.error = s3[t].error \/ outcome = "wrong", !.fence = fence]]
    BY <1>3 DEF Hal!Deliver
  <2>2. s3' = [t \in Hal!SlotIds |->
                 IF t # s THEN s3[t]
                 ELSE [s3[t] EXCEPT !.received = TRUE, !.bad = (outcome = "bad"),
                          !.error = s3[t].error \/ outcome = "wrong", !.fence = fence]]
    BY <1>2, <1>6, <2>1
  <2>3. PICK bad \in BOOLEAN : bad = (outcome = "bad")
    OBVIOUS
  <2>4. PICK wrong \in BOOLEAN : wrong = (s3[s].error \/ outcome = "wrong")
    OBVIOUS
  <2> DEFINE answered == [s3[s] EXCEPT !.received = TRUE, !.bad = bad, !.error = wrong,
                            !.fence = fence]
  <2>5. /\ answered \in Hal!SlotTypes /\ answered.frame = s3[s].frame
        /\ answered.received /\ answered.fence = fence /\ answered.bad = bad
        /\ answered.error = wrong
    <3>1. s3[s] \in Hal!SlotTypes
      BY <1>2, <1>4
    <3> DEFINE old == s3[s]
    <3>2. answered = [old EXCEPT !.received = TRUE, !.bad = bad, !.error = wrong,
                        !.fence = fence]
      OBVIOUS
    <3>3. old \in Hal!SlotTypes /\ old = s3[s]
      BY <3>1
    <3> HIDE DEF s, fence, answered, old
    <3> QED
      BY ONLY <1>5, <3>2, <3>3, bad \in BOOLEAN, wrong \in BOOLEAN DEF Hal!SlotTypes
  <2>6. s3' = [t \in Hal!SlotIds |-> IF t # s THEN s3[t] ELSE answered]
    BY <2>2, <2>3, <2>4
  <2> HIDE DEF s, fence, answered
  <2>7. s3[s].frame = f
    BY <1>2
  <2> QED
    BY <1>2, <1>4, <2>3, <2>4, <2>5, <2>6, <2>7
<1>8. /\ s6' \in [Hal!SlotIds -> Hal!Frames] /\ s7' \in [Hal!SlotIds -> Hal!Frames]
      /\ s8' \in [Hal!Frames -> {"none", "open", "closed", "twice"}] /\ s10' \in BOOLEAN
      /\ \A t \in Hal!SlotIds \ {s} : s6'[t] = s6[t] /\ s7'[t] = s7[t]
      /\ s6'[s] \in {f, 0} /\ (s6'[s] = 0 => s7'[s] = f)
      /\ fence = Hal!NoFence => s6'[s] = 0
  <2>1. f # Hal!NoFence
    BY <1>2 DEF Hal!NoFence
  <2>2. CASE fenced
    BY <1>2, <1>3, <1>4, <2>1, <2>2
  <2>3. CASE ~fenced
    BY <1>2, <1>3, <1>4, <1>5, <2>3
  <2> QED
    BY <2>2, <2>3
<1>9. /\ fence \in {f, Hal!NoFence}
      /\ fence = f => s8' = [s8 EXCEPT ![f] = "open"]
      /\ fence = Hal!NoFence => s8' = s8
  <2>1. f # Hal!NoFence
    BY <1>2 DEF Hal!NoFence
  <2> QED
    BY <1>3, <2>1
<1> HIDE DEF s, fence
<1>10. /\ Hal!HalTyped' /\ Hal!NextRequest' /\ Hal!FlightHasSlots' /\ Hal!Ending'
       /\ Hal!ImageTrue' /\ Hal!FencesClosedOnce'
  <2>1. \A t \in Hal!SlotIds :
            /\ s3'[t].frame = s3[t].frame /\ s6'[t] \in {s6[t], 0}
            /\ s3'[t].fence = s3[t].fence \/ s6[t] # 0
    BY <1>2, <1>7, <1>8
  <2> QED
    BY <1>1, <1>7, <1>8, <2>1, HalAnswers DEF Hal!Open
<1>11. Hal!SlotInHand'
  <2>1. CASE s2.pc = "request"
    <3>1. /\ s2.next \in Hal!Frames /\ Hal!SlotOf(s2.next) \in Hal!SlotIds
          /\ s6[Hal!SlotOf(s2.next)] = 0
          /\ s3[Hal!SlotOf(s2.next)].frame = s2.next
          /\ ~s3[Hal!SlotOf(s2.next)].received
      BY <2>1, HalRequestFree DEF Hal!Requesting, Hal!HalInv, Hal!SlotInHand
    <3>2. Hal!SlotOf(s2.next) # s
      BY <1>2, <3>1
    <3> QED
      BY <1>1, <1>7, <2>1, <3>1, <3>2, HalModeStays DEF Hal!SlotInHand
  <2>2. CASE s2.pc \in {"fence", "image", "advance"}
    <3>1. /\ s2.frame \in Hal!Frames /\ Hal!SlotOf(s2.frame) \in Hal!SlotIds
          /\ s3[Hal!SlotOf(s2.frame)].received
          /\ s2.pc \in {"image", "advance"} =>
               s3[Hal!SlotOf(s2.frame)].fence = Hal!NoFence
      BY <2>2, HalFrameInFlight DEF Hal!Awaiting, Hal!HalInv, Hal!SlotInHand
    <3>2. Hal!SlotOf(s2.frame) # s
      BY <1>2, <3>1
    <3> QED
      BY <1>1, <1>7, <2>2, <3>1, <3>2, HalModeStays DEF Hal!SlotInHand
  <2>3. CASE s2.pc \notin {"request", "fence", "image", "advance"}
    BY <1>1, <2>3 DEF Hal!SlotInHand
  <2> QED
    BY <2>1, <2>2, <2>3
<1>12. Hal!NoTrouble'
  BY <1>1, <1>2, <1>3, <1>4, <1>7, HalModeStays DEF Hal!HalInv, Hal!NoTrouble
<1>13. Hal!SlotAgrees'
  <2>1. Hal!OwnSlots'
    <3>1. \A t \in Hal!SlotIds : s3[t].frame \in Hal!Frames
      BY <1>4 DEF Hal!SlotTypes
    <3> QED
      BY <1>1, <1>2, <1>7, <3>1
      DEF Hal!HalInv, Hal!SlotAgrees, Hal!OwnSlots, Hal!SlotIds, Hal!SlotOf, Hal!Piped
  <2>2. \A g \in s5' : /\ g # 0 /\ g \in Hal!Frames /\ Hal!SlotOf(g) \in Hal!SlotIds \ {s}
                       /\ s3[Hal!SlotOf(g)].frame = g
                       /\ ~s3[Hal!SlotOf(g)].received /\ s6[Hal!SlotOf(g)] = g
    BY <1>1, <1>2, HalTaken
  <2>3. \A t \in Hal!SlotIds :
          /\ s6[t] \in {0, s3[t].frame}
          /\ s3[t].received =>
               /\ s6[t] = 0 => s7[t] = s3[t].frame
               /\ s3[t].fence = Hal!NoFence => s6[t] = 0
    BY <1>1 DEF Hal!HalInv, Hal!SlotAgrees
  <2>4. \A t \in Hal!SlotIds :
          /\ s6'[t] \in {0, s3'[t].frame}
          /\ s3'[t].received =>
               /\ s6'[t] = 0 => s7'[t] = s3'[t].frame
               /\ s3'[t].fence = Hal!NoFence => s6'[t] = 0
    BY <1>2, <1>7, <1>8, <2>3
  <2>5. \A g \in s5' : /\ g # 0 /\ s3'[Hal!SlotOf(g)].frame = g
                       /\ ~s3'[Hal!SlotOf(g)].received /\ s6'[Hal!SlotOf(g)] = g
    BY <1>7, <1>8, <2>2
  <2> QED
    BY <1>1, <2>1, <2>2, <2>4, <2>5, HalModeStays DEF Hal!SlotAgrees
<1>14. Hal!FenceRemembered'
  <2>1. /\ \A t \in Hal!SlotIds : s3[t].fence \notin {Hal!NoFence, Hal!Stdin} =>
             /\ s3[t].fence = s3[t].frame /\ s3[t].received
             /\ s8[s3[t].fence] = "open"
        /\ \A g \in Hal!Frames \ {Hal!Stdin} :
             s8[g] # "twice" /\ (s8[g] = "open" => s3[Hal!SlotOf(g)].fence = g)
    BY <1>1 DEF Hal!HalInv, Hal!FenceRemembered
  <2>2. s3[s].fence \in {Hal!NoFence, Hal!Stdin}
    BY <1>2, <2>1
  <2>3. ASSUME NEW t \in Hal!SlotIds, s3'[t].fence \notin {Hal!NoFence, Hal!Stdin}
        PROVE  /\ s3'[t].fence = s3'[t].frame /\ s3'[t].received
               /\ s8'[s3'[t].fence] = "open"
    <3>1. CASE t = s
      BY <1>2, <1>4, <1>7, <1>9, <2>3, <3>1
    <3>2. CASE t # s
      <4>1. s3'[t] = s3[t] /\ s3[t].fence \in Hal!Frames
        BY <1>4, <1>7, <2>3, <3>2 DEF Hal!SlotTypes
      <4> QED
        BY <1>4, <1>9, <2>1, <2>3, <4>1
    <3> QED
      BY <3>1, <3>2
  <2>4. ASSUME NEW g \in Hal!Frames \ {Hal!Stdin}
        PROVE  s8'[g] # "twice" /\ (s8'[g] = "open" => s3'[Hal!SlotOf(g)].fence = g)
    <3>1. Hal!SlotOf(g) \in Hal!SlotIds /\ g # Hal!NoFence /\ g # Hal!Stdin
      BY HalArithmetic DEF Hal!Frames, Hal!Stdin, Hal!NoFence
    <3>2. CASE g = f /\ fence = f
      BY <1>4, <1>7, <1>9, <3>2 DEF s
    <3>3. CASE ~(g = f /\ fence = f)
      <4>1. s8'[g] = s8[g]
        BY <1>4, <1>9, <3>3
      <4> QED
        BY <1>7, <2>1, <2>2, <3>1, <4>1
    <3> QED
      BY <3>2, <3>3
  <2> QED
    BY <1>1, <2>3, <2>4, HalModeStays DEF Hal!FenceRemembered, Hal!Stdin
<1> QED
  BY <1>10, <1>11, <1>12, <1>13, <1>14 DEF Hal!HalInv

\* The camera is done with a buffer that came back early.
LEMMA HalSignalHolds ==
  ASSUME Hal!HalAssumption, Hal!HalInv, NEW s \in Hal!SlotIds, Hal!Signal(s)
  PROVE  Hal!HalInv'
<1>1. /\ s2.pc \notin {"begin", "release", "exited", "aborted"}
      /\ s6[s] # 0 /\ s6[s] \notin s5
      /\ s7' = [s7 EXCEPT ![s] = s6[s]] /\ s6' = [s6 EXCEPT ![s] = 0]
      /\ UNCHANGED <<s1, s2, s3, s4, s5, s8, s9, s10>>
  BY DEF Hal!Signal, Hal!Open
<1>2. 0 \in Hal!Frames
  BY HalArithmetic DEF Hal!Frames
<1>3. /\ s6' \in [Hal!SlotIds -> Hal!Frames] /\ s7' \in [Hal!SlotIds -> Hal!Frames]
      /\ s6[s] = s3[s].frame /\ s6'[s] = 0 /\ s7'[s] = s3[s].frame
      /\ \A t \in Hal!SlotIds \ {s} : s6'[t] = s6[t] /\ s7'[t] = s7[t]
  BY <1>1, <1>2 DEF Hal!HalInv, Hal!HalTyped, Hal!SlotAgrees
<1>4. /\ Hal!HalTyped' /\ Hal!NextRequest' /\ Hal!FlightHasSlots' /\ Hal!Ending'
      /\ Hal!ImageTrue' /\ Hal!FencesClosedOnce'
  <2>1. /\ s3' \in [Hal!SlotIds -> Hal!SlotTypes]
        /\ s8' \in [Hal!Frames -> {"none", "open", "closed", "twice"}]
        /\ s10' \in BOOLEAN
    BY <1>1 DEF Hal!HalInv, Hal!HalTyped
  <2> QED
    BY <1>1, <1>3, <2>1, HalAnswers DEF Hal!Open
<1>5. Hal!SlotInHand'
  BY <1>1, HalModeStays
  DEF Hal!HalInv, Hal!SlotInHand, Hal!SlotOf, Hal!Piped
<1>6. Hal!NoTrouble'
  BY <1>1, HalModeStays DEF Hal!HalInv, Hal!NoTrouble
<1>7. Hal!SlotAgrees'
  <2>1. Hal!OwnSlots'
    BY <1>1, HalModeStays
    DEF Hal!HalInv, Hal!SlotAgrees, Hal!OwnSlots, Hal!SlotOf, Hal!Piped
  <2>2. \A g \in s5 : /\ g # 0 /\ g \in Hal!Frames /\ Hal!SlotOf(g) \in Hal!SlotIds \ {s}
                      /\ s3[Hal!SlotOf(g)].frame = g
                      /\ ~s3[Hal!SlotOf(g)].received /\ s6[Hal!SlotOf(g)] = g
    BY <1>1, HalTaken
  <2>3. \A t \in Hal!SlotIds :
          /\ s6[t] \in {0, s3[t].frame}
          /\ s3[t].received =>
               /\ s6[t] = 0 => s7[t] = s3[t].frame
               /\ s3[t].fence = Hal!NoFence => s6[t] = 0
    BY <1>1 DEF Hal!HalInv, Hal!SlotAgrees
  <2> QED
    BY <1>1, <1>3, <2>1, <2>2, <2>3, HalModeStays DEF Hal!SlotAgrees
<1>8. Hal!FenceRemembered'
  BY <1>1, HalFencesStay DEF Hal!HalInv
<1> QED
  BY <1>4, <1>5, <1>6, <1>7, <1>8 DEF Hal!HalInv

\* An error is told: of the slots of a frame, or of all.
LEMMA HalNotifyHolds ==
  ASSUME Hal!HalAssumption, Hal!HalInv, NEW f \in Hal!Frames, NEW device \in BOOLEAN,
         Hal!Notify(f, device)
  PROVE  Hal!HalInv'
<1>1. /\ s2.pc \notin {"begin", "release", "exited", "aborted"}
      /\ s3' = [s \in Hal!SlotIds |->
                  IF device \/ s3[s].frame = f
                  THEN [s3[s] EXCEPT !.error = TRUE] ELSE s3[s]]
      /\ s10' = TRUE /\ UNCHANGED <<s1, s2, s4, s5, s6, s7, s8, s9>>
  BY DEF Hal!Notify, Hal!Open, Hal!Hal
<1>2. /\ s3' \in [Hal!SlotIds -> Hal!SlotTypes]
      /\ \A t \in Hal!SlotIds :
           /\ s3'[t].frame = s3[t].frame /\ s3'[t].received = s3[t].received
           /\ s3'[t].fence = s3[t].fence
  <2>1. s3 \in [Hal!SlotIds -> Hal!SlotTypes]
    BY DEF Hal!HalInv, Hal!HalTyped
  <2>2. ASSUME NEW t \in Hal!SlotIds
        PROVE  /\ s3'[t] \in Hal!SlotTypes
               /\ s3'[t].frame = s3[t].frame /\ s3'[t].received = s3[t].received
               /\ s3'[t].fence = s3[t].fence
    <3>1. s3'[t] = s3[t] \/ s3'[t] = [s3[t] EXCEPT !.error = TRUE]
      BY <1>1
    <3>2. s3[t] \in Hal!SlotTypes
      BY <2>1
    <3> QED
      BY ONLY <3>1, <3>2, SlotMarked
  <2>3. s3' = [t \in Hal!SlotIds |-> s3'[t]]
    BY <1>1
  <2> QED
    BY <2>2, <2>3
<1>3. /\ s6' \in [Hal!SlotIds -> Hal!Frames] /\ s7' \in [Hal!SlotIds -> Hal!Frames]
      /\ s8' \in [Hal!Frames -> {"none", "open", "closed", "twice"}]
  BY <1>1 DEF Hal!HalInv, Hal!HalTyped
<1>4. /\ Hal!HalTyped' /\ Hal!NextRequest' /\ Hal!FlightHasSlots' /\ Hal!Ending'
      /\ Hal!ImageTrue' /\ Hal!FencesClosedOnce'
  BY <1>1, <1>2, <1>3, HalAnswers DEF Hal!Open
<1>5. Hal!SlotInHand'
  <2>1. s2.pc = "request" => Hal!SlotOf(s2.next) \in Hal!SlotIds
    BY HalRequestFree DEF Hal!Requesting
  <2>2. s2.pc \in {"fence", "image", "advance"} => Hal!SlotOf(s2.frame) \in Hal!SlotIds
    BY HalFrameInFlight DEF Hal!Awaiting
  <2> QED
    BY <1>1, <1>2, <2>1, <2>2 DEF Hal!HalInv, Hal!SlotInHand, Hal!SlotOf, Hal!Piped
<1>6. Hal!NoTrouble'
  BY <1>1 DEF Hal!NoTrouble
<1>7. Hal!SlotAgrees'
  <2>1. Hal!OwnSlots'
    BY <1>1, <1>2, HalModeStays
    DEF Hal!HalInv, Hal!SlotAgrees, Hal!OwnSlots, Hal!SlotOf, Hal!Piped
  <2>2. \A g \in s5 : /\ g # 0 /\ g \in Hal!Frames /\ Hal!SlotOf(g) \in Hal!SlotIds
                      /\ s3[Hal!SlotOf(g)].frame = g
                      /\ ~s3[Hal!SlotOf(g)].received /\ s6[Hal!SlotOf(g)] = g
    BY <1>1, HalTaken
  <2>3. \A t \in Hal!SlotIds :
          /\ s6[t] \in {0, s3[t].frame}
          /\ s3[t].received =>
               /\ s6[t] = 0 => s7[t] = s3[t].frame
               /\ s3[t].fence = Hal!NoFence => s6[t] = 0
    BY <1>1 DEF Hal!HalInv, Hal!SlotAgrees
  <2> QED
    BY <1>1, <1>2, <2>1, <2>2, <2>3, HalModeStays DEF Hal!SlotAgrees
<1>8. Hal!FenceRemembered'
  <2>1. \A g \in Hal!Frames \ {Hal!Stdin} : Hal!SlotOf(g) \in Hal!SlotIds
    BY HalArithmetic DEF Hal!Frames, Hal!Stdin
  <2>2. Hal!FenceRemembered
    BY <1>1 DEF Hal!HalInv
  <2> QED
    BY <1>1, <1>2, <2>1, <2>2, HalModeStays DEF Hal!FenceRemembered
<1> QED
  BY <1>4, <1>5, <1>6, <1>7, <1>8 DEF Hal!HalInv

\* Before the first step nothing is asked, and nothing written.
LEMMA HalInitHolds ==
  ASSUME Hal!HalAssumption, Hal!Init
  PROVE  Hal!HalInv
<1>1. /\ s1 \in {"still", "sequence", "pipeline", "foreground"}
      /\ s2 = [pc |-> "begin", slot |-> 0, frame |-> 1, last |-> Hal!Count,
               next |-> 1, status |-> "ok"]
      /\ s4 = [s \in Hal!SlotIds |-> "none"] /\ s5 = {}
      /\ s6 = [s \in Hal!SlotIds |-> 0] /\ s7 = [s \in Hal!SlotIds |-> 0]
      /\ s8 = [f \in Hal!Frames |-> IF f = Hal!Stdin THEN "open" ELSE "none"]
      /\ s9 = [frame |-> 0, of |-> 0] /\ s10 = FALSE
  BY DEF Hal!Init
<1>2. 0 \in Hal!Frames /\ 0 \in Hal!SlotIds /\ Hal!Count \in Nat /\ 1 <= Hal!Count
  BY HalArithmetic DEF Hal!Frames
<1>3. /\ s3 \in [Hal!SlotIds -> Hal!SlotTypes]
      /\ \A s \in Hal!SlotIds :
           /\ s3[s].frame = 0 /\ ~s3[s].received /\ ~s3[s].error /\ ~s3[s].bad
           /\ s3[s].fence \in {Hal!NoFence, Hal!Stdin}
  BY <1>2 DEF Hal!Init, Hal!Fresh, Hal!SlotTypes, Hal!Stdin
<1>4. Hal!HalTyped
  <2>1. s2 \in Hal!ProgTypes /\ s2.frame <= s2.last
    BY <1>1, <1>2 DEF Hal!ProgTypes
  <2>2. /\ s4 \in [Hal!SlotIds -> {"none", "held", "released"}]
        /\ s6 \in [Hal!SlotIds -> Hal!Frames] /\ s7 \in [Hal!SlotIds -> Hal!Frames]
        /\ s8 \in [Hal!Frames -> {"none", "open", "closed", "twice"}]
        /\ s9 \in [frame : Int, of : Int]
    BY <1>1, <1>2
  <2> QED
    BY <1>1, <1>3, <2>1, <2>2 DEF Hal!HalTyped
<1>5. Hal!NextRequest /\ Hal!FlightHasSlots /\ Hal!SlotInHand /\ Hal!NoTrouble /\ Hal!Ending
  BY <1>1, <1>3 DEF Hal!NextRequest, Hal!FlightHasSlots, Hal!SlotInHand, Hal!NoTrouble,
     Hal!Ending, Hal!Requesting, Hal!Working, Hal!Awaiting
<1>6. Hal!SlotAgrees /\ Hal!FenceRemembered
  BY <1>1, <1>3 DEF Hal!SlotAgrees, Hal!OwnSlots, Hal!FenceRemembered, Hal!Stdin
<1>7. Hal!ImageTrue /\ Hal!FencesClosedOnce
  BY <1>1 DEF Hal!ImageTrue, Hal!FencesClosedOnce
<1> QED
  BY <1>4, <1>5, <1>6, <1>7 DEF Hal!HalInv

LEMMA HalStepHolds ==
  ASSUME Hal!HalAssumption, Hal!HalInv, [Hal!Next]_slots
  PROVE  Hal!HalInv'
<1>1. CASE Hal!Next
  <2>1. CASE Hal!Own
    BY <2>1, HalResetHolds, HalWaitHolds, HalFenceHolds, HalAdvanceHolds, HalTurnHolds
    DEF Hal!Own
  <2>2. CASE Hal!Calls
    BY <2>2, HalBeginHolds, HalAllocateHolds, HalResetHolds, HalRequestHolds,
       HalFlushHolds, HalImageHolds, HalCloseHolds, HalReleaseHolds
    DEF Hal!Calls
  <2>3. ASSUME NEW f \in Hal!Frames, Hal!Result(f)
        PROVE  Hal!HalInv'
    BY <2>3, HalResultHolds
  <2>4. ASSUME NEW s \in Hal!SlotIds, Hal!Signal(s)
        PROVE  Hal!HalInv'
    BY <2>4, HalSignalHolds
  <2>5. ASSUME NEW f \in Hal!Frames, Hal!Notify(f, FALSE)
        PROVE  Hal!HalInv'
    BY <2>5, HalNotifyHolds
  <2>6. CASE Hal!Notify(0, TRUE)
    <3>1. 0 \in Hal!Frames
      BY HalArithmetic DEF Hal!Frames
    <3> QED
      BY <2>6, <3>1, HalNotifyHolds
  <2> QED
    BY <1>1, <2>1, <2>2, <2>3, <2>4, <2>5, <2>6 DEF Hal!Next
<1>2. CASE UNCHANGED slots
  <2> USE DEF Hal!Piped, Hal!SlotIds, Hal!SlotOf, Hal!OwnSlots
  <2>1. UNCHANGED <<s1, s2, s3, s4, s5, s6, s7, s8, s9, s10>>
    BY <1>2 DEF slots
  <2>2. Hal!HalTyped'
    BY <2>1 DEF Hal!HalInv, Hal!HalTyped, Hal!ProgTypes, Hal!Count
  <2>3. Hal!NextRequest'
    BY <2>1 DEF Hal!HalInv, Hal!NextRequest, Hal!Requesting, Hal!Count
  <2>4. Hal!FlightHasSlots'
    BY <2>1 DEF Hal!HalInv, Hal!FlightHasSlots, Hal!InFlight, Hal!Working, Hal!Awaiting,
       Hal!Requesting, Hal!Depth
  <2>5. Hal!SlotInHand' /\ Hal!NoTrouble' /\ Hal!Ending'
    BY <2>1 DEF Hal!HalInv, Hal!SlotInHand, Hal!NoTrouble, Hal!Ending
  <2>6. s2'.pc \notin {"release", "exited", "aborted"} => Hal!SlotAgrees'
    BY <2>1 DEF Hal!HalInv, Hal!SlotAgrees
  <2>7. s2'.pc \notin {"exited", "aborted"} => Hal!FenceRemembered'
    BY <2>1 DEF Hal!HalInv, Hal!FenceRemembered
  <2>8. Hal!ImageTrue' /\ Hal!FencesClosedOnce'
    BY <2>1 DEF Hal!HalInv, Hal!ImageTrue, Hal!FencesClosedOnce
  <2> QED
    BY <2>2, <2>3, <2>4, <2>5, <2>6, <2>7, <2>8 DEF Hal!HalInv
<1> QED
  BY <1>1, <1>2

\* A buffer the camera writes into is written for the same frame after a step, or is
\* free; and it is not given back to the allocator.
LEMMA HalBuffersFree ==
  ASSUME Hal!HalAssumption, Hal!HalInv, [Hal!Next]_slots
  PROVE  Hal!BufferFree
<1> SUFFICES ASSUME NEW s \in Hal!SlotIds, s6[s] # 0
             PROVE  s6'[s] \in {s6[s], 0} /\ s4'[s] # "released"
  BY DEF Hal!BufferFree
<1>1. /\ s2.pc \notin {"release", "exited"} /\ s4[s] # "released"
      /\ s4 \in [Hal!SlotIds -> {"none", "held", "released"}]
      /\ s6 \in [Hal!SlotIds -> Hal!Frames]
  BY DEF Hal!HalInv, Hal!HalTyped, Hal!Ending
<1>2. CASE Hal!Request
  <2>1. s6[Hal!SlotOf(s2.next)] = 0 /\ Hal!SlotOf(s2.next) \in Hal!SlotIds
    BY <1>2, HalRequestFree DEF Hal!Request, Hal!Requesting
  <2> QED
    BY <1>1, <1>2, <2>1 DEF Hal!Request
<1>3. CASE Hal!Allocate
  BY <1>1, <1>3 DEF Hal!Allocate, Hal!Hal
<1>4. CASE Hal!Own \/ Hal!Begin \/ Hal!Reset \/ Hal!Flush \/ Hal!Image
  BY <1>1, <1>4 DEF Hal!Own, Hal!Begin, Hal!Reset, Hal!Wait, Hal!Flush, Hal!Fence,
                    Hal!Image, Hal!Advance, Hal!Turn, Hal!Hal
<1>5. CASE Hal!CloseDevice \/ Hal!Release
  BY <1>1, <1>5 DEF Hal!CloseDevice, Hal!Release
<1>6. ASSUME NEW f \in Hal!Frames, Hal!Result(f)
      PROVE  s6'[s] \in {s6[s], 0} /\ s4'[s] # "released"
  BY <1>1, <1>6 DEF Hal!Result
<1>7. ASSUME NEW t \in Hal!SlotIds, Hal!Signal(t)
      PROVE  s6'[s] \in {s6[s], 0} /\ s4'[s] # "released"
  BY <1>1, <1>7 DEF Hal!Signal
<1>8. ASSUME NEW f \in Hal!Frames, NEW device \in BOOLEAN, Hal!Notify(f, device)
      PROVE  s6'[s] \in {s6[s], 0} /\ s4'[s] # "released"
  BY <1>1, <1>8 DEF Hal!Notify, Hal!Hal
<1>9. CASE UNCHANGED slots
  BY <1>1, <1>9 DEF slots
<1>10. 0 \in Hal!Frames
  BY HalArithmetic DEF Hal!Frames
<1> QED
  BY <1>2, <1>3, <1>4, <1>5, <1>6, <1>7, <1>8, <1>9, <1>10 DEF Hal!Next, Hal!Calls

-----------------------------------------------------------------------------
(* The resuspend trial: s1 its step, s2 its variables, s3 the time, s4 the     *)
(* inputs, s5 the cable, s6 the alarm, s7 the phone's sleep, s8 and s9 its     *)
(* resumes, s10 those that logind was asked for.                               *)

LEMMA ResuspendTyped ==
  ASSUME Resuspend!TrialAssumption, Resuspend!QuietInv
  PROVE  /\ s2 \in Resuspend!Memories /\ s2.last \in Nat /\ s2.prev \in Nat
         /\ s4 \in Resuspend!Inputs /\ s4.at \in Nat /\ s4.read \in Nat
         /\ s3 \in Nat /\ s8 \in Nat /\ Resuspend!Drained \in Nat
         /\ s6 \in {"none", "trial", "other"} /\ s9 \in Resuspend!Reasons
         /\ Resuspend!NotYet \in Nat /\ QuietTicks \in Nat
  BY DEF Resuspend!QuietInv, Resuspend!Typed, Resuspend!Memories, Resuspend!Inputs,
         Resuspend!Drained, Resuspend!NotYet, Resuspend!TrialAssumption

LEMMA QuietInitHolds ==
  ASSUME Resuspend!TrialAssumption, Resuspend!TrialInit
  PROVE  Resuspend!QuietInv
<1>1. s4 \in Resuspend!Inputs /\ s4.at = 0 /\ s4.read = 0
  BY DEF Resuspend!TrialInit, Resuspend!Inputs
<1>2. s2 \in Resuspend!Memories /\ s2.last = 0 /\ s2.prev = 0
  BY DEF Resuspend!TrialInit, Resuspend!Memories, Resuspend!Reasons, Resuspend!NotYet,
     Resuspend!TrialAssumption
<1>3. /\ s1 = "start" /\ s3 = 0 /\ s6 \in {"none", "trial", "other"} /\ s8 = 0
      /\ s9 \in Resuspend!Reasons /\ s10 = {}
  BY DEF Resuspend!TrialInit, Resuspend!Reasons
<1> QED
  BY <1>1, <1>2, <1>3 DEF Resuspend!QuietInv, Resuspend!Typed, Resuspend!InputKnown,
     Resuspend!ReasonKnown, Resuspend!AnsweredOnce

\* After the inputs were read, the program knows the last of them.
LEMMA InputsRead ==
  ASSUME Resuspend!TrialAssumption, Resuspend!QuietInv, Resuspend!ReadInput,
         s2'.last = Resuspend!Drained
  PROVE  s4' \in Resuspend!Inputs /\ s4'.at = s4.at /\ s4'.read = s4.at /\ s4.at <= s2'.last
  BY ResuspendTyped
  DEF Resuspend!QuietInv, Resuspend!Inputs, Resuspend!InputKnown, Resuspend!ReadInput,
      Resuspend!Drained

\* A touch is an input that was not read yet, of now.
LEMMA Touched ==
  ASSUME Resuspend!TrialAssumption, Resuspend!QuietInv,
         s4' = [s4 EXCEPT !.at = s3, !.unread = TRUE]
  PROVE  s4' \in Resuspend!Inputs /\ s4'.at <= s3 /\ s4'.read = s4.read /\ s4'.unread
<1>1. s4 = [at |-> s4.at, unread |-> s4.unread, read |-> s4.read]
  BY ResuspendTyped DEF Resuspend!Inputs
<1>2. s4' = [at |-> s3, unread |-> TRUE, read |-> s4.read]
  BY <1>1
<1>3. s3 \in Nat /\ s4.read \in Nat
  BY ResuspendTyped
<1> QED
  BY ONLY <1>2, <1>3 DEF Resuspend!Inputs

\* A step that only moves the program, to a place where nothing more is asked of it.
LEMMA ProgramStep ==
  ASSUME Resuspend!TrialAssumption, Resuspend!QuietInv, UNCHANGED <<s2, s3, s4, s8, s9,
        s10>>,
         s6' \in {"none", "trial", "other"},
         s1' \in {"plugged", "eligible", "finally", "over"},
         s1' \in {"plugged", "eligible"} => s1 \in {"start", "plugged", "quiet"}
  PROVE  Resuspend!QuietInv'
  BY DEF Resuspend!QuietInv, Resuspend!Typed, Resuspend!InputKnown, Resuspend!ReasonKnown,
         Resuspend!AnsweredOnce

\* A read of the inputs while the trial has not begun, or as it ends.
LEMMA EarlyRead ==
  ASSUME Resuspend!TrialAssumption, Resuspend!QuietInv, Resuspend!ReadInput,
         s2' \in Resuspend!Memories, s2'.last = Resuspend!Drained,
         s2'.prev = s2.prev \/ (s1 = "plugged" /\ s2'.prev = s8),
         s6' \in {"none", "trial", "other"}, UNCHANGED <<s3, s8, s9, s10>>,
         \/ s1 \in {"plugged", "quiet", "eligible"} /\ s1' \in {"plugged", "quiet",
              "finally"}
         \/ s1' = "finally"
         \/ s1 = "eligible" /\ s1' = "alarm" /\ s3 - Resuspend!Drained >= QuietTicks
  PROVE  Resuspend!QuietInv'
<1>1. s4' \in Resuspend!Inputs /\ s4'.at = s4.at /\ s4'.read = s4.at /\ s4.at <= s2'.last
  BY InputsRead
<1>2. Resuspend!InputKnown'
  BY <1>1, ResuspendTyped DEF Resuspend!QuietInv, Resuspend!InputKnown
<1>3. Resuspend!AnsweredOnce'
  BY ResuspendTyped DEF Resuspend!QuietInv, Resuspend!Typed, Resuspend!AnsweredOnce
<1> QED
  BY <1>1, <1>2, <1>3 DEF Resuspend!QuietInv, Resuspend!Typed, Resuspend!ReasonKnown

LEMMA QuietStepHolds ==
  ASSUME Resuspend!TrialAssumption, Resuspend!QuietInv, [Resuspend!TrialNext]_slots
  PROVE  Resuspend!QuietInv'
<1> USE DEF Resuspend!Phone, Resuspend!Running
<1>1. CASE Resuspend!Start \/ Resuspend!Ends \/ Resuspend!Finally
  BY <1>1, ResuspendTyped, ProgramStep DEF Resuspend!Start, Resuspend!Ends,
           Resuspend!Finally
<1>2. CASE Resuspend!AwaitUnplug
  <2>1. /\ s2' \in Resuspend!Memories /\ s2'.last = Resuspend!Drained
        /\ s2'.prev = s2.prev \/ s2'.prev = s8
    BY <1>2, ResuspendTyped DEF Resuspend!AwaitUnplug, Resuspend!Memories
  <2> QED
    BY <1>2, <2>1, ResuspendTyped, EarlyRead DEF Resuspend!AwaitUnplug
<1>3. CASE Resuspend!AwaitQuiet
  <2>1. CASE Resuspend!ReadInput /\ s2' = [s2 EXCEPT !.last = Resuspend!Drained]
    <3>1. s2' \in Resuspend!Memories /\ s2'.last = Resuspend!Drained /\ s2'.prev = s2.prev
      BY <2>1, ResuspendTyped DEF Resuspend!Memories
    <3>2. CASE s1' \in {"quiet", "finally"}
      BY <1>3, <2>1, <3>1, <3>2, ResuspendTyped, EarlyRead DEF Resuspend!AwaitQuiet
    <3>3. CASE UNCHANGED <<s2, s4>> /\ s1' = "eligible"
      BY <1>3, <3>3, ResuspendTyped, ProgramStep DEF Resuspend!AwaitQuiet
    <3> QED
      BY <1>3, <3>2, <3>3 DEF Resuspend!AwaitQuiet
  <2>2. CASE UNCHANGED <<s2, s4>> /\ s1' = "eligible"
    BY <1>3, <2>2, ResuspendTyped, ProgramStep DEF Resuspend!AwaitQuiet
  <2> QED
    BY <1>3, <2>1, <2>2 DEF Resuspend!AwaitQuiet
<1>4. CASE Resuspend!Eligible
  <2>1. s2' \in Resuspend!Memories /\ s2'.last = Resuspend!Drained /\ s2'.prev = s2.prev
    BY <1>4, ResuspendTyped DEF Resuspend!Eligible, Resuspend!Memories
  <2> QED
    BY <1>4, <2>1, ResuspendTyped, EarlyRead DEF Resuspend!Eligible
<1>5. CASE Resuspend!OwnAlarm
  <2>1. s2' \in Resuspend!Memories /\ s2'.last = s2.last /\ s2'.prev = s2.prev
    BY <1>5, ResuspendTyped DEF Resuspend!OwnAlarm, Resuspend!Memories
  <2> QED
    BY <1>5, <2>1 DEF Resuspend!OwnAlarm, Resuspend!QuietInv, Resuspend!Typed,
       Resuspend!InputKnown, Resuspend!ReasonKnown, Resuspend!AnsweredOnce
<1>6. CASE Resuspend!FirstSuspend
  BY <1>6 DEF Resuspend!FirstSuspend, Resuspend!QuietInv, Resuspend!Typed,
     Resuspend!InputKnown, Resuspend!ReasonKnown, Resuspend!AnsweredOnce
<1>7. CASE Resuspend!Turn
  <2>1. CASE s2' = [s2 EXCEPT !.last = Resuspend!Drained]
    <3>1. /\ s2' \in Resuspend!Memories /\ s2'.last = Resuspend!Drained
          /\ s2'.prev = s2.prev /\ s2'.handled = s2.handled
      BY <2>1, ResuspendTyped DEF Resuspend!Memories
    <3>2. CASE s1' = "finally"
      BY <1>7, <3>1, <3>2, ResuspendTyped, EarlyRead DEF Resuspend!Turn
    <3>3. CASE s1' = "decide"
      BY <1>7, <3>1, <3>3, InputsRead, ResuspendTyped
      DEF Resuspend!Turn, Resuspend!QuietInv, Resuspend!Typed, Resuspend!InputKnown,
          Resuspend!ReasonKnown, Resuspend!AnsweredOnce
    <3> QED
      BY <1>7, <3>2, <3>3 DEF Resuspend!Turn
  <2>2. CASE /\ s8 # s2.prev /\ s1' = "decide"
             /\ s2' = [s2 EXCEPT !.last = Resuspend!Drained, !.prev = s8, !.seen = s3,
                                 !.handled = Resuspend!NotYet, !.saw = TRUE]
    <3>1. s2' \in Resuspend!Memories /\ s2'.last = Resuspend!Drained /\ s2'.prev = s8
      BY ONLY <2>2, ResuspendTyped, Resuspend!TrialAssumption, Resuspend!QuietInv
         DEF Resuspend!Memories
    <3>2. Resuspend!AnsweredOnce'
      BY <1>7, <2>2, <3>1, ResuspendTyped
      DEF Resuspend!Turn, Resuspend!QuietInv, Resuspend!Typed, Resuspend!AnsweredOnce
    <3> QED
      BY <1>7, <2>2, <3>1, <3>2, InputsRead, ResuspendTyped
      DEF Resuspend!Turn, Resuspend!QuietInv, Resuspend!Typed, Resuspend!InputKnown,
          Resuspend!ReasonKnown
  <2> QED
    BY <1>7, <2>1, <2>2 DEF Resuspend!Turn
<1>8. CASE Resuspend!Decide
  <2>1. /\ s2' \in Resuspend!Memories /\ s2'.last = s2.last /\ s2'.prev = s2.prev
        /\ s2'.handled = s2.handled /\ s2'.reason = s9
    BY <1>8, ResuspendTyped DEF Resuspend!Decide, Resuspend!Memories
  <2>2. s1' = "again" => s2.prev \notin s10 /\ s9 = "gauge"
    BY <1>8 DEF Resuspend!Decide, Resuspend!Allowed, Resuspend!QuietInv,
       Resuspend!AnsweredOnce
  <2>3. s1 = "decide" /\ s1' \in {"again", "loop"} /\ UNCHANGED <<s3, s4, s6, s8, s9, s10>>
    BY <1>8 DEF Resuspend!Decide
  <2> QED
    BY <2>1, <2>2, <2>3 DEF Resuspend!QuietInv, Resuspend!Typed,
       Resuspend!InputKnown, Resuspend!ReasonKnown, Resuspend!AnsweredOnce
<1>9. CASE Resuspend!Again
  <2>1. /\ s2' \in Resuspend!Memories /\ s2'.last = Resuspend!Drained
        /\ s2'.prev = s2.prev /\ s2'.handled = s2.prev /\ s2'.reason = s2.reason
    BY <1>9, ResuspendTyped DEF Resuspend!Again, Resuspend!FinalInput, Resuspend!Memories
  <2> QED
    BY <1>9, <2>1, InputsRead, ResuspendTyped
    DEF Resuspend!Again, Resuspend!QuietInv, Resuspend!Typed, Resuspend!InputKnown,
        Resuspend!ReasonKnown, Resuspend!AnsweredOnce
<1>10. CASE Resuspend!FinalCheck
  <2>1. s1' = "request" => s2.last + QuietTicks <= s3
    BY <1>10, ResuspendTyped DEF Resuspend!FinalCheck, Resuspend!Allowed
  <2> QED
    BY <1>10, <2>1 DEF Resuspend!FinalCheck, Resuspend!QuietInv, Resuspend!Typed,
       Resuspend!InputKnown, Resuspend!ReasonKnown, Resuspend!AnsweredOnce
<1>11. CASE Resuspend!Request
  <2>1. /\ s1 = "request" /\ s1' = "loop" /\ s10' = s10 \cup {s2.prev}
        /\ UNCHANGED <<s2, s3, s4, s6, s8, s9>>
    BY <1>11 DEF Resuspend!Request
  <2>2. Resuspend!Typed' /\ Resuspend!InputKnown' /\ Resuspend!ReasonKnown'
    BY <2>1, ResuspendTyped DEF Resuspend!QuietInv, Resuspend!Typed,
       Resuspend!InputKnown, Resuspend!ReasonKnown
  <2>3. Resuspend!AnsweredOnce'
    BY <2>1, ResuspendTyped DEF Resuspend!QuietInv, Resuspend!AnsweredOnce
  <2> QED
    BY <2>2, <2>3 DEF Resuspend!QuietInv
<1>12. CASE Resuspend!Tick \/ Resuspend!Touch
  <2>1. /\ s4' \in Resuspend!Inputs /\ s4'.at <= s3' /\ s4'.read = s4.read
        /\ s4'.unread \/ s4' = s4
        /\ s3' \in Nat /\ s3 <= s3' /\ UNCHANGED <<s1, s2, s6, s8, s9, s10>>
    <3>1. CASE Resuspend!Tick
      BY <3>1, ResuspendTyped DEF Resuspend!Tick, Resuspend!QuietInv, Resuspend!InputKnown
    <3>2. CASE Resuspend!Touch
      BY <3>2, Touched, ResuspendTyped DEF Resuspend!Touch
    <3> QED
      BY <1>12, <3>1, <3>2
  <2> QED
    BY <2>1, ResuspendTyped
    DEF Resuspend!QuietInv, Resuspend!Typed, Resuspend!InputKnown,
        Resuspend!ReasonKnown, Resuspend!AnsweredOnce
<1>13. CASE Resuspend!Cable \/ Resuspend!Sleeps \/ UNCHANGED slots
  BY <1>13 DEF Resuspend!Cable, Resuspend!Sleeps, slots, Resuspend!QuietInv,
     Resuspend!Typed, Resuspend!InputKnown, Resuspend!ReasonKnown, Resuspend!AnsweredOnce
<1>14. CASE Resuspend!Wakes
  <2>1. /\ s4' \in Resuspend!Inputs /\ s4'.at <= s3 /\ s4'.read = s4.read
        /\ s4'.unread \/ s4' = s4
        /\ s6' \in {"none", "trial", "other"} /\ s9' \in Resuspend!Reasons
        /\ s8' = s8 + 1 /\ UNCHANGED <<s1, s2, s3, s10>>
    <3>1. CASE s4' = s4
      BY <1>14, <3>1, ResuspendTyped
      DEF Resuspend!Wakes, Resuspend!Reasons, Resuspend!QuietInv, Resuspend!InputKnown
    <3>2. CASE s9' = "key" /\ s4' = [s4 EXCEPT !.at = s3, !.unread = TRUE] /\ s6' = s6
      BY <1>14, <3>2, Touched, ResuspendTyped DEF Resuspend!Wakes, Resuspend!Reasons
    <3> QED
      BY <1>14, <3>1, <3>2 DEF Resuspend!Wakes
  <2> QED
    BY <2>1, ResuspendTyped
    DEF Resuspend!QuietInv, Resuspend!Typed, Resuspend!InputKnown,
        Resuspend!ReasonKnown, Resuspend!AnsweredOnce
<1> QED
  BY <1>1, <1>2, <1>3, <1>4, <1>5, <1>6, <1>7, <1>8, <1>9, <1>10, <1>11, <1>12, <1>13,
     <1>14 DEF Resuspend!TrialNext

\* What the trial knows as it asks covers what its reads could see.
LEMMA QuietMeans ==
  ASSUME Resuspend!TrialAssumption, Resuspend!QuietInv
  PROVE  Resuspend!QuietWhenAsked
  BY ResuspendTyped
  DEF Resuspend!QuietInv, Resuspend!InputKnown, Resuspend!ReasonKnown,
      Resuspend!AnsweredOnce, Resuspend!QuietWhenAsked

-----------------------------------------------------------------------------
(* The private runtime: s1 where the program is, s2 the mounts there are, s3   *)
(* the list of them, s4 the loop device, s5 the processes, s6 the verdict, s7  *)
(* what went wrong.                                                            *)

Later == {x \in Runtime!Steps : /\ x.what # "root"
                                /\ x.does = "attach" => x = Runtime!Attach}

\* A sequence that goes on after the root is mounted.
LEMMA StagesJoined ==
  ASSUME NEW s, NEW t, Runtime!Sequenced(s), t \in Seq(Later)
  PROVE  Runtime!Sequenced(s \o t)
<1> DEFINE u == s \o t
<1> t \in Seq(Runtime!Steps)
  BY DEF Later
<1>1. s \in Seq(Runtime!Steps) /\ Len(s) \in Nat /\ Len(t) \in Nat /\ Len(s) > 0
  BY DEF Runtime!Sequenced
<1>2. u \in Seq(Runtime!Steps) /\ Len(u) = Len(s) + Len(t)
  BY <1>1
<1>3. \A k \in 1..Len(u) : u[k] = IF k <= Len(s) THEN s[k] ELSE t[k - Len(s)]
  BY <1>1, <1>2
<1>4. u[1] = Runtime!Mount("root") /\ Len(u) > 0
  BY <1>1, <1>2, <1>3 DEF Runtime!Sequenced
<1>5. ASSUME NEW k \in 1..Len(u)
      PROVE  /\ k # 1 => u[k].what # "root"
             /\ u[k].does = "attach" => u[k] = Runtime!Attach
  <2>1. CASE k <= Len(s)
    <3>1. k \in 1..Len(s) /\ u[k] = s[k]
      BY <1>1, <1>2, <1>3, <2>1
    <3> QED
      BY <3>1 DEF Runtime!Sequenced
  <2>2. CASE ~(k <= Len(s))
    <3>1. k - Len(s) \in 1..Len(t) /\ u[k] = t[k - Len(s)]
      BY <1>1, <1>2, <1>3, <2>2
    <3> QED
      BY <3>1 DEF Later
  <2> QED
    BY <2>1, <2>2
<1>6. \A k \in 2..Len(u) : u[k].what # "root"
  BY <1>1, <1>2, <1>5
<1> QED
  BY <1>2, <1>4, <1>5, <1>6 DEF Runtime!Sequenced

LEMMA StageFacts ==
  /\ \A m \in Runtime!Names :
       /\ Runtime!Mount(m) \in Runtime!Steps
       /\ Runtime!Mount(m).what = m /\ Runtime!Mount(m).does = "mount"
  /\ \A p \in Runtime!Names :
       /\ Runtime!Spawn(p) \in Runtime!Steps /\ Runtime!Finish(p) \in Runtime!Steps
       /\ Runtime!Spawn(p).what = p /\ Runtime!Spawn(p).does = "spawn"
       /\ Runtime!Finish(p).what = p /\ Runtime!Finish(p).does = "finish"
  /\ Runtime!Attach \in Runtime!Steps /\ Runtime!Attach.what = "loop"
       /\ Runtime!Attach.does = "attach"
  BY DEF Runtime!Mount, Runtime!Spawn, Runtime!Finish, Runtime!Attach, Runtime!Steps,
         Runtime!Names

\* The stages of each program.
LEMMA ProcessesLater == Runtime!Processes \in Seq(Later)
<1>1. {"dev", "nodes", "binderfs", "shim", "manager", "client", "provider"}
         \subseteq Runtime!Names \ {"root"}
  BY DEF Runtime!Names
<1>2. /\ Runtime!Mount("dev") \in Later /\ Runtime!Mount("nodes") \in Later
      /\ Runtime!Mount("binderfs") \in Later /\ Runtime!Mount("shim") \in Later
      /\ Runtime!Spawn("manager") \in Later /\ Runtime!Spawn("client") \in Later
      /\ Runtime!Finish("client") \in Later /\ Runtime!Spawn("provider") \in Later
      /\ Runtime!Finish("provider") \in Later /\ Runtime!Finish("manager") \in Later
  BY <1>1, StageFacts DEF Later
<1> QED
  BY <1>2 DEF Runtime!Processes

LEMMA MountsLater ==
  /\ \A m \in Runtime!Names \ {"root"} : Runtime!Mount(m) \in Later
  /\ Runtime!Attach \in Later
  BY StageFacts DEF Later

LEMMA RootSequenced ==
  ASSUME NEW t, t \in Seq(Later)
  PROVE  Runtime!Sequenced(<<Runtime!Mount("root")>> \o t)
<1>1. "root" \in Runtime!Names
  BY DEF Runtime!Names
<1>2. Runtime!Sequenced(<<Runtime!Mount("root")>>)
  BY <1>1, StageFacts DEF Runtime!Sequenced
<1> QED
  BY <1>2, StagesJoined

LEMMA CaptureSequenced ==
  ASSUME NEW preview \in BOOLEAN
  PROVE  Runtime!Sequenced(Runtime!CaptureStages(preview))
<1> DEFINE a == <<Runtime!Mount("tree"), Runtime!Mount("override"), Runtime!Mount("icp")>>
           b == <<Runtime!Mount("root"), Runtime!Mount("tree"), Runtime!Mount("override"),
                  Runtime!Mount("icp")>>
           c == IF preview THEN <<Runtime!Mount("cvp")>> ELSE <<>>
           d == <<Runtime!Mount("output"), Runtime!Mount("probe"), Runtime!Attach,
                  Runtime!Mount("system_ext")>>
<1>1. a \in Seq(Later) /\ d \in Seq(Later)
  BY MountsLater DEF Runtime!Names
<1>2. c \in Seq(Later)
  BY MountsLater DEF Runtime!Names
<1>3. b = <<Runtime!Mount("root")>> \o a
  OBVIOUS
<1>4. Runtime!CaptureStages(preview) = b \o c \o d \o Runtime!Processes
  BY DEF Runtime!CaptureStages
<1> HIDE DEF a, b, c, d
<1>5. Runtime!Sequenced(b)
  BY <1>1, <1>3, RootSequenced
<1>6. Runtime!Sequenced(b \o c)
  BY <1>2, <1>5, StagesJoined
<1>7. Runtime!Sequenced(b \o c \o d)
  BY <1>1, <1>6, StagesJoined
<1> QED
  BY <1>4, <1>7, ProcessesLater, StagesJoined

LEMMA EldersSequenced ==
  Runtime!Sequenced(Runtime!NoNcsStages) /\ Runtime!Sequenced(Runtime!BacktraceStages)
<1> DEFINE a == <<Runtime!Mount("tree"), Runtime!Mount("override"), Runtime!Mount("icp"),
                  Runtime!Mount("probe"), Runtime!Attach, Runtime!Mount("system_ext")>>
           b == <<Runtime!Mount("tree"), Runtime!Mount("icp"), Runtime!Mount("probe"),
                  Runtime!Attach, Runtime!Mount("system_ext")>>
           root == <<Runtime!Mount("root")>>
<1>1. a \in Seq(Later)
  BY MountsLater DEF Runtime!Names
<1>2. b \in Seq(Later)
  BY MountsLater DEF Runtime!Names
<1>3. Runtime!NoNcsStages = (root \o a) \o Runtime!Processes
  BY DEF Runtime!NoNcsStages
<1>4. Runtime!BacktraceStages = (root \o b) \o Runtime!Processes
  BY DEF Runtime!BacktraceStages
<1> HIDE DEF a, b
<1>5. Runtime!Sequenced(root \o a) /\ Runtime!Sequenced(root \o b)
  BY <1>1, <1>2, RootSequenced
<1> QED
  BY <1>3, <1>4, <1>5, ProcessesLater, StagesJoined

LEMMA NotOverMeans ==
  ASSUME Runtime!NotOver, s1.at # "ended"
  PROVE  Runtime!RemovedIsGone
  BY DEF Runtime!NotOver, Runtime!RemovedIsGone

LEMMA RuntimeInitHolds == Runtime!Init => Runtime!RuntimeInv
<1> SUFFICES ASSUME Runtime!Init PROVE Runtime!RuntimeInv
  OBVIOUS
<1>1. s1 \in Runtime!Runtimes /\ s1.at = "start"
  BY DEF Runtime!Init, Runtime!Runtimes
<1>2. s4 \in [attached : BOOLEAN, held : BOOLEAN] /\ ~s4.attached
  BY DEF Runtime!Init
<1>3. s5 \in [alive : SUBSET Runtime!Names, held : SUBSET Runtime!Names]
      /\ s5.alive = {} /\ s5.held = {}
  BY DEF Runtime!Init
<1>4. s6 \in Runtime!Verdicts /\ ~s6.announced /\ s6.exit = "none"
  BY DEF Runtime!Init, Runtime!Verdicts
<1>5. s2 = {} /\ s3 = <<>> /\ s3 \in Seq(Runtime!Names) /\ Len(s3) = 0
  BY DEF Runtime!Init
<1>6. Runtime!Typed
  BY <1>1, <1>2, <1>3, <1>4, <1>5 DEF Runtime!Typed
<1>7. Runtime!BuiltInOrder /\ Runtime!LoopNoted /\ Runtime!NotOver
  BY <1>1, <1>2, <1>4, <1>5 DEF Runtime!BuiltInOrder, Runtime!Running, Runtime!LoopNoted,
     Runtime!NotOver
<1>8. Runtime!RootLast /\ Runtime!Noted
  BY <1>3, <1>5 DEF Runtime!RootLast, Runtime!Noted, Runtime!Listed
<1> QED
  BY <1>1, <1>6, <1>7, <1>8, NotOverMeans DEF Runtime!RuntimeInv

LEMMA RuntimeStartHolds ==
  ASSUME Runtime!RuntimeInv, Runtime!Start
  PROVE  Runtime!RuntimeInv'
<1>1. PICK program \in {"capture", "no-ncs", "backtrace"}, stages \in Seq(Runtime!Steps) :
        /\ Runtime!Sequenced(stages)
        /\ s1' = [program |-> program, stages |-> stages, at |-> "do", i |-> 1]
  BY CaptureSequenced, EldersSequenced DEF Runtime!Start, Runtime!Sequenced
<1>2. /\ s1' \in Runtime!Runtimes /\ s1'.at = "do" /\ s1'.i = 1 /\ s1'.stages = stages
      /\ s1.at = "start"
  BY <1>1 DEF Runtime!Runtimes, Runtime!Sequenced, Runtime!Start
<1>3. Runtime!Typed'
  BY <1>2 DEF Runtime!RuntimeInv, Runtime!Typed, Runtime!Start
<1>4. Runtime!BuiltInOrder'
  BY <1>1, <1>2 DEF Runtime!RuntimeInv, Runtime!BuiltInOrder, Runtime!NotOver,
           Runtime!Start,
     Runtime!Sequenced
<1>5. Runtime!RootLast'
  BY DEF Runtime!RuntimeInv, Runtime!RootLast, Runtime!Listed, Runtime!Start
<1>6. Runtime!Noted'
  BY <1>2 DEF Runtime!RuntimeInv, Runtime!Noted, Runtime!Listed, Runtime!Pending,
     Runtime!Start
<1>7. Runtime!LoopNoted' /\ Runtime!NotOver'
  BY <1>2 DEF Runtime!RuntimeInv, Runtime!LoopNoted, Runtime!NotOver, Runtime!Start
<1>8. Runtime!RemovedIsGone'
  BY <1>2, <1>7 DEF Runtime!NotOver, Runtime!RemovedIsGone
<1> QED
  BY <1>3, <1>4, <1>5, <1>6, <1>7, <1>8 DEF Runtime!RuntimeInv

LEMMA AcquireHolds ==
  ASSUME Runtime!RuntimeInv, Runtime!Acquire
  PROVE  Runtime!RuntimeInv'
<1> DEFINE stage == s1.stages[s1.i]
<1>1. /\ Runtime!Typed /\ s1.at = "do" /\ stage.does # "finish"
      /\ Runtime!Sequenced(s1.stages) /\ s1.i \in 1..Len(s1.stages)
      /\ s1.i = 1 => s3 = <<>>
      /\ s1.i > 1 => "root" \in s2
  BY DEF Runtime!RuntimeInv, Runtime!BuiltInOrder, Runtime!Running, Runtime!Acquire,
     Runtime!Stage
<1>2. stage \in Runtime!Steps /\ stage.what \in Runtime!Names
  <2>1. s1.stages \in Seq(Runtime!Steps)
    BY <1>1 DEF Runtime!Sequenced
  <2>2. stage \in Runtime!Steps
    BY <1>1, <2>1
  <2> QED
    BY <2>2 DEF Runtime!Steps
<1>3. s1' \in Runtime!Runtimes /\ s1'.at = "note" /\ s1'.stages = s1.stages /\ s1'.i = s1.i
      /\ s1'.program = s1.program
  BY <1>1 DEF Runtime!Acquire, Runtime!Typed, Runtime!Runtimes
<1>4. /\ s2' = IF stage.does = "mount" THEN s2 \cup {stage.what} ELSE s2
      /\ s4' = IF stage.does = "attach" THEN [s4 EXCEPT !.attached = TRUE] ELSE s4
      /\ s5' = IF stage.does = "spawn" THEN [s5 EXCEPT !.alive = @ \cup {stage.what}]
               ELSE s5
      /\ UNCHANGED <<s3, s6, s7>>
  BY DEF Runtime!Acquire, Runtime!Stage
<1>5. s4' \in [attached : BOOLEAN, held : BOOLEAN] /\ s4'.held = s4.held
      /\ (s4'.attached => s4.attached \/ stage.does = "attach")
  BY <1>1, <1>4 DEF Runtime!Typed
<1>6. s5' \in [alive : SUBSET Runtime!Names, held : SUBSET Runtime!Names]
      /\ s5'.held = s5.held
      /\ s5'.alive = IF stage.does = "spawn" THEN s5.alive \cup {stage.what} ELSE s5.alive
  BY <1>1, <1>2, <1>4 DEF Runtime!Typed
<1>7. Runtime!Typed'
  BY <1>1, <1>2, <1>3, <1>4, <1>5, <1>6 DEF Runtime!Typed
<1>8. "root" \in s2' /\ (s1.i > 1 => stage.what # "root")
  <2>1. CASE s1.i = 1
    BY <1>1, <1>4, <2>1 DEF Runtime!Sequenced, Runtime!Mount
  <2>2. CASE s1.i > 1
    BY <1>1, <1>4, <2>2 DEF Runtime!Sequenced
  <2> QED
    BY <1>1, <2>1, <2>2
<1>9. Runtime!BuiltInOrder'
  BY <1>1, <1>3, <1>4, <1>8 DEF Runtime!BuiltInOrder
<1>10. Runtime!RootLast'
  BY <1>4, <1>8 DEF Runtime!RuntimeInv, Runtime!RootLast, Runtime!Listed
<1>11. Runtime!Noted'
  BY <1>1, <1>3, <1>4, <1>6 DEF Runtime!RuntimeInv, Runtime!Noted, Runtime!Listed,
     Runtime!Pending, Runtime!Stage
<1>12. Runtime!LoopNoted'
  BY <1>1, <1>3, <1>4, <1>5 DEF Runtime!RuntimeInv, Runtime!LoopNoted, Runtime!Stage,
     Runtime!Sequenced
<1>13. Runtime!NotOver' /\ Runtime!RemovedIsGone'
  BY <1>1, <1>3, <1>4 DEF Runtime!RuntimeInv, Runtime!NotOver, Runtime!RemovedIsGone
<1> QED
  BY <1>7, <1>9, <1>10, <1>11, <1>12, <1>13 DEF Runtime!RuntimeInv

LEMMA AdvanceStep ==
  ASSUME Runtime!Typed, s1.i \in 1..Len(s1.stages), Runtime!Advance
  PROVE  /\ s1' \in Runtime!Runtimes
         /\ s1'.stages = s1.stages /\ s1'.program = s1.program
         /\ \/ s1'.at = "kill"
            \/ s1'.at = "do" /\ s1'.i = s1.i + 1 /\ s1'.i \in 1..Len(s1.stages)
<1>1. s1 \in Runtime!Runtimes /\ Len(s1.stages) \in Nat /\ s1.i \in Nat
  BY DEF Runtime!Typed, Runtime!Runtimes
<1>2. CASE s1.i = Len(s1.stages)
  BY <1>1, <1>2 DEF Runtime!Advance, Runtime!Runtimes
<1>3. CASE s1.i # Len(s1.stages)
  <2>1. s1' = [s1 EXCEPT !.at = "do", !.i = @ + 1]
    BY <1>3 DEF Runtime!Advance
  <2>2. s1.i + 1 \in 1..Len(s1.stages) /\ s1.i + 1 \in Nat
    BY <1>1, <1>3
  <2>3. s1'.at = "do" /\ s1'.i = s1.i + 1 /\ s1'.stages = s1.stages
        /\ s1'.program = s1.program
    BY <1>1, <2>1 DEF Runtime!Runtimes
  <2>4. s1' \in Runtime!Runtimes
    BY <1>1, <2>1, <2>2 DEF Runtime!Runtimes
  <2> QED
    BY <2>2, <2>3, <2>4
<1> QED
  BY <1>2, <1>3

\* Where a program is while it builds, and what the stage is about.
LEMMA AtStage ==
  ASSUME Runtime!RuntimeInv, Runtime!Running
  PROVE  /\ Runtime!Typed /\ Runtime!Sequenced(s1.stages) /\ s1.i \in 1..Len(s1.stages)
         /\ s1.i = 1 => s3 = <<>>
         /\ s1.i > 1 \/ s1.at = "note" => "root" \in s2
         /\ Runtime!Stage \in Runtime!Steps /\ Runtime!Stage.what \in Runtime!Names
         /\ s1.i > 1 => Runtime!Stage.what # "root"
         /\ s1.i = 1 => Runtime!Stage.does = "mount" /\ Runtime!Stage.what = "root"
         /\ Runtime!Stage.does = "attach" => Runtime!Stage = Runtime!Attach
<1>1. /\ Runtime!Typed /\ Runtime!Sequenced(s1.stages) /\ s1.i \in 1..Len(s1.stages)
      /\ s1.i = 1 => s3 = <<>>
      /\ s1.i > 1 \/ s1.at = "note" => "root" \in s2
  BY DEF Runtime!RuntimeInv, Runtime!BuiltInOrder
<1>2. s1.stages \in Seq(Runtime!Steps)
  BY <1>1 DEF Runtime!Sequenced
<1>3. Runtime!Stage \in Runtime!Steps
  BY <1>1, <1>2 DEF Runtime!Stage
<1>4. Runtime!Stage.what \in Runtime!Names
  BY <1>3 DEF Runtime!Steps
<1>5. s1.i > 1 => Runtime!Stage.what # "root"
  BY <1>1, <1>2 DEF Runtime!Sequenced, Runtime!Stage
<1>6. s1.i = 1 => Runtime!Stage.does = "mount" /\ Runtime!Stage.what = "root"
  BY <1>1 DEF Runtime!Sequenced, Runtime!Stage, Runtime!Mount
<1>7. Runtime!Stage.does = "attach" => Runtime!Stage = Runtime!Attach
  BY <1>1 DEF Runtime!Sequenced, Runtime!Stage
<1> QED
  BY <1>1, <1>3, <1>4, <1>5, <1>6, <1>7

LEMMA NoteHolds ==
  ASSUME Runtime!RuntimeInv, Runtime!Note
  PROVE  Runtime!RuntimeInv'
<1> DEFINE stage == Runtime!Stage
<1>1. s1.at = "note" /\ Runtime!Running /\ Runtime!Advance
  BY DEF Runtime!Note, Runtime!Running
<1>2. /\ s3' = IF stage.does = "mount" THEN Append(s3, stage.what) ELSE s3
      /\ s4' = IF stage.does = "attach" THEN [s4 EXCEPT !.held = TRUE] ELSE s4
      /\ s5' = IF stage.does = "spawn" THEN [s5 EXCEPT !.held = @ \cup {stage.what}]
               ELSE s5
      /\ UNCHANGED <<s2, s6, s7>>
  BY DEF Runtime!Note
<1>3. /\ Runtime!Typed /\ Runtime!Sequenced(s1.stages) /\ s1.i \in 1..Len(s1.stages)
      /\ s1.i = 1 => s3 = <<>>
      /\ "root" \in s2 /\ stage.what \in Runtime!Names
      /\ s1.i > 1 => stage.what # "root"
      /\ stage.does = "attach" => stage = Runtime!Attach
      /\ s3 \in Seq(Runtime!Names)
  BY <1>1, AtStage DEF Runtime!Typed
<1> HIDE DEF stage
<1>4. s1' \in Runtime!Runtimes /\ s1'.stages = s1.stages
      /\ (s1'.at = "kill"
            \/ (s1'.at = "do" /\ s1'.i > 1 /\ s1'.i \in 1..Len(s1.stages)))
  BY <1>1, <1>3, AdvanceStep
<1>5. s4' \in [attached : BOOLEAN, held : BOOLEAN] /\ s4'.attached = s4.attached
      /\ (s4.held \/ stage.does = "attach" => s4'.held)
  BY <1>2, <1>3 DEF Runtime!Typed
<1>6. s5' \in [alive : SUBSET Runtime!Names, held : SUBSET Runtime!Names]
      /\ s5'.alive = s5.alive
      /\ s5'.held = IF stage.does = "spawn" THEN s5.held \cup {stage.what} ELSE s5.held
  BY <1>2, <1>3 DEF Runtime!Typed
<1>7. s3' \in Seq(Runtime!Names) /\ Runtime!Listed \subseteq Runtime!Listed'
      /\ Runtime!Listed' \subseteq Runtime!Listed \cup {stage.what}
      /\ (stage.does = "mount" => stage.what \in Runtime!Listed')
      /\ (\A k \in 2..Len(s3') : s3'[k] # "root")
  <2>1. CASE stage.does = "mount"
    <3>1. /\ s3' \in Seq(Runtime!Names) /\ Len(s3') = Len(s3) + 1 /\ Len(s3) \in Nat
          /\ \A k \in 1..Len(s3) : s3'[k] = s3[k]
          /\ s3'[Len(s3) + 1] = stage.what
      BY <1>2, <1>3, <2>1
    <3>2. \A k \in 2..Len(s3') : s3'[k] # "root"
      <4>1. SUFFICES ASSUME NEW k \in 2..Len(s3') PROVE s3'[k] # "root"
        OBVIOUS
      <4>2. CASE k = Len(s3) + 1
        <5>1. s1.i > 1
          BY <1>3, <3>1, <4>2
        <5> QED
          BY <1>3, <3>1, <4>2, <5>1
      <4>3. CASE k \in 2..Len(s3)
        BY <3>1, <4>3 DEF Runtime!RuntimeInv, Runtime!RootLast
      <4> QED
        BY <3>1, <4>2, <4>3
    <3>3. Runtime!Listed \subseteq Runtime!Listed' /\ stage.what \in Runtime!Listed'
          /\ Runtime!Listed' \subseteq Runtime!Listed \cup {stage.what}
      BY <3>1 DEF Runtime!Listed
    <3> QED
      BY <3>1, <3>2, <3>3
  <2>2. CASE stage.does # "mount"
    <3>1. s3' = s3
      BY <1>2, <2>2
    <3> QED
      BY <1>3, <2>2, <3>1 DEF Runtime!RuntimeInv, Runtime!RootLast, Runtime!Listed
  <2> QED
    BY <2>1, <2>2
<1>8. Runtime!Typed'
  BY <1>2, <1>3, <1>4, <1>5, <1>6, <1>7 DEF Runtime!Typed
<1>9. Runtime!BuiltInOrder'
  BY <1>2, <1>3, <1>4 DEF Runtime!BuiltInOrder, Runtime!Running
<1>10. Runtime!RootLast'
  BY <1>2, <1>3, <1>6, <1>7 DEF Runtime!RootLast
<1>11. Runtime!Noted'
  BY <1>1, <1>2, <1>4, <1>6, <1>7 DEF Runtime!RuntimeInv, Runtime!Noted, Runtime!Pending,
     stage
<1>12. Runtime!LoopNoted'
  <2>1. s4'.attached => s4'.held \/ "in losetup" \in s7
    BY <1>1, <1>5, StageFacts DEF Runtime!RuntimeInv, Runtime!LoopNoted, stage
  <2> QED
    BY <1>2, <1>4, <2>1 DEF Runtime!LoopNoted
<1>13. Runtime!NotOver' /\ Runtime!RemovedIsGone'
  BY <1>1, <1>2, <1>4 DEF Runtime!RuntimeInv, Runtime!NotOver, Runtime!RemovedIsGone
<1> QED
  BY <1>8, <1>9, <1>10, <1>11, <1>12, <1>13 DEF Runtime!RuntimeInv

LEMMA FinishHolds ==
  ASSUME Runtime!RuntimeInv, Runtime!FinishProcess
  PROVE  Runtime!RuntimeInv'
<1>1. s1.at = "do" /\ Runtime!Running /\ Runtime!Advance /\ Runtime!Stage.does = "finish"
      /\ UNCHANGED <<s2, s3, s4, s7>>
  BY DEF Runtime!FinishProcess, Runtime!Running
<1>2. /\ Runtime!Typed /\ Runtime!Sequenced(s1.stages) /\ s1.i \in 1..Len(s1.stages)
      /\ s1.i > 1 /\ "root" \in s2
  BY <1>1, AtStage
<1>3. s1' \in Runtime!Runtimes /\ s1'.stages = s1.stages
      /\ (s1'.at = "kill"
            \/ (s1'.at = "do" /\ s1'.i > 1 /\ s1'.i \in 1..Len(s1.stages)))
  BY <1>1, <1>2, AdvanceStep
<1>4. s5' \in [alive : SUBSET Runtime!Names, held : SUBSET Runtime!Names]
      /\ s5'.held = s5.held /\ s5'.alive \subseteq s5.alive
  BY <1>2 DEF Runtime!FinishProcess, Runtime!Typed
<1>5. s6' \in Runtime!Verdicts /\ s6'.announced = s6.announced /\ s6'.exit = s6.exit
  BY <1>2 DEF Runtime!FinishProcess, Runtime!Typed, Runtime!Verdicts
<1>6. Runtime!Typed'
  BY <1>1, <1>2, <1>3, <1>4, <1>5 DEF Runtime!Typed
<1>7. Runtime!BuiltInOrder'
  BY <1>1, <1>2, <1>3 DEF Runtime!BuiltInOrder, Runtime!Running
<1>8. Runtime!RootLast' /\ Runtime!Noted'
  BY <1>1, <1>2, <1>3, <1>4 DEF Runtime!RuntimeInv, Runtime!RootLast, Runtime!Noted,
     Runtime!Listed, Runtime!Pending
<1>9. Runtime!LoopNoted' /\ Runtime!NotOver' /\ Runtime!RemovedIsGone'
  BY <1>1, <1>3, <1>5 DEF Runtime!RuntimeInv, Runtime!LoopNoted, Runtime!NotOver,
     Runtime!RemovedIsGone
<1> QED
  BY <1>6, <1>7, <1>8, <1>9 DEF Runtime!RuntimeInv

\* A process that ends by itself only leaves less to remove.
LEMMA ProcessEndsHolds ==
  ASSUME Runtime!RuntimeInv, Runtime!ProcessEnds
  PROVE  Runtime!RuntimeInv'
<1>1. UNCHANGED <<s1, s2, s3, s4, s6, s7>>
  BY DEF Runtime!ProcessEnds
<1>2. s5' \in [alive : SUBSET Runtime!Names, held : SUBSET Runtime!Names]
      /\ s5'.held = s5.held /\ s5'.alive \subseteq s5.alive
  BY DEF Runtime!ProcessEnds, Runtime!RuntimeInv, Runtime!Typed
<1>3. Runtime!Typed' /\ Runtime!BuiltInOrder'
  BY <1>1, <1>2 DEF Runtime!RuntimeInv, Runtime!Typed, Runtime!BuiltInOrder,
     Runtime!Running
<1>4. Runtime!RootLast' /\ Runtime!Noted'
  BY <1>1, <1>2 DEF Runtime!RuntimeInv, Runtime!RootLast, Runtime!Noted, Runtime!Listed,
     Runtime!Pending, Runtime!Stage
<1>5. Runtime!LoopNoted' /\ Runtime!NotOver' /\ Runtime!RemovedIsGone'
  BY <1>1, <1>2 DEF Runtime!RuntimeInv, Runtime!LoopNoted, Runtime!NotOver,
     Runtime!RemovedIsGone, Runtime!Removed, Runtime!Stage
<1> QED
  BY <1>3, <1>4, <1>5 DEF Runtime!RuntimeInv

\* The first places of a sequence.
LEMMA PlaceTwo ==
  ASSUME NEW n \in Nat, n > 0, n # 1
  PROVE  n \in 2..n
  OBVIOUS

LEMMA FirstPlaces ==
  ASSUME NEW S, NEW s \in Seq(S), NEW n \in Nat, n < Len(s)
  PROVE  /\ SubSeq(s, 1, n) \in Seq(S)
         /\ Len(SubSeq(s, 1, n)) = n
         /\ \A k \in 1..n : SubSeq(s, 1, n)[k] = s[k]
<1>1. SubSeq(s, 1, n) \in Seq(S)
  OBVIOUS
<1>2. Len(SubSeq(s, 1, n)) = n
  OBVIOUS
<1>3. \A k \in 1..n : SubSeq(s, 1, n)[k] = s[k]
  OBVIOUS
<1> QED
  BY <1>1, <1>2, <1>3

LEMMA AllButLast ==
  ASSUME NEW S, NEW s \in Seq(S), Len(s) > 0
  PROVE  /\ SubSeq(s, 1, Len(s) - 1) \in Seq(S)
         /\ Len(SubSeq(s, 1, Len(s) - 1)) = Len(s) - 1
         /\ \A k \in 1..(Len(s) - 1) : SubSeq(s, 1, Len(s) - 1)[k] = s[k]
<1> DEFINE n == Len(s) - 1
<1>1. n \in Nat /\ n < Len(s)
  OBVIOUS
<1> HIDE DEF n
<1>2. /\ SubSeq(s, 1, n) \in Seq(S)
      /\ Len(SubSeq(s, 1, n)) = n
      /\ \A k \in 1..n : SubSeq(s, 1, n)[k] = s[k]
  BY <1>1, FirstPlaces
<1> QED
  BY <1>2 DEF n

\* An error or a signal sends the program to its end, or out.
LEMMA StopHolds ==
  ASSUME Runtime!RuntimeInv,
         Runtime!Fails \/ Runtime!Interrupted \/ Runtime!Terminated \/ Runtime!EndingFails
  PROVE  Runtime!RuntimeInv'
<1>1. Runtime!Typed /\ UNCHANGED <<s2, s3, s4, s5>> /\ s7 \subseteq s7'
  BY DEF Runtime!RuntimeInv, Runtime!Fails, Runtime!Interrupted, Runtime!Terminated,
     Runtime!EndingFails
<1>2. s6' \in Runtime!Verdicts /\ s6'.announced = s6.announced /\ s6'.exit = "error"
  BY <1>1 DEF Runtime!Fails, Runtime!Interrupted, Runtime!Terminated, Runtime!EndingFails,
     Runtime!Typed, Runtime!Verdicts
<1>3. /\ s1' \in Runtime!Runtimes /\ s1'.at \in {"kill", "ended"}
      /\ s1'.at = "kill" => Runtime!Running
      /\ s1.at \notin {"ended", "start"}
  BY <1>1 DEF Runtime!Fails, Runtime!Interrupted, Runtime!Terminated, Runtime!EndingFails,
     Runtime!Typed, Runtime!Runtimes, Runtime!Running, Runtime!Ending
<1>4. Runtime!Typed' /\ Runtime!BuiltInOrder' /\ Runtime!RootLast'
  BY <1>1, <1>2, <1>3 DEF Runtime!RuntimeInv, Runtime!Typed, Runtime!BuiltInOrder,
     Runtime!Running, Runtime!RootLast, Runtime!Listed
<1>5. s7' \subseteq {"failed"} => (Runtime!Fails /\ s1.at = "do") \/ Runtime!EndingFails
  <2>1. Runtime!Interrupted \/ Runtime!Terminated => "interrupted" \in s7'
    BY DEF Runtime!Interrupted, Runtime!Terminated
  <2>2. Runtime!Fails => s1.at = "do"
    BY DEF Runtime!Fails
  <2> QED
    BY <2>1, <2>2
<1>6. Runtime!Noted'
  <2>1. SUFFICES ASSUME s7' \subseteq {"failed"}
                 PROVE  s2 \subseteq Runtime!Listed /\ s5.alive \subseteq s5.held
    BY <1>1, <1>3 DEF Runtime!Noted, Runtime!Listed, Runtime!Pending
  <2>2. s1.at # "note" /\ s7 \subseteq {"failed"}
    BY <1>1, <1>5, <2>1 DEF Runtime!EndingFails, Runtime!Ending
  <2> QED
    BY <2>2 DEF Runtime!RuntimeInv, Runtime!Noted, Runtime!Pending
<1>7. Runtime!LoopNoted'
  <2>1. CASE s1'.at = "ended"
    BY <2>1 DEF Runtime!LoopNoted
  <2>2. CASE s1'.at = "kill"
    <3>1. Runtime!Fails \/ (Runtime!Interrupted
             /\ (Runtime!Stage = Runtime!Attach => "in losetup" \in s7'))
      BY <1>1, <1>3, <2>2 DEF Runtime!Terminated, Runtime!EndingFails, Runtime!Interrupted,
         Runtime!Typed, Runtime!Runtimes
    <3>2. s4.attached => s4.held \/ "in losetup" \in s7'
      BY <1>1, <1>3, <3>1 DEF Runtime!RuntimeInv, Runtime!LoopNoted, Runtime!Fails
    <3> QED
      BY <1>1, <2>2, <3>2 DEF Runtime!LoopNoted
  <2> QED
    BY <1>3, <2>1, <2>2
<1>8. Runtime!NotOver'
  BY <1>2, <1>3 DEF Runtime!RuntimeInv, Runtime!NotOver
<1>9. ~(s1'.at = "ended" /\ s7' \subseteq {"failed"})
  <2>1. SUFFICES ASSUME s1'.at = "ended", s7' \subseteq {"failed"} PROVE FALSE
    OBVIOUS
  <2>2. Runtime!EndingFails /\ s7' = s7 /\ s7 \subseteq {"failed"}
    BY <1>1, <1>3, <1>5, <2>1 DEF Runtime!Fails, Runtime!EndingFails, Runtime!Typed,
       Runtime!Runtimes
  <2>3. /\ s2 \subseteq Runtime!Listed
        /\ s1.at \in {"umount", "rmdir"} => s5.alive = {}
    BY <2>2 DEF Runtime!RuntimeInv, Runtime!Noted, Runtime!Pending, Runtime!EndingFails,
       Runtime!Ending
  <2>4. CASE s1.at = "umount" /\ s3 # <<>> /\ Runtime!Busy(s3[Runtime!NextUmount])
    <3>1. s3 \in Seq(Runtime!Names) /\ Len(s3) \in Nat /\ Len(s3) > 0
          /\ s3[Len(s3)] = "root" /\ (s2 # {"root"} \/ s5.alive # {})
      BY <1>1, <2>4 DEF Runtime!Typed, Runtime!Busy, Runtime!NextUmount
    <3>2. Len(s3) = 1
      <4>1. Len(s3) # 1 => Len(s3) \in 2..Len(s3)
        BY <3>1, PlaceTwo
      <4> QED
        BY <3>1, <4>1 DEF Runtime!RuntimeInv, Runtime!RootLast
    <3>3. Runtime!Listed = {"root"}
      BY <3>1, <3>2 DEF Runtime!Listed
    <3>4. "root" \in s2 /\ s2 = {"root"}
      BY <2>3, <3>3 DEF Runtime!RuntimeInv, Runtime!RootLast
    <3> QED
      BY <2>3, <2>4, <3>1, <3>4
  <2>5. CASE s1.at = "rmdir" /\ s2 # {}
    <3>1. Runtime!Listed = {}
      BY <2>5 DEF Runtime!RuntimeInv, Runtime!NotOver, Runtime!Listed
    <3> QED
      BY <2>3, <2>5, <3>1
  <2>6. s7' # s7 \cup {"ending failed"}
    <3>1. "ending failed" \notin {"failed"}
      OBVIOUS
    <3>2. "ending failed" \notin s7'
      BY <2>1, <3>1, Zenon
    <3>3. "ending failed" \in s7 \cup {"ending failed"}
      BY Zenon
    <3> QED
      BY <3>2, <3>3, Zenon
  <2> QED
    BY <2>2, <2>4, <2>5, <2>6 DEF Runtime!EndingFails
<1>10. Runtime!RemovedIsGone'
  BY <1>1, <1>2, <1>3, <1>9 DEF Runtime!RuntimeInv, Runtime!NotOver,
     Runtime!RemovedIsGone
<1> QED
  BY <1>4, <1>6, <1>7, <1>8, <1>10 DEF Runtime!RuntimeInv

\* The processes that are held are all there are, when nothing interrupted the program.
LEMMA KillAllHolds ==
  ASSUME Runtime!RuntimeInv, Runtime!KillAll
  PROVE  Runtime!RuntimeInv'
<1>1. Runtime!Typed /\ UNCHANGED <<s2, s3, s4, s6, s7>> /\ s1.at = "kill"
  BY DEF Runtime!RuntimeInv, Runtime!KillAll
<1>2. s1' \in Runtime!Runtimes /\ s1'.at = "umount"
  BY <1>1 DEF Runtime!KillAll, Runtime!Typed, Runtime!Runtimes
<1>3. s5' \in [alive : SUBSET Runtime!Names, held : SUBSET Runtime!Names]
      /\ s5'.held = s5.held /\ s5'.alive = s5.alive \ s5.held
  BY <1>1 DEF Runtime!KillAll, Runtime!Typed
<1>4. Runtime!Typed' /\ Runtime!BuiltInOrder' /\ Runtime!RootLast'
  BY <1>1, <1>2, <1>3 DEF Runtime!RuntimeInv, Runtime!Typed, Runtime!BuiltInOrder,
     Runtime!Running, Runtime!RootLast, Runtime!Listed
<1>5. Runtime!Noted'
  BY <1>1, <1>2, <1>3 DEF Runtime!RuntimeInv, Runtime!Noted, Runtime!Pending, Runtime!Listed
<1>6. Runtime!LoopNoted' /\ Runtime!NotOver' /\ Runtime!RemovedIsGone'
  BY <1>1, <1>2 DEF Runtime!RuntimeInv, Runtime!LoopNoted, Runtime!NotOver,
     Runtime!RemovedIsGone
<1> QED
  BY <1>4, <1>5, <1>6 DEF Runtime!RuntimeInv

LEMMA UmountHolds ==
  ASSUME Runtime!RuntimeInv, Runtime!Umount
  PROVE  Runtime!RuntimeInv'
<1> DEFINE last == s3[Len(s3)]
<1>1. Runtime!Typed /\ UNCHANGED <<s1, s4, s5, s6, s7>> /\ s1.at = "umount"
      /\ s3 # <<>> /\ ~Runtime!Busy(last) /\ s2' = s2 \ {last}
  BY DEF Runtime!RuntimeInv, Runtime!Umount, Runtime!NextUmount
<1>2. s3 \in Seq(Runtime!Names) /\ Len(s3) \in Nat /\ Len(s3) > 0
  BY <1>1 DEF Runtime!Typed
<1>3. s3' = SubSeq(s3, 1, Len(s3) - 1)
  BY <1>2 DEF Runtime!Umount, Runtime!RemoveAt, Runtime!NextUmount
<1>4. s3' \in Seq(Runtime!Names) /\ Len(s3') = Len(s3) - 1
      /\ \A k \in 1..Len(s3') : s3'[k] = s3[k]
  BY <1>2, <1>3, AllButLast
<1>5. Runtime!Listed' \subseteq Runtime!Listed
      /\ Runtime!Listed \subseteq Runtime!Listed' \cup {last}
  BY <1>2, <1>4 DEF Runtime!Listed
<1>6. Runtime!RootLast'
  <2>1. CASE last = "root"
    <3>1. s2 = {"root"} /\ s5.alive = {}
      BY <1>1, <2>1 DEF Runtime!Busy
    <3>2. Len(s3) = 1
      <4>1. Len(s3) # 1 => Len(s3) \in 2..Len(s3)
        BY <1>2, PlaceTwo
      <4> QED
        BY <2>1, <4>1 DEF Runtime!RuntimeInv, Runtime!RootLast
    <3>3. Runtime!Listed' = {}
      BY <1>4, <3>2 DEF Runtime!Listed
    <3> QED
      BY <1>1, <1>2, <1>4, <2>1, <3>1, <3>2, <3>3 DEF Runtime!RootLast
  <2>2. CASE last # "root"
    BY <1>1, <1>2, <1>4, <1>5, <2>2 DEF Runtime!RuntimeInv, Runtime!RootLast
  <2> QED
    BY <2>1, <2>2
<1>7. Runtime!Noted'
  BY <1>1, <1>5 DEF Runtime!RuntimeInv, Runtime!Noted, Runtime!Pending
<1>8. Runtime!Typed' /\ Runtime!BuiltInOrder'
  BY <1>1, <1>4 DEF Runtime!Typed, Runtime!BuiltInOrder, Runtime!Running
<1>9. Runtime!LoopNoted' /\ Runtime!NotOver' /\ Runtime!RemovedIsGone'
  BY <1>1 DEF Runtime!RuntimeInv, Runtime!LoopNoted, Runtime!NotOver,
     Runtime!RemovedIsGone
<1> QED
  BY <1>6, <1>7, <1>8, <1>9 DEF Runtime!RuntimeInv

LEMMA UnmountedHolds ==
  ASSUME Runtime!RuntimeInv, Runtime!Unmounted \/ Runtime!Detach
  PROVE  Runtime!RuntimeInv'
<1>1. /\ Runtime!Typed /\ UNCHANGED <<s2, s3, s5, s6, s7>> /\ s3 = <<>>
      /\ s1.at \in {"umount", "detach"}
  BY DEF Runtime!RuntimeInv, Runtime!Unmounted, Runtime!Detach, Runtime!NotOver
<1>2. s1' \in Runtime!Runtimes /\ s1'.at \in {"detach", "rmdir"}
      /\ (s1'.at = "rmdir" => Runtime!Detach)
  BY <1>1 DEF Runtime!Unmounted, Runtime!Detach, Runtime!Typed, Runtime!Runtimes
<1>3. s4' \in [attached : BOOLEAN, held : BOOLEAN]
      /\ (s4'.attached => s4.attached)
      /\ (s4'.attached => (s4'.held \/ "in losetup" \in s7))
      /\ (Runtime!Detach /\ s4'.attached => "in losetup" \in s7)
  <2>1. s4.attached => s4.held \/ "in losetup" \in s7
    BY <1>1 DEF Runtime!RuntimeInv, Runtime!LoopNoted
  <2>2. CASE s4' = s4 /\ (Runtime!Detach => ~s4.held)
    BY <1>1, <2>1, <2>2 DEF Runtime!Typed
  <2>3. CASE s4' = [attached |-> FALSE, held |-> FALSE]
    BY <2>3
  <2> QED
    BY <2>2, <2>3 DEF Runtime!Unmounted, Runtime!Detach
<1>4. Runtime!Typed' /\ Runtime!BuiltInOrder' /\ Runtime!RootLast' /\ Runtime!NotOver'
  BY <1>1, <1>2, <1>3 DEF Runtime!RuntimeInv, Runtime!Typed, Runtime!BuiltInOrder,
     Runtime!Running, Runtime!RootLast, Runtime!Listed, Runtime!NotOver
<1>5. Runtime!Noted' /\ Runtime!LoopNoted'
  <2>1. Runtime!LoopNoted'
    BY <1>1, <1>2, <1>3 DEF Runtime!LoopNoted
  <2>2. s7 \subseteq {"failed"} => s2 \subseteq Runtime!Listed /\ s5.alive = {}
    BY <1>1 DEF Runtime!RuntimeInv, Runtime!Noted, Runtime!Pending
  <2>3. Runtime!Noted'
    BY <1>1, <1>2, <2>2 DEF Runtime!Noted, Runtime!Listed
  <2> QED
    BY <2>1, <2>3
<1>6. Runtime!RemovedIsGone'
  BY <1>2, <1>4 DEF Runtime!NotOver, Runtime!RemovedIsGone
<1> QED
  BY <1>4, <1>5, <1>6 DEF Runtime!RuntimeInv

LEMMA RmdirHolds ==
  ASSUME Runtime!RuntimeInv, Runtime!Rmdir
  PROVE  Runtime!RuntimeInv'
<1>1. Runtime!Typed /\ UNCHANGED <<s2, s3, s4, s5, s7>> /\ s1.at = "rmdir" /\ s2 = {}
  BY DEF Runtime!RuntimeInv, Runtime!Rmdir
<1>2. s1' \in Runtime!Runtimes /\ s1'.at = "ended" /\ s1'.program = s1.program
  BY <1>1 DEF Runtime!Rmdir, Runtime!Typed, Runtime!Runtimes
<1>3. /\ s6' \in Runtime!Verdicts /\ s6'.announced /\ s6'.provider = s6.provider
      /\ s6'.exit = "ok" => (s1.program = "capture" => s6.provider = "ok")
  BY <1>1 DEF Runtime!Rmdir, Runtime!Typed, Runtime!Verdicts
<1>4. s5.alive = {} /\ (s4.attached => "in losetup" \in s7)
  BY <1>1 DEF Runtime!RuntimeInv, Runtime!RootLast, Runtime!LoopNoted
<1>5. Runtime!Typed' /\ Runtime!BuiltInOrder' /\ Runtime!RootLast'
  BY <1>1, <1>2, <1>3 DEF Runtime!RuntimeInv, Runtime!Typed, Runtime!BuiltInOrder,
     Runtime!Running, Runtime!RootLast, Runtime!Listed
<1>6. Runtime!Noted' /\ Runtime!LoopNoted' /\ Runtime!NotOver'
  BY <1>1, <1>2 DEF Runtime!RuntimeInv, Runtime!Noted, Runtime!Pending, Runtime!Listed,
     Runtime!LoopNoted, Runtime!NotOver
<1>7. Runtime!RemovedIsGone'
  BY <1>1, <1>2, <1>3, <1>4 DEF Runtime!RemovedIsGone, Runtime!Removed
<1> QED
  BY <1>5, <1>6, <1>7 DEF Runtime!RuntimeInv

LEMMA RuntimeStepHolds ==
  ASSUME Runtime!RuntimeInv, [Runtime!Next]_slots
  PROVE  Runtime!RuntimeInv'
<1>1. CASE UNCHANGED slots
  <2> UNCHANGED <<s1, s2, s3, s4, s5, s6, s7>>
    BY <1>1 DEF slots
  <2>1. Runtime!Typed' /\ Runtime!BuiltInOrder' /\ Runtime!RootLast'
    BY DEF Runtime!RuntimeInv, Runtime!Typed, Runtime!BuiltInOrder, Runtime!Running,
       Runtime!RootLast, Runtime!Listed
  <2>2. Runtime!Noted'
    BY DEF Runtime!RuntimeInv, Runtime!Noted, Runtime!Pending, Runtime!Listed, Runtime!Stage
  <2>3. Runtime!LoopNoted' /\ Runtime!NotOver' /\ Runtime!RemovedIsGone'
    BY DEF Runtime!RuntimeInv, Runtime!LoopNoted, Runtime!NotOver, Runtime!RemovedIsGone,
       Runtime!Removed, Runtime!Stage
  <2> QED
    BY <2>1, <2>2, <2>3 DEF Runtime!RuntimeInv
<1>2. CASE Runtime!Next
  BY <1>2, RuntimeStartHolds, AcquireHolds, NoteHolds, FinishHolds, ProcessEndsHolds,
     StopHolds, KillAllHolds, UmountHolds, UnmountedHolds, RmdirHolds DEF Runtime!Next
<1> QED
  BY <1>1, <1>2

-----------------------------------------------------------------------------
(* The policy prototypes: s1 the trial's unit, s2 systemd's suspend, s3 the     *)
(* clients, s4 the record, s5 the helpers, s6 what excuses a client.            *)

\* A step of one helper leaves the other's state alone.
OnlyHelper(h) ==
  /\ s5' \in [Trial!Helpers -> Trial!HelperStates]
  /\ \A g \in Trial!Helpers \ {h} : s5'[g] = s5[g]

\* A helper goes on with its job.
HelperGoes(h, at, i) ==
  /\ OnlyHelper(h) /\ s5'[h].at = at /\ s5'[h].i = i
  /\ s5'[h].job = s5[h].job /\ s5'[h].then = s5[h].then /\ s5'[h].failed = s5[h].failed

LEMMA HelperSet ==
  ASSUME s5 \in [Trial!Helpers -> Trial!HelperStates], NEW h \in Trial!Helpers,
         NEW value \in Trial!HelperStates, s5' = [s5 EXCEPT ![h] = value]
  PROVE  OnlyHelper(h) /\ s5'[h] = value
  BY DEF OnlyHelper

LEMMA OneClient ==
  ASSUME Trial!TrialAssumption
  PROVE  1 \in Trial!Clients /\ IsolatedClients \in Trial!Clients
         /\ IsolatedClients \in Nat /\ Trial!Clients \subseteq Nat
  BY DEF Trial!TrialAssumption, Trial!Clients

LEMMA IdleIs ==
  ASSUME Trial!TrialAssumption
  PROVE  /\ Trial!Idle \in Trial!HelperStates /\ Trial!Idle.at = "idle"
         /\ Trial!Idle.job = "none"
         /\ \A job \in Trial!Jobs :
              /\ Trial!Begin(job) \in Trial!HelperStates
              /\ Trial!Begin(job).at = "admit" /\ Trial!Begin(job).job = job
              /\ Trial!Begin(job).i = 1
<1>1. Trial!Idle \in Trial!HelperStates /\ Trial!Idle.at = "idle" /\ Trial!Idle.job = "none"
      /\ Trial!Idle.i = 1
  BY OneClient DEF Trial!Idle, Trial!HelperStates, Trial!Jobs, Trial!Steps
<1> HIDE DEF Trial!Idle
<1>2. ASSUME NEW job \in Trial!Jobs
      PROVE  /\ Trial!Begin(job) \in Trial!HelperStates
             /\ Trial!Begin(job).at = "admit" /\ Trial!Begin(job).job = job
             /\ Trial!Begin(job).i = 1
  BY <1>1 DEF Trial!Begin, Trial!HelperStates, Trial!Steps
<1> QED
  BY <1>1, <1>2

LEMMA HelperGoto ==
  ASSUME Trial!TrialAssumption, Trial!Typed, NEW h \in Trial!Helpers,
         NEW at \in Trial!Steps, Trial!Goto(h, at)
  PROVE  HelperGoes(h, at, 1)
<1> DEFINE value == [s5[h] EXCEPT !.at = at, !.i = 1]
<1>1. s5[h] \in Trial!HelperStates /\ s5 \in [Trial!Helpers -> Trial!HelperStates]
  BY DEF Trial!Typed
<1>2. /\ value \in Trial!HelperStates /\ value.at = at /\ value.i = 1
      /\ value.job = s5[h].job /\ value.then = s5[h].then /\ value.failed = s5[h].failed
  BY <1>1, OneClient DEF Trial!HelperStates
<1>3. s5' = [s5 EXCEPT ![h] = value]
  BY <1>1 DEF Trial!Goto, Trial!HelperStates
<1> HIDE DEF value
<1> QED
  BY <1>1, <1>2, <1>3, HelperSet DEF HelperGoes

LEMMA HelperAt ==
  ASSUME Trial!Typed, NEW h \in Trial!Helpers, NEW at \in Trial!Steps,
         s5' = [s5 EXCEPT ![h].at = at]
  PROVE  HelperGoes(h, at, s5[h].i)
<1> DEFINE value == [s5[h] EXCEPT !.at = at]
<1>1. s5[h] \in Trial!HelperStates /\ s5 \in [Trial!Helpers -> Trial!HelperStates]
  BY DEF Trial!Typed
<1>2. /\ value \in Trial!HelperStates /\ value.at = at /\ value.i = s5[h].i
      /\ value.job = s5[h].job /\ value.then = s5[h].then /\ value.failed = s5[h].failed
  BY <1>1 DEF Trial!HelperStates
<1>3. s5' = [s5 EXCEPT ![h] = value]
  BY <1>1 DEF Trial!HelperStates
<1> HIDE DEF value
<1> QED
  BY <1>1, <1>2, <1>3, HelperSet DEF HelperGoes

LEMMA HelperNext ==
  ASSUME Trial!TrialAssumption, Trial!Typed, NEW h \in Trial!Helpers,
         NEW at \in Trial!Steps, NEW end \in Trial!Steps, Trial!Next1(h, at, end)
  PROVE  HelperGoes(h, end, 1) \/ HelperGoes(h, at, s5[h].i + 1)
<1>1. CASE s5[h].i = IsolatedClients
  BY <1>1, HelperGoto DEF Trial!Next1
<1>2. CASE s5[h].i # IsolatedClients
  <2> DEFINE value == [s5[h] EXCEPT !.at = at, !.i = s5[h].i + 1]
  <2>1. s5[h] \in Trial!HelperStates /\ s5 \in [Trial!Helpers -> Trial!HelperStates]
    BY DEF Trial!Typed
  <2>2. s5[h].i + 1 \in Trial!Clients
    BY <1>2, <2>1, OneClient DEF Trial!HelperStates, Trial!Clients
  <2>3. /\ value \in Trial!HelperStates /\ value.at = at /\ value.i = s5[h].i + 1
        /\ value.job = s5[h].job /\ value.then = s5[h].then /\ value.failed = s5[h].failed
    BY <2>1, <2>2 DEF Trial!HelperStates
  <2>4. s5' = [s5 EXCEPT ![h] = value]
    BY <1>2, <2>1 DEF Trial!Next1, Trial!HelperStates
  <2> HIDE DEF value
  <2> QED
    BY <2>1, <2>3, <2>4, HelperSet DEF HelperGoes
<1> QED
  BY <1>1, <1>2

LEMMA HelperExit ==
  ASSUME Trial!TrialAssumption, Trial!Typed, NEW h \in Trial!Helpers, Trial!Exit(h)
  PROVE  OnlyHelper(h) /\ s5'[h] = Trial!Idle
  BY IdleIs, HelperSet DEF Trial!Typed, Trial!Exit

LEMMA HelperLoaded ==
  ASSUME Trial!TrialAssumption, Trial!Typed, NEW h \in Trial!Helpers,
         NEW then \in {"finally", "unlink"}, Trial!Loaded(h, then), s4 = "full"
  PROVE  /\ OnlyHelper(h) /\ s5'[h].at = "look" /\ s5'[h].then = then
         /\ s5'[h].i = s5[h].i /\ s5'[h].job = s5[h].job
<1> DEFINE value == [s5[h] EXCEPT !.at = "look", !.then = then]
<1>1. s5[h] \in Trial!HelperStates /\ s5 \in [Trial!Helpers -> Trial!HelperStates]
  BY DEF Trial!Typed
<1>2. /\ value \in Trial!HelperStates /\ value.at = "look" /\ value.i = s5[h].i
      /\ value.job = s5[h].job /\ value.then = then
  BY <1>1 DEF Trial!HelperStates, Trial!Steps
<1>3. s5' = [s5 EXCEPT ![h] = value]
  BY <1>1 DEF Trial!Loaded, Trial!HelperStates
<1> HIDE DEF value
<1> QED
  BY <1>1, <1>2, <1>3, HelperSet

LEMMA HelperUndo ==
  ASSUME Trial!TrialAssumption, Trial!Typed, Trial!Undo
  PROVE  /\ OnlyHelper("worker") /\ s5'["worker"].at = "look" /\ s5'["worker"].then = "end"
         /\ s5'["worker"].i = 1 /\ s5'["worker"].job = s5["worker"].job
<1> DEFINE value == [s5["worker"] EXCEPT !.at = "look", !.i = 1, !.then = "end"]
<1>0. "worker" \in Trial!Helpers
  BY DEF Trial!Helpers
<1>1. s5["worker"] \in Trial!HelperStates
      /\ s5 \in [Trial!Helpers -> Trial!HelperStates]
  BY <1>0 DEF Trial!Typed
<1>2. /\ value \in Trial!HelperStates /\ value.at = "look" /\ value.i = 1
      /\ value.job = s5["worker"].job /\ value.then = "end"
  BY <1>1, OneClient DEF Trial!HelperStates, Trial!Steps
<1>3. s5' = [s5 EXCEPT !["worker"] = value]
  BY <1>1 DEF Trial!Undo, Trial!HelperStates
<1> HIDE DEF value
<1> QED
  BY <1>0, <1>1, <1>2, <1>3, HelperSet

\* After a client a helper looks at the next one, or it is through.
LEMMA HelperAfter ==
  ASSUME Trial!TrialAssumption, Trial!Typed, NEW h \in Trial!Helpers,
         NEW failed \in BOOLEAN, Trial!AfterClient(h, failed)
  PROVE  /\ OnlyHelper(h) /\ s5'[h].job = s5[h].job /\ s5'[h].then = s5[h].then
         /\ s5'[h].failed <=> s5[h].failed \/ failed
         /\ \/ s5[h].i # IsolatedClients /\ s5'[h].i = s5[h].i + 1 /\ s5'[h].at = "look"
            \/ /\ s5[h].i = IsolatedClients /\ s5'[h].i = 1
               /\ s5'[h].at = IF s5[h].then = "unlink" /\ (s5[h].failed \/ failed)
                              THEN "end" ELSE s5[h].then
<1>1. s5[h] \in Trial!HelperStates /\ s5 \in [Trial!Helpers -> Trial!HelperStates]
  BY DEF Trial!Typed
<1> DEFINE bad == s5[h].failed \/ failed
           at == IF s5[h].then = "unlink" /\ bad THEN "end" ELSE s5[h].then
<1>2. bad \in BOOLEAN
  BY Zenon
<1>3. at \in {"end", "finally", "unlink"}
  <2>1. s5[h].then \in {"end", "finally", "unlink"}
    BY <1>1 DEF Trial!HelperStates
  <2>2. at = "end" \/ at = s5[h].then
    BY Zenon
  <2> HIDE DEF at
  <2> QED
    BY <2>1, <2>2
<1>4. CASE s5[h].i = IsolatedClients
  <2> DEFINE value == [s5[h] EXCEPT !.i = 1, !.failed = bad, !.at = at]
  <2>1. s5' = [s5 EXCEPT ![h] = value]
    BY <1>1, <1>4 DEF Trial!AfterClient, Trial!HelperStates
  <2> HIDE DEF at, bad
  <2>2. /\ value \in Trial!HelperStates /\ value.at = at /\ value.i = 1
        /\ value.job = s5[h].job /\ value.then = s5[h].then /\ value.failed = bad
    BY <1>1, <1>2, <1>3, OneClient DEF Trial!HelperStates, Trial!Steps, Trial!Isolating
  <2> HIDE DEF value
  <2>3. OnlyHelper(h) /\ s5'[h] = value
    BY <1>1, <2>1, <2>2, HelperSet
  <2> QED
    BY <1>4, <2>2, <2>3 DEF at, bad
<1>5. CASE s5[h].i # IsolatedClients
  <2> DEFINE value == [s5[h] EXCEPT !.i = s5[h].i + 1, !.failed = bad, !.at = "look"]
  <2>1. s5' = [s5 EXCEPT ![h] = value]
    BY <1>1, <1>5 DEF Trial!AfterClient, Trial!HelperStates
  <2>2. s5[h].i + 1 \in Trial!Clients
    BY <1>1, <1>5, OneClient DEF Trial!HelperStates, Trial!Clients
  <2> HIDE DEF at, bad
  <2>3. /\ value \in Trial!HelperStates /\ value.at = "look" /\ value.i = s5[h].i + 1
        /\ value.job = s5[h].job /\ value.then = s5[h].then /\ value.failed = bad
    BY <1>1, <1>2, <2>2 DEF Trial!HelperStates, Trial!Steps
  <2> HIDE DEF value
  <2>4. OnlyHelper(h) /\ s5'[h] = value
    BY <1>1, <2>1, <2>3, HelperSet
  <2> QED
    BY <1>5, <2>3, <2>4 DEF bad
<1> QED
  BY <1>4, <1>5

LEMMA TrialInitHolds ==
  ASSUME Trial!TrialAssumption, Trial!Init
  PROVE  Trial!TrialInv
<1> USE DEF Trial!Init
<1>1. Trial!Typed
  <2>1. s1 \in Trial!Trials
    BY DEF Trial!Trials
  <2>2. s5 \in [Trial!Helpers -> Trial!HelperStates]
    BY IdleIs
  <2> QED
    BY <2>1, <2>2 DEF Trial!Typed
<1>2. Trial!Worker = Trial!Idle /\ Trial!Stopper = Trial!Idle
  BY DEF Trial!Worker, Trial!Stopper, Trial!Helpers
<1>3. Trial!RecordFirst
  BY DEF Trial!RecordFirst
<1>4. Trial!WorkerKnows
  BY <1>2, IdleIs DEF Trial!WorkerKnows, Trial!Isolating
<1>5. Trial!StopperKnows
  BY <1>2, IdleIs DEF Trial!StopperKnows
<1>6. Trial!Owed
  BY <1>2, IdleIs DEF Trial!Owed, Trial!Clean, Trial!Restored
<1> QED
  BY <1>1, <1>3, <1>4, <1>5, <1>6 DEF Trial!TrialInv

\* No client is isolated anew, and none that was restored is lost.
ClientsKeep ==
  /\ s3' \in [Trial!Clients -> {"performance", "powersave", "other"}]
  /\ \A c \in Trial!Clients :
       /\ s3'[c] = "powersave" => s3[c] = "powersave"
       /\ s3'[c] = "other" => s3[c] = "other"
       /\ s3[c] = "performance" => s3'[c] = "performance"

\* The unit is where it was, and nothing is excused anew.
UnitKeeps ==
  /\ s1' \in Trial!Trials /\ s1'.unit = s1.unit /\ s1'.managed = s1.managed
  /\ s2' = s2
  /\ s6' = {} => s6 = {}

\* A step of the worker that isolates no client.
LEMMA WorkerMoves ==
  ASSUME Trial!TrialAssumption, Trial!TrialInv,
         OnlyHelper("worker"), ClientsKeep, UnitKeeps,
         s4' \in {"none", "empty", "full"}, Trial!RecordFirst', Trial!WorkerKnows',
         s5'["worker"].job \in {"none", s5["worker"].job},
         s5["worker"].at = "admit" /\ s5'["worker"].job = "pre" => s1.unit = "active"
  PROVE  Trial!TrialInv'
<1> USE DEF UnitKeeps, ClientsKeep
<1>1. Trial!Typed'
  BY DEF Trial!TrialInv, Trial!Typed, OnlyHelper
<1>2. Trial!Stopper' = Trial!Stopper
  BY DEF OnlyHelper, Trial!Helpers, Trial!Stopper
<1>3. Trial!StopperKnows'
  BY <1>2 DEF Trial!TrialInv, Trial!StopperKnows
<1>4. ASSUME s6' = {}
      PROVE  Trial!Owed'
  <2>1. Trial!Owed
    BY <1>4 DEF Trial!TrialInv
  <2>2. Trial!Clean => Trial!Clean'
    BY DEF Trial!Clean, Trial!Restored
  <2>3. \A c \in Trial!Clients : s3'[c] # "other"
    BY <2>1 DEF Trial!Owed
  <2>4. s1'.unit = "over" \/ ~s1'.managed => Trial!Clean'
    BY <2>1, <2>2, Zenon DEF Trial!Owed
  <2>5. s1'.unit # "active" =>
          /\ s5'["worker"].job # "apply"
          /\ s5'["worker"].job = "pre" => s5'["worker"].at = "admit"
    <3> SUFFICES ASSUME s1'.unit # "active"
                 PROVE  /\ s5'["worker"].job # "apply"
                        /\ s5'["worker"].job = "pre" => s5'["worker"].at = "admit"
      OBVIOUS
    <3> QED
      BY <2>1 DEF Trial!Owed, Trial!Worker
  <2>6. s1'.unit = "stopping" =>
          /\ Trial!Stopper'.at \in {"idle", "finally", "end"} => Trial!Clean'
          /\ Trial!Stopper'.at \in {"look", "rewrite"} =>
               \A c \in 1..(Trial!Stopper'.i - 1) : Trial!Restored(c)'
    <3> SUFFICES ASSUME s1'.unit = "stopping"
                 PROVE  /\ Trial!Stopper'.at \in {"idle", "finally", "end"} => Trial!Clean'
                        /\ Trial!Stopper'.at \in {"look", "rewrite"} =>
                             \A c \in 1..(Trial!Stopper'.i - 1) : Trial!Restored(c)'
      OBVIOUS
    <3>1. Trial!Stopper.at \in {"idle", "finally", "end"} => Trial!Clean
      BY <2>1 DEF Trial!Owed
    <3>2. Trial!Stopper.at \in {"look", "rewrite"} =>
            \A c \in 1..(Trial!Stopper.i - 1) : c \in Trial!Clients /\ Trial!Restored(c)
      <4>1. Trial!Stopper.i \in 1..IsolatedClients
        BY DEF Trial!TrialInv, Trial!Typed, Trial!Stopper, Trial!Helpers,
               Trial!HelperStates, Trial!Clients
      <4> QED
        BY <2>1, <4>1 DEF Trial!Owed, Trial!Clients, Trial!TrialAssumption
    <3> QED
      BY <1>2, <2>2, <3>1, <3>2 DEF Trial!Restored
  <2> QED
    BY <2>3, <2>4, <2>5, <2>6 DEF Trial!Owed, Trial!Worker
<1> QED
  BY <1>1, <1>3, <1>4 DEF Trial!TrialInv

\* A step of ExecStopPost.
LEMMA StopperMoves ==
  ASSUME Trial!TrialAssumption, Trial!TrialInv,
         OnlyHelper("stopper"), ClientsKeep, UnitKeeps, s4' = s4, s1.unit = "stopping",
         Trial!StopperKnows',
         s6' = {} =>
           /\ Trial!Stopper'.at \in {"idle", "finally", "end"} => Trial!Clean'
           /\ Trial!Stopper'.at \in {"look", "rewrite"} =>
                \A c \in 1..(Trial!Stopper'.i - 1) : Trial!Restored(c)'
  PROVE  Trial!TrialInv'
<1> USE DEF UnitKeeps, ClientsKeep
<1>1. Trial!Typed'
  BY DEF Trial!TrialInv, Trial!Typed, OnlyHelper
<1>2. Trial!Worker' = Trial!Worker
  BY DEF OnlyHelper, Trial!Helpers, Trial!Worker
<1>3. Trial!RecordFirst'
  BY DEF Trial!TrialInv, Trial!RecordFirst
<1>4. \A c \in Trial!Clients : Trial!Untouched(c) => Trial!Untouched(c)'
  BY DEF Trial!Untouched
<1>5. Trial!WorkerKnows'
  <2>1. Trial!WorkerKnows
    BY DEF Trial!TrialInv
  <2>2. Trial!Worker.i \in 1..IsolatedClients
    BY DEF Trial!TrialInv, Trial!Typed, Trial!Worker, Trial!Helpers,
           Trial!HelperStates, Trial!Clients
  <2>3. Trial!Worker.at = "unlink" => \A c \in Trial!Clients : Trial!Untouched(c)'
    BY <1>4, <2>1 DEF Trial!WorkerKnows
  <2>4. Trial!Worker.at \in {"look", "rewrite"} /\ Trial!Worker.then = "unlink"
          /\ ~Trial!Worker.failed
          => \A c \in 1..(Trial!Worker.i - 1) : Trial!Untouched(c)'
    <3>1. \A c \in 1..(Trial!Worker.i - 1) : c \in Trial!Clients
      BY <2>2 DEF Trial!Clients, Trial!TrialAssumption
    <3> QED
      BY <1>4, <2>1, <3>1, Zenon DEF Trial!WorkerKnows
  <2> QED
    BY <1>2, <2>1, <2>3, <2>4, Zenon DEF Trial!WorkerKnows
<1>6. ASSUME s6' = {}
      PROVE  Trial!Owed'
  <2>1. Trial!Owed
    BY <1>6 DEF Trial!TrialInv
  <2>2. \A c \in Trial!Clients : s3'[c] # "other"
    BY <2>1 DEF Trial!Owed
  <2>3. s1'.unit = "over" \/ ~s1'.managed => Trial!Clean'
    <3>1. Trial!Clean => Trial!Clean'
      BY DEF Trial!Clean, Trial!Restored
    <3> QED
      BY <2>1, <3>1, Zenon DEF Trial!Owed
  <2> QED
    BY <1>2, <1>6, <2>1, <2>2, <2>3 DEF Trial!Owed
<1> QED
  BY <1>1, <1>3, <1>5, <1>6 DEF Trial!TrialInv

\* A step that moves a helper and nothing else.
LEMMA StillKeeps ==
  ASSUME Trial!TrialInv, s1' = s1, s2' = s2, s3' = s3, s6' = s6
  PROVE  ClientsKeep /\ UnitKeeps
  BY DEF ClientsKeep, UnitKeeps, Trial!TrialInv, Trial!Typed

LEMMA WorkerExits ==
  ASSUME Trial!TrialAssumption, Trial!TrialInv, Trial!Exit("worker"),
         ClientsKeep, UnitKeeps, s4' \in {"none", "empty", "full"}, Trial!RecordFirst'
  PROVE  Trial!TrialInv'
<1>0. "worker" \in Trial!Helpers
  BY DEF Trial!Helpers
<1>1. OnlyHelper("worker") /\ s5'["worker"] = Trial!Idle
  BY <1>0, HelperExit DEF Trial!TrialInv
<1>2. Trial!WorkerKnows'
  BY <1>1, IdleIs DEF Trial!WorkerKnows, Trial!Worker, Trial!Isolating
<1> QED
  BY <1>1, <1>2, IdleIs, WorkerMoves

\* The worker goes on, and what it is to know there holds.
LEMMA WorkerGoes ==
  ASSUME Trial!TrialAssumption, Trial!TrialInv, NEW at \in Trial!Steps, NEW i,
         HelperGoes("worker", at, i), ClientsKeep, UnitKeeps,
         s4' \in {"none", "empty", "full"}, Trial!RecordFirst',
         at \notin {"admit", "idle", "look"},
         s5["worker"].at = "admit" /\ s5["worker"].job = "pre" => s1.unit = "active",
         s5["worker"].job \in {"apply", "pre"} => s1.managed,
         at = "save" => s4' = "empty",
         at \in {"write", "confirm"} => s4' = "full",
         at = "unlink" => \A c \in Trial!Clients : Trial!Untouched(c)',
         at = "rewrite" /\ s5["worker"].then = "unlink" /\ ~s5["worker"].failed =>
           \A c \in 1..(i - 1) : Trial!Untouched(c)',
         at = "rewrite" /\ s5["worker"].then = "unlink" => s5["worker"].job = "pre",
         at \in Trial!Isolating => s5["worker"].job \in {"apply", "pre"}
  PROVE  Trial!TrialInv'
<1>1. /\ s5'["worker"].at = at /\ s5'["worker"].i = i
      /\ s5'["worker"].job = s5["worker"].job /\ s5'["worker"].then = s5["worker"].then
      /\ s5'["worker"].failed = s5["worker"].failed
  BY DEF HelperGoes
<1>2. s1'.managed = s1.managed
  BY DEF UnitKeeps
<1>3. Trial!WorkerKnows'
  <2>1. Trial!Worker'.at = "save" => s4' = "empty"
    BY <1>1 DEF Trial!Worker
  <2>2. Trial!Worker'.at \in {"write", "confirm"} => s4' = "full"
    BY <1>1 DEF Trial!Worker
  <2>3. Trial!Worker'.at = "unlink" => \A c \in Trial!Clients : Trial!Untouched(c)'
    BY <1>1 DEF Trial!Worker
  <2>4. Trial!Worker'.at \in {"look", "rewrite"} /\ Trial!Worker'.then = "unlink"
          /\ ~Trial!Worker'.failed
          => \A c \in 1..(Trial!Worker'.i - 1) : Trial!Untouched(c)'
    BY <1>1 DEF Trial!Worker
  <2>5. /\ Trial!Worker'.at = "admit" => Trial!Worker'.i = 1
        /\ Trial!Worker'.at \in Trial!Isolating => Trial!Worker'.job \in {"apply", "pre"}
        /\ Trial!Worker'.at = "idle" => Trial!Worker'.job = "none"
    BY <1>1 DEF Trial!Worker
  <2>6. Trial!Worker'.job \in {"apply", "pre"} /\ Trial!Worker'.at # "admit"
          => s1'.managed
    BY <1>1, <1>2, Zenon DEF Trial!Worker
  <2>7. Trial!Worker'.at \in {"look", "rewrite"} /\ Trial!Worker'.then = "unlink"
          => Trial!Worker'.job = "pre"
    BY <1>1 DEF Trial!Worker
  <2> QED
    BY <2>1, <2>2, <2>3, <2>4, <2>5, <2>6, <2>7, Zenon DEF Trial!WorkerKnows
<1> QED
  BY <1>1, <1>3, WorkerMoves DEF HelperGoes

\* A worker past its admission is let in by a unit that restores.
LEMMA WorkerManaged ==
  ASSUME Trial!TrialInv, s5["worker"].at # "admit", s5["worker"].job \in {"apply", "pre"}
  PROVE  s1.managed
  BY Zenon DEF Trial!TrialInv, Trial!WorkerKnows, Trial!Worker

LEMMA AdmitApplyHolds ==
  ASSUME Trial!TrialAssumption, Trial!TrialInv, Trial!AdmitApply
  PROVE  Trial!TrialInv'
<1>1. s1' = s1 /\ s2' = s2 /\ s3' = s3 /\ s4' = s4 /\ s6' = s6
      /\ s5["worker"].job = "apply"
  BY DEF Trial!AdmitApply
<1>2. ClientsKeep /\ UnitKeeps /\ s4' \in {"none", "empty", "full"} /\ Trial!RecordFirst'
  BY <1>1, StillKeeps DEF Trial!TrialInv, Trial!Typed, Trial!RecordFirst
<1>3. CASE Trial!VerifyManaged /\ Trial!Goto("worker", "inspect")
  <2>1. HelperGoes("worker", "inspect", 1)
    BY <1>3, HelperGoto DEF Trial!TrialInv, Trial!Helpers, Trial!Steps, Trial!Isolating
  <2>2. s1.managed
    BY <1>3 DEF Trial!VerifyManaged
  <2> QED
    BY <1>1, <1>2, <2>1, <2>2, WorkerGoes DEF Trial!Steps, Trial!Isolating
<1>4. CASE Trial!Exit("worker")
  BY <1>2, <1>4, WorkerExits
<1> QED
  BY <1>3, <1>4 DEF Trial!AdmitApply

LEMMA AdmitPreHolds ==
  ASSUME Trial!TrialAssumption, Trial!TrialInv, Trial!AdmitPre
  PROVE  Trial!TrialInv'
<1>0. "worker" \in Trial!Helpers
  BY DEF Trial!Helpers
<1>1. s1' = s1 /\ s2' = s2 /\ s3' = s3 /\ s4' = s4 /\ s6' = s6
      /\ s5["worker"].job = "pre" /\ s5["worker"].at = "admit"
  BY DEF Trial!AdmitPre, Trial!At
<1>2. ClientsKeep /\ UnitKeeps /\ s4' \in {"none", "empty", "full"} /\ Trial!RecordFirst'
  BY <1>1, StillKeeps DEF Trial!TrialInv, Trial!Typed, Trial!RecordFirst
<1>3. CASE Trial!Exit("worker")
  BY <1>2, <1>3, WorkerExits
<1>4. CASE Trial!VerifyManaged /\ s4 = "none" /\ Trial!Goto("worker", "inspect")
  <2>1. HelperGoes("worker", "inspect", 1)
    BY <1>4, HelperGoto DEF Trial!TrialInv, Trial!Helpers, Trial!Steps, Trial!Isolating
  <2>2. s1.managed
    BY <1>4 DEF Trial!VerifyManaged
  <2>3. s1.unit = "active"
    BY <1>4 DEF Trial!VerifyManaged
  <2> QED
    BY <1>1, <1>2, <2>1, <2>2, <2>3, WorkerGoes DEF Trial!Steps, Trial!Isolating
<1>5. CASE Trial!VerifyManaged /\ s4 = "full" /\ Trial!Loaded("worker", "unlink")
  <2>1. /\ OnlyHelper("worker") /\ s5'["worker"].at = "look"
        /\ s5'["worker"].then = "unlink" /\ s5'["worker"].i = s5["worker"].i
        /\ s5'["worker"].job = "pre"
    BY <1>0, <1>1, <1>5, HelperLoaded DEF Trial!TrialInv
  <2>2. s5["worker"].i = 1
    BY <1>1 DEF Trial!TrialInv, Trial!WorkerKnows, Trial!Worker
  <2>3. s1'.managed
    BY <1>1, <1>5 DEF Trial!VerifyManaged
  <2>4. s1.unit = "active"
    BY <1>5 DEF Trial!VerifyManaged
  <2>5. \A c \in 1..(s5'["worker"].i - 1) : FALSE
    BY <2>1, <2>2
  <2>6. Trial!WorkerKnows'
    BY <2>1, <2>3, <2>5 DEF Trial!WorkerKnows, Trial!Worker, Trial!Isolating
  <2> QED
    BY <1>1, <1>2, <2>1, <2>4, <2>6, WorkerMoves
<1> QED
  BY <1>1, <1>3, <1>4, <1>5 DEF Trial!AdmitPre, Trial!Loaded

LEMMA WorkerRestores ==
  ASSUME Trial!TrialAssumption, Trial!TrialInv, Trial!AdmitRestore("worker")
  PROVE  Trial!TrialInv'
<1>0. "worker" \in Trial!Helpers
  BY DEF Trial!Helpers
<1>1. s1' = s1 /\ s2' = s2 /\ s3' = s3 /\ s4' = s4 /\ s6' = s6
      /\ s5["worker"].job \in {"post", "restore"} /\ s5["worker"].at = "admit"
  BY DEF Trial!AdmitRestore, Trial!At
<1>2. ClientsKeep /\ UnitKeeps /\ s4' \in {"none", "empty", "full"} /\ Trial!RecordFirst'
  BY <1>1, StillKeeps DEF Trial!TrialInv, Trial!Typed, Trial!RecordFirst
<1>3. CASE s4 = "full" /\ Trial!Loaded("worker", "finally")
  <2>1. /\ OnlyHelper("worker") /\ s5'["worker"].at = "look"
        /\ s5'["worker"].then = "finally" /\ s5'["worker"].job = s5["worker"].job
    BY <1>0, <1>3, HelperLoaded DEF Trial!TrialInv
  <2>2. Trial!WorkerKnows'
    BY <1>1, <2>1 DEF Trial!WorkerKnows, Trial!Worker, Trial!Isolating
  <2> QED
    BY <1>1, <1>2, <2>1, <2>2, WorkerMoves
<1>4. CASE Trial!Goto("worker", "finally")
  <2>1. HelperGoes("worker", "finally", 1)
    BY <1>0, <1>4, HelperGoto DEF Trial!TrialInv, Trial!Steps
  <2> QED
    BY <1>1, <1>2, <2>1, WorkerGoes DEF Trial!Steps, Trial!Isolating
<1> QED
  BY <1>3, <1>4 DEF Trial!AdmitRestore

\* What the worker knows where it isolates.
LEMMA IsolatingKnows ==
  ASSUME Trial!TrialInv, s5["worker"].at \in Trial!Isolating
  PROVE  /\ s5["worker"].at # "admit"
         /\ s5["worker"].job \in {"apply", "pre"}
         /\ s1.managed
         /\ s5["worker"].at = "save" => s4 = "empty"
         /\ s5["worker"].at \in {"write", "confirm"} => s4 = "full"
         /\ s5["worker"].at = "unlink" => \A c \in Trial!Clients : Trial!Untouched(c)
<1>1. Trial!WorkerKnows
  BY DEF Trial!TrialInv
<1>2. s5["worker"].at # "admit"
  BY DEF Trial!Isolating
<1>3. s5["worker"].job \in {"apply", "pre"}
  BY <1>1 DEF Trial!WorkerKnows, Trial!Worker
<1> QED
  BY <1>1, <1>2, <1>3, WorkerManaged DEF Trial!WorkerKnows, Trial!Worker

LEMMA InspectHolds ==
  ASSUME Trial!TrialAssumption, Trial!TrialInv, Trial!Inspect
  PROVE  Trial!TrialInv'
<1>0. "worker" \in Trial!Helpers
  BY DEF Trial!Helpers
<1>1. s1' = s1 /\ s2' = s2 /\ s3' = s3 /\ s4' = s4 /\ s6' = s6
      /\ s5["worker"].at = "inspect"
  BY DEF Trial!Inspect, Trial!At
<1>2. ClientsKeep /\ UnitKeeps /\ s4' \in {"none", "empty", "full"} /\ Trial!RecordFirst'
  BY <1>1, StillKeeps DEF Trial!TrialInv, Trial!Typed, Trial!RecordFirst
<1>3. s5["worker"].at # "admit" /\ s5["worker"].job \in {"apply", "pre"} /\ s1.managed
  BY <1>1, IsolatingKnows DEF Trial!Isolating
<1>4. CASE Trial!Exit("worker")
  BY <1>2, <1>4, WorkerExits
<1>5. CASE Trial!Next1("worker", "inspect", "create")
  <2>1. "inspect" \in Trial!Steps /\ "create" \in Trial!Steps
    BY DEF Trial!Steps, Trial!Isolating
  <2>2. HelperGoes("worker", "create", 1)
        \/ HelperGoes("worker", "inspect", s5["worker"].i + 1)
    BY <1>0, <1>5, <2>1, HelperNext DEF Trial!TrialInv
  <2>3. CASE HelperGoes("worker", "create", 1)
    BY <1>2, <1>3, <2>1, <2>3, WorkerGoes
  <2>4. CASE HelperGoes("worker", "inspect", s5["worker"].i + 1)
    BY <1>2, <1>3, <2>1, <2>4, WorkerGoes
  <2> QED
    BY <2>2, <2>3, <2>4
<1> QED
  BY <1>4, <1>5 DEF Trial!Inspect

LEMMA CreateHolds ==
  ASSUME Trial!TrialAssumption, Trial!TrialInv, Trial!Create
  PROVE  Trial!TrialInv'
<1>0. "worker" \in Trial!Helpers
  BY DEF Trial!Helpers
<1>1. s1' = s1 /\ s2' = s2 /\ s3' = s3 /\ s6' = s6 /\ s5["worker"].at = "create"
  BY DEF Trial!Create, Trial!At
<1>2. ClientsKeep /\ UnitKeeps
  BY <1>1, StillKeeps
<1>3. s5["worker"].at # "admit" /\ s5["worker"].job \in {"apply", "pre"} /\ s1.managed
  BY <1>1, IsolatingKnows DEF Trial!Isolating
<1>4. CASE s4 = "none" /\ s4' = "empty" /\ Trial!Goto("worker", "save")
  <2>1. "save" \in Trial!Steps
    BY DEF Trial!Steps, Trial!Isolating
  <2>2. HelperGoes("worker", "save", 1)
    BY <1>0, <1>4, <2>1, HelperGoto DEF Trial!TrialInv
  <2>3. Trial!RecordFirst'
    BY <1>1, <1>4 DEF Trial!TrialInv, Trial!RecordFirst
  <2> QED
    BY <1>2, <1>3, <1>4, <2>1, <2>2, <2>3, WorkerGoes
<1>5. CASE s4' = s4 /\ Trial!Exit("worker")
  <2>1. Trial!RecordFirst' /\ s4' \in {"none", "empty", "full"}
    BY <1>1, <1>5 DEF Trial!TrialInv, Trial!Typed, Trial!RecordFirst
  <2> QED
    BY <1>2, <1>5, <2>1, WorkerExits
<1> QED
  BY <1>4, <1>5 DEF Trial!Create

LEMMA SaveHolds ==
  ASSUME Trial!TrialAssumption, Trial!TrialInv, Trial!Save
  PROVE  Trial!TrialInv'
<1>0. "worker" \in Trial!Helpers
  BY DEF Trial!Helpers
<1>1. s1' = s1 /\ s2' = s2 /\ s3' = s3 /\ s6' = s6 /\ s5["worker"].at = "save"
  BY DEF Trial!Save, Trial!At
<1>2. ClientsKeep /\ UnitKeeps
  BY <1>1, StillKeeps
<1>3. s5["worker"].at # "admit" /\ s5["worker"].job \in {"apply", "pre"} /\ s1.managed
      /\ s4 = "empty"
  BY <1>1, IsolatingKnows DEF Trial!Isolating
<1>4. Trial!RecordFirst'
  BY <1>1, <1>3 DEF Trial!TrialInv, Trial!RecordFirst
<1>5. CASE s4' = "full" /\ Trial!Goto("worker", "write")
  <2>1. "write" \in Trial!Steps
    BY DEF Trial!Steps, Trial!Isolating
  <2>2. HelperGoes("worker", "write", 1)
    BY <1>0, <1>5, <2>1, HelperGoto DEF Trial!TrialInv
  <2> QED
    BY <1>2, <1>3, <1>4, <1>5, <2>1, <2>2, WorkerGoes
<1>6. CASE s4' \in {"empty", "full"} /\ Trial!Exit("worker")
  BY <1>2, <1>4, <1>6, WorkerExits
<1> QED
  BY <1>5, <1>6 DEF Trial!Save

LEMMA UnlinkHolds ==
  ASSUME Trial!TrialAssumption, Trial!TrialInv, Trial!Unlink
  PROVE  Trial!TrialInv'
<1>0. "worker" \in Trial!Helpers
  BY DEF Trial!Helpers
<1>1. s1' = s1 /\ s2' = s2 /\ s3' = s3 /\ s6' = s6 /\ s5["worker"].at = "unlink"
      /\ s4' = "none" /\ Trial!Goto("worker", "inspect")
  BY DEF Trial!Unlink, Trial!At
<1>2. ClientsKeep /\ UnitKeeps
  BY <1>1, StillKeeps
<1>3. s5["worker"].at # "admit" /\ s5["worker"].job \in {"apply", "pre"} /\ s1.managed
      /\ \A c \in Trial!Clients : Trial!Untouched(c)
  BY <1>1, IsolatingKnows DEF Trial!Isolating
<1>4. Trial!RecordFirst'
  BY <1>1, <1>3 DEF Trial!RecordFirst, Trial!Untouched
<1>5. "inspect" \in Trial!Steps
  BY DEF Trial!Steps, Trial!Isolating
<1>6. HelperGoes("worker", "inspect", 1)
  BY <1>0, <1>1, <1>5, HelperGoto DEF Trial!TrialInv
<1> QED
  BY <1>1, <1>2, <1>3, <1>4, <1>5, <1>6, WorkerGoes

\* The worker turns to restoring what it isolated.
LEMMA WorkerUndoes ==
  ASSUME Trial!TrialAssumption, Trial!TrialInv, Trial!Undo, ClientsKeep, UnitKeeps,
         s4' = s4, s5["worker"].at \in Trial!Isolating
  PROVE  Trial!TrialInv'
<1>1. /\ OnlyHelper("worker") /\ s5'["worker"].at = "look" /\ s5'["worker"].then = "end"
      /\ s5'["worker"].job = s5["worker"].job
  BY HelperUndo DEF Trial!TrialInv
<1>2. s5["worker"].at # "admit" /\ s1'.managed
  BY IsolatingKnows DEF UnitKeeps
<1>3. Trial!WorkerKnows'
  BY <1>1, <1>2 DEF Trial!WorkerKnows, Trial!Worker, Trial!Isolating
<1>4. Trial!RecordFirst' /\ s4' \in {"none", "empty", "full"}
  BY DEF Trial!TrialInv, Trial!Typed, Trial!RecordFirst, ClientsKeep
<1> QED
  BY <1>1, <1>2, <1>3, <1>4, WorkerMoves

LEMMA ConfirmHolds ==
  ASSUME Trial!TrialAssumption, Trial!TrialInv, Trial!Confirm
  PROVE  Trial!TrialInv'
<1>0. "worker" \in Trial!Helpers
  BY DEF Trial!Helpers
<1>1. s1' = s1 /\ s2' = s2 /\ s3' = s3 /\ s4' = s4 /\ s6' = s6
      /\ s5["worker"].at = "confirm"
  BY DEF Trial!Confirm, Trial!At
<1>2. ClientsKeep /\ UnitKeeps /\ s4' \in {"none", "empty", "full"} /\ Trial!RecordFirst'
  BY <1>1, StillKeeps DEF Trial!TrialInv, Trial!Typed, Trial!RecordFirst
<1>3. s5["worker"].at # "admit" /\ s5["worker"].job \in {"apply", "pre"} /\ s1.managed
      /\ s4' = "full"
  BY <1>1, IsolatingKnows DEF Trial!Isolating
<1>4. CASE Trial!Undo
  BY <1>1, <1>2, <1>4, WorkerUndoes DEF Trial!Isolating
<1>5. CASE Trial!Next1("worker", "write", "end")
  <2>1. "write" \in Trial!Steps /\ "end" \in Trial!Steps /\ "end" \notin Trial!Isolating
    BY DEF Trial!Steps, Trial!Isolating
  <2>2. HelperGoes("worker", "end", 1)
        \/ HelperGoes("worker", "write", s5["worker"].i + 1)
    BY <1>0, <1>5, <2>1, HelperNext DEF Trial!TrialInv
  <2>3. CASE HelperGoes("worker", "end", 1)
    BY <1>2, <1>3, <2>1, <2>3, WorkerGoes
  <2>4. CASE HelperGoes("worker", "write", s5["worker"].i + 1)
    BY <1>2, <1>3, <2>1, <2>4, WorkerGoes
  <2> QED
    BY <2>2, <2>3, <2>4
<1> QED
  BY <1>4, <1>5 DEF Trial!Confirm

\* A client is isolated only under a unit that is active and will restore it.
LEMMA IsolateHolds ==
  ASSUME Trial!TrialAssumption, Trial!TrialInv, Trial!Write
  PROVE  Trial!TrialInv'
<1>0. "worker" \in Trial!Helpers /\ "confirm" \in Trial!Steps
  BY DEF Trial!Helpers, Trial!Steps, Trial!Isolating
<1>1. s1' = s1 /\ s2' = s2 /\ s4' = s4 /\ s6' = s6 /\ s5["worker"].at = "write"
  BY DEF Trial!Write, Trial!At
<1>2. s5["worker"].at # "admit" /\ s5["worker"].job \in {"apply", "pre"} /\ s1.managed
      /\ s4' = "full"
  BY <1>1, IsolatingKnows DEF Trial!Isolating
<1>3. CASE s3' = s3 /\ Trial!Undo
  BY <1>1, <1>3, StillKeeps, WorkerUndoes DEF Trial!Isolating
<1>4. CASE /\ s3' = [s3 EXCEPT ![s5["worker"].i] = "powersave"]
           /\ s5' = [s5 EXCEPT !["worker"].at = "confirm"] \/ Trial!Undo
  <2>1. /\ OnlyHelper("worker")
        /\ \/ s5'["worker"].at = "confirm"
           \/ s5'["worker"].at = "look" /\ s5'["worker"].then = "end"
        /\ s5'["worker"].job = s5["worker"].job
    BY <1>0, <1>4, HelperAt, HelperUndo DEF Trial!TrialInv, HelperGoes
  <2>2. s3' \in [Trial!Clients -> {"performance", "powersave", "other"}]
        /\ \A c \in Trial!Clients : s3'[c] \in {s3[c], "powersave"}
    BY <1>4 DEF Trial!TrialInv, Trial!Typed
  <2>3. Trial!Typed'
    BY <1>1, <2>1, <2>2 DEF Trial!TrialInv, Trial!Typed, OnlyHelper
  <2>4. Trial!RecordFirst'
    BY <1>2 DEF Trial!RecordFirst
  <2>5. Trial!WorkerKnows'
    <3>1. s1'.managed
      BY <1>1, <1>2
    <3> QED
      BY <1>2, <2>1, <3>1 DEF Trial!WorkerKnows, Trial!Worker, Trial!Isolating
  <2>6. Trial!StopperKnows'
    BY <1>1, <2>1 DEF Trial!TrialInv, Trial!StopperKnows, Trial!Stopper, OnlyHelper,
                      Trial!Helpers
  <2>7. ASSUME s6' = {}
        PROVE  Trial!Owed'
    <3>1. Trial!Owed
      BY <1>1, <2>7 DEF Trial!TrialInv
    <3>2. s1'.unit = "active" /\ s1'.managed
      BY <1>1, <1>2, <3>1 DEF Trial!Owed, Trial!Worker
    <3>3. \A c \in Trial!Clients : s3'[c] # "other"
      BY <2>2, <3>1 DEF Trial!Owed
    <3>4. s1'.unit # "over" /\ s1'.unit # "stopping"
      BY <3>2
    <3> QED
      BY <3>2, <3>3, <3>4, Zenon DEF Trial!Owed
  <2> QED
    BY <2>3, <2>4, <2>5, <2>6, <2>7 DEF Trial!TrialInv
<1> QED
  BY <1>3, <1>4 DEF Trial!Write

\* After a client the worker keeps what it knows of those before it.
LEMMA WorkerAfter ==
  ASSUME Trial!TrialAssumption, Trial!TrialInv, NEW failed \in BOOLEAN,
         Trial!AfterClient("worker", failed), ClientsKeep, UnitKeeps, s4' = s4,
         s5["worker"].at \in {"look", "rewrite"},
         ~failed => s3'[s5["worker"].i] # "powersave"
  PROVE  Trial!TrialInv'
<1>0. "worker" \in Trial!Helpers
  BY DEF Trial!Helpers
<1>1. /\ OnlyHelper("worker") /\ s5'["worker"].job = s5["worker"].job
      /\ s5'["worker"].then = s5["worker"].then
      /\ s5'["worker"].failed <=> s5["worker"].failed \/ failed
      /\ \/ /\ s5["worker"].i # IsolatedClients /\ s5'["worker"].i = s5["worker"].i + 1
            /\ s5'["worker"].at = "look"
         \/ /\ s5["worker"].i = IsolatedClients /\ s5'["worker"].i = 1
            /\ s5'["worker"].at =
                 IF s5["worker"].then = "unlink" /\ (s5["worker"].failed \/ failed)
                 THEN "end" ELSE s5["worker"].then
  BY <1>0, HelperAfter, Zenon DEF Trial!TrialInv
<1>2. s5["worker"].i \in 1..IsolatedClients /\ IsolatedClients \in Nat
      /\ s5["worker"].then \in {"end", "finally", "unlink"}
  BY <1>0 DEF Trial!TrialInv, Trial!Typed, Trial!HelperStates, Trial!Clients,
              Trial!TrialAssumption
<1>3. Trial!WorkerKnows
  BY DEF Trial!TrialInv
<1>4. ASSUME s5["worker"].then = "unlink", ~s5["worker"].failed, ~failed,
             NEW c \in 1..s5["worker"].i
      PROVE  Trial!Untouched(c)'
  <2>1. c \in Trial!Clients /\ (c = s5["worker"].i \/ c \in 1..(s5["worker"].i - 1))
    BY <1>2 DEF Trial!Clients
  <2>2. c \in 1..(s5["worker"].i - 1) => Trial!Untouched(c)
    <3>1. \A k \in 1..(s5["worker"].i - 1) : Trial!Untouched(k)
      BY <1>3, <1>4, Zenon DEF Trial!WorkerKnows, Trial!Worker
    <3> QED
      BY <3>1
  <2>3. Trial!Untouched(c) => Trial!Untouched(c)'
    BY <2>1 DEF Trial!Untouched, ClientsKeep
  <2>4. CASE c = s5["worker"].i
    BY <1>4, <2>4 DEF Trial!Untouched
  <2>5. CASE c \in 1..(s5["worker"].i - 1)
    BY <2>2, <2>3, <2>5
  <2> QED
    BY <2>1, <2>4, <2>5
<1>5. s5'["worker"].at = "unlink" => \A c \in Trial!Clients : Trial!Untouched(c)'
  <2> SUFFICES ASSUME s5'["worker"].at = "unlink", NEW c \in Trial!Clients
               PROVE  Trial!Untouched(c)'
    OBVIOUS
  <2>1. s5["worker"].i = IsolatedClients
    BY <1>1
  <2>2. s5["worker"].then = "unlink" /\ ~(s5["worker"].failed \/ failed)
    BY <1>1, <1>2, <2>1
  <2>3. c \in 1..s5["worker"].i
    BY <2>1 DEF Trial!Clients
  <2> QED
    BY <1>4, <2>2, <2>3
<1>6. s5'["worker"].at = "look" /\ s5'["worker"].then = "unlink"
        /\ ~s5'["worker"].failed
        => \A c \in 1..(s5'["worker"].i - 1) : Trial!Untouched(c)'
  <2> SUFFICES ASSUME s5'["worker"].then = "unlink", ~s5'["worker"].failed,
                      NEW c \in 1..(s5'["worker"].i - 1)
               PROVE  Trial!Untouched(c)'
    BY Zenon
  <2>1. s5["worker"].then = "unlink" /\ ~s5["worker"].failed /\ ~failed
    BY <1>1
  <2>2. c \in 1..s5["worker"].i
    BY <1>1, <1>2
  <2> QED
    BY <1>4, <2>1, <2>2
<1>7. s5'["worker"].at \in {"look", "end", "finally", "unlink"}
  BY <1>1, <1>2
<1>8. s5'["worker"].job \in {"apply", "pre"} => s1'.managed
  BY <1>1, WorkerManaged DEF UnitKeeps
<1>9. s5'["worker"].then = "unlink" => s5'["worker"].job = "pre"
  BY <1>1, <1>3 DEF Trial!WorkerKnows, Trial!Worker
<1>10. Trial!WorkerKnows'
  <2>1. /\ s5'["worker"].at \notin {"save", "write", "confirm", "rewrite", "admit", "idle"}
        /\ s5'["worker"].at \in Trial!Isolating => s5'["worker"].at = "unlink"
    BY <1>7 DEF Trial!Isolating
  <2>2. /\ s5'["worker"].at \in Trial!Isolating => s5'["worker"].job \in {"apply", "pre"}
        /\ s5'["worker"].at \in {"look", "rewrite"} => s5'["worker"].at = "look"
    BY <1>1, <1>2, <1>7, <1>9 DEF Trial!Isolating
  <2> QED
    BY <1>5, <1>6, <1>8, <1>9, <2>1, <2>2, Zenon DEF Trial!WorkerKnows, Trial!Worker
<1>11. Trial!RecordFirst' /\ s4' \in {"none", "empty", "full"}
  BY DEF Trial!TrialInv, Trial!Typed, Trial!RecordFirst, ClientsKeep
<1> QED
  BY <1>1, <1>10, <1>11, WorkerMoves

LEMMA WorkerLooks ==
  ASSUME Trial!TrialAssumption, Trial!TrialInv, Trial!Look("worker")
  PROVE  Trial!TrialInv'
<1>0. "worker" \in Trial!Helpers
  BY DEF Trial!Helpers
<1>1. s1' = s1 /\ s2' = s2 /\ s3' = s3 /\ s4' = s4 /\ s6' = s6
      /\ s5["worker"].at = "look"
  BY DEF Trial!Look, Trial!At
<1>2. ClientsKeep /\ UnitKeeps /\ s4' \in {"none", "empty", "full"} /\ Trial!RecordFirst'
  BY <1>1, StillKeeps DEF Trial!TrialInv, Trial!Typed, Trial!RecordFirst
<1>3. CASE s3[s5["worker"].i] = "performance" /\ Trial!AfterClient("worker", FALSE)
  BY <1>1, <1>2, <1>3, WorkerAfter
<1>4. CASE Trial!AfterClient("worker", TRUE)
  BY <1>1, <1>2, <1>4, WorkerAfter
<1>5. CASE s5' = [s5 EXCEPT !["worker"].at = "rewrite"]
  <2>1. "rewrite" \in Trial!Steps /\ "rewrite" \notin Trial!Isolating
    BY DEF Trial!Steps, Trial!Isolating
  <2>2. HelperGoes("worker", "rewrite", s5["worker"].i)
    BY <1>0, <1>5, <2>1, HelperAt DEF Trial!TrialInv
  <2>3. Trial!WorkerKnows
    BY DEF Trial!TrialInv
  <2>4. s5["worker"].then = "unlink" => s5["worker"].job = "pre"
    BY <1>1, <2>3 DEF Trial!WorkerKnows, Trial!Worker
  <2>5. s5["worker"].then = "unlink" /\ ~s5["worker"].failed =>
          \A c \in 1..(s5["worker"].i - 1) : Trial!Untouched(c)'
    <3>1. s5["worker"].then = "unlink" /\ ~s5["worker"].failed =>
            \A c \in 1..(s5["worker"].i - 1) : Trial!Untouched(c)
      BY <1>1, <2>3 DEF Trial!WorkerKnows, Trial!Worker
    <3> QED
      BY <1>1, <3>1 DEF Trial!Untouched
  <2>6. s5["worker"].job \in {"apply", "pre"} => s1.managed
    BY <1>1, WorkerManaged
  <2> QED
    BY <1>1, <1>2, <2>1, <2>2, <2>4, <2>5, <2>6, WorkerGoes
<1> QED
  BY <1>3, <1>4, <1>5 DEF Trial!Look

\* A client that is put back.
LEMMA PutBack ==
  ASSUME Trial!TrialInv, NEW h \in Trial!Helpers, s1' = s1, s2' = s2, s6' = s6,
         s3' = [s3 EXCEPT ![s5[h].i] = "performance"]
  PROVE  ClientsKeep /\ UnitKeeps /\ s3'[s5[h].i] = "performance"
<1>1. s5[h].i \in Trial!Clients
  BY DEF Trial!TrialInv, Trial!Typed, Trial!HelperStates
<1> QED
  BY <1>1 DEF ClientsKeep, UnitKeeps, Trial!TrialInv, Trial!Typed

\* A write that fails is an excuse.
LEMMA WriteFails ==
  ASSUME Trial!TrialInv, s1' = s1, s2' = s2, s3' = s3, s6' = s6 \cup {"write"}
  PROVE  ClientsKeep /\ UnitKeeps /\ s6' # {}
  BY DEF ClientsKeep, UnitKeeps, Trial!TrialInv, Trial!Typed

LEMMA WorkerRewrites ==
  ASSUME Trial!TrialAssumption, Trial!TrialInv, Trial!Rewrite("worker")
  PROVE  Trial!TrialInv'
<1>0. "worker" \in Trial!Helpers
  BY DEF Trial!Helpers
<1>1. s1' = s1 /\ s2' = s2 /\ s4' = s4 /\ s5["worker"].at = "rewrite"
  BY DEF Trial!Rewrite, Trial!At
<1>2. CASE /\ s3' = [s3 EXCEPT ![s5["worker"].i] = "performance"]
           /\ Trial!AfterClient("worker", FALSE) /\ s6' = s6
  BY <1>0, <1>1, <1>2, PutBack, WorkerAfter
<1>3. CASE /\ s6' = s6 \cup {"write"} /\ Trial!AfterClient("worker", TRUE) /\ s3' = s3
  BY <1>1, <1>3, WriteFails, WorkerAfter
<1> QED
  BY <1>2, <1>3 DEF Trial!Rewrite

\* The end of a job moves nothing but its helper, and the hook.
LEMMA EndKeeps ==
  ASSUME Trial!TrialInv, NEW h \in Trial!Helpers, Trial!End(h)
  PROVE  /\ ClientsKeep /\ UnitKeeps /\ s4' = s4 /\ s4 \in {"none", "empty", "full"}
         /\ s3' = s3 /\ s6' = s6 /\ Trial!RecordFirst' /\ Trial!Exit(h)
<1>1. s2' = s2 /\ s3' = s3 /\ s4' = s4 /\ s6' = s6 /\ Trial!Exit(h)
  BY DEF Trial!End
<1> DEFINE hook == s1.hook /\ ~(h = "stopper" /\ s1.kind = "lifecycle")
<1>2. s1 \in Trial!Trials /\ hook \in BOOLEAN /\ s1' = [s1 EXCEPT !.hook = hook]
  BY DEF Trial!End, Trial!TrialInv, Trial!Typed, Trial!Trials
<1> HIDE DEF hook
<1>3. s1' \in Trial!Trials /\ s1'.unit = s1.unit /\ s1'.managed = s1.managed
  BY <1>2 DEF Trial!Trials
<1> QED
  BY <1>1, <1>3 DEF ClientsKeep, UnitKeeps, Trial!TrialInv, Trial!Typed, Trial!RecordFirst

LEMMA WorkerEnds ==
  ASSUME Trial!TrialAssumption, Trial!TrialInv, Trial!End("worker")
  PROVE  Trial!TrialInv'
<1>1. "worker" \in Trial!Helpers
  BY DEF Trial!Helpers
<1> QED
  BY <1>1, EndKeeps, WorkerExits

\* ExecStopPost runs while its unit stops.
LEMMA StopperRuns ==
  ASSUME Trial!TrialAssumption, Trial!TrialInv, s5["stopper"].at # "idle"
  PROVE  /\ s1.unit = "stopping" /\ "stopper" \in Trial!Helpers
         /\ s5["stopper"].i \in Trial!Clients
         /\ s5["stopper"].at = "admit" => s5["stopper"].i = 1
         /\ s5["stopper"].at \in {"look", "rewrite"} => s5["stopper"].then = "finally"
         /\ s6 = {} => Trial!Owed
<1>1. "stopper" \in Trial!Helpers
  BY DEF Trial!Helpers
<1>2. s1.unit = "stopping"
  BY IdleIs DEF Trial!TrialInv, Trial!StopperKnows, Trial!Stopper
<1>3. s5["stopper"].i \in Trial!Clients
  BY <1>1 DEF Trial!TrialInv, Trial!Typed, Trial!HelperStates
<1> QED
  BY <1>1, <1>2, <1>3 DEF Trial!TrialInv, Trial!StopperKnows, Trial!Stopper

LEMMA StopperRestores ==
  ASSUME Trial!TrialAssumption, Trial!TrialInv, Trial!AdmitRestore("stopper")
  PROVE  Trial!TrialInv'
<1>1. s1' = s1 /\ s2' = s2 /\ s3' = s3 /\ s4' = s4 /\ s6' = s6
      /\ s5["stopper"].at = "admit"
  BY DEF Trial!AdmitRestore, Trial!At
<1>2. ClientsKeep /\ UnitKeeps
  BY <1>1, StillKeeps
<1>3. /\ s1.unit = "stopping" /\ "stopper" \in Trial!Helpers /\ s5["stopper"].i = 1
      /\ s6 = {} => Trial!Owed
  BY <1>1, StopperRuns
<1>4. CASE s4 = "full" /\ Trial!Loaded("stopper", "finally")
  <2>1. /\ OnlyHelper("stopper") /\ s5'["stopper"].at = "look"
        /\ s5'["stopper"].then = "finally" /\ s5'["stopper"].i = 1
    BY <1>3, <1>4, HelperLoaded DEF Trial!TrialInv
  <2>2. Trial!StopperKnows'
    BY <1>1, <1>3, <2>1 DEF Trial!StopperKnows, Trial!Stopper
  <2>3. \A c \in 1..(Trial!Stopper'.i - 1) : Trial!Restored(c)'
    BY <2>1 DEF Trial!Stopper
  <2> QED
    BY <1>1, <1>2, <1>3, <2>1, <2>2, <2>3, StopperMoves DEF Trial!Stopper
<1>5. CASE s4 # "full" /\ Trial!Goto("stopper", "finally")
  <2>1. HelperGoes("stopper", "finally", 1)
    BY <1>3, <1>5, HelperGoto DEF Trial!TrialInv, Trial!Steps
  <2>2. Trial!StopperKnows'
    BY <1>1, <1>3, <2>1 DEF Trial!StopperKnows, Trial!Stopper, HelperGoes
  <2>3. s6' = {} => Trial!Clean'
    <3> SUFFICES ASSUME s6' = {}, NEW c \in Trial!Clients
                 PROVE  s3'[c] = "performance"
      BY DEF Trial!Clean, Trial!Restored
    <3>1. s3[c] # "other"
      BY <1>1, <1>3 DEF Trial!Owed
    <3>2. s3[c] # "powersave"
      BY <1>5 DEF Trial!TrialInv, Trial!RecordFirst
    <3>3. s3[c] \in {"performance", "powersave", "other"}
      BY DEF Trial!TrialInv, Trial!Typed
    <3> QED
      BY <1>1, <3>1, <3>2, <3>3
  <2>4. Trial!Stopper'.at = "finally"
    BY <2>1 DEF Trial!Stopper, HelperGoes
  <2> QED
    BY <1>1, <1>2, <1>3, <2>1, <2>2, <2>3, <2>4, StopperMoves DEF HelperGoes
<1> QED
  BY <1>4, <1>5 DEF Trial!AdmitRestore

\* After a client that it put back, or that excuses it, ExecStopPost keeps what
\* it did before.
LEMMA StopperAfter ==
  ASSUME Trial!TrialAssumption, Trial!TrialInv, NEW failed \in BOOLEAN,
         Trial!AfterClient("stopper", failed), ClientsKeep, UnitKeeps, s4' = s4,
         s5["stopper"].at \in {"look", "rewrite"},
         s6' = {} => s3'[s5["stopper"].i] = "performance"
  PROVE  Trial!TrialInv'
<1>0. /\ s1.unit = "stopping" /\ "stopper" \in Trial!Helpers
      /\ s5["stopper"].i \in 1..IsolatedClients /\ s5["stopper"].then = "finally"
      /\ s6 = {} => Trial!Owed
  BY StopperRuns DEF Trial!Clients
<1>1. /\ OnlyHelper("stopper") /\ s5'["stopper"].then = "finally"
      /\ \/ /\ s5["stopper"].i # IsolatedClients /\ s5'["stopper"].i = s5["stopper"].i + 1
            /\ s5'["stopper"].at = "look"
         \/ /\ s5["stopper"].i = IsolatedClients /\ s5'["stopper"].i = 1
            /\ s5'["stopper"].at = "finally"
  BY <1>0, HelperAfter DEF Trial!TrialInv
<1>2. ASSUME s6' = {}, NEW c \in 1..s5["stopper"].i
      PROVE  s3'[c] = "performance"
  <2>1. Trial!Owed
    BY <1>0, <1>2 DEF UnitKeeps
  <2>2. c \in Trial!Clients /\ (c = s5["stopper"].i \/ c \in 1..(s5["stopper"].i - 1))
    BY <1>0 DEF Trial!Clients, Trial!TrialAssumption
  <2>3. c \in 1..(s5["stopper"].i - 1) => s3[c] = "performance"
    BY <1>0, <2>1 DEF Trial!Owed, Trial!Stopper, Trial!Restored
  <2> QED
    BY <1>2, <2>2, <2>3 DEF ClientsKeep
<1>3. Trial!StopperKnows'
  BY <1>0, <1>1 DEF Trial!StopperKnows, Trial!Stopper, UnitKeeps
<1>4. s6' = {} =>
        /\ Trial!Stopper'.at \in {"idle", "finally", "end"} => Trial!Clean'
        /\ Trial!Stopper'.at \in {"look", "rewrite"} =>
             \A c \in 1..(Trial!Stopper'.i - 1) : Trial!Restored(c)'
  <2> SUFFICES ASSUME s6' = {}
               PROVE  /\ s5'["stopper"].at = "finally" => Trial!Clean'
                      /\ s5'["stopper"].at = "look" =>
                           \A c \in 1..(s5'["stopper"].i - 1) : Trial!Restored(c)'
    BY <1>1 DEF Trial!Stopper
  <2>1. \A c \in 1..s5["stopper"].i : s3'[c] = "performance"
    BY <1>2
  <2>2. CASE s5'["stopper"].at = "finally"
    <3>1. s5["stopper"].i = IsolatedClients
      BY <1>1, <2>2
    <3>2. \A c \in Trial!Clients : s3'[c] = "performance"
      BY <2>1, <3>1 DEF Trial!Clients
    <3> QED
      BY <2>2, <3>2 DEF Trial!Clean, Trial!Restored
  <2>3. CASE s5'["stopper"].at = "look"
    <3>1. s5'["stopper"].i = s5["stopper"].i + 1
      BY <1>1, <2>3
    <3> QED
      BY <1>0, <2>1, <2>3, <3>1 DEF Trial!Restored
  <2> QED
    BY <1>1, <2>2, <2>3
<1> QED
  BY <1>0, <1>1, <1>3, <1>4, StopperMoves

LEMMA StopperLooks ==
  ASSUME Trial!TrialAssumption, Trial!TrialInv, Trial!Look("stopper")
  PROVE  Trial!TrialInv'
<1>1. s1' = s1 /\ s2' = s2 /\ s3' = s3 /\ s4' = s4 /\ s6' = s6
      /\ s5["stopper"].at = "look"
  BY DEF Trial!Look, Trial!At
<1>2. ClientsKeep /\ UnitKeeps
  BY <1>1, StillKeeps
<1>3. /\ s1.unit = "stopping" /\ "stopper" \in Trial!Helpers
      /\ s5["stopper"].i \in Trial!Clients /\ s5["stopper"].then = "finally"
      /\ s6 = {} => Trial!Owed
  BY <1>1, StopperRuns
<1>4. CASE s3[s5["stopper"].i] = "performance" /\ Trial!AfterClient("stopper", FALSE)
  BY <1>1, <1>2, <1>4, StopperAfter
<1>5. CASE s3[s5["stopper"].i] = "other" /\ Trial!AfterClient("stopper", TRUE)
  <2>1. s6' # {}
    BY <1>1, <1>3, <1>5 DEF Trial!Owed
  <2> QED
    BY <1>1, <1>2, <1>5, <2>1, StopperAfter
<1>6. CASE s5' = [s5 EXCEPT !["stopper"].at = "rewrite"]
  <2>1. HelperGoes("stopper", "rewrite", s5["stopper"].i)
    BY <1>3, <1>6, HelperAt DEF Trial!TrialInv, Trial!Steps
  <2>2. Trial!StopperKnows'
    BY <1>1, <1>3, <2>1 DEF Trial!StopperKnows, Trial!Stopper, HelperGoes
  <2>3. s6' = {} => \A c \in 1..(Trial!Stopper'.i - 1) : Trial!Restored(c)'
    BY <1>1, <1>3, <2>1 DEF Trial!Owed, Trial!Stopper, Trial!Restored, HelperGoes
  <2>4. Trial!Stopper'.at = "rewrite"
    BY <2>1 DEF Trial!Stopper, HelperGoes
  <2> QED
    BY <1>1, <1>2, <1>3, <2>1, <2>2, <2>3, <2>4, StopperMoves DEF HelperGoes
<1> QED
  BY <1>4, <1>5, <1>6 DEF Trial!Look

LEMMA StopperRewrites ==
  ASSUME Trial!TrialAssumption, Trial!TrialInv, Trial!Rewrite("stopper")
  PROVE  Trial!TrialInv'
<1>0. "stopper" \in Trial!Helpers
  BY DEF Trial!Helpers
<1>1. s1' = s1 /\ s2' = s2 /\ s4' = s4 /\ s5["stopper"].at = "rewrite"
  BY DEF Trial!Rewrite, Trial!At
<1>2. CASE /\ s3' = [s3 EXCEPT ![s5["stopper"].i] = "performance"]
           /\ Trial!AfterClient("stopper", FALSE) /\ s6' = s6
  BY <1>0, <1>1, <1>2, PutBack, StopperAfter
<1>3. CASE /\ s6' = s6 \cup {"write"} /\ Trial!AfterClient("stopper", TRUE) /\ s3' = s3
  BY <1>1, <1>3, WriteFails, StopperAfter
<1> QED
  BY <1>2, <1>3 DEF Trial!Rewrite

LEMMA StopperEnds ==
  ASSUME Trial!TrialAssumption, Trial!TrialInv, Trial!End("stopper")
  PROVE  Trial!TrialInv'
<1>1. s5["stopper"].at \in {"finally", "end"}
  BY DEF Trial!End
<1>2. /\ s1.unit = "stopping" /\ "stopper" \in Trial!Helpers
      /\ s6 = {} => Trial!Owed
  BY <1>1, StopperRuns
<1>3. /\ ClientsKeep /\ UnitKeeps /\ s4' = s4
      /\ s3' = s3 /\ s6' = s6 /\ Trial!Exit("stopper")
  BY <1>2, EndKeeps
<1>4. OnlyHelper("stopper") /\ Trial!Stopper' = Trial!Idle
  BY <1>2, <1>3, HelperExit DEF Trial!TrialInv, Trial!Stopper
<1>5. Trial!StopperKnows'
  BY <1>4, IdleIs DEF Trial!StopperKnows
<1>6. s6' = {} => Trial!Clean'
  <2>1. s6' = {} => Trial!Clean
    BY <1>1, <1>2, <1>3 DEF Trial!Owed, Trial!Stopper
  <2> QED
    BY <1>3, <2>1 DEF Trial!Clean, Trial!Restored
<1> QED
  BY <1>2, <1>3, <1>4, <1>5, <1>6, IdleIs, StopperMoves

\* The trial's unit and the suspends move no client and no record.
LEMMA UnitMoves ==
  ASSUME Trial!TrialAssumption, Trial!TrialInv, s3' = s3, s4' = s4,
         s1' \in Trial!Trials,
         s2' \in [at : {"awake", "pre", "post"}, cycle : Nat],
         s5' \in [Trial!Helpers -> Trial!HelperStates],
         Trial!WorkerKnows', Trial!StopperKnows',
         s6' = {} => Trial!Owed'
  PROVE  Trial!TrialInv'
  BY DEF Trial!TrialInv, Trial!Typed, Trial!RecordFirst

\* A worker that is not at work.
LEMMA WorkerFresh ==
  ASSUME Trial!TrialAssumption, NEW job \in {"apply", "pre", "post"},
         s5'["worker"] = Trial!Idle \/ s5'["worker"] = Trial!Begin(job)
  PROVE  /\ Trial!WorkerKnows' /\ s5'["worker"].job \in {"none", job}
         /\ s5'["worker"].job = job => s5'["worker"].at = "admit"
<1>1. CASE s5'["worker"] = Trial!Idle
  BY <1>1, IdleIs DEF Trial!WorkerKnows, Trial!Worker, Trial!Isolating
<1>2. CASE s5'["worker"] = Trial!Begin(job)
  <2>1. Trial!Begin(job).at = "admit" /\ Trial!Begin(job).job = job
        /\ Trial!Begin(job).i = 1
    BY IdleIs DEF Trial!Jobs
  <2> QED
    BY <1>2, <2>1 DEF Trial!WorkerKnows, Trial!Worker, Trial!Isolating
<1> QED
  BY <1>1, <1>2

\* What the unit finds when nothing excuses a client.
LEMMA UnitFinds ==
  ASSUME Trial!TrialInv, s3' = s3, s6 = {}
  PROVE  /\ \A c \in Trial!Clients : s3'[c] # "other"
         /\ s1.unit = "over" \/ ~s1.managed => Trial!Clean'
         /\ s1.unit # "active" =>
              /\ s5["worker"].job # "apply"
              /\ s5["worker"].job = "pre" => s5["worker"].at = "admit"
         /\ s1.unit = "stopping" /\ s5["stopper"].at = "idle" => Trial!Clean'
<1>1. Trial!Owed
  BY DEF Trial!TrialInv
<1>2. Trial!Clean => Trial!Clean'
  BY DEF Trial!Clean, Trial!Restored
<1>3. \A c \in Trial!Clients : s3'[c] # "other"
  BY <1>1 DEF Trial!Owed
<1>4. s1.unit = "over" \/ ~s1.managed => Trial!Clean'
  BY <1>1, <1>2, Zenon DEF Trial!Owed
<1>5. s1.unit # "active" =>
        /\ s5["worker"].job # "apply"
        /\ s5["worker"].job = "pre" => s5["worker"].at = "admit"
  BY <1>1 DEF Trial!Owed, Trial!Worker
<1>6. s1.unit = "stopping" /\ s5["stopper"].at = "idle" => Trial!Clean'
  BY <1>1, <1>2 DEF Trial!Owed, Trial!Stopper
<1> QED
  BY <1>3, <1>4, <1>5, <1>6

\* A record of a trial with its fields replaced.
LEMMA TrialStarts ==
  ASSUME NEW Kinds, NEW Flags, NEW Units,
         NEW t \in [kind : Kinds, managed : Flags, unit : Units, hook : Flags,
               number : Nat],
         NEW kind \in Kinds, NEW managed \in Flags, NEW unit \in Units, NEW hook \in Flags,
         NEW number \in Nat
  PROVE  LET started == [t EXCEPT !.kind = kind, !.managed = managed, !.unit = unit,
                                  !.hook = hook, !.number = number]
         IN  /\ started \in [kind : Kinds, managed : Flags, unit : Units, hook : Flags,
                              number : Nat]
             /\ started.unit = unit
<1> DEFINE named == [t EXCEPT !.kind = kind, !.managed = managed, !.unit = unit]
           Records == [kind : Kinds, managed : Flags, unit : Units, hook : Flags,
                 number : Nat]
<1>1. [t EXCEPT !.kind = kind, !.managed = managed, !.unit = unit, !.hook = hook,
                !.number = number]
        = [named EXCEPT !.hook = hook, !.number = number]
  OBVIOUS
<1>2. named \in Records /\ named.unit = unit
  OBVIOUS
<1> HIDE DEF named
<1>3. /\ [named EXCEPT !.hook = hook, !.number = number] \in Records
      /\ [named EXCEPT !.hook = hook, !.number = number].unit = unit
  BY <1>2
<1> QED
  BY <1>1, <1>3

LEMMA StartTrialHolds ==
  ASSUME Trial!TrialAssumption, Trial!TrialInv, Trial!StartTrial
  PROVE  Trial!TrialInv'
<1>1. /\ s2' = s2 /\ s3' = s3 /\ s4' = s4 /\ s6' = s6 /\ s1.unit = "over"
      /\ s5["stopper"] = Trial!Idle
  BY DEF Trial!StartTrial, Trial!Helpers
<1>2. PICK kind \in {"apply", "lifecycle"}, managed \in BOOLEAN :
        /\ s1' = [s1 EXCEPT !.kind = kind, !.managed = managed, !.unit = "active",
                            !.hook = s1.hook \/ kind = "lifecycle",
                            !.number = s1.number + 1]
        /\ s5' = [s5 EXCEPT !["worker"] =
                    IF kind = "apply" THEN Trial!Begin("apply") ELSE Trial!Idle]
  BY DEF Trial!StartTrial
<1>3. s1 \in Trial!Trials /\ s5 \in [Trial!Helpers -> Trial!HelperStates]
      /\ s2 \in [at : {"awake", "pre", "post"}, cycle : Nat]
  BY DEF Trial!TrialInv, Trial!Typed
<1>4. s1' \in Trial!Trials /\ s1'.unit = "active"
  <2> DEFINE hook == s1.hook \/ kind = "lifecycle"
             number == s1.number + 1
             Units == {"active", "stopping", "over"}
             Kinds == {"apply", "lifecycle"}
  <2>1. hook \in BOOLEAN
    BY Zenon
  <2>2. s1' = [s1 EXCEPT !.kind = kind, !.managed = managed, !.unit = "active",
                         !.hook = hook, !.number = number]
    BY <1>2
  <2>3. number \in Nat
    BY <1>3 DEF Trial!Trials
  <2>4. "active" \in Units /\ kind \in Kinds
    OBVIOUS
  <2>5. s1 \in [kind : Kinds, managed : BOOLEAN, unit : Units, hook : BOOLEAN, number : Nat]
    BY <1>3 DEF Trial!Trials
  <2> HIDE DEF hook, number, Units, Kinds
  <2>6. /\ s1' \in [kind : Kinds, managed : BOOLEAN, unit : Units, hook : BOOLEAN,
                     number : Nat]
        /\ s1'.unit = "active"
    BY <2>1, <2>2, <2>3, <2>4, <2>5, TrialStarts, Zenon
  <2> QED
    BY <2>6 DEF Trial!Trials, Units, Kinds
<1>5. /\ OnlyHelper("worker")
      /\ s5'["worker"] = Trial!Idle \/ s5'["worker"] = Trial!Begin("apply")
  <2> DEFINE value == IF kind = "apply" THEN Trial!Begin("apply") ELSE Trial!Idle
  <2>1. value = Trial!Idle \/ value = Trial!Begin("apply")
    OBVIOUS
  <2>2. s5' = [s5 EXCEPT !["worker"] = value]
    BY <1>2
  <2> HIDE DEF value
  <2>3. value \in Trial!HelperStates /\ "worker" \in Trial!Helpers
    BY <2>1, IdleIs DEF Trial!Helpers, Trial!Jobs
  <2> QED
    BY <1>3, <2>1, <2>2, <2>3, HelperSet
<1>6. Trial!WorkerKnows'
  BY <1>5, WorkerFresh
<1>7. s5'["stopper"] = Trial!Idle
  BY <1>1, <1>5 DEF OnlyHelper, Trial!Helpers
<1>8. Trial!StopperKnows'
  BY <1>7, IdleIs DEF Trial!StopperKnows, Trial!Stopper
<1>9. s6' = {} => Trial!Owed'
  <2> SUFFICES ASSUME s6' = {}
               PROVE  Trial!Owed'
    OBVIOUS
  <2>1. (\A c \in Trial!Clients : s3'[c] # "other") /\ Trial!Clean'
    BY <1>1, UnitFinds
  <2>2. s1'.unit # "over" /\ s1'.unit # "stopping"
    BY <1>4
  <2> QED
    BY <1>4, <2>1, <2>2, Zenon DEF Trial!Owed
<1> QED
  BY <1>1, <1>3, <1>4, <1>5, <1>6, <1>8, <1>9, UnitMoves DEF OnlyHelper

LEMMA StopTrialHolds ==
  ASSUME Trial!TrialAssumption, Trial!TrialInv, Trial!StopTrial
  PROVE  Trial!TrialInv'
<1>1. /\ s2' = s2 /\ s3' = s3 /\ s4' = s4 /\ s1.unit = "active"
      /\ s1' = [s1 EXCEPT !.unit = "stopping"]
      /\ s6' = {} => s6 = {} /\ s5["worker"].job # "pre"
  BY DEF Trial!StopTrial
<1>2. s1 \in Trial!Trials /\ s5 \in [Trial!Helpers -> Trial!HelperStates]
      /\ s2 \in [at : {"awake", "pre", "post"}, cycle : Nat]
  BY DEF Trial!TrialInv, Trial!Typed
<1>3. s1' \in Trial!Trials /\ s1'.unit = "stopping" /\ s1'.managed = s1.managed
  BY <1>1, <1>2 DEF Trial!Trials
<1> DEFINE work == IF s5["worker"].job = "apply" THEN Trial!Idle ELSE s5["worker"]
           stop == IF s1.managed THEN Trial!Begin("restore") ELSE Trial!Idle
<1>4. s5' = [s5 EXCEPT !["worker"] = work, !["stopper"] = stop]
  BY <1>2 DEF Trial!StopTrial, Trial!Helpers
<1>5. /\ work \in Trial!HelperStates
      /\ work = Trial!Idle \/ (work = s5["worker"] /\ s5["worker"].job # "apply")
  BY <1>2, IdleIs DEF Trial!Helpers
<1>6. /\ s1.managed => stop = Trial!Begin("restore")
      /\ ~s1.managed => stop = Trial!Idle
  BY Zenon
<1>7. stop = Trial!Begin("restore") \/ stop = Trial!Idle
  BY <1>6, Zenon
<1> HIDE DEF work, stop
<1>8. stop \in Trial!HelperStates
  BY <1>7, IdleIs DEF Trial!Jobs
<1>9. /\ s5' \in [Trial!Helpers -> Trial!HelperStates]
      /\ s5'["worker"] = work /\ s5'["stopper"] = stop
  BY <1>2, <1>4, <1>5, <1>8 DEF Trial!Helpers
<1>10. Trial!WorkerKnows'
  <2>1. CASE work = Trial!Idle
    BY <1>9, <2>1, WorkerFresh
  <2>2. CASE work = s5["worker"]
    <3>1. Trial!WorkerKnows
      BY DEF Trial!TrialInv
    <3>2. Trial!Worker' = Trial!Worker
      BY <1>9, <2>2 DEF Trial!Worker
    <3>3. \A c : Trial!Untouched(c)' <=> Trial!Untouched(c)
      BY <1>1 DEF Trial!Untouched
    <3> QED
      BY <1>1, <1>3, <3>1, <3>2, <3>3, Zenon DEF Trial!WorkerKnows
  <2> QED
    BY <1>5, <2>1, <2>2
<1>11. \/ stop.at = "idle" /\ stop = Trial!Idle
       \/ stop.at = "admit" /\ stop.i = 1 /\ stop.job = "restore"
  BY <1>7, IdleIs DEF Trial!Jobs
<1>12. Trial!StopperKnows'
  BY <1>3, <1>9, <1>11 DEF Trial!StopperKnows, Trial!Stopper
<1>13. s6' = {} => Trial!Owed'
  <2> SUFFICES ASSUME s6' = {}
               PROVE  Trial!Owed'
    OBVIOUS
  <2>1. /\ \A c \in Trial!Clients : s3'[c] # "other"
        /\ ~s1.managed => Trial!Clean'
    BY <1>1, UnitFinds, Zenon
  <2>2. work.job # "apply" /\ work.job # "pre"
    BY <1>1, <1>5, IdleIs
  <2>3. stop.at = "idle" => Trial!Clean'
    <3>1. Trial!Begin("restore").at = "admit"
      BY IdleIs DEF Trial!Jobs
    <3> QED
      BY <1>6, <2>1, <3>1, Zenon
  <2>4. s1'.unit = "over" \/ ~s1'.managed => Trial!Clean'
    <3>1. s1'.unit # "over"
      BY <1>3
    <3> QED
      BY <1>3, <2>1, <3>1, Zenon
  <2>5. stop.at \notin {"finally", "end", "look", "rewrite"}
    BY <1>11
  <2>6. /\ Trial!Stopper'.at \in {"idle", "finally", "end"} => Trial!Clean'
        /\ Trial!Stopper'.at \notin {"look", "rewrite"}
    BY <1>9, <2>3, <2>5 DEF Trial!Stopper
  <2> QED
    BY <1>9, <2>1, <2>2, <2>4, <2>6, Zenon DEF Trial!Owed, Trial!Worker
<1> QED
  BY <1>1, <1>2, <1>3, <1>9, <1>10, <1>12, <1>13, UnitMoves

LEMMA UnitOverHolds ==
  ASSUME Trial!TrialAssumption, Trial!TrialInv, Trial!UnitOver
  PROVE  Trial!TrialInv'
<1>1. /\ s2' = s2 /\ s3' = s3 /\ s4' = s4 /\ s5' = s5 /\ s6' = s6
      /\ s1.unit = "stopping" /\ s5["stopper"] = Trial!Idle
      /\ s1' = [s1 EXCEPT !.unit = "over"]
  BY DEF Trial!UnitOver
<1>2. s1 \in Trial!Trials /\ s5 \in [Trial!Helpers -> Trial!HelperStates]
      /\ s2 \in [at : {"awake", "pre", "post"}, cycle : Nat]
  BY DEF Trial!TrialInv, Trial!Typed
<1>3. s1' \in Trial!Trials /\ s1'.unit = "over" /\ s1'.managed = s1.managed
  BY <1>1, <1>2 DEF Trial!Trials
<1>4. Trial!WorkerKnows'
  <2>1. Trial!WorkerKnows
    BY DEF Trial!TrialInv
  <2>2. Trial!Worker' = Trial!Worker
    BY <1>1 DEF Trial!Worker
  <2>3. \A c : Trial!Untouched(c)' <=> Trial!Untouched(c)
    BY <1>1 DEF Trial!Untouched
  <2> QED
    BY <1>1, <1>3, <2>1, <2>2, <2>3, Zenon DEF Trial!WorkerKnows
<1>5. Trial!StopperKnows'
  BY <1>1, IdleIs DEF Trial!StopperKnows, Trial!Stopper
<1>6. s6' = {} => Trial!Owed'
  <2> SUFFICES ASSUME s6' = {}
               PROVE  Trial!Owed'
    OBVIOUS
  <2>1. /\ \A c \in Trial!Clients : s3'[c] # "other"
        /\ Trial!Clean' /\ s5["worker"].job # "apply"
        /\ s5["worker"].job = "pre" => s5["worker"].at = "admit"
    BY <1>1, UnitFinds, IdleIs
  <2>2. s1'.unit # "stopping"
    BY <1>3
  <2>3. Trial!Worker' = s5["worker"]
    BY <1>1 DEF Trial!Worker
  <2> QED
    BY <2>1, <2>2, <2>3, Zenon DEF Trial!Owed
<1> QED
  BY <1>1, <1>2, <1>3, <1>4, <1>5, <1>6, UnitMoves

\* A suspend moves on, and may call the hook.
LEMMA SuspendMoves ==
  ASSUME Trial!TrialAssumption, Trial!TrialInv, s1' = s1, s3' = s3, s4' = s4, s6' = s6,
         s2' \in [at : {"awake", "pre", "post"}, cycle : Nat],
         NEW job \in {"pre", "post"}, OnlyHelper("worker"),
         s5'["worker"] = Trial!Idle \/ s5'["worker"] = Trial!Begin(job)
  PROVE  Trial!TrialInv'
<1>1. /\ Trial!WorkerKnows' /\ s5'["worker"].job \in {"none", job}
      /\ s5'["worker"].job = job => s5'["worker"].at = "admit"
  BY WorkerFresh
<1>2. Trial!Stopper' = Trial!Stopper
  BY DEF OnlyHelper, Trial!Helpers, Trial!Stopper
<1>3. Trial!StopperKnows'
  BY <1>2 DEF Trial!TrialInv, Trial!StopperKnows
<1>4. s6' = {} => Trial!Owed'
  <2> SUFFICES ASSUME s6' = {}
               PROVE  Trial!Owed'
    OBVIOUS
  <2>1. Trial!Owed
    BY DEF Trial!TrialInv
  <2>2. /\ Trial!Worker'.job # "apply"
        /\ Trial!Worker'.job = "pre" => Trial!Worker'.at = "admit"
    BY <1>1 DEF Trial!Worker
  <2>3. Trial!Clean' <=> Trial!Clean
    BY DEF Trial!Clean, Trial!Restored
  <2>4. \A c : Trial!Restored(c)' <=> Trial!Restored(c)
    BY DEF Trial!Restored
  <2>5. \A c \in Trial!Clients : s3'[c] # "other"
    BY <2>1 DEF Trial!Owed
  <2> QED
    BY <1>2, <2>1, <2>2, <2>3, <2>4, <2>5, Zenon DEF Trial!Owed
<1> QED
  BY <1>1, <1>3, <1>4, UnitMoves DEF Trial!TrialInv, Trial!Typed, OnlyHelper

LEMMA SuspendHolds ==
  ASSUME Trial!TrialAssumption, Trial!TrialInv,
         NEW from \in {"awake", "pre"}, NEW to \in {"pre", "post"},
         NEW job \in {"pre", "post"}, Trial!Suspend(from, to, job)
  PROVE  Trial!TrialInv'
<1> DEFINE value == IF s1.hook THEN Trial!Begin(job) ELSE Trial!Idle
<1>1. /\ s1' = s1 /\ s3' = s3 /\ s4' = s4 /\ s6' = s6 /\ s5["worker"] = Trial!Idle
      /\ s2' = [s2 EXCEPT !.at = to]
      /\ s5' = [s5 EXCEPT !["worker"] = IF s1.hook THEN Trial!Begin(job) ELSE s5["worker"]]
  BY DEF Trial!Suspend
<1>2. value = Trial!Idle \/ value = Trial!Begin(job)
  BY Zenon
<1>3. s5' = [s5 EXCEPT !["worker"] = value]
  BY <1>1
<1> HIDE DEF value
<1>4. s2' \in [at : {"awake", "pre", "post"}, cycle : Nat]
  <2>1. s2 \in [at : {"awake", "pre", "post"}, cycle : Nat]
    BY DEF Trial!TrialInv, Trial!Typed
  <2> QED
    BY <1>1, <2>1
<1>5. value \in Trial!HelperStates /\ "worker" \in Trial!Helpers
  BY <1>2, IdleIs DEF Trial!Jobs, Trial!Helpers
<1>6. OnlyHelper("worker") /\ s5'["worker"] = value
  BY <1>3, <1>5, HelperSet DEF Trial!TrialInv, Trial!Typed
<1> QED
  BY <1>1, <1>2, <1>4, <1>6, SuspendMoves

LEMMA AwakeHolds ==
  ASSUME Trial!TrialAssumption, Trial!TrialInv, Trial!Awake
  PROVE  Trial!TrialInv'
<1>1. /\ s1' = s1 /\ s3' = s3 /\ s4' = s4 /\ s5' = s5 /\ s6' = s6
      /\ s5["worker"] = Trial!Idle
      /\ s2' = [at |-> "awake", cycle |-> s2.cycle + 1]
  BY DEF Trial!Awake
<1>2. s2' \in [at : {"awake", "pre", "post"}, cycle : Nat]
  <2>1. s2 \in [at : {"awake", "pre", "post"}, cycle : Nat]
    BY DEF Trial!TrialInv, Trial!Typed
  <2> QED
    BY <1>1, <2>1
<1>3. OnlyHelper("worker") /\ s5'["worker"] = Trial!Idle
  BY <1>1 DEF OnlyHelper, Trial!TrialInv, Trial!Typed
<1> QED
  BY <1>1, <1>2, <1>3, SuspendMoves

LEMMA ExternalHolds ==
  ASSUME Trial!TrialAssumption, Trial!TrialInv, Trial!External
  PROVE  Trial!TrialInv'
<1>1. /\ s1' = s1 /\ s2' = s2 /\ s4' = s4 /\ s5' = s5 /\ s6' = s6 \cup {"external"}
  BY DEF Trial!External
<1>2. PICK k \in Trial!Clients : s3' = [s3 EXCEPT ![k] = "other"]
  BY DEF Trial!External
<1>3. /\ s3' \in [Trial!Clients -> {"performance", "powersave", "other"}]
      /\ \A c \in Trial!Clients : s3'[c] = "powersave" => s3[c] = "powersave"
  BY <1>2 DEF Trial!TrialInv, Trial!Typed
<1>4. Trial!Typed' /\ Trial!RecordFirst'
  BY <1>1, <1>3 DEF Trial!TrialInv, Trial!Typed, Trial!RecordFirst
<1>5. Trial!WorkerKnows'
  <2>1. Trial!WorkerKnows /\ Trial!Worker' = Trial!Worker
    BY <1>1 DEF Trial!TrialInv, Trial!Worker
  <2>2. \A c \in Trial!Clients : Trial!Untouched(c) => Trial!Untouched(c)'
    BY <1>3 DEF Trial!Untouched
  <2>3. \A c \in 1..(Trial!Worker.i - 1) : c \in Trial!Clients
    <3>1. Trial!Worker.i \in 1..IsolatedClients /\ IsolatedClients \in Nat
      BY DEF Trial!TrialInv, Trial!Typed, Trial!Worker, Trial!Helpers,
             Trial!HelperStates, Trial!Clients, Trial!TrialAssumption
    <3> QED
      BY <3>1 DEF Trial!Clients
  <2> QED
    BY <1>1, <2>1, <2>2, <2>3, Zenon DEF Trial!WorkerKnows
<1>6. Trial!StopperKnows'
  BY <1>1 DEF Trial!TrialInv, Trial!StopperKnows, Trial!Stopper
<1>7. s6' # {}
  BY <1>1
<1> QED
  BY <1>4, <1>5, <1>6, <1>7 DEF Trial!TrialInv

LEMMA RebootHolds ==
  ASSUME Trial!TrialAssumption, Trial!TrialInv, Trial!Reboot
  PROVE  Trial!TrialInv'
<1>1. /\ s1' = [s1 EXCEPT !.unit = "over"] /\ s2' = [s2 EXCEPT !.at = "awake"]
      /\ s3' = [c \in Trial!Clients |-> "performance"] /\ s4' = s4
      /\ s5' = [h \in Trial!Helpers |-> Trial!Idle]
  BY DEF Trial!Reboot
<1>2. s1 \in Trial!Trials /\ s2 \in [at : {"awake", "pre", "post"}, cycle : Nat]
  BY DEF Trial!TrialInv, Trial!Typed
<1>3. s1' \in Trial!Trials /\ s1'.unit = "over"
  BY <1>1, <1>2 DEF Trial!Trials
<1>4. Trial!Typed'
  <2>1. s2' \in [at : {"awake", "pre", "post"}, cycle : Nat]
    BY <1>1, <1>2
  <2>2. s5' \in [Trial!Helpers -> Trial!HelperStates]
    BY <1>1, IdleIs
  <2> QED
    BY <1>1, <1>3, <2>1, <2>2 DEF Trial!TrialInv, Trial!Typed
<1>5. Trial!Worker' = Trial!Idle /\ Trial!Stopper' = Trial!Idle
  BY <1>1 DEF Trial!Worker, Trial!Stopper, Trial!Helpers
<1>6. Trial!RecordFirst'
  BY <1>1 DEF Trial!RecordFirst
<1>7. Trial!WorkerKnows'
  BY <1>5, IdleIs DEF Trial!WorkerKnows, Trial!Isolating
<1>8. Trial!StopperKnows'
  BY <1>5, IdleIs DEF Trial!StopperKnows
<1>9. Trial!Owed'
  BY <1>1, <1>3, <1>5, IdleIs DEF Trial!Owed, Trial!Clean, Trial!Restored
<1> QED
  BY <1>4, <1>6, <1>7, <1>8, <1>9 DEF Trial!TrialInv

LEMMA TrialStepHolds ==
  ASSUME Trial!TrialAssumption, Trial!TrialInv, [Trial!Next]_slots
  PROVE  Trial!TrialInv'
<1>1. CASE UNCHANGED slots
  <2>1. s1' = s1 /\ s2' = s2 /\ s3' = s3 /\ s4' = s4 /\ s5' = s5 /\ s6' = s6
    BY <1>1 DEF slots
  <2>2. Trial!Typed' /\ Trial!RecordFirst'
    BY <2>1 DEF Trial!TrialInv, Trial!Typed, Trial!RecordFirst
  <2>3. Trial!StopperKnows'
    BY <2>1 DEF Trial!TrialInv, Trial!StopperKnows, Trial!Stopper
  <2>4. (\A c : Trial!Untouched(c)' <=> Trial!Untouched(c)) /\ Trial!Worker' = Trial!Worker
    BY <2>1 DEF Trial!Untouched, Trial!Worker
  <2>5. Trial!WorkerKnows'
    BY <2>1, <2>4, Zenon DEF Trial!TrialInv, Trial!WorkerKnows
  <2>6. /\ \A c : Trial!Restored(c)' <=> Trial!Restored(c)
        /\ Trial!Clean' <=> Trial!Clean
        /\ Trial!Stopper' = Trial!Stopper
    BY <2>1 DEF Trial!Restored, Trial!Clean, Trial!Stopper
  <2>7. s6' = {} => Trial!Owed'
    BY <2>1, <2>4, <2>6, Zenon DEF Trial!TrialInv, Trial!Owed
  <2> QED
    BY <2>2, <2>3, <2>5, <2>7 DEF Trial!TrialInv
<1>2. ASSUME NEW h \in Trial!Helpers,
             Trial!AdmitRestore(h) \/ Trial!Look(h) \/ Trial!Rewrite(h) \/ Trial!End(h)
      PROVE  Trial!TrialInv'
  <2>1. CASE h = "worker"
    BY <1>2, <2>1, WorkerRestores, WorkerLooks, WorkerRewrites, WorkerEnds
  <2>2. CASE h = "stopper"
    BY <1>2, <2>2, StopperRestores, StopperLooks, StopperRewrites, StopperEnds
  <2> QED
    BY <2>1, <2>2 DEF Trial!Helpers
<1>3. CASE Trial!Pre \/ Trial!Post
  BY <1>3, SuspendHolds DEF Trial!Pre, Trial!Post
<1>4. CASE \/ Trial!StartTrial \/ Trial!StopTrial \/ Trial!UnitOver \/ Trial!Awake
           \/ Trial!External \/ Trial!Reboot
  BY <1>4, StartTrialHolds, StopTrialHolds, UnitOverHolds, AwakeHolds, ExternalHolds,
     RebootHolds
<1>5. CASE \/ Trial!AdmitApply \/ Trial!AdmitPre \/ Trial!Inspect \/ Trial!Create
           \/ Trial!Save \/ Trial!Write \/ Trial!Confirm \/ Trial!Unlink
  BY <1>5, AdmitApplyHolds, AdmitPreHolds, InspectHolds, CreateHolds, SaveHolds,
     IsolateHolds, ConfirmHolds, UnlinkHolds
<1> QED
  BY <1>1, <1>2, <1>3, <1>4, <1>5 DEF Trial!Next

\* The invariant is what the trials promise.
LEMMA TrialMeans ==
  ASSUME Trial!TrialInv
  PROVE  Trial!RecordFirst /\ Trial!TrialLeavesNothing
<1>1. Trial!RecordFirst
  BY DEF Trial!TrialInv
<1>2. s1.unit = "over" /\ s6 = {} => Trial!Clean
  BY DEF Trial!TrialInv, Trial!Owed
<1> QED
  BY <1>1, <1>2 DEF Trial!TrialLeavesNothing, Trial!Clean, Trial!Restored

-----------------------------------------------------------------------------
(* The menu's receipt: s1 is the receipt, s2 the temporary file, s3 the        *)
(* programs, s4 the phone, s5 the launches, s6 the entries tried, s7 whether   *)
(* the menu was flashed.                                                       *)

LEMMA ConstantsTyped ==
  /\ Receipt!Empty \in Receipt!Receipts /\ Receipt!Torn \in Receipt!Receipts
       /\ Receipt!NoFile \in Receipt!Receipts /\ Receipt!Idle \in Receipt!Runs
  /\ ~Receipt!Torn.proof /\ ~Receipt!NoFile.proof /\ ~Receipt!Empty.proof
  /\ Receipt!Torn.passed = {"torn"} /\ Receipt!NoFile.passed = {"none"}
       /\ Receipt!Empty.passed = {}
  /\ Receipt!Idle.value = Receipt!Empty /\ Receipt!Idle.does = "none"
       /\ Receipt!Idle.pc = "idle"
<1>1. Receipt!Empty \in Receipt!Receipts /\ ~Receipt!Empty.proof
      /\ Receipt!Empty.passed = {}
  BY DEF Receipt!Empty, Receipt!Receipts
<1>2. Receipt!Torn \in Receipt!Receipts /\ ~Receipt!Torn.proof
      /\ Receipt!Torn.passed = {"torn"}
  BY DEF Receipt!Empty, Receipt!Torn, Receipt!Receipts
<1>3. Receipt!NoFile \in Receipt!Receipts /\ ~Receipt!NoFile.proof
      /\ Receipt!NoFile.passed = {"none"}
  BY DEF Receipt!Empty, Receipt!NoFile, Receipt!Receipts
<1>4. Receipt!Idle \in Receipt!Runs /\ Receipt!Idle.value = Receipt!Empty
      /\ Receipt!Idle.does = "none" /\ Receipt!Idle.pc = "idle"
  BY <1>1 DEF Receipt!Idle, Receipt!Runs
<1> QED
  BY <1>1, <1>2, <1>3, <1>4

LEMMA MarksWitnessed ==
  Receipt!Witnessed(Receipt!Empty) /\ Receipt!Witnessed(Receipt!Torn)
        /\ Receipt!Witnessed(Receipt!NoFile) /\ Receipt!RunWitnessed(Receipt!Idle)
  BY ConstantsTyped DEF Receipt!Witnessed, Receipt!RunWitnessed

\* A qualified receipt is the whole truth.
LEMMA QualifiedSeen ==
  ASSUME Receipt!MarksAssumption, Receipt!Typed, NEW v \in Receipt!Receipts,
        Receipt!Witnessed(v), Receipt!Qualified(v)
  PROVE  s5 > 0 /\ s4.shown /\ s6 = Entries
  BY DEF Receipt!MarksAssumption, Receipt!Typed, Receipt!Witnessed, Receipt!Qualified

\* A step of one program that leaves the phone's history alone.
LEMMA RunStep ==
  ASSUME Receipt!MenuInv, NEW p \in Programs, NEW r \in Receipt!Runs,
        Receipt!RunWitnessed(r),
         s3' = [s3 EXCEPT ![p] = r], UNCHANGED <<s4, s5, s6, s7>>,
         s1' \in {s1, s2},
         s2' \in {s2, Receipt!Torn, Receipt!NoFile, s3[p].value}
  PROVE  Receipt!MenuInv'
<1>1. s2' \in Receipt!Receipts /\ Receipt!Witnessed(s2')
  BY ConstantsTyped, MarksWitnessed DEF Receipt!MenuInv, Receipt!Typed,
           Receipt!RunWitnessed, Receipt!Runs
<1>2. Receipt!Typed'
  BY <1>1 DEF Receipt!MenuInv, Receipt!Typed
<1>3. \A v : Receipt!Witnessed(v)' <=> Receipt!Witnessed(v)
  BY DEF Receipt!Witnessed
<1> QED
  BY <1>1, <1>2 DEF Receipt!MenuInv, Receipt!Typed, Receipt!Witnessed,
           Receipt!RunWitnessed, Receipt!FlashQualified

LEMMA MenuInitHolds == Receipt!MenuInit => Receipt!MenuInv
<1> SUFFICES ASSUME Receipt!MenuInit PROVE Receipt!MenuInv
  OBVIOUS
<1>1. Receipt!Typed
  BY ConstantsTyped DEF Receipt!MenuInit, Receipt!Typed
<1> QED
  BY <1>1, MarksWitnessed DEF Receipt!MenuInit, Receipt!MenuInv, Receipt!FlashQualified

LEMMA MenuStepHolds ==
  ASSUME Receipt!MarksAssumption, Receipt!MenuInv, [Receipt!MenuNext]_slots
  PROVE  Receipt!MenuInv'
<1> USE DEF Receipt!Files, Receipt!World
<1>1. ASSUME NEW p \in Programs, NEW e \in s6, Receipt!Manage(p, "record", e)
      PROVE  Receipt!MenuInv'
  <2> DEFINE r == [pc |-> "loaded", does |-> "record", value |-> s1, entry |-> e]
  <2>1. r \in Receipt!Runs /\ Receipt!RunWitnessed(r)
    BY DEF Receipt!MenuInv, Receipt!Typed, Receipt!Runs, Receipt!RunWitnessed
  <2> QED
    BY <1>1, <2>1, RunStep DEF Receipt!Manage
<1>2. ASSUME NEW p \in Programs, Receipt!Manage(p, "install", "none")
      PROVE  Receipt!MenuInv'
  <2> DEFINE r == [pc |-> "loaded", does |-> "install", value |-> s1,
                   entry |-> "none"]
  <2>1. r \in Receipt!Runs /\ Receipt!RunWitnessed(r)
    BY DEF Receipt!MenuInv, Receipt!Typed, Receipt!Runs, Receipt!RunWitnessed
  <2> QED
    BY <1>2, <2>1, RunStep DEF Receipt!Manage
<1>3. ASSUME NEW p \in Programs, Receipt!RecordOutcome(p)
      PROVE  Receipt!MenuInv'
  <2>1. CASE Receipt!MayRecord(s3[p].value)
    <3> DEFINE v == Receipt!WithEntry(s3[p].value, s3[p].entry)
               r == [s3[p] EXCEPT !.pc = "save", !.value = v]
    <3>1. s3[p] \in Receipt!Runs /\ s3[p].value \in Receipt!Receipts /\ s3[p].entry \in s6
          /\ s6 \subseteq Entries /\ Receipt!RunWitnessed(s3[p])
      BY <1>3 DEF Receipt!MenuInv, Receipt!Typed, Receipt!Runs, Receipt!RunWitnessed,
               Receipt!RecordOutcome
    <3>2. v \in Receipt!Receipts /\ Receipt!Witnessed(v)
      BY <3>1 DEF Receipt!WithEntry, Receipt!Receipts, Receipt!Witnessed,
               Receipt!RunWitnessed
    <3>3. r \in Receipt!Runs /\ Receipt!RunWitnessed(r)
      BY <3>1, <3>2 DEF Receipt!Runs, Receipt!RunWitnessed
    <3>4. s3' = [s3 EXCEPT ![p] = r]
      BY <1>3, <2>1 DEF Receipt!RecordOutcome
    <3> QED
      BY <1>3, <3>3, <3>4, RunStep DEF Receipt!RecordOutcome
  <2>2. CASE ~Receipt!MayRecord(s3[p].value)
    <3>1. s3' = [s3 EXCEPT ![p] = Receipt!Idle]
      BY <1>3, <2>2 DEF Receipt!RecordOutcome
    <3> QED
      BY <1>3, <3>1, ConstantsTyped, MarksWitnessed, RunStep DEF Receipt!RecordOutcome
  <2> QED
    BY <2>1, <2>2
<1>4. ASSUME NEW p \in Programs, Receipt!Install(p)
      PROVE  Receipt!MenuInv'
  <2>1. s7' \in BOOLEAN /\ (s7' => s7 \/ Receipt!Qualified(s3[p].value))
    BY <1>4 DEF Receipt!MenuInv, Receipt!Typed, Receipt!Install, Receipt!HostPreflight,
             Receipt!FastbootPreflight
  <2>2. s3[p].value \in Receipt!Receipts /\ Receipt!Witnessed(s3[p].value)
    BY DEF Receipt!MenuInv, Receipt!Typed, Receipt!Runs, Receipt!RunWitnessed
  <2>3. s7' => s5 > 0 /\ s4.shown /\ s6 = Entries
    BY <2>1, <2>2, QualifiedSeen DEF Receipt!MenuInv, Receipt!FlashQualified
  <2>4. /\ s3' = [s3 EXCEPT ![p] = Receipt!Idle]
        /\ UNCHANGED <<s1, s2, s4, s5, s6>>
    BY <1>4 DEF Receipt!Install
  <2>5. Receipt!Typed'
    BY <2>1, <2>4, ConstantsTyped DEF Receipt!MenuInv, Receipt!Typed
  <2>6. \A q \in Programs : Receipt!RunWitnessed(s3[q])'
    BY <2>4, ConstantsTyped, MarksWitnessed
    DEF Receipt!MenuInv, Receipt!Typed, Receipt!RunWitnessed, Receipt!Witnessed
  <2> QED
    BY <2>3, <2>4, <2>5, <2>6 DEF Receipt!MenuInv, Receipt!Witnessed, Receipt!FlashQualified
<1>5. ASSUME NEW p \in Programs,
             Receipt!SaveOpen(p) \/ Receipt!SaveWrite(p)
      PROVE  Receipt!MenuInv'
  <2> PICK c \in {"saving", "rename"} :
         s3' = [s3 EXCEPT ![p] = [s3[p] EXCEPT !.pc = c]]
    BY <1>5 DEF Receipt!SaveOpen, Receipt!SaveWrite
  <2>1. [s3[p] EXCEPT !.pc = c] \in Receipt!Runs
        /\ Receipt!RunWitnessed([s3[p] EXCEPT !.pc = c])
    BY DEF Receipt!MenuInv, Receipt!Typed, Receipt!Runs, Receipt!RunWitnessed
  <2> QED
    BY <1>5, <2>1, RunStep DEF Receipt!SaveOpen, Receipt!SaveWrite
<1>6. ASSUME NEW p \in Programs, Receipt!SaveRename(p)
      PROVE  Receipt!MenuInv'
  BY <1>6, ConstantsTyped, MarksWitnessed, RunStep DEF Receipt!SaveRename
<1>7. ASSUME NEW p \in Programs, NEW phase \in {"temporary", "installed"},
             Receipt!VerifyStart(p, phase)
      PROVE  Receipt!MenuInv'
  <2> DEFINE r == [Receipt!Idle EXCEPT !.pc = "runtime", !.does = phase]
  <2>1. s5 > 0
    BY <1>7, QualifiedSeen DEF Receipt!VerifyStart, Receipt!MenuInv, Receipt!Typed
  <2>2. r \in Receipt!Runs /\ r.value = Receipt!Empty /\ r.does = phase
    BY ConstantsTyped DEF Receipt!Runs
  <2>3. Receipt!RunWitnessed(r)
    BY <2>1, <2>2, MarksWitnessed DEF Receipt!RunWitnessed
  <2> QED
    BY <1>7, <2>2, <2>3, RunStep DEF Receipt!VerifyStart
<1>8. ASSUME NEW p \in Programs, Receipt!VerifyRuntime(p)
      PROVE  Receipt!MenuInv'
  <2>1. CASE s3' = [s3 EXCEPT ![p] = Receipt!Idle]
    BY <1>8, <2>1, ConstantsTyped, MarksWitnessed, RunStep DEF Receipt!VerifyRuntime
  <2>2. CASE s3' = [s3 EXCEPT ![p].pc = "proved"]
    <3>1. [s3[p] EXCEPT !.pc = "proved"] \in Receipt!Runs
          /\ Receipt!RunWitnessed([s3[p] EXCEPT !.pc = "proved"])
      <4>1. s3[p] \in Receipt!Runs /\ Receipt!RunWitnessed(s3[p])
            /\ s3[p].pc = "runtime"
        BY <1>8 DEF Receipt!VerifyRuntime, Receipt!MenuInv, Receipt!Typed
      <4>2. s4.shown
        <5>1. s4.direct \/ s3' = [s3 EXCEPT ![p] = Receipt!Idle]
          BY <1>8 DEF Receipt!VerifyRuntime, Receipt!Runtime
        <5>2. [s3 EXCEPT ![p].pc = "proved"][p].pc = "proved"
              /\ [s3 EXCEPT ![p] = Receipt!Idle][p].pc = "idle"
          BY <4>1, ConstantsTyped DEF Receipt!MenuInv, Receipt!Typed, Receipt!Runs
        <5>3. s4.direct
          BY <2>2, <5>1, <5>2
        <5> QED
          BY <5>3 DEF Receipt!MenuInv, Receipt!Typed
      <4> QED
        BY <4>1, <4>2 DEF Receipt!Runs, Receipt!RunWitnessed
    <3> QED
      BY <1>8, <2>2, <3>1, RunStep DEF Receipt!VerifyRuntime
  <2> QED
    BY <1>8, <2>1, <2>2 DEF Receipt!VerifyRuntime
<1>9. ASSUME NEW p \in Programs, Receipt!VerifyProof(p)
      PROVE  Receipt!MenuInv'
  <2>1. CASE s1 = Receipt!Torn
    BY <1>9, <2>1, ConstantsTyped, MarksWitnessed, RunStep DEF Receipt!VerifyProof
  <2>2. CASE s1 # Receipt!Torn
    <3> DEFINE v == [s1 EXCEPT !.proof = TRUE,
                                    !.launch = @ \/ s3[p].does = "temporary",
                                    !.readback = @ \/ s3[p].does = "installed"]
               r == [s3[p] EXCEPT !.pc = "save", !.value = v]
    <3>1. s3[p] \in Receipt!Runs /\ s1 \in Receipt!Receipts /\ Receipt!RunWitnessed(s3[p])
      BY DEF Receipt!MenuInv, Receipt!Typed
    <3>2. s5 > 0 /\ s4.shown
      BY <1>9, <3>1 DEF Receipt!VerifyProof, Receipt!RunWitnessed
    <3>3. v \in Receipt!Receipts /\ v.passed = s1.passed
      BY <3>1 DEF Receipt!Receipts
    <3>4. Receipt!Witnessed(v)
      BY <3>2, <3>3 DEF Receipt!MenuInv, Receipt!Witnessed
    <3>5. r \in Receipt!Runs /\ Receipt!RunWitnessed(r)
      BY <3>1, <3>3, <3>4 DEF Receipt!Runs, Receipt!RunWitnessed
    <3> QED
      BY <1>9, <2>2, <3>5, RunStep DEF Receipt!VerifyProof
  <2> QED
    BY <2>1, <2>2
<1>10. ASSUME NEW p \in Programs, Receipt!Killed(p)
       PROVE  Receipt!MenuInv'
  BY <1>10, ConstantsTyped, MarksWitnessed, RunStep DEF Receipt!Killed
<1>11. CASE Receipt!Launch \/ Receipt!Restart
  <2>1. /\ s4' \in [direct : BOOLEAN, prefix : BOOLEAN, shown : BOOLEAN] /\ s5' \in Nat
        /\ s4'.direct => s4'.shown
        /\ s4.shown => s4'.shown
        /\ s5 > 0 => s5' > 0
        /\ UNCHANGED <<s1, s2, s3, s6, s7>>
    <3>1. s7 \in BOOLEAN /\ s5 \in Nat /\ s4.shown \in BOOLEAN
      BY DEF Receipt!MenuInv, Receipt!Typed
    <3>2. PICK direct \in BOOLEAN : Receipt!Started(direct)
      BY <1>11, <3>1 DEF Receipt!Launch, Receipt!Restart
    <3>3. /\ s4' = [direct |-> direct, prefix |-> s7, shown |-> s4.shown \/ direct]
          /\ s5' \in {s5, 1} /\ UNCHANGED <<s1, s2, s3, s6, s7>>
      BY <1>11, <3>2 DEF Receipt!Started, Receipt!Launch, Receipt!Restart
    <3> QED
      BY <3>1, <3>3
  <2> QED
    BY <2>1 DEF Receipt!MenuInv, Receipt!Typed, Receipt!Witnessed, Receipt!RunWitnessed,
             Receipt!FlashQualified
<1>12. ASSUME NEW e \in Entries, Receipt!Try(e)
       PROVE  Receipt!MenuInv'
  BY <1>12 DEF Receipt!Try, Receipt!MenuInv, Receipt!Typed, Receipt!Witnessed,
           Receipt!RunWitnessed, Receipt!FlashQualified
<1>13. CASE UNCHANGED slots
  BY <1>13 DEF slots, Receipt!MenuInv, Receipt!Typed, Receipt!Witnessed,
           Receipt!RunWitnessed, Receipt!FlashQualified
<1> QED
  BY <1>1, <1>2, <1>3, <1>4, <1>5, <1>6, <1>7, <1>8, <1>9, <1>10, <1>11, <1>12, <1>13
  DEF Receipt!MenuNext

-----------------------------------------------------------------------------
(* The dual boot: s1 the partition table, s2 the migration, s3 the flash       *)
(* program, s4 its records, s5 the partitions, s6 the flash commands, s7 the   *)
(* switch, s8 the phone, s9 the systems that started.                          *)

\* The parts of the invariant that a step leaves alone when it leaves their
\* variables alone.
LEMMA TableSame ==
  ASSUME Boot!DualInv, UNCHANGED <<s1, s2>>
  PROVE  (\E c \in Boot!Copies : Boot!Valid(c))' /\ Boot!WritesInOrder'
  BY DEF Boot!DualInv, Boot!Valid, Boot!WritesInOrder, Boot!After

LEMMA RecordsSame ==
  ASSUME Boot!DualInv, UNCHANGED <<s3, s4, s6>>
  PROVE  Boot!RecordsFirst'
  BY DEF Boot!DualInv, Boot!RecordsFirst

LEMMA UpSame ==
  ASSUME Boot!DualInv, UNCHANGED s9, s8' = s8 \/ s8' \notin Boot!Systems
  PROVE  Boot!UpHasRun'
  BY DEF Boot!DualInv, Boot!UpHasRun

\* A step of the migration that keeps a whole copy and its writes in order.
LEMMA MigrateStep ==
  ASSUME Boot!DualInv, UNCHANGED <<s3, s4, s5, s6, s7, s9>>,
         s8' = s8 \/ s8' = "off",
         s1' \in [Boot!Copies -> Boot!Sides], s2' \in Boot!Migrations,
         (\E c \in Boot!Copies : Boot!Valid(c))', Boot!WritesInOrder'
  PROVE  Boot!DualInv'
<1>1. Boot!RecordsFirst' /\ Boot!UpHasRun'
  BY RecordsSame, UpSame DEF Boot!Systems
<1>2. Boot!Typed' /\ Boot!RunsHere'
  BY DEF Boot!DualInv, Boot!Typed, Boot!RunsHere
<1> QED
  BY <1>1, <1>2 DEF Boot!DualInv

LEMMA MigrateHolds ==
  ASSUME Boot!DualInv,
         Boot!Plan \/ Boot!Reread \/ Boot!WriteFails \/ Boot!Written \/ Boot!Repartitioned
  PROVE  Boot!DualInv'
<1> USE DEF Boot!PhoneSame
<1>1. CASE Boot!Plan
  <2>1. s2' \in Boot!Migrations /\ UNCHANGED s1 /\ s2' = [pc |-> "planned", n |-> 0]
    BY <1>1 DEF Boot!Plan, Boot!Migrations
  <2>2. (\E c \in Boot!Copies : Boot!Valid(c))' /\ Boot!WritesInOrder'
    BY <2>1 DEF Boot!DualInv, Boot!Valid, Boot!WritesInOrder
  <2> QED
    BY <1>1, <2>1, <2>2, MigrateStep DEF Boot!Plan, Boot!DualInv, Boot!Typed
<1>2. CASE Boot!Reread
  <2>1. s2' \in Boot!Migrations /\ UNCHANGED s1 /\ s2'.n = s2.n
        /\ (s2'.pc = "write" => Boot!Buildable)
    BY <1>2 DEF Boot!Reread, Boot!Migrations, Boot!DualInv, Boot!Typed
  <2>2. (\E c \in Boot!Copies : Boot!Valid(c))'
    BY <2>1 DEF Boot!DualInv, Boot!Valid
  <2>3. Boot!WritesInOrder'
    BY <1>2, <2>1 DEF Boot!DualInv, Boot!WritesInOrder, Boot!Buildable, Boot!Copies,
         Boot!After, Boot!Typed, Boot!Migrations, Boot!Reread
  <2> QED
    BY <1>2, <2>1, <2>2, <2>3, MigrateStep DEF Boot!Reread, Boot!DualInv, Boot!Typed
<1>3. CASE Boot!WriteFails \/ Boot!Written
  <2>1. s2' \in Boot!Migrations /\ UNCHANGED s1 /\ s2'.pc = "idle"
    BY <1>3 DEF Boot!WriteFails, Boot!Written, Boot!Migrations, Boot!DualInv, Boot!Typed
  <2>2. (\E c \in Boot!Copies : Boot!Valid(c))' /\ Boot!WritesInOrder'
    BY <2>1 DEF Boot!DualInv, Boot!Valid, Boot!WritesInOrder
  <2> QED
    BY <1>3, <2>1, <2>2, MigrateStep DEF Boot!WriteFails, Boot!Written, Boot!DualInv,
         Boot!Typed
<1>4. CASE Boot!Repartitioned
  <2>1. UNCHANGED s2 /\ s2.pc = "planned"
        /\ s1' = [c \in Boot!Copies |-> [table |-> "other", header |-> "other"]]
    BY <1>4 DEF Boot!Repartitioned
  <2>2. s1' \in [Boot!Copies -> Boot!Sides]
    BY <2>1 DEF Boot!Sides, Boot!Layouts
  <2>3. (\E c \in Boot!Copies : Boot!Valid(c))' /\ Boot!WritesInOrder'
    BY <2>1 DEF Boot!DualInv, Boot!Copies, Boot!Valid, Boot!WritesInOrder
  <2> QED
    BY <1>4, <2>1, <2>2, <2>3, MigrateStep DEF Boot!Repartitioned, Boot!DualInv, Boot!Typed
<1> QED
  BY <1>1, <1>2, <1>3, <1>4

\* A write ends with its sectors whole or not; the copy it is not about is whole.
LEMMA WriteHolds ==
  ASSUME Boot!DualInv, Boot!Write
  PROVE  Boot!DualInv'
<1> DEFINE at == Boot!Changes[s2.n + 1]
<1>1. s2 \in Boot!Migrations /\ s1 \in [Boot!Copies -> Boot!Sides] /\ s2.n \in 0..3
      /\ s2.pc = "write" /\ Boot!WritesInOrder
  BY DEF Boot!Write, Boot!DualInv, Boot!Typed, Boot!Migrations, Boot!Changes
<1>2. /\ s2.n = 0 => at = <<"backup", "table">>
      /\ s2.n = 1 => at = <<"backup", "header">>
      /\ s2.n = 2 => at = <<"primary", "table">>
      /\ s2.n = 3 => at = <<"primary", "header">>
  BY <1>1 DEF Boot!Changes
<1>3. at[1] \in Boot!Copies /\ at[2] \in {"table", "header"}
  BY <1>1, <1>2 DEF Boot!Copies
<1>4. PICK left \in {s1[at[1]][at[2]], "new", "torn"} :
        s1' = [s1 EXCEPT ![at[1]][at[2]] = left]
  BY DEF Boot!Write
<1>5. left \in Boot!Layouts
  BY <1>1, <1>3 DEF Boot!Sides, Boot!Layouts
<1>6. s1' \in [Boot!Copies -> Boot!Sides]
  BY <1>1, <1>3, <1>4, <1>5 DEF Boot!Sides
<1>7. (\E c \in Boot!Copies : Boot!Valid(c))'
  <2>1. CASE s2.n \in {0, 1}
    <3>1. s1'["primary"] = s1["primary"] /\ Boot!Valid("primary")
      BY <1>1, <1>2, <1>4, <2>1 DEF Boot!Copies, Boot!WritesInOrder, Boot!After, Boot!Valid
    <3> QED
      BY <3>1 DEF Boot!Copies, Boot!Valid
  <2>2. CASE s2.n \in {2, 3}
    <3>1. s1'["backup"] = s1["backup"] /\ Boot!Valid("backup")
      BY <1>1, <1>2, <1>4, <2>2 DEF Boot!Copies, Boot!WritesInOrder, Boot!After, Boot!Valid
    <3> QED
      BY <3>1 DEF Boot!Copies, Boot!Valid
  <2> QED
    BY <1>1, <2>1, <2>2
<1>8. CASE s2' = [s2 EXCEPT !.n = @ + 1] /\ UNCHANGED s8
           /\ s1' = [s1 EXCEPT ![at[1]][at[2]] = "new"]
  <2>1. s2' \in Boot!Migrations /\ s2'.pc = "write" /\ s2'.n = s2.n + 1
    BY <1>1, <1>8 DEF Boot!Migrations
  <2>2. Boot!WritesInOrder'
    <3>1. CASE s2.n = 0
      BY <1>1, <1>2, <1>8, <2>1, <3>1 DEF Boot!WritesInOrder, Boot!After, Boot!Copies,
               Boot!Sides
    <3>2. CASE s2.n = 1
      BY <1>1, <1>2, <1>8, <2>1, <3>2 DEF Boot!WritesInOrder, Boot!After, Boot!Copies,
               Boot!Sides
    <3>3. CASE s2.n = 2
      BY <1>1, <1>2, <1>8, <2>1, <3>3 DEF Boot!WritesInOrder, Boot!After, Boot!Copies,
               Boot!Sides
    <3>4. CASE s2.n = 3
      BY <1>1, <1>2, <1>8, <2>1, <3>4 DEF Boot!WritesInOrder, Boot!After, Boot!Copies,
               Boot!Sides
    <3> QED
      BY <1>1, <3>1, <3>2, <3>3, <3>4
  <2> QED
    BY <1>6, <1>7, <1>8, <2>1, <2>2, MigrateStep DEF Boot!Write
<1>9. CASE s2' = [s2 EXCEPT !.pc = "idle"] /\ s8' = "off"
  <2>1. s2' \in Boot!Migrations /\ s2'.pc = "idle"
    BY <1>1, <1>9 DEF Boot!Migrations
  <2>2. Boot!WritesInOrder'
    BY <2>1 DEF Boot!WritesInOrder
  <2> QED
    BY <1>6, <1>7, <1>9, <2>1, <2>2, MigrateStep DEF Boot!Write
<1> QED
  BY <1>8, <1>9 DEF Boot!Write

\* A step of a flash program: the table stays, and what is flashed has a record.
LEMMA FlashHolds ==
  ASSUME Boot!DualInv,
         Boot!MobianChecked \/ Boot!AndroidChecked \/ Boot!Flash \/ Boot!FlashBoot
           \/ Boot!FlasherDies
  PROVE  Boot!DualInv'
<1> USE DEF Boot!RestSame
<1>1. Boot!Typed /\ Boot!RecordsFirst /\ Boot!RunsHere
  BY DEF Boot!DualInv
<1>2. /\ UNCHANGED <<s1, s2, s7>>
      /\ (\E c \in Boot!Copies : Boot!Valid(c))' /\ Boot!WritesInOrder'
  BY TableSame DEF Boot!MobianChecked, Boot!AndroidChecked, Boot!Flash, Boot!FlashBoot,
       Boot!FlasherDies
<1>3. Boot!UpHasRun'
  <2>1. CASE UNCHANGED <<s8, s9>>
    BY <2>1, UpSame
  <2>2. CASE s8' \in {"start mobian", "start default"}
    BY <2>2 DEF Boot!UpHasRun, Boot!Systems
  <2> QED
    BY <2>1, <2>2 DEF Boot!MobianChecked, Boot!AndroidChecked, Boot!Flash, Boot!FlashBoot,
         Boot!FlasherDies
<1>4. ASSUME NEW p \in Boot!Images, Boot!NoRecord(p),
             s3' = [pc |-> "flash", for |-> p], s4' = [s4 EXCEPT ![p] = "starting"],
             UNCHANGED s6
      PROVE  Boot!DualInv'
  <2>1. s3' \in Boot!Flashers /\ s4' \in [Boot!Images -> {"none", "starting", "flashed",
        "booted"}]
        /\ s3'.for \in Boot!Images
    BY <1>1, <1>4 DEF Boot!Flashers, Boot!Typed
  <2>2. Boot!RecordsFirst'
    BY <1>1, <1>4 DEF Boot!RecordsFirst, Boot!NoRecord, Boot!Typed
  <2>3. Boot!Typed' /\ Boot!RunsHere'
    BY <1>1, <1>2, <1>4, <2>1 DEF Boot!Typed, Boot!RunsHere
  <2> QED
    BY <1>2, <1>3, <2>2, <2>3 DEF Boot!DualInv
<1>5. CASE Boot!MobianChecked
  BY <1>4, <1>5 DEF Boot!MobianChecked, Boot!Images
<1>6. CASE Boot!AndroidChecked
  BY <1>4, <1>6 DEF Boot!AndroidChecked, Boot!Images
<1>7. CASE Boot!Flash
  <2>1. s3 \in Boot!Flashers /\ s3.for \in Boot!Images /\ s3 = [pc |-> "flash",
        for |-> s3.for]
    BY <1>1, <1>7 DEF Boot!Flash, Boot!Typed, Boot!Flashers, Boot!RunsHere
  <2>2. s6[s3.for] = 0 /\ s4[s3.for] # "none"
    BY <1>1, <2>1 DEF Boot!RecordsFirst
  <2>3. s6' = [s6 EXCEPT ![s3.for] = 1] /\ s6' \in [Boot!Images -> Nat]
    BY <1>1, <1>7, <2>1, <2>2 DEF Boot!Flash, Boot!Typed
  <2>4. /\ s3' \in Boot!Flashers /\ s3'.pc # "flash"
        /\ s3'.pc # "idle" => s3'.for \in Boot!Images
        /\ s4' = s4 \/ s4' = [s4 EXCEPT ![s3.for] = "flashed"]
    BY <1>7, <2>1 DEF Boot!Flash, Boot!Flashers
  <2>5. /\ s4' \in [Boot!Images -> {"none", "starting", "flashed", "booted"}]
        /\ s4'[s3.for] # "none"
        /\ \A p \in Boot!Images \ {s3.for} : s4'[p] = s4[p] /\ s6'[p] = s6[p]
    BY <1>1, <2>1, <2>2, <2>3, <2>4 DEF Boot!Typed
  <2>6. Boot!RecordsFirst'
    BY <1>1, <2>1, <2>3, <2>4, <2>5 DEF Boot!RecordsFirst, Boot!Typed
  <2>7. Boot!Typed' /\ Boot!RunsHere'
    BY <1>1, <1>2, <2>3, <2>4, <2>5 DEF Boot!Typed, Boot!RunsHere
  <2> QED
    BY <1>2, <1>3, <2>6, <2>7 DEF Boot!DualInv
<1>8. CASE Boot!FlashBoot \/ Boot!FlasherDies
  <2>1. s3' = [pc |-> "idle", for |-> "none"] /\ UNCHANGED s6
    BY <1>8 DEF Boot!FlashBoot, Boot!FlasherDies
  <2>2. s4' = s4 \/ (s3.for \in Boot!Images /\ s4' = [s4 EXCEPT ![s3.for] = "booted"])
    BY <1>1, <1>8 DEF Boot!FlashBoot, Boot!FlasherDies, Boot!RunsHere
  <2>3. Boot!RecordsFirst'
    BY <1>1, <2>1, <2>2 DEF Boot!RecordsFirst, Boot!Typed
  <2>4. s3' \in Boot!Flashers
        /\ s4' \in [Boot!Images -> {"none", "starting", "flashed", "booted"}]
    BY <1>1, <2>1, <2>2 DEF Boot!Flashers, Boot!Typed
  <2>5. Boot!Typed' /\ Boot!RunsHere'
    BY <1>1, <1>2, <2>1, <2>4 DEF Boot!Typed, Boot!RunsHere
  <2> QED
    BY <1>2, <1>3, <2>3, <2>5 DEF Boot!DualInv
<1> QED
  BY <1>5, <1>6, <1>7, <1>8

\* A step of the switch or of the phone: only a system that finished its start is up.
LEMMA SwitchHolds ==
  ASSUME Boot!DualInv,
         \/ \E os \in Boot!Systems : Boot!SwitchTo(os)
         \/ Boot!Find \/ Boot!AwaitFastboot \/ Boot!SwitchBoot \/ Boot!Confirm
         \/ Boot!SwitchExit \/ Boot!PhoneStep
  PROVE  Boot!DualInv'
<1> USE DEF Boot!DiskSame
<1>1. Boot!Typed /\ Boot!RunsHere
  BY DEF Boot!DualInv
<1>2. /\ UNCHANGED <<s1, s2, s3, s4, s6>>
      /\ (\E c \in Boot!Copies : Boot!Valid(c))' /\ Boot!WritesInOrder'
           /\ Boot!RecordsFirst'
  <2>1. UNCHANGED <<s1, s2, s3, s4, s6>>
    BY DEF Boot!SwitchTo, Boot!Find, Boot!AwaitFastboot, Boot!SwitchBoot, Boot!Confirm,
         Boot!SwitchExit, Boot!PhoneStep
  <2> QED
    BY <2>1, TableSame, RecordsSame
<1>3. s7' \in Boot!Switches /\ (s7'.pc # "idle" => s7'.os \in Boot!Systems)
  <2>1. ASSUME NEW os \in Boot!Systems, Boot!SwitchTo(os)
        PROVE  s7' \in Boot!Switches /\ (s7'.pc # "idle" => s7'.os \in Boot!Systems)
    BY <2>1 DEF Boot!SwitchTo, Boot!Switches
  <2>2. ASSUME NEW p \in {"bootloader", "boot", "confirm", "confirmed", "stopped"},
               s7' = [s7 EXCEPT !.pc = p], s7.pc # "idle"
        PROVE  s7' \in Boot!Switches /\ (s7'.pc # "idle" => s7'.os \in Boot!Systems)
    BY <1>1, <2>2 DEF Boot!Typed, Boot!Switches, Boot!RunsHere
  <2>3. CASE Boot!Find
    BY <2>2, <2>3 DEF Boot!Find
  <2>4. CASE Boot!AwaitFastboot \/ Boot!SwitchBoot \/ Boot!Confirm
    BY <2>2, <2>4 DEF Boot!AwaitFastboot, Boot!SwitchBoot, Boot!Confirm
  <2>5. CASE Boot!SwitchExit
    BY <2>5 DEF Boot!SwitchExit, Boot!Switches
  <2>6. CASE Boot!PhoneStep
    BY <1>1, <2>6 DEF Boot!PhoneStep, Boot!Typed, Boot!RunsHere
  <2> QED
    BY <2>1, <2>3, <2>4, <2>5, <2>6
<1>4. Boot!UpHasRun'
  <2>1. CASE s9' = s9 /\ (s8' = s8 \/ s8' \notin Boot!Systems)
    BY <2>1, UpSame
  <2>2. CASE s8' \in {"start mobian", "start android"}
    BY <2>2 DEF Boot!UpHasRun, Boot!Systems
  <2>3. CASE Boot!PhoneStep
    <3>1. CASE s8' \in Boot!Systems /\ s9' = s9 \cup {s8'}
      BY <3>1 DEF Boot!UpHasRun
    <3> QED
      BY <2>1, <2>3, <3>1 DEF Boot!PhoneStep, Boot!Systems
  <2> QED
    BY <2>1, <2>2, <2>3 DEF Boot!SwitchTo, Boot!Find, Boot!AwaitFastboot, Boot!SwitchBoot,
         Boot!Confirm, Boot!SwitchExit, Boot!Systems
<1> QED
  BY <1>1, <1>2, <1>3, <1>4 DEF Boot!DualInv, Boot!Typed, Boot!RunsHere

LEMMA DualInitHolds == Boot!DualInit => Boot!DualInv
<1> SUFFICES ASSUME Boot!DualInit PROVE Boot!DualInv
  OBVIOUS
<1>1. Boot!Typed
  BY DEF Boot!DualInit, Boot!Typed, Boot!Sides, Boot!Layouts, Boot!Migrations,
           Boot!Flashers,
       Boot!Switches, Boot!Images
<1>2. (\E c \in Boot!Copies : Boot!Valid(c))
  BY DEF Boot!DualInit, Boot!Copies, Boot!Valid
<1>3. Boot!WritesInOrder /\ Boot!RecordsFirst /\ Boot!RunsHere /\ Boot!UpHasRun
  BY DEF Boot!DualInit, Boot!WritesInOrder, Boot!RecordsFirst, Boot!RunsHere, Boot!UpHasRun,
       Boot!Systems, Boot!Images
<1> QED
  BY <1>1, <1>2, <1>3 DEF Boot!DualInv

LEMMA DualStepHolds ==
  ASSUME Boot!DualInv, [Boot!DualNext]_slots
  PROVE  Boot!DualInv'
<1>1. CASE Boot!DualNext
  BY <1>1, MigrateHolds, WriteHolds, FlashHolds, SwitchHolds DEF Boot!DualNext
<1>2. CASE UNCHANGED slots
  BY <1>2 DEF slots, Boot!DualInv, Boot!Typed, Boot!Valid, Boot!WritesInOrder, Boot!After,
       Boot!RecordsFirst, Boot!RunsHere, Boot!UpHasRun
<1> QED
  BY <1>1, <1>2

\* What the invariant says of the table and of the flashes.
LEMMA DualMeans == Boot!DualInv => Boot!OneCopyWhole /\ Boot!FlashedOnce
<1> SUFFICES ASSUME Boot!DualInv PROVE Boot!OneCopyWhole /\ Boot!FlashedOnce
  OBVIOUS
<1>1. PICK c \in Boot!Copies : Boot!Valid(c)
  BY DEF Boot!DualInv
<1>2. s1[c].table \in Boot!Layouts \ {"torn"}
  BY <1>1 DEF Boot!DualInv, Boot!Typed, Boot!Valid, Boot!Sides
<1>3. Boot!OneCopyWhole
  BY <1>1, <1>2 DEF Boot!OneCopyWhole, Boot!Layout, Boot!Valid, Boot!Copies, Boot!DualInv,
       Boot!Typed, Boot!Sides, Boot!Layouts
<1>4. Boot!FlashedOnce
  BY DEF Boot!FlashedOnce, Boot!DualInv, Boot!Typed, Boot!RecordsFirst
<1> QED
  BY <1>3, <1>4

\* Only a poll that found the requested system confirms.
LEMMA SwitchMeans ==
  ASSUME Boot!DualInv, [Boot!DualNext]_slots
  PROVE  Boot!SwitchTruth
<1> SUFFICES ASSUME s7.pc = "confirm", s7'.pc = "confirmed"
             PROVE  s7.os \in s9
  BY DEF Boot!SwitchTruth
<1>1. s7 \in Boot!Switches /\ s7.os \in Boot!Systems /\ s7' # s7
  BY DEF Boot!DualInv, Boot!Typed, Boot!RunsHere
<1>2. ~(Boot!Plan \/ Boot!Reread \/ Boot!WriteFails \/ Boot!Written \/ Boot!Repartitioned
        \/ Boot!Write)
  BY <1>1 DEF Boot!Plan, Boot!Reread, Boot!WriteFails, Boot!Written, Boot!Repartitioned,
       Boot!Write, Boot!PhoneSame
<1>3. ~(Boot!MobianChecked \/ Boot!AndroidChecked \/ Boot!Flash \/ Boot!FlashBoot
        \/ Boot!FlasherDies \/ Boot!PhoneStep)
  BY <1>1 DEF Boot!MobianChecked, Boot!AndroidChecked, Boot!Flash, Boot!FlashBoot,
       Boot!FlasherDies, Boot!PhoneStep, Boot!RestSame
<1>4. ~((\E os \in Boot!Systems : Boot!SwitchTo(os)) \/ Boot!Find \/ Boot!AwaitFastboot
        \/ Boot!SwitchBoot \/ Boot!SwitchExit)
  BY DEF Boot!SwitchTo, Boot!Find, Boot!AwaitFastboot, Boot!SwitchBoot, Boot!SwitchExit
<1>5. Boot!Confirm
  BY <1>1, <1>2, <1>3, <1>4 DEF Boot!DualNext, slots
<1>6. s7' # [s7 EXCEPT !.pc = "stopped"]
  BY <1>1 DEF Boot!Switches
<1>7. s8 = s7.os
  BY <1>5, <1>6 DEF Boot!Confirm, Boot!Confirms
<1> QED
  BY <1>1, <1>7 DEF Boot!DualInv, Boot!UpHasRun

-----------------------------------------------------------------------------
(* The idle trial: s1 the radios, s2 the action on the PC, s3 the baseline, s4 *)
(* whether its start is saved, s5 whether the PC knows it, s6 the return, s7   *)
(* the cable, s8 whether the trial was armed, s9 a refused restoration.        *)

LEMMA RadiosInitHolds == Idle!IdleInit => Idle!RadiosInv
  BY DEF Idle!IdleInit, Idle!RadiosInv

LEMMA RadiosStepHolds ==
  ASSUME Idle!RadiosInv, [Idle!IdleNext]_slots
  PROVE  Idle!RadiosInv'
<1>1. Idle!IdleNext \/ UNCHANGED <<s1, s2, s3, s4, s5, s6, s7, s8, s9>>
  BY DEF slots
<1> USE <1>1 DEF Idle!IdleNext, Idle!Arm, Idle!ArmRadios, Idle!ArmStart, Idle!PhoneSame,
      Idle!ArmRestore, Idle!ReturnRestore, Idle!Restore, Idle!ReturnBattery,
      Idle!ReturnRead, Idle!AfterRead, Idle!Waiting, Idle!Settling, Idle!Reading,
      Idle!ScriptFails, Idle!ScriptSame, Idle!Power
<1>2. s1' \in {"original", "off"}
  BY DEF Idle!RadiosInv
<1>3. s5' \in BOOLEAN /\ s6' \in BOOLEAN /\ s8' \in BOOLEAN /\ s9' \in BOOLEAN
  BY DEF Idle!RadiosInv
<1>4. s6' => s8'
  BY DEF Idle!RadiosInv
<1>5. s2' \in {"arm radios", "arm start", "arm restore"} => ~s6'
  BY DEF Idle!RadiosInv
<1>6. s2' = "none" /\ s1' = "off" => s9' \/ (s5' /\ ~s6')
  BY DEF Idle!RadiosInv
<1> QED
  BY <1>2, <1>3, <1>4, <1>5, <1>6 DEF Idle!RadiosInv

LEMMA RadiosMean == Idle!RadiosInv => Idle!RadiosBack
  BY DEF Idle!RadiosInv, Idle!RadiosBack

-----------------------------------------------------------------------------
(* The recovery control: s1 the program that arms, s2 the script, s3 the phone, *)
(* s4 the log, s5 the bound on what others do, s6 the report.                   *)

\* What a move of the script leaves alone.
ScriptKeeps ==
  /\ s2'.owned = s2.owned /\ s2'.target = s2.target /\ s2'.restored = s2.restored
  /\ s2'.refused = s2.refused /\ s2'.trap \in BOOLEAN

LEMMA GotoIs ==
  ASSUME Recovery!Typed, NEW a, Recovery!Goto(a),
         a \in Recovery!Early \cup Recovery!Measures \cup Recovery!Restores
  PROVE  s2' \in Recovery!Scripts /\ s2'.at = a /\ ScriptKeeps /\ s2'.trap = s2.trap
  BY DEF Recovery!Typed, Recovery!Goto, Recovery!Scripts, ScriptKeeps

LEMMA ExitIs ==
  ASSUME Recovery!Typed, Recovery!Exit
  PROVE  /\ s2' \in Recovery!Scripts /\ ScriptKeeps
         /\ s2'.at \in {"cut", "dead", "restore alarm"}
         /\ s2'.at = "dead" => s2.restored
<1> USE DEF Recovery!Typed, Recovery!Exit, Recovery!Scripts, Recovery!Measures,
        Recovery!Restores, ScriptKeeps
<1>1. CASE s2.trap
  BY <1>1
<1>2. CASE ~s2.trap /\ s2.restored
  BY <1>2
<1>3. CASE ~s2.trap /\ ~s2.restored
  BY <1>3
<1> QED
  BY <1>1, <1>2, <1>3

LEMMA RowsAre ==
  ASSUME Recovery!Typed,
         NEW name \in {"WAITING_FOR_UNPLUG", "BEFORE", "EARLY_USB", "WAKE", "AFTER",
                       "RESTORATION", "FINISHED"}
  PROVE  /\ Recovery!Snapshot(name) \in Recovery!Rows /\ Recovery!Snapshot(name).line = name
         /\ Recovery!Line(name) \in Recovery!Rows /\ Recovery!Line(name).line = name
  BY DEF Recovery!Typed, Recovery!Snapshot, Recovery!Line, Recovery!Rows, Recovery!Phones

LEMMA LogGrows ==
  ASSUME NEW rows \in Seq(Recovery!Rows), NEW row \in Recovery!Rows
  PROVE  /\ Append(rows, row) \in Seq(Recovery!Rows)
         /\ Recovery!Finished(Append(rows, row)) =>
              Recovery!Finished(rows) \/ row.line = "FINISHED"
  BY DEF Recovery!Finished

\* What a step of the script keeps.
LEMMA ScriptKeepsInv ==
  ASSUME Recovery!ControlInv, s2.at # "absent", UNCHANGED <<s1, s6>>,
         s2' \in Recovery!Scripts, s3' \in Recovery!Phones, s4' \in Seq(Recovery!Rows),
         Recovery!AsFound',
         s2'.restored = s2.restored \/ (s2'.restored /\ s2'.at \in {"finish", "dead"}),
         s2.restored => s2'.at \in {"finish", "dead"},
         s2'.at = "finish" => s2'.restored /\ ~s2'.trap,
         s2'.at = "alarm" => s2'.owned,
         Recovery!Finished(s4') => Recovery!Finished(s4) \/ s2.restored
  PROVE  Recovery!ControlInv'
<1>1. Recovery!Typed'
  BY DEF Recovery!ControlInv, Recovery!Typed
<1>2. s1' \notin {"start", "pushed"}
  BY DEF Recovery!ControlInv
<1>3. s2.restored => s2'.restored
  OBVIOUS
<1>4. s2'.restored => s2'.at \in {"finish", "dead"}
  OBVIOUS
<1> QED
  BY <1>1, <1>2, <1>3, <1>4 DEF Recovery!ControlInv

LEMMA ControlInitHolds ==
  ASSUME Recovery!Init
  PROVE  Recovery!ControlInv
<1>1. s2 \in Recovery!Scripts /\ s2.at = "absent" /\ ~s2.restored
  BY DEF Recovery!Init, Recovery!NotRunning, Recovery!Scripts, Recovery!Early, Recovery!None
<1>2. s3 \in Recovery!Phones /\ Recovery!Quiet /\ s3.alarm = Recovery!None
  BY DEF Recovery!Init, Recovery!Phones, Recovery!Quiet,
       Recovery!SleepBack, Recovery!GovernorBack, Recovery!AlarmBack, Recovery!None
<1>3. s4 \in Seq(Recovery!Rows) /\ ~Recovery!Finished(s4)
  BY DEF Recovery!Init, Recovery!Finished
<1>4. s6 \in Recovery!Reports /\ s6.at = "none" /\ ~s6.valid
  BY DEF Recovery!Init, Recovery!Reports
<1>5. Recovery!AsFound
  BY <1>1, <1>2 DEF Recovery!AsFound, Recovery!AlarmBack
<1> QED
  BY <1>1, <1>2, <1>3, <1>4, <1>5 DEF Recovery!ControlInv, Recovery!Typed

\* The program that arms only starts the script.
LEMMA ArmHolds ==
  ASSUME Recovery!ControlInv, Recovery!Push \/ Recovery!Launch \/ Recovery!Confirm
  PROVE  Recovery!ControlInv'
<1>1. UNCHANGED <<s3, s4, s6>>
  BY DEF Recovery!Push, Recovery!Launch, Recovery!Confirm
<1>2. CASE UNCHANGED s2
  BY <1>1, <1>2 DEF Recovery!ControlInv, Recovery!Typed, Recovery!AsFound, Recovery!Quiet,
       Recovery!SleepBack, Recovery!GovernorBack, Recovery!AlarmBack,
     Recovery!Push, Recovery!Launch, Recovery!Confirm
<1>3. CASE Recovery!Launch
  <2>1. Recovery!Goto("preflight") /\ s1' = "launched" /\ s2.at = "absent"
    BY <1>3 DEF Recovery!Launch, Recovery!Goto, Recovery!ControlInv
  <2>2. s2' \in Recovery!Scripts /\ s2'.at = "preflight" /\ ScriptKeeps
    BY <2>1, GotoIs DEF Recovery!ControlInv, Recovery!Early
  <2>3. Recovery!AsFound'
    BY <1>1, <2>1, <2>2 DEF Recovery!ControlInv, Recovery!AsFound, Recovery!Quiet,
       Recovery!SleepBack, Recovery!GovernorBack, Recovery!AlarmBack,
       Recovery!Early, ScriptKeeps
  <2> QED
    BY <1>1, <2>1, <2>2, <2>3 DEF Recovery!ControlInv, Recovery!Typed, ScriptKeeps
<1> QED
  BY <1>2, <1>3 DEF Recovery!Push, Recovery!Launch, Recovery!Confirm

\* A step of the measure, which may be followed by a restoration only.
LEMMA MeasureHolds ==
  ASSUME Recovery!ControlInv, s2.at \notin {"absent", "finish", "dead"},
         UNCHANGED <<s1, s6>>,
         s2' \in Recovery!Scripts, s2'.at \in Recovery!Measures,
         s2'.restored = s2.restored, s2'.at = "alarm" => s2'.owned,
         s3' \in Recovery!Phones,
         s3'.alarm \in {Recovery!None, Recovery!Theirs}
           \/ (s2'.owned /\ s3'.alarm = s2'.target),
         s4' \in Seq(Recovery!Rows), Recovery!Finished(s4') => Recovery!Finished(s4)
  PROVE  Recovery!ControlInv'
<1>1. ~s2.restored
  BY DEF Recovery!ControlInv
<1>2. s2'.at \notin Recovery!Early \cup Recovery!Restores
  BY DEF Recovery!Measures, Recovery!Early, Recovery!Restores
<1>3. Recovery!AsFound'
  BY <1>2 DEF Recovery!AsFound, Recovery!AlarmBack, Recovery!Restores
<1>4. s2'.at # "finish"
  BY <1>2 DEF Recovery!Restores
<1> QED
  BY <1>1, <1>3, <1>4, ScriptKeepsInv

\* The script leaves: a signal, a test that failed, or its own end.
LEMMA ExitHolds ==
  ASSUME Recovery!ControlInv, s2.at \notin {"absent", "dead"}, UNCHANGED <<s1, s6>>,
         Recovery!Exit,
         s3' \in Recovery!Phones, s3'.alarm = s3.alarm, s3' = s3 \/ s2.at # "finish",
         s4' \in Seq(Recovery!Rows), Recovery!Finished(s4') => Recovery!Finished(s4)
  PROVE  Recovery!ControlInv'
<1>1. /\ s2' \in Recovery!Scripts /\ ScriptKeeps
      /\ s2'.at \in {"cut", "dead", "restore alarm"}
      /\ s2'.at = "dead" => s2.restored
  BY ExitIs DEF Recovery!ControlInv
<1>2. Recovery!AsFound
  BY DEF Recovery!ControlInv
<1>3. CASE s2.restored
  <2>1. s2.at = "finish" /\ s2'.at = "dead"
    BY <1>3 DEF Recovery!ControlInv, Recovery!Exit
  <2>2. Recovery!AsFound'
    BY <1>1, <1>2, <2>1 DEF Recovery!AsFound, Recovery!Quiet,
       Recovery!SleepBack, Recovery!GovernorBack, Recovery!AlarmBack, Recovery!Restores,
             ScriptKeeps
  <2> QED
    BY <1>1, <1>3, <2>1, <2>2, ScriptKeepsInv DEF ScriptKeeps
<1>4. CASE ~s2.restored
  <2>1. s2'.at \in Recovery!Measures
    BY <1>1, <1>4 DEF Recovery!Measures
  <2>2. s2.at # "finish"
    BY <1>4 DEF Recovery!ControlInv
  <2>3. s3'.alarm \in {Recovery!None, Recovery!Theirs}
          \/ (s2'.owned /\ s3'.alarm = s2'.target)
    BY <1>1, <1>2 DEF Recovery!AsFound, Recovery!AlarmBack, ScriptKeeps
  <2>4. s2'.at # "alarm"
    BY <1>1
  <2> QED
    BY <1>1, <2>1, <2>2, <2>3, <2>4, MeasureHolds DEF ScriptKeeps
<1> QED
  BY <1>1, <1>3, <1>4 DEF Recovery!ControlInv, Recovery!Typed, Recovery!Scripts

\* Until it allows the sleep.
LEMMA EarlyHolds ==
  ASSUME Recovery!ControlInv, Recovery!Preflight \/ Recovery!AwaitUnplug
  PROVE  Recovery!ControlInv'
<1>1. /\ UNCHANGED <<s1, s3, s6>> /\ s2.at \in Recovery!Early /\ s2.at # "absent"
      /\ Recovery!Typed /\ Recovery!AsFound /\ ~s2.restored
      /\ s4 \in Seq(Recovery!Rows) /\ s3' \in Recovery!Phones
  BY DEF Recovery!Preflight, Recovery!AwaitUnplug, Recovery!At, Recovery!Early,
     Recovery!ControlInv, Recovery!Typed
<1>2. CASE Recovery!Preflight
  <2>1. \/ Recovery!Goto("unplug") /\ s4' = <<Recovery!Line("WAITING_FOR_UNPLUG")>>
        \/ Recovery!Goto("dead") /\ s4' = s4
    BY <1>2 DEF Recovery!Preflight
  <2>2. s2' \in Recovery!Scripts /\ s2'.at \in {"unplug", "dead"} /\ ScriptKeeps
    BY <1>1, <2>1, GotoIs DEF Recovery!Early, Recovery!Restores
  <2>3. s4' \in Seq(Recovery!Rows) /\ (Recovery!Finished(s4') => Recovery!Finished(s4))
    <3>1. Recovery!Line("WAITING_FOR_UNPLUG") \in Recovery!Rows
          /\ Recovery!Line("WAITING_FOR_UNPLUG").line # "FINISHED"
      BY <1>1, RowsAre
    <3>2. CASE s4' = s4
      BY <1>1, <3>2
    <3>3. CASE s4' = <<Recovery!Line("WAITING_FOR_UNPLUG")>>
      <4>1. s4' \in Seq(Recovery!Rows) /\ DOMAIN s4' = {1}
            /\ s4'[1] = Recovery!Line("WAITING_FOR_UNPLUG")
        BY <3>1, <3>3
      <4> QED
        BY <3>1, <4>1 DEF Recovery!Finished
    <3> QED
      BY <2>1, <3>2, <3>3
  <2>4. Recovery!AsFound'
    BY <1>1, <2>2 DEF Recovery!AsFound, Recovery!Quiet,
       Recovery!SleepBack, Recovery!GovernorBack, Recovery!AlarmBack, Recovery!Early,
             Recovery!Restores,
       ScriptKeeps
  <2>5. s2'.at \notin {"finish", "alarm"} /\ s2'.restored = s2.restored
    BY <2>2 DEF ScriptKeeps
  <2> QED
    BY <1>1, <2>2, <2>3, <2>4, <2>5, ScriptKeepsInv
<1>3. CASE Recovery!AwaitUnplug
  <2>1. (Recovery!Goto("policy") \/ Recovery!Exit) /\ s4' = s4
    BY <1>3 DEF Recovery!AwaitUnplug
  <2>2. CASE Recovery!Goto("policy")
    <3>1. s2' \in Recovery!Scripts /\ s2'.at = "policy" /\ ScriptKeeps
      BY <1>1, <2>2, GotoIs DEF Recovery!Early
    <3>2. Recovery!AsFound'
      BY <1>1, <3>1 DEF Recovery!AsFound, Recovery!Quiet,
       Recovery!SleepBack, Recovery!GovernorBack, Recovery!AlarmBack, Recovery!Early,
             Recovery!Restores,
         ScriptKeeps
    <3> QED
      BY <1>1, <2>1, <3>1, <3>2, ScriptKeepsInv DEF ScriptKeeps
  <2>3. CASE Recovery!Exit
    BY <1>1, <1>3, <2>1, <2>3, ExitHolds DEF Recovery!AwaitUnplug, Recovery!At
  <2> QED
    BY <2>1, <2>2, <2>3
<1> QED
  BY <1>2, <1>3

\* A move within the measure that keeps the alarm.
LEMMA MoveHolds ==
  ASSUME Recovery!ControlInv, s2.at \notin {"absent", "finish", "dead"},
         UNCHANGED <<s1, s6>>,
         NEW a \in Recovery!Measures, a # "alarm", Recovery!Goto(a),
         s3' \in Recovery!Phones, s3'.alarm \in {s3.alarm, Recovery!None},
         s4' \in Seq(Recovery!Rows), Recovery!Finished(s4') => Recovery!Finished(s4)
  PROVE  Recovery!ControlInv'
<1>1. s2' \in Recovery!Scripts /\ s2'.at = a /\ ScriptKeeps
  BY GotoIs DEF Recovery!ControlInv
<1>2. s3'.alarm \in {Recovery!None, Recovery!Theirs}
        \/ (s2'.owned /\ s3'.alarm = s2'.target)
  BY <1>1 DEF Recovery!ControlInv, Recovery!AsFound, Recovery!AlarmBack, ScriptKeeps
<1> QED
  BY <1>1, <1>2, MeasureHolds DEF ScriptKeeps

\* The policy of the measure.
LEMMA PolicyHolds ==
  ASSUME Recovery!ControlInv, Recovery!AllowSleep \/ Recovery!Powersave
  PROVE  Recovery!ControlInv'
<1>1. /\ UNCHANGED <<s1, s4, s6>> /\ s2.at \in {"policy", "powersave"}
      /\ s4 \in Seq(Recovery!Rows) /\ s3 \in Recovery!Phones
  BY DEF Recovery!AllowSleep, Recovery!Powersave, Recovery!At, Recovery!ControlInv,
     Recovery!Typed
<1>2. s3' \in Recovery!Phones /\ s3'.alarm = s3.alarm
  BY <1>1 DEF Recovery!AllowSleep, Recovery!Powersave, Recovery!Phones
<1>3. Recovery!Goto("powersave") \/ Recovery!Goto("before") \/ Recovery!Exit
  BY DEF Recovery!AllowSleep, Recovery!Powersave
<1>4. CASE Recovery!Goto("powersave") \/ Recovery!Goto("before")
  BY <1>1, <1>2, <1>4, MoveHolds DEF Recovery!Measures
<1>5. CASE Recovery!Exit
  BY <1>1, <1>2, <1>5, ExitHolds
<1> QED
  BY <1>3, <1>4, <1>5

\* A snapshot or a line is written to the log.
LEMMA LinesHold ==
  ASSUME Recovery!ControlInv,
         Recovery!Before \/ Recovery!Loop \/ Recovery!Woken \/ Recovery!After
  PROVE  Recovery!ControlInv'
<1>1. /\ UNCHANGED <<s1, s3, s6>> /\ s2.at \in {"before", "loop", "woken", "after"}
      /\ Recovery!Typed /\ s4 \in Seq(Recovery!Rows) /\ s3' \in Recovery!Phones
      /\ s3'.alarm = s3.alarm
  BY DEF Recovery!Before, Recovery!Loop, Recovery!Woken, Recovery!After, Recovery!At,
     Recovery!ControlInv, Recovery!Typed
<1>2. s4' \in Seq(Recovery!Rows) /\ (Recovery!Finished(s4') => Recovery!Finished(s4))
  <2>1. \/ s4' = s4
        \/ \E row \in Recovery!Rows : s4' = Append(s4, row) /\ row.line # "FINISHED"
    BY <1>1, RowsAre DEF Recovery!Before, Recovery!Loop, Recovery!Woken, Recovery!After
  <2> QED
    BY <1>1, <2>1, LogGrows
<1>3. CASE Recovery!Before
  <2>1. s2' = [s2 EXCEPT !.at = "loop", !.start = s3.time] /\ s3.time \in Nat
    BY <1>1, <1>3 DEF Recovery!Before, Recovery!Typed, Recovery!Phones
  <2>2. s2' \in Recovery!Scripts /\ s2'.at = "loop" /\ ScriptKeeps
    BY <1>1, <2>1 DEF Recovery!Typed, Recovery!Scripts, Recovery!Measures, ScriptKeeps
  <2>3. s3'.alarm \in {Recovery!None, Recovery!Theirs}
          \/ (s2'.owned /\ s3'.alarm = s2'.target)
    BY <1>1, <2>2 DEF Recovery!ControlInv, Recovery!AsFound, Recovery!AlarmBack, ScriptKeeps
  <2> QED
    BY <1>1, <1>2, <2>2, <2>3, MeasureHolds DEF Recovery!Measures, ScriptKeeps
<1>4. CASE Recovery!Exit
  BY <1>1, <1>2, <1>4, ExitHolds
<1>5. CASE \E a \in {"after", "disown", "own", "loop", "restore alarm"} : Recovery!Goto(a)
  <2>1. PICK a \in {"after", "disown", "own", "loop", "restore alarm"} : Recovery!Goto(a)
    BY <1>5
  <2> QED
    BY <1>1, <1>2, <2>1, MoveHolds DEF Recovery!Measures
<1> QED
  BY <1>3, <1>4, <1>5 DEF Recovery!Loop, Recovery!Woken, Recovery!After

\* A phone whose alarm and time are others.
LEMMA AlarmSet ==
  ASSUME s3 \in Recovery!Phones, NEW a \in Int, NEW t \in Nat
  PROVE  /\ [s3 EXCEPT !.alarm = a] \in Recovery!Phones
         /\ [s3 EXCEPT !.alarm = a].alarm = a
         /\ [s3 EXCEPT !.time = t, !.alarm = a] \in Recovery!Phones
         /\ [s3 EXCEPT !.time = t, !.alarm = a].alarm = a
  BY DEF Recovery!Phones

\* The script's alarm.
LEMMA AlarmHolds ==
  ASSUME Recovery!ControlInv,
         Recovery!Disown \/ Recovery!Own \/ Recovery!WriteAlarm \/ Recovery!Suspend
  PROVE  Recovery!ControlInv'
<1>1. /\ UNCHANGED <<s1, s4, s6>> /\ s2.at \in {"disown", "own", "alarm", "suspend"}
      /\ Recovery!Typed /\ s4' \in Seq(Recovery!Rows) /\ s3 \in Recovery!Phones
      /\ s2 \in Recovery!Scripts
      /\ s3.alarm \in {Recovery!None, Recovery!Theirs}
           \/ (s2.owned /\ s3.alarm = s2.target)
      /\ s2.at = "alarm" => s2.owned
  BY DEF Recovery!Disown, Recovery!Own, Recovery!WriteAlarm, Recovery!Suspend, Recovery!At,
     Recovery!ControlInv, Recovery!Typed, Recovery!AsFound, Recovery!AlarmBack
<1>2. CASE Recovery!Exit /\ UNCHANGED s3
  BY <1>1, <1>2, ExitHolds
<1>3. CASE Recovery!Disown /\ Recovery!Goto("own")
             /\ s3' = [s3 EXCEPT !.alarm = Recovery!None]
  <2>1. s3' \in Recovery!Phones /\ s3'.alarm = Recovery!None
    BY <1>1, <1>3 DEF Recovery!Phones, Recovery!None
  <2> QED
    BY <1>1, <1>3, <2>1, MoveHolds DEF Recovery!Measures
<1>4. CASE Recovery!Own /\ s3.alarm = Recovery!None /\ UNCHANGED s3
  <2>1. s2' = [s2 EXCEPT !.at = "alarm", !.owned = TRUE, !.target = s3.time + 1]
    BY <1>4 DEF Recovery!Own
  <2>2. s3.time + 1 \in Int
    BY <1>1 DEF Recovery!Phones
  <2>3. s2' \in Recovery!Scripts /\ s2'.at = "alarm" /\ s2'.owned
        /\ s2'.restored = s2.restored
    BY <1>1, <2>1, <2>2 DEF Recovery!Scripts, Recovery!Measures
  <2> QED
    BY <1>1, <1>4, <2>3, MeasureHolds DEF Recovery!Measures
<1>5. CASE Recovery!WriteAlarm /\ Recovery!Goto("suspend")
             /\ s3' = [s3 EXCEPT !.alarm = s2.target]
  <2>1. s3' \in Recovery!Phones /\ s3'.alarm = s2.target /\ s2.owned
    BY <1>1, <1>5 DEF Recovery!Phones, Recovery!Scripts, Recovery!WriteAlarm, Recovery!At
  <2>2. s2' \in Recovery!Scripts /\ s2'.at = "suspend" /\ ScriptKeeps
    BY <1>1, <1>5, GotoIs DEF Recovery!Measures
  <2> QED
    BY <1>1, <2>1, <2>2, MeasureHolds DEF Recovery!Measures, ScriptKeeps
<1>6. CASE Recovery!Suspend /\ s2' = [s2 EXCEPT !.at = "woken", !.wakes = @ + 1]
  <2>1. s2' \in Recovery!Scripts /\ s2'.at = "woken" /\ ScriptKeeps
    <3>1. s2.wakes + 1 \in Nat
      BY <1>1 DEF Recovery!Scripts
    <3>2. s2' = [s2 EXCEPT !.at = "woken", !.wakes = s2.wakes + 1]
      BY <1>6
    <3> QED
      BY <1>1, <3>1, <3>2 DEF Recovery!Scripts, Recovery!Measures, ScriptKeeps
  <2>2. s3' \in Recovery!Phones /\ s3'.alarm \in {s3.alarm, Recovery!None}
    <3> DEFINE a == IF s3.alarm = s2.target THEN Recovery!None ELSE s3.alarm
               t == s3.time + 1
    <3>1. a \in Int /\ t \in Nat /\ a \in {s3.alarm, Recovery!None}
      BY <1>1 DEF Recovery!Phones, Recovery!None
    <3>2. s3' = [s3 EXCEPT !.time = t, !.alarm = a] \/ s3' = s3
      BY <1>1, <1>6 DEF Recovery!Suspend
    <3> HIDE DEF a, t
    <3>3. CASE s3' = s3
      BY <1>1, <3>3
    <3>4. CASE s3' = [s3 EXCEPT !.time = t, !.alarm = a]
      BY <1>1, <3>1, <3>4, AlarmSet, Zenon
    <3> QED
      BY <3>2, <3>3, <3>4
  <2>3. s3'.alarm \in {Recovery!None, Recovery!Theirs}
          \/ (s2'.owned /\ s3'.alarm = s2'.target)
    BY <1>1, <2>1, <2>2 DEF ScriptKeeps
  <2> QED
    BY <1>1, <2>1, <2>2, <2>3, MeasureHolds DEF Recovery!Measures, ScriptKeeps
<1> QED
  BY <1>2, <1>3, <1>4, <1>5, <1>6 DEF Recovery!Disown, Recovery!Own, Recovery!WriteAlarm,
     Recovery!Suspend

\* A step of the restoration: one thing is put back, or the kernel refuses it.
LEMMA PutBackIs ==
  ASSUME Recovery!Typed, NEW what \in {"alarm", "governor", "sleep"},
         NEW next \in Recovery!Restores, NEW p,
         Recovery!PutBack(what, next, p)
  PROVE  /\ s3' = p /\ s2' \in Recovery!Scripts /\ s2'.at = next
         /\ s2'.refused = s2.refused \ {what}
         /\ s2'.owned = s2.owned /\ s2'.target = s2.target /\ s2'.restored = s2.restored
  BY DEF Recovery!Typed, Recovery!PutBack, Recovery!Scripts

LEMMA NotPutBackIs ==
  ASSUME Recovery!Typed, NEW what \in {"alarm", "governor", "sleep"},
         NEW next \in Recovery!Restores, Recovery!NotPutBack(what, next)
  PROVE  /\ s3' = s3 /\ s2' \in Recovery!Scripts /\ s2'.at = next
         /\ s2'.refused = s2.refused \cup {what}
         /\ s2'.owned = s2.owned /\ s2'.target = s2.target /\ s2'.restored = s2.restored
  BY DEF Recovery!Typed, Recovery!NotPutBack, Recovery!Scripts

\* The restoration, one thing after the other.
LEMMA RestoreHolds ==
  ASSUME Recovery!ControlInv,
         \/ Recovery!RestoreAlarm \/ Recovery!RestoreGovernor \/ Recovery!RestoreSleep
         \/ Recovery!Restored \/ Recovery!Finish
  PROVE  Recovery!ControlInv'
<1>1. /\ UNCHANGED <<s1, s6>> /\ Recovery!Typed /\ s4 \in Seq(Recovery!Rows)
      /\ s3 \in Recovery!Phones /\ s2 \in Recovery!Scripts
      /\ s2.at \in {"restore alarm", "restore governor", "restore sleep", "restored",
                    "finish"}
      /\ s2.restored => s2.at = "finish"
      /\ s2.at = "finish" => s2.restored /\ ~s2.trap
      /\ Recovery!AsFound
  BY DEF Recovery!RestoreAlarm, Recovery!RestoreGovernor, Recovery!RestoreSleep,
     Recovery!Restored, Recovery!Finish, Recovery!At, Recovery!ControlInv, Recovery!Typed
<1>2. CASE Recovery!RestoreAlarm
  <2>0. /\ s2.at = "restore alarm" /\ s4' = s4
        /\ \/ Recovery!PutBack("alarm", "restore governor",
                [s3 EXCEPT !.alarm = IF Recovery!Clearable THEN Recovery!None ELSE s3.alarm])
           \/ Recovery!NotPutBack("alarm", "restore governor")
    BY <1>2 DEF Recovery!RestoreAlarm, Recovery!At
  <2>1. /\ s2' \in Recovery!Scripts /\ s2'.at = "restore governor"
        /\ s2'.owned = s2.owned /\ s2'.target = s2.target /\ s2'.restored = s2.restored
        /\ \/ /\ s3' = [s3 EXCEPT !.alarm = IF Recovery!Clearable THEN Recovery!None
                                            ELSE s3.alarm]
           \/ s3' = s3 /\ "alarm" \in s2'.refused
    <3>1. "restore governor" \in Recovery!Restores
      BY DEF Recovery!Restores
    <3> QED
      BY <1>1, <2>0, <3>1, PutBackIs, NotPutBackIs
  <2>2. s3' \in Recovery!Phones
        /\ (\/ s3'.alarm = (IF Recovery!Clearable THEN Recovery!None ELSE s3.alarm)
            \/ s3'.alarm = s3.alarm /\ "alarm" \in s2'.refused)
    <3>0. s3.alarm \in Int /\ Recovery!None \in Int
      <4>1. s3 \in Recovery!Phones
        BY <1>1
      <4>2. s3.alarm \in Int
        BY <4>1 DEF Recovery!Phones
      <4>3. Recovery!None \in Int
        BY DEF Recovery!None
      <4> QED
        BY <4>2, <4>3
    <3> DEFINE a == IF Recovery!Clearable THEN Recovery!None ELSE s3.alarm
    <3>1. a \in Int
      <4>2. a = Recovery!None \/ a = s3.alarm
        BY Zenon
      <4> QED
        BY <3>0, <4>2, Zenon
    <3>2. s3' = [s3 EXCEPT !.alarm = a] \/ (s3' = s3 /\ "alarm" \in s2'.refused)
      BY <2>1
    <3>3. CASE s3' = s3 /\ "alarm" \in s2'.refused
      BY <1>1, <3>3
    <3>4. CASE s3' = [s3 EXCEPT !.alarm = a]
      <4> HIDE DEF a
      <4>1. 0 \in Nat
        OBVIOUS
      <4>2. s3' \in Recovery!Phones /\ s3'.alarm = a
        BY <1>1, <3>1, <3>4, <4>1, AlarmSet
      <4> QED
        BY <4>2 DEF a
    <3> QED
      BY <3>2, <3>3, <3>4
  <2>3. Recovery!AlarmBack'
    BY <1>1, <2>1, <2>2 DEF Recovery!AsFound, Recovery!AlarmBack, Recovery!Clearable
  <2>4. s3'.alarm \in {Recovery!None, Recovery!Theirs}
          \/ (s2'.owned /\ s3'.alarm = s2'.target)
    BY <1>1, <2>1, <2>2 DEF Recovery!AsFound
  <2>5. Recovery!AsFound'
    BY <2>1, <2>3, <2>4 DEF Recovery!AsFound, Recovery!Early
  <2> QED
    BY <1>1, <2>0, <2>1, <2>2, <2>5, ScriptKeepsInv
<1>3. CASE Recovery!RestoreGovernor
  <2>0. /\ s2.at = "restore governor" /\ s4' = s4
        /\ \/ Recovery!PutBack("governor", "restore sleep",
                               [s3 EXCEPT !.governor = "performance"])
           \/ Recovery!NotPutBack("governor", "restore sleep")
    BY <1>3 DEF Recovery!RestoreGovernor, Recovery!At
  <2>1. /\ s2' \in Recovery!Scripts /\ s2'.at = "restore sleep"
        /\ s2'.owned = s2.owned /\ s2'.target = s2.target /\ s2'.restored = s2.restored
        /\ \A w \in {"alarm", "sleep"} : w \in s2.refused => w \in s2'.refused
        /\ \/ s3' = [s3 EXCEPT !.governor = "performance"]
           \/ s3' = s3 /\ "governor" \in s2'.refused
    <3>1. "restore sleep" \in Recovery!Restores
      BY DEF Recovery!Restores
    <3> QED
      BY <1>1, <2>0, <3>1, PutBackIs, NotPutBackIs
  <2>2. s3' \in Recovery!Phones /\ s3'.alarm = s3.alarm /\ Recovery!GovernorBack'
    BY <1>1, <2>1 DEF Recovery!Phones, Recovery!GovernorBack
  <2>3. Recovery!AsFound'
    BY <1>1, <2>0, <2>1, <2>2
       DEF Recovery!AsFound, Recovery!AlarmBack, Recovery!Early, Recovery!Restores
  <2> QED
    BY <1>1, <2>0, <2>1, <2>2, <2>3, ScriptKeepsInv
<1>4. CASE Recovery!RestoreSleep
  <2>0. /\ s2.at = "restore sleep" /\ s4' = s4
        /\ \/ Recovery!PutBack("sleep", "restored", [s3 EXCEPT !.sleepable = FALSE])
           \/ Recovery!NotPutBack("sleep", "restored")
    BY <1>4 DEF Recovery!RestoreSleep, Recovery!At
  <2>1. /\ s2' \in Recovery!Scripts /\ s2'.at = "restored"
        /\ s2'.owned = s2.owned /\ s2'.target = s2.target /\ s2'.restored = s2.restored
        /\ \A w \in {"alarm", "governor"} : w \in s2.refused => w \in s2'.refused
        /\ \/ s3' = [s3 EXCEPT !.sleepable = FALSE]
           \/ s3' = s3 /\ "sleep" \in s2'.refused
    <3>1. "restored" \in Recovery!Restores
      BY DEF Recovery!Restores
    <3> QED
      BY <1>1, <2>0, <3>1, PutBackIs, NotPutBackIs
  <2>2. s3' \in Recovery!Phones /\ s3'.alarm = s3.alarm /\ s3'.governor = s3.governor
        /\ Recovery!SleepBack'
    BY <1>1, <2>1 DEF Recovery!Phones, Recovery!SleepBack
  <2>3. Recovery!AsFound'
    BY <1>1, <2>0, <2>1, <2>2 DEF Recovery!AsFound, Recovery!AlarmBack,
       Recovery!GovernorBack, Recovery!Early, Recovery!Restores, Recovery!Quiet
  <2> QED
    BY <1>1, <2>0, <2>1, <2>2, <2>3, ScriptKeepsInv
<1>5. CASE Recovery!Restored
  <2>1. s2' = [s2 EXCEPT !.at = IF s2.trap THEN "dead" ELSE "finish", !.restored = TRUE]
        /\ s2.at = "restored" /\ s3' = s3
    BY <1>5 DEF Recovery!Restored, Recovery!At
  <2>2. /\ s2' \in Recovery!Scripts /\ s2'.restored /\ s2'.at \in {"dead", "finish"}
        /\ s2'.at = "finish" => ~s2'.trap
        /\ s2'.owned = s2.owned /\ s2'.target = s2.target /\ s2'.refused = s2.refused
    BY <1>1, <2>1 DEF Recovery!Scripts, Recovery!Restores
  <2>3. Recovery!AsFound'
    BY <1>1, <2>1, <2>2 DEF Recovery!AsFound, Recovery!Restores, Recovery!Quiet,
       Recovery!SleepBack, Recovery!GovernorBack, Recovery!AlarmBack
  <2>4. s4' = Append(s4, Recovery!Line("RESTORATION"))
        /\ Recovery!Line("RESTORATION") \in Recovery!Rows
        /\ Recovery!Line("RESTORATION").line # "FINISHED"
    BY <1>1, <1>5, RowsAre DEF Recovery!Restored
  <2>5. s4' \in Seq(Recovery!Rows) /\ (Recovery!Finished(s4') => Recovery!Finished(s4))
    BY <1>1, <2>4, LogGrows
  <2> QED
    BY <1>1, <2>1, <2>2, <2>3, <2>5, ScriptKeepsInv
<1>6. CASE Recovery!Finish
  <2>1. s2' \in Recovery!Scripts /\ s2'.at = "dead" /\ ScriptKeeps
    BY <1>1, <1>6, GotoIs DEF Recovery!Finish, Recovery!Restores
  <2>2. s3' = s3 /\ s2.at = "finish"
    BY <1>6 DEF Recovery!Finish, Recovery!At
  <2>3. Recovery!AsFound'
    BY <1>1, <2>1, <2>2 DEF Recovery!AsFound, Recovery!Restores, Recovery!Quiet,
       Recovery!SleepBack, Recovery!GovernorBack, Recovery!AlarmBack, ScriptKeeps
  <2>4. s4' \in Seq(Recovery!Rows)
    BY <1>1, <1>6, RowsAre, LogGrows DEF Recovery!Finish
  <2> QED
    BY <1>1, <2>1, <2>2, <2>3, <2>4, ScriptKeepsInv DEF ScriptKeeps
<1> QED
  BY <1>2, <1>3, <1>4, <1>5, <1>6

\* Others only move the cable and set an alarm that is theirs.
LEMMA OthersHold ==
  ASSUME Recovery!ControlInv, Recovery!Cable \/ Recovery!OtherAlarm
  PROVE  Recovery!ControlInv'
<1>1. UNCHANGED <<s1, s2, s4, s6>> /\ s3 \in Recovery!Phones
  BY DEF Recovery!Cable, Recovery!OtherAlarm, Recovery!ControlInv, Recovery!Typed
<1>2. s3' \in Recovery!Phones /\ s3'.sleepable = s3.sleepable
      /\ s3'.governor = s3.governor /\ s3'.alarm \in {s3.alarm, Recovery!Theirs}
  BY <1>1 DEF Recovery!Cable, Recovery!OtherAlarm, Recovery!Phones, Recovery!Theirs
<1>3. Recovery!Typed' /\ Recovery!AsFound'
  BY <1>1, <1>2 DEF Recovery!ControlInv, Recovery!Typed, Recovery!AsFound, Recovery!Quiet,
       Recovery!SleepBack, Recovery!GovernorBack, Recovery!AlarmBack
<1> QED
  BY <1>1, <1>3 DEF Recovery!ControlInv

\* The log that is fetched is the script's.
LEMMA FetchHolds ==
  ASSUME Recovery!ControlInv, Recovery!FetchLog \/ Recovery!Fetch
  PROVE  Recovery!ControlInv'
<1>1. UNCHANGED <<s1, s2, s3, s4>> /\ s6 \in Recovery!Reports /\ s4 \in Seq(Recovery!Rows)
  BY DEF Recovery!FetchLog, Recovery!Fetch, Recovery!ControlInv, Recovery!Typed
<1>2. CASE Recovery!FetchLog
  <2>1. s6' \in Recovery!Reports /\ s6'.log = s4 /\ s6'.valid = s6.valid
    BY <1>1, <1>2 DEF Recovery!FetchLog, Recovery!Reports
  <2> QED
    BY <1>1, <2>1 DEF Recovery!ControlInv, Recovery!Typed, Recovery!AsFound, Recovery!Quiet,
       Recovery!SleepBack, Recovery!GovernorBack, Recovery!AlarmBack
<1>3. CASE Recovery!Fetch
  <2>1. Recovery!ValidControl \in BOOLEAN /\ Recovery!RestorationVerified \in BOOLEAN
    BY DEF Recovery!ValidControl, Recovery!RestorationVerified, Recovery!Has
  <2>2. s6' \in Recovery!Reports /\ s6'.at = "fetched" /\ s6'.log = s6.log
        /\ s6'.valid = Recovery!ValidControl
    BY <1>1, <1>3, <2>1 DEF Recovery!Fetch, Recovery!Reports
  <2>3. Recovery!ValidControl => Recovery!Finished(s6.log)
    BY DEF Recovery!ValidControl, Recovery!Has, Recovery!Finished
  <2>4. s6.at = "log"
    BY <1>3 DEF Recovery!Fetch
  <2> QED
    BY <1>1, <2>2, <2>3, <2>4 DEF Recovery!ControlInv, Recovery!Typed, Recovery!AsFound,
       Recovery!Quiet,
       Recovery!SleepBack, Recovery!GovernorBack, Recovery!AlarmBack
<1> QED
  BY <1>2, <1>3

LEMMA ControlStepHolds ==
  ASSUME Recovery!ControlInv, [Recovery!ControlNext]_slots
  PROVE  Recovery!ControlInv'
<1>1. CASE UNCHANGED slots
  BY <1>1 DEF slots, Recovery!ControlInv, Recovery!Typed, Recovery!AsFound, Recovery!Quiet,
       Recovery!SleepBack, Recovery!GovernorBack, Recovery!AlarmBack
<1>2. CASE Recovery!Signalled
  <2>1. /\ UNCHANGED <<s1, s3, s4, s6>> /\ s2.at \notin {"absent", "dead"} /\ Recovery!Exit
        /\ s3 \in Recovery!Phones /\ s4 \in Seq(Recovery!Rows)
    BY <1>2 DEF Recovery!Signalled, Recovery!ControlInv, Recovery!Typed
  <2> QED
    BY <2>1, ExitHolds
<1> QED
  BY <1>1, <1>2, ArmHolds, EarlyHolds, PolicyHolds, LinesHold, AlarmHolds, RestoreHolds,
     OthersHold, FetchHolds DEF Recovery!ControlNext

LEMMA ControlMeans == Recovery!ControlInv => Recovery!LeavesPhoneAsFound
  BY DEF Recovery!ControlInv, Recovery!AsFound, Recovery!Quiet, Recovery!Restores,
     Recovery!At, Recovery!LeavesPhoneAsFound

-----------------------------------------------------------------------------
(* The UFS policy report: s1 the reader, s2 the phone, s3 its sysfs, s4 the lines.      *)

LEMMA ReadInitHolds ==
  ASSUME Policy!Init
  PROVE  Policy!ReadInv
  BY DEF Policy!Init, Policy!ReadInv, Policy!Readers, Policy!Reported

LEMMA ReadStepHolds ==
  ASSUME Policy!ReadInv, [Policy!Next]_slots
  PROVE  Policy!ReadInv'
<1> USE DEF Policy!ReadInv, Policy!Readers, Policy!Reported, Policy!Admitted
<1>1. CASE UNCHANGED slots
  BY <1>1 DEF slots, Policy!CheckIdentity
<1>2. CASE Policy!AdbDevices
  <2>1. /\ s1' = [at |-> "stopped", route |-> "adb", code |-> 2]
           \/ (s2'.ready = 1 /\ s1' = [at |-> "guard", route |-> "adb", code |-> 0])
    BY <1>2 DEF Policy!AdbDevices
  <2> QED
    BY <2>1
<1>3. CASE Policy!SshRoute
  BY <1>3 DEF Policy!SshRoute
<1>4. CASE Policy!Guard
  <2>1. CASE Policy!CheckIdentity(s2)
    <3>1. Policy!CheckIdentity(s2)' /\ s2' = s2
      BY <1>4, <2>1 DEF Policy!Guard, Policy!CheckIdentity
    <3>2. s1' = [s1 EXCEPT !.at = "snippet"] /\ s2.ready = 1
      BY <1>4, <2>1 DEF Policy!Guard, Policy!Goto
    <3> QED
      BY <3>1, <3>2
  <2>2. CASE ~Policy!CheckIdentity(s2)
    <3>1. s1' = [s1 EXCEPT !.at = "stopped", !.code = 3]
      BY <1>4, <2>2 DEF Policy!Guard, Policy!Stop
    <3>2. s1' \in Policy!Readers /\ s1'.at = "stopped" /\ s1'.code = 3
      <4>1. s1 \in Policy!Readers /\ 3 \in Nat
        OBVIOUS
      <4> QED
        BY ONLY <3>1, <4>1 DEF Policy!Readers
    <3> QED
      BY <3>2
  <2> QED
    BY <2>1, <2>2
<1>5. CASE Policy!Snippet
  <2>1. Policy!Admitted'
    BY <1>5 DEF Policy!Snippet, Policy!Goto, Policy!CheckIdentity
  <2> QED
    BY <1>5, <2>1 DEF Policy!Snippet, Policy!Goto
<1>6. CASE Policy!DriverMoves
  BY <1>6 DEF Policy!DriverMoves, Policy!CheckIdentity
<1>7. CASE Policy!List
  <2>1. s2' = s2 /\ s1.at = "list" /\ (s1' = s1 \/ s1' = [s1 EXCEPT !.at = "read"])
    BY <1>7 DEF Policy!List, Policy!Goto
  <2> QED
    BY <2>1 DEF Policy!CheckIdentity
<1>8. CASE Policy!Read
  <2>1. s2' = s2 /\ s1.at = "read"
        /\ (s1' = s1 \/ s1' = [s1 EXCEPT !.at = "stopped", !.code = 0])
    BY <1>8 DEF Policy!Read, Policy!Stop
  <2>2. Policy!Admitted
    BY <2>1
  <2>3. s1' \in Policy!Readers /\ s1'.route = s1.route /\ s1'.at # "guard"
    <3>1. CASE s1' = s1
      BY <2>1, <3>1
    <3>2. CASE s1' = [s1 EXCEPT !.at = "stopped", !.code = 0]
      <4>1. s1 \in Policy!Readers /\ 0 \in Nat
        OBVIOUS
      <4>2. s1' \in Policy!Readers /\ s1'.at = "stopped" /\ s1'.route = s1.route
        BY ONLY <3>2, <4>1 DEF Policy!Readers
      <4> QED
        BY <4>2
    <3> QED
      BY <2>1, <3>1, <3>2
  <2>4. Policy!Admitted'
    BY <2>1, <2>2, <2>3 DEF Policy!CheckIdentity
  <2> QED
    BY <2>3, <2>4
<1>9. CASE Policy!TransportFails
  BY <1>9 DEF Policy!TransportFails, Policy!Stop
<1> QED
  BY <1>1, <1>2, <1>3, <1>4, <1>5, <1>6, <1>7, <1>8, <1>9 DEF Policy!Next

\* What `classify()` calls absent was not in a directory that was listed.
LEMMA ReadMeans ==
  ASSUME Policy!ReadInv
  PROVE  Policy!NoFalseAbsence
<1> SUFFICES ASSUME Policy!Reported
             PROVE  /\ \A a \in Policy!Coverage("ABSENT") :
                         \E d \in Dirs :
                           s4.listing[d] = "OK" /\ <<d, a>> \notin s4.there
                    /\ \A p \in Policy!Paths :
                         s4.attr[p] # "skipped" /\ Policy!Classify(p) = "ABSENT"
                           => s4.listing[p[1]] = "OK"
                    /\ s1.route = "adb" =>
                         s2.ready = 1 /\ s2.device # "lmipro-x" /\ s2.build = "expected"
  BY DEF Policy!NoFalseAbsence
<1>1. ASSUME NEW p \in Policy!Paths, Policy!Classify(p) = "ABSENT"
      PROVE  s4.listing[p[1]] = "OK" /\ p \notin s4.there
  BY <1>1 DEF Policy!Classify
<1>2. ASSUME NEW a \in Policy!Coverage("ABSENT")
      PROVE  \E d \in Dirs :
               s4.listing[d] = "OK" /\ <<d, a>> \notin s4.there
  <2>1. PICK p \in Policy!Paths : p[2] = a /\ Policy!Classify(p) = "ABSENT"
    BY <1>2 DEF Policy!Coverage
  <2>2. p = <<p[1], p[2]>> /\ p[1] \in Dirs
    BY DEF Policy!Paths
  <2> QED
    BY <1>1, <2>1, <2>2
<1>3. s1.route = "adb" => s2.ready = 1 /\ Policy!CheckIdentity(s2)
  BY DEF Policy!ReadInv, Policy!Admitted
<1> QED
  BY <1>1, <1>2, <1>3 DEF Policy!CheckIdentity
=============================================================================
