------------------------------ MODULE TimeSeed ------------------------------
(***************************************************************************)
(* The time floor of an image without a trusted RTC                        *)
(* (build/userdata/profiles/time-seed: lmi-time-seed and its three units). *)
(* At boot the service restores the clock from the seed and saves; while   *)
(* it is active a timer saves; its ExecStop saves at shutdown.  systemd    *)
(* orders these, so one run is alive at a time.  The power may fail at any *)
(* step, and pids are used again after a boot.                             *)
(***************************************************************************)
EXTENDS Integers

CONSTANTS Pids, MaxClock, FirstSeed, MaxBoots

SeedAssumption ==
    /\ MaxClock \in Nat /\ MaxBoots \in Nat
    /\ FirstSeed \in Nat /\ 2 * FirstSeed <= MaxClock
    /\ Pids # {}

VARIABLES clock,        \* the system's, in half seconds
          disk,         \* the state directory as the programs see it
          durable,      \* the seed that a loss of power leaves
          unit,         \* lmi-time-seed.service
          run,          \* the run of lmi-time-seed that is alive
          boots,
          best,         \* the largest seed that was ever on the disk for good
          past          \* what the other properties compare with

seedVars == <<clock, disk, durable, unit, run, boots, best, past>>

Second == clock \div 2
Absent == -1
Part == -2              \* a file whose content is not all there

NoRun == [pc |-> "none", mode |-> "save", pid |-> CHOOSE p \in Pids : TRUE,
          seed |-> 0, now |-> 0]

\* The image's hook has written the first seed.
SeedInit ==
    /\ clock \in 0..MaxClock
    /\ disk = [seed |-> FirstSeed, tmp |-> [p \in Pids |-> Absent]]
    /\ durable = FirstSeed /\ best = FirstSeed
    /\ unit = "off" /\ run = NoRun /\ boots = 0
    /\ past = [floor |-> 0, cut |-> FALSE]

-----------------------------------------------------------------------------
Goto(pc) == run' = [run EXCEPT !.pc = pc]

\* What the end of a run means for the service.
Unit(good) ==
    CASE run.mode = "save" -> unit
      [] run.mode = "stop" -> "off"
      [] OTHER -> IF good THEN "active" ELSE "failed"

Ends(good) ==
    /\ run' = NoRun /\ unit' = Unit(good)
    /\ past' = [past EXCEPT !.floor = IF run.mode = "restore" /\ good
                                      THEN run.seed ELSE @]

\* fail() and the signals: the EXIT trap, once it is set, removes the temporary file.
Fails(trapped) ==
    /\ Ends(FALSE)
    /\ disk' = IF trapped THEN [disk EXCEPT !.tmp[run.pid] = Absent] ELSE disk

Disk == <<disk, durable, best>>

-----------------------------------------------------------------------------
(* restore_clock() *)

ReadSeed ==
    /\ run.pc = "seed"
    /\ run' = [run EXCEPT !.pc = "current", !.seed = disk.seed]
    /\ UNCHANGED <<clock, Disk, unit, boots, past>>

\* Mutant: the comparison is the wrong way round.
ReadClockReversed ==
    /\ run.pc = "current"
    /\ Goto(IF Second > run.seed THEN "set" ELSE "now")
    /\ UNCHANGED <<clock, Disk, unit, boots, past>>

ReadClock ==
    /\ run.pc = "current"
    /\ Goto(IF Second < run.seed THEN "set" ELSE "now")
    /\ UNCHANGED <<clock, Disk, unit, boots, past>>

\* date -s; it can be refused.
SetClock ==
    /\ run.pc = "set"
    /\ \/ /\ clock' = 2 * run.seed
          /\ Goto("verify") /\ UNCHANGED <<disk, unit, past>>
       \/ Fails(FALSE) /\ UNCHANGED clock
    /\ UNCHANGED <<durable, boots, best>>

Verify ==
    /\ run.pc = "verify"
    /\ IF Second >= run.seed THEN Goto("now") /\ UNCHANGED <<disk, unit, past>>
       ELSE Fails(FALSE)
    /\ UNCHANGED <<clock, durable, boots, best>>

-----------------------------------------------------------------------------
(* atomic_save() *)

ReadNow ==
    /\ run.pc = "now"
    /\ run' = [run EXCEPT !.pc = "previous", !.now = Second]
    /\ UNCHANGED <<clock, Disk, unit, boots, past>>

\* Mutant: the clock is believed.
PreviousIgnored ==
    /\ run.pc = "previous"
    /\ Goto("create") /\ UNCHANGED <<unit, past>>
    /\ UNCHANGED <<clock, Disk, boots>>

\* The seed never goes back; the clock is left alone.
Previous ==
    /\ run.pc = "previous"
    /\ IF run.now < disk.seed THEN Ends(TRUE)
       ELSE Goto("create") /\ UNCHANGED <<unit, past>>
    /\ UNCHANGED <<clock, Disk, boots>>

\* The traps are set, then the file is made with noclobber: one that an earlier boot
\* has left under this pid is in the way, and the trap removes it.
Create ==
    /\ run.pc = "create"
    /\ IF disk.tmp[run.pid] # Absent THEN Fails(TRUE)
       ELSE /\ disk' = [disk EXCEPT !.tmp[run.pid] = Part]
            /\ Goto("write") /\ UNCHANGED <<unit, past>>
    /\ UNCHANGED <<clock, durable, boots, best>>

\* printf into it; chown, chmod and sync of the file: after that it is on the disk.
Write ==
    /\ run.pc = "write"
    /\ \/ /\ disk' = [disk EXCEPT !.tmp[run.pid] = run.now]
          /\ Goto("move") /\ UNCHANGED <<unit, past>>
       \/ Fails(TRUE)
    /\ UNCHANGED <<clock, durable, boots, best>>

Move ==
    /\ run.pc = "move"
    /\ \/ /\ disk' = [disk EXCEPT !.seed = run.now, !.tmp[run.pid] = Absent]
          /\ Goto("sync") /\ UNCHANGED <<unit, past>>
       \/ Fails(TRUE)
    /\ UNCHANGED <<clock, durable, boots, best>>

\* The directory is synced; if that fails the new name may or may not be there after
\* a loss of power.
Sync ==
    /\ run.pc = "sync"
    /\ \/ /\ durable' = disk.seed
          /\ best' = IF disk.seed > best THEN disk.seed ELSE best
          /\ Ends(TRUE)
          /\ UNCHANGED disk
       \/ Fails(TRUE) /\ UNCHANGED <<durable, best>>
    /\ UNCHANGED <<clock, boots>>

\* Mutant: the signal is not trapped.
TerminatedUntrapped ==
    /\ run.pc # "none" /\ Fails(FALSE)
    /\ UNCHANGED <<clock, durable, boots, best>>

\* SIGTERM at a stop or a time limit; SIGKILL when that takes too long.
Terminated ==
    /\ run.pc # "none" /\ Fails(run.pc \in {"write", "move", "sync"})
    /\ UNCHANGED <<clock, durable, boots, best>>

Killed ==
    /\ run.pc # "none" /\ run' = NoRun
    /\ unit' = Unit(FALSE)
    /\ past' = [past EXCEPT !.cut = TRUE]
    /\ UNCHANGED <<clock, boots, Disk>>

-----------------------------------------------------------------------------
(* systemd, the clock, and the power. *)

Start(mode, p) == run' = [NoRun EXCEPT !.pc = IF mode = "restore" THEN "seed"
                                              ELSE "now",
                                       !.mode = mode, !.pid = p]

\* Whatever the RTC says is the clock of a boot.
Boot(p, c) ==
    /\ unit = "off" /\ run = NoRun /\ boots < MaxBoots
    /\ boots' = boots + 1 /\ unit' = "starting" /\ clock' = c /\ Start("restore", p)
    /\ past' = [past EXCEPT !.floor = 0]
    /\ UNCHANGED Disk

\* The timer requires the service.
Timer(p) ==
    /\ unit = "active" /\ run = NoRun /\ Start("save", p)
    /\ UNCHANGED <<clock, Disk, unit, boots, past>>

\* ExecStop, if the start succeeded.
Shutdown(p) ==
    /\ unit \in {"active", "failed"} /\ run = NoRun
    /\ IF unit = "active" THEN Start("stop", p) /\ unit' = "stopping"
       ELSE unit' = "off" /\ UNCHANGED run
    /\ UNCHANGED <<clock, Disk, boots, past>>

\* What was not synced is there or not: the file system keeps names and contents in
\* order, so that a name is never of another content.
PowerLoss ==
    /\ unit # "off"
    /\ unit' = "off" /\ run' = NoRun /\ past' = [past EXCEPT !.cut = TRUE]
    /\ \E s \in {durable, disk.seed},
          t \in IF run.pc \in {"write", "move", "sync"}
                THEN {Absent, Part} ELSE {disk.tmp[run.pid]} :
          /\ durable' = s
          /\ disk' = [disk EXCEPT !.seed = s, !.tmp[run.pid] = t]
    /\ UNCHANGED <<clock, boots, best>>

Tick == clock < MaxClock /\ clock' = clock + 1
        /\ UNCHANGED <<Disk, unit, run, boots, past>>

\* timesyncd, which is ordered after the service, or somebody sets the clock; the
\* floor holds until then.
Discipline(c) ==
    /\ unit \in {"active", "failed"} /\ clock' = c /\ c # clock
    /\ past' = [past EXCEPT !.floor = 0]
    /\ UNCHANGED <<Disk, unit, run, boots>>

SeedNext ==
    \/ ReadSeed \/ ReadClock \/ SetClock \/ Verify
    \/ ReadNow \/ Previous \/ Create \/ Write \/ Move \/ Sync
    \/ Terminated \/ Killed \/ PowerLoss \/ Tick
    \/ \E p \in Pids : Timer(p) \/ Shutdown(p) \/ \E c \in 0..MaxClock : Boot(p, c)
    \/ \E c \in 0..MaxClock : Discipline(c)

SeedSpec == SeedInit /\ [][SeedNext]_seedVars

-----------------------------------------------------------------------------
\* What was saved for good is never lost or replaced by an earlier time, wherever a
\* run ends, the power fails, or the clock is set back ("the maximum observed
\* epoch", README.md:18).
SeedNotLost == durable >= best /\ disk.seed >= best

\* A boot whose restoration succeeded has no clock before the seed, until somebody
\* else sets it.
FloorHolds == unit = "active" => clock >= 2 * past.floor

\* Nothing is left beside the seed but by SIGKILL or a loss of power, so that no pid
\* is in the way of a later run for any other reason.
NoLeftOver ==
    run.pc = "none" /\ ~past.cut => \A p \in Pids : disk.tmp[p] = Absent

-----------------------------------------------------------------------------
(* The inductive invariant: one run at a time, which never holds a time before  *)
(* the seed, has moved the clock past it when it restores, and alone has a      *)
(* temporary file.                                                              *)

RunTypes ==
    [pc : {"none", "seed", "current", "set", "verify", "now", "previous", "create",
           "write", "move", "sync"},
     mode : {"restore", "save", "stop"}, pid : Pids, seed : Nat, now : Nat]

Typed ==
    /\ clock \in Nat /\ durable \in Nat /\ best \in Nat
    /\ disk \in [seed : Nat, tmp : [Pids -> Int]]
    /\ unit \in {"off", "starting", "active", "failed", "stopping"}
    /\ run \in RunTypes
    /\ past \in [floor : Nat, cut : BOOLEAN]

Restoring == {"seed", "current", "set", "verify"}

\* The unit is in the state of the run, and only a start restores.
RunServes ==
    /\ run.pc # "none" =>
         unit = CASE run.mode = "restore" -> "starting"
                  [] run.mode = "save" -> "active"
                  [] OTHER -> "stopping"
    /\ run.pc \in Restoring => run.mode = "restore"

NotBefore == run.pc \in {"create", "write", "move"} => run.now >= disk.seed

\* Past the restoration of the clock, until the start is over.
ClockReached ==
    run.mode = "restore" /\ run.pc \notin Restoring \cup {"none"} =>
        clock >= 2 * run.seed

OnlyOwnLeft ==
    ~past.cut =>
        \A p \in Pids : disk.tmp[p] # Absent =>
            p = run.pid /\ run.pc \in {"write", "move"}

SeedInv ==
    /\ Typed /\ RunServes /\ NotBefore /\ ClockReached /\ OnlyOwnLeft
    /\ SeedNotLost /\ FloorHolds
=============================================================================
