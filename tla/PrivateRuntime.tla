--------------------------- MODULE PrivateRuntime ---------------------------
(***************************************************************************)
(* camera-test-capture.py and its two elders, camera-test-module-no-ncs.py *)
(* and camera-test-module-backtrace.py: a private runtime of mounts, a     *)
(* loop device and three processes is built, used and removed.  The first  *)
(* is what the preview publisher runs.                                     *)
(*                                                                         *)
(* Each thing is acquired by a command and noted by the next statement; a  *)
(* signal may fall between the two.  A group of mounts made the same way   *)
(* is one mount here.                                                      *)
(***************************************************************************)
EXTENDS Naturals, Sequences, SequencesExt

VARIABLES
    runtime,    \* [program, stages, at, i]: the program and where it is
    mounted,    \* mounts that exist
    mounts,     \* the list `mounts`
    loopdev,    \* [attached, held]: the loop device; whether `loop` holds it
    procs,      \* [alive, held]: processes that run; those a variable holds
    verdict,    \* [provider, announced, exit]: provider_status, REMOVED, the code
    trouble     \* history: what went wrong

runtimeVars == <<runtime, mounted, mounts, loopdev, procs, verdict, trouble>>

Mount(m) == [does |-> "mount", what |-> m]
Attach == [does |-> "attach", what |-> "loop"]
Spawn(p) == [does |-> "spawn", what |-> p]
Finish(p) == [does |-> "finish", what |-> p]

\* What the last part of each program does: an image of system_ext on a loop
\* device, a private /dev with its binder, a shim, then the processes.
Processes == <<Mount("dev"), Mount("nodes"), Mount("binderfs"), Mount("shim"),
               Spawn("manager"), Spawn("client"), Finish("client"),
               Spawn("provider"), Finish("provider"), Finish("manager")>>

CaptureStages(preview) ==
    <<Mount("root"), Mount("tree"), Mount("override"), Mount("icp")>>
    \o (IF preview THEN <<Mount("cvp")>> ELSE <<>>)
    \o <<Mount("output"), Mount("probe"), Attach, Mount("system_ext")>> \o Processes

NoNcsStages ==
    <<Mount("root"), Mount("tree"), Mount("override"), Mount("icp"), Mount("probe"),
      Attach, Mount("system_ext")>> \o Processes

BacktraceStages ==
    <<Mount("root"), Mount("tree"), Mount("icp"), Mount("probe"),
      Attach, Mount("system_ext")>> \o Processes

Init ==
    /\ runtime = [program |-> "none", stages |-> <<>>, at |-> "start", i |-> 1]
    /\ mounted = {}
    /\ mounts = <<>>
    /\ loopdev = [attached |-> FALSE, held |-> FALSE]
    /\ procs = [alive |-> {}, held |-> {}]
    /\ verdict = [provider |-> "unset", announced |-> FALSE, exit |-> "none"]
    /\ trouble = {}

Running == runtime.at \in {"do", "note"}
Ending == runtime.at \in {"kill", "umount", "detach", "rmdir"}

Start ==
    /\ runtime.at = "start"
    /\ \E preview \in BOOLEAN : runtime' \in
        {[program |-> "capture", stages |-> CaptureStages(preview), at |-> "do", i |-> 1],
         [program |-> "no-ncs", stages |-> NoNcsStages, at |-> "do", i |-> 1],
         [program |-> "backtrace", stages |-> BacktraceStages, at |-> "do", i |-> 1]}
    /\ UNCHANGED <<mounted, mounts, loopdev, procs, verdict, trouble>>

Stage == runtime.stages[runtime.i]

\* The statement is over: the next one, or the end of the try block.
Advance ==
    runtime' = IF runtime.i = Len(runtime.stages) THEN [runtime EXCEPT !.at = "kill"]
               ELSE [runtime EXCEPT !.at = "do", !.i = @ + 1]

-----------------------------------------------------------------------------
(* The try block. *)

\* The command: a mount, losetup, a fork.
Acquire ==
    /\ runtime.at = "do"
    /\ Stage.does # "finish"
    /\ mounted' = IF Stage.does = "mount" THEN mounted \cup {Stage.what} ELSE mounted
    /\ loopdev' = IF Stage.does = "attach" THEN [loopdev EXCEPT !.attached = TRUE] ELSE loopdev
    /\ procs' = IF Stage.does = "spawn" THEN [procs EXCEPT !.alive = @ \cup {Stage.what}]
                ELSE procs
    /\ runtime' = [runtime EXCEPT !.at = "note"]
    /\ UNCHANGED <<mounts, verdict, trouble>>

\* The statement after it: mounts.append(), the assignment.
Note ==
    /\ runtime.at = "note"
    /\ mounts' = IF Stage.does = "mount" THEN Append(mounts, Stage.what) ELSE mounts
    /\ loopdev' = IF Stage.does = "attach" THEN [loopdev EXCEPT !.held = TRUE] ELSE loopdev
    /\ procs' = IF Stage.does = "spawn" THEN [procs EXCEPT !.held = @ \cup {Stage.what}]
                ELSE procs
    /\ Advance
    /\ UNCHANGED <<mounted, verdict, trouble>>

\* communicate(): the process ends, or is killed when the time is over.
FinishProcess ==
    /\ runtime.at = "do"
    /\ Stage.does = "finish"
    /\ procs' = [procs EXCEPT !.alive = @ \ {Stage.what}]
    /\ IF Stage.what = "provider"
       THEN verdict' \in {[verdict EXCEPT !.provider = s] : s \in {"ok", "error"}}
       ELSE UNCHANGED verdict
    /\ Advance
    /\ UNCHANGED <<mounted, mounts, loopdev, trouble>>

\* A process of the runtime ends by itself.
ProcessEnds ==
    /\ \E p \in procs.alive : procs' = [procs EXCEPT !.alive = @ \ {p}]
    /\ UNCHANGED <<runtime, mounted, mounts, loopdev, verdict, trouble>>

\* A command, an assertion or a wait fails; what it did not do is not noted.
Fails ==
    /\ runtime.at = "do"
    /\ runtime' = [runtime EXCEPT !.at = "kill"]
    /\ verdict' = [verdict EXCEPT !.exit = "error"]
    /\ trouble' = trouble \cup {"failed"}
    /\ UNCHANGED <<mounted, mounts, loopdev, procs>>

\* interrupted(), or KeyboardInterrupt: an exception wherever the program is.
\* In the finally block it ends the program.
Interrupted ==
    /\ Running \/ Ending
    /\ "interrupted" \notin trouble \/ Ending
    /\ runtime' = [runtime EXCEPT !.at = IF Running THEN "kill" ELSE "ended"]
    /\ verdict' = [verdict EXCEPT !.exit = "error"]
    /\ trouble' = trouble \cup {"interrupted"}
                    \cup (IF Running /\ Stage = Attach THEN {"in losetup"} ELSE {})
    /\ UNCHANGED <<mounted, mounts, loopdev, procs>>

\* Only camera-test-capture.py has a handler of SIGTERM.
Terminated ==
    /\ Running \/ Ending
    /\ runtime.program # "capture"
    /\ runtime' = [runtime EXCEPT !.at = "ended"]
    /\ verdict' = [verdict EXCEPT !.exit = "error"]
    /\ trouble' = trouble \cup {"interrupted"}
    /\ UNCHANGED <<mounted, mounts, loopdev, procs>>

-----------------------------------------------------------------------------
(* The finally block. *)

\* The processes that are held are killed and waited for.
KillAll ==
    /\ runtime.at = "kill"
    /\ procs' = [procs EXCEPT !.alive = @ \ procs.held]
    /\ runtime' = [runtime EXCEPT !.at = "umount"]
    /\ UNCHANGED <<mounted, mounts, loopdev, verdict, trouble>>

\* The root is busy under another mount or with a process in it.
Busy(m) == m = "root" /\ (mounted # {"root"} \/ procs.alive # {})

\* Mutant: the first mount first.
UmountFirst == 1

\* reversed(mounts)
NextUmount == Len(mounts)

Umount ==
    /\ runtime.at = "umount"
    /\ mounts # <<>>
    /\ ~Busy(mounts[NextUmount])
    /\ mounted' = mounted \ {mounts[NextUmount]}
    /\ mounts' = RemoveAt(mounts, NextUmount)
    /\ UNCHANGED <<runtime, loopdev, procs, verdict, trouble>>

\* An umount, the wait after a kill or the detach fails: nothing else is
\* removed.  It must when the root is busy.
EndingFails ==
    /\ Ending
    /\ \/ runtime.at = "umount" /\ mounts # <<>> /\ Busy(mounts[NextUmount])
             /\ UNCHANGED trouble
       \/ runtime.at = "rmdir" /\ mounted # {} /\ UNCHANGED trouble
       \/ trouble' = trouble \cup {"ending failed"}
    /\ runtime' = [runtime EXCEPT !.at = "ended"]
    /\ verdict' = [verdict EXCEPT !.exit = "error"]
    /\ UNCHANGED <<mounted, mounts, loopdev, procs>>

Unmounted ==
    /\ runtime.at = "umount"
    /\ mounts = <<>>
    /\ runtime' = [runtime EXCEPT !.at = "detach"]
    /\ UNCHANGED <<mounted, mounts, loopdev, procs, verdict, trouble>>

Detach ==
    /\ runtime.at = "detach"
    /\ loopdev' = IF loopdev.held THEN [attached |-> FALSE, held |-> FALSE] ELSE loopdev
    /\ runtime' = [runtime EXCEPT !.at = "rmdir"]
    /\ UNCHANGED <<mounted, mounts, procs, verdict, trouble>>

\* root.rmdir(), the message, and the exit: in camera-test-capture.py a removed
\* runtime is no success of the provider.
Rmdir ==
    /\ runtime.at = "rmdir"
    /\ mounted = {}
    /\ runtime' = [runtime EXCEPT !.at = "ended"]
    /\ verdict' = [verdict EXCEPT !.announced = TRUE,
                     !.exit = IF @ = "error" THEN @
                              ELSE IF runtime.program = "capture" /\ verdict.provider # "ok"
                              THEN "error" ELSE "ok"]
    /\ UNCHANGED <<mounted, mounts, loopdev, procs, trouble>>

Next ==
    \/ Start
    \/ Acquire
    \/ Note
    \/ FinishProcess
    \/ ProcessEnds
    \/ Fails
    \/ Interrupted
    \/ Terminated
    \/ KillAll
    \/ Umount
    \/ EndingFails
    \/ Unmounted
    \/ Detach
    \/ Rmdir

Spec == Init /\ [][Next]_runtimeVars

-----------------------------------------------------------------------------
Removed == mounted = {} /\ procs.alive = {}

\* ISOLATED_RUNTIME_REMOVED is true: no mount is left and no process runs in
\* the runtime, even one that a signal kept the program from noting; the loop
\* device is detached, unless the signal fell in losetup.  And a runtime is
\* removed whatever fails while it is built, if nothing fails after that.  A
\* capture that succeeds is one whose provider did.
RemovedIsGone ==
    /\ verdict.announced =>
        Removed /\ (loopdev.attached => "in losetup" \in trouble)
    /\ runtime.at = "ended" /\ trouble \subseteq {"failed"} =>
        Removed /\ ~loopdev.attached /\ verdict.announced
    /\ verdict.exit = "ok" =>
        /\ verdict.announced
        /\ runtime.program = "capture" => verdict.provider = "ok"

-----------------------------------------------------------------------------
(* The inductive invariant.  The root is mounted first and unmounted last, and *)
(* while nothing was interrupted everything that is there has been noted.      *)

Names == {"root", "tree", "override", "icp", "cvp", "output", "probe", "system_ext", "dev",
          "nodes", "binderfs", "shim", "loop", "manager", "client", "provider"}
Steps == [does : {"mount", "attach", "spawn", "finish"}, what : Names]

\* What every program's stages have in common.
Sequenced(s) ==
    /\ s \in Seq(Steps) /\ Len(s) > 0 /\ s[1] = Mount("root")
    /\ \A k \in 2..Len(s) : s[k].what # "root"
    /\ \A k \in 1..Len(s) : s[k].does = "attach" => s[k] = Attach

Runtimes == [program : {"none", "capture", "no-ncs", "backtrace"}, stages : Seq(Steps),
             at : {"start", "do", "note", "kill", "umount", "detach", "rmdir", "ended"},
             i : Nat]
Verdicts == [provider : {"unset", "ok", "error"}, announced : BOOLEAN,
             exit : {"none", "error", "ok"}]

Typed ==
    /\ runtime \in Runtimes /\ mounted \subseteq Names /\ mounts \in Seq(Names)
    /\ loopdev \in [attached : BOOLEAN, held : BOOLEAN]
    /\ procs \in [alive : SUBSET Names, held : SUBSET Names] /\ verdict \in Verdicts

\* What the command of this stage has acquired and no statement noted yet.
Pending(kind) ==
    IF runtime.at = "note" /\ Stage.does = kind THEN {Stage.what} ELSE {}

Listed == {mounts[k] : k \in 1..Len(mounts)}

BuiltInOrder ==
    Running =>
        /\ Sequenced(runtime.stages) /\ runtime.i \in 1..Len(runtime.stages)
        /\ runtime.i = 1 => mounts = <<>>
        /\ runtime.i > 1 \/ runtime.at = "note" => "root" \in mounted

RootLast ==
    /\ "root" \notin mounted => mounted = {} /\ procs.alive = {}
    /\ "root" \in Listed => "root" \in mounted
    /\ \A k \in 2..Len(mounts) : mounts[k] # "root"

Noted ==
    trouble \subseteq {"failed"} =>
        /\ mounted \subseteq Listed \cup Pending("mount")
        /\ procs.alive \subseteq procs.held \cup Pending("spawn")
        /\ runtime.at \in {"umount", "detach", "rmdir"} => procs.alive = {}

LoopNoted ==
    /\ loopdev.attached =>
         loopdev.held \/ "in losetup" \in trouble \/ runtime.at = "ended"
           \/ (runtime.at = "note" /\ Stage = Attach)
    /\ runtime.at = "rmdir" /\ loopdev.attached => "in losetup" \in trouble

NotOver ==
    /\ runtime.at # "ended" => ~verdict.announced /\ verdict.exit # "ok"
    /\ runtime.at \in {"start", "detach", "rmdir"} => mounts = <<>>

RuntimeInv ==
    Typed /\ BuiltInOrder /\ RootLast /\ Noted /\ LoopNoted /\ NotOver /\ RemovedIsGone
=============================================================================
