----------------------------- MODULE NpuSuspend -----------------------------
(***************************************************************************)
(* The suspend-only NPU bandwidth policy: userspace/power/scripts/         *)
(* lmi-npu-suspend, its systemd-sleep hook and the ExecStopPost drop-in.   *)
(*                                                                         *)
(* A run of the script is a process that takes an exclusive flock without  *)
(* waiting, undoes what an interrupted run left behind, and, in mode       *)
(* "pre" and when it is allowed to, selects the powersave governor on      *)
(* every reviewed devfreq node after it has written a recovery record.     *)
(* Runs are started by systemd-suspend.service (the hook before and after  *)
(* the sleep, the ExecStopPost command when the unit stops) and by root    *)
(* from a shell.  Any of them can be killed between two steps.             *)
(*                                                                         *)
(* The record holds the originals, which inspect has found equal to the    *)
(* reviewed baseline: only the device paths in it vary.  The order of the  *)
(* nodes in a loop is left open.  The kernel is the reviewed one (on any   *)
(* other nothing is ever applied), and the ownership and symlink tests of  *)
(* private_regular are taken to pass.                                      *)
(***************************************************************************)
EXTENDS Naturals

CONSTANTS
  Nodes,        \* the reviewed devfreq clients, the keys of BASELINES
  Paths,        \* the sysfs paths a node's class link can resolve to
  Service,      \* the process systemd-suspend.service runs
  Shells,       \* the processes root runs by hand
  ShellModes,   \* the modes root runs the script in
  Free,         \* the lock is free, a process is at no node
  Faults,       \* the kinds of fault that occur
  MaxFaults,    \* bound: faults in a behaviour
  MaxExternal   \* bound: changes made by others in a behaviour

FaultKinds == {"refused", "unapplied", "kill"}
Modes == {"pre", "post", "recover"}
Procs == Shells \cup {Service}

ASSUME ProcAssumption == Service \notin Shells /\ Free \notin Procs
ASSUME NodeAssumption == Free \notin Nodes /\ Paths # {}
ASSUME ModeAssumption == ShellModes \subseteq Modes /\ Faults \subseteq FaultKinds

VARIABLES
  gov, cur,     \* governor and cur_freq of a node
  tuned,        \* min_freq or max_freq of a node differ from the baseline
  bound,        \* where the class link of a node resolves to
  record,       \* state.json: absent, created but not written, complete
  recPath,      \* "devices" of a complete record
  lock,         \* the process that holds the flock
  pc, job,      \* control and locals of each process
  unit,         \* the stage of systemd-suspend.service
  optIn, busy,  \* the opt-in marker; fuser finds /dev/msm_npu in use
  faults, externals

devVars == <<gov, cur, tuned, bound>>
recVars == <<record, recPath>>
procVars == <<lock, pc, job>>
hostVars == <<unit, optIn, busy>>
vars == <<devVars, recVars, procVars, hostVars, faults, externals>>

Steps == {"idle", "start", "admit", "load", "restore", "rewrite", "confirm",
          "unlink", "inspect", "create", "save", "apply", "zero"}

Jobs == [mode : Modes, allowed : BOOLEAN, undo : BOOLEAN, failed : BOOLEAN,
         todo : SUBSET Nodes, node : Nodes \cup {Free}, path : [Nodes -> Paths]]

AnyPath == [n \in Nodes |-> CHOOSE x \in Paths : TRUE]

NoJob == [mode |-> "post", allowed |-> FALSE, undo |-> FALSE, failed |-> FALSE,
          todo |-> {}, node |-> Free, path |-> AnyPath]

Init ==
  /\ gov = [n \in Nodes |-> "performance"]
  /\ cur = [n \in Nodes |-> "max"]
  /\ tuned = [n \in Nodes |-> FALSE]
  /\ bound = AnyPath
  /\ record = "none"
  /\ recPath = AnyPath
  /\ lock = Free
  /\ pc = [p \in Procs |-> "idle"]
  /\ job = [p \in Procs |-> NoJob]
  /\ unit = "idle"
  /\ optIn \in BOOLEAN
  /\ busy = FALSE
  /\ faults = 0
  /\ externals = 0

----------------------------------------------------------------------------
(* Helpers *)

Fault(kind) == kind \in Faults /\ faults < MaxFaults /\ faults' = faults + 1

NoFault == UNCHANGED faults

Goto(p, step, locals) ==
  /\ pc' = [pc EXCEPT ![p] = step]
  /\ job' = [job EXCEPT ![p] = locals]
  /\ UNCHANGED lock

\* Mutant of Quit: the lock outlives the process that took it.
QuitKeepsLock(p) ==
  /\ pc' = [pc EXCEPT ![p] = "idle"]
  /\ job' = [job EXCEPT ![p] = NoJob]
  /\ UNCHANGED lock

\* The process ends, by return, exception or signal: closing fd drops the flock.
Quit(p) ==
  /\ pc' = [pc EXCEPT ![p] = "idle"]
  /\ job' = [job EXCEPT ![p] = NoJob]
  /\ lock' = IF lock = p THEN Free ELSE lock

\* The path a process resolved when it started still names the node's device.
Fresh(p, n) == job[p].path[n] = bound[n]

Activating == unit \in {"pre", "post"}

\* A write to a node's governor attribute, and what the driver made of it.
WriteGovernor(n, g) ==
  /\ gov' = [gov EXCEPT ![n] = g]
  /\ cur' = [cur EXCEPT ![n] = IF g = "powersave" THEN "zero" ELSE "max"]
  /\ UNCHANGED <<tuned, bound>>

\* devfreq stores the new governor before the governor sets its first target.
WriteUnapplied(n, g) ==
  /\ gov' = [gov EXCEPT ![n] = g]
  /\ UNCHANGED <<cur, tuned, bound>>

\* A failing write: the governor is unchanged, or stored with no target set.
FailedWrite(n, g) ==
  \/ Fault("refused") /\ UNCHANGED devVars
  \/ Fault("unapplied") /\ WriteUnapplied(n, g)

----------------------------------------------------------------------------
(* main() up to recover() *)

Enter(p) ==
  /\ pc[p] = "start"
  /\ IF lock = Free
     THEN /\ lock' = p
          /\ pc' = [pc EXCEPT ![p] = "admit"]
          /\ UNCHANGED job
     ELSE Quit(p)
  /\ UNCHANGED <<devVars, recVars, hostVars, faults, externals>>

\* Mutant of Admit: without the opt-in marker nothing is recovered either.
AdmitOptedIn(p) ==
  LET allowed == job[p].mode = "pre" /\ optIn /\ ~busy IN
  /\ pc[p] = "admit"
  /\ IF ~optIn \/ (~allowed /\ record = "none")
     THEN Quit(p)
     ELSE Goto(p, "load", [job[p] EXCEPT !.allowed = allowed, !.path = bound])
  /\ UNCHANGED <<devVars, recVars, hostVars, faults, externals>>

\* The tests of main() under the lock, with pre_allowed() and the Node objects.
Admit(p) ==
  LET pre == job[p].mode = "pre"
      allowed == pre /\ optIn /\ ~busy
  IN
  /\ pc[p] = "admit"
  /\ IF \/ pre /\ optIn /\ ~Activating
        \/ ~allowed /\ record = "none"
     THEN Quit(p)
     ELSE Goto(p, "load", [job[p] EXCEPT !.allowed = allowed, !.path = bound])
  /\ UNCHANGED <<devVars, recVars, hostVars, faults, externals>>

Loadable(p) == record = "valid" /\ recPath = job[p].path

\* recover() up to restore_all(): load_state() raises on a partial record and
\* on one written for other devices.
Load(p) ==
  /\ pc[p] = "load"
  /\ \/ /\ record = "none"
        /\ Goto(p, "inspect", job[p])
     \/ /\ record # "none" /\ ~Loadable(p)
        /\ Quit(p)
     \/ /\ Loadable(p)
        /\ Goto(p, "restore", [job[p] EXCEPT !.todo = Nodes])
  /\ UNCHANGED <<devVars, recVars, hostVars, faults, externals>>

----------------------------------------------------------------------------
(* restore_all(): one node fails without keeping the others from their turn *)

Done(p, n, failed) ==
  Goto(p, "restore", [job[p] EXCEPT !.todo = @ \ {n}, !.node = Free,
                                    !.failed = @ \/ failed])

\* Mutant of Ours: any governor is taken for the script's own.
OursAnyGovernor(p, n) == Fresh(p, n) /\ ~tuned[n]

\* Limits and governor are as the script left them.
Ours(p, n) == Fresh(p, n) /\ ~tuned[n] /\ gov[n] \in {"performance", "powersave"}

RestoreRead(p, n) ==
  /\ pc[p] = "restore" /\ n \in job[p].todo
  /\ \/ ~Ours(p, n) /\ Done(p, n, TRUE)
     \/ /\ Ours(p, n)
        /\ Goto(p, IF gov[n] = "performance" THEN "confirm" ELSE "rewrite",
                [job[p] EXCEPT !.node = n])
  /\ UNCHANGED <<devVars, recVars, hostVars, faults, externals>>

RestoreWrite(p) ==
  LET n == job[p].node IN
  /\ pc[p] = "rewrite"
  /\ \/ ~Fresh(p, n) /\ Done(p, n, TRUE) /\ NoFault /\ UNCHANGED devVars
     \/ /\ Fresh(p, n) /\ NoFault
        /\ WriteGovernor(n, "performance")
        /\ Goto(p, "confirm", job[p])
     \/ Fresh(p, n) /\ FailedWrite(n, "performance") /\ Done(p, n, TRUE)
  /\ UNCHANGED <<recVars, hostVars, externals>>

RestoreConfirm(p) ==
  LET n == job[p].node IN
  /\ pc[p] = "confirm"
  /\ Done(p, n, ~(Fresh(p, n) /\ gov[n] = "performance" /\ cur[n] = "max"))
  /\ UNCHANGED <<devVars, recVars, hostVars, faults, externals>>

\* Mutant of RestoreEnd: the record goes even if a node was not restored.
RestoreEndForgets(p) ==
  /\ pc[p] = "restore" /\ job[p].todo = {}
  /\ IF job[p].undo THEN Quit(p) ELSE Goto(p, "unlink", job[p])
  /\ UNCHANGED <<devVars, recVars, hostVars, faults, externals>>

\* The exception that reports the failures, or the end of an undone apply_all().
RestoreEnd(p) ==
  /\ pc[p] = "restore" /\ job[p].todo = {}
  /\ IF job[p].failed \/ job[p].undo
     THEN Quit(p)
     ELSE Goto(p, "unlink", job[p])
  /\ UNCHANGED <<devVars, recVars, hostVars, faults, externals>>

Unlink(p) ==
  /\ pc[p] = "unlink"
  /\ record' = "none"
  /\ IF job[p].allowed THEN Goto(p, "inspect", job[p]) ELSE Quit(p)
  /\ UNCHANGED <<devVars, recPath, hostVars, faults, externals>>

----------------------------------------------------------------------------
(* apply_all() *)

Baseline(p, n) ==
  Fresh(p, n) /\ gov[n] = "performance" /\ cur[n] = "max" /\ ~tuned[n]

Inspect(p) ==
  /\ pc[p] = "inspect"
  /\ IF \A n \in Nodes : Baseline(p, n)
     THEN Goto(p, "create", job[p])
     ELSE Quit(p)
  /\ UNCHANGED <<devVars, recVars, hostVars, faults, externals>>

\* save_state() creates the file with O_EXCL and writes it afterwards.
Create(p) ==
  /\ pc[p] = "create" /\ record = "none"
  /\ record' = "partial"
  /\ Goto(p, "save", job[p])
  /\ UNCHANGED <<devVars, recPath, hostVars, faults, externals>>

Save(p) ==
  /\ pc[p] = "save"
  /\ \/ /\ record' = "valid" /\ recPath' = job[p].path
        /\ Goto(p, "apply", [job[p] EXCEPT !.todo = Nodes])
        /\ NoFault
     \/ Fault("refused") /\ Quit(p) /\ UNCHANGED recVars
  /\ UNCHANGED <<devVars, hostVars, externals>>

\* The exception handler of apply_all() restores every node.
Undo(p) ==
  Goto(p, "restore", [job[p] EXCEPT !.todo = Nodes, !.node = Free, !.undo = TRUE])

ApplyWrite(p, n) ==
  /\ pc[p] = "apply" /\ n \in job[p].todo
  /\ \/ ~Fresh(p, n) /\ Undo(p) /\ NoFault /\ UNCHANGED devVars
     \/ /\ Fresh(p, n) /\ NoFault
        /\ WriteGovernor(n, "powersave")
        /\ Goto(p, "zero", [job[p] EXCEPT !.node = n])
     \/ Fresh(p, n) /\ FailedWrite(n, "powersave") /\ Undo(p)
  /\ UNCHANGED <<recVars, hostVars, externals>>

ApplyConfirm(p) ==
  LET n == job[p].node IN
  /\ pc[p] = "zero"
  /\ IF Fresh(p, n) /\ gov[n] = "powersave" /\ cur[n] = "zero"
     THEN Goto(p, "apply", [job[p] EXCEPT !.todo = @ \ {n}, !.node = Free])
     ELSE Undo(p)
  /\ UNCHANGED <<devVars, recVars, hostVars, faults, externals>>

ApplyEnd(p) ==
  /\ pc[p] = "apply" /\ job[p].todo = {}
  /\ Quit(p)
  /\ UNCHANGED <<devVars, recVars, hostVars, faults, externals>>

Run(p) ==
  \/ Enter(p) \/ Admit(p) \/ Load(p)
  \/ \E n \in Nodes : RestoreRead(p, n) \/ ApplyWrite(p, n)
  \/ RestoreWrite(p) \/ RestoreConfirm(p) \/ RestoreEnd(p) \/ Unlink(p)
  \/ Inspect(p) \/ Create(p) \/ Save(p) \/ ApplyConfirm(p) \/ ApplyEnd(p)

----------------------------------------------------------------------------
(* systemd-suspend.service, the shell, and everything else that happens *)

Spawn(p, m) ==
  /\ pc[p] = "idle"
  /\ pc' = [pc EXCEPT ![p] = "start"]
  /\ job' = [job EXCEPT ![p] = [NoJob EXCEPT !.mode = m]]
  /\ UNCHANGED lock

\* systemd-sleep runs the hook, sleeps, runs it again; then the unit stops.
UnitStep(from, to, m) ==
  /\ unit = from /\ unit' = to
  /\ Spawn(Service, m)
  /\ UNCHANGED <<devVars, recVars, optIn, busy, faults, externals>>

Suspend == UnitStep("idle", "pre", "pre")
Resume == UnitStep("pre", "post", "post")
StopPost == UnitStep("post", "stopping", "recover")

UnitDone ==
  /\ unit = "stopping" /\ pc[Service] = "idle"
  /\ unit' = "idle"
  /\ UNCHANGED <<devVars, recVars, procVars, optIn, busy, faults, externals>>

\* The unit is stopped under the hook: its control group is killed, and
\* ExecStopPost runs.
StopUnit ==
  /\ Activating /\ Fault("kill")
  /\ unit' = "stopping"
  /\ pc' = [pc EXCEPT ![Service] = "start"]
  /\ job' = [job EXCEPT ![Service] = [NoJob EXCEPT !.mode = "recover"]]
  /\ lock' = IF lock = Service THEN Free ELSE lock
  /\ UNCHANGED <<devVars, recVars, optIn, busy, externals>>

Kill(p) ==
  /\ pc[p] # "idle" /\ Fault("kill")
  /\ Quit(p)
  /\ UNCHANGED <<devVars, recVars, hostVars, externals>>

Shell(p) ==
  /\ \E m \in ShellModes : Spawn(p, m)
  /\ UNCHANGED <<devVars, recVars, hostVars, faults, externals>>

\* The marker is installed or removed; a client opens or closes the NPU.
HostChange ==
  /\ \/ optIn' = ~optIn /\ UNCHANGED busy
     \/ busy' = ~busy /\ UNCHANGED optIn
  /\ UNCHANGED <<devVars, recVars, procVars, unit, faults, externals>>

\* Someone else selects a governor, sets a limit, or rebinds the device.
External(n) ==
  /\ externals < MaxExternal /\ externals' = externals + 1
  /\ \/ gov' = [gov EXCEPT ![n] = "other"] /\ UNCHANGED <<cur, tuned, bound>>
     \/ tuned' = [tuned EXCEPT ![n] = ~@] /\ UNCHANGED <<gov, cur, bound>>
     \/ \E x \in Paths \ {bound[n]} :
          /\ bound' = [bound EXCEPT ![n] = x]
          /\ gov' = [gov EXCEPT ![n] = "performance"]
          /\ cur' = [cur EXCEPT ![n] = "max"]
          /\ tuned' = [tuned EXCEPT ![n] = FALSE]
  /\ UNCHANGED <<recVars, procVars, hostVars, faults>>

\* /run is a tmpfs and the kernel boots with the baseline policy.
Reboot ==
  /\ gov' = [n \in Nodes |-> "performance"]
  /\ cur' = [n \in Nodes |-> "max"]
  /\ tuned' = [n \in Nodes |-> FALSE]
  /\ record' = "none"
  /\ recPath' = AnyPath
  /\ lock' = Free
  /\ pc' = [p \in Procs |-> "idle"]
  /\ job' = [p \in Procs |-> NoJob]
  /\ unit' = "idle"
  /\ busy' = FALSE
  /\ UNCHANGED <<bound, optIn, faults, externals>>

Next ==
  \/ \E p \in Procs : Run(p) \/ Kill(p)
  \/ \E p \in Shells : Shell(p)
  \/ Suspend \/ Resume \/ StopPost \/ UnitDone \/ StopUnit
  \/ HostChange \/ Reboot
  \/ \E n \in Nodes : External(n)

Spec == Init /\ [][Next]_vars

\* A started process runs on, and systemd takes a started unit to its end.
Fairness ==
  /\ \A p \in Procs : WF_vars(Run(p))
  /\ WF_vars(Resume \/ StopPost \/ UnitDone)

FairSpec == Spec /\ Fairness

----------------------------------------------------------------------------
(* Properties *)

\* The process is in the middle of its work on one node.
AtNode(p) == pc[p] \in {"rewrite", "confirm", "zero"}

\* Every variable holds a value of its kind, and a process that works on a node
\* has one (the loop variable of restore_all and apply_all).
TypeOK ==
  /\ gov \in [Nodes -> {"performance", "powersave", "other"}]
  /\ cur \in [Nodes -> {"zero", "max"}]
  /\ tuned \in [Nodes -> BOOLEAN]
  /\ bound \in [Nodes -> Paths]
  /\ record \in {"none", "partial", "valid"}
  /\ recPath \in [Nodes -> Paths]
  /\ lock \in Procs \cup {Free}
  /\ pc \in [Procs -> Steps]
  /\ job \in [Procs -> Jobs]
  /\ \A p \in Procs : AtNode(p) => job[p].node \in Nodes
  /\ unit \in {"idle", "pre", "post", "stopping"}
  /\ optIn \in BOOLEAN /\ busy \in BOOLEAN
  /\ faults \in Nat /\ externals \in Nat

\* Write-ahead ("durable recovery record before any mutable operation",
\* lmi-npu-suspend:83; "retain the record if any restoration fails", :120):
\* as long as the script's powersave governor is on a node, a complete record
\* that names the device it is on exists, whatever was killed, refused or
\* changed by others in between.
WriteAhead ==
  \A n \in Nodes :
    gov[n] = "powersave" => record = "valid" /\ recPath[n] = bound[n]

\* What makes WriteAhead inductive: the flock is held by the process past "start",
\* and the step a process is at says what is known of the record and the nodes.
LockInv == \A p \in Procs : lock = p <=> pc[p] \notin {"idle", "start"}

Clean(ns) == \A n \in ns : gov[n] # "powersave"

StepInv ==
  \A p \in Procs :
    /\ pc[p] \in {"inspect", "create"} => record = "none"
    /\ pc[p] = "save" => record = "partial"
    /\ pc[p] \in {"apply", "zero"} => record = "valid" /\ recPath = job[p].path
    /\ pc[p] \in {"restore", "rewrite", "confirm"} /\ ~job[p].failed /\ ~job[p].undo
         => Clean(Nodes \ job[p].todo)
    /\ pc[p] = "unlink" => Clean(Nodes)

IInv == LockInv /\ StepInv /\ WriteAhead

\* A process at this step, with these locals, has looked at node n and has not
\* written to it yet.
RacingAt(step, locals, n) ==
  \/ step = "rewrite" /\ locals.node = n
  \/ step \in {"create", "save"}
  \/ step = "apply" /\ n \in locals.todo
  \/ step = "zero" /\ n \in locals.todo /\ locals.node # n

Racing(p, n) == RacingAt(pc[p], job[p], n)

\* "Governor changed externally; preserve it" (lmi-npu-suspend:70): no look at a
\* node that someone else has set leads to a write, and a governor someone else
\* selected goes only by the write of a process that had looked before it was
\* selected.  (A reboot and a new device begin with the default governor.)
ExternalPreserved ==
  [][\A n \in Nodes :
       gov[n] = "other" =>
         /\ \A p \in Procs : Racing(p, n)' => Racing(p, n)
         /\ \/ gov'[n] = "other"
            \/ \E p \in Procs : Racing(p, n)
            \/ Reboot
            \/ bound'[n] # bound[n]]_vars

\* "Apply is restricted to systemd suspend" (lmi-npu-suspend:135): a node goes to
\* powersave only while systemd-suspend.service is activating.
RestrictedToSuspend ==
  [][\A n \in Nodes :
       gov[n] # "powersave" /\ gov'[n] = "powersave" => Activating]_vars

\* One failed write or killed process is made good by the runs that follow it in
\* the same unit cycle (90-lmi-npu-suspend.conf:2), when nobody else interferes:
\* with the unit inactive again no node is left with the powersave governor.
AwakeRestored ==
  (unit = "idle" /\ faults <= 1 /\ externals = 0 /\ Shells = {}) =>
    \A n \in Nodes : gov[n] # "powersave"

\* What makes AwakeRestored inductive, when systemd is alone with the script and at
\* most one thing went wrong: a run that has begun has restored the nodes it is done
\* with, the run after the sleep if nothing went wrong yet, and the last one of the
\* unit in any case.
Alone == Shells = {} /\ faults <= 1 /\ externals = 0

Undone ==
  /\ pc[Service] \in {"restore", "rewrite", "confirm"} => Clean(Nodes \ job[Service].todo)
  /\ pc[Service] = "confirm" => gov[job[Service].node] # "powersave"
  /\ pc[Service] \in {"idle", "unlink"} => Clean(Nodes)

AwakeOK ==
  /\ \A n \in Nodes : ~tuned[n] /\ gov[n] # "other"
  /\ record = "valid" => recPath = bound
  /\ pc[Service] \notin {"idle", "start", "admit"} => job[Service].path = bound
  /\ pc[Service] \in {"inspect", "create", "save", "apply", "zero"} => job[Service].allowed
  /\ pc[Service] = "load" /\ ~job[Service].allowed => record # "none"
  /\ job[Service].allowed => job[Service].mode = "pre"
  /\ unit # "pre" => job[Service].mode # "pre"
  /\ unit = "idle" => pc[Service] = "idle" /\ Clean(Nodes)
  /\ unit = "post" /\ faults = 0 => Undone
  /\ unit = "stopping" => Undone /\ (faults = 0 => Clean(Nodes))

AwakeInv == Alone => AwakeOK

\* A powersave target never outlasts the suspend: it is followed by the original
\* governor at its original frequency (README.md of userspace/power, "restores
\* their original performance targets on resume").
Restored ==
  \A n \in Nodes :
    (gov[n] = "powersave") ~> (gov[n] = "performance" /\ cur[n] = "max")
=============================================================================
