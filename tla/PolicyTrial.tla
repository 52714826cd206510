---------------------------- MODULE PolicyTrial ----------------------------
(***************************************************************************)
(* The trials that came before lmi-npu-suspend: a helper isolates a few    *)
(* devfreq clients for as long as a bounded systemd unit runs.             *)
(*                                                                         *)
(* Two kinds of trial.  "apply" (lmi-npu-bandwidth-policy.py for one       *)
(* client, lmi-npu-three-bandwidth-policy.py for three): the unit itself   *)
(* applies the policy.  "lifecycle" (candidates 25 and 31): a hook of      *)
(* systemd-suspend applies it before each sleep and restores it after,     *)
(* while the unit is active.  In both, ExecStopPost restores.  In a        *)
(* lifecycle trial it may run at the same time as the hook: nothing locks. *)
(***************************************************************************)
EXTENDS Naturals

CONSTANTS
    N,              \* the clients of BASELINES are 1..N, in its order
    MaxTrials,      \* bound: trials
    MaxCycles       \* bound: suspends

TrialAssumption == N \in Nat \ {0} /\ MaxTrials \in Nat /\ MaxCycles \in Nat

Clients == 1..N
Helpers == {"worker", "stopper"}    \* the hook or the unit; ExecStopPost

VARIABLES
    trial,      \* [kind, managed, unit, hook, number]: the unit, the sleep hook
    suspend,    \* [at, cycle]: systemd-suspend.service
    client,     \* the governor of each client
    record,     \* the recovery state on disk: none, empty, full
    helper,     \* each helper: its job, where it is, the client it is at
    spoiled     \* history: what excuses a client that is not restored

trialVars == <<trial, suspend, client, record, helper, spoiled>>

Idle == [job |-> "none", at |-> "idle", i |-> 1, failed |-> FALSE, then |-> "end"]

Init ==
    /\ trial = [kind |-> "apply", managed |-> TRUE, unit |-> "over", hook |-> FALSE,
                number |-> 0]
    /\ suspend = [at |-> "awake", cycle |-> 0]
    /\ client = [c \in Clients |-> "performance"]
    /\ record = "none"
    /\ helper = [h \in Helpers |-> Idle]
    /\ spoiled = {}

Goto(h, at) == helper' = [helper EXCEPT ![h].at = at, ![h].i = 1]
Exit(h) == helper' = [helper EXCEPT ![h] = Idle]
Next1(h, at, end) ==
    IF helper[h].i = N THEN Goto(h, end)
    ELSE helper' = [helper EXCEPT ![h].at = at, ![h].i = @ + 1]

-----------------------------------------------------------------------------
(* The unit and the suspends. *)

Begin(job) == [Idle EXCEPT !.job = job, !.at = "admit"]

\* Someone starts a trial: `managed` when the unit is bounded in time and has
\* the one restoration command the helper asks for.  A lifecycle trial installs
\* its hook.
StartTrial ==
    /\ trial.unit = "over" /\ trial.number < MaxTrials
    /\ \A h \in Helpers : helper[h] = Idle
    /\ \E kind \in {"apply", "lifecycle"}, managed \in BOOLEAN :
        /\ trial' = [trial EXCEPT !.kind = kind, !.managed = managed, !.unit = "active",
                                  !.hook = @ \/ kind = "lifecycle", !.number = @ + 1]
        /\ helper' = [helper EXCEPT !["worker"] =
                        IF kind = "apply" THEN Begin("apply") ELSE Idle]
    /\ UNCHANGED <<suspend, client, record, spoiled>>

\* The unit stops, by RuntimeMaxSec or by hand: its own process is killed, then
\* ExecStopPost runs.  A pre that was let in before is not stopped.
StopTrial ==
    /\ trial.unit = "active"
    /\ trial' = [trial EXCEPT !.unit = "stopping"]
    /\ helper' = [helper EXCEPT
         !["worker"] = IF @.job = "apply" THEN Idle ELSE @,
         !["stopper"] = IF trial.managed THEN Begin("restore") ELSE Idle]
    /\ spoiled' = IF helper["worker"].job = "pre" THEN spoiled \cup {"overlap"} ELSE spoiled
    /\ UNCHANGED <<suspend, client, record>>

UnitOver ==
    /\ trial.unit = "stopping"
    /\ helper["stopper"] = Idle
    /\ trial' = [trial EXCEPT !.unit = "over"]
    /\ UNCHANGED <<suspend, client, record, helper, spoiled>>

\* systemd-suspend calls the hook before and after; what it returns is ignored.
Suspend(from, to, job) ==
    /\ suspend.at = from /\ suspend.cycle < MaxCycles
    /\ helper["worker"] = Idle
    /\ suspend' = [suspend EXCEPT !.at = to]
    /\ helper' = [helper EXCEPT !["worker"] = IF trial.hook THEN Begin(job) ELSE @]
    /\ UNCHANGED <<trial, client, record, spoiled>>

Pre == Suspend("awake", "pre", "pre")
Post == Suspend("pre", "post", "post")

Awake ==
    /\ suspend.at = "post"
    /\ helper["worker"] = Idle
    /\ suspend' = [at |-> "awake", cycle |-> suspend.cycle + 1]
    /\ UNCHANGED <<trial, client, record, helper, spoiled>>

\* Someone selects another governor.
External ==
    /\ "external" \notin spoiled
    /\ \E c \in Clients : client' = [client EXCEPT ![c] = "other"]
    /\ spoiled' = spoiled \cup {"external"}
    /\ UNCHANGED <<trial, suspend, record, helper>>

\* The phone starts again: the record and the hook are on disk.
Reboot ==
    /\ trial.unit # "over"
    /\ trial' = [trial EXCEPT !.unit = "over"]
    /\ suspend' = [suspend EXCEPT !.at = "awake"]
    /\ client' = [c \in Clients |-> "performance"]
    /\ helper' = [h \in Helpers |-> Idle]
    /\ spoiled' = {}
    /\ UNCHANGED record

-----------------------------------------------------------------------------
(* The helper, one step for each access. *)

At(h, at) == helper[h].at = at

\* Mutant: the unit is active, and is not asked how it will be restored.
VerifyActiveOnly == trial.unit = "active"

\* verify_managed_unit()
VerifyManaged == trial.unit = "active" /\ trial.managed

\* apply: the trial is managed and the device quiet, which may not be so.
AdmitApply ==
    /\ At("worker", "admit") /\ helper["worker"].job = "apply"
    /\ \/ VerifyManaged /\ Goto("worker", "inspect")
       \/ Exit("worker")
    /\ UNCHANGED <<trial, suspend, client, record, spoiled>>

\* saved_originals(): the record must be whole.
Loaded(h, then) ==
    IF record = "full"
    THEN helper' = [helper EXCEPT ![h].at = "look", ![h].then = then]
    ELSE Exit(h)

\* pre: inside a suspend, and what an earlier cycle left is restored first.
AdmitPre ==
    /\ At("worker", "admit") /\ helper["worker"].job = "pre"
    /\ \/ /\ VerifyManaged
          /\ IF record = "none" THEN Goto("worker", "inspect") ELSE Loaded("worker", "unlink")
       \/ Exit("worker")
    /\ UNCHANGED <<trial, suspend, client, record, spoiled>>

\* post and restore: without a record this owner changed nothing; one that is
\* not whole is an error.
AdmitRestore(h) ==
    /\ At(h, "admit") /\ helper[h].job \in {"post", "restore"}
    /\ IF record = "full" THEN Loaded(h, "finally") ELSE Goto(h, "finally")
    /\ UNCHANGED <<trial, suspend, client, record, spoiled>>

\* inspect(): every client must be as it was reviewed.
Inspect ==
    /\ At("worker", "inspect")
    /\ IF client[helper["worker"].i] = "performance" THEN Next1("worker", "inspect", "create")
       ELSE Exit("worker")
    /\ UNCHANGED <<trial, suspend, client, record, spoiled>>

\* save(): O_EXCL, then the content, which may not be written.
Create ==
    /\ At("worker", "create")
    /\ IF record = "none" THEN record' = "empty" /\ Goto("worker", "save")
       ELSE UNCHANGED record /\ Exit("worker")
    /\ UNCHANGED <<trial, suspend, client, spoiled>>

Save ==
    /\ At("worker", "save")
    /\ \/ record' = "full" /\ Goto("worker", "write")
       \/ record' \in {"empty", "full"} /\ Exit("worker")
    /\ UNCHANGED <<trial, suspend, client, spoiled>>

\* apply_all() on an error: restore_all() with the originals, then raise.
Undo == helper' = [helper EXCEPT !["worker"].at = "look", !["worker"].i = 1,
                                 !["worker"].then = "end"]

\* apply_all(): the governor is written; the write may fail, stored or not.
Write ==
    /\ At("worker", "write")
    /\ \/ /\ client' = [client EXCEPT ![helper["worker"].i] = "powersave"]
          /\ \/ helper' = [helper EXCEPT !["worker"].at = "confirm"]
             \/ Undo
       \/ UNCHANGED client /\ Undo
    /\ UNCHANGED <<trial, suspend, record, spoiled>>

\* The governor and its target are read again.
Confirm ==
    /\ At("worker", "confirm")
    /\ IF client[helper["worker"].i] = "powersave" THEN Next1("worker", "write", "end")
       ELSE Undo
    /\ UNCHANGED <<trial, suspend, client, record, spoiled>>

AfterClient(h, failed) ==
    IF helper[h].i = N
    THEN helper' = [helper EXCEPT ![h].i = 1, ![h].failed = @ \/ failed, ![h].at =
            IF helper[h].then = "unlink" /\ (helper[h].failed \/ failed) THEN "end"
            ELSE helper[h].then]
    ELSE helper' = [helper EXCEPT ![h].i = @ + 1, ![h].failed = @ \/ failed, ![h].at = "look"]

\* restore(): a client someone changed is left alone, and the others restored.
Look(h) ==
    /\ At(h, "look")
    /\ CASE client[helper[h].i] = "performance" -> AfterClient(h, FALSE)
         [] client[helper[h].i] = "other" -> AfterClient(h, TRUE)
         [] OTHER -> helper' = [helper EXCEPT ![h].at = "rewrite"]
    /\ UNCHANGED <<trial, suspend, client, record, spoiled>>

Rewrite(h) ==
    /\ At(h, "rewrite")
    /\ \/ /\ client' = [client EXCEPT ![helper[h].i] = "performance"]
          /\ AfterClient(h, FALSE)
          /\ UNCHANGED spoiled
       \/ /\ spoiled' = spoiled \cup {"write"}
          /\ AfterClient(h, TRUE)
          /\ UNCHANGED client
    /\ UNCHANGED <<trial, suspend, record>>

\* pre, once the earlier cycle is restored.
Unlink ==
    /\ At("worker", "unlink")
    /\ record' = "none"
    /\ Goto("worker", "inspect")
    /\ UNCHANGED <<trial, suspend, client, spoiled>>

\* The end of a job; restore takes the hook away, whatever happened.
End(h) ==
    /\ helper[h].at \in {"finally", "end"}
    /\ trial' = [trial EXCEPT !.hook = @ /\ ~(h = "stopper" /\ trial.kind = "lifecycle")]
    /\ Exit(h)
    /\ UNCHANGED <<suspend, client, record, spoiled>>

Next ==
    \/ StartTrial
    \/ StopTrial
    \/ UnitOver
    \/ Pre
    \/ Post
    \/ Awake
    \/ External
    \/ Reboot
    \/ AdmitApply
    \/ AdmitPre
    \/ \E h \in Helpers : AdmitRestore(h) \/ Look(h) \/ Rewrite(h) \/ End(h)
    \/ Inspect
    \/ Create
    \/ Save
    \/ Write
    \/ Confirm
    \/ Unlink

Spec == Init /\ [][Next]_trialVars

-----------------------------------------------------------------------------
\* A client is isolated only while the whole recovery record is on disk, also
\* when the helper is killed, when the hook and ExecStopPost run together, and
\* when an earlier record is replaced.
RecordFirst == (\E c \in Clients : client[c] = "powersave") => record = "full"

\* When a trial is over, its policy is: every client is restored, unless a write
\* of the kernel failed, someone changed a client, or the unit was stopped
\* while a pre it had let in was at work.
TrialLeavesNothing ==
    trial.unit = "over" /\ helper["worker"] = Idle /\ spoiled = {} =>
        \A c \in Clients : client[c] = "performance"

-----------------------------------------------------------------------------
(* The inductive invariant.  Only the worker writes the record and isolates a   *)
(* client; it does so under a unit that will restore, whose stop finds it at    *)
(* work or not yet admitted.                                                    *)

Jobs == {"none", "apply", "pre", "post", "restore"}
Isolating == {"inspect", "create", "save", "write", "confirm", "unlink"}
Steps == Isolating \cup {"idle", "admit", "look", "rewrite", "finally", "end"}

Trials == [kind : {"apply", "lifecycle"}, managed : BOOLEAN,
           unit : {"active", "stopping", "over"}, hook : BOOLEAN, number : Nat]
HelperStates == [job : Jobs, at : Steps, i : Clients, failed : BOOLEAN,
                 then : {"end", "finally", "unlink"}]

Typed ==
  /\ trial \in Trials
  /\ suspend \in [at : {"awake", "pre", "post"}, cycle : Nat]
  /\ client \in [Clients -> {"performance", "powersave", "other"}]
  /\ record \in {"none", "empty", "full"}
  /\ helper \in [Helpers -> HelperStates]

Untouched(c) == client[c] # "powersave"

Worker == helper["worker"]
Stopper == helper["stopper"]

\* What the worker knows of the record, and of the clients it has restored.
WorkerKnows ==
  /\ Worker.at = "save" => record = "empty"
  /\ Worker.at \in {"write", "confirm"} => record = "full"
  /\ Worker.at = "unlink" => \A c \in Clients : Untouched(c)
  /\ Worker.at \in {"look", "rewrite"} /\ Worker.then = "unlink" /\ ~Worker.failed
       => \A c \in 1..(Worker.i - 1) : Untouched(c)
  /\ Worker.at \in {"look", "rewrite"} /\ Worker.then = "unlink" => Worker.job = "pre"
  /\ Worker.at = "admit" => Worker.i = 1
  /\ Worker.at \in Isolating => Worker.job \in {"apply", "pre"}
  /\ Worker.job \in {"apply", "pre"} /\ Worker.at # "admit" => trial.managed
  /\ Worker.at = "idle" => Worker.job = "none"

StopperKnows ==
  /\ Stopper.at \in {"idle", "admit", "look", "rewrite", "finally", "end"}
  /\ Stopper.at = "admit" => Stopper.i = 1 /\ Stopper.job = "restore"
  /\ Stopper.at \in {"look", "rewrite"} => Stopper.then = "finally"
  /\ trial.unit # "stopping" => Stopper = Idle

Restored(c) == client[c] = "performance"
Clean == \A c \in Clients : Restored(c)

\* What is left to restore, when nothing excuses it.
Owed ==
  /\ \A c \in Clients : client[c] # "other"
  /\ trial.unit = "over" \/ ~trial.managed => Clean
  /\ trial.unit # "active" =>
       /\ Worker.job # "apply"
       /\ Worker.job = "pre" => Worker.at = "admit"
  /\ trial.unit = "stopping" =>
       /\ Stopper.at \in {"idle", "finally", "end"} => Clean
       /\ Stopper.at \in {"look", "rewrite"} => \A c \in 1..(Stopper.i - 1) : Restored(c)

TrialInv ==
  Typed /\ RecordFirst /\ WorkerKnows /\ StopperKnows /\ (spoiled = {} => Owed)
=============================================================================
