---------------------------- MODULE UserdataBuild ----------------------------
(***************************************************************************)
(* build-derived-userdata.sh with lib/loop-cleanup.sh: a golden image is   *)
(* copied, its root changed through a loop device, checked, and published  *)
(* under two names; a trap takes everything down when a command fails or a *)
(* signal comes.  Loop devices and output names are shared with others.    *)
(***************************************************************************)
CONSTANTS
  Builders,  \* runs with the same --version
  Devices,   \* loop devices
  Other,     \* an image of somebody else
  None

VARIABLES
  loops,  \* what backs each device: the working image of a builder, Other or None
  files,  \* outputs/: the two outputs and their .part files
  bld     \* the builders

vars == <<loops, files, bld>>

Outputs == {"raw", "sparse"}
Part(o) == IF o = "raw" THEN "rawPart" ELSE "sparsePart"
Parts == {"rawPart", "sparsePart"}
PublishStep(o) == IF o = "raw" THEN "publish raw" ELSE "publish sparse"
MarkStep(o) == IF o = "raw" THEN "mark raw" ELSE "mark sparse"

\* The golden image has a policy-rc.d of its own or none; "deny" is the build's.
Golden == [policy |-> "golden", harmed |-> {}]

NewBuilder ==
  [pc |-> "begin", rc |-> "none", loop |-> None, cand |-> None, work |-> None,
   mounted |-> FALSE, touched |-> FALSE, sum |-> None, parts |-> {}, created |-> {},
   unclean |-> FALSE, status |-> "none"]

Init ==
  /\ loops \in [Devices -> {Other, None}]
  /\ files = [f \in Outputs \cup Parts |-> None]
  /\ bld = [b \in Builders |-> NewBuilder]

At(b, p) == bld[b].pc = p
\* The fields a step assigns.
Assigned(r, fields) == [f \in DOMAIN r |-> IF f \in DOMAIN fields THEN fields[f] ELSE r[f]]
Set(b, fields) == bld' = [bld EXCEPT ![b] = Assigned(@, fields)]
Go(b, p) == Set(b, [pc |-> p])
Change(b, image, p) == Set(b, [work |-> image, pc |-> p]) /\ UNCHANGED <<loops, files>>

\* The steps on which the trap is set.
Trapped ==
  {"inputs", "attach", "mount", "policy", "mark", "packages", "restore", "overlay",
   "check", "unmount", "fsck", "detach", "detaching", "recheck", "move", "hash", "convert",
   "roundtrip", "publish raw", "mark raw", "publish sparse", "mark sparse", "record",
   "verify", "done"}
Clearing == {"clean", "remove"}

-----------------------------------------------------------------------------
(* The build. *)

\* The outputs are looked at before the trap is set.
Begin(b) ==
  /\ At(b, "begin")
  /\ IF \A f \in DOMAIN files : files[f] = None
     THEN Set(b, [pc |-> "inputs", parts |-> Parts, status |-> "IN_PROGRESS"])
     ELSE Go(b, "refused")
  /\ UNCHANGED <<loops, files>>

\* A command fails, or the trap of a signal runs after it: the EXIT trap.
Interrupted(b) ==
  /\ bld[b].pc \in Trapped /\ bld[b].rc = "none"
  /\ Set(b, [pc |-> "clean", rc |-> "failed"])
  /\ UNCHANGED <<loops, files>>

CopyGolden(b) == At(b, "inputs") /\ Change(b, Golden, "attach")

\* attach_work_loop(): losetup may have attached a device that cannot be attributed.
Attach(b) ==
  /\ At(b, "attach")
  /\ \E d \in Devices :
       /\ loops[d] = None
       /\ loops' = [loops EXCEPT ![d] = b]
       /\ \/ Set(b, [loop |-> d, pc |-> "mount"])
          \/ Set(b, [pc |-> "clean", rc |-> "failed"])
  /\ UNCHANGED files

\* The mount may not be what it should be.
Mount(b) ==
  /\ At(b, "mount")
  /\ \/ Set(b, [mounted |-> TRUE, pc |-> "policy"])
     \/ Set(b, [mounted |-> TRUE, pc |-> "clean", rc |-> "failed"])
  /\ UNCHANGED <<loops, files>>

\* A profile with packages: services must not start in the chroot.
Policy(b) ==
  /\ At(b, "policy")
  /\ \/ Change(b, [bld[b].work EXCEPT !.policy = "deny"], "mark")
     \/ Change(b, bld[b].work, "overlay")

PolicyMark(b) ==
  /\ At(b, "mark")
  /\ Set(b, [touched |-> TRUE, pc |-> "packages"])
  /\ UNCHANGED <<loops, files>>

\* Maintainer scripts, the overlay and hooks run as root on the image.
Harm(b) == {[bld[b].work EXCEPT !.harmed = h] : h \in SUBSET {"rootfs", "boot"}}

Packages(b) == At(b, "packages") /\ \E i \in Harm(b) : Change(b, i, "restore")

RestorePolicy(b) ==
  /\ At(b, "restore")
  /\ Set(b, [work |-> [bld[b].work EXCEPT !.policy = "golden"], touched |-> FALSE,
             pc |-> "overlay"])
  /\ UNCHANGED <<loops, files>>

Overlay(b) ==
  /\ At(b, "overlay")
  /\ \E i \in Harm(b) : bld[b].work.harmed \subseteq i.harmed /\ Change(b, i, "check")

\* Protected objects, identities and the inventory are as they were.
Check(b) ==
  /\ At(b, "check") /\ "rootfs" \notin bld[b].work.harmed
  /\ Go(b, "unmount") /\ UNCHANGED <<loops, files>>

Unmount(b) ==
  /\ At(b, "unmount")
  /\ Set(b, [mounted |-> FALSE, pc |-> "fsck"])
  /\ UNCHANGED <<loops, files>>

\* e2fsck, the boot partition and the partition table.
Fsck(b) ==
  /\ At(b, "fsck") /\ "boot" \notin bld[b].work.harmed
  /\ Go(b, "detach") /\ UNCHANGED <<loops, files>>

-----------------------------------------------------------------------------
(* detach_owned_loop(), called by the build and again by its trap. *)

Owned(b, d) == d # None /\ loops[d] = b
Matches(b) == {d \in Devices : loops[d] = b}

\* The build goes on or falls into its trap; the trap goes on.
Detached(b) ==
  Set(b, [loop |-> None, cand |-> None, pc |-> IF bld[b].rc = "none" THEN "move" ELSE "remove"])
NotDetached(b, d) ==
  IF bld[b].rc = "none"
  THEN Set(b, [loop |-> d, cand |-> None, pc |-> "clean", rc |-> "failed"])
  ELSE Set(b, [loop |-> d, cand |-> None, pc |-> "remove", unclean |-> TRUE])

\* Mutated form: the stored path is believed.
FindLoopTrusting(b) ==
  /\ At(b, "detach")
  /\ IF bld[b].loop # None THEN Set(b, [cand |-> bld[b].loop, pc |-> "detaching"])
     ELSE IF Matches(b) = {} THEN Detached(b)
     ELSE \E d \in Matches(b) : Set(b, [cand |-> d, pc |-> "detaching"])
  /\ UNCHANGED <<loops, files>>

\* The stored path if it is still ours, else the one device the listing shows.
FindLoop(b) ==
  /\ At(b, "detach")
  /\ \/ IF Owned(b, bld[b].loop) THEN Set(b, [cand |-> bld[b].loop, pc |-> "detaching"])
        ELSE IF Matches(b) = {} THEN Detached(b)
        ELSE \E d \in Matches(b) : Set(b, [cand |-> d, pc |-> "detaching"])
     \/ NotDetached(b, bld[b].loop)  \* a listing fails
     \/ ~Owned(b, bld[b].loop) /\ NotDetached(b, None)
  /\ UNCHANGED <<loops, files>>

\* losetup --detach leaves a device that is mounted until it is not.
Detach(b) ==
  /\ At(b, "detaching")
  /\ \/ /\ loops' = IF bld[b].mounted THEN loops ELSE [loops EXCEPT ![bld[b].cand] = None]
        /\ Detached(b)
     \/ /\ \/ UNCHANGED loops
           \/ ~bld[b].mounted /\ loops' = [loops EXCEPT ![bld[b].cand] = None]
        /\ Go(b, "recheck")
  /\ UNCHANGED files

\* "A failed command may still have detached the device."
Recheck(b) ==
  /\ At(b, "recheck")
  /\ \/ IF Owned(b, bld[b].cand) THEN NotDetached(b, bld[b].cand) ELSE Detached(b)
     \/ NotDetached(b, bld[b].cand)  \* the listing fails
  /\ UNCHANGED <<loops, files>>

-----------------------------------------------------------------------------
(* The outputs. *)

There(f) == files[f] # None
Content(b, f) == [by |-> files[f].by, image |-> files[f].image]
File(from, whole) == [by |-> from.by, image |-> from.image, whole |-> whole]
Rename(from, to) == There(from) /\ files' = [files EXCEPT ![to] = files[from], ![from] = None]

Move(b) ==
  /\ At(b, "move")
  /\ files' = [files EXCEPT !["rawPart"] = File([by |-> b, image |-> bld[b].work], TRUE)]
  /\ Set(b, [work |-> None, pc |-> "hash"])
  /\ UNCHANGED loops

Hash(b) ==
  /\ At(b, "hash") /\ There("rawPart")
  /\ Set(b, [sum |-> Content(b, "rawPart"), pc |-> "convert"])
  /\ UNCHANGED <<loops, files>>

\* The sparse file may be cut short or wrong.
Convert(b) ==
  /\ At(b, "convert") /\ There("rawPart")
  /\ \E whole \in BOOLEAN :
       files' = [files EXCEPT !["sparsePart"] = File(files["rawPart"], whole)]
  /\ Go(b, "roundtrip") /\ UNCHANGED loops

SameAsRaw(b, f) == There(f) /\ files[f].whole /\ Content(b, f) = bld[b].sum

\* Mutated form: the round trip is not compared.
RoundtripUnchecked(b) ==
  /\ At(b, "roundtrip") /\ There("sparsePart")
  /\ Go(b, "publish raw") /\ UNCHANGED <<loops, files>>

Roundtrip(b) ==
  /\ At(b, "roundtrip") /\ SameAsRaw(b, "sparsePart")
  /\ Go(b, "publish raw") /\ UNCHANGED <<loops, files>>

\* The name is given, then the variables follow.
Publish(b, o) ==
  /\ At(b, PublishStep(o)) /\ Rename(Part(o), o)
  /\ Go(b, MarkStep(o)) /\ UNCHANGED loops

MarkPublished(b, o) ==
  /\ At(b, MarkStep(o))
  /\ Set(b, [parts |-> bld[b].parts \ {Part(o)}, created |-> bld[b].created \cup {o},
             pc |-> IF o = "raw" THEN PublishStep("sparse") ELSE "record"])
  /\ UNCHANGED <<loops, files>>

Record(b) ==
  /\ At(b, "record")
  /\ Set(b, [status |-> "COMPLETE", pc |-> "verify"])
  /\ UNCHANGED <<loops, files>>

\* verify-derived-userdata.sh --state, then the outputs are kept.
Verify(b) ==
  /\ At(b, "verify") /\ \A o \in Outputs : SameAsRaw(b, o)
  /\ Set(b, [created |-> {}, pc |-> "done"])
  /\ UNCHANGED <<loops, files>>

Finish(b) ==
  /\ At(b, "done") /\ bld[b].rc = "none"
  /\ Set(b, [pc |-> "clean", rc |-> "ok"])
  /\ UNCHANGED <<loops, files>>

-----------------------------------------------------------------------------
(* cleanup() *)

\* Mutated form: only a device whose path is stored is looked for.
CleanMountEnds(b) ==
  /\ At(b, "clean")
  /\ Set(b, [mounted |-> FALSE, pc |-> IF bld[b].loop = None THEN "remove" ELSE "detach"])
  /\ UNCHANGED <<loops, files>>

\* A root that is not attributable is left alone.  In one that is, the staged file is
\* removed, the policy restored and the root unmounted, each if it can be; a policy
\* whose restoring fails is not noticed, since errexit is off.
CleanMount(b) ==
  /\ At(b, "clean")
  /\ IF bld[b].mounted
     THEN \/ Set(b, [unclean |-> TRUE, pc |-> "detach"])
          \/ \E restored, unmounted, unstaged \in BOOLEAN :
               Set(b, [work |-> IF restored /\ bld[b].touched
                                THEN [bld[b].work EXCEPT !.policy = "golden"] ELSE bld[b].work,
                       touched |-> FALSE, mounted |-> ~unmounted,
                       unclean |-> ~unmounted \/ ~unstaged, pc |-> "detach"])
     ELSE Set(b, [unclean |-> bld[b].touched, pc |-> "detach"])
  /\ UNCHANGED <<loops, files>>

Remove(b) ==
  /\ At(b, "remove")
  /\ files' = [f \in DOMAIN files |->
                 IF f \in bld[b].parts \/ (bld[b].rc = "failed" /\ f \in bld[b].created)
                 THEN None ELSE files[f]]
  /\ Set(b, [pc |-> "exit",
             status |-> IF bld[b].rc = "failed" \/ bld[b].unclean THEN "FAILED"
                        ELSE bld[b].status])
  /\ UNCHANGED loops

-----------------------------------------------------------------------------
(* The rest of the machine *)

\* SIGKILL, or a second signal when the trap has reset its handlers.
Killed(b) ==
  /\ bld[b].pc \in Trapped \cup Clearing
  /\ Go(b, "dead") /\ UNCHANGED <<loops, files>>

OtherLoop ==
  /\ \E d \in Devices :
       \/ loops[d] = None /\ loops' = [loops EXCEPT ![d] = Other]
       \/ loops[d] = Other /\ loops' = [loops EXCEPT ![d] = None]
  /\ UNCHANGED <<files, bld>>

Build(b) ==
  \/ Begin(b) \/ CopyGolden(b) \/ Attach(b) \/ Mount(b) \/ Policy(b) \/ PolicyMark(b)
  \/ Packages(b) \/ RestorePolicy(b) \/ Overlay(b) \/ Check(b) \/ Unmount(b) \/ Fsck(b)
  \/ FindLoop(b) \/ Detach(b) \/ Recheck(b)
  \/ Move(b) \/ Hash(b) \/ Convert(b) \/ Roundtrip(b)
  \/ \E o \in Outputs : Publish(b, o) \/ MarkPublished(b, o)
  \/ Record(b) \/ Verify(b) \/ Finish(b)
  \/ CleanMount(b) \/ Remove(b)

Next ==
  \/ \E b \in Builders : Build(b) \/ Interrupted(b) \/ Killed(b)
  \/ OtherLoop

Spec == Init /\ [][Next]_vars

-----------------------------------------------------------------------------
(* Properties *)

\* The look of Begin is not a reservation: builders that all begin before there is an
\* output write the same .part files.
NotBegun == {"begin", "refused"}
OneBuild ==
  \A a, b \in Builders : bld[a].pc \notin NotBegun /\ bld[b].pc \notin NotBegun => a = b

\* "published only after invariant checks and read-only e2fsck ... round-tripped":
\* whatever is under the name of an output, also what a signal right after the mv
\* leaves there, passed the checks and has its own package policy again, however many
\* builders write there.  The raw output is whole, the sparse one too if one builder
\* has begun: of several, one may cut short what another has compared.
PublishedChecked ==
  \A o \in Outputs : There(o) =>
    files[o].image = Golden /\ (o = "raw" \/ OneBuild => files[o].whole)

\* "Cleanup traps restore ..., unmount the rootfs and detach": an attempt that does
\* not report a failed clean-up has left no mount and no device, although a device
\* may be attached that was never attributed, and detached by a command that failed.
CleanedUp ==
  \A b \in Builders :
    (At(b, "exit") /\ ~bld[b].unclean) => ~bld[b].mounted /\ Matches(b) = {}

\* "A stale device, or a device now backed by another image, is never detached": a
\* device changes hands only by a step of its owner.
OwnDetached ==
  \A d \in Devices :
    (loops[d] # None /\ loops'[d] # loops[d]) =>
      IF loops[d] \in Builders THEN bld'[loops[d]] # bld[loops[d]] ELSE UNCHANGED bld

-----------------------------------------------------------------------------
(* The inductive invariant of the clean-up.  A builder attaches one device at  *)
(* most, and detaches only one it has found its own.                           *)

BuildAssumption ==
  None \notin Builders /\ Other \notin Builders /\ None # Other /\ None \notin Devices

Fields == DOMAIN NewBuilder

Typed ==
  /\ loops \in [Devices -> Builders \cup {Other, None}]
  /\ DOMAIN bld = Builders
  /\ \A b \in Builders : DOMAIN bld[b] = Fields /\ bld[b].loop \in Devices \cup {None}

\* Nothing has been attached yet.
Early == {"begin", "refused", "inputs", "attach"}

\* The root has been unmounted, or the trap has tried to.
AfterUnmount == {"fsck", "detach", "detaching", "recheck", "remove", "exit"}

BuilderInv(b) ==
  /\ \A d, e \in Matches(b) : d = e
  /\ bld[b].pc \in Early => Matches(b) = {}
  /\ bld[b].pc = "clean" => bld[b].rc # "none"
  /\ bld[b].pc \in AfterUnmount /\ bld[b].mounted => bld[b].unclean /\ bld[b].rc # "none"
  /\ bld[b].pc = "detaching" => bld[b].cand \in Matches(b)
  /\ bld[b].pc = "recheck" => bld[b].cand \in Devices /\ Matches(b) \subseteq {bld[b].cand}
  /\ bld[b].pc \in {"remove", "exit"} => bld[b].unclean \/ Matches(b) = {}

BuildInv == Typed /\ \A b \in Builders : BuilderInv(b)

-----------------------------------------------------------------------------
(* The inductive invariant of what is published: what is attached, then what *)
(* is moved, has passed the checks before it.                                *)

Images == [policy : {"golden", "deny"}, harmed : SUBSET {"rootfs", "boot"}]

\* The working image, at the steps that have one.
WorkInv(b) ==
  LET image == bld[b].work IN
  /\ bld[b].pc \in {"attach", "mount", "policy", "mark", "packages", "restore", "overlay",
                   "check", "unmount", "fsck"} => image \in Images
  /\ bld[b].pc \in {"attach", "mount", "policy", "overlay", "check", "unmount", "fsck"} =>
       image.policy = "golden"
  /\ bld[b].pc \in {"unmount", "fsck"} => "rootfs" \notin image.harmed
  /\ (bld[b].pc \in {"detach", "detaching", "recheck"} /\ bld[b].rc = "none")
       \/ bld[b].pc = "move" => image = Golden

OutputsInv ==
  /\ DOMAIN files = Outputs \cup Parts
  /\ There("rawPart") => files["rawPart"].whole /\ files["rawPart"].image = Golden
  /\ There("sparsePart") => files["sparsePart"].image = Golden
  /\ \A b \in Builders :
       OneBuild /\ bld[b].pc \in {"publish raw", "mark raw", "publish sparse"}
         /\ There("sparsePart") => files["sparsePart"].whole
  /\ PublishedChecked

PublishInv == OutputsInv /\ \A b \in Builders : WorkInv(b)
=============================================================================
