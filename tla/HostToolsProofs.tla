--------------------------- MODULE HostToolsProofs ---------------------------
(***************************************************************************)
(* Proofs about the programs of HostTools: every step of a program keeps   *)
(* its inductive invariant, which is stated in its module.  The theorems   *)
(* themselves are in FieldToolsProofs.                                     *)
(***************************************************************************)
EXTENDS HostTools, Sequences, SequenceTheorems, FiniteSetTheorems, TLAPS

-----------------------------------------------------------------------------
(* The userdata builder: s1 the loop devices, s2 the outputs, s3 the builders. *)

LEMMA FieldsAre ==
  Userdata!Fields = {"pc", "rc", "loop", "cand", "work", "mounted", "touched", "sum",
                     "parts", "created", "unclean", "status"}
  BY DEF Userdata!Fields, Userdata!NewBuilder

\* What a step of a builder does to its own record, and that it does nothing else.
LEMMA SetStep ==
  ASSUME Userdata!Typed, NEW b \in ImageBuilders, NEW fields, Userdata!Set(b, fields)
  PROVE  /\ DOMAIN s3' = ImageBuilders
         /\ \A c \in ImageBuilders \ {b} : s3'[c] = s3[c]
         /\ DOMAIN s3'[b] = Userdata!Fields
         /\ \A f \in Userdata!Fields :
              s3'[b][f] = IF f \in DOMAIN fields THEN fields[f] ELSE s3[b][f]
  BY DEF Userdata!Typed, Userdata!Set, Userdata!Assigned

LEMMA MatchesSame ==
  ASSUME UNCHANGED s1
  PROVE  \A b : Userdata!Matches(b)' = Userdata!Matches(b)
  BY DEF Userdata!Matches

\* The step of one builder leaves the devices of the others alone.
LEMMA OneStep ==
  ASSUME Userdata!BuildAssumption, Userdata!BuildInv, NEW b \in ImageBuilders,
         NEW fields, Userdata!Set(b, fields), s3'[b].loop \in LoopDevices \cup {Nothing},
         s1' \in [LoopDevices -> ImageBuilders \cup {OthersImage, Nothing}],
         \A d \in LoopDevices : s1'[d] = s1[d] \/ {s1[d], s1'[d]} \subseteq {b, Nothing},
         Userdata!BuilderInv(b)'
  PROVE  Userdata!BuildInv'
<1>1. Userdata!Typed'
  BY SetStep DEF Userdata!BuildInv, Userdata!Typed
<1>2. ASSUME NEW c \in ImageBuilders \ {b}
      PROVE  Userdata!BuilderInv(c)'
  <2>1. Userdata!Matches(c)' = Userdata!Matches(c)
    BY DEF Userdata!Matches, Userdata!BuildAssumption
  <2>2. s3'[c] = s3[c]
    BY SetStep DEF Userdata!BuildInv
  <2> QED
    BY <2>1, <2>2 DEF Userdata!BuildInv, Userdata!BuilderInv
<1> QED
  BY <1>1, <1>2 DEF Userdata!BuildInv

\* A step that leaves the devices alone.
LEMMA PlainStep ==
  ASSUME Userdata!BuildAssumption, Userdata!BuildInv, NEW b \in ImageBuilders,
         NEW fields, Userdata!Set(b, fields), UNCHANGED s1,
         s3'[b].loop \in LoopDevices \cup {Nothing},
         s3'[b].pc \in Userdata!Early => s3[b].pc \in Userdata!Early,
         s3'[b].pc = "clean" => s3'[b].rc # "none",
         s3'[b].pc \in Userdata!AfterUnmount /\ s3'[b].mounted =>
           s3'[b].unclean /\ s3'[b].rc # "none",
         s3'[b].pc = "detaching" => s3'[b].cand \in Userdata!Matches(b),
         s3'[b].pc = "recheck" =>
           s3'[b].cand \in LoopDevices /\ Userdata!Matches(b) \subseteq {s3'[b].cand},
         s3'[b].pc \in {"remove", "exit"} => s3'[b].unclean \/ Userdata!Matches(b) = {}
  PROVE  Userdata!BuildInv'
<1>1. Userdata!BuilderInv(b)'
  BY MatchesSame DEF Userdata!BuildInv, Userdata!BuilderInv
<1> QED
  BY <1>1, OneStep DEF Userdata!BuildInv, Userdata!Typed

LEMMA BuildInitHolds ==
  ASSUME Userdata!BuildAssumption, Userdata!Init
  PROVE  Userdata!BuildInv
<1>1. \A b \in ImageBuilders : s3[b] = Userdata!NewBuilder /\ Userdata!Matches(b) = {}
  BY DEF Userdata!Init, Userdata!Matches, Userdata!BuildAssumption
<1>2. Userdata!NewBuilder.pc = "begin" /\ Userdata!NewBuilder.loop = Nothing
  BY DEF Userdata!NewBuilder
<1>3. Userdata!Typed
  BY <1>1, <1>2 DEF Userdata!Init, Userdata!Typed, Userdata!Fields
<1>4. ASSUME NEW b \in ImageBuilders PROVE Userdata!BuilderInv(b)
  BY <1>1, <1>2 DEF Userdata!BuilderInv, Userdata!AfterUnmount
<1> QED
  BY <1>3, <1>4 DEF Userdata!BuildInv

\* The steps that neither look for a device nor touch one.
LEMMA BuildingHolds ==
  ASSUME Userdata!BuildAssumption, Userdata!BuildInv, NEW b \in ImageBuilders,
         NEW fields, Userdata!Set(b, fields), UNCHANGED s1,
         "loop" \notin DOMAIN fields, "cand" \notin DOMAIN fields,
         "pc" \in DOMAIN fields,
         fields.pc = "clean" => "rc" \in DOMAIN fields /\ fields.rc # "none",
         \/ fields.pc \notin Userdata!Early \cup Userdata!AfterUnmount
         \/ fields.pc \in Userdata!Early /\ s3[b].pc \in Userdata!Early
  PROVE  Userdata!BuildInv'
<1>1. /\ s3'[b].pc = fields.pc /\ s3'[b].loop = s3[b].loop
      /\ "rc" \in DOMAIN fields => s3'[b].rc = fields.rc
  BY SetStep, FieldsAre DEF Userdata!BuildInv
<1> QED
  BY <1>1, PlainStep DEF Userdata!BuildInv, Userdata!Typed, Userdata!Early,
     Userdata!AfterUnmount

LEMMA PrepareHolds ==
  ASSUME Userdata!BuildAssumption, Userdata!BuildInv, NEW b \in ImageBuilders,
         \/ Userdata!Begin(b) \/ Userdata!Interrupted(b) \/ Userdata!CopyGolden(b)
         \/ Userdata!Mount(b) \/ Userdata!Policy(b) \/ Userdata!PolicyMark(b)
         \/ Userdata!Packages(b) \/ Userdata!RestorePolicy(b) \/ Userdata!Overlay(b)
         \/ Userdata!Check(b) \/ Userdata!Killed(b)
  PROVE  Userdata!BuildInv'
<1> USE DEF Userdata!Go, Userdata!At, Userdata!Change, Userdata!Early, Userdata!AfterUnmount
<1>1. CASE Userdata!Begin(b)
  BY <1>1, BuildingHolds DEF Userdata!Begin
<1>2. CASE Userdata!Interrupted(b)
  BY <1>2, BuildingHolds DEF Userdata!Interrupted
<1>3. CASE Userdata!CopyGolden(b)
  BY <1>3, BuildingHolds DEF Userdata!CopyGolden
<1>4. CASE Userdata!Mount(b)
  BY <1>4, BuildingHolds DEF Userdata!Mount
<1>5. CASE Userdata!Policy(b)
  BY <1>5, BuildingHolds DEF Userdata!Policy
<1>6. CASE Userdata!PolicyMark(b)
  BY <1>6, BuildingHolds DEF Userdata!PolicyMark
<1>7. CASE Userdata!Packages(b)
  BY <1>7, BuildingHolds DEF Userdata!Packages
<1>8. CASE Userdata!RestorePolicy(b)
  BY <1>8, BuildingHolds DEF Userdata!RestorePolicy
<1>9. CASE Userdata!Overlay(b)
  BY <1>9, BuildingHolds DEF Userdata!Overlay
<1>10. CASE Userdata!Check(b)
  BY <1>10, BuildingHolds DEF Userdata!Check
<1>11. CASE Userdata!Killed(b)
  BY <1>11, BuildingHolds DEF Userdata!Killed
<1> QED
  BY <1>1, <1>2, <1>3, <1>4, <1>5, <1>6, <1>7, <1>8, <1>9, <1>10, <1>11

LEMMA PublishHolds ==
  ASSUME Userdata!BuildAssumption, Userdata!BuildInv, NEW b \in ImageBuilders,
         \/ Userdata!Move(b) \/ Userdata!Hash(b) \/ Userdata!Convert(b)
         \/ Userdata!Roundtrip(b)
         \/ \E o \in Userdata!Outputs : Userdata!Publish(b, o)
              \/ Userdata!MarkPublished(b, o)
         \/ Userdata!Record(b) \/ Userdata!Verify(b) \/ Userdata!Finish(b)
  PROVE  Userdata!BuildInv'
<1> USE DEF Userdata!Go, Userdata!At, Userdata!Early, Userdata!AfterUnmount
<1>1. CASE Userdata!Move(b)
  BY <1>1, BuildingHolds DEF Userdata!Move
<1>2. CASE Userdata!Hash(b)
  BY <1>2, BuildingHolds DEF Userdata!Hash
<1>3. CASE Userdata!Convert(b)
  BY <1>3, BuildingHolds DEF Userdata!Convert
<1>4. CASE Userdata!Roundtrip(b)
  BY <1>4, BuildingHolds DEF Userdata!Roundtrip
<1>5. ASSUME NEW o \in Userdata!Outputs, Userdata!Publish(b, o)
      PROVE  Userdata!BuildInv'
  BY <1>5, BuildingHolds DEF Userdata!Publish, Userdata!MarkStep
<1>6. ASSUME NEW o \in Userdata!Outputs, Userdata!MarkPublished(b, o)
      PROVE  Userdata!BuildInv'
  BY <1>6, BuildingHolds DEF Userdata!MarkPublished, Userdata!PublishStep
<1>7. CASE Userdata!Record(b)
  BY <1>7, BuildingHolds DEF Userdata!Record
<1>8. CASE Userdata!Verify(b)
  BY <1>8, BuildingHolds DEF Userdata!Verify
<1>9. CASE Userdata!Finish(b)
  BY <1>9, BuildingHolds DEF Userdata!Finish
<1> QED
  BY <1>1, <1>2, <1>3, <1>4, <1>5, <1>6, <1>7, <1>8, <1>9

\* The root is unmounted before a device is looked for, or the trap says it is not.
LEMMA UnmountHolds ==
  ASSUME Userdata!BuildAssumption, Userdata!BuildInv, NEW b \in ImageBuilders,
         Userdata!Unmount(b) \/ Userdata!Fsck(b) \/ Userdata!CleanMount(b)
           \/ Userdata!Remove(b)
  PROVE  Userdata!BuildInv'
<1> USE DEF Userdata!Go, Userdata!At, Userdata!Early, Userdata!AfterUnmount
<1>1. Userdata!Typed /\ Userdata!BuilderInv(b)
  BY DEF Userdata!BuildInv
<1>2. CASE Userdata!Unmount(b)
  <2>1. PICK fields : Userdata!Set(b, fields) /\ fields = [mounted |-> FALSE, pc |-> "fsck"]
    BY <1>2 DEF Userdata!Unmount
  <2>2. s3'[b].pc = "fsck" /\ ~s3'[b].mounted /\ s3'[b].loop = s3[b].loop /\ UNCHANGED s1
    BY <1>1, <1>2, <2>1, SetStep, FieldsAre DEF Userdata!Unmount
  <2> QED
    BY <1>1, <2>1, <2>2, PlainStep DEF Userdata!Typed
<1>3. CASE Userdata!Fsck(b)
  <2>1. PICK fields : Userdata!Set(b, fields) /\ fields = [pc |-> "detach"]
    BY <1>3 DEF Userdata!Fsck
  <2>2. s3'[b].pc = "detach" /\ s3'[b].mounted = s3[b].mounted /\ s3'[b].loop = s3[b].loop
        /\ s3'[b].unclean = s3[b].unclean /\ s3'[b].rc = s3[b].rc /\ UNCHANGED s1
        /\ s3[b].pc = "fsck"
    BY <1>1, <1>3, <2>1, SetStep, FieldsAre DEF Userdata!Fsck
  <2> QED
    BY <1>1, <2>1, <2>2, PlainStep DEF Userdata!Typed, Userdata!BuilderInv
<1>4. CASE Userdata!Remove(b)
  <2>1. PICK fields, status : Userdata!Set(b, fields)
          /\ fields = [pc |-> "exit", status |-> status]
    BY <1>4 DEF Userdata!Remove
  <2>2. s3'[b].pc = "exit" /\ s3'[b].mounted = s3[b].mounted /\ s3'[b].loop = s3[b].loop
        /\ s3'[b].unclean = s3[b].unclean /\ s3'[b].rc = s3[b].rc /\ UNCHANGED s1
        /\ s3[b].pc = "remove"
    BY <1>1, <1>4, <2>1, SetStep, FieldsAre DEF Userdata!Remove
  <2> QED
    BY <1>1, <2>1, <2>2, PlainStep DEF Userdata!Typed, Userdata!BuilderInv
<1>5. CASE Userdata!CleanMount(b)
  <2>1. s3[b].rc # "none" /\ UNCHANGED s1
    BY <1>1, <1>5 DEF Userdata!CleanMount, Userdata!BuilderInv
  <2>2. ASSUME NEW fields, Userdata!Set(b, fields), "loop" \notin DOMAIN fields,
               "rc" \notin DOMAIN fields, "pc" \in DOMAIN fields, fields.pc = "detach",
               s3'[b].mounted => s3'[b].unclean
        PROVE  Userdata!BuildInv'
    <3>1. s3'[b].pc = "detach" /\ s3'[b].loop = s3[b].loop /\ s3'[b].rc = s3[b].rc
      BY <1>1, <2>2, SetStep, FieldsAre
    <3> QED
      BY <1>1, <2>1, <2>2, <3>1, PlainStep DEF Userdata!Typed
  <2>3. CASE s3[b].mounted
    <3>1. CASE Userdata!Set(b, [unclean |-> TRUE, pc |-> "detach"])
      <4>1. PICK fields : /\ Userdata!Set(b, fields)
                          /\ fields = [unclean |-> TRUE, pc |-> "detach"]
        BY <3>1
      <4>2. s3'[b].unclean
        BY <1>1, <4>1, SetStep, FieldsAre
      <4> QED
        BY <2>2, <4>1, <4>2
    <3>2. CASE ~Userdata!Set(b, [unclean |-> TRUE, pc |-> "detach"])
      <4>1. PICK restored \in BOOLEAN, unmounted \in BOOLEAN, unstaged \in BOOLEAN :
              Userdata!Set(b, [work |-> IF restored /\ s3[b].touched
                                        THEN [s3[b].work EXCEPT !.policy = "golden"]
                                        ELSE s3[b].work,
                               touched |-> FALSE, mounted |-> ~unmounted,
                               unclean |-> ~unmounted \/ ~unstaged, pc |-> "detach"])
        BY <1>5, <2>3, <3>2 DEF Userdata!CleanMount
      <4>2. PICK fields, work :
              /\ Userdata!Set(b, fields)
              /\ fields = [work |-> work, touched |-> FALSE, mounted |-> ~unmounted,
                           unclean |-> ~unmounted \/ ~unstaged, pc |-> "detach"]
        BY <4>1
      <4>3. s3'[b].mounted = ~unmounted /\ s3'[b].unclean = (~unmounted \/ ~unstaged)
        BY <1>1, <4>2, SetStep, FieldsAre
      <4> QED
        BY <2>2, <4>2, <4>3
    <3> QED
      BY <3>1, <3>2
  <2>4. CASE ~s3[b].mounted
    <3>1. PICK fields : Userdata!Set(b, fields)
             /\ fields = [unclean |-> s3[b].touched, pc |-> "detach"]
      BY <1>5, <2>4 DEF Userdata!CleanMount
    <3>2. ~s3'[b].mounted
      BY <1>1, <2>4, <3>1, SetStep, FieldsAre
    <3> QED
      BY <2>2, <3>1, <3>2
  <2> QED
    BY <2>3, <2>4
<1> QED
  BY <1>2, <1>3, <1>4, <1>5

\* A device is attached by the first step that can have one.
LEMMA AttachHolds ==
  ASSUME Userdata!BuildAssumption, Userdata!BuildInv, NEW b \in ImageBuilders,
         Userdata!Attach(b)
  PROVE  Userdata!BuildInv'
<1> USE DEF Userdata!At, Userdata!Early, Userdata!AfterUnmount
<1>1. Userdata!Typed /\ Userdata!BuilderInv(b) /\ s3[b].pc = "attach"
  BY DEF Userdata!BuildInv, Userdata!Attach
<1>2. PICK d \in LoopDevices : /\ s1[d] = Nothing /\ s1' = [s1 EXCEPT ![d] = b]
        /\ \/ Userdata!Set(b, [loop |-> d, pc |-> "mount"])
           \/ Userdata!Set(b, [pc |-> "clean", rc |-> "failed"])
  BY DEF Userdata!Attach
<1>3. PICK fields : Userdata!Set(b, fields)
        /\ (fields = [loop |-> d, pc |-> "mount"] \/ fields = [pc |-> "clean",
             rc |-> "failed"])
  BY <1>2
<1>4. /\ s3'[b].pc = "mount" \/ (s3'[b].pc = "clean" /\ s3'[b].rc = "failed")
      /\ s3'[b].loop \in LoopDevices \cup {Nothing}
  BY <1>1, <1>3, SetStep, FieldsAre DEF Userdata!Typed
<1>5. \A e \in LoopDevices : s1'[e] = IF e = d THEN b ELSE s1[e]
  BY <1>1, <1>2 DEF Userdata!Typed
<1>6. Userdata!Matches(b)' = {d}
  BY <1>1, <1>5 DEF Userdata!BuilderInv, Userdata!Matches
<1>7. Userdata!BuilderInv(b)'
  BY <1>4, <1>6 DEF Userdata!BuilderInv
<1>8. s1' \in [LoopDevices -> ImageBuilders \cup {OthersImage, Nothing}]
  BY <1>1, <1>2 DEF Userdata!Typed
<1> QED
  BY <1>2, <1>3, <1>4, <1>5, <1>7, <1>8, OneStep

\* Going on after a device is detached, in the build and in its trap; `s1'` may have
\* changed, but only by what the builder let go.
LEMMA DetachedStep ==
  ASSUME Userdata!BuildAssumption, Userdata!BuildInv, NEW b \in ImageBuilders,
         Userdata!Detached(b), s3[b].pc \in {"detach", "detaching", "recheck"},
         s1' \in [LoopDevices -> ImageBuilders \cup {OthersImage, Nothing}],
         \A d \in LoopDevices : s1'[d] = s1[d] \/ {s1[d], s1'[d]} \subseteq {b, Nothing},
         Userdata!Matches(b)' \subseteq Userdata!Matches(b),
         s3[b].mounted \/ Userdata!Matches(b)' = {}
  PROVE  Userdata!BuildInv'
<1> USE DEF Userdata!Early, Userdata!AfterUnmount
<1>1. Userdata!Typed /\ Userdata!BuilderInv(b)
  BY DEF Userdata!BuildInv
<1>2. PICK fields : Userdata!Set(b, fields)
        /\ fields = [loop |-> Nothing, cand |-> Nothing,
                     pc |-> IF s3[b].rc = "none" THEN "move" ELSE "remove"]
  BY DEF Userdata!Detached
<1>3. /\ s3'[b].pc = IF s3[b].rc = "none" THEN "move" ELSE "remove"
      /\ s3'[b].loop = Nothing /\ s3'[b].mounted = s3[b].mounted
      /\ s3'[b].unclean = s3[b].unclean /\ s3'[b].rc = s3[b].rc
  BY <1>1, <1>2, SetStep, FieldsAre
<1>4. Userdata!BuilderInv(b)'
  BY <1>1, <1>3 DEF Userdata!BuilderInv
<1> QED
  BY <1>2, <1>3, <1>4, OneStep

LEMMA NotDetachedStep ==
  ASSUME Userdata!BuildAssumption, Userdata!BuildInv, NEW b \in ImageBuilders,
         NEW d \in LoopDevices \cup {Nothing}, Userdata!NotDetached(b, d), UNCHANGED s1,
         s3[b].pc \in {"detach", "detaching", "recheck"}
  PROVE  Userdata!BuildInv'
<1> USE DEF Userdata!Early, Userdata!AfterUnmount
<1>1. Userdata!Typed /\ Userdata!BuilderInv(b)
  BY DEF Userdata!BuildInv
<1>2. CASE s3[b].rc = "none"
  <2>1. PICK fields : Userdata!Set(b, fields)
          /\ fields = [loop |-> d, cand |-> Nothing, pc |-> "clean", rc |-> "failed"]
    BY <1>2 DEF Userdata!NotDetached
  <2>2. s3'[b].pc = "clean" /\ s3'[b].loop = d /\ s3'[b].rc = "failed"
    BY <1>1, <2>1, SetStep, FieldsAre
  <2> QED
    BY <2>1, <2>2, PlainStep
<1>3. CASE s3[b].rc # "none"
  <2>1. PICK fields : Userdata!Set(b, fields)
          /\ fields = [loop |-> d, cand |-> Nothing, pc |-> "remove", unclean |-> TRUE]
    BY <1>3 DEF Userdata!NotDetached
  <2>2. s3'[b].pc = "remove" /\ s3'[b].loop = d /\ s3'[b].unclean /\ s3'[b].rc = s3[b].rc
    BY <1>1, <2>1, SetStep, FieldsAre
  <2> QED
    BY <1>3, <2>1, <2>2, PlainStep
<1> QED
  BY <1>2, <1>3

LEMMA FindLoopHolds ==
  ASSUME Userdata!BuildAssumption, Userdata!BuildInv, NEW b \in ImageBuilders,
         Userdata!FindLoop(b)
  PROVE  Userdata!BuildInv'
<1> USE DEF Userdata!At, Userdata!Early, Userdata!AfterUnmount
<1>1. Userdata!Typed /\ Userdata!BuilderInv(b) /\ s3[b].pc = "detach" /\ UNCHANGED s1
  BY DEF Userdata!BuildInv, Userdata!FindLoop
<1>2. ASSUME NEW d, d \in Userdata!Matches(b),
             Userdata!Set(b, [cand |-> d, pc |-> "detaching"])
      PROVE  Userdata!BuildInv'
  <2>1. PICK fields : Userdata!Set(b, fields) /\ fields = [cand |-> d, pc |-> "detaching"]
    BY <1>2
  <2>2. s3'[b].pc = "detaching" /\ s3'[b].cand = d /\ s3'[b].loop = s3[b].loop
        /\ s3'[b].mounted = s3[b].mounted /\ s3'[b].unclean = s3[b].unclean
        /\ s3'[b].rc = s3[b].rc
    BY <1>1, <2>1, SetStep, FieldsAre
  <2> QED
    BY <1>1, <1>2, <2>1, <2>2, PlainStep DEF Userdata!Typed, Userdata!BuilderInv
<1>3. CASE Userdata!Owned(b, s3[b].loop) /\ Userdata!Set(b, [cand |-> s3[b].loop,
      pc |-> "detaching"])
  BY <1>1, <1>2, <1>3 DEF Userdata!Owned, Userdata!Matches, Userdata!Typed
<1>4. CASE Userdata!Matches(b) = {} /\ Userdata!Detached(b)
  BY <1>1, <1>4, MatchesSame, DetachedStep DEF Userdata!Typed
<1>5. CASE Userdata!NotDetached(b, s3[b].loop) \/ Userdata!NotDetached(b, Nothing)
  BY <1>1, <1>5, NotDetachedStep DEF Userdata!Typed
<1> QED
  BY <1>2, <1>3, <1>4, <1>5 DEF Userdata!FindLoop

LEMMA DetachHolds ==
  ASSUME Userdata!BuildAssumption, Userdata!BuildInv, NEW b \in ImageBuilders,
         Userdata!Detach(b)
  PROVE  Userdata!BuildInv'
<1> USE DEF Userdata!At, Userdata!Early, Userdata!AfterUnmount
<1>1. Userdata!Typed /\ Userdata!BuilderInv(b) /\ s3[b].pc = "detaching"
      /\ s3[b].cand \in Userdata!Matches(b) /\ Userdata!Matches(b) = {s3[b].cand}
  BY DEF Userdata!BuildInv, Userdata!Detach, Userdata!BuilderInv
<1>2. s3[b].cand \in LoopDevices /\ s1[s3[b].cand] = b
  BY <1>1 DEF Userdata!Matches
<1>3. ASSUME s1' = [s1 EXCEPT ![s3[b].cand] = Nothing]
      PROVE  /\ s1' \in [LoopDevices -> ImageBuilders \cup {OthersImage, Nothing}]
             /\ \A d \in LoopDevices :
                  s1'[d] = s1[d] \/ {s1[d], s1'[d]} \subseteq {b, Nothing}
             /\ Userdata!Matches(b)' = {}
  <2>1. \A d \in LoopDevices : s1'[d] = IF d = s3[b].cand THEN Nothing ELSE s1[d]
    BY <1>1, <1>2, <1>3 DEF Userdata!Typed
  <2>2. Userdata!Matches(b)' = {}
    BY <1>1, <2>1 DEF Userdata!Matches, Userdata!BuildAssumption
  <2> QED
    BY <1>1, <1>2, <1>3, <2>1, <2>2 DEF Userdata!Typed
<1>4. CASE Userdata!Detached(b)
           /\ s1' = IF s3[b].mounted THEN s1 ELSE [s1 EXCEPT ![s3[b].cand] = Nothing]
  <2>1. CASE s3[b].mounted
    BY <1>1, <1>4, <2>1, MatchesSame, DetachedStep DEF Userdata!Typed
  <2>2. CASE ~s3[b].mounted
    BY <1>1, <1>3, <1>4, <2>2, DetachedStep
  <2> QED
    BY <2>1, <2>2
<1>5. CASE Userdata!Go(b, "recheck")
  <2>1. PICK fields : Userdata!Set(b, fields) /\ fields = [pc |-> "recheck"]
    BY <1>5 DEF Userdata!Go
  <2>2. s3'[b].pc = "recheck" /\ s3'[b].cand = s3[b].cand /\ s3'[b].loop = s3[b].loop
        /\ s3'[b].mounted = s3[b].mounted /\ s3'[b].unclean = s3[b].unclean
        /\ s3'[b].rc = s3[b].rc
    BY <1>1, <2>1, SetStep, FieldsAre
  <2>3. CASE UNCHANGED s1
    BY <1>1, <1>2, <2>1, <2>2, <2>3, PlainStep DEF Userdata!Typed, Userdata!BuilderInv
  <2>4. CASE s1' = [s1 EXCEPT ![s3[b].cand] = Nothing]
    <3>1. Userdata!BuilderInv(b)'
      BY <1>1, <1>2, <1>3, <2>2, <2>4 DEF Userdata!BuilderInv
    <3> QED
      BY <1>1, <1>3, <2>1, <2>2, <2>4, <3>1, OneStep DEF Userdata!Typed
  <2> QED
    BY <1>4, <2>3, <2>4 DEF Userdata!Detach
<1> QED
  BY <1>4, <1>5 DEF Userdata!Detach

LEMMA RecheckHolds ==
  ASSUME Userdata!BuildAssumption, Userdata!BuildInv, NEW b \in ImageBuilders,
         Userdata!Recheck(b)
  PROVE  Userdata!BuildInv'
<1>1. Userdata!Typed /\ Userdata!BuilderInv(b) /\ s3[b].pc = "recheck" /\ UNCHANGED s1
  BY DEF Userdata!BuildInv, Userdata!Recheck, Userdata!At
<1>2. CASE Userdata!NotDetached(b, s3[b].cand)
  BY <1>1, <1>2, NotDetachedStep DEF Userdata!BuilderInv
<1>3. CASE ~Userdata!Owned(b, s3[b].cand) /\ Userdata!Detached(b)
  <2>1. Userdata!Matches(b) = {}
    BY <1>1, <1>3 DEF Userdata!BuilderInv, Userdata!Matches, Userdata!Owned,
       Userdata!BuildAssumption
  <2> QED
    BY <1>1, <1>3, <2>1, MatchesSame, DetachedStep DEF Userdata!Typed
<1> QED
  BY <1>2, <1>3 DEF Userdata!Recheck

LEMMA OtherLoopHolds ==
  ASSUME Userdata!BuildAssumption, Userdata!BuildInv, Userdata!OtherLoop
  PROVE  Userdata!BuildInv'
<1>1. PICK d \in LoopDevices : s1[d] \notin ImageBuilders
        /\ (s1' = [s1 EXCEPT ![d] = OthersImage] \/ s1' = [s1 EXCEPT ![d] = Nothing])
  BY DEF Userdata!OtherLoop, Userdata!BuildAssumption
<1>2. UNCHANGED s3 /\ Userdata!Typed'
  BY <1>1 DEF Userdata!OtherLoop, Userdata!BuildInv, Userdata!Typed
<1>3. \A b \in ImageBuilders : Userdata!Matches(b)' = Userdata!Matches(b)
  BY <1>1 DEF Userdata!Matches, Userdata!BuildInv, Userdata!Typed, Userdata!BuildAssumption
<1> QED
  BY <1>2, <1>3 DEF Userdata!BuildInv, Userdata!BuilderInv

LEMMA BuildStepHolds ==
  ASSUME Userdata!BuildAssumption, Userdata!BuildInv, [Userdata!Next]_slots
  PROVE  Userdata!BuildInv'
<1>1. CASE UNCHANGED slots
  BY <1>1, MatchesSame DEF slots, Userdata!BuildInv, Userdata!Typed, Userdata!BuilderInv
<1>2. ASSUME NEW b \in ImageBuilders,
             Userdata!Build(b) \/ Userdata!Interrupted(b) \/ Userdata!Killed(b)
      PROVE  Userdata!BuildInv'
  BY <1>2, PrepareHolds, PublishHolds, UnmountHolds, AttachHolds, FindLoopHolds,
     DetachHolds, RecheckHolds DEF Userdata!Build
<1> QED
  BY <1>1, <1>2, OtherLoopHolds DEF Userdata!Next

LEMMA CleanedMeans == Userdata!BuildInv => Userdata!CleanedUp
  BY DEF Userdata!BuildInv, Userdata!BuilderInv, Userdata!CleanedUp, Userdata!At,
     Userdata!AfterUnmount

\* A device changes hands by the detach of its own builder, or it is another's.
LEMMA OwnMeans ==
  ASSUME Userdata!BuildAssumption, Userdata!BuildInv, [Userdata!Next]_slots
  PROVE  Userdata!OwnDetached
<1> SUFFICES ASSUME NEW d \in LoopDevices, s1[d] # Nothing, s1'[d] # s1[d]
             PROVE  IF s1[d] \in ImageBuilders THEN s3'[s1[d]] # s3[s1[d]] ELSE UNCHANGED s3
  BY DEF Userdata!OwnDetached
<1>1. Userdata!Typed
  BY DEF Userdata!BuildInv
<1>2. CASE Userdata!OtherLoop
  BY <1>1, <1>2 DEF Userdata!OtherLoop, Userdata!Typed, Userdata!BuildAssumption
<1>3. ASSUME NEW b \in ImageBuilders, Userdata!Attach(b) PROVE FALSE
  BY <1>1, <1>3 DEF Userdata!Attach, Userdata!Typed
<1>4. ASSUME NEW b \in ImageBuilders, Userdata!Detach(b)
      PROVE  s1[d] = b /\ s3'[b] # s3[b]
  <2>1. s3[b].pc = "detaching" /\ s3[b].cand \in LoopDevices /\ s1[s3[b].cand] = b
    BY <1>4 DEF Userdata!Detach, Userdata!At, Userdata!BuildInv, Userdata!BuilderInv,
       Userdata!Matches
  <2>2. s1[d] = b
    BY <1>1, <1>4, <2>1 DEF Userdata!Detach, Userdata!Typed
  <2>3. PICK fields : /\ Userdata!Set(b, fields) /\ "pc" \in DOMAIN fields
                      /\ fields.pc # "detaching"
    BY <1>4 DEF Userdata!Detach, Userdata!Detached, Userdata!Go
  <2>4. s3'[b].pc # "detaching"
    BY <1>1, <2>3, SetStep, FieldsAre
  <2> QED
    BY <2>1, <2>2, <2>4
<1>5. ASSUME NEW b \in ImageBuilders,
             Userdata!Build(b) \/ Userdata!Interrupted(b) \/ Userdata!Killed(b),
             ~Userdata!Attach(b), ~Userdata!Detach(b)
      PROVE  UNCHANGED s1
  BY <1>5 DEF Userdata!Build, Userdata!Interrupted, Userdata!Killed, Userdata!Begin,
     Userdata!CopyGolden, Userdata!Mount, Userdata!Policy, Userdata!PolicyMark,
     Userdata!Packages, Userdata!RestorePolicy, Userdata!Overlay, Userdata!Check,
     Userdata!Unmount, Userdata!Fsck, Userdata!FindLoop, Userdata!Recheck, Userdata!Move,
     Userdata!Hash, Userdata!Convert, Userdata!Roundtrip, Userdata!Publish,
     Userdata!MarkPublished, Userdata!Record, Userdata!Verify, Userdata!Finish,
     Userdata!CleanMount, Userdata!Remove, Userdata!Change
<1> QED
  BY <1>2, <1>3, <1>4, <1>5 DEF Userdata!Next, slots

-----------------------------------------------------------------------------
(* What the userdata builder publishes, however many builds of a version run. *)

PublishingSteps == {"publish raw", "mark raw", "publish sparse"}

LEMMA PublishInitHolds ==
  ASSUME Userdata!Init
  PROVE  Userdata!PublishInv
<1>1. \A b \in ImageBuilders : s3[b].pc = "begin"
  BY DEF Userdata!Init, Userdata!NewBuilder
<1> QED
  BY <1>1 DEF Userdata!Init, Userdata!PublishInv, Userdata!OutputsInv, Userdata!WorkInv,
     Userdata!There, Userdata!PublishedChecked, Userdata!Parts, Userdata!Outputs

\* A step of one builder leaves the others alone, and one that has begun has begun.
LEMMA OthersSame ==
  ASSUME Userdata!BuildInv, NEW b \in ImageBuilders, NEW fields, Userdata!Set(b, fields),
         "pc" \in DOMAIN fields,
         fields.pc \in Userdata!NotBegun => s3[b].pc \in Userdata!NotBegun
  PROVE  /\ s3'[b].pc = fields.pc
         /\ \A c \in ImageBuilders \ {b} : s3'[c] = s3[c]
         /\ Userdata!OneBuild' => Userdata!OneBuild
         /\ Userdata!OneBuild' /\ fields.pc \notin Userdata!NotBegun =>
              \A c \in ImageBuilders \ {b} : s3'[c].pc \in Userdata!NotBegun
<1>1. s3'[b].pc = fields.pc /\ \A c \in ImageBuilders \ {b} : s3'[c] = s3[c]
  BY SetStep, FieldsAre DEF Userdata!BuildInv
<1> QED
  BY <1>1 DEF Userdata!OneBuild

\* What the invariant says of the work of the others is still so.
LEMMA OthersWork ==
  ASSUME Userdata!PublishInv, NEW b \in ImageBuilders,
         \A c \in ImageBuilders \ {b} : s3'[c] = s3[c],
         Userdata!WorkInv(b)', Userdata!OutputsInv'
  PROVE  Userdata!PublishInv'
<1>1. ASSUME NEW c \in ImageBuilders PROVE Userdata!WorkInv(c)'
  <2>1. CASE c = b
    BY <2>1
  <2>2. CASE c # b
    BY <2>2 DEF Userdata!PublishInv, Userdata!WorkInv
  <2> QED
    BY <2>1, <2>2
<1> QED
  BY <1>1 DEF Userdata!PublishInv

\* A step that leaves the outputs alone.
LEMMA QuietStep ==
  ASSUME Userdata!BuildInv, Userdata!PublishInv, NEW b \in ImageBuilders, UNCHANGED s2,
         NEW fields, Userdata!Set(b, fields), "pc" \in DOMAIN fields,
         fields.pc \in Userdata!NotBegun => s3[b].pc \in Userdata!NotBegun,
         fields.pc \in PublishingSteps => s3[b].pc \in PublishingSteps,
         Userdata!WorkInv(b)'
  PROVE  Userdata!PublishInv'
<1>1. /\ s3'[b].pc = fields.pc
      /\ \A c \in ImageBuilders \ {b} : s3'[c] = s3[c]
      /\ Userdata!OneBuild' => Userdata!OneBuild
  BY OthersSame
<1>2. ASSUME NEW c \in ImageBuilders, s3'[c].pc \in PublishingSteps
      PROVE  s3[c].pc \in PublishingSteps
  BY <1>1, <1>2
<1>3. Userdata!OutputsInv'
  BY <1>1, <1>2 DEF Userdata!PublishInv, Userdata!OutputsInv, Userdata!There,
     Userdata!PublishedChecked, PublishingSteps
<1> QED
  BY <1>1, <1>3, OthersWork

\* The image changes.
LEMMA ImageStep ==
  ASSUME Userdata!BuildInv, Userdata!PublishInv, NEW b \in ImageBuilders,
         NEW fields, Userdata!Set(b, fields), UNCHANGED s2, "pc" \in DOMAIN fields,
         "work" \in DOMAIN fields,
         fields.pc \notin PublishingSteps \cup {"move", "detaching", "recheck"},
         fields.pc \in Userdata!NotBegun => s3[b].pc \in Userdata!NotBegun,
         fields.pc \in {"attach", "mount", "policy", "mark", "packages", "restore",
                        "overlay", "check", "unmount", "fsck"} =>
           fields.work \in Userdata!Images,
         fields.pc \in {"attach", "mount", "policy", "overlay", "check", "unmount",
                        "fsck"} => fields.work.policy = "golden",
         fields.pc \in {"unmount", "fsck"} => "rootfs" \notin fields.work.harmed,
         fields.pc = "detach" =>
           fields.work = Userdata!Golden \/ ("rc" \notin DOMAIN fields /\ s3[b].rc # "none")
  PROVE  Userdata!PublishInv'
<1>1. s3'[b].pc = fields.pc /\ s3'[b].work = fields.work
      /\ ("rc" \notin DOMAIN fields => s3'[b].rc = s3[b].rc)
  BY SetStep, FieldsAre DEF Userdata!BuildInv
<1>2. Userdata!WorkInv(b)'
  BY <1>1 DEF Userdata!WorkInv
<1> QED
  BY <1>1, <1>2, QuietStep DEF PublishingSteps

\* Only the place in the script changes.
LEMMA PlaceStep ==
  ASSUME Userdata!BuildInv, Userdata!PublishInv, NEW b \in ImageBuilders,
         NEW fields, Userdata!Set(b, fields), UNCHANGED s2, "pc" \in DOMAIN fields,
         "work" \notin DOMAIN fields,
         fields.pc \notin PublishingSteps \cup {"move", "detaching", "recheck"},
         fields.pc \in Userdata!NotBegun => s3[b].pc \in Userdata!NotBegun,
         fields.pc \in {"attach", "mount", "policy", "mark", "packages", "restore",
                        "overlay", "check", "unmount", "fsck"} =>
           s3[b].work \in Userdata!Images,
         fields.pc \in {"attach", "mount", "policy", "overlay", "check", "unmount",
                        "fsck"} => s3[b].work.policy = "golden",
         fields.pc \in {"unmount", "fsck"} => "rootfs" \notin s3[b].work.harmed,
         fields.pc = "detach" =>
           s3[b].work = Userdata!Golden \/ ("rc" \notin DOMAIN fields /\ s3[b].rc # "none")
  PROVE  Userdata!PublishInv'
<1>1. s3'[b].pc = fields.pc /\ s3'[b].work = s3[b].work
      /\ ("rc" \notin DOMAIN fields => s3'[b].rc = s3[b].rc)
  BY SetStep, FieldsAre DEF Userdata!BuildInv
<1>2. Userdata!WorkInv(b)'
  BY <1>1 DEF Userdata!WorkInv
<1> QED
  BY <1>1, <1>2, QuietStep DEF PublishingSteps

LEMMA GoldenImage ==
  /\ Userdata!Golden \in Userdata!Images /\ Userdata!Golden.policy = "golden"
  /\ \A i \in Userdata!Images :
       i.policy = "golden" /\ "rootfs" \notin i.harmed /\ "boot" \notin i.harmed =>
         i = Userdata!Golden
<1>1. ASSUME NEW i \in Userdata!Images, i.policy = "golden", "rootfs" \notin i.harmed,
             "boot" \notin i.harmed
      PROVE  i = Userdata!Golden
  <2>1. i = [policy |-> i.policy, harmed |-> i.harmed] /\ i.harmed = {}
    BY <1>1 DEF Userdata!Images
  <2> QED
    BY <1>1, <2>1 DEF Userdata!Golden
<1> QED
  BY <1>1 DEF Userdata!Golden, Userdata!Images

LEMMA ImageHolds ==
  ASSUME Userdata!BuildInv, Userdata!PublishInv, NEW b \in ImageBuilders,
         \/ Userdata!Begin(b) \/ Userdata!Interrupted(b) \/ Userdata!CopyGolden(b)
         \/ Userdata!Mount(b) \/ Userdata!Policy(b) \/ Userdata!PolicyMark(b)
         \/ Userdata!Packages(b) \/ Userdata!RestorePolicy(b) \/ Userdata!Overlay(b)
         \/ Userdata!Check(b) \/ Userdata!Killed(b) \/ Userdata!Attach(b)
         \/ Userdata!Unmount(b) \/ Userdata!Fsck(b)
  PROVE  Userdata!PublishInv'
<1> USE DEF Userdata!Go, Userdata!At, Userdata!Change, PublishingSteps, Userdata!NotBegun
<1>0. Userdata!WorkInv(b)
  BY DEF Userdata!PublishInv
<1>1. CASE Userdata!Begin(b)
  BY <1>1, PlaceStep DEF Userdata!Begin
<1>2. CASE Userdata!Interrupted(b)
  BY <1>2, PlaceStep DEF Userdata!Interrupted
<1>3. CASE Userdata!CopyGolden(b)
  BY <1>3, ImageStep, GoldenImage DEF Userdata!CopyGolden
<1>4. CASE Userdata!Mount(b)
  <2>1. PICK fields : /\ Userdata!Set(b, fields)
                      /\ \/ fields = [mounted |-> TRUE, pc |-> "policy"]
                         \/ fields = [mounted |-> TRUE, pc |-> "clean", rc |-> "failed"]
    BY <1>4 DEF Userdata!Mount
  <2> QED
    BY <1>0, <1>4, <2>1, PlaceStep DEF Userdata!Mount, Userdata!WorkInv
<1>5. CASE Userdata!Policy(b)
  <2>1. s3[b].work \in Userdata!Images /\ s3[b].work.policy = "golden"
        /\ [s3[b].work EXCEPT !.policy = "deny"] \in Userdata!Images
    BY <1>0, <1>5 DEF Userdata!Policy, Userdata!WorkInv, Userdata!Images
  <2> QED
    BY <1>5, <2>1, ImageStep DEF Userdata!Policy
<1>6. CASE Userdata!PolicyMark(b)
  BY <1>0, <1>6, PlaceStep DEF Userdata!PolicyMark, Userdata!WorkInv
<1>7. CASE Userdata!Packages(b)
  <2>1. s3[b].work \in Userdata!Images
    BY <1>0, <1>7 DEF Userdata!Packages, Userdata!WorkInv
  <2>2. \A i \in Userdata!Harm(b) : i \in Userdata!Images
    BY <2>1 DEF Userdata!Harm, Userdata!Images
  <2> QED
    BY <1>7, <2>2, ImageStep DEF Userdata!Packages
<1>8. CASE Userdata!RestorePolicy(b)
  <2> DEFINE image == [s3[b].work EXCEPT !.policy = "golden"]
  <2>1. s3[b].work \in Userdata!Images
    BY <1>0, <1>8 DEF Userdata!RestorePolicy, Userdata!WorkInv
  <2>2. image \in Userdata!Images /\ image.policy = "golden"
    BY <2>1 DEF Userdata!Images
  <2>3. Userdata!Set(b, [work |-> image, touched |-> FALSE, pc |-> "overlay"])
        /\ UNCHANGED s2
    BY <1>8 DEF Userdata!RestorePolicy
  <2> HIDE DEF image
  <2> QED
    BY <2>2, <2>3, ImageStep
<1>9. CASE Userdata!Overlay(b)
  <2>1. s3[b].work \in Userdata!Images /\ s3[b].work.policy = "golden"
    BY <1>0, <1>9 DEF Userdata!Overlay, Userdata!WorkInv
  <2>2. \A i \in Userdata!Harm(b) : i \in Userdata!Images /\ i.policy = "golden"
    BY <2>1 DEF Userdata!Harm, Userdata!Images
  <2> QED
    BY <1>9, <2>2, ImageStep DEF Userdata!Overlay
<1>10. CASE Userdata!Check(b)
  BY <1>0, <1>10, PlaceStep DEF Userdata!Check, Userdata!WorkInv
<1>11. CASE Userdata!Killed(b)
  BY <1>11, PlaceStep DEF Userdata!Killed
<1>12. CASE Userdata!Attach(b)
  <2>1. PICK fields, d : /\ Userdata!Set(b, fields)
                         /\ \/ fields = [loop |-> d, pc |-> "mount"]
                            \/ fields = [pc |-> "clean", rc |-> "failed"]
    BY <1>12 DEF Userdata!Attach
  <2> QED
    BY <1>0, <1>12, <2>1, PlaceStep DEF Userdata!Attach, Userdata!WorkInv
<1>13. CASE Userdata!Unmount(b)
  BY <1>0, <1>13, PlaceStep DEF Userdata!Unmount, Userdata!WorkInv
<1>14. CASE Userdata!Fsck(b)
  <2>1. s3[b].work = Userdata!Golden
    BY <1>0, <1>14, GoldenImage DEF Userdata!Fsck, Userdata!WorkInv
  <2> QED
    BY <1>14, <2>1, PlaceStep DEF Userdata!Fsck
<1> QED
  BY <1>1, <1>2, <1>3, <1>4, <1>5, <1>6, <1>7, <1>8, <1>9, <1>10, <1>11, <1>12, <1>13, <1>14

\* The search for the device changes neither the image nor how the build ends.
LEMMA DetachingKeeps ==
  ASSUME Userdata!BuildInv, Userdata!PublishInv, NEW b \in ImageBuilders,
         Userdata!FindLoop(b) \/ Userdata!Detach(b) \/ Userdata!Recheck(b)
  PROVE  Userdata!PublishInv'
<1>1. Userdata!WorkInv(b) /\ UNCHANGED s2 /\ s3[b].pc \in {"detach", "detaching", "recheck"}
  BY DEF Userdata!PublishInv, Userdata!FindLoop, Userdata!Detach, Userdata!Recheck,
         Userdata!At
<1>2. \E fields : /\ Userdata!Set(b, fields) /\ "pc" \in DOMAIN fields
                  /\ "work" \notin DOMAIN fields
                  /\ \/ /\ fields.pc \in {"detaching", "recheck", "remove"}
                        /\ "rc" \notin DOMAIN fields
                     \/ fields.pc = "move" /\ s3[b].rc = "none"
                     \/ fields.pc = "clean"
  <2>1. ASSUME NEW d, Userdata!NotDetached(b, d)
        PROVE  \E fields : /\ Userdata!Set(b, fields) /\ "pc" \in DOMAIN fields
                  /\ "work" \notin DOMAIN fields
                  /\ \/ fields.pc = "remove" /\ "rc" \notin DOMAIN fields
                     \/ fields.pc = "clean"
    <3>1. CASE s3[b].rc = "none"
      <4>1. PICK fields : /\ Userdata!Set(b, fields)
              /\ fields = [loop |-> d, cand |-> Nothing, pc |-> "clean", rc |-> "failed"]
        BY <2>1, <3>1 DEF Userdata!NotDetached
      <4> QED
        BY <4>1
    <3>2. CASE s3[b].rc # "none"
      <4>1. PICK fields : /\ Userdata!Set(b, fields)
              /\ fields = [loop |-> d, cand |-> Nothing, pc |-> "remove", unclean |-> TRUE]
        BY <2>1, <3>2 DEF Userdata!NotDetached
      <4> QED
        BY <4>1
    <3> QED
      BY <3>1, <3>2
  <2>2. ASSUME Userdata!Detached(b)
        PROVE  \E fields : /\ Userdata!Set(b, fields) /\ "pc" \in DOMAIN fields
                  /\ "work" \notin DOMAIN fields
                  /\ \/ fields.pc = "remove" /\ "rc" \notin DOMAIN fields
                     \/ fields.pc = "move" /\ s3[b].rc = "none"
    <3>1. PICK fields : /\ Userdata!Set(b, fields)
            /\ fields = [loop |-> Nothing, cand |-> Nothing,
                         pc |-> IF s3[b].rc = "none" THEN "move" ELSE "remove"]
      BY <2>2 DEF Userdata!Detached
    <3> QED
      BY <3>1
  <2>3. CASE Userdata!Go(b, "recheck")
    <3>1. PICK fields : Userdata!Set(b, fields) /\ fields = [pc |-> "recheck"]
      BY <2>3 DEF Userdata!Go
    <3> QED
      BY <3>1
  <2>4. ASSUME NEW d, Userdata!Set(b, [cand |-> d, pc |-> "detaching"])
        PROVE  \E fields : /\ Userdata!Set(b, fields) /\ "pc" \in DOMAIN fields
                  /\ "work" \notin DOMAIN fields /\ fields.pc = "detaching"
                  /\ "rc" \notin DOMAIN fields
    <3>1. PICK fields : Userdata!Set(b, fields) /\ fields = [cand |-> d, pc |-> "detaching"]
      BY <2>4
    <3> QED
      BY <3>1
  <2>5. \/ Userdata!Detached(b) \/ Userdata!Go(b, "recheck")
        \/ \E d : Userdata!NotDetached(b, d)
        \/ \E d : Userdata!Set(b, [cand |-> d, pc |-> "detaching"])
    BY DEF Userdata!FindLoop, Userdata!Detach, Userdata!Recheck
  <2> QED
    BY <2>1, <2>2, <2>3, <2>4, <2>5
<1>3. PICK fields : /\ Userdata!Set(b, fields) /\ "pc" \in DOMAIN fields
                    /\ "work" \notin DOMAIN fields
                    /\ \/ /\ fields.pc \in {"detaching", "recheck", "remove"}
                          /\ "rc" \notin DOMAIN fields
                       \/ fields.pc = "move" /\ s3[b].rc = "none"
                       \/ fields.pc = "clean"
  BY <1>2
<1>4. s3'[b].pc = fields.pc /\ s3'[b].work = s3[b].work
      /\ ("rc" \notin DOMAIN fields => s3'[b].rc = s3[b].rc)
  BY <1>3, SetStep, FieldsAre DEF Userdata!BuildInv
<1>5. Userdata!WorkInv(b)'
  BY <1>1, <1>3, <1>4 DEF Userdata!WorkInv
<1> QED
  BY <1>1, <1>3, <1>4, <1>5, QuietStep DEF PublishingSteps, Userdata!NotBegun

\* The trap: the image is not looked at again, and what is removed is not published.
LEMMA CleaningKeeps ==
  ASSUME Userdata!BuildInv, Userdata!PublishInv, NEW b \in ImageBuilders,
         Userdata!CleanMount(b) \/ Userdata!Remove(b)
  PROVE  Userdata!PublishInv'
<1>1. CASE Userdata!CleanMount(b)
  <2>1. s3[b].rc # "none" /\ UNCHANGED s2
    BY <1>1 DEF Userdata!CleanMount, Userdata!At, Userdata!BuildInv, Userdata!BuilderInv
  <2>2. \E fields : /\ Userdata!Set(b, fields) /\ "pc" \in DOMAIN fields
                    /\ fields.pc = "detach" /\ "rc" \notin DOMAIN fields
    <3>1. CASE s3[b].mounted
      <4>1. CASE Userdata!Set(b, [unclean |-> TRUE, pc |-> "detach"])
        <5>1. PICK fields : /\ Userdata!Set(b, fields)
                            /\ fields = [unclean |-> TRUE, pc |-> "detach"]
          BY <4>1
        <5> QED
          BY <5>1
      <4>2. CASE ~Userdata!Set(b, [unclean |-> TRUE, pc |-> "detach"])
        <5>1. PICK fields, work, unmounted, unclean :
                /\ Userdata!Set(b, fields)
                /\ fields = [work |-> work, touched |-> FALSE, mounted |-> ~unmounted,
                             unclean |-> unclean, pc |-> "detach"]
          BY <1>1, <3>1, <4>2 DEF Userdata!CleanMount
        <5> QED
          BY <5>1
      <4> QED
        BY <4>1, <4>2
    <3>2. CASE ~s3[b].mounted
      <4>1. PICK fields : Userdata!Set(b, fields)
               /\ fields = [unclean |-> s3[b].touched, pc |-> "detach"]
        BY <1>1, <3>2 DEF Userdata!CleanMount
      <4> QED
        BY <4>1
    <3> QED
      BY <3>1, <3>2
  <2>3. PICK fields : /\ Userdata!Set(b, fields) /\ "pc" \in DOMAIN fields
                      /\ fields.pc = "detach" /\ "rc" \notin DOMAIN fields
    BY <2>2
  <2>4. s3'[b].pc = "detach" /\ s3'[b].rc = s3[b].rc
    BY <2>3, SetStep, FieldsAre DEF Userdata!BuildInv
  <2>5. Userdata!WorkInv(b)'
    BY <2>1, <2>4 DEF Userdata!WorkInv
  <2> QED
    BY <2>1, <2>3, <2>5, QuietStep DEF PublishingSteps, Userdata!NotBegun
<1>2. CASE Userdata!Remove(b)
  <2>1. PICK fields, status : Userdata!Set(b, fields)
          /\ fields = [pc |-> "exit", status |-> status]
    BY <1>2 DEF Userdata!Remove
  <2>2. /\ s3'[b].pc = "exit" /\ \A c \in ImageBuilders \ {b} : s3'[c] = s3[c]
        /\ Userdata!OneBuild' => Userdata!OneBuild
    <3>1. "pc" \in DOMAIN fields /\ fields.pc = "exit"
      BY <2>1
    <3> QED
      BY <2>1, <3>1, OthersSame DEF Userdata!NotBegun
  <2>3. DOMAIN s2' = DOMAIN s2 /\ \A f \in DOMAIN s2 : s2'[f] \in {s2[f], Nothing}
    BY <1>2 DEF Userdata!Remove
  <2>4. Userdata!WorkInv(b)'
    BY <2>2 DEF Userdata!WorkInv
  <2>5. ASSUME NEW c \in ImageBuilders, s3'[c].pc \in PublishingSteps
        PROVE  s3[c].pc \in PublishingSteps
    BY <2>2, <2>5 DEF PublishingSteps
  <2>6. Userdata!OutputsInv'
    BY <2>2, <2>3, <2>5 DEF Userdata!PublishInv, Userdata!OutputsInv, Userdata!There,
       Userdata!PublishedChecked, Userdata!Outputs, Userdata!Parts, PublishingSteps
  <2> QED
    BY <2>2, <2>4, <2>6, OthersWork
<1> QED
  BY <1>1, <1>2

\* Where a builder goes; past the image nothing is asked of it.
LaterPlaces == {"hash", "convert", "roundtrip", "publish raw", "mark raw", "publish sparse",
                "mark sparse", "record", "verify", "done", "clean"}

LEMMA LaterHolds ==
  ASSUME Userdata!PublishInv, NEW b \in ImageBuilders, s3'[b].pc \in LaterPlaces,
         \A c \in ImageBuilders \ {b} : s3'[c] = s3[c], Userdata!OutputsInv'
  PROVE  Userdata!PublishInv'
<1>1. Userdata!WorkInv(b)'
  BY DEF Userdata!WorkInv, LaterPlaces
<1> QED
  BY <1>1, OthersWork

LEMMA QuietLater ==
  ASSUME Userdata!BuildInv, Userdata!PublishInv, NEW b \in ImageBuilders, UNCHANGED s2,
         NEW fields, Userdata!Set(b, fields), "pc" \in DOMAIN fields,
         fields.pc \in PublishingSteps => s3[b].pc \in PublishingSteps,
         fields.pc \in LaterPlaces
  PROVE  Userdata!PublishInv'
<1>1. fields.pc \notin Userdata!NotBegun
  BY DEF LaterPlaces, Userdata!NotBegun
<1>2. s3'[b].pc = fields.pc
  BY <1>1, OthersSame
<1>3. Userdata!WorkInv(b)'
  BY <1>2 DEF Userdata!WorkInv, LaterPlaces
<1> QED
  BY <1>1, <1>3, QuietStep

\* A builder in the middle of its outputs, in a step that changes them.
LEMMA LaterStep ==
  ASSUME Userdata!BuildInv, NEW b \in ImageBuilders, NEW place,
         Userdata!Go(b, place) \/ \E w : Userdata!Set(b, [work |-> w, pc |-> place]),
         place \in LaterPlaces
  PROVE  /\ s3'[b].pc = place
         /\ \A c \in ImageBuilders \ {b} : s3'[c] = s3[c]
         /\ Userdata!OneBuild' =>
              Userdata!OneBuild
                    /\ \A c \in ImageBuilders \ {b} : s3'[c].pc \in Userdata!NotBegun
<1>1. PICK fields, w : /\ Userdata!Set(b, fields)
                       /\ fields = [pc |-> place] \/ fields = [work |-> w, pc |-> place]
  BY DEF Userdata!Go
<1>2. "pc" \in DOMAIN fields /\ fields.pc = place /\ fields.pc \notin Userdata!NotBegun
  <2>1. CASE fields = [pc |-> place]
    BY <2>1 DEF LaterPlaces, Userdata!NotBegun
  <2>2. CASE fields = [work |-> w, pc |-> place]
    BY <2>2 DEF LaterPlaces, Userdata!NotBegun
  <2> QED
    BY <1>1, <2>1, <2>2
<1> QED
  BY <1>1, <1>2, OthersSame

LEMMA OutputsHold ==
  ASSUME Userdata!BuildInv, Userdata!PublishInv, NEW b \in ImageBuilders,
         \/ Userdata!Move(b) \/ Userdata!Hash(b) \/ Userdata!Convert(b)
         \/ Userdata!Roundtrip(b)
         \/ \E o \in Userdata!Outputs : Userdata!Publish(b, o)
              \/ Userdata!MarkPublished(b, o)
         \/ Userdata!Record(b) \/ Userdata!Verify(b) \/ Userdata!Finish(b)
  PROVE  Userdata!PublishInv'
<1> USE DEF Userdata!At, LaterPlaces
<1> DEFINE Changes(place) ==
             /\ s3'[b].pc = place
             /\ \A c \in ImageBuilders \ {b} : s3'[c] = s3[c]
             /\ Userdata!OneBuild' =>
                  /\ Userdata!OneBuild
                  /\ \A c \in ImageBuilders \ {b} : s3'[c].pc \in Userdata!NotBegun
<1>1. /\ Userdata!OutputsInv /\ Userdata!WorkInv(b)
      /\ DOMAIN s2 = {"raw", "sparse", "rawPart", "sparsePart"}
  BY DEF Userdata!PublishInv, Userdata!OutputsInv, Userdata!Outputs, Userdata!Parts
<1>2. ASSUME Userdata!OneBuild', NEW c \in ImageBuilders, s3'[c].pc \in PublishingSteps,
             NEW place \in LaterPlaces, Changes(place)
      PROVE  c = b
  <2>1. ASSUME c # b PROVE FALSE
    <3>1. s3'[c].pc \in Userdata!NotBegun
      BY <1>2, <2>1
    <3> QED
      BY <1>2, <3>1 DEF PublishingSteps, Userdata!NotBegun
  <2> QED
    BY <2>1
<1>4. CASE Userdata!Move(b)
  <2>1. Changes("hash")
    BY <1>4, LaterStep DEF Userdata!Move
  <2>3. s3[b].work = Userdata!Golden
    BY <1>1, <1>4 DEF Userdata!Move, Userdata!WorkInv
  <2>4. s2' = [s2 EXCEPT !["rawPart"] =
                 [by |-> b, image |-> s3[b].work, whole |-> TRUE]]
    BY <1>4 DEF Userdata!Move, Userdata!File
  <2>5. /\ DOMAIN s2' = DOMAIN s2 /\ s2'["rawPart"].whole
        /\ s2'["rawPart"].image = Userdata!Golden
        /\ s2'["raw"] = s2["raw"] /\ s2'["sparse"] = s2["sparse"]
        /\ s2'["sparsePart"] = s2["sparsePart"]
    BY <1>1, <2>3, <2>4
  <2>6. Userdata!OutputsInv'
    BY <1>1, <1>2, <2>1, <2>5 DEF Userdata!OutputsInv, Userdata!PublishedChecked,
       Userdata!There, Userdata!Outputs, Userdata!Parts, PublishingSteps
  <2> QED
    BY LaterHolds, <2>1, <2>6
<1>5. CASE Userdata!Hash(b)
  <2>1. PICK fields, sum : /\ Userdata!Set(b, fields)
                           /\ fields = [sum |-> sum, pc |-> "convert"]
    BY <1>5 DEF Userdata!Hash
  <2> QED
    BY <1>5, <2>1, QuietLater DEF Userdata!Hash, PublishingSteps
<1>6. CASE Userdata!Convert(b)
  <2>1. Changes("roundtrip")
    BY <1>6, LaterStep DEF Userdata!Convert
  <2>2. PICK whole \in BOOLEAN : s2' = [s2 EXCEPT !["sparsePart"] =
          [by |-> s2["rawPart"].by, image |-> s2["rawPart"].image, whole |-> whole]]
    BY <1>6 DEF Userdata!Convert, Userdata!File
  <2>3. Userdata!There("rawPart")
    BY <1>6 DEF Userdata!Convert
  <2>4. /\ DOMAIN s2' = DOMAIN s2 /\ s2'["sparsePart"].image = s2["rawPart"].image
        /\ s2'["raw"] = s2["raw"] /\ s2'["sparse"] = s2["sparse"]
        /\ s2'["rawPart"] = s2["rawPart"]
    BY <1>1, <2>2
  <2>5. Userdata!OutputsInv'
    BY <1>1, <1>2, <2>1, <2>3, <2>4 DEF Userdata!OutputsInv, Userdata!PublishedChecked,
       Userdata!There, Userdata!Outputs, Userdata!Parts, PublishingSteps
  <2> QED
    BY LaterHolds, <2>1, <2>5
<1>7. CASE Userdata!Roundtrip(b)
  <2>1. Changes("publish raw")
    BY <1>7, LaterStep DEF Userdata!Roundtrip
  <2>2. UNCHANGED s2 /\ s2["sparsePart"].whole
    BY <1>7 DEF Userdata!Roundtrip, Userdata!SameAsRaw
  <2>3. Userdata!OutputsInv'
    BY <1>1, <2>1, <2>2 DEF Userdata!OutputsInv, Userdata!PublishedChecked, Userdata!There
  <2> QED
    BY LaterHolds, <2>1, <2>3
<1>8. ASSUME Userdata!Publish(b, "raw") PROVE Userdata!PublishInv'
  <2>1. Changes("mark raw") /\ s3[b].pc = "publish raw"
    BY <1>8, LaterStep DEF Userdata!Publish, Userdata!MarkStep, Userdata!PublishStep
  <2>2. /\ s2["rawPart"] # Nothing
        /\ s2' = [s2 EXCEPT !["raw"] = s2["rawPart"], !["rawPart"] = Nothing]
    BY <1>8 DEF Userdata!Publish, Userdata!Rename, Userdata!There, Userdata!Part
  <2>3. /\ DOMAIN s2' = DOMAIN s2 /\ s2'["raw"] = s2["rawPart"] /\ s2'["rawPart"] = Nothing
        /\ s2'["sparse"] = s2["sparse"] /\ s2'["sparsePart"] = s2["sparsePart"]
    BY <1>1, <2>2
  <2>4. Userdata!OutputsInv'
    BY <1>1, <1>2, <2>1, <2>2, <2>3 DEF Userdata!OutputsInv, Userdata!PublishedChecked,
       Userdata!There, Userdata!Outputs, Userdata!Parts, PublishingSteps
  <2> QED
    BY LaterHolds, <2>1, <2>4
<1>9. ASSUME Userdata!Publish(b, "sparse") PROVE Userdata!PublishInv'
  <2>1. Changes("mark sparse") /\ s3[b].pc = "publish sparse"
    BY <1>9, LaterStep DEF Userdata!Publish, Userdata!MarkStep, Userdata!PublishStep
  <2>2. /\ s2["sparsePart"] # Nothing
        /\ s2' = [s2 EXCEPT !["sparse"] = s2["sparsePart"], !["sparsePart"] = Nothing]
    BY <1>9 DEF Userdata!Publish, Userdata!Rename, Userdata!There, Userdata!Part
  <2>3. /\ DOMAIN s2' = DOMAIN s2 /\ s2'["sparse"] = s2["sparsePart"]
        /\ s2'["sparsePart"] = Nothing
        /\ s2'["raw"] = s2["raw"] /\ s2'["rawPart"] = s2["rawPart"]
    BY <1>1, <2>2
  <2>4. Userdata!OutputsInv'
    BY <1>1, <2>1, <2>2, <2>3 DEF Userdata!OutputsInv, Userdata!PublishedChecked,
       Userdata!There, Userdata!Outputs, Userdata!Parts
  <2> QED
    BY LaterHolds, <2>1, <2>4
<1>10. ASSUME NEW o \in Userdata!Outputs, Userdata!MarkPublished(b, o)
       PROVE  Userdata!PublishInv'
  <2>1. PICK fields, parts, created :
          /\ Userdata!Set(b, fields)
          /\ fields = [parts |-> parts, created |-> created,
                       pc |-> IF o = "raw" THEN "publish sparse" ELSE "record"]
    BY <1>10 DEF Userdata!MarkPublished, Userdata!PublishStep
  <2>2. UNCHANGED s2 /\ s3[b].pc = IF o = "raw" THEN "mark raw" ELSE "mark sparse"
    BY <1>10 DEF Userdata!MarkPublished, Userdata!MarkStep
  <2>3. /\ "pc" \in DOMAIN fields
        /\ fields.pc = IF o = "raw" THEN "publish sparse" ELSE "record"
    BY <2>1
  <2> QED
    BY <2>1, <2>2, <2>3, QuietLater DEF PublishingSteps
<1>11. CASE Userdata!Record(b)
  <2>1. PICK fields : Userdata!Set(b, fields) /\ fields = [status |-> "COMPLETE",
        pc |-> "verify"]
    BY <1>11 DEF Userdata!Record
  <2> QED
    BY <1>11, <2>1, QuietLater DEF Userdata!Record, PublishingSteps
<1>12. CASE Userdata!Verify(b)
  <2>1. PICK fields : Userdata!Set(b, fields) /\ fields = [created |-> {}, pc |-> "done"]
    BY <1>12 DEF Userdata!Verify
  <2> QED
    BY <1>12, <2>1, QuietLater DEF Userdata!Verify, PublishingSteps
<1>13. CASE Userdata!Finish(b)
  <2>1. PICK fields : Userdata!Set(b, fields) /\ fields = [pc |-> "clean", rc |-> "ok"]
    BY <1>13 DEF Userdata!Finish
  <2> QED
    BY <1>13, <2>1, QuietLater DEF Userdata!Finish, PublishingSteps
<1> QED
  BY <1>4, <1>5, <1>6, <1>7, <1>8, <1>9, <1>10, <1>11, <1>12, <1>13
     DEF Userdata!Outputs

LEMMA PublishStepHolds ==
  ASSUME Userdata!BuildInv, Userdata!PublishInv, [Userdata!Next]_slots
  PROVE  Userdata!PublishInv'
<1>1. ASSUME UNCHANGED <<s2, s3>> PROVE Userdata!PublishInv'
  BY <1>1 DEF Userdata!PublishInv, Userdata!OutputsInv, Userdata!WorkInv, Userdata!There,
     Userdata!PublishedChecked, Userdata!OneBuild
<1>2. CASE UNCHANGED slots
  BY <1>1, <1>2 DEF slots
<1>3. CASE Userdata!OtherLoop
  BY <1>1, <1>3 DEF Userdata!OtherLoop
<1>4. ASSUME NEW b \in ImageBuilders,
             Userdata!Build(b) \/ Userdata!Interrupted(b) \/ Userdata!Killed(b)
      PROVE  Userdata!PublishInv'
  BY <1>4, ImageHolds, DetachingKeeps, CleaningKeeps, OutputsHold DEF Userdata!Build
<1> QED
  BY <1>2, <1>3, <1>4 DEF Userdata!Next

LEMMA PublishMeans ==
  ASSUME Userdata!PublishInv
  PROVE  Userdata!PublishedChecked
  BY DEF Userdata!PublishInv, Userdata!OutputsInv

-----------------------------------------------------------------------------
(* The package builders: s1 the agenda, s2 the trees, s3 the packages, s4 the locks, s5   *)
(* the builders, s6 what is published.                                                    *)

LEMMA CandidatesAre ==
  ASSUME NEW c \in DOMAIN Packages!Candidate
  PROVE  /\ c \in {"irq", "search", "linear"}
         /\ Packages!Candidate[c].new \in Packages!Versions
         /\ Packages!PackagesOf(c) \subseteq Packages!Trees
         /\ DOMAIN Packages!Candidate[c].packages \subseteq Nat
         /\ 1 \in DOMAIN Packages!Candidate[c].packages
         /\ \A i \in DOMAIN Packages!Candidate[c].packages :
              /\ Packages!Candidate[c].packages[i] \in Packages!PackagesOf(c)
              /\ i # Len(Packages!Candidate[c].packages) =>
                   i + 1 \in DOMAIN Packages!Candidate[c].packages
<1>1. c \in {"irq", "search", "linear"}
  BY DEF Packages!Candidate
<1>2. CASE c = "irq"
  <2>1. /\ Packages!Candidate[c].packages = <<"phosh", "gsd">>
        /\ Packages!Candidate[c].new = {"irq"}
    BY <1>2 DEF Packages!Candidate
  <2> QED
    BY <1>1, <2>1 DEF Packages!PackagesOf, Packages!Versions, Packages!Trees
<1>3. CASE c = "search"
  <2>1. /\ Packages!Candidate[c].packages = <<"phosh">>
        /\ Packages!Candidate[c].new = {"irq", "search"}
    BY <1>3 DEF Packages!Candidate
  <2> QED
    BY <1>1, <2>1 DEF Packages!PackagesOf, Packages!Versions, Packages!Trees
<1>4. CASE c = "linear"
  <2>1. /\ Packages!Candidate[c].packages = <<"phoc">>
        /\ Packages!Candidate[c].new = {"linear"}
    BY <1>4 DEF Packages!Candidate
  <2> QED
    BY <1>1, <2>1 DEF Packages!PackagesOf, Packages!Versions, Packages!Trees
<1> QED
  BY <1>1, <1>2, <1>3, <1>4

\* Every step is a change of one tree or the check.
LEMMA StepsAre ==
  ASSUME NEW c \in {"irq", "search", "linear"}
  PROVE  /\ DOMAIN Packages!StepsOf(c) = 1..Len(Packages!StepsOf(c))
         /\ Len(Packages!StepsOf(c)) \in Nat /\ 1 \in DOMAIN Packages!StepsOf(c)
         /\ \A k \in DOMAIN Packages!StepsOf(c) :
              \/ Packages!StepsOf(c)[k] = <<"verify", "all">>
              \/ /\ Packages!StepsOf(c)[k][1] \in {"copy", "log", "stamp"}
                 /\ Packages!StepsOf(c)[k][2] \in Packages!Trees
<1>1. CASE c = "irq"
  BY <1>1 DEF Packages!StepsOf, Packages!IrqSteps, Packages!Trees
<1>2. CASE c = "search"
  BY <1>2 DEF Packages!StepsOf, Packages!SearchSteps, Packages!Trees
<1>3. CASE c = "linear"
  BY <1>3 DEF Packages!StepsOf, Packages!LinearSteps, Packages!Trees
<1> QED
  BY <1>1, <1>2, <1>3

\* They treat every source of the candidate, its changelog and its stamp.
LEMMA StepsSuffice ==
  ASSUME NEW c \in DOMAIN Packages!Candidate, NEW p \in Packages!PackagesOf(c)
  PROVE  \E j, k, m \in DOMAIN Packages!StepsOf(c) :
           /\ Packages!StepsOf(c)[j] = <<"copy", p>>
           /\ Packages!StepsOf(c)[k] = <<"log", p>>
           /\ Packages!StepsOf(c)[m] = <<"stamp", p>>
<1>1. c \in {"irq", "search", "linear"}
  BY CandidatesAre
<1>2. CASE c = "irq"
  <2>1. p \in {"phosh", "gsd"}
    <3>1. Packages!Candidate[c].packages = <<"phosh", "gsd">>
      BY <1>2 DEF Packages!Candidate
    <3> QED
      BY <3>1 DEF Packages!PackagesOf
  <2>2. /\ 1 \in DOMAIN Packages!StepsOf(c) /\ 2 \in DOMAIN Packages!StepsOf(c)
        /\ 3 \in DOMAIN Packages!StepsOf(c) /\ 4 \in DOMAIN Packages!StepsOf(c)
        /\ 5 \in DOMAIN Packages!StepsOf(c) /\ 6 \in DOMAIN Packages!StepsOf(c)
    BY <1>2 DEF Packages!StepsOf, Packages!IrqSteps
  <2>3. /\ Packages!StepsOf(c)[1] = <<"copy", "phosh">>
        /\ Packages!StepsOf(c)[2] = <<"copy", "gsd">>
        /\ Packages!StepsOf(c)[3] = <<"log", "phosh">>
        /\ Packages!StepsOf(c)[4] = <<"stamp", "phosh">>
        /\ Packages!StepsOf(c)[5] = <<"log", "gsd">>
        /\ Packages!StepsOf(c)[6] = <<"stamp", "gsd">>
    BY <1>2 DEF Packages!StepsOf, Packages!IrqSteps
  <2> QED
    BY <2>1, <2>2, <2>3
<1>3. CASE c = "search"
  <2>1. p = "phosh"
    <3>1. Packages!Candidate[c].packages = <<"phosh">>
      BY <1>3 DEF Packages!Candidate
    <3> QED
      BY <3>1 DEF Packages!PackagesOf
  <2>2. /\ 1 \in DOMAIN Packages!StepsOf(c) /\ 2 \in DOMAIN Packages!StepsOf(c)
        /\ 3 \in DOMAIN Packages!StepsOf(c)
        /\ Packages!StepsOf(c)[1] = <<"copy", "phosh">>
        /\ Packages!StepsOf(c)[2] = <<"log", "phosh">>
        /\ Packages!StepsOf(c)[3] = <<"stamp", "phosh">>
    BY <1>3 DEF Packages!StepsOf, Packages!SearchSteps
  <2> QED
    BY <2>1, <2>2
<1>4. CASE c = "linear"
  <2>1. p = "phoc"
    <3>1. Packages!Candidate[c].packages = <<"phoc">>
      BY <1>4 DEF Packages!Candidate
    <3> QED
      BY <3>1 DEF Packages!PackagesOf
  <2>2. /\ 1 \in DOMAIN Packages!StepsOf(c) /\ 2 \in DOMAIN Packages!StepsOf(c)
        /\ 4 \in DOMAIN Packages!StepsOf(c)
        /\ Packages!StepsOf(c)[1] = <<"copy", "phoc">>
        /\ Packages!StepsOf(c)[2] = <<"log", "phoc">>
        /\ Packages!StepsOf(c)[4] = <<"stamp", "phoc">>
    BY <1>4 DEF Packages!StepsOf, Packages!LinearSteps
  <2> QED
    BY <2>1, <2>2
<1> QED
  BY <1>1, <1>2, <1>3, <1>4

\* A step that changes one tree as its candidate asks undoes no step taken before.
LEMMA DoneStays ==
  ASSUME Packages!Typed, NEW c, NEW p \in Packages!Trees, NEW step,
         step = <<"verify", "all">>
           \/ (step[1] \in {"copy", "log", "stamp"} /\ step[2] \in Packages!Trees),
         Packages!Done(c, step),
         \/ s2' = [s2 EXCEPT ![p].src = Packages!Candidate[c].new]
         \/ s2' = [s2 EXCEPT ![p].log = Packages!Candidate[c].new]
         \/ s2' = [s2 EXCEPT ![p].stamp = FALSE]
  PROVE  Packages!Done(c, step)'
<1>1. CASE step = <<"verify", "all">>
  BY <1>1 DEF Packages!Done
<1>2. CASE step[1] \in {"copy", "log", "stamp"} /\ step[2] \in Packages!Trees
  <2> DEFINE q == step[2]
  <2>1. q \in Packages!Trees /\ q \in DOMAIN s2 /\ p \in DOMAIN s2
        /\ s2[q] \in [src : Packages!Versions \cup {Packages!Torn}, log : Packages!Versions,
                      stamp : BOOLEAN, obj : Packages!Versions \cup {Packages!Torn}]
    BY <1>2 DEF Packages!Typed
  <2>2. CASE s2' = [s2 EXCEPT ![p].src = Packages!Candidate[c].new]
    <3>1. /\ s2'[q].src \in {s2[q].src, Packages!Candidate[c].new}
          /\ s2'[q].log = s2[q].log /\ s2'[q].stamp = s2[q].stamp
      BY <2>1, <2>2
    <3> QED
      BY <1>2, <3>1 DEF Packages!Done
  <2>3. CASE s2' = [s2 EXCEPT ![p].log = Packages!Candidate[c].new]
    <3>1. /\ s2'[q].log \in {s2[q].log, Packages!Candidate[c].new}
          /\ s2'[q].src = s2[q].src /\ s2'[q].stamp = s2[q].stamp
      BY <2>1, <2>3
    <3> QED
      BY <1>2, <3>1 DEF Packages!Done
  <2>4. CASE s2' = [s2 EXCEPT ![p].stamp = FALSE]
    <3>1. /\ s2'[q].stamp = s2[q].stamp \/ ~s2'[q].stamp
          /\ s2'[q].src = s2[q].src /\ s2'[q].log = s2[q].log
      BY <2>1, <2>4
    <3> QED
      BY <1>2, <3>1 DEF Packages!Done
  <2> QED
    BY <2>2, <2>3, <2>4
<1> QED
  BY <1>1, <1>2

\* The builder goes to another place.
Moves(o, pc, n) == s5' = [s5 EXCEPT ![o].pc = pc, ![o].n = n]

BuilderStates == [pc : {"idle", "lock"} \cup Packages!Busy,
                  does : DOMAIN Packages!Candidate, n : Nat]

LEMMA BuilderMoves ==
  ASSUME s5 \in [PackageOperators -> BuilderStates], NEW o \in PackageOperators,
         NEW pc \in {"idle", "lock"} \cup Packages!Busy, NEW n \in Nat, Moves(o, pc, n)
  PROVE  /\ s5' \in [PackageOperators -> BuilderStates]
         /\ s5'[o].pc = pc /\ s5'[o].n = n /\ s5'[o].does = s5[o].does
         /\ \A q \in PackageOperators \ {o} : s5'[q] = s5[q]
<1> DEFINE first == [s5[o] EXCEPT !.pc = pc]
           value == [first EXCEPT !.n = n]
<1>1. s5[o] \in BuilderStates
  OBVIOUS
<1>2. first \in BuilderStates /\ first.pc = pc /\ first.does = s5[o].does
  BY <1>1 DEF BuilderStates
<1>3. value \in BuilderStates /\ value.pc = pc /\ value.does = s5[o].does /\ value.n = n
  <2> HIDE DEF first
  <2> QED
    BY <1>2 DEF BuilderStates
<1>4. s5' = [s5 EXCEPT ![o] = value]
  BY DEF Moves
<1> HIDE DEF value
<1> QED
  BY <1>3, <1>4

\* A builder past its locks is alone there: the others have nothing to lose.
LEMMA OthersKeep ==
  ASSUME Packages!PackagesInv, NEW o \in PackageOperators,
         \A q \in PackageOperators \ {o} : s5'[q] = s5[q],
         \A q \in PackageOperators \ {o} : s4["gauge"] = q => s4'["gauge"] = q,
         UNCHANGED s2 \/ s5[o].pc \in Packages!Busy
  PROVE  \A q \in PackageOperators \ {o} : Packages!Progress(q)'
<1> SUFFICES ASSUME NEW q \in PackageOperators, q # o
             PROVE  Packages!Progress(q)'
  OBVIOUS
<1>1. Packages!Progress(q) /\ Packages!Progress(o) /\ s5'[q] = s5[q]
  BY DEF Packages!PackagesInv
<1>2. CASE s5[q].pc \in Packages!Busy
  <2>1. s5[o].pc \notin Packages!Busy
    BY <1>1, <1>2 DEF Packages!Progress
  <2>2. s4["gauge"] = q /\ s4'["gauge"] = q
    BY <1>1, <1>2 DEF Packages!Progress
  <2> QED
    BY <1>1, <2>1, <2>2 DEF Packages!Progress, Packages!At, Packages!Done
<1>3. CASE s5[q].pc \notin Packages!Busy
  BY <1>1, <1>3 DEF Packages!Progress, Packages!At, Packages!Busy
<1> QED
  BY <1>2, <1>3

\* Ends, of a step or of a program: `flock` releases what the builder held.
LEMMA AttemptExitHolds ==
  ASSUME Packages!PackagesInv, NEW o \in PackageOperators, Packages!Exit(o),
         UNCHANGED <<s1, s3>>, UNCHANGED s2 \/ s5[o].pc \in Packages!Busy,
         s2' \in [Packages!Trees ->
                   [src : Packages!Versions \cup {Packages!Torn}, log : Packages!Versions,
                    stamp : BOOLEAN, obj : Packages!Versions \cup {Packages!Torn}]],
         s6' \in [DOMAIN Packages!Candidate -> BOOLEAN], Packages!PublishedIsPatched'
  PROVE  Packages!PackagesInv'
<1>1. /\ s5 \in [PackageOperators -> BuilderStates] /\ DOMAIN s4 = {"gsd", "gauge"}
  BY DEF Packages!PackagesInv, Packages!Typed, BuilderStates
<1>2. Moves(o, "idle", 0)
  BY DEF Packages!Exit, Moves
<1>3. /\ s5' \in [PackageOperators -> BuilderStates] /\ s5'[o].pc = "idle"
      /\ \A q \in PackageOperators \ {o} : s5'[q] = s5[q]
  BY <1>1, <1>2, BuilderMoves
<1>4. /\ DOMAIN s4' = {"gsd", "gauge"}
      /\ \A q \in PackageOperators \ {o} : s4["gauge"] = q => s4'["gauge"] = q
  BY <1>1 DEF Packages!Exit, Packages!Released
<1>5. \A q \in PackageOperators \ {o} : Packages!Progress(q)'
  BY <1>3, <1>4, OthersKeep
<1>6. Packages!Progress(o)'
  BY <1>3 DEF Packages!Progress, Packages!At, Packages!Busy
<1>7. Packages!Typed'
  BY <1>3, <1>4 DEF Packages!PackagesInv, Packages!Typed, BuilderStates
<1> QED
  BY <1>5, <1>6, <1>7 DEF Packages!PackagesInv

\* A step inside the locks, or one that leaves them alone.
LEMMA TurnHolds ==
  ASSUME Packages!PackagesInv, NEW o \in PackageOperators,
         UNCHANGED <<s1, s4, s6>>, UNCHANGED s2 \/ s5[o].pc \in Packages!Busy,
         s5' \in [PackageOperators -> BuilderStates],
         \A q \in PackageOperators \ {o} : s5'[q] = s5[q],
         s2' \in [Packages!Trees ->
                   [src : Packages!Versions \cup {Packages!Torn}, log : Packages!Versions,
                    stamp : BOOLEAN, obj : Packages!Versions \cup {Packages!Torn}]],
         DOMAIN s3' = Packages!Trees,
         \A p \in Packages!Trees : DOMAIN s3'[p] = Packages!Versions,
         \A p \in Packages!Trees, v \in Packages!Versions : s3'[p][v] \in {v, s3[p][v]},
         Packages!Progress(o)'
  PROVE  Packages!PackagesInv'
<1>1. \A q \in PackageOperators \ {o} : Packages!Progress(q)'
  BY OthersKeep
<1>2. Packages!Typed'
  BY DEF Packages!PackagesInv, Packages!Typed, BuilderStates
<1>3. \A p \in Packages!Trees, v \in Packages!Versions : s3'[p][v] \in {v, Packages!Missing}
  BY DEF Packages!PackagesInv
<1>4. Packages!PublishedIsPatched'
  <2> SUFFICES ASSUME NEW c \in DOMAIN Packages!Candidate, s6[c],
                      NEW p \in Packages!PackagesOf(c)
               PROVE  s3'[p][Packages!Candidate[c].new] = Packages!Candidate[c].new
    BY DEF Packages!PublishedIsPatched
  <2>1. s3[p][Packages!Candidate[c].new] = Packages!Candidate[c].new
    BY DEF Packages!PackagesInv, Packages!PublishedIsPatched
  <2>2. p \in Packages!Trees /\ Packages!Candidate[c].new \in Packages!Versions
    BY CandidatesAre
  <2> QED
    BY <2>1, <2>2
<1> QED
  BY <1>1, <1>2, <1>3, <1>4 DEF Packages!PackagesInv

LEMMA LocksAre ==
  ASSUME NEW c
  PROVE  /\ Len(Packages!LocksFor(c)) \in Nat /\ 1 \in DOMAIN Packages!LocksFor(c)
         /\ \A n \in DOMAIN Packages!LocksFor(c) :
              /\ n \in Nat /\ Packages!LocksFor(c)[n] \in {"gsd", "gauge"}
              /\ n = Len(Packages!LocksFor(c)) => Packages!LocksFor(c)[n] = "gauge"
              /\ n # Len(Packages!LocksFor(c)) => n + 1 \in DOMAIN Packages!LocksFor(c)
<1>1. CASE c = "linear"
  <2>1. Packages!LocksFor(c) = <<"gauge">>
    BY <1>1 DEF Packages!LocksFor
  <2> QED
    BY <2>1
<1>2. CASE c # "linear"
  <2>1. Packages!LocksFor(c) = <<"gsd", "gauge">>
    BY <1>2 DEF Packages!LocksFor
  <2> QED
    BY <2>1
<1> QED
  BY <1>1, <1>2

LEMMA PackagesInitHolds ==
  ASSUME Packages!PackagesAssumption, Packages!BuildInit
  PROVE  Packages!PackagesInv
<1>1. {} \in Packages!Versions /\ "irq" \in DOMAIN Packages!Candidate
  BY DEF Packages!Versions, Packages!Candidate
<1>2. s1 \subseteq DOMAIN Packages!Candidate
  BY DEF Packages!BuildInit, Packages!PackagesAssumption
<1>3. s2 \in [Packages!Trees ->
                [src : Packages!Versions \cup {Packages!Torn}, log : Packages!Versions,
                 stamp : BOOLEAN, obj : Packages!Versions \cup {Packages!Torn}]]
  BY <1>1 DEF Packages!BuildInit
<1>4. s5 \in [PackageOperators -> BuilderStates]
      /\ \A o \in PackageOperators : s5[o].pc = "idle"
  BY <1>1 DEF Packages!BuildInit, BuilderStates
<1>5. Packages!Typed
  BY <1>2, <1>3, <1>4 DEF Packages!BuildInit, Packages!Typed, BuilderStates
<1>6. \A o \in PackageOperators : Packages!Progress(o)
  BY <1>4 DEF Packages!Progress, Packages!At, Packages!Busy
<1> QED
  BY <1>5, <1>6 DEF Packages!BuildInit, Packages!PackagesInv, Packages!PublishedIsPatched

LEMMA InvGives ==
  ASSUME Packages!PackagesInv
  PROVE  /\ s5 \in [PackageOperators -> BuilderStates]
         /\ s2 \in [Packages!Trees ->
                     [src : Packages!Versions \cup {Packages!Torn}, log : Packages!Versions,
                      stamp : BOOLEAN, obj : Packages!Versions \cup {Packages!Torn}]]
         /\ DOMAIN s3 = Packages!Trees
         /\ \A p \in Packages!Trees : DOMAIN s3[p] = Packages!Versions
         /\ \A o \in PackageOperators : Packages!Progress(o)
  BY DEF Packages!PackagesInv, Packages!Typed, BuilderStates

\* The next step of build(), or the compiler once all are taken.
LEMMA AdvanceHolds ==
  ASSUME Packages!PackagesInv, NEW o \in PackageOperators, Packages!At(o, "apply"),
         Packages!Advance(o), NEW c, c = s5[o].does, NEW n, n = s5[o].n,
         \A k \in 1..n : Packages!Done(c, Packages!StepsOf(c)[k])'
  PROVE  /\ s5' \in [PackageOperators -> BuilderStates]
         /\ \A q \in PackageOperators \ {o} : s5'[q] = s5[q]
         /\ Packages!Progress(o)' /\ s4' = s4
<1>1. c \in DOMAIN Packages!Candidate /\ s5[o].pc = "apply"
      /\ c \in {"irq", "search", "linear"}
  BY InvGives, CandidatesAre DEF BuilderStates, Packages!At
<1>2. /\ n \in DOMAIN Packages!StepsOf(c) /\ s4["gauge"] = o
      /\ DOMAIN Packages!StepsOf(c) = 1..Len(Packages!StepsOf(c))
      /\ Len(Packages!StepsOf(c)) \in Nat /\ 1 \in DOMAIN Packages!StepsOf(c)
  BY <1>1, InvGives, StepsAre DEF Packages!Progress, Packages!At, Packages!Busy
<1>3. s4' = s4
  BY DEF Packages!Advance
<1>4. CASE n = Len(Packages!StepsOf(c))
  <2>1. Moves(o, "compile", 1)
    BY <1>4 DEF Packages!Advance, Moves
  <2>2. /\ s5' \in [PackageOperators -> BuilderStates]
        /\ s5'[o].pc = "compile" /\ s5'[o].n = 1 /\ s5'[o].does = c
        /\ \A q \in PackageOperators \ {o} : s5'[q] = s5[q]
    BY <2>1, InvGives, BuilderMoves DEF Packages!Busy
  <2>3. ASSUME NEW p \in Packages!PackagesOf(c)
        PROVE  /\ s2'[p].src = Packages!Candidate[c].new
               /\ s2'[p].log = Packages!Candidate[c].new
               /\ ~s2'[p].stamp
    <3>1. PICK j, k, m \in DOMAIN Packages!StepsOf(c) :
            /\ Packages!StepsOf(c)[j] = <<"copy", p>>
            /\ Packages!StepsOf(c)[k] = <<"log", p>>
            /\ Packages!StepsOf(c)[m] = <<"stamp", p>>
      BY <1>1, StepsSuffice
    <3>2. /\ Packages!Done(c, Packages!StepsOf(c)[j])'
          /\ Packages!Done(c, Packages!StepsOf(c)[k])'
          /\ Packages!Done(c, Packages!StepsOf(c)[m])'
      BY <1>2, <1>4
    <3> QED
      BY <3>1, <3>2 DEF Packages!Done
  <2>4. 1 \in DOMAIN Packages!Candidate[c].packages
    BY <1>1, CandidatesAre
  <2> QED
    BY <1>2, <1>3, <2>2, <2>3, <2>4 DEF Packages!Progress, Packages!At
<1>5. CASE n # Len(Packages!StepsOf(c))
  <2>1. Moves(o, "apply", n + 1)
    BY <1>5 DEF Packages!Advance, Moves
  <2>2. n + 1 \in Nat /\ n + 1 \in DOMAIN Packages!StepsOf(c) /\ (n + 1) - 1 = n
    BY <1>2, <1>5
  <2>3. /\ s5' \in [PackageOperators -> BuilderStates]
        /\ s5'[o].pc = "apply" /\ s5'[o].n = n + 1 /\ s5'[o].does = c
        /\ \A q \in PackageOperators \ {o} : s5'[q] = s5[q]
    BY <2>1, <2>2, InvGives, BuilderMoves DEF Packages!Busy
  <2> QED
    BY <1>2, <1>3, <2>2, <2>3 DEF Packages!Progress, Packages!At
<1> QED
  BY <1>4, <1>5

\* The steps of build(): each leaves its own mark, and the marks of those before.
LEMMA ApplyHolds ==
  ASSUME Packages!PackagesInv, NEW o \in PackageOperators, Packages!At(o, "apply"),
         Packages!Advance(o), UNCHANGED <<s1, s3, s6>>,
         NEW c, c = s5[o].does, NEW n, n = s5[o].n,
         NEW p \in Packages!Trees,
         \/ /\ Packages!StepsOf(c)[n] = <<"copy", p>>
            /\ s2' = [s2 EXCEPT ![p].src = Packages!Candidate[c].new]
         \/ /\ Packages!StepsOf(c)[n] = <<"log", p>>
            /\ s2' = [s2 EXCEPT ![p].log = Packages!Candidate[c].new]
         \/ /\ Packages!StepsOf(c)[n] = <<"stamp", p>>
            /\ s2' = [s2 EXCEPT ![p].stamp = FALSE]
  PROVE  Packages!PackagesInv'
<1> DEFINE T == [src : Packages!Versions \cup {Packages!Torn}, log : Packages!Versions,
                 stamp : BOOLEAN, obj : Packages!Versions \cup {Packages!Torn}]
<1>1. /\ c \in DOMAIN Packages!Candidate /\ s5[o].pc = "apply"
      /\ c \in {"irq", "search", "linear"}
      /\ Packages!Candidate[c].new \in Packages!Versions
  BY InvGives, CandidatesAre DEF BuilderStates, Packages!At
<1>2. /\ n \in DOMAIN Packages!StepsOf(c)
      /\ \A k \in 1..(n - 1) : Packages!Done(c, Packages!StepsOf(c)[k])
      /\ DOMAIN Packages!StepsOf(c) = 1..Len(Packages!StepsOf(c))
      /\ Len(Packages!StepsOf(c)) \in Nat
  BY <1>1, InvGives, StepsAre DEF Packages!Progress, Packages!At
<1>3. s2 \in [Packages!Trees -> T] /\ s2[p] \in T /\ p \in DOMAIN s2
  BY InvGives
<1>4. s2' \in [Packages!Trees -> T]
  <2>1. CASE s2' = [s2 EXCEPT ![p].src = Packages!Candidate[c].new]
    BY <1>1, <1>3, <2>1
  <2>2. CASE s2' = [s2 EXCEPT ![p].log = Packages!Candidate[c].new]
    BY <1>1, <1>3, <2>2
  <2>3. CASE s2' = [s2 EXCEPT ![p].stamp = FALSE]
    BY <1>1, <1>3, <2>3
  <2> QED
    BY <2>1, <2>2, <2>3
<1>5. ASSUME NEW k \in 1..(n - 1)
      PROVE  Packages!Done(c, Packages!StepsOf(c)[k])'
  <2>1. k \in DOMAIN Packages!StepsOf(c) /\ Packages!Done(c, Packages!StepsOf(c)[k])
    BY <1>2
  <2>2. \/ Packages!StepsOf(c)[k] = <<"verify", "all">>
        \/ /\ Packages!StepsOf(c)[k][1] \in {"copy", "log", "stamp"}
           /\ Packages!StepsOf(c)[k][2] \in Packages!Trees
    BY <1>1, <2>1, StepsAre
  <2>3. Packages!Typed
    BY DEF Packages!PackagesInv
  <2> QED
    BY <2>1, <2>2, <2>3, DoneStays
<1>6. Packages!Done(c, Packages!StepsOf(c)[n])'
  <2>1. \/ s2'[p].src = Packages!Candidate[c].new /\ Packages!StepsOf(c)[n] = <<"copy", p>>
        \/ s2'[p].log = Packages!Candidate[c].new /\ Packages!StepsOf(c)[n] = <<"log", p>>
        \/ ~s2'[p].stamp /\ Packages!StepsOf(c)[n] = <<"stamp", p>>
    BY <1>3
  <2>2. CASE s2'[p].src = Packages!Candidate[c].new /\ Packages!StepsOf(c)[n] = <<"copy",
        p>>
    <3>1. Packages!StepsOf(c)[n][1] = "copy" /\ Packages!StepsOf(c)[n][2] = p
      BY <2>2
    <3> QED
      BY ONLY <2>2, <3>1 DEF Packages!Done
  <2>3. CASE s2'[p].log = Packages!Candidate[c].new /\ Packages!StepsOf(c)[n] = <<"log", p>>
    <3>1. Packages!StepsOf(c)[n][1] = "log" /\ Packages!StepsOf(c)[n][2] = p
      BY <2>3
    <3> QED
      BY ONLY <2>3, <3>1 DEF Packages!Done
  <2>4. CASE ~s2'[p].stamp /\ Packages!StepsOf(c)[n] = <<"stamp", p>>
    <3>1. Packages!StepsOf(c)[n][1] = "stamp" /\ Packages!StepsOf(c)[n][2] = p
      BY <2>4
    <3> QED
      BY ONLY <2>4, <3>1 DEF Packages!Done
  <2> QED
    BY <2>1, <2>2, <2>3, <2>4
<1>7. \A k \in 1..n : Packages!Done(c, Packages!StepsOf(c)[k])'
  BY <1>2, <1>5, <1>6
<1>8. /\ s5' \in [PackageOperators -> BuilderStates]
      /\ \A q \in PackageOperators \ {o} : s5'[q] = s5[q]
      /\ Packages!Progress(o)' /\ s4' = s4
  BY <1>7, AdvanceHolds
<1> QED
  BY <1>1, <1>4, <1>8, InvGives, TurnHolds DEF Packages!Busy

LEMMA TakeLockHolds ==
  ASSUME Packages!PackagesAssumption, Packages!PackagesInv, NEW o \in PackageOperators,
         Packages!TakeLock(o), UNCHANGED s1
  PROVE  Packages!PackagesInv'
<1> DEFINE c == s5[o].does
           n == s5[o].n
           locks == Packages!LocksFor(c)
           l == locks[n]
<1>1. /\ UNCHANGED <<s2, s3, s6>> /\ s5[o].pc = "lock"
      /\ IF s4[l] # "free" THEN Packages!Exit(o)
         ELSE /\ s4' = [s4 EXCEPT ![l] = o]
              /\ Moves(o, IF n = Len(locks) THEN "inside" ELSE "lock",
                          IF n = Len(locks) THEN 1 ELSE n + 1)
  BY DEF Packages!TakeLock, Packages!At, Moves
<1>2. /\ n \in DOMAIN locks /\ n \in Nat /\ l \in {"gsd", "gauge"}
      /\ n = Len(locks) => l = "gauge"
      /\ n # Len(locks) => n + 1 \in DOMAIN locks
  <2>1. n \in DOMAIN locks
    BY <1>1, InvGives DEF Packages!Progress, Packages!At
  <2> QED
    BY <2>1, LocksAre
<1>3. CASE s4[l] # "free"
  <2>1. /\ Packages!Exit(o) /\ s6' \in [DOMAIN Packages!Candidate -> BOOLEAN]
        /\ Packages!PublishedIsPatched'
    BY <1>1, <1>3 DEF Packages!PackagesInv, Packages!Typed, Packages!PublishedIsPatched
  <2> QED
    BY <1>1, <2>1, InvGives, AttemptExitHolds
<1>4. CASE s4[l] = "free"
  <2> DEFINE pc == IF n = Len(locks) THEN "inside" ELSE "lock"
             k == IF n = Len(locks) THEN 1 ELSE n + 1
  <2>1. s4' = [s4 EXCEPT ![l] = o] /\ Moves(o, pc, k)
    BY <1>1, <1>4
  <2>2. pc \in {"idle", "lock"} \cup Packages!Busy /\ k \in Nat
    BY <1>2 DEF Packages!Busy
  <2>3. /\ s5' \in [PackageOperators -> BuilderStates]
        /\ s5'[o].pc = pc /\ s5'[o].n = k /\ s5'[o].does = c
        /\ \A q \in PackageOperators \ {o} : s5'[q] = s5[q]
    <3> HIDE DEF pc, k
    <3> QED
      BY <2>1, <2>2, InvGives, BuilderMoves
  <2>4. DOMAIN s4 = {"gsd", "gauge"}
    BY DEF Packages!PackagesInv, Packages!Typed
  <2>5. /\ DOMAIN s4' = {"gsd", "gauge"} /\ s4'[l] = o
        /\ \A q \in PackageOperators \ {o} : s4["gauge"] = q => s4'["gauge"] = q
    BY <1>2, <1>4, <2>1, <2>4 DEF Packages!PackagesAssumption
  <2>6. \A q \in PackageOperators \ {o} : Packages!Progress(q)'
    BY <1>1, <2>3, <2>5, OthersKeep
  <2>7. Packages!Progress(o)'
    <3>1. CASE n = Len(locks)
      BY <1>2, <2>3, <2>5, <3>1 DEF Packages!Progress, Packages!At
    <3>2. CASE n # Len(locks)
      BY <1>2, <2>3, <3>2 DEF Packages!Progress, Packages!At, Packages!Busy
    <3> QED
      BY <3>1, <3>2
  <2>8. Packages!Typed'
    BY <1>1, <2>3, <2>5 DEF Packages!PackagesInv, Packages!Typed, BuilderStates
  <2>9. Packages!PublishedIsPatched'
    BY <1>1 DEF Packages!PackagesInv, Packages!PublishedIsPatched
  <2> QED
    BY <1>1, <2>6, <2>7, <2>8, <2>9 DEF Packages!PackagesInv
<1> QED
  BY <1>3, <1>4

LEMMA CompileHolds ==
  ASSUME Packages!PackagesInv, NEW o \in PackageOperators, Packages!Compile(o), UNCHANGED s1
  PROVE  Packages!PackagesInv'
<1> DEFINE c == s5[o].does
           n == s5[o].n
           p == Packages!Candidate[c].packages[n]
           new == Packages!Candidate[c].new
           T == [src : Packages!Versions \cup {Packages!Torn}, log : Packages!Versions,
                 stamp : BOOLEAN, obj : Packages!Versions \cup {Packages!Torn}]
<1>1. s5[o].pc = "compile" /\ c \in DOMAIN Packages!Candidate /\ s5[o].pc \in Packages!Busy
  BY InvGives DEF BuilderStates, Packages!Compile, Packages!At, Packages!Busy
<1>2. /\ n \in DOMAIN Packages!Candidate[c].packages /\ s4["gauge"] = o
      /\ \A q \in Packages!PackagesOf(c) :
           /\ s2[q].src = new /\ s2[q].log = new
           /\ s2[q].stamp => s2[q].obj = new
  BY <1>1, InvGives DEF Packages!Progress, Packages!At
<1>3. /\ p \in Packages!PackagesOf(c) /\ Packages!PackagesOf(c) \subseteq Packages!Trees
      /\ n \in Nat /\ new \in Packages!Versions
      /\ 1 \in DOMAIN Packages!Candidate[c].packages
      /\ n # Len(Packages!Candidate[c].packages) =>
           n + 1 \in DOMAIN Packages!Candidate[c].packages
  BY <1>1, <1>2, CandidatesAre
<1>4. p \in Packages!Trees /\ s2[p].src = new /\ s2[p].log = new
      /\ (s2[p].stamp => s2[p].obj = new) /\ s2[p] \in T
  BY <1>2, <1>3, InvGives
<1>5. CASE /\ s2' = [s2 EXCEPT ![p].obj = s2[p].src, ![p].stamp = TRUE]
           /\ UNCHANGED <<s3, s4, s5, s6>>
  <2> DEFINE first == [s2[p] EXCEPT !.obj = new]
             value == [first EXCEPT !.stamp = TRUE]
  <2>1. first \in T /\ first.src = new /\ first.log = new /\ first.obj = new
    BY <1>3, <1>4
  <2>2. value \in T /\ value.src = new /\ value.log = new /\ value.obj = new
    <3> HIDE DEF first
    <3> QED
      BY <2>1
  <2>3. s2' = [s2 EXCEPT ![p] = value]
    BY <1>4, <1>5
  <2> HIDE DEF value
  <2>4. s2' \in [Packages!Trees -> T] /\ s2'[p] = value
        /\ \A q \in Packages!Trees \ {p} : s2'[q] = s2[q]
    BY <1>4, <2>2, <2>3, InvGives
  <2>5. \A q \in Packages!PackagesOf(c) :
          /\ s2'[q].src = new /\ s2'[q].log = new
          /\ s2'[q].stamp => s2'[q].obj = new
    BY <1>2, <1>3, <2>2, <2>4
  <2>6. s5' = s5 /\ s4' = s4
    BY <1>5
  <2> HIDE DEF p, new, T
  <2>7. Packages!Progress(o)'
    BY <1>1, <1>2, <2>5, <2>6 DEF Packages!Progress, Packages!At, new
  <2>8. \A q \in Packages!Trees, v \in Packages!Versions : s3'[q][v] \in {v, s3[q][v]}
    BY <1>5
  <2> QED
    BY <1>1, <1>5, <2>4, <2>7, <2>8, InvGives, TurnHolds DEF T
<1>6. CASE /\ s2[p].stamp /\ s3' = [s3 EXCEPT ![p][s2[p].log] = s2[p].obj]
           /\ Moves(o,
                IF n = Len(Packages!Candidate[c].packages) THEN "check" ELSE "compile",
                       IF n = Len(Packages!Candidate[c].packages) THEN 1 ELSE n + 1)
           /\ UNCHANGED <<s2, s4, s6>>
  <2> DEFINE pc == IF n = Len(Packages!Candidate[c].packages) THEN "check" ELSE "compile"
             k == IF n = Len(Packages!Candidate[c].packages) THEN 1 ELSE n + 1
  <2>1. s3' = [s3 EXCEPT ![p][new] = new]
    BY <1>4, <1>6
  <2>2. /\ DOMAIN s3' = Packages!Trees
        /\ \A q \in Packages!Trees : DOMAIN s3'[q] = Packages!Versions
        /\ \A q \in Packages!Trees, v \in Packages!Versions : s3'[q][v] \in {v, s3[q][v]}
    <3> HIDE DEF p, new
    <3> QED
      BY <1>3, <1>4, <2>1, InvGives
  <2>3. pc \in {"check", "compile"} /\ k \in Nat
        /\ (pc = "compile" => k \in DOMAIN Packages!Candidate[c].packages)
    BY <1>3
  <2>4. Moves(o, pc, k)
    BY <1>6
  <2> HIDE DEF pc, k
  <2>5. /\ s5' \in [PackageOperators -> BuilderStates]
        /\ s5'[o].pc = pc /\ s5'[o].n = k /\ s5'[o].does = c
        /\ \A q \in PackageOperators \ {o} : s5'[q] = s5[q]
    BY <2>3, <2>4, InvGives, BuilderMoves DEF Packages!Busy
  <2>6. Packages!Progress(o)'
    BY <1>2, <1>6, <2>3, <2>5 DEF Packages!Progress, Packages!At
  <2> QED
    BY <1>6, <2>2, <2>5, <2>6, InvGives, TurnHolds
<1>7. CASE Packages!Exit(o) /\ UNCHANGED <<s2, s3, s6>>
  <2>1. /\ s6' \in [DOMAIN Packages!Candidate -> BOOLEAN]
        /\ Packages!PublishedIsPatched'
    BY <1>7 DEF Packages!PackagesInv, Packages!Typed, Packages!PublishedIsPatched
  <2> QED
    BY <1>7, <2>1, InvGives, AttemptExitHolds
<1> QED
  BY <1>5, <1>6, <1>7 DEF Packages!Compile, Packages!Run, Moves

LEMMA CheckHolds ==
  ASSUME Packages!PackagesInv, NEW o \in PackageOperators, Packages!Check(o), UNCHANGED s1
  PROVE  Packages!PackagesInv'
<1> DEFINE c == s5[o].does
<1>1. /\ Packages!Exit(o) /\ UNCHANGED <<s2, s3>>
      /\ \/ UNCHANGED s6
         \/ /\ \A p \in Packages!PackagesOf(c) :
                 s3[p][Packages!Candidate[c].new] # Packages!Missing
            /\ s6' = [s6 EXCEPT ![c] = TRUE]
  BY DEF Packages!Check, Packages!Run
<1>2. c \in DOMAIN Packages!Candidate /\ s6 \in [DOMAIN Packages!Candidate -> BOOLEAN]
  BY InvGives DEF BuilderStates, Packages!PackagesInv, Packages!Typed
<1>3. s6' \in [DOMAIN Packages!Candidate -> BOOLEAN]
  BY <1>1, <1>2
<1>4. Packages!PublishedIsPatched'
  <2> SUFFICES ASSUME NEW d \in DOMAIN Packages!Candidate, s6'[d],
                      NEW p \in Packages!PackagesOf(d)
               PROVE  s3[p][Packages!Candidate[d].new] = Packages!Candidate[d].new
    BY <1>1 DEF Packages!PublishedIsPatched
  <2>1. CASE s6[d]
    BY <2>1 DEF Packages!PackagesInv, Packages!PublishedIsPatched
  <2>2. CASE ~s6[d]
    <3>1. d = c /\ s3[p][Packages!Candidate[d].new] # Packages!Missing
      BY <1>1, <1>2, <2>2
    <3>2. p \in Packages!Trees /\ Packages!Candidate[d].new \in Packages!Versions
      BY CandidatesAre
    <3> QED
      BY <3>1, <3>2 DEF Packages!PackagesInv
  <2> QED
    BY <2>1, <2>2
<1> QED
  BY <1>1, <1>3, <1>4, InvGives, AttemptExitHolds

LEMMA PackagesStepHolds ==
  ASSUME Packages!PackagesAssumption, Packages!PackagesInv, [Packages!BuildNext]_slots
  PROVE  Packages!PackagesInv'
<1>1. CASE UNCHANGED slots
  BY <1>1 DEF slots, Packages!PackagesInv, Packages!Typed, Packages!Progress, Packages!At,
              Packages!Done, Packages!PublishedIsPatched
<1>2. CASE Packages!BuildNext
  <2>1. UNCHANGED s1 /\ s1 \subseteq DOMAIN Packages!Candidate
    BY <1>2 DEF Packages!BuildNext, Packages!PackagesInv, Packages!Typed
  <2>2. UNCHANGED s6 => /\ s6' \in [DOMAIN Packages!Candidate -> BOOLEAN]
                        /\ UNCHANGED s3 => Packages!PublishedIsPatched'
    BY DEF Packages!PackagesInv, Packages!Typed, Packages!PublishedIsPatched
  <2>3. UNCHANGED s3 =>
          \A p \in Packages!Trees, v \in Packages!Versions : s3'[p][v] \in {v, s3[p][v]}
    OBVIOUS
  <2>4. ASSUME NEW o \in PackageOperators, NEW c \in s1, Packages!Preflight(o, c)
        PROVE  Packages!PackagesInv'
    <3> DEFINE value == [pc |-> "lock", does |-> c, n |-> 1]
    <3>1. s5' = [s5 EXCEPT ![o] = value] /\ UNCHANGED <<s2, s3, s4, s6>>
      BY <2>4 DEF Packages!Preflight
    <3>2. value \in BuilderStates
      BY <2>1 DEF BuilderStates
    <3>3. value.pc = "lock" /\ value.n = 1
      OBVIOUS
    <3> HIDE DEF value
    <3>4. /\ s5' \in [PackageOperators -> BuilderStates] /\ s5'[o] = value
          /\ \A q \in PackageOperators \ {o} : s5'[q] = s5[q]
      BY <3>1, <3>2, InvGives
    <3>5. Packages!Progress(o)'
      BY <3>3, <3>4, LocksAre DEF Packages!Progress, Packages!At, Packages!Busy
    <3> QED
      BY <2>1, <2>3, <3>1, <3>4, <3>5, InvGives, TurnHolds
  <2>5. ASSUME NEW o \in PackageOperators, Packages!Inside(o)
        PROVE  Packages!PackagesInv'
    <3> DEFINE c == s5[o].does
    <3>1. UNCHANGED <<s2, s3, s6>> /\ s5[o].pc = "inside"
          /\ (Packages!Exit(o) \/ (Moves(o, "apply", 1) /\ UNCHANGED s4))
      BY <2>5 DEF Packages!Inside, Packages!At, Moves
    <3>2. CASE Packages!Exit(o)
      BY <2>1, <2>2, <3>1, <3>2, InvGives, AttemptExitHolds
    <3>3. CASE Moves(o, "apply", 1) /\ UNCHANGED s4
      <4>1. /\ s5' \in [PackageOperators -> BuilderStates]
            /\ s5'[o].pc = "apply" /\ s5'[o].n = 1 /\ s5'[o].does = c
            /\ \A q \in PackageOperators \ {o} : s5'[q] = s5[q]
        BY <3>3, InvGives, BuilderMoves DEF Packages!Busy
      <4>2. c \in {"irq", "search", "linear"} /\ s4["gauge"] = o
        BY <3>1, InvGives, CandidatesAre DEF BuilderStates, Packages!Progress, Packages!Busy
      <4>3. 1 \in DOMAIN Packages!StepsOf(c) /\ 1..(1 - 1) = {}
        BY <4>2, StepsAre
      <4>4. Packages!Progress(o)'
        BY <3>3, <4>1, <4>2, <4>3 DEF Packages!Progress, Packages!At
      <4> QED
        BY <2>1, <2>3, <3>1, <3>3, <4>1, <4>4, InvGives, TurnHolds
    <3> QED
      BY <3>1, <3>2, <3>3
  <2>6. ASSUME NEW o \in PackageOperators, Packages!CopySource(o)
        PROVE  Packages!PackagesInv'
    <3>1. /\ Packages!At(o, "apply") /\ UNCHANGED <<s3, s6>> /\ s5[o].pc \in Packages!Busy
      BY <2>6 DEF Packages!CopySource, Packages!At, Packages!Busy
    <3>2. PICK p \in Packages!Trees :
            /\ Packages!StepsOf(s5[o].does)[s5[o].n] = <<"copy", p>>
            /\ \/ /\ s2' = [s2 EXCEPT ![p].src = Packages!Candidate[s5[o].does].new]
                  /\ Packages!Advance(o)
               \/ s2' = [s2 EXCEPT ![p].src = Packages!Torn] /\ Packages!Exit(o)
      BY <2>6 DEF Packages!CopySource, Packages!Step, Packages!Run
    <3>3. CASE /\ s2' = [s2 EXCEPT ![p].src = Packages!Candidate[s5[o].does].new]
               /\ Packages!Advance(o)
      BY <2>1, <3>1, <3>2, <3>3, ApplyHolds
    <3>4. CASE s2' = [s2 EXCEPT ![p].src = Packages!Torn] /\ Packages!Exit(o)
      <4>1. s2' \in [Packages!Trees ->
                [src : Packages!Versions \cup {Packages!Torn}, log : Packages!Versions,
                 stamp : BOOLEAN, obj : Packages!Versions \cup {Packages!Torn}]]
        BY <3>4, InvGives
      <4> QED
        BY <2>1, <2>2, <3>1, <3>4, <4>1, AttemptExitHolds
    <3> QED
      BY <3>2, <3>3, <3>4
  <2>7. ASSUME NEW o \in PackageOperators, Packages!Changelog(o)
        PROVE  Packages!PackagesInv'
    <3>1. PICK p \in Packages!Trees :
            /\ Packages!StepsOf(s5[o].does)[s5[o].n] = <<"log", p>>
            /\ s2' = [s2 EXCEPT ![p].log = Packages!Candidate[s5[o].does].new]
      BY <2>7 DEF Packages!Changelog, Packages!Step, Packages!Run
    <3>2. Packages!At(o, "apply") /\ Packages!Advance(o) /\ UNCHANGED <<s3, s6>>
      BY <2>7 DEF Packages!Changelog
    <3> QED
      BY <2>1, <3>1, <3>2, ApplyHolds
  <2>8. ASSUME NEW o \in PackageOperators, Packages!RemoveStamp(o)
        PROVE  Packages!PackagesInv'
    <3>1. PICK p \in Packages!Trees :
            /\ Packages!StepsOf(s5[o].does)[s5[o].n] = <<"stamp", p>>
            /\ s2' = [s2 EXCEPT ![p].stamp = FALSE]
      BY <2>8 DEF Packages!RemoveStamp, Packages!Step
    <3>2. Packages!At(o, "apply") /\ Packages!Advance(o) /\ UNCHANGED <<s3, s6>>
      BY <2>8 DEF Packages!RemoveStamp
    <3> QED
      BY <2>1, <3>1, <3>2, ApplyHolds
  <2>9. ASSUME NEW o \in PackageOperators, Packages!VerifyApplied(o)
        PROVE  Packages!PackagesInv'
    <3>1. /\ Packages!At(o, "apply") /\ UNCHANGED <<s2, s3, s6>>
          /\ Packages!StepsOf(s5[o].does)[s5[o].n] = <<"verify", "all">>
          /\ Packages!Advance(o) \/ Packages!Exit(o)
      BY <2>9 DEF Packages!VerifyApplied, Packages!Step
    <3>2. CASE Packages!Exit(o)
      BY <2>1, <2>2, <3>1, <3>2, InvGives, AttemptExitHolds
    <3>3. CASE Packages!Advance(o)
      <4> DEFINE c == s5[o].does
                 n == s5[o].n
      <4>1. /\ n \in DOMAIN Packages!StepsOf(c) /\ c \in {"irq", "search", "linear"}
            /\ \A k \in 1..(n - 1) : Packages!Done(c, Packages!StepsOf(c)[k])
        BY <3>1, InvGives, CandidatesAre DEF BuilderStates, Packages!Progress, Packages!At
      <4>2. n \in Nat
        BY <4>1, StepsAre
      <4>3. Packages!Done(c, Packages!StepsOf(c)[n])
        BY <3>1 DEF Packages!Done
      <4>4. \A k \in 1..n : Packages!Done(c, Packages!StepsOf(c)[k])
        BY <4>1, <4>2, <4>3
      <4>5. ASSUME NEW d, d = c, NEW m, m = n
            PROVE  \A k \in 1..m : Packages!Done(d, Packages!StepsOf(d)[k])'
        BY <3>1, <4>4, <4>5 DEF Packages!Done
      <4>6. /\ s5' \in [PackageOperators -> BuilderStates]
            /\ \A q \in PackageOperators \ {o} : s5'[q] = s5[q]
            /\ Packages!Progress(o)' /\ s4' = s4
        BY <3>1, <3>3, <4>5, AdvanceHolds
      <4> QED
        BY <2>1, <2>3, <3>1, <4>6, InvGives, TurnHolds
    <3> QED
      BY <3>1, <3>2, <3>3
  <2>10. ASSUME NEW o \in PackageOperators, Packages!Stopped(o)
         PROVE  Packages!PackagesInv'
    BY <2>1, <2>2, <2>10, InvGives, AttemptExitHolds DEF Packages!Stopped
  <2> QED
    BY <1>2, <2>1, <2>4, <2>5, <2>6, <2>7, <2>8, <2>9, <2>10, TakeLockHolds, CompileHolds,
       CheckHolds DEF Packages!BuildNext
<1> QED
  BY <1>1, <1>2

LEMMA PackagesMean ==
  ASSUME Packages!PackagesInv
  PROVE  Packages!PublishedIsPatched
  BY DEF Packages!PackagesInv

-----------------------------------------------------------------------------
(* The closure of the base system: s1 the mirror, s2 the indexes, s3 the program, s4 the  *)
(* plan, s5 the rows, s6 the cache, s7 the lock.                                          *)

\* What is needed by a name of a closure is in it.
LEMMA ClosureNeeds ==
  ASSUME s2 \in Closure!Indexes, NEW from, NEW n \in Closure!Closure(from)
  PROVE  s2[n].needs \subseteq Closure!Closure(from)
<1> SUFFICES ASSUME NEW m \in s2[n].needs
             PROVE  m \in Closure!Closure(from)
  OBVIOUS
<1>1. n \in PackageNames /\ m \in PackageNames
  BY DEF Closure!Closure, Closure!Indexes
<1>2. ASSUME NEW s \in SUBSET PackageNames, from \subseteq s, Closure!HasNeeds(s)
      PROVE  m \in s
  <2>1. n \in s
    BY <1>2 DEF Closure!Closure
  <2> QED
    BY <1>2, <2>1 DEF Closure!HasNeeds
<1> QED
  BY <1>1, <1>2 DEF Closure!Closure

LEMMA ResolutionIsClosed ==
  ASSUME s2 \in Closure!Indexes, NEW from, NEW r \in Closure!Resolve(from)
  PROVE  s2[r.name].needs \subseteq Closure!NamesIn(Closure!Resolve(from))
<1>1. PICK n \in Closure!Closure(from) : r = [name |-> n, version |-> s2[n].version]
  BY DEF Closure!Resolve
<1>2. s2[r.name].needs \subseteq Closure!Closure(from)
  BY <1>1, ClosureNeeds
<1>3. \A m \in Closure!Closure(from) : m \in Closure!NamesIn(Closure!Resolve(from))
  <2> SUFFICES ASSUME NEW m \in Closure!Closure(from)
               PROVE  \E t \in Closure!Resolve(from) : m = t.name
    BY DEF Closure!NamesIn
  <2>1. [name |-> m, version |-> s2[m].version] \in Closure!Resolve(from)
    BY DEF Closure!Resolve
  <2> QED
    BY <2>1
<1> QED
  BY <1>2, <1>3

LEMMA ClosureInitHolds ==
  ASSUME Closure!M0Init
  PROVE  Closure!M0Inv
<1>1. \A o \in Closure!Offers : o \in [version : Nat, needs : SUBSET PackageNames]
  BY DEF Closure!Offers
<1>2. s1 \in Closure!Indexes
  BY <1>1 DEF Closure!M0Init, Closure!Indexes
<1>3. s2 \in Closure!Indexes
  BY DEF Closure!M0Init, Closure!NoLists, Closure!Indexes
<1> QED
  BY <1>2, <1>3 DEF Closure!M0Init, Closure!M0Inv, Closure!LockIsWhole

LEMMA ClosureStepHolds ==
  ASSUME Closure!M0Inv, [Closure!M0Next]_slots
  PROVE  Closure!M0Inv'
<1> USE DEF Closure!M0Inv
<1>1. CASE UNCHANGED slots
  BY <1>1 DEF slots, Closure!Whole, Closure!NamesIn, Closure!LockIsWhole
<1>2. CASE Closure!Update
  BY <1>2 DEF Closure!Update, Closure!Stop, Closure!LockIsWhole
<1>3. CASE Closure!Plan
  <2>1. /\ s4' = Closure!Resolve(DirectRoots) /\ s3' = "metadata" /\ s3 = "plan"
        /\ UNCHANGED <<s1, s2, s5, s6, s7>>
    BY <1>3 DEF Closure!Plan
  <2>2. \A r \in s4' : s2[r.name].needs \subseteq Closure!NamesIn(s4)'
    BY <2>1, ResolutionIsClosed DEF Closure!NamesIn
  <2> QED
    BY <2>1, <2>2 DEF Closure!LockIsWhole
<1>4. CASE Closure!Metadata
  <2>1. UNCHANGED <<s1, s2, s4, s6, s7>> /\ s3 = "metadata"
    BY <1>4 DEF Closure!Metadata
  <2>2. CASE Closure!NamesIn(s4) \cap ForbiddenNames = {}
             /\ DirectRoots \subseteq Closure!NamesIn(s4)
    <3>1. s5' = s4 /\ s3' = "candidate"
      BY <1>4, <2>2 DEF Closure!Metadata
    <3>2. Closure!Whole(s5)'
      BY <2>1, <2>2, <3>1 DEF Closure!Whole, Closure!NamesIn
    <3> QED
      BY <2>1, <3>1, <3>2 DEF Closure!LockIsWhole
  <2>3. CASE ~(Closure!NamesIn(s4) \cap ForbiddenNames = {}
               /\ DirectRoots \subseteq Closure!NamesIn(s4))
    BY <1>4, <2>1, <2>3 DEF Closure!Metadata, Closure!Stop, Closure!LockIsWhole
  <2> QED
    BY <2>2, <2>3
<1>5. CASE Closure!ExactPlan
  <2>1. /\ UNCHANGED <<s1, s2, s4, s5, s6, s7>> /\ s3 = "candidate"
        /\ s3' \in {"stopped", "download"}
    BY <1>5 DEF Closure!ExactPlan, Closure!Stop
  <2> QED
    BY <2>1 DEF Closure!Whole, Closure!NamesIn, Closure!LockIsWhole
<1>6. CASE Closure!Download
  <2>1. /\ UNCHANGED <<s1, s2, s4, s5, s7>> /\ s3 = "download"
        /\ s3' \in {"stopped", "verify"}
    BY <1>6 DEF Closure!Download, Closure!Stop
  <2> QED
    BY <2>1 DEF Closure!Whole, Closure!NamesIn, Closure!LockIsWhole
<1>7. CASE Closure!Verify
  <2>1. UNCHANGED <<s1, s2, s4, s5, s6>> /\ s3 = "verify"
    BY <1>7 DEF Closure!Verify
  <2>2. CASE Closure!Good
    <3>1. s7' = s5 /\ s3' = "locked"
      BY <1>7, <2>2 DEF Closure!Verify
    <3>2. Closure!LockIsWhole'
      BY <2>1, <2>2, <3>1 DEF Closure!LockIsWhole, Closure!Whole, Closure!NamesIn,
                              Closure!Good
    <3> QED
      BY <2>1, <3>1, <3>2
  <2>3. CASE ~Closure!Good
    BY <1>7, <2>1, <2>3 DEF Closure!Verify, Closure!Stop, Closure!LockIsWhole
  <2> QED
    BY <2>2, <2>3
<1>8. CASE Closure!Publishes
  <2>1. UNCHANGED <<s2, s3, s4, s5, s6, s7>>
    BY <1>8 DEF Closure!Publishes
  <2>2. s1' \in Closure!Indexes
    <3>1. PICK n \in PackageNames, o \in Closure!Offers : s1' = [s1 EXCEPT ![n] = o]
      BY <1>8 DEF Closure!Publishes
    <3>2. o \in [version : Nat, needs : SUBSET PackageNames]
      BY DEF Closure!Offers
    <3> QED
      BY <3>1, <3>2 DEF Closure!Indexes
  <2> QED
    BY <2>1, <2>2 DEF Closure!Whole, Closure!NamesIn, Closure!LockIsWhole
<1> QED
  BY <1>1, <1>2, <1>3, <1>4, <1>5, <1>6, <1>7, <1>8 DEF Closure!M0Next

LEMMA ClosureMeans ==
  ASSUME Closure!M0Inv
  PROVE  Closure!LockIsWhole
  BY DEF Closure!M0Inv

-----------------------------------------------------------------------------
(* The menu's bundle. *)

\* What a container is made of.
BundleBytes(b) ==
  {[at |-> 0]} \cup
  [at : Nat, zip : BOOLEAN, of : {Bundle!Payload(b, name) :
                                    name \in {"mobian/kernel", "linux7/kernel",
                                          "linux7/cmdline"}}]

LEMMA Remainder ==
  ASSUME NEW a \in Nat \ {0}, NEW l \in Int
  PROVE  \E q \in Int : l = a * q + (l % a) /\ l % a \in 0..(a - 1)
<1>1. l = a * (l \div a) + (l % a) /\ l % a \in 0..(a - 1) /\ l \div a \in Int
  OBVIOUS
<1> QED
  BY <1>1

LEMMA Multiple ==
  ASSUME NEW a \in Nat \ {0}, NEW q \in Int
  PROVE  (a * q) % a = 0
  OBVIOUS

\* The next aligned offset.
LEMMA Padding ==
  ASSUME NEW a \in Nat \ {0}, NEW l \in Nat
  PROVE  /\ (-l) % a \in Nat
         /\ (a + (l + ((-l) % a))) % a = 0
<1> DEFINE k == -l
           rest == k % a
<1>1. k \in Int /\ l + k = 0
  OBVIOUS
<1> HIDE DEF k
<1>2. PICK q \in Int : k = a * q + rest /\ rest \in 0..(a - 1)
  BY <1>1, Remainder
<1> HIDE DEF rest
<1>3. a + (l + rest) = a * (1 - q)
  <2>1. l + rest = -(a * q)
    BY <1>1, <1>2
  <2>2. a * (1 - q) = a - a * q
    OBVIOUS
  <2>3. a * q \in Int
    OBVIOUS
  <2> QED
    BY <2>1, <2>2, <2>3
<1>4. (a * (1 - q)) % a = 0
  <2>1. 1 - q \in Int
    OBVIOUS
  <2> QED
    BY <2>1, Multiple
<1>5. rest \in Nat /\ (a + (l + rest)) % a = 0
  BY <1>2, <1>3, <1>4
<1> QED
  BY <1>5 DEF rest, k

LEMMA Stores ==
  ASSUME NEW S, NEW body \in Seq(S), NEW zeros \in Seq(S), NEW bytes \in Seq(S),
         Len(bytes) > 0
  PROVE  /\ (body \o zeros) \o bytes \in Seq(S)
         /\ Len(body \o zeros) = Len(body) + Len(zeros)
         /\ Len((body \o zeros) \o bytes) = Len(body) + Len(zeros) + Len(bytes)
         /\ SubSeq((body \o zeros) \o bytes, Len(body) + Len(zeros) + 1,
                   Len(body) + Len(zeros) + Len(bytes)) = bytes
         /\ \A m, n \in 1..Len(body) :
              SubSeq((body \o zeros) \o bytes, m, n) = SubSeq(body, m, n)
<1> DEFINE start == body \o zeros
<1>1. /\ Len(body) \in Nat /\ Len(zeros) \in Nat /\ Len(bytes) \in Nat
      /\ start \in Seq(S) /\ Len(start) = Len(body) + Len(zeros)
  BY LenProperties, ConcatProperties
<1>2. start \o bytes \in Seq(S) /\ Len(start \o bytes) = Len(start) + Len(bytes)
  BY <1>1, ConcatProperties
<1>3. ASSUME NEW m \in 1..Len(body), NEW n \in 1..Len(body)
      PROVE  SubSeq(start \o bytes, m, n) = SubSeq(body, m, n)
  <2>1. m \in 1..Len(start) /\ n \in 1..Len(start)
    BY <1>1
  <2>2. SubSeq(start \o bytes, m, n) = SubSeq(start, m, n)
    BY <1>1, <2>1, SubSeqOfConcat1
  <2>3. SubSeq(start, m, n) = SubSeq(body, m, n)
    BY SubSeqOfConcat1
  <2> QED
    BY <2>2, <2>3
<1>4. SubSeq(start \o bytes, Len(start) + 1, Len(start) + Len(bytes)) = bytes
  <2> DEFINE m == Len(start) + 1
             n == Len(start) + Len(bytes)
  <2>1. /\ m \in Len(start) + 1 .. Len(start) + Len(bytes)
        /\ n \in Len(start) + 1 .. Len(start) + Len(bytes)
    BY <1>1
  <2>2. SubSeq(start \o bytes, m, n) = SubSeq(bytes, m - Len(start), n - Len(start))
    BY <1>1, <2>1, SubSeqOfConcat2
  <2>3. m - Len(start) = 1 /\ n - Len(start) = Len(bytes)
    BY <1>1
  <2>4. SubSeq(bytes, 1, Len(bytes)) = bytes
    BY SubSeqFull
  <2> QED
    BY <2>2, <2>3, <2>4
<1> QED
  BY <1>1, <1>2, <1>3, <1>4

LEMMA Encoded ==
  ASSUME Bundle!BundleAssumption, Bundle!ShapeInv, NEW b \in BundleRuns,
         NEW name \in {"mobian/kernel", "linux7/kernel", "linux7/cmdline"}
  PROVE  /\ Bundle!Encode(Bundle!Payload(b, name)) \in Seq(BundleBytes(b))
         /\ Len(Bundle!Encode(Bundle!Payload(b, name))) > 0
         /\ Bundle!Payload(b, name).name = name
<1> DEFINE payload == Bundle!Payload(b, name)
<1>1. payload.size \in Nat \ {0} /\ payload.name = name
  <2>1. CASE b # "base" /\ name \in Bundle!Kit
    <3>1. s1[b][name] \in PayloadSizes
      BY <2>1 DEF Bundle!ShapeInv
    <3> QED
      BY <2>1, <3>1 DEF Bundle!Payload, Bundle!BundleAssumption
  <2>2. CASE ~(b # "base" /\ name \in Bundle!Kit)
    BY <2>2 DEF Bundle!Payload
  <2> QED
    BY <2>1, <2>2
<1> DEFINE zip == payload.name \in Bundle!Gzip
           n == payload.size + IF zip THEN 1 ELSE 0
           e(k) == [at |-> k, zip |-> zip, of |-> payload]
<1>2. n \in Nat \ {0}
  BY <1>1
<1>3. \A k \in 1..n : e(k) \in BundleBytes(b)
  BY DEF BundleBytes
<1>4. Bundle!Encode(payload) = [k \in 1..n |-> e(k)]
  BY DEF Bundle!Encode
<1> HIDE DEF n, e, payload
<1>5. [k \in 1..n |-> e(k)] \in Seq(BundleBytes(b)) /\ Len([k \in 1..n |-> e(k)]) = n
  <2>1. [k \in 1..n |-> e(k)] \in Seq(BundleBytes(b))
    BY <1>2, <1>3, IsASeq
  <2> QED
    BY <1>2, <2>1, LenProperties
<1> QED
  BY <1>1, <1>2, <1>4, <1>5 DEF payload

LEMMA Blank ==
  ASSUME NEW b \in BundleRuns, NEW n \in Nat
  PROVE  Bundle!Zeros(n) \in Seq(BundleBytes(b)) /\ Len(Bundle!Zeros(n)) = n
<1> DEFINE e(k) == [at |-> 0]
<1>1. \A k \in 1..n : e(k) \in BundleBytes(b)
  BY DEF BundleBytes
<1>2. Bundle!Zeros(n) = [k \in 1..n |-> e(k)]
  BY DEF Bundle!Zeros
<1> HIDE DEF e
<1>3. [k \in 1..n |-> e(k)] \in Seq(BundleBytes(b))
  BY <1>1, IsASeq
<1> QED
  BY <1>2, <1>3, LenProperties

\* The row of a component put after what is there.
RowAfter(acc, payload) ==
  [name |-> payload.name,
   offset |-> Align + (Len(acc.body) + ((-Len(acc.body)) % Align)),
   length |-> Len(Bundle!Encode(payload)), crc |-> Bundle!Encode(payload)]

LEMMA StoredIs ==
  ASSUME Bundle!BundleAssumption, Bundle!ShapeInv, NEW b \in BundleRuns,
         NEW name \in {"mobian/kernel", "linux7/kernel", "linux7/cmdline"},
         NEW acc, acc.body \in Seq(BundleBytes(b))
  PROVE  LET payload == Bundle!Payload(b, name)
             row == RowAfter(acc, payload)
             out == Bundle!Stored(acc, payload)
         IN  /\ out.body \in Seq(BundleBytes(b)) /\ out.rows = Append(acc.rows, row)
             /\ row.offset \in Int /\ row.length \in Int /\ Len(acc.body) \in Nat
             /\ row.name = name /\ row.crc = Bundle!Encode(payload)
             /\ row.offset >= Align + Len(acc.body) /\ row.offset % Align = 0
             /\ row.length > 0 /\ row.offset + row.length = Align + Len(out.body)
             /\ SubSeq(out.body, row.offset - Align + 1, row.offset - Align + row.length)
                  = Bundle!Encode(payload)
             /\ \A m, n \in 1..Len(acc.body) : SubSeq(out.body, m, n) = SubSeq(acc.body,
                  m, n)
<1> DEFINE payload == Bundle!Payload(b, name)
           bytes == Bundle!Encode(payload)
           pad == (-Len(acc.body)) % Align
           zeros == Bundle!Zeros(pad)
           row == RowAfter(acc, payload)
           out == Bundle!Stored(acc, payload)
<1>1. /\ bytes \in Seq(BundleBytes(b)) /\ Len(bytes) > 0 /\ payload.name = name
  BY Encoded
<1>2. Len(acc.body) \in Nat /\ Len(bytes) \in Nat
  BY <1>1, LenProperties
<1>3. Align \in Nat \ {0}
  BY DEF Bundle!BundleAssumption
<1>4. pad \in Nat /\ (Align + (Len(acc.body) + pad)) % Align = 0
  BY <1>2, <1>3, Padding
<1>5. zeros \in Seq(BundleBytes(b)) /\ Len(zeros) = pad
  BY <1>4, Blank
<1>6. out = [body |-> (acc.body \o zeros) \o bytes,
             rows |-> Append(acc.rows, [name |-> payload.name,
                                        offset |-> Align + Len(acc.body \o zeros),
                                        length |-> Len(bytes), crc |-> bytes])]
  BY DEF Bundle!Stored
<1>7. row = [name |-> payload.name, offset |-> Align + (Len(acc.body) + pad),
             length |-> Len(bytes), crc |-> bytes]
  BY DEF RowAfter
<1> HIDE DEF payload, bytes, pad, zeros, row, out
<1>8. /\ (acc.body \o zeros) \o bytes \in Seq(BundleBytes(b))
      /\ Len(acc.body \o zeros) = Len(acc.body) + pad
      /\ Len((acc.body \o zeros) \o bytes) = Len(acc.body) + pad + Len(bytes)
      /\ SubSeq((acc.body \o zeros) \o bytes, Len(acc.body) + pad + 1,
                Len(acc.body) + pad + Len(bytes)) = bytes
      /\ \A m, n \in 1..Len(acc.body) :
           SubSeq((acc.body \o zeros) \o bytes, m, n) = SubSeq(acc.body, m, n)
  <2> DEFINE body == acc.body
  <2>1. body \in Seq(BundleBytes(b))
    OBVIOUS
  <2> HIDE DEF body
  <2>2. /\ (body \o zeros) \o bytes \in Seq(BundleBytes(b))
        /\ Len(body \o zeros) = Len(body) + Len(zeros)
        /\ Len((body \o zeros) \o bytes) = Len(body) + Len(zeros) + Len(bytes)
        /\ SubSeq((body \o zeros) \o bytes, Len(body) + Len(zeros) + 1,
                  Len(body) + Len(zeros) + Len(bytes)) = bytes
        /\ \A m, n \in 1..Len(body) :
             SubSeq((body \o zeros) \o bytes, m, n) = SubSeq(body, m, n)
    <3>1. Len(bytes) > 0 /\ bytes \in Seq(BundleBytes(b)) /\ zeros \in Seq(BundleBytes(b))
      BY <1>1, <1>5
    <3> QED
      BY ONLY <3>1, <2>1, Stores, SMTT(30)
  <2> QED
    BY <1>5, <2>2 DEF body
<1>9. row.offset - Align + 1 = Len(acc.body) + pad + 1
      /\ row.offset - Align + row.length = Len(acc.body) + pad + Len(bytes)
  BY <1>2, <1>3, <1>4, <1>7
<1>10. out.body = (acc.body \o zeros) \o bytes /\ out.rows = Append(acc.rows, row)
  BY <1>6, <1>7, <1>8
<1>11. /\ row.offset \in Int /\ row.length \in Int /\ row.name = name /\ row.crc = bytes
       /\ row.offset >= Align + Len(acc.body) /\ row.offset % Align = 0
       /\ row.length > 0
       /\ row.offset + row.length = Align + (Len(acc.body) + pad + Len(bytes))
  <2>1. /\ row.offset = Align + (Len(acc.body) + pad) /\ row.length = Len(bytes)
        /\ row.name = name /\ row.crc = bytes
    BY <1>1, <1>7
  <2>2. row.offset % Align = 0
    BY <1>4, <2>1
  <2> DEFINE l == Len(acc.body)
             n == Len(bytes)
  <2>3. l \in Nat /\ n \in Nat /\ n > 0 /\ pad \in Nat /\ Align \in Nat
    BY <1>1, <1>2, <1>3, <1>4
  <2> HIDE DEF l, n
  <2>4. row.offset = Align + (l + pad) /\ row.length = n
    BY <2>1 DEF l, n
  <2>5. /\ row.offset \in Int /\ row.length \in Int /\ row.offset >= Align + l
        /\ row.length > 0 /\ row.offset + row.length = Align + (l + pad + n)
    BY ONLY <2>3, <2>4
  <2> QED
    BY <2>1, <2>2, <2>5 DEF l, n
<1>12. SubSeq(out.body, row.offset - Align + 1, row.offset - Align + row.length) = bytes
  BY <1>8, <1>9, <1>10
<1> QED
  BY <1>2, <1>8, <1>10, <1>11, <1>12 DEF payload, bytes, row, out

LEMMA ThreeRows ==
  ASSUME NEW x, NEW y, NEW z
  PROVE  Append(Append(Append(<<>>, x), y), z) = <<x, y, z>>
<1>1. Append(<<>>, x) = <<x>>
  OBVIOUS
<1> DEFINE S == {x, y, z}
<1>2. /\ <<x>> \in Seq(S) /\ <<x, y>> \in Seq(S) /\ <<x, y, z>> \in Seq(S)
      /\ y \in S /\ z \in S
  OBVIOUS
<1>3. Append(<<x>>, y) = <<x, y>>
  <2>1. /\ Append(<<x>>, y) \in Seq(S) /\ Len(Append(<<x>>, y)) = Len(<<x>>) + 1
        /\ \A i \in 1..Len(<<x>>) : Append(<<x>>, y)[i] = <<x>>[i]
        /\ Append(<<x>>, y)[Len(<<x>>) + 1] = y
    BY <1>2, AppendProperties
  <2> DEFINE left == Append(<<x>>, y)
             right == <<x, y>>
  <2>2. /\ left \in Seq(S) /\ right \in Seq(S) /\ Len(left) = Len(right)
        /\ \A i \in 1..Len(left) : left[i] = right[i]
    BY <1>2, <2>1
  <2> HIDE DEF left, right, S
  <2>3. left = right
    BY <2>2, SeqEqual
  <2> QED
    BY <2>3 DEF left, right
<1>4. Append(<<x, y>>, z) = <<x, y, z>>
  <2>1. /\ Append(<<x, y>>, z) \in Seq(S) /\ Len(Append(<<x, y>>, z)) = Len(<<x, y>>) + 1
        /\ \A i \in 1..Len(<<x, y>>) : Append(<<x, y>>, z)[i] = <<x, y>>[i]
        /\ Append(<<x, y>>, z)[Len(<<x, y>>) + 1] = z
    BY <1>2, AppendProperties
  <2> DEFINE left == Append(<<x, y>>, z)
             right == <<x, y, z>>
  <2>2. /\ left \in Seq(S) /\ right \in Seq(S) /\ Len(left) = Len(right)
        /\ \A i \in 1..Len(left) : left[i] = right[i]
    BY <1>2, <2>1
  <2> HIDE DEF left, right, S
  <2>3. left = right
    BY <2>2, SeqEqual
  <2> QED
    BY <2>3 DEF left, right
<1> QED
  BY <1>1, <1>3, <1>4

\* The loader gets every component out of a container that was built.
LEMMA BuildLoads ==
  ASSUME Bundle!BundleAssumption, Bundle!ShapeInv, NEW b \in BundleRuns
  PROVE  \A i \in DOMAIN Bundle!Components :
           Bundle!Loads(Bundle!Build(b), Bundle!Components[i],
                        Bundle!Encode(Bundle!Payload(b, Bundle!Components[i])))
<1> DEFINE S == BundleBytes(b)
           payload(name) == Bundle!Payload(b, name)
           none == Bundle!NoData
           one == Bundle!Stored(none, payload("mobian/kernel"))
           two == Bundle!Stored(one, payload("linux7/kernel"))
           done == Bundle!Stored(two, payload("linux7/cmdline"))
           r1 == RowAfter(none, payload("mobian/kernel"))
           r2 == RowAfter(one, payload("linux7/kernel"))
           r3 == RowAfter(two, payload("linux7/cmdline"))
           c1 == Bundle!Encode(payload("mobian/kernel"))
           c2 == Bundle!Encode(payload("linux7/kernel"))
           c3 == Bundle!Encode(payload("linux7/cmdline"))
           file == Bundle!Build(b)
<1>1. none.body \in Seq(S) /\ none.body = <<>> /\ none.rows = <<>>
  BY DEF Bundle!NoData
<1>2. Bundle!Components = <<"mobian/kernel", "linux7/kernel", "linux7/cmdline">>
  BY DEF Bundle!Components
<1>3. file = [total |-> Align + Len(done.body), rows |-> done.rows, body |-> done.body]
  BY <1>2 DEF Bundle!Build
<1>4. /\ one.body \in Seq(S) /\ one.rows = Append(none.rows, r1)
      /\ r1.offset \in Int /\ r1.length \in Int /\ Len(none.body) \in Nat
      /\ r1.name = "mobian/kernel" /\ r1.crc = c1
      /\ r1.offset >= Align + Len(none.body) /\ r1.offset % Align = 0
      /\ r1.length > 0 /\ r1.offset + r1.length = Align + Len(one.body)
      /\ SubSeq(one.body, r1.offset - Align + 1, r1.offset - Align + r1.length) = c1
  BY <1>1, StoredIs
<1>5. /\ two.body \in Seq(S) /\ two.rows = Append(one.rows, r2)
      /\ r2.offset \in Int /\ r2.length \in Int /\ Len(one.body) \in Nat
      /\ r2.name = "linux7/kernel" /\ r2.crc = c2
      /\ r2.offset >= Align + Len(one.body) /\ r2.offset % Align = 0
      /\ r2.length > 0 /\ r2.offset + r2.length = Align + Len(two.body)
      /\ SubSeq(two.body, r2.offset - Align + 1, r2.offset - Align + r2.length) = c2
      /\ \A m, n \in 1..Len(one.body) : SubSeq(two.body, m, n) = SubSeq(one.body, m, n)
  BY <1>4, StoredIs
<1>6. /\ done.body \in Seq(S) /\ done.rows = Append(two.rows, r3)
      /\ r3.offset \in Int /\ r3.length \in Int /\ Len(two.body) \in Nat
      /\ r3.name = "linux7/cmdline" /\ r3.crc = c3
      /\ r3.offset >= Align + Len(two.body) /\ r3.offset % Align = 0
      /\ r3.length > 0 /\ r3.offset + r3.length = Align + Len(done.body)
      /\ SubSeq(done.body, r3.offset - Align + 1, r3.offset - Align + r3.length) = c3
      /\ \A m, n \in 1..Len(two.body) : SubSeq(done.body, m, n) = SubSeq(two.body, m, n)
  BY <1>5, StoredIs
<1>7. Align \in Nat \ {0} /\ Len(done.body) \in Nat /\ Len(none.body) = 0
  BY <1>1, <1>6, LenProperties DEF Bundle!BundleAssumption
<1> HIDE DEF S, payload, none, one, two, done, r1, r2, r3, c1, c2, c3, file
<1>8. done.rows = <<r1, r2, r3>>
  <2>1. done.rows = Append(Append(Append(<<>>, r1), r2), r3)
    BY <1>1, <1>4, <1>5, <1>6
  <2> QED
    BY <2>1, ThreeRows
<1> DEFINE l1 == Len(one.body)
           l2 == Len(two.body)
           l3 == Len(done.body)
<1>0. /\ Align \in Nat \ {0} /\ l1 \in Nat /\ l2 \in Nat /\ l3 \in Nat
      /\ r1.offset \in Int /\ r2.offset \in Int /\ r3.offset \in Int
      /\ r1.length \in Int /\ r2.length \in Int /\ r3.length \in Int
      /\ r1.offset >= Align /\ r1.length > 0 /\ r1.offset + r1.length = Align + l1
      /\ r2.offset >= Align + l1 /\ r2.length > 0 /\ r2.offset + r2.length = Align + l2
      /\ r3.offset >= Align + l2 /\ r3.length > 0 /\ r3.offset + r3.length = Align + l3
  <2>1. r1.offset >= Align + Len(none.body) => r1.offset >= Align
    BY <1>7
  <2> QED
    BY <1>4, <1>5, <1>6, <1>7, <2>1
<1> HIDE DEF l1, l2, l3
<1>9. Bundle!Accepted(file)
  <2> DEFINE rows == <<r1, r2, r3>>
  <2>1. /\ file.rows = rows /\ file.total = Align + Len(done.body)
        /\ file.body = done.body
    BY <1>3, <1>8
  <2>2. Len(rows) = 3 /\ DOMAIN rows = {1, 2, 3} /\ Len(Bundle!Components) = 3
        /\ rows[1] = r1 /\ rows[2] = r2 /\ rows[3] = r3
    BY <1>2
  <2> HIDE DEF rows
  <2>3. /\ r1.offset >= Align /\ r1.offset % Align = 0 /\ r1.length > 0
        /\ r1.offset + r1.length <= Align + Len(done.body)
        /\ r2.offset >= r1.offset + r1.length /\ r2.offset % Align = 0 /\ r2.length > 0
        /\ r2.offset + r2.length <= Align + Len(done.body)
        /\ r3.offset >= r2.offset + r2.length /\ r3.offset % Align = 0 /\ r3.length > 0
        /\ r3.offset + r3.length <= Align + Len(done.body)
    <3>1. /\ r1.offset + r1.length <= Align + l3
          /\ r2.offset >= r1.offset + r1.length
          /\ r2.offset + r2.length <= Align + l3
          /\ r3.offset >= r2.offset + r2.length
          /\ r3.offset + r3.length <= Align + l3
      BY ONLY <1>0
    <3> QED
      BY <1>0, <1>4, <1>5, <1>6, <3>1 DEF l3
  <2>4. r1.name # r2.name /\ r1.name # r3.name /\ r2.name # r3.name
    BY <1>4, <1>5, <1>6
  <2>5. /\ \A j \in 1..(1 - 1) : rows[j].name # r1.name
        /\ \A j \in 1..(2 - 1) : rows[j].name # r2.name
        /\ \A j \in 1..(3 - 1) : rows[j].name # r3.name
    BY <2>2, <2>4
  <2> QED
    BY <2>1, <2>2, <2>3, <2>5 DEF Bundle!Accepted
<1>10. /\ SubSeq(done.body, r1.offset - Align + 1, r1.offset - Align + r1.length) = c1
       /\ SubSeq(done.body, r2.offset - Align + 1, r2.offset - Align + r2.length) = c2
  <2> DEFINE m1 == r1.offset - Align + 1
             n1 == r1.offset - Align + r1.length
             m2 == r2.offset - Align + 1
             n2 == r2.offset - Align + r2.length
  <2>1. m1 \in 1..l1 /\ n1 \in 1..l1 /\ m1 \in 1..l2 /\ n1 \in 1..l2
        /\ m2 \in 1..l2 /\ n2 \in 1..l2
    BY ONLY <1>0
  <2>2. SubSeq(done.body, m1, n1) = SubSeq(two.body, m1, n1)
        /\ SubSeq(two.body, m1, n1) = SubSeq(one.body, m1, n1)
        /\ SubSeq(done.body, m2, n2) = SubSeq(two.body, m2, n2)
    BY <1>5, <1>6, <2>1 DEF l1, l2
  <2> QED
    BY <1>4, <1>5, <2>2
<1>11. /\ DOMAIN file.rows = {1, 2, 3} /\ file.body = done.body
       /\ file.rows[1] = r1 /\ file.rows[2] = r2 /\ file.rows[3] = r3
  BY <1>3, <1>8
<1>12. /\ Bundle!Loads(file, "mobian/kernel", c1)
       /\ Bundle!Loads(file, "linux7/kernel", c2)
       /\ Bundle!Loads(file, "linux7/cmdline", c3)
  BY <1>4, <1>5, <1>6, <1>9, <1>10, <1>11 DEF Bundle!Loads, Bundle!Slice
<1> QED
  BY <1>2, <1>12 DEF file, c1, c2, c3, payload

LEMMA BundleInitHolds ==
  ASSUME Bundle!Init
  PROVE  Bundle!BundleInv
  BY DEF Bundle!Init, Bundle!BundleInv, Bundle!ShapeInv, Bundle!PrepareInv,
     Bundle!AcceptedInv, Bundle!ManifestReproduced

\* A container is its run's, and the kits stay as they are.
LEMMA BuildsStay ==
  ASSUME UNCHANGED s1
  PROVE  Bundle!Reference' = Bundle!Reference /\ Bundle!Whole' = Bundle!Whole
<1>1. \A b : Bundle!Build(b)' = Bundle!Build(b)
  <2>1. ASSUME NEW b, NEW name
        PROVE  Bundle!Payload(b, name)' = Bundle!Payload(b, name)
    BY DEF Bundle!Payload
  <2> QED
    BY <2>1 DEF Bundle!Build
<1> QED
  BY <1>1 DEF Bundle!Reference, Bundle!Whole

\* A run of the bundle program.
LEMMA BuildersKeep ==
  ASSUME Bundle!BundleInv, UNCHANGED <<s1, s5, s6>>,
         s4' \in {s4, Bundle!Empty} \cup Bundle!Whole
  PROVE  Bundle!BundleInv'
  BY BuildsStay DEF Bundle!Files, Bundle!BundleInv, Bundle!ShapeInv, Bundle!PrepareInv,
     Bundle!AcceptedInv, Bundle!ManifestReproduced

\* The recipe program.
LEMMA PrepareKeeps ==
  ASSUME Bundle!BundleInv, UNCHANGED <<s1, s4>>,
         \/ Bundle!ReadSha \/ Bundle!CopyTree \/ Bundle!RewriteBuild \/ Bundle!RewritePin
         \/ Bundle!WriteManifest \/ Bundle!KillPrepare
  PROVE  Bundle!BundleInv'
<1> DEFINE Ref == Bundle!Reference
           Row == [bundle |-> Ref.pin, files |-> Ref]
<1>1. /\ Ref' = Ref /\ Bundle!Whole' = Bundle!Whole
      /\ Ref = [build |-> "reference", pin |-> Ref.pin]
  BY BuildsStay DEF Bundle!Reference
<1>2. /\ DOMAIN s5 = {"at", "sha"} /\ DOMAIN s6 = {"build", "pin", "manifest"}
      /\ Bundle!ShapeInv /\ Bundle!PrepareInv /\ Bundle!AcceptedInv
  BY DEF Bundle!BundleInv, Bundle!ShapeInv
<1>3. Bundle!ShapeInv' <=> /\ DOMAIN s5' = {"at", "sha"}
                           /\ DOMAIN s6' = {"build", "pin", "manifest"}
  BY <1>1, <1>2 DEF Bundle!ShapeInv
<1> USE DEF Bundle!PrepareInv, Bundle!AcceptedInv, Bundle!ManifestReproduced, Bundle!Files
<1>4. CASE Bundle!ReadSha
  BY <1>1, <1>2, <1>3, <1>4 DEF Bundle!ReadSha, Bundle!BundleInv
<1>5. CASE Bundle!CopyTree
  BY <1>1, <1>2, <1>3, <1>5 DEF Bundle!CopyTree, Bundle!BundleInv, Bundle!Declared,
     Bundle!ShapeInv
<1>6. CASE Bundle!RewriteBuild
  BY <1>1, <1>2, <1>3, <1>6 DEF Bundle!RewriteBuild, Bundle!BundleInv
<1>7. CASE Bundle!RewritePin
  BY <1>1, <1>2, <1>3, <1>7 DEF Bundle!RewritePin, Bundle!BundleInv
<1>8. CASE Bundle!WriteManifest
  BY <1>1, <1>2, <1>3, <1>8 DEF Bundle!WriteManifest, Bundle!BundleInv
<1>9. CASE Bundle!KillPrepare
  BY <1>1, <1>2, <1>3, <1>9 DEF Bundle!KillPrepare, Bundle!BundleInv
<1> QED
  BY <1>4, <1>5, <1>6, <1>7, <1>8, <1>9

LEMMA BundleStepHolds ==
  ASSUME Bundle!BundleInv, [Bundle!BundleNext]_slots
  PROVE  Bundle!BundleInv'
<1>1. CASE UNCHANGED slots
  BY <1>1, BuildersKeep DEF slots
<1>2. ASSUME NEW b \in BundleRuns,
             \/ Bundle!Assemble(b) \/ Bundle!OpenBin(b) \/ Bundle!WriteBin(b)
             \/ Bundle!WriteRecord(b) \/ Bundle!Reread(b) \/ Bundle!KillBuilder(b)
      PROVE  Bundle!BundleInv'
  <2>1. UNCHANGED <<s1, s5, s6>> /\ s4' \in {s4, Bundle!Empty} \cup {Bundle!Build(b)}
    BY <1>2 DEF Bundle!Assemble, Bundle!OpenBin, Bundle!WriteBin, Bundle!WriteRecord,
       Bundle!Reread, Bundle!KillBuilder
  <2>2. Bundle!Build(b) \in Bundle!Whole
    BY DEF Bundle!Whole
  <2> QED
    BY <2>1, <2>2, BuildersKeep
<1>3. CASE \/ Bundle!ReadSha \/ Bundle!CopyTree \/ Bundle!RewriteBuild
           \/ Bundle!RewritePin \/ Bundle!WriteManifest \/ Bundle!KillPrepare
  <2>1. UNCHANGED <<s1, s4>>
    BY <1>3 DEF Bundle!ReadSha, Bundle!CopyTree, Bundle!RewriteBuild, Bundle!RewritePin,
       Bundle!WriteManifest, Bundle!KillPrepare
  <2> QED
    BY <1>3, <2>1, PrepareKeeps
<1> QED
  BY <1>1, <1>2, <1>3 DEF Bundle!BundleNext

LEMMA BundleMeans ==
  ASSUME Bundle!BundleAssumption, Bundle!BundleInv
  PROVE  Bundle!RecipeIsOneBundle
<1>1. ASSUME NEW b \in BundleRuns, s6.pin = Bundle!Build(b)
      PROVE  \A i \in DOMAIN Bundle!Components :
               Bundle!Loads(s6.pin, Bundle!Components[i],
                            Bundle!Encode(Bundle!Payload(b, Bundle!Components[i])))
  BY <1>1, BuildLoads DEF Bundle!BundleInv
<1> QED
  BY <1>1 DEF Bundle!RecipeIsOneBundle, Bundle!BundleInv, Bundle!AcceptedInv, Bundle!Whole

-----------------------------------------------------------------------------
(* Induction over the natural numbers, of a set of them. *)

\* What holds at 0 and passes from each number to the next holds of all: were `m` the
\* exception, taking one from each exception up to `m` would be an injection of those
\* exceptions into themselves that misses `m`.
LEMMA NatSetInduction ==
  ASSUME NEW S, 0 \in S, \A n \in Nat : n \in S => n + 1 \in S
  PROVE  Nat \subseteq S
<1> SUFFICES ASSUME NEW m \in Nat, m \notin S
             PROVE  FALSE
  OBVIOUS
<1> DEFINE T == (0..m) \ S
           f == [x \in T |-> x - 1]
<1>1. IsFiniteSet(T)
  <2>1. IsFiniteSet(0..m)
    BY FS_Interval
  <2> QED
    BY <2>1, FS_Subset
<1>2. f \in [T -> T]
  <2> SUFFICES ASSUME NEW x \in T
               PROVE  x - 1 \in T
    OBVIOUS
  <2>1. x \in Nat /\ x # 0 /\ x <= m /\ x \notin S
    OBVIOUS
  <2>2. x - 1 \in Nat /\ (x - 1) + 1 = x
    BY <2>1
  <2> QED
    BY <2>1, <2>2
<1>3. f \in Injection(T, T)
  BY <1>2 DEF Injection, IsInjective
<1>4. f \in Surjection(T, T)
  BY <1>1, <1>3, FS_Injection
<1>5. m \in T
  OBVIOUS
<1>6. PICK x \in T : f[x] = m
  BY <1>4, <1>5 DEF Surjection
<1> QED
  BY <1>6

-----------------------------------------------------------------------------
(* The register sampler: s1 the session, s2 the debugfs files, s3 the chip, s4 the names  *)
(* still to try, s5 the file in use, s6 the row.                                          *)

LEMMA LinesAre ==
  ASSUME Regmap!RegmapAssumption, NEW f \in Regmap!Lines
  PROVE  /\ f \in Seq(Addresses) /\ Len(f) \in Nat /\ DOMAIN f = 1..Len(f)
         /\ \A i \in 1..Len(f) : f[i] \in Nat
         /\ \A i, k \in 1..Len(f) : i < k => f[i] < f[k]
<1>1. PICK n \in 0..MaxLines : f \in [1..n -> Addresses]
  BY DEF Regmap!Lines
<1>2. n \in Nat
  BY <1>1 DEF Regmap!RegmapAssumption
<1>3. f \in Seq(Addresses) /\ Len(f) = n /\ DOMAIN f = 1..n
  BY <1>1, <1>2
<1> QED
  BY <1>1, <1>2, <1>3 DEF Regmap!Lines, Regmap!RegmapAssumption

\* The arithmetic of a regular file: the line of an address is where `_offset()` looks.
LEMMA Multiples ==
  ASSUME NEW m \in Nat, NEW s \in Nat \ {0}
  PROVE  (m * s) % s = 0 /\ (m * s) \div s = m
  OBVIOUS

LEMMA OneMore ==
  ASSUME NEW m \in Nat, NEW s \in Nat
  PROVE  (m + 1) * s = m * s + s /\ m * s \in Nat
  OBVIOUS

LEMMA EvenLines ==
  ASSUME NEW f, NEW n \in Nat, n >= 2, NEW step \in Nat \ {0},
         \A i \in 1..n : f[i] \in Nat,
         \A i \in 1..(n - 1) : f[i + 1] - f[i] = step
  PROVE  \A k \in 1..n : f[k] = f[1] + (k - 1) * step
<1> DEFINE S == {m \in Nat : m + 1 <= n => f[m + 1] = f[1] + m * step}
<1>1. 0 \in S
  <2>1. 0 * step = 0 /\ f[1] \in Nat
    OBVIOUS
  <2> QED
    BY <2>1
<1>2. ASSUME NEW m \in Nat, m \in S
      PROVE  m + 1 \in S
  <2> SUFFICES ASSUME (m + 1) + 1 <= n
               PROVE  f[(m + 1) + 1] = f[1] + (m + 1) * step
    OBVIOUS
  <2>1. f[m + 1] = f[1] + m * step
    BY <1>2
  <2>2. m + 1 \in 1..(n - 1) /\ m + 1 \in 1..n /\ (m + 1) + 1 \in 1..n /\ 1 \in 1..n
    OBVIOUS
  <2>3. f[(m + 1) + 1] - f[m + 1] = step
    BY <2>2
  <2>4. (m + 1) * step = m * step + step /\ m * step \in Nat
    BY OneMore
  <2> DEFINE a == m * step
             b == (m + 1) * step
  <2>5. a \in Nat /\ b = a + step /\ f[m + 1] = f[1] + a
    BY <2>1, <2>4
  <2> HIDE DEF a, b
  <2>6. f[(m + 1) + 1] = f[1] + b
    BY <2>2, <2>3, <2>5
  <2> QED
    BY <2>6 DEF b
<1>3. Nat \subseteq S
  <2> HIDE DEF S
  <2> QED
    BY <1>1, <1>2, NatSetInduction
<1> SUFFICES ASSUME NEW k \in 1..n
             PROVE  f[k] = f[1] + (k - 1) * step
  OBVIOUS
<1>4. k - 1 \in Nat /\ (k - 1) + 1 = k /\ k <= n
  OBVIOUS
<1> QED
  BY <1>3, <1>4

LEMMA RegularOffset ==
  ASSUME Regmap!RegmapAssumption, Regmap!Typed, NEW name \in Regmap!Names,
         Regmap!Recognised(name), Regmap!Regular(name),
         NEW k \in DOMAIN s2[name]
  PROVE  Regmap!Offset(name, s2[name][k]) = k
<1> DEFINE f == s2[name]
           n == Len(f)
           step == Regmap!StepOf(name)
<1>1. f \in Regmap!Lines
  BY DEF Regmap!Typed
<1>2. /\ n \in Nat /\ DOMAIN f = 1..n /\ n >= 2
      /\ \A i \in 1..n : f[i] \in Nat
      /\ \A i, j \in 1..n : i < j => f[i] < f[j]
  BY <1>1, LinesAre DEF Regmap!Recognised
<1>3. step = f[2] - f[1] /\ 1 \in 1..n /\ 2 \in 1..n
  BY <1>2 DEF Regmap!StepOf, Regmap!First1
<1>4. step \in Nat \ {0}
  <2>1. f[1] \in Nat /\ f[2] \in Nat /\ f[1] < f[2]
    BY <1>2, <1>3
  <2> HIDE DEF f, n, step
  <2> QED
    BY ONLY <1>3, <2>1
<1>5. \A i \in 1..(n - 1) : f[i + 1] - f[i] = step
  BY DEF Regmap!Regular
<1> HIDE DEF f, n, step
<1>6. k \in 1..n /\ k - 1 \in Nat
  BY <1>2 DEF f
<1>7. f[k] = f[1] + (k - 1) * step
  BY <1>2, <1>4, <1>5, <1>6, EvenLines
<1>8. ((k - 1) * step) % step = 0 /\ ((k - 1) * step) \div step = k - 1
      /\ (k - 1) * step \in Nat
  BY <1>4, <1>6, Multiples, OneMore
<1> DEFINE d == (k - 1) * step
<1>9. d \in Nat /\ d % step = 0 /\ d \div step = k - 1 /\ f[k] = f[1] + d
  BY <1>7, <1>8
<1> HIDE DEF d
<1>10. f[k] - f[1] = d /\ ~(f[k] < f[1])
  BY <1>2, <1>3, <1>6, <1>9
<1>11. Regmap!Offset(name, f[k]) = d \div step + 1
  BY <1>9, <1>10 DEF Regmap!Offset, Regmap!First1, step, f
<1> QED
  BY <1>6, <1>9, <1>11 DEF f

LEMMA NothingSampled ==
  ASSUME s6 = <<>>
  PROVE  Regmap!RowIsOfTheRegister
<1>1. DOMAIN s6 = {}
  OBVIOUS
<1> QED
  BY <1>1 DEF Regmap!RowIsOfTheRegister

LEMMA RegmapInitHolds ==
  ASSUME Regmap!RegmapAssumption, Regmap!Init
  PROVE  Regmap!RegmapInv
<1>1. <<>> \in Regmap!Lines
  <2>1. <<>> \in Seq(Addresses) /\ DOMAIN <<>> = 1..0
    OBVIOUS
  <2>2. <<>> \in [1..0 -> Addresses] /\ 0 \in 0..MaxLines
    BY <2>1 DEF Regmap!RegmapAssumption
  <2> QED
    BY <2>1, <2>2 DEF Regmap!Lines
<1>2. s2 \in [Regmap!Names -> Regmap!Lines]
  BY <1>1 DEF Regmap!Init
<1>3. s4 \in Seq(Regmap!Names) /\ s6 \in Seq(Regmap!Values) /\ s6 = <<>>
  BY DEF Regmap!Init
<1>4. Regmap!Typed
  BY <1>2, <1>3 DEF Regmap!Init, Regmap!Typed
<1> QED
  BY <1>3, <1>4, NothingSampled DEF Regmap!Init, Regmap!RegmapInv

\* What `read()` returns of a file it knows.
LEMMA ReadGives ==
  ASSUME Regmap!RegmapAssumption, Regmap!Typed, NEW name \in Regmap!Names, NEW addr
  PROVE  /\ Regmap!Read(name, addr) \in Regmap!Values
         /\ Regmap!Read(name, addr) # Regmap!Blank =>
              /\ Regmap!Read(name, addr).name = name
              /\ Regmap!Read(name, addr).addr = addr
              /\ Regmap!Read(name, addr).version = s3.version
              /\ \E k \in DOMAIN s2[name] : s2[name][k] = addr
<1> DEFINE i == Regmap!Offset(name, addr)
<1>1. Regmap!Blank \in Regmap!Values
  BY DEF Regmap!Blank, Regmap!Values, Regmap!NoName
<1>2. CASE i \notin DOMAIN s2[name] \/ s2[name][i] # addr \/ addr \in s3.silent
  <2>1. Regmap!Read(name, addr) = Regmap!Blank
    BY <1>2 DEF Regmap!Read
  <2> QED
    BY <1>1, <2>1
<1>3. CASE i \in DOMAIN s2[name] /\ s2[name][i] = addr /\ addr \notin s3.silent
  <2>1. Regmap!Read(name, addr) = [name |-> name, addr |-> s2[name][i],
        version |-> s3.version]
    BY <1>3 DEF Regmap!Read, Regmap!Line
  <2>2. s2[name] \in Regmap!Lines /\ s3.version \in Nat
    BY DEF Regmap!Typed
  <2>3. s2[name][i] \in Nat
    BY <1>3, <2>2, LinesAre
  <2>4. [name |-> name, addr |-> s2[name][i], version |-> s3.version] \in Regmap!Values
    BY <2>2, <2>3 DEF Regmap!Values
  <2> QED
    BY <1>3, <2>1, <2>4
<1> QED
  BY <1>2, <1>3

\* A register of a regular file that is left blank did not answer.
LEMMA BlankIsSilent ==
  ASSUME Regmap!RegmapAssumption, Regmap!Typed, NEW name \in Regmap!Names, NEW addr,
         Regmap!Recognised(name), Regmap!Regular(name),
         addr \in Regmap!ToSet(s2[name]), Regmap!Read(name, addr) = Regmap!Blank
  PROVE  addr \in Signature
<1>1. PICK k \in DOMAIN s2[name] : s2[name][k] = addr
  BY DEF Regmap!ToSet
<1>2. Regmap!Offset(name, addr) = k
  BY <1>1, RegularOffset
<1>3. addr \in s3.silent \/ Regmap!Read(name, addr) = Regmap!Line(name, k)
  BY <1>1, <1>2 DEF Regmap!Read
<1>4. Regmap!Line(name, k) # Regmap!Blank
  <2>1. s3.version \in Nat
    BY DEF Regmap!Typed
  <2>2. s3.version # -1
    BY <2>1
  <2> QED
    BY <2>2 DEF Regmap!Line, Regmap!Blank
<1> QED
  BY <1>3, <1>4 DEF Regmap!Typed

LEMMA ShortSequences ==
  ASSUME NEW S, NEW x \in S, NEW y \in S
  PROVE  <<x>> \in Seq(S) /\ <<x, y>> \in Seq(S)
  OBVIOUS

LEMMA RegmapStepHolds ==
  ASSUME Regmap!RegmapAssumption, Regmap!RegmapInv, [Regmap!Next]_slots
  PROVE  Regmap!RegmapInv'
<1> USE DEF Regmap!RegmapInv
<1>a. Regmap!Typed /\ s1.from \in Nat /\ s1.samples \in Nat /\ s3.version \in Nat
      /\ s3.silent \in SUBSET Signature
  BY DEF Regmap!Typed
<1>1. CASE UNCHANGED slots
  BY <1>1 DEF slots, Regmap!Typed, Regmap!Verified, Regmap!Recognised, Regmap!Regular,
              Regmap!StepOf, Regmap!First1, Regmap!RowIsOfTheRegister
<1>2. CASE Regmap!DtPmicRegmapName
  <2>1. s4' \in Seq(Regmap!Names)
    <3>1. "0-02" \in Regmap!Names /\ "0-03" \in Regmap!Names
      BY DEF Regmap!Names
    <3>2. /\ <<"0-02">> \in Seq(Regmap!Names) /\ <<"0-02", "0-02">> \in Seq(Regmap!Names)
          /\ <<"0-03">> \in Seq(Regmap!Names) /\ <<"0-03", "0-02">> \in Seq(Regmap!Names)
      BY ONLY <3>1, ShortSequences
    <3> QED
      BY <1>2, <3>2 DEF Regmap!DtPmicRegmapName
  <2>2. /\ s1' = [s1 EXCEPT !.at = "resolve"] /\ s1.at = "start"
        /\ s2' = s2 /\ s3' = s3 /\ s6' = s6
    BY <1>2 DEF Regmap!DtPmicRegmapName
  <2>3. Regmap!Typed'
    BY <2>1, <2>2 DEF Regmap!Typed
  <2>4. s6' = <<>>
    BY <2>2
  <2>5. Regmap!RowIsOfTheRegister'
    BY <2>4, NothingSampled DEF Regmap!RowIsOfTheRegister
  <2> QED
    BY <1>a, <2>2, <2>3, <2>4, <2>5 DEF Regmap!Typed
<1>3. CASE Regmap!ChipMoves
  <2>1. /\ s1' = s1 /\ s2' = s2 /\ s4' = s4 /\ s5' = s5 /\ s6' = s6
    BY <1>3 DEF Regmap!ChipMoves
  <2>2. \/ s3' = [s3 EXCEPT !.version = s3.version + 1]
        \/ \E a \in Signature :
             s3' = [s3 EXCEPT !.silent = IF a \in s3.silent THEN s3.silent \ {a}
                                         ELSE s3.silent \cup {a}]
    BY <1>3 DEF Regmap!ChipMoves
  <2>3. s3' \in [version : Nat, silent : SUBSET Signature] /\ s3.version <= s3'.version
    BY <1>a, <2>2 DEF Regmap!Typed
  <2>4. Regmap!Typed'
    BY <2>1, <2>3 DEF Regmap!Typed
  <2>5. Regmap!Verified => Regmap!Verified'
    BY <2>1 DEF Regmap!Verified, Regmap!Recognised
  <2>6. Regmap!RowIsOfTheRegister'
    <3>1. s3'.version \in Nat
      BY <2>3
    <3>2. \A v : v \in s1.from..s3.version => v \in s1.from..s3'.version
      BY <1>a, <2>3, <3>1
    <3> QED
      BY <2>1, <3>2 DEF Regmap!RowIsOfTheRegister, Regmap!Regular, Regmap!StepOf,
                        Regmap!First1
  <2>7. s1.from <= s3'.version
    BY <1>a, <2>3
  <2> QED
    BY <2>1, <2>4, <2>5, <2>6, <2>7
<1>4. CASE Regmap!Open
  <2>1. /\ s1' = [s1 EXCEPT !.at = "probe"] /\ s1.at = "resolve" /\ s4 # <<>>
        /\ s3' = s3 /\ s4' = s4 /\ s6' = s6
        /\ \E f \in Regmap!Lines : s2' = [s2 EXCEPT ![Head(s4)] = f]
    BY <1>4 DEF Regmap!Open
  <2>2. Head(s4) \in Regmap!Names
    BY <1>a, <2>1 DEF Regmap!Typed
  <2>3. Regmap!Typed'
    BY <2>1, <2>2 DEF Regmap!Typed
  <2>4. s6' = <<>>
    BY <2>1
  <2>5. Regmap!RowIsOfTheRegister'
    BY <2>4, NothingSampled DEF Regmap!RowIsOfTheRegister
  <2> QED
    BY <1>a, <2>1, <2>3, <2>4, <2>5 DEF Regmap!Typed
<1>5. CASE Regmap!Resolve
  <2> DEFINE name == Head(s4)
  <2>1. /\ s1.at = "probe" /\ s4 # <<>> /\ s2' = s2 /\ s3' = s3 /\ s6' = s6
        /\ s6 = <<>> /\ s4 \in Seq(Regmap!Names)
    BY <1>5 DEF Regmap!Resolve, Regmap!Typed
  <2>2. name \in Regmap!Names /\ Tail(s4) \in Seq(Regmap!Names)
    BY <2>1
  <2>3. Regmap!RowIsOfTheRegister'
    BY <2>1, NothingSampled DEF Regmap!RowIsOfTheRegister
  <2>4. CASE Regmap!Recognised(name) /\ \A a \in Signature : Regmap!Read(name,
        a) # Regmap!Blank
    <3>1. /\ s5' = name /\ s4' = <<>>
          /\ s1' = [s1 EXCEPT !.at = "sample", !.from = s3.version]
      BY <1>5, <2>4 DEF Regmap!Resolve
    <3>2. \A a \in Signature : \E k \in DOMAIN s2[name] : s2[name][k] = a
      BY <1>a, <2>2, <2>4, ReadGives
    <3>3. Regmap!Verified'
      BY <2>1, <2>2, <2>4, <3>1, <3>2 DEF Regmap!Verified, Regmap!Recognised
    <3>4. Regmap!Typed'
      <4>1. s1' \in [at : {"start", "resolve", "probe", "sample", "ended", "failed"},
                      from : Nat, samples : Nat]
        BY <1>a, <3>1 DEF Regmap!Typed
      <4>2. s4' \in Seq(Regmap!Names)
        BY <3>1
      <4> QED
        BY <2>1, <4>1, <4>2 DEF Regmap!Typed
    <3>5. s1'.at = "sample" /\ s1'.from = s3.version
      BY <1>a, <3>1 DEF Regmap!Typed
    <3> QED
      BY <1>a, <2>1, <2>3, <3>3, <3>4, <3>5
  <2>5. CASE ~(Regmap!Recognised(name)
               /\ \A a \in Signature : Regmap!Read(name, a) # Regmap!Blank)
    <3>1. /\ s4' = Regmap!Unseen(name, Tail(s4))
          /\ s1' = [s1 EXCEPT !.at = "resolve"]
      BY <1>5, <2>5 DEF Regmap!Resolve
    <3>2. s4' \in Seq(Regmap!Names)
      BY <2>2, <3>1 DEF Regmap!Unseen
    <3>3. Regmap!Typed'
      BY <2>1, <3>1, <3>2 DEF Regmap!Typed
    <3> QED
      BY <1>a, <2>1, <2>3, <3>1, <3>3 DEF Regmap!Typed
  <2> QED
    BY <2>4, <2>5
<1>6. CASE Regmap!ResolveFails
  <2>1. /\ s1' = [s1 EXCEPT !.at = "failed"] /\ s1.at = "resolve"
        /\ s2' = s2 /\ s3' = s3 /\ s4' = s4 /\ s5' = s5 /\ s6' = s6
    BY <1>6 DEF Regmap!ResolveFails
  <2>2. Regmap!Typed'
    BY <2>1 DEF Regmap!Typed
  <2>3. Regmap!RowIsOfTheRegister'
    BY <2>1, NothingSampled DEF Regmap!RowIsOfTheRegister
  <2> QED
    BY <1>a, <2>1, <2>2, <2>3 DEF Regmap!Typed
<1>7. CASE Regmap!SampleOne
  <2> DEFINE n == Len(s6) + 1
             addr == Regmap!Registers[n]
             value == Regmap!Read(s5, addr)
  <2>1. /\ s1' = s1 /\ s2' = s2 /\ s3' = s3 /\ s4' = s4 /\ s5' = s5
        /\ s1.at = "sample" /\ s6' = Append(s6, value)
    BY <1>7 DEF Regmap!SampleOne
  <2>2. Regmap!Verified /\ s5 \in Regmap!Names
    BY <2>1 DEF Regmap!Verified
  <2>3. /\ value \in Regmap!Values
        /\ value # Regmap!Blank => /\ value.name = s5 /\ value.addr = addr
                                   /\ value.version = s3.version
    BY <1>a, <2>2, ReadGives
  <2>4. value = Regmap!Blank /\ addr \in Regmap!ToSet(s2[s5]) =>
          ~Regmap!Regular(s5) \/ addr \in Signature
    BY <1>a, <2>2, BlankIsSilent DEF Regmap!Verified
  <2> HIDE DEF value, addr
  <2>5. s6 \in Seq(Regmap!Values) /\ Len(s6) \in Nat /\ DOMAIN s6 = 1..Len(s6)
    BY <1>a DEF Regmap!Typed
  <2>6. /\ s6' \in Seq(Regmap!Values) /\ DOMAIN s6' = 1..n /\ s6'[n] = value
        /\ \A i \in 1..Len(s6) : s6'[i] = s6[i]
    BY <2>1, <2>3, <2>5
  <2>7. Regmap!Typed'
    BY <2>1, <2>6 DEF Regmap!Typed
  <2>8. Regmap!Verified'
    BY <2>1, <2>2 DEF Regmap!Verified, Regmap!Recognised
  <2>9. Regmap!RowIsOfTheRegister'
    <3> SUFFICES ASSUME NEW i \in 1..n
                 PROVE  /\ s6'[i] # Regmap!Blank =>
                             /\ s6'[i].name = s5 /\ s6'[i].addr = Regmap!Registers[i]
                             /\ s6'[i].version \in s1.from..s3.version
                        /\ \A a \in Signature : \E k \in DOMAIN s2[s5] : s2[s5][k] = a
                        /\ s6'[i] = Regmap!Blank
                           /\ Regmap!Registers[i] \in Regmap!ToSet(s2[s5]) =>
                             ~Regmap!Regular(s5) \/ Regmap!Registers[i] \in Signature
      BY <2>1, <2>6 DEF Regmap!RowIsOfTheRegister, Regmap!Regular, Regmap!StepOf,
                        Regmap!First1
    <3>1. CASE i = n
      <4>1. s3.version \in s1.from..s3.version
        BY <1>a
      <4>2. s6'[i] = value /\ Regmap!Registers[i] = addr
        BY <2>6, <3>1 DEF addr
      <4> QED
        BY <2>2, <2>3, <2>4, <4>1, <4>2 DEF Regmap!Verified
    <3>2. CASE i \in 1..Len(s6)
      BY <2>5, <2>6, <3>2 DEF Regmap!RowIsOfTheRegister
    <3> QED
      BY <2>5, <3>1, <3>2
  <2> QED
    BY <2>1, <2>7, <2>8, <2>9
<1>8. CASE Regmap!SampleEnd
  <2>1. /\ s1.at = "sample" /\ s2' = s2 /\ s3' = s3 /\ s4' = s4 /\ s5' = s5
        /\ Regmap!Verified
    BY <1>8 DEF Regmap!SampleEnd
  <2>2. Regmap!Verified'
    BY <2>1 DEF Regmap!Verified, Regmap!Recognised
  <2>3. CASE s1' = [s1 EXCEPT !.at = "ended"] /\ s6' = s6
    <3>1. Regmap!Typed' /\ s1'.at = "ended" /\ s1'.from = s1.from
      BY <2>1, <2>3 DEF Regmap!Typed
    <3>2. Regmap!RowIsOfTheRegister'
      BY <2>1, <2>3, <3>1 DEF Regmap!RowIsOfTheRegister, Regmap!Regular, Regmap!StepOf,
                              Regmap!First1
    <3> QED
      BY <2>1, <2>2, <3>1, <3>2
  <2>4. CASE s1' = [s1 EXCEPT !.samples = s1.samples + 1, !.from = s3.version]
             /\ s6' = <<>>
    <3>1. Regmap!Typed' /\ s1'.at = "sample" /\ s1'.from = s3.version
      <4>1. s1.samples + 1 \in Nat
        BY <1>a
      <4>2. /\ s1' \in [at : {"start", "resolve", "probe", "sample", "ended", "failed"},
                         from : Nat, samples : Nat]
            /\ s1'.at = "sample" /\ s1'.from = s3.version
        BY <1>a, <2>1, <2>4, <4>1 DEF Regmap!Typed
      <4>3. s6' \in Seq(Regmap!Values)
        BY <2>4
      <4> QED
        BY <2>1, <4>2, <4>3 DEF Regmap!Typed
    <3>2. Regmap!RowIsOfTheRegister'
      BY <2>4, NothingSampled DEF Regmap!RowIsOfTheRegister
    <3> QED
      BY <1>a, <2>1, <2>2, <2>4, <3>1, <3>2
  <2> QED
    BY <1>8, <2>3, <2>4 DEF Regmap!SampleEnd
<1> QED
  BY <1>1, <1>2, <1>3, <1>4, <1>5, <1>6, <1>7, <1>8 DEF Regmap!Next

LEMMA RowsMean ==
  ASSUME Regmap!RegmapInv
  PROVE  Regmap!RowIsOfTheRegister
  BY DEF Regmap!RegmapInv

-----------------------------------------------------------------------------
(* The records of a sleep. *)

LEMMA AppendRecord ==
  ASSUME NEW S, NEW log \in Seq(S), NEW row \in S
  PROVE  /\ Append(log, row) \in Seq(S) /\ Len(log) \in Nat
         /\ Len(Append(log, row)) = Len(log) + 1
         /\ DOMAIN log = 1..Len(log) /\ DOMAIN Append(log, row) = 1..(Len(log) + 1)
         /\ \A i \in 1..Len(log) : Append(log, row)[i] = log[i]
         /\ Append(log, row)[Len(log) + 1] = row
         /\ \A i \in 1..Len(log) : log[i] \in S
  OBVIOUS

\* How far compare() is after n records.
SleepLoop(log, m, f) ==
  f = [n \in 0..m |-> IF n = 0 THEN [pending |-> Sleep!NoRow, results |-> <<>>]
                      ELSE Sleep!Pairing(f[n - 1], log[n])]

LEMMA SleepLoopLonger ==
  ASSUME NEW log, NEW m \in Nat, NEW f, SleepLoop(log, m, f)
  PROVE  \E g : SleepLoop(log, m + 1, g)
<1> DEFINE start == [pending |-> Sleep!NoRow, results |-> <<>>]
           g == [n \in 0..(m + 1) |->
                   IF n <= m THEN f[n] ELSE Sleep!Pairing(f[m], log[n])]
           h == [n \in 0..(m + 1) |->
                   IF n = 0 THEN start ELSE Sleep!Pairing(g[n - 1], log[n])]
<1>1. \A n \in 0..(m + 1) : n # 0 => g[n - 1] = f[n - 1]
  OBVIOUS
<1>2. \A n \in 0..m : f[n] = IF n = 0 THEN start ELSE Sleep!Pairing(f[n - 1], log[n])
  BY DEF SleepLoop
<1>3. \A n \in 0..(m + 1) : g[n] = h[n]
  BY <1>1, <1>2
<1>4. g = h
  <2>1. /\ DOMAIN g = 0..(m + 1) /\ DOMAIN h = 0..(m + 1)
        /\ g = [n \in DOMAIN g |-> g[n]] /\ h = [n \in DOMAIN h |-> h[n]]
    OBVIOUS
  <2> HIDE DEF g, h
  <2> QED
    BY <1>3, <2>1
<1> HIDE DEF g
<1> QED
  BY <1>4 DEF SleepLoop, h

LEMMA SleepLoopIs ==
  ASSUME NEW log, Len(log) \in Nat
  PROVE  Sleep!Paired(log) =
           [n \in 0..Len(log) |->
              IF n = 0 THEN [pending |-> Sleep!NoRow, results |-> <<>>]
              ELSE Sleep!Pairing(Sleep!Paired(log)[n - 1], log[n])]
<1> DEFINE S == {m \in Nat : \E f : SleepLoop(log, m, f)}
<1>1. 0 \in S
  <2> DEFINE f == [n \in 0..0 |-> [pending |-> Sleep!NoRow, results |-> <<>>]]
  <2>1. f = [n \in 0..0 |-> IF n = 0 THEN [pending |-> Sleep!NoRow, results |-> <<>>]
                            ELSE Sleep!Pairing(f[n - 1], log[n])]
    OBVIOUS
  <2> HIDE DEF f
  <2> QED
    BY <2>1 DEF SleepLoop
<1>2. \A n \in Nat : n \in S => n + 1 \in S
  BY SleepLoopLonger
<1> HIDE DEF S
<1>3. Len(log) \in S
  BY <1>1, <1>2, NatSetInduction
<1>4. PICK f : SleepLoop(log, Len(log), f)
  BY <1>3 DEF S
<1> QED
  BY <1>4 DEF SleepLoop, Sleep!Paired

\* What compare() calls a pair is two records that follow each other in the log.
LEMMA PairsAreNeighbours ==
  ASSUME Sleep!HookTyped, Sleep!Readable, NEW k \in DOMAIN Sleep!Compare(s3)
  PROVE  \E i \in 1..(Len(s3) - 1) :
           /\ s3[i].phase = "pre" /\ s3[i + 1].phase = "post"
           /\ Sleep!Compare(s3)[k] = Sleep!Pair(s3[i], s3[i + 1])
<1> DEFINE L == Len(s3)
           acc == Sleep!Paired(s3)
           P == {Sleep!Pair(s3[i], s3[i + 1]) :
                   i \in {j \in 1..(L - 1) : s3[j].phase = "pre"
                         /\ s3[j + 1].phase = "post"}}
           Good(n) == /\ acc[n].results \in Seq(P)
                      /\ \/ acc[n].pending = Sleep!NoRow
                         \/ n \in 1..L /\ acc[n].pending = s3[n] /\ s3[n].phase = "pre"
           S == {n \in Nat : n <= L => Good(n)}
<1>1. L \in Nat /\ DOMAIN s3 = 1..L
      /\ \A i \in 1..L : s3[i].phase \in {"pre", "post"}
  BY DEF Sleep!HookTyped, Sleep!Readable, Sleep!Records, Sleep!Phases
<1>2. /\ acc[0] = [pending |-> Sleep!NoRow, results |-> <<>>]
      /\ \A n \in 1..L : acc[n] = Sleep!Pairing(acc[n - 1], s3[n])
  BY <1>1, SleepLoopIs
<1>3. 0 \in S
  <2>1. <<>> \in Seq(P)
    OBVIOUS
  <2>2. acc[0].results = <<>> /\ acc[0].pending = Sleep!NoRow
    BY <1>2
  <2> HIDE DEF P, acc
  <2> QED
    BY <2>1, <2>2
<1>4. ASSUME NEW n \in Nat, n \in S
      PROVE  n + 1 \in S
  <2> SUFFICES ASSUME n + 1 <= L
               PROVE  Good(n + 1)
    OBVIOUS
  <2>1. Good(n) /\ n + 1 \in 1..L /\ acc[n + 1] = Sleep!Pairing(acc[n], s3[n + 1])
    BY <1>1, <1>2, <1>4
  <2>2. CASE s3[n + 1].phase = "pre"
    <3>1. acc[n + 1] = [acc[n] EXCEPT !.pending = s3[n + 1]]
      BY <2>1, <2>2 DEF Sleep!Pairing
    <3> HIDE DEF acc, P
    <3>2. acc[n + 1].results = acc[n].results
      BY <3>1
    <3> QED
      BY <2>1, <2>2, <3>1, <3>2
  <2>3. CASE s3[n + 1].phase = "post" /\ acc[n].pending = Sleep!NoRow
    <3>1. acc[n + 1] = acc[n]
      BY <2>1, <2>3 DEF Sleep!Pairing
    <3> QED
      BY <2>1, <2>3, <3>1
  <2>4. CASE s3[n + 1].phase = "post" /\ acc[n].pending # Sleep!NoRow
    <3>1. acc[n + 1] = [pending |-> Sleep!NoRow,
                        results |-> Append(acc[n].results,
                                           Sleep!Pair(acc[n].pending, s3[n + 1]))]
      BY <2>1, <2>4 DEF Sleep!Pairing
    <3>2. n \in 1..L /\ acc[n].pending = s3[n] /\ s3[n].phase = "pre"
      BY <2>1, <2>4
    <3>3. Sleep!Pair(s3[n], s3[n + 1]) \in P
      BY <1>1, <2>1, <2>4, <3>2
    <3> HIDE DEF acc, P
    <3> QED
      BY <2>1, <3>1, <3>2, <3>3, AppendRecord
  <2> QED
    BY <1>1, <2>1, <2>2, <2>3, <2>4
<1>5. L \in S
  <2> HIDE DEF S
  <2> QED
    BY <1>1, <1>3, <1>4, NatSetInduction
<1>6. Sleep!Compare(s3) = acc[L].results /\ Sleep!Compare(s3) \in Seq(P)
  BY <1>1, <1>5 DEF Sleep!Compare, Sleep!Readable
<1>7. Sleep!Compare(s3)[k] \in P
  <2> HIDE DEF P
  <2> QED
    BY <1>6
<1> QED
  BY <1>7

LEMMA SleepMeans ==
  ASSUME Sleep!SleepInv
  PROVE  Sleep!OneLossNoFalsePair
<1> USE DEF Sleep!SleepInv
<1>1. CASE ~Sleep!Readable
  <2>1. Sleep!Compare(s3) = <<>>
    BY <1>1 DEF Sleep!Readable, Sleep!Compare
  <2> QED
    BY <2>1 DEF Sleep!OneLossNoFalsePair
<1>2. CASE Sleep!Readable
  <2>1. SUFFICES ASSUME NEW k \in DOMAIN Sleep!Compare(s3), Sleep!Compare(s3)[k].comparable
                 PROVE  /\ Sleep!Compare(s3)[k].elapsed >= 0
                        /\ Sleep!Compare(s3)[k].suspended >= 0
                        /\ s4 <= 1 => Sleep!Compare(s3)[k].pre.of = Sleep!Compare(s3)[k].post.of
    BY DEF Sleep!OneLossNoFalsePair
  <2>2. PICK i \in 1..(Len(s3) - 1) :
          /\ s3[i].phase = "pre" /\ s3[i + 1].phase = "post"
          /\ Sleep!Compare(s3)[k] = Sleep!Pair(s3[i], s3[i + 1])
    BY <1>2, PairsAreNeighbours
  <2>3. /\ s3[i] \in Sleep!Records \ {Sleep!Broken}
        /\ s3[i + 1] \in Sleep!Records \ {Sleep!Broken}
    BY <1>2 DEF Sleep!HookTyped, Sleep!Readable
  <2>4. /\ s3[i].boottime \in Nat /\ s3[i].mono \in Nat
        /\ s3[i + 1].boottime \in Nat /\ s3[i + 1].mono \in Nat
    BY <2>3 DEF Sleep!Records
  <2>5. s3[i].boot # Sleep!Unreadable /\ s3[i].boot = s3[i + 1].boot
    <3>1. Sleep!Pair(s3[i], s3[i + 1]).comparable =
            (s3[i].boot # Sleep!Unreadable /\ s3[i].boot = s3[i + 1].boot)
      BY DEF Sleep!Pair
    <3>2. Sleep!Pair(s3[i], s3[i + 1]).comparable
      BY <2>1, <2>2
    <3> QED
      BY <3>1, <3>2
  <2>6. Sleep!Follows(s3[i], s3[i + 1]) /\ (s4 <= 1 => s3[i].of = s3[i + 1].of)
    BY <1>2, <2>2, <2>5 DEF Sleep!NeighboursTrue
  <2> QED
    BY <2>1, <2>2, <2>4, <2>6 DEF Sleep!Pair, Sleep!Follows
<1> QED
  BY <1>1, <1>2

LEMMA SleepInitHolds ==
  ASSUME Sleep!Init
  PROVE  Sleep!SleepInv
<1>1. s3 = <<>> /\ DOMAIN s3 = {} /\ Len(s3) = 0
  BY DEF Sleep!Init
<1>2. Sleep!HookTyped
  BY <1>1 DEF Sleep!Init, Sleep!HookTyped
<1>3. Sleep!NeighboursTrue /\ Sleep!LastTrue
  BY <1>1 DEF Sleep!NeighboursTrue, Sleep!LastTrue
<1> QED
  BY <1>1, <1>2, <1>3 DEF Sleep!SleepInv

\* What main() leaves of a record: all of it, nothing, or a broken line.
SleepRow(phase, id) ==
  [phase |-> phase, boot |-> id, boottime |-> s1'.boottime, mono |-> s1'.mono, of |-> s2']

SleepWritten(phase, id) ==
  \/ s3' = Append(s3, SleepRow(phase, id)) /\ s4' = s4
  \/ s3' = s3 /\ s4' = s4 + 1
  \/ s3' = Append(s3, Sleep!Broken) /\ s4' = s4 + 1

LEMMA SleepWrites ==
  ASSUME Sleep!HookTyped, NEW phase \in Sleep!Phases, Sleep!Write(phase)
  PROVE  \E id \in {s1.boot, Sleep!Unreadable} : SleepWritten(phase, id)
<1>1. PICK id \in {s1.boot, Sleep!Unreadable} :
        \E log \in Sleep!Appended(s3, SleepRow(phase, id)) :
          /\ s3' = log
          /\ s4' = IF log = Append(s3, SleepRow(phase, id)) THEN s4 ELSE s4 + 1
  BY DEF Sleep!Write, Sleep!Snapshot, SleepRow
<1>2. Sleep!Broken # SleepRow(phase, id)
  <2>1. Sleep!Broken.phase = "broken" /\ SleepRow(phase, id).phase = phase
    BY DEF Sleep!Broken, SleepRow
  <2> QED
    BY <2>1 DEF Sleep!Phases
<1> DEFINE row == SleepRow(phase, id)
<1>3. /\ Append(s3, row) # s3 /\ Append(s3, Sleep!Broken) # Append(s3, row)
  <2>1. /\ Append(s3, row)[Len(s3) + 1] = row
        /\ Append(s3, Sleep!Broken)[Len(s3) + 1] = Sleep!Broken
        /\ Len(Append(s3, row)) # Len(s3)
    <3>1. s3 \in Seq(Sleep!Records \cup {row, Sleep!Broken})
      BY DEF Sleep!HookTyped
    <3> HIDE DEF row
    <3> QED
      BY <3>1, AppendRecord
  <2> HIDE DEF row
  <2> QED
    BY <1>2, <2>1 DEF row
<1> HIDE DEF row
<1>4. PICK log \in Sleep!Appended(s3, row) :
          /\ s3' = log
          /\ s4' = IF log = Append(s3, row) THEN s4 ELSE s4 + 1
  BY <1>1 DEF row
<1>5. log = Append(s3, row) \/ log = s3 \/ log = Append(s3, Sleep!Broken)
  BY <1>4 DEF Sleep!Appended
<1>6. SleepWritten(phase, id)
  BY <1>3, <1>4, <1>5 DEF SleepWritten, row
<1> QED
  BY <1>6

LEMMA FollowsOn ==
  ASSUME NEW a, NEW b, NEW c, a.boottime \in Nat, a.mono \in Nat, b.boottime \in Nat,
         b.mono \in Nat, c.boottime \in Nat, c.mono \in Nat,
         Sleep!Follows(a, b), Sleep!Follows(b, c)
  PROVE  Sleep!Follows(a, c)
<1> DEFINE a1 == a.boottime
           a2 == a.mono
           b1 == b.boottime
           b2 == b.mono
           c1 == c.boottime
           c2 == c.mono
<1>1. /\ a1 \in Nat /\ a2 \in Nat /\ b1 \in Nat /\ b2 \in Nat /\ c1 \in Nat /\ c2 \in Nat
      /\ b2 >= a2 /\ b1 - a1 >= b2 - a2 /\ c2 >= b2 /\ c1 - b1 >= c2 - b2
  BY DEF Sleep!Follows
<1> HIDE DEF a1, a2, b1, b2, c1, c2
<1>2. c2 >= a2 /\ c1 - a1 >= c2 - a2
  BY <1>1
<1> QED
  BY <1>2 DEF Sleep!Follows, a1, a2, c1, c2

\* A record of this boot, and what it does to the log.
LEMMA SleepWriteHolds ==
  ASSUME Sleep!SleepInv, NEW phase \in Sleep!Phases, Sleep!Write(phase),
         s1' \in [boot : Nat \ {0}, state : {"awake", "asleep"}, boottime : Nat,
               mono : Nat],
         s2' \in Nat, s1'.boot = s1.boot, Sleep!Follows(s1, s1'),
         \/ /\ phase = "pre" /\ s1.state = "awake" /\ s1'.state = "asleep"
         \/ /\ phase = "post" /\ s1.state = "asleep" /\ s1'.state = "awake" /\ s2' = s2
  PROVE  Sleep!SleepInv'
<1>1. /\ s1 \in [boot : Nat \ {0}, state : {"awake", "asleep"}, boottime : Nat, mono : Nat]
      /\ s2 \in Nat /\ s4 \in Nat /\ s3 \in Seq(Sleep!Records)
  BY DEF Sleep!SleepInv, Sleep!HookTyped
<1>2. PICK id \in {s1.boot, 0} : SleepWritten(phase, id)
  BY SleepWrites DEF Sleep!SleepInv, Sleep!Unreadable
<1> DEFINE row == SleepRow(phase, id)
           L == Len(s3)
<1>3. /\ row \in Sleep!Records /\ row.phase = phase /\ row.boot = id /\ row.of = s2'
      /\ row.boottime = s1'.boottime /\ row.mono = s1'.mono /\ row # Sleep!Broken
  <2>1. Sleep!Broken.phase # row.phase
    BY DEF Sleep!Broken, SleepRow, Sleep!Phases
  <2> QED
    BY <1>1, <2>1 DEF Sleep!Records, SleepRow
<1>4. Sleep!Broken \in Sleep!Records
  BY DEF Sleep!Records
<1>5. /\ L \in Nat /\ DOMAIN s3 = 1..L
      /\ \A i \in 1..L : s3[i] \in Sleep!Records
      /\ s3 # <<>> <=> L # 0
  BY <1>1
<1>6. \A i \in 1..L : s3[i] # Sleep!Broken =>
        /\ s3[i].boot \in Nat /\ s3[i].boottime \in Nat /\ s3[i].mono \in Nat
        /\ s3[i].of \in Nat /\ s3[i].boot <= s1.boot
  BY <1>5 DEF Sleep!Records, Sleep!SleepInv
<1>7. CASE s3' = Append(s3, row) /\ s4' = s4
  <2> HIDE DEF row
  <2>1. /\ s3' \in Seq(Sleep!Records) /\ Len(s3') = L + 1 /\ DOMAIN s3' = 1..(L + 1)
        /\ s3'[L + 1] = row /\ \A i \in 1..L : s3'[i] = s3[i]
    BY <1>1, <1>3, <1>7, AppendRecord
  <2>2. Sleep!HookTyped'
    BY <1>1, <1>7, <2>1 DEF Sleep!HookTyped
  <2>3. \A i \in DOMAIN s3' : s3'[i] # Sleep!Broken => s3'[i].boot <= s1'.boot
    BY <1>1, <1>3, <1>6, <2>1
  <2>4. ASSUME Sleep!Readable'
        PROVE  Sleep!NeighboursTrue' /\ Sleep!LastTrue'
    <3>1. \A i \in 1..L : s3[i] # Sleep!Broken
      BY <2>1, <2>4 DEF Sleep!Readable
    <3>2. Sleep!NeighboursTrue /\ Sleep!LastTrue
      BY <1>5, <3>1 DEF Sleep!Readable, Sleep!SleepInv
    <3>3. Sleep!LastTrue'
      <4> SUFFICES ASSUME row.phase = "pre", row.boot = s1'.boot
                   PROVE  Sleep!Follows(row, s1') /\ s1'.state = "asleep" /\ s2' = row.of
        BY <2>1 DEF Sleep!LastTrue
      <4> QED
        BY <1>1, <1>3 DEF Sleep!Follows
    <3>4. ASSUME NEW i \in 1..L,
                 s3'[i].phase = "pre", s3'[i + 1].phase = "post",
                 s3'[i].boot # Sleep!Unreadable, s3'[i].boot = s3'[i + 1].boot
          PROVE  /\ Sleep!Follows(s3'[i], s3'[i + 1])
                 /\ s4' <= 1 => s3'[i].of = s3'[i + 1].of
      <4>1. CASE i \in 1..(L - 1)
        <5>1. s3'[i] = s3[i] /\ s3'[i + 1] = s3[i + 1]
          BY <1>5, <2>1, <4>1
        <5> QED
          BY <1>7, <3>2, <3>4, <4>1, <5>1 DEF Sleep!NeighboursTrue
      <4>2. CASE i = L
        <5>1. s3'[i] = s3[L] /\ s3'[i + 1] = row /\ L # 0 /\ L \in 1..L
          BY <1>5, <2>1, <4>2
        <5>2. row.phase = "post" /\ row.boot = s1.boot /\ s3[L].boot = s1.boot
              /\ s3[L].phase = "pre"
          BY <1>3, <3>4, <5>1 DEF Sleep!Unreadable
        <5>3. Sleep!Follows(s3[L], s1) /\ (s4 <= 1 => s2 = s3[L].of)
          BY <1>1, <1>3, <1>5, <3>2, <5>1, <5>2 DEF Sleep!LastTrue
        <5>4. s3[L].boottime \in Nat /\ s3[L].mono \in Nat
          BY <1>6, <3>1, <5>1
        <5>5. /\ row.boottime \in Nat /\ row.mono \in Nat
              /\ s1.boottime \in Nat /\ s1.mono \in Nat
          BY <1>1, <1>3
        <5>6. Sleep!Follows(s1, row)
          BY <1>3 DEF Sleep!Follows
        <5>7. Sleep!Follows(s3[L], row)
          BY <5>3, <5>4, <5>5, <5>6, FollowsOn
        <5> QED
          BY <1>3, <1>7, <5>1, <5>2, <5>3, <5>7
      <4>3. i \in 1..(L - 1) \/ i = L
        <5>1. L \in Nat
          BY <1>5
        <5> HIDE DEF L
        <5> QED
          BY ONLY <5>1, i \in 1..L
      <4> QED
        BY <4>1, <4>2, <4>3
    <3>5. Sleep!NeighboursTrue'
      <4>1. (Len(s3) - 1)' = L
        BY <1>5, <2>1
      <4> QED
        BY <3>4, <4>1 DEF Sleep!NeighboursTrue
    <3> QED
      BY <3>3, <3>5
  <2> QED
    BY <2>2, <2>3, <2>4 DEF Sleep!SleepInv
<1>8. CASE s3' = s3 /\ s4' = s4 + 1
  <2>1. Sleep!HookTyped'
    BY <1>1, <1>8 DEF Sleep!HookTyped
  <2>2. \A i \in DOMAIN s3' : s3'[i] # Sleep!Broken => s3'[i].boot <= s1'.boot
    BY <1>8 DEF Sleep!SleepInv
  <2>3. ASSUME Sleep!Readable'
        PROVE  Sleep!NeighboursTrue' /\ Sleep!LastTrue'
    <3>1. Sleep!NeighboursTrue /\ Sleep!LastTrue /\ \A i \in 1..L : s3[i] # Sleep!Broken
      BY <1>5, <1>8, <2>3 DEF Sleep!Readable, Sleep!SleepInv
    <3>2. Sleep!NeighboursTrue'
      BY <1>1, <1>8, <3>1 DEF Sleep!NeighboursTrue
    <3>3. Sleep!LastTrue'
      <4> SUFFICES ASSUME L # 0, s3[L].phase = "pre", s3[L].boot = s1'.boot
                   PROVE  /\ Sleep!Follows(s3[L], s1')
                          /\ \/ s1'.state = "asleep" /\ s4' >= 2
                             \/ s1'.state = "awake" /\ s4' >= 1
        BY <1>5, <1>8 DEF Sleep!LastTrue
      <4>1. /\ Sleep!Follows(s3[L], s1)
            /\ s1.state = "asleep" \/ (s1.state = "awake" /\ s4 >= 1)
        BY <1>5, <3>1 DEF Sleep!LastTrue
      <4>2. s3[L].boottime \in Nat /\ s3[L].mono \in Nat
        BY <1>5, <1>6, <3>1
      <4>3. /\ s1.boottime \in Nat /\ s1.mono \in Nat
            /\ s1'.boottime \in Nat /\ s1'.mono \in Nat
        BY <1>1
      <4>4. Sleep!Follows(s3[L], s1')
        BY <4>1, <4>2, <4>3, FollowsOn
      <4> QED
        BY <1>1, <1>8, <4>1, <4>4
    <3> QED
      BY <3>2, <3>3
  <2> QED
    BY <2>1, <2>2, <2>3 DEF Sleep!SleepInv
<1>9. CASE s3' = Append(s3, Sleep!Broken) /\ s4' = s4 + 1
  <2> HIDE DEF row
  <2>1. /\ s3' \in Seq(Sleep!Records) /\ DOMAIN s3' = 1..(L + 1)
        /\ s3'[L + 1] = Sleep!Broken /\ \A i \in 1..L : s3'[i] = s3[i]
    BY <1>1, <1>4, <1>9, AppendRecord
  <2>2. Sleep!HookTyped'
    BY <1>1, <1>9, <2>1 DEF Sleep!HookTyped
  <2>3. \A i \in DOMAIN s3' : s3'[i] # Sleep!Broken => s3'[i].boot <= s1'.boot
    BY <1>1, <1>6, <2>1
  <2>4. ~(Sleep!Readable')
    BY <1>5, <2>1 DEF Sleep!Readable
  <2> QED
    BY <2>2, <2>3, <2>4 DEF Sleep!SleepInv
<1> QED
  BY <1>2, <1>7, <1>8, <1>9 DEF SleepWritten

LEMMA SleepStepHolds ==
  ASSUME Sleep!SleepInv, [Sleep!Next]_slots
  PROVE  Sleep!SleepInv'
<1> DEFINE Machines ==
      [boot : Nat \ {0}, state : {"awake", "asleep"}, boottime : Nat, mono : Nat]
<1>1. /\ s1 \in Machines /\ s2 \in Nat /\ s4 \in Nat /\ s3 \in Seq(Sleep!Records)
  BY DEF Sleep!SleepInv, Sleep!HookTyped
<1>2. CASE Sleep!Pre
  <2>1. /\ s1' \in Machines /\ s1'.boot = s1.boot /\ s1'.state = "asleep" /\ s2' \in Nat
        /\ s1'.mono = s1.mono /\ s1'.boottime = s1.boottime
    BY <1>1, <1>2 DEF Sleep!Pre
  <2>2. Sleep!Follows(s1, s1')
    BY <1>1, <2>1 DEF Sleep!Follows
  <2>3. s1.state = "awake" /\ Sleep!Write("pre")
    BY <1>2 DEF Sleep!Pre
  <2> QED
    BY <2>1, <2>2, <2>3, SleepWriteHolds DEF Sleep!Phases
<1>3. CASE Sleep!Post
  <2>1. /\ s1' \in Machines /\ s1'.boot = s1.boot /\ s1'.state = "awake" /\ s2' = s2
        /\ s1'.mono = s1.mono + 1
        /\ s1'.boottime \in {s1.boottime + 1, s1.boottime + 2}
    <3>1. PICK slept \in 0..1 :
            s1' = [s1 EXCEPT !.state = "awake", !.boottime = s1.boottime + 1 + slept,
                             !.mono = s1.mono + 1]
      BY <1>3 DEF Sleep!Post
    <3>2. s2' = s2
      BY <1>3 DEF Sleep!Post
    <3>3. /\ s1'.boot = s1.boot /\ s1'.state = "awake" /\ s1'.mono = s1.mono + 1
          /\ s1'.boottime = s1.boottime + 1 + slept
          /\ s1' = [boot |-> s1'.boot, state |-> s1'.state, boottime |-> s1'.boottime,
                    mono |-> s1'.mono]
      BY <1>1, <3>1
    <3>4. /\ s1.boottime \in Nat /\ s1.mono \in Nat /\ s1.boot \in Nat \ {0}
      BY <1>1
    <3>5. s1'.boottime \in {s1.boottime + 1, s1.boottime + 2}
      BY ONLY <3>3, <3>4, slept \in 0..1
    <3>6. s1' \in Machines
      BY <3>3, <3>4, <3>5
    <3> QED
      BY <3>2, <3>3, <3>5, <3>6
  <2>2. Sleep!Follows(s1, s1')
    BY <1>1, <2>1 DEF Sleep!Follows
  <2>3. s1.state = "asleep" /\ Sleep!Write("post")
    BY <1>3 DEF Sleep!Post
  <2> QED
    BY <1>1, <2>1, <2>2, <2>3, SleepWriteHolds DEF Sleep!Phases
<1>4. CASE Sleep!Reboot
  <2>1. /\ s1' \in Machines /\ s1'.boot = s1.boot + 1
        /\ s2' = s2 /\ s3' = s3 /\ s4' = s4
    BY <1>1, <1>4 DEF Sleep!Reboot
  <2>2. /\ DOMAIN s3 = 1..Len(s3) /\ Len(s3) \in Nat
        /\ \A i \in 1..Len(s3) : s3[i] # Sleep!Broken =>
             s3[i].boot \in Nat /\ s3[i].boot <= s1.boot
    BY <1>1 DEF Sleep!SleepInv, Sleep!Records
  <2>3. Sleep!HookTyped'
    BY <1>1, <2>1 DEF Sleep!HookTyped
  <2>4. \A i \in DOMAIN s3' : s3'[i] # Sleep!Broken => s3'[i].boot <= s1'.boot
    BY <1>1, <2>1, <2>2
  <2>5. ASSUME Sleep!Readable'
        PROVE  Sleep!NeighboursTrue' /\ Sleep!LastTrue'
    <3>1. Sleep!NeighboursTrue /\ \A i \in 1..Len(s3) : s3[i] # Sleep!Broken
      BY <2>1, <2>2, <2>5 DEF Sleep!Readable, Sleep!SleepInv
    <3>2. Sleep!NeighboursTrue'
      BY <2>1, <3>1 DEF Sleep!NeighboursTrue
    <3>3. s3' # <<>> => s3'[Len(s3')].boot # s1'.boot
      BY <1>1, <2>1, <2>2, <3>1
    <3> QED
      BY <3>2, <3>3 DEF Sleep!LastTrue
  <2> QED
    BY <2>3, <2>4, <2>5 DEF Sleep!SleepInv
<1>5. CASE UNCHANGED slots
  <2>1. s1' = s1 /\ s2' = s2 /\ s3' = s3 /\ s4' = s4
    BY <1>5 DEF slots
  <2> QED
    BY <2>1 DEF Sleep!SleepInv, Sleep!HookTyped, Sleep!Readable, Sleep!NeighboursTrue,
             Sleep!LastTrue
<1> QED
  BY <1>2, <1>3, <1>4, <1>5 DEF Sleep!Next

-----------------------------------------------------------------------------
(* The rows of the battery page. *)

LEMMA AppendBehind ==
  ASSUME NEW S, NEW a \in Seq(S), NEW b \in Seq(S), NEW x \in S
  PROVE  /\ a \o Append(b, x) = Append(a \o b, x)
         /\ Append(a \o b, x) \o <<>> = Append(a \o b, x)
         /\ a \o b \in Seq(S)
         /\ a \o Append(b, x) \in Seq(S) /\ Append(b, x) \in Seq(S)
  OBVIOUS

LEMMA EmptyBehind ==
  ASSUME NEW S, NEW a \in Seq(S)
  PROVE  a \o <<>> = a
  OBVIOUS

LEMMA FrontOf ==
  ASSUME NEW S, NEW a \in Seq(S), NEW b \in Seq(S)
  PROVE  /\ Len(a) \in Nat /\ Len(a \o b) \in Nat /\ Len(a) <= Len(a \o b)
         /\ \A i \in 1..Len(a) : (a \o b)[i] = a[i]
         /\ \A i \in 1..Len(a \o b) : (a \o b)[i] \in S
         /\ \A i \in 1..Len(a) : a[i] \in S
  OBVIOUS

LEMMA EndOf ==
  ASSUME NEW S, NEW a \in Seq(S), NEW k \in 1..Len(a)
  PROVE  /\ SubSeq(a, k, Len(a)) \in Seq(S)
         /\ Len(SubSeq(a, k, Len(a))) = Len(a) - k + 1
         /\ \A i \in 1..(Len(a) - k + 1) : SubSeq(a, k, Len(a))[i] = a[i + k - 1]
  OBVIOUS

\* How far analyze() is after n rows.
LogLoop(rows, m, f) ==
  f = [n \in 0..m |-> IF n = 0 THEN [pending |-> Battery!NoRow, sleep |-> 0]
                      ELSE Battery!Pair(f[n - 1], rows[n])]

LEMMA LogLoopLonger ==
  ASSUME NEW rows, NEW m \in Nat, NEW f, LogLoop(rows, m, f)
  PROVE  \E g : LogLoop(rows, m + 1, g)
<1> DEFINE start == [pending |-> Battery!NoRow, sleep |-> 0]
           g == [n \in 0..(m + 1) |->
                   IF n <= m THEN f[n] ELSE Battery!Pair(f[m], rows[n])]
           h == [n \in 0..(m + 1) |->
                   IF n = 0 THEN start ELSE Battery!Pair(g[n - 1], rows[n])]
<1>1. \A n \in 0..(m + 1) : n # 0 => g[n - 1] = f[n - 1]
  OBVIOUS
<1>2. \A n \in 0..m : f[n] = IF n = 0 THEN start ELSE Battery!Pair(f[n - 1], rows[n])
  BY DEF LogLoop
<1>3. \A n \in 0..(m + 1) : g[n] = h[n]
  BY <1>1, <1>2
<1>4. g = h
  <2>1. /\ DOMAIN g = 0..(m + 1) /\ DOMAIN h = 0..(m + 1)
        /\ g = [n \in DOMAIN g |-> g[n]] /\ h = [n \in DOMAIN h |-> h[n]]
    OBVIOUS
  <2> HIDE DEF g, h
  <2> QED
    BY <1>3, <2>1
<1> HIDE DEF g
<1> QED
  BY <1>4 DEF LogLoop, h

LEMMA LogLoopIs ==
  ASSUME NEW rows, Len(rows) \in Nat
  PROVE  Battery!Analyzed(rows) =
           [n \in 0..Len(rows) |->
              IF n = 0 THEN [pending |-> Battery!NoRow, sleep |-> 0]
              ELSE Battery!Pair(Battery!Analyzed(rows)[n - 1], rows[n])]
<1> DEFINE S == {m \in Nat : \E f : LogLoop(rows, m, f)}
<1>1. 0 \in S
  <2> DEFINE f == [n \in 0..0 |-> [pending |-> Battery!NoRow, sleep |-> 0]]
  <2>1. f = [n \in 0..0 |-> IF n = 0 THEN [pending |-> Battery!NoRow, sleep |-> 0]
                            ELSE Battery!Pair(f[n - 1], rows[n])]
    OBVIOUS
  <2> HIDE DEF f
  <2> QED
    BY <2>1 DEF LogLoop
<1>2. \A n \in Nat : n \in S => n + 1 \in S
  BY LogLoopLonger
<1> HIDE DEF S
<1>3. Len(rows) \in S
  BY <1>1, <1>2, NatSetInduction
<1>4. PICK f : LogLoop(rows, Len(rows), f)
  BY <1>3 DEF S
<1> QED
  BY <1>4 DEF LogLoop, Battery!Analyzed

\* One row of analyze() adds no more than the time passed since the row that waits.
LEMMA PairAddsLittle ==
  ASSUME NEW row \in Battery!Rows, NEW acc, NEW before \in Int, NEW start \in Int,
         acc.sleep \in Nat, acc.sleep <= before - start, before <= Battery!Still(row),
         acc = [pending |-> acc.pending, sleep |-> acc.sleep],
         acc.pending # Battery!NoRow =>
           /\ acc.pending \in Battery!Rows
           /\ acc.pending.held <= row.held
           /\ acc.sleep <= Battery!Still(acc.pending) - start
           /\ Battery!Still(acc.pending) <= Battery!Still(row)
  PROVE  /\ Battery!Pair(acc, row) = [pending |-> Battery!Pair(acc, row).pending,
                                      sleep |-> Battery!Pair(acc, row).sleep]
         /\ Battery!Pair(acc, row).sleep \in Nat
         /\ Battery!Pair(acc, row).sleep <= Battery!Still(row) - start
         /\ Battery!Pair(acc, row).pending \in {acc.pending, row, Battery!NoRow}
         /\ Battery!Pair(acc, row).pending \in {acc.pending, row} \ {Battery!NoRow} =>
              Battery!Pair(acc, row).sleep = acc.sleep
<1> DEFINE new == Battery!Pair(acc, row)
           wait == acc.pending
<1>1. /\ row.boottime \in Nat /\ row.mono \in Nat /\ row.held \in Nat
      /\ Battery!Still(row) = row.boottime - row.mono + row.held
  BY DEF Battery!Rows, Battery!Still
<1>2. CASE row.event = "prepare-sleep"
  <2>1. new = [acc EXCEPT !.pending = row]
    BY <1>2 DEF Battery!Pair
  <2>2. new = [pending |-> row, sleep |-> acc.sleep]
    <3> HIDE DEF new
    <3> QED
      BY ONLY <2>1, acc = [pending |-> acc.pending, sleep |-> acc.sleep]
  <2> HIDE DEF new
  <2>3. new.pending = row /\ new.sleep = acc.sleep
    BY <2>2
  <2> QED
    BY <1>1, <2>2, <2>3 DEF new
<1>3. CASE row.event # "prepare-sleep" /\ (row.event # "resume-signal"
      \/ wait = Battery!NoRow)
  <2>1. new = acc
    BY <1>3 DEF Battery!Pair
  <2> HIDE DEF new
  <2> QED
    BY <1>1, <2>1 DEF new
<1>4. CASE row.event = "resume-signal" /\ wait # Battery!NoRow
  <2> DEFINE dt == row.boottime - wait.boottime
             awake == row.mono - wait.mono
             more == IF 0 <= awake /\ awake <= dt /\ dt > 0 THEN dt - awake ELSE 0
  <2>1. new = [pending |-> Battery!NoRow, sleep |-> acc.sleep + more]
    BY <1>4 DEF Battery!Pair
  <2>2. /\ wait.boottime \in Nat /\ wait.mono \in Nat /\ wait.held \in Nat
        /\ Battery!Still(wait) = wait.boottime - wait.mono + wait.held
        /\ wait.held <= row.held /\ acc.sleep <= Battery!Still(wait) - start
        /\ Battery!Still(wait) <= Battery!Still(row)
    BY <1>4 DEF Battery!Rows, Battery!Still
  <2>3. more \in Nat /\ more <= Battery!Still(row) - Battery!Still(wait)
    <3> HIDE DEF wait
    <3>1. CASE 0 <= awake /\ awake <= dt /\ dt > 0
      BY ONLY <1>1, <2>2, <3>1
    <3>2. CASE ~(0 <= awake /\ awake <= dt /\ dt > 0)
      BY ONLY <1>1, <2>2, <3>2
    <3> QED
      BY <3>1, <3>2
  <2>4. new.pending = Battery!NoRow /\ new.sleep = acc.sleep + more
    BY <2>1
  <2>5. Battery!Still(wait) \in Int /\ Battery!Still(row) \in Int
    BY <1>1, <2>2
  <2> HIDE DEF new, more, wait
  <2>6. acc.sleep + more \in Nat /\ acc.sleep + more <= Battery!Still(row) - start
    BY ONLY <2>2, <2>3, <2>5, acc.sleep \in Nat, start \in Int
  <2> QED
    BY <2>1, <2>4, <2>6 DEF new
<1> QED
  BY <1>2, <1>3, <1>4

LEMMA AnalyzedLittle ==
  ASSUME NEW rows \in Seq(Battery!Rows), Battery!InOrder(rows), Len(rows) # 0
  PROVE  /\ Battery!Analyzed(rows)[Len(rows)].sleep \in Nat
         /\ Battery!Analyzed(rows)[Len(rows)].sleep
              <= Battery!Still(rows[Len(rows)]) - Battery!Still(rows[1])
<1> DEFINE L == Len(rows)
           acc == Battery!Analyzed(rows)
           start == Battery!Still(rows[1])
           before(n) == IF n = 0 THEN start ELSE Battery!Still(rows[n])
           Waits(n, j) == /\ acc[n].pending = rows[j]
                          /\ acc[n].sleep <= Battery!Still(rows[j]) - start
           Good(n) == /\ acc[n] = [pending |-> acc[n].pending, sleep |-> acc[n].sleep]
                      /\ acc[n].sleep \in Nat /\ acc[n].sleep <= before(n) - start
                      /\ acc[n].pending = Battery!NoRow \/ \E j \in 1..n : Waits(n, j)
           S == {n \in Nat : n <= L => Good(n)}
<1>1. /\ L \in Nat /\ 1 \in 1..L /\ \A i \in 1..L : rows[i] \in Battery!Rows
  OBVIOUS
<1>2. \A i \in 1..L : Battery!Still(rows[i]) \in Int /\ rows[i].held \in Nat
  BY <1>1 DEF Battery!Rows, Battery!Still
<1>3. \A i \in 1..L : \A j \in i..L :
        Battery!Still(rows[i]) <= Battery!Still(rows[j]) /\ rows[i].held <= rows[j].held
  BY DEF Battery!InOrder
<1>4. /\ acc[0] = [pending |-> Battery!NoRow, sleep |-> 0]
      /\ \A n \in 1..L : acc[n] = Battery!Pair(acc[n - 1], rows[n])
  BY <1>1, LogLoopIs
<1>5. start \in Int
  BY <1>1, <1>2
<1>6. 0 \in S
  <2>1. acc[0].pending = Battery!NoRow /\ acc[0].sleep = 0
    BY <1>4
  <2> HIDE DEF acc, start
  <2>2. Good(0)
    BY <1>4, <1>5, <2>1
  <2> QED
    BY <2>2
<1>7. ASSUME NEW n \in Nat, n \in S
      PROVE  n + 1 \in S
  <2> SUFFICES ASSUME n + 1 <= L
               PROVE  Good(n + 1)
    OBVIOUS
  <2>1. Good(n) /\ n + 1 \in 1..L /\ acc[n + 1] = Battery!Pair(acc[n], rows[n + 1])
    BY <1>1, <1>4, <1>7
  <2>2. before(n) \in Int /\ before(n) <= Battery!Still(rows[n + 1])
        /\ before(n + 1) = Battery!Still(rows[n + 1])
    <3>1. CASE n = 0
      <4>1. 1 \in 1..L /\ n + 1 \in 1..L
        BY <1>1, <2>1
      <4> QED
        BY <1>2, <1>3, <1>5, <3>1, <4>1
    <3>2. CASE n # 0
      <4>1. n \in 1..L /\ n + 1 \in n..L
        BY <1>1, <2>1, <3>2
      <4> QED
        BY <1>2, <1>3, <2>1, <3>2, <4>1
    <3> QED
      BY <3>1, <3>2
  <2>3. ASSUME acc[n].pending # Battery!NoRow
        PROVE  /\ acc[n].pending \in Battery!Rows
               /\ acc[n].pending.held <= rows[n + 1].held
               /\ acc[n].sleep <= Battery!Still(acc[n].pending) - start
               /\ Battery!Still(acc[n].pending) <= Battery!Still(rows[n + 1])
    <3>1. PICK j \in 1..n : Waits(n, j)
      BY <2>1, <2>3
    <3>2. j \in 1..L /\ n + 1 \in j..L
      BY <1>1, <2>1
    <3> QED
      BY <1>1, <1>3, <3>1, <3>2
  <2>4. rows[n + 1] \in Battery!Rows
    BY <1>1, <2>1
  <2> HIDE DEF acc, start, before
  <2>5. /\ acc[n].sleep \in Nat /\ acc[n].sleep <= before(n) - start
        /\ acc[n] = [pending |-> acc[n].pending, sleep |-> acc[n].sleep]
        /\ acc[n].pending = Battery!NoRow \/ \E j \in 1..n : Waits(n, j)
    BY <2>1
  <2>6. /\ acc[n + 1] = [pending |-> acc[n + 1].pending, sleep |-> acc[n + 1].sleep]
        /\ acc[n + 1].sleep \in Nat
        /\ acc[n + 1].sleep <= Battery!Still(rows[n + 1]) - start
        /\ acc[n + 1].pending \in {acc[n].pending, rows[n + 1], Battery!NoRow}
        /\ acc[n + 1].pending \in {acc[n].pending, rows[n + 1]} \ {Battery!NoRow} =>
             acc[n + 1].sleep = acc[n].sleep
    BY <1>5, <2>1, <2>2, <2>3, <2>4, <2>5, PairAddsLittle
  <2>7. CASE acc[n + 1].pending # Battery!NoRow /\ acc[n + 1].pending = rows[n + 1]
    <3>1. Waits(n + 1, n + 1)
      BY <2>6, <2>7
    <3>2. n + 1 \in 1..(n + 1)
      OBVIOUS
    <3> QED
      BY <2>2, <2>6, <3>1, <3>2
  <2>8. CASE acc[n + 1].pending # Battery!NoRow /\ acc[n + 1].pending = acc[n].pending
    <3>1. PICK j \in 1..n : Waits(n, j)
      BY <2>5, <2>8
    <3>2. Waits(n + 1, j)
      BY <2>6, <2>8, <3>1
    <3>3. j \in 1..(n + 1)
      OBVIOUS
    <3> QED
      BY <2>2, <2>6, <3>2, <3>3
  <2> QED
    BY <2>2, <2>6, <2>7, <2>8
<1>8. L \in S
  <2> HIDE DEF S
  <2> QED
    BY <1>1, <1>6, <1>7, NatSetInduction
<1>9. acc[L].sleep \in Nat /\ acc[L].sleep <= before(L) - start
  BY <1>1, <1>8
<1> QED
  BY <1>1, <1>9

LEMMA BatteryMeans ==
  ASSUME Battery!LogInv, Battery!LogAssumption
  PROVE  Battery!SleepNotInvented
<1> DEFINE n == Len(s6)
           k == 1 + IF n > MaxView THEN n - MaxView ELSE 0
           rows == Battery!Load
           m == Len(rows)
<1> SUFFICES ASSUME rows # <<>>
             PROVE  Battery!SleepSeconds <= (rows[m].boottime - rows[m].mono)
                                             - (rows[1].boottime - rows[1].mono) + s7
  BY DEF Battery!SleepNotInvented
<1>1. s6 \in Seq(Battery!Rows) /\ s5 \in Seq(Battery!Rows) /\ s7 \in Nat
  BY DEF Battery!LogInv, Battery!LogTyped
<1>2. n \in Nat /\ MaxView \in Nat \ {0}
  BY <1>1 DEF Battery!LogAssumption
<1>3. n # 0
  <2>1. ASSUME n = 0
        PROVE  FALSE
    <3>1. s6 = <<>>
      BY <1>1, <2>1
    <3>2. rows = SubSeq(<<>>, 1, 0)
      BY <1>2, <2>1, <3>1 DEF Battery!Load
    <3> QED
      BY <3>2
  <2> QED
    BY <2>1
<1>4. k \in 1..n /\ rows = SubSeq(s6, k, n)
  BY <1>2, <1>3 DEF Battery!Load
<1> HIDE DEF k, rows
<1>5. /\ rows \in Seq(Battery!Rows) /\ m = n - k + 1
      /\ \A i \in 1..(n - k + 1) : rows[i] = s6[i + k - 1]
  BY <1>1, <1>4, EndOf
<1>6. m \in Nat /\ m # 0 /\ 1 \in 1..m /\ m \in 1..m
  BY <1>2, <1>4, <1>5
<1> DEFINE both == s6 \o s5
<1>7. /\ Len(both) \in Nat /\ n <= Len(both)
      /\ \A i \in 1..n : both[i] = s6[i] /\ s6[i] \in Battery!Rows
  BY <1>1, FrontOf
<1>8. \A i \in 1..m : i + k - 1 \in 1..n /\ i + k - 1 \in 1..Len(both)
      /\ rows[i] = both[i + k - 1]
  BY <1>2, <1>4, <1>5, <1>7
<1>9. /\ \A i \in 1..Len(both) : \A j \in i..Len(both) :
           Battery!Still(both[i]) <= Battery!Still(both[j]) /\ both[i].held <= both[j].held
      /\ \A i \in 1..Len(both) : both[i].held <= s7
  BY DEF Battery!LogInv, Battery!InOrder
<1> HIDE DEF both
<1>10. Battery!InOrder(rows)
  <2> SUFFICES ASSUME NEW i \in 1..m, NEW j \in i..m
               PROVE  Battery!Still(rows[i]) <= Battery!Still(rows[j])
                     /\ rows[i].held <= rows[j].held
    BY DEF Battery!InOrder
  <2>1. j \in 1..m /\ j + k - 1 \in (i + k - 1)..Len(both)
    BY <1>2, <1>4, <1>6, <1>7, <1>8
  <2> QED
    BY <1>8, <1>9, <2>1
<1>11. /\ Battery!SleepSeconds \in Nat
       /\ Battery!SleepSeconds <= Battery!Still(rows[m]) - Battery!Still(rows[1])
  BY <1>5, <1>6, <1>10, AnalyzedLittle DEF Battery!SleepSeconds, rows
<1>12. /\ rows[1] \in Battery!Rows /\ rows[m] \in Battery!Rows /\ rows[m].held <= s7
  BY <1>5, <1>6, <1>8, <1>9
<1>13. /\ rows[1].boottime \in Nat /\ rows[1].mono \in Nat /\ rows[1].held \in Nat
       /\ rows[m].boottime \in Nat /\ rows[m].mono \in Nat /\ rows[m].held \in Nat
  BY <1>12 DEF Battery!Rows
<1> DEFINE b1 == rows[1].boottime
           m1 == rows[1].mono
           h1 == rows[1].held
           b2 == rows[m].boottime
           m2 == rows[m].mono
           h2 == rows[m].held
<1>14. Battery!SleepSeconds <= (b2 - m2 + h2) - (b1 - m1 + h1)
  BY <1>11 DEF Battery!Still
<1>15. /\ b1 \in Nat /\ m1 \in Nat /\ h1 \in Nat /\ b2 \in Nat /\ m2 \in Nat /\ h2 \in Nat
       /\ h2 <= s7
  BY <1>12, <1>13
<1> HIDE DEF b1, m1, h1, b2, m2, h2
<1>16. Battery!SleepSeconds <= (b2 - m2) - (b1 - m1) + s7
  BY <1>1, <1>11, <1>14, <1>15
<1> QED
  BY <1>16 DEF b1, m1, b2, m2

LEMMA BatteryInitHolds ==
  ASSUME Battery!Init
  PROVE  Battery!LogInv
<1>1. /\ s5 = <<>> /\ s6 = <<>> /\ s3 = <<>> /\ s7 = 0
      /\ s1 = [boottime |-> 0, mono |-> 0]
      /\ s4 = [at |-> "off", event |-> "none", boottime |-> 0]
  BY DEF Battery!Init, Battery!Off, Battery!Idle
<1>2. s6 \o s5 = <<>>
  BY <1>1
<1>3. Battery!LogTyped
  BY <1>1 DEF Battery!LogTyped
<1> QED
  BY <1>1, <1>2, <1>3 DEF Battery!LogInv, Battery!InOrder

\* A step that writes no row: the snapshot in progress stays, or begins.
LEMMA RowsStay ==
  ASSUME Battery!LogInv, Battery!LogTyped', s5' = s5, s6' = s6, s7' >= s7,
         Battery!StillNow' >= Battery!StillNow,
         s4'.at = "snapshot" => s4'.boottime <= s1'.boottime
  PROVE  Battery!LogInv'
<1> DEFINE all == s6 \o s5
<1>1. (s6 \o s5)' = all /\ s7 \in Nat /\ s7' \in Nat
      /\ s6 \in Seq(Battery!Rows) /\ s5 \in Seq(Battery!Rows)
  BY DEF Battery!LogInv, Battery!LogTyped
<1>2. /\ Battery!InOrder(all)
      /\ \A i \in 1..Len(all) : Battery!Still(all[i]) <= Battery!StillNow
           /\ all[i].held <= s7
  BY DEF Battery!LogInv
<1>3. \A i \in 1..Len(all) : Battery!Still(all[i]) \in Int /\ all[i].held \in Nat
  <2>1. \A i \in 1..Len(all) : all[i] \in Battery!Rows
    BY <1>1, FrontOf
  <2> HIDE DEF all
  <2> SUFFICES ASSUME NEW i \in 1..Len(all)
               PROVE  Battery!Still(all[i]) \in Int /\ all[i].held \in Nat
    OBVIOUS
  <2> DEFINE row == all[i]
  <2>2. row \in Battery!Rows
    BY <2>1
  <2> HIDE DEF row
  <2>3. row.boottime \in Nat /\ row.mono \in Nat /\ row.held \in Nat
    BY ONLY <2>2 DEF Battery!Rows
  <2>4. Battery!Still(row) \in Int /\ row.held \in Nat
    BY ONLY <2>3 DEF Battery!Still
  <2> QED
    BY <2>4 DEF row
<1>4. Battery!StillNow \in Int /\ Battery!StillNow' \in Int
  <2>1. /\ s1.boottime \in Nat /\ s1.mono \in Nat /\ s4.boottime \in Nat
        /\ s1'.boottime \in Nat /\ s1'.mono \in Nat /\ s4'.boottime \in Nat
    BY DEF Battery!LogInv, Battery!LogTyped
  <2>2. Battery!StillNow \in Int
    <3>1. \/ Battery!StillNow = s4.boottime - s1.mono + s7
          \/ Battery!StillNow = s1.boottime - s1.mono + s7
      BY DEF Battery!StillNow
    <3> QED
      BY ONLY <1>1, <2>1, <3>1
  <2>3. Battery!StillNow' \in Int
    <3>1. \/ Battery!StillNow' = s4'.boottime - s1'.mono + s7'
          \/ Battery!StillNow' = s1'.boottime - s1'.mono + s7'
      BY DEF Battery!StillNow
    <3> QED
      BY ONLY <1>1, <2>1, <3>1
  <2> QED
    BY <2>2, <2>3
<1> HIDE DEF all
<1>5. \A i \in 1..Len(all) : Battery!Still(all[i]) <= Battery!StillNow'
      /\ all[i].held <= s7'
  <2> SUFFICES ASSUME NEW i \in 1..Len(all)
               PROVE  Battery!Still(all[i]) <= Battery!StillNow' /\ all[i].held <= s7'
    OBVIOUS
  <2> DEFINE still == Battery!Still(all[i])
             held == all[i].held
             low == Battery!StillNow
             high == Battery!StillNow'
  <2>1. still \in Int /\ held \in Nat /\ still <= low /\ held <= s7
    BY <1>2, <1>3
  <2>2. low \in Int /\ high \in Int /\ high >= low
    BY <1>4
  <2> HIDE DEF still, held, low, high
  <2>3. still <= high /\ held <= s7'
    BY ONLY <1>1, <2>1, <2>2, s7' >= s7
  <2> QED
    BY <2>3 DEF still, held, high
<1>6. Battery!InOrder(s6 \o s5)'
  BY <1>1, <1>2 DEF Battery!InOrder
<1>7. \A i \in 1..Len((s6 \o s5)') :
        Battery!Still((s6 \o s5)'[i]) <= Battery!StillNow' /\ (s6 \o s5)'[i].held <= s7'
  BY <1>1, <1>5
<1> QED
  BY <1>6, <1>7 DEF Battery!LogInv, Battery!Still

\* record()
LEMMA RowWritten ==
  ASSUME Battery!LogInv, Battery!Record
  PROVE  Battery!LogInv'
<1> DEFINE row == [event |-> s4.event, boottime |-> s4.boottime,
                   mono |-> s1.mono, held |-> s7]
           all == s6 \o s5
           more == Append(all, row)
<1>1. /\ s1 \in [boottime : Nat, mono : Nat] /\ s7 \in Nat
      /\ s4 \in [at : {"off", "idle", "snapshot", "over"},
                 event : Battery!Events \cup {"none"}, boottime : Nat]
      /\ s3 \in Seq(Battery!Events)
      /\ s5 \in Seq(Battery!Rows) /\ s6 \in Seq(Battery!Rows)
      /\ s4.at = "snapshot" /\ s4.event \in Battery!Events /\ s4.boottime <= s1.boottime
  BY DEF Battery!LogInv, Battery!LogTyped, Battery!Record
<1>2. /\ s1' = s1 /\ s2' = s2 /\ s3' = s3 /\ s7' = s7
      /\ \/ s6' = s6 \o Append(s5, row) /\ s5' = <<>>
         \/ s5' = Append(s5, row) /\ s6' = s6
      /\ s4' \in {Battery!Over, Battery!Idle}
  BY DEF Battery!Record
<1>3. row \in Battery!Rows /\ row.held = s7
      /\ Battery!Still(row) = Battery!StillNow
  BY <1>1 DEF Battery!Rows, Battery!Still, Battery!StillNow
<1>4. Battery!StillNow \in Int /\ Battery!StillNow' \in Int
      /\ Battery!StillNow <= Battery!StillNow' /\ s4'.at # "snapshot"
      /\ s4' \in [at : {"off", "idle", "snapshot", "over"},
                  event : Battery!Events \cup {"none"}, boottime : Nat]
  <2>1. s4'.at # "snapshot" /\ s4'.event = "none" /\ s4'.boottime = 0
        /\ s4' \in [at : {"off", "idle", "snapshot", "over"},
                    event : Battery!Events \cup {"none"}, boottime : Nat]
    BY <1>2 DEF Battery!Over, Battery!Idle
  <2>2. Battery!StillNow = s4.boottime - s1.mono + s7
    BY <1>1 DEF Battery!StillNow
  <2>3. Battery!StillNow' = s1.boottime - s1.mono + s7
    BY <1>2, <2>1 DEF Battery!StillNow
  <2>4. s1.boottime \in Nat /\ s1.mono \in Nat /\ s4.boottime \in Nat
    BY <1>1
  <2> QED
    BY <1>1, <2>1, <2>2, <2>3, <2>4
<1> HIDE DEF row, all
<1>5. /\ all \in Seq(Battery!Rows) /\ (s6 \o s5)' = more
      /\ s5' \in Seq(Battery!Rows) /\ s6' \in Seq(Battery!Rows)
  <2>1. /\ s6 \o Append(s5, row) = more /\ more \o <<>> = more
        /\ all \in Seq(Battery!Rows) /\ s6 \o Append(s5, row) \in Seq(Battery!Rows)
        /\ Append(s5, row) \in Seq(Battery!Rows)
    <3>1. /\ s6 \o Append(s5, row) = Append(s6 \o s5, row)
          /\ Append(s6 \o s5, row) \o <<>> = Append(s6 \o s5, row)
          /\ s6 \o s5 \in Seq(Battery!Rows) /\ Append(s5, row) \in Seq(Battery!Rows)
          /\ s6 \o Append(s5, row) \in Seq(Battery!Rows)
      <4> DEFINE R == Battery!Rows
      <4>1. s6 \in Seq(R) /\ s5 \in Seq(R) /\ row \in R
        BY <1>1, <1>3
      <4> HIDE DEF R
      <4>2. /\ s6 \o Append(s5, row) = Append(s6 \o s5, row)
            /\ Append(s6 \o s5, row) \o <<>> = Append(s6 \o s5, row)
            /\ s6 \o s5 \in Seq(R) /\ Append(s5, row) \in Seq(R)
            /\ s6 \o Append(s5, row) \in Seq(R)
        BY ONLY <4>1, AppendBehind
      <4> QED
        BY ONLY <4>2 DEF R
    <3> QED
      BY ONLY <3>1 DEF all
  <2>2. <<>> \in Seq(Battery!Rows)
    OBVIOUS
  <2> HIDE DEF more
  <2>3. CASE s6' = s6 \o Append(s5, row) /\ s5' = <<>>
    <3>1. s6' = more /\ s5' = <<>>
      BY <2>1, <2>3
    <3> QED
      BY <2>1, <2>2, <3>1
  <2>4. CASE s5' = Append(s5, row) /\ s6' = s6
    BY <1>1, <2>1, <2>4
  <2> QED
    BY <1>2, <2>3, <2>4
<1>6. Battery!LogTyped'
  BY <1>1, <1>2, <1>4, <1>5 DEF Battery!LogTyped
<1>7. /\ Len(all) \in Nat /\ Len(more) = Len(all) + 1 /\ more[Len(all) + 1] = row
      /\ \A i \in 1..Len(all) : more[i] = all[i] /\ all[i] \in Battery!Rows
  BY <1>3, <1>5, AppendRecord
<1>8. /\ \A i \in 1..Len(all) : \A j \in i..Len(all) :
           Battery!Still(all[i]) <= Battery!Still(all[j]) /\ all[i].held <= all[j].held
      /\ \A i \in 1..Len(all) :
           Battery!Still(all[i]) <= Battery!StillNow /\ all[i].held <= s7
  BY DEF Battery!LogInv, Battery!InOrder, all
<1>9. \A i \in 1..Len(all) : Battery!Still(all[i]) \in Int /\ all[i].held \in Nat
  BY <1>7 DEF Battery!Still, Battery!Rows
<1>10. Battery!Still(row) \in Int /\ row.held \in Nat
  BY <1>1, <1>3, <1>4
<1> HIDE DEF more
<1>11. Battery!InOrder(more)
  <2> SUFFICES ASSUME NEW i \in 1..Len(more), NEW j \in i..Len(more)
               PROVE  Battery!Still(more[i]) <= Battery!Still(more[j])
                     /\ more[i].held <= more[j].held
    BY DEF Battery!InOrder
  <2>1. CASE j = Len(all) + 1 /\ i = Len(all) + 1
    BY <1>7, <1>10, <2>1
  <2>2. CASE j = Len(all) + 1 /\ i \in 1..Len(all)
    BY <1>3, <1>7, <1>8, <2>2
  <2>3. CASE i \in 1..Len(all) /\ j \in i..Len(all)
    <3>1. j \in 1..Len(all)
      BY <1>7, <2>3
    <3> QED
      BY <1>7, <1>8, <2>3, <3>1
  <2> QED
    BY <1>7, <2>1, <2>2, <2>3
<1>12. \A i \in 1..Len(more) :
         Battery!Still(more[i]) <= Battery!StillNow' /\ more[i].held <= s7'
  <2> SUFFICES ASSUME NEW i \in 1..Len(more)
               PROVE  Battery!Still(more[i]) <= Battery!StillNow' /\ more[i].held <= s7'
    OBVIOUS
  <2>1. CASE i = Len(all) + 1
    BY <1>1, <1>2, <1>3, <1>4, <1>7, <2>1
  <2>2. CASE i \in 1..Len(all)
    BY <1>2, <1>4, <1>7, <1>8, <1>9, <2>2
  <2> QED
    BY <1>7, <2>1, <2>2
<1>13. Battery!InOrder(s6 \o s5)'
  BY <1>5, <1>11 DEF Battery!InOrder, Battery!Still
<1>14. \A i \in 1..Len((s6 \o s5)') :
        Battery!Still((s6 \o s5)'[i]) <= Battery!StillNow' /\ (s6 \o s5)'[i].held <= s7'
  BY <1>5, <1>12
<1> QED
  BY <1>4, <1>6, <1>13, <1>14 DEF Battery!LogInv, Battery!Still

LEMMA BatteryStepHolds ==
  ASSUME Battery!LogInv, [Battery!LogNext]_slots
  PROVE  Battery!LogInv'
<1> DEFINE Recorders == [at : {"off", "idle", "snapshot", "over"},
                         event : Battery!Events \cup {"none"}, boottime : Nat]
<1>1. /\ s1 \in [boottime : Nat, mono : Nat] /\ s7 \in Nat /\ s4 \in Recorders
      /\ s4.at = "snapshot" => s4.event \in Battery!Events /\ s4.boottime <= s1.boottime
      /\ s3 \in Seq(Battery!Events)
      /\ s5 \in Seq(Battery!Rows) /\ s6 \in Seq(Battery!Rows)
  BY DEF Battery!LogInv, Battery!LogTyped
<1>2. /\ s1.boottime \in Nat /\ s1.mono \in Nat /\ s4.boottime \in Nat
      /\ Battery!StillNow \in Int
  BY <1>1 DEF Battery!StillNow
\* Nothing that the rows depend on.
<1>3. ASSUME s1' = s1, s4' = s4, s5' = s5, s6' = s6, s7' = s7, s3' \in Seq(Battery!Events)
      PROVE  Battery!LogInv'
  <2>1. Battery!LogTyped'
    BY <1>1, <1>3 DEF Battery!LogTyped
  <2>2. Battery!StillNow' = Battery!StillNow
    BY <1>3 DEF Battery!StillNow
  <2> QED
    BY <1>1, <1>2, <1>3, <2>1, <2>2, RowsStay
<1>4. ASSUME NEW s \in Battery!Events, Battery!Signal(s)
      PROVE  s3' \in Seq(Battery!Events)
  <2>1. s3' = <<>> \/ s3' = Append(s3, s)
    BY <1>4 DEF Battery!Signal
  <2>2. <<>> \in Seq(Battery!Events)
    OBVIOUS
  <2>3. Append(s3, s) \in Seq(Battery!Events)
    BY <1>1, AppendRecord
  <2> QED
    BY <2>1, <2>2, <2>3
\* A callback begins a snapshot.
<1>5. ASSUME NEW event \in Battery!Events, s4.at # "snapshot",
             s4' = [at |-> "snapshot", event |-> event, boottime |-> s1.boottime],
             s1' = s1, s5' = s5, s6' = s6, s7' = s7, s3' \in Seq(Battery!Events)
      PROVE  Battery!LogInv'
  <2>1. s4' \in Recorders /\ s4'.at = "snapshot" /\ s4'.event = event
        /\ s4'.boottime = s1.boottime
    BY <1>2, <1>5
  <2>2. Battery!LogTyped'
    BY <1>1, <1>5, <2>1 DEF Battery!LogTyped
  <2>3. Battery!StillNow' = Battery!StillNow
    BY <1>5, <2>1 DEF Battery!StillNow
  <2> QED
    BY <1>1, <1>2, <1>5, <2>1, <2>2, <2>3, RowsStay
<1>6. CASE Battery!Second
  <2>1. /\ s1' = [boottime |-> s1.boottime + 1,
                 mono |-> s1.mono + IF Battery!Running THEN 1 ELSE 0]
        /\ s7' = s7 + IF Battery!Running /\ s4.at = "snapshot" THEN 1 ELSE 0
        /\ s3' = s3 /\ s4' = s4 /\ s5' = s5 /\ s6' = s6
    BY <1>6 DEF Battery!Second
  <2>2. /\ s1'.boottime = s1.boottime + 1
        /\ s1'.mono = s1.mono + (IF Battery!Running THEN 1 ELSE 0)
        /\ s1' \in [boottime : Nat, mono : Nat] /\ s7' \in Nat /\ s7' >= s7
    BY <1>1, <1>2, <2>1
  <2>3. Battery!LogTyped'
    BY <1>1, <2>1, <2>2 DEF Battery!LogTyped
  <2>4. Battery!StillNow' >= Battery!StillNow
    <3>1. CASE s4.at = "snapshot"
      <4>1. Battery!StillNow = s4.boottime - s1.mono + s7
        BY <3>1 DEF Battery!StillNow
      <4>2. Battery!StillNow' = s4.boottime - s1'.mono + s7'
        BY <2>1, <3>1 DEF Battery!StillNow
      <4>3. \/ s1'.mono = s1.mono + 1 /\ s7' = s7 + 1
            \/ s1'.mono = s1.mono /\ s7' = s7
        BY ONLY <1>1, <1>2, <2>1, <2>2, <3>1
      <4>4. /\ s1.boottime \in Nat /\ s1.mono \in Nat /\ s4.boottime \in Nat /\ s7 \in Nat
            /\ s1'.boottime \in Nat /\ s1'.mono \in Nat /\ s7' \in Nat
        BY ONLY <1>1, <1>2, <2>2
      <4> QED
        BY ONLY <4>1, <4>2, <4>3, <4>4
    <3>2. CASE s4.at # "snapshot"
      <4>1. Battery!StillNow = s1.boottime - s1.mono + s7
        BY <3>2 DEF Battery!StillNow
      <4>2. Battery!StillNow' = s1'.boottime - s1'.mono + s7'
        BY <2>1, <3>2 DEF Battery!StillNow
      <4>3. /\ s7' = s7 /\ s1'.boottime = s1.boottime + 1
            /\ s1'.mono = s1.mono + 1 \/ s1'.mono = s1.mono
        BY ONLY <1>1, <1>2, <2>1, <2>2, <3>2
      <4>4. /\ s1.boottime \in Nat /\ s1.mono \in Nat /\ s4.boottime \in Nat /\ s7 \in Nat
            /\ s1'.boottime \in Nat /\ s1'.mono \in Nat /\ s7' \in Nat
        BY ONLY <1>1, <1>2, <2>2
      <4> QED
        BY ONLY <4>1, <4>2, <4>3, <4>4
    <3> QED
      BY <3>1, <3>2
  <2>5. s4'.at = "snapshot" => s4'.boottime <= s1'.boottime
    BY <1>1, <1>2, <2>1, <2>2
  <2> QED
    BY <2>1, <2>2, <2>3, <2>4, <2>5, RowsStay
<1>7. CASE Battery!PrepareForSleep
  BY <1>3, <1>4, <1>7 DEF Battery!PrepareForSleep, Battery!Events
<1>8. CASE Battery!Suspend
  BY <1>1, <1>3, <1>8 DEF Battery!Suspend
<1>9. CASE Battery!Wake
  BY <1>1, <1>3, <1>9 DEF Battery!Wake
<1>10. CASE Battery!Resumed
  BY <1>3, <1>4, <1>10 DEF Battery!Resumed, Battery!Events
<1>11. CASE Battery!Start
  BY <1>1, <1>5, <1>11 DEF Battery!Start, Battery!Events
<1>12. CASE Battery!Pm
  <2>1. s3 # <<>> /\ s3' = Tail(s3) /\ s1' = s1 /\ s5' = s5 /\ s6' = s6 /\ s7' = s7
        /\ s4.at # "snapshot"
        /\ s4' = [at |-> "snapshot", event |-> Head(s3), boottime |-> s1.boottime]
    BY <1>12 DEF Battery!Pm, Battery!Begin
  <2>2. Head(s3) \in Battery!Events /\ s3' \in Seq(Battery!Events)
    BY <1>1, <2>1
  <2> QED
    BY <1>5, <2>1, <2>2
<1>13. CASE Battery!Sample
  BY <1>1, <1>5, <1>13 DEF Battery!Sample, Battery!Begin, Battery!Events
<1>14. CASE Battery!Record
  BY <1>14, RowWritten
<1>15. CASE Battery!StopRecorder
  BY <1>1, <1>5, <1>15 DEF Battery!StopRecorder, Battery!Begin, Battery!Events
<1>16. CASE Battery!Kill
  <2>1. /\ s1' = s1 /\ s6' = s6 /\ s7' = s7 /\ s3' = <<>> /\ s5' = <<>>
        /\ s4' = [at |-> "over", event |-> "none", boottime |-> 0]
    BY <1>16 DEF Battery!Kill, Battery!Over, Battery!Idle
  <2>2. Battery!LogTyped'
    BY <1>1, <2>1 DEF Battery!LogTyped
  <2>3. Battery!StillNow <= Battery!StillNow' /\ Battery!StillNow' \in Int
    <3>1. Battery!StillNow' = s1.boottime - s1.mono + s7
      BY <2>1 DEF Battery!StillNow
    <3>2. \/ s4.at = "snapshot" /\ Battery!StillNow = s4.boottime - s1.mono + s7
          \/ Battery!StillNow = s1.boottime - s1.mono + s7
      BY DEF Battery!StillNow
    <3> QED
      BY <1>1, <1>2, <3>1, <3>2
  <2>4. (s6 \o s5)' = s6
    BY <1>1, <2>1, EmptyBehind
  <2> DEFINE all == s6 \o s5
  <2>5. /\ Len(s6) \in Nat /\ Len(all) \in Nat /\ Len(s6) <= Len(all)
        /\ \A i \in 1..Len(s6) : all[i] = s6[i] /\ s6[i] \in Battery!Rows
    BY <1>1, FrontOf
  <2>6. /\ \A i \in 1..Len(all) : \A j \in i..Len(all) :
             Battery!Still(all[i]) <= Battery!Still(all[j]) /\ all[i].held <= all[j].held
        /\ \A i \in 1..Len(all) :
             Battery!Still(all[i]) <= Battery!StillNow /\ all[i].held <= s7
    BY DEF Battery!LogInv, Battery!InOrder
  <2> HIDE DEF all
  <2>7. \A i \in 1..Len(s6) : Battery!Still(s6[i]) \in Int
    BY <2>5 DEF Battery!Still, Battery!Rows
  <2>8. Battery!InOrder(s6)
    BY <2>5, <2>6 DEF Battery!InOrder
  <2>9. \A i \in 1..Len(s6) : Battery!Still(s6[i]) <= Battery!StillNow' /\ s6[i].held <= s7'
    BY <1>2, <2>1, <2>3, <2>5, <2>6, <2>7
  <2>10. Battery!InOrder(s6 \o s5)'
    BY <2>4, <2>8 DEF Battery!InOrder, Battery!Still
  <2>11. \A i \in 1..Len((s6 \o s5)') :
          Battery!Still((s6 \o s5)'[i]) <= Battery!StillNow' /\ (s6 \o s5)'[i].held <= s7'
    BY <2>4, <2>9
  <2> QED
    BY <2>1, <2>2, <2>10, <2>11 DEF Battery!LogInv, Battery!Still
<1>17. CASE UNCHANGED slots
  BY <1>1, <1>3, <1>17 DEF slots
<1> QED
  BY <1>6, <1>7, <1>8, <1>9, <1>10, <1>11, <1>12, <1>13, <1>14, <1>15, <1>16, <1>17
     DEF Battery!LogNext

-----------------------------------------------------------------------------
(* The ticks of the triage. *)

\* How far the sum is after n rows.
SumLoop(rows, k, m, f) ==
  f = [n \in 0..m |-> IF n = 0 THEN 0 ELSE f[n - 1] + Triage!TicksIn(rows[n], k)]

LEMMA SumLoopLonger ==
  ASSUME NEW rows, NEW k, NEW m \in Nat, NEW f, SumLoop(rows, k, m, f)
  PROVE  \E g : SumLoop(rows, k, m + 1, g)
<1> DEFINE g == [n \in 0..(m + 1) |->
                   IF n <= m THEN f[n] ELSE f[m] + Triage!TicksIn(rows[n], k)]
           h == [n \in 0..(m + 1) |->
                   IF n = 0 THEN 0 ELSE g[n - 1] + Triage!TicksIn(rows[n], k)]
<1>1. \A n \in 0..(m + 1) : n # 0 => g[n - 1] = f[n - 1]
  OBVIOUS
<1>2. \A n \in 0..m : f[n] = IF n = 0 THEN 0 ELSE f[n - 1] + Triage!TicksIn(rows[n], k)
  BY DEF SumLoop
<1>3. \A n \in 0..(m + 1) : g[n] = h[n]
  BY <1>1, <1>2
<1>4. g = h
  <2>1. /\ DOMAIN g = 0..(m + 1) /\ DOMAIN h = 0..(m + 1)
        /\ g = [n \in DOMAIN g |-> g[n]] /\ h = [n \in DOMAIN h |-> h[n]]
    OBVIOUS
  <2> HIDE DEF g, h
  <2> QED
    BY <1>3, <2>1
<1> HIDE DEF g
<1> QED
  BY <1>4 DEF SumLoop, h

LEMMA SumLoopIs ==
  ASSUME NEW rows, NEW k, Len(rows) \in Nat
  PROVE  Triage!Summed(rows, k) =
           [n \in 0..Len(rows) |->
              IF n = 0 THEN 0
              ELSE Triage!Summed(rows, k)[n - 1] + Triage!TicksIn(rows[n], k)]
<1> DEFINE S == {m \in Nat : \E f : SumLoop(rows, k, m, f)}
<1>1. 0 \in S
  <2> DEFINE f == [n \in 0..0 |-> 0]
  <2>1. f = [n \in 0..0 |-> IF n = 0 THEN 0 ELSE f[n - 1] + Triage!TicksIn(rows[n], k)]
    OBVIOUS
  <2> HIDE DEF f
  <2> QED
    BY <2>1 DEF SumLoop
<1>2. \A n \in Nat : n \in S => n + 1 \in S
  BY SumLoopLonger
<1> HIDE DEF S
<1>3. Len(rows) \in S
  BY <1>1, <1>2, NatSetInduction
<1>4. PICK f : SumLoop(rows, k, Len(rows), f)
  BY <1>3 DEF S
<1> QED
  BY <1>4 DEF SumLoop, Triage!Summed

TriageRows == Triage!PlainRows \cup Triage!SampleRows

\* A row more adds what it gives.
LEMMA TicksAppended ==
  ASSUME NEW rows \in Seq(TriageRows), NEW row \in TriageRows, NEW k
  PROVE  Triage!CpuTicks(Append(rows, row), k)
           = Triage!CpuTicks(rows, k) + Triage!TicksIn(row, k)
<1> DEFINE L == Len(rows)
           more == Append(rows, row)
           f == Triage!Summed(rows, k)
           g == Triage!Summed(more, k)
           S == {n \in Nat : n <= L => g[n] = f[n]}
<1>1. /\ L \in Nat /\ Len(more) = L + 1 /\ more[L + 1] = row
      /\ \A i \in 1..L : more[i] = rows[i]
  <2> HIDE DEF TriageRows
  <2> QED
    BY AppendRecord
<1> HIDE DEF more
<1>2. f[0] = 0 /\ \A n \in 1..L : f[n] = f[n - 1] + Triage!TicksIn(rows[n], k)
  BY <1>1, SumLoopIs
<1>3. g[0] = 0 /\ \A n \in 1..(L + 1) : g[n] = g[n - 1] + Triage!TicksIn(more[n], k)
  BY <1>1, SumLoopIs
<1> HIDE DEF f, g, L
<1>4. 0 \in S
  BY <1>2, <1>3
<1>5. ASSUME NEW n \in Nat, n \in S
      PROVE  n + 1 \in S
  <2> SUFFICES ASSUME n + 1 <= L
               PROVE  g[n + 1] = f[n + 1]
    OBVIOUS
  <2>1. g[n] = f[n] /\ n + 1 \in 1..L /\ n + 1 \in 1..(L + 1) /\ (n + 1) - 1 = n
    BY <1>1, <1>5
  <2> QED
    BY <1>1, <1>2, <1>3, <2>1
<1>6. L \in S
  <2> HIDE DEF S
  <2> QED
    BY <1>1, <1>4, <1>5, NatSetInduction
<1>7. g[L + 1] = g[L] + Triage!TicksIn(row, k) /\ g[L] = f[L]
  <2>1. L + 1 \in 1..(L + 1) /\ (L + 1) - 1 = L
    BY <1>1
  <2> QED
    BY <1>1, <1>3, <1>6, <2>1
<1> QED
  BY <1>1, <1>7 DEF Triage!CpuTicks, f, g, L, more

LEMMA PlainRow ==
  ASSUME NEW row \in Triage!PlainRows
  PROVE  row \in TriageRows /\ row.event # "sample" /\ \A k : Triage!TicksIn(row, k) = 0
  BY DEF Triage!PlainRows, Triage!Ends, TriageRows, Triage!TicksIn

\* A plain row more.
LEMMA PlainAppended ==
  ASSUME NEW rows \in Seq(TriageRows), NEW row \in Triage!PlainRows,
         \A k \in Triage!Identities : Triage!CpuTicks(rows, k) \in Nat
  PROVE  /\ rows \o <<row>> = Append(rows, row) /\ Append(rows, row) \in Seq(TriageRows)
         /\ \A k \in Triage!Identities :
              Triage!CpuTicks(Append(rows, row), k) = Triage!CpuTicks(rows, k)
<1>1. row \in TriageRows /\ \A k : Triage!TicksIn(row, k) = 0
  BY PlainRow
<1>2. \A k : Triage!CpuTicks(Append(rows, row), k)
               = Triage!CpuTicks(rows, k) + Triage!TicksIn(row, k)
  BY <1>1, TicksAppended
<1>3. rows \o <<row>> = Append(rows, row) /\ Append(rows, row) \in Seq(TriageRows)
  <2> HIDE DEF TriageRows
  <2> QED
    BY ONLY <1>1, rows \in Seq(TriageRows)
<1> QED
  BY <1>1, <1>2, <1>3

\* ... keeps what the rows say.
LEMMA PlainOver ==
  ASSUME NEW rows \in Seq(TriageRows), NEW row \in Triage!PlainRows, NEW old, NEW new,
         Triage!RowsOver(rows, old), old # "stopped",
         old = "quitting" => new \in {"quitting", "stopped"},
         row.event \in Triage!Ends => new \in {"quitting", "stopped"},
         row.event = "stopped" => new = "stopped"
  PROVE  Triage!RowsOver(Append(rows, row), new)
<1> DEFINE L == Len(rows)
           more == Append(rows, row)
<1>1. row \in TriageRows /\ row.event # "sample"
  BY PlainRow
<1>2. /\ L \in Nat /\ DOMAIN rows = 1..L /\ DOMAIN more = 1..(L + 1) /\ Len(more) = L + 1
      /\ more[L + 1] = row /\ \A i \in 1..L : more[i] = rows[i]
  <2> HIDE DEF TriageRows
  <2> QED
    BY <1>1, AppendRecord
<1> HIDE DEF more, L
<1>3. /\ \A i \in 1..L :
           /\ rows[i].event \in Triage!Ends => new \in {"quitting", "stopped"}
           /\ rows[i].event # "stopped"
      /\ \A i, j \in 1..L :
           rows[i].event \in Triage!Ends /\ rows[j].event = "sample" => j < i
  BY <1>2 DEF Triage!RowsOver
<1>4. ASSUME NEW i \in 1..(L + 1)
      PROVE  /\ more[i].event \in Triage!Ends => new \in {"quitting", "stopped"}
             /\ more[i].event = "stopped" => i = L + 1 /\ new = "stopped"
  <2>1. CASE i = L + 1
    BY <1>2, <2>1
  <2>2. CASE i \in 1..L
    BY <1>2, <1>3, <2>2
  <2> QED
    BY <1>2, <2>1, <2>2
<1>5. ASSUME NEW i \in 1..(L + 1), NEW j \in 1..(L + 1),
             more[i].event \in Triage!Ends, more[j].event = "sample"
      PROVE  j < i
  <2>1. j \in 1..L
    BY <1>1, <1>2, <1>5
  <2>2. CASE i = L + 1
    BY <1>2, <2>1, <2>2
  <2>3. CASE i \in 1..L
    BY <1>2, <1>3, <1>5, <2>1, <2>3
  <2> QED
    BY <1>2, <2>2, <2>3
<1> QED
  BY <1>2, <1>4, <1>5 DEF Triage!RowsOver, more

\* A function of identities.
LEMMA PartFunction ==
  ASSUME NEW S, NEW f \in Triage!PartOf(S)
  PROVE  /\ DOMAIN f \in SUBSET Triage!Identities
         /\ \A k \in DOMAIN f : k \in Triage!Identities /\ f[k] \in S
  BY DEF Triage!PartOf

LEMMA FunctionPart ==
  ASSUME NEW S, NEW K \in SUBSET Triage!Identities, NEW f \in [K -> S]
  PROVE  f \in Triage!PartOf(S)
  BY DEF Triage!PartOf

LEMMA CountsTyped ==
  ASSUME Triage!TriageInv
  PROVE  /\ \A k \in Triage!Identities :
              s1.ticks[k] \in Triage!Counts /\ s1.ticks[k] \in Nat
         /\ \A k \in DOMAIN s4.current :
              /\ k \in Triage!Identities
              /\ s4.current[k] \in Triage!Counts /\ s4.current[k] \in Nat
         /\ \A k \in DOMAIN s4.previous :
              /\ k \in Triage!Identities
              /\ s4.previous[k] \in Triage!Counts /\ s4.previous[k] \in Nat
         /\ \A k \in DOMAIN s4.cache :
              k \in Triage!Identities /\ s4.cache[k] \in Triage!Starts
<1>1. /\ s1 \in [start : [TracedPids -> Triage!Starts],
                ticks : [Triage!Identities -> Triage!Counts]]
      /\ s4 \in [previous : Triage!PartOf(Triage!Counts),
                 cache : Triage!PartOf(Triage!Starts),
                 current : Triage!PartOf(Triage!Counts)]
  BY DEF Triage!TriageInv, Triage!TriageTyped
<1>2. \A n \in Triage!Counts : n \in Nat
  BY DEF Triage!Counts
<1>3. \A k \in Triage!Identities : s1.ticks[k] \in Triage!Counts
  BY <1>1
<1>4. /\ s4.current \in Triage!PartOf(Triage!Counts)
      /\ s4.previous \in Triage!PartOf(Triage!Counts)
      /\ s4.cache \in Triage!PartOf(Triage!Starts)
  BY <1>1
<1> QED
  BY <1>2, <1>3, <1>4, PartFunction

\* The processes only use more, and no row counts.
LEMMA CountsKept ==
  ASSUME Triage!TriageInv, s4' = s4,
         \A k \in Triage!Identities : s1'.ticks[k] \in Nat /\ s1'.ticks[k] >= s1.ticks[k],
         \A k \in Triage!Identities : Triage!CpuTicks(s6, k)' = Triage!CpuTicks(s6, k)
  PROVE  Triage!CountsInv'
<1> SUFFICES ASSUME NEW k \in Triage!Identities
             PROVE  /\ Triage!CpuTicks(s6, k)' \in Nat
                    /\ Triage!CpuTicks(s6, k)' <= s1'.ticks[k]
                    /\ k \in DOMAIN s4.previous =>
                         /\ Triage!CpuTicks(s6, k)' <= s4.previous[k]
                         /\ s4.previous[k] <= s1'.ticks[k]
                    /\ k \in DOMAIN s4.current =>
                         /\ Triage!CpuTicks(s6, k)' <= s4.current[k]
                         /\ s4.current[k] <= s1'.ticks[k]
  BY DEF Triage!CountsInv, Triage!Identities, Triage!Starts
<1>1. /\ k \in DOMAIN s4.previous => s4.previous[k] \in Nat
      /\ k \in DOMAIN s4.current => s4.current[k] \in Nat
  BY CountsTyped
<1>2. s1.ticks[k] \in Nat
  BY CountsTyped
<1> DEFINE t == Triage!CpuTicks(s6, k)
<1>3. /\ Triage!CpuTicks(s6, k)' = t /\ t \in Nat /\ t <= s1.ticks[k]
      /\ k \in DOMAIN s4.previous => t <= s4.previous[k] /\ s4.previous[k] <= s1.ticks[k]
      /\ k \in DOMAIN s4.current => t <= s4.current[k] /\ s4.current[k] <= s1.ticks[k]
  BY DEF Triage!TriageInv, Triage!CountsInv
<1> HIDE DEF t
<1> QED
  BY <1>1, <1>2, <1>3

\* The loop goes on, and nothing is written.
LEMMA LoopQuiet ==
  ASSUME Triage!TriageInv, Triage!TriageTyped', Triage!LoopInv', s4' = s4, s6' = s6,
         \A k \in Triage!Identities : s1'.ticks[k] \in Nat /\ s1'.ticks[k] >= s1.ticks[k],
         s3.state \in {"quitting", "stopped"} => s3'.state \in {"quitting", "stopped"},
         s3.state = "stopped" => s3'.state = "stopped"
  PROVE  Triage!TriageInv'
<1>1. \A k \in Triage!Identities : Triage!CpuTicks(s6, k)' = Triage!CpuTicks(s6, k)
  BY DEF Triage!CpuTicks, Triage!Summed, Triage!TicksIn
<1>2. Triage!CountsInv'
  BY <1>1, CountsKept
<1>3. Triage!RowsOver(s6, s3'.state)
  BY DEF Triage!TriageInv, Triage!RowsOver
<1>4. Triage!RowsOver(s6, s3.state)'
  BY <1>3 DEF Triage!RowsOver
<1> QED
  BY <1>2, <1>4 DEF Triage!TriageInv

\* Plain rows are written.
LEMMA RowsStep ==
  ASSUME Triage!TriageInv, Triage!LoopInv', s1' = s1, s4' = s4,
         s2' \in [boot : Nat, mono : Nat, asleep : BOOLEAN],
         s3' \in [state : Triage!States, idle : BOOLEAN, timer : BOOLEAN, due : Nat],
         s6' \in Seq(TriageRows), Triage!RowsOver(s6', s3'.state),
         \A k \in Triage!Identities : Triage!CpuTicks(s6', k) = Triage!CpuTicks(s6, k)
  PROVE  Triage!TriageInv'
<1>1. Triage!TriageTyped'
  BY DEF Triage!TriageInv, Triage!TriageTyped, TriageRows
<1>2. Triage!RowsOver(s6, s3.state)'
  BY DEF Triage!RowsOver
<1>3. \A k \in Triage!Identities : Triage!CpuTicks(s6, k)' = Triage!CpuTicks(s6, k)
  <2> SUFFICES ASSUME NEW k \in Triage!Identities
               PROVE  Triage!CpuTicks(s6, k)' = Triage!CpuTicks(s6, k)
    OBVIOUS
  <2>1. Triage!CpuTicks(s6, k)' = Triage!CpuTicks(s6', k)
    OBVIOUS
  <2> QED
    BY <2>1
<1>4. \A k \in Triage!Identities : s1'.ticks[k] \in Nat /\ s1'.ticks[k] >= s1.ticks[k]
  BY CountsTyped
<1>5. Triage!CountsInv'
  BY <1>3, <1>4, CountsKept
<1> QED
  BY <1>1, <1>2, <1>5 DEF Triage!TriageInv

\* What was written so far.
LEMMA Written ==
  ASSUME Triage!TriageInv
  PROVE  /\ s6 \in Seq(TriageRows) /\ Triage!RowsOver(s6, s3.state)
         /\ \A k \in Triage!Identities : Triage!CpuTicks(s6, k) \in Nat
  BY DEF Triage!TriageInv, Triage!TriageTyped, Triage!CountsInv, TriageRows

\* One plain row is written.
LEMMA RowStep ==
  ASSUME Triage!TriageInv, Triage!LoopInv', s1' = s1, s4' = s4,
         NEW row \in Triage!PlainRows, s6' = s6 \o <<row>>,
         s2' \in [boot : Nat, mono : Nat, asleep : BOOLEAN],
         s3' \in [state : Triage!States, idle : BOOLEAN, timer : BOOLEAN, due : Nat],
         s3.state # "stopped",
         s3.state = "quitting" => s3'.state \in {"quitting", "stopped"},
         row.event \in Triage!Ends => s3'.state \in {"quitting", "stopped"},
         row.event = "stopped" => s3'.state = "stopped"
  PROVE  Triage!TriageInv'
<1>1. /\ s6' = Append(s6, row) /\ Append(s6, row) \in Seq(TriageRows)
      /\ \A k \in Triage!Identities :
           Triage!CpuTicks(Append(s6, row), k) = Triage!CpuTicks(s6, k)
  BY Written, PlainAppended
<1>2. Triage!RowsOver(Append(s6, row), s3'.state)
  BY Written, PlainOver
<1> QED
  BY <1>1, <1>2, RowsStep

LEMMA IdentitiesFinite ==
  ASSUME Triage!CollectorAssumption, NEW K \in SUBSET Triage!Identities
  PROVE  Triage!Cardinality(K) \in Nat
<1>1. IsFiniteSet(TracedPids)
  <2>1. Triage!IsFiniteSet(TracedPids) = IsFiniteSet(TracedPids)
    BY DEF Triage!IsFiniteSet, IsFiniteSet
  <2> QED
    BY <2>1 DEF Triage!CollectorAssumption
<1>2. IsFiniteSet(Triage!Starts)
  BY FS_Interval DEF Triage!CollectorAssumption, Triage!Starts
<1>3. IsFiniteSet(Triage!Identities)
  BY <1>1, <1>2, FS_Product DEF Triage!Identities
<1>4. Triage!Cardinality(K) = Cardinality(K)
  BY DEF Triage!Cardinality, Cardinality
<1> QED
  BY <1>3, <1>4, FS_Subset, FS_CardinalityType

\* sample(): the row of the leaders.
LEMMA SampleRowHolds ==
  ASSUME Triage!TriageInv, Triage!SampleRow, Triage!CollectorAssumption
  PROVE  Triage!TriageInv'
<1> DEFINE Ids == Triage!Identities
<1>1. PICK leaders \in Triage!LeaderSets :
        /\ s6' = s6 \o <<[event |-> "sample",
                          delta |-> [k \in leaders |-> Triage!Delta(k)],
                          unit |-> [k \in leaders |-> Triage!Unit(k)],
                          omitted |-> Triage!Cardinality(Triage!Active)
                                        - Triage!Cardinality(leaders)]>>
        /\ s4' = [previous |-> s4.current, cache |-> Triage!Cache(leaders),
                  current |-> <<>>]
  BY DEF Triage!SampleRow, Triage!Emit, Triage!Previous
<1>2. /\ s3.state = "sampling" /\ s3' = [s3 EXCEPT !.state = "running"]
      /\ s1' = s1 /\ s2' = s2
  BY DEF Triage!SampleRow
<1>3. /\ s1 \in [start : [TracedPids -> Triage!Starts], ticks : [Ids -> Triage!Counts]]
      /\ s3 \in [state : Triage!States, idle : BOOLEAN, timer : BOOLEAN, due : Nat]
      /\ s4 \in [previous : Triage!PartOf(Triage!Counts),
                 cache : Triage!PartOf(Triage!Starts),
                 current : Triage!PartOf(Triage!Counts)]
      /\ s6 \in Seq(TriageRows)
  BY DEF Triage!TriageInv, Triage!TriageTyped, TriageRows
<1>4. /\ \A k \in DOMAIN s4.current : k \in Ids /\ s4.current[k] \in Triage!Counts
      /\ \A k \in DOMAIN s4.previous : k \in Ids /\ s4.previous[k] \in Triage!Counts
      /\ \A k \in DOMAIN s4.cache : k \in Ids /\ s4.cache[k] \in Triage!Starts
  BY CountsTyped
<1>5. /\ Triage!Active \in SUBSET Ids /\ leaders \in SUBSET Ids
      /\ \A k \in leaders : /\ k \in DOMAIN s4.current /\ k \in DOMAIN s4.previous
                            /\ Triage!Delta(k) = s4.current[k] - s4.previous[k]
                            /\ Triage!Delta(k) > 0
  BY <1>1, <1>4 DEF Triage!LeaderSets, Triage!Active, Triage!Delta
<1> DEFINE delta == [k \in leaders |-> Triage!Delta(k)]
           unit == [k \in leaders |-> Triage!Unit(k)]
           omitted == Triage!Cardinality(Triage!Active) - Triage!Cardinality(leaders)
           row == [event |-> "sample", delta |-> delta, unit |-> unit,
                   omitted |-> omitted]
           cache == Triage!Cache(leaders)
<1>6. \A k \in Ids : Triage!Unit(k) \in Triage!Starts
  <2> SUFFICES ASSUME NEW k \in Ids
               PROVE  Triage!Unit(k) \in Triage!Starts
    OBVIOUS
  <2>1. k[1] \in TracedPids
    BY DEF Triage!Identities
  <2>2. s1.start[k[1]] \in Triage!Starts
    BY <1>3, <2>1
  <2> QED
    BY <1>4, <2>2 DEF Triage!Unit
<1>7. delta \in Triage!PartOf(Triage!Counts)
  <2>1. ASSUME NEW k \in leaders
        PROVE  Triage!Delta(k) \in Triage!Counts
    <3>1. /\ s4.current[k] \in 0..MaxUsed /\ s4.previous[k] \in 0..MaxUsed
          /\ Triage!Delta(k) = s4.current[k] - s4.previous[k] /\ Triage!Delta(k) > 0
      BY <1>4, <1>5 DEF Triage!Counts
    <3>2. MaxUsed \in Nat
      BY DEF Triage!CollectorAssumption
    <3> QED
      BY ONLY <3>1, <3>2 DEF Triage!Counts
  <2>2. delta \in [leaders -> Triage!Counts]
    BY <2>1
  <2> QED
    BY <1>5, <2>2, FunctionPart
<1>8. unit \in Triage!PartOf(Triage!Starts)
  <2>1. unit \in [leaders -> Triage!Starts]
    BY <1>5, <1>6
  <2> QED
    BY <1>5, <2>1, FunctionPart
<1>9. cache \in Triage!PartOf(Triage!Starts)
  <2> DEFINE K == (DOMAIN s4.cache \cup leaders) \cap DOMAIN s4.current
  <2>1. K \in SUBSET Ids
    BY <1>4
  <2>2. cache \in [K -> Triage!Starts]
    BY <1>6, <2>1 DEF Triage!Cache
  <2> QED
    BY <2>1, <2>2, FunctionPart
<1>10. omitted \in Int
  BY <1>5, IdentitiesFinite
<1>11. /\ \A k \in leaders : delta[k] = Triage!Delta(k)
       /\ DOMAIN delta = leaders
  OBVIOUS
<1> HIDE DEF delta, unit, omitted, cache
<1>12. row \in TriageRows /\ row.event = "sample" /\ row.delta = delta
  BY <1>7, <1>8, <1>10 DEF TriageRows, Triage!SampleRows
<1>13. /\ s6' = s6 \o <<row>>
       /\ s4' = [previous |-> s4.current, cache |-> cache, current |-> <<>>]
  BY <1>1 DEF delta, unit, omitted, cache
<1>14. \A k : Triage!TicksIn(row, k) = IF k \in leaders THEN Triage!Delta(k) ELSE 0
  BY <1>11, <1>12 DEF Triage!TicksIn
<1> HIDE DEF row
<1> DEFINE more == Append(s6, row)
           L == Len(s6)
<1>15. /\ s6' = more /\ more \in Seq(TriageRows)
       /\ \A k : Triage!CpuTicks(more, k)
                   = Triage!CpuTicks(s6, k) + Triage!TicksIn(row, k)
  <2>1. \A k : Triage!CpuTicks(more, k) = Triage!CpuTicks(s6, k) + Triage!TicksIn(row, k)
    BY <1>3, <1>12, TicksAppended
  <2>2. s6 \o <<row>> = more /\ more \in Seq(TriageRows)
    <3> HIDE DEF TriageRows
    <3> QED
      BY ONLY <1>3, <1>12
  <2> QED
    BY <1>13, <2>1, <2>2
<1>16. /\ L \in Nat /\ DOMAIN s6 = 1..L /\ DOMAIN more = 1..(L + 1) /\ Len(more) = L + 1
       /\ more[L + 1] = row /\ \A i \in 1..L : more[i] = s6[i]
  <2> HIDE DEF TriageRows
  <2> QED
    BY <1>3, <1>12, AppendRecord
<1> HIDE DEF more, L
<1>17. /\ s3'.state = "running" /\ s3'.idle = s3.idle /\ s3'.timer = s3.timer
       /\ s3'.due = s3.due
       /\ s3' \in [state : Triage!States, idle : BOOLEAN, timer : BOOLEAN, due : Nat]
  BY <1>2, <1>3 DEF Triage!States
<1>18. s4' \in [previous : Triage!PartOf(Triage!Counts),
                  cache : Triage!PartOf(Triage!Starts),
                current : Triage!PartOf(Triage!Counts)]
       /\ s4'.previous = s4.current /\ DOMAIN s4'.current = {}
  <2>1. <<>> \in Triage!PartOf(Triage!Counts)
    <3>1. <<>> \in [{} -> Triage!Counts] /\ {} \in SUBSET Ids
      OBVIOUS
    <3> QED
      BY <3>1, FunctionPart
  <2> QED
    BY <1>3, <1>9, <1>13, <2>1
<1>19. Triage!TriageTyped'
  BY <1>2, <1>15, <1>17, <1>18 DEF Triage!TriageInv, Triage!TriageTyped, TriageRows
<1>20. Triage!LoopInv'
  <2>1. ~s2.asleep /\ s2.mono <= s2.boot
    BY <1>2 DEF Triage!TriageInv, Triage!LoopInv
  <2> QED
    BY <1>2, <1>17, <2>1 DEF Triage!LoopInv
<1>21. Triage!RowsOver(more, "running")
  <2>1. \A i \in 1..L : s6[i].event \notin Triage!Ends /\ s6[i].event # "stopped"
    BY <1>2, <1>16 DEF Triage!TriageInv, Triage!RowsOver
  <2>2. row.event \notin Triage!Ends /\ row.event # "stopped"
    BY <1>12 DEF Triage!Ends
  <2>3. \A i \in 1..(L + 1) :
          more[i].event \notin Triage!Ends /\ more[i].event # "stopped"
    <3> SUFFICES ASSUME NEW i \in 1..(L + 1)
                 PROVE  more[i].event \notin Triage!Ends /\ more[i].event # "stopped"
      OBVIOUS
    <3>1. i \in 1..L \/ i = L + 1
      BY <1>16
    <3> QED
      BY <1>16, <2>1, <2>2, <3>1
  <2> QED
    BY <1>16, <2>3 DEF Triage!RowsOver
<1>22. Triage!RowsOver(s6, s3.state)'
  BY <1>15, <1>17, <1>21 DEF Triage!RowsOver
<1>23. ASSUME NEW k \in Ids
       PROVE  /\ Triage!CpuTicks(more, k) \in Nat
              /\ Triage!CpuTicks(more, k) <= s1.ticks[k]
              /\ k \in DOMAIN s4.current =>
                   Triage!CpuTicks(more, k) <= s4.current[k] /\ s4.current[k] <= s1.ticks[k]
  <2> DEFINE t == Triage!CpuTicks(s6, k)
             u == Triage!CpuTicks(more, k)
             top == s1.ticks[k]
             now == s4.current[k]
             before == s4.previous[k]
  <2>1. /\ t \in Nat /\ t <= top /\ top \in Nat
        /\ k \in DOMAIN s4.previous => t <= before /\ before <= top /\ before \in Nat
        /\ k \in DOMAIN s4.current => t <= now /\ now <= top /\ now \in Nat
    <3>1. /\ t \in Nat /\ t <= top
          /\ k \in DOMAIN s4.previous => t <= before /\ before <= top
          /\ k \in DOMAIN s4.current => t <= now /\ now <= top
      BY <1>23 DEF Triage!TriageInv, Triage!CountsInv
    <3> QED
      BY <1>23, <3>1, CountsTyped
  <2>2. u = t + (IF k \in leaders THEN now - before ELSE 0)
        /\ (k \in leaders => /\ now - before > 0
                             /\ k \in DOMAIN s4.current /\ k \in DOMAIN s4.previous)
    BY <1>5, <1>14, <1>15
  <2> HIDE DEF t, u, top, now, before
  <2>3. u \in Nat /\ u <= top /\ (k \in DOMAIN s4.current => u <= now /\ now <= top)
    <3>1. CASE k \in leaders
      BY <2>1, <2>2, <3>1
    <3>2. CASE k \notin leaders
      BY <2>1, <2>2, <3>2
    <3> QED
      BY <3>1, <3>2
  <2> QED
    BY <2>3 DEF u, top, now
<1>24. Triage!CountsInv'
  <2>1. ASSUME NEW k \in Ids
        PROVE  Triage!CpuTicks(s6, k)' = Triage!CpuTicks(more, k)
    <3>1. Triage!CpuTicks(s6, k)' = Triage!CpuTicks(s6', k)
      OBVIOUS
    <3> QED
      BY <1>15, <3>1
  <2> QED
    BY <1>2, <1>18, <1>23, <2>1 DEF Triage!CountsInv, Triage!Identities, Triage!Starts
<1> QED
  BY <1>19, <1>20, <1>22, <1>24 DEF Triage!TriageInv

\* The clocks, and the loop when a sample is due.
TriageTimes == [boot : Nat, mono : Nat, asleep : BOOLEAN]

LEMMA LoopSampled ==
  ASSUME Triage!SampleSource, NEW now \in Nat, s2.mono = now,
         NEW over \in BOOLEAN, Triage!Expired <=> over,
         s3 \in [state : Triage!States, idle : BOOLEAN, timer : BOOLEAN, due : Nat]
  PROVE  /\ s3' \in [state : Triage!States, idle : BOOLEAN, timer : BOOLEAN, due : Nat]
         /\ s3'.state = IF over THEN "quitting" ELSE "sampling"
<1> DEFINE st == IF over THEN "quitting" ELSE "sampling"
           tm == ~over
<1>1. st \in Triage!States /\ tm \in BOOLEAN /\ now + 1 \in Nat
  BY DEF Triage!States
<1>2. Triage!Expired = over
  BY Zenon
<1>3. \/ s3' = [s3 EXCEPT !.idle = FALSE, !.state = st]
      \/ s3' = [s3 EXCEPT !.due = now + 1, !.timer = tm, !.state = st]
  BY <1>2, Zenon DEF Triage!SampleSource
<1> HIDE DEF st, tm
<1>4. CASE s3' = [s3 EXCEPT !.idle = FALSE, !.state = st]
  BY <1>1, <1>4 DEF st
<1>5. CASE s3' = [s3 EXCEPT !.due = now + 1, !.timer = tm, !.state = st]
  <2> DEFINE due == now + 1
  <2>1. due \in Nat /\ s3' = [s3 EXCEPT !.due = due, !.timer = tm, !.state = st]
    BY <1>1, <1>5
  <2> HIDE DEF due
  <2> QED
    BY <1>1, <2>1 DEF st
<1> QED
  BY <1>3, <1>4, <1>5

\* process_stats(): the counters of the processes that can be read.
LEMMA SampleStatsHolds ==
  ASSUME Triage!TriageInv, Triage!SampleStats
  PROVE  Triage!TriageInv'
<1> DEFINE Loops == [state : Triage!States, idle : BOOLEAN, timer : BOOLEAN, due : Nat]
<1>1. /\ s1 \in [start : [TracedPids -> Triage!Starts],
                ticks : [Triage!Identities -> Triage!Counts]]
      /\ s2 \in [boot : Nat, mono : Nat, asleep : BOOLEAN] /\ s3 \in Loops
      /\ s4 \in [previous : Triage!PartOf(Triage!Counts),
                 cache : Triage!PartOf(Triage!Starts),
                 current : Triage!PartOf(Triage!Counts)]
      /\ s2.mono <= s2.boot
  BY DEF Triage!TriageInv, Triage!TriageTyped, Triage!LoopInv
<1>2. /\ s1' = s1 /\ s2' = s2 /\ s6' = s6 /\ ~Triage!Expired /\ ~s2.asleep
      /\ s3.state = "running"
  BY DEF Triage!SampleStats, Triage!Dispatching, Triage!TriageInv, Triage!LoopInv
<1>3. s3' \in Loops /\ s3'.state = "sampling"
  <2>1. Triage!SampleSource /\ s2.mono \in Nat /\ (Triage!Expired <=> FALSE)
    BY <1>1, <1>2 DEF Triage!SampleStats
  <2> QED
    BY <1>1, <2>1, LoopSampled
<1>4. PICK readable \in SUBSET TracedPids :
        s4' = [s4 EXCEPT !.current =
                 [k \in {<<p, s1.start[p]>> : p \in readable} |-> s1.ticks[k]]]
  BY DEF Triage!SampleStats
<1> DEFINE K == {<<p, s1.start[p]>> : p \in readable}
           seen == [k \in K |-> s1.ticks[k]]
<1>5. K \in SUBSET Triage!Identities
  BY <1>1, <1>4 DEF Triage!Identities
<1>6. seen \in Triage!PartOf(Triage!Counts) /\ DOMAIN seen = K
      /\ \A k \in K : seen[k] = s1.ticks[k]
  <2>1. seen \in [K -> Triage!Counts]
    BY <1>1, <1>5
  <2> QED
    BY <1>5, <2>1, FunctionPart
<1> HIDE DEF K
<1>7. s4' = [s4 EXCEPT !.current = seen]
  BY <1>4 DEF K
<1> HIDE DEF seen
<1>8. /\ s4' \in [previous : Triage!PartOf(Triage!Counts),
                  cache : Triage!PartOf(Triage!Starts),
                  current : Triage!PartOf(Triage!Counts)]
      /\ s4'.previous = s4.previous /\ s4'.current = seen
  BY <1>1, <1>6, <1>7
<1>9. Triage!TriageTyped'
  BY <1>1, <1>2, <1>3, <1>8 DEF Triage!TriageInv, Triage!TriageTyped
<1>10. Triage!LoopInv'
  BY <1>1, <1>2, <1>3 DEF Triage!LoopInv, Triage!Expired
<1>11. Triage!RowsOver(s6, "sampling")
  BY <1>2, Written DEF Triage!RowsOver
<1>12. Triage!RowsOver(s6, s3.state)'
  BY <1>2, <1>3, <1>11 DEF Triage!RowsOver
<1>13. Triage!CountsInv'
  <2> SUFFICES ASSUME NEW k \in Triage!Identities
               PROVE  /\ Triage!CpuTicks(s6, k)' \in Nat
                      /\ Triage!CpuTicks(s6, k)' <= s1'.ticks[k]
                      /\ k \in DOMAIN s4'.previous =>
                           /\ Triage!CpuTicks(s6, k)' <= s4'.previous[k]
                           /\ s4'.previous[k] <= s1'.ticks[k]
                      /\ k \in DOMAIN s4'.current =>
                           /\ Triage!CpuTicks(s6, k)' <= s4'.current[k]
                           /\ s4'.current[k] <= s1'.ticks[k]
    BY DEF Triage!CountsInv, Triage!Identities, Triage!Starts
  <2>1. Triage!CpuTicks(s6, k)' = Triage!CpuTicks(s6', k)
    OBVIOUS
  <2>2. /\ Triage!CpuTicks(s6, k) \in Nat /\ Triage!CpuTicks(s6, k) <= s1.ticks[k]
        /\ k \in DOMAIN s4.previous =>
             /\ Triage!CpuTicks(s6, k) <= s4.previous[k] /\ s4.previous[k] <= s1.ticks[k]
    BY DEF Triage!TriageInv, Triage!CountsInv
  <2>3. s1.ticks[k] \in Nat
    BY CountsTyped
  <2> QED
    BY <1>2, <1>6, <1>8, <2>1, <2>2, <2>3
<1> QED
  BY <1>9, <1>10, <1>12, <1>13 DEF Triage!TriageInv

\* on_sleep(FALSE): one row, or two when the capture is over.
LEMMA ResumeHolds ==
  ASSUME Triage!TriageInv, Triage!Resume
  PROVE  Triage!TriageInv'
<1> DEFINE Loops == [state : Triage!States, idle : BOOLEAN, timer : BOOLEAN, due : Nat]
           woken == [event |-> "prepare-for-sleep"]
           ended == [event |-> "duration-expired-after-resume"]
<1>1. /\ s2 \in [boot : Nat, mono : Nat, asleep : BOOLEAN] /\ s3 \in Loops
      /\ s2.mono <= s2.boot
  BY DEF Triage!TriageInv, Triage!TriageTyped, Triage!LoopInv
<1>2. /\ s1' = s1 /\ s4' = s4 /\ s2' = [s2 EXCEPT !.asleep = FALSE, !.boot = s2.boot + 1]
      /\ s3.state = "running"
      /\ s6' = s6 \o (<<woken>> \o IF Triage!Expired' THEN <<ended>> ELSE <<>>)
      /\ s3' = IF Triage!Expired' THEN [s3 EXCEPT !.state = "quitting"] ELSE s3
  BY DEF Triage!Resume, Triage!Emit, Triage!Row, Triage!TriageInv, Triage!LoopInv
<1>3. /\ s2' \in [boot : Nat, mono : Nat, asleep : BOOLEAN] /\ ~s2'.asleep
      /\ s2'.mono <= s2'.boot
  <2> DEFINE later == s2.boot + 1
  <2>1. later \in Nat /\ s2.mono \in Nat /\ s2.mono <= later
    BY <1>1
  <2>2. s2' = [s2 EXCEPT !.asleep = FALSE, !.boot = later]
    BY <1>2
  <2> HIDE DEF later
  <2> QED
    BY <1>1, <2>1, <2>2 DEF TriageTimes
<1>4. woken \in Triage!PlainRows /\ woken.event = "prepare-for-sleep"
      /\ ended \in Triage!PlainRows
  BY DEF Triage!PlainRows, Triage!Ends
<1> HIDE DEF woken, ended
<1>5. CASE Triage!Expired'
  <2>1. s3' \in Loops /\ s3'.state = "quitting"
    BY <1>1, <1>2, <1>5 DEF Triage!States
  <2>2. Triage!LoopInv'
    BY <1>3, <1>5, <2>1 DEF Triage!LoopInv
  <2> DEFINE one == Append(s6, woken)
             two == Append(one, ended)
  <2>3. /\ s6 \o <<woken>> = one /\ one \in Seq(TriageRows)
        /\ \A k \in Triage!Identities : Triage!CpuTicks(one, k) = Triage!CpuTicks(s6, k)
    BY <1>4, Written, PlainAppended
  <2>4. Triage!RowsOver(one, "running")
    BY <1>2, <1>4, Written, PlainOver DEF Triage!Ends
  <2> HIDE DEF one
  <2>5. /\ one \o <<ended>> = two /\ two \in Seq(TriageRows)
        /\ \A k \in Triage!Identities : Triage!CpuTicks(two, k) = Triage!CpuTicks(one, k)
    BY <1>4, <2>3, Written, PlainAppended
  <2>6. Triage!RowsOver(two, "quitting")
    <3>1. ended.event # "stopped"
      BY DEF ended
    <3> QED
      BY <1>4, <2>3, <2>4, <3>1, PlainOver
  <2> HIDE DEF two
  <2>7. s6' = two
    <3>1. s6 \o (<<woken>> \o <<ended>>) = (s6 \o <<woken>>) \o <<ended>>
      <4>1. s6 \in Seq(TriageRows) /\ woken \in TriageRows /\ ended \in TriageRows
        BY <1>4, Written, PlainRow
      <4> HIDE DEF TriageRows
      <4> QED
        BY ONLY <4>1
    <3> QED
      BY <1>2, <1>5, <2>3, <2>5, <3>1
  <2> QED
    BY <1>2, <1>3, <2>1, <2>2, <2>3, <2>5, <2>6, <2>7, RowsStep
<1>6. CASE ~Triage!Expired'
  <2>1. s3' = s3 /\ Triage!LoopInv'
    BY <1>2, <1>3, <1>6 DEF Triage!LoopInv
  <2>2. s6' = s6 \o <<woken>>
    <3>1. <<woken>> \o <<>> = <<woken>>
      OBVIOUS
    <3> QED
      BY <1>2, <1>6, <3>1
  <2>3. woken.event \notin Triage!Ends /\ woken.event # "stopped"
    BY <1>4 DEF Triage!Ends
  <2> QED
    BY <1>1, <1>2, <1>3, <1>4, <2>1, <2>2, <2>3, RowStep
<1> QED
  BY <1>5, <1>6

LEMMA TriageInitHolds ==
  ASSUME Triage!Init, Triage!CollectorAssumption
  PROVE  Triage!TriageInv
<1>1. /\ s1 = [start |-> [p \in TracedPids |-> 1],
               ticks |-> [k \in Triage!Identities |-> 0]]
      /\ s2 = [boot |-> 0, mono |-> 0, asleep |-> FALSE]
      /\ s3 = [state |-> "new", idle |-> TRUE, timer |-> TRUE, due |-> 1]
      /\ s4 = [previous |-> <<>>, cache |-> <<>>, current |-> <<>>] /\ s6 = <<>>
  BY DEF Triage!Init
<1>2. 1 \in Triage!Starts /\ 0 \in Triage!Counts
  BY DEF Triage!CollectorAssumption, Triage!Starts, Triage!Counts
<1>3. <<>> \in Triage!PartOf(Triage!Counts) /\ <<>> \in Triage!PartOf(Triage!Starts)
  <2>1. <<>> \in [{} -> Triage!Counts] /\ <<>> \in [{} -> Triage!Starts]
        /\ {} \in SUBSET Triage!Identities
    OBVIOUS
  <2> QED
    BY <2>1, FunctionPart
<1>4. Triage!TriageTyped
  BY <1>1, <1>2, <1>3 DEF Triage!TriageTyped, Triage!States
<1>5. Triage!LoopInv
  BY <1>1 DEF Triage!LoopInv
<1>6. Triage!RowsOver(s6, s3.state)
  BY <1>1 DEF Triage!RowsOver
<1>7. Triage!CountsInv
  <2> SUFFICES ASSUME NEW k \in Triage!Identities
               PROVE  Triage!CpuTicks(s6, k) = 0
    BY <1>1 DEF Triage!CountsInv
  <2>1. Len(s6) = 0
    BY <1>1
  <2>2. Triage!Summed(s6, k)[0] = 0
    BY <2>1, SumLoopIs
  <2> QED
    BY <2>1, <2>2 DEF Triage!CpuTicks
<1> QED
  BY <1>4, <1>5, <1>6, <1>7 DEF Triage!TriageInv

LEMMA TriageStepHolds ==
  ASSUME Triage!TriageInv, [Triage!Next]_slots, Triage!CollectorAssumption
  PROVE  Triage!TriageInv'
<1> DEFINE Loops == [state : Triage!States, idle : BOOLEAN, timer : BOOLEAN, due : Nat]
           Times == [boot : Nat, mono : Nat, asleep : BOOLEAN]
<1>1. /\ s1 \in [start : [TracedPids -> Triage!Starts],
                ticks : [Triage!Identities -> Triage!Counts]]
      /\ s2 \in Times /\ s3 \in Loops /\ s2.mono <= s2.boot
  BY DEF Triage!TriageInv, Triage!TriageTyped, Triage!LoopInv
<1>2. /\ s2.asleep => s3.state = "running"
      /\ s3.state = "sampling" => ~Triage!Expired
      /\ s3.state \in {"quitting", "stopped"} => Triage!Expired
  BY DEF Triage!TriageInv, Triage!LoopInv
<1>3. s2.boot \in Nat /\ s2.mono \in Nat /\ Duration \in Nat
  BY <1>1 DEF Triage!CollectorAssumption
<1>4. \A k \in Triage!Identities : s1.ticks[k] \in Nat
  BY CountsTyped
<1>5. \A e \in Triage!Ends
              \cup {"armed", "prepare-for-sleep", "logind-request", "stopped"} :
        Triage!Row(e) \in Triage!PlainRows /\ Triage!Row(e).event = e
  BY DEF Triage!Row, Triage!PlainRows
<1>6. CASE Triage!Arm
  <2>1. /\ s1' = s1 /\ s2' = s2 /\ s4' = s4 /\ s6' = s6 \o <<Triage!Row("armed")>>
        /\ s3.state = "new" /\ s3' \in Loops /\ s3'.state = "running"
    BY <1>1, <1>6 DEF Triage!Arm, Triage!Emit, Triage!States
  <2>2. Triage!LoopInv'
    BY <1>1, <1>2, <2>1 DEF Triage!LoopInv
  <2>3. /\ Triage!Row("armed") \in Triage!PlainRows
        /\ Triage!Row("armed").event \notin Triage!Ends
        /\ Triage!Row("armed").event # "stopped"
    BY <1>5 DEF Triage!Ends
  <2> QED
    BY <1>1, <2>1, <2>2, <2>3, RowStep
<1>7. CASE Triage!SampleExpired
  <2>1. /\ s1' = s1 /\ s2' = s2 /\ s4' = s4
        /\ s6' = s6 \o <<Triage!Row("duration-expired")>>
        /\ s3.state \in {"running", "quitting"} /\ ~s2.asleep /\ Triage!Expired
        /\ Triage!SampleSource
    BY <1>7 DEF Triage!SampleExpired, Triage!Emit, Triage!Dispatching
  <2>2. s3' \in Loops /\ s3'.state = "quitting"
    <3>1. s2.mono \in Nat /\ (Triage!Expired <=> TRUE)
      BY <1>3, <2>1
    <3> QED
      BY <1>1, <2>1, <3>1, LoopSampled
  <2>3. Triage!LoopInv'
    BY <1>1, <2>1, <2>2 DEF Triage!LoopInv, Triage!Expired
  <2>4. /\ Triage!Row("duration-expired") \in Triage!PlainRows
        /\ Triage!Row("duration-expired").event # "stopped"
    BY <1>5 DEF Triage!Ends
  <2> QED
    BY <1>1, <2>1, <2>2, <2>3, <2>4, RowStep
<1>8. CASE Triage!SampleStats
  BY <1>8, SampleStatsHolds
<1>9. CASE Triage!SampleRow
  BY <1>9, SampleRowHolds
<1>10. CASE Triage!DurationTimer
  <2>1. /\ s1' = s1 /\ s2' = s2 /\ s4' = s4 /\ s6' = s6 /\ ~s2.asleep
        /\ s3.state = "running" /\ s2.mono >= Duration
        /\ s3' \in Loops /\ s3'.state = "quitting"
    BY <1>1, <1>10 DEF Triage!DurationTimer, Triage!Dispatching, Triage!States
  <2>2. Triage!LoopInv'
    BY <1>1, <1>3, <2>1 DEF Triage!LoopInv, Triage!Expired
  <2>3. Triage!TriageTyped'
    BY <2>1 DEF Triage!TriageInv, Triage!TriageTyped
  <2> QED
    BY <1>4, <2>1, <2>2, <2>3, LoopQuiet
<1>11. CASE Triage!GoToSleep
  <2>1. /\ s1' = s1 /\ s3' = s3 /\ s4' = s4 /\ s3.state = "running"
        /\ s6' = s6 \o <<Triage!Row("prepare-for-sleep")>>
        /\ s2' \in Times /\ s2'.boot = s2.boot /\ s2'.mono = s2.mono
    BY <1>1, <1>11 DEF Triage!GoToSleep, Triage!Emit
  <2>2. Triage!LoopInv'
    BY <1>1, <2>1 DEF Triage!LoopInv
  <2>3. /\ Triage!Row("prepare-for-sleep") \in Triage!PlainRows
        /\ Triage!Row("prepare-for-sleep").event \notin Triage!Ends
        /\ Triage!Row("prepare-for-sleep").event # "stopped"
    BY <1>5 DEF Triage!Ends
  <2> QED
    BY <1>1, <2>1, <2>2, <2>3, RowStep
<1>12. CASE Triage!Resume
  BY <1>12, ResumeHolds
\* Nothing the invariant is about.
<1>13. ASSUME s1' = s1, s2' = s2, s3' = s3, s4' = s4, s6' = s6
       PROVE  Triage!TriageInv'
  <2>1. Triage!LoopInv' /\ Triage!TriageTyped'
    BY <1>13 DEF Triage!TriageInv, Triage!LoopInv, Triage!TriageTyped, Triage!Expired
  <2> QED
    BY <1>4, <1>13, <2>1, LoopQuiet
<1>14. CASE Triage!RequestSeen
  BY <1>13, <1>14 DEF Triage!RequestSeen
<1>15. CASE Triage!StartLookup
  BY <1>13, <1>15 DEF Triage!StartLookup
<1>16. CASE Triage!LookupDone
  <2>1. /\ s1' = s1 /\ s2' = s2 /\ s3' = s3 /\ s4' = s4 /\ s3.state # "stopped"
        /\ s6' = s6 \o <<Triage!Row("logind-request")>>
    BY <1>16 DEF Triage!LookupDone, Triage!Emit, Triage!Dispatching
  <2>2. Triage!LoopInv'
    BY <2>1 DEF Triage!TriageInv, Triage!LoopInv, Triage!Expired
  <2>3. /\ Triage!Row("logind-request") \in Triage!PlainRows
        /\ Triage!Row("logind-request").event \notin Triage!Ends
        /\ Triage!Row("logind-request").event # "stopped"
    BY <1>5 DEF Triage!Ends
  <2> QED
    BY <1>1, <2>1, <2>2, <2>3, RowStep
<1>17. CASE Triage!Stopped
  <2>1. /\ s1' = s1 /\ s2' = s2 /\ s4' = s4 /\ s6' = s6 \o <<Triage!Row("stopped")>>
        /\ s3.state = "quitting" /\ s3' \in Loops /\ s3'.state = "stopped"
    BY <1>1, <1>17 DEF Triage!Stopped, Triage!Emit, Triage!States
  <2>2. Triage!LoopInv'
    BY <1>1, <1>2, <2>1 DEF Triage!LoopInv, Triage!Expired
  <2>3. Triage!Row("stopped") \in Triage!PlainRows
    BY <1>5
  <2> QED
    BY <1>1, <2>1, <2>2, <2>3, RowStep
<1>18. CASE Triage!Reuse
  <2>1. /\ s2' = s2 /\ s3' = s3 /\ s4' = s4 /\ s6' = s6
        /\ \E p \in TracedPids :
             s1.start[p] < MaxStart /\ s1' = [s1 EXCEPT !.start[p] = s1.start[p] + 1]
    BY <1>18 DEF Triage!Reuse
  <2>2. PICK p \in TracedPids :
          s1.start[p] < MaxStart /\ s1' = [s1 EXCEPT !.start[p] = s1.start[p] + 1]
    BY <2>1
  <2>3. s1.start[p] + 1 \in Triage!Starts
    <3>1. s1.start[p] \in 1..MaxStart /\ MaxStart \in Nat
      BY <1>1 DEF Triage!Starts, Triage!CollectorAssumption
    <3> QED
      BY ONLY <2>2, <3>1 DEF Triage!Starts
  <2> DEFINE next == s1.start[p] + 1
             start == [s1.start EXCEPT ![p] = next]
  <2> HIDE DEF next
  <2>4. start \in [TracedPids -> Triage!Starts]
    BY <1>1, <2>3 DEF next
  <2>5. s1' = [s1 EXCEPT !.start = start]
    BY <1>1, <2>2 DEF next
  <2> HIDE DEF start
  <2>6. /\ s1' \in [start : [TracedPids -> Triage!Starts],
                   ticks : [Triage!Identities -> Triage!Counts]]
        /\ s1'.ticks = s1.ticks
    BY <1>1, <2>4, <2>5
  <2>7. Triage!LoopInv' /\ Triage!TriageTyped'
    BY <2>1, <2>6 DEF Triage!TriageInv, Triage!LoopInv, Triage!TriageTyped, Triage!Expired
  <2> QED
    BY <1>4, <2>1, <2>6, <2>7, LoopQuiet
<1>19. CASE Triage!Tick
  <2>1. /\ s3' = s3 /\ s4' = s4 /\ s6' = s6 /\ s3.state = "running" /\ ~s2.asleep
        /\ s2' = [s2 EXCEPT !.boot = s2.boot + 1, !.mono = s2.mono + 1]
    BY <1>19 DEF Triage!Tick
  <2>2. PICK busy \in SUBSET TracedPids, reused \in SUBSET TracedPids :
          LET start == [p \in TracedPids |->
                          IF p \in reused /\ s1.start[p] < MaxStart
                          THEN s1.start[p] + 1 ELSE s1.start[p]]
          IN  s1' = [start |-> start,
                     ticks |-> [k \in Triage!Identities |->
                       IF k[1] \in busy /\ k[2] = start[k[1]] /\ s1.ticks[k] < MaxUsed
                       THEN s1.ticks[k] + 1 ELSE s1.ticks[k]]]
    BY <1>19 DEF Triage!Tick
  <2> DEFINE start == [p \in TracedPids |-> IF p \in reused /\ s1.start[p] < MaxStart
                                           THEN s1.start[p] + 1 ELSE s1.start[p]]
             ticks == [k \in Triage!Identities |->
                        IF k[1] \in busy /\ k[2] = start[k[1]] /\ s1.ticks[k] < MaxUsed
                        THEN s1.ticks[k] + 1 ELSE s1.ticks[k]]
  <2>3. s1' = [start |-> start, ticks |-> ticks]
    BY <2>2
  <2>4. MaxStart \in Nat /\ MaxUsed \in Nat
    BY DEF Triage!CollectorAssumption
  <2>5. start \in [TracedPids -> Triage!Starts]
    <3>1. \A p \in TracedPids : s1.start[p] \in 1..MaxStart
      BY <1>1 DEF Triage!Starts
    <3> QED
      BY <2>4, <3>1 DEF Triage!Starts
  <2> HIDE DEF start
  <2>6. \A k \in Triage!Identities :
          /\ ticks[k] \in Triage!Counts /\ ticks[k] \in Nat /\ ticks[k] >= s1.ticks[k]
    <3> SUFFICES ASSUME NEW k \in Triage!Identities
                 PROVE  /\ ticks[k] \in Triage!Counts /\ ticks[k] \in Nat
                        /\ ticks[k] >= s1.ticks[k]
      OBVIOUS
    <3>1. s1.ticks[k] \in 0..MaxUsed
      BY CountsTyped DEF Triage!Counts
    <3>2. \/ ticks[k] = s1.ticks[k]
          \/ s1.ticks[k] < MaxUsed /\ ticks[k] = s1.ticks[k] + 1
      OBVIOUS
    <3> QED
      BY ONLY <2>4, <3>1, <3>2 DEF Triage!Counts
  <2>7. ticks \in [Triage!Identities -> Triage!Counts]
    BY <2>6
  <2> HIDE DEF ticks
  <2>8. /\ s1' \in [start : [TracedPids -> Triage!Starts],
                   ticks : [Triage!Identities -> Triage!Counts]]
        /\ s1'.ticks = ticks
    BY <2>3, <2>5, <2>7
  <2>9. s2' \in Times /\ ~s2'.asleep /\ s2'.mono <= s2'.boot
    <3> DEFINE boot == s2.boot + 1
               mono == s2.mono + 1
    <3>1. boot \in Nat /\ mono \in Nat /\ mono <= boot
      BY <1>1, <1>3
    <3>2. s2' = [s2 EXCEPT !.boot = boot, !.mono = mono]
      BY <2>1
    <3> HIDE DEF boot, mono
    <3> QED
      <4>1. s2 \in TriageTimes /\ ~s2.asleep
        BY <1>1, <2>1 DEF TriageTimes
      <4>2. /\ s2' \in TriageTimes /\ ~s2'.asleep
            /\ s2'.mono = mono /\ s2'.boot = boot
        BY ONLY <3>1, <3>2, <4>1 DEF TriageTimes
      <4> QED
        BY <3>1, <4>1, <4>2 DEF TriageTimes
  <2>10. Triage!LoopInv' /\ Triage!TriageTyped'
    BY <2>1, <2>8, <2>9 DEF Triage!TriageInv, Triage!LoopInv, Triage!TriageTyped
  <2> QED
    BY <2>1, <2>6, <2>8, <2>10, LoopQuiet
<1>20. CASE UNCHANGED slots
  BY <1>13, <1>20 DEF slots
<1> QED
  BY <1>6, <1>7, <1>8, <1>9, <1>10, <1>11, <1>12, <1>14, <1>15, <1>16, <1>17, <1>18, <1>19,
     <1>20 DEF Triage!Next

LEMMA TriageMeans ==
  ASSUME Triage!TriageInv
  PROVE  Triage!TicksNeverInvented /\ Triage!OverIsOver
<1>1. Triage!TicksNeverInvented
  BY DEF Triage!TriageInv, Triage!CountsInv, Triage!TicksNeverInvented
<1>2. Triage!OverIsOver
  BY DEF Triage!TriageInv, Triage!RowsOver, Triage!OverIsOver, Triage!Ends
<1> QED
  BY <1>1, <1>2

-----------------------------------------------------------------------------
(* The window of the standby collector. *)

\* What the first m events say, one after the other.
StoryLoop(events, m, f) ==
  f = [n \in 0..m |-> IF n = 0 THEN Standby!NoStory
                      ELSE Standby!Heard(f[n - 1], events[n])]

LEMMA StoryLoopLonger ==
  ASSUME NEW events, NEW m \in Nat, NEW f, StoryLoop(events, m, f)
  PROVE  \E g : StoryLoop(events, m + 1, g)
<1> DEFINE g == [n \in 0..(m + 1) |->
                   IF n <= m THEN f[n] ELSE Standby!Heard(f[m], events[n])]
           h == [n \in 0..(m + 1) |->
                   IF n = 0 THEN Standby!NoStory ELSE Standby!Heard(g[n - 1], events[n])]
<1>1. \A n \in 0..(m + 1) : n # 0 => g[n - 1] = f[n - 1]
  OBVIOUS
<1>2. \A n \in 0..m : f[n] = IF n = 0 THEN Standby!NoStory
                             ELSE Standby!Heard(f[n - 1], events[n])
  BY DEF StoryLoop
<1>3. \A n \in 0..(m + 1) : g[n] = h[n]
  BY <1>1, <1>2
<1>4. g = h
  <2>1. /\ DOMAIN g = 0..(m + 1) /\ DOMAIN h = 0..(m + 1)
        /\ g = [n \in DOMAIN g |-> g[n]] /\ h = [n \in DOMAIN h |-> h[n]]
    OBVIOUS
  <2> HIDE DEF g, h
  <2> QED
    BY <1>3, <2>1
<1> HIDE DEF g
<1> QED
  BY <1>4 DEF StoryLoop, h

LEMMA StoryLoopIs ==
  ASSUME NEW events, Len(events) \in Nat
  PROVE  Standby!Stories(events) =
           [n \in 0..Len(events) |->
              IF n = 0 THEN Standby!NoStory
              ELSE Standby!Heard(Standby!Stories(events)[n - 1], events[n])]
<1> DEFINE S == {m \in Nat : \E f : StoryLoop(events, m, f)}
<1>1. 0 \in S
  <2> DEFINE f == [n \in 0..0 |-> Standby!NoStory]
  <2>1. f = [n \in 0..0 |-> IF n = 0 THEN Standby!NoStory
                            ELSE Standby!Heard(f[n - 1], events[n])]
    OBVIOUS
  <2> HIDE DEF f
  <2> QED
    BY <2>1 DEF StoryLoop
<1>2. \A n \in Nat : n \in S => n + 1 \in S
  BY StoryLoopLonger
<1> HIDE DEF S
<1>3. Len(events) \in S
  BY <1>1, <1>2, NatSetInduction
<1>4. PICK f : StoryLoop(events, Len(events), f)
  BY <1>3 DEF S
<1> QED
  BY <1>4 DEF StoryLoop, Standby!Stories

LEMMA NothingTold ==
  Standby!Story(<<>>) = Standby!NoStory
<1>1. Len(<<>>) \in Nat /\ Len(<<>>) = 0
  OBVIOUS
<1>2. Standby!Stories(<<>>)[0] = Standby!NoStory
  BY <1>1, StoryLoopIs
<1> QED
  BY <1>1, <1>2 DEF Standby!Story

\* One event more is heard after the others.
LEMMA StoryGoesOn ==
  ASSUME NEW events \in Seq(Standby!Events), NEW e \in Standby!Events
  PROVE  Standby!Story(Append(events, e)) = Standby!Heard(Standby!Story(events), e)
<1> DEFINE L == Len(events)
           longer == Append(events, e)
           f == Standby!Stories(events)
           g == Standby!Stories(longer)
           S == {n \in Nat : n <= L => g[n] = f[n]}
<1>1. /\ L \in Nat /\ Len(longer) = L + 1 /\ longer[L + 1] = e
      /\ \A n \in 1..L : longer[n] = events[n]
  BY AppendRecord
<1>2. /\ f[0] = Standby!NoStory
      /\ \A n \in 1..L : f[n] = Standby!Heard(f[n - 1], events[n])
  BY <1>1, StoryLoopIs
<1> HIDE DEF longer
<1>3. /\ g[0] = Standby!NoStory
      /\ \A n \in 1..(L + 1) : g[n] = Standby!Heard(g[n - 1], longer[n])
  BY <1>1, StoryLoopIs
<1> HIDE DEF L, f, g
<1>4. 0 \in S
  BY <1>2, <1>3
<1>5. ASSUME NEW n \in Nat, n \in S
      PROVE  n + 1 \in S
  <2> SUFFICES ASSUME n + 1 <= L
               PROVE  g[n + 1] = f[n + 1]
    OBVIOUS
  <2>1. n + 1 \in 1..L /\ n + 1 \in 1..(L + 1) /\ (n + 1) - 1 = n /\ n <= L
    BY <1>1
  <2>2. g[n] = f[n]
    BY <1>5, <2>1
  <2> QED
    BY <1>1, <1>2, <1>3, <2>1, <2>2
<1>6. L \in S
  <2> HIDE DEF S
  <2> QED
    BY <1>1, <1>4, <1>5, NatSetInduction
<1>7. g[L + 1] = Standby!Heard(f[L], e)
  <2>1. L + 1 \in 1..(L + 1) /\ (L + 1) - 1 = L /\ g[L] = f[L]
    BY <1>1, <1>6
  <2> QED
    BY <1>1, <1>3, <2>1
<1> QED
  BY <1>1, <1>7 DEF Standby!Story, L, f, g, longer

\* The first transition of a direction, of the lists there can be.
LEMMA FirstMoves ==
  /\ Standby!FirstOf(<<>>, FALSE) = Standby!None
  /\ Standby!FirstOf(<<>>, TRUE) = Standby!None
  /\ Standby!FirstOf(<<Standby!Unplug>>, FALSE) = Standby!Unplug
  /\ Standby!FirstOf(<<Standby!Unplug>>, TRUE) = Standby!None
  /\ Standby!FirstOf(<<Standby!Replug>>, FALSE) = Standby!None
  /\ Standby!FirstOf(<<Standby!Replug>>, TRUE) = Standby!Replug
  /\ Standby!FirstOf(<<Standby!Unplug, Standby!Replug>>, FALSE) = Standby!Unplug
  /\ Standby!FirstOf(<<Standby!Unplug, Standby!Replug>>, TRUE) = Standby!Replug
<1>1. Standby!Unplug.to = FALSE /\ Standby!Replug.to = TRUE
  BY DEF Standby!Unplug, Standby!Replug, Standby!Usb
<1>2. ASSUME NEW to \in BOOLEAN
      PROVE  Standby!FirstOf(<<>>, to) = Standby!None
  <2>1. {i \in DOMAIN <<>> : <<>>[i].to = to} = {}
    OBVIOUS
  <2> QED
    BY <2>1 DEF Standby!FirstOf
<1>3. ASSUME NEW list, NEW to, NEW k, {i \in DOMAIN list : list[i].to = to} = {k},
             k \in Nat
      PROVE  Standby!FirstOf(list, to) = list[k]
  BY <1>3 DEF Standby!FirstOf
<1>4. ASSUME NEW list, NEW to, {i \in DOMAIN list : list[i].to = to} = {}
      PROVE  Standby!FirstOf(list, to) = Standby!None
  BY <1>4 DEF Standby!FirstOf
<1>5. ASSUME NEW e, NEW to
      PROVE  /\ e.to = to => Standby!FirstOf(<<e>>, to) = e
             /\ e.to # to => Standby!FirstOf(<<e>>, to) = Standby!None
  <2> DEFINE list == <<e>>
  <2>1. DOMAIN list = {1} /\ list[1] = e
    OBVIOUS
  <2> HIDE DEF list
  <2>2. CASE e.to = to
    <3>1. {i \in DOMAIN list : list[i].to = to} = {1}
      BY <2>1, <2>2
    <3> QED
      BY <1>3, <2>1, <2>2, <3>1 DEF list
  <2>3. CASE e.to # to
    <3>1. {i \in DOMAIN list : list[i].to = to} = {}
      BY <2>1, <2>3
    <3> QED
      BY <1>4, <2>3, <3>1 DEF list
  <2> QED
    BY <2>2, <2>3
<1>6. ASSUME NEW a, NEW b, NEW to, a.to # b.to
      PROVE  /\ a.to = to => Standby!FirstOf(<<a, b>>, to) = a
             /\ b.to = to => Standby!FirstOf(<<a, b>>, to) = b
  <2> DEFINE list == <<a, b>>
  <2>1. DOMAIN list = {1, 2} /\ list[1] = a /\ list[2] = b
    OBVIOUS
  <2> HIDE DEF list
  <2>2. CASE a.to = to
    <3>1. {i \in DOMAIN list : list[i].to = to} = {1}
      BY <1>6, <2>1, <2>2
    <3> QED
      BY <1>3, <1>6, <2>1, <2>2, <3>1 DEF list
  <2>3. CASE b.to = to
    <3>1. {i \in DOMAIN list : list[i].to = to} = {2}
      BY <1>6, <2>1, <2>3
    <3> QED
      BY <1>3, <1>6, <2>1, <2>3, <3>1 DEF list
  <2> QED
    BY <2>2, <2>3
<1> DEFINE u == Standby!Unplug
           r == Standby!Replug
<1>7. u.to = FALSE /\ r.to = TRUE
  BY <1>1
<1> HIDE DEF u, r
<1>8. /\ Standby!FirstOf(<<>>, FALSE) = Standby!None
      /\ Standby!FirstOf(<<>>, TRUE) = Standby!None
  BY <1>2
<1>9. /\ Standby!FirstOf(<<u>>, FALSE) = u /\ Standby!FirstOf(<<u>>, TRUE) = Standby!None
  BY <1>5, <1>7
<1>10. /\ Standby!FirstOf(<<r>>, FALSE) = Standby!None /\ Standby!FirstOf(<<r>>, TRUE) = r
  BY <1>5, <1>7
<1>11. /\ Standby!FirstOf(<<u, r>>, FALSE) = u /\ Standby!FirstOf(<<u, r>>, TRUE) = r
  BY <1>6, <1>7
<1> QED
  BY <1>8, <1>9, <1>10, <1>11 DEF u, r

\* A bounded list takes one item more, and drops the oldest beyond its capacity.
LEMMA StandbyPush ==
  ASSUME NEW S, NEW list \in Seq(S), NEW item \in S, NEW capacity \in Nat \ {0}
  PROVE  /\ Standby!Push(list, item, capacity) \in Seq(S)
         /\ Len(list) < capacity =>
              Len(Standby!Push(list, item, capacity)) = Len(list) + 1
         /\ Len(list) >= capacity =>
              Len(Standby!Push(list, item, capacity)) = Len(list)
<1> DEFINE longer == Append(list, item)
<1>1. longer \in Seq(S) /\ Len(longer) = Len(list) + 1 /\ Len(list) \in Nat
  BY AppendRecord
<1> HIDE DEF longer
<1>2. Tail(longer) \in Seq(S) /\ Len(Tail(longer)) = Len(list)
  BY <1>1
<1>3. /\ Len(list) < capacity => Standby!Push(list, item, capacity) = longer
      /\ Len(list) >= capacity => Standby!Push(list, item, capacity) = Tail(longer)
  BY <1>1 DEF Standby!Push, longer
<1> DEFINE pushed == Standby!Push(list, item, capacity)
<1>4. pushed = longer \/ pushed = Tail(longer)
  BY <1>1, <1>3
<1>5. pushed \in Seq(S)
  BY <1>1, <1>2, <1>4
<1>6. Len(list) < capacity => Len(pushed) = Len(list) + 1
  BY <1>1, <1>3
<1>7. Len(list) >= capacity => Len(pushed) = Len(list)
  BY <1>2, <1>3
<1> QED
  BY <1>5, <1>6, <1>7

\* The fields the story is about, of a window that another one came of.
StandbyKept(v, w) ==
  /\ v.events = w.events /\ v.total = w.total /\ v.dropped = w.dropped /\ v.usb = w.usb
  /\ v.gaps = w.gaps /\ v.gapCount = w.gapCount /\ v.suspended = w.suspended

LEMMA StandbyNoneIs ==
  /\ \A s \in Standby!Samples : s # Standby!None
  /\ Standby!Unplug # Standby!None /\ Standby!Replug # Standby!None
  /\ Standby!Unplug # Standby!Replug
<1>1. ASSUME NEW s \in Standby!Samples
      PROVE  s # Standby!None
  <2>1. DOMAIN s = {"boot", "mono", "attached", "endpoint"}
    BY DEF Standby!Samples
  <2>2. DOMAIN Standby!None = {"kind"}
    BY DEF Standby!None
  <2> QED
    BY <2>1, <2>2
<1>2. /\ Standby!None.kind = "none"
      /\ Standby!Unplug.kind = "usb_transition" /\ Standby!Replug.kind = "usb_transition"
      /\ Standby!Unplug.to = FALSE /\ Standby!Replug.to = TRUE
  BY DEF Standby!None, Standby!Unplug, Standby!Replug, Standby!Usb
<1> QED
  BY <1>1, <1>2

\* observe() counts the sample and takes the clocks of it.
LEMMA StandbyTakes ==
  ASSUME NEW w \in Standby!Windows, NEW s \in Standby!Samples, Standby!WindowAssumption
  PROVE  /\ Standby!Take(w, s) \in Standby!Windows
         /\ StandbyKept(Standby!Take(w, s), w)
         /\ Standby!Take(w, s).first = w.first /\ Standby!Take(w, s).last = s
<1>1. w.first # Standby!None
  BY StandbyNoneIs DEF Standby!Windows
<1> DEFINE retained == Standby!Retain(w, s)
           took == [retained EXCEPT !.samples = @ + 1, !.last = s]
<1>2. Standby!Take(w, s) = took
  BY <1>1 DEF Standby!Take
<1>3. /\ retained \in Standby!Windows /\ StandbyKept(retained, w)
      /\ retained.first = w.first
  <2>1. CASE s.endpoint
    <3> DEFINE more == Standby!Push(w.endpoints, s.boot, MaxEndpoints)
               count == w.endpointsTotal + 1
    <3>1. more \in Seq(Nat) /\ count \in Nat
      <4>1. w.endpoints \in Seq(Nat) /\ w.endpointsTotal \in Nat /\ s.boot \in Nat
        BY DEF Standby!Windows, Standby!Samples
      <4>2. MaxEndpoints \in Nat \ {0}
        BY DEF Standby!WindowAssumption
      <4>3. more \in Seq(Nat)
        BY <4>1, <4>2, StandbyPush
      <4> QED
        BY <4>1, <4>3
    <3>2. retained = [w EXCEPT !.endpointsTotal = count, !.endpoints = more]
      BY <2>1 DEF Standby!Retain
    <3> HIDE DEF more, count, retained
    <3>3. retained \in Standby!Windows
      BY ONLY <3>1, <3>2, w \in Standby!Windows DEF Standby!Windows
    <3>4. StandbyKept(retained, w) /\ retained.first = w.first
      BY ONLY <3>2, w \in Standby!Windows DEF Standby!Windows, StandbyKept
    <3> QED
      BY <3>3, <3>4
  <2>2. CASE ~s.endpoint
    BY <2>2 DEF Standby!Retain, StandbyKept
  <2> QED
    BY <2>1, <2>2
<1> HIDE DEF retained
<1> DEFINE count == retained.samples + 1
<1>4. took = [retained EXCEPT !.samples = count, !.last = s]
  OBVIOUS
<1>5. count \in Nat
  <2>1. retained.samples \in Nat
    BY <1>3 DEF Standby!Windows
  <2> QED
    BY <2>1
<1> HIDE DEF took, count
<1>6. took \in Standby!Windows
  BY ONLY <1>3, <1>4, <1>5, s \in Standby!Samples DEF Standby!Windows
<1>7. StandbyKept(took, retained) /\ took.first = retained.first /\ took.last = s
  BY ONLY <1>3, <1>4 DEF Standby!Windows, StandbyKept
<1> QED
  BY <1>2, <1>3, <1>6, <1>7 DEF StandbyKept

\* A window with nothing in it but samples.
StandbyFresh(total, list, samples, first, last) ==
  [events |-> <<>>, total |-> 0, dropped |-> 0, usb |-> <<>>, usbTotal |-> 0,
   gaps |-> <<>>, gapCount |-> 0, suspended |-> 0, endpoints |-> list,
   endpointsTotal |-> total, samples |-> samples, first |-> first, last |-> last]

LEMMA StandbyFirstTake ==
  ASSUME NEW s \in Standby!Samples, Standby!WindowAssumption
  PROVE  /\ Standby!Take(Standby!NewWindow, s) \in Standby!Windows
         /\ StandbyKept(Standby!Take(Standby!NewWindow, s), Standby!NewWindow)
         /\ Standby!Take(Standby!NewWindow, s).first = s
         /\ Standby!Take(Standby!NewWindow, s).last = s
<1> DEFINE w == Standby!NewWindow
           more == Standby!Push(<<>>, s.boot, MaxEndpoints)
           took == Standby!Take(w, s)
<1>1. w.first = Standby!None
  BY DEF Standby!NewWindow
<1>2. <<>> \in Seq(Nat)
  OBVIOUS
<1>3. s.boot \in Nat /\ s.endpoint \in BOOLEAN /\ MaxEndpoints \in Nat \ {0}
  BY DEF Standby!WindowAssumption, Standby!Samples
<1>4. more \in Seq(Nat)
  BY <1>2, <1>3, StandbyPush
<1>5. PICK total \in Nat, list \in Seq(Nat) :
        Standby!Retain(w, s) = StandbyFresh(total, list, 0, Standby!None, Standby!None)
  <2>1. CASE s.endpoint
    <3>1. w = StandbyFresh(0, <<>>, 0, Standby!None, Standby!None)
      BY DEF Standby!NewWindow, StandbyFresh
    <3>2. w.endpointsTotal + 1 = 1 /\ w.endpoints = <<>>
      BY <3>1 DEF StandbyFresh
    <3> HIDE DEF w, more
    <3>3. Standby!Retain(w, s) = [w EXCEPT !.endpointsTotal = 1, !.endpoints = more]
      BY <2>1, <3>2 DEF Standby!Retain, more
    <3>4. Standby!Retain(w, s) = StandbyFresh(1, more, 0, Standby!None, Standby!None)
      BY <3>1, <3>3 DEF StandbyFresh
    <3> QED
      BY <1>4, <3>4
  <2>2. CASE ~s.endpoint
    <3>1. Standby!Retain(w, s) = StandbyFresh(0, <<>>, 0, Standby!None, Standby!None)
      BY <2>2 DEF Standby!Retain, Standby!NewWindow, StandbyFresh
    <3> QED
      BY <1>2, <3>1
  <2> QED
    BY <2>1, <2>2
<1>6. took = StandbyFresh(total, list, 1, s, s)
  <2> DEFINE retained == Standby!Retain(w, s)
             seen == [retained EXCEPT !.samples = @ + 1, !.last = s]
  <2>1. took = [seen EXCEPT !.first = s]
    BY <1>1 DEF Standby!Take
  <2>2. seen = StandbyFresh(total, list, 1, Standby!None, s)
    <3>1. retained.samples + 1 = 1
      BY <1>5 DEF StandbyFresh
    <3>2. retained = StandbyFresh(total, list, 0, Standby!None, Standby!None)
      BY <1>5
    <3> HIDE DEF retained
    <3>3. seen = [retained EXCEPT !.samples = 1, !.last = s]
      BY <3>1
    <3> HIDE DEF seen
    <3> QED
      BY ONLY <3>2, <3>3 DEF StandbyFresh
  <2> HIDE DEF seen
  <2> QED
    BY <2>1, <2>2 DEF StandbyFresh
<1>7. <<>> \in Seq(Standby!Events) /\ <<>> \in Seq({Standby!Unplug, Standby!Replug})
      /\ <<>> \in Seq(Standby!Gaps)
  OBVIOUS
<1> HIDE DEF took
<1>8. took \in Standby!Windows
  BY ONLY <1>5, <1>6, <1>7, s \in Standby!Samples DEF Standby!Windows, StandbyFresh
<1>9. StandbyKept(took, w) /\ took.first = s /\ took.last = s
  BY <1>6 DEF StandbyKept, Standby!NewWindow, StandbyFresh
<1> QED
  BY <1>8, <1>9 DEF took

\* A suspend is recorded: the lists are bounded, the totals are not.
LEMMA StandbyGap ==
  ASSUME NEW w \in Standby!Windows, NEW e \in Standby!Gaps, Standby!WindowAssumption,
         Len(w.events) <= MaxEvents
  PROVE  /\ Standby!Record(w, e) \in Standby!Windows
         /\ Len(Standby!Record(w, e).events) <= MaxEvents
         /\ Standby!Record(w, e).total = w.total + 1
         /\ Standby!Record(w, e).dropped + Len(Standby!Record(w, e).events)
              = w.dropped + Len(w.events) + 1
         /\ Standby!Record(w, e).gapCount = w.gapCount + 1
         /\ Standby!Record(w, e).suspended = w.suspended + e.seconds
         /\ Standby!Record(w, e).usb = w.usb
         /\ Standby!Record(w, e).first = w.first /\ Standby!Record(w, e).last = w.last
<1> DEFINE total == w.total + 1
           dropped == IF Len(w.events) >= MaxEvents THEN w.dropped + 1 ELSE w.dropped
           events == Standby!Push(w.events, e, MaxEvents)
           gapCount == w.gapCount + 1
           suspended == w.suspended + e.seconds
           gaps == Standby!Push(w.gaps, e, MaxEvents)
           r == Standby!Record(w, e)
<1>1. /\ w.events \in Seq(Standby!Events) /\ w.gaps \in Seq(Standby!Gaps)
      /\ w.total \in Nat /\ w.dropped \in Nat /\ w.gapCount \in Nat /\ w.suspended \in Nat
  BY DEF Standby!Windows
<1>2. e.kind = "suspend_gap" /\ e.seconds \in Nat /\ e \in Standby!Events
  BY DEF Standby!Gaps, Standby!Events
<1>3. MaxEvents \in Nat \ {0}
  BY DEF Standby!WindowAssumption
<1>4. gaps \in Seq(Standby!Gaps)
  BY <1>1, <1>3, StandbyPush
<1>5. /\ events \in Seq(Standby!Events)
      /\ Len(w.events) < MaxEvents => Len(events) = Len(w.events) + 1
      /\ Len(w.events) >= MaxEvents => Len(events) = Len(w.events)
  BY <1>1, <1>2, <1>3, StandbyPush
<1>6. Len(w.events) \in Nat
  BY <1>1
<1>7. total \in Nat /\ dropped \in Nat /\ gapCount \in Nat /\ suspended \in Nat
  <2>1. /\ w.total \in Nat /\ w.dropped \in Nat /\ w.gapCount \in Nat
        /\ w.suspended \in Nat /\ e.seconds \in Nat
    BY <1>1, <1>2
  <2>2. total \in Nat /\ gapCount \in Nat
    BY ONLY <2>1
  <2>3. dropped \in Nat
    BY ONLY <2>1
  <2>4. suspended \in Nat
    BY ONLY <2>1
  <2> QED
    BY <2>2, <2>3, <2>4
<1>8. Len(events) <= MaxEvents /\ dropped + Len(events) = w.dropped + Len(w.events) + 1
  <2> DEFINE n == Len(w.events)
             m == Len(events)
             d == w.dropped
  <2>1. /\ n \in Nat /\ n <= MaxEvents /\ d \in Nat /\ MaxEvents \in Nat
        /\ n < MaxEvents => m = n + 1
        /\ n >= MaxEvents => m = n
        /\ dropped = IF n >= MaxEvents THEN d + 1 ELSE d
    BY <1>1, <1>3, <1>5, <1>6
  <2> HIDE DEF n, m, d, dropped
  <2>2. m <= MaxEvents /\ dropped + m = d + n + 1
    BY ONLY <2>1
  <2> QED
    BY <2>2 DEF n, m, d
<1>9. r = [[w EXCEPT !.total = total, !.dropped = dropped, !.events = events]
             EXCEPT !.gapCount = gapCount, !.suspended = suspended, !.gaps = gaps]
  <2>1. LET kept == [w EXCEPT !.total = total, !.dropped = dropped, !.events = events]
        IN  /\ kept.gapCount = w.gapCount /\ kept.suspended = w.suspended
            /\ kept.gaps = w.gaps
    <3> HIDE DEF total, dropped, events
    <3> QED
      BY DEF Standby!Windows
  <2> QED
    BY <1>2, <2>1 DEF Standby!Record
<1> HIDE DEF total, dropped, events, gapCount, suspended, gaps, r
<1>10. r \in Standby!Windows
  BY ONLY <1>4, <1>5, <1>7, <1>9, w \in Standby!Windows DEF Standby!Windows
<1>11. /\ r.events = events /\ r.total = total /\ r.dropped = dropped
       /\ r.gapCount = gapCount /\ r.suspended = suspended /\ r.usb = w.usb
       /\ r.first = w.first /\ r.last = w.last
  BY ONLY <1>9, w \in Standby!Windows DEF Standby!Windows
<1> QED
  BY <1>8, <1>10, <1>11 DEF total, gapCount, suspended, r

\* So is a transition: the window keeps two of them at least.
LEMMA StandbyMove ==
  ASSUME NEW w \in Standby!Windows, NEW e \in {Standby!Unplug, Standby!Replug},
         Standby!WindowAssumption, Len(w.events) <= MaxEvents, Len(w.usb) <= 1
  PROVE  /\ Standby!Record(w, e) \in Standby!Windows
         /\ Len(Standby!Record(w, e).events) <= MaxEvents
         /\ Standby!Record(w, e).total = w.total + 1
         /\ Standby!Record(w, e).dropped + Len(Standby!Record(w, e).events)
              = w.dropped + Len(w.events) + 1
         /\ Standby!Record(w, e).gapCount = w.gapCount
         /\ Standby!Record(w, e).suspended = w.suspended
         /\ Standby!Record(w, e).usb = Append(w.usb, e)
         /\ Standby!Record(w, e).first = w.first /\ Standby!Record(w, e).last = w.last
<1> DEFINE total == w.total + 1
           dropped == IF Len(w.events) >= MaxEvents THEN w.dropped + 1 ELSE w.dropped
           events == Standby!Push(w.events, e, MaxEvents)
           usbTotal == w.usbTotal + 1
           usb == Append(w.usb, e)
           r == Standby!Record(w, e)
<1>1. /\ w.events \in Seq(Standby!Events)
      /\ w.usb \in Seq({Standby!Unplug, Standby!Replug})
      /\ w.total \in Nat /\ w.dropped \in Nat /\ w.usbTotal \in Nat
  BY DEF Standby!Windows
<1>2. e.kind # "suspend_gap" /\ e \in Standby!Events
  BY DEF Standby!Unplug, Standby!Replug, Standby!Usb, Standby!Events
<1>3. MaxEvents \in Nat \ {0} /\ MaxUsbEvents \in Nat \ {0, 1}
  BY DEF Standby!WindowAssumption
<1>4. /\ usb \in Seq({Standby!Unplug, Standby!Replug})
      /\ Standby!PushKeepingFirst(w.usb, e, MaxUsbEvents) = usb
  <2>1. usb \in Seq({Standby!Unplug, Standby!Replug}) /\ Len(usb) = Len(w.usb) + 1
        /\ Len(w.usb) \in Nat
    BY <1>1, AppendRecord
  <2>2. ~(Len(usb) > MaxUsbEvents)
    BY <1>3, <2>1
  <2> QED
    BY <2>1, <2>2 DEF Standby!PushKeepingFirst
<1>5. /\ events \in Seq(Standby!Events)
      /\ Len(w.events) < MaxEvents => Len(events) = Len(w.events) + 1
      /\ Len(w.events) >= MaxEvents => Len(events) = Len(w.events)
  BY <1>1, <1>2, <1>3, StandbyPush
<1>6. Len(w.events) \in Nat
  BY <1>1
<1>7. total \in Nat /\ dropped \in Nat /\ usbTotal \in Nat
  BY <1>1
<1>8. Len(events) <= MaxEvents /\ dropped + Len(events) = w.dropped + Len(w.events) + 1
  <2> DEFINE n == Len(w.events)
             m == Len(events)
             d == w.dropped
  <2>1. /\ n \in Nat /\ n <= MaxEvents /\ d \in Nat /\ MaxEvents \in Nat
        /\ n < MaxEvents => m = n + 1
        /\ n >= MaxEvents => m = n
        /\ dropped = IF n >= MaxEvents THEN d + 1 ELSE d
    BY <1>1, <1>3, <1>5, <1>6
  <2> HIDE DEF n, m, d, dropped
  <2>2. m <= MaxEvents /\ dropped + m = d + n + 1
    BY ONLY <2>1
  <2> QED
    BY <2>2 DEF n, m, d
<1>9. r = [[w EXCEPT !.total = total, !.dropped = dropped, !.events = events]
             EXCEPT !.usbTotal = usbTotal, !.usb = usb]
  <2>1. LET kept == [w EXCEPT !.total = total, !.dropped = dropped, !.events = events]
        IN  kept.usbTotal = w.usbTotal /\ kept.usb = w.usb
    <3> HIDE DEF total, dropped, events
    <3> QED
      BY DEF Standby!Windows
  <2> QED
    BY <1>2, <1>4, <2>1 DEF Standby!Record
<1> HIDE DEF total, dropped, events, usbTotal, usb, r
<1>10. r \in Standby!Windows
  BY ONLY <1>4, <1>5, <1>7, <1>9, w \in Standby!Windows DEF Standby!Windows
<1>11. /\ r.events = events /\ r.total = total /\ r.dropped = dropped
       /\ r.gapCount = w.gapCount /\ r.suspended = w.suspended /\ r.usb = usb
       /\ r.first = w.first /\ r.last = w.last
  BY ONLY <1>9, w \in Standby!Windows DEF Standby!Windows
<1> QED
  BY <1>8, <1>10, <1>11 DEF total, usb, r

\* What a list of events that wait says that the window does not hold yet.
StandbyGapIn(p) == p # <<>> /\ p[1].kind = "suspend_gap"
StandbyMoveIn(p) == p # <<>> /\ p[Len(p)].kind = "usb_transition"
StandbySeconds(p) == IF StandbyGapIn(p) THEN p[1].seconds ELSE 0
StandbyGaps(p) == IF StandbyGapIn(p) THEN 1 ELSE 0
StandbyMoves(usb, p) == IF StandbyMoveIn(p) THEN Append(usb, p[Len(p)]) ELSE usb

StandbyStory(seconds, gaps, usb) ==
  [seconds |-> seconds, gaps |-> gaps, unplug |-> Standby!FirstOf(usb, FALSE),
   replug |-> Standby!FirstOf(usb, TRUE)]

LEMMA StandbyWaiting ==
  ASSUME NEW g \in Standby!Gaps, NEW m \in {Standby!Unplug, Standby!Replug}, NEW usb
  PROVE  /\ StandbySeconds(<<>>) = 0 /\ StandbyGaps(<<>>) = 0
         /\ StandbyMoves(usb, <<>>) = usb
         /\ StandbySeconds(<<g>>) = g.seconds /\ StandbyGaps(<<g>>) = 1
         /\ StandbyMoves(usb, <<g>>) = usb
         /\ StandbySeconds(<<m>>) = 0 /\ StandbyGaps(<<m>>) = 0
         /\ StandbyMoves(usb, <<m>>) = Append(usb, m)
         /\ StandbySeconds(<<g, m>>) = g.seconds /\ StandbyGaps(<<g, m>>) = 1
         /\ StandbyMoves(usb, <<g, m>>) = Append(usb, m)
<1>1. g.kind = "suspend_gap" /\ m.kind = "usb_transition"
  BY DEF Standby!Gaps, Standby!Unplug, Standby!Replug, Standby!Usb
<1>2. ~StandbyGapIn(<<>>) /\ ~StandbyMoveIn(<<>>)
  BY DEF StandbyGapIn, StandbyMoveIn
<1>3. ASSUME NEW e
      PROVE  /\ StandbyGapIn(<<e>>) <=> e.kind = "suspend_gap"
             /\ StandbyMoveIn(<<e>>) <=> e.kind = "usb_transition"
             /\ <<e>>[1] = e /\ <<e>>[Len(<<e>>)] = e
  BY DEF StandbyGapIn, StandbyMoveIn
<1>4. /\ StandbyGapIn(<<g, m>>) /\ StandbyMoveIn(<<g, m>>)
      /\ <<g, m>>[1] = g /\ <<g, m>>[Len(<<g, m>>)] = m
  <2>1. <<g, m>> # <<>> /\ <<g, m>>[1] = g /\ <<g, m>>[Len(<<g, m>>)] = m
    OBVIOUS
  <2> QED
    BY <1>1, <2>1 DEF StandbyGapIn, StandbyMoveIn
<1> QED
  BY <1>1, <1>2, <1>3, <1>4 DEF StandbySeconds, StandbyGaps, StandbyMoves

LEMMA StandbySoFar ==
  /\ Standby!SecondsSoFar = s3.suspended + StandbySeconds(s4)
  /\ Standby!GapsSoFar = s3.gapCount + StandbyGaps(s4)
  /\ Standby!Moves = StandbyMoves(s3.usb, s4)
  /\ Standby!SecondsSoFar' = s3'.suspended + StandbySeconds(s4')
  /\ Standby!GapsSoFar' = s3'.gapCount + StandbyGaps(s4')
  /\ Standby!Moves' = StandbyMoves(s3'.usb, s4')
  BY DEF Standby!SecondsSoFar, Standby!GapsSoFar, Standby!Moves, Standby!GapWaits,
         Standby!MoveWaits, StandbySeconds, StandbyGaps, StandbyMoves, StandbyGapIn,
         StandbyMoveIn

\* The events of a pair of samples.
StandbyShape(p) ==
  \/ p = <<>>
  \/ \E g \in Standby!Gaps : p = <<g>>
  \/ \E m \in {Standby!Unplug, Standby!Replug} : p = <<m>>
  \/ \E g \in Standby!Gaps, m \in {Standby!Unplug, Standby!Replug} : p = <<g, m>>

LEMMA StandbyShort ==
  ASSUME NEW p, NEW q
  PROVE  /\ <<>> \o <<>> = <<>> /\ <<p>> \o <<>> = <<p>> /\ <<>> \o <<q>> = <<q>>
         /\ <<p>> \o <<q>> = <<p, q>>
         /\ Append(<<>>, p) = <<p>> /\ Append(<<p>>, q) = <<p, q>>
<1>1. <<>> \in Seq({p, q}) /\ <<p>> \in Seq({p, q}) /\ <<q>> \in Seq({p, q})
  OBVIOUS
<1>2. <<>> \o <<>> = <<>> /\ <<p>> \o <<>> = <<p>> /\ <<>> \o <<q>> = <<q>>
  BY <1>1
<1>3. <<p>> \o <<q>> = <<p, q>>
  <2> DEFINE x == <<p>> \o <<q>>
  <2>1. x \in Seq({p, q}) /\ Len(x) = 2 /\ x[1] = p /\ x[2] = q
    BY <1>1
  <2> HIDE DEF x
  <2>2. x = <<p, q>>
    BY ONLY <2>1
  <2> QED
    BY <2>2 DEF x
<1>4. Append(<<>>, p) = <<p>>
  <2> DEFINE x == Append(<<>>, p)
  <2>1. x \in Seq({p, q}) /\ Len(x) = 1 /\ x[1] = p
    BY <1>1
  <2> HIDE DEF x
  <2>2. x = <<p>>
    BY ONLY <2>1
  <2> QED
    BY <2>2 DEF x
<1>5. Append(<<p>>, q) = <<p, q>>
  <2> DEFINE x == Append(<<p>>, q)
  <2>1. x \in Seq({p, q}) /\ Len(x) = 2 /\ x[1] = p /\ x[2] = q
    BY <1>1
  <2> HIDE DEF x
  <2>2. x = <<p, q>>
    BY ONLY <2>1
  <2> QED
    BY <2>2 DEF x
<1> QED
  BY <1>2, <1>3, <1>4, <1>5

LEMMA StandbyShapes ==
  ASSUME NEW p \in Seq(Standby!Events), Len(p) <= 2,
         Len(p) = 2 => p[1] \in Standby!Gaps /\ p[2] \notin Standby!Gaps
  PROVE  StandbyShape(p)
<1>1. Len(p) \in 0..2
  <2>1. Len(p) \in Nat
    OBVIOUS
  <2> DEFINE n == Len(p)
  <2>2. n \in Nat /\ n <= 2
    BY <2>1
  <2> HIDE DEF n
  <2>3. n \in 0..2
    BY ONLY <2>2
  <2> QED
    BY <2>3 DEF n
<1>2. CASE Len(p) = 0
  <2>1. p = <<>>
    BY <1>2
  <2> QED
    BY <2>1 DEF StandbyShape
<1>3. CASE Len(p) = 1
  <2>1. p = <<p[1]>> /\ p[1] \in Standby!Events
    BY <1>3
  <2> QED
    BY <2>1 DEF StandbyShape, Standby!Events
<1>4. CASE Len(p) = 2
  <2> DEFINE E == Standby!Events
  <2>0. p \in Seq(E) /\ Len(p) = 2
    BY <1>4
  <2> HIDE DEF E
  <2>1. p = <<p[1], p[2]>> /\ p[2] \in Standby!Events
    BY ONLY <2>0 DEF E
  <2>2. p[1] \in Standby!Gaps /\ p[2] \in {Standby!Unplug, Standby!Replug}
    BY <1>4, <2>1 DEF Standby!Events
  <2> QED
    BY <2>1, <2>2 DEF StandbyShape
<1> QED
  BY <1>1, <1>2, <1>3, <1>4

LEMMA StandbyHearsGap ==
  ASSUME NEW a, NEW b, NEW usb, NEW g \in Standby!Gaps
  PROVE  Standby!Heard(StandbyStory(a, b, usb), g)
           = StandbyStory(a + g.seconds, b + 1, usb)
<1>1. g.kind = "suspend_gap"
  BY DEF Standby!Gaps
<1> QED
  BY <1>1 DEF Standby!Heard, StandbyStory

LEMMA StandbyHearsMove ==
  ASSUME NEW a, NEW b
  PROVE  /\ Standby!Heard(StandbyStory(a, b, <<>>), Standby!Unplug)
              = StandbyStory(a, b, <<Standby!Unplug>>)
         /\ Standby!Heard(StandbyStory(a, b, <<>>), Standby!Replug)
              = StandbyStory(a, b, <<Standby!Replug>>)
         /\ Standby!Heard(StandbyStory(a, b, <<Standby!Unplug>>), Standby!Replug)
              = StandbyStory(a, b, <<Standby!Unplug, Standby!Replug>>)
<1> DEFINE u == Standby!Unplug
           r == Standby!Replug
<1>1. /\ u.kind # "suspend_gap" /\ r.kind # "suspend_gap"
      /\ u.to = FALSE /\ r.to = TRUE
  BY DEF Standby!Unplug, Standby!Replug, Standby!Usb
<1>2. u # Standby!None /\ r # Standby!None
  BY StandbyNoneIs
<1>3. /\ Standby!FirstOf(<<>>, FALSE) = Standby!None
      /\ Standby!FirstOf(<<>>, TRUE) = Standby!None
      /\ Standby!FirstOf(<<u>>, FALSE) = u /\ Standby!FirstOf(<<u>>, TRUE) = Standby!None
      /\ Standby!FirstOf(<<r>>, FALSE) = Standby!None /\ Standby!FirstOf(<<r>>, TRUE) = r
      /\ Standby!FirstOf(<<u, r>>, FALSE) = u /\ Standby!FirstOf(<<u, r>>, TRUE) = r
  BY FirstMoves
<1> HIDE DEF u, r
<1>4. Standby!Heard(StandbyStory(a, b, <<>>), u) = StandbyStory(a, b, <<u>>)
  BY <1>1, <1>3 DEF Standby!Heard, StandbyStory
<1>5. Standby!Heard(StandbyStory(a, b, <<>>), r) = StandbyStory(a, b, <<r>>)
  BY <1>1, <1>3 DEF Standby!Heard, StandbyStory
<1>6. Standby!Heard(StandbyStory(a, b, <<u>>), r) = StandbyStory(a, b, <<u, r>>)
  BY <1>1, <1>3 DEF Standby!Heard, StandbyStory
<1> QED
  BY <1>4, <1>5, <1>6 DEF u, r

\* What classify() and usb_transition() make of a pair of samples, when the cable was
\* `old` and is `new`, and the two clocks went `apart`.
StandbyNewsOf(news, old, new, apart) ==
  \/ news = <<>> /\ new = old
  \/ \E g \in Standby!Gaps : g.seconds <= apart /\ news = <<g>> /\ new = old
  \/ \E m \in {Standby!Unplug, Standby!Replug} : news = <<m>> /\ m.to = new /\ new # old
  \/ \E g \in Standby!Gaps, m \in {Standby!Unplug, Standby!Replug} :
       g.seconds <= apart /\ news = <<g, m>> /\ m.to = new /\ new # old

LEMMA StandbyNews ==
  ASSUME NEW w, NEW s \in Standby!Samples, w.last \in Standby!Samples,
         Standby!WindowAssumption,
         Standby!SuspendedTotal(w.last) <= Standby!SuspendedTotal(s)
  PROVE  StandbyNewsOf(Standby!NewEvents(w, s), w.last.attached, s.attached,
                       Standby!SuspendedTotal(s) - Standby!SuspendedTotal(w.last))
<1> DEFINE a == w.last
           x == Standby!SuspendedTotal(a)
           y == Standby!SuspendedTotal(s)
           gap == Standby!SuspendGap(a, s)
           g == Standby!Suspend(gap)
           m == Standby!Usb(a.attached, s.attached)
<1>1. x \in Int /\ y \in Int /\ x <= y
  BY DEF Standby!Samples, Standby!SuspendedTotal
<1>2. gap = IF y - x < Threshold THEN 0 ELSE y - x
  BY DEF Standby!SuspendGap
<1>3. Threshold \in Nat \ {0}
  BY DEF Standby!WindowAssumption
<1>4. Standby!NewEvents(w, s) = Standby!Classify(a, s) \o Standby!UsbTransition(a, s)
  BY DEF Standby!NewEvents
<1>5. gap <= 0 => Standby!Classify(a, s) = <<>>
  BY DEF Standby!Classify
<1>6. ~(gap <= 0) => Standby!Classify(a, s) = <<g>>
  BY DEF Standby!Classify
<1>7. a.attached = s.attached => Standby!UsbTransition(a, s) = <<>>
  BY DEF Standby!UsbTransition
<1>8. a.attached # s.attached => Standby!UsbTransition(a, s) = <<m>>
  BY DEF Standby!UsbTransition
<1>9. a.attached \in BOOLEAN /\ s.attached \in BOOLEAN
  BY DEF Standby!Samples
<1>10. a.attached # s.attached =>
         m \in {Standby!Unplug, Standby!Replug} /\ m.to = s.attached
  BY <1>9 DEF Standby!Unplug, Standby!Replug, Standby!Usb
<1>11. ~(gap <= 0) => g \in Standby!Gaps /\ g.seconds <= y - x
  <2> SUFFICES ASSUME ~(gap <= 0)
               PROVE  g \in Standby!Gaps /\ g.seconds <= y - x
    OBVIOUS
  <2> HIDE DEF gap, x, y
  <2>1. gap \in Nat /\ gap <= y - x
    BY <1>1, <1>2, <1>3
  <2> QED
    BY <2>1 DEF Standby!Gaps, Standby!Suspend
<1>12. \A p, q : <<>> \o <<>> = <<>> /\ <<p>> \o <<>> = <<p>> /\ <<>> \o <<q>> = <<q>>
               /\ <<p>> \o <<q>> = <<p, q>>
  BY StandbyShort
<1> HIDE DEF a, gap, g, m, x, y
<1> QED
  BY <1>4, <1>5, <1>6, <1>7, <1>8, <1>9, <1>10, <1>11, <1>12
     DEF StandbyNewsOf, a, x, y

LEMMA StandbyInitHolds ==
  ASSUME Standby!Init
  PROVE  Standby!StandbyInv
<1>1. s1 = "start"
  BY DEF Standby!Init
<1>2. ~Standby!Collecting /\ s1 \in Standby!Stages
  BY <1>1 DEF Standby!Collecting, Standby!Stages
<1>3. Standby!LastInv
  BY <1>1 DEF Standby!LastInv
<1>4. DOMAIN s7 = {"out", "tmp", "held"}
  BY DEF Standby!Init
<1> QED
  BY <1>2, <1>3, <1>4 DEF Standby!Init, Standby!CollectorInv, Standby!StandbyInv

\* The readings of a sample.
LEMMA StandbySampled ==
  ASSUME s2 \in [boot : Nat, mono : Nat],
         NEW s \in {Standby!Sample(s2, r) : r \in Standby!Readings}
  PROVE  s \in Standby!Samples /\ s.boot = s2.boot /\ s.mono = s2.mono
<1>1. PICK r \in Standby!Readings : s = Standby!Sample(s2, r)
  OBVIOUS
<1>2. PICK a \in BOOLEAN : a = Standby!Attached(r)
  <2>1. r.links \in BOOLEAN
    BY DEF Standby!Readings
  <2> QED
    BY <2>1 DEF Standby!Attached
<1>3. PICK e \in BOOLEAN : e = Standby!Endpoint(r)
  BY DEF Standby!Endpoint
<1>4. s = [boot |-> s2.boot, mono |-> s2.mono, attached |-> a, endpoint |-> e]
  BY <1>1, <1>2, <1>3 DEF Standby!Sample
<1>5. s2.boot \in Nat /\ s2.mono \in Nat
  OBVIOUS
<1> QED
  BY <1>4, <1>5 DEF Standby!Samples

\* What the parts of the invariant say of the window, with the events that wait.
LEMMA StandbyParts ==
  ASSUME Standby!StoryInv, Standby!MovesInv, Standby!ClockInv
  PROVE  /\ Standby!Story(s8) = StandbyStory(s3.suspended + StandbySeconds(s4),
                                             s3.gapCount + StandbyGaps(s4),
                                             StandbyMoves(s3.usb, s4))
         /\ StandbyMoves(s3.usb, s4) \in
              {<<>>, <<Standby!Unplug>>, <<Standby!Replug>>,
               <<Standby!Unplug, Standby!Replug>>}
         /\ s3.suspended + StandbySeconds(s4)
              <= Standby!SuspendedTotal(s3.last) - Standby!SuspendedTotal(s3.first)
  BY StandbySoFar DEF Standby!StoryInv, Standby!MovesInv, Standby!ClockInv, StandbyStory

LEMMA StandbyStarts ==
  ASSUME Standby!CollectorInv, Standby!WindowAssumption, Standby!Begin
  PROVE  Standby!CollectorInv'
<1> DEFINE w == s3'
           c == s2
<1>1. /\ s1 = "start" /\ s2 = [boot |-> 0, mono |-> 0] /\ s3 = Standby!NewWindow
      /\ s4 = <<>> /\ s5 = <<>> /\ s8 = <<>>
  BY DEF Standby!Begin, Standby!CollectorInv
<1>2. s1' = "open" /\ s2' = s2 /\ s4' = s4 /\ s5' = s5 /\ s8' = s8
  BY DEF Standby!Begin
<1>3. s2 \in [boot : Nat, mono : Nat]
  BY <1>1
<1>4. PICK s \in {Standby!Sample(s2, r) : r \in Standby!Readings} :
        w = Standby!Take(Standby!NewWindow, s)
  BY <1>1 DEF Standby!Begin
<1>5. s \in Standby!Samples /\ s.boot = s2.boot /\ s.mono = s2.mono
  BY <1>3, StandbySampled
<1>6. /\ w \in Standby!Windows /\ StandbyKept(w, Standby!NewWindow)
      /\ w.first = s /\ w.last = s
  BY <1>4, <1>5, StandbyFirstTake
<1>7. /\ w.events = <<>> /\ w.total = 0 /\ w.dropped = 0 /\ w.usb = <<>>
      /\ w.gapCount = 0 /\ w.suspended = 0
  BY <1>6 DEF StandbyKept, Standby!NewWindow
<1>8. /\ StandbySeconds(<<>>) = 0 /\ StandbyGaps(<<>>) = 0
      /\ StandbyMoves(<<>>, <<>>) = <<>>
  BY DEF StandbySeconds, StandbyGaps, StandbyMoves, StandbyGapIn, StandbyMoveIn
<1>9. /\ Standby!SecondsSoFar' = 0 /\ Standby!GapsSoFar' = 0 /\ Standby!Moves' = <<>>
  BY <1>1, <1>2, <1>7, <1>8, StandbySoFar
<1>10. <<>> \in Seq(Standby!Events) /\ Len(<<>>) = 0
  OBVIOUS
<1>11. MaxEvents \in Nat
  BY DEF Standby!WindowAssumption
<1>12. Standby!WindowTyped'
  BY <1>1, <1>2, <1>3, <1>6, <1>7, <1>10, <1>11 DEF Standby!WindowTyped
<1>13. Standby!MovesInv'
  BY <1>9 DEF Standby!MovesInv
<1>14. Standby!StoryInv'
  <2>1. Standby!Story(s8') = Standby!NoStory
    BY <1>1, <1>2, NothingTold
  <2> QED
    BY <1>9, <2>1, FirstMoves DEF Standby!StoryInv, Standby!NoStory
<1>15. Standby!CountInv'
  BY <1>1, <1>2, <1>7, <1>10 DEF Standby!CountInv
<1>16. Standby!ClockInv'
  <2>1. s.mono \in Nat /\ s.boot \in Nat
    BY <1>5 DEF Standby!Samples
  <2>2. /\ w.first.mono = s.mono /\ w.last.mono = s.mono /\ s2'.mono = s.mono
        /\ s2'.boot = s.boot /\ w.first.boot = s.boot /\ w.last.boot = s.boot
    BY <1>2, <1>5, <1>6
  <2>3. s.mono <= s.mono /\ s.boot - s.mono <= s.boot - s.mono
        /\ 0 <= (s.boot - s.mono) - (s.boot - s.mono)
    BY <2>1
  <2> QED
    BY <1>9, <2>2, <2>3 DEF Standby!ClockInv, Standby!SuspendedTotal
<1>17. Standby!LastInv' /\ s1' \in Standby!Stages /\ s1' # "start"
  BY <1>2 DEF Standby!LastInv, Standby!Stages
<1> QED
  BY <1>12, <1>13, <1>14, <1>15, <1>16, <1>17 DEF Standby!CollectorInv

\* A step that leaves the window and its events as they are.
LEMMA StandbyKeeps ==
  ASSUME Standby!CollectorInv, Standby!Collecting, s1 # "record",
         s2' = s2, s3' = s3, s4' = s4, s5' = s5, s8' = s8,
         s1' \in Standby!Stages, s1' \notin {"start", "record"},
         s1' \in {"check", "asleep", "sample"} =>
           \/ s1 \in {"check", "asleep", "sample"}
           \/ s1 = "replace" /\ ~Standby!ReplugSeen,
         s1' \in {"build", "open", "replace"} => s1 \in {"build", "open", "replace"},
         Standby!LastInv'
  PROVE  Standby!CollectorInv'
<1>1. /\ Standby!WindowTyped /\ Standby!MovesInv /\ Standby!StoryInv /\ Standby!CountInv
      /\ Standby!ClockInv
  BY DEF Standby!CollectorInv
<1>2. /\ Standby!SecondsSoFar' = Standby!SecondsSoFar
      /\ Standby!GapsSoFar' = Standby!GapsSoFar /\ Standby!Moves' = Standby!Moves
  BY StandbySoFar
<1>3. Standby!WindowTyped'
  BY <1>1 DEF Standby!WindowTyped
<1>4. Standby!MovesInv'
  <2>1. Standby!ReplugSeen' <=> Standby!ReplugSeen
    BY DEF Standby!ReplugSeen
  <2> QED
    BY <1>1, <1>2, <2>1 DEF Standby!MovesInv
<1>5. Standby!StoryInv'
  BY <1>1, <1>2 DEF Standby!StoryInv
<1>6. Standby!CountInv'
  BY <1>1 DEF Standby!CountInv
<1>7. Standby!ClockInv'
  BY <1>1, <1>2 DEF Standby!ClockInv
<1> QED
  BY <1>3, <1>4, <1>5, <1>6, <1>7 DEF Standby!CollectorInv

\* The processor may be down between two samples.
LEMMA StandbySleeps ==
  ASSUME Standby!CollectorInv, Standby!Sleep
  PROVE  Standby!CollectorInv'
<1>1. /\ s1 = "asleep" /\ s1' = "sample"
      /\ s3' = s3 /\ s4' = s4 /\ s5' = s5 /\ s8' = s8
  BY DEF Standby!Sleep
<1>2. /\ Standby!WindowTyped /\ Standby!MovesInv /\ Standby!StoryInv /\ Standby!CountInv
      /\ Standby!ClockInv
  BY <1>1 DEF Standby!CollectorInv, Standby!Collecting
<1>3. PICK gap \in 0..LongestSuspend :
        s2' = [boot |-> s2.boot + 1 + gap, mono |-> s2.mono + 1]
  BY DEF Standby!Sleep
<1>4. /\ s2.boot \in Nat /\ s2.mono \in Nat /\ gap \in Nat
      /\ s2'.boot = s2.boot + 1 + gap /\ s2'.mono = s2.mono + 1
  BY <1>2, <1>3 DEF Standby!WindowTyped
<1>5. s2' \in [boot : Nat, mono : Nat]
  BY <1>3, <1>4
<1>6. /\ Standby!SecondsSoFar' = Standby!SecondsSoFar
      /\ Standby!GapsSoFar' = Standby!GapsSoFar /\ Standby!Moves' = Standby!Moves
  BY <1>1, StandbySoFar
<1>7. Standby!WindowTyped'
  BY <1>1, <1>2, <1>5 DEF Standby!WindowTyped
<1>8. Standby!MovesInv'
  BY <1>1, <1>2, <1>6 DEF Standby!MovesInv
<1>9. Standby!StoryInv'
  BY <1>1, <1>2, <1>6 DEF Standby!StoryInv
<1>10. Standby!CountInv'
  BY <1>1, <1>2 DEF Standby!CountInv
<1>11. Standby!ClockInv'
  <2> DEFINE m == s3.last.mono
             b == s3.last.boot
             cb == s2.boot
             cm == s2.mono
             nb == s2'.boot
             nm == s2'.mono
  <2>1. m \in Nat /\ b \in Nat
    BY <1>2 DEF Standby!WindowTyped, Standby!Windows, Standby!Samples
  <2>2. /\ m <= cm /\ b - m <= cb - cm /\ cb \in Nat /\ cm \in Nat
        /\ nb = cb + 1 + gap /\ nm = cm + 1 /\ gap \in Nat
    BY <1>2, <1>4 DEF Standby!ClockInv, Standby!SuspendedTotal
  <2> HIDE DEF m, b, cb, cm, nb, nm
  <2>3. m <= nm /\ b - m <= nb - nm
    BY ONLY <2>1, <2>2
  <2>4. /\ s3'.last.mono <= s2'.mono
        /\ Standby!SuspendedTotal(s3'.last) <= Standby!SuspendedTotal(s2')
    BY <1>1, <2>3 DEF m, b, nb, nm, Standby!SuspendedTotal
  <2> QED
    BY <1>1, <1>2, <1>6, <2>4 DEF Standby!ClockInv
<1>12. Standby!LastInv' /\ s1' \in Standby!Stages /\ s1' # "start"
  BY <1>1 DEF Standby!LastInv, Standby!Stages
<1> QED
  BY <1>7, <1>8, <1>9, <1>10, <1>11, <1>12 DEF Standby!CollectorInv

\* What the events of one more pair of samples add to the story.
StandbyAdds(past, news, a, b, usb, new, apart) ==
  /\ news \in Seq(Standby!Events) /\ Len(news) <= 2
  /\ Len(news) = 2 => news[1] \in Standby!Gaps /\ news[2] \notin Standby!Gaps
  /\ StandbySeconds(news) \in Nat /\ StandbySeconds(news) <= apart
  /\ past \o news \in Seq(Standby!Events)
  /\ Len(past \o news) = Len(past) + Len(news)
  /\ Standby!Story(past \o news)
       = StandbyStory(a + StandbySeconds(news), b + StandbyGaps(news),
                      StandbyMoves(usb, news))
  /\ StandbyMoves(usb, news) \in
       {<<>>, <<Standby!Unplug>>, <<Standby!Replug>>,
        <<Standby!Unplug, Standby!Replug>>}
  /\ StandbyMoves(usb, news) # <<>> =>
       StandbyMoves(usb, news)[Len(StandbyMoves(usb, news))].to = new
  /\ \/ StandbyMoves(usb, news) \in {<<>>, <<Standby!Unplug>>}
     \/ \E i \in DOMAIN news : news[i].kind = "usb_transition" /\ news[i].to

LEMMA StandbyTells ==
  ASSUME NEW past \in Seq(Standby!Events), NEW a \in Nat, NEW b \in Nat,
         NEW usb, NEW news, NEW old \in BOOLEAN, NEW new \in BOOLEAN, NEW apart \in Nat,
         usb = <<>> \/ usb = <<Standby!Unplug>>,
         Standby!Story(past) = StandbyStory(a, b, usb), usb # <<>> => old = FALSE,
         StandbyNewsOf(news, old, new, apart)
  PROVE  StandbyAdds(past, news, a, b, usb, new, apart)
<1> DEFINE u == Standby!Unplug
           r == Standby!Replug
           E == Standby!Events
<1>1. /\ u.to = FALSE /\ r.to = TRUE /\ u.kind = "usb_transition"
      /\ r.kind = "usb_transition"
      /\ \A g \in Standby!Gaps : g.kind = "suspend_gap" /\ g.seconds \in Nat
  BY DEF Standby!Unplug, Standby!Replug, Standby!Usb, Standby!Gaps
<1>2. /\ u \in E /\ r \in E /\ \A g \in Standby!Gaps : g \in E
      /\ u \notin Standby!Gaps /\ r \notin Standby!Gaps
  BY <1>1 DEF Standby!Events
<1>3. usb \in {<<>>, <<u>>} /\ \A x : <<x>> # <<>> /\ <<x>>[Len(<<x>>)] = x
  OBVIOUS
<1>4. /\ \A e \in E : past \o <<e>> = Append(past, e)
      /\ \A e \in E, f \in E : past \o <<e, f>> = Append(Append(past, e), f)
  <2>1. \A e \in E : past \o <<e>> = Append(past, e)
    BY AppendIsConcat
  <2>2. ASSUME NEW e \in E, NEW f \in E
        PROVE  past \o <<e, f>> = Append(Append(past, e), f)
    <3>1. Append(past, e) \in Seq(E) /\ past \in Seq(E)
      BY AppendRecord
    <3>2. <<e>> \in Seq(E) /\ <<f>> \in Seq(E)
      OBVIOUS
    <3>3. Append(Append(past, e), f) = (past \o <<e>>) \o <<f>>
      BY <2>1, <3>1, AppendIsConcat
    <3>4. (past \o <<e>>) \o <<f>> = past \o (<<e>> \o <<f>>)
      BY <3>1, <3>2, ConcatAssociative
    <3> QED
      BY <3>3, <3>4, StandbyShort
  <2> QED
    BY <2>1, <2>2
<1>5. ASSUME NEW m \in {u, r}, m.to = new, new # old
      PROVE  usb # <<>> => m = r
  BY <1>1, <1>5
<1>15. Standby!Suspend(0) \in Standby!Gaps
  BY DEF Standby!Suspend, Standby!Gaps
<1>16. ASSUME NEW m \in {u, r}, m.to = new, new # old, NEW x, NEW y
       PROVE  Standby!Heard(StandbyStory(x, y, usb), m)
                = StandbyStory(x, y, Append(usb, m))
  <2>1. (usb = <<>> /\ m = u) \/ (usb = <<>> /\ m = r) \/ (usb = <<u>> /\ m = r)
    BY <1>3, <1>5, <1>16
  <2>2. Append(<<>>, u) = <<u>> /\ Append(<<>>, r) = <<r>> /\ Append(<<u>>, r) = <<u, r>>
    BY StandbyShort
  <2> QED
    BY <2>1, <2>2, StandbyHearsMove
<1>6. ASSUME NEW m \in {u, r}, usb # <<>> => m = r
      PROVE  /\ Append(usb, m) \in {<<u>>, <<r>>, <<u, r>>}
             /\ Append(usb, m)[Len(Append(usb, m))] = m
             /\ Append(usb, m) # <<>>
             /\ Append(usb, m) = <<u>> \/ m = r
  <2>1. usb = <<>> \/ usb = <<u>>
    BY <1>3
  <2>2. CASE usb = <<>>
    BY <1>3, <1>6, <2>2, StandbyShort
  <2>3. CASE usb = <<u>> /\ m = r
    <3>1. Append(usb, m) = <<u, r>>
      BY <2>3, StandbyShort
    <3>2. <<u, r>>[Len(<<u, r>>)] = r /\ <<u, r>> # <<>>
      OBVIOUS
    <3> QED
      BY <2>3, <3>1, <3>2
  <2> QED
    BY <1>3, <1>6, <2>1, <2>2, <2>3
<1>7. Len(past) \in Nat
  OBVIOUS
<1>8. CASE news = <<>> /\ new = old
  <2>1. past \o news = past /\ Len(news) = 0 /\ news \in Seq(E)
    BY <1>8
  <2>2. StandbySeconds(news) = 0 /\ StandbyGaps(news) = 0 /\ StandbyMoves(usb, news) = usb
    BY <1>8 DEF StandbySeconds, StandbyGaps, StandbyMoves, StandbyGapIn, StandbyMoveIn
  <2>3. usb # <<>> => usb[Len(usb)].to = new
    BY <1>1, <1>3, <1>8
  <2>4. a + 0 = a /\ b + 0 = b /\ Len(past) + 0 = Len(past) /\ 0 <= apart
    BY <1>7
  <2> QED
    BY <1>3, <2>1, <2>2, <2>3, <2>4 DEF StandbyAdds
<1>9. ASSUME NEW g \in Standby!Gaps, g.seconds <= apart, news = <<g>>, new = old
      PROVE  /\ news \in Seq(E) /\ Len(news) = 1
             /\ StandbySeconds(news) = g.seconds
             /\ past \o news \in Seq(E) /\ Len(past \o news) = Len(past) + 1
             /\ Standby!Story(past \o news)
                  = StandbyStory(a + StandbySeconds(news), b + StandbyGaps(news), usb)
             /\ StandbyMoves(usb, news) = usb
             /\ usb # <<>> => usb[Len(usb)].to = new
  <2>1. /\ StandbySeconds(news) = g.seconds /\ StandbyGaps(news) = 1
        /\ StandbyMoves(usb, news) = usb
    BY <1>9, StandbyWaiting
  <2>2. past \o news = Append(past, g) /\ g \in E
    BY <1>2, <1>4, <1>9
  <2>3. Append(past, g) \in Seq(E) /\ Len(Append(past, g)) = Len(past) + 1
    BY <2>2, AppendRecord
  <2>4. Standby!Story(Append(past, g)) = StandbyStory(a + g.seconds, b + 1, usb)
    BY <2>2, StoryGoesOn, StandbyHearsGap
  <2>5. news \in Seq(E) /\ Len(news) = 1
    BY <1>9, <2>2
  <2>6. usb # <<>> => usb[Len(usb)].to = new
    BY <1>1, <1>3, <1>9
  <2> QED
    BY <2>1, <2>2, <2>3, <2>4, <2>5, <2>6
<1>10. ASSUME NEW m \in {u, r}, news = <<m>>, m.to = new, new # old
       PROVE  /\ news \in Seq(E) /\ Len(news) = 1
              /\ StandbySeconds(news) = 0
              /\ past \o news \in Seq(E) /\ Len(past \o news) = Len(past) + 1
              /\ Standby!Story(past \o news)
                   = StandbyStory(a + StandbySeconds(news), b + StandbyGaps(news),
                                  Append(usb, m))
              /\ StandbyMoves(usb, news) = Append(usb, m)
              /\ m = r => \E i \in DOMAIN news :
                            news[i].kind = "usb_transition" /\ news[i].to
  <2>1. /\ StandbySeconds(news) = 0 /\ StandbyGaps(news) = 0
        /\ StandbyMoves(usb, news) = Append(usb, m)
    BY <1>10, <1>15, StandbyWaiting
  <2>2. past \o news = Append(past, m) /\ m \in E
    BY <1>2, <1>4, <1>10
  <2>3. Append(past, m) \in Seq(E) /\ Len(Append(past, m)) = Len(past) + 1
    BY <2>2, AppendRecord
  <2>4. Standby!Story(Append(past, m)) = StandbyStory(a, b, Append(usb, m))
    <3>1. Standby!Heard(StandbyStory(a, b, usb), m) = StandbyStory(a, b, Append(usb, m))
      BY <1>10, <1>16
    <3> QED
      BY <2>2, <3>1, StoryGoesOn
  <2>5. news \in Seq(E) /\ Len(news) = 1 /\ DOMAIN news = {1} /\ news[1] = m
    BY <1>10, <2>2
  <2>6. a + 0 = a /\ b + 0 = b
    OBVIOUS
  <2> QED
    BY <1>1, <2>1, <2>2, <2>3, <2>4, <2>5, <2>6
<1>11. ASSUME NEW g \in Standby!Gaps, NEW m \in {u, r}, g.seconds <= apart,
              news = <<g, m>>, m.to = new, new # old
       PROVE  /\ news \in Seq(E) /\ Len(news) = 2 /\ news[1] = g /\ news[2] = m
              /\ StandbySeconds(news) = g.seconds
              /\ past \o news \in Seq(E) /\ Len(past \o news) = Len(past) + 2
              /\ Standby!Story(past \o news)
                   = StandbyStory(a + StandbySeconds(news), b + StandbyGaps(news),
                                  Append(usb, m))
              /\ StandbyMoves(usb, news) = Append(usb, m)
              /\ m = r => \E i \in DOMAIN news :
                            news[i].kind = "usb_transition" /\ news[i].to
  <2>1. /\ StandbySeconds(news) = g.seconds /\ StandbyGaps(news) = 1
        /\ StandbyMoves(usb, news) = Append(usb, m)
    BY <1>11, StandbyWaiting
  <2>2. past \o news = Append(Append(past, g), m) /\ m \in E /\ g \in E
    BY <1>2, <1>4, <1>11
  <2>3. Append(past, g) \in Seq(E) /\ Len(Append(past, g)) = Len(past) + 1
    BY <2>2, AppendRecord
  <2>4. /\ Append(Append(past, g), m) \in Seq(E)
        /\ Len(Append(Append(past, g), m)) = (Len(past) + 1) + 1
    BY <2>2, <2>3, AppendRecord
  <2>5. Standby!Story(Append(past, g)) = StandbyStory(a + g.seconds, b + 1, usb)
    BY <2>2, StoryGoesOn, StandbyHearsGap
  <2>6. Standby!Story(Append(Append(past, g), m))
          = StandbyStory(a + g.seconds, b + 1, Append(usb, m))
    <3>1. Standby!Heard(StandbyStory(a + g.seconds, b + 1, usb), m)
            = StandbyStory(a + g.seconds, b + 1, Append(usb, m))
      BY <1>11, <1>16
    <3>2. Standby!Story(Append(Append(past, g), m))
            = Standby!Heard(StandbyStory(a + g.seconds, b + 1, usb), m)
      BY <2>2, <2>3, <2>5, StoryGoesOn
    <3> QED
      BY <3>1, <3>2
  <2>7. /\ news \in Seq(E) /\ Len(news) = 2 /\ DOMAIN news = {1, 2}
        /\ news[1] = g /\ news[2] = m
    BY <1>11, <2>2
  <2>8. (Len(past) + 1) + 1 = Len(past) + 2
    BY <1>7
  <2> QED
    BY <1>1, <2>1, <2>2, <2>4, <2>6, <2>7, <2>8
<1>12. CASE \E g \in Standby!Gaps : g.seconds <= apart /\ news = <<g>> /\ new = old
  <2>1. PICK g \in Standby!Gaps : g.seconds <= apart /\ news = <<g>> /\ new = old
    BY <1>12
  <2> QED
    BY <1>1, <1>3, <1>9, <2>1 DEF StandbyAdds
<1>13. CASE \E m \in {u, r} : news = <<m>> /\ m.to = new /\ new # old
  <2>1. PICK m \in {u, r} : news = <<m>> /\ m.to = new /\ new # old
    BY <1>13
  <2>2. /\ Append(usb, m) \in {<<u>>, <<r>>, <<u, r>>}
        /\ Append(usb, m)[Len(Append(usb, m))] = m
        /\ Append(usb, m) = <<u>> \/ m = r
    BY <1>5, <1>6, <2>1
  <2>3. /\ news \in Seq(E) /\ Len(news) = 1 /\ StandbySeconds(news) = 0
        /\ past \o news \in Seq(E) /\ Len(past \o news) = Len(past) + 1
        /\ Standby!Story(past \o news)
             = StandbyStory(a + StandbySeconds(news), b + StandbyGaps(news),
                            Append(usb, m))
        /\ StandbyMoves(usb, news) = Append(usb, m)
        /\ m = r => \E i \in DOMAIN news : news[i].kind = "usb_transition" /\ news[i].to
    BY <1>10, <2>1
  <2> DEFINE moves == Append(usb, m)
             told == past \o news
  <2>4. /\ moves \in {<<>>, <<u>>, <<r>>, <<u, r>>} /\ moves[Len(moves)].to = new
        /\ moves \in {<<>>, <<u>>} \/ m = r
    BY <2>1, <2>2
  <2>5. 0 \in Nat /\ 0 <= apart /\ 1 <= 2 /\ 1 # 2
    OBVIOUS
  <2> HIDE DEF moves, told, u, r, E
  <2>6. /\ news \in Seq(E) /\ Len(news) <= 2
        /\ Len(news) = 2 => news[1] \in Standby!Gaps /\ news[2] \notin Standby!Gaps
        /\ StandbySeconds(news) \in Nat /\ StandbySeconds(news) <= apart
        /\ Len(told) = Len(past) + Len(news)
    BY <2>3, <2>5 DEF told
  <2>7. /\ told \in Seq(E) /\ StandbyMoves(usb, news) = moves
        /\ Standby!Story(told)
             = StandbyStory(a + StandbySeconds(news), b + StandbyGaps(news), moves)
        /\ \/ moves \in {<<>>, <<u>>}
           \/ \E i \in DOMAIN news : news[i].kind = "usb_transition" /\ news[i].to
    BY <2>3, <2>4 DEF told, moves
  <2> QED
    BY <2>4, <2>6, <2>7 DEF StandbyAdds, told, moves, E, u, r
<1>14. CASE \E g \in Standby!Gaps, m \in {u, r} :
              g.seconds <= apart /\ news = <<g, m>> /\ m.to = new /\ new # old
  <2>1. PICK g \in Standby!Gaps, m \in {u, r} :
          g.seconds <= apart /\ news = <<g, m>> /\ m.to = new /\ new # old
    BY <1>14
  <2>2. /\ Append(usb, m) \in {<<u>>, <<r>>, <<u, r>>}
        /\ Append(usb, m)[Len(Append(usb, m))] = m
        /\ Append(usb, m) = <<u>> \/ m = r
    BY <1>5, <1>6, <2>1
  <2>3. /\ news \in Seq(E) /\ Len(news) = 2 /\ news[1] = g /\ news[2] = m
        /\ StandbySeconds(news) = g.seconds
        /\ past \o news \in Seq(E) /\ Len(past \o news) = Len(past) + 2
        /\ Standby!Story(past \o news)
             = StandbyStory(a + StandbySeconds(news), b + StandbyGaps(news),
                            Append(usb, m))
        /\ StandbyMoves(usb, news) = Append(usb, m)
        /\ m = r => \E i \in DOMAIN news : news[i].kind = "usb_transition" /\ news[i].to
    BY <1>11, <2>1
  <2>4. g.seconds \in Nat /\ m \notin Standby!Gaps
    BY <1>1, <1>2
  <2> DEFINE moves == Append(usb, m)
             told == past \o news
  <2>5. /\ moves \in {<<>>, <<u>>, <<r>>, <<u, r>>} /\ moves[Len(moves)].to = new
        /\ moves \in {<<>>, <<u>>} \/ m = r
    BY <2>1, <2>2
  <2> HIDE DEF moves, told, u, r, E
  <2>6. /\ news \in Seq(E) /\ Len(news) <= 2
        /\ Len(news) = 2 => news[1] \in Standby!Gaps /\ news[2] \notin Standby!Gaps
        /\ StandbySeconds(news) \in Nat /\ StandbySeconds(news) <= apart
        /\ Len(told) = Len(past) + Len(news)
    BY <2>1, <2>3, <2>4 DEF told
  <2>7. /\ told \in Seq(E) /\ StandbyMoves(usb, news) = moves
        /\ Standby!Story(told)
             = StandbyStory(a + StandbySeconds(news), b + StandbyGaps(news), moves)
        /\ \/ moves \in {<<>>, <<u>>}
           \/ \E i \in DOMAIN news : news[i].kind = "usb_transition" /\ news[i].to
    BY <2>3, <2>5 DEF told, moves
  <2> QED
    BY <2>5, <2>6, <2>7 DEF StandbyAdds, told, moves, E, u, r
<1> QED
  BY <1>8, <1>12, <1>13, <1>14 DEF StandbyNewsOf

LEMMA StandbyObserves ==
  ASSUME Standby!CollectorInv, Standby!WindowAssumption, Standby!Observe
  PROVE  Standby!CollectorInv'
<1> DEFINE a == s3.suspended
           b == s3.gapCount
           usb == s3.usb
           old == s3.last.attached
           x == Standby!SuspendedTotal(s3.last)
<1>1. s1 = "sample"
  BY DEF Standby!Observe
<1>2. /\ Standby!WindowTyped /\ Standby!MovesInv /\ Standby!StoryInv /\ Standby!CountInv
      /\ Standby!ClockInv
  BY <1>1 DEF Standby!CollectorInv, Standby!Collecting
<1>3. s4 = <<>>
  BY <1>1, <1>2 DEF Standby!CountInv
<1>4. /\ s2 \in [boot : Nat, mono : Nat] /\ s3 \in Standby!Windows
      /\ Len(s3.events) <= MaxEvents /\ s8 \in Seq(Standby!Events)
  BY <1>2 DEF Standby!WindowTyped
<1>5. PICK s \in {Standby!Sample(s2, r) : r \in Standby!Readings} :
        s3' = Standby!Take(s3, s) /\ s5' = Standby!NewEvents(s3, s)
  BY DEF Standby!Observe
<1> DEFINE news == Standby!NewEvents(s3, s)
           y == Standby!SuspendedTotal(s)
           new == s.attached
           apart == y - x
           moves == StandbyMoves(usb, news)
<1>6. /\ s4' = news /\ s5' = news /\ s8' = s8 \o news /\ s2' = s2
      /\ s1' = IF news = <<>> THEN "check" ELSE "record"
  BY <1>5 DEF Standby!Observe
<1>7. s \in Standby!Samples /\ s.boot = s2.boot /\ s.mono = s2.mono
  BY <1>4, StandbySampled
<1>8. /\ s3.last \in Standby!Samples /\ s3.first \in Standby!Samples
      /\ a \in Nat /\ b \in Nat
  BY <1>4 DEF Standby!Windows
<1>9. x \in Int /\ y \in Int /\ x <= y
  <2>1. y = Standby!SuspendedTotal(s2)
    BY <1>7 DEF Standby!SuspendedTotal
  <2>2. x <= Standby!SuspendedTotal(s2)
    BY <1>2 DEF Standby!ClockInv
  <2>3. x \in Int /\ y \in Int
    BY <1>7, <1>8 DEF Standby!Samples, Standby!SuspendedTotal
  <2> QED
    BY <2>1, <2>2, <2>3
<1>10. Standby!Moves = usb /\ Standby!SecondsSoFar = a + 0 /\ Standby!GapsSoFar = b + 0
  <2>1. /\ StandbySeconds(<<>>) = 0 /\ StandbyGaps(<<>>) = 0
        /\ StandbyMoves(usb, <<>>) = usb
    BY DEF StandbySeconds, StandbyGaps, StandbyMoves, StandbyGapIn, StandbyMoveIn
  <2> QED
    BY <1>3, <2>1, StandbySoFar
<1>11. a + 0 = a /\ b + 0 = b
  BY <1>8
<1>12. usb = <<>> \/ usb = <<Standby!Unplug>>
  BY <1>1, <1>2, <1>10 DEF Standby!MovesInv
<1>13. usb # <<>> => old = FALSE
  <2> SUFFICES ASSUME usb = <<Standby!Unplug>>
               PROVE  old = FALSE
    BY <1>12
  <2>1. usb # <<>> /\ usb[Len(usb)] = Standby!Unplug
    OBVIOUS
  <2>2. old = Standby!Unplug.to
    BY <1>2, <1>10, <2>1 DEF Standby!MovesInv
  <2> QED
    BY <2>2 DEF Standby!Unplug, Standby!Usb
<1>14. Standby!Story(s8) = StandbyStory(a, b, usb)
  BY <1>2, <1>10, <1>11 DEF Standby!StoryInv, StandbyStory
<1>15. old \in BOOLEAN /\ new \in BOOLEAN
  BY <1>7, <1>8 DEF Standby!Samples
<1>16. /\ s3' \in Standby!Windows /\ StandbyKept(s3', s3)
       /\ s3'.first = s3.first /\ s3'.last = s
  BY <1>4, <1>5, <1>7, StandbyTakes
<1>17. apart \in Nat
  <2> HIDE DEF x, y
  <2> QED
    BY <1>9
<1>18. StandbyNewsOf(news, old, new, apart)
  BY <1>7, <1>8, <1>9, StandbyNews
<1> HIDE DEF a, b, usb, old, new, x, y, apart, news
<1>19. /\ news \in Seq(Standby!Events) /\ Len(news) <= 2
       /\ Len(news) = 2 => news[1] \in Standby!Gaps /\ news[2] \notin Standby!Gaps
       /\ StandbySeconds(news) \in Nat /\ StandbySeconds(news) <= apart
       /\ s8 \o news \in Seq(Standby!Events)
       /\ Len(s8 \o news) = Len(s8) + Len(news)
       /\ Standby!Story(s8 \o news)
            = StandbyStory(a + StandbySeconds(news), b + StandbyGaps(news), moves)
       /\ moves \in {<<>>, <<Standby!Unplug>>, <<Standby!Replug>>,
                     <<Standby!Unplug, Standby!Replug>>}
       /\ moves # <<>> => moves[Len(moves)].to = new
       /\ \/ moves \in {<<>>, <<Standby!Unplug>>}
          \/ \E i \in DOMAIN news : news[i].kind = "usb_transition" /\ news[i].to
  <2>1. StandbyAdds(s8, news, a, b, usb, new, apart)
    BY <1>4, <1>8, <1>12, <1>13, <1>14, <1>15, <1>17, <1>18, StandbyTells
  <2> QED
    BY <2>1 DEF StandbyAdds
<1>20. /\ Standby!SecondsSoFar' = a + StandbySeconds(news)
       /\ Standby!GapsSoFar' = b + StandbyGaps(news) /\ Standby!Moves' = moves
  BY <1>6, <1>16, StandbySoFar DEF StandbyKept, a, b, usb
<1>21. Standby!WindowTyped'
  <2>1. s3'.events = s3.events
    BY <1>16 DEF StandbyKept
  <2> QED
    BY <1>4, <1>6, <1>16, <1>19, <2>1 DEF Standby!WindowTyped
<1>22. Standby!MovesInv'
  <2>1. Standby!ReplugSeen' <=>
          \E i \in DOMAIN news : news[i].kind = "usb_transition" /\ news[i].to
    BY <1>6 DEF Standby!ReplugSeen
  <2>2. news = <<>> => moves \in {<<>>, <<Standby!Unplug>>}
    BY <1>19
  <2>3. moves # <<>> => s3'.last.attached = moves[Len(moves)].to
    BY <1>16, <1>19 DEF new
  <2>4. s1' \in {"check", "asleep", "sample"} => news = <<>>
    BY <1>6
  <2> HIDE DEF moves
  <2> QED
    BY <1>19, <1>20, <2>1, <2>2, <2>3, <2>4 DEF Standby!MovesInv
<1>23. Standby!StoryInv'
  BY <1>6, <1>19, <1>20 DEF Standby!StoryInv, StandbyStory
<1>24. Standby!CountInv'
  <2>1. s3.total + Len(s4) = Len(s8) /\ s3.dropped + Len(s3.events) = s3.total
    BY <1>2 DEF Standby!CountInv
  <2>2. Len(s4) = 0 /\ s3.total \in Nat
    BY <1>3, <1>4 DEF Standby!Windows
  <2>3. /\ s3'.total = s3.total /\ s3'.dropped = s3.dropped /\ s3'.events = s3.events
    BY <1>16 DEF StandbyKept
  <2>4. s3'.total + Len(s4') = Len(s8')
    <3>1. s3.total + 0 = s3.total
      BY <2>2
    <3>2. s3.total = Len(s8)
      BY <2>1, <2>2, <3>1
    <3> QED
      BY <1>6, <1>19, <2>3, <3>2
  <2>5. s4' # <<>> <=> s1' = "record"
    BY <1>6
  <2> QED
    BY <2>1, <2>3, <2>4, <2>5 DEF Standby!CountInv
<1>25. Standby!ClockInv'
  <2> DEFINE z == Standby!SuspendedTotal(s3.first)
             p == s3.first.mono
             q == s3.last.mono
             c == s2.mono
             k == StandbySeconds(news)
  <2>1. a <= x - z /\ p <= q /\ q <= c
    BY <1>2, <1>10, <1>11 DEF Standby!ClockInv, x
  <2>7. z \in Int /\ p \in Nat /\ q \in Nat /\ c \in Nat
    BY <1>4, <1>8 DEF Standby!Samples, Standby!SuspendedTotal
  <2>2. /\ z \in Int /\ x \in Int /\ y \in Int /\ a \in Nat /\ k \in Nat /\ k <= y - x
        /\ p \in Nat /\ q \in Nat /\ c \in Nat
    BY <1>8, <1>9, <1>19, <2>7 DEF apart
  <2>3. s3'.first.mono = p /\ s3'.last.mono = c /\ s2'.mono = c
    BY <1>6, <1>7, <1>16
  <2>4. /\ Standby!SuspendedTotal(s3'.last) = y /\ Standby!SuspendedTotal(s2') = y
        /\ Standby!SuspendedTotal(s3'.first) = z
    BY <1>6, <1>7, <1>16 DEF y, Standby!SuspendedTotal
  <2>5. Standby!SecondsSoFar' = a + k
    BY <1>20
  <2> HIDE DEF z, p, q, c, k
  <2>6. p <= c /\ c <= c /\ y <= y /\ a + k <= y - z
    BY ONLY <2>1, <2>2
  <2> QED
    BY <2>3, <2>4, <2>5, <2>6 DEF Standby!ClockInv
<1>26. Standby!LastInv' /\ s1' \in Standby!Stages /\ s1' # "start"
  BY <1>6 DEF Standby!LastInv, Standby!Stages
<1> QED
  BY <1>21, <1>22, <1>23, <1>24, <1>25, <1>26 DEF Standby!CollectorInv

\* An event goes from those that wait to the window.
LEMMA StandbyRecords ==
  ASSUME Standby!CollectorInv, Standby!WindowAssumption, Standby!RecordOne
  PROVE  Standby!CollectorInv'
<1> DEFINE e == s4[1]
<1>1. /\ s1 = "record" /\ s2' = s2 /\ s5' = s5 /\ s8' = s8
      /\ s3' = Standby!Record(s3, Head(s4)) /\ s4' = Tail(s4)
      /\ s1' = IF Len(s4) = 1 THEN "build" ELSE "record"
  BY DEF Standby!RecordOne
<1>2. /\ Standby!WindowTyped /\ Standby!MovesInv /\ Standby!StoryInv /\ Standby!CountInv
      /\ Standby!ClockInv
  BY <1>1 DEF Standby!CollectorInv, Standby!Collecting
<1>3. s4 # <<>>
  BY <1>1, <1>2 DEF Standby!CountInv
<1>4. StandbyShape(s4) /\ s3 \in Standby!Windows /\ Len(s3.events) <= MaxEvents
  BY <1>2, StandbyShapes DEF Standby!WindowTyped
<1>5. /\ s3.suspended \in Nat /\ s3.gapCount \in Nat /\ s3.total \in Nat
      /\ s3.usb \in Seq({Standby!Unplug, Standby!Replug})
  BY <1>4 DEF Standby!Windows
<1>6. /\ Standby!WindowTyped' /\ s3'.first = s3.first /\ s3'.last = s3.last
      /\ s3'.total = s3.total + 1
      /\ s3'.dropped + Len(s3'.events) = s3.dropped + Len(s3.events) + 1
      /\ Len(s4) = Len(s4') + 1 /\ Len(s4') \in Nat
      /\ s4' # <<>> <=> Len(s4) # 1
      /\ Standby!SecondsSoFar' = Standby!SecondsSoFar
      /\ Standby!GapsSoFar' = Standby!GapsSoFar /\ Standby!Moves' = Standby!Moves
  <2>1. CASE \E g \in Standby!Gaps : s4 = <<g>>
    <3>1. PICK g \in Standby!Gaps : s4 = <<g>>
      BY <2>1
    <3>2. Head(s4) = g /\ Tail(s4) = <<>> /\ Len(s4) = 1
      BY <3>1
    <3>3. /\ s3' \in Standby!Windows /\ Len(s3'.events) <= MaxEvents
          /\ s3'.total = s3.total + 1
          /\ s3'.dropped + Len(s3'.events) = s3.dropped + Len(s3.events) + 1
          /\ s3'.gapCount = s3.gapCount + 1 /\ s3'.suspended = s3.suspended + g.seconds
          /\ s3'.usb = s3.usb /\ s3'.first = s3.first /\ s3'.last = s3.last
      BY <1>1, <1>4, <3>2, StandbyGap
    <3>4. /\ StandbySeconds(<<g>>) = g.seconds /\ StandbyGaps(<<g>>) = 1
          /\ StandbyMoves(s3.usb, <<g>>) = s3.usb
          /\ StandbySeconds(<<>>) = 0 /\ StandbyGaps(<<>>) = 0
          /\ StandbyMoves(s3.usb, <<>>) = s3.usb
      BY StandbyWaiting
    <3>5. /\ s3.suspended + g.seconds = (s3.suspended + g.seconds) + 0
          /\ s3.gapCount + 1 = (s3.gapCount + 1) + 0
      <4>1. g.seconds \in Nat
        BY DEF Standby!Gaps
      <4> QED
        BY <1>5, <4>1
    <3>6. /\ Standby!SecondsSoFar' = Standby!SecondsSoFar
          /\ Standby!GapsSoFar' = Standby!GapsSoFar /\ Standby!Moves' = Standby!Moves
      BY <1>1, <3>1, <3>2, <3>3, <3>4, <3>5, StandbySoFar
    <3>7. /\ s4' = <<>> /\ Len(s4') = 0 /\ s4' \in Seq(Standby!Events)
          /\ Len(s4') <= 2 /\ Len(s4') # 2
      <4>1. s4' = <<>>
        BY <1>1, <3>2
      <4>2. <<>> \in Seq(Standby!Events) /\ Len(<<>>) = 0 /\ 0 <= 2 /\ 0 # 2
        OBVIOUS
      <4> QED
        BY <4>1, <4>2
    <3>8. Standby!WindowTyped'
      BY <1>1, <1>2, <3>3, <3>7 DEF Standby!WindowTyped
    <3> QED
      BY <3>2, <3>3, <3>6, <3>7, <3>8
  <2>2. CASE \E m \in {Standby!Unplug, Standby!Replug} : s4 = <<m>>
    <3>1. PICK m \in {Standby!Unplug, Standby!Replug} : s4 = <<m>>
      BY <2>2
    <3>2. Head(s4) = m /\ Tail(s4) = <<>> /\ Len(s4) = 1
      BY <3>1
    <3>3. Standby!Suspend(0) \in Standby!Gaps
      BY DEF Standby!Suspend, Standby!Gaps
    <3>4. /\ StandbySeconds(<<m>>) = 0 /\ StandbyGaps(<<m>>) = 0
          /\ StandbyMoves(s3.usb, <<m>>) = Append(s3.usb, m)
          /\ StandbySeconds(<<>>) = 0 /\ StandbyGaps(<<>>) = 0
          /\ \A list : StandbyMoves(list, <<>>) = list
      BY <3>3, StandbyWaiting
    <3>5. Len(s3.usb) <= 1
      <4>1. Append(s3.usb, m) \in {<<>>, <<Standby!Unplug>>, <<Standby!Replug>>,
                                   <<Standby!Unplug, Standby!Replug>>}
        BY <1>2, <3>1, <3>4, StandbySoFar DEF Standby!MovesInv
      <4>2. Len(Append(s3.usb, m)) <= 2
        <5>1. \A x, y : Len(<<>>) <= 2 /\ Len(<<x>>) <= 2 /\ Len(<<x, y>>) <= 2
          OBVIOUS
        <5> QED
          BY <4>1, <5>1
      <4>3. Len(Append(s3.usb, m)) = Len(s3.usb) + 1 /\ Len(s3.usb) \in Nat
        BY <1>5, AppendRecord
      <4> QED
        BY <4>2, <4>3
    <3>6. /\ s3' \in Standby!Windows /\ Len(s3'.events) <= MaxEvents
          /\ s3'.total = s3.total + 1
          /\ s3'.dropped + Len(s3'.events) = s3.dropped + Len(s3.events) + 1
          /\ s3'.gapCount = s3.gapCount /\ s3'.suspended = s3.suspended
          /\ s3'.usb = Append(s3.usb, m) /\ s3'.first = s3.first /\ s3'.last = s3.last
      BY <1>1, <1>4, <3>2, <3>5, StandbyMove
    <3>7. /\ Standby!SecondsSoFar' = Standby!SecondsSoFar
          /\ Standby!GapsSoFar' = Standby!GapsSoFar /\ Standby!Moves' = Standby!Moves
      BY <1>1, <3>1, <3>2, <3>4, <3>6, StandbySoFar
    <3>8. /\ s4' = <<>> /\ Len(s4') = 0 /\ s4' \in Seq(Standby!Events)
          /\ Len(s4') <= 2 /\ Len(s4') # 2
      <4>1. s4' = <<>>
        BY <1>1, <3>2
      <4>2. <<>> \in Seq(Standby!Events) /\ Len(<<>>) = 0 /\ 0 <= 2 /\ 0 # 2
        OBVIOUS
      <4> QED
        BY <4>1, <4>2
    <3>9. Standby!WindowTyped'
      BY <1>1, <1>2, <3>6, <3>8 DEF Standby!WindowTyped
    <3> QED
      BY <3>2, <3>6, <3>7, <3>8, <3>9
  <2>3. CASE \E g \in Standby!Gaps, m \in {Standby!Unplug, Standby!Replug} : s4 = <<g, m>>
    <3>1. PICK g \in Standby!Gaps, m \in {Standby!Unplug, Standby!Replug} : s4 = <<g, m>>
      BY <2>3
    <3>2. Head(s4) = g /\ Tail(s4) = <<m>> /\ Len(s4) = 2
      BY <3>1
    <3>3. /\ s3' \in Standby!Windows /\ Len(s3'.events) <= MaxEvents
          /\ s3'.total = s3.total + 1
          /\ s3'.dropped + Len(s3'.events) = s3.dropped + Len(s3.events) + 1
          /\ s3'.gapCount = s3.gapCount + 1 /\ s3'.suspended = s3.suspended + g.seconds
          /\ s3'.usb = s3.usb /\ s3'.first = s3.first /\ s3'.last = s3.last
      BY <1>1, <1>4, <3>2, StandbyGap
    <3>4. /\ StandbySeconds(<<g, m>>) = g.seconds /\ StandbyGaps(<<g, m>>) = 1
          /\ StandbyMoves(s3.usb, <<g, m>>) = Append(s3.usb, m)
          /\ StandbySeconds(<<m>>) = 0 /\ StandbyGaps(<<m>>) = 0
          /\ StandbyMoves(s3.usb, <<m>>) = Append(s3.usb, m)
      BY StandbyWaiting
    <3>5. /\ s3.suspended + g.seconds = (s3.suspended + g.seconds) + 0
          /\ s3.gapCount + 1 = (s3.gapCount + 1) + 0
      <4>1. g.seconds \in Nat
        BY DEF Standby!Gaps
      <4> QED
        BY <1>5, <4>1
    <3>6. /\ Standby!SecondsSoFar' = Standby!SecondsSoFar
          /\ Standby!GapsSoFar' = Standby!GapsSoFar /\ Standby!Moves' = Standby!Moves
      BY <1>1, <3>1, <3>2, <3>3, <3>4, <3>5, StandbySoFar
    <3>7. /\ s4' = <<m>> /\ Len(s4') = 1 /\ s4' \in Seq(Standby!Events)
          /\ Len(s4') <= 2 /\ Len(s4') # 2
      <4>1. s4' = <<m>>
        BY <1>1, <3>2
      <4>2. m \in Standby!Events
        BY DEF Standby!Events
      <4>3. <<m>> \in Seq(Standby!Events) /\ Len(<<m>>) = 1 /\ 1 <= 2 /\ 1 # 2
        BY <4>2
      <4> QED
        BY <4>1, <4>3
    <3>8. Standby!WindowTyped'
      BY <1>1, <1>2, <3>3, <3>7 DEF Standby!WindowTyped
    <3> QED
      BY <3>2, <3>3, <3>6, <3>7, <3>8
  <2> QED
    BY <1>3, <1>4, <2>1, <2>2, <2>3 DEF StandbyShape
<1>7. Standby!MovesInv'
  <2>1. Standby!ReplugSeen' <=> Standby!ReplugSeen
    BY <1>1 DEF Standby!ReplugSeen
  <2> QED
    BY <1>1, <1>2, <1>6, <2>1 DEF Standby!MovesInv
<1>8. Standby!StoryInv'
  BY <1>1, <1>2, <1>6 DEF Standby!StoryInv
<1>9. Standby!CountInv'
  <2>1. s3.total + Len(s4) = Len(s8) /\ s3.dropped + Len(s3.events) = s3.total
    BY <1>2 DEF Standby!CountInv
  <2> DEFINE t == s3.total
             n == Len(s4')
  <2>2. t \in Nat /\ n \in Nat /\ Len(s4) = n + 1 /\ s3'.total = t + 1 /\ s8' = s8
        /\ t + (n + 1) = Len(s8)
    BY <1>1, <1>5, <1>6, <2>1
  <2> HIDE DEF t, n
  <2>3. (t + 1) + n = t + (n + 1)
    BY ONLY <2>2
  <2>4. s3'.total + Len(s4') = Len(s8')
    BY <2>2, <2>3 DEF n
  <2>5. s3'.dropped + Len(s3'.events) = s3'.total
    BY <1>6, <2>1
  <2>6. s4' # <<>> <=> s1' = "record"
    BY <1>1, <1>6
  <2> QED
    BY <2>4, <2>5, <2>6 DEF Standby!CountInv
<1>10. Standby!ClockInv'
  BY <1>1, <1>2, <1>6 DEF Standby!ClockInv
<1>11. Standby!LastInv' /\ s1' \in Standby!Stages /\ s1' # "start"
  BY <1>1 DEF Standby!LastInv, Standby!Stages
<1> QED
  BY <1>6, <1>7, <1>8, <1>9, <1>10, <1>11 DEF Standby!CollectorInv

\* The files stay three, and the last document is written of the last result.
LEMMA StandbyFiles ==
  ASSUME Standby!StandbyInv, [Standby!Next]_slots
  PROVE  DOMAIN s7' = {"out", "tmp", "held"}
<1>1. DOMAIN s7 = {"out", "tmp", "held"}
  BY DEF Standby!StandbyInv
<1>2. CASE s7' = s7
  BY <1>1, <1>2
<1>3. CASE \E o, t, h : s7' = [out |-> o, tmp |-> t, held |-> h]
  BY <1>3
<1>4. CASE \E x, y : s7' = [s7 EXCEPT !.out = x, !.tmp = y]
  BY <1>1, <1>4
<1>5. CASE \E x, y : s7' = [s7 EXCEPT !.tmp = x, !.held = y]
  BY <1>1, <1>5
<1>6. CASE \E x : s7' = [s7 EXCEPT !.tmp = x]
  BY <1>1, <1>6
<1>7. CASE Standby!Open \/ Standby!OpenLast
  BY <1>6, <1>7 DEF Standby!Open, Standby!OpenLast, Standby!OpenTmp
<1>8. CASE Standby!Replaced \/ Standby!ReplacedLast
  BY <1>4, <1>8 DEF Standby!Replaced, Standby!ReplacedLast, Standby!Replace
<1>9. CASE Standby!Signal
  BY <1>5, <1>9 DEF Standby!Signal
<1>10. CASE Standby!HandlerReplaced
  BY <1>3, <1>10 DEF Standby!HandlerReplaced
<1>11. CASE Standby!Die
  BY <1>2, <1>6, <1>11 DEF Standby!Die
<1>12. CASE Standby!Begin \/ Standby!Check \/ Standby!Sleep \/ Standby!Observe
  BY <1>2, <1>12 DEF Standby!Begin, Standby!Check, Standby!Sleep, Standby!Observe
<1>13. CASE Standby!RecordOne \/ Standby!Build \/ Standby!BuildLast
  BY <1>2, <1>13 DEF Standby!RecordOne, Standby!Build, Standby!BuildLast
<1>14. CASE UNCHANGED slots
  BY <1>2, <1>14 DEF slots
<1> QED
  BY <1>7, <1>8, <1>9, <1>10, <1>11, <1>12, <1>13, <1>14 DEF Standby!Next, Standby!Step

LEMMA StandbyStepHolds ==
  ASSUME Standby!StandbyInv, Standby!WindowAssumption, [Standby!Next]_slots
  PROVE  Standby!StandbyInv'
<1>15. DOMAIN s7 = {"out", "tmp", "held"} /\ Standby!CollectorInv
  BY DEF Standby!StandbyInv
<1> SUFFICES Standby!CollectorInv'
  BY StandbyFiles DEF Standby!StandbyInv
<1> DEFINE Kept == s2' = s2 /\ s3' = s3 /\ s4' = s4 /\ s5' = s5 /\ s8' = s8
<1>1. CASE Standby!Begin
  BY <1>1, <1>15, StandbyStarts
<1>2. CASE Standby!Open
  <2>1. s1 = "open" /\ s1' = "replace" /\ Kept
    BY <1>2 DEF Standby!Open
  <2>2. Standby!LastInv'
    BY <2>1 DEF Standby!LastInv
  <2> QED
    BY <1>15, <2>1, <2>2, StandbyKeeps DEF Standby!Collecting, Standby!Stages
<1>3. CASE Standby!Replaced
  <2>1. /\ s1 = "replace" /\ s1' = IF Standby!ReplugSeen THEN "ending" ELSE "check"
        /\ Kept
    BY <1>3 DEF Standby!Replaced
  <2>2. Standby!LastInv'
    BY <2>1 DEF Standby!LastInv
  <2> QED
    BY <1>15, <2>1, <2>2, StandbyKeeps DEF Standby!Collecting, Standby!Stages
<1>4. CASE Standby!Check
  <2>1. s1 = "check" /\ s1' \in {"ending", "asleep"} /\ Kept
    BY <1>4 DEF Standby!Check
  <2>2. Standby!LastInv'
    BY <2>1 DEF Standby!LastInv
  <2> QED
    BY <1>15, <2>1, <2>2, StandbyKeeps DEF Standby!Collecting, Standby!Stages
<1>5. CASE Standby!Sleep
  BY <1>5, <1>15, StandbySleeps
<1>6. CASE Standby!Observe
  BY <1>6, <1>15, StandbyObserves
<1>7. CASE Standby!RecordOne
  BY <1>7, <1>15, StandbyRecords
<1>8. CASE Standby!Build
  <2>1. s1 = "build" /\ s1' = "open" /\ Kept
    BY <1>8 DEF Standby!Build
  <2>2. Standby!LastInv'
    BY <2>1 DEF Standby!LastInv
  <2> QED
    BY <1>15, <2>1, <2>2, StandbyKeeps DEF Standby!Collecting, Standby!Stages
<1>9. CASE Standby!BuildLast
  <2>1. /\ s1 = "ending" /\ s1' = "open last" /\ Kept
        /\ s6' = Standby!Result(s3, [s3.last EXCEPT !.boot = s2.boot])
    BY <1>9 DEF Standby!BuildLast
  <2>2. Standby!LastInv'
    BY <2>1 DEF Standby!LastInv
  <2> QED
    BY <1>15, <2>1, <2>2, StandbyKeeps DEF Standby!Collecting, Standby!Stages
<1>10. CASE Standby!OpenLast
  <2>1. /\ s1 = "open last" /\ s1' = "replace last" /\ Kept /\ s6' = s6
        /\ s7' = [s7 EXCEPT !.tmp = Standby!Document(s6)]
    BY <1>10 DEF Standby!OpenLast, Standby!OpenTmp
  <2>2. s6 = Standby!Result(s3, [s3.last EXCEPT !.boot = s2.boot])
    BY <1>15, <2>1 DEF Standby!CollectorInv, Standby!LastInv
  <2>3. s7'.tmp = Standby!Document(s6)
    BY <1>15, <2>1
  <2>4. Standby!Document(s6)' = Standby!Document(s6)
    BY <2>1 DEF Standby!Document
  <2>5. Standby!LastInv'
    BY <2>1, <2>2, <2>3, <2>4 DEF Standby!LastInv
  <2> QED
    BY <1>15, <2>1, <2>5, StandbyKeeps DEF Standby!Collecting, Standby!Stages
<1>11. CASE Standby!ReplacedLast
  <2>1. /\ s1 = "replace last" /\ s1' = "done" /\ Kept /\ s6' = s6
        /\ s7' = [s7 EXCEPT !.out = s7.tmp, !.tmp = Standby!None]
    BY <1>11 DEF Standby!ReplacedLast, Standby!Replace
  <2>2. /\ s6 = Standby!Result(s3, [s3.last EXCEPT !.boot = s2.boot])
        /\ s7.tmp = Standby!Document(s6)
    BY <1>15, <2>1 DEF Standby!CollectorInv, Standby!LastInv
  <2>3. s7'.out = s7.tmp
    BY <1>15, <2>1
  <2>4. Standby!Document(s6)' = Standby!Document(s6)
    BY <2>1 DEF Standby!Document
  <2>5. Standby!LastInv'
    BY <2>1, <2>2, <2>3, <2>4 DEF Standby!LastInv
  <2> QED
    BY <1>15, <2>1, <2>5, StandbyKeeps DEF Standby!Collecting, Standby!Stages
<1>12. CASE Standby!Signal \/ Standby!HandlerReplaced \/ Standby!Die
  <2>1. s1' \in {"handler replace", "signalled", "dead"}
    BY <1>12 DEF Standby!Signal, Standby!HandlerReplaced, Standby!Die
  <2>2. /\ s1' \in Standby!Stages /\ s1' # "start" /\ Standby!LastInv'
        /\ ~(Standby!Collecting')
    BY <2>1 DEF Standby!Stages, Standby!LastInv, Standby!Collecting
  <2> QED
    BY <2>2 DEF Standby!CollectorInv
<1>13. CASE UNCHANGED slots
  <2>1. s1' = s1 /\ Kept /\ s6' = s6 /\ s7' = s7
    BY <1>13 DEF slots
  <2>2. Standby!LastInv'
    BY <1>15, <2>1 DEF Standby!CollectorInv, Standby!LastInv, Standby!Document
  <2>3. /\ Standby!SecondsSoFar' = Standby!SecondsSoFar
        /\ Standby!GapsSoFar' = Standby!GapsSoFar /\ Standby!Moves' = Standby!Moves
        /\ Standby!ReplugSeen' <=> Standby!ReplugSeen
    BY <2>1, StandbySoFar DEF Standby!ReplugSeen
  <2>4. Standby!WindowTyped => Standby!WindowTyped'
    BY <2>1 DEF Standby!WindowTyped
  <2>5. Standby!MovesInv => Standby!MovesInv'
    BY <2>1, <2>3 DEF Standby!MovesInv
  <2>6. Standby!StoryInv => Standby!StoryInv'
    BY <2>1, <2>3 DEF Standby!StoryInv
  <2>7. Standby!CountInv => Standby!CountInv'
    BY <2>1 DEF Standby!CountInv
  <2>8. Standby!ClockInv => Standby!ClockInv'
    BY <2>1, <2>3 DEF Standby!ClockInv
  <2>9. Standby!Collecting' <=> Standby!Collecting
    BY <2>1 DEF Standby!Collecting
  <2> QED
    BY <1>15, <2>1, <2>2, <2>4, <2>5, <2>6, <2>7, <2>8, <2>9 DEF Standby!CollectorInv
<1> QED
  BY <1>1, <1>2, <1>3, <1>4, <1>5, <1>6, <1>7, <1>8, <1>9, <1>10, <1>11, <1>12, <1>13
     DEF Standby!Next, Standby!Step

\* The document of a window that came to its end is of all its events.
LEMMA StandbyMeans ==
  ASSUME Standby!StandbyInv
  PROVE  Standby!FinalTellsAll
<1> SUFFICES ASSUME s1 = "done"
             PROVE  LET r == s7.out.result
                    IN  /\ r.total = Len(s8)
                        /\ r.dropped + Len(s7.out.events) = Len(s8)
                        /\ Standby!Story(s8) =
                             [seconds |-> r.suspended, gaps |-> r.gapCount,
                              unplug |-> r.unplug, replug |-> r.replug]
                        /\ r.suspended <= r.elapsed
  BY DEF Standby!FinalTellsAll
<1>1. /\ Standby!WindowTyped /\ Standby!StoryInv /\ Standby!CountInv /\ Standby!ClockInv
      /\ Standby!MovesInv /\ Standby!LastInv
  BY DEF Standby!StandbyInv, Standby!CollectorInv, Standby!Collecting
<1>2. s4 = <<>>
  BY <1>1 DEF Standby!CountInv
<1>3. /\ StandbySeconds(s4) = 0 /\ StandbyGaps(s4) = 0
      /\ StandbyMoves(s3.usb, s4) = s3.usb
  BY <1>2 DEF StandbySeconds, StandbyGaps, StandbyMoves, StandbyGapIn, StandbyMoveIn
<1>4. /\ s3.suspended \in Nat /\ s3.gapCount \in Nat /\ s3.total \in Nat
      /\ s3.last \in Standby!Samples /\ s3.first \in Standby!Samples
  BY <1>1 DEF Standby!WindowTyped, Standby!Windows
<1>5. s3.suspended + 0 = s3.suspended /\ s3.gapCount + 0 = s3.gapCount
  BY <1>4
<1>6. /\ Standby!Story(s8) = StandbyStory(s3.suspended, s3.gapCount, s3.usb)
      /\ s3.suspended
           <= Standby!SuspendedTotal(s3.last) - Standby!SuspendedTotal(s3.first)
  BY <1>1, <1>3, <1>5, StandbyParts
<1>7. s3.total = Len(s8) /\ s3.dropped + Len(s3.events) = Len(s8)
  <2>1. Len(s4) = 0 /\ s3.total + 0 = s3.total
    BY <1>2, <1>4
  <2> QED
    BY <1>1, <2>1 DEF Standby!CountInv
<1>8. s3.suspended <= s3.last.boot - s3.first.boot
  <2> DEFINE a == s3.last.boot
             b == s3.last.mono
             c == s3.first.boot
             d == s3.first.mono
             k == s3.suspended
  <2>1. /\ a \in Nat /\ b \in Nat /\ c \in Nat /\ d \in Nat /\ k \in Nat
        /\ d <= b /\ k <= (a - b) - (c - d)
    BY <1>1, <1>4, <1>6 DEF Standby!Samples, Standby!ClockInv, Standby!SuspendedTotal
  <2> HIDE DEF a, b, c, d, k
  <2>2. k <= a - c
    BY ONLY <2>1
  <2> QED
    BY <2>2 DEF a, c, k
<1> DEFINE r == s7.out.result
<1>9. /\ s7.out.events = s3.events
      /\ r = Standby!Result(s3, [s3.last EXCEPT !.boot = s2.boot])
  BY <1>1 DEF Standby!LastInv, Standby!Document
<1>10. /\ r.total = s3.total /\ r.dropped = s3.dropped
       /\ r.suspended = s3.suspended /\ r.gapCount = s3.gapCount
       /\ r.elapsed = s3.last.boot - s3.first.boot
       /\ r.unplug = Standby!FirstOf(s3.usb, FALSE)
       /\ r.replug = Standby!FirstOf(s3.usb, TRUE)
  BY <1>9 DEF Standby!Result, Standby!FirstUsb
<1> QED
  BY <1>6, <1>7, <1>8, <1>9, <1>10 DEF StandbyStory
=============================================================================
