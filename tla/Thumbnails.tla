----------------------------- MODULE Thumbnails -----------------------------
(***************************************************************************)
(* The image previews that are prepared before the photo viewer starts     *)
(* (userspace/apps/files/lmi-photos-thumbnails), for one picture that is   *)
(* edited, replaced or removed meanwhile, by runs of the program that may  *)
(* overlap.  A thumbnail carries a label, the whole second of the          *)
(* picture's modification time and its size; it is used while they match.  *)
(***************************************************************************)
EXTENDS Integers, Sequences

CONSTANTS Runs, Sizes, MaxVersions

ThumbnailAssumption == 0 \notin Sizes /\ MaxVersions \in Nat

VARIABLES versions,     \* what the picture has been: its times, in half seconds
          picture,      \* the version it is, 0: there is none
          output,       \* the thumbnail in the cache
          run           \* the runs of the program

thumbVars == <<versions, picture, output, run>>

Label(time, size) == [second |-> time \div 2, size |-> size]
NoOutput == [label |-> Label(0, 0), of |-> 0]
NoStat == [time |-> 0, size |-> 0]
Idle == [pc |-> "idle", stat |-> NoStat, shows |-> 0]

ThumbInit ==
    /\ versions \in {<<[time |-> 1, size |-> s]>> : s \in Sizes}
    /\ picture = 1
    /\ output = NoOutput
    /\ run = [r \in Runs |-> Idle]

-----------------------------------------------------------------------------
(* main(), for the picture. *)

Step(r, from, to) == run[r].pc = from /\ run' = [run EXCEPT ![r].pc = to]

\* Nothing to do, an exception, a picture that changed, a deadline or a kill: the
\* temporary file is nobody else's.
GiveUp(r) == run' = [run EXCEPT ![r] = Idle]

Launch(r) == Step(r, "idle", "stat") /\ UNCHANGED <<versions, picture, output>>

Stat(r) ==
    /\ run[r].pc = "stat"
    /\ IF picture = 0 THEN GiveUp(r)
       ELSE run' = [run EXCEPT ![r].pc = "old", ![r].stat = versions[picture]]
    /\ UNCHANGED <<versions, picture, output>>

\* The thumbnail that is there is looked at, then a temporary file is made.
Old(r) ==
    /\ run[r].pc = "old"
    /\ IF output # NoOutput
            /\ output.label = Label(run[r].stat.time, run[r].stat.size)
       THEN GiveUp(r)
       ELSE Step(r, "old", "generate")
    /\ UNCHANGED <<versions, picture, output>>

\* gdk-pixbuf-thumbnailer opens the picture by its name; it may fail or be too slow.
Generate(r) ==
    /\ run[r].pc = "generate"
    /\ \/ /\ picture # 0
          /\ run' = [run EXCEPT ![r].pc = "time", ![r].shows = picture]
       \/ GiveUp(r)
    /\ UNCHANGED <<versions, picture, output>>

\* Mutant: the time is not looked at again.
TimeAssumed(r) == Step(r, "time", "size") /\ UNCHANGED <<versions, picture, output>>

\* The time and the size are asked again, by a call each.
TimeAgain(r) ==
    /\ run[r].pc = "time"
    /\ IF picture # 0 /\ versions[picture].time = run[r].stat.time
       THEN Step(r, "time", "size") ELSE GiveUp(r)
    /\ UNCHANGED <<versions, picture, output>>

SizeAgain(r) ==
    /\ run[r].pc = "size"
    /\ IF picture # 0 /\ versions[picture].size = run[r].stat.size
       THEN Step(r, "size", "replace") ELSE GiveUp(r)
    /\ UNCHANGED <<versions, picture, output>>

\* The label is written into the temporary file, which replaces the thumbnail; or
\* that fails, and it is removed.
Replace(r) ==
    /\ run[r].pc = "replace"
    /\ GiveUp(r)
    /\ output' \in {output, [label |-> Label(run[r].stat.time, run[r].stat.size),
                             of |-> run[r].shows]}
    /\ UNCHANGED <<versions, picture>>

-----------------------------------------------------------------------------
(* The picture's owner: an edit, another picture moved to its name with a    *)
(* time of its own, or its removal.  No two versions have the same time, and *)
(* none comes back: a picture put back between two looks cannot be seen.     *)

Write(time, size) ==
    /\ Len(versions) < MaxVersions
    /\ \A v \in 1..Len(versions) : versions[v].time # time
    /\ versions' = Append(versions, [time |-> time, size |-> size])
    /\ picture' = Len(versions) + 1
    /\ UNCHANGED <<output, run>>

Delete == picture # 0 /\ picture' = 0 /\ UNCHANGED <<versions, output, run>>

ThumbNext ==
    \/ \E r \in Runs :
          \/ Launch(r) \/ Stat(r) \/ Old(r) \/ Generate(r) \/ TimeAgain(r)
          \/ SizeAgain(r) \/ Replace(r)
    \/ \E t \in 1..(2 * MaxVersions), s \in Sizes : Write(t, s)
    \/ Delete

ThumbSpec == ThumbInit /\ [][ThumbNext]_thumbVars

-----------------------------------------------------------------------------
\* A thumbnail shows a version of the picture that its label describes, whoever
\* changed the picture while it was made, and whichever run was last.
LabelTrue ==
    output # NoOutput =>
        output.label = Label(versions[output.of].time, versions[output.of].size)

-----------------------------------------------------------------------------
(* The inductive invariant: the picture is its last version, so that a picture  *)
(* found twice with one time was not changed in between.                        *)

Version == [time : Nat, size : Sizes]

RunTypes ==
    [pc : {"idle", "stat", "old", "generate", "time", "size", "replace"},
     stat : [time : Nat, size : Sizes \cup {0}], shows : Nat]

ThumbTyped ==
    /\ versions \in Seq(Version)
    /\ picture \in {0, Len(versions)}
    /\ run \in [Runs -> RunTypes]

TimesDiffer ==
    \A v, w \in 1..Len(versions) : versions[v].time = versions[w].time => v = w

\* A run shows what it asked the time of, or something later; the same once the time
\* was asked again.
StatBefore ==
    \A r \in Runs :
        /\ run[r].pc \in {"old", "generate"} =>
             \E v \in 1..Len(versions) : run[r].stat = versions[v]
        /\ run[r].pc = "time" =>
             /\ run[r].shows \in 1..Len(versions)
             /\ \E v \in 1..run[r].shows : run[r].stat = versions[v]
        /\ run[r].pc \in {"size", "replace"} =>
             /\ run[r].shows \in 1..Len(versions)
             /\ run[r].stat = versions[run[r].shows]

OutputKnown ==
    output = NoOutput \/
        /\ output.of \in 1..Len(versions)
        /\ output.label = Label(versions[output.of].time, versions[output.of].size)

ThumbInv == ThumbTyped /\ TimesDiffer /\ StatBefore /\ OutputKnown
=============================================================================
