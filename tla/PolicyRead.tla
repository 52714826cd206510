----------------------------- MODULE PolicyRead -----------------------------
(***************************************************************************)
(* ufs-policy-read.py: one read of the UFS policy attributes of a phone,   *)
(* by adb behind an identity guard or by the fixed SSH route, and the      *)
(* verdict on each attribute.                                              *)
(*                                                                         *)
(* The shell snippet lists the directories, then reads the attributes; the *)
(* driver may add or remove entries in between, and SELinux may refuse a   *)
(* listing, a look-up or a read.                                           *)
(***************************************************************************)
EXTENDS Naturals, FiniteSets

CONSTANTS Dirs, Attrs

Paths == Dirs \X Attrs

VARIABLES
    reader,     \* where cmd_execute() is, and its exit code
    phone,      \* [ready, device, build, family]: what adb and getprop say
    sysfs,      \* [dir, entry]: what the snippet finds
    lines       \* [listing, attr]: the lines it printed; and `there`, a history
                \* of what a directory held when it was listed

readVars == <<reader, phone, sysfs, lines>>

-----------------------------------------------------------------------------
(* The identity guard. *)

Identities == [device : {"lmi", "lmipro", "lmipro-x"}, build : {"expected", "other"},
               family : BOOLEAN]

\* check_identity(): exact membership, then the family of the fingerprint.
CheckIdentity(p) ==
    /\ p.device \in {"lmi", "lmipro"}
    /\ p.build = "expected"
    /\ p.family

-----------------------------------------------------------------------------
Init ==
    /\ reader = [at |-> "start", route |-> "none", code |-> 0]
    /\ phone = [ready |-> 0, device |-> "lmi", build |-> "other", family |-> FALSE]
    /\ sysfs = [dir |-> [d \in Dirs |-> "absent"], entry |-> [p \in Paths |-> "gone"]]
    /\ lines = [listing |-> [d \in Dirs |-> "none"], attr |-> [p \in Paths |-> "none"],
                there |-> {}]

Goto(at) == reader' = [reader EXCEPT !.at = at]
Stop(code) == reader' = [reader EXCEPT !.at = "stopped", !.code = code]

\* The devices of `adb devices`, the properties of the phone, its sysfs.
AdbDevices ==
    /\ reader.at = "start"
    /\ \E n \in 0..2, id \in Identities :
        phone' = [ready |-> n, device |-> id.device, build |-> id.build,
                  family |-> id.family]
    /\ IF phone'.ready # 1
       THEN reader' = [at |-> "stopped", route |-> "adb", code |-> 2]
       ELSE reader' = [at |-> "guard", route |-> "adb", code |-> 0]
    /\ UNCHANGED <<sysfs, lines>>

SshRoute ==
    /\ reader.at = "start"
    /\ reader' = [at |-> "snippet", route |-> "ssh", code |-> 0]
    /\ UNCHANGED <<phone, sysfs, lines>>

Guard ==
    /\ reader.at = "guard"
    /\ IF CheckIdentity(phone) THEN Goto("snippet") ELSE Stop(3)
    /\ UNCHANGED <<phone, sysfs, lines>>

\* The snippet starts: what is there now.
Snippet ==
    /\ reader.at = "snippet"
    /\ \E dir \in [Dirs -> {"listable", "unlistable", "absent"}],
          entry \in [Paths -> {"readable", "denied", "failing", "gone"}] :
        sysfs' = [dir |-> dir, entry |-> entry]
    /\ Goto("list")
    /\ UNCHANGED <<phone, lines>>

\* The driver adds or removes one entry, or one directory.
DriverMoves ==
    /\ reader.at \in {"list", "read"}
    /\ \/ \E p \in Paths : \E e \in {"readable", "gone"} \ {sysfs.entry[p]} :
            sysfs' = [sysfs EXCEPT !.entry[p] = e]
       \/ \E d \in Dirs : \E e \in {"listable", "absent"} \ {sysfs.dir[d]} :
            sysfs' = [sysfs EXCEPT !.dir[d] = e]
    /\ UNCHANGED <<reader, phone, lines>>

There(d) == {p \in Paths : p[1] = d /\ sysfs.entry[p] # "gone"}

\* LIST: no line for a directory that is not seen, its names, or a failure.
List ==
    /\ reader.at = "list"
    /\ \E d \in Dirs :
        /\ lines.listing[d] = "none"
        /\ lines' = [lines EXCEPT
             !.listing[d] = CASE sysfs.dir[d] = "absent" -> "skipped"
                              [] sysfs.dir[d] = "unlistable" -> "FAILED"
                              [] OTHER -> "OK",
             !.there = IF sysfs.dir[d] = "listable" THEN @ \cup There(d) ELSE @]
    /\ IF \A d \in Dirs : lines'.listing[d] # "none" THEN Goto("read")
       ELSE UNCHANGED reader
    /\ UNCHANGED <<phone, sysfs>>

\* ATTR: a value, an explicit refusal, or another failure.  Nothing is read in
\* a directory that is not seen.
Read ==
    /\ reader.at = "read"
    /\ \E p \in Paths :
        /\ lines.attr[p] = "none"
        /\ lines' = [lines EXCEPT
             !.attr[p] = CASE sysfs.dir[p[1]] = "absent" -> "skipped"
                           [] sysfs.entry[p] = "readable" -> "OK"
                           [] sysfs.entry[p] = "denied" -> "DENIED"
                           [] OTHER -> "UNKNOWN"]
    /\ IF \A p \in Paths : lines'.attr[p] # "none" THEN Stop(0) ELSE UNCHANGED reader
    /\ UNCHANGED <<phone, sysfs>>

\* adb or ssh fails: what was printed is not looked at.
TransportFails ==
    /\ reader.at \in {"snippet", "list", "read"}
    /\ Stop(3)
    /\ UNCHANGED <<phone, sysfs, lines>>

Next ==
    \/ AdbDevices
    \/ SshRoute
    \/ Guard
    \/ Snippet
    \/ DriverMoves
    \/ List
    \/ Read
    \/ TransportFails

Spec == Init /\ [][Next]_readVars

-----------------------------------------------------------------------------
\* Mutant: what could not be read is absent unless its listing has it.
ClassifyAbsent(p) ==
    CASE lines.attr[p] = "OK" -> "OK"
      [] lines.attr[p] = "DENIED" -> "DENIED"
      [] p \in lines.there -> "LISTED_BUT_UNREADABLE"
      [] OTHER -> "ABSENT"

\* classify(), of an attribute with a line: the listing decides what a read
\* that gave nothing means.
Classify(p) ==
    CASE lines.attr[p] = "OK" -> "OK"
      [] lines.attr[p] = "DENIED" -> "DENIED"
      [] OTHER -> IF lines.listing[p[1]] # "OK" THEN "UNKNOWN"
                  ELSE IF p \in lines.there THEN "LISTED_BUT_UNREADABLE" ELSE "ABSENT"

\* summarise(): coverage is by the name of the attribute, over the directories.
Coverage(state) ==
    {p[2] : p \in {q \in Paths : lines.attr[q] # "skipped" /\ Classify(q) = state}}

Reported == reader.at = "stopped" /\ reader.code = 0

\* The report never takes a refusal or a failed listing for an absence: an
\* attribute it calls absent was not in a directory that was listed, whatever
\* the driver did before the read; and one it found nowhere unreadable, denied
\* or unknown was read.  By adb, no unknown device was read at all.
NoFalseAbsence ==
    Reported =>
        /\ \A a \in Coverage("ABSENT") :
            \E d \in Dirs : lines.listing[d] = "OK" /\ <<d, a>> \notin lines.there
        /\ \A p \in Paths :
            lines.attr[p] # "skipped" /\ Classify(p) = "ABSENT" => lines.listing[p[1]] = "OK"
        /\ reader.route = "adb" =>
            phone.ready = 1 /\ phone.device # "lmipro-x" /\ phone.build = "expected"

-----------------------------------------------------------------------------
(* The inductive invariant: what is read by adb was let through by the guard.   *)

Readers == [at : {"start", "guard", "snippet", "list", "read", "stopped"},
            route : {"none", "adb", "ssh"}, code : Nat]

Admitted == reader.route = "adb" => phone.ready = 1 /\ CheckIdentity(phone)

ReadInv ==
    /\ reader \in Readers
    /\ reader.at = "guard" => phone.ready = 1
    /\ reader.at \in {"snippet", "list", "read"} \/ Reported => Admitted
=============================================================================
