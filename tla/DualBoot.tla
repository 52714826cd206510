------------------------------ MODULE DualBoot ------------------------------
(* The PC programs that make the phone a dual boot phone and switch it:       *)
(* migrate.py rewrites the partition table from the recovery, flash-mobian.py *)
(* and flash-android-boot.py write images from Fastboot, and switch-os.py     *)
(* starts one of the two systems.  The partition table is two copies of a     *)
(* table and a header that holds its checksum.                                *)
EXTENDS Naturals, Sequences

VARIABLES
  gpt,        \* the two copies: part (table, header) -> the layout stored there
  migrate,    \* migrate.py: [pc, n] with n the writes done
  flasher,    \* the running flash program: [pc, for]
  records,    \* flash program -> stage of its record on the PC
  part,       \* partition -> what it holds
  flashes,    \* partition -> flash commands started (history)
  switch,     \* switch-os.py: [pc, os]
  phone,      \* what the phone is doing
  ran         \* systems whose start finished since the last boot command (history)

vars == <<gpt, migrate, flasher, records, part, flashes, switch, phone, ran>>

Systems == {"android", "mobian"}
Copies == {"primary", "backup"}

-----------------------------------------------------------------------------
\* The partition table.

\* header(): a header is accepted with its own checksum, and its table with the
\* checksum it states.
Valid(copy) == gpt[copy].header # "torn" /\ gpt[copy].table = gpt[copy].header

\* The layout a reader of the disk finds: the primary copy, else the backup.
Layout == IF Valid("primary") THEN gpt["primary"].table
          ELSE IF Valid("backup") THEN gpt["backup"].table ELSE "none"

\* build(): the copies agree and hold the layout read when Mobian was qualified.
Buildable == \A c \in Copies : gpt[c] = [table |-> "old", header |-> "old"]

\* Mutant: the primary copy's table is written before the backup copy is whole.
ChangesTablesFirst == << <<"backup", "table">>, <<"primary", "table">>,
                         <<"backup", "header">>, <<"primary", "header">> >>

\* The order of the writes build() returns.
Changes == << <<"backup", "table">>, <<"backup", "header">>,
              <<"primary", "table">>, <<"primary", "header">> >>

DualInit ==
  /\ gpt = [c \in Copies |-> [table |-> "old", header |-> "old"]]
  /\ migrate = [pc |-> "idle", n |-> 0]
  /\ flasher = [pc |-> "idle", for |-> "none"]
  /\ records = [p \in {"mobian", "boot"} |-> "none"]
  /\ part = [p \in {"mobian", "boot"} |-> "old"]
  /\ flashes = [p \in {"mobian", "boot"} |-> 0]
  /\ switch = [pc |-> "idle", os |-> "none"]
  /\ phone = "recovery"
  /\ ran = {}

PhoneSame == UNCHANGED <<flasher, records, part, flashes, switch, phone, ran>>

\* One root recovery; both copies read, checked and transformed; --apply given.
Plan ==
  /\ migrate.pc = "idle" /\ phone = "recovery" /\ Buildable
  /\ migrate' = [pc |-> "planned", n |-> 0]
  /\ UNCHANGED gpt /\ PhoneSame

\* "A fresh reread immediately before the first write must still match."
Reread ==
  /\ migrate.pc = "planned"
  /\ migrate' = [migrate EXCEPT !.pc = IF Buildable /\ phone = "recovery" THEN "write" ELSE "idle"]
  /\ UNCHANGED gpt /\ PhoneSame

\* One pushed, hashed and copied with dd; the phone may lose power at any point,
\* then the sectors hold the old bytes, the new ones, or neither.
Write ==
  /\ migrate.pc = "write" /\ migrate.n < Len(Changes) /\ phone = "recovery"
  /\ LET at == Changes[migrate.n + 1] IN
     \/ /\ gpt' = [gpt EXCEPT ![at[1]][at[2]] = "new"]
        /\ migrate' = [migrate EXCEPT !.n = @ + 1]
        /\ UNCHANGED phone
     \/ /\ \E left \in {gpt[at[1]][at[2]], "new", "torn"} :
             gpt' = [gpt EXCEPT ![at[1]][at[2]] = left]
        /\ migrate' = [migrate EXCEPT !.pc = "idle"]
        /\ phone' = "off"
  /\ UNCHANGED <<flasher, records, part, flashes, switch, ran>>

\* The push, the readback or the final comparison fails: the program stops.
WriteFails ==
  /\ migrate.pc = "write"
  /\ migrate' = [migrate EXCEPT !.pc = "idle"]
  /\ UNCHANGED gpt /\ PhoneSame

\* All four writes read back.
Written ==
  /\ migrate.pc = "write" /\ migrate.n = Len(Changes) /\ phone = "recovery"
  /\ migrate' = [migrate EXCEPT !.pc = "idle"]
  /\ UNCHANGED gpt /\ PhoneSame

\* Another tool repartitions between the two reads.
Repartitioned ==
  /\ migrate.pc = "planned" /\ phone = "recovery"
  /\ gpt' = [c \in Copies |-> [table |-> "other", header |-> "other"]]
  /\ UNCHANGED migrate /\ PhoneSame

-----------------------------------------------------------------------------
\* The flash programs.

RestSame == UNCHANGED <<gpt, migrate, switch>>

\* A record of an earlier operation, in any stage, stops the program.
NoRecord(p) == records[p] = "none"

\* flash-mobian.py: one Fastboot lmi, a 16 GiB mobian partition, no record yet.
MobianChecked ==
  /\ flasher.pc = "idle" /\ phone = "fastboot" /\ Layout = "new"
  /\ NoRecord("mobian")
  /\ flasher' = [pc |-> "flash", for |-> "mobian"]
  /\ records' = [records EXCEPT !["mobian"] = "starting"]
  /\ UNCHANGED <<part, flashes, phone, ran>> /\ RestSame

\* flash-android-boot.py, not --temporary: it needs --allow-android-default.
AndroidChecked ==
  /\ flasher.pc = "idle" /\ phone = "fastboot" /\ Layout = "new"
  /\ NoRecord("boot")
  /\ flasher' = [pc |-> "flash", for |-> "boot"]
  /\ records' = [records EXCEPT !["boot"] = "starting"]
  /\ UNCHANGED <<part, flashes, phone, ran>> /\ RestSame

\* fastboot flash: done, or stopped by an error, a timeout or a pulled cable.
Flash ==
  /\ flasher.pc = "flash"
  /\ flashes' = [flashes EXCEPT ![flasher.for] = @ + 1]
  /\ \/ /\ phone = "fastboot"
        /\ part' = [part EXCEPT ![flasher.for] = "image"]
        /\ flasher' = [flasher EXCEPT !.pc = "boot"]
        /\ records' = [records EXCEPT ![flasher.for] = "flashed"]
     \/ /\ \E left \in {part[flasher.for], "torn"} : part' = [part EXCEPT ![flasher.for] = left]
        /\ flasher' = [pc |-> "idle", for |-> "none"]
        /\ UNCHANGED records
  /\ UNCHANGED <<phone, ran>> /\ RestSame

\* The command that starts the new system: fastboot boot for mobian, reboot for
\* Android; it is recorded when it answered.
FlashBoot ==
  /\ flasher.pc = "boot"
  /\ flasher' = [pc |-> "idle", for |-> "none"]
  /\ \/ /\ phone = "fastboot"
        /\ phone' = IF flasher.for = "mobian" THEN "start mobian" ELSE "start default"
        /\ ran' = {}
        /\ records' = [records EXCEPT ![flasher.for] = "booted"]
     \/ UNCHANGED <<phone, ran, records>>
  /\ UNCHANGED <<part, flashes>> /\ RestSame

\* The PC program is killed: its record stays.
FlasherDies ==
  /\ flasher.pc # "idle"
  /\ flasher' = [pc |-> "idle", for |-> "none"]
  /\ UNCHANGED <<records, part, flashes, phone, ran>> /\ RestSame

-----------------------------------------------------------------------------
\* switch-os.py, unlocked by the configuration once both systems started.

DiskSame == UNCHANGED <<gpt, migrate, flasher, records, part, flashes>>

SwitchTo(os) ==
  /\ switch.pc = "idle" /\ part["mobian"] = "image"
  /\ switch' = [pc |-> "find", os |-> os]
  /\ UNCHANGED <<phone, ran>> /\ DiskSame

\* The phone is in Fastboot, or answers adb, or the Mobian endpoint with its mark;
\* in the last two it is asked to restart into the bootloader.
Find ==
  /\ switch.pc = "find"
  /\ \/ /\ phone = "fastboot"
        /\ switch' = [switch EXCEPT !.pc = "boot"]
        /\ UNCHANGED phone
     \/ /\ phone \in {"android", "android up", "mobian"}
        /\ switch' = [switch EXCEPT !.pc = "bootloader"]
        /\ phone' = "to bootloader"
     \/ /\ phone # "fastboot"
        /\ switch' = [switch EXCEPT !.pc = "stopped"]
        /\ UNCHANGED phone
  /\ UNCHANGED ran /\ DiskSame

\* Ninety seconds for Fastboot.
AwaitFastboot ==
  /\ switch.pc = "bootloader"
  /\ \/ phone = "fastboot" /\ switch' = [switch EXCEPT !.pc = "boot"]
     \/ switch' = [switch EXCEPT !.pc = "stopped"]
  /\ UNCHANGED <<phone, ran>> /\ DiskSame

\* The product is read and the image started; anything else stops the program.
SwitchBoot ==
  /\ switch.pc = "boot"
  /\ \/ /\ phone = "fastboot"
        /\ switch' = [switch EXCEPT !.pc = "confirm"]
        /\ phone' = IF switch.os = "mobian" THEN "start mobian" ELSE "start android"
        /\ ran' = {}
     \/ switch' = [switch EXCEPT !.pc = "stopped"] /\ UNCHANGED <<phone, ran>>
  /\ DiskSame

\* Mutant: adb answering is taken for a finished start of Android.
ConfirmsAnswering(os) == phone = os \/ (os = "android" /\ phone = "android up")

\* What the confirmation accepts as the requested system.
Confirms(os) == phone = os

\* The poll of the requested system, for 180 seconds.
Confirm ==
  /\ switch.pc = "confirm"
  /\ \/ Confirms(switch.os) /\ switch' = [switch EXCEPT !.pc = "confirmed"]
     \/ switch' = [switch EXCEPT !.pc = "stopped"]
  /\ UNCHANGED <<phone, ran>> /\ DiskSame

SwitchExit ==
  /\ switch.pc \in {"stopped", "confirmed"}
  /\ switch' = [pc |-> "idle", os |-> "none"]
  /\ UNCHANGED <<phone, ran>> /\ DiskSame

-----------------------------------------------------------------------------
\* The phone: a start goes on or falls back to the default system, and the user
\* restarts it by hand.
PhoneStep ==
  /\ \/ phone = "to bootloader" /\ phone' = "fastboot" /\ UNCHANGED ran
     \/ phone \in {"start android", "start default"} /\ phone' = "android up" /\ UNCHANGED ran
     \/ phone = "android up" /\ phone' = "android" /\ ran' = ran \cup {"android"}
     \/ /\ phone = "start mobian" /\ part["mobian"] = "image" /\ Layout = "new"
        /\ phone' = "mobian" /\ ran' = ran \cup {"mobian"}
     \/ phone = "start mobian" /\ phone' = "start default" /\ UNCHANGED ran
     \/ phone' \in {"off", "fastboot", "recovery", "start default"} /\ phone' # phone /\ UNCHANGED ran
  /\ UNCHANGED <<gpt, migrate, flasher, records, part, flashes, switch>>

DualNext ==
  \/ Plan \/ Reread \/ Write \/ WriteFails \/ Written \/ Repartitioned
  \/ MobianChecked \/ AndroidChecked \/ Flash \/ FlashBoot \/ FlasherDies
  \/ \E os \in Systems : SwitchTo(os)
  \/ Find \/ AwaitFastboot \/ SwitchBoot \/ Confirm \/ SwitchExit
  \/ PhoneStep

DualSpec == DualInit /\ [][DualNext]_vars

-----------------------------------------------------------------------------
\* Whenever the power fails during the migration, and however often it is run
\* again, one whole copy of the partition table is left, with the layout of
\* before or of after.
OneCopyWhole == Layout # "none"

\* A partition is flashed at most once: a program that stopped half way leaves
\* its record, and the next one refuses.
FlashedOnce == \A p \in DOMAIN flashes : flashes[p] <= 1

\* "BOOT_CONFIRMED" is said of a system that finished its start after the boot
\* command, not of the one that ran before or of a start still going on.
SwitchTruth == switch.pc = "confirm" /\ switch'.pc = "confirmed" => switch.os \in ran

-----------------------------------------------------------------------------
(* The inductive invariant.  The migration only starts on two old copies, so   *)
(* the writes done tell what the disk holds, and the copy that is not being    *)
(* written is whole.                                                           *)

Layouts == {"old", "new", "other", "torn"}
Sides == [table : Layouts, header : Layouts]
Images == {"mobian", "boot"}
Migrations == [pc : {"idle", "planned", "write"}, n : 0..4]
Flashers == [pc : {"idle", "flash", "boot"}, for : Images \cup {"none"}]
Switches == [pc : {"idle", "find", "bootloader", "boot", "confirm", "confirmed", "stopped"},
             os : Systems \cup {"none"}]

Typed ==
  /\ gpt \in [Copies -> Sides]
  /\ migrate \in Migrations
  /\ flasher \in Flashers
  /\ records \in [Images -> {"none", "starting", "flashed", "booted"}]
  /\ flashes \in [Images -> Nat]
  /\ switch \in Switches

\* What the first n writes have left.
After(n, at) == IF n >= at THEN "new" ELSE "old"

WritesInOrder ==
  /\ migrate.pc = "planned" => migrate.n = 0
  /\ migrate.pc = "write" =>
       /\ gpt["backup"].table = After(migrate.n, 1) /\ gpt["backup"].header = After(migrate.n, 2)
       /\ gpt["primary"].table = After(migrate.n, 3) /\ gpt["primary"].header = After(migrate.n, 4)

\* A record is written before its partition is flashed, and never removed.
RecordsFirst ==
  \A p \in Images :
    /\ flashes[p] <= 1
    /\ records[p] = "none" => flashes[p] = 0
    /\ flasher = [pc |-> "flash", for |-> p] => flashes[p] = 0 /\ records[p] # "none"

RunsHere == /\ flasher.pc # "idle" => flasher.for \in Images
            /\ switch.pc # "idle" => switch.os \in Systems

\* A system that is up finished its start after the last boot command.
UpHasRun == phone \in Systems => phone \in ran

DualInv == Typed /\ (\E c \in Copies : Valid(c)) /\ WritesInOrder /\ RecordsFirst /\ RunsHere /\ UpHasRun
=============================================================================
