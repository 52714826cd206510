---------------------------- MODULE MenuReceipt ----------------------------
(* The permanent boot menu (build/boot-menu/permanent).  manage.py records    *)
(* what the operator saw in the menu and flashes it; verify-mobian.py reads   *)
(* the running phone and adds the proof of the direct start.  Both read the   *)
(* same receipt, change it and write it back, without a lock.                 *)
EXTENDS Naturals, FiniteSets

CONSTANTS Programs,   \* concurrent runs of the two programs
          Entries     \* the outcomes of the menu

VARIABLES
  receipt,    \* validation.json: a receipt, or Torn
  temporary,  \* validation.tmp, which every program writes: a receipt, Torn or NoFile
  run,        \* program -> [pc, does, value, entry]
  handset,    \* what runs on the phone: [direct, prefix, shown]; shown is history: the
              \* menu has started Mobian directly
  trials,     \* temporary launches that really were made (history)
  seen,       \* entries the operator tried after a launch (history)
  flashed     \* the menu was flashed (history)

vars == <<receipt, temporary, run, handset, trials, seen, flashed>>

Empty == [passed |-> {}, proof |-> FALSE, launch |-> FALSE, readback |-> FALSE]
\* A file cut off while it was written, and no file.
Torn == [Empty EXCEPT !.passed = {"torn"}]
NoFile == [Empty EXCEPT !.passed = {"none"}]
Idle == [pc |-> "idle", does |-> "none", value |-> Empty, entry |-> "none"]

MenuInit ==
  /\ receipt = Empty /\ temporary = NoFile
  /\ run = [p \in Programs |-> Idle]
  /\ handset = [direct |-> FALSE, prefix |-> FALSE, shown |-> FALSE]
  /\ trials = 0 /\ seen = {} /\ flashed = FALSE

World == UNCHANGED <<handset, trials, seen, flashed>>
Files == UNCHANGED <<receipt, temporary>>

\* Mutant: the outcomes are not looked at.
QualifiedByProof(value) == value.proof

\* require_qualified(): the proof of the direct start, then every outcome.
Qualified(value) == value.proof /\ value.passed = Entries

-----------------------------------------------------------------------------
\* The pinned images are on the PC or not; one device in fastboot with the
\* product and the partition sizes of the phone, or not.
HostPreflight == BOOLEAN
FastbootPreflight == BOOLEAN

\* manage.py: the pinned images are checked and the receipt read first, for
\* every action; a receipt that is not JSON or of another menu stops it.  What
\* stops here has changed nothing.
Manage(p, does, entry) ==
  /\ run[p].pc = "idle" /\ receipt # Torn
  /\ run' = [run EXCEPT ![p] = [pc |-> "loaded", does |-> does, value |-> receipt, entry |-> entry]]
  /\ Files /\ World

\* An outcome is refused without the temporary launch it was seen in.
MayRecord(value) == value.launch

WithEntry(value, entry) == [value EXCEPT !.passed = @ \cup {entry}]

\* record-outcome: the operator gives the entry and the evidence.
RecordOutcome(p) ==
  /\ run[p].pc = "loaded" /\ run[p].does = "record"
  /\ run' = [run EXCEPT ![p] =
       IF MayRecord(@.value)
       THEN [@ EXCEPT !.pc = "save", !.value = WithEntry(run[p].value, run[p].entry)]
       ELSE Idle]
  /\ Files /\ World

\* install: qualified before any command, then the images and the phone checked,
\* and the boot partition flashed, or not if the command fails.
Install(p) ==
  /\ run[p].pc = "loaded" /\ run[p].does = "install"
  /\ run' = [run EXCEPT ![p] = Idle]
  /\ \E images \in HostPreflight, device \in FastbootPreflight, flash \in BOOLEAN :
       flashed' = (flashed \/ (Qualified(run[p].value) /\ images /\ device /\ flash))
  /\ Files /\ UNCHANGED <<handset, trials, seen>>

\* save_receipt(): the temporary file is written, and then renamed.
SaveOpen(p) ==
  /\ run[p].pc = "save"
  /\ temporary' = Torn
  /\ run' = [run EXCEPT ![p].pc = "saving"]
  /\ UNCHANGED receipt /\ World

SaveWrite(p) ==
  /\ run[p].pc = "saving"
  /\ temporary' = run[p].value
  /\ run' = [run EXCEPT ![p].pc = "rename"]
  /\ UNCHANGED receipt /\ World

\* The rename fails when another program renamed the file first.
SaveRename(p) ==
  /\ run[p].pc = "rename"
  /\ IF temporary # NoFile THEN receipt' = temporary /\ temporary' = NoFile ELSE Files
  /\ run' = [run EXCEPT ![p] = Idle]
  /\ World

-----------------------------------------------------------------------------
\* verify-mobian.py, temporary: the launch record of the PC names this menu;
\* installed: the receipt is qualified already.
VerifyStart(p, phase) ==
  /\ run[p].pc = "idle"
  /\ IF phase = "temporary" THEN trials > 0 ELSE receipt # Torn /\ Qualified(receipt)
  /\ run' = [run EXCEPT ![p] = [Idle EXCEPT !.pc = "runtime", !.does = phase]]
  /\ Files /\ World

\* validate_runtime(): the marker of the menu on the command line and the
\* dedicated root (direct), and once installed the digest of the boot partition.
Runtime(phase) ==
  /\ handset.direct
  /\ phase = "installed" => handset.prefix

\* The phone is read over ssh; a failure, or a start that is not the menu's, stops
\* the program.
VerifyRuntime(p) ==
  /\ run[p].pc = "runtime"
  /\ \/ Runtime(run[p].does) /\ run' = [run EXCEPT ![p].pc = "proved"]
     \/ run' = [run EXCEPT ![p] = Idle]
  /\ Files /\ World

\* The receipt is read now, and the proof, the launch or the readback added.
VerifyProof(p) ==
  /\ run[p].pc = "proved"
  /\ run' = [run EXCEPT ![p] =
       IF receipt = Torn THEN Idle
       ELSE [@ EXCEPT !.pc = "save",
                      !.value = [receipt EXCEPT !.proof = TRUE,
                                   !.launch = @ \/ run[p].does = "temporary",
                                   !.readback = @ \/ run[p].does = "installed"]]]
  /\ Files /\ World

-----------------------------------------------------------------------------
\* The operator: a temporary start of the menu, an entry tried in it, and a
\* start of what the boot partition holds.
Started(direct) ==
  handset' = [direct |-> direct, prefix |-> flashed, shown |-> handset.shown \/ direct]

Launch ==
  /\ trials' = IF trials = 0 THEN 1 ELSE trials
  /\ \E direct \in BOOLEAN : Started(direct)
  /\ Files /\ UNCHANGED <<run, seen, flashed>>

Restart ==
  /\ \E direct \in {FALSE, flashed} : Started(direct)
  /\ Files /\ UNCHANGED <<run, trials, seen, flashed>>

Try(e) ==
  /\ trials > 0 /\ e \notin seen
  /\ seen' = seen \cup {e}
  /\ Files /\ UNCHANGED <<run, handset, trials, flashed>>

Killed(p) ==
  /\ run[p].pc # "idle"
  /\ run' = [run EXCEPT ![p] = Idle]
  /\ Files /\ World

MenuNext ==
  \/ \E p \in Programs :
       \/ \E e \in seen : Manage(p, "record", e)
       \/ Manage(p, "install", "none")
       \/ RecordOutcome(p) \/ Install(p)
       \/ SaveOpen(p) \/ SaveWrite(p) \/ SaveRename(p)
       \/ \E phase \in {"temporary", "installed"} : VerifyStart(p, phase)
       \/ VerifyRuntime(p) \/ VerifyProof(p) \/ Killed(p)
  \/ Launch \/ Restart \/ \E e \in Entries : Try(e)

MenuSpec == MenuInit /\ [][MenuNext]_vars

-----------------------------------------------------------------------------
\* The menu is flashed only after it was launched and did start Mobian directly, and
\* every entry of it was tried in a launch, whatever the two programs overwrote of
\* each other's receipts.
FlashQualified == flashed => trials > 0 /\ handset.shown /\ seen = Entries

-----------------------------------------------------------------------------
\* The inductive invariant.  No lock is needed: a program overwrites what another
\* one added, which only takes away; nothing a receipt, a temporary file or a
\* program in between can hold was not seen on the phone.

\* The two marks of a file that cannot be read are no entries.
MarksAssumption == Entries \cap {"torn", "none"} = {}

Receipts ==
  [passed : SUBSET (Entries \cup {"torn", "none"}), proof : BOOLEAN, launch : BOOLEAN,
   readback : BOOLEAN]

Runs ==
  [pc : {"idle", "loaded", "save", "saving", "rename", "runtime", "proved"},
   does : {"none", "record", "install", "temporary", "installed"},
   value : Receipts, entry : Entries \cup {"none"}]

Typed ==
  /\ receipt \in Receipts /\ temporary \in Receipts
  /\ run \in [Programs -> Runs]
  /\ handset \in [direct : BOOLEAN, prefix : BOOLEAN, shown : BOOLEAN]
  /\ handset.direct => handset.shown
  /\ trials \in Nat /\ seen \in SUBSET Entries /\ flashed \in BOOLEAN

\* What a receipt says was seen.
Witnessed(v) ==
  v.passed \subseteq seen \cup {"torn", "none"} /\ (v.proof => trials > 0 /\ handset.shown)

\* So was what a program is about to say.
RunWitnessed(r) ==
  /\ Witnessed(r.value)
  /\ r.does = "record" => r.entry \in seen
  /\ r.pc \in {"runtime", "proved"} => trials > 0
  /\ r.pc = "proved" => handset.shown

MenuInv ==
  /\ Typed
  /\ Witnessed(receipt) /\ Witnessed(temporary)
  /\ \A p \in Programs : RunWitnessed(run[p])
  /\ FlashQualified
=============================================================================
