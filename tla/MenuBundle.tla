----------------------------- MODULE MenuBundle -----------------------------
(***************************************************************************)
(* build-linux7-bundle.py puts the boot components into one container, and *)
(* prepare-menu-recipe.py makes a recipe that pins it; the loader's parser *)
(* (bundle-format.h) reads it on the phone.                                *)
(*                                                                         *)
(* A file is its bytes, and a checksum of bytes is those bytes: two with   *)
(* the same checksum are the same.  Nothing locks the output directory, so *)
(* two builds may write it together, and a program may be killed between   *)
(* any two of its steps or in the middle of a file.                        *)
(***************************************************************************)
EXTENDS Integers, Sequences

CONSTANTS
    Builders,       \* runs of the bundle program on one output directory
    Align,          \* ALIGN, and the length of the header
    Sizes,          \* lengths of the components of a kit
    Budget          \* the loader's 64 MiB

BundleAssumption ==
    /\ Align \in Nat \ {0} /\ Budget \in Nat
    /\ Sizes \subseteq Nat \ {0}

\* The rows of the base bundle: one component kept, two of the kit's.
Components == <<"mobian/kernel", "linux7/kernel", "linux7/cmdline">>
Kit == {"linux7/kernel", "linux7/cmdline"}
Gzip == {"mobian/kernel", "linux7/kernel"}

VARIABLES
    kits,       \* builder -> the lengths of the components of its kit
    builder,    \* builder -> where the run is
    bin,        \* lmi-outer-linux7.bin
    record,     \* BUNDLE_RESULT.json: the bytes of which it gives the sha256
    prepare,    \* [at, sha]: the recipe program
    recipe      \* the new recipe: its rewritten files and its manifest

bundleVars == <<kits, builder, bin, record, prepare, recipe>>

-----------------------------------------------------------------------------
(* The container *)

\* The payload of a component, by the run whose kit it is ("base": kept).
Payload(b, name) ==
    IF b # "base" /\ name \in Kit THEN [by |-> b, name |-> name, size |-> kits[b][name]]
    ELSE [by |-> "base", name |-> name, size |-> 1]

\* encode(): a compressed component is another sequence of bytes.
Encode(payload) ==
    LET zip == payload.name \in Gzip
    IN  [k \in 1..(payload.size + IF zip THEN 1 ELSE 0) |->
            [at |-> k, zip |-> zip, of |-> payload]]

Zeros(n) == [k \in 1..n |-> [at |-> 0]]

\* build(), one component: at the next aligned offset.
Stored(acc, payload) ==
    LET bytes == Encode(payload)
        body == acc.body \o Zeros((-Len(acc.body)) % Align)
    IN  [body |-> body \o bytes,
         rows |-> Append(acc.rows, [name |-> payload.name, offset |-> Align + Len(body),
                                    length |-> Len(bytes), crc |-> bytes])]

NoData == [body |-> <<>>, rows |-> <<>>]

\* build(): the header, the rows and the data.
Build(b) ==
    LET first == Stored(NoData, Payload(b, Components[1]))
        second == Stored(first, Payload(b, Components[2]))
        done == Stored(second, Payload(b, Components[3]))
    IN  [total |-> Align + Len(done.body), rows |-> done.rows, body |-> done.body]

\* A file just opened for writing.
Empty == [total |-> 0, rows |-> <<>>, body |-> <<>>]

Slice(file, row) ==
    SubSeq(file.body, row.offset - Align + 1, row.offset - Align + row.length)

\* lmi_bundle_find(): the rows it accepts.
Accepted(file) ==
    /\ Len(file.rows) = Len(Components) /\ file.total = Align + Len(file.body)
    /\ \A i \in DOMAIN file.rows :
        LET r == file.rows[i]
            previous == IF i = 1 THEN Align ELSE file.rows[i - 1].offset + file.rows[i - 1].length
        IN  /\ r.offset >= previous /\ r.offset % Align = 0 /\ r.length > 0
            /\ r.offset + r.length <= file.total
            /\ \A j \in 1..(i - 1) : file.rows[j].name # r.name

\* The loader gets these bytes for the component, with their checksum right.
Loads(file, name, bytes) ==
    /\ Accepted(file)
    /\ \E i \in DOMAIN file.rows :
        /\ file.rows[i].name = name /\ file.rows[i].crc = bytes
        /\ Slice(file, file.rows[i]) = bytes

Init ==
    /\ kits \in [Builders -> [Kit -> Sizes]]
    /\ builder = [b \in Builders |-> "start"]
    /\ bin = Empty /\ record = Empty
    /\ prepare = [at |-> "start", sha |-> Empty]
    /\ recipe = [build |-> "none", pin |-> Empty, manifest |-> <<>>]

-----------------------------------------------------------------------------
(* build-linux7-bundle.py *)

Goto(b, at) == builder' = [builder EXCEPT ![b] = at]

\* main(), to the budget: the base and the kit are read, the data is in memory.
Assemble(b) ==
    /\ builder[b] = "start"
    /\ Goto(b, IF Build(b).total >= Budget THEN "failed" ELSE "open")
    /\ UNCHANGED <<kits, bin, record, prepare, recipe>>

\* write_bytes() empties the file, then writes from its beginning: what another
\* run wrote beyond stays.
OpenBin(b) ==
    /\ builder[b] = "open"
    /\ bin' = Empty /\ Goto(b, "bin")
    /\ UNCHANGED <<kits, record, prepare, recipe>>

WriteBin(b) ==
    /\ builder[b] = "bin"
    /\ LET data == Build(b)
       IN  bin' = [data EXCEPT !.body = @ \o SubSeq(bin.body, Len(@) + 1, Len(bin.body))]
    /\ Goto(b, "record")
    /\ UNCHANGED <<kits, record, prepare, recipe>>

\* manifest(): the record tells the data in memory, not the file.
WriteRecord(b) ==
    /\ builder[b] = "record"
    /\ record' = Build(b) /\ Goto(b, "reread")
    /\ UNCHANGED <<kits, bin, prepare, recipe>>

\* Read back and verify: each row of the file that is there now.
Reread(b) ==
    /\ builder[b] = "reread"
    /\ Goto(b, IF /\ bin.total = Align + Len(bin.body)
                  /\ \A i \in DOMAIN bin.rows :
                       Slice(bin, bin.rows[i]) = Encode(Payload(b, bin.rows[i].name))
               THEN "written" ELSE "failed")
    /\ UNCHANGED <<kits, bin, record, prepare, recipe>>

\* A run is killed; the record it was writing may be cut.
KillBuilder(b) ==
    /\ builder[b] \in {"open", "bin", "record", "reread"}
    /\ Goto(b, "killed")
    /\ record' \in {record} \cup IF builder[b] = "record" THEN {Empty} ELSE {}
    /\ UNCHANGED <<kits, bin, prepare, recipe>>

-----------------------------------------------------------------------------
(* prepare-menu-recipe.py *)

Files == [build |-> recipe.build, pin |-> recipe.pin]
Reference == [build |-> "reference", pin |-> Build("base")]

\* main(): the digest of the bundle, when its two files are there.
ReadSha ==
    /\ prepare.at = "start"
    /\ bin # Empty
    /\ prepare' = [at |-> "declared", sha |-> bin]
    /\ UNCHANGED <<kits, builder, bin, record, recipe>>

\* Mutant: the record has to be there, and not to give the same digest.
DeclaredAny == record # Empty

\* The record gives the same digest as the bundle read before it.
Declared == record = prepare.sha

\* The reference is copied, with its manifest; a copy cut short lacks files.
CopyTree ==
    /\ prepare.at = "declared"
    /\ \/ /\ ~Declared
          /\ prepare' = [prepare EXCEPT !.at = "stopped"]
          /\ UNCHANGED recipe
       \/ /\ Declared
          /\ \/ /\ recipe' = [build |-> "reference", pin |-> Reference.pin,
                              manifest |-> <<[bundle |-> Reference.pin, files |-> Reference]>>]
                /\ prepare' = [prepare EXCEPT !.at = "build"]
             \/ /\ recipe' = [build |-> "none", pin |-> Empty,
                              manifest |-> <<[bundle |-> Reference.pin, files |-> Reference]>>]
                /\ prepare' = [prepare EXCEPT !.at = "killed"]
    /\ UNCHANGED <<kits, builder, bin, record>>

\* The three paths of build.sh; a pattern the reference lacks ends the program.
RewriteBuild ==
    /\ prepare.at = "build"
    /\ \/ recipe' = [recipe EXCEPT !.build = "new"] /\ prepare' = [prepare EXCEPT !.at = "pin"]
       \/ recipe' = [recipe EXCEPT !.build = "none"] /\ prepare' = [prepare EXCEPT !.at = "killed"]
       \/ UNCHANGED recipe /\ prepare' = [prepare EXCEPT !.at = "stopped"]
    /\ UNCHANGED <<kits, builder, bin, record>>

\* The digest in make-outer.py, in the same way.
RewritePin ==
    /\ prepare.at = "pin"
    /\ \/ recipe' = [recipe EXCEPT !.pin = prepare.sha] /\ prepare' = [prepare EXCEPT !.at = "manifest"]
       \/ recipe' = [recipe EXCEPT !.pin = Empty] /\ prepare' = [prepare EXCEPT !.at = "killed"]
       \/ UNCHANGED recipe /\ prepare' = [prepare EXCEPT !.at = "stopped"]
    /\ UNCHANGED <<kits, builder, bin, record>>

\* record_files() and the new manifest; killed, the manifest is cut.
WriteManifest ==
    /\ prepare.at = "manifest"
    /\ \/ /\ recipe' = [recipe EXCEPT !.manifest = <<[bundle |-> prepare.sha, files |-> Files]>>]
          /\ prepare' = [prepare EXCEPT !.at = "prepared"]
       \/ /\ recipe' = [recipe EXCEPT !.manifest = <<>>]
          /\ prepare' = [prepare EXCEPT !.at = "killed"]
    /\ UNCHANGED <<kits, builder, bin, record>>

\* The program is killed between two of its steps.
KillPrepare ==
    /\ prepare.at \in {"build", "pin", "manifest"}
    /\ prepare' = [prepare EXCEPT !.at = "killed"]
    /\ UNCHANGED <<kits, builder, bin, record, recipe>>

BundleNext ==
    \/ \E b \in Builders :
        Assemble(b) \/ OpenBin(b) \/ WriteBin(b) \/ WriteRecord(b) \/ Reread(b) \/ KillBuilder(b)
    \/ ReadSha \/ CopyTree \/ RewriteBuild \/ RewritePin \/ WriteManifest \/ KillPrepare

BundleSpec == Init /\ [][BundleNext]_bundleVars

-----------------------------------------------------------------------------
\* --verify-only: the manifest gives the files that are there.
ManifestReproduced ==
    recipe.manifest # <<>> /\ recipe.manifest[1].files = Files

\* A recipe that --verify-only accepts is the reference's or is whole: the paths
\* are the new ones, and what it pins is one run's container, from which the
\* loader gets the kept component and the two of that run's kit.
RecipeIsOneBundle ==
    ManifestReproduced =>
        \/ Files = Reference
        \/ /\ recipe.build = "new" /\ recipe.manifest[1].bundle = recipe.pin
           /\ \E b \in Builders : \A i \in DOMAIN Components :
                Loads(recipe.pin, Components[i], Encode(Payload(b, Components[i])))

-----------------------------------------------------------------------------
(* The inductive invariant *)

Whole == {Build(b) : b \in Builders}

ShapeInv ==
    /\ kits \in [Builders -> [Kit -> Sizes]]
    /\ record \in {Empty} \cup Whole
    /\ DOMAIN prepare = {"at", "sha"} /\ DOMAIN recipe = {"build", "pin", "manifest"}

\* What the recipe program holds, by where it is.
PrepareInv ==
    /\ prepare.at = "declared" => prepare.sha # Empty
    /\ prepare.at \in {"build", "pin", "manifest"} => prepare.sha \in Whole
    /\ prepare.at \in {"start", "declared"} => recipe.manifest = <<>>
    /\ prepare.at = "build" => Files = Reference
    /\ prepare.at \in {"pin", "manifest"} => recipe.build = "new"
    /\ prepare.at = "manifest" => recipe.pin = prepare.sha
    /\ prepare.at \in {"build", "pin", "manifest"} =>
         recipe.manifest = <<[bundle |-> Reference.pin, files |-> Reference]>>

AcceptedInv ==
    ManifestReproduced =>
        \/ Files = Reference
        \/ /\ recipe.build = "new" /\ recipe.manifest[1].bundle = recipe.pin
           /\ recipe.pin \in Whole

BundleInv == ShapeInv /\ PrepareInv /\ AcceptedInv
=============================================================================
