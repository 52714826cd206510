----------------------------- MODULE RegmapRead -----------------------------
(***************************************************************************)
(* pm8150b-charger-targeted-read.py: which debugfs file is the charger's,  *)
(* and the value of each register asked for, found in that file by the     *)
(* arithmetic of its lines.                                                *)
(*                                                                         *)
(* A debugfs file has one line for each register its driver lets be read,  *)
(* so lines may be missing between two addresses, and a register that did  *)
(* not answer is printed XX.  All the lines of a file have one width: an   *)
(* offset of the program is the number of a line here.  Registers are read *)
(* one after the other while the chip works.                               *)
(***************************************************************************)
EXTENDS Integers, Sequences, FiniteSets, SequencesExt

CONSTANTS
    Addresses,      \* the registers of a PMIC
    Asked,          \* REGISTERS
    Signature,      \* SIGNATURE: one register of the charger, one of the gauge
    MaxLines,       \* bound: lines of a file
    MaxVersion,     \* bound: changes of the chip
    MaxSamples      \* bound: samples of one session

RegmapAssumption ==
    /\ Addresses \subseteq Nat /\ MaxLines \in Nat
    /\ Signature \subseteq Asked /\ Asked \subseteq Addresses

\* The registers of a row, in the order they are read.
Registers == SetToSortSeq(Asked, <)

Names == {"0-02", "0-03"}
NoName == "none"

VARIABLES
    session,    \* [at, from, samples]: where main() is, when the sample began
    debugfs,    \* [name -> the addresses of its lines, in order], once opened
    chip,       \* [version, silent]: the values change, some registers do not answer
    candidates, \* resolve_regmap(): the names still to try
    retained,   \* the regmap in use
    sampled     \* the row: an entry for each register read

regmapVars == <<session, debugfs, chip, candidates, retained, sampled>>

Blank == [name |-> NoName, addr |-> -1, version |-> -1]

Init ==
    /\ session = [at |-> "start", from |-> 0, samples |-> 0]
    /\ debugfs = [n \in Names |-> <<>>]
    /\ chip = [version |-> 0, silent |-> {}]
    /\ candidates = <<>>
    /\ retained = NoName
    /\ sampled = <<>>

-----------------------------------------------------------------------------
(* RegMap *)

\* probe(): the first two lines give the first address and the step.
Recognised(name) == Len(debugfs[name]) >= 2

First1(name) == debugfs[name][1]
StepOf(name) == debugfs[name][2] - First1(name)

\* _offset(): the number of the line, 0 when the address cannot have one.
Offset(name, addr) ==
    IF addr < First1(name) \/ (addr - First1(name)) % StepOf(name) # 0 THEN 0
    ELSE (addr - First1(name)) \div StepOf(name) + 1

\* What the line holds: the register it is of, with its value now.
Line(name, i) == [name |-> name, addr |-> debugfs[name][i], version |-> chip.version]

\* Mutant: the line at the offset is not asked for its address.
ReadTrusting(name, addr) ==
    LET i == Offset(name, addr)
    IN  IF i \notin DOMAIN debugfs[name] THEN Blank
        ELSE IF debugfs[name][i] \in chip.silent THEN Blank
        ELSE Line(name, i)

\* read(): None when there is no line, when the line is another register's, or
\* when it says XX.
Read(name, addr) ==
    LET i == Offset(name, addr)
    IN  IF i \notin DOMAIN debugfs[name] THEN Blank
        ELSE IF debugfs[name][i] # addr \/ addr \in chip.silent THEN Blank
        ELSE Line(name, i)

-----------------------------------------------------------------------------
\* The name the device tree gives, if any, which may be the usual one, then the
\* usual one; --regmap replaces both.
DtPmicRegmapName ==
    /\ session.at = "start"
    /\ candidates' \in {<<"0-02">>, <<"0-02", "0-02">>, <<"0-03", "0-02">>, <<"0-03">>}
    /\ session' = [session EXCEPT !.at = "resolve"]
    /\ UNCHANGED <<debugfs, chip, retained, sampled>>

\* The lines of a file, by increasing address; an empty one stands for a file
\* that is not there.
Lines ==
    {f \in UNION {[1..n -> Addresses] : n \in 0..MaxLines} :
        \A i, k \in DOMAIN f : i < k => f[i] < f[k]}

\* The chip works, and a register may stop answering for a while.
ChipMoves ==
    /\ session.at \in {"probe", "sample"}
    /\ \/ /\ chip.version < MaxVersion
          /\ chip' = [chip EXCEPT !.version = @ + 1]
       \/ \E a \in Signature :
            chip' = [chip EXCEPT !.silent = IF a \in @ THEN @ \ {a} ELSE @ \cup {a}]
    /\ UNCHANGED <<session, debugfs, candidates, retained, sampled>>

Open ==
    /\ session.at = "resolve"
    /\ candidates # <<>>
    /\ \E f \in Lines : debugfs' = [debugfs EXCEPT ![Head(candidates)] = f]
    /\ session' = [session EXCEPT !.at = "probe"]
    /\ UNCHANGED <<chip, candidates, retained, sampled>>

\* `seen`: a name is tried once; there is one other candidate at most.
Unseen(name, rest) == IF rest # <<>> /\ Head(rest) = name THEN <<>> ELSE rest

\* resolve_regmap(): the first candidate that has the signature.
Resolve ==
    /\ session.at = "probe"
    /\ LET name == Head(candidates)
       IN  IF Recognised(name) /\ \A a \in Signature : Read(name, a) # Blank
           THEN /\ retained' = name
                /\ candidates' = <<>>
                /\ session' = [session EXCEPT !.at = "sample", !.from = chip.version]
           ELSE /\ candidates' = Unseen(name, Tail(candidates))
                /\ session' = [session EXCEPT !.at = "resolve"]
                /\ UNCHANGED retained
    /\ UNCHANGED <<debugfs, chip, sampled>>

\* No regmap is verified: exit 2, and nothing is measured.
ResolveFails ==
    /\ session.at = "resolve"
    /\ candidates = <<>>
    /\ session' = [session EXCEPT !.at = "failed"]
    /\ UNCHANGED <<debugfs, chip, candidates, retained, sampled>>

\* sample(): one register after the other, in the order of REGISTERS.
SampleOne ==
    /\ session.at = "sample"
    /\ Len(sampled) < Len(Registers)
    /\ LET addr == Registers[Len(sampled) + 1]
       IN  sampled' = Append(sampled, Read(retained, addr))
    /\ UNCHANGED <<session, debugfs, chip, candidates, retained>>

\* The row is written; the session ends (--once, the deadline) or sleeps.
SampleEnd ==
    /\ session.at = "sample"
    /\ Len(sampled) = Len(Registers)
    /\ \/ /\ session' = [session EXCEPT !.at = "ended"]
          /\ UNCHANGED sampled
       \/ /\ session.samples < MaxSamples - 1
          /\ session' = [session EXCEPT !.samples = @ + 1, !.from = chip.version]
          /\ sampled' = <<>>
    /\ UNCHANGED <<debugfs, chip, candidates, retained>>

Next ==
    \/ DtPmicRegmapName
    \/ ChipMoves
    \/ Open
    \/ Resolve
    \/ ResolveFails
    \/ SampleOne
    \/ SampleEnd

Spec == Init /\ [][Next]_regmapVars

-----------------------------------------------------------------------------
\* A regular file: its lines follow each other by one step.
Regular(name) ==
    \A i \in 1..(Len(debugfs[name]) - 1) :
        debugfs[name][i + 1] - debugfs[name][i] = StepOf(name)

\* A row is about the charger: every value in it is a value the register asked
\* for had while the sample was taken, in a file that has both the charger and
\* the gauge, however irregular its lines are; and in a regular file no
\* register that answers is left blank.
RowIsOfTheRegister ==
    \A i \in DOMAIN sampled :
        LET addr == Registers[i]
            value == sampled[i]
        IN  /\ value # Blank =>
                /\ value.name = retained /\ value.addr = addr
                /\ value.version \in session.from..chip.version
            /\ \A a \in Signature : \E k \in DOMAIN debugfs[retained] :
                    debugfs[retained][k] = a
            /\ value = Blank /\ addr \in ToSet(debugfs[retained]) =>
                ~Regular(retained) \/ addr \in Signature

-----------------------------------------------------------------------------
(* The inductive invariant.  Before the signature was found nothing is sampled; *)
(* the file it was found in stays as it is.                                     *)

Values == [name : Names \cup {NoName}, addr : Int, version : Int]

Typed ==
    /\ session \in [at : {"start", "resolve", "probe", "sample", "ended", "failed"},
                    from : Nat, samples : Nat]
    /\ debugfs \in [Names -> Lines]
    /\ chip \in [version : Nat, silent : SUBSET Signature]
    /\ candidates \in Seq(Names)
    /\ sampled \in Seq(Values)

Verified ==
    /\ retained \in Names /\ Recognised(retained)
    /\ \A a \in Signature : \E k \in DOMAIN debugfs[retained] : debugfs[retained][k] = a

RegmapInv ==
    /\ Typed
    /\ session.from <= chip.version
    /\ session.at = "probe" => candidates # <<>>
    /\ session.at \in {"sample", "ended"} => Verified
    /\ session.at \notin {"sample", "ended"} => sampled = <<>>
    /\ RowIsOfTheRegister
=============================================================================
