---------------------------- MODULE PackageBuild ----------------------------
(* The candidate package builders (build-packages.py of irq-name-candidate,   *)
(* of the drawer candidates and of the thumbnail candidates).  They patch and *)
(* rebuild the same source trees of one build root, each tree incrementally   *)
(* (dpkg-buildpackage -nc), and publish a result file naming the packages.    *)
(* A candidate is the set of the changes its sources hold.                    *)
EXTENDS Naturals, Sequences

CONSTANTS Operators,    \* who starts the builders
          Agendas       \* the sets of candidates they build
VARIABLES
  agenda,     \* the candidates of this behaviour
  tree,       \* package -> [src, log, stamp, obj]: the source, the version of the
              \* changelog, the debhelper stamp, and what the objects were built from
  debs,       \* package -> version -> what the package holds
  lockOf,     \* lock -> the operator whose builder holds it, or "free"
  builder,    \* operator -> [pc, does, n]
  published   \* candidate -> its result file is written

vars == <<agenda, tree, debs, lockOf, builder, published>>

\* The candidates, what they start from, what they make, and the packages; a
\* version is named by the changes it holds.
Candidate == [
  irq    |-> [old |-> {}, new |-> {"irq"}, packages |-> <<"phosh", "gsd">>,
        lastGood |-> {}],
  search |-> [old |-> {"irq"}, new |-> {"irq", "search"}, packages |-> <<"phosh">>,
        lastGood |-> {}],
  linear |-> [old |-> {}, new |-> {"linear"}, packages |-> <<"phoc">>, lastGood |-> {}]]

Trees == {"phosh", "gsd", "phoc"}
Versions == {{}, {"irq"}, {"irq", "search"}, {"linear"}}
Torn == {"torn"}
Missing == {"missing"}

PackagesOf(c) == {Candidate[c].packages[i] : i \in DOMAIN Candidate[c].packages}

BuildInit ==
  /\ agenda \in Agendas
  /\ tree = [p \in Trees |-> [src |-> {}, log |-> {}, stamp |-> TRUE, obj |-> {}]]
  /\ debs = [p \in Trees |-> [v \in Versions |-> IF v = {} THEN {} ELSE Missing]]
  /\ lockOf = [l \in {"gsd", "gauge"} |-> "free"]
  /\ builder = [o \in Operators |-> [pc |-> "idle", does |-> "irq", n |-> 0]]
  /\ published = [c \in DOMAIN Candidate |-> FALSE]

-----------------------------------------------------------------------------
\* The checks before and after every change.

\* verify() of the drawer candidates: each source is the old or the new one, its
\* changelog says the same, the package to go back to is there.
VerifySearch(c) ==
  \A p \in PackagesOf(c) :
    /\ tree[p].src \in {Candidate[c].old, Candidate[c].new}
    /\ tree[p].log = tree[p].src
    /\ debs[p][Candidate[c].lastGood] = Candidate[c].lastGood

\* patched_sources(): all the sources old or all new, the patch applies, and an
\* already patched source is first taken back.
StageSearch(c) ==
  \/ \A p \in PackagesOf(c) : tree[p].src = Candidate[c].old
  \/ \A p \in PackagesOf(c) : tree[p].src = Candidate[c].new

\* verify_inputs() of the IRQ candidate: the sources agree, and each changelog
\* with them.
VerifyIrq(c) ==
  \E s \in {Candidate[c].old, Candidate[c].new} : \A p \in PackagesOf(c) :
    /\ tree[p].src = s /\ tree[p].log = s
    /\ debs[p][Candidate[c].lastGood] = Candidate[c].lastGood

\* validate() of the thumbnail candidates.
ValidateLinear(c) ==
  /\ tree["phoc"].src \in {Candidate[c].old, Candidate[c].new}
  /\ tree["phoc"].log = tree["phoc"].src
  /\ debs["phoc"][Candidate[c].lastGood] = Candidate[c].lastGood

Verify(c) == CASE c = "irq" -> VerifyIrq(c)
               [] c = "search" -> VerifySearch(c) /\ StageSearch(c)
               [] c = "linear" -> ValidateLinear(c)

\* The locks, in the order they are taken; the thumbnail builders know only one.
LocksFor(c) == IF c = "linear" THEN <<"gauge">> ELSE <<"gsd", "gauge">>

\* The steps of build(), up to the build: the IRQ candidate copies every source
\* first and then writes each changelog and removes each stamp.
IrqSteps == <<
  <<"copy", "phosh">>, <<"copy", "gsd">>, <<"log", "phosh">>, <<"stamp", "phosh">>,
  <<"log", "gsd">>, <<"stamp", "gsd">>, <<"verify", "all">> >>

\* Mutant: the stamp of the build before is left.
SearchStepsStampKept == <<
  <<"copy", "phosh">>, <<"log", "phosh">>, <<"verify", "all">> >>

\* The drawer candidates treat one source after the other.
SearchSteps == <<
  <<"copy", "phosh">>, <<"log", "phosh">>, <<"stamp", "phosh">>, <<"verify", "all">> >>

\* The thumbnail candidates write and rename only an unpatched source, and
\* validate before they remove the stamp.
LinearSteps == <<
  <<"copy", "phoc">>, <<"log", "phoc">>, <<"verify", "all">>,
  <<"stamp",
      "phoc">> >>

StepsOf(c) == CASE c = "irq" -> IrqSteps [] c = "search" -> SearchSteps [] c = "linear" -> LinearSteps

-----------------------------------------------------------------------------
At(o, pc) == builder[o].pc = pc
Run(o) == Candidate[builder[o].does]
Released(o) == [l \in DOMAIN lockOf |-> IF lockOf[l] = o THEN "free" ELSE lockOf[l]]

\* The builder ends, and its locks with it.
Exit(o) ==
  /\ builder' = [builder EXCEPT ![o].pc = "idle", ![o].n = 0]
  /\ lockOf' = Released(o)

\* main(), not inside: the preflight, with no lock held.
Preflight(o, c) ==
  /\ At(o, "idle") /\ Verify(c)
  /\ builder' = [builder EXCEPT ![o] = [pc |-> "lock", does |-> c, n |-> 1]]
  /\ UNCHANGED <<tree, debs, lockOf, published>>

\* flock(LOCK_EX | LOCK_NB): a lock that is held ends the program.
TakeLock(o) ==
  /\ At(o, "lock")
  /\ LET locks == LocksFor(builder[o].does)
         l == locks[builder[o].n] IN
     IF lockOf[l] # "free" THEN Exit(o)
     ELSE /\ lockOf' = [lockOf EXCEPT ![l] = o]
          /\ builder' = [builder EXCEPT
               ![o].pc = IF builder[o].n = Len(locks) THEN "inside" ELSE "lock",
               ![o].n = IF builder[o].n = Len(locks) THEN 1 ELSE builder[o].n + 1]
  /\ UNCHANGED <<tree, debs, published>>

\* The same program again, in its own mount namespace: the checks are repeated.
Inside(o) ==
  /\ At(o, "inside")
  /\ IF Verify(builder[o].does)
     THEN builder' = [builder EXCEPT ![o].pc = "apply", ![o].n = 1] /\ UNCHANGED lockOf
     ELSE Exit(o)
  /\ UNCHANGED <<tree, debs, published>>

Advance(o) ==
  /\ builder' = [builder EXCEPT
       ![o].pc = IF builder[o].n = Len(StepsOf(builder[o].does)) THEN "compile" ELSE "apply",
       ![o].n = IF builder[o].n = Len(StepsOf(builder[o].does)) THEN 1 ELSE builder[o].n + 1]
  /\ UNCHANGED lockOf

Step(o) == StepsOf(builder[o].does)[builder[o].n]

\* The patched source is copied over the tree's, the stamp and objects untouched;
\* a builder that dies here leaves half a file.
CopySource(o) ==
  /\ At(o, "apply")
  /\ \E p \in Trees :
       /\ Step(o) = <<"copy", p>>
       /\ \/ tree' = [tree EXCEPT ![p].src = Run(o).new] /\ Advance(o)
          \/ tree' = [tree EXCEPT ![p].src = Torn] /\ Exit(o)
  /\ UNCHANGED <<debs, published>>

\* dch, or the entry put before the others, when the version is not there yet.
Changelog(o) ==
  /\ At(o, "apply")
  /\ \E p \in Trees : Step(o) = <<"log", p>> /\ tree' = [tree EXCEPT ![p].log = Run(o).new]
  /\ Advance(o) /\ UNCHANGED <<debs, published>>

RemoveStamp(o) ==
  /\ At(o, "apply")
  /\ \E p \in Trees : Step(o) = <<"stamp", p>> /\ tree' = [tree EXCEPT ![p].stamp = FALSE]
  /\ Advance(o) /\ UNCHANGED <<debs, published>>

VerifyApplied(o) ==
  /\ At(o, "apply") /\ Step(o) = <<"verify", "all">>
  /\ IF Verify(builder[o].does) THEN Advance(o) ELSE Exit(o)
  /\ UNCHANGED <<tree, debs, published>>

\* dpkg-buildpackage -b -nc: the build is skipped when its stamp is there; the
\* package gets the version of the changelog and holds what the objects do.
Compile(o) ==
  /\ At(o, "compile")
  /\ LET p == Run(o).packages[builder[o].n] IN
     \/ /\ ~tree[p].stamp
        /\ tree' = [tree EXCEPT ![p].obj = tree[p].src, ![p].stamp = TRUE]
        /\ UNCHANGED <<debs, builder, lockOf>>
     \/ /\ tree[p].stamp
        /\ debs' = [debs EXCEPT ![p][tree[p].log] = tree[p].obj]
        /\ builder' = [builder EXCEPT
             ![o].pc = IF builder[o].n = Len(Run(o).packages) THEN "check" ELSE "compile",
             ![o].n = IF builder[o].n = Len(Run(o).packages) THEN 1 ELSE builder[o].n + 1]
        /\ UNCHANGED <<tree, lockOf>>
     \/ Exit(o) /\ UNCHANGED <<tree, debs>>
  /\ UNCHANGED published

\* The sources again, then every package: its version, the list of its files, and
\* that the program in it is not the rollback one's and kept the change before.
Check(o) ==
  /\ At(o, "check")
  /\ LET c == builder[o].does
         kept == c = "linear" \/ \A p \in PackagesOf(c) :
                   debs[p][Run(o).new] # debs[p][Run(o).lastGood]
                         /\ "irq" \in debs[p][Run(o).new] IN
     IF Verify(c) /\ (\A p \in PackagesOf(c) : debs[p][Run(o).new] # Missing) /\ kept
     THEN published' = [published EXCEPT ![c] = TRUE]
     ELSE UNCHANGED published
  /\ Exit(o) /\ UNCHANGED <<tree, debs>>

\* The whole process group is stopped: Ctrl-C, or the machine.
Stopped(o) ==
  /\ builder[o].pc \notin {"idle"}
  /\ Exit(o) /\ UNCHANGED <<tree, debs, published>>

BuildNext ==
  /\ UNCHANGED agenda
  /\ \E o \in Operators :
     \/ \E c \in agenda : Preflight(o, c)
     \/ TakeLock(o) \/ Inside(o)
     \/ CopySource(o) \/ Changelog(o) \/ RemoveStamp(o) \/ VerifyApplied(o)
     \/ Compile(o) \/ Check(o) \/ Stopped(o)

BuildSpec == BuildInit /\ [][BuildNext]_vars

-----------------------------------------------------------------------------
\* A result file names packages built from that candidate's sources, whole, and
\* not from the objects of the candidate before, however the builders were
\* interrupted, repeated and started against each other.
PublishedIsPatched ==
  \A c \in DOMAIN Candidate : published[c] =>
    \A p \in PackagesOf(c) : debs[p][Candidate[c].new] = Candidate[c].new

-----------------------------------------------------------------------------
(* The inductive invariant.  One builder at a time is past its locks; what it has *)
(* done stays done until it ends; and the name of a package is what it holds.     *)

PackagesAssumption ==
  "free" \notin Operators /\ \A a \in Agendas : a \subseteq DOMAIN Candidate

Busy == {"inside", "apply", "compile", "check"}

Typed ==
  /\ agenda \subseteq DOMAIN Candidate
  /\ tree \in [Trees -> [src : Versions \cup {Torn}, log : Versions, stamp : BOOLEAN,
                         obj : Versions \cup {Torn}]]
  /\ DOMAIN debs = Trees /\ \A p \in Trees : DOMAIN debs[p] = Versions
  /\ DOMAIN lockOf = {"gsd", "gauge"}
  /\ builder \in [Operators -> [pc : {"idle", "lock"} \cup Busy,
                                does : DOMAIN Candidate, n : Nat]]
  /\ published \in [DOMAIN Candidate -> BOOLEAN]

\* A step of build() has been taken, and nothing has undone it.
Done(c, step) ==
  CASE step[1] = "copy" -> tree[step[2]].src = Candidate[c].new
    [] step[1] = "log" -> tree[step[2]].log = Candidate[c].new
    [] step[1] = "stamp" -> ~tree[step[2]].stamp
    [] OTHER -> TRUE

Progress(o) ==
  LET c == builder[o].does
      n == builder[o].n IN
  /\ At(o, "lock") => n \in DOMAIN LocksFor(c)
  /\ builder[o].pc \in Busy => lockOf["gauge"] = o
  /\ At(o, "apply") => n \in DOMAIN StepsOf(c) /\ \A k \in 1..(n - 1) : Done(c, StepsOf(c)[k])
  /\ At(o, "compile") =>
       /\ n \in DOMAIN Candidate[c].packages
       /\ \A p \in PackagesOf(c) :
            /\ tree[p].src = Candidate[c].new /\ tree[p].log = Candidate[c].new
            /\ tree[p].stamp => tree[p].obj = Candidate[c].new

PackagesInv ==
  /\ Typed
  /\ \A p \in Trees, v \in Versions : debs[p][v] \in {v, Missing}
  /\ \A o \in Operators : Progress(o)
  /\ PublishedIsPatched
=============================================================================
