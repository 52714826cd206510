------------------------------ MODULE M0Closure ------------------------------
(* acquire-m0-closure.py: the list of the packages of the base system is      *)
(* resolved once from authenticated indexes, downloaded at exactly those      *)
(* versions, and locked only when every archive was verified.  The archive    *)
(* servers change while it runs.                                              *)
EXTENDS Naturals, FiniteSets

CONSTANTS Names,       \* package names
          Roots,       \* the sixteen direct packages, apt and the keyring
          Forbidden,   \* names the base system must not hold
          MaxVersion

VARIABLES
  mirror,     \* what the servers offer: name -> [version, needs]
  lists,      \* the indexes of the last update: as the mirror, or NoLists
  acquire,    \* where the program is
  plan,       \* the URLs of the plan: a set of [name, version]
  rows,       \* m0-closure.candidate.tsv: the rows, from the authenticated records
  cache,      \* the archives: a set of [name, version, whole]
  locked      \* m0-closure.lock.tsv: rows, or the empty set

vars == <<mirror, lists, acquire, plan, rows, cache, locked>>

Offers == [version : 0..MaxVersion, needs : SUBSET Names]
NoLists == [n \in Names |-> [version |-> 0, needs |-> {}]]

M0Init ==
  /\ mirror \in [Names -> {o \in Offers : o.version = 0 /\ Cardinality(o.needs) <= 1}]
  /\ lists = NoLists /\ acquire = "start"
  /\ plan = {} /\ rows = {} /\ cache = {} /\ locked = {}

\* What apt selects for a set of names: it and what it needs, and what that
\* needs, at the indexes' versions; the least such set.
HasNeeds(s) == \A n \in s : lists[n].needs \subseteq s
Closure(from) ==
  {n \in Names : \A s \in SUBSET Names : from \subseteq s /\ HasNeeds(s) => n \in s}
Resolve(from) == {[name |-> n, version |-> lists[n].version] : n \in Closure(from)}
NamesIn(set) == {r.name : r \in set}

Stop == acquire' = "stopped"

-----------------------------------------------------------------------------
\* acquire(): a fresh directory, an isolated apt state, and apt-get update.
Update ==
  /\ acquire = "start"
  /\ \/ lists' = mirror /\ acquire' = "plan"
     \/ Stop /\ UNCHANGED lists
  /\ UNCHANGED <<mirror, plan, rows, cache, locked>>

\* --print-uris of the roots; uri_plan() refuses an empty or a repeated entry.
Plan ==
  /\ acquire = "plan"
  /\ plan' = Resolve(Roots) /\ acquire' = "metadata"
  /\ UNCHANGED <<mirror, lists, rows, cache, locked>>

\* metadata(): every URL of the plan has one authenticated record; none is
\* forbidden, and the roots are there.
Metadata ==
  /\ acquire = "metadata"
  /\ IF NamesIn(plan) \cap Forbidden = {} /\ Roots \subseteq NamesIn(plan)
     THEN rows' = plan /\ acquire' = "candidate"
     ELSE Stop /\ UNCHANGED rows
  /\ UNCHANGED <<mirror, lists, plan, cache, locked>>

\* --plan-only ends here; otherwise the exact versions give the same plan again.
ExactPlan ==
  /\ acquire = "candidate"
  /\ \/ Stop
     \/ Resolve(NamesIn(rows)) = plan /\ acquire' = "download"
  /\ UNCHANGED <<mirror, lists, plan, rows, cache, locked>>

\* Every archive is fetched, retried or missing; one may be damaged on the disk.
Download ==
  /\ acquire = "download"
  /\ \/ /\ \A r \in rows : mirror[r.name].version = r.version
        /\ \E bad \in SUBSET rows :
             cache' = {[name |-> r.name, version |-> r.version, whole |-> r \notin bad] : r \in rows}
        /\ acquire' = "verify"
     \/ Stop /\ UNCHANGED cache
  /\ UNCHANGED <<mirror, lists, plan, rows, locked>>

\* Mutant: the set of the archives is compared, and not what is in them.
GoodBySet == NamesIn(cache) = NamesIn(rows)

\* The set of the archives, and each one's size, digest and identity.
Good == /\ NamesIn(cache) = NamesIn(rows)
        /\ \A r \in rows : [name |-> r.name, version |-> r.version, whole |-> TRUE] \in cache

Verify ==
  /\ acquire = "verify"
  /\ IF Good THEN locked' = rows /\ acquire' = "locked" ELSE Stop /\ UNCHANGED locked
  /\ UNCHANGED <<mirror, lists, plan, rows, cache>>

\* The servers publish a new version, with other needs.
Publishes ==
  /\ acquire \notin {"stopped", "locked"}
  /\ \E n \in Names, o \in Offers :
       /\ o.version = mirror[n].version + 1 /\ Cardinality(o.needs) <= 1
       /\ mirror' = [mirror EXCEPT ![n] = o]
  /\ UNCHANGED <<lists, acquire, plan, rows, cache, locked>>

M0Next == Update \/ Plan \/ Metadata \/ ExactPlan \/ Download \/ Verify \/ Publishes

M0Spec == M0Init /\ [][M0Next]_vars

-----------------------------------------------------------------------------
\* What is locked is one consistent resolution: closed under the needs the
\* indexes state, with every root, nothing forbidden, and every archive in the
\* cache whole and at the version of its row.
LockIsWhole ==
  locked # {} =>
    /\ Roots \subseteq NamesIn(locked) /\ NamesIn(locked) \cap Forbidden = {}
    /\ \A r \in locked :
         /\ [name |-> r.name, version |-> r.version, whole |-> TRUE] \in cache
         /\ lists[r.name].needs \subseteq NamesIn(locked)

-----------------------------------------------------------------------------
(* The inductive invariant: the plan is a resolution of the lists, which no later *)
(* step changes, and so are the rows.                                             *)

Indexes == [Names -> [version : Nat, needs : SUBSET Names]]

Whole(set) ==
  /\ Roots \subseteq NamesIn(set) /\ NamesIn(set) \cap Forbidden = {}
  /\ \A r \in set : lists[r.name].needs \subseteq NamesIn(set)

M0Inv ==
  /\ mirror \in Indexes /\ lists \in Indexes
  /\ acquire = "metadata" => \A r \in plan : lists[r.name].needs \subseteq NamesIn(plan)
  /\ acquire \in {"candidate", "download", "verify"} => Whole(rows)
  /\ locked # {} => acquire = "locked"
  /\ LockIsWhole
=============================================================================
