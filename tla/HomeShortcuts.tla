---------------------------- MODULE HomeShortcuts ----------------------------
(***************************************************************************)
(* What dragging shortcuts in the Phosh home promises, whatever the order  *)
(* and the slots they are in: one gesture copies, moves or removes one     *)
(* shortcut, all at once, and no other shortcut comes or goes.             *)
(* HomeDrag implements it.                                                 *)
(***************************************************************************)
EXTENDS Naturals, FiniteSets

CONSTANTS Apps, Limit, SlotCount

VARIABLES
  favs, homes,  \* the applications with a shortcut in the dock and on the home
  others        \* changes made by other programs

Init ==
  /\ favs \in SUBSET Apps /\ Cardinality(favs) <= Limit
  /\ homes = {}
  /\ others = 0

AddFavorite(a) ==
  /\ a \notin favs /\ Cardinality(favs) < Limit
  /\ favs' = favs \cup {a}

AddHome(a) ==
  /\ a \notin homes /\ Cardinality(homes) < SlotCount
  /\ homes' = homes \cup {a}

DropFavorite(a) == a \in favs /\ favs' = favs \ {a}
DropHome(a) == a \in homes /\ homes' = homes \ {a}

Copy(a) ==
  \/ AddFavorite(a) /\ UNCHANGED homes
  \/ AddHome(a) /\ UNCHANGED favs

Remove(a) ==
  \/ DropFavorite(a) /\ UNCHANGED homes
  \/ DropHome(a) /\ UNCHANGED favs

Transfer(a) ==
  \/ DropHome(a) /\ AddFavorite(a)
  \/ DropFavorite(a) /\ AddHome(a)

\* Another program writes the settings.
Other ==
  /\ others' = others + 1
  /\ favs' \in SUBSET Apps /\ homes' \in SUBSET Apps

Next ==
  \/ \E a \in Apps : (Copy(a) \/ Remove(a) \/ Transfer(a)) /\ UNCHANGED others
  \/ Other

Spec == Init /\ [][Next]_<<favs, homes, others>>
=============================================================================
