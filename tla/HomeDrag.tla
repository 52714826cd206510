------------------------------ MODULE HomeDrag ------------------------------
(***************************************************************************)
(* Dragging shortcuts between the application drawer, the dock of favorites *)
(* and the sixteen home slots of Phosh: userspace/phosh/                    *)
(* home-drag-candidate (lmi-home-order.h, lmi-home-dnd.h, home-remove.inc). *)
(*                                                                         *)
(* The two lists are keys of GSettings, which other programs write too.  A *)
(* drop is computed when the drag is received, from the lists of that      *)
(* moment, and applied by an idle callback later, if they have not changed *)
(* since.  A callback of the GTK thread is one step here: what another     *)
(* process writes between its look at a list and its commit is left out.   *)
(***************************************************************************)
EXTENDS Naturals, FiniteSets, Sequences, SequencesExt

CONSTANTS
  Apps,         \* desktop ids
  Empty,        \* the empty string, in a home slot with no shortcut
  Background,   \* the dock itself as the target of a drop
  Drawer,       \* the origin of a drag that copies
  SlotCount,    \* LMI_HOME_SLOT_COUNT
  Limit,        \* LMI_FAVORITE_LIMIT
  MaxDrops,     \* bound: idle callbacks that wait
  MaxOthers     \* bound: changes made by other programs

ASSUME IdAssumption == Empty \notin Apps /\ Background \notin Apps
ASSUME SizeAssumption == SlotCount \in Nat \ {0} /\ Limit \in Nat

Keys == {"favorites", "home"}

VARIABLES
  list,   \* the value of each key
  idle,   \* the drops whose idle callback waits
  others

vars == <<list, idle, others>>

----------------------------------------------------------------------------
(* lmi-home-order.h: each operator gives the set of what its function       *)
(* returns, which is empty where the function returns NULL                  *)

Indices(s, id) == {i \in DOMAIN s : s[i] = id}

\* The place of an id that is there once.
Only(s, id) == {i \in DOMAIN s : Indices(s, id) = {i}}

FavoritesMove(before, source, target) ==
  {InsertAt(RemoveAt(before, from), to, source) :
     from \in Only(before, source), to \in Only(before, target) \ Only(before, source)}

\* Mutated form: a shortcut from elsewhere is added to a full dock.
FavoritesPlaceUnlimited(before, source, target) ==
  IF Indices(before, source) # {}
  THEN FavoritesMove(before, source,
                     IF target = Background THEN before[Len(before)] ELSE target)
  ELSE IF target = Background
       THEN {Append(before, source)}
       ELSE {InsertAt(before, to, source) : to \in Only(before, target)}

FavoritesPlace(before, source, target) ==
  IF Indices(before, source) # {}
  THEN FavoritesMove(before, source,
                     IF target = Background THEN before[Len(before)] ELSE target)
  ELSE IF Len(before) >= Limit THEN {}
  ELSE IF target = Background
       THEN {Append(before, source)}
       ELSE {InsertAt(before, to, source) : to \in Only(before, target)}

FirstEmpty(s) == {i \in Indices(s, Empty) : \A j \in Indices(s, Empty) : i <= j}

\* A shortcut that is on the home changes places; one from elsewhere pushes the
\* one in its slot to the first empty slot.
HomePlace(before, source, slot) ==
  IF Indices(before, source) # {}
  THEN {[before EXCEPT ![from] = before[slot], ![slot] = source] :
          from \in Only(before, source) \ {slot}}
  ELSE IF before[slot] = Empty
       THEN {[before EXCEPT ![slot] = source]}
       ELSE {[before EXCEPT ![slot] = source, ![empty] = before[slot]] :
               empty \in FirstEmpty(before)}

ShortcutRemove(before, id, key) ==
  {IF key = "home" THEN [before EXCEPT ![i] = Empty] ELSE RemoveAt(before, i) :
     i \in Only(before, id)}

----------------------------------------------------------------------------
(* lmi_home_drag_received() *)

Targets ==
  [key : {"favorites"}, at : Apps \cup {Background}] \cup [key : {"home"}, at : 1..SlotCount]

Placed(source, target) ==
  LET before == list[target.key] IN
  IF target.key = "favorites"
  THEN FavoritesPlace(before, source, target.at)
  ELSE HomePlace(before, source, target.at)

\* The shortcut is where it is dropped already.
Present(source, target) ==
  IF target.key = "favorites"
  THEN target.at = source
  ELSE list["home"][target.at] = source

Transferred(source, target) ==
  IF Placed(source, target) = {} /\ Present(source, target)
  THEN {list[target.key]}
  ELSE Placed(source, target)

\* The lists a drop was computed from, and what it makes of them.
Drop(keys, after) == [before |-> [k \in keys |-> list[k]], after |-> after]

Transfers(source, origin, target) ==
  {Drop(Keys, [k \in Keys |-> IF k = target.key THEN after ELSE rest]) :
     after \in Transferred(source, target),
     rest \in ShortcutRemove(list[origin], source, origin)}

\* A drag from the drawer copies, one within a list reorders, one between the
\* lists takes the shortcut away from where it came from.
Drops(source, origin, target) ==
  IF origin \in {Drawer, target.key}
  THEN {Drop({target.key}, [k \in {target.key} |-> after]) : after \in Placed(source, target)}
  ELSE Transfers(source, origin, target)

Queue(drop) ==
  /\ Len(idle) < MaxDrops
  /\ idle' = Append(idle, drop)
  /\ UNCHANGED <<list, others>>

DragReceived ==
  \E source \in Apps, origin \in Keys \cup {Drawer}, target \in Targets :
    \E drop \in Drops(source, origin, target) : Queue(drop)

\* home-remove of a shortcut's menu.
HomeRemove ==
  \E slot \in 1..SlotCount :
    /\ list["home"][slot] # Empty
    /\ Queue(Drop({"home"}, [k \in {"home"} |-> [list["home"] EXCEPT ![slot] = Empty]]))

----------------------------------------------------------------------------
(* lmi_home_drop_apply() *)

Current(drop) == \A k \in DOMAIN drop.before : list[k] = drop.before[k]

Commit(drop) ==
  list' = [k \in Keys |-> IF k \in DOMAIN drop.after THEN drop.after[k] ELSE list[k]]

\* Mutated form: the lists are not compared with what the drop was computed from.
DropApplyUnchecked ==
  /\ idle # <<>>
  /\ idle' = Tail(idle)
  /\ Commit(Head(idle))
  /\ UNCHANGED others

\* A stale drop changes nothing; nor does one that GSettings refuses to store.
DropApply ==
  /\ idle # <<>>
  /\ idle' = Tail(idle)
  /\ \/ Current(Head(idle)) /\ Commit(Head(idle))
     \/ UNCHANGED list
  /\ UNCHANGED others

----------------------------------------------------------------------------
(* The other writers of the two keys *)

\* favorite-add and favorite-remove of a shortcut's menu write at once.
FavoriteAdd ==
  \E a \in Apps :
    /\ Indices(list["favorites"], a) = {} /\ Len(list["favorites"]) < Limit
    /\ list' = [list EXCEPT !["favorites"] = Append(@, a)]
    /\ UNCHANGED <<idle, others>>

FavoriteRemove ==
  \E a \in Apps :
    /\ \E s \in ShortcutRemove(list["favorites"], a, "favorites") :
         list' = [list EXCEPT !["favorites"] = s]
    /\ UNCHANGED <<idle, others>>

Distinct(s) == \A i, j \in DOMAIN s : s[i] = s[j] /\ s[i] # Empty => i = j

FavoriteLists == {s \in BoundedSeq(Apps, Limit) : Distinct(s)}
HomeLists == {s \in [1..SlotCount -> Apps \cup {Empty}] : Distinct(s)}

\* Another program writes a key.
OtherWrites ==
  /\ others < MaxOthers /\ others' = others + 1
  /\ \/ \E s \in FavoriteLists : list' = [list EXCEPT !["favorites"] = s]
     \/ \E s \in HomeLists : list' = [list EXCEPT !["home"] = s]
  /\ UNCHANGED idle

Init ==
  /\ \E s \in FavoriteLists :
       list = [k \in Keys |-> IF k = "favorites" THEN s ELSE [i \in 1..SlotCount |-> Empty]]
  /\ idle = <<>>
  /\ others = 0

Next ==
  \/ DragReceived \/ HomeRemove \/ DropApply
  \/ FavoriteAdd \/ FavoriteRemove \/ OtherWrites

Spec == Init /\ [][Next]_vars

----------------------------------------------------------------------------
(* Properties *)

\* The home list keeps its sixteen slots (every function of lmi-home-order.h
\* refuses a list of another length), no list ever names an application twice,
\* and no drop that waits would make it.
TypeOK ==
  /\ list["favorites"] \in Seq(Apps)
  /\ list["home"] \in [1..SlotCount -> Apps \cup {Empty}]
  /\ \A k \in Keys : Distinct(list[k])
  /\ \A i \in DOMAIN idle : \A k \in DOMAIN idle[i].after : Distinct(idle[i].after[k])
  /\ others \in Nat

\* "Five favorites fit a 360px logical screen without wrapping" (prepare.py:58):
\* the limit holds although the drop that adds the last one was computed when
\* there was room and is applied after other writers have had their turn.
AtMostFive == Len(list["favorites"]) <= Limit

\* The two lists are sound, whatever the drops and the other writers do.
ShortcutsSound == TypeOK /\ AtMostFive

\* Each gesture takes effect at one instant, on the lists as they are then: it
\* copies, moves or removes its own shortcut and no other comes or goes, whatever
\* happened between the drop and its idle callback ("Validate both snapshots
\* before committing either side of a move", lmi-home-dnd.h:43).
Shortcuts == INSTANCE HomeShortcuts WITH
  favs <- {a \in Apps : Indices(list["favorites"], a) # {}},
  homes <- {a \in Apps : Indices(list["home"], a) # {}}

OneGestureOneShortcut == Shortcuts!Spec

\* "An already-present destination still permits removing the other copy"
\* (lmi-home-dnd.h:178): the shortcut of an application that is in both lists can
\* be dragged from the home to any place in the dock.
PresentPermits ==
  \A a \in Apps :
    (\A k \in Keys : Indices(list[k], a) # {}) =>
      \A at \in {Background} \cup {b \in Apps : Indices(list["favorites"], b) # {}} :
        Drops(a, "home", [key |-> "favorites", at |-> at]) # {}
=============================================================================
