---------------------------- MODULE HomeDragProofs ----------------------------
(***************************************************************************)
(* Proofs about HomeDrag, for any applications, any number of slots and    *)
(* any limit: the lists stay sound, and HomeDrag implements HomeShortcuts. *)
(***************************************************************************)
EXTENDS HomeDrag, FiniteSetTheorems, SequenceTheorems, TLAPS

Slots == 1..SlotCount
Favorite(s) == s \in Seq(Apps) /\ Distinct(s) /\ Len(s) <= Limit
Home(s) == s \in [Slots -> Apps \cup {Empty}] /\ Distinct(s)

\* What may be the value of a key.
Sound(k, s) == (k = "favorites" /\ Favorite(s)) \/ (k = "home" /\ Home(s))

\* The applications a list names.
Ids(s) == {a \in Apps : Indices(s, a) # {}}

\* There is room for one more.
Room(k, s) ==
  (k = "favorites" /\ Len(s) < Limit) \/ (k = "home" /\ \E i \in Slots : s[i] = Empty)

Adds(k, a, s, t) == Ids(t) = Ids(s) \cup {a} /\ (a \in Ids(s) \/ Room(k, s))
Removes(a, s, t) == a \in Ids(s) /\ Ids(t) = Ids(s) \ {a}

-----------------------------------------------------------------------------
(* Sequences. *)

LEMMA RemoveIs ==
  ASSUME NEW S, NEW s \in Seq(S), NEW i \in 1..Len(s)
  PROVE  /\ RemoveAt(s, i) \in Seq(S)
         /\ Len(RemoveAt(s, i)) = Len(s) - 1
         /\ \A j \in 1..(Len(s) - 1) :
              RemoveAt(s, i)[j] = IF j < i THEN s[j] ELSE s[j + 1]
<1> DEFINE before == SubSeq(s, 1, i - 1)
           after == SubSeq(s, i + 1, Len(s))
<1>1. before \in Seq(S) /\ Len(before) = i - 1 /\ \A j \in 1..(i - 1) : before[j] = s[j]
  OBVIOUS
<1>2. /\ after \in Seq(S) /\ Len(after) = Len(s) - i
      /\ \A j \in 1..(Len(s) - i) : after[j] = s[i + j]
  OBVIOUS
<1>3. RemoveAt(s, i) = before \o after
  BY DEF RemoveAt
<1> HIDE DEF before, after
<1>4. /\ before \o after \in Seq(S)
      /\ Len(before \o after) = Len(before) + Len(after)
      /\ \A j \in 1..(Len(before) + Len(after)) :
           (before \o after)[j] = IF j <= Len(before) THEN before[j] ELSE after[j - Len(before)]
  BY <1>1, <1>2, ConcatProperties
<1>5. \A j \in 1..(Len(s) - 1) : (before \o after)[j] = IF j < i THEN s[j] ELSE s[j + 1]
  <2> TAKE j \in 1..(Len(s) - 1)
  <2>1. CASE j < i
    BY <1>1, <1>2, <1>4, <2>1
  <2>2. CASE j >= i
    <3>1. (before \o after)[j] = after[j - (i - 1)] /\ j - (i - 1) \in 1..(Len(s) - i)
      BY <1>1, <1>2, <1>4, <2>2
    <3>2. after[j - (i - 1)] = s[i + (j - (i - 1))]
      BY <1>2, <3>1
    <3>3. i + (j - (i - 1)) = j + 1
      OBVIOUS
    <3>4. QED
      BY <2>2, <3>1, <3>2, <3>3
  <2>3. j \in Int /\ i \in Int
    OBVIOUS
  <2>4. j < i \/ j >= i
    BY <2>3
  <2>5. QED
    BY <2>1, <2>2, <2>4
<1>6. QED
  BY <1>1, <1>2, <1>3, <1>4, <1>5

LEMMA InsertIs ==
  ASSUME NEW S, NEW s \in Seq(S), NEW i \in 1..(Len(s) + 1), NEW e \in S
  PROVE  /\ InsertAt(s, i, e) \in Seq(S)
         /\ Len(InsertAt(s, i, e)) = Len(s) + 1
         /\ \A j \in 1..(Len(s) + 1) :
              InsertAt(s, i, e)[j] = IF j < i THEN s[j] ELSE IF j = i THEN e ELSE s[j - 1]
<1> DEFINE before == SubSeq(s, 1, i - 1)
           after == SubSeq(s, i, Len(s))
<1>1. before \in Seq(S) /\ Len(before) = i - 1 /\ \A j \in 1..(i - 1) : before[j] = s[j]
  OBVIOUS
<1>2. /\ after \in Seq(S) /\ Len(after) = Len(s) - i + 1
      /\ \A j \in 1..(Len(s) - i + 1) : after[j] = s[i + j - 1]
  OBVIOUS
<1>3. InsertAt(s, i, e) = (before \o <<e>>) \o after
  BY DEF InsertAt
<1> HIDE DEF before, after
<1>4. /\ before \o <<e>> \in Seq(S) /\ Len(before \o <<e>>) = i
      /\ \A j \in 1..i : (before \o <<e>>)[j] = IF j < i THEN s[j] ELSE e
  BY <1>1
<1> DEFINE upto == before \o <<e>>
<1>6. upto \in Seq(S) /\ Len(upto) = i /\ \A j \in 1..i : upto[j] = IF j < i THEN s[j] ELSE e
  BY <1>4
<1> HIDE DEF upto
<1>5. /\ upto \o after \in Seq(S)
      /\ Len(upto \o after) = Len(upto) + Len(after)
      /\ \A j \in 1..(Len(upto) + Len(after)) :
           (upto \o after)[j] = IF j <= Len(upto) THEN upto[j] ELSE after[j - Len(upto)]
  BY <1>2, <1>6, ConcatProperties
<1>7. \A j \in 1..(Len(s) + 1) :
        (upto \o after)[j] = IF j < i THEN s[j] ELSE IF j = i THEN e ELSE s[j - 1]
  <2> TAKE j \in 1..(Len(s) + 1)
  <2>1. CASE j <= i
    BY <1>2, <1>5, <1>6, <2>1
  <2>2. CASE j > i
    <3>1. (upto \o after)[j] = after[j - i] /\ j - i \in 1..(Len(s) - i + 1)
      BY <1>2, <1>5, <1>6, <2>2
    <3>2. after[j - i] = s[i + (j - i) - 1]
      BY <1>2, <3>1
    <3>3. i + (j - i) - 1 = j - 1
      OBVIOUS
    <3>4. QED
      BY <2>2, <3>1, <3>2, <3>3
  <2>3. j \in Int /\ i \in Int
    OBVIOUS
  <2>4. j <= i \/ j > i
    BY <2>3
  <2>5. QED
    BY <2>1, <2>2, <2>4
<1>8. InsertAt(s, i, e) = upto \o after
  BY <1>3 DEF upto
<1>9. Len(upto \o after) = Len(s) + 1
  BY <1>2, <1>5, <1>6
<1>10. QED
  BY <1>5, <1>7, <1>8, <1>9

\* The two functions that shape the lists keep every other shortcut.
LEMMA RemoveIds ==
  ASSUME NEW s, Favorite(s), NEW a \in Apps, NEW i \in Only(s, a)
  PROVE  /\ Favorite(RemoveAt(s, i)) /\ Removes(a, s, RemoveAt(s, i))
         /\ Len(RemoveAt(s, i)) = Len(s) - 1
<1> DEFINE t == RemoveAt(s, i)
<1>1. s \in Seq(Apps) /\ i \in 1..Len(s) /\ s[i] = a
  BY DEF Favorite, Only, Indices
<1>2. t \in Seq(Apps) /\ Len(t) = Len(s) - 1
  BY <1>1, RemoveIs
<1>3. \A j \in 1..Len(t) : t[j] = IF j < i THEN s[j] ELSE s[j + 1]
  BY <1>1, <1>2, RemoveIs
<1> HIDE DEF t
<1>4. \A j, k \in 1..Len(s) : s[j] = s[k] => j = k
  BY <1>1, IdAssumption DEF Favorite, Distinct
<1>5. Distinct(t)
  BY <1>1, <1>2, <1>3, <1>4 DEF Distinct
<1>6. a \in Ids(s)
  BY <1>1 DEF Ids, Indices
<1>7. Ids(t) = Ids(s) \ {a}
  <2>1. \A b \in Ids(t) : b \in Ids(s) /\ b # a
    <3> TAKE b \in Ids(t)
    <3>1. PICK j \in 1..Len(t) : t[j] = b
      BY <1>2 DEF Ids, Indices
    <3>2. PICK k \in 1..Len(s) : s[k] = b /\ k # i
      BY <1>1, <1>2, <1>3, <3>1
    <3>3. b # a
      BY <1>1, <1>4, <3>2
    <3>4. QED
      BY <1>1, <3>2, <3>3 DEF Ids, Indices
  <2>2. \A b \in Ids(s) : b # a => b \in Ids(t)
    <3> SUFFICES ASSUME NEW b \in Ids(s), b # a PROVE b \in Ids(t)
      OBVIOUS
    <3>1. PICK k \in 1..Len(s) : s[k] = b /\ k # i
      BY <1>1 DEF Ids, Indices
    <3>2. \E j \in 1..Len(t) : t[j] = b
      <4>1. CASE k < i
        BY <1>1, <1>2, <1>3, <3>1, <4>1
      <4>2. CASE k > i
        <5>1. k - 1 \in 1..Len(t) /\ t[k - 1] = b
          BY <1>1, <1>2, <1>3, <3>1, <4>2
        <5>2. QED
          BY <5>1
      <4>3. QED
        BY <1>1, <3>1, <4>1, <4>2
    <3>3. QED
      BY <1>2, <3>2 DEF Ids, Indices
  <2>3. QED
    BY <2>1, <2>2
<1>8. QED
  BY <1>1, <1>2, <1>5, <1>6, <1>7, SizeAssumption DEF t, Favorite, Removes

LEMMA InsertIds ==
  ASSUME NEW s, Favorite(s), NEW a \in Apps, a \notin Ids(s), Len(s) < Limit,
         NEW i \in 1..(Len(s) + 1)
  PROVE  /\ Favorite(InsertAt(s, i, a)) /\ Ids(InsertAt(s, i, a)) = Ids(s) \cup {a}
<1> DEFINE t == InsertAt(s, i, a)
<1>1. s \in Seq(Apps) /\ \A j \in 1..Len(s) : s[j] # a
  BY DEF Favorite, Ids, Indices
<1>2. t \in Seq(Apps) /\ Len(t) = Len(s) + 1
  BY <1>1, InsertIs
<1>8. \A j \in 1..(Len(s) + 1) : t[j] = IF j < i THEN s[j] ELSE IF j = i THEN a ELSE s[j - 1]
  BY <1>1, InsertIs
<1>3. \A j \in 1..Len(t) : t[j] = IF j < i THEN s[j] ELSE IF j = i THEN a ELSE s[j - 1]
  BY <1>2, <1>8
<1> HIDE DEF t
<1>4. \A j, k \in 1..Len(s) : s[j] = s[k] => j = k
  BY <1>1, IdAssumption DEF Favorite, Distinct
<1>5. Distinct(t)
  <2> SUFFICES ASSUME NEW j \in 1..Len(t), NEW k \in 1..Len(t), t[j] = t[k] PROVE j = k
    BY <1>2 DEF Distinct
  <2> DEFINE was(n) == IF n < i THEN n ELSE n - 1
  <2>9. i \in Int /\ j \in Int /\ k \in Int /\ Len(s) \in Nat
    BY <1>1
  <2>8. \A n \in 1..Len(t) : n # i => was(n) \in 1..Len(s) /\ t[n] = s[was(n)]
    BY <1>1, <1>2, <1>3
  <2>7. t[i] = a
    BY <1>1, <1>2, <1>3
  <2>1. CASE j = i \/ k = i
    BY <1>1, <2>1, <2>7, <2>8
  <2>2. CASE j # i /\ k # i
    <3>1. was(j) = was(k)
      BY <1>4, <2>2, <2>8
    <3>2. QED
      BY <2>2, <2>9, <3>1
  <2>3. QED
    BY <2>1, <2>2
<1>6. Ids(t) = Ids(s) \cup {a}
  <2>1. \A b \in Ids(t) : b \in Ids(s) \cup {a}
    <3> TAKE b \in Ids(t)
    <3>1. PICK j \in 1..Len(t) : t[j] = b
      BY <1>2 DEF Ids, Indices
    <3>2. b = a \/ \E k \in 1..Len(s) : s[k] = b
      <4>1. CASE j < i
        <5>1. j \in 1..Len(s) /\ s[j] = b
          BY <1>1, <1>2, <1>3, <3>1, <4>1
        <5>2. QED
          BY <5>1
      <4>2. CASE j = i
        BY <1>1, <1>2, <1>3, <3>1, <4>2
      <4>3. CASE j > i
        <5>1. j - 1 \in 1..Len(s) /\ s[j - 1] = b
          BY <1>1, <1>2, <1>3, <3>1, <4>3
        <5>2. QED
          BY <5>1
      <4>4. QED
        BY <1>1, <1>2, <3>1, <4>1, <4>2, <4>3
    <3>3. QED
      BY <1>1, <3>2 DEF Ids, Indices
  <2>2. a \in Ids(t)
    <3>1. i \in DOMAIN t /\ t[i] = a
      BY <1>1, <1>2, <1>3
    <3>2. QED
      BY <3>1 DEF Ids, Indices
  <2>3. \A b \in Ids(s) : b \in Ids(t)
    <3> TAKE b \in Ids(s)
    <3>1. PICK k \in 1..Len(s) : s[k] = b
      BY <1>1 DEF Ids, Indices
    <3>2. CASE k < i
      BY <1>1, <1>2, <1>3, <3>1, <3>2 DEF Ids, Indices
    <3>3. CASE k >= i
      <4>1. k + 1 \in 1..Len(t) /\ t[k + 1] = b
        BY <1>1, <1>2, <1>3, <3>1, <3>3
      <4>2. QED
        BY <1>2, <4>1 DEF Ids, Indices
    <3>4. QED
      BY <1>1, <3>1, <3>2, <3>3, i \in Int, k \in Int
  <2>4. QED
    BY <2>1, <2>2, <2>3
<1>7. QED
  BY <1>2, <1>5, <1>6, SizeAssumption DEF t, Favorite

-----------------------------------------------------------------------------
(* The functions of lmi-home-order.h. *)

LEMMA MoveKeeps ==
  ASSUME NEW s, Favorite(s), NEW a \in Apps, NEW target, NEW t \in FavoritesMove(s, a, target)
  PROVE  Favorite(t) /\ Ids(t) = Ids(s)
<1>1. PICK from \in Only(s, a), to \in Only(s, target) \ Only(s, a) :
        t = InsertAt(RemoveAt(s, from), to, a)
  BY DEF FavoritesMove
<1> DEFINE r == RemoveAt(s, from)
<1>2. Favorite(r) /\ Removes(a, s, r) /\ Len(r) = Len(s) - 1
  BY <1>1, RemoveIds
<1>3. to \in 1..Len(s) /\ Len(s) \in Nat /\ Len(s) <= Limit
  BY <1>1 DEF Only, Favorite
<1>4. to \in 1..(Len(r) + 1) /\ Len(r) < Limit
  BY <1>2, <1>3, SizeAssumption
<1>5. a \notin Ids(r)
  BY <1>2 DEF Removes
<1> HIDE DEF r
<1>6. Favorite(InsertAt(r, to, a)) /\ Ids(InsertAt(r, to, a)) = Ids(r) \cup {a}
  BY <1>2, <1>4, <1>5, InsertIds
<1>7. Ids(r) \cup {a} = Ids(s)
  BY <1>2 DEF Removes
<1>8. QED
  BY <1>1, <1>6, <1>7 DEF r

LEMMA AppendIsInsert ==
  ASSUME NEW S, NEW s \in Seq(S), NEW e \in S
  PROVE  Append(s, e) = InsertAt(s, Len(s) + 1, e)
<1> DEFINE n == Len(s) + 1
           t == InsertAt(s, n, e)
<1>9. n \in 1..(Len(s) + 1)
  OBVIOUS
<1> HIDE DEF n
<1>1. /\ t \in Seq(S) /\ Len(t) = Len(s) + 1
      /\ \A j \in 1..(Len(s) + 1) : t[j] = IF j < n THEN s[j] ELSE IF j = n THEN e ELSE s[j - 1]
  BY <1>9, InsertIs
<1> HIDE DEF t
<1>2. t \in Seq(S) /\ Len(t) = Len(s) + 1
  BY <1>1
<1>3. \A j \in 1..(Len(s) + 1) : t[j] = IF j <= Len(s) THEN s[j] ELSE e
  BY <1>1 DEF n
<1>4. /\ Append(s, e) \in Seq(S) /\ Len(Append(s, e)) = Len(s) + 1
      /\ \A j \in 1..(Len(s) + 1) : Append(s, e)[j] = IF j <= Len(s) THEN s[j] ELSE e
  BY AppendProperties
<1> DEFINE u == Append(s, e)
<1> HIDE DEF u
<1>6. u \in Seq(S) /\ Len(u) = Len(t) /\ \A j \in 1..Len(u) : u[j] = t[j]
  BY <1>2, <1>3, <1>4 DEF u
<1>7. u = t
  BY <1>2, <1>6, SeqEqual
<1>8. QED
  BY <1>7 DEF n, t, u

LEMMA FavoritesPlaceAdds ==
  ASSUME NEW s, Favorite(s), NEW a \in Apps, NEW target, NEW t \in FavoritesPlace(s, a, target)
  PROVE  Favorite(t) /\ Adds("favorites", a, s, t)
<1>1. CASE Indices(s, a) # {}
  <2>1. \E place : t \in FavoritesMove(s, a, place)
    BY <1>1 DEF FavoritesPlace
  <2>2. Favorite(t) /\ Ids(t) = Ids(s)
    BY <2>1, MoveKeeps
  <2>3. a \in Ids(s)
    BY <1>1 DEF Ids
  <2>4. QED
    BY <2>2, <2>3 DEF Adds
<1>2. CASE Indices(s, a) = {}
  <2>1. ~(Len(s) >= Limit)
    BY <1>2 DEF FavoritesPlace
  <2>2. Len(s) \in Nat /\ Limit \in Nat
    BY SizeAssumption DEF Favorite
  <2>3. Len(s) < Limit
    BY <2>1, <2>2
  <2>4. \E i \in 1..(Len(s) + 1) : t = InsertAt(s, i, a)
    <3>1. CASE target = Background
      <4>1. t = Append(s, a)
        BY <1>2, <2>1, <3>1 DEF FavoritesPlace
      <4>2. t = InsertAt(s, Len(s) + 1, a)
        BY <4>1, AppendIsInsert DEF Favorite
      <4>3. QED
        BY <2>2, <4>2
    <3>2. CASE target # Background
      <4>1. PICK i \in Only(s, target) : t = InsertAt(s, i, a)
        BY <1>2, <2>1, <3>2 DEF FavoritesPlace
      <4>2. i \in 1..(Len(s) + 1)
        BY <2>2, <4>1 DEF Only, Favorite
      <4>3. QED
        BY <4>1, <4>2
    <3>3. QED
      BY <3>1, <3>2
  <2>5. a \notin Ids(s)
    BY <1>2 DEF Ids
  <2>6. QED
    BY <2>3, <2>4, <2>5, InsertIds DEF Adds, Room
<1>3. QED
  BY <1>1, <1>2

LEMMA HomePlaceAdds ==
  ASSUME NEW s, Home(s), NEW a \in Apps, NEW slot \in Slots, NEW t \in HomePlace(s, a, slot)
  PROVE  Home(t) /\ Adds("home", a, s, t)
<1> USE IdAssumption
<1>1. s \in [Slots -> Apps \cup {Empty}] /\ DOMAIN s = Slots
  BY DEF Home
<1>2. \A i, j \in Slots : s[i] = s[j] /\ s[i] # Empty => i = j
  BY <1>1 DEF Home, Distinct
<1>3. CASE Indices(s, a) # {}
  <2>1. PICK from \in Only(s, a) \ {slot} : t = [s EXCEPT ![from] = s[slot], ![slot] = a]
    BY <1>3 DEF HomePlace
  <2>2. from \in Slots /\ s[from] = a /\ from # slot
    BY <1>1, <2>1 DEF Only, Indices
  <2>3. /\ t \in [Slots -> Apps \cup {Empty}] /\ t[from] = s[slot] /\ t[slot] = a
        /\ \A i \in Slots : i # from /\ i # slot => t[i] = s[i]
    BY <1>1, <2>1, <2>2
  <2>4. Distinct(t)
    BY <1>2, <2>2, <2>3 DEF Distinct
  <2>5. a \in Ids(s)
    BY <1>3 DEF Ids
  <2>6. \A b \in Apps : (\E i \in Slots : s[i] = b) <=> (\E i \in Slots : t[i] = b)
    BY <1>1, <2>2, <2>3
  <2>7. Ids(t) = Ids(s)
    BY <1>1, <2>3, <2>6 DEF Ids, Indices
  <2>8. QED
    BY <2>3, <2>4, <2>5, <2>7 DEF Home, Adds
<1>4. CASE Indices(s, a) = {} /\ s[slot] = Empty
  <2>1. t = [s EXCEPT ![slot] = a]
    BY <1>4 DEF HomePlace
  <2>2. /\ t \in [Slots -> Apps \cup {Empty}] /\ t[slot] = a
        /\ \A i \in Slots : i # slot => t[i] = s[i]
    BY <1>1, <2>1
  <2>3. \A i \in Slots : s[i] # a
    BY <1>1, <1>4 DEF Indices
  <2>4. Distinct(t)
    BY <1>2, <2>2, <2>3 DEF Distinct
  <2>5. \A b \in Apps : (\E i \in Slots : t[i] = b) <=> b = a \/ (\E i \in Slots : s[i] = b)
    BY <1>1, <1>4, <2>2
  <2>6. Ids(t) = Ids(s) \cup {a}
    BY <1>1, <2>2, <2>5 DEF Ids, Indices
  <2>7. Room("home", s)
    BY <1>4 DEF Room
  <2>8. QED
    BY <2>2, <2>4, <2>6, <2>7 DEF Home, Adds
<1>5. CASE Indices(s, a) = {} /\ s[slot] # Empty
  <2>1. PICK empty \in FirstEmpty(s) : t = [s EXCEPT ![slot] = a, ![empty] = s[slot]]
    BY <1>5 DEF HomePlace
  <2>2. empty \in Slots /\ s[empty] = Empty /\ empty # slot
    BY <1>1, <1>5, <2>1 DEF FirstEmpty, Indices
  <2>3. /\ t \in [Slots -> Apps \cup {Empty}] /\ t[slot] = a /\ t[empty] = s[slot]
        /\ \A i \in Slots : i # slot /\ i # empty => t[i] = s[i]
    BY <1>1, <2>1, <2>2
  <2>4. \A i \in Slots : s[i] # a
    BY <1>1, <1>5 DEF Indices
  <2>5. Distinct(t)
    BY <1>2, <1>5, <2>2, <2>3, <2>4 DEF Distinct
  <2>6. \A b \in Apps : (\E i \in Slots : t[i] = b) <=> b = a \/ (\E i \in Slots : s[i] = b)
    BY <1>1, <2>2, <2>3
  <2>7. Ids(t) = Ids(s) \cup {a}
    BY <1>1, <2>3, <2>6 DEF Ids, Indices
  <2>8. Room("home", s)
    BY <2>2 DEF Room
  <2>9. QED
    BY <2>3, <2>5, <2>7, <2>8 DEF Home, Adds
<1>6. QED
  BY <1>3, <1>4, <1>5

\* Emptying a slot removes the shortcut in it.
LEMMA EmptiedRemoves ==
  ASSUME NEW s, Home(s), NEW slot \in Slots, s[slot] # Empty
  PROVE  /\ Home([s EXCEPT ![slot] = Empty])
         /\ s[slot] \in Apps /\ Removes(s[slot], s, [s EXCEPT ![slot] = Empty])
<1> USE IdAssumption
<1> DEFINE t == [s EXCEPT ![slot] = Empty]
<1>1. s \in [Slots -> Apps \cup {Empty}] /\ DOMAIN s = Slots
  BY DEF Home
<1>2. \A i, j \in Slots : s[i] = s[j] /\ s[i] # Empty => i = j
  BY <1>1 DEF Home, Distinct
<1>3. /\ t \in [Slots -> Apps \cup {Empty}] /\ t[slot] = Empty
      /\ \A i \in Slots : i # slot => t[i] = s[i]
  BY <1>1
<1> HIDE DEF t
<1>4. Distinct(t)
  BY <1>2, <1>3 DEF Distinct
<1>5. s[slot] \in Apps
  BY <1>1
<1>6. \A b \in Apps : (\E i \in Slots : t[i] = b) <=> b # s[slot] /\ (\E i \in Slots : s[i] = b)
  BY <1>1, <1>2, <1>3, <1>5
<1>7. Ids(t) = Ids(s) \ {s[slot]}
  BY <1>1, <1>3, <1>6 DEF Ids, Indices
<1>8. s[slot] \in Ids(s)
  BY <1>1, <1>5 DEF Ids, Indices
<1>9. QED
  BY <1>3, <1>4, <1>5, <1>7, <1>8 DEF t, Home, Removes

LEMMA ShortcutRemoveRemoves ==
  ASSUME NEW key \in Keys, NEW s, Sound(key, s), NEW a \in Apps,
         NEW t \in ShortcutRemove(s, a, key)
  PROVE  Sound(key, t) /\ Removes(a, s, t)
<1>1. CASE key = "home"
  <2>1. PICK i \in Only(s, a) : t = [s EXCEPT ![i] = Empty]
    BY <1>1 DEF ShortcutRemove
  <2>2. Home(s)
    BY <1>1 DEF Sound
  <2>3. i \in Slots /\ s[i] = a /\ a # Empty
    BY <2>1, <2>2, IdAssumption DEF Only, Indices, Home
  <2>4. QED
    BY <1>1, <2>1, <2>2, <2>3, EmptiedRemoves DEF Sound
<1>2. CASE key = "favorites"
  <2>1. PICK i \in Only(s, a) : t = RemoveAt(s, i)
    BY <1>2 DEF ShortcutRemove
  <2>2. Favorite(s)
    BY <1>2 DEF Sound
  <2>3. QED
    BY <1>2, <2>1, <2>2, RemoveIds DEF Sound
<1>3. QED
  BY <1>1, <1>2 DEF Keys

-----------------------------------------------------------------------------
(* The drops that wait. *)

Lists == Seq(Apps) \cup [Slots -> Apps \cup {Empty}]

\* One gesture: it adds a shortcut, removes one, or moves it to the other key
\* (where it may be already).
OneKey(a, k, d) ==
  /\ DOMAIN d.before = {k} /\ DOMAIN d.after = {k}
  /\ Adds(k, a, d.before[k], d.after[k]) \/ Removes(a, d.before[k], d.after[k])

BothKeys(a, k, o, d) ==
  /\ k # o /\ DOMAIN d.before = Keys /\ DOMAIN d.after = Keys
  /\ Adds(k, a, d.before[k], d.after[k]) \/ d.after[k] = d.before[k]
  /\ Removes(a, d.before[o], d.after[o])

Gesture(d) ==
  \E a \in Apps :
    \/ \E k \in Keys : OneKey(a, k, d)
    \/ \E k, o \in Keys : BothKeys(a, k, o, d)

AnyDrops == UNION {[before : [ks -> Lists], after : [ks -> Lists]] : ks \in SUBSET Keys}
GoodDrops == {d \in AnyDrops : (\A k \in DOMAIN d.after : Sound(k, d.after[k])) /\ Gesture(d)}

DragInv ==
  /\ list = [k \in Keys |-> list[k]]
  /\ \A k \in Keys : Sound(k, list[k])
  /\ idle \in Seq(GoodDrops)
  /\ others \in Nat

LEMMA SoundIsList == ASSUME NEW k, NEW s, Sound(k, s) PROVE s \in Lists /\ Distinct(s)
BY DEF Sound, Favorite, Home, Lists

\* A drop of sound lists that is one gesture may wait.
LEMMA QueueGood ==
  ASSUME DragInv, NEW ks \in SUBSET Keys, NEW after, DOMAIN after = ks,
         after = [k \in ks |-> after[k]],
         \A k \in ks : Sound(k, after[k]), Gesture(Drop(ks, after)), Queue(Drop(ks, after))
  PROVE  DragInv'
<1> DEFINE before == [k \in ks |-> list[k]]
           d == Drop(ks, after)
<1>1. before \in [ks -> Lists]
  BY SoundIsList DEF DragInv
<1>2. after \in [ks -> Lists]
  BY SoundIsList
<1>3. d = [before |-> before, after |-> after]
  BY DEF Drop
<1> HIDE DEF before
<1>4. d \in [before : [ks -> Lists], after : [ks -> Lists]] /\ d.after = after
  BY <1>1, <1>2, <1>3
<1>5. d \in AnyDrops
  BY <1>4 DEF AnyDrops
<1>6. d \in GoodDrops
  BY <1>4, <1>5 DEF GoodDrops
<1>7. idle' = Append(idle, d) /\ UNCHANGED <<list, others>>
  BY DEF Queue
<1> HIDE DEF d
<1>8. idle' \in Seq(GoodDrops)
  BY <1>6, <1>7 DEF DragInv
<1>9. QED
  BY <1>7, <1>8 DEF DragInv

LEMMA HomeRemoveGood == ASSUME DragInv, HomeRemove PROVE DragInv'
<1>1. PICK slot \in 1..SlotCount :
        /\ list["home"][slot] # Empty
        /\ Queue(Drop({"home"}, [k \in {"home"} |-> [list["home"] EXCEPT ![slot] = Empty]]))
  BY DEF HomeRemove
<1> DEFINE t == [list["home"] EXCEPT ![slot] = Empty]
           after == [k \in {"home"} |-> t]
           d == Drop({"home"}, after)
<1>2. Home(list["home"])
  BY DEF DragInv, Keys, Sound
<1>3. Home(t) /\ list["home"][slot] \in Apps /\ Removes(list["home"][slot], list["home"], t)
  BY <1>1, <1>2, EmptiedRemoves DEF Slots
<1> HIDE DEF t
<1>4. /\ DOMAIN d.before = {"home"} /\ DOMAIN d.after = {"home"}
      /\ d.before["home"] = list["home"] /\ d.after["home"] = t
  BY DEF Drop
<1>5. OneKey(list["home"][slot], "home", d)
  BY <1>3, <1>4 DEF OneKey
<1>6. Gesture(d)
  BY <1>3, <1>5 DEF Gesture, Keys
<1>7. \A k \in {"home"} : Sound(k, after[k])
  BY <1>3 DEF Sound
<1>8. Queue(d)
  BY <1>1 DEF t
<1>9. {"home"} \in SUBSET Keys /\ DOMAIN after = {"home"} /\ after = [k \in {"home"} |-> after[k]]
  BY DEF Keys
<1> HIDE DEF after
<1>10. QED
  BY <1>6, <1>7, <1>8, <1>9, QueueGood

LEMMA PlacedAdds ==
  ASSUME DragInv, NEW a \in Apps, NEW target \in Targets, NEW t \in Placed(a, target)
  PROVE  /\ target.key \in Keys /\ Sound(target.key, t)
         /\ Adds(target.key, a, list[target.key], t)
<1>1. CASE target.key = "favorites"
  <2>1. t \in FavoritesPlace(list["favorites"], a, target.at)
    BY <1>1 DEF Placed
  <2>2. Favorite(list["favorites"])
    BY DEF DragInv, Keys, Sound
  <2>3. Favorite(t) /\ Adds("favorites", a, list["favorites"], t)
    BY <2>1, <2>2, FavoritesPlaceAdds
  <2>4. QED
    BY <1>1, <2>3 DEF Sound, Keys
<1>2. CASE target.key = "home" /\ target.at \in Slots
  <2>1. t \in HomePlace(list["home"], a, target.at)
    BY <1>2 DEF Placed
  <2>2. Home(list["home"])
    BY DEF DragInv, Keys, Sound
  <2>3. Home(t) /\ Adds("home", a, list["home"], t)
    BY <1>2, <2>1, <2>2, HomePlaceAdds
  <2>4. QED
    BY <1>2, <2>3 DEF Sound, Keys
<1>3. QED
  BY <1>1, <1>2 DEF Targets, Slots

LEMMA DragReceivedGood == ASSUME DragInv, DragReceived PROVE DragInv'
<1>1. PICK a \in Apps, origin \in Keys \cup {Drawer}, target \in Targets :
        \E drop \in Drops(a, origin, target) : Queue(drop)
  BY DEF DragReceived
<1>2. PICK drop \in Drops(a, origin, target) : Queue(drop)
  BY <1>1
<1> DEFINE key == target.key
<1>3. key \in Keys
  BY DEF Targets, Keys
<1>4. CASE origin \in {Drawer, key}
  <2>1. PICK t \in Placed(a, target) : drop = Drop({key}, [k \in {key} |-> t])
    BY <1>2, <1>4 DEF Drops
  <2>2. Sound(key, t) /\ Adds(key, a, list[key], t)
    BY PlacedAdds
  <2> DEFINE after == [k \in {key} |-> t]
  <2>3. /\ DOMAIN drop.before = {key} /\ DOMAIN drop.after = {key}
        /\ drop.before[key] = list[key] /\ drop.after[key] = t
    BY <2>1 DEF Drop
  <2>4. Gesture(drop)
    BY <1>3, <2>2, <2>3 DEF Gesture, OneKey
  <2>5. /\ {key} \in SUBSET Keys /\ DOMAIN after = {key} /\ after = [k \in {key} |-> after[k]]
        /\ \A k \in {key} : Sound(k, after[k])
    BY <1>3, <2>2
  <2>6. drop = Drop({key}, after)
    BY <2>1
  <2> HIDE DEF after, key
  <2>7. QED
    BY <1>2, <2>4, <2>5, <2>6, QueueGood
<1>5. CASE origin \notin {Drawer, key}
  <2>1. PICK t \in Transferred(a, target), rest \in ShortcutRemove(list[origin], a, origin) :
          drop = Drop(Keys, [k \in Keys |-> IF k = key THEN t ELSE rest])
    <3>1. drop \in Transfers(a, origin, target)
      BY <1>2, <1>5 DEF Drops
    <3>2. QED
      BY <3>1 DEF Transfers
  <2>2. origin \in Keys /\ origin # key
    BY <1>5
  <2>3. Sound(key, t) /\ (Adds(key, a, list[key], t) \/ t = list[key])
    <3>1. CASE t \in Placed(a, target)
      BY <3>1, PlacedAdds
    <3>2. CASE t \notin Placed(a, target)
      BY <1>3, <2>1, <3>2 DEF Transferred, DragInv
    <3>3. QED
      BY <3>1, <3>2
  <2>4. Sound(origin, list[origin])
    BY <2>2 DEF DragInv
  <2>5. Sound(origin, rest) /\ Removes(a, list[origin], rest)
    BY <2>1, <2>2, <2>4, ShortcutRemoveRemoves
  <2> DEFINE after == [k \in Keys |-> IF k = key THEN t ELSE rest]
  <2>6. /\ DOMAIN drop.before = Keys /\ DOMAIN drop.after = Keys
        /\ \A k \in Keys : drop.before[k] = list[k] /\ drop.after[k] = after[k]
    BY <2>1 DEF Drop
  <2>7. after[key] = t /\ after[origin] = rest /\ \A k \in Keys : k = key \/ k = origin
    BY <1>3, <2>2 DEF Keys
  <2>8. BothKeys(a, key, origin, drop)
    BY <1>3, <2>2, <2>3, <2>5, <2>6, <2>7 DEF BothKeys
  <2>9. Gesture(drop)
    BY <1>3, <2>2, <2>8 DEF Gesture
  <2>10. /\ DOMAIN after = Keys /\ after = [k \in Keys |-> after[k]]
         /\ \A k \in Keys : Sound(k, after[k])
    BY <2>3, <2>5, <2>7
  <2>11. drop = Drop(Keys, after)
    BY <2>1
  <2> HIDE DEF after, key
  <2>12. QED
    BY <1>2, <2>9, <2>10, <2>11, QueueGood
<1>6. QED
  BY <1>4, <1>5

-----------------------------------------------------------------------------
(* The steps that write the lists. *)

\* One shortcut came, went or changed key, and nothing else.
Moved ==
  \E a \in Apps :
    \/ \E k \in Keys :
         /\ Adds(k, a, list[k], list'[k]) \/ Removes(a, list[k], list'[k])
         /\ \A o \in Keys : o # k => list'[o] = list[o]
    \/ \E k, o \in Keys :
         /\ k # o
         /\ Adds(k, a, list[k], list'[k]) \/ list'[k] = list[k]
         /\ Removes(a, list[o], list'[o])

LEMMA DropApplyGood ==
  ASSUME DragInv, DropApply
  PROVE  DragInv' /\ UNCHANGED others /\ (Moved \/ UNCHANGED list)
<1> DEFINE d == Head(idle)
<1>1. idle \in Seq(GoodDrops) /\ idle # <<>> /\ idle' = Tail(idle) /\ UNCHANGED others
  BY DEF DragInv, DropApply
<1>2. d \in GoodDrops /\ idle' \in Seq(GoodDrops)
  BY <1>1, HeadTailProperties
<1>3. Gesture(d) /\ \A k \in DOMAIN d.after : Sound(k, d.after[k])
  BY <1>2 DEF GoodDrops
<1>4. CASE UNCHANGED list
  BY <1>1, <1>2, <1>4 DEF DragInv
<1>5. CASE Current(d) /\ Commit(d)
  <2> HIDE DEF d
  <2>1. /\ list' = [k \in Keys |-> IF k \in DOMAIN d.after THEN d.after[k] ELSE list[k]]
        /\ \A k \in DOMAIN d.before : list[k] = d.before[k]
    BY <1>5 DEF Current, Commit
  <2>2. \A k \in Keys : list'[k] = IF k \in DOMAIN d.after THEN d.after[k] ELSE list[k]
    BY <2>1
  <2>3. list' = [k \in Keys |-> list'[k]]
    BY <2>1
  <2>4. \A k \in Keys : Sound(k, list'[k])
    BY <1>3, <2>2 DEF DragInv
  <2>5. DragInv'
    BY <1>1, <1>2, <2>3, <2>4 DEF DragInv, Sound, Favorite, Home
  <2>6. PICK a \in Apps : (\E k \in Keys : OneKey(a, k, d)) \/ (\E k, o \in Keys : BothKeys(a, k, o, d))
    BY <1>3 DEF Gesture
  <2>7. CASE \E k \in Keys : OneKey(a, k, d)
    <3>1. PICK k \in Keys : OneKey(a, k, d)
      BY <2>7
    <3>2. list[k] = d.before[k] /\ list'[k] = d.after[k]
      BY <2>1, <2>2, <3>1 DEF OneKey
    <3>3. \A o \in Keys : o # k => list'[o] = list[o]
      BY <2>2, <3>1 DEF OneKey
    <3>4. Adds(k, a, list[k], list'[k]) \/ Removes(a, list[k], list'[k])
      BY <3>1, <3>2 DEF OneKey
    <3>5. Moved
      BY <3>3, <3>4 DEF Moved
    <3>6. QED
      BY <1>1, <2>5, <3>5
  <2>8. CASE \E k, o \in Keys : BothKeys(a, k, o, d)
    <3>1. PICK k \in Keys, o \in Keys : BothKeys(a, k, o, d)
      BY <2>8
    <3>2. /\ list[k] = d.before[k] /\ list'[k] = d.after[k]
          /\ list[o] = d.before[o] /\ list'[o] = d.after[o]
      BY <2>1, <2>2, <3>1 DEF BothKeys
    <3>3. /\ k # o /\ (Adds(k, a, list[k], list'[k]) \/ list'[k] = list[k])
          /\ Removes(a, list[o], list'[o])
      BY <3>1, <3>2 DEF BothKeys
    <3>4. Moved
      BY <3>3 DEF Moved
    <3>5. QED
      BY <1>1, <2>5, <3>4
  <2>9. QED
    BY <2>6, <2>7, <2>8
<1>6. QED
  BY <1>4, <1>5 DEF DropApply

LEMMA FavoriteAddGood ==
  ASSUME DragInv, FavoriteAdd
  PROVE  DragInv' /\ UNCHANGED others /\ Moved
<1>1. PICK a \in Apps :
        /\ Indices(list["favorites"], a) = {} /\ Len(list["favorites"]) < Limit
        /\ list' = [list EXCEPT !["favorites"] = Append(@, a)]
        /\ UNCHANGED <<idle, others>>
  BY DEF FavoriteAdd
<1> DEFINE s == list["favorites"]
<1>2. Favorite(s) /\ Len(s) \in Nat
  BY DEF DragInv, Keys, Sound, Favorite
<1>3. Append(s, a) = InsertAt(s, Len(s) + 1, a)
  BY <1>2, AppendIsInsert DEF Favorite
<1>4. a \notin Ids(s)
  BY <1>1 DEF Ids
<1>5. Favorite(Append(s, a)) /\ Ids(Append(s, a)) = Ids(s) \cup {a}
  <2>1. Len(s) + 1 \in 1..(Len(s) + 1)
    BY <1>2
  <2>2. QED
    BY <1>1, <1>2, <1>3, <1>4, <2>1, InsertIds
<1>6. /\ list'["favorites"] = Append(s, a) /\ list' = [k \in Keys |-> list'[k]]
      /\ \A k \in Keys : k # "favorites" => list'[k] = list[k]
  BY <1>1 DEF DragInv, Keys
<1>7. \A k \in Keys : Sound(k, list'[k])
  BY <1>5, <1>6 DEF DragInv, Sound
<1>8. DragInv'
  BY <1>1, <1>6, <1>7 DEF DragInv, Sound, Favorite, Home
<1>9. Adds("favorites", a, s, list'["favorites"])
  BY <1>1, <1>5, <1>6 DEF Adds, Room
<1>10. Moved
  BY <1>6, <1>9 DEF Moved, Keys
<1>11. QED
  BY <1>1, <1>8, <1>10

LEMMA FavoriteRemoveGood ==
  ASSUME DragInv, FavoriteRemove
  PROVE  DragInv' /\ UNCHANGED others /\ Moved
<1>9. PICK a \in Apps :
        /\ \E t \in ShortcutRemove(list["favorites"], a, "favorites") :
             list' = [list EXCEPT !["favorites"] = t]
        /\ UNCHANGED <<idle, others>>
  BY DEF FavoriteRemove
<1>1. PICK t \in ShortcutRemove(list["favorites"], a, "favorites") :
        list' = [list EXCEPT !["favorites"] = t] /\ UNCHANGED <<idle, others>>
  BY <1>9
<1>2. Sound("favorites", list["favorites"]) /\ "favorites" \in Keys
  BY DEF DragInv, Keys
<1>3. Sound("favorites", t) /\ Removes(a, list["favorites"], t)
  BY <1>1, <1>2, ShortcutRemoveRemoves
<1>4. /\ list'["favorites"] = t /\ list' = [k \in Keys |-> list'[k]]
      /\ \A k \in Keys : k # "favorites" => list'[k] = list[k]
  BY <1>1 DEF DragInv, Keys
<1>5. \A k \in Keys : Sound(k, list'[k])
  BY <1>3, <1>4 DEF DragInv
<1>6. DragInv'
  BY <1>1, <1>4, <1>5 DEF DragInv, Sound, Favorite, Home
<1>7. Moved
  BY <1>2, <1>3, <1>4 DEF Moved
<1>8. QED
  BY <1>1, <1>6, <1>7

LEMMA FavoriteListsSound == ASSUME NEW s \in FavoriteLists PROVE Favorite(s)
<1>1. s \in BoundedSeq(Apps, Limit) /\ Distinct(s)
  BY DEF FavoriteLists
<1>2. \E n \in 0..Limit : s \in [1..n -> Apps]
  BY <1>1 DEF BoundedSeq, SeqOf
<1>3. s \in Seq(Apps) /\ Len(s) <= Limit
  BY <1>2, SizeAssumption
<1>4. QED
  BY <1>1, <1>3 DEF Favorite

LEMMA OtherWritesGood ==
  ASSUME DragInv, OtherWrites
  PROVE  DragInv' /\ others' = others + 1
<1>1. others' = others + 1 /\ idle' = idle
  BY DEF OtherWrites
<1>2. \E k \in Keys : \E s : Sound(k, s) /\ list' = [list EXCEPT ![k] = s]
  <2>1. CASE \E s \in FavoriteLists : list' = [list EXCEPT !["favorites"] = s]
    BY <2>1, FavoriteListsSound DEF Keys, Sound
  <2>2. CASE \E s \in HomeLists : list' = [list EXCEPT !["home"] = s]
    BY <2>2 DEF Keys, Sound, HomeLists, Home, Slots
  <2>3. QED
    BY <2>1, <2>2 DEF OtherWrites
<1>3. PICK k \in Keys : \E s : Sound(k, s) /\ list' = [list EXCEPT ![k] = s]
  BY <1>2
<1>4. PICK s : Sound(k, s) /\ list' = [list EXCEPT ![k] = s]
  BY <1>3
<1>5. list' = [i \in Keys |-> list'[i]] /\ \A i \in Keys : list'[i] = IF i = k THEN s ELSE list[i]
  BY <1>4 DEF DragInv
<1>6. \A i \in Keys : Sound(i, list'[i])
  BY <1>4, <1>5 DEF DragInv
<1>7. QED
  BY <1>1, <1>5, <1>6 DEF DragInv, Sound, Favorite, Home

-----------------------------------------------------------------------------
(* The lists are sound. *)

LEMMA InitGood == ASSUME Init PROVE DragInv
<1>1. PICK s \in FavoriteLists :
        list = [k \in Keys |-> IF k = "favorites" THEN s ELSE [i \in 1..SlotCount |-> Empty]]
  BY DEF Init
<1>2. Favorite(s)
  BY FavoriteListsSound
<1>3. Home([i \in 1..SlotCount |-> Empty])
  BY DEF Home, Slots, Distinct
<1>4. list = [k \in Keys |-> list[k]]
  BY <1>1
<1>5. Sound("favorites", list["favorites"]) /\ Sound("home", list["home"])
  BY <1>1, <1>2, <1>3 DEF Sound, Keys
<1>6. idle \in Seq(GoodDrops) /\ others \in Nat
  BY DEF Init
<1>7. QED
  BY <1>4, <1>5, <1>6 DEF DragInv, Keys

LEMMA NextGood == ASSUME DragInv, [Next]_vars PROVE DragInv'
<1>1. CASE Next
  BY <1>1, DragReceivedGood, HomeRemoveGood, DropApplyGood, FavoriteAddGood,
     FavoriteRemoveGood, OtherWritesGood DEF Next
<1>2. CASE UNCHANGED vars
  BY <1>2 DEF vars, DragInv, Sound, Favorite, Home
<1>3. QED
  BY <1>1, <1>2

\* The dock and the home keep lists without duplicates, of at most the limit and
\* of all the slots, and so does every drop that waits for its idle callback
\* (lmi_home_drag_received, lmi_home_drop_apply), for any number of applications,
\* slots and waiting drops and whatever the other writers do.
THEOREM ShortcutsSoundHolds == Spec => []ShortcutsSound
<1>1. Spec => []DragInv
  BY InitGood, NextGood, PTL DEF Spec
<1>2. DragInv => ShortcutsSound
  <2> SUFFICES ASSUME DragInv PROVE ShortcutsSound
    OBVIOUS
  <2>1. Favorite(list["favorites"]) /\ Home(list["home"])
    BY DEF DragInv, Keys, Sound
  <2>2. \A k \in Keys : Distinct(list[k])
    BY <2>1 DEF Keys, Favorite, Home
  <2>3. \A i \in DOMAIN idle : \A k \in DOMAIN idle[i].after : Distinct(idle[i].after[k])
    <3> TAKE i \in DOMAIN idle
    <3>1. idle[i] \in GoodDrops
      BY DEF DragInv
    <3> DEFINE d == idle[i]
    <3> HIDE DEF d
    <3>2. \A k \in DOMAIN d.after : Sound(k, d.after[k])
      BY <3>1 DEF d, GoodDrops
    <3>3. \A k \in DOMAIN d.after : Distinct(d.after[k])
      BY <3>2, SoundIsList
    <3>4. QED
      BY <3>3 DEF d
  <2>4. QED
    BY <2>1, <2>2, <2>3 DEF DragInv, ShortcutsSound, TypeOK, AtMostFive, Favorite, Home, Slots
<1>3. QED
  BY <1>1, <1>2, PTL

-----------------------------------------------------------------------------
(* The refinement: the abstract state is the sets of applications. *)

\* A list names no more applications than it is long.
LEMMA FavoriteCount ==
  ASSUME NEW s, Favorite(s)
  PROVE  IsFiniteSet(Ids(s)) /\ Cardinality(Ids(s)) <= Len(s) /\ Cardinality(Ids(s)) \in Nat
<1>1. s \in Seq(Apps) /\ Len(s) \in Nat
  BY DEF Favorite
<1>2. s \in [1..Len(s) -> Ids(s)]
  BY <1>1 DEF Ids, Indices
<1>3. \A b \in Ids(s) : \E i \in 1..Len(s) : s[i] = b
  BY <1>1 DEF Ids, Indices
<1>4. s \in Surjection(1..Len(s), Ids(s))
  BY <1>2, <1>3 DEF Surjection
<1>5. IsFiniteSet(1..Len(s)) /\ Cardinality(1..Len(s)) = Len(s)
  BY <1>1, FS_Interval
<1>6. QED
  BY <1>4, <1>5, FS_Surjection, FS_CardinalityType

LEMMA HomeCount ==
  ASSUME NEW s, Home(s), NEW empty \in Slots, s[empty] = Empty
  PROVE  Cardinality(Ids(s)) < SlotCount
<1> DEFINE taken == {i \in Slots : s[i] # Empty}
           f == [i \in taken |-> s[i]]
<1>1. s \in [Slots -> Apps \cup {Empty}] /\ DOMAIN s = Slots /\ SlotCount \in Nat
  BY SizeAssumption DEF Home
<1>2. f \in [taken -> Ids(s)]
  BY <1>1 DEF Ids, Indices
<1>3. \A b \in Ids(s) : \E i \in taken : f[i] = b
  BY <1>1, IdAssumption DEF Ids, Indices
<1>4. f \in Surjection(taken, Ids(s))
  BY <1>2, <1>3 DEF Surjection
<1>5. IsFiniteSet(Slots) /\ Cardinality(Slots) = SlotCount
  BY <1>1, FS_Interval DEF Slots
<1>6. IsFiniteSet(Slots \ {empty}) /\ Cardinality(Slots \ {empty}) = SlotCount - 1
  BY <1>5, FS_RemoveElement
<1>7. taken \in SUBSET (Slots \ {empty})
  OBVIOUS
<1>8. IsFiniteSet(taken) /\ Cardinality(taken) <= SlotCount - 1
  BY <1>6, <1>7, FS_Subset
<1> HIDE DEF taken, f
<1>9. IsFiniteSet(Ids(s)) /\ Cardinality(Ids(s)) <= Cardinality(taken)
  BY <1>4, <1>8, FS_Surjection
<1>10. Cardinality(Ids(s)) \in Nat /\ Cardinality(taken) \in Nat
  BY <1>8, <1>9, FS_CardinalityType
<1>11. QED
  BY <1>1, <1>8, <1>9, <1>10

Favs == Ids(list["favorites"])
Homes == Ids(list["home"])

LEMMA FavoriteAdds ==
  ASSUME DragInv, NEW a \in Apps, NEW t, Adds("favorites", a, list["favorites"], t)
  PROVE  Ids(t) = Favs \/ (a \notin Favs /\ Cardinality(Favs) < Limit /\ Ids(t) = Favs \cup {a})
<1>1. Favorite(list["favorites"]) /\ Len(list["favorites"]) \in Nat
  BY DEF DragInv, Keys, Sound, Favorite
<1>2. CASE a \in Favs
  BY <1>2 DEF Adds, Favs
<1>3. CASE a \notin Favs
  <2>1. Len(list["favorites"]) < Limit
    BY <1>3 DEF Adds, Room, Favs
  <2>2. Cardinality(Favs) < Limit
    BY <1>1, <2>1, FavoriteCount, SizeAssumption DEF Favs
  <2>3. QED
    BY <1>3, <2>2 DEF Adds, Favs
<1>4. QED
  BY <1>2, <1>3

LEMMA HomeAdds ==
  ASSUME DragInv, NEW a \in Apps, NEW t, Adds("home", a, list["home"], t)
  PROVE  Ids(t) = Homes \/ (a \notin Homes /\ Cardinality(Homes) < SlotCount /\ Ids(t) = Homes \cup {a})
<1>1. Home(list["home"])
  BY DEF DragInv, Keys, Sound
<1>2. CASE a \in Homes
  BY <1>2 DEF Adds, Homes
<1>3. CASE a \notin Homes
  <2>1. \E i \in Slots : list["home"][i] = Empty
    BY <1>3 DEF Adds, Room, Homes
  <2>2. Cardinality(Homes) < SlotCount
    BY <1>1, <2>1, HomeCount DEF Homes
  <2>3. QED
    BY <1>3, <2>2 DEF Adds, Homes
<1>4. QED
  BY <1>2, <1>3

\* The instance has the same cardinality.
LEMMA SameCardinality == \A S : Shortcuts!Cardinality(S) = Cardinality(S)
BY DEF Cardinality, Shortcuts!Cardinality

\* What a step of the detailed specification does to the sets.
Abstract ==
  \/ \E a \in Apps : Shortcuts!Copy(a) \/ Shortcuts!Remove(a) \/ Shortcuts!Transfer(a)
  \/ UNCHANGED <<Favs, Homes>>

LEMMA MovedIsAbstract == ASSUME DragInv, Moved PROVE Abstract
<1> USE DEF Keys
<1> DEFINE AddFav(a) == a \notin Favs /\ Cardinality(Favs) < Limit /\ Favs' = Favs \cup {a}
           AddHom(a) == a \notin Homes /\ Cardinality(Homes) < SlotCount /\ Homes' = Homes \cup {a}
           DropFav(a) == a \in Favs /\ Favs' = Favs \ {a}
           DropHom(a) == a \in Homes /\ Homes' = Homes \ {a}
<1>1. \E a \in Apps :
        \/ (AddFav(a) \/ DropFav(a) \/ Favs' = Favs) /\ Homes' = Homes
        \/ (AddHom(a) \/ DropHom(a) \/ Homes' = Homes) /\ Favs' = Favs
        \/ (AddFav(a) \/ Favs' = Favs) /\ DropHom(a)
        \/ (AddHom(a) \/ Homes' = Homes) /\ DropFav(a)
  <2>1. PICK a \in Apps :
          \/ \E k \in Keys :
               /\ Adds(k, a, list[k], list'[k]) \/ Removes(a, list[k], list'[k])
               /\ \A o \in Keys : o # k => list'[o] = list[o]
          \/ \E k, o \in Keys :
               /\ k # o
               /\ Adds(k, a, list[k], list'[k]) \/ list'[k] = list[k]
               /\ Removes(a, list[o], list'[o])
    BY DEF Moved
  <2>2. Adds("favorites", a, list["favorites"], list'["favorites"]) => AddFav(a) \/ Favs' = Favs
    BY FavoriteAdds DEF Favs
  <2>3. Adds("home", a, list["home"], list'["home"]) => AddHom(a) \/ Homes' = Homes
    BY HomeAdds DEF Homes
  <2>4. Removes(a, list["favorites"], list'["favorites"]) => DropFav(a)
    BY DEF Removes, Favs
  <2>5. Removes(a, list["home"], list'["home"]) => DropHom(a)
    BY DEF Removes, Homes
  <2>6. /\ list'["favorites"] = list["favorites"] => Favs' = Favs
        /\ list'["home"] = list["home"] => Homes' = Homes
    BY DEF Favs, Homes
  <2> HIDE DEF AddFav, AddHom, DropFav, DropHom
  <2>7. QED
    BY <2>1, <2>2, <2>3, <2>4, <2>5, <2>6
<1>2. PICK a \in Apps :
        \/ (AddFav(a) \/ DropFav(a) \/ Favs' = Favs) /\ Homes' = Homes
        \/ (AddHom(a) \/ DropHom(a) \/ Homes' = Homes) /\ Favs' = Favs
        \/ (AddFav(a) \/ Favs' = Favs) /\ DropHom(a)
        \/ (AddHom(a) \/ Homes' = Homes) /\ DropFav(a)
  BY <1>1
<1>3. (AddFav(a) <=> Shortcuts!AddFavorite(a)) /\ (AddHom(a) <=> Shortcuts!AddHome(a))
  BY SameCardinality DEF Favs, Homes, Ids, Shortcuts!AddFavorite, Shortcuts!AddHome
<1>4. (DropFav(a) <=> Shortcuts!DropFavorite(a)) /\ (DropHom(a) <=> Shortcuts!DropHome(a))
  BY DEF Favs, Homes, Ids, Shortcuts!DropFavorite, Shortcuts!DropHome
<1>5. /\ Favs = {b \in Apps : Indices(list["favorites"], b) # {}}
      /\ Homes = {b \in Apps : Indices(list["home"], b) # {}}
  BY DEF Favs, Homes, Ids
<1>6. /\ Shortcuts!Copy(a) <=> (AddFav(a) /\ Homes' = Homes) \/ (AddHom(a) /\ Favs' = Favs)
      /\ Shortcuts!Remove(a) <=> (DropFav(a) /\ Homes' = Homes) \/ (DropHom(a) /\ Favs' = Favs)
      /\ Shortcuts!Transfer(a) <=> (DropHom(a) /\ AddFav(a)) \/ (DropFav(a) /\ AddHom(a))
  BY <1>3, <1>4, <1>5 DEF Shortcuts!Copy, Shortcuts!Remove, Shortcuts!Transfer, Favs, Homes, Ids
<1>7. \/ Shortcuts!Copy(a) \/ Shortcuts!Remove(a) \/ Shortcuts!Transfer(a)
      \/ UNCHANGED <<Favs, Homes>>
  <2> HIDE DEF AddFav, AddHom, DropFav, DropHom
  <2>1. QED
    BY <1>2, <1>6
<1>8. QED
  BY <1>7 DEF Abstract

LEMMA StepIsAbstract ==
  ASSUME DragInv, [Next]_vars
  PROVE  (Abstract /\ UNCHANGED others) \/ others' = others + 1
<1>1. CASE UNCHANGED list /\ UNCHANGED others
  BY <1>1 DEF Abstract, Favs, Homes
<1>2. CASE DragReceived \/ HomeRemove
  BY <1>1, <1>2 DEF DragReceived, HomeRemove, Queue
<1>3. CASE DropApply
  BY <1>1, <1>3, DropApplyGood, MovedIsAbstract
<1>4. CASE FavoriteAdd \/ FavoriteRemove
  BY <1>4, FavoriteAddGood, FavoriteRemoveGood, MovedIsAbstract
<1>5. CASE OtherWrites
  BY <1>5, OtherWritesGood
<1>6. QED
  BY <1>1, <1>2, <1>3, <1>4, <1>5 DEF Next, vars

\* Each drag, drop and menu entry is one gesture of HomeShortcuts or none: it
\* copies, moves or removes one shortcut at one instant, whatever was written
\* between lmi_home_drag_received and lmi_home_drop_apply.
THEOREM ImplementsHomeShortcuts == Spec => OneGestureOneShortcut
<1> DEFINE favs == {a \in Apps : Indices(list["favorites"], a) # {}}
           homes == {a \in Apps : Indices(list["home"], a) # {}}
<1>1. favs = Favs /\ homes = Homes
  BY DEF Favs, Homes, Ids
<1>2. Init => Shortcuts!Init
  <2> SUFFICES ASSUME Init PROVE Shortcuts!Init
    OBVIOUS
  <2>1. DragInv
    BY InitGood
  <2>2. Favorite(list["favorites"])
    BY <2>1 DEF DragInv, Keys, Sound
  <2>3. Cardinality(Favs) <= Limit
    BY <2>2, FavoriteCount, SizeAssumption DEF Favs, Favorite
  <2>4. list["home"] = [i \in 1..SlotCount |-> Empty]
    BY DEF Init, Keys
  <2>5. Homes = {}
    BY <2>4, IdAssumption DEF Homes, Ids, Indices
  <2>6. others = 0
    BY DEF Init
  <2>7. QED
    BY <1>1, <2>3, <2>5, <2>6, SameCardinality DEF Shortcuts!Init
<1>3. DragInv /\ [Next]_vars => [Shortcuts!Next]_<<favs, homes, others>>
  <2> SUFFICES ASSUME DragInv, [Next]_vars
               PROVE  Shortcuts!Next \/ UNCHANGED <<favs, homes, others>>
    OBVIOUS
  <2>1. CASE Abstract /\ UNCHANGED others
    <3>1. CASE UNCHANGED <<Favs, Homes>>
      BY <1>1, <2>1, <3>1 DEF Favs, Homes, Ids
    <3>2. CASE \E a \in Apps : Shortcuts!Copy(a) \/ Shortcuts!Remove(a) \/ Shortcuts!Transfer(a)
      BY <2>1, <3>2 DEF Shortcuts!Next
    <3>3. QED
      BY <2>1, <3>1, <3>2 DEF Abstract
  <2>2. CASE others' = others + 1
    <3>1. favs' \in SUBSET Apps /\ homes' \in SUBSET Apps
      OBVIOUS
    <3>2. Shortcuts!Other
      BY <2>2, <3>1 DEF Shortcuts!Other
    <3>3. QED
      BY <3>2 DEF Shortcuts!Next
  <2>3. QED
    BY <2>1, <2>2, StepIsAbstract
<1>4. QED
  BY <1>2, <1>3, InitGood, NextGood, PTL DEF Spec, OneGestureOneShortcut, Shortcuts!Spec
=============================================================================
