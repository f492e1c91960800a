-------------------------- MODULE GroupsWalkProofs --------------------------
(***************************************************************************)
(* What a client that pages through a changing list may miss and may be    *)
(* shown twice, for any groups, page size and concurrent requests.         *)
(*                                                                         *)
(* Everything rests on counting: the place of a group is the number of     *)
(* listed groups ahead of it, so that no two groups share a place and no   *)
(* place is empty; a write of one row moves every other group by at most   *)
(* one place.                                                              *)
(***************************************************************************)
EXTENDS GroupsProofs

(* Before and Place, for names that are not those of the current state.    *)
Ahead(names, h, g) ==
  names[h][1] < names[g][1] \/ (names[h][1] = names[g][1] /\ h < g)

AheadOf(names, g, list) == {h \in list : Ahead(names, h, g)}

Rank(names, g, list) == Cardinality(AheadOf(names, g, list))

Named(names) == \A g \in Groups : names[g][1] \in Nat

LEMMA ListsAreFinite ==
  ASSUME NEW list \in SUBSET Groups
  PROVE  IsFiniteSet(list) /\ Cardinality(list) \in Nat /\ Cardinality(list) <= Cardinality(Groups)
BY GroupsAssumption, FS_Subset, FS_CardinalityType

(* A place is a number below the length of the list.                       *)
LEMMA RankType ==
  ASSUME NEW names, NEW list \in SUBSET Groups, NEW g
  PROVE  /\ IsFiniteSet(AheadOf(names, g, list)) /\ Rank(names, g, list) \in Nat
         /\ Named(names) /\ g \in list => Rank(names, g, list) < Cardinality(list)
<1>1. IsFiniteSet(AheadOf(names, g, list)) /\ Rank(names, g, list) \in Nat
  BY ListsAreFinite, FS_Subset, FS_CardinalityType DEF AheadOf, Rank
<1>2. ASSUME Named(names), g \in list PROVE Rank(names, g, list) < Cardinality(list)
  <2>1. g \in Groups /\ g \in Nat /\ names[g][1] \in Nat
    BY <1>2, GroupsAssumption DEF Named
  <2>2. AheadOf(names, g, list) \subseteq list \ {g}
    BY <2>1 DEF AheadOf, Ahead
  <2>3. IsFiniteSet(list \ {g}) /\ Cardinality(list \ {g}) = Cardinality(list) - 1
    BY <1>2, ListsAreFinite, FS_RemoveElement
  <2>4. Rank(names, g, list) <= Cardinality(list \ {g})
    BY <2>2, <2>3, FS_Subset DEF Rank
  <2> QED
    BY <1>1, <2>3, <2>4, ListsAreFinite
<1> QED
  BY <1>1, <1>2

(* The order of the list is total and strict.                              *)
LEMMA AheadOrders ==
  ASSUME NEW names, Named(names), NEW g \in Groups, NEW h \in Groups
  PROVE  /\ ~Ahead(names, g, g)
         /\ g # h => Ahead(names, g, h) \/ Ahead(names, h, g)
         /\ Ahead(names, g, h) => ~Ahead(names, h, g)
         /\ \A i \in Groups : Ahead(names, i, g) /\ Ahead(names, g, h) => Ahead(names, i, h)
<1>1. \A i \in Groups : i \in Nat /\ names[i][1] \in Nat
  BY GroupsAssumption DEF Named
<1> QED
  BY <1>1 DEF Ahead

LEMMA RankOrder ==
  ASSUME NEW names, Named(names), NEW list \in SUBSET Groups,
         NEW g \in list, NEW h \in Groups, Ahead(names, g, h)
  PROVE  Rank(names, g, list) < Rank(names, h, list)
<1> DEFINE lower == AheadOf(names, g, list)
           upper == AheadOf(names, h, list)
<1>1. g \notin lower /\ lower \cup {g} \subseteq upper
  BY AheadOrders DEF AheadOf
<1>2. /\ IsFiniteSet(lower) /\ IsFiniteSet(upper)
      /\ Cardinality(lower) \in Nat /\ Cardinality(upper) \in Nat
  BY RankType DEF Rank
<1> HIDE DEF lower, upper
<1>3. Cardinality(lower \cup {g}) = Cardinality(lower) + 1
  BY <1>1, <1>2, FS_AddElement
<1>4. Cardinality(lower \cup {g}) <= Cardinality(upper)
  BY <1>1, <1>2, FS_Subset
<1>5. Cardinality(lower) < Cardinality(upper)
  BY <1>2, <1>3, <1>4
<1> QED
  BY <1>5 DEF lower, upper, Rank

(* No two groups share a place.                                            *)
LEMMA RankInjective ==
  ASSUME NEW names, Named(names), NEW list \in SUBSET Groups,
         NEW g \in list, NEW h \in list, Rank(names, g, list) = Rank(names, h, list)
  PROVE  g = h
<1> SUFFICES ASSUME g # h PROVE FALSE
  OBVIOUS
<1>1. Rank(names, g, list) < Rank(names, h, list) \/ Rank(names, h, list) < Rank(names, g, list)
  BY RankOrder, AheadOrders
<1>2. Rank(names, g, list) \in Nat
  BY RankType
<1> QED
  BY <1>1, <1>2

(* No place of the list is empty.                                          *)
LEMMA EveryRank ==
  ASSUME NEW names, Named(names), NEW list \in SUBSET Groups,
         NEW p \in Nat, p < Cardinality(list)
  PROVE  \E g \in list : Rank(names, g, list) = p
<1> DEFINE n == Cardinality(list)
           places == 0 .. (n - 1)
           f == [g \in list |-> Rank(names, g, list)]
<1>1. n \in Nat /\ IsFiniteSet(list)
  BY ListsAreFinite
<1>2. IsFiniteSet(places) /\ Cardinality(places) = n
  <2>1. 0 \in Int /\ n - 1 \in Int
    BY <1>1
  <2>2. /\ IsFiniteSet(0 .. (n - 1))
        /\ Cardinality(0 .. (n - 1)) = IF 0 > n - 1 THEN 0 ELSE n - 1 - 0 + 1
    BY <2>1, FS_Interval
  <2> HIDE DEF n
  <2>3. (IF 0 > n - 1 THEN 0 ELSE n - 1 - 0 + 1) = n
    BY <1>1
  <2> QED
    BY <2>2, <2>3
<1>3. f \in [list -> places]
  BY <1>1, RankType
<1>4. \A g, h \in list : f[g] = f[h] => g = h
  BY RankInjective
<1> HIDE DEF f, places
<1>5. f \in Injection(list, places)
  BY <1>3, <1>4 DEF Injection, IsInjective
<1>6. f \in Surjection(list, places)
  BY <1>1, <1>2, <1>5, FS_Injection
<1>7. p \in places
  BY <1>1 DEF places
<1>8. PICK g \in list : f[g] = p
  BY <1>6, <1>7 DEF Surjection
<1> QED
  BY <1>8 DEF f

(* A page is full exactly when the list reaches to its last place.         *)
PageOf(names, list, first) ==
  {g \in list : Rank(names, g, list) \in first .. (first + PageSize - 1)}

LEMMA FullPages ==
  ASSUME NEW names, Named(names), NEW list \in SUBSET Groups, NEW first \in Nat
  PROVE  Cardinality(PageOf(names, list, first)) = PageSize
           <=> first + PageSize <= Cardinality(list)
<1> DEFINE page == PageOf(names, list, first)
           places == first .. (first + PageSize - 1)
           f == [g \in page |-> Rank(names, g, list)]
<1>1. Cardinality(list) \in Nat /\ PageSize \in Nat /\ PageSize > 0
  BY ListsAreFinite, PageSizeAssumption
<1>2. IsFiniteSet(places) /\ Cardinality(places) = PageSize
  BY <1>1, FS_Interval
<1>3. f \in [page -> places]
  BY DEF PageOf
<1>4. \A g, h \in page : f[g] = f[h] => g = h
  BY RankInjective DEF PageOf
<1>p. page \subseteq list
  BY DEF PageOf
<1>5. f \in Injection(page, places)
  <2> HIDE DEF f, places, page
  <2> QED
    BY <1>3, <1>4 DEF Injection, IsInjective
<1>6. Cardinality(page) = PageSize <=> f \in Surjection(page, places)
  <2> HIDE DEF f, places, page
  <2> QED
    BY <1>2, <1>5, FS_Injection
<1>7. ASSUME f \in Surjection(page, places) PROVE first + PageSize <= Cardinality(list)
  <2>1. first + PageSize - 1 \in places
    BY <1>1
  <2>2. PICK g \in page : f[g] = first + PageSize - 1
    <3> HIDE DEF f, places, page
    <3> QED
      BY <1>7, <2>1 DEF Surjection
  <2>3. g \in list /\ Rank(names, g, list) = first + PageSize - 1
    BY <2>2, <1>p
  <2>4. Rank(names, g, list) < Cardinality(list)
    BY <2>3, RankType
  <2> QED
    BY <1>1, <2>3, <2>4
<1>8. ASSUME first + PageSize <= Cardinality(list) PROVE f \in Surjection(page, places)
  <2>1. ASSUME NEW p \in places PROVE \E g \in page : f[g] = p
    <3>1. p \in Nat /\ p < Cardinality(list)
      BY <1>1, <1>8
    <3>2. PICK g \in list : Rank(names, g, list) = p
      BY <3>1, EveryRank
    <3> QED
      BY <3>2 DEF PageOf
  <2> HIDE DEF f, places, page
  <2> QED
    BY <1>3, <2>1 DEF Surjection
<1> QED
  BY <1>6, <1>7, <1>8

(* More groups ahead of g give it a later place.                           *)
LEMMA RankMonotone ==
  ASSUME NEW names1, NEW names2, NEW list1 \in SUBSET Groups, NEW list2 \in SUBSET Groups, NEW g,
         \A h \in list1 : Ahead(names1, h, g) => h \in list2 /\ Ahead(names2, h, g)
  PROVE  Rank(names1, g, list1) <= Rank(names2, g, list2)
<1>1. AheadOf(names1, g, list1) \subseteq AheadOf(names2, g, list2)
  BY DEF AheadOf
<1> QED
  BY <1>1, RankType, FS_Subset DEF Rank

(* If only the row of g0 changes, another group moves by at most one place *)
(* towards the front, and only if g0 was ahead of it.                      *)
LEMMA RankShift ==
  ASSUME NEW names1, NEW names2, NEW list1 \in SUBSET Groups, NEW list2 \in SUBSET Groups,
         NEW g0 \in Groups, NEW g \in Groups \ {g0},
         \A h \in Groups \ {g0} : (h \in list1 <=> h \in list2) /\ names1[h] = names2[h]
  PROVE  /\ Rank(names1, g, list1) <= Rank(names2, g, list2) + 1
         /\ \/ Rank(names1, g, list1) <= Rank(names2, g, list2)
            \/ g0 \in list1 /\ Ahead(names1, g0, g)
<1> DEFINE before == AheadOf(names1, g, list1)
           after  == AheadOf(names2, g, list2)
<1>1. before \subseteq after \cup {g0}
  BY DEF AheadOf, Ahead
<1>2. ~(g0 \in list1 /\ Ahead(names1, g0, g)) => before \subseteq after
  BY DEF AheadOf, Ahead
<1>3. /\ IsFiniteSet(before) /\ IsFiniteSet(after)
      /\ Cardinality(before) \in Nat /\ Cardinality(after) \in Nat
  BY RankType DEF Rank
<1> HIDE DEF before, after
<1>4. /\ IsFiniteSet(after \cup {g0})
      /\ Cardinality(after \cup {g0}) <= Cardinality(after) + 1
  <2>1. /\ IsFiniteSet(after \cup {g0})
        /\ Cardinality(after \cup {g0}) =
             IF g0 \in after THEN Cardinality(after) ELSE Cardinality(after) + 1
    BY <1>3, FS_AddElement
  <2> QED
    BY <1>3, <2>1
<1>5. Cardinality(before) <= Cardinality(after \cup {g0}) /\ Cardinality(after \cup {g0}) \in Nat
  BY <1>1, <1>4, FS_Subset, FS_CardinalityType
<1>6. Cardinality(before) <= Cardinality(after) + 1
  BY <1>3, <1>4, <1>5
<1>7. before \subseteq after => Cardinality(before) <= Cardinality(after)
  BY <1>3, FS_Subset
<1> QED
  BY <1>2, <1>6, <1>7 DEF before, after, Rank

-----------------------------------------------------------------------------
(* The walk.                                                               *)

List == Listed(filter)

(* The groups that the walk has passed over: listed from its beginning,    *)
(* never shown, and now in front of its offset.                            *)
Missed == {g \in steady : seen[g] = 0 /\ Rank(kind, g, List) < offset}

WalkInv ==
  /\ filter = NoWalk => offset = 0 /\ \A g \in Groups : seen[g] = 0
  /\ offset <= Cardinality(Groups)
  /\ steady \subseteq List
  /\ Cardinality(Missed) <= left
  /\ \A g \in Groups : seen[g] <= offset /\ seen[g] <= joined + 1
  /\ \A g \in List : Rank(kind, g, List) >= offset => seen[g] <= joined

WalkFacts ==
  /\ Named(kind) /\ List \in SUBSET Groups
  /\ offset \in Nat /\ left \in Nat /\ joined \in Nat
  /\ \A g \in Groups : seen[g] \in Nat
  /\ Missed \in SUBSET Groups /\ IsFiniteSet(Missed) /\ Cardinality(Missed) \in Nat

LEMMA WalkTypes == IInv => WalkFacts
<1> SUFFICES ASSUME IInv PROVE WalkFacts
  OBVIOUS
<1>1. Named(kind)
  <2>1. \A k \in Kinds \cup {NoKind} : k[1] \in Nat
    BY KindsAssumption DEF NoKind
  <2> QED
    BY <2>1 DEF IInv, TablesOK, Named
<1>2. List \in SUBSET Groups
  BY DEF List, Listed
<1>3. /\ offset \in Nat /\ left \in Nat /\ joined \in Nat
      /\ \A g \in Groups : seen[g] \in Nat
  BY GroupsAreCounted DEF IInv, WalkOK
<1>4. Missed \in SUBSET Groups
  BY DEF Missed, IInv, WalkOK
<1> QED
  BY <1>1, <1>2, <1>3, <1>4, ListsAreFinite DEF WalkFacts

LEMMA WalkTypesNext == IInv' => WalkFacts'
BY WalkTypes, PTL

LEMMA PageIsPageOf ==
  ASSUME NEW type, NEW first
  PROVE  Page(type, first) = PageOf(kind, Listed(type), first)
BY DEF Page, PageOf, Place, Rank, AheadOf, Before, Ahead

LEMMA WalkInvInit == Init => WalkInv
<1> SUFFICES ASSUME Init PROVE WalkInv
  OBVIOUS
<1>1. Cardinality(Groups) \in Nat
  BY GroupsAreCounted
<1>2. Missed = {}
  BY DEF Init, Missed
<1>3. Cardinality(Missed) = 0
  BY <1>2, FS_EmptySet
<1>4. /\ offset = 0 /\ left = 0 /\ steady = {} /\ joined = 0
      /\ \A g \in Groups : seen[g] = 0
  BY DEF Init
<1>5. \A g \in List : g \in Groups
  BY DEF List, Listed
<1> QED
  BY <1>1, <1>3, <1>4, <1>5 DEF WalkInv

(* What a write of the row of g0 does to the list.                         *)
OnlyMoves(g0) ==
  /\ g0 \in Groups
  /\ \A h \in Groups \ {g0} : (h \in List' <=> h \in List) /\ kind'[h] = kind[h]

LEMMA WriteRowMoves ==
  ASSUME IInv, NEW q, NEW g0 \in Groups, NEW newStatus, NEW newKind,
         WriteRow(q, g0, newStatus, newKind)
  PROVE  OnlyMoves(g0)
<1>1. \A h \in Groups \ {g0} : status'[h] = status[h] /\ kind'[h] = kind[h]
  BY DEF WriteRow, IInv, TablesOK
<1>2. filter' = filter
  BY DEF WriteRow, NoteRows
<1> QED
  BY <1>1, <1>2 DEF OnlyMoves, List, Listed

(* A group that is missed now and was not before.                          *)
LEMMA OneMoreIsMissed ==
  ASSUME IInv, IInv', WalkInv, UNCHANGED <<offset, seen>>, steady' = steady \cap List',
         NEW g0, OnlyMoves(g0),
         NEW x \in Missed' \ Missed, NEW y \in Missed' \ Missed
  PROVE  x = y
<1>t. /\ Named(kind) /\ List \in SUBSET Groups /\ Named(kind') /\ List' \in SUBSET Groups
      /\ offset \in Nat /\ g0 \in Groups
  BY WalkTypes, WalkTypesNext DEF WalkFacts, OnlyMoves
<1>1. ASSUME NEW z \in Missed' \ Missed
      PROVE  /\ z \in List /\ z \in List' /\ z \in Groups
             /\ Rank(kind, z, List) \in Nat /\ Rank(kind', z, List') \in Nat
             /\ Rank(kind, z, List) >= offset /\ Rank(kind', z, List') < offset
  <2>1. z \in steady /\ z \in List' /\ Rank(kind', z, List') < offset /\ seen[z] = 0
    BY DEF Missed
  <2>2. Rank(kind, z, List) \in Nat /\ Rank(kind', z, List') \in Nat
    BY <1>t, RankType
  <2>3. ~(Rank(kind, z, List) < offset)
    BY <2>1 DEF Missed
  <2>4. z \in List
    BY <2>1 DEF WalkInv
  <2> QED
    BY <1>t, <2>1, <2>2, <2>3, <2>4
<1>2. ASSUME NEW z \in Missed' \ Missed, z # g0
      PROVE  Rank(kind, z, List) = offset /\ g0 \in List /\ Ahead(kind, g0, z)
  <2>1. /\ Rank(kind, z, List) <= Rank(kind', z, List') + 1
        /\ \/ Rank(kind, z, List) <= Rank(kind', z, List')
           \/ g0 \in List /\ Ahead(kind, g0, z)
    BY <1>t, <1>1, <1>2, RankShift DEF OnlyMoves
  <2> QED
    BY <1>t, <1>1, <2>1
<1>3. CASE x # g0 /\ y # g0
  BY <1>t, <1>1, <1>2, <1>3, RankInjective
<1>4. ASSUME NEW z \in Missed' \ Missed, z # g0, g0 \in Missed' \ Missed PROVE FALSE
  <2>1. Rank(kind, g0, List) < Rank(kind, z, List)
    BY <1>t, <1>1, <1>2, <1>4, RankOrder
  <2> QED
    BY <1>t, <1>1, <1>2, <1>4, <2>1
<1> QED
  BY <1>3, <1>4

(* The write of a row keeps the walk's invariant.                          *)
LEMMA RowsStep ==
  ASSUME IInv, IInv', WalkInv, NoteRows, NEW g0, OnlyMoves(g0)
  PROVE  WalkInv'
<1> DEFINE renamed == {g \in List \cap List' : kind'[g][1] # kind[g][1]}
           gone == List \ List' # {} \/ renamed # {}
           come == List' \ List # {} \/ renamed # {}
<1>t. /\ Named(kind) /\ List \in SUBSET Groups /\ Named(kind') /\ List' \in SUBSET Groups
      /\ offset \in Nat /\ left \in Nat /\ joined \in Nat /\ left' \in Nat /\ joined' \in Nat
      /\ \A g \in Groups : seen[g] \in Nat
      /\ Missed \in SUBSET Groups /\ IsFiniteSet(Missed) /\ Cardinality(Missed) \in Nat
      /\ Missed' \in SUBSET Groups /\ IsFiniteSet(Missed') /\ Cardinality(Missed') \in Nat
      /\ Cardinality(Groups) \in Nat
  BY WalkTypes, WalkTypesNext, GroupsAreCounted DEF WalkFacts
<1>1. /\ UNCHANGED <<filter, offset, seen>> /\ steady' = steady \cap List'
      /\ left' = Raise(left, gone) /\ joined' = Raise(joined, come)
  BY DEF NoteRows, List
<1>2. /\ left' >= left /\ joined' >= joined
      /\ gone => left' >= left + 1 \/ left' >= Cardinality(Groups)
      /\ come => joined' >= joined + 1 \/ joined' >= Cardinality(Groups)
  <2> HIDE DEF gone, come
  <2> QED
    BY <1>t, <1>1 DEF Raise
<1>3. Cardinality(Missed') <= left'
  <2>1. CASE ~gone
    <3>1. ASSUME NEW g \in Missed' PROVE g \in Missed
      <4>1. /\ g \in steady /\ g \in Groups /\ seen[g] = 0 /\ Rank(kind', g, List') < offset
        BY <1>t, <1>1 DEF Missed
      <4>2. g \in List /\ g \in List' /\ \A h \in List : h \in List' /\ kind'[h][1] = kind[h][1]
        BY <1>1, <2>1, <4>1 DEF WalkInv
      <4>3. Rank(kind, g, List) <= Rank(kind', g, List')
        BY <1>t, <4>2, RankMonotone DEF Ahead
      <4>4. Rank(kind, g, List) \in Nat /\ Rank(kind', g, List') \in Nat
        BY <1>t, RankType
      <4> QED
        BY <1>t, <4>1, <4>3, <4>4 DEF Missed
    <3>2. Cardinality(Missed') <= Cardinality(Missed)
      BY <1>t, <3>1, FS_Subset
    <3> QED
      BY <1>t, <1>2, <3>2 DEF WalkInv
  <2>2. CASE gone /\ left' >= Cardinality(Groups)
    BY <1>t, <2>2, ListsAreFinite
  <2>3. CASE gone /\ left' >= left + 1
    <3>1. CASE Missed' \subseteq Missed
      <4>1. Cardinality(Missed') <= Cardinality(Missed)
        BY <1>t, <3>1, FS_Subset
      <4> QED
        BY <1>t, <1>2, <4>1 DEF WalkInv
    <3>2. CASE ~(Missed' \subseteq Missed)
      <4>1. PICK x \in Missed' : x \notin Missed
        BY <3>2
      <4>2. Missed' \subseteq Missed \cup {x}
        BY <1>1, <4>1, OneMoreIsMissed
      <4>3. IsFiniteSet(Missed \cup {x}) /\ Cardinality(Missed \cup {x}) = Cardinality(Missed) + 1
        BY <1>t, <4>1, FS_AddElement
      <4>4. Cardinality(Missed') <= Cardinality(Missed \cup {x})
        BY <4>2, <4>3, FS_Subset
      <4> QED
        BY <1>t, <2>3, <4>3, <4>4 DEF WalkInv
    <3> QED
      BY <3>1, <3>2
  <2> QED
    BY <1>2, <2>1, <2>2, <2>3
<1>4. \A g \in Groups : seen'[g] <= offset' /\ seen'[g] <= joined' + 1
  BY <1>t, <1>1, <1>2 DEF WalkInv
<1>5. ASSUME NEW g \in List', Rank(kind', g, List') >= offset PROVE seen[g] <= joined'
  <2>0. g \in Groups /\ seen[g] \in Nat /\ seen[g] <= joined + 1 /\ seen[g] <= offset
        /\ offset <= Cardinality(Groups)
    BY <1>t DEF WalkInv
  <2>1. CASE come
    BY <1>t, <1>2, <2>0, <2>1
  <2>2. CASE ~come
    <3>1. g \in List /\ \A h \in List' : h \in List /\ kind'[h][1] = kind[h][1]
      BY <2>2
    <3>2. Rank(kind', g, List') <= Rank(kind, g, List)
      BY <1>t, <3>1, RankMonotone DEF Ahead
    <3>3. Rank(kind, g, List) \in Nat /\ Rank(kind', g, List') \in Nat
      BY <1>t, RankType
    <3>4. Rank(kind, g, List) >= offset
      BY <1>t, <1>5, <3>2, <3>3
    <3>5. seen[g] <= joined
      BY <3>1, <3>4 DEF WalkInv
    <3> QED
      BY <1>t, <1>2, <2>0, <3>5
  <2> QED
    BY <2>1, <2>2
<1> QED
  BY <1>1, <1>3, <1>4, <1>5 DEF WalkInv

(* Nothing that the walk's invariant speaks of has changed.                *)
LEMMA RowsKeptStep == WalkInv /\ UNCHANGED <<status, kind, walk>> => WalkInv'
<1> SUFFICES ASSUME WalkInv, UNCHANGED <<status, kind, walk>> PROVE WalkInv'
  OBVIOUS
<1>1. UNCHANGED <<status, kind, filter, offset, seen, steady, left, joined>>
  BY DEF walk
<1>2. List' = List
  BY <1>1 DEF List, Listed
<1>3. Missed' = Missed
  BY <1>1, <1>2 DEF Missed
<1> QED
  BY <1>1, <1>2, <1>3 DEF WalkInv

LEMMA WalkBeginStep ==
  ASSUME IInv, IInv', WalkInv, NEW type, WalkBegin(type)
  PROVE  WalkInv'
<1>1. /\ UNCHANGED <<kind, offset, seen, left, joined>> /\ steady' = List'
      /\ offset = 0 /\ \A g \in Groups : seen[g] = 0
  BY DEF WalkBegin, WalkInv, List, Listed, tables
<1>2. left \in Nat /\ joined \in Nat /\ Cardinality(Groups) \in Nat /\ List' \in SUBSET Groups
  BY WalkTypes, WalkTypesNext, GroupsAreCounted DEF WalkFacts
<1>3. Missed' = {}
  <2>1. \A g \in List' : Rank(kind', g, List') \in Nat
    BY <1>2, RankType
  <2> QED
    BY <1>1, <2>1 DEF Missed
<1>4. Cardinality(Missed') = 0
  BY <1>3, FS_EmptySet
<1> QED
  BY <1>1, <1>2, <1>4 DEF WalkInv

(* A page that is full moves the offset past the groups it shows.          *)
LEMMA WalkOnStep ==
  ASSUME IInv, WalkInv, WalkOn
  PROVE  WalkInv'
<1> DEFINE shown == Page(filter, offset)
<1>t. /\ Named(kind) /\ List \in SUBSET Groups /\ \A g \in Groups : seen[g] \in Nat
      /\ offset \in Nat /\ left \in Nat /\ joined \in Nat
      /\ IsFiniteSet(Missed) /\ Cardinality(Missed) \in Nat
      /\ PageSize \in Nat /\ PageSize > 0
      /\ Cardinality(List) \in Nat /\ Cardinality(List) <= Cardinality(Groups)
      /\ Cardinality(Groups) \in Nat
  BY WalkTypes, GroupsAreCounted, ListsAreFinite, PageSizeAssumption DEF WalkFacts
<1>r. \A g \in Groups : Rank(kind, g, List) \in Nat
  BY <1>t, RankType
<1>1. /\ UNCHANGED <<kind, filter, steady, left, joined>> /\ List' = List
      /\ filter # NoWalk /\ offset' = offset + PageSize
      /\ \A g \in Groups : seen'[g] = IF g \in shown THEN seen[g] + 1 ELSE seen[g]
  BY DEF WalkOn, tables, List, Listed
<1>2. shown = {g \in List : Rank(kind, g, List) \in offset .. (offset + PageSize - 1)}
  BY PageIsPageOf DEF PageOf, List
<1> HIDE DEF shown
<1>3. offset' <= Cardinality(Groups)
  <2>1. Cardinality(PageOf(kind, List, offset)) = PageSize
    BY PageIsPageOf DEF WalkOn, FullPage, List
  <2>2. offset + PageSize <= Cardinality(List)
    BY <1>t, <2>1, FullPages
  <2> QED
    BY <1>t, <1>1, <2>2
<1>4. Cardinality(Missed') <= left'
  <2>1. ASSUME NEW g \in Missed' PROVE g \in Missed
    <3>1. /\ g \in steady /\ g \in List /\ g \in Groups /\ seen'[g] = 0
          /\ Rank(kind, g, List) < offset + PageSize
      BY <1>t, <1>1 DEF Missed, WalkInv
    <3>2. g \notin shown /\ seen[g] = 0
      BY <1>t, <1>1, <3>1
    <3>3. Rank(kind, g, List) < offset
      BY <1>t, <1>r, <1>2, <3>1, <3>2
    <3> QED
      BY <3>1, <3>2, <3>3 DEF Missed
  <2>2. Cardinality(Missed') <= Cardinality(Missed) /\ Cardinality(Missed') \in Nat
    BY <1>t, <2>1, FS_Subset, FS_CardinalityType
  <2> QED
    BY <1>t, <1>1, <2>2 DEF WalkInv
<1>5. ASSUME NEW g \in Groups PROVE seen'[g] <= offset' /\ seen'[g] <= joined' + 1
  <2>1. seen[g] <= offset /\ seen[g] <= joined + 1
    BY DEF WalkInv
  <2>2. g \in shown => seen[g] <= joined
    BY <1>t, <1>r, <1>2 DEF WalkInv
  <2> QED
    BY <1>t, <1>1, <2>1, <2>2
<1>6. ASSUME NEW g \in List, Rank(kind, g, List) >= offset + PageSize PROVE seen'[g] <= joined
  <2>1. g \in Groups /\ g \notin shown /\ Rank(kind, g, List) >= offset
    BY <1>t, <1>r, <1>2, <1>6
  <2> QED
    BY <1>1, <2>1 DEF WalkInv
<1> QED
  BY <1>1, <1>3, <1>4, <1>5, <1>6 DEF WalkInv

LEMMA WalkEndStep == WalkEnd => WalkInv'
<1> SUFFICES ASSUME WalkEnd PROVE WalkInv'
  OBVIOUS
<1>1. /\ offset' = 0 /\ left' = 0 /\ steady' = {} /\ joined' = 0
      /\ \A g \in Groups : seen'[g] = 0
  BY DEF WalkEnd
<1>2. Cardinality(Missed') = 0
  <2>1. Missed' = {}
    BY <1>1 DEF Missed
  <2> QED
    BY <2>1, FS_EmptySet
<1>3. Cardinality(Groups) \in Nat /\ List' \in SUBSET Groups
  BY GroupsAreCounted DEF List, Listed
<1> QED
  BY <1>1, <1>2, <1>3 DEF WalkInv

LEMMA WalkInvStep == IInv /\ IInv' /\ WalkInv /\ [Next]_vars => WalkInv'
<1> SUFFICES ASSUME IInv, IInv', WalkInv, [Next]_vars PROVE WalkInv'
  OBVIOUS
<1>1. ASSUME NEW q, NEW g \in Groups, NEW newStatus, NEW newKind,
             WriteRow(q, g, newStatus, newKind)
      PROVE  WalkInv'
  <2>1. OnlyMoves(g)
    BY <1>1, WriteRowMoves
  <2>2. NoteRows
    BY <1>1 DEF WriteRow
  <2> QED
    BY <2>1, <2>2, RowsStep
<1>2. ASSUME NEW q \in Requests, UpdateWrite(q) \/ DeleteWrite(q) PROVE WalkInv'
  <2>1. call[q].group \in Groups
    BY <1>2 DEF IInv, RequestOK, UpdateWrite, DeleteWrite
  <2> QED
    BY <1>1, <1>2, <2>1 DEF UpdateWrite, DeleteWrite
<1>3. ASSUME NEW q \in Requests, NEW g \in Groups, NEW k \in Kinds, Create(q, g, k) PROVE WalkInv'
  BY <1>1, <1>3 DEF Create
<1>4. ASSUME NEW q \in Requests, NEW g \in Groups, Ask(q, g) PROVE WalkInv'
  BY <1>4, RowsKeptStep DEF Ask, EnsureGroup, tables
<1>5. ASSUME NEW q \in Requests, AddMember(q) \/ RemoveMember(q) PROVE WalkInv'
  BY <1>5, RowsKeptStep DEF AddMember, RemoveMember, WriteRole
<1>6. ASSUME NEW q \in Requests, WriteNothing(q) \/ AddAnswer(q) \/ Fail(q) PROVE WalkInv'
  BY <1>6, RowsKeptStep DEF WriteNothing, AddAnswer, Fail, tables
<1>7. ASSUME NEW u \in Users, DeleteUser(u) PROVE WalkInv'
  BY <1>7, RowsKeptStep DEF DeleteUser
<1>8. CASE UNCHANGED vars
  BY <1>8, RowsKeptStep DEF vars, tables
<1> QED
  BY <1>2, <1>3, <1>4, <1>5, <1>6, <1>7, <1>8, WalkBeginStep, WalkOnStep, WalkEndStep DEF Next

LEMMA WalkInvariance == Spec => [](IInv /\ WalkInv)
BY Invariance, WalkInvInit, WalkInvStep, PTL DEF Spec

(* What the last page leaves unseen has been passed over.                  *)
LEMMA WalkEndMisses ==
  ASSUME IInv, WalkInv, WalkEnd
  PROVE  /\ IsFiniteSet({g \in steady \ Page(filter, offset) : seen[g] = 0})
         /\ Cardinality({g \in steady \ Page(filter, offset) : seen[g] = 0}) <= left
<1> DEFINE unseen == {g \in steady \ Page(filter, offset) : seen[g] = 0}
<1>t. /\ Named(kind) /\ List \in SUBSET Groups /\ offset \in Nat /\ left \in Nat
      /\ IsFiniteSet(Missed) /\ Cardinality(Missed) \in Nat
      /\ PageSize \in Nat /\ Cardinality(List) \in Nat
  BY WalkTypes, ListsAreFinite, PageSizeAssumption DEF WalkFacts
<1>1. ~(offset + PageSize <= Cardinality(List))
  <2>1. Cardinality(PageOf(kind, List, offset)) # PageSize
    BY PageIsPageOf DEF WalkEnd, FullPage, List
  <2> QED
    BY <1>t, <2>1, FullPages
<1>2. ASSUME NEW g \in unseen PROVE g \in Missed
  <2>1. g \in steady /\ g \in List /\ seen[g] = 0 /\ g \notin PageOf(kind, List, offset)
    BY PageIsPageOf DEF WalkInv, List
  <2>2. Rank(kind, g, List) \in Nat /\ Rank(kind, g, List) < Cardinality(List)
    BY <1>t, <2>1, RankType
  <2>3. Rank(kind, g, List) < offset
    BY <1>t, <1>1, <2>1, <2>2 DEF PageOf
  <2> QED
    BY <2>1, <2>3 DEF Missed
<1> HIDE DEF unseen
<1>3. IsFiniteSet(unseen) /\ Cardinality(unseen) <= Cardinality(Missed) /\ Cardinality(unseen) \in Nat
  BY <1>t, <1>2, FS_Subset, FS_CardinalityType
<1>4. Cardinality(unseen) <= left
  BY <1>t, <1>3 DEF WalkInv
<1> QED
  BY <1>3, <1>4 DEF unseen

LEMMA SeenBeforeThePage ==
  ASSUME IInv, WalkInv, NEW g \in Page(filter, offset)
  PROVE  seen[g] <= joined
<1>1. /\ g \in List /\ g \in Groups
      /\ Rank(kind, g, List) \in offset .. (offset + PageSize - 1)
  BY PageIsPageOf DEF PageOf, List, Listed
<1> QED
  BY <1>1 DEF WalkInv

-----------------------------------------------------------------------------
(* Theorems.                                                               *)

(* However many groups come, go and are renamed during a walk: of those    *)
(* listed all the time it misses at most one for each that left its place. *)
THEOREM MissesAreBounded == Spec => MissesAreDepartures
<1>1. IInv /\ WalkInv =>
        [WalkEnd => Cardinality({g \in steady \ Page(filter, offset) : seen[g] = 0}) <= left]_vars
  BY WalkEndMisses
<1> QED
  BY <1>1, WalkInvariance, PTL DEF MissesAreDepartures

(* And it shows a group again at most once for each that took a place.     *)
THEOREM RepeatsAreBounded == Spec => RepeatsAreArrivals
<1>1. IInv /\ WalkInv =>
        [WalkOn \/ WalkEnd => \A g \in Page(filter, offset) : seen[g] <= joined]_vars
  BY SeenBeforeThePage
<1> QED
  BY <1>1, WalkInvariance, PTL DEF RepeatsAreArrivals

(* Where no group leaves or takes a place meanwhile, whatever else is      *)
(* written, a client that reaches the last page has been shown every group *)
(* that was listed exactly once.                                           *)
QuietWalksAreComplete ==
  [][WalkEnd /\ left = 0 /\ joined = 0 =>
       \A g \in steady : seen[g] = IF g \in Page(filter, offset) THEN 0 ELSE 1]_vars

THEOREM QuietWalksShowEachOnce == Spec => QuietWalksAreComplete
<1>1. ASSUME IInv, WalkInv, WalkEnd, left = 0, joined = 0, NEW g \in steady
      PROVE  seen[g] = IF g \in Page(filter, offset) THEN 0 ELSE 1
  <2> DEFINE unseen == {h \in steady \ Page(filter, offset) : seen[h] = 0}
  <2>1. g \in Groups /\ seen[g] \in Nat /\ seen[g] <= 1
    BY <1>1, WalkTypes DEF WalkFacts, WalkInv
  <2>2. CASE g \in Page(filter, offset)
    <3>1. seen[g] <= 0
      BY <1>1, <2>2, SeenBeforeThePage
    <3> QED
      BY <2>1, <2>2, <3>1
  <2>3. CASE g \notin Page(filter, offset)
    <3>1. IsFiniteSet(unseen) /\ Cardinality(unseen) <= 0
      BY <1>1, WalkEndMisses
    <3> HIDE DEF unseen
    <3>2. unseen = {}
      <4>1. Cardinality(unseen) \in Nat
        BY <3>1, FS_CardinalityType
      <4> QED
        BY <3>1, <4>1, FS_EmptySet
    <3>3. seen[g] # 0
      BY <2>3, <3>2 DEF unseen
    <3> QED
      BY <2>1, <2>3, <3>3
  <2> QED
    BY <2>2, <2>3
<1>2. IInv /\ WalkInv =>
        [WalkEnd /\ left = 0 /\ joined = 0 =>
           \A g \in steady : seen[g] = IF g \in Page(filter, offset) THEN 0 ELSE 1]_vars
  BY <1>1
<1> QED
  BY <1>2, WalkInvariance, PTL DEF QuietWalksAreComplete
=============================================================================
