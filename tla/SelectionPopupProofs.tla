------------------------ MODULE SelectionPopupProofs ------------------------
(***************************************************************************)
(* Proofs about the selection popup (SelectionPopup).  The table is built  *)
(* once, by the constructor, and no action changes it or the pool data it  *)
(* was built from; so the table's correctness is a fact about              *)
(* fillSelectionList(): the insertion sort ListSort of the filtered pool   *)
(* lists the filtered items once each, by key and, for equal keys, in pool *)
(* order.  It is proved by induction over the items inserted, each         *)
(* insertion InsertByKey(L, x) being the filter of L by "key not greater", *)
(* then x, then the filter of L by "key greater" (SeqFilterTheorems).      *)
(***************************************************************************)
EXTENDS SelectionPopup, SeqFilterTheorems, FiniteSetTheorems, TLAPS

\* The order TableIsSortedSelection asks of the table, as a set of pairs.
OrdRel ==
    {p \in Items \X Items :
        \/ key[p[1]] < key[p[2]]
        \/ key[p[1]] = key[p[2]] /\ PoolPos(p[1]) < PoolPos(p[2])}

\* One step of ListSort: the prefix sorted up to i, given g up to i-1.
SortStep(s, g, i) == IF i = 0 THEN << >> ELSE InsertByKey(g[i - 1], s[i])

\* A function L that satisfies the recursion of ListSort(s).
IsSortRec(L, s) == L = [i \in 0 .. Len(s) |-> SortStep(s, L, i)]

\* A function g on 0..k that satisfies that recursion up to k.
PartialSort(g, s, k) ==
    /\ DOMAIN g = 0 .. k
    /\ \A i \in 0 .. k : g[i] = SortStep(s, g, i)

\* ListSort is the last value of a function that satisfies its recursion.
LEMMA ListSortIsChoice ==
  ASSUME NEW s
  PROVE  ListSort(s) = (CHOOSE L : IsSortRec(L, s))[Len(s)]
  BY DEF ListSort, IsSortRec, SortStep

\* The recursion of ListSort has a solution on every prefix 0..k.
LEMMA PartialSortExists ==
  ASSUME NEW s \in Seq(Items), NEW k \in 0 .. Len(s)
  PROVE  \E g : PartialSort(g, s, k)
<1> DEFINE Bad == {j \in 0 .. Len(s) : ~\E g : PartialSort(g, s, j)}
<1> SUFFICES Bad = {}
  OBVIOUS
<1> SUFFICES ASSUME Bad # {} PROVE FALSE
  OBVIOUS
<1>0. Bad \in SUBSET Nat
  OBVIOUS
<1> HIDE DEF Bad
<1>1. PICK m \in Bad : \A j \in Bad : m <= j
  BY <1>0, NatLeast
<1> USE DEF Bad
<1>2. CASE m = 0
  <2> DEFINE g0 == [i \in {0} |-> << >>]
  <2>1. PartialSort(g0, s, 0)
    BY DEF PartialSort, SortStep
  <2> QED
    BY <1>1, <1>2, <2>1
<1>3. CASE m # 0
  <2>1. m - 1 \in 0 .. Len(s) /\ m - 1 \notin Bad
    BY <1>1, <1>3
  <2>2. PICK g : PartialSort(g, s, m - 1)
    BY <2>1
  <2> DEFINE g2 == [i \in 0 .. m |-> IF i < m THEN g[i]
                                     ELSE SortStep(s, g, m)]
  <2>3. \A i \in 0 .. m : SortStep(s, g2, i) = SortStep(s, g, i)
    BY <1>3, <2>2 DEF SortStep, PartialSort
  <2>4. \A i \in 0 .. m : g2[i] = SortStep(s, g, i)
    BY <1>1, <1>3, <2>2 DEF PartialSort
  <2>6. PartialSort(g2, s, m)
    BY <2>3, <2>4 DEF PartialSort
  <2> QED
    BY <1>1, <2>6
<1> QED
  BY <1>2, <1>3

\* So the function that ListSort chooses does satisfy the recursion.
LEMMA SortFixpoint ==
  ASSUME NEW s \in Seq(Items)
  PROVE  IsSortRec(CHOOSE L : IsSortRec(L, s), s)
<1>0. Len(s) \in 0 .. Len(s)
  OBVIOUS
<1>1. PICK g : PartialSort(g, s, Len(s))
  BY <1>0, PartialSortExists
<1>2. IsSortRec(g, s)
  BY <1>1 DEF PartialSort, IsSortRec
<1> QED
  BY <1>2

(***************************************************************************)
(* One insertion of the sort.  If L lists its items once each in table     *)
(* order and x comes after all of them in the pool, then InsertByKey(L, x) *)
(* lists them and x once each in table order: x goes behind the items of   *)
(* key not greater (earlier in the pool, so before x on a tie) and in      *)
(* front of the items of greater key.                                      *)
(***************************************************************************)
LEMMA InsertStep ==
  ASSUME key \in [Items -> Int],
         NEW L \in Seq(Items), NEW x \in Items,
         IsInjective(L), SortedBy(L, OrdRel), PoolPos(x) \in Int,
         \A y \in ToSet(L) : PoolPos(y) \in Int /\ PoolPos(y) < PoolPos(x)
  PROVE  /\ InsertByKey(L, x) \in Seq(Items)
         /\ ToSet(InsertByKey(L, x)) = ToSet(L) \cup {x}
         /\ IsInjective(InsertByKey(L, x))
         /\ SortedBy(InsertByKey(L, x), OrdRel)
<1> DEFINE Le == {y \in Items : key[y] <= key[x]}
           Gt == {y \in Items : key[y] > key[x]}
           A == FilterSeq(L, Le)
           B == FilterSeq(L, Gt)
           X == << x >>
           AX == A \o X
<1>1. InsertByKey(L, x) = AX \o B
  BY DEF InsertByKey
<1>2. A \in Seq(Items) /\ B \in Seq(Items)
  <2>1. A \in Seq(Items \cap Le)
    BY FilterType
  <2>2. B \in Seq(Items \cap Gt)
    BY FilterType
  <2> QED
    BY <2>1, <2>2
<1>3. ToSet(A) = ToSet(L) \cap Le /\ ToSet(B) = ToSet(L) \cap Gt
  BY FilterElems
<1>4. IsInjective(A) /\ IsInjective(B)
  BY FilterInjective
<1>5. SortedBy(A, OrdRel) /\ SortedBy(B, OrdRel)
  BY FilterSorted
<1>6. x \notin ToSet(L)
  OBVIOUS
<1>7. /\ X \in Seq(Items) /\ ToSet(X) = {x}
      /\ IsInjective(X) /\ SortedBy(X, OrdRel)
  BY DEF ToSet, IsInjective, SortedBy
<1>0. ToSet(L) \subseteq Items
  BY DEF ToSet
<1>8. \A a \in ToSet(A) : <<a, x>> \in OrdRel
  <2> SUFFICES ASSUME NEW a \in ToSet(A) PROVE <<a, x>> \in OrdRel
    OBVIOUS
  <2>1. a \in Items /\ key[a] <= key[x] /\ PoolPos(a) \in Int
        /\ PoolPos(a) < PoolPos(x)
    BY <1>0, <1>3
  <2> QED
    BY <2>1 DEF OrdRel
<1>13. AX = A \o X /\ InsertByKey(L, x) = AX \o B
  BY <1>1
<1> HIDE DEF A, B, X, AX
<1>9. /\ AX \in Seq(Items) /\ ToSet(AX) = ToSet(A) \cup {x}
      /\ IsInjective(AX) /\ SortedBy(AX, OrdRel)
  <2>1. AX \in Seq(Items)
    BY <1>2, <1>7, <1>13
  <2>2. ToSet(A \o X) = ToSet(A) \cup ToSet(X)
    BY <1>2, <1>7, ConcatElems
  <2>3. ToSet(A) \cap ToSet(X) = {}
    BY <1>3, <1>6, <1>7
  <2>4. IsInjective(A \o X)
    BY <1>2, <1>4, <1>7, <2>3, ConcatInjective
  <2>5. \A a \in ToSet(A), b \in ToSet(X) : <<a, b>> \in OrdRel
    BY <1>7, <1>8
  <2>6. SortedBy(A \o X, OrdRel)
    BY <1>2, <1>5, <1>7, <2>5, ConcatSorted
  <2> QED
    BY <1>7, <1>13, <2>1, <2>2, <2>4, <2>6
<1>10. \A a \in ToSet(AX), b \in ToSet(B) : <<a, b>> \in OrdRel
  <2> SUFFICES ASSUME NEW a \in ToSet(AX), NEW b \in ToSet(B)
               PROVE  <<a, b>> \in OrdRel
    BY Zenon
  <2>1. a \in ToSet(A) \/ a = x
    BY <1>9
  <2>2. a \in Items /\ key[a] <= key[x]
    BY <1>0, <1>3, <2>1
  <2>3. b \in Items /\ key[b] > key[x]
    BY <1>3
  <2>4. key[a] < key[b]
    BY <2>2, <2>3
  <2> QED
    BY <2>2, <2>3, <2>4 DEF OrdRel
<1>11. ToSet(AX) \cap ToSet(B) = {}
  <2>1. ToSet(A) \cap ToSet(B) = {} /\ x \notin ToSet(B)
    BY <1>3
  <2> QED
    BY <1>9, <2>1
<1>12. ToSet(AX \o B) = ToSet(L) \cup {x}
  <2>1. ToSet(AX \o B) = ToSet(AX) \cup ToSet(B)
    BY <1>2, <1>9, ConcatElems
  <2>2. ToSet(AX \o B) = (ToSet(L) \cap Le) \cup {x} \cup (ToSet(L) \cap Gt)
    BY <1>3, <1>9, <2>1
  <2> QED
    BY <1>0, <2>2
<1>14. AX \o B \in Seq(Items)
  BY <1>2, <1>9
<1>15. IsInjective(AX \o B)
  BY <1>2, <1>4, <1>9, <1>11, ConcatInjective
<1>16. SortedBy(AX \o B, OrdRel)
  BY <1>2, <1>5, <1>9, <1>10, ConcatSorted
<1> QED
  BY <1>12, <1>13, <1>14, <1>15, <1>16, Zenon


(***************************************************************************)
(* The sort.  If v lists items at increasing pool positions (as the        *)
(* filtered pool does), ListSort(v) lists the items of v once each, by key *)
(* and, for equal keys, in pool order.  By induction over the number of    *)
(* items inserted, each step by InsertStep.                                *)
(***************************************************************************)
LEMMA ListSortCorrect ==
  ASSUME key \in [Items -> Int],
         NEW v \in Seq(Items),
         \A a \in 1 .. Len(v) : PoolPos(v[a]) \in Int,
         \A a, b \in 1 .. Len(v) : a < b => PoolPos(v[a]) < PoolPos(v[b])
  PROVE  /\ ListSort(v) \in Seq(Items)
         /\ ToSet(ListSort(v)) = ToSet(v)
         /\ IsInjective(ListSort(v))
         /\ SortedBy(ListSort(v), OrdRel)
<1> DEFINE L == CHOOSE L : IsSortRec(L, v)
           SI(j) == /\ L[j] \in Seq(Items)
                    /\ ToSet(L[j]) = {v[a] : a \in 1 .. j}
                    /\ IsInjective(L[j])
                    /\ SortedBy(L[j], OrdRel)
<1>1. IsSortRec(L, v)
  BY SortFixpoint
<1> DEFINE Bad == {j \in 0 .. Len(v) : ~SI(j)}
<1>2. Bad = {}
  <2> SUFFICES ASSUME Bad # {} PROVE FALSE
    OBVIOUS
  <2>0. Bad \in SUBSET Nat
    OBVIOUS
  <2> HIDE DEF Bad, L, SI
  <2>1. PICK m \in Bad : \A j \in Bad : m <= j
    BY <2>0, NatLeast
  <2> USE DEF Bad
  <2>2. L[m] = SortStep(v, L, m)
    BY <1>1 DEF IsSortRec
  <2>3. CASE m = 0
    <3>1. L[m] = << >>
      BY <2>2, <2>3 DEF SortStep
    <3>2. SI(m)
      BY <2>3, <3>1 DEF SI, ToSet, IsInjective, SortedBy
    <3> QED
      BY <2>1, <3>2
  <2>4. CASE m # 0
    <3>0. m \in 0 .. Len(v)
      BY <2>1
    <3>1. m \in 1 .. Len(v) /\ m - 1 \in 0 .. Len(v)
      BY <3>0, <2>4
    <3>9. m - 1 \notin Bad
      BY <2>1, <3>1
    <3>2. SI(m - 1)
      BY <3>1, <3>9
    <3>10. /\ L[m - 1] \in Seq(Items)
           /\ ToSet(L[m - 1]) = {v[a] : a \in 1 .. m - 1}
           /\ IsInjective(L[m - 1])
           /\ SortedBy(L[m - 1], OrdRel)
      BY <3>2 DEF SI
    <3>3. L[m] = InsertByKey(L[m - 1], v[m])
      BY <2>2, <2>4 DEF SortStep
    <3>4. \A y \in ToSet(L[m - 1]) :
            PoolPos(y) \in Int /\ PoolPos(y) < PoolPos(v[m])
      <4> SUFFICES ASSUME NEW y \in ToSet(L[m - 1])
                   PROVE  PoolPos(y) \in Int /\ PoolPos(y) < PoolPos(v[m])
        OBVIOUS
      <4>1. PICK a \in 1 .. m - 1 : y = v[a]
        BY <3>10
      <4>2. a \in 1 .. Len(v) /\ a < m
        BY <3>1
      <4> QED
        BY <3>1, <4>1, <4>2
    <3>5. v[m] \in Items /\ PoolPos(v[m]) \in Int
      BY <3>1
    <3>6. /\ InsertByKey(L[m - 1], v[m]) \in Seq(Items)
          /\ ToSet(InsertByKey(L[m - 1], v[m])) = ToSet(L[m - 1]) \cup {v[m]}
          /\ IsInjective(InsertByKey(L[m - 1], v[m]))
          /\ SortedBy(InsertByKey(L[m - 1], v[m]), OrdRel)
      BY <3>10, <3>4, <3>5, InsertStep
    <3>7. {v[a] : a \in 1 .. m - 1} \cup {v[m]} = {v[a] : a \in 1 .. m}
      <4>1. \A a \in 1 .. m : a \in 1 .. m - 1 \/ a = m
        BY <3>1
      <4>2. \A a \in 1 .. m - 1 : a \in 1 .. m
        BY <3>1
      <4>3. m \in 1 .. m
        BY <3>1
      <4> QED
        BY <4>1, <4>2, <4>3, Zenon
    <3>8. SI(m)
      BY <3>3, <3>6, <3>7, <3>10 DEF SI
    <3> QED
      BY <2>1, <3>8
  <2> QED
    BY <2>3, <2>4
<1>3. Len(v) \in 0 .. Len(v) /\ ToSet(v) = {v[a] : a \in 1 .. Len(v)}
  BY DEF ToSet
<1>4. ListSort(v) = L[Len(v)]
  BY ListSortIsChoice
<1> QED
  BY <1>2, <1>3, <1>4


(***************************************************************************)
(* The pool as the model has it (SetToSeqs(Items)): a sequence that visits *)
(* every item exactly once, so PoolPos of the item at position k is k.    *)
(***************************************************************************)
LEMMA PoolFacts ==
  ASSUME pool \in SetToSeqs(Items)
  PROVE  /\ pool \in Seq(Items)
         /\ ToSet(pool) = Items
         /\ \A k \in 1 .. Len(pool) : PoolPos(pool[k]) = k
<1> DEFINE N == Cardinality(Items)
<1>1. N \in Nat
  BY SelectionAssumption, FS_CardinalityType
<1>2. pool \in [1 .. N -> Items] /\ \A i, j \in 1 .. N : i # j => pool[i] # pool[j]
  BY DEF SetToSeqs
<1>3. pool \in Seq(Items) /\ Len(pool) = N
  BY <1>1, <1>2
<1>4. ToSet(pool) = Items
  <2>1. pool \in Injection(1 .. N, Items)
    BY <1>2 DEF Injection, IsInjective
  <2>2. Cardinality(1 .. N) = N
    BY <1>1, FS_Interval
  <2>3. pool \in Surjection(1 .. N, Items)
    BY <2>1, <2>2, SelectionAssumption, FS_Injection
  <2> QED
    BY <1>2, <2>3 DEF Surjection, ToSet
<1>5. \A k \in 1 .. Len(pool) : PoolPos(pool[k]) = k
  <2> SUFFICES ASSUME NEW k \in 1 .. Len(pool) PROVE PoolPos(pool[k]) = k
    OBVIOUS
  <2>1. \A j \in 1 .. Len(pool) : pool[j] = pool[k] <=> j = k
    BY <1>2, <1>3
  <2> QED
    BY <2>1, Zenon DEF PoolPos
<1> QED
  BY <1>3, <1>4, <1>5


\* The items the type's filter admits.
ShowSet(t) == {i \in Items : ShowItem(t, i)}

(***************************************************************************)
(* fillSelectionList() is correct for every pool, keys and flags: the      *)
(* table it fills is a sequence of items that satisfies                    *)
(* TableIsSortedSelection.  The filtered pool lists items at increasing    *)
(* pool positions (FilterPicks), which is what ListSortCorrect needs.      *)
(***************************************************************************)
LEMMA FillCorrect ==
  ASSUME type \in SelTypes, pool \in SetToSeqs(Items),
         key \in [Items -> 0 .. MaxKey],
         lines = FillSelectionList(type)
  PROVE  lines \in Seq(Items) /\ TableIsSortedSelection
<1>1. pool \in Seq(Items) /\ ToSet(pool) = Items
      /\ \A k \in 1 .. Len(pool) : PoolPos(pool[k]) = k
  BY PoolFacts
<1>2. key \in [Items -> Int]
  BY SelectionAssumption
<1>3. CASE type = "S_Unknown"
  <2>1. lines = << >>
    BY <1>3 DEF FillSelectionList
  <2>2. ShowSet(type) = {}
    BY <1>3 DEF ShowSet, ShowItem
  <2> QED
    BY <2>1, <2>2 DEF TableIsSortedSelection, ShowSet, ToSet, IsInjective,
                      IsSorted
<1>4. CASE type # "S_Unknown"
  <2> DEFINE v == FilterSeq(pool, ShowSet(type))
  <2>1. lines = ListSort(v)
    BY <1>4 DEF FillSelectionList, ShowSet
  <2>2. v \in Seq(Items)
    <3>1. v \in Seq(Items \cap ShowSet(type))
      BY <1>1, FilterType
    <3> QED
      BY <3>1
  <2>3. PICK g : IsPicker(g, pool, ShowSet(type), v, Len(pool))
    BY <1>1, FilterPicks
  <2>7. ToSet(v) = {i \in Items : ShowItem(type, i)}
    BY <1>1, FilterElems DEF ShowSet
  <2> HIDE DEF v
  <2>4. \A a \in 1 .. Len(v) : PoolPos(v[a]) = g[a] /\ g[a] \in Int
    <3> SUFFICES ASSUME NEW a \in 1 .. Len(v)
                 PROVE  PoolPos(v[a]) = g[a] /\ g[a] \in Int
      OBVIOUS
    <3>1. g[a] \in 1 .. Len(pool) /\ v[a] = pool[g[a]]
      BY <2>3 DEF IsPicker
    <3> QED
      BY <1>1, <3>1
  <2>5. \A a, b \in 1 .. Len(v) : a < b => PoolPos(v[a]) < PoolPos(v[b])
    BY <2>3, <2>4 DEF IsPicker
  <2>6. /\ ListSort(v) \in Seq(Items)
        /\ ToSet(ListSort(v)) = ToSet(v)
        /\ IsInjective(ListSort(v))
        /\ SortedBy(ListSort(v), OrdRel)
    BY <1>2, <2>2, <2>4, <2>5, ListSortCorrect
  <2>8. \A i, j \in 1 .. Len(lines) : i < j =>
          \/ key[lines[i]] < key[lines[j]]
          \/ key[lines[i]] = key[lines[j]]
             /\ PoolPos(lines[i]) < PoolPos(lines[j])
    <3> SUFFICES ASSUME NEW i \in 1 .. Len(lines), NEW j \in 1 .. Len(lines),
                        i < j
                 PROVE  \/ key[lines[i]] < key[lines[j]]
                        \/ key[lines[i]] = key[lines[j]]
                           /\ PoolPos(lines[i]) < PoolPos(lines[j])
      OBVIOUS
    <3>0. SortedBy(lines, OrdRel)
      BY <2>1, <2>6
    <3>1. <<lines[i], lines[j]>> \in OrdRel
      BY <3>0 DEF SortedBy
    <3> QED
      BY <3>1 DEF OrdRel
  <2>9. ToSet(lines) = {i \in Items : ShowItem(type, i)} /\ IsInjective(lines)
    BY <2>1, <2>6, <2>7
  <2> QED
    <3>1. lines \in Seq(Items)
      BY <2>1, <2>6
    <3> QED
      BY <2>8, <2>9, <3>1, Zenon DEF TableIsSortedSelection, IsSorted
<1> QED
  BY <1>3, <1>4


-----------------------------------------------------------------------------
(***************************************************************************)
(* The inductive invariant: the type invariant, and the table is still     *)
(* what the constructor filled from the pool data (no action refills it). *)
(***************************************************************************)
IInv == TypeOK /\ lines = FillSelectionList(type)

\* The item under the cursor is an item of the table when there is a cursor.
LEMMA CurrentItemFacts ==
  ASSUME TypeOK
  PROVE  /\ current >= 0 => CurrentItem \in Items
         /\ CurrentItem \in Items \cup {NoItem}
<1>1. current >= 0 => current + 1 \in 1 .. Len(lines)
  BY DEF TypeOK
<1>2. current >= 0 => CurrentItem \in Items
  BY <1>1 DEF TypeOK, CurrentItem
<1> QED
  BY <1>2 DEF CurrentItem

LEMMA InitIInv == Init => IInv
<1> SUFFICES ASSUME Init PROVE IInv
  OBVIOUS
<1>1. lines \in Seq(Items)
  BY FillCorrect DEF Init
<1>2. current \in -1 .. Len(lines) - 1
  BY <1>1 DEF Init, FirstLine
<1> QED
  BY <1>1, <1>2 DEF Init, IInv, TypeOK, Details, Events

\* Every step keeps the invariant: no step changes the table or the pool.
LEMMA NextIInv == IInv /\ [Next]_vars => IInv'
<1> SUFFICES ASSUME IInv, [Next]_vars PROVE IInv'
  OBVIOUS
<1>1. /\ type' = type /\ pool' = pool /\ key' = key
      /\ visible' = visible /\ base' = base /\ userVisible' = userVisible
      /\ lines' = lines /\ hasTable' = hasTable
  <2>1. CASE ShowSelectionPopup
    BY <2>1 DEF ShowSelectionPopup, poolVars
  <2>2. CASE \E i \in 0 .. Len(lines) - 1 : MoveCursor(i)
    BY <2>2 DEF MoveCursor, poolVars
  <2>3. CASE \E ev \in Events : PopupRound(ev)
    BY <2>3 DEF PopupRound, poolVars
  <2>4. CASE UNCHANGED vars
    BY <2>4 DEF vars
  <2> QED
    BY <2>1, <2>2, <2>3, <2>4 DEF Next
<1>2. (lines = FillSelectionList(type))'
  <2>1. FillSelectionList(type)' = FillSelectionList(type)
    BY <1>1 DEF FillSelectionList, ListSort, ShowItem, InsertByKey
  <2> QED
    BY <1>1, <2>1 DEF IInv
<1>3. /\ type' \in SelTypes /\ pool' \in SetToSeqs(Items)
      /\ key' \in [Items -> 0 .. MaxKey]
      /\ visible' \subseteq Items /\ base' \subseteq Items
      /\ userVisible' \subseteq Items
      /\ hasTable' \in BOOLEAN /\ lines' \in Seq(Items)
  BY <1>1 DEF IInv, TypeOK
<1>4. /\ current' \in -1 .. Len(lines') - 1
      /\ open' \in BOOLEAN
      /\ postevent' \in [ev : Events \cup {"none"}, detail : Details]
      /\ shownSel' \in Items \cup {NoItem}
  <2>1. CASE ShowSelectionPopup
    BY <1>1, <2>1 DEF IInv, TypeOK, ShowSelectionPopup, Details
  <2>2. CASE \E i \in 0 .. Len(lines) - 1 : MoveCursor(i)
    BY <1>1, <2>2 DEF IInv, TypeOK, MoveCursor
  <2>3. CASE \E ev \in Events : PopupRound(ev)
    <3>1. PICK ev \in Events : PopupRound(ev)
      BY <2>3
    <3>2. CurrentItem \in Items \cup {NoItem}
      BY CurrentItemFacts DEF IInv
    <3>3. PostAgainDetail(ev, "NODETAIL") \in Details
      BY DEF PostAgainDetail, Details
    <3>4. postevent' \in [ev : Events \cup {"none"}, detail : Details]
      BY <3>1, <3>3 DEF PopupRound
    <3>5. shownSel' \in Items \cup {NoItem}
      BY <3>1, <3>2 DEF IInv, TypeOK, PopupRound
    <3>6. current' \in -1 .. Len(lines') - 1 /\ open' \in BOOLEAN
      BY <1>1, <3>1 DEF IInv, TypeOK, PopupRound
    <3> QED
      BY <3>4, <3>5, <3>6
  <2>4. CASE UNCHANGED vars
    BY <1>1, <2>4 DEF IInv, TypeOK, vars
  <2> QED
    BY <2>1, <2>2, <2>3, <2>4 DEF Next
<1> QED
  BY <1>2, <1>3, <1>4 DEF IInv, TypeOK

(***************************************************************************)
(* For every pool, keys and flags, every state of the popup is well typed: *)
(* in particular the cursor is -1 or a line of the table, so              *)
(* getCurrentItem() never reads past the table.                           *)
(***************************************************************************)
THEOREM SelectionTypeCorrect == Spec => []TypeOK
<1>1. IInv => TypeOK
  BY DEF IInv
<1> QED
  BY <1>1, InitIInv, NextIInv, PTL DEF Spec

(***************************************************************************)
(* For every pool, keys and flags, the table fillSelectionList() fills    *)
(* lists exactly the items the type's filter admits, each once, by key,    *)
(* and items with equal keys in pool order: the stable sort of the        *)
(* comparators order(), orderPattern() and orderLang().                   *)
(***************************************************************************)
THEOREM TableSorted == Spec => []TableIsSortedSelection
<1>1. IInv => TableIsSortedSelection
  BY FillCorrect DEF IInv, TypeOK
<1> QED
  BY <1>1, InitIInv, NextIInv, PTL DEF Spec

(***************************************************************************)
(* Leaving the popup with OK, with a packager and a cursor, shows the     *)
(* packages of the item under the cursor; leaving it with ESC shows       *)
(* nothing new (showSelectionPopup()'s test of postevent.detail).          *)
(***************************************************************************)
THEOREM OkShowsCursor == Spec => OkShowsCursorItem
<1>1. IInv /\ [Next]_vars =>
        [open /\ ~open' /\ HasPackager /\ current >= 0 =>
           shownSel' = IF postevent'.ev = "okButton" THEN CurrentItem
                       ELSE shownSel]_vars
  <2> SUFFICES ASSUME IInv, [Next]_vars,
                      open, ~open', HasPackager, current >= 0
               PROVE  shownSel' = IF postevent'.ev = "okButton" THEN CurrentItem
                                  ELSE shownSel
    OBVIOUS
  <2>1. CurrentItem \in Items /\ CurrentItem # NoItem
    BY CurrentItemFacts, SelectionAssumption DEF IInv
  <2>2. CASE \E ev \in Events : PopupRound(ev)
    <3>1. PICK ev \in Events : PopupRound(ev)
      BY <2>2
    <3>2. ev \in {"esc", "okButton"}
      BY <3>1 DEF PopupRound, PostAgain
    <3>3. CASE ev = "okButton"
      BY <2>1, <3>1, <3>3 DEF PopupRound, PostAgain, PostAgainDetail
    <3>4. CASE ev = "esc"
      BY <3>1, <3>4 DEF PopupRound, PostAgain, PostAgainDetail
    <3> QED
      BY <3>2, <3>3, <3>4
  <2>3. CASE ShowSelectionPopup \/ \E i \in 0 .. Len(lines) - 1 : MoveCursor(i)
    BY <2>3 DEF ShowSelectionPopup, MoveCursor
  <2>4. CASE UNCHANGED vars
    BY <2>4 DEF vars
  <2> QED
    BY <2>2, <2>3, <2>4 DEF Next
<1> QED
  BY <1>1, InitIInv, NextIInv, PTL DEF Spec, OkShowsCursorItem

=============================================================================
