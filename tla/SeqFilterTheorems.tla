------------------------- MODULE SeqFilterTheorems -------------------------
(***************************************************************************)
(* Facts about FilterSeq, proved by induction on the position in the       *)
(* sequence.  The induction is done by least counterexample (NatLeast):    *)
(* the set of positions where a fact fails is shown to have no least       *)
(* element.                                                                *)
(***************************************************************************)
EXTENDS SeqFilter, SequencesExt, WellFoundedInduction, TLAPS

\* A function F that satisfies the recursion of FilterSeq(s, K).
IsFilter(F, s, K) == F = [i \in 0 .. Len(s) |-> FilterStep(s, K, F, i)]

(***************************************************************************)
(* f picks r out of the first n elements of s: r is s read at the          *)
(* increasing positions f, and every position up to n whose element is in  *)
(* K is picked.                                                            *)
(***************************************************************************)
IsPicker(f, s, K, r, n) ==
    /\ f \in [1 .. Len(r) -> 1 .. n]
    /\ \A a, b \in 1 .. Len(r) : a < b => f[a] < f[b]
    /\ \A a \in 1 .. Len(r) : r[a] = s[f[a]]
    /\ \A i \in 1 .. n : s[i] \in K => \E a \in 1 .. Len(r) : f[a] = i

\* s lists its elements in the order the relation R (a set of pairs) gives.
SortedBy(s, R) == \A i, j \in 1 .. Len(s) : i < j => <<s[i], s[j]>> \in R

\* A function g on 0..k that satisfies that recursion up to k.
PartialFilter(g, s, K, k) ==
    /\ DOMAIN g = 0 .. k
    /\ \A i \in 0 .. k : g[i] = FilterStep(s, K, g, i)

(***************************************************************************)
(* Every non-empty set of naturals has a least element: < is well founded  *)
(* on Nat.  Together with a set of counterexamples this is induction on   *)
(* the naturals for a predicate written out in the proof, which needs no  *)
(* instantiation of an operator parameter.                                *)
(***************************************************************************)
LEMMA NatLeast ==
  ASSUME NEW T \in SUBSET Nat, T # {}
  PROVE  \E m \in T : \A k \in T : m <= k
<1>1. PICK x \in T : \A y \in T : ~(<<y, x>> \in OpToRel(<, Nat))
  BY WFMin, NatLessThanWellFounded
<1>2. \A y \in T : y < x => <<y, x>> \in OpToRel(<, Nat)
  BY Zenon DEF OpToRel
<1>3. \A y \in T : ~(y < x)
  BY <1>1, <1>2, Zenon
<1> QED
  BY <1>3

\* FilterSeq is the last value of a function that satisfies its recursion.
LEMMA FilterIsChoice ==
  ASSUME NEW s, NEW K
  PROVE  FilterSeq(s, K) = (CHOOSE F : IsFilter(F, s, K))[Len(s)]
  BY DEF FilterSeq, IsFilter

\* The recursion of FilterSeq has a solution on every prefix 0..k of 0..Len(s).
LEMMA PartialFilterExists ==
  ASSUME NEW S, NEW s \in Seq(S), NEW K, NEW k \in 0 .. Len(s)
  PROVE  \E g : PartialFilter(g, s, K, k)
<1> DEFINE Bad == {j \in 0 .. Len(s) : ~\E g : PartialFilter(g, s, K, j)}
<1> SUFFICES Bad = {}
  OBVIOUS
<1> SUFFICES ASSUME Bad # {} PROVE FALSE
  OBVIOUS
<1>0. Bad \in SUBSET Nat
  OBVIOUS
<1> HIDE DEF Bad
<1>1. PICK m \in Bad : \A j \in Bad : m <= j
  BY <1>0, NatLeast
<1> USE DEF Bad
<1>2. CASE m = 0
  <2> DEFINE g0 == [i \in {0} |-> << >>]
  <2>1. PartialFilter(g0, s, K, 0)
    BY DEF PartialFilter, FilterStep
  <2> QED
    BY <1>1, <1>2, <2>1
<1>3. CASE m # 0
  <2>1. m - 1 \in 0 .. Len(s) /\ m - 1 \notin Bad
    BY <1>1, <1>3
  <2>2. PICK g : PartialFilter(g, s, K, m - 1)
    BY <2>1
  <2> DEFINE g2 == [i \in 0 .. m |-> IF i < m THEN g[i]
                                     ELSE FilterStep(s, K, g, m)]
  <2>3. \A i \in 0 .. m : FilterStep(s, K, g2, i) = FilterStep(s, K, g, i)
    BY <1>3, <2>2 DEF FilterStep, PartialFilter
  <2>4. \A i \in 0 .. m : g2[i] = FilterStep(s, K, g, i)
    BY <1>1, <1>3, <2>2 DEF PartialFilter
  <2>5. PartialFilter(g2, s, K, m)
    BY <2>3, <2>4 DEF PartialFilter
  <2> QED
    BY <1>1, <2>5
<1> QED
  BY <1>2, <1>3


\* So the function that FilterSeq chooses does satisfy the recursion.
LEMMA FilterFixpoint ==
  ASSUME NEW S, NEW s \in Seq(S), NEW K
  PROVE  IsFilter(CHOOSE F : IsFilter(F, s, K), s, K)
<1>0. Len(s) \in 0 .. Len(s)
  OBVIOUS
<1>1. PICK g : PartialFilter(g, s, K, Len(s))
  BY <1>0, PartialFilterExists
<1>2. IsFilter(g, s, K)
  BY <1>1 DEF PartialFilter, IsFilter
<1> QED
  BY <1>2

\* Every value the recursion of FilterSeq goes through is such a sequence.
LEMMA FilterPrefixType ==
  ASSUME NEW S, NEW s \in Seq(S), NEW K
  PROVE  \A j \in 0 .. Len(s) :
           (CHOOSE F : IsFilter(F, s, K))[j] \in Seq(S \cap K)
<1> DEFINE F == CHOOSE F : IsFilter(F, s, K)
<1>1. IsFilter(F, s, K)
  BY FilterFixpoint
<1> DEFINE Bad == {j \in 0 .. Len(s) : F[j] \notin Seq(S \cap K)}
<1>2. Bad = {}
  <2> SUFFICES ASSUME Bad # {} PROVE FALSE
    OBVIOUS
  <2>0. Bad \in SUBSET Nat
    OBVIOUS
  <2> HIDE DEF Bad, F
  <2>1. PICK m \in Bad : \A j \in Bad : m <= j
    BY <2>0, NatLeast
  <2> USE DEF Bad
  <2>2. F[m] = FilterStep(s, K, F, m)
    BY <1>1 DEF IsFilter
  <2>3. CASE m = 0
    <3>1. F[m] = << >>
      BY <2>2, <2>3 DEF FilterStep
    <3>2. << >> \in Seq(S \cap K)
      OBVIOUS
    <3> QED
      BY <2>1, <3>1, <3>2
  <2>4. CASE m # 0
    <3>1. F[m - 1] \in Seq(S \cap K)
      BY <2>1, <2>4
    <3>2. s[m] \in S
      BY <2>1, <2>4
    <3>3. CASE s[m] \in K
      <4>1. F[m] = Append(F[m - 1], s[m])
        BY <2>2, <2>4, <3>3 DEF FilterStep
      <4>2. Append(F[m - 1], s[m]) \in Seq(S \cap K)
        BY <3>1, <3>2, <3>3
      <4> QED
        BY <2>1, <4>1, <4>2
    <3>4. CASE s[m] \notin K
      <4>1. F[m] = F[m - 1]
        BY <2>2, <2>4, <3>4 DEF FilterStep
      <4> QED
        BY <2>1, <3>1, <4>1
    <3> QED
      BY <3>3, <3>4
  <2> QED
    BY <2>3, <2>4
<1> QED
  BY <1>2

(***************************************************************************)
(* The filter of a sequence over S is a sequence of elements of S that    *)
(* are in K: what the loops of fillDepsPackageList() and                   *)
(* evaluateErrorResult() append passes their test.                        *)
(***************************************************************************)
LEMMA FilterType ==
  ASSUME NEW S, NEW s \in Seq(S), NEW K
  PROVE  FilterSeq(s, K) \in Seq(S \cap K)
<1>1. Len(s) \in 0 .. Len(s)
  OBVIOUS
<1> QED
  BY <1>1, FilterPrefixType, FilterIsChoice


(***************************************************************************)
(* The filter is the subsequence of s of the elements in K: it reads s at  *)
(* increasing positions and skips no element of K.  The order, the         *)
(* elements and the absence of duplicates of the filter all follow.        *)
(***************************************************************************)
LEMMA FilterPicks ==
  ASSUME NEW S, NEW s \in Seq(S), NEW K
  PROVE  \E f : IsPicker(f, s, K, FilterSeq(s, K), Len(s))
<1> DEFINE F == CHOOSE F : IsFilter(F, s, K)
<1>1. IsFilter(F, s, K)
  BY FilterFixpoint
<1>2. \A j \in 0 .. Len(s) : F[j] \in Seq(S \cap K)
  BY FilterPrefixType
<1> DEFINE Bad == {j \in 0 .. Len(s) : ~\E f : IsPicker(f, s, K, F[j], j)}
<1>3. Bad = {}
  <2> SUFFICES ASSUME Bad # {} PROVE FALSE
    OBVIOUS
  <2>0. Bad \in SUBSET Nat
    OBVIOUS
  <2> HIDE DEF Bad, F
  <2>1. PICK m \in Bad : \A j \in Bad : m <= j
    BY <2>0, NatLeast
  <2> USE DEF Bad
  <2>2. F[m] = FilterStep(s, K, F, m)
    BY <1>1 DEF IsFilter
  <2>3. CASE m = 0
    <3>1. F[m] = << >>
      BY <2>2, <2>3 DEF FilterStep
    <3>2. IsPicker(<< >>, s, K, F[m], m)
      BY <2>3, <3>1 DEF IsPicker
    <3> QED
      BY <2>1, <3>2
  <2>4. CASE m # 0
    <3> DEFINE r == F[m - 1]
    <3>1. m \in 1 .. Len(s) /\ m - 1 \in 0 .. Len(s) /\ m - 1 \notin Bad
      BY <2>1, <2>4
    <3>2. r \in Seq(S \cap K)
      BY <1>2, <3>1
    <3>3. PICK f : IsPicker(f, s, K, r, m - 1)
      BY <3>1
    <3>4. CASE s[m] \in K
      <4> DEFINE f2 == [a \in 1 .. Len(r) + 1 |->
                          IF a <= Len(r) THEN f[a] ELSE m]
      <4>1. F[m] = Append(r, s[m])
        BY <2>2, <2>4, <3>4 DEF FilterStep
      <4>2. Len(F[m]) = Len(r) + 1
        BY <3>2, <4>1
      <4>3. f2 \in [1 .. Len(F[m]) -> 1 .. m]
        BY <3>1, <3>2, <3>3, <4>2 DEF IsPicker
      <4>4. \A a, b \in 1 .. Len(F[m]) : a < b => f2[a] < f2[b]
        <5> SUFFICES ASSUME NEW a \in 1 .. Len(F[m]), NEW b \in 1 .. Len(F[m]),
                            a < b
                     PROVE  f2[a] < f2[b]
          OBVIOUS
        <5>0. Len(r) \in Nat /\ m \in Nat
          BY <3>1, <3>2
        <5>1. a \in 1 .. Len(r)
          BY <4>2, <5>0
        <5>6. f2[a] = f[a]
          BY <5>1
        <5>7. f[a] \in 1 .. m - 1
          BY <3>3, <5>1 DEF IsPicker
        <5>2. CASE b <= Len(r)
          BY <3>3, <4>2, <5>0, <5>1, <5>6, <5>2 DEF IsPicker
        <5>3. CASE b > Len(r)
          BY <4>2, <5>0, <5>1, <5>6, <5>7, <5>3
        <5> QED
          BY <5>2, <5>3
      <4>5. \A a \in 1 .. Len(F[m]) : F[m][a] = s[f2[a]]
        BY <3>2, <3>3, <4>1, <4>2 DEF IsPicker
      <4>6. \A i \in 1 .. m : s[i] \in K =>
              \E a \in 1 .. Len(F[m]) : f2[a] = i
        <5> SUFFICES ASSUME NEW i \in 1 .. m, s[i] \in K
                     PROVE  \E a \in 1 .. Len(F[m]) : f2[a] = i
          OBVIOUS
        <5>1. CASE i = m
          BY <3>2, <4>2, <5>1
        <5>2. CASE i # m
          <6>1. PICK a \in 1 .. Len(r) : f[a] = i
            BY <3>1, <3>3, <5>2 DEF IsPicker
          <6>2. a \in 1 .. Len(F[m]) /\ f2[a] = f[a]
            BY <3>2, <4>2
          <6> QED
            BY <6>1, <6>2
        <5> QED
          BY <5>1, <5>2
      <4>7. IsPicker(f2, s, K, F[m], m)
        BY <4>3, <4>4, <4>5, <4>6 DEF IsPicker
      <4> QED
        BY <2>1, <4>7
    <3>5. CASE s[m] \notin K
      <4>1. F[m] = r
        BY <2>2, <2>4, <3>5 DEF FilterStep
      <4>2. f \in [1 .. Len(r) -> 1 .. m]
        BY <3>1, <3>3 DEF IsPicker
      <4>3. \A i \in 1 .. m : s[i] \in K => \E a \in 1 .. Len(r) : f[a] = i
        BY <3>1, <3>3, <3>5 DEF IsPicker
      <4>4. IsPicker(f, s, K, F[m], m)
        BY <3>3, <4>1, <4>2, <4>3 DEF IsPicker
      <4> QED
        BY <2>1, <4>4
    <3> QED
      BY <3>4, <3>5
  <2> QED
    BY <2>3, <2>4
<1>4. Len(s) \in 0 .. Len(s)
  OBVIOUS
<1> QED
  BY <1>3, <1>4, FilterIsChoice


\* The filter holds the elements of s that are in K.
LEMMA FilterElems ==
  ASSUME NEW S, NEW s \in Seq(S), NEW K
  PROVE  ToSet(FilterSeq(s, K)) = ToSet(s) \cap K
<1> DEFINE r == FilterSeq(s, K)
<1>1. r \in Seq(S \cap K)
  BY FilterType
<1>2. PICK f : IsPicker(f, s, K, r, Len(s))
  BY FilterPicks
<1>3. ToSet(r) \subseteq ToSet(s) \cap K
  <2> SUFFICES ASSUME NEW a \in 1 .. Len(r) PROVE r[a] \in ToSet(s) \cap K
    BY <1>1 DEF ToSet
  <2>1. f[a] \in 1 .. Len(s) /\ r[a] = s[f[a]]
    BY <1>2 DEF IsPicker
  <2> QED
    BY <1>1, <2>1 DEF ToSet
<1>4. ToSet(s) \cap K \subseteq ToSet(r)
  <2> SUFFICES ASSUME NEW i \in 1 .. Len(s), s[i] \in K PROVE s[i] \in ToSet(r)
    BY DEF ToSet
  <2>1. PICK a \in 1 .. Len(r) : f[a] = i
    BY <1>2 DEF IsPicker
  <2>2. r[a] = s[i]
    BY <1>2, <2>1 DEF IsPicker
  <2> QED
    BY <1>1, <2>2 DEF ToSet
<1> QED
  BY <1>3, <1>4

\* The filter of a sequence without duplicates has none.
LEMMA FilterInjective ==
  ASSUME NEW S, NEW s \in Seq(S), NEW K, IsInjective(s)
  PROVE  IsInjective(FilterSeq(s, K))
<1> DEFINE r == FilterSeq(s, K)
<1>1. r \in Seq(S \cap K)
  BY FilterType
<1>2. PICK f : IsPicker(f, s, K, r, Len(s))
  BY FilterPicks
<1> SUFFICES ASSUME NEW a \in 1 .. Len(r), NEW b \in 1 .. Len(r), r[a] = r[b]
             PROVE  a = b
  BY <1>1 DEF IsInjective
<1>3. f[a] \in 1 .. Len(s) /\ f[b] \in 1 .. Len(s) /\ s[f[a]] = s[f[b]]
  BY <1>2 DEF IsPicker
<1>4. f[a] = f[b]
  BY <1>3 DEF IsInjective
<1>5. ~(a < b) /\ ~(b < a)
  BY <1>2, <1>4 DEF IsPicker
<1> QED
  BY <1>1, <1>5

\* The filter of a sequence in R-order is in R-order.
LEMMA FilterSorted ==
  ASSUME NEW S, NEW s \in Seq(S), NEW K, NEW R, SortedBy(s, R)
  PROVE  SortedBy(FilterSeq(s, K), R)
<1> DEFINE r == FilterSeq(s, K)
<1>1. r \in Seq(S \cap K)
  BY FilterType
<1>2. PICK f : IsPicker(f, s, K, r, Len(s))
  BY FilterPicks
<1> SUFFICES ASSUME NEW a \in 1 .. Len(r), NEW b \in 1 .. Len(r), a < b
             PROVE  <<r[a], r[b]>> \in R
  BY DEF SortedBy
<1>3. f[a] \in 1 .. Len(s) /\ f[b] \in 1 .. Len(s) /\ f[a] < f[b]
  BY <1>2 DEF IsPicker
<1>4. r[a] = s[f[a]] /\ r[b] = s[f[b]]
  BY <1>2 DEF IsPicker
<1> QED
  BY <1>3, <1>4 DEF SortedBy

\* The elements of a concatenation are those of its parts.
LEMMA ConcatElems ==
  ASSUME NEW S, NEW A \in Seq(S), NEW B \in Seq(S)
  PROVE  ToSet(A \o B) = ToSet(A) \cup ToSet(B)
<1>1. \A i \in 1 .. Len(A) + Len(B) :
        (A \o B)[i] = IF i <= Len(A) THEN A[i] ELSE B[i - Len(A)]
  OBVIOUS
<1>2. ToSet(A \o B) \subseteq ToSet(A) \cup ToSet(B)
  BY <1>1 DEF ToSet
<1>3. ToSet(A) \subseteq ToSet(A \o B)
  <2>0. DOMAIN A = 1 .. Len(A)
    OBVIOUS
  <2> SUFFICES ASSUME NEW i \in 1 .. Len(A) PROVE A[i] \in ToSet(A \o B)
    BY <2>0, Zenon DEF ToSet
  <2> QED
    BY <1>1 DEF ToSet
<1>4. ToSet(B) \subseteq ToSet(A \o B)
  <2>0. DOMAIN B = 1 .. Len(B)
    OBVIOUS
  <2> SUFFICES ASSUME NEW i \in 1 .. Len(B) PROVE B[i] \in ToSet(A \o B)
    BY <2>0, Zenon DEF ToSet
  <2>1. Len(A) + i \in 1 .. Len(A) + Len(B) /\ (A \o B)[Len(A) + i] = B[i]
    BY <1>1
  <2> QED
    BY <2>1 DEF ToSet
<1> QED
  BY <1>2, <1>3, <1>4


\* Two sequences without duplicates and with no common element concatenate
\* to a sequence without duplicates.
LEMMA ConcatInjective ==
  ASSUME NEW S, NEW A \in Seq(S), NEW B \in Seq(S),
         IsInjective(A), IsInjective(B), ToSet(A) \cap ToSet(B) = {}
  PROVE  IsInjective(A \o B)
<1> DEFINE C == A \o B
<1>1. \A i \in 1 .. Len(A) + Len(B) :
        C[i] = IF i <= Len(A) THEN A[i] ELSE B[i - Len(A)]
  OBVIOUS
<1> SUFFICES ASSUME NEW a \in 1 .. Len(A) + Len(B),
                    NEW b \in 1 .. Len(A) + Len(B), C[a] = C[b]
             PROVE  a = b
  BY DEF IsInjective
<1>2. CASE a <= Len(A) /\ b <= Len(A)
  BY <1>1, <1>2 DEF IsInjective
<1>3. CASE a > Len(A) /\ b > Len(A)
  <2>1. a - Len(A) \in 1 .. Len(B) /\ b - Len(A) \in 1 .. Len(B)
    BY <1>3
  <2>2. B[a - Len(A)] = B[b - Len(A)]
    BY <1>1, <1>3
  <2> QED
    BY <2>1, <2>2 DEF IsInjective
<1>4. CASE a <= Len(A) /\ b > Len(A)
  <2>1. C[a] \in ToSet(A) /\ C[b] \in ToSet(B)
    BY <1>1, <1>4 DEF ToSet
  <2> QED
    BY <2>1
<1>5. CASE a > Len(A) /\ b <= Len(A)
  <2>1. C[b] \in ToSet(A) /\ C[a] \in ToSet(B)
    BY <1>1, <1>5 DEF ToSet
  <2> QED
    BY <2>1
<1> QED
  BY <1>2, <1>3, <1>4, <1>5

\* Two sequences in R-order, every element of the first R-before every
\* element of the second, concatenate to a sequence in R-order.
LEMMA ConcatSorted ==
  ASSUME NEW S, NEW A \in Seq(S), NEW B \in Seq(S), NEW R,
         SortedBy(A, R), SortedBy(B, R),
         \A x \in ToSet(A), y \in ToSet(B) : <<x, y>> \in R
  PROVE  SortedBy(A \o B, R)
<1> DEFINE C == A \o B
<1>1. \A i \in 1 .. Len(A) + Len(B) :
        C[i] = IF i <= Len(A) THEN A[i] ELSE B[i - Len(A)]
  OBVIOUS
<1> SUFFICES ASSUME NEW a \in 1 .. Len(A) + Len(B),
                    NEW b \in 1 .. Len(A) + Len(B), a < b
             PROVE  <<C[a], C[b]>> \in R
  BY DEF SortedBy
<1>2. CASE b <= Len(A)
  <2>1. a \in 1 .. Len(A) /\ b \in 1 .. Len(A)
    BY <1>2
  <2>2. C[a] = A[a] /\ C[b] = A[b]
    BY <1>1, <2>1
  <2> QED
    BY <2>1, <2>2 DEF SortedBy
<1>3. CASE a > Len(A)
  <2>1. a - Len(A) \in 1 .. Len(B) /\ b - Len(A) \in 1 .. Len(B)
        /\ a - Len(A) < b - Len(A)
    BY <1>3
  <2>2. C[a] = B[a - Len(A)] /\ C[b] = B[b - Len(A)]
    BY <1>1, <1>3
  <2> QED
    BY <2>1, <2>2 DEF SortedBy
<1>4. CASE a <= Len(A) /\ b > Len(A)
  <2>1. C[a] \in ToSet(A) /\ C[b] \in ToSet(B)
    BY <1>1, <1>4 DEF ToSet
  <2> QED
    BY <2>1
<1>5. b <= Len(A) \/ a > Len(A) \/ (a <= Len(A) /\ b > Len(A))
  OBVIOUS
<1> QED
  BY <1>2, <1>3, <1>4, <1>5, Zenon

=============================================================================
