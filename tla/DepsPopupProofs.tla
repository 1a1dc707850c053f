-------------------------- MODULE DepsPopupProofs --------------------------
(***************************************************************************)
(* Proofs about the dependency popup: the table it fills is well typed and *)
(* every line points at the error result it shows, and pressing Solve      *)
(* keeps the cursor on its package.                                        *)
(***************************************************************************)
EXTENDS DepsPopup, SeqFilterTheorems

\* The test of fillDepsPackageList(): the results that name a package.
NamesPkg(deps) == {i \in 1 .. Len(deps) : deps[i].solvable # NoPkg}

(***************************************************************************)
(* The indices fillDepsPackageList() shows are positions of               *)
(* `dependencies' whose result names a package.                           *)
(***************************************************************************)
LEMMA ShownFacts ==
  ASSUME NEW deps \in Seq(ErrorResults)
  PROVE  /\ Shown(deps) \in Seq(1 .. Len(deps))
         /\ \A k \in 1 .. Len(Shown(deps)) :
              deps[Shown(deps)[k]].solvable \in Pkgs
<1> DEFINE ids == [i \in 1 .. Len(deps) |-> i]
<1>1. ids \in Seq(1 .. Len(deps))
  OBVIOUS
<1>2. Shown(deps) \in Seq((1 .. Len(deps)) \cap NamesPkg(deps))
  BY <1>1, FilterType DEF Shown, NamesPkg
<1>3. ASSUME NEW k \in 1 .. Len(Shown(deps))
      PROVE  deps[Shown(deps)[k]].solvable \in Pkgs
  <2>1. Shown(deps)[k] \in 1 .. Len(deps)
        /\ deps[Shown(deps)[k]].solvable # NoPkg
    BY <1>2 DEF NamesPkg
  <2>2. deps[Shown(deps)[k]] \in ErrorResults
    BY <2>1
  <2> QED
    BY <2>1, <2>2, DepsAssumption
<1> QED
  BY <1>2, <1>3

(***************************************************************************)
(* fillDepsPackageList() builds a table of lines, each naming a package    *)
(* and carrying the position of the result it shows.                      *)
(***************************************************************************)
LEMMA FillFacts ==
  ASSUME NEW deps \in Seq(ErrorResults)
  PROVE  LET tbl == FillDepsPackageList(deps)
         IN  /\ tbl \in Seq(Lines)
             /\ \A k \in 1 .. Len(tbl) :
                  /\ tbl[k].index < Len(deps)
                  /\ deps[tbl[k].index + 1].solvable = tbl[k].pkg
<1> DEFINE idx == Shown(deps)
<1>1. idx \in Seq(1 .. Len(deps))
  BY ShownFacts
<1>2. \A k \in 1 .. Len(idx) : deps[idx[k]].solvable \in Pkgs
  BY ShownFacts
<1>3. \A e \in ErrorResults : DependencyKind(e) \in Kinds
  BY DEF DependencyKind, Kinds
<1>4. \A k \in 1 .. Len(idx) : idx[k] - 1 \in Nat /\ idx[k] - 1 < Len(deps)
  BY <1>1
<1>5. FillDepsPackageList(deps) \in Seq(Lines)
  BY <1>1, <1>2, <1>3, <1>4 DEF FillDepsPackageList, Lines
<1> QED
  BY <1>1, <1>5 DEF FillDepsPackageList

(***************************************************************************)
(* evaluateErrorResult() only appends error results.                      *)
(***************************************************************************)
\* A badList of solveInstall() is a sequence of error results.
LEMMA BadIsSeq ==
  ASSUME NEW bad \in BadLists
  PROVE  bad \in Seq(ErrorResults)
<1>1. PICK n \in 1 .. MaxBad : bad \in [1 .. n -> ErrorResults]
  BY DEF BadLists
<1>2. n \in Nat
  BY DepsAssumption
<1> QED
  BY <1>1, <1>2

LEMMA EvaluateType ==
  ASSUME NEW deps \in Seq(ErrorResults), NEW bad \in BadLists
  PROVE  EvaluateErrorResult(deps, bad) \in Seq(ErrorResults)
<1>1. bad \in Seq(ErrorResults)
  BY BadIsSeq
<1> DEFINE new == FilterSeq(bad, {e \in ErrorResults : Kept(e)})
<1>2. new \in Seq(ErrorResults \cap {e \in ErrorResults : Kept(e)})
  BY <1>1, FilterType
<1>3. new \in Seq(ErrorResults)
  BY <1>2
<1> HIDE DEF new
<1>4. deps \o new \in Seq(ErrorResults)
  BY <1>3
<1> QED
  BY <1>4 DEF EvaluateErrorResult, new

(***************************************************************************)
(* The search in postAgain() returns -1 or a line of the table; it finds a *)
(* line whose package is ptr, and finds one whenever there is one.        *)
(***************************************************************************)
LEMMA FindLineOfFacts ==
  ASSUME NEW tbl \in Seq(Lines), NEW ptr
  PROVE  /\ FindLineOf(tbl, ptr) \in -1 .. Len(tbl) - 1
         /\ FindLineOf(tbl, ptr) >= 0 =>
              tbl[FindLineOf(tbl, ptr) + 1].pkg = ptr
         /\ (\E i \in 0 .. Len(tbl) - 1 : tbl[i + 1].pkg = ptr) =>
              FindLineOf(tbl, ptr) >= 0
<1>1. CASE \E i \in 0 .. Len(tbl) - 1 : tbl[i + 1].pkg = ptr
  <2>1. \E i \in 0 .. Len(tbl) - 1 :
          /\ tbl[i + 1].pkg = ptr
          /\ \A j \in 0 .. i - 1 : tbl[j + 1].pkg # ptr
    <3> DEFINE Hits == {i \in 0 .. Len(tbl) - 1 : tbl[i + 1].pkg = ptr}
    <3>1. Hits \in SUBSET Nat /\ Hits # {}
      <4>1. Len(tbl) \in Nat
        OBVIOUS
      <4>2. Hits \subseteq Nat
        BY <4>1
      <4>3. PICK i \in 0 .. Len(tbl) - 1 : tbl[i + 1].pkg = ptr
        BY <1>1
      <4>4. i \in Hits
        BY <4>3
      <4> QED
        BY <4>2, <4>4
    <3> HIDE DEF Hits
    <3>2. PICK m \in Hits : \A j \in Hits : m <= j
      BY <3>1, NatLeast
    <3> QED
      BY <3>2 DEF Hits
  <2> DEFINE c == CHOOSE i \in 0 .. Len(tbl) - 1 :
                    /\ tbl[i + 1].pkg = ptr
                    /\ \A j \in 0 .. i - 1 : tbl[j + 1].pkg # ptr
  <2>2. c \in 0 .. Len(tbl) - 1 /\ tbl[c + 1].pkg = ptr
    BY <2>1, Zenon
  <2>3. FindLineOf(tbl, ptr) = c
    BY <1>1 DEF FindLineOf
  <2>4. c \in Int /\ c >= 0 /\ c <= Len(tbl) - 1
    BY <2>2
  <2> QED
    BY <1>1, <2>2, <2>3, <2>4
<1>2. CASE ~\E i \in 0 .. Len(tbl) - 1 : tbl[i + 1].pkg = ptr
  BY <1>2 DEF FindLineOf
<1> QED
  BY <1>1, <1>2

-----------------------------------------------------------------------------
(***************************************************************************)
(* The inductive invariant: the types, and every line names its result.    *)
(* Only showDependencies() changes the table, and it rebuilds it from the  *)
(* `dependencies' it has just extended, so the two stay in step.          *)
(***************************************************************************)
IInv == TypeOK /\ LineIndexValid

LEMMA InitIInv == Init => IInv
<1> SUFFICES ASSUME Init PROVE IInv
  OBVIOUS
<1>1. TypeOK
  <2>1. dependencies \in Seq(ErrorResults) /\ lastBad \in Seq(ErrorResults)
    BY DEF Init
  <2>2. lines \in Seq(Lines) /\ current \in -1 .. Len(lines) - 1
    BY DEF Init
  <2>3. solves \in 0 .. MaxSolves
    BY DepsAssumption DEF Init
  <2>4. open \in BOOLEAN /\ postevent \in Events \cup {"none"} /\ step \in Steps
    BY DEF Init, Steps
  <2> QED
    BY <2>1, <2>2, <2>3, <2>4 DEF TypeOK
<1>2. LineIndexValid
  BY DEF Init, LineIndexValid
<1> QED
  BY <1>1, <1>2 DEF IInv

\* A failed solve extends `dependencies' and rebuilds the table from it.
LEMMA SolveFailsStep ==
  ASSUME IInv, NEW bad \in BadLists, SolveFails(bad)
  PROVE  IInv'
<1>1. dependencies' \in Seq(ErrorResults)
  BY EvaluateType DEF SolveFails, IInv, TypeOK
<1>2. /\ lines' \in Seq(Lines)
      /\ \A k \in 1 .. Len(lines') :
           /\ lines'[k].index < Len(dependencies')
           /\ dependencies'[lines'[k].index + 1].solvable = lines'[k].pkg
  BY <1>1, FillFacts DEF SolveFails
<1>3. current' \in -1 .. Len(lines') - 1
  BY <1>2 DEF SolveFails, FirstItem
<1>4. lastBad' \in Seq(ErrorResults)
  BY BadIsSeq DEF SolveFails
<1>5. solves' \in 0 .. MaxSolves
  BY DepsAssumption DEF SolveFails, IInv, TypeOK
<1>6. open' \in BOOLEAN /\ postevent' \in Events \cup {"none"}
      /\ step' \in Steps
  BY DEF SolveFails, Steps
<1> QED
  BY <1>1, <1>2, <1>3, <1>4, <1>5, <1>6 DEF IInv, TypeOK, LineIndexValid

\* A popup round moves the cursor at most, and only to a line of the table.
LEMMA PopupRoundStep ==
  ASSUME IInv, NEW ev \in Events, PopupRound(ev)
  PROVE  IInv'
<1>1. current' \in -1 .. Len(lines) - 1
  <2>1. FindLineOf(lines, CurrentPkg) \in -1 .. Len(lines) - 1
    BY FindLineOfFacts DEF IInv, TypeOK
  <2> QED
    BY <2>1 DEF PopupRound, IInv, TypeOK
<1> QED
  BY <1>1 DEF PopupRound, PostAgain, IInv, TypeOK, LineIndexValid, Steps,
             Events

LEMMA NextIInv == IInv /\ [Next]_vars => IInv'
<1> SUFFICES ASSUME IInv, [Next]_vars PROVE IInv'
  OBVIOUS
<1>1. CASE SolveSucceeds
  BY <1>1 DEF SolveSucceeds, IInv, TypeOK, LineIndexValid, Steps
<1>2. CASE \E bad \in BadLists : SolveFails(bad)
  BY <1>2, SolveFailsStep
<1>3. ASSUME NEW i \in 0 .. Len(lines) - 1, MoveCursor(i)
      PROVE  IInv'
  BY <1>3 DEF MoveCursor, IInv, TypeOK, LineIndexValid, Steps
<1>4. CASE \E ev \in Events : PopupRound(ev)
  BY <1>4, PopupRoundStep
<1>5. CASE UNCHANGED vars
  BY <1>5 DEF vars, IInv, TypeOK, LineIndexValid
<1> QED
  BY <1>1, <1>2, <1>3, <1>4, <1>5 DEF Next

(***************************************************************************)
(* For every set of packages, error results and bounds, the popup's state  *)
(* stays well typed: `dependencies' holds error results, each table line   *)
(* names a package, and the cursor is -1 or on a line.                     *)
(***************************************************************************)
THEOREM DepsTypeCorrect == Spec => []TypeOK
<1>1. IInv => TypeOK
  BY DEF IInv
<1> QED
  BY <1>1, InitIInv, NextIInv, PTL DEF Spec

(***************************************************************************)
(* For every set of packages, error results and bounds, each line of the   *)
(* table fillDepsPackageList() fills carries the position of the error    *)
(* result it shows, so concretelyDependency( index ) opens that result,   *)
(* however solves, cursor moves and popup rounds interleave.              *)
(***************************************************************************)
THEOREM LineIndexInvariant == Spec => []LineIndexValid
<1>1. IInv => LineIndexValid
  BY DEF IInv
<1> QED
  BY <1>1, InitIInv, NextIInv, PTL DEF Spec


\* Solve on a line: the search finds a line of the same package.
LEMMA SolveRoundKeeps ==
  ASSUME IInv, PopupRound("solveButton"), current >= 0
  PROVE  current' >= 0 /\ lines'[current' + 1].pkg = lines[current + 1].pkg
<1> DEFINE ptr == lines[current + 1].pkg
<1>1. current \in 0 .. Len(lines) - 1 /\ lines \in Seq(Lines)
  BY DEF IInv, TypeOK
<1>6. lines[current + 1] \in Lines
  BY <1>1
<1>2. ptr \in Pkgs /\ CurrentPkg = ptr
  <2>1. ptr \in Pkgs
    BY <1>6 DEF Lines
  <2>2. CurrentPkg = ptr
    BY DEF CurrentPkg
  <2> QED
    BY <2>1, <2>2
<1>3. CurrentPkg # NoPkg
  BY <1>2, DepsAssumption
<1>4. /\ FindLineOf(lines, ptr) >= 0
      /\ lines[FindLineOf(lines, ptr) + 1].pkg = ptr
  BY <1>1, FindLineOfFacts
<1>5. current' = FindLineOf(lines, ptr) /\ lines' = lines
  BY <1>2, <1>3, <1>4 DEF PopupRound
<1> QED
  BY <1>4, <1>5

(***************************************************************************)
(* For every set of packages and error results, pressing Solve with the    *)
(* cursor on a line leaves it on a line of the same package: the search   *)
(* of postAgain() always finds the package it took from the current line. *)
(***************************************************************************)
THEOREM SolveKeepsPackage == Spec => SolveKeepsCurrentPackage
<1>1. IInv /\ [Next]_vars =>
        [step' = "round" /\ postevent' = "solveButton" /\ current >= 0 =>
           current' >= 0 /\ lines'[current' + 1].pkg = lines[current + 1].pkg]_vars
  <2> SUFFICES ASSUME IInv, [Next]_vars,
                      step' = "round", postevent' = "solveButton",
                      current >= 0
               PROVE  current' >= 0
                      /\ lines'[current' + 1].pkg = lines[current + 1].pkg
    OBVIOUS
  <2>1. CASE \E ev \in Events : PopupRound(ev)
    <3>1. PopupRound("solveButton")
      BY <2>1 DEF PopupRound
    <3> QED
      BY <3>1, SolveRoundKeeps
  <2>2. CASE UNCHANGED vars
    <3>1. current' = current /\ lines' = lines
      BY <2>2 DEF vars
    <3> QED
      BY <3>1
  <2>3. CASE SolveSucceeds \/ \E bad \in BadLists : SolveFails(bad)
    BY <2>3 DEF SolveSucceeds, SolveFails
  <2>4. CASE \E i \in 0 .. Len(lines) - 1 : MoveCursor(i)
    BY <2>4 DEF MoveCursor
  <2> QED
    BY <2>1, <2>2, <2>3, <2>4 DEF Next
<1> QED
  BY <1>1, InitIInv, NextIInv, PTL DEF Spec, SolveKeepsCurrentPackage

=============================================================================
