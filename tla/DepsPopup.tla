------------------------------ MODULE DepsPopup ------------------------------
(***************************************************************************)
(* The ncurses package-dependency popup (NCPopupDeps.cc).                  *)
(*                                                                         *)
(* showDependencies() asks the solver for the list of unresolved           *)
(* dependencies, keeps the error results that name a package or offer     *)
(* alternatives in the member vector `dependencies', fills the package     *)
(* table with one line per kept result that names a package (the line     *)
(* carries the result's index, for concretelyDependency()), and runs the   *)
(* popup loop: popupDialog() returns the user's event, postAgain() decides *)
(* whether to post the popup again.                                        *)
(*                                                                         *)
(* An error result is abstracted to the package it names (or NoPkg) and    *)
(* three flags: non-empty unresolvable, alternatives and conflicts_with.  *)
(***************************************************************************)
EXTENDS Integers, Sequences, SeqFilter

CONSTANTS
    Pkgs,          \* packages the solver may name
    NoPkg,         \* the null PMObjectPtr
    ErrorResults,  \* the error results the solver may report
    MaxBad,        \* longest badList solveInstall() reports
    MaxSolves      \* number of failed solveInstall() calls explored

ASSUME DepsAssumption ==
    /\ NoPkg \notin Pkgs
    /\ ErrorResults \subseteq [solvable : Pkgs \cup {NoPkg},
                               unresolvable : BOOLEAN,
                               alternatives : BOOLEAN,
                               conflicts : BOOLEAN]
    /\ MaxBad \in Nat \ {0}
    /\ MaxSolves \in Nat

(***************************************************************************)
(* Events popupDialog() can return: ESC (wHandleInput turns it into        *)
(* NCursesEvent::cancel, which carries no widget), or an activation of the *)
(* Cancel, Solve or OK button, of the dependency menu or of a table.       *)
(***************************************************************************)
Events == {"esc", "cancelButton", "solveButton", "okButton", "depsMenu",
           "table"}

\* The events that carry postevent.widget.
WidgetEvents == Events \ {"esc"}

Kinds == {"UNRESOLVABLE", "ALTERNATIVES", "CONFLICT", ""}

BadLists == UNION {[1 .. n -> ErrorResults] : n \in 1 .. MaxBad}

Lines == [pkg : Pkgs, kind : Kinds, index : Nat]

VARIABLES
    dependencies,  \* NCPopupDeps::dependencies
    lines,         \* the lines of the `pkgs' table
    current,       \* pkgs->getCurrentItem(), -1 for an empty table
    open,          \* the popup loop of showDependencyPopup() is running
    postevent,     \* the event of the last popupDialog(), "none" if reset
    lastBad,       \* history: the badList of the last solveInstall()
    solves,        \* history: failed solveInstall() calls so far
    step           \* history: the kind of the last step

vars == <<dependencies, lines, current, open, postevent, lastBad, solves,
          step>>

Steps == {"init", "solve", "move", "round"}

TypeOK ==
    /\ dependencies \in Seq(ErrorResults)
    /\ lines \in Seq(Lines)
    /\ current \in -1 .. Len(lines) - 1
    /\ open \in BOOLEAN
    /\ postevent \in Events \cup {"none"}
    /\ lastBad \in Seq(ErrorResults)
    /\ solves \in 0 .. MaxSolves
    /\ step \in Steps

-----------------------------------------------------------------------------
(***************************************************************************)
(* evaluateErrorResult(): a result is kept when it names a package or has  *)
(* alternatives; the kept ones are appended to `dependencies'.             *)
(***************************************************************************)
Kept(e) == e.solvable # NoPkg \/ e.alternatives

EvaluateErrorResult(deps, bad) ==
    deps \o FilterSeq(bad, {e \in ErrorResults : Kept(e)})

(***************************************************************************)
(* getDependencyKind(): the last matching test wins.                       *)
(***************************************************************************)
DependencyKind(e) ==
    IF e.conflicts THEN "CONFLICT"
    ELSE IF e.alternatives THEN "ALTERNATIVES"
    ELSE IF e.unresolvable THEN "UNRESOLVABLE"
    ELSE ""

(***************************************************************************)
(* fillDepsPackageList(): one line per result that names a package, with   *)
(* the result's 0-based position i in `dependencies', which the loop       *)
(* increments for every result, shown or not.                             *)
(***************************************************************************)
Shown(deps) == FilterSeq([i \in 1 .. Len(deps) |-> i],
                         {i \in 1 .. Len(deps) : deps[i].solvable # NoPkg})

\* Mutant: i is only incremented for the lines added.
FillDepsPackageListCountShown(deps) ==
    LET idx == Shown(deps)
    IN  [k \in 1 .. Len(idx) |-> [pkg   |-> deps[idx[k]].solvable,
                                  kind  |-> DependencyKind(deps[idx[k]]),
                                  index |-> k - 1]]

FillDepsPackageList(deps) ==
    LET idx == Shown(deps)
    IN  [k \in 1 .. Len(idx) |-> [pkg   |-> deps[idx[k]].solvable,
                                  kind  |-> DependencyKind(deps[idx[k]]),
                                  index |-> idx[k] - 1]]

\* Mutant: the cursor is put on line 0 even when no line was added.
FirstItemNoEmptyCheck(tbl) == 0

\* The table's current item after itemsCleared() and the addLine() calls.
FirstItem(tbl) == IF tbl = <<>> THEN -1 ELSE 0

(***************************************************************************)
(* The search in postAgain() for Solve: the first line, from index 0,      *)
(* whose package is ptr; -1 when the loop runs out (the cursor is then    *)
(* left where it was).                                                     *)
(***************************************************************************)
\* Mutant: the search tests the line after the one it means.
FindLineOfNext(tbl, ptr) ==
    IF \E i \in 0 .. Len(tbl) - 2 : tbl[i + 2].pkg = ptr
    THEN CHOOSE i \in 0 .. Len(tbl) - 2 :
           /\ tbl[i + 2].pkg = ptr
           /\ \A j \in 0 .. i - 1 : tbl[j + 2].pkg # ptr
    ELSE -1

FindLineOf(tbl, ptr) ==
    IF \E i \in 0 .. Len(tbl) - 1 : tbl[i + 1].pkg = ptr
    THEN CHOOSE i \in 0 .. Len(tbl) - 1 :
           /\ tbl[i + 1].pkg = ptr
           /\ \A j \in 0 .. i - 1 : tbl[j + 1].pkg # ptr
    ELSE -1

\* pkgs->getDataPointer( pkgs->getCurrentItem() ).
CurrentPkg == IF current >= 0 THEN lines[current + 1].pkg ELSE NoPkg

(***************************************************************************)
(* postAgain(): FALSE (close) for an event without widget, for Cancel and  *)
(* for OK; Solve restores the current line (the re-solving is commented    *)
(* out) and posts again, as does any other widget event.                  *)
(***************************************************************************)
PostAgain(ev) ==
    /\ ev \in WidgetEvents
    /\ ev \notin {"cancelButton", "okButton"}

-----------------------------------------------------------------------------
(***************************************************************************)
(* showDependencies() with a solver that succeeds: nothing is shown.       *)
(***************************************************************************)
SolveSucceeds ==
    /\ ~open
    /\ lastBad' = <<>>
    /\ step' = "solve"
    /\ UNCHANGED <<dependencies, lines, current, open, postevent, solves>>

(***************************************************************************)
(* showDependencies() with a solver that fails with badList bad: the kept  *)
(* results are appended, the table cleared and refilled, and the popup     *)
(* loop entered with postevent reset (showDependencyPopup()).              *)
(***************************************************************************)
SolveFails(bad) ==
    /\ ~open
    /\ solves < MaxSolves
    /\ dependencies' = EvaluateErrorResult(dependencies, bad)
    /\ lines' = FillDepsPackageList(dependencies')
    /\ current' = FirstItem(lines')
    /\ open' = TRUE
    /\ postevent' = "none"
    /\ lastBad' = bad
    /\ solves' = solves + 1
    /\ step' = "solve"

\* The user moves the cursor in the package table while the popup is up.
MoveCursor(i) ==
    /\ open
    /\ current' = i
    /\ step' = "move"
    /\ UNCHANGED <<dependencies, lines, open, postevent, lastBad, solves>>

(***************************************************************************)
(* One round of the do { popupDialog(); } while ( postAgain() ) loop: the  *)
(* user's event, then postAgain(); popdownDialog() when it says FALSE.     *)
(***************************************************************************)
PopupRound(ev) ==
    /\ open
    /\ postevent' = ev
    /\ current' = IF /\ ev = "solveButton" /\ CurrentPkg # NoPkg
                     /\ FindLineOf(lines, CurrentPkg) >= 0
                  THEN FindLineOf(lines, CurrentPkg)
                  ELSE current
    /\ open' = PostAgain(ev)
    /\ step' = "round"
    /\ UNCHANGED <<dependencies, lines, lastBad, solves>>

Init ==
    /\ dependencies = <<>>
    /\ lines = <<>>
    /\ current = -1
    /\ open = FALSE
    /\ postevent = "none"
    /\ lastBad = <<>>
    /\ solves = 0
    /\ step = "init"

Next ==
    \/ SolveSucceeds
    \/ \E bad \in BadLists : SolveFails(bad)
    \/ \E i \in 0 .. Len(lines) - 1 : MoveCursor(i)
    \/ \E ev \in Events : PopupRound(ev)

Spec == Init /\ [][Next]_vars

-----------------------------------------------------------------------------
(***************************************************************************)
(* Properties.                                                             *)
(***************************************************************************)

(***************************************************************************)
(* Every table line names, by its index, the error result it shows, so     *)
(* that concretelyDependency( index ) shows the dependency of that         *)
(* package: fillDepsPackageList() must count results it skips.             *)
(***************************************************************************)
LineIndexValid ==
    \A k \in 1 .. Len(lines) :
        /\ lines[k].index < Len(dependencies)
        /\ dependencies[lines[k].index + 1].solvable = lines[k].pkg

(***************************************************************************)
(* Pressing Solve keeps the cursor on the package it was on: the search in *)
(* postAgain() finds that package's line again.                           *)
(***************************************************************************)
SolveKeepsCurrentPackage ==
    [][step' = "round" /\ postevent' = "solveButton" /\ current >= 0 =>
         current' >= 0 /\ lines'[current' + 1].pkg = lines[current + 1].pkg]_vars

=============================================================================
