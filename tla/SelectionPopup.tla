--------------------------- MODULE SelectionPopup ---------------------------
(***************************************************************************)
(* The ncurses selection / pattern / language popup                        *)
(* (NCPkgPopupSelection.cc).                                               *)
(*                                                                         *)
(* The constructor builds the layout for a known type and fills the table  *)
(* once (fillSelectionList): the pool's items that pass the type's filter, *)
(* sorted with std::list::sort and the type's comparator.                  *)
(* showSelectionPopup() runs the popup loop; when the user leaves it with  *)
(* OK, the packager is shown the packages of the item under the cursor.   *)
(*                                                                         *)
(* The zypp pool is abstracted to the order in which its iterator visits   *)
(* the items and, per item, its sort key (order() for selections and      *)
(* patterns, name() for languages) and the flags the filters read.  The   *)
(* pool is whatever the package manager holds when the popup is built, so *)
(* Init ranges over every pool.                                            *)
(***************************************************************************)
EXTENDS Integers, SequencesExt, SeqFilter

CONSTANTS
    Items,        \* the pool's items
    MaxKey,       \* sort keys are 0 .. MaxKey
    HasPackager,  \* the popup was built with a package selector
    NoItem        \* the null ZyppObj

ASSUME SelectionAssumption ==
    /\ IsFiniteSet(Items)
    /\ NoItem \notin Items
    /\ MaxKey \in Nat
    /\ HasPackager \in BOOLEAN

SelTypes == {"S_Selection", "S_Pattern", "S_Language", "S_Unknown"}

(***************************************************************************)
(* Events popupDialog() can return: ESC (NCursesEvent::cancel, no widget), *)
(* the OK button (id "ok") or a table activation.                         *)
(***************************************************************************)
Events == {"esc", "okButton", "table"}

Details == {"NODETAIL", "USERDEF"}

VARIABLES
    type,          \* NCPkgPopupSelection::type
    pool,          \* the pool in iterator order
    key,           \* the sort key of each item
    visible,       \* selections: visible() && !isBase() needs these two
    base,
    userVisible,   \* patterns: userVisible()
    hasTable,      \* sel != 0
    lines,         \* the table's items, in table order
    current,       \* sel->getCurrentItem(), -1 for an empty table
    open,          \* the popup loop is running
    postevent,     \* [ev, detail] of the last popupDialog()
    shownSel       \* item whose packages the packager shows, or NoItem

vars == <<type, pool, key, visible, base, userVisible, hasTable, lines,
          current, open, postevent, shownSel>>

\* The data the constructor reads; it never changes afterwards.
poolVars == <<type, pool, key, visible, base, userVisible>>

TypeOK ==
    /\ type \in SelTypes
    /\ pool \in SetToSeqs(Items)
    /\ key \in [Items -> 0 .. MaxKey]
    /\ visible \subseteq Items /\ base \subseteq Items
    /\ userVisible \subseteq Items
    /\ hasTable \in BOOLEAN
    /\ lines \in Seq(Items)
    /\ current \in -1 .. Len(lines) - 1
    /\ open \in BOOLEAN
    /\ postevent \in [ev : Events \cup {"none"}, detail : Details]
    /\ shownSel \in Items \cup {NoItem}

-----------------------------------------------------------------------------
(***************************************************************************)
(* The filter of fillSelectionList() for each type.                        *)
(***************************************************************************)
ShowItem(t, i) ==
    CASE t = "S_Selection" -> i \in visible /\ i \notin base
      [] t = "S_Pattern"   -> i \in userVisible
      [] t = "S_Language"  -> TRUE
      [] OTHER             -> FALSE

(***************************************************************************)
(* slbList.sort( comparator ): std::list::sort is a stable sort; the       *)
(* comparators order(), orderPattern() and orderLang() compare the keys    *)
(* with <.  Modelled as insertion sort: each item goes behind every item   *)
(* already placed whose key is not greater.                               *)
(***************************************************************************)
\* Mutant: an item is put in front of the items with an equal key.
InsertByKeyBeforeEqual(s, x) ==
    FilterSeq(s, {y \in Items : key[y] < key[x]}) \o <<x>>
      \o FilterSeq(s, {y \in Items : key[y] >= key[x]})

InsertByKey(s, x) ==
    FilterSeq(s, {y \in Items : key[y] <= key[x]}) \o <<x>>
      \o FilterSeq(s, {y \in Items : key[y] > key[x]})

ListSort(s) ==
    LET L[i \in 0 .. Len(s)] ==
          IF i = 0 THEN << >> ELSE InsertByKey(L[i - 1], s[i])
    IN  L[Len(s)]

\* fillSelectionList( sel, type ): the table lines, or none without table.
FillSelectionList(t) ==
    IF t = "S_Unknown" THEN <<>>
    ELSE ListSort(FilterSeq(pool, {i \in Items : ShowItem(t, i)}))

\* Mutant: the cursor is put on line 0 even when no line was added.
FirstLineNoEmptyCheck(tbl) == 0

\* The table's current item after addLine(): the first line, if any.
FirstLine(tbl) == IF tbl = <<>> THEN -1 ELSE 0

\* getDataPointer( getCurrentItem() ).
CurrentItem == IF current >= 0 THEN lines[current + 1] ELSE NoItem

(***************************************************************************)
(* postAgain(): an event without widget closes the popup and keeps its     *)
(* detail; a widget event gets detail NODETAIL, and the OK button then     *)
(* USERDEF and closes; any other widget event posts again.                *)
(***************************************************************************)
\* Mutant: the OK branch forgets to set USERDEF.
PostAgainDetailNoUserdef(ev, detail) ==
    IF ev = "esc" THEN detail ELSE "NODETAIL"

PostAgainDetail(ev, detail) ==
    IF ev = "esc" THEN detail
    ELSE IF ev = "okButton" THEN "USERDEF"
    ELSE "NODETAIL"

PostAgain(ev) == ev \notin {"esc", "okButton"}

-----------------------------------------------------------------------------
(***************************************************************************)
(* showSelectionPopup(): postevent reset; without table nothing else;      *)
(* otherwise updateTable(), focus on the table, and the loop begins.      *)
(***************************************************************************)
ShowSelectionPopup ==
    /\ ~open
    /\ postevent' = [ev |-> "none", detail |-> "NODETAIL"]
    /\ open' = hasTable
    /\ UNCHANGED <<poolVars, hasTable, lines, current, shownSel>>

\* The user moves the cursor in the table while the popup is up.
MoveCursor(i) ==
    /\ open
    /\ current' = i
    /\ UNCHANGED <<poolVars, hasTable, lines, open, postevent, shownSel>>

(***************************************************************************)
(* One round of do { popupDialog(); } while ( postAgain() ): the event     *)
(* (popupDialog() delivers it with no detail), postAgain(), and when the   *)
(* loop ends popdownDialog() and, with a packager and detail USERDEF, the  *)
(* packages of the current item if there is one.                          *)
(***************************************************************************)
PopupRound(ev) ==
    LET detail == PostAgainDetail(ev, "NODETAIL")
        done   == ~PostAgain(ev)
    IN  /\ open
        /\ postevent' = [ev |-> ev, detail |-> detail]
        /\ open' = ~done
        /\ shownSel' = IF /\ done /\ HasPackager /\ detail = "USERDEF"
                          /\ CurrentItem # NoItem
                       THEN CurrentItem ELSE shownSel
        /\ UNCHANGED <<poolVars, hasTable, lines, current>>

(***************************************************************************)
(* The constructor, for any pool: the layout (and the table) only for a   *)
(* known type, then fillSelectionList().  The cursor starts on the first  *)
(* line.                                                                   *)
(***************************************************************************)
Init ==
    /\ type \in SelTypes
    /\ pool \in SetToSeqs(Items)
    /\ key \in [Items -> 0 .. MaxKey]
    /\ visible \in SUBSET Items /\ base \in SUBSET Items
    /\ userVisible \in SUBSET Items
    /\ hasTable = (type # "S_Unknown")
    /\ lines = FillSelectionList(type)
    /\ current = FirstLine(lines)
    /\ open = FALSE
    /\ postevent = [ev |-> "none", detail |-> "NODETAIL"]
    /\ shownSel = NoItem

Next ==
    \/ ShowSelectionPopup
    \/ \E i \in 0 .. Len(lines) - 1 : MoveCursor(i)
    \/ \E ev \in Events : PopupRound(ev)

Spec == Init /\ [][Next]_vars

-----------------------------------------------------------------------------
(***************************************************************************)
(* Properties.                                                             *)
(***************************************************************************)

\* Position of item i in the pool's iteration order.
PoolPos(i) == CHOOSE k \in 1 .. Len(pool) : pool[k] = i

(***************************************************************************)
(* The table lists exactly the items of the pool that the type's filter    *)
(* admits, each once, in non-decreasing key order, and items with equal    *)
(* keys in pool order (std::list::sort is stable): the reference           *)
(* definition of what fillSelectionList() computes.                        *)
(***************************************************************************)
TableIsSortedSelection ==
    /\ ToSet(lines) = {i \in Items : ShowItem(type, i)}
    /\ IsInjective(lines)
    /\ IsSorted(lines, LAMBDA a, b : \/ key[a] < key[b]
                                     \/ key[a] = key[b] /\ PoolPos(a) < PoolPos(b))

(***************************************************************************)
(* Leaving the popup with OK shows the packages of the item under the      *)
(* cursor; leaving it with ESC, or moving in it, shows nothing new.       *)
(***************************************************************************)
OkShowsCursorItem ==
    [][open /\ ~open' /\ HasPackager /\ current >= 0 =>
         shownSel' = IF postevent'.ev = "okButton" THEN CurrentItem
                     ELSE shownSel]_vars

=============================================================================
