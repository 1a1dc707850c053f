-------------------------- MODULE QDialogGeometry --------------------------
(***************************************************************************)
(* The geometry of a Qt dialog (YQDialog.cc) composed with its content.   *)
(*                                                                         *)
(* A YQDialog has one child, the root of its layout; the model takes that  *)
(* child to be an alignment container (MarginBox, HCenter, MinSize ...),   *)
(* whose own model, Alignment, is instantiated here as A.  The dialog      *)
(* answers preferredWidth()/preferredHeight() from its default size, the   *)
(* user's size or its content plus the frame, and setSize() clamps to the  *)
(* screen, gives the content what is left inside the frame and resizes    *)
(* the window.  Qt answers a resize of the window with a resize event, and *)
(* resizeEvent() lays the dialog out again and records the size as the    *)
(* user's.  A resize event the program causes itself may be delivered      *)
(* later (Qt posts it while the window is hidden and compresses posted    *)
(* resize events to the last one), so it is a pending slot that the event *)
(* loop empties in a step of its own.  A resize by the user through the    *)
(* window manager is delivered as the window manager reports it, in one    *)
(* step with the handler.                                                  *)
(***************************************************************************)
EXTENDS Integers

CONSTANTS
    Dims, MaxSize, MaxMargin, MaxPref,  \* the content's bounds (Alignment)
    Screen,       \* qApp->desktop()->width() / height()
    DefaultSize,  \* YQUI::ui()->defaultSize( dim ) of a main dialog
    FrameWidth,   \* _qFrame->frameWidth() of the Box | Raised frame
    None          \* no resize event pending; no size chosen by the user

(***************************************************************************)
(* The content's bounds as in Alignment, and a screen that can hold the    *)
(* decoration of both sides: the frame is 7 pixels (line width 2, mid-line *)
(* width 3) and a screen is hundreds of pixels.  None, standing for no    *)
(* pending event and no user size, is no size.                             *)
(***************************************************************************)
ASSUME GeometryAssumption ==
    /\ Dims \subseteq {"hor", "vert"}
    /\ Dims # {}
    /\ MaxSize \in Nat
    /\ MaxMargin \in Nat
    /\ MaxPref \in Nat
    /\ Screen \in Nat
    /\ DefaultSize \in Nat
    /\ FrameWidth \in Nat
    /\ Screen >= 2 * FrameWidth
    /\ None \notin [Dims -> Int]

VARIABLES
    alignment, margin, minSize, hasChild, childPref, childStretch,
    allotted, childGeom, error,     \* the content, as in Alignment
    hasDefaultSize, \* the dialog is a main dialog (YMainDialog)
    haveWM,         \* YQUI::ui()->haveWM(): a window manager runs
    opened,         \* setInitialSize() has run
    qsize,          \* the window's size, QWidget::size()
    pending,        \* the posted resize event not yet delivered, or None
    userSize,       \* _userSize
    userResized,    \* _userResized
    lastUser,       \* history: the size the user last gave the window
    step            \* history: the last operation

A == INSTANCE Alignment

contentVars == <<alignment, margin, minSize, hasChild, childPref,
                 childStretch, allotted, childGeom, error>>
dialogVars == <<hasDefaultSize, haveWM, opened, qsize, pending, userSize,
                userResized, lastUser>>
vars == <<contentVars, dialogVars, step>>

Sizes == [Dims -> Nat]

TypeOK ==
    /\ A!TypeOK
    /\ hasDefaultSize \in BOOLEAN
    /\ haveWM \in BOOLEAN
    /\ opened \in BOOLEAN
    /\ qsize \in Sizes
    /\ pending \in Sizes \cup {None}
    /\ userSize \in Sizes
    /\ userResized \in BOOLEAN
    /\ lastUser \in Sizes \cup {None}
    /\ step \in {"none", "open", "recalc", "content", "resizeEvent", "user"}

-----------------------------------------------------------------------------
\* Mutant: the frame is drawn whenever the dialog has no default size.
DecoratedIgnoringWM == ~hasDefaultSize

\* decorate in the constructor: a frame only without default size and WM.
Decorated == ~hasDefaultSize /\ ~haveWM

\* decorationWidth(): the frame's width; 0 for NoFrame or a main dialog.
DecorationWidth ==
    IF ~hasDefaultSize /\ Decorated THEN FrameWidth ELSE 0

\* Mutant: preferredWidth() of a main dialog ignores the user's size.
PreferredDefaultOnly(d) ==
    IF hasDefaultSize THEN DefaultSize
    ELSE A!PreferredSize(d) + 2 * DecorationWidth

\* Mutant: the user's size is taken for every dialog, not only main ones.
PreferredUserFirst(d) ==
    IF userResized THEN userSize[d]
    ELSE IF hasDefaultSize THEN DefaultSize
    ELSE A!PreferredSize(d) + 2 * DecorationWidth

(***************************************************************************)
(* preferredWidth() / preferredHeight(): the user's size once the user    *)
(* resized a main dialog, else its default size; the content's preferred   *)
(* size plus the frame on both sides for any other dialog.  A size larger *)
(* than the screen is only warned about, not limited.                      *)
(***************************************************************************)
Preferred(d) ==
    IF hasDefaultSize
    THEN IF userResized THEN userSize[d] ELSE DefaultSize
    ELSE A!PreferredSize(d) + 2 * DecorationWidth

Clamp(ns) == [d \in Dims |-> IF ns[d] > Screen THEN Screen ELSE ns[d]]

\* Mutant: setSize() takes the frame off one side only.
SetSizeOneSide(ns, cur, pend) ==
    LET c     == Clamp(ns)
        inner == [d \in Dims |-> c[d] - DecorationWidth]
    IN  /\ IF hasChild THEN A!SetSize(inner) ELSE A!SetSizeNoChild(inner)
        /\ qsize' = c
        /\ pending' = IF c # cur THEN c ELSE pend

(***************************************************************************)
(* setSize( newWidth, newHeight ) on a window whose size is now cur: clamp *)
(* to the screen, hand the content what the frame leaves of it (the        *)
(* content reports an error if it has no child of its own), then resize    *)
(* the window; Qt posts a resize event when that changes the window's     *)
(* size, replacing the one still pending (pend).                           *)
(***************************************************************************)
SetSize(ns, cur, pend) ==
    LET c     == Clamp(ns)
        inner == [d \in Dims |-> c[d] - 2 * DecorationWidth]
    IN  /\ IF hasChild THEN A!SetSize(inner) ELSE A!SetSizeNoChild(inner)
        /\ qsize' = c
        /\ pending' = IF c # cur THEN c ELSE pend

-----------------------------------------------------------------------------
(***************************************************************************)
(* Operations.                                                             *)
(***************************************************************************)

\* YDialog::setInitialSize(), from open(): setSize() at the preferred size.
Open ==
    /\ ~opened
    /\ opened' = TRUE
    /\ SetSize([d \in Dims |-> Preferred(d)], qsize, pending)
    /\ step' = "open"
    /\ UNCHANGED <<hasDefaultSize, haveWM, userSize, userResized, lastUser>>

\* YDialog::recalcLayout(): the same, after the content changed.
RecalcLayout ==
    /\ opened
    /\ SetSize([d \in Dims |-> Preferred(d)], qsize, pending)
    /\ step' = "recalc"
    /\ UNCHANGED <<hasDefaultSize, haveWM, opened, userSize, userResized,
                   lastUser>>

\* The application changes the content: margins, minimum sizes, the child.
ContentChange ==
    /\ \/ \E side \in A!Sides, m \in 0 .. MaxMargin : A!SetMargin(side, m)
       \/ \E dim \in Dims, v \in 0 .. MaxPref : A!SetMinSize(dim, v)
       \/ \E p \in A!Prefs, st \in A!Stretches : A!AddChild(p, st)
       \/ \E p \in A!Prefs, st \in A!Stretches : A!ChildChanged(p, st)
    /\ step' = "content"
    /\ UNCHANGED dialogVars

(***************************************************************************)
(* resizeEvent() for the resize the program caused: the event loop        *)
(* delivers the pending event, the dialog is laid out at its size, which  *)
(* becomes _userSize, and _userResized is set.                            *)
(***************************************************************************)
ResizeEvent ==
    /\ pending # None
    /\ SetSize(pending, qsize, None)
    /\ userSize' = pending
    /\ userResized' = TRUE
    /\ step' = "resizeEvent"
    /\ UNCHANGED <<hasDefaultSize, haveWM, opened, lastUser>>

(***************************************************************************)
(* The user resizes the shown window through the window manager to w: the  *)
(* window has size w and resizeEvent() runs at once.  The posted events of *)
(* the program's own resizes are delivered before the window can be        *)
(* handled by the user.                                                    *)
(***************************************************************************)
UserResize(w) ==
    /\ haveWM
    /\ opened
    /\ pending = None
    /\ SetSize(w, w, None)
    /\ userSize' = w
    /\ userResized' = TRUE
    /\ lastUser' = w
    /\ step' = "user"
    /\ UNCHANGED <<hasDefaultSize, haveWM, opened>>

-----------------------------------------------------------------------------
(***************************************************************************)
(* A constructed dialog of either kind, with or without window manager,   *)
(* whose content is a fresh alignment container; the window is not yet    *)
(* sized, so _userSize is the empty size.                                 *)
(***************************************************************************)
Init ==
    /\ A!Init
    /\ hasDefaultSize \in BOOLEAN
    /\ haveWM \in BOOLEAN
    /\ opened = FALSE
    /\ qsize = [d \in Dims |-> 0]
    /\ pending = None
    /\ userSize = [d \in Dims |-> 0]
    /\ userResized = FALSE
    /\ lastUser = None
    /\ step = "none"

Next ==
    \/ Open
    \/ RecalcLayout
    \/ ContentChange
    \/ ResizeEvent
    \/ \E w \in [Dims -> 0 .. MaxSize] : UserResize(w)

Spec == Init /\ [][Next]_vars

-----------------------------------------------------------------------------
(***************************************************************************)
(* Properties.                                                             *)
(***************************************************************************)

(***************************************************************************)
(* The content stays inside the frame: whenever setSize() has laid it out, *)
(* the content's child has a non-negative size and lies between the frame *)
(* on one side and the frame on the other, on every axis, after a resize  *)
(* by the program, by the user or by a resize event (YQDialog::setSize     *)
(* subtracts the decoration of both sides, which the constructor draws    *)
(* only where no window manager lets the user shrink the window).         *)
(***************************************************************************)
InteriorFits ==
    childGeom.valid =>
        \A d \in Dims :
            /\ 0 <= childGeom.size[d]
            /\ 0 <= childGeom.pos[d]
            /\ childGeom.pos[d] + childGeom.size[d]
                 <= qsize[d] - 2 * DecorationWidth

(***************************************************************************)
(* A main dialog keeps the size it was given: once opened and with no     *)
(* resize event pending, its window has the size the user last chose, or  *)
(* its default size if the user never resized it, limited to the screen,  *)
(* however the application's recalcLayout() calls and the resize events   *)
(* of its own resizes interleave with the user's resizes.                 *)
(***************************************************************************)
MainDialogKeepsSize ==
    hasDefaultSize /\ opened /\ pending = None =>
        qsize = Clamp(IF lastUser = None THEN [d \in Dims |-> DefaultSize]
                      ELSE lastUser)

(***************************************************************************)
(* A popup laid out at its preferred size that fits on the screen gives   *)
(* the content's child at least its preferred size and both of the        *)
(* content's margins inside the frame: open() and recalcLayout() ask     *)
(* YQDialog::preferredWidth/Height, which must add the frame exactly as    *)
(* setSize() takes it off.                                                 *)
(***************************************************************************)
PopupPreferredHonoured ==
    [][(/\ step' \in {"open", "recalc"}
        /\ ~hasDefaultSize
        /\ hasChild
        /\ \A e \in Dims : Preferred(e) <= Screen) =>
         \A d \in Dims :
           /\ childGeom'.size[d] >= childPref[d]
           /\ childGeom'.pos[d] >= margin[A!Lead(d)]
           /\ childGeom'.pos[d] + childGeom'.size[d] + margin[A!Trail(d)]
                <= qsize'[d] - 2 * DecorationWidth]_vars

=============================================================================
