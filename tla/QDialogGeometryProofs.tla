----------------------- MODULE QDialogGeometryProofs -----------------------
(***************************************************************************)
(* Proofs about the Qt dialog's geometry composed with its content, for   *)
(* every screen, frame width, default size and content bound that         *)
(* GeometryAssumption allows.                                              *)
(*                                                                         *)
(* The content is laid out only by YQDialog::setSize(), which hands it the *)
(* clamped size less the frame of both sides.  That is never negative,    *)
(* because every size setSize() is called with is at least twice the     *)
(* frame: the preferred size adds the frame of both sides, a screen holds *)
(* it, a pending resize event carries an earlier clamped size, and a user *)
(* resize happens only under a window manager, where the constructor      *)
(* draws no frame.  The last two facts are not properties of one state,    *)
(* so the invariant adds PendingFits; ValidHasChild covers the content     *)
(* without a child of its own, which setSize() does not lay out.           *)
(* Alignment's AxisFits, through the instance AP, then puts the child      *)
(* inside what the frame leaves.                                           *)
(***************************************************************************)
EXTENDS QDialogGeometry, TLAPS

AP == INSTANCE AlignmentProofs

USE GeometryAssumption

\* Every resize event still pending carries a size that holds the frame.
PendingFits ==
    pending # None =>
        pending \in Sizes /\ \A d \in Dims : 2 * DecorationWidth <= pending[d]

\* Only a content with a child has ever been laid out.
ValidHasChild == childGeom.valid => hasChild

GInv == TypeOK /\ InteriorFits /\ PendingFits /\ ValidHasChild

(***************************************************************************)
(* Alignment's AxisFits, stated for the instance A of this module: one    *)
(* axis of YAlignment::setSize() with a non-negative size puts the child   *)
(* between 0 and that size.                                                *)
(***************************************************************************)
LEMMA ContentAxisFits ==
    ASSUME A!TypeOK, NEW d \in Dims, NEW s \in Nat
    PROVE  /\ A!ChildSize(d, s) \in Nat
           /\ A!ChildPos(d, s) \in Int
           /\ 0 <= A!ChildPos(d, s)
           /\ A!ChildPos(d, s) + A!ChildSize(d, s) <= s
BY AP!AxisFits
   DEF AP!TypeOK, A!TypeOK, AP!ChildSize, A!ChildSize, AP!ChildPos,
       A!ChildPos, AP!Room, A!Room, AP!Squeezed, A!Squeezed,
       AP!Stretchable, A!Stretchable, AP!TotalMargin, A!TotalMargin,
       AP!MarginOffset, A!MarginOffset, AP!Slack, A!Slack, AP!MarginTotal,
       A!MarginTotal, AP!Lead, A!Lead, AP!Trail, A!Trail, AP!Sides, A!Sides,
       AP!AlignmentTypes, A!AlignmentTypes, AP!Geometries, A!Geometries

\* decorationWidth() is a natural number the screen holds twice, and 0
\* for a main dialog and under a window manager.
LEMMA DecorationFacts ==
    /\ DecorationWidth \in Nat
    /\ 2 * DecorationWidth <= Screen
    /\ haveWM => DecorationWidth = 0
BY DEF DecorationWidth, Decorated

\* preferredWidth()/preferredHeight() always hold the frame of both sides.
LEMMA PreferredFits ==
    ASSUME TypeOK, NEW d \in Dims
    PROVE  Preferred(d) \in Nat /\ 2 * DecorationWidth <= Preferred(d)
<1>1. A!PreferredSize(d) \in Nat
  <2>1. minSize[d] \in Nat /\ childPref[d] \in Nat
    BY DEF TypeOK, A!TypeOK
  <2>2. margin[A!Lead(d)] \in Nat /\ margin[A!Trail(d)] \in Nat
    BY DEF TypeOK, A!TypeOK, A!Lead, A!Trail, A!Sides
  <2> QED
    BY <2>1, <2>2 DEF A!PreferredSize, A!TotalMargin
<1>2. CASE hasDefaultSize
  BY <1>2, DecorationFacts DEF Preferred, TypeOK, Sizes, DecorationWidth
<1>3. CASE ~hasDefaultSize
  BY <1>1, <1>3, DecorationFacts DEF Preferred
<1> QED
  BY <1>2, <1>3

(***************************************************************************)
(* One call of YQDialog::setSize() with a size that holds the frame, and   *)
(* with a pending event that does too: the content stays typed and inside *)
(* the frame, and the event it leaves pending holds the frame.             *)
(***************************************************************************)
LEMMA SetSizeStep ==
    ASSUME GInv,
           NEW ns \in [Dims -> Int],
           \A d \in Dims : 2 * DecorationWidth <= ns[d],
           NEW cur, NEW pend,
           pend = None \/ (pend \in Sizes
                           /\ \A d \in Dims : 2 * DecorationWidth <= pend[d]),
           SetSize(ns, cur, pend),
           hasDefaultSize' = hasDefaultSize, haveWM' = haveWM
    PROVE  /\ A!TypeOK'
           /\ InteriorFits'
           /\ PendingFits'
           /\ ValidHasChild'
           /\ qsize' \in Sizes
           /\ pending' \in Sizes \cup {None}
<1> DEFINE c     == Clamp(ns)
           inner == [d \in Dims |-> c[d] - 2 * DecorationWidth]
<1>1. DecorationWidth' = DecorationWidth
  BY DEF DecorationWidth, Decorated
<1>2. \A d \in Dims : c[d] \in Nat /\ 2 * DecorationWidth <= c[d]
  BY DecorationFacts DEF Clamp
<1>3. inner \in [Dims -> Nat]
  BY <1>2, DecorationFacts
<1>4. qsize' = c /\ pending' = IF c # cur THEN c ELSE pend
  BY DEF SetSize
<1>5. c \in Sizes
  BY <1>2 DEF Clamp, Sizes
<1>6. /\ PendingFits'
      /\ qsize' \in Sizes
      /\ pending' \in Sizes \cup {None}
  BY <1>1, <1>2, <1>4, <1>5 DEF PendingFits
<1>7. CASE hasChild
  <2>1. A!SetSize(inner)
    BY <1>7 DEF SetSize
  <2>2. ASSUME NEW d \in Dims
        PROVE  /\ A!ChildSize(d, inner[d]) \in Nat
               /\ A!ChildPos(d, inner[d]) \in Int
               /\ 0 <= A!ChildPos(d, inner[d])
               /\ A!ChildPos(d, inner[d]) + A!ChildSize(d, inner[d])
                    <= inner[d]
    BY <1>3, ContentAxisFits DEF GInv, TypeOK
  <2>3. A!TypeOK'
    <3>1. allotted' \in [Dims -> Int]
      BY <1>3, <2>1 DEF A!SetSize
    <3>2. childGeom' \in A!Geometries
      <4>1. [d \in Dims |-> A!ChildSize(d, inner[d])] \in [Dims -> Nat]
        BY <2>2
      <4>2. [d \in Dims |-> A!ChildPos(d, inner[d])] \in [Dims -> Int]
        BY <2>2
      <4> QED
        BY <2>1, <4>1, <4>2 DEF A!SetSize, A!Geometries
    <3>3. UNCHANGED <<alignment, margin, minSize, hasChild, childPref,
                      childStretch, error>>
      BY <2>1 DEF A!SetSize
    <3> QED
      BY <3>1, <3>2, <3>3 DEF GInv, TypeOK, A!TypeOK
  <2>4. InteriorFits'
    BY <1>1, <1>4, <2>1, <2>2 DEF A!SetSize, InteriorFits
  <2>5. ValidHasChild'
    BY <1>7, <2>1 DEF A!SetSize, ValidHasChild
  <2> QED
    BY <1>6, <2>3, <2>4, <2>5
<1>8. CASE ~hasChild
  <2>1. A!SetSizeNoChild(inner)
    BY <1>8 DEF SetSize
  <2>2. ~childGeom.valid /\ childGeom' = childGeom /\ hasChild' = hasChild
    BY <1>8, <2>1 DEF A!SetSizeNoChild, GInv, ValidHasChild
  <2>3. A!TypeOK'
    BY <2>1 DEF GInv, TypeOK, A!TypeOK, A!SetSizeNoChild
  <2> QED
    BY <1>6, <2>2, <2>3 DEF InteriorFits, ValidHasChild
<1> QED
  BY <1>7, <1>8

\* The content's setters keep it typed and leave the geometry alone.
LEMMA ContentStep ==
    ASSUME GInv, ContentChange
    PROVE  GInv'
<1>1. UNCHANGED <<childGeom, qsize, pending, hasDefaultSize, haveWM>>
  BY DEF ContentChange, dialogVars, A!SetMargin, A!SetMinSize, A!AddChild,
         A!ChildChanged
<1>2. hasChild => hasChild'
  BY DEF ContentChange, A!SetMargin, A!SetMinSize, A!AddChild, A!ChildChanged
<1>3. A!TypeOK'
  <2>1. CASE \E side \in A!Sides, m \in 0 .. MaxMargin : A!SetMargin(side, m)
    BY <2>1 DEF GInv, TypeOK, A!TypeOK, A!SetMargin
  <2>2. CASE \E dim \in Dims, v \in 0 .. MaxPref : A!SetMinSize(dim, v)
    BY <2>2 DEF GInv, TypeOK, A!TypeOK, A!SetMinSize
  <2>3. CASE \E p \in A!Prefs, st \in A!Stretches : A!AddChild(p, st)
    BY <2>3 DEF GInv, TypeOK, A!TypeOK, A!AddChild, A!Prefs, A!Stretches
  <2>4. CASE \E p \in A!Prefs, st \in A!Stretches : A!ChildChanged(p, st)
    BY <2>4 DEF GInv, TypeOK, A!TypeOK, A!ChildChanged, A!Prefs, A!Stretches
  <2> QED
    BY <2>1, <2>2, <2>3, <2>4 DEF ContentChange
<1>4. DecorationWidth' = DecorationWidth
  BY <1>1 DEF DecorationWidth, Decorated
<1>5. TypeOK'
  BY <1>3 DEF GInv, TypeOK, ContentChange, dialogVars
<1> QED
  BY <1>1, <1>2, <1>4, <1>5
     DEF GInv, InteriorFits, PendingFits, ValidHasChild

\* open() and recalcLayout() lay the dialog out at its preferred size.
LEMMA LayoutStep ==
    ASSUME GInv, Open \/ RecalcLayout
    PROVE  GInv'
<1> DEFINE ns == [d \in Dims |-> Preferred(d)]
<1>1. ns \in [Dims -> Int] /\ \A d \in Dims : 2 * DecorationWidth <= ns[d]
  BY PreferredFits DEF GInv
<1>2. pending = None \/ (pending \in Sizes
                         /\ \A d \in Dims : 2 * DecorationWidth <= pending[d])
  BY DEF GInv, PendingFits
<1>3. /\ SetSize(ns, qsize, pending)
      /\ hasDefaultSize' = hasDefaultSize /\ haveWM' = haveWM
      /\ UNCHANGED <<userSize, userResized, lastUser>>
      /\ opened' \in BOOLEAN /\ step' \in {"open", "recalc"}
  BY DEF Open, RecalcLayout, GInv, TypeOK
<1>4. /\ A!TypeOK' /\ InteriorFits' /\ PendingFits' /\ ValidHasChild'
      /\ qsize' \in Sizes /\ pending' \in Sizes \cup {None}
  BY <1>1, <1>2, <1>3, SetSizeStep
<1> QED
  BY <1>3, <1>4 DEF GInv, TypeOK

\* The event loop delivers the pending resize event.
LEMMA ResizeEventStep ==
    ASSUME GInv, ResizeEvent
    PROVE  GInv'
<1>1. pending \in Sizes /\ \A d \in Dims : 2 * DecorationWidth <= pending[d]
  BY DEF GInv, PendingFits, ResizeEvent
<1>2. /\ SetSize(pending, qsize, None)
      /\ hasDefaultSize' = hasDefaultSize /\ haveWM' = haveWM
      /\ UNCHANGED <<opened, lastUser>>
      /\ userSize' = pending /\ userResized' = TRUE
      /\ step' = "resizeEvent"
  BY DEF ResizeEvent
<1>3. pending \in [Dims -> Int]
  BY <1>1 DEF Sizes
<1>4. /\ A!TypeOK' /\ InteriorFits' /\ PendingFits' /\ ValidHasChild'
      /\ qsize' \in Sizes /\ pending' \in Sizes \cup {None}
  BY <1>1, <1>2, <1>3, SetSizeStep
<1> QED
  BY <1>1, <1>2, <1>4 DEF GInv, TypeOK

\* The user resizes the window; under a window manager there is no frame.
LEMMA UserResizeStep ==
    ASSUME GInv, NEW w \in [Dims -> 0 .. MaxSize], UserResize(w)
    PROVE  GInv'
<1>1. DecorationWidth = 0
  BY DecorationFacts DEF UserResize
<1>2. w \in Sizes /\ w \in [Dims -> Int]
      /\ \A d \in Dims : 2 * DecorationWidth <= w[d]
  BY <1>1 DEF Sizes
<1>3. /\ SetSize(w, w, None)
      /\ hasDefaultSize' = hasDefaultSize /\ haveWM' = haveWM
      /\ UNCHANGED opened
      /\ userSize' = w /\ userResized' = TRUE /\ lastUser' = w
      /\ step' = "user"
  BY DEF UserResize
<1>4. /\ A!TypeOK' /\ InteriorFits' /\ PendingFits' /\ ValidHasChild'
      /\ qsize' \in Sizes /\ pending' \in Sizes \cup {None}
  BY <1>2, <1>3, SetSizeStep
<1> QED
  BY <1>2, <1>3, <1>4 DEF GInv, TypeOK

\* A constructed dialog has laid nothing out and has no event pending.
LEMMA InitGInv == Init => GInv
<1> SUFFICES ASSUME Init PROVE GInv
  OBVIOUS
<1>1. A!TypeOK
  <2>1. A!NoGeometry \in A!Geometries
    BY DEF A!NoGeometry, A!Geometries
  <2>2. margin \in [A!Sides -> Nat] /\ allotted \in [Dims -> Int]
    BY DEF Init, A!Init
  <2> QED
    BY <2>1, <2>2 DEF Init, A!Init, A!TypeOK
<1>2. ~childGeom.valid
  BY DEF Init, A!Init, A!NoGeometry
<1>3. TypeOK
  BY <1>1 DEF Init, TypeOK, Sizes
<1> QED
  BY <1>2, <1>3 DEF Init, GInv, InteriorFits, PendingFits, ValidHasChild

\* Every step, or stutter, keeps GInv.
LEMMA NextGInv == GInv /\ [Next]_vars => GInv'
<1> SUFFICES ASSUME GInv, [Next]_vars PROVE GInv'
  OBVIOUS
<1>1. CASE Open \/ RecalcLayout
  BY <1>1, LayoutStep
<1>2. CASE ContentChange
  BY <1>2, ContentStep
<1>3. CASE ResizeEvent
  BY <1>3, ResizeEventStep
<1>4. CASE \E w \in [Dims -> 0 .. MaxSize] : UserResize(w)
  BY <1>4, UserResizeStep
<1>5. CASE UNCHANGED vars
  <2>1. /\ UNCHANGED contentVars
        /\ UNCHANGED <<hasDefaultSize, haveWM, opened, qsize, pending>>
        /\ UNCHANGED <<userSize, userResized, lastUser, step>>
    BY <1>5 DEF vars, dialogVars
  <2>2. DecorationWidth' = DecorationWidth
    BY <2>1 DEF DecorationWidth, Decorated
  <2>3. TypeOK'
    BY <2>1 DEF GInv, TypeOK, A!TypeOK, contentVars
  <2> QED
    BY <2>1, <2>2, <2>3
       DEF GInv, InteriorFits, PendingFits, ValidHasChild, contentVars
<1> QED
  BY <1>1, <1>2, <1>3, <1>4, <1>5 DEF Next

(***************************************************************************)
(* The content of a Qt dialog never gets a negative size and never lies    *)
(* outside the frame YQDialog draws, for every screen holding the frame    *)
(* twice: YQDialog::setSize() subtracts the frame of both sides only from *)
(* sizes that hold it (YQDialog.cc:191).                                   *)
(***************************************************************************)
THEOREM InteriorFitsInvariant == Spec => []InteriorFits
<1>1. Init => GInv
  BY InitGInv
<1>2. GInv /\ [Next]_vars => GInv'
  BY NextGInv
<1>3. GInv => InteriorFits
  BY DEF GInv
<1> QED
  BY <1>1, <1>2, <1>3, PTL DEF Spec

\* The dialog and its content stay in their types.
THEOREM GeometryTypeCorrect == Spec => []TypeOK
<1>1. GInv => TypeOK
  BY DEF GInv
<1> QED
  BY <1>1, InitGInv, NextGInv, PTL DEF Spec


-----------------------------------------------------------------------------
(***************************************************************************)
(* The size a main dialog is kept at: the user's last size, or the default *)
(* size if the user never resized it, limited to the screen.              *)
(***************************************************************************)
KeptSize == Clamp(IF lastUser = None THEN [d \in Dims |-> DefaultSize]
                  ELSE lastUser)

(***************************************************************************)
(* MainDialogKeepsSize is not inductive: a recalcLayout() while the echo   *)
(* of an earlier resize is pending, and the echo itself, must also land on *)
(* KeptSize.  KInv adds that a pending event of a main dialog carries      *)
(* KeptSize, that _userSize clamps to it once set, and that nothing is    *)
(* pending or recorded before open().                                      *)
(***************************************************************************)
KInv ==
    /\ GInv
    /\ ~opened => pending = None /\ ~userResized
    /\ ~userResized => lastUser = None
    /\ hasDefaultSize /\ opened =>
         IF pending = None THEN qsize = KeptSize ELSE pending = KeptSize
    /\ hasDefaultSize /\ userResized => Clamp(userSize) = KeptSize


\* Clamping to the screen is idempotent and keeps a size an integer size.
LEMMA ClampIdempotent ==
    ASSUME NEW ns \in [Dims -> Int]
    PROVE  /\ Clamp(ns) \in [Dims -> Int]
           /\ Clamp(Clamp(ns)) = Clamp(ns)
BY DEF Clamp

\* KeptSize is a clamped integer size, so clamping it again changes nothing.
LEMMA KeptSizeFacts ==
    ASSUME TypeOK
    PROVE  /\ KeptSize \in [Dims -> Int]
           /\ Clamp(KeptSize) = KeptSize
<1>1. (IF lastUser = None THEN [d \in Dims |-> DefaultSize] ELSE lastUser)
        \in [Dims -> Int]
  BY DEF TypeOK, Sizes
<1> QED
  BY <1>1, ClampIdempotent DEF KeptSize

\* What setSize() leaves in the window's size and the pending event.
LEMMA SetSizeDialog ==
    ASSUME NEW ns, NEW cur, NEW pend, SetSize(ns, cur, pend)
    PROVE  /\ qsize' = Clamp(ns)
           /\ pending' = IF Clamp(ns) # cur THEN Clamp(ns) ELSE pend
BY DEF SetSize

\* A main dialog's preferred size clamps to the size it is kept at.
LEMMA MainPreferredIsKept ==
    ASSUME KInv, hasDefaultSize
    PROVE  Clamp([d \in Dims |-> Preferred(d)]) = KeptSize
<1>1. CASE userResized
  <2>1. [d \in Dims |-> Preferred(d)] = userSize
    BY <1>1 DEF Preferred, KInv, GInv, TypeOK, Sizes
  <2> QED
    BY <1>1, <2>1 DEF KInv
<1>2. CASE ~userResized
  <2>1. [d \in Dims |-> Preferred(d)] = [d \in Dims |-> DefaultSize]
    BY <1>2 DEF Preferred
  <2>2. lastUser = None
    BY <1>2 DEF KInv
  <2> QED
    BY <2>1, <2>2 DEF KeptSize
<1> QED
  BY <1>1, <1>2

\* open() and recalcLayout() put a main dialog at its kept size.
LEMMA LayoutKeeps ==
    ASSUME KInv, Open \/ RecalcLayout
    PROVE  KInv'
<1> DEFINE ns == [d \in Dims |-> Preferred(d)]
<1>1. GInv'
  BY LayoutStep DEF KInv
<1>2. /\ SetSize(ns, qsize, pending)
      /\ opened' = TRUE
      /\ UNCHANGED <<hasDefaultSize, userSize, userResized, lastUser>>
      /\ opened => (pending # None => pending = KeptSize \/ ~hasDefaultSize)
      /\ ~opened => pending = None
  BY DEF Open, RecalcLayout, KInv
<1>3. KeptSize' = KeptSize
  BY <1>2 DEF KeptSize, Clamp
<1>4. /\ qsize' = Clamp(ns)
      /\ pending' = IF Clamp(ns) # qsize THEN Clamp(ns) ELSE pending
  BY <1>2, SetSizeDialog
<1>5. hasDefaultSize =>
        IF pending' = None THEN qsize' = KeptSize' ELSE pending' = KeptSize'
  <2> SUFFICES ASSUME hasDefaultSize
               PROVE  IF pending' = None THEN qsize' = KeptSize'
                      ELSE pending' = KeptSize'
    OBVIOUS
  <2>1. Clamp(ns) = KeptSize
    BY MainPreferredIsKept
  <2>2. CASE pending = None
    <3>1. CASE opened
      BY <1>3, <1>4, <2>1, <2>2, <3>1 DEF KInv
    <3>2. CASE ~opened
      BY <1>3, <1>4, <2>1, <2>2
    <3> QED
      BY <3>1, <3>2
  <2>3. CASE pending # None
    BY <1>2, <1>3, <1>4, <2>1, <2>3
  <2> QED
    BY <2>2, <2>3
<1>6. hasDefaultSize /\ userResized => Clamp(userSize) = KeptSize
  BY DEF KInv
<1> QED
  BY <1>1, <1>2, <1>3, <1>5, <1>6 DEF KInv

\* The event loop delivers the echo of the program's own resize.
LEMMA ResizeEventKeeps ==
    ASSUME KInv, ResizeEvent
    PROVE  KInv'
<1>1. GInv'
  BY ResizeEventStep DEF KInv
<1>2. /\ SetSize(pending, qsize, None)
      /\ opened /\ opened' = opened
      /\ UNCHANGED <<hasDefaultSize, lastUser>>
      /\ userSize' = pending /\ userResized' = TRUE
  BY DEF ResizeEvent, KInv
<1>3. KeptSize' = KeptSize
  BY <1>2 DEF KeptSize, Clamp
<1>4. /\ qsize' = Clamp(pending)
      /\ pending' = IF Clamp(pending) # qsize THEN Clamp(pending) ELSE None
  BY <1>2, SetSizeDialog
<1>5. hasDefaultSize => Clamp(pending) = KeptSize /\ pending = KeptSize
  BY <1>2, KeptSizeFacts DEF KInv, GInv, ResizeEvent
<1>6. hasDefaultSize =>
        /\ IF pending' = None THEN qsize' = KeptSize' ELSE pending' = KeptSize'
        /\ Clamp(userSize') = KeptSize'
  BY <1>2, <1>3, <1>4, <1>5
<1>7. ~userResized' => lastUser' = None
  BY <1>2
<1> QED
  BY <1>1, <1>2, <1>6, <1>7 DEF KInv

\* The user resizes the window to w: w becomes the size it is kept at.
LEMMA UserResizeKeeps ==
    ASSUME KInv, NEW w \in [Dims -> 0 .. MaxSize], UserResize(w)
    PROVE  KInv'
<1>1. GInv'
  BY UserResizeStep DEF KInv
<1>2. /\ SetSize(w, w, None)
      /\ opened /\ opened' = opened /\ hasDefaultSize' = hasDefaultSize
      /\ userSize' = w /\ userResized' = TRUE /\ lastUser' = w
  BY DEF UserResize
<1>3. KeptSize' = Clamp(w)
  <2>1. w \in [Dims -> Int]
    OBVIOUS
  <2>2. w # None
    BY <2>1
  <2> QED
    BY <1>2, <2>2 DEF KeptSize
<1>4. /\ qsize' = Clamp(w)
      /\ pending' = IF Clamp(w) # w THEN Clamp(w) ELSE None
  BY <1>2, SetSizeDialog
<1> QED
  BY <1>1, <1>2, <1>3, <1>4 DEF KInv

\* The content's setters leave the dialog's own state alone.
LEMMA ContentKeeps ==
    ASSUME KInv, ContentChange
    PROVE  KInv'
<1>1. GInv'
  BY ContentStep DEF KInv
<1>2. UNCHANGED <<hasDefaultSize, opened, qsize, pending, userSize,
                  userResized, lastUser>>
  BY DEF ContentChange, dialogVars
<1>3. KeptSize' = KeptSize
  BY <1>2 DEF KeptSize, Clamp
<1> QED
  BY <1>1, <1>2, <1>3 DEF KInv

LEMMA NextKInv == KInv /\ [Next]_vars => KInv'
<1> SUFFICES ASSUME KInv, [Next]_vars PROVE KInv'
  OBVIOUS
<1>1. CASE Open \/ RecalcLayout
  BY <1>1, LayoutKeeps
<1>2. CASE ContentChange
  BY <1>2, ContentKeeps
<1>3. CASE ResizeEvent
  BY <1>3, ResizeEventKeeps
<1>4. CASE \E w \in [Dims -> 0 .. MaxSize] : UserResize(w)
  BY <1>4, UserResizeKeeps
<1>5. CASE UNCHANGED vars
  <2>1. GInv'
    BY <1>5, NextGInv DEF KInv
  <2>2. UNCHANGED <<hasDefaultSize, opened, qsize, pending, userSize,
                    userResized, lastUser>>
    BY <1>5 DEF vars, dialogVars
  <2>3. KeptSize' = KeptSize
    BY <2>2 DEF KeptSize, Clamp
  <2> QED
    BY <2>1, <2>2, <2>3 DEF KInv
<1> QED
  BY <1>1, <1>2, <1>3, <1>4, <1>5 DEF Next

(***************************************************************************)
(* A main dialog keeps the size it was given, for every screen, default    *)
(* size and user size: once opened and with no resize event pending, its  *)
(* window has the user's last size, or the default size, clamped to the   *)
(* screen, although YQDialog::resizeEvent records the echo of the         *)
(* program's own resizes as the user's size.                               *)
(***************************************************************************)
THEOREM MainDialogSizeKept == Spec => []MainDialogKeepsSize
<1>1. Init => KInv
  BY InitGInv DEF Init, KInv
<1>2. KInv => MainDialogKeepsSize
  BY DEF KInv, MainDialogKeepsSize, KeptSize
<1> QED
  BY <1>1, <1>2, NextKInv, PTL DEF Spec


-----------------------------------------------------------------------------
(***************************************************************************)
(* Alignment's AxisHonoured for the instance A: an axis laid out with room *)
(* for the child and both margins keeps them.                              *)
(***************************************************************************)
LEMMA ContentAxisHonoured ==
    ASSUME A!TypeOK, NEW d \in Dims, NEW s \in Nat, A!Room(d, s)
    PROVE  /\ A!ChildSize(d, s) >= childPref[d]
           /\ A!ChildPos(d, s) >= margin[A!Lead(d)]
           /\ A!ChildPos(d, s) + A!ChildSize(d, s) + margin[A!Trail(d)] <= s
BY AP!AxisHonoured
   DEF AP!TypeOK, A!TypeOK, AP!ChildSize, A!ChildSize, AP!ChildPos,
       A!ChildPos, AP!Room, A!Room, AP!Squeezed, A!Squeezed,
       AP!Stretchable, A!Stretchable, AP!TotalMargin, A!TotalMargin,
       AP!MarginOffset, A!MarginOffset, AP!Slack, A!Slack, AP!MarginTotal,
       A!MarginTotal, AP!Lead, A!Lead, AP!Trail, A!Trail, AP!Sides, A!Sides,
       AP!AlignmentTypes, A!AlignmentTypes, AP!Geometries, A!Geometries

(***************************************************************************)
(* open() or recalcLayout() of a popup with a child, whose preferred size  *)
(* fits the screen: no clamp, and the content gets exactly its own         *)
(* preferred size, which has room for the child and both margins.          *)
(***************************************************************************)
LEMMA PopupLayoutHonoured ==
    ASSUME GInv, Open \/ RecalcLayout, ~hasDefaultSize, hasChild,
           \A e \in Dims : Preferred(e) <= Screen,
           NEW d \in Dims
    PROVE  /\ childGeom'.size[d] >= childPref[d]
           /\ childGeom'.pos[d] >= margin[A!Lead(d)]
           /\ childGeom'.pos[d] + childGeom'.size[d] + margin[A!Trail(d)]
                <= qsize'[d] - 2 * DecorationWidth
<1> DEFINE ns    == [e \in Dims |-> Preferred(e)]
           inner == [e \in Dims |-> Clamp(ns)[e] - 2 * DecorationWidth]
<1>1. SetSize(ns, qsize, pending)
  BY DEF Open, RecalcLayout
<1>2. A!SetSize(inner) /\ qsize' = Clamp(ns)
  BY <1>1 DEF SetSize
<1>3. Clamp(ns)[d] = Preferred(d)
  <2>1. Preferred(d) \in Nat /\ Preferred(d) <= Screen
    BY PreferredFits DEF GInv
  <2> QED
    BY <2>1 DEF Clamp
<1>4. A!PreferredSize(d) \in Nat
  <2>1. minSize[d] \in Nat /\ childPref[d] \in Nat
    BY DEF GInv, TypeOK, A!TypeOK
  <2>2. margin[A!Lead(d)] \in Nat /\ margin[A!Trail(d)] \in Nat
    BY DEF GInv, TypeOK, A!TypeOK, A!Lead, A!Trail, A!Sides
  <2> QED
    BY <2>1, <2>2 DEF A!PreferredSize, A!TotalMargin
<1>5. inner[d] = A!PreferredSize(d) /\ inner[d] \in Nat
  BY <1>3, <1>4, DecorationFacts DEF Preferred
<1>6. A!Room(d, inner[d])
  <2>1. childPref[d] \in Nat /\ A!TotalMargin(d) \in Nat
    BY DEF GInv, TypeOK, A!TypeOK, A!TotalMargin, A!Lead, A!Trail, A!Sides
  <2> QED
    BY <1>5, <2>1 DEF A!PreferredSize, A!Room
<1>7. /\ childGeom'.size[d] = A!ChildSize(d, inner[d])
      /\ childGeom'.pos[d] = A!ChildPos(d, inner[d])
  BY <1>2 DEF A!SetSize
<1>8. qsize'[d] - 2 * DecorationWidth = inner[d]
  BY <1>2
<1> QED
  BY <1>5, <1>6, <1>7, <1>8, ContentAxisHonoured DEF GInv, TypeOK

(***************************************************************************)
(* A popup laid out by open() or recalcLayout() at a preferred size that   *)
(* fits the screen gives its content's child at least the child's          *)
(* preferred size and both margins inside the frame, for every screen,     *)
(* frame and content: preferredWidth()/Height() add the frame exactly as   *)
(* YQDialog::setSize() takes it off.                                       *)
(***************************************************************************)
THEOREM PopupPreferredProved == Spec => PopupPreferredHonoured
<1>1. ASSUME GInv, [Next]_vars
      PROVE  [(/\ step' \in {"open", "recalc"}
               /\ ~hasDefaultSize
               /\ hasChild
               /\ \A e \in Dims : Preferred(e) <= Screen) =>
                \A d \in Dims :
                  /\ childGeom'.size[d] >= childPref[d]
                  /\ childGeom'.pos[d] >= margin[A!Lead(d)]
                  /\ childGeom'.pos[d] + childGeom'.size[d]
                       + margin[A!Trail(d)]
                       <= qsize'[d] - 2 * DecorationWidth]_vars
  <2>1. CASE Open \/ RecalcLayout
    BY <1>1, <2>1, PopupLayoutHonoured
  <2>2. CASE ContentChange \/ ResizeEvent
             \/ \E w \in [Dims -> 0 .. MaxSize] : UserResize(w)
    BY <2>2 DEF ContentChange, ResizeEvent, UserResize
  <2>3. CASE UNCHANGED vars
    BY <2>3
  <2> QED
    BY <1>1, <2>1, <2>2, <2>3 DEF Next
<1> QED
  BY <1>1, InitGInv, NextGInv, PTL DEF Spec, PopupPreferredHonoured

=============================================================================
