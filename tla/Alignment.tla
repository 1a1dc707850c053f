----------------------------- MODULE Alignment -----------------------------
(***************************************************************************)
(* The single-child alignment container of the layout engine              *)
(* (YAlignment.cc): the widget behind Left, Right, HCenter, MarginBox,     *)
(* MinWidth, MinSize and the other alignment and margin terms.            *)
(*                                                                         *)
(* Its state is four margins, two minimum sizes, the alignment per axis   *)
(* (fixed by the constructor) and the one child.  The child is abstracted *)
(* to what the container asks of it: its preferred size and stretchability *)
(* per axis.  setSize() runs the same negotiation for both axes and hands  *)
(* the child its size and position; the model records that geometry.     *)
(* The loop body of setSize() reads and writes only the entries of its    *)
(* own axis, so the axes are independent; Dims says which are modelled.   *)
(***************************************************************************)
EXTENDS Integers

CONSTANTS
    Dims,       \* the axes laid out: {"hor", "vert"}, or one of them
    MaxSize,    \* largest size setSize() is called with
    MaxMargin,  \* largest margin an application sets
    MaxPref     \* largest preferred size or minimum size of a widget

ASSUME BoundsAssumption ==
    /\ Dims \subseteq {"hor", "vert"}
    /\ Dims # {}
    /\ MaxSize \in Nat
    /\ MaxMargin \in Nat
    /\ MaxPref \in Nat

AlignmentTypes == {"Begin", "Center", "End", "Unchanged"}

\* The leading and the trailing margin of an axis.
Lead(dim)  == IF dim = "hor" THEN "left" ELSE "top"
Trail(dim) == IF dim = "hor" THEN "right" ELSE "bottom"

Sides == {Lead(d) : d \in Dims} \cup {Trail(d) : d \in Dims}

NoGeometry == [size |-> [d \in Dims |-> 0], pos |-> [d \in Dims |-> 0],
               valid |-> FALSE]

VARIABLES
    alignment,     \* priv->alignment, per axis
    margin,        \* priv->leftMargin ... priv->bottomMargin
    minSize,       \* priv->minWidth, priv->minHeight
    hasChild,      \* hasChildren()
    childPref,     \* firstChild()->preferredSize( dim )
    childStretch,  \* firstChild()->stretchable( dim )
    allotted,      \* the size of the last setSize(), per axis
    childGeom,     \* size and position given to the child by that call
    error          \* a setSize() without a child was reported

vars == <<alignment, margin, minSize, hasChild, childPref, childStretch,
          allotted, childGeom, error>>

Geometries == [size : [Dims -> Nat], pos : [Dims -> Int], valid : BOOLEAN]

TypeOK ==
    /\ alignment \in [Dims -> AlignmentTypes]
    /\ margin \in [Sides -> Nat]
    /\ minSize \in [Dims -> Nat]
    /\ hasChild \in BOOLEAN
    /\ childPref \in [Dims -> Nat]
    /\ childStretch \in [Dims -> BOOLEAN]
    /\ allotted \in [Dims -> Int]
    /\ childGeom \in Geometries
    /\ error \in BOOLEAN

-----------------------------------------------------------------------------
(***************************************************************************)
(* The container's answers to the layout engine.                           *)
(***************************************************************************)
TotalMargin(dim) == margin[Lead(dim)] + margin[Trail(dim)]

\* stretchable(): inherited from the child under YAlignUnchanged, else TRUE.
Stretchable(dim) ==
    IF alignment[dim] = "Unchanged" /\ hasChild THEN childStretch[dim]
    ELSE TRUE

\* Mutant: preferredWidth() adds only the leading margin.
PreferredSizeOneMargin(dim) ==
    IF ~hasChild THEN minSize[dim]
    ELSE LET p == childPref[dim] + margin[Lead(dim)]
         IN  IF minSize[dim] > p THEN minSize[dim] ELSE p

\* preferredWidth() / preferredHeight(): child plus margins, floored at min.
PreferredSize(dim) ==
    IF ~hasChild THEN minSize[dim]
    ELSE LET p == childPref[dim] + TotalMargin(dim)
         IN  IF minSize[dim] > p THEN minSize[dim] ELSE p

(***************************************************************************)
(* One pass of the loop in setSize(), for axis dim and new size s.  Three  *)
(* cases: Room, enough space for the child and both margins; Squeezed,     *)
(* room for the child only, so the margins shrink in proportion (the       *)
(* leading one by integer division); Starved, not even room for the       *)
(* child, so the margins collapse.  All operands are non-negative, so      *)
(* \div is C's division.                                                   *)
(***************************************************************************)
Room(dim, s)     == s >= childPref[dim] + TotalMargin(dim)
Squeezed(dim, s) == ~Room(dim, s) /\ s >= childPref[dim]

\* Mutant: a starved child gets the new size minus the margins.
ChildSizeNoCollapse(dim, s) ==
    IF Room(dim, s)
    THEN IF childStretch[dim] /\ (alignment[dim] = "Unchanged"
                                  \/ Stretchable(dim))
         THEN s - TotalMargin(dim) ELSE childPref[dim]
    ELSE IF Squeezed(dim, s) THEN childPref[dim] ELSE s - TotalMargin(dim)

\* newChildSize[ dim ]: all the space a stretchable child may take, else
\* its preferred size, and never more than s.
ChildSize(dim, s) ==
    IF Room(dim, s)
    THEN IF childStretch[dim] /\ (alignment[dim] = "Unchanged"
                                  \/ Stretchable(dim))
         THEN s - TotalMargin(dim) ELSE childPref[dim]
    ELSE IF Squeezed(dim, s) THEN childPref[dim] ELSE s

\* offset[ dim ]: the leading margin as it is kept, shrunk or dropped.
MarginOffset(dim, s) ==
    IF Room(dim, s) THEN margin[Lead(dim)]
    ELSE IF Squeezed(dim, s)
         THEN ((s - childPref[dim]) * margin[Lead(dim)]) \div TotalMargin(dim)
    ELSE 0

\* totalMargin[ dim ] after the case analysis.
MarginTotal(dim, s) ==
    IF Room(dim, s) THEN TotalMargin(dim)
    ELSE IF Squeezed(dim, s) THEN s - childPref[dim]
    ELSE 0

\* The space that is neither child nor margin.
Slack(dim, s) == s - ChildSize(dim, s) - MarginTotal(dim, s)

\* Mutant: YAlignEnd forgets that the margins take part of the space.
ChildPosEndNoMargin(dim, s) ==
    MarginOffset(dim, s) +
      CASE alignment[dim] = "Center" -> Slack(dim, s) \div 2
        [] alignment[dim] = "End"    -> s - ChildSize(dim, s)
        [] OTHER                     -> 0

\* newChildPos[ dim ]: the slack before the child, by alignment, plus offset.
ChildPos(dim, s) ==
    MarginOffset(dim, s) +
      CASE alignment[dim] = "Center" -> Slack(dim, s) \div 2
        [] alignment[dim] = "End"    -> Slack(dim, s)
        [] OTHER                     -> 0

-----------------------------------------------------------------------------
(***************************************************************************)
(* Operations.                                                             *)
(***************************************************************************)

\* setLeftMargin() ... setBottomMargin().
SetMargin(side, m) ==
    /\ margin' = [margin EXCEPT ![side] = m]
    /\ UNCHANGED <<alignment, minSize, hasChild, childPref, childStretch,
                   allotted, childGeom, error>>

\* setMinWidth() / setMinHeight().
SetMinSize(dim, v) ==
    /\ minSize' = [minSize EXCEPT ![dim] = v]
    /\ UNCHANGED <<alignment, margin, hasChild, childPref, childStretch,
                   allotted, childGeom, error>>

(***************************************************************************)
(* addChild(): the one child arrives; a minimum size set before makes the  *)
(* child stretchable on that axis.                                         *)
(***************************************************************************)
AddChild(pref, stretch) ==
    /\ ~hasChild
    /\ hasChild' = TRUE
    /\ childPref' = pref
    /\ childStretch' = [d \in Dims |-> stretch[d] \/ minSize[d] > 0]
    /\ UNCHANGED <<alignment, margin, minSize, allotted, childGeom, error>>

(***************************************************************************)
(* The child's own contents change its preferred size or stretchability    *)
(* (a label gets a new text, an image is set to zero size).                *)
(***************************************************************************)
ChildChanged(pref, stretch) ==
    /\ hasChild
    /\ childPref' = pref
    /\ childStretch' = stretch
    /\ UNCHANGED <<alignment, margin, minSize, hasChild, allotted,
                   childGeom, error>>

\* setSize() on a container without child: reported, nothing laid out.
SetSizeNoChild(s) ==
    /\ ~hasChild
    /\ error' = TRUE
    /\ UNCHANGED <<alignment, margin, minSize, hasChild, childPref,
                   childStretch, allotted, childGeom>>

(***************************************************************************)
(* setSize( newWidth, newHeight ), the pair given as s[axis]: every axis   *)
(* negotiated, then the child sized and moved.                             *)
(***************************************************************************)
SetSize(s) ==
    /\ hasChild
    /\ allotted' = s
    /\ childGeom' = [size  |-> [d \in Dims |-> ChildSize(d, s[d])],
                     pos   |-> [d \in Dims |-> ChildPos(d, s[d])],
                     valid |-> TRUE]
    /\ UNCHANGED <<alignment, margin, minSize, hasChild, childPref,
                   childStretch, error>>

-----------------------------------------------------------------------------
(***************************************************************************)
(* A freshly constructed YAlignment: zero margins and minimum sizes, any   *)
(* alignment, no child yet.                                                *)
(***************************************************************************)
Init ==
    /\ alignment \in [Dims -> AlignmentTypes]
    /\ margin = [s \in Sides |-> 0]
    /\ minSize = [d \in Dims |-> 0]
    /\ hasChild = FALSE
    /\ childPref = [d \in Dims |-> 0]
    /\ childStretch = [d \in Dims |-> FALSE]
    /\ allotted = [d \in Dims |-> 0]
    /\ childGeom = NoGeometry
    /\ error = FALSE

Prefs == [Dims -> 0 .. MaxPref]
Stretches == [Dims -> BOOLEAN]

Next ==
    \/ \E side \in Sides, m \in 0 .. MaxMargin : SetMargin(side, m)
    \/ \E dim \in Dims, v \in 0 .. MaxPref : SetMinSize(dim, v)
    \/ \E p \in Prefs, st \in Stretches : AddChild(p, st)
    \/ \E p \in Prefs, st \in Stretches : ChildChanged(p, st)
    \/ \E s \in [Dims -> 0 .. MaxSize] : SetSizeNoChild(s)
    \/ \E s \in [Dims -> 0 .. MaxSize] : SetSize(s)

Spec == Init /\ [][Next]_vars

-----------------------------------------------------------------------------
(***************************************************************************)
(* Properties.                                                             *)
(***************************************************************************)

\* A step of setSize(): the only one that lays the child out.
LaidOut == childGeom' # childGeom \/ allotted' # allotted

(***************************************************************************)
(* The child never sticks out of the container: after every setSize(), on  *)
(* both axes, the child starts at or after the container's start and ends  *)
(* at or before its end, whichever of the three space cases applied.      *)
(***************************************************************************)
ChildFits ==
    childGeom.valid =>
        \A d \in Dims : /\ 0 <= childGeom.pos[d]
                       /\ childGeom.pos[d] + childGeom.size[d] <= allotted[d]

(***************************************************************************)
(* preferredWidth()/preferredHeight() and setSize() agree: a container     *)
(* given at least its preferred size gives its child at least the child's  *)
(* preferred size and keeps both margins in full.                          *)
(***************************************************************************)
PreferredHonoured ==
    [][LaidOut =>
         \A d \in Dims :
           allotted'[d] >= PreferredSize(d) =>
             /\ childGeom'.size[d] >= childPref[d]
             /\ childGeom'.pos[d] >= margin[Lead(d)]
             /\ childGeom'.pos[d] + childGeom'.size[d] + margin[Trail(d)]
                   <= allotted'[d]]_vars

(***************************************************************************)
(* The spec (section 4.2): when the margins must shrink, they shrink in    *)
(* proportion and the rounding favours the leading margin, i.e. the        *)
(* leading margin gets at least its exact share of the space left.        *)
(***************************************************************************)
LeadingMarginFavoured ==
    [][LaidOut =>
         \A d \in Dims :
           LET s  == allotted'[d]
               cp == childPref[d]
           IN  cp <= s /\ s < cp + TotalMargin(d) =>
                 childGeom'.pos[d] * TotalMargin(d)
                   >= (s - cp) * margin[Lead(d)]]_vars

=============================================================================
