--------------------------- MODULE AlignmentProofs ---------------------------
(***************************************************************************)
(* Proofs about YAlignment's size negotiation, for every size, margin,     *)
(* preferred size and minimum size (every value of the bounds).            *)
(***************************************************************************)
EXTENDS Alignment, TLAPS

(***************************************************************************)
(* The proportional share of the leading margin never exceeds the space    *)
(* left: (r * l) / t <= r when l <= t.                                      *)
(***************************************************************************)
LEMMA ShareBound ==
    ASSUME NEW r \in Nat, NEW l \in Nat, NEW t \in Nat, t > 0, l <= t
    PROVE  (r * l) \div t \in 0 .. r
<1>1. r * l <= r * t
    BY SMT
<1>2. (r * l) \div t >= 0
    BY SMT
<1>3. ((r * l) \div t) * t <= r * l
    BY SMT
<1>4. ((r * l) \div t) * t <= r * t
    BY <1>1, <1>3, SMT
<1>5. (r * l) \div t <= r
    BY <1>4, SMT
<1>6. QED
    BY <1>2, <1>5, SMT

(***************************************************************************)
(* One axis of setSize() with a non-negative new size: the child's size is *)
(* a natural number, the leading offset lies within the margins kept, and  *)
(* child plus margins leave no negative slack.                             *)
(***************************************************************************)
LEMMA AxisShape ==
    ASSUME TypeOK, NEW d \in Dims, NEW s \in Nat
    PROVE  /\ ChildSize(d, s) \in Nat
           /\ 0 <= MarginOffset(d, s)
           /\ MarginOffset(d, s) <= MarginTotal(d, s)
           /\ Slack(d, s) >= 0
<1> DEFINE cp == childPref[d]
           lm == margin[Lead(d)]
           tm == TotalMargin(d)
<1>1. cp \in Nat /\ lm \in Nat /\ margin[Trail(d)] \in Nat
    BY BoundsAssumption DEF TypeOK, Lead, Trail, Sides
<1>2. tm \in Nat /\ lm <= tm
    BY <1>1 DEF TotalMargin
<1>3. CASE Room(d, s)
    BY <1>1, <1>2, <1>3 DEF ChildSize, MarginOffset, MarginTotal, Slack, Room
<1>4. CASE Squeezed(d, s)
    <2>1. tm > 0
        BY <1>1, <1>2, <1>4 DEF Squeezed, Room
    <2>2. (s - cp) \in Nat
        BY <1>1, <1>4 DEF Squeezed
    <2>3. ((s - cp) * lm) \div tm \in 0 .. (s - cp)
        BY <1>1, <1>2, <2>1, <2>2, ShareBound
    <2>4. QED
        BY <1>1, <1>4, <2>3 DEF ChildSize, MarginOffset, MarginTotal, Slack,
           Squeezed
<1>5. CASE ~Room(d, s) /\ ~Squeezed(d, s)
    BY <1>1, <1>5 DEF ChildSize, MarginOffset, MarginTotal, Slack, Squeezed
<1>6. QED
    BY <1>3, <1>4, <1>5

(***************************************************************************)
(* Hence the child lies within [0, s] for every alignment.                 *)
(***************************************************************************)
LEMMA AxisFits ==
    ASSUME TypeOK, NEW d \in Dims, NEW s \in Nat
    PROVE  /\ ChildSize(d, s) \in Nat
           /\ ChildPos(d, s) \in Int
           /\ 0 <= ChildPos(d, s)
           /\ ChildPos(d, s) + ChildSize(d, s) <= s
<1>1. /\ ChildSize(d, s) \in Nat
      /\ 0 <= MarginOffset(d, s)
      /\ MarginOffset(d, s) <= MarginTotal(d, s)
      /\ Slack(d, s) >= 0
    BY AxisShape
<1>2. MarginTotal(d, s) \in Int /\ MarginOffset(d, s) \in Int
    BY BoundsAssumption DEF TypeOK, MarginTotal, MarginOffset, TotalMargin,
       Room, Squeezed, Lead, Trail, Sides
<1>3. Slack(d, s) = s - ChildSize(d, s) - MarginTotal(d, s)
    BY DEF Slack
<1>4. Slack(d, s) \div 2 \in 0 .. Slack(d, s)
    BY <1>1, <1>2, <1>3
<1>5. QED
    BY <1>1, <1>2, <1>3, <1>4 DEF ChildPos

(***************************************************************************)
(* Every action keeps the variables in their types.                        *)
(***************************************************************************)
LEMMA TypeStep == TypeOK /\ [Next]_vars => TypeOK'
<1> SUFFICES ASSUME TypeOK, [Next]_vars PROVE TypeOK'
    OBVIOUS
<1> USE BoundsAssumption DEF TypeOK, Geometries
<1>1. ASSUME NEW side \in Sides, NEW m \in 0 .. MaxMargin, SetMargin(side, m)
      PROVE TypeOK'
    BY <1>1 DEF SetMargin
<1>2. ASSUME NEW dim \in Dims, NEW v \in 0 .. MaxPref, SetMinSize(dim, v)
      PROVE TypeOK'
    BY <1>2 DEF SetMinSize
<1>3. ASSUME NEW p \in Prefs, NEW st \in Stretches, AddChild(p, st)
      PROVE TypeOK'
    BY <1>3 DEF AddChild, Prefs, Stretches
<1>4. ASSUME NEW p \in Prefs, NEW st \in Stretches, ChildChanged(p, st)
      PROVE TypeOK'
    BY <1>4 DEF ChildChanged, Prefs, Stretches
<1>5. ASSUME NEW s \in [Dims -> 0 .. MaxSize], SetSizeNoChild(s)
      PROVE TypeOK'
    BY <1>5 DEF SetSizeNoChild
<1>6. ASSUME NEW s \in [Dims -> 0 .. MaxSize], SetSize(s) PROVE TypeOK'
    <2>1. ASSUME NEW d \in Dims
          PROVE  ChildSize(d, s[d]) \in Nat /\ ChildPos(d, s[d]) \in Int
        <3>1. s[d] \in Nat
            OBVIOUS
        <3>2. 0 <= ChildPos(d, s[d]) /\ ChildSize(d, s[d]) \in Nat
            BY <3>1, AxisFits
        <3>3. ChildPos(d, s[d]) \in Int
            BY <3>2 DEF ChildPos, MarginOffset, Slack, ChildSize, MarginTotal,
               TotalMargin, Room, Squeezed, Lead, Trail, Sides
        <3>4. QED
            BY <3>2, <3>3
    <2>3. QED
        BY <1>6, <2>1 DEF SetSize
<1>7. CASE UNCHANGED vars
    BY <1>7 DEF vars
<1>8. QED
    BY <1>1, <1>2, <1>3, <1>4, <1>5, <1>6, <1>7 DEF Next

(***************************************************************************)
(* A freshly constructed container is well typed.                          *)
(***************************************************************************)
LEMMA InitType == Init => TypeOK
<1> SUFFICES ASSUME Init PROVE TypeOK
    OBVIOUS
<1>1. NoGeometry \in Geometries
    BY DEF NoGeometry, Geometries
<1>2. margin \in [Sides -> Nat] /\ allotted \in [Dims -> Int]
    BY DEF Init
<1>3. QED
    BY <1>1, <1>2 DEF Init, TypeOK

(***************************************************************************)
(* Type correctness: margins, minimum and preferred sizes are natural      *)
(* numbers, and setSize() never hands the child a negative size.           *)
(***************************************************************************)
THEOREM TypeCorrect == Spec => []TypeOK
<1>1. Init => TypeOK
    BY InitType
<1>2. QED
    BY <1>1, TypeStep, PTL DEF Spec

(***************************************************************************)
(* ChildFits together with the types is inductive: only setSize() changes  *)
(* the geometry, and AxisFits bounds what it hands out.                    *)
(***************************************************************************)
IInv == TypeOK /\ ChildFits

LEMMA IInvStep == IInv /\ [Next]_vars => IInv'
<1> SUFFICES ASSUME IInv, [Next]_vars PROVE IInv'
    OBVIOUS
<1>0. TypeOK'
    BY TypeStep DEF IInv
<1>1. ASSUME NEW s \in [Dims -> 0 .. MaxSize], SetSize(s) PROVE ChildFits'
    <2>1. ASSUME NEW d \in Dims
          PROVE  /\ 0 <= ChildPos(d, s[d])
                 /\ ChildPos(d, s[d]) + ChildSize(d, s[d]) <= s[d]
        <3>1. s[d] \in Nat
            OBVIOUS
        <3>2. QED
            BY <3>1, AxisFits DEF IInv
    <2>2. QED
        BY <1>1, <2>1 DEF SetSize, ChildFits
<1>2. ASSUME allotted' = allotted, childGeom' = childGeom PROVE ChildFits'
    BY <1>2 DEF IInv, ChildFits
<1>3. ChildFits'
    <2>1. ASSUME NEW side \in Sides, NEW m \in 0 .. MaxMargin,
                 SetMargin(side, m)
          PROVE  ChildFits'
        BY <1>2, <2>1 DEF SetMargin
    <2>2. ASSUME NEW dim \in Dims, NEW v \in 0 .. MaxPref, SetMinSize(dim, v)
          PROVE  ChildFits'
        BY <1>2, <2>2 DEF SetMinSize
    <2>3. ASSUME NEW p \in Prefs, NEW st \in Stretches, AddChild(p, st)
          PROVE  ChildFits'
        BY <1>2, <2>3 DEF AddChild
    <2>4. ASSUME NEW p \in Prefs, NEW st \in Stretches, ChildChanged(p, st)
          PROVE  ChildFits'
        BY <1>2, <2>4 DEF ChildChanged
    <2>5. ASSUME NEW s \in [Dims -> 0 .. MaxSize], SetSizeNoChild(s)
          PROVE  ChildFits'
        BY <1>2, <2>5 DEF SetSizeNoChild
    <2>6. CASE UNCHANGED vars
        BY <1>2, <2>6 DEF vars
    <2>7. QED
        BY <1>1, <2>1, <2>2, <2>3, <2>4, <2>5, <2>6 DEF Next
<1>4. QED
    BY <1>0, <1>3 DEF IInv

(***************************************************************************)
(* The child never sticks out of the container after setSize(), for every  *)
(* size, margin, minimum size and preferred size: the integer share given  *)
(* to the leading margin when squeezed never exceeds the space left.      *)
(***************************************************************************)
THEOREM ChildFitsInvariant == Spec => []ChildFits
<1>1. Init => IInv
    BY InitType DEF Init, IInv, ChildFits, NoGeometry
<1>2. QED
    BY <1>1, IInvStep, PTL DEF Spec, IInv


(***************************************************************************)
(* One axis of setSize() with room for the child and both margins: the    *)
(* child gets at least its preferred size, and both margins are kept.      *)
(***************************************************************************)
LEMMA AxisHonoured ==
    ASSUME TypeOK, NEW d \in Dims, NEW s \in Nat, Room(d, s)
    PROVE  /\ ChildSize(d, s) >= childPref[d]
           /\ ChildPos(d, s) >= margin[Lead(d)]
           /\ ChildPos(d, s) + ChildSize(d, s) + margin[Trail(d)] <= s
<1> DEFINE cp == childPref[d]
           lm == margin[Lead(d)]
           rm == margin[Trail(d)]
<1>1. cp \in Nat /\ lm \in Nat /\ rm \in Nat
    BY BoundsAssumption DEF TypeOK, Lead, Trail, Sides
<1>2. /\ TotalMargin(d) = lm + rm
      /\ s >= cp + lm + rm
    BY <1>1 DEF Room, TotalMargin
<1>3. MarginOffset(d, s) = lm /\ MarginTotal(d, s) = lm + rm
    BY <1>2 DEF MarginOffset, MarginTotal
<1>4. ChildSize(d, s) \in {s - (lm + rm), cp}
    BY <1>2 DEF ChildSize
<1>5. ChildSize(d, s) \in Int /\ ChildSize(d, s) >= cp
      /\ ChildSize(d, s) <= s - (lm + rm)
    BY <1>1, <1>2, <1>4
<1>6. Slack(d, s) = s - ChildSize(d, s) - (lm + rm) /\ Slack(d, s) \in Nat
    BY <1>1, <1>3, <1>5 DEF Slack
<1>7. ChildPos(d, s) = lm + (CASE alignment[d] = "Center" -> Slack(d, s) \div 2
                                [] alignment[d] = "End"    -> Slack(d, s)
                                [] OTHER                   -> 0)
    BY <1>3 DEF ChildPos
<1>8. Slack(d, s) \div 2 \in 0 .. Slack(d, s)
    BY <1>6
<1>9. ChildPos(d, s) \in Int /\ ChildPos(d, s) - lm \in 0 .. Slack(d, s)
    BY <1>1, <1>6, <1>7, <1>8
<1>10. QED
    BY <1>1, <1>5, <1>6, <1>9

(***************************************************************************)
(* preferredWidth()/preferredHeight() and setSize() agree, for every size, *)
(* margin, minimum and preferred size: a container laid out at no less    *)
(* than its preferred size gives its child at least the child's preferred *)
(* size and keeps both margins in full.                                    *)
(***************************************************************************)
THEOREM PreferredHonouredProved == Spec => PreferredHonoured
<1>1. ASSUME TypeOK, [Next]_vars
      PROVE  [LaidOut =>
               \A d \in Dims :
                 allotted'[d] >= PreferredSize(d) =>
                   /\ childGeom'.size[d] >= childPref[d]
                   /\ childGeom'.pos[d] >= margin[Lead(d)]
                   /\ childGeom'.pos[d] + childGeom'.size[d] + margin[Trail(d)]
                         <= allotted'[d]]_vars
  <2>1. CASE \E s \in [Dims -> 0 .. MaxSize] : SetSize(s)
    <3>1. PICK s \in [Dims -> 0 .. MaxSize] : SetSize(s)
      BY <2>1
    <3>2. ASSUME NEW d \in Dims, s[d] >= PreferredSize(d)
          PROVE  /\ ChildSize(d, s[d]) >= childPref[d]
                 /\ ChildPos(d, s[d]) >= margin[Lead(d)]
                 /\ ChildPos(d, s[d]) + ChildSize(d, s[d]) + margin[Trail(d)]
                      <= s[d]
      <4>1. hasChild
        BY <3>1 DEF SetSize
      <4>2. Room(d, s[d])
        BY <1>1, <3>2, <4>1, BoundsAssumption
           DEF PreferredSize, Room, TypeOK, TotalMargin, Lead, Trail, Sides
      <4>3. s[d] \in Nat
        OBVIOUS
      <4> QED
        BY <1>1, <4>2, <4>3, AxisHonoured
    <3> QED
      BY <3>1, <3>2 DEF SetSize
  <2>2. CASE ~\E s \in [Dims -> 0 .. MaxSize] : SetSize(s)
    <3>1. allotted' = allotted /\ childGeom' = childGeom
      BY <1>1, <2>2 DEF Next, vars, SetMargin, SetMinSize, AddChild,
         ChildChanged, SetSizeNoChild
    <3> QED
      BY <3>1 DEF LaidOut
  <2> QED
    BY <2>1, <2>2
<1> QED
  BY <1>1, TypeCorrect, PTL DEF Spec, PreferredHonoured

=============================================================================
