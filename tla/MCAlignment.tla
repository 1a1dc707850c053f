---------------------------- MODULE MCAlignment ----------------------------
(***************************************************************************)
(* The horizontal axis, sizes up to 6, margins up to 3, preferred and     *)
(* minimum sizes up to 3: all three space cases of setSize(), margins     *)
(* whose proportional share is not a whole number (1 of 2, 2 of 3), and a *)
(* minimum size above the child's preferred size plus margins.  The       *)
(* vertical axis runs the same loop body on its own entries.              *)
(***************************************************************************)
EXTENDS Alignment

MCDims == {"hor"}
=============================================================================
