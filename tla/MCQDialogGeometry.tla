------------------------- MODULE MCQDialogGeometry -------------------------
(***************************************************************************)
(* The horizontal axis; a screen of 4 and a frame of 1, so that a popup's  *)
(* preferred size (content up to 2 plus margins up to 1 each plus the      *)
(* frame) can exceed the screen; a default size of 3 that fits; user       *)
(* sizes 0 .. 5, below twice the frame and above the screen.              *)
(***************************************************************************)
EXTENDS QDialogGeometry

MCDims == {"hor"}
=============================================================================
