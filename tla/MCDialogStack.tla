---------------------------- MODULE MCDialogStack ----------------------------
(***************************************************************************)
(* Model-checking instance of DialogStack: three dialog addresses (a main  *)
(* dialog and two popups stacked on it) and two pending events.           *)
(***************************************************************************)
EXTENDS DialogStack

CONSTANTS d1, d2, d3

MCDialogs == {d1, d2, d3}

=============================================================================
