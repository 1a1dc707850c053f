-------------------------- MODULE MCSelectionPopup --------------------------
(***************************************************************************)
(* Model-checking instance of SelectionPopup: three pool items, so that    *)
(* filters drop some, equal keys occur and the sort must move items.      *)
(***************************************************************************)
EXTENDS SelectionPopup

CONSTANTS i1, i2, i3

MCItems == {i1, i2, i3}

=============================================================================
