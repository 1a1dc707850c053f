-------------------------- MODULE MCDefaultButton --------------------------
(***************************************************************************)
(* Two dialogs for TLC.  The wizard dialog has two application push        *)
(* buttons p1, p2 and the wizard's back and next buttons, visited in the   *)
(* order p1, bk, nx, p2.  The plain dialog has only p1 and p2.             *)
(***************************************************************************)
EXTENDS DefaultButton

CONSTANTS p1, p2, bk, nx

MCButtons == {p1, p2, bk, nx}
MCOrder == <<p1, bk, nx, p2>>
MCWizardButtons == {bk, nx}

MCPlainButtons == {p1, p2}
MCPlainOrder == <<p1, p2>>
MCNoWizardButtons == {}
=============================================================================
