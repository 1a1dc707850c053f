----------------------------- MODULE MCDepsPopup -----------------------------
(***************************************************************************)
(* Model-checking instance of DepsPopup: two packages and four kinds of    *)
(* error result (a conflict and an alternative naming a package, an       *)
(* alternative naming none, a bare unresolvable one that is dropped).     *)
(***************************************************************************)
EXTENDS DepsPopup

CONSTANTS p1, p2

MCPkgs == {p1, p2}

MCErrorResults ==
    { [solvable |-> p1, unresolvable |-> FALSE, alternatives |-> FALSE,
       conflicts |-> TRUE],
      [solvable |-> p2, unresolvable |-> TRUE, alternatives |-> TRUE,
       conflicts |-> FALSE],
      [solvable |-> NoPkg, unresolvable |-> FALSE, alternatives |-> TRUE,
       conflicts |-> FALSE],
      [solvable |-> NoPkg, unresolvable |-> TRUE, alternatives |-> FALSE,
       conflicts |-> FALSE] }

=============================================================================
