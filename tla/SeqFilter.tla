----------------------------- MODULE SeqFilter -----------------------------
(***************************************************************************)
(* The filter of a sequence, written as the loop the C++ code runs: walk   *)
(* s from the first element to the last and append each element that is  *)
(* in K.  It computes what SelectSeq(s, LAMBDA x : x \in K) computes, but  *)
(* as a recursive function the prover can expand (SelectSeq is built into *)
(* the prover and opaque to it), and with the test given as a set, so     *)
(* that a lemma about it is cited without instantiating an operator.      *)
(***************************************************************************)
EXTENDS Naturals, Sequences

\* One iteration of the loop: the prefix filtered up to i, given g up to i-1.
FilterStep(s, K, g, i) ==
    IF i = 0 THEN << >>
    ELSE IF s[i] \in K THEN Append(g[i - 1], s[i]) ELSE g[i - 1]

FilterSeq(s, K) ==
    LET F[i \in 0 .. Len(s)] == FilterStep(s, K, F, i) IN F[Len(s)]

(***************************************************************************)
(* FilterSeq is SelectSeq with a set for the test: checked by TLC on every *)
(* sequence of length up to 3 over three values and every test set.       *)
(***************************************************************************)
ASSUME FilterSeqIsSelectSeq ==
    \A s \in UNION {[1 .. n -> 1 .. 3] : n \in 0 .. 3} :
        \A K \in SUBSET (1 .. 3) :
            FilterSeq(s, K) = SelectSeq(s, LAMBDA x : x \in K)

=============================================================================
