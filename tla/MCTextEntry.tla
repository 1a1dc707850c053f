---------------------------- MODULE MCTextEntry ----------------------------
(***************************************************************************)
(* Two characters and texts of up to two of them (seven texts), so that a *)
(* validator can refuse a text and a later setValidChars can leave a       *)
(* refused character in the entry; up to two events pending.             *)
(***************************************************************************)
EXTENDS TextEntry

MCChars == {"a", "1"}
=============================================================================
