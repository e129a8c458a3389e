----------------------------- MODULE MCExchange -----------------------------
(***************************************************************************)
(* Instances of Exchange for TLC.                                          *)
(***************************************************************************)
EXTENDS Exchange, TLC

\* Requests are interchangeable.
RequestSymmetry == Permutations(Requests)
=============================================================================
