---------------------------- MODULE MCTotpSetup ----------------------------
(***************************************************************************)
(* TotpSetup for TLC: threads are interchangeable.                         *)
(***************************************************************************)
EXTENDS TotpSetup, TLC

Symmetry == Permutations(Workers)
=============================================================================
