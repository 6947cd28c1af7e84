---------------------------- MODULE MCBlindToken ----------------------------
(***************************************************************************)
(* BlindToken for TLC: threads are interchangeable.                        *)
(***************************************************************************)
EXTENDS BlindToken, TLC

Symmetry == Permutations(Workers)
=============================================================================
