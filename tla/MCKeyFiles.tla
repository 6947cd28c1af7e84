----------------------------- MODULE MCKeyFiles -----------------------------
(***************************************************************************)
(* KeyFiles for TLC.  No symmetry: a liveness property is checked.         *)
(***************************************************************************)
EXTENDS KeyFiles
=============================================================================
