---------------------------- MODULE MCAuditChain ----------------------------
(***************************************************************************)
(* AuditChain for TLC: threads are interchangeable.                        *)
(***************************************************************************)
EXTENDS AuditChain, TLC

Symmetry == Permutations(Workers)
=============================================================================
