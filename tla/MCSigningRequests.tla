------------------------- MODULE MCSigningRequests -------------------------
(***************************************************************************)
(* SigningRequests for TLC: requests and threads are interchangeable.      *)
(***************************************************************************)
EXTENDS SigningRequests, TLC

Symmetry == Permutations(Requests) \cup Permutations(Workers)
=============================================================================
