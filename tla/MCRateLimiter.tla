--------------------------- MODULE MCRateLimiter ---------------------------
(***************************************************************************)
(* RateLimiter for TLC.  No symmetry: a liveness property is checked.      *)
(***************************************************************************)
EXTENDS RateLimiter
=============================================================================
