------------------------- MODULE MCCertificateTrust -------------------------
(***************************************************************************)
(* CertificateTrust for TLC: packages and threads are interchangeable.     *)
(* Packages share nothing but the certificate and its revocations, and     *)
(* every property speaks of one at a time.                                 *)
(***************************************************************************)
EXTENDS CertificateTrust, TLC

Symmetry == Permutations(Packages) \cup Permutations(Workers)
=============================================================================
