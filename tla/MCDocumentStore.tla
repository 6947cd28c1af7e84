-------------------------- MODULE MCDocumentStore --------------------------
(***************************************************************************)
(* DocumentStore for TLC: documents and requests are interchangeable.  Of  *)
(* two names and two contents three pairs are uploaded; the fourth can     *)
(* only come about by two updates that cross.                              *)
(***************************************************************************)
EXTENDS DocumentStore, TLC

CONSTANTS n1, n2, c1, c2

MCNames == {n1, n2}
MCContents == {c1, c2}
MCUploads == [name : MCNames, content : MCContents] \ {[name |-> n1, content |-> c2]}

Symmetry == Permutations(Documents) \cup Permutations(Workers)
=============================================================================
