----------------------------- MODULE MCAccounts -----------------------------
(***************************************************************************)
(* Accounts for TLC: threads are interchangeable.  The administrator logs  *)
(* in no second time.  Administrators create signers, and update one       *)
(* column at a time.                                                       *)
(***************************************************************************)
EXTENDS Accounts, TLC

SeedsOf == [a \in {FirstAdmin} |-> "ADMIN"]

OtpsOf == [a \in Accounts |-> IF a = FirstAdmin THEN 0 ELSE 2]

NewSigner == [role |-> "SIGNER", status |-> "active"]
Updates == [role : Roles, status : {Keep}] \cup [role : {Keep}, status : {"active", "disabled"}]
AskedFor == {NewSigner} \cup Updates

Symmetry == Permutations(Workers)
=============================================================================
