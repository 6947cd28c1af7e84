-------------------------- MODULE SigningProtocol --------------------------
(***************************************************************************)
(* What the v2 signing workflow of SecureDoc promises of a signing         *)
(* request, whatever number of handlers work on it at once: it is          *)
(* prepared, then confirmed with a second factor while it is live, then    *)
(* accepted, each at most once and in this order, and nothing is taken     *)
(* back.  No row, token, thread or retry appears here: SigningRequests is  *)
(* the detailed specification, and it implements this one.                 *)
(***************************************************************************)
CONSTANT Requests

VARIABLE phase

Phases == {"unknown", "prepared", "confirmed", "accepted"}

TypeOK == phase \in [Requests -> Phases]

Init == phase = [r \in Requests |-> "unknown"]

\* The only way on from each phase.
Advance(r, from, to) ==
    /\ phase[r] = from
    /\ phase' = [phase EXCEPT ![r] = to]

Prepare(r) == Advance(r, "unknown", "prepared")
Confirm(r) == Advance(r, "prepared", "confirmed")
Accept(r)  == Advance(r, "confirmed", "accepted")

Next == \E r \in Requests : Prepare(r) \/ Confirm(r) \/ Accept(r)

Spec == Init /\ [][Next]_phase
=============================================================================
