-------------------------- MODULE CertificateTrust --------------------------
(***************************************************************************)
(* Revocation by signing time: revoke_v2, confirm_signing_request, the     *)
(* certificate checks of submit_signature, the decision of verify_v2 and   *)
(* the revocation lists of certificate_crl and revocation_list in          *)
(* routes_v2.py.                                                           *)
(*                                                                         *)
(* One certificate, issued at time 0.  Handlers read its row and commit    *)
(* later, so several revocations of it can be committed, and a submission  *)
(* can be committed after a revocation it did not see.  The requests are   *)
(* prepared ones; their deadlines may pass at any time.                    *)
(***************************************************************************)
EXTENDS Integers, Sequences

CONSTANTS
    Packages, \* signed packages of the certificate's owner, each of a request of its own
    Workers,  \* threads that run handlers
    NotAfter, \* the last instant of the certificate's validity
    MaxTime,  \* bound of the runs: the clock stops here
    MaxRevocations \* bound of the runs: rows of certificate_revocations

ASSUME ConstantsAssumption == {NotAfter, MaxTime, MaxRevocations} \subseteq Nat

VARIABLES
    now,         \* utc_now(), in ticks
    status,      \* the status column of the certificate
    revocations, \* table certificate_revocations: revoked_at, by increasing id
    requests,    \* the status column of the request of each package
    stamps,      \* the time of the token the server issued for each stored package
    crl,         \* the revocation list that was signed last
    handlers     \* what each thread is doing, with the times it has taken

vars == <<now, status, revocations, requests, stamps, crl, handlers>>

Time == 0..MaxTime
NotStored == -1

\* revokedAt: that of the certificate, if it is listed.  rows: history, how many
\* revocations were committed when the list read the latest.
NotListed == -1
Crl == [thisUpdate : Time, revokedAt : Time \cup {NotListed}, rows : Nat]

Idle == [step |-> "idle"]
HandlerState ==
    {Idle}
    \cup [step : {"revoke_write"}, at : Time]
    \cup [step : {"confirm_write", "submit_stamp"}, package : Packages]
    \cup [step : {"submit_write"}, package : Packages, at : Time]
    \cup [step : {"crl_latest"}]
    \cup [step : {"crl_sign"}, revokedAt : Time \cup {NotListed}, rows : Nat]

Init ==
    /\ now = 0
    /\ status = "valid"
    /\ revocations = <<>>
    /\ requests = [p \in Packages |-> "pending"]
    /\ stamps = [p \in Packages |-> NotStored]
    /\ crl = [thisUpdate |-> 0, revokedAt |-> NotListed, rows |-> 0]
    /\ handlers = [w \in Workers |-> Idle]

----------------------------------------------------------------------------
At(w, step) == handlers[w].step = step
Goto(w, state) == handlers' = [handlers EXCEPT ![w] = state]

Tick ==
    /\ now < MaxTime
    /\ now' = now + 1
    /\ UNCHANGED <<status, revocations, requests, stamps, crl, handlers>>

\* The handler raises before its commit: rollback.
HandlerFails(w) ==
    /\ ~At(w, "idle")
    /\ Goto(w, Idle)
    /\ UNCHANGED <<now, status, revocations, requests, stamps, crl>>

----------------------------------------------------------------------------
\* POST /api/certificates/revoke/v2

RevokeRead(w) ==
    /\ At(w, "idle")
    /\ status # "revoked"
    /\ Goto(w, [step |-> "revoke_write", at |-> now])
    /\ UNCHANGED <<now, status, revocations, requests, stamps, crl>>

\* Mutant: a status value that the other handlers do not know.
RevokeWriteUnknownStatus(w) ==
    /\ At(w, "revoke_write")
    /\ status' = "suspended"
    /\ Goto(w, Idle)
    /\ UNCHANGED <<now, revocations, requests, stamps, crl>>

\* Nothing looks at the status again: each of several calls stores its row.
RevokeWrite(w) ==
    /\ At(w, "revoke_write")
    /\ Len(revocations) < MaxRevocations
    /\ status' = "revoked"
    /\ revocations' = Append(revocations, handlers[w].at)
    /\ Goto(w, Idle)
    /\ UNCHANGED <<now, requests, stamps, crl>>

----------------------------------------------------------------------------
\* POST /api/v2/signing-requests/{request_id}/confirm, with a code that is right

ConfirmRead(w, p) ==
    /\ At(w, "idle")
    /\ requests[p] = "pending"
    /\ Goto(w, [step |-> "confirm_write", package |-> p])
    /\ UNCHANGED <<now, status, revocations, requests, stamps, crl>>

\* Nothing looks at the status again: a request that was signed or has expired
\* since it was read becomes a confirmed one.
ConfirmWrite(w) ==
    /\ At(w, "confirm_write")
    /\ requests' = [requests EXCEPT ![handlers[w].package] = "mfa_confirmed"]
    /\ Goto(w, Idle)
    /\ UNCHANGED <<now, status, revocations, stamps, crl>>

----------------------------------------------------------------------------
\* POST /api/sign/v2/submit, from the certificate checks on

SubmitRead(w, p) ==
    /\ At(w, "idle")
    /\ requests[p] = "mfa_confirmed"
    /\ status = "valid"
    /\ now <= NotAfter
    /\ Goto(w, [step |-> "submit_stamp", package |-> p])
    /\ UNCHANGED <<now, status, revocations, requests, stamps, crl>>

\* issue_timestamp_token
SubmitStamp(w) ==
    /\ At(w, "submit_stamp")
    /\ Goto(w, [step |-> "submit_write", package |-> handlers[w].package, at |-> now])
    /\ UNCHANGED <<now, status, revocations, requests, stamps, crl>>

\* Mutant: used_nonces without its primary key.
SubmitWriteAgain(w) ==
    LET h == handlers[w] IN
    /\ At(w, "submit_write")
    /\ requests' = [requests EXCEPT ![h.package] = "signed"]
    /\ stamps' = [stamps EXCEPT ![h.package] = h.at]
    /\ Goto(w, Idle)
    /\ UNCHANGED <<now, status, revocations, crl>>

\* The nonce lets one submission of a package through.
SubmitWrite(w) ==
    LET h == handlers[w] IN
    /\ At(w, "submit_write")
    /\ stamps[h.package] = NotStored
    /\ requests' = [requests EXCEPT ![h.package] = "signed"]
    /\ stamps' = [stamps EXCEPT ![h.package] = h.at]
    /\ Goto(w, Idle)
    /\ UNCHANGED <<now, status, revocations, crl>>

\* The package is sent again, or its request is asked for an OTP, past the
\* deadline of the request or the expiresAt the client sends: the status is not
\* looked at, so a signed request becomes expired.
MarkExpired(p) ==
    /\ requests' = [requests EXCEPT ![p] = "expired"]
    /\ UNCHANGED <<now, status, revocations, stamps, crl, handlers>>

----------------------------------------------------------------------------
\* GET /api/certificates/crl; GET /api/certificates/revocation-list reads the same
\* and signs nothing.  Every SELECT sees what is committed when it runs.

\* The first SELECT: the certificates that are revoked.
CrlRead(w) ==
    /\ At(w, "idle")
    /\ IF status = "revoked"
       THEN Goto(w, [step |-> "crl_latest"])
       ELSE Goto(w, [step |-> "crl_sign", revokedAt |-> NotListed, rows |-> 0])
    /\ UNCHANGED <<now, status, revocations, requests, stamps, crl>>

\* _latest_revocation: by id
LatestRevocation == revocations[Len(revocations)]

\* Mutant: the list gives the time at which it was made.
CrlLatestNow(w) ==
    /\ At(w, "crl_latest")
    /\ Goto(w, [step |-> "crl_sign", revokedAt |-> now, rows |-> Len(revocations)])
    /\ UNCHANGED <<now, status, revocations, requests, stamps, crl>>

\* One more SELECT for each certificate.
CrlLatest(w) ==
    /\ At(w, "crl_latest")
    /\ Goto(w, [step |-> "crl_sign", revokedAt |-> LatestRevocation, rows |-> Len(revocations)])
    /\ UNCHANGED <<now, status, revocations, requests, stamps, crl>>

\* build_signed_demo_crl takes the time, after the rows were read.
CrlSign(w) ==
    LET h == handlers[w] IN
    /\ At(w, "crl_sign")
    /\ crl' = [thisUpdate |-> now, revokedAt |-> h.revokedAt, rows |-> h.rows]
    /\ Goto(w, Idle)
    /\ UNCHANGED <<now, status, revocations, requests, stamps>>

----------------------------------------------------------------------------
(***************************************************************************)
(* POST /api/verify/v2                                                     *)
(***************************************************************************)

Stored(p) == stamps[p] # NotStored

\* The timestamp token the package is presented with: the one the server issued
\* for it, one that does not verify for it, or none.
Tokens(p) == {"foreign", "none"} \cup (IF Stored(p) THEN {"issued"} ELSE {})

\* What the package presented has wrong, if anything, in the order of the checks
\* before and after the revocation.
EarlyFlaws == {"policy", "document hash", "payload-certificate mismatch", "untrusted chain"}
RecordFlaws == {"certificate record mismatch"}
LateFlaws == {"key size", "invalid signature"}
NoFlaw == "none"
Flaws == {NoFlaw} \cup EarlyFlaws \cup RecordFlaws \cup LateFlaws

\* _trusted_timestamp_time gives a time only for a token that verifies.
SignedEarlier(p, token) == token = "issued" /\ LatestRevocation > stamps[p]

\* Mutant: the time of the signature is not considered.
RevokedAtSigningNow(p, token) == status # "valid"

\* Mutant: a revocation at the very instant of the token comes after it.
RevokedAtSigningStrictly(p, token) ==
    /\ status # "valid"
    /\ ~(revocations # <<>> /\ token = "issued" /\ LatestRevocation >= stamps[p])

RevokedAtSigning(p, token) ==
    /\ status # "valid"
    /\ ~(revocations # <<>> /\ SignedEarlier(p, token))

\* The chain check, the row's validity period: at the time of verification.
Expired == now > NotAfter

ServerAccepted(p) == Stored(p) /\ requests[p] \in {"mfa_confirmed", "signed"}

\* The first check that fails decides.
Verdict(p, flaw, token) ==
    IF flaw \in EarlyFlaws              THEN flaw
    ELSE IF Expired                     THEN "certificate expired"
    ELSE IF flaw \in RecordFlaws        THEN flaw
    ELSE IF RevokedAtSigning(p, token)  THEN "certificate revoked"
    ELSE IF flaw \in LateFlaws          THEN flaw
    ELSE IF token = "foreign"           THEN "invalid timestamp token"
    ELSE IF ServerAccepted(p)           THEN "valid"
    ELSE "crypto_valid_server_rejected"

Decisions == {"valid", "crypto_valid_server_rejected"}

----------------------------------------------------------------------------
Next ==
    \/ Tick
    \/ \E w \in Workers :
          \/ HandlerFails(w)
          \/ RevokeRead(w) \/ RevokeWrite(w)
          \/ ConfirmWrite(w)
          \/ SubmitStamp(w) \/ SubmitWrite(w)
          \/ CrlRead(w) \/ CrlLatest(w) \/ CrlSign(w)
    \/ \E w \in Workers, p \in Packages : ConfirmRead(w, p) \/ SubmitRead(w, p)
    \/ \E p \in Packages : MarkExpired(p)

Spec == Init /\ [][Next]_vars

----------------------------------------------------------------------------
(***************************************************************************)
(* Properties.                                                             *)
(***************************************************************************)

\* The rows, the stored packages and the threads hold values of their types.
TypeOK ==
    /\ now \in Time
    /\ status \in {"valid", "revoked"}
    /\ revocations \in Seq(Time)
    /\ requests \in [Packages -> {"pending", "mfa_confirmed", "signed", "expired"}]
    /\ stamps \in [Packages -> Time \cup {NotStored}]
    /\ crl \in Crl
    /\ handlers \in [Workers -> HandlerState]

RevokedAt == {revocations[i] : i \in DOMAIN revocations}

\* A stored package that is presented with its token is still found good after any
\* number of revocations that are later than the token, until the certificate
\* expires, as docs/api.md:528 says; whether the server still accepts it is up to its
\* request.  (docs/demo-guide.md:48 and README.md:97 expect the opposite of this very
\* case, "revoke certificate and verify fails".)
EarlierSignatureStaysValid ==
    \A p \in Packages :
        (Stored(p) /\ ~Expired /\ \A t \in RevokedAt : stamps[p] < t) =>
            Verdict(p, NoFlaw, "issued") \in Decisions

\* Once a revocation is committed, a package without a token that verifies is
\* turned down, and one with a token is if no revocation is later than the token.
UnprovenTimeIsRevoked ==
    revocations # <<>> =>
        \A p \in Packages, flaw \in Flaws : \A token \in Tokens(p) :
            (token = "issued" => \A t \in RevokedAt : t <= stamps[p]) =>
                Verdict(p, flaw, token) \notin Decisions

\* Whoever reads the time of the revocation in a signed list finds what verify_v2
\* finds, a package revoked or signed before its certificate was, as long as no
\* further revocation has been committed since the list read the latest one; and no
\* list is older than what it lists.
CrlAgreesWithVerification ==
    crl.revokedAt # NotListed =>
        /\ crl.revokedAt <= crl.thisUpdate
        /\ (Len(revocations) = crl.rows /\ ~Expired) =>
               \A p \in Packages : Stored(p) =>
                   (Verdict(p, NoFlaw, "issued") = "certificate revoked"
                        <=> crl.revokedAt <= stamps[p])

\* As long as one revocation at most has been committed, a stored package that is
\* turned down is never decided for later, and one that the server no longer accepts
\* is found valid again only by the commit of a confirmation of its request that was
\* under way: one that had read the request while it was pending.
RejectionStands ==
    [][\A p \in Packages, flaw \in Flaws : \A token \in Tokens(p) :
          (Stored(p) /\ Len(revocations') <= 1) =>
              /\ Verdict(p, flaw, token) \notin Decisions =>
                     Verdict(p, flaw, token)' \notin Decisions
              /\ (Verdict(p, flaw, token) \in Decisions \ {"valid"}
                     /\ Verdict(p, flaw, token)' = "valid") =>
                     \E w \in Workers : At(w, "confirm_write") /\ handlers[w].package = p]_vars
=============================================================================
