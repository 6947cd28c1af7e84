-------------------------- MODULE SigningRequests --------------------------
(***************************************************************************)
(* The signing-request workflow of routes_v2.py: prepare, request an OTP,  *)
(* confirm with an e-mail OTP or a TOTP code, submit the signature, and    *)
(* revoke the certificate meanwhile.                                       *)
(*                                                                         *)
(* Every handler is a synchronous function run by a thread of the pool,    *)
(* with a database session of its own.  Its SELECTs run outside a          *)
(* transaction, one after the other, and the rows it has loaded are not    *)
(* loaded again; its writes are one transaction, from the first flush to   *)
(* the commit, under SQLite's single write lock.  A handler is therefore   *)
(* several read steps, which may each see a different database, and one    *)
(* write step that overwrites the columns it has assigned.                 *)
(*                                                                         *)
(* One signer with one certificate.  A call by another account is turned   *)
(* away before it changes anything.                                        *)
(***************************************************************************)
EXTENDS Integers, Sequences, FiniteSets

CONSTANTS
    Requests,     \* request ids; the nonce drawn with a request has its name
    Workers,      \* threads that run handlers
    RequestTtl,   \* SIGNING_REQUEST_TTL_MINUTES
    OtpTtl,       \* OTP_TTL_SECONDS
    OtpCooldown,  \* OTP_RESEND_COOLDOWN_SECONDS
    MaxAttempts,  \* OTP_MAX_ATTEMPTS
    CertNotAfter, \* the last instant of the certificate's validity
    MaxTime,      \* bound of the runs: the clock stops here
    MaxTokens     \* bound of the runs: OTP tokens of one request

ASSUME ConstantsAssumption ==
    /\ {RequestTtl, OtpTtl, OtpCooldown, MaxAttempts} \subseteq Nat \ {0}
    /\ {CertNotAfter, MaxTime, MaxTokens} \subseteq Nat
    /\ IsFiniteSet(Workers)

VARIABLES
    now,           \* utc_now(), in ticks
    requests,      \* table signing_requests
    tokens,        \* table email_otp_tokens: per request, by increasing id
    certificate,   \* the signer's row of certificates; since: when revoke_v2 first
                   \* committed its revocation (history)
    usedNonces,    \* table used_nonces
    signatures,    \* table signature_records, by increasing id
    handlers,      \* what each thread is doing, with the values it has read
    firstConfirmed \* history: when a second factor was first accepted, per request

tables == <<requests, tokens, certificate, usedNonces, signatures, firstConfirmed>>
vars == <<now, tables, handlers>>

Time == 0..MaxTime
Statuses == {"none", "pending", "mfa_confirmed", "signed", "expired"}
Request == [status : Statuses, expiresAt : Nat]
Token == [createdAt : Time, expiresAt : Nat, used : BOOLEAN,
          attempts : 0..MaxAttempts]
\* at: when submit_signature admitted the package, before the record's received_at_server
Signature == [req : Requests, nonce : Requests, at : Time]
Never == -1

Idle == [step |-> "idle"]
HandlerState ==
    {Idle}
    \cup [step : {"prepare_write", "revoke_write"}]
    \cup [step : {"otp_latest", "confirm_check"}, req : Requests]
    \cup [step : {"otp_stale", "otp_write"}, req : Requests, at : Time, stale : SUBSET Nat]
    \cup [step : {"confirm_write"}, req : Requests, token : Nat,
          attempts : 0..MaxAttempts, ok : BOOLEAN, at : Time]
    \cup [step : {"submit_nonce", "submit_certificate", "submit_write"},
          req : Requests, nonce : Requests, at : Time]

Init ==
    /\ now = 0
    /\ requests = [r \in Requests |-> [status |-> "none", expiresAt |-> 0]]
    /\ tokens = [r \in Requests |-> <<>>]
    /\ certificate = [status |-> "valid", since |-> 0]
    /\ usedNonces = {}
    /\ signatures = <<>>
    /\ handlers = [w \in Workers |-> Idle]
    /\ firstConfirmed = [r \in Requests |-> Never]

----------------------------------------------------------------------------
(***************************************************************************)
(* Handlers and time.                                                      *)
(***************************************************************************)

Tick ==
    /\ now < MaxTime
    /\ now' = now + 1
    /\ UNCHANGED <<tables, handlers>>

At(w, step) == handlers[w].step = step
Goto(w, state) == handlers' = [handlers EXCEPT ![w] = state]

\* The handler raises before its commit (SMTP failure, lock timeout, a killed
\* process): the session is rolled back, nothing it meant to write is kept.
HandlerFails(w) ==
    /\ ~At(w, "idle")
    /\ Goto(w, Idle)
    /\ UNCHANGED <<now, tables>>

Overdue(r) ==
    /\ requests[r].status # "none"
    /\ requests[r].expiresAt <= now

\* The status is not looked at, so a request that is confirmed, or signed,
\* becomes expired too.
MarkExpired(r) ==
    /\ requests[r].status # "none"
    /\ requests' = [requests EXCEPT ![r].status = "expired"]
    /\ UNCHANGED <<now, tokens, certificate, usedNonces, signatures, handlers, firstConfirmed>>

\* A request stays overdue, so what a handler has read is still true when it commits.
Expire(r) == Overdue(r) /\ MarkExpired(r)

\* Mutant: the status column is not consulted.
CertificateUsableUnchecked == now <= CertNotAfter

CertificateUsable == certificate.status = "valid" /\ now <= CertNotAfter

RevokeReadCertificate(w) ==
    /\ At(w, "idle")
    /\ certificate.status # "revoked"
    /\ Goto(w, [step |-> "revoke_write"])
    /\ UNCHANGED <<now, tables>>

\* Of two calls that have both read a valid certificate, the second adds another
\* revocation row (CertificateTrust has these) and leaves the status as it is.
RevokeWrite(w) ==
    /\ At(w, "revoke_write")
    /\ certificate' = [status |-> "revoked",
                       since |-> IF certificate.status = "revoked"
                                 THEN certificate.since ELSE now]
    /\ Goto(w, Idle)
    /\ UNCHANGED <<now, requests, tokens, usedNonces, signatures, firstConfirmed>>

----------------------------------------------------------------------------
(***************************************************************************)
(* POST /api/sign/v2/prepare                                               *)
(***************************************************************************)

PrepareReadCertificate(w) ==
    /\ At(w, "idle")
    /\ CertificateUsable
    /\ Goto(w, [step |-> "prepare_write"])
    /\ UNCHANGED <<now, tables>>

\* A fresh random request id and nonce.
PrepareWrite(w, r) ==
    /\ At(w, "prepare_write")
    /\ requests[r].status = "none"
    /\ requests' = [requests EXCEPT ![r] =
                       [status |-> "pending", expiresAt |-> now + RequestTtl]]
    /\ Goto(w, Idle)
    /\ UNCHANGED <<now, tokens, certificate, usedNonces, signatures, firstConfirmed>>

----------------------------------------------------------------------------
(***************************************************************************)
(* POST /api/v2/signing-requests/{id}/otp/request                          *)
(***************************************************************************)

OtpRequestExpired(r) == Expire(r)

OtpReadRequest(w, r) ==
    /\ At(w, "idle")
    /\ requests[r].status = "pending"
    /\ ~Overdue(r)
    /\ Len(tokens[r]) < MaxTokens
    /\ Goto(w, [step |-> "otp_latest", req |-> r])
    /\ UNCHANGED <<now, tables>>

Unused(r) == {k \in DOMAIN tokens[r] : ~tokens[r][k].used}

CoolingDown(r) ==
    LET n == Len(tokens[r]) IN
    /\ n > 0
    /\ ~tokens[r][n].used
    /\ tokens[r][n].expiresAt > now
    /\ now - tokens[r][n].createdAt < OtpCooldown

\* SELECT of the latest token; within the cooldown the handler answers 429.
OtpReadLatest(w) ==
    LET r == handlers[w].req IN
    /\ At(w, "otp_latest")
    /\ Goto(w, IF CoolingDown(r)
               THEN Idle
               ELSE [step |-> "otp_stale", req |-> r, at |-> now,
                     stale |-> Unused(r) \cap {Len(tokens[r])}])
    /\ UNCHANGED <<now, tables>>

\* SELECT of every token of the request; the latest is not loaded again.
OtpReadStale(w) ==
    LET h == handlers[w] IN
    /\ At(w, "otp_stale")
    /\ Goto(w, [h EXCEPT !.step = "otp_write", !.stale = @ \cup Unused(h.req)])
    /\ UNCHANGED <<now, tables>>

\* Mutant: a resend leaves the earlier tokens usable.
CloseTokensNever(ts, stale, at) == ts

\* The unused tokens that were read are closed.
CloseTokens(ts, stale, at) ==
    [k \in DOMAIN ts |->
        IF k \in stale
        THEN [ts[k] EXCEPT !.used = TRUE,
                           !.expiresAt = IF @ <= at THEN @ ELSE at]
        ELSE ts[k]]

NewToken(at) == [createdAt |-> at, expiresAt |-> at + OtpTtl, used |-> FALSE,
                 attempts |-> 0]

\* One transaction from the flush of the tokens, through the mail, to the commit.
OtpWrite(w) ==
    LET h == handlers[w] IN
    /\ At(w, "otp_write")
    /\ Len(tokens[h.req]) < MaxTokens
    /\ tokens' = [tokens EXCEPT
                     ![h.req] = Append(CloseTokens(@, h.stale, h.at), NewToken(h.at))]
    /\ Goto(w, Idle)
    /\ UNCHANGED <<now, requests, certificate, usedNonces, signatures, firstConfirmed>>

----------------------------------------------------------------------------
(***************************************************************************)
(* POST /api/v2/signing-requests/{id}/confirm                              *)
(***************************************************************************)

ConfirmExpired(r) == Expire(r)

ConfirmReadRequest(w, r) ==
    /\ At(w, "idle")
    /\ requests[r].status = "pending"
    /\ ~Overdue(r)
    /\ Goto(w, [step |-> "confirm_check", req |-> r])
    /\ UNCHANGED <<now, tables>>

\* verify_signing_email_otp reads the latest token of the request.
Verifiable(r) ==
    LET n == Len(tokens[r]) IN
    /\ n > 0
    /\ ~tokens[r][n].used
    /\ now <= tokens[r][n].expiresAt
    /\ tokens[r][n].attempts < MaxAttempts

\* No token, or one that cannot be verified any more: only the audit log is written.
ConfirmTokenRefused(w) ==
    /\ At(w, "confirm_check")
    /\ ~Verifiable(handlers[w].req)
    /\ Goto(w, Idle)
    /\ UNCHANGED <<now, tables>>

\* The code is compared with the token's hash: `ok` is the outcome.
ConfirmCompareEmailOtp(w, ok) ==
    LET r == handlers[w].req
        k == Len(tokens[r]) IN
    /\ At(w, "confirm_check")
    /\ Verifiable(r)
    /\ Goto(w, [step |-> "confirm_write", req |-> r, token |-> k,
                attempts |-> tokens[r][k].attempts + 1, ok |-> ok, at |-> now])
    /\ UNCHANGED <<now, tables>>

\* An authenticator code that is right; a wrong one only reaches the audit log.
ConfirmCompareTotp(w) ==
    /\ At(w, "confirm_check")
    /\ Goto(w, [step |-> "confirm_write", req |-> handlers[w].req, token |-> 0,
                attempts |-> 0, ok |-> TRUE, at |-> now])
    /\ UNCHANGED <<now, tables>>

\* Mutant: used_at is written back as it was read.
SpendAttemptWholeRow(ts, h) ==
    [k \in DOMAIN ts |->
        IF k = h.token THEN [ts[k] EXCEPT !.attempts = h.attempts, !.used = h.ok] ELSE ts[k]]

\* What the verification assigned to the token: absolute values, from the row it
\* read.  A TOTP code (token 0) touches none.
SpendAttempt(ts, h) ==
    [k \in DOMAIN ts |->
        IF k = h.token
        THEN [ts[k] EXCEPT !.attempts = h.attempts, !.used = IF h.ok THEN TRUE ELSE @]
        ELSE ts[k]]

\* Mutant: a status value that the rest of the workflow does not know.
ConfirmWriteUnknownStatus(w) ==
    LET h == handlers[w] IN
    /\ At(w, "confirm_write")
    /\ requests' = [requests EXCEPT ![h.req].status = "confirmed"]
    /\ Goto(w, Idle)
    /\ UNCHANGED <<now, tokens, certificate, usedNonces, signatures, firstConfirmed>>

ConfirmWrite(w) ==
    LET h == handlers[w] IN
    /\ At(w, "confirm_write")
    /\ tokens' = [tokens EXCEPT ![h.req] = SpendAttempt(@, h)]
    /\ IF h.ok
       THEN /\ requests' = [requests EXCEPT ![h.req].status = "mfa_confirmed"]
            /\ firstConfirmed' =
                   [firstConfirmed EXCEPT ![h.req] = IF @ = Never THEN h.at ELSE @]
       ELSE UNCHANGED <<requests, firstConfirmed>>
    /\ Goto(w, Idle)
    /\ UNCHANGED <<now, certificate, usedNonces, signatures>>

----------------------------------------------------------------------------
(***************************************************************************)
(* POST /api/sign/v2/submit                                                *)
(***************************************************************************)

\* The payload's own deadline, which the client sends, is compared with the clock before
\* anything of the payload is compared with the row, its owner included.  A package that
\* carries a past date therefore expires whichever request it names, at any time.
SubmitPayloadExpired(r) == MarkExpired(r)

\* The payload has not expired, the row has.
SubmitRequestExpired(r) == Expire(r)

\* Mutant: the deadline of the row is not compared with the clock.
SubmitReadRequestLate(w, r, n) ==
    /\ At(w, "idle")
    /\ requests[r].status = "mfa_confirmed"
    /\ Goto(w, [step |-> "submit_nonce", req |-> r, nonce |-> n, at |-> now])
    /\ UNCHANGED <<now, tables>>

\* Mutant: a pending request is let through.
SubmitReadRequestPending(w, r, n) ==
    /\ At(w, "idle")
    /\ requests[r].status \in {"pending", "mfa_confirmed"}
    /\ ~Overdue(r)
    /\ Goto(w, [step |-> "submit_nonce", req |-> r, nonce |-> n, at |-> now])
    /\ UNCHANGED <<now, tables>>

\* The package names request r and carries nonce n: the nonce of r, or of
\* another request when the client has mixed two packages up.
SubmitReadRequest(w, r, n) ==
    /\ At(w, "idle")
    /\ requests[r].status = "mfa_confirmed"
    /\ ~Overdue(r)
    /\ Goto(w, [step |-> "submit_nonce", req |-> r, nonce |-> n, at |-> now])
    /\ UNCHANGED <<now, tables>>

\* Mutant: the payload is not compared with the confirmed request.
ContextMatchesAny(r, n) == TRUE

\* _request_context_matches_payload
ContextMatches(r, n) == n = r

\* Nonce already used, or a payload that differs from the request: rejected.
SubmitReadNonce(w) ==
    LET h == handlers[w] IN
    /\ At(w, "submit_nonce")
    /\ Goto(w, IF h.nonce \notin usedNonces /\ ContextMatches(h.req, h.nonce)
               THEN [h EXCEPT !.step = "submit_certificate"]
               ELSE Idle)
    /\ UNCHANGED <<now, tables>>

SubmitReadCertificate(w) ==
    LET h == handlers[w] IN
    /\ At(w, "submit_certificate")
    /\ Goto(w, IF CertificateUsable THEN [h EXCEPT !.step = "submit_write"] ELSE Idle)
    /\ UNCHANGED <<now, tables>>

\* Mutant: used_nonces without its primary key.
NonceInsertableTwice(n) == TRUE

\* The nonce is the primary key of used_nonces.
NonceInsertable(n) == n \notin usedNonces

SpendNonce(h) ==
    /\ NonceInsertable(h.nonce)
    /\ usedNonces' = usedNonces \cup {h.nonce}
    /\ requests' = [requests EXCEPT ![h.req].status = "signed"]

SubmitWrite(w) ==
    LET h == handlers[w] IN
    /\ At(w, "submit_write")
    /\ SpendNonce(h)
    /\ signatures' = Append(signatures, [req |-> h.req, nonce |-> h.nonce, at |-> h.at])
    /\ Goto(w, Idle)
    /\ UNCHANGED <<now, tokens, certificate, firstConfirmed>>

\* The package brings a timestamp token that does not verify: _reject_submit
\* commits what the session already holds, and then answers 400.
SubmitTimestampRejected(w) ==
    /\ At(w, "submit_write")
    /\ SpendNonce(handlers[w])
    /\ Goto(w, Idle)
    /\ UNCHANGED <<now, tokens, certificate, signatures, firstConfirmed>>

\* The insert violates the primary key: IntegrityError, rollback.
SubmitConflict(w) ==
    /\ At(w, "submit_write")
    /\ ~NonceInsertable(handlers[w].nonce)
    /\ Goto(w, Idle)
    /\ UNCHANGED <<now, tables>>

----------------------------------------------------------------------------
(***************************************************************************)
(* POST /api/verify/v2, the part of its answer that comes from these       *)
(* tables.                                                                 *)
(***************************************************************************)

\* Mutant: only a request that is still signed counts as confirmed.
ConfirmedStatusesSigned == {"signed"}

ConfirmedStatuses == {"mfa_confirmed", "signed"}

ServerAccepted(r) == r \in usedNonces /\ requests[r].status \in ConfirmedStatuses

----------------------------------------------------------------------------
Next ==
    \/ Tick
    \/ \E w \in Workers :
          \/ HandlerFails(w)
          \/ RevokeReadCertificate(w)
          \/ RevokeWrite(w)
          \/ PrepareReadCertificate(w)
          \/ OtpReadLatest(w)
          \/ OtpReadStale(w)
          \/ OtpWrite(w)
          \/ ConfirmTokenRefused(w)
          \/ ConfirmCompareTotp(w)
          \/ ConfirmWrite(w)
          \/ SubmitReadNonce(w)
          \/ SubmitReadCertificate(w)
          \/ SubmitWrite(w)
          \/ SubmitTimestampRejected(w)
          \/ SubmitConflict(w)
    \/ \E w \in Workers, ok \in BOOLEAN : ConfirmCompareEmailOtp(w, ok)
    \/ \E r \in Requests :
          \/ OtpRequestExpired(r)
          \/ ConfirmExpired(r)
          \/ SubmitPayloadExpired(r)
          \/ SubmitRequestExpired(r)
    \/ \E w \in Workers, r \in Requests :
          PrepareWrite(w, r) \/ OtpReadRequest(w, r) \/ ConfirmReadRequest(w, r)
    \/ \E w \in Workers, r, n \in Requests : SubmitReadRequest(w, r, n)

Spec == Init /\ [][Next]_vars

----------------------------------------------------------------------------
(***************************************************************************)
(* Properties.                                                             *)
(***************************************************************************)

\* Every table and every thread holds values of its type.
TypeOK ==
    /\ now \in Time
    /\ requests \in [Requests -> Request]
    /\ tokens \in [Requests -> Seq(Token)]
    /\ certificate \in [status : {"valid", "revoked"}, since : Time]
    /\ usedNonces \subseteq Requests
    /\ signatures \in Seq(Signature)
    /\ handlers \in [Workers -> HandlerState]
    /\ firstConfirmed \in [Requests -> {Never} \cup Time]

\* However many submissions of a request run at once, and whichever nonces their
\* packages carry, submit_signature stores at most one signature record for it.
AtMostOneSignature ==
    \A i, j \in DOMAIN signatures : signatures[i].req = signatures[j].req => i = j

\* A stored signature was submitted while its request was live, and after
\* confirm_signing_request had accepted a second factor for that very request.
SignatureIsConfirmedInTime ==
    \A i \in DOMAIN signatures :
        LET s == signatures[i] IN
        /\ s.at < requests[s.req].expiresAt
        /\ firstConfirmed[s.req] \in 0..s.at

\* Once revoke_v2 has committed, no submission that begins later is stored.
NoSignatureAfterRevocation ==
    certificate.status = "revoked" =>
        \A i \in DOMAIN signatures : signatures[i].at <= certificate.since

\* The nonce of a request is spent only by a submission of that request: a
\* request that is signed has spent its nonce, and a spent nonce was confirmed.
NonceFollowsRequest ==
    /\ \A r \in Requests : requests[r].status = "signed" => r \in usedNonces
    /\ \A i \in DOMAIN signatures : signatures[i].req \in usedNonces
    /\ \A n \in usedNonces : firstConfirmed[n] # Never

\* A token that was used, or that a resend has closed, never becomes usable
\* again, whatever a thread that had read it earlier writes back.
TokenUseIsPermanent ==
    [][\A r \in Requests : \A k \in DOMAIN tokens[r] :
          tokens[r][k].used => tokens'[r][k].used]_vars

\* A resend closes every token it can see, so the tokens of a request that are
\* still unused are at most as many as the resends that ran at the same time.
UnusedTokensBounded ==
    \A r \in Requests : Cardinality(Unused(r)) <= Cardinality(Workers)

\* Why that holds: each unused token of a request can be laid to a thread of its own,
\* the one that made it, and a thread about to make another one has seen its last one.
MadeBy(r, maker) ==
    /\ \A j, k \in Unused(r) : maker[j] = maker[k] => j = k
    /\ \A k \in Unused(r) :
          LET h == handlers[maker[k]] IN
          h.step = "otp_write" /\ h.req = r => k \in h.stale

TokensHaveMakers ==
    \A r \in Requests : \E maker \in [Unused(r) -> Workers] : MadeBy(r, maker)

\* What verification reports as accepted by the server has a signature record.
AcceptedIsRecorded ==
    \A r \in Requests : ServerAccepted(r) => \E i \in DOMAIN signatures : signatures[i].req = r

\* What submit_signature has stored stays accepted by the server unless a call has marked
\* its request as expired: a confirmation, submission or revocation that overlaps it and
\* writes the status back from an old row does not take the acceptance away.
StoredAcceptedUnlessExpired ==
    \A i \in DOMAIN signatures :
        LET r == signatures[i].req IN
        requests[r].status # "expired" => ServerAccepted(r)

\* Why the four invariants above hold: what the tables and the threads say of a
\* request, from its confirmation to the stored signature, is never out of step.
AdmittedInTime(r, at) ==
    /\ at <= now
    /\ requests[r].status # "none"
    /\ at < requests[r].expiresAt
    /\ firstConfirmed[r] \in 0..at

BeforeRevocation(at) == certificate.status = "revoked" => at <= certificate.since

RequestsConsistent ==
    \A r \in Requests :
        /\ firstConfirmed[r] # Never => firstConfirmed[r] <= now /\ requests[r].status # "none"
        /\ requests[r].status \in {"mfa_confirmed", "signed"} => firstConfirmed[r] # Never
        /\ requests[r].status = "signed" => r \in usedNonces
        /\ r \in usedNonces => firstConfirmed[r] # Never

HandlerConsistent(h) ==
    /\ h.step \in {"confirm_check", "confirm_write"} => requests[h.req].status # "none"
    /\ h.step = "confirm_write" => h.at <= now
    /\ h.step \in {"submit_nonce", "submit_certificate", "submit_write"} =>
           AdmittedInTime(h.req, h.at)
    /\ h.step \in {"submit_certificate", "submit_write"} => h.nonce = h.req
    /\ h.step = "submit_write" => BeforeRevocation(h.at)

HandlersConsistent == \A w \in Workers : HandlerConsistent(handlers[w])

SignatureConsistent(s) ==
    /\ s.req \in usedNonces
    /\ AdmittedInTime(s.req, s.at)
    /\ BeforeRevocation(s.at)

SignaturesConsistent == \A i \in DOMAIN signatures : SignatureConsistent(signatures[i])

SigningInv ==
    /\ RequestsConsistent
    /\ HandlersConsistent
    /\ SignaturesConsistent
    /\ AtMostOneSignature

\* Why a stored signature stays accepted: a confirmed request is never pending again.
ConfirmedInv ==
    \A r \in Requests : firstConfirmed[r] # Never => requests[r].status # "pending"

\* The phase of a request in the abstract protocol: what the tables and the
\* history say, not the status column, which races and deadlines rewrite.
phase ==
    [r \in Requests |->
        IF \E i \in DOMAIN signatures : signatures[i].req = r THEN "accepted"
        ELSE IF firstConfirmed[r] # Never THEN "confirmed"
        ELSE IF requests[r].status # "none" THEN "prepared"
        ELSE "unknown"]

Protocol == INSTANCE SigningProtocol WITH Requests <- Requests, phase <- phase

\* The workflow implements the abstract protocol.
ImplementsProtocol == Protocol!Spec
=============================================================================
