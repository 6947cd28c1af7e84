----------------------- MODULE SigningRequestsProofs -----------------------
(***************************************************************************)
(* Theorems about SigningRequests, for every set of requests and threads   *)
(* and every value of the lifetimes.                                       *)
(***************************************************************************)
EXTENDS SigningRequests, SequenceTheorems, FiniteSetTheorems, TLAPS

USE DEF Never

----------------------------------------------------------------------------
(***************************************************************************)
(* Type correctness.                                                       *)
(***************************************************************************)

\* The sequence CloseTokens builds is a sequence of tokens as long as ts.
LEMMA CloseTokensType ==
    ASSUME NEW ts \in Seq(Token), NEW stale, NEW at \in Time
    PROVE  CloseTokens(ts, stale, at) \in Seq(Token)
<1>1. Time \subseteq Nat
    BY ConstantsAssumption DEF Time
<1>2. \A k \in 1..Len(ts) : ts[k] \in Token
    OBVIOUS
<1>3. ASSUME NEW k \in 1..Len(ts)
      PROVE  [ts[k] EXCEPT !.used = TRUE, !.expiresAt = IF @ <= at THEN @ ELSE at] \in Token
    BY <1>1, <1>2 DEF Token
<1>4. DOMAIN ts = 1..Len(ts)
    OBVIOUS
<1>5. CloseTokens(ts, stale, at) =
          [k \in 1..Len(ts) |->
              IF k \in stale
              THEN [ts[k] EXCEPT !.used = TRUE, !.expiresAt = IF @ <= at THEN @ ELSE at]
              ELSE ts[k]]
    BY <1>4 DEF CloseTokens
<1>6. CloseTokens(ts, stale, at) \in [1..Len(ts) -> Token]
    BY <1>2, <1>3, <1>5
<1> QED
    BY <1>6, SeqDef, LenProperties

\* A token that SpendAttempt rewrites is a token.
LEMMA SpendAttemptType ==
    ASSUME NEW ts \in Seq(Token), NEW h, h.attempts \in 0..MaxAttempts, h.ok \in BOOLEAN
    PROVE  SpendAttempt(ts, h) \in Seq(Token)
<1>1. \A k \in 1..Len(ts) : ts[k] \in Token
    OBVIOUS
<1>2. ASSUME NEW k \in 1..Len(ts)
      PROVE  [ts[k] EXCEPT !.attempts = h.attempts, !.used = IF h.ok THEN TRUE ELSE @] \in Token
    BY <1>1 DEF Token
<1>3. DOMAIN ts = 1..Len(ts)
    OBVIOUS
<1>4. SpendAttempt(ts, h) =
          [k \in 1..Len(ts) |->
              IF k = h.token
              THEN [ts[k] EXCEPT !.attempts = h.attempts, !.used = IF h.ok THEN TRUE ELSE @]
              ELSE ts[k]]
    BY <1>3 DEF SpendAttempt
<1>5. SpendAttempt(ts, h) \in [1..Len(ts) -> Token]
    BY <1>1, <1>2, <1>4
<1> QED
    BY <1>5, SeqDef, LenProperties

\* A new token is a token.
LEMMA NewTokenType ==
    ASSUME NEW at \in Time
    PROVE  NewToken(at) \in Token
BY ConstantsAssumption DEF NewToken, Token, Time


\* The fields a thread holds at each step of a handler.
LEMMA HandlerFields ==
    ASSUME TypeOK, NEW w \in Workers
    PROVE  /\ handlers[w] \in HandlerState
           /\ handlers[w].step \in {"otp_latest", "confirm_check"} =>
                  handlers[w].req \in Requests
           /\ handlers[w].step \in {"otp_stale", "otp_write"} =>
                  handlers[w] \in [step : {"otp_stale", "otp_write"}, req : Requests,
                      at : Time, stale : SUBSET Nat]
           /\ At(w, "confirm_write") =>
                  handlers[w] \in [step : {"confirm_write"}, req : Requests,
                      token : Nat, attempts : 0..MaxAttempts,
                      ok : BOOLEAN, at : Time]
           /\ handlers[w].step \in {"submit_nonce", "submit_certificate", "submit_write"} =>
                  handlers[w] \in [step : {"submit_nonce", "submit_certificate", "submit_write"},
                      req : Requests, nonce : Requests, at : Time]
BY DEF TypeOK, HandlerState, Idle, At

\* Every table and every thread of the signing workflow holds values of its type.
THEOREM TypeCorrect == Spec => []TypeOK
<1>1. Init => TypeOK
    BY ConstantsAssumption DEF Init, TypeOK, Time, Request, Token, Statuses, HandlerState, Idle
<1>2. TypeOK /\ [Next]_vars => TypeOK'
    <2> SUFFICES ASSUME TypeOK, [Next]_vars
                 PROVE  TypeOK'
        OBVIOUS
    <2>a. Idle \in HandlerState
        BY DEF HandlerState
    <2>b. \A w \in Workers, h \in HandlerState :
              [handlers EXCEPT ![w] = h] \in [Workers -> HandlerState]
        BY DEF TypeOK
    <2>c. now \in Time /\ Time \subseteq Nat
        BY ConstantsAssumption DEF TypeOK, Time
    <2>d. MaxAttempts \in Nat /\ RequestTtl \in Nat
        BY ConstantsAssumption
    <2>1. CASE Tick
        BY <2>1, ConstantsAssumption DEF Tick, TypeOK, Time, tables
    <2>2. ASSUME NEW w \in Workers, RevokeReadCertificate(w)
          PROVE  TypeOK'
        <3>1. [step |-> "revoke_write"] \in HandlerState
            BY DEF HandlerState
        <3> QED
            BY <2>2, <2>b, <3>1 DEF RevokeReadCertificate, Goto, TypeOK, tables
    <2>24. ASSUME NEW w \in Workers, RevokeWrite(w)
           PROVE  TypeOK'
        BY <2>24, <2>a, <2>b DEF RevokeWrite, Goto, TypeOK
    <2>3. ASSUME NEW r \in Requests, MarkExpired(r)
          PROVE  TypeOK'
        BY <2>3 DEF MarkExpired, TypeOK, Request, Statuses
    <2>4. ASSUME NEW w \in Workers, HandlerFails(w)
          PROVE  TypeOK'
        BY <2>4, <2>a, <2>b DEF HandlerFails, Goto, TypeOK, tables
    <2>5. ASSUME NEW w \in Workers, PrepareReadCertificate(w)
          PROVE  TypeOK'
        <3>1. [step |-> "prepare_write"] \in HandlerState
            BY DEF HandlerState
        <3> QED
            BY <2>5, <2>b, <3>1 DEF PrepareReadCertificate, Goto, TypeOK, tables
    <2>6. ASSUME NEW w \in Workers, NEW r \in Requests, PrepareWrite(w, r)
          PROVE  TypeOK'
        <3>1. [status |-> "pending", expiresAt |-> now + RequestTtl] \in Request
            BY <2>c, ConstantsAssumption DEF Request, Statuses
        <3> QED
            BY <2>6, <2>a, <2>b, <3>1 DEF PrepareWrite, Goto, TypeOK
    <2>7. ASSUME NEW w \in Workers, NEW r \in Requests, OtpReadRequest(w, r)
          PROVE  TypeOK'
        <3>1. [step |-> "otp_latest", req |-> r] \in HandlerState
            BY DEF HandlerState
        <3> QED
            BY <2>7, <2>b, <3>1 DEF OtpReadRequest, Goto, TypeOK, tables
    <2>8. ASSUME NEW w \in Workers, OtpReadLatest(w)
          PROVE  TypeOK'
        <3> DEFINE r == handlers[w].req
        <3>1. r \in Requests
            BY <2>8, HandlerFields DEF OtpReadLatest, At
        <3>2. Unused(r) \subseteq Nat
            BY <3>1 DEF Unused, TypeOK
        <3>3. [step |-> "otp_stale", req |-> r, at |-> now,
               stale |-> Unused(r) \cap {Len(tokens[r])}] \in HandlerState
            BY <3>1, <3>2, <2>c DEF HandlerState
        <3> QED
            BY <2>8, <2>a, <2>b, <3>3 DEF OtpReadLatest, Goto, TypeOK, tables
    <2>9. ASSUME NEW w \in Workers, OtpReadStale(w)
          PROVE  TypeOK'
        <3> DEFINE h == handlers[w]
        <3>1. h \in [step : {"otp_stale", "otp_write"}, req : Requests,
                     at : Time, stale : SUBSET Nat]
            BY <2>9, HandlerFields DEF OtpReadStale, At
        <3>2. Unused(h.req) \subseteq Nat
            BY <3>1 DEF Unused, TypeOK
        <3>3. [h EXCEPT !.step = "otp_write", !.stale = @ \cup Unused(h.req)] \in HandlerState
            BY <3>1, <3>2 DEF HandlerState
        <3> QED
            BY <2>9, <2>b, <3>3 DEF OtpReadStale, Goto, TypeOK, tables
    <2>10. ASSUME NEW w \in Workers, OtpWrite(w)
           PROVE  TypeOK'
        <3> DEFINE h == handlers[w]
        <3>1. h.req \in Requests /\ h.at \in Time
            BY <2>10, HandlerFields DEF OtpWrite, At
        <3>2. tokens[h.req] \in Seq(Token)
            BY <3>1 DEF TypeOK
        <3>3. Append(CloseTokens(tokens[h.req], h.stale, h.at), NewToken(h.at)) \in Seq(Token)
            BY <3>1, <3>2, CloseTokensType, NewTokenType
        <3>4. tokens' \in [Requests -> Seq(Token)]
            BY <2>10, <3>1, <3>3 DEF OtpWrite, TypeOK
        <3> QED
            BY <2>10, <2>a, <2>b, <3>4 DEF OtpWrite, Goto, TypeOK
    <2>11. ASSUME NEW w \in Workers, NEW r \in Requests, ConfirmReadRequest(w, r)
           PROVE  TypeOK'
        <3>1. [step |-> "confirm_check", req |-> r] \in HandlerState
            BY DEF HandlerState
        <3> QED
            BY <2>11, <2>b, <3>1 DEF ConfirmReadRequest, Goto, TypeOK, tables
    <2>12. ASSUME NEW w \in Workers, ConfirmTokenRefused(w)
           PROVE  TypeOK'
        BY <2>12, <2>a, <2>b DEF ConfirmTokenRefused, Goto, TypeOK, tables
    <2>13. ASSUME NEW w \in Workers, NEW ok \in BOOLEAN, ConfirmCompareEmailOtp(w, ok)
           PROVE  TypeOK'
        <3> DEFINE r == handlers[w].req
                   k == Len(tokens[r])
        <3>1. r \in Requests
            BY <2>13, HandlerFields DEF ConfirmCompareEmailOtp, At
        <3>2. tokens[r] \in Seq(Token) /\ k \in DOMAIN tokens[r]
            BY <2>13, <3>1 DEF ConfirmCompareEmailOtp, Verifiable, TypeOK
        <3>3. tokens[r][k] \in Token
            BY <3>2
        <3>4. UNCHANGED <<now, tables>>
            BY <2>13 DEF ConfirmCompareEmailOtp
        <3>5. k \in Nat
            BY <3>2
        <3>6. tokens[r][k].attempts + 1 \in 0..MaxAttempts
            <4> DEFINE attempts == tokens[r][k].attempts
            <4>1. attempts < MaxAttempts
                BY <2>13 DEF ConfirmCompareEmailOtp, Verifiable
            <4>2. attempts \in 0..MaxAttempts
                BY <3>3 DEF Token
            <4> HIDE DEF attempts
            <4>3. attempts + 1 \in 0..MaxAttempts
                BY <2>d, <4>1, <4>2
            <4> QED
                BY <4>3 DEF attempts
        <3>7. [step |-> "confirm_write", req |-> r, token |-> k,
               attempts |-> tokens[r][k].attempts + 1, ok |-> ok, at |-> now] \in HandlerState
            BY <2>c, <3>1, <3>5, <3>6 DEF HandlerState
        <3> QED
            BY <2>13, <2>b, <3>4, <3>7 DEF ConfirmCompareEmailOtp, Goto, TypeOK, tables
    <2>14. ASSUME NEW w \in Workers, ConfirmCompareTotp(w)
           PROVE  TypeOK'
        <3>1. handlers[w].req \in Requests
            BY <2>14, HandlerFields DEF ConfirmCompareTotp, At
        <3>2. [step |-> "confirm_write", req |-> handlers[w].req, token |-> 0,
               attempts |-> 0, ok |-> TRUE, at |-> now] \in HandlerState
            BY <3>1, <2>c, ConstantsAssumption DEF HandlerState
        <3> QED
            BY <2>14, <2>b, <3>2 DEF ConfirmCompareTotp, Goto, TypeOK, tables
    <2>15. ASSUME NEW w \in Workers, ConfirmWrite(w)
           PROVE  TypeOK'
        <3> DEFINE h == handlers[w]
        <3>1. /\ h.req \in Requests /\ h.at \in Time
              /\ h.attempts \in 0..MaxAttempts /\ h.ok \in BOOLEAN
            BY <2>15, HandlerFields DEF ConfirmWrite
        <3>2. SpendAttempt(tokens[h.req], h) \in Seq(Token)
            BY <3>1, SpendAttemptType DEF TypeOK
        <3>3. tokens' \in [Requests -> Seq(Token)]
            BY <2>15, <3>1, <3>2 DEF ConfirmWrite, TypeOK
        <3>4. requests' \in [Requests -> Request]
            <4>1. CASE ~h.ok
                BY <2>15, <4>1 DEF ConfirmWrite, TypeOK
            <4>2. CASE h.ok
                <5>1. requests' = [requests EXCEPT ![h.req] =
                                      [@ EXCEPT !.status = "mfa_confirmed"]]
                    BY <2>15, <4>2 DEF ConfirmWrite
                <5>2. requests[h.req] \in Request
                    BY <3>1 DEF TypeOK
                <5> QED
                    BY <5>1, <5>2 DEF TypeOK, Request, Statuses
            <4> QED
                BY <4>1, <4>2
        <3>5. firstConfirmed' \in [Requests -> {Never} \cup Time]
            BY <2>15, <3>1 DEF ConfirmWrite, TypeOK
        <3> QED
            BY <2>15, <2>a, <2>b, <3>3, <3>4, <3>5 DEF ConfirmWrite, Goto, TypeOK
    <2>16. ASSUME NEW w \in Workers, NEW r \in Requests, NEW n \in Requests,
                  SubmitReadRequest(w, r, n)
           PROVE  TypeOK'
        <3>1. [step |-> "submit_nonce", req |-> r, nonce |-> n, at |-> now] \in HandlerState
            BY <2>c DEF HandlerState
        <3> QED
            BY <2>16, <2>b, <3>1 DEF SubmitReadRequest, Goto, TypeOK, tables
    <2>17. ASSUME NEW w \in Workers, SubmitReadNonce(w)
           PROVE  TypeOK'
        <3>1. [handlers[w] EXCEPT !.step = "submit_certificate"] \in HandlerState
            BY <2>17, HandlerFields DEF SubmitReadNonce, At, HandlerState
        <3> QED
            BY <2>17, <2>a, <2>b, <3>1 DEF SubmitReadNonce, Goto, TypeOK, tables
    <2>18. ASSUME NEW w \in Workers, SubmitReadCertificate(w)
           PROVE  TypeOK'
        <3>1. [handlers[w] EXCEPT !.step = "submit_write"] \in HandlerState
            BY <2>18, HandlerFields DEF SubmitReadCertificate, At, HandlerState
        <3> QED
            BY <2>18, <2>a, <2>b, <3>1 DEF SubmitReadCertificate, Goto, TypeOK, tables
    <2>19. ASSUME NEW w \in Workers, SpendNonce(handlers[w]), At(w, "submit_write")
           PROVE  usedNonces' \subseteq Requests /\ requests' \in [Requests -> Request]
        <3>1. handlers[w].nonce \in Requests /\ handlers[w].req \in Requests
            BY <2>19, HandlerFields DEF At
        <3> QED
            BY <2>19, <3>1 DEF SpendNonce, TypeOK, Request, Statuses
    <2>20. ASSUME NEW w \in Workers, SubmitWrite(w)
           PROVE  TypeOK'
        <3> DEFINE h == handlers[w]
        <3>1. [req |-> h.req, nonce |-> h.nonce, at |-> h.at] \in Signature
            BY <2>20, HandlerFields DEF SubmitWrite, At, Signature
        <3>2. signatures' \in Seq(Signature)
            BY <2>20, <3>1 DEF SubmitWrite, TypeOK
        <3> QED
            BY <2>19, <2>20, <2>a, <2>b, <3>2 DEF SubmitWrite, Goto, TypeOK
    <2>21. ASSUME NEW w \in Workers, SubmitTimestampRejected(w)
           PROVE  TypeOK'
        BY <2>19, <2>21, <2>a, <2>b DEF SubmitTimestampRejected, Goto, TypeOK
    <2>22. ASSUME NEW w \in Workers, SubmitConflict(w)
           PROVE  TypeOK'
        BY <2>22, <2>a, <2>b DEF SubmitConflict, Goto, TypeOK, tables
    <2>23. CASE UNCHANGED vars
        BY <2>23 DEF vars, tables, TypeOK
    <2> QED
        BY <2>1, <2>2, <2>3, <2>4, <2>5, <2>6, <2>7, <2>8, <2>9, <2>10, <2>11, <2>12, <2>13,
           <2>14, <2>15, <2>16, <2>17, <2>18, <2>20, <2>21, <2>22, <2>23, <2>24
        DEF Next, OtpRequestExpired, ConfirmExpired, SubmitRequestExpired, SubmitPayloadExpired, Expire
<1> QED
    BY <1>1, <1>2, PTL DEF Spec
----------------------------------------------------------------------------
(***************************************************************************)
(* SigningInv is inductive.  A step that only reads moves one thread; the  *)
(* steps that write change one row each.                                   *)
(***************************************************************************)

\* A thread that does nothing constrains nothing.
LEMMA IdleConsistent == HandlerConsistent(Idle)
BY DEF HandlerConsistent, Idle

\* A thread moves to a consistent state, and the tables stay, but for the tokens.
LEMMA MovePreservesInv ==
    ASSUME TypeOK, SigningInv, NEW w \in Workers, NEW h, Goto(w, h), HandlerConsistent(h),
           UNCHANGED <<now, requests, certificate, usedNonces, signatures, firstConfirmed>>
    PROVE  SigningInv'
<1>1. HandlersConsistent'
    <2> SUFFICES ASSUME NEW v \in Workers PROVE HandlerConsistent(handlers[v])'
        BY DEF HandlersConsistent
    <2>1. handlers'[v] = IF v = w THEN h ELSE handlers[v]
        BY DEF Goto, TypeOK
    <2>2. HandlerConsistent(handlers[v])
        BY DEF SigningInv, HandlersConsistent
    <2>3. CASE v = w
        BY <2>1, <2>3 DEF HandlerConsistent, AdmittedInTime, BeforeRevocation
    <2>4. CASE v # w
        BY <2>1, <2>2, <2>4 DEF HandlerConsistent, AdmittedInTime, BeforeRevocation
    <2> QED
        BY <2>3, <2>4
<1>2. RequestsConsistent' /\ SignaturesConsistent' /\ AtMostOneSignature'
    BY DEF SigningInv, RequestsConsistent, SignaturesConsistent, SignatureConsistent,
           AtMostOneSignature, AdmittedInTime, BeforeRevocation
<1> QED
    BY <1>1, <1>2 DEF SigningInv

\* A thread ends, and the tables stay.
LEMMA EndPreservesInv ==
    ASSUME TypeOK, SigningInv, NEW w \in Workers, Goto(w, Idle), UNCHANGED <<now, tables>>
    PROVE  SigningInv'
BY MovePreservesInv, IdleConsistent DEF tables

\* The passing of time: every time the tables and the threads hold is in the past.
LEMMA SigningInvTick ==
    ASSUME TypeOK, SigningInv, Tick
    PROVE  SigningInv'
<1>1. now \in Nat /\ now' = now + 1 /\ UNCHANGED <<tables, handlers>>
    BY ConstantsAssumption DEF Tick, TypeOK, Time
<1>2. ASSUME NEW r, NEW at \in Nat, AdmittedInTime(r, at) PROVE AdmittedInTime(r, at)'
    BY <1>1, <1>2 DEF AdmittedInTime, tables
<1>3. RequestsConsistent'
    BY <1>1, ConstantsAssumption DEF SigningInv, RequestsConsistent, TypeOK, Time, tables
<1>4. HandlersConsistent'
    <2> SUFFICES ASSUME NEW w \in Workers PROVE HandlerConsistent(handlers[w])'
        BY <1>1 DEF HandlersConsistent
    <2>1. HandlerConsistent(handlers[w])
        BY DEF SigningInv, HandlersConsistent
    <2>2. /\ handlers[w].step \in {"submit_nonce", "submit_certificate", "submit_write"} =>
                 handlers[w].at \in Nat
          /\ handlers[w].step = "confirm_write" => handlers[w].at \in Nat
        BY HandlerFields, ConstantsAssumption DEF At, Time
    <2> QED
        BY <1>1, <1>2, <2>1, <2>2 DEF HandlerConsistent, BeforeRevocation, tables
<1>5. SignaturesConsistent'
    <2> SUFFICES ASSUME NEW i \in DOMAIN signatures
                 PROVE  /\ signatures[i].req \in usedNonces
                        /\ AdmittedInTime(signatures[i].req, signatures[i].at)'
                        /\ BeforeRevocation(signatures[i].at)
        BY <1>1 DEF SignaturesConsistent, SignatureConsistent, BeforeRevocation,
                    AdmittedInTime, tables
    <2>1. signatures[i] \in Signature
        BY DEF TypeOK
    <2>2. signatures[i].at \in Nat
        BY <2>1, ConstantsAssumption DEF Signature, Time
    <2>3. /\ signatures[i].req \in usedNonces
          /\ AdmittedInTime(signatures[i].req, signatures[i].at)
          /\ BeforeRevocation(signatures[i].at)
        BY DEF SigningInv, SignaturesConsistent, SignatureConsistent
    <2> QED
        BY <1>1, <2>2, <2>3 DEF AdmittedInTime, tables
<1> QED
    BY <1>1, <1>3, <1>4, <1>5 DEF SigningInv, AtMostOneSignature, tables

\* A revocation: whoever was admitted before its commit was admitted by its time.
LEMMA SigningInvRevoke ==
    ASSUME TypeOK, SigningInv, NEW v \in Workers, RevokeWrite(v)
    PROVE  SigningInv'
<1>1. /\ certificate'.status = "revoked"
      /\ certificate.status # "revoked" => certificate'.since = now
      /\ certificate.status = "revoked" => certificate'.since = certificate.since
      /\ Goto(v, Idle)
      /\ UNCHANGED <<now, requests, usedNonces, signatures, firstConfirmed>>
    BY DEF RevokeWrite
<1>2. ASSUME NEW r, NEW at, AdmittedInTime(r, at), BeforeRevocation(at)
      PROVE  AdmittedInTime(r, at)' /\ BeforeRevocation(at)'
    BY <1>1, <1>2 DEF AdmittedInTime, BeforeRevocation
<1>3. HandlersConsistent'
    <2> SUFFICES ASSUME NEW w \in Workers PROVE HandlerConsistent(handlers[w])'
        BY <1>1 DEF HandlersConsistent
    <2>1. HandlerConsistent(handlers[w])
        BY DEF SigningInv, HandlersConsistent
    <2>2. CASE w = v
        BY <1>1, <2>2, IdleConsistent DEF Goto, TypeOK, HandlerConsistent, Idle
    <2>3. CASE w # v
        <3>1. handlers'[w] = handlers[w]
            BY <1>1, <2>3 DEF Goto, TypeOK
        <3> QED
            BY <1>1, <2>1, <3>1 DEF HandlerConsistent, AdmittedInTime, BeforeRevocation
    <2> QED
        BY <2>2, <2>3
<1>4. SignaturesConsistent'
    BY <1>1, <1>2 DEF SigningInv, SignaturesConsistent, SignatureConsistent, AdmittedInTime,
                      BeforeRevocation
<1> QED
    BY <1>1, <1>3, <1>4 DEF SigningInv, RequestsConsistent, AtMostOneSignature

\* Rows that are rewritten keep their deadline, the history is kept, and no
\* request goes back to "none": what was admitted in time still was.
LEMMA RewritePreservesInv ==
    ASSUME TypeOK, SigningInv,
           UNCHANGED <<now, certificate>>,
           usedNonces \subseteq usedNonces',
           \A r \in Requests :
               /\ requests[r].status # "none" =>
                      /\ requests'[r].status # "none"
                      /\ requests'[r].expiresAt = requests[r].expiresAt
               /\ firstConfirmed[r] # Never => firstConfirmed'[r] = firstConfirmed[r],
           \/ UNCHANGED handlers
           \/ \E w \in Workers : Goto(w, Idle)
    PROVE  /\ HandlersConsistent'
           /\ \A s \in Signature : SignatureConsistent(s) => SignatureConsistent(s)'
<1>1. ASSUME NEW r \in Requests, NEW at \in Time, AdmittedInTime(r, at)
      PROVE  AdmittedInTime(r, at)'
    BY <1>1, ConstantsAssumption DEF AdmittedInTime, Time
<1>2. HandlersConsistent'
    <2> SUFFICES ASSUME NEW w \in Workers PROVE HandlerConsistent(handlers[w])'
        BY DEF HandlersConsistent
    <2>1. CASE handlers'[w] = Idle
        BY <2>1 DEF HandlerConsistent, Idle
    <2>2. CASE handlers'[w] = handlers[w]
        <3>1. HandlerConsistent(handlers[w])
            BY DEF SigningInv, HandlersConsistent
        <3>2. /\ handlers[w].step \in {"confirm_check", "confirm_write"} =>
                     handlers[w].req \in Requests
              /\ handlers[w].step \in {"submit_nonce", "submit_certificate", "submit_write"} =>
                     handlers[w].req \in Requests /\ handlers[w].at \in Time
            BY HandlerFields DEF At
        <3>3. handlers[w].step \in {"submit_nonce", "submit_certificate", "submit_write"} =>
                  AdmittedInTime(handlers[w].req, handlers[w].at)'
            BY <1>1, <2>2, <3>1, <3>2 DEF HandlerConsistent, AdmittedInTime
        <3> QED
            BY <2>2, <3>1, <3>2, <3>3 DEF HandlerConsistent, BeforeRevocation
    <2> QED
        BY <2>1, <2>2 DEF Goto, TypeOK
<1>3. ASSUME NEW s \in Signature, SignatureConsistent(s)
      PROVE  SignatureConsistent(s)'
    BY <1>1, <1>3 DEF SignatureConsistent, Signature, BeforeRevocation
<1> QED
    BY <1>2, <1>3

\* The stored signatures, when none is added.
LEMMA SignaturesKept ==
    ASSUME TypeOK, SigningInv, UNCHANGED signatures,
           \A s \in Signature : SignatureConsistent(s) => SignatureConsistent(s)'
    PROVE  SignaturesConsistent' /\ AtMostOneSignature'
<1>1. \A i \in DOMAIN signatures : signatures[i] \in Signature
    BY DEF TypeOK
<1>2. SignaturesConsistent'
    <2> SUFFICES ASSUME NEW i \in DOMAIN signatures
                 PROVE  SignatureConsistent(signatures[i])'
        BY DEF SignaturesConsistent
    <2>1. SignatureConsistent(signatures[i])
        BY DEF SigningInv, SignaturesConsistent
    <2> QED
        BY <1>1, <2>1 DEF SignatureConsistent, AdmittedInTime, BeforeRevocation
<1> QED
    BY <1>2 DEF SigningInv, AtMostOneSignature

\* A request is marked expired, by any of the handlers that do.
LEMMA SigningInvExpire ==
    ASSUME TypeOK, SigningInv, NEW r \in Requests, MarkExpired(r)
    PROVE  SigningInv'
<1>1. /\ requests[r].status # "none"
      /\ requests' = [requests EXCEPT ![r].status = "expired"]
      /\ UNCHANGED <<now, tokens, certificate, usedNonces, signatures, handlers, firstConfirmed>>
    BY DEF MarkExpired
<1>2. \A q \in Requests :
          /\ requests'[q].expiresAt = requests[q].expiresAt
          /\ requests'[q].status = IF q = r THEN "expired" ELSE requests[q].status
    BY <1>1 DEF TypeOK, Request
<1>3. /\ HandlersConsistent'
      /\ \A s \in Signature : SignatureConsistent(s) => SignatureConsistent(s)'
    BY <1>1, <1>2, RewritePreservesInv
<1>4. RequestsConsistent'
    BY <1>1, <1>2 DEF SigningInv, RequestsConsistent
<1> QED
    BY <1>1, <1>3, <1>4, SignaturesKept DEF SigningInv

\* prepare_signing_request creates a request nobody has worked on.
LEMMA SigningInvPrepare ==
    ASSUME TypeOK, SigningInv, NEW w \in Workers, NEW r \in Requests, PrepareWrite(w, r)
    PROVE  SigningInv'
<1>1. /\ requests[r].status = "none"
      /\ requests' = [requests EXCEPT
                         ![r] = [status |-> "pending", expiresAt |-> now + RequestTtl]]
      /\ Goto(w, Idle)
      /\ UNCHANGED <<now, tokens, certificate, usedNonces, signatures, firstConfirmed>>
    BY DEF PrepareWrite
<1>2. \A q \in Requests \ {r} : requests'[q] = requests[q]
    BY <1>1 DEF TypeOK
<1>3. requests'[r].status = "pending"
    BY <1>1 DEF TypeOK
<1>4. /\ HandlersConsistent'
      /\ \A s \in Signature : SignatureConsistent(s) => SignatureConsistent(s)'
    BY <1>1, <1>2, RewritePreservesInv
<1>5. RequestsConsistent'
    BY <1>1, <1>2, <1>3 DEF SigningInv, RequestsConsistent
<1> QED
    BY <1>1, <1>4, <1>5, SignaturesKept DEF SigningInv

\* confirm_signing_request commits its verification, right or wrong.
LEMMA SigningInvConfirm ==
    ASSUME TypeOK, SigningInv, NEW w \in Workers, ConfirmWrite(w)
    PROVE  SigningInv'
<1> DEFINE h == handlers[w]
<1>1. /\ h.req \in Requests /\ h.at \in Nat /\ h.ok \in BOOLEAN
      /\ requests[h.req].status # "none" /\ h.at <= now
    BY HandlerFields, ConstantsAssumption
    DEF ConfirmWrite, At, Time, SigningInv, HandlersConsistent, HandlerConsistent
<1>2. Goto(w, Idle) /\ UNCHANGED <<now, certificate, usedNonces, signatures>>
    BY DEF ConfirmWrite
<1>3. CASE ~h.ok
    <2>1. UNCHANGED <<requests, firstConfirmed>>
        BY <1>3 DEF ConfirmWrite
    <2> QED
        BY <1>2, <2>1, IdleConsistent, MovePreservesInv
<1>4. CASE h.ok
    <2>1. /\ requests' = [requests EXCEPT ![h.req].status = "mfa_confirmed"]
          /\ firstConfirmed' =
                 [firstConfirmed EXCEPT ![h.req] = IF @ = Never THEN h.at ELSE @]
        BY <1>4 DEF ConfirmWrite
    <2>2. \A q \in Requests :
              /\ requests'[q].expiresAt = requests[q].expiresAt
              /\ requests'[q].status =
                     IF q = h.req THEN "mfa_confirmed" ELSE requests[q].status
        BY <1>1, <2>1 DEF TypeOK, Request
    <2>3. \A q \in Requests :
              firstConfirmed'[q] = IF q = h.req /\ firstConfirmed[q] = Never
                                   THEN h.at ELSE firstConfirmed[q]
        BY <1>1, <2>1 DEF TypeOK
    <2>4. /\ HandlersConsistent'
          /\ \A s \in Signature : SignatureConsistent(s) => SignatureConsistent(s)'
        BY <1>1, <1>2, <2>2, <2>3, RewritePreservesInv
    <2>5. RequestsConsistent'
        BY <1>1, <1>2, <2>2, <2>3 DEF SigningInv, RequestsConsistent
    <2> QED
        BY <1>2, <2>4, <2>5, SignaturesKept DEF SigningInv
<1> QED
    BY <1>1, <1>3, <1>4

\* Spending the nonce, with or without a signature record.
LEMMA SpendNonceConsistent ==
    ASSUME TypeOK, SigningInv, NEW w \in Workers, At(w, "submit_write"),
           NEW h, h = handlers[w], SpendNonce(h), Goto(w, Idle), UNCHANGED <<now, certificate, firstConfirmed>>
    PROVE  /\ RequestsConsistent' /\ HandlersConsistent'
           /\ \A s \in Signature : SignatureConsistent(s) => SignatureConsistent(s)'
           /\ h.req \notin usedNonces
           /\ usedNonces' = usedNonces \cup {h.req}
           /\ AdmittedInTime(h.req, h.at)'
           /\ BeforeRevocation(h.at)'
<1>1. h.req \in Requests /\ h.at \in Time
    BY HandlerFields DEF At
<1>2. AdmittedInTime(h.req, h.at) /\ h.nonce = h.req /\ BeforeRevocation(h.at)
    BY DEF At, SigningInv, HandlersConsistent, HandlerConsistent
<1>3. /\ h.req \notin usedNonces
      /\ usedNonces' = usedNonces \cup {h.req}
      /\ requests' = [requests EXCEPT ![h.req].status = "signed"]
    BY <1>2 DEF SpendNonce, NonceInsertable
<1>4. \A q \in Requests :
          /\ requests'[q].expiresAt = requests[q].expiresAt
          /\ requests'[q].status = IF q = h.req THEN "signed" ELSE requests[q].status
    BY <1>1, <1>3 DEF TypeOK, Request
<1>5. /\ HandlersConsistent'
      /\ \A s \in Signature : SignatureConsistent(s) => SignatureConsistent(s)'
    BY <1>3, <1>4, RewritePreservesInv
<1>6. firstConfirmed[h.req] # Never
    BY <1>1, <1>2, ConstantsAssumption DEF AdmittedInTime, Time
<1>7. RequestsConsistent'
    BY <1>3, <1>4, <1>6 DEF SigningInv, RequestsConsistent
<1>8. AdmittedInTime(h.req, h.at)'
    <2>1. requests'[h.req].status = "signed" /\ requests'[h.req].expiresAt = requests[h.req].expiresAt
        BY <1>1, <1>4
    <2> QED
        BY <1>2, <2>1 DEF AdmittedInTime
<1> QED
    BY <1>2, <1>3, <1>5, <1>7, <1>8 DEF BeforeRevocation

\* submit_signature stores the signature with the nonce it inserts.
LEMMA SigningInvSubmit ==
    ASSUME TypeOK, SigningInv, NEW w \in Workers, SubmitWrite(w)
    PROVE  SigningInv'
<1> SUFFICES ASSUME NEW h, h = handlers[w] PROVE SigningInv'
    OBVIOUS
<1> DEFINE new == [req |-> h.req, nonce |-> h.nonce, at |-> h.at]
<1>1. /\ SpendNonce(h) /\ signatures' = Append(signatures, new)
      /\ Goto(w, Idle) /\ UNCHANGED <<now, certificate, firstConfirmed>>
    BY DEF SubmitWrite
<1>2. /\ RequestsConsistent' /\ HandlersConsistent'
      /\ \A s \in Signature : SignatureConsistent(s) => SignatureConsistent(s)'
      /\ h.req \notin usedNonces
      /\ usedNonces' = usedNonces \cup {h.req}
      /\ AdmittedInTime(h.req, h.at)'
      /\ BeforeRevocation(h.at)'
    BY <1>1, SpendNonceConsistent DEF SubmitWrite
<1>3. SignatureConsistent(new)'
    BY <1>2 DEF SignatureConsistent
<1>4. new \in Signature
    BY HandlerFields DEF SubmitWrite, At, Signature
<1>5. /\ signatures \in Seq(Signature)
      /\ DOMAIN signatures' = 1..(Len(signatures) + 1)
      /\ \A i \in 1..Len(signatures) : signatures'[i] = signatures[i]
      /\ signatures'[Len(signatures) + 1] = new
    BY <1>1, <1>4 DEF TypeOK
<1>6. \A i \in 1..Len(signatures) :
          signatures[i] \in Signature /\ SignatureConsistent(signatures[i])
    BY <1>5 DEF SigningInv, SignaturesConsistent
<1>7. SignaturesConsistent'
    <2> SUFFICES ASSUME NEW i \in DOMAIN signatures'
                 PROVE  SignatureConsistent(signatures[i])'
        BY DEF SignaturesConsistent
    <2>1. CASE i \in 1..Len(signatures)
        BY <1>2, <1>5, <1>6, <2>1 DEF SignatureConsistent, AdmittedInTime, BeforeRevocation
    <2>2. CASE i = Len(signatures) + 1
        BY <1>3, <1>5, <2>2 DEF SignatureConsistent, AdmittedInTime, BeforeRevocation
    <2> QED
        BY <1>5, <2>1, <2>2
<1>8. AtMostOneSignature'
    <2>1. \A i \in 1..Len(signatures) : signatures[i].req # h.req
        BY <1>2, <1>6 DEF SignatureConsistent
    <2> QED
        BY <1>5, <2>1 DEF SigningInv, AtMostOneSignature
<1> QED
    BY <1>2, <1>7, <1>8 DEF SigningInv

\* The tables, the threads and the history of a request agree in every reachable state.
THEOREM SigningInvariant == Spec => [](TypeOK /\ SigningInv)
<1>1. Init => SigningInv
    BY DEF Init, SigningInv, RequestsConsistent, HandlersConsistent, HandlerConsistent,
           SignaturesConsistent, AtMostOneSignature, Idle
<1>2. TypeOK /\ SigningInv /\ [Next]_vars => SigningInv'
    <2> SUFFICES ASSUME TypeOK, SigningInv, [Next]_vars
                 PROVE  SigningInv'
        OBVIOUS
    <2>1. CASE Tick
        BY <2>1, SigningInvTick
    <2>2. ASSUME NEW w \in Workers, RevokeReadCertificate(w) PROVE SigningInv'
        <3>1. HandlerConsistent([step |-> "revoke_write"])
            BY DEF HandlerConsistent
        <3> QED
            BY <2>2, <3>1, MovePreservesInv DEF RevokeReadCertificate, tables
    <2>24. ASSUME NEW w \in Workers, RevokeWrite(w) PROVE SigningInv'
        BY <2>24, SigningInvRevoke
    <2>3. ASSUME NEW w \in Workers, HandlerFails(w) PROVE SigningInv'
        BY <2>3, EndPreservesInv DEF HandlerFails
    <2>4. ASSUME NEW w \in Workers, PrepareReadCertificate(w) PROVE SigningInv'
        <3>1. HandlerConsistent([step |-> "prepare_write"])
            BY DEF HandlerConsistent
        <3> QED
            BY <2>4, <3>1, MovePreservesInv DEF PrepareReadCertificate, tables
    <2>5. ASSUME NEW w \in Workers, NEW r \in Requests, PrepareWrite(w, r) PROVE SigningInv'
        BY <2>5, SigningInvPrepare
    <2>6. ASSUME NEW w \in Workers, NEW r \in Requests, OtpReadRequest(w, r) PROVE SigningInv'
        <3>1. HandlerConsistent([step |-> "otp_latest", req |-> r])
            BY DEF HandlerConsistent
        <3> QED
            BY <2>6, <3>1, MovePreservesInv DEF OtpReadRequest, tables
    <2>7. ASSUME NEW w \in Workers, OtpReadLatest(w) PROVE SigningInv'
        <3> DEFINE r == handlers[w].req
                   h == [step |-> "otp_stale", req |-> r, at |-> now,
                         stale |-> Unused(r) \cap {Len(tokens[r])}]
        <3>1. HandlerConsistent(h)
            BY DEF HandlerConsistent
        <3> QED
            BY <2>7, <3>1, IdleConsistent, MovePreservesInv DEF OtpReadLatest, tables
    <2>8. ASSUME NEW w \in Workers, OtpReadStale(w) PROVE SigningInv'
        <3> DEFINE h == [handlers[w] EXCEPT !.step = "otp_write",
                                            !.stale = @ \cup Unused(handlers[w].req)]
        <3>1. h.step = "otp_write"
            BY <2>8, HandlerFields DEF OtpReadStale, At
        <3>2. HandlerConsistent(h)
            BY <3>1 DEF HandlerConsistent
        <3> QED
            BY <2>8, <3>2, MovePreservesInv DEF OtpReadStale, tables
    <2>9. ASSUME NEW w \in Workers, OtpWrite(w) PROVE SigningInv'
        BY <2>9, IdleConsistent, MovePreservesInv DEF OtpWrite
    <2>10. ASSUME NEW w \in Workers, NEW r \in Requests, ConfirmReadRequest(w, r)
           PROVE  SigningInv'
        <3>1. HandlerConsistent([step |-> "confirm_check", req |-> r])
            BY <2>10 DEF ConfirmReadRequest, HandlerConsistent
        <3> QED
            BY <2>10, <3>1, MovePreservesInv DEF ConfirmReadRequest, tables
    <2>11. ASSUME NEW w \in Workers, ConfirmTokenRefused(w) PROVE SigningInv'
        BY <2>11, EndPreservesInv DEF ConfirmTokenRefused
    <2>12. now \in Nat
        BY ConstantsAssumption DEF TypeOK, Time
    <2>13. ASSUME NEW w \in Workers, NEW ok \in BOOLEAN, ConfirmCompareEmailOtp(w, ok)
           PROVE  SigningInv'
        <3> DEFINE h == [step |-> "confirm_write", req |-> handlers[w].req,
                         token |-> Len(tokens[handlers[w].req]),
                         attempts |-> tokens[handlers[w].req][Len(tokens[handlers[w].req])].attempts + 1,
                         ok |-> ok, at |-> now]
        <3>1. HandlerConsistent(handlers[w])
            BY DEF SigningInv, HandlersConsistent
        <3>2. HandlerConsistent(h)
            BY <2>12, <2>13, <3>1 DEF ConfirmCompareEmailOtp, At, HandlerConsistent
        <3> QED
            BY <2>13, <3>2, MovePreservesInv DEF ConfirmCompareEmailOtp, tables
    <2>14. ASSUME NEW w \in Workers, ConfirmCompareTotp(w) PROVE SigningInv'
        <3> DEFINE h == [step |-> "confirm_write", req |-> handlers[w].req, token |-> 0,
                         attempts |-> 0, ok |-> TRUE, at |-> now]
        <3>1. HandlerConsistent(handlers[w])
            BY DEF SigningInv, HandlersConsistent
        <3>2. HandlerConsistent(h)
            BY <2>12, <2>14, <3>1 DEF ConfirmCompareTotp, At, HandlerConsistent
        <3> QED
            BY <2>14, <3>2, MovePreservesInv DEF ConfirmCompareTotp, tables
    <2>15. ASSUME NEW w \in Workers, ConfirmWrite(w) PROVE SigningInv'
        BY <2>15, SigningInvConfirm
    <2>16. ASSUME NEW w \in Workers, NEW r \in Requests, NEW n \in Requests,
                  SubmitReadRequest(w, r, n)
           PROVE  SigningInv'
        <3> DEFINE h == [step |-> "submit_nonce", req |-> r, nonce |-> n, at |-> now]
        <3>1. firstConfirmed[r] # Never /\ firstConfirmed[r] <= now
            BY <2>16 DEF SubmitReadRequest, SigningInv, RequestsConsistent
        <3>2. firstConfirmed[r] \in 0..now
            BY <2>12, <3>1, ConstantsAssumption DEF TypeOK, Time
        <3>3. requests[r].expiresAt \in Nat /\ requests[r].status = "mfa_confirmed"
            BY <2>16 DEF SubmitReadRequest, TypeOK, Request
        <3>4. AdmittedInTime(r, now)
            BY <2>12, <2>16, <3>2, <3>3 DEF SubmitReadRequest, Overdue, AdmittedInTime
        <3>5. HandlerConsistent(h)
            BY <3>4 DEF HandlerConsistent
        <3> QED
            BY <2>16, <3>5, MovePreservesInv DEF SubmitReadRequest, tables
    <2>17. ASSUME NEW w \in Workers, SubmitReadNonce(w) PROVE SigningInv'
        <3> DEFINE h == [handlers[w] EXCEPT !.step = "submit_certificate"]
        <3>1. HandlerConsistent(handlers[w])
            BY DEF SigningInv, HandlersConsistent
        <3>2. CASE handlers[w].nonce \notin usedNonces
                   /\ ContextMatches(handlers[w].req, handlers[w].nonce)
            <4>1. HandlerConsistent(h)
                BY <2>17, <3>1, <3>2, HandlerFields
                DEF SubmitReadNonce, At, ContextMatches, HandlerConsistent
            <4> QED
                BY <2>17, <3>2, <4>1, MovePreservesInv DEF SubmitReadNonce, tables
        <3> QED
            BY <2>17, <3>2, EndPreservesInv DEF SubmitReadNonce
    <2>18. ASSUME NEW w \in Workers, SubmitReadCertificate(w) PROVE SigningInv'
        <3> DEFINE h == [handlers[w] EXCEPT !.step = "submit_write"]
        <3>1. HandlerConsistent(handlers[w])
            BY DEF SigningInv, HandlersConsistent
        <3>2. CASE CertificateUsable
            <4>1. HandlerConsistent(h)
                BY <2>18, <3>1, <3>2, HandlerFields
                DEF SubmitReadCertificate, At, CertificateUsable, BeforeRevocation,
                    HandlerConsistent
            <4> QED
                BY <2>18, <3>2, <4>1, MovePreservesInv DEF SubmitReadCertificate, tables
        <3> QED
            BY <2>18, <3>2, EndPreservesInv DEF SubmitReadCertificate
    <2>19. ASSUME NEW w \in Workers, SubmitWrite(w) PROVE SigningInv'
        BY <2>19, SigningInvSubmit
    <2>20. ASSUME NEW w \in Workers, SubmitTimestampRejected(w) PROVE SigningInv'
        <3>1. /\ RequestsConsistent' /\ HandlersConsistent'
              /\ \A s \in Signature : SignatureConsistent(s) => SignatureConsistent(s)'
            BY <2>20, SpendNonceConsistent DEF SubmitTimestampRejected
        <3> QED
            BY <2>20, <3>1, SignaturesKept DEF SubmitTimestampRejected, SigningInv
    <2>21. ASSUME NEW w \in Workers, SubmitConflict(w) PROVE SigningInv'
        BY <2>21, EndPreservesInv DEF SubmitConflict
    <2>22. ASSUME NEW r \in Requests, MarkExpired(r) PROVE SigningInv'
        BY <2>22, SigningInvExpire
    <2>23. CASE UNCHANGED vars
        BY <2>23 DEF vars, tables, SigningInv, RequestsConsistent, HandlersConsistent,
                     HandlerConsistent, SignaturesConsistent, SignatureConsistent,
                     AtMostOneSignature, AdmittedInTime, BeforeRevocation
    <2> QED
        BY <2>1, <2>2, <2>3, <2>4, <2>5, <2>6, <2>7, <2>8, <2>9, <2>10, <2>11, <2>13, <2>14,
           <2>15, <2>16, <2>17, <2>18, <2>19, <2>20, <2>21, <2>22, <2>23, <2>24
        DEF Next, OtpRequestExpired, ConfirmExpired, SubmitRequestExpired, SubmitPayloadExpired, Expire
<1> QED
    BY <1>1, <1>2, TypeCorrect, PTL DEF Spec

----------------------------------------------------------------------------
(***************************************************************************)
(* What the invariant gives.                                               *)
(***************************************************************************)

\* The strengthened invariant has the four properties as consequences.
LEMMA SigningInvSuffices ==
    ASSUME TypeOK, SigningInv
    PROVE  /\ AtMostOneSignature
           /\ SignatureIsConfirmedInTime
           /\ NoSignatureAfterRevocation
           /\ NonceFollowsRequest
<1>1. \A i \in DOMAIN signatures : SignatureConsistent(signatures[i])
    BY DEF SigningInv, SignaturesConsistent
<1>2. SignatureIsConfirmedInTime
    BY <1>1 DEF SignatureIsConfirmedInTime, SignatureConsistent, AdmittedInTime
<1>3. NoSignatureAfterRevocation
    BY <1>1 DEF NoSignatureAfterRevocation, SignatureConsistent, BeforeRevocation
<1>4. NonceFollowsRequest
    <2>1. \A n \in usedNonces : n \in Requests
        BY DEF TypeOK
    <2> QED
        BY <1>1, <2>1 DEF NonceFollowsRequest, SignatureConsistent, SigningInv, RequestsConsistent
<1> QED
    BY <1>2, <1>3, <1>4 DEF SigningInv

\* submit_signature never stores two signature records for one request.
THEOREM OneSignaturePerRequest == Spec => []AtMostOneSignature
BY SigningInvariant, SigningInvSuffices, PTL

\* Every stored signature was submitted before the deadline of its request, and
\* after a second factor had been accepted for it.
THEOREM SignedAfterConfirmation == Spec => []SignatureIsConfirmedInTime
BY SigningInvariant, SigningInvSuffices, PTL

\* No signature is stored by a submission that begins after the revocation.
THEOREM RevocationIsEffective == Spec => []NoSignatureAfterRevocation
BY SigningInvariant, SigningInvSuffices, PTL

\* A nonce is spent by its own request, once that request has been confirmed.
THEOREM NonceBelongsToRequest == Spec => []NonceFollowsRequest
BY SigningInvariant, SigningInvSuffices, PTL

----------------------------------------------------------------------------
(***************************************************************************)
(* What is stored stays accepted unless its request is marked as expired.  *)
(***************************************************************************)

\* One request gets a status that is not "pending".
LEMMA StatusKeepsConfirmed ==
    ASSUME TypeOK, ConfirmedInv, NEW r \in Requests, NEW s, s # "pending",
           requests' = [requests EXCEPT ![r].status = s],
           \A x \in Requests : x # r => firstConfirmed'[x] = firstConfirmed[x]
    PROVE  ConfirmedInv'
<1>1. requests'[r].status = s
    BY DEF TypeOK, Request
<1>2. \A x \in Requests : x # r => requests'[x] = requests[x]
    BY DEF TypeOK
<1> QED
    BY <1>1, <1>2 DEF ConfirmedInv

\* Every step preserves ConfirmedInv: only prepare writes the status "pending", and only
\* into a row that is new.
LEMMA ConfirmedStep ==
    ASSUME TypeOK, SigningInv, ConfirmedInv, [Next]_vars
    PROVE  ConfirmedInv'
<1>1. ASSUME NEW r \in Requests, MarkExpired(r)
      PROVE  ConfirmedInv'
    BY <1>1, StatusKeepsConfirmed DEF MarkExpired
<1>2. ASSUME NEW w \in Workers, NEW r \in Requests, PrepareWrite(w, r)
      PROVE  ConfirmedInv'
    <2>1. firstConfirmed[r] = Never
        BY <1>2 DEF PrepareWrite, SigningInv, RequestsConsistent
    <2>2. \A x \in Requests : x # r => requests'[x] = requests[x]
        BY <1>2 DEF PrepareWrite, TypeOK
    <2>3. firstConfirmed' = firstConfirmed
        BY <1>2 DEF PrepareWrite
    <2> QED
        BY <2>1, <2>2, <2>3 DEF ConfirmedInv
<1>3. ASSUME NEW w \in Workers, ConfirmWrite(w)
      PROVE  ConfirmedInv'
    <2> DEFINE h == handlers[w]
    <2>1. h.req \in Requests
        BY <1>3, HandlerFields DEF ConfirmWrite, At
    <2>2. CASE h.ok
        <3>1. /\ requests' = [requests EXCEPT ![h.req].status = "mfa_confirmed"]
              /\ \A x \in Requests : x # h.req => firstConfirmed'[x] = firstConfirmed[x]
            BY <1>3, <2>2 DEF ConfirmWrite, TypeOK
        <3> QED
            BY <2>1, <3>1, StatusKeepsConfirmed
    <2>3. CASE ~h.ok
        BY <1>3, <2>3 DEF ConfirmWrite, ConfirmedInv
    <2> QED
        BY <2>2, <2>3
<1>4. ASSUME NEW w \in Workers, SubmitWrite(w) \/ SubmitTimestampRejected(w)
      PROVE  ConfirmedInv'
    <2> DEFINE h == handlers[w]
    <2>1. h.req \in Requests
        BY <1>4, HandlerFields DEF SubmitWrite, SubmitTimestampRejected, At
    <2>2. /\ requests' = [requests EXCEPT ![h.req].status = "signed"]
          /\ firstConfirmed' = firstConfirmed
        BY <1>4 DEF SubmitWrite, SubmitTimestampRejected, SpendNonce
    <2> QED
        BY <2>1, <2>2, StatusKeepsConfirmed
<1>5. ASSUME UNCHANGED <<requests, firstConfirmed>> PROVE ConfirmedInv'
    BY <1>5 DEF ConfirmedInv
<1> QED
    BY <1>1, <1>2, <1>3, <1>4, <1>5
    DEF Next, vars, tables, Tick, RevokeReadCertificate, RevokeWrite, HandlerFails,
        PrepareReadCertificate, OtpReadRequest, OtpReadLatest, OtpReadStale, OtpWrite,
        ConfirmReadRequest, ConfirmTokenRefused, ConfirmCompareTotp, ConfirmCompareEmailOtp,
        SubmitReadRequest, SubmitReadNonce, SubmitReadCertificate, SubmitConflict,
        OtpRequestExpired, ConfirmExpired, SubmitRequestExpired, SubmitPayloadExpired, Expire

\* A stored signature stays accepted by the server unless its request is marked as
\* expired, whichever calls overlap.
THEOREM StoredIsAccepted == Spec => []StoredAcceptedUnlessExpired
<1>1. Init => ConfirmedInv
    BY DEF Init, ConfirmedInv
<1>2. TypeOK /\ SigningInv /\ ConfirmedInv /\ [Next]_vars => ConfirmedInv'
    BY ConfirmedStep
<1>3. TypeOK /\ SigningInv /\ ConfirmedInv => StoredAcceptedUnlessExpired
    <2> SUFFICES ASSUME TypeOK, SigningInv, ConfirmedInv, NEW i \in DOMAIN signatures,
                        requests[signatures[i].req].status # "expired"
                 PROVE  ServerAccepted(signatures[i].req)
        BY DEF StoredAcceptedUnlessExpired
    <2> DEFINE r == signatures[i].req
    <2>1. r \in usedNonces /\ requests[r].status # "none" /\ firstConfirmed[r] \in 0..signatures[i].at
        BY DEF SigningInv, SignaturesConsistent, SignatureConsistent, AdmittedInTime
    <2>2. r \in Requests
        BY <2>1 DEF TypeOK
    <2>3. firstConfirmed[r] # Never
        BY <2>1 DEF Never
    <2>4. requests[r].status \in Statuses \ {"none", "expired", "pending"}
        BY <2>2, <2>1, <2>3 DEF ConfirmedInv, TypeOK, Request
    <2> QED
        BY <2>1, <2>4 DEF ServerAccepted, ConfirmedStatuses, Statuses
<1> QED
    BY <1>1, <1>2, <1>3, SigningInvariant, PTL DEF Spec

----------------------------------------------------------------------------
(***************************************************************************)
(* The workflow implements SigningProtocol.                                *)
(***************************************************************************)

HasSignature(r) == \E i \in DOMAIN signatures : signatures[i].req = r

\* A request with a signature record has been prepared, confirmed and its nonce spent.
LEMMA SignedRequest ==
    ASSUME TypeOK, SigningInv, NEW r \in Requests, HasSignature(r)
    PROVE  r \in usedNonces /\ firstConfirmed[r] # Never /\ requests[r].status # "none"
<1>1. PICK i \in DOMAIN signatures : signatures[i].req = r
    BY DEF HasSignature
<1>2. SignatureConsistent(signatures[i])
    BY DEF SigningInv, SignaturesConsistent
<1> QED
    BY <1>1, <1>2 DEF SignatureConsistent, AdmittedInTime, SigningInv, RequestsConsistent

\* The phases depend only on which requests exist, are confirmed, and are signed.
LEMMA PhaseKept ==
    ASSUME UNCHANGED <<signatures, firstConfirmed>>,
           \A q \in Requests : (requests'[q].status # "none") <=> (requests[q].status # "none")
    PROVE  phase' = phase
BY DEF phase

\* One request moves on, the others stay.
LEMMA PhaseAdvances ==
    ASSUME NEW r \in Requests, NEW from, NEW to, phase[r] = from, phase'[r] = to,
           \A q \in Requests \ {r} : phase'[q] = phase[q]
    PROVE  Protocol!Advance(r, from, to)
<1>1. phase = [q \in Requests |-> phase[q]]
    BY DEF phase
<1>2. phase' = [q \in Requests |-> phase'[q]]
    BY DEF phase
<1> QED
    BY <1>1, <1>2 DEF Protocol!Advance

\* Creating a request is the protocol's Prepare.
LEMMA PrepareImplements ==
    ASSUME TypeOK, SigningInv, NEW w \in Workers, NEW r \in Requests, PrepareWrite(w, r)
    PROVE  Protocol!Prepare(r)
<1>1. /\ requests[r].status = "none"
      /\ requests'[r].status = "pending"
      /\ \A q \in Requests \ {r} : requests'[q] = requests[q]
      /\ UNCHANGED <<signatures, firstConfirmed>>
    BY DEF PrepareWrite, TypeOK
<1>2. ~HasSignature(r) /\ firstConfirmed[r] = Never
    BY <1>1, SignedRequest DEF SigningInv, RequestsConsistent
<1>3. phase[r] = "unknown" /\ phase'[r] = "prepared"
    BY <1>1, <1>2 DEF phase, HasSignature
<1>4. \A q \in Requests \ {r} : phase'[q] = phase[q]
    BY <1>1 DEF phase
<1> QED
    BY <1>3, <1>4, PhaseAdvances DEF Protocol!Prepare

\* Accepting a second factor is the protocol's Confirm the first time, a stutter later.
LEMMA ConfirmImplements ==
    ASSUME TypeOK, SigningInv, NEW w \in Workers, ConfirmWrite(w)
    PROVE  phase' = phase \/ \E r \in Requests : Protocol!Confirm(r)
<1> SUFFICES ASSUME NEW h, h = handlers[w]
             PROVE  phase' = phase \/ \E r \in Requests : Protocol!Confirm(r)
    OBVIOUS
<1>1. h.req \in Requests /\ h.at \in Nat /\ requests[h.req].status # "none"
    BY HandlerFields, ConstantsAssumption
    DEF ConfirmWrite, At, Time, SigningInv, HandlersConsistent, HandlerConsistent
<1>2. \A q \in Requests : (requests'[q].status # "none") <=> (requests[q].status # "none")
    <2>1. CASE ~h.ok
        BY <2>1 DEF ConfirmWrite
    <2>2. CASE h.ok
        <3>1. requests' = [requests EXCEPT ![h.req].status = "mfa_confirmed"]
            BY <2>2 DEF ConfirmWrite
        <3> QED
            BY <1>1, <3>1 DEF TypeOK, Request
    <2> QED
        BY <2>1, <2>2
<1>3. signatures' = signatures
    BY DEF ConfirmWrite
<1>4. CASE ~h.ok \/ firstConfirmed[h.req] # Never
    <2>1. firstConfirmed' = firstConfirmed
        BY <1>4 DEF ConfirmWrite, TypeOK
    <2> QED
        BY <1>2, <1>3, <2>1, PhaseKept
<1>5. CASE h.ok /\ firstConfirmed[h.req] = Never
    <2>1. /\ firstConfirmed'[h.req] = h.at
          /\ \A q \in Requests \ {h.req} : firstConfirmed'[q] = firstConfirmed[q]
        BY <1>1, <1>5 DEF ConfirmWrite, TypeOK
    <2>2. ~HasSignature(h.req)
        BY <1>1, <1>5, SignedRequest
    <2>3. phase[h.req] = "prepared" /\ phase'[h.req] = "confirmed"
        BY <1>1, <1>3, <1>5, <2>1, <2>2 DEF phase, HasSignature
    <2>4. \A q \in Requests \ {h.req} : phase'[q] = phase[q]
        BY <1>2, <1>3, <2>1 DEF phase
    <2> QED
        BY <1>1, <2>3, <2>4, PhaseAdvances DEF Protocol!Confirm
<1> QED
    BY <1>4, <1>5

\* Spending a nonce leaves the requests that exist as they are.
LEMMA SpendKeepsRequests ==
    ASSUME TypeOK, SigningInv, NEW w \in Workers, At(w, "submit_write"), SpendNonce(handlers[w])
    PROVE  /\ handlers[w].req \in Requests
           /\ handlers[w].nonce = handlers[w].req
           /\ handlers[w].req \notin usedNonces
           /\ firstConfirmed[handlers[w].req] # Never
           /\ \A q \in Requests : (requests'[q].status # "none") <=> (requests[q].status # "none")
<1>1. handlers[w].req \in Requests
    BY HandlerFields DEF At
<1>2. HandlerConsistent(handlers[w])
    BY DEF SigningInv, HandlersConsistent
<1>3. AdmittedInTime(handlers[w].req, handlers[w].at) /\ handlers[w].nonce = handlers[w].req
    BY <1>2 DEF At, HandlerConsistent
<1>4. handlers[w].at \in Nat
    BY HandlerFields, ConstantsAssumption DEF At, Time
<1> QED
    BY <1>1, <1>3, <1>4 DEF AdmittedInTime, SpendNonce, NonceInsertable, TypeOK, Request

\* Storing a signature is the protocol's Accept.
LEMMA SubmitImplements ==
    ASSUME TypeOK, SigningInv, NEW w \in Workers, SubmitWrite(w)
    PROVE  \E r \in Requests : Protocol!Accept(r)
<1> SUFFICES ASSUME NEW h, h = handlers[w]
             PROVE  \E r \in Requests : Protocol!Accept(r)
    OBVIOUS
<1> DEFINE new == [req |-> h.req, nonce |-> h.nonce, at |-> h.at]
<1>1. /\ h.req \in Requests /\ h.req \notin usedNonces /\ firstConfirmed[h.req] # Never
      /\ \A q \in Requests : (requests'[q].status # "none") <=> (requests[q].status # "none")
    BY SpendKeepsRequests DEF SubmitWrite
<1>2. new \in Signature
    BY HandlerFields DEF SubmitWrite, At, Signature
<1>3. /\ firstConfirmed' = firstConfirmed
      /\ DOMAIN signatures = 1..Len(signatures) /\ Len(signatures) \in Nat
      /\ DOMAIN signatures' = 1..(Len(signatures) + 1)
      /\ \A i \in 1..Len(signatures) : signatures'[i] = signatures[i]
      /\ signatures'[Len(signatures) + 1] = new
    BY <1>2 DEF SubmitWrite, TypeOK
<1>4. ~HasSignature(h.req)
    BY <1>1, SignedRequest
<1>5. phase[h.req] = "confirmed" /\ phase'[h.req] = "accepted"
    BY <1>1, <1>3, <1>4 DEF phase, HasSignature
<1>6. ASSUME NEW q \in Requests \ {h.req} PROVE phase'[q] = phase[q]
    <2>1. HasSignature(q)' <=> HasSignature(q)
        BY <1>3 DEF HasSignature
    <2> QED
        BY <1>1, <1>3, <2>1 DEF phase, HasSignature
<1> QED
    BY <1>1, <1>5, <1>6, PhaseAdvances DEF Protocol!Accept

\* Every step of the workflow is a step of the protocol or leaves the phases alone.
LEMMA StepImplements ==
    ASSUME TypeOK, SigningInv, [Next]_vars
    PROVE  [Protocol!Next]_phase
<1>1. CASE UNCHANGED <<requests, signatures, firstConfirmed>>
    BY <1>1, PhaseKept
<1>2. ASSUME NEW r \in Requests, MarkExpired(r)
      PROVE  phase' = phase
    <2>1. \A q \in Requests : (requests'[q].status # "none") <=> (requests[q].status # "none")
        BY <1>2 DEF MarkExpired, TypeOK, Request
    <2> QED
        BY <1>2, <2>1, PhaseKept DEF MarkExpired
<1>3. ASSUME NEW w \in Workers, NEW r \in Requests, PrepareWrite(w, r)
      PROVE  Protocol!Next
    BY <1>3, PrepareImplements DEF Protocol!Next
<1>4. ASSUME NEW w \in Workers, ConfirmWrite(w)
      PROVE  [Protocol!Next]_phase
    BY <1>4, ConfirmImplements DEF Protocol!Next
<1>5. ASSUME NEW w \in Workers, SubmitWrite(w)
      PROVE  Protocol!Next
    BY <1>5, SubmitImplements DEF Protocol!Next
<1>6. ASSUME NEW w \in Workers, SubmitTimestampRejected(w)
      PROVE  phase' = phase
    BY <1>6, SpendKeepsRequests, PhaseKept DEF SubmitTimestampRejected
<1>7. CASE UNCHANGED vars
    BY <1>1, <1>7 DEF vars, tables
<1>8. CASE Next
    BY <1>1, <1>2, <1>3, <1>4, <1>5, <1>6, <1>8
    DEF Next, tables, Tick, RevokeReadCertificate, RevokeWrite, HandlerFails, PrepareReadCertificate,
        OtpReadRequest, OtpReadLatest, OtpReadStale, OtpWrite, ConfirmReadRequest,
        ConfirmTokenRefused, ConfirmCompareTotp, ConfirmCompareEmailOtp, SubmitReadRequest,
        SubmitReadNonce, SubmitReadCertificate, SubmitConflict, Expire, OtpRequestExpired,
        ConfirmExpired, SubmitRequestExpired, SubmitPayloadExpired
<1> QED
    BY <1>7, <1>8

\* The workflow, with its threads, stale reads and failures, implements the protocol:
\* each request is prepared, confirmed and accepted at most once and in this order.
THEOREM Refinement == Spec => ImplementsProtocol
<1>1. Init => Protocol!Init
    BY DEF Init, phase, Protocol!Init
<1>2. TypeOK /\ SigningInv /\ [Next]_vars => [Protocol!Next]_phase
    BY StepImplements
<1> QED
    BY <1>1, <1>2, SigningInvariant, PTL DEF Spec, ImplementsProtocol, Protocol!Spec
----------------------------------------------------------------------------
(***************************************************************************)
(* The tokens: they are closed for good, and few of them are open.         *)
(***************************************************************************)

\* A resend keeps the tokens there are, closes the stale ones and adds a fresh one.
LEMMA ResentTokens ==
    ASSUME NEW ts \in Seq(Token), NEW stale, NEW at \in Time
    PROVE  LET new == Append(CloseTokens(ts, stale, at), NewToken(at)) IN
           /\ DOMAIN new = 1..(Len(ts) + 1)
           /\ \A k \in 1..Len(ts) : new[k].used <=> (ts[k].used \/ k \in stale)
<1> DEFINE closed == CloseTokens(ts, stale, at)
           new == Append(closed, NewToken(at))
<1>1. closed \in Seq(Token) /\ NewToken(at) \in Token
    BY CloseTokensType, NewTokenType
<1>2. DOMAIN closed = 1..Len(ts) /\ DOMAIN ts = 1..Len(ts)
    BY DEF CloseTokens
<1>3. Len(closed) = Len(ts)
    BY <1>1, <1>2
<1>4. DOMAIN new = 1..(Len(ts) + 1) /\ \A k \in 1..Len(ts) : new[k] = closed[k]
    BY <1>1, <1>3
<1>5. ASSUME NEW k \in 1..Len(ts)
      PROVE  closed[k].used <=> (ts[k].used \/ k \in stale)
    <2>1. ts[k] \in Token
        OBVIOUS
    <2>2. CASE k \in stale
        <3>1. closed[k] = [ts[k] EXCEPT !.used = TRUE, !.expiresAt = IF @ <= at THEN @ ELSE at]
            BY <1>2, <2>2 DEF CloseTokens
        <3>2. closed[k].used = TRUE
            BY <2>1, <3>1 DEF Token
        <3> QED
            BY <2>2, <3>2
    <2>3. CASE k \notin stale
        <3>1. closed[k] = ts[k]
            BY <1>2, <2>3 DEF CloseTokens
        <3> QED
            BY <2>3, <3>1
    <2> QED
        BY <2>2, <2>3
<1> QED
    BY <1>4, <1>5

\* An attempt keeps the tokens there are, and a used one used.
LEMMA SpentTokens ==
    ASSUME NEW ts \in Seq(Token), NEW h
    PROVE  /\ DOMAIN SpendAttempt(ts, h) = DOMAIN ts
           /\ \A k \in DOMAIN ts : ts[k].used => SpendAttempt(ts, h)[k].used
<1> DEFINE spent == SpendAttempt(ts, h)
<1>1. DOMAIN spent = DOMAIN ts
    BY DEF SpendAttempt
<1>2. ASSUME NEW k \in DOMAIN ts, ts[k].used
      PROVE  spent[k].used
    <2>1. ts[k] \in Token
        OBVIOUS
    <2>2. CASE k = h.token
        <3>1. spent[k] = [ts[k] EXCEPT !.attempts = h.attempts,
                                       !.used = IF h.ok THEN TRUE ELSE @]
            BY <2>2 DEF SpendAttempt
        <3>2. spent[k].used = IF h.ok THEN TRUE ELSE ts[k].used
            BY <2>1, <3>1 DEF Token
        <3> QED
            BY <1>2, <3>2
    <2>3. CASE k # h.token
        <3>1. spent[k] = ts[k]
            BY <2>3 DEF SpendAttempt
        <3> QED
            BY <1>2, <3>1
    <2> QED
        BY <2>2, <2>3
<1> QED
    BY <1>1, <1>2

\* Only a resend and an attempt write the tokens.
LEMMA TokensKept ==
    ASSUME [Next]_vars,
           \A w \in Workers : ~OtpWrite(w) /\ ~ConfirmWrite(w)
    PROVE  UNCHANGED tokens
BY DEF Next, vars, tables, Tick, RevokeReadCertificate, RevokeWrite, HandlerFails,
       PrepareReadCertificate, PrepareWrite, OtpReadRequest, OtpReadLatest, OtpReadStale,
       ConfirmReadRequest, ConfirmTokenRefused, ConfirmCompareTotp, ConfirmCompareEmailOtp,
       SubmitReadRequest, SubmitReadNonce, SubmitReadCertificate, SubmitWrite,
       SubmitTimestampRejected, SubmitConflict, OtpRequestExpired, ConfirmExpired,
       SubmitRequestExpired, SubmitPayloadExpired, Expire, MarkExpired

\* What a resend does to the tokens of its request, and that it leaves the others alone.
LEMMA OtpWriteTokens ==
    ASSUME TypeOK, NEW w \in Workers, OtpWrite(w)
    PROVE  LET h == handlers[w]
               ts == tokens[h.req] IN
           /\ h.req \in Requests
           /\ \A r \in Requests \ {h.req} : tokens'[r] = tokens[r]
           /\ Len(ts) \in Nat
           /\ DOMAIN ts = 1..Len(ts)
           /\ DOMAIN tokens'[h.req] = 1..(Len(ts) + 1)
           /\ \A k \in 1..Len(ts) : tokens'[h.req][k].used <=> (ts[k].used \/ k \in h.stale)
<1> DEFINE h == handlers[w]
           ts == tokens[h.req]
<1>1. h.req \in Requests /\ h.at \in Time
    BY HandlerFields DEF OtpWrite, At
<1>2. ts \in Seq(Token)
    BY <1>1 DEF TypeOK
<1>3. tokens' = [tokens EXCEPT ![h.req] =
                    Append(CloseTokens(ts, h.stale, h.at), NewToken(h.at))]
    BY DEF OtpWrite
<1>4. /\ tokens'[h.req] = Append(CloseTokens(ts, h.stale, h.at), NewToken(h.at))
      /\ \A r \in Requests \ {h.req} : tokens'[r] = tokens[r]
    BY <1>1, <1>3 DEF TypeOK
<1>5. Len(ts) \in Nat /\ DOMAIN ts = 1..Len(ts)
    BY <1>2
<1> QED
    BY <1>1, <1>2, <1>4, <1>5, ResentTokens

\* The same for an attempt.
LEMMA ConfirmWriteTokens ==
    ASSUME TypeOK, NEW w \in Workers, ConfirmWrite(w)
    PROVE  LET q == handlers[w].req IN
           /\ q \in Requests
           /\ \A r \in Requests \ {q} : tokens'[r] = tokens[r]
           /\ DOMAIN tokens'[q] = DOMAIN tokens[q]
           /\ \A k \in DOMAIN tokens[q] : tokens[q][k].used => tokens'[q][k].used
<1> DEFINE h == handlers[w]
<1>1. h.req \in Requests
    BY HandlerFields DEF ConfirmWrite, At
<1>2. tokens[h.req] \in Seq(Token)
    BY <1>1 DEF TypeOK
<1>3. tokens' = [tokens EXCEPT ![h.req] = SpendAttempt(tokens[h.req], h)]
    BY DEF ConfirmWrite
<1>4. /\ tokens'[h.req] = SpendAttempt(tokens[h.req], h)
      /\ \A r \in Requests \ {h.req} : tokens'[r] = tokens[r]
    BY <1>1, <1>3 DEF TypeOK
<1> QED
    BY <1>1, <1>2, <1>4, SpentTokens

\* No step takes a token away or opens one that was used.
LEMMA UseStays ==
    ASSUME TypeOK, [Next]_vars, NEW r \in Requests, NEW k \in DOMAIN tokens[r],
           tokens[r][k].used
    PROVE  k \in DOMAIN tokens'[r] /\ tokens'[r][k].used
<1>1. CASE \A w \in Workers : ~OtpWrite(w) /\ ~ConfirmWrite(w)
    BY <1>1, TokensKept
<1>2. ASSUME NEW w \in Workers, OtpWrite(w)
      PROVE  k \in DOMAIN tokens'[r] /\ tokens'[r][k].used
    <2>1. CASE r # handlers[w].req
        BY <1>2, <2>1, OtpWriteTokens
    <2>2. CASE r = handlers[w].req
        <3> DEFINE n == Len(tokens[r])
        <3>1. n \in Nat /\ k \in 1..n
            BY <1>2, <2>2, OtpWriteTokens
        <3>2. DOMAIN tokens'[r] = 1..(n + 1) /\ tokens'[r][k].used
            BY <1>2, <2>2, <3>1, OtpWriteTokens
        <3> QED
            BY <3>1, <3>2
    <2> QED
        BY <2>1, <2>2
<1>3. ASSUME NEW w \in Workers, ConfirmWrite(w)
      PROVE  k \in DOMAIN tokens'[r] /\ tokens'[r][k].used
    BY <1>3, ConfirmWriteTokens
<1> QED
    BY <1>1, <1>2, <1>3

\* A token that was used, or that a resend has closed, is never usable again.
THEOREM TokensStayUsed == Spec => TokenUseIsPermanent
<1>1. TypeOK /\ [Next]_vars =>
          [\A r \in Requests : \A k \in DOMAIN tokens[r] :
              tokens[r][k].used => tokens'[r][k].used]_vars
    BY UseStays
<1> QED
    BY <1>1, TypeCorrect, PTL DEF Spec, TokenUseIsPermanent
\* TokensHaveMakers, said of given tables and threads.
Open(ts) == {k \in DOMAIN ts : ~ts[k].used}

Makes(r, open, hs, maker) ==
    /\ maker \in [open -> Workers]
    /\ \A j, k \in open : maker[j] = maker[k] => j = k
    /\ \A k \in open :
          hs[maker[k]].step = "otp_write" /\ hs[maker[k]].req = r => k \in hs[maker[k]].stale

\* The two statements agree, before a step
LEMMA MakersNow ==
    TokensHaveMakers <=>
        \A r \in Requests : \E maker : Makes(r, Open(tokens[r]), handlers, maker)
BY DEF TokensHaveMakers, MadeBy, Unused, Makes, Open

\* and after it.
LEMMA MakersNext ==
    ASSUME \A r \in Requests : \E maker : Makes(r, Open(tokens'[r]), handlers', maker)
    PROVE  TokensHaveMakers'
BY DEF TokensHaveMakers, MadeBy, Unused, Makes, Open

\* A step that opens no token keeps the makers of those that stay open, when every
\* thread about to write was so before, or has just seen every open token.
LEMMA MakersKept ==
    ASSUME TokensHaveMakers,
           \A r \in Requests : Open(tokens'[r]) \subseteq Open(tokens[r]),
           \A v \in Workers : handlers'[v].step = "otp_write" =>
               \/ handlers'[v] = handlers[v]
               \/ Open(tokens[handlers'[v].req]) \subseteq handlers'[v].stale
    PROVE  TokensHaveMakers'
<1> SUFFICES ASSUME NEW r \in Requests
             PROVE  \E maker : Makes(r, Open(tokens'[r]), handlers', maker)
    BY MakersNext
<1>1. PICK maker : Makes(r, Open(tokens[r]), handlers, maker)
    BY MakersNow
<1> DEFINE kept == [k \in Open(tokens'[r]) |-> maker[k]]
<1>2. Open(tokens'[r]) \subseteq Open(tokens[r])
    OBVIOUS
<1>3. kept \in [Open(tokens'[r]) -> Workers]
    BY <1>1, <1>2 DEF Makes
<1>4. \A j, k \in Open(tokens'[r]) : kept[j] = kept[k] => j = k
    BY <1>1, <1>2 DEF Makes
<1>5. ASSUME NEW k \in Open(tokens'[r]), handlers'[kept[k]].step = "otp_write",
             handlers'[kept[k]].req = r
      PROVE  k \in handlers'[kept[k]].stale
    <2>1. maker[k] \in Workers /\ kept[k] = maker[k] /\ k \in Open(tokens[r])
        BY <1>1, <1>2 DEF Makes
    <2>2. CASE handlers'[maker[k]] = handlers[maker[k]]
        BY <1>1, <1>5, <2>1, <2>2 DEF Makes
    <2>3. CASE Open(tokens[handlers'[maker[k]].req]) \subseteq handlers'[maker[k]].stale
        BY <1>5, <2>1, <2>3
    <2> QED
        BY <1>5, <2>1, <2>2, <2>3
<1> QED
    BY <1>3, <1>4, <1>5 DEF Makes

\* A resend lays its token to its own thread, which has closed the one it had.
LEMMA MakersResend ==
    ASSUME TypeOK, TokensHaveMakers, NEW w \in Workers, OtpWrite(w)
    PROVE  TokensHaveMakers'
<1> DEFINE h == handlers[w]
           q == h.req
           n == Len(tokens[q])
<1>1. /\ q \in Requests
      /\ \A r \in Requests \ {q} : tokens'[r] = tokens[r]
      /\ n \in Nat
      /\ DOMAIN tokens[q] = 1..n
      /\ DOMAIN tokens'[q] = 1..(n + 1)
      /\ \A k \in 1..n : tokens'[q][k].used <=> (tokens[q][k].used \/ k \in h.stale)
    BY OtpWriteTokens
<1>2. /\ handlers'[w] = Idle
      /\ \A v \in Workers \ {w} : handlers'[v] = handlers[v]
      /\ h.step = "otp_write"
    BY DEF OtpWrite, Goto, At, TypeOK
<1>3. Open(tokens'[q]) \subseteq (Open(tokens[q]) \ h.stale) \cup {n + 1}
    <2>1. ASSUME NEW k \in Open(tokens'[q]), k # n + 1
          PROVE  k \in Open(tokens[q]) \ h.stale
        <3>1. k \in 1..(n + 1) /\ ~tokens'[q][k].used
            BY <1>1 DEF Open
        <3>2. k \in 1..n
            BY <1>1, <2>1, <3>1
        <3> QED
            BY <1>1, <3>1, <3>2 DEF Open
    <2> QED
        BY <2>1
<1>4. Idle.step # "otp_write"
    BY DEF Idle
<1>5. ASSUME NEW r \in Requests
      PROVE  \E maker : Makes(r, Open(tokens'[r]), handlers', maker)
    <2>1. PICK maker : Makes(r, Open(tokens[r]), handlers, maker)
        BY MakersNow
    <2>2. CASE r # q
        <3>1. tokens'[r] = tokens[r]
            BY <1>1, <2>2
        <3>2. ASSUME NEW k \in Open(tokens[r]), handlers'[maker[k]].step = "otp_write",
                     handlers'[maker[k]].req = r
              PROVE  k \in handlers'[maker[k]].stale
            <4>1. maker[k] \in Workers
                BY <2>1 DEF Makes
            <4>2. maker[k] # w
                BY <1>2, <1>4, <3>2
            <4> QED
                BY <1>2, <2>1, <3>2, <4>1, <4>2 DEF Makes
        <3> QED
            BY <2>1, <3>1, <3>2 DEF Makes
    <2>3. CASE r = q
        <3> DEFINE open == Open(tokens'[r])
                   fresh == [k \in open |-> IF k = n + 1 THEN w ELSE maker[k]]
        <3>1. \A k \in open : k # n + 1 => k \in Open(tokens[r]) /\ k \notin h.stale
            BY <1>3, <2>3
        <3> HIDE DEF open
        <3>2. fresh \in [open -> Workers]
            BY <2>1, <3>1 DEF Makes
        <3>3. ASSUME NEW k \in open, k # n + 1
              PROVE  maker[k] # w
            BY <1>2, <2>1, <2>3, <3>1, <3>3 DEF Makes
        <3>4. ASSUME NEW j \in open, NEW k \in open, fresh[j] = fresh[k]
              PROVE  j = k
            BY <2>1, <3>1, <3>3, <3>4 DEF Makes
        <3>5. ASSUME NEW k \in open, handlers'[fresh[k]].step = "otp_write",
                     handlers'[fresh[k]].req = r
              PROVE  k \in handlers'[fresh[k]].stale
            <4>1. fresh[k] # w
                BY <1>2, <1>4, <3>5
            <4>2. fresh[k] = maker[k] /\ k # n + 1
                BY <4>1
            <4>3. fresh[k] \in Workers
                BY <3>2
            <4>4. handlers'[fresh[k]] = handlers[maker[k]] /\ k \in Open(tokens[r])
                BY <1>2, <3>1, <4>1, <4>2, <4>3
            <4> QED
                BY <2>1, <3>5, <4>2, <4>4 DEF Makes
        <3>6. Makes(r, open, handlers', fresh)
            BY <3>2, <3>4, <3>5 DEF Makes
        <3> QED
            BY <3>6 DEF open
    <2> QED
        BY <2>2, <2>3
<1> QED
    BY <1>5, MakersNext

\* A thread that comes to its write has just seen every open token; no other step
\* brings a thread there.
LEMMA ResendsHaveSeen ==
    ASSUME TypeOK, [Next]_vars, NEW v \in Workers, handlers'[v].step = "otp_write"
    PROVE  \/ handlers'[v] = handlers[v]
           \/ Open(tokens[handlers'[v].req]) \subseteq handlers'[v].stale
<1>1. ASSUME NEW w \in Workers, NEW state, Goto(w, state), state.step # "otp_write"
      PROVE  handlers'[v] = handlers[v]
    BY <1>1 DEF Goto, TypeOK
<1>2. Idle.step # "otp_write"
    BY DEF Idle
<1>3. ASSUME NEW w \in Workers, Goto(w, Idle)
      PROVE  handlers'[v] = handlers[v]
    BY <1>1, <1>2, <1>3
<1>4. ASSUME UNCHANGED handlers
      PROVE  handlers'[v] = handlers[v]
    BY <1>4
<1>5. ASSUME NEW w \in Workers, OtpReadStale(w)
      PROVE  \/ handlers'[v] = handlers[v]
             \/ Open(tokens[handlers'[v].req]) \subseteq handlers'[v].stale
    <2> DEFINE h == handlers[w]
    <2>1. h \in [step : {"otp_stale", "otp_write"}, req : Requests, at : Time, stale : SUBSET Nat]
        BY <1>5, HandlerFields DEF OtpReadStale, At
    <2>2. /\ handlers' = [handlers EXCEPT ![w] =
                             [h EXCEPT !.step = "otp_write", !.stale = @ \cup Unused(h.req)]]
        BY <1>5 DEF OtpReadStale, Goto
    <2>3. CASE v # w
        BY <2>2, <2>3 DEF TypeOK
    <2>4. CASE v = w
        <3>1. handlers'[v] = [h EXCEPT !.step = "otp_write", !.stale = @ \cup Unused(h.req)]
            BY <2>2, <2>4 DEF TypeOK
        <3>2. handlers'[v].req = h.req /\ handlers'[v].stale = h.stale \cup Unused(h.req)
            BY <2>1, <3>1
        <3>3. Unused(h.req) = Open(tokens[h.req])
            BY DEF Unused, Open
        <3> QED
            BY <3>2, <3>3
    <2> QED
        BY <2>3, <2>4
<1>6. ASSUME NEW w \in Workers, OtpReadLatest(w)
      PROVE  handlers'[v] = handlers[v]
    <2> DEFINE r == handlers[w].req
               read == [step |-> "otp_stale", req |-> r, at |-> now,
                        stale |-> Unused(r) \cap {Len(tokens[r])}]
    <2>1. Goto(w, Idle) \/ Goto(w, read)
        BY <1>6 DEF OtpReadLatest
    <2>2. read.step # "otp_write"
        OBVIOUS
    <2> HIDE DEF read
    <2> QED
        BY <1>1, <1>3, <2>1, <2>2
<1>7. ASSUME NEW w \in Workers, SubmitReadNonce(w) \/ SubmitReadCertificate(w)
      PROVE  handlers'[v] = handlers[v]
    <2> DEFINE h == handlers[w]
    <2>1. h \in [step : {"submit_nonce", "submit_certificate", "submit_write"},
                 req : Requests, nonce : Requests, at : Time]
        BY <1>7, HandlerFields DEF SubmitReadNonce, SubmitReadCertificate, At
    <2>2. /\ [h EXCEPT !.step = "submit_certificate"].step # "otp_write"
          /\ [h EXCEPT !.step = "submit_write"].step # "otp_write"
        BY <2>1
    <2>3. \/ Goto(w, Idle)
          \/ Goto(w, [h EXCEPT !.step = "submit_certificate"])
          \/ Goto(w, [h EXCEPT !.step = "submit_write"])
        BY <1>7 DEF SubmitReadNonce, SubmitReadCertificate
    <2> QED
        BY <1>1, <1>3, <2>2, <2>3
<1>8. ASSUME NEW w \in Workers,
             \/ RevokeReadCertificate(w)
             \/ PrepareReadCertificate(w)
             \/ ConfirmCompareTotp(w)
             \/ \E ok \in BOOLEAN : ConfirmCompareEmailOtp(w, ok)
             \/ \E r \in Requests : OtpReadRequest(w, r) \/ ConfirmReadRequest(w, r)
             \/ \E r, n \in Requests : SubmitReadRequest(w, r, n)
      PROVE  handlers'[v] = handlers[v]
    BY <1>1, <1>8 DEF RevokeReadCertificate, PrepareReadCertificate, ConfirmCompareTotp,
        ConfirmCompareEmailOtp, OtpReadRequest, ConfirmReadRequest, SubmitReadRequest
<1>9. ASSUME NEW w \in Workers,
             \/ HandlerFails(w) \/ RevokeWrite(w) \/ OtpWrite(w) \/ ConfirmTokenRefused(w)
             \/ ConfirmWrite(w) \/ SubmitWrite(w) \/ SubmitTimestampRejected(w)
             \/ SubmitConflict(w) \/ \E r \in Requests : PrepareWrite(w, r)
      PROVE  handlers'[v] = handlers[v]
    BY <1>3, <1>9 DEF HandlerFails, RevokeWrite, OtpWrite, ConfirmTokenRefused, ConfirmWrite,
        SubmitWrite, SubmitTimestampRejected, SubmitConflict, PrepareWrite
<1>10. CASE Tick \/ UNCHANGED vars \/ \E r \in Requests : MarkExpired(r)
    BY <1>4, <1>10 DEF Tick, vars, MarkExpired
<1> QED
    BY <1>5, <1>6, <1>7, <1>8, <1>9, <1>10
    DEF Next, OtpRequestExpired, ConfirmExpired, SubmitRequestExpired, SubmitPayloadExpired, Expire

\* Every step keeps a maker of its own for each open token.
LEMMA MakersStep ==
    ASSUME TypeOK, TokensHaveMakers, [Next]_vars
    PROVE  TokensHaveMakers'
<1>1. ASSUME NEW w \in Workers, OtpWrite(w)
      PROVE  TokensHaveMakers'
    BY <1>1, MakersResend
<1>2. CASE \A w \in Workers : ~OtpWrite(w)
    <2>1. ASSUME NEW r \in Requests
          PROVE  Open(tokens'[r]) \subseteq Open(tokens[r])
        <3>1. DOMAIN tokens'[r] = DOMAIN tokens[r]
            <4>1. CASE \A w \in Workers : ~ConfirmWrite(w)
                BY <1>2, <4>1, TokensKept
            <4>2. ASSUME NEW w \in Workers, ConfirmWrite(w)
                  PROVE  DOMAIN tokens'[r] = DOMAIN tokens[r]
                BY <4>2, ConfirmWriteTokens
            <4> QED
                BY <4>1, <4>2
        <3> QED
            BY <3>1, UseStays DEF Open
    <2> QED
        BY <2>1, ResendsHaveSeen, MakersKept
<1> QED
    BY <1>1, <1>2

\* Every open token has a maker of its own, in every interleaving.
THEOREM OpenTokensHaveMakers == Spec => []TokensHaveMakers
<1>1. Init => TokensHaveMakers
    <2> SUFFICES ASSUME Init, NEW r \in Requests
                 PROVE  \E maker \in [Unused(r) -> Workers] : MadeBy(r, maker)
        BY DEF TokensHaveMakers
    <2>1. Unused(r) = {}
        BY DEF Init, Unused
    <2>2. [k \in Unused(r) |-> k] \in [Unused(r) -> Workers]
        BY <2>1
    <2> QED
        BY <2>1, <2>2 DEF MadeBy
<1>2. TypeOK /\ TokensHaveMakers /\ [Next]_vars => TokensHaveMakers'
    BY MakersStep
<1> QED
    BY <1>1, <1>2, TypeCorrect, PTL DEF Spec

\* The open tokens of a request are at most as many as there are threads, which is as
\* many resends as can run at the same time.
THEOREM OpenTokensBounded == Spec => []UnusedTokensBounded
<1>1. TokensHaveMakers => UnusedTokensBounded
    <2> SUFFICES ASSUME TokensHaveMakers, NEW r \in Requests
                 PROVE  Cardinality(Unused(r)) <= Cardinality(Workers)
        BY DEF UnusedTokensBounded
    <2>1. PICK maker \in [Unused(r) -> Workers] : MadeBy(r, maker)
        BY DEF TokensHaveMakers
    <2>2. maker \in Injection(Unused(r), Workers)
        BY <2>1 DEF MadeBy, Injection, IsInjective
    <2> QED
        BY <2>2, FS_Injection, ConstantsAssumption
<1> QED
    BY <1>1, OpenTokensHaveMakers, PTL
=============================================================================
