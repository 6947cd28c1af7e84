SPECIFICATION Spec
CONSTANTS
    Requests = {r1, r2}
    Workers = {w1, w2}
    RequestTtl = 2
    OtpTtl = 1
    OtpCooldown = 1
    MaxAttempts = 1
    CertNotAfter = 2
    MaxTime = 3
    MaxTokens = 0
SYMMETRY Symmetry
INVARIANTS
    TypeOK
    AtMostOneSignature
    SignatureIsConfirmedInTime
    NoSignatureAfterRevocation
    StoredAcceptedUnlessExpired
PROPERTIES
    ImplementsProtocol
CHECK_DEADLOCK FALSE
