SPECIFICATION Spec
CONSTANTS
    Requests = {r1}
    Workers = {w1, w2}
    RequestTtl = 2
    OtpTtl = 1
    OtpCooldown = 1
    MaxAttempts = 2
    CertNotAfter = 1
    MaxTime = 1
    MaxTokens = 3
SYMMETRY Symmetry
INVARIANTS
    UnusedTokensBounded
PROPERTIES
    TokenUseIsPermanent
CHECK_DEADLOCK FALSE
