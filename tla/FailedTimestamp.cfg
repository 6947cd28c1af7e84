SPECIFICATION Spec
CONSTANTS
    Requests = {r1}
    Workers = {w1, w2}
    RequestTtl = 3
    OtpTtl = 1
    OtpCooldown = 1
    MaxAttempts = 1
    CertNotAfter = 1
    MaxTime = 2
    MaxTokens = 1
SYMMETRY Symmetry
INVARIANTS
    AcceptedIsRecorded
CHECK_DEADLOCK FALSE
