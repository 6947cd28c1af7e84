SPECIFICATION Spec
CONSTANTS
    N = 15
    E = 3
    D = 3
    Sessions = {s1}
    Workers = {w1, w2}
    Messages = {1, 2, 5, 6, 14}
    Ttl = 1
    MaxTime = 2
SYMMETRY Symmetry
INVARIANTS
    UnblindedVerifies
    RedeemsSignedToken
PROPERTIES
    RedeemedOnlyByOverlap
CHECK_DEADLOCK FALSE
