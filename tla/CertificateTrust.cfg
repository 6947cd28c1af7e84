SPECIFICATION Spec
CONSTANTS
    Packages = {p1}
    Workers = {w1, w2, w3}
    NotAfter = 2
    MaxTime = 3
    MaxRevocations = 3
SYMMETRY Symmetry
INVARIANTS
    TypeOK
    EarlierSignatureStaysValid
    UnprovenTimeIsRevoked
    CrlAgreesWithVerification
PROPERTIES
    RejectionStands
CHECK_DEADLOCK FALSE
