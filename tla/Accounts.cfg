SPECIFICATION Spec
CONSTANTS
    Accounts = {admin, signer}
    FirstAdmin = admin
    Seeds <- SeedsOf
    SyncSeededUsers = FALSE
    Roles = {"ADMIN", "SIGNER"}
    Workers = {w1, w2}
    MaxAttempts = 2
    MaxOtps <- OtpsOf
    Asks <- AskedFor
SYMMETRY Symmetry
INVARIANTS
    TypeOK
    SessionsPerCode
PROPERTIES
    SupersededCodeIsDead
    ChangesAreAskedFor
CHECK_DEADLOCK FALSE
