SPECIFICATION Spec
CONSTANTS
    Workers = {w1, w2, w3}
    KeyIsStable = FALSE
    MaxSecrets = 3
    MaxRestarts = 1
SYMMETRY Symmetry
INVARIANTS
    TypeOK
PROPERTIES
    EnabledIsProved
CHECK_DEADLOCK FALSE
