SPECIFICATION Spec
CONSTANTS
    Clients = {c1, c2}
    Calls = {a, b, c}
    Limit = 2
    Window = 3
INVARIANTS
    TypeOK
PROPERTIES
    ImplementsSlidingWindow
    Unblocks
