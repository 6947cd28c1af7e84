SPECIFICATION Spec
CONSTANTS
    Workers = {w1, w2}
    MaxKeys = 12
    MaxFaults = 2
INVARIANTS
    TypeOK
    UpIsConsistent
    SignedStaysVerifiable
    PdfVerifies
PROPERTIES
    ComesUp
