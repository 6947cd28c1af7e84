SPECIFICATION Spec
CONSTANTS
    Workers = {w1, w2}
    Values = {logged, other}
    Logged = logged
    MaxEvents = 3
    MaxEdits = 3
SYMMETRY Symmetry
INVARIANTS
    TypeOK
    EditIsReported
    ExtendsCommitted
    BreakHasCause
    ExportShowsChecked
PROPERTIES
    BreakIsPermanent
CHECK_DEADLOCK FALSE
