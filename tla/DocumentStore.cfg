SPECIFICATION Spec
CONSTANTS
    n1 = n1
    n2 = n2
    c1 = c1
    c2 = c2
    Documents = {d1, d2}
    Names <- MCNames
    Contents <- MCContents
    Uploads <- MCUploads
    Workers = {w1, w2}
SYMMETRY Symmetry
INVARIANTS
    TypeOK
    FilesBeforeRows
    VersionsFollowSigned
    RowIsOneUpload
CHECK_DEADLOCK FALSE
