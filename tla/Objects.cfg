SPECIFICATION Spec
CONSTANTS
    Request = {r1, r2, r3}
    Object = {o1, o2}
    Schema <- MCSchema
    BootSchema <- FirstSchema
    Content <- MCContent
    Batch <- MCBatch
    Asked <- MCAsked
    None = None
INVARIANTS
    TypeOK
    OneDeleteSucceeds
    ReportMatchesRows
    RowsAreValid
    ReadsAreRegular
PROPERTIES
    DeletedIsFinal
SYMMETRY Symmetry
CHECK_DEADLOCK TRUE
