SPECIFICATION Spec
CONSTANTS
    c1 = c1
    c2 = c2
    e1 = e1
    e2 = e2
    bad = bad
    Calls = {c1, c2}
    Entries = {e1, e2, bad}
    Unencodable = {bad}
    None = None
    MaxAttempts = 2
SYMMETRY Symmetric
CHECK_DEADLOCK FALSE
INVARIANTS
    TypeOK
    OkIsStored
    ShownOnce
PROPERTY
    ImplementsLedger
