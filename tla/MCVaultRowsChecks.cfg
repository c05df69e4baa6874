SPECIFICATION Spec
CONSTANTS
    i1 = i1
    i2 = i2
    c1 = c1
    c2 = c2
    c3 = c3
    c4 = c4
    Ids = {i1, i2}
    Calls = {c1, c2, c3, c4}
    ChecksConditions = TRUE
SYMMETRY Symmetric
CHECK_DEADLOCK FALSE
INVARIANT
    NeverRefused
