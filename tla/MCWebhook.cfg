SPECIFICATION Spec
CONSTANTS
    s1 = s1
    s2 = s2
    w1 = w1
    w2 = w2
    u1 = u1
    u2 = u2
    b = b
    c = c
    padded = padded
    blank = blank
    Senders = {s1, s2}
    Workers = {w1, w2}
    Pieces <- MCPieces
    Empty = Empty
    LTrim <- MCLTrim
    RTrim <- MCRTrim
    Uuids = {u1, u2}
    CallerNonces <- MCCallerNonces
    HeaderTexts <- MCHeaderTexts
    Stamps <- MCStamps
    Bodies <- MCBodies
    Secret = Secret
    OtherSecret = OtherSecret
    Absent = Absent
    Malformed = Malformed
    Freshness = 1
    Stall = 1
    Retention = 3
    HalfRange = 16
    MaxTime = 5
    MaxIssued = 2
    MaxEvents = 3
SYMMETRY Symmetric
CHECK_DEADLOCK FALSE
INVARIANTS
    TypeOK
    NoReplay
    OnlyRepeatsDropped
    OkIsAuthentic
    OkIsFresh
    FreshGenuineAccepted
    TimestampErrorsAreAuthentic
PROPERTY
    ImplementsInbox
