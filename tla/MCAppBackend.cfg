SPECIFICATION FairSpec
CONSTANTS
    u1 = u1
    r1 = r1
    r2 = r2
    Requests = {r1, r2}
    Users = {u1}
    bearer <- OneUser
    Redirecting = FALSE
    MaxRuns = 2
CHECK_DEADLOCK FALSE
INVARIANTS
    TypeOK
    NoneAbandoned
    JoinedIsListed
    RejectedIsRevoked
    Kept
PROPERTY
    StopsWhenTold
