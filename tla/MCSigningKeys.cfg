SPECIFICATION Spec
CONSTANTS
    local = local
    kms = kms
    kit = kit
    a1 = a1
    a2 = a2
    Processes = {local, kms, kit}
    Notary <- Kinds
    Audiences = {a1, a2}
    MaxRuns = 2
    MaxSigned = 2
    MaxFetched = 2
    MaxTime = 1
CHECK_DEADLOCK FALSE
INVARIANTS
    GenuineVerifies
