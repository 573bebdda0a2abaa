SPECIFICATION Spec
CONSTANTS
    s1 = s1
    s2 = s2
    s3 = s3
    r1 = r1
    r2 = r2
    c1 = c1
    c2 = c2
    Supervisors <- Two
    Requests = {r1, r2}
    Contents = {c1, c2}
    Nobody = Nobody
    TakeCount = 2
    MaxEntries = 1
    PublishFaults <- AllFaults
    LockCanFail = TRUE
    Exclusive = FALSE
SYMMETRY Symmetric
INVARIANTS
    RuntimesAreAccountedFor
    OutcomesAreTrue
CHECK_DEADLOCK FALSE
