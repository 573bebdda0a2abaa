SPECIFICATION FairSpec
CONSTANTS
    s1 = s1
    s2 = s2
    s3 = s3
    r1 = r1
    r2 = r2
    c1 = c1
    c2 = c2
    Supervisors <- Two
    Requests = {r1, r2}
    Contents = {c1}
    Nobody = Nobody
    TakeCount = 2
    MaxEntries = 2
    PublishFaults <- AllFaults
    LockCanFail = TRUE
    Exclusive = TRUE
INVARIANTS
    TypeOK
    RequestExecutedOnce
    LedgerIsSound
PROPERTIES
    ClosedRunsAreFinal
    InvocationsEnd
CHECK_DEADLOCK FALSE
