SPECIFICATION Spec
CONSTANTS
    Tasks = {t1, t2}
    Notices = {n1}
    Expiring = {n1}
    LeftBehind = {"pending", "failed"}
    NoticesLeft = {"active"}
    MaxRequests = 2
    MaxFaults = 1
    MaxRestarts = 1
    t1 = t1
    t2 = t2
    n1 = n1
INVARIANTS
    TypeOK
    DecidedOnce
    GapsAreInterruptions
    AcknowledgedIsDurable
    ShownIsCurrent
CHECK_DEADLOCK FALSE
SYMMETRY MCSymmetry
