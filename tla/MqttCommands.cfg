SPECIFICATION Spec
CONSTANTS
    Ids = {r1, r2}
    Bodies = {b1}
    Times = {0, 1}
    Ttls = {1, 2}
    RetryWindow = 1
    MaxTime = 6
    MaxEffects = 3
    MaxInterruptions = 1
    r1 = r1
    r2 = r2
    b1 = b1
    None = None
INVARIANTS
    TypeOK
    ExecutesOnce
PROPERTIES
    IdsAreNotShared
    AnswersOnce
