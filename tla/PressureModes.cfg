SPECIFICATION FairSpec
CONSTANTS
    Boots = {1, 2}
    Readings <- MCReadings
    MaxSeq = 1
    MaxTime = 2
    MaxInbox = 1
    StaleMs = 1
    DwellMs = 1
    None = None
INVARIANTS
    TypeOK
    HandledIsApplied
    DwellIsGrounded
    TrackerAgrees
PROPERTIES
    NightIsEarned
    SamplesMoveForward
    LossIsNoticed
    DwellCompletes
