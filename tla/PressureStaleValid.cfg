SPECIFICATION Spec
CONSTANTS
    Boots = {1, 2}
    Readings <- MCReadings
    MaxSeq = 1
    MaxTime = 4
    MaxInbox = 1
    StaleMs = 2
    DwellMs = 2
    None = None
INVARIANT PublishedValidIsHonest
