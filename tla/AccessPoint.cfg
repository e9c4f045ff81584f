SPECIFICATION FairSpec
CONSTANTS
    Freqs = {2412, 2437, 5180}
    StaWait = 1
    RestartSec = 1
    Interval = 10
    Burst = 3
    MaxMoves = 3
    MaxFaults = 2
    None = None
INVARIANTS
    TypeOK
    RulesAreOwned
    GivesUpForAReason
PROPERTIES
    Settles
