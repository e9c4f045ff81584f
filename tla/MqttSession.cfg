SPECIFICATION FairSpec
CONSTANTS
    Helpers = {"one", "two"}
    MaxBoots = 2
    MaxRev = 2
    MaxLosses = 2
    None = None
INVARIANTS
    TypeOK
    DocumentIsCurrent
    AvailabilityIsHonest
PROPERTIES
    Recovers
\* The program may have ended for good.
CHECK_DEADLOCK FALSE
