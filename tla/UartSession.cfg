SPECIFICATION Spec
CONSTANTS
    Boots = {b1, b2}
    Payloads = {p1, p2}
    CacheSize = 2
    SeqMax = 3
    MaxFrames = 4
    MaxWire = 2
    MaxEffects = 4
    MaxRestarts = 1
    b1 = b1
    b2 = b2
    p1 = p1
    p2 = p2
    None = None
INVARIANTS
    TypeOK
PROPERTIES
    RepeatsAreRemembered
    
    
SYMMETRY MCSymmetry
\* The panel has nothing more to send.
CHECK_DEADLOCK FALSE
