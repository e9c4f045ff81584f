SPECIFICATION Spec
CONSTANTS
    Boots = {b1, b2}
    CoreFrames <- MCCore
    ListFrames <- MCList
    UiOps = {"confirm"}
    MqttOps = {"confirm"}
    Publishers = {"publish1"}
    MaxTries = 2
    MaxRev = 1
    MaxWire = 2
    Seqs <- MCSeqs
    Activities = {"loss"}
    b1 = b1
    b2 = b2
    None = None
INVARIANTS
    TypeOK
    SnapshotsAreWhole
SYMMETRY MCSymmetry
