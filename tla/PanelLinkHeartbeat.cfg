SPECIFICATION Spec
CONSTANTS
    Boots = {b1}
    CoreFrames <- MCNoFrames
    ListFrames <- MCNoFrames
    UiOps = {}
    MqttOps = {}
    Publishers = {"publish1", "publish2", "publish3", "publish4"}
    MaxTries = 1
    MaxRev = 4
    MaxWire = 1
    Seqs <- MCSeqs
    Activities = {"heartbeat", "loss", "delay", "failure"}
    b1 = b1
    None = None
INVARIANTS
    OnlineAgrees
PROPERTIES
    RevisionCountsChanges
