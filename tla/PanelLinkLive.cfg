SPECIFICATION FairSpec
CONSTANTS
    Boots = {b1}
    CoreFrames <- MCCore
    ListFrames <- MCList
    UiOps = {"resync"}
    MqttOps = {}
    Publishers = {"publish1"}
    MaxTries = 1
    MaxRev = 1
    MaxWire = 2
    Seqs <- MCSeqs
    Activities = {"evaluate"}
    b1 = b1
    None = None
PROPERTIES
    SyncsEnd
