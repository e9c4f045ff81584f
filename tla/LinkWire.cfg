SPECIFICATION Spec
CONSTANTS
    Frames <- MCFrames
    MaxFrames = 2
    MaxBlock = 3
    Chunks = {9, 64}
    Noise = {0, 4}
    MaxNoise = 2
INVARIANTS
    TypeOK
    OnlySentFrames
    IntactFramesArrive
\* The panel has sent everything and the line is empty.
CHECK_DEADLOCK FALSE
