\* A gap event taken one slot before the bytes it follows.
CONSTANTS
    FrameLen = 3
    RingBytes = 4
    ChunkBytes = 2
    EventDepth = 2
    MaxFrames = 2
    MaxTraffic = 5
    Counts = 3
    MaxTampered = 1
SPECIFICATION Spec
INVARIANT GapAbandonsPartsOnly
