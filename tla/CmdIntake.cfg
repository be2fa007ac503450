\* A frame crosses a chunk and a cycle, ring and event queue overflow, counts wrap,
\* and one header on the line may be damaged.
CONSTANTS
    FrameLen = 3
    RingBytes = 4
    ChunkBytes = 2
    EventDepth = 2
    MaxFrames = 2
    MaxTraffic = 5
    Counts = 3
    MaxTampered = 1
SPECIFICATION Spec
INVARIANTS
    OneResultEach
    IntactKept
    OneGapPerLoss
    DisturbanceEnds
PROPERTIES
    ImplementsCommandService
