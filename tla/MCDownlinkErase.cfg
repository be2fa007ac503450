\* A record counted as transferred whose bytes were overwritten in the staging buffer.
CONSTANTS
    LinkLimit = 2
    Depth = 2
    PacketBytes = 3
    Overhead = 1
    OutClass = {"raw", "event"}
    Priority <- MCPriority
    Capacity = 2
    RecordLens = {1, 3}
    RecordClass = {"raw"}
    StageBytes = 2
    MaxStored = 3
    EventClass = "event"
    EventLens = {1, 3}
    MaxSubmitted = 4
SPECIFICATION Spec
PROPERTY ErasesNothingUnsent
