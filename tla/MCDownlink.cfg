\* Two entries and two records: the queue fills, is freed out of order and refilled;
\* a store is transferred, cleared and used again.  One length fits no packet.
CONSTANTS
    LinkLimit = 2
    Depth = 2
    PacketBytes = 3
    Overhead = 1
    OutClass = {"raw", "event"}
    Priority <- MCPriority
    Capacity = 2
    RecordLens = {1, 3}
    RecordClass = {"raw"}
    StageBytes = 2
    MaxStored = 3
    EventClass = "event"
    EventLens = {1, 3}
    MaxSubmitted = 3
SPECIFICATION Spec
INVARIANTS
    QueueConserved
    ErasableWasQueued
PROPERTIES
    TransferEnds
