\* One channel with its pair of slots, and one region that is not raw.  Three queued
\* completions for two slots: stale ones collect and the interrupt queue overflows.
CONSTANTS
    Channels = 1
    RawSlots = 2
    Others = 1
    Bytes = 2
    EventDepth = 3
SPECIFICATION PathSpec
INVARIANTS
    ReadsWholeOnly
    NoSlotLeaked
PROPERTIES
    FinishedIsOffered
