\* Both channels with both slots; the trace needs one channel and one event.
CONSTANTS
    Channels = 2
    RawSlots = 2
    Others = 1
    Bytes = 2
    EventDepth = 3
SPECIFICATION PathSpec
INVARIANT RaceIsRefused
