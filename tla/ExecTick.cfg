\* Wraps both counters (ticks at 5, majors at 5), lets an overrun pass two
\* boundaries at once and ends after MaxTicks interrupts.
CONSTANTS
    MinorPerMajor = 2
    CounterModulus = 5
    MaxTicks = 13
SPECIFICATION ExecFairSpec
INVARIANTS
    NoTickLost
    SlotPhaseLocked
    BoundaryReachesLoop
PROPERTIES
    BoundaryServed
