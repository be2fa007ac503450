\* The link's own class lies between the other two in the order of the pass.
CONSTANTS
    ClassCount = 3
    Severe = {1}
    Critical = {2, 3}
    Limit <- MCLimit
    LogOnly = {}
    LinkClass = 2
    InterruptClasses = {1, 3}
    CollectedClasses = {3}
    ClearedClasses = {1, 3}
    ReentryLimit = 1
    MaxReports = 3
    MaxReentries = 2
SPECIFICATION Spec
INVARIANTS
    CountIsExact
    ClassifiedOnce
    ElevatedAtLimit
PROPERTIES
    LimitEscalates
