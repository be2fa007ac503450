\* Not among the runs of PROJECT.json: a stall whose flag has not gone out.
CONSTANTS
    ClassCount = 4
    Severe = {1}
    Critical = {2, 3, 4}
    Limit <- MCLimit
    LogOnly = {}
    LinkClass = 2
    InterruptClasses = {4}
    CollectedClasses = {}
    ClearedClasses = {}
    ReentryLimit = 1
    MaxReports = 4
    MaxReentries = 2
    StageCount = 4
    StageFault <- MCStageFault
    NamedFaults <- MCNamedFaults
    Budgeted = {1}
    Registered = {1, 2, 3, 4}
    SpadStage = 2
    TimeoutClass = 2
    TaskClasses = {4}
SPECIFICATION MissionSpec
INVARIANT EveryStallIsFlagged
