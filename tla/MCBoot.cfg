\* Limits of two, so a step is late, fails and is spent in different attempts.
CONSTANTS
    ClassCount = 6
    Severe = {2}
    Critical = {1, 3, 4, 5, 6}
    Limit <- MCLimit
    LogOnly = {}
    LinkClass = 6
    InterruptClasses = {}
    CollectedClasses = {}
    ClearedClasses = {}
    ReentryLimit = 0
    MaxReports = 0
    MaxReentries = 0
    AddressLines = 2
    DataLines = 3
    StepFault <- MCStepFault
    Output = {"pump", "heater"}
    Device <- MCDevice
    Tier <- MCTier
    TierCount = 2
    Required <- MCRequired
    MaxAttempts = 3
SPECIFICATION BootSpec
INVARIANTS
    NothingBeforeSafe
    SuccessMeansWorking
    TerminalAfterRetries
    SuccessStartsClean
PROPERTIES
    BootEnds
