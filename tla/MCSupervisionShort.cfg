\* Not among the runs of PROJECT.json: the image of an earlier build keeps an illegal
\* value.
CONSTANTS
    Param = {"hk", "budget"}
    Value = {1, 2, 3}
    Legal <- MCLegal
    Default <- MCDefault
    InFlight = {"hk"}
    Short = {"budget"}
    MonitorCount = 3
    Period <- MCPeriod
    Tolerance <- MCTolerance
    Gating = {1, 2}
    Timeout = 3
    AgeBound = 2
    PeriodParam = "hk"
    Timing = 1
    Integrity = 2
    MaxExtra = 1
    MaxUpsets = 2
SPECIFICATION Spec
INVARIANT IllegalIsGone
