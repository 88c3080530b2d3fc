SPECIFICATION FairSpec
CONSTANTS
    r1 = r1
    r2 = r2
    a1 = a1
    a2 = a2
    Runs = {r1, r2}
    Workers = {w1, w2}
    Assets = {a1, a2}
    NoWorker = NoWorker
    NoRun = NoRun
    Priority <- MCPriority
    Plan <- MCShortPlan
    Resolvable = {r1, r2}
    Tags <- MCTags
    Resources <- MCResources
    Capacity <- MCTight
    RetryMax <- MCRetryMax
    Gating = TRUE
    Units <- MCUnits
    MaxCrashes = 1
    MaxDbFaults = 0
    MaxStalls = 0
CHECK_DEADLOCK FALSE
INVARIANTS TypeOK InFlightReapable ExclusiveExecution ConcurrencyHonoured EventsMatchRows
PROPERTIES EveryRunSettles
