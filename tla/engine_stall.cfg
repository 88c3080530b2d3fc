SPECIFICATION Spec
CONSTANTS
    r1 = r1
    r2 = r2
    a1 = a1
    a2 = a2
    Runs = {r1, r2}
    Workers = {w1, w2}
    Assets = {a1, a2}
    NoWorker = NoWorker
    NoRun = NoRun
    Priority <- MCPriority
    Plan <- MCPlan
    Resolvable = {r1}
    Tags <- MCTags
    Resources <- MCMeagre
    Capacity <- MCTight
    RetryMax <- MCNoRetry
    Gating = FALSE
    Units <- MCUnits
    MaxCrashes = 0
    MaxDbFaults = 1
    MaxStalls = 1
CHECK_DEADLOCK FALSE
SYMMETRY WorkerSymmetry
INVARIANTS OneResetPerClaim SucceededMeansCommitted
PROPERTIES ImplementsLifecycle
