SPECIFICATION FairSpec
CONSTANTS
    Masks = {"hash", "redact"}
    None = None
    Workers = {w1, w2}
    MaxAttempts = 2
    MaxChanges = 2
    MaxJobs = 1
    MaxFaults = 1
    MaxRedeploys = 0
    MaxSteps = 0
CHECK_DEADLOCK FALSE
PROPERTIES MaskEventuallyEnforced
