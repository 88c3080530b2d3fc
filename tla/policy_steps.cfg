SPECIFICATION Spec
CONSTANTS
    Masks = {"hash", "redact"}
    None = None
    Workers = {w1}
    MaxAttempts = 1
    MaxChanges = 2
    MaxJobs = 1
    MaxFaults = 1
    MaxRedeploys = 1
    MaxSteps = 1
CHECK_DEADLOCK FALSE
INVARIANTS StepFollowsPolicy
