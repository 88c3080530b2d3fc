SPECIFICATION FairSpec
CONSTANTS
    Procs = {p1}
    Assets = {a1, a2}
    Workers = {w1}
    Buffer = 1
    MaxAttempts = 2
    MaxJobs = 2
    MaxFaults = 1
    None = None
PROPERTIES EveryNotificationSettles StaleIsTold
