SPECIFICATION FairSpec
CONSTANTS
    Procs = {p1, p2}
    p1 = p1
    p2 = p2
    s1 = s1
    s2 = s2
    s3 = s3
    x1 = x1
    x2 = x2
    k0 = k0
    k1 = k1
    j1 = j1
    b1 = b1
    Nobody = Nobody
    NoCron = NoCron
    NoSlot = NoSlot
    NoKey = NoKey
    Schedules = {}
    Sensors = {x1, x2}
    Backfills = {}
    Slots = {k0, k1}
    RunKeys = {j1}
    StartTime = 1
    MaxTime = 3
    MaxCrashes = 0
    MaxDbFaults = 1
    DisableAfter = 2
    Skew <- MCBehind
    CronOf <- MCCron
    Known <- MCVersions
    FireSlot <- MCFireSlot
    DatedKeys <- MCDated
    KeySlot <- MCKeySlot
    Fallback <- MCFallback
    MinInterval <- MCInterval
    Cooldown <- MCCooldown
    Specs <- MCSpecs
    Horizon <- MCHorizon
INVARIANTS SensorRunsSpaced FailingSensorStops
PROPERTIES DueSensorHandled
CHECK_DEADLOCK FALSE
