SPECIFICATION FairSpec
CONSTANTS
    r1 = r1
    r2 = r2
    c1 = c1
    c2 = c2
    Runs = {r1}
    Clients = {c1, c2}
    NoClient = NoClient
    Tags <- MCTags
    Capacity <- MCCapacity
    Units = {1, 2, 3}
    Weights <- MCWeights
INVARIANTS CapacityRespected
PROPERTIES AcquireAnswers ImplementsAtomicPool
CHECK_DEADLOCK FALSE
