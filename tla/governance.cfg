SPECIFICATION FairSpec
CONSTANTS
    h1 = h1
    h2 = h2
    s1 = s1
    eve = eve
    Txs <- MCTxs
    Handlers <- MCHandlers
    Scanners <- MCScanners
    NoTx = NoTx
    NoRow = NoRow
    Versions = {v1}
    HumanOnly = {}
    Users = {ann, bob, eve}
    Submitters = {ann}
    Nobody = Nobody
    Routes <- MCRoutes
    QuorumAll <- MCQuorumAll
    Comments <- MCComments
    Findings <- MCFindings
    Late = {1}
    MaxReviews = 2
    MaxCalls = 4
    MaxFaults = 1
CHECK_DEADLOCK FALSE
INVARIANTS ChainUnbroken QuorumHonoured TrailComplete
PROPERTIES ImplementsBallot EveryRequestAnswered OverdueIsHandled
