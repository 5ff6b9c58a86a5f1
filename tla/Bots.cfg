SPECIFICATION Spec
CONSTANTS
    MaxAuction = 2
    Txs = {1, 2}
    MaxBlock = 2
    MaxBids = 2
    Null = null
    Ticks = {1, 2}
    MaxTroubles = 1
    Proposals = {1}
    Voters = {"ann", "eve"}
    Weightless = {"eve"}
    GovernanceTicks = {1, 2}
    MaxMishaps = 1
    MaxRaces = 1
INVARIANTS
    NeverToldTwice
    NothingSkipped
    ToldBeforeStored
    NoVoteSkipped
PROPERTIES
    CachesCatchUp
CHECK_DEADLOCK FALSE
