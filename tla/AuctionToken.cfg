SPECIFICATION FairSpec
CONSTANTS
    alice = alice
    bob = bob
    dao = dao
    zero = zero
    house = house
    Zero = zero
    House = house
    Accounts <- TokenAccounts
    Refusers = {}
    Minters <- TokenMinters
    RewardTakers <- TokenRewardTakers
    Recipients <- TokenRecipients
    Owners <- TokenOwners
    Seeders = {"ok", "error", "panic"}
    Locks <- TokenLocks
    MaxNouns = 4
    RewardPeriod = 2
    LastReward = 2
    Endowment = 1
    Duration = 1
    TimeBuffers = {1}
    ReservePrices = {1}
    Percentages = {5}
    MaxTime = 3
INVARIANTS
    Custody
    UnpausedMeansLive
PROPERTIES
    LotNotLost
    AuctionsEnd
CHECK_DEADLOCK FALSE
