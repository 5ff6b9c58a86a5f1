SPECIFICATION Spec
CONSTANTS
    alice = alice
    bob = bob
    dao = dao
    zero = zero
    house = house
    Zero = zero
    House = house
    Accounts <- BidAccounts
    Refusers <- BidAccounts
    Minters = {}
    RewardTakers <- BidRewardTakers
    Recipients = {}
    Owners <- BidOwners
    Seeders = {"ok"}
    Locks = {}
    MaxNouns = 2
    RewardPeriod = 2
    LastReward = 0
    Endowment = 3
    Duration = 1
    TimeBuffers = {0, 2}
    ReservePrices = {0}
    Percentages = {50}
    MaxTime = 4
INVARIANTS
    Escrow
PROPERTIES
    BidsLeaveTimeToAnswer
    SellsFairly
CHECK_DEADLOCK FALSE
