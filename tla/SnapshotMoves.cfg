SPECIFICATION SceneSpec
CONSTANTS
    alice = alice
    bob = bob
    timelock = timelock
    zero = zero
    Zero = zero
    Timelock = timelock
    Accounts <- MCAccounts
    Vetoers <- MCVetoers
    Scenes = {"delay"}
    ActionLists <- MCActionLists
    AdminCalls <- MCAdminCalls
    Limits <- MCLimits
    InitialConfig <- MCInitialConfig
    InitialPower <- MCInitialPower
    InitialSupply = 10
    InitialAdmin = timelock
    Delays = {1, 2}
    GracePeriod = 1
    TimeSteps = {1, 2}
    LedgerBlocks = {2, 3, 5, 6}
    Supports = {0, 1, 2}
    Powers <- AnyPowers
    MaxProposals = 2
    MaxBlock = 9
INVARIANT VotesFromCreation
CHECK_DEADLOCK FALSE
