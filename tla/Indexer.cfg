SPECIFICATION Spec
CONSTANTS
    alice = alice
    bob = bob
    treasury = treasury
    zero = zero
    null = null
    Zero = zero
    Null = null
    Creator = treasury
    Accounts <- MCAccounts
    Recipients <- MCRecipients
    Ids = {1}
    MaxNouns = 2
    MaxTx = 6
INVARIANTS
    HoldingsFollow
    VotesFollow
    ProposalsFollow
    ListedOnce
CHECK_DEADLOCK FALSE
