SPECIFICATION ReportedSpec
CONSTANTS
    alice = alice
    bob = bob
    treasury = treasury
    zero = zero
    null = null
    Zero = zero
    Null = null
    Creator = treasury
    Accounts <- FewAccounts
    Recipients <- OneRecipient
    Ids = {1}
    MaxNouns = 4
    MaxTx = 9
INVARIANT
    GovernanceReported
CHECK_DEADLOCK FALSE
