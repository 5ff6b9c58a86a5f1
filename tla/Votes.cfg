SPECIFICATION Spec
CONSTANTS
    alice = alice
    bob = bob
    zero = zero
    Zero = zero
    Accounts <- MCAccounts
    Signers <- MCSigners
    Delegatees <- MCDelegatees
    MaxNouns = 2
    MaxBlock = 4
    Expiries = {3}
    MaxNonce = 0
INVARIANTS
    NoVoteFromNowhere
    NoVoteLost
    PriorVotesExact
    NoReplay
CHECK_DEADLOCK FALSE
