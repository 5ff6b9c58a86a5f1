SPECIFICATION Spec
CONSTANTS
    Null = null
    MaxNoun = 3
    MaxBids <- MCMaxBids
    RewardEvery = 2
    Links = {1, 4}
    Ours = {1}
    HistoryMax = 1
    Users = {u1}
    Rival = rival
    Duration = 3
    TimeBuffer = 2
    FinalStretch = 2
    SlowPoll = 2
    SettleAfter = 0
    MaxAmount = 2
    MaxTime = 3
    MaxAuctions = 2
    MaxBidTx = 2
    Addresses = {"token", "treasury"}
    Functions = {"mint(uint256)", "send(address,uint256)"}
    ABIs <- MCABIs
    Published <- MCPublished
    Inputs <- MCInputs
    MaxDraft = 1
    MaxProposals = 2
    MaxLogBlock = 4
    MaxListeners = 2
    StartBlock = 1
    EndBlock = 3
    BlockTime = 3
    Lags = {0, 1, 2}
    MaxBlock = 5
    MaxVoteTx = 2
    Shipped <- MCShipped
    Uploadable = {"head", "glasses"}
    DefaultTitle = "head"
    UserFiles = {"mine", "yours", "large"}
    ValidFiles = {"mine", "yours"}
    Random = "Random"
    NoFile = "none"
    MaxUploads = 2
    SUPPORTED_LOCALES = {"en-US", "ja-JP"}
    DEFAULT_LOCALE = "en-US"
    Browsers = {"en-US", "ja-JP", "fr-FR"}
INVARIANTS
    PageCatchesUp
    PanelTellsTruth
    DraftEncodes
    LogsFollow
    VoteTold
    OfferIsOpen
    DrawnAsSelected
    LanguageAsChosen
CHECK_DEADLOCK FALSE
