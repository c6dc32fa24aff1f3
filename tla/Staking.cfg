SPECIFICATION Spec
CONSTANTS
    Accounts = {staker, delegator}
    Nodes = {n1}
    Stakers = {staker}
    NoOne = NoOne
    Plans <- OnePlan
    MaxEpoch = 4
    EpochSize = 2
    OperatingThreshold = 1
    UnStakeFreeze = 2
    ZeroProduceFreeze = 1
    SlashBlocksReward = 1
    FractionDenominator = 2
    MaxEndVoteEpoch = 0
    Balance = 3
    Genesis <- GenesisPlans
    YearEnd = 2
    Amounts = {1, 2}
    StakeThreshold = 2
    Thresholds = {1}
    MaxTxs = 4
INVARIANTS FundsBacked AdvanceAccounted PlansSound PowerExact SharesExact ItemsExact RcExact VerifiersAtStake 
CHECK_DEADLOCK FALSE
