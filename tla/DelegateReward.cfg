SPECIFICATION Spec
CONSTANTS
    Delegators = {a1, a2}
    Amounts = {1, 2}
    OperatingThreshold = 1
    PackageReward = 9
    StakingReward = 12
    RewardPer = 5000
    OtherRewards = 4
    MaxDelegated = 2
    MaxCurrent = 4
    MaxEpoch = 4
SYMMETRY Symmetry
INVARIANTS TotalsExact LeftExact PaidExactly PoolSolvent
CHECK_DEADLOCK FALSE
