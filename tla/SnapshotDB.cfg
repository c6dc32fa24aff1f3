CONSTANTS
    Keys <- MCKeys
    Program <- MCProgram
    ZeroHash = ZeroHash
    Free = Free
    walChSize = 1
    kvLIMIT = 1
    MaxBlockCompaction = 2
    MaxBlockTriggerCompaction = 2
    MaxBlockNotCompactionSync = 2
    UnBlockNeedClean = 1
    CrashPoints = {"between"}
    OwnNumbers = {2}
    MaxNumber = 3
    MaxRestarts = 1
SPECIFICATION FairSpec
INVARIANTS GetExact RankingExact ReadExact CompactedDurable StartSucceeds
PROPERTIES ImplementsStore DecidedDurable
CHECK_DEADLOCK FALSE
