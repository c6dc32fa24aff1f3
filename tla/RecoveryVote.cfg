\* Votes, a view change and one restart.
SPECIFICATION Spec
CONSTANTS
    None = None
    Unexecuted = {}
    MaxHeight = 3
    MaxView = 1
    MaxRuns = 2
INVARIANT VoteOnce
CHECK_DEADLOCK FALSE
