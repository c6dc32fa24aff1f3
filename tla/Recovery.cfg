\* Four blocks, one restart; the worker may have no state for block 2.
SPECIFICATION Spec
CONSTANTS
    None = None
    Unexecuted = {2}
    MaxHeight = 4
    MaxView = 1
    MaxRuns = 2
INVARIANT TypeOK
 
 
PROPERTY ChainStateKept
CHECK_DEADLOCK FALSE
