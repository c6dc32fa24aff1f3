\* One honest validator; nothing is assumed of the other one, the proposer of block 1.
CONSTANTS
    g = g a1 = a1 b1 = b1 a2 = a2 b2 = b2
    N = 2
    Faulty = {0}
    Block = {g, a1, b1, a2}
    Genesis = g
    parent <- TreeParent
    number <- TreeNumber
    MaxView = 1
    None = None
SPECIFICATION Spec
INVARIANTS TypeOK NoDoubleVote TreeIsPath PreCommitBacked
PROPERTY RoundsAdvance
CHECK_DEADLOCK FALSE
