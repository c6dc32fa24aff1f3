\* Two honest validators whose timeouts and deliveries interleave freely; a fork at both heights.
CONSTANTS
    g = g a1 = a1 b1 = b1 a2 = a2 b2 = b2
    N = 2
    Faulty = {}
    Block = {g, a1, b1, a2, b2}
    Genesis = g
    parent <- TreeParent
    number <- TreeNumber
    MaxView = 1
    None = None
SPECIFICATION Spec
PROPERTIES  ImplementsChainConsensus
CHECK_DEADLOCK FALSE
