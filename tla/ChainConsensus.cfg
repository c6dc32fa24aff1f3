\* Four validators, one of them faulty; two forks, one of them three blocks long.
CONSTANTS
    v1 = v1 v2 = v2 v3 = v3 v4 = v4
    g = g a1 = a1 b1 = b1 a2 = a2 b2 = b2 a3 = a3
    Node = {v1, v2, v3, v4}
    Faulty = {v4}
    Block = {g, a1, b1, a2, b2, a3}
    Genesis = g
    parent <- MCParent
    number <- MCNumber
SPECIFICATION Spec
SYMMETRY HonestSymmetry
INVARIANTS Agreement IInv
PROPERTY ImplementsLedger
