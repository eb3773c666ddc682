SPECIFICATION Spec
CONSTANTS
    Width = 4
    Q = 13
    ByteBits = 2
    H = 1
    Roots <- MCRoots
    Derived <- MCDerived
    Leaves <- MCLeaves
    Deal <- MCDeal
    Shifts = {1, 13}
INVARIANTS TypeOK MaskedRight PointRight ReleasedRight
CHECK_DEADLOCK FALSE
