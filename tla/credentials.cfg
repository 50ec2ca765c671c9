\* Three connections at a time over two rotations.
CONSTANTS
    Connections = {c1, c2, c3}
    Rotations = 2
    Null = Null
SPECIFICATION FairSpec
INVARIANTS TypeOK RefusalNeedsRotation
PROPERTIES NewestWins EveryCallReturns NeverWedged
