\* Two requests at a time over two classes, one session with a seat, two signups
\* of one or two people and one request for a class, two of these three at most.
CONSTANTS
    Clients = {c1, c2}
    ClassIds = {k1, k2}
    SessionIds = {s1}
    SignupIds = {u1, u2}
    RequestIds = {q1}
    Slugs = {a, b}
    Capacities = {1}
    MaxParty = 2
    Null = Null
    Unborn = Unborn
    Deleted = Deleted
SPECIFICATION Spec
INVARIANTS TypeOK NoOrphans OverbookingBounded
PROPERTIES RosterMatchesPage CancellationSticks ErrorsNeedARace
CONSTRAINT Bounded
SYMMETRY Symmetry
