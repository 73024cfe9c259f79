SPECIFICATION Spec
CONSTANTS
    d1 = d1
    d2 = d2
    Requests <- Together
    Threads = {t1}
    Domains = {d1, d2}
    Ids <- TwoIds
    Orders <- TwoSlots
    Gone = Gone
    None = None
    Oldest = "expiring"
    MaxMishaps = 0
    MaxMoves = 0
INVARIANT ChallengesHaveOrders
PROPERTIES
    ChallengesCleanedByOwner
    ImplementsCoverage
SYMMETRY DomainSymmetry
