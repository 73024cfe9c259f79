SPECIFICATION Spec
CONSTANTS
    d1 = d1
    d2 = d2
    h1 = h1
    h2 = h2
    Threads = {t1, t2}
    Domains = {d1, d2}
    Hashes = {h1, h2}
    Projects <- TwoProjects
    Services <- TwoServices
    Applies <- SmallNeighbours
    Ids <- ThreeIds
    Ports <- OnePort
    NoPort = 0
    Gone = Gone
    NoRoute = NoRoute
    None = None
    NotSaved = NotSaved
    AcmeConfigured = TRUE
    MaxMishaps = 1
    ExitsMidway = TRUE
PROPERTY OthersUntouched
SYMMETRY ThreadSymmetry
