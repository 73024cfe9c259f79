SPECIFICATION OrderlySpec
CONSTANTS
    d1 = d1
    d2 = d2
    h1 = h1
    h2 = h2
    Threads = {t1, t2}
    Domains = {d1, d2}
    Hashes = {h1, h2}
    Projects <- TwoProjects
    Services <- WebOnly
    Applies <- Neighbours
    Ids <- ThreeIds
    Ports <- ThreePorts
    NoPort = 0
    Gone = Gone
    NoRoute = NoRoute
    None = None
    NotSaved = NotSaved
    AcmeConfigured = FALSE
    MaxMishaps = 1
    ExitsMidway = FALSE
INVARIANTS
    TypeOK
    AppliedIsDeployed
PROPERTIES
    ForgottenWhenClean
    ImplementsProjects
    StaysDeployed
SYMMETRY ThreadSymmetry
