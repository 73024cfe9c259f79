SPECIFICATION RetrySpec
CONSTANTS
    d1 = d1
    d2 = d2
    h1 = h1
    h2 = h2
    Threads = {t1}
    Domains = {d1, d2}
    Hashes = {h1, h2}
    Projects <- TwoProjects
    Services <- TwoServices
    Applies <- ShopOnly
    Ids <- FiveIds
    Ports <- FourPorts
    NoPort = 0
    Gone = Gone
    NoRoute = NoRoute
    None = None
    NotSaved = NotSaved
    AcmeConfigured = TRUE
    MaxMishaps = 4
    ExitsMidway = FALSE
PROPERTY RetriesConverge
