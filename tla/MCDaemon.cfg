SPECIFICATION Spec
CONSTANTS
    d1 = d1
    d2 = d2
    wikiDomain = wikiDomain
    shop = shop
    blog = blog
    wiki = wiki
    web = web
    e1 = e1
    e2 = e2
    e3 = e3
    Threads = {t1, t2}
    Visitors = {v1}
    Domains = {d1, d2, wikiDomain}
    Projects = {shop, blog, wiki}
    Services = {web}
    Endpoints = {e1, e2, e3}
    NoEndpoint = NoEndpoint
    NoRoute = NoRoute
    None = None
    AcmeConfigured = TRUE
    Applies <- ShopAndBlog
    Reachable = {d1, wikiDomain}
    Ingresses <- WithWiki
    MaxStops = 1
INVARIANTS
    TypeOK
    BystandersServed
    AcknowledgedIsStored
PROPERTIES
    ForgottenWhenUnrouted
    NeverStolen
    StopsAndStarts
