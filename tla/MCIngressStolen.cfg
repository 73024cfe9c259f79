SPECIFICATION Spec
CONSTANTS
    p1 = p1
    p2 = p2
    s1 = s1
    s2 = s2
    d1 = d1
    d2 = d2
    d3 = d3
    e1 = e1
    Threads = {t1, t2}
    Domains = {d1, d2}
    Projects = {p1, p2}
    Services = {s1, s2}
    Endpoints = {e1}
    NoEndpoint = NoEndpoint
    NoRoute = NoRoute
    None = None
    AcmeConfigured = FALSE
    Ingresses <- ContendedIngresses
PROPERTY RouteNeverStolen
