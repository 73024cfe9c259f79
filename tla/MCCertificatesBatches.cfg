SPECIFICATION Spec
CONSTANTS
    d1 = d1
    d2 = d2
    Requests <- AnyRequest
    Threads = {t1, t2}
    Domains = {d1}
    Ids <- ThreeIds
    Orders <- OneSlot
    Gone = Gone
    None = None
    Oldest = "expired"
    MaxMishaps = 1
    MaxMoves = 1
INVARIANTS
    TypeOK
    MappingsLeadToCertificates
PROPERTY CertificatesKept
SYMMETRY ThreadSymmetry
