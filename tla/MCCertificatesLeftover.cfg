SPECIFICATION QuietSpec
CONSTANTS
    d1 = d1
    d2 = d2
    Requests <- AnyRequest
    Threads = {t1}
    Domains = {d1}
    Ids <- FiveIds
    Orders <- TwoSlots
    Gone = Gone
    None = None
    Oldest = "expired"
    MaxMishaps = 1
    MaxMoves = 0
PROPERTY RenewedEventually
