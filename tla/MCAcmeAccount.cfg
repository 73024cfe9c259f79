SPECIFICATION FairSpec
CONSTANTS
    Emails = {e1, e2}
    Directories = {staging, production}
    Keys <- SixKeys
    None = None
    MaxChanges = 2
    MaxMishaps = 2
INVARIANTS
    TypeOK
    ReadyWithItsKey
    ReadyIsStored
    NoNilRegistration
    AccountAsConfigured
PROPERTIES
    EveryStartEnds
    ReadyEventually
