SPECIFICATION RepeatingSpec
CONSTANTS
    main = main
    worker = worker
    postgres = postgres
    Threads = {t1, t2}
    Projects <- TwoProjects
    Names <- ThreeNames
    Recipes = {main, worker, postgres}
    VolumeNames <- TwoVolumes
    Applies <- Applied
    MaxCommit = 1
    None = None
    MaxMishaps = 2
INVARIANTS
    TypeOK
    BuiltFromItsSource
    OwnVolumes
    NoStrayDirectories
    AppliedIsCurrent
    NeverDowngraded
PROPERTY NewestIsDeployed
