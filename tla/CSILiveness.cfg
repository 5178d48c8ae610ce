SPECIFICATION FairSpec
CONSTANTS
    m1 = m1
    m2 = m2
    c1 = c1
    Machines <- MCMachines
    Classes <- MCClasses
    Starts = {"existing", "hibernated"}
    MaxChanges = 3
    MaxFaults = 1
    CacheLag = TRUE
    Stragglers = FALSE
    LeavesEarly = FALSE
    SeedMoves = FALSE
INVARIANTS
    TypeOK
    CompleteMeansNewKubelets
    NoLegacyClasses
PROPERTIES
    MigrationFinishes
    EventuallyAdapted
CHECK_DEADLOCK FALSE
