SPECIFICATION Spec
CONSTANTS
    m1 = m1
    m2 = m2
    c1 = c1
    Machines <- MCMachines
    Classes <- MCClasses
    Starts = {"existing", "hibernated", "new"}
    MaxChanges = 2
    MaxFaults = 2
    CacheLag = TRUE
    Stragglers = TRUE
    LeavesEarly = TRUE
    SeedMoves = TRUE
SYMMETRY Symmetry
INVARIANTS
    NewKubeletsNeedCSI
    PatchLeavesOnlyChecksums
PROPERTIES
    MigratesAwake
CHECK_DEADLOCK FALSE
