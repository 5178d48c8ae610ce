SPECIFICATION Spec
CONSTANTS
    r1 = r1
    r2 = r2
    p1 = p1
    p2 = p2
    Resources <- MCResources
    PodIds <- MCPodIds
    MaxFaults = 4
    NodeLoss = TRUE
    Starts = {"create", "restore"}
    PublishedStates <- MCPublishedComplete
    MaxRequests = 3
    DeleteDuringRestore = FALSE
SYMMETRY Symmetry
INVARIANTS
    TypeOK
    AtMostOneTerraformer
    SuccessIsComplete
PROPERTIES
    StateNeverReset
    DeletionOnlyDeletes
CHECK_DEADLOCK FALSE
