SPECIFICATION Spec
CONSTANTS
    r1 = r1
    r2 = r2
    p1 = p1
    p2 = p2
    Resources <- MCResources
    PodIds <- MCPodIds
    MaxFaults = 1
    NodeLoss = FALSE
    Starts = {"create"}
    PublishedStates <- MCPublishedComplete
    MaxRequests = 1
    DeleteDuringRestore = FALSE
INVARIANT MigratedLeavesNoTerraformer
CHECK_DEADLOCK FALSE
