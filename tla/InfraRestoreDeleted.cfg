SPECIFICATION Spec
CONSTANTS
    r1 = r1
    r2 = r2
    p1 = p1
    p2 = p2
    Resources <- MCResources
    PodIds <- MCPodIds
    MaxFaults = 1
    NodeLoss = FALSE
    Starts = {"restore"}
    PublishedStates <- MCPublishedComplete
    MaxRequests = 0
    DeleteDuringRestore = TRUE
INVARIANT DeletionLeavesNothing
CHECK_DEADLOCK FALSE
