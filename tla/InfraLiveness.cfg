SPECIFICATION FairSpec
CONSTANTS
    r1 = r1
    r2 = r2
    p1 = p1
    p2 = p2
    Resources <- MCResources
    PodIds <- MCPodIds
    MaxFaults = 3
    NodeLoss = FALSE
    Starts = {"create", "restore"}
    PublishedStates <- MCPublishedComplete
    MaxRequests = 2
    DeleteDuringRestore = FALSE
INVARIANTS
    NothingForgotten
    DeletionLeavesNothing
PROPERTIES
    OperationsFinish
CHECK_DEADLOCK FALSE
