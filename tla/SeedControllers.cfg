SPECIFICATION FairSpec
CONSTANTS
    Nil = Nil
    Names = {}
    CIDRs = {}
    Regions = {}
    Zones = {}
    Images = {}
    MachineTypes = {}
    PublicIPs = {"ip"}
    VirtualMachines = {"vm"}
    Deployments = {"a", "b"}
    Versions = {1, 2}
    MaxReplicas = 2
    MCMOutlives = FALSE
    Shoots <- MCShoots
    Limits <- MCLimits
INVARIANTS
    TypeOK
    ListedAddressesAreKept
    ShootPartsAreServed
    NoOrphans
    DeletionLeavesNothing
PROPERTIES
    SuccessMeansRolled
    RemedyOutlivesItsResources
    HealthyWhenReported
    RequestsSettle
CHECK_DEADLOCK FALSE
