SPECIFICATION Spec
CONSTANTS
    Nil = Nil
    Names = {}
    CIDRs = {}
    Regions = {}
    Zones = {}
    Images = {}
    MachineTypes = {}
    PublicIPs = {"ip"}
    VirtualMachines = {"vm"}
    Deployments = {"a", "b"}
    Versions = {1, 2}
    MaxReplicas = 2
    MCMOutlives = TRUE
    Shoots <- MCShoots
    Limits <- MCLimits
INVARIANTS
    NoOrphans
CHECK_DEADLOCK FALSE
