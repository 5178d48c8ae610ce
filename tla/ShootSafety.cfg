SPECIFICATION Spec
CONSTANTS
    Nil = Nil
    Names <- MCNames
    CIDRs <- MCCIDRs
    Regions <- MCRegions
    Zones <- MCZones
    Images <- MCImages
    MachineTypes <- MCMachineTypes
    TechnicalID = "technical"
    Region = "here"
    Shoots <- MCShoots
    Created <- MCCreated
    Profiles <- MCProfiles
    MaxEvents = 2
INVARIANTS TypeOK StaysRenderable AgreeOnLayout RunsCurrentConfig LegacyConfigKept ZoneShares
PROPERTIES DomainCountsKept SameNameSameMachine StopsAfterAPIServer
CHECK_DEADLOCK FALSE
