------------------------ MODULE InfrastructureLayout ------------------------
(***************************************************************************)
(* What the infrastructure controller asks Terraform to build and what it  *)
(* reports of it (pkg/internal/infrastructure/terraform.go).  Terraform    *)
(* itself is Outputs: the output variables of what has been applied.  Nil  *)
(* is the result of a function that returns an error.                      *)
(***************************************************************************)
EXTENDS AzureAPI

CONSTANTS
    TechnicalID,   \* the namespace of the shoot, and the name of what is created for it
    Region         \* the region of the shoot

ASSUME TechnicalAssumption == TechnicalID \in Names /\ Region \in Regions

UsesExistingVNet(config) == config.vnet.name # Nil /\ config.vnet.resourceGroup # Nil
UsesIdentity(config) ==
    config.identity # Nil /\ config.identity.name # Nil /\ config.identity.resourceGroup # Nil

\* The counts of a stored availability set win; what is not stored comes from
\* the CloudProfile.
findDomainCounts_Profile(status, profile) ==
    LET fault  == FindDomainCountByRegion(profile.countFaultDomains, Region)
        update == FindDomainCountByRegion(profile.countUpdateDomains, Region)
    IN  IF fault = Nil \/ update = Nil THEN Nil
        ELSE [faultDomains |-> fault, updateDomains |-> update]
findDomainCounts(status, profile) ==
    LET stored   == IF status = Nil THEN Nil ELSE FindByPurpose(status.availabilitySets, "nodes")
        Count(count, counts) ==
            IF stored # Nil /\ count # Nil THEN count ELSE FindDomainCountByRegion(counts, Region)
        fault    == Count(IF stored = Nil THEN Nil ELSE stored.countFaultDomains, profile.countFaultDomains)
        update   == Count(IF stored = Nil THEN Nil ELSE stored.countUpdateDomains, profile.countUpdateDomains)
    IN  IF (status # Nil /\ stored = Nil) \/ fault = Nil \/ update = Nil THEN Nil
        ELSE [faultDomains |-> fault, updateDomains |-> update]

OutputKeys(config) ==
    {"resourceGroup", "vnet", "subnet", "routeTable", "securityGroup"}
        \cup (IF UsesExistingVNet(config) THEN {"vnetResourceGroup"} ELSE {})
        \cup (IF config.zoned THEN {} ELSE {"availabilitySet", "domainCounts"})
        \cup (IF UsesIdentity(config) THEN {"identity"} ELSE {})

ComputeTerraformerChartValues(config, status, profile) ==
    LET counts == IF config.zoned THEN Nil ELSE findDomainCounts(status, profile)
    IN  IF ~config.zoned /\ counts = Nil THEN Nil
        ELSE [create     |-> [resourceGroup   |-> config.resourceGroup = Nil,
                              vnet            |-> ~UsesExistingVNet(config),
                              availabilitySet |-> ~config.zoned,
                              natGateway      |-> config.natGateway = "on"],
              counts     |-> counts,
              resourceGroup |-> IF config.resourceGroup # Nil THEN config.resourceGroup ELSE TechnicalID,
              vnet       |-> IF UsesExistingVNet(config)
                             THEN [name |-> config.vnet.name, resourceGroup |-> config.vnet.resourceGroup,
                                   cidr |-> Nil]
                             ELSE [name |-> TechnicalID, resourceGroup |-> Nil,
                                   cidr |-> IF config.vnet.cidr # Nil THEN config.vnet.cidr ELSE config.workers],
              workers    |-> config.workers,
              identity   |-> IF UsesIdentity(config) THEN config.identity.name ELSE Nil,
              outputKeys |-> OutputKeys(config)]

\* The output variables of the layout Terraform has applied.
Outputs(values) ==
    [key \in values.outputKeys |->
        CASE key = "resourceGroup"     -> values.resourceGroup
          [] key = "vnet"              -> values.vnet.name
          [] key = "vnetResourceGroup" -> values.vnet.resourceGroup
          [] key = "domainCounts"      -> values.counts
          [] key = "identity"          -> values.identity
          [] OTHER                     -> TechnicalID]

\* The outputs the config calls for; an error when one is missing.
ExtractTerraformState(outputs, config) ==
    IF OutputKeys(config) \subseteq DOMAIN outputs
    THEN [key \in OutputKeys(config) |-> outputs[key]]
    ELSE Nil

\* A shoot without an availability set is zoned.
StatusFromTerraformState(state) ==
    LET Nodes(key) == <<[purpose |-> "nodes", name |-> state[key]]>>
        zoned      == "availabilitySet" \notin DOMAIN state
    IN  [resourceGroup    |-> state["resourceGroup"],
         vnet             |-> [name |-> state["vnet"],
                               resourceGroup |-> IF "vnetResourceGroup" \in DOMAIN state
                                                 THEN state["vnetResourceGroup"] ELSE Nil],
         subnets          |-> Nodes("subnet"),
         routeTables      |-> Nodes("routeTable"),
         securityGroups   |-> Nodes("securityGroup"),
         availabilitySets |-> IF zoned THEN <<>>
                              ELSE <<[purpose |-> "nodes", name |-> state["availabilitySet"],
                                      countFaultDomains  |-> state["domainCounts"].faultDomains,
                                      countUpdateDomains |-> state["domainCounts"].updateDomains]>>,
         identity         |-> IF "identity" \in DOMAIN state
                              THEN [id |-> state["identity"], clientID |-> state["identity"], acrAccess |-> FALSE]
                              ELSE Nil,
         zoned            |-> zoned]

ComputeStatus(outputs, config) ==
    LET state  == ExtractTerraformState(outputs, config)
        status == StatusFromTerraformState(state)
    IN  CASE state = Nil -> Nil
          [] state # Nil /\ (status.identity = Nil \/ config.identity = Nil) -> status
          [] OTHER -> [status EXCEPT !.identity.acrAccess = config.identity.acrAccess]
=============================================================================
