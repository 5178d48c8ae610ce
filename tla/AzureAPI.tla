------------------------------ MODULE AzureAPI ------------------------------
(***************************************************************************)
(* The objects of the provider's API (pkg/apis/azure) as record sets, and  *)
(* the lookups of pkg/apis/azure/helper.  A name, an image (its name and   *)
(* version), a size or a type is an element of a small set; an optional    *)
(* field that is not set is Nil.                                           *)
(***************************************************************************)
EXTENDS Integers, Sequences, FiniteSets

CONSTANTS
    Nil,           \* what is not set, and the result of a call that fails
    Names,         \* names and IDs of Azure resources
    CIDRs,         \* address blocks [base, size]
    Regions, Zones,
    Images,        \* machine images, a name with a version
    MachineTypes

ASSUME NilAssumption == Nil \notin Names /\ Nil \notin CIDRs /\ Nil \notin BOOLEAN

Optional(S) == S \cup {Nil}

IdentityConfig == [name : Optional(Names), resourceGroup : Optional(Names), acrAccess : BOOLEAN]
VNet             == [name : Optional(Names), resourceGroup : Optional(Names), cidr : Optional(CIDRs)]
NatGatewayConfig == {"unset", "off", "on"}
InfrastructureConfig ==
    [resourceGroup : Optional(Names),
     vnet          : VNet,
     workers       : CIDRs,
     natGateway    : NatGatewayConfig,
     identity      : Optional(IdentityConfig),
     zoned         : BOOLEAN]

VNetStatus      == [name : Names, resourceGroup : Optional(Names)]
Named           == [purpose : {"nodes", "internal"}, name : Names]
RouteTable      == Named
SecurityGroup   == Named
AvailabilitySet == [purpose : {"nodes", "internal"}, name : Names,
                    countFaultDomains : Optional(Nat), countUpdateDomains : Optional(Nat)]
IdentityStatus  == [id : Names, clientID : Names, acrAccess : BOOLEAN]
InfrastructureStatus ==
    [resourceGroup    : Names,
     vnet             : VNetStatus,
     subnets          : Seq(Named),
     routeTables      : Seq(RouteTable),
     securityGroups   : Seq(SecurityGroup),
     availabilitySets : Seq(AvailabilitySet),
     identity         : Optional(IdentityStatus),
     zoned            : BOOLEAN]

MachineImage == [image : Images, urn : Optional(Names), id : Optional(Names), accelerated : BOOLEAN]
WorkerStatus == Seq(MachineImage)

\* Partial functions stand for the lists whose first entry with a key counts.
DomainCounts == UNION {[R -> Int] : R \in SUBSET Regions}
CloudProfileConfig ==
    [countFaultDomains  : DomainCounts,
     countUpdateDomains : DomainCounts,
     machineImages      : UNION {[I -> [urn : Optional(Names), id : Optional(Names), accelerated : BOOLEAN]]
                                    : I \in SUBSET Images},
     acceleratedTypes   : SUBSET MachineTypes]

\* The entry of the list at the first of these indices, or Nil.
FirstOf(list, found) ==
    IF found = {} THEN Nil ELSE list[CHOOSE i \in found : \A j \in found : i <= j]

FindByPurpose(list, purpose) == FirstOf(list, {i \in DOMAIN list : list[i].purpose = purpose})

FindMachineImage(machineImages, image) ==
    FirstOf(machineImages, {i \in DOMAIN machineImages : machineImages[i].image = image})

FindDomainCountByRegion(counts, region) == IF region \in DOMAIN counts THEN counts[region] ELSE Nil

FindImageFromCloudProfile(profile, image) ==
    IF image \notin DOMAIN profile.machineImages THEN Nil
    ELSE LET version == profile.machineImages[image]
         IN  [image |-> image, urn |-> version.urn, id |-> version.id, accelerated |-> version.accelerated]

\* The keys of the shoot's credentials; those read from an incomplete secret are
\* an error.
SecretKeys == {"subscriptionID", "clientID", "tenantID", "clientSecret"}
ReadClientAuthDataFromSecret(secret) ==
    IF SecretKeys \subseteq DOMAIN secret THEN [key \in SecretKeys |-> secret[key]] ELSE Nil
=============================================================================
