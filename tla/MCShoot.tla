------------------------------ MODULE MCShoot ------------------------------
(***************************************************************************)
(* Shoots for TLC: a zoned and a non-zoned one, and what a user can make   *)
(* of each of them in one or two updates.                                  *)
(***************************************************************************)
EXTENDS Shoot

MCNames        == {"technical", "vnet", "group", "identity", "urn"}
MCNodes        == [base |-> 0, size |-> 8]
MCOther        == [base |-> 8, size |-> 8]
MCCIDRs        == {MCNodes, MCOther}
MCRegions      == {"here", "there"}
MCZones        == {1, 2}
MCImages       == {"old", "new"}
MCMachineTypes == {"small", "large"}

Identity(acr) == [name |-> "identity", resourceGroup |-> "group", acrAccess |-> acr]
Infra(zoned, identity, vnet, workers) ==
    [resourceGroup |-> Nil,
     vnet          |-> [name |-> vnet, resourceGroup |-> IF vnet = Nil THEN Nil ELSE "group", cidr |-> Nil],
     workers       |-> workers,
     natGateway    |-> "unset",
     identity      |-> identity,
     zoned         |-> zoned]

Disk(name, size, type) == [name |-> name, size |-> size, type |-> type, encrypted |-> FALSE]
RootDisk == [size |-> 1, type |-> "Premium_LRS", encrypted |-> FALSE]
Pool(zones, machineType, image, dataVolumes, maximum) ==
    [name |-> "pool", machineType |-> machineType, image |-> image, volume |-> RootDisk,
     dataVolumes |-> dataVolumes, zones |-> zones, minimum |-> 1, maximum |-> maximum,
     maxSurge |-> [percent |-> FALSE, value |-> 1], maxUnavailable |-> [percent |-> TRUE, value |-> 50]]

Make(config, pool, version, remedy, hibernated, deleting, auth) ==
    [infra |-> config, nodes |-> MCNodes, pods |-> MCOther, services |-> MCOther, workers |-> <<pool>>,
     version |-> version, remedy |-> remedy, hibernated |-> hibernated, deleting |-> deleting,
     auth |-> auth]

Secret(value) == [key \in SecretKeys |-> value]

Zoned    == Make(Infra(TRUE, Nil, Nil, MCNodes), Pool(<<1, 2>>, "small", "old", <<>>, 3),
                 1, FALSE, FALSE, FALSE, Secret(1))
NonZoned == Make(Infra(FALSE, Identity(TRUE), Nil, MCNodes),
                 Pool(<<>>, "small", "old", <<Disk(1, 1, "Premium_LRS")>>, 3), 0, TRUE, FALSE, FALSE, Secret(1))

\* What an update makes of a shoot; some of it is not admitted.
Updates(s) ==
    {[s EXCEPT !.version = @ + 1],
     [s EXCEPT !.hibernated = TRUE],
     [s EXCEPT !.hibernated = TRUE, !.deleting = TRUE],
     [s EXCEPT !.workers[1].image = "new"]}
ZonedUpdates ==
    {[Zoned EXCEPT !.infra.zoned = FALSE, !.workers[1].zones = <<>>],
     [Zoned EXCEPT !.infra.zoned = FALSE, !.workers[1].zones = <<>>, !.workers[1].name = "other"],
     [Zoned EXCEPT !.infra.vnet = [name |-> "vnet", resourceGroup |-> "group", cidr |-> Nil]],
     [Zoned EXCEPT !.infra.workers = MCOther],
     [Zoned EXCEPT !.workers[1].zones = <<2>>],
     [Zoned EXCEPT !.workers[1].machineType = "large", !.remedy = TRUE]}
NonZonedUpdates ==
    {[NonZoned EXCEPT !.infra.zoned = TRUE, !.workers[1].zones = <<1>>],
     [NonZoned EXCEPT !.infra.identity = Nil, !.auth = Secret(2)],
     [NonZoned EXCEPT !.auth = [key \in SecretKeys \ {"tenantID"} |-> 2]],
     [NonZoned EXCEPT !.infra.identity.name = "group"],
     [NonZoned EXCEPT !.workers[1].dataVolumes = <<Disk(2, 1, "Premium_LRS"), Disk(1, 2, "Premium_LRS")>>],
     [NonZoned EXCEPT !.workers[1].dataVolumes = <<Disk(1, 1, "Standard_LRS")>>],
     [NonZoned EXCEPT !.workers[1].dataVolumes = [i \in 1 .. 65 |-> Disk(i, 1, "Premium_LRS")]]}

MCShoots == {Zoned, NonZoned} \cup Updates(Zoned) \cup Updates(NonZoned) \cup ZonedUpdates \cup NonZonedUpdates

Counts(n) == [region \in {"here"} |-> n]
Image == [urn |-> "urn", id |-> Nil, accelerated |-> TRUE]
Profile(counts, images) ==
    [countFaultDomains |-> counts, countUpdateDomains |-> counts,
     machineImages |-> [image \in images |-> Image], acceleratedTypes |-> {"large"}]
Current == Profile(Counts(2), {"old", "new"})
MCProfiles ==
    {Current, Profile(Counts(3), {"new"}), Profile([region \in {"there"} |-> 2], {"new"})}
MCCreated == {Zoned, NonZoned} \X {Current}
=============================================================================
