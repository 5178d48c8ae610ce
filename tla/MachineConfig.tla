--------------------------- MODULE MachineConfig ---------------------------
(***************************************************************************)
(* The machine classes, machine deployments and machine images that the    *)
(* worker controller generates for its pools (pkg/controller/worker and    *)
(* the helpers of the extension library's worker package).  The pool hash  *)
(* is a digest; here it is the hashed data itself, so that two pools have  *)
(* one hash exactly when the code hashes the same data for both.           *)
(***************************************************************************)
EXTENDS AzureAPI

\* The nodes of the pool that belong to the zone with this index, from 0.
DistributeOverZones_OneMore(index, size, zones) ==
    (size \div zones) + (IF index <= size % zones THEN 1 ELSE 0)
DistributeOverZones(index, size, zones) ==
    (size \div zones) + (IF index < size % zones THEN 1 ELSE 0)

CeilDiv(a, b) == (a + b - 1) \div b

\* A percentage is weighted with the zone's share of the total, rounded up.
DistributePercentOverZones(index, percent, zones, total) ==
    IF total % zones = 0 THEN percent
    ELSE CeilDiv(DistributeOverZones(index, total, zones) * zones * percent, total)

DistributePositiveIntOrPercent(index, amount, zones, total) ==
    IF amount.percent
    THEN [amount EXCEPT !.value = DistributePercentOverZones(index, amount.value, zones, total)]
    ELSE [amount EXCEPT !.value = DistributeOverZones(index, amount.value, zones)]

\* Sizes and types of the data volumes, in the order of the specification.
computeAdditionalHashData(pool) ==
    [i \in DOMAIN pool.dataVolumes |-> <<pool.dataVolumes[i].size, pool.dataVolumes[i].type>>]

WorkerPoolHash_NoIdentity(pool, version, identity) ==
    <<version, pool.machineType, pool.image, pool.volume.size, pool.volume.type,
      computeAdditionalHashData(pool)>>
WorkerPoolHash(pool, version, identity) ==
    <<version, pool.machineType, pool.image, pool.volume.size, pool.volume.type,
      IF identity = Nil THEN Nil ELSE identity.id, computeAdditionalHashData(pool)>>

\* Data volumes are attached in the order of their names.
SortedByName(volumes) ==
    CHOOSE sorted \in [DOMAIN volumes -> {volumes[i] : i \in DOMAIN volumes}] :
        /\ \A i, j \in DOMAIN sorted : i < j => sorted[i].name < sorted[j].name
        /\ \A i \in DOMAIN volumes : \E j \in DOMAIN sorted : sorted[j] = volumes[i]

validDiskTypes == {"Standard_LRS", "StandardSSD_LRS", "Premium_LRS"}
computeDisks(pool) ==
    [osDisk    |-> [size |-> pool.volume.size,
                    type |-> IF pool.volume.type \in validDiskTypes THEN pool.volume.type ELSE Nil],
     dataDisks |-> SortedByName(pool.dataVolumes)]

\* The CloudProfile first, then what the worker's status remembers.
findMachineImage_ProfileOnly(profile, images, image) == FindImageFromCloudProfile(profile, image)
findMachineImage(profile, images, image) ==
    LET current == FindImageFromCloudProfile(profile, image)
    IN  IF current # Nil THEN current ELSE FindMachineImage(images, image)

appendMachineImage(images, image) ==
    IF FindMachineImage(images, image.image) = Nil THEN Append(images, image) ELSE images

isMachineTypeSupportingAcceleratedNetworking(profile, machineType) == machineType \in profile.acceleratedTypes

\* One class and one deployment for each zone of the pool, or one of each
\* that uses the availability set (zone = Nil).
PoolZones(pool, zoned) == IF zoned THEN {pool.zones[i] : i \in DOMAIN pool.zones} ELSE {Nil}

generateMachineClass(pool, zone, version, status, profile, image, auth) ==
    [secret |-> auth,
     pool   |-> pool.name,
     hash   |-> WorkerPoolHash(pool, version, status.identity),
     zone   |-> zone,
     spec   |-> [machineType     |-> pool.machineType,
                 image           |-> IF image.urn # Nil THEN image.urn ELSE image.id,
                 disks           |-> computeDisks(pool),
                 resourceGroup   |-> status.resourceGroup,
                 vnet            |-> status.vnet,
                 subnet          |-> FindByPurpose(status.subnets, "nodes").name,
                 accelerated     |-> /\ image.accelerated
                                     /\ isMachineTypeSupportingAcceleratedNetworking(profile, pool.machineType)
                                     /\ status.zoned,
                 availabilitySet |-> IF status.zoned THEN Nil
                                     ELSE FindByPurpose(status.availabilitySets, "nodes").name,
                 identity        |-> IF status.identity = Nil THEN Nil ELSE status.identity.id]]

generateMachineDeployment(pool, index) ==
    LET zones == Len(pool.zones) IN
    [pool |-> pool.name, zone |-> pool.zones[index + 1],
     minimum        |-> DistributeOverZones(index, pool.minimum, zones),
     maximum        |-> DistributeOverZones(index, pool.maximum, zones),
     maxSurge       |-> DistributePositiveIntOrPercent(index, pool.maxSurge, zones, pool.maximum),
     maxUnavailable |-> DistributePositiveIntOrPercent(index, pool.maxUnavailable, zones, pool.minimum)]

\* Nil is an error: incomplete credentials, no subnet, no availability set, or
\* an image not found.
generateMachineConfig(worker, version, profile, auth) ==
    LET status  == worker.infrastructureStatus
        pools   == {worker.pools[i] : i \in DOMAIN worker.pools}
        Image(pool) == findMachineImage(profile, worker.machineImages, pool.image)
        images[i \in 0 .. Len(worker.pools)] ==
            IF i = 0 THEN <<>> ELSE appendMachineImage(images[i - 1], Image(worker.pools[i]))
    IN  IF \/ auth = Nil
           \/ FindByPurpose(status.subnets, "nodes") = Nil
           \/ ~status.zoned /\ FindByPurpose(status.availabilitySets, "nodes") = Nil
           \/ \E pool \in pools : Image(pool) = Nil
        THEN Nil
        ELSE [classes     |-> UNION {{generateMachineClass(pool, zone, version, status, profile, Image(pool), auth)
                                         : zone \in PoolZones(pool, status.zoned)} : pool \in pools},
              deployments |-> UNION {IF status.zoned
                                     THEN {generateMachineDeployment(pool, i - 1) : i \in DOMAIN pool.zones}
                                     ELSE {[pool |-> pool.name, zone |-> Nil,
                                            minimum |-> pool.minimum, maximum |-> pool.maximum,
                                            maxSurge |-> pool.maxSurge, maxUnavailable |-> pool.maxUnavailable]}
                                        : pool \in pools},
              images      |-> images[Len(worker.pools)]]

\* Classes carry their hash in their name: the name tells them apart.
ClassName(class) == <<class.pool, class.hash, class.zone>>
=============================================================================
