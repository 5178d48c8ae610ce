----------------------------- MODULE Admission -----------------------------
(***************************************************************************)
(* Which shoots and cloud profiles are admitted: pkg/validator and         *)
(* pkg/apis/azure/validation.  An operator is TRUE when the list of errors *)
(* of the function it stands for is empty.  A shoot is                     *)
(*   [infra, nodes, pods, services, workers, version, remedy]              *)
(* and a worker pool                                                       *)
(*   [name, machineType, image, volume, dataVolumes, zones, minimum,       *)
(*    maximum, maxSurge, maxUnavailable].                                  *)
(***************************************************************************)
EXTENDS AzureAPI

\* Only the network address of the other block is looked at.
Contains(cidr, other) ==
    /\ other # Nil
    /\ other.base \in cidr.base .. (cidr.base + cidr.size - 1)
ValidateSubset(cidr, other)       == other = Nil \/ Contains(cidr, other)
ValidateNotSubset(cidr, other)    == ~Contains(cidr, other)
ValidateCIDRIsCanonical(cidr)     == cidr.base % cidr.size = 0

ValidateVNet(config, nodes, pods, services) ==
    LET vnet == config.vnet IN
    \/ /\ vnet.name # Nil /\ vnet.resourceGroup # Nil
       /\ vnet.cidr = Nil
       /\ vnet.resourceGroup # config.resourceGroup
    \/ /\ vnet.name = Nil /\ vnet.resourceGroup = Nil
       /\ LET block == IF vnet.cidr = Nil THEN config.workers ELSE vnet.cidr
          IN  /\ ValidateCIDRIsCanonical(block)
              /\ ValidateSubset(block, nodes)
              /\ ValidateSubset(block, config.workers)
              /\ ValidateNotSubset(block, pods)
              /\ ValidateNotSubset(block, services)

ValidateInfrastructureConfig(config, nodes, pods, services) ==
    /\ config.resourceGroup = Nil
    /\ ValidateCIDRIsCanonical(config.workers)
    /\ ValidateVNet(config, nodes, pods, services)
    /\ config.natGateway # "unset" => config.zoned
    /\ config.identity # Nil => config.identity.name # Nil /\ config.identity.resourceGroup # Nil
    /\ nodes # Nil => ValidateSubset(nodes, config.workers)

ValidateInfrastructureConfigUpdate(old, new) ==
    /\ new.resourceGroup = old.resourceGroup
    /\ new.vnet = old.vnet
    /\ new.workers = old.workers
    /\ old.zoned => new.zoned

validateVolume(volume) == volume.type # Nil /\ volume.size # Nil /\ ~volume.encrypted

maxDataVolumeCount == 64

ValidateWorkers(workers, zoned) ==
    \A i \in DOMAIN workers : LET worker == workers[i] IN
        /\ worker.volume # Nil
        /\ validateVolume(worker.volume)
        /\ Len(worker.dataVolumes) <= maxDataVolumeCount
        /\ \A j \in DOMAIN worker.dataVolumes : validateVolume(worker.dataVolumes[j])
        /\ zoned <=> worker.zones # <<>>
        /\ \A j, k \in DOMAIN worker.zones : worker.zones[j] = worker.zones[k] => j = k

\* Zones may only be appended.
ValidateWorkersUpdate(old, new) ==
    \A i \in DOMAIN new, j \in DOMAIN old :
        new[i].name = old[j].name =>
            /\ Len(new[i].zones) >= Len(old[j].zones)
            /\ SubSeq(new[i].zones, 1, Len(old[j].zones)) = old[j].zones

validateShoot(shoot, config) ==
    /\ shoot.nodes # Nil
    /\ ValidateInfrastructureConfig(config, shoot.nodes, shoot.pods, shoot.services)
    /\ ValidateWorkers(shoot.workers, config.zoned)

validateShootCreation(shoot) == shoot.infra # Nil /\ validateShoot(shoot, shoot.infra)

\* The old config is decoded from the new shoot, so the two are equal and
\* nothing is compared (shoot_validator.go:64).
validateShootUpdate(old, shoot) ==
    /\ shoot.infra # Nil
    /\ LET oldConfig == shoot.infra IN
       oldConfig # shoot.infra => ValidateInfrastructureConfigUpdate(oldConfig, shoot.infra)
    /\ ValidateWorkersUpdate(old.workers, shoot.workers)
    /\ validateShoot(shoot, shoot.infra)

\* The admission webhook: old is Nil when a shoot is created.
Handle(old, shoot) == IF old = Nil THEN validateShootCreation(shoot) ELSE validateShootUpdate(old, shoot)

\* What a valid configuration of a CloudProfile is.
validateDomainCount(counts) == DOMAIN counts # {} /\ \A region \in DOMAIN counts : counts[region] >= 0
ValidateCloudProfileConfig(profile) ==
    /\ validateDomainCount(profile.countFaultDomains)
    /\ validateDomainCount(profile.countUpdateDomains)
    /\ DOMAIN profile.machineImages # {}
    /\ \A image \in DOMAIN profile.machineImages : LET version == profile.machineImages[image] IN
           (version.urn = Nil) # (version.id = Nil)
=============================================================================
