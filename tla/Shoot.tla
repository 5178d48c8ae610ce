------------------------------- MODULE Shoot -------------------------------
(***************************************************************************)
(* A shoot from its admission to its machines: what the user or the        *)
(* operator changes, what the flow of Gardener hands to the three          *)
(* controllers of the provider, and what each of them computes from the    *)
(* Cluster it reads, from its own spec and from its own status while the   *)
(* others move on.  How a controller carries a step out and recovers from  *)
(* its faults is Infrastructure's, ControlPlane's and Worker's subject;    *)
(* here a reconciliation may stop after each object it writes.             *)
(***************************************************************************)
EXTENDS InfrastructureLayout, Admission, MachineConfig, SeedWebhooks, FiniteSetsExt

CONSTANTS
    Shoots,        \* the shoots a user can ask for
    Profiles,      \* the provider's part of the CloudProfile, over time
    Created,       \* the shoots and profiles it starts with
    MaxEvents      \* bound on changes of the shoot or the profile and on retries of the flow

List(sequence) == sequence \in Seq({sequence[i] : i \in DOMAIN sequence})

\* The worker pools Gardener's own API server admits (ValidateWorkers and
\* ValidateWorker of its apis/core/validation/shoot.go).
ValidWorkers(workers) ==
    /\ List(workers)
    /\ \A i, j \in DOMAIN workers : workers[i].name = workers[j].name => i = j
    /\ \A i \in DOMAIN workers :
          LET pool == workers[i] IN
          /\ {pool.minimum, pool.maximum} \subseteq Nat /\ pool.minimum <= pool.maximum
          /\ pool.zones \in Seq(Zones)
          /\ List(pool.dataVolumes)
          /\ \A j \in DOMAIN pool.dataVolumes : pool.dataVolumes[j].name \in Int
          /\ \A j, k \in DOMAIN pool.dataVolumes :
                pool.dataVolumes[j].name = pool.dataVolumes[k].name => j = k

ASSUME ShootAssumption ==
    /\ MaxEvents \in Nat
    /\ Created \subseteq Shoots \X Profiles
    /\ \A p \in Profiles : \A counts \in {p.countFaultDomains, p.countUpdateDomains} :
          \A region \in DOMAIN counts : counts[region] \in Int
    /\ \A s \in Shoots : (s.infra # Nil => s.infra \in InfrastructureConfig) /\ ValidWorkers(s.workers)

\* The fields of the objects that may be missing: none of them is Nil, which is
\* no record and no number.
Fields ==
    {"config", "stored", "shoot", "status", "scaledDown", "classes", "deployments", "images",
     "auth", "version", "resourceGroup", "vnet", "subnet", "routeTable", "securityGroup",
     "availabilitySetName", "acrIdentityClientId", "maxNodes",
     "create", "counts", "workers", "identity", "outputKeys",
     "subnets", "routeTables", "securityGroups", "availabilitySets", "zoned",
     "purpose", "name", "countFaultDomains", "countUpdateDomains", "faultDomains", "updateDomains",
     "id", "clientID", "acrAccess", "replicas", "checksum", "image", "urn", "accelerated",
     "vnetResourceGroup", "availabilitySet", "domainCounts"}

ASSUME NilIsNoObject ==
    /\ Nil \notin Int \cup Zones \cup {"balancer"}
    /\ Nil # [field \in {name \in Fields \cup Int : name \in DOMAIN Nil} |-> Nil[field]]

VARIABLES
    shoot,         \* the shoot in the garden
    profile,       \* the CloudProfile in the garden
    cluster,       \* the Cluster resource in the seed: [shoot, profile]
    flow,          \* how far Gardener's reconciliation of the shoot is
    infra,         \* the Infrastructure resource: [config, status]
    cloud,         \* the layout Terraform has applied, or Nil
    cp,            \* the ControlPlane resource: [status, pending, requeue, run]
    seed,          \* what is deployed for it: [config, configMaps, components, shootChart]
    api,           \* the API server's deployment
    kubelet,       \* the provider's part of the operating system config
    worker,        \* the Worker resource: [pools, infrastructureStatus, machineImages, pending, run]
    machines,      \* [classes, deployments]
    immutableKept, \* history: no update touched an immutable field
    events

vars == <<shoot, profile, cluster, flow, infra, cloud, cp, seed, api, kubelet, worker, machines,
          immutableKept, events>>
garden == <<shoot, profile, immutableKept, events>>
controlPlane == <<cp, seed, api, kubelet>>

Stages == {"idle", "infrastructure", "applied", "control plane", "wait", "kubelet", "worker", "machines",
           "done", "deleting"}

-----------------------------------------------------------------------------
(* The garden *)

\* Gardener itself admits no downgrade, and nothing brings a deleted shoot back.
ChangeShoot ==
    /\ events < MaxEvents
    /\ ~shoot.deleting
    /\ \E new \in Shoots :
          /\ new # shoot
          /\ new.version >= shoot.version
          /\ Handle(shoot, new)
          /\ shoot' = new
          /\ immutableKept' = (immutableKept /\ ValidateInfrastructureConfigUpdate(shoot.infra, new.infra))
    /\ events' = events + 1
    /\ UNCHANGED <<profile, cluster, flow, infra, cloud, controlPlane, worker, machines>>

\* What a valid profile is, the operator has to know: it is not admitted by
\* the provider.
ChangeProfile ==
    /\ events < MaxEvents
    /\ \E new \in Profiles :
          /\ new # profile
          /\ ValidateCloudProfileConfig(new)
          /\ profile' = new
    /\ events' = events + 1
    /\ UNCHANGED <<shoot, cluster, flow, infra, cloud, controlPlane, worker, machines, immutableKept>>

\* The flow starts, or starts over whatever it has reached.
StartFlow ==
    /\ \/ /\ flow = "idle" \/ <<shoot, profile>> # <<cluster.shoot, cluster.profile>>
          /\ UNCHANGED events
       \/ /\ flow \notin {"idle", "done", "deleting"}
          /\ events < MaxEvents
          /\ events' = events + 1
    /\ cluster' = [shoot |-> shoot, profile |-> profile]
    /\ flow' = CASE ~shoot.deleting -> "infrastructure"
                  [] shoot.deleting /\ infra.status # Nil -> "control plane"
                  [] OTHER -> "deleting"
    /\ infra' = IF shoot.deleting THEN infra ELSE [infra EXCEPT !.config = shoot.infra]
    /\ UNCHANGED <<shoot, profile, immutableKept, cloud, controlPlane, worker, machines>>

-----------------------------------------------------------------------------
(* The infrastructure controller *)

\* The three controllers log in to Azure with what the shoot's secret holds.
Auth == ReadClientAuthDataFromSecret(cluster.shoot.auth)

Layout == ComputeTerraformerChartValues(infra.config, infra.status, cluster.profile)

ApplyInfrastructure ==
    /\ flow = "infrastructure"
    /\ Auth # Nil
    /\ Layout # Nil
    /\ cloud' = Layout
    /\ flow' = "applied"
    /\ UNCHANGED <<garden, cluster, infra, controlPlane, worker, machines>>

StoreInfrastructureStatus ==
    /\ flow = "applied"
    /\ infra' = [infra EXCEPT !.status = ComputeStatus(Outputs(cloud), infra.config)]
    /\ flow' = "control plane"
    /\ UNCHANGED <<garden, cluster, cloud, controlPlane, worker, machines>>

-----------------------------------------------------------------------------
(* The control plane controller *)

DeployControlPlane_KeepsStatus ==
    /\ flow = "control plane"
    /\ cp' = [cp EXCEPT !.status = IF @ = Nil THEN infra.status ELSE @, !.pending = TRUE]
    /\ flow' = "wait"
    /\ UNCHANGED <<garden, cluster, infra, cloud, seed, api, kubelet, worker, machines>>
DeployControlPlane ==
    /\ flow = "control plane"
    /\ cp' = [cp EXCEPT !.status = infra.status, !.pending = TRUE]
    /\ flow' = "wait"
    /\ UNCHANGED <<garden, cluster, infra, cloud, seed, api, kubelet, worker, machines>>

CloudConfig == IF Auth = Nil THEN Nil ELSE getConfigChartValues(cp.status, cluster.shoot, Auth)

\* GetConfigChartValues removes the registry's config map before anything can fail.
GetConfigChartValues(configMaps, status) ==
    IF AcrAccess(status) THEN configMaps ELSE configMaps \ {"kubelet-acr-config"}

\* The config chart, and a look at the API server of a hibernated shoot.
StartControlPlane ==
    LET clusterShoot == cluster.shoot IN
    /\ cp.pending \/ cp.requeue
    /\ cp.run = Nil
    /\ CloudConfig # Nil
    /\ seed' = [seed EXCEPT !.config = CloudConfig,
                            !.configMaps = GetConfigChartValues(@, cp.status)
                                \cup (IF AcrAccess(cp.status) THEN {"kubelet-acr-config"} ELSE {})]
    /\ cp' = IF clusterShoot.hibernated /\ clusterShoot.deleting /\ api.replicas = 0
             THEN [cp EXCEPT !.pending = FALSE, !.requeue = TRUE]
             ELSE [cp EXCEPT !.pending = FALSE,
                             !.requeue = FALSE,
                             !.run = [shoot      |-> clusterShoot,
                                      status     |-> cp.status,
                                      scaledDown |-> /\ clusterShoot.hibernated
                                                     /\ ~clusterShoot.deleting
                                                     /\ api.replicas = 0]]
    /\ UNCHANGED <<garden, cluster, flow, infra, cloud, api, kubelet, worker, machines>>

\* GetControlPlaneChartValues and the chart: what a chart leaves out stays in
\* the seed.
ApplyControlPlaneChart_Replaces(components, values) == values
ApplyControlPlaneChart(components, values) ==
    [c \in Components |-> IF c \in DOMAIN values THEN values[c] ELSE components[c]]

\* A hibernated shoot is looked at again until its API server has stopped.
Requeue(run) == run.shoot.hibernated /\ ~run.shoot.deleting /\ ~run.scaledDown

\* The charts.  A managed resource is replaced as a whole.
FinishControlPlane ==
    /\ cp.run # Nil
    /\ seed' = [seed EXCEPT
                  !.configMaps = deleteLegacyCloudProviderConfigMaps(@, api.mounts = "configMap"),
                  !.components = ApplyControlPlaneChart(@,
                      getControlPlaneChartValues(cp.run.shoot, seed.config, cp.run.scaledDown)),
                  !.shootChart = getControlPlaneShootChartValues(cp.run.shoot, cp.run.status, seed.config)]
    /\ cp' = [cp EXCEPT !.run = Nil, !.requeue = Requeue(cp.run)]
    /\ UNCHANGED <<garden, cluster, flow, infra, cloud, api, kubelet, worker, machines>>

\* A call fails, or the controller is restarted: everything starts over.
FailControlPlane ==
    /\ cp.run # Nil
    /\ cp' = [cp EXCEPT !.run = Nil, !.pending = TRUE]
    /\ UNCHANGED <<garden, cluster, flow, infra, cloud, seed, api, kubelet, worker, machines>>

\* Gardener updates the API server and wakes it up, through the webhooks; the
\* annotation of the CSI migration is not ours to say.
DeployAPIServer ==
    /\ flow = "wait"
    /\ ~cp.pending /\ cp.run = Nil
    /\ \E needsComplete \in BOOLEAN :
          LET deployment == EnsureKubeAPIServerDeployment(api, cluster.shoot, needsComplete, seed.config,
                                                          seed.configMaps, "balancer")
          IN  /\ deployment # Nil
              /\ api' = [deployment EXCEPT
                           !.replicas = IF cluster.shoot.hibernated /\ ~cluster.shoot.deleting THEN @ ELSE 1]
    /\ flow' = IF cluster.shoot.deleting THEN "deleting" ELSE "kubelet"
    /\ UNCHANGED <<garden, cluster, infra, cloud, cp, seed, kubelet, worker, machines>>

\* Gardener waits for the API server, whose pods need what they mount.
DeployKubelet ==
    /\ flow = "kubelet"
    /\ api.mounts = "secret" /\ api.replicas = 1 => seed.config # Nil
    /\ kubelet' = EnsureKubeletFiles(cluster.shoot.version, seed.config, seed.configMaps)
    /\ flow' = "worker"
    /\ UNCHANGED <<garden, cluster, infra, cloud, cp, seed, api, worker, machines>>

-----------------------------------------------------------------------------
(* The worker controller *)

DeployWorker ==
    /\ flow = "worker"
    /\ worker' = [worker EXCEPT !.pools = cluster.shoot.workers,
                                !.infrastructureStatus = infra.status,
                                !.pending = TRUE]
    /\ flow' = "machines"
    /\ UNCHANGED <<garden, cluster, infra, cloud, controlPlane, machines>>

Generated == generateMachineConfig(worker, cluster.shoot.version, cluster.profile, Auth)

\* A class that is deployed again under its name is overwritten.
DeployMachineClasses(old, new) ==
    new \cup {class \in old : \A other \in new : ClassName(other) # ClassName(class)}

StartWorker ==
    /\ worker.pending
    /\ worker.run = Nil
    /\ \E generated \in {Generated} \ {Nil} :
          /\ machines' = [machines EXCEPT !.classes = DeployMachineClasses(@, generated.classes)]
          /\ worker' = [worker EXCEPT !.pending = FALSE, !.run = [config |-> generated, stored |-> FALSE]]
    /\ UNCHANGED <<garden, cluster, flow, infra, cloud, controlPlane>>

StoreMachineImages ==
    /\ worker.run # Nil
    /\ ~worker.run.stored
    /\ worker' = [worker EXCEPT !.machineImages = worker.run.config.images, !.run.stored = TRUE]
    /\ UNCHANGED <<garden, cluster, flow, infra, cloud, controlPlane, machines>>

\* The deployments, and the classes that no deployment wants any more.
FinishWorker ==
    /\ worker.run # Nil
    /\ worker.run.stored
    /\ machines' = [classes |-> worker.run.config.classes, deployments |-> worker.run.config.deployments]
    /\ worker' = [worker EXCEPT !.run = Nil]
    /\ UNCHANGED <<garden, cluster, flow, infra, cloud, controlPlane>>

FailWorker ==
    /\ worker.run # Nil
    /\ worker' = [worker EXCEPT !.run = Nil, !.pending = TRUE]
    /\ UNCHANGED <<garden, cluster, flow, infra, cloud, controlPlane, machines>>

\* At its end the flow stops the API server of a hibernated shoot.
FinishFlow ==
    /\ flow = "machines"
    /\ ~worker.pending /\ worker.run = Nil
    /\ api' = IF cluster.shoot.hibernated THEN [api EXCEPT !.replicas = 0] ELSE api
    /\ flow' = "done"
    /\ UNCHANGED <<garden, cluster, infra, cloud, cp, seed, kubelet, worker, machines>>

-----------------------------------------------------------------------------
\* Nothing is there yet, or a release that kept the cloud configuration in
\* config maps and no domain counts in the status has built the shoot and was
\* replaced between two of the flow's stages.
Fresh ==
    /\ flow = "idle"
    /\ infra = [config |-> shoot.infra, status |-> Nil]
    /\ cloud = Nil
    /\ cp = [status |-> Nil, pending |-> FALSE, requeue |-> FALSE, run |-> Nil]
    /\ seed = [config |-> Nil, configMaps |-> {}, components |-> [c \in Components |-> Nil], shootChart |-> Nil]
    /\ api = [mounts |-> "none", checksum |-> Nil, address |-> Nil, replicas |-> 0]

LegacyStatus(status) ==
    [status EXCEPT !.availabilitySets =
        [i \in DOMAIN @ |-> [@[i] EXCEPT !.countFaultDomains = Nil, !.countUpdateDomains = Nil]]]

Legacy ==
    /\ flow \in {"idle", "wait", "kubelet"}
    /\ cloud = ComputeTerraformerChartValues(shoot.infra, Nil, profile)
    /\ cloud # Nil
    /\ infra = [config |-> shoot.infra,
                status |-> LegacyStatus(ComputeStatus(Outputs(cloud), shoot.infra))]
    /\ cp = [status |-> infra.status, pending |-> FALSE, requeue |-> FALSE, run |-> Nil]
    /\ seed = [config |-> Nil, configMaps |-> LegacyConfigMaps, components |-> [c \in Components |-> Nil], shootChart |-> Nil]
    /\ api = [mounts |-> "configMap", checksum |-> LegacyConfig, address |-> "balancer", replicas |-> 1]

Init ==
    /\ \E created \in Created :
          /\ Handle(Nil, created[1]) /\ ~created[1].deleting
          /\ ValidateCloudProfileConfig(created[2])
          /\ shoot = created[1]
          /\ profile = created[2]
    /\ cluster = [shoot |-> shoot, profile |-> profile]
    /\ Fresh \/ Legacy
    /\ kubelet = [config |-> Nil, acr |-> FALSE]
    /\ worker = [pools |-> <<>>, infrastructureStatus |-> Nil, machineImages |-> <<>>, pending |-> FALSE,
                 run |-> Nil]
    /\ machines = [classes |-> {}, deployments |-> {}]
    /\ immutableKept = TRUE
    /\ events = 0

Next ==
    \/ ChangeShoot \/ ChangeProfile \/ StartFlow
    \/ ApplyInfrastructure \/ StoreInfrastructureStatus
    \/ DeployControlPlane \/ StartControlPlane \/ FinishControlPlane \/ FailControlPlane
    \/ DeployAPIServer \/ DeployKubelet
    \/ DeployWorker \/ StartWorker \/ StoreMachineImages \/ FinishWorker \/ FailWorker
    \/ FinishFlow

Spec == Init /\ [][Next]_vars
-----------------------------------------------------------------------------
(* Properties *)

\* Every resource has the shape the API gives it.
TypeOK ==
    /\ shoot \in Shoots /\ cluster \in [shoot : Shoots, profile : Profiles]
    /\ profile \in Profiles
    /\ flow \in Stages
    /\ infra.config \in InfrastructureConfig
    /\ cp.pending \in BOOLEAN /\ cp.requeue \in BOOLEAN
    /\ seed.configMaps \subseteq LegacyConfigMaps \cup {"kubelet-acr-config"}
    /\ DOMAIN seed.components = Components
    /\ api.mounts \in {"none", "configMap", "secret"} /\ api.replicas \in 0..1
    /\ kubelet.acr \in BOOLEAN
    /\ worker.pending \in BOOLEAN
    /\ immutableKept \in BOOLEAN
    /\ events \in 0..MaxEvents

StoredCounts(status) ==
    IF status = Nil THEN Nil
    ELSE LET set == FindByPurpose(status.availabilitySets, "nodes") IN
         IF set = Nil \/ set.countFaultDomains = Nil \/ set.countUpdateDomains = Nil THEN Nil
         ELSE [faultDomains |-> set.countFaultDomains, updateDomains |-> set.countUpdateDomains]

\* An availability set whose domain counts have been stored is never applied
\* with others, whatever becomes of the CloudProfile (findDomainCounts): Azure
\* would have to build it anew under the running machines.
DomainCountsKept ==
    [][\A counts \in {StoredCounts(infra.status)} :
          counts # Nil /\ cloud'.create.availabilitySet => cloud'.counts = counts]_cloud

InfrastructureRenders ==
    infra.status # Nil /\ immutableKept /\ flow # "idle" =>
        \/ Layout # Nil
        \/ /\ StoredCounts(infra.status) = Nil
           /\ Region \notin DOMAIN cluster.profile.countFaultDomains
                                \cap DOMAIN cluster.profile.countUpdateDomains
ControlPlaneRenders == cp.pending => CloudConfig # Nil
WorkersRender ==
    worker.infrastructureStatus # Nil /\ ~worker.pending /\ worker.run = Nil => Generated # Nil

\* With a complete secret, what was reconciled once can be reconciled again
\* after every change that keeps the immutable fields.  The CloudProfile is
\* asked only for domain counts that were never stored, and not for a shoot
\* that has become zoned; every status the infrastructure controller hands
\* over makes a cloud configuration; and workers whose image has left the
\* CloudProfile find it in their status (types_worker.go:27).
StaysRenderable == InfrastructureRenders /\ (Auth # Nil => ControlPlaneRenders /\ WorkersRender)

SameBag(s, t) ==
    /\ DOMAIN s = DOMAIN t
    /\ \A x \in {s[i] : i \in DOMAIN s} \cup {t[i] : i \in DOMAIN t} :
          Cardinality({i \in DOMAIN s : s[i] = x}) = Cardinality({i \in DOMAIN t : t[i] = x})
Hardware(class) ==
    [machineType |-> class.spec.machineType, identity |-> class.spec.identity,
     osDisk      |-> class.spec.disks.osDisk]
DataDisks(class) ==
    [i \in DOMAIN class.spec.disks.dataDisks |-> <<class.spec.disks.dataDisks[i].size,
                                                  class.spec.disks.dataDisks[i].type>>]

\* A class is only overwritten with the same hardware: what needs new machines
\* gets a class of another name (WorkerPoolHash, computeAdditionalHashData).
SameNameSameMachine ==
    [][\A old \in machines.classes, new \in machines'.classes :
          ClassName(old) = ClassName(new) =>
              Hardware(old) = Hardware(new) /\ SameBag(DataDisks(old), DataDisks(new))]_machines

Quiet == flow = "done" /\ ~cp.pending /\ ~cp.requeue /\ cp.run = Nil

\* When the flow is through, the cloud controller manager's configuration, the
\* machine classes and what is applied in Azure speak of one layout; and the
\* kubelets are told to log in at the registry only where their machines have
\* the identity for it (removeAcrConfig, ensureKubeletCommandLineArgs).
AgreeOnLayout ==
    flow = "done" /\ seed.config # Nil =>
        /\ seed.config.resourceGroup = cloud.resourceGroup
        /\ seed.config.vnet.name = cloud.vnet.name
        /\ (seed.config.availabilitySetName # Nil) = cloud.create.availabilitySet
        /\ \A class \in machines.classes :
              /\ class.spec.resourceGroup = cloud.resourceGroup
              /\ class.spec.vnet = seed.config.vnet
              /\ class.spec.subnet = seed.config.subnet
              /\ class.spec.availabilitySet = seed.config.availabilitySetName
              /\ (class.zone = Nil) = cloud.create.availabilitySet
              /\ kubelet.acr => class.spec.identity # Nil

Running(components) == {c \in Components : components[c] # Nil /\ components[c].replicas > 0}

\* When the flow is through, the API server and every enabled component were
\* started with the configuration that is in the seed now, made of the
\* credentials that are valid now, and so was every machine class; and the
\* components run exactly when the shoot is awake.
RunsCurrentConfig ==
    Quiet /\ seed.config # Nil =>
        /\ api.mounts # "none" => api.checksum = seed.config
        /\ ~cluster.shoot.hibernated => api.address # Nil
        /\ seed.config.auth = Auth
        /\ \A class \in machines.classes : class.secret = Auth
        /\ \A c \in Components : Enabled(c, cluster.shoot) =>
              /\ seed.components[c] # Nil /\ seed.components[c].checksum = seed.config
              /\ (c \in Running(seed.components)) = ~cluster.shoot.hibernated

\* The config map of earlier releases stays while the API server mounts it
\* (deleteLegacyCloudProviderConfigMaps).
LegacyConfigKept == api.mounts = "configMap" => "cloud-provider-config" \in seed.configMaps

\* The deployments of a pool's zones have all its machines between them, each
\* at least as many at most as at least (DistributeOverZones).
ZoneShares ==
    flow = "done" =>
        \A i \in DOMAIN worker.pools :
            LET pool  == worker.pools[i]
                mine  == {d \in machines.deployments : d.pool = pool.name}
                Share(field) == MapThenSumSet(LAMBDA d : d[field], mine)
            IN  /\ Share("minimum") = pool.minimum /\ Share("maximum") = pool.maximum
                /\ \A d \in mine : d.minimum <= d.maximum
                /\ \A d, e \in mine : d.maximum <= e.maximum + 1

\* The components stop only after the API server, and only for a shoot that
\* hibernates.
StopsAfterAPIServer ==
    [][Running(seed.components) \ Running(seed.components') # {} =>
          api.replicas = 0 /\ cp.run.shoot.hibernated]_seed
=============================================================================
