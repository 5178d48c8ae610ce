----------------------------- MODULE ShootProofs -----------------------------
(***************************************************************************)
(* Proofs about Shoot: the layout, the cloud configuration and the machine *)
(* classes that a finished flow leaves behind agree with each other and    *)
(* with the credentials of the day, and the machines of a pool are all     *)
(* there; what was reconciled once can be reconciled again; and a class of *)
(* machines keeps its name only with its hardware.                         *)
(***************************************************************************)
EXTENDS Shoot, MachineConfigProofs

-----------------------------------------------------------------------------
(* Objects *)

\* Nil is none of the records with the fields of an object.
LEMMA ObjectIsNotNil ==
    ASSUME NEW object, DOMAIN object \subseteq Fields, object = [field \in DOMAIN object |-> object[field]]
    PROVE  object # Nil
  <1>1. SUFFICES ASSUME object = Nil PROVE FALSE
    OBVIOUS
  <1>2. {name \in Fields \cup Int : name \in DOMAIN Nil} = DOMAIN Nil
    BY <1>1
  <1> QED
    BY <1>1, <1>2, NilIsNoObject

\* No object the controllers build is taken for a missing one.
LEMMA RunIsNotNil == \A s, t, d : [shoot |-> s, status |-> t, scaledDown |-> d] # Nil
  BY NilIsNoObject DEF Fields

LEMMA WorkerRunIsNotNil == \A c, s : [config |-> c, stored |-> s] # Nil
  BY NilIsNoObject DEF Fields

LEMMA GeneratedIsNotNil == \A c, d, i : [classes |-> c, deployments |-> d, images |-> i] # Nil
  BY NilIsNoObject DEF Fields

LEMMA ComponentIsNotNil == \A r, c : [replicas |-> r, checksum |-> c] # Nil
  BY NilIsNoObject DEF Fields

LEMMA CountsAreNotNil == \A f, u : [faultDomains |-> f, updateDomains |-> u] # Nil
  BY NilIsNoObject DEF Fields

LEMMA NamedIsNotNil == \A p, n : [purpose |-> p, name |-> n] # Nil
  BY NilIsNoObject DEF Fields

LEMMA SetIsNotNil ==
    \A p, n, f, u : [purpose |-> p, name |-> n, countFaultDomains |-> f, countUpdateDomains |-> u] # Nil
  BY NilIsNoObject DEF Fields

LEMMA IdentityIsNotNil == \A i, c, a : [id |-> i, clientID |-> c, acrAccess |-> a] # Nil
  BY NilIsNoObject DEF Fields

LEMMA StatusIsNotNil ==
    \A g, v, s, t, f, a, i, z :
        [resourceGroup |-> g, vnet |-> v, subnets |-> s, routeTables |-> t, securityGroups |-> f,
         availabilitySets |-> a, identity |-> i, zoned |-> z] # Nil
  BY NilIsNoObject DEF Fields

LEMMA ConfigIsNotNil ==
    \A a, v, g, n, s, t, f, e, i, m :
        [auth |-> a, version |-> v, resourceGroup |-> g, vnet |-> n, subnet |-> s, routeTable |-> t,
         securityGroup |-> f, availabilitySetName |-> e, acrIdentityClientId |-> i, maxNodes |-> m] # Nil
  BY NilIsNoObject DEF Fields

LEMMA LayoutIsNotNil ==
    \A a, c, g, v, w, i, k :
        [create |-> a, counts |-> c, resourceGroup |-> g, vnet |-> v, workers |-> w, identity |-> i,
         outputKeys |-> k] # Nil
  BY NilIsNoObject DEF Fields

LEMMA StateIsNotNil ==
    ASSUME NEW config, NEW outputs
    PROVE  [key \in OutputKeys(config) |-> outputs[key]] # Nil
  <1>1. OutputKeys(config) \subseteq Fields
    BY DEF OutputKeys, Fields
  <1> QED
    BY <1>1, NilIsNoObject

-----------------------------------------------------------------------------
(* The status of the infrastructure *)

\* A list of one entry is searched by its entry.
LEMMA FindOnly ==
    ASSUME NEW list, DOMAIN list = {1}, list[1].purpose = "nodes"
    PROVE  FindByPurpose(list, "nodes") = list[1]
  <1>1. {i \in DOMAIN list : list[i].purpose = "nodes"} = {1}
    OBVIOUS
  <1>2. (CHOOSE i \in {1} : \A j \in {1} : i <= j) = 1
    OBVIOUS
  <1> QED
    BY <1>1, <1>2 DEF FindByPurpose, FirstOf

LEMMA FindInNothing == ASSUME NEW list, DOMAIN list = {} PROVE FindByPurpose(list, "nodes") = Nil
  BY DEF FindByPurpose, FirstOf

\* What every consumer of a status relies on.
Whole(status) ==
    /\ status # Nil
    /\ FindByPurpose(status.subnets, "nodes") # Nil
    /\ FindByPurpose(status.routeTables, "nodes") # Nil
    /\ FindByPurpose(status.securityGroups, "nodes") # Nil
    /\ status.zoned \in BOOLEAN
    /\ ~status.zoned => /\ FindByPurpose(status.availabilitySets, "nodes") # Nil
                        /\ FindByPurpose(status.availabilitySets, "nodes").name # Nil
    /\ status.identity # Nil => status.identity.id # Nil

\* The status and the layout it was computed from.
Reports(status, values) ==
    /\ status.resourceGroup = values.resourceGroup
    /\ status.vnet.name = values.vnet.name
    /\ values.create.availabilitySet = ~status.zoned

\* What Terraform is asked for, by the config.
LEMMA LayoutFacts ==
    ASSUME NEW config \in InfrastructureConfig, NEW status, NEW p,
           ComputeTerraformerChartValues(config, status, p) # Nil
    PROVE  LET values == ComputeTerraformerChartValues(config, status, p)
           IN  /\ values.outputKeys = OutputKeys(config)
               /\ values.create.availabilitySet = ~config.zoned
               /\ UsesIdentity(config) => values.identity = config.identity.name
  BY DEF ComputeTerraformerChartValues

\* The outputs of a layout give a whole status, which reports it.
LEMMA StatusOfLayout ==
    ASSUME NEW config \in InfrastructureConfig, NEW values,
           values.outputKeys = OutputKeys(config),
           values.create.availabilitySet = ~config.zoned,
           UsesIdentity(config) => values.identity = config.identity.name
    PROVE  LET status == ComputeStatus(Outputs(values), config)
           IN  /\ Whole(status) /\ Reports(status, values) /\ status.zoned = config.zoned
               /\ DOMAIN status = {"resourceGroup", "vnet", "subnets", "routeTables", "securityGroups",
                                   "availabilitySets", "identity", "zoned"}
               /\ ~status.zoned => /\ DOMAIN status.availabilitySets = {1}
                                   /\ status.availabilitySets[1].purpose = "nodes"
                                   /\ status.availabilitySets[1].name = TechnicalID
                                   /\ DOMAIN status.availabilitySets[1] =
                                          {"purpose", "name", "countFaultDomains", "countUpdateDomains"}
               /\ status.zoned => DOMAIN status.availabilitySets = {}
  <1> DEFINE outputs == Outputs(values)
             state == ExtractTerraformState(outputs, config)
             first == StatusFromTerraformState(state)
             status == ComputeStatus(outputs, config)
  <1>1. DOMAIN outputs = OutputKeys(config)
    BY DEF Outputs
  <1>2. state = [key \in OutputKeys(config) |-> outputs[key]]
    BY <1>1 DEF ExtractTerraformState
  <1>3. state # Nil
    BY <1>2, StateIsNotNil
  <1>4. /\ {"resourceGroup", "vnet", "subnet", "routeTable", "securityGroup"} \subseteq OutputKeys(config)
        /\ "availabilitySet" \in OutputKeys(config) <=> ~config.zoned
        /\ "identity" \in OutputKeys(config) <=> UsesIdentity(config)
    BY DEF OutputKeys
  <1>5. /\ state["resourceGroup"] = values.resourceGroup
        /\ state["vnet"] = values.vnet.name
        /\ state["subnet"] = TechnicalID
        /\ state["routeTable"] = TechnicalID
        /\ state["securityGroup"] = TechnicalID
        /\ ~config.zoned => state["availabilitySet"] = TechnicalID
        /\ UsesIdentity(config) => state["identity"] = config.identity.name
    BY <1>2, <1>4 DEF Outputs
  <1>6. DOMAIN state = OutputKeys(config)
    BY <1>2
  <1>7. config.zoned \in BOOLEAN
    BY DEF InfrastructureConfig
  <1> DEFINE nodes == [purpose |-> "nodes", name |-> TechnicalID]
             set == [purpose |-> "nodes", name |-> TechnicalID,
                     countFaultDomains |-> state["domainCounts"].faultDomains,
                     countUpdateDomains |-> state["domainCounts"].updateDomains]
  <1>8. /\ first.resourceGroup = values.resourceGroup
        /\ first.vnet.name = values.vnet.name
        /\ first.subnets = <<nodes>> /\ first.routeTables = <<nodes>> /\ first.securityGroups = <<nodes>>
        /\ first.zoned = config.zoned
        /\ first.availabilitySets = IF config.zoned THEN <<>> ELSE <<set>>
        /\ first.identity = IF UsesIdentity(config)
                            THEN [id |-> config.identity.name, clientID |-> config.identity.name,
                                  acrAccess |-> FALSE]
                            ELSE Nil
        /\ DOMAIN first = {"resourceGroup", "vnet", "subnets", "routeTables", "securityGroups",
                           "availabilitySets", "identity", "zoned"}
        /\ first # Nil
    BY <1>4, <1>5, <1>6, <1>7, StatusIsNotNil DEF StatusFromTerraformState
  <1>9. /\ status \in {first, [first EXCEPT !.identity.acrAccess = config.identity.acrAccess]}
        /\ status # first => first.identity # Nil
    BY <1>3 DEF ComputeStatus
  <1>10. /\ status.resourceGroup = first.resourceGroup /\ status.vnet = first.vnet
         /\ status.subnets = <<nodes>> /\ status.routeTables = <<nodes>> /\ status.securityGroups = <<nodes>>
         /\ status.zoned = config.zoned
         /\ status.availabilitySets = IF config.zoned THEN <<>> ELSE <<set>>
         /\ status.identity # Nil => UsesIdentity(config) /\ status.identity.id = config.identity.name
         /\ DOMAIN status = {"resourceGroup", "vnet", "subnets", "routeTables", "securityGroups",
                             "availabilitySets", "identity", "zoned"}
         /\ status # Nil
    <2>1. CASE status = first
      BY <2>1, <1>8
    <2>2. CASE status # first
      <3>1. status = [first EXCEPT !.identity.acrAccess = config.identity.acrAccess] /\ first.identity # Nil
        BY <2>2, <1>9
      <3>2. DOMAIN status = DOMAIN first
        BY <3>1
      <3>3. status = [resourceGroup |-> status.resourceGroup, vnet |-> status.vnet, subnets |-> status.subnets,
                      routeTables |-> status.routeTables, securityGroups |-> status.securityGroups,
                      availabilitySets |-> status.availabilitySets, identity |-> status.identity,
                      zoned |-> status.zoned]
        BY <3>1, <3>2, <1>8
      <3>4. status # Nil
        BY <3>3, StatusIsNotNil
      <3> QED
        BY <3>1, <3>2, <3>4, <1>8
    <2> QED
      BY <2>1, <2>2
  <1>11. FindByPurpose(<<nodes>>, "nodes") # Nil
    BY FindOnly, NamedIsNotNil
  <1>12. /\ FindByPurpose(<<set>>, "nodes") # Nil
         /\ FindByPurpose(<<set>>, "nodes").name # Nil
    BY FindOnly, SetIsNotNil, TechnicalAssumption, NilAssumption
  <1>13. UsesIdentity(config) => config.identity.name # Nil
    BY DEF UsesIdentity
  <1>14. Whole(status)
    BY <1>7, <1>10, <1>11, <1>12, <1>13 DEF Whole
  <1>15. Reports(status, values)
    BY <1>7, <1>8, <1>10 DEF Reports
  <1>16. ~config.zoned => /\ DOMAIN status.availabilitySets = {1}
                          /\ status.availabilitySets[1].purpose = "nodes"
                          /\ status.availabilitySets[1].name = TechnicalID
                          /\ DOMAIN status.availabilitySets[1] =
                                 {"purpose", "name", "countFaultDomains", "countUpdateDomains"}
    <2>1. <<set>>[1] = set /\ DOMAIN <<set>> = {1}
      OBVIOUS
    <2> HIDE DEF set, status
    <2>2. ~config.zoned => status.availabilitySets = <<set>>
      BY <1>10
    <2>3. /\ set.purpose = "nodes" /\ set.name = TechnicalID
          /\ DOMAIN set = {"purpose", "name", "countFaultDomains", "countUpdateDomains"}
      BY DEF set
    <2> QED
      BY <2>1, <2>2, <2>3
  <1>17. config.zoned => DOMAIN status.availabilitySets = {}
    BY <1>10
  <1> HIDE DEF status
  <1> QED
    BY <1>10, <1>14, <1>15, <1>16, <1>17 DEF status

\* What an earlier release stored for the layout is whole as well.
LEMMA LegacyStatusOfLayout ==
    ASSUME NEW status, NEW values, Whole(status), Reports(status, values),
           DOMAIN status = {"resourceGroup", "vnet", "subnets", "routeTables", "securityGroups",
                            "availabilitySets", "identity", "zoned"},
           ~status.zoned => /\ DOMAIN status.availabilitySets = {1}
                            /\ status.availabilitySets[1].purpose = "nodes"
                            /\ status.availabilitySets[1].name = TechnicalID
                            /\ DOMAIN status.availabilitySets[1] =
                                   {"purpose", "name", "countFaultDomains", "countUpdateDomains"}
    PROVE  LET legacy == LegacyStatus(status)
           IN  Whole(legacy) /\ Reports(legacy, values) /\ legacy.zoned = status.zoned
  <1> DEFINE legacy == LegacyStatus(status)
             sets == status.availabilitySets
             old == legacy.availabilitySets
  <1>1. /\ legacy.resourceGroup = status.resourceGroup /\ legacy.vnet = status.vnet
        /\ legacy.subnets = status.subnets /\ legacy.routeTables = status.routeTables
        /\ legacy.securityGroups = status.securityGroups
        /\ legacy.identity = status.identity /\ legacy.zoned = status.zoned
        /\ DOMAIN legacy = DOMAIN status
        /\ old = [i \in DOMAIN sets |-> [sets[i] EXCEPT !.countFaultDomains = Nil, !.countUpdateDomains = Nil]]
    BY DEF LegacyStatus
  <1>2. legacy = [field \in DOMAIN legacy |-> legacy[field]]
    BY DEF LegacyStatus
  <1>3. legacy # Nil
    BY <1>1, <1>2, ObjectIsNotNil DEF Fields
  <1>4. ASSUME ~status.zoned
        PROVE  FindByPurpose(old, "nodes") # Nil /\ FindByPurpose(old, "nodes").name # Nil
    <2>1. DOMAIN old = {1} /\ old[1] = [sets[1] EXCEPT !.countFaultDomains = Nil, !.countUpdateDomains = Nil]
      BY <1>1, <1>4
    <2> HIDE DEF old, legacy
    <2>2. old[1].purpose = "nodes" /\ old[1].name = TechnicalID
      BY <2>1, <1>4
    <2>3. old[1] = [purpose |-> old[1].purpose, name |-> old[1].name,
                    countFaultDomains |-> old[1].countFaultDomains,
                    countUpdateDomains |-> old[1].countUpdateDomains]
      BY <2>1, <1>4
    <2>4. old[1] # Nil
      BY <2>3, SetIsNotNil
    <2>5. FindByPurpose(old, "nodes") = old[1]
      BY <2>1, <2>2, FindOnly
    <2> QED
      BY <2>2, <2>4, <2>5, TechnicalAssumption, NilAssumption
  <1> HIDE DEF legacy, old
  <1>5. Whole(legacy)
    BY <1>1, <1>3, <1>4 DEF Whole, old
  <1>6. Reports(legacy, values)
    BY <1>1 DEF Reports
  <1> QED
    BY <1>1, <1>5, <1>6 DEF legacy

\* A cloud configuration can be made of every whole status.
LEMMA ConfigOfStatus ==
    ASSUME NEW status, NEW s, NEW auth, Whole(status)
    PROVE  LET config == getConfigChartValues(status, s, auth)
           IN  /\ config # Nil
               /\ config.auth = auth
               /\ config.resourceGroup = status.resourceGroup
               /\ config.vnet = status.vnet
               /\ config.subnet = FindByPurpose(status.subnets, "nodes").name
               /\ config.availabilitySetName =
                      IF status.zoned THEN Nil ELSE FindByPurpose(status.availabilitySets, "nodes").name
  BY ConfigIsNotNil DEF Whole, getConfigChartValues

-----------------------------------------------------------------------------
(* Types *)

\* The fields of the resources, and shoots that were admitted.
Shape ==
    /\ DOMAIN infra = {"config", "status"}
    /\ DOMAIN cp = {"status", "pending", "requeue", "run"}
    /\ DOMAIN seed = {"config", "configMaps", "components", "shootChart"}
    /\ DOMAIN api = {"mounts", "checksum", "address", "replicas"}
    /\ DOMAIN worker = {"pools", "infrastructureStatus", "machineImages", "pending", "run"}
    /\ DOMAIN machines = {"classes", "deployments"}
    /\ worker.run # Nil => DOMAIN worker.run = {"config", "stored"}
    /\ shoot.infra # Nil /\ cluster.shoot.infra # Nil

TypeInv == TypeOK /\ Shape

LEMMA Admitted == ASSUME NEW old, NEW new, Handle(old, new) PROVE new.infra # Nil
  BY DEF Handle, validateShootCreation, validateShootUpdate

\* What the webhooks make of the deployment of the API server.
LEMMA EnsuredAPIServer ==
    ASSUME NEW deployment, NEW s, NEW needsComplete, NEW config, NEW configMaps, NEW address,
           DOMAIN deployment = {"mounts", "checksum", "address", "replicas"},
           EnsureKubeAPIServerDeployment(deployment, s, needsComplete, config, configMaps, address) # Nil
    PROVE  LET new == EnsureKubeAPIServerDeployment(deployment, s, needsComplete, config, configMaps, address)
           IN  /\ DOMAIN new = {"mounts", "checksum", "address", "replicas"}
               /\ new.mounts \in {"none", "secret"}
               /\ new.mounts # "none" => new.checksum = ensureChecksumAnnotations(config, configMaps)
               /\ ~s.hibernated => new.address = address
               /\ new.replicas = deployment.replicas
  BY DEF EnsureKubeAPIServerDeployment, EnsureAddress, EnsureCloudConfig

LEMMA TypeInit == Init => TypeInv
  <1> SUFFICES ASSUME Init PROVE TypeInv
    OBVIOUS
  <1>1. PICK created \in Created : /\ Handle(Nil, created[1])
                                  /\ shoot = created[1]
                                  /\ profile = created[2]
    BY DEF Init
  <1>2. shoot \in Shoots /\ profile \in Profiles /\ shoot.infra # Nil
    BY <1>1, Admitted, ShootAssumption
  <1>3. shoot.infra \in InfrastructureConfig
    BY <1>2, ShootAssumption
  <1>4. /\ cluster = [shoot |-> shoot, profile |-> profile]
        /\ kubelet = [config |-> Nil, acr |-> FALSE]
        /\ worker = [pools |-> <<>>, infrastructureStatus |-> Nil, machineImages |-> <<>>, pending |-> FALSE,
                     run |-> Nil]
        /\ machines = [classes |-> {}, deployments |-> {}]
        /\ immutableKept = TRUE /\ events = 0
    BY DEF Init
  <1>5. CASE Fresh
    BY <1>2, <1>3, <1>4, <1>5, ShootAssumption DEF Fresh, TypeInv, TypeOK, Shape, Stages
  <1>6. CASE Legacy
    <2>1. /\ flow \in Stages /\ infra.config = shoot.infra
          /\ DOMAIN infra = {"config", "status"} /\ DOMAIN cp = {"status", "pending", "requeue", "run"}
          /\ cp.pending = FALSE /\ cp.requeue = FALSE
          /\ DOMAIN seed = {"config", "configMaps", "components", "shootChart"}
          /\ seed.configMaps = LegacyConfigMaps /\ DOMAIN seed.components = Components
          /\ DOMAIN api = {"mounts", "checksum", "address", "replicas"}
          /\ api.mounts = "configMap" /\ api.replicas = 1
      BY <1>6 DEF Legacy, Stages
    <2>2. MaxEvents \in Nat
      BY ShootAssumption
    <2>3. TypeOK
      <3>1. /\ cluster \in [shoot : Shoots, profile : Profiles]
            /\ kubelet.acr = FALSE /\ worker.pending = FALSE
        BY <1>2, <1>4
      <3>2. infra.config \in InfrastructureConfig /\ events \in 0 .. MaxEvents
        BY <1>3, <1>4, <2>1, <2>2
      <3>3. /\ cp.pending \in BOOLEAN /\ cp.requeue \in BOOLEAN /\ kubelet.acr \in BOOLEAN
            /\ worker.pending \in BOOLEAN /\ immutableKept \in BOOLEAN
        BY <1>4, <2>1, <3>1
      <3>4. api.mounts \in {"none", "configMap", "secret"} /\ api.replicas \in 0 .. 1
        BY <2>1
      <3>5. seed.configMaps \subseteq LegacyConfigMaps \cup {"kubelet-acr-config"}
        BY <2>1
      <3> QED
        BY <1>2, <2>1, <3>1, <3>2, <3>3, <3>4, <3>5 DEF TypeOK
    <2>4. Shape
      BY <1>2, <1>4, <2>1 DEF Shape
    <2> QED
      BY <2>3, <2>4 DEF TypeInv
  <1> QED
    BY <1>5, <1>6 DEF Init

LEMMA TypeNext == TypeInv /\ [Next]_vars => TypeInv'
  <1> SUFFICES ASSUME TypeInv, [Next]_vars PROVE TypeInv'
    OBVIOUS
  <1>a. /\ MaxEvents \in Nat
        /\ \A s \in Shoots : s.infra # Nil => s.infra \in InfrastructureConfig
    BY ShootAssumption
  <1>b. events \in 0 .. MaxEvents /\ immutableKept \in BOOLEAN
    BY DEF TypeInv, TypeOK
  <1>1. CASE ChangeShoot
    <2>1. PICK new \in Shoots :
             /\ Handle(shoot, new) /\ shoot' = new
             /\ immutableKept' = (immutableKept /\ ValidateInfrastructureConfigUpdate(shoot.infra, new.infra))
      BY <1>1 DEF ChangeShoot
    <2>2. shoot' \in Shoots /\ shoot'.infra # Nil /\ immutableKept' \in BOOLEAN
      BY <2>1, <1>b, Admitted
    <2>3. events' \in 0 .. MaxEvents
      BY <1>1, <1>a, <1>b DEF ChangeShoot
    <2>4. UNCHANGED <<profile, cluster, flow, infra, cloud, cp, seed, api, kubelet, worker, machines>>
      BY <1>1 DEF ChangeShoot, controlPlane
    <2>5. TypeOK'
      BY <2>2, <2>3, <2>4 DEF TypeInv, TypeOK
    <2>6. Shape'
      BY <2>2, <2>4 DEF TypeInv, Shape
    <2> QED
      BY <2>5, <2>6 DEF TypeInv
  <1>2. CASE ChangeProfile
    <2>1. profile' \in Profiles
      BY <1>2 DEF ChangeProfile
    <2>2. events' \in 0 .. MaxEvents
      BY <1>2, <1>a, <1>b DEF ChangeProfile
    <2>3. UNCHANGED <<shoot, cluster, flow, infra, cloud, cp, seed, api, kubelet, worker, machines,
                      immutableKept>>
      BY <1>2 DEF ChangeProfile, controlPlane
    <2>4. TypeOK'
      BY <2>1, <2>2, <2>3 DEF TypeInv, TypeOK
    <2>5. Shape'
      BY <2>3 DEF TypeInv, Shape
    <2> QED
      BY <2>4, <2>5 DEF TypeInv
  <1>3. CASE StartFlow
    <2>1. events' \in 0 .. MaxEvents
      <3>1. events' = events \/ (events < MaxEvents /\ events' = events + 1)
        BY <1>3 DEF StartFlow
      <3> QED
        BY <3>1, <1>a, <1>b
    <2>2. infra' \in {infra, [infra EXCEPT !.config = shoot.infra]}
      BY <1>3 DEF StartFlow
    <2>3. DOMAIN infra' = {"config", "status"} /\ infra'.config \in InfrastructureConfig
      BY <2>2, <1>a DEF TypeInv, TypeOK, Shape
    <2>4. flow' \in {"infrastructure", "control plane", "deleting"}
      BY <1>3 DEF StartFlow
    <2>t. TypeOK'
      BY <1>3, <2>1, <2>3, <2>4 DEF StartFlow, controlPlane, TypeInv, TypeOK, Stages
    <2>s. Shape'
      BY <1>3, <2>1, <2>3, <2>4 DEF StartFlow, controlPlane, TypeInv, Shape
    <2> QED
      BY <2>t, <2>s DEF TypeInv
  <1>4. CASE ApplyInfrastructure
    <2>1. TypeOK'
      BY <1>4 DEF ApplyInfrastructure, garden, controlPlane, TypeInv, TypeOK, Stages
    <2>2. Shape'
      BY <1>4 DEF ApplyInfrastructure, garden, controlPlane, TypeInv, Shape
    <2> QED
      BY <2>1, <2>2 DEF TypeInv
  <1>5. CASE StoreInfrastructureStatus
    <2>1. TypeOK'
      BY <1>5 DEF StoreInfrastructureStatus, garden, controlPlane, TypeInv, TypeOK, Shape, Stages
    <2>2. Shape'
      BY <1>5 DEF StoreInfrastructureStatus, garden, controlPlane, TypeInv, Shape
    <2> QED
      BY <2>1, <2>2 DEF TypeInv
  <1>6. CASE DeployControlPlane
    <2>1. TypeOK'
      BY <1>6 DEF DeployControlPlane, garden, TypeInv, TypeOK, Shape, Stages
    <2>2. Shape'
      BY <1>6 DEF DeployControlPlane, garden, TypeInv, Shape
    <2> QED
      BY <2>1, <2>2 DEF TypeInv
  <1>7. CASE StartControlPlane
    <2>1. /\ DOMAIN seed' = DOMAIN seed /\ seed'.components = seed.components
          /\ seed'.configMaps \subseteq seed.configMaps \cup {"kubelet-acr-config"}
      BY <1>7 DEF StartControlPlane, GetConfigChartValues
    <2>2. DOMAIN cp' = DOMAIN cp /\ cp'.pending = FALSE /\ cp'.requeue \in BOOLEAN
      BY <1>7 DEF StartControlPlane
    <2>t. TypeOK'
      BY <1>7, <2>1, <2>2 DEF StartControlPlane, garden, TypeInv, TypeOK, Stages
    <2>s. Shape'
      BY <1>7, <2>1, <2>2 DEF StartControlPlane, garden, TypeInv, Shape
    <2> QED
      BY <2>t, <2>s DEF TypeInv
  <1>8. CASE FinishControlPlane
    <2>1. /\ DOMAIN seed' = DOMAIN seed
          /\ seed'.configMaps \subseteq seed.configMaps
          /\ DOMAIN seed'.components = Components
      BY <1>8 DEF FinishControlPlane, deleteLegacyCloudProviderConfigMaps, ApplyControlPlaneChart
    <2>2. DOMAIN cp' = DOMAIN cp /\ cp'.pending = cp.pending /\ cp'.requeue \in BOOLEAN
      BY <1>8 DEF FinishControlPlane, Requeue
    <2>t. TypeOK'
      BY <1>8, <2>1, <2>2 DEF FinishControlPlane, garden, TypeInv, TypeOK, Stages
    <2>s. Shape'
      BY <1>8, <2>1, <2>2 DEF FinishControlPlane, garden, TypeInv, Shape
    <2> QED
      BY <2>t, <2>s DEF TypeInv
  <1>9. CASE FailControlPlane
    <2>1. TypeOK'
      BY <1>9 DEF FailControlPlane, garden, TypeInv, TypeOK, Shape, Stages
    <2>2. Shape'
      BY <1>9 DEF FailControlPlane, garden, TypeInv, Shape
    <2> QED
      BY <2>1, <2>2 DEF TypeInv
  <1>10. CASE DeployAPIServer
    <2>0. DOMAIN api = {"mounts", "checksum", "address", "replicas"} /\ api.replicas \in 0 .. 1
      BY DEF TypeInv, TypeOK, Shape
    <2>1. PICK deployment :
             /\ DOMAIN deployment = {"mounts", "checksum", "address", "replicas"}
             /\ deployment.mounts \in {"none", "secret"}
             /\ deployment.replicas = api.replicas
             /\ api' = [deployment EXCEPT
                          !.replicas = IF cluster.shoot.hibernated /\ ~cluster.shoot.deleting THEN @ ELSE 1]
      BY <1>10, <2>0, EnsuredAPIServer DEF DeployAPIServer
    <2>2. /\ DOMAIN api' = {"mounts", "checksum", "address", "replicas"}
          /\ api'.mounts \in {"none", "secret"} /\ api'.replicas \in 0 .. 1
      BY <2>0, <2>1
    <2>3. UNCHANGED <<garden, cluster, infra, cloud, cp, seed, kubelet, worker, machines>>
          /\ flow' \in Stages
      BY <1>10 DEF DeployAPIServer, Stages
    <2>4. TypeOK'
      BY <2>2, <2>3 DEF TypeInv, TypeOK, garden
    <2>5. Shape'
      BY <2>2, <2>3 DEF TypeInv, Shape, garden
    <2> QED
      BY <2>4, <2>5 DEF TypeInv
  <1>11. CASE DeployKubelet
    <2>1. TypeOK'
      BY <1>11 DEF DeployKubelet, garden, EnsureKubeletFiles, getAcrConfigMap, TypeInv, TypeOK, Stages
    <2>2. Shape'
      BY <1>11 DEF DeployKubelet, garden, EnsureKubeletFiles, getAcrConfigMap, TypeInv, Shape
    <2> QED
      BY <2>1, <2>2 DEF TypeInv
  <1>12. CASE DeployWorker
    <2>1. TypeOK'
      BY <1>12 DEF DeployWorker, garden, controlPlane, TypeInv, TypeOK, Stages
    <2>2. Shape'
      BY <1>12 DEF DeployWorker, garden, controlPlane, TypeInv, Shape
    <2> QED
      BY <2>1, <2>2 DEF TypeInv
  <1>13. CASE StartWorker
    <2>1. TypeOK'
      BY <1>13 DEF StartWorker, garden, controlPlane, TypeInv, TypeOK, Shape, Stages
    <2>2. Shape'
      BY <1>13 DEF StartWorker, garden, controlPlane, TypeInv, Shape
    <2> QED
      BY <2>1, <2>2 DEF TypeInv
  <1>14. CASE StoreMachineImages
    <2>1. TypeOK'
      BY <1>14 DEF StoreMachineImages, garden, controlPlane, TypeInv, TypeOK, Shape, Stages
    <2>2. Shape'
      BY <1>14 DEF StoreMachineImages, garden, controlPlane, TypeInv, Shape
    <2> QED
      BY <2>1, <2>2 DEF TypeInv
  <1>15. CASE FinishWorker
    <2>1. TypeOK'
      BY <1>15 DEF FinishWorker, garden, controlPlane, TypeInv, TypeOK, Shape, Stages
    <2>2. Shape'
      BY <1>15 DEF FinishWorker, garden, controlPlane, TypeInv, Shape
    <2> QED
      BY <2>1, <2>2 DEF TypeInv
  <1>16. CASE FailWorker
    <2>1. TypeOK'
      BY <1>16 DEF FailWorker, garden, controlPlane, TypeInv, TypeOK, Shape, Stages
    <2>2. Shape'
      BY <1>16 DEF FailWorker, garden, controlPlane, TypeInv, Shape
    <2> QED
      BY <2>1, <2>2 DEF TypeInv
  <1>17. CASE FinishFlow
    <2>1. TypeOK'
      BY <1>17 DEF FinishFlow, garden, TypeInv, TypeOK, Stages
    <2>2. Shape'
      BY <1>17 DEF FinishFlow, garden, TypeInv, Shape
    <2> QED
      BY <2>1, <2>2 DEF TypeInv
  <1>18. CASE UNCHANGED vars
    <2>1. TypeOK'
      BY <1>18 DEF TypeInv, TypeOK, vars
    <2>2. Shape'
      BY <1>18 DEF TypeInv, Shape, vars
    <2> QED
      BY <2>1, <2>2 DEF TypeInv
  <1> QED
    BY <1>1, <1>2, <1>3, <1>4, <1>5, <1>6, <1>7, <1>8, <1>9, <1>10, <1>11, <1>12, <1>13, <1>14, <1>15, <1>16,
       <1>17, <1>18 DEF Next

\* Every resource keeps the shape the API gives it, and every config the
\* controllers work from was admitted.
THEOREM ShootTypeCorrect == Spec => []TypeInv
  <1> QED
    BY TypeInit, TypeNext, PTL DEF Spec

\* Every resource has the shape the API gives it.
THEOREM ShootTypeOK == Spec => []TypeOK
  <1>1. TypeInv => TypeOK
    BY DEF TypeInv
  <1> QED
    BY <1>1, ShootTypeCorrect, PTL

-----------------------------------------------------------------------------
(* The API server and what it mounts *)

\* The steps that touch neither the API server, nor the cloud configuration,
\* nor what the control plane controller is about to do.
LEMMA ControlPlaneFrame ==
    ASSUME ChangeShoot \/ ChangeProfile \/ StartFlow \/ ApplyInfrastructure \/ StoreInfrastructureStatus
              \/ DeployWorker \/ StartWorker \/ StoreMachineImages \/ FinishWorker \/ FailWorker
              \/ UNCHANGED vars
    PROVE  UNCHANGED <<cp, seed, api, kubelet>>
  <1>1. CASE ChangeShoot
    BY <1>1 DEF ChangeShoot, controlPlane
  <1>2. CASE ChangeProfile
    BY <1>2 DEF ChangeProfile, controlPlane
  <1>3. CASE StartFlow
    BY <1>3 DEF StartFlow, controlPlane
  <1>4. CASE ApplyInfrastructure
    BY <1>4 DEF ApplyInfrastructure, controlPlane
  <1>5. CASE StoreInfrastructureStatus
    BY <1>5 DEF StoreInfrastructureStatus, controlPlane
  <1>6. CASE DeployWorker
    BY <1>6 DEF DeployWorker, controlPlane
  <1>7. CASE StartWorker
    BY <1>7 DEF StartWorker, controlPlane
  <1>8. CASE StoreMachineImages
    BY <1>8 DEF StoreMachineImages, controlPlane
  <1>9. CASE FinishWorker
    BY <1>9 DEF FinishWorker, controlPlane
  <1>10. CASE FailWorker
    BY <1>10 DEF FailWorker, controlPlane
  <1>11. CASE UNCHANGED vars
    BY <1>11 DEF vars
  <1> QED
    BY <1>1, <1>2, <1>3, <1>4, <1>5, <1>6, <1>7, <1>8, <1>9, <1>10, <1>11

\* The config map of earlier releases stays while the API server mounts it.
THEOREM ShootLegacyConfigKept == Spec => []LegacyConfigKept
  <1>1. Init => LegacyConfigKept
    BY DEF Init, Fresh, Legacy, LegacyConfigKept, LegacyConfigMaps
  <1>2. TypeInv /\ LegacyConfigKept /\ [Next]_vars => LegacyConfigKept'
    <2> SUFFICES ASSUME TypeInv, LegacyConfigKept, [Next]_vars PROVE LegacyConfigKept'
      OBVIOUS
    <2>0. /\ DOMAIN api = {"mounts", "checksum", "address", "replicas"}
          /\ DOMAIN seed = {"config", "configMaps", "components", "shootChart"}
      BY DEF TypeInv, Shape
    <2>1. CASE StartControlPlane
      <3>1. api' = api /\ seed.configMaps \ {"kubelet-acr-config"} \subseteq seed'.configMaps
        BY <2>0, <2>1 DEF StartControlPlane, GetConfigChartValues
      <3> QED
        BY <3>1 DEF LegacyConfigKept
    <2>2. CASE FinishControlPlane
      <3>1. /\ api' = api
            /\ seed'.configMaps = deleteLegacyCloudProviderConfigMaps(seed.configMaps, api.mounts = "configMap")
        BY <2>0, <2>2 DEF FinishControlPlane
      <3> QED
        BY <3>1 DEF LegacyConfigKept, deleteLegacyCloudProviderConfigMaps, LegacyConfigMaps
    <2>3. CASE DeployAPIServer
      <3>1. PICK deployment : /\ DOMAIN deployment = {"mounts", "checksum", "address", "replicas"}
                              /\ deployment.mounts \in {"none", "secret"}
                              /\ api' = [deployment EXCEPT
                                   !.replicas = IF cluster.shoot.hibernated /\ ~cluster.shoot.deleting THEN @ ELSE 1]
        BY <2>0, <2>3, EnsuredAPIServer DEF DeployAPIServer
      <3>2. api'.mounts \in {"none", "secret"}
        BY <3>1
      <3> QED
        BY <3>2 DEF LegacyConfigKept
    <2>4. CASE FinishFlow
      <3>1. api'.mounts = api.mounts /\ seed' = seed
        BY <2>0, <2>4 DEF FinishFlow
      <3> QED
        BY <3>1 DEF LegacyConfigKept
    <2>5. CASE DeployControlPlane \/ FailControlPlane \/ DeployKubelet
      BY <2>5 DEF DeployControlPlane, FailControlPlane, DeployKubelet, LegacyConfigKept
    <2> QED
      BY <2>1, <2>2, <2>3, <2>4, <2>5, ControlPlaneFrame DEF Next, LegacyConfigKept
  <1> QED
    BY <1>1, <1>2, ShootTypeCorrect, PTL DEF Spec

\* A run that has seen the API server of a hibernated shoot stopped finds it
\* stopped until it ends.
StopInv == cp.run # Nil /\ cp.run.scaledDown => cp.run.shoot.hibernated /\ api.replicas = 0

\* Only a hibernated shoot whose API server has stopped is scaled down.
THEOREM ShootStopInv == Spec => []StopInv
  <1>1. Init => StopInv
    BY DEF Init, Fresh, Legacy, StopInv
  <1>2. TypeInv /\ StopInv /\ [Next]_vars => StopInv'
    <2> SUFFICES ASSUME TypeInv, StopInv, [Next]_vars PROVE StopInv'
      OBVIOUS
    <2>0. /\ DOMAIN api = {"mounts", "checksum", "address", "replicas"}
          /\ DOMAIN cp = {"status", "pending", "requeue", "run"}
      BY DEF TypeInv, Shape
    <2>1. CASE StartControlPlane
      BY <2>0, <2>1 DEF StartControlPlane, StopInv
    <2>2. CASE FinishControlPlane \/ FailControlPlane
      BY <2>0, <2>2 DEF FinishControlPlane, FailControlPlane, StopInv
    <2>3. CASE DeployAPIServer
      BY <2>3 DEF DeployAPIServer, StopInv
    <2>4. CASE FinishFlow
      <3>1. cp' = cp /\ api'.replicas \in {0, api.replicas}
        BY <2>0, <2>4 DEF FinishFlow
      <3> QED
        BY <3>1 DEF StopInv
    <2>5. CASE DeployControlPlane \/ DeployKubelet
      BY <2>0, <2>5 DEF DeployControlPlane, DeployKubelet, StopInv
    <2> QED
      BY <2>1, <2>2, <2>3, <2>4, <2>5, ControlPlaneFrame DEF Next, StopInv
  <1> QED
    BY <1>1, <1>2, ShootTypeCorrect, PTL DEF Spec

\* A step that stops a component ends such a run.
LEMMA StopStep == TypeInv /\ StopInv /\ [Next]_vars =>
    [Running(seed.components) \ Running(seed.components') # {} => api.replicas = 0 /\ cp.run.shoot.hibernated]_seed
  <1> SUFFICES ASSUME TypeInv, StopInv, [Next]_vars, seed' # seed,
                      NEW c \in Running(seed.components) \ Running(seed.components')
               PROVE  api.replicas = 0 /\ cp.run.shoot.hibernated
    OBVIOUS
  <1>0. /\ DOMAIN seed = {"config", "configMaps", "components", "shootChart"}
        /\ DOMAIN seed.components = Components
    BY DEF TypeInv, TypeOK, Shape
  <1>1. CASE StartControlPlane
    BY <1>0, <1>1 DEF StartControlPlane
  <1>2. CASE FinishControlPlane
    <2> DEFINE values == getControlPlaneChartValues(cp.run.shoot, seed.config, cp.run.scaledDown)
    <2>1. cp.run # Nil /\ seed'.components = ApplyControlPlaneChart(seed.components, values)
      BY <1>0, <1>2 DEF FinishControlPlane
    <2>2. c \in Components /\ seed.components[c] # Nil /\ seed.components[c].replicas > 0
          /\ ~(seed'.components[c] # Nil /\ seed'.components[c].replicas > 0)
      BY DEF Running
    <2>3. c \in DOMAIN values /\ seed'.components[c] = values[c]
      BY <2>1, <2>2 DEF ApplyControlPlaneChart
    <2>4. values[c] = [replicas |-> Replicas(cp.run.shoot.hibernated, cp.run.shoot.deleting, cp.run.scaledDown),
                       checksum |-> seed.config]
      BY <2>3 DEF getControlPlaneChartValues
    <2>5. Replicas(cp.run.shoot.hibernated, cp.run.shoot.deleting, cp.run.scaledDown) # 1
      BY <2>2, <2>3, <2>4, ComponentIsNotNil
    <2>6. cp.run.scaledDown /\ cp.run.shoot.hibernated
      BY <2>5 DEF Replicas
    <2> QED
      BY <2>1, <2>6 DEF StopInv
  <1>3. CASE DeployControlPlane \/ FailControlPlane \/ DeployAPIServer \/ DeployKubelet \/ FinishFlow
    BY <1>3 DEF DeployControlPlane, FailControlPlane, DeployAPIServer, DeployKubelet, FinishFlow
  <1> QED
    BY <1>1, <1>2, <1>3, ControlPlaneFrame DEF Next

\* The components stop only after the API server, and only for a shoot that
\* hibernates.
THEOREM ShootStopsAfterAPIServer == Spec => StopsAfterAPIServer
  <1> QED
    BY StopStep, ShootTypeCorrect, ShootStopInv, PTL DEF Spec, StopsAfterAPIServer

-----------------------------------------------------------------------------
(* The domain counts *)

LEMMA StoredCountsWin ==
    ASSUME NEW config, NEW status, NEW p, StoredCounts(status) # Nil,
           ComputeTerraformerChartValues(config, status, p) # Nil,
           ComputeTerraformerChartValues(config, status, p).create.availabilitySet
    PROVE  ComputeTerraformerChartValues(config, status, p).counts = StoredCounts(status)
  <1> DEFINE set == FindByPurpose(status.availabilitySets, "nodes")
  <1>1. /\ status # Nil /\ set # Nil /\ set.countFaultDomains # Nil /\ set.countUpdateDomains # Nil
        /\ StoredCounts(status) = [faultDomains |-> set.countFaultDomains, updateDomains |-> set.countUpdateDomains]
    BY DEF StoredCounts
  <1>2. findDomainCounts(status, p) = StoredCounts(status)
    BY <1>1 DEF findDomainCounts
  <1> QED
    BY <1>2 DEF ComputeTerraformerChartValues

\* An availability set whose domain counts have been stored is never applied
\* with others, whatever becomes of the CloudProfile.
THEOREM ShootDomainCountsKept == Spec => DomainCountsKept
  <1>1. [Next]_vars => [\A counts \in {StoredCounts(infra.status)} :
                           counts # Nil /\ cloud'.create.availabilitySet => cloud'.counts = counts]_cloud
    <2> SUFFICES ASSUME Next, cloud' # cloud, StoredCounts(infra.status) # Nil, cloud'.create.availabilitySet
                 PROVE  cloud'.counts = StoredCounts(infra.status)
      BY DEF vars
    <2>1. ApplyInfrastructure
      BY DEF Next, ChangeShoot, ChangeProfile, StartFlow, StoreInfrastructureStatus, DeployControlPlane,
             StartControlPlane, FinishControlPlane, FailControlPlane, DeployAPIServer, DeployKubelet,
             DeployWorker, StartWorker, StoreMachineImages, FinishWorker, FailWorker, FinishFlow
    <2> QED
      BY <2>1, StoredCountsWin DEF ApplyInfrastructure, Layout
  <1> QED
    BY <1>1, PTL DEF Spec, DomainCountsKept

-----------------------------------------------------------------------------
(* The flow and the status *)

\* Where the API server of the flow has been deployed.
Deployed == {"kubelet", "worker", "machines", "done"}

\* Everything that comes after the status was stored.
Stored == {"control plane", "wait"} \cup Deployed

\* The steps of the garden and of the controllers that the flow waits for.
LEMMA FlowFrame ==
    ASSUME ChangeShoot \/ ChangeProfile \/ StartControlPlane \/ FinishControlPlane \/ FailControlPlane
              \/ StartWorker \/ StoreMachineImages \/ FinishWorker \/ FailWorker \/ UNCHANGED vars
    PROVE  UNCHANGED <<flow, cluster, infra, cloud>>
  <1>1. CASE ChangeShoot
    BY <1>1 DEF ChangeShoot
  <1>2. CASE ChangeProfile
    BY <1>2 DEF ChangeProfile
  <1>3. CASE StartControlPlane
    BY <1>3 DEF StartControlPlane
  <1>4. CASE FinishControlPlane \/ FailControlPlane
    BY <1>4 DEF FinishControlPlane, FailControlPlane
  <1>5. CASE StartWorker
    BY <1>5 DEF StartWorker
  <1>6. CASE StoreMachineImages
    BY <1>6 DEF StoreMachineImages
  <1>7. CASE FinishWorker
    BY <1>7 DEF FinishWorker
  <1>8. CASE FailWorker
    BY <1>8 DEF FailWorker
  <1>9. CASE UNCHANGED vars
    BY <1>9 DEF vars
  <1> QED
    BY <1>1, <1>2, <1>3, <1>4, <1>5, <1>6, <1>7, <1>8, <1>9

\* The steps of the flow behind the infrastructure.
LEMMA FlowMoves ==
    ASSUME DeployControlPlane \/ DeployAPIServer \/ DeployKubelet \/ DeployWorker \/ FinishFlow
    PROVE  /\ UNCHANGED <<cluster, infra, cloud>>
           /\ flow \in Stored /\ flow' \in Stored \cup {"deleting"}
           /\ flow' # "control plane"
  BY DEF DeployControlPlane, DeployAPIServer, DeployKubelet, DeployWorker, FinishFlow, Stored, Deployed

\* A stored status is whole, the flow goes on only with one, and what has been
\* applied is what the status will be computed from.
InfraInv ==
    /\ infra.status = Nil \/ Whole(infra.status)
    /\ flow \in Stored => infra.status # Nil
    /\ flow = "applied" => Layout # Nil /\ cloud = Layout

\* What an earlier release has left.
LEMMA LegacyStart ==
    ASSUME Init, Legacy
    PROVE  /\ Whole(infra.status) /\ Reports(infra.status, cloud)
           /\ infra.status.zoned = shoot.infra.zoned
           /\ cloud # Nil
  <1>1. shoot.infra \in InfrastructureConfig
    BY TypeInit DEF TypeInv, TypeOK, Legacy
  <1>2. /\ cloud = ComputeTerraformerChartValues(shoot.infra, Nil, profile) /\ cloud # Nil
        /\ infra.status = LegacyStatus(ComputeStatus(Outputs(cloud), shoot.infra))
    BY DEF Legacy
  <1>3. /\ cloud.outputKeys = OutputKeys(shoot.infra)
        /\ cloud.create.availabilitySet = ~shoot.infra.zoned
        /\ UsesIdentity(shoot.infra) => cloud.identity = shoot.infra.identity.name
    BY <1>1, <1>2, LayoutFacts
  <1> DEFINE status == ComputeStatus(Outputs(cloud), shoot.infra)
  <1>4. /\ Whole(status) /\ Reports(status, cloud) /\ status.zoned = shoot.infra.zoned
        /\ DOMAIN status = {"resourceGroup", "vnet", "subnets", "routeTables", "securityGroups",
                            "availabilitySets", "identity", "zoned"}
        /\ ~status.zoned => /\ DOMAIN status.availabilitySets = {1}
                            /\ status.availabilitySets[1].purpose = "nodes"
                            /\ status.availabilitySets[1].name = TechnicalID
                            /\ DOMAIN status.availabilitySets[1] =
                                   {"purpose", "name", "countFaultDomains", "countUpdateDomains"}
    BY <1>1, <1>3, StatusOfLayout
  <1> HIDE DEF status
  <1>5. LET legacy == LegacyStatus(status)
        IN  Whole(legacy) /\ Reports(legacy, cloud) /\ legacy.zoned = status.zoned
    BY <1>4, LegacyStatusOfLayout
  <1> QED
    BY <1>2, <1>4, <1>5 DEF status

\* What the infrastructure controller stores.
LEMMA StoredStatus ==
    ASSUME TypeInv, InfraInv, StoreInfrastructureStatus
    PROVE  /\ Whole(infra'.status) /\ Reports(infra'.status, cloud)
           /\ infra'.status.zoned = infra.config.zoned
           /\ infra'.config = infra.config
  <1>1. infra.config \in InfrastructureConfig /\ DOMAIN infra = {"config", "status"}
    BY DEF TypeInv, TypeOK, Shape
  <1>2. infra'.status = ComputeStatus(Outputs(cloud), infra.config) /\ infra'.config = infra.config
    BY <1>1 DEF StoreInfrastructureStatus
  <1>3. cloud = ComputeTerraformerChartValues(infra.config, infra.status, cluster.profile) /\ cloud # Nil
    BY DEF InfraInv, StoreInfrastructureStatus, Layout
  <1>4. /\ cloud.outputKeys = OutputKeys(infra.config)
        /\ cloud.create.availabilitySet = ~infra.config.zoned
        /\ UsesIdentity(infra.config) => cloud.identity = infra.config.identity.name
    BY <1>1, <1>3, LayoutFacts
  <1>5. LET status == ComputeStatus(Outputs(cloud), infra.config)
        IN  Whole(status) /\ Reports(status, cloud) /\ status.zoned = infra.config.zoned
    BY <1>1, <1>4, StatusOfLayout
  <1> QED
    BY <1>2, <1>5

LEMMA InfraInit == Init => InfraInv
  <1> SUFFICES ASSUME Init PROVE InfraInv
    OBVIOUS
  <1>1. CASE Fresh
    BY <1>1 DEF Fresh, InfraInv, Stored, Deployed
  <1>2. CASE Legacy
    <2>1. Whole(infra.status) /\ flow # "applied"
      BY <1>2, LegacyStart DEF Legacy
    <2> QED
      BY <2>1 DEF InfraInv, Whole
  <1> QED
    BY <1>1, <1>2 DEF Init

LEMMA InfraNext == TypeInv /\ InfraInv /\ [Next]_vars => InfraInv'
  <1> SUFFICES ASSUME TypeInv, InfraInv, [Next]_vars PROVE InfraInv'
    OBVIOUS
  <1>0. DOMAIN infra = {"config", "status"}
    BY DEF TypeInv, Shape
  <1>1. CASE StartFlow
    <2>1. infra'.status = infra.status
      BY <1>0, <1>1 DEF StartFlow
    <2>2. /\ flow' \in {"infrastructure", "control plane", "deleting"}
          /\ flow' = "control plane" => infra.status # Nil
      BY <1>1 DEF StartFlow
    <2> QED
      BY <2>1, <2>2 DEF InfraInv, Stored, Deployed
  <1>2. CASE ApplyInfrastructure
    <2>1. /\ Layout # Nil /\ cloud' = Layout /\ flow' = "applied"
          /\ infra' = infra /\ cluster' = cluster
      BY <1>2 DEF ApplyInfrastructure
    <2>2. Layout' = Layout
      BY <2>1 DEF Layout
    <2> QED
      BY <2>1, <2>2 DEF InfraInv, Stored, Deployed
  <1>3. CASE StoreInfrastructureStatus
    <2>1. Whole(infra'.status) /\ flow' = "control plane"
      BY <1>3, StoredStatus DEF StoreInfrastructureStatus
    <2> QED
      BY <2>1 DEF InfraInv, Whole
  <1>4. CASE UNCHANGED <<flow, cluster, infra, cloud>>
    BY <1>4 DEF InfraInv, Layout
  <1>5. CASE /\ UNCHANGED <<cluster, infra, cloud>>
             /\ flow \in Stored /\ flow' \in Stored \cup {"deleting"}
    BY <1>5 DEF InfraInv, Layout, Stored, Deployed
  <1> QED
    BY <1>1, <1>2, <1>3, <1>4, <1>5, FlowFrame, FlowMoves DEF Next

\* The status the infrastructure controller has stored names everything its
\* readers look up in it (findSubnet, FindAvailabilitySetByPurpose).
THEOREM ShootStatusWhole == Spec => []InfraInv
  <1> QED
    BY InfraInit, InfraNext, ShootTypeCorrect, PTL DEF Spec

\* The statuses the other two controllers work from were stored ones.
CopiesInv ==
    /\ cp.status = Nil \/ Whole(cp.status)
    /\ cp.pending \/ cp.requeue \/ cp.run # Nil => cp.status # Nil
    /\ worker.infrastructureStatus = Nil \/ Whole(worker.infrastructureStatus)
    /\ worker.pending \/ worker.run # Nil => worker.infrastructureStatus # Nil

LEMMA CopiesInit == Init => CopiesInv
  <1> SUFFICES ASSUME Init PROVE CopiesInv
    OBVIOUS
  <1>1. /\ worker.infrastructureStatus = Nil /\ worker.pending = FALSE /\ worker.run = Nil
        /\ cp.pending = FALSE /\ cp.requeue = FALSE /\ cp.run = Nil
    BY DEF Init, Fresh, Legacy
  <1>2. cp.status = Nil \/ Whole(cp.status)
    <2>1. CASE Fresh
      BY <2>1 DEF Fresh
    <2>2. CASE Legacy
      <3>1. cp.status = infra.status
        BY <2>2 DEF Legacy
      <3> QED
        BY <2>2, <3>1, LegacyStart
    <2> QED
      BY <2>1, <2>2 DEF Init
  <1> QED
    BY <1>1, <1>2 DEF CopiesInv

LEMMA CopiesNext == TypeInv /\ InfraInv /\ CopiesInv /\ [Next]_vars => CopiesInv'
  <1> SUFFICES ASSUME TypeInv, InfraInv, CopiesInv, [Next]_vars PROVE CopiesInv'
    OBVIOUS
  <1>0. /\ DOMAIN cp = {"status", "pending", "requeue", "run"}
        /\ DOMAIN worker = {"pools", "infrastructureStatus", "machineImages", "pending", "run"}
    BY DEF TypeInv, Shape
  <1>1. CASE DeployControlPlane
    <2>1. /\ cp'.status = infra.status /\ worker' = worker /\ flow \in Stored
      BY <1>0, <1>1 DEF DeployControlPlane, Stored
    <2>2. Whole(cp'.status) /\ cp'.status # Nil
      BY <2>1 DEF InfraInv
    <2> QED
      BY <2>1, <2>2 DEF CopiesInv
  <1>2. CASE StartControlPlane
    <2>1. cp'.status = cp.status /\ worker' = worker /\ (cp.pending \/ cp.requeue)
      BY <1>0, <1>2 DEF StartControlPlane
    <2> QED
      BY <2>1 DEF CopiesInv
  <1>3. CASE FinishControlPlane \/ FailControlPlane
    <2>1. cp'.status = cp.status /\ worker' = worker /\ cp.run # Nil
      BY <1>0, <1>3 DEF FinishControlPlane, FailControlPlane
    <2> QED
      BY <2>1 DEF CopiesInv
  <1>4. CASE DeployWorker
    <2>1. /\ worker'.infrastructureStatus = infra.status /\ cp' = cp /\ flow \in Stored
      BY <1>0, <1>4 DEF DeployWorker, controlPlane, Stored, Deployed
    <2>2. Whole(worker'.infrastructureStatus) /\ worker'.infrastructureStatus # Nil
      BY <2>1 DEF InfraInv
    <2> QED
      BY <2>1, <2>2 DEF CopiesInv
  <1>5. CASE StartWorker
    <2>1. worker'.infrastructureStatus = worker.infrastructureStatus /\ cp' = cp /\ worker.pending
      BY <1>0, <1>5 DEF StartWorker, controlPlane
    <2> QED
      BY <2>1 DEF CopiesInv
  <1>6. CASE StoreMachineImages \/ FinishWorker \/ FailWorker
    <2>1. worker'.infrastructureStatus = worker.infrastructureStatus /\ cp' = cp /\ worker.run # Nil
      BY <1>0, <1>6 DEF StoreMachineImages, FinishWorker, FailWorker, controlPlane
    <2> QED
      BY <2>1 DEF CopiesInv
  <1>7. CASE UNCHANGED <<cp, worker>>
    BY <1>7 DEF CopiesInv
  <1>8. CASE ChangeShoot \/ ChangeProfile \/ StartFlow \/ ApplyInfrastructure \/ StoreInfrastructureStatus
                \/ DeployAPIServer \/ DeployKubelet \/ FinishFlow \/ UNCHANGED vars
    <2>1. UNCHANGED <<cp, worker>>
      BY <1>8 DEF ChangeShoot, ChangeProfile, StartFlow, ApplyInfrastructure, StoreInfrastructureStatus,
                  DeployAPIServer, DeployKubelet, FinishFlow, controlPlane, vars
    <2> QED
      BY <2>1, <1>7
  <1> QED
    BY <1>1, <1>2, <1>3, <1>4, <1>5, <1>6, <1>8 DEF Next

\* So do the copies the other two controllers work from.
THEOREM ShootCopiesWhole == Spec => []CopiesInv
  <1> QED
    BY CopiesInit, CopiesNext, ShootTypeCorrect, ShootStatusWhole, PTL DEF Spec

-----------------------------------------------------------------------------
(* One layout *)

\* The status the flow works from reports what is applied, except for a shoot
\* that is deleted over a layout whose status was never stored; and the other
\* controllers have that status as soon as the flow is past them.
LayoutInv ==
    /\ flow \in Deployed \/ (flow \in {"control plane", "wait"} /\ ~cluster.shoot.deleting) =>
          Reports(infra.status, cloud)
    /\ flow \in Deployed => ~cluster.shoot.deleting
    /\ flow \in Deployed \cup {"wait"} => cp.status = infra.status
    /\ flow \in {"machines", "done"} => worker.infrastructureStatus = infra.status

LEMMA LayoutInit == Init => LayoutInv
  <1> SUFFICES ASSUME Init PROVE LayoutInv
    OBVIOUS
  <1>1. CASE Fresh
    BY <1>1 DEF Fresh, LayoutInv, Deployed
  <1>2. CASE Legacy
    <2>1. Reports(infra.status, cloud) /\ cp.status = infra.status /\ flow \in {"idle", "wait", "kubelet"}
      BY <1>2, LegacyStart DEF Legacy
    <2>2. ~cluster.shoot.deleting
      BY DEF Init
    <2> QED
      BY <2>1, <2>2 DEF LayoutInv
  <1> QED
    BY <1>1, <1>2 DEF Init

LEMMA LayoutNext == TypeInv /\ InfraInv /\ LayoutInv /\ [Next]_vars => LayoutInv'
  <1> SUFFICES ASSUME TypeInv, InfraInv, LayoutInv, [Next]_vars PROVE LayoutInv'
    OBVIOUS
  <1>0. /\ DOMAIN cp = {"status", "pending", "requeue", "run"}
        /\ DOMAIN worker = {"pools", "infrastructureStatus", "machineImages", "pending", "run"}
        /\ DOMAIN infra = {"config", "status"}
    BY DEF TypeInv, Shape
  <1>1. CASE StartFlow
    <2>1. /\ flow' \in {"infrastructure", "control plane", "deleting"}
          /\ flow' = "control plane" => cluster'.shoot.deleting
      BY <1>1 DEF StartFlow
    <2> QED
      BY <2>1 DEF LayoutInv, Deployed
  <1>2. CASE ApplyInfrastructure
    BY <1>2 DEF ApplyInfrastructure, LayoutInv, Deployed
  <1>3. CASE StoreInfrastructureStatus
    <2>1. Reports(infra'.status, cloud') /\ flow' = "control plane"
      BY <1>3, StoredStatus DEF StoreInfrastructureStatus
    <2> QED
      BY <2>1 DEF LayoutInv, Deployed
  <1>4. CASE DeployControlPlane
    <2>1. /\ cp'.status = infra.status /\ flow = "control plane" /\ flow' = "wait"
          /\ UNCHANGED <<cluster, infra, cloud>>
      BY <1>0, <1>4 DEF DeployControlPlane
    <2> QED
      BY <2>1 DEF LayoutInv, Deployed
  <1>5. CASE DeployAPIServer
    <2>1. /\ flow = "wait" /\ flow' \in {"kubelet", "deleting"}
          /\ flow' = "kubelet" => ~cluster.shoot.deleting
          /\ UNCHANGED <<cluster, infra, cloud, cp>>
      BY <1>5 DEF DeployAPIServer
    <2> QED
      BY <2>1 DEF LayoutInv, Deployed
  <1>6. CASE DeployKubelet
    <2>1. flow = "kubelet" /\ flow' = "worker" /\ UNCHANGED <<cluster, infra, cloud, cp>>
      BY <1>6 DEF DeployKubelet
    <2> QED
      BY <2>1 DEF LayoutInv, Deployed
  <1>7. CASE DeployWorker
    <2>1. /\ flow = "worker" /\ flow' = "machines" /\ UNCHANGED <<cluster, infra, cloud, cp>>
          /\ worker'.infrastructureStatus = infra.status
      BY <1>0, <1>7 DEF DeployWorker, controlPlane
    <2> QED
      BY <2>1 DEF LayoutInv, Deployed
  <1>8. CASE FinishFlow
    <2>1. flow = "machines" /\ flow' = "done" /\ UNCHANGED <<cluster, infra, cloud, cp, worker>>
      BY <1>8 DEF FinishFlow
    <2> QED
      BY <2>1 DEF LayoutInv, Deployed
  <1>9. CASE ChangeShoot \/ ChangeProfile \/ StartControlPlane \/ FinishControlPlane \/ FailControlPlane
                \/ StartWorker \/ StoreMachineImages \/ FinishWorker \/ FailWorker \/ UNCHANGED vars
    <2>1. cp'.status = cp.status
      BY <1>0, <1>9 DEF ChangeShoot, ChangeProfile, StartControlPlane, FinishControlPlane, FailControlPlane,
                        StartWorker, StoreMachineImages, FinishWorker, FailWorker, controlPlane, vars
    <2>2. worker'.infrastructureStatus = worker.infrastructureStatus
      BY <1>0, <1>9 DEF ChangeShoot, ChangeProfile, StartControlPlane, FinishControlPlane, FailControlPlane,
                        StartWorker, StoreMachineImages, FinishWorker, FailWorker, vars
    <2> QED
      BY <1>9, <2>1, <2>2, FlowFrame DEF LayoutInv
  <1> QED
    BY <1>1, <1>2, <1>3, <1>4, <1>5, <1>6, <1>7, <1>8, <1>9 DEF Next

\* Past the infrastructure, the status tells what is applied in Azure, and the
\* other controllers are handed that one.
THEOREM ShootOneStatus == Spec => []LayoutInv
  <1> QED
    BY LayoutInit, LayoutNext, ShootTypeCorrect, ShootStatusWhole, PTL DEF Spec

-----------------------------------------------------------------------------
(* The cloud configuration *)

\* The configuration the flow has asked for is in the seed.
Settled == flow \in Deployed \/ (flow = "wait" /\ ~cp.pending)

\* From then on the configuration is the one that would be computed again, and
\* a seed without one is an earlier release's, where nothing is going on.
ConfigInv ==
    /\ Settled /\ seed.config # Nil => seed.config = CloudConfig
    /\ Settled /\ "kubelet-acr-config" \in seed.configMaps => AcrAccess(cp.status)
    /\ seed.config = Nil => ~cp.requeue /\ cp.run = Nil /\ (Settled => ~cp.pending)
    /\ flow \in {"worker", "machines", "done"} /\ kubelet.acr => infra.status.identity # Nil

LEMMA ConfigInit == Init => ConfigInv
  <1> SUFFICES ASSUME Init PROVE ConfigInv
    OBVIOUS
  <1>1. /\ seed.config = Nil /\ cp.pending = FALSE /\ cp.requeue = FALSE /\ cp.run = Nil
        /\ "kubelet-acr-config" \notin seed.configMaps
        /\ kubelet.acr = FALSE
    BY DEF Init, Fresh, Legacy, LegacyConfigMaps
  <1> QED
    BY <1>1 DEF ConfigInv

LEMMA ConfigNext == TypeInv /\ LayoutInv /\ ConfigInv /\ [Next]_vars => ConfigInv'
  <1> SUFFICES ASSUME TypeInv, LayoutInv, ConfigInv, [Next]_vars PROVE ConfigInv'
    OBVIOUS
  <1>0. /\ DOMAIN cp = {"status", "pending", "requeue", "run"}
        /\ DOMAIN seed = {"config", "configMaps", "components", "shootChart"}
    BY DEF TypeInv, Shape
  <1>1. CASE StartFlow
    <2>1. /\ flow' \in {"infrastructure", "control plane", "deleting"} /\ UNCHANGED <<cp, seed, kubelet>>
      BY <1>1 DEF StartFlow, controlPlane
    <2> QED
      BY <2>1 DEF ConfigInv, Settled, Deployed
  <1>2. CASE ApplyInfrastructure \/ StoreInfrastructureStatus
    <2>1. flow' \in {"applied", "control plane"} /\ UNCHANGED <<cp, seed, kubelet>>
      BY <1>2 DEF ApplyInfrastructure, StoreInfrastructureStatus, controlPlane
    <2> QED
      BY <2>1 DEF ConfigInv, Settled, Deployed
  <1>3. CASE DeployControlPlane
    <2>1. /\ flow' = "wait" /\ cp'.pending = TRUE /\ cp'.requeue = cp.requeue /\ cp'.run = cp.run
          /\ UNCHANGED <<seed, kubelet>>
      BY <1>0, <1>3 DEF DeployControlPlane
    <2> QED
      BY <2>1 DEF ConfigInv, Settled, Deployed
  <1>4. CASE StartControlPlane
    <2>1. /\ seed'.config = CloudConfig /\ CloudConfig # Nil
          /\ "kubelet-acr-config" \in seed'.configMaps => AcrAccess(cp.status)
          /\ cp'.status = cp.status
          /\ UNCHANGED <<flow, cluster, infra, kubelet>>
      BY <1>0, <1>4 DEF StartControlPlane, GetConfigChartValues
    <2>2. CloudConfig' = CloudConfig /\ AcrAccess(cp.status)' = AcrAccess(cp.status)
      BY <2>1 DEF CloudConfig, Auth
    <2> QED
      BY <2>1, <2>2 DEF ConfigInv
  <1>5. CASE FinishControlPlane
    <2>1. /\ seed'.config = seed.config /\ seed'.configMaps \subseteq seed.configMaps
          /\ cp'.status = cp.status /\ cp'.pending = cp.pending /\ cp.run # Nil /\ cp'.run = Nil
          /\ UNCHANGED <<flow, cluster, infra, kubelet>>
      BY <1>0, <1>5 DEF FinishControlPlane, deleteLegacyCloudProviderConfigMaps
    <2>2. CloudConfig' = CloudConfig /\ AcrAccess(cp.status)' = AcrAccess(cp.status) /\ Settled' = Settled
      BY <2>1 DEF CloudConfig, Auth, Settled
    <2> QED
      BY <2>1, <2>2 DEF ConfigInv
  <1>6. CASE FailControlPlane
    <2>1. /\ cp'.status = cp.status /\ cp.run # Nil
          /\ UNCHANGED <<flow, cluster, infra, kubelet, seed>> /\ cp'.pending = TRUE
      BY <1>0, <1>6 DEF FailControlPlane
    <2>2. CloudConfig' = CloudConfig /\ AcrAccess(cp.status)' = AcrAccess(cp.status) /\ (Settled' => Settled)
      BY <2>1 DEF CloudConfig, Auth, Settled
    <2> QED
      BY <2>1, <2>2 DEF ConfigInv
  <1>7. CASE DeployAPIServer
    <2>1. /\ flow = "wait" /\ ~cp.pending /\ flow' \in {"kubelet", "deleting"}
          /\ UNCHANGED <<cluster, infra, cp, seed, kubelet>>
      BY <1>7 DEF DeployAPIServer
    <2>2. CloudConfig' = CloudConfig /\ Settled
      BY <2>1 DEF CloudConfig, Auth, Settled
    <2> QED
      BY <2>1, <2>2 DEF ConfigInv
  <1>8. CASE DeployKubelet
    <2>1. /\ flow = "kubelet" /\ flow' = "worker" /\ UNCHANGED <<cluster, infra, cp, seed>>
          /\ kubelet'.acr = ("kubelet-acr-config" \in seed.configMaps)
      BY <1>8 DEF DeployKubelet, EnsureKubeletFiles, getAcrConfigMap
    <2>2. CloudConfig' = CloudConfig /\ Settled
      BY <2>1 DEF CloudConfig, Auth, Settled, Deployed
    <2>3. cp.status = infra.status
      BY <2>1 DEF LayoutInv, Deployed
    <2>4. kubelet'.acr => infra.status.identity # Nil
      BY <2>1, <2>2, <2>3 DEF ConfigInv, AcrAccess
    <2> QED
      BY <2>1, <2>2, <2>4 DEF ConfigInv
  <1>9. CASE DeployWorker \/ FinishFlow
    <2>1. /\ flow \in {"worker", "machines"} /\ UNCHANGED <<cluster, infra, cp, seed, kubelet>>
      BY <1>9 DEF DeployWorker, FinishFlow, controlPlane
    <2>2. CloudConfig' = CloudConfig /\ Settled
      BY <2>1 DEF CloudConfig, Auth, Settled, Deployed
    <2> QED
      BY <2>1, <2>2 DEF ConfigInv
  <1>10. CASE ChangeShoot \/ ChangeProfile \/ StartWorker \/ StoreMachineImages \/ FinishWorker \/ FailWorker
                 \/ UNCHANGED vars
    <2>1. UNCHANGED <<flow, cluster, infra, cp, seed, kubelet>>
      BY <1>10, FlowFrame, ControlPlaneFrame
    <2>2. CloudConfig' = CloudConfig /\ Settled' = Settled
      BY <2>1 DEF CloudConfig, Auth, Settled
    <2> QED
      BY <2>1, <2>2 DEF ConfigInv
  <1> QED
    BY <1>1, <1>2, <1>3, <1>4, <1>5, <1>6, <1>7, <1>8, <1>9, <1>10 DEF Next

\* Once the control plane has been waited for, the cloud configuration in the
\* seed is made of that status and of the credentials of the day.
THEOREM ShootConfigCurrent == Spec => []ConfigInv
  <1> QED
    BY ConfigInit, ConfigNext, ShootTypeCorrect, ShootOneStatus, PTL DEF Spec

-----------------------------------------------------------------------------
(* The machine classes *)

\* A class made of this status with these credentials.
Made(class, status, auth) ==
    /\ class.secret = auth
    /\ class.spec.resourceGroup = status.resourceGroup
    /\ class.spec.vnet = status.vnet
    /\ class.spec.subnet = FindByPurpose(status.subnets, "nodes").name
    /\ class.spec.availabilitySet =
          IF status.zoned THEN Nil ELSE FindByPurpose(status.availabilitySets, "nodes").name
    /\ (class.zone = Nil) = ~status.zoned
    /\ status.identity # Nil => class.spec.identity = status.identity.id

LEMMA NoPools == ValidWorkers(<<>>)
  BY DEF ValidWorkers, List

LEMMA GeneratedMade ==
    ASSUME NEW w, NEW version, NEW p, NEW auth, Whole(w.infrastructureStatus), ValidWorkers(w.pools),
           generateMachineConfig(w, version, p, auth) # Nil,
           NEW class \in generateMachineConfig(w, version, p, auth).classes
    PROVE  Made(class, w.infrastructureStatus, auth)
  <1> DEFINE status == w.infrastructureStatus
             pools == {w.pools[i] : i \in DOMAIN w.pools}
             Image(pool) == findMachineImage(p, w.machineImages, pool.image)
  <1>1. generateMachineConfig(w, version, p, auth).classes =
          UNION {{generateMachineClass(pool, zone, version, status, p, Image(pool), auth)
                     : zone \in PoolZones(pool, status.zoned)} : pool \in pools}
    BY DEF generateMachineConfig
  <1>2. PICK pool \in pools :
           \E zone \in PoolZones(pool, status.zoned) :
              class = generateMachineClass(pool, zone, version, status, p, Image(pool), auth)
    BY <1>1
  <1>3. PICK zone \in PoolZones(pool, status.zoned) :
           class = generateMachineClass(pool, zone, version, status, p, Image(pool), auth)
    BY <1>2
  <1>4. (zone = Nil) = ~status.zoned
    <2>1. CASE status.zoned
      <3>1. PICK i \in DOMAIN w.pools : pool = w.pools[i]
        BY <1>2
      <3>2. zone \in Zones
        BY <1>3, <2>1, <3>1 DEF PoolZones, ValidWorkers
      <3> QED
        BY <2>1, <3>2, NilIsNoObject
    <2>2. CASE ~status.zoned
      BY <1>3, <2>2 DEF PoolZones
    <2> QED
      BY <2>1, <2>2
  <1>5. /\ class.secret = auth /\ class.zone = zone
        /\ class.spec.resourceGroup = status.resourceGroup
        /\ class.spec.vnet = status.vnet
        /\ class.spec.subnet = FindByPurpose(status.subnets, "nodes").name
        /\ class.spec.availabilitySet =
              IF status.zoned THEN Nil ELSE FindByPurpose(status.availabilitySets, "nodes").name
        /\ status.identity # Nil => class.spec.identity = status.identity.id
    BY <1>3 DEF generateMachineClass
  <1> QED
    BY <1>4, <1>5 DEF Made

\* The classes the worker controller is about to leave behind.
Classes == IF worker.run # Nil THEN worker.run.config.classes ELSE machines.classes

\* Where the flow waits for the machines and the controller owes it nothing, the
\* classes are made of the status and the credentials of the day.
MachinesInv ==
    /\ ValidWorkers(worker.pools)
    /\ flow \in {"machines", "done"} /\ ~worker.pending =>
          \A class \in Classes : Made(class, infra.status, Auth)
    /\ flow = "done" => ~worker.pending /\ worker.run = Nil

LEMMA MachinesInit == Init => MachinesInv
  <1> SUFFICES ASSUME Init PROVE MachinesInv
    OBVIOUS
  <1>1. worker.pools = <<>> /\ flow \notin {"machines", "done"}
    BY DEF Init, Fresh, Legacy
  <1> QED
    BY <1>1, NoPools DEF MachinesInv

LEMMA MachinesNext == TypeInv /\ CopiesInv /\ LayoutInv /\ MachinesInv /\ [Next]_vars => MachinesInv'
  <1> SUFFICES ASSUME TypeInv, CopiesInv, LayoutInv, MachinesInv, [Next]_vars PROVE MachinesInv'
    OBVIOUS
  <1>0. /\ DOMAIN worker = {"pools", "infrastructureStatus", "machineImages", "pending", "run"}
        /\ DOMAIN machines = {"classes", "deployments"}
        /\ worker.run # Nil => DOMAIN worker.run = {"config", "stored"}
        /\ cluster.shoot \in Shoots
    BY DEF TypeInv, TypeOK, Shape
  <1>1. CASE StartFlow \/ ApplyInfrastructure \/ StoreInfrastructureStatus \/ DeployControlPlane
                \/ DeployAPIServer \/ DeployKubelet
    <2>1. flow' \notin {"machines", "done"} /\ worker' = worker
      BY <1>1 DEF StartFlow, ApplyInfrastructure, StoreInfrastructureStatus, DeployControlPlane,
                  DeployAPIServer, DeployKubelet
    <2> QED
      BY <2>1 DEF MachinesInv
  <1>2. CASE DeployWorker
    <2>1. /\ worker'.pools = cluster.shoot.workers /\ worker'.pending = TRUE /\ flow' = "machines"
      BY <1>0, <1>2 DEF DeployWorker
    <2>2. ValidWorkers(worker'.pools)
      BY <1>0, <2>1, ShootAssumption
    <2> QED
      BY <2>1, <2>2 DEF MachinesInv
  <1>3. CASE StartWorker
    <2>1. PICK generated :
             /\ generated = Generated /\ generated # Nil
             /\ worker' = [worker EXCEPT !.pending = FALSE, !.run = [config |-> generated, stored |-> FALSE]]
      BY <1>3 DEF StartWorker
    <2>2. /\ worker'.pools = worker.pools /\ worker'.run = [config |-> generated, stored |-> FALSE]
      BY <1>0, <2>1
    <2>3. Classes' = generated.classes
      BY <2>2, WorkerRunIsNotNil DEF Classes
    <2>4. UNCHANGED <<flow, infra, cluster>> /\ worker.pending
      BY <1>3 DEF StartWorker
    <2>5. flow # "done"
      BY <2>4 DEF MachinesInv
    <2>6. Whole(worker.infrastructureStatus) /\ ValidWorkers(worker.pools)
      BY <2>4 DEF CopiesInv, MachinesInv
    <2>7. ASSUME NEW class \in generated.classes
          PROVE  Made(class, worker.infrastructureStatus, Auth)
      BY <2>1, <2>6, GeneratedMade DEF Generated
    <2>8. flow = "machines" => worker.infrastructureStatus = infra.status
      BY DEF LayoutInv
    <2>9. Auth' = Auth
      BY <2>4 DEF Auth
    <2> QED
      BY <2>2, <2>3, <2>4, <2>5, <2>7, <2>8, <2>9 DEF MachinesInv
  <1>4. CASE StoreMachineImages
    <2>1. /\ worker'.pools = worker.pools /\ worker'.pending = worker.pending
          /\ worker.run # Nil /\ worker'.run = [worker.run EXCEPT !.stored = TRUE]
          /\ UNCHANGED <<flow, infra, cluster, machines>>
      BY <1>0, <1>4 DEF StoreMachineImages
    <2>2. worker'.run = [config |-> worker.run.config, stored |-> TRUE]
      BY <1>0, <2>1
    <2>3. Classes' = Classes /\ Auth' = Auth
      BY <2>1, <2>2, WorkerRunIsNotNil DEF Classes, Auth
    <2> QED
      BY <2>1, <2>3 DEF MachinesInv
  <1>5. CASE FinishWorker
    <2>1. /\ worker'.pools = worker.pools /\ worker'.pending = worker.pending
          /\ worker.run # Nil /\ worker'.run = Nil
          /\ machines'.classes = worker.run.config.classes
          /\ UNCHANGED <<flow, infra, cluster>>
      BY <1>0, <1>5 DEF FinishWorker
    <2>2. Classes' = Classes /\ Auth' = Auth
      BY <2>1 DEF Classes, Auth
    <2> QED
      BY <2>1, <2>2 DEF MachinesInv
  <1>6. CASE FailWorker
    <2>1. /\ worker'.pools = worker.pools /\ worker'.pending = TRUE /\ worker.run # Nil /\ flow' = flow
      BY <1>0, <1>6 DEF FailWorker
    <2> QED
      BY <2>1 DEF MachinesInv
  <1>7. CASE FinishFlow
    <2>1. /\ flow = "machines" /\ ~worker.pending /\ worker.run = Nil /\ flow' = "done"
          /\ UNCHANGED <<infra, cluster, worker, machines>>
      BY <1>7 DEF FinishFlow
    <2>2. Classes' = Classes /\ Auth' = Auth
      BY <2>1 DEF Classes, Auth
    <2> QED
      BY <2>1, <2>2 DEF MachinesInv
  <1>8. CASE ChangeShoot \/ ChangeProfile \/ StartControlPlane \/ FinishControlPlane \/ FailControlPlane
                \/ UNCHANGED vars
    <2>1. UNCHANGED <<flow, cluster, infra, worker, machines>>
      BY <1>8 DEF ChangeShoot, ChangeProfile, StartControlPlane, FinishControlPlane, FailControlPlane, vars
    <2>2. Classes' = Classes /\ Auth' = Auth
      BY <2>1 DEF Classes, Auth
    <2> QED
      BY <2>1, <2>2 DEF MachinesInv
  <1> QED
    BY <1>1, <1>2, <1>3, <1>4, <1>5, <1>6, <1>7, <1>8 DEF Next

\* And once the workers have been waited for, so is every machine class.
THEOREM ShootMachinesCurrent == Spec => []MachinesInv
  <1> QED
    BY MachinesInit, MachinesNext, ShootTypeCorrect, ShootCopiesWhole, ShootOneStatus, PTL DEF Spec

LEMMA OneLayout == InfraInv /\ CopiesInv /\ LayoutInv /\ ConfigInv /\ MachinesInv => AgreeOnLayout
  <1> SUFFICES ASSUME InfraInv, CopiesInv, LayoutInv, ConfigInv, MachinesInv, flow = "done", seed.config # Nil
               PROVE  /\ seed.config.resourceGroup = cloud.resourceGroup
                      /\ seed.config.vnet.name = cloud.vnet.name
                      /\ (seed.config.availabilitySetName # Nil) = cloud.create.availabilitySet
                      /\ \A class \in machines.classes :
                            /\ class.spec.resourceGroup = cloud.resourceGroup
                            /\ class.spec.vnet = seed.config.vnet
                            /\ class.spec.subnet = seed.config.subnet
                            /\ class.spec.availabilitySet = seed.config.availabilitySetName
                            /\ (class.zone = Nil) = cloud.create.availabilitySet
                            /\ kubelet.acr => class.spec.identity # Nil
    BY DEF AgreeOnLayout
  <1> DEFINE status == infra.status
  <1>1. Whole(status) /\ Reports(status, cloud) /\ cp.status = status
    BY DEF InfraInv, LayoutInv, Stored, Deployed
  <1>2. seed.config = getConfigChartValues(status, cluster.shoot, Auth)
    BY <1>1 DEF ConfigInv, Settled, Deployed, CloudConfig
  <1>3. /\ seed.config.resourceGroup = status.resourceGroup
        /\ seed.config.vnet = status.vnet
        /\ seed.config.subnet = FindByPurpose(status.subnets, "nodes").name
        /\ seed.config.availabilitySetName =
              IF status.zoned THEN Nil ELSE FindByPurpose(status.availabilitySets, "nodes").name
    BY <1>1, <1>2, ConfigOfStatus
  <1>4. \A class \in machines.classes : Made(class, status, Auth)
    BY DEF MachinesInv, Classes
  <1>5. /\ cloud.create.availabilitySet = ~status.zoned /\ status.zoned \in BOOLEAN
        /\ status.resourceGroup = cloud.resourceGroup /\ status.vnet.name = cloud.vnet.name
        /\ ~status.zoned => FindByPurpose(status.availabilitySets, "nodes").name # Nil
        /\ status.identity # Nil => status.identity.id # Nil
    BY <1>1 DEF Whole, Reports
  <1>6. kubelet.acr => status.identity # Nil
    BY DEF ConfigInv
  <1> HIDE DEF status
  <1>7. (seed.config.availabilitySetName # Nil) = cloud.create.availabilitySet
    BY <1>3, <1>5
  <1>8. ASSUME NEW class \in machines.classes
        PROVE  /\ class.spec.resourceGroup = cloud.resourceGroup
               /\ class.spec.vnet = seed.config.vnet
               /\ class.spec.subnet = seed.config.subnet
               /\ class.spec.availabilitySet = seed.config.availabilitySetName
               /\ (class.zone = Nil) = cloud.create.availabilitySet
               /\ kubelet.acr => class.spec.identity # Nil
    BY <1>3, <1>4, <1>5, <1>6, <1>8 DEF Made
  <1> QED
    BY <1>3, <1>5, <1>7, <1>8

\* When the flow is through, the cloud controller manager's configuration, the
\* machine classes and what is applied in Azure speak of one layout; and the
\* kubelets log in at the registry only where their machines may.
THEOREM ShootAgreesOnLayout == Spec => []AgreeOnLayout
  <1> QED
    BY OneLayout, ShootStatusWhole, ShootCopiesWhole, ShootOneStatus, ShootConfigCurrent, ShootMachinesCurrent, PTL

-----------------------------------------------------------------------------
(* The current configuration *)

\* The component as the chart of this shoot and this configuration leaves it.
Charted(components, c, s, config) ==
    Enabled(c, s) =>
        components[c] = [replicas |-> IF s.hibernated /\ ~s.deleting THEN 0 ELSE 1, checksum |-> config]

\* A run that is on its way when the flow goes on is for the Cluster of the
\* flow; the API server of the flow mounts what is in the seed; and when the
\* controller owes nothing, its charts have been applied to the end.
CurrentInv ==
    /\ Settled /\ cp.run # Nil => cp.run.shoot = cluster.shoot
    /\ flow \in Deployed /\ seed.config # Nil /\ api.mounts # "none" => api.checksum = seed.config
    /\ flow \in Deployed /\ ~cluster.shoot.hibernated => api.address = "balancer"
    /\ Settled /\ seed.config # Nil /\ ~cp.pending /\ ~cp.requeue /\ cp.run = Nil =>
          \A c \in Components : Charted(seed.components, c, cluster.shoot, seed.config)

LEMMA CurrentInit == Init => CurrentInv
  <1> SUFFICES ASSUME Init PROVE CurrentInv
    OBVIOUS
  <1>1. seed.config = Nil /\ cp.run = Nil /\ (flow \in Deployed => api.address = "balancer")
    BY DEF Init, Fresh, Legacy, Deployed
  <1> QED
    BY <1>1 DEF CurrentInv

LEMMA CurrentNext == TypeInv /\ ConfigInv /\ CurrentInv /\ [Next]_vars => CurrentInv'
  <1> SUFFICES ASSUME TypeInv, ConfigInv, CurrentInv, [Next]_vars PROVE CurrentInv'
    OBVIOUS
  <1>0. /\ DOMAIN cp = {"status", "pending", "requeue", "run"}
        /\ DOMAIN seed = {"config", "configMaps", "components", "shootChart"}
        /\ DOMAIN api = {"mounts", "checksum", "address", "replicas"}
    BY DEF TypeInv, Shape
  <1>1. CASE StartFlow \/ ApplyInfrastructure \/ StoreInfrastructureStatus
    <2>1. flow' \in {"infrastructure", "applied", "control plane", "deleting"}
      BY <1>1 DEF StartFlow, ApplyInfrastructure, StoreInfrastructureStatus
    <2> QED
      BY <2>1 DEF CurrentInv, Settled, Deployed
  <1>2. CASE DeployControlPlane
    <2>1. flow' = "wait" /\ cp'.pending = TRUE
      BY <1>0, <1>2 DEF DeployControlPlane
    <2> QED
      BY <2>1 DEF CurrentInv, Settled, Deployed
  <1>3. CASE StartControlPlane
    <2>1. /\ seed'.config = CloudConfig /\ CloudConfig # Nil
          /\ (cp.pending \/ cp.requeue) /\ cp.run = Nil
          /\ UNCHANGED <<flow, cluster, api>>
      BY <1>0, <1>3 DEF StartControlPlane
    <2>2. \/ cp'.requeue = TRUE /\ cp'.run = Nil
          \/ cp'.run # Nil /\ cp'.run.shoot = cluster.shoot
      BY <1>0, <1>3, <2>1, RunIsNotNil DEF StartControlPlane
    <2>3. flow \in Deployed => seed.config # Nil /\ seed'.config = seed.config
      BY <2>1 DEF ConfigInv, Settled
    <2> QED
      BY <2>1, <2>2, <2>3 DEF CurrentInv
  <1>4. CASE FinishControlPlane
    <2> DEFINE values == getControlPlaneChartValues(cp.run.shoot, seed.config, cp.run.scaledDown)
    <2>1. /\ cp.run # Nil /\ cp'.run = Nil /\ cp'.pending = cp.pending /\ cp'.requeue = Requeue(cp.run)
          /\ seed'.config = seed.config
          /\ seed'.components = ApplyControlPlaneChart(seed.components, values)
          /\ UNCHANGED <<flow, cluster, api>>
      BY <1>0, <1>4 DEF FinishControlPlane
    <2>2. Settled' = Settled
      BY <2>1 DEF Settled
    <2>3. ASSUME Settled, ~Requeue(cp.run), NEW c \in Components, Enabled(c, cluster.shoot)
          PROVE  seed'.components[c] =
                    [replicas |-> IF cluster.shoot.hibernated /\ ~cluster.shoot.deleting THEN 0 ELSE 1,
                     checksum |-> seed.config]
      <3>1. cp.run.shoot = cluster.shoot
        BY <2>1, <2>3 DEF CurrentInv
      <3>2. c \in DOMAIN values /\ seed'.components[c] = values[c]
        BY <2>1, <2>3, <3>1 DEF getControlPlaneChartValues, ApplyControlPlaneChart
      <3>3. values[c] = [replicas |-> Replicas(cp.run.shoot.hibernated, cp.run.shoot.deleting, cp.run.scaledDown),
                         checksum |-> seed.config]
        BY <3>2 DEF getControlPlaneChartValues
      <3> QED
        BY <2>3, <3>1, <3>2, <3>3 DEF Replicas, Requeue
    <2> QED
      BY <2>1, <2>2, <2>3 DEF CurrentInv, Charted
  <1>5. CASE FailControlPlane
    <2>1. /\ cp'.run = Nil /\ cp'.pending = TRUE
          /\ UNCHANGED <<flow, cluster, seed, api>>
      BY <1>0, <1>5 DEF FailControlPlane
    <2> QED
      BY <2>1 DEF CurrentInv
  <1>6. CASE DeployAPIServer
    <2>1. PICK deployment :
             /\ deployment.mounts # "none" =>
                   deployment.checksum = ensureChecksumAnnotations(seed.config, seed.configMaps)
             /\ ~cluster.shoot.hibernated => deployment.address = "balancer"
             /\ api' = [deployment EXCEPT
                          !.replicas = IF cluster.shoot.hibernated /\ ~cluster.shoot.deleting THEN @ ELSE 1]
      BY <1>0, <1>6, EnsuredAPIServer DEF DeployAPIServer
    <2>2. /\ api'.mounts # "none" => api'.checksum = ensureChecksumAnnotations(seed.config, seed.configMaps)
          /\ ~cluster.shoot.hibernated => api'.address = "balancer"
      BY <2>1
    <2>3. /\ flow = "wait" /\ ~cp.pending /\ UNCHANGED <<cluster, cp, seed>>
      BY <1>6 DEF DeployAPIServer
    <2>4. Settled
      BY <2>3 DEF Settled
    <2> QED
      BY <2>2, <2>3, <2>4 DEF CurrentInv, ensureChecksumAnnotations
  <1>7. CASE DeployKubelet \/ DeployWorker
    <2>1. flow \in Deployed /\ UNCHANGED <<cluster, cp, seed, api>>
      BY <1>7 DEF DeployKubelet, DeployWorker, controlPlane, Deployed
    <2> QED
      BY <2>1 DEF CurrentInv, Settled
  <1>8. CASE FinishFlow
    <2>1. /\ flow \in Deployed /\ UNCHANGED <<cluster, cp, seed>>
          /\ api'.mounts = api.mounts /\ api'.checksum = api.checksum /\ api'.address = api.address
      BY <1>0, <1>8 DEF FinishFlow, Deployed
    <2> QED
      BY <2>1 DEF CurrentInv, Settled
  <1>9. CASE ChangeShoot \/ ChangeProfile \/ StartWorker \/ StoreMachineImages \/ FinishWorker \/ FailWorker
                \/ UNCHANGED vars
    <2>1. UNCHANGED <<flow, cluster, cp, seed, api>>
      BY <1>9, FlowFrame, ControlPlaneFrame
    <2> QED
      BY <2>1 DEF CurrentInv, Settled
  <1> QED
    BY <1>1, <1>2, <1>3, <1>4, <1>5, <1>6, <1>7, <1>8, <1>9 DEF Next

\* A controller that owes nothing has applied its charts with that
\* configuration.
THEOREM ShootCurrent == Spec => []CurrentInv
  <1> QED
    BY CurrentInit, CurrentNext, ShootTypeCorrect, ShootConfigCurrent, PTL DEF Spec

LEMMA OneConfig == InfraInv /\ LayoutInv /\ ConfigInv /\ MachinesInv /\ CurrentInv => RunsCurrentConfig
  <1> SUFFICES ASSUME InfraInv, LayoutInv, ConfigInv, MachinesInv, CurrentInv, Quiet, seed.config # Nil
               PROVE  /\ api.mounts # "none" => api.checksum = seed.config
                      /\ ~cluster.shoot.hibernated => api.address # Nil
                      /\ seed.config.auth = Auth
                      /\ \A class \in machines.classes : class.secret = Auth
                      /\ \A c \in Components : Enabled(c, cluster.shoot) =>
                            /\ seed.components[c] # Nil /\ seed.components[c].checksum = seed.config
                            /\ (c \in Running(seed.components)) = ~cluster.shoot.hibernated
    BY DEF RunsCurrentConfig
  <1>1. /\ flow = "done" /\ flow \in Deployed /\ flow \in Stored /\ Settled
        /\ ~cp.pending /\ ~cp.requeue /\ cp.run = Nil
    BY DEF Quiet, Settled, Deployed, Stored
  <1>2. /\ api.mounts # "none" => api.checksum = seed.config
        /\ ~cluster.shoot.hibernated => api.address # Nil
    BY <1>1, NilIsNoObject DEF CurrentInv
  <1>3. seed.config.auth = Auth
    <2>1. Whole(cp.status)
      BY <1>1 DEF InfraInv, LayoutInv
    <2>2. seed.config = getConfigChartValues(cp.status, cluster.shoot, Auth)
      BY <1>1 DEF ConfigInv, CloudConfig
    <2> QED
      BY <2>1, <2>2, ConfigOfStatus
  <1>4. \A class \in machines.classes : class.secret = Auth
    BY <1>1 DEF MachinesInv, Classes, Made
  <1>5. ~cluster.shoot.deleting
    BY <1>1 DEF LayoutInv
  <1>6. ASSUME NEW c \in Components, Enabled(c, cluster.shoot)
        PROVE  /\ seed.components[c] # Nil /\ seed.components[c].checksum = seed.config
               /\ (c \in Running(seed.components)) = ~cluster.shoot.hibernated
    <2>1. seed.components[c] = [replicas |-> IF cluster.shoot.hibernated THEN 0 ELSE 1, checksum |-> seed.config]
      BY <1>1, <1>5, <1>6 DEF CurrentInv, Charted
    <2> QED
      BY <2>1, ComponentIsNotNil DEF Running
  <1> QED
    BY <1>2, <1>3, <1>4, <1>6

\* When the flow is through, the API server and every enabled component were
\* started with the configuration that is in the seed now, made of the
\* credentials that are valid now, and so was every machine class; and the
\* components run exactly when the shoot is awake.
THEOREM ShootRunsCurrentConfig == Spec => []RunsCurrentConfig
  <1> QED
    BY OneConfig, ShootStatusWhole, ShootOneStatus, ShootConfigCurrent, ShootMachinesCurrent, ShootCurrent, PTL

-----------------------------------------------------------------------------
(* What can be reconciled again *)

\* While the immutable fields are kept, a shoot that is zoned in a stored
\* status or in the config the controllers work from is zoned in the garden.
ZonedInv ==
    immutableKept => /\ infra.config.zoned => shoot.infra.zoned
                     /\ infra.status # Nil /\ infra.status.zoned => infra.config.zoned

LEMMA ZonedInit == Init => ZonedInv
  <1> SUFFICES ASSUME Init PROVE ZonedInv
    OBVIOUS
  <1>1. CASE Fresh
    BY <1>1 DEF Fresh, ZonedInv
  <1>2. CASE Legacy
    <2>1. infra.config = shoot.infra
      BY <1>2 DEF Legacy
    <2> QED
      BY <1>2, <2>1, LegacyStart DEF ZonedInv
  <1> QED
    BY <1>1, <1>2 DEF Init

LEMMA ZonedNext == TypeInv /\ InfraInv /\ ZonedInv /\ [Next]_vars => ZonedInv'
  <1> SUFFICES ASSUME TypeInv, InfraInv, ZonedInv, [Next]_vars PROVE ZonedInv'
    OBVIOUS
  <1>0. DOMAIN infra = {"config", "status"} /\ immutableKept \in BOOLEAN
    BY DEF TypeInv, TypeOK, Shape
  <1>1. CASE ChangeShoot
    <2>1. /\ infra' = infra
          /\ immutableKept' = (immutableKept /\ ValidateInfrastructureConfigUpdate(shoot.infra, shoot'.infra))
      BY <1>1 DEF ChangeShoot
    <2> QED
      BY <2>1 DEF ZonedInv, ValidateInfrastructureConfigUpdate
  <1>2. CASE StartFlow
    <2>1. /\ infra' \in {infra, [infra EXCEPT !.config = shoot.infra]}
          /\ UNCHANGED <<shoot, immutableKept>>
      BY <1>2 DEF StartFlow
    <2>2. infra'.status = infra.status /\ infra'.config \in {infra.config, shoot.infra}
      BY <1>0, <2>1
    <2> QED
      BY <2>1, <2>2 DEF ZonedInv
  <1>3. CASE StoreInfrastructureStatus
    <2>1. UNCHANGED <<shoot, immutableKept>>
      BY <1>3 DEF StoreInfrastructureStatus, garden
    <2> QED
      BY <1>3, <2>1, StoredStatus DEF ZonedInv
  <1>4. CASE ChangeProfile \/ ApplyInfrastructure \/ DeployControlPlane \/ StartControlPlane \/ FinishControlPlane
                \/ FailControlPlane \/ DeployAPIServer \/ DeployKubelet \/ DeployWorker \/ StartWorker
                \/ StoreMachineImages \/ FinishWorker \/ FailWorker \/ FinishFlow \/ UNCHANGED vars
    <2>1. UNCHANGED <<shoot, immutableKept, infra>>
      BY <1>4 DEF ChangeProfile, ApplyInfrastructure, DeployControlPlane, StartControlPlane, FinishControlPlane,
                  FailControlPlane, DeployAPIServer, DeployKubelet, DeployWorker, StartWorker,
                  StoreMachineImages, FinishWorker, FailWorker, FinishFlow, garden, vars
    <2> QED
      BY <2>1 DEF ZonedInv
  <1> QED
    BY <1>1, <1>2, <1>3, <1>4 DEF Next

\* While no update touches an immutable field, neither a status nor a config
\* is zoned where the shoot in the garden is not.
THEOREM ShootZonedKept == Spec => []ZonedInv
  <1> QED
    BY ZonedInit, ZonedNext, ShootTypeCorrect, ShootStatusWhole, PTL DEF Spec

\* A stored status asks the CloudProfile only for domain counts it does not have.
LEMMA InfrastructureLemma == TypeInv /\ InfraInv /\ ZonedInv => InfrastructureRenders
  <1> SUFFICES ASSUME TypeInv, InfraInv, ZonedInv, infra.status # Nil, immutableKept, Layout = Nil
               PROVE  /\ StoredCounts(infra.status) = Nil
                      /\ Region \notin DOMAIN cluster.profile.countFaultDomains
                                           \cap DOMAIN cluster.profile.countUpdateDomains
    BY DEF InfrastructureRenders
  <1> DEFINE set == FindByPurpose(infra.status.availabilitySets, "nodes")
             p == cluster.profile
  <1>1. ~infra.config.zoned /\ findDomainCounts(infra.status, p) = Nil
    BY LayoutIsNotNil DEF Layout, ComputeTerraformerChartValues
  <1>2. Whole(infra.status) /\ ~infra.status.zoned
    BY <1>1 DEF InfraInv, ZonedInv
  <1>3. set # Nil
    BY <1>2 DEF Whole
  <1> HIDE DEF set
  <1>4. \/ set.countFaultDomains = Nil /\ FindDomainCountByRegion(p.countFaultDomains, Region) = Nil
        \/ set.countUpdateDomains = Nil /\ FindDomainCountByRegion(p.countUpdateDomains, Region) = Nil
    <2> DEFINE fault == IF set.countFaultDomains # Nil THEN set.countFaultDomains
                        ELSE FindDomainCountByRegion(p.countFaultDomains, Region)
               update == IF set.countUpdateDomains # Nil THEN set.countUpdateDomains
                         ELSE FindDomainCountByRegion(p.countUpdateDomains, Region)
    <2>1. findDomainCounts(infra.status, p) =
            IF fault = Nil \/ update = Nil THEN Nil ELSE [faultDomains |-> fault, updateDomains |-> update]
      BY <1>3 DEF findDomainCounts, set
    <2>2. fault = Nil \/ update = Nil
      BY <1>1, <2>1, CountsAreNotNil
    <2> QED
      BY <2>2
  <1>5. p \in Profiles
    BY DEF TypeInv, TypeOK
  <1>6. /\ Region \in DOMAIN p.countFaultDomains => p.countFaultDomains[Region] # Nil
        /\ Region \in DOMAIN p.countUpdateDomains => p.countUpdateDomains[Region] # Nil
    BY <1>5, ShootAssumption, NilIsNoObject
  <1>7. StoredCounts(infra.status) = Nil
    BY <1>3, <1>4 DEF StoredCounts, set
  <1> QED
    BY <1>4, <1>6, <1>7 DEF FindDomainCountByRegion

\* Every pool finds its image in the list.
Holds(images, pools) == \A i \in DOMAIN pools : FindMachineImage(images, pools[i].image) # Nil

\* The images of the pools that were reconciled last are in the Worker's status,
\* or a run is about to store them.
ImagesInv ==
    /\ Listed(worker.machineImages)
    /\ worker.infrastructureStatus # Nil /\ ~worker.pending /\ worker.run = Nil =>
          Holds(worker.machineImages, worker.pools)
    /\ worker.run # Nil =>
          /\ Listed(worker.run.config.images)
          /\ ~worker.pending => Holds(worker.run.config.images, worker.pools)
          /\ worker.run.stored => worker.machineImages = worker.run.config.images

LEMMA ImagesInit == Init => ImagesInv
  <1> SUFFICES ASSUME Init PROVE ImagesInv
    OBVIOUS
  <1>1. /\ worker.machineImages = <<>> /\ worker.infrastructureStatus = Nil /\ worker.run = Nil
    BY DEF Init
  <1> QED
    BY <1>1, NothingListed DEF ImagesInv

LEMMA ImagesNext == TypeInv /\ MachinesInv /\ ImagesInv /\ [Next]_vars => ImagesInv'
  <1> SUFFICES ASSUME TypeInv, MachinesInv, ImagesInv, [Next]_vars PROVE ImagesInv'
    OBVIOUS
  <1>0. /\ DOMAIN worker = {"pools", "infrastructureStatus", "machineImages", "pending", "run"}
        /\ worker.run # Nil => DOMAIN worker.run = {"config", "stored"}
    BY DEF TypeInv, TypeOK, Shape
  <1>1. CASE DeployWorker
    <2>1. /\ worker'.pending = TRUE /\ worker'.run = worker.run /\ worker'.machineImages = worker.machineImages
      BY <1>0, <1>1 DEF DeployWorker
    <2> QED
      BY <2>1 DEF ImagesInv
  <1>2. CASE StartWorker
    <2>1. PICK generated :
             /\ generated = Generated /\ generated # Nil
             /\ worker' = [worker EXCEPT !.pending = FALSE, !.run = [config |-> generated, stored |-> FALSE]]
      BY <1>2 DEF StartWorker
    <2>2. /\ worker'.pools = worker.pools /\ worker'.machineImages = worker.machineImages
          /\ worker'.run = [config |-> generated, stored |-> FALSE]
      BY <1>0, <2>1
    <2>3. worker.pools \in Seq({worker.pools[i] : i \in DOMAIN worker.pools}) /\ Listed(worker.machineImages)
      BY DEF MachinesInv, ValidWorkers, List, ImagesInv
    <2>4. Listed(generated.images) /\ Holds(generated.images, worker.pools)
      BY <2>1, <2>3, GeneratedImages DEF Generated, Holds
    <2>5. worker'.run # Nil /\ worker'.run.config = generated /\ worker'.run.stored = FALSE
      BY <2>2, WorkerRunIsNotNil
    <2> QED
      BY <2>2, <2>3, <2>4, <2>5 DEF ImagesInv
  <1>3. CASE StoreMachineImages
    <2>1. /\ worker'.pools = worker.pools /\ worker'.pending = worker.pending
          /\ worker.run # Nil /\ worker'.run = [worker.run EXCEPT !.stored = TRUE]
          /\ worker'.machineImages = worker.run.config.images
      BY <1>0, <1>3 DEF StoreMachineImages
    <2>2. worker'.run = [config |-> worker.run.config, stored |-> TRUE]
      BY <1>0, <2>1
    <2>3. worker'.run # Nil /\ worker'.run.config = worker.run.config
      BY <2>2, WorkerRunIsNotNil
    <2> QED
      BY <2>1, <2>3 DEF ImagesInv
  <1>4. CASE FinishWorker
    <2>1. /\ worker'.pools = worker.pools /\ worker'.pending = worker.pending
          /\ worker.run # Nil /\ worker.run.stored /\ worker'.run = Nil
          /\ worker'.machineImages = worker.machineImages
      BY <1>0, <1>4 DEF FinishWorker
    <2> QED
      BY <2>1 DEF ImagesInv
  <1>5. CASE FailWorker
    <2>1. /\ worker'.pending = TRUE /\ worker'.run = Nil /\ worker'.machineImages = worker.machineImages
      BY <1>0, <1>5 DEF FailWorker
    <2> QED
      BY <2>1 DEF ImagesInv
  <1>6. CASE ChangeShoot \/ ChangeProfile \/ StartFlow \/ ApplyInfrastructure \/ StoreInfrastructureStatus
                \/ DeployControlPlane \/ StartControlPlane \/ FinishControlPlane \/ FailControlPlane
                \/ DeployAPIServer \/ DeployKubelet \/ FinishFlow \/ UNCHANGED vars
    <2>1. worker' = worker
      BY <1>6 DEF ChangeShoot, ChangeProfile, StartFlow, ApplyInfrastructure, StoreInfrastructureStatus,
                  DeployControlPlane, StartControlPlane, FinishControlPlane, FailControlPlane,
                  DeployAPIServer, DeployKubelet, FinishFlow, vars
    <2> QED
      BY <2>1 DEF ImagesInv
  <1> QED
    BY <1>1, <1>2, <1>3, <1>4, <1>5, <1>6 DEF Next

\* The status of the workers remembers the images of their pools
\* (appendMachineImage), with or without the CloudProfile.
THEOREM ShootImagesKept == Spec => []ImagesInv
  <1> QED
    BY ImagesInit, ImagesNext, ShootTypeCorrect, ShootMachinesCurrent, PTL DEF Spec

LEMMA Renderable ==
    TypeInv /\ InfraInv /\ CopiesInv /\ ZonedInv /\ ImagesInv => StaysRenderable
  <1> SUFFICES ASSUME TypeInv, InfraInv, CopiesInv, ZonedInv, ImagesInv
               PROVE  StaysRenderable
    OBVIOUS
  <1>1. InfrastructureRenders
    BY InfrastructureLemma
  <1>2. Auth # Nil => ControlPlaneRenders
    <2> SUFFICES ASSUME Auth # Nil, cp.pending PROVE CloudConfig # Nil
      BY DEF ControlPlaneRenders
    <2>1. Whole(cp.status)
      BY DEF CopiesInv
    <2> QED
      BY <2>1, ConfigOfStatus DEF CloudConfig
  <1>3. Auth # Nil => WorkersRender
    <2> SUFFICES ASSUME Auth # Nil, worker.infrastructureStatus # Nil, ~worker.pending, worker.run = Nil
                 PROVE  Generated # Nil
      BY DEF WorkersRender
    <2> DEFINE status == worker.infrastructureStatus
               Image(pool) == findMachineImage(cluster.profile, worker.machineImages, pool.image)
    <2>1. /\ FindByPurpose(status.subnets, "nodes") # Nil
          /\ ~status.zoned => FindByPurpose(status.availabilitySets, "nodes") # Nil
      BY DEF CopiesInv, Whole
    <2>2. \A i \in DOMAIN worker.pools : Image(worker.pools[i]) # Nil
      BY DEF ImagesInv, Holds, findMachineImage
    <2> QED
      BY <2>1, <2>2, GeneratedIsNotNil DEF Generated, generateMachineConfig
  <1> QED
    BY <1>1, <1>2, <1>3 DEF StaysRenderable

\* With a complete secret, what was reconciled once can be reconciled again
\* after every change that keeps the immutable fields.
THEOREM ShootStaysRenderable == Spec => []StaysRenderable
  <1> QED
    BY Renderable, ShootTypeCorrect, ShootStatusWhole, ShootCopiesWhole, ShootZonedKept, ShootImagesKept, PTL

-----------------------------------------------------------------------------
(* The hash in the name *)

\* The hash of a class determines its hardware, data disks up to their order.
Hashed(class) ==
    LET hash == class.hash IN
    /\ class.spec.machineType = hash[2]
    /\ class.spec.identity = hash[6]
    /\ class.spec.disks.osDisk =
          [size |-> hash[4], type |-> IF hash[5] \in validDiskTypes THEN hash[5] ELSE Nil]
    /\ DOMAIN DataDisks(class) = DOMAIN hash[7]
    /\ \A x : Count(DataDisks(class), x) = Count(hash[7], x)

LEMMA GeneratedHashed ==
    ASSUME NEW w, NEW version, NEW p, NEW auth, ValidWorkers(w.pools),
           generateMachineConfig(w, version, p, auth) # Nil,
           NEW class \in generateMachineConfig(w, version, p, auth).classes
    PROVE  Hashed(class)
  <1> DEFINE status == w.infrastructureStatus
             pools == {w.pools[i] : i \in DOMAIN w.pools}
             Image(pool) == findMachineImage(p, w.machineImages, pool.image)
  <1>1. generateMachineConfig(w, version, p, auth).classes =
          UNION {{generateMachineClass(pool, zone, version, status, p, Image(pool), auth)
                     : zone \in PoolZones(pool, status.zoned)} : pool \in pools}
    BY DEF generateMachineConfig
  <1>2. PICK pool \in pools :
           \E zone \in PoolZones(pool, status.zoned) :
              class = generateMachineClass(pool, zone, version, status, p, Image(pool), auth)
    BY <1>1
  <1>3. PICK zone \in PoolZones(pool, status.zoned) :
           class = generateMachineClass(pool, zone, version, status, p, Image(pool), auth)
    BY <1>2
  <1> DEFINE volumes == pool.dataVolumes
             n == Len(volumes)
  <1>4. /\ n \in Nat /\ DOMAIN volumes = 1 .. n
        /\ \A i \in 1 .. n : volumes[i].name \in Int
        /\ \A i, j \in 1 .. n : volumes[i].name = volumes[j].name => i = j
    <2>1. PICK i \in DOMAIN w.pools : pool = w.pools[i]
      BY <1>2
    <2>2. /\ List(volumes)
          /\ \A j \in DOMAIN volumes : volumes[j].name \in Int
          /\ \A j, k \in DOMAIN volumes : volumes[j].name = volumes[k].name => j = k
      BY <2>1 DEF ValidWorkers
    <2> HIDE DEF volumes
    <2>3. n \in Nat /\ DOMAIN volumes = 1 .. n
      BY <2>2 DEF List
    <2> QED
      BY <2>2, <2>3
  <1>5. /\ class.hash = WorkerPoolHash(pool, version, status.identity)
        /\ class.spec.machineType = pool.machineType
        /\ class.spec.identity = (IF status.identity = Nil THEN Nil ELSE status.identity.id)
        /\ class.spec.disks = computeDisks(pool)
    BY <1>3 DEF generateMachineClass
  <1>6. /\ class.hash[2] = pool.machineType /\ class.hash[4] = pool.volume.size /\ class.hash[5] = pool.volume.type
        /\ class.hash[6] = (IF status.identity = Nil THEN Nil ELSE status.identity.id)
        /\ class.hash[7] = Disks(volumes)
    BY <1>5 DEF WorkerPoolHash, computeAdditionalHashData, Disks
  <1>7. /\ class.spec.disks.osDisk =
              [size |-> pool.volume.size,
               type |-> IF pool.volume.type \in validDiskTypes THEN pool.volume.type ELSE Nil]
        /\ class.spec.disks.dataDisks = SortedByName(volumes)
    BY <1>5 DEF computeDisks
  <1>8. DataDisks(class) = Disks(SortedByName(volumes))
    BY <1>7 DEF DataDisks, Disks
  <1> HIDE DEF volumes, n
  <1>9. ASSUME NEW x
        PROVE  /\ DOMAIN SortedByName(volumes) = DOMAIN volumes
               /\ Count(Disks(SortedByName(volumes)), x) = Count(Disks(volumes), x)
    BY <1>4, SameDisks
  <1>10. DOMAIN DataDisks(class) = DOMAIN class.hash[7]
    BY <1>6, <1>8, <1>9 DEF Disks
  <1>11. \A x : Count(DataDisks(class), x) = Count(class.hash[7], x)
    BY <1>6, <1>8, <1>9
  <1> QED
    BY <1>5, <1>6, <1>7, <1>10, <1>11 DEF Hashed

\* Every class there is or is about to be was generated.
HashInv ==
    /\ \A class \in machines.classes : Hashed(class)
    /\ worker.run # Nil => \A class \in worker.run.config.classes : Hashed(class)

LEMMA HashInit == Init => HashInv
  BY DEF Init, HashInv

LEMMA HashNext == TypeInv /\ MachinesInv /\ HashInv /\ [Next]_vars => HashInv'
  <1> SUFFICES ASSUME TypeInv, MachinesInv, HashInv, [Next]_vars PROVE HashInv'
    OBVIOUS
  <1>0. /\ DOMAIN worker = {"pools", "infrastructureStatus", "machineImages", "pending", "run"}
        /\ DOMAIN machines = {"classes", "deployments"}
        /\ worker.run # Nil => DOMAIN worker.run = {"config", "stored"}
    BY DEF TypeInv, Shape
  <1>1. CASE DeployWorker
    <2>1. worker'.run = worker.run /\ machines' = machines
      BY <1>0, <1>1 DEF DeployWorker
    <2> QED
      BY <2>1 DEF HashInv
  <1>2. CASE StartWorker
    <2>1. PICK generated :
             /\ generated = Generated /\ generated # Nil
             /\ machines' = [machines EXCEPT !.classes = DeployMachineClasses(@, generated.classes)]
             /\ worker' = [worker EXCEPT !.pending = FALSE, !.run = [config |-> generated, stored |-> FALSE]]
      BY <1>2 DEF StartWorker
    <2>2. /\ worker'.run = [config |-> generated, stored |-> FALSE]
          /\ machines'.classes \subseteq machines.classes \cup generated.classes
      BY <1>0, <2>1 DEF DeployMachineClasses
    <2>3. \A class \in generated.classes : Hashed(class)
      BY <2>1, GeneratedHashed DEF Generated, MachinesInv
    <2>4. worker'.run.config = generated
      BY <2>2
    <2> QED
      BY <2>2, <2>3, <2>4 DEF HashInv
  <1>3. CASE StoreMachineImages
    <2>1. /\ worker.run # Nil /\ worker'.run = [worker.run EXCEPT !.stored = TRUE] /\ machines' = machines
      BY <1>0, <1>3 DEF StoreMachineImages
    <2>2. worker'.run.config = worker.run.config
      BY <1>0, <2>1
    <2> QED
      BY <2>1, <2>2 DEF HashInv
  <1>4. CASE FinishWorker
    <2>1. worker.run # Nil /\ worker'.run = Nil /\ machines'.classes = worker.run.config.classes
      BY <1>0, <1>4 DEF FinishWorker
    <2> QED
      BY <2>1 DEF HashInv
  <1>5. CASE FailWorker
    <2>1. worker'.run = Nil /\ machines' = machines
      BY <1>0, <1>5 DEF FailWorker
    <2> QED
      BY <2>1 DEF HashInv
  <1>6. CASE ChangeShoot \/ ChangeProfile \/ StartFlow \/ ApplyInfrastructure \/ StoreInfrastructureStatus
                \/ DeployControlPlane \/ StartControlPlane \/ FinishControlPlane \/ FailControlPlane
                \/ DeployAPIServer \/ DeployKubelet \/ FinishFlow \/ UNCHANGED vars
    <2>1. worker' = worker /\ machines' = machines
      BY <1>6 DEF ChangeShoot, ChangeProfile, StartFlow, ApplyInfrastructure, StoreInfrastructureStatus,
                  DeployControlPlane, StartControlPlane, FinishControlPlane, FailControlPlane,
                  DeployAPIServer, DeployKubelet, FinishFlow, vars
    <2> QED
      BY <2>1 DEF HashInv
  <1> QED
    BY <1>1, <1>2, <1>3, <1>4, <1>5, <1>6 DEF Next

\* The name of every class tells its hardware and its disks (WorkerPoolHash).
THEOREM ShootHashed == Spec => []HashInv
  <1> QED
    BY HashInit, HashNext, ShootTypeCorrect, ShootMachinesCurrent, PTL DEF Spec

LEMMA SameHashSameMachine ==
    ASSUME NEW old, NEW new, Hashed(old), Hashed(new), old.hash = new.hash
    PROVE  Hardware(old) = Hardware(new) /\ SameBag(DataDisks(old), DataDisks(new))
  <1>1. Hardware(old) = Hardware(new)
    BY DEF Hashed, Hardware
  <1>2. DOMAIN DataDisks(old) = DOMAIN DataDisks(new)
    BY DEF Hashed
  <1>3. \A x : Count(DataDisks(old), x) = Count(DataDisks(new), x)
    BY DEF Hashed
  <1> QED
    BY <1>1, <1>2, <1>3 DEF SameBag, Count

LEMMA HashStep == HashInv /\ HashInv' =>
    [\A old \in machines.classes, new \in machines'.classes :
          ClassName(old) = ClassName(new) =>
              Hardware(old) = Hardware(new) /\ SameBag(DataDisks(old), DataDisks(new))]_machines
  <1> SUFFICES ASSUME HashInv, HashInv', NEW old \in machines.classes, NEW new \in machines'.classes,
                      ClassName(old) = ClassName(new)
               PROVE  Hardware(old) = Hardware(new) /\ SameBag(DataDisks(old), DataDisks(new))
    OBVIOUS
  <1>1. old.hash = new.hash
    BY DEF ClassName
  <1> QED
    BY <1>1, SameHashSameMachine DEF HashInv

\* A class is only overwritten with the same hardware: what needs new machines
\* gets a class of another name.
THEOREM ShootSameNameSameMachine == Spec => SameNameSameMachine
  <1> QED
    BY HashStep, ShootHashed, PTL DEF SameNameSameMachine

-----------------------------------------------------------------------------
(* The machines of the zones *)

\* Pools are in zones exactly in zoned shoots: where they were admitted, where
\* the flow works from them, and where the worker controller does, which is
\* told by the status of the infrastructure.
AdmittedInv ==
    /\ ValidateWorkers(shoot.workers, shoot.infra.zoned)
    /\ ValidateWorkers(cluster.shoot.workers, cluster.shoot.infra.zoned)
    /\ ~cluster.shoot.deleting => infra.config = cluster.shoot.infra
    /\ flow \in Deployed \/ (flow \in {"control plane", "wait"} /\ ~cluster.shoot.deleting) =>
          infra.status.zoned = infra.config.zoned
    /\ flow \in {"machines", "done"} => ValidateWorkers(worker.pools, worker.infrastructureStatus.zoned)

LEMMA AdmittedWorkers ==
    ASSUME NEW old, NEW new, Handle(old, new)
    PROVE  ValidateWorkers(new.workers, new.infra.zoned)
  BY DEF Handle, validateShootCreation, validateShootUpdate, validateShoot

LEMMA AdmittedInit == Init => AdmittedInv
  <1> SUFFICES ASSUME Init PROVE AdmittedInv
    OBVIOUS
  <1>1. PICK created \in Created : Handle(Nil, created[1]) /\ shoot = created[1]
    BY DEF Init
  <1>2. ValidateWorkers(shoot.workers, shoot.infra.zoned) /\ cluster.shoot = shoot
    BY <1>1, AdmittedWorkers DEF Init
  <1>3. CASE Fresh
    <2>1. flow = "idle" /\ infra.config = shoot.infra
      BY <1>3 DEF Fresh
    <2> QED
      BY <1>2, <2>1 DEF AdmittedInv, Deployed
  <1>4. CASE Legacy
    <2>1. flow \in {"idle", "wait", "kubelet"} /\ infra.config = shoot.infra
      BY <1>4 DEF Legacy
    <2>2. infra.status.zoned = infra.config.zoned
      BY <1>4, <2>1, LegacyStart
    <2> QED
      BY <1>2, <2>1, <2>2 DEF AdmittedInv
  <1> QED
    BY <1>3, <1>4 DEF Init

LEMMA AdmittedNext == TypeInv /\ InfraInv /\ LayoutInv /\ AdmittedInv /\ [Next]_vars => AdmittedInv'
  <1> SUFFICES ASSUME TypeInv, InfraInv, LayoutInv, AdmittedInv, [Next]_vars PROVE AdmittedInv'
    OBVIOUS
  <1>0. /\ DOMAIN worker = {"pools", "infrastructureStatus", "machineImages", "pending", "run"}
        /\ DOMAIN infra = {"config", "status"}
    BY DEF TypeInv, Shape
  <1>1. CASE ChangeShoot
    <2>1. Handle(shoot, shoot') /\ UNCHANGED <<flow, cluster, infra, worker>>
      BY <1>1 DEF ChangeShoot
    <2>2. ValidateWorkers(shoot.workers, shoot.infra.zoned)'
      BY <2>1, AdmittedWorkers
    <2> QED
      BY <2>1, <2>2 DEF AdmittedInv
  <1>2. CASE StartFlow
    <2>1. /\ cluster'.shoot = shoot /\ UNCHANGED <<shoot, worker>>
          /\ flow' \in {"infrastructure", "control plane", "deleting"}
          /\ flow' = "control plane" => shoot.deleting
          /\ ~shoot.deleting => infra' = [infra EXCEPT !.config = shoot.infra]
      BY <1>2 DEF StartFlow
    <2>2. ~shoot.deleting => infra'.config = shoot.infra
      BY <1>0, <2>1
    <2> QED
      BY <2>1, <2>2 DEF AdmittedInv, Deployed
  <1>3. CASE StoreInfrastructureStatus
    <2>1. infra'.status.zoned = infra.config.zoned /\ infra'.config = infra.config
      BY <1>3, StoredStatus
    <2>2. UNCHANGED <<shoot, cluster, worker>> /\ flow' = "control plane"
      BY <1>3 DEF StoreInfrastructureStatus, garden
    <2> QED
      BY <2>1, <2>2 DEF AdmittedInv, Deployed
  <1>4. CASE ApplyInfrastructure
    <2>1. UNCHANGED <<shoot, cluster, infra, worker>> /\ flow' = "applied"
      BY <1>4 DEF ApplyInfrastructure, garden
    <2> QED
      BY <2>1 DEF AdmittedInv, Deployed
  <1>5. CASE DeployControlPlane \/ DeployAPIServer \/ DeployKubelet
    <2>1. /\ UNCHANGED <<shoot, cluster, infra, worker>>
          /\ \/ flow = "control plane" /\ flow' = "wait"
             \/ flow = "wait" /\ flow' = (IF cluster.shoot.deleting THEN "deleting" ELSE "kubelet")
             \/ flow = "kubelet" /\ flow' = "worker"
      BY <1>5 DEF DeployControlPlane, DeployAPIServer, DeployKubelet, garden
    <2> QED
      BY <2>1 DEF AdmittedInv, Deployed
  <1>6. CASE DeployWorker
    <2>1. /\ worker'.pools = cluster.shoot.workers /\ worker'.infrastructureStatus = infra.status
          /\ UNCHANGED <<shoot, cluster, infra>> /\ flow = "worker" /\ flow' = "machines"
      BY <1>0, <1>6 DEF DeployWorker, garden
    <2>2. ~cluster.shoot.deleting
      BY <2>1 DEF LayoutInv, Deployed
    <2>3. infra.status.zoned = cluster.shoot.infra.zoned
      BY <2>1, <2>2 DEF AdmittedInv, Deployed
    <2>4. ValidateWorkers(cluster.shoot.workers, infra.status.zoned)
      BY <2>3 DEF AdmittedInv
    <2>5. ValidateWorkers(worker.pools, worker.infrastructureStatus.zoned)'
      BY <2>1, <2>4
    <2> QED
      BY <2>1, <2>3, <2>5 DEF AdmittedInv, Deployed
  <1>7. CASE StartWorker \/ StoreMachineImages \/ FinishWorker \/ FailWorker
    <2>1. UNCHANGED <<shoot, cluster, infra, flow>>
      BY <1>7 DEF StartWorker, StoreMachineImages, FinishWorker, FailWorker, garden
    <2>2. worker'.pools = worker.pools /\ worker'.infrastructureStatus = worker.infrastructureStatus
      <3>1. CASE StartWorker
        BY <1>0, <3>1 DEF StartWorker
      <3>2. CASE StoreMachineImages
        BY <1>0, <3>2 DEF StoreMachineImages
      <3>3. CASE FinishWorker \/ FailWorker
        BY <1>0, <3>3 DEF FinishWorker, FailWorker
      <3> QED
        BY <1>7, <3>1, <3>2, <3>3
    <2> QED
      BY <2>1, <2>2 DEF AdmittedInv
  <1>8. CASE FinishFlow
    <2>1. UNCHANGED <<shoot, cluster, infra, worker>> /\ flow = "machines" /\ flow' = "done"
      BY <1>8 DEF FinishFlow, garden
    <2> QED
      BY <2>1 DEF AdmittedInv, Deployed
  <1>9. CASE ChangeProfile \/ StartControlPlane \/ FinishControlPlane \/ FailControlPlane \/ UNCHANGED vars
    <2>1. UNCHANGED <<shoot, flow, cluster, infra, worker>>
      BY <1>9 DEF ChangeProfile, StartControlPlane, FinishControlPlane, FailControlPlane, garden, vars
    <2> QED
      BY <2>1 DEF AdmittedInv
  <1> QED
    BY <1>1, <1>2, <1>3, <1>4, <1>5, <1>6, <1>7, <1>8, <1>9 DEF Next

\* The pools the worker controller works from are in zones exactly when the
\* infrastructure it is told of is zoned.
THEOREM ShootPoolsAdmitted == Spec => []AdmittedInv
  <1> QED
    BY AdmittedInit, AdmittedNext, ShootTypeCorrect, ShootStatusWhole, ShootOneStatus, PTL DEF Spec

\* Every pool has what it asks for among these deployments.
Served(deployments, pools) ==
    \A i \in DOMAIN pools : Shares({d \in deployments : d.pool = pools[i].name}, pools[i])

LEMMA GeneratedServes ==
    ASSUME NEW w, NEW version, NEW p, NEW auth, ValidWorkers(w.pools),
           ValidateWorkers(w.pools, w.infrastructureStatus.zoned),
           w.infrastructureStatus.zoned \in BOOLEAN,
           generateMachineConfig(w, version, p, auth) # Nil
    PROVE  Served(generateMachineConfig(w, version, p, auth).deployments, w.pools)
  <1> DEFINE zoned == w.infrastructureStatus.zoned
             pools == {w.pools[i] : i \in DOMAIN w.pools}
             One(pool) == [pool |-> pool.name, zone |-> Nil,
                           minimum |-> pool.minimum, maximum |-> pool.maximum,
                           maxSurge |-> pool.maxSurge, maxUnavailable |-> pool.maxUnavailable]
             Of(pool) == IF zoned THEN {generateMachineDeployment(pool, i - 1) : i \in DOMAIN pool.zones}
                         ELSE {One(pool)}
             deployments == generateMachineConfig(w, version, p, auth).deployments
  <1>1. deployments = UNION {Of(pool) : pool \in pools}
    BY DEF generateMachineConfig
  <1>2. \A pool \in pools : \A d \in Of(pool) : d.pool = pool.name
    BY DEF generateMachineDeployment
  <1> SUFFICES ASSUME NEW i \in DOMAIN w.pools
               PROVE  Shares({d \in deployments : d.pool = w.pools[i].name}, w.pools[i])
    BY DEF Served
  <1> DEFINE pool == w.pools[i]
  <1>3. pool \in pools
    OBVIOUS
  <1>4. \A other \in pools : other.name = pool.name => other = pool
    BY DEF ValidWorkers
  <1>5. /\ pool.minimum \in Nat /\ pool.maximum \in Nat /\ pool.minimum <= pool.maximum
        /\ pool.zones \in Seq(Zones)
    BY DEF ValidWorkers
  <1>6. /\ zoned <=> pool.zones # <<>>
        /\ \A j, k \in DOMAIN pool.zones : pool.zones[j] = pool.zones[k] => j = k
    BY DEF ValidateWorkers
  <1> HIDE DEF pools, Of, deployments, pool
  <1>7. {d \in deployments : d.pool = pool.name} = Of(pool)
    BY <1>1, <1>2, <1>3, <1>4
  <1>8. Shares(Of(pool), pool)
    <2>1. CASE zoned
      BY <1>5, <1>6, <2>1, ZonedPoolShares DEF Of
    <2>2. CASE ~zoned
      <3>1. One(pool).minimum = pool.minimum /\ One(pool).maximum = pool.maximum
        OBVIOUS
      <3>2. Of(pool) = {One(pool)}
        BY <2>2 DEF Of
      <3> HIDE DEF One
      <3>3. Shares({One(pool)}, pool)
        BY <1>5, <3>1, OneShare
      <3> QED
        BY <3>2, <3>3
    <2> QED
      BY <2>1, <2>2
  <1> QED
    BY <1>7, <1>8 DEF pool

\* The deployments the worker controller is about to leave behind.
Deployments == IF worker.run # Nil THEN worker.run.config.deployments ELSE machines.deployments

\* Where the flow waits for the machines and the controller owes it nothing, the
\* deployments serve the pools.
SharesInv ==
    flow \in {"machines", "done"} /\ ~worker.pending => Served(Deployments, worker.pools)

LEMMA SharesInit == Init => SharesInv
  BY DEF Init, Fresh, Legacy, SharesInv

LEMMA SharesNext ==
    TypeInv /\ CopiesInv /\ MachinesInv /\ AdmittedInv /\ SharesInv /\ [Next]_vars => SharesInv'
  <1> SUFFICES ASSUME TypeInv, CopiesInv, MachinesInv, AdmittedInv, SharesInv, [Next]_vars PROVE SharesInv'
    OBVIOUS
  <1>0. /\ DOMAIN worker = {"pools", "infrastructureStatus", "machineImages", "pending", "run"}
        /\ DOMAIN machines = {"classes", "deployments"}
        /\ worker.run # Nil => DOMAIN worker.run = {"config", "stored"}
    BY DEF TypeInv, Shape
  <1>1. CASE StartFlow \/ ApplyInfrastructure \/ StoreInfrastructureStatus \/ DeployControlPlane
                \/ DeployAPIServer \/ DeployKubelet
    <2>1. flow' \notin {"machines", "done"}
      BY <1>1 DEF StartFlow, ApplyInfrastructure, StoreInfrastructureStatus, DeployControlPlane,
                  DeployAPIServer, DeployKubelet
    <2> QED
      BY <2>1 DEF SharesInv
  <1>2. CASE DeployWorker \/ FailWorker
    <2>1. worker'.pending = TRUE
      BY <1>0, <1>2 DEF DeployWorker, FailWorker
    <2> QED
      BY <2>1 DEF SharesInv
  <1>3. CASE StartWorker
    <2>1. PICK generated :
             /\ generated = Generated /\ generated # Nil
             /\ worker' = [worker EXCEPT !.pending = FALSE, !.run = [config |-> generated, stored |-> FALSE]]
      BY <1>3 DEF StartWorker
    <2>2. /\ worker'.pools = worker.pools /\ worker'.run = [config |-> generated, stored |-> FALSE]
      BY <1>0, <2>1
    <2>3. Deployments' = generated.deployments
      BY <2>2, WorkerRunIsNotNil DEF Deployments
    <2>4. flow' = flow /\ worker.pending
      BY <1>3 DEF StartWorker
    <2>5. Whole(worker.infrastructureStatus) /\ ValidWorkers(worker.pools)
      BY <2>4 DEF CopiesInv, MachinesInv
    <2>6. flow \in {"machines", "done"} => ValidateWorkers(worker.pools, worker.infrastructureStatus.zoned)
      BY DEF AdmittedInv
    <2>7. flow \in {"machines", "done"} => Served(generated.deployments, worker.pools)
      BY <2>1, <2>5, <2>6, GeneratedServes DEF Generated, Whole
    <2> QED
      BY <2>2, <2>3, <2>4, <2>7 DEF SharesInv
  <1>4. CASE StoreMachineImages
    <2>1. /\ worker'.pools = worker.pools /\ worker'.pending = worker.pending
          /\ worker.run # Nil /\ worker'.run = [worker.run EXCEPT !.stored = TRUE]
          /\ flow' = flow
      BY <1>0, <1>4 DEF StoreMachineImages
    <2>2. worker'.run = [config |-> worker.run.config, stored |-> TRUE]
      BY <1>0, <2>1
    <2>3. Deployments' = Deployments
      BY <2>1, <2>2, WorkerRunIsNotNil DEF Deployments
    <2> QED
      BY <2>1, <2>3 DEF SharesInv
  <1>5. CASE FinishWorker
    <2>1. /\ worker'.pools = worker.pools /\ worker'.pending = worker.pending
          /\ worker.run # Nil /\ worker'.run = Nil
          /\ machines'.deployments = worker.run.config.deployments
          /\ flow' = flow
      BY <1>0, <1>5 DEF FinishWorker
    <2>2. Deployments' = Deployments
      BY <2>1 DEF Deployments
    <2> QED
      BY <2>1, <2>2 DEF SharesInv
  <1>6. CASE FinishFlow
    <2>1. /\ flow = "machines" /\ UNCHANGED <<worker, machines>>
      BY <1>6 DEF FinishFlow
    <2>2. Deployments' = Deployments
      BY <2>1 DEF Deployments
    <2> QED
      BY <2>1, <2>2 DEF SharesInv
  <1>7. CASE ChangeShoot \/ ChangeProfile \/ StartControlPlane \/ FinishControlPlane \/ FailControlPlane
                \/ UNCHANGED vars
    <2>1. UNCHANGED <<flow, worker, machines>>
      BY <1>7 DEF ChangeShoot, ChangeProfile, StartControlPlane, FinishControlPlane, FailControlPlane, vars
    <2>2. Deployments' = Deployments
      BY <2>1 DEF Deployments
    <2> QED
      BY <2>1, <2>2 DEF SharesInv
  <1> QED
    BY <1>1, <1>2, <1>3, <1>4, <1>5, <1>6, <1>7 DEF Next

\* What the worker controller generates for pools that were admitted serves
\* them, and stays until the flow starts over.
THEOREM ShootServed == Spec => []SharesInv
  <1> QED
    BY SharesInit, SharesNext, ShootTypeCorrect, ShootCopiesWhole, ShootMachinesCurrent, ShootPoolsAdmitted,
       PTL DEF Spec

LEMMA ServedShares == MachinesInv /\ SharesInv => ZoneShares
  <1> SUFFICES ASSUME MachinesInv, SharesInv, flow = "done", NEW i \in DOMAIN worker.pools
               PROVE  LET pool  == worker.pools[i]
                          mine  == {d \in machines.deployments : d.pool = pool.name}
                          Share(field) == MapThenSumSet(LAMBDA d : d[field], mine)
                      IN  /\ Share("minimum") = pool.minimum /\ Share("maximum") = pool.maximum
                          /\ \A d \in mine : d.minimum <= d.maximum
                          /\ \A d, e \in mine : d.maximum <= e.maximum + 1
    BY DEF ZoneShares
  <1>1. Deployments = machines.deployments /\ ~worker.pending
    BY DEF MachinesInv, Deployments
  <1>2. Shares({d \in machines.deployments : d.pool = worker.pools[i].name}, worker.pools[i])
    BY <1>1 DEF SharesInv, Served
  <1> QED
    BY <1>2 DEF Shares, Total

\* The deployments of a pool's zones have all its machines between them, each
\* at least as many at most as at least, and no zone more than one machine more
\* than another.
THEOREM ShootZoneShares == Spec => []ZoneShares
  <1> QED
    BY ServedShares, ShootServed, ShootMachinesCurrent, PTL
=============================================================================
