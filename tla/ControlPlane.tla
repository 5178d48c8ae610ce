---------------------------- MODULE ControlPlane ----------------------------
(***************************************************************************)
(* The control plane controller: the generic reconciler and actuator of    *)
(* the vendored extensions library, which deploy the charts of             *)
(* ControlPlaneValues, and the Azure actuator around them                  *)
(* (pkg/controller/controlplane), which first gets rid of the resources of *)
(* the remedy controller.  One step is one call to an API server.          *)
(*                                                                         *)
(* The remedy controller runs in the seed while its Deployment exists: it  *)
(* makes a resource for each public IP address and virtual machine of the  *)
(* shoot, holds it with a finalizer and, when it is deleted, cleans the    *)
(* address up in Azure unless the resource tells it not to.                *)
(***************************************************************************)
EXTENDS ControlPlaneValues, ExtensionResource

CONSTANTS PublicIPs, VirtualMachines      \* names of resources the remedy controller may make

\* They are resources of two kinds.
ASSUME RemedyAssumption == PublicIPs \cap VirtualMachines = {}

VARIABLES
    cp,            \* the ControlPlane resource
    cpShoot,       \* what the charts depend on: [version, remedy, acr]
    objects,       \* the provider's objects in the shoot's namespace of the seed
    managed,       \* the managed resources: Nil or [holds, deleting], what they have in the shoot
    remedies,      \* the resources of the remedy controller: Nil or [annotated, deleting, late]
    serving,       \* does the shoot have nodes and services of type LoadBalancer?
    cpRun          \* the controller: the call it makes next, its branch and operation, and its locals

cpVars == <<cp, cpShoot, objects, managed, remedies, serving, cpRun>>

ShootParts ==
    {"cloud-controller-manager", "allow-udp-egress", "csi-driver-node", "remedy-controller-azure", "csi", "legacy"}
ManagedResources == {"storageclasses", "shoot"}
ASSUME ManagedAssumption == Nil \notin [holds : SUBSET ShootParts, deleting : BOOLEAN]
RemedyResources  == PublicIPs \cup VirtualMachines
RemedyDeployment == <<"Deployment", "remedy-controller-azure">>
Secrets          == {"Secret"} \X SecretConfigs

AcrConfig == <<"ConfigMap", "kubelet-acr-config">>
SeedNamespace == Secrets \cup ConfigObjects \cup {AcrConfig} \cup UNION {SeedTemplates(c) : c \in Components}

DeploySteps == {"finalizer", "secrets", "config", "chart", "shootChart", "storageClasses"}
DeleteSteps ==
    {"list", "annotate", "deleteIPs", "deleteVMs", "awaitIPs", "awaitVMs", "dropClasses", "dropShootChart",
     "awaitManaged", "dropChart", "dropConfig", "dropSecrets"}
CPSteps == DeploySteps \cup DeleteSteps \cup {"idle", "processing", "success", "release", "unannotate"}

\* What it has read of the shoot, the addresses still to be annotated, and
\* those of them that have changed since they were listed.
CPIdle == [pc |-> "idle", job |-> "none", type |-> "none", shoot |-> Nil, todo |-> {}, stale |-> {}]
CPGoto(l) == cpRun' = [cpRun EXCEPT !.pc = l]
CPAt(l) == cpRun.pc = l

CPTypeOK ==
    /\ cp \in Resource
    /\ cpShoot \in [version : 0..2, remedy : BOOLEAN, acr : BOOLEAN]
    /\ objects \subseteq SeedNamespace
    /\ managed \in [ManagedResources -> {Nil} \cup [holds : SUBSET ShootParts, deleting : BOOLEAN]]
    /\ remedies \in [RemedyResources -> {Nil} \cup [annotated : BOOLEAN, deleting : BOOLEAN, late : BOOLEAN]]
    /\ serving \in BOOLEAN
    /\ cpRun \in [pc : CPSteps, job : {"none", "reconcile", "restore", "migrate", "delete"}, type : Operations,
                  shoot : {Nil} \cup [version : 0..2, remedy : BOOLEAN, acr : BOOLEAN],
                  todo : SUBSET PublicIPs, stale : SUBSET PublicIPs]

CPEmpty ==
    /\ objects = {}
    /\ managed = [m \in ManagedResources |-> Nil]
    /\ remedies = [r \in RemedyResources |-> Nil]

-----------------------------------------------------------------------------
(* The reconciler: extensions/pkg/controller/controlplane/reconciler.go *)

CPStored == UNCHANGED <<cpShoot, objects, managed, remedies, serving>>

CPDispatch ==
    /\ CPAt("idle")
    /\ Due(cp)
    /\ cp' = Taken(cp)
    /\ cpRun' = [CPIdle EXCEPT !.job = Branch(cp), !.type = OperationOf(cp), !.shoot = cpShoot,
                               !.pc = IF Branch(cp) \in {"reconcile", "restore"} THEN "finalizer" ELSE "processing"]
    /\ CPStored

CPEnsureFinalizer ==
    /\ CPAt("finalizer")
    /\ cp' = [cp EXCEPT !.finalizer = TRUE]
    /\ CPGoto("processing")
    /\ CPStored

CPMarkProcessing ==
    /\ CPAt("processing")
    /\ cp' = Processing(cp, cpRun.type)
    /\ CPGoto(IF cpRun.job \in {"delete", "migrate"} THEN "list" ELSE "secrets")
    /\ CPStored

CPMarkSucceeded ==
    /\ CPAt("success")
    /\ cp' = Succeeded(cp)
    /\ CASE cpRun.job = "reconcile"              -> cpRun' = CPIdle
         [] cpRun.job = "restore"                -> CPGoto("unannotate")
         [] cpRun.job \in {"delete", "migrate"}  -> CPGoto("release")
    /\ CPStored

CPRelease ==
    /\ CPAt("release")
    /\ cp' = Released(cp)
    /\ IF cpRun.job = "migrate" /\ ~cp.deleting THEN CPGoto("unannotate") ELSE cpRun' = CPIdle
    /\ CPStored

CPUnannotate ==
    /\ CPAt("unannotate")
    /\ cp' = [cp EXCEPT !.annotation = "none"]
    /\ cpRun' = CPIdle
    /\ CPStored

\* Any call may fail, and the process may stop before any of them.
CPFails ==
    /\ cp' \in IF CPAt("idle") THEN Refusals(cp) ELSE Failures(cp, cpRun.pc)
    /\ cpRun' = CPIdle
    /\ CPStored

-----------------------------------------------------------------------------
(* Reconcile and Restore: reconcileControlPlane.  A chart applies what its *)
(* enabled parts hold and leaves everything else alone; a managed resource *)
(* is replaced as a whole.  Replicas are not modelled here, so what        *)
(* reconcileControlPlane does for a hibernated shoot is left to Shoot: it  *)
(* scales down or asks for the key again, and within the shoot's deletion, *)
(* where no ControlPlane is reconciled here, it returns before the charts  *)
(* until the API server is awake.                                          *)

CPWorks == UNCHANGED <<cp, cpShoot, serving>>
Apply(l, new, next) ==
    /\ CPAt(l)
    /\ objects' = new
    /\ CPGoto(next)
    /\ CPWorks /\ UNCHANGED <<managed, remedies>>

DeploySecrets == Apply("secrets", objects \cup Secrets, "config")

ApplyConfigChart ==
    Apply("config",
          (objects \ {AcrConfig})
              \cup ConfigTemplates([acrIdentityClientId |-> IF cpRun.shoot.acr THEN "identity" ELSE Nil]),
          "chart")

EnabledComponents == {c \in Components : Enabled(c, cpRun.shoot)}
ApplyControlPlaneChart ==
    Apply("chart", objects \cup UNION {SeedTemplates(c) : c \in EnabledComponents}, "shootChart")

CreateManagedResource(l, m, parts, next) ==
    /\ CPAt(l)
    /\ managed' = [managed EXCEPT ![m] = [holds |-> parts, deleting |-> @ # Nil /\ @.deleting]]
    /\ CPGoto(next)
    /\ CPWorks /\ UNCHANGED <<objects, remedies>>

ApplyShootChart ==
    CreateManagedResource("shootChart", "shoot",
        getControlPlaneShootChartValues(cpRun.shoot, [zoned |-> TRUE], Nil).charts, "storageClasses")
ApplyStorageClasses ==
    CreateManagedResource("storageClasses", "storageclasses",
        {IF getStorageClassesChartValues(cpRun.shoot).useLegacyProvisioner THEN "legacy" ELSE "csi"}, "success")

-----------------------------------------------------------------------------
(* Delete and Migrate: the Azure actuator, then deleteControlPlane *)

CPDeletes == CPWorks /\ UNCHANGED <<objects, managed>>

RemedyRuns == RemedyDeployment \in objects
Existing(names) == {r \in names : remedies[r] # Nil}

ListPublicIPs ==
    /\ CPAt("list")
    /\ cpRun' = [cpRun EXCEPT !.pc = "annotate", !.todo = Existing(PublicIPs), !.stale = {}]
    /\ CPDeletes /\ UNCHANGED remedies

\* The Update carries the resource version of the list.  A conflict is retried
\* with the same copy, so it is an error in the end, like a resource that is gone.
AnnotatePublicIP_IgnoresConflict(ip) ==
    /\ CPAt("annotate")
    /\ ip \in cpRun.todo
    /\ remedies' = IF remedies[ip] = Nil \/ ip \in cpRun.stale THEN remedies
                   ELSE [remedies EXCEPT ![ip].annotated = TRUE]
    /\ cpRun' = [cpRun EXCEPT !.todo = @ \ {ip}]
    /\ CPDeletes

AnnotatePublicIP(ip) ==
    /\ CPAt("annotate")
    /\ ip \in cpRun.todo
    /\ IF remedies[ip] = Nil \/ ip \in cpRun.stale
       THEN /\ cp' = Failed(cp)
            /\ cpRun' = CPIdle
            /\ UNCHANGED <<cpShoot, objects, managed, remedies, serving>>
       ELSE /\ remedies' = [remedies EXCEPT ![ip].annotated = TRUE]
            /\ cpRun' = [cpRun EXCEPT !.todo = @ \ {ip}]
            /\ CPDeletes

DeleteAllOf(names) ==
    remedies' = [r \in RemedyResources |->
                    IF r \in Existing(names) THEN [remedies[r] EXCEPT !.deleting = TRUE] ELSE remedies[r]]

AllAnnotated ==
    /\ CPAt("annotate") /\ cpRun.todo = {}
    /\ cpRun' = [cpRun EXCEPT !.pc = "deleteIPs", !.stale = {}]
    /\ CPDeletes /\ UNCHANGED remedies

DeletePublicIPs ==
    /\ CPAt("deleteIPs")
    /\ DeleteAllOf(PublicIPs)
    /\ CPGoto("deleteVMs")
    /\ CPDeletes

DeleteVirtualMachines_NotAwaited ==
    /\ CPAt("deleteVMs")
    /\ DeleteAllOf(VirtualMachines)
    /\ CPGoto("dropClasses")
    /\ CPDeletes

DeleteVirtualMachines ==
    /\ CPAt("deleteVMs")
    /\ DeleteAllOf(VirtualMachines)
    /\ CPGoto("awaitIPs")
    /\ CPDeletes

\* WaitUntilResourcesDeleted, five minutes each.
AwaitDeleted(l, names, next) ==
    /\ CPAt(l)
    /\ Existing(names) = {}
    /\ CPGoto(next)
    /\ CPDeletes /\ UNCHANGED remedies
AwaitPublicIPs == AwaitDeleted("awaitIPs", PublicIPs, "awaitVMs")
AwaitVirtualMachines == AwaitDeleted("awaitVMs", VirtualMachines, "dropClasses")

DeleteManagedResource(l, m, next) ==
    /\ CPAt(l)
    /\ managed' = [managed EXCEPT ![m] = IF @ = Nil THEN Nil ELSE [@ EXCEPT !.deleting = TRUE]]
    /\ CPGoto(next)
    /\ CPWorks /\ UNCHANGED <<objects, remedies>>
DeleteStorageClasses == DeleteManagedResource("dropClasses", "storageclasses", "dropShootChart")
DeleteShootChart == DeleteManagedResource("dropShootChart", "shoot", "awaitManaged")

AwaitManagedResources_Skipped ==
    /\ CPAt("awaitManaged")
    /\ CPGoto("dropChart")
    /\ CPDeletes /\ UNCHANGED remedies
AwaitManagedResources ==
    /\ CPAt("awaitManaged")
    /\ \A m \in ManagedResources : managed[m] = Nil
    /\ CPGoto("dropChart")
    /\ CPDeletes /\ UNCHANGED remedies

DeleteControlPlaneChart_OnlyEnabled ==
    Apply("dropChart", objects \ UNION {SeedObjects(c) : c \in EnabledComponents}, "dropConfig")
DeleteControlPlaneChart ==
    Apply("dropChart", objects \ UNION {SeedObjects(c) : c \in Components}, "dropConfig")
DeleteConfigChart == Apply("dropConfig", objects \ ConfigObjects, "dropSecrets")
DeleteSecrets == Apply("dropSecrets", objects \ Secrets, "success")

\* A wait gives up on a resource that is not being deleted, or that nobody
\* releases (CPFails stands for one that takes too long).
IsStuck(r) == remedies[r] # Nil /\ ~(remedies[r].deleting /\ RemedyRuns)
CPTimesOut ==
    /\ \/ CPAt("awaitIPs") /\ \E r \in PublicIPs : IsStuck(r)
       \/ CPAt("awaitVMs") /\ \E r \in VirtualMachines : IsStuck(r)
    /\ cp' = Failed(cp)
    /\ cpRun' = CPIdle
    /\ CPStored

CPController ==
    \/ CPDispatch \/ CPEnsureFinalizer \/ CPMarkProcessing \/ CPMarkSucceeded \/ CPRelease \/ CPUnannotate
    \/ DeploySecrets \/ ApplyConfigChart \/ ApplyControlPlaneChart \/ ApplyShootChart \/ ApplyStorageClasses
    \/ ListPublicIPs \/ (\E ip \in PublicIPs : AnnotatePublicIP(ip)) \/ AllAnnotated
    \/ DeletePublicIPs \/ DeleteVirtualMachines \/ AwaitPublicIPs \/ AwaitVirtualMachines
    \/ DeleteStorageClasses \/ DeleteShootChart \/ AwaitManagedResources
    \/ DeleteControlPlaneChart \/ DeleteConfigChart \/ DeleteSecrets
    \/ CPTimesOut

-----------------------------------------------------------------------------
(* The remedy controller and the resource manager *)

\* "late": an address that appears between the list and the deletion.
RemedyCreates(r) ==
    /\ RemedyRuns /\ serving
    /\ remedies[r] = Nil
    /\ remedies' = [remedies EXCEPT ![r] =
                      [annotated |-> FALSE, deleting |-> FALSE, late |-> cpRun.pc \in {"annotate", "deleteIPs"}]]
    /\ UNCHANGED <<cp, cpShoot, objects, managed, serving, cpRun>>

\* It stores its status, between the list and the Update.
RemedyTouches(ip) ==
    /\ RemedyRuns
    /\ ip \in cpRun.todo \ cpRun.stale
    /\ cpRun' = [cpRun EXCEPT !.stale = @ \cup {ip}]
    /\ UNCHANGED <<cp, cpShoot, objects, managed, remedies, serving>>

RemedyReleases(r) ==
    /\ RemedyRuns
    /\ remedies[r] # Nil /\ remedies[r].deleting
    /\ remedies' = [remedies EXCEPT ![r] = Nil]
    /\ UNCHANGED <<cp, cpShoot, objects, managed, serving, cpRun>>

\* The resource manager removes the objects from the shoot, then the resource.
ManagedResourceGoes(m) ==
    /\ managed[m] # Nil /\ managed[m].deleting
    /\ managed' = [managed EXCEPT ![m] = Nil]
    /\ UNCHANGED <<cp, cpShoot, objects, remedies, serving, cpRun>>

-----------------------------------------------------------------------------
(* Properties *)

\* The remedy controller goes only when nothing it has to release is left:
\* "Before delegating to the composed Actuator, it ensures that all remedy
\* controller resources have been deleted" (actuator.go).  What it makes
\* after the wait is not marked for deletion.
RemedyOutlivesItsResources ==
    [][(RemedyDeployment \in objects \ objects') =>
          \A r \in RemedyResources : remedies[r] # Nil => ~remedies[r].deleting]_objects

\* No address that the controller has listed is deleted without the annotation
\* that keeps Azure's address; a migrated shoot goes on using it.
ListedAddressesAreKept ==
    \A ip \in PublicIPs :
        remedies[ip] # Nil /\ remedies[ip].deleting => remedies[ip].annotated \/ remedies[ip].late

\* What no chart deletes: its templates hold it, its list of objects does not.
Leftovers ==
    {AcrConfig, <<"Service", "remedy-controller-azure">>,
     <<"ConfigMap", "remedy-controller-azure-monitoring-config">>}

\* A control plane that has been deleted leaves nothing but these, whatever
\* it was made of and however often its deletion was interrupted.
ControlPlaneLeavesNothing ==
    ~cp.exists =>
        /\ objects \subseteq Leftovers
        /\ \A m \in ManagedResources : managed[m] = Nil
        /\ \A r \in RemedyResources : remedies[r] = Nil

CSIDeployments == {"Deployment"} \X {"csi-driver-controller-disk", "csi-driver-controller-file",
                                    "csi-snapshot-controller"}

\* While the shoot has an object that needs a controller in the seed, be it a
\* storage class, the node plugin of the CSI driver or what the remedy
\* controller reads, the controller is there: they come after it and go
\* before it, also when its version or its annotations change or a call fails.
ShootPartsAreServed ==
    \A m \in ManagedResources : managed[m] # Nil =>
        /\ managed[m].holds \cap {"csi", "csi-driver-node"} # {} => CSIDeployments \subseteq objects
        /\ "remedy-controller-azure" \in managed[m].holds => RemedyRuns

\* The health checks that are registered for a control plane, in the seed;
\* those of the managed resources hold while they exist.
CheckedDeployments_AnyVersion(version) ==
    {<<"Deployment", "cloud-controller-manager">>} \cup CSIDeployments
CheckedDeployments(version) ==
    {<<"Deployment", "cloud-controller-manager">>} \cup (IF version >= csiVersion THEN CSIDeployments ELSE {})

\* When the controller reports success the health checks find what they look
\* for, whichever version the shoot had before.
HealthyWhenReported ==
    [][cp'.state = "succeeded" /\ cp.state # "succeeded" /\ cpRun.job \in {"reconcile", "restore"} =>
          /\ CheckedDeployments(cpRun.shoot.version) \subseteq objects
          /\ \A m \in ManagedResources : managed[m] # Nil]_cp
=============================================================================
