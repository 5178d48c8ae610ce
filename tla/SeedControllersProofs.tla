----------------------- MODULE SeedControllersProofs -----------------------
(***************************************************************************)
(* Proofs about the two controllers of the seed and the gardenlet, for     *)
(* every set of shoots, deployments, versions and remedy resources and     *)
(* every bound.                                                            *)
(***************************************************************************)
EXTENDS SeedControllers, TLAPS

-----------------------------------------------------------------------------
(* The extension resource *)

LEMMA NewType ==
    /\ Missing \in Resource
    /\ \A a \in Annotations : New(a) \in Resource
  BY DEF Missing, New, Resource, Annotations, Operations, States

LEMMA ResourceType ==
    ASSUME NEW r \in Resource
    PROVE  /\ OperationType(r) \in Operations
           /\ Branch(r) \in {"none", "reconcile", "restore", "migrate", "delete"}
           /\ Taken(r) \in Resource
           /\ OperationOf(r) \in Operations
           /\ \A type \in Operations : Processing(r, type) \in Resource
           /\ Succeeded(r) \in Resource /\ Released(r) \in Resource
           /\ Failed(r) \in Resource /\ \A call : Failures(r, call) \subseteq Resource
           /\ Refusals(r) \subseteq Resource
<1>1. OperationType(r) \in Operations
  BY DEF OperationType, Operations, Resource
<1>2. Branch(r) \in {"none", "reconcile", "restore", "migrate", "delete"}
  BY DEF Branch
<1>3. Taken(r) \in Resource
  BY DEF Taken, Resource, Annotations
<1>4. OperationOf(r) \in Operations /\ \A type \in Operations : Processing(r, type) \in Resource
  BY <1>1, <1>2 DEF OperationOf, Processing, Resource, Operations, States
<1>5. Succeeded(r) \in Resource /\ Failed(r) \in Resource /\ \A call : Failures(r, call) \subseteq Resource
  BY DEF Succeeded, Failed, Failures, Resource, States
<1>6. Released(r) \in Resource
  BY NewType DEF Released, Resource
<1>7. Refusals(r) \subseteq Resource
  BY <1>3 DEF Refusals, Resource
<1>. QED BY <1>1, <1>2, <1>3, <1>4, <1>5, <1>6, <1>7

-----------------------------------------------------------------------------
(* Types of the control plane *)

LEMMA TemplatesType ==
    /\ \A c \in Components : SeedTemplates(c) \subseteq SeedNamespace
    /\ \A v : ConfigTemplates(v) \subseteq SeedNamespace
    /\ Secrets \subseteq SeedNamespace
  BY DEF SeedNamespace, ConfigTemplates, AcrConfig

CPRuns ==
    [pc : CPSteps, job : {"none", "reconcile", "restore", "migrate", "delete"}, type : Operations,
     shoot : {Nil} \cup [version : 0..2, remedy : BOOLEAN, acr : BOOLEAN],
     todo : SUBSET PublicIPs, stale : SUBSET PublicIPs]

LEMMA CPIdleType == CPIdle \in CPRuns
  BY DEF CPIdle, CPRuns, CPSteps, Operations

LEMMA CPGotoType ==
    ASSUME CPTypeOK, NEW l \in CPSteps, CPGoto(l)
    PROVE  cpRun' \in CPRuns
  BY DEF CPTypeOK, CPGoto, CPRuns

CPBusy == cpRun.pc # "idle" => cpRun.job # "none"

LEMMA CPBusyKept ==
    ASSUME CPTypeOK, CPBusy, CPController \/ CPFails
    PROVE  CPBusy'
<1>1. CASE CPDispatch
  BY <1>1 DEF CPDispatch, Due, CPBusy, CPIdle
<1>2. CASE cpRun' = CPIdle
  BY <1>2 DEF CPBusy, CPIdle
<1>3. CASE ~CPAt("idle") /\ cpRun'.job = cpRun.job
  BY <1>3 DEF CPBusy, CPAt
<1>4. CPController /\ ~CPDispatch => ~CPAt("idle")
  BY DEF CPController, CPEnsureFinalizer, CPMarkProcessing, CPMarkSucceeded, CPRelease, CPUnannotate,
         DeploySecrets, ApplyConfigChart, ApplyControlPlaneChart, ApplyShootChart, ApplyStorageClasses,
         ListPublicIPs, AnnotatePublicIP, AllAnnotated, DeletePublicIPs, DeleteVirtualMachines, AwaitPublicIPs,
         AwaitVirtualMachines, DeleteStorageClasses, DeleteShootChart, AwaitManagedResources,
         DeleteControlPlaneChart, DeleteConfigChart, DeleteSecrets, CPTimesOut, Apply, CreateManagedResource,
         AwaitDeleted, DeleteManagedResource, CPAt
<1>5. CASE CPMarkSucceeded
  <2>1. cpRun.job \in {"reconcile", "restore", "migrate", "delete"}
    BY <1>5 DEF CPMarkSucceeded, CPAt, CPBusy, CPTypeOK
  <2>. QED BY <1>2, <1>3, <1>5, <2>1 DEF CPMarkSucceeded, CPAt, CPGoto, CPTypeOK
<1>6. cpRun' = CPIdle \/ cpRun'.job = cpRun.job \/ CPDispatch \/ CPMarkSucceeded
  BY DEF CPController, CPFails, CPEnsureFinalizer, CPMarkProcessing, CPRelease, CPUnannotate, CPTypeOK, CPGoto,
         DeploySecrets, ApplyConfigChart, ApplyControlPlaneChart, ApplyShootChart, ApplyStorageClasses,
         ListPublicIPs, AnnotatePublicIP, AllAnnotated, DeletePublicIPs, DeleteVirtualMachines, AwaitPublicIPs,
         AwaitVirtualMachines, DeleteStorageClasses, DeleteShootChart, AwaitManagedResources,
         DeleteControlPlaneChart, DeleteConfigChart, DeleteSecrets, CPTimesOut, Apply, CreateManagedResource,
         AwaitDeleted, DeleteManagedResource
<1>7. CPFails => cpRun' = CPIdle
  BY DEF CPFails
<1>. QED BY <1>1, <1>2, <1>3, <1>4, <1>5, <1>6, <1>7

LEMMA CPUnchangedType == CPTypeOK /\ UNCHANGED cpVars => CPTypeOK'
  BY DEF CPTypeOK, cpVars

LEMMA CPStoredType ==
    ASSUME CPTypeOK, CPStored, cp' \in Resource, cpRun' \in CPRuns
    PROVE  CPTypeOK'
  BY DEF CPTypeOK, CPStored, CPRuns

LEMMA CPReconcilerType ==
    ASSUME CPTypeOK, CPBusy,
           \/ CPDispatch \/ CPEnsureFinalizer \/ CPMarkProcessing \/ CPMarkSucceeded \/ CPRelease
           \/ CPUnannotate \/ CPTimesOut \/ CPFails
    PROVE  CPTypeOK'
<1>1. cp \in Resource /\ cpRun.job \in {"none", "reconcile", "restore", "migrate", "delete"}
  BY DEF CPTypeOK
<1>2. CPStored
  BY DEF CPDispatch, CPEnsureFinalizer, CPMarkProcessing, CPMarkSucceeded, CPRelease, CPUnannotate,
         CPTimesOut, CPFails
<1>3. cp' \in Resource
  <2>1. CASE CPDispatch \/ CPMarkProcessing \/ CPMarkSucceeded \/ CPRelease \/ CPTimesOut \/ CPFails
    BY <1>1, <2>1, ResourceType
       DEF CPTypeOK, CPDispatch, CPMarkProcessing, CPMarkSucceeded, CPRelease, CPTimesOut, CPFails
  <2>2. CASE CPEnsureFinalizer \/ CPUnannotate
    BY <1>1, <2>2 DEF CPEnsureFinalizer, CPUnannotate, Resource, Annotations
  <2>. QED BY <2>1, <2>2
<1>4. cpRun' \in CPRuns
  <2>1. CASE CPDispatch
    BY <1>1, <2>1, ResourceType DEF CPDispatch, Due, CPTypeOK, CPRuns, CPSteps, DeploySteps, CPIdle
  <2>2. CASE CPEnsureFinalizer \/ CPMarkProcessing
    BY <2>2, CPGotoType DEF CPEnsureFinalizer, CPMarkProcessing, CPSteps, DeploySteps, DeleteSteps
  <2>3. CASE CPMarkSucceeded
    <3>1. cpRun.job \in {"reconcile", "restore", "migrate", "delete"}
      BY <1>1, <2>3 DEF CPMarkSucceeded, CPBusy, CPAt
    <3>. QED BY <2>3, <3>1, CPGotoType, CPIdleType DEF CPMarkSucceeded, CPSteps
  <2>4. CASE CPRelease \/ CPUnannotate \/ CPTimesOut \/ CPFails
    BY <2>4, CPGotoType, CPIdleType DEF CPRelease, CPUnannotate, CPTimesOut, CPFails, CPSteps
  <2>. QED BY <2>1, <2>2, <2>3, <2>4
<1>. QED BY <1>2, <1>3, <1>4, CPStoredType

Charts == SUBSET ShootParts
LEMMA ShootPartsType ==
    /\ \A s, t, c : getControlPlaneShootChartValues(s, t, c).charts \in Charts
    /\ \A s : {IF getStorageClassesChartValues(s).useLegacyProvisioner THEN "legacy" ELSE "csi"} \in Charts
  BY DEF getControlPlaneShootChartValues, getStorageClassesChartValues, Charts, ShootParts

Deploys == DeploySecrets \/ ApplyConfigChart \/ ApplyControlPlaneChart \/ ApplyShootChart \/ ApplyStorageClasses

LEMMA CPDeploysType ==
    ASSUME CPTypeOK, Deploys
    PROVE  CPTypeOK'
<1>. USE DEF CPSteps, DeploySteps
<1>1. cp' \in Resource /\ UNCHANGED <<cpShoot, serving, remedies>>
  BY DEF Deploys, DeploySecrets, ApplyConfigChart, ApplyControlPlaneChart, ApplyShootChart, ApplyStorageClasses,
         Apply, CreateManagedResource, CPWorks, CPTypeOK
<1>2. cpRun' \in CPRuns
  BY CPGotoType
     DEF Deploys, DeploySecrets, ApplyConfigChart, ApplyControlPlaneChart, ApplyShootChart, ApplyStorageClasses,
         Apply, CreateManagedResource
<1>3. objects' \subseteq SeedNamespace
  BY TemplatesType
     DEF Deploys, DeploySecrets, ApplyConfigChart, ApplyControlPlaneChart, ApplyShootChart, ApplyStorageClasses,
         Apply, CreateManagedResource, CPTypeOK, EnabledComponents
<1>4. managed' \in [ManagedResources -> {Nil} \cup [holds : SUBSET ShootParts, deleting : BOOLEAN]]
  <2>1. ASSUME NEW l, NEW m, NEW parts \in Charts, NEW next, CreateManagedResource(l, m, parts, next)
        PROVE  managed' \in [ManagedResources -> {Nil} \cup [holds : SUBSET ShootParts, deleting : BOOLEAN]]
    BY <2>1 DEF CreateManagedResource, CPTypeOK, Charts
  <2>2. CASE ApplyShootChart \/ ApplyStorageClasses
    BY <2>1, <2>2, ShootPartsType DEF ApplyShootChart, ApplyStorageClasses
  <2>3. CASE UNCHANGED managed
    BY <2>3 DEF CPTypeOK
  <2>. QED BY <2>2, <2>3 DEF Deploys, DeploySecrets, ApplyConfigChart, ApplyControlPlaneChart, Apply
<1>. QED BY <1>1, <1>2, <1>3, <1>4 DEF CPTypeOK, CPRuns

Remedies == [RemedyResources -> {Nil} \cup [annotated : BOOLEAN, deleting : BOOLEAN, late : BOOLEAN]]
CPActuatorDeletes ==
    \/ ListPublicIPs \/ (\E ip \in PublicIPs : AnnotatePublicIP(ip)) \/ AllAnnotated
    \/ DeletePublicIPs \/ DeleteVirtualMachines \/ AwaitPublicIPs \/ AwaitVirtualMachines
    \/ DeleteStorageClasses \/ DeleteShootChart \/ AwaitManagedResources
    \/ DeleteControlPlaneChart \/ DeleteConfigChart \/ DeleteSecrets

LEMMA DeleteAllOfType ==
    ASSUME CPTypeOK, NEW names, DeleteAllOf(names)
    PROVE  remedies' \in Remedies
  BY DEF CPTypeOK, DeleteAllOf, Remedies, Existing

LEMMA CPActuatorDeletesType ==
    ASSUME CPTypeOK, CPActuatorDeletes
    PROVE  CPTypeOK'
<1>. USE DEF CPSteps, DeleteSteps
<1>1. CASE \E ip \in PublicIPs : AnnotatePublicIP(ip)
  <2>1. PICK ip \in PublicIPs : AnnotatePublicIP(ip)
    BY <1>1
  <2>2. CASE remedies[ip] = Nil \/ ip \in cpRun.stale
    <3>1. cp' \in Resource
      BY <2>1, <2>2, ResourceType DEF AnnotatePublicIP, CPTypeOK
    <3>. QED BY <2>1, <2>2, <3>1, CPIdleType DEF AnnotatePublicIP, CPTypeOK, CPRuns, CPDeletes, CPWorks
  <2>3. CASE ~(remedies[ip] = Nil \/ ip \in cpRun.stale)
    <3>1. remedies' \in Remedies
      <4>1. remedies[ip] \in [annotated : BOOLEAN, deleting : BOOLEAN, late : BOOLEAN]
        BY <2>3 DEF CPTypeOK, RemedyResources
      <4>2. [remedies[ip] EXCEPT !.annotated = TRUE] \in [annotated : BOOLEAN, deleting : BOOLEAN, late : BOOLEAN]
        BY <4>1
      <4>. QED BY <2>1, <2>3, <4>2 DEF AnnotatePublicIP, CPTypeOK, Remedies
    <3>2. cpRun' \in CPRuns
      BY <2>1, <2>3 DEF AnnotatePublicIP, CPTypeOK, CPRuns
    <3>. QED BY <2>1, <2>3, <3>1, <3>2 DEF AnnotatePublicIP, CPTypeOK, CPDeletes, CPWorks, CPRuns, Remedies
  <2>. QED BY <2>1, <2>2, <2>3 DEF AnnotatePublicIP
<1>2. CASE ListPublicIPs \/ AllAnnotated
  <2>1. cpRun' \in CPRuns
    <3>1. Existing(PublicIPs) \subseteq PublicIPs
      BY DEF Existing
    <3>. QED BY <1>2, <3>1 DEF ListPublicIPs, AllAnnotated, CPTypeOK, CPRuns
  <2>. QED BY <1>2, <2>1 DEF ListPublicIPs, AllAnnotated, CPDeletes, CPWorks, CPTypeOK, CPRuns
<1>3. CASE DeletePublicIPs \/ DeleteVirtualMachines
  BY <1>3, DeleteAllOfType, CPGotoType
     DEF DeletePublicIPs, DeleteVirtualMachines, CPDeletes, CPWorks, CPTypeOK, CPRuns, Remedies
<1>4. CASE AwaitPublicIPs \/ AwaitVirtualMachines \/ AwaitManagedResources
  BY <1>4, CPGotoType
     DEF AwaitPublicIPs, AwaitVirtualMachines, AwaitDeleted, AwaitManagedResources, CPDeletes, CPWorks, CPTypeOK,
         CPRuns
<1>5. CASE DeleteStorageClasses \/ DeleteShootChart
  <2>1. managed' \in [ManagedResources -> {Nil} \cup [holds : SUBSET ShootParts, deleting : BOOLEAN]]
    <3>1. PICK m \in ManagedResources : managed' = [managed EXCEPT ![m] =
                     IF managed[m] = Nil THEN Nil ELSE [managed[m] EXCEPT !.deleting = TRUE]]
      BY <1>5 DEF DeleteStorageClasses, DeleteShootChart, DeleteManagedResource, ManagedResources
    <3>2. managed[m] # Nil => [managed[m] EXCEPT !.deleting = TRUE] \in [holds : SUBSET ShootParts, deleting : BOOLEAN]
      BY DEF CPTypeOK
    <3>. QED BY <3>1, <3>2 DEF CPTypeOK
  <2>. QED BY <1>5, <2>1, CPGotoType
     DEF DeleteStorageClasses, DeleteShootChart, DeleteManagedResource, CPWorks, CPTypeOK, CPRuns
<1>6. CASE DeleteControlPlaneChart \/ DeleteConfigChart \/ DeleteSecrets
  BY <1>6, CPGotoType
     DEF DeleteControlPlaneChart, DeleteConfigChart, DeleteSecrets, Apply, CPWorks, CPTypeOK, CPRuns
<1>. QED BY <1>1, <1>2, <1>3, <1>4, <1>5, <1>6 DEF CPActuatorDeletes

LEMMA CPControllerType == CPTypeOK /\ CPBusy /\ (CPController \/ CPFails) => CPTypeOK'
  BY CPReconcilerType, CPDeploysType, CPActuatorDeletesType DEF CPController, Deploys, CPActuatorDeletes

LEMMA CPEnvironmentType ==
    ASSUME CPTypeOK,
           \/ \E r \in RemedyResources : RemedyCreates(r) \/ RemedyReleases(r)
           \/ \E ip \in PublicIPs : RemedyTouches(ip)
           \/ \E m \in ManagedResources : ManagedResourceGoes(m)
    PROVE  CPTypeOK'
<1>1. CASE \E r \in RemedyResources : RemedyCreates(r) \/ RemedyReleases(r)
  <2>1. PICK r \in RemedyResources : RemedyCreates(r) \/ RemedyReleases(r)
    BY <1>1
  <2>2. RemedyCreates(r) => remedies' \in Remedies
    <3>. SUFFICES ASSUME RemedyCreates(r) PROVE remedies' \in Remedies
      OBVIOUS
    <3> DEFINE new == [annotated |-> FALSE, deleting |-> FALSE, late |-> cpRun.pc \in {"annotate", "deleteIPs"}]
    <3>1. new \in [annotated : BOOLEAN, deleting : BOOLEAN, late : BOOLEAN]
      OBVIOUS
    <3>2. remedies' = [remedies EXCEPT ![r] = new]
      BY DEF RemedyCreates
    <3>. HIDE DEF new
    <3>3. remedies' \in Remedies
      BY <3>1, <3>2 DEF CPTypeOK, Remedies
    <3>. QED BY <3>3
  <2>3. remedies' \in Remedies
    <3>1. CASE RemedyReleases(r)
      BY <3>1 DEF RemedyReleases, CPTypeOK, Remedies
    <3>. QED BY <2>1, <2>2, <3>1
  <2>. QED BY <2>1, <2>3 DEF RemedyCreates, RemedyReleases, CPTypeOK, Remedies
<1>2. CASE \E ip \in PublicIPs : RemedyTouches(ip)
  BY <1>2 DEF RemedyTouches, CPTypeOK
<1>3. CASE \E m \in ManagedResources : ManagedResourceGoes(m)
  BY <1>3 DEF ManagedResourceGoes, CPTypeOK
<1>. QED BY <1>1, <1>2, <1>3

-----------------------------------------------------------------------------
(* Types of the worker, and what its controller knows at each place: which *)
(* branch leads there, what it has read and what a loop has still to do.   *)

WJobs == {"none", "reconcile", "restore", "migrate", "delete"}
WSpecs == [pools : Pools, hibernated : BOOLEAN]
Lists == [Deployments -> {Nil} \cup Deployment]
SavedStates == [Deployments -> {Nil} \cup SavedState]
WRunSet ==
    [pc : WSteps, job : WJobs, type : Operations, spec : {Nil} \cup WSpecs, known : SUBSET Classes, listed : {Nil} \cup Lists,
     todo : SUBSET Deployments]

JobsAt ==
    /\ wRun.pc # "idle" => wRun.job # "none" /\ wRun.spec \in WSpecs
    /\ wRun.pc # "idle" /\ wRun.job # "reconcile" => wRun.type = wRun.job
    /\ wRun.pc \in {"finalizer", "pause", "listClasses", "available", "unwantedGone", "cleanSets", "stopMCM", "resume",
                    "bounds"} => wRun.job = "reconcile"
    /\ wRun.pc \in {"mcm", "classes", "cleanDeployments", "cleanClasses"} => wRun.job \in {"reconcile", "delete"}
    /\ wRun.pc = "list" => wRun.job \in {"reconcile", "restore", "delete"}
    /\ wRun.pc = "deploy" => wRun.job \in {"reconcile", "restore"}
    /\ wRun.pc = "restore" => wRun.job = "restore"
    /\ wRun.pc = "dropMCM" => wRun.job \in {"delete", "migrate", "restore"}
    /\ wRun.pc = "mcmGone" => wRun.job \in {"migrate", "restore"}
    /\ wRun.pc \in {"dropMachines", "dropSets", "dropDeployments", "dropClasses"} => wRun.job = "migrate"
    /\ wRun.pc \in {"allGone", "release"} => wRun.job \in {"delete", "migrate"}
    /\ wRun.pc = "unannotate" => wRun.job \in {"restore", "migrate"}

Restoring == wRun.job = "restore" /\ wRun.pc \in {"list", "dropMCM", "mcmGone", "restore", "deploy", "success"}

ReadAt ==
    /\ wRun.pc \in {"deploy", "available", "cleanDeployments", "restore"} => wRun.listed \in Lists
    /\ wRun.pc \in {"dropMCM", "mcmGone"} /\ wRun.job = "restore" => wRun.listed \in Lists
    /\ wRun.pc = "deploy" => \A d \in wRun.todo : wRun.spec.pools[d] # Nil
    /\ wRun.pc = "restore" \/ (wRun.pc \in {"dropMCM", "mcmGone"} /\ wRun.job = "restore") =>
          \A d \in wRun.todo : wRun.spec.pools[d] # Nil /\ saved[d] # Nil

\* While a worker is restored its saved state is not written anew.
RestoreKeepsState ==
    /\ Restoring => worker.type = "restore" /\ worker.state = "processing"
    /\ wRun.pc # "idle" => worker.exists
    /\ stage \in {"migrateControlPlane", "restoreControlPlane"} => wRun.pc = "idle" /\ Branch(worker) = "none"

WInv == WTypeOK /\ JobsAt /\ ReadAt

LEMMA WTypes ==
    ASSUME WTypeOK
    PROVE  wRun \in WRunSet /\ worker \in Resource /\ saved \in SavedStates /\ deployments \in Lists
  BY DEF WTypeOK, WRunSet, WJobs, WSpecs, Lists, SavedStates

LEMMA WGotoType ==
    ASSUME WTypeOK, NEW l \in WSteps, WGoto(l)
    PROVE  /\ wRun' \in WRunSet
           /\ wRun'.pc = l /\ wRun'.job = wRun.job /\ wRun'.type = wRun.type /\ wRun'.spec = wRun.spec /\ wRun'.known = wRun.known
           /\ wRun'.listed = wRun.listed /\ wRun'.todo = wRun.todo
  BY WTypes DEF WGoto, WRunSet

LEMMA WIdleType == WIdle \in WRunSet /\ WIdle.pc = "idle"
  BY DEF WIdle, WRunSet, WSteps, WJobs, Operations

LEMMA WStoredInv ==
    ASSUME WTypeOK, WStored, worker' \in Resource, wRun' \in WRunSet
    PROVE  WTypeOK'
  BY DEF WTypeOK, WStored, Machinery, WRunSet, WJobs, WSpecs, Lists

LEMMA IdleInv == ASSUME wRun'.pc = "idle" PROVE JobsAt' /\ ReadAt'
  BY DEF JobsAt, ReadAt

LEMMA WUnchangedInv == WInv /\ UNCHANGED wVars => WInv'
  BY DEF WInv, WTypeOK, JobsAt, ReadAt, WantedNow, wVars, wStatus

WReconciler ==
    \/ WDispatch \/ WEnsureFinalizer \/ WMarkProcessing \/ WMarkSucceeded \/ WRelease \/ WUnannotate
    \/ WTimesOut \/ WFails

LEMMA WReconcilerInv ==
    ASSUME WInv, WReconciler
    PROVE  WInv'
<1>1. WTypeOK /\ worker \in Resource /\ wRun \in WRunSet /\ wRun.job \in WJobs
  BY WTypes DEF WInv, WRunSet
<1>2. WStored
  BY DEF WReconciler, WDispatch, WEnsureFinalizer, WMarkProcessing, WMarkSucceeded, WRelease, WUnannotate,
         WTimesOut, WFails
<1>3. worker' \in Resource
  <2>1. CASE WDispatch \/ WMarkProcessing \/ WMarkSucceeded \/ WRelease \/ WTimesOut \/ WFails
    BY <1>1, <2>1, ResourceType
       DEF WRunSet, WDispatch, WMarkProcessing, WMarkSucceeded, WRelease, WTimesOut, WFails, WJobs
  <2>2. CASE WEnsureFinalizer
    BY <1>1, <2>2 DEF WEnsureFinalizer, Resource
  <2>3. CASE WUnannotate
    BY <1>1, <2>3 DEF WUnannotate, Resource, Annotations
  <2>. QED BY <2>1, <2>2, <2>3 DEF WReconciler
<1>4. wRun' \in WRunSet /\ JobsAt' /\ ReadAt'
  <2>1. CASE WDispatch
    <3>1. Branch(worker) \in {"reconcile", "restore", "migrate", "delete"}
      BY <1>1, <2>1, ResourceType DEF WDispatch, Due
    <3>2. wanted \in WSpecs
      BY <1>1 DEF WTypeOK, WSpecs
    <3>3. wRun' \in WRunSet /\ wRun'.pc \in {"finalizer", "processing"} /\ wRun'.job = Branch(worker)
          /\ wRun'.type = OperationOf(worker)
          /\ wRun'.spec = wanted /\ (wRun'.pc = "finalizer" => wRun'.job = "reconcile")
      <4>1. OperationOf(worker) \in Operations
        BY <1>1, ResourceType
      <4>. QED BY <2>1, <3>1, <3>2, <4>1, WIdleType DEF WDispatch, WRunSet, WSteps, WDeploySteps, WJobs
    <3>. QED BY <3>1, <3>2, <3>3 DEF JobsAt, ReadAt, OperationOf
  <2>2. CASE WEnsureFinalizer
    BY <1>1, <2>2, WGotoType DEF WEnsureFinalizer, WInv, WSteps, JobsAt, ReadAt, WAt
  <2>3. CASE WMarkProcessing
    <3>1. wRun.job \in {"reconcile", "restore", "migrate", "delete"}
      BY <1>1, <2>3 DEF WMarkProcessing, WInv, JobsAt, WAt, WJobs
    <3>2. FirstCall \in WSteps
      BY <3>1 DEF FirstCall, WSteps, WDeploySteps, WRemoveSteps
    <3>3. /\ FirstCall \in {"mcm", "list", "dropMCM"}
          /\ FirstCall = "mcm" => wRun.job \in {"reconcile", "delete"}
          /\ FirstCall = "list" => wRun.job = "restore"
          /\ FirstCall = "dropMCM" => wRun.job = "migrate"
      BY <3>1 DEF FirstCall
    <3>4. wRun.spec \in WSpecs /\ wanted.pools \in Pools /\ wRun.pc = "processing"
      BY <1>1, <2>3 DEF WMarkProcessing, WInv, JobsAt, WTypeOK, WAt
    <3>5. /\ wRun' \in WRunSet /\ wRun'.pc = FirstCall /\ wRun'.job = wRun.job /\ wRun'.type = wRun.type
          /\ wRun'.spec \in WSpecs
      BY <1>1, <2>3, <3>2, <3>4 DEF WMarkProcessing, WRunSet, WSpecs
    <3>6. wRun.job # "reconcile" => wRun.type = wRun.job
      BY <3>4 DEF WInv, JobsAt
    <3>7. JobsAt'
      BY <3>1, <3>3, <3>5, <3>6 DEF JobsAt
    <3>8. ReadAt'
      BY <3>1, <3>3, <3>5 DEF ReadAt
    <3>. QED BY <3>5, <3>7, <3>8
  <2>4. CASE WMarkSucceeded
    <3>1. wRun.job \in {"reconcile", "restore", "migrate", "delete"}
      BY <1>1, <2>4 DEF WMarkSucceeded, WInv, JobsAt, WAt, WJobs
    <3>2. CASE wRun.job = "reconcile"
      BY <2>4, <3>2, WIdleType, IdleInv DEF WMarkSucceeded
    <3>3. CASE wRun.job = "restore"
      <4>1. WGoto("unannotate")
        BY <2>4, <3>3 DEF WMarkSucceeded
      <4>. QED BY <1>1, <2>4, <3>3, <4>1, WGotoType DEF WMarkSucceeded, WInv, WSteps, JobsAt, ReadAt, WAt
    <3>4. CASE wRun.job \in {"migrate", "delete"}
      <4>1. WGoto("release")
        BY <2>4, <3>4 DEF WMarkSucceeded
      <4>. QED BY <1>1, <2>4, <3>4, <4>1, WGotoType DEF WMarkSucceeded, WInv, WSteps, JobsAt, ReadAt, WAt
    <3>. QED BY <3>1, <3>2, <3>3, <3>4
  <2>5. CASE WRelease
    BY <1>1, <2>5, WGotoType, WIdleType, IdleInv DEF WRelease, WInv, WSteps, JobsAt, ReadAt, WAt
  <2>6. CASE WUnannotate \/ WTimesOut \/ WFails
    BY <2>6, WIdleType, IdleInv DEF WUnannotate, WTimesOut, WFails
  <2>. QED BY <2>1, <2>2, <2>3, <2>4, <2>5, <2>6 DEF WReconciler
<1>. QED BY <1>1, <1>2, <1>3, <1>4, WStoredInv DEF WInv

LEMMA WWorksInv ==
    ASSUME WTypeOK, UNCHANGED <<wStatus, wanted>>, wRun' \in WRunSet,
           mcm' \in {"absent", "stopped", "running", "ending"}, autoscaler' \in BOOLEAN,
           classes' \in [Classes -> {"absent", "present", "deleting"}], deployments' \in Lists,
           sets' \subseteq Classes, machines' \in [Classes -> Counts], vms' \in [Classes -> Counts]
    PROVE  WTypeOK'
  BY DEF WTypeOK, wStatus, WRunSet, WJobs, WSpecs, Lists

LEMMA WantedNowType ==
    ASSUME WTypeOK, wRun.spec \in WSpecs
    PROVE  /\ WantedNow \subseteq Deployments
           /\ \A d \in WantedNow : wRun.spec.pools[d] \in Pool /\ ClassOf(d) \in Classes
           /\ WantedClasses \subseteq Classes
           /\ Hibernated \in BOOLEAN /\ Autoscaled \in BOOLEAN
<1>1. \A d \in WantedNow : wRun.spec.pools[d] \in Pool /\ d \in Deployments
  BY DEF WantedNow, WSpecs, Pools
<1>2. \A d \in WantedNow : ClassOf(d) \in Classes
  BY <1>1 DEF ClassOf, Classes, Pool
<1>. QED BY <1>1, <1>2 DEF WantedClasses, Hibernated, WSpecs, Autoscaled, WantedNow

\* Steps that only move the controller and write what has no structure.
WSimple ==
    \/ DeployMCM \/ PauseAutoscaler \/ ListClasses \/ HoldAutoscaler \/ AwaitAvailable \/ AwaitUnwantedGone
    \/ StopMCM \/ ResumeAutoscaler \/ DropMCM \/ AwaitMCMGone \/ AwaitAllGone

LEMMA WSimpleInv ==
    ASSUME WInv, WSimple
    PROVE  WInv'
<1>1. WTypeOK /\ wRun \in WRunSet /\ wRun.job \in WJobs
  BY WTypes DEF WInv, WRunSet
<1>2. UNCHANGED <<wStatus, wanted, classes, deployments, sets, machines, vms>>
  BY DEF WSimple, DeployMCM, PauseAutoscaler, ListClasses, HoldAutoscaler, AwaitAvailable, AwaitUnwantedGone,
         StopMCM, ResumeAutoscaler, DropMCM, AwaitMCMGone, AwaitAllGone, WWorks, Machinery
<1>3. wRun.spec \in WSpecs
  BY DEF WInv, JobsAt, WSimple, DeployMCM, PauseAutoscaler, ListClasses, HoldAutoscaler, AwaitAvailable,
         AwaitUnwantedGone, StopMCM, ResumeAutoscaler, DropMCM, AwaitMCMGone, AwaitAllGone, WWorks, WAt
<1>0. wRun.job # "reconcile" => wRun.type = wRun.job
  BY DEF WInv, JobsAt, WSimple, DeployMCM, PauseAutoscaler, ListClasses, HoldAutoscaler, AwaitAvailable,
         AwaitUnwantedGone, StopMCM, ResumeAutoscaler, DropMCM, AwaitMCMGone, AwaitAllGone, WWorks, WAt
<1>4. mcm' \in {"absent", "stopped", "running", "ending"} /\ autoscaler' \in BOOLEAN
  BY <1>1, <1>3, WantedNowType
     DEF WSimple, DeployMCM, MCMReplicas, MCMDeployed, PauseAutoscaler, ListClasses, HoldAutoscaler, AwaitAvailable,
         AwaitUnwantedGone, StopMCM, ResumeAutoscaler, DropMCM, AwaitMCMGone, AwaitAllGone, WWorks, Machinery, WTypeOK
<1>. USE DEF WSteps, WDeploySteps, WRemoveSteps
<1>5. wRun' \in WRunSet /\ JobsAt' /\ ReadAt'
  <2>1. CASE HoldAutoscaler
    BY <1>1, <1>2, <2>1 DEF HoldAutoscaler, WInv, JobsAt, ReadAt, wStatus
  <2>2. CASE ListClasses
    <3>1. wRun' \in WRunSet
      BY <1>1, <2>2 DEF ListClasses, WRunSet
    <3>2. wRun'.pc = "classes" /\ wRun'.job = wRun.job /\ wRun'.type = wRun.type /\ wRun'.spec = wRun.spec
      BY <1>1, <2>2 DEF ListClasses, WRunSet
    <3>. QED BY <1>3, <2>2, <3>1, <3>2 DEF ListClasses, WWorks, WAt, WInv, JobsAt, ReadAt
  <2>3. CASE DeployMCM
    <3>1. PICK l \in {"classes", "pause"} : WGoto(l) /\ (l = "pause" => wRun.job # "delete")
      BY <2>3 DEF DeployMCM
    <3>. QED BY <1>1, <2>3, <3>1, WGotoType DEF DeployMCM, WWorks, WAt, WInv, JobsAt, ReadAt
  <2>4. CASE PauseAutoscaler \/ AwaitAvailable \/ AwaitUnwantedGone \/ StopMCM \/ ResumeAutoscaler
    <3>1. PICK l \in {"listClasses", "cleanDeployments", "cleanSets", "resume", "bounds"} :
             WGoto(l) /\ (l = "cleanDeployments" => wRun.pc = "available")
      BY <2>4 DEF PauseAutoscaler, AwaitAvailable, AwaitUnwantedGone, StopMCM, ResumeAutoscaler, WWorks, WAt
    <3>2. wRun.job = "reconcile"
      BY <2>4 DEF PauseAutoscaler, AwaitAvailable, AwaitUnwantedGone, StopMCM, ResumeAutoscaler, WWorks, WAt, WInv,
                  JobsAt
    <3>. QED BY <1>1, <1>3, <3>1, <3>2, WGotoType DEF WInv, JobsAt, ReadAt
  <2>5. CASE DropMCM
    <3>1. wRun.job \in {"delete", "migrate", "restore"} /\ saved' = saved
      BY <1>2, <2>5 DEF DropMCM, WWorks, WAt, WInv, JobsAt, wStatus
    <3>2. CASE wRun.job = "delete"
      <4>1. WGoto("success")
        BY <2>5, <3>2 DEF DropMCM
      <4>. QED BY <1>0, <1>1, <1>3, <3>2, <4>1, WGotoType DEF JobsAt, ReadAt
    <3>3. CASE wRun.job # "delete"
      <4>1. WGoto("mcmGone")
        BY <2>5, <3>3 DEF DropMCM
      <4>. QED BY <1>0, <1>1, <1>3, <2>5, <3>1, <3>3, <4>1, WGotoType DEF DropMCM, WWorks, WAt, WInv, JobsAt, ReadAt
    <3>. QED BY <3>2, <3>3
  <2>6. CASE AwaitAllGone
    <3>1. PICK l \in {"dropMCM", "success"} : WGoto(l) /\ (l = "dropMCM" => wRun.job = "delete")
      BY <2>6 DEF AwaitAllGone
    <3>. QED BY <1>1, <1>3, <2>6, <3>1, WGotoType DEF AwaitAllGone, WWorks, WAt, WInv, JobsAt, ReadAt
  <2>7. CASE AwaitMCMGone
    <3>1. wRun.job \in {"migrate", "restore"} /\ saved' = saved
      BY <1>2, <2>7 DEF AwaitMCMGone, WWorks, WAt, WInv, JobsAt, wStatus
    <3>2. CASE wRun.job = "restore"
      <4>1. WGoto("restore")
        BY <2>7, <3>2 DEF AwaitMCMGone
      <4>. QED BY <1>1, <1>3, <2>7, <3>1, <3>2, <4>1, WGotoType
           DEF AwaitMCMGone, WWorks, WAt, WInv, JobsAt, ReadAt
    <3>3. CASE wRun.job = "migrate"
      <4>1. WGoto("dropMachines")
        BY <2>7, <3>3 DEF AwaitMCMGone
      <4>. QED BY <1>0, <1>1, <1>3, <3>3, <4>1, WGotoType DEF JobsAt, ReadAt
    <3>. QED BY <3>1, <3>2, <3>3
  <2>. QED BY <2>1, <2>2, <2>3, <2>4, <2>5, <2>6, <2>7 DEF WSimple
<1>. QED BY <1>1, <1>2, <1>4, <1>5, WWorksInv DEF WInv, WTypeOK, Lists

LEMMA WantedReplicasType ==
    ASSUME WTypeOK, wRun.spec \in WSpecs, wRun.listed \in Lists, NEW d \in Deployments, wRun.spec.pools[d] # Nil
    PROVE  WantedReplicas(d) \in Counts
<1>1. wRun.spec.pools[d] \in Pool /\ Hibernated \in BOOLEAN
  BY DEF WSpecs, Pools, Hibernated
<1>2. 0 \in Counts
  BY WorkerAssumption DEF Counts
<1>3. wRun.listed[d] # Nil => wRun.listed[d].replicas \in Counts
  BY DEF Lists, Deployment
<1>4. saved[d] # Nil => saved[d].replicas \in Counts
  BY DEF WTypeOK, SavedState
<1>5. wRun.spec.pools[d].min \in Counts /\ wRun.spec.pools[d].max \in Counts
  BY <1>1 DEF Pool
<1>. QED BY <1>2, <1>3, <1>4, <1>5 DEF WantedReplicas

LEMMA DeployDeploymentInv ==
    ASSUME WInv, NEW d \in Deployments, DeployDeployment(d)
    PROVE  WInv'
<1>1. WTypeOK /\ wRun \in WRunSet /\ deployments \in Lists
  BY WTypes DEF WInv
<1>2. /\ wRun.spec \in WSpecs /\ wRun.listed \in Lists
      /\ \A e \in wRun.todo : wRun.spec.pools[e] # Nil
      /\ wRun.job \in {"reconcile", "restore"} /\ (wRun.job # "reconcile" => wRun.type = wRun.job)
  BY DEF WInv, JobsAt, ReadAt, DeployDeployment, WWorks, WAt
<1>3. d \in wRun.todo /\ wRun.spec.pools[d] \in Pool
  BY <1>2 DEF DeployDeployment, WSpecs, Pools
<1> DEFINE new == [version  |-> wRun.spec.pools[d].version, replicas |-> WantedReplicas(d),
                   deleting |-> IF deployments[d] = Nil THEN FALSE ELSE deployments[d].deleting]
<1>4. new \in Deployment
  <2>1. WantedReplicas(d) \in Counts
    BY <1>1, <1>2, <1>3, WantedReplicasType
  <2>2. deployments[d] # Nil => deployments[d].deleting \in BOOLEAN
    BY <1>1 DEF Lists, Deployment
  <2>. QED BY <1>3, <2>1, <2>2 DEF Deployment, Pool
<1>5. deployments' = [deployments EXCEPT ![d] = new]
  BY DEF DeployDeployment
<1>6. deployments' \in Lists
  <2>. HIDE DEF new
  <2>. QED BY <1>1, <1>4, <1>5 DEF Lists
<1>7. /\ wRun' \in WRunSet /\ wRun'.pc = "deploy" /\ wRun'.job = wRun.job /\ wRun'.type = wRun.type /\ wRun'.spec = wRun.spec
      /\ wRun'.listed = wRun.listed /\ wRun'.todo = wRun.todo \ {d}
  BY <1>1 DEF DeployDeployment, WWorks, WAt, WRunSet
<1>8. JobsAt' /\ ReadAt'
  BY <1>2, <1>7 DEF JobsAt, ReadAt
<1>. QED BY <1>1, <1>6, <1>7, <1>8, WWorksInv DEF WInv, DeployDeployment, WWorks, WTypeOK

LEMMA RestoreMachinesInv ==
    ASSUME WInv, NEW d \in Deployments, RestoreMachines(d)
    PROVE  WInv'
<1>1. WTypeOK /\ wRun \in WRunSet /\ saved \in SavedStates
  BY WTypes DEF WInv
<1>2. /\ wRun.spec \in WSpecs /\ wRun.listed \in Lists /\ wRun.job = "restore" /\ wRun.type = "restore"
      /\ \A e \in wRun.todo : wRun.spec.pools[e] # Nil /\ saved[e] # Nil
  BY DEF WInv, JobsAt, ReadAt, RestoreMachines, WWorks, WAt
<1>3. saved[d].sets \in SetStates
  BY <1>1, <1>2 DEF RestoreMachines, SavedStates, SavedState
<1>4. DOMAIN saved[d].sets \subseteq Versions /\ \A v \in DOMAIN saved[d].sets : saved[d].sets[v] \in Counts
  BY <1>3 DEF SetStates
<1>5. sets' \subseteq Classes
  BY <1>1, <1>4 DEF RestoreMachines, WTypeOK, Classes
<1>6. machines' \in [Classes -> Counts]
  BY <1>1, <1>4 DEF RestoreMachines, WTypeOK
<1>7. /\ wRun' \in WRunSet /\ wRun'.pc = "restore" /\ wRun'.job = wRun.job /\ wRun'.type = wRun.type /\ wRun'.spec = wRun.spec
      /\ wRun'.listed = wRun.listed /\ wRun'.todo = wRun.todo \ {d}
  BY <1>1 DEF RestoreMachines, WWorks, WAt, WRunSet
<1>8. JobsAt' /\ ReadAt'
  BY <1>2, <1>7 DEF JobsAt, ReadAt, RestoreMachines, WWorks, wStatus
<1>. QED BY <1>1, <1>5, <1>6, <1>7, <1>8, WWorksInv DEF WInv, RestoreMachines, WWorks, WTypeOK, Lists

\* The other steps of the actuator.
WLoops == ListDeployments \/ AllDeployed \/ AllRestored
WCleans ==
    \/ DeployClasses \/ CleanClasses \/ CleanSets
    \/ ShallowDeleteMachines \/ ShallowDeleteSets \/ ShallowDeleteDeployments \/ ShallowDeleteClasses

LEMMA WLoopsInv ==
    ASSUME WInv, WLoops
    PROVE  WInv'
<1>1. WTypeOK /\ wRun \in WRunSet /\ saved \in SavedStates /\ deployments \in Lists
  BY WTypes DEF WInv
<1>2. UNCHANGED <<wStatus, wanted, Machinery>>
  BY DEF WLoops, ListDeployments, AllDeployed, AllRestored, WWorks
<1>3. wRun.spec \in WSpecs
  BY DEF WInv, JobsAt, WLoops, ListDeployments, AllDeployed, AllRestored, WWorks, WAt
<1>0. wRun.job # "reconcile" => wRun.type = wRun.job
  BY DEF WInv, JobsAt, WLoops, ListDeployments, AllDeployed, AllRestored, WWorks, WAt
<1>4. /\ Restorable \subseteq Deployments /\ WantedNow \subseteq Deployments
      /\ \A d \in Restorable : wRun.spec.pools[d] # Nil /\ saved[d] # Nil
      /\ \A d \in WantedNow : wRun.spec.pools[d] # Nil
  BY DEF Restorable, WantedNow
<1>. USE DEF WSteps, WDeploySteps, WRemoveSteps
<1>5. wRun' \in WRunSet /\ JobsAt' /\ ReadAt'
  <2>1. CASE ListDeployments
    <3>1. wRun.job \in {"reconcile", "restore", "delete"}
      BY <2>1 DEF ListDeployments, WWorks, WAt, WInv, JobsAt
    <3>2. PICK l \in {"deploy", "dropMCM", "cleanDeployments"} :
             /\ wRun' = [wRun EXCEPT !.listed = deployments,
                                     !.todo = IF wRun.job = "restore" THEN Restorable ELSE WantedNow, !.pc = l]
             /\ l = "deploy" => wRun.job = "reconcile"
             /\ l = "dropMCM" => wRun.job = "restore"
             /\ l = "cleanDeployments" => wRun.job = "delete"
      BY <2>1, <3>1 DEF ListDeployments
    <3>3. /\ wRun' \in WRunSet /\ wRun'.pc = l /\ wRun'.job = wRun.job /\ wRun'.type = wRun.type /\ wRun'.spec = wRun.spec
          /\ wRun'.listed = deployments
          /\ wRun'.todo = IF wRun.job = "restore" THEN Restorable ELSE WantedNow
      BY <1>1, <1>4, <3>2 DEF WRunSet
    <3>4. saved' = saved
      BY <1>2 DEF wStatus
    <3>. QED BY <1>0, <1>1, <1>3, <1>4, <3>2, <3>3, <3>4 DEF JobsAt, ReadAt
  <2>2. CASE AllDeployed
    <3>0. wRun.job \in {"reconcile", "restore"} /\ wRun.listed \in Lists
      BY <2>2 DEF AllDeployed, WWorks, WAt, WInv, JobsAt, ReadAt
    <3>1. PICK l \in {"success", "available"} : WGoto(l) /\ (l = "available" => wRun.job = "reconcile")
      BY <2>2, <3>0 DEF AllDeployed
    <3>. QED BY <1>0, <1>1, <1>3, <3>0, <3>1, WGotoType DEF JobsAt, ReadAt
  <2>3. CASE AllRestored
    <3>1. wRun.job = "restore" /\ wRun.listed \in Lists
      BY <2>3 DEF AllRestored, WWorks, WAt, WInv, JobsAt, ReadAt
    <3>2. /\ wRun' \in WRunSet /\ wRun'.pc = "deploy" /\ wRun'.job = wRun.job /\ wRun'.type = wRun.type /\ wRun'.spec = wRun.spec
          /\ wRun'.listed = wRun.listed /\ wRun'.todo = Restorable
      BY <1>1, <1>4, <2>3 DEF AllRestored, WRunSet
    <3>. QED BY <1>0, <1>3, <1>4, <3>1, <3>2 DEF JobsAt, ReadAt
  <2>. QED BY <2>1, <2>2, <2>3 DEF WLoops
<1>. QED BY <1>1, <1>2, <1>5, WWorksInv DEF WInv, Machinery, WTypeOK, Lists

LEMMA WCleansInv ==
    ASSUME WInv, WCleans
    PROVE  WInv'
<1>1. WTypeOK /\ wRun \in WRunSet
  BY WTypes DEF WInv
<1>2. /\ UNCHANGED <<wStatus, wanted, mcm, autoscaler, vms>>
  BY DEF WCleans, DeployClasses, CleanClasses, CleanSets, ShallowDeleteMachines, ShallowDeleteSets,
         ShallowDeleteDeployments, ShallowDeleteClasses, WWorks
<1>3. wRun.spec \in WSpecs
  BY DEF WInv, JobsAt, WCleans, DeployClasses, CleanClasses, CleanSets, ShallowDeleteMachines, ShallowDeleteSets,
         ShallowDeleteDeployments, ShallowDeleteClasses, WWorks, WAt
<1>4. /\ classes' \in [Classes -> {"absent", "present", "deleting"}] /\ sets' \subseteq Classes
      /\ machines' \in [Classes -> Counts] /\ deployments' \in Lists
  <2>1. 0 \in Counts
    BY WorkerAssumption DEF Counts
  <2>. QED BY <1>1, <2>1
       DEF WCleans, DeployClasses, CleanClasses, CleanSets, ShallowDeleteMachines, ShallowDeleteSets,
           ShallowDeleteDeployments, ShallowDeleteClasses, WTypeOK, Lists
<1>. USE DEF WSteps, WDeploySteps, WRemoveSteps
<1>5. wRun' \in WRunSet /\ JobsAt' /\ ReadAt'
  <2>1. PICK l \in {"list", "allGone", "unwantedGone", "stopMCM", "dropSets", "dropDeployments", "dropClasses"} :
           /\ WGoto(l)
           /\ l = "list" => wRun.pc = "classes"
           /\ l = "unwantedGone" => wRun.pc = "cleanClasses" /\ wRun.job # "delete"
           /\ l = "allGone" => wRun.pc = "dropClasses" \/ wRun.job = "delete"
           /\ l = "stopMCM" => wRun.pc = "cleanSets"
           /\ l \in {"dropSets", "dropDeployments", "dropClasses"} =>
                 wRun.pc \in {"dropMachines", "dropSets", "dropDeployments"}
    BY DEF WCleans, DeployClasses, CleanClasses, CleanSets, ShallowDeleteMachines, ShallowDeleteSets,
           ShallowDeleteDeployments, ShallowDeleteClasses, WWorks, WAt
  <2>2. WCleans => wRun.pc \in {"classes", "cleanClasses", "cleanSets", "dropMachines", "dropSets", "dropDeployments",
                                "dropClasses"}
    BY DEF WCleans, DeployClasses, CleanClasses, CleanSets, ShallowDeleteMachines, ShallowDeleteSets,
           ShallowDeleteDeployments, ShallowDeleteClasses, WWorks, WAt
  <2>. QED BY <1>1, <1>3, <2>1, <2>2, WGotoType DEF WInv, JobsAt, ReadAt
<1>. QED BY <1>1, <1>2, <1>4, <1>5, WWorksInv DEF WInv, WTypeOK

LEMMA CleanDeploymentsInv ==
    ASSUME WInv, CleanDeployments
    PROVE  WInv'
<1>1. WTypeOK /\ wRun \in WRunSet /\ worker \in Resource /\ deployments \in Lists
  BY WTypes DEF WInv
<1>2. /\ wRun.spec \in WSpecs /\ wRun.job \in {"reconcile", "delete"}
      /\ wRun.job # "reconcile" => wRun.type = wRun.job
  BY DEF WInv, JobsAt, CleanDeployments, WAt
<1>3. CASE \E d \in Unwanted : deployments[d] = Nil
  <2>1. worker' \in Resource /\ wRun' = WIdle /\ UNCHANGED <<saved, bounds, wanted, Machinery>>
    BY <1>1, <1>3, ResourceType DEF CleanDeployments, Machinery
  <2>2. WTypeOK'
    BY <1>1, <2>1, WStoredInv, WIdleType DEF WStored
  <2>. QED BY <2>1, <2>2, WIdleType, IdleInv DEF WInv
<1>4. CASE ~\E d \in Unwanted : deployments[d] = Nil
  <2>1. ASSUME NEW d \in Deployments
        PROVE  (IF d \in Unwanted THEN [deployments[d] EXCEPT !.deleting = TRUE] ELSE deployments[d])
                   \in {Nil} \cup Deployment
    <3>1. CASE d \in Unwanted
      <4>1. deployments[d] \in Deployment
        BY <1>1, <1>4, <3>1 DEF Lists
      <4>. QED BY <3>1, <4>1 DEF Deployment
    <3>. QED BY <1>1, <3>1 DEF Lists
  <2>2. deployments' \in Lists
    BY <1>4, <2>1 DEF CleanDeployments, Lists
  <2>3. WGoto("cleanClasses") /\ UNCHANGED <<wStatus, wanted, mcm, autoscaler, classes, sets, machines, vms>>
    BY <1>4 DEF CleanDeployments, wStatus
  <2>4. "cleanClasses" \in WSteps
    BY DEF WSteps, WDeploySteps
  <2>5. wRun' \in WRunSet /\ JobsAt' /\ ReadAt'
    BY <1>1, <1>2, <2>3, <2>4, WGotoType DEF JobsAt, ReadAt
  <2>. QED BY <1>1, <2>2, <2>3, <2>5, WWorksInv DEF WInv, WTypeOK
<1>. QED BY <1>3, <1>4

LEMMA StoreBoundsInv ==
    ASSUME WInv, StoreBounds
    PROVE  WInv'
<1>1. WTypeOK /\ wRun \in WRunSet
  BY WTypes DEF WInv
<1>2. wRun.spec \in WSpecs /\ wRun.job = "reconcile"
  BY DEF WInv, JobsAt, StoreBounds, WAt
<1>3. bounds' \in [Deployments -> {Nil} \cup [min : Counts, max : Counts]]
  <2>1. \A d \in WantedNow : wRun.spec.pools[d] \in Pool
    BY <1>1, <1>2, WantedNowType
  <2>2. \A d \in WantedNow : [min |-> wRun.spec.pools[d].min, max |-> wRun.spec.pools[d].max]
                                 \in [min : Counts, max : Counts]
    BY <2>1 DEF Pool
  <2>. QED BY <1>1, <2>2 DEF StoreBounds, WTypeOK
<1>4. "success" \in WSteps
  BY DEF WSteps
<1>5. wRun' \in WRunSet /\ JobsAt' /\ ReadAt'
  BY <1>1, <1>2, <1>4, WGotoType DEF StoreBounds, JobsAt, ReadAt
<1>. QED BY <1>1, <1>3, <1>5 DEF WInv, StoreBounds, WTypeOK, Machinery, WRunSet, WJobs, WSpecs, Lists

LEMMA WControllerInv == WInv /\ (WController \/ WFails) => WInv'
<1>. SUFFICES ASSUME WInv, WController \/ WFails PROVE WInv'
  OBVIOUS
<1>1. CASE WReconciler
  BY <1>1, WReconcilerInv
<1>2. CASE WSimple \/ WLoops \/ WCleans
  BY <1>2, WSimpleInv, WLoopsInv, WCleansInv
<1>3. CASE CleanDeployments \/ StoreBounds
  BY <1>3, CleanDeploymentsInv, StoreBoundsInv
<1>4. CASE \E d \in Deployments : DeployDeployment(d) \/ RestoreMachines(d)
  BY <1>4, DeployDeploymentInv, RestoreMachinesInv
<1>. QED BY <1>1, <1>2, <1>3, <1>4 DEF WController, WReconciler, WSimple, WLoops, WCleans

-----------------------------------------------------------------------------
(* The machine controller manager, the autoscaler and the state reconciler *)

LEMMA DesiredType == ASSUME WTypeOK, NEW c \in Classes PROVE Desired(c) \in Counts
<1>1. c[1] \in Deployments
  BY DEF Classes
<1>2. 0 \in Counts
  BY WorkerAssumption DEF Counts
<1>. QED BY <1>1, <1>2 DEF Desired, WTypeOK, Deployment

LEMMA MCMInv == WInv /\ MCM => WInv'
<1>. SUFFICES ASSUME WInv, MCM PROVE WInv'
  OBVIOUS
<1>1. WTypeOK /\ wRun \in WRunSet /\ deployments \in Lists
  BY WTypes DEF WInv
<1>2. UNCHANGED <<wStatus, wanted, autoscaler, wRun>> /\ mcm' \in {"absent", "stopped", "running", "ending"}
  BY <1>1 DEF MCM, MCMEnds, CreateSet, FinalizeDeployment, CreateMachine, CreateVM, RemoveMachine, FinalizeClass,
              MCMWorks, WTypeOK
<1> DEFINE typed ==
    /\ classes' \in [Classes -> {"absent", "present", "deleting"}] /\ sets' \subseteq Classes
    /\ deployments' \in Lists /\ machines' \in [Classes -> Counts] /\ vms' \in [Classes -> Counts]
<1>3. typed
  <2>1. ASSUME NEW d \in Deployments, CreateSet(d) PROVE sets' \subseteq Classes
    <3>1. deployments[d].version \in Versions
      BY <1>1, <2>1 DEF CreateSet, Lists, Deployment
    <3>2. <<d, deployments[d].version>> \in Classes
      BY <3>1 DEF Classes
    <3>. QED BY <1>1, <2>1, <3>2 DEF CreateSet, WTypeOK
  <2>2. ASSUME NEW d \in Deployments, FinalizeDeployment(d) PROVE sets' \subseteq Classes /\ deployments' \in Lists
    BY <1>1, <2>2 DEF FinalizeDeployment, WTypeOK, Lists
  <2>3. ASSUME NEW c \in Classes, CreateMachine(c) PROVE machines' \in [Classes -> Counts]
    <3>1. Desired(c) \in Counts /\ machines[c] \in Counts
      BY <1>1, DesiredType DEF WTypeOK
    <3>2. machines[c] + 1 \in Counts
      BY <2>3, <3>1, WorkerAssumption DEF CreateMachine, Counts
    <3>. QED BY <1>1, <2>3, <3>2 DEF CreateMachine, WTypeOK
  <2>4. ASSUME NEW c \in Classes, CreateVM(c) PROVE vms' \in [Classes -> Counts]
    <3>1. vms[c] + 1 \in Counts
      BY <1>1, <2>4, WorkerAssumption DEF CreateVM, Counts, WTypeOK
    <3>. QED BY <1>1, <2>4, <3>1 DEF CreateVM, WTypeOK
  <2>5. ASSUME NEW c \in Classes, RemoveMachine(c)
        PROVE  machines' \in [Classes -> Counts] /\ vms' \in [Classes -> Counts]
    <3>1. Desired(c) \in Counts /\ machines[c] \in Counts /\ vms[c] \in Counts
      BY <1>1, DesiredType DEF WTypeOK
    <3>2. machines[c] - 1 \in Counts /\ (vms[c] >= machines[c] => vms[c] - 1 \in Counts)
      BY <2>5, <3>1, WorkerAssumption DEF RemoveMachine, Counts
    <3>. QED BY <1>1, <2>5, <3>1, <3>2 DEF RemoveMachine, WTypeOK
  <2>6. ASSUME NEW c \in Classes, FinalizeClass(c) PROVE classes' \in [Classes -> {"absent", "present", "deleting"}]
    BY <1>1, <2>6 DEF FinalizeClass, WTypeOK
  <2>7. ASSUME NEW d \in Deployments, CreateSet(d) \/ FinalizeDeployment(d) PROVE typed
    BY <1>1, <2>1, <2>2, <2>7 DEF CreateSet, FinalizeDeployment, WTypeOK, Lists
  <2>8. ASSUME NEW c \in Classes, CreateMachine(c) \/ CreateVM(c) \/ RemoveMachine(c) \/ FinalizeClass(c) PROVE typed
    BY <1>1, <2>3, <2>4, <2>5, <2>6, <2>8 DEF CreateMachine, CreateVM, RemoveMachine, FinalizeClass, WTypeOK, Lists
  <2>9. CASE MCMEnds
    BY <1>1, <2>9 DEF MCMEnds, WTypeOK, Lists
  <2>. QED BY <2>7, <2>8, <2>9 DEF MCM
<1>4. JobsAt' /\ ReadAt'
  BY <1>2 DEF WInv, JobsAt, ReadAt, wStatus
<1>. QED BY <1>1, <1>2, <1>3, <1>4, WWorksInv DEF WInv, WTypeOK

LEMMA ScaleInv ==
    ASSUME WInv, NEW d \in Deployments, Scale(d)
    PROVE  WInv'
<1>1. WTypeOK /\ wRun \in WRunSet /\ deployments \in Lists
  BY WTypes DEF WInv
<1>2. PICK n \in bounds[d].min .. bounds[d].max : deployments' = [deployments EXCEPT ![d].replicas = n]
  BY DEF Scale
<1>3. n \in Counts
  BY <1>1, <1>2, WorkerAssumption DEF Scale, WTypeOK, Counts
<1>4. deployments[d] \in Deployment
  BY <1>1 DEF Scale, Lists
<1>5. [deployments[d] EXCEPT !.replicas = n] \in Deployment
  BY <1>3, <1>4 DEF Deployment
<1>6. deployments' \in Lists
  BY <1>1, <1>2, <1>5 DEF Lists
<1>7. JobsAt' /\ ReadAt'
  BY DEF Scale, WInv, JobsAt, ReadAt, wStatus
<1>. QED BY <1>1, <1>6, <1>7, WWorksInv DEF WInv, Scale, WTypeOK

LEMMA CurrentStateType ==
    ASSUME WTypeOK
    PROVE  CurrentState \in SavedStates
<1>1. ASSUME NEW d \in Deployments, deployments[d] # Nil
      PROVE  [replicas |-> deployments[d].replicas, sets |-> [v \in SetsOf(d) |-> machines[<<d, v>>]]]
                 \in [replicas : Counts, sets : SetStates]
  <2>1. deployments[d].replicas \in Counts
    BY <1>1 DEF WTypeOK, Deployment
  <2>2. SetsOf(d) \in SUBSET Versions
    BY DEF SetsOf
  <2>3. [v \in SetsOf(d) |-> machines[<<d, v>>]] \in [SetsOf(d) -> Counts]
    BY <2>2 DEF WTypeOK, Classes
  <2>. QED BY <2>1, <2>2, <2>3 DEF SetStates
<1>. QED BY <1>1 DEF CurrentState, SavedStates, SavedState

LEMMA NotWhileRestoring == Restoring /\ RestoreKeepsState => ~StatesSync
  BY DEF Restoring, RestoreKeepsState, StatesSync, OperationType

LEMMA SyncStateInv == WInv /\ RestoreKeepsState /\ SyncState => WInv'
<1>. SUFFICES ASSUME WInv, RestoreKeepsState, SyncState PROVE WInv'
  OBVIOUS
<1>1. WTypeOK' /\ UNCHANGED wRun
  BY CurrentStateType DEF WInv, SyncState, WTypeOK, SavedStates, Machinery
<1>2. ~Restoring
  BY NotWhileRestoring DEF SyncState
<1>3. JobsAt' /\ ReadAt'
  BY <1>1, <1>2 DEF WInv, JobsAt, ReadAt, Restoring
<1>. QED BY <1>1, <1>3 DEF WInv

-----------------------------------------------------------------------------
(* The worker controller keeps RestoreKeepsState *)

LEMMA RestoreStoredKept ==
    ASSUME WInv, RestoreKeepsState, WReconciler, UNCHANGED stage
    PROVE  RestoreKeepsState'
<1>1. WTypeOK /\ worker \in Resource /\ wRun \in WRunSet /\ wRun.job \in WJobs
  BY WTypes DEF WInv, WRunSet
<1>2. CASE WDispatch
  <2>1. worker.exists /\ Branch(worker) # "none"
    BY <1>2 DEF WDispatch, Due, Branch
  <2>2. worker'.exists
    BY <1>1, <1>2, <2>1 DEF WDispatch, Taken, Resource
  <2>3. wRun'.pc \in {"finalizer", "processing"}
    BY <1>2 DEF WDispatch, WIdle
  <2>. QED BY <2>1, <2>2, <2>3 DEF RestoreKeepsState, Restoring
<1>0. CASE WFails /\ wRun.pc = "idle"
  <2>1. Branch(worker) # "none" /\ wRun'.pc = "idle"
    BY <1>0, WIdleType DEF WFails, WAt, Refusals, Due
  <2>. QED BY <2>1 DEF RestoreKeepsState, Restoring
<1>3. ~WDispatch /\ ~(WFails /\ wRun.pc = "idle")
        => wRun.pc # "idle" /\ worker.exists /\ stage \notin {"migrateControlPlane", "restoreControlPlane"}
  BY DEF WReconciler, WEnsureFinalizer, WMarkProcessing, WMarkSucceeded, WRelease, WUnannotate, WTimesOut,
         WAt, RestoreKeepsState
<1>4. CASE wRun'.pc = "idle" /\ ~WDispatch /\ ~(WFails /\ wRun.pc = "idle")
  BY <1>3, <1>4 DEF RestoreKeepsState, Restoring
<1>5. CASE WEnsureFinalizer
  BY <1>1, <1>3, <1>5, WGotoType DEF WEnsureFinalizer, WSteps, RestoreKeepsState, Restoring, WDispatch, WAt, Resource
<1>6. CASE WMarkProcessing
  <2>1. wRun.job \in {"reconcile", "restore", "migrate", "delete"}
    BY <1>1, <1>6 DEF WMarkProcessing, WInv, JobsAt, WAt, WJobs
  <2>2. worker'.exists /\ worker'.state = "processing" /\ (wRun.job = "restore" => worker'.type = "restore")
    BY <1>1, <1>3, <1>6, <2>1 DEF WMarkProcessing, Processing, Resource, WDispatch, WAt, WInv, JobsAt
  <2>3. wRun'.job = wRun.job
    BY <1>1, <1>6 DEF WMarkProcessing, WRunSet
  <2>. QED BY <1>3, <1>6, <2>2, <2>3 DEF RestoreKeepsState, Restoring, WMarkProcessing, WDispatch, WAt
<1>7. CASE (WMarkSucceeded \/ WRelease) /\ wRun'.pc # "idle"
  <2>1. wRun'.pc \in {"release", "unannotate"}
    <3>1. wRun.job \in {"reconcile", "restore", "migrate", "delete"}
      BY <1>1, <1>7 DEF WMarkSucceeded, WRelease, WInv, JobsAt, WAt, WJobs
    <3>. QED BY <1>1, <1>7, <3>1, WIdleType DEF WMarkSucceeded, WRelease, WGoto, WRunSet
  <2>2. worker'.exists
    BY <1>1, <1>3, <1>7, WIdleType DEF WMarkSucceeded, WRelease, Succeeded, Released, Resource, WDispatch, WAt
  <2>3. ~WDispatch /\ wRun.pc # "idle"
    BY <1>7 DEF WMarkSucceeded, WRelease, WDispatch, WAt
  <2>. QED BY <1>3, <2>1, <2>2, <2>3 DEF RestoreKeepsState, Restoring
<1>8. WUnannotate \/ WTimesOut \/ (WFails /\ wRun.pc # "idle") => wRun'.pc = "idle" /\ ~WDispatch
  BY WIdleType DEF WUnannotate, WTimesOut, WFails, WDispatch, WAt
<1>9. WMarkSucceeded \/ WRelease => ~WDispatch
  BY DEF WMarkSucceeded, WRelease, WDispatch, WAt
<1>. QED BY <1>0, <1>2, <1>4, <1>5, <1>6, <1>7, <1>8, <1>9 DEF WReconciler

\* The steps of the actuator: they leave the resource alone or end the run.
WActuator ==
    \/ WSimple \/ WLoops \/ WCleans \/ CleanDeployments \/ StoreBounds
    \/ \E d \in Deployments : DeployDeployment(d) \/ RestoreMachines(d)

LEMMA RestoreActuatorKept ==
    ASSUME WInv, RestoreKeepsState, WActuator, UNCHANGED stage
    PROVE  RestoreKeepsState'
<1>. USE DEF WActuator, WSimple, WLoops, WCleans
<1>1. wRun.pc # "idle"
  BY DEF DeployMCM, PauseAutoscaler, ListClasses, DeployClasses, ListDeployments, DeployDeployment, RestoreMachines,
         AllDeployed, AllRestored, AwaitAvailable, HoldAutoscaler, CleanDeployments, CleanClasses, AwaitUnwantedGone,
         CleanSets, StopMCM, ResumeAutoscaler, StoreBounds, DropMCM, AwaitMCMGone, ShallowDeleteMachines, ShallowDeleteSets,
         ShallowDeleteDeployments, ShallowDeleteClasses, AwaitAllGone, WWorks, WAt
<1>2. worker.exists /\ stage \notin {"migrateControlPlane", "restoreControlPlane"}
  BY <1>1 DEF RestoreKeepsState
<1>3. CASE wRun'.pc = "idle"
  BY <1>2, <1>3 DEF RestoreKeepsState, Restoring
<1>4. CASE wRun'.pc # "idle"
  <2>1. worker' = worker
    BY <1>4, WIdleType
       DEF DeployMCM, PauseAutoscaler, ListClasses, DeployClasses, ListDeployments, DeployDeployment, RestoreMachines,
           AllDeployed, AllRestored, AwaitAvailable, HoldAutoscaler, CleanDeployments, CleanClasses, AwaitUnwantedGone,
           CleanSets, StopMCM, ResumeAutoscaler, StoreBounds, DropMCM, AwaitMCMGone, ShallowDeleteMachines, ShallowDeleteSets,
           ShallowDeleteDeployments, ShallowDeleteClasses, AwaitAllGone, WWorks, wStatus
  <2>2. wRun \in WRunSet
    BY WTypes DEF WInv
  <2>3. wRun'.job = wRun.job
    BY <1>4, <2>2, WIdleType
       DEF DeployMCM, PauseAutoscaler, ListClasses, DeployClasses, ListDeployments, DeployDeployment, RestoreMachines,
           AllDeployed, AllRestored, AwaitAvailable, HoldAutoscaler, CleanDeployments, CleanClasses, AwaitUnwantedGone,
           CleanSets, StopMCM, ResumeAutoscaler, StoreBounds, DropMCM, AwaitMCMGone, ShallowDeleteMachines, ShallowDeleteSets,
           ShallowDeleteDeployments, ShallowDeleteClasses, AwaitAllGone, WGoto, WRunSet
  <2>4. Restoring' => Restoring
    <3>1. CASE wRun.job = "restore"
      <4>1. wRun.pc \in {"list", "dropMCM", "mcmGone", "restore", "deploy"}
        BY <3>1
           DEF WInv, JobsAt, DeployMCM, PauseAutoscaler, ListClasses, DeployClasses, ListDeployments, DeployDeployment,
               RestoreMachines, AllDeployed, AllRestored, AwaitAvailable, HoldAutoscaler, CleanDeployments,
               CleanClasses, AwaitUnwantedGone, CleanSets, StopMCM, ResumeAutoscaler, StoreBounds, DropMCM, AwaitMCMGone,
               ShallowDeleteMachines, ShallowDeleteSets, ShallowDeleteDeployments, ShallowDeleteClasses, AwaitAllGone,
               WWorks, WAt
      <4>. QED BY <3>1, <4>1 DEF Restoring
    <3>. QED BY <2>3, <3>1 DEF Restoring
  <2>. QED BY <1>2, <2>1, <2>4 DEF RestoreKeepsState
<1>. QED BY <1>3, <1>4

LEMMA RestoreWorkerKept ==
    WInv /\ RestoreKeepsState /\ (WController \/ WFails \/ SyncState) /\ UNCHANGED stage => RestoreKeepsState'
<1>1. SyncState => UNCHANGED <<worker, wRun>>
  BY DEF SyncState
<1>2. UNCHANGED <<worker, wRun, stage>> /\ RestoreKeepsState => RestoreKeepsState'
  BY DEF RestoreKeepsState, Restoring
<1>. QED BY <1>1, <1>2, RestoreStoredKept, RestoreActuatorKept
  DEF WController, WReconciler, WActuator, WSimple, WLoops, WCleans

-----------------------------------------------------------------------------
(* The gardenlet and the environment *)

SeedType ==
    /\ shoot \in Shoots /\ stage \in Stages
    /\ left \in [requests : Nat, faults : Nat, events : Nat]

\* What every reachable state satisfies.
Inv == CPTypeOK /\ CPBusy /\ WInv /\ RestoreKeepsState /\ SeedType

LEMMA ShootsType ==
    ASSUME NEW s \in Shoots
    PROVE  /\ s.control \in [version : 0..2, remedy : BOOLEAN, acr : BOOLEAN]
           /\ s.pools \in Pools /\ s.hibernated \in BOOLEAN
  BY SeedAssumption

LEMMA SpendType ==
    ASSUME SeedType, NEW what \in {"requests", "faults", "events"}, Spend(what)
    PROVE  left' \in [requests : Nat, faults : Nat, events : Nat]
  BY DEF SeedType, Spend

LEMMA InvInit == Init => Inv
<1>. SUFFICES ASSUME Init PROVE Inv
  OBVIOUS
<1>1. SeedType
  BY SeedAssumption DEF Init, SeedType, Stages
<1>2. CPTypeOK /\ CPBusy
  BY <1>1, NewType, CPIdleType, ShootsType DEF Init, CPTypeOK, CPBusy, CPEmpty, CPRuns, SeedType, CPIdle, Annotations
<1>3. WTypeOK
  <2>1. 0 \in Counts
    BY WorkerAssumption DEF Counts
  <2>. QED BY <1>1, <2>1, NewType, WIdleType, ShootsType
       DEF Init, WTypeOK, WEmpty, SeedType, WRunSet, WJobs, WSpecs, Lists
<1>4. JobsAt /\ ReadAt /\ RestoreKeepsState
  BY DEF Init, WEmpty, WIdle, JobsAt, ReadAt, RestoreKeepsState, Restoring
<1>. QED BY <1>1, <1>2, <1>3, <1>4 DEF Inv, WInv

LEMMA CPKept ==
    ASSUME CPTypeOK, CPBusy, cp' \in Resource, cpShoot' \in [version : 0..2, remedy : BOOLEAN, acr : BOOLEAN],
           serving' \in BOOLEAN, UNCHANGED <<objects, managed, remedies, cpRun>>
    PROVE  CPTypeOK' /\ CPBusy'
  BY DEF CPTypeOK, CPBusy

LEMMA WKept ==
    ASSUME WInv, worker' \in Resource, wanted' \in WSpecs, UNCHANGED <<saved, bounds, Machinery, wRun>>
    PROVE  WInv'
  BY DEF WInv, WTypeOK, JobsAt, ReadAt, Machinery, WSpecs

LEMMA AnnotationType ==
    ASSUME NEW r \in Resource, NEW a \in Annotations
    PROVE  [r EXCEPT !.annotation = a] \in Resource
  BY DEF Resource

LEMMA RequestInv ==
    ASSUME Inv, Request
    PROVE  Inv'
<1>. USE DEF Inv, Request
<1>1. cp \in Resource /\ worker \in Resource /\ wanted \in WSpecs
  BY DEF CPTypeOK, WInv, WTypeOK, WSpecs
<1>2. left' \in [requests : Nat, faults : Nat, events : Nat]
  BY SpendType DEF ChangeShoot, RequestMigrate, RequestDelete
<1>3. CASE ChangeShoot
  <2>1. PICK new \in Shoots : shoot' = new /\ cpShoot' = new.control
    BY <1>3 DEF ChangeShoot
  <2>2. cp' \in Resource
    BY <1>1, <1>3, AnnotationType DEF ChangeShoot, Annotations
  <2>3. CPTypeOK' /\ CPBusy'
    BY <1>3, <2>1, <2>2, CPKept, ShootsType DEF ChangeShoot, CPElse, CPTypeOK
  <2>4. WInv'
    BY <1>3, WUnchangedInv DEF ChangeShoot
  <2>5. RestoreKeepsState'
    BY <1>3 DEF ChangeShoot, wVars, wStatus, RestoreKeepsState, Restoring
  <2>. QED BY <1>2, <1>3, <2>1, <2>3, <2>4, <2>5 DEF ChangeShoot, SeedType, Stages
<1>4. CASE RequestMigrate
  <2>1. worker' \in Resource
    BY <1>1, <1>4, AnnotationType DEF RequestMigrate, Annotations
  <2>2. WInv'
    BY <1>1, <1>4, <2>1, WKept DEF RequestMigrate, WElse
  <2>3. RestoreKeepsState'
    BY <1>1, <1>4, WIdleType DEF RequestMigrate, WElse, RestoreKeepsState, Restoring, WAt, Resource
  <2>4. CPTypeOK' /\ CPBusy'
    BY <1>4, CPUnchangedType DEF RequestMigrate, CPBusy, cpVars
  <2>. QED BY <1>2, <1>4, <2>2, <2>3, <2>4 DEF RequestMigrate, SeedType, Stages
<1>5. CASE RequestDelete
  <2>1. worker' \in Resource
    BY <1>1, <1>5 DEF RequestDelete, Resource
  <2>2. WInv'
    BY <1>1, <1>5, <2>1, WKept DEF RequestDelete, WElse
  <2>3. RestoreKeepsState'
    BY <1>1, <1>5 DEF RequestDelete, WElse, RestoreKeepsState, Restoring, Resource
  <2>4. CPTypeOK' /\ CPBusy'
    BY <1>5, CPUnchangedType DEF RequestDelete, CPBusy, cpVars
  <2>. QED BY <1>2, <1>5, <2>2, <2>3, <2>4 DEF RequestDelete, SeedType, Stages
<1>. QED BY <1>3, <1>4, <1>5

LEMMA MoveSeedInv == Inv /\ MoveSeed => Inv'
<1>. SUFFICES ASSUME Inv, MoveSeed PROVE Inv'
  OBVIOUS
<1>1. CPTypeOK' /\ CPBusy'
  <2>1. cp' \in Resource
    BY NewType DEF MoveSeed, Annotations
  <2>. QED BY <2>1 DEF Inv, MoveSeed, CPTypeOK, CPBusy
<1>2. WInv'
  <2>1. worker' \in Resource
    BY NewType DEF MoveSeed, Annotations
  <2>2. WTypeOK'
    BY <2>1 DEF Inv, MoveSeed, WInv, WTypeOK
  <2>3. JobsAt' /\ ReadAt'
    BY DEF Inv, MoveSeed, WInv, JobsAt, ReadAt
  <2>. QED BY <2>2, <2>3 DEF WInv
<1>3. RestoreKeepsState'
  BY DEF Inv, MoveSeed, RestoreKeepsState, Restoring, New, Missing, Branch
<1>. QED BY <1>1, <1>2, <1>3 DEF Inv, MoveSeed, SeedType, Stages

LEMMA AdvanceInv ==
    ASSUME Inv, Advance
    PROVE  Inv'
<1>. USE DEF Inv
<1>1. cp \in Resource /\ worker \in Resource /\ wanted \in WSpecs /\ shoot \in Shoots /\ stage \in Stages
  BY DEF CPTypeOK, WInv, WTypeOK, WSpecs, SeedType
<1>2. CASE DeployWorker
  <2>1. worker' \in Resource
    <3>1. New("reconcile") \in Resource
      BY NewType DEF Annotations
    <3>2. [worker EXCEPT !.annotation = "reconcile", !.observed = worker.observed /\ wanted.pools = shoot.pools]
              \in Resource
      BY <1>1 DEF Resource, Annotations
    <3>. QED BY <1>2, <3>1, <3>2 DEF DeployWorker
  <2>2. wanted' \in WSpecs
    BY <1>1, <1>2, ShootsType DEF DeployWorker, WSpecs
  <2>3. WInv'
    BY <1>2, <2>1, <2>2, WKept DEF DeployWorker, WElse
  <2>4. worker.exists => worker'.exists /\ worker'.type = worker.type /\ worker'.state = worker.state
    BY <1>1, <1>2 DEF DeployWorker, Resource
  <2>5. ~worker.exists => wRun.pc = "idle"
    BY DEF RestoreKeepsState
  <2>6. RestoreKeepsState'
    BY <1>2, <2>4, <2>5 DEF DeployWorker, WElse, RestoreKeepsState, Restoring
  <2>7. CPTypeOK' /\ CPBusy'
    BY <1>2, CPUnchangedType DEF DeployWorker, CPBusy, cpVars
  <2>. QED BY <1>1, <1>2, <2>3, <2>6, <2>7 DEF DeployWorker, SeedType, Stages
<1>3. CASE RepeatRequest \/ RestoreWorker
  <2>1. worker' \in Resource /\ wanted' \in WSpecs
    BY <1>1, <1>3, AnnotationType DEF RepeatRequest, RestoreWorker, Annotations
  <2>2. WInv'
    BY <1>3, <2>1, WKept DEF RepeatRequest, RestoreWorker, WElse
  <2>3. worker'.exists = worker.exists /\ worker'.type = worker.type /\ worker'.state = worker.state
    BY <1>1, <1>3 DEF RepeatRequest, RestoreWorker, Resource
  <2>4. RestoreKeepsState'
    BY <1>3, <2>3 DEF RepeatRequest, RestoreWorker, WElse, RestoreKeepsState, Restoring
  <2>5. CPTypeOK' /\ CPBusy'
    BY <1>3, CPUnchangedType DEF RepeatRequest, RestoreWorker, CPBusy, cpVars
  <2>. QED BY <1>1, <1>3, <2>2, <2>4, <2>5 DEF RepeatRequest, RestoreWorker, SeedType, Stages
<1>4. CASE Finish \/ FinishDeletion
  <2>1. WInv' /\ CPTypeOK' /\ CPBusy'
    BY <1>4, CPUnchangedType, WUnchangedInv DEF Finish, FinishDeletion, CPBusy, cpVars
  <2>2. RestoreKeepsState'
    BY <1>4 DEF Finish, FinishDeletion, wVars, wStatus, RestoreKeepsState, Restoring
  <2>. QED BY <1>4, <2>1, <2>2 DEF Finish, FinishDeletion, SeedType, Stages
<1>5. CASE MigrateControlPlane \/ DeleteControlPlane
  <2>1. cp' \in Resource
    <3>1. CASE MigrateControlPlane
      BY <1>1, <3>1, AnnotationType DEF MigrateControlPlane, Annotations
    <3>2. CASE DeleteControlPlane
      BY <1>1, <3>2 DEF DeleteControlPlane, Resource
    <3>. QED BY <1>5, <3>1, <3>2
  <2>2. CPTypeOK' /\ CPBusy'
    BY <1>5, <2>1, CPKept DEF MigrateControlPlane, DeleteControlPlane, CPElse, CPTypeOK
  <2>3. WInv'
    BY <1>5, WUnchangedInv DEF MigrateControlPlane, DeleteControlPlane
  <2>4. RestoreKeepsState'
    <3>1. CASE MigrateControlPlane
      BY <3>1 DEF MigrateControlPlane, wVars, wStatus, RestoreKeepsState, Restoring, Branch, WAt
    <3>2. CASE DeleteControlPlane
      BY <3>2 DEF DeleteControlPlane, wVars, wStatus, RestoreKeepsState, Restoring
    <3>. QED BY <1>5, <3>1, <3>2
  <2>. QED BY <1>5, <2>2, <2>3, <2>4 DEF MigrateControlPlane, DeleteControlPlane, SeedType, Stages
<1>6. CASE MoveSeed
  BY <1>6, MoveSeedInv
<1>. QED BY <1>2, <1>3, <1>4, <1>5, <1>6 DEF Advance

LEMMA CrashInv == Inv /\ Crash => Inv'
<1>. SUFFICES ASSUME Inv, Crash PROVE Inv'
  OBVIOUS
<1>. USE DEF Inv
<1>1. cp \in Resource /\ worker \in Resource
  BY DEF CPTypeOK, WInv, WTypeOK
<1>2. cp' \in Resource /\ worker' \in Resource /\ worker'.exists = worker.exists
      /\ Branch(worker') = Branch(worker)
  BY <1>1 DEF Crash, Resource, Branch, OperationType, IsMigrated
<1>3. CPTypeOK' /\ CPBusy'
  BY <1>2, CPIdleType DEF Crash, CPTypeOK, CPBusy, CPRuns, CPIdle
<1>4. WInv'
  <2>1. WTypeOK'
    BY <1>2, WIdleType, WStoredInv DEF Crash, WInv, WStored
  <2>. QED BY <2>1, WIdleType, IdleInv DEF Crash, WInv
<1>5. RestoreKeepsState'
  BY <1>2, WIdleType DEF Crash, RestoreKeepsState, Restoring
<1>6. SeedType'
  BY SpendType DEF Crash, SeedType
<1>. QED BY <1>3, <1>4, <1>5, <1>6

\* The controllers and their environment leave the shoot and the stage alone.
LEMMA InvNext == Inv /\ [Next]_vars => Inv'
<1>. SUFFICES ASSUME Inv, [Next]_vars PROVE Inv'
  OBVIOUS
<1>. USE DEF Inv
<1>1. CPTypeOK /\ CPBusy /\ UNCHANGED cpVars => CPTypeOK' /\ CPBusy'
  BY CPUnchangedType DEF CPBusy, cpVars
<1>2. UNCHANGED <<wVars, stage>> => WInv' /\ RestoreKeepsState'
  BY WUnchangedInv DEF wVars, wStatus, RestoreKeepsState, Restoring
<1>3. SeedType /\ UNCHANGED <<shoot, stage, left>> => SeedType'
  BY DEF SeedType
<1>4. ASSUME NEW what \in {"requests", "faults", "events"}, Spend(what), UNCHANGED <<shoot, stage>> PROVE SeedType'
  BY <1>4, SpendType DEF SeedType
<1>5. UNCHANGED <<worker, wRun, stage>> => RestoreKeepsState'
  BY DEF RestoreKeepsState, Restoring
<1>6. CASE CPStep
  <2>1. CPTypeOK' /\ CPBusy'
    BY <1>6, CPControllerType, CPBusyKept DEF CPStep
  <2>. QED BY <1>2, <1>3, <1>6, <2>1 DEF CPStep, Keeps
<1>7. CASE WStep
  <2>1. WInv' /\ RestoreKeepsState'
    BY <1>7, WControllerInv, SyncStateInv, RestoreWorkerKept DEF WStep, Keeps
  <2>. QED BY <1>1, <1>3, <1>7, <2>1 DEF WStep, Keeps
<1>8. CASE CallFails
  <2>1. SeedType'
    BY <1>4, <1>8 DEF CallFails
  <2>2. CASE CPFails /\ UNCHANGED wVars
    BY <1>2, <1>8, <2>1, <2>2, CPControllerType, CPBusyKept DEF CallFails
  <2>3. CASE WFails /\ UNCHANGED cpVars
    BY <1>1, <1>8, <2>1, <2>3, WControllerInv, RestoreWorkerKept DEF CallFails
  <2>. QED BY <1>8, <2>2, <2>3 DEF CallFails
<1>9. CASE Remedy \/ ResourceManager
  <2>1. CPTypeOK'
    BY <1>9, CPEnvironmentType DEF Remedy, ResourceManager
  <2>2. CPBusy'
    BY <1>9 DEF Remedy, ResourceManager, RemedyReleases, ManagedResourceGoes, CPBusy
  <2>. QED BY <1>2, <1>3, <1>9, <2>1, <2>2 DEF Remedy, ResourceManager, Keeps
<1>10. CASE Machines
  <2>1. WInv'
    BY <1>10, MCMInv DEF Machines
  <2>2. UNCHANGED <<worker, wRun, stage>>
    BY <1>10 DEF Machines, Keeps, MCM, MCMEnds, CreateSet, FinalizeDeployment, CreateMachine, CreateVM, RemoveMachine,
                 FinalizeClass, MCMWorks, wStatus
  <2>. QED BY <1>1, <1>3, <1>5, <1>10, <2>1, <2>2 DEF Machines, Keeps
<1>11. CASE Events
  <2>1. SeedType'
    BY <1>4, <1>11 DEF Events
  <2>2. CASE /\ (\E r \in RemedyResources : RemedyCreates(r)) \/ (\E ip \in PublicIPs : RemedyTouches(ip))
             /\ UNCHANGED wVars
    <3>1. CPTypeOK'
      BY <2>2, CPEnvironmentType
    <3>2. CPBusy'
      BY <2>2 DEF RemedyCreates, RemedyTouches, CPBusy, CPTypeOK
    <3>. QED BY <1>2, <1>11, <2>1, <2>2, <3>1, <3>2 DEF Events
  <2>3. ASSUME NEW d \in Deployments, Scale(d), UNCHANGED cpVars PROVE Inv'
    <3>1. WInv'
      BY <2>3, ScaleInv
    <3>2. UNCHANGED <<worker, wRun, stage>>
      BY <1>11, <2>3 DEF Events, Scale, wStatus
    <3>. QED BY <1>1, <1>5, <2>1, <2>3, <3>1, <3>2
  <2>. QED BY <1>11, <2>2, <2>3 DEF Events
<1>12. CASE Advance \/ Request \/ Crash
  BY <1>12, AdvanceInv, RequestInv, CrashInv
<1>13. CASE UNCHANGED vars
  BY <1>1, <1>2, <1>3, <1>13 DEF vars
<1>. QED BY <1>6, <1>7, <1>8, <1>9, <1>10, <1>11, <1>12, <1>13 DEF Next

\* Every variable of the seed keeps its type: the calls each controller makes
\* are those of its branch, and what a loop still has to visit was in the spec
\* and, while a worker is restored, in the saved state.
THEOREM TypeCorrect == Spec => []TypeOK
<1>1. Inv => TypeOK
  BY DEF Inv, WInv, SeedType, TypeOK
<1>. QED BY <1>1, InvInit, InvNext, PTL DEF Spec
=============================================================================
