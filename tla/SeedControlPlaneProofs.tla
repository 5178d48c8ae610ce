---------------------- MODULE SeedControlPlaneProofs ----------------------
(***************************************************************************)
(* Proofs about the control plane controller in its seed: where it may be, *)
(* and what it leaves in the seed and in the shoot.                        *)
(***************************************************************************)
EXTENDS SeedControllersProofs

\* Where the gardenlet is with the control plane, and what its controller may
\* be at: a control plane that leaves the seed is migrated, one that is being
\* deleted has no nodes and services left.
Leaving == cp.annotation = "migrate" \/ cp.type = "migrate"
Gone    == cp.deleting \/ ~cp.exists
CPStages ==
    /\ Leaving => stage = "migrateControlPlane"
    /\ Gone => stage \in {"deleteControlPlane", "deleted"}
    /\ stage \in {"deleteControlPlane", "deleted"} => ~serving
    /\ cp.type = "migrate" => cp.annotation = "migrate" \/ IsMigrated(cp)

Deploying == cpRun.job \in {"reconcile", "restore"}
Removing  == cpRun.job \in {"migrate", "delete"}
ControlShoots == [version : 0..2, remedy : BOOLEAN, acr : BOOLEAN]
CPBusyWith ==
    LET busy == cpRun.pc # "idle"
    IN  /\ busy => cpRun.job # "none" /\ cp.exists /\ cpRun.shoot \in ControlShoots
        /\ busy /\ cpRun.job = "reconcile" => cpRun.type # "migrate"
        /\ busy /\ cpRun.job # "reconcile" => cpRun.type = cpRun.job
        /\ busy /\ cpRun.job = "migrate" => cp.annotation = "migrate" /\ ~cp.deleting
        /\ busy /\ cpRun.job = "delete" => cp.deleting

Working == (DeploySteps \cup DeleteSteps \cup {"success"}) \ {"finalizer"}
CPPlaces ==
    /\ cpRun.pc \in DeploySteps => Deploying
    /\ cpRun.pc \in DeleteSteps \cup {"release"} => Removing
    /\ cpRun.pc = "unannotate" => cpRun.job \in {"restore", "migrate"}
    /\ cpRun.pc \in {"finalizer", "processing"} => ~IsMigrated(cp)
    /\ cpRun.pc \in Working => cp.type = cpRun.type /\ cp.state = "processing"
    /\ cpRun.pc \in {"release", "unannotate"} => cp.type = cpRun.type /\ cp.state = "succeeded"

CPControl == CPStages /\ CPBusyWith /\ CPPlaces

\* What has been listed is annotated before anything is deleted.
AddressesKept ==
    /\ ListedAddressesAreKept
    /\ \A ip \in PublicIPs :
          remedies[ip] # Nil =>
              /\ cpRun.pc = "annotate" => ip \in cpRun.todo \/ remedies[ip].annotated \/ remedies[ip].late
              /\ cpRun.pc = "deleteIPs" => remedies[ip].annotated \/ remedies[ip].late

-----------------------------------------------------------------------------
(* The control of the controller *)

LEMMA CPControlInit == Init => CPControl
  BY DEF Init, CPControl, CPStages, CPBusyWith, CPPlaces, Leaving, Gone, CPIdle, New, Missing, DeploySteps, DeleteSteps,
         Working, IsMigrated

CPUnreported == CPDispatch \/ CPEnsureFinalizer \/ CPMarkProcessing \/ CPMarkSucceeded \/ CPRelease \/ CPUnannotate

\* A step of the actuator goes on in its branch, or it ends the run.
CPGoesOn ==
    /\ UNCHANGED <<cp, serving>>
    /\ cpRun'.job = cpRun.job /\ cpRun'.type = cpRun.type /\ cpRun'.shoot = cpRun.shoot
    /\ \/ cpRun.pc \in DeploySteps /\ cpRun'.pc \in DeploySteps \cup {"success"}
       \/ cpRun.pc \in DeleteSteps /\ cpRun'.pc \in DeleteSteps \cup {"success"}
    /\ cpRun'.pc # "finalizer" /\ cpRun.pc # "finalizer"
CPEnds ==
    /\ cpRun' = CPIdle /\ cp' \in IF CPAt("idle") THEN Refusals(cp) ELSE Failures(cp, cpRun.pc)
    /\ UNCHANGED <<cpShoot, objects, managed, remedies, serving>>

\* What an end of a run does to the resource.
LEMMA CPEndsResource ==
    ASSUME CPTypeOK, CPEnds
    PROVE  /\ cp'.exists = cp.exists /\ cp'.type = cp.type /\ cp'.deleting = cp.deleting
           /\ cp'.annotation = cp.annotation \/ (cp.annotation = "reconcile" /\ cp'.annotation = "none")
           /\ cp'.state = cp.state \/ (cp'.state = "error" /\ cpRun.pc \in CPSteps \ (OwnCalls \cup {"idle"}))
<1>1. cp \in Resource /\ cpRun.pc \in CPSteps
  BY DEF CPTypeOK
<1>2. CASE CPAt("idle")
  BY <1>1, <1>2 DEF CPEnds, Refusals, Taken, Resource
<1>3. CASE ~CPAt("idle")
  BY <1>1, <1>3 DEF CPEnds, Failures, Failed, Resource, CPAt
<1>. QED BY <1>2, <1>3

LEMMA CPFailures == CPFails \/ CPTimesOut => CPEnds
<1>1. CASE CPFails
  BY <1>1 DEF CPFails, CPEnds, CPStored
<1>2. CASE CPTimesOut
  <2>1. cpRun.pc \in {"awaitIPs", "awaitVMs"} /\ cp' = Failed(cp)
    BY <1>2 DEF CPTimesOut, CPAt
  <2>2. cp' \in Failures(cp, cpRun.pc)
    BY <2>1 DEF Failures, OwnCalls
  <2>. QED BY <1>2, <2>1, <2>2 DEF CPTimesOut, CPEnds, CPStored, CPAt
<1>. QED BY <1>1, <1>2

LEMMA CPActuates ==
    ASSUME CPTypeOK, Deploys \/ CPActuatorDeletes
    PROVE  CPEnds \/ CPGoesOn
<1>2. CASE Deploys
  BY <1>2 DEF Deploys, DeploySecrets, ApplyConfigChart, ApplyControlPlaneChart, ApplyShootChart, ApplyStorageClasses,
              Apply, CreateManagedResource, CPWorks, CPGoesOn, CPGoto, CPAt, CPTypeOK, DeploySteps
<1>3. CASE \E ip \in PublicIPs : AnnotatePublicIP(ip)
  <2>1. PICK ip \in PublicIPs : AnnotatePublicIP(ip)
    BY <1>3
  <2>2. CASE remedies[ip] = Nil \/ ip \in cpRun.stale
    BY <2>1, <2>2 DEF AnnotatePublicIP, CPEnds, CPAt, Failures, OwnCalls
  <2>3. CASE ~(remedies[ip] = Nil \/ ip \in cpRun.stale)
    BY <2>1, <2>3 DEF AnnotatePublicIP, CPDeletes, CPWorks, CPGoesOn, CPAt, CPTypeOK, DeleteSteps
  <2>. QED BY <2>2, <2>3
<1>4. CASE ListPublicIPs \/ AllAnnotated
  BY <1>4 DEF ListPublicIPs, AllAnnotated, CPDeletes, CPWorks, CPGoesOn, CPAt, CPTypeOK, DeleteSteps
<1>5. CASE DeletePublicIPs \/ DeleteVirtualMachines \/ AwaitPublicIPs \/ AwaitVirtualMachines \/ AwaitManagedResources
  BY <1>5 DEF DeletePublicIPs, DeleteVirtualMachines, AwaitPublicIPs, AwaitVirtualMachines, AwaitDeleted,
              AwaitManagedResources, CPDeletes, CPWorks, CPGoesOn, CPGoto, CPAt, CPTypeOK, DeleteSteps
<1>6. CASE DeleteStorageClasses \/ DeleteShootChart
  BY <1>6 DEF DeleteStorageClasses, DeleteShootChart, DeleteManagedResource, CPWorks, CPGoesOn, CPGoto, CPAt, CPTypeOK,
              DeleteSteps
<1>7. CASE DeleteControlPlaneChart \/ DeleteConfigChart \/ DeleteSecrets
  BY <1>7 DEF DeleteControlPlaneChart, DeleteConfigChart, DeleteSecrets, Apply, CPWorks, CPGoesOn, CPGoto, CPAt,
              CPTypeOK, DeleteSteps
<1>. QED BY <1>2, <1>3, <1>4, <1>5, <1>6, <1>7 DEF CPActuatorDeletes

LEMMA CPGoesOnControl == CPControl /\ CPGoesOn /\ UNCHANGED stage => CPControl'
<1>. SUFFICES ASSUME CPControl, CPGoesOn, UNCHANGED stage PROVE CPControl'
  OBVIOUS
<1>. USE DEF CPControl, CPGoesOn
<1>1. CPStages'
  BY DEF CPStages, Leaving, Gone
<1>2. CPBusyWith'
  BY DEF CPBusyWith, DeploySteps, DeleteSteps
<1>3. CPPlaces'
  BY DEF CPPlaces, DeploySteps, DeleteSteps, Working, Deploying, Removing
<1>. QED BY <1>1, <1>2, <1>3

LEMMA CPEndsControl == CPTypeOK /\ CPControl /\ CPEnds /\ UNCHANGED stage => CPControl'
<1>. SUFFICES ASSUME CPTypeOK, CPControl, CPEnds, UNCHANGED stage PROVE CPControl'
  OBVIOUS
<1>. USE DEF CPControl, CPEnds
<1>1. CPBusyWith' /\ CPPlaces'
  BY DEF CPBusyWith, CPPlaces, CPIdle, DeploySteps, DeleteSteps, Working
<1>2. IsMigrated(cp) => IsMigrated(cp')
  <2>1. CASE cpRun.pc \in CPSteps \ (OwnCalls \cup {"idle"})
    <3>1. cpRun.pc \in Working
      BY <2>1 DEF CPSteps, OwnCalls, Working, DeploySteps, DeleteSteps
    <3>. QED BY <3>1 DEF CPPlaces, IsMigrated
  <2>. QED BY <2>1, CPEndsResource DEF IsMigrated
<1>3. CPStages'
  BY <1>2, CPEndsResource DEF CPStages, Leaving, Gone
<1>. QED BY <1>1, <1>3

LEMMA CPReconcilerControl ==
    ASSUME CPTypeOK, CPControl, CPUnreported, UNCHANGED stage
    PROVE  CPControl'
<1>. USE DEF CPControl
<1>1. cp \in Resource /\ cpRun \in CPRuns /\ UNCHANGED serving
  BY DEF CPTypeOK, CPRuns, CPUnreported, CPDispatch, CPEnsureFinalizer, CPMarkProcessing, CPMarkSucceeded, CPRelease,
         CPUnannotate, CPStored
<1>2. CASE CPDispatch
  <2>1. /\ cp'.exists = cp.exists /\ cp'.type = cp.type /\ cp'.state = cp.state /\ cp'.deleting = cp.deleting
        /\ cp'.annotation = (IF cp.annotation = "reconcile" THEN "none" ELSE cp.annotation)
    BY <1>1, <1>2 DEF CPDispatch, Taken, Resource
  <2>2. CPStages'
    BY <1>1, <2>1 DEF CPStages, Leaving, Gone, IsMigrated
  <2>3. cp.exists /\ ~IsMigrated(cp) /\ Branch(cp) \in {"migrate", "delete", "restore", "reconcile"}
    BY <1>2 DEF CPDispatch, Due, Branch
  <2>4. /\ cpRun'.pc \in {"finalizer", "processing"} /\ cpRun'.job = Branch(cp) /\ cpRun'.type = OperationOf(cp) /\ cpRun'.shoot \in ControlShoots
        /\ cpRun'.pc = "finalizer" => Branch(cp) \in {"reconcile", "restore"}
    BY <1>2, <2>3 DEF CPDispatch, CPIdle, CPTypeOK, ControlShoots
  <2>5. Branch(cp) = "migrate" => cp.annotation = "migrate"
    BY <2>3 DEF Branch, OperationType, CPStages
  <2>6. Branch(cp) = "migrate" => ~cp.deleting
    BY <2>5 DEF CPStages, Leaving, Gone
  <2>7. Branch(cp) = "delete" => cp.deleting
    BY DEF Branch
  <2>8. Branch(cp) = "reconcile" => OperationType(cp) # "migrate"
    BY DEF Branch
  <2>9. CPBusyWith'
    BY <2>1, <2>3, <2>4, <2>5, <2>6, <2>7, <2>8 DEF CPBusyWith, OperationOf
  <2>10. CPPlaces'
    BY <2>1, <2>3, <2>4 DEF CPPlaces, Deploying, Removing, DeploySteps, DeleteSteps, Working, IsMigrated
  <2>. QED BY <2>2, <2>9, <2>10
<1>3. CASE CPEnsureFinalizer
  <2>1. /\ cp'.exists = cp.exists /\ cp'.type = cp.type /\ cp'.state = cp.state /\ cp'.deleting = cp.deleting
        /\ cp'.annotation = cp.annotation
    BY <1>1, <1>3 DEF CPEnsureFinalizer, Resource
  <2>2. cpRun'.pc = "processing" /\ cpRun'.job = cpRun.job /\ cpRun'.type = cpRun.type /\ cpRun'.shoot = cpRun.shoot /\ cpRun.pc = "finalizer"
    BY <1>1, <1>3 DEF CPEnsureFinalizer, CPGoto, CPRuns, CPAt
  <2>3. CPStages'
    BY <1>1, <2>1 DEF CPStages, Leaving, Gone, IsMigrated
  <2>4. CPBusyWith'
    BY <2>1, <2>2 DEF CPBusyWith
  <2>5. CPPlaces'
    BY <2>1, <2>2 DEF CPPlaces, Deploying, Removing, DeploySteps, DeleteSteps, Working, IsMigrated
  <2>. QED BY <2>3, <2>4, <2>5
<1>4. CASE CPMarkProcessing
  <2>1. /\ cp'.exists = cp.exists /\ cp'.type = cpRun.type /\ cp'.state = "processing" /\ cp'.deleting = cp.deleting
        /\ cp'.annotation = cp.annotation
    BY <1>1, <1>4 DEF CPMarkProcessing, Processing, Resource
  <2>2. /\ cpRun'.pc = (IF cpRun.job \in {"delete", "migrate"} THEN "list" ELSE "secrets")
        /\ cpRun'.job = cpRun.job /\ cpRun'.type = cpRun.type /\ cpRun'.shoot = cpRun.shoot /\ cpRun.pc = "processing"
    BY <1>1, <1>4 DEF CPMarkProcessing, CPGoto, CPRuns, CPAt
  <2>3. cpRun.type = "migrate" => cpRun.job = "migrate"
    BY <1>1, <2>2 DEF CPBusyWith, CPRuns
  <2>4. CPStages'
    BY <1>1, <2>1, <2>2, <2>3 DEF CPStages, Leaving, Gone, CPBusyWith
  <2>5. CPBusyWith'
    BY <2>1, <2>2 DEF CPBusyWith
  <2>6. CPPlaces'
    BY <1>1, <2>1, <2>2 DEF CPPlaces, CPBusyWith, CPRuns, Deploying, Removing, DeploySteps, DeleteSteps, Working
  <2>. QED BY <2>4, <2>5, <2>6
<1>5. CASE CPMarkSucceeded
  <2>1. /\ cp'.exists = cp.exists /\ cp'.type = cp.type /\ cp'.state = "succeeded" /\ cp'.deleting = cp.deleting
        /\ cp'.annotation = cp.annotation
    BY <1>1, <1>5 DEF CPMarkSucceeded, Succeeded, Resource
  <2>2. CPStages'
    BY <1>1, <2>1 DEF CPStages, Leaving, Gone, IsMigrated
  <2>3. cpRun.pc = "success" /\ cp.type = cpRun.type /\ cpRun.job \in {"reconcile", "restore", "delete", "migrate"}
    BY <1>1, <1>5 DEF CPMarkSucceeded, CPAt, CPPlaces, Working, CPBusyWith, CPRuns
  <2>4. CASE cpRun.job = "reconcile"
    BY <1>5, <2>2, <2>4 DEF CPMarkSucceeded, CPBusyWith, CPPlaces, CPIdle, DeploySteps, DeleteSteps, Working
  <2>5. CASE cpRun.job # "reconcile"
    <3>1. /\ cpRun'.pc = (IF cpRun.job = "restore" THEN "unannotate" ELSE "release")
          /\ cpRun'.job = cpRun.job /\ cpRun'.type = cpRun.type /\ cpRun'.shoot = cpRun.shoot
      BY <1>1, <1>5, <2>3, <2>5 DEF CPMarkSucceeded, CPGoto, CPRuns
    <3>2. CPBusyWith'
      BY <2>1, <2>3, <3>1 DEF CPBusyWith
    <3>4. CPPlaces'
      BY <2>1, <2>3, <2>5, <3>1 DEF CPPlaces, Deploying, Removing, DeploySteps, DeleteSteps, Working
    <3>. QED BY <2>2, <3>2, <3>4
  <2>. QED BY <2>4, <2>5
<1>6. CASE CPRelease
  <2>0. cpRun.pc = "release" /\ cpRun.job \in {"migrate", "delete"}
    BY <1>6 DEF CPRelease, CPAt, CPPlaces, Removing
  <2>1. CASE cpRun.job = "migrate"
    <3>1. ~cp.deleting /\ IsMigrated(cp) /\ cp.annotation = "migrate"
      BY <2>0, <2>1 DEF CPBusyWith, CPPlaces, IsMigrated
    <3>2. /\ cp'.exists = cp.exists /\ cp'.type = cp.type /\ cp'.state = cp.state /\ cp'.deleting = cp.deleting
          /\ cp'.annotation = cp.annotation
      BY <1>1, <1>6, <3>1 DEF CPRelease, Released, Resource
    <3>3. cpRun'.pc = "unannotate" /\ cpRun'.job = cpRun.job /\ cpRun'.type = cpRun.type /\ cpRun'.shoot = cpRun.shoot
      BY <1>1, <1>6, <2>1, <3>1 DEF CPRelease, CPGoto, CPRuns
    <3>4. CPStages'
      BY <1>1, <3>2 DEF CPStages, Leaving, Gone, IsMigrated
    <3>5. CPBusyWith'
      BY <2>0, <3>2, <3>3 DEF CPBusyWith
    <3>6. CPPlaces'
      BY <2>0, <2>1, <3>2, <3>3 DEF CPPlaces, DeploySteps, DeleteSteps, Working
    <3>. QED BY <3>4, <3>5, <3>6
  <2>2. CASE cpRun.job = "delete"
    <3>1. cp.deleting
      BY <2>0, <2>2 DEF CPBusyWith
    <3>2. cp' = Missing /\ cpRun' = CPIdle
      BY <1>6, <2>2, <3>1 DEF CPRelease, Released
    <3>3. CPStages'
      BY <1>1, <3>1, <3>2 DEF CPStages, Leaving, Gone, Missing
    <3>. QED BY <3>2, <3>3 DEF CPBusyWith, CPPlaces, CPIdle, DeploySteps, DeleteSteps, Working
  <2>. QED BY <2>0, <2>1, <2>2
<1>7. CASE CPUnannotate
  <2>0. cpRun.pc = "unannotate" /\ cpRun.job \in {"restore", "migrate"}
    BY <1>7 DEF CPUnannotate, CPAt, CPPlaces
  <2>1. /\ cp'.exists = cp.exists /\ cp'.type = cp.type /\ cp'.state = cp.state /\ cp'.deleting = cp.deleting
        /\ cp'.annotation = "none"
    BY <1>1, <1>7 DEF CPUnannotate, Resource
  <2>2. cpRun' = CPIdle
    BY <1>7 DEF CPUnannotate
  <2>3. CASE cpRun.job = "migrate"
    BY <1>1, <2>0, <2>1, <2>2, <2>3
       DEF CPStages, CPBusyWith, CPPlaces, Leaving, Gone, CPIdle, IsMigrated, DeploySteps, DeleteSteps, Working
  <2>4. CASE cpRun.job = "restore"
    <3>1. cp.type = "restore"
      BY <2>0, <2>4 DEF CPBusyWith, CPPlaces
    <3>. QED BY <1>1, <2>0, <2>1, <2>2, <2>4, <3>1
       DEF CPStages, CPBusyWith, CPPlaces, Leaving, Gone, CPIdle, IsMigrated, DeploySteps, DeleteSteps, Working
  <2>. QED BY <2>0, <2>3, <2>4
<1>. QED BY <1>2, <1>3, <1>4, <1>5, <1>6, <1>7 DEF CPUnreported

LEMMA CPKinds ==
    CPTypeOK /\ (CPController \/ CPFails)
        => CPUnreported \/ CPEnds \/ (CPGoesOn /\ (Deploys \/ CPActuatorDeletes))
  BY CPActuates, CPFailures DEF CPController, CPUnreported, Deploys, CPActuatorDeletes

\* What everything but the control plane controller leaves as it is.
SameControl ==
    /\ UNCHANGED <<cp, serving>>
    /\ cpRun'.pc = cpRun.pc /\ cpRun'.job = cpRun.job /\ cpRun'.type = cpRun.type /\ cpRun'.shoot = cpRun.shoot

LEMMA SameControlKept == CPControl /\ SameControl /\ UNCHANGED stage => CPControl'
  BY DEF CPControl, SameControl, CPStages, CPBusyWith, CPPlaces, Leaving, Gone, IsMigrated, Deploying, Removing

LEMMA AdvanceControl ==
    ASSUME Inv, CPControl, Advance \/ RequestMigrate \/ RequestDelete
    PROVE  CPControl'
<1>. USE DEF CPControl
<1>1. cp \in Resource
  BY DEF Inv, CPTypeOK
<1>2. CASE MigrateControlPlane
  <2>1. /\ cp'.exists = cp.exists /\ cp'.type = cp.type /\ cp'.state = cp.state /\ cp'.deleting = cp.deleting
        /\ cp'.annotation = "migrate" /\ stage = "migrateWorker" /\ stage' = "migrateControlPlane"
        /\ UNCHANGED <<cpRun, serving>>
    BY <1>1, <1>2 DEF MigrateControlPlane, CPElse, Resource
  <2>2. CPStages'
    BY <2>1 DEF CPStages, Leaving, Gone, IsMigrated
  <2>3. CPBusyWith'
    BY <2>1 DEF CPBusyWith, CPStages, Leaving
  <2>4. CPPlaces'
    BY <2>1 DEF CPPlaces, IsMigrated, Deploying, Removing
  <2>. QED BY <2>2, <2>3, <2>4
<1>3. CASE DeleteControlPlane
  <2>1. /\ cp'.exists = cp.exists /\ cp'.type = cp.type /\ cp'.state = cp.state /\ cp'.deleting = TRUE
        /\ cp'.annotation = cp.annotation /\ stage = "deleteWorker" /\ stage' = "deleteControlPlane"
        /\ cpRun' = cpRun /\ serving' = FALSE
    BY <1>1, <1>3 DEF DeleteControlPlane, CPElse, Resource
  <2>2. CPStages'
    BY <2>1 DEF CPStages, Leaving, Gone, IsMigrated
  <2>3. CPBusyWith'
    BY <2>1 DEF CPBusyWith, CPStages, Leaving
  <2>4. CPPlaces'
    BY <2>1 DEF CPPlaces, IsMigrated, Deploying, Removing
  <2>. QED BY <2>2, <2>3, <2>4
<1>4. CASE MoveSeed
  <2>1. cp' = New("restore") /\ cpRun' = cpRun /\ cpRun.pc = "idle" /\ stage' = "restoreControlPlane"
    BY <1>4 DEF MoveSeed, CPAt
  <2>. QED BY <2>1 DEF CPStages, CPBusyWith, CPPlaces, Leaving, Gone, New, Missing, DeploySteps, DeleteSteps, Working
<1>5. CASE FinishDeletion
  BY <1>5 DEF FinishDeletion, cpVars, CPStages, CPBusyWith, CPPlaces, Leaving, Gone, IsMigrated, Deploying, Removing
<1>6. CASE DeployWorker \/ RepeatRequest \/ Finish \/ RestoreWorker \/ RequestMigrate \/ RequestDelete
  <2>1. UNCHANGED cpVars
    BY <1>6 DEF DeployWorker, RepeatRequest, Finish, RestoreWorker, RequestMigrate, RequestDelete
  <2>2. /\ stage \notin {"migrateControlPlane", "deleteControlPlane", "deleted"}
        /\ stage' \notin {"migrateControlPlane", "deleteControlPlane", "deleted"}
    BY <1>6 DEF DeployWorker, RepeatRequest, Finish, RestoreWorker, RequestMigrate, RequestDelete, MayTurn
  <2>. QED BY <2>1, <2>2 DEF cpVars, CPStages, CPBusyWith, CPPlaces, Leaving, Gone, IsMigrated, Deploying, Removing
<1>. QED BY <1>2, <1>3, <1>4, <1>5, <1>6 DEF Advance

LEMMA ChangeShootControl == Inv /\ CPControl /\ ChangeShoot => CPControl'
<1>. SUFFICES ASSUME Inv, CPControl, ChangeShoot PROVE CPControl'
  OBVIOUS
<1>. USE DEF CPControl
<1>1. cp \in Resource
  BY DEF Inv, CPTypeOK
<1>2. /\ cp'.exists = cp.exists /\ cp'.type = cp.type /\ cp'.state = cp.state /\ cp'.deleting = cp.deleting
      /\ cp'.annotation = "reconcile" /\ stage' = "controlPlane" /\ UNCHANGED <<cpRun, serving>>
      /\ stage \notin {"migrateControlPlane", "deleteControlPlane", "deleted"}
  BY <1>1 DEF ChangeShoot, MayTurn, CPElse, Resource
<1>3. CPStages'
  BY <1>2 DEF CPStages, Leaving, Gone, IsMigrated
<1>4. CPBusyWith'
  BY <1>2 DEF CPBusyWith, CPStages, Leaving
<1>5. CPPlaces'
  BY <1>2 DEF CPPlaces, IsMigrated, Deploying, Removing
<1>. QED BY <1>3, <1>4, <1>5

LEMMA CrashControl == Inv /\ CPControl /\ Crash => CPControl'
<1>. SUFFICES ASSUME Inv, CPControl, Crash PROVE CPControl'
  OBVIOUS
<1>. USE DEF CPControl
<1>1. cp \in Resource
  BY DEF Inv, CPTypeOK
<1>2. /\ cp'.exists = cp.exists /\ cp'.type = cp.type /\ cp'.state = cp.state /\ cp'.deleting = cp.deleting
      /\ cp'.annotation = cp.annotation /\ UNCHANGED <<serving, stage>> /\ cpRun' = CPIdle
  BY <1>1 DEF Crash, Resource
<1>. QED BY <1>2 DEF CPStages, CPBusyWith, CPPlaces, CPIdle, Leaving, Gone, IsMigrated, DeploySteps, DeleteSteps, Working

\* The steps of the others, by what they do to the control plane.
CPRest ==
    \/ UNCHANGED cpVars
    \/ \E r \in RemedyResources : RemedyCreates(r) \/ RemedyReleases(r)
    \/ \E ip \in PublicIPs : RemedyTouches(ip)
    \/ \E m \in ManagedResources : ManagedResourceGoes(m)

LEMMA CPRestSame == CPTypeOK /\ CPRest => SameControl
  BY DEF CPRest, SameControl, cpVars, RemedyCreates, RemedyReleases, RemedyTouches, ManagedResourceGoes, CPTypeOK

LEMMA NextKinds ==
    ASSUME Inv, [Next]_vars
    PROVE  \/ (CPController \/ CPFails) /\ UNCHANGED stage
           \/ CPRest /\ UNCHANGED stage
           \/ Advance \/ RequestMigrate \/ RequestDelete \/ ChangeShoot \/ Crash
<1>1. CASE CPStep \/ WStep \/ CallFails \/ Remedy \/ ResourceManager \/ Machines \/ Events
  BY <1>1 DEF CPStep, WStep, CallFails, Remedy, ResourceManager, Machines, Events, Keeps, CPRest
<1>2. CASE UNCHANGED vars
  BY <1>2 DEF vars, CPRest
<1>. QED BY <1>1, <1>2 DEF Next, Request

LEMMA CPControlNext == Inv /\ CPControl /\ [Next]_vars => CPControl'
<1>. SUFFICES ASSUME Inv, CPControl, [Next]_vars PROVE CPControl'
  OBVIOUS
<1>1. CPTypeOK
  BY DEF Inv
<1>2. CASE (CPController \/ CPFails) /\ UNCHANGED stage
  BY <1>1, <1>2, CPKinds, CPReconcilerControl, CPGoesOnControl, CPEndsControl
<1>3. CASE CPRest /\ UNCHANGED stage
  BY <1>1, <1>3, CPRestSame, SameControlKept
<1>4. CASE Advance \/ RequestMigrate \/ RequestDelete \/ ChangeShoot \/ Crash
  BY <1>4, AdvanceControl, ChangeShootControl, CrashControl
<1>. QED BY <1>2, <1>3, <1>4, NextKinds

-----------------------------------------------------------------------------
(* The addresses *)

LEMMA AddressesInit == Init => AddressesKept
  BY DEF Init, CPEmpty, AddressesKept, ListedAddressesAreKept, RemedyResources

LEMMA RemediesKept ==
    ASSUME AddressesKept, remedies' = remedies, cpRun'.pc \notin {"annotate", "deleteIPs"}
    PROVE  AddressesKept'
  BY DEF AddressesKept, ListedAddressesAreKept

LEMMA AddressesActuator ==
    ASSUME CPTypeOK, AddressesKept, CPActuatorDeletes, CPGoesOn
    PROVE  AddressesKept'
<1>. USE DEF AddressesKept, ListedAddressesAreKept, CPDeletes, CPWorks
<1>1. remedies \in Remedies /\ cpRun \in CPRuns /\ PublicIPs \subseteq RemedyResources
  BY DEF CPTypeOK, Remedies, CPRuns, RemedyResources
<1>2. CASE ListPublicIPs
  <2>1. remedies' = remedies /\ cpRun'.pc = "annotate" /\ cpRun'.todo = Existing(PublicIPs)
    BY <1>1, <1>2 DEF ListPublicIPs, CPRuns
  <2>. QED BY <2>1 DEF Existing
<1>3. CASE \E ip \in PublicIPs : AnnotatePublicIP(ip)
  <2>1. PICK ip \in PublicIPs : AnnotatePublicIP(ip)
    BY <1>3
  <2>2. ip \in cpRun.todo /\ cpRun.pc = "annotate"
    BY <2>1 DEF AnnotatePublicIP, CPAt
  <2>3. ~(remedies[ip] = Nil \/ ip \in cpRun.stale)
    BY <2>1, <2>2 DEF AnnotatePublicIP, CPGoesOn, CPIdle, DeleteSteps, DeploySteps
  <2>4. remedies' = [remedies EXCEPT ![ip].annotated = TRUE] /\ cpRun' = [cpRun EXCEPT !.todo = @ \ {ip}]
    BY <2>1, <2>3 DEF AnnotatePublicIP
  <2>5. remedies[ip] \in [annotated : BOOLEAN, deleting : BOOLEAN, late : BOOLEAN]
    BY <1>1, <2>3 DEF Remedies
  <2>6. remedies'[ip].annotated = TRUE
    BY <1>1, <2>4, <2>5 DEF Remedies
  <2>7. \A i \in PublicIPs : i # ip => remedies'[i] = remedies[i]
    BY <1>1, <2>4 DEF Remedies
  <2>8. cpRun'.pc = "annotate" /\ cpRun'.todo = cpRun.todo \ {ip}
    BY <1>1, <2>2, <2>4 DEF CPRuns
  <2>. QED BY <2>2, <2>6, <2>7, <2>8
<1>4. CASE AllAnnotated
  <2>1. cpRun.pc = "annotate" /\ cpRun.todo = {} /\ remedies' = remedies /\ cpRun'.pc = "deleteIPs"
    BY <1>1, <1>4 DEF AllAnnotated, CPAt, CPRuns
  <2>. QED BY <2>1
<1>5. CASE DeletePublicIPs
  <2>1. cpRun.pc = "deleteIPs" /\ cpRun'.pc = "deleteVMs" /\ DeleteAllOf(PublicIPs)
    BY <1>1, <1>5 DEF DeletePublicIPs, CPAt, CPGoto, CPRuns
  <2>2. ASSUME NEW ip \in PublicIPs, remedies'[ip] # Nil
        PROVE  remedies'[ip].annotated \/ remedies'[ip].late
    <3>1. CASE remedies[ip] = Nil
      BY <1>1, <2>1, <2>2, <3>1 DEF DeleteAllOf, Existing
    <3>2. CASE remedies[ip] # Nil
      <4>1. remedies[ip] \in [annotated : BOOLEAN, deleting : BOOLEAN, late : BOOLEAN]
        BY <1>1, <3>2 DEF Remedies
      <4>2. remedies'[ip] = [remedies[ip] EXCEPT !.deleting = TRUE]
        BY <1>1, <2>1, <3>2 DEF DeleteAllOf, Existing
      <4>. QED BY <2>1, <3>2, <4>1, <4>2
    <3>. QED BY <3>1, <3>2
  <2>. QED BY <2>1, <2>2
<1>6. CASE DeleteVirtualMachines
  <2>1. cpRun.pc = "deleteVMs" /\ cpRun'.pc = "awaitIPs" /\ DeleteAllOf(VirtualMachines)
    BY <1>1, <1>6 DEF DeleteVirtualMachines, CPAt, CPGoto, CPRuns
  <2>2. \A ip \in PublicIPs : remedies'[ip] = remedies[ip]
    BY <1>1, <2>1, RemedyAssumption DEF DeleteAllOf, Existing
  <2>. QED BY <2>1, <2>2
<1>7. CASE \/ AwaitPublicIPs \/ AwaitVirtualMachines \/ DeleteStorageClasses \/ DeleteShootChart
           \/ AwaitManagedResources \/ DeleteControlPlaneChart \/ DeleteConfigChart \/ DeleteSecrets
  <2>1. remedies' = remedies /\ cpRun'.pc \notin {"annotate", "deleteIPs"}
    BY <1>1, <1>7
       DEF AwaitPublicIPs, AwaitVirtualMachines, AwaitDeleted, DeleteStorageClasses, DeleteShootChart,
           DeleteManagedResource, AwaitManagedResources, DeleteControlPlaneChart, DeleteConfigChart, DeleteSecrets,
           Apply, CPGoto, CPRuns
  <2>. QED BY <2>1, RemediesKept
<1>. QED BY <1>2, <1>3, <1>4, <1>5, <1>6, <1>7 DEF CPActuatorDeletes

\* The controller's other steps, and the end of a run.
LEMMA CPStoredSteps ==
    ASSUME CPTypeOK, CPControl, CPUnreported \/ CPEnds
    PROVE  /\ UNCHANGED <<objects, managed, remedies, serving>>
           /\ cpRun'.pc \in {"idle", "finalizer", "processing", "list", "secrets", "release", "unannotate"}
           /\ cpRun'.pc = "release" => cpRun.pc = "success" /\ cpRun'.job = cpRun.job /\ cpRun.job \in {"delete", "migrate"}
<1>1. cpRun \in CPRuns
  BY DEF CPTypeOK, CPRuns
<1>2. CASE CPMarkSucceeded
  <2>1. cpRun.pc = "success" /\ cpRun.job \in {"reconcile", "restore", "delete", "migrate"}
    BY <1>1, <1>2 DEF CPMarkSucceeded, CPAt, CPControl, CPBusyWith, CPRuns
  <2>2. CASE cpRun.job = "reconcile"
    BY <1>2, <2>2 DEF CPMarkSucceeded, CPStored, CPIdle
  <2>3. CASE cpRun.job = "restore"
    BY <1>1, <1>2, <2>3 DEF CPMarkSucceeded, CPStored, CPGoto, CPRuns
  <2>4. CASE cpRun.job \in {"delete", "migrate"}
    BY <1>1, <1>2, <2>1, <2>4 DEF CPMarkSucceeded, CPStored, CPGoto, CPRuns
  <2>. QED BY <2>1, <2>2, <2>3, <2>4
<1>3. CASE CPEnds \/ CPUnannotate
  BY <1>3 DEF CPEnds, CPUnannotate, CPStored, CPIdle
<1>4. CASE CPDispatch \/ CPEnsureFinalizer \/ CPMarkProcessing
  BY <1>1, <1>4 DEF CPDispatch, CPEnsureFinalizer, CPMarkProcessing, CPStored, CPGoto, CPRuns, CPIdle
<1>5. CASE CPRelease
  BY <1>1, <1>5 DEF CPRelease, CPStored, CPGoto, CPRuns, CPIdle
<1>. QED BY <1>2, <1>3, <1>4, <1>5 DEF CPUnreported

LEMMA DeploysSteps ==
    ASSUME CPTypeOK, Deploys
    PROVE  /\ UNCHANGED <<cp, serving, remedies>>
           /\ cpRun.pc \in DeploySteps /\ cpRun'.pc \in {"config", "chart", "shootChart", "storageClasses", "success"}
           /\ cpRun'.job = cpRun.job /\ cpRun'.type = cpRun.type /\ cpRun'.shoot = cpRun.shoot
  BY DEF Deploys, DeploySecrets, ApplyConfigChart, ApplyControlPlaneChart, ApplyShootChart, ApplyStorageClasses, Apply,
         CreateManagedResource, CPWorks, CPGoto, CPAt, CPTypeOK, DeploySteps

LEMMA AddressesController ==
    ASSUME CPTypeOK, CPControl, AddressesKept, CPController \/ CPFails
    PROVE  AddressesKept'
<1>1. CASE CPUnreported \/ CPEnds
  BY <1>1, CPStoredSteps, RemediesKept
<1>2. CASE Deploys
  BY <1>2, DeploysSteps, RemediesKept
<1>3. CASE CPGoesOn /\ CPActuatorDeletes
  BY <1>3, AddressesActuator
<1>. QED BY <1>1, <1>2, <1>3, CPKinds

LEMMA AddressesRest ==
    ASSUME CPTypeOK, AddressesKept, CPRest
    PROVE  AddressesKept'
<1>. USE DEF AddressesKept, ListedAddressesAreKept
<1>1. remedies \in Remedies /\ cpRun \in CPRuns /\ PublicIPs \subseteq RemedyResources
  BY DEF CPTypeOK, Remedies, CPRuns, RemedyResources
<1>2. ASSUME NEW r \in RemedyResources, RemedyCreates(r)
      PROVE  AddressesKept'
  <2> DEFINE late == cpRun.pc \in {"annotate", "deleteIPs"}
  <2>0. remedies' = [remedies EXCEPT ![r] = [annotated |-> FALSE, deleting |-> FALSE, late |-> late]]
    BY <1>2 DEF RemedyCreates
  <2>1. remedies'[r] = [annotated |-> FALSE, deleting |-> FALSE, late |-> late]
    <3>. HIDE DEF late
    <3>. QED BY <1>1, <2>0 DEF Remedies
  <2>2. \A i \in PublicIPs : i # r => remedies'[i] = remedies[i]
    BY <1>1, <1>2 DEF RemedyCreates, Remedies
  <2>3. cpRun' = cpRun
    BY <1>2 DEF RemedyCreates
  <2>4. ~remedies'[r].deleting /\ remedies'[r].late = late
    BY <2>1
  <2>. QED BY <2>2, <2>3, <2>4
<1>3. ASSUME NEW r \in RemedyResources, RemedyReleases(r)
      PROVE  AddressesKept'
  <2>1. remedies'[r] = Nil /\ cpRun' = cpRun
    BY <1>1, <1>3 DEF RemedyReleases, Remedies
  <2>2. \A i \in PublicIPs : i # r => remedies'[i] = remedies[i]
    BY <1>1, <1>3 DEF RemedyReleases, Remedies
  <2>. QED BY <2>1, <2>2
<1>4. CASE \E ip \in PublicIPs : RemedyTouches(ip)
  <2>1. remedies' = remedies /\ cpRun'.pc = cpRun.pc /\ cpRun'.todo = cpRun.todo
    BY <1>1, <1>4 DEF RemedyTouches, CPRuns
  <2>. QED BY <2>1
<1>5. CASE UNCHANGED cpVars \/ \E m \in ManagedResources : ManagedResourceGoes(m)
  BY <1>5 DEF cpVars, ManagedResourceGoes
<1>. QED BY <1>2, <1>3, <1>4, <1>5 DEF CPRest

\* The requests of the gardenlet leave what is in the seed alone, but for the
\* move to another one.
LEMMA GardenletSteps ==
    ASSUME Advance \/ RequestMigrate \/ RequestDelete \/ ChangeShoot \/ Crash
    PROVE  \/ MoveSeed
           \/ UNCHANGED <<objects, managed, remedies>> /\ cpRun' \in {cpRun, CPIdle}
  BY DEF Advance, RequestMigrate, RequestDelete, ChangeShoot, Crash, DeployWorker, RepeatRequest, Finish,
         MigrateControlPlane, RestoreWorker, DeleteControlPlane, FinishDeletion, CPElse, cpVars

LEMMA AddressesNext == Inv /\ CPControl /\ AddressesKept /\ [Next]_vars => AddressesKept'
<1>. SUFFICES ASSUME Inv, CPControl, AddressesKept, [Next]_vars PROVE AddressesKept'
  OBVIOUS
<1>1. CPTypeOK
  BY DEF Inv
<1>2. CASE CPController \/ CPFails
  BY <1>1, <1>2, AddressesController
<1>3. CASE CPRest
  BY <1>1, <1>3, AddressesRest
<1>4. CASE MoveSeed
  BY <1>4 DEF MoveSeed, AddressesKept, ListedAddressesAreKept, RemedyResources
<1>5. CASE UNCHANGED <<objects, managed, remedies>> /\ cpRun' \in {cpRun, CPIdle}
  BY <1>5 DEF AddressesKept, ListedAddressesAreKept, CPIdle
<1>. QED BY <1>2, <1>3, <1>4, <1>5, NextKinds, GardenletSteps

\* No address that was listed is deleted in Azure: the Update of each must have
\* succeeded before the first of them is deleted, whatever the remedy
\* controller does in between and wherever an earlier attempt has stopped.
THEOREM AddressesAreKept == Spec => []ListedAddressesAreKept
<1>. DEFINE I == Inv /\ CPControl /\ AddressesKept
<1>1. Init => I
  BY InvInit, CPControlInit, AddressesInit
<1>2. I /\ [Next]_vars => I'
  BY InvNext, CPControlNext, AddressesNext
<1>3. I => ListedAddressesAreKept
  BY DEF AddressesKept
<1>. QED BY <1>1, <1>2, <1>3, PTL DEF Spec

----------------------------------------------------------------------------
(* What the controller leaves in the seed and in the shoot: what it holds  *)
(* is there when it is needed, and is gone when the control plane is.      *)

\* What the controller has brought about where it is.
Done(job) == cpRun.pc \in {"success", "release"} /\ cpRun.job \in job
Deployed ==
    cpRun.pc \in {"shootChart", "storageClasses"} \/ Done({"reconcile", "restore"}) =>
        UNION {SeedTemplates(c) : c \in EnabledComponents} \subseteq objects
Managed ==
    /\ Deploying /\ cpRun.pc # "idle" => \A m \in ManagedResources : managed[m] # Nil => ~managed[m].deleting
    /\ (\E m \in ManagedResources : managed[m] # Nil /\ managed[m].deleting) => Leaving \/ Gone
    /\ cpRun.pc = "storageClasses" => managed["shoot"] # Nil
    /\ Done({"reconcile", "restore"}) => \A m \in ManagedResources : managed[m] # Nil
Removed == Done({"migrate", "delete"}) \/ ~cp.exists \/ IsMigrated(cp)
Unmanaged ==
    cpRun.pc \in {"dropChart", "dropConfig", "dropSecrets"} \/ Removed => \A m \in ManagedResources : managed[m] = Nil
Dropped ==
    /\ cpRun.pc \in {"dropConfig", "dropSecrets"} => objects \cap UNION {SeedObjects(c) : c \in Components} = {}
    /\ cpRun.pc = "dropSecrets" => objects \cap ConfigObjects = {}
    /\ Removed => objects \subseteq Leftovers
Erased ==
    LET after == {"dropClasses", "dropShootChart", "awaitManaged", "dropChart", "dropConfig", "dropSecrets"}
        erased(names) == \A r \in names : remedies[r] # Nil => ~remedies[r].deleting /\ cpRun.job # "delete"
    IN  /\ cpRun.pc \in after \cup {"awaitVMs"} => erased(PublicIPs)
        /\ cpRun.pc \in after => erased(VirtualMachines)
        /\ Done({"delete"}) \/ ~cp.exists => \A r \in RemedyResources : remedies[r] = Nil

CPResources == Deployed /\ Managed /\ Unmanaged /\ Dropped /\ Erased

-----------------------------------------------------------------------------
(* The objects of the charts *)

LEMMA TemplatesAreDropped ==
    SeedNamespace \subseteq Secrets \cup ConfigObjects \cup Leftovers \cup UNION {SeedObjects(c) : c \in Components}
<1>1. \A c \in Components : SeedTemplates(c) \subseteq SeedObjects(c) \cup Leftovers
  <2>. TAKE c \in Components
  <2>1. CASE c = "remedy-controller-azure"
    BY <2>1, Zenon DEF SeedTemplates, Leftovers
  <2>2. CASE c # "remedy-controller-azure"
    BY <2>2, Zenon DEF SeedTemplates
  <2>. QED BY <2>1, <2>2
<1>2. AcrConfig \in Leftovers
  BY Zenon DEF Leftovers
<1>3. ASSUME NEW o \in SeedNamespace
      PROVE  o \in Secrets \cup ConfigObjects \cup Leftovers \cup UNION {SeedObjects(c) : c \in Components}
  <2>1. CASE o \in UNION {SeedTemplates(c) : c \in Components}
    <3>1. PICK c \in Components : o \in SeedTemplates(c)
      BY <2>1, Zenon
    <3>2. o \in SeedObjects(c) \/ o \in Leftovers
      BY <1>1, <3>1, Zenon
    <3>. QED BY <3>1, <3>2, Zenon
  <2>. QED BY <1>2, <1>3, <2>1, Zenon DEF SeedNamespace
<1>. QED BY <1>3, Zenon

LEMMA CSITemplates ==
    /\ "csi-driver-controller" \in Components
    /\ CSIDeployments \subseteq SeedTemplates("csi-driver-controller")
<1>1. "csi-driver-controller" \in Components
  BY Zenon DEF Components
<1>2. CSIDeployments \subseteq SeedObjects("csi-driver-controller")
  BY Zenon DEF CSIDeployments, SeedObjects
<1>. QED BY <1>1, <1>2, Zenon DEF SeedTemplates

LEMMA RemedyTemplates ==
    /\ "remedy-controller-azure" \in Components
    /\ RemedyDeployment \in SeedTemplates("remedy-controller-azure")
    /\ RemedyDeployment \notin Leftovers
<1>1. "remedy-controller-azure" \in Components
  BY Zenon DEF Components
<1>2. RemedyDeployment \in SeedObjects("remedy-controller-azure")
  BY Zenon DEF RemedyDeployment, SeedObjects
<1>3. RemedyDeployment \notin Leftovers
  BY Zenon DEF RemedyDeployment, Leftovers, AcrConfig
<1>. QED BY <1>1, <1>2, <1>3, Zenon DEF SeedTemplates

-----------------------------------------------------------------------------
(* The steps of the reconciler *)

\* What they, and the ends of a run, do to what the invariants depend on: none
\* comes to have removed anything, a deployment starts only when nothing is
\* to go, and what is to go stays so unless a deployment is on.
Starting == Deploying /\ cpRun.pc # "idle"
LEMMA CPStatusSteps ==
    ASSUME CPTypeOK, CPControl, CPUnreported \/ CPEnds
    PROVE  /\ Removed' => Removed
           /\ Starting' => Starting \/ ~(Leaving \/ Gone)
           /\ Leaving \/ Gone => Leaving' \/ Gone' \/ Starting
           /\ ~Done({"reconcile", "restore"})'
           /\ Done({"delete"})' \/ ~cp'.exists => Done({"delete"}) \/ ~cp.exists
<1>1. cp \in Resource /\ cpRun \in CPRuns
  BY DEF CPTypeOK, CPRuns
<1>. USE DEF CPControl, Removed, Starting, Deploying, Done, Leaving, Gone
<1>2. CASE CPDispatch
  <2>1. /\ cp'.exists = cp.exists /\ cp'.type = cp.type /\ cp'.state = cp.state /\ cp'.deleting = cp.deleting
        /\ cp.annotation = "migrate" => cp'.annotation = "migrate"
    BY <1>1, <1>2 DEF CPDispatch, Taken, Resource
  <2>2. cp.exists /\ ~IsMigrated(cp)
    BY <1>2 DEF CPDispatch, Due, Branch
  <2>3. cpRun'.pc \in {"finalizer", "processing"} /\ cpRun'.job = Branch(cp)
    BY <1>2 DEF CPDispatch, CPIdle
  <2>4. Branch(cp) \in {"reconcile", "restore"} => ~cp.deleting /\ cp.annotation # "migrate"
    BY DEF Branch, OperationType
  <2>5. cp.type = "migrate" => cp.annotation = "migrate"
    BY <2>2 DEF CPStages
  <2>. QED BY <2>1, <2>2, <2>3, <2>4, <2>5 DEF IsMigrated
<1>3. CASE CPEnsureFinalizer
  <2>1. /\ cp'.exists = cp.exists /\ cp'.type = cp.type /\ cp'.state = cp.state /\ cp'.deleting = cp.deleting
        /\ cp'.annotation = cp.annotation
    BY <1>1, <1>3 DEF CPEnsureFinalizer, Resource
  <2>2. cpRun'.pc = "processing" /\ cpRun'.job = cpRun.job /\ cpRun.pc = "finalizer"
    BY <1>1, <1>3 DEF CPEnsureFinalizer, CPGoto, CPRuns, CPAt
  <2>. QED BY <2>1, <2>2 DEF IsMigrated
<1>4. CASE CPMarkProcessing
  <2>1. /\ cp'.exists = cp.exists /\ cp'.state = "processing" /\ cp'.deleting = cp.deleting
        /\ cp'.annotation = cp.annotation
    BY <1>1, <1>4 DEF CPMarkProcessing, Processing, Resource
  <2>2. cpRun'.pc \in {"list", "secrets"} /\ cpRun'.job = cpRun.job /\ cpRun.pc = "processing"
    BY <1>1, <1>4 DEF CPMarkProcessing, CPGoto, CPRuns, CPAt
  <2>3. cp.type = "migrate" => cp.annotation = "migrate"
    BY <2>2 DEF CPStages, CPPlaces
  <2>. QED BY <2>1, <2>2, <2>3 DEF IsMigrated
<1>5. CASE CPMarkSucceeded
  <2>1. /\ cp'.exists = cp.exists /\ cp'.type = cp.type /\ cp'.deleting = cp.deleting
        /\ cp'.annotation = cp.annotation
    BY <1>1, <1>5 DEF CPMarkSucceeded, Succeeded, Resource
  <2>2. /\ cpRun.pc = "success" /\ cp.exists /\ cp.type = cpRun.type
        /\ cpRun.job \in {"reconcile", "restore", "delete", "migrate"}
    BY <1>1, <1>5 DEF CPMarkSucceeded, CPAt, CPPlaces, Working, CPBusyWith, CPRuns
  <2>3. cp.type = "migrate" => cpRun.job = "migrate"
    BY <2>2 DEF CPBusyWith
  <2>4. CASE cpRun.job = "reconcile"
    BY <1>5, <2>1, <2>2, <2>3, <2>4 DEF CPMarkSucceeded, CPIdle, IsMigrated
  <2>5. CASE cpRun.job # "reconcile"
    <3>1. cpRun'.pc = (IF cpRun.job = "restore" THEN "unannotate" ELSE "release") /\ cpRun'.job = cpRun.job
      BY <1>1, <1>5, <2>2, <2>5 DEF CPMarkSucceeded, CPGoto, CPRuns
    <3>. QED BY <2>1, <2>2, <2>3, <2>5, <3>1 DEF IsMigrated
  <2>. QED BY <2>4, <2>5
<1>6. CASE CPRelease
  <2>1. cpRun.pc = "release" /\ cpRun.job \in {"migrate", "delete"}
    BY <1>6 DEF CPRelease, CPAt, CPPlaces, Removing
  <2>2. cp.type = cpRun.type /\ cpRun.type = cpRun.job /\ cp.state = "succeeded"
    BY <2>1 DEF CPPlaces, CPBusyWith
  <2>3. Removed
    BY <2>1
  <2>4. CASE cpRun.job = "migrate"
    <3>1. ~cp.deleting
      BY <2>1, <2>4 DEF CPBusyWith
    <3>2. cp'.exists = cp.exists /\ cp'.type = cp.type /\ cpRun'.pc = "unannotate"
      BY <1>1, <1>6, <2>4, <3>1 DEF CPRelease, Released, Resource, CPGoto, CPRuns
    <3>3. cpRun'.job = cpRun.job
      BY <1>1, <1>6, <2>4, <3>1 DEF CPRelease, CPGoto, CPRuns
    <3>. QED BY <2>2, <2>3, <2>4, <3>2, <3>3
  <2>5. CASE cpRun.job = "delete"
    <3>1. cp.deleting
      BY <2>1, <2>5 DEF CPBusyWith
    <3>2. cp' = Missing /\ cpRun' = CPIdle
      BY <1>6, <2>5, <3>1 DEF CPRelease, Released
    <3>. QED BY <2>1, <2>3, <2>5, <3>2 DEF CPIdle, Missing
  <2>. QED BY <2>1, <2>4, <2>5
<1>7. CASE CPUnannotate
  <2>1. /\ cp'.exists = cp.exists /\ cp'.type = cp.type /\ cp'.state = cp.state /\ cp'.deleting = cp.deleting
        /\ cpRun' = CPIdle
    BY <1>1, <1>7 DEF CPUnannotate, Resource
  <2>2. cpRun.pc = "unannotate" /\ cpRun.job \in {"restore", "migrate"} /\ cp.type = cpRun.type
    BY <1>7 DEF CPUnannotate, CPAt, CPPlaces
  <2>3. cpRun.job = "migrate" => cp.type = "migrate"
    BY <2>2 DEF CPBusyWith
  <2>. QED BY <2>1, <2>2, <2>3 DEF CPIdle, IsMigrated
<1>8. CASE CPEnds
  <2>1. /\ cp'.exists = cp.exists /\ cp'.type = cp.type /\ cp'.deleting = cp.deleting
        /\ cp'.annotation = "migrate" <=> cp.annotation = "migrate"
        /\ cp'.state \in {cp.state, "error"} /\ cpRun' = CPIdle
    BY <1>1, <1>8, CPEndsResource DEF CPEnds
  <2>. QED BY <2>1 DEF CPIdle, IsMigrated
<1>. QED BY <1>2, <1>3, <1>4, <1>5, <1>6, <1>7, <1>8 DEF CPUnreported

LEMMA CPStoredResources ==
    ASSUME CPTypeOK, CPControl, CPResources, CPUnreported \/ CPEnds
    PROVE  CPResources'
<1>1. UNCHANGED <<objects, managed, remedies>>
  BY CPStoredSteps
<1>2. cpRun'.pc \in {"idle", "finalizer", "processing", "list", "secrets", "release", "unannotate"}
  BY CPStoredSteps
<1>. USE <1>1, <1>2, CPStatusSteps DEF CPResources
<1>3. Deployed'
  BY DEF Deployed
<1>4. Managed'
  BY DEF Managed, Starting
<1>5. Unmanaged'
  BY DEF Unmanaged
<1>6. Dropped'
  BY DEF Dropped
<1>7. Erased'
  BY DEF Erased
<1>. QED BY <1>3, <1>4, <1>5, <1>6, <1>7

-----------------------------------------------------------------------------
(* The steps of a deployment *)

EnabledTemplates == UNION {SeedTemplates(c) : c \in EnabledComponents}

LEMMA DeployingStatus ==
    ASSUME CPTypeOK, CPControl, Deploys
    PROVE  /\ Deploying /\ cpRun.pc # "idle" /\ cp.exists /\ cpRun.shoot \in ControlShoots
           /\ ~Removed /\ ~Removed' /\ EnabledTemplates' = EnabledTemplates
<1>1. cpRun.pc \in {"secrets", "config", "chart", "shootChart", "storageClasses"}
  BY DEF Deploys, DeploySecrets, ApplyConfigChart, ApplyControlPlaneChart, ApplyShootChart, ApplyStorageClasses, Apply,
         CreateManagedResource, CPAt
<1>2. Deploying /\ cp.exists /\ cpRun.shoot \in ControlShoots /\ cp.state = "processing"
  BY <1>1 DEF CPControl, CPPlaces, CPBusyWith, DeploySteps, Working
<1>3. ~Removed /\ ~Removed'
  BY <1>2, DeploysSteps DEF Removed, Done, Deploying, IsMigrated
<1>4. EnabledTemplates' = EnabledTemplates
  BY DeploysSteps DEF EnabledTemplates, EnabledComponents
<1>. QED BY <1>1, <1>2, <1>3, <1>4

\* The managed resources that one of the two steps leaves.
LEMMA CreatedResources ==
    ASSUME CPTypeOK, NEW l, NEW m \in ManagedResources, NEW parts, NEW next,
           CreateManagedResource(l, m, parts, next), parts \in Charts
    PROVE  /\ managed'[m] # Nil /\ managed'[m].holds = parts
           /\ managed'[m].deleting = (managed[m] # Nil /\ managed[m].deleting)
           /\ \A n \in ManagedResources : n # m => managed'[n] = managed[n]
<1>. DEFINE new == [holds |-> parts, deleting |-> managed[m] # Nil /\ managed[m].deleting]
<1>1. managed' = [managed EXCEPT ![m] = new]
  BY DEF CreateManagedResource
<1>2. new \in [holds : SUBSET ShootParts, deleting : BOOLEAN]
  BY DEF CPTypeOK, Charts
<1>3. new.holds = parts /\ new.deleting = (managed[m] # Nil /\ managed[m].deleting) /\ new # Nil
  BY <1>2, ManagedAssumption
<1>. HIDE DEF new
<1>. QED BY <1>1, <1>3 DEF CPTypeOK

LEMMA DeploysResources ==
    ASSUME CPTypeOK, CPControl, CPResources, Deploys
    PROVE  CPResources'
<1>1. /\ Deploying /\ cpRun.pc # "idle" /\ cp.exists /\ ~Removed /\ ~Removed' /\ EnabledTemplates' = EnabledTemplates
      /\ UNCHANGED <<cp, remedies>> /\ cpRun'.pc \in {"config", "chart", "shootChart", "storageClasses", "success"}
      /\ cpRun'.job = cpRun.job
  BY DeployingStatus, DeploysSteps
<1>2. Unmanaged' /\ Dropped' /\ Erased'
  BY <1>1 DEF Unmanaged, Dropped, Erased, Done, Deploying
<1>3. CASE DeploySecrets \/ ApplyConfigChart \/ ApplyControlPlaneChart
  <2>1. managed' = managed /\ cpRun'.pc \in {"config", "chart", "shootChart"}
    BY <1>3 DEF DeploySecrets, ApplyConfigChart, ApplyControlPlaneChart, Apply, CPGoto, CPTypeOK
  <2>2. Managed'
    BY <1>1, <2>1 DEF CPResources, Managed, Done, Deploying, Leaving, Gone
  <2>3. cpRun'.pc = "shootChart" => ApplyControlPlaneChart
    BY <1>3 DEF DeploySecrets, ApplyConfigChart, Apply, CPGoto, CPTypeOK
  <2>4. ApplyControlPlaneChart => EnabledTemplates \subseteq objects'
    BY DEF ApplyControlPlaneChart, Apply, EnabledTemplates
  <2>5. Deployed'
    BY <1>1, <2>1, <2>3, <2>4 DEF Deployed, Done, EnabledTemplates
  <2>. QED BY <1>2, <2>2, <2>5 DEF CPResources
<1>4. CASE ApplyShootChart \/ ApplyStorageClasses
  <2>1. cpRun.pc \in {"shootChart", "storageClasses"} /\ objects' = objects
    BY <1>4 DEF ApplyShootChart, ApplyStorageClasses, CreateManagedResource, CPAt
  <2>2. Deployed'
    BY <1>1, <2>1 DEF CPResources, Deployed, EnabledTemplates
  <2>3. CASE ApplyShootChart
    <3>1. PICK parts \in Charts : CreateManagedResource("shootChart", "shoot", parts, "storageClasses")
      BY <2>3, ShootPartsType DEF ApplyShootChart
    <3>2. "shoot" \in ManagedResources /\ cpRun'.pc = "storageClasses"
      BY <3>1 DEF ManagedResources, CreateManagedResource, CPGoto, CPTypeOK
    <3>3. /\ managed'["shoot"] # Nil
          /\ managed'["shoot"].deleting = (managed["shoot"] # Nil /\ managed["shoot"].deleting)
          /\ \A n \in ManagedResources : n # "shoot" => managed'[n] = managed[n]
      BY <3>1, <3>2, CreatedResources
    <3>4. Managed'
      BY <1>1, <3>2, <3>3 DEF CPResources, Managed, Done, Deploying, Leaving, Gone
    <3>. QED BY <1>2, <2>2, <3>4 DEF CPResources
  <2>4. CASE ApplyStorageClasses
    <3>1. PICK parts \in Charts : CreateManagedResource("storageClasses", "storageclasses", parts, "success")
      BY <2>4, ShootPartsType DEF ApplyStorageClasses
    <3>2. ManagedResources = {"storageclasses", "shoot"} /\ cpRun.pc = "storageClasses" /\ cpRun'.pc = "success"
      BY <3>1 DEF ManagedResources, CreateManagedResource, CPGoto, CPTypeOK, CPAt
    <3>3. /\ managed'["storageclasses"] # Nil
          /\ managed'["storageclasses"].deleting = (managed["storageclasses"] # Nil /\ managed["storageclasses"].deleting)
          /\ managed'["shoot"] = managed["shoot"]
      BY <3>1, <3>2, CreatedResources
    <3>4. Managed'
      BY <1>1, <3>2, <3>3 DEF CPResources, Managed, Done, Deploying, Leaving, Gone
    <3>. QED BY <1>2, <2>2, <3>4 DEF CPResources
  <2>. QED BY <1>4, <2>3, <2>4
<1>. QED BY <1>3, <1>4 DEF Deploys

-----------------------------------------------------------------------------
(* The steps of a deletion *)

LEMMA DeletingStatus ==
    ASSUME CPTypeOK, CPControl, CPActuatorDeletes, CPGoesOn
    PROVE  /\ Removing /\ ~Deploying /\ cp.exists /\ cp' = cp /\ cpRun'.job = cpRun.job
           /\ Leaving \/ Gone
           /\ cpRun.pc \in DeleteSteps /\ cpRun'.pc \in DeleteSteps \cup {"success"}
           /\ ~IsMigrated(cp)
<1>1. cpRun.pc \in DeleteSteps
  BY DEF CPActuatorDeletes, ListPublicIPs, AnnotatePublicIP, AllAnnotated, DeletePublicIPs, DeleteVirtualMachines,
         AwaitPublicIPs, AwaitVirtualMachines, AwaitDeleted, DeleteStorageClasses, DeleteShootChart,
         DeleteManagedResource, AwaitManagedResources, DeleteControlPlaneChart, DeleteConfigChart, DeleteSecrets, Apply,
         CPAt, DeleteSteps
<1>2. Removing /\ cp.exists /\ cp.state = "processing"
  BY <1>1 DEF CPControl, CPPlaces, CPBusyWith, DeleteSteps, Working
<1>3. Leaving \/ Gone
  BY <1>1, <1>2 DEF CPControl, CPBusyWith, Removing, Leaving, Gone, DeleteSteps
<1>4. cp' = cp /\ cpRun'.job = cpRun.job /\ cpRun'.pc \in DeleteSteps \cup {"success"}
  BY <1>1 DEF CPGoesOn, DeploySteps, DeleteSteps
<1>. QED BY <1>1, <1>2, <1>3, <1>4 DEF Removing, Deploying, IsMigrated

\* Where a step leads, and what it changes.
LEMMA DeletesSteps ==
    ASSUME CPTypeOK, CPActuatorDeletes, CPGoesOn
    PROVE  \/ /\ cpRun'.pc \in {"annotate", "deleteIPs", "deleteVMs", "awaitIPs"} /\ UNCHANGED <<objects, managed>>
           \/ AwaitPublicIPs /\ cpRun'.pc = "awaitVMs" /\ UNCHANGED <<objects, managed, remedies>>
           \/ AwaitVirtualMachines /\ cpRun'.pc = "dropClasses" /\ UNCHANGED <<objects, managed, remedies>>
           \/ /\ DeleteStorageClasses \/ DeleteShootChart
              /\ cpRun.pc \in {"dropClasses", "dropShootChart"} /\ cpRun'.pc \in {"dropShootChart", "awaitManaged"}
              /\ UNCHANGED <<objects, remedies>>
           \/ AwaitManagedResources /\ cpRun'.pc = "dropChart" /\ UNCHANGED <<objects, managed, remedies>>
           \/ DeleteControlPlaneChart /\ cpRun'.pc = "dropConfig" /\ UNCHANGED <<managed, remedies>>
           \/ DeleteConfigChart /\ cpRun'.pc = "dropSecrets" /\ UNCHANGED <<managed, remedies>>
           \/ DeleteSecrets /\ cpRun'.pc = "success" /\ UNCHANGED <<managed, remedies>>
<1>1. cpRun \in CPRuns
  BY DEF CPTypeOK, CPRuns
<1>2. CASE \E ip \in PublicIPs : AnnotatePublicIP(ip)
  <2>1. PICK ip \in PublicIPs : AnnotatePublicIP(ip)
    BY <1>2
  <2>2. ~(remedies[ip] = Nil \/ ip \in cpRun.stale)
    BY <2>1 DEF AnnotatePublicIP, CPAt, CPGoesOn, CPIdle, DeploySteps, DeleteSteps
  <2>. QED BY <1>1, <2>1, <2>2 DEF AnnotatePublicIP, CPAt, CPRuns, CPDeletes
<1>3. CASE ListPublicIPs \/ AllAnnotated \/ DeletePublicIPs \/ DeleteVirtualMachines
  BY <1>1, <1>3 DEF ListPublicIPs, AllAnnotated, DeletePublicIPs, DeleteVirtualMachines, CPGoto, CPRuns, CPDeletes
<1>4. CASE AwaitPublicIPs \/ AwaitVirtualMachines \/ AwaitManagedResources
  BY <1>1, <1>4 DEF AwaitPublicIPs, AwaitVirtualMachines, AwaitDeleted, AwaitManagedResources, CPGoto, CPRuns, CPDeletes
<1>5. CASE DeleteStorageClasses \/ DeleteShootChart
  BY <1>1, <1>5 DEF DeleteStorageClasses, DeleteShootChart, DeleteManagedResource, CPGoto, CPRuns, CPAt
<1>6. CASE DeleteControlPlaneChart \/ DeleteConfigChart \/ DeleteSecrets
  BY <1>1, <1>6 DEF DeleteControlPlaneChart, DeleteConfigChart, DeleteSecrets, Apply, CPGoto, CPRuns
<1>. QED BY <1>2, <1>3, <1>4, <1>5, <1>6 DEF CPActuatorDeletes

\* The invariants on a step that removes nothing from the seed yet.
LEMMA DeletingResources ==
    ASSUME CPControl, CPResources, ~Deploying, Leaving \/ Gone, ~IsMigrated(cp), cp.exists, cp' = cp,
           cpRun'.job = cpRun.job, cpRun'.pc \in DeleteSteps \cup {"success"}
    PROVE  Deployed' /\ Managed'
  BY DEF Deployed, Managed, Done, Deploying, DeleteSteps, Leaving, Gone

LEMMA DeletesResources ==
    ASSUME CPTypeOK, CPControl, CPResources, CPActuatorDeletes, CPGoesOn
    PROVE  CPResources'
<1>1. /\ Removing /\ ~Deploying /\ cp.exists /\ cp' = cp /\ cpRun'.job = cpRun.job
      /\ Leaving \/ Gone
      /\ cpRun.pc \in DeleteSteps /\ cpRun'.pc \in DeleteSteps \cup {"success"}
      /\ ~IsMigrated(cp)
  BY DeletingStatus
<1>2. Deployed' /\ Managed'
  BY <1>1, DeletingResources
<1>3. CASE cpRun'.pc \in {"annotate", "deleteIPs", "deleteVMs", "awaitIPs"} /\ UNCHANGED <<objects, managed>>
  BY <1>1, <1>2, <1>3 DEF CPResources, Unmanaged, Dropped, Erased, Removed, Done
<1>4. CASE AwaitPublicIPs /\ cpRun'.pc = "awaitVMs" /\ UNCHANGED <<objects, managed, remedies>>
  <2>1. \A r \in PublicIPs : remedies[r] = Nil
    BY <1>4 DEF AwaitPublicIPs, AwaitDeleted, Existing
  <2>. QED BY <1>1, <1>2, <1>4, <2>1 DEF CPResources, Unmanaged, Dropped, Erased, Removed, Done
<1>5. CASE AwaitVirtualMachines /\ cpRun'.pc = "dropClasses" /\ UNCHANGED <<objects, managed, remedies>>
  <2>1. cpRun.pc = "awaitVMs" /\ \A r \in VirtualMachines : remedies[r] = Nil
    BY <1>5 DEF AwaitVirtualMachines, AwaitDeleted, Existing, CPAt
  <2>. QED BY <1>1, <1>2, <1>5, <2>1 DEF CPResources, Unmanaged, Dropped, Erased, Removed, Done
<1>6. CASE /\ cpRun.pc \in {"dropClasses", "dropShootChart"} /\ cpRun'.pc \in {"dropShootChart", "awaitManaged"}
           /\ UNCHANGED <<objects, remedies>>
  BY <1>1, <1>2, <1>6 DEF CPResources, Unmanaged, Dropped, Erased, Removed, Done
<1>7. CASE AwaitManagedResources /\ cpRun'.pc = "dropChart" /\ UNCHANGED <<objects, managed, remedies>>
  <2>1. cpRun.pc = "awaitManaged" /\ \A m \in ManagedResources : managed[m] = Nil
    BY <1>7 DEF AwaitManagedResources, CPAt
  <2>. QED BY <1>1, <1>2, <1>7, <2>1 DEF CPResources, Unmanaged, Dropped, Erased, Removed, Done
<1>8. CASE DeleteControlPlaneChart /\ cpRun'.pc = "dropConfig" /\ UNCHANGED <<managed, remedies>>
  <2>1. cpRun.pc = "dropChart" /\ objects' \cap UNION {SeedObjects(c) : c \in Components} = {}
    BY <1>8 DEF DeleteControlPlaneChart, Apply, CPAt
  <2>. QED BY <1>1, <1>2, <1>8, <2>1 DEF CPResources, Unmanaged, Dropped, Erased, Removed, Done
<1>9. CASE DeleteConfigChart /\ cpRun'.pc = "dropSecrets" /\ UNCHANGED <<managed, remedies>>
  <2>1. cpRun.pc = "dropConfig" /\ objects' = objects \ ConfigObjects
    BY <1>9 DEF DeleteConfigChart, Apply, CPAt
  <2>2. Dropped'
    BY <1>1, <1>9, <2>1 DEF CPResources, Dropped, Removed, Done
  <2>. QED BY <1>1, <1>2, <1>9, <2>1, <2>2 DEF CPResources, Unmanaged, Erased, Removed, Done
<1>10. CASE DeleteSecrets /\ cpRun'.pc = "success" /\ UNCHANGED <<managed, remedies>>
  <2>1. cpRun.pc = "dropSecrets" /\ objects' = objects \ Secrets
    BY <1>10 DEF DeleteSecrets, Apply, CPAt
  <2>2. objects' \subseteq Leftovers
    BY <2>1, TemplatesAreDropped DEF CPTypeOK, CPResources, Dropped
  <2>3. cpRun.job = "delete" => \A r \in RemedyResources : remedies[r] = Nil
    BY <2>1 DEF CPResources, Erased, RemedyResources
  <2>4. \A m \in ManagedResources : managed[m] = Nil
    BY <2>1 DEF CPResources, Unmanaged
  <2>5. Dropped' /\ Unmanaged'
    BY <1>1, <1>10, <2>2, <2>4 DEF Dropped, Unmanaged
  <2>6. Erased'
    BY <1>1, <1>10, <2>3 DEF Erased, Done
  <2>. QED BY <1>2, <2>5, <2>6 DEF CPResources
<1>. QED BY <1>3, <1>4, <1>5, <1>6, <1>7, <1>8, <1>9, <1>10, DeletesSteps

-----------------------------------------------------------------------------
(* The steps of the others *)

LEMMA RestResources ==
    ASSUME CPTypeOK, CPControl, CPResources, CPRest
    PROVE  CPResources'
<1>1. SameControl /\ cpRun \in CPRuns /\ remedies \in Remedies
  BY CPRestSame DEF CPTypeOK, CPRuns, Remedies
<1>2. /\ Removed' = Removed /\ Deploying' = Deploying /\ Leaving' = Leaving /\ Gone' = Gone
      /\ \A job : Done(job)' = Done(job)
      /\ EnabledTemplates' = EnabledTemplates /\ cpRun'.pc = cpRun.pc /\ cpRun'.job = cpRun.job /\ cp' = cp
  BY <1>1 DEF SameControl, Removed, Deploying, Leaving, Gone, Done, IsMigrated, EnabledTemplates, EnabledComponents
<1>3. CASE UNCHANGED <<objects, managed, remedies>>
  BY <1>2, <1>3 DEF CPResources, Deployed, Managed, Unmanaged, Dropped, Erased, EnabledTemplates
<1>4. ASSUME NEW r \in RemedyResources, RemedyCreates(r)
      PROVE  CPResources'
  <2> DEFINE late == cpRun.pc \in {"annotate", "deleteIPs"}
  <2>1. remedies' = [remedies EXCEPT ![r] = [annotated |-> FALSE, deleting |-> FALSE, late |-> late]]
    BY <1>4 DEF RemedyCreates
  <2>2. remedies'[r] = [annotated |-> FALSE, deleting |-> FALSE, late |-> late]
    <3>. HIDE DEF late
    <3>. QED BY <1>1, <2>1 DEF Remedies
  <2>3. ~remedies'[r].deleting
    BY <2>2
  <2>4. \A i \in RemedyResources : i # r => remedies'[i] = remedies[i]
    BY <1>1, <2>1 DEF Remedies
  <2>5. ~Gone
    BY <1>4 DEF RemedyCreates, CPControl, CPStages
  <2>6. cpRun.pc # "idle" => cpRun.job # "delete"
    BY <2>5 DEF CPControl, CPBusyWith, Gone
  <2>7. Erased'
    <3>. USE <1>2, <2>3, <2>4, <2>6 DEF CPResources, Erased, RemedyResources
    <3>1. ~(Done({"delete"}) \/ ~cp.exists)
      BY <2>5, <2>6 DEF Done, Gone
    <3>2. ASSUME NEW i \in RemedyResources,
                 remedies[i] # Nil => ~remedies[i].deleting /\ cpRun.job # "delete", cpRun.pc # "idle"
          PROVE  remedies'[i] # Nil => ~remedies'[i].deleting /\ cpRun'.job # "delete"
      BY <3>2
    <3>. QED BY <3>1, <3>2
  <2>. QED BY <1>2, <1>4, <2>7 DEF RemedyCreates, CPResources, Deployed, Managed, Unmanaged, Dropped, EnabledTemplates
<1>5. ASSUME NEW r \in RemedyResources, RemedyReleases(r)
      PROVE  CPResources'
  <2>1. remedies'[r] = Nil /\ \A i \in RemedyResources : i # r => remedies'[i] = remedies[i]
    BY <1>1, <1>5 DEF RemedyReleases, Remedies
  <2>2. Erased'
    BY <1>2, <2>1 DEF CPResources, Erased, RemedyResources
  <2>. QED BY <1>2, <1>5, <2>2 DEF RemedyReleases, CPResources, Deployed, Managed, Unmanaged, Dropped, EnabledTemplates
<1>6. ASSUME NEW m \in ManagedResources, ManagedResourceGoes(m)
      PROVE  CPResources'
  <2>1. managed'[m] = Nil /\ \A n \in ManagedResources : n # m => managed'[n] = managed[n]
    BY <1>6 DEF ManagedResourceGoes, CPTypeOK
  <2>2. ~(Deploying /\ cpRun.pc # "idle")
    BY <1>6 DEF ManagedResourceGoes, CPResources, Managed
  <2>3. cpRun.pc # "storageClasses" /\ ~Done({"reconcile", "restore"})
    BY <2>2 DEF CPControl, CPPlaces, DeploySteps, Done, Deploying
  <2>4. Managed'
    BY <1>2, <2>1, <2>2, <2>3 DEF CPResources, Managed
  <2>5. Unmanaged'
    BY <1>2, <2>1 DEF CPResources, Unmanaged
  <2>. QED BY <1>2, <1>6, <2>4, <2>5 DEF ManagedResourceGoes, CPResources, Deployed, Dropped, Erased, EnabledTemplates
<1>. QED BY <1>3, <1>4, <1>5, <1>6 DEF CPRest, cpVars, RemedyTouches

LEMMA GardenletStatus ==
    ASSUME Inv, CPControl, Advance \/ RequestMigrate \/ RequestDelete \/ ChangeShoot \/ Crash
    PROVE  \/ MoveSeed
           \/ /\ Removed' => Removed
              /\ ~cp'.exists => ~cp.exists
              /\ Leaving \/ Gone => Leaving' \/ Gone'
              /\ cpRun' \in {cpRun, CPIdle}
<1>1. cp \in Resource
  BY DEF Inv, CPTypeOK
<1>. USE DEF Removed, Done, IsMigrated, Leaving, Gone
<1>2. CASE MigrateControlPlane
  BY <1>1, <1>2 DEF MigrateControlPlane, CPElse, Resource
<1>3. CASE DeleteControlPlane
  BY <1>1, <1>3 DEF DeleteControlPlane, CPElse, Resource
<1>4. CASE ChangeShoot
  <2>1. ~(Leaving \/ Gone)
    BY <1>4 DEF ChangeShoot, MayTurn, CPControl, CPStages
  <2>. QED BY <1>1, <1>4, <2>1 DEF ChangeShoot, CPElse, Resource
<1>5. CASE Crash
  BY <1>1, <1>5 DEF Crash, Resource, CPIdle
<1>6. CASE DeployWorker \/ RepeatRequest \/ Finish \/ RestoreWorker \/ FinishDeletion \/ RequestMigrate \/ RequestDelete
  BY <1>6 DEF DeployWorker, RepeatRequest, Finish, RestoreWorker, FinishDeletion, RequestMigrate, RequestDelete, cpVars
<1>. QED BY <1>2, <1>3, <1>4, <1>5, <1>6 DEF Advance

LEMMA GardenletResources ==
    ASSUME Inv, CPControl, CPResources, Advance \/ RequestMigrate \/ RequestDelete \/ ChangeShoot \/ Crash
    PROVE  CPResources'
<1>1. CASE MoveSeed
  <2>1. /\ cp'.exists /\ cp'.type = "none" /\ cpRun'.pc = "idle"
        /\ \A m \in ManagedResources : managed'[m] = Nil
    BY <1>1 DEF MoveSeed, New, Missing, CPAt
  <2>. QED BY <2>1 DEF CPResources, Deployed, Managed, Unmanaged, Dropped, Erased, Removed, Done, IsMigrated, Deploying
<1>2. CASE UNCHANGED <<objects, managed, remedies>> /\ ~MoveSeed
  <2>1. /\ Removed' => Removed
        /\ ~cp'.exists => ~cp.exists
        /\ Leaving \/ Gone => Leaving' \/ Gone'
    BY <1>2, GardenletStatus
  <2>2. CASE cpRun' = cpRun
    BY <1>2, <2>1, <2>2
       DEF CPResources, Deployed, Managed, Unmanaged, Dropped, Erased, Done, Deploying, EnabledComponents
  <2>3. CASE cpRun' = CPIdle
    <3>1. cpRun'.pc = "idle"
      BY <2>3 DEF CPIdle
    <3>. QED BY <1>2, <2>1, <3>1 DEF CPResources, Deployed, Managed, Unmanaged, Dropped, Erased, Done, Deploying
  <2>. QED BY <1>2, <2>2, <2>3, GardenletStatus
<1>. QED BY <1>1, <1>2, GardenletSteps

LEMMA ResourcesInit == Init => CPResources
  BY DEF Init, CPEmpty, CPIdle, New, Missing, CPResources, Deployed, Managed, Unmanaged, Dropped, Erased, Removed, Done,
         IsMigrated, Deploying, ManagedResources

LEMMA ResourcesNext == Inv /\ CPControl /\ CPResources /\ [Next]_vars => CPResources'
<1>. SUFFICES ASSUME Inv, CPControl, CPResources, [Next]_vars PROVE CPResources'
  OBVIOUS
<1>1. CPTypeOK
  BY DEF Inv
<1>2. CASE CPController \/ CPFails
  BY <1>1, <1>2, CPKinds, CPStoredResources, DeploysResources, DeletesResources
<1>3. CASE CPRest
  BY <1>1, <1>3, RestResources
<1>4. CASE Advance \/ RequestMigrate \/ RequestDelete \/ ChangeShoot \/ Crash
  BY <1>4, GardenletResources
<1>. QED BY <1>2, <1>3, <1>4, NextKinds

-----------------------------------------------------------------------------
(* What the shoot and the health checks need *)

NeedsCSI(m) == managed[m].holds \cap {"csi", "csi-driver-node"} # {}
NeedsRemedy(m) == "remedy-controller-azure" \in managed[m].holds

LEMMA EnabledCSI ==
    ASSUME cpRun.shoot.version >= csiVersion
    PROVE  CSIDeployments \subseteq EnabledTemplates
<1>1. Enabled("csi-driver-controller", cpRun.shoot)
  BY Zenon DEF Enabled
<1>. QED BY <1>1, CSITemplates, Zenon DEF EnabledTemplates, EnabledComponents

LEMMA EnabledRemedy ==
    ASSUME cpRun.shoot.remedy
    PROVE  RemedyDeployment \in EnabledTemplates
<1>1. Enabled("remedy-controller-azure", cpRun.shoot)
  BY Zenon DEF Enabled
<1>. QED BY <1>1, RemedyTemplates, Zenon DEF EnabledTemplates, EnabledComponents

LEMMA EnabledChecks ==
    <<"Deployment", "cloud-controller-manager">> \in EnabledTemplates
<1>1. "cloud-controller-manager" \in Components
  BY Zenon DEF Components
<1>2. Enabled("cloud-controller-manager", cpRun.shoot)
  BY Zenon DEF Enabled
<1>3. <<"Deployment", "cloud-controller-manager">> \in SeedTemplates("cloud-controller-manager")
  <2>1. <<"Deployment", "cloud-controller-manager">> \in SeedObjects("cloud-controller-manager")
    BY Zenon DEF SeedObjects
  <2>. QED BY <2>1, Zenon DEF SeedTemplates
<1>. QED BY <1>1, <1>2, <1>3, Zenon DEF EnabledTemplates, EnabledComponents

\* A managed resource holds what needs a controller only if the chart of the
\* control plane enables that controller.
LEMMA PartsAreEnabled ==
    ASSUME NEW parts,
           \/ parts = getControlPlaneShootChartValues(cpRun.shoot, [zoned |-> TRUE], Nil).charts
           \/ /\ cpRun.shoot \in ControlShoots
              /\ parts = {IF getStorageClassesChartValues(cpRun.shoot).useLegacyProvisioner THEN "legacy" ELSE "csi"}
    PROVE  /\ parts \cap {"csi", "csi-driver-node"} # {} => CSIDeployments \subseteq EnabledTemplates
           /\ "remedy-controller-azure" \in parts => RemedyDeployment \in EnabledTemplates
<1>1. CASE parts = getControlPlaneShootChartValues(cpRun.shoot, [zoned |-> TRUE], Nil).charts
  <2>. DEFINE nodes  == IF cpRun.shoot.version >= csiVersion THEN {"csi-driver-node"} ELSE {}
              remedy == IF cpRun.shoot.remedy THEN {"remedy-controller-azure"} ELSE {}
              udp    == IF [zoned |-> TRUE].zoned THEN {"allow-udp-egress"} ELSE {}
  <2>1. parts = {"cloud-controller-manager"} \cup udp \cup nodes \cup remedy
    BY <1>1 DEF getControlPlaneShootChartValues
  <2>2. udp \subseteq {"allow-udp-egress"}
    BY Zenon
  <2>3. remedy \subseteq {"remedy-controller-azure"} /\ nodes \subseteq {"csi-driver-node"}
    BY Zenon
  <2>4. "remedy-controller-azure" \in remedy => cpRun.shoot.remedy
    BY Zenon
  <2>5. "csi-driver-node" \in nodes => cpRun.shoot.version >= csiVersion
    BY Zenon
  <2>. HIDE DEF udp, nodes, remedy
  <2>6. "remedy-controller-azure" \in parts => "remedy-controller-azure" \in remedy
    BY <2>1, <2>2, <2>3, Zenon
  <2>7. "csi" \notin parts
    BY <2>1, <2>2, <2>3, Zenon
  <2>8. "csi-driver-node" \in parts => "csi-driver-node" \in nodes
    BY <2>1, <2>2, <2>3, Zenon
  <2>9. parts \cap {"csi", "csi-driver-node"} # {} => "csi-driver-node" \in parts
    BY <2>7, Zenon
  <2>. QED BY <2>4, <2>5, <2>6, <2>8, <2>9, EnabledCSI, EnabledRemedy, Zenon
<1>2. CASE /\ cpRun.shoot \in ControlShoots
           /\ parts = {IF getStorageClassesChartValues(cpRun.shoot).useLegacyProvisioner THEN "legacy" ELSE "csi"}
  <2>1. parts = {IF cpRun.shoot.version < csiVersion THEN "legacy" ELSE "csi"}
    BY <1>2 DEF getStorageClassesChartValues
  <2>2. "remedy-controller-azure" \notin parts
    BY <2>1, Zenon
  <2>3. CASE cpRun.shoot.version < csiVersion
    <3>1. parts \cap {"csi", "csi-driver-node"} = {}
      BY <2>1, <2>3, Zenon
    <3>. QED BY <2>2, <3>1, Zenon
  <2>4. CASE ~(cpRun.shoot.version < csiVersion)
    <3>1. cpRun.shoot.version >= csiVersion
      BY <1>2, <2>4 DEF ControlShoots, csiVersion
    <3>. QED BY <2>2, <3>1, EnabledCSI, Zenon
  <2>. QED BY <2>3, <2>4
<1>. QED BY <1>1, <1>2

-----------------------------------------------------------------------------
(* The parts in the shoot *)

\* What the others leave alone, and what they take away.
LEMMA ServedKept ==
    ASSUME ShootPartsAreServed, objects \subseteq objects',
           \A m \in ManagedResources : managed'[m] # Nil => managed[m] # Nil /\ managed'[m].holds = managed[m].holds
    PROVE  ShootPartsAreServed'
<1>1. RemedyRuns => RemedyRuns'
  BY Zenon DEF RemedyRuns
<1>. QED BY <1>1, Zenon DEF ShootPartsAreServed

LEMMA ServedWhenNone == (\A m \in ManagedResources : managed[m] = Nil) => ShootPartsAreServed
  BY Zenon DEF ShootPartsAreServed

LEMMA ConfigIsNoDeployment == AcrConfig \notin CSIDeployments /\ AcrConfig # RemedyDeployment
  BY Zenon DEF AcrConfig, CSIDeployments, RemedyDeployment

LEMMA CreatedServed ==
    ASSUME CPTypeOK, ShootPartsAreServed, EnabledTemplates \subseteq objects, objects' = objects,
           NEW l, NEW m \in ManagedResources, NEW parts \in Charts, NEW next,
           CreateManagedResource(l, m, parts, next),
           parts \cap {"csi", "csi-driver-node"} # {} => CSIDeployments \subseteq EnabledTemplates,
           "remedy-controller-azure" \in parts => RemedyDeployment \in EnabledTemplates
    PROVE  ShootPartsAreServed'
<1>1. managed'[m].holds = parts /\ \A n \in ManagedResources : n # m => managed'[n] = managed[n]
  BY CreatedResources
<1>2. ASSUME NEW n \in ManagedResources, managed'[n] # Nil
      PROVE  /\ managed'[n].holds \cap {"csi", "csi-driver-node"} # {} => CSIDeployments \subseteq objects'
             /\ "remedy-controller-azure" \in managed'[n].holds => RemedyDeployment \in objects'
  <2>1. CASE n = m
    BY <1>1, <2>1, Zenon
  <2>2. CASE n # m
    BY <1>1, <1>2, <2>2, Zenon DEF ShootPartsAreServed, RemedyRuns
  <2>. QED BY <2>1, <2>2
<1>. QED BY <1>2, Zenon DEF ShootPartsAreServed, RemedyRuns

LEMMA DeploysServed ==
    ASSUME CPTypeOK, CPControl, CPResources, ShootPartsAreServed, Deploys
    PROVE  ShootPartsAreServed'
<1>1. CASE DeploySecrets \/ ApplyControlPlaneChart
  <2>1. objects \subseteq objects' /\ managed' = managed
    BY <1>1 DEF DeploySecrets, ApplyControlPlaneChart, Apply
  <2>. QED BY <2>1, ServedKept
<1>2. CASE ApplyConfigChart
  <2>1. objects \ {AcrConfig} \subseteq objects' /\ managed' = managed
    BY <1>2, Zenon DEF ApplyConfigChart, Apply
  <2>2. CSIDeployments \subseteq objects => CSIDeployments \subseteq objects'
    BY <2>1, ConfigIsNoDeployment, Zenon
  <2>3. RemedyRuns => RemedyRuns'
    BY <2>1, ConfigIsNoDeployment, Zenon DEF RemedyRuns
  <2>. QED BY <2>1, <2>2, <2>3, Zenon DEF ShootPartsAreServed
<1>3. CASE ApplyShootChart \/ ApplyStorageClasses
  <2>1. cpRun.pc \in {"shootChart", "storageClasses"} /\ objects' = objects
    BY <1>3 DEF ApplyShootChart, ApplyStorageClasses, CreateManagedResource, CPAt
  <2>2. EnabledTemplates \subseteq objects
    BY <2>1 DEF CPResources, Deployed, EnabledTemplates
  <2>3. cpRun.shoot \in ControlShoots
    BY DeployingStatus
  <2>4. CASE ApplyShootChart
    <3>. DEFINE parts == getControlPlaneShootChartValues(cpRun.shoot, [zoned |-> TRUE], Nil).charts
    <3>1. CreateManagedResource("shootChart", "shoot", parts, "storageClasses")
      BY <2>4 DEF ApplyShootChart
    <3>2. parts \in Charts /\ "shoot" \in ManagedResources
      BY ShootPartsType DEF ManagedResources
    <3>3. /\ parts \cap {"csi", "csi-driver-node"} # {} => CSIDeployments \subseteq EnabledTemplates
          /\ "remedy-controller-azure" \in parts => RemedyDeployment \in EnabledTemplates
      BY PartsAreEnabled, Zenon
    <3>. HIDE DEF parts
    <3>. QED BY <2>1, <2>2, <3>1, <3>2, <3>3, CreatedServed, Zenon
  <2>5. CASE ApplyStorageClasses
    <3>. DEFINE parts == {IF getStorageClassesChartValues(cpRun.shoot).useLegacyProvisioner THEN "legacy" ELSE "csi"}
    <3>1. CreateManagedResource("storageClasses", "storageclasses", parts, "success")
      BY <2>5 DEF ApplyStorageClasses
    <3>2. parts \in Charts /\ "storageclasses" \in ManagedResources
      BY ShootPartsType DEF ManagedResources
    <3>3. /\ parts \cap {"csi", "csi-driver-node"} # {} => CSIDeployments \subseteq EnabledTemplates
          /\ "remedy-controller-azure" \in parts => RemedyDeployment \in EnabledTemplates
      BY <2>3, PartsAreEnabled, Zenon
    <3>. HIDE DEF parts
    <3>. QED BY <2>1, <2>2, <3>1, <3>2, <3>3, CreatedServed, Zenon
  <2>. QED BY <1>3, <2>4, <2>5
<1>. QED BY <1>1, <1>2, <1>3 DEF Deploys

LEMMA DeletesServed ==
    ASSUME CPTypeOK, CPControl, CPResources, ShootPartsAreServed, CPActuatorDeletes, CPGoesOn
    PROVE  ShootPartsAreServed'
<1>1. CASE UNCHANGED <<objects, managed>>
  BY <1>1, ServedKept
<1>2. CASE DeleteStorageClasses \/ DeleteShootChart
  <2>1. PICK m \in ManagedResources : managed' = [managed EXCEPT ![m] =
                   IF managed[m] = Nil THEN Nil ELSE [managed[m] EXCEPT !.deleting = TRUE]]
    BY <1>2 DEF DeleteStorageClasses, DeleteShootChart, DeleteManagedResource, ManagedResources
  <2>2. \A n \in ManagedResources : managed'[n] # Nil => managed[n] # Nil /\ managed'[n].holds = managed[n].holds
    BY <2>1 DEF CPTypeOK
  <2>3. objects' = objects
    BY <1>2 DEF DeleteStorageClasses, DeleteShootChart, DeleteManagedResource
  <2>. QED BY <2>2, <2>3, ServedKept
<1>3. CASE DeleteControlPlaneChart \/ DeleteConfigChart \/ DeleteSecrets
  <2>1. cpRun.pc \in {"dropChart", "dropConfig", "dropSecrets"} /\ managed' = managed
    BY <1>3 DEF DeleteControlPlaneChart, DeleteConfigChart, DeleteSecrets, Apply, CPAt
  <2>2. \A m \in ManagedResources : managed'[m] = Nil
    BY <2>1 DEF CPResources, Unmanaged
  <2>. QED BY <2>2, Zenon DEF ShootPartsAreServed
<1>. QED BY <1>1, <1>2, <1>3, DeletesSteps

LEMMA ServedNext == Inv /\ CPControl /\ CPResources /\ ShootPartsAreServed /\ [Next]_vars => ShootPartsAreServed'
<1>. SUFFICES ASSUME Inv, CPControl, CPResources, ShootPartsAreServed, [Next]_vars PROVE ShootPartsAreServed'
  OBVIOUS
<1>1. CPTypeOK
  BY DEF Inv
<1>2. CASE UNCHANGED <<objects, managed>>
  BY <1>2, ServedKept
<1>3. CASE CPController \/ CPFails
  <2>1. CASE CPUnreported \/ CPEnds
    BY <1>1, <1>2, <2>1, CPStoredSteps
  <2>. QED BY <1>1, <1>3, <2>1, CPKinds, DeploysServed, DeletesServed
<1>4. CASE CPRest
  <2>1. CASE \E m \in ManagedResources : ManagedResourceGoes(m)
    <3>1. PICK m \in ManagedResources : managed' = [managed EXCEPT ![m] = Nil] /\ objects' = objects
      BY <2>1 DEF ManagedResourceGoes
    <3>2. \A n \in ManagedResources : managed'[n] # Nil => managed[n] # Nil /\ managed'[n].holds = managed[n].holds
      BY <1>1, <3>1 DEF CPTypeOK
    <3>. QED BY <3>1, <3>2, ServedKept
  <2>. QED BY <1>2, <1>4, <2>1 DEF CPRest, cpVars, RemedyCreates, RemedyReleases, RemedyTouches
<1>5. CASE MoveSeed
  <2>1. \A m \in ManagedResources : managed'[m] = Nil
    BY <1>5 DEF MoveSeed
  <2>. QED BY <2>1, Zenon DEF ShootPartsAreServed
<1>. QED BY <1>2, <1>3, <1>4, <1>5, NextKinds, GardenletSteps

-----------------------------------------------------------------------------
(* The steps that take the remedy controller away, and those that report success *)

RemedyGoes == RemedyDeployment \in objects \ objects'
LEMMA RemedyGoesLast ==
    ASSUME Inv, CPControl, CPResources, [Next]_vars, RemedyGoes
    PROVE  \A r \in RemedyResources : remedies[r] # Nil => ~remedies[r].deleting
<1>1. CPTypeOK
  BY DEF Inv
<1>2. objects' # objects
  BY DEF RemedyGoes
<1>3. CASE CPController \/ CPFails
  <2>1. ~(CPUnreported \/ CPEnds)
    BY <1>1, <1>2, CPStoredSteps
  <2>2. CASE Deploys
    <3>1. CASE DeploySecrets \/ ApplyControlPlaneChart \/ ApplyShootChart \/ ApplyStorageClasses
      <4>1. objects \subseteq objects'
        BY <3>1 DEF DeploySecrets, ApplyControlPlaneChart, ApplyShootChart, ApplyStorageClasses, Apply,
                    CreateManagedResource
      <4>. QED BY <4>1, Zenon DEF RemedyGoes
    <3>2. CASE ApplyConfigChart
      <4>1. objects \ {AcrConfig} \subseteq objects'
        BY <3>2, Zenon DEF ApplyConfigChart, Apply
      <4>. QED BY <4>1, ConfigIsNoDeployment, Zenon DEF RemedyGoes
    <3>. QED BY <2>2, <3>1, <3>2 DEF Deploys
  <2>3. CASE CPActuatorDeletes /\ CPGoesOn
    <3>1. DeleteControlPlaneChart \/ DeleteConfigChart \/ DeleteSecrets
      BY <1>1, <1>2, <2>3, DeletesSteps
    <3>2. cpRun.pc \in {"dropChart", "dropConfig", "dropSecrets"}
      BY <3>1 DEF DeleteControlPlaneChart, DeleteConfigChart, DeleteSecrets, Apply, CPAt
    <3>. QED BY <3>2 DEF CPResources, Erased, RemedyResources
  <2>. QED BY <1>1, <1>3, <2>1, <2>2, <2>3, CPKinds
<1>4. CASE CPRest
  BY <1>2, <1>4 DEF CPRest, cpVars, RemedyCreates, RemedyReleases, RemedyTouches, ManagedResourceGoes
<1>5. CASE MoveSeed
  <2>1. objects \subseteq Leftovers
    BY <1>5 DEF MoveSeed, CPResources, Dropped, Removed
  <2>. QED BY <2>1, RemedyTemplates, Zenon DEF RemedyGoes
<1>. QED BY <1>2, <1>3, <1>4, <1>5, NextKinds, GardenletSteps

Reports == cp'.state = "succeeded" /\ cp.state # "succeeded"
LEMMA ReportsAtTheEnd ==
    ASSUME Inv, CPControl, [Next]_vars, Reports
    PROVE  CPMarkSucceeded
<1>1. cp \in Resource /\ CPTypeOK
  BY DEF Inv, CPTypeOK
<1>2. CASE CPController \/ CPFails
  <2>1. CASE CPUnreported
    <3>1. ~CPDispatch
      BY <1>1 DEF CPDispatch, Taken, Resource, Reports
    <3>2. ~CPEnsureFinalizer /\ ~CPMarkProcessing /\ ~CPUnannotate
      BY <1>1 DEF CPEnsureFinalizer, CPMarkProcessing, Processing, CPUnannotate, Resource, Reports
    <3>3. ~CPRelease
      BY <1>1 DEF CPRelease, Released, Missing, Resource, Reports
    <3>. QED BY <2>1, <3>1, <3>2, <3>3 DEF CPUnreported
  <2>2. CASE CPEnds
    BY <1>1, <2>2, CPEndsResource DEF Reports
  <2>3. CASE CPGoesOn
    BY <2>3 DEF CPGoesOn, Reports
  <2>. QED BY <1>1, <1>2, <2>1, <2>2, <2>3, CPKinds
<1>3. CASE CPRest
  BY <1>1, <1>3, CPRestSame DEF SameControl, Reports
<1>4. CASE Advance \/ RequestMigrate \/ RequestDelete \/ ChangeShoot \/ Crash
  BY <1>1, <1>4
     DEF Advance, RequestMigrate, RequestDelete, ChangeShoot, Crash, DeployWorker, RepeatRequest, Finish,
         MigrateControlPlane, MoveSeed, RestoreWorker, DeleteControlPlane, FinishDeletion, cpVars, New, Missing, Resource,
         Reports
<1>. QED BY <1>2, <1>3, <1>4, NextKinds

LEMMA HealthyAtTheEnd ==
    ASSUME Inv, CPControl, CPResources, [Next]_vars, Reports, Deploying
    PROVE  /\ CheckedDeployments(cpRun.shoot.version) \subseteq objects
           /\ \A m \in ManagedResources : managed[m] # Nil
<1>1. Done({"reconcile", "restore"})
  BY ReportsAtTheEnd DEF CPMarkSucceeded, CPAt, Done, Deploying
<1>2. EnabledTemplates \subseteq objects
  BY <1>1 DEF CPResources, Deployed, EnabledTemplates
<1>3. \A m \in ManagedResources : managed[m] # Nil
  BY <1>1 DEF CPResources, Managed
<1>4. CheckedDeployments(cpRun.shoot.version) \subseteq EnabledTemplates
  BY EnabledChecks, EnabledCSI, Zenon DEF CheckedDeployments
<1>. QED BY <1>2, <1>3, <1>4, Zenon

-----------------------------------------------------------------------------
(* The theorems *)

SeedInv == Inv /\ CPControl /\ CPResources /\ ShootPartsAreServed

LEMMA SeedInvHolds == Spec => []SeedInv
<1>1. Init => SeedInv
  <2>1. Init => ShootPartsAreServed
    <3>1. Init => \A m \in ManagedResources : managed[m] = Nil
      BY DEF Init, CPEmpty
    <3>. QED BY <3>1, ServedWhenNone
  <2>. QED BY <2>1, InvInit, CPControlInit, ResourcesInit DEF SeedInv
<1>2. SeedInv /\ [Next]_vars => SeedInv'
  BY InvNext, CPControlNext, ResourcesNext, ServedNext DEF SeedInv
<1>. QED BY <1>1, <1>2, PTL DEF Spec

\* While the shoot has a storage class of the CSI driver, its node plugin, or
\* what the remedy controller reads, the controller that serves it is deployed
\* in the seed: no order of failed calls, upgrades, migrations and deletions
\* leaves the one without the other.
THEOREM PartsAreServed == Spec => []ShootPartsAreServed
<1>1. SeedInv => ShootPartsAreServed
  BY DEF SeedInv
<1>. QED BY <1>1, SeedInvHolds, PTL

\* The remedy controller's Deployment goes only when none of its resources
\* waits for it to release them, also if the deletion was interrupted and
\* starts again, and if the remedy controller was disabled in between.
THEOREM RemedyStaysForItsResources == Spec => RemedyOutlivesItsResources
<1>1. SeedInv /\ [Next]_vars =>
          [(RemedyDeployment \in objects \ objects') =>
              \A r \in RemedyResources : remedies[r] # Nil => ~remedies[r].deleting]_objects
  BY RemedyGoesLast DEF SeedInv, RemedyGoes
<1>. QED BY <1>1, SeedInvHolds, PTL DEF Spec, RemedyOutlivesItsResources

\* A control plane is reported as reconciled or restored only when every
\* deployment and managed resource its health checks look for exists.
THEOREM ReportedIsHealthy == Spec => HealthyWhenReported
<1>1. SeedInv /\ [Next]_vars =>
          [cp'.state = "succeeded" /\ cp.state # "succeeded" /\ cpRun.job \in {"reconcile", "restore"} =>
              /\ CheckedDeployments(cpRun.shoot.version) \subseteq objects
              /\ \A m \in ManagedResources : managed[m] # Nil]_cp
  BY HealthyAtTheEnd DEF SeedInv, Reports, Deploying
<1>. QED BY <1>1, SeedInvHolds, PTL DEF Spec, HealthyWhenReported

\* A control plane that has been deleted leaves nothing in the seed but the
\* objects no chart deletes: no managed resource, and nothing of the remedy
\* controller.
THEOREM NothingIsLeft == Spec => []ControlPlaneLeavesNothing
<1>1. SeedInv => ControlPlaneLeavesNothing
  BY DEF SeedInv, CPResources, Unmanaged, Dropped, Erased, Removed, ControlPlaneLeavesNothing
<1>. QED BY <1>1, SeedInvHolds, PTL
=============================================================================
