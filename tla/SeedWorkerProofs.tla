-------------------------- MODULE SeedWorkerProofs --------------------------
(***************************************************************************)
(* Proofs about the worker controller in its seed: every virtual machine   *)
(* has a machine wherever MCM runs, also while the worker changes the      *)
(* seed, a deleted worker has left none, and what the controller reports   *)
(* as reconciled has been rolled out.                                      *)
(***************************************************************************)
EXTENDS SeedControlPlaneProofs

Runs(job) == wRun.pc # "idle" /\ wRun.job = job

\* The worker is between two seeds; it is not reconciled meanwhile.
HandedOver ==
    \/ stage \in {"migrateWorker", "migrateControlPlane", "restoreControlPlane"}
    \/ stage = "restoreWorker" /\ worker.annotation = "restore"

\* What the gardenlet has asked for, and the branch its controller is in.
WStages ==
    /\ worker.deleting => stage \in {"deleteWorker", "deleteControlPlane", "deleted"}
    /\ worker.annotation = "restore" => stage = "restoreWorker" /\ worker.type \in {"none", "restore"}
    /\ worker.annotation = "migrate" \/ worker.type = "migrate" => stage \in {"migrateWorker", "migrateControlPlane"}
    /\ stage = "migrateWorker" => worker.annotation = "migrate" \/ IsMigrated(worker)
    /\ stage = "migrateControlPlane" => IsMigrated(worker)
    /\ stage = "restoreControlPlane" => worker.type = "none"
WBranches ==
    /\ Runs("reconcile") => ~HandedOver /\ wRun.type # "migrate"
    /\ Runs("delete") => worker.deleting
    /\ Runs("restore") => worker.annotation = "restore" /\ wRun.spec.pools = wanted.pools
    /\ Runs("migrate") =>
          /\ stage = "migrateWorker" /\ worker.annotation = "migrate"
          /\ wRun.pc # "processing" => worker.type = "migrate"
          /\ wRun.pc \in {"release", "unannotate"} => worker.state = "succeeded"
WControl == WStages /\ WBranches

SavedCount(c) ==
    IF saved[c[1]] # Nil /\ c[2] \in DOMAIN saved[c[1]].sets THEN saved[c[1]].sets[c[2]] ELSE 0
Covered == \A c \in Classes : vms[c] <= machines[c]
Owned   == \A c \in Classes : vms[c] > 0 => deployments[c[1]] # Nil

\* A virtual machine has a machine or, while the worker is handed over, a
\* place in its saved state.
Known ==
    /\ ~HandedOver => Covered
    /\ HandedOver => \A c \in Classes : vms[c] <= SavedCount(c)
    /\ HandedOver => \A d \in Deployments : wanted.pools[d] = Nil => saved[d] = Nil /\ deployments[d] = Nil
    /\ \A c \in Classes : machines[c] > 0 => c \in sets

\* MCM goes before the machines do, and comes back after them.  That it has
\* gone when its deployment has is the hypothesis of the theorems.
Leaves ==
    /\ HandedOver /\ mcm # "absent" =>
          /\ stage = "migrateWorker" /\ ~IsMigrated(worker)
          /\ Covered
          /\ \A c \in Classes : machines[c] <= SavedCount(c) /\ Desired(c) <= SavedCount(c)
    /\ Runs("migrate") /\ wRun.pc \notin {"processing", "dropMCM", "mcmGone"} => mcm = "absent"
    /\ wRun.pc = "dropSets" => \A c \in Classes : machines[c] = 0
Restored == worker.annotation = "restore" /\ worker.type = "restore" /\ worker.state = "succeeded"
Returns ==
    /\ Runs("restore") =>
          /\ wRun.pc \in {"dropMCM", "mcmGone", "restore"} =>
                \A c \in Classes : c[1] \in wRun.todo \/ vms[c] <= machines[c]
          /\ wRun.pc \in {"deploy", "success", "unannotate"} => Covered
          /\ wRun.pc = "deploy" => \A c \in Classes : vms[c] > 0 => c[1] \in wRun.todo \/ deployments[c[1]] # Nil
          /\ wRun.pc \in {"success", "unannotate"} => Owned
    /\ Restored => Covered /\ Owned

\* Nothing is left when the deletion has seen that nothing is left.
Empty == NoMachineResources /\ \A c \in Classes : vms[c] = 0
Deletes ==
    /\ Runs("delete") =>
          /\ wRun.pc \in {"dropMCM", "success", "release"} => Empty
          /\ wRun.pc \in {"success", "release"} => ~MCMDeployed
    /\ WorkerLeavesNothing

WData == Known /\ Leaves /\ Returns /\ Deletes

-----------------------------------------------------------------------------
(* The control of the controller *)

LEMMA WDataInit == Init => WControl /\ WData
<1>. SUFFICES ASSUME Init PROVE WControl /\ WData
  OBVIOUS
<1>1. wRun = WIdle /\ wRun.pc = "idle" /\ stage = "controlPlane" /\ worker = Missing
  BY DEF Init, WEmpty, WIdle
<1>2. ~HandedOver /\ \A job : ~Runs(job)
  BY <1>1 DEF HandedOver, Runs
<1>3. WControl
  BY <1>1, <1>2 DEF WControl, WStages, WBranches, Missing
<1>4. \A c \in Classes : machines[c] = 0 /\ vms[c] = 0
  BY DEF Init, WEmpty
<1>5. Known /\ Leaves /\ Returns
  BY <1>1, <1>2, <1>4 DEF Known, Covered, Leaves, Returns, Restored, Missing
<1>6. WorkerLeavesNothing
  BY DEF Init, WEmpty, WorkerLeavesNothing, NoMachineResources, MCMDeployed
<1>. QED BY <1>2, <1>3, <1>5, <1>6 DEF WData, Deletes

\* What the reconciler writes into the resource.
LEMMA ResourceFields ==
    ASSUME NEW r \in Resource
    PROVE  /\ LET t == Taken(r) IN
                 /\ t.exists = r.exists /\ t.deleting = r.deleting /\ t.type = r.type /\ t.state = r.state
                 /\ t.annotation = IF r.annotation = "reconcile" THEN "none" ELSE r.annotation
           /\ \A type \in Operations : LET p == Processing(r, type) IN
                 /\ p.exists = r.exists /\ p.deleting = r.deleting /\ p.annotation = r.annotation
                 /\ p.type = type /\ p.state = "processing"
           /\ LET s == Succeeded(r) IN
                 /\ s.exists = r.exists /\ s.deleting = r.deleting /\ s.annotation = r.annotation
                 /\ s.type = r.type /\ s.state = "succeeded"
           /\ \A call : \A f \in Failures(r, call) :
                 /\ f.exists = r.exists /\ f.deleting = r.deleting /\ f.annotation = r.annotation /\ f.type = r.type
                 /\ f.state \in {r.state, "error"} /\ (call \in OwnCalls => f.state = r.state)
           /\ ~r.deleting => LET d == Released(r) IN
                 /\ d.exists = r.exists /\ d.deleting = r.deleting /\ d.annotation = r.annotation
                 /\ d.type = r.type /\ d.state = r.state
  BY DEF Taken, Processing, Succeeded, Failures, Failed, Released, Resource

\* A step of the actuator goes on in its branch, or it ends the run.
WPlaces == WSteps \ {"idle", "finalizer", "processing", "release", "unannotate"}
WGoesOn ==
    /\ UNCHANGED <<worker, wanted>>
    /\ wRun'.job = wRun.job /\ wRun'.type = wRun.type /\ wRun'.spec = wRun.spec
    /\ wRun.pc \in WPlaces \ {"success"} /\ wRun'.pc \in WPlaces
WEnds == wRun.pc # "idle" /\ wRun' = WIdle /\ worker' \in Failures(worker, wRun.pc) /\ WStored

Stock == <<saved, mcm, classes, deployments, sets, machines, vms>>

\* A key that is taken, to start a branch or to go no further.
WRefuses == WAt("idle") /\ worker' \in Refusals(worker) /\ wRun' = WIdle /\ WStored
WTakes   == WDispatch \/ WRefuses

LEMMA WFailures == WFails \/ WTimesOut => WEnds \/ WRefuses
<1>1. CASE WFails
  BY <1>1 DEF WFails, WEnds, WRefuses, WAt
<1>2. CASE WTimesOut
  <2>1. wRun.pc \in {"available", "unwantedGone", "allGone"} /\ worker' = Failed(worker)
    BY <1>2 DEF WTimesOut, WAt
  <2>2. worker' \in Failures(worker, wRun.pc)
    BY <2>1 DEF Failures, OwnCalls
  <2>. QED BY <1>2, <2>1, <2>2 DEF WTimesOut, WEnds
<1>. QED BY <1>1, <1>2

LEMMA WActuates ==
    ASSUME WInv, WActuator
    PROVE  WGoesOn \/ WEnds
<1>1. wRun \in WRunSet
  BY WTypes DEF WInv
<1>. USE DEF WPlaces, WSteps, WDeploySteps, WRemoveSteps
<1>2. CASE WSimple
  <2>1. UNCHANGED <<worker, wanted>> /\ wRun.pc \in WPlaces \ {"success"}
    BY <1>2 DEF WSimple, DeployMCM, PauseAutoscaler, ListClasses, HoldAutoscaler, AwaitAvailable, AwaitUnwantedGone,
                StopMCM, ResumeAutoscaler, DropMCM, AwaitMCMGone, AwaitAllGone, WWorks, WAt, wStatus
  <2>2. \/ wRun' = wRun
        \/ \E l \in WPlaces : WGoto(l)
        \/ \E known : wRun' = [wRun EXCEPT !.pc = "classes", !.known = known]
    BY <1>2 DEF WSimple, DeployMCM, PauseAutoscaler, ListClasses, HoldAutoscaler, AwaitAvailable, AwaitUnwantedGone,
                StopMCM, ResumeAutoscaler, DropMCM, AwaitMCMGone, AwaitAllGone, WWorks, WAt, WInv, JobsAt
  <2>. QED BY <1>1, <2>1, <2>2 DEF WGoesOn, WGoto, WRunSet
<1>3. CASE WLoops
  <2>1. CASE ListDeployments
    <3>1. wRun.job \in {"reconcile", "restore", "delete"}
      BY <2>1 DEF ListDeployments, WWorks, WAt, WInv, JobsAt
    <3>. QED BY <1>1, <2>1, <3>1 DEF ListDeployments, WGoesOn, WRunSet, WWorks, WAt, wStatus
  <2>2. CASE AllDeployed \/ AllRestored
    BY <1>1, <2>2 DEF AllDeployed, AllRestored, WGoesOn, WGoto, WRunSet, WWorks, WAt, wStatus
  <2>. QED BY <1>3, <2>1, <2>2 DEF WLoops
<1>4. CASE WCleans
  BY <1>1, <1>4
     DEF WCleans, DeployClasses, CleanClasses, CleanSets, ShallowDeleteMachines, ShallowDeleteSets,
         ShallowDeleteDeployments, ShallowDeleteClasses, WGoesOn, WGoto, WRunSet, WWorks, WAt, wStatus
<1>5. CASE CleanDeployments
  <2>1. CASE \E d \in Unwanted : deployments[d] = Nil
    <3>1. worker' \in Failures(worker, wRun.pc)
      BY <1>5, <2>1 DEF CleanDeployments, Failures, OwnCalls, WAt
    <3>. QED BY <1>5, <2>1, <3>1 DEF CleanDeployments, WEnds, WStored, Machinery, WAt
  <2>2. CASE ~\E d \in Unwanted : deployments[d] = Nil
    BY <1>1, <1>5, <2>2 DEF CleanDeployments, WGoesOn, WGoto, WRunSet, WAt
  <2>. QED BY <2>1, <2>2
<1>6. CASE StoreBounds
  BY <1>1, <1>6 DEF StoreBounds, WGoesOn, WGoto, WRunSet, WAt
<1>7. CASE \E d \in Deployments : DeployDeployment(d) \/ RestoreMachines(d)
  BY <1>1, <1>7 DEF DeployDeployment, RestoreMachines, WGoesOn, WRunSet, WWorks, WAt, wStatus
<1>. QED BY <1>2, <1>3, <1>4, <1>5, <1>6, <1>7 DEF WActuator

LEMMA IdleControl == wRun'.pc = "idle" /\ WStages' => WControl'
  BY DEF WControl, WBranches, Runs

LEMMA WGoesOnControl == WControl /\ WGoesOn /\ UNCHANGED stage => WControl'
  BY DEF WControl, WStages, WBranches, Runs, HandedOver, WGoesOn, WPlaces

\* Which branch may run where the worker is handed over.
LEMMA BranchesRun ==
    ASSUME WInv, RestoreKeepsState, WControl, wRun.pc # "idle"
    PROVE  /\ stage \notin {"migrateControlPlane", "restoreControlPlane"} /\ worker.exists
           /\ Runs("reconcile") \/ Runs("delete") \/ Runs("restore") \/ Runs("migrate")
           /\ stage = "migrateWorker" => Runs("migrate")
           /\ worker.annotation = "restore" => Runs("restore")
<1>1. wRun.job \in WJobs /\ wRun.job # "none"
  BY WTypes DEF WInv, WRunSet, JobsAt
<1>. QED BY <1>1 DEF RestoreKeepsState, Runs, WJobs, WControl, WStages, WBranches, HandedOver

LEMMA WEndsControl ==
    ASSUME WInv, RestoreKeepsState, WControl, WEnds, UNCHANGED stage
    PROVE  WControl' /\ (HandedOver' <=> HandedOver)
<1>1. /\ worker'.exists = worker.exists /\ worker'.deleting = worker.deleting
      /\ worker'.annotation = worker.annotation /\ worker'.type = worker.type
  BY WTypes, ResourceFields DEF WInv, WEnds
<1>2. wRun'.pc = "idle"
  BY WIdleType DEF WEnds
<1>3. WStages'
  <2>1. stage = "migrateWorker" => worker.annotation = "migrate"
    BY BranchesRun DEF WEnds, WControl, WBranches
  <2>. QED BY <1>1, <2>1, BranchesRun DEF WEnds, WControl, WStages
<1>. QED BY <1>1, <1>2, <1>3, IdleControl DEF HandedOver

LEMMA WTakesFields ==
    ASSUME WInv, WTakes
    PROVE  /\ worker'.exists = worker.exists /\ worker'.deleting = worker.deleting
           /\ worker'.type = worker.type /\ worker'.state = worker.state
           /\ worker'.annotation = IF worker.annotation = "reconcile" THEN "none" ELSE worker.annotation
           /\ Branch(worker) # "none" /\ UNCHANGED Stock /\ wanted' = wanted
<1>1. worker \in Resource
  BY WTypes DEF WInv
<1>2. worker' \in {Taken(worker), [Taken(worker) EXCEPT !.queued = TRUE]} /\ Due(worker) /\ WStored
  BY DEF WTakes, WDispatch, WRefuses, Refusals
<1>. QED BY <1>1, <1>2 DEF Taken, Resource, Due, WStored, Machinery, Stock

LEMMA WTakesControl ==
    ASSUME WInv, RestoreKeepsState, WControl, WTakes, UNCHANGED stage
    PROVE  WControl' /\ (HandedOver' <=> HandedOver)
<1>1. /\ worker'.exists = worker.exists /\ worker'.deleting = worker.deleting
      /\ worker'.type = worker.type /\ worker'.state = worker.state
      /\ worker'.annotation = IF worker.annotation = "reconcile" THEN "none" ELSE worker.annotation
      /\ Branch(worker) # "none" /\ wanted' = wanted
  BY WTakesFields
<1>2. stage \notin {"migrateControlPlane", "restoreControlPlane"}
  BY <1>1 DEF RestoreKeepsState
<1>3. WStages'
  BY <1>1, <1>2 DEF WControl, WStages, IsMigrated
<1>4. HandedOver' <=> HandedOver
  BY <1>1 DEF HandedOver
<1>5. CASE WRefuses
  <2>1. wRun'.pc = "idle"
    BY <1>5, WIdleType DEF WRefuses
  <2>. QED BY <1>3, <1>4, <2>1, IdleControl
<1>6. CASE WDispatch
  <2>1. /\ wRun'.job = Branch(worker) /\ wRun'.type = OperationOf(worker) /\ wRun'.spec = wanted
        /\ wRun'.pc = IF Branch(worker) = "reconcile" THEN "finalizer" ELSE "processing"
    BY <1>6 DEF WDispatch, WIdle
  <2>2. ~IsMigrated(worker)
    BY <1>1 DEF Branch
  <2>3. stage = "migrateWorker" <=> OperationType(worker) = "migrate"
    BY <1>2, <2>2 DEF WControl, WStages, OperationType, IsMigrated
  <2>4. stage = "migrateWorker" <=> Branch(worker) = "migrate"
    BY <1>1, <2>3 DEF Branch
  <2>5. worker.annotation = "restore" <=> Branch(worker) = "restore"
    BY <1>1, <2>4 DEF Branch, WControl, WStages
  <2>6. Branch(worker) = "delete" => worker.deleting
    BY DEF Branch
  <2>7. Branch(worker) = "reconcile" => OperationOf(worker) # "migrate"
    BY <2>3, <2>4 DEF OperationOf
  <2>8. stage = "migrateWorker" => worker.annotation = "migrate"
    BY <2>2 DEF WControl, WStages
  <2>9. WBranches'
    BY <1>1, <1>2, <1>4, <2>1, <2>4, <2>5, <2>6, <2>7, <2>8 DEF WBranches, Runs, HandedOver
  <2>. QED BY <1>3, <1>4, <2>9 DEF WControl
<1>. QED BY <1>5, <1>6 DEF WTakes

\* The steps of a branch that write the resource.
WWrites == WEnsureFinalizer \/ WMarkProcessing \/ WMarkSucceeded \/ WRelease \/ WUnannotate

LEMMA WWritesControl ==
    ASSUME WInv, RestoreKeepsState, WControl, WWrites, UNCHANGED stage
    PROVE  /\ WControl'
           /\ (WUnannotate /\ Runs("restore")) \/ (HandedOver' <=> HandedOver)
<1>1. worker \in Resource /\ wRun \in WRunSet /\ wRun.type \in Operations
  BY WTypes DEF WInv, WRunSet
<1>2. wRun.pc # "idle" /\ wanted' = wanted
  BY DEF WWrites, WEnsureFinalizer, WMarkProcessing, WMarkSucceeded, WRelease, WUnannotate, WAt, WStored
<1>3. /\ stage \notin {"migrateControlPlane", "restoreControlPlane"} /\ worker.exists
      /\ Runs("reconcile") \/ Runs("delete") \/ Runs("restore") \/ Runs("migrate")
      /\ stage = "migrateWorker" => Runs("migrate")
      /\ worker.annotation = "restore" => Runs("restore")
      /\ wRun.job # "reconcile" => wRun.type = wRun.job
  BY <1>2, BranchesRun DEF WInv, JobsAt
<1>. USE DEF WControl
<1>4. CASE WEnsureFinalizer
  <2>1. /\ worker'.exists = worker.exists /\ worker'.deleting = worker.deleting
        /\ worker'.annotation = worker.annotation /\ worker'.type = worker.type /\ worker'.state = worker.state
    BY <1>1, <1>4 DEF WEnsureFinalizer, Resource
  <2>2. wRun'.pc = "processing" /\ wRun'.job = wRun.job /\ wRun'.type = wRun.type /\ wRun'.spec = wRun.spec
    BY <1>1, <1>4 DEF WEnsureFinalizer, WGoto, WRunSet
  <2>3. HandedOver' <=> HandedOver
    BY <2>1 DEF HandedOver
  <2>4. WStages'
    BY <2>1 DEF WStages, IsMigrated
  <2>. QED BY <1>2, <2>1, <2>2, <2>3, <2>4 DEF WBranches, Runs
<1>5. CASE WMarkProcessing
  <2>1. /\ worker'.exists = worker.exists /\ worker'.deleting = worker.deleting
        /\ worker'.annotation = worker.annotation /\ worker'.type = wRun.type /\ worker'.state = "processing"
    BY <1>1, <1>5, ResourceFields DEF WMarkProcessing
  <2>2. /\ wRun'.pc = FirstCall /\ wRun'.job = wRun.job /\ wRun'.type = wRun.type
        /\ wRun.spec \in WSpecs => wRun'.spec.pools = wanted.pools
    BY <1>1, <1>5 DEF WMarkProcessing, WRunSet, WSpecs
  <2>3. FirstCall \in {"mcm", "list", "dropMCM"} /\ wRun.spec \in WSpecs
    BY <1>2, <1>3 DEF FirstCall, Runs, WInv, JobsAt
  <2>4. HandedOver' <=> HandedOver
    BY <2>1 DEF HandedOver
  <2>5. WStages'
    BY <1>3, <2>1 DEF WStages, WBranches, Runs, HandedOver
  <2>6. WBranches'
    BY <1>2, <1>3, <2>1, <2>2, <2>3, <2>4 DEF WBranches, Runs
  <2>. QED BY <2>4, <2>5, <2>6
<1>6. CASE WMarkSucceeded
  <2>1. /\ worker'.exists = worker.exists /\ worker'.deleting = worker.deleting
        /\ worker'.annotation = worker.annotation /\ worker'.type = worker.type /\ worker'.state = "succeeded"
    BY <1>1, <1>6, ResourceFields DEF WMarkSucceeded
  <2>2. HandedOver' <=> HandedOver
    BY <2>1 DEF HandedOver
  <2>3. WStages'
    BY <2>1 DEF WStages, IsMigrated
  <2>4. \/ wRun'.pc = "idle"
        \/ /\ wRun'.pc \in {"unannotate", "release"} /\ wRun'.job = wRun.job /\ wRun'.type = wRun.type
           /\ wRun'.spec = wRun.spec /\ wRun.pc = "success"
    BY <1>1, <1>3, <1>6, WIdleType DEF WMarkSucceeded, WGoto, WRunSet, Runs, WAt
  <2>5. WBranches'
    BY <1>2, <2>1, <2>2, <2>4 DEF WBranches, Runs
  <2>. QED BY <2>2, <2>3, <2>5
<1>7. CASE WRelease
  <2>1. wRun.pc = "release" /\ (Runs("delete") \/ Runs("migrate"))
    BY <1>2, <1>7 DEF WRelease, WAt, WInv, JobsAt, Runs
  <2>2. CASE worker.deleting
    <3>1. worker' = Missing /\ Runs("delete") /\ wRun'.pc = "idle"
      BY <1>7, <2>1, <2>2, WIdleType DEF WRelease, Released, WStages, WBranches, Runs
    <3>2. WStages' /\ (HandedOver' <=> HandedOver)
      BY <1>3, <2>2, <3>1 DEF WStages, HandedOver, Missing
    <3>. QED BY <3>1, <3>2, IdleControl
  <2>3. CASE ~worker.deleting
    <3>1. /\ worker'.exists = worker.exists /\ worker'.deleting = worker.deleting
          /\ worker'.annotation = worker.annotation /\ worker'.type = worker.type /\ worker'.state = worker.state
      BY <1>1, <1>7, <2>3, ResourceFields DEF WRelease
    <3>2. HandedOver' <=> HandedOver
      BY <3>1 DEF HandedOver
    <3>3. WStages'
      BY <3>1 DEF WStages, IsMigrated
    <3>4. \/ wRun'.pc = "idle"
          \/ wRun'.pc = "unannotate" /\ wRun'.job = wRun.job /\ wRun'.type = wRun.type /\ wRun'.spec = wRun.spec
      BY <1>1, <1>7, WIdleType DEF WRelease, WGoto, WRunSet
    <3>5. WBranches'
      BY <1>2, <2>1, <3>1, <3>2, <3>4 DEF WBranches, Runs
    <3>. QED BY <3>2, <3>3, <3>5
  <2>. QED BY <2>2, <2>3
<1>8. CASE WUnannotate
  <2>1. /\ worker'.exists = worker.exists /\ worker'.deleting = worker.deleting
        /\ worker'.annotation = "none" /\ worker'.type = worker.type /\ worker'.state = worker.state
    BY <1>1, <1>8 DEF WUnannotate, Resource
  <2>2. Runs("restore") \/ Runs("migrate")
    BY <1>2, <1>8 DEF WUnannotate, WAt, WInv, JobsAt, Runs
  <2>3. wRun.pc = "unannotate" /\ wRun'.pc = "idle"
    BY <1>8, WIdleType DEF WUnannotate, WAt
  <2>4. Runs("migrate") => IsMigrated(worker')
    BY <2>1, <2>3 DEF WBranches, IsMigrated
  <2>5. WStages'
    BY <1>3, <2>1, <2>4 DEF WStages, IsMigrated
  <2>6. Runs("migrate") => (HandedOver' <=> HandedOver)
    BY DEF HandedOver, WBranches
  <2>. QED BY <1>8, <2>2, <2>3, <2>5, <2>6, IdleControl
<1>. QED BY <1>4, <1>5, <1>6, <1>7, <1>8 DEF WWrites

-----------------------------------------------------------------------------
(* Steps that leave the machines alone *)

LEMMA StockKept ==
    ASSUME WData, UNCHANGED Stock, HandedOver' => HandedOver /\ wanted' = wanted,
           HandedOver => HandedOver' \/ Covered,
           HandedOver' /\ mcm # "absent" => stage' = "migrateWorker" /\ ~IsMigrated(worker'),
           Runs("migrate")' /\ wRun'.pc \notin {"processing", "dropMCM", "mcmGone"} => mcm = "absent",
           wRun'.pc # "dropSets",
           Runs("restore")' =>
               wRun'.pc \in {"processing", "list"} \/ (wRun'.pc = "unannotate" /\ Covered /\ Owned),
           Restored' => Covered /\ Owned,
           Runs("delete")' /\ wRun'.pc \in {"dropMCM", "success", "release"} => Empty /\ ~MCMDeployed,
           worker'.exists \/ ~worker.exists \/ (Empty /\ ~MCMDeployed)
    PROVE  WData'
<1>. USE DEF WData, Stock
<1>1. /\ (Covered' <=> Covered) /\ (Owned' <=> Owned) /\ (Empty' <=> Empty) /\ (MCMDeployed' <=> MCMDeployed)
      /\ \A c : SavedCount(c)' = SavedCount(c) /\ Desired(c)' = Desired(c)
  BY DEF Covered, Owned, Empty, NoMachineResources, MCMDeployed, SavedCount, Desired
<1>2. Known'
  BY <1>1 DEF Known
<1>3. Leaves'
  BY <1>1 DEF Leaves
<1>4. Returns'
  BY <1>1 DEF Returns
<1>5. WorkerLeavesNothing'
  BY <1>1 DEF Deletes, WorkerLeavesNothing, Empty, NoMachineResources
<1>6. Deletes'
  BY <1>1, <1>5 DEF Deletes
<1>. QED BY <1>2, <1>3, <1>4, <1>6

LEMMA WEndsData ==
    ASSUME WInv, RestoreKeepsState, WControl, WData, WEnds, UNCHANGED stage
    PROVE  WData'
<1>1. HandedOver' <=> HandedOver
  BY WEndsControl
<1>2. /\ worker'.exists = worker.exists /\ worker'.annotation = worker.annotation /\ worker'.type = worker.type
      /\ worker'.state \in {worker.state, "error"}
  BY WTypes, ResourceFields DEF WInv, WEnds
<1>3. wRun'.pc = "idle" /\ UNCHANGED Stock /\ wanted' = wanted
  BY WIdleType DEF WEnds, WStored, Machinery, Stock
<1>4. (Restored' => Restored) /\ (IsMigrated(worker') => IsMigrated(worker))
  BY <1>2 DEF Restored, IsMigrated
<1>. QED BY <1>1, <1>2, <1>3, <1>4, StockKept DEF Runs, WData, Leaves, Returns

LEMMA WTakesData ==
    ASSUME WInv, RestoreKeepsState, WControl, WData, WTakes, UNCHANGED stage
    PROVE  WData'
<1>1. HandedOver' <=> HandedOver
  BY WTakesControl
<1>2. /\ worker'.exists = worker.exists /\ worker'.type = worker.type /\ worker'.state = worker.state
      /\ worker'.annotation = IF worker.annotation = "reconcile" THEN "none" ELSE worker.annotation
      /\ UNCHANGED Stock /\ wanted' = wanted
  BY WTakesFields
<1>3. wRun'.pc \in {"idle", "finalizer", "processing"} /\ (wRun'.pc = "finalizer" => wRun'.job = "reconcile")
  BY WIdleType DEF WTakes, WDispatch, WRefuses, WIdle
<1>4. (Restored' <=> Restored) /\ (IsMigrated(worker') <=> IsMigrated(worker))
  BY <1>2 DEF Restored, IsMigrated
<1>. QED BY <1>1, <1>2, <1>3, <1>4, StockKept DEF Runs, WData, Leaves, Returns

LEMMA WWritesData ==
    ASSUME WInv, RestoreKeepsState, WControl, WData, WWrites, UNCHANGED stage
    PROVE  WData'
<1>1. worker \in Resource /\ wRun \in WRunSet /\ wRun.type \in Operations
  BY WTypes DEF WInv, WRunSet
<1>2. wRun.pc # "idle" /\ UNCHANGED Stock /\ wanted' = wanted
  BY DEF WWrites, WEnsureFinalizer, WMarkProcessing, WMarkSucceeded, WRelease, WUnannotate, WAt, WStored, Machinery,
         Stock
<1>3. /\ worker.exists /\ (stage = "migrateWorker" => Runs("migrate"))
      /\ Runs("reconcile") \/ Runs("delete") \/ Runs("restore") \/ Runs("migrate")
  BY <1>2, BranchesRun
<1>4. (WUnannotate /\ Runs("restore")) \/ (HandedOver' <=> HandedOver)
  BY WWritesControl
<1>. USE DEF WData, Runs
<1>5. CASE WEnsureFinalizer
  <2>1. /\ worker'.exists = worker.exists /\ worker'.annotation = worker.annotation
        /\ worker'.type = worker.type /\ worker'.state = worker.state
    BY <1>1, <1>5 DEF WEnsureFinalizer, Resource
  <2>2. wRun'.pc = "processing" /\ ~WUnannotate
    BY <1>1, <1>5 DEF WEnsureFinalizer, WGoto, WRunSet, WUnannotate, WAt
  <2>3. (Restored' <=> Restored) /\ (IsMigrated(worker') <=> IsMigrated(worker))
    BY <2>1 DEF Restored, IsMigrated
  <2>. QED BY <1>2, <1>4, <2>1, <2>2, <2>3, StockKept DEF Leaves, Returns
<1>6. CASE WMarkProcessing
  <2>1. worker'.exists = worker.exists /\ worker'.state = "processing"
    BY <1>1, <1>6, ResourceFields DEF WMarkProcessing
  <2>2. /\ wRun'.pc = FirstCall /\ wRun'.job = wRun.job /\ ~WUnannotate
    BY <1>1, <1>6 DEF WMarkProcessing, WRunSet, WUnannotate, WAt
  <2>3. /\ FirstCall \in {"mcm", "list", "dropMCM"} /\ (FirstCall = "dropMCM" <=> wRun.job = "migrate")
        /\ wRun.job = "restore" => FirstCall = "list"
    BY <1>3 DEF FirstCall
  <2>4. ~Restored' /\ ~IsMigrated(worker')
    BY <2>1 DEF Restored, IsMigrated
  <2>. QED BY <1>2, <1>4, <2>1, <2>2, <2>3, <2>4, StockKept DEF Leaves
<1>7. CASE WMarkSucceeded
  <2>1. /\ worker'.exists = worker.exists /\ worker'.annotation = worker.annotation
        /\ worker'.type = worker.type /\ worker'.state = "succeeded"
    BY <1>1, <1>7, ResourceFields DEF WMarkSucceeded
  <2>2. /\ wRun.pc = "success" /\ ~WUnannotate
        /\ \/ wRun'.pc = "idle"
           \/ wRun'.pc = "unannotate" /\ wRun'.job = wRun.job /\ wRun.job = "restore"
           \/ wRun'.pc = "release" /\ wRun'.job = wRun.job /\ wRun.job # "restore"
    BY <1>1, <1>3, <1>7, WIdleType DEF WMarkSucceeded, WGoto, WRunSet, WAt, WUnannotate
  <2>3. Restored' => wRun.job = "restore"
    BY <1>2, <2>1, BranchesRun DEF Restored
  <2>4. Restored' => Covered /\ Owned
    BY <1>2, <2>2, <2>3 DEF Returns
  <2>5. HandedOver /\ mcm # "absent" => stage = "migrateWorker" /\ wRun.job = "migrate"
    BY <1>3 DEF Leaves
  <2>6. HandedOver => mcm = "absent"
    BY <1>2, <2>2, <2>5 DEF Leaves
  <2>7. wRun.job = "migrate" => mcm = "absent"
    BY <1>2, <2>2 DEF Leaves
  <2>. QED BY <1>2, <1>3, <1>4, <2>1, <2>2, <2>4, <2>6, <2>7, StockKept DEF Returns, Deletes
<1>8. CASE WRelease
  <2>1. wRun.pc = "release" /\ wRun.job \in {"delete", "migrate"}
    BY <1>8 DEF WRelease, WAt, WInv, JobsAt
  <2>2. CASE worker.deleting
    <3>1. wRun.job = "delete" /\ worker' = Missing /\ wRun'.pc = "idle" /\ ~WUnannotate
      BY <1>8, <2>1, <2>2, WIdleType
         DEF WRelease, Released, WControl, WStages, WBranches, WUnannotate, WAt
    <3>2. ~HandedOver
      BY <2>2 DEF WControl, WStages, HandedOver
    <3>. QED BY <1>2, <1>4, <2>1, <3>1, <3>2, StockKept DEF Restored, Missing, Deletes
  <2>3. CASE ~worker.deleting
    <3>1. wRun.job = "migrate"
      BY <1>2, <2>1, <2>3 DEF WControl, WBranches
    <3>2. mcm = "absent"
      BY <1>2, <2>1, <3>1 DEF Leaves
    <3>3. /\ worker'.exists = worker.exists /\ worker'.annotation = worker.annotation
          /\ worker'.type = worker.type /\ worker'.state = worker.state
      BY <1>1, <1>8, <2>3, ResourceFields DEF WRelease
    <3>4. Restored' <=> Restored
      BY <3>3 DEF Restored
    <3>5. wRun'.pc = "idle" \/ (wRun'.pc = "unannotate" /\ wRun'.job = "migrate")
      BY <1>1, <1>8, <3>1, WIdleType DEF WRelease, WGoto, WRunSet
    <3>6. ~WUnannotate
      BY <1>8 DEF WRelease, WUnannotate, WAt
    <3>. QED BY <1>2, <1>4, <3>2, <3>3, <3>4, <3>5, <3>6, StockKept DEF Returns
  <2>. QED BY <2>2, <2>3
<1>9. CASE WUnannotate
  <2>1. worker'.exists = worker.exists /\ worker'.annotation = "none"
    BY <1>1, <1>9 DEF WUnannotate, Resource
  <2>2. wRun.pc = "unannotate" /\ wRun'.pc = "idle" /\ wRun.job \in {"restore", "migrate"}
    BY <1>9, WIdleType DEF WUnannotate, WAt, WInv, JobsAt
  <2>3. wRun.job = "restore" => Covered
    BY <1>2, <2>2 DEF Returns
  <2>4. HandedOver' => HandedOver
    BY <2>1 DEF HandedOver
  <2>5. HandedOver => mcm = "absent"
    BY <1>2, <1>3, <2>2 DEF Leaves
  <2>. QED BY <1>2, <1>4, <2>1, <2>2, <2>3, <2>4, <2>5, StockKept DEF Restored
<1>. QED BY <1>5, <1>6, <1>7, <1>8, <1>9 DEF WWrites

-----------------------------------------------------------------------------
(* The actuator: Reconcile and Delete, Migrate, Restore *)

LEMMA ReconcilesData ==
    ASSUME WInv, RestoreKeepsState, WControl, WData, WActuator, WGoesOn, UNCHANGED stage,
           Runs("reconcile") \/ Runs("delete")
    PROVE  WData'
<1>1. /\ wRun \in WRunSet /\ machines \in [Classes -> Counts] /\ vms \in [Classes -> Counts]
      /\ wRun.job \in {"reconcile", "delete"} /\ wRun'.job = wRun.job /\ worker' = worker
  BY WTypes DEF WInv, WTypeOK, Runs, WGoesOn
<1>2. /\ ~HandedOver /\ ~HandedOver' /\ ~Restored' /\ worker'.exists
      /\ wRun.pc \notin {"restore", "dropMachines", "dropSets", "dropDeployments", "dropClasses"}
      /\ wRun.pc \in {"allGone", "dropMCM"} => wRun.job = "delete"
      /\ wRun.pc # "mcmGone"
  BY <1>1, BranchesRun
     DEF WControl, WStages, WBranches, HandedOver, WGoesOn, WInv, JobsAt, Runs, Restored, WPlaces
<1>3. machines' = machines /\ vms' = vms
  BY <1>1, <1>2
     DEF WActuator, WSimple, WLoops, WCleans, DeployMCM, PauseAutoscaler, ListClasses, HoldAutoscaler, AwaitAvailable,
         AwaitUnwantedGone, StopMCM, ResumeAutoscaler, DropMCM, AwaitMCMGone, AwaitAllGone, ListDeployments,
         AllDeployed, AllRestored, DeployClasses, CleanClasses, CleanSets, ShallowDeleteMachines, ShallowDeleteSets,
         ShallowDeleteDeployments, ShallowDeleteClasses, CleanDeployments, StoreBounds, DeployDeployment,
         RestoreMachines, WWorks, WAt, Machinery
<1>4. \A c \in sets : machines[c] > 0 => c \in sets'
  BY <1>1, <1>2
     DEF WActuator, WSimple, WLoops, WCleans, DeployMCM, PauseAutoscaler, ListClasses, HoldAutoscaler, AwaitAvailable,
         AwaitUnwantedGone, StopMCM, ResumeAutoscaler, DropMCM, AwaitMCMGone, AwaitAllGone, ListDeployments,
         AllDeployed, AllRestored, DeployClasses, CleanClasses, CleanSets, ShallowDeleteMachines, ShallowDeleteSets,
         ShallowDeleteDeployments, ShallowDeleteClasses, CleanDeployments, StoreBounds, DeployDeployment,
         RestoreMachines, WWorks, WAt, Machinery
<1>5. /\ wRun'.pc # "dropSets"
      /\ wRun'.pc \in {"dropMCM", "success", "release"} /\ wRun.job = "delete" => AwaitAllGone \/ DropMCM
  <2>1. CASE WSimple
    BY <1>1, <1>2, <2>1
       DEF WSimple, DeployMCM, PauseAutoscaler, ListClasses, HoldAutoscaler, AwaitAvailable, AwaitUnwantedGone, StopMCM,
           ResumeAutoscaler, DropMCM, AwaitMCMGone, AwaitAllGone, WInv, JobsAt, WWorks, WAt, WGoto, WRunSet
  <2>2. CASE WLoops
    BY <1>1, <1>2, <2>2
       DEF WLoops, ListDeployments, AllDeployed, AllRestored, WInv, JobsAt, WWorks, WAt, WGoto, WRunSet
  <2>3. CASE WCleans
    BY <1>1, <1>2, <2>3
       DEF WCleans, DeployClasses, CleanClasses, CleanSets, ShallowDeleteMachines, ShallowDeleteSets,
           ShallowDeleteDeployments, ShallowDeleteClasses, WWorks, WAt, WGoto, WRunSet
  <2>4. CASE CleanDeployments
    BY <1>1, <2>4, WIdleType DEF CleanDeployments, WGoesOn, WPlaces, WGoto, WRunSet
  <2>5. CASE StoreBounds \/ \E d \in Deployments : DeployDeployment(d) \/ RestoreMachines(d)
    BY <1>1, <1>2, <2>5
       DEF StoreBounds, DeployDeployment, RestoreMachines, WInv, JobsAt, WWorks, WAt, WGoto, WRunSet
  <2>. QED BY <2>1, <2>2, <2>3, <2>4, <2>5 DEF WActuator
<1>6. Known'
  BY <1>2, <1>3, <1>4 DEF WData, Known, Covered
<1>7. Leaves' /\ Returns'
  BY <1>1, <1>2, <1>5 DEF Leaves, Returns, Runs
<1>8. Deletes'
  <2>1. CASE AwaitAllGone
    <3>1. wRun'.pc = "dropMCM" /\ UNCHANGED Machinery /\ NoMachineResources
      BY <1>1, <1>2, <2>1 DEF AwaitAllGone, WGoto, WRunSet, WWorks, WAt
    <3>2. \A c \in Classes : vms[c] = 0
      BY <1>1, <1>2, <3>1 DEF WData, Known, Covered, NoMachineResources, Counts
    <3>. QED BY <1>2, <3>1, <3>2 DEF Deletes, Empty, NoMachineResources, Machinery, WorkerLeavesNothing
  <2>2. CASE DropMCM
    <3>1. /\ wRun.pc = "dropMCM" /\ wRun'.pc = "success" /\ ~MCMDeployed'
          /\ UNCHANGED <<classes, deployments, sets, machines, vms>> /\ wRun.job = "delete"
      BY <1>1, <1>2, <2>2 DEF DropMCM, MCMDeployed, WGoto, WRunSet, WWorks, WAt
    <3>2. Empty
      BY <3>1 DEF WData, Deletes, Runs
    <3>. QED BY <1>2, <3>1, <3>2 DEF Deletes, Empty, NoMachineResources, WorkerLeavesNothing
  <2>3. CASE ~AwaitAllGone /\ ~DropMCM
    BY <1>1, <1>2, <1>5, <2>3 DEF Deletes, Runs, WorkerLeavesNothing
  <2>. QED BY <2>1, <2>2, <2>3
<1>. QED BY <1>6, <1>7, <1>8 DEF WData

LEMMA MigratesData ==
    ASSUME WInv, RestoreKeepsState, WControl, WData, WActuator, WGoesOn, UNCHANGED stage, Runs("migrate"), ~MCMOutlives
    PROVE  WData'
<1>. DEFINE acts == DropMCM \/ AwaitMCMGone \/ ShallowDeleteMachines \/ ShallowDeleteSets \/ ShallowDeleteDeployments
                    \/ ShallowDeleteClasses \/ AwaitAllGone
<1>1. /\ wRun \in WRunSet /\ wRun.job = "migrate" /\ wRun'.job = "migrate" /\ worker' = worker /\ wanted' = wanted
      /\ wRun.pc # "processing"
  BY WTypes DEF WInv, Runs, WGoesOn, WPlaces
<1>2. acts
  BY <1>1
     DEF WActuator, WSimple, WLoops, WCleans, DeployMCM, PauseAutoscaler, ListClasses, HoldAutoscaler, AwaitAvailable,
         AwaitUnwantedGone, StopMCM, ResumeAutoscaler, ListDeployments, AllDeployed, AllRestored, WInv, JobsAt,
         DeployClasses, CleanClasses, CleanSets, CleanDeployments, StoreBounds, DeployDeployment, RestoreMachines,
         WWorks, WAt
<1>3. HandedOver' /\ HandedOver /\ ~Restored' /\ worker'.exists
  BY <1>1, BranchesRun DEF WControl, WBranches, HandedOver, Restored, WGoesOn, WPlaces
<1>4. CASE DropMCM
  <2>1. /\ UNCHANGED <<saved, classes, deployments, sets, machines, vms>> /\ wRun'.pc = "mcmGone"
        /\ mcm = "absent" => mcm' = "absent"
    BY <1>1, <1>4 DEF DropMCM, MCMRuns, WWorks, wStatus, WGoto, WRunSet
  <2>2. (Covered' <=> Covered) /\ \A c : SavedCount(c)' = SavedCount(c) /\ Desired(c)' = Desired(c)
    BY <2>1 DEF Covered, SavedCount, Desired
  <2>3. Known' /\ Leaves'
    BY <1>1, <1>3, <2>1, <2>2 DEF WData, Known, Leaves
  <2>. QED BY <1>1, <1>3, <2>1, <2>3 DEF WData, Returns, Deletes, Runs, WorkerLeavesNothing
<1>. SUFFICES ASSUME ~DropMCM PROVE WData'
  BY <1>4
<1>11. mcm' = "absent"
  BY <1>1, <1>2
     DEF WData, Leaves, Runs, AwaitMCMGone, ShallowDeleteMachines, ShallowDeleteSets, ShallowDeleteDeployments,
         ShallowDeleteClasses, AwaitAllGone, WWorks, WAt, Machinery
<1>5. /\ vms' = vms /\ saved' = saved
      /\ deployments' = deployments \/ deployments' = [d \in Deployments |-> Nil]
  BY <1>2
     DEF AwaitMCMGone, ShallowDeleteMachines, ShallowDeleteSets, ShallowDeleteDeployments, ShallowDeleteClasses,
         AwaitAllGone, WWorks, wStatus, Machinery
<1>6. \A c \in Classes : machines'[c] > 0 => c \in sets'
  <2>1. CASE ShallowDeleteSets
    <3>1. \A c \in Classes : machines'[c] = 0
      BY <2>1 DEF ShallowDeleteSets, WWorks, WAt, WData, Leaves
    <3>. QED BY <3>1
  <2>2. CASE ShallowDeleteMachines
    BY <2>2 DEF ShallowDeleteMachines
  <2>3. CASE UNCHANGED <<machines, sets>>
    BY <2>3 DEF WData, Known
  <2>. QED BY <1>2, <2>1, <2>2, <2>3
       DEF AwaitMCMGone, ShallowDeleteDeployments, ShallowDeleteClasses, AwaitAllGone, Machinery
<1>7. wRun'.pc = "dropSets" => \A c \in Classes : machines'[c] = 0
  BY <1>1, <1>2
     DEF AwaitMCMGone, ShallowDeleteMachines, ShallowDeleteSets, ShallowDeleteDeployments, ShallowDeleteClasses,
         AwaitAllGone, WGoto, WRunSet
<1>8. \A c : SavedCount(c)' = SavedCount(c)
  BY <1>5 DEF SavedCount
<1>9. Known'
  BY <1>1, <1>3, <1>5, <1>6, <1>8 DEF WData, Known
<1>10. Leaves' /\ Returns' /\ Deletes'
  BY <1>1, <1>3, <1>7, <1>11 DEF Leaves, Returns, Deletes, Runs, WorkerLeavesNothing
<1>. QED BY <1>9, <1>10 DEF WData

LEMMA SavedType ==
    ASSUME WTypeOK
    PROVE  /\ \A d \in Deployments : saved[d] # Nil =>
                  \A v \in DOMAIN saved[d].sets : v \in Versions /\ saved[d].sets[v] \in Counts
           /\ \A c \in Classes : SavedCount(c) \in Counts
<1>1. ASSUME NEW d \in Deployments, saved[d] # Nil
      PROVE  \A v \in DOMAIN saved[d].sets : v \in Versions /\ saved[d].sets[v] \in Counts
  <2>1. saved[d].sets \in SetStates
    BY <1>1 DEF WTypeOK, SavedState
  <2>2. PICK S \in SUBSET Versions : saved[d].sets \in [S -> Counts]
    BY <2>1 DEF SetStates
  <2>. QED BY <2>2
<1>2. 0 \in Counts
  BY WorkerAssumption DEF Counts
<1>3. \A c \in Classes : c[1] \in Deployments
  BY DEF Classes
<1>. QED BY <1>1, <1>2, <1>3 DEF SavedCount

\* A virtual machine is of a deployment that is restored.
LEMMA KnownRestorable ==
    ASSUME WInv, WData, HandedOver, wRun.spec.pools = wanted.pools, NEW c \in Classes, vms[c] > 0
    PROVE  c[1] \in Restorable
<1>1. c[1] \in Deployments /\ vms[c] \in Nat /\ vms[c] <= SavedCount(c)
  BY DEF WInv, WTypeOK, Counts, WData, Known, Classes
<1>2. saved[c[1]] # Nil /\ DOMAIN saved[c[1]].sets # {}
  <2>1. SavedCount(c) # 0
    BY <1>1
  <2>. QED BY <2>1 DEF SavedCount
<1>3. wanted.pools[c[1]] # Nil
  BY <1>1, <1>2 DEF WData, Known
<1>. QED BY <1>1, <1>2, <1>3 DEF Restorable, WantedNow

LEMMA RestoresData ==
    ASSUME WInv, RestoreKeepsState, WControl, WData, WActuator, WGoesOn, UNCHANGED stage, Runs("restore")
    PROVE  WData'
<1>1. /\ wRun \in WRunSet /\ wRun.job = "restore" /\ wRun'.job = "restore" /\ worker' = worker /\ wanted' = wanted
      /\ machines \in [Classes -> Counts] /\ vms \in [Classes -> Counts] /\ wRun.spec \in WSpecs
  BY WTypes DEF WInv, WTypeOK, JobsAt, Runs, WGoesOn
<1>2. /\ HandedOver /\ HandedOver' /\ worker.exists /\ stage # "migrateWorker"
      /\ wRun.spec.pools = wanted.pools /\ worker.annotation = "restore"
  BY BranchesRun DEF WControl, WStages, WBranches, HandedOver, WGoesOn, WPlaces, Runs
<1>3. CASE ListDeployments \/ DropMCM \/ AwaitMCMGone \/ AllRestored \/ AllDeployed
  <2>1. /\ UNCHANGED <<saved, deployments, sets, machines, vms>> /\ (mcm = "absent" => mcm' = "absent")
        /\ wRun.pc \in {"list", "dropMCM", "mcmGone", "restore", "deploy"}
    BY <1>3
       DEF ListDeployments, DropMCM, AwaitMCMGone, AllRestored, AllDeployed, MCMRuns, WWorks, WAt, wStatus, Machinery
  <2>2. ~Restored' /\ mcm' = "absent"
    BY <1>1, <1>2, <2>1 DEF RestoreKeepsState, Restoring, Restored, WData, Leaves
  <2>3. /\ (Covered' <=> Covered) /\ (Owned' <=> Owned)
        /\ \A c : SavedCount(c)' = SavedCount(c)
    BY <2>1 DEF Covered, Owned, SavedCount
  <2>4. Known'
    BY <1>1, <1>2, <2>1, <2>3 DEF WData, Known
  <2>5. \A c \in Classes : vms[c] > 0 => c[1] \in Restorable
    BY <1>2, KnownRestorable
  <2>6. \A c \in Classes : ~(vms[c] > 0) => vms[c] <= machines[c]
    BY <1>1 DEF Counts
  <2>7. CASE ListDeployments
    <3>1. wRun'.pc = "dropMCM" /\ wRun'.todo = Restorable
      BY <1>1, <2>7 DEF ListDeployments, WRunSet
    <3>. QED BY <1>1, <1>2, <2>1, <2>2, <2>4, <2>5, <2>6, <3>1
         DEF WData, Leaves, Returns, Deletes, Runs, WorkerLeavesNothing
  <2>8. CASE DropMCM \/ AwaitMCMGone
    <3>1. /\ wRun.pc \in {"dropMCM", "mcmGone"} /\ wRun'.pc \in {"mcmGone", "restore"}
          /\ wRun'.todo = wRun.todo
      BY <1>1, <2>8 DEF DropMCM, AwaitMCMGone, WWorks, WAt, WGoto, WRunSet
    <3>. QED BY <1>1, <1>2, <2>1, <2>2, <2>4, <3>1
         DEF WData, Leaves, Returns, Deletes, Runs, WorkerLeavesNothing
  <2>9. CASE AllRestored
    <3>1. wRun.pc = "restore" /\ wRun.todo = {} /\ wRun'.pc = "deploy" /\ wRun'.todo = Restorable
      BY <1>1, <2>9 DEF AllRestored, WWorks, WAt, WRunSet
    <3>2. Covered
      BY <1>1, <3>1 DEF WData, Returns, Runs, Covered
    <3>. QED BY <1>1, <1>2, <2>1, <2>2, <2>3, <2>4, <2>5, <3>1, <3>2
         DEF WData, Leaves, Returns, Deletes, Runs, WorkerLeavesNothing
  <2>10. CASE AllDeployed
    <3>1. wRun.pc = "deploy" /\ wRun.todo = {} /\ wRun'.pc = "success"
      BY <1>1, <2>10 DEF AllDeployed, WWorks, WAt, WGoto, WRunSet
    <3>2. Covered /\ Owned
      BY <1>1, <3>1 DEF WData, Returns, Runs, Owned
    <3>. QED BY <1>1, <1>2, <2>1, <2>2, <2>3, <2>4, <3>1, <3>2
         DEF WData, Leaves, Returns, Deletes, Runs, WorkerLeavesNothing
  <2>. QED BY <1>3, <2>7, <2>8, <2>9, <2>10
<1>4. CASE \E d \in Deployments : RestoreMachines(d)
  <2>1. PICK d \in Deployments : RestoreMachines(d)
    BY <1>4
  <2>2. /\ UNCHANGED <<saved, deployments, vms, mcm>> /\ wRun.pc = "restore" /\ wRun'.pc = "restore"
        /\ wRun'.todo = wRun.todo \ {d} /\ sets' = sets \cup ({d} \X DOMAIN saved[d].sets)
        /\ machines' = [c \in Classes |-> IF c[1] = d /\ c[2] \in DOMAIN saved[d].sets /\ machines[c] < saved[d].sets[c[2]]
                                          THEN saved[d].sets[c[2]] ELSE machines[c]]
    BY <1>1, <2>1 DEF RestoreMachines, WWorks, WAt, wStatus, WRunSet
  <2>3. saved[d] # Nil /\ d \in wRun.todo
    BY <2>1, <2>2 DEF RestoreMachines, WInv, ReadAt
  <2>4. \A v \in DOMAIN saved[d].sets : v \in Versions /\ saved[d].sets[v] \in Counts
    BY <2>1, <2>3, SavedType DEF WInv
  <2>5. ASSUME NEW c \in Classes
        PROVE  /\ machines[c] <= machines'[c] /\ machines'[c] \in Counts
               /\ c[1] = d => SavedCount(c) <= machines'[c]
               /\ machines'[c] > 0 => c \in sets'
    <3>1. c[1] \in Deployments /\ c = <<c[1], c[2]>> /\ machines[c] \in Counts
      BY <1>1 DEF Classes
    <3>2. c[1] = d /\ c[2] \in DOMAIN saved[d].sets => c \in sets'
      BY <2>2, <3>1
    <3>3. machines[c] > 0 => c \in sets
      BY DEF WData, Known
    <3>4. c[1] = d /\ c[2] \in DOMAIN saved[d].sets =>
             SavedCount(c) = saved[d].sets[c[2]] /\ saved[d].sets[c[2]] \in Counts
      BY <2>3, <2>4 DEF SavedCount
    <3>5. c[1] = d /\ c[2] \notin DOMAIN saved[d].sets => SavedCount(c) = 0
      BY DEF SavedCount
    <3>. QED BY <2>2, <3>1, <3>2, <3>3, <3>4, <3>5 DEF Counts
  <2>6. ~Restored' /\ mcm' = "absent"
    BY <1>1, <1>2, <2>2 DEF RestoreKeepsState, Restoring, Restored, WData, Leaves
  <2>7. \A c : SavedCount(c)' = SavedCount(c)
    BY <2>2 DEF SavedCount
  <2>8. Known'
    BY <1>1, <1>2, <2>2, <2>5, <2>7 DEF WData, Known
  <2>9. \A c \in Classes : c[1] \in wRun'.todo \/ vms'[c] <= machines'[c]
    <3>. TAKE c \in Classes
    <3>1. vms[c] <= SavedCount(c) /\ SavedCount(c) \in Nat /\ vms[c] \in Nat /\ machines[c] \in Nat /\ machines'[c] \in Nat
      <4>1. SavedCount(c) \in Counts
        BY SavedType DEF WInv
      <4>. QED BY <1>1, <1>2, <2>5, <4>1 DEF WData, Known, Counts
    <3>2. c[1] \in wRun.todo \/ vms[c] <= machines[c]
      BY <1>1, <2>2 DEF WData, Returns, Runs
    <3>. QED BY <2>2, <2>5, <3>1, <3>2
  <2>. QED BY <1>1, <1>2, <2>2, <2>6, <2>8, <2>9 DEF WData, Leaves, Returns, Deletes, Runs, WorkerLeavesNothing
<1>5. CASE \E d \in Deployments : DeployDeployment(d)
  <2>1. PICK d \in Deployments : DeployDeployment(d)
    BY <1>5
  <2>2. /\ UNCHANGED <<saved, sets, machines, vms, mcm>> /\ wRun.pc = "deploy" /\ wRun'.pc = "deploy"
        /\ wRun'.todo = wRun.todo \ {d} /\ d \in wRun.todo
        /\ \A e \in Deployments : e # d => deployments'[e] = deployments[e]
    BY <1>1, <2>1 DEF DeployDeployment, WWorks, WAt, wStatus, WRunSet, WInv, WTypeOK
  <2>3. deployments'[d] # Nil
    <3>. DEFINE new == [version  |-> wRun.spec.pools[d].version, replicas |-> WantedReplicas(d),
                        deleting |-> IF deployments[d] = Nil THEN FALSE ELSE deployments[d].deleting]
    <3>1. deployments' = [deployments EXCEPT ![d] = new]
      BY <2>1 DEF DeployDeployment
    <3>2. new \in Deployment
      <4>1. wRun.spec.pools[d] \in Pool /\ WantedReplicas(d) \in Counts
        BY <1>1, <2>2, WantedReplicasType DEF WInv, ReadAt, WSpecs, Pools
      <4>2. deployments[d] # Nil => deployments[d].deleting \in BOOLEAN
        BY DEF WInv, WTypeOK, Deployment
      <4>. QED BY <4>1, <4>2 DEF Deployment, Pool
    <3>3. new # Nil
      BY <3>2, StoredAssumption
    <3>. HIDE DEF new
    <3>. QED BY <3>1, <3>3 DEF WInv, WTypeOK
  <2>4. wanted.pools[d] # Nil
    BY <1>2, <2>2 DEF WInv, ReadAt
  <2>5. ~Restored' /\ mcm' = "absent"
    BY <1>1, <1>2, <2>2 DEF RestoreKeepsState, Restoring, Restored, WData, Leaves
  <2>6. (Covered' <=> Covered) /\ \A c : SavedCount(c)' = SavedCount(c)
    BY <2>2 DEF Covered, SavedCount
  <2>7. Known'
    BY <1>1, <1>2, <2>2, <2>4, <2>6 DEF WData, Known
  <2>8. \A c \in Classes : vms'[c] > 0 => c[1] \in wRun'.todo \/ deployments'[c[1]] # Nil
    BY <1>1, <2>2, <2>3 DEF WData, Returns, Runs, Classes
  <2>. QED BY <1>1, <1>2, <2>2, <2>5, <2>6, <2>7, <2>8 DEF WData, Leaves, Returns, Deletes, Runs, WorkerLeavesNothing
<1>6. ListDeployments \/ DropMCM \/ AwaitMCMGone \/ AllRestored \/ AllDeployed
      \/ \E d \in Deployments : RestoreMachines(d) \/ DeployDeployment(d)
  BY <1>1
     DEF WActuator, WSimple, WLoops, WCleans, DeployMCM, PauseAutoscaler, ListClasses, HoldAutoscaler, AwaitAvailable,
         AwaitUnwantedGone, StopMCM, ResumeAutoscaler, AwaitAllGone, WInv, JobsAt, DeployClasses, CleanClasses,
         CleanSets, ShallowDeleteMachines, ShallowDeleteSets, ShallowDeleteDeployments, ShallowDeleteClasses,
         CleanDeployments, StoreBounds, WWorks, WAt
<1>. QED BY <1>3, <1>4, <1>5, <1>6

-----------------------------------------------------------------------------
(* MCM, the autoscaler and the state reconciler *)

SameWorker == UNCHANGED <<worker, wRun, wanted, stage>>
LEMMA SameWorkerControl ==
    SameWorker => /\ (WControl => WControl') /\ (HandedOver' <=> HandedOver) /\ (Restored' <=> Restored)
                  /\ \A job : Runs(job)' <=> Runs(job)
  BY DEF SameWorker, WControl, WStages, WBranches, HandedOver, Runs, Restored

LEMMA RestoredHandedOver ==
    ASSUME WControl
    PROVE  /\ worker.annotation = "restore" => HandedOver /\ stage = "restoreWorker"
           /\ Restored \/ Runs("restore") => HandedOver /\ stage = "restoreWorker"
  BY DEF WControl, WStages, WBranches, HandedOver, Restored

\* What is true wherever MCM runs.
LEMMA WhileMCMRuns ==
    ASSUME WInv, WControl, WData, MCMRuns
    PROVE  /\ Covered /\ ~Restored /\ ~Runs("restore") /\ wRun.pc # "dropSets"
           /\ HandedOver => stage = "migrateWorker"
           /\ worker.exists \/ Empty
           /\ Runs("migrate") => wRun.pc \in {"processing", "dropMCM", "mcmGone"}
<1>1. Covered /\ (HandedOver => stage = "migrateWorker")
  BY DEF WData, Known, Leaves, MCMRuns
<1>2. ~Restored /\ ~Runs("restore")
  BY <1>1, RestoredHandedOver
<1>3. Runs("migrate") => wRun.pc \in {"processing", "dropMCM", "mcmGone"}
  BY DEF WData, Leaves, MCMRuns
<1>4. wRun.pc # "dropSets"
  BY <1>3 DEF WInv, JobsAt, Runs
<1>5. worker.exists \/ Empty
  BY DEF WData, Deletes, WorkerLeavesNothing, Empty
<1>. QED BY <1>1, <1>2, <1>3, <1>4, <1>5

\* MCM has nothing to do where nothing is left, but to end.
MCMActs ==
    \/ \E d \in Deployments : CreateSet(d) \/ FinalizeDeployment(d)
    \/ \E c \in Classes : CreateMachine(c) \/ CreateVM(c) \/ RemoveMachine(c) \/ FinalizeClass(c)

LEMMA MCMNeedsMachines ==
    ASSUME WTypeOK, Empty
    PROVE  ~MCMActs /\ \A d \in Deployments : ~Scale(d)
<1>1. \A c \in Classes : classes[c] = "absent" /\ machines[c] = 0 /\ vms[c] = 0 /\ c \notin sets
  BY DEF Empty, NoMachineResources
<1>2. \A d \in Deployments : deployments[d] = Nil
  BY DEF Empty, NoMachineResources
<1>3. \A c \in Classes : Desired(c) \in Counts /\ ~(0 > Desired(c))
  BY DesiredType DEF Counts
<1>. QED BY <1>1, <1>2, <1>3
         DEF MCMActs, CreateSet, FinalizeDeployment, CreateMachine, CreateVM, RemoveMachine, FinalizeClass, Scale

MCMKeeps ==
    /\ Covered'
    /\ \A c \in Classes : machines'[c] > 0 => c \in sets'
    /\ \A c \in Classes : machines'[c] <= machines[c] \/ machines'[c] <= Desired(c)
    /\ \A c \in Classes : Desired(c)' <= Desired(c)
    /\ \A d \in Deployments : deployments[d] = Nil => deployments'[d] = Nil

LEMMA MCMSteps ==
    ASSUME WTypeOK, Covered, \A c \in Classes : machines[c] > 0 => c \in sets, MCMActs
    PROVE  MCMKeeps
<1>1. machines \in [Classes -> Counts] /\ vms \in [Classes -> Counts] /\ deployments \in Lists
  BY WTypes DEF WTypeOK
<1>2. \A c \in Classes : Desired(c) \in Nat /\ machines[c] \in Nat /\ vms[c] \in Nat /\ vms[c] <= machines[c]
  BY <1>1, DesiredType DEF Counts, Covered
<1>3. ASSUME NEW d \in Deployments, CreateSet(d) \/ FinalizeDeployment(d) PROVE MCMKeeps
  <2>1. \A c \in Classes : Desired(c)' \in {Desired(c), 0}
    <3>1. CASE UNCHANGED deployments
      BY <3>1 DEF Desired
    <3>2. CASE deployments' = [deployments EXCEPT ![d] = Nil]
      BY <1>1, <3>2 DEF Desired, Classes, Lists
    <3>. QED BY <1>3, <3>1, <3>2 DEF CreateSet, FinalizeDeployment
  <2>2. \A c \in Classes : machines[c] > 0 => c \in sets'
    <3>1. CASE CreateSet(d)
      BY <3>1 DEF CreateSet
    <3>2. CASE FinalizeDeployment(d)
      <4>1. \A c \in Classes : c[1] = d => machines[c] = 0
        BY <3>2 DEF FinalizeDeployment, Classes
      <4>. QED BY <3>2, <4>1 DEF FinalizeDeployment
    <3>. QED BY <1>3, <3>1, <3>2
  <2>3. UNCHANGED <<machines, vms>> /\ (deployments' = deployments \/ deployments' = [deployments EXCEPT ![d] = Nil])
    BY <1>3 DEF CreateSet, FinalizeDeployment
  <2>. QED BY <1>1, <1>2, <2>1, <2>2, <2>3 DEF MCMKeeps, Covered, Lists
<1>4. ASSUME NEW c \in Classes, CreateMachine(c) \/ CreateVM(c) \/ RemoveMachine(c) \/ FinalizeClass(c) PROVE MCMKeeps
  <2>1. \A k \in Classes : Desired(k)' = Desired(k)
    BY <1>4 DEF CreateMachine, CreateVM, RemoveMachine, FinalizeClass, Desired
  <2>2. UNCHANGED <<deployments, sets>>
    BY <1>4 DEF CreateMachine, CreateVM, RemoveMachine, FinalizeClass
  <2>3. CASE CreateMachine(c)
    <3>1. machines' = [machines EXCEPT ![c] = machines[c] + 1] /\ vms' = vms /\ machines[c] < Desired(c) /\ c \in sets
      BY <2>3 DEF CreateMachine
    <3>. QED BY <1>1, <1>2, <2>1, <2>2, <3>1 DEF MCMKeeps, Covered
  <2>4. CASE CreateVM(c)
    <3>1. vms' = [vms EXCEPT ![c] = vms[c] + 1] /\ machines' = machines /\ vms[c] < machines[c]
      BY <2>4 DEF CreateVM
    <3>. QED BY <1>1, <1>2, <2>1, <2>2, <3>1 DEF MCMKeeps, Covered
  <2>5. CASE RemoveMachine(c)
    <3>1. /\ machines' = [machines EXCEPT ![c] = machines[c] - 1] /\ machines[c] > Desired(c)
          /\ vms' = [vms EXCEPT ![c] = IF vms[c] >= machines[c] THEN vms[c] - 1 ELSE vms[c]]
      BY <2>5 DEF RemoveMachine
    <3>. QED BY <1>1, <1>2, <2>1, <2>2, <3>1 DEF MCMKeeps, Covered
  <2>6. CASE FinalizeClass(c)
    BY <1>1, <1>2, <2>1, <2>2, <2>6 DEF FinalizeClass, MCMKeeps, Covered
  <2>. QED BY <1>4, <2>3, <2>4, <2>5, <2>6
<1>. QED BY <1>3, <1>4 DEF MCMActs

LEMMA MCMEndsData ==
    ASSUME WData, MCMEnds, UNCHANGED stage
    PROVE  WData'
<1>. USE DEF WData
<1>1. UNCHANGED <<saved, classes, deployments, sets, machines, vms>> /\ SameWorker /\ mcm' = "absent" /\ ~MCMDeployed'
  BY DEF MCMEnds, wStatus, SameWorker, MCMDeployed
<1>2. /\ (Covered' <=> Covered) /\ (Owned' <=> Owned) /\ (Empty' <=> Empty)
      /\ \A c : SavedCount(c)' = SavedCount(c) /\ Desired(c)' = Desired(c)
  BY <1>1 DEF Covered, Owned, Empty, NoMachineResources, SavedCount, Desired
<1>3. Known' /\ Leaves' /\ Returns'
  BY <1>1, <1>2, SameWorkerControl DEF Known, Leaves, Returns, SameWorker
<1>4. Deletes'
  BY <1>1, <1>2, SameWorkerControl DEF Deletes, WorkerLeavesNothing, NoMachineResources, SameWorker
<1>. QED BY <1>3, <1>4

LEMMA MCMData ==
    ASSUME WInv, WControl, WData, MCMActs, UNCHANGED stage
    PROVE  WData'
<1>1. MCMRuns /\ mcm' = mcm /\ saved' = saved /\ SameWorker
  BY DEF MCMActs, CreateSet, FinalizeDeployment, CreateMachine, CreateVM, RemoveMachine, FinalizeClass, MCMWorks,
         wStatus, SameWorker
<1>2. MCMKeeps
  BY <1>1, WhileMCMRuns, MCMSteps DEF WInv, WData, Known
<1>3. \A c \in Classes : SavedCount(c)' = SavedCount(c) /\ SavedCount(c) \in Nat
  <2>1. \A c \in Classes : SavedCount(c) \in Nat
    BY SavedType DEF WInv, Counts
  <2>. QED BY <1>1, <2>1 DEF SavedCount
<1>4. WTypeOK'
  BY MCMInv DEF WInv, MCM, MCMActs
<1>5. \A c \in Classes : /\ machines[c] \in Nat /\ machines'[c] \in Nat /\ vms'[c] \in Nat
                         /\ Desired(c) \in Nat /\ Desired(c)' \in Nat
  <2>1. \A c \in Classes : Desired(c) \in Counts
    BY DesiredType DEF WInv
  <2>2. ASSUME NEW c \in Classes PROVE Desired(c)' \in Nat
    <3>1. c[1] \in Deployments
      BY DEF Classes
    <3>. QED BY <1>4, <3>1 DEF Desired, WTypeOK, Deployment, Counts
  <2>. QED BY <1>4, <2>1, <2>2 DEF WInv, WTypeOK, Counts
<1>6. HandedOver =>
          /\ stage = "migrateWorker" /\ ~IsMigrated(worker)
          /\ \A c \in Classes : machines[c] <= SavedCount(c) /\ Desired(c) <= SavedCount(c)
          /\ \A d \in Deployments : wanted.pools[d] = Nil => saved[d] = Nil /\ deployments[d] = Nil
  BY <1>1 DEF WData, Known, Leaves, MCMRuns
<1>7. HandedOver => \A c \in Classes : /\ machines'[c] <= SavedCount(c) /\ Desired(c)' <= SavedCount(c)
                                       /\ vms'[c] <= SavedCount(c)
  <2>. SUFFICES ASSUME HandedOver, NEW c \in Classes
                PROVE  machines'[c] <= SavedCount(c) /\ Desired(c)' <= SavedCount(c) /\ vms'[c] <= SavedCount(c)
    OBVIOUS
  <2>1. machines[c] <= SavedCount(c) /\ Desired(c) <= SavedCount(c)
    BY <1>6
  <2>2. machines'[c] <= machines[c] \/ machines'[c] <= Desired(c)
    BY <1>2 DEF MCMKeeps
  <2>3. vms'[c] <= machines'[c] /\ Desired(c)' <= Desired(c)
    BY <1>2 DEF MCMKeeps, Covered
  <2>. QED BY <1>3, <1>5, <2>1, <2>2, <2>3
<1>8. Known'
  BY <1>1, <1>2, <1>3, <1>6, <1>7, SameWorkerControl DEF Known, MCMKeeps, SameWorker
<1>9. Leaves'
  BY <1>1, <1>2, <1>3, <1>6, <1>7, SameWorkerControl, WhileMCMRuns DEF Leaves, MCMKeeps, SameWorker
<1>10. Returns'
  BY <1>1, SameWorkerControl, WhileMCMRuns DEF Returns
<1>11. Deletes'
  <2>1. worker.exists /\ (Runs("delete") => wRun.pc \notin {"dropMCM", "success", "release"})
    BY <1>1, MCMNeedsMachines, WhileMCMRuns DEF WInv, WData, Deletes
  <2>. QED BY <1>1, <2>1, SameWorkerControl, WhileMCMRuns DEF Deletes, WorkerLeavesNothing, SameWorker
<1>. QED BY <1>8, <1>9, <1>10, <1>11 DEF WData

LEMMA ScaledDeployments ==
    ASSUME WTypeOK, WTypeOK', NEW d \in Deployments, Scale(d)
    PROVE  /\ deployments[d] # Nil /\ deployments'[d] # Nil /\ bounds[d] # Nil
           /\ deployments'[d].version = deployments[d].version /\ deployments'[d].deleting = deployments[d].deleting
           /\ bounds[d].min <= deployments'[d].replicas /\ autoscaler
           /\ \A e \in Deployments : e # d => deployments'[e] = deployments[e]
<1>1. PICK n \in bounds[d].min .. bounds[d].max : deployments' = [deployments EXCEPT ![d].replicas = n]
  BY DEF Scale
<1>2. deployments' = [deployments EXCEPT ![d] = [deployments[d] EXCEPT !.replicas = n]]
  BY <1>1
<1>3. deployments[d] \in Deployment /\ bounds[d] # Nil /\ autoscaler
  BY DEF Scale, WTypeOK
<1>4. /\ deployments'[d] = [deployments[d] EXCEPT !.replicas = n]
      /\ \A e \in Deployments : e # d => deployments'[e] = deployments[e]
  BY <1>2 DEF WTypeOK
<1>5. bounds[d].min \in Nat /\ bounds[d].max \in Nat /\ n \in Counts
  BY <1>3, WorkerAssumption DEF WTypeOK, Counts
<1>6. deployments'[d] \in Deployment
  BY <1>3, <1>4, <1>5 DEF Deployment
<1>7. bounds[d].min <= n
  BY <1>5
<1>. QED BY <1>3, <1>4, <1>6, <1>7, StoredAssumption DEF Deployment

LEMMA ScaleData ==
    ASSUME WInv, WControl, WData, NEW d \in Deployments, Scale(d), stage # "migrateWorker", UNCHANGED stage
    PROVE  WData'
<1>1. /\ UNCHANGED <<saved, mcm, classes, sets, machines, vms>> /\ SameWorker
      /\ deployments[d] # Nil /\ ~Empty
  BY MCMNeedsMachines DEF Scale, wStatus, SameWorker, WInv
<1>2. \A e \in Deployments : deployments'[e] = Nil <=> deployments[e] = Nil
  <2>1. WTypeOK /\ WTypeOK'
    BY ScaleInv DEF WInv
  <2>. QED BY <2>1, ScaledDeployments
<1>3. (Covered' <=> Covered) /\ \A c : SavedCount(c)' = SavedCount(c)
  BY <1>1 DEF Covered, SavedCount
<1>4. Owned' <=> Owned
  <2>1. \A c \in Classes : c[1] \in Deployments
    BY DEF Classes
  <2>. QED BY <1>1, <1>2, <2>1 DEF Owned
<1>5. Known'
  BY <1>1, <1>2, <1>3, SameWorkerControl DEF WData, Known, SameWorker
<1>6. Leaves'
  BY <1>1, <1>3, SameWorkerControl DEF WData, Leaves, SameWorker
<1>7. Returns'
  <2>1. \A c \in Classes : c[1] \in Deployments
    BY DEF Classes
  <2>. QED BY <1>1, <1>2, <1>3, <1>4, <2>1, SameWorkerControl DEF WData, Returns, SameWorker
<1>8. Deletes'
  BY <1>1, SameWorkerControl DEF WData, Deletes, WorkerLeavesNothing, Empty, MCMDeployed, SameWorker
<1>. QED BY <1>5, <1>6, <1>7, <1>8 DEF WData

LEMMA SyncStateData ==
    ASSUME WInv, RestoreKeepsState, WControl, WData, SyncState, UNCHANGED stage
    PROVE  WData'
<1>1. UNCHANGED <<mcm, classes, deployments, sets, machines, vms>> /\ SameWorker /\ saved' = CurrentState /\ StatesSync
  BY DEF SyncState, Machinery, SameWorker
<1>2. HandedOver => Restored
  BY <1>1 DEF StatesSync, OperationType, HandedOver, Restored, WControl, WStages, IsMigrated
<1>3. (Covered' <=> Covered) /\ (Owned' <=> Owned) /\ \A c : Desired(c)' = Desired(c)
  BY <1>1 DEF Covered, Owned, Desired
<1>4. HandedOver => Covered /\ Owned /\ mcm = "absent"
  BY <1>2, RestoredHandedOver DEF WData, Returns, Leaves
<1>5. ASSUME NEW c \in Classes, HandedOver PROVE vms[c] <= SavedCount(c)'
  <2>1. c[1] \in Deployments /\ c[2] \in Versions /\ c = <<c[1], c[2]>>
    BY DEF Classes
  <2>2. vms[c] \in Nat /\ machines[c] \in Nat /\ vms[c] <= machines[c]
    BY <1>4, <1>5 DEF WInv, WTypeOK, Counts, Covered
  <2>3. CASE vms[c] = 0
    <3>1. WTypeOK'
      BY SyncStateInv DEF WInv
    <3>2. SavedCount(c)' \in Counts
      <4>1. saved'[c[1]] # Nil => saved'[c[1]] \in SavedState
        BY <2>1, <3>1 DEF WTypeOK
      <4>2. ASSUME saved'[c[1]] # Nil, c[2] \in DOMAIN saved'[c[1]].sets PROVE saved'[c[1]].sets[c[2]] \in Counts
        <5>1. PICK S \in SUBSET Versions : saved'[c[1]].sets \in [S -> Counts]
          BY <4>1, <4>2 DEF SavedState, SetStates
        <5>. QED BY <4>2, <5>1
      <4>. QED BY <4>2, WorkerAssumption DEF SavedCount, Counts
    <3>. QED BY <2>3, <3>2 DEF Counts
  <2>4. CASE vms[c] # 0
    <3>1. machines[c] > 0 /\ vms[c] > 0
      BY <2>2, <2>4
    <3>2. c[2] \in SetsOf(c[1]) /\ deployments[c[1]] # Nil
      BY <1>4, <1>5, <2>1, <3>1 DEF WData, Known, Owned, SetsOf
    <3>. DEFINE state == [replicas |-> deployments[c[1]].replicas,
                          sets |-> [v \in SetsOf(c[1]) |-> machines[<<c[1], v>>]]]
    <3>3. saved'[c[1]] = state
      BY <1>1, <2>1, <3>2 DEF CurrentState
    <3>4. state # Nil
      <4>1. state \in SavedState
        <5>1. SetsOf(c[1]) \in SUBSET Versions
          BY DEF SetsOf
        <5>2. [v \in SetsOf(c[1]) |-> machines[<<c[1], v>>]] \in [SetsOf(c[1]) -> Counts]
          BY <2>1, <5>1 DEF WInv, WTypeOK, Classes
        <5>3. deployments[c[1]].replicas \in Counts
          BY <2>1, <3>2 DEF WInv, WTypeOK, Deployment
        <5>. QED BY <5>1, <5>2, <5>3 DEF SavedState, SetStates
      <4>. QED BY <4>1, StoredAssumption
    <3>5. c[2] \in DOMAIN state.sets /\ state.sets[c[2]] = machines[c]
      BY <2>1, <3>2
    <3>. HIDE DEF state
    <3>6. SavedCount(c)' = machines[c]
      BY <3>3, <3>4, <3>5 DEF SavedCount
    <3>. QED BY <2>2, <3>6
  <2>. QED BY <2>3, <2>4
<1>6. HandedOver => \A d \in Deployments : wanted.pools[d] = Nil => saved'[d] = Nil /\ deployments[d] = Nil
  BY <1>1 DEF CurrentState, WData, Known
<1>7. Known'
  BY <1>1, <1>3, <1>5, <1>6, SameWorkerControl DEF WData, Known, SameWorker
<1>8. Leaves'
  BY <1>1, <1>4, SameWorkerControl DEF WData, Leaves, SameWorker
<1>9. Returns'
  BY <1>1, <1>3, SameWorkerControl DEF WData, Returns, SameWorker
<1>10. Deletes'
  BY <1>1, SameWorkerControl
     DEF WData, Deletes, WorkerLeavesNothing, Empty, NoMachineResources, MCMDeployed, SameWorker
<1>. QED BY <1>7, <1>8, <1>9, <1>10 DEF WData

-----------------------------------------------------------------------------
(* The gardenlet *)

WorkerInv == WControl /\ WData

\* What the gardenlet asks for while no seed hands the worker over.
LEMMA TurnsKept ==
    ASSUME Inv, WorkerInv, ChangeShoot \/ DeployWorker \/ RepeatRequest \/ Finish \/ RequestDelete
    PROVE  /\ WorkerInv'
           /\ ~HandedOver /\ ~HandedOver' /\ ~Restored' /\ ~Runs("restore") /\ UNCHANGED Stock /\ wRun' = wRun
<1>1. worker \in Resource /\ worker.annotation \in Annotations /\ UNCHANGED Stock /\ wRun' = wRun
  BY DEF Inv, WInv, WTypeOK, Resource, ChangeShoot, DeployWorker, RepeatRequest, Finish, RequestDelete, WElse,
         Machinery, wVars, wStatus, Stock
<1>2. /\ stage \notin {"migrateWorker", "migrateControlPlane", "restoreControlPlane"} /\ ~HandedOver
      /\ stage' \in {"controlPlane", "worker", "done", "deleteWorker"}
      /\ stage \notin {"deleteWorker", "deleteControlPlane", "deleted"}
      /\ worker.annotation # "restore"
  BY DEF ChangeShoot, DeployWorker, RepeatRequest, Finish, RequestDelete, MayTurn, Ready, IsHealthy, WorkerInv,
         WControl, WStages, HandedOver
<1>3. ~HandedOver'
  BY <1>2 DEF HandedOver
<1>4. ~Runs("migrate") /\ ~Runs("restore")
  BY <1>2 DEF WorkerInv, WControl, WStages, WBranches
<1>5. worker.annotation # "migrate" /\ worker.type # "migrate" /\ ~worker.deleting
  BY <1>2 DEF WorkerInv, WControl, WStages
<1>6. /\ worker'.annotation \in {worker.annotation, "reconcile"} /\ worker'.type # "migrate"
      /\ worker.exists => worker'.exists
      /\ worker'.deleting => stage' = "deleteWorker"
  BY <1>1, <1>5
     DEF ChangeShoot, DeployWorker, RepeatRequest, Finish, RequestDelete, New, Missing, Resource, wVars, wStatus
<1>7. \A job : Runs(job)' <=> Runs(job)
  BY <1>1 DEF Runs
<1>8. ~Runs("delete")
  BY <1>5 DEF WorkerInv, WControl, WBranches
<1>9. WControl'
  BY <1>1, <1>2, <1>3, <1>4, <1>5, <1>6, <1>7, <1>8 DEF WorkerInv, WControl, WStages, WBranches
<1>10. ~Restored'
  BY <1>2, <1>6 DEF Restored
<1>11. WData'
  <2>1. wRun.pc = "dropSets" => Runs("migrate")
    BY DEF Inv, WInv, JobsAt, Runs
  <2>. QED BY <1>1, <1>2, <1>3, <1>4, <1>6, <1>7, <1>8, <1>10, <2>1, StockKept DEF WorkerInv
<1>. QED BY <1>1, <1>2, <1>3, <1>4, <1>9, <1>10, <1>11 DEF WorkerInv

\* The worker is handed over as it is, with the state that was saved of it.
LEMMA RequestMigrateKept ==
    ASSUME Inv, WorkerInv, RequestMigrate
    PROVE  /\ WorkerInv'
           /\ HandedOver' /\ ~Restored' /\ wRun'.pc = "idle" /\ UNCHANGED Stock
<1>1. /\ worker \in Resource /\ UNCHANGED Stock /\ wRun' = wRun /\ wRun.pc = "idle" /\ wanted' = wanted
      /\ stage = "done" /\ stage' = "migrateWorker"
  BY DEF Inv, WInv, WTypeOK, RequestMigrate, WElse, Machinery, wVars, wStatus, Stock, WAt
<1>2. /\ worker'.annotation = "migrate" /\ worker'.exists = worker.exists /\ worker'.type = worker.type
      /\ worker'.deleting = worker.deleting
  BY <1>1 DEF RequestMigrate, Resource
<1>3. WControl'
  BY <1>1, <1>2, IdleControl DEF WorkerInv, WControl, WStages
<1>4. HandedOver' /\ ~HandedOver /\ ~Restored' /\ \A job : ~Runs(job)'
  BY <1>1, <1>2 DEF HandedOver, Restored, Runs
<1>5. \A c \in Classes : machines[c] = Desired(c) /\ vms[c] = machines[c]
  BY DEF RequestMigrate
<1>6. \A c \in Classes : /\ SavedCount(c)' = SavedCount(c) /\ Desired(c)' = Desired(c)
                         /\ machines'[c] = machines[c] /\ vms'[c] = vms[c]
  BY <1>1 DEF SavedCount, Desired, Stock
<1>7. ASSUME NEW c \in Classes PROVE machines[c] <= SavedCount(c) /\ machines[c] \in Nat
  <2>1. c[1] \in Deployments /\ c[2] \in Versions /\ c = <<c[1], c[2]>>
    BY DEF Classes
  <2>2. machines[c] \in Nat /\ SavedCount(c) \in Nat
    BY SavedType DEF Inv, WInv, WTypeOK, Counts
  <2>3. CASE machines[c] = 0
    BY <2>2, <2>3
  <2>4. CASE machines[c] # 0
    <3>1. machines[c] > 0
      BY <2>2, <2>4
    <3>2. c \in sets /\ deployments[c[1]] # Nil
      BY <1>5, <2>4, <3>1 DEF WorkerInv, WData, Known, Desired
    <3>3. c[2] \in SetsOf(c[1])
      BY <2>1, <3>2 DEF SetsOf
    <3>. DEFINE state == [replicas |-> deployments[c[1]].replicas,
                          sets |-> [v \in SetsOf(c[1]) |-> machines[<<c[1], v>>]]]
    <3>4. saved[c[1]] = state
      BY <2>1, <3>2, <3>3 DEF RequestMigrate, CurrentState
    <3>5. state # Nil
      <4>1. state \in SavedState
        <5>1. SetsOf(c[1]) \in SUBSET Versions
          BY DEF SetsOf
        <5>2. [v \in SetsOf(c[1]) |-> machines[<<c[1], v>>]] \in [SetsOf(c[1]) -> Counts]
          BY <2>1, <5>1 DEF Inv, WInv, WTypeOK, Classes
        <5>3. deployments[c[1]].replicas \in Counts
          BY <2>1, <3>2 DEF Inv, WInv, WTypeOK, Deployment
        <5>. QED BY <5>1, <5>2, <5>3 DEF SavedState, SetStates
      <4>. QED BY <4>1, StoredAssumption
    <3>6. c[2] \in DOMAIN state.sets /\ state.sets[c[2]] = machines[c]
      BY <2>1, <3>3
    <3>. HIDE DEF state
    <3>7. SavedCount(c) = machines[c]
      BY <3>4, <3>5, <3>6 DEF SavedCount
    <3>. QED BY <2>2, <3>7
  <2>. QED BY <2>3, <2>4
<1>8. \A d \in Deployments : wanted.pools[d] = Nil => saved[d] = Nil /\ deployments[d] = Nil
  BY DEF RequestMigrate, CurrentState
<1>9. Known'
  BY <1>1, <1>4, <1>5, <1>6, <1>7, <1>8 DEF WorkerInv, WData, Known, Stock
<1>10. Leaves'
  <2>1. ~IsMigrated(worker')
    BY <1>1, <1>2 DEF IsMigrated, WorkerInv, WControl, WStages
  <2>2. Covered'
    BY <1>5, <1>6, <1>7 DEF Covered
  <2>3. \A c \in Classes : machines'[c] <= SavedCount(c)' /\ Desired(c)' <= SavedCount(c)'
    BY <1>5, <1>6, <1>7
  <2>. QED BY <1>1, <1>4, <2>1, <2>2, <2>3 DEF Leaves
<1>11. Returns' /\ Deletes'
  BY <1>1, <1>2, <1>4 DEF Returns, Deletes, WorkerInv, WData, WorkerLeavesNothing, NoMachineResources, MCMDeployed,
                                Stock
<1>. QED BY <1>1, <1>3, <1>4, <1>9, <1>10, <1>11 DEF WorkerInv, WData

\* The other steps of a move to another seed, and the end of a deletion.
LEMMA MovesKept ==
    ASSUME Inv, WorkerInv,
           MigrateControlPlane \/ MoveSeed \/ RestoreWorker \/ DeleteControlPlane \/ FinishDeletion
    PROVE  /\ WorkerInv'
           /\ (HandedOver' <=> HandedOver) /\ ~Restored' /\ UNCHANGED Stock /\ wRun' = wRun /\ wanted' = wanted
<1>1. worker \in Resource /\ UNCHANGED Stock /\ wRun' = wRun /\ wanted' = wanted
  BY DEF Inv, WInv, WTypeOK, MigrateControlPlane, MoveSeed, RestoreWorker, DeleteControlPlane, FinishDeletion, WElse,
         Machinery, wVars, wStatus, Stock
<1>2. \A job : Runs(job)' <=> Runs(job)
  BY <1>1 DEF Runs
<1>3. CASE MigrateControlPlane \/ MoveSeed \/ RestoreWorker
  <2>1. wRun.pc = "idle"
    BY <1>3 DEF MigrateControlPlane, MoveSeed, RestoreWorker, WAt, Inv, RestoreKeepsState
  <2>2. HandedOver /\ HandedOver'
    BY <1>1, <1>3 DEF HandedOver, MigrateControlPlane, MoveSeed, RestoreWorker, Resource
  <2>3. mcm = "absent"
    BY <1>3, <2>2 DEF MigrateControlPlane, MoveSeed, RestoreWorker, WorkerInv, WData, Leaves
  <2>4. ~worker.deleting
    BY <1>3 DEF MigrateControlPlane, MoveSeed, RestoreWorker, WorkerInv, WControl, WStages
  <2>5. WStages' /\ ~Restored' /\ (worker'.exists \/ ~worker.exists)
    <3>1. CASE MigrateControlPlane
      BY <2>4, <3>1, RestoredHandedOver
         DEF MigrateControlPlane, wVars, wStatus, WorkerInv, WControl, WStages, Restored, IsMigrated
    <3>2. CASE MoveSeed
      BY <3>2 DEF MoveSeed, New, Missing, WStages, Restored
    <3>3. CASE RestoreWorker
      BY <1>1, <2>4, <3>3 DEF RestoreWorker, Resource, WorkerInv, WControl, WStages, Restored
    <3>. QED BY <1>3, <3>1, <3>2, <3>3
  <2>6. WControl'
    BY <1>1, <2>1, <2>5, IdleControl
  <2>7. WData'
    BY <1>1, <1>2, <2>1, <2>2, <2>3, <2>5, StockKept DEF WorkerInv, Runs
  <2>. QED BY <1>1, <2>2, <2>5, <2>6, <2>7 DEF WorkerInv
<1>4. CASE DeleteControlPlane \/ FinishDeletion
  <2>1. /\ worker' = worker /\ stage \in {"deleteWorker", "deleteControlPlane"}
        /\ stage' \in {"deleteControlPlane", "deleted"}
    BY <1>4 DEF DeleteControlPlane, FinishDeletion, wVars, wStatus
  <2>2. ~HandedOver /\ ~HandedOver'
    BY <2>1 DEF HandedOver
  <2>3. WControl'
    BY <1>1, <1>2, <2>1, <2>2 DEF WorkerInv, WControl, WStages, WBranches
  <2>4. ~Restored' /\ ~Runs("restore") /\ ~Runs("migrate") /\ wRun.pc # "dropSets"
    BY <2>1 DEF WorkerInv, WControl, WStages, WBranches, Restored, Inv, WInv, JobsAt, Runs
  <2>5. Runs("delete") /\ wRun.pc \in {"dropMCM", "success", "release"} => Empty
    BY DEF WorkerInv, WData, Deletes
  <2>6. wRun.pc # "idle" => worker.exists
    BY DEF Inv, RestoreKeepsState
  <2>7. WData'
    <3>1. (Covered' <=> Covered) /\ (Empty' <=> Empty)
      BY <1>1 DEF Covered, Empty, NoMachineResources, Stock
    <3>2. Known'
      BY <1>1, <2>2, <3>1 DEF WorkerInv, WData, Known, Stock
    <3>3. Leaves' /\ Returns'
      BY <1>1, <1>2, <2>2, <2>4 DEF Leaves, Returns
    <3>4. Deletes'
      BY <1>1, <1>2, <2>1, <3>1
         DEF WorkerInv, WData, Deletes, WorkerLeavesNothing, NoMachineResources, MCMDeployed, Stock
    <3>. QED BY <3>2, <3>3, <3>4 DEF WData
  <2>. QED BY <1>1, <2>2, <2>3, <2>4, <2>7 DEF WorkerInv
<1>. QED BY <1>3, <1>4

LEMMA CrashKept == Inv /\ WorkerInv /\ Crash => WorkerInv'
<1>. SUFFICES ASSUME Inv, WorkerInv, Crash PROVE WorkerInv'
  OBVIOUS
<1>1. wRun'.pc = "idle" /\ UNCHANGED Stock /\ wanted' = wanted /\ stage' = stage
  BY WIdleType DEF Crash, Machinery, Stock
<1>2. /\ worker'.exists = worker.exists /\ worker'.annotation = worker.annotation /\ worker'.type = worker.type
      /\ worker'.state = worker.state /\ worker'.deleting = worker.deleting
  BY DEF Inv, WInv, WTypeOK, Resource, Crash
<1>3. /\ HandedOver' <=> HandedOver
      /\ Restored' <=> Restored
      /\ IsMigrated(worker') <=> IsMigrated(worker)
  BY <1>1, <1>2 DEF HandedOver, Restored, IsMigrated
<1>4. WControl'
  <2>1. WStages'
    BY <1>1, <1>2, <1>3 DEF WorkerInv, WControl, WStages
  <2>. QED BY <1>1, <2>1, IdleControl
<1>5. WData'
  BY <1>1, <1>2, <1>3, StockKept DEF WorkerInv, WData, Leaves, Returns, Runs
<1>. QED BY <1>4, <1>5 DEF WorkerInv

-----------------------------------------------------------------------------
(* The theorems *)

LEMMA WControllerKept ==
    ASSUME Inv, WorkerInv, WController \/ WFails, UNCHANGED stage, ~MCMOutlives
    PROVE  WorkerInv'
<1>. USE DEF Inv, WorkerInv
<1>1. CASE WEnds
  BY <1>1, WEndsControl, WEndsData
<1>2. CASE WTakes
  BY <1>2, WTakesControl, WTakesData
<1>3. CASE WFails \/ WTimesOut
  BY <1>1, <1>2, <1>3, WFailures DEF WTakes
<1>4. CASE WWrites
  BY <1>4, WWritesControl, WWritesData
<1>5. CASE WActuator
  <2>1. CASE WGoesOn
    <3>1. wRun.pc # "idle"
      BY <2>1 DEF WGoesOn, WPlaces
    <3>. QED BY <1>5, <2>1, <3>1, WGoesOnControl, BranchesRun, ReconcilesData, MigratesData, RestoresData
  <2>. QED BY <1>1, <1>5, <2>1, WActuates
<1>. QED BY <1>2, <1>3, <1>4, <1>5 DEF WController, WTakes, WWrites, WActuator, WSimple, WLoops, WCleans

LEMMA SameKept == WorkerInv /\ UNCHANGED <<wVars, stage>> => WorkerInv'
<1>. SUFFICES ASSUME WorkerInv, UNCHANGED <<wVars, stage>> PROVE WorkerInv'
  OBVIOUS
<1>. USE DEF WorkerInv, WData, wVars, wStatus
<1>1. SameWorker
  BY DEF SameWorker
<1>2. /\ (Covered' <=> Covered) /\ (Owned' <=> Owned) /\ (Empty' <=> Empty)
      /\ \A c : SavedCount(c)' = SavedCount(c) /\ Desired(c)' = Desired(c)
  BY DEF Covered, Owned, Empty, NoMachineResources, SavedCount, Desired
<1>3. Known' /\ Leaves' /\ Returns'
  BY <1>1, <1>2, SameWorkerControl DEF Known, Leaves, Returns, SameWorker
<1>4. Deletes'
  BY <1>1, <1>2, SameWorkerControl DEF Deletes, WorkerLeavesNothing, NoMachineResources, MCMDeployed, SameWorker
<1>. QED BY <1>1, <1>3, <1>4, SameWorkerControl

LEMMA WorkerInvNext ==
    ASSUME Inv, WorkerInv, [Next]_vars, ~MCMOutlives
    PROVE  WorkerInv'
<1>1. CASE UNCHANGED <<wVars, stage>>
  BY <1>1, SameKept
<1>2. CASE (WController \/ WFails) /\ UNCHANGED stage
  BY <1>2, WControllerKept
<1>3. CASE (SyncState \/ MCM \/ \E d \in Deployments : stage # "migrateWorker" /\ Scale(d)) /\ UNCHANGED stage
  <2>1. SameWorker
    BY <1>3 DEF SyncState, MCM, MCMEnds, CreateSet, FinalizeDeployment, CreateMachine, CreateVM, RemoveMachine,
                FinalizeClass, MCMWorks, Scale, wStatus, SameWorker
  <2>2. WControl'
    BY <2>1, SameWorkerControl DEF WorkerInv
  <2>3. WData'
    BY <1>3, SyncStateData, MCMData, MCMEndsData, ScaleData DEF Inv, WorkerInv, MCM, MCMActs
  <2>. QED BY <2>2, <2>3 DEF WorkerInv
<1>4. CASE Advance \/ Request \/ Crash
  BY <1>4, TurnsKept, RequestMigrateKept, MovesKept, CrashKept DEF Advance, Request
<1>. QED BY <1>1, <1>2, <1>3, <1>4
     DEF Next, CPStep, WStep, CallFails, Remedy, ResourceManager, Machines, Events, Keeps, vars

LEMMA WorkerInvHolds == ASSUME ~MCMOutlives PROVE Spec => [](Inv /\ WorkerInv)
<1>1. Init => Inv /\ WorkerInv
  BY InvInit, WDataInit DEF WorkerInv
<1>2. Inv /\ WorkerInv /\ [Next]_vars => (Inv /\ WorkerInv)'
  BY InvNext, WorkerInvNext
<1>. QED BY <1>1, <1>2, PTL DEF Spec

\* Where MCM's pod goes before the wait for its deployment ends, MCM runs only
\* where every virtual machine has a machine: on its way to another seed and
\* back into service a worker never shows MCM one to delete, however often its
\* migration, its restoration or the saving of its state fails, is interrupted or
\* starts again.  The code does not see to the hypothesis: it waits for the
\* deployment alone, and without it NoOrphans does not hold.
THEOREM MachinesAreKept == ASSUME ~MCMOutlives PROVE Spec => []NoOrphans
<1>1. Inv /\ WorkerInv => NoOrphans
  BY WhileMCMRuns DEF Inv, WorkerInv, NoOrphans, Covered
<1>. QED BY <1>1, WorkerInvHolds, PTL

\* A worker that has been deleted has left no machine in Azure and nothing in
\* the seed, and a deleted control plane nothing but what no chart deletes,
\* where MCM's pod goes before the wait for its deployment ends.
THEOREM DeletionIsComplete == ASSUME ~MCMOutlives PROVE Spec => []DeletionLeavesNothing
<1>1. Inv /\ WorkerInv => WorkerLeavesNothing
  BY DEF WorkerInv, WData, Deletes
<1>. QED BY <1>1, WorkerInvHolds, NothingIsLeft, PTL DEF DeletionLeavesNothing

-----------------------------------------------------------------------------
(* What the controller reports as reconciled *)

\* The hypothesis of the theorem: no pool may be without a machine.
Machined(pools) == \A d \in Deployments : pools[d] # Nil => pools[d].min > 0 /\ pools[d].max > 0
PoolsHaveMachines == \A s \in Shoots : Machined(s.pools)
Asked ==
    /\ Machined(wanted.pools)
    /\ wRun.pc # "idle" => Machined(wRun.spec.pools)
    /\ \A d \in Deployments : bounds[d] # Nil => bounds[d].min > 0

\* Every machine is of a deployment or, while the worker is handed over, of
\* one that is saved.
HasDeployment == \A c \in Classes : machines[c] > 0 => deployments[c[1]] # Nil
Kept(d) == wanted.pools[d] # Nil /\ saved[d] # Nil /\ DOMAIN saved[d].sets # {}
Owners ==
    /\ ~HandedOver \/ Restored => HasDeployment
    /\ HandedOver => \A c \in Classes : machines[c] > 0 => Kept(c[1])
    /\ Runs("restore") =>
          /\ wRun.pc = "deploy" => \A c \in Classes : machines[c] > 0 => c[1] \in wRun.todo \/ deployments[c[1]] # Nil
          /\ wRun.pc \in {"success", "unannotate"} => HasDeployment

\* What a reconciliation has established, call by call.
PastClean     == {"cleanSets", "stopMCM", "resume", "bounds", "success"}
PastAvailable == {"cleanDeployments", "cleanClasses", "unwantedGone"} \cup PastClean
PastDeploy    == {"available"} \cup PastAvailable
PastList      == {"deploy"} \cup PastDeploy
PastClasses   == {"list"} \cup PastList
PastMCM       == {"pause", "listClasses", "classes"} \cup PastClasses

DeployedNow(d) ==
    /\ WasLeaving(d) \/ deployments[d] # Nil
    /\ deployments[d] # Nil =>
          /\ deployments[d].version = wRun.spec.pools[d].version
          /\ IF Hibernated THEN autoscaler \/ deployments[d].replicas = 0 ELSE deployments[d].replicas > 0
RunsNow(d) ==
    /\ \A v \in Versions :
          machines[<<d, v>>] > 0 =>
              /\ v = wRun.spec.pools[d].version
              /\ IF Hibernated THEN autoscaler ELSE classes[<<d, v>>] # "absent"
    /\ ~Hibernated /\ deployments[d] # Nil /\ ~deployments[d].deleting => machines[ClassOf(d)] > 0

ScalersSet ==
    /\ wRun.pc \in PastMCM /\ ~Hibernated => mcm = "running"
    /\ wRun.pc \in {"resume", "bounds", "success"} /\ Hibernated => mcm = "stopped"
    /\ wRun.pc \in PastMCM \ {"pause"} /\ Hibernated /\ Autoscaled => ~autoscaler
ClassesReady == \A d \in WantedNow : classes[ClassOf(d)] = "absent" => vms[ClassOf(d)] = 0
DeploymentsReady ==
    \A d \in WantedNow : /\ deployments[d] # Nil /\ deployments[d].deleting => WasLeaving(d)
                         /\ d \notin wRun.todo => DeployedNow(d)
MachinesReady == \A d \in WantedNow : RunsNow(d)
Reached ==
    /\ wRun.pc \in PastClasses => ClassesReady
    /\ wRun.pc \in PastList => DeploymentsReady
    /\ wRun.pc \in PastDeploy => wRun.todo = {}
    /\ wRun.pc \in PastAvailable => MachinesReady
    /\ wRun.pc \in PastClean => UnwantedGone
Rolling == Runs("reconcile") => ScalersSet /\ Reached

LEMMA StepKinds ==
    ASSUME Inv, [Next]_vars
    PROVE  \/ UNCHANGED <<wVars, stage>>
           \/ (WController \/ WFails) /\ UNCHANGED stage
           \/ (SyncState \/ MCM \/ \E d \in Deployments : stage # "migrateWorker" /\ Scale(d)) /\ UNCHANGED stage
           \/ Advance \/ Request \/ Crash
  BY DEF Next, CPStep, WStep, CallFails, Remedy, ResourceManager, Machines, Events, Keeps, vars

LEMMA WKinds ==
    ASSUME WInv, WController \/ WFails
    PROVE  WEnds \/ WTakes \/ WWrites \/ (WActuator /\ WGoesOn)
<1>1. WActuator => WGoesOn \/ WEnds
  BY WActuates
<1>. QED BY <1>1, WFailures DEF WController, WTakes, WWrites, WActuator, WSimple, WLoops, WCleans

LEMMA AskedInit == PoolsHaveMachines /\ Init => Asked
<1>. SUFFICES ASSUME PoolsHaveMachines, Init PROVE Asked
  OBVIOUS
<1>1. wRun.pc = "idle"
  BY DEF Init, WEmpty, WIdle
<1>2. Machined(wanted.pools)
  BY DEF Init, PoolsHaveMachines
<1>3. \A d \in Deployments : bounds[d] = Nil
  BY DEF Init
<1>. QED BY <1>1, <1>2, <1>3 DEF Asked

LEMMA AskedNext ==
    ASSUME PoolsHaveMachines, Inv, Asked, [Next]_vars
    PROVE  Asked'
<1>1. WInv /\ wRun \in WRunSet /\ WIdle.pc = "idle"
  BY WTypes DEF Inv, WInv, WIdle
<1>2. Machined(wanted'.pools) /\ (wanted' = wanted \/ wRun' = wRun)
  <2>1. CASE DeployWorker
    <3>1. wanted'.pools = shoot.pools /\ wRun' = wRun
      BY <2>1 DEF DeployWorker, WElse
    <3>. QED BY <3>1 DEF PoolsHaveMachines, Inv, SeedType
  <2>2. CASE ~DeployWorker
    <3>1. wanted' = wanted
      BY <2>2, StepKinds, WKinds, <1>1
         DEF WEnds, WTakes, WDispatch, WRefuses, WWrites, WGoesOn, WEnsureFinalizer, WMarkProcessing, WMarkSucceeded,
             WRelease, WUnannotate, WStored, SyncState, MCM, MCMEnds, CreateSet, FinalizeDeployment, CreateMachine,
             CreateVM, RemoveMachine, FinalizeClass, MCMWorks, Scale, Advance, Request, ChangeShoot, RepeatRequest,
             Finish, RequestMigrate, MigrateControlPlane, MoveSeed, RestoreWorker, RequestDelete, DeleteControlPlane,
             FinishDeletion, Crash, wVars
    <3>. QED BY <3>1 DEF Asked
  <2>. QED BY <2>1, <2>2
<1>3. wRun'.pc # "idle" => Machined(wRun'.spec.pools)
  <2>1. CASE wRun'.pc = "idle" \/ wRun'.spec = wanted \/ (wRun.pc # "idle" /\ wRun'.spec = wRun.spec) \/ wRun' = wRun
    BY <2>1 DEF Asked
  <2>2. CASE (WController \/ WFails) /\ UNCHANGED stage
    <3>1. CASE WMarkProcessing
      <4>1. wRun.spec \in WSpecs
        BY <1>1, <3>1 DEF WMarkProcessing, WAt, WInv, JobsAt
      <4>2. wRun'.spec.pools = wanted.pools
        BY <1>1, <3>1, <4>1 DEF WMarkProcessing, WRunSet, WSpecs
      <4>. QED BY <4>2 DEF Asked
    <3>2. CASE WTakes
      BY <1>1, <2>1, <3>2 DEF WTakes, WDispatch, WRefuses, WIdle
    <3>3. CASE WEnds \/ WGoesOn
      BY <1>1, <2>1, <3>3 DEF WEnds, WGoesOn, WPlaces
    <3>4. CASE WEnsureFinalizer \/ WMarkSucceeded \/ WRelease \/ WUnannotate
      <4>1. wRun' = WIdle \/ (wRun.pc # "idle" /\ wRun'.spec = wRun.spec)
        BY <1>1, <3>4 DEF WEnsureFinalizer, WMarkSucceeded, WRelease, WUnannotate, WGoto, WRunSet, WInv, JobsAt,
                          WJobs, WAt
      <4>. QED BY <1>1, <2>1, <4>1
    <3>. QED BY <1>1, <2>2, <3>1, <3>2, <3>3, <3>4, WKinds DEF WWrites
  <2>3. CASE ~((WController \/ WFails) /\ UNCHANGED stage)
    <3>1. wRun' = wRun \/ wRun' = WIdle
      BY <2>3, StepKinds
         DEF SyncState, MCM, MCMEnds, CreateSet, FinalizeDeployment, CreateMachine, CreateVM, RemoveMachine,
             FinalizeClass, MCMWorks, Scale, Advance, Request, ChangeShoot, DeployWorker, RepeatRequest, Finish,
             RequestMigrate, MigrateControlPlane, MoveSeed, RestoreWorker, RequestDelete, DeleteControlPlane,
             FinishDeletion, Crash, WElse, wVars
    <3>. QED BY <1>1, <2>1, <3>1
  <2>. QED BY <2>2, <2>3
<1>4. \A d \in Deployments : bounds'[d] # Nil => bounds'[d].min > 0
  <2>1. CASE StoreBounds
    <3>1. wRun.pc # "idle"
      BY <2>1 DEF StoreBounds, WAt
    <3>2. \A d \in WantedNow : wRun.spec.pools[d].min > 0
      BY <3>1 DEF WantedNow, Asked, Machined
    <3>. QED BY <2>1, <3>2 DEF StoreBounds, Asked
  <2>2. CASE MoveSeed
    BY <2>2 DEF MoveSeed
  <2>3. CASE ~StoreBounds /\ ~MoveSeed
    <3>1. bounds' = bounds
      <4>1. WActuator => bounds' = bounds
        BY <2>3
           DEF WActuator, WSimple, WLoops, WCleans, DeployMCM, PauseAutoscaler, ListClasses, HoldAutoscaler,
               AwaitAvailable, AwaitUnwantedGone, StopMCM, ResumeAutoscaler, DropMCM, AwaitMCMGone, AwaitAllGone,
               ListDeployments, AllDeployed, AllRestored, DeployClasses, CleanClasses, CleanSets,
               ShallowDeleteMachines, ShallowDeleteSets, ShallowDeleteDeployments, ShallowDeleteClasses,
               CleanDeployments, DeployDeployment, RestoreMachines, WWorks, wStatus
      <4>. QED BY <1>1, <2>3, <4>1, StepKinds, WKinds
         DEF WEnds, WTakes, WDispatch, WRefuses, WWrites, WEnsureFinalizer, WMarkProcessing, WMarkSucceeded, WRelease,
             WUnannotate, WStored, SyncState, MCM, MCMEnds, CreateSet, FinalizeDeployment, CreateMachine, CreateVM,
             RemoveMachine, FinalizeClass, MCMWorks, Scale, Advance, Request, ChangeShoot, DeployWorker,
             RepeatRequest, Finish, RequestMigrate, MigrateControlPlane, RestoreWorker, RequestDelete,
             DeleteControlPlane, FinishDeletion, Crash, WElse, wVars, wStatus
    <3>. QED BY <3>1 DEF Asked
  <2>. QED BY <2>1, <2>2, <2>3
<1>. QED BY <1>2, <1>3, <1>4 DEF Asked

\* The machines of a worker that is handed over are in its saved state.
LEMMA SavedMeansKept ==
    ASSUME WInv, Known, HandedOver, NEW c \in Classes, SavedCount(c) > 0
    PROVE  Kept(c[1])
<1>1. c[1] \in Deployments
  BY DEF Classes
<1>2. saved[c[1]] # Nil /\ DOMAIN saved[c[1]].sets # {}
  BY DEF SavedCount
<1>. QED BY <1>1, <1>2 DEF Known, Kept

LEMMA OwnersInit == Init => Owners
<1>. SUFFICES ASSUME Init PROVE Owners
  OBVIOUS
<1>1. wRun.pc = "idle" /\ ~HandedOver
  BY DEF Init, WEmpty, WIdle, HandedOver
<1>2. \A c \in Classes : machines[c] = 0
  BY DEF Init, WEmpty
<1>. QED BY <1>1, <1>2 DEF Owners, HasDeployment, Runs

LEMMA OwnersKept ==
    ASSUME Owners, UNCHANGED <<deployments, machines>>,
           HandedOver' => HandedOver /\ UNCHANGED <<wanted, saved>>,
           HandedOver => HandedOver' \/ HasDeployment,
           Restored' => HasDeployment,
           Runs("restore")' => wRun'.pc # "deploy" /\ (wRun'.pc \in {"success", "unannotate"} => HasDeployment)
    PROVE  Owners'
<1>1. HasDeployment' <=> HasDeployment
  BY DEF HasDeployment
<1>2. HandedOver' => \A d : Kept(d)' <=> Kept(d)
  BY DEF Kept
<1>. QED BY <1>1, <1>2 DEF Owners

LEMMA OwnersControllers ==
    ASSUME Inv, WorkerInv, Owners, WEnds \/ WTakes \/ WWrites, UNCHANGED stage
    PROVE  Owners'
<1>1. WInv /\ RestoreKeepsState /\ WControl /\ WData /\ worker \in Resource /\ wRun \in WRunSet
  BY WTypes DEF Inv, WorkerInv, WInv
<1>2. UNCHANGED <<deployments, machines, saved, wanted>>
  BY DEF WEnds, WTakes, WDispatch, WRefuses, WWrites, WEnsureFinalizer, WMarkProcessing, WMarkSucceeded, WRelease,
         WUnannotate, WStored, Machinery
<1>3. CASE WEnds
  <2>1. (HandedOver' <=> HandedOver) /\ wRun'.pc = "idle"
    BY <1>1, <1>3, WEndsControl, WIdleType DEF WEnds
  <2>2. Restored' => Restored
    BY <1>1, <1>3, ResourceFields DEF WEnds, Restored
  <2>. QED BY <1>2, <2>1, <2>2, OwnersKept DEF Owners, Runs
<1>4. CASE WTakes
  <2>1. HandedOver' <=> HandedOver
    BY <1>1, <1>4, WTakesControl
  <2>2. wRun'.pc \in {"idle", "finalizer", "processing"}
    BY <1>4, WIdleType DEF WTakes, WDispatch, WRefuses, WIdle
  <2>3. Restored' => Restored
    BY <1>1, <1>4, WTakesFields DEF Restored
  <2>. QED BY <1>2, <2>1, <2>2, <2>3, OwnersKept DEF Owners
<1>5. CASE WEnsureFinalizer \/ WMarkProcessing
  <2>1. HandedOver' <=> HandedOver
    BY <1>1, <1>5, WWritesControl DEF WWrites, WUnannotate, WEnsureFinalizer, WMarkProcessing, WAt
  <2>2. Restored' => Restored
    <3>1. WMarkProcessing => worker'.state = "processing"
      <4>1. wRun.type \in Operations
        BY <1>1 DEF WRunSet
      <4>. QED BY <1>1, <4>1, ResourceFields DEF WMarkProcessing
    <3>2. WEnsureFinalizer => Restored' = Restored
      BY <1>1 DEF WEnsureFinalizer, Restored, Resource
    <3>. QED BY <1>5, <3>1, <3>2 DEF Restored
  <2>3. wRun'.pc \in {"processing", "mcm", "list", "dropMCM"}
    <3>1. wRun.job \in {"reconcile", "restore", "migrate", "delete"}
      BY <1>1, <1>5 DEF WEnsureFinalizer, WMarkProcessing, WAt, WInv, JobsAt, WRunSet, WJobs
    <3>. QED BY <1>1, <1>5, <3>1 DEF WEnsureFinalizer, WMarkProcessing, WGoto, WRunSet, FirstCall
  <2>. QED BY <1>2, <2>1, <2>2, <2>3, OwnersKept DEF Owners
<1>6. CASE WMarkSucceeded
  <2>1. /\ wRun.pc = "success" /\ (HandedOver' <=> HandedOver)
        /\ worker'.annotation = worker.annotation /\ worker'.type = worker.type
    BY <1>1, <1>6, ResourceFields, WWritesControl DEF WWrites, WUnannotate, WMarkSucceeded, WAt
  <2>2. /\ worker.annotation = "restore" => Runs("restore")
        /\ Runs("reconcile") \/ Runs("delete") \/ Runs("restore") \/ Runs("migrate")
    BY <1>1, <2>1, BranchesRun
  <2>3. /\ wRun'.pc \in {"idle", "unannotate", "release"}
        /\ wRun'.pc # "idle" => wRun'.job = wRun.job
    BY <1>1, <1>6, <2>2, WIdleType DEF WMarkSucceeded, WGoto, WRunSet, Runs
  <2>4. Runs("restore") => HasDeployment
    BY <2>1 DEF Owners
  <2>5. Restored' \/ Runs("restore")' => Runs("restore")
    BY <2>1, <2>2, <2>3 DEF Restored, Runs
  <2>. QED BY <1>2, <2>1, <2>3, <2>4, <2>5, OwnersKept
<1>7. CASE WRelease
  <2>1. (HandedOver' <=> HandedOver) /\ wRun.pc = "release"
    BY <1>1, <1>7, WWritesControl DEF WWrites, WUnannotate, WRelease, WAt
  <2>2. wRun.job # "restore" /\ (wRun'.pc = "idle" \/ wRun'.job = wRun.job)
    BY <1>1, <1>7, <2>1, WIdleType DEF WInv, JobsAt, WRelease, WGoto, WRunSet
  <2>3. Restored' => Restored
    BY <1>1, <1>7, ResourceFields DEF WRelease, Released, Restored, Missing
  <2>. QED BY <1>2, <2>1, <2>2, <2>3, OwnersKept DEF Owners, Runs
<1>8. CASE WUnannotate
  <2>1. wRun.pc = "unannotate" /\ wRun'.pc = "idle" /\ ~Restored' /\ (Runs("restore") \/ (HandedOver' <=> HandedOver))
    BY <1>1, <1>8, WIdleType, WWritesControl DEF WWrites, WUnannotate, WAt, Restored, Resource
  <2>2. HandedOver' => HandedOver
    BY <1>1, <1>8 DEF WUnannotate, HandedOver, Resource
  <2>3. Runs("restore") => HasDeployment
    BY <2>1 DEF Owners
  <2>. QED BY <1>2, <2>1, <2>2, <2>3, OwnersKept DEF Runs
<1>. QED BY <1>3, <1>4, <1>5, <1>6, <1>7, <1>8 DEF WWrites

LEMMA ReconcileActs ==
    ASSUME WInv, WActuator, Runs("reconcile") \/ Runs("delete")
    PROVE  /\ UNCHANGED <<machines, vms>>
           /\ ~(\E d \in Deployments : RestoreMachines(d)) /\ ~AllRestored
           /\ ~ShallowDeleteMachines /\ ~ShallowDeleteSets /\ ~ShallowDeleteDeployments /\ ~ShallowDeleteClasses
           /\ Runs("reconcile") => ~DropMCM /\ ~AwaitMCMGone /\ ~AwaitAllGone
<1>1. /\ wRun.pc \notin {"restore", "dropMachines", "dropSets", "dropDeployments", "dropClasses"}
      /\ wRun.pc \in {"allGone", "dropMCM", "mcmGone"} => ~Runs("reconcile")
  BY DEF WInv, JobsAt, Runs
<1>2. /\ ~(\E d \in Deployments : RestoreMachines(d)) /\ ~AllRestored
      /\ ~ShallowDeleteMachines /\ ~ShallowDeleteSets /\ ~ShallowDeleteDeployments /\ ~ShallowDeleteClasses
      /\ Runs("reconcile") => ~DropMCM /\ ~AwaitMCMGone /\ ~AwaitAllGone
  BY <1>1 DEF RestoreMachines, AllRestored, ShallowDeleteMachines, ShallowDeleteSets, ShallowDeleteDeployments,
              ShallowDeleteClasses, DropMCM, AwaitMCMGone, AwaitAllGone, WWorks, WAt
<1>3. UNCHANGED <<machines, vms>>
  BY <1>2
     DEF WActuator, WSimple, WLoops, WCleans, DeployMCM, PauseAutoscaler, ListClasses, HoldAutoscaler, AwaitAvailable,
         AwaitUnwantedGone, StopMCM, ResumeAutoscaler, DropMCM, AwaitMCMGone, AwaitAllGone, ListDeployments,
         AllDeployed, DeployClasses, CleanClasses, CleanSets, CleanDeployments, StoreBounds, DeployDeployment,
         Machinery
<1>. QED BY <1>2, <1>3

\* What a call makes of a deployment: it may write it, and mark it as deleted.
LEMMA DeploymentsWritten ==
    ASSUME WInv, WGoesOn, NEW e \in Deployments, DeployDeployment(e)
    PROVE  /\ e \in wRun.todo /\ wRun.pc = "deploy" /\ wRun'.pc = "deploy" /\ wRun'.todo = wRun.todo \ {e}
           /\ wRun'.listed = wRun.listed
           /\ wRun.spec.pools[e] # Nil /\ deployments'[e] # Nil
           /\ deployments'[e].version = wRun.spec.pools[e].version /\ deployments'[e].replicas = WantedReplicas(e)
           /\ deployments'[e].deleting => deployments[e] # Nil /\ deployments[e].deleting
           /\ \A d \in Deployments : d # e => deployments'[d] = deployments[d]
<1>1. WTypeOK /\ wRun \in WRunSet /\ deployments \in Lists
  BY WTypes DEF WInv
<1>2. /\ wRun.spec \in WSpecs /\ wRun.listed \in Lists /\ e \in wRun.todo /\ wRun.pc = "deploy"
      /\ wRun.spec.pools[e] # Nil
  BY DEF WInv, JobsAt, ReadAt, DeployDeployment, WWorks, WAt
<1>. DEFINE new == [version  |-> wRun.spec.pools[e].version, replicas |-> WantedReplicas(e),
                    deleting |-> IF deployments[e] = Nil THEN FALSE ELSE deployments[e].deleting]
<1>3. new \in Deployment
  <2>1. wRun.spec.pools[e] \in Pool /\ WantedReplicas(e) \in Counts
    BY <1>1, <1>2, WantedReplicasType DEF WSpecs, Pools
  <2>2. deployments[e] # Nil => deployments[e].deleting \in BOOLEAN
    BY <1>1 DEF Lists, Deployment
  <2>. QED BY <2>1, <2>2 DEF Deployment, Pool
<1>4. deployments' = [deployments EXCEPT ![e] = new]
  BY DEF DeployDeployment
<1>5. /\ new.version = wRun.spec.pools[e].version /\ new.replicas = WantedReplicas(e)
      /\ new.deleting => deployments[e] # Nil /\ deployments[e].deleting
  OBVIOUS
<1>6. new # Nil
  BY <1>3, StoredAssumption
<1>7. wRun'.pc = "deploy" /\ wRun'.todo = wRun.todo \ {e} /\ wRun'.listed = wRun.listed
  BY <1>1, <1>2 DEF DeployDeployment, WRunSet
<1>8. deployments'[e] = new /\ \A d \in Deployments : d # e => deployments'[d] = deployments[d]
  <2>. HIDE DEF new
  <2>. QED BY <1>1, <1>4 DEF Lists
<1>. HIDE DEF new
<1>. QED BY <1>2, <1>5, <1>6, <1>7, <1>8

LEMMA DeploymentsMarked ==
    ASSUME WInv, CleanDeployments, WGoesOn
    PROVE  /\ wRun.pc = "cleanDeployments" /\ wRun' = [wRun EXCEPT !.pc = "cleanClasses"]
           /\ \A d \in Deployments :
                 /\ deployments'[d] = Nil <=> deployments[d] = Nil
                 /\ d \notin Unwanted => deployments'[d] = deployments[d]
<1>1. WTypeOK /\ wRun \in WRunSet /\ deployments \in Lists /\ WIdle.pc = "idle"
  BY WTypes, WIdleType DEF WInv
<1>2. ~(\E d \in Unwanted : deployments[d] = Nil)
  BY <1>1 DEF CleanDeployments, WGoesOn, WPlaces
<1>3. /\ deployments' = [d \in Deployments |->
                            IF d \in Unwanted THEN [deployments[d] EXCEPT !.deleting = TRUE] ELSE deployments[d]]
      /\ wRun.pc = "cleanDeployments" /\ wRun' = [wRun EXCEPT !.pc = "cleanClasses"]
  BY <1>2 DEF CleanDeployments, WAt, WGoto
<1>4. ASSUME NEW d \in Deployments, d \in Unwanted PROVE deployments'[d] # Nil
  <2>1. deployments[d] \in Deployment
    BY <1>1, <1>2, <1>4 DEF Lists
  <2>2. deployments'[d] = [deployments[d] EXCEPT !.deleting = TRUE]
    BY <1>3, <1>4
  <2>3. deployments'[d] \in Deployment
    BY <2>1, <2>2 DEF Deployment
  <2>. QED BY <2>3, StoredAssumption
<1>. QED BY <1>2, <1>3, <1>4

LEMMA OwnersReconciles ==
    ASSUME Inv, WorkerInv, Owners, WActuator, WGoesOn, UNCHANGED stage, Runs("reconcile") \/ Runs("delete")
    PROVE  Owners'
<1>1. WInv /\ worker' = worker /\ WControl /\ wRun'.job = wRun.job /\ wRun.job \in {"reconcile", "delete"}
  BY DEF Inv, WorkerInv, WGoesOn, Runs
<1>2. ~HandedOver /\ ~HandedOver' /\ ~Restored'
  BY <1>1 DEF WControl, WStages, WBranches, HandedOver, Restored, Runs
<1>3. machines' = machines
  BY <1>1, ReconcileActs
<1>4. \A d \in Deployments : deployments'[d] = Nil => deployments[d] = Nil
  <2>1. CASE UNCHANGED deployments
    BY <2>1
  <2>2. CASE \E e \in Deployments : DeployDeployment(e)
    BY <1>1, <2>2, DeploymentsWritten
  <2>3. CASE CleanDeployments
    BY <1>1, <2>3, DeploymentsMarked
  <2>. QED BY <1>1, <2>1, <2>2, <2>3, ReconcileActs
       DEF WActuator, WSimple, WLoops, WCleans, DeployMCM, PauseAutoscaler, ListClasses, HoldAutoscaler,
           AwaitAvailable, AwaitUnwantedGone, StopMCM, ResumeAutoscaler, DropMCM, AwaitMCMGone, AwaitAllGone,
           ListDeployments, AllDeployed, DeployClasses, CleanClasses, CleanSets, StoreBounds, Machinery
<1>5. \A c \in Classes : c[1] \in Deployments
  BY DEF Classes
<1>6. HasDeployment'
  BY <1>2, <1>3, <1>4, <1>5 DEF Owners, HasDeployment
<1>. QED BY <1>1, <1>2, <1>6 DEF Owners, Runs

LEMMA OwnersMigrates ==
    ASSUME Inv, WorkerInv, Owners, WActuator, WGoesOn, UNCHANGED stage, Runs("migrate")
    PROVE  Owners'
<1>1. WInv /\ worker' = worker /\ wanted' = wanted /\ WControl /\ wRun'.job = "migrate" /\ wRun.job = "migrate"
  BY DEF Inv, WorkerInv, WGoesOn, Runs
<1>2. HandedOver' /\ HandedOver /\ ~Restored'
  BY <1>1 DEF WControl, WBranches, HandedOver, Restored
<1>3. saved' = saved /\ \A c \in Classes : machines'[c] = machines[c] \/ machines'[c] = 0
  BY <1>1
     DEF WInv, JobsAt, WActuator, WSimple, WLoops, WCleans, DeployMCM, PauseAutoscaler, ListClasses, HoldAutoscaler,
         AwaitAvailable, AwaitUnwantedGone, StopMCM, ResumeAutoscaler, DropMCM, AwaitMCMGone, AwaitAllGone,
         ListDeployments, AllDeployed, AllRestored, DeployClasses, CleanClasses, CleanSets, ShallowDeleteMachines,
         ShallowDeleteSets, ShallowDeleteDeployments, ShallowDeleteClasses, CleanDeployments, StoreBounds,
         DeployDeployment, RestoreMachines, WWorks, WAt, wStatus, Machinery
<1>4. \A d : Kept(d)' <=> Kept(d)
  BY <1>1, <1>3 DEF Kept
<1>. QED BY <1>1, <1>2, <1>3, <1>4 DEF Owners, Runs

LEMMA OwnersRestores ==
    ASSUME Inv, WorkerInv, Owners, WActuator, WGoesOn, UNCHANGED stage, Runs("restore")
    PROVE  Owners'
<1>1. /\ WInv /\ worker' = worker /\ wanted' = wanted /\ WControl /\ wRun.job = "restore" /\ wRun'.job = "restore"
      /\ wRun \in WRunSet /\ wRun'.spec = wRun.spec /\ RestoreKeepsState
  BY WTypes DEF Inv, WInv, WorkerInv, WGoesOn, Runs
<1>2. HandedOver /\ HandedOver' /\ wRun.spec.pools = wanted.pools
  BY <1>1, RestoredHandedOver DEF WControl, WStages, WBranches, HandedOver
<1>3. \/ ListDeployments \/ DropMCM \/ AwaitMCMGone \/ AllRestored \/ AllDeployed
      \/ \E d \in Deployments : RestoreMachines(d) \/ DeployDeployment(d)
  BY <1>1
     DEF WActuator, WSimple, WLoops, WCleans, DeployMCM, PauseAutoscaler, ListClasses, HoldAutoscaler, AwaitAvailable,
         AwaitUnwantedGone, StopMCM, ResumeAutoscaler, AwaitAllGone, WInv, JobsAt, DeployClasses, CleanClasses,
         CleanSets, ShallowDeleteMachines, ShallowDeleteSets, ShallowDeleteDeployments, ShallowDeleteClasses,
         CleanDeployments, StoreBounds, WWorks, WAt
<1>4. saved' = saved /\ ~Restored' /\ (wRun.pc \in {"list", "dropMCM", "mcmGone", "restore", "deploy"})
  <2>1. saved' = saved /\ (wRun.pc \in {"list", "dropMCM", "mcmGone", "restore", "deploy"})
    BY <1>3 DEF ListDeployments, DropMCM, AwaitMCMGone, AllRestored, AllDeployed, RestoreMachines, DeployDeployment,
                WWorks, WAt, wStatus
  <2>. QED BY <1>1, <2>1 DEF RestoreKeepsState, Restoring, Restored
<1>5. \A d : Kept(d)' <=> Kept(d)
  BY <1>1, <1>4 DEF Kept
<1>6. \A d \in Deployments : Kept(d) <=> d \in Restorable
  BY <1>2 DEF Kept, Restorable, WantedNow
<1>7. \A c \in Classes : c[1] \in Deployments
  BY DEF Classes
<1>8. CASE ListDeployments \/ DropMCM \/ AwaitMCMGone \/ AllRestored \/ AllDeployed
  <2>1. UNCHANGED <<deployments, machines>>
    BY <1>8 DEF ListDeployments, DropMCM, AwaitMCMGone, AllRestored, AllDeployed, WWorks, Machinery
  <2>2. \/ wRun'.pc \in {"dropMCM", "mcmGone", "restore"}
        \/ wRun'.pc = "deploy" /\ wRun'.todo = Restorable
        \/ wRun.pc = "deploy" /\ wRun.todo = {} /\ wRun'.pc = "success"
    BY <1>1, <1>8 DEF ListDeployments, DropMCM, AwaitMCMGone, AllRestored, AllDeployed, WWorks, WAt, WGoto, WRunSet
  <2>. QED BY <1>1, <1>2, <1>4, <1>5, <1>6, <1>7, <2>1, <2>2 DEF Owners, Runs, HasDeployment
<1>9. CASE \E d \in Deployments : RestoreMachines(d)
  <2>1. PICK d \in Deployments : RestoreMachines(d)
    BY <1>9
  <2>2. wRun.pc = "restore" /\ wRun'.pc = "restore" /\ d \in wRun.todo
    BY <1>1, <2>1 DEF RestoreMachines, WWorks, WAt, WRunSet
  <2>3. Kept(d) \/ DOMAIN saved[d].sets = {}
    BY <1>1, <1>2, <2>2 DEF WInv, ReadAt, Kept
  <2>4. \A c \in Classes : machines'[c] > 0 => machines[c] > 0 \/ (c[1] = d /\ DOMAIN saved[d].sets # {})
    BY <2>1 DEF RestoreMachines
  <2>. QED BY <1>1, <1>2, <1>4, <1>5, <2>2, <2>3, <2>4 DEF Owners, Runs
<1>10. CASE \E d \in Deployments : DeployDeployment(d)
  <2>1. PICK d \in Deployments : DeployDeployment(d)
    BY <1>10
  <2>2. machines' = machines
    BY <2>1 DEF DeployDeployment
  <2>. QED BY <1>1, <1>2, <1>4, <1>5, <1>7, <2>1, <2>2, DeploymentsWritten DEF Owners, Runs
<1>. QED BY <1>3, <1>8, <1>9, <1>10

LEMMA OwnersMCM ==
    ASSUME Inv, WorkerInv, Owners, MCMActs, UNCHANGED stage
    PROVE  Owners'
<1>1. /\ WInv /\ WControl /\ WData /\ MCMRuns /\ saved' = saved /\ SameWorker /\ wanted' = wanted
  BY DEF Inv, WorkerInv, MCMActs, CreateSet, FinalizeDeployment, CreateMachine, CreateVM, RemoveMachine, FinalizeClass,
         MCMWorks, wStatus, SameWorker
<1>2. /\ Covered /\ ~Restored /\ ~Runs("restore") /\ (HandedOver => stage = "migrateWorker")
  BY <1>1, WhileMCMRuns
<1>3. MCMKeeps
  BY <1>1, <1>2, MCMSteps DEF WInv, WData, Known
<1>4. WTypeOK /\ WTypeOK'
  BY <1>1, MCMInv DEF WInv, MCM, MCMActs
<1>5. \A c \in Classes : machines[c] \in Nat /\ machines'[c] \in Nat /\ Desired(c) \in Nat /\ SavedCount(c) \in Nat
  <2>1. \A c \in Classes : Desired(c) \in Counts /\ SavedCount(c) \in Counts
    BY <1>4, DesiredType, SavedType
  <2>. QED BY <1>4, <2>1 DEF WTypeOK, Counts
<1>6. ASSUME NEW c \in Classes, machines'[c] > 0
      PROVE  machines[c] > 0 \/ Desired(c) > 0
  BY <1>3, <1>5, <1>6 DEF MCMKeeps
<1>7. HandedOver => \A c \in Classes : machines'[c] > 0 => Kept(c[1])
  <2>. SUFFICES ASSUME HandedOver, NEW c \in Classes, machines'[c] > 0 PROVE Kept(c[1])
    OBVIOUS
  <2>1. machines[c] <= SavedCount(c) /\ Desired(c) <= SavedCount(c)
    BY <1>1, <1>2 DEF WData, Leaves, MCMRuns
  <2>2. SavedCount(c) > 0
    BY <1>5, <1>6, <2>1
  <2>. QED BY <1>1, <2>2, SavedMeansKept DEF WData
<1>8. ~HandedOver => HasDeployment'
  <2>. SUFFICES ASSUME ~HandedOver, NEW c \in Classes, machines'[c] > 0 PROVE deployments'[c[1]] # Nil
    BY DEF HasDeployment
  <2>1. deployments[c[1]] # Nil
    <3>1. Desired(c) > 0 => deployments[c[1]] # Nil
      BY DEF Desired
    <3>. QED BY <1>6, <3>1 DEF Owners, HasDeployment
  <2>2. c = <<c[1], c[2]>> /\ c[1] \in Deployments /\ c[2] \in Versions
    BY DEF Classes
  <2>3. CASE \E d \in Deployments : FinalizeDeployment(d)
    <3>1. PICK d \in Deployments : FinalizeDeployment(d)
      BY <2>3
    <3>2. machines' = machines /\ deployments' = [deployments EXCEPT ![d] = Nil]
      BY <3>1 DEF FinalizeDeployment
    <3>3. c[1] # d
      <4>1. machines[c] # 0
        BY <3>2, <1>5
      <4>. QED BY <2>2, <3>1, <4>1 DEF FinalizeDeployment
    <3>. QED BY <1>4, <2>1, <2>2, <3>2, <3>3 DEF WTypeOK
  <2>4. CASE UNCHANGED deployments
    BY <2>1, <2>4
  <2>. QED BY <2>3, <2>4 DEF MCMActs, CreateSet, CreateMachine, CreateVM, RemoveMachine, FinalizeClass
<1>9. \A d : Kept(d)' <=> Kept(d)
  BY <1>1 DEF Kept
<1>. QED BY <1>1, <1>2, <1>7, <1>8, <1>9, SameWorkerControl DEF Owners

LEMMA OwnersSaved ==
    ASSUME Inv, WorkerInv, Owners, SyncState, UNCHANGED stage
    PROVE  Owners'
<1>1. /\ UNCHANGED <<deployments, sets, machines, wanted>> /\ SameWorker /\ saved' = CurrentState /\ StatesSync
      /\ WControl /\ WTypeOK /\ Known
  BY DEF SyncState, Machinery, SameWorker, Inv, WInv, WorkerInv, WData
<1>2. HandedOver => Restored
  BY <1>1 DEF StatesSync, OperationType, HandedOver, Restored, WControl, WStages, IsMigrated
<1>3. HasDeployment' <=> HasDeployment
  BY <1>1 DEF HasDeployment
<1>4. ASSUME HandedOver, NEW c \in Classes, machines[c] > 0 PROVE Kept(c[1])'
  <2>1. c[1] \in Deployments /\ c[2] \in Versions /\ c = <<c[1], c[2]>>
    BY DEF Classes
  <2>2. deployments[c[1]] # Nil /\ c \in sets /\ Kept(c[1])
    BY <1>1, <1>2, <1>4 DEF Owners, HasDeployment, Known
  <2>3. c[2] \in SetsOf(c[1])
    BY <2>1, <2>2 DEF SetsOf
  <2>. DEFINE state == [replicas |-> deployments[c[1]].replicas,
                        sets |-> [v \in SetsOf(c[1]) |-> machines[<<c[1], v>>]]]
  <2>4. saved'[c[1]] = state
    BY <1>1, <2>1, <2>2, <2>3 DEF CurrentState
  <2>5. state \in SavedState
    <3>1. SetsOf(c[1]) \in SUBSET Versions
      BY DEF SetsOf
    <3>2. [v \in SetsOf(c[1]) |-> machines[<<c[1], v>>]] \in [SetsOf(c[1]) -> Counts]
      BY <1>1, <2>1, <3>1 DEF WTypeOK, Classes
    <3>3. deployments[c[1]].replicas \in Counts
      BY <1>1, <2>1, <2>2 DEF WTypeOK, Deployment
    <3>. QED BY <3>1, <3>2, <3>3 DEF SavedState, SetStates
  <2>6. c[2] \in DOMAIN state.sets
    BY <2>3
  <2>. HIDE DEF state
  <2>. QED BY <1>1, <2>2, <2>4, <2>5, <2>6, StoredAssumption DEF Kept
<1>. QED BY <1>1, <1>3, <1>4, SameWorkerControl DEF Owners, SameWorker

LEMMA OwnersNext ==
    ASSUME Inv, WorkerInv, Owners, [Next]_vars
    PROVE  Owners'
<1>1. WInv /\ WControl /\ WData /\ wRun \in WRunSet
  BY WTypes DEF Inv, WInv, WorkerInv
<1>2. CASE UNCHANGED <<wVars, stage>>
  BY <1>2 DEF Owners, HasDeployment, HandedOver, Restored, Kept, Runs, wVars, wStatus
<1>3. CASE (WController \/ WFails) /\ UNCHANGED stage
  <2>1. CASE WEnds \/ WTakes \/ WWrites
    BY <1>3, <2>1, OwnersControllers
  <2>2. CASE WActuator /\ WGoesOn
    <3>1. Runs("reconcile") \/ Runs("delete") \/ Runs("restore") \/ Runs("migrate")
      BY <1>1, <2>2 DEF WGoesOn, WPlaces, WInv, JobsAt, WRunSet, WJobs, Runs
    <3>. QED BY <1>3, <2>2, <3>1, OwnersReconciles, OwnersMigrates, OwnersRestores
  <2>. QED BY <1>1, <1>3, <2>1, <2>2, WKinds
<1>4. CASE (SyncState \/ MCM) /\ UNCHANGED stage
  <2>1. CASE MCMEnds
    <3>1. UNCHANGED <<saved, wanted, deployments, machines, worker, wRun, stage>>
      BY <1>4, <2>1 DEF MCMEnds, wStatus
    <3>. QED BY <3>1 DEF Owners, HasDeployment, HandedOver, Restored, Kept, Runs
  <2>. QED BY <1>4, <2>1, OwnersSaved, OwnersMCM DEF MCM, MCMActs
<1>5. CASE (\E d \in Deployments : Scale(d)) /\ UNCHANGED stage
  <2>1. PICK d \in Deployments : Scale(d)
    BY <1>5
  <2>2. WTypeOK /\ WTypeOK'
    BY <1>1, <2>1, ScaleInv DEF WInv
  <2>3. \A e \in Deployments : deployments'[e] = Nil <=> deployments[e] = Nil
    BY <2>1, <2>2, ScaledDeployments
  <2>4. UNCHANGED <<machines, saved, wanted>> /\ SameWorker
    BY <1>5, <2>1 DEF Scale, wStatus, SameWorker
  <2>5. \A c \in Classes : c[1] \in Deployments
    BY DEF Classes
  <2>6. HasDeployment' <=> HasDeployment
    BY <2>3, <2>4, <2>5 DEF HasDeployment
  <2>. QED BY <2>3, <2>4, <2>5, <2>6, SameWorkerControl DEF Owners, Kept, SameWorker
<1>6. CASE ChangeShoot \/ DeployWorker \/ RepeatRequest \/ Finish \/ RequestDelete
  BY <1>6, TurnsKept, OwnersKept DEF Stock, Runs, Owners
<1>7. CASE RequestMigrate
  <2>1. HandedOver' /\ ~Restored' /\ wRun'.pc = "idle" /\ UNCHANGED Stock /\ WorkerInv'
    BY <1>7, RequestMigrateKept
  <2>2. WInv'
    BY <1>7, RequestInv DEF Inv, Request
  <2>3. ASSUME NEW c \in Classes, machines'[c] > 0 PROVE Kept(c[1])'
    <3>1. vms'[c] = machines'[c]
      BY <1>7, <2>1 DEF RequestMigrate, Stock
    <3>2. vms'[c] <= SavedCount(c)' /\ Known' /\ vms'[c] \in Nat
      BY <2>1, <2>2 DEF WorkerInv, WData, Known, WInv, WTypeOK, Counts
    <3>3. SavedCount(c)' # 0
      BY <2>3, <3>1, <3>2
    <3>4. c[1] \in Deployments
      BY DEF Classes
    <3>. QED BY <2>1, <3>2, <3>3, <3>4 DEF SavedCount, Known, Kept
  <2>. QED BY <2>1, <2>3 DEF Owners, Runs
<1>8. CASE MigrateControlPlane \/ MoveSeed \/ RestoreWorker \/ DeleteControlPlane \/ FinishDeletion
  <2>1. /\ (HandedOver' <=> HandedOver) /\ ~Restored' /\ UNCHANGED Stock /\ wRun' = wRun /\ wanted' = wanted
    BY <1>8, MovesKept
  <2>2. Runs("restore") => wRun.pc # "idle" /\ stage = "restoreWorker"
    BY <1>1, RestoredHandedOver DEF Runs
  <2>3. ~Runs("restore")
    BY <1>8, <2>2
       DEF MigrateControlPlane, MoveSeed, RestoreWorker, DeleteControlPlane, FinishDeletion, WAt
  <2>. QED BY <2>1, <2>3, OwnersKept DEF Stock, Runs
<1>9. CASE Crash
  <2>1. wRun'.pc = "idle" /\ UNCHANGED Stock /\ wanted' = wanted /\ stage' = stage
    BY <1>9, WIdleType DEF Crash, Machinery, Stock
  <2>2. worker'.annotation = worker.annotation /\ worker'.type = worker.type /\ worker'.state = worker.state
    BY <1>1, <1>9 DEF WInv, WTypeOK, Resource, Crash
  <2>. QED BY <2>1, <2>2, OwnersKept DEF Owners, HandedOver, Restored, Stock, Runs
<1>. QED BY <1>2, <1>3, <1>4, <1>5, <1>6, <1>7, <1>8, <1>9, StepKinds DEF Advance, Request

LEMMA RollingElsewhere ==
    ASSUME Rolling, UNCHANGED <<mcm, autoscaler, classes, deployments, machines, vms, wRun>>
    PROVE  Rolling'
<1>1. /\ WantedNow' = WantedNow /\ Hibernated' = Hibernated /\ Autoscaled' = Autoscaled
      /\ \A d : ClassOf(d)' = ClassOf(d)
      /\ \A d : WasLeaving(d)' <=> WasLeaving(d)
  BY DEF WantedNow, Hibernated, Autoscaled, ClassOf, WasLeaving
<1>2. \A d : (DeployedNow(d)' <=> DeployedNow(d)) /\ (RunsNow(d)' <=> RunsNow(d))
  BY <1>1 DEF DeployedNow, RunsNow
<1>. QED BY <1>1, <1>2
     DEF Rolling, Runs, ScalersSet, Reached, ClassesReady, DeploymentsReady, MachinesReady, UnwantedGone

\* Calls that write neither classes nor deployments keep what is reached.
SameSpec == wRun'.spec = wRun.spec /\ wRun'.listed = wRun.listed
LEMMA SpecKept ==
    ASSUME wRun'.spec = wRun.spec
    PROVE  /\ WantedNow' = WantedNow /\ Hibernated' = Hibernated /\ Autoscaled' = Autoscaled
           /\ \A d : ClassOf(d)' = ClassOf(d)
  BY DEF WantedNow, Hibernated, Autoscaled, ClassOf

LEMMA ReachedKept ==
    ASSUME SameSpec, UNCHANGED <<classes, deployments, machines, vms>>, Hibernated => autoscaler' = autoscaler
    PROVE  /\ ClassesReady' <=> ClassesReady
           /\ wRun'.todo = wRun.todo => (DeploymentsReady' <=> DeploymentsReady)
           /\ MachinesReady' <=> MachinesReady
           /\ UnwantedGone' <=> UnwantedGone
<1>1. /\ WantedNow' = WantedNow /\ Hibernated' = Hibernated /\ \A d : ClassOf(d)' = ClassOf(d)
      /\ \A d : WasLeaving(d)' <=> WasLeaving(d)
  BY SpecKept DEF SameSpec, WasLeaving
<1>2. \A d : (DeployedNow(d)' <=> DeployedNow(d)) /\ (RunsNow(d)' <=> RunsNow(d))
  BY <1>1 DEF DeployedNow, RunsNow, SameSpec
<1>. QED BY <1>1, <1>2 DEF ClassesReady, DeploymentsReady, MachinesReady, UnwantedGone

LEMMA RollingStarts == wRun'.pc \notin PastMCM => Rolling'
  BY DEF Rolling, ScalersSet, Reached, PastMCM, PastClasses, PastList, PastDeploy, PastAvailable, PastClean

\* The replicas a deployment gets.
LEMMA ReplicasWritten ==
    ASSUME WInv, Asked, Runs("reconcile"), wRun.pc = "deploy", NEW d \in WantedNow
    PROVE  IF Hibernated THEN WantedReplicas(d) = 0 ELSE WantedReplicas(d) > 0
<1>1. d \in Deployments /\ wRun.spec.pools[d] # Nil /\ wRun.spec \in WSpecs /\ wRun.listed \in Lists
  BY DEF WantedNow, WInv, JobsAt, ReadAt
<1>2. wRun.spec.pools[d] \in Pool
  BY <1>1 DEF WSpecs, Pools
<1>3. /\ wRun.spec.pools[d].min \in Nat /\ wRun.spec.pools[d].max \in Nat
      /\ wRun.spec.pools[d].min > 0 /\ wRun.spec.pools[d].max > 0
  BY <1>1, <1>2 DEF Pool, Counts, Asked, Machined
<1>4. wRun.listed[d] # Nil => wRun.listed[d].replicas \in Nat
  BY <1>1 DEF Lists, Deployment, Counts
<1>5. wRun.job = "reconcile"
  BY DEF Runs
<1>. QED BY <1>3, <1>4, <1>5 DEF WantedReplicas

\* Calls that only move on.
LEMMA RollingMoves ==
    ASSUME Inv, Rolling, Runs("reconcile"), WGoesOn,
           \/ DeployMCM \/ PauseAutoscaler \/ ListClasses \/ HoldAutoscaler \/ AwaitUnwantedGone \/ CleanSets
           \/ StopMCM \/ ResumeAutoscaler \/ StoreBounds \/ AllDeployed
    PROVE  Rolling'
<1>1. WInv /\ wRun \in WRunSet /\ wRun.job = "reconcile" /\ wRun.pc # "idle"
  BY WTypes DEF Inv, WInv, Runs
<1>2. UNCHANGED <<classes, deployments, machines, vms>>
  BY DEF DeployMCM, PauseAutoscaler, ListClasses, HoldAutoscaler, AwaitUnwantedGone, CleanSets, StopMCM,
         ResumeAutoscaler, StoreBounds, AllDeployed, Machinery
<1>3. SameSpec /\ wRun'.todo = wRun.todo
  BY <1>1
     DEF DeployMCM, PauseAutoscaler, ListClasses, HoldAutoscaler, AwaitUnwantedGone, CleanSets, StopMCM,
         ResumeAutoscaler, StoreBounds, AllDeployed, WGoto, WRunSet, SameSpec, Machinery
<1>4. Hibernated' = Hibernated /\ Autoscaled' = Autoscaled
  BY <1>3, SpecKept DEF SameSpec
<1>. USE DEF PastMCM, PastClasses, PastList, PastDeploy, PastAvailable, PastClean
<1>5. CASE DeployMCM \/ PauseAutoscaler \/ ListClasses
  <2>1. wRun'.pc \in {"pause", "listClasses", "classes"} /\ wRun.pc \in {"mcm", "pause", "listClasses"}
    BY <1>1, <1>5 DEF DeployMCM, PauseAutoscaler, ListClasses, WWorks, WAt, WGoto, WRunSet
  <2>2. ~Hibernated => mcm' = "running"
    BY <1>1, <1>5, <2>1
       DEF DeployMCM, PauseAutoscaler, ListClasses, WWorks, WAt, Machinery, MCMReplicas, Rolling, Runs, ScalersSet
  <2>3. wRun'.pc # "pause" /\ Hibernated /\ Autoscaled => ~autoscaler'
    BY <1>1, <1>5, <2>1
       DEF DeployMCM, PauseAutoscaler, ListClasses, WWorks, WAt, WGoto, WRunSet, Machinery, Rolling, Runs, ScalersSet
  <2>. QED BY <1>4, <2>1, <2>2, <2>3 DEF Rolling, ScalersSet, Reached
<1>6. CASE HoldAutoscaler \/ AllDeployed \/ AwaitUnwantedGone \/ CleanSets \/ StoreBounds \/ ResumeAutoscaler
  <2>1. Hibernated => autoscaler' = autoscaler
    BY <1>1, <1>6
       DEF HoldAutoscaler, AllDeployed, AwaitUnwantedGone, CleanSets, StoreBounds, ResumeAutoscaler, Machinery, WInv,
           WTypeOK
  <2>2. mcm' = mcm
    BY <1>6 DEF HoldAutoscaler, AllDeployed, AwaitUnwantedGone, CleanSets, StoreBounds, ResumeAutoscaler, Machinery
  <2>3. \/ wRun.pc = "available" /\ wRun'.pc = "available"
        \/ wRun.pc = "deploy" /\ wRun'.pc = "available" /\ wRun.todo = {}
        \/ wRun.pc = "unwantedGone" /\ wRun'.pc = "cleanSets" /\ UnwantedGone
        \/ wRun.pc = "cleanSets" /\ wRun'.pc = "stopMCM"
        \/ wRun.pc = "resume" /\ wRun'.pc = "bounds"
        \/ wRun.pc = "bounds" /\ wRun'.pc = "success"
    BY <1>1, <1>6
       DEF HoldAutoscaler, AllDeployed, AwaitUnwantedGone, CleanSets, StoreBounds, ResumeAutoscaler, WWorks, WAt, WGoto,
           WRunSet
  <2>4. ScalersSet'
    BY <1>4, <2>1, <2>2, <2>3 DEF Rolling, ScalersSet
  <2>5. Reached'
    BY <1>2, <1>3, <2>1, <2>3, ReachedKept DEF Rolling, Reached
  <2>. QED BY <2>4, <2>5 DEF Rolling
<1>7. CASE StopMCM
  <2>1. /\ wRun.pc = "stopMCM" /\ wRun'.pc = "resume" /\ mcm' = (IF Hibernated THEN "stopped" ELSE mcm)
        /\ autoscaler' = autoscaler
    BY <1>1, <1>7 DEF StopMCM, WWorks, WAt, WGoto, WRunSet
  <2>2. ScalersSet'
    BY <1>4, <2>1 DEF Rolling, ScalersSet
  <2>3. Reached'
    BY <1>2, <1>3, <2>1, ReachedKept DEF Rolling, Reached
  <2>. QED BY <2>2, <2>3 DEF Rolling
<1>. QED BY <1>5, <1>6, <1>7

LEMMA RollingWrites ==
    ASSUME Inv, Asked, Rolling, Runs("reconcile"), WGoesOn,
           DeployClasses \/ ListDeployments \/ (\E e \in Deployments : DeployDeployment(e))
    PROVE  Rolling'
<1>1. /\ WInv /\ wRun \in WRunSet /\ wRun.job = "reconcile" /\ wRun.spec \in WSpecs /\ wRun'.spec = wRun.spec
      /\ WTypeOK
  BY WTypes DEF Inv, WInv, Runs, JobsAt, WGoesOn
<1>2. /\ WantedNow' = WantedNow /\ Hibernated' = Hibernated /\ Autoscaled' = Autoscaled
      /\ \A d : ClassOf(d)' = ClassOf(d)
  BY <1>1, SpecKept
<1>3. /\ \A d \in WantedNow : d \in Deployments /\ ClassOf(d) \in Classes /\ ClassOf(d) \in WantedClasses
      /\ \A d \in WantedNow : wRun.spec.pools[d] # Nil
  BY <1>1, WantedNowType DEF WantedClasses, WantedNow
<1>. USE DEF PastMCM, PastClasses, PastList, PastDeploy, PastAvailable, PastClean
<1>4. CASE DeployClasses
  <2>1. wRun.pc = "classes" /\ wRun'.pc = "list" /\ mcm' = mcm /\ autoscaler' = autoscaler
    BY <1>1, <1>4 DEF DeployClasses, WWorks, WAt, WGoto, WRunSet
  <2>2. \A c \in Classes : c \in WantedClasses => classes'[c] # "absent"
    BY <1>1, <1>4 DEF DeployClasses, WTypeOK
  <2>3. ClassesReady'
    BY <1>2, <1>3, <2>2 DEF ClassesReady
  <2>. QED BY <1>2, <2>1, <2>3 DEF Rolling, Runs, ScalersSet, Reached
<1>5. CASE ListDeployments
  <2>1. /\ wRun.pc = "list" /\ wRun'.pc = "deploy" /\ wRun'.listed = deployments /\ wRun'.todo = WantedNow
        /\ UNCHANGED Machinery
    BY <1>1, <1>5 DEF ListDeployments, WWorks, WAt, WRunSet
  <2>2. ClassesReady'
    BY <1>2, <2>1 DEF Rolling, Reached, ClassesReady, Machinery
  <2>3. DeploymentsReady'
    BY <1>2, <2>1 DEF DeploymentsReady, WasLeaving, Machinery
  <2>. QED BY <1>2, <2>1, <2>2, <2>3 DEF Rolling, Runs, ScalersSet, Reached, Machinery
<1>6. CASE \E e \in Deployments : DeployDeployment(e)
  <2>1. PICK e \in Deployments : DeployDeployment(e)
    BY <1>6
  <2>2. /\ wRun.pc = "deploy" /\ wRun'.pc = "deploy" /\ wRun'.todo = wRun.todo \ {e} /\ e \in WantedNow
        /\ UNCHANGED <<mcm, autoscaler, classes, machines, vms>> /\ wRun'.listed = wRun.listed
        /\ wRun.listed \in Lists
    BY <1>1, <2>1, DeploymentsWritten DEF DeployDeployment, WantedNow, WInv, ReadAt
  <2>3. ClassesReady'
    BY <1>2, <2>2 DEF Rolling, Reached, ClassesReady
  <2>4. \A d : WasLeaving(d)' <=> WasLeaving(d)
    BY <2>2 DEF WasLeaving
  <2>5. DeployedNow(e)'
    <3>1. IF Hibernated THEN WantedReplicas(e) = 0 ELSE WantedReplicas(e) > 0
      BY <1>1, <2>2, ReplicasWritten
    <3>. QED BY <1>1, <1>2, <2>1, <2>4, <3>1, DeploymentsWritten DEF DeployedNow
  <2>6. \A d \in WantedNow : d # e => (DeployedNow(d)' <=> DeployedNow(d))
    BY <1>1, <1>2, <1>3, <2>1, <2>2, <2>4, DeploymentsWritten DEF DeployedNow
  <2>7. \A d \in WantedNow : deployments'[d] # Nil /\ deployments'[d].deleting => WasLeaving(d)
    BY <1>1, <1>3, <2>1, <2>2, DeploymentsWritten DEF Rolling, Reached, DeploymentsReady
  <2>8. DeploymentsReady'
    BY <1>2, <2>2, <2>4, <2>5, <2>6, <2>7 DEF DeploymentsReady, Rolling, Reached
  <2>. QED BY <1>2, <2>2, <2>3, <2>8 DEF Rolling, Runs, ScalersSet, Reached
<1>. QED BY <1>4, <1>5, <1>6

\* Every machine is there, of the class it should be of.
LEMMA RollingAwaits ==
    ASSUME Inv, WorkerInv, Asked, Rolling, Runs("reconcile"), WGoesOn, AwaitAvailable
    PROVE  Rolling'
<1>1. /\ WInv /\ wRun \in WRunSet /\ wRun.job = "reconcile" /\ wRun.spec \in WSpecs /\ wRun'.spec = wRun.spec
      /\ WTypeOK
  BY WTypes DEF Inv, WInv, Runs, JobsAt, WGoesOn
<1>2. /\ wRun.pc = "available" /\ wRun'.pc = "cleanDeployments" /\ SameSpec /\ wRun'.todo = wRun.todo
      /\ UNCHANGED Machinery /\ Available
  BY <1>1 DEF AwaitAvailable, WWorks, WAt, WGoto, WRunSet, SameSpec
<1>3. Hibernated' = Hibernated /\ Autoscaled' = Autoscaled
  BY <1>1, SpecKept
<1>. USE DEF PastMCM, PastClasses, PastList, PastDeploy, PastAvailable, PastClean
<1>4. ClassesReady /\ DeploymentsReady /\ wRun.todo = {}
  BY <1>2 DEF Rolling, Reached
<1>5. ASSUME NEW d \in WantedNow PROVE RunsNow(d)
  <2>1. d \in Deployments /\ wRun.spec.pools[d] # Nil /\ ClassOf(d) \in Classes /\ \A v \in Versions : <<d, v>> \in Classes
    BY <1>1, WantedNowType DEF WantedNow, Classes
  <2>2. \A v \in Versions : machines[<<d, v>>] \in Nat
    BY <1>1, <2>1 DEF WTypeOK, Counts
  <2>3. CASE Hibernated
    BY <1>2, <2>2, <2>3 DEF Available, RunsNow
  <2>4. CASE ~Hibernated
    <3>1. IsAvailable(d)
      BY <1>2, <2>4 DEF Available
    <3>2. deployments[d] # Nil /\ deployments[d].replicas > 0 /\ deployments[d].replicas \in Nat
      BY <1>1, <1>4, <2>1, <2>4, <3>1 DEF DeploymentsReady, DeployedNow, IsAvailable, WTypeOK, Deployment, Counts
    <3>3. vms[ClassOf(d)] > 0
      BY <3>1, <3>2 DEF IsAvailable
    <3>4. classes[ClassOf(d)] # "absent"
      BY <1>4, <3>3 DEF ClassesReady
    <3>5. \A v \in Versions : machines[<<d, v>>] > 0 => v = wRun.spec.pools[d].version
      BY <3>1 DEF IsAvailable
    <3>6. wRun.spec.pools[d].version \in Versions
      BY <1>1, <2>1 DEF WSpecs, Pools, Pool
    <3>7. machines[ClassOf(d)] > 0
      BY <3>1, <3>2, <3>6 DEF IsAvailable, ClassOf
    <3>. QED BY <2>4, <3>4, <3>5, <3>7 DEF RunsNow, ClassOf
  <2>. QED BY <2>3, <2>4
<1>6. MachinesReady
  BY <1>5 DEF MachinesReady
<1>7. Reached'
  BY <1>2, <1>4, <1>6, ReachedKept DEF Reached, Machinery
<1>. QED BY <1>2, <1>3, <1>7 DEF Rolling, Runs, ScalersSet, Machinery

\* What is not wanted goes.
LEMMA RollingCleans ==
    ASSUME Inv, Rolling, Runs("reconcile"), WGoesOn, CleanDeployments \/ CleanClasses
    PROVE  Rolling'
<1>1. /\ WInv /\ wRun \in WRunSet /\ wRun.job = "reconcile" /\ wRun.spec \in WSpecs /\ wRun'.spec = wRun.spec
      /\ WTypeOK
  BY WTypes DEF Inv, WInv, Runs, JobsAt, WGoesOn
<1>2. /\ WantedNow' = WantedNow /\ Hibernated' = Hibernated /\ Autoscaled' = Autoscaled
      /\ \A d : ClassOf(d)' = ClassOf(d)
  BY <1>1, SpecKept
<1>3. \A d \in WantedNow : d \in Deployments /\ ClassOf(d) \in Classes
  BY <1>1, WantedNowType
<1>4. UNCHANGED <<mcm, autoscaler, machines, vms>>
  BY DEF CleanDeployments, CleanClasses
<1>. USE DEF PastMCM, PastClasses, PastList, PastDeploy, PastAvailable, PastClean
<1>5. wRun.pc \in {"cleanDeployments", "cleanClasses"} /\ ClassesReady /\ DeploymentsReady /\ MachinesReady /\ wRun.todo = {}
  BY DEF CleanDeployments, CleanClasses, WWorks, WAt, Rolling, Reached
<1>6. wRun'.pc \in {"cleanClasses", "unwantedGone"} /\ wRun'.listed = wRun.listed /\ wRun'.todo = wRun.todo
  <2>1. CleanDeployments => wRun' = [wRun EXCEPT !.pc = "cleanClasses"]
    BY <1>1, DeploymentsMarked
  <2>. QED BY <1>1, <2>1 DEF CleanClasses, WWorks, WGoto, WRunSet
<1>7. \A d \in WantedNow : deployments'[d] = deployments[d]
  <2>1. CASE CleanDeployments
    <3>1. \A d \in WantedNow : d \notin Unwanted
      BY <1>1 DEF Unwanted
    <3>. QED BY <1>1, <1>3, <2>1, <3>1, DeploymentsMarked
  <2>. QED BY <2>1 DEF CleanClasses
<1>8. \A c \in Classes : (classes'[c] = "absent" <=> classes[c] = "absent")
  BY <1>1 DEF CleanDeployments, CleanClasses, WTypeOK
<1>9. \A d : WasLeaving(d)' <=> WasLeaving(d)
  BY <1>6 DEF WasLeaving
<1>10. \A d \in WantedNow : (DeployedNow(d)' <=> DeployedNow(d)) /\ (RunsNow(d)' <=> RunsNow(d))
  <2>1. \A d \in WantedNow, v \in Versions : <<d, v>> \in Classes
    BY <1>3 DEF Classes
  <2>. QED BY <1>1, <1>2, <1>4, <1>7, <1>8, <1>9, <2>1 DEF DeployedNow, RunsNow
<1>11. ClassesReady'
  BY <1>2, <1>3, <1>4, <1>5, <1>8 DEF ClassesReady
<1>12. DeploymentsReady' /\ MachinesReady'
  BY <1>2, <1>5, <1>6, <1>7, <1>9, <1>10 DEF DeploymentsReady, MachinesReady
<1>13. Reached'
  BY <1>5, <1>6, <1>11, <1>12 DEF Reached
<1>. QED BY <1>2, <1>4, <1>5, <1>6, <1>13 DEF Rolling, Runs, ScalersSet

\* What the other actors do to the machines of a reconciliation.
Others == UNCHANGED <<mcm, autoscaler, wRun>>
LEMMA RollingKept ==
    ASSUME Rolling, Runs("reconcile"), Others,
           ClassesReady => ClassesReady',
           DeploymentsReady => DeploymentsReady',
           wRun.todo = {} /\ DeploymentsReady /\ MachinesReady => MachinesReady',
           UnwantedGone => UnwantedGone'
    PROVE  Rolling'
<1>1. Hibernated' = Hibernated /\ Autoscaled' = Autoscaled
  BY SpecKept DEF Others
<1>2. ScalersSet'
  BY <1>1 DEF Rolling, ScalersSet, Others, PastMCM
<1>3. Reached'
  BY DEF Rolling, Reached, Others, PastMCM, PastClasses, PastList, PastDeploy, PastAvailable, PastClean
<1>. QED BY <1>2, <1>3 DEF Rolling

LEMMA RollingMCM ==
    ASSUME Inv, WorkerInv, Rolling, MCMActs
    PROVE  Rolling'
<1>1. WInv /\ WTypeOK /\ Others /\ MCMRuns /\ WControl /\ WData
  BY DEF Inv, WInv, WorkerInv, MCMActs, CreateSet, FinalizeDeployment, CreateMachine, CreateVM, RemoveMachine,
         FinalizeClass, MCMWorks, Others
<1>2. CASE ~Runs("reconcile")
  BY <1>1, <1>2 DEF Rolling, Runs, Others
<1>3. CASE Runs("reconcile")
  <2>1. wRun.spec \in WSpecs /\ wRun'.spec = wRun.spec /\ wRun.pc # "idle"
    BY <1>1, <1>3 DEF WInv, JobsAt, Runs, Others
  <2>2. WantedNow' = WantedNow /\ Hibernated' = Hibernated /\ \A d : ClassOf(d)' = ClassOf(d)
    BY <2>1, SpecKept
  <2>3. \A d : WasLeaving(d)' <=> WasLeaving(d)
    BY <1>1 DEF WasLeaving, Others
  <2>4. /\ \A d \in WantedNow : d \in Deployments /\ ClassOf(d) \in Classes /\ \A v \in Versions : <<d, v>> \in Classes
        /\ \A d \in WantedNow : wRun.spec.pools[d].version \in Versions
    BY <1>1, <2>1, WantedNowType DEF Classes, Pool
  <2>5. /\ \A c \in Classes : machines[c] \in Nat /\ vms[c] \in Nat /\ Desired(c) \in Nat /\ vms[c] <= machines[c]
        /\ machines \in [Classes -> Counts] /\ vms \in [Classes -> Counts]
    <3>1. \A c \in Classes : Desired(c) \in Counts
      BY <1>1, DesiredType
    <3>2. Covered
      BY <1>1, WhileMCMRuns
    <3>. QED BY <1>1, <3>1, <3>2 DEF WTypeOK, Counts, Covered
  <2>6. CASE \E d \in Deployments : CreateSet(d)
    BY <1>1, <2>6, RollingElsewhere DEF CreateSet, Others
  <2>7. ASSUME NEW e \in Deployments, FinalizeDeployment(e) PROVE Rolling'
    <3>1. /\ UNCHANGED <<classes, machines, vms>> /\ deployments[e].deleting /\ deployments[e] # Nil
          /\ deployments'[e] = Nil /\ \A d \in Deployments : d # e => deployments'[d] = deployments[d]
      BY <1>1, <2>7 DEF FinalizeDeployment, WTypeOK
    <3>2. ClassesReady => ClassesReady'
      BY <2>2, <3>1 DEF ClassesReady
    <3>3. DeploymentsReady => DeploymentsReady'
      BY <1>1, <2>1, <2>2, <2>3, <2>4, <3>1 DEF DeploymentsReady, DeployedNow, Others
    <3>4. MachinesReady => MachinesReady'
      BY <1>1, <2>1, <2>2, <2>4, <3>1 DEF MachinesReady, RunsNow, Others
    <3>5. UnwantedGone => UnwantedGone'
      BY <2>2, <3>1 DEF UnwantedGone
    <3>. QED BY <1>1, <1>3, <3>2, <3>3, <3>4, <3>5, RollingKept
  <2>8. CASE UNCHANGED deployments
    <3>1. DeploymentsReady => DeploymentsReady'
      BY <1>1, <2>1, <2>2, <2>3, <2>8 DEF DeploymentsReady, DeployedNow, Others
    <3>2. UnwantedGone => UnwantedGone'
      BY <2>2, <2>8 DEF UnwantedGone
    <3>3. ASSUME NEW c \in Classes, CreateMachine(c) PROVE Rolling'
      <4>1. /\ UNCHANGED <<classes, vms>> /\ machines[c] < Desired(c)
            /\ \A k \in Classes : k # c => machines'[k] = machines[k]
        BY <2>5, <3>3 DEF CreateMachine
      <4>2. ClassesReady => ClassesReady'
        BY <2>2, <4>1 DEF ClassesReady
      <4>3. ASSUME DeploymentsReady, wRun.todo = {}, MachinesReady, NEW d \in WantedNow PROVE RunsNow(d)'
        <5>1. RunsNow(d) /\ DeployedNow(d)
          BY <4>3 DEF DeploymentsReady, MachinesReady
        <5>2. CASE c[1] # d
          <6>1. \A v \in Versions : machines'[<<d, v>>] = machines[<<d, v>>]
            BY <2>4, <4>1, <5>2
          <6>. QED BY <1>1, <2>1, <2>2, <2>4, <2>8, <4>1, <5>1, <6>1 DEF RunsNow, Others, ClassOf
        <5>3. CASE c[1] = d
          <6>1. /\ deployments[d] # Nil /\ ~deployments[d].deleting /\ deployments[d].version = c[2]
                /\ deployments[d].replicas = Desired(c)
            BY <2>5, <4>1, <5>3 DEF Desired
          <6>2. c[2] = wRun.spec.pools[d].version /\ c = ClassOf(d)
            BY <5>1, <5>3, <6>1 DEF DeployedNow, ClassOf, Classes
          <6>3. Hibernated => autoscaler
            BY <2>5, <4>1, <5>1, <6>1 DEF DeployedNow
          <6>4. ~Hibernated => machines[c] > 0 /\ classes[c] # "absent"
            BY <2>4, <5>1, <6>1, <6>2 DEF RunsNow, ClassOf
          <6>5. machines'[c] = machines[c] + 1
            BY <2>5, <3>3 DEF CreateMachine
          <6>6. \A v \in Versions : v # c[2] => machines'[<<d, v>>] = machines[<<d, v>>]
            BY <2>4, <4>1, <5>3, <6>2 DEF ClassOf
          <6>. QED BY <1>1, <2>1, <2>2, <2>4, <2>5, <2>8, <4>1, <5>1, <6>2, <6>3, <6>4, <6>5, <6>6
             DEF RunsNow, Others, ClassOf
        <5>. QED BY <5>2, <5>3
      <4>4. wRun.todo = {} /\ DeploymentsReady /\ MachinesReady => MachinesReady'
        BY <2>2, <4>3 DEF MachinesReady
      <4>. QED BY <1>1, <1>3, <3>1, <3>2, <4>2, <4>4, RollingKept
    <3>4. ASSUME NEW c \in Classes, CreateVM(c) PROVE Rolling'
      <4>1. /\ UNCHANGED <<classes, machines>> /\ classes[c] # "absent"
            /\ \A k \in Classes : k # c => vms'[k] = vms[k]
        BY <2>5, <3>4 DEF CreateVM
      <4>2. ClassesReady => ClassesReady'
        BY <2>2, <2>4, <4>1 DEF ClassesReady
      <4>3. MachinesReady => MachinesReady'
        BY <1>1, <2>1, <2>2, <2>8, <4>1 DEF MachinesReady, RunsNow, Others
      <4>. QED BY <1>1, <1>3, <3>1, <3>2, <4>2, <4>3, RollingKept
    <3>5. ASSUME NEW c \in Classes, RemoveMachine(c) PROVE Rolling'
      <4>1. /\ UNCHANGED classes /\ classes[c] # "absent" /\ machines[c] > Desired(c) /\ machines'[c] = machines[c] - 1
            /\ \A k \in Classes : k # c => machines'[k] = machines[k] /\ vms'[k] = vms[k]
        BY <2>5, <3>5 DEF RemoveMachine
      <4>2. ClassesReady => ClassesReady'
        BY <2>2, <2>4, <4>1 DEF ClassesReady
      <4>3. ASSUME DeploymentsReady, wRun.todo = {}, MachinesReady, NEW d \in WantedNow PROVE RunsNow(d)'
        <5>1. RunsNow(d) /\ DeployedNow(d)
          BY <4>3 DEF DeploymentsReady, MachinesReady
        <5>2. \A v \in Versions : machines'[<<d, v>>] > 0 => machines[<<d, v>>] > 0
          BY <2>4, <2>5, <4>1
        <5>3. ASSUME ~Hibernated, deployments[d] # Nil, ~deployments[d].deleting PROVE machines'[ClassOf(d)] > 0
          <6>1. Desired(ClassOf(d)) = deployments[d].replicas /\ deployments[d].replicas > 0
            BY <5>1, <5>3 DEF DeployedNow, Desired, ClassOf
          <6>2. machines[ClassOf(d)] > 0
            BY <5>1, <5>3 DEF RunsNow
          <6>. QED BY <2>4, <2>5, <4>1, <6>1, <6>2
        <5>. QED BY <1>1, <2>1, <2>2, <2>8, <4>1, <5>1, <5>2, <5>3 DEF RunsNow, Others
      <4>4. wRun.todo = {} /\ DeploymentsReady /\ MachinesReady => MachinesReady'
        BY <2>2, <4>3 DEF MachinesReady
      <4>. QED BY <1>1, <1>3, <3>1, <3>2, <4>2, <4>4, RollingKept
    <3>6. ASSUME NEW c \in Classes, FinalizeClass(c) PROVE Rolling'
      <4>1. /\ UNCHANGED <<machines, vms>> /\ machines[c] = 0 /\ vms[c] = 0
            /\ \A k \in Classes : k # c => classes'[k] = classes[k]
        BY <1>1, <2>5, <3>6 DEF FinalizeClass, WTypeOK
      <4>2. ClassesReady => ClassesReady'
        BY <2>2, <2>4, <4>1 DEF ClassesReady
      <4>3. MachinesReady => MachinesReady'
        BY <1>1, <2>1, <2>2, <2>4, <2>8, <4>1 DEF MachinesReady, RunsNow, Others
      <4>. QED BY <1>1, <1>3, <3>1, <3>2, <4>2, <4>3, RollingKept
    <3>. QED BY <2>6, <3>3, <3>4, <3>5, <3>6, <2>7 DEF MCMActs
  <2>. QED BY <2>6, <2>7, <2>8 DEF MCMActs, CreateMachine, CreateVM, RemoveMachine, FinalizeClass
<1>. QED BY <1>2, <1>3

\* A reconciliation has deployed MCM: its pod does not end.
LEMMA RollingEnds == Rolling /\ MCMEnds => Rolling'
<1>. SUFFICES ASSUME Rolling, MCMEnds PROVE Rolling'
  OBVIOUS
<1>1. UNCHANGED <<autoscaler, classes, deployments, machines, vms, wRun>> /\ mcm = "ending"
  BY DEF MCMEnds
<1>2. /\ WantedNow' = WantedNow /\ Hibernated' = Hibernated /\ Autoscaled' = Autoscaled /\ SameSpec
      /\ \A d : ClassOf(d)' = ClassOf(d)
  BY <1>1, SpecKept DEF SameSpec
<1>3. ScalersSet => ScalersSet'
  BY <1>1, <1>2 DEF ScalersSet
<1>4. Reached => Reached'
  BY <1>1, <1>2, ReachedKept DEF Reached
<1>. QED BY <1>1, <1>3, <1>4 DEF Rolling, Runs

LEMMA RollingScaled ==
    ASSUME Inv, Asked, Rolling, NEW e \in Deployments, Scale(e)
    PROVE  Rolling'
<1>1. WInv /\ WTypeOK /\ WTypeOK' /\ Others /\ UNCHANGED <<classes, machines, vms>>
  BY ScaleInv DEF Inv, WInv, Scale, Others
<1>2. CASE ~Runs("reconcile")
  BY <1>1, <1>2 DEF Rolling, Runs, Others
<1>3. CASE Runs("reconcile")
  <2>1. wRun.spec \in WSpecs /\ wRun'.spec = wRun.spec
    BY <1>1, <1>3 DEF WInv, JobsAt, Runs, Others
  <2>2. WantedNow' = WantedNow /\ Hibernated' = Hibernated /\ \A d : ClassOf(d)' = ClassOf(d)
    BY <2>1, SpecKept
  <2>3. /\ \A d : WasLeaving(d)' <=> WasLeaving(d)
        /\ \A d \in WantedNow : d \in Deployments
    BY <1>1 DEF WasLeaving, Others, WantedNow
  <2>4. /\ deployments[e] # Nil /\ deployments'[e] # Nil /\ autoscaler
        /\ deployments'[e].version = deployments[e].version /\ deployments'[e].deleting = deployments[e].deleting
        /\ \A d \in Deployments : d # e => deployments'[d] = deployments[d]
    BY <1>1, ScaledDeployments
  <2>5. deployments'[e].replicas > 0
    <3>1. bounds[e] # Nil /\ bounds[e].min <= deployments'[e].replicas
      BY <1>1, ScaledDeployments
    <3>2. bounds[e].min \in Nat /\ deployments'[e].replicas \in Nat
      BY <1>1, <2>4, <3>1 DEF WTypeOK, Deployment, Counts
    <3>. QED BY <3>1, <3>2 DEF Asked
  <2>6. ClassesReady => ClassesReady'
    BY <1>1, <2>2 DEF ClassesReady
  <2>7. DeploymentsReady => DeploymentsReady'
    <3>1. \A d \in WantedNow : DeployedNow(d) => DeployedNow(d)'
      BY <1>1, <2>1, <2>2, <2>3, <2>4, <2>5 DEF DeployedNow, Others
    <3>. QED BY <1>1, <2>2, <2>3, <2>4, <3>1 DEF DeploymentsReady, Others
  <2>8. MachinesReady => MachinesReady'
    <3>1. \A d \in WantedNow : RunsNow(d) => RunsNow(d)'
      BY <1>1, <2>1, <2>2, <2>3, <2>4 DEF RunsNow, Others
    <3>. QED BY <2>2, <3>1 DEF MachinesReady
  <2>9. UnwantedGone => UnwantedGone'
    BY <2>2, <2>4 DEF UnwantedGone
  <2>. QED BY <1>1, <1>3, <2>6, <2>7, <2>8, <2>9, RollingKept
<1>. QED BY <1>2, <1>3

LEMMA RollingNext ==
    ASSUME Inv, WorkerInv, Asked, Rolling, [Next]_vars
    PROVE  Rolling'
<1>1. WInv /\ wRun \in WRunSet /\ WIdle.pc = "idle" /\ WIdle.job = "none"
  BY WTypes DEF Inv, WInv, WIdle
<1>2. CASE UNCHANGED <<wVars, stage>>
  BY <1>2, RollingElsewhere DEF wVars
<1>3. CASE WEnds \/ WTakes \/ WWrites
  <2>1. wRun'.pc \in {"idle", "finalizer", "processing", "release", "unannotate", "mcm"} \/ ~Runs("reconcile")'
    <3>1. CASE WEnds \/ WRelease \/ WUnannotate \/ WMarkSucceeded
      <4>1. wRun.pc # "idle" => wRun.job \in {"reconcile", "restore", "migrate", "delete"}
        BY <1>1 DEF WInv, JobsAt, WRunSet, WJobs
      <4>. QED BY <1>1, <3>1, <4>1 DEF WEnds, WRelease, WUnannotate, WMarkSucceeded, WAt, WGoto, WRunSet
    <3>2. CASE WTakes \/ WEnsureFinalizer
      BY <1>1, <3>2 DEF WTakes, WDispatch, WRefuses, WIdle, WEnsureFinalizer, WGoto, WRunSet
    <3>3. CASE WMarkProcessing
      BY <1>1, <3>3 DEF WMarkProcessing, FirstCall, WRunSet, Runs
    <3>. QED BY <1>3, <3>1, <3>2, <3>3 DEF WWrites
  <2>. QED BY <2>1, RollingStarts
       DEF Rolling, PastMCM, PastClasses, PastList, PastDeploy, PastAvailable, PastClean
<1>4. CASE WActuator /\ WGoesOn
  <2>1. CASE ~Runs("reconcile")
    BY <1>4, <2>1 DEF Rolling, Runs, WGoesOn, WPlaces
  <2>2. CASE Runs("reconcile")
    BY <1>1, <1>4, <2>2, ReconcileActs, RollingMoves, RollingWrites, RollingAwaits, RollingCleans
       DEF WActuator, WSimple, WLoops, WCleans
  <2>. QED BY <2>1, <2>2
<1>5. CASE SyncState
  BY <1>5, RollingElsewhere DEF SyncState, Machinery
<1>6. CASE MCM \/ \E d \in Deployments : Scale(d)
  <2>1. CASE MCMEnds
    BY <2>1, RollingEnds
  <2>. QED BY <1>6, <2>1, RollingMCM, RollingScaled DEF MCM, MCMActs
<1>7. CASE (Advance \/ Request) /\ ~MoveSeed
  <2>1. UNCHANGED <<mcm, autoscaler, classes, deployments, machines, vms, wRun>>
    BY <1>7
       DEF Advance, Request, ChangeShoot, DeployWorker, RepeatRequest, Finish, RequestMigrate, MigrateControlPlane,
           RestoreWorker, RequestDelete, DeleteControlPlane, FinishDeletion, WElse, Machinery, wVars
  <2>. QED BY <2>1, RollingElsewhere
<1>8. CASE MoveSeed \/ Crash
  <2>1. wRun'.pc = "idle"
    BY <1>1, <1>8 DEF MoveSeed, Crash, Inv, RestoreKeepsState
  <2>. QED BY <2>1 DEF Rolling, Runs
<1>. QED BY <1>1, <1>2, <1>3, <1>4, <1>5, <1>6, <1>7, <1>8, StepKinds, WKinds

RolledInv == Asked /\ Owners /\ Rolling

\* Only the reconciler reports success, at the end of its branch.
LEMMA SuccessReported ==
    ASSUME Inv, [Next]_vars, worker'.state = "succeeded", worker.state # "succeeded"
    PROVE  wRun.pc = "success"
<1>1. WInv /\ worker \in Resource
  BY WTypes DEF Inv, WInv
<1>2. CASE worker' = worker \/ worker'.state \in {worker.state, "none", "processing", "error"}
  BY <1>2
<1>3. CASE (WController \/ WFails) /\ UNCHANGED stage
  <2>1. CASE WMarkSucceeded
    BY <2>1 DEF WMarkSucceeded, WAt
  <2>2. CASE WEnds \/ WTakes
    BY <1>1, <1>2, <2>2, ResourceFields, WTakesFields DEF WEnds
  <2>3. CASE WMarkProcessing
    <3>1. wRun.type \in Operations
      BY <1>1, WTypes DEF WInv, WRunSet
    <3>. QED BY <1>1, <1>2, <2>3, <3>1, ResourceFields DEF WMarkProcessing
  <2>4. CASE WEnsureFinalizer \/ WRelease \/ WUnannotate
    <3>1. CASE WEnsureFinalizer
      BY <1>1, <1>2, <3>1 DEF WEnsureFinalizer, Resource
    <3>2. CASE WRelease
      <4>1. CASE worker.deleting
        BY <1>2, <3>2, <4>1 DEF WRelease, Released, Missing
      <4>2. CASE ~worker.deleting
        BY <1>1, <1>2, <3>2, <4>2 DEF WRelease, Released, Resource
      <4>. QED BY <4>1, <4>2
    <3>3. CASE WUnannotate
      BY <1>1, <1>2, <3>3 DEF WUnannotate, Resource
    <3>. QED BY <2>4, <3>1, <3>2, <3>3
  <2>5. CASE WGoesOn
    BY <1>2, <2>5 DEF WGoesOn
  <2>. QED BY <1>1, <1>3, <2>1, <2>2, <2>3, <2>4, <2>5, WKinds DEF WWrites
<1>4. CASE UNCHANGED <<wVars, stage>> \/ SyncState \/ MCM \/ \E d \in Deployments : Scale(d)
  BY <1>2, <1>4
     DEF SyncState, MCM, MCMEnds, CreateSet, FinalizeDeployment, CreateMachine, CreateVM, RemoveMachine,
         FinalizeClass, MCMWorks, Scale, wVars, wStatus
<1>5. CASE Advance \/ Request \/ Crash
  <2>1. worker' = New("reconcile") \/ worker' = New("waitForState") \/ worker'.state = worker.state
    BY <1>1, <1>5
       DEF Advance, Request, Crash, ChangeShoot, DeployWorker, RepeatRequest, Finish, RequestMigrate,
           MigrateControlPlane, MoveSeed, RestoreWorker, RequestDelete, DeleteControlPlane, FinishDeletion, WElse,
           wVars, wStatus, Resource
  <2>. QED BY <1>2, <2>1 DEF New, Missing
<1>. QED BY <1>3, <1>4, <1>5, StepKinds

LEMMA RolledAtSuccess ==
    ASSUME Inv, WorkerInv, RolledInv, wRun.pc = "success", wRun.job = "reconcile"
    PROVE  Rolled(wRun.spec)
<1>1. /\ Runs("reconcile") /\ WInv /\ WControl /\ wRun.spec \in WSpecs /\ ~HandedOver
  BY DEF Inv, WInv, WorkerInv, WControl, WBranches, Runs, JobsAt
<1>. USE DEF PastMCM, PastClasses, PastList, PastDeploy, PastAvailable, PastClean
<1>2. ScalersSet /\ DeploymentsReady /\ MachinesReady /\ UnwantedGone /\ wRun.todo = {} /\ HasDeployment
  BY <1>1 DEF RolledInv, Rolling, Reached, Owners
<1>3. mcm = IF wRun.spec.hibernated THEN "stopped" ELSE "running"
  BY <1>1, <1>2 DEF ScalersSet, Hibernated, WSpecs
<1>4. ASSUME NEW d \in Deployments, NEW v \in Versions, machines[<<d, v>>] > 0
      PROVE  /\ wRun.spec.pools[d] # Nil /\ wRun.spec.pools[d].version = v
             /\ IF wRun.spec.hibernated THEN autoscaler /\ ~Autoscaled ELSE classes[<<d, v>>] # "absent"
  <2>1. <<d, v>> \in Classes
    BY DEF Classes
  <2>2. deployments[d] # Nil
    BY <1>2, <1>4, <2>1 DEF HasDeployment
  <2>3. d \in WantedNow
    BY <1>2, <2>2 DEF UnwantedGone
  <2>4. Hibernated /\ Autoscaled => ~autoscaler
    BY <1>2 DEF ScalersSet
  <2>. QED BY <1>2, <1>4, <2>3, <2>4 DEF MachinesReady, RunsNow, WantedNow, Hibernated
<1>5. ASSUME NEW d \in Deployments
      PROVE  IF wRun.spec.pools[d] = Nil THEN deployments[d] = Nil
             ELSE WasLeaving(d) \/ (deployments[d] # Nil /\ deployments[d].version = wRun.spec.pools[d].version)
  BY <1>2 DEF UnwantedGone, WantedNow, DeploymentsReady, DeployedNow
<1>. QED BY <1>3, <1>4, <1>5 DEF Rolled

LEMMA RolledInvHolds ==
    ASSUME PoolsHaveMachines, ~MCMOutlives
    PROVE  Spec => [](Inv /\ WorkerInv /\ RolledInv)
<1>1. Init => RolledInv
  <2>1. Init => Rolling
    BY DEF Init, WEmpty, WIdle, Rolling, Runs
  <2>. QED BY <2>1, AskedInit, OwnersInit DEF RolledInv
<1>2. Inv /\ WorkerInv /\ RolledInv /\ [Next]_vars => RolledInv'
  BY AskedNext, OwnersNext, RollingNext DEF RolledInv
<1>. QED BY <1>1, <1>2, WorkerInvHolds, PTL DEF Spec

\* When the controller reports a worker whose pools have machines as
\* reconciled, MCM runs or sleeps as the shoot does, every machine is of its
\* pool's present class, and nothing is left of other pools and classes, however
\* the machine controller manager, the autoscaler, the gardenlet and failures
\* come between the calls, where MCM's pod goes before the wait for its deployment
\* ends.
THEOREM ReportedMeansRolled ==
    ASSUME PoolsHaveMachines, ~MCMOutlives
    PROVE  Spec => SuccessMeansRolled
<1>. DEFINE reported == worker'.state = "succeeded" /\ worker.state # "succeeded" /\ wRun.job = "reconcile"
                        => Rolled(wRun.spec)
<1>1. Inv /\ WorkerInv /\ RolledInv /\ [Next]_vars => [reported]_worker
  BY SuccessReported, RolledAtSuccess
<1>. QED BY <1>1, RolledInvHolds, PTL DEF Spec, SuccessMeansRolled
=============================================================================
