------------------------------- MODULE Worker -------------------------------
(***************************************************************************)
(* The worker controller: the generic reconciler, actuator and state       *)
(* reconciler of the vendored extensions library, with what the Azure      *)
(* delegate generates (MachineConfig) reduced to a version of the machine  *)
(* class per deployment.  One step is one call to an API server, or one    *)
(* deployment of a loop over them.                                         *)
(*                                                                         *)
(* The machine controller manager (MCM) is modelled by what the actuator   *)
(* relies on: it makes a machine set for the class of a deployment,        *)
(* machines for the set, a virtual machine for each of them, and takes     *)
(* away what is too much; a deployment or class that is being deleted goes *)
(* when no machine is left.  A class stands for itself and its secret.     *)
(***************************************************************************)
EXTENDS AzureAPI, ExtensionResource

CONSTANTS
    Deployments,       \* names of machine deployments: a pool in a zone
    Versions,          \* versions of a deployment's machine class
    MaxReplicas,
    MCMOutlives        \* may MCM's pod run on when its deployment is gone and waited for?

ASSUME WorkerAssumption == MaxReplicas \in Nat /\ Nil \notin Versions /\ MCMOutlives \in BOOLEAN

VARIABLES
    worker,            \* the Worker resource
    saved,             \* its Status.State: for a deployment Nil or [replicas, sets]
    bounds,            \* its Status.MachineDeployments: Nil or [min, max]
    wanted,            \* its spec and the Cluster: [pools, hibernated]
    mcm,               \* MCM: no deployment and no pod, a deployment with 0 or 1 replicas, or the pod of one that is gone
    autoscaler,        \* does the cluster autoscaler have a replica?
    classes,           \* the machine classes
    deployments,       \* the machine deployments: Nil or [version, replicas, deleting]
    sets,              \* the machine sets that exist
    machines, vms,     \* the machines of a class in the seed, and in Azure
    wRun               \* the controller: the call it makes next, its branch and operation, and its locals

wStatus == <<worker, saved, bounds>>
wVars   == <<wStatus, wanted, mcm, autoscaler, classes, deployments, sets, machines, vms, wRun>>

Classes  == Deployments \X Versions
Counts   == 0..MaxReplicas
Pool     == [version : Versions, min : Counts, max : Counts]
Pools    == [Deployments -> Pool \cup {Nil}]
\* The sets of a deployment: how many machines each has.
SetStates == UNION {[S -> Counts] : S \in SUBSET Versions}

WDeploySteps ==
    {"finalizer", "mcm", "pause", "listClasses", "classes", "list", "deploy", "available", "cleanDeployments",
     "cleanClasses", "unwantedGone", "cleanSets", "stopMCM", "resume", "bounds"}
WRemoveSteps == {"dropMCM", "mcmGone", "dropMachines", "dropSets", "dropDeployments", "dropClasses", "allGone"}
WSteps == WDeploySteps \cup WRemoveSteps \cup {"idle", "processing", "restore", "success", "release", "unannotate"}

\* The spec and Cluster it has read, the class names it has listed, the
\* deployments it has listed, and those a loop has still to visit.
WIdle ==
    [pc |-> "idle", job |-> "none", type |-> "none", spec |-> Nil, known |-> {}, listed |-> Nil, todo |-> {}]
WGoto(l) == wRun' = [wRun EXCEPT !.pc = l]
WAt(l) == wRun.pc = l

Deployment == [version : Versions, replicas : Counts, deleting : BOOLEAN]
SavedState == [replicas : Counts, sets : SetStates]
ASSUME StoredAssumption == Nil \notin Deployment /\ Nil \notin SavedState
WTypeOK ==
    /\ worker \in Resource
    /\ saved \in [Deployments -> {Nil} \cup SavedState]
    /\ bounds \in [Deployments -> {Nil} \cup [min : Counts, max : Counts]]
    /\ wanted \in [pools : Pools, hibernated : BOOLEAN]
    /\ mcm \in {"absent", "stopped", "running", "ending"}
    /\ autoscaler \in BOOLEAN
    /\ classes \in [Classes -> {"absent", "present", "deleting"}]
    /\ deployments \in [Deployments -> {Nil} \cup Deployment]
    /\ sets \subseteq Classes
    /\ machines \in [Classes -> Counts] /\ vms \in [Classes -> Counts]
    /\ wRun \in [pc : WSteps, job : {"none", "reconcile", "restore", "migrate", "delete"}, type : Operations,
                 spec : {Nil} \cup [pools : Pools, hibernated : BOOLEAN], known : SUBSET Classes,
                 listed : {Nil} \cup [Deployments -> {Nil} \cup Deployment], todo : SUBSET Deployments]

NoMachineResources ==
    /\ \A c \in Classes : classes[c] = "absent" /\ machines[c] = 0
    /\ \A d \in Deployments : deployments[d] = Nil
    /\ sets = {}

WEmpty ==
    /\ mcm = "absent" /\ autoscaler = FALSE
    /\ classes = [c \in Classes |-> "absent"]
    /\ deployments = [d \in Deployments |-> Nil]
    /\ sets = {}
    /\ machines = [c \in Classes |-> 0]
    /\ wRun = WIdle

-----------------------------------------------------------------------------
(* The reconciler: extensions/pkg/controller/worker/reconciler.go *)

Machinery == <<mcm, autoscaler, classes, deployments, sets, machines, vms>>
WStored   == UNCHANGED <<saved, bounds, wanted, Machinery>>

\* Reconcile reads the resource and the Cluster; EnsureFinalizer is for
\* reconciliations only.
WDispatch ==
    /\ WAt("idle")
    /\ Due(worker)
    /\ worker' = Taken(worker)
    /\ wRun' = [WIdle EXCEPT !.job = Branch(worker), !.type = OperationOf(worker), !.spec = wanted,
                             !.pc = IF Branch(worker) = "reconcile" THEN "finalizer" ELSE "processing"]
    /\ WStored

WEnsureFinalizer ==
    /\ WAt("finalizer")
    /\ worker' = [worker EXCEPT !.finalizer = TRUE]
    /\ WGoto("processing")
    /\ WStored

FirstCall ==
    CASE wRun.job \in {"reconcile", "delete"} -> "mcm"
      [] wRun.job = "restore"                 -> "list"
      [] wRun.job = "migrate"                 -> "dropMCM"
\* The resource is read anew to be updated, the Cluster is not.
WMarkProcessing ==
    /\ WAt("processing")
    /\ worker' = Processing(worker, wRun.type)
    /\ wRun' = [wRun EXCEPT !.pc = FirstCall, !.spec.pools = wanted.pools]
    /\ WStored

WMarkSucceeded ==
    /\ WAt("success")
    /\ worker' = Succeeded(worker)
    /\ CASE wRun.job = "reconcile"             -> wRun' = WIdle
         [] wRun.job = "restore"               -> WGoto("unannotate")
         [] wRun.job \in {"delete", "migrate"} -> WGoto("release")
    /\ WStored

WRelease ==
    /\ WAt("release")
    /\ worker' = Released(worker)
    /\ IF wRun.job = "migrate" /\ ~worker.deleting THEN WGoto("unannotate") ELSE wRun' = WIdle
    /\ WStored

\* A restored worker is queued again, to be reconciled.
WUnannotate ==
    /\ WAt("unannotate")
    /\ worker' = [worker EXCEPT !.annotation = "none", !.queued = (wRun.job = "restore")]
    /\ wRun' = WIdle
    /\ WStored

WFails ==
    /\ worker' \in IF WAt("idle") THEN Refusals(worker) ELSE Failures(worker, wRun.pc)
    /\ wRun' = WIdle
    /\ WStored

-----------------------------------------------------------------------------
(* The actuator's Reconcile, and the calls Delete and Restore share with it *)

Hibernated == wRun.spec.hibernated
WantedNow  == {d \in Deployments : wRun.spec.pools[d] # Nil}
ClassOf(d) == <<d, wRun.spec.pools[d].version>>
WantedClasses == {ClassOf(d) : d \in WantedNow}
Autoscaled == \E d \in WantedNow : wRun.spec.pools[d].max > wRun.spec.pools[d].min

WWorks(l) == WAt(l) /\ UNCHANGED <<wStatus, wanted>>

\* A hibernated shoot keeps MCM at the replicas it has; Delete wakes it up.
MCMDeployed == mcm \in {"stopped", "running"}
MCMReplicas_KeepsAlways == IF MCMDeployed THEN mcm ELSE "running"
MCMReplicas ==
    IF wRun.job = "reconcile" /\ Hibernated /\ MCMDeployed THEN mcm ELSE "running"
\* The chart, the managed resource, and the wait for the rollout: WFails is
\* the end of one that takes too long, MCM being deployed.
DeployMCM ==
    /\ WWorks("mcm")
    /\ mcm' = MCMReplicas
    /\ WGoto(IF wRun.job = "delete" THEN "classes" ELSE "pause")
    /\ UNCHANGED <<autoscaler, classes, deployments, sets, machines, vms>>

PauseAutoscaler ==
    /\ WWorks("pause")
    /\ autoscaler' = (autoscaler /\ ~(Autoscaled /\ Hibernated))
    /\ WGoto("listClasses")
    /\ UNCHANGED <<mcm, classes, deployments, sets, machines, vms>>

ListClasses ==
    /\ WWorks("listClasses")
    /\ wRun' = [wRun EXCEPT !.pc = "classes", !.known = {c \in Classes : classes[c] # "absent"}]
    /\ UNCHANGED Machinery

\* A class that is being deleted is updated and goes all the same.
DeployClasses ==
    /\ WWorks("classes")
    /\ classes' = [c \in Classes |->
                      IF c \in WantedClasses /\ classes[c] = "absent" THEN "present" ELSE classes[c]]
    /\ WGoto("list")
    /\ UNCHANGED <<mcm, autoscaler, deployments, sets, machines, vms>>

\* Restore leaves out the deployments of which no machine set was saved.
Restorable == {d \in WantedNow : saved[d] # Nil /\ DOMAIN saved[d].sets # {}}
ListDeployments ==
    /\ WWorks("list")
    /\ wRun' = [wRun EXCEPT !.listed = deployments,
                            !.todo   = IF wRun.job = "restore" THEN Restorable ELSE WantedNow,
                            !.pc     = CASE wRun.job = "reconcile" -> "deploy"
                                         [] wRun.job = "restore"   -> "dropMCM"
                                         [] wRun.job = "delete"    -> "cleanDeployments"]
    /\ UNCHANGED Machinery

WasAsleep == \A d \in Deployments : wRun.listed[d] # Nil => wRun.listed[d].replicas = 0

\* deployMachineDeployments: the replicas the autoscaler has chosen are kept
\* as listed, within the bounds of the pool.
WantedReplicas_Added(d) ==
    IF Hibernated THEN 0
    ELSE IF wRun.listed[d] = Nil THEN wRun.spec.pools[d].min
    ELSE wRun.spec.pools[d].min + wRun.listed[d].replicas
WantedReplicas(d) ==
    LET pool == wRun.spec.pools[d]
        old  == wRun.listed[d]
    IN  IF Hibernated THEN 0
        ELSE IF ~Autoscaled /\ wRun.job # "restore" THEN pool.min
        ELSE IF old = Nil
             THEN IF wRun.job = "restore" /\ saved[d] # Nil THEN saved[d].replicas ELSE pool.min
        ELSE IF WasAsleep \/ old.replicas < pool.min THEN pool.min
        ELSE IF old.replicas > pool.max THEN pool.max
        ELSE old.replicas

DeployDeployment(d) ==
    /\ WWorks("deploy")
    /\ d \in wRun.todo
    /\ deployments' = [deployments EXCEPT ![d] =
                          [version  |-> wRun.spec.pools[d].version, replicas |-> WantedReplicas(d),
                           deleting |-> IF @ = Nil THEN FALSE ELSE @.deleting]]
    /\ wRun' = [wRun EXCEPT !.todo = @ \ {d}]
    /\ UNCHANGED <<mcm, autoscaler, classes, sets, machines, vms>>

AllDeployed ==
    /\ WWorks("deploy")
    /\ wRun.todo = {}
    /\ WGoto(IF wRun.job = "restore" THEN "success" ELSE "available")
    /\ UNCHANGED Machinery

SetsOf(d) == {v \in Versions : <<d, v>> \in sets}

\* waitUntilWantedMachineDeploymentsAvailable: a deployment that was there has
\* the set of a new class next to its old one; no machine is left of a
\* hibernated shoot; otherwise every deployment has all its machines, with
\* their nodes, from the set of its class.
RollingStarted(d) ==
    wRun.listed[d] # Nil /\ ClassOf(d) \notin wRun.known => \E v, w \in SetsOf(d) : v # w
IsAvailable_AnySet(d) ==
    /\ deployments[d] # Nil
    /\ \E v \in Versions : vms[<<d, v>>] = deployments[d].replicas
IsAvailable(d) ==
    /\ deployments[d] # Nil
    /\ ClassOf(d) \in sets
    /\ \A v \in Versions : machines[<<d, v>>] = IF v = wRun.spec.pools[d].version
                                                THEN deployments[d].replicas ELSE 0
    /\ vms[ClassOf(d)] = deployments[d].replicas
Available ==
    /\ \A d \in WantedNow : deployments[d] # Nil => RollingStarted(d)
    /\ IF Hibernated THEN \A d \in WantedNow, v \in Versions : machines[<<d, v>>] = 0
                     ELSE \A d \in WantedNow : IsAvailable(d)

AwaitAvailable ==
    /\ WWorks("available")
    /\ Available
    /\ WGoto("cleanDeployments")
    /\ UNCHANGED Machinery

HoldAutoscaler ==
    /\ WWorks("available")
    /\ ~Available /\ ~Hibernated /\ Autoscaled
    /\ autoscaler /\ autoscaler' = FALSE
    /\ UNCHANGED <<mcm, classes, deployments, sets, machines, vms, wRun>>

\* Of the deployments that were listed, those not wanted; Delete wants none.
Unwanted ==
    {d \in Deployments : wRun.listed[d] # Nil /\ (wRun.job = "delete" \/ d \notin WantedNow)}
CleanDeployments ==
    /\ WAt("cleanDeployments")
    /\ UNCHANGED <<saved, bounds, wanted, mcm, autoscaler, classes, sets, machines, vms>>
    /\ IF \E d \in Unwanted : deployments[d] = Nil
       THEN worker' = Failed(worker) /\ wRun' = WIdle /\ UNCHANGED deployments
       ELSE /\ deployments' = [d \in Deployments |->
                                 IF d \in Unwanted THEN [deployments[d] EXCEPT !.deleting = TRUE] ELSE deployments[d]]
            /\ WGoto("cleanClasses")
            /\ UNCHANGED worker

CleanClasses ==
    /\ WWorks("cleanClasses")
    /\ classes' = [c \in Classes |->
                      IF classes[c] = "present" /\ (wRun.job = "delete" \/ c \notin WantedClasses)
                      THEN "deleting" ELSE classes[c]]
    /\ WGoto(IF wRun.job = "delete" THEN "allGone" ELSE "unwantedGone")
    /\ UNCHANGED <<mcm, autoscaler, deployments, sets, machines, vms>>

UnwantedGone == \A d \in Deployments \ WantedNow : deployments[d] = Nil
AwaitUnwantedGone ==
    /\ WWorks("unwantedGone")
    /\ UnwantedGone
    /\ WGoto("cleanSets")
    /\ UNCHANGED Machinery

\* What the machine set of a class is asked for.
Desired(c) ==
    LET d == deployments[c[1]]
    IN  IF d # Nil /\ ~d.deleting /\ d.version = c[2] THEN d.replicas ELSE 0

CleanSets ==
    /\ WWorks("cleanSets")
    /\ sets' = {c \in sets : Desired(c) > 0 \/ machines[c] > 0}
    /\ WGoto("stopMCM")
    /\ UNCHANGED <<mcm, autoscaler, classes, deployments, machines, vms>>

StopMCM ==
    /\ WWorks("stopMCM")
    /\ mcm' = IF Hibernated THEN "stopped" ELSE mcm
    /\ WGoto("resume")
    /\ UNCHANGED <<autoscaler, classes, deployments, sets, machines, vms>>

ResumeAutoscaler ==
    /\ WWorks("resume")
    /\ autoscaler' = (autoscaler \/ (Autoscaled /\ ~Hibernated))
    /\ WGoto("bounds")
    /\ UNCHANGED <<mcm, classes, deployments, sets, machines, vms>>

\* updateWorkerStatusMachineDeployments; an empty list is not stored.
StoreBounds ==
    /\ WAt("bounds")
    /\ bounds' = IF WantedNow = {} THEN bounds
                 ELSE [d \in Deployments |-> IF d \in WantedNow THEN [min |-> wRun.spec.pools[d].min, max |-> wRun.spec.pools[d].max]
                                             ELSE Nil]
    /\ WGoto("success")
    /\ UNCHANGED <<worker, saved, wanted, Machinery>>

-----------------------------------------------------------------------------
(* The end of Delete; Migrate; Restore.  None of the calls of a shallow    *)
(* deletion waits for MCM.                                                 *)

MCMRuns == mcm \in {"running", "ending"}

\* deleteMachineControllerManager; the garbage collector takes the pod of a
\* deployment that is gone, sooner or later.
DropMCM ==
    /\ WWorks("dropMCM")
    /\ mcm' = IF MCMRuns THEN "ending" ELSE "absent"
    /\ WGoto(IF wRun.job = "delete" THEN "success" ELSE "mcmGone")
    /\ UNCHANGED <<autoscaler, classes, deployments, sets, machines, vms>>

\* waitUntilMachineControllerManagerIsDeleted looks for the deployment alone.
\* Where MCM is not to outlive it the pod is gone first, too.
AwaitMCMGone_Skipped ==
    /\ WWorks("mcmGone")
    /\ WGoto(IF wRun.job = "migrate" THEN "dropMachines" ELSE "restore")
    /\ UNCHANGED Machinery
AwaitMCMGone ==
    /\ WWorks("mcmGone")
    /\ mcm \in IF MCMOutlives THEN {"absent", "ending"} ELSE {"absent"}
    /\ WGoto(IF wRun.job = "migrate" THEN "dropMachines" ELSE "restore")
    /\ UNCHANGED Machinery

ShallowDeleteMachines ==
    /\ WWorks("dropMachines")
    /\ machines' = [c \in Classes |-> 0]
    /\ WGoto("dropSets")
    /\ UNCHANGED <<mcm, autoscaler, classes, deployments, sets, vms>>

ShallowDeleteSets ==
    /\ WWorks("dropSets")
    /\ sets' = {}
    /\ WGoto("dropDeployments")
    /\ UNCHANGED <<mcm, autoscaler, classes, deployments, machines, vms>>

ShallowDeleteDeployments ==
    /\ WWorks("dropDeployments")
    /\ deployments' = [d \in Deployments |-> Nil]
    /\ WGoto("dropClasses")
    /\ UNCHANGED <<mcm, autoscaler, classes, sets, machines, vms>>

ShallowDeleteClasses ==
    /\ WWorks("dropClasses")
    /\ classes' = [c \in Classes |-> "absent"]
    /\ WGoto("allGone")
    /\ UNCHANGED <<mcm, autoscaler, deployments, sets, machines, vms>>

AwaitAllGone ==
    /\ WWorks("allGone")
    /\ NoMachineResources
    /\ WGoto(IF wRun.job = "delete" THEN "dropMCM" ELSE "success")
    /\ UNCHANGED Machinery

\* deployMachineSetsAndMachines: what exists already is left as it is.
RestoreMachines(d) ==
    /\ WWorks("restore")
    /\ d \in wRun.todo
    /\ sets' = sets \cup ({d} \X DOMAIN saved[d].sets)
    /\ machines' = [c \in Classes |->
                       IF c[1] = d /\ c[2] \in DOMAIN saved[d].sets /\ machines[c] < saved[d].sets[c[2]]
                       THEN saved[d].sets[c[2]] ELSE machines[c]]
    /\ wRun' = [wRun EXCEPT !.todo = @ \ {d}]
    /\ UNCHANGED <<mcm, autoscaler, classes, deployments, vms>>

AllRestored ==
    /\ WWorks("restore")
    /\ wRun.todo = {}
    /\ wRun' = [wRun EXCEPT !.pc = "deploy", !.todo = Restorable]
    /\ UNCHANGED Machinery

\* The waits are long: by the time they give up MCM has done what it can
\* (when it has not, WFails stands for it).
MCMAtRest ==
    \/ ~MCMRuns
    \/ /\ \A d \in Deployments :
             deployments[d] # Nil => IF deployments[d].deleting THEN \E v \in Versions : machines[<<d, v>>] > 0
                                     ELSE <<d, deployments[d].version>> \in sets
       /\ \A c \in Classes :
             /\ c \in sets => machines[c] >= Desired(c)
             /\ classes[c] # "absent" => vms[c] = machines[c] /\ machines[c] <= Desired(c)
             /\ classes[c] = "deleting" => machines[c] > 0

WTimesOut ==
    /\ MCMAtRest
    /\ \/ WAt("available") /\ ~Available
       \/ WAt("unwantedGone") /\ ~UnwantedGone
       \/ WAt("allGone") /\ ~NoMachineResources
    /\ worker' = Failed(worker)
    /\ wRun' = WIdle
    /\ WStored

-----------------------------------------------------------------------------
(* The state reconciler, on events of machines and machine sets *)

CurrentState ==
    [d \in Deployments |->
        IF deployments[d] = Nil \/ SetsOf(d) = {} THEN Nil
        ELSE [replicas |-> deployments[d].replicas, sets |-> [v \in SetsOf(d) |-> machines[<<d, v>>]]]]

StatesSync ==
    worker.exists /\ ~worker.deleting /\ OperationType(worker) = "reconcile" /\ ~IsMigrated(worker)
SyncState ==
    /\ StatesSync
    /\ saved # CurrentState
    /\ saved' = CurrentState
    /\ UNCHANGED <<worker, bounds, wanted, Machinery, wRun>>

WController ==
    \/ WDispatch \/ WEnsureFinalizer \/ WMarkProcessing \/ WMarkSucceeded \/ WRelease \/ WUnannotate
    \/ DeployMCM \/ PauseAutoscaler \/ ListClasses \/ DeployClasses \/ ListDeployments
    \/ (\E d \in Deployments : DeployDeployment(d) \/ RestoreMachines(d)) \/ AllDeployed \/ AllRestored
    \/ AwaitAvailable \/ HoldAutoscaler \/ CleanDeployments \/ CleanClasses \/ AwaitUnwantedGone
    \/ CleanSets \/ StopMCM \/ ResumeAutoscaler \/ StoreBounds
    \/ DropMCM \/ AwaitMCMGone \/ ShallowDeleteMachines \/ ShallowDeleteSets \/ ShallowDeleteDeployments
    \/ ShallowDeleteClasses \/ AwaitAllGone
    \/ WTimesOut

-----------------------------------------------------------------------------
(* The machine controller manager and the cluster autoscaler *)

MCMWorks == MCMRuns /\ UNCHANGED <<wStatus, wanted, mcm, autoscaler, wRun>>

CreateSet(d) ==
    /\ MCMWorks
    /\ deployments[d] # Nil /\ ~deployments[d].deleting
    /\ <<d, deployments[d].version>> \notin sets
    /\ sets' = sets \cup {<<d, deployments[d].version>>}
    /\ UNCHANGED <<classes, deployments, machines, vms>>

CreateMachine(c) ==
    /\ MCMWorks
    /\ c \in sets /\ machines[c] < Desired(c)
    /\ machines' = [machines EXCEPT ![c] = @ + 1]
    /\ UNCHANGED <<classes, deployments, sets, vms>>

CreateVM(c) ==
    /\ MCMWorks
    /\ vms[c] < machines[c] /\ classes[c] # "absent"
    /\ vms' = [vms EXCEPT ![c] = @ + 1]
    /\ UNCHANGED <<classes, deployments, sets, machines>>

RemoveMachine(c) ==
    /\ MCMWorks
    /\ machines[c] > Desired(c) /\ classes[c] # "absent"
    /\ machines' = [machines EXCEPT ![c] = @ - 1]
    /\ vms' = [vms EXCEPT ![c] = IF @ >= machines[c] THEN @ - 1 ELSE @]
    /\ UNCHANGED <<classes, deployments, sets>>

FinalizeDeployment(d) ==
    /\ MCMWorks
    /\ deployments[d] # Nil /\ deployments[d].deleting
    /\ \A v \in Versions : machines[<<d, v>>] = 0
    /\ deployments' = [deployments EXCEPT ![d] = Nil]
    /\ sets' = {c \in sets : c[1] # d}
    /\ UNCHANGED <<classes, machines, vms>>

FinalizeClass(c) ==
    /\ MCMWorks
    /\ classes[c] = "deleting" /\ machines[c] = 0
    /\ classes' = [classes EXCEPT ![c] = "absent"]
    /\ UNCHANGED <<deployments, sets, machines, vms>>

MCMEnds ==
    /\ mcm = "ending" /\ mcm' = "absent"
    /\ UNCHANGED <<wStatus, wanted, autoscaler, classes, deployments, sets, machines, vms, wRun>>

MCM ==
    \/ MCMEnds
    \/ \E d \in Deployments : CreateSet(d) \/ FinalizeDeployment(d)
    \/ \E c \in Classes : CreateMachine(c) \/ CreateVM(c) \/ RemoveMachine(c) \/ FinalizeClass(c)

Scale(d) ==
    /\ autoscaler
    /\ bounds[d] # Nil /\ deployments[d] # Nil /\ ~deployments[d].deleting
    /\ \E n \in bounds[d].min .. bounds[d].max :
          n # deployments[d].replicas /\ deployments' = [deployments EXCEPT ![d].replicas = n]
    /\ UNCHANGED <<wStatus, wanted, mcm, autoscaler, classes, sets, machines, vms, wRun>>

-----------------------------------------------------------------------------
(* Properties *)

\* MCM never runs beside a virtual machine of which it has no machine, which
\* it would take for an orphan and delete: not while a worker is handed over
\* to another seed or taken back there, whatever fails on the way.
NoOrphans == MCMRuns => \A c \in Classes : vms[c] <= machines[c]

\* When the controller reports a worker as reconciled, what it has read runs
\* and nothing else does: every machine is of its pool's class, which still
\* exists, and none is left of another pool or of a shoot that sleeps.  (A pool
\* that may have no machine is not waited for, and may miss its class.)
\* Two things the controller does not see to.  A deployment that is still being
\* deleted when its pool comes back is updated and goes all the same.  And the
\* autoscaler is stopped only where it has something to do by the new spec: it
\* may go on scaling a shoot that falls asleep with pools of a fixed size.
WasLeaving(d) == wRun.listed[d] # Nil /\ wRun.listed[d].deleting
Rolled(spec) ==
    /\ mcm = IF spec.hibernated THEN "stopped" ELSE "running"
    /\ \A d \in Deployments, v \in Versions :
          machines[<<d, v>>] > 0 =>
              /\ spec.pools[d] # Nil /\ spec.pools[d].version = v
              /\ IF spec.hibernated THEN autoscaler /\ ~Autoscaled ELSE classes[<<d, v>>] # "absent"
    /\ \A d \in Deployments :
          IF spec.pools[d] = Nil THEN deployments[d] = Nil
          ELSE WasLeaving(d) \/ (deployments[d] # Nil /\ deployments[d].version = spec.pools[d].version)
SuccessMeansRolled ==
    [][worker'.state = "succeeded" /\ worker.state # "succeeded" /\ wRun.job = "reconcile"
          => Rolled(wRun.spec)]_worker

\* A worker that is gone has left no machine in Azure and nothing in the seed.
WorkerLeavesNothing ==
    ~worker.exists => NoMachineResources /\ ~MCMDeployed /\ \A c \in Classes : vms[c] = 0
=============================================================================
