--------------------------- MODULE SeedControllers ---------------------------
(***************************************************************************)
(* The control plane controller and the worker controller, which run in    *)
(* one process, and the gardenlet (external), which takes a shoot through  *)
(* them: the control plane before the worker when it is reconciled or      *)
(* restored, the worker before the control plane when it is deleted or     *)
(* leaves the seed.                                                        *)
(***************************************************************************)
EXTENDS ControlPlane, Worker

CONSTANTS
    Shoots,        \* what the user may ask for: [control, pools, hibernated]
    Limits         \* bounds on requests, faults and events, of which the initial state picks one

ASSUME SeedAssumption ==
    /\ Shoots \subseteq [control : [version : 0..2, remedy : BOOLEAN, acr : BOOLEAN],
                         pools : Pools, hibernated : BOOLEAN]
    /\ Limits \subseteq [requests : Nat, faults : Nat, events : Nat]

VARIABLES
    shoot,         \* what the user asks for
    stage,         \* how far the gardenlet is with it
    left           \* requests, faults and events that may still come

vars == <<cpVars, wVars, shoot, stage, left>>

Spend(what) == left[what] > 0 /\ left' = [left EXCEPT ![what] = @ - 1]
Keeps       == UNCHANGED <<shoot, stage, left>>

Stages ==
    {"controlPlane", "worker", "done", "migrateWorker", "migrateControlPlane", "restoreControlPlane", "restoreWorker",
     "deleteWorker", "deleteControlPlane", "deleted"}

TypeOK ==
    /\ CPTypeOK /\ WTypeOK
    /\ shoot \in Shoots /\ stage \in Stages
    /\ left \in [requests : Nat, faults : Nat, events : Nat]

Init ==
    /\ shoot \in Shoots
    /\ left \in Limits
    /\ stage = "controlPlane"
    /\ cp = New("reconcile") /\ cpShoot = shoot.control
    /\ CPEmpty /\ serving = TRUE /\ cpRun = CPIdle
    /\ worker = Missing
    /\ wanted = [pools |-> shoot.pools, hibernated |-> shoot.hibernated]
    /\ saved = [d \in Deployments |-> Nil] /\ bounds = [d \in Deployments |-> Nil]
    /\ vms = [c \in Classes |-> 0]
    /\ WEmpty

-----------------------------------------------------------------------------
(* The gardenlet *)

CPElse == UNCHANGED <<objects, managed, remedies, cpRun>>
WElse  == UNCHANGED <<saved, bounds, Machinery, wRun>>

\* One reconciliation after the other, unless the wait for it ended with an
\* error: then the controller may still be at it when the next one starts.
MayTurn ==
    \/ stage = "done"
    \/ stage = "controlPlane" /\ cp.state = "error"
    \/ stage = "worker" /\ worker.state = "error"

\* Not before a restored worker has been reconciled as it was: restoring it
\* makes no machine class, and one that the new spec does not name would be
\* missing when its machines are to go.
\* A pool of a shoot that sleeps is not removed: MCM sleeps, too, and the wait
\* for its deployment to go would end only when the shoot wakes up.
ChangeShoot ==
    /\ MayTurn /\ worker.type # "restore"
    /\ Spend("requests")
    /\ \E new \in Shoots \ {shoot} :
          /\ \A d \in Deployments : shoot.hibernated /\ shoot.pools[d] # Nil => new.pools[d] # Nil
          /\ shoot' = new
          /\ cpShoot' = new.control
    /\ cp' = [cp EXCEPT !.annotation = "reconcile"]
    /\ stage' = "controlPlane"
    /\ CPElse /\ UNCHANGED <<serving, wVars>>

\* The gardenlet looks every few seconds; it is assumed not to look between the
\* removal of the annotation and the status that follows, when the last success
\* is still there to be seen.
Ready(r, run) == IsHealthy(r) /\ run.pc \notin {"finalizer", "processing"}

\* The spec holds the pools, the Cluster whether the shoot sleeps.
DeployWorker ==
    /\ stage = "controlPlane" /\ Ready(cp, cpRun)
    /\ worker' = IF ~worker.exists THEN New("reconcile")
                 ELSE [worker EXCEPT !.annotation = "reconcile",
                                     !.observed = @ /\ wanted.pools = shoot.pools]
    /\ wanted' = [pools |-> shoot.pools, hibernated |-> shoot.hibernated]
    /\ stage' = "worker"
    /\ WElse /\ UNCHANGED <<cpVars, shoot, left>>

\* The request that a controller has taken is lost when it stops before it
\* has stored a status; the wait for it ends, and it is made again.
RepeatRequest ==
    /\ stage = "worker"
    /\ ~IsHealthy(worker) /\ ~Due(worker) /\ WAt("idle")
    /\ worker' = [worker EXCEPT !.annotation = "reconcile"]
    /\ WElse /\ UNCHANGED <<cpVars, wanted, shoot, stage, left>>

Finish ==
    /\ stage \in {"worker", "restoreWorker"} /\ Ready(worker, wRun)
    /\ stage' = "done"
    /\ UNCHANGED <<cpVars, wVars, shoot, left>>

\* The worker is at rest: its controller is not at it, its deployments are
\* those of its pools, its machines are all there and saved, and the
\* autoscaler leaves them alone.
RequestMigrate ==
    /\ stage = "done" /\ WAt("idle")
    /\ Spend("requests")
    /\ \A d \in Deployments : wanted.pools[d] = Nil => deployments[d] = Nil
    /\ worker.annotation = "none" /\ cp.annotation = "none"
    /\ saved = CurrentState
    /\ \A c \in Classes : machines[c] = Desired(c) /\ vms[c] = machines[c]
    /\ worker' = [worker EXCEPT !.annotation = "migrate"]
    /\ stage' = "migrateWorker"
    /\ WElse /\ UNCHANGED <<cpVars, wanted, shoot>>

MigrateControlPlane ==
    /\ stage = "migrateWorker" /\ IsMigrated(worker) /\ WAt("idle")
    /\ cp' = [cp EXCEPT !.annotation = "migrate"]
    /\ stage' = "migrateControlPlane"
    /\ CPElse /\ UNCHANGED <<cpShoot, serving, wVars, shoot, left>>

\* On the next seed there is nothing yet but the worker's saved state; the old
\* one has deleted the namespace with its pods.
MoveSeed ==
    /\ stage = "migrateControlPlane" /\ IsMigrated(cp) /\ CPAt("idle") /\ mcm = "absent"
    /\ cp' = New("restore") /\ worker' = New("waitForState")
    /\ objects' = {}
    /\ managed' = [m \in ManagedResources |-> Nil]
    /\ remedies' = [r \in RemedyResources |-> Nil]
    /\ bounds' = [d \in Deployments |-> Nil]
    /\ autoscaler' = FALSE
    /\ stage' = "restoreControlPlane"
    /\ UNCHANGED <<cpShoot, serving, cpRun, saved, wanted, mcm, classes, deployments, sets, machines, vms, wRun,
                   shoot, left>>

RestoreWorker ==
    /\ stage = "restoreControlPlane" /\ Ready(cp, cpRun)
    /\ worker' = [worker EXCEPT !.annotation = "restore"]
    /\ stage' = "restoreWorker"
    /\ WElse /\ UNCHANGED <<cpVars, wanted, shoot, left>>

RequestDelete ==
    /\ MayTurn
    /\ cp.finalizer /\ worker.finalizer
    /\ Spend("requests")
    /\ worker' = [worker EXCEPT !.deleting = TRUE]
    /\ stage' = "deleteWorker"
    /\ WElse /\ UNCHANGED <<cpVars, wanted, shoot>>

\* Services and nodes are gone when the control plane goes.
DeleteControlPlane ==
    /\ stage = "deleteWorker" /\ ~worker.exists
    /\ cp' = [cp EXCEPT !.deleting = TRUE]
    /\ serving' = FALSE
    /\ stage' = "deleteControlPlane"
    /\ CPElse /\ UNCHANGED <<cpShoot, wVars, shoot, left>>

FinishDeletion ==
    /\ stage = "deleteControlPlane" /\ ~cp.exists
    /\ stage' = "deleted"
    /\ UNCHANGED <<cpVars, wVars, shoot, left>>

Advance ==
    \/ DeployWorker \/ RepeatRequest \/ Finish \/ MigrateControlPlane \/ MoveSeed \/ RestoreWorker \/ DeleteControlPlane \/ FinishDeletion
Request == ChangeShoot \/ RequestMigrate \/ RequestDelete

-----------------------------------------------------------------------------
CPStep == CPController /\ UNCHANGED wVars /\ Keeps
WStep  == (WController \/ SyncState) /\ UNCHANGED cpVars /\ Keeps
WRuns  == WController /\ UNCHANGED cpVars /\ Keeps

CallFails ==
    /\ Spend("faults")
    /\ \/ CPFails /\ UNCHANGED wVars
       \/ WFails /\ UNCHANGED cpVars
    /\ UNCHANGED <<shoot, stage>>

\* The work queue is lost with the process.
Crash ==
    /\ Spend("faults")
    /\ cpRun' = CPIdle /\ wRun' = WIdle
    /\ cp' = [cp EXCEPT !.queued = FALSE] /\ worker' = [worker EXCEPT !.queued = FALSE]
    /\ UNCHANGED <<cpShoot, objects, managed, remedies, serving, saved, bounds, wanted, Machinery, shoot, stage>>

Remedy == (\E r \in RemedyResources : RemedyReleases(r)) /\ UNCHANGED wVars /\ Keeps
ResourceManager == (\E m \in ManagedResources : ManagedResourceGoes(m)) /\ UNCHANGED wVars /\ Keeps
Machines == MCM /\ UNCHANGED cpVars /\ Keeps

Events ==
    /\ Spend("events")
    /\ \/ (\E r \in RemedyResources : RemedyCreates(r)) /\ UNCHANGED wVars
       \/ (\E ip \in PublicIPs : RemedyTouches(ip)) /\ UNCHANGED wVars
       \/ stage # "migrateWorker" /\ (\E d \in Deployments : Scale(d)) /\ UNCHANGED cpVars
    /\ UNCHANGED <<shoot, stage>>

Next ==
    \/ Advance \/ Request \/ CPStep \/ WStep \/ CallFails \/ Crash
    \/ Remedy \/ ResourceManager \/ Machines \/ Events

Spec == Init /\ [][Next]_vars
FairSpec ==
    /\ Spec
    /\ WF_vars(Advance) /\ WF_vars(CPStep) /\ WF_vars(WRuns)
    /\ WF_vars(Remedy) /\ WF_vars(ResourceManager) /\ WF_vars(Machines)

-----------------------------------------------------------------------------
(* Properties *)

\* What has been deleted is gone, however often its deletion was interrupted:
\* of the workers no machine is left in Azure and nothing in the seed, of the
\* control plane nothing but the objects that no chart deletes.
DeletionLeavesNothing == WorkerLeavesNothing /\ ControlPlaneLeavesNothing

\* Whatever the gardenlet asks for, except to leave the seed, the controllers
\* carry out, once their calls have stopped failing and the machine controller
\* manager, the remedy controller and the resource manager do their part: the
\* shoot is reconciled, restored, or gone with all its machines.
Settled == stage \in {"done", "migrateWorker", "migrateControlPlane", "deleted"}
RequestsSettle == []<>Settled
=============================================================================
