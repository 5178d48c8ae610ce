---------------------------- MODULE CSIMigration ----------------------------
(***************************************************************************)
(* The migration of a shoot from in-tree volumes to CSI: the controller of *)
(* the vendored library (extensions/pkg/controller/csimigration), as       *)
(* configured by pkg/controller/csimigration, together with what it        *)
(* depends on: the webhook that mutates the control plane's deployments,   *)
(* the storage classes the ControlPlane controller deploys, and, external, *)
(* the flow of the gardenlet and the machines.                             *)
(*                                                                         *)
(* Controllers and webhook read the Cluster from one informer cache,       *)
(* `seen`, which lags behind the stored `cluster`; an Update made from a   *)
(* copy that is not the stored version fails.  One step of the controller  *)
(* is one call to an API server.                                           *)
(*                                                                         *)
(* A definition X_Y directly before X is a faulty variant of X, which some *)
(* property refutes; no specification uses it.                             *)
(***************************************************************************)
EXTENDS ControlPlaneWebhook

CONSTANTS
    Machines,        \* names of machines
    Classes,         \* names in storageClassNameToLegacyProvisioner
    Starts,          \* the shoots a behaviour starts with
    MaxChanges,      \* bound on changes of the shoot's specification
    MaxFaults,       \* bound on failed calls, crashes and failed flows
    CacheLag,        \* may the webhook see a Cluster older than the stored one?
    Stragglers,      \* may old machines join when no old node is there any more?
    LeavesEarly,     \* may the version be raised again before the migration is over?
    SeedMoves        \* may the shoot be restored on another seed?

ASSUME StartsAssumption == Starts \subseteq {"existing", "hibernated", "new"}
ASSUME MaxChangesAssumption == MaxChanges \in Nat
ASSUME MaxFaultsAssumption == MaxFaults \in Nat
ASSUME SwitchesAssumption == {CacheLag, Stragglers, LeavesEarly, SeedMoves} \subseteq BOOLEAN

VARIABLES
    cluster,       \* the stored Cluster resource
    seen,          \* the Cluster in the informer cache
    synced,        \* is it the stored one?
    queued,        \* is the key in the controller's work queue?
    pc,            \* the controller: the call it makes next
    copy,          \* the Cluster it works on
    fresh,         \* has its copy the stored resource version?
    legacy,        \* storage classes it still has to delete
    patched,       \* deployments it has patched
    controlPlane,  \* does the ControlPlane resource exist?
    wanted,        \* provisioner in the managed resource of the storage classes
    secret,        \* is cloud-provider-config a secret, or the config map of earlier releases?
    deployed,      \* the deployments that exist
    pieces,        \* what each of them contains
    classes,       \* provisioner of each storage class in the shoot
    apiUp,         \* does the shoot's kube-apiserver run?
    flow,          \* the gardenlet's flow: the step it takes next
    worker,        \* the Worker: the kubelets of its machine class, and hibernation
    machines,      \* machine -> none, booting with an old kubelet, old node, new node
    changes, faults

cacheVars == <<seen, synced>>
ctrlVars  == <<pc, copy, fresh, legacy, patched>>
seedVars  == <<controlPlane, wanted, secret, deployed, pieces, flow>>
shootVars == <<classes, apiUp, worker, machines>>
vars == <<cluster, cacheVars, queued, ctrlVars, seedVars, shootVars, changes, faults>>

\* `halted`: the shoot has failed or the Cluster is being deleted.
Clusters == [version : Versions, hibernated : BOOLEAN, halted : BOOLEAN,
             needsComplete : BOOLEAN, finished : BOOLEAN]
Provisioners == {"none", "legacy", "csi"}
Workers == [kubelet : {"old", "new"}, asleep : BOOLEAN]
CtrlSteps == {"idle", "controlPlane", "markNew", "nodes", "classes", "delete", "needsComplete",
              "patch", "finish"}
FlowSteps == {"idle", "controlPlane", "workers", "sleep"} \cup Deployments

TypeOK ==
    /\ cluster \in Clusters /\ seen \in Clusters /\ copy \in Clusters
    /\ synced \in BOOLEAN /\ queued \in BOOLEAN /\ fresh \in BOOLEAN
    /\ pc \in CtrlSteps
    /\ legacy \subseteq Classes
    /\ patched \subseteq Deployments
    /\ controlPlane \in BOOLEAN
    /\ wanted \in Provisioners
    /\ secret \in BOOLEAN
    /\ deployed \subseteq Deployments
    /\ pieces \in [Deployments -> SUBSET Pieces]
    /\ classes \in [Classes -> Provisioners]
    /\ apiUp \in BOOLEAN
    /\ flow \in FlowSteps
    /\ worker \in Workers
    /\ machines \in [Machines -> {"none", "booting", "old", "new"}]
    /\ changes \in 0..MaxChanges /\ faults \in 0..MaxFaults

----------------------------------------------------------------------------
(* A shoot of a version below 1.20 that runs or is hibernated, or a shoot  *)
(* that is created with at least 1.20.                                     *)

StartOf(start) ==
    /\ \E v \in Versions :
          /\ (v >= csiMigrationVersion) <=> start = "new"
          /\ cluster = [version |-> v, hibernated |-> start = "hibernated", halted |-> FALSE,
                        needsComplete |-> FALSE, finished |-> FALSE]
    /\ secret \in IF start = "new" THEN {FALSE} ELSE BOOLEAN
    /\ queued = (start = "new")
    /\ controlPlane = (start # "new")
    /\ wanted = IF start = "new" THEN "none" ELSE "legacy"
    /\ deployed = IF start = "new" THEN {} ELSE Deployments
    /\ pieces = [d \in Deployments |-> IF start = "new" THEN {}
                                   ELSE Ensure(d, {}, cluster.version, FALSE, secret)]
    /\ classes = [c \in Classes |-> IF start = "new" THEN "none" ELSE "legacy"]
    /\ apiUp = (start = "existing")
    /\ flow = IF start = "new" THEN "controlPlane" ELSE "idle"
    /\ worker = [kubelet |-> "old", asleep |-> start # "existing"]
    /\ machines = [m \in Machines |-> IF start = "existing" THEN "old" ELSE "none"]

Init ==
    /\ \E start \in Starts : StartOf(start)
    /\ seen = cluster /\ synced = TRUE
    /\ pc = "idle" /\ copy = cluster /\ fresh = FALSE
    /\ legacy = {} /\ patched = {}
    /\ changes = 0 /\ faults = MaxFaults

----------------------------------------------------------------------------
(* The informer cache and the work queue.                                  *)

\* The predicates the controller is added with.
IsRelevant_Higher(c) == c.version > csiMigrationVersion /\ ~c.finished
IsRelevant(c) == c.version >= csiMigrationVersion /\ ~c.finished

Store(c) == cluster' = c /\ synced' = FALSE /\ UNCHANGED seen

\* A watch event brings the cache up to date.
Observe ==
    /\ ~synced
    /\ seen' = cluster /\ synced' = TRUE
    /\ queued' = (queued \/ IsRelevant(cluster))
    /\ UNCHANGED <<cluster, ctrlVars, seedVars, shootVars, changes, faults>>

----------------------------------------------------------------------------
(* The controller: Reconcile and reconcile.                                *)

Goto(step) == pc' = step /\ UNCHANGED queued
Return     == pc' = "idle" /\ UNCHANGED queued
Requeue    == pc' = "idle" /\ queued' = TRUE

\* It reads the Cluster from the cache.
Dispatch ==
    /\ pc = "idle" /\ queued
    /\ queued' = FALSE
    /\ copy' = seen /\ fresh' = synced
    /\ legacy' = {} /\ patched' = {}
    /\ pc' = IF seen.halted THEN "idle"
             ELSE IF seen.needsComplete THEN "patch" ELSE "controlPlane"
    /\ UNCHANGED <<cluster, cacheVars, seedVars, shootVars, changes, faults>>

Unchanging == UNCHANGED <<cluster, cacheVars, copy, fresh, seedVars, shootVars, changes, faults>>

\* Without a ControlPlane the shoot is taken for a new one.  Only a shoot
\* that is awake and at the minimum version is migrated.
CheckControlPlane ==
    /\ pc = "controlPlane"
    /\ IF ~controlPlane THEN Goto("markNew")
       ELSE IF copy.version = csiMigrationVersion /\ ~copy.hibernated THEN Goto("nodes")
       ELSE Return
    /\ Unchanging /\ UNCHANGED <<legacy, patched>>

\* An Update of the copy conflicts when the stored Cluster has changed.
Update_Patches(c, step) ==
    /\ Store([cluster EXCEPT !.needsComplete = c.needsComplete, !.finished = c.finished])
    /\ copy' = c
    /\ fresh' = TRUE
    /\ Goto(step)
Update(c, step) ==
    IF fresh THEN Store(c) /\ copy' = c /\ UNCHANGED fresh /\ Goto(step)
             ELSE UNCHANGED <<cluster, cacheVars, copy, fresh>> /\ Requeue

MarkNew ==
    /\ pc = "markNew"
    /\ Update([copy EXCEPT !.needsComplete = TRUE, !.finished = TRUE], "idle")
    /\ UNCHANGED <<legacy, patched, seedVars, shootVars, changes, faults>>

\* It waits until no node has an old kubelet; the shoot's API server must run.
CheckNodes_Skipped ==
    /\ pc = "nodes"
    /\ IF apiUp THEN Goto("classes") ELSE Requeue
    /\ Unchanging /\ UNCHANGED <<legacy, patched>>
CheckNodes ==
    /\ pc = "nodes"
    /\ IF apiUp /\ \A m \in Machines : machines[m] # "old" THEN Goto("classes") ELSE Requeue
    /\ Unchanging /\ UNCHANGED <<legacy, patched>>

ListClasses ==
    /\ pc = "classes"
    /\ IF apiUp
       THEN legacy' = {c \in Classes : classes[c] = "legacy"} /\ Goto("delete")
       ELSE UNCHANGED legacy /\ Requeue
    /\ Unchanging /\ UNCHANGED patched

DeleteClass_KeepsLast ==
    /\ pc = "delete"
    /\ legacy' = {}
    /\ Goto("needsComplete")
    /\ UNCHANGED <<cluster, cacheVars, copy, fresh, patched, seedVars, shootVars, changes, faults>>
DeleteClass ==
    /\ pc = "delete"
    /\ IF legacy = {} THEN Goto("needsComplete") /\ UNCHANGED <<legacy, classes>>
       ELSE IF ~apiUp THEN Requeue /\ UNCHANGED <<legacy, classes>>
       ELSE \E c \in legacy :
              /\ legacy' = legacy \ {c}
              /\ classes' = [classes EXCEPT ![c] = "none"]
              /\ Goto("delete")
    /\ UNCHANGED <<cluster, cacheVars, copy, fresh, patched, seedVars, apiUp, worker, machines,
                   changes, faults>>

MarkNeedsComplete ==
    /\ pc = "needsComplete"
    /\ Update([copy EXCEPT !.needsComplete = TRUE], "patch")
    /\ UNCHANGED <<legacy, patched, seedVars, shootVars, changes, faults>>

\* The webhook mutates what is patched or deployed, as the cache tells it.
WebhookReads == CacheLag \/ synced
Mutated(d, old) ==
    [pieces EXCEPT ![d] = Ensure(d, old, seen.version, seen.needsComplete, secret)]

\* The deployments are patched in this order.
NextToPatch ==
    IF "kube-apiserver" \notin patched THEN "kube-apiserver"
    ELSE IF "kube-controller-manager" \notin patched THEN "kube-controller-manager"
    ELSE "kube-scheduler"

PatchDeployment ==
    /\ pc = "patch"
    /\ WebhookReads
    /\ IF NextToPatch \in deployed
       THEN /\ pieces' = Mutated(NextToPatch, pieces[NextToPatch])
            /\ patched' = patched \cup {NextToPatch}
            /\ Goto(IF patched' = Deployments THEN "finish" ELSE "patch")
       ELSE UNCHANGED <<pieces, patched>> /\ Requeue
    /\ UNCHANGED <<cluster, cacheVars, copy, fresh, legacy, controlPlane, wanted, secret, deployed,
                   flow, shootVars, changes, faults>>

MarkFinished ==
    /\ pc = "finish"
    /\ Update([copy EXCEPT !.finished = TRUE], "idle")
    /\ UNCHANGED <<legacy, patched, seedVars, shootVars, changes, faults>>

Controller ==
    \/ Dispatch \/ CheckControlPlane \/ MarkNew \/ CheckNodes \/ ListClasses \/ DeleteClass
    \/ MarkNeedsComplete \/ PatchDeployment \/ MarkFinished

\* Any call may fail; the key is then queued again.
CallFails ==
    /\ pc # "idle" /\ faults > 0
    /\ faults' = faults - 1
    /\ Requeue
    /\ UNCHANGED <<cluster, cacheVars, copy, fresh, legacy, patched, seedVars, shootVars, changes>>

\* A restart fills the cache and the queue anew.
Crash ==
    /\ faults > 0
    /\ faults' = faults - 1
    /\ pc' = "idle"
    /\ seen' = cluster /\ synced' = TRUE /\ queued' = IsRelevant(cluster)
    /\ UNCHANGED <<cluster, copy, fresh, legacy, patched, seedVars, shootVars, changes>>

----------------------------------------------------------------------------
(* The gardenlet's flow, which starts by storing the specification of the  *)
(* shoot in the Cluster and may be started anew at any point.              *)

SyncCluster(c) == Store(c) /\ fresh' = FALSE /\ flow' = "controlPlane"

\* The version is raised to the minimum when the shoot sleeps, or when it is
\* awake with an old node that only the rolling update removes.
QuietUpgrade ==
    apiUp => /\ ~worker.asleep
             /\ \E m \in Machines : machines[m] = "old"
             /\ \A m \in Machines : machines[m] # "booting"

ChangeShoot ==
    /\ changes < MaxChanges
    /\ \E v \in Versions, h \in BOOLEAN :
          /\ v \in {cluster.version, cluster.version + 1}
          /\ v # cluster.version \/ h # cluster.hibernated
          /\ v = csiMigrationVersion /\ v # cluster.version => Stragglers \/ QuietUpgrade
          /\ v > csiMigrationVersion /\ v # cluster.version => LeavesEarly \/ cluster.finished
          /\ SyncCluster([cluster EXCEPT !.version = v, !.hibernated = h, !.halted = FALSE])
    /\ changes' = changes + 1
    /\ UNCHANGED <<queued, pc, copy, legacy, patched, controlPlane, wanted, secret, deployed,
                   pieces, shootVars, faults>>

\* The daily reconciliation: between two of them the controller comes to rest.
Resync ==
    /\ flow = "idle" /\ pc = "idle" /\ synced /\ ~queued
    /\ SyncCluster([cluster EXCEPT !.halted = FALSE])
    /\ UNCHANGED <<queued, pc, copy, legacy, patched, controlPlane, wanted, secret, deployed,
                   pieces, shootVars, changes, faults>>

FlowFails ==
    /\ flow # "idle" /\ faults > 0
    /\ faults' = faults - 1
    /\ Store([cluster EXCEPT !.halted = TRUE])
    /\ fresh' = FALSE /\ flow' = "idle"
    /\ UNCHANGED <<queued, pc, copy, legacy, patched, controlPlane, wanted, secret, deployed,
                   pieces, shootVars, changes>>

\* Other controllers read the Cluster too; the flow gives the cache the time
\* to show them the specification it has stored.
SpecificationSeen ==
    seen.version = cluster.version /\ seen.hibernated = cluster.hibernated

\* The ControlPlane controller deploys the cloud configuration, as a secret,
\* and the managed resource of the storage classes
\* (GetStorageClassesChartValues).
DeployControlPlane ==
    /\ flow = "controlPlane" /\ SpecificationSeen
    /\ controlPlane' = TRUE /\ secret' = TRUE
    /\ wanted' = IF seen.version < csiMigrationVersion THEN "legacy" ELSE "csi"
    /\ flow' = "kube-apiserver"
    /\ UNCHANGED <<cluster, cacheVars, queued, ctrlVars, deployed, pieces, shootVars, changes, faults>>

NextFlowStep(d) ==
    CASE d = "kube-apiserver"          -> "kube-controller-manager"
      [] d = "kube-controller-manager" -> "kube-scheduler"
      [] d = "kube-scheduler"          -> "workers"

\* A deployment is deployed from its template and mutated by the webhook.
Deploy(d) ==
    /\ flow = d /\ SpecificationSeen /\ WebhookReads
    /\ deployed' = deployed \cup {d}
    /\ pieces' = Mutated(d, {})
    /\ apiUp' = (apiUp \/ (d = "kube-apiserver" /\ ~cluster.hibernated))
    /\ flow' = NextFlowStep(d)
    /\ UNCHANGED <<cluster, cacheVars, queued, ctrlVars, controlPlane, wanted, secret, classes,
                   worker, machines, changes, faults>>

\* The Worker gets the kubelet configuration the webhook has completed.
DeployWorker ==
    /\ flow = "workers" /\ SpecificationSeen
    /\ worker' = [kubelet |-> EnsureKubelet(seen.version), asleep |-> cluster.hibernated]
    /\ flow' = IF cluster.hibernated THEN "sleep" ELSE "idle"
    /\ UNCHANGED <<cluster, cacheVars, queued, ctrlVars, controlPlane, wanted, secret, deployed,
                   pieces, classes, apiUp, machines, changes, faults>>

\* The control plane is scaled down when all machines are gone.
Hibernate ==
    /\ flow = "sleep" /\ \A m \in Machines : machines[m] = "none"
    /\ apiUp' = FALSE
    /\ flow' = "idle"
    /\ UNCHANGED <<cluster, cacheVars, queued, ctrlVars, controlPlane, wanted, secret, deployed,
                   pieces, classes, worker, machines, changes, faults>>

\* The shoot is restored on another seed: its API server comes back with all
\* its objects and its machines go on, but the Cluster is a new one.
MoveSeed ==
    /\ SeedMoves /\ flow = "idle" /\ changes < MaxChanges
    /\ cluster' = [cluster EXCEPT !.needsComplete = FALSE, !.finished = FALSE]
    /\ seen' = cluster' /\ synced' = TRUE /\ queued' = IsRelevant(cluster')
    /\ pc' = "idle" /\ fresh' = FALSE
    /\ controlPlane' = FALSE /\ wanted' = "none" /\ secret' = FALSE
    /\ deployed' = {} /\ pieces' = [d \in Deployments |-> {}]
    /\ apiUp' = FALSE /\ flow' = "controlPlane"
    /\ changes' = changes + 1
    /\ UNCHANGED <<copy, legacy, patched, classes, worker, machines, faults>>

Flow ==
    \/ DeployControlPlane \/ (\E d \in Deployments : Deploy(d)) \/ DeployWorker \/ Hibernate

Gardenlet == ChangeShoot \/ Resync \/ FlowFails \/ Flow \/ MoveSeed

----------------------------------------------------------------------------
(* Machines and storage classes of the shoot.                              *)

Environmental == UNCHANGED <<cluster, cacheVars, queued, ctrlVars, seedVars, apiUp, worker,
                             changes, faults>>

CreateMachine(m) ==
    /\ machines[m] = "none" /\ ~worker.asleep
    /\ machines' = [machines EXCEPT ![m] = IF worker.kubelet = "new" THEN "new" ELSE "booting"]
    /\ Environmental /\ UNCHANGED classes

\* A machine of the old class joins late only if stragglers are considered.
JoinMachine(m) ==
    /\ machines[m] = "booting" /\ apiUp
    /\ Stragglers \/ worker.kubelet = "old"
    /\ machines' = [machines EXCEPT ![m] = "old"]
    /\ Environmental /\ UNCHANGED classes

\* The rolling update and the autoscaler remove machines, all of them only
\* when the shoot is to sleep.
DeleteMachine(m) ==
    /\ machines[m] # "none"
    /\ \/ worker.asleep
       \/ machines[m] \in {"booting", "old"} /\ \E n \in Machines \ {m} : machines[n] \in {"old", "new"}
    /\ machines' = [machines EXCEPT ![m] = "none"]
    /\ Environmental /\ UNCHANGED classes

\* The resource manager creates what is missing; it cannot change the
\* provisioner of a class, which is immutable.
CreateClass(c) ==
    /\ apiUp /\ wanted # "none" /\ classes[c] = "none"
    /\ classes' = [classes EXCEPT ![c] = wanted]
    /\ Environmental /\ UNCHANGED machines

Environment ==
    \/ \E m \in Machines : CreateMachine(m) \/ JoinMachine(m) \/ DeleteMachine(m)
    \/ \E c \in Classes : CreateClass(c)

Next == Observe \/ Controller \/ CallFails \/ Crash \/ Gardenlet \/ Environment

Spec == Init /\ [][Next]_vars

\* Events arrive, the controller works on what is queued, the gardenlet
\* reconciles every shoot again and again, machines are rolled and missing
\* classes created.  Changes and faults need not happen.
Fairness ==
    /\ WF_vars(Observe) /\ WF_vars(Controller)
    /\ WF_vars(Resync) /\ WF_vars(Flow)
    /\ \A m \in Machines : WF_vars(DeleteMachine(m)) /\ WF_vars(CreateMachine(m))
    /\ \A c \in Classes : WF_vars(CreateClass(c))

FairSpec == Spec /\ Fairness

----------------------------------------------------------------------------
(* Correctness.                                                            *)

IsComplete(d) == CompleteGates \subseteq pieces[d]

\* The control plane is told that the migration is complete only when no
\* node with an old kubelet is left: such a node still attaches volumes
\* in-tree (the node check of reconcile).
CompleteMeansNewKubelets ==
    (\E d \in deployed : IsComplete(d)) => \A m \in Machines : machines[m] # "old"

\* New kubelets start with the complete gates, so there is none before the
\* API server and the controller manager use CSI.
NewKubeletsNeedCSI ==
    (\E m \in Machines : machines[m] = "new")
        => \A d \in deployed : Gates \subseteq pieces[d]

\* A patched deployment is what deploying it anew for some stage of the
\* migration gives, except for checksums that are left over: no argument,
\* label or volume of the in-tree provider outlives its removal, and none of
\* two stages are mixed (the removals in ensurer.go against its additions).
\* The checksum of the secret does outlive it: ensureChecksumAnnotations
\* removes that of the config map only.
PatchLeavesOnlyChecksums ==
    \A d \in deployed :
        \E v \in Versions, n \in BOOLEAN, s \in BOOLEAN :
            LET new == Ensure(d, {}, v, n, s)
            IN  new \subseteq pieces[d] /\ pieces[d] \ new \subseteq Checksums

\* Once the migration is complete no class has the legacy provisioner, and
\* none will be created again: a class is immutable, so it would keep it.
NoLegacyClasses ==
    cluster.needsComplete => wanted # "legacy" /\ \A c \in Classes : classes[c] # "legacy"

\* The migration of an existing shoot is never completed while the stored
\* Cluster says that it is hibernated or of another version, although the
\* controller decided on an older copy of it.
MigratesAwake ==
    [][pc = "needsComplete" /\ cluster'.needsComplete /\ ~cluster.needsComplete
          => ~cluster.hibernated /\ cluster.version = csiMigrationVersion]_vars

\* A shoot at the minimum version that stays awake is migrated.
MigrationFinishes ==
    (cluster.version = csiMigrationVersion /\ ~cluster.hibernated)
        ~> (cluster.finished \/ cluster.hibernated)

\* After that, at the latest with the next reconciliations of the gardenlet,
\* all deployments are adapted, whatever the webhook saw when they were
\* patched.
EventuallyAdapted ==
    cluster.finished ~> \A d \in Deployments : IsComplete(d)
=============================================================================
