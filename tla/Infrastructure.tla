--------------------------- MODULE Infrastructure ---------------------------
(***************************************************************************)
(* The life of one Infrastructure resource: the generic reconciler of the  *)
(* vendored extensions library, the Azure actuator it calls                *)
(* (pkg/controller/infrastructure), and the Terraformer calls the actuator *)
(* makes.  One step of the controller is one call to an API server; the    *)
(* gardenlet, the Terraformer pods and crashes interleave with them.       *)
(*                                                                         *)
(* The work queue hands a key to one worker at a time, so the controller   *)
(* is a single process with a program counter.                             *)
(*                                                                         *)
(* A definition X_Y directly before X is a faulty variant of X, which some *)
(* property refutes; no specification uses it.                             *)
(***************************************************************************)
EXTENDS Terraformer

CONSTANTS
    Starts,              \* how the gardenlet creates the resource
    PublishedStates,     \* the Status.State it may publish for a restore
    MaxRequests,         \* bound on the operations the gardenlet requests
    DeleteDuringRestore  \* may it delete before a restore has finished?

ASSUME StartsAssumption == Starts \subseteq {"create", "restore"}
ASSUME PublishedStatesAssumption == PublishedStates \subseteq States
ASSUME MaxRequestsAssumption == MaxRequests \in Nat
ASSUME DeleteDuringRestoreAssumption == DeleteDuringRestore \in BOOLEAN

VARIABLES
    exists,     \* the Infrastructure resource: is it stored?
    finalizer,  \* does it carry the controller's finalizer?
    deleting,   \* has it a deletion timestamp?
    ann,        \* its operation annotation
    op,         \* the type of its last operation
    opState,    \* the state of its last operation
    saved,      \* Status.State (and ProviderStatus, written together)
    pc,         \* the controller: the call it makes next
    job,        \* the branch of Reconcile it is in
    loc,        \* its local variables
    fresh,      \* does its copy have the stored resourceVersion?
    queued,     \* is the key in the work queue for another reason than an event?
    requests    \* operations requested so far

crVars   == <<exists, finalizer, deleting, ann, op, opState, saved>>
ctrlVars == <<pc, job, loc, fresh, queued>>
vars     == <<tfAll, crVars, ctrlVars, requests>>

Annotations == {"none", "wait-for-state", "reconcile", "migrate", "restore"}
Operations  == {"none", "create", "reconcile", "migrate", "delete", "restore"}
OpStates    == {"none", "processing", "error", "succeeded"}
Jobs        == {"none", "reconcile", "migrate", "delete", "restore"}

\* InitializeState, the counted resources, whether the count was retried,
\* the pod waited for, and whether it succeeded.
Locals == [init : BOOLEAN, count : 0..3, retried : BOOLEAN,
           pod : PodIds \cup {"none"}, ok : BOOLEAN]
NoLocals == [init |-> FALSE, count |-> 0, retried |-> FALSE,
             pod |-> "none", ok |-> TRUE]

\* Calls made by the actuator; an error there is reported in the status.
ActuatorSteps ==
    {"cleanUp", "awaitClean", "stateEmpty",            \* Delete
     "initState", "putConfig", "putVars", "putState",  \* InitializeWith
     "count", "prepare", "awaitPrepared", "skip", "deploy", "waitForPod", "collect",
     "providerStatus", "dropVars", "dropConfig", "dropState"}
\* Calls made by the reconciler itself; an error there is only returned.
ReconcilerSteps ==
    {"ensureFinalizer", "processing", "success", "error", "deleteFinalizer", "unannotate"}
Steps == {"idle"} \cup ActuatorSteps \cup ReconcilerSteps

\* Reconcile returns; after an error the key is queued again.
Return(again) ==
    /\ pc' = "idle" /\ job' = "none" /\ loc' = NoLocals
    /\ queued' = again

Goto(l) == pc' = l /\ UNCHANGED <<job, loc, queued>>

IsMigrated == op = "migrate" /\ opState = "succeeded"

\* ComputeOperationType for a resource that is not migrated or deleted.
OperationType ==
    IF op = "none" THEN "create"
    ELSE IF op \in {"create", "restore"} /\ opState # "succeeded" THEN op
    ELSE "reconcile"

\* The switch of Reconcile, in its order.
Dispatched ==
    IF ann = "migrate" \/ (op = "migrate" /\ ~deleting) THEN "migrate"
    ELSE IF deleting THEN "delete"
    ELSE IF ann = "restore" THEN "restore"
    ELSE "reconcile"

----------------------------------------------------------------------------
CRTypeOK ==
    /\ exists \in BOOLEAN /\ finalizer \in BOOLEAN /\ deleting \in BOOLEAN
    /\ ann \in Annotations /\ op \in Operations /\ opState \in OpStates
    /\ saved \in States

ControllerTypeOK ==
    /\ pc \in Steps /\ job \in Jobs /\ loc \in Locals
    /\ fresh \in BOOLEAN /\ queued \in BOOLEAN

TypeOK == TFTypeOK /\ CRTypeOK /\ ControllerTypeOK /\ requests \in 0..MaxRequests

\* The resource has just been created: for a new shoot with the reconcile
\* annotation and an empty subscription, for a migrated one waiting for the
\* state of the previous seed, which covers what exists in the cloud.
Init ==
    /\ TFInit
    /\ exists = TRUE /\ finalizer = FALSE /\ deleting = FALSE
    /\ \/ "create" \in Starts /\ ann = "reconcile" /\ cloud = {}
       \/ "restore" \in Starts /\ ann = "wait-for-state"
          /\ cloud \in {s.res : s \in PublishedStates}
    /\ op = "none" /\ opState = "none" /\ saved = NoState
    /\ pc = "idle" /\ job = "none" /\ loc = NoLocals
    /\ fresh = TRUE /\ queued = TRUE /\ requests = 0

----------------------------------------------------------------------------
(* The gardenlet.  It sets an operation annotation only when none is set,  *)
(* and asks for a migration once.                                          *)

GardenletWrites == fresh' = FALSE /\ UNCHANGED <<tfAll, pc, job, loc, queued>>

PublishState ==
    /\ exists /\ ann = "wait-for-state"
    /\ saved' \in {s \in PublishedStates : s.res = cloud}
    /\ ann' = "restore"
    /\ GardenletWrites
    /\ UNCHANGED <<exists, finalizer, deleting, op, opState, requests>>

RequestOperation(a) ==
    /\ exists /\ ~deleting /\ ann = "none"
    /\ op # "migrate"
    /\ requests < MaxRequests /\ requests' = requests + 1
    /\ ann' = a
    /\ GardenletWrites
    /\ UNCHANGED <<exists, finalizer, deleting, op, opState, saved>>

RequestDelete ==
    /\ exists /\ ~deleting
    /\ ann \in {"wait-for-state", "restore"} => DeleteDuringRestore
    /\ deleting' = TRUE
    /\ exists' = finalizer
    /\ GardenletWrites
    /\ UNCHANGED <<finalizer, ann, op, opState, saved, requests>>

Gardenlet ==
    \/ PublishState
    \/ \E a \in {"reconcile", "migrate"} : RequestOperation(a)
    \/ RequestDelete

----------------------------------------------------------------------------
(* The reconciler: extensions/pkg/controller/infrastructure/reconciler.go  *)
(* behind the operation annotation wrapper.                                *)

\* The wrapper removes the reconcile annotation, then Reconcile picks a
\* branch.  A resource that is gone, waits for its state, is migrated, or is
\* being deleted without the finalizer is left alone.  No branch is taken when
\* the Cluster cannot be read, which is tried again, or while the shoot has
\* failed: then the key is dropped, and one whose last operation has not
\* succeeded comes back with the next event.
Dispatch ==
    /\ pc = "idle"
    /\ queued \/ (exists /\ (deleting \/ ann \in {"reconcile", "migrate", "restore"}))
    /\ ann' = IF exists /\ ann = "reconcile" THEN "none" ELSE ann
    /\ fresh' = TRUE
    /\ IF \/ ~exists
          \/ ann = "wait-for-state"
          \/ IsMigrated
          \/ Dispatched = "delete" /\ ~finalizer
       THEN Return(FALSE) /\ UNCHANGED faults
       ELSE \/ /\ job' = Dispatched
               /\ pc' = IF Dispatched \in {"reconcile", "restore"}
                        THEN "ensureFinalizer" ELSE "processing"
               /\ loc' = NoLocals /\ queued' = FALSE
               /\ UNCHANGED faults
            \/ Return(TRUE) /\ Fault
            \/ Return(opState # "succeeded") /\ Fault
    /\ UNCHANGED <<tfObjects, cloud, pods, exists, finalizer, deleting, op, opState, saved, requests>>

\* An Update of the controller's copy fails with a conflict when the stored
\* resource has changed since the copy was read.
EnsureFinalizer ==
    /\ pc = "ensureFinalizer"
    /\ IF finalizer THEN UNCHANGED finalizer /\ Goto("processing")
       ELSE IF exists /\ fresh THEN finalizer' = TRUE /\ Goto("processing")
       ELSE UNCHANGED finalizer /\ Return(TRUE)
    /\ UNCHANGED <<tfAll, exists, deleting, ann, op, opState, saved, fresh, requests>>

\* The first call of the actuator.  Delete makes sure that no pod is left.
ActuatorStart_NoCleanUp ==
    IF job = "delete" THEN "stateEmpty" ELSE IF job = "migrate" THEN "dropVars" ELSE "initState"
ActuatorStart ==
    IF job = "delete" THEN "cleanUp" ELSE IF job = "migrate" THEN "dropVars" ELSE "initState"

\* TryUpdateStatus reads the resource again, so the copy is fresh after it.
MarkProcessing ==
    /\ pc = "processing"
    /\ IF exists
       THEN /\ op' = IF job = "reconcile" THEN OperationType ELSE job
            /\ opState' = "processing"
            /\ fresh' = TRUE
            /\ Goto(ActuatorStart)
       ELSE UNCHANGED <<op, opState, fresh>> /\ Return(TRUE)
    /\ UNCHANGED <<tfAll, exists, finalizer, deleting, ann, saved, requests>>

ReportError_Forgets ==
    /\ pc = "error"
    /\ opState' = IF exists THEN "error" ELSE opState
    /\ fresh' = TRUE
    /\ Return(FALSE)
    /\ UNCHANGED <<tfAll, exists, finalizer, deleting, ann, op, saved, requests>>

ReportError ==
    /\ pc = "error"
    /\ opState' = IF exists THEN "error" ELSE opState
    /\ fresh' = TRUE
    /\ Return(TRUE)
    /\ UNCHANGED <<tfAll, exists, finalizer, deleting, ann, op, saved, requests>>

\* What follows the actuator: Delete and Migrate drop the finalizer after
\* the success is stored, Restore drops its annotation before.
AfterActuator == IF job = "restore" THEN "unannotate" ELSE "success"

MarkSucceeded ==
    /\ pc = "success"
    /\ IF exists
       THEN /\ opState' = "succeeded" /\ fresh' = TRUE
            /\ IF job \in {"delete", "migrate"} THEN Goto("deleteFinalizer") ELSE Return(FALSE)
       ELSE UNCHANGED <<opState, fresh>> /\ Return(TRUE)
    /\ UNCHANGED <<tfAll, exists, finalizer, deleting, ann, op, saved, requests>>

DeleteFinalizer ==
    /\ pc = "deleteFinalizer"
    /\ IF finalizer /\ ~fresh
       THEN UNCHANGED <<finalizer, exists>> /\ Return(TRUE)
       ELSE /\ finalizer' = FALSE
            /\ exists' = (exists /\ ~deleting)
            /\ IF job = "migrate" THEN Goto("unannotate") ELSE Return(FALSE)
    /\ UNCHANGED <<tfAll, deleting, ann, op, opState, saved, fresh, requests>>

RemoveAnnotation ==
    /\ pc = "unannotate"
    /\ ann' = IF exists THEN "none" ELSE ann
    /\ IF ~exists THEN Return(TRUE)
       ELSE IF job = "restore" THEN Goto("success")
       ELSE Return(FALSE)
    /\ UNCHANGED <<tfAll, exists, finalizer, deleting, op, opState, saved, fresh, requests>>

----------------------------------------------------------------------------
(* The actuator and the Terraformer calls it makes.                        *)

Actuator == UNCHANGED <<crVars, fresh, requests>>
With(l, f, v) == pc' = l /\ loc' = [loc EXCEPT ![f] = v] /\ UNCHANGED <<job, queued>>

\* InitializeWith(DefaultInitializer(...)): whether to write the state
\* ConfigMap is decided before the other two objects are written.
InitializerConfig ==
    /\ pc = "initState"
    /\ With("putConfig", "init", IsStateEmpty)
    /\ Actuator /\ UNCHANGED tfAll

CreateOrUpdateConfig ==
    /\ pc = "putConfig"
    /\ tfConfig' = TRUE
    /\ Goto("putVars")
    /\ Actuator /\ UNCHANGED <<tfVars, tfState, cloud, pods, faults>>

CreateOrUpdateVars ==
    /\ pc = "putVars"
    /\ tfVars' = TRUE
    /\ Goto(IF loc.init THEN "putState" ELSE "count")
    /\ Actuator /\ UNCHANGED <<tfConfig, tfState, cloud, pods, faults>>

\* Reconcile creates an empty state and keeps an existing one; Restore
\* writes the published state over whatever is there.
InitializeState_Overwrites ==
    /\ pc = "putState"
    /\ tfState' = IF job = "restore" THEN saved ELSE EmptyState
    /\ Goto("count")
    /\ Actuator /\ UNCHANGED <<tfConfig, tfVars, cloud, pods, faults>>

InitializeState ==
    /\ pc = "putState"
    /\ tfState' = IF job = "restore"
                  THEN IF saved.kind = "absent" THEN EmptyState ELSE saved
                  ELSE IF tfState.kind = "absent" THEN EmptyState ELSE tfState
    /\ Goto("count")
    /\ Actuator /\ UNCHANGED <<tfConfig, tfVars, cloud, pods, faults>>

\* execute: prepare counts first and cleans up the pods afterwards.
CountResources ==
    /\ pc = "count"
    /\ With("prepare", "count", NumberOfResources)
    /\ Actuator /\ UNCHANGED tfAll

\* EnsureCleanedUp: from prepare, and at the start of Delete.
CleanUpPods ==
    /\ pc \in {"prepare", "cleanUp"}
    /\ deleteTerraformerPods
    /\ Goto(IF pc = "prepare" THEN "awaitPrepared" ELSE "awaitClean")
    /\ Actuator /\ UNCHANGED <<tfObjects, cloud, faults>>

Destroying == job = "delete"
AfterExecute_AlwaysCleans == "dropVars"
AfterExecute_NoStatus == IF Destroying THEN "dropVars" ELSE "success"
AfterExecute == IF Destroying THEN "dropVars" ELSE "providerStatus"

\* Without pods nobody but the controller writes the three objects, so one
\* retry of an incomplete count stands for the retries of 30 seconds.
Prepared_WhilePodsExist ==
    /\ pc = "awaitPrepared"
    /\ loc.count = 3
    /\ Goto(IF Destroying THEN "skip" ELSE "deploy")
    /\ Actuator /\ UNCHANGED tfAll

Prepared ==
    /\ pc = "awaitPrepared" /\ NoPods
    /\ \/ loc.count = 0 /\ Goto(AfterExecute)
       \/ loc.count = 3 /\ Goto(IF Destroying THEN "skip" ELSE "deploy")
       \/ loc.count \in {1, 2} /\ ~loc.retried /\ With("count", "retried", TRUE)
       \/ loc.count \in {1, 2} /\ loc.retried /\ Goto("error")
    /\ Actuator /\ UNCHANGED tfAll

SkipDestroy ==
    /\ pc = "skip"
    /\ Goto(IF IsStateEmpty THEN "collect" ELSE "deploy")
    /\ Actuator /\ UNCHANGED tfAll

DeployPod(p) ==
    /\ pc = "deploy" /\ ~Exists(p)
    /\ pods' = [pods EXCEPT ![p] = NewPod(IF Destroying THEN "destroy" ELSE "apply")]
    /\ \/ With("waitForPod", "pod", p) /\ UNCHANGED faults
       \/ Goto("error") /\ Fault     \* created, but the answer is lost
    /\ Actuator /\ UNCHANGED <<tfObjects, cloud>>

\* A pod that is gone counts as failed, as does one that takes too long.
WaitForPod ==
    /\ pc = "waitForPod"
    /\ \/ /\ pods[loc.pod].phase \in {"none", "succeeded", "failed"}
          /\ With("collect", "ok", pods[loc.pod].phase = "succeeded")
          /\ UNCHANGED faults
       \/ With("collect", "ok", FALSE) /\ Fault
    /\ Actuator /\ UNCHANGED <<tfObjects, cloud, pods>>

\* The pods are deleted, not waited for; when listing them fails, none is.
CollectPods ==
    /\ pc = "collect"
    /\ \/ deleteTerraformerPods /\ UNCHANGED faults
       \/ UNCHANGED pods /\ Fault
    /\ Goto(IF loc.ok THEN AfterExecute ELSE "error")
    /\ Actuator /\ UNCHANGED <<tfObjects, cloud>>

\* updateProviderStatus needs every output of the configuration.
UpdateProviderStatus ==
    /\ pc = "providerStatus"
    /\ IF exists /\ tfState = Json(Resources)
       THEN saved' = tfState /\ fresh' = TRUE /\ Goto(AfterActuator)
       ELSE UNCHANGED <<saved, fresh>> /\ Goto("error")
    /\ UNCHANGED <<tfAll, exists, finalizer, deleting, ann, op, opState, requests>>

\* EnsureCleanedUp at the start of Delete: wait until the pods are gone.
DeleteCleanedUp_WhilePodsExist ==
    /\ pc = "awaitClean"
    /\ Goto("stateEmpty")
    /\ Actuator /\ UNCHANGED tfAll

DeleteCleanedUp ==
    /\ pc = "awaitClean" /\ NoPods
    /\ Goto("stateEmpty")
    /\ Actuator /\ UNCHANGED tfAll

\* With an empty state there is nothing to destroy.
DeleteStateEmpty ==
    /\ pc = "stateEmpty"
    /\ Goto(IF IsStateEmpty THEN "dropVars" ELSE "count")
    /\ Actuator /\ UNCHANGED tfAll

\* CleanupConfiguration, of Delete and of Migrate.
CleanupVars ==
    /\ pc = "dropVars"
    /\ tfVars' = FALSE
    /\ Goto("dropConfig")
    /\ Actuator /\ UNCHANGED <<tfConfig, tfState, cloud, pods, faults>>

CleanupConfig ==
    /\ pc = "dropConfig"
    /\ tfConfig' = FALSE
    /\ Goto("dropState")
    /\ Actuator /\ UNCHANGED <<tfVars, tfState, cloud, pods, faults>>

CleanupState ==
    /\ pc = "dropState"
    /\ tfState' = NoState
    /\ Goto(AfterActuator)
    /\ Actuator /\ UNCHANGED <<tfConfig, tfVars, cloud, pods, faults>>

----------------------------------------------------------------------------
(* Faults.                                                                 *)

\* A call of the actuator fails before it has an effect, or a wait times out.
CallFails ==
    /\ pc \in ActuatorSteps \ {"waitForPod", "skip"}
    /\ Fault
    /\ Goto("error")
    /\ Actuator /\ UNCHANGED <<tfObjects, cloud, pods>>

\* IsStateEmpty answers FALSE when the ConfigMap cannot be read.
StateUnreadable ==
    /\ \/ pc = "initState"  /\ With("putConfig", "init", FALSE)
       \/ pc = "stateEmpty" /\ Goto("count")
       \/ pc = "skip"       /\ Goto("deploy")
    /\ Fault
    /\ Actuator /\ UNCHANGED <<tfObjects, cloud, pods>>

\* A call of the reconciler fails; the key is queued again.
ReconcilerFails ==
    /\ pc \in ReconcilerSteps
    /\ Fault
    /\ Return(TRUE)
    /\ Actuator /\ UNCHANGED <<tfObjects, cloud, pods>>

\* The process restarts: the resource is queued by its create event when its
\* last operation has not succeeded.
Crash ==
    /\ pc # "idle"
    /\ Fault
    /\ Return(opState # "succeeded")
    /\ Actuator /\ UNCHANGED <<tfObjects, cloud, pods>>

----------------------------------------------------------------------------
Reconciler ==
    \/ Dispatch \/ EnsureFinalizer \/ MarkProcessing \/ ReportError
    \/ MarkSucceeded \/ DeleteFinalizer \/ RemoveAnnotation

Execute ==
    \/ InitializerConfig \/ CreateOrUpdateConfig \/ CreateOrUpdateVars \/ InitializeState
    \/ CountResources \/ CleanUpPods \/ Prepared \/ SkipDestroy
    \/ \E p \in PodIds : DeployPod(p)
    \/ WaitForPod \/ CollectPods \/ UpdateProviderStatus
    \/ DeleteCleanedUp \/ DeleteStateEmpty
    \/ CleanupVars \/ CleanupConfig \/ CleanupState

Controller == Reconciler \/ Execute
Faults     == CallFails \/ StateUnreadable \/ ReconcilerFails \/ Crash
PodSteps   == (\E p \in PodIds : PodStep(p)) /\ UNCHANGED <<crVars, ctrlVars, requests>>

Next == Gardenlet \/ Controller \/ Faults \/ PodSteps

Spec == Init /\ [][Next]_vars

\* The controller keeps working, and so does the kubelet for every pod; the
\* gardenlet need not request anything and faults need not happen.
Fairness ==
    /\ WF_vars(Controller)
    /\ \A p \in PodIds : WF_vars(PodStep(p) /\ UNCHANGED <<crVars, ctrlVars, requests>>)

FairSpec == Spec /\ Fairness

----------------------------------------------------------------------------
(* Correctness.                                                            *)

\* Never do two Terraformer pods of one infrastructure exist at a time, over
\* crashes, timeouts, lost answers and pods that are deleted but still busy:
\* two Terraform runs would overwrite each other's state (EnsureCleanedUp in
\* prepare and Delete).
AtMostOneTerraformer ==
    \A p, q \in PodIds : Exists(p) /\ Exists(q) => p = q

\* What the cluster remembers of the cloud: the Terraform state, before it
\* is initialised the state published for a restore, and what a running pod
\* will write back.
Remembered ==
    tfState.res
    \cup (IF IsStateEmpty THEN saved.res ELSE {})
    \cup (IF ann = "wait-for-state" THEN cloud ELSE {})
    \cup UNION {pods[p].res : p \in {q \in PodIds : pods[q].phase = "running"}}

\* No cloud resource is ever forgotten while the infrastructure is not handed
\* over to another seed: whatever exists in the subscription is listed where
\* the next Terraform run of this seed finds it.
NothingForgotten ==
    exists /\ op # "migrate" => cloud \subseteq Remembered

\* When the last finalizer has been dropped by a deletion, the subscription
\* and the shoot's namespace hold nothing of the infrastructure any more but
\* Terraformer pods that have ended.
DeletionLeavesNothing ==
    ~exists /\ op = "delete" =>
        cloud = {} /\ (\A p \in PodIds : ~Active(p)) /\ ~tfVars /\ ~tfConfig /\ tfState = NoState

\* A stored success of a create, reconcile or restore is true: every resource
\* of the configuration exists, Terraform manages it, and Status.State, from
\* which another seed would restore, lists it.
SuccessIsComplete ==
    op \in {"create", "reconcile", "restore"} /\ opState = "succeeded" =>
        cloud = Resources /\ tfState.res = Resources /\ saved.res = Resources

\* A saved Terraform state is never thrown back to an older one by a later
\* attempt (CreateState keeps it, a restore only fills an empty one): only the
\* cleanup of Delete and Migrate removes it.
StateNeverReset ==
    [][tfState.kind = "json" /\ tfState'.kind # "json"
          => pc = "dropState" /\ job \in {"delete", "migrate"}]_vars

\* Once Delete has seen the Terraformer pods gone, nothing is created in the
\* cloud any more, whatever ran before.
DeletionOnlyDeletes ==
    [][job = "delete" /\ pc \in ActuatorSteps \ {"cleanUp", "awaitClean"}
          => cloud' \subseteq cloud]_vars

\* CleanupConfiguration was interrupted between the variables Secret and the
\* state ConfigMap: the state still counts as not empty, but execute will not
\* run with an incomplete configuration.
CleanupInterrupted ==
    pc = "idle" /\ ~IsStateEmpty /\ ~tfVars /\ op = "delete"

\* Every operation ends with a stored success or the removal of the resource,
\* and every resource that is being deleted goes away, even one whose deletion
\* never began, unless a cleanup was interrupted after a destroy or it was
\* migrated.
OperationsFinish ==
    /\ (exists /\ op # "none" /\ opState # "succeeded")
           ~> (~exists \/ opState = "succeeded" \/ CleanupInterrupted)
    /\ deleting ~> (~exists \/ CleanupInterrupted \/ IsMigrated)

----------------------------------------------------------------------------
(* What comments of the code promise and the runs refute.                  *)

\* execute says that a state that does not contain anything means that only
\* the ConfigMaps and Secrets are left to delete; so a deletion should end,
\* however often it is interrupted.
DeletionTerminates == deleting ~> (~exists \/ IsMigrated)

\* Actuator says of Migrate that it deletes the Terraform resources in the
\* cluster: none is left, and no pod still works on the cloud, when another
\* seed may take over.
MigratedLeavesNoTerraformer ==
    IsMigrated => ~tfVars /\ ~tfConfig /\ tfState = NoState /\ \A p \in PodIds : ~Active(p)
=============================================================================
