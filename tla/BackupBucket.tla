---------------------------- MODULE BackupBucket ----------------------------
(***************************************************************************)
(* The controller of one BackupBucket: the generic reconciler of the       *)
(* vendored library (extensions/pkg/controller/backupbucket) behind the    *)
(* operation annotation wrapper, and the Azure actuator                    *)
(* (pkg/controller/backupbucket).  One step is one call to an API server   *)
(* or to Azure.                                                            *)
(*                                                                         *)
(* A definition X_Y directly before X is a faulty variant of X, which some *)
(* property refutes; no specification uses it.                             *)
(***************************************************************************)
EXTENDS BackupCloud

VARIABLES
    bb,            \* the BackupBucket resource
    bucketSecret,  \* the secret of Spec.SecretRef
    generated,     \* does the generated secret exist?
    bctl           \* the controller

bucketVars == <<bb, bucketSecret, generated>>

\* `ann`: the annotation "reconcile"; `ref`: is Status.GeneratedSecretRef set?
Buckets == [exists : BOOLEAN, finalizer : BOOLEAN, deleting : BOOLEAN, ann : BOOLEAN,
            ref : BOOLEAN, state : {"none", "processing", "error", "succeeded"}]

BActuatorSteps == {"useSecret", "createGroup", "createAccount", "storeSecret", "storeRef",
                   "createContainer", "deleteContainer", "deleteGroup", "deleteSecret"}
BSteps == {"idle", "ensureFinalizer", "processing", "holdSecret", "success", "error",
           "releaseSecret", "deleteFinalizer"} \cup BActuatorSteps

\* The call it makes next, the branch of Reconcile, whether its copy has the
\* stored resource version, and whether the key is queued without an event.
BControllers == [pc : BSteps, job : {"reconcile", "delete"}, fresh : BOOLEAN, queued : BOOLEAN]

BucketTypeOK ==
    /\ bb \in Buckets /\ bucketSecret \in SecretStates /\ generated \in BOOLEAN
    /\ bctl \in BControllers

BucketInit ==
    /\ bb = [exists |-> TRUE, finalizer |-> FALSE, deleting |-> FALSE, ann |-> TRUE,
             ref |-> FALSE, state |-> "none"]
    /\ bucketSecret = "free" /\ generated = FALSE
    /\ bctl = [pc |-> "idle", job |-> "reconcile", fresh |-> TRUE, queued |-> TRUE]

BGoto(step)   == bctl' = [bctl EXCEPT !.pc = step]
\* TryUpdateStatus reads the resource anew.
BUpdated(step) == bctl' = [bctl EXCEPT !.pc = step, !.fresh = TRUE]
BReturn(again) == bctl' = [bctl EXCEPT !.pc = "idle", !.queued = again]

\* Calls to the cluster leave Azure alone, and calls to Azure the cluster.
ClusterCall == UNCHANGED <<cloudVars, counters>>
AzureCall   == UNCHANGED <<bucketVars, counters>>

----------------------------------------------------------------------------
(* The reconciler.                                                         *)

BRelevant == bb.exists /\ (bb.ann \/ bb.deleting)

BDispatch ==
    /\ bctl.pc = "idle" /\ (bctl.queued \/ BRelevant)
    /\ bb' = [bb EXCEPT !.ann = FALSE]
    /\ bctl' = [pc |-> IF ~bb.exists \/ (bb.deleting /\ ~bb.finalizer) THEN "idle"
                       ELSE IF bb.deleting THEN "processing" ELSE "ensureFinalizer",
                job |-> IF bb.deleting THEN "delete" ELSE "reconcile",
                fresh |-> TRUE, queued |-> FALSE]
    /\ ClusterCall /\ UNCHANGED <<bucketSecret, generated>>

\* An Update of an outdated copy conflicts.
BEnsureFinalizer ==
    /\ bctl.pc = "ensureFinalizer"
    /\ IF bb.finalizer THEN UNCHANGED bb /\ BGoto("processing")
       ELSE IF bb.exists /\ bctl.fresh
       THEN bb' = [bb EXCEPT !.finalizer = TRUE] /\ BGoto("processing")
       ELSE UNCHANGED bb /\ BReturn(TRUE)
    /\ ClusterCall /\ UNCHANGED <<bucketSecret, generated>>

\* getAzureClient uses the generated secret if the status refers to one,
\* else it makes everything that the client needs.
GetAzureClient == IF bb.ref THEN "useSecret" ELSE "createGroup"

\* After the finalizer is set, the resource exists until it is removed again.
BMarkProcessing ==
    /\ bctl.pc = "processing"
    /\ bb' = [bb EXCEPT !.state = "processing"]
    /\ BUpdated(IF bctl.job = "delete" THEN GetAzureClient ELSE "holdSecret")
    /\ ClusterCall /\ UNCHANGED <<bucketSecret, generated>>

HoldBucketSecret ==
    /\ bctl.pc = "holdSecret"
    /\ bucketSecret' = Held(bucketSecret)
    /\ IF bucketSecret = "gone" THEN BReturn(TRUE) ELSE BGoto(GetAzureClient)
    /\ ClusterCall /\ UNCHANGED <<bb, generated>>

BMarkSucceeded ==
    /\ bctl.pc = "success"
    /\ bb' = [bb EXCEPT !.state = "succeeded"]
    /\ IF bctl.job = "delete" THEN BUpdated("releaseSecret") ELSE BReturn(FALSE)
    /\ ClusterCall /\ UNCHANGED <<bucketSecret, generated>>

BReportError ==
    /\ bctl.pc = "error"
    /\ bb' = [bb EXCEPT !.state = "error"]
    /\ BReturn(TRUE)
    /\ ClusterCall /\ UNCHANGED <<bucketSecret, generated>>

ReleaseBucketSecret ==
    /\ bctl.pc = "releaseSecret"
    /\ bucketSecret' = Released(bucketSecret)
    /\ IF bucketSecret = "gone" THEN BReturn(TRUE) ELSE BGoto("deleteFinalizer")
    /\ ClusterCall /\ UNCHANGED <<bb, generated>>

BDeleteFinalizer ==
    /\ bctl.pc = "deleteFinalizer"
    /\ IF bctl.fresh
       THEN bb' = [bb EXCEPT !.finalizer = FALSE, !.exists = FALSE] /\ BReturn(FALSE)
       ELSE UNCHANGED bb /\ BReturn(TRUE)
    /\ ClusterCall /\ UNCHANGED <<bucketSecret, generated>>

----------------------------------------------------------------------------
(* The actuator.  A call that is refused leads to "error".                 *)

BCall(step, accepted, next) ==
    /\ bctl.pc = step
    /\ BGoto(IF accepted THEN next ELSE "error")

WithClient == IF bctl.job = "delete" THEN "deleteContainer" ELSE "createContainer"

UseGeneratedSecret ==
    /\ BCall("useSecret", generated, WithClient)
    /\ ClusterCall /\ UNCHANGED bucketVars

\* A group that is being deleted cannot be created before it is gone.
GroupAccepts == bucketSecret # "gone" /\ group # "deleting"

CreateGroup ==
    /\ BCall("createGroup", GroupAccepts, "createAccount")
    /\ group' = IF GroupAccepts THEN "present" ELSE group
    /\ AzureCall /\ UNCHANGED <<account, container, blobs>>

\* The account, and its keys.
CreateAccount ==
    /\ BCall("createAccount", group = "present", "storeSecret")
    /\ account' = (account \/ group = "present")
    /\ AzureCall /\ UNCHANGED <<group, container, blobs>>

StoreGeneratedSecret ==
    /\ BCall("storeSecret", TRUE, "storeRef")
    /\ generated' = TRUE
    /\ ClusterCall /\ UNCHANGED <<bb, bucketSecret>>

StoreSecretRef ==
    /\ bctl.pc = "storeRef"
    /\ bb' = [bb EXCEPT !.ref = TRUE]
    /\ BUpdated(WithClient)
    /\ ClusterCall /\ UNCHANGED <<bucketSecret, generated>>

\* Requests for a container go to the host of the account: without it they
\* are not answered by the service, only by an error of the client.
CreateContainerIfNotExists ==
    /\ BCall("createContainer", account, "success")
    /\ container' = (container \/ account)
    /\ AzureCall /\ UNCHANGED <<group, account, blobs>>

DeleteContainerIfExists ==
    /\ BCall("deleteContainer", account, IF bb.ref THEN "deleteGroup" ELSE "success")
    /\ container' = (container /\ ~account)
    /\ blobs' = IF account THEN NoBlobs ELSE blobs
    /\ AzureCall /\ UNCHANGED <<group, account>>

\* The answer does not wait for the deletion.
DeleteResourceGroup_Skipped ==
    /\ BCall("deleteGroup", TRUE, "deleteSecret")
    /\ AzureCall /\ UNCHANGED cloudVars
DeleteResourceGroup ==
    LET accepted == bucketSecret # "gone" /\ group # "absent" IN
    /\ BCall("deleteGroup", accepted, "deleteSecret")
    /\ group' = IF accepted THEN "deleting" ELSE group
    /\ AzureCall /\ UNCHANGED <<account, container, blobs>>

DeleteGeneratedSecret ==
    /\ BCall("deleteSecret", TRUE, "success")
    /\ generated' = FALSE
    /\ ClusterCall /\ UNCHANGED <<bb, bucketSecret>>

BActuator ==
    \/ UseGeneratedSecret \/ CreateGroup \/ CreateAccount \/ StoreGeneratedSecret
    \/ StoreSecretRef \/ CreateContainerIfNotExists
    \/ DeleteContainerIfExists \/ DeleteResourceGroup \/ DeleteGeneratedSecret

BController ==
    \/ BDispatch \/ BEnsureFinalizer \/ BMarkProcessing \/ HoldBucketSecret
    \/ BMarkSucceeded \/ BReportError \/ ReleaseBucketSecret \/ BDeleteFinalizer
    \/ BActuator

----------------------------------------------------------------------------
(* Failures, and the gardenlet (external).                                 *)

\* An error of the actuator is reported in the status, any other returned.
BCallFails ==
    /\ faults > 0 /\ bctl.pc # "idle"
    /\ faults' = faults - 1
    /\ IF bctl.pc \in BActuatorSteps THEN BGoto("error") ELSE BReturn(TRUE)
    /\ UNCHANGED <<cloudVars, bucketVars, requests>>

\* A restarted controller sees a create event of each resource.
BRestarted ==
    bctl' = [bctl EXCEPT !.pc = "idle",
                         !.queued = bb.exists /\ (BRelevant \/ bb.state # "succeeded")]

BRequestReconcile ==
    /\ requests > 0 /\ bb.exists /\ ~bb.deleting /\ ~bb.ann
    /\ requests' = requests - 1
    /\ bb' = [bb EXCEPT !.ann = TRUE]
    /\ bctl' = [bctl EXCEPT !.fresh = FALSE]
    /\ UNCHANGED <<cloudVars, bucketSecret, generated, faults>>

\* Without a finalizer the resource is gone at once.
BRequestDelete ==
    /\ bb.exists /\ ~bb.deleting
    /\ bb' = [bb EXCEPT !.deleting = TRUE, !.exists = bb.finalizer]
    /\ bctl' = [bctl EXCEPT !.fresh = FALSE]
    /\ UNCHANGED <<cloudVars, bucketSecret, generated, counters>>

\* The credentials are removed with the bucket; a finalizer delays that.
DropBucketSecret ==
    /\ bb.deleting /\ (bucketSecret = "held" \/ (bucketSecret = "free" /\ ~bb.exists))
    /\ bucketSecret' = Unwanted(bucketSecret)
    /\ UNCHANGED <<cloudVars, bb, generated, bctl, counters>>
=============================================================================
