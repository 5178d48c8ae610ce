---------------------------- MODULE BackupEntry ----------------------------
(***************************************************************************)
(* The controllers of the BackupEntries in one bucket: the generic         *)
(* reconciler and actuator of the vendored library                         *)
(* (extensions/pkg/controller/backupentry) behind the operation annotation *)
(* wrapper, and the Azure delegate (pkg/controller/backupentry).           *)
(*                                                                         *)
(* A definition X_Y directly before X is a faulty variant of X, which some *)
(* property refutes; no specification uses it.                             *)
(***************************************************************************)
EXTENDS BackupCloud

VARIABLES
    be,           \* entry -> the BackupEntry resource
    entrySecret,  \* entry -> the secret of Spec.SecretRef
    shoot,        \* entry -> its shoot on this seed: namespace, etcd secret, failed
    ectl          \* entry -> the controller

entryVars == <<be, entrySecret, shoot>>

\* `migrates`: is the last operation of type Migrate?
BackupEntries == [exists : BOOLEAN, finalizer : BOOLEAN, deleting : BOOLEAN,
                  ann : {"none", "reconcile", "restore", "migrate"},
                  migrates : BOOLEAN, state : {"none", "processing", "error", "succeeded"}]
NoEntry == [exists |-> FALSE, finalizer |-> FALSE, deleting |-> FALSE, ann |-> "none",
            migrates |-> FALSE, state |-> "none"]
\* An entry that has been deleted before.
OldEntry == [NoEntry EXCEPT !.deleting = TRUE]

Shoots == [namespace : BOOLEAN, etcdSecret : BOOLEAN, failed : BOOLEAN]
NoShoot == [namespace |-> FALSE, etcdSecret |-> FALSE, failed |-> FALSE]

EActuatorSteps == {"checkNamespace", "deploy", "list", "deleteBlobs"}
ESteps == {"idle", "ensureFinalizer", "processing", "holdSecret", "getSecret", "success",
           "error", "unannotate", "releaseSecret", "removeFinalizer"} \cup EActuatorSteps

\* The call it makes next, the branch of Reconcile, whether its copy has the
\* stored resource version, its copy of the secret, the blobs it has listed,
\* and whether the key is queued without an event.
EControllers == [pc : ESteps, job : {"reconcile", "restore", "delete", "migrate"},
                 fresh : BOOLEAN, secret : SecretStates,
                 listed : SUBSET (Entries \X Backups), queued : BOOLEAN]
At(step, job, again) ==
    [pc |-> step, job |-> job, fresh |-> TRUE, secret |-> "free", listed |-> {}, queued |-> again]
Idle(again) == At("idle", "reconcile", again)

EntryTypeOK ==
    /\ be \in [Entries -> BackupEntries]
    /\ entrySecret \in [Entries -> SecretStates]
    /\ shoot \in [Entries -> Shoots]
    /\ ectl \in [Entries -> EControllers]

EntryInit(created) ==
    /\ be = [e \in Entries |-> IF e \in created THEN NoEntry ELSE OldEntry]
    /\ entrySecret = [e \in Entries |-> "gone"]
    /\ shoot = [e \in Entries |-> NoShoot]
    /\ ectl = [e \in Entries |-> Idle(FALSE)]

IsMigrated(e) == be[e].migrates /\ be[e].state = "succeeded"

EGoto(e, step)    == ectl' = [ectl EXCEPT ![e].pc = step]
EUpdated(e, step) == ectl' = [ectl EXCEPT ![e].pc = step, ![e].fresh = TRUE]
EReturn(e, again) == ectl' = [ectl EXCEPT ![e] = Idle(again)]

InCluster == UNCHANGED <<cloudVars, counters>>

----------------------------------------------------------------------------
(* The reconciler.                                                         *)

ERelevant(e) == be[e].exists /\ (be[e].ann # "none" \/ be[e].deleting)

\* The switch of Reconcile, in its order.
Branch(e) ==
    IF be[e].ann = "migrate" \/ (be[e].migrates /\ ~be[e].deleting) THEN "migrate"
    ELSE IF be[e].deleting THEN "delete"
    ELSE IF be[e].ann = "restore" THEN "restore"
    ELSE "reconcile"

FirstStep(e) ==
    IF \/ ~be[e].exists \/ shoot[e].failed \/ IsMigrated(e)
       \/ Branch(e) = "delete" /\ ~be[e].finalizer
    THEN "idle"
    ELSE IF Branch(e) \in {"reconcile", "restore"} THEN "ensureFinalizer"
    ELSE "processing"

\* The wrapper removes the annotation "reconcile" in any case.
EDispatch(e) ==
    /\ ectl[e].pc = "idle" /\ (ectl[e].queued \/ ERelevant(e))
    /\ be' = [be EXCEPT ![e].ann = IF @ = "reconcile" THEN "none" ELSE @]
    /\ ectl' = [ectl EXCEPT ![e] = At(FirstStep(e), Branch(e), FALSE)]
    /\ InCluster /\ UNCHANGED <<entrySecret, shoot>>

EEnsureFinalizer(e) ==
    /\ ectl[e].pc = "ensureFinalizer"
    /\ IF be[e].finalizer THEN UNCHANGED be /\ EGoto(e, "processing")
       ELSE IF be[e].exists /\ ectl[e].fresh
       THEN be' = [be EXCEPT ![e].finalizer = TRUE] /\ EGoto(e, "processing")
       ELSE UNCHANGED be /\ EReturn(e, TRUE)
    /\ InCluster /\ UNCHANGED <<entrySecret, shoot>>

AfterProcessing(job) ==
    IF job = "migrate" THEN "success" ELSE IF job = "delete" THEN "getSecret" ELSE "holdSecret"

\* A migration may start before the resource has got a finalizer.
EMarkProcessing(e) ==
    /\ ectl[e].pc = "processing"
    /\ IF be[e].exists
       THEN /\ be' = [be EXCEPT ![e].state = "processing",
                                ![e].migrates = ectl[e].job = "migrate"]
            /\ EUpdated(e, AfterProcessing(ectl[e].job))
       ELSE UNCHANGED be /\ EReturn(e, TRUE)
    /\ InCluster /\ UNCHANGED <<entrySecret, shoot>>

HoldEntrySecret_Forgotten(e) ==
    /\ ectl[e].pc = "holdSecret"
    /\ IF entrySecret[e] = "gone" THEN EReturn(e, TRUE) ELSE EGoto(e, "checkNamespace")
    /\ InCluster /\ UNCHANGED entryVars
HoldEntrySecret(e) ==
    /\ ectl[e].pc = "holdSecret"
    /\ entrySecret' = [entrySecret EXCEPT ![e] = Held(@)]
    /\ IF entrySecret[e] = "gone" THEN EReturn(e, TRUE) ELSE EGoto(e, "checkNamespace")
    /\ InCluster /\ UNCHANGED <<be, shoot>>

\* A deletion is skipped if the secret is gone.
GetEntrySecret_Needed(e) ==
    /\ ectl[e].pc = "getSecret"
    /\ IF entrySecret[e] = "gone" THEN EReturn(e, TRUE)
       ELSE ectl' = [ectl EXCEPT ![e].secret = entrySecret[e], ![e].pc = "list"]
    /\ InCluster /\ UNCHANGED entryVars
GetEntrySecret(e) ==
    /\ ectl[e].pc = "getSecret"
    /\ ectl' = [ectl EXCEPT ![e].secret = entrySecret[e],
                            ![e].pc = IF entrySecret[e] = "gone" THEN "removeFinalizer" ELSE "list"]
    /\ InCluster /\ UNCHANGED entryVars

AfterSuccess(job) == IF job = "restore" THEN "unannotate" ELSE "releaseSecret"

EMarkSucceeded(e) ==
    /\ ectl[e].pc = "success"
    /\ be' = [be EXCEPT ![e].state = "succeeded"]
    /\ IF ectl[e].job = "reconcile" THEN EReturn(e, FALSE)
       ELSE EUpdated(e, AfterSuccess(ectl[e].job))
    /\ InCluster /\ UNCHANGED <<entrySecret, shoot>>

EReportError_Failed(e) ==
    /\ ectl[e].pc = "error"
    /\ be' = [be EXCEPT ![e].state = "failed"]
    /\ EReturn(e, TRUE)
    /\ InCluster /\ UNCHANGED <<entrySecret, shoot>>
EReportError(e) ==
    /\ ectl[e].pc = "error"
    /\ be' = [be EXCEPT ![e].state = "error"]
    /\ EReturn(e, TRUE)
    /\ InCluster /\ UNCHANGED <<entrySecret, shoot>>

\* Delete updates the copy it has read before, Migrate reads the secret anew.
ReleaseEntrySecret(e) ==
    LET conflict == ectl[e].job = "delete" /\ ectl[e].secret # entrySecret[e] IN
    /\ ectl[e].pc = "releaseSecret"
    /\ IF conflict \/ entrySecret[e] = "gone"
       THEN UNCHANGED entrySecret /\ EReturn(e, TRUE)
       ELSE /\ entrySecret' = [entrySecret EXCEPT ![e] = Released(@)]
            /\ EGoto(e, "removeFinalizer")
    /\ InCluster /\ UNCHANGED <<be, shoot>>

\* DeleteFinalizer conflicts with an outdated copy, DeleteAllFinalizers does not.
RemoveEntryFinalizer(e) ==
    /\ ectl[e].pc = "removeFinalizer"
    /\ IF be[e].exists /\ (ectl[e].fresh \/ ectl[e].job = "migrate")
       THEN /\ be' = [be EXCEPT ![e].finalizer = FALSE, ![e].exists = ~be[e].deleting]
            /\ IF ectl[e].job = "migrate" THEN EGoto(e, "unannotate") ELSE EReturn(e, FALSE)
       ELSE UNCHANGED be /\ EReturn(e, TRUE)
    /\ InCluster /\ UNCHANGED <<entrySecret, shoot>>

ERemoveAnnotation(e) ==
    /\ ectl[e].pc = "unannotate"
    /\ IF be[e].exists
       THEN be' = [be EXCEPT ![e].ann = "none"] /\ EReturn(e, FALSE)
       ELSE UNCHANGED be /\ EReturn(e, TRUE)
    /\ InCluster /\ UNCHANGED <<entrySecret, shoot>>

----------------------------------------------------------------------------
(* The actuator.                                                           *)

\* Without a namespace there is no etcd that needs the secret.
CheckNamespace(e) ==
    /\ ectl[e].pc = "checkNamespace"
    /\ EGoto(e, IF shoot[e].namespace THEN "deploy" ELSE "success")
    /\ InCluster /\ UNCHANGED entryVars

DeployEtcdBackupSecret(e) ==
    LET possible == shoot[e].namespace /\ entrySecret[e] # "gone" IN
    /\ ectl[e].pc = "deploy"
    /\ shoot' = [shoot EXCEPT ![e].etcdSecret = @ \/ possible]
    /\ EGoto(e, IF possible THEN "success" ELSE "error")
    /\ InCluster /\ UNCHANGED <<be, entrySecret>>

\* DeleteObjectsWithPrefix: the blobs are listed, then deleted one by one.
ListBlobs(e) ==
    /\ ectl[e].pc = "list"
    /\ ectl' = [ectl EXCEPT ![e].pc = IF account /\ container THEN "deleteBlobs" ELSE "error",
                            ![e].listed = {fb \in Entries \X Backups :
                                             /\ fb[1] \in WithPrefix(e)
                                             /\ fb[2] \in blobs[fb[1]]}]
    /\ InCluster /\ UNCHANGED entryVars

DeleteBlob(e) ==
    /\ ectl[e].pc = "deleteBlobs"
    /\ \E fb \in ectl[e].listed :
          IF account /\ container
          THEN /\ blobs' = [blobs EXCEPT ![fb[1]] = @ \ {fb[2]}]
               /\ ectl' = [ectl EXCEPT ![e].listed = @ \ {fb}]
          ELSE UNCHANGED blobs /\ EGoto(e, "error")
    /\ UNCHANGED <<group, account, container, counters, entryVars>>

BlobsDeleted(e) ==
    /\ ectl[e].pc = "deleteBlobs" /\ ectl[e].listed = {}
    /\ EGoto(e, "success")
    /\ InCluster /\ UNCHANGED entryVars

EActuator(e) ==
    CheckNamespace(e) \/ DeployEtcdBackupSecret(e) \/ ListBlobs(e) \/ DeleteBlob(e) \/ BlobsDeleted(e)

EController(e) ==
    \/ EDispatch(e) \/ EEnsureFinalizer(e) \/ EMarkProcessing(e) \/ HoldEntrySecret(e)
    \/ GetEntrySecret(e) \/ EMarkSucceeded(e) \/ EReportError(e) \/ ReleaseEntrySecret(e)
    \/ RemoveEntryFinalizer(e) \/ ERemoveAnnotation(e)
    \/ EActuator(e)

----------------------------------------------------------------------------
(* Failures, and the gardenlet and etcd (external).                        *)

ECallFails(e) ==
    /\ faults > 0 /\ ectl[e].pc # "idle"
    /\ faults' = faults - 1
    /\ IF ectl[e].pc \in EActuatorSteps THEN EGoto(e, "error") ELSE EReturn(e, TRUE)
    /\ UNCHANGED <<cloudVars, entryVars, requests>>

ERestarted ==
    ectl' = [e \in Entries |->
               Idle(be[e].exists /\ (ERelevant(e) \/ be[e].state # "succeeded"))]

\* The gardenlet writes the resource.
Writes(e) ==
    /\ ectl' = [ectl EXCEPT ![e].fresh = FALSE]
    /\ UNCHANGED <<cloudVars, entrySecret, shoot>>

\* An entry is created for a new shoot, or for one that is restored on this
\* seed and has backups in the bucket.
CreateEntry(e) ==
    /\ be[e] = NoEntry
    /\ \/ be' = [be EXCEPT ![e].exists = TRUE, ![e].ann = "reconcile"] /\ UNCHANGED blobs
       \/ /\ be' = [be EXCEPT ![e].exists = TRUE, ![e].ann = "restore"]
          /\ \E old \in SUBSET Backups : blobs' = [blobs EXCEPT ![e] = old]
    /\ entrySecret' = [entrySecret EXCEPT ![e] = "free"]
    /\ shoot' = [shoot EXCEPT ![e].namespace = TRUE]
    /\ UNCHANGED <<group, account, container, counters, ectl>>

ERequestReconcile(e) ==
    /\ requests > 0
    /\ be[e].exists /\ ~be[e].deleting /\ be[e].ann = "none" /\ ~be[e].migrates
    /\ requests' = requests - 1
    /\ be' = [be EXCEPT ![e].ann = "reconcile"]
    /\ Writes(e) /\ UNCHANGED faults

\* The shoot is stopped before its entry is deleted or handed over.
StopShoot(e) ==
    /\ shoot[e].namespace /\ be[e].ann # "restore"
    /\ shoot' = [shoot EXCEPT ![e] = NoShoot]
    /\ UNCHANGED <<cloudVars, counters, be, entrySecret, ectl>>

ERequestMigrate(e) ==
    /\ be[e].exists /\ ~be[e].deleting /\ be[e].ann = "none" /\ ~be[e].migrates
    /\ ~shoot[e].namespace
    /\ be' = [be EXCEPT ![e].ann = "migrate"]
    /\ Writes(e) /\ UNCHANGED counters

\* A migrated resource is deleted, any other when the backups are not needed.
ERequestDelete(e) ==
    /\ be[e].exists /\ ~be[e].deleting
    /\ IsMigrated(e) \/ (be[e].ann = "none" /\ ~be[e].migrates /\ ~shoot[e].namespace)
    /\ be' = [be EXCEPT ![e].deleting = TRUE, ![e].exists = be[e].finalizer]
    /\ Writes(e) /\ UNCHANGED counters

DropEntrySecret(e) ==
    /\ be[e].deleting /\ entrySecret[e] \in {"free", "held"}
    /\ entrySecret' = [entrySecret EXCEPT ![e] = Unwanted(@)]
    /\ UNCHANGED <<cloudVars, counters, be, shoot, ectl>>

\* While its shoot has failed, an entry is not reconciled.
ShootFails(e) ==
    /\ requests > 0
    /\ shoot[e].namespace /\ ~shoot[e].failed
    /\ shoot' = [shoot EXCEPT ![e].failed = TRUE]
    /\ requests' = requests - 1
    /\ UNCHANGED <<cloudVars, faults, be, entrySecret, ectl>>

\* The flow of the shoot is retried, and with it the entry.
RetryShoot(e) ==
    /\ shoot[e].failed
    /\ shoot' = [shoot EXCEPT ![e].failed = FALSE]
    /\ be' = [be EXCEPT ![e].ann = IF @ = "none" /\ be[e].exists THEN "reconcile" ELSE @]
    /\ ectl' = [ectl EXCEPT ![e].fresh = FALSE]
    /\ UNCHANGED <<cloudVars, counters, entrySecret>>

\* Etcd uploads a backup with the credentials it has been given.
WriteBackup(e) ==
    /\ shoot[e].etcdSecret /\ account /\ container
    /\ \E b \in Backups \ blobs[e] : blobs' = [blobs EXCEPT ![e] = @ \cup {b}]
    /\ UNCHANGED <<group, account, container, counters, entryVars, ectl>>

Gardenlet(e) ==
    \/ ERequestReconcile(e) \/ StopShoot(e) \/ ERequestMigrate(e) \/ ERequestDelete(e)
    \/ DropEntrySecret(e) \/ ShootFails(e) \/ RetryShoot(e)
=============================================================================
