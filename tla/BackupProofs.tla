---------------------------- MODULE BackupProofs ----------------------------
(***************************************************************************)
(* Proofs about Backup, for every set of entries and backups and every     *)
(* bound: type correctness, that the controllers implement BackupStore,    *)
(* and that credentials outlive what is deleted with them.                 *)
(***************************************************************************)
EXTENDS Backup, TLAPS

AfterProcessingSteps ==
    {"holdSecret", "getSecret", "success", "error"} \cup EActuatorSteps
FinalSteps == {"unannotate", "releaseSecret", "removeFinalizer"}
\* Steps of Reconcile and Restore after the secret has got its finalizer.
HeldSteps(c) ==
    \/ c.pc \in {"checkNamespace", "deploy"}
    \/ c.pc \in {"success", "unannotate"} /\ c.job \in {"reconcile", "restore"}

\* The resource: one that is neither stored nor deleted was never created; a
\* shoot has its namespace only while its entry is live; a restore is not
\* interrupted.
ResourceInv(e) ==
    /\ ~be[e].exists /\ ~be[e].deleting => ectl[e].pc = "idle"
    /\ shoot[e].etcdSecret => shoot[e].namespace
    /\ shoot[e].namespace => /\ be[e].exists /\ ~be[e].deleting
                             /\ be[e].ann # "migrate" /\ ~be[e].migrates
    /\ be[e].ann = "restore" => be[e].exists /\ ~be[e].deleting /\ ~be[e].migrates
    /\ be[e].deleting /\ ~IsMigrated(e) => ~be[e].migrates /\ be[e].ann # "migrate"

\* What the controller knows at its places.
PlaceInv(e) ==
    /\ ectl[e].pc \in {"ensureFinalizer", "processing"} \cup AfterProcessingSteps => ~IsMigrated(e)
    /\ ectl[e].pc \in AfterProcessingSteps => be[e].migrates = (ectl[e].job = "migrate")
    /\ ectl[e].pc \in FinalSteps /\ ectl[e].job = "migrate" => IsMigrated(e)
    /\ ectl[e].pc \in {"releaseSecret", "removeFinalizer"} => ectl[e].job \in {"delete", "migrate"}
    /\ ectl[e].pc \in {"getSecret", "list", "deleteBlobs"} => ectl[e].job = "delete"
    /\ ectl[e].pc \in {"ensureFinalizer", "holdSecret", "checkNamespace", "deploy"} =>
          ectl[e].job \in {"reconcile", "restore"}
    /\ ectl[e].job = "migrate" /\ ectl[e].pc \in {"processing", "success", "error"} =>
          be[e].exists /\ ~be[e].deleting /\ (be[e].ann = "migrate" \/ be[e].migrates)
    /\ ectl[e].job = "restore" /\ ectl[e].pc # "idle" => be[e].ann = "restore"
    /\ ectl[e].job = "delete" /\ ectl[e].pc # "idle" =>
          be[e].exists /\ be[e].deleting /\ ~be[e].migrates /\ ectl[e].pc # "unannotate"
    /\ ectl[e].job \in {"reconcile", "restore"} /\ ectl[e].pc \notin {"idle", "ensureFinalizer"} =>
          be[e].finalizer

\* A secret that backups need is held.
SecretInv(e) ==
    /\ HeldSteps(ectl[e]) => entrySecret[e] \in {"held", "going"}
    /\ shoot[e].etcdSecret => entrySecret[e] \in {"held", "going"}
    /\ be[e].ann = "restore" => entrySecret[e] \in {"free", "held"}
    /\ blobs[e] # {} /\ Status(e) \in {"live", "dropping"} /\ be[e].ann # "restore" =>
          entrySecret[e] \in {"held", "going"}
    /\ entrySecret[e] \in {"held", "going"} /\ be[e].exists /\ ~IsMigrated(e) => be[e].finalizer

\* What has been deleted when a deletion succeeds.
DataInv(e) ==
    /\ Status(e) \in {"none", "gone"} => blobs[e] = {}
    /\ ectl[e].pc = "deleteBlobs" => /\ ectl[e].listed \subseteq {e} \X Backups
                                     /\ \A b \in blobs[e] : <<e, b>> \in ectl[e].listed
    /\ ectl[e].job = "delete" /\ ectl[e].pc \in {"success"} \cup FinalSteps => blobs[e] = {}

EntryInv(e) == ResourceInv(e) /\ PlaceInv(e) /\ SecretInv(e) /\ DataInv(e)

\* What the bucket alone decides of BucketInv.
BucketPart ==
    /\ bctl.job = "delete" /\ bctl.pc # "idle" => bb.deleting
    /\ bctl.pc \in {"deleteContainer", "deleteGroup", "deleteSecret", "releaseSecret"} =>
          bctl.job = "delete"
    /\ group = "deleting" => bb.deleting

\* A bucket is deleted after its entries.
BucketInv == BucketPart /\ (bb.deleting => \A e \in Entries : Status(e) \in {"none", "gone"})

StoreInv == BucketInv /\ \A e \in Entries : EntryInv(e)
----------------------------------------------------------------------------
(* Types.                                                                  *)

\* What the helpers of the bucket controller make of a controller.
LEMMA BControllerType ==
    ASSUME TypeOK, NEW step \in BSteps, NEW again \in BOOLEAN
    PROVE  /\ BGoto(step) => bctl' \in BControllers
           /\ BUpdated(step) => bctl' \in BControllers
           /\ BReturn(again) => bctl' \in BControllers
    BY DEF TypeOK, BucketTypeOK, BControllers, BSteps, BGoto, BUpdated, BReturn

\* A step of the bucket controller keeps the type of the controller.
LEMMA BControllerStepType ==
    ASSUME TypeOK, BController
    PROVE  bctl' \in BControllers
<1>1. CASE BDispatch
    BY <1>1 DEF BDispatch, BControllers, BSteps
<1>2. CASE BEnsureFinalizer
    BY <1>2, BControllerType DEF BEnsureFinalizer, BSteps, BActuatorSteps
<1>3. CASE BMarkProcessing
    BY <1>3, BControllerType DEF BMarkProcessing, GetAzureClient, BSteps, BActuatorSteps
<1>4. CASE HoldBucketSecret
    BY <1>4, BControllerType DEF HoldBucketSecret, GetAzureClient, BSteps, BActuatorSteps
<1>5. CASE BMarkSucceeded
    BY <1>5, BControllerType DEF BMarkSucceeded, BSteps, BActuatorSteps
<1>6. CASE BReportError
    BY <1>6, BControllerType DEF BReportError, BSteps, BActuatorSteps
<1>7. CASE ReleaseBucketSecret
    BY <1>7, BControllerType DEF ReleaseBucketSecret, BSteps, BActuatorSteps
<1>8. CASE BDeleteFinalizer
    BY <1>8, BControllerType DEF BDeleteFinalizer, BSteps, BActuatorSteps
<1>9. CASE UseGeneratedSecret
    BY <1>9, BControllerType DEF UseGeneratedSecret, BCall, WithClient, BSteps, BActuatorSteps
<1>10. CASE CreateGroup
    BY <1>10, BControllerType DEF CreateGroup, BCall, BSteps, BActuatorSteps
<1>11. CASE CreateAccount
    BY <1>11, BControllerType DEF CreateAccount, BCall, BSteps, BActuatorSteps
<1>12. CASE StoreGeneratedSecret
    BY <1>12, BControllerType DEF StoreGeneratedSecret, BCall, BSteps, BActuatorSteps
<1>13. CASE StoreSecretRef
    BY <1>13, BControllerType DEF StoreSecretRef, WithClient, BSteps, BActuatorSteps
<1>14. CASE CreateContainerIfNotExists
    BY <1>14, BControllerType DEF CreateContainerIfNotExists, BCall, BSteps, BActuatorSteps
<1>15. CASE DeleteContainerIfExists
    BY <1>15, BControllerType DEF DeleteContainerIfExists, BCall, BSteps, BActuatorSteps
<1>16. CASE DeleteResourceGroup
    BY <1>16, BControllerType DEF DeleteResourceGroup, BCall, BSteps, BActuatorSteps
<1>17. CASE DeleteGeneratedSecret
    BY <1>17, BControllerType DEF DeleteGeneratedSecret, BCall, BSteps, BActuatorSteps
<1> QED BY <1>1, <1>2, <1>3, <1>4, <1>5, <1>6, <1>7, <1>8, <1>9, <1>10, <1>11, <1>12,
           <1>13, <1>14, <1>15, <1>16, <1>17
       DEF BController, BActuator

\* A step of the bucket controller keeps the types of what it works on.
LEMMA BucketStepType ==
    ASSUME TypeOK, BController
    PROVE  BucketTypeOK' /\ CloudTypeOK'
<1> USE DEF TypeOK, BucketTypeOK, CloudTypeOK, ClusterCall, AzureCall, cloudVars, counters, bucketVars
<1>0. bctl' \in BControllers
    BY BControllerStepType
<1>1. CASE BDispatch
    BY <1>0, <1>1 DEF BDispatch, Buckets
<1>2. CASE BEnsureFinalizer
    BY <1>0, <1>2 DEF BEnsureFinalizer, Buckets
<1>3. CASE BMarkProcessing
    BY <1>0, <1>3 DEF BMarkProcessing, Buckets
<1>4. CASE HoldBucketSecret
    BY <1>0, <1>4 DEF HoldBucketSecret, SecretStates, Held
<1>5. CASE BMarkSucceeded
    BY <1>0, <1>5 DEF BMarkSucceeded, Buckets
<1>6. CASE BReportError
    BY <1>0, <1>6 DEF BReportError, Buckets
<1>7. CASE ReleaseBucketSecret
    BY <1>0, <1>7 DEF ReleaseBucketSecret, SecretStates, Released
<1>8. CASE BDeleteFinalizer
    BY <1>0, <1>8 DEF BDeleteFinalizer, Buckets
<1>9. CASE UseGeneratedSecret
    BY <1>0, <1>9 DEF UseGeneratedSecret
<1>10. CASE CreateGroup
    BY <1>0, <1>10 DEF CreateGroup, GroupAccepts
<1>11. CASE CreateAccount
    BY <1>0, <1>11 DEF CreateAccount
<1>12. CASE StoreGeneratedSecret
    BY <1>0, <1>12 DEF StoreGeneratedSecret
<1>13. CASE StoreSecretRef
    BY <1>0, <1>13 DEF StoreSecretRef, Buckets
<1>14. CASE CreateContainerIfNotExists
    BY <1>0, <1>14 DEF CreateContainerIfNotExists
<1>15. CASE DeleteContainerIfExists
    BY <1>0, <1>15 DEF DeleteContainerIfExists, NoBlobs
<1>16. CASE DeleteResourceGroup
    BY <1>0, <1>16 DEF DeleteResourceGroup
<1>17. CASE DeleteGeneratedSecret
    BY <1>0, <1>17 DEF DeleteGeneratedSecret
<1> QED BY <1>1, <1>2, <1>3, <1>4, <1>5, <1>6, <1>7, <1>8, <1>9, <1>10, <1>11, <1>12,
           <1>13, <1>14, <1>15, <1>16, <1>17
       DEF BController, BActuator

\* Any step for one entry: of its controller, of the gardenlet or of etcd.
OwnStep(e) == EController(e) \/ ECallFails(e) \/ Gardenlet(e) \/ WriteBackup(e)
StepFor(e) == OwnStep(e) \/ CreateEntry(e)

\* What updates of several fields make of the resources.
LEMMA ResourceUpdates ==
    ASSUME TypeOK, NEW e \in Entries, NEW x \in BOOLEAN, NEW y \in BOOLEAN
    PROVE  /\ be' = [be EXCEPT ![e].state = "processing", ![e].migrates = x] =>
                be' \in [Entries -> BackupEntries]
           /\ be' = [be EXCEPT ![e].finalizer = x, ![e].exists = y] => be' \in [Entries -> BackupEntries]
           /\ be' = [be EXCEPT ![e].deleting = x, ![e].exists = y] => be' \in [Entries -> BackupEntries]
    BY DEF TypeOK, EntryTypeOK, BackupEntries

\* Steps keep the type of the resources.
LEMMA ResourceType ==
    ASSUME TypeOK, NEW e \in Entries, StepFor(e)
    PROVE  be' \in [Entries -> BackupEntries]
<1> USE DEF TypeOK, EntryTypeOK, BackupEntries, entryVars
<1>1. CASE EDispatch(e)
    BY <1>1 DEF EDispatch
<1>2. CASE EEnsureFinalizer(e)
    BY <1>2 DEF EEnsureFinalizer
<1>3. CASE EMarkProcessing(e)
    BY <1>3, ResourceUpdates DEF EMarkProcessing
<1>4. CASE EMarkSucceeded(e)
    BY <1>4 DEF EMarkSucceeded
<1>5. CASE EReportError(e)
    BY <1>5 DEF EReportError
<1>6. CASE RemoveEntryFinalizer(e)
    BY <1>6, ResourceUpdates DEF RemoveEntryFinalizer
<1>7. CASE ERemoveAnnotation(e)
    BY <1>7 DEF ERemoveAnnotation
<1>8. CASE CreateEntry(e)
    BY <1>8 DEF CreateEntry, NoEntry
<1>9. CASE ERequestReconcile(e)
    BY <1>9 DEF ERequestReconcile
<1>10. CASE ERequestMigrate(e)
    BY <1>10 DEF ERequestMigrate
<1>11. CASE ERequestDelete(e)
    BY <1>11, ResourceUpdates DEF ERequestDelete
<1>12. CASE RetryShoot(e)
    BY <1>12 DEF RetryShoot
<1>13. CASE HoldEntrySecret(e) \/ GetEntrySecret(e) \/ ReleaseEntrySecret(e) \/
               CheckNamespace(e) \/ DeployEtcdBackupSecret(e) \/ ListBlobs(e) \/
               DeleteBlob(e) \/ BlobsDeleted(e) \/ ECallFails(e) \/ StopShoot(e) \/
               DropEntrySecret(e) \/ ShootFails(e) \/ WriteBackup(e)
    BY <1>13 DEF HoldEntrySecret, GetEntrySecret, ReleaseEntrySecret, CheckNamespace,
       DeployEtcdBackupSecret, ListBlobs, DeleteBlob, BlobsDeleted, ECallFails,
       StopShoot, DropEntrySecret, ShootFails, WriteBackup, Writes
<1> QED BY <1>1, <1>2, <1>3, <1>4, <1>5, <1>6, <1>7, <1>8, <1>9, <1>10, <1>11, <1>12, <1>13 DEF StepFor, OwnStep, EController, EActuator, Gardenlet

\* Steps keep the types of the secrets and shoots.
LEMMA SecretAndShootType ==
    ASSUME TypeOK, NEW e \in Entries, StepFor(e)
    PROVE  entrySecret' \in [Entries -> SecretStates] /\ shoot' \in [Entries -> Shoots]
<1> USE DEF TypeOK, EntryTypeOK, SecretStates, Shoots, entryVars, Writes
<1>1. CASE HoldEntrySecret(e)
    BY <1>1 DEF HoldEntrySecret, Held
<1>2. CASE ReleaseEntrySecret(e)
    BY <1>2 DEF ReleaseEntrySecret, Released
<1>3. CASE DeployEtcdBackupSecret(e)
    BY <1>3 DEF DeployEtcdBackupSecret
<1>4. CASE CreateEntry(e)
    BY <1>4 DEF CreateEntry
<1>5. CASE StopShoot(e)
    BY <1>5 DEF StopShoot, NoShoot
<1>6. CASE DropEntrySecret(e)
    BY <1>6 DEF DropEntrySecret, Unwanted
<1>7. CASE ShootFails(e)
    BY <1>7 DEF ShootFails
<1>8. CASE RetryShoot(e)
    BY <1>8 DEF RetryShoot
<1>9. CASE EDispatch(e) \/ EEnsureFinalizer(e) \/ EMarkProcessing(e) \/ GetEntrySecret(e)
               \/ EMarkSucceeded(e) \/ EReportError(e) \/ RemoveEntryFinalizer(e) \/
               ERemoveAnnotation(e) \/ CheckNamespace(e) \/ ListBlobs(e) \/ DeleteBlob(e) \/
               BlobsDeleted(e) \/ ECallFails(e) \/ ERequestReconcile(e) \/ ERequestMigrate(e)
               \/ ERequestDelete(e) \/ WriteBackup(e)
    BY <1>9 DEF EDispatch, EEnsureFinalizer, EMarkProcessing, GetEntrySecret, EMarkSucceeded,
       EReportError, RemoveEntryFinalizer, ERemoveAnnotation, CheckNamespace,
       ListBlobs, DeleteBlob, BlobsDeleted, ECallFails, ERequestReconcile,
       ERequestMigrate, ERequestDelete, WriteBackup
<1> QED BY <1>1, <1>2, <1>3, <1>4, <1>5, <1>6, <1>7, <1>8, <1>9 DEF StepFor, OwnStep, EController, EActuator, Gardenlet

\* What the helpers of an entry's controller make of a controller.
LEMMA EControllerType ==
    ASSUME TypeOK, NEW e \in Entries, NEW step \in ESteps, NEW again \in BOOLEAN
    PROVE  /\ EGoto(e, step) => ectl' \in [Entries -> EControllers]
           /\ EUpdated(e, step) => ectl' \in [Entries -> EControllers]
           /\ EReturn(e, again) => ectl' \in [Entries -> EControllers]
           /\ ectl' = [ectl EXCEPT ![e].fresh = FALSE] => ectl' \in [Entries -> EControllers]
<1>0. ectl \in [Entries -> EControllers]
    BY DEF TypeOK, EntryTypeOK
<1>1. EGoto(e, step) \/ EUpdated(e, step) => ectl' \in [Entries -> EControllers]
    BY <1>0 DEF EControllers, EGoto, EUpdated
<1>2. ASSUME ectl' = [ectl EXCEPT ![e].fresh = FALSE] PROVE ectl' \in [Entries -> EControllers]
    BY <1>0, <1>2 DEF EControllers
<1>3. Idle(again) \in EControllers
    BY DEF Idle, At, EControllers, ESteps, SecretStates
<1>4. EReturn(e, again) => ectl' \in [Entries -> EControllers]
    BY <1>0, <1>3 DEF EReturn
<1> QED BY <1>1, <1>2, <1>4

\* What the steps of a deletion make of a controller.
LEMMA ListedType ==
    ASSUME TypeOK, NEW e \in Entries, NEW step \in ESteps, NEW l \in SUBSET (Entries \X Backups)
    PROVE  /\ ectl' = [ectl EXCEPT ![e].pc = step, ![e].listed = l] => ectl' \in [Entries -> EControllers]
           /\ ectl' = [ectl EXCEPT ![e].listed = l] => ectl' \in [Entries -> EControllers]
           /\ ectl[e].listed \in SUBSET (Entries \X Backups)
<1>0. ectl \in [Entries -> EControllers] /\ ectl[e] \in EControllers
    BY DEF TypeOK, EntryTypeOK
<1>1. /\ [ectl[e] EXCEPT !.pc = step, !.listed = l] \in EControllers
      /\ [ectl[e] EXCEPT !.listed = l] \in EControllers
      /\ ectl[e].listed \in SUBSET (Entries \X Backups)
    BY <1>0 DEF EControllers
<1> QED BY <1>0, <1>1

\* Steps keep the type of the controllers.
LEMMA ControllerType ==
    ASSUME TypeOK, NEW e \in Entries, StepFor(e)
    PROVE  ectl' \in [Entries -> EControllers]
<1> USE DEF ESteps, EActuatorSteps
<1>1. CASE EDispatch(e)
    BY <1>1 DEF EDispatch, FirstStep, Branch, At, EControllers, TypeOK, EntryTypeOK, SecretStates
<1>2. CASE EEnsureFinalizer(e)
    BY <1>2, EControllerType DEF EEnsureFinalizer
<1>3. CASE EMarkProcessing(e)
    BY <1>3, EControllerType DEF EMarkProcessing, AfterProcessing
<1>4. CASE HoldEntrySecret(e)
    BY <1>4, EControllerType DEF HoldEntrySecret
<1>5. CASE GetEntrySecret(e)
    BY <1>5 DEF GetEntrySecret, EControllers, TypeOK, EntryTypeOK
<1>6. CASE EMarkSucceeded(e)
    BY <1>6, EControllerType DEF EMarkSucceeded, AfterSuccess
<1>7. CASE EReportError(e)
    BY <1>7, EControllerType DEF EReportError
<1>8. CASE ReleaseEntrySecret(e)
    BY <1>8, EControllerType DEF ReleaseEntrySecret
<1>9. CASE RemoveEntryFinalizer(e)
    BY <1>9, EControllerType DEF RemoveEntryFinalizer
<1>10. CASE ERemoveAnnotation(e)
    BY <1>10, EControllerType DEF ERemoveAnnotation
<1>11. CASE CheckNamespace(e)
    BY <1>11, EControllerType DEF CheckNamespace
<1>12. CASE DeployEtcdBackupSecret(e)
    BY <1>12, EControllerType DEF DeployEtcdBackupSecret
<1>13. CASE ListBlobs(e)
    BY <1>13, ListedType DEF ListBlobs, WithPrefix
<1>14. CASE DeleteBlob(e)
    BY <1>14, ListedType, EControllerType DEF DeleteBlob
<1>15. CASE BlobsDeleted(e)
    BY <1>15, EControllerType DEF BlobsDeleted
<1>16. CASE ECallFails(e)
    BY <1>16, EControllerType DEF ECallFails
<1>17. CASE ERequestReconcile(e)
    BY <1>17, EControllerType DEF ERequestReconcile, Writes
<1>18. CASE ERequestMigrate(e)
    BY <1>18, EControllerType DEF ERequestMigrate, Writes
<1>19. CASE ERequestDelete(e)
    BY <1>19, EControllerType DEF ERequestDelete, Writes
<1>20. CASE RetryShoot(e)
    BY <1>20, EControllerType DEF RetryShoot
<1>21. CASE CreateEntry(e) \/ StopShoot(e) \/ DropEntrySecret(e) \/ ShootFails(e) \/
               WriteBackup(e)
    BY <1>21 DEF CreateEntry, StopShoot, DropEntrySecret, ShootFails, WriteBackup, TypeOK,
       EntryTypeOK
<1> QED BY <1>1, <1>2, <1>3, <1>4, <1>5, <1>6, <1>7, <1>8, <1>9, <1>10, <1>11, <1>12,
           <1>13, <1>14, <1>15, <1>16, <1>17, <1>18, <1>19, <1>20, <1>21 DEF StepFor, OwnStep, EController, EActuator, Gardenlet

\* Steps for an entry keep the types of the cloud and of the counters.
LEMMA CloudType ==
    ASSUME TypeOK, NEW e \in Entries, StepFor(e)
    PROVE  CloudTypeOK'
<1> USE DEF TypeOK, CloudTypeOK, cloudVars, counters, InCluster, Writes
<1>1. CASE DeleteBlob(e)
    BY <1>1 DEF DeleteBlob
<1>2. CASE ECallFails(e)
    BY <1>2 DEF ECallFails
<1>3. CASE CreateEntry(e)
    BY <1>3 DEF CreateEntry
<1>4. CASE ERequestReconcile(e)
    BY <1>4 DEF ERequestReconcile
<1>5. CASE ShootFails(e)
    BY <1>5 DEF ShootFails
<1>6. CASE WriteBackup(e)
    BY <1>6 DEF WriteBackup
<1>7. CASE EDispatch(e) \/ EEnsureFinalizer(e) \/ EMarkProcessing(e) \/
               HoldEntrySecret(e) \/ GetEntrySecret(e) \/ EMarkSucceeded(e) \/
               EReportError(e) \/ ReleaseEntrySecret(e) \/ RemoveEntryFinalizer(e) \/
               ERemoveAnnotation(e) \/ CheckNamespace(e) \/ DeployEtcdBackupSecret(e) \/
               ListBlobs(e) \/ BlobsDeleted(e) \/ StopShoot(e) \/ ERequestMigrate(e) \/
               ERequestDelete(e) \/ DropEntrySecret(e) \/ RetryShoot(e)
    BY <1>7 DEF EDispatch, EEnsureFinalizer, EMarkProcessing, HoldEntrySecret, GetEntrySecret,
       EMarkSucceeded, EReportError, ReleaseEntrySecret, RemoveEntryFinalizer,
       ERemoveAnnotation, CheckNamespace, DeployEtcdBackupSecret, ListBlobs,
       BlobsDeleted, StopShoot, ERequestMigrate, ERequestDelete, DropEntrySecret,
       RetryShoot
<1> QED BY <1>1, <1>2, <1>3, <1>4, <1>5, <1>6, <1>7 DEF StepFor, OwnStep, EController, EActuator, Gardenlet

\* A restart keeps the types.
LEMMA RestartType ==
    ASSUME TypeOK, Crash
    PROVE  TypeOK'
<1>1. \A again \in BOOLEAN : Idle(again) \in EControllers
    BY DEF Idle, At, EControllers, ESteps, SecretStates
<1>2. \A e \in Entries : (be[e].exists /\ (ERelevant(e) \/ be[e].state # "succeeded")) \in BOOLEAN
    OBVIOUS
<1>3. ectl' \in [Entries -> EControllers]
    BY <1>1, <1>2 DEF Crash, ERestarted
<1>4. bctl' \in BControllers
    BY DEF Crash, BRestarted, TypeOK, BucketTypeOK, BControllers, BSteps
<1> QED BY <1>3, <1>4 DEF Crash, TypeOK, CloudTypeOK, BucketTypeOK, EntryTypeOK, cloudVars,
           bucketVars, entryVars

\* Steps of the bucket's environment keep the types.
LEMMA BucketEnvironmentType ==
    ASSUME TypeOK, BCallFails \/ BRequestReconcile \/ BRequestDelete \/ DropBucketSecret
    PROVE  BucketTypeOK' /\ CloudTypeOK'
<1>1. CASE BCallFails
  <2>1. "error" \in BSteps
      BY DEF BSteps
  <2>2. bctl' \in BControllers
      BY <1>1, <2>1, BControllerType DEF BCallFails
  <2> QED BY <1>1, <2>2 DEF BCallFails, TypeOK, BucketTypeOK, CloudTypeOK, cloudVars, bucketVars
<1>2. CASE BRequestReconcile \/ BRequestDelete
  <2>1. bctl' \in BControllers
      BY <1>2 DEF BRequestReconcile, BRequestDelete, TypeOK, BucketTypeOK, BControllers
  <2>2. bb' \in Buckets
      BY <1>2 DEF BRequestReconcile, BRequestDelete, TypeOK, BucketTypeOK, Buckets
  <2> QED BY <1>2, <2>1, <2>2 DEF BRequestReconcile, BRequestDelete, TypeOK, BucketTypeOK, CloudTypeOK,
             cloudVars, counters
<1>3. CASE DropBucketSecret
    BY <1>3 DEF DropBucketSecret, Unwanted, SecretStates, TypeOK, BucketTypeOK, CloudTypeOK, cloudVars, counters
<1> QED BY <1>1, <1>2, <1>3

\* Every variable keeps its type, in every instance (all of Backup).
THEOREM TypeCorrect == Spec => []TypeOK
<1>1. Init => TypeOK
  <2> SUFFICES ASSUME Init PROVE TypeOK
      OBVIOUS
  <2>1. NoEntry \in BackupEntries /\ OldEntry \in BackupEntries
      BY DEF NoEntry, OldEntry, BackupEntries
  <2>2. EntryTypeOK
      BY <2>1 DEF Init, EntryInit, EntryTypeOK, SecretStates, NoShoot, Shoots,
         Idle, At, EControllers, ESteps
  <2>3. BucketTypeOK
      BY DEF Init, BucketInit, BucketTypeOK, Buckets, SecretStates, BControllers, BSteps
  <2>4. CloudTypeOK
      BY ScopesAssumption DEF Init, CloudInit, CloudTypeOK, NoBlobs
  <2> QED BY <2>2, <2>3, <2>4 DEF TypeOK
<1>2. TypeOK /\ [Next]_vars => TypeOK'
  <2> SUFFICES ASSUME TypeOK, [Next]_vars PROVE TypeOK'
      OBVIOUS
  <2>1. CASE BucketStep
      BY <2>1, BucketStepType DEF BucketStep, entrySide, entryVars, TypeOK, EntryTypeOK
  <2>2. CASE CloudStep
      BY <2>2 DEF CloudStep, GroupIsDeleted, bucketSide, bucketVars, entrySide, entryVars, counters,
           NoBlobs, TypeOK, CloudTypeOK, BucketTypeOK, EntryTypeOK
  <2>3. CASE \/ BCallFails /\ UNCHANGED entrySide
             \/ (BRequestReconcile \/ DropBucketSecret) /\ UNCHANGED entrySide
             \/ DeleteBucket
      BY <2>3, BucketEnvironmentType DEF DeleteBucket, entrySide, entryVars, TypeOK, EntryTypeOK
  <2>4. CASE Crash
      BY <2>4, RestartType
  <2>5. CASE \E e \in Entries : StepFor(e) /\ UNCHANGED bucketSide
      BY <2>5, ResourceType, SecretAndShootType, ControllerType, CloudType
         DEF bucketSide, bucketVars, TypeOK, BucketTypeOK, EntryTypeOK
  <2>6. CASE UNCHANGED vars
      BY <2>6 DEF vars, cloudVars, counters, bucketSide, bucketVars, entrySide, entryVars, TypeOK,
           CloudTypeOK, BucketTypeOK, EntryTypeOK
  <2> QED BY <2>1, <2>2, <2>3, <2>4, <2>5, <2>6
         DEF Next, Faults, Environment, EntryStep, CreateEntryInBucket, StepFor, OwnStep
<1> QED BY <1>1, <1>2, PTL DEF Spec

----------------------------------------------------------------------------
(* The controllers implement BackupStore.                                  *)

\* What some steps do to the entry, field by field.
LEMMA FinalizerEffect ==
    ASSUME TypeOK, NEW e \in Entries, EEnsureFinalizer(e),
           be[e].finalizer \/ (be[e].exists /\ ectl[e].fresh)
    PROVE  /\ be'[e].exists = be[e].exists /\ be'[e].deleting = be[e].deleting
           /\ be'[e].ann = be[e].ann /\ be'[e].migrates = be[e].migrates
           /\ be'[e].state = be[e].state /\ be'[e].finalizer
           /\ ectl[e].pc = "ensureFinalizer"
           /\ ectl'[e].pc = "processing" /\ ectl'[e].job = ectl[e].job
           /\ UNCHANGED <<entrySecret, shoot, blobs>>
<1>1. CASE be[e].finalizer
    BY <1>1 DEF EEnsureFinalizer, EGoto, InCluster, cloudVars, TypeOK, EntryTypeOK, BackupEntries, EControllers
<1>2. CASE ~be[e].finalizer
  <2>1. /\ be' = [be EXCEPT ![e].finalizer = TRUE] /\ EGoto(e, "processing")
        /\ ectl[e].pc = "ensureFinalizer" /\ UNCHANGED <<entrySecret, shoot, blobs>>
      BY <1>2 DEF EEnsureFinalizer, InCluster, cloudVars
  <2>2. ectl'[e].pc = "processing" /\ ectl'[e].job = ectl[e].job
      BY <2>1 DEF EGoto, TypeOK, EntryTypeOK, EControllers
  <2> QED BY <2>1, <2>2 DEF TypeOK, EntryTypeOK, BackupEntries
<1> QED BY <1>1, <1>2

\* A step that only goes on keeps the job and the listed blobs.
LEMMA GotoEffect ==
    ASSUME TypeOK, NEW e \in Entries, NEW step, EGoto(e, step)
    PROVE  ectl'[e].pc = step /\ ectl'[e].job = ectl[e].job /\ ectl'[e].listed = ectl[e].listed
    BY DEF EGoto, TypeOK, EntryTypeOK, EControllers

\* A listing returns the blobs of the entry, and of no other (the slash in
\* the prefix of DeleteObjectsWithPrefix).
LEMMA ListEffect ==
    ASSUME TypeOK, NEW e \in Entries, ListBlobs(e)
    PROVE  /\ ectl[e].pc = "list" /\ ectl'[e].pc \in {"deleteBlobs", "error"}
           /\ ectl'[e].job = ectl[e].job
           /\ ectl'[e].listed \subseteq {e} \X Backups
           /\ \A b \in blobs[e] : <<e, b>> \in ectl'[e].listed
           /\ UNCHANGED <<entryVars, blobs>>
<1>1. blobs[e] \subseteq Backups
    BY DEF TypeOK, CloudTypeOK
<1> DEFINE l == {fb \in Entries \X Backups : fb[1] \in WithPrefix(e) /\ fb[2] \in blobs[fb[1]]}
<1>2. l \subseteq {e} \X Backups /\ \A b \in blobs[e] : <<e, b>> \in l
    BY <1>1 DEF WithPrefix
<1>3. ectl'[e].listed = l
    BY DEF ListBlobs, TypeOK, EntryTypeOK, EControllers
<1>4. /\ ectl[e].pc = "list" /\ ectl'[e].pc \in {"deleteBlobs", "error"}
      /\ ectl'[e].job = ectl[e].job /\ UNCHANGED <<entryVars, blobs>>
    BY DEF ListBlobs, TypeOK, EntryTypeOK, EControllers, InCluster, cloudVars
<1> QED BY <1>2, <1>3, <1>4

\* What has been listed and is deleted are blobs of the entry.
LEMMA DeleteEffect ==
    ASSUME TypeOK, NEW e \in Entries, DeleteBlob(e), ectl[e].listed \subseteq {e} \X Backups,
           \A b \in blobs[e] : <<e, b>> \in ectl[e].listed
    PROVE  /\ ectl[e].pc = "deleteBlobs" /\ ectl'[e].pc \in {"deleteBlobs", "error"}
           /\ ectl'[e].job = ectl[e].job
           /\ ectl'[e].listed \subseteq {e} \X Backups
           /\ \A b \in blobs'[e] : <<e, b>> \in ectl'[e].listed
           /\ \/ UNCHANGED blobs
              \/ \E b \in Backups : blobs' = [blobs EXCEPT ![e] = @ \ {b}]
           /\ UNCHANGED entryVars
<1>1. PICK fb \in ectl[e].listed :
          IF account /\ container
          THEN /\ blobs' = [blobs EXCEPT ![fb[1]] = @ \ {fb[2]}]
               /\ ectl' = [ectl EXCEPT ![e].listed = @ \ {fb}]
          ELSE UNCHANGED blobs /\ EGoto(e, "error")
    BY DEF DeleteBlob
<1>2. ectl[e].pc = "deleteBlobs" /\ UNCHANGED entryVars
    BY DEF DeleteBlob, entryVars
<1>3. CASE account /\ container
  <2>1. fb[1] = e /\ fb[2] \in Backups /\ fb = <<e, fb[2]>>
      BY <1>1
  <2>2. blobs' = [blobs EXCEPT ![e] = @ \ {fb[2]}]
      BY <1>1, <1>3, <2>1
  <2>3. blobs'[e] = blobs[e] \ {fb[2]}
      BY <2>2 DEF TypeOK, CloudTypeOK
  <2>4. ectl'[e].listed = ectl[e].listed \ {fb} /\ ectl'[e].pc = ectl[e].pc /\ ectl'[e].job = ectl[e].job
      BY <1>1, <1>3 DEF TypeOK, EntryTypeOK, EControllers
  <2>5. \A b \in blobs'[e] : <<e, b>> \in ectl'[e].listed
      BY <2>1, <2>3, <2>4
  <2>6. ectl'[e].listed \subseteq {e} \X Backups
      BY <2>4
  <2> QED BY <1>2, <2>1, <2>2, <2>4, <2>5, <2>6
<1>4. CASE ~(account /\ container)
    BY <1>1, <1>2, <1>4, GotoEffect
<1> QED BY <1>3, <1>4

\* Steps for an entry keep ResourceInv.
LEMMA ResourceStep ==
    ASSUME TypeOK, NEW e \in Entries, StepFor(e), ResourceInv(e), PlaceInv(e)
    PROVE  ResourceInv(e)'
<1> USE DEF TypeOK, EntryTypeOK, BackupEntries, Shoots, EControllers, ResourceInv, PlaceInv,
            AfterProcessingSteps, FinalSteps, EActuatorSteps, IsMigrated, NoEntry, EGoto,
            EUpdated, EReturn, Idle, At, InCluster, entryVars, cloudVars
<1>1. CASE EDispatch(e)
    BY <1>1 DEF EDispatch, FirstStep, Branch
<1>2. CASE EEnsureFinalizer(e)
  <2>1. CASE be[e].finalizer
      BY <1>2, <2>1 DEF EEnsureFinalizer
  <2>2. CASE ~be[e].finalizer /\ be[e].exists /\ ectl[e].fresh
      BY <1>2, <2>2 DEF EEnsureFinalizer
  <2>3. CASE ~be[e].finalizer /\ ~(be[e].exists /\ ectl[e].fresh)
      BY <1>2, <2>3 DEF EEnsureFinalizer
  <2> QED BY <2>1, <2>2, <2>3
<1>3. CASE EMarkProcessing(e)
  <2>1. CASE be[e].exists
      BY SMTT(60), <1>3, <2>1 DEF EMarkProcessing, AfterProcessing
  <2>2. CASE ~be[e].exists
      BY <1>3, <2>2 DEF EMarkProcessing, AfterProcessing
  <2> QED BY <2>1, <2>2
<1>4. CASE HoldEntrySecret(e)
  <2>1. CASE entrySecret[e] = "gone"
      BY <1>4, <2>1 DEF HoldEntrySecret, Held
  <2>2. CASE entrySecret[e] # "gone"
      BY <1>4, <2>2 DEF HoldEntrySecret, Held
  <2> QED BY <2>1, <2>2
<1>5. CASE GetEntrySecret(e)
    BY <1>5 DEF GetEntrySecret
<1>6. CASE EMarkSucceeded(e)
    BY <1>6 DEF EMarkSucceeded, AfterSuccess
<1>7. CASE EReportError(e)
    BY <1>7 DEF EReportError
<1>8. CASE ReleaseEntrySecret(e)
    BY <1>8 DEF ReleaseEntrySecret, Released
<1>9. CASE RemoveEntryFinalizer(e)
    BY <1>9 DEF RemoveEntryFinalizer
<1>10. CASE ERemoveAnnotation(e)
  <2>1. CASE be[e].exists
      BY <1>10, <2>1 DEF ERemoveAnnotation
  <2>2. CASE ~be[e].exists
      BY <1>10, <2>2 DEF ERemoveAnnotation
  <2> QED BY <2>1, <2>2
<1>11. CASE CheckNamespace(e)
  <2>1. CASE shoot[e].namespace
      BY <1>11, <2>1 DEF CheckNamespace
  <2>2. CASE ~shoot[e].namespace
      BY <1>11, <2>2 DEF CheckNamespace
  <2> QED BY <2>1, <2>2
<1>12. CASE DeployEtcdBackupSecret(e)
    BY <1>12 DEF DeployEtcdBackupSecret
<1>13. CASE ListBlobs(e)
  <2>1. CASE account /\ container
      BY <1>13, <2>1 DEF ListBlobs, WithPrefix
  <2>2. CASE ~(account /\ container)
      BY <1>13, <2>2 DEF ListBlobs, WithPrefix
  <2> QED BY <2>1, <2>2
<1>14. CASE DeleteBlob(e)
  <2>1. CASE account /\ container
      BY <1>14, <2>1 DEF DeleteBlob
  <2>2. CASE ~(account /\ container)
      BY <1>14, <2>2 DEF DeleteBlob
  <2> QED BY <2>1, <2>2
<1>15. CASE BlobsDeleted(e)
    BY <1>15 DEF BlobsDeleted
<1>16. CASE ECallFails(e)
    BY <1>16 DEF ECallFails
<1>17. CASE CreateEntry(e)
    BY <1>17 DEF CreateEntry, NoEntry
<1>18. CASE ERequestReconcile(e)
    BY <1>18 DEF ERequestReconcile, Writes
<1>19. CASE StopShoot(e)
    BY <1>19 DEF StopShoot, NoShoot
<1>20. CASE ERequestMigrate(e)
    BY <1>20 DEF ERequestMigrate, Writes
<1>21. CASE ERequestDelete(e)
    BY <1>21 DEF ERequestDelete, Writes
<1>22. CASE DropEntrySecret(e)
    BY <1>22 DEF DropEntrySecret, Unwanted
<1>23. CASE ShootFails(e)
    BY <1>23 DEF ShootFails
<1>24. CASE RetryShoot(e)
    BY <1>24 DEF RetryShoot
<1>25. CASE WriteBackup(e)
    BY <1>25 DEF WriteBackup
<1> QED BY <1>1, <1>2, <1>3, <1>4, <1>5, <1>6, <1>7, <1>8, <1>9, <1>10, <1>11, <1>12,
           <1>13, <1>14, <1>15, <1>16, <1>17, <1>18, <1>19, <1>20, <1>21, <1>22, <1>23,
           <1>24, <1>25
       DEF StepFor, OwnStep, EController, EActuator, Gardenlet

\* Steps for an entry keep PlaceInv.
LEMMA PlaceStep ==
    ASSUME TypeOK, NEW e \in Entries, StepFor(e), ResourceInv(e), PlaceInv(e)
    PROVE  PlaceInv(e)'
<1> USE DEF TypeOK, EntryTypeOK, BackupEntries, Shoots, EControllers, ResourceInv, PlaceInv,
            AfterProcessingSteps, FinalSteps, EActuatorSteps, IsMigrated, NoEntry, EGoto,
            EUpdated, EReturn, Idle, At, InCluster, entryVars, cloudVars
<1>1. CASE EDispatch(e)
    BY <1>1 DEF EDispatch, FirstStep, Branch
<1>2. CASE EEnsureFinalizer(e)
  <2>1. CASE be[e].finalizer \/ (be[e].exists /\ ectl[e].fresh)
    <3> HIDE DEF TypeOK, PlaceInv, ResourceInv
    <3>1. /\ be'[e].exists = be[e].exists /\ be'[e].deleting = be[e].deleting
          /\ be'[e].ann = be[e].ann /\ be'[e].migrates = be[e].migrates
          /\ be'[e].state = be[e].state /\ be'[e].finalizer
          /\ ectl[e].pc = "ensureFinalizer"
          /\ ectl'[e].pc = "processing" /\ ectl'[e].job = ectl[e].job
        BY <1>2, <2>1, FinalizerEffect
    <3> QED BY <3>1 DEF PlaceInv
  <2>2. CASE ~be[e].finalizer /\ ~(be[e].exists /\ ectl[e].fresh)
      BY <1>2, <2>2 DEF EEnsureFinalizer
  <2> QED BY <2>1, <2>2
<1>3. CASE EMarkProcessing(e)
  <2>1. CASE be[e].exists
      BY SMTT(60), <1>3, <2>1 DEF EMarkProcessing, AfterProcessing
  <2>2. CASE ~be[e].exists
      BY <1>3, <2>2 DEF EMarkProcessing, AfterProcessing
  <2> QED BY <2>1, <2>2
<1>4. CASE HoldEntrySecret(e)
  <2>1. CASE entrySecret[e] = "gone"
      BY <1>4, <2>1 DEF HoldEntrySecret, Held
  <2>2. CASE entrySecret[e] # "gone"
      BY <1>4, <2>2 DEF HoldEntrySecret, Held
  <2> QED BY <2>1, <2>2
<1>5. CASE GetEntrySecret(e)
    BY <1>5 DEF GetEntrySecret
<1>6. CASE EMarkSucceeded(e)
    BY <1>6 DEF EMarkSucceeded, AfterSuccess
<1>7. CASE EReportError(e)
    BY <1>7 DEF EReportError
<1>8. CASE ReleaseEntrySecret(e)
    BY <1>8 DEF ReleaseEntrySecret, Released
<1>9. CASE RemoveEntryFinalizer(e)
    BY <1>9 DEF RemoveEntryFinalizer
<1>10. CASE ERemoveAnnotation(e)
  <2>1. CASE be[e].exists
      BY <1>10, <2>1 DEF ERemoveAnnotation
  <2>2. CASE ~be[e].exists
      BY <1>10, <2>2 DEF ERemoveAnnotation
  <2> QED BY <2>1, <2>2
<1>11. CASE CheckNamespace(e)
  <2>1. CASE shoot[e].namespace
      BY <1>11, <2>1 DEF CheckNamespace
  <2>2. CASE ~shoot[e].namespace
      BY <1>11, <2>2 DEF CheckNamespace
  <2> QED BY <2>1, <2>2
<1>12. CASE DeployEtcdBackupSecret(e)
    BY <1>12 DEF DeployEtcdBackupSecret
<1>13. CASE ListBlobs(e)
  <2>1. CASE account /\ container
      BY <1>13, <2>1 DEF ListBlobs, WithPrefix
  <2>2. CASE ~(account /\ container)
      BY <1>13, <2>2 DEF ListBlobs, WithPrefix
  <2> QED BY <2>1, <2>2
<1>14. CASE DeleteBlob(e)
  <2>1. CASE account /\ container
      BY <1>14, <2>1 DEF DeleteBlob
  <2>2. CASE ~(account /\ container)
      BY <1>14, <2>2 DEF DeleteBlob
  <2> QED BY <2>1, <2>2
<1>15. CASE BlobsDeleted(e)
    BY <1>15 DEF BlobsDeleted
<1>16. CASE ECallFails(e)
    BY <1>16 DEF ECallFails
<1>17. CASE CreateEntry(e)
    BY <1>17 DEF CreateEntry, NoEntry
<1>18. CASE ERequestReconcile(e)
    BY <1>18 DEF ERequestReconcile, Writes
<1>19. CASE StopShoot(e)
    BY <1>19 DEF StopShoot, NoShoot
<1>20. CASE ERequestMigrate(e)
    BY <1>20 DEF ERequestMigrate, Writes
<1>21. CASE ERequestDelete(e)
    BY <1>21 DEF ERequestDelete, Writes
<1>22. CASE DropEntrySecret(e)
    BY <1>22 DEF DropEntrySecret, Unwanted
<1>23. CASE ShootFails(e)
    BY <1>23 DEF ShootFails
<1>24. CASE RetryShoot(e)
    BY <1>24 DEF RetryShoot
<1>25. CASE WriteBackup(e)
    BY <1>25 DEF WriteBackup
<1> QED BY <1>1, <1>2, <1>3, <1>4, <1>5, <1>6, <1>7, <1>8, <1>9, <1>10, <1>11, <1>12,
           <1>13, <1>14, <1>15, <1>16, <1>17, <1>18, <1>19, <1>20, <1>21, <1>22, <1>23,
           <1>24, <1>25
       DEF StepFor, OwnStep, EController, EActuator, Gardenlet

\* Steps for an entry keep SecretInv.
LEMMA SecretStep ==
    ASSUME TypeOK, NEW e \in Entries, StepFor(e), EntryInv(e)
    PROVE  SecretInv(e)'
<1> USE DEF TypeOK, EntryTypeOK, BackupEntries, Shoots, EControllers, EntryInv, ResourceInv,
            PlaceInv, SecretInv, DataInv, HeldSteps, AfterProcessingSteps, FinalSteps,
            EActuatorSteps, IsMigrated, Status, NoEntry, EGoto, EUpdated, EReturn, Idle, At,
            InCluster, entryVars, cloudVars
<1>1. CASE EDispatch(e)
    BY <1>1 DEF EDispatch, FirstStep, Branch
<1>2. CASE EEnsureFinalizer(e)
  <2>1. CASE be[e].finalizer
      BY <1>2, <2>1 DEF EEnsureFinalizer
  <2>2. CASE ~be[e].finalizer /\ be[e].exists /\ ectl[e].fresh
      BY <1>2, <2>2 DEF EEnsureFinalizer
  <2>3. CASE ~be[e].finalizer /\ ~(be[e].exists /\ ectl[e].fresh)
      BY <1>2, <2>3 DEF EEnsureFinalizer
  <2> QED BY <2>1, <2>2, <2>3
<1>3. CASE EMarkProcessing(e)
  <2>1. CASE be[e].exists
      BY SMTT(60), <1>3, <2>1 DEF EMarkProcessing, AfterProcessing
  <2>2. CASE ~be[e].exists
      BY <1>3, <2>2 DEF EMarkProcessing, AfterProcessing
  <2> QED BY <2>1, <2>2
<1>4. CASE HoldEntrySecret(e)
  <2>1. CASE entrySecret[e] = "gone"
      BY <1>4, <2>1 DEF HoldEntrySecret, Held
  <2>2. CASE entrySecret[e] # "gone"
    <3>1. /\ entrySecret'[e] \in {"held", "going"}
          /\ entrySecret[e] \in {"free", "held"} => entrySecret'[e] = "held"
          /\ UNCHANGED <<be, shoot, blobs>> /\ ectl[e].pc = "holdSecret"
        BY <1>4, <2>2 DEF HoldEntrySecret, Held, SecretStates
    <3>2. ectl'[e].pc = "checkNamespace" /\ ectl'[e].job = ectl[e].job
        BY <1>4, <2>2 DEF HoldEntrySecret
    <3>3. SecretInv(e) /\ be[e].finalizer
        BY <1>4 DEF HoldEntrySecret
    <3> HIDE DEF TypeOK, EntryInv, ResourceInv, PlaceInv, DataInv
    <3>4. Status(e)' = Status(e) /\ IsMigrated(e)' = IsMigrated(e) /\ be'[e] = be[e]
          /\ shoot'[e] = shoot[e] /\ blobs'[e] = blobs[e]
        BY <3>1
    <3> HIDE DEF Status, IsMigrated
    <3>5. HeldSteps(ectl[e])' => entrySecret'[e] \in {"held", "going"}
        BY <3>1
    <3>6. be'[e].ann = "restore" => entrySecret'[e] \in {"free", "held"}
        BY <3>1, <3>3, <3>4
    <3> HIDE DEF HeldSteps
    <3> QED BY <3>1, <3>3, <3>4, <3>5, <3>6
  <2> QED BY <2>1, <2>2
<1>5. CASE GetEntrySecret(e)
    BY <1>5 DEF GetEntrySecret
<1>6. CASE EMarkSucceeded(e)
    BY <1>6 DEF EMarkSucceeded, AfterSuccess
<1>7. CASE EReportError(e)
    BY <1>7 DEF EReportError
<1>8. CASE ReleaseEntrySecret(e)
    BY <1>8 DEF ReleaseEntrySecret, Released
<1>9. CASE RemoveEntryFinalizer(e)
    BY <1>9 DEF RemoveEntryFinalizer
<1>10. CASE ERemoveAnnotation(e)
  <2>1. CASE be[e].exists
      BY <1>10, <2>1 DEF ERemoveAnnotation
  <2>2. CASE ~be[e].exists
      BY <1>10, <2>2 DEF ERemoveAnnotation
  <2> QED BY <2>1, <2>2
<1>11. CASE CheckNamespace(e)
  <2>1. CASE shoot[e].namespace
      BY <1>11, <2>1 DEF CheckNamespace
  <2>2. CASE ~shoot[e].namespace
      BY <1>11, <2>2 DEF CheckNamespace
  <2> QED BY <2>1, <2>2
<1>12. CASE DeployEtcdBackupSecret(e)
    BY <1>12 DEF DeployEtcdBackupSecret
<1>13. CASE ListBlobs(e)
  <2>1. CASE account /\ container
      BY <1>13, <2>1 DEF ListBlobs, WithPrefix
  <2>2. CASE ~(account /\ container)
      BY <1>13, <2>2 DEF ListBlobs, WithPrefix
  <2> QED BY <2>1, <2>2
<1>14. CASE DeleteBlob(e)
  <2>0. EntryInv(e) /\ ectl[e].pc = "deleteBlobs"
      BY <1>14 DEF DeleteBlob
  <2>1. ectl[e].listed \subseteq {e} \X Backups /\ \A b \in blobs[e] : <<e, b>> \in ectl[e].listed
      BY <2>0
  <2> HIDE DEF TypeOK, EntryInv, DataInv
  <2>2. /\ ectl'[e].pc \in {"deleteBlobs", "error"} /\ UNCHANGED <<be, entrySecret, shoot>>
        /\ UNCHANGED blobs \/ \E b \in Backups : blobs' = [blobs EXCEPT ![e] = @ \ {b}]
      BY <1>14, <2>1, DeleteEffect
  <2>3. blobs' [e] \subseteq blobs[e]
      BY <2>2 DEF TypeOK, CloudTypeOK
  <2> QED BY <2>0, <2>2, <2>3 DEF EntryInv
<1>15. CASE BlobsDeleted(e)
    BY <1>15 DEF BlobsDeleted
<1>16. CASE ECallFails(e)
    BY <1>16 DEF ECallFails
<1>17. CASE CreateEntry(e)
    BY <1>17 DEF CreateEntry, NoEntry
<1>18. CASE ERequestReconcile(e)
    BY <1>18 DEF ERequestReconcile, Writes
<1>19. CASE StopShoot(e)
    BY <1>19 DEF StopShoot, NoShoot
<1>20. CASE ERequestMigrate(e)
    BY <1>20 DEF ERequestMigrate, Writes
<1>21. CASE ERequestDelete(e)
    BY <1>21 DEF ERequestDelete, Writes
<1>22. CASE DropEntrySecret(e)
    BY <1>22 DEF DropEntrySecret, Unwanted
<1>23. CASE ShootFails(e)
    BY <1>23 DEF ShootFails
<1>24. CASE RetryShoot(e)
    BY <1>24 DEF RetryShoot
<1>25. CASE WriteBackup(e)
    BY <1>25 DEF WriteBackup
<1> QED BY <1>1, <1>2, <1>3, <1>4, <1>5, <1>6, <1>7, <1>8, <1>9, <1>10, <1>11, <1>12,
           <1>13, <1>14, <1>15, <1>16, <1>17, <1>18, <1>19, <1>20, <1>21, <1>22, <1>23,
           <1>24, <1>25
       DEF StepFor, OwnStep, EController, EActuator, Gardenlet

\* Steps for an entry keep DataInv.
LEMMA DataStep ==
    ASSUME TypeOK, NEW e \in Entries, StepFor(e), EntryInv(e)
    PROVE  DataInv(e)'
<1> USE DEF TypeOK, EntryTypeOK, BackupEntries, Shoots, EControllers, EntryInv, ResourceInv,
            PlaceInv, SecretInv, DataInv, AfterProcessingSteps, FinalSteps, EActuatorSteps,
            IsMigrated, Status, NoEntry, EGoto, EUpdated, EReturn, Idle, At, InCluster,
            entryVars, cloudVars
<1>1. CASE EDispatch(e)
    BY <1>1 DEF EDispatch, FirstStep, Branch
<1>2. CASE EEnsureFinalizer(e)
  <2>1. CASE be[e].finalizer
      BY <1>2, <2>1 DEF EEnsureFinalizer
  <2>2. CASE ~be[e].finalizer /\ be[e].exists /\ ectl[e].fresh
      BY <1>2, <2>2 DEF EEnsureFinalizer
  <2>3. CASE ~be[e].finalizer /\ ~(be[e].exists /\ ectl[e].fresh)
      BY <1>2, <2>3 DEF EEnsureFinalizer
  <2> QED BY <2>1, <2>2, <2>3
<1>3. CASE EMarkProcessing(e)
  <2>1. CASE be[e].exists
      BY SMTT(60), <1>3, <2>1 DEF EMarkProcessing, AfterProcessing
  <2>2. CASE ~be[e].exists
      BY <1>3, <2>2 DEF EMarkProcessing, AfterProcessing
  <2> QED BY <2>1, <2>2
<1>4. CASE HoldEntrySecret(e)
  <2>1. CASE entrySecret[e] = "gone"
      BY <1>4, <2>1 DEF HoldEntrySecret, Held
  <2>2. CASE entrySecret[e] # "gone"
      BY <1>4, <2>2 DEF HoldEntrySecret, Held
  <2> QED BY <2>1, <2>2
<1>5. CASE GetEntrySecret(e)
    BY <1>5 DEF GetEntrySecret
<1>6. CASE EMarkSucceeded(e)
    BY <1>6 DEF EMarkSucceeded, AfterSuccess
<1>7. CASE EReportError(e)
    BY <1>7 DEF EReportError
<1>8. CASE ReleaseEntrySecret(e)
    BY <1>8 DEF ReleaseEntrySecret, Released
<1>9. CASE RemoveEntryFinalizer(e)
    BY <1>9 DEF RemoveEntryFinalizer
<1>10. CASE ERemoveAnnotation(e)
  <2>1. CASE be[e].exists
      BY <1>10, <2>1 DEF ERemoveAnnotation
  <2>2. CASE ~be[e].exists
      BY <1>10, <2>2 DEF ERemoveAnnotation
  <2> QED BY <2>1, <2>2
<1>11. CASE CheckNamespace(e)
  <2>1. CASE shoot[e].namespace
      BY <1>11, <2>1 DEF CheckNamespace
  <2>2. CASE ~shoot[e].namespace
      BY <1>11, <2>2 DEF CheckNamespace
  <2> QED BY <2>1, <2>2
<1>12. CASE DeployEtcdBackupSecret(e)
    BY <1>12 DEF DeployEtcdBackupSecret
<1>13. CASE ListBlobs(e)
  <2>0. DataInv(e) /\ ectl[e].job = "delete" /\ be[e].deleting /\ be[e].exists
      BY <1>13 DEF ListBlobs
  <2> HIDE DEF TypeOK, EntryInv, DataInv
  <2>1. /\ ectl'[e].pc \in {"deleteBlobs", "error"} /\ UNCHANGED be
        /\ ectl'[e].listed \subseteq {e} \X Backups
        /\ \A b \in blobs'[e] : <<e, b>> \in ectl'[e].listed
      BY <1>13, ListEffect
  <2>2. Status(e)' \notin {"none", "gone"}
      BY <2>0, <2>1
  <2> QED BY <2>1, <2>2 DEF DataInv
<1>14. CASE DeleteBlob(e)
  <2>0. DataInv(e) /\ ectl[e].pc = "deleteBlobs" /\ ectl[e].job = "delete" /\ be[e].deleting /\ be[e].exists
      BY <1>14 DEF DeleteBlob
  <2>1. ectl[e].listed \subseteq {e} \X Backups /\ \A b \in blobs[e] : <<e, b>> \in ectl[e].listed
      BY <2>0
  <2> HIDE DEF TypeOK, EntryInv, DataInv
  <2>2. /\ ectl'[e].pc \in {"deleteBlobs", "error"} /\ UNCHANGED be /\ ectl'[e].job = "delete"
        /\ ectl'[e].listed \subseteq {e} \X Backups
        /\ \A b \in blobs'[e] : <<e, b>> \in ectl'[e].listed
      BY <1>14, <2>0, <2>1, DeleteEffect
  <2>3. Status(e)' \notin {"none", "gone"}
      BY <2>0, <2>2
  <2> QED BY <2>2, <2>3 DEF DataInv
<1>15. CASE BlobsDeleted(e)
    BY <1>15 DEF BlobsDeleted
<1>16. CASE ECallFails(e)
    BY <1>16 DEF ECallFails
<1>17. CASE CreateEntry(e)
    BY <1>17 DEF CreateEntry, NoEntry
<1>18. CASE ERequestReconcile(e)
    BY <1>18 DEF ERequestReconcile, Writes
<1>19. CASE StopShoot(e)
    BY <1>19 DEF StopShoot, NoShoot
<1>20. CASE ERequestMigrate(e)
    BY <1>20 DEF ERequestMigrate, Writes
<1>21. CASE ERequestDelete(e)
    BY <1>21 DEF ERequestDelete, Writes
<1>22. CASE DropEntrySecret(e)
    BY <1>22 DEF DropEntrySecret, Unwanted
<1>23. CASE ShootFails(e)
    BY <1>23 DEF ShootFails
<1>24. CASE RetryShoot(e)
    BY <1>24 DEF RetryShoot
<1>25. CASE WriteBackup(e)
    BY <1>25 DEF WriteBackup
<1> QED BY <1>1, <1>2, <1>3, <1>4, <1>5, <1>6, <1>7, <1>8, <1>9, <1>10, <1>11, <1>12,
           <1>13, <1>14, <1>15, <1>16, <1>17, <1>18, <1>19, <1>20, <1>21, <1>22, <1>23,
           <1>24, <1>25
       DEF StepFor, OwnStep, EController, EActuator, Gardenlet

\* Nothing of an entry changes.
Same(f) == /\ be'[f] = be[f] /\ entrySecret'[f] = entrySecret[f] /\ shoot'[f] = shoot[f]
           /\ ectl'[f] = ectl[f] /\ blobs'[f] = blobs[f]

\* A step for one entry leaves the others alone: a deletion only deletes what
\* it has listed for its own entry.
LEMMA OthersAreLeftAlone ==
    ASSUME TypeOK, NEW e \in Entries, StepFor(e), EntryInv(e), NEW f \in Entries, f # e
    PROVE  Same(f)
<1> USE DEF TypeOK, CloudTypeOK, EntryTypeOK, EGoto, EUpdated, EReturn, InCluster, entryVars,
            cloudVars, Writes, Same
<1>1. CASE DeleteBlob(e)
  <2>1. ectl[e].listed \subseteq {e} \X Backups /\ \A b \in blobs[e] : <<e, b>> \in ectl[e].listed
      BY <1>1 DEF DeleteBlob, EntryInv, DataInv
  <2>2. \/ UNCHANGED blobs
        \/ \E b \in Backups : blobs' = [blobs EXCEPT ![e] = @ \ {b}]
      BY <1>1, <2>1, DeleteEffect
  <2>3. ectl'[f] = ectl[f]
      BY <1>1 DEF DeleteBlob
  <2> QED BY <1>1, <2>2, <2>3 DEF DeleteBlob
<1>2. CASE EDispatch(e) \/ EEnsureFinalizer(e) \/ EMarkProcessing(e)
    BY <1>2 DEF EDispatch, EEnsureFinalizer, EMarkProcessing
<1>3. CASE HoldEntrySecret(e) \/ GetEntrySecret(e) \/ EMarkSucceeded(e) \/ EReportError(e)
    BY <1>3 DEF HoldEntrySecret, GetEntrySecret, EMarkSucceeded, EReportError
<1>4. CASE ReleaseEntrySecret(e) \/ RemoveEntryFinalizer(e) \/ ERemoveAnnotation(e)
    BY <1>4 DEF ReleaseEntrySecret, RemoveEntryFinalizer, ERemoveAnnotation
<1>5. CASE CheckNamespace(e) \/ DeployEtcdBackupSecret(e) \/ ListBlobs(e) \/ BlobsDeleted(e)
    BY <1>5 DEF CheckNamespace, DeployEtcdBackupSecret, ListBlobs, BlobsDeleted
<1>6. CASE ECallFails(e) \/ CreateEntry(e) \/ ERequestReconcile(e) \/ StopShoot(e)
    BY <1>6 DEF ECallFails, CreateEntry, ERequestReconcile, StopShoot
<1>7. CASE ERequestMigrate(e) \/ ERequestDelete(e) \/ DropEntrySecret(e)
    BY <1>7 DEF ERequestMigrate, ERequestDelete, DropEntrySecret
<1>8. CASE ShootFails(e) \/ RetryShoot(e) \/ WriteBackup(e)
    BY <1>8 DEF ShootFails, RetryShoot, WriteBackup
<1> QED BY <1>1, <1>2, <1>3, <1>4, <1>5, <1>6, <1>7, <1>8
       DEF StepFor, OwnStep, EController, EActuator, Gardenlet

\* An entry that is left alone keeps its invariant and its status.
LEMMA SameKeeps ==
    ASSUME NEW f \in Entries, Same(f), EntryInv(f)
    PROVE  EntryInv(f)' /\ Status(f)' = Status(f)
<1>1. Status(f)' = Status(f) /\ IsMigrated(f)' = IsMigrated(f)
    BY DEF Same, Status, IsMigrated
<1>2. HeldSteps(ectl[f])' <=> HeldSteps(ectl[f])
    BY DEF Same, HeldSteps
<1>3. ResourceInv(f)'
    BY <1>1 DEF Same, EntryInv, ResourceInv
<1>4. PlaceInv(f)'
    BY <1>1 DEF Same, EntryInv, PlaceInv
<1>5. SecretInv(f)'
    BY <1>1, <1>2 DEF Same, EntryInv, SecretInv
<1>6. DataInv(f)'
    BY <1>1 DEF Same, EntryInv, DataInv
<1> QED BY <1>1, <1>3, <1>4, <1>5, <1>6 DEF EntryInv

\* A restart keeps the invariant of every entry.
LEMMA RestartKeeps ==
    ASSUME TypeOK, NEW e \in Entries, Crash, EntryInv(e)
    PROVE  EntryInv(e)'
<1>1. /\ be' = be /\ entrySecret' = entrySecret /\ shoot' = shoot /\ blobs' = blobs
      /\ ectl'[e].pc = "idle" /\ ectl'[e].job = "reconcile"
    BY DEF Crash, ERestarted, Idle, At, entryVars, cloudVars
<1>2. Status(e)' = Status(e) /\ IsMigrated(e)' = IsMigrated(e)
    BY <1>1 DEF Status, IsMigrated
<1>3. ResourceInv(e)'
    BY <1>1, <1>2 DEF EntryInv, ResourceInv
<1>4. PlaceInv(e)'
    BY <1>1 DEF PlaceInv, AfterProcessingSteps, FinalSteps, EActuatorSteps
<1>5. SecretInv(e)'
    BY <1>1, <1>2 DEF EntryInv, SecretInv, HeldSteps
<1>6. DataInv(e)'
    BY <1>1, <1>2 DEF EntryInv, DataInv
<1> QED BY <1>3, <1>4, <1>5, <1>6 DEF EntryInv

----------------------------------------------------------------------------
\* What a step for an entry does to its life and to its backups.
LEMMA EntryStory ==
    ASSUME TypeOK, NEW e \in Entries, OwnStep(e), EntryInv(e)
    PROVE  \/ Status(e)' = Status(e) /\ blobs'[e] = blobs[e]
           \/ /\ Status(e) = "live" /\ Status(e)' = "live"
              /\ \E b \in Backups : blobs'[e] = blobs[e] \cup {b}
           \/ /\ Status(e) = "dropping" /\ Status(e)' = "dropping"
              /\ \E b \in blobs[e] : blobs'[e] = blobs[e] \ {b}
           \/ /\ Status(e) = "live" /\ Status(e)' \in {"dropping", "moved"}
              /\ blobs'[e] = blobs[e]
           \/ /\ Status(e) \in {"live", "dropping"} /\ Status(e)' = "gone"
              /\ blobs[e] = {} /\ blobs'[e] = {}
<1> USE DEF TypeOK, CloudTypeOK, EntryTypeOK, BackupEntries, EControllers, Status, IsMigrated,
            InCluster, entryVars, cloudVars, Writes
<1>1. CASE EDispatch(e)
    BY <1>1 DEF EDispatch
<1>2. CASE EEnsureFinalizer(e)
  <2>1. CASE be[e].finalizer \/ (be[e].exists /\ ectl[e].fresh)
    <3>1. /\ be'[e].exists = be[e].exists /\ be'[e].deleting = be[e].deleting
          /\ be'[e].state = be[e].state /\ be'[e].migrates = be[e].migrates /\ blobs' = blobs
        BY <1>2, <2>1, FinalizerEffect
    <3> QED BY <3>1
  <2>2. CASE ~be[e].finalizer /\ ~(be[e].exists /\ ectl[e].fresh)
      BY <1>2, <2>2 DEF EEnsureFinalizer
  <2> QED BY <2>1, <2>2
<1>3. CASE EMarkProcessing(e)
  <2>1. ~IsMigrated(e)
      BY <1>3 DEF EMarkProcessing, EntryInv, PlaceInv
  <2>2. CASE be[e].exists
    <3>1. /\ be' = [be EXCEPT ![e].state = "processing", ![e].migrates = ectl[e].job = "migrate"]
          /\ blobs' = blobs
        BY <1>3, <2>2 DEF EMarkProcessing
    <3>2. be'[e] = [be[e] EXCEPT !.state = "processing", !.migrates = ectl[e].job = "migrate"]
        BY <3>1
    <3>3. /\ be'[e].exists = be[e].exists /\ be'[e].deleting = be[e].deleting
          /\ be'[e].state = "processing"
        BY <3>2
    <3> QED BY <2>1, <3>1, <3>3
  <2>3. CASE ~be[e].exists
      BY <1>3, <2>3 DEF EMarkProcessing
  <2> QED BY <2>2, <2>3
<1>4. CASE EMarkSucceeded(e)
  <2>1. /\ ~IsMigrated(e) /\ be[e].migrates = (ectl[e].job = "migrate")
        /\ ectl[e].job = "migrate" => be[e].exists /\ ~be[e].deleting
      BY <1>4 DEF EMarkSucceeded, EntryInv, PlaceInv, AfterProcessingSteps
  <2>2. /\ blobs' = blobs /\ be'[e].exists = be[e].exists /\ be'[e].deleting = be[e].deleting
        /\ be'[e].state = "succeeded" /\ be'[e].migrates = be[e].migrates
      BY <1>4 DEF EMarkSucceeded
  <2> QED BY <2>1, <2>2
<1>5. CASE EReportError(e)
  <2>1. ~IsMigrated(e)
      BY <1>5 DEF EReportError, EntryInv, PlaceInv, AfterProcessingSteps
  <2>2. /\ blobs' = blobs /\ be'[e].exists = be[e].exists /\ be'[e].deleting = be[e].deleting
        /\ be'[e].state = "error"
      BY <1>5 DEF EReportError
  <2> QED BY <2>1, <2>2
<1>6. CASE RemoveEntryFinalizer(e)
  <2>1. /\ blobs' = blobs /\ be'[e].deleting = be[e].deleting
        /\ be'[e].state = be[e].state /\ be'[e].migrates = be[e].migrates
        /\ be'[e].exists = be[e].exists \/ (be[e].exists /\ be'[e].exists = ~be[e].deleting)
    <3>1. CASE be[e].exists /\ (ectl[e].fresh \/ ectl[e].job = "migrate")
      <4>1. /\ be' = [be EXCEPT ![e].finalizer = FALSE, ![e].exists = ~be[e].deleting]
            /\ blobs' = blobs
          BY <1>6, <3>1 DEF RemoveEntryFinalizer
      <4>2. be'[e] = [be[e] EXCEPT !.finalizer = FALSE, !.exists = ~be[e].deleting]
          BY <4>1
      <4> QED BY <3>1, <4>1, <4>2
    <3>2. CASE ~(be[e].exists /\ (ectl[e].fresh \/ ectl[e].job = "migrate"))
        BY <1>6, <3>2 DEF RemoveEntryFinalizer
    <3> QED BY <3>1, <3>2
  <2>2. ectl[e].job = "migrate" => IsMigrated(e)
      BY <1>6 DEF RemoveEntryFinalizer, EntryInv, PlaceInv, FinalSteps
  <2>3. ectl[e].job = "delete" => blobs[e] = {}
      BY <1>6 DEF RemoveEntryFinalizer, EntryInv, DataInv, FinalSteps
  <2>4. ectl[e].job \in {"delete", "migrate"}
      BY <1>6 DEF RemoveEntryFinalizer, EntryInv, PlaceInv
  <2> QED BY <2>1, <2>2, <2>3, <2>4
<1>7. CASE ERemoveAnnotation(e)
  <2>1. CASE be[e].exists
    <3>1. be' = [be EXCEPT ![e].ann = "none"] /\ blobs' = blobs
        BY <1>7, <2>1 DEF ERemoveAnnotation
    <3> QED BY <3>1
  <2>2. CASE ~be[e].exists
      BY <1>7, <2>2 DEF ERemoveAnnotation
  <2> QED BY <2>1, <2>2
<1>8. CASE DeleteBlob(e)
  <2>1. ectl[e].listed \subseteq {e} \X Backups /\ \A b \in blobs[e] : <<e, b>> \in ectl[e].listed
      BY <1>8 DEF DeleteBlob, EntryInv, DataInv
  <2>2. Status(e) = "dropping" /\ be' = be
      BY <1>8 DEF DeleteBlob, EntryInv, PlaceInv
  <2>3. \/ UNCHANGED blobs
        \/ \E b \in Backups : blobs' = [blobs EXCEPT ![e] = @ \ {b}]
      BY <1>8, <2>1, DeleteEffect
  <2>4. \/ blobs'[e] = blobs[e]
        \/ \E b \in blobs[e] : blobs'[e] = blobs[e] \ {b}
    <3>1. CASE UNCHANGED blobs
        BY <3>1
    <3>2. ASSUME NEW b \in Backups, blobs' = [blobs EXCEPT ![e] = @ \ {b}]
          PROVE  \/ blobs'[e] = blobs[e]
                 \/ \E c \in blobs[e] : blobs'[e] = blobs[e] \ {c}
      <4>1. blobs'[e] = blobs[e] \ {b}
          BY <3>2
      <4>2. CASE b \in blobs[e]
          BY <4>1, <4>2
      <4>3. CASE b \notin blobs[e]
          BY <4>1, <4>3
      <4> QED BY <4>2, <4>3
    <3> QED BY <2>3, <3>1, <3>2
  <2> QED BY <2>2, <2>4
<1>9. CASE ERequestReconcile(e) \/ ERequestMigrate(e) \/ RetryShoot(e)
  <2>1. blobs' = blobs /\ \E a : be' = [be EXCEPT ![e].ann = a]
      BY <1>9 DEF ERequestReconcile, ERequestMigrate, RetryShoot
  <2> QED BY <2>1
<1>10. CASE ERequestDelete(e)
  <2>1. /\ blobs' = blobs /\ be'[e].deleting /\ be'[e].exists = be[e].finalizer
        /\ be'[e].state = be[e].state /\ be'[e].migrates = be[e].migrates
      BY <1>10 DEF ERequestDelete
  <2>2. be[e].exists /\ ~be[e].deleting /\ (IsMigrated(e) \/ be[e].ann = "none")
      BY <1>10 DEF ERequestDelete
  <2>3. blobs[e] # {} /\ ~IsMigrated(e) => be[e].finalizer
      BY <2>2 DEF EntryInv, SecretInv
  <2> QED BY <2>1, <2>2, <2>3
<1>11. CASE WriteBackup(e)
  <2>1. be' = be /\ \E b \in Backups : blobs'[e] = blobs[e] \cup {b}
      BY <1>11 DEF WriteBackup
  <2>2. be[e].exists /\ ~be[e].deleting /\ ~be[e].migrates
      BY <1>11 DEF WriteBackup, EntryInv, ResourceInv
  <2> QED BY <2>1, <2>2
<1>12. CASE HoldEntrySecret(e) \/ GetEntrySecret(e) \/ ReleaseEntrySecret(e) \/
            CheckNamespace(e) \/ DeployEtcdBackupSecret(e) \/ ListBlobs(e) \/ BlobsDeleted(e)
    BY <1>12 DEF HoldEntrySecret, GetEntrySecret, ReleaseEntrySecret, CheckNamespace,
       DeployEtcdBackupSecret, ListBlobs, BlobsDeleted
<1>13. CASE ECallFails(e) \/ StopShoot(e) \/ DropEntrySecret(e) \/ ShootFails(e)
    BY <1>13 DEF ECallFails, StopShoot, DropEntrySecret, ShootFails
<1> QED BY <1>1, <1>2, <1>3, <1>4, <1>5, <1>6, <1>7, <1>8, <1>9, <1>10, <1>11, <1>12, <1>13
       DEF OwnStep, EController, EActuator, Gardenlet

\* Steps beside the entries: of the bucket's controller, of Azure, and of the
\* bucket's environment.
StepOfBucket ==
    /\ UNCHANGED entrySide
    /\ \/ BController \/ BCallFails \/ BRequestReconcile \/ DropBucketSecret
       \/ (\A e \in Entries : Status(e) \in {"none", "gone"}) /\ BRequestDelete
       \/ GroupIsDeleted /\ UNCHANGED bucketSide

\* The container and its account are deleted when it holds no backups.
LEMMA BackupsOutliveBucketSteps ==
    ASSUME TypeOK, StoreInv, StepOfBucket
    PROVE  blobs' = blobs
<1>1. ASSUME bb.deleting PROVE blobs = NoBlobs
  <2>1. \A e \in Entries : blobs[e] = {}
      BY <1>1 DEF StoreInv, BucketInv, BucketPart, EntryInv, DataInv
  <2> QED BY <2>1 DEF NoBlobs, TypeOK, CloudTypeOK
<1>2. CASE DeleteContainerIfExists
  <2>1. bb.deleting
      BY <1>2 DEF DeleteContainerIfExists, BCall, StoreInv, BucketInv, BucketPart
  <2> QED BY <1>1, <1>2, <2>1 DEF DeleteContainerIfExists
<1>3. CASE GroupIsDeleted
  <2>1. bb.deleting
      BY <1>3 DEF GroupIsDeleted, StoreInv, BucketInv, BucketPart
  <2> QED BY <1>1, <1>3, <2>1 DEF GroupIsDeleted
<1>4. CASE BDispatch \/ BEnsureFinalizer \/ BMarkProcessing \/ HoldBucketSecret \/ BMarkSucceeded
           \/ BReportError \/ ReleaseBucketSecret \/ BDeleteFinalizer
    BY <1>4 DEF BDispatch, BEnsureFinalizer, BMarkProcessing, HoldBucketSecret, BMarkSucceeded,
       BReportError, ReleaseBucketSecret, BDeleteFinalizer, ClusterCall, cloudVars
<1>5. CASE UseGeneratedSecret \/ CreateGroup \/ CreateAccount \/ StoreGeneratedSecret
           \/ StoreSecretRef \/ CreateContainerIfNotExists
           \/ DeleteResourceGroup \/ DeleteGeneratedSecret
    BY <1>5 DEF UseGeneratedSecret, CreateGroup, CreateAccount, StoreGeneratedSecret,
       StoreSecretRef, CreateContainerIfNotExists, DeleteResourceGroup, DeleteGeneratedSecret,
       ClusterCall, cloudVars
<1>6. CASE BCallFails \/ BRequestReconcile \/ DropBucketSecret \/ BRequestDelete
    BY <1>6 DEF BCallFails, BRequestReconcile, DropBucketSecret, BRequestDelete, cloudVars
<1> QED BY <1>2, <1>3, <1>4, <1>5, <1>6 DEF StepOfBucket, BController, BActuator

\* ... so they leave every entry alone.
LEMMA EntriesOutliveBucketSteps ==
    ASSUME TypeOK, StoreInv, StepOfBucket, NEW e \in Entries
    PROVE  Same(e)
    BY BackupsOutliveBucketSteps DEF StepOfBucket, entrySide, entryVars, Same

\* The bucket's own steps keep its part.
LEMMA BucketPartStep ==
    ASSUME TypeOK, BucketPart,
           BController \/ BCallFails \/ BRequestReconcile \/ DropBucketSecret
             \/ (GroupIsDeleted /\ UNCHANGED bucketSide)
    PROVE  BucketPart' /\ bb'.deleting = bb.deleting
<1> USE DEF TypeOK, BucketTypeOK, Buckets, BControllers, BucketPart, BGoto, BUpdated, BReturn,
            BCall, ClusterCall, AzureCall, cloudVars, bucketVars, BActuatorSteps
<1>1. CASE BDispatch
    BY <1>1 DEF BDispatch
<1>2. CASE BEnsureFinalizer
    BY <1>2 DEF BEnsureFinalizer
<1>3. CASE BMarkProcessing
    BY <1>3 DEF BMarkProcessing, GetAzureClient
<1>4. CASE HoldBucketSecret
    BY <1>4 DEF HoldBucketSecret, GetAzureClient
<1>5. CASE BMarkSucceeded
    BY <1>5 DEF BMarkSucceeded
<1>6. CASE BReportError
    BY <1>6 DEF BReportError
<1>7. CASE ReleaseBucketSecret
    BY <1>7 DEF ReleaseBucketSecret
<1>8. CASE BDeleteFinalizer
    BY <1>8 DEF BDeleteFinalizer
<1>9. CASE UseGeneratedSecret
    BY <1>9 DEF UseGeneratedSecret, WithClient
<1>10. CASE CreateGroup
    BY <1>10 DEF CreateGroup, GroupAccepts
<1>11. CASE CreateAccount
    BY <1>11 DEF CreateAccount
<1>12. CASE StoreGeneratedSecret
    BY <1>12 DEF StoreGeneratedSecret
<1>13. CASE StoreSecretRef
    BY <1>13 DEF StoreSecretRef, WithClient
<1>14. CASE CreateContainerIfNotExists
    BY <1>14 DEF CreateContainerIfNotExists
<1>15. CASE DeleteContainerIfExists
    BY <1>15 DEF DeleteContainerIfExists
<1>16. CASE DeleteResourceGroup
    BY <1>16 DEF DeleteResourceGroup
<1>17. CASE DeleteGeneratedSecret
    BY <1>17 DEF DeleteGeneratedSecret
<1>18. CASE BCallFails
    BY <1>18 DEF BCallFails
<1>19. CASE BRequestReconcile
    BY <1>19 DEF BRequestReconcile
<1>20. CASE DropBucketSecret
    BY <1>20 DEF DropBucketSecret
<1>21. CASE GroupIsDeleted /\ UNCHANGED bucketSide
    BY <1>21 DEF GroupIsDeleted, bucketSide
<1> QED BY <1>1, <1>2, <1>3, <1>4, <1>5, <1>6, <1>7, <1>8, <1>9, <1>10, <1>11, <1>12,
           <1>13, <1>14, <1>15, <1>16, <1>17, <1>18, <1>19, <1>20, <1>21
       DEF BController, BActuator

\* A step for one entry, as the bucket lets it happen.
StepOfEntry(e) == (OwnStep(e) \/ (CreateEntry(e) /\ BucketReady)) /\ UNCHANGED bucketSide

\* Only the bucket's controller and Azure touch the group and container.
LEMMA GroupIsTheBuckets ==
    ASSUME NEW e \in Entries, StepFor(e)
    PROVE  UNCHANGED <<group, container>>
<1>1. EController(e) => UNCHANGED <<group, container>>
    BY DEF EController, EActuator, EDispatch, EEnsureFinalizer, EMarkProcessing, HoldEntrySecret,
       GetEntrySecret, EMarkSucceeded, EReportError, ReleaseEntrySecret, RemoveEntryFinalizer,
       ERemoveAnnotation, CheckNamespace, DeployEtcdBackupSecret, ListBlobs, DeleteBlob,
       BlobsDeleted, InCluster, cloudVars
<1>2. ECallFails(e) \/ CreateEntry(e) \/ Gardenlet(e) \/ WriteBackup(e) => UNCHANGED <<group, container>>
    BY DEF ECallFails, CreateEntry, Gardenlet, WriteBackup, ERequestReconcile, StopShoot,
       ERequestMigrate, ERequestDelete, DropEntrySecret, ShootFails, RetryShoot, Writes, cloudVars
<1> QED BY <1>1, <1>2 DEF StepFor, OwnStep

\* Every step is one of three kinds.
LEMMA Steps ==
    ASSUME [Next]_vars
    PROVE  \/ StepOfBucket \/ Crash \/ UNCHANGED vars
           \/ \E e \in Entries : StepOfEntry(e)
<1>1. CASE BucketStep \/ CloudStep
    BY <1>1 DEF BucketStep, CloudStep, StepOfBucket
<1>2. CASE Faults
    BY <1>2 DEF Faults, StepOfBucket, StepOfEntry, OwnStep
<1>3. CASE Environment
    BY <1>3 DEF Environment, DeleteBucket, CreateEntryInBucket, StepOfBucket, StepOfEntry, OwnStep
<1>4. ASSUME NEW e \in Entries, EntryStep(e) PROVE StepOfEntry(e)
    BY <1>4 DEF EntryStep, StepOfEntry, OwnStep
<1> QED BY <1>1, <1>2, <1>3, <1>4 DEF Next

\* Initially no entry has backups here and no controller runs.
LEMMA StoreInvInit ==
    ASSUME Init
    PROVE  StoreInv
<1>1. BucketInv
    BY DEF Init, CloudInit, BucketInit, BucketInv, BucketPart
<1>2. ASSUME NEW e \in Entries PROVE EntryInv(e)
  <2>1. /\ be[e] \in {NoEntry, OldEntry} /\ entrySecret[e] = "gone" /\ shoot[e] = NoShoot
        /\ ectl[e] = Idle(FALSE) /\ blobs[e] = {}
      BY DEF Init, EntryInit, CloudInit, NoBlobs
  <2>2. Status(e) \in {"none", "gone"} /\ ~IsMigrated(e)
      BY <2>1 DEF Status, IsMigrated, NoEntry, OldEntry
  <2> QED BY <2>1, <2>2 DEF EntryInv, ResourceInv, PlaceInv, SecretInv, DataInv, HeldSteps, Idle, At,
         NoEntry, OldEntry, NoShoot, AfterProcessingSteps, FinalSteps, EActuatorSteps
<1> QED BY <1>1, <1>2 DEF StoreInv

\* Every step keeps StoreInv.
LEMMA StoreInvStep ==
    ASSUME TypeOK, StoreInv, [Next]_vars
    PROVE  StoreInv'
<1>1. CASE StepOfBucket
  <2>1. \A e \in Entries : EntryInv(e)' /\ Status(e)' = Status(e)
      BY <1>1, EntriesOutliveBucketSteps, SameKeeps DEF StoreInv
  <2>2. CASE (\A e \in Entries : Status(e) \in {"none", "gone"}) /\ BRequestDelete
    <3>1. BucketPart'
        BY <2>2 DEF BRequestDelete, cloudVars, TypeOK, BucketTypeOK, Buckets, BControllers, StoreInv,
           BucketInv, BucketPart
    <3> QED BY <2>1, <2>2, <3>1 DEF StoreInv, BucketInv, BucketPart
  <2>3. CASE BController \/ BCallFails \/ BRequestReconcile \/ DropBucketSecret
             \/ (GroupIsDeleted /\ UNCHANGED bucketSide)
    <3>1. BucketPart' /\ bb'.deleting = bb.deleting
        BY <2>3, BucketPartStep DEF StoreInv, BucketInv, BucketPart
    <3> QED BY <2>1, <3>1 DEF StoreInv, BucketInv, BucketPart
  <2> QED BY <1>1, <2>2, <2>3 DEF StepOfBucket
<1>2. CASE Crash
  <2>1. \A e \in Entries : EntryInv(e)' /\ Status(e)' = Status(e)
    <3>1. \A e \in Entries : EntryInv(e)'
        BY <1>2, RestartKeeps DEF StoreInv
    <3>2. be' = be
        BY <1>2 DEF Crash, entryVars
    <3> QED BY <3>1, <3>2 DEF Status, IsMigrated
  <2>2. bctl'.pc = "idle" /\ group' = group /\ bb' = bb
      BY <1>2 DEF Crash, BRestarted, cloudVars, bucketVars, TypeOK, BucketTypeOK, BControllers
  <2> QED BY <2>1, <2>2 DEF StoreInv, BucketInv, BucketPart
<1>3. CASE UNCHANGED vars
  <2>1. \A e \in Entries : Same(e)
      BY <1>3 DEF vars, entrySide, entryVars, cloudVars, Same
  <2>2. \A e \in Entries : EntryInv(e)' /\ Status(e)' = Status(e)
      BY <2>1, SameKeeps DEF StoreInv
  <2> QED BY <1>3, <2>2 DEF vars, bucketSide, bucketVars, cloudVars, StoreInv, BucketInv, BucketPart
<1>4. ASSUME NEW e \in Entries, StepOfEntry(e) PROVE StoreInv'
  <2>1. StepFor(e) /\ EntryInv(e)
      BY <1>4 DEF StepOfEntry, StepFor, StoreInv
  <2>2. EntryInv(e)'
      BY <2>1, ResourceStep, PlaceStep, SecretStep, DataStep DEF EntryInv
  <2>3. \A f \in Entries \ {e} : EntryInv(f)' /\ Status(f)' = Status(f)
      BY <2>1, OthersAreLeftAlone, SameKeeps DEF StoreInv
  <2>4. bb.deleting => OwnStep(e) /\ Status(e) \in {"none", "gone"}
      BY <1>4 DEF StepOfEntry, BucketReady, StoreInv, BucketInv, BucketPart
  <2>5. bb.deleting => Status(e)' = Status(e)
      BY <2>1, <2>4, EntryStory
  <2>6. group' = group /\ bb' = bb /\ bctl' = bctl
      BY <1>4, <2>1, GroupIsTheBuckets DEF StepOfEntry, bucketSide, bucketVars
  <2> QED BY <2>2, <2>3, <2>4, <2>5, <2>6 DEF StoreInv, BucketInv, BucketPart
<1> QED BY <1>1, <1>2, <1>3, <1>4, Steps

\* StoreInv holds in every instance.
LEMMA StoreInvHolds == Spec => []StoreInv
<1>1. Init => StoreInv
    BY StoreInvInit
<1>2. TypeOK /\ StoreInv /\ [Next]_vars => StoreInv'
    BY StoreInvStep
<1> QED BY <1>1, <1>2, TypeCorrect, PTL DEF Spec

----------------------------------------------------------------------------
\* The creation of an entry, with the backups it has in the bucket.
LEMMA CreateStory ==
    ASSUME TypeOK, NEW e \in Entries, CreateEntry(e)
    PROVE  Status(e) = "none" /\ Status(e)' = "live" /\ blobs'[e] \in SUBSET Backups
    BY DEF CreateEntry, NoEntry, Status, IsMigrated, TypeOK, CloudTypeOK, EntryTypeOK, BackupEntries

\* A step that changes the story of one entry is one of BackupStore.
LEMMA StoreStep ==
    ASSUME TypeOK, TypeOK', StoreInv, NEW e \in Entries, StepOfEntry(e)
    PROVE  Store!Next \/ UNCHANGED Store!storeVars
<1> DEFINE status == [x \in Entries |-> Status(x)]
<1>1. StepFor(e) /\ EntryInv(e)
    BY DEF StepOfEntry, StepFor, StoreInv
<1>2. \A f \in Entries \ {e} : Status(f)' = Status(f) /\ blobs'[f] = blobs[f]
    BY <1>1, OthersAreLeftAlone, SameKeeps DEF StoreInv, Same
<1>3. blobs \in [Entries -> SUBSET Backups] /\ blobs' \in [Entries -> SUBSET Backups]
    BY DEF TypeOK, CloudTypeOK
<1>4. status' = [status EXCEPT ![e] = Status(e)'] /\ status[e] = Status(e)
    BY <1>2
<1>5. blobs' = [blobs EXCEPT ![e] = blobs'[e]]
    BY <1>2, <1>3
<1>6. ASSUME Status(e)' = Status(e) PROVE status' = status
    BY <1>4, <1>6
<1>7. ASSUME blobs'[e] = blobs[e] PROVE blobs' = blobs
    BY <1>2, <1>3, <1>7
<1>8. CASE CreateEntry(e)
  <2>1. Store!Open(e)
      BY <1>3, <1>4, <1>5, <1>8, CreateStory DEF Store!Open, Store!Becomes
  <2> QED BY <2>1 DEF Store!Next
<1>9. CASE OwnStep(e)
  <2> USE DEF Store!Next, Store!Becomes
  <2>1. CASE Status(e)' = Status(e) /\ blobs'[e] = blobs[e]
      BY <1>6, <1>7, <2>1 DEF Store!storeVars
  <2>2. CASE /\ Status(e) = "live" /\ Status(e)' = "live"
             /\ \E b \in Backups : blobs'[e] = blobs[e] \cup {b}
      BY <1>4, <1>5, <1>6, <2>2 DEF Store!Write
  <2>3. CASE /\ Status(e) = "dropping" /\ Status(e)' = "dropping"
             /\ \E b \in blobs[e] : blobs'[e] = blobs[e] \ {b}
      BY <1>4, <1>5, <1>6, <2>3 DEF Store!Lose
  <2>4. CASE /\ Status(e) = "live" /\ Status(e)' \in {"dropping", "moved"}
             /\ blobs'[e] = blobs[e]
      BY <1>4, <1>7, <2>4 DEF Store!Drop, Store!HandOver
  <2>5. CASE /\ Status(e) \in {"live", "dropping"} /\ Status(e)' = "gone"
             /\ blobs[e] = {} /\ blobs'[e] = {}
      BY <1>4, <1>7, <2>5 DEF Store!Close
  <2> QED BY <1>1, <1>9, <2>1, <2>2, <2>3, <2>4, <2>5, EntryStory
<1> QED BY <1>8, <1>9 DEF StepOfEntry

\* The controllers implement BackupStore (all of Backup, against deletions of
\* other entries, restarts and failed calls in particular): an entry loses
\* backups only while its own deletion is wanted, and leaves none.
THEOREM ControllersKeepBackups == Spec => BackupsAreKept
<1>1. Init => Store!Init
  <2> SUFFICES ASSUME Init PROVE Store!Init
      OBVIOUS
  <2>1. \A e \in Entries : Status(e) \in {"none", "gone"}
    <3> SUFFICES ASSUME NEW e \in Entries PROVE Status(e) \in {"none", "gone"}
        OBVIOUS
    <3>1. be[e] \in {NoEntry, OldEntry}
        BY DEF Init, EntryInit
    <3> QED BY <3>1 DEF Status, IsMigrated, NoEntry, OldEntry
  <2>2. blobs = [e \in Entries |-> {}]
      BY DEF Init, CloudInit, NoBlobs
  <2> QED BY <2>1, <2>2 DEF Store!Init
<1>2. TypeOK /\ TypeOK' /\ StoreInv /\ [Next]_vars => [Store!Next]_(Store!storeVars)
  <2> SUFFICES ASSUME TypeOK, TypeOK', StoreInv, [Next]_vars
               PROVE  Store!Next \/ UNCHANGED Store!storeVars
      OBVIOUS
  <2>1. CASE StepOfBucket
    <3>1. blobs' = blobs /\ \A e \in Entries : Status(e)' = Status(e)
        BY <2>1, BackupsOutliveBucketSteps, EntriesOutliveBucketSteps, SameKeeps DEF StoreInv
    <3> QED BY <3>1 DEF Store!storeVars
  <2>2. CASE Crash \/ UNCHANGED vars
    <3>1. blobs' = blobs /\ be' = be
        BY <2>2 DEF Crash, vars, cloudVars, entrySide, entryVars
    <3>2. \A e \in Entries : Status(e)' = Status(e)
        BY <3>1 DEF Status, IsMigrated
    <3> QED BY <3>1, <3>2 DEF Store!storeVars
  <2>3. CASE \E e \in Entries : StepOfEntry(e)
      BY <2>3, StoreStep
  <2> QED BY <2>1, <2>2, <2>3, Steps
<1> QED BY <1>1, <1>2, TypeCorrect, StoreInvHolds, PTL DEF Spec, BackupsAreKept, Store!Spec

----------------------------------------------------------------------------
(* Credentials outlive what can only be deleted with them.                 *)

\* A bucket whose deletion is not wanted holds its secret before it makes
\* anything in Azure.
BucketSecretInv ==
    ~bb.deleting => /\ bucketSecret \in {"free", "held"}
                    /\ group = "present" \/ bctl.pc \in BActuatorSteps => bucketSecret = "held"

\* Steps of the bucket keep BucketSecretInv.
LEMMA BucketSecretStep ==
    ASSUME TypeOK, BucketPart, BucketSecretInv,
           BController \/ BCallFails \/ BRequestReconcile \/ DropBucketSecret \/ BRequestDelete
             \/ (GroupIsDeleted /\ UNCHANGED bucketSide)
    PROVE  BucketSecretInv'
<1> USE DEF TypeOK, BucketTypeOK, Buckets, BControllers, BucketPart, BucketSecretInv, BGoto,
            BUpdated, BReturn, BCall, ClusterCall, AzureCall, cloudVars, bucketVars, BActuatorSteps
<1>1. CASE BDispatch
    BY <1>1 DEF BDispatch
<1>2. CASE BEnsureFinalizer
    BY <1>2 DEF BEnsureFinalizer
<1>3. CASE BMarkProcessing
    BY <1>3 DEF BMarkProcessing, GetAzureClient
<1>4. CASE HoldBucketSecret
    BY <1>4 DEF HoldBucketSecret, GetAzureClient, Held
<1>5. CASE BMarkSucceeded
    BY <1>5 DEF BMarkSucceeded
<1>6. CASE BReportError
    BY <1>6 DEF BReportError
<1>7. CASE ReleaseBucketSecret
    BY <1>7 DEF ReleaseBucketSecret, Released
<1>8. CASE BDeleteFinalizer
    BY <1>8 DEF BDeleteFinalizer
<1>9. CASE UseGeneratedSecret
    BY <1>9 DEF UseGeneratedSecret, WithClient
<1>10. CASE CreateGroup
    BY <1>10 DEF CreateGroup, GroupAccepts
<1>11. CASE CreateAccount
    BY <1>11 DEF CreateAccount
<1>12. CASE StoreGeneratedSecret
    BY <1>12 DEF StoreGeneratedSecret
<1>13. CASE StoreSecretRef
    BY <1>13 DEF StoreSecretRef, WithClient
<1>14. CASE CreateContainerIfNotExists
    BY <1>14 DEF CreateContainerIfNotExists
<1>15. CASE DeleteContainerIfExists
    BY <1>15 DEF DeleteContainerIfExists
<1>16. CASE DeleteResourceGroup
    BY <1>16 DEF DeleteResourceGroup
<1>17. CASE DeleteGeneratedSecret
    BY <1>17 DEF DeleteGeneratedSecret
<1>18. CASE BCallFails
    BY <1>18 DEF BCallFails
<1>19. CASE BRequestReconcile
    BY <1>19 DEF BRequestReconcile
<1>20. CASE DropBucketSecret
    BY <1>20 DEF DropBucketSecret, Unwanted
<1>21. CASE BRequestDelete
    BY <1>21 DEF BRequestDelete
<1>22. CASE GroupIsDeleted /\ UNCHANGED bucketSide
    BY <1>22 DEF GroupIsDeleted, bucketSide
<1> QED BY <1>1, <1>2, <1>3, <1>4, <1>5, <1>6, <1>7, <1>8, <1>9, <1>10, <1>11, <1>12,
           <1>13, <1>14, <1>15, <1>16, <1>17, <1>18, <1>19, <1>20, <1>21, <1>22
       DEF BController, BActuator

\* The secret of a bucket is held while its group exists, that of an entry is
\* not gone while backups of the entry are here (the finalizers that both
\* reconcilers set on the secrets).
THEOREM CredentialsAreSafe == Spec => []CredentialsOutliveResources
<1>1. Init => BucketSecretInv
    BY DEF Init, CloudInit, BucketInit, BucketSecretInv, BActuatorSteps
<1>2. TypeOK /\ StoreInv /\ BucketSecretInv /\ [Next]_vars => BucketSecretInv'
  <2> SUFFICES ASSUME TypeOK, StoreInv, BucketSecretInv, [Next]_vars PROVE BucketSecretInv'
      OBVIOUS
  <2>1. CASE StepOfBucket
      BY <2>1, BucketSecretStep DEF StepOfBucket, StoreInv, BucketInv, BucketPart
  <2>2. CASE Crash
    <3>1. bctl'.pc = "idle" /\ UNCHANGED <<group, bb, bucketSecret>>
        BY <2>2 DEF Crash, BRestarted, cloudVars, bucketVars, TypeOK, BucketTypeOK, BControllers
    <3> QED BY <3>1 DEF BucketSecretInv, BActuatorSteps
  <2>3. CASE \/ UNCHANGED vars
             \/ \E e \in Entries : StepOfEntry(e)
    <3>1. UNCHANGED <<group, bb, bucketSecret, bctl>>
        BY <2>3, GroupIsTheBuckets
           DEF vars, cloudVars, bucketSide, bucketVars, StepOfEntry, StepFor
    <3> QED BY <3>1 DEF BucketSecretInv
  <2> QED BY <2>1, <2>2, <2>3, Steps
<1>3. TypeOK /\ StoreInv /\ BucketSecretInv => CredentialsOutliveResources
  <2> SUFFICES ASSUME TypeOK, StoreInv, BucketSecretInv PROVE CredentialsOutliveResources
      OBVIOUS
  <2>1. \A e \in Entries : blobs[e] # {} /\ Status(e) \in {"live", "dropping"} =>
                             entrySecret[e] # "gone"
      BY DEF StoreInv, EntryInv, SecretInv
  <2> QED BY <2>1 DEF BucketSecretInv, CredentialsOutliveResources
<1> QED BY <1>1, <1>2, <1>3, TypeCorrect, StoreInvHolds, PTL DEF Spec

-----------------------------------------------------------------------------
(* RemovedBucketLeavesNothing.                                             *)

\* What a deletion has removed at each place.  The container is deleted with
\* a client of the generated secret, so its reference is stored before; it is
\* this reference that makes the deletion go on to the group and the secret.
\* A bucket without a finalizer has nothing yet, or nothing left.
BucketPlaces ==
    /\ bctl.pc \in {"useSecret", "deleteContainer", "deleteGroup", "deleteSecret"} => bb.ref
    /\ bctl.pc = "createContainer" => bctl.job = "reconcile"
    /\ bctl.pc \in {"deleteContainer", "deleteGroup", "deleteSecret", "releaseSecret", "deleteFinalizer"} =>
          bctl.job = "delete"
BucketRemoved ==
    bctl.job = "delete" =>
        /\ bctl.pc \in {"deleteGroup", "deleteSecret", "success", "releaseSecret", "deleteFinalizer"} => ~container
        /\ bctl.pc \in {"deleteSecret", "success", "releaseSecret", "deleteFinalizer"} => group # "present"
        /\ bctl.pc \in {"success", "releaseSecret", "deleteFinalizer"} => ~generated
BucketGone ==
    /\ ~bb.exists => ~bb.finalizer
    /\ ~bb.finalizer => /\ bctl.pc \in {"idle", "ensureFinalizer"}
                        /\ group # "present" /\ ~container /\ ~generated

BucketGoneInv == BucketPlaces /\ BucketRemoved /\ BucketGone

\* Steps of the bucket keep BucketGoneInv.
LEMMA BucketGoneStep ==
    ASSUME TypeOK, BucketGoneInv, StepOfBucket
    PROVE  BucketGoneInv'
<1> USE DEF TypeOK, CloudTypeOK, BucketTypeOK, Buckets, BControllers, BucketGoneInv, BucketPlaces, BucketRemoved,
            BucketGone, BGoto, BUpdated, BReturn, BCall, ClusterCall, AzureCall, cloudVars, bucketVars,
            BActuatorSteps
<1>1. CASE BDispatch
    BY <1>1 DEF BDispatch
<1>2. CASE BEnsureFinalizer
    BY <1>2 DEF BEnsureFinalizer
<1>3. CASE BMarkProcessing
    BY <1>3 DEF BMarkProcessing, GetAzureClient
<1>4. CASE HoldBucketSecret
    BY <1>4 DEF HoldBucketSecret, GetAzureClient
<1>5. CASE BMarkSucceeded
    BY <1>5 DEF BMarkSucceeded
<1>6. CASE BReportError
    BY <1>6 DEF BReportError
<1>7. CASE ReleaseBucketSecret
    BY <1>7 DEF ReleaseBucketSecret
<1>8. CASE BDeleteFinalizer
    BY <1>8 DEF BDeleteFinalizer
<1>9. CASE UseGeneratedSecret
    BY <1>9 DEF UseGeneratedSecret, WithClient
<1>10. CASE CreateGroup
    BY <1>10 DEF CreateGroup, GroupAccepts
<1>11. CASE CreateAccount
    BY <1>11 DEF CreateAccount
<1>12. CASE StoreGeneratedSecret
    BY <1>12 DEF StoreGeneratedSecret
<1>13. CASE StoreSecretRef
    BY <1>13 DEF StoreSecretRef, WithClient
<1>14. CASE CreateContainerIfNotExists
    BY <1>14 DEF CreateContainerIfNotExists
<1>15. CASE DeleteContainerIfExists
    BY <1>15 DEF DeleteContainerIfExists
<1>16. CASE DeleteResourceGroup
    BY <1>16 DEF DeleteResourceGroup
<1>17. CASE DeleteGeneratedSecret
    BY <1>17 DEF DeleteGeneratedSecret
<1>18. CASE BCallFails
    BY <1>18 DEF BCallFails
<1>19. CASE BRequestReconcile
    BY <1>19 DEF BRequestReconcile
<1>20. CASE DropBucketSecret
    BY <1>20 DEF DropBucketSecret
<1>21. CASE BRequestDelete
    BY <1>21 DEF BRequestDelete
<1>22. CASE GroupIsDeleted /\ UNCHANGED bucketSide
    BY <1>22 DEF GroupIsDeleted, bucketSide
<1> QED BY <1>1, <1>2, <1>3, <1>4, <1>5, <1>6, <1>7, <1>8, <1>9, <1>10, <1>11, <1>12,
           <1>13, <1>14, <1>15, <1>16, <1>17, <1>18, <1>19, <1>20, <1>21, <1>22
       DEF StepOfBucket, BController, BActuator

\* A bucket that is gone has left no group, container or copy of the key that
\* is not being deleted: its deletion may fail anywhere and start again, and
\* it may be asked for before the bucket has been made.
THEOREM BucketsLeaveNothing == Spec => []RemovedBucketLeavesNothing
<1>1. Init => BucketGoneInv
    BY DEF Init, CloudInit, BucketInit, BucketGoneInv, BucketPlaces, BucketRemoved, BucketGone
<1>2. TypeOK /\ BucketGoneInv /\ [Next]_vars => BucketGoneInv'
  <2> SUFFICES ASSUME TypeOK, BucketGoneInv, [Next]_vars PROVE BucketGoneInv'
      OBVIOUS
  <2>1. CASE StepOfBucket
      BY <2>1, BucketGoneStep
  <2>2. CASE Crash
    <3>1. bctl'.pc = "idle" /\ UNCHANGED <<group, container, bb, generated>>
        BY <2>2 DEF Crash, BRestarted, cloudVars, bucketVars, TypeOK, BucketTypeOK, BControllers
    <3> QED BY <3>1 DEF BucketGoneInv, BucketPlaces, BucketRemoved, BucketGone
  <2>3. CASE \/ UNCHANGED vars
             \/ \E e \in Entries : StepOfEntry(e)
    <3>1. UNCHANGED <<group, container, bb, generated, bctl>>
        BY <2>3, GroupIsTheBuckets
           DEF vars, cloudVars, bucketSide, bucketVars, StepOfEntry, StepFor
    <3> QED BY <3>1 DEF BucketGoneInv, BucketPlaces, BucketRemoved, BucketGone
  <2> QED BY <2>1, <2>2, <2>3, Steps
<1>3. BucketGoneInv => RemovedBucketLeavesNothing
    BY DEF BucketGoneInv, BucketGone, RemovedBucketLeavesNothing
<1> QED BY <1>1, <1>2, <1>3, TypeCorrect, PTL DEF Spec
=============================================================================
