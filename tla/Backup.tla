------------------------------- MODULE Backup -------------------------------
(***************************************************************************)
(* One backup bucket and its entries: the two controllers of one process,  *)
(* the gardenlet that writes their resources, etcd that uploads backups,   *)
(* and Azure.                                                              *)
(***************************************************************************)
EXTENDS BackupBucket, BackupEntry

bucketSide == <<bucketVars, bctl>>
entrySide  == <<entryVars, ectl>>
vars == <<cloudVars, counters, bucketSide, entrySide>>

Init ==
    /\ CloudInit /\ BucketInit
    /\ \E s \in Scopes : EntryInit(s.entries) /\ faults = s.faults /\ requests = s.requests

\* The life of an entry on this seed.
Status(e) ==
    IF IsMigrated(e) THEN "moved"
    ELSE IF be[e].exists THEN IF be[e].deleting THEN "dropping" ELSE "live"
    ELSE IF be[e].deleting THEN "gone" ELSE "none"

----------------------------------------------------------------------------
BucketReady == bb.state = "succeeded" /\ generated /\ ~bb.deleting

\* The gardenlet creates entries in a bucket that is ready, and deletes the
\* bucket when it has no entries.
CreateEntryInBucket(e) == BucketReady /\ CreateEntry(e) /\ UNCHANGED bucketSide

DeleteBucket ==
    /\ \A e \in Entries : Status(e) \in {"none", "gone"}
    /\ BRequestDelete
    /\ UNCHANGED entrySide

\* Both controllers run in one process.
Crash ==
    /\ faults > 0
    /\ bctl.pc # "idle" \/ \E e \in Entries : ectl[e].pc # "idle"
    /\ faults' = faults - 1
    /\ BRestarted /\ ERestarted
    /\ UNCHANGED <<cloudVars, bucketVars, entryVars, requests>>

BucketStep == BController /\ UNCHANGED entrySide
EntryStep(e) == EController(e) /\ UNCHANGED bucketSide
CloudStep == GroupIsDeleted /\ UNCHANGED <<bucketSide, entrySide>>

Faults ==
    \/ BCallFails /\ UNCHANGED entrySide
    \/ \E e \in Entries : ECallFails(e) /\ UNCHANGED bucketSide
    \/ Crash

Environment ==
    \/ (BRequestReconcile \/ DropBucketSecret) /\ UNCHANGED entrySide
    \/ DeleteBucket
    \/ \E e \in Entries : CreateEntryInBucket(e)
    \/ \E e \in Entries : (Gardenlet(e) \/ WriteBackup(e)) /\ UNCHANGED bucketSide

Next ==
    \/ BucketStep \/ CloudStep \/ Faults \/ Environment
    \/ \E e \in Entries : EntryStep(e)

Spec == Init /\ [][Next]_vars

\* The work queue hands out every key that is queued, and Azure completes
\* deletions.  A failed shoot is retried in the end.
FairSpec ==
    /\ Spec
    /\ WF_vars(BucketStep) /\ WF_vars(CloudStep)
    /\ \A e \in Entries : WF_vars(EntryStep(e))

----------------------------------------------------------------------------
TypeOK == CloudTypeOK /\ BucketTypeOK /\ EntryTypeOK

\* The controllers keep what they promise to a shoot: its backups exist until
\* their own deletion is asked for or they are handed over, whatever is
\* deleted next to them, and an entry that is gone has left none behind
\* (reconciler.go of backupentry, DeleteObjectsWithPrefix).
Store == INSTANCE BackupStore WITH status <- [e \in Entries |-> Status(e)], data <- blobs

BackupsAreKept == Store!Spec

\* Credentials outlive what can only be deleted with them: the secret of a
\* bucket is held while its resource group exists, the secret of an entry is
\* not gone while the entry has backups (EnsureFinalizer on the secrets in
\* both reconcilers, and the skipped deletion in that of BackupEntry).
CredentialsOutliveResources ==
    /\ group = "present" /\ ~bb.deleting => bucketSecret = "held"
    /\ \A e \in Entries :
          blobs[e] # {} /\ Status(e) \in {"live", "dropping"} => entrySecret[e] # "gone"

\* A bucket that is gone has left nothing that is not being deleted, and no
\* copy of the storage key (deleteGenerateBackupBucketSecret).
RemovedBucketLeavesNothing ==
    ~bb.exists => group # "present" /\ ~container /\ ~generated

----------------------------------------------------------------------------
\* Every deletion of an entry ends, whatever call has failed before and
\* whichever of its two resources is removed first (delete in reconciler.go).
EntryDeletionEnds == \A e \in Entries : Status(e) = "dropping" ~> Status(e) = "gone"

\* Every deletion of a bucket ends (Delete in pkg/controller/backupbucket).
BucketDeletionEnds == bb.deleting ~> ~bb.exists
=============================================================================
