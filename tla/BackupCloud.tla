---------------------------- MODULE BackupCloud ----------------------------
(***************************************************************************)
(* What the backup controllers work on in Azure (pkg/azure/client): the    *)
(* resource group of a backup bucket, its storage account and container,   *)
(* and the blobs in it.  And the secrets they hold with a finalizer while  *)
(* they need the credentials in them.                                      *)
(***************************************************************************)
EXTENDS Naturals

CONSTANTS
    Entries,     \* names of backup entries
    Backups,     \* names of the backups of one entry
    PrefixOf,    \* pairs of entries: the first name is a prefix of the second
    Scopes       \* the bounds of an instance: the entries that are created, the
                 \* failed calls and restarts, the operations requested

ASSUME PrefixOfAssumption == PrefixOf \subseteq Entries \X Entries
ASSUME ScopesAssumption ==
    Scopes \subseteq [entries : SUBSET Entries, faults : Nat, requests : Nat]

VARIABLES
    group,      \* the resource group; Azure deletes it in the background
    account,    \* does the storage account exist?
    container,  \* does the container exist?
    blobs,      \* entry -> its backups in the container
    faults,     \* failed calls and restarts that may still happen
    requests    \* operations that may still be requested

cloudVars == <<group, account, container, blobs>>
counters  == <<faults, requests>>

NoBlobs == [e \in Entries |-> {}]

CloudTypeOK ==
    /\ group \in {"absent", "present", "deleting"}
    /\ account \in BOOLEAN /\ container \in BOOLEAN
    /\ blobs \in [Entries -> SUBSET Backups]
    /\ faults \in Nat /\ requests \in Nat

CloudInit ==
    /\ group = "absent" /\ account = FALSE /\ container = FALSE
    /\ blobs = NoBlobs

\* The entries whose blobs a listing with the prefix "<name>/" returns.
WithPrefix_NoSlash(e) == {f \in Entries : f = e \/ <<e, f>> \in PrefixOf}
WithPrefix(e) == {e}

\* Azure completes the deletion of the group: the account goes first.
GroupIsDeleted ==
    /\ group = "deleting"
    /\ \/ account /\ account' = FALSE /\ UNCHANGED group
       \/ ~account /\ group' = "absent" /\ UNCHANGED account
    /\ container' = FALSE /\ blobs' = NoBlobs
    /\ UNCHANGED counters

----------------------------------------------------------------------------
(* A secret: free, held by a finalizer, held while its deletion is wanted, *)
(* or gone.                                                                *)

SecretStates == {"free", "held", "going", "gone"}

Held(s)     == IF s = "free" THEN "held" ELSE s
Released(s) == IF s = "held" THEN "free" ELSE IF s = "going" THEN "gone" ELSE s
Unwanted(s) == IF s = "free" THEN "gone" ELSE IF s = "held" THEN "going" ELSE s
=============================================================================
