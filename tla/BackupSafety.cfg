SPECIFICATION FairSpec
CONSTANTS
    e1 = e1
    e2 = e2
    b1 = b1
    Entries <- MCEntries
    PrefixOf <- MCPrefixOf
    Backups <- MCBackups
    Scopes <- MCScopes
INVARIANTS
    TypeOK
    CredentialsOutliveResources
    RemovedBucketLeavesNothing
PROPERTIES
    BackupsAreKept
    EntryDeletionEnds
CHECK_DEADLOCK FALSE
