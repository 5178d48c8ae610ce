SPECIFICATION FairSpec
CONSTANTS
    e1 = e1
    e2 = e2
    b1 = b1
    Entries <- MCEntries
    PrefixOf <- MCPrefixOf
    Backups <- MCBackups
    Scopes <- MCEmptyBucket
PROPERTIES
    BucketDeletionEnds
CHECK_DEADLOCK FALSE
