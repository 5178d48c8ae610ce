------------------------------ MODULE MCBackup ------------------------------
(* Small instances of Backup for TLC. *)
EXTENDS Backup

CONSTANTS e1, e2, b1

\* The name of e1 is a prefix of that of e2.
MCEntries  == {e1, e2}
MCPrefixOf == {<<e1, e2>>}
MCBackups  == {b1}

Scope(entries, f, r) == [entries |-> entries, faults |-> f, requests |-> r]

\* Two entries and one failure, one entry and several failures and requests.
MCScopes == {Scope({e1, e2}, 1, 0), Scope({e1}, 2, 2)}
\* A bucket without entries.
MCEmptyBucket == {Scope({}, 1, 1)}
=============================================================================
