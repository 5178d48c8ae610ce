---------------------------- MODULE BackupStore ----------------------------
(***************************************************************************)
(* What the backup controllers promise to a shoot, whatever calls fail and *)
(* in whatever order they run: backups of an entry exist until its own     *)
(* deletion is asked for, an entry that is gone has left none behind, and  *)
(* an entry that has been handed over to another seed loses nothing here.  *)
(***************************************************************************)
CONSTANTS Entries, Backups

VARIABLES status, data

storeVars == <<status, data>>

Statuses == {"none", "live", "dropping", "gone", "moved"}

Init ==
    /\ status \in [Entries -> {"none", "gone"}]
    /\ data = [e \in Entries |-> {}]

Becomes(e, s) == status' = [status EXCEPT ![e] = s]

\* An entry is new, or taken over with the backups it has from another seed.
Open(e) ==
    /\ status[e] = "none"
    /\ Becomes(e, "live")
    /\ \E old \in SUBSET Backups : data' = [data EXCEPT ![e] = old]

Write(e) ==
    /\ status[e] = "live"
    /\ \E b \in Backups : data' = [data EXCEPT ![e] = @ \cup {b}]
    /\ UNCHANGED status

Drop(e) ==
    /\ status[e] = "live"
    /\ Becomes(e, "dropping")
    /\ UNCHANGED data

Lose(e) ==
    /\ status[e] = "dropping"
    /\ \E b \in data[e] : data' = [data EXCEPT ![e] = @ \ {b}]
    /\ UNCHANGED status

Close(e) ==
    /\ status[e] \in {"live", "dropping"} /\ data[e] = {}
    /\ Becomes(e, "gone")
    /\ UNCHANGED data

HandOver(e) ==
    /\ status[e] = "live"
    /\ Becomes(e, "moved")
    /\ UNCHANGED data

Next ==
    \E e \in Entries : Open(e) \/ Write(e) \/ Drop(e) \/ Lose(e) \/ Close(e) \/ HandOver(e)

Spec == Init /\ [][Next]_storeVars
=============================================================================
