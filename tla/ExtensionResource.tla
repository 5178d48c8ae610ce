-------------------------- MODULE ExtensionResource --------------------------
(***************************************************************************)
(* An extension resource that Gardener hands to a controller of the        *)
(* provider, and what the reconcilers of ControlPlane and Worker (vendored *)
(* extensions library) do with it alike: pick an operation, keep its       *)
(* status, its finalizer and its operation annotation.                     *)
(***************************************************************************)

Annotations == {"none", "reconcile", "waitForState", "restore", "migrate"}
Operations  == {"none", "create", "reconcile", "restore", "migrate", "delete"}
States      == {"none", "processing", "error", "succeeded"}

Resource ==
    [exists : BOOLEAN, finalizer : BOOLEAN, deleting : BOOLEAN, annotation : Annotations,
     type : Operations, state : States, observed : BOOLEAN, queued : BOOLEAN]

Missing ==
    [exists |-> FALSE, finalizer |-> FALSE, deleting |-> FALSE, annotation |-> "none",
     type |-> "none", state |-> "none", observed |-> FALSE, queued |-> FALSE]
New(annotation) == [Missing EXCEPT !.exists = TRUE, !.annotation = annotation]

IsMigrated(r) == r.type = "migrate" /\ r.state = "succeeded"

\* ComputeOperationType, case by case.
OperationType(r) ==
    IF r.annotation = "migrate" THEN "migrate"
    ELSE IF r.deleting THEN "delete"
    ELSE IF r.type = "none" THEN "create"
    ELSE IF r.type \in {"create", "migrate", "restore"} /\ r.state # "succeeded" THEN r.type
    ELSE "reconcile"

\* The annotation wrapper and the switch of Reconcile; "none" where they
\* return at once.
Branch(r) ==
    IF ~r.exists \/ r.annotation = "waitForState" \/ IsMigrated(r) THEN "none"
    ELSE IF OperationType(r) = "migrate" THEN "migrate"
    ELSE IF r.deleting THEN IF r.finalizer THEN "delete" ELSE "none"
    ELSE IF r.annotation = "restore" THEN "restore"
    ELSE "reconcile"

\* The predicates let an event through, or the key was queued again.
Due(r) ==
    /\ Branch(r) # "none"
    /\ r.annotation # "none" \/ r.deleting \/ r.state # "succeeded" \/ r.queued

\* The annotation wrapper, before the resource is read.
Taken(r) == [r EXCEPT !.annotation = IF @ = "reconcile" THEN "none" ELSE @, !.queued = FALSE]

\* The operation a branch stores; it is computed before the resource is read
\* anew to be updated.
OperationOf(r) == IF Branch(r) = "reconcile" THEN OperationType(r) ELSE Branch(r)
Processing(r, type) == [r EXCEPT !.type = type, !.state = "processing"]

\* The generation that is stored as observed is read anew: it may be newer
\* than the one that was reconciled.
Succeeded(r) == [r EXCEPT !.state = "succeeded", !.observed = TRUE]

\* Without its finalizer a resource that is being deleted is gone.
Released(r) == IF r.deleting THEN Missing ELSE [r EXCEPT !.finalizer = FALSE]

\* The key is queued again after an error.  One of the actuator is reported
\* unless the report fails, too; one of the reconciler's own calls is not.
Failed(r) == [r EXCEPT !.state = "error", !.observed = TRUE, !.queued = TRUE]
OwnCalls == {"finalizer", "processing", "success", "release", "unannotate"}
Failures(r, call) ==
    {[r EXCEPT !.queued = TRUE]} \cup (IF call \in OwnCalls THEN {} ELSE {Failed(r)})

\* A key that is taken and goes no further: it is dropped while the shoot has
\* failed, and queued again when the Cluster cannot be read.
Refusals(r) == {s \in {Taken(r), [Taken(r) EXCEPT !.queued = TRUE]} : Due(r)}

\* CheckExtensionObject: what Gardener waits for.
IsHealthy(r) == r.exists /\ r.observed /\ r.annotation = "none" /\ r.state = "succeeded"
=============================================================================
