---------------------------- MODULE Terraformer ----------------------------
(***************************************************************************)
(* What a Terraformer instance leaves in the seed cluster and in the cloud *)
(* (extensions/pkg/terraformer, vendored): the configuration ConfigMap,    *)
(* the variables Secret, the state ConfigMap, the Terraformer pods that    *)
(* run "terraform apply" or "terraform destroy", and the cloud resources   *)
(* those pods create and delete.                                           *)
(*                                                                         *)
(* The pods are an actor of their own: they outlive the controller call    *)
(* (and the controller process) that created them.  Their script is not    *)
(* part of the repository; it is modelled by what the terraformer package  *)
(* relies on: a pod reads the state ConfigMap when it starts, and writes   *)
(* it back before it ends, also when it is terminated within its grace     *)
(* period (SetTerminationGracePeriodSeconds).                              *)
(***************************************************************************)
EXTENDS Naturals

CONSTANTS
    Resources,  \* the cloud resources the rendered configuration asks for
    PodIds,     \* names the API server can generate for Terraformer pods
    MaxFaults,  \* bound on failed calls, crashes, timeouts, failed pods
    NodeLoss    \* whether a pod can vanish without writing its state back

ASSUME NodeLossAssumption == NodeLoss \in BOOLEAN
ASSUME MaxFaultsAssumption == MaxFaults \in Nat

VARIABLES
    tfConfig,   \* does the configuration ConfigMap exist?
    tfVars,     \* does the variables Secret exist?
    tfState,    \* the state ConfigMap
    cloud,      \* the resources that exist in the Azure subscription
    pods,       \* the Terraformer pods
    faults      \* faults injected so far

tfObjects == <<tfConfig, tfVars, tfState>>
tfAll     == <<tfConfig, tfVars, tfState, cloud, pods, faults>>

----------------------------------------------------------------------------
(* The state ConfigMap is absent, holds the empty string, or holds a JSON  *)
(* document that lists the resources Terraform manages (maybe none).       *)
States     == [kind : {"absent", "empty", "json"}, res : SUBSET Resources]
NoState    == [kind |-> "absent", res |-> {}]
EmptyState == [kind |-> "empty",  res |-> {}]
Json(R)    == [kind |-> "json",   res |-> R]

\* A pod carries the resources it manages while it runs, and whether the
\* API server has been asked to delete it.
Pods  == [cmd   : {"apply", "destroy"},
          phase : {"none", "pending", "running", "succeeded", "failed"},
          res   : SUBSET Resources,
          terminating : BOOLEAN]
NoPod == [cmd |-> "apply", phase |-> "none", res |-> {}, terminating |-> FALSE]
NewPod(cmd) == [NoPod EXCEPT !.cmd = cmd, !.phase = "pending"]

Exists(p) == pods[p].phase # "none"
Active(p) == pods[p].phase \in {"pending", "running"}
NoPods    == \A p \in PodIds : ~Exists(p)

IsStateEmpty == tfState.kind \in {"absent", "empty"}

One(b) == IF b THEN 1 ELSE 0

NumberOfResources_CountsTwice ==
    One(tfState.kind # "absent") + 2 * One(tfVars) + One(tfConfig)
NumberOfResources ==
    One(tfState.kind # "absent") + One(tfVars) + One(tfConfig)

\* Deleting a pod only marks it; the kubelet removes it when it has ended.
deleteTerraformerPods ==
    pods' = [p \in PodIds |->
                IF Exists(p) THEN [pods[p] EXCEPT !.terminating = TRUE]
                             ELSE pods[p]]

TFTypeOK ==
    /\ tfConfig \in BOOLEAN
    /\ tfVars \in BOOLEAN
    /\ tfState \in States
    /\ cloud \in SUBSET Resources
    /\ pods \in [PodIds -> Pods]
    /\ faults \in 0..MaxFaults

TFInit ==
    /\ tfConfig = FALSE
    /\ tfVars = FALSE
    /\ tfState = NoState
    /\ pods = [p \in PodIds |-> NoPod]
    /\ faults = 0

Fault == faults < MaxFaults /\ faults' = faults + 1

----------------------------------------------------------------------------
(* The steps of a Terraformer pod.                                         *)

\* The script writes its state back; an absent ConfigMap it may or may not
\* create again.
SaveState(R) ==
    \/ tfState' = Json(R)
    \/ tfState.kind = "absent" /\ UNCHANGED tfState

PodStart(p) ==
    /\ pods[p].phase = "pending" /\ ~pods[p].terminating
    /\ pods' = [pods EXCEPT ![p].phase = IF tfConfig /\ tfVars THEN "running" ELSE "failed",
                            ![p].res = tfState.res]
    /\ UNCHANGED <<tfObjects, cloud, faults>>

PodCreates(p, r) ==
    /\ pods[p].phase = "running" /\ pods[p].cmd = "apply"
    /\ r \notin pods[p].res \cup cloud
    /\ cloud' = cloud \cup {r}
    /\ pods' = [pods EXCEPT ![p].res = @ \cup {r}]
    /\ UNCHANGED <<tfObjects, faults>>

PodDestroys(p, r) ==
    /\ pods[p].phase = "running" /\ pods[p].cmd = "destroy"
    /\ r \in pods[p].res
    /\ cloud' = cloud \ {r}
    /\ pods' = [pods EXCEPT ![p].res = @ \ {r}]
    /\ UNCHANGED <<tfObjects, faults>>

PodSucceeds(p) ==
    /\ pods[p].phase = "running"
    /\ pods[p].res = IF pods[p].cmd = "apply" THEN Resources ELSE {}
    /\ SaveState(pods[p].res)
    /\ pods' = [pods EXCEPT ![p].phase = "succeeded"]
    /\ UNCHANGED <<tfConfig, tfVars, cloud, faults>>

\* Terraform fails: a cloud call fails, a resource it has to create exists
\* already, or the pod is told to terminate.
PodFails(p) ==
    /\ pods[p].phase = "running"
    /\ \/ pods[p].terminating /\ UNCHANGED faults
       \/ pods[p].cmd = "apply" /\ ~(cloud \subseteq pods[p].res) /\ UNCHANGED faults
       \/ Fault
    /\ SaveState(pods[p].res)
    /\ pods' = [pods EXCEPT ![p].phase = "failed"]
    /\ UNCHANGED <<tfConfig, tfVars, cloud>>

PodRemoved(p) ==
    /\ pods[p].terminating /\ pods[p].phase \in {"pending", "succeeded", "failed"}
    /\ pods' = [pods EXCEPT ![p] = NoPod]
    /\ UNCHANGED <<tfObjects, cloud, faults>>

\* The node dies, or the grace period ends before the state is written.
PodLost(p) ==
    /\ NodeLoss /\ pods[p].phase = "running"
    /\ Fault
    /\ pods' = [pods EXCEPT ![p] = NoPod]
    /\ UNCHANGED <<tfObjects, cloud>>

PodStep(p) ==
    \/ PodStart(p)
    \/ \E r \in Resources : PodCreates(p, r) \/ PodDestroys(p, r)
    \/ PodSucceeds(p)
    \/ PodFails(p)
    \/ PodRemoved(p)
    \/ PodLost(p)
=============================================================================
