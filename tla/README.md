# Verification of the Azure provider extension

TLA+ models of `gardener-extension-provider-azure`: what they cover, what TLC checks on small
instances, and what TLAPS proves for all of them. Paths below are relative to `src/`; `EXT` is
`vendor/github.com/gardener/gardener/extensions/pkg`, the library whose generic reconcilers, actuators
and Terraformer the extension is built from. The library is vendored, so it is code of this program.

## 1. The system

The extension runs in a seed cluster. The gardenlet (external) writes one extension resource per concern
into the shoot's namespace, annotates it with an operation, and waits until the resource's status says
that the operation has succeeded. Controllers of this repository do the work.

| Part | State it keeps | Operations | What is hard |
|---|---|---|---|
| Infrastructure controller (`pkg/controller/infrastructure`, `EXT/controller/infrastructure`) | the Infrastructure resource: finalizer, last operation, ProviderStatus, State | Reconcile, Restore, Migrate, Delete | every step is a separate API call; crashes, conflicts, an operation annotation that changes under it |
| Terraformer (`EXT/terraformer`, `pkg/internal/terraform.go`) | ConfigMap of the configuration, Secret of the variables, ConfigMap of the state, pods; the cloud | InitializeWith, Apply, Destroy, EnsureCleanedUp, CleanupConfiguration | pods outlive the call that made them; a state that is read, decided upon, and then written |
| Infrastructure layout (`pkg/internal/infrastructure`, `charts/internal/azure-infra`) | zoned or availability set, domain counts in the status | render values, compute the status | values from the status or from a CloudProfile that changes |
| Worker controller (`pkg/controller/worker`, `EXT/controller/worker`) | machine classes, secrets, deployments, images and the state of the machines in the status | Reconcile, Restore, Migrate, Delete, synchronisation of the state | rolling updates, hibernation, machines that change the seed without their virtual machines; zones, class names, images that leave the CloudProfile |
| ControlPlane controller (`pkg/controller/controlplane`, `EXT/controller/controlplane`) | secrets and charts in the seed, managed resources for the shoot, remedy controller resources | Reconcile, Restore, Migrate, Delete | resources made by another controller while they are deleted; what must come before or go after what |
| BackupBucket, BackupEntry (`pkg/controller/backupbucket`, `.../backupentry`, `pkg/azure/client`, `EXT/controller/backupbucket`, `.../backupentry`) | generated secret, resource group, storage account, container, blobs; finalizers on secrets | Reconcile, Delete; of entries also Restore, Migrate | crash between two deletions; credentials that are themselves deleted; entries that share a container |
| CSI migration (`pkg/controller/csimigration`, `EXT/controller/csimigration`) | two annotations of the Cluster resource, legacy storage classes | Reconcile | node versions, hibernation, and the webhook must agree on the stage of the migration |
| Control plane webhook (`pkg/webhook/controlplane`) | none; mutates deployments, kubelet configuration, files | Ensure... | must be idempotent, follow the migration and the configuration that is in the seed |
| Exposure and network webhooks (`pkg/webhook/controlplaneexposure`, `.../network`) | none | mutate one object | - |
| Shoot admission, CloudProfile validation (`pkg/validator`, `pkg/apis/azure/validation`) | none; sees the old and the new shoot | create, update | what a sequence of accepted updates can reach |
| Azure authentication (`pkg/internal/auth.go`) | none | read the credentials of a secret | secrets that are incomplete or rotated |
| Health checks, command wiring, API types, charts | - | - | registration and data |

Interactions: the gardenlet's operation annotation starts a controller; the actuator creates Terraformer
pods, which read and write the state ConfigMap and the subscription; the Infrastructure's ProviderStatus
is copied into the ControlPlane's and the Worker's spec; the ControlPlane controller's configuration is
what the webhook mounts into the API server; the CSI migration controller's annotation decides what the
webhook writes; the machine controller manager and the remedy controller, which the controllers deploy,
go on changing what these are working on; the generated secret of a BackupBucket is used by the
BackupEntries.

Correctness, per part: the Infrastructure never loses sight of a cloud resource, reports only true
successes, removes everything it made and lets every operation end; a Worker runs exactly the machines
of its pools and hands them over without losing one; a ControlPlane keeps what serves the shoot as long
as the shoot has something to be served; infrastructure, control plane and machines agree on one layout;
a BackupBucket can always be deleted; the CSI migration completes once and only after the old kubelets
are gone; the admission refuses every update that the controllers cannot carry out.

`PROJECT.json` lists the parts (`components`) and, at their lines, what is hard to test (`hazards`).

## 2. Plan

1. **Infrastructure and Terraformer** (done): the core; all operations, crashes, pods as an actor.
2. **CSI migration with the control plane webhook** (done): one Cluster resource behind a lagging cache,
   node versions, hibernation, storage classes.
3. **BackupBucket and BackupEntry** (done): two controllers and several entries on one container, with an
   abstract store of backups that they implement.
4. **Admission and layout** (done): sequences of shoot updates and CloudProfile changes, from the
   admission to the machine classes, in `Shoot`.
5. **ControlPlane** (done): every operation, with the remedy controller beside it.
6. **Worker** (done): every operation of the generic actuator beside the machine controller manager and
   the autoscaler; zones, class names and images as functions.
7. **Two seeds**: the control plane and the worker move to another seed in `SeedControllers`, one after the
   other. Open: the Infrastructure together with them, with both seeds at work at a time, and an abstract
   life cycle (absent, present, partial, gone) that they implement.

Proofs, in this order: type correctness, one Terraformer at a time, deletion only deletes, patches equal
deployments but for checksums, migrations complete on a current view, credentials outlive resources, the backup controllers
implement their abstract store, what the control plane keeps and leaves, what the worker keeps and leaves,
what a completed migration means, what a stored success of the Infrastructure means, what it remembers and
what its deletion leaves, what a finished flow leaves in Shoot, that it can be reconciled again, and that
hashes and zone shares are right, and what the worker reports as reconciled (done).

## 3. Modules

### Terraformer

What one Terraformer instance leaves in the seed and in the cloud. `tfConfig`, `tfVars` say whether the
configuration ConfigMap and the variables Secret exist; `tfState` is the state ConfigMap: absent, the
empty string (`CreateState`), or a JSON document that lists resources. A successful destroy leaves a JSON
document with no resources, which `IsStateEmpty` does *not* take for empty. `cloud` is the set of existing
resources; `Resources` those of the rendered chart. `pods` maps every name the API server may generate to
a pod (command, phase, resources it manages, deletion timestamp).

The script in the pod is not in the repository. It is modelled by what the package relies on: it reads
the state when it starts, creates or destroys one resource at a time, and writes the state back before it
ends, also when it is told to terminate. With `NodeLoss` a pod can vanish without doing so.

### Infrastructure

One Infrastructure resource. Variables of the resource: `exists`, `finalizer`, `deleting`, `ann`
(operation annotation), `op`/`opState` (last operation), `saved` (Status.State, written together with
ProviderStatus). Variables of the controller: `pc`, the API call it makes next, `job`, the branch of
`Reconcile`, `loc`, its local variables, `fresh`, whether its copy has the stored resource version,
`queued`, whether the key is queued for another reason than an event. The work queue gives a key to one
worker at a time, so there is one process per resource.

| Actions | Code |
|---|---|
| `Dispatch` | `operationAnnotationWrapper.Reconcile`, the early returns (no Cluster, failed shoot) and the switch of `reconciler.Reconcile`, `ComputeOperationType`, the predicates |
| `EnsureFinalizer`, `MarkProcessing`, `ReportError`, `MarkSucceeded`, `DeleteFinalizer`, `RemoveAnnotation` | the calls of `reconcile`, `delete`, `migrate`, `restore` in the order of each |
| `InitializerConfig` ... `InitializeState` | `InitializeWith(DefaultInitializer(...))` |
| `CountResources`, `CleanUpPods`, `Prepared` | `prepare` and its retries |
| `SkipDestroy`, `DeployPod`, `WaitForPod`, `CollectPods` | the rest of `execute` |
| `UpdateProviderStatus` | `updateProviderStatus` |
| `DeleteCleanedUp`, `DeleteStateEmpty` | `actuator.Delete` |
| `CleanupVars`, `CleanupConfig`, `CleanupState` | `CleanupConfiguration`, of `Destroy`, `Delete` and `Migrate` |
| `CallFails`, `StateUnreadable`, `ReconcilerFails`, `Crash` | an error of any of these calls; a restart of the process |
| `PublishState`, `RequestOperation`, `RequestDelete` | the gardenlet (external) |

A status update retries with a fresh read and never conflicts; the plain updates of the finalizer do,
when the stored resource has changed since the copy was read (`fresh`). One failed answer after an effect
is modelled where it matters (`DeployPod`: the pod exists, the caller got an error).

A definition `X_Y` directly before `X` is a faulty variant of `X`. No specification uses it; it documents
which mistake in the code the property named in `PROJECT.json` would reveal.

### MCInfrastructure

Two resources, two pod names, the states a gardenlet publishes, symmetry over resources and pod names.

### InfrastructureProofs

See section 5.

### ControlPlaneWebhook

What the webhook makes of the deployments, as operators. A deployment is the set of its pieces the webhook
knows: the feature gates, the arguments for the in-tree cloud provider, the admission plugin, volumes with
their mounts, network labels, and the two checksum annotations, of the secret `cloud-provider-config` and
of the config map of earlier releases. `Ensure(d, pieces, version, needsComplete, secret)` is `Mutate` for
the deployment `d`, with or without that secret in the namespace; the three gates that are always set
together (`CSIMigration`, `...Disk`, `...File`) count as one, and so do the two complete ones. The code
tells four ranges of versions apart: below 1.17 (no root certificates are mounted), up to 1.19, 1.20.x, and
above (`Versions`).

### CSIMigration

One shoot. `cluster` is the stored Cluster resource: version, hibernation, whether the controller has to
leave it alone (`halted`), and the two annotations. `seen` is the Cluster in the informer cache, which
controllers and webhook read; `synced` says whether it is the stored one. `pc`, `copy`, `fresh`, `legacy`,
`patched` are the controller: the call it makes next, its copy and whether that has the stored resource
version, the storage classes and deployments it is working on. `secret` says whether the cloud
configuration is a secret or still the config map of an earlier release.

| Actions | Code |
|---|---|
| `Observe` | an event of the Cluster and the predicates of `Add` |
| `Dispatch` | `Reconcile` up to the check of the first annotation |
| `CheckControlPlane`, `MarkNew` | new shoot or existing one; version and hibernation |
| `CheckNodes` | the list of the nodes and their kubelets |
| `ListClasses`, `DeleteClass` | removal of the legacy storage classes, one call each |
| `MarkNeedsComplete`, `PatchDeployment`, `MarkFinished` | the annotation, the three empty PATCH requests, the second annotation |
| `CallFails`, `Crash` | an error of any of these calls; a restart of the process |
| `DeployControlPlane` | the cloud configuration and the managed resource of the storage classes, `reconcileControlPlane` |
| `SyncCluster` in `ChangeShoot`, `Resync` | `SyncClusterResourceToSeed`, which keeps the annotations |
| `Deploy`, `DeployWorker`, `Hibernate`, `FlowFails`, `MoveSeed` | the gardenlet (external), with the webhook's mutation of what it deploys |
| `CreateMachine`, `JoinMachine`, `DeleteMachine` | machine controllers and kubelets (external) |
| `CreateClass` | the resource manager (external): creates what is missing, cannot change a provisioner |

### MCCSIMigration

Two machines, one storage class, symmetry over the machines.

### CSIMigrationProofs

See section 5.

### BackupStore

The abstract specification: what the backup controllers promise to a shoot. An entry is none, live,
dropping (its deletion is wanted), gone or moved (handed over); `data` are its backups. Backups are lost
only while their own entry is dropping, an entry closes only when it has none, and one that has moved
loses nothing here.

### BackupCloud, BackupBucket, BackupEntry, Backup

`BackupCloud` holds what both controllers work on: resource group, storage account, container, the blobs
per entry, and the states of a secret with a finalizer. Azure deletes a group after the call that asks
for it has returned (`GroupIsDeleted`). `BackupBucket` is one bucket and its controller, `BackupEntry` the
entries and theirs, indexed by entry: the queue serves different entries concurrently. `Backup` composes
the two, since both run in one process and a restart stops both (`Crash`); there the gardenlet creates
entries in a bucket that is ready and deletes a bucket without entries.

| Actions | Code |
|---|---|
| `BDispatch`, `EDispatch` (`Branch`, `FirstStep`) | the annotation wrapper, the switch of `Reconcile`, the predicates |
| `BEnsureFinalizer`, `BMarkProcessing`, `HoldBucketSecret`, `BMarkSucceeded`, `BReportError`, `ReleaseBucketSecret`, `BDeleteFinalizer` | `reconcile` and `delete` of the bucket's reconciler |
| `UseGeneratedSecret`; `CreateGroup`, `CreateAccount`, `StoreGeneratedSecret`, `StoreSecretRef` | the two ways of `getAzureClient` |
| `CreateContainerIfNotExists`; `DeleteContainerIfExists`, `DeleteResourceGroup`, `DeleteGeneratedSecret` | `Reconcile` and `Delete` of the actuator |
| `EEnsureFinalizer`, `EMarkProcessing`, `HoldEntrySecret`, `GetEntrySecret`, `EMarkSucceeded`, `EReportError`, `ReleaseEntrySecret`, `RemoveEntryFinalizer`, `ERemoveAnnotation` | `reconcile`, `restore`, `delete` and `migrate` of the entry's reconciler |
| `CheckNamespace`, `DeployEtcdBackupSecret` | `deployEtcdBackupSecret` |
| `ListBlobs`, `DeleteBlob`, `BlobsDeleted` | `DeleteObjectsWithPrefix`: a listing, then one call per blob |
| `BCallFails`, `ECallFails`, `Crash` | an error of any of these calls; a restart of the process |
| `CreateEntry`, `StopShoot`, `ERequestMigrate`, `DropEntrySecret`, ... | the gardenlet (external); `WriteBackup` is etcd |

A step of the bucket's actuator that finds the account gone fails with an error that is none of the
service (the host of the account no longer resolves), which the code returns.

### MCBackup

Two entries, the name of one a prefix of the other's, and one backup name. `Scopes` lists the bounds of
several instances; the initial state picks one.

### BackupProofs

See section 5.

### AzureAPI, InfrastructureLayout, Admission, MachineConfig, ControlPlaneValues, SeedWebhooks

Modules of operators, without variables: what the pure code computes. `AzureAPI` has the objects of the
provider's API as record sets, the lookups of its helper package and the reading of credentials;
`InfrastructureLayout` the values of the Terraform chart, its outputs and the status computed from them;
`Admission` the predicates of the validator and of the CloudProfile; `MachineConfig` the machine classes
with the hash in their names, the machine deployments per zone and the machine images; `ControlPlaneValues`
the values of the charts and the names of their objects; `SeedWebhooks` what the webhooks take from the
seed: cloud configuration, checksums, access to the registry, advertised address. A function that can
return an error is `Nil` then. A digest is modelled by the data it is made of, so two pools have the same
class name exactly when the code hashes the same data.

### Shoot

Composes these modules along one shoot. `shoot` and `profile` are what the user and the operator ask for,
`cluster` what the seed knows of it, `flow` how far Gardener's reconciliation is. `infra`, `cp`, `worker`
are the three resources, `cloud` the layout Terraform has applied, `seed` what the control plane controller
has deployed, `api` and `kubelet` the API server's deployment and the files of the nodes after the webhook,
`machines` the classes and deployments. `immutableKept` is a history variable: no update so far has touched
an immutable field.

| Actions | Code |
|---|---|
| `ChangeShoot` | an update, admitted by `Handle` of the validator; any admitted update of the set may happen |
| `ChangeProfile`, `StartFlow`, `DeployAPIServer`, `DeployKubelet`, `FinishFlow` | operator and gardenlet (external), the latter two through the webhooks |
| `ApplyInfrastructure`, `StoreInfrastructureStatus` | `RenderTerraformerChart`, `ComputeStatus` and the status update after it |
| `DeployControlPlane`, `StartControlPlane`, `FinishControlPlane`, `FailControlPlane` | the ControlPlane resource, the config chart, the other charts, an error between them |
| `DeployWorker`, `StartWorker`, `StoreMachineImages`, `FinishWorker`, `FailWorker` | the Worker resource, the classes, `UpdateMachineImagesStatus`, the deployments, an error between them |

How a reconciliation is carried out call by call is the subject of `Infrastructure` and `SeedControllers`;
here it may stop after each object it writes, and what it reads may have changed by then.

### MCShoot

A zoned shoot of two zones and a non-zoned one, and a set of updates of each: version, hibernation,
deletion, image, zones, machine type, data volumes, identity, network, credentials, some of them refused by
the admission. Three CloudProfiles: other domain counts, an image less, the region missing.

### ExtensionResource

The resource that the reconcilers of ControlPlane and Worker have in common: `Branch` is the wrapper of the
operation annotation with the switch of `Reconcile`, `OperationType` is `ComputeOperationType`, `Due` the
predicates, `Taken`, `Processing`, `Succeeded`, `Released`, `Failed` what the calls store, `IsHealthy` what
the gardenlet waits for (`CheckExtensionObject`). An error of the actuator is stored in the status, one of
the reconciler's own calls (`OwnCalls`) is not. `Refusals` are the early returns: the key of a failed shoot
is dropped, one whose Cluster cannot be read comes back; both count as faults (`CPFails`, `WFails`).

### ControlPlane

The control plane controller, call by call: `objects` are the provider's objects in the namespace of the
seed, `managed` the two managed resources and what they hold in the shoot, `remedies` the PublicIPAddress
and VirtualMachine resources of the remedy controller, `cpRun` the call it makes next and its locals.

| Actions | Code |
|---|---|
| `CPDispatch` ... `CPUnannotate`, `CPFails` | the reconciler, as in `ExtensionResource` |
| `DeploySecrets`, `ApplyConfigChart`, `ApplyControlPlaneChart`, `ApplyShootChart`, `ApplyStorageClasses` | `reconcileControlPlane` of the generic actuator; Restore is the same |
| `ListPublicIPs`, `AnnotatePublicIP`, `AllAnnotated`, `DeletePublicIPs`, `DeleteVirtualMachines`, `AwaitPublicIPs`, `AwaitVirtualMachines` | `Delete` and `Migrate` of the Azure actuator, before the generic one |
| `DeleteStorageClasses`, `DeleteShootChart`, `AwaitManagedResources`, `DeleteControlPlaneChart`, `DeleteConfigChart`, `DeleteSecrets` | `deleteControlPlane` of the generic actuator |
| `CPTimesOut` | the waits of both |
| `RemedyCreates`, `RemedyTouches`, `RemedyReleases`, `ManagedResourceGoes` | remedy controller and resource manager (external) |

A chart that is not enabled is not applied, and what it deployed earlier stays; a deletion goes through the
objects of every chart. The remedy controller acts only while its Deployment exists. Replicas are left out,
and with them the branch of `reconcileControlPlane` for hibernated shoots
(`EXT/controller/controlplane/genericactuator/actuator.go:260-283`), which `Shoot` has. Within the deletion of
a hibernated shoot that branch returns before the charts and the success is stored all the same; Gardener's
deletion flow reconciles the control plane before it deletes it, and that reconciliation is in `Shoot` but not
in `SeedControllers`, where `HealthyWhenReported` therefore does not speak of it.

### Worker

The worker controller, call by call or deployment by deployment. A machine class is a deployment with a
version; `machines` and `vms` count the machines of a class in the seed and in Azure, `saved` is the state
in the status, `bounds` the autoscaler's limits there. `mcm` is the machine controller manager: nothing of
it, its Deployment with no or one replica, or the pod of a Deployment that is gone (`ending`).

| Actions | Code |
|---|---|
| `WDispatch` ... `WUnannotate`, `WFails` | the reconciler, as in `ExtensionResource` |
| `DeployMCM`, `PauseAutoscaler`, `ListClasses`, `DeployClasses`, `ListDeployments`, `DeployDeployment`, `AllDeployed`, `AwaitAvailable`, `HoldAutoscaler`, `CleanDeployments`, `CleanClasses`, `AwaitUnwantedGone`, `CleanSets`, `StopMCM`, `ResumeAutoscaler`, `StoreBounds` | `Reconcile`; those that `Delete` and `Restore` share with it go on elsewhere |
| `DropMCM`, `AwaitMCMGone`, `ShallowDeleteMachines`, `...Sets`, `...Deployments`, `...Classes`, `AwaitAllGone` | `Migrate`, and the end of `Delete` |
| `RestoreMachines`, `AllRestored` | `Restore` |
| `WTimesOut` | the waits |
| `SyncState` | the state reconciler |
| `CreateSet`, `CreateMachine`, `CreateVM`, `RemoveMachine`, `FinalizeDeployment`, `FinalizeClass`, `MCMEnds` (`MCM`), `Scale` | machine controller manager, garbage collector and cluster autoscaler (external) |

`DropMCM` deletes the Deployment, and a pod that runs goes on until `MCMEnds`. `AwaitMCMGone` is the wait of
`Migrate` and `Restore`, which looks for the Deployment only; the constant `MCMOutlives` says whether the pod
may still be there then (`Delete` does not wait). `DeployMCM` contains the wait for the rollout; one that takes
too long is a `WFails` after it.

### SeedControllers

Both controllers in one process (`Crash` stops both) and the gardenlet, which takes the shoot through them:
control plane before worker when it is reconciled or restored, worker before control plane when it is
deleted or leaves the seed. `stage` says how far it is. `MoveSeed` is the change of the seed: what is left
of the old one is out of sight, and only the state of the worker comes along.

### MCSeedControllers

One or two pools, shoots that differ in version, remedy controller, registry, class version, replicas and
hibernation; the bounds of the runs.

### SeedControllersProofs, SeedControlPlaneProofs, SeedWorkerProofs

See section 5.

## 4. Runs

| Run | Question | Result |
|---|---|---|
| `infra_safety` | creation, reconciliation, restore, migration, deletion with up to 4 faults, vanishing pods and 3 requests: types, one Terraformer, success is complete, the state is never reset, deletion only deletes | holds |
| `infra_liveness` | nothing forgotten, deletion leaves nothing; with weak fairness operations end and deletions remove the resource | holds |
| `infra_stuck_deletion` | every deletion ends, however often it is interrupted | violated |
| `infra_migrate_busy` | no Terraformer works on a migrated infrastructure | violated |
| `infra_restore_deleted` | deleting during a restore leaves nothing | violated |
| `csi_environment` | in every environment, with a lagging cache: kubelets stay behind the control plane, patches equal deployments but for leftover checksums, no migration completes on an outdated view | holds |
| `csi_liveness` | with a lagging cache: migrations complete without old kubelets and leave no legacy class; awake shoots are migrated; deployments are adapted in the end | holds |
| `backup_safety` | the controllers implement `BackupStore`; credentials outlive what needs them; a removed bucket leaves nothing; deletions of entries end | holds |
| `backup_stuck_deletion` | every deletion of a bucket ends | violated |
| `shoot_safety` | through two updates or retries: what was rendered once renders again, all controllers agree on one layout and on the current configuration and credentials, a class name stands for one kind of machine, zones share a pool, the domain counts and the legacy configuration stay, components stop after the API server | holds |
| `seed_controllers` | reconciliation, rolling update, hibernation, migration and deletion with faults and events: what serves the shoot outlives what it serves, listed addresses are kept, no machine is orphaned, success means rolled out and healthy, deletion leaves nothing, requests settle; the pod of the machine controller manager does not outlive the wait for its Deployment | holds |
| `seed_mcm_outlives` | no machine is orphaned, also if that pod does | violated |

The violated runs are disagreements between the code and its comments or tests; `findings` in
`PROJECT.json` quotes them. In short: (1) a failure in the middle of `CleanupConfiguration` after a successful
destroy leaves a state that counts as not empty and an incomplete configuration, which every later Delete
refuses; (2) `Migrate`, unlike `Delete`, does not wait for running pods; (3) Delete before a restore has
written the state ConfigMap finds an empty state and exits early; (4) a bucket whose deletion is
interrupted once Azure has accepted to delete its group can never be deleted, because the next attempt
starts with the container; (5) `Migrate` and `Restore` promise that the machine controller manager is gone
before machines are removed or written back, but wait only until its Deployment is not found: its pod may still
run and see virtual machines without a machine.

Three more disagreements have no run of their own, since each is a mistake of one line that the definitions
show:

* The admission decodes the old infrastructure configuration from the new shoot (`pkg/validator/shoot_validator.go:64`),
  so the comparison finds no change and no immutable field is protected, although
  `pkg/apis/azure/validation/infrastructure.go:116` says that moving a zoned cluster to a non-zoned one is not
  allowed. `ChangeShoot` admits such updates; the properties that need the fields say so (`immutableKept`).
* `ensureChecksumAnnotations` adds the checksum of the secret (`ensurer.go:303`), or of the config map if there is
  none (`:306`), and removes only the latter when the migration is complete (`:299`). The empty PATCH that
  completes a migration thus leaves an annotation that a new deployment has not, and the next deployment may roll
  the API server and the controller manager once more. `ensurer_test.go:638` expects no annotation, but calls the
  ensurer with new deployments only. `PatchLeavesOnlyChecksums` says that nothing else is left.
* The first zones of a pool get the additional machines, where the comment of `DistributeOverZones`
  (`EXT/controller/worker/machines.go:167-168`) says the last.

What the models show beside the runs, and nothing in the code promises otherwise:

* Infrastructure: a conflict on the finalizer of a migrated resource is never retried, since a migrated
  resource is left alone. With a published state that is empty (`PublishedStates`), a restore that is
  retried overwrites the state a pod has just saved, because `InitializeState` is decided before it is
  acted upon.
* CSI migration: the three empty PATCH requests race with the cache the webhook reads, so a migration can
  be finished with deployments that are adapted only when they are deployed next (`EventuallyAdapted`). With
  `Stragglers`, a version that is raised when no old node exists lets the storage classes be deleted while
  their managed resource still renders the legacy provisioner, and a machine of the old class that boots
  during the check of the nodes joins after the migration is complete. With `LeavesEarly` and a hibernated
  shoot, the shoot passes the minimum version without being migrated, which a comment in `reconcile` calls
  basically unreachable. With `SeedMoves`, a restored shoot is taken for a new one and its legacy classes
  stay.
* Control plane: the conflict of an address is retried with the same copy and never succeeds; the next
  attempt lists anew. An address the remedy controller makes after the list is deleted without the
  annotation (`late`). A
  remedy controller that is disabled by an annotation keeps running. Three kinds of objects outlive the
  control plane in the namespace (`Leftovers`).
* Worker: a class that is deployed while it is being deleted goes all the same, and the pool waits until
  the next reconciliation; a pool with a minimum of 0 is not waited for, so there the reconciliation even
  succeeds, and the first machine the autoscaler asks for finds no class; a pool that is removed while the shoot sleeps waits until the shoot wakes up;
  waking up with a new class times out once; a migration in the middle of a rolling update, or with a
  state that was saved before the last change, leaves machines without class or record on the next seed; the
  restart between restore and reconciliation loses the requeue.
* Shoot: `ValidateSubset` looks at the network address of the inner block only (`cidr.go:60`); the hash in
  a class name leaves out network and image; an API server that is updated in the middle of an upgrade can
  mount a secret that is not yet there, and waits for it.
* The gardenlet can take the success of the last operation for that of the next one, between the removal
  of the annotation and the new status.

Deadlock is not checked: when the resource is gone, or succeeded and nobody requests anything, the system
rightly stops.

### Infrastructure

`MaxFaults` bounds failed calls, crashes, timeouts, lost answers and failing pods together;
`MaxRequests` the operations the gardenlet asks for. Two pod names suffice for two runs to overlap, and
the API server reuses a name in the model only after the pod is gone. Two resources suffice for a state
to be partial. Four faults allow a failed attempt, a failed retry, a crash and a lost answer in one run;
the longest counterexample of the violated runs needs one. `NodeLoss` is on in `infra_safety` only: a pod
that vanishes does not save its state, Terraform then no longer knows what it made, and an apply that
meets such a resource fails for good, so neither the other invariants nor liveness can hold.

Constants that select an environment: `Starts` (new shoot or restored one), `PublishedStates` (what the
gardenlet copies from the previous seed), `DeleteDuringRestore`, `NodeLoss`. In the passing runs a restore
is published with a complete state and not deleted before it has finished; the violated runs lift exactly
one of these assumptions each.

Fairness: the controller is weakly fair, since the work queue hands out every key that is queued and a
worker runs until it returns. Every pod is weakly fair: kubelet and script make progress. The gardenlet and
the faults are not fair. Since faults are bounded, liveness says: when calls stop failing, operations end.

### CSI migration

`MaxChanges` bounds changes of version, hibernation and seed, `MaxFaults` failed calls, failed flows and
restarts. Three changes allow two upgrades with a hibernation between. Two machines are one that is old and
one that replaces it; storage classes are independent of each other, so there is one. Four switches select
the environment. `CacheLag`: the webhook may see an older Cluster than the stored one. `Stragglers`: the
version may be raised at any time and old machines join at any time; without it an upgrade meets a sleeping
shoot, or an awake one with an old node and no machine booting (`QuietUpgrade`). `LeavesEarly`: the version
may be raised above the minimum before the migration is over. `SeedMoves`: the shoot may be restored on
another seed. `csi_environment` has all four on; `csi_liveness` has `CacheLag` only, for the reasons given
above. A shoot
of an earlier release starts with the secret or with the config map; `DeployControlPlane` writes the secret.

In `FairSpec` events arrive, the controller works on queued keys, the gardenlet runs its flows and its daily
reconciliation (`Resync`), machine controllers roll machines and the resource manager creates missing
classes; changes of the shoot and faults are not fair. `Resync` starts only when the controller is at rest:
the daily period is longer than any reconciliation of one Cluster.

### Backup

`Scopes` bounds failed calls and restarts (`faults`) and requests of the gardenlet that may come any number
of times (`requests`: reconciliations, failing shoots); creation, migration, deletion and the removal of
secrets happen once per resource and need no bound. One scope has two entries and one fault, the other one
entry with two faults and two requests: the first is about what entries do to each other, the second about
retries. One backup name suffices, since blobs are deleted one by one and two entries may each have one; a
prefix that matched too much shows with two entries. `backup_stuck_deletion` needs no entry.

In `FairSpec` the two controllers and Azure's deletion are weakly fair, the gardenlet, etcd and the faults
are not: `EntryDeletionEnds` does not rest on anything the gardenlet does.

### Shoot

`MaxEvents` bounds changes of the shoot, changes of the CloudProfile and retries of the flow together. Two
are a change and its retry, or two changes of which the second meets what the first has left half done. The
shoot starts fresh, or as an earlier release has left it: cloud configuration in config maps, no domain
counts in the status, between two stages of the flow. Failures of a controller cost no event; a
reconciliation can be cut off after any object, any number of times. One pool suffices, since the pools are
generated independently of each other; a second zone lets shares differ. No fairness is assumed.

### SeedControllers

Three bounds (`MCLimits`), of which the initial state picks one: two requests of the gardenlet; one request
with a fault (a failed call or a restart); one request with two events (a remedy resource made or touched, a
pool scaled). A request is a change of the shoot, a migration with the restore that follows, or a deletion;
the creation comes before. So every operation meets a fault at each of its calls, and hibernation, wake-up,
rolling update and removal of a pool are followed by each other and by migration and deletion. Two
deployments are one that stays and one that comes or goes; two class versions and two replicas allow a
rolling update that is half done. There is one public IP address and one virtual machine.

Assumptions on the environment, each because the code relies on it:

* The gardenlet does not look at the resource between the removal of the annotation and the status that
  follows (`Ready`); a request that is lost with the process is made again (`RepeatRequest`), and the next
  reconciliation starts while one is at work only after an error was reported (`MayTurn`).
* A migration is asked for when the worker is at rest: its controller idle, its deployments those of the
  pools, all machines there and saved (`RequestMigrate`). The worker leaves before the control plane.
* A restored worker is reconciled before it is changed, and no pool is removed while the shoot sleeps
  (`ChangeShoot`). A deletion finds both finalizers (`RequestDelete`). Services and nodes are gone when the
  control plane is deleted (`serving`).
* A wait times out on its own only when the machine controller manager, or the remedy controller, has done
  what it can (`MCMAtRest`, `IsStuck`); an earlier timeout is a fault and counted as one.
* Where `MCMOutlives` is false the garbage collector ends the pod of the machine controller manager before the
  wait for its Deployment is over. The code does not see to it (5 above); `seed_controllers` and the proofs
  say what holds then, `seed_mcm_outlives` lifts the assumption alone. On the
  next seed nothing of the old one's runs: the gardenlet has deleted that namespace with its pods (`MoveSeed`).

`SuccessMeansRolled` leaves out two things that the code does not see to. A deployment that an interrupted
reconciliation has marked for deletion is updated and goes all the same when its pool comes back (`WasLeaving`).
And the autoscaler is stopped before a shoot sleeps only if a pool of the new spec can scale (`Autoscaled`); if
the same change gives all pools a fixed size, it may scale up once more before the machine controller manager
stops, and a machine stays. In all other cases a shoot that is reported asleep has none.

Weakly fair are the gardenlet, the two controllers, the remedy controller, the resource manager and the
machine controller manager; requests, faults and events are not. `RequestsSettle` says that reconciliation,
restore and deletion end. That a request to leave the seed ends is not claimed: the remedy controller of a
shoot that sleeps has no replica, its resources wait for it, and the model does not follow its replicas.

## 5. Proofs

`InfrastructureProofs` proves, for every set of resources and pod names and every bound on faults and
requests, the first four in every environment:

* `TypeCorrect`: `Spec => []TypeOK`. One lemma per group of actions and per part of the state.
* `OneTerraformer`: `Spec => []AtMostOneTerraformer`. The invariant alone is not inductive: a step of
  `DeployPod` keeps it only if no pod exists then. `OnePodInv` adds that no pod exists at `skip` and
  `deploy`. Only `DeployPod` creates a pod (`PodsComeFromDeploy`), and the only way to these two places
  leads through `Prepared`, which has seen no pod (`DeployIsPrepared`).
* `DeletesOnly`: `Spec => DeletionOnlyDeletes`. `DestroyInv`: past the two waiting steps of Delete, every
  pod runs "destroy". It is entered with no pod at all (`CleanedUpIsWaitedFor`), and `DeployPod` of a
  deletion makes a destroy pod; only apply pods create (`OnlyApplyCreates`).

* `SuccessIsTrue`: `Spec => []SuccessIsComplete`. `ControlInv` says what runs where: which branch a place
  belongs to (`Places`), what the last operation is meanwhile, and that no success is stored while the
  actuator works (`OperationInv`). `SuccessInv`: a success is reported after the only pod has ended and with
  the complete state, so nothing can change that state before the next operation begins. `KnownInv`: until a
  deletion or migration begins, everything listed exists.

The other theorems need an assumption on the environment: the states published for a restore are Terraform's
(`StatesArePublished`), and for the last two moreover no node is lost and no deletion cuts off a restore
(`QuietSeed`). Section 4 says what goes wrong without the last two.

* `StatesAreKept`: `StatesArePublished` and `Spec` give `StateNeverReset`. `InitializeState` would be the
  other action to reset it; `RestoredInv` says that a restore has a state to write.
* `NothingIsForgotten`: `QuietSeed` and `Spec` give `[]NothingForgotten`. `Memory`: while a pod runs, the pod
  knows the cloud; while none does, what is stored does, in the state ConfigMap or before it is initialised
  in Status.State (`Recorded`); with no state there is no pod that could create something unrecorded. It rests
  on `RestoreInv` (a restore is not mixed with other operations) and `CountInv` (what execute counted before
  the pods were deleted still holds when it deploys, and a restore writes over no state).
* `DeletionLeavesNone`: the same for `[]DeletionLeavesNothing`. `DeletionInv` says what a deletion has reached
  at each place. Each way to the cleanup shows that the cloud is empty: an empty state without pods
  (`Memory`), an incomplete configuration without a state (`CountInv`), or a destroy that succeeded.

`CSIMigrationProofs` proves, for every set of machines and classes and with every switch:

* `TypeCorrect`: `Spec => []TypeOK`, from `EnsureType`, which says what the webhook's operators return.
* `CompletedAwake`: `Spec => MigratesAwake`. `CopyInv` says that a fresh copy is the stored Cluster, and
  that from the check of the nodes to the annotation the copy is awake and of the minimum version. An
  Update with a copy that is not fresh changes nothing; so the optimistic lock of the last Update covers
  the checks before it.
* `PatchesEqualDeployments`: `Spec => []PatchLeavesOnlyChecksums`. A patch starts from what is deployed, a
  deployment from nothing. `EnsureAgain` says that both give the same, but for checksums, if the version and
  the annotation have only grown since the last mutation, and `PiecesInv` that they have: the cache never shows a Cluster
  later than the stored one, and never goes back.

The same module proves the other invariants of the migration, the first in every environment, the other
two in a quiet one (`QuietEnvironment`: no stragglers, no version raised before the migration is over, no
move to another seed; the cache may lag, calls may fail, flows may be interrupted, shoots may start in any
way). Section 4 says what goes wrong in the others.

* `KubeletsFindCSI`: `Spec => []NewKubeletsNeedCSI`. `KubeletInv`: what the flow has deployed since it stored
  the specification has the gates of that version (`FlowGated`), so all have when the workers get theirs; a
  patch never takes a gate away, and versions only grow.
* `CompletedIsRolled`: `QuietEnvironment` and `Spec` give `[]CompleteMeansNewKubelets`. The state to reach is
  `Rolled`: no old node is left, none will come, and the storage classes in the managed resource have
  changed. `RolledStays` says that it stays so; `UpgradeInv` why the check of the nodes finds it: a shoot that
  got the minimum version with old kubelets sleeps without machines, or has an old node until there is a
  new one. `CompletionInv` carries it from the check to the annotation and from there to the webhook.
* `CompletedHasNoLegacy`: in the same environment, `[]NoLegacyClasses`. The loop deletes what it has listed;
  the rest cannot come back after the list since the managed resource has changed before (`Rolled`).

`BackupProofs` proves, for every set of entries and backups and every scope:

* `TypeCorrect`: `Spec => []TypeOK`.
* `ControllersKeepBackups`: `Spec => BackupsAreKept`, the refinement of `BackupStore`. `status` is computed
  from the resource (`Status`), `data` is `blobs`. The step from "dropping" or "live" to "gone" must find
  no blobs, so the invariant (`StoreInv`) says what the controller knows at each place: what has been
  listed covers the blobs (`DataInv`), no blob comes after that since the shoot is stopped before the
  deletion (`ResourceInv`), and blobs are only skipped when the secret is gone, which it cannot be while
  there are any (`SecretInv`: the secret of such an entry carries the finalizer). `EntryStory` says what
  one step does to the status and blobs of its entry, `OthersAreLeftAlone` that it does nothing to the
  others, which is where the slash of the prefix matters, and `BackupsOutliveBucketSteps` that the
  bucket's deletion finds an empty container (`BucketInv`).
* `CredentialsAreSafe`: `Spec => []CredentialsOutliveResources`, from `SecretInv` and, for the bucket,
  `BucketSecretInv`: the secret is held before the first call to Azure and is released only by a deletion.
* `BucketsLeaveNothing`: `Spec => []RemovedBucketLeavesNothing`. `BucketGoneInv` says what a deletion has
  removed at each place, that it comes to the container only with the reference of the generated secret
  stored (without it `Delete` would end there), and that a bucket without the finalizer has nothing yet or
  nothing left.

`SeedControllersProofs` proves, for all shoots, pools, class versions, remedy resources and bounds:

* `TypeCorrect`: `Spec => []TypeOK`. The types alone are not inductive: what a run of the worker controller
  has listed is of its type only where it has listed, and a restore reads the saved state deployment by
  deployment, so that state must not change meanwhile. `Inv` adds which branch a run can be in at each place
  (`JobsAt`), what it has read there (`ReadAt`), and that a worker whose restore is on is stored as
  "restore, processing", which keeps the state reconciler away (`RestoreKeepsState`, `NotWhileRestoring`);
  the last also says that nobody is at the worker when the gardenlet moves the control plane.

`SeedControlPlaneProofs` proves, with the same generality:

* `AddressesAreKept`: `Spec => []ListedAddressesAreKept`. `CPControl` says where the gardenlet, the stored
  resource and the run of the controller can be at the same time (`CPStages`, `CPBusyWith`, `CPPlaces`);
  `AddressesKept` that at the loop each listed address is annotated or still to be visited, so at its end,
  where the deletion starts, all are.

For what the control plane leaves, `CPResources` says what the controller has brought about at each place:
`Deployed` (the charts of every enabled component are there from the shoot's chart on), `Managed` (no
managed resource is being deleted while a run deploys, and both exist when it reports), `Unmanaged` (none
exists once the seed's chart goes), `Dropped` (what has been deleted so far), `Erased` (no remedy resource
waits to be released once the waits are over). `DeploysResources`,
`DeletesResources`, `GardenletResources` and `RestResources` take one group of steps each; that what is served
is served, a part of the invariant (`SeedInv`), follows from these places (`DeploysServed`, `DeletesServed`).
The theorems:

* `PartsAreServed`: `Spec => []ShootPartsAreServed`.
* `RemedyStaysForItsResources`: `Spec => RemedyOutlivesItsResources`.
* `ReportedIsHealthy`: `Spec => HealthyWhenReported`.
* `NothingIsLeft`: `Spec => []ControlPlaneLeavesNothing`, the control plane's half of `DeletionLeavesNothing`.

`SeedWorkerProofs` adds the machines. That every virtual machine has a machine (`Covered`) is not an
invariant: between Migrate in one seed and Restore in the other, the machines are only in the saved state.
`Known` says which of the two holds, by where the gardenlet is (`HandedOver`). The invariant has these parts:

* `WStages` and `WBranches`: which operation the gardenlet, the stored worker and the run of the controller
  can be at together. The worker of a seed that is left is not reconciled, and a restore reads the pools
  that are wanted.
* `Leaves`: Migrate removes the machine controller manager, with its pod (`~MCMOutlives`), before the first
  machine, so nobody takes a missing machine for one to delete; while it is still there, no machine is outside the saved state.
* `Returns`: at each place of Restore, a virtual machine has a machine or belongs to a deployment the loop has
  still to visit, and it has a deployment before the machine controller manager may run again.
* `Deletes`: from the last wait of Delete on, nothing is left.

`WEndsData`, `ReconcilesData`, `MigratesData`, `RestoresData` take the steps of the controller,
`MCMData` those of the machine controller manager (`MCMKeeps` is all the proof asks of it), the rest those of
the gardenlet, the autoscaler and the state reconciler (`SyncStateData`), whose writes are the saved state
the move relies on. The theorems:

* `MachinesAreKept`: `~MCMOutlives` and `Spec` give `[]NoOrphans`. Without the hypothesis it is false
  (`seed_mcm_outlives`); all three theorems have it.
* `DeletionIsComplete`: `[]DeletionLeavesNothing`, for worker and control plane.
* `ReportedMeansRolled`: `SuccessMeansRolled`, if no pool of a shoot may be without a machine
  (`PoolsHaveMachines`). A pool with minimum zero is not waited for, and a class that is deleted meanwhile
  may be missing when it scales up; so the hypothesis is needed, and it is all that is asked of the shoots.

The third adds `RolledInv` to the invariant:

* `Asked`: the pools a run has read, and the bounds the autoscaler keeps to, have a machine at least.
* `Owners`: outside a handover every machine is of a deployment; within one, of a pool whose machine sets are
  saved, so Restore makes it a deployment.
* `Rolling`: what a reconciliation has established at each call. `ScalersSet`: the machine controller manager
  runs or has been stopped, and an autoscaler that might wake a sleeping shoot has been stopped.
  `ClassesReady`: a wanted class is there or has no virtual machine. `DeploymentsReady`: the deployments
  visited have the class and the replicas of the new spec, and only one that was being deleted when they were
  listed is being deleted now. `MachinesReady`: a wanted pool has machines of its new class only, one at least,
  which is why that class cannot be finalized before the success is stored (`FinalizeClass` takes a class
  without machines). `UnwantedGone`.

`ReconcileActs` and the `Rolling...` lemmas take the calls of the controller, `RollingKept`, `RollingMCM` and
`RollingScaled` what the others do to its machines between them.

`MachineConfigProofs` proves what the operators of `MachineConfig` compute. Induction over data is out of the
prover's reach, induction over sets is not: `LeastNatural` and `SetInduction` follow from the library's fact
that the strict subsets of a set are well-founded, and so does `SumOfNeighbours`, the sum over a set whose
members have one of two neighbouring values. `GeneratedImages`: whatever order the pools come in, the list of
machine images that is stored holds the image of every pool. `SameDisks`: sorting the data volumes by name
keeps how many there are of each size and type. `SharesAddUp`, `SharesGrow`, `ZonedPoolShares`: what
`DistributeOverZones` gives the zones adds up to the pool, never gives a zone more at least than at most, and
differs between zones by one at most.

`ShootProofs` proves every safety property of `shoot_safety`, for all shoots, profiles and bounds. Each
invariant is inductive given the ones before it:

* `TypeInv`: with the types, the fields of the resources. `Admitted`: a shoot has a config of the right type
  because `Handle` has decoded one. Theorem `ShootTypeOK`.
* `StopInv`: a run that leaves the components stopped has seen the API server stopped, and the flow of a
  hibernated shoot starts none. Theorem `ShootStopsAfterAPIServer`. `LegacyConfigKept` is inductive as it
  stands (theorem `ShootLegacyConfigKept`).
* `InfraInv`, `CopiesInv`: a stored status is whole (`Whole`: every lookup by purpose finds what it looks
  for), and so are the copies in the ControlPlane and in the Worker. `StatusOfLayout` computes the status of
  any layout, `LegacyStatusOfLayout` the one an earlier release has stored. `StoredCountsWin` gives theorem
  `ShootDomainCountsKept`.
* `LayoutInv`, `ConfigInv`, `MachinesInv`: from which stage on the status speaks of what is applied, the
  cloud configuration of that status, and the classes of both. A run that was on its way when the flow went
  on is overtaken by `pending`. Theorem `ShootAgreesOnLayout`. With `CurrentInv`, for the checksums and
  replicas, theorem `ShootRunsCurrentConfig`.
* `ZonedInv`, `ImagesInv`: while the immutable fields are kept a status is not zoned where the shoot is not,
  so a non-zoned shoot finds its availability set in it; and what the status of the workers remembers covers
  the pools, or a run is about to store what does. Theorem `ShootStaysRenderable`.
* `HashInv`: every class was generated, so its hash determines its hardware and its disks up to their order.
  Theorem `ShootSameNameSameMachine`.
* `AdmittedInv`, `SharesInv`: the pools the controller works from were admitted for the `zoned` its status
  says, so that a zoned pool has zones and another has none; `GeneratedServes` then gives theorem
  `ShootZoneShares`. Without the first, a zoned pool without zones would have no deployment at all.

Two assumptions of `Shoot` carry more than types. `ShootAssumption` asks of the shoots what Gardener's own
API server admits before the provider sees them (`ValidWorkers`, from `ValidateWorkers` and `ValidateWorker`
of `vendor/github.com/gardener/gardener/pkg/apis/core/validation/shoot.go`): names of pools and of a pool's
data volumes are distinct, and `0 <= minimum <= maximum`. `NilIsNoObject` says that `Nil`, which stands for a
missing object, is none of the records the model builds; the prover would otherwise have to admit that a
record with those fields is the missing one.

The other assumptions are the named ASSUMEs on the constants: `Nil` is none of the values it stands beside,
addresses and machines are different resources, bounds are naturals. TLC evaluates all of them on every run.

What stays with TLC is liveness alone (`OperationsFinish`, `MigrationFinishes`, `EventuallyAdapted`,
`EntryDeletionEnds`, `RequestsSettle`), since the prover does not do ENABLED.

## 6. Not modelled

* The network webhook, and the exposure webhook's mutations of service and etcds: each sets fields of one
  object to constants.
* The execution of health checks, which is the library's; only which checks are registered is modelled.
* Command wiring, the configuration types, generated conversions and deep copies: registration and data.
* The exposure purpose of a ControlPlane, for which the provider has no chart, and the rotation of a
  BackupEntry's credentials.

Inside the modelled parts: logging, events, error texts and codes, the text of the charts, the contents of
the credentials where nothing depends on them, and the number and duration of retries: a retried call
either succeeds or fails for good. Machines of one class are counted and not told apart. The machine
controller manager, the autoscaler, the remedy controller, the resource manager, the gardenlet, Terraform,
Azure and etcd are environment, modelled by what the code of this repository relies on.
