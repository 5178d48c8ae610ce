------------------------ MODULE ControlPlaneWebhook ------------------------
(***************************************************************************)
(* What the control plane webhook (pkg/webhook/controlplane/ensurer.go)    *)
(* makes of the deployments of a shoot's control plane and of its          *)
(* kubelets, as a function of the Cluster it reads.  A deployment is the   *)
(* set of its pieces the webhook cares about; everything else in it is     *)
(* left alone.                                                             *)
(***************************************************************************)
EXTENDS Integers

\* Shoot versions as the code tells them apart: below 1.17, then up to 1.19,
\* 1.20.x, and above.
Versions == -1..2
etcSSLVersion == 0
csiMigrationVersion == 1

Deployments == {"kube-apiserver", "kube-controller-manager", "kube-scheduler"}

Gates         == {"CSIMigration"}
CompleteGates == {"CSIMigrationComplete"}
CloudArgs     == {"--cloud-provider", "--cloud-config"}
PluginArgs    == {"PersistentVolumeLabel enabled", "--external-cloud-volume-plugin"}
Volumes       == {"cloud-provider-config", "etc-ssl"}
Checksums     == {"secret checksum", "configmap checksum"}
OtherPieces   == {"network labels", "PersistentVolumeLabel disabled"}
Pieces == Gates \cup CompleteGates \cup CloudArgs \cup PluginArgs \cup Volumes \cup Checksums
              \cup OtherPieces

\* Is CSI used at all, and is the migration to it complete?
UseCSI(version) == version >= csiMigrationVersion

MigrationComplete_OnlyAbove(version, needsComplete) == version > csiMigrationVersion
MigrationComplete(version, needsComplete) ==
    \/ version = csiMigrationVersion /\ needsComplete
    \/ version > csiMigrationVersion

EnsureGates_OnlyComplete(pieces, version, complete) ==
    pieces \cup (IF complete THEN Gates \cup CompleteGates ELSE {})
EnsureGates(pieces, version, complete) ==
    pieces \cup (IF UseCSI(version) THEN Gates ELSE {})
           \cup (IF complete THEN CompleteGates ELSE {})

\* The images of the control plane have no root certificates since 1.17.
mustMountEtcSSLFolder(version) == version >= etcSSLVersion

EnsureVolumes(pieces, version, complete) ==
    IF complete THEN pieces \ Volumes
    ELSE pieces \cup {"cloud-provider-config"}
                \cup (IF mustMountEtcSSLFolder(version) THEN {"etc-ssl"} ELSE {})

\* The checksum of the secret, or of the config map of earlier releases while
\* there is no secret.  Only the latter is removed again.
EnsureChecksumAnnotations(pieces, complete, secret) ==
    IF complete THEN pieces \ {"configmap checksum"}
    ELSE pieces \cup {IF secret THEN "secret checksum" ELSE "configmap checksum"}

EnsureKubeAPIServer(pieces, version, complete, secret) ==
    LET gated    == EnsureGates(pieces, version, complete)
        in_tree  == CloudArgs \cup {"PersistentVolumeLabel enabled"}
        disabled == {"PersistentVolumeLabel disabled"}
        args     == IF complete THEN (gated \ in_tree) \cup disabled
                                ELSE (gated \ disabled) \cup in_tree
    IN  EnsureChecksumAnnotations(EnsureVolumes(args, version, complete), complete, secret)

\* The controller manager never talks to the cloud itself, so it keeps
\* --cloud-provider=external.
EnsureKubeControllerManager_KeepsConfig(pieces, version, complete, secret) ==
    LET gated   == EnsureGates(pieces, version, complete) \cup {"--cloud-provider"}
        in_tree == {"--cloud-config", "--external-cloud-volume-plugin", "network labels"}
        args    == IF complete THEN gated ELSE gated \cup in_tree
    IN  EnsureChecksumAnnotations(EnsureVolumes(args, version, complete), complete, secret)
EnsureKubeControllerManager(pieces, version, complete, secret) ==
    LET gated   == EnsureGates(pieces, version, complete) \cup {"--cloud-provider"}
        in_tree == {"--cloud-config", "--external-cloud-volume-plugin", "network labels"}
        args    == IF complete THEN gated \ in_tree ELSE gated \cup in_tree
    IN  EnsureChecksumAnnotations(EnsureVolumes(args, version, complete), complete, secret)

EnsureKubeScheduler_Misspelt(pieces, version, complete) ==
    EnsureGates(pieces, version, FALSE) \cup (IF complete THEN {"CSIMigrationCompleted"} ELSE {})
EnsureKubeScheduler(pieces, version, complete) == EnsureGates(pieces, version, complete)

\* Mutate: the deployment d with these pieces, for this version and
\* annotation of the Cluster, with or without the secret cloud-provider-config.
Ensure(d, pieces, version, needsComplete, secret) ==
    LET complete == MigrationComplete(version, needsComplete)
    IN  CASE d = "kube-apiserver"          -> EnsureKubeAPIServer(pieces, version, complete, secret)
          [] d = "kube-controller-manager" -> EnsureKubeControllerManager(pieces, version, complete, secret)
          [] d = "kube-scheduler"          -> EnsureKubeScheduler(pieces, version, complete)

\* Kubelets of a version that uses CSI start with the complete gates at once
\* and without the in-tree provider (EnsureKubeletConfiguration,
\* EnsureKubeletServiceUnitOptions, ShouldProvisionKubeletCloudProviderConfig).
EnsureKubelet(version) == IF UseCSI(version) THEN "new" ELSE "old"
=============================================================================
