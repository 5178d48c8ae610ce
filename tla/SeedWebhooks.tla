---------------------------- MODULE SeedWebhooks ----------------------------
(***************************************************************************)
(* What the webhooks of pkg/webhook read from the seed and put into the    *)
(* deployment of the API server, into the etcds and into the files of the  *)
(* nodes.  The feature gates and flags of the CSI migration are            *)
(* ControlPlaneWebhook's; here it is the cloud configuration, the address  *)
(* and the access to the registry.  An API server's deployment is          *)
(*   [mounts, checksum, address, replicas].                                *)
(***************************************************************************)
EXTENDS ControlPlaneValues

Webhook == INSTANCE ControlPlaneWebhook

\* controlplaneexposure: nothing is advertised for a hibernated shoot.
EnsureAddress(deployment, hibernated, address) ==
    IF hibernated THEN deployment ELSE [deployment EXCEPT !.address = address]

\* What the config maps of earlier releases hold.
LegacyConfig == [legacy |-> TRUE]

\* The secret is mounted whether it is there already or not; the checksum
\* falls back to the config map of earlier releases, and only that one is
\* removed when the migration is complete.
ensureChecksumAnnotations(config, configMaps) ==
    CASE config # Nil -> config
      [] config = Nil /\ "cloud-provider-config" \in configMaps -> LegacyConfig
      [] OTHER -> Nil
EnsureCloudConfig_KeepsChecksum(deployment, complete, config, configMaps) ==
    [deployment EXCEPT !.mounts = IF complete THEN "none" ELSE "secret"]
EnsureCloudConfig(deployment, complete, config, configMaps) ==
    [deployment EXCEPT !.mounts   = IF complete THEN "none" ELSE "secret",
                       !.checksum = IF ~complete THEN ensureChecksumAnnotations(config, configMaps)
                                    ELSE IF deployment.checksum = LegacyConfig THEN Nil
                                    ELSE deployment.checksum]

\* Both webhooks; an error when the checksum finds neither object.
EnsureKubeAPIServerDeployment(deployment, shoot, needsComplete, config, configMaps, address) ==
    LET complete == Webhook!MigrationComplete(shoot.version, needsComplete)
    IN  IF ~complete /\ ensureChecksumAnnotations(config, configMaps) = Nil THEN Nil
        ELSE EnsureAddress(EnsureCloudConfig(deployment, complete, config, configMaps),
                           shoot.hibernated, address)

\* What kubelets without CSI find in cloudprovider.conf.
EnsureKubeletCloudProviderConfig(config, configMaps) ==
    CASE config # Nil -> config
      [] config = Nil /\ "cloud-provider-disk-config" \in configMaps -> LegacyConfig
      [] OTHER -> Nil

\* The registry's configuration: a file and a flag when its config map exists.
getAcrConfigMap(configMaps) == "kubelet-acr-config" \in configMaps

\* The kubelet's part of the operating system config.
EnsureKubeletFiles(version, config, configMaps) ==
    [config |-> IF Webhook!EnsureKubelet(version) = "old"
                THEN EnsureKubeletCloudProviderConfig(config, configMaps) ELSE Nil,
     acr    |-> getAcrConfigMap(configMaps)]
=============================================================================
