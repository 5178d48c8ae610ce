------------------------- MODULE ControlPlaneValues -------------------------
(***************************************************************************)
(* What the values provider of the control plane controller                *)
(* (pkg/controller/controlplane/valuesprovider.go) puts into its charts,   *)
(* as a function of the shoot and of the infrastructure status, and which  *)
(* objects it names in them.  A checksum stands for the data it is the     *)
(* digest of.                                                              *)
(***************************************************************************)
EXTENDS AzureAPI

Components == {"cloud-controller-manager", "csi-driver-controller", "remedy-controller-azure"}

\* Versions are 0 below 1.20, 1 for 1.20 and 2 above.
csiVersion == 1

\* The client certificates and kubeconfigs the components log in with.
SecretConfigs ==
    {"cloud-controller-manager", "cloud-controller-manager-server", "csi-driver-controller-file",
     "csi-provisioner", "csi-attacher", "csi-snapshotter", "csi-resizer", "csi-snapshot-controller",
     "remedy-controller-azure"}

\* The objects of the seed that Delete knows of, and those the charts' own
\* templates create for a component; <<kind, name>>.
ConfigObjects == {<<"Secret", "cloud-provider-config">>, <<"Secret", "cloud-provider-disk-config">>}
SeedObjects(component) ==
    CASE component = "cloud-controller-manager" ->
             {<<kind, component>> : kind \in {"Service", "Deployment", "VPA", "ConfigMap"}}
      [] component = "csi-driver-controller" ->
             {"Deployment", "VPA"} \X {"csi-driver-controller-disk", "csi-driver-controller-file",
                                       "csi-snapshot-controller"}
      [] component = "remedy-controller-azure" ->
             {<<kind, component>> : kind \in {"Deployment", "ConfigMap", "VPA", "Role", "RoleBinding",
                                              "ServiceAccount"}}
ConfigTemplates(values) ==
    ConfigObjects \cup (IF values.acrIdentityClientId = Nil THEN {} ELSE {<<"ConfigMap", "kubelet-acr-config">>})
SeedTemplates(component) ==
    SeedObjects(component)
        \cup (IF component = "remedy-controller-azure"
              THEN {<<"Service", component>>, <<"ConfigMap", "remedy-controller-azure-monitoring-config">>}
              ELSE {})

\* GetControlPlaneReplicas: components stop only for a hibernated shoot that
\* is not being deleted, once its API server has stopped.
Replicas_Hibernated(hibernated, deleting, scaledDown) == IF hibernated THEN 0 ELSE 1
Replicas(hibernated, deleting, scaledDown) == IF ~deleting /\ hibernated /\ scaledDown THEN 0 ELSE 1

AcrAccess(status) == status.identity # Nil /\ status.identity.acrAccess

MaxNodes(workers) ==
    LET total[i \in 0 .. Len(workers)] == IF i = 0 THEN 0 ELSE total[i - 1] + workers[i].maximum
    IN  total[Len(workers)]

\* The configuration of the cloud controller manager and the nodes.  Nil is
\* an error: the status lacks a subnet, a route table, a security group or, of
\* a shoot that is not zoned, the availability set.
getConfigChartValues(status, shoot, auth) ==
    LET needsSet == ~status.zoned
        subnet == FindByPurpose(status.subnets, "nodes")
        table  == FindByPurpose(status.routeTables, "nodes")
        group  == FindByPurpose(status.securityGroups, "nodes")
        set    == FindByPurpose(status.availabilitySets, "nodes")
    IN  IF Nil \in {subnet, table, group} \/ (needsSet /\ set = Nil) THEN Nil
        ELSE [auth                |-> auth,
              version             |-> shoot.version,
              resourceGroup       |-> status.resourceGroup,
              vnet                |-> status.vnet,
              subnet              |-> subnet.name,
              routeTable          |-> table.name,
              securityGroup       |-> group.name,
              availabilitySetName |-> IF needsSet THEN set.name ELSE Nil,
              acrIdentityClientId |-> IF AcrAccess(status) THEN status.identity.clientID ELSE Nil,
              maxNodes            |-> MaxNodes(shoot.workers)]

\* Which components the control plane chart enables.
Enabled(component, shoot) ==
    /\ component = "csi-driver-controller" => shoot.version >= csiVersion
    /\ component = "remedy-controller-azure" => shoot.remedy

\* The values of the control plane chart: for each component it enables, the
\* replicas and the checksums its pods are annotated with.
getControlPlaneChartValues(shoot, config, scaledDown) ==
    [component \in {c \in Components : Enabled(c, shoot)} |->
        [replicas |-> Replicas(shoot.hibernated, shoot.deleting, scaledDown), checksum |-> config]]

\* The values of the chart for the shoot: its enabled sub-charts and the disk
\* configuration its nodes mount.
getControlPlaneShootChartValues(shoot, status, config) ==
    [charts     |-> {"cloud-controller-manager"}
                        \cup (IF status.zoned THEN {"allow-udp-egress"} ELSE {})
                        \cup (IF shoot.version >= csiVersion THEN {"csi-driver-node"} ELSE {})
                        \cup (IF shoot.remedy THEN {"remedy-controller-azure"} ELSE {}),
     diskConfig |-> IF shoot.version >= csiVersion THEN config ELSE Nil]

getStorageClassesChartValues(shoot) == [useLegacyProvisioner |-> shoot.version < csiVersion]

\* deleteLegacyCloudProviderConfigMaps: the disk config goes at once, the
\* other one when the API server's deployment no longer mounts it.
LegacyConfigMaps == {"cloud-provider-config", "cloud-provider-disk-config"}
deleteLegacyCloudProviderConfigMaps_All(configMaps, mounted) == configMaps \ LegacyConfigMaps
deleteLegacyCloudProviderConfigMaps(configMaps, mounted) ==
    configMaps \ (IF mounted THEN LegacyConfigMaps \ {"cloud-provider-config"} ELSE LegacyConfigMaps)
=============================================================================
