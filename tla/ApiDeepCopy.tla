------------------------------ MODULE ApiDeepCopy ------------------------------
(***************************************************************************)
(* The generated DeepCopyInto of every structure of the API, of the three  *)
(* versions (zz_generated.deepcopy.go).  Each starts with "*out = *in",    *)
(* which shares whatever the structure refers to, and then replaces the    *)
(* fields named here: a fresh one gets memory of its own whose contents    *)
(* are assigned, a deep one is copied by the DeepCopy of its type.         *)
(***************************************************************************)
EXTENDS ApiTypes

Copied(fresh, deep) == [fresh |-> fresh, deep |-> deep]
Plain(names) == [T \in names |-> Copied({}, {})]
Fresh(names) == Copied(names, {})
Deep(names) == Copied({}, names)

----------------------------------------------------------------------------
(* zz_generated.deepcopy.go *)

\* APIEndpoint to AddonRef.
KubeoneCopies1 ==
  [APIEndpoint |-> Fresh({"AlternativeNames"}),
   AWSControlPlane |-> Deep({"LoadBalancer"}),
   AWSLoadBalancer |-> Fresh({"Internal", "SecurityGroupIDs", "Tags"}),
   AWSSpec |-> Deep({"ControlPlane"}),
   Addon |-> Fresh({"Params"}),
   AddonRef |-> Deep({"Addon", "HelmRelease"})]

\* Addons to BinaryAsset.
KubeoneCopies2 ==
  Plain({"AlwaysPullImages", "AssetConfiguration", "AuthenticationConfiguration",
        "AzureControlPlane", "AzureLoadBalancer", "BinaryAsset"}) @@
  [Addons |-> Deep({"Addons"}),
   AzureSpec |-> Fresh({"ControlPlane"})]

\* CNI to CiliumSpec.
KubeoneCopies3 ==
  Plain({"CanalSpec", "CiliumSpec"}) @@
  [CNI |-> Fresh({"Canal", "Cilium", "WeaveNet", "External"}),
   CertificateAuthorithyConfig |-> Fresh({"CertificateValidityPeriod",
        "CACertificateValidityPeriod"})]

\* CloudProviderSpec to ContainerRuntimeConfig.
KubeoneCopies4 ==
  [CloudProviderSpec |-> Copied({"Nutanix", "EquinixMetal", "VMwareCloudDirector", "Vsphere",
        "None"}, {"AWS", "Azure", "DigitalOcean", "GCE", "Hetzner", "Kubevirt", "Openstack"}),
   ClusterNetworkConfig |-> Copied({"NodeCIDRMaskSizeIPv4", "NodeCIDRMaskSizeIPv6",
        "ClusterDNS"}, {"CNI", "KubeProxy"}),
   ContainerRuntimeConfig |-> Deep({"Containerd"})]

\* ContainerRuntimeContainerd to ControlPlaneComponentConfig.
KubeoneCopies5 ==
  Plain({"ContainerdRegistryAuthConfig", "ContainerdTLSConfig"}) @@
  [ContainerRuntimeContainerd |-> Copied({"DeviceOwnershipFromSecurityContext"}, {"Registries"}),
   ContainerdRegistry |-> Fresh({"Mirrors", "TLSConfig", "Auth"}),
   ControlPlaneComponentConfig |-> Fresh({"Flags", "FeatureGates"})]

\* ControlPlaneComponents to DigitalOceanLoadBalancer.
KubeoneCopies6 ==
  Plain({"DigitalOceanControlPlane", "DigitalOceanLoadBalancer"}) @@
  [ControlPlaneComponents |-> Copied({"Etcd"}, {"ControllerManager", "Scheduler", "APIServer"}),
   ControlPlaneConfig |-> Deep({"Hosts", "NodeSets"}),
   CoreDNS |-> Fresh({"Replicas", "DeployPodDisruptionBudget"}),
   DNSConfig |-> Fresh({"Servers"})]

\* DigitalOceanSpec to EventRateLimitConfig.
KubeoneCopies7 ==
  Plain({"DynamicAuditLog", "EncryptionProviders", "EquinixMetalSpec", "EtcdConfig",
        "EventRateLimit", "EventRateLimitConfig"}) @@
  [DigitalOceanSpec |-> Fresh({"ControlPlane"}),
   DynamicWorkerConfig |-> Copied({"Replicas"}, {"Config"})]

\* ExternalCNISpec to GCESpec.
KubeoneCopies8 ==
  Plain({"ExternalCNISpec"}) @@
  [Features |-> Copied({"AlwaysPullImages", "EventRateLimit", "PodNodeSelector",
        "StaticAuditLog", "DynamicAuditLog", "WebhookAuditLog", "MetricsServer",
        "OpenIDConnect", "AuthenticationConfiguration", "EncryptionProviders", "NodeLocalDNS"},
        {"CoreDNS"}),
   GCEControlPlane |-> Deep({"LoadBalancer"}),
   GCELoadBalancer |-> Fresh({"AllowedSourceRanges"}),
   GCESpec |-> Deep({"ControlPlane"})]

\* HelmAuth to HetznerSpec.
KubeoneCopies9 ==
  Plain({"HelmAuth"}) @@
  [HelmRelease |-> Copied({"Auth"}, {"Values"}),
   HelmValues |-> Fresh({"Inline"}),
   HetznerControlPlane |-> Deep({"LoadBalancer"}),
   HetznerLoadBalancer |-> Fresh({"PublicIP", "Labels"}),
   HetznerSpec |-> Deep({"ControlPlane"})]

\* HostConfig to JournaldConfig.
KubeoneCopies10 ==
  Plain({"IPTables", "ImageAsset", "JournaldConfig"}) @@
  [HostConfig |-> Copied({"IPv6Addresses", "SSHHostPublicKey", "BastionHostPublicKey", "Labels",
        "Annotations"}, {"Taints", "Kubelet"}),
   IPVSConfig |-> Fresh({"ExcludeCIDRs"})]

\* KubeOneCluster to KubeProxyConfig.
KubeoneCopies11 ==
  [KubeOneCluster |-> Copied({"MachineController", "OperatingSystemManager", "SystemPackages",
        "RegistryConfiguration"}, {"ControlPlane", "KubeletConfig", "APIEndpoint",
        "CloudProvider", "ContainerRuntime", "ClusterNetwork", "StaticWorkers",
        "DynamicWorkers", "CertificateAuthority", "Features", "Addons", "TLSCipherSuites",
        "ControlPlaneComponents"}),
   KubeProxyConfig |-> Copied({"IPTables"}, {"IPVS"})]

\* KubeletConfig to LoggingConfig.
KubeoneCopies12 ==
  Plain({"LoggingConfig"}) @@
  [KubeletConfig |-> Fresh({"SystemReserved", "KubeReserved", "EvictionHard", "MaxPods",
        "PodPidsLimit", "ImageGCHighThresholdPercent", "ImageGCLowThresholdPercent"}),
   KubevirtControlPlane |-> Deep({"LoadBalancer"}),
   KubevirtLoadBalancer |-> Fresh({"Annotations"}),
   KubevirtSpec |-> Deep({"ControlPlane"})]

\* MachineControllerConfig to NutanixSpec.
KubeoneCopies13 ==
  Plain({"MachineControllerConfig", "MetricsServer", "NodeLocalDNS", "NoneSpec",
        "NutanixSpec"}) @@
  [NodeSet |-> Copied({"CloudProviderSpec"}, {"NodeSettings", "SSH"}),
   NodeSettingsSpec |-> Copied({"Labels", "Annotations"}, {"Taints"})]

\* OpenIDConnect to PodNodeSelector.
KubeoneCopies14 ==
  Plain({"OpenIDConnect", "OpenIDConnectConfig", "OpenstackControlPlane",
        "OpenstackLoadBalancer", "OperatingSystemManagerConfig", "OperatingSystemSpec",
        "PodNodeSelector"}) @@
  [OpenstackSpec |-> Fresh({"ControlPlane"})]

\* PodNodeSelectorConfig to RegistryConfiguration.
\* Mutant: the list of taints is copied, what its entries point to is shared.
TaintsByAssignment ==
  Plain({"PodNodeSelectorConfig", "ProxyConfig", "RegistryConfiguration"}) @@
  [ProviderSpec |-> Copied({"CloudProviderSpec", "Annotations", "NodeAnnotations", "Taints",
        "MachineObjectAnnotations", "Labels", "SSHPublicKeys", "OperatingSystemSpec",
        "OverwriteCloudConfig"}, {"Network"}),
   ProviderStaticNetworkConfig |-> Deep({"DNS"})]

KubeoneCopies15 ==
  Plain({"PodNodeSelectorConfig", "ProxyConfig", "RegistryConfiguration"}) @@
  [ProviderSpec |-> Copied({"CloudProviderSpec", "Annotations", "NodeAnnotations",
        "MachineObjectAnnotations", "Labels", "SSHPublicKeys", "OperatingSystemSpec",
        "OverwriteCloudConfig"}, {"Taints", "Network"}),
   ProviderStaticNetworkConfig |-> Deep({"DNS"})]

\* SSHSpec to VMwareCloudDirectorSpec.
KubeoneCopies16 ==
  Plain({"StaticAuditLog", "StaticAuditLogConfig", "SystemPackages",
        "VMwareCloudDirectorSpec"}) @@
  [SSHSpec |-> Fresh({"PublicKeys", "HostPublicKey", "BastionHostPublicKey"}),
   StaticWorkersConfig |-> Deep({"Hosts"}),
   TLSCipherSuites |-> Fresh({"APIServer", "Etcd", "Kubelet"})]

\* VersionConfig to WebhookAuditLogConfig.
KubeoneCopies17 ==
  Plain({"VersionConfig", "VsphereSpec", "WeaveNetSpec", "WebHookAuditLogBatchConfig",
        "WebHookAuditLogThrottleConfig", "WebHookAuditLogTruncateConfig", "WebhookAuditLog",
        "WebhookAuditLogConfig"})

----------------------------------------------------------------------------
(* v1beta2/zz_generated.deepcopy.go *)

\* APIEndpoint to Addons.
V1beta2Copies1 ==
  [APIEndpoint |-> Fresh({"AlternativeNames"}),
   AWSControlPlane |-> Deep({"LoadBalancer"}),
   AWSLoadBalancer |-> Fresh({"Internal", "SecurityGroupIDs", "Tags"}),
   AWSSpec |-> Deep({"ControlPlane"}),
   Addon |-> Fresh({"Params"}),
   Addons |-> Copied({"GlobalParams"}, {"Addons"})]

\* AlwaysPullImages to CanalSpec.
V1beta2Copies2 ==
  Plain({"AlwaysPullImages", "AuthenticationConfiguration", "AzureControlPlane",
        "AzureLoadBalancer", "CanalSpec"}) @@
  [AzureSpec |-> Fresh({"ControlPlane"}),
   CNI |-> Fresh({"Canal", "Cilium", "WeaveNet", "External"})]

\* CertificateAuthorithyConfig to CloudProviderSpec.
V1beta2Copies3 ==
  Plain({"CiliumSpec"}) @@
  [CertificateAuthorithyConfig |-> Fresh({"CertificateValidityPeriod",
        "CACertificateValidityPeriod"}),
   CloudProviderSpec |-> Copied({"Nutanix", "EquinixMetal", "VMwareCloudDirector", "Vsphere",
        "None"}, {"AWS", "Azure", "DigitalOcean", "GCE", "Hetzner", "Kubevirt", "Openstack"})]

\* ClusterNetworkConfig to ContainerdRegistry.
V1beta2Copies4 ==
  [ClusterNetworkConfig |-> Copied({"NodeCIDRMaskSizeIPv4", "NodeCIDRMaskSizeIPv6",
        "ClusterDNS"}, {"CNI", "KubeProxy"}),
   ContainerRuntimeConfig |-> Deep({"Docker", "Containerd"}),
   ContainerRuntimeContainerd |-> Copied({"DeviceOwnershipFromSecurityContext"}, {"Registries"}),
   ContainerRuntimeDocker |-> Fresh({"RegistryMirrors"}),
   ContainerdRegistry |-> Fresh({"Mirrors", "TLSConfig", "Auth"})]

\* ContainerdRegistryAuthConfig to ControlPlaneConfig.
V1beta2Copies5 ==
  Plain({"ContainerdRegistryAuthConfig", "ContainerdTLSConfig"}) @@
  [ControlPlaneComponentConfig |-> Fresh({"Flags", "FeatureGates"}),
   ControlPlaneComponents |-> Copied({"Etcd"}, {"ControllerManager", "Scheduler", "APIServer"}),
   ControlPlaneConfig |-> Deep({"Hosts", "NodeSets"})]

\* CoreDNS to DynamicWorkerConfig.
V1beta2Copies6 ==
  Plain({"DigitalOceanControlPlane", "DigitalOceanLoadBalancer", "DynamicAuditLog"}) @@
  [CoreDNS |-> Fresh({"Replicas", "DeployPodDisruptionBudget"}),
   DNSConfig |-> Fresh({"Servers"}),
   DigitalOceanSpec |-> Fresh({"ControlPlane"}),
   DynamicWorkerConfig |-> Copied({"Replicas"}, {"Config"})]

\* EncryptionProviders to ExternalCNISpec.
V1beta2Copies7 ==
  Plain({"EncryptionProviders", "EquinixMetalSpec", "EtcdConfig", "EventRateLimit",
        "EventRateLimitConfig", "ExternalCNISpec"})

\* Features to HelmAuth.
V1beta2Copies8 ==
  Plain({"HelmAuth"}) @@
  [Features |-> Copied({"AlwaysPullImages", "EventRateLimit", "PodNodeSelector",
        "PodSecurityPolicy", "StaticAuditLog", "DynamicAuditLog", "MetricsServer",
        "OpenIDConnect", "AuthenticationConfiguration", "EncryptionProviders", "NodeLocalDNS"},
        {"CoreDNS"}),
   GCEControlPlane |-> Deep({"LoadBalancer"}),
   GCELoadBalancer |-> Fresh({"AllowedSourceRanges"}),
   GCESpec |-> Deep({"ControlPlane"})]

\* HelmRelease to HetznerSpec.
V1beta2Copies9 ==
  [HelmRelease |-> Copied({"Auth"}, {"Values"}),
   HelmValues |-> Fresh({"Inline"}),
   HetznerControlPlane |-> Deep({"LoadBalancer"}),
   HetznerLoadBalancer |-> Fresh({"PublicIP", "Labels"}),
   HetznerSpec |-> Deep({"ControlPlane"})]

\* HostConfig to JournaldConfig.
V1beta2Copies10 ==
  Plain({"IPTables", "JournaldConfig"}) @@
  [HostConfig |-> Copied({"IPv6Addresses", "SSHHostPublicKey", "BastionHostPublicKey", "Labels",
        "Annotations"}, {"Taints", "Kubelet"}),
   IPVSConfig |-> Fresh({"ExcludeCIDRs"})]

\* KubeOneCluster to KubeProxyConfig.
V1beta2Copies11 ==
  [KubeOneCluster |-> Copied({"MachineController", "OperatingSystemManager", "SystemPackages",
        "RegistryConfiguration"}, {"ControlPlane", "KubeletConfig", "APIEndpoint",
        "CloudProvider", "ContainerRuntime", "ClusterNetwork", "StaticWorkers",
        "DynamicWorkers", "CertificateAuthority", "Features", "Addons", "HelmReleases",
        "TLSCipherSuites", "ControlPlaneComponents"}),
   KubeProxyConfig |-> Copied({"IPTables"}, {"IPVS"})]

\* KubeletConfig to MachineControllerConfig.
V1beta2Copies12 ==
  Plain({"LoggingConfig", "MachineControllerConfig"}) @@
  [KubeletConfig |-> Fresh({"SystemReserved", "KubeReserved", "EvictionHard", "MaxPods",
        "ImageGCHighThresholdPercent", "ImageGCLowThresholdPercent"}),
   KubevirtControlPlane |-> Deep({"LoadBalancer"}),
   KubevirtLoadBalancer |-> Fresh({"Annotations"}),
   KubevirtSpec |-> Deep({"ControlPlane"})]

\* MetricsServer to OpenIDConnect.
V1beta2Copies13 ==
  Plain({"MetricsServer", "NodeLocalDNS", "NoneSpec", "NutanixSpec", "OpenIDConnect"}) @@
  [NodeSet |-> Copied({"CloudProviderSpec"}, {"NodeSettings", "SSH"}),
   NodeSettingsSpec |-> Copied({"Labels", "Annotations"}, {"Taints"})]

\* OpenIDConnectConfig to PodSecurityPolicy.
V1beta2Copies14 ==
  Plain({"OpenIDConnectConfig", "OpenstackControlPlane", "OpenstackLoadBalancer",
        "OperatingSystemManagerConfig", "OperatingSystemSpec", "PodNodeSelector",
        "PodNodeSelectorConfig", "PodSecurityPolicy"}) @@
  [OpenstackSpec |-> Fresh({"ControlPlane"})]

\* ProviderSpec to RegistryConfiguration.
V1beta2Copies15 ==
  Plain({"ProxyConfig", "RegistryConfiguration"}) @@
  [ProviderSpec |-> Copied({"CloudProviderSpec", "Annotations", "MachineAnnotations",
        "NodeAnnotations", "MachineObjectAnnotations", "Labels", "SSHPublicKeys",
        "OperatingSystemSpec", "OverwriteCloudConfig"}, {"Taints", "Network"}),
   ProviderStaticNetworkConfig |-> Deep({"DNS"})]

\* SSHSpec to VMwareCloudDirectorSpec.
V1beta2Copies16 ==
  Plain({"StaticAuditLog", "StaticAuditLogConfig", "SystemPackages",
        "VMwareCloudDirectorSpec"}) @@
  [SSHSpec |-> Fresh({"PublicKeys", "HostPublicKey", "BastionHostPublicKey"}),
   StaticWorkersConfig |-> Deep({"Hosts"}),
   TLSCipherSuites |-> Fresh({"APIServer", "Etcd", "Kubelet"})]

\* VersionConfig to WeaveNetSpec.
V1beta2Copies17 ==
  Plain({"VersionConfig", "VsphereSpec", "WeaveNetSpec"})

----------------------------------------------------------------------------
(* v1beta3/zz_generated.deepcopy.go *)

\* APIEndpoint to AddonRef.
V1beta3Copies1 ==
  [APIEndpoint |-> Fresh({"AlternativeNames"}),
   AWSControlPlane |-> Deep({"LoadBalancer"}),
   AWSLoadBalancer |-> Fresh({"Internal", "SecurityGroupIDs", "Tags"}),
   AWSSpec |-> Deep({"ControlPlane"}),
   Addon |-> Fresh({"Params"}),
   AddonRef |-> Deep({"Addon", "HelmRelease"})]

\* Addons to CNI.
V1beta3Copies2 ==
  Plain({"AlwaysPullImages", "AuthenticationConfiguration", "AzureControlPlane",
        "AzureLoadBalancer"}) @@
  [Addons |-> Deep({"Addons"}),
   AzureSpec |-> Fresh({"ControlPlane"}),
   CNI |-> Fresh({"Canal", "Cilium", "WeaveNet", "External"})]

\* CanalSpec to CloudProviderSpec.
V1beta3Copies3 ==
  Plain({"CanalSpec", "CiliumSpec"}) @@
  [CertificateAuthorithyConfig |-> Fresh({"CertificateValidityPeriod",
        "CACertificateValidityPeriod"}),
   CloudProviderSpec |-> Copied({"Nutanix", "EquinixMetal", "VMwareCloudDirector", "Vsphere",
        "None"}, {"AWS", "Azure", "DigitalOcean", "GCE", "Hetzner", "Kubevirt", "Openstack"})]

\* ClusterNetworkConfig to ContainerdRegistryAuthConfig.
V1beta3Copies4 ==
  Plain({"ContainerdRegistryAuthConfig"}) @@
  [ClusterNetworkConfig |-> Copied({"NodeCIDRMaskSizeIPv4", "NodeCIDRMaskSizeIPv6",
        "ClusterDNS"}, {"CNI", "KubeProxy"}),
   ContainerRuntimeConfig |-> Deep({"Containerd"}),
   ContainerRuntimeContainerd |-> Copied({"DeviceOwnershipFromSecurityContext"}, {"Registries"}),
   ContainerdRegistry |-> Fresh({"Mirrors", "TLSConfig", "Auth"})]

\* ContainerdTLSConfig to CoreDNS.
V1beta3Copies5 ==
  Plain({"ContainerdTLSConfig"}) @@
  [ControlPlaneComponentConfig |-> Fresh({"Flags", "FeatureGates"}),
   ControlPlaneComponents |-> Copied({"Etcd"}, {"ControllerManager", "Scheduler", "APIServer"}),
   ControlPlaneConfig |-> Deep({"Hosts", "NodeSets"}),
   CoreDNS |-> Fresh({"Replicas", "DeployPodDisruptionBudget"})]

\* DNSConfig to EquinixMetalSpec.
V1beta3Copies6 ==
  Plain({"DigitalOceanControlPlane", "DigitalOceanLoadBalancer", "DynamicAuditLog",
        "EncryptionProviders", "EquinixMetalSpec"}) @@
  [DNSConfig |-> Fresh({"Servers"}),
   DigitalOceanSpec |-> Fresh({"ControlPlane"}),
   DynamicWorkerConfig |-> Copied({"Replicas"}, {"Config"})]

\* EtcdConfig to Features.
V1beta3Copies7 ==
  Plain({"EtcdConfig", "EventRateLimit", "EventRateLimitConfig", "ExternalCNISpec"}) @@
  [Features |-> Copied({"AlwaysPullImages", "EventRateLimit", "PodNodeSelector",
        "StaticAuditLog", "DynamicAuditLog", "WebhookAuditLog", "MetricsServer",
        "OpenIDConnect", "AuthenticationConfiguration", "EncryptionProviders", "NodeLocalDNS"},
        {"CoreDNS"})]

\* GCEControlPlane to HetznerControlPlane.
V1beta3Copies8 ==
  Plain({"HelmAuth"}) @@
  [GCEControlPlane |-> Deep({"LoadBalancer"}),
   GCELoadBalancer |-> Fresh({"AllowedSourceRanges"}),
   GCESpec |-> Deep({"ControlPlane"}),
   HelmRelease |-> Copied({"Auth"}, {"Values"}),
   HelmValues |-> Fresh({"Inline"}),
   HetznerControlPlane |-> Deep({"LoadBalancer"})]

\* HetznerLoadBalancer to IPVSConfig.
V1beta3Copies9 ==
  Plain({"IPTables"}) @@
  [HetznerLoadBalancer |-> Fresh({"PublicIP", "Labels"}),
   HetznerSpec |-> Deep({"ControlPlane"}),
   HostConfig |-> Copied({"IPv6Addresses", "SSHHostPublicKey", "BastionHostPublicKey", "Labels",
        "Annotations"}, {"Taints", "Kubelet"}),
   IPVSConfig |-> Fresh({"ExcludeCIDRs"})]

\* JournaldConfig to KubeProxyConfig.
V1beta3Copies10 ==
  Plain({"JournaldConfig"}) @@
  [KubeOneCluster |-> Copied({"MachineController", "OperatingSystemManager", "SystemPackages",
        "RegistryConfiguration"}, {"ControlPlane", "APIEndpoint", "CloudProvider",
        "KubeletConfig", "ContainerRuntime", "ClusterNetwork", "StaticWorkers",
        "DynamicWorkers", "CertificateAuthority", "Features", "Addons", "TLSCipherSuites",
        "ControlPlaneComponents"}),
   KubeProxyConfig |-> Copied({"IPTables"}, {"IPVS"})]

\* KubeletConfig to LoggingConfig.
V1beta3Copies11 ==
  Plain({"LoggingConfig"}) @@
  [KubeletConfig |-> Fresh({"SystemReserved", "KubeReserved", "EvictionHard", "MaxPods",
        "PodPidsLimit", "ImageGCHighThresholdPercent", "ImageGCLowThresholdPercent"}),
   KubevirtControlPlane |-> Deep({"LoadBalancer"}),
   KubevirtLoadBalancer |-> Fresh({"Annotations"}),
   KubevirtSpec |-> Deep({"ControlPlane"})]

\* MachineControllerConfig to NutanixSpec.
V1beta3Copies12 ==
  Plain({"MachineControllerConfig", "MetricsServer", "NodeLocalDNS", "NoneSpec",
        "NutanixSpec"}) @@
  [NodeSet |-> Copied({"CloudProviderSpec"}, {"NodeSettings", "SSH"}),
   NodeSettingsSpec |-> Copied({"Labels", "Annotations"}, {"Taints"})]

\* OpenIDConnect to PodNodeSelector.
V1beta3Copies13 ==
  Plain({"OpenIDConnect", "OpenIDConnectConfig", "OpenstackControlPlane",
        "OpenstackLoadBalancer", "OperatingSystemManagerConfig", "OperatingSystemSpec",
        "PodNodeSelector"}) @@
  [OpenstackSpec |-> Fresh({"ControlPlane"})]

\* PodNodeSelectorConfig to RegistryConfiguration.
V1beta3Copies14 ==
  Plain({"PodNodeSelectorConfig", "ProxyConfig", "RegistryConfiguration"}) @@
  [ProviderSpec |-> Copied({"CloudProviderSpec", "Annotations", "NodeAnnotations",
        "MachineObjectAnnotations", "Labels", "SSHPublicKeys", "OperatingSystemSpec",
        "OverwriteCloudConfig"}, {"Taints", "Network"}),
   ProviderStaticNetworkConfig |-> Deep({"DNS"})]

\* SSHSpec to VMwareCloudDirectorSpec.
V1beta3Copies15 ==
  Plain({"StaticAuditLog", "StaticAuditLogConfig", "SystemPackages",
        "VMwareCloudDirectorSpec"}) @@
  [SSHSpec |-> Fresh({"PublicKeys", "HostPublicKey", "BastionHostPublicKey"}),
   StaticWorkersConfig |-> Deep({"Hosts"}),
   TLSCipherSuites |-> Fresh({"APIServer", "Etcd", "Kubelet"})]

\* VersionConfig to WebhookAuditLogConfig.
V1beta3Copies16 ==
  Plain({"VersionConfig", "VsphereSpec", "WeaveNetSpec", "WebHookAuditLogBatchConfig",
        "WebHookAuditLogThrottleConfig", "WebHookAuditLogTruncateConfig", "WebhookAuditLog",
        "WebhookAuditLogConfig"})

----------------------------------------------------------------------------
DeepCopyInto ==
  [kubeone |-> KubeoneCopies1 @@ KubeoneCopies2 @@ KubeoneCopies3 @@ KubeoneCopies4 @@
        KubeoneCopies5 @@ KubeoneCopies6 @@ KubeoneCopies7 @@ KubeoneCopies8 @@ KubeoneCopies9 @@
        KubeoneCopies10 @@ KubeoneCopies11 @@ KubeoneCopies12 @@ KubeoneCopies13 @@
        KubeoneCopies14 @@ KubeoneCopies15 @@ KubeoneCopies16 @@ KubeoneCopies17,
   v1beta2 |-> V1beta2Copies1 @@ V1beta2Copies2 @@ V1beta2Copies3 @@ V1beta2Copies4 @@
        V1beta2Copies5 @@ V1beta2Copies6 @@ V1beta2Copies7 @@ V1beta2Copies8 @@ V1beta2Copies9 @@
        V1beta2Copies10 @@ V1beta2Copies11 @@ V1beta2Copies12 @@ V1beta2Copies13 @@
        V1beta2Copies14 @@ V1beta2Copies15 @@ V1beta2Copies16 @@ V1beta2Copies17,
   v1beta3 |-> V1beta3Copies1 @@ V1beta3Copies2 @@ V1beta3Copies3 @@ V1beta3Copies4 @@
        V1beta3Copies5 @@ V1beta3Copies6 @@ V1beta3Copies7 @@ V1beta3Copies8 @@ V1beta3Copies9 @@
        V1beta3Copies10 @@ V1beta3Copies11 @@ V1beta3Copies12 @@ V1beta3Copies13 @@
        V1beta3Copies14 @@ V1beta3Copies15 @@ V1beta3Copies16]
============================================================================
