------------------------------ MODULE ApiConversion ------------------------------
(***************************************************************************)
(* How an API object changes version: the generated functions of           *)
(* v1beta2/zz_generated.conversion.go and v1beta3/..., and the hand-       *)
(* written ones of the two conversion.go files.                            *)
(*                                                                         *)
(* A conversion of a whole structure casts an unsafe pointer: the memory   *)
(* of one structure is read as the other.  A conversion by field casts     *)
(* some fields the same way, calls the conversion of the field's           *)
(* type for others, skips the ones its peer lacks, and assigns the rest.   *)
(* One definition per stretch of the file; "into" is towards the internal  *)
(* version, "back" away from it.                                           *)
(***************************************************************************)
EXTENDS ApiTypes

By(cast, call, none) == [whole |-> FALSE, cast |-> cast, call |-> call, none |-> none]
Ways(into, back) == [into |-> into, back |-> back]
Both(by) == Ways(by, by)
Whole(names) ==
  [T \in names |-> Both([whole |-> TRUE, cast |-> {}, call |-> {}, none |-> {}])]
Registers(names) == Ways(names, names)

----------------------------------------------------------------------------
(* v1beta2/zz_generated.conversion.go *)

\* APIEndpoint to Addons.
V1beta2Converts1 ==
  Whole({"APIEndpoint", "AWSControlPlane", "AWSLoadBalancer", "AWSSpec", "Addon"}) @@
  [Addons |-> Ways(By({}, {"Addons"}, {"Enable", "GlobalParams"}),
        By({}, {"Addons"}, {}))]

\* AlwaysPullImages to CNI.
V1beta2Converts2 ==
  Whole({"AlwaysPullImages", "AuthenticationConfiguration", "AzureControlPlane",
        "AzureLoadBalancer", "AzureSpec"}) @@
  [CNI |-> Both(By({"Canal", "WeaveNet", "External"}, {"Cilium"}, {}))]

\* CanalSpec to ClusterNetworkConfig.
V1beta2Converts3 ==
  Whole({"CanalSpec", "CertificateAuthorithyConfig", "CloudProviderSpec"}) @@
  [CiliumSpec |-> Both(By({}, {}, {"KubeProxyReplacement"})),
   ClusterNetworkConfig |-> Both(By({"KubeProxy", "NodeCIDRMaskSizeIPv4",
        "NodeCIDRMaskSizeIPv6", "ClusterDNS"}, {"CNI"}, {}))]

\* ContainerRuntimeConfig to ControlPlaneComponents.
V1beta2Converts4 ==
  Whole({"ContainerdRegistry", "ContainerdRegistryAuthConfig", "ContainerdTLSConfig",
        "ControlPlaneComponentConfig", "ControlPlaneComponents"}) @@
  [ContainerRuntimeConfig |-> Ways(By({}, {"Containerd"}, {"Docker"}),
        By({}, {"Containerd"}, {})),
   ContainerRuntimeContainerd |-> Both(By({"Registries", "DeviceOwnershipFromSecurityContext"},
        {}, {}))]

\* ControlPlaneConfig to DigitalOceanSpec.
V1beta2Converts5 ==
  Whole({"CoreDNS", "DNSConfig", "DigitalOceanControlPlane", "DigitalOceanLoadBalancer",
        "DigitalOceanSpec"}) @@
  [ControlPlaneConfig |-> Both(By({"NodeSets"}, {"Hosts"}, {}))]

\* DynamicAuditLog to EventRateLimitConfig.
V1beta2Converts6 ==
  Whole({"DynamicAuditLog", "EncryptionProviders", "EquinixMetalSpec", "EtcdConfig",
        "EventRateLimit", "EventRateLimitConfig"}) @@
  [DynamicWorkerConfig |-> Both(By({"Replicas"}, {"Config"}, {}))]

\* ExternalCNISpec to HelmAuth.
V1beta2Converts7 ==
  Whole({"ExternalCNISpec", "GCEControlPlane", "GCELoadBalancer", "GCESpec", "HelmAuth"}) @@
  [Features |-> Ways(By({"CoreDNS", "AlwaysPullImages", "EventRateLimit", "PodNodeSelector",
        "StaticAuditLog", "DynamicAuditLog", "MetricsServer", "OpenIDConnect",
        "AuthenticationConfiguration", "EncryptionProviders", "NodeLocalDNS"}, {},
        {"PodSecurityPolicy"}),
        By({"CoreDNS", "AlwaysPullImages", "EventRateLimit", "PodNodeSelector",
        "StaticAuditLog", "DynamicAuditLog", "MetricsServer", "OpenIDConnect",
        "AuthenticationConfiguration", "EncryptionProviders", "NodeLocalDNS"}, {},
        {"WebhookAuditLog"}))]

\* HelmRelease to HetznerSpec.
\* Mutant: HelmRelease is cast as a whole although its fields are in another order.
HelmReleaseCast ==
  Whole({"HelmValues", "HetznerControlPlane", "HetznerLoadBalancer", "HetznerSpec",
        "HelmRelease"})

V1beta2Converts8 ==
  Whole({"HelmValues", "HetznerControlPlane", "HetznerLoadBalancer", "HetznerSpec"}) @@
  [HelmRelease |-> Both(By({"Values", "Auth"}, {}, {}))]

\* HostConfig to JournaldConfig.
V1beta2Converts9 ==
  Whole({"IPTables", "IPVSConfig", "JournaldConfig"}) @@
  [HostConfig |-> Both(By({"IPv6Addresses", "SSHHostPublicKey", "BastionHostPublicKey",
        "Taints", "Labels", "Annotations"}, {"Kubelet"}, {}))]

\* KubeOneCluster to KubeOneCluster.
V1beta2Converts10 ==
  [KubeOneCluster |-> Ways(By({"MachineController", "OperatingSystemManager", "SystemPackages",
        "RegistryConfiguration", "ControlPlaneComponents"}, {"ControlPlane", "KubeletConfig",
        "APIEndpoint", "CloudProvider", "Versions", "ContainerRuntime", "ClusterNetwork",
        "Proxy", "StaticWorkers", "DynamicWorkers", "CertificateAuthority", "Features",
        "Addons", "LoggingConfig", "Journald", "TLSCipherSuites"}, {"TypeMeta",
        "HelmReleases"}),
        By({"MachineController", "OperatingSystemManager", "SystemPackages",
        "RegistryConfiguration", "ControlPlaneComponents"}, {"ControlPlane", "KubeletConfig",
        "APIEndpoint", "CloudProvider", "Versions", "ContainerRuntime", "ClusterNetwork",
        "Proxy", "StaticWorkers", "DynamicWorkers", "CertificateAuthority", "Features",
        "Addons", "LoggingConfig", "Journald", "TLSCipherSuites"}, {"TypeMeta",
        "AssetConfiguration"}))]

\* KubeProxyConfig to MachineControllerConfig.
V1beta2Converts11 ==
  Whole({"KubeProxyConfig", "KubevirtControlPlane", "KubevirtLoadBalancer", "KubevirtSpec",
        "LoggingConfig", "MachineControllerConfig"}) @@
  [KubeletConfig |-> Ways(By({"SystemReserved", "KubeReserved", "EvictionHard", "MaxPods",
        "ImageGCHighThresholdPercent", "ImageGCLowThresholdPercent"}, {}, {}),
        By({"SystemReserved", "KubeReserved", "EvictionHard", "MaxPods",
        "ImageGCHighThresholdPercent", "ImageGCLowThresholdPercent"}, {}, {"PodPidsLimit"}))]

\* MetricsServer to OpenIDConnect.
V1beta2Converts12 ==
  Whole({"MetricsServer", "NodeLocalDNS", "NodeSet", "NodeSettingsSpec", "NoneSpec",
        "NutanixSpec", "OpenIDConnect"})

\* OpenIDConnectConfig to PodNodeSelector.
V1beta2Converts13 ==
  Whole({"OpenIDConnectConfig", "OpenstackControlPlane", "OpenstackLoadBalancer",
        "OpenstackSpec", "OperatingSystemManagerConfig", "OperatingSystemSpec",
        "PodNodeSelector"})

\* PodNodeSelectorConfig to RegistryConfiguration.
V1beta2Converts14 ==
  Whole({"PodNodeSelectorConfig", "ProviderStaticNetworkConfig", "ProxyConfig",
        "RegistryConfiguration"}) @@
  [ProviderSpec |-> Ways(By({"CloudProviderSpec", "Annotations", "NodeAnnotations",
        "MachineObjectAnnotations", "Labels", "Taints", "SSHPublicKeys", "OperatingSystemSpec",
        "Network", "OverwriteCloudConfig"}, {}, {"MachineAnnotations"}),
        By({"CloudProviderSpec", "Annotations", "NodeAnnotations", "MachineObjectAnnotations",
        "Labels", "Taints", "SSHPublicKeys", "OperatingSystemSpec", "Network",
        "OverwriteCloudConfig"}, {}, {}))]

\* SSHSpec to SystemPackages.
V1beta2Converts15 ==
  Whole({"StaticAuditLog", "StaticAuditLogConfig", "SystemPackages"}) @@
  [SSHSpec |-> Both(By({"PublicKeys", "HostPublicKey", "BastionHostPublicKey"}, {}, {})),
   StaticWorkersConfig |-> Both(By({}, {"Hosts"}, {}))]

\* TLSCipherSuites to WeaveNetSpec.
V1beta2Converts16 ==
  Whole({"TLSCipherSuites", "VMwareCloudDirectorSpec", "VersionConfig", "VsphereSpec",
        "WeaveNetSpec"})

V1beta2Registers1 ==
  [into |-> {"APIEndpoint", "AWSControlPlane", "AWSLoadBalancer", "AWSSpec", "Addon",
    "AlwaysPullImages", "AuthenticationConfiguration", "AzureControlPlane",
    "AzureLoadBalancer", "AzureSpec", "CNI", "CanalSpec", "CertificateAuthorithyConfig",
    "CloudProviderSpec", "ClusterNetworkConfig"},
   back |-> {"APIEndpoint", "AWSControlPlane", "AWSLoadBalancer", "AWSSpec", "Addon", "Addons",
    "AlwaysPullImages", "AuthenticationConfiguration", "AzureControlPlane",
    "AzureLoadBalancer", "AzureSpec", "CNI", "CanalSpec", "CertificateAuthorithyConfig",
    "CloudProviderSpec"}]

V1beta2Registers2 ==
  [into |-> {"ContainerRuntimeContainerd", "ContainerdRegistry",
    "ContainerdRegistryAuthConfig", "ContainerdTLSConfig", "ControlPlaneComponentConfig",
    "ControlPlaneComponents", "ControlPlaneConfig", "CoreDNS", "DNSConfig",
    "DigitalOceanControlPlane", "DigitalOceanLoadBalancer", "DigitalOceanSpec",
    "DynamicAuditLog", "DynamicWorkerConfig", "EncryptionProviders"},
   back |-> {"ClusterNetworkConfig", "ContainerRuntimeConfig", "ContainerdRegistry",
    "ContainerdRegistryAuthConfig", "ContainerdTLSConfig", "ControlPlaneComponentConfig",
    "ControlPlaneComponents", "ControlPlaneConfig", "CoreDNS", "DNSConfig",
    "DigitalOceanControlPlane", "DigitalOceanLoadBalancer", "DigitalOceanSpec",
    "DynamicAuditLog", "DynamicWorkerConfig"}]

V1beta2Registers3 ==
  [into |-> {"EquinixMetalSpec", "EtcdConfig", "EventRateLimit", "EventRateLimitConfig",
    "ExternalCNISpec", "GCEControlPlane", "GCELoadBalancer", "GCESpec", "HelmAuth",
    "HelmRelease", "HelmValues", "HetznerControlPlane", "HetznerLoadBalancer", "HetznerSpec",
    "HostConfig"},
   back |-> {"EncryptionProviders", "EquinixMetalSpec", "EtcdConfig", "EventRateLimit",
    "EventRateLimitConfig", "ExternalCNISpec", "GCEControlPlane", "GCELoadBalancer", "GCESpec",
    "HelmAuth", "HelmRelease", "HelmValues", "HetznerControlPlane", "HetznerLoadBalancer",
    "HetznerSpec"}]

V1beta2Registers4 ==
  [into |-> {"IPTables", "IPVSConfig", "JournaldConfig", "KubeProxyConfig", "KubeletConfig",
    "KubevirtControlPlane", "KubevirtLoadBalancer", "KubevirtSpec", "LoggingConfig",
    "MachineControllerConfig", "MetricsServer", "NodeLocalDNS", "NodeSet", "NodeSettingsSpec",
    "NoneSpec"},
   back |-> {"HostConfig", "IPTables", "IPVSConfig", "JournaldConfig", "KubeProxyConfig",
    "KubevirtControlPlane", "KubevirtLoadBalancer", "KubevirtSpec", "LoggingConfig",
    "MachineControllerConfig", "MetricsServer", "NodeLocalDNS", "NodeSet", "NodeSettingsSpec",
    "NoneSpec"}]

V1beta2Registers5 ==
  [into |-> {"NutanixSpec", "OpenIDConnect", "OpenIDConnectConfig", "OpenstackControlPlane",
    "OpenstackLoadBalancer", "OpenstackSpec", "OperatingSystemManagerConfig",
    "OperatingSystemSpec", "PodNodeSelector", "PodNodeSelectorConfig",
    "ProviderStaticNetworkConfig", "ProxyConfig", "RegistryConfiguration", "SSHSpec",
    "StaticAuditLog"},
   back |-> {"NutanixSpec", "OpenIDConnect", "OpenIDConnectConfig", "OpenstackControlPlane",
    "OpenstackLoadBalancer", "OpenstackSpec", "OperatingSystemManagerConfig",
    "OperatingSystemSpec", "PodNodeSelector", "PodNodeSelectorConfig", "ProviderSpec",
    "ProviderStaticNetworkConfig", "ProxyConfig", "RegistryConfiguration", "SSHSpec"}]

V1beta2Registers6 ==
  [into |-> {"StaticAuditLogConfig", "StaticWorkersConfig", "SystemPackages",
    "TLSCipherSuites", "VMwareCloudDirectorSpec", "VersionConfig", "VsphereSpec",
    "WeaveNetSpec", "Addon", "Addons", "CiliumSpec", "ContainerRuntimeConfig", "Features",
    "KubeOneCluster", "ProviderSpec"},
   back |-> {"StaticAuditLog", "StaticAuditLogConfig", "StaticWorkersConfig", "SystemPackages",
    "TLSCipherSuites", "VMwareCloudDirectorSpec", "VersionConfig", "VsphereSpec",
    "WeaveNetSpec", "Addon", "CiliumSpec", "ContainerRuntimeContainerd", "Features",
    "KubeOneCluster", "KubeletConfig"}]

----------------------------------------------------------------------------
(* v1beta3/zz_generated.conversion.go *)

\* APIEndpoint to Addons.
V1beta3Converts1 ==
  Whole({"APIEndpoint", "AWSControlPlane", "AWSLoadBalancer", "AWSSpec", "Addon", "AddonRef",
        "Addons"})

\* AlwaysPullImages to CNI.
V1beta3Converts2 ==
  Whole({"AlwaysPullImages", "AuthenticationConfiguration", "AzureControlPlane",
        "AzureLoadBalancer", "AzureSpec"}) @@
  [CNI |-> Both(By({"Canal", "WeaveNet", "External"}, {"Cilium"}, {}))]

\* CanalSpec to ContainerRuntimeConfig.
V1beta3Converts3 ==
  Whole({"CanalSpec", "CertificateAuthorithyConfig", "CloudProviderSpec"}) @@
  [CiliumSpec |-> Ways(By({}, {}, {}),
        By({}, {}, {"KubeProxyReplacement"})),
   ClusterNetworkConfig |-> Both(By({"KubeProxy", "NodeCIDRMaskSizeIPv4",
        "NodeCIDRMaskSizeIPv6", "ClusterDNS"}, {"CNI"}, {})),
   ContainerRuntimeConfig |-> Both(By({"Containerd"}, {}, {}))]

\* ContainerRuntimeContainerd to ControlPlaneConfig.
V1beta3Converts4 ==
  Whole({"ContainerRuntimeContainerd", "ContainerdRegistry", "ContainerdRegistryAuthConfig",
        "ContainerdTLSConfig", "ControlPlaneComponentConfig", "ControlPlaneComponents",
        "ControlPlaneConfig"})

\* CoreDNS to DynamicWorkerConfig.
V1beta3Converts5 ==
  Whole({"CoreDNS", "DNSConfig", "DigitalOceanControlPlane", "DigitalOceanLoadBalancer",
        "DigitalOceanSpec", "DynamicAuditLog", "DynamicWorkerConfig"})

\* EncryptionProviders to Features.
V1beta3Converts6 ==
  Whole({"EncryptionProviders", "EquinixMetalSpec", "EtcdConfig", "EventRateLimit",
        "EventRateLimitConfig", "ExternalCNISpec", "Features"})

\* GCEControlPlane to HetznerControlPlane.
V1beta3Converts7 ==
  Whole({"GCEControlPlane", "GCELoadBalancer", "GCESpec", "HelmAuth", "HelmRelease",
        "HelmValues", "HetznerControlPlane"})

\* HetznerLoadBalancer to IPVSConfig.
V1beta3Converts8 ==
  Whole({"HetznerLoadBalancer", "HetznerSpec", "IPTables", "IPVSConfig"}) @@
  [HostConfig |-> Both(By({"IPv6Addresses", "SSHHostPublicKey", "BastionHostPublicKey",
        "Taints", "Labels", "Annotations"}, {"Kubelet"}, {}))]

\* JournaldConfig to KubeOneCluster.
V1beta3Converts9 ==
  Whole({"JournaldConfig"}) @@
  [KubeOneCluster |-> Ways(By({"DynamicWorkers", "MachineController", "OperatingSystemManager",
        "Addons", "SystemPackages", "RegistryConfiguration", "ControlPlaneComponents"},
        {"ControlPlane", "APIEndpoint", "CloudProvider", "KubeletConfig", "Versions",
        "ContainerRuntime", "ClusterNetwork", "Proxy", "StaticWorkers", "CertificateAuthority",
        "Features", "LoggingConfig", "Journald", "TLSCipherSuites"}, {"TypeMeta"}),
        By({"DynamicWorkers", "MachineController", "OperatingSystemManager", "Addons",
        "SystemPackages", "RegistryConfiguration", "ControlPlaneComponents"}, {"ControlPlane",
        "KubeletConfig", "APIEndpoint", "CloudProvider", "Versions", "ContainerRuntime",
        "ClusterNetwork", "Proxy", "StaticWorkers", "CertificateAuthority", "Features",
        "LoggingConfig", "Journald", "TLSCipherSuites"}, {"TypeMeta", "AssetConfiguration"}))]

\* KubeProxyConfig to MachineControllerConfig.
V1beta3Converts10 ==
  Whole({"KubeProxyConfig", "KubeletConfig", "KubevirtControlPlane", "KubevirtLoadBalancer",
        "KubevirtSpec", "LoggingConfig", "MachineControllerConfig"})

\* MetricsServer to OpenIDConnect.
V1beta3Converts11 ==
  Whole({"MetricsServer", "NodeLocalDNS", "NodeSet", "NodeSettingsSpec", "NoneSpec",
        "NutanixSpec", "OpenIDConnect"})

\* OpenIDConnectConfig to PodNodeSelector.
V1beta3Converts12 ==
  Whole({"OpenIDConnectConfig", "OpenstackControlPlane", "OpenstackLoadBalancer",
        "OpenstackSpec", "OperatingSystemManagerConfig", "OperatingSystemSpec",
        "PodNodeSelector"})

\* PodNodeSelectorConfig to SSHSpec.
V1beta3Converts13 ==
  Whole({"PodNodeSelectorConfig", "ProviderSpec", "ProviderStaticNetworkConfig", "ProxyConfig",
        "RegistryConfiguration"}) @@
  [SSHSpec |-> Both(By({"PublicKeys", "HostPublicKey", "BastionHostPublicKey"}, {}, {}))]

\* StaticAuditLog to VersionConfig.
V1beta3Converts14 ==
  Whole({"StaticAuditLog", "StaticAuditLogConfig", "StaticWorkersConfig", "SystemPackages",
        "TLSCipherSuites", "VMwareCloudDirectorSpec", "VersionConfig"})

\* VsphereSpec to WebhookAuditLogConfig.
V1beta3Converts15 ==
  Whole({"VsphereSpec", "WeaveNetSpec", "WebHookAuditLogBatchConfig",
        "WebHookAuditLogThrottleConfig", "WebHookAuditLogTruncateConfig", "WebhookAuditLog",
        "WebhookAuditLogConfig"})

V1beta3Registers1 ==
  Registers({"APIEndpoint", "AWSControlPlane", "AWSLoadBalancer", "AWSSpec", "Addon",
    "AddonRef", "Addons", "AlwaysPullImages", "AuthenticationConfiguration",
    "AzureControlPlane", "AzureLoadBalancer", "AzureSpec", "CNI", "CanalSpec",
    "CertificateAuthorithyConfig"})

V1beta3Registers2 ==
  [into |-> {"CloudProviderSpec", "ClusterNetworkConfig", "ContainerRuntimeContainerd",
    "ContainerdRegistry", "ContainerdRegistryAuthConfig", "ContainerdTLSConfig",
    "ControlPlaneComponentConfig", "ControlPlaneComponents", "ControlPlaneConfig", "CoreDNS",
    "DNSConfig", "DigitalOceanControlPlane", "DigitalOceanLoadBalancer", "DigitalOceanSpec",
    "DynamicAuditLog"},
   back |-> {"CloudProviderSpec", "ClusterNetworkConfig", "ContainerRuntimeConfig",
    "ContainerRuntimeContainerd", "ContainerdRegistry", "ContainerdRegistryAuthConfig",
    "ContainerdTLSConfig", "ControlPlaneComponentConfig", "ControlPlaneComponents",
    "ControlPlaneConfig", "CoreDNS", "DNSConfig", "DigitalOceanControlPlane",
    "DigitalOceanLoadBalancer", "DigitalOceanSpec"}]

V1beta3Registers3 ==
  [into |-> {"DynamicWorkerConfig", "EncryptionProviders", "EquinixMetalSpec", "EtcdConfig",
    "EventRateLimit", "EventRateLimitConfig", "ExternalCNISpec", "Features", "GCEControlPlane",
    "GCELoadBalancer", "GCESpec", "HelmAuth", "HelmRelease", "HelmValues",
    "HetznerControlPlane"},
   back |-> {"DynamicAuditLog", "DynamicWorkerConfig", "EncryptionProviders",
    "EquinixMetalSpec", "EtcdConfig", "EventRateLimit", "EventRateLimitConfig",
    "ExternalCNISpec", "Features", "GCEControlPlane", "GCELoadBalancer", "GCESpec", "HelmAuth",
    "HelmRelease", "HelmValues"}]

V1beta3Registers4 ==
  [into |-> {"HetznerLoadBalancer", "HetznerSpec", "HostConfig", "IPTables", "IPVSConfig",
    "JournaldConfig", "KubeOneCluster", "KubeProxyConfig", "KubeletConfig",
    "KubevirtControlPlane", "KubevirtLoadBalancer", "KubevirtSpec", "LoggingConfig",
    "MachineControllerConfig", "MetricsServer"},
   back |-> {"HetznerControlPlane", "HetznerLoadBalancer", "HetznerSpec", "HostConfig",
    "IPTables", "IPVSConfig", "JournaldConfig", "KubeProxyConfig", "KubeletConfig",
    "KubevirtControlPlane", "KubevirtLoadBalancer", "KubevirtSpec", "LoggingConfig",
    "MachineControllerConfig", "MetricsServer"}]

V1beta3Registers5 ==
  Registers({"NodeLocalDNS", "NodeSet", "NodeSettingsSpec", "NoneSpec", "NutanixSpec",
    "OpenIDConnect", "OpenIDConnectConfig", "OpenstackControlPlane", "OpenstackLoadBalancer",
    "OpenstackSpec", "OperatingSystemManagerConfig", "OperatingSystemSpec", "PodNodeSelector",
    "PodNodeSelectorConfig", "ProviderSpec"})

V1beta3Registers6 ==
  Registers({"ProviderStaticNetworkConfig", "ProxyConfig", "RegistryConfiguration", "SSHSpec",
    "StaticAuditLog", "StaticAuditLogConfig", "StaticWorkersConfig", "SystemPackages",
    "TLSCipherSuites", "VMwareCloudDirectorSpec", "VersionConfig", "VsphereSpec",
    "WeaveNetSpec", "WebHookAuditLogBatchConfig", "WebHookAuditLogThrottleConfig"})

V1beta3Registers7 ==
  [into |-> {"WebHookAuditLogTruncateConfig", "WebhookAuditLog", "WebhookAuditLogConfig",
    "CiliumSpec", "ContainerRuntimeConfig"},
   back |-> {"WebHookAuditLogTruncateConfig", "WebhookAuditLog", "WebhookAuditLogConfig",
    "CiliumSpec", "KubeOneCluster"}]

----------------------------------------------------------------------------
Generated ==
  [v1beta2 |-> V1beta2Converts1 @@ V1beta2Converts2 @@ V1beta2Converts3 @@ V1beta2Converts4 @@
        V1beta2Converts5 @@ V1beta2Converts6 @@ V1beta2Converts7 @@ V1beta2Converts8 @@
        V1beta2Converts9 @@ V1beta2Converts10 @@ V1beta2Converts11 @@ V1beta2Converts12 @@
        V1beta2Converts13 @@ V1beta2Converts14 @@ V1beta2Converts15 @@ V1beta2Converts16,
   v1beta3 |-> V1beta3Converts1 @@ V1beta3Converts2 @@ V1beta3Converts3 @@ V1beta3Converts4 @@
        V1beta3Converts5 @@ V1beta3Converts6 @@ V1beta3Converts7 @@ V1beta3Converts8 @@
        V1beta3Converts9 @@ V1beta3Converts10 @@ V1beta3Converts11 @@ V1beta3Converts12 @@
        V1beta3Converts13 @@ V1beta3Converts14 @@ V1beta3Converts15]

Registered ==
  [v1beta2 |->
     LET all == {V1beta2Registers1, V1beta2Registers2, V1beta2Registers3, V1beta2Registers4,
                  V1beta2Registers5, V1beta2Registers6}
     IN Ways(UNION {r.into : r \in all}, UNION {r.back : r \in all}),
   v1beta3 |->
     LET all == {V1beta3Registers1, V1beta3Registers2, V1beta3Registers3, V1beta3Registers4,
                  V1beta3Registers5, V1beta3Registers6, V1beta3Registers7}
     IN Ways(UNION {r.into : r \in all}, UNION {r.back : r \in all})]

\* v1beta2/conversion.go: KubeOneCluster converts its Helm releases one by
\* one, from a deep copy, into entries of Addons.
Convert_v1beta2_KubeOneCluster(by) ==
  [by EXCEPT !.call = @ \cup {"HelmReleases"}, !.none = @ \ {"HelmReleases"}]

\* v1beta2/conversion.go: CiliumSpec is written out by hand, because the
\* replacement of kube-proxy is a word in one version and a flag in the other.
Convert_v1beta2_CiliumSpec(by) ==
  [by EXCEPT !.call = @ \cup {"KubeProxyReplacement"}, !.none = {}]

\* v1beta3/conversion.go: the same structure on both sides.
Convert_v1beta3_CiliumSpec(by) == By({}, {}, {})

\* v1beta2/conversion.go: the way back for an addon reference is empty.
Convert_kubeone_AddonRef_To_v1beta2_Addon(by) ==
  [by EXCEPT !.call = @ \ {"Addons"}, !.none = @ \cup {"Addons"}]

\* What the function registered for a type really does.
Conversion(v, direction, T) ==
  LET by == Generated[v][T][direction]
  IN CASE v = "v1beta2" /\ direction = "into" /\ T = "KubeOneCluster" ->
            Convert_v1beta2_KubeOneCluster(by)
       [] v = "v1beta2" /\ T = "CiliumSpec" -> Convert_v1beta2_CiliumSpec(by)
       [] v = "v1beta3" /\ T = "CiliumSpec" -> Convert_v1beta3_CiliumSpec(by)
       [] v = "v1beta2" /\ direction = "back" /\ T = "Addons" ->
            Convert_kubeone_AddonRef_To_v1beta2_Addon(by)
       [] OTHER -> by
============================================================================
