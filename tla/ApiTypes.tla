------------------------------ MODULE ApiTypes ------------------------------
(***************************************************************************)
(* The structures of the configuration API, as Go lays them out in         *)
(* pkg/apis/kubeone: the internal version (types.go) and the two external  *)
(* ones (v1beta2/types.go, v1beta3/types.go).  A structure is the sequence *)
(* of its fields, each <<name, shape, type>>, in the order of the source:  *)
(* order matters, since most conversions reinterpret the memory of one     *)
(* structure as another (ApiConversion).  A raw JSON value is a list of    *)
(* bytes.  Each section below is a stretch of types.go; the two external   *)
(* versions are written as what they change in the internal one.           *)
(***************************************************************************)
EXTENDS Integers, Sequences, FiniteSets, TLC, SequencesExt

Fields(shape, type, names) == [i \in DOMAIN names |-> <<names[i], shape, type>>]
Val(type, names) == Fields("val", type, names)
Ptr(type, names) == Fields("ptr", type, names)
List(type, names) == Fields("list", type, names)
Map(type, names) == Fields("map", type, names)

\* The cluster, its certificate authority and its components.
ClusterTypes ==
  [KubeOneCluster |-> Val("TypeMeta", <<"TypeMeta">>) \o Val("string", <<"Name">>) \o
      Val("ControlPlaneConfig", <<"ControlPlane">>) \o
      Val("KubeletConfig", <<"KubeletConfig">>) \o Val("APIEndpoint", <<"APIEndpoint">>) \o
      Val("CloudProviderSpec", <<"CloudProvider">>) \o Val("VersionConfig", <<"Versions">>) \o
      Val("ContainerRuntimeConfig", <<"ContainerRuntime">>) \o
      Val("ClusterNetworkConfig", <<"ClusterNetwork">>) \o Val("ProxyConfig", <<"Proxy">>) \o
      Val("StaticWorkersConfig", <<"StaticWorkers">>) \o
      List("DynamicWorkerConfig", <<"DynamicWorkers">>) \o
      Ptr("MachineControllerConfig", <<"MachineController">>) \o
      Ptr("OperatingSystemManagerConfig", <<"OperatingSystemManager">>) \o
      Val("string", <<"CABundle">>) \o
      Val("CertificateAuthorithyConfig", <<"CertificateAuthority">>) \o
      Val("Features", <<"Features">>) \o Ptr("Addons", <<"Addons">>) \o
      Ptr("SystemPackages", <<"SystemPackages">>) \o
      Val("AssetConfiguration", <<"AssetConfiguration">>) \o
      Ptr("RegistryConfiguration", <<"RegistryConfiguration">>) \o
      Val("LoggingConfig", <<"LoggingConfig">>) \o Val("JournaldConfig", <<"Journald">>) \o
      Val("TLSCipherSuites", <<"TLSCipherSuites">>) \o
      Ptr("ControlPlaneComponents", <<"ControlPlaneComponents">>),
   CertificateAuthorithyConfig |-> Val("string", <<"Bundle", "File">>) \o
      Ptr("Duration", <<"CertificateValidityPeriod", "CACertificateValidityPeriod">>),
   ControlPlaneComponents |->
      Ptr("ControlPlaneComponentConfig", <<"ControllerManager", "Scheduler", "APIServer">>) \o
      Ptr("EtcdConfig", <<"Etcd">>),
   EtcdConfig |-> Val("int64", <<"QuotaBackendBytes">>) \o
      Val("string", <<"AutoCompactionRetention">>) \o
      Val("EtcdAutoCompactionMode", <<"AutoCompactionMode">>),
   ControlPlaneComponentConfig |-> Map("string", <<"Flags">>) \o Map("bool", <<"FeatureGates">>)]

\* Cipher suites, Helm releases, logging, the container runtime.
RuntimeTypes ==
  [TLSCipherSuites |-> List("string", <<"APIServer", "Etcd", "Kubelet">>),
   HelmRelease |->
      Val("string", <<"Chart", "RepoURL", "ChartURL", "Version", "ReleaseName", "Namespace">>) \o
      Val("bool", <<"Wait">>) \o Val("Duration", <<"WaitTimeout">>) \o
      Val("bool", <<"Insecure">>) \o List("HelmValues", <<"Values">>) \o
      Ptr("HelmAuth", <<"Auth">>),
   HelmAuth |-> Val("string", <<"Username", "Password">>),
   HelmValues |-> Val("string", <<"ValuesFile">>) \o List("byte", <<"Inline">>),
   LoggingConfig |-> Val("string", <<"ContainerLogMaxSize">>) \o
      Val("int32", <<"ContainerLogMaxFiles">>),
   JournaldConfig |-> Val("string", <<"SystemMaxUse">>),
   ContainerRuntimeConfig |-> Ptr("ContainerRuntimeContainerd", <<"Containerd">>),
   ContainerRuntimeContainerd |-> Map("ContainerdRegistry", <<"Registries">>) \o
      Ptr("bool", <<"DeviceOwnershipFromSecurityContext">>) \o Val("string", <<"SandboxImage">>),
   ContainerdRegistry |-> List("string", <<"Mirrors">>) \o Val("bool", <<"OverridePath">>) \o
      Ptr("ContainerdTLSConfig", <<"TLSConfig">>) \o
      Ptr("ContainerdRegistryAuthConfig", <<"Auth">>),
   ContainerdRegistryAuthConfig |->
      Val("string", <<"Username", "Password", "Auth", "IdentityToken">>),
   ContainerdTLSConfig |-> Val("bool", <<"InsecureSkipVerify">>)]

\* Hosts, node sets, static workers.
HostTypes ==
  [HostConfig |-> Val("int", <<"ID">>) \o Val("string", <<"PublicAddress">>) \o
      List("string", <<"IPv6Addresses">>) \o Val("string", <<"PrivateAddress">>) \o
      Val("int", <<"SSHPort">>) \o
      Val("string", <<"SSHUsername", "SSHPrivateKeyFile", "SSHCertFile">>) \o
      List("byte", <<"SSHHostPublicKey">>) \o Val("string", <<"SSHAgentSocket", "Bastion">>) \o
      Val("int", <<"BastionPort">>) \o Val("string", <<"BastionUser">>) \o
      List("byte", <<"BastionHostPublicKey">>) \o
      Val("string", <<"BastionPrivateKeyFile", "Hostname">>) \o Val("bool", <<"IsLeader">>) \o
      List("Taint", <<"Taints">>) \o Map("string", <<"Labels", "Annotations">>) \o
      Val("KubeletConfig", <<"Kubelet">>) \o Val("OperatingSystemName", <<"OperatingSystem">>),
   ControlPlaneConfig |-> List("HostConfig", <<"Hosts">>) \o List("NodeSet", <<"NodeSets">>),
   NodeSet |-> Val("string", <<"Name">>) \o Val("int", <<"Replicas", "Generation">>) \o
      Val("NodeSettingsSpec", <<"NodeSettings">>) \o
      Val("OperatingSystemName", <<"OperatingSystem">>) \o
      Val("OperatingSystemSpec", <<"OperatingSystemSpec">>) \o Val("SSHSpec", <<"SSH">>) \o
      List("byte", <<"CloudProviderSpec">>),
   NodeSettingsSpec |-> Map("string", <<"Labels", "Annotations">>) \o
      List("Taint", <<"Taints">>),
   OperatingSystemSpec |-> Val("bool", <<"DistUpgradeOnBoot">>),
   SSHSpec |-> List("string", <<"PublicKeys">>) \o Val("int", <<"Port">>) \o
      Val("string", <<"Username", "PrivateKeyFile", "CertFile">>) \o
      List("byte", <<"HostPublicKey">>) \o Val("string", <<"AgentSocket", "Bastion">>) \o
      Val("int", <<"BastionPort">>) \o Val("string", <<"BastionUser">>) \o
      List("byte", <<"BastionHostPublicKey">>),
   StaticWorkersConfig |-> List("HostConfig", <<"Hosts">>)]

\* Kubelet, API endpoint, the providers from AWS to AWS load balancers.
ProviderTypes ==
  [KubeletConfig |-> Map("string", <<"SystemReserved", "KubeReserved", "EvictionHard">>) \o
      Ptr("int32", <<"MaxPods">>) \o Ptr("int64", <<"PodPidsLimit">>) \o
      Ptr("int32", <<"ImageGCHighThresholdPercent", "ImageGCLowThresholdPercent">>) \o
      Val("Duration", <<"ImageMinimumGCAge", "ImageMaximumGCAge">>),
   APIEndpoint |-> Val("string", <<"Host">>) \o Val("int", <<"Port">>) \o
      List("string", <<"AlternativeNames">>),
   CloudProviderSpec |-> Val("bool", <<"External", "DisableBundledCSIDrivers">>) \o
      Val("string", <<"CloudConfig", "CSIConfig", "SecretProviderClassName">>) \o
      Ptr("AWSSpec", <<"AWS">>) \o Ptr("AzureSpec", <<"Azure">>) \o
      Ptr("DigitalOceanSpec", <<"DigitalOcean">>) \o Ptr("GCESpec", <<"GCE">>) \o
      Ptr("HetznerSpec", <<"Hetzner">>) \o Ptr("KubevirtSpec", <<"Kubevirt">>) \o
      Ptr("NutanixSpec", <<"Nutanix">>) \o Ptr("OpenstackSpec", <<"Openstack">>) \o
      Ptr("EquinixMetalSpec", <<"EquinixMetal">>) \o
      Ptr("VMwareCloudDirectorSpec", <<"VMwareCloudDirector">>) \o
      Ptr("VsphereSpec", <<"Vsphere">>) \o Ptr("NoneSpec", <<"None">>),
   AWSSpec |-> Val("string", <<"Region">>) \o Ptr("AWSControlPlane", <<"ControlPlane">>),
   AWSControlPlane |-> Val("AWSLoadBalancer", <<"LoadBalancer">>),
   AWSLoadBalancer |-> Val("string", <<"Name">>) \o Ptr("bool", <<"Internal">>) \o
      List("string", <<"SecurityGroupIDs">>) \o Map("string", <<"Tags">>),
   AzureSpec |-> Ptr("AzureControlPlane", <<"ControlPlane">>)]

\* Control planes and load balancers of the clouds.
LoadBalancerTypes ==
  [AzureControlPlane |-> Val("AzureLoadBalancer", <<"LoadBalancer">>),
   AzureLoadBalancer |->
      Val("string", <<"Name", "ResourceGroup", "Location", "Sku", "PublicIPName">>),
   DigitalOceanSpec |-> Ptr("DigitalOceanControlPlane", <<"ControlPlane">>),
   DigitalOceanControlPlane |-> Val("DigitalOceanLoadBalancer", <<"LoadBalancer">>),
   DigitalOceanLoadBalancer |-> Val("string", <<"ID", "Name", "Region">>) \o
      Val("uint32", <<"SizeUnit">>),
   GCESpec |-> Ptr("GCEControlPlane", <<"ControlPlane">>),
   GCEControlPlane |-> Val("GCELoadBalancer", <<"LoadBalancer">>),
   GCELoadBalancer |-> Val("string", <<"ProjectID", "Region", "Network", "Name">>) \o
      List("string", <<"AllowedSourceRanges">>),
   HetznerSpec |-> Val("string", <<"NetworkID">>) \o
      Ptr("HetznerControlPlane", <<"ControlPlane">>),
   HetznerControlPlane |-> Val("HetznerLoadBalancer", <<"LoadBalancer">>),
   HetznerLoadBalancer |-> Val("string", <<"Name", "Type", "Location">>) \o
      Ptr("bool", <<"PublicIP">>) \o Map("string", <<"Labels">>)]

\* The other providers.
PlatformTypes ==
  [KubevirtSpec |-> Val("string", <<"InfraNamespace">>) \o
      Val("bool", <<"ZoneAndRegionEnabled", "LoadBalancerEnabled">>) \o
      Ptr("KubevirtControlPlane", <<"ControlPlane">>),
   KubevirtControlPlane |-> Val("KubevirtLoadBalancer", <<"LoadBalancer">>),
   KubevirtLoadBalancer |-> Val("string", <<"Name">>) \o
      Val("ServiceType", <<"ServiceType">>) \o Map("string", <<"Annotations">>),
   NutanixSpec |-> <<>>,
   OpenstackSpec |-> Ptr("OpenstackControlPlane", <<"ControlPlane">>),
   OpenstackControlPlane |-> Val("OpenstackLoadBalancer", <<"LoadBalancer">>),
   OpenstackLoadBalancer |-> Val("string", <<"Name", "PoolID">>),
   EquinixMetalSpec |-> <<>>,
   VMwareCloudDirectorSpec |-> Val("string", <<"VApp", "StorageProfile">>),
   VsphereSpec |-> <<>>,
   NoneSpec |-> <<>>,
   VersionConfig |-> Val("string", <<"Kubernetes">>),
   ClusterNetworkConfig |->
      Val("string", <<"PodSubnet", "PodSubnetIPv6", "ServiceSubnet", "ServiceSubnetIPv6",
           "ServiceDomainName", "NodePortRange">>) \o
      Ptr("CNI", <<"CNI">>) \o Ptr("KubeProxyConfig", <<"KubeProxy">>) \o
      Val("IPFamily", <<"IPFamily">>) \o
      Ptr("int", <<"NodeCIDRMaskSizeIPv4", "NodeCIDRMaskSizeIPv6">>) \o
      List("string", <<"ClusterDNS">>)]

\* Kube-proxy, CNI.
NetworkTypes ==
  [KubeProxyConfig |-> Val("bool", <<"SkipInstallation">>) \o Ptr("IPVSConfig", <<"IPVS">>) \o
      Ptr("IPTables", <<"IPTables">>),
   IPVSConfig |-> Val("string", <<"Scheduler">>) \o List("string", <<"ExcludeCIDRs">>) \o
      Val("bool", <<"StrictARP">>) \o
      Val("Duration", <<"TCPTimeout", "TCPFinTimeout", "UDPTimeout">>),
   IPTables |-> <<>>,
   CNI |-> Ptr("CanalSpec", <<"Canal">>) \o Ptr("CiliumSpec", <<"Cilium">>) \o
      Ptr("WeaveNetSpec", <<"WeaveNet">>) \o Ptr("ExternalCNISpec", <<"External">>),
   CanalSpec |-> Val("int", <<"MTU">>),
   CiliumSpec |->
      Val("bool", <<"KubeProxyReplacement", "EnableHubble", "EnableL2Announcements",
           "EnableGatewayAPI", "EnableLocalRedirectPolicy">>),
   WeaveNetSpec |-> Val("bool", <<"Encrypted">>),
   ExternalCNISpec |-> <<>>,
   ProxyConfig |-> Val("string", <<"HTTP", "HTTPS", "NoProxy">>),
   DynamicWorkerConfig |-> Val("string", <<"Name">>) \o Ptr("int", <<"Replicas">>) \o
      Val("ProviderSpec", <<"Config">>)]

\* Dynamic workers, proxies, controllers, assets.
WorkerTypes ==
  [ProviderSpec |-> List("byte", <<"CloudProviderSpec">>) \o
      Map("string", <<"Annotations", "NodeAnnotations", "MachineObjectAnnotations", "Labels">>) \o
      List("Taint", <<"Taints">>) \o List("string", <<"SSHPublicKeys">>) \o
      Val("string", <<"OperatingSystem">>) \o List("byte", <<"OperatingSystemSpec">>) \o
      Ptr("ProviderStaticNetworkConfig", <<"Network">>) \o
      Ptr("string", <<"OverwriteCloudConfig">>),
   DNSConfig |-> List("string", <<"Servers">>),
   ProviderStaticNetworkConfig |-> Val("string", <<"CIDR", "Gateway">>) \o
      Val("DNSConfig", <<"DNS">>) \o Val("IPFamily", <<"IPFamily">>),
   MachineControllerConfig |-> Val("bool", <<"Deploy">>),
   OperatingSystemManagerConfig |-> Val("bool", <<"Deploy", "EnableNonRootDeviceOwnership">>),
   SystemPackages |-> Val("bool", <<"ConfigureRepositories">>),
   AssetConfiguration |->
      Val("ImageAsset", <<"Kubernetes", "Pause", "CoreDNS", "Etcd", "MetricsServer">>) \o
      Val("BinaryAsset", <<"CNI", "NodeBinaries", "Kubectl">>)]

\* Registries and features.
FeatureTypes ==
  [ImageAsset |-> Val("string", <<"ImageRepository", "ImageTag">>),
   BinaryAsset |-> Val("string", <<"URL">>),
   RegistryConfiguration |-> Val("string", <<"OverwriteRegistry">>) \o
      Val("bool", <<"InsecureRegistry">>),
   Features |-> Ptr("CoreDNS", <<"CoreDNS">>) \o
      Ptr("AlwaysPullImages", <<"AlwaysPullImages">>) \o
      Ptr("EventRateLimit", <<"EventRateLimit">>) \o
      Ptr("PodNodeSelector", <<"PodNodeSelector">>) \o
      Ptr("StaticAuditLog", <<"StaticAuditLog">>) \o
      Ptr("DynamicAuditLog", <<"DynamicAuditLog">>) \o
      Ptr("WebhookAuditLog", <<"WebhookAuditLog">>) \o
      Ptr("MetricsServer", <<"MetricsServer">>) \o Ptr("OpenIDConnect", <<"OpenIDConnect">>) \o
      Ptr("AuthenticationConfiguration", <<"AuthenticationConfiguration">>) \o
      Ptr("EncryptionProviders", <<"EncryptionProviders">>) \o
      Ptr("NodeLocalDNS", <<"NodeLocalDNS">>),
   NodeLocalDNS |-> Val("bool", <<"Deploy">>),
   CoreDNS |-> Ptr("int32", <<"Replicas">>) \o Ptr("bool", <<"DeployPodDisruptionBudget">>) \o
      Val("string", <<"ImageRepository">>),
   AlwaysPullImages |-> Val("bool", <<"Enable">>),
   EventRateLimit |-> Val("bool", <<"Enable">>) \o Val("EventRateLimitConfig", <<"Config">>),
   EventRateLimitConfig |-> Val("string", <<"ConfigFilePath">>),
   PodNodeSelector |-> Val("bool", <<"Enable">>) \o Val("PodNodeSelectorConfig", <<"Config">>),
   PodNodeSelectorConfig |-> Val("string", <<"ConfigFilePath">>),
   StaticAuditLog |-> Val("bool", <<"Enable">>) \o Val("StaticAuditLogConfig", <<"Config">>)]

\* Audit logs and their webhooks.
AuditTypes ==
  [StaticAuditLogConfig |-> Val("string", <<"PolicyFilePath", "LogPath">>) \o
      Val("int", <<"LogMaxAge", "LogMaxBackup", "LogMaxSize">>),
   WebhookAuditLog |-> Val("bool", <<"Enable">>) \o Val("WebhookAuditLogConfig", <<"Config">>),
   WebhookAuditLogConfig |-> Val("string", <<"PolicyFilePath", "ConfigFilePath">>) \o
      Val("Duration", <<"InitialBackOff">>) \o Val("WebhookMode", <<"Mode">>) \o
      Val("string", <<"Version">>) \o Val("WebHookAuditLogBatchConfig", <<"Batch">>) \o
      Val("WebHookAuditLogTruncateConfig", <<"Truncate">>),
   WebHookAuditLogBatchConfig |-> Val("int", <<"BufferSize", "MaxSize">>) \o
      Val("Duration", <<"MaxWait">>) \o Val("WebHookAuditLogThrottleConfig", <<"Throttle">>),
   WebHookAuditLogThrottleConfig |-> Val("bool", <<"Disable">>) \o Val("int", <<"Burst">>) \o
      Val("float32", <<"QPS">>),
   WebHookAuditLogTruncateConfig |-> Val("bool", <<"Enable">>) \o
      Val("int", <<"MaxBatchSize", "MaxEventSize">>),
   DynamicAuditLog |-> Val("bool", <<"Enable">>),
   MetricsServer |-> Val("bool", <<"Enable">>),
   OpenIDConnect |-> Val("bool", <<"Enable">>) \o Val("OpenIDConnectConfig", <<"Config">>)]

\* Openid connect, addons, encryption.
AddonTypes ==
  [OpenIDConnectConfig |->
      Val("string", <<"IssuerURL", "ClientID", "UsernameClaim", "UsernamePrefix",
           "GroupsClaim", "GroupsPrefix", "RequiredClaim", "SigningAlgs", "CAFile">>),
   AuthenticationConfiguration |-> Val("bool", <<"Enable">>) \o
      Val("string", <<"ConfigFilePath">>),
   Addon |-> Val("string", <<"Name">>) \o Map("string", <<"Params">>) \o
      Val("bool", <<"DisableTemplating", "Delete">>),
   AddonRef |-> Ptr("Addon", <<"Addon">>) \o Ptr("HelmRelease", <<"HelmRelease">>),
   Addons |-> Val("string", <<"Path">>) \o List("AddonRef", <<"Addons">>),
   EncryptionProviders |-> Val("bool", <<"Enable">>) \o
      Val("string", <<"CustomEncryptionConfiguration">>)]

----------------------------------------------------------------------------
(* The edits an external version makes to a structure. *)

Without(fields, names) ==
  LET Kept(f) == f[1] \notin names
  IN SelectSeq(fields, Kept)

Before(fields, name, new) ==
  LET i == CHOOSE i \in DOMAIN fields : fields[i][1] = name
  IN SubSeq(fields, 1, i - 1) \o new \o SubSeq(fields, i, Len(fields))

Omit(types, names) == [T \in DOMAIN types \ names |-> types[T]]

V1beta2ClusterTypes ==
  [ClusterTypes EXCEPT !.KubeOneCluster =
     Before(Without(@, {"AssetConfiguration"}), "SystemPackages",
            List("HelmRelease", <<"HelmReleases">>))]

V1beta2RuntimeTypes ==
  [RuntimeTypes EXCEPT
     !.HelmRelease = Before(Without(@, {"Insecure"}), "WaitTimeout", Val("bool", <<"Insecure">>)),
     !.ContainerRuntimeConfig = Ptr("ContainerRuntimeDocker", <<"Docker">>) \o @]
  @@ [ContainerRuntimeDocker |-> List("string", <<"RegistryMirrors">>)]

V1beta2HostTypes == HostTypes

V1beta2ProviderTypes == [ProviderTypes EXCEPT !.KubeletConfig = Without(@, {"PodPidsLimit"})]

V1beta2LoadBalancerTypes == LoadBalancerTypes

V1beta2PlatformTypes == PlatformTypes

V1beta2NetworkTypes ==
  [NetworkTypes EXCEPT !.CiliumSpec =
     Val("KubeProxyReplacementType", <<"KubeProxyReplacement">>) \o
     Without(@, {"KubeProxyReplacement"})]

V1beta2WorkerTypes ==
  [Omit(WorkerTypes, {"AssetConfiguration"}) EXCEPT !.ProviderSpec =
     Before(@, "NodeAnnotations", Map("string", <<"MachineAnnotations">>))]

V1beta2FeatureTypes ==
  [Omit(FeatureTypes, {"ImageAsset", "BinaryAsset"}) EXCEPT !.Features =
     Before(Without(@, {"WebhookAuditLog"}), "StaticAuditLog",
            Ptr("PodSecurityPolicy", <<"PodSecurityPolicy">>))]
  @@ [PodSecurityPolicy |-> Val("bool", <<"Enable">>)]

WebhookTypes ==
  {"WebhookAuditLog", "WebhookAuditLogConfig", "WebHookAuditLogBatchConfig",
   "WebHookAuditLogThrottleConfig", "WebHookAuditLogTruncateConfig"}

V1beta2AuditTypes == Omit(AuditTypes, WebhookTypes)

V1beta2AddonTypes ==
  [Omit(AddonTypes, {"AddonRef"}) EXCEPT !.Addons =
     Val("bool", <<"Enable">>) \o Val("string", <<"Path">>) \o
     Map("string", <<"GlobalParams">>) \o List("Addon", <<"Addons">>)]

V1beta3ClusterTypes ==
  [ClusterTypes EXCEPT !.KubeOneCluster =
     Before(Without(@, {"AssetConfiguration", "KubeletConfig"}), "Versions",
            Val("KubeletConfig", <<"KubeletConfig">>))]

V1beta3RuntimeTypes == RuntimeTypes
V1beta3HostTypes == HostTypes
V1beta3ProviderTypes == ProviderTypes
V1beta3LoadBalancerTypes == LoadBalancerTypes
V1beta3PlatformTypes == PlatformTypes
V1beta3NetworkTypes == NetworkTypes
V1beta3WorkerTypes == Omit(WorkerTypes, {"AssetConfiguration"})
V1beta3FeatureTypes == Omit(FeatureTypes, {"ImageAsset", "BinaryAsset"})

V1beta3AuditTypes ==
  [AuditTypes EXCEPT !.WebhookAuditLogConfig =
     [i \in DOMAIN @ |-> IF @[i][1] = "Mode" THEN <<"Mode", "val", "string">> ELSE @[i]]]

V1beta3AddonTypes == AddonTypes

----------------------------------------------------------------------------
Types ==
  [kubeone |-> ClusterTypes @@ RuntimeTypes @@ HostTypes @@ ProviderTypes @@ LoadBalancerTypes @@
      PlatformTypes @@ NetworkTypes @@ WorkerTypes @@ FeatureTypes @@ AuditTypes @@ AddonTypes,
   v1beta2 |-> V1beta2ClusterTypes @@ V1beta2RuntimeTypes @@ V1beta2HostTypes @@
      V1beta2ProviderTypes @@ V1beta2LoadBalancerTypes @@ V1beta2PlatformTypes @@
      V1beta2NetworkTypes @@ V1beta2WorkerTypes @@ V1beta2FeatureTypes @@ V1beta2AuditTypes @@
      V1beta2AddonTypes,
   v1beta3 |-> V1beta3ClusterTypes @@ V1beta3RuntimeTypes @@ V1beta3HostTypes @@
      V1beta3ProviderTypes @@ V1beta3LoadBalancerTypes @@ V1beta3PlatformTypes @@
      V1beta3NetworkTypes @@ V1beta3WorkerTypes @@ V1beta3FeatureTypes @@ V1beta3AuditTypes @@
      V1beta3AddonTypes]

\* Named strings (type IPFamily string) have the memory of a string.
NamedStrings ==
  {"EtcdAutoCompactionMode", "OperatingSystemName", "IPFamily", "WebhookMode",
   "KubeProxyReplacementType", "ServiceType"}

Underlying(type) == IF type \in NamedStrings THEN "string" ELSE type

FieldNames(v, T) == {Types[v][T][i][1] : i \in DOMAIN Types[v][T]}
FieldOf(v, T, f) == CHOOSE x \in ToSet(Types[v][T]) : x[1] = f

RECURSIVE SameLayout(_, _, _)

\* The memory of a value of type T of version v is that of version w's T:
\* the same fields, in the same order, of the same shapes and layouts.
SameLayout(v, w, T) ==
  IF T \in DOMAIN Types[v] /\ T \in DOMAIN Types[w]
  THEN LET a == Types[v][T]
           b == Types[w][T]
       IN /\ Len(a) = Len(b)
          /\ \A i \in DOMAIN a :
               /\ a[i][1] = b[i][1]
               /\ a[i][2] = b[i][2]
               /\ Underlying(a[i][3]) = Underlying(b[i][3])
               /\ SameLayout(v, w, a[i][3])
  ELSE T \notin DOMAIN Types[v] /\ T \notin DOMAIN Types[w]

RECURSIVE HoldsReference(_, _)

\* A value of type T reaches memory outside itself.  Of the types of other
\* packages only corev1.Taint does (TimeAdded is a pointer).
HoldsReference(v, T) ==
  \/ T = "Taint"
  \/ /\ T \in DOMAIN Types[v]
     /\ \E f \in ToSet(Types[v][T]) : f[2] # "val" \/ HoldsReference(v, f[3])
============================================================================
