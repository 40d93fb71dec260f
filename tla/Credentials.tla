----------------------------- MODULE Credentials -----------------------------
(* pkg/credentials: which credentials of a provider each component gets.     *)
(* A source is a function from <<type, name>> to a value; the variable       *)
(* MC_OS_PASSWORD is <<"MC", "OS_PASSWORD">>, OS_PASSWORD is <<"",           *)
(* "OS_PASSWORD">>.  Values are abstract: "" is unset and " " is blank.  A   *)
(* value in a Secret is the sequence of the conversions applied to it, ended *)
(* by the value itself.                                                      *)
EXTENDS Integers, Sequences, Functions, TLC

TypeUniversal == ""
TypeCCM == "CCM"
TypeMC == "MC"
TypeOSM == "OSM"

NoCredentials == [name \in {} |-> <<>>]
Found(creds) == [ok |-> TRUE, creds |-> creds]
CredentialsError == [ok |-> FALSE, creds |-> NoCredentials]

ValueIn(source, key) == IF key \in DOMAIN source THEN source[key] ELSE ""

\* The credentials file is asked before the environment.
fetch(sources, key) ==
    IF ValueIn(sources.static, key) # "" THEN ValueIn(sources.static, key)
                                         ELSE ValueIn(sources.env, key)

\* A variable of the component's own is asked before the one for everybody.
get(sources, typ, name) ==
    IF typ # TypeUniversal /\ fetch(sources, <<typ, name>>) # ""
    THEN fetch(sources, <<typ, name>>)
    ELSE fetch(sources, <<TypeUniversal, name>>)

TrimSpace(v) == IF v = " " THEN "" ELSE v

-----------------------------------------------------------------------------
(* What each provider needs: the variable and its name in the Secret.        *)

Var(name, mc) == [name |-> name, mc |-> mc]
Plain(names) == [i \in DOMAIN names |-> Var(names[i], names[i])]

AzureVars ==
    << Var("ARM_CLIENT_ID", "AZURE_CLIENT_ID"), Var("ARM_CLIENT_SECRET", "AZURE_CLIENT_SECRET"),
       Var("ARM_TENANT_ID", "AZURE_TENANT_ID"), Var("ARM_SUBSCRIPTION_ID", "AZURE_SUBSCRIPTION_ID") >>
GCEVars == << Var("GOOGLE_CREDENTIALS", "GOOGLE_SERVICE_ACCOUNT") >>
NutanixRequired == << "NUTANIX_ENDPOINT", "NUTANIX_PORT", "NUTANIX_USERNAME", "NUTANIX_PASSWORD" >>
NutanixVars == Plain(NutanixRequired \o <<"NUTANIX_INSECURE", "NUTANIX_PROXY_URL", "NUTANIX_CLUSTER_NAME">>)
OpenStackVars ==
    Plain(<<"OS_AUTH_URL", "OS_USERNAME", "OS_PASSWORD", "OS_APPLICATION_CREDENTIAL_ID",
            "OS_APPLICATION_CREDENTIAL_SECRET", "OS_DOMAIN_NAME", "OS_REGION_NAME",
            "OS_TENANT_ID", "OS_TENANT_NAME">>)
VCDVars ==
    Plain(<<"VCD_USER", "VCD_PASSWORD", "VCD_API_TOKEN", "VCD_ORG", "VCD_URL", "VCD_VDC",
            "VCD_ALLOW_UNVERIFIED_SSL">>)
VSphereVars ==
    << Var("VSPHERE_SERVER", "VSPHERE_ADDRESS"), Var("VSPHERE_USER", "VSPHERE_USERNAME"),
       Var("VSPHERE_PASSWORD", "VSPHERE_PASSWORD") >>

AllSet(creds, names) == \A n \in names : creds[n] # ""

defaultValidationFunc(creds) == AllSet(creds, DOMAIN creds)

nutanixValidationFunc(creds) == AllSet(creds, Range(NutanixRequired))

openstackValidationFunc(creds) ==
    LET app == {"OS_APPLICATION_CREDENTIAL_ID", "OS_APPLICATION_CREDENTIAL_SECRET"}
        user == {"OS_USERNAME", "OS_PASSWORD"}
        someOf(names) == \E n \in names : creds[n] # ""
    IN /\ AllSet(creds, {"OS_AUTH_URL", "OS_REGION_NAME"})
       /\ someOf(app) \/ creds["OS_DOMAIN_NAME"] # ""
       /\ someOf(app) # someOf(user)
       /\ someOf(app) => AllSet(creds, app)
       /\ someOf(user) => AllSet(creds, user) /\ someOf({"OS_TENANT_ID", "OS_TENANT_NAME"})

vmwareCloudDirectorValidationFunc(creds) ==
    LET user == {"VCD_USER", "VCD_PASSWORD"}
        userCreds == \E n \in user : creds[n] # ""
    IN /\ AllSet(creds, {"VCD_ORG", "VCD_URL", "VCD_VDC"})
       /\ userCreds # (creds["VCD_API_TOKEN"] # "")
       /\ userCreds => AllSet(creds, user)

ProviderVars(provider) ==
    CASE provider = "azure" -> AzureVars
      [] provider = "digitalocean" -> <<Var("DIGITALOCEAN_TOKEN", "DO_TOKEN")>>
      [] provider = "gce" -> GCEVars
      [] provider = "hetzner" -> <<Var("HCLOUD_TOKEN", "HZ_TOKEN")>>
      [] provider = "kubevirt" -> Plain(<<"KUBEVIRT_KUBECONFIG">>)
      [] provider = "nutanix" -> NutanixVars
      [] provider = "openstack" -> OpenStackVars
      [] provider = "vmwareCloudDirector" -> VCDVars
      [] provider = "vsphere" -> VSphereVars

validationFunc(provider, creds) ==
    CASE provider = "nutanix" -> nutanixValidationFunc(creds)
      [] provider = "openstack" -> openstackValidationFunc(creds)
      [] provider = "vmwareCloudDirector" -> vmwareCloudDirectorValidationFunc(creds)
      [] OTHER -> defaultValidationFunc(creds)

\* Trimmed values, validated under the name of the variable and returned under
\* the name that the components read.
parseCredentialVariables(sources, typ, provider, vars) ==
    LET creds == [n \in {vars[i].name : i \in DOMAIN vars} |-> TrimSpace(get(sources, typ, n))]
    IN IF validationFunc(provider, creds)
       THEN Found([mc \in {vars[i].mc : i \in DOMAIN vars} |->
                      <<creds[(CHOOSE v \in Range(vars) : v.mc = mc).name]>>])
       ELSE CredentialsError

\* Both variables, or the profile that AWS_PROFILE names.
aws(sources, typ) ==
    LET names == {"AWS_ACCESS_KEY_ID", "AWS_SECRET_ACCESS_KEY"}
        creds == [n \in names |-> get(sources, typ, n)]
    IN IF AllSet(creds, names) THEN Found([n \in names |-> <<creds[n]>>])
       ELSE IF sources.awsProfile = "" THEN CredentialsError
       ELSE Found([n \in names |-> <<"profile", sources.awsProfile>>])

\* The variables of the former name or those of the new one, whole and alone.
equinixmetal(sources, typ) ==
    LET of(key, project) == [METAL_AUTH_TOKEN |-> get(sources, typ, key), METAL_PROJECT_ID |-> get(sources, typ, project)]
        none(v) == \A n \in DOMAIN v : v[n] = ""
        oneOf(packet, metal) ==
            CASE defaultValidationFunc(packet) /\ none(metal) -> Found([n \in DOMAIN packet |-> <<packet[n]>>])
              [] none(packet) /\ defaultValidationFunc(metal) -> Found([n \in DOMAIN metal |-> <<metal[n]>>])
              [] OTHER -> CredentialsError
    IN oneOf(of("PACKET_API_KEY", "PACKET_PROJECT_ID"), of("METAL_AUTH_TOKEN", "METAL_PROJECT_ID"))

\* machine-controller and OSM expect the key of a Google service account encoded
\* twice, and the address of a vCenter is given a scheme.
Adapted(provider, typ, found) ==
    IF found.ok /\ provider = "gce" /\ typ \in {TypeMC, TypeOSM}
    THEN Found([n \in DOMAIN found.creds |-> <<"base64">> \o found.creds[n]])
    ELSE IF found.ok /\ provider = "vsphere"
    THEN Found([found.creds EXCEPT !["VSPHERE_ADDRESS"] = <<"https://">> \o @])
    ELSE found

ProviderCredentials(provider, sources, typ) ==
    CASE provider = "aws" -> aws(sources, typ)
      [] provider = "equinixmetal" -> equinixmetal(sources, typ)
      [] provider = "none" -> Found(NoCredentials)
      [] OTHER -> Adapted(provider, typ, parseCredentialVariables(sources, typ, provider, ProviderVars(provider)))

\* The annotation that restarts the Pods of a component: a digest of provider
\* and credentials, taken to be injective.
credentialsHash(provider, creds) == [provider |-> provider, creds |-> creds]

-----------------------------------------------------------------------------
(* The Secrets.                                                              *)

Secret(creds) == [key |-> "", data |-> creds]

\* The CSI driver of vSphere finds the login under the address of its vCenter.
vsphereSecret(creds) ==
    LET address == creds["VSPHERE_ADDRESS"]
    IN [key |-> address[Len(address)],
        data |-> [username |-> creds["VSPHERE_USERNAME"], password |-> creds["VSPHERE_PASSWORD"]]]

\* A kubeconfig given in base64 is decoded into a buffer of the largest length
\* the text may decode to: what padding shortens is left as zero bytes.
Encoded == [kubeconfig64 |-> <<"kubeconfig">>, kubeconfigPadded64 |-> <<"kubeconfig", "NUL">>]

kubevirtSecret(creds) ==
    LET b64 == creds["KUBEVIRT_KUBECONFIG"][1]
    IN Secret([KUBEVIRT_KUBECONFIG |-> IF b64 \in DOMAIN Encoded THEN Encoded[b64] ELSE <<b64>>])
=============================================================================
