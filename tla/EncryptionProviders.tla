------------------------ MODULE EncryptionProviders ------------------------
(***************************************************************************)
(* Encryption of Secrets at rest: the task lists that enable encryption,   *)
(* rotate its key and disable it (pkg/tasks, pkg/cmd/apply.go), acting on  *)
(* the control plane nodes.  A node holds the configuration file; its API  *)
(* server reads the file only when it starts, and only when its manifest   *)
(* carries the --encryption-provider-config flag.  Clients write Secrets   *)
(* through any API server at any time.                                     *)
(*                                                                         *)
(* A configuration is the sequence of its providers: a positive number is  *)
(* an AES-CBC key, Identity is the provider that stores plain text.  The   *)
(* first provider encrypts, every provider can decrypt what it encrypted.  *)
(* The empty sequence stands for a missing file and for an API server that *)
(* cannot start.  Only the configuration that kubeone generates is         *)
(* modelled, not a custom one supplied by the user.                        *)
(***************************************************************************)
EXTENDS Naturals, Sequences

CONSTANTS
    Nodes,         \* control plane nodes
    Secrets,
    MaxKey,        \* bound on the keys that are generated
    LogsMatch,     \* every API server log matches the restart script's grep
    Worlds,        \* the sets of faults that may occur together
    CarefulStart   \* the operator starts no rotation or disabling while the
                   \* files differ or list two keys; the code does not check

ASSUME ClusterAssumption == Nodes # {} /\ Nodes \cap Secrets = {} /\ MaxKey \in Nat
ASSUME FaultAssumption ==
    /\ {LogsMatch, CarefulStart} \subseteq BOOLEAN
    /\ Worlds \subseteq SUBSET {"command", "restart", "kill"}

VARIABLES
    \* The cluster.
    file,      \* the configuration file of each node
    flag,      \* the API server manifest of the node carries the flag
    loaded,    \* the configuration that the running API server uses
    secret,    \* the provider each Secret is stored under
    nextKey,   \* the next random key
    \* The running kubeone process.
    want,      \* Cluster.Features.EncryptionProviders.Enable
    live,      \* LiveCluster.EncryptionConfiguration
    leader,    \* the host elected by the last probes
    conf,      \* the file in s.Configuration, uploaded with every push
    tasks,     \* the tasks left, the running one first
    entered,   \* the function of the running task has been called
    todo,      \* nodes or Secrets it still has to process
    failed,    \* it failed on some node
    outcome,   \* what the last kubeone process returned
    \* The faults that may occur in this behaviour: an SSH command on a node
    \* fails, an API server restarts on its own, kubeone is killed or gives up.
    world

cluster == <<file, flag, loaded, secret, nextKey>>
process == <<want, live, leader, conf, tasks, entered, todo, failed, outcome>>
vars == <<file, flag, loaded, secret, nextKey,
          want, live, leader, conf, tasks, entered, todo, failed, outcome,
          world>>

Identity == 0
Missing == <<>>
Providers(config) == {config[i] : i \in 1..Len(config)}
Configs == UNION {[1..n -> 0..MaxKey] : n \in 0..3}
Task == Head(tasks)

----------------------------------------------------------------------------
(* The API servers.                                                        *)

\* What the API server of node n loads when it starts.
AtStart(n) == IF flag[n] THEN file[n] ELSE <<Identity>>

Running(n) == loaded[n] # Missing

Readable(s, n) == secret[s] \in Providers(loaded[n])

\* A client creates or replaces a Secret through the API server of node n.
WriteSecret(s, n) ==
    /\ Running(n)
    /\ secret' = [secret EXCEPT ![s] = Head(loaded[n])]
    /\ UNCHANGED <<file, flag, loaded, nextKey, process>>

\* The container of an API server exits and the kubelet starts it again.
RestartOnItsOwn(n) ==
    /\ "restart" \in world
    /\ loaded' = [loaded EXCEPT ![n] = AtStart(n)]
    /\ UNCHANGED <<file, flag, secret, nextKey, process>>

----------------------------------------------------------------------------
(* pkg/templates/encryptionproviders: the configurations kubeone writes.   *)

NewEncryptionProvidersConfig(key) == <<key, Identity>>

\* The keys of the AES-CBC provider, the first one in all but the
\* configuration of the disable case.
DecryptOnlyPossible(config) == Head(config) # Identity
UpdateEncryptionConfigDecryptOnly(config) ==
    <<Identity>> \o SubSeq(config, 1, Len(config) - 1)

UpdateEncryptionConfigWithNewKey(config, key) ==
    <<key, config[Len(config) - 1], Identity>>

UpdateEncryptionConfigRemoveOldKey(config) == <<config[1], Identity>>

----------------------------------------------------------------------------
(* The task lists of pkg/tasks/tasks.go, without the tasks that touch      *)
(* neither a configuration file nor an API server.                         *)

ShouldDisableEncryption(w, lv) == ~w /\ lv.enable
ShouldEnableEncryption(w, lv) == w /\ ~lv.enable
EncryptionEnabled(w, lv) == w /\ lv.enable

WithRotateKey ==
    <<"probes", "fetch", "uploadWithNewKey", "restart", "rewrite",
      "uploadWithoutOldKey", "restart">>

WithDisableEncryptionProviders ==
    <<"probes", "fetch", "uploadIdentityFirst", "restart", "rewrite", "removeFile">>

WithUpgrade == <<"probes", "generateFiles", "uploadFiles", "upgrade", "restart">>

\* Mutant: enabling encryption leaves the existing Secrets as they are.
applyWithoutRewrite(w, lv) ==
    (IF ShouldDisableEncryption(w, lv) THEN WithDisableEncryptionProviders ELSE <<>>)
    \o WithUpgrade

runApplyUpgradeIfNeeded(w, lv) ==
    (IF ShouldDisableEncryption(w, lv) THEN WithDisableEncryptionProviders ELSE <<>>)
    \o WithUpgrade
    \o (IF ShouldEnableEncryption(w, lv) THEN <<"rewrite">> ELSE <<>>)

----------------------------------------------------------------------------
(* Tasks.Run and Task.Run: a task that fails is retried from its start,    *)
(* a task that keeps failing ends the process.                             *)

Advance ==
    /\ tasks' = Tail(tasks)
    /\ entered' = FALSE /\ todo' = {} /\ failed' = FALSE
    /\ outcome' = IF Len(tasks) = 1 THEN "ok" ELSE outcome

Abort ==
    /\ tasks' = <<>>
    /\ entered' = FALSE /\ todo' = {} /\ failed' = FALSE
    /\ outcome' = "error"

Retry ==
    /\ entered' = FALSE /\ todo' = {} /\ failed' = FALSE
    /\ UNCHANGED <<tasks, outcome>>

Enter(targets) ==
    /\ entered' = TRUE /\ todo' = targets
    /\ UNCHANGED <<tasks, failed, outcome>>

At(task) == tasks # <<>> /\ Task = task

\* investigateCluster: the leader is a host whose API server is healthy;
\* encryption is enabled when some API server pod has the flag, and then
\* the leader's file is read.
Detected == \E n \in Nodes : flag[n]
Investigated(n) ==
    IF Detected THEN [enable |-> TRUE, config |-> file[n]]
                ELSE [enable |-> FALSE, config |-> Missing]

\* A kubeone apply --force-upgrade, with or without --rotate-encryption-key.
runApply(w, rotate) ==
    /\ tasks = <<>>
    /\ \E n \in Nodes :
        /\ Running(n)
        /\ Detected => file[n] # Missing
        /\ rotate => /\ EncryptionEnabled(w, Investigated(n))
                     /\ nextKey <= MaxKey
        /\ CarefulStart /\ (rotate \/ ShouldDisableEncryption(w, Investigated(n)))
           => \A m \in Nodes : file[m] = file[n] /\ Len(file[n]) = 2
        /\ leader' = n
        /\ live' = Investigated(n)
        /\ tasks' = IF rotate THEN WithRotateKey
                    ELSE runApplyUpgradeIfNeeded(w, Investigated(n))
    /\ want' = w
    /\ conf' = Missing
    /\ outcome' = "none"
    /\ UNCHANGED <<cluster, entered, todo, failed>>

runProbes ==
    /\ At("probes")
    /\ \E n \in Nodes :
        /\ Running(n)
        /\ leader' = n
        /\ live' = Investigated(n)
        /\ IF Detected /\ file[n] = Missing THEN Abort ELSE Advance
    /\ UNCHANGED <<cluster, want, conf>>

fetchEncryptionProvidersFile ==
    /\ At("fetch")
    /\ IF file[leader] = Missing
       THEN Abort /\ UNCHANGED live
       ELSE Advance /\ live' = [live EXCEPT !.config = file[leader]]
    /\ UNCHANGED <<cluster, want, leader, conf>>

\* UpdateEncryptionConfigWithNewKey changes LiveCluster in place, so that a
\* retry starts from the configuration of the attempt before it.
uploadEncryptionConfigurationWithNewKey ==
    /\ At("uploadWithNewKey") /\ ~entered
    /\ IF Head(live.config) = Identity
       THEN Abort /\ UNCHANGED <<live, conf, nextKey>>
       ELSE /\ nextKey <= MaxKey
            /\ nextKey' = nextKey + 1
            /\ live' = [live EXCEPT
                  !.config = UpdateEncryptionConfigWithNewKey(live.config, nextKey)]
            /\ conf' = live'.config
            /\ Enter(Nodes)
    /\ UNCHANGED <<file, flag, loaded, secret, want, leader>>

uploadEncryptionConfigurationWithoutOldKey ==
    /\ At("uploadWithoutOldKey") /\ ~entered
    /\ live' = [live EXCEPT !.config = UpdateEncryptionConfigRemoveOldKey(live.config)]
    /\ conf' = live'.config
    /\ Enter(Nodes)
    /\ UNCHANGED <<cluster, want, leader>>

uploadIdentityFirstEncryptionConfiguration ==
    /\ At("uploadIdentityFirst") /\ ~entered
    /\ IF DecryptOnlyPossible(live.config)
       THEN conf' = UpdateEncryptionConfigDecryptOnly(live.config) /\ Enter(Nodes)
       ELSE Abort /\ UNCHANGED conf
    /\ UNCHANGED <<cluster, want, live, leader>>

generateConfigurationFiles ==
    /\ At("generateFiles")
    /\ IF ShouldEnableEncryption(want, live)
       THEN /\ nextKey <= MaxKey
            /\ nextKey' = nextKey + 1
            /\ conf' = NewEncryptionProvidersConfig(nextKey)
       ELSE UNCHANGED <<nextKey, conf>>
    /\ Advance
    /\ UNCHANGED <<file, flag, loaded, secret, want, live, leader>>

\* The tasks that only visit nodes.
EnterNodes ==
    /\ tasks # <<>> /\ ~entered
    /\ Task \in {"uploadFiles", "restart", "upgrade", "removeFile"}
    /\ Enter(Nodes)
    /\ UNCHANGED <<cluster, want, live, leader, conf>>

Uploads == {"uploadWithNewKey", "uploadWithoutOldKey", "uploadIdentityFirst", "uploadFiles"}

Visiting(n) == tasks # <<>> /\ entered /\ n \in todo

Visited(n) ==
    /\ todo' = todo \ {n}
    /\ UNCHANGED <<want, live, leader, conf, tasks, entered, failed, outcome>>

\* SaveEncryptionProvidersConfig moves the file only if it was uploaded.
pushEncryptionConfigurationOnNode(n) ==
    /\ Visiting(n) /\ Task \in Uploads
    /\ file' = [file EXCEPT ![n] = IF conf = Missing THEN @ ELSE conf]
    /\ Visited(n)
    /\ UNCHANGED <<flag, loaded, secret, nextKey>>

removeEncryptionProviderFile(n) ==
    /\ Visiting(n) /\ Task = "removeFile"
    /\ file' = [file EXCEPT ![n] = Missing]
    /\ Visited(n)
    /\ UNCHANGED <<flag, loaded, secret, nextKey>>

\* The script restarts the API server only if its log reports a problem.
restartKubeAPIServerCrictl(n) ==
    /\ Visiting(n) /\ Task = "restart" /\ Running(n)
    /\ \/ loaded' = [loaded EXCEPT ![n] = AtStart(n)]
       \/ ~LogsMatch /\ UNCHANGED loaded
    /\ Visited(n)
    /\ UNCHANGED <<file, flag, secret, nextKey>>

\* kubeadm upgrade writes the manifest; the kubelet restarts the API server
\* if the manifest changed.
UpgradeNode(n) ==
    /\ Visiting(n) /\ Task = "upgrade"
    /\ flag' = [flag EXCEPT ![n] = want]
    /\ \/ loaded' = [loaded EXCEPT ![n] = IF want THEN file[n] ELSE <<Identity>>]
       \/ flag[n] = want /\ UNCHANGED loaded
    /\ Visited(n)
    /\ UNCHANGED <<file, secret, nextKey>>

\* The command on node n fails.  A parallel task still visits the others.
NodeFails(n) ==
    /\ "command" \in world
    /\ Visiting(n) /\ n \in Nodes /\ Task # "upgrade"
    /\ IF Task = "restart"
       THEN Retry
       ELSE /\ todo' = todo \ {n} /\ failed' = TRUE
            /\ UNCHANGED <<tasks, entered, outcome>>
    /\ UNCHANGED <<cluster, want, live, leader, conf>>

\* Mutant: the errors of the nodes are not looked at.
EndVisitsIgnoringErrors ==
    /\ tasks # <<>> /\ entered /\ todo = {}
    /\ Advance
    /\ UNCHANGED <<cluster, want, live, leader, conf>>

EndVisits ==
    /\ tasks # <<>> /\ entered /\ todo = {}
    /\ IF failed THEN Retry ELSE Advance
    /\ UNCHANGED <<cluster, want, live, leader, conf>>

\* rewriteClusterSecrets: list the Secrets, then read and update each.  An
\* API server that cannot decrypt one fails the request.
ListSecrets ==
    /\ At("rewrite") /\ ~entered
    /\ \E n \in Nodes : \A s \in Secrets : Readable(s, n)
    /\ Enter(Secrets)
    /\ UNCHANGED <<cluster, want, live, leader, conf>>

rewriteSecret(s) ==
    /\ At("rewrite") /\ Visiting(s)
    /\ \E n, m \in Nodes :
        /\ Readable(s, n) /\ Readable(s, m)
        /\ secret' = [secret EXCEPT ![s] = Head(loaded[m])]
    /\ Visited(s)
    /\ UNCHANGED <<file, flag, loaded, nextKey>>

RewriteFails ==
    /\ At("rewrite") /\ entered
    /\ \E s \in todo, n \in Nodes : ~Readable(s, n)
    /\ Retry
    /\ UNCHANGED <<cluster, want, live, leader, conf>>

Killed ==
    /\ "kill" \in world /\ tasks # <<>>
    /\ Abort
    /\ UNCHANGED <<cluster, want, live, leader, conf>>

----------------------------------------------------------------------------
Init ==
    /\ file = [n \in Nodes |-> Missing]
    /\ flag = [n \in Nodes |-> FALSE]
    /\ loaded = [n \in Nodes |-> <<Identity>>]
    /\ secret = [s \in Secrets |-> Identity]
    /\ nextKey = 1
    /\ want = FALSE
    /\ live = [enable |-> FALSE, config |-> Missing]
    /\ leader \in Nodes
    /\ conf = Missing
    /\ tasks = <<>> /\ entered = FALSE /\ todo = {} /\ failed = FALSE
    /\ outcome = "none"
    /\ world \in Worlds

OnNode(n) ==
    \/ pushEncryptionConfigurationOnNode(n)
    \/ removeEncryptionProviderFile(n)
    \/ restartKubeAPIServerCrictl(n)
    \/ UpgradeNode(n)
    \/ NodeFails(n)

RunTask ==
    \/ runProbes
    \/ fetchEncryptionProvidersFile
    \/ uploadEncryptionConfigurationWithNewKey
    \/ uploadEncryptionConfigurationWithoutOldKey
    \/ uploadIdentityFirstEncryptionConfiguration
    \/ generateConfigurationFiles
    \/ EnterNodes
    \/ EndVisits
    \/ ListSecrets
    \/ RewriteFails

Next ==
    /\ \/ \E w, rotate \in BOOLEAN : runApply(w, rotate)
       \/ RunTask
       \/ \E n \in Nodes : OnNode(n) \/ RestartOnItsOwn(n)
       \/ \E s \in Secrets : rewriteSecret(s) \/ \E n \in Nodes : WriteSecret(s, n)
       \/ Killed
    /\ UNCHANGED world

Spec == Init /\ [][Next]_vars

----------------------------------------------------------------------------
(* The type invariant; a configuration never lists more than two keys,     *)
(* because WithNewKey keeps only the last one of the old configuration.    *)
TypeOK ==
    /\ file \in [Nodes -> Configs]
    /\ flag \in [Nodes -> BOOLEAN]
    /\ loaded \in [Nodes -> Configs]
    /\ secret \in [Secrets -> 0..MaxKey]
    /\ nextKey \in 1..MaxKey + 1
    /\ want \in BOOLEAN
    /\ live \in [enable : BOOLEAN, config : Configs]
    /\ leader \in Nodes
    /\ conf \in Configs
    /\ entered \in BOOLEAN /\ failed \in BOOLEAN
    /\ todo \subseteq Nodes \cup Secrets
    /\ outcome \in {"none", "ok", "error"}
    /\ world \in Worlds

(* No key is dropped while it is needed: a Secret that is stored encrypted *)
(* has its key in the configuration file of every node, so that every API  *)
(* server can read it at the latest after its next start.  Rotation adds   *)
(* the new key everywhere before any API server encrypts with it, and      *)
(* removes the old one after the last Secret has left it.  Commands may    *)
(* fail and be retried.  When an API server may restart by itself between  *)
(* the uploads to two nodes, or kubeone is killed there, the key is still  *)
(* in the file of some node, so that the Secret is not lost.               *)
NoKeyLost ==
    \A s \in Secrets : secret[s] # Identity =>
        LET having == {n \in Nodes : secret[s] \in Providers(file[n])}
        IN having # {} /\ (world \subseteq {"command"} => having = Nodes)

(* When a kubeone that was never interrupted has returned without an error *)
(* the control plane has converged: every node has the same file, with one *)
(* key at most, every API server runs with it, and every Secret is stored  *)
(* the way the cluster manifest asks for, including those that existed     *)
(* before.                                                                 *)
Converged ==
    outcome = "ok" /\ "kill" \notin world =>
        \A n, m \in Nodes :
            /\ file[n] = file[m] /\ Len(file[n]) <= 2
            /\ flag[n] = want /\ loaded[n] = AtStart(n)
            /\ (Head(loaded[n]) # Identity) = want
            /\ \A s \in Secrets : secret[s] = Head(loaded[n])
=============================================================================
