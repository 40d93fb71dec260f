-------------------------- MODULE EncryptionProofs --------------------------
(***************************************************************************)
(* For any number of nodes, Secrets and keys: no key is dropped while a    *)
(* Secret needs it, and an apply that was not interrupted and returned     *)
(* without an error has brought the control plane to what the manifest     *)
(* asks for.                                                               *)
(***************************************************************************)
EXTENDS EncryptionProviders, SequenceTheorems, TLAPS

(* The operator is careful, the restart script always restarts, and API    *)
(* servers do not restart by themselves in a behaviour in which commands   *)
(* fail too: with both, a retry of the first upload of a rotation can      *)
(* replace a key that an API server has already encrypted with.            *)
Careful ==
    /\ LogsMatch = TRUE /\ CarefulStart = TRUE
    /\ \A w \in Worlds : ~({"command", "restart"} \subseteq w)

Key == 1..MaxKey
NoKill == "kill" \notin world

----------------------------------------------------------------------------
(* The task lists: where in one of them the process is follows from the    *)
(* running task and the number of those left.                              *)

Names ==
    {"probes", "fetch", "uploadWithNewKey", "uploadWithoutOldKey", "uploadIdentityFirst",
     "restart", "rewrite", "removeFile", "generateFiles", "uploadFiles", "upgrade"}
RotateList ==
    <<"probes", "fetch", "uploadWithNewKey", "restart", "rewrite",
      "uploadWithoutOldKey", "restart">>
DisableList ==
    <<"probes", "fetch", "uploadIdentityFirst", "restart", "rewrite", "removeFile",
      "probes", "generateFiles", "uploadFiles", "upgrade", "restart">>
EnableList ==
    <<"probes", "generateFiles", "uploadFiles", "upgrade", "restart", "rewrite">>

\* The tasks left are the end of a list.
InList ==
    \E list \in {RotateList, DisableList, EnableList} :
        \E i \in 1..Len(list) + 1 : tasks = SubSeq(list, i, Len(list))

In(task, left) == At(task) /\ Len(tasks) = left

----------------------------------------------------------------------------
(* What is said of the cluster.                                            *)

Shaped(c) ==
    \/ c = Missing
    \/ \E k \in Key : c = <<k, 0>> \/ c = <<0, k>> \/ \E j \in Key : c = <<k, j, 0>>

All(c) == \A n \in Nodes : file[n] = c
Fresh(n) == loaded[n] = AtStart(n)
Done == {n \in Nodes : entered /\ n \notin todo}

\* Secrets are stored, and API servers encrypt, with providers in K only.
UsedIn(K) ==
    /\ \A s \in Secrets : secret[s] \in K
    /\ \A n \in Nodes : Running(n) => Head(loaded[n]) \in K

Used(k) ==
    \/ \E s \in Secrets : secret[s] = k
    \/ \E n \in Nodes : Running(n) /\ Head(loaded[n]) = k

Covered == \A k \in Key : Used(k) => \E n \in Nodes : k \in Providers(file[n])

\* At rest, encrypted with key k, or not encrypted: k = 0.
FileOf(k) == IF k = 0 THEN Missing ELSE <<k, 0>>
LoadOf(k) == IF k = 0 THEN <<0>> ELSE <<k, 0>>

Steady(k) ==
    /\ \A n \in Nodes : flag[n] = (k # 0) /\ file[n] = FileOf(k) /\ loaded[n] = LoadOf(k)
    /\ \A s \in Secrets : secret[s] = k

\* The API servers may still have to load the file, but encrypt with its key.
Settling(k) ==
    /\ \A n \in Nodes :
        /\ flag[n] = (k # 0) /\ file[n] = FileOf(k)
        /\ Running(n) /\ Head(loaded[n]) = k
        /\ n \in Done => loaded[n] = LoadOf(k)
    /\ \A s \in Secrets : secret[s] = k

\* Encryption has been disabled up to the manifests of the API servers.
Disabled == Detected /\ All(Missing) /\ UsedIn({0})

----------------------------------------------------------------------------
(* What is known at each task of WithRotateKey.                            *)

OneKeyEach == \E k \in Key : All(<<k, 0>>) \/ All(<<0, k>>)

RotateStart == OneKeyEach /\ (NoKill => want /\ \E k \in Key : Steady(k))

FlagsSet == want /\ \A n \in Nodes : flag[n]

\* The providers in use while the new key is uploaded next to key a: an API
\* server that restarts may already encrypt with it.
InUse(a) == IF "restart" \in world /\ entered THEN {0, a, Head(conf)} ELSE {0, a}

AddKey ==
    \E a \in Key :
        \/ ~entered /\ live.config = <<0, a>> /\ ~NoKill
        \/ /\ live.config = <<a, 0>> \/ \E h \in Key : live.config = <<h, a, 0>>
           /\ entered => conf = live.config /\ Len(conf) = 3
           /\ UsedIn(InUse(a))
           /\ \A n \in Nodes : a \in Providers(file[n])
           /\ "restart" \in world => \A n \in Nodes : Head(file[n]) \in InUse(a)
           /\ ~failed => \A n \in Done : file[n] = conf
           /\ NoKill => FlagsSet

LoadNewKey ==
    \E h, a \in Key :
        /\ live.config = <<h, a, 0>> /\ All(<<h, a, 0>>)
        /\ UsedIn({0, h, a})
        /\ \A n \in Done : Fresh(n)
        /\ NoKill => FlagsSet

RewriteToNewKey ==
    \E h, a \in Key :
        /\ live.config = <<h, a, 0>> /\ All(<<h, a, 0>>)
        /\ UsedIn({0, h, a})
        /\ \A n \in Nodes : Fresh(n)
        /\ entered => \A s \in Secrets \ todo : secret[s] \in {0, h} /\ (NoKill => secret[s] = h)
        /\ NoKill => FlagsSet

DropOldKey ==
    \E h \in Key :
        /\ live.config = <<h, 0>> \/ \E a \in Key : live.config = <<h, a, 0>>
        /\ entered => conf = <<h, 0>>
        /\ UsedIn({0, h})
        /\ \A n \in Nodes : file[n] # Missing /\ Head(file[n]) = h
        /\ ~failed => \A n \in Done : file[n] = conf
        /\ NoKill => /\ FlagsSet
                     /\ \A s \in Secrets : secret[s] = h
                     /\ \A n \in Nodes : Running(n) /\ Head(loaded[n]) = h

LastRestart == NoKill => \E k \in 0..MaxKey : want = (k # 0) /\ Settling(k)

----------------------------------------------------------------------------
(* WithDisableEncryptionProviders.                                         *)

ToDisable == ~want /\ Detected

DisableStart == ToDisable /\ OneKeyEach /\ (NoKill => \E k \in Key : Steady(k))

IdentityFirst ==
    /\ ToDisable
    /\ \E k \in Key :
        \/ ~entered /\ live.config = <<0, k>> /\ ~NoKill
        \/ /\ live.config = <<k, 0>>
           /\ entered => conf = <<0, k>>
           /\ UsedIn({0, k})
           /\ \A n \in Nodes : file[n] = <<k, 0>> \/ file[n] = <<0, k>>
           /\ ~failed => \A n \in Done : file[n] = <<0, k>>

LoadIdentity ==
    /\ ToDisable
    /\ \E k \in Key : All(<<0, k>>) /\ UsedIn({0, k})
    /\ \A n \in Done : Fresh(n)

RewriteToIdentity ==
    /\ ToDisable
    /\ \E k \in Key : All(<<0, k>>) /\ UsedIn({0, k})
    /\ \A n \in Nodes : Fresh(n)
    /\ entered => \A s \in Secrets \ todo : secret[s] = 0

RemoveFiles ==
    /\ ToDisable /\ UsedIn({0})
    /\ \A n \in Nodes : file[n] = Missing \/ \E k \in Key : file[n] = <<0, k>>
    /\ ~failed => \A n \in Done : file[n] = Missing

----------------------------------------------------------------------------
(* WithUpgrade when nothing is enabled, and after the files were removed.  *)

AsWanted ==
    /\ want = Detected
    /\ NoKill => \E k \in 0..MaxKey : want = (k # 0) /\ Steady(k)

UpgradeProbes == (AsWanted /\ conf = Missing) \/ (~want /\ Disabled)
UpgradeGenerates == AsWanted /\ conf = Missing /\ live.enable = want
UpgradeUploads == AsWanted /\ conf = Missing

----------------------------------------------------------------------------
(* WithUpgrade when it enables encryption, and the rewriting after it.     *)

ToEnable == want /\ ~Detected

EnableGenerates == ToEnable /\ ~live.enable

EnableUploads ==
    /\ ToEnable
    /\ \E k \in Key : conf = <<k, 0>>
    /\ ~failed => \A n \in Done : file[n] = conf

EnableUpgrades ==
    /\ want
    /\ \E k \in Key : All(<<k, 0>>) /\ UsedIn({0, k})
    /\ \A n \in Nodes : flag[n] => loaded[n] = file[n]
    /\ \A n \in Done : flag[n]

EnableRewrites ==
    /\ want
    /\ \A n \in Nodes : flag[n]
    /\ \E k \in Key : 
        /\ \A n \in Nodes : file[n] = <<k, 0>> /\ loaded[n] = <<k, 0>>
        /\ UsedIn({0, k})
        /\ Task = "rewrite" /\ entered => \A s \in Secrets \ todo : secret[s] = k

----------------------------------------------------------------------------
Stage ==
    \/ In("probes", 7) /\ RotateStart
    \/ In("fetch", 6) /\ RotateStart
    \/ In("uploadWithNewKey", 5) /\ AddKey
    \/ In("restart", 4) /\ LoadNewKey
    \/ In("rewrite", 3) /\ RewriteToNewKey
    \/ In("uploadWithoutOldKey", 2) /\ DropOldKey
    \/ In("restart", 1) /\ LastRestart
    \/ In("probes", 11) /\ DisableStart
    \/ In("fetch", 10) /\ DisableStart
    \/ In("uploadIdentityFirst", 9) /\ IdentityFirst
    \/ In("restart", 8) /\ LoadIdentity
    \/ In("rewrite", 7) /\ RewriteToIdentity
    \/ In("removeFile", 6) /\ RemoveFiles
    \/ In("probes", 5) /\ UpgradeProbes
    \/ In("generateFiles", 4) /\ UpgradeGenerates
    \/ In("uploadFiles", 3) /\ UpgradeUploads
    \/ In("upgrade", 2) /\ AsWanted
    \/ In("probes", 6) /\ ToEnable
    \/ In("generateFiles", 5) /\ EnableGenerates
    \/ In("uploadFiles", 4) /\ EnableUploads
    \/ In("upgrade", 3) /\ EnableUpgrades
    \/ In("restart", 2) /\ EnableRewrites
    \/ In("rewrite", 1) /\ EnableRewrites

Rest ==
    /\ tasks = <<>>
    /\ NoKill => Disabled \/ \E k \in 0..MaxKey : Steady(k)
    /\ NoKill /\ outcome = "ok" => \E k \in 0..MaxKey : want = (k # 0) /\ Steady(k)

ClusterInv ==
    /\ \A n \in Nodes : Shaped(file[n]) /\ (Shaped(loaded[n]) \/ loaded[n] = <<0>>)
    /\ Covered
    /\ Detected \/ UsedIn({0})

ControlInv ==
    /\ failed => "command" \in world
    /\ ~entered => todo = {} /\ ~failed
    /\ entered => Task \notin {"probes", "fetch", "generateFiles"}
    /\ IF tasks = <<>>
       THEN ~entered
       ELSE outcome = "none" /\ todo \subseteq (IF Task = "rewrite" THEN Secrets ELSE Nodes)

Inv == TypeOK /\ ClusterInv /\ InList /\ ControlInv /\ (Rest \/ Stage)

----------------------------------------------------------------------------
(* The configurations.                                                     *)

(* The first provider, the length and the providers of a configuration     *)
(* with one key, as NewEncryptionProvidersConfig and the removal of the    *)
(* old key write it, with the identity provider first, and with two keys.  *)
LEMMA Tuples ==
    ASSUME NEW k, NEW j
    PROVE  /\ Head(<<0>>) = 0 /\ <<0>> # Missing
           /\ Head(<<k, 0>>) = k /\ Len(<<k, 0>>) = 2 /\ Providers(<<k, 0>>) = {k, 0}
           /\ Head(<<0, k>>) = 0 /\ Len(<<0, k>>) = 2 /\ Providers(<<0, k>>) = {0, k}
           /\ Head(<<k, j, 0>>) = k /\ Len(<<k, j, 0>>) = 3
           /\ Providers(<<k, j, 0>>) = {k, j, 0}
           /\ <<k, 0>> # Missing /\ <<0, k>> # Missing /\ <<k, j, 0>> # Missing
BY DEF Providers, Missing

(* They are configurations.                                                *)
LEMMA InConfigs ==
    ASSUME NEW k \in 0..MaxKey, NEW j \in 0..MaxKey
    PROVE  {Missing, <<0>>, <<k, j>>, <<k, j, 0>>} \subseteq Configs
<1> USE ClusterAssumption
<1>1. Missing \in [1..0 -> 0..MaxKey]
    BY DEF Missing
<1>2. <<0>> \in [1..1 -> 0..MaxKey]
    OBVIOUS
<1>3. <<k, j>> \in [1..2 -> 0..MaxKey]
    OBVIOUS
<1>4. <<k, j, 0>> \in [1..3 -> 0..MaxKey]
    OBVIOUS
<1> QED BY <1>1, <1>2, <1>3, <1>4 DEF Configs

(* A configuration file that exists has a first provider.                  *)
LEMMA HeadOfShaped ==
    ASSUME NEW c, Shaped(c)
    PROVE  /\ c \in Configs
           /\ c # Missing => Head(c) \in 0..MaxKey /\ Head(c) \in Providers(c)
<1>0. 0 \in 0..MaxKey /\ \A k \in Key : k \in 0..MaxKey
    BY ClusterAssumption DEF Key
<1>1. CASE c = Missing
    BY <1>0, <1>1, InConfigs, Zenon
<1>2. ASSUME NEW k \in Key, c = <<k, 0>> PROVE c \in Configs /\ Head(c) = k /\ k \in Providers(c)
    <2>1. c \in Configs
        BY <1>0, <1>2, InConfigs, Zenon
    <2> QED BY <1>2, <2>1, Tuples, Zenon
<1>3. ASSUME NEW k \in Key, c = <<0, k>> PROVE c \in Configs /\ Head(c) = 0 /\ 0 \in Providers(c)
    <2>1. c \in Configs
        BY <1>0, <1>3, InConfigs, Zenon
    <2> QED BY <1>3, <2>1, Tuples, Zenon
<1>4. ASSUME NEW k \in Key, NEW j \in Key, c = <<k, j, 0>>
      PROVE  c \in Configs /\ Head(c) = k /\ k \in Providers(c)
    <2>1. c \in Configs
        BY <1>0, <1>4, InConfigs, Zenon
    <2>2. Head(<<k, j, 0>>) = k /\ k \in Providers(<<k, j, 0>>)
        BY Tuples, ZenonT(30)
    <2> QED BY <1>4, <2>1, <2>2, Zenon
<1> QED BY <1>0, <1>1, <1>2, <1>3, <1>4, Zenon DEF Shaped

(* What uploadIdentityFirstEncryptionConfiguration makes of a              *)
(* configuration with one key.                                             *)
LEMMA DecryptOnly ==
    ASSUME NEW k \in Key
    PROVE  UpdateEncryptionConfigDecryptOnly(<<k, 0>>) = <<0, k>>
<1> DEFINE one == SubSeq(<<k, 0>>, 1, 1)
<1> DEFINE both == <<0>> \o <<k>>
<1>1. one \in Seq(Int) /\ Len(one) = 1 /\ one[1] = k
    BY SubSeqProperties DEF Key
<1>2. both \in Seq(Int) /\ Len(both) = 2 /\ both[1] = 0 /\ both[2] = k
    BY ConcatProperties DEF Key
<1>3. Len(<<k, 0>>) - 1 = 1
    OBVIOUS
<1> HIDE DEF one, both
<1>4. one = <<k>>
    BY <1>1
<1>5. both = <<0, k>>
    BY <1>2
<1> QED BY <1>3, <1>4, <1>5, Zenon DEF UpdateEncryptionConfigDecryptOnly, Identity, one, both

(* The lists that runApply starts from.                                    *)
LEMMA TaskLists ==
    /\ WithRotateKey = RotateList
    /\ <<>> \o WithUpgrade \o <<>> = SubSeq(DisableList, 7, 11)
    /\ WithDisableEncryptionProviders \o WithUpgrade \o <<>> = DisableList
    /\ <<>> \o WithUpgrade \o <<"rewrite">> = EnableList
<1> DEFINE disable == WithDisableEncryptionProviders \o WithUpgrade
<1> DEFINE enable == WithUpgrade \o <<"rewrite">>
<1> DEFINE end == SubSeq(DisableList, 7, 11)
<1>1. WithUpgrade \in Seq(Names) /\ WithDisableEncryptionProviders \in Seq(Names)
    BY DEF Names, WithUpgrade, WithDisableEncryptionProviders
<1>2. /\ Len(WithUpgrade) = 5 /\ Len(WithDisableEncryptionProviders) = 6
      /\ <<"rewrite">> \in Seq(Names) /\ Len(<<"rewrite">>) = 1 /\ <<"rewrite">>[1] = "rewrite"
    BY DEF Names, WithUpgrade, WithDisableEncryptionProviders
<1>3. /\ disable \in Seq(Names) /\ Len(disable) = 11
      /\ \A i \in 1..11 : disable[i] =
            IF i <= 6 THEN WithDisableEncryptionProviders[i] ELSE WithUpgrade[i - 6]
    <2>1. /\ disable \in Seq(Names)
          /\ Len(disable) = Len(WithDisableEncryptionProviders) + Len(WithUpgrade)
          /\ \A i \in 1..Len(WithDisableEncryptionProviders) + Len(WithUpgrade) : disable[i] =
                IF i <= Len(WithDisableEncryptionProviders) THEN WithDisableEncryptionProviders[i]
                ELSE WithUpgrade[i - Len(WithDisableEncryptionProviders)]
        BY <1>1, ConcatProperties, Zenon
    <2> HIDE DEF disable
    <2> QED BY <1>2, <2>1
<1>4. /\ enable \in Seq(Names) /\ Len(enable) = 6
      /\ \A i \in 1..6 : enable[i] = IF i <= 5 THEN WithUpgrade[i] ELSE <<"rewrite">>[i - 5]
    <2>1. /\ enable \in Seq(Names)
          /\ Len(enable) = Len(WithUpgrade) + Len(<<"rewrite">>)
          /\ \A i \in 1..Len(WithUpgrade) + Len(<<"rewrite">>) : enable[i] =
                IF i <= Len(WithUpgrade) THEN WithUpgrade[i]
                ELSE <<"rewrite">>[i - Len(WithUpgrade)]
        BY <1>1, <1>2, ConcatProperties, Zenon
    <2> HIDE DEF enable
    <2> QED BY <1>2, <2>1
<1>5. end \in Seq(Names) /\ Len(end) = 5 /\ \A i \in 1..5 : end[i] = DisableList[i + 6]
    <2>1. \A i \in 7..11 : DisableList[i] \in Names
        BY DEF Names, DisableList
    <2> QED BY <2>1, SubSeqProperties
<1> HIDE DEF disable, enable, end
<1>6. disable = DisableList
    BY <1>3 DEF WithUpgrade, WithDisableEncryptionProviders, DisableList
<1>7. enable = EnableList
    BY <1>2, <1>4 DEF WithUpgrade, EnableList
<1>8. end = WithUpgrade
    BY <1>5 DEF WithUpgrade, DisableList
<1>9. WithUpgrade \o <<>> = WithUpgrade /\ <<>> \o WithUpgrade = WithUpgrade /\ disable \o <<>> = disable
    BY <1>1, <1>3, ConcatEmptySeq, Zenon
<1> QED BY <1>6, <1>7, <1>8, <1>9, Zenon DEF disable, enable, end, WithRotateKey, RotateList

(* The lists are sequences of the given lengths.                           *)
LEMMA ListsAreSequences ==
    /\ RotateList \in Seq(Names) /\ Len(RotateList) = 7
    /\ DisableList \in Seq(Names) /\ Len(DisableList) = 11
    /\ EnableList \in Seq(Names) /\ Len(EnableList) = 6
BY DEF Names, RotateList, DisableList, EnableList

(* The end of a list, and what is left after its first task.               *)
LEMMA EndOfList ==
    ASSUME NEW list \in Seq(Names), NEW i \in 1..Len(list)
    PROVE  LET t == SubSeq(list, i, Len(list))
               u == SubSeq(list, i + 1, Len(list))
           IN  /\ Head(t) = list[i] /\ Len(t) = Len(list) - i + 1
               /\ Tail(t) = u /\ Len(u) = Len(list) - i
               /\ i = Len(list) => u = <<>>
               /\ i # Len(list) => u # <<>> /\ Head(u) = list[i + 1]
<1> DEFINE t == SubSeq(list, i, Len(list))
<1> DEFINE u == SubSeq(list, i + 1, Len(list))
<1>0. Len(list) \in Nat /\ \A j \in 1..Len(list) : list[j] \in Names
    BY LenProperties, ElementOfSeq, Zenon
<1>1. Head(t) = list[i] /\ Tail(t) = u
    BY <1>0, HeadTailOfSubSeq
<1>2. Len(t) = Len(list) - i + 1
    BY <1>0, SubSeqProperties
<1>3. Len(u) = Len(list) - i
    BY <1>0, SubSeqProperties
<1>4. ASSUME i # Len(list) PROVE u # <<>> /\ Head(u) = list[i + 1]
    <2>1. i + 1 \in 1..Len(list)
        BY <1>0, <1>4
    <2>2. Head(u) = list[i + 1]
        BY <1>0, <2>1, HeadTailOfSubSeq
    <2>3. Len(u) # Len(<<>>)
        BY <1>0, <1>3, <1>4
    <2> QED BY <2>2, <2>3, Zenon
<1>5. ASSUME i = Len(list) PROVE u = <<>>
    BY <1>0, <1>5, SubSeqEmpty
<1> QED BY <1>1, <1>2, <1>3, <1>4, <1>5, Zenon

(* The task after the running one.                                         *)
LEMMA NextTask ==
    ASSUME InList, tasks # <<>>, tasks' = Tail(tasks)
    PROVE  /\ InList'
           /\ Len(tasks) = 1 <=> tasks' = <<>>
           /\ In("probes", 7) => In("fetch", 6)'
           /\ In("fetch", 6) => In("uploadWithNewKey", 5)'
           /\ In("uploadWithNewKey", 5) => In("restart", 4)'
           /\ In("restart", 4) => In("rewrite", 3)'
           /\ In("rewrite", 3) => In("uploadWithoutOldKey", 2)'
           /\ In("uploadWithoutOldKey", 2) => In("restart", 1)'
           /\ In("probes", 11) => In("fetch", 10)'
           /\ In("fetch", 10) => In("uploadIdentityFirst", 9)'
           /\ In("uploadIdentityFirst", 9) => In("restart", 8)'
           /\ In("restart", 8) => In("rewrite", 7)'
           /\ In("rewrite", 7) => In("removeFile", 6)'
           /\ In("removeFile", 6) => In("probes", 5)'
           /\ In("probes", 5) => In("generateFiles", 4)'
           /\ In("generateFiles", 4) => In("uploadFiles", 3)'
           /\ In("uploadFiles", 3) => In("upgrade", 2)'
           /\ In("upgrade", 2) => In("restart", 1)'
           /\ In("probes", 6) => In("generateFiles", 5)'
           /\ In("generateFiles", 5) => In("uploadFiles", 4)'
           /\ In("uploadFiles", 4) => In("upgrade", 3)'
           /\ In("upgrade", 3) => In("restart", 2)'
           /\ In("restart", 2) => In("rewrite", 1)'
<1>1. PICK list \in {RotateList, DisableList, EnableList} :
        \E i \in 1..Len(list) + 1 : tasks = SubSeq(list, i, Len(list))
    BY Zenon DEF InList
<1>2. PICK i \in 1..Len(list) + 1 : tasks = SubSeq(list, i, Len(list))
    BY <1>1, Zenon
<1>3. list \in Seq(Names) /\ Len(list) \in Nat
    BY ListsAreSequences
<1>4. i # Len(list) + 1
    BY <1>2, <1>3, SubSeqEmpty
<1>5. i \in 1..Len(list)
    BY <1>3, <1>4
<1>6. /\ Head(tasks) = list[i] /\ Len(tasks) = Len(list) - i + 1
      /\ tasks' = SubSeq(list, i + 1, Len(list)) /\ Len(tasks') = Len(list) - i
      /\ i = Len(list) => tasks' = <<>>
      /\ i # Len(list) => tasks' # <<>> /\ Head(tasks') = list[i + 1]
    BY <1>2, <1>3, <1>5, EndOfList
<1>7. InList'
    <2>1. i + 1 \in 1..Len(list) + 1
        BY <1>3, <1>5
    <2> QED BY <1>6, <2>1, Zenon DEF InList
<1>11. CASE list = RotateList
    <2>1. Len(list) = 7 /\ list[1] = "probes" /\ list[2] = "fetch" /\ list[3] = "uploadWithNewKey"
          /\ list[4] = "restart" /\ list[5] = "rewrite" /\ list[6] = "uploadWithoutOldKey"
          /\ list[7] = "restart"
        BY <1>11, Zenon DEF RotateList
    <2>11. CASE i = 1
        BY <1>6, <1>7, <2>1, <2>11 DEF In, At, Task
    <2>12. CASE i = 2
        BY <1>6, <1>7, <2>1, <2>12 DEF In, At, Task
    <2>13. CASE i = 3
        BY <1>6, <1>7, <2>1, <2>13 DEF In, At, Task
    <2>14. CASE i = 4
        BY <1>6, <1>7, <2>1, <2>14 DEF In, At, Task
    <2>15. CASE i = 5
        BY <1>6, <1>7, <2>1, <2>15 DEF In, At, Task
    <2>16. CASE i = 6
        BY <1>6, <1>7, <2>1, <2>16 DEF In, At, Task
    <2>17. CASE i = 7
        BY <1>6, <1>7, <2>1, <2>17 DEF In, At, Task
    <2>2. i = 1 \/ i = 2 \/ i = 3 \/ i = 4 \/ i = 5 \/ i = 6 \/ i = 7
        BY <1>5, <2>1
    <2> QED BY <2>2, <2>11, <2>12, <2>13, <2>14, <2>15, <2>16, <2>17, Zenon
<1>12. CASE list = DisableList
    <2>1. Len(list) = 11 /\ list[1] = "probes" /\ list[2] = "fetch" /\ list[3] = "uploadIdentityFirst"
          /\ list[4] = "restart" /\ list[5] = "rewrite" /\ list[6] = "removeFile"
          /\ list[7] = "probes" /\ list[8] = "generateFiles" /\ list[9] = "uploadFiles"
          /\ list[10] = "upgrade" /\ list[11] = "restart"
        BY <1>12, Zenon DEF DisableList
    <2>11. CASE i = 1
        BY <1>6, <1>7, <2>1, <2>11 DEF In, At, Task
    <2>12. CASE i = 2
        BY <1>6, <1>7, <2>1, <2>12 DEF In, At, Task
    <2>13. CASE i = 3
        BY <1>6, <1>7, <2>1, <2>13 DEF In, At, Task
    <2>14. CASE i = 4
        BY <1>6, <1>7, <2>1, <2>14 DEF In, At, Task
    <2>15. CASE i = 5
        BY <1>6, <1>7, <2>1, <2>15 DEF In, At, Task
    <2>16. CASE i = 6
        BY <1>6, <1>7, <2>1, <2>16 DEF In, At, Task
    <2>17. CASE i = 7
        BY <1>6, <1>7, <2>1, <2>17 DEF In, At, Task
    <2>18. CASE i = 8
        BY <1>6, <1>7, <2>1, <2>18 DEF In, At, Task
    <2>19. CASE i = 9
        BY <1>6, <1>7, <2>1, <2>19 DEF In, At, Task
    <2>20. CASE i = 10
        BY <1>6, <1>7, <2>1, <2>20 DEF In, At, Task
    <2>21. CASE i = 11
        BY <1>6, <1>7, <2>1, <2>21 DEF In, At, Task
    <2>2. i = 1 \/ i = 2 \/ i = 3 \/ i = 4 \/ i = 5 \/ i = 6 \/ i = 7 \/ i = 8 \/ i = 9 \/ i = 10 \/ i = 11
        BY <1>5, <2>1
    <2> QED BY <2>2, <2>11, <2>12, <2>13, <2>14, <2>15, <2>16, <2>17, <2>18, <2>19, <2>20, <2>21, Zenon
<1>13. CASE list = EnableList
    <2>1. Len(list) = 6 /\ list[1] = "probes" /\ list[2] = "generateFiles" /\ list[3] = "uploadFiles"
          /\ list[4] = "upgrade" /\ list[5] = "restart" /\ list[6] = "rewrite"
        BY <1>13, Zenon DEF EnableList
    <2>11. CASE i = 1
        BY <1>6, <1>7, <2>1, <2>11 DEF In, At, Task
    <2>12. CASE i = 2
        BY <1>6, <1>7, <2>1, <2>12 DEF In, At, Task
    <2>13. CASE i = 3
        BY <1>6, <1>7, <2>1, <2>13 DEF In, At, Task
    <2>14. CASE i = 4
        BY <1>6, <1>7, <2>1, <2>14 DEF In, At, Task
    <2>15. CASE i = 5
        BY <1>6, <1>7, <2>1, <2>15 DEF In, At, Task
    <2>16. CASE i = 6
        BY <1>6, <1>7, <2>1, <2>16 DEF In, At, Task
    <2>2. i = 1 \/ i = 2 \/ i = 3 \/ i = 4 \/ i = 5 \/ i = 6
        BY <1>5, <2>1
    <2> QED BY <2>2, <2>11, <2>12, <2>13, <2>14, <2>15, <2>16, Zenon
<1> QED BY <1>11, <1>12, <1>13, Zenon

(* A list that has just been started.                                      *)
LEMMA StartOfList ==
    /\ tasks' = RotateList => InList' /\ In("probes", 7)'
    /\ tasks' = DisableList => InList' /\ In("probes", 11)'
    /\ tasks' = SubSeq(DisableList, 7, 11) => InList' /\ In("probes", 5)'
    /\ tasks' = EnableList => InList' /\ In("probes", 6)'
    /\ tasks' = <<>> => InList'
<1>1. /\ RotateList = SubSeq(RotateList, 1, 7) /\ DisableList = SubSeq(DisableList, 1, 11)
      /\ EnableList = SubSeq(EnableList, 1, 6) /\ <<>> = SubSeq(RotateList, 8, 7)
    BY ListsAreSequences, SubSeqFull, SubSeqEmpty
<1>0. \A list \in {RotateList, DisableList, EnableList} :
        \A i \in 1..Len(list) + 1 : tasks' = SubSeq(list, i, Len(list)) => InList'
    BY Zenon DEF InList
<1>2. tasks' = RotateList => InList' /\ In("probes", 7)'
    <2>1. RotateList # <<>> /\ Head(RotateList) = "probes" /\ Len(RotateList) = 7
        BY DEF RotateList
    <2>2. 1 \in 1..7 + 1
        OBVIOUS
    <2>3. tasks' = RotateList => InList'
        BY <1>0, <1>1, <2>1, <2>2, Zenon
    <2> QED BY <2>1, <2>3, Zenon DEF In, At, Task
<1>3. tasks' = DisableList => InList' /\ In("probes", 11)'
    <2>1. DisableList # <<>> /\ Head(DisableList) = "probes" /\ Len(DisableList) = 11
        BY DEF DisableList
    <2>2. 1 \in 1..11 + 1
        OBVIOUS
    <2>3. tasks' = DisableList => InList'
        BY <1>0, <1>1, <2>1, <2>2, Zenon
    <2> QED BY <2>1, <2>3, Zenon DEF In, At, Task
<1>4. tasks' = SubSeq(DisableList, 7, 11) => InList' /\ In("probes", 5)'
    <2> DEFINE end == SubSeq(DisableList, 7, 11)
    <2>1. Len(DisableList) = 11 /\ DisableList[7] = "probes"
        BY Zenon DEF DisableList
    <2>2. 7 \in 1..11 + 1 /\ 7 \in 1..11 /\ 11 - 7 + 1 = 5
        OBVIOUS
    <2>3. Head(end) = DisableList[7] /\ Len(end) = 11 - 7 + 1
        BY <2>1, <2>2, ListsAreSequences, EndOfList
    <2>4. tasks' = end => InList'
        BY <1>0, <2>1, <2>2, Zenon
    <2> HIDE DEF end
    <2>5. Len(end) = 5 /\ end # <<>>
        BY <2>2, <2>3
    <2>6. tasks' = end => InList' /\ In("probes", 5)'
        BY <2>1, <2>3, <2>4, <2>5, Zenon DEF In, At, Task
    <2> QED BY <2>6, Zenon DEF end
<1>5. tasks' = EnableList => InList' /\ In("probes", 6)'
    <2>1. EnableList # <<>> /\ Head(EnableList) = "probes" /\ Len(EnableList) = 6
        BY DEF EnableList
    <2>2. 1 \in 1..6 + 1
        OBVIOUS
    <2>3. tasks' = EnableList => InList'
        BY <1>0, <1>1, <2>1, <2>2, Zenon
    <2> QED BY <2>1, <2>3, Zenon DEF In, At, Task
<1>6. tasks' = <<>> => InList'
    <2>1. Len(RotateList) = 7 /\ 8 \in 1..7 + 1
        BY ListsAreSequences
    <2> QED BY <1>0, <1>1, <2>1, Zenon
<1> QED BY <1>2, <1>3, <1>4, <1>5, <1>6, Zenon

(* The four ways in which the runner goes on.                              *)
LEMMA AdvanceControl ==
    ASSUME InList, ControlInv, tasks # <<>>, world' = world, Advance
    PROVE  /\ InList' /\ ControlInv' /\ entered' = FALSE /\ failed' = FALSE /\ todo' = {}
           /\ tasks' = <<>> <=> Len(tasks) = 1
           /\ outcome' = IF Len(tasks) = 1 THEN "ok" ELSE "none"
<1>1. InList' /\ (Len(tasks) = 1 <=> tasks' = <<>>)
    BY NextTask, Zenon DEF Advance
<1>2. entered' = FALSE /\ todo' = {} /\ failed' = FALSE
    BY Zenon DEF Advance
<1>3. outcome' = IF Len(tasks) = 1 THEN "ok" ELSE "none"
    BY Zenon DEF Advance, ControlInv
<1> QED BY <1>1, <1>2, <1>3, Zenon DEF ControlInv

(* A task that fails for good ends the process.                            *)
LEMMA AbortControl ==
    ASSUME Abort, world' = world
    PROVE  /\ InList' /\ ControlInv' /\ entered' = FALSE /\ failed' = FALSE /\ todo' = {}
           /\ tasks' = <<>> /\ outcome' = "error"
BY StartOfList, Zenon DEF Abort, ControlInv

(* A task that is retried starts again.                                    *)
LEMMA RetryControl ==
    ASSUME InList, ControlInv, tasks # <<>>, world' = world, Retry
    PROVE  /\ InList' /\ ControlInv' /\ entered' = FALSE /\ failed' = FALSE /\ todo' = {}
           /\ \A t, l : In(t, l)' <=> In(t, l)
<1>1. InList' /\ Task' = Task
    BY Zenon DEF Retry, InList, Task
<1>2. \A t, l : In(t, l)' <=> In(t, l)
    BY <1>1, Zenon DEF Retry, In, At
<1> QED BY <1>1, <1>2, Zenon DEF Retry, ControlInv

(* A task that is entered.                                                 *)
LEMMA EnterControl ==
    ASSUME InList, ControlInv, tasks # <<>>, world' = world, ~entered,
           Task \notin {"probes", "fetch", "generateFiles"},
           NEW T, T \subseteq (IF Task = "rewrite" THEN Secrets ELSE Nodes), Enter(T)
    PROVE  /\ InList' /\ ControlInv' /\ entered' /\ ~failed' /\ todo' = T
           /\ \A t, l : In(t, l)' <=> In(t, l)
<1>1. InList' /\ Task' = Task
    BY Zenon DEF Enter, InList, Task
<1>2. \A t, l : In(t, l)' <=> In(t, l)
    BY <1>1, Zenon DEF Enter, In, At
<1> QED BY <1>1, <1>2, Zenon DEF Enter, ControlInv

(* A step that only works off one node or Secret.                          *)
LEMMA TodoControl ==
    ASSUME InList, ControlInv, tasks # <<>>, entered, world' = world,
           todo' \subseteq todo, UNCHANGED <<tasks, entered, outcome>>,
           failed' => failed \/ "command" \in world
    PROVE  InList' /\ ControlInv' /\ \A t, l : In(t, l)' <=> In(t, l)
<1>1. InList' /\ Task' = Task
    BY Zenon DEF InList, Task
<1>2. \A t, l : In(t, l)' <=> In(t, l)
    BY <1>1, Zenon DEF In, At
<1> QED BY <1>1, <1>2, Zenon DEF ControlInv

----------------------------------------------------------------------------
(* The facts about the cluster that the stages are made of.                *)

(* A step of the process that leaves the nodes and the Secrets alone.      *)
LEMMA SameCluster ==
    ASSUME UNCHANGED <<file, flag, loaded, secret, world>>
    PROVE  /\ ClusterInv => ClusterInv'
           /\ \A c : All(c)' <=> All(c)
           /\ \A k : Steady(k)' <=> Steady(k)
           /\ \A K : UsedIn(K)' <=> UsedIn(K)
           /\ \A n \in Nodes : Fresh(n)' <=> Fresh(n)
           /\ Detected' = Detected
           /\ Disabled' <=> Disabled
           /\ NoKill' <=> NoKill
<1>1. \A c : All(c)' <=> All(c)
    BY Zenon DEF All
<1>2. \A k : Steady(k)' <=> Steady(k)
    BY Zenon DEF Steady, FileOf, LoadOf
<1>3. \A K : UsedIn(K)' <=> UsedIn(K)
    BY Zenon DEF UsedIn, Running
<1>4. \A n \in Nodes : Fresh(n)' <=> Fresh(n)
    BY Zenon DEF Fresh, AtStart
<1>5. Detected' = Detected
    BY Zenon DEF Detected
<1>6. Disabled' <=> Disabled
    BY <1>1, <1>3, <1>5, Zenon DEF Disabled
<1>7. Covered' <=> Covered
    BY DEF Covered, Used, Running, Providers
<1>8. ClusterInv => ClusterInv'
    BY <1>3, <1>5, <1>7, Zenon DEF ClusterInv, Shaped
<1> QED BY <1>1, <1>2, <1>3, <1>4, <1>5, <1>6, <1>8, Zenon DEF NoKill

(* In use are the keys of running API servers and of Secrets.              *)
LEMMA UsedKeys ==
    ASSUME NEW K, UsedIn(K), NEW k \in Key, Used(k)
    PROVE  k \in K
BY Zenon DEF UsedIn, Used

(* The provider that a running API server encrypts with.                   *)
LEMMA HeadLoaded ==
    ASSUME ClusterInv, NEW n \in Nodes, Running(n)
    PROVE  Head(loaded[n]) \in 0..MaxKey
<1>1. CASE loaded[n] = <<0>>
    BY <1>1, Tuples, ClusterAssumption
<1>2. CASE Shaped(loaded[n])
    BY <1>2, HeadOfShaped, Zenon DEF Running
<1> QED BY <1>1, <1>2, Zenon DEF ClusterInv

(* Every provider in use is in a file, whoever encrypts with it.           *)
LEMMA CoveredIn ==
    ASSUME TypeOK, ClusterInv, NEW c, All(c), c # Missing
    PROVE  UsedIn({0} \cup Providers(c))
<1>1. \A s \in Secrets : secret[s] \in 0..MaxKey
    BY Zenon DEF TypeOK
<1>2. \A n \in Nodes : Running(n) => Head(loaded[n]) \in 0..MaxKey
    BY HeadLoaded, Zenon
<1>3. \A k \in Key : Used(k) => k \in Providers(c)
    BY Zenon DEF ClusterInv, Covered, All
<1>4. \A k \in 0..MaxKey : k = 0 \/ k \in Key
    BY ClusterAssumption DEF Key
<1> QED BY <1>1, <1>2, <1>3, <1>4, Zenon DEF UsedIn, Used

----------------------------------------------------------------------------
(* The steps of the world around kubeone.                                  *)

(* A client writes a Secret: it is stored with the provider of a running   *)
(* API server, which is in use already.                                    *)
LEMMA WriteSecretStep ==
    ASSUME Inv, world' = world, NEW s \in Secrets, NEW n \in Nodes, WriteSecret(s, n)
    PROVE  Inv'
<1>0. /\ TypeOK /\ ClusterInv /\ InList /\ ControlInv /\ (Rest \/ Stage)
      /\ Running(n) /\ secret' = [secret EXCEPT ![s] = Head(loaded[n])]
      /\ UNCHANGED <<file, flag, loaded, nextKey, want, live, leader, conf, tasks, entered, todo,
                     failed, outcome, world>>
    BY Zenon DEF Inv, WriteSecret, process
<1> USE <1>0
<1>1. Head(loaded[n]) \in 0..MaxKey
    BY HeadLoaded, Zenon
<1>2. TypeOK'
    BY <1>1, Zenon DEF TypeOK
<1>3. /\ secret'[s] = Head(loaded[n])
      /\ \A t \in Secrets : t # s => secret'[t] = secret[t]
    BY Zenon DEF TypeOK
<1>4. \A K : UsedIn(K) => UsedIn(K)'
    BY <1>3, Zenon DEF UsedIn, Running
<1>5. \A k : Used(k)' => Used(k)
    BY <1>3, Zenon DEF Used, Running
<1>6. /\ \A c : All(c)' <=> All(c)
      /\ \A m \in Nodes : Fresh(m)' <=> Fresh(m)
      /\ Done' = Done /\ Done \subseteq Nodes /\ Detected' = Detected /\ (NoKill' <=> NoKill)
      /\ (FlagsSet' <=> FlagsSet) /\ \A a : InUse(a)' = InUse(a)
    BY Zenon DEF All, Fresh, AtStart, Done, Detected, NoKill, FlagsSet, InUse
<1>7. \A k : Steady(k) => Steady(k)'
    <2>1. \A k : Head(LoadOf(k)) = k
        BY Tuples, Zenon DEF LoadOf
    <2> QED BY <1>3, <2>1 DEF Steady, FileOf, LoadOf
<1>8. \A k : Settling(k) => Settling(k)'
    BY <1>3, <1>6, Zenon DEF Settling, FileOf, LoadOf, Running
<1>9. Disabled => Disabled'
    BY <1>4, <1>6, Zenon DEF Disabled
<1>10. ClusterInv'
    <2>1. Covered'
        BY <1>5 DEF ClusterInv, Covered, Providers
    <2> QED BY <1>4, <1>6, <2>1, Zenon DEF ClusterInv, Shaped
<1>11. InList' /\ ControlInv' /\ \A t, l : In(t, l)' <=> In(t, l)
    BY Zenon DEF InList, ControlInv, In, At, Task
<1>12. Rest => Rest'
    BY <1>6, <1>7, <1>9, Zenon DEF Rest
<1>13. ASSUME Stage PROVE Stage'
    <2> DEFINE h == Head(loaded[n])
    <2>1. RotateStart => RotateStart'
        BY <1>6, <1>7, Zenon DEF RotateStart, OneKeyEach
    <2>2. AddKey => AddKey'
        BY <1>4, <1>6 DEF AddKey, Providers
    <2>3. LoadNewKey => LoadNewKey'
        BY <1>4, <1>6, Zenon DEF LoadNewKey
    <2>4. RewriteToNewKey => RewriteToNewKey'
        <3>1. SUFFICES ASSUME RewriteToNewKey PROVE RewriteToNewKey'
            BY Zenon
        <3>2. PICK k \in Key, a \in Key :
                /\ live.config = <<k, a, 0>> /\ All(<<k, a, 0>>)
                /\ UsedIn({0, k, a})
                /\ \A m \in Nodes : Fresh(m)
                /\ entered => \A t \in Secrets \ todo : secret[t] \in {0, k} /\ (NoKill => secret[t] = k)
                /\ NoKill => FlagsSet
            BY <3>1, Zenon DEF RewriteToNewKey
        <3>3. h = IF flag[n] THEN k ELSE 0
            BY <3>2, Tuples DEF Fresh, AtStart, All, Identity
        <3>4. secret'[s] \in {0, k} /\ (NoKill => secret'[s] = k)
            BY <1>3, <3>2, <3>3, Zenon DEF FlagsSet
        <3>5. entered => \A t \in Secrets \ todo : secret'[t] \in {0, k} /\ (NoKill => secret'[t] = k)
            BY <1>3, <3>2, <3>4, Zenon
        <3> QED BY <1>4, <1>6, <3>2, <3>5, Zenon DEF RewriteToNewKey
    <2>5. DropOldKey => DropOldKey'
        BY <1>3, <1>4, <1>6, Zenon DEF DropOldKey, Running
    <2>6. LastRestart => LastRestart'
        BY <1>6, <1>8, Zenon DEF LastRestart
    <2>7. DisableStart => DisableStart'
        BY <1>6, <1>7, Zenon DEF DisableStart, ToDisable, OneKeyEach
    <2>8. IdentityFirst => IdentityFirst'
        BY <1>4, <1>6, Zenon DEF IdentityFirst, ToDisable
    <2>9. LoadIdentity => LoadIdentity'
        BY <1>4, <1>6, Zenon DEF LoadIdentity, ToDisable
    <2>10. RewriteToIdentity => RewriteToIdentity'
        <3>1. SUFFICES ASSUME RewriteToIdentity PROVE RewriteToIdentity'
            BY Zenon
        <3>2. h = 0
            BY <3>1, Tuples DEF RewriteToIdentity, Fresh, AtStart, All, Identity
        <3>3. entered => \A t \in Secrets \ todo : secret'[t] = 0
            BY <1>3, <3>1, <3>2, Zenon DEF RewriteToIdentity
        <3> QED BY <1>4, <1>6, <3>1, <3>3, Zenon DEF RewriteToIdentity, ToDisable
    <2>11. RemoveFiles => RemoveFiles'
        BY <1>4, <1>6, Zenon DEF RemoveFiles, ToDisable
    <2>12. AsWanted => AsWanted'
        BY <1>6, <1>7, Zenon DEF AsWanted
    <2>13. UpgradeProbes => UpgradeProbes'
        BY <1>9, <2>12, Zenon DEF UpgradeProbes
    <2>14. (UpgradeGenerates => UpgradeGenerates') /\ (UpgradeUploads => UpgradeUploads')
        BY <2>12, Zenon DEF UpgradeGenerates, UpgradeUploads
    <2>15. (ToEnable => ToEnable') /\ (EnableGenerates => EnableGenerates')
           /\ (EnableUploads => EnableUploads')
        BY <1>6, Zenon DEF ToEnable, EnableGenerates, EnableUploads
    <2>16. EnableUpgrades => EnableUpgrades'
        BY <1>4, <1>6, Zenon DEF EnableUpgrades
    <2>17. EnableRewrites => EnableRewrites'
        <3>1. SUFFICES ASSUME EnableRewrites PROVE EnableRewrites'
            BY Zenon
        <3>2. PICK k \in Key :
                /\ \A m \in Nodes : file[m] = <<k, 0>> /\ loaded[m] = <<k, 0>>
                /\ UsedIn({0, k})
                /\ Task = "rewrite" /\ entered => \A t \in Secrets \ todo : secret[t] = k
            BY <3>1, Zenon DEF EnableRewrites
        <3>3. h = k
            BY <3>2, Tuples, Zenon
        <3>4. Task' = "rewrite" /\ entered' => \A t \in Secrets \ todo : secret'[t] = k
            BY <1>3, <3>2, <3>3, Zenon DEF Task
        <3> QED BY <1>4, <1>6, <3>1, <3>2, <3>4, Zenon DEF EnableRewrites
    <2> QED BY <1>11, <1>13, <2>1, <2>2, <2>3, <2>4, <2>5, <2>6, <2>7, <2>8, <2>9, <2>10, <2>11,
               <2>12, <2>13, <2>14, <2>15, <2>16, <2>17 DEF Stage
<1> QED BY <1>2, <1>10, <1>11, <1>12, <1>13, Zenon DEF Inv

(* An API server starts: it encrypts with the first provider of the file   *)
(* of its node, or with none.                                              *)
LEMMA Reload ==
    ASSUME TypeOK, ClusterInv, NEW n \in Nodes, loaded' = [loaded EXCEPT ![n] = AtStart(n)],
           UNCHANGED <<file, flag, secret, world>>
    PROVE  /\ loaded' \in [Nodes -> Configs] /\ ClusterInv'
           /\ loaded'[n] = AtStart(n) /\ \A m \in Nodes : m # n => loaded'[m] = loaded[m]
           /\ Fresh(n)' /\ \A m \in Nodes : Fresh(m) => Fresh(m)'
           /\ \A K : UsedIn(K) /\ 0 \in K /\ (file[n] # Missing => Head(file[n]) \in K) => UsedIn(K)'
           /\ \A k : Steady(k) => Steady(k)'
           /\ Disabled => Disabled'
           /\ \A c : All(c)' <=> All(c)
           /\ Detected' = Detected /\ (NoKill' <=> NoKill)
<1>1. Shaped(file[n]) /\ (Shaped(AtStart(n)) \/ AtStart(n) = <<0>>)
    BY Zenon DEF ClusterInv, AtStart, Identity
<1>2. AtStart(n) \in Configs
    <2>1. 0 \in 0..MaxKey
        BY ClusterAssumption
    <2> QED BY <1>1, <2>1, HeadOfShaped, InConfigs, Zenon
<1>3. /\ loaded' \in [Nodes -> Configs]
      /\ loaded'[n] = AtStart(n) /\ \A m \in Nodes : m # n => loaded'[m] = loaded[m]
    BY <1>2, Zenon DEF TypeOK
<1>4. Fresh(n)' /\ \A m \in Nodes : Fresh(m) => Fresh(m)'
    BY <1>3, Zenon DEF Fresh, AtStart
<1>5. \A K : UsedIn(K) /\ 0 \in K /\ (file[n] # Missing => Head(file[n]) \in K) => UsedIn(K)'
    <2>1. ASSUME NEW K, 0 \in K, file[n] # Missing => Head(file[n]) \in K
          PROVE  loaded'[n] # Missing => Head(loaded'[n]) \in K
        BY <1>3, <2>1, Tuples, Zenon DEF AtStart, Identity
    <2> QED BY <1>3, <2>1, Zenon DEF UsedIn, Running
<1>6. /\ \A c : All(c)' <=> All(c)
      /\ Detected' = Detected /\ (NoKill' <=> NoKill)
    BY Zenon DEF All, Detected, NoKill
<1>7. \A k : Steady(k) => Steady(k)'
    <2>1. ASSUME NEW k, Steady(k) PROVE AtStart(n) = LoadOf(k)
        BY <2>1, Zenon DEF Steady, AtStart, FileOf, LoadOf, Identity
    <2> QED BY <1>3, <2>1, Zenon DEF Steady
<1>8. Disabled => Disabled'
    BY <1>5, <1>6, Zenon DEF Disabled, All
<1>9. ~Detected => (UsedIn({0}) => UsedIn({0})')
    <2>1. ~Detected => loaded'[n] = <<0>>
        BY <1>3, Zenon DEF Detected, AtStart, Identity
    <2> QED BY <1>3, <2>1, Tuples, Zenon DEF UsedIn, Running
<1>10. Covered'
    <2>1. ASSUME NEW k \in Key, loaded'[n] # Missing, Head(loaded'[n]) = k
          PROVE  k \in Providers(file[n])
        <3>1. loaded'[n] # <<0>>
            BY <2>1, Tuples DEF Key
        <3> QED BY <1>1, <1>3, <2>1, <3>1, HeadOfShaped, Zenon DEF AtStart, Identity
    <2>2. ASSUME NEW k \in Key, Used(k)' PROVE Used(k) \/ k \in Providers(file[n])
        BY <1>3, <2>1, <2>2, Zenon DEF Used, Running
    <2> QED BY <2>2 DEF ClusterInv, Covered, Providers
<1>11. ClusterInv'
    BY <1>1, <1>3, <1>6, <1>9, <1>10 DEF ClusterInv, Shaped
<1> QED BY <1>3, <1>4, <1>5, <1>6, <1>7, <1>8, <1>11, Zenon

(* An API server restarts by itself: in a behaviour in which that happens  *)
(* no command fails, so that an upload is not retried.                     *)
LEMMA RestartOnItsOwnStep ==
    ASSUME Careful, Inv, world' = world, NEW n \in Nodes, RestartOnItsOwn(n)
    PROVE  Inv'
<1>0. /\ TypeOK /\ ClusterInv /\ InList /\ ControlInv /\ (Rest \/ Stage)
      /\ "restart" \in world /\ loaded' = [loaded EXCEPT ![n] = AtStart(n)]
      /\ UNCHANGED <<file, flag, secret, nextKey, want, live, leader, conf, tasks, entered, todo,
                     failed, outcome, world>>
    BY Zenon DEF Inv, RestartOnItsOwn, process
<1> USE <1>0
<1>1. /\ loaded' \in [Nodes -> Configs] /\ ClusterInv'
      /\ loaded'[n] = AtStart(n) /\ \A m \in Nodes : m # n => loaded'[m] = loaded[m]
      /\ Fresh(n)' /\ \A m \in Nodes : Fresh(m) => Fresh(m)'
    BY Reload, Zenon
<1>2. TypeOK'
    BY <1>1, Zenon DEF TypeOK
<1>3. ~failed
    BY DEF Careful, ControlInv, TypeOK
<1>4. \A K : UsedIn(K) /\ 0 \in K /\ (file[n] # Missing => Head(file[n]) \in K) => UsedIn(K)'
    BY Reload, Zenon
<1>6. /\ \A c : All(c)' <=> All(c)
      /\ Done' = Done /\ Done \subseteq Nodes /\ Detected' = Detected /\ (NoKill' <=> NoKill)
      /\ (FlagsSet' <=> FlagsSet) /\ \A a : InUse(a)' = InUse(a)
    BY Zenon DEF All, Done, Detected, NoKill, FlagsSet, InUse
<1>7. \A k : Steady(k) => Steady(k)'
    BY Reload, Zenon
<1>8. \A k : Settling(k) => Settling(k)'
    <2>1. ASSUME NEW k, Settling(k) PROVE AtStart(n) = LoadOf(k)
        BY <2>1, Zenon DEF Settling, AtStart, FileOf, LoadOf, Identity
    <2>2. \A k : LoadOf(k) # Missing /\ Head(LoadOf(k)) = k
        BY Tuples, Zenon DEF LoadOf
    <2>3. ASSUME NEW k, Settling(k) PROVE Settling(k)'
        <3>1. loaded'[n] = LoadOf(k)
            BY <1>1, <2>1, <2>3, Zenon
        <3>2. \A m \in Nodes : loaded'[m] # Missing /\ Head(loaded'[m]) = k
            BY <1>1, <2>2, <2>3, <3>1, Zenon DEF Settling, Running
        <3>3. \A m \in Done : loaded'[m] = LoadOf(k)
            BY <1>1, <1>6, <2>3, <3>1, Zenon DEF Settling
        <3> QED BY <1>6, <2>3, <3>2, <3>3, Zenon DEF Settling, Running, FileOf, LoadOf
    <2> QED BY <2>3, Zenon
<1>9. Disabled => Disabled'
    BY Reload, Zenon
<1>11. InList' /\ ControlInv' /\ \A t, l : In(t, l)' <=> In(t, l)
    BY Zenon DEF InList, ControlInv, In, At, Task
<1>12. Rest => Rest'
    BY <1>6, <1>7, <1>9, Zenon DEF Rest
<1>13. ASSUME Stage PROVE Stage'
    <2>1. RotateStart => RotateStart'
        BY <1>6, <1>7, Zenon DEF RotateStart, OneKeyEach
    <2>2. AddKey => AddKey'
        <3>1. \A a : 0 \in InUse(a)
            BY Zenon DEF InUse
        <3>2. \A a : UsedIn(InUse(a)) /\ Head(file[n]) \in InUse(a) => UsedIn(InUse(a))'
            BY <1>4, <1>6, <3>1, Zenon
        <3>3. \A m : Providers(file[m])' = Providers(file[m])
            BY Zenon DEF Providers
        <3> QED BY <1>6, <3>2, <3>3, Zenon DEF AddKey
    <2>3. LoadNewKey => LoadNewKey'
        <3>1. \A k, a : All(<<k, a, 0>>) /\ UsedIn({0, k, a}) => UsedIn({0, k, a})'
            BY <1>4, Tuples, Zenon DEF All
        <3> QED BY <1>1, <1>6, <3>1, Zenon DEF LoadNewKey
    <2>4. RewriteToNewKey => RewriteToNewKey'
        <3>1. \A k, a : All(<<k, a, 0>>) /\ UsedIn({0, k, a}) => UsedIn({0, k, a})'
            BY <1>4, Tuples, Zenon DEF All
        <3> QED BY <1>1, <1>6, <3>1, Zenon DEF RewriteToNewKey
    <2>5. DropOldKey => DropOldKey'
        <3>1. SUFFICES ASSUME DropOldKey PROVE DropOldKey'
            BY Zenon
        <3>2. PICK h \in Key :
                /\ live.config = <<h, 0>> \/ \E a \in Key : live.config = <<h, a, 0>>
                /\ entered => conf = <<h, 0>>
                /\ UsedIn({0, h})
                /\ \A m \in Nodes : file[m] # Missing /\ Head(file[m]) = h
                /\ ~failed => \A m \in Done : file[m] = conf
                /\ NoKill => /\ FlagsSet
                             /\ \A s \in Secrets : secret[s] = h
                             /\ \A m \in Nodes : Running(m) /\ Head(loaded[m]) = h
            BY <3>1, Zenon DEF DropOldKey
        <3>3. UsedIn({0, h})'
            BY <1>4, <3>2, Zenon
        <3>4. NoKill => \A m \in Nodes : Running(m)' /\ Head(loaded'[m]) = h
            BY <1>1, <3>2, Zenon DEF Running, AtStart, FlagsSet
        <3> QED BY <1>6, <3>2, <3>3, <3>4, Zenon DEF DropOldKey
    <2>6. LastRestart => LastRestart'
        BY <1>6, <1>8, Zenon DEF LastRestart
    <2>7. DisableStart => DisableStart'
        BY <1>6, <1>7, Zenon DEF DisableStart, ToDisable, OneKeyEach
    <2>8. IdentityFirst => IdentityFirst'
        <3>1. \A k : (file[n] = <<k, 0>> \/ file[n] = <<0, k>>) /\ UsedIn({0, k}) => UsedIn({0, k})'
            BY <1>4, Tuples, Zenon
        <3> QED BY <1>6, <3>1, Zenon DEF IdentityFirst, ToDisable
    <2>9. \A k : All(<<0, k>>) /\ UsedIn({0, k}) => UsedIn({0, k})'
        BY <1>4, Tuples, Zenon DEF All
    <2>10. LoadIdentity => LoadIdentity'
        BY <1>1, <1>6, <2>9, Zenon DEF LoadIdentity, ToDisable
    <2>11. RewriteToIdentity => RewriteToIdentity'
        BY <1>1, <1>6, <2>9, Zenon DEF RewriteToIdentity, ToDisable
    <2>12. RemoveFiles => RemoveFiles'
        <3>1. RemoveFiles => UsedIn({0})'
            BY <1>4, Tuples DEF RemoveFiles
        <3> QED BY <1>6, <3>1, Zenon DEF RemoveFiles, ToDisable
    <2>13. AsWanted => AsWanted'
        BY <1>6, <1>7, Zenon DEF AsWanted
    <2>14. UpgradeProbes => UpgradeProbes'
        BY <1>9, <2>13, Zenon DEF UpgradeProbes
    <2>15. (UpgradeGenerates => UpgradeGenerates') /\ (UpgradeUploads => UpgradeUploads')
        BY <2>13, Zenon DEF UpgradeGenerates, UpgradeUploads
    <2>16. (ToEnable => ToEnable') /\ (EnableGenerates => EnableGenerates')
           /\ (EnableUploads => EnableUploads')
        BY <1>6, Zenon DEF ToEnable, EnableGenerates, EnableUploads
    <2>17. \A k : All(<<k, 0>>) /\ UsedIn({0, k}) => UsedIn({0, k})'
        BY <1>4, Tuples, Zenon DEF All
    <2>18. EnableUpgrades => EnableUpgrades'
        BY <1>1, <1>6, <2>17, Zenon DEF EnableUpgrades, AtStart
    <2>19. EnableRewrites => EnableRewrites'
        BY <1>1, <2>17, Zenon DEF EnableRewrites, AtStart, All, Task
    <2> QED BY <1>11, <1>13, <2>1, <2>2, <2>3, <2>4, <2>5, <2>6, <2>7, <2>8, <2>10, <2>11,
               <2>12, <2>13, <2>14, <2>15, <2>16, <2>18, <2>19 DEF Stage
<1> QED BY <1>1, <1>2, <1>11, <1>12, <1>13, Zenon DEF Inv

----------------------------------------------------------------------------
(* kubeone starts, and looks at the cluster.                               *)

(* What the probes find out.                                               *)
LEMMA InvestigatedIs ==
    ASSUME TypeOK, NEW n \in Nodes
    PROVE  /\ Investigated(n) \in [enable : BOOLEAN, config : Configs]
           /\ Investigated(n).enable = Detected
           /\ Missing \in Configs
<1>1. Missing \in Configs
    BY HeadOfShaped, Zenon DEF Shaped
<1>2. file[n] \in Configs
    BY Zenon DEF TypeOK
<1>3. CASE Detected
    <2>1. Detected = TRUE
        BY <1>3, Zenon DEF Detected
    <2> QED BY <1>1, <1>2, <2>1, Zenon DEF Investigated
<1>4. CASE ~Detected
    <2>1. Detected = FALSE
        BY <1>4, Zenon DEF Detected
    <2> QED BY <1>1, <2>1, Zenon DEF Investigated
<1> QED BY <1>3, <1>4, Zenon

(* At rest, a steady cluster is encrypted exactly if the probes see it.    *)
LEMMA SteadyDetected ==
    ASSUME NEW k, Steady(k)
    PROVE  Detected = (k # 0)
BY ClusterAssumption, Zenon DEF Steady, Detected

(* A file with two providers has one key.                                  *)
LEMMA TwoProviders ==
    ASSUME ClusterInv, NEW n \in Nodes, \A m \in Nodes : file[m] = file[n], Len(file[n]) = 2
    PROVE  OneKeyEach
<1>1. file[n] # Missing
    BY DEF Missing
<1>3. ASSUME NEW k \in Key, NEW j \in Key PROVE file[n] # <<k, j, 0>>
    BY Tuples
<1>2. PICK k \in Key : file[n] = <<k, 0>> \/ file[n] = <<0, k>>
    BY <1>1, <1>3, Zenon DEF ClusterInv, Shaped
<1> QED BY <1>2, Zenon DEF OneKeyEach, All

(* An apply begins with a list that fits what it has found.                *)
LEMMA RunApplyStep ==
    ASSUME Careful, Inv, world' = world, NEW w \in BOOLEAN, NEW rotate \in BOOLEAN,
           runApply(w, rotate)
    PROVE  Inv'
<1>0. /\ TypeOK /\ ClusterInv /\ ControlInv /\ tasks = <<>>
      /\ want' = w /\ conf' = Missing /\ outcome' = "none"
      /\ UNCHANGED <<file, flag, loaded, secret, nextKey, entered, todo, failed, world>>
    BY Zenon DEF Inv, runApply, cluster
<1>1. Rest
    BY <1>0, Zenon DEF Inv, Stage, In, At
<1>2. PICK n \in Nodes :
        /\ Detected => file[n] # Missing
        /\ rotate => EncryptionEnabled(w, Investigated(n))
        /\ (rotate \/ ShouldDisableEncryption(w, Investigated(n)))
           => \A m \in Nodes : file[m] = file[n] /\ Len(file[n]) = 2
        /\ leader' = n
        /\ live' = Investigated(n)
        /\ tasks' = IF rotate THEN WithRotateKey
                    ELSE runApplyUpgradeIfNeeded(w, Investigated(n))
    BY Zenon DEF runApply, Careful
<1>3. Investigated(n) \in [enable : BOOLEAN, config : Configs] /\ Investigated(n).enable = Detected
      /\ Missing \in Configs
    BY <1>0, InvestigatedIs, Zenon
<1>4. TypeOK'
    BY <1>0, <1>2, <1>3, Zenon DEF TypeOK
<1>5. /\ ClusterInv'
      /\ \A c : All(c)' <=> All(c)
      /\ \A k : Steady(k)' <=> Steady(k)
      /\ Detected' = Detected /\ (NoKill' <=> NoKill)
    BY <1>0, SameCluster, Zenon
<1>6. NoKill => \E k \in 0..MaxKey : Steady(k) /\ Detected = (k # 0)
    <2>1. ~Disabled
        BY <1>2, Zenon DEF Disabled, All
    <2> QED BY <1>1, <2>1, SteadyDetected, Zenon DEF Rest
<1>7. ~entered /\ todo = {} /\ ~failed
    BY <1>0, Zenon DEF ControlInv
<1>8. ASSUME tasks' # <<>> PROVE ControlInv'
    BY <1>0, <1>7, <1>8, Zenon DEF ControlInv
<1>9. CASE rotate
    <2>1. w /\ Detected /\ OneKeyEach
        BY <1>0, <1>2, <1>3, <1>9, TwoProviders, Zenon DEF EncryptionEnabled
    <2>2. RotateStart'
        <3>1. OneKeyEach'
            BY <1>5, <2>1, Zenon DEF OneKeyEach
        <3>2. NoKill => \E k \in Key : Steady(k)
            <4>1. \A k \in 0..MaxKey : k # 0 => k \in Key
                BY ClusterAssumption DEF Key
            <4> QED BY <1>6, <2>1, <4>1, Zenon
        <3> QED BY <1>0, <1>5, <2>1, <3>1, <3>2, Zenon DEF RotateStart
    <2>3. InList' /\ In("probes", 7)'
        BY <1>2, <1>9, StartOfList, TaskLists, Zenon
    <2> QED BY <1>4, <1>5, <1>8, <2>2, <2>3, Zenon DEF Inv, Stage, In, At
<1>10. CASE ~rotate /\ ~w /\ Detected
    <2>1. ShouldDisableEncryption(w, Investigated(n)) /\ ~ShouldEnableEncryption(w, Investigated(n))
        BY <1>3, <1>10, Zenon DEF ShouldDisableEncryption, ShouldEnableEncryption
    <2>2. OneKeyEach
        BY <1>0, <1>2, <2>1, TwoProviders, Zenon
    <2>3. DisableStart'
        <3>1. \A k \in 0..MaxKey : k # 0 => k \in Key
            BY ClusterAssumption DEF Key
        <3>2. OneKeyEach' /\ ToDisable'
            BY <1>0, <1>5, <1>10, <2>2, Zenon DEF ToDisable, OneKeyEach
        <3>3. NoKill => \E k \in Key : Steady(k)
            BY <1>6, <1>10, <3>1, Zenon
        <3> QED BY <1>5, <3>2, <3>3, Zenon DEF DisableStart
    <2>4. tasks' = DisableList
        BY <1>2, <1>10, <2>1, TaskLists, Zenon DEF runApplyUpgradeIfNeeded
    <2>5. InList' /\ In("probes", 11)'
        BY <2>4, StartOfList, Zenon
    <2> QED BY <1>4, <1>5, <1>8, <2>3, <2>5, Zenon DEF Inv, Stage, In, At
<1>11. CASE ~rotate /\ w /\ ~Detected
    <2>1. ~ShouldDisableEncryption(w, Investigated(n)) /\ ShouldEnableEncryption(w, Investigated(n))
        BY <1>3, <1>11, Zenon DEF ShouldDisableEncryption, ShouldEnableEncryption
    <2>3. ToEnable'
        BY <1>0, <1>5, <1>11, Zenon DEF ToEnable
    <2>4. tasks' = EnableList
        BY <1>2, <1>11, <2>1, TaskLists, Zenon DEF runApplyUpgradeIfNeeded
    <2>5. InList' /\ In("probes", 6)'
        BY <2>4, StartOfList, Zenon
    <2> QED BY <1>4, <1>5, <1>8, <2>3, <2>5, Zenon DEF Inv, Stage, In, At
<1>12. CASE ~rotate /\ w = Detected
    <2>1. ~ShouldDisableEncryption(w, Investigated(n)) /\ ~ShouldEnableEncryption(w, Investigated(n))
        BY <1>3, <1>12, Zenon DEF ShouldDisableEncryption, ShouldEnableEncryption
    <2>2. AsWanted'
        BY <1>0, <1>5, <1>6, <1>12, Zenon DEF AsWanted
    <2>3. UpgradeProbes'
        BY <1>0, <2>2, Zenon DEF UpgradeProbes
    <2>4. tasks' = SubSeq(DisableList, 7, 11)
        BY <1>2, <1>12, <2>1, TaskLists, Zenon DEF runApplyUpgradeIfNeeded
    <2>5. InList' /\ In("probes", 5)'
        BY <2>4, StartOfList, Zenon
    <2> QED BY <1>4, <1>5, <1>8, <2>3, <2>5, Zenon DEF Inv, Stage, In, At
<1>13. Detected \in BOOLEAN
    BY Zenon DEF Detected
<1> QED BY <1>9, <1>10, <1>11, <1>12, <1>13, Zenon

(* A process that gives up leaves a cluster at rest, or was killed before. *)
LEMMA AbortStep ==
    ASSUME Inv, world' = world, Abort, TypeOK', UNCHANGED <<file, flag, loaded, secret>>,
           NoKill => Disabled \/ \E k \in 0..MaxKey : Steady(k)
    PROVE  Inv'
<1>1. /\ ClusterInv'
      /\ \A k : Steady(k)' <=> Steady(k)
      /\ (Disabled' <=> Disabled) /\ (NoKill' <=> NoKill)
    BY SameCluster, Zenon DEF Inv
<1>2. InList' /\ ControlInv' /\ tasks' = <<>> /\ outcome' = "error"
    BY AbortControl, Zenon
<1>3. Rest'
    BY <1>1, <1>2, Zenon DEF Rest
<1> QED BY <1>1, <1>2, <1>3, Zenon DEF Inv

(* The probes at the start of a list.                                      *)
LEMMA RunProbesStep ==
    ASSUME Inv, world' = world, runProbes
    PROVE  Inv'
<1>0. /\ TypeOK /\ ClusterInv /\ InList /\ ControlInv /\ At("probes") /\ tasks # <<>>
      /\ UNCHANGED <<file, flag, loaded, secret, nextKey, want, conf, world>>
    BY Zenon DEF Inv, runProbes, cluster, At
<1>1. PICK n \in Nodes :
        /\ leader' = n /\ live' = Investigated(n)
        /\ IF Detected /\ file[n] = Missing THEN Abort ELSE Advance
    BY Zenon DEF runProbes
<1>2. Investigated(n) \in [enable : BOOLEAN, config : Configs] /\ Investigated(n).enable = Detected
    BY <1>0, InvestigatedIs, Zenon
<1>3. TypeOK'
    BY <1>0, <1>1, <1>2, Zenon DEF TypeOK, Abort, Advance
<1>4. /\ ClusterInv'
      /\ \A c : All(c)' <=> All(c)
      /\ \A k : Steady(k)' <=> Steady(k)
      /\ Detected' = Detected /\ (NoKill' <=> NoKill)
    BY <1>0, SameCluster, Zenon
<1>5. \/ In("probes", 7) /\ RotateStart
      \/ In("probes", 11) /\ DisableStart
      \/ In("probes", 5) /\ UpgradeProbes
      \/ In("probes", 6) /\ ToEnable
    BY <1>0, Zenon DEF Inv, Rest, Stage, In, At
<1>6. ASSUME Advance
      PROVE  /\ InList' /\ ControlInv'
             /\ In("probes", 7) => In("fetch", 6)'
             /\ In("probes", 11) => In("fetch", 10)'
             /\ In("probes", 5) => In("generateFiles", 4)'
             /\ In("probes", 6) => In("generateFiles", 5)'
    <2>1. tasks' = Tail(tasks)
        BY <1>6, Zenon DEF Advance
    <2> QED BY <1>0, <1>6, <2>1, NextTask, AdvanceControl, Zenon
<1>7. OneKeyEach => file[n] # Missing
    BY Tuples, Zenon DEF OneKeyEach, All
<1>8. OneKeyEach => OneKeyEach'
    BY <1>4, Zenon DEF OneKeyEach
<1>9. CASE In("probes", 7) /\ RotateStart
    <2>1. Advance
        BY <1>1, <1>7, <1>9, Zenon DEF RotateStart
    <2>2. RotateStart'
        BY <1>0, <1>4, <1>8, <1>9, Zenon DEF RotateStart
    <2> QED BY <1>3, <1>4, <1>6, <1>9, <2>1, <2>2, Zenon DEF Inv, Stage
<1>10. CASE In("probes", 11) /\ DisableStart
    <2>1. Advance
        BY <1>1, <1>7, <1>10, Zenon DEF DisableStart
    <2>2. DisableStart'
        BY <1>0, <1>4, <1>8, <1>10, Zenon DEF DisableStart, ToDisable
    <2> QED BY <1>3, <1>4, <1>6, <1>10, <2>1, <2>2, Zenon DEF Inv, Stage
<1>11. CASE In("probes", 5) /\ UpgradeProbes
    <2>1. CASE Detected /\ file[n] = Missing
        <3>1. NoKill => Disabled \/ \E k \in 0..MaxKey : Steady(k)
            BY <1>11, Zenon DEF UpgradeProbes, AsWanted
        <3> QED BY <1>0, <1>1, <1>3, <2>1, <3>1, AbortStep, Zenon
    <2>2. CASE ~(Detected /\ file[n] = Missing)
        <3>1. AsWanted /\ conf = Missing /\ Advance
            BY <1>1, <1>11, <2>2, Zenon DEF UpgradeProbes, Disabled, All
        <3>2. AsWanted'
            BY <1>0, <1>4, <3>1, Zenon DEF AsWanted
        <3>3. live'.enable = want
            BY <1>1, <1>2, <3>1, Zenon DEF AsWanted
        <3>4. UpgradeGenerates'
            BY <1>0, <3>1, <3>2, <3>3, Zenon DEF UpgradeGenerates
        <3> QED BY <1>3, <1>4, <1>6, <1>11, <3>1, <3>4, Zenon DEF Inv, Stage
    <2> QED BY <2>1, <2>2, Zenon
<1>12. CASE In("probes", 6) /\ ToEnable
    <2>1. Advance
        BY <1>1, <1>12, Zenon DEF ToEnable
    <2>2. EnableGenerates'
        BY <1>0, <1>1, <1>2, <1>4, <1>12, Zenon DEF ToEnable, EnableGenerates
    <2> QED BY <1>3, <1>4, <1>6, <1>12, <2>1, <2>2, Zenon DEF Inv, Stage
<1> QED BY <1>5, <1>9, <1>10, <1>11, <1>12, Zenon

(* The leader's file is fetched.                                           *)
LEMMA FetchStep ==
    ASSUME Inv, world' = world, fetchEncryptionProvidersFile
    PROVE  Inv'
<1>0. /\ TypeOK /\ ClusterInv /\ InList /\ ControlInv /\ At("fetch") /\ tasks # <<>>
      /\ UNCHANGED <<file, flag, loaded, secret, nextKey, want, leader, conf, world>>
      /\ leader \in Nodes
    BY Zenon DEF Inv, fetchEncryptionProvidersFile, cluster, At, TypeOK
<1>1. \/ In("fetch", 6) /\ RotateStart
      \/ In("fetch", 10) /\ DisableStart
    BY <1>0, Zenon DEF Inv, Rest, Stage, In, At
<1>2. PICK k \in Key : All(<<k, 0>>) \/ All(<<0, k>>)
    BY <1>1, Zenon DEF RotateStart, DisableStart, OneKeyEach
<1>3. Advance /\ live' = [live EXCEPT !.config = file[leader]]
    BY <1>0, <1>2, Tuples, Zenon DEF fetchEncryptionProvidersFile, All
<1>4. /\ InList' /\ ControlInv' /\ entered' = FALSE /\ failed' = FALSE /\ todo' = {}
      /\ In("fetch", 6) => In("uploadWithNewKey", 5)'
      /\ In("fetch", 10) => In("uploadIdentityFirst", 9)'
    <2>1. tasks' = Tail(tasks)
        BY <1>3, Zenon DEF Advance
    <2> QED BY <1>0, <1>3, <2>1, NextTask, AdvanceControl, Zenon
<1>5. live' \in [enable : BOOLEAN, config : Configs] /\ live'.config = file[leader]
    BY <1>0, <1>3, Zenon DEF TypeOK
<1>6. TypeOK'
    BY <1>0, <1>3, <1>5, Zenon DEF TypeOK, Advance
<1>7. /\ ClusterInv'
      /\ \A c : All(c)' <=> All(c)
      /\ \A K : UsedIn(K)' <=> UsedIn(K)
      /\ Detected' = Detected /\ (NoKill' <=> NoKill)
    BY <1>0, SameCluster, Zenon
<1>8. UsedIn({0, k})
    <2>1. CASE All(<<k, 0>>)
        <3>1. UsedIn({0} \cup Providers(<<k, 0>>)) /\ {0} \cup Providers(<<k, 0>>) = {0, k}
            BY <1>0, <2>1, CoveredIn, Tuples, Zenon
        <3> QED BY <3>1, Zenon
    <2>2. CASE All(<<0, k>>)
        <3>1. UsedIn({0} \cup Providers(<<0, k>>)) /\ {0} \cup Providers(<<0, k>>) = {0, k}
            BY <1>0, <2>2, CoveredIn, Tuples, Zenon
        <3> QED BY <3>1, Zenon
    <2> QED BY <1>2, <2>1, <2>2, Zenon
<1>9. NoKill => All(<<k, 0>>) /\ \A n \in Nodes : flag[n]
    <2>1. ASSUME NEW j \in Key, Steady(j) PROVE All(<<k, 0>>) /\ \A n \in Nodes : flag[n]
        <3>1. j # 0 /\ All(<<j, 0>>) /\ \A n \in Nodes : flag[n]
            <4>1. j # 0
                BY ClusterAssumption DEF Key
            <4> QED BY <2>1, <4>1, Zenon DEF Steady, FileOf, All
        <3>2. CASE All(<<0, k>>)
            <4>1. <<0, k>> = <<j, 0>>
                BY <1>0, <3>1, <3>2, Zenon DEF All
            <4> QED BY <3>1, <4>1, Zenon
        <3> QED BY <1>2, <3>1, <3>2, Zenon
    <2> QED BY <1>1, <2>1, Zenon DEF RotateStart, DisableStart
<1>10. Done' = {}
    BY <1>4, Zenon DEF Done
<1>11. CASE In("fetch", 6) /\ RotateStart
    <2>1. CASE All(<<k, 0>>)
        <3>1. live'.config = <<k, 0>> /\ InUse(k)' = {0, k}
            BY <1>0, <1>4, <1>5, <2>1, Zenon DEF All, InUse
        <3>2. UsedIn(InUse(k))'
            BY <1>7, <1>8, <3>1, Zenon
        <3>3. \A n \in Nodes : k \in Providers(file'[n]) /\ Head(file'[n]) \in InUse(k)'
            BY <1>0, <2>1, <3>1, Tuples, Zenon DEF All
        <3>4. NoKill => FlagsSet'
            BY <1>0, <1>9, <1>11, Zenon DEF FlagsSet, RotateStart
        <3>5. AddKey'
            BY <1>4, <1>7, <1>10, <3>1, <3>2, <3>3, <3>4, Zenon DEF AddKey
        <3> QED BY <1>4, <1>6, <1>7, <1>11, <3>5, Zenon DEF Inv, Stage
    <2>2. CASE ~All(<<k, 0>>)
        <3>1. live'.config = <<0, k>> /\ ~NoKill
            BY <1>0, <1>2, <1>5, <1>9, <2>2, Zenon DEF All
        <3>2. AddKey'
            BY <1>4, <1>7, <3>1, Zenon DEF AddKey
        <3> QED BY <1>4, <1>6, <1>7, <1>11, <3>2, Zenon DEF Inv, Stage
    <2> QED BY <2>1, <2>2, Zenon
<1>12. CASE In("fetch", 10) /\ DisableStart
    <2>1. ToDisable'
        BY <1>0, <1>7, <1>12, Zenon DEF DisableStart, ToDisable
    <2>2. CASE All(<<k, 0>>)
        <3>1. live'.config = <<k, 0>> /\ \A n \in Nodes : file'[n] = <<k, 0>>
            BY <1>0, <1>5, <2>2, Zenon DEF All
        <3>2. IdentityFirst'
            BY <1>4, <1>7, <1>8, <1>10, <2>1, <3>1, Zenon DEF IdentityFirst
        <3> QED BY <1>4, <1>6, <1>7, <1>12, <3>2, Zenon DEF Inv, Stage
    <2>3. CASE ~All(<<k, 0>>)
        <3>1. live'.config = <<0, k>> /\ ~NoKill
            BY <1>0, <1>2, <1>5, <1>9, <2>3, Zenon DEF All
        <3>2. IdentityFirst'
            BY <1>4, <1>7, <2>1, <3>1, Zenon DEF IdentityFirst
        <3> QED BY <1>4, <1>6, <1>7, <1>12, <3>2, Zenon DEF Inv, Stage
    <2> QED BY <2>2, <2>3, Zenon
<1> QED BY <1>1, <1>11, <1>12, Zenon

(* The key of a new configuration.                                         *)
LEMMA GenerateStep ==
    ASSUME Inv, world' = world, generateConfigurationFiles
    PROVE  Inv'
<1>0. /\ TypeOK /\ ClusterInv /\ InList /\ ControlInv /\ At("generateFiles") /\ tasks # <<>>
      /\ UNCHANGED <<file, flag, loaded, secret, want, live, leader, world>> /\ Advance
    BY Zenon DEF Inv, generateConfigurationFiles, At
<1>1. \/ In("generateFiles", 4) /\ UpgradeGenerates
      \/ In("generateFiles", 5) /\ EnableGenerates
    BY <1>0, Zenon DEF Inv, Rest, Stage, In, At
<1>2. /\ InList' /\ ControlInv' /\ entered' = FALSE /\ failed' = FALSE /\ todo' = {}
      /\ In("generateFiles", 4) => In("uploadFiles", 3)'
      /\ In("generateFiles", 5) => In("uploadFiles", 4)'
    <2>1. tasks' = Tail(tasks)
        BY <1>0, Zenon DEF Advance
    <2> QED BY <1>0, <2>1, NextTask, AdvanceControl, Zenon
<1>3. /\ ClusterInv'
      /\ \A k : Steady(k)' <=> Steady(k)
      /\ Detected' = Detected /\ (NoKill' <=> NoKill)
    BY <1>0, SameCluster, Zenon
<1>4. CASE In("generateFiles", 4) /\ UpgradeGenerates
    <2>1. UNCHANGED <<nextKey, conf>>
        BY <1>4, Zenon DEF generateConfigurationFiles, ShouldEnableEncryption, UpgradeGenerates
    <2>2. TypeOK'
        BY <1>0, <2>1, Zenon DEF TypeOK, Advance
    <2>3. UpgradeUploads'
        BY <1>0, <1>3, <1>4, <2>1, Zenon DEF UpgradeGenerates, UpgradeUploads, AsWanted
    <2> QED BY <1>2, <1>3, <1>4, <2>2, <2>3, Zenon DEF Inv, Stage
<1>5. CASE In("generateFiles", 5) /\ EnableGenerates
    <2>1. nextKey <= MaxKey /\ nextKey' = nextKey + 1 /\ conf' = <<nextKey, 0>>
        BY <1>5, Zenon DEF generateConfigurationFiles, ShouldEnableEncryption, EnableGenerates, ToEnable,
                    NewEncryptionProvidersConfig, Identity
    <2>2. nextKey \in Key /\ nextKey' \in 1..MaxKey + 1
        BY <1>0, <2>1, ClusterAssumption DEF TypeOK, Key
    <2>3. conf' \in Configs
        BY <2>1, <2>2, HeadOfShaped, Zenon DEF Shaped
    <2>4. TypeOK'
        BY <1>0, <2>2, <2>3, Zenon DEF TypeOK, Advance
    <2>5. EnableUploads'
        BY <1>0, <1>2, <1>3, <1>5, <2>1, <2>2, Zenon DEF EnableGenerates, ToEnable, EnableUploads, Done
    <2> QED BY <1>2, <1>3, <1>5, <2>4, <2>5, Zenon DEF Inv, Stage
<1> QED BY <1>1, <1>4, <1>5, Zenon

----------------------------------------------------------------------------
(* The uploads of a new configuration are entered.                         *)

(* The configuration that UpdateEncryptionConfigWithNewKey makes keeps the *)
(* last key of the one before.                                             *)
LEMMA WithNewKey ==
    ASSUME NEW c, NEW a, NEW k, c = <<a, 0>> \/ \E h \in Key : c = <<h, a, 0>>
    PROVE  UpdateEncryptionConfigWithNewKey(c, k) = <<k, a, 0>>
<1>1. c = <<a, 0>> => Len(c) - 1 = 1 /\ c[1] = a
    OBVIOUS
<1>2. ASSUME NEW h \in Key, c = <<h, a, 0>> PROVE Len(c) - 1 = 2 /\ c[2] = a
    BY <1>2
<1> QED BY <1>1, <1>2, Zenon DEF UpdateEncryptionConfigWithNewKey, Identity

(* The rotation adds its key.                                              *)
LEMMA AddKeyStep ==
    ASSUME Inv, world' = world, uploadEncryptionConfigurationWithNewKey
    PROVE  Inv'
<1>0. /\ TypeOK /\ ClusterInv /\ InList /\ ControlInv /\ tasks # <<>>
      /\ At("uploadWithNewKey") /\ ~entered /\ ~failed
      /\ UNCHANGED <<file, flag, loaded, secret, want, leader, world>>
    BY Zenon DEF Inv, uploadEncryptionConfigurationWithNewKey, At, ControlInv
<1>1. In("uploadWithNewKey", 5) /\ AddKey
    BY <1>0, Zenon DEF Inv, Rest, Stage, In, At
<1>2. PICK a \in Key :
        \/ ~entered /\ live.config = <<0, a>> /\ ~NoKill
        \/ /\ live.config = <<a, 0>> \/ \E h \in Key : live.config = <<h, a, 0>>
           /\ UsedIn(InUse(a))
           /\ \A n \in Nodes : a \in Providers(file[n])
           /\ "restart" \in world => \A n \in Nodes : Head(file[n]) \in InUse(a)
           /\ NoKill => FlagsSet
    BY <1>1, Zenon DEF AddKey
<1>3. a # 0 /\ \A h \in Key : h # 0
    BY ClusterAssumption DEF Key
<1>4. CASE live.config = <<0, a>> /\ ~NoKill
    <2>1. Abort /\ UNCHANGED <<live, conf, nextKey>>
        BY <1>4, Tuples, Zenon DEF uploadEncryptionConfigurationWithNewKey, Identity
    <2>2. TypeOK'
        BY <1>0, <2>1, Zenon DEF TypeOK, Abort
    <2> QED BY <1>0, <1>4, <2>1, <2>2, AbortStep, Zenon
<1>5. CASE ~(live.config = <<0, a>> /\ ~NoKill)
    <2>1. live.config = <<a, 0>> \/ \E h \in Key : live.config = <<h, a, 0>>
        BY <1>2, <1>5, Zenon
    <2>2. Head(live.config) # Identity
        BY <1>3, <2>1, Tuples DEF Identity
    <2>3. UpdateEncryptionConfigWithNewKey(live.config, nextKey) = <<nextKey, a, 0>>
        BY <2>1, WithNewKey
    <2>4. /\ nextKey <= MaxKey /\ nextKey' = nextKey + 1
          /\ live' = [live EXCEPT !.config = <<nextKey, a, 0>>]
          /\ conf' = live'.config
          /\ Enter(Nodes)
        BY <2>2, <2>3, Zenon DEF uploadEncryptionConfigurationWithNewKey
    <2>5. nextKey \in Key /\ nextKey' \in 1..MaxKey + 1
        BY <1>0, <2>4, ClusterAssumption DEF TypeOK, Key
    <2>6. <<nextKey, a, 0>> \in Configs
        BY <2>5, HeadOfShaped, Zenon DEF Shaped
    <2>7. live' \in [enable : BOOLEAN, config : Configs] /\ live'.config = <<nextKey, a, 0>>
        BY <1>0, <2>4, <2>6, Zenon DEF TypeOK
    <2>8. TypeOK'
        BY <1>0, <2>4, <2>5, <2>6, <2>7, Zenon DEF TypeOK, Enter
    <2>9. /\ InList' /\ ControlInv' /\ entered' /\ ~failed' /\ todo' = Nodes
          /\ In("uploadWithNewKey", 5)'
        BY <1>0, <1>1, <2>4, EnterControl, Zenon DEF At
    <2>10. ClusterInv' /\ (\A K : UsedIn(K)' <=> UsedIn(K)) /\ (NoKill' <=> NoKill)
        BY <1>0, SameCluster, Zenon
    <2>11. Done' = {} /\ Head(conf') = nextKey /\ Len(conf') = 3
        BY <2>4, <2>7, <2>9, Tuples, Zenon DEF Done
    <2>12. InUse(a) = {0, a} /\ InUse(a)' = IF "restart" \in world THEN {0, a, nextKey} ELSE {0, a}
        BY <1>0, <2>9, <2>11, Zenon DEF InUse
    <2>13. UsedIn(InUse(a))'
        <3>1. UsedIn({0, a}) => UsedIn({0, a, nextKey})
            BY Zenon DEF UsedIn
        <3>2. UsedIn({0, a})
            BY <1>2, <1>5, <2>12, Zenon
        <3> QED BY <2>10, <2>12, <3>1, <3>2, Zenon
    <2>14. AddKey'
        <3>1. NoKill => FlagsSet'
            BY <1>0, <1>2, <1>5, Zenon DEF FlagsSet
        <3>2. \A n \in Nodes : a \in Providers(file'[n])
            BY <1>0, <1>2, <1>5, Zenon
        <3>3. "restart" \in world' => \A n \in Nodes : Head(file'[n]) \in InUse(a)'
            BY <1>0, <1>2, <1>5, <2>12, Zenon
        <3> QED BY <2>4, <2>5, <2>7, <2>10, <2>11, <2>13, <3>1, <3>2, <3>3, Zenon DEF AddKey
    <2> QED BY <2>8, <2>9, <2>10, <2>14, Zenon DEF Inv, Stage
<1> QED BY <1>4, <1>5, Zenon

(* It removes the old one.                                                 *)
LEMMA DropKeyStep ==
    ASSUME Inv, world' = world, uploadEncryptionConfigurationWithoutOldKey
    PROVE  Inv'
<1>0. /\ TypeOK /\ ClusterInv /\ InList /\ ControlInv /\ tasks # <<>>
      /\ At("uploadWithoutOldKey") /\ ~entered /\ Enter(Nodes)
      /\ UNCHANGED <<file, flag, loaded, secret, nextKey, want, leader, world>>
    BY Zenon DEF Inv, uploadEncryptionConfigurationWithoutOldKey, At, cluster
<1>1. In("uploadWithoutOldKey", 2) /\ DropOldKey
    BY <1>0, Zenon DEF Inv, Rest, Stage, In, At
<1>2. PICK h \in Key :
        /\ live.config = <<h, 0>> \/ \E a \in Key : live.config = <<h, a, 0>>
        /\ UsedIn({0, h})
        /\ \A n \in Nodes : file[n] # Missing /\ Head(file[n]) = h
        /\ NoKill => /\ FlagsSet
                     /\ \A s \in Secrets : secret[s] = h
                     /\ \A n \in Nodes : Running(n) /\ Head(loaded[n]) = h
    BY <1>1, Zenon DEF DropOldKey
<1>3. UpdateEncryptionConfigRemoveOldKey(live.config) = <<h, 0>>
    BY <1>2 DEF UpdateEncryptionConfigRemoveOldKey, Identity
<1>4. <<h, 0>> \in Configs
    BY HeadOfShaped, Zenon DEF Shaped
<1>5. /\ live' \in [enable : BOOLEAN, config : Configs]
      /\ live'.config = <<h, 0>> /\ conf' = <<h, 0>>
    BY <1>0, <1>3, <1>4, Zenon DEF uploadEncryptionConfigurationWithoutOldKey, TypeOK
<1>6. TypeOK'
    BY <1>0, <1>4, <1>5, Zenon DEF TypeOK, Enter
<1>7. /\ InList' /\ ControlInv' /\ entered' /\ ~failed' /\ todo' = Nodes
      /\ In("uploadWithoutOldKey", 2)'
    BY <1>0, <1>1, EnterControl, Zenon DEF At
<1>8. ClusterInv' /\ (\A K : UsedIn(K)' <=> UsedIn(K)) /\ (NoKill' <=> NoKill)
    BY <1>0, SameCluster, Zenon
<1>9. Done' = {}
    BY <1>7, Zenon DEF Done
<1>10. DropOldKey'
    BY <1>0, <1>2, <1>5, <1>8, <1>9, Zenon DEF DropOldKey, FlagsSet, Running
<1> QED BY <1>6, <1>7, <1>8, <1>10, Zenon DEF Inv, Stage

(* Disabling puts the identity provider first.                             *)
LEMMA IdentityFirstStep ==
    ASSUME Inv, world' = world, uploadIdentityFirstEncryptionConfiguration
    PROVE  Inv'
<1>0. /\ TypeOK /\ ClusterInv /\ InList /\ ControlInv /\ tasks # <<>>
      /\ At("uploadIdentityFirst") /\ ~entered
      /\ UNCHANGED <<file, flag, loaded, secret, nextKey, want, live, leader, world>>
    BY Zenon DEF Inv, uploadIdentityFirstEncryptionConfiguration, At, cluster
<1>1. In("uploadIdentityFirst", 9) /\ IdentityFirst
    BY <1>0, Zenon DEF Inv, Rest, Stage, In, At
<1>2. PICK k \in Key :
        \/ ~entered /\ live.config = <<0, k>> /\ ~NoKill
        \/ /\ live.config = <<k, 0>>
           /\ UsedIn({0, k})
           /\ \A n \in Nodes : file[n] = <<k, 0>> \/ file[n] = <<0, k>>
    BY <1>1, Zenon DEF IdentityFirst
<1>3. k # 0
    BY ClusterAssumption DEF Key
<1>4. CASE live.config = <<0, k>> /\ ~NoKill
    <2>1. Abort /\ UNCHANGED conf
        BY <1>4, Tuples, Zenon DEF uploadIdentityFirstEncryptionConfiguration, DecryptOnlyPossible, Identity
    <2>2. TypeOK'
        BY <1>0, <2>1, Zenon DEF TypeOK, Abort
    <2> QED BY <1>0, <1>4, <2>1, <2>2, AbortStep, Zenon
<1>5. CASE ~(live.config = <<0, k>> /\ ~NoKill)
    <2>1. live.config = <<k, 0>>
        BY <1>2, <1>5, Zenon
    <2>2. DecryptOnlyPossible(live.config)
        BY <1>3, <2>1, Tuples, Zenon DEF DecryptOnlyPossible, Identity
    <2>3. UpdateEncryptionConfigDecryptOnly(live.config) = <<0, k>>
        BY <2>1, DecryptOnly, Zenon
    <2>4. conf' = <<0, k>> /\ Enter(Nodes)
        BY <2>2, <2>3, Zenon DEF uploadIdentityFirstEncryptionConfiguration
    <2>5. <<0, k>> \in Configs
        BY HeadOfShaped, Zenon DEF Shaped
    <2>6. TypeOK'
        BY <1>0, <2>4, <2>5, Zenon DEF TypeOK, Enter
    <2>7. /\ InList' /\ ControlInv' /\ entered' /\ ~failed' /\ todo' = Nodes
          /\ In("uploadIdentityFirst", 9)'
        BY <1>0, <1>1, <2>4, EnterControl, Zenon DEF At
    <2>8. /\ ClusterInv' /\ (\A K : UsedIn(K)' <=> UsedIn(K)) /\ (NoKill' <=> NoKill)
          /\ Detected' = Detected
        BY <1>0, SameCluster, Zenon
    <2>9. Done' = {}
        BY <2>7, Zenon DEF Done
    <2>10. IdentityFirst'
        BY <1>0, <1>1, <1>2, <1>5, <2>1, <2>4, <2>8, <2>9, Zenon DEF IdentityFirst, ToDisable
    <2> QED BY <2>6, <2>7, <2>8, <2>10, Zenon DEF Inv, Stage
<1> QED BY <1>4, <1>5, Zenon

----------------------------------------------------------------------------
(* A task is entered, retried, ended or killed.                            *)

(* The tasks that only visit nodes are entered: nothing is done yet.       *)
LEMMA EnterNodesStep ==
    ASSUME Inv, world' = world, EnterNodes
    PROVE  Inv'
<1>0. /\ TypeOK /\ ClusterInv /\ InList /\ ControlInv /\ tasks # <<>> /\ ~entered /\ Enter(Nodes)
      /\ Task \in {"uploadFiles", "restart", "upgrade", "removeFile"}
      /\ UNCHANGED <<file, flag, loaded, secret, nextKey, want, live, leader, conf, world>>
    BY Zenon DEF Inv, EnterNodes, cluster
<1>1. /\ InList' /\ ControlInv' /\ entered' /\ ~failed' /\ todo' = Nodes
      /\ \A t, l : In(t, l)' <=> In(t, l)
    BY <1>0, EnterControl, Zenon
<1>2. TypeOK'
    BY <1>0, Zenon DEF TypeOK, Enter
<1>3. /\ ClusterInv'
      /\ \A c : All(c)' <=> All(c)
      /\ \A k : Steady(k)' <=> Steady(k)
      /\ \A K : UsedIn(K)' <=> UsedIn(K)
      /\ Detected' = Detected /\ (NoKill' <=> NoKill)
    BY <1>0, SameCluster, Zenon
<1>4. Done' = {} /\ Task' = Task
    BY <1>0, <1>1, Zenon DEF Done, Enter, Task
<1>5. \/ In("restart", 4) /\ LoadNewKey
      \/ In("restart", 1) /\ LastRestart
      \/ In("restart", 8) /\ LoadIdentity
      \/ In("removeFile", 6) /\ RemoveFiles
      \/ In("uploadFiles", 3) /\ UpgradeUploads
      \/ In("upgrade", 2) /\ AsWanted
      \/ In("uploadFiles", 4) /\ EnableUploads
      \/ In("upgrade", 3) /\ EnableUpgrades
      \/ In("restart", 2) /\ EnableRewrites
    BY <1>0, Zenon DEF Inv, Rest, Stage, In, At
<1>6. /\ LoadNewKey => LoadNewKey'
      /\ LoadIdentity => LoadIdentity'
      /\ RemoveFiles => RemoveFiles'
    BY <1>0, <1>3, <1>4, Zenon DEF LoadNewKey, LoadIdentity, RemoveFiles, ToDisable, FlagsSet
<1>7. LastRestart => LastRestart'
    BY <1>0, <1>3, <1>4, Zenon DEF LastRestart, Settling, Running
<1>8. AsWanted => AsWanted'
    BY <1>0, <1>3, Zenon DEF AsWanted
<1>9. UpgradeUploads => UpgradeUploads'
    BY <1>0, <1>8, Zenon DEF UpgradeUploads
<1>10. (EnableUploads => EnableUploads') /\ (EnableUpgrades => EnableUpgrades')
    BY <1>0, <1>3, <1>4, Zenon DEF EnableUploads, EnableUpgrades, ToEnable
<1>11. Task # "rewrite" /\ EnableRewrites => EnableRewrites'
    BY <1>0, <1>3, <1>4, Zenon DEF EnableRewrites
<1>12. Stage'
    BY <1>0, <1>1, <1>5, <1>6, <1>7, <1>8, <1>9, <1>10, <1>11, Zenon DEF Stage
<1> QED BY <1>1, <1>2, <1>3, <1>12, Zenon DEF Inv

(* A task starts again with nothing done.  The upload of a new key does so *)
(* only if a command has failed, and then no API server has restarted.     *)
LEMMA RetryStep ==
    ASSUME Inv, world' = world, Retry, tasks # <<>>,
           At("uploadWithNewKey") => "restart" \notin world,
           UNCHANGED <<file, flag, loaded, secret, nextKey, want, live, leader, conf>>
    PROVE  Inv'
<1>0. TypeOK /\ ClusterInv /\ InList /\ ControlInv /\ Stage
    BY Zenon DEF Inv, Rest
<1>1. /\ InList' /\ ControlInv' /\ entered' = FALSE /\ failed' = FALSE /\ todo' = {}
      /\ \A t, l : In(t, l)' <=> In(t, l)
    BY <1>0, RetryControl, Zenon
<1>2. TypeOK'
    BY <1>0, <1>1, Zenon DEF TypeOK, Retry
<1>3. /\ ClusterInv'
      /\ \A c : All(c)' <=> All(c)
      /\ \A k : Steady(k)' <=> Steady(k)
      /\ \A K : UsedIn(K)' <=> UsedIn(K)
      /\ \A n \in Nodes : Fresh(n)' <=> Fresh(n)
      /\ Detected' = Detected /\ (Disabled' <=> Disabled) /\ (NoKill' <=> NoKill)
    BY <1>0, SameCluster, Zenon
<1>4. Done' = {} /\ (FlagsSet' <=> FlagsSet)
    BY <1>1, Zenon DEF Done, FlagsSet
<1>5. RotateStart => RotateStart'
    BY <1>3, Zenon DEF RotateStart, OneKeyEach
<1>6. At("uploadWithNewKey") /\ AddKey => AddKey'
    <2>1. SUFFICES ASSUME At("uploadWithNewKey"), AddKey PROVE AddKey'
        BY Zenon
    <2>2. \A a : InUse(a) = {0, a} /\ InUse(a)' = {0, a}
        BY <1>1, <2>1, Zenon DEF InUse
    <2>3. \A a : UsedIn(InUse(a)) => UsedIn(InUse(a))'
        BY <1>3, <2>2, Zenon
    <2> QED BY <1>1, <1>3, <1>4, <2>1, <2>2, <2>3, Zenon DEF AddKey, Providers
<1>7. /\ LoadNewKey => LoadNewKey'
      /\ LoadIdentity => LoadIdentity'
      /\ RemoveFiles => RemoveFiles'
      /\ IdentityFirst => IdentityFirst'
      /\ DisableStart => DisableStart'
    <2>1. (LoadNewKey => LoadNewKey') /\ (LoadIdentity => LoadIdentity')
        BY <1>3, <1>4, Zenon DEF LoadNewKey, LoadIdentity, ToDisable
    <2>2. (RemoveFiles => RemoveFiles') /\ (DisableStart => DisableStart')
        BY <1>3, <1>4, Zenon DEF RemoveFiles, DisableStart, OneKeyEach, ToDisable
    <2>3. IdentityFirst => IdentityFirst'
        BY <1>1, <1>3, <1>4, Zenon DEF IdentityFirst, ToDisable
    <2> QED BY <2>1, <2>2, <2>3, Zenon
<1>8. (RewriteToNewKey => RewriteToNewKey') /\ (RewriteToIdentity => RewriteToIdentity')
    BY <1>1, <1>3, <1>4, Zenon DEF RewriteToNewKey, RewriteToIdentity, ToDisable
<1>9. DropOldKey => DropOldKey'
    BY <1>1, <1>3, <1>4, Zenon DEF DropOldKey, Running
<1>10. LastRestart => LastRestart'
    BY <1>3, <1>4, Zenon DEF LastRestart, Settling, Running
<1>11. AsWanted => AsWanted'
    BY <1>3, Zenon DEF AsWanted
<1>12. /\ UpgradeProbes => UpgradeProbes'
       /\ UpgradeGenerates => UpgradeGenerates'
       /\ UpgradeUploads => UpgradeUploads'
    BY <1>3, <1>11, Zenon DEF UpgradeProbes, UpgradeGenerates, UpgradeUploads
<1>13. /\ ToEnable => ToEnable'
       /\ EnableGenerates => EnableGenerates'
       /\ EnableUploads => EnableUploads'
       /\ EnableUpgrades => EnableUpgrades'
    BY <1>3, <1>4, Zenon DEF ToEnable, EnableGenerates, EnableUploads, EnableUpgrades
<1>14. EnableRewrites => EnableRewrites'
    BY <1>1, <1>3, Zenon DEF EnableRewrites
<1>15. Stage'
    <2>1. \A l : In("uploadWithNewKey", l) => At("uploadWithNewKey")
        BY Zenon DEF In
    <2> QED BY <1>0, <1>1, <1>5, <1>6, <1>7, <1>8, <1>9, <1>10, <1>11, <1>12, <1>13, <1>14, <2>1 DEF Stage
<1> QED BY <1>1, <1>2, <1>3, <1>15, Zenon DEF Inv

(* kubeone is killed.                                                      *)
LEMMA KilledStep ==
    ASSUME Inv, world' = world, Killed
    PROVE  Inv'
<1>1. TypeOK'
    BY Zenon DEF Inv, Killed, Abort, TypeOK, cluster
<1> QED BY <1>1, AbortStep, Zenon DEF Killed, cluster, NoKill

(* A Secret cannot be read, and the rewriting starts again.                *)
LEMMA RewriteFailsStep ==
    ASSUME Inv, world' = world, RewriteFails
    PROVE  Inv'
<1>1. tasks # <<>> /\ ~At("uploadWithNewKey")
    BY Zenon DEF RewriteFails, At
<1> QED BY <1>1, RetryStep, Zenon DEF RewriteFails, cluster

(* The Secrets have been listed.                                           *)
LEMMA ListSecretsStep ==
    ASSUME Inv, world' = world, ListSecrets
    PROVE  Inv'
<1>0. /\ TypeOK /\ ClusterInv /\ InList /\ ControlInv /\ tasks # <<>> /\ ~entered /\ Enter(Secrets)
      /\ Task = "rewrite"
      /\ UNCHANGED <<file, flag, loaded, secret, nextKey, want, live, leader, conf, world>>
    BY Zenon DEF Inv, ListSecrets, cluster, At
<1>1. /\ InList' /\ ControlInv' /\ entered' /\ ~failed' /\ todo' = Secrets
      /\ \A t, l : In(t, l)' <=> In(t, l)
    BY <1>0, EnterControl, Zenon
<1>2. TypeOK'
    BY <1>0, Zenon DEF TypeOK, Enter
<1>3. /\ ClusterInv'
      /\ \A c : All(c)' <=> All(c)
      /\ \A K : UsedIn(K)' <=> UsedIn(K)
      /\ \A n \in Nodes : Fresh(n)' <=> Fresh(n)
      /\ Detected' = Detected /\ (NoKill' <=> NoKill)
    BY <1>0, SameCluster, Zenon
<1>5. \/ In("rewrite", 3) /\ RewriteToNewKey
      \/ In("rewrite", 7) /\ RewriteToIdentity
      \/ In("rewrite", 1) /\ EnableRewrites
    BY <1>0, Zenon DEF Inv, Rest, Stage, In, At
<1>6. RewriteToNewKey => RewriteToNewKey'
    BY <1>0, <1>1, <1>3, Zenon DEF RewriteToNewKey, FlagsSet
<1>7. RewriteToIdentity => RewriteToIdentity'
    BY <1>0, <1>1, <1>3, Zenon DEF RewriteToIdentity, ToDisable
<1>8. EnableRewrites => EnableRewrites'
    BY <1>0, <1>1, <1>3, Zenon DEF EnableRewrites
<1> QED BY <1>1, <1>2, <1>3, <1>5, <1>6, <1>7, <1>8, Zenon DEF Inv, Stage

(* A task has visited everything: it is retried if a visit failed, and     *)
(* otherwise what it was to achieve holds of every node or Secret.         *)
LEMMA EndVisitsStep ==
    ASSUME Careful, Inv, world' = world, EndVisits
    PROVE  Inv'
<1>0. /\ TypeOK /\ ClusterInv /\ InList /\ ControlInv /\ tasks # <<>> /\ Stage
      /\ entered /\ todo = {} /\ IF failed THEN Retry ELSE Advance
      /\ UNCHANGED <<file, flag, loaded, secret, nextKey, want, live, leader, conf, world>>
    BY Zenon DEF Inv, Rest, EndVisits, cluster
<1>1. CASE failed
    <2>1. "restart" \notin world
        BY <1>0, <1>1 DEF ControlInv, Careful, TypeOK
    <2> QED BY <1>0, <1>1, <2>1, RetryStep, Zenon
<1>2. CASE ~failed
    <2>1. Advance /\ tasks' = Tail(tasks)
        BY <1>0, <1>2, Zenon DEF Advance
    <2>2. /\ InList' /\ ControlInv' /\ entered' = FALSE /\ failed' = FALSE /\ todo' = {}
          /\ tasks' = <<>> <=> Len(tasks) = 1
        BY <1>0, <2>1, AdvanceControl, Zenon
    <2>3. TypeOK'
        BY <1>0, <2>1, Zenon DEF TypeOK, Advance
    <2>4. /\ ClusterInv'
          /\ \A c : All(c)' <=> All(c)
          /\ \A k : Steady(k)' <=> Steady(k)
          /\ \A K : UsedIn(K)' <=> UsedIn(K)
          /\ \A n \in Nodes : Fresh(n)' <=> Fresh(n)
          /\ Detected' = Detected /\ (Disabled' <=> Disabled) /\ (NoKill' <=> NoKill)
        BY <1>0, SameCluster, Zenon
    <2>5. Done = Nodes /\ Done' = {} /\ Secrets \ todo = Secrets /\ (FlagsSet' <=> FlagsSet)
        BY <1>0, <2>2, Zenon DEF Done, FlagsSet
    <2>6. \A k \in Key : k # 0 /\ k \in 0..MaxKey
        BY ClusterAssumption DEF Key
    <2>7. SUFFICES Rest' \/ Stage'
        BY <2>2, <2>3, <2>4, Zenon DEF Inv
    <2>8. Task \notin {"probes", "fetch", "generateFiles"}
        BY <1>0, Zenon DEF ControlInv
    <2>9. CASE In("uploadWithNewKey", 5) /\ AddKey
        <3>1. PICK a \in Key :
                /\ live.config = <<a, 0>> \/ \E h \in Key : live.config = <<h, a, 0>>
                /\ conf = live.config /\ Len(conf) = 3
                /\ UsedIn(InUse(a))
                /\ \A n \in Nodes : file[n] = conf
                /\ NoKill => FlagsSet
            BY <1>0, <1>2, <2>5, <2>9, Zenon DEF AddKey
        <3>2. PICK h \in Key : live.config = <<h, a, 0>>
            BY <3>1, Tuples
        <3>3. All(<<h, a, 0>>) /\ Head(conf) = h
            BY <3>1, <3>2, Tuples, Zenon DEF All
        <3>4. UsedIn({0, h, a})
            BY <3>1, <3>3, Zenon DEF UsedIn, InUse
        <3>5. LoadNewKey'
            BY <1>0, <2>4, <2>5, <3>1, <3>2, <3>3, <3>4, Zenon DEF LoadNewKey
        <3>6. In("restart", 4)'
            BY <1>0, <2>1, <2>9, NextTask, Zenon
        <3> QED BY <3>5, <3>6, Zenon DEF Stage
    <2>10. CASE In("restart", 4) /\ LoadNewKey
        <3>1. RewriteToNewKey'
            BY <1>0, <2>2, <2>4, <2>5, <2>10, Zenon DEF LoadNewKey, RewriteToNewKey
        <3>2. In("rewrite", 3)'
            BY <1>0, <2>1, <2>10, NextTask, Zenon
        <3> QED BY <3>1, <3>2, Zenon DEF Stage
    <2>11. CASE In("rewrite", 3) /\ RewriteToNewKey
        <3>1. PICK h \in Key, a \in Key :
                /\ live.config = <<h, a, 0>> /\ All(<<h, a, 0>>)
                /\ \A n \in Nodes : Fresh(n)
                /\ \A s \in Secrets : secret[s] \in {0, h} /\ (NoKill => secret[s] = h)
                /\ NoKill => FlagsSet
            BY <1>0, <2>5, <2>11, Zenon DEF RewriteToNewKey
        <3>2. \A n \in Nodes : /\ file[n] # Missing /\ Head(file[n]) = h
                               /\ Running(n) /\ Head(loaded[n]) = IF flag[n] THEN h ELSE 0
            <4>1. Head(<<h, a, 0>>) = h /\ <<h, a, 0>> # Missing /\ Head(<<0>>) = 0 /\ <<0>> # Missing
                BY Tuples, Zenon
            <4>2. \A n \in Nodes : file[n] = <<h, a, 0>>
                BY <3>1, Zenon DEF All
            <4>3. \A n \in Nodes : loaded[n] = IF flag[n] THEN <<h, a, 0>> ELSE <<0>>
                BY <3>1, <4>2, Zenon DEF Fresh, AtStart, Identity
            <4> QED BY <4>1, <4>2, <4>3, Zenon DEF Running
        <3>3. UsedIn({0, h})
            BY <3>1, <3>2, Zenon DEF UsedIn
        <3>4. NoKill => \A n \in Nodes : Running(n) /\ Head(loaded[n]) = h
            BY <3>1, <3>2, Zenon DEF FlagsSet
        <3>5. DropOldKey'
            BY <1>0, <2>2, <2>4, <2>5, <3>1, <3>2, <3>3, <3>4, Zenon DEF DropOldKey, Running
        <3>6. In("uploadWithoutOldKey", 2)'
            BY <1>0, <2>1, <2>11, NextTask, Zenon
        <3> QED BY <3>5, <3>6, Zenon DEF Stage
    <2>12. CASE In("uploadWithoutOldKey", 2) /\ DropOldKey
        <3>1. PICK h \in Key :
                /\ \A n \in Nodes : file[n] = <<h, 0>>
                /\ NoKill => /\ FlagsSet
                             /\ \A s \in Secrets : secret[s] = h
                             /\ \A n \in Nodes : Running(n) /\ Head(loaded[n]) = h
            BY <1>0, <1>2, <2>5, <2>12, Zenon DEF DropOldKey
        <3>2. NoKill => want' = (h # 0) /\ Settling(h)'
            BY <1>0, <2>5, <2>6, <3>1, Zenon DEF Settling, FlagsSet, FileOf, Running, TypeOK
        <3>3. LastRestart'
            BY <2>4, <2>6, <3>2, Zenon DEF LastRestart
        <3>4. In("restart", 1)'
            BY <1>0, <2>1, <2>12, NextTask, Zenon
        <3> QED BY <3>3, <3>4, Zenon DEF Stage
    <2>13. CASE In("restart", 1) /\ LastRestart
        <3>1. tasks' = <<>>
            BY <2>2, <2>13, Zenon DEF In
        <3>2. \A k : Settling(k) => Steady(k)
            BY <2>5, Zenon DEF Settling, Steady
        <3>3. NoKill => \E k \in 0..MaxKey : want' = (k # 0) /\ Steady(k)'
            BY <1>0, <2>4, <2>13, <3>2, Zenon DEF LastRestart
        <3> QED BY <2>4, <3>1, <3>3, Zenon DEF Rest
    <2>14. CASE In("uploadIdentityFirst", 9) /\ IdentityFirst
        <3>1. ToDisable /\ \E k \in Key : All(<<0, k>>) /\ UsedIn({0, k})
            BY <1>0, <1>2, <2>5, <2>14, Zenon DEF IdentityFirst, All
        <3>2. LoadIdentity'
            BY <1>0, <2>4, <2>5, <3>1, Zenon DEF LoadIdentity, ToDisable
        <3>3. In("restart", 8)'
            BY <1>0, <2>1, <2>14, NextTask, Zenon
        <3> QED BY <3>2, <3>3, Zenon DEF Stage
    <2>15. CASE In("restart", 8) /\ LoadIdentity
        <3>1. RewriteToIdentity'
            BY <1>0, <2>2, <2>4, <2>5, <2>15, Zenon DEF LoadIdentity, RewriteToIdentity, ToDisable
        <3>2. In("rewrite", 7)'
            BY <1>0, <2>1, <2>15, NextTask, Zenon
        <3> QED BY <3>1, <3>2, Zenon DEF Stage
    <2>16. CASE In("rewrite", 7) /\ RewriteToIdentity
        <3>1. PICK k \in Key : All(<<0, k>>)
            BY <2>16, Zenon DEF RewriteToIdentity
        <3>2. \A n \in Nodes : Running(n) => Head(loaded[n]) = 0
            BY <2>16, <3>1, Tuples DEF RewriteToIdentity, Fresh, AtStart, All, Identity
        <3>3. \A s \in Secrets : secret[s] = 0
            BY <1>0, <2>5, <2>16, Zenon DEF RewriteToIdentity
        <3>4. UsedIn({0})
            BY <3>2, <3>3, Zenon DEF UsedIn
        <3>5. RemoveFiles'
            BY <1>0, <2>4, <2>5, <2>16, <3>1, <3>4, Zenon DEF RemoveFiles, RewriteToIdentity, ToDisable, All
        <3>6. In("removeFile", 6)'
            BY <1>0, <2>1, <2>16, NextTask, Zenon
        <3> QED BY <3>5, <3>6, Zenon DEF Stage
    <2>17. CASE In("removeFile", 6) /\ RemoveFiles
        <3>1. ~want /\ Disabled
            BY <1>2, <2>5, <2>17, Zenon DEF RemoveFiles, ToDisable, Disabled, All
        <3>2. UpgradeProbes'
            BY <1>0, <2>4, <3>1, Zenon DEF UpgradeProbes
        <3>3. In("probes", 5)'
            BY <1>0, <2>1, <2>17, NextTask, Zenon
        <3> QED BY <3>2, <3>3, Zenon DEF Stage
    <2>18. AsWanted => AsWanted'
        BY <1>0, <2>4, Zenon DEF AsWanted
    <2>19. CASE In("uploadFiles", 3) /\ UpgradeUploads
        <3>1. In("upgrade", 2)'
            BY <1>0, <2>1, <2>19, NextTask, Zenon
        <3> QED BY <2>18, <2>19, <3>1, Zenon DEF UpgradeUploads, Stage
    <2>20. CASE In("upgrade", 2) /\ AsWanted
        <3>1. \A k : Steady(k) => Settling(k)'
            <4>1. \A k : LoadOf(k) # Missing /\ Head(LoadOf(k)) = k
                BY Tuples, Zenon DEF LoadOf
            <4> QED BY <1>0, <4>1, Zenon DEF Steady, Settling, Running
        <3>2. LastRestart'
            BY <1>0, <2>4, <2>20, <3>1, Zenon DEF AsWanted, LastRestart
        <3>3. In("restart", 1)'
            BY <1>0, <2>1, <2>20, NextTask, Zenon
        <3> QED BY <3>2, <3>3, Zenon DEF Stage
    <2>21. CASE In("uploadFiles", 4) /\ EnableUploads
        <3>1. want /\ (\E k \in Key : All(<<k, 0>>)) /\ \A n \in Nodes : ~flag[n]
            BY <1>2, <2>5, <2>21, Zenon DEF EnableUploads, ToEnable, Detected, All
        <3>2. \A k : UsedIn({0, k})
            BY <1>0, <3>1, Zenon DEF ClusterInv, Detected, UsedIn
        <3>3. EnableUpgrades'
            BY <1>0, <2>4, <2>5, <3>1, <3>2, Zenon DEF EnableUpgrades
        <3>4. In("upgrade", 3)'
            BY <1>0, <2>1, <2>21, NextTask, Zenon
        <3> QED BY <3>3, <3>4, Zenon DEF Stage
    <2>22. CASE In("upgrade", 3) /\ EnableUpgrades
        <3>1. EnableRewrites'
            BY <1>0, <2>2, <2>4, <2>5, <2>22, ZenonT(30) DEF EnableUpgrades, EnableRewrites, All
        <3>2. In("restart", 2)'
            BY <1>0, <2>1, <2>22, NextTask, Zenon
        <3> QED BY <3>1, <3>2, Zenon DEF Stage
    <2>23. CASE In("restart", 2) /\ EnableRewrites
        <3>1. EnableRewrites'
            BY <1>0, <2>2, <2>4, <2>23, Zenon DEF EnableRewrites
        <3>2. In("rewrite", 1)'
            BY <1>0, <2>1, <2>23, NextTask, Zenon
        <3> QED BY <3>1, <3>2, Zenon DEF Stage
    <2>24. CASE In("rewrite", 1) /\ EnableRewrites
        <3>1. tasks' = <<>> /\ Task = "rewrite"
            BY <2>2, <2>24, Zenon DEF In, At
        <3>2. PICK k \in Key :
                /\ \A n \in Nodes : file[n] = <<k, 0>> /\ loaded[n] = <<k, 0>>
                /\ \A s \in Secrets : secret[s] = k
            BY <1>0, <2>5, <2>24, <3>1, Zenon DEF EnableRewrites
        <3>3. Steady(k)' /\ want' = (k # 0)
            BY <1>0, <2>6, <2>24, <3>2, Zenon DEF EnableRewrites, Steady, FileOf, LoadOf, TypeOK
        <3> QED BY <2>6, <3>1, <3>3, Zenon DEF Rest
    <2> QED
        <3>1. \A l : ~In("probes", l) /\ ~In("fetch", l) /\ ~In("generateFiles", l)
            BY <2>8, Zenon DEF In, At
        <3> QED BY <1>0, <2>9, <2>10, <2>11, <2>12, <2>13, <2>14, <2>15, <2>16, <2>17, <2>19,
                   <2>20, <2>21, <2>22, <2>23, <2>24, <3>1, Zenon DEF Stage
<1> QED BY <1>1, <1>2, Zenon

----------------------------------------------------------------------------
(* What the tasks do on one node, or to one Secret.                        *)

(* A command fails on a node: the task will be retried, and claims nothing *)
(* of the nodes it has visited.                                            *)
LEMMA NodeFailsStep ==
    ASSUME Careful, Inv, world' = world, NEW n \in Nodes, NodeFails(n)
    PROVE  Inv'
<1>0. /\ TypeOK /\ ClusterInv /\ InList /\ ControlInv /\ tasks # <<>> /\ Stage
      /\ entered /\ n \in todo /\ "command" \in world /\ Task # "upgrade"
      /\ IF Task = "restart" THEN Retry
         ELSE todo' = todo \ {n} /\ failed' = TRUE /\ UNCHANGED <<tasks, entered, outcome>>
      /\ UNCHANGED <<file, flag, loaded, secret, nextKey, want, live, leader, conf, world>>
    BY Zenon DEF Inv, Rest, NodeFails, Visiting, cluster
<1>1. Task # "rewrite" /\ "restart" \notin world
    BY <1>0, ClusterAssumption DEF ControlInv, Careful, TypeOK
<1>2. CASE Task = "restart"
    BY <1>0, <1>1, <1>2, RetryStep, Zenon
<1>3. CASE Task # "restart"
    <2>1. todo' = todo \ {n} /\ failed' = TRUE /\ UNCHANGED <<tasks, entered, outcome>>
        BY <1>0, <1>3, Zenon
    <2>2. InList' /\ ControlInv' /\ \A t, l : In(t, l)' <=> In(t, l)
        BY <1>0, <2>1, TodoControl, Zenon
    <2>3. TypeOK'
        BY <1>0, <2>1, Zenon DEF TypeOK
    <2>4. /\ ClusterInv'
          /\ \A c : All(c)' <=> All(c)
          /\ \A k : Steady(k)' <=> Steady(k)
          /\ \A K : UsedIn(K)' <=> UsedIn(K)
          /\ Detected' = Detected /\ (NoKill' <=> NoKill)
        BY <1>0, SameCluster, Zenon
    <2>5. \/ In("uploadWithNewKey", 5) /\ AddKey
          \/ In("uploadWithoutOldKey", 2) /\ DropOldKey
          \/ In("uploadIdentityFirst", 9) /\ IdentityFirst
          \/ In("removeFile", 6) /\ RemoveFiles
          \/ In("uploadFiles", 3) /\ UpgradeUploads
          \/ In("uploadFiles", 4) /\ EnableUploads
        BY <1>0, <1>1, <1>3, Zenon DEF Stage, In, At, ControlInv
    <2>6. AddKey => AddKey'
        <3>1. \A a : InUse(a)' = InUse(a)
            BY <1>0, <2>1, Zenon DEF InUse
        <3>2. \A a : UsedIn(InUse(a)) => UsedIn(InUse(a))'
            BY <2>4, <3>1, Zenon
        <3>3. \A m : Providers(file[m])' = Providers(file[m])
            BY <1>0, Zenon DEF Providers
        <3>4. FlagsSet' <=> FlagsSet
            BY <1>0, Zenon DEF FlagsSet
        <3> QED BY <1>0, <2>1, <2>4, <3>1, <3>2, <3>3, <3>4, Zenon DEF AddKey
    <2>7. DropOldKey => DropOldKey'
        BY <1>0, <2>1, <2>4, Zenon DEF DropOldKey, FlagsSet, Running
    <2>8. IdentityFirst => IdentityFirst'
        BY <1>0, <2>1, <2>4, Zenon DEF IdentityFirst, ToDisable
    <2>9. RemoveFiles => RemoveFiles'
        BY <1>0, <2>1, <2>4, Zenon DEF RemoveFiles, ToDisable
    <2>10. UpgradeUploads => UpgradeUploads'
        BY <1>0, <2>4, Zenon DEF UpgradeUploads, AsWanted
    <2>11. EnableUploads => EnableUploads'
        BY <1>0, <2>1, <2>4, Zenon DEF EnableUploads, ToEnable
    <2>12. Stage'
        BY <2>2, <2>5, <2>6, <2>7, <2>8, <2>9, <2>10, <2>11, Zenon DEF Stage
    <2> QED BY <2>2, <2>3, <2>4, <2>12, Zenon DEF Inv
<1> QED BY <1>2, <1>3, Zenon

(* A file is replaced, or removed, when no key that is in use is missing   *)
(* in the new one.                                                         *)
LEMMA NewFile ==
    ASSUME TypeOK, ClusterInv, NEW n \in Nodes, NEW c, Shaped(c), UsedIn({0} \cup Providers(c)),
           file' = [file EXCEPT ![n] = c], UNCHANGED <<flag, loaded, secret, world>>
    PROVE  /\ file' \in [Nodes -> Configs] /\ ClusterInv'
           /\ file'[n] = c /\ \A m \in Nodes : m # n => file'[m] = file[m]
           /\ \A K : UsedIn(K)' <=> UsedIn(K)
           /\ Detected' = Detected /\ (NoKill' <=> NoKill)
<1>1. c \in Configs
    BY HeadOfShaped, Zenon
<1>2. /\ file' \in [Nodes -> Configs]
      /\ file'[n] = c /\ \A m \in Nodes : m # n => file'[m] = file[m]
    BY <1>1, Zenon DEF TypeOK
<1>3. /\ \A K : UsedIn(K)' <=> UsedIn(K)
      /\ Detected' = Detected /\ (NoKill' <=> NoKill) /\ \A k : Used(k)' <=> Used(k)
    BY Zenon DEF UsedIn, Used, Running, Detected, NoKill
<1>4. Covered'
    <2>1. ASSUME NEW k \in Key, Used(k) PROVE \E m \in Nodes : k \in Providers(file'[m])
        <3>1. k \in {0} \cup Providers(c) /\ k # 0
            BY <2>1, UsedKeys, ClusterAssumption DEF Key
        <3> QED BY <1>2, <3>1, Zenon
    <2> QED BY <1>3, <2>1, Zenon DEF Covered, Providers
<1>5. \A m \in Nodes : Shaped(file'[m])
    BY <1>2, Zenon DEF ClusterInv
<1>6. ClusterInv'
    BY <1>3, <1>4, <1>5, Zenon DEF ClusterInv, Shaped
<1> QED BY <1>2, <1>3, <1>6, Zenon

(* A configuration is uploaded to a node.                                  *)
LEMMA PushStep ==
    ASSUME Inv, world' = world, NEW n \in Nodes, pushEncryptionConfigurationOnNode(n)
    PROVE  Inv'
<1>0. /\ TypeOK /\ ClusterInv /\ InList /\ ControlInv /\ tasks # <<>> /\ Stage
      /\ entered /\ n \in todo /\ Task \in Uploads /\ todo' = todo \ {n}
      /\ file' = [file EXCEPT ![n] = IF conf = Missing THEN @ ELSE conf]
      /\ UNCHANGED <<flag, loaded, secret, nextKey, want, live, leader, conf, tasks, entered, failed,
                     outcome, world>>
    BY Zenon DEF Inv, Rest, pushEncryptionConfigurationOnNode, Visiting, Visited
<1>1. InList' /\ ControlInv' /\ \A t, l : In(t, l)' <=> In(t, l)
    BY <1>0, TodoControl, Zenon
<1>2. Done' = Done \cup {n} /\ (FlagsSet' <=> FlagsSet)
    BY <1>0, Zenon DEF Done, FlagsSet
<1>3. \/ In("uploadWithNewKey", 5) /\ AddKey
      \/ In("uploadWithoutOldKey", 2) /\ DropOldKey
      \/ In("uploadIdentityFirst", 9) /\ IdentityFirst
      \/ In("uploadFiles", 3) /\ UpgradeUploads
      \/ In("uploadFiles", 4) /\ EnableUploads
    BY <1>0, Zenon DEF Stage, In, At, Uploads
<1>4. ASSUME Shaped(conf), conf # Missing, UsedIn({0} \cup Providers(conf))
      PROVE  /\ TypeOK' /\ ClusterInv'
             /\ file'[n] = conf /\ \A m \in Nodes : m # n => file'[m] = file[m]
             /\ \A K : UsedIn(K)' <=> UsedIn(K)
             /\ Detected' = Detected /\ (NoKill' <=> NoKill)
    <2>1. file' = [file EXCEPT ![n] = conf]
        BY <1>0, <1>4, Zenon
    <2>2. /\ file' \in [Nodes -> Configs] /\ ClusterInv'
          /\ file'[n] = conf /\ \A m \in Nodes : m # n => file'[m] = file[m]
          /\ \A K : UsedIn(K)' <=> UsedIn(K)
          /\ Detected' = Detected /\ (NoKill' <=> NoKill)
        BY <1>0, <1>4, <2>1, NewFile, Zenon
    <2> QED BY <1>0, <2>2, Zenon DEF TypeOK
<1>5. CASE In("uploadWithNewKey", 5) /\ AddKey
    <2>1. PICK a \in Key :
            /\ live.config = <<a, 0>> \/ \E h \in Key : live.config = <<h, a, 0>>
            /\ conf = live.config /\ Len(conf) = 3
            /\ UsedIn(InUse(a))
            /\ \A m \in Nodes : a \in Providers(file[m])
            /\ "restart" \in world => \A m \in Nodes : Head(file[m]) \in InUse(a)
            /\ ~failed => \A m \in Done : file[m] = conf
            /\ NoKill => FlagsSet
        BY <1>0, <1>5, Zenon DEF AddKey
    <2>2. PICK h \in Key : conf = <<h, a, 0>>
        <3>1. Len(<<a, 0>>) = 2
            BY Tuples, Zenon
        <3> QED BY <1>0, <2>1, <3>1
    <2>3. Head(conf) = h /\ conf # Missing /\ Providers(conf) = {h, a, 0}
        BY <2>2, Tuples, Zenon
    <2>4. UsedIn({0} \cup Providers(conf))
        BY <2>1, <2>3, Zenon DEF UsedIn, InUse
    <2>5. /\ TypeOK' /\ ClusterInv'
          /\ file'[n] = conf /\ \A m \in Nodes : m # n => file'[m] = file[m]
          /\ \A K : UsedIn(K)' <=> UsedIn(K)
          /\ (NoKill' <=> NoKill)
        BY <1>4, <2>2, <2>3, <2>4, Zenon DEF Shaped
    <2>6. InUse(a)' = InUse(a)
        BY <1>0, Zenon DEF InUse
    <2>7. UsedIn(InUse(a))'
        BY <2>1, <2>5, <2>6, Zenon
    <2>8. \A m \in Nodes : a \in Providers(file'[m])
        BY <2>1, <2>3, <2>5, Zenon
    <2>9. "restart" \in world => \A m \in Nodes : Head(file'[m]) \in InUse(a)'
        <3>1. "restart" \in world => h \in InUse(a)
            BY <1>0, <2>3, Zenon DEF InUse
        <3> QED BY <2>1, <2>3, <2>5, <2>6, <3>1, Zenon
    <2>10. ~failed => \A m \in Done' : file'[m] = conf
        BY <1>2, <2>1, <2>5, Zenon DEF Done
    <2>11. AddKey'
        BY <1>0, <1>2, <2>1, <2>5, <2>7, <2>8, <2>9, <2>10, Zenon DEF AddKey
    <2> QED BY <1>1, <1>5, <2>5, <2>11, Zenon DEF Inv, Stage
<1>6. CASE In("uploadWithoutOldKey", 2) /\ DropOldKey
    <2>1. PICK h \in Key :
            /\ live.config = <<h, 0>> \/ \E a \in Key : live.config = <<h, a, 0>>
            /\ conf = <<h, 0>>
            /\ UsedIn({0, h})
            /\ \A m \in Nodes : file[m] # Missing /\ Head(file[m]) = h
            /\ ~failed => \A m \in Done : file[m] = conf
            /\ NoKill => /\ FlagsSet
                         /\ \A s \in Secrets : secret[s] = h
                         /\ \A m \in Nodes : Running(m) /\ Head(loaded[m]) = h
        BY <1>0, <1>6, Zenon DEF DropOldKey
    <2>2. Head(conf) = h /\ conf # Missing /\ {0} \cup Providers(conf) = {0, h}
        BY <2>1, Tuples, Zenon
    <2>3. /\ TypeOK' /\ ClusterInv'
          /\ file'[n] = conf /\ \A m \in Nodes : m # n => file'[m] = file[m]
          /\ \A K : UsedIn(K)' <=> UsedIn(K)
          /\ (NoKill' <=> NoKill)
        BY <1>4, <2>1, <2>2, Zenon DEF Shaped
    <2>4. ~failed => \A m \in Done' : file'[m] = conf
        BY <1>2, <2>1, <2>3, Zenon DEF Done
    <2>5. DropOldKey'
        <3>1. \A m \in Nodes : file'[m] # Missing /\ Head(file'[m]) = h
            BY <2>1, <2>2, <2>3, Zenon
        <3>2. UsedIn({0, h})' /\ (NoKill' => FlagsSet')
            BY <1>2, <2>1, <2>3, Zenon
        <3>3. NoKill' => /\ \A s \in Secrets : secret'[s] = h
                         /\ \A m \in Nodes : Running(m)' /\ Head(loaded'[m]) = h
            BY <1>0, <2>1, <2>3, Zenon DEF Running
        <3> QED BY <1>0, <2>1, <2>4, <3>1, <3>2, <3>3, Zenon DEF DropOldKey
    <2> QED BY <1>1, <1>6, <2>3, <2>5, Zenon DEF Inv, Stage
<1>7. CASE In("uploadIdentityFirst", 9) /\ IdentityFirst
    <2>1. PICK k \in Key :
            /\ live.config = <<k, 0>> /\ conf = <<0, k>>
            /\ UsedIn({0, k})
            /\ \A m \in Nodes : file[m] = <<k, 0>> \/ file[m] = <<0, k>>
            /\ ~failed => \A m \in Done : file[m] = <<0, k>>
        BY <1>0, <1>7, Zenon DEF IdentityFirst
    <2>2. conf # Missing /\ {0} \cup Providers(conf) = {0, k}
        BY <2>1, Tuples, Zenon
    <2>3. /\ TypeOK' /\ ClusterInv'
          /\ file'[n] = conf /\ \A m \in Nodes : m # n => file'[m] = file[m]
          /\ \A K : UsedIn(K)' <=> UsedIn(K)
          /\ Detected' = Detected
        BY <1>4, <2>1, <2>2, Zenon DEF Shaped
    <2>4. ~failed => \A m \in Done' : file'[m] = <<0, k>>
        BY <1>2, <2>1, <2>3, Zenon DEF Done
    <2>5. IdentityFirst'
        BY <1>0, <1>7, <2>1, <2>3, <2>4, Zenon DEF IdentityFirst, ToDisable
    <2> QED BY <1>1, <1>7, <2>3, <2>5, Zenon DEF Inv, Stage
<1>8. CASE In("uploadFiles", 3) /\ UpgradeUploads
    <2>1. conf = Missing
        BY <1>8, Zenon DEF UpgradeUploads
    <2>2. file' = file
        BY <1>0, <2>1, Zenon DEF TypeOK
    <2>3. /\ ClusterInv'
          /\ \A k : Steady(k)' <=> Steady(k)
          /\ Detected' = Detected /\ (NoKill' <=> NoKill)
        BY <1>0, <2>2, SameCluster, Zenon
    <2>4. TypeOK'
        BY <1>0, <2>2, Zenon DEF TypeOK
    <2>5. UpgradeUploads'
        BY <1>0, <1>8, <2>3, Zenon DEF UpgradeUploads, AsWanted
    <2> QED BY <1>1, <1>8, <2>3, <2>4, <2>5, Zenon DEF Inv, Stage
<1>9. CASE In("uploadFiles", 4) /\ EnableUploads
    <2>1. PICK k \in Key : conf = <<k, 0>>
        BY <1>9, Zenon DEF EnableUploads
    <2>2. conf # Missing /\ Shaped(conf)
        BY <2>1, Tuples, Zenon DEF Shaped
    <2>3. UsedIn({0} \cup Providers(conf))
        BY <1>0, <1>9, Zenon DEF ClusterInv, EnableUploads, ToEnable, UsedIn
    <2>4. /\ TypeOK' /\ ClusterInv'
          /\ file'[n] = conf /\ \A m \in Nodes : m # n => file'[m] = file[m]
          /\ Detected' = Detected
        BY <1>4, <2>2, <2>3, Zenon
    <2>5. EnableUploads'
        <3>1. ~failed => \A m \in Done' : file'[m] = conf
            BY <1>2, <1>9, <2>4, Zenon DEF EnableUploads, Done
        <3> QED BY <1>0, <1>9, <2>1, <2>4, <3>1, Zenon DEF EnableUploads, ToEnable
    <2> QED BY <1>1, <1>9, <2>4, <2>5, Zenon DEF Inv, Stage
<1> QED BY <1>3, <1>5, <1>6, <1>7, <1>8, <1>9, Zenon

(* A file is removed: every Secret is stored in plain text by then.        *)
LEMMA RemoveStep ==
    ASSUME Inv, world' = world, NEW n \in Nodes, removeEncryptionProviderFile(n)
    PROVE  Inv'
<1>0. /\ TypeOK /\ ClusterInv /\ InList /\ ControlInv /\ tasks # <<>> /\ Stage
      /\ entered /\ n \in todo /\ Task = "removeFile" /\ todo' = todo \ {n}
      /\ file' = [file EXCEPT ![n] = Missing]
      /\ UNCHANGED <<flag, loaded, secret, nextKey, want, live, leader, conf, tasks, entered, failed,
                     outcome, world>>
    BY Zenon DEF Inv, Rest, removeEncryptionProviderFile, Visiting, Visited
<1>1. InList' /\ ControlInv' /\ \A t, l : In(t, l)' <=> In(t, l)
    BY <1>0, TodoControl, Zenon
<1>2. Done' = Done \cup {n}
    BY <1>0, Zenon DEF Done
<1>3. In("removeFile", 6) /\ RemoveFiles
    BY <1>0, Zenon DEF Stage, In, At
<1>4. Shaped(Missing) /\ UsedIn({0} \cup Providers(Missing))
    BY <1>3, Zenon DEF Shaped, RemoveFiles, UsedIn
<1>5. /\ file' \in [Nodes -> Configs] /\ ClusterInv'
      /\ file'[n] = Missing /\ \A m \in Nodes : m # n => file'[m] = file[m]
      /\ \A K : UsedIn(K)' <=> UsedIn(K)
      /\ Detected' = Detected
    BY <1>0, <1>4, NewFile, Zenon
<1>6. TypeOK'
    BY <1>0, <1>5, Zenon DEF TypeOK
<1>7. RemoveFiles'
    <2>1. ~failed => \A m \in Done' : file'[m] = Missing
        <3>1. \A m \in Done : m \in Nodes
            BY Zenon DEF Done
        <3> QED BY <1>0, <1>2, <1>3, <1>5, <3>1, Zenon DEF RemoveFiles
    <2>2. \A m \in Nodes : file'[m] = Missing \/ \E k \in Key : file'[m] = <<0, k>>
        BY <1>3, <1>5, Zenon DEF RemoveFiles
    <2> QED BY <1>0, <1>3, <1>5, <2>1, <2>2, Zenon DEF RemoveFiles, ToDisable
<1> QED BY <1>1, <1>3, <1>5, <1>6, <1>7, Zenon DEF Inv, Stage

(* The restart script makes the API server of a node load its file.        *)
LEMMA RestartStep ==
    ASSUME Careful, Inv, world' = world, NEW n \in Nodes, restartKubeAPIServerCrictl(n)
    PROVE  Inv'
<1>0. /\ TypeOK /\ ClusterInv /\ InList /\ ControlInv /\ tasks # <<>> /\ Stage
      /\ entered /\ n \in todo /\ Task = "restart" /\ todo' = todo \ {n}
      /\ loaded' = [loaded EXCEPT ![n] = AtStart(n)]
      /\ UNCHANGED <<file, flag, secret, nextKey, want, live, leader, conf, tasks, entered, failed,
                     outcome, world>>
    BY Zenon DEF Inv, Rest, restartKubeAPIServerCrictl, Visiting, Visited, Careful
<1>1. InList' /\ ControlInv' /\ (\A t, l : In(t, l)' <=> In(t, l)) /\ Task' = Task
    BY <1>0, TodoControl, Zenon DEF Task
<1>2. Done' = Done \cup {n} /\ Done \subseteq Nodes /\ (FlagsSet' <=> FlagsSet)
    BY <1>0, Zenon DEF Done, FlagsSet
<1>3. /\ loaded' \in [Nodes -> Configs] /\ ClusterInv'
      /\ loaded'[n] = AtStart(n) /\ \A m \in Nodes : m # n => loaded'[m] = loaded[m]
      /\ Fresh(n)' /\ \A m \in Nodes : Fresh(m) => Fresh(m)'
      /\ \A c : All(c)' <=> All(c)
      /\ Detected' = Detected /\ (NoKill' <=> NoKill)
    BY <1>0, Reload, Zenon
<1>4. \A K : UsedIn(K) /\ 0 \in K /\ (file[n] # Missing => Head(file[n]) \in K) => UsedIn(K)'
    BY <1>0, Reload, Zenon
<1>5. TypeOK'
    BY <1>0, <1>3, Zenon DEF TypeOK
<1>6. \/ In("restart", 4) /\ LoadNewKey
      \/ In("restart", 1) /\ LastRestart
      \/ In("restart", 8) /\ LoadIdentity
      \/ In("restart", 2) /\ EnableRewrites
    BY <1>0, Zenon DEF Stage, In, At
<1>7. LoadNewKey => LoadNewKey'
    <2>1. \A k, a : All(<<k, a, 0>>) /\ UsedIn({0, k, a}) => UsedIn({0, k, a})'
        BY <1>4, Tuples, Zenon DEF All
    <2> QED BY <1>0, <1>2, <1>3, <2>1, Zenon DEF LoadNewKey
<1>8. LoadIdentity => LoadIdentity'
    <2>1. \A k : All(<<0, k>>) /\ UsedIn({0, k}) => UsedIn({0, k})'
        BY <1>4, Tuples, Zenon DEF All
    <2> QED BY <1>0, <1>2, <1>3, <2>1, Zenon DEF LoadIdentity, ToDisable
<1>9. LastRestart => LastRestart'
    <2>1. ASSUME NEW k, Settling(k) PROVE Settling(k)'
        <3>1. AtStart(n) = LoadOf(k)
            BY <2>1, Zenon DEF Settling, AtStart, FileOf, LoadOf, Identity
        <3>2. LoadOf(k) # Missing /\ Head(LoadOf(k)) = k
            BY Tuples, Zenon DEF LoadOf
        <3> QED BY <1>0, <1>2, <1>3, <2>1, <3>1, <3>2, Zenon DEF Settling, Running
    <2> QED BY <1>0, <1>3, <2>1, Zenon DEF LastRestart
<1>10. EnableRewrites => EnableRewrites'
    <2>1. \A k : All(<<k, 0>>) /\ UsedIn({0, k}) => UsedIn({0, k})'
        BY <1>4, Tuples, Zenon DEF All
    <2> QED BY <1>0, <1>1, <1>3, <2>1, Zenon DEF EnableRewrites, AtStart, All
<1> QED BY <1>1, <1>3, <1>5, <1>6, <1>7, <1>8, <1>9, <1>10, Zenon DEF Inv, Stage

(* kubeadm upgrade writes the manifest of a node as it is wanted.          *)
LEMMA UpgradeStep ==
    ASSUME Inv, world' = world, NEW n \in Nodes, UpgradeNode(n)
    PROVE  Inv'
<1>0. /\ TypeOK /\ ClusterInv /\ InList /\ ControlInv /\ tasks # <<>> /\ Stage
      /\ entered /\ n \in todo /\ Task = "upgrade" /\ todo' = todo \ {n}
      /\ flag' = [flag EXCEPT ![n] = want]
      /\ \/ loaded' = [loaded EXCEPT ![n] = IF want THEN file[n] ELSE <<0>>]
         \/ flag[n] = want /\ UNCHANGED loaded
      /\ UNCHANGED <<file, secret, nextKey, want, live, leader, conf, tasks, entered, failed,
                     outcome, world>>
    BY Zenon DEF Inv, Rest, UpgradeNode, Visiting, Visited, Identity
<1>1. InList' /\ ControlInv' /\ \A t, l : In(t, l)' <=> In(t, l)
    BY <1>0, TodoControl, Zenon
<1>2. Done' = Done \cup {n} /\ Done \subseteq Nodes /\ (NoKill' <=> NoKill)
      /\ \A c : All(c)' <=> All(c)
    BY <1>0, Zenon DEF Done, NoKill, All
<1>3. /\ flag' \in [Nodes -> BOOLEAN] /\ flag'[n] = want /\ want \in BOOLEAN
      /\ \A m \in Nodes : m # n => flag'[m] = flag[m]
    BY <1>0, Zenon DEF TypeOK
<1>4. <<0>> \in Configs /\ file[n] \in Configs
    <2>1. 0 \in 0..MaxKey
        BY ClusterAssumption
    <2> QED BY <1>0, <2>1, InConfigs, Zenon DEF TypeOK
<1>5. /\ loaded' \in [Nodes -> Configs]
      /\ \A m \in Nodes : m # n => loaded'[m] = loaded[m]
      /\ \/ loaded'[n] = IF want THEN file[n] ELSE <<0>>
         \/ flag[n] = want /\ loaded'[n] = loaded[n]
    BY <1>0, <1>4, Zenon DEF TypeOK
<1>6. TypeOK'
    BY <1>0, <1>3, <1>5, Zenon DEF TypeOK
<1>7. \/ In("upgrade", 2) /\ AsWanted
      \/ In("upgrade", 3) /\ EnableUpgrades
    BY <1>0, Zenon DEF Stage, In, At
<1>8. loaded'[n] \in {loaded[n], file[n], <<0>>}
    BY <1>5, Zenon
<1>9. Covered'
    <2>1. ASSUME NEW k \in Key, loaded'[n] = file[n], file[n] # Missing, Head(file[n]) = k
          PROVE  k \in Providers(file[n])
        BY <1>0, <2>1, HeadOfShaped, Zenon DEF ClusterInv
    <2>2. \A k \in Key : Head(<<0>>) # k
        BY Tuples, ClusterAssumption DEF Key
    <2>3. ASSUME NEW k \in Key, Used(k)' PROVE Used(k) \/ k \in Providers(file[n])
        BY <1>0, <1>5, <1>8, <2>1, <2>2, <2>3, Zenon DEF Used, Running
    <2>4. \A m : Providers(file[m])' = Providers(file[m])
        BY <1>0, Zenon DEF Providers
    <2> QED BY <1>0, <2>3, <2>4, Zenon DEF ClusterInv, Covered
<1>10. \A m \in Nodes : Shaped(file'[m]) /\ (Shaped(loaded'[m]) \/ loaded'[m] = <<0>>)
    BY <1>0, <1>5, <1>8, Zenon DEF ClusterInv
<1>11. CASE In("upgrade", 2) /\ AsWanted
    <2>1. Detected' = want
        BY <1>3, <1>11, Zenon DEF AsWanted, Detected
    <2>2. ~want => UsedIn({0})'
        <3>1. ~want => UsedIn({0})
            BY <1>0, <1>11, Zenon DEF AsWanted, ClusterInv
        <3>2. ~want => loaded'[n] = <<0>> \/ loaded'[n] = loaded[n]
            BY <1>5, Zenon
        <3> QED BY <1>0, <1>5, <3>1, <3>2, Tuples, Zenon DEF UsedIn, Running
    <2>3. ClusterInv'
        BY <1>9, <1>10, <2>1, <2>2, Zenon DEF ClusterInv, Shaped
    <2>4. ASSUME NEW k, want = (k # 0), Steady(k) PROVE Steady(k)'
        <3>1. loaded'[n] = LoadOf(k)
            BY <1>5, <2>4, Zenon DEF Steady, FileOf, LoadOf
        <3> QED BY <1>0, <1>3, <1>5, <2>4, <3>1, Zenon DEF Steady
    <2>5. AsWanted'
        BY <1>0, <1>2, <1>11, <2>1, <2>4, Zenon DEF AsWanted
    <2> QED BY <1>1, <1>6, <1>11, <2>3, <2>5, Zenon DEF Inv, Stage
<1>12. CASE In("upgrade", 3) /\ EnableUpgrades
    <2>1. PICK k \in Key : All(<<k, 0>>) /\ UsedIn({0, k})
        BY <1>12, Zenon DEF EnableUpgrades
    <2>2. want /\ loaded'[n] = file[n] /\ file[n] = <<k, 0>>
        BY <1>3, <1>5, <1>12, <2>1, Zenon DEF EnableUpgrades, All
    <2>3. Detected'
        BY <1>3, <2>2, Zenon DEF Detected
    <2>4. ClusterInv'
        BY <1>9, <1>10, <2>3, Zenon DEF ClusterInv, Shaped
    <2>5. UsedIn({0, k})'
        <3>1. Head(loaded'[n]) = k
            BY <2>2, Tuples, Zenon
        <3>2. \A m \in Nodes : loaded'[m] # Missing => Head(loaded'[m]) \in {0, k}
            BY <1>5, <2>1, <3>1, Zenon DEF UsedIn, Running
        <3> QED BY <1>0, <2>1, <3>2, Zenon DEF UsedIn, Running
    <2>6. EnableUpgrades'
        BY <1>0, <1>2, <1>3, <1>5, <1>12, <2>1, <2>2, <2>5, Zenon DEF EnableUpgrades
    <2> QED BY <1>1, <1>6, <1>12, <2>4, <2>6, Zenon DEF Inv, Stage
<1> QED BY <1>7, <1>11, <1>12, Zenon

(* A Secret is read and written back: it is stored with the provider of an *)
(* API server that can read it.                                            *)
LEMMA RewriteSecretStep ==
    ASSUME Inv, world' = world, NEW s \in Secrets, rewriteSecret(s)
    PROVE  Inv'
<1>1. PICK m \in Nodes : Readable(s, m) /\ secret' = [secret EXCEPT ![s] = Head(loaded[m])]
    BY Zenon DEF rewriteSecret
<1>2. Running(m)
    <2>1. Providers(Missing) = {}
        BY DEF Providers, Missing
    <2> QED BY <1>1, <2>1, Zenon DEF Readable, Running
<1>0. /\ TypeOK /\ ClusterInv /\ InList /\ ControlInv /\ tasks # <<>> /\ Stage
      /\ entered /\ s \in todo /\ Task = "rewrite" /\ todo' = todo \ {s}
      /\ UNCHANGED <<file, flag, loaded, nextKey, want, live, leader, conf, tasks, entered, failed,
                     outcome, world>>
    BY Zenon DEF Inv, Rest, rewriteSecret, At, Visiting, Visited
<1> DEFINE h == Head(loaded[m])
<1>3. h \in 0..MaxKey
    BY <1>0, <1>2, HeadLoaded, Zenon
<1>4. secret'[s] = h /\ \A t \in Secrets : t # s => secret'[t] = secret[t]
    BY <1>0, <1>1, Zenon DEF TypeOK
<1>5. TypeOK'
    BY <1>0, <1>1, <1>3, Zenon DEF TypeOK
<1>6. \A K : UsedIn(K) => UsedIn(K)'
    BY <1>0, <1>2, <1>4, Zenon DEF UsedIn, Running
<1>7. /\ \A c : All(c)' <=> All(c)
      /\ \A n \in Nodes : Fresh(n)' <=> Fresh(n)
      /\ Detected' = Detected /\ (NoKill' <=> NoKill) /\ (FlagsSet' <=> FlagsSet) /\ Task' = Task
    BY <1>0, Zenon DEF All, Fresh, AtStart, Detected, NoKill, FlagsSet, Task
<1>8. ClusterInv'
    <2>1. \A k : Used(k)' => Used(k)
        BY <1>0, <1>2, <1>4, Zenon DEF Used, Running
    <2>2. Covered'
        <3>1. \A n : Providers(file[n])' = Providers(file[n])
            BY <1>0, Zenon DEF Providers
        <3> QED BY <1>0, <2>1, <3>1, Zenon DEF ClusterInv, Covered
    <2> QED BY <1>0, <1>6, <1>7, <2>2, Zenon DEF ClusterInv, Shaped
<1>9. InList' /\ ControlInv' /\ \A t, l : In(t, l)' <=> In(t, l)
    BY <1>0, TodoControl, Zenon
<1>10. \/ In("rewrite", 3) /\ RewriteToNewKey
       \/ In("rewrite", 7) /\ RewriteToIdentity
       \/ In("rewrite", 1) /\ EnableRewrites
    BY <1>0, Zenon DEF Stage, In, At
<1>11. RewriteToNewKey => RewriteToNewKey'
    <2>1. SUFFICES ASSUME RewriteToNewKey PROVE RewriteToNewKey'
        BY Zenon
    <2>2. PICK k \in Key, a \in Key :
            /\ live.config = <<k, a, 0>> /\ All(<<k, a, 0>>)
            /\ UsedIn({0, k, a})
            /\ \A n \in Nodes : Fresh(n)
            /\ entered => \A t \in Secrets \ todo : secret[t] \in {0, k} /\ (NoKill => secret[t] = k)
            /\ NoKill => FlagsSet
        BY <2>1, Zenon DEF RewriteToNewKey
    <2>3. h = IF flag[m] THEN k ELSE 0
        BY <2>2, Tuples DEF Fresh, AtStart, All, Identity
    <2>4. secret'[s] \in {0, k} /\ (NoKill => secret'[s] = k)
        BY <1>4, <2>2, <2>3, Zenon DEF FlagsSet
    <2>5. \A t \in Secrets \ todo' : secret'[t] \in {0, k} /\ (NoKill => secret'[t] = k)
        BY <1>0, <1>4, <2>2, <2>4, Zenon
    <2> QED BY <1>0, <1>6, <1>7, <2>2, <2>5, Zenon DEF RewriteToNewKey
<1>12. RewriteToIdentity => RewriteToIdentity'
    <2>1. SUFFICES ASSUME RewriteToIdentity PROVE RewriteToIdentity'
        BY Zenon
    <2>2. h = 0
        BY <2>1, Tuples, Zenon DEF RewriteToIdentity, Fresh, AtStart, All, Identity
    <2>3. \A t \in Secrets \ todo' : secret'[t] = 0
        BY <1>0, <1>4, <2>1, <2>2, Zenon DEF RewriteToIdentity
    <2> QED BY <1>0, <1>6, <1>7, <2>1, <2>3, Zenon DEF RewriteToIdentity, ToDisable
<1>13. EnableRewrites => EnableRewrites'
    <2>1. SUFFICES ASSUME EnableRewrites PROVE EnableRewrites'
        BY Zenon
    <2>2. PICK k \in Key :
            /\ \A n \in Nodes : file[n] = <<k, 0>> /\ loaded[n] = <<k, 0>>
            /\ UsedIn({0, k})
            /\ Task = "rewrite" /\ entered => \A t \in Secrets \ todo : secret[t] = k
        BY <2>1, Zenon DEF EnableRewrites
    <2>3. h = k
        BY <2>2, Tuples, Zenon
    <2>4. \A t \in Secrets \ todo' : secret'[t] = k
        BY <1>0, <1>4, <2>2, <2>3, Zenon
    <2> QED BY <1>0, <1>6, <1>7, <2>1, <2>2, <2>4, Zenon DEF EnableRewrites
<1> QED BY <1>5, <1>8, <1>9, <1>10, <1>11, <1>12, <1>13, Zenon DEF Inv, Stage

----------------------------------------------------------------------------
(* The invariant holds in every state of a careful specification.          *)

(* A cluster that was just installed is at rest without encryption.        *)
LEMMA InitInv == Init => Inv
<1> SUFFICES ASSUME Init PROVE Inv
    BY Zenon
<1>1. 0 \in 0..MaxKey /\ 1 \in 1..MaxKey + 1 /\ \A k \in Key : k # 0
    BY ClusterAssumption DEF Key
<1>2. Missing \in Configs /\ <<0>> \in Configs
    BY <1>1, InConfigs, Zenon
<1>3. TypeOK
    BY <1>1, <1>2, Zenon DEF Init, TypeOK, Identity
<1>4. Steady(0)
    BY Zenon DEF Init, Steady, FileOf, LoadOf, Identity
<1>5. UsedIn({0})
    BY Tuples, Zenon DEF Init, UsedIn, Running, Identity
<1>6. Covered
    <2>1. \A k \in Key : ~Used(k)
        BY <1>1, <1>5, UsedKeys
    <2> QED BY <2>1, Zenon DEF Covered
<1>7. ClusterInv
    BY <1>5, <1>6, Zenon DEF ClusterInv, Init, Shaped, Identity
<1>8. InList
    <2>1. <<>> = SubSeq(RotateList, 8, 7) /\ Len(RotateList) = 7 /\ 8 \in 1..7 + 1
        BY ListsAreSequences, SubSeqEmpty
    <2>2. tasks = <<>>
        BY Zenon DEF Init
    <2>3. \E i \in 1..Len(RotateList) + 1 : tasks = SubSeq(RotateList, i, Len(RotateList))
        BY <2>1, <2>2, Zenon
    <2> QED BY <2>3, Zenon DEF InList
<1>9. ControlInv
    BY Zenon DEF Init, ControlInv
<1>10. Rest
    BY <1>1, <1>4, Zenon DEF Init, Rest
<1> QED BY <1>3, <1>7, <1>8, <1>9, <1>10, Zenon DEF Inv

(* A step that changes nothing.                                            *)
LEMMA StutterStep ==
    ASSUME Inv, UNCHANGED vars
    PROVE  Inv'
<1>0. /\ UNCHANGED <<file, flag, loaded, secret, nextKey, want, live, leader, conf, tasks, entered>>
      /\ UNCHANGED <<todo, failed, outcome, world>>
    BY Zenon DEF vars
<1>1. TypeOK' /\ InList' /\ ControlInv' /\ \A t, l : In(t, l)' <=> In(t, l)
    BY <1>0, Zenon DEF Inv, TypeOK, InList, ControlInv, In, At, Task
<1>2. ClusterInv'
    BY <1>0, SameCluster, Zenon DEF Inv
<1>3. Rest => Rest'
    BY <1>0, SameCluster, Zenon DEF Rest
<1>4. /\ Done' = Done /\ (FlagsSet' <=> FlagsSet) /\ (\A a : InUse(a)' = InUse(a)) /\ Task' = Task
      /\ \A k : Settling(k)' <=> Settling(k)
    <2>1. Done' = Done
        BY <1>0, Zenon DEF Done
    <2>2. \A k : Settling(k)' <=> Settling(k)
        BY <1>0, <2>1, Zenon DEF Settling, FileOf, LoadOf, Running
    <2> QED BY <1>0, <2>1, <2>2, Zenon DEF FlagsSet, InUse, Task
<1>5. /\ \A c : All(c)' <=> All(c)
      /\ \A k : Steady(k)' <=> Steady(k)
      /\ \A K : UsedIn(K)' <=> UsedIn(K)
      /\ \A n \in Nodes : Fresh(n)' <=> Fresh(n)
      /\ Detected' = Detected /\ (Disabled' <=> Disabled) /\ (NoKill' <=> NoKill)
    BY <1>0, SameCluster, Zenon
<1>6. Stage => Stage'
    <2>0. Done \subseteq Nodes
        BY Zenon DEF Done
    <2>1. RotateStart => RotateStart'
        BY <1>0, <1>5, Zenon DEF RotateStart, OneKeyEach
    <2>2. AddKey => AddKey'
        <3>1. \A m : Providers(file[m])' = Providers(file[m])
            BY <1>0, Zenon DEF Providers
        <3>2. \A a : UsedIn(InUse(a))' <=> UsedIn(InUse(a))
            BY <1>4, <1>5, Zenon
        <3> QED BY <1>0, <1>4, <1>5, <3>1, <3>2, Zenon DEF AddKey
    <2>3. (LoadNewKey => LoadNewKey') /\ (RewriteToNewKey => RewriteToNewKey')
        BY <1>0, <1>4, <1>5, <2>0, Zenon DEF LoadNewKey, RewriteToNewKey
    <2>4. DropOldKey => DropOldKey'
        BY <1>0, <1>4, <1>5, Zenon DEF DropOldKey, Running
    <2>5. LastRestart => LastRestart'
        BY <1>0, <1>4, <1>5, Zenon DEF LastRestart
    <2>6. (DisableStart => DisableStart') /\ (IdentityFirst => IdentityFirst')
        BY <1>0, <1>4, <1>5, Zenon DEF DisableStart, IdentityFirst, ToDisable, OneKeyEach
    <2>7. /\ LoadIdentity => LoadIdentity'
          /\ RewriteToIdentity => RewriteToIdentity'
          /\ RemoveFiles => RemoveFiles'
        BY <1>0, <1>4, <1>5, <2>0, Zenon DEF LoadIdentity, RewriteToIdentity, RemoveFiles, ToDisable
    <2>8. AsWanted => AsWanted'
        BY <1>0, <1>5, Zenon DEF AsWanted
    <2>9. /\ UpgradeProbes => UpgradeProbes'
          /\ UpgradeGenerates => UpgradeGenerates'
          /\ UpgradeUploads => UpgradeUploads'
        BY <1>0, <1>5, <2>8, Zenon DEF UpgradeProbes, UpgradeGenerates, UpgradeUploads
    <2>10. /\ ToEnable => ToEnable'
           /\ EnableGenerates => EnableGenerates'
           /\ EnableUploads => EnableUploads'
        BY <1>0, <1>4, <1>5, Zenon DEF ToEnable, EnableGenerates, EnableUploads
    <2>11. (EnableUpgrades => EnableUpgrades') /\ (EnableRewrites => EnableRewrites')
        BY <1>0, <1>4, <1>5, Zenon DEF EnableUpgrades, EnableRewrites
    <2> QED BY <1>1, <2>1, <2>2, <2>3, <2>4, <2>5, <2>6, <2>7, <2>8, <2>9, <2>10, <2>11, Zenon DEF Stage
<1> QED BY <1>1, <1>2, <1>3, <1>6, Zenon DEF Inv

(* Every step keeps the invariant.                                         *)
LEMMA InvNext ==
    ASSUME Careful, Inv, [Next]_vars
    PROVE  Inv'
<1>1. CASE UNCHANGED vars
    BY <1>1, StutterStep, Zenon
<1>2. CASE Next
    <2>0. world' = world
        BY <1>2, Zenon DEF Next
    <2>1. ASSUME NEW w \in BOOLEAN, NEW rotate \in BOOLEAN, runApply(w, rotate) PROVE Inv'
        BY <2>0, <2>1, RunApplyStep, Zenon
    <2>2. CASE RunTask
        BY <2>0, <2>2, RunProbesStep, FetchStep, AddKeyStep, DropKeyStep, IdentityFirstStep,
           GenerateStep, EnterNodesStep, EndVisitsStep, ListSecretsStep, RewriteFailsStep, Zenon DEF RunTask
    <2>3. ASSUME NEW n \in Nodes, OnNode(n) PROVE Inv'
        BY <2>0, <2>3, PushStep, RemoveStep, RestartStep, UpgradeStep, NodeFailsStep, Zenon DEF OnNode
    <2>4. ASSUME NEW n \in Nodes, RestartOnItsOwn(n) PROVE Inv'
        BY <2>0, <2>4, RestartOnItsOwnStep, Zenon
    <2>5. ASSUME NEW s \in Secrets, rewriteSecret(s) PROVE Inv'
        BY <2>0, <2>5, RewriteSecretStep, Zenon
    <2>6. ASSUME NEW s \in Secrets, NEW n \in Nodes, WriteSecret(s, n) PROVE Inv'
        BY <2>0, <2>6, WriteSecretStep, Zenon
    <2>7. CASE Killed
        BY <2>0, <2>7, KilledStep, Zenon
    <2> QED BY <1>2, <2>1, <2>2, <2>3, <2>4, <2>5, <2>6, <2>7, Zenon DEF Next
<1> QED BY <1>1, <1>2, Zenon

----------------------------------------------------------------------------
(* What the invariant says of the Secrets.                                 *)

(* A Secret that is stored encrypted has its key in the file of some node. *)
LEMMA KeySomewhere ==
    ASSUME Inv, NEW s \in Secrets, secret[s] # Identity
    PROVE  \E n \in Nodes : secret[s] \in Providers(file[n])
<1>1. secret[s] \in Key
    BY ClusterAssumption DEF Inv, TypeOK, Key, Identity
<1>2. Used(secret[s])
    BY Zenon DEF Used
<1> QED BY <1>1, <1>2, Zenon DEF Inv, ClusterInv, Covered

(* It has it in every file as long as only commands fail: at each task the *)
(* keys in use are in all files.                                           *)
LEMMA KeyEverywhere ==
    ASSUME Inv, NEW s \in Secrets, secret[s] # Identity, world \subseteq {"command"},
           NEW n \in Nodes
    PROVE  secret[s] \in Providers(file[n])
<1>0. NoKill /\ "restart" \notin world /\ secret[s] # 0
    BY Zenon DEF NoKill, Identity
<1>1. ~UsedIn({0})
    BY <1>0, Zenon DEF UsedIn
<1>2. ASSUME NEW k \in 0..MaxKey, Steady(k) PROVE secret[s] \in Providers(file[n])
    BY <1>0, <1>2, Tuples, Zenon DEF Steady, FileOf
<1>3. ASSUME Rest PROVE secret[s] \in Providers(file[n])
    BY <1>0, <1>1, <1>2, <1>3, Zenon DEF Rest, Disabled
<1>4. ASSUME RotateStart \/ DisableStart PROVE secret[s] \in Providers(file[n])
    <2>1. \A k \in Key : k \in 0..MaxKey
        BY DEF Key
    <2> QED BY <1>0, <1>2, <1>4, <2>1, Zenon DEF RotateStart, DisableStart
<1>5. ASSUME AddKey PROVE secret[s] \in Providers(file[n])
    BY <1>0, <1>5, Zenon DEF AddKey, InUse, UsedIn
<1>6. ASSUME LoadNewKey \/ RewriteToNewKey PROVE secret[s] \in Providers(file[n])
    <2>1. PICK h \in Key, a \in Key : All(<<h, a, 0>>) /\ UsedIn({0, h, a})
        BY <1>6, Zenon DEF LoadNewKey, RewriteToNewKey
    <2>2. Providers(<<h, a, 0>>) = {h, a, 0}
        BY Tuples, Zenon
    <2> QED BY <1>0, <2>1, <2>2, Zenon DEF All, UsedIn
<1>7. ASSUME DropOldKey PROVE secret[s] \in Providers(file[n])
    <2>1. file[n] # Missing /\ Head(file[n]) = secret[s]
        BY <1>0, <1>7, Zenon DEF DropOldKey
    <2> QED BY <2>1, HeadOfShaped, Zenon DEF Inv, ClusterInv
<1>8. ASSUME LastRestart PROVE secret[s] \in Providers(file[n])
    BY <1>0, <1>8, Tuples, Zenon DEF LastRestart, Settling, FileOf
<1>9. ASSUME IdentityFirst PROVE secret[s] \in Providers(file[n])
    <2>1. PICK k \in Key : UsedIn({0, k}) /\ \A m \in Nodes : file[m] = <<k, 0>> \/ file[m] = <<0, k>>
        BY <1>0, <1>9, Zenon DEF IdentityFirst
    <2> QED BY <1>0, <2>1, Tuples, Zenon DEF UsedIn
<1>10. ASSUME LoadIdentity \/ RewriteToIdentity PROVE secret[s] \in Providers(file[n])
    <2>1. PICK k \in Key : All(<<0, k>>) /\ UsedIn({0, k})
        BY <1>10, Zenon DEF LoadIdentity, RewriteToIdentity
    <2> QED BY <1>0, <2>1, Tuples, Zenon DEF UsedIn, All
<1>11. ~RemoveFiles
    BY <1>1, Zenon DEF RemoveFiles
<1>12. ASSUME UpgradeProbes \/ UpgradeGenerates \/ UpgradeUploads \/ AsWanted
       PROVE  secret[s] \in Providers(file[n])
    BY <1>0, <1>1, <1>2, <1>12, Zenon
       DEF UpgradeProbes, UpgradeGenerates, UpgradeUploads, AsWanted, Disabled
<1>13. ~ToEnable /\ ~EnableGenerates /\ ~EnableUploads
    BY <1>1, Zenon DEF Inv, ClusterInv, ToEnable, EnableGenerates, EnableUploads
<1>14. ASSUME EnableUpgrades \/ EnableRewrites PROVE secret[s] \in Providers(file[n])
    <2>1. PICK k \in Key : file[n] = <<k, 0>> /\ UsedIn({0, k})
        BY <1>14, Zenon DEF EnableUpgrades, EnableRewrites, All
    <2> QED BY <1>0, <2>1, Tuples, Zenon DEF UsedIn
<1> QED BY <1>3, <1>4, <1>5, <1>6, <1>7, <1>8, <1>9, <1>10, <1>11, <1>12, <1>13, <1>14, Zenon
        DEF Inv, Stage

(* An apply that returned without an error left the cluster at rest.       *)
LEMMA RestIsConverged == Inv => Converged
<1> SUFFICES ASSUME Inv, outcome = "ok", NoKill, NEW n \in Nodes, NEW m \in Nodes
             PROVE  /\ file[n] = file[m] /\ Len(file[n]) <= 2
                    /\ flag[n] = want /\ loaded[n] = AtStart(n)
                    /\ (Head(loaded[n]) # Identity) = want
                    /\ \A s \in Secrets : secret[s] = Head(loaded[n])
    BY Zenon DEF Converged, NoKill
<1>1. tasks = <<>>
    BY Zenon DEF Inv, ControlInv
<1>2. PICK k \in 0..MaxKey : want = (k # 0) /\ Steady(k)
    BY <1>1, Zenon DEF Inv, Rest, Stage, In, At
<1>3. Head(LoadOf(k)) = k /\ Len(FileOf(k)) <= 2
    <2>1. Len(Missing) = 0
        BY Zenon DEF Missing
    <2> QED BY <2>1, Tuples DEF FileOf, LoadOf
<1>4. file[n] = FileOf(k) /\ file[m] = FileOf(k) /\ loaded[n] = LoadOf(k) /\ flag[n] = (k # 0)
    BY <1>2, Zenon DEF Steady
<1>5. loaded[n] = AtStart(n)
    BY <1>4, Zenon DEF AtStart, FileOf, LoadOf, Identity
<1>6. (Head(loaded[n]) # Identity) = want
    BY <1>2, <1>3, <1>4, Zenon DEF Identity
<1>7. \A s \in Secrets : secret[s] = Head(loaded[n])
    BY <1>2, <1>3, <1>4, Zenon DEF Steady
<1>8. flag[n] = want
    BY <1>2, <1>4, Zenon
<1> QED BY <1>3, <1>4, <1>5, <1>6, <1>7, <1>8, Zenon

----------------------------------------------------------------------------
(* The invariant of every reachable state.                                 *)
LEMMA SpecInv ==
    ASSUME Careful
    PROVE  Spec => []Inv
<1>1. Init => Inv
    BY InitInv, Zenon
<1>2. Inv /\ [Next]_vars => Inv'
    BY InvNext, Zenon
<1> QED BY <1>1, <1>2, PTL DEF Spec

(* No key is dropped while a Secret needs it, whatever the number of       *)
(* nodes, Secrets and keys, and whichever commands of the uploads, the     *)
(* restarts and the rewriting fail and are retried.                        *)
THEOREM NoKeyIsLost ==
    ASSUME Careful
    PROVE  Spec => []NoKeyLost
<1>1. Inv => NoKeyLost
    BY KeySomewhere, KeyEverywhere, Zenon DEF NoKeyLost
<1> QED BY <1>1, SpecInv, PTL

(* When kubeone apply was never interrupted and returned without an error, *)
(* every node has the same file, every API server has loaded it and every  *)
(* Secret is stored as the manifest asks for.                              *)
THEOREM EncryptionConverges ==
    ASSUME Careful
    PROVE  Spec => []Converged
BY RestIsConverged, SpecInv, PTL

(* The states are typed; a configuration lists two keys at most.           *)
THEOREM EncryptionTyped ==
    ASSUME Careful
    PROVE  Spec => []TypeOK
<1>1. Inv => TypeOK
    BY Zenon DEF Inv
<1> QED BY <1>1, SpecInv, PTL
=============================================================================
