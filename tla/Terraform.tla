----------------------------- MODULE Terraform -----------------------------
(* The Terraform output merged into a v1beta2 manifest (terraform/v1beta2 and *)
(* terraform/cloudspec).  An output is a record: endpoint, altNames, the      *)
(* control plane group with its cluster name, provider and leader, the static *)
(* worker groups by name and the dynamic worker sets by name.                 *)
EXTENDS Cluster

CONSTANTS
  ToLower,     \* strings.ToLower on the JSON keys in use
  SpecFields   \* JSON name of an upstream spec field -> is it a pointer?

(* A host of a group: the i-th entry of each list, the rest shared. *)
newHostConfig(pub, priv, i, g) ==
  LET nth(s, d) == IF i \in DOMAIN s THEN s[i] ELSE d
  IN  [id |-> 0, pub |-> pub, priv |-> priv, v6 |-> nth(g.v6, FALSE),
       hostname |-> nth(g.hostnames, ""), os |-> g.os, user |-> g.user,
       port |-> g.port, key |-> g.key, agent |-> g.agent,
       bastionPort |-> g.bastionPort, bastionUser |-> g.bastionUser,
       leader |-> FALSE, taints |-> Nil, labels |-> g.labels,
       kubelet |-> g.kubelet]

(* A private address defaults to the public one of the same index; a group    *)
(* with no public address at all consists of its private ones.                *)
hostsOf(g) ==
  IF g.pub # <<>>
  THEN [i \in DOMAIN g.pub |->
          newHostConfig(g.pub[i],
                        IF i \in DOMAIN g.priv THEN g.priv[i] ELSE g.pub[i], i, g)]
  ELSE [i \in DOMAIN g.priv |-> newHostConfig("", g.priv[i], i, g)]

(* idIncrementer is one closure for all groups: it numbers on from first. *)
numbered(hosts, first) == [i \in DOMAIN hosts |-> [hosts[i] EXCEPT !.id = first + i - 1]]

controlPlaneHosts(tf) ==
  LET mark(h) == [h EXCEPT
        !.leader = tf.leaderIP # "" /\ tf.leaderIP \in {h.pub, h.priv},
        !.taints = IF tf.untaint THEN {} ELSE @]
      hosts == numbered(hostsOf(tf.group), 0)
  IN  [i \in DOMAIN hosts |-> mark(hosts[i])]

staticWorkerHosts(tf) ==
  LET next(hosts, g) ==
        hosts \o numbered(hostsOf(g), Len(controlPlaneHosts(tf)) + Len(hosts))
  IN  FoldLeft(next, <<>>, tf.staticWorkers)

----------------------------------------------------------------------------
(* A cloud provider spec is a function from JSON keys to values; a value says *)
(* what isEmptyJSON looks at.                                                 *)

JSON == [null : BOOLEAN, zero : BOOLEAN, bool : BOOLEAN]

fieldIsPointer(key) ==
  IF key \in DOMAIN SpecFields THEN SpecFields[key]
  ELSE \E f \in DOMAIN SpecFields : ToLower[f] = ToLower[key] /\ SpecFields[f]

isEmptyJSON(value, pointer) ==
  value.null \/ (~pointer /\ value.zero /\ ~value.bool)

known(key) == \E f \in DOMAIN SpecFields : ToLower[f] = ToLower[key]

(* Keys the manifest has, in any casing, win; empty values are left out; a    *)
(* key the machine controller does not know is an error (Nil).                *)
Merge(existing, terraform) ==
  LET spec == OrPointer(existing, <<>>)
      taken == {ToLower[k] : k \in DOMAIN spec}
      add == {k \in DOMAIN terraform :
                /\ ToLower[k] \notin taken
                /\ ~isEmptyJSON(terraform[k], fieldIsPointer(k))}
  IN  IF \A k \in DOMAIN terraform : known(k)
      THEN spec @@ [k \in add |-> terraform[k]]
      ELSE Nil

(* KubeVirt and none have no machine controller spec to merge into. *)
Mergeable(c) == CloudProviderName(c) \notin {"", "kubevirt", "none"}

workersIn(c, name) == {i \in DOMAIN c.dynamicWorkers : c.dynamicWorkers[i].name = name}

mergeWorkers(c, workers) ==
  [c EXCEPT !.dynamicWorkers = [i \in DOMAIN @ |->
     IF @[i].name \in DOMAIN workers /\ i = Min(workersIn(c, @[i].name))
     THEN [@[i] EXCEPT !.spec = Merge(@, workers[c.dynamicWorkers[i].name].spec)]
     ELSE @[i]]]

(* The worker sets are visited in map order: new ones are appended in any     *)
(* order, ones the manifest has are merged, and any failed merge fails Apply. *)
applyWorkers(c, workers) ==
  LET have == {n \in DOMAIN workers : workersIn(c, n) # {}}
      merged == mergeWorkers(c, workers)
      failed == have # {} /\
        ( \/ ~Mergeable(c)
          \/ \E n \in have : merged.dynamicWorkers[Min(workersIn(c, n))].spec = Nil)
  IN  IF failed THEN {Nil}
      ELSE {[merged EXCEPT !.dynamicWorkers = @ \o [j \in DOMAIN order |->
               [workers[order[j]] EXCEPT !.name = order[j]]]] :
              order \in SetToSeqs(DOMAIN workers \ have)}

(* Apply: the endpoint, the names and the hosts of the output replace those   *)
(* of the manifest, the provider and the proxy are merged into it, the rest   *)
(* is added.                                                                  *)
Apply(c, tf) ==
  IF tf.provider # Nil /\ tf.provider \notin Providers \cup {"packet"} THEN {Nil}
  ELSE
    LET p == IF tf.provider = Nil THEN {}
             ELSE {IF tf.provider = "packet" THEN "equinixmetal" ELSE tf.provider}
        hosts == controlPlaneHosts(tf)
        name == OrString(tf.clusterName, c.name)
        provs == c.providers \cup p
        out == [c EXCEPT
          !.apiHost = OrString(tf.endpoint, @),
          !.altNames = IF tf.altNames # <<>> THEN tf.altNames ELSE @,
          !.providers = provs,
          !.cp = [q \in provs |-> IF q \in DOMAIN @ THEN @[q] ELSE Nil],
          !.name = name,
          !.hosts = IF hosts # <<>> THEN hosts ELSE @,
          !.workers = @ \o staticWorkerHosts(tf),
          !.http = OrString(@, tf.http), !.https = OrString(@, tf.https),
          !.noProxy = IF @ = <<>> THEN tf.noProxy ELSE @,
          !.networkID = IF "hetzner" \in provs THEN OrString(tf.networkID, @) ELSE @,
          !.vApp = IF "vmwareCloudDirector" \in provs THEN OrString(tf.vApp, name) ELSE @]
    IN  applyWorkers(out, tf.workers)

============================================================================
