# Verification of the Stackable operator for Apache Kafka

TLA+ modules, TLC runs and TLAPS proofs for the operator in `src/rust`. The operator is a
Kubernetes controller: it watches `KafkaCluster` objects and, for each, applies the objects
that make Kubernetes run the brokers. The project asks of it:

* **The control loop.** Does the cluster become what the spec says, and does the status say so,
  whatever changes, fails or restarts between two API calls of a run? (`KafkaReconcile`)
* **The brokers it configures.** Do clients and brokers get through to each other for every
  combination of security settings, while brokers of an older configuration are still running?
  (`KafkaSecurity`, `BrokerRollout`)
* **Several clusters.** Do clusters that live in one namespace, and clusters that are deleted and
  created again under the same name, stay off each other's objects? (`KafkaNamespace`)
* **Availability.** How many brokers do upgrades, drains and crashes cost at once, and do they end?
  (`BrokerFleet`)
* **One pod.** Is the broker shut down in good order wherever its script is when the signal comes?
  (`BrokerPod`)
* **Settings.** Does what the user says at role and role group level reach the broker, through two
  objects that are written one after the other? (`BrokerSettings`)

## The system

### Components

| Component | Source | State | Operations |
|---|---|---|---|
| reconcile loop | `operator-binary/src/kafka_controller.rs` | local to a run: `ClusterResources` (ids added), `bootstrap_listeners`, the StatefulSet conditions; nothing survives a run | `reconcile_kafka`: resolve, apply ServiceAccount and RoleBinding, per role group Listener, Service, ConfigMap, StatefulSet, PDB, then discovery, orphans, status; `error_policy` |
| controller wiring | `operator-binary/src/main.rs` | reflector store, deduplicating queue with one timer per cluster (kube-runtime) | watch events, requeue, restart |
| discovery | `operator-binary/src/discovery.rs` | the two discovery ConfigMaps | `build_discovery_configmaps`, fails on a missing port |
| security settings | `crd/src/security.rs` | `KafkaTlsSecurity`, immutable | ports, keystores in `server.properties`, volumes, JAAS, readiness probe |
| listener configuration | `crd/src/listener.rs` | none | `get_kafka_listener_config` |
| authentication | `crd/src/authentication.rs` | `ResolvedAuthenticationClasses` | resolve, validate |
| TLS defaults | `crd/src/tls.rs` | none | defaults, optional and empty values |
| Kerberos pod configuration | `operator-binary/src/kerberos.rs` | none | keytab volume with scopes, realm |
| broker pods | `kafka_controller.rs`, `crd/src/security.rs` | template, mounted configuration, process, readiness | start, register, probe, roll, die |
| namespace | `kafka_controller.rs`, `discovery.rs`, `crd/src/lib.rs` | names, owner references and labels of all objects | `object_name` and the other names, owner reference, orphans by label, deletion by the garbage collector |
| pod disruption budget | `operator-binary/src/operations/pdb.rs` | one PDB for the brokers of all role groups | `add_pdbs`, `max_unavailable_brokers` |
| product logging | `operator-binary/src/product_logging.rs` | none | aggregator address, logging configuration of a role group |
| graceful shutdown | `operator-binary/src/operations/graceful_shutdown.rs`, `crd/src/security.rs` | traps, shutdown file, grace period | script of the kafka container |
| custom resource, merged configuration | `crd/src/lib.rs` | spec and status of `KafkaCluster` | merge of defaults, role and role group, overrides, computed properties |
| affinity, authorization, utils | `crd/src/affinity.rs`, `crd/src/authorization.rs`, `operator-binary/src/utils.rs` | none | defaults, OPA reference, labels |
| deployment, docs, tests | `src/deploy`, `src/docs`, `src/tests` | none | read for what they say of the program |

### How they interact

The operator never talks to a broker. Everything goes through objects in the API server:

```
 user --edits--> KafkaCluster --watch--> reflector, queue --> reconcile_kafka
                      ^                       ^                    | server-side apply
                      | status                | watch (not PDBs)   v
                      +------ reconcile_kafka +---- Listener, Service, ConfigMap, StatefulSet, ...
                                                        |              |
                                    listener-operator writes       StatefulSet controller makes pods;
                                    addresses into its status      a broker reads the ConfigMap at start
```

The addresses of the Listeners come back into the run (they are captured when the Listener is
applied and used later for the discovery ConfigMaps), and so does the readiness of the
StatefulSets (captured at the apply, used for the status).

### What is hard

`PROJECT.json` lists the hazards with their lines. In short:

* a run is some fifteen API calls over one snapshot of the spec, and between any two of them the
  spec may change, an object may vanish, the operator may stop;
* the queue merges events, and an event during a run must lead to another one;
* orphans are told from a list in memory, so an incomplete run must delete nothing;
* what was captured early in a run (addresses, readiness) is published late in it;
* a pod mixes two ages of the settings: command line, volumes and probe from its template,
  `server.properties` from the ConfigMap its broker happened to read;
* a rolling update mixes brokers of different settings and waits for probes that are themselves
  derived from the settings;
* all role groups roll at once, evictions ask one budget for the whole role, and that budget is
  written after the StatefulSets;
* names are put together from parts, objects are taken over by name and orphans found by label;
* a cluster may be gone, or another one of its name be there, while a run for it goes on;
* the script of a broker pod meets SIGTERM at any line, and leaves a file on a volume that outlives it.

### What makes each part correct

* control loop: pods never lack the identity and objects they need, nothing is deleted that the
  snapshot wants, no change is lost, the status tells the truth, healthy specs converge;
* discovery: published hosts belong to Listeners that exist, and are current at rest;
* security, listeners, Kerberos: at every hop the name dialled has an open port, the expected
  protocol, a certificate and, with Kerberos, a principal and a key;
* broker pods: readiness follows registration, rolling updates wait for it, and a rollout ends; a
  signal always reaches the broker, and nothing else holds up the end of a pod;
* namespace: a settled cluster has exactly its own objects, a deleted one leaves nothing;
* pod disruption budget: the loss is bounded by the budget and the role groups, and drains end;
* merged configuration: the two objects made from it agree, and what may not be overridden is not.

## Modules

| Module | Models | Uses |
|---|---|---|
| `KafkaSecurity` | security.rs, listener.rs, authentication.rs, tls.rs, kerberos.rs as operators over the settings | |
| `KafkaReconcile` | the control loop, the queue, the controllers of the owned objects | `KafkaSecurity`, `ClusterDeployment` |
| `ClusterDeployment` | what the control loop promises: an abstract specification | |
| `KafkaNamespace` | several clusters of one namespace, their deletion and recreation | |
| `BrokerRollout` | the brokers of one role group under changing settings | `KafkaSecurity` |
| `BrokerFleet` | the brokers of all role groups, the budget, drains | |
| `BrokerPod` | the containers of one broker pod and the kubelet | |
| `BrokerSettings` | the way of a setting from the spec through ConfigMap and pod template to a broker | |
| `MC*` | small instances for TLC | the module of their name |
| `KafkaReconcileProofs` | type correctness, the invariant of a run and the safety that follows | `KafkaReconcile` |
| `KafkaReconcileGuarantees` | no change is lost; the control loop implements `ClusterDeployment`, and what follows from that | `KafkaReconcileProofs`, `ClusterDeploymentProofs` |
| `ClusterDeploymentProofs`, `KafkaNamespaceProofs`, `BrokerRolloutProofs`, `BrokerFleetProofs`, `BrokerPodProofs`, `BrokerSettingsProofs` | theorems about the module of their name | the module of their name |

### KafkaSecurity

An `Option<T>` is a set with at most one element. The names of hosts are the four roles a name
can have (`broker`: the address of the broker's own Listener; `bootstrap`; `pod`; `localhost`),
for a certificate or a principal is issued for a role. `Advertised` and `PortNamed` stand for the
files that listener-operator mounts into the pod and that the command line reads with `cat`: the
port file is named after the client port, and holds the number of the container port of that
name (with NodePort listeners it is another number that leads to the same container port).

### KafkaReconcile

`spec`, `cached`, `clusterEvent`, `ownedEvent` and `request` are the user's object, the
reflector's copy, the watch events on their way and the queue's entry for the cluster. `pc`,
`snap`, `group`, `added`, `listeners` and `readySeen` are a run: `pc` names the API call that
comes next, the others are the local variables of `reconcile_kafka`. `api`, `addresses`, `ready`
and `status` are the cluster.

Each apply is one action. `Add` stands for `ClusterResources::add`: a server-side apply, or under
`reconciliationPaused` a read that fails if the object is missing. An object is told by what the
properties need: the port names it was rendered with, whether its pods may run, the hosts it
lists. The objects of a role group are built before the first of them is applied, so the failure
to build any is `BuildRoleGroupFails` before the Listener. `DeleteOrphan` deletes one object per
step in any order. `CallFails` may replace any step of a run; a write whose answer is lost is the
write followed by `CallFails`, except for the last write of a run, which has an action of its own.
`error_policy` is `EndWithError`: retry later, unless an event is queued already.

A run in flight over a spec from before a pause goes on writing; the properties therefore speak
of the run's snapshot, and of the user's spec only at rest.

The volume claim templates of a StatefulSet cannot be changed: if one is there with other claims,
Kubernetes refuses the apply on every run (`StatefulSetRefused`), after the Listener, Service and
ConfigMap of the role group have been written. `Convergence` asks that no StatefulSet be in the way.

### ClusterDeployment, and how KafkaReconcile implements it

`ClusterDeployment` knows neither queue nor calls nor kinds of objects: a deployment takes a plan,
applies what the plan wants, each object after what it needs, prunes the rest, reports, and may be
abandoned anywhere. `KafkaReconcile` instantiates it: the plan under deployment is the snapshot
of the run (none between runs), what is done is `added`, the objects and the report are `api` and
`status`; a paused spec is a frozen plan. What a StatefulSet needs is its ServiceAccount,
RoleBinding, Listener, Service and ConfigMap; a discovery ConfigMap needs the Listeners. The
forms of a plan are the contents its spec can give an object whatever the addresses are.
`ImplementsDeployment` is the abstract specification under this mapping. Events, requeues, readiness
and failed calls are stutters, abandoned deployments, or objects that vanish by other hands.

### KafkaNamespace

A name is the sequence of the words that hyphens join, so that a cluster `a` and a cluster `a-b` are
`<<"a">>` and `<<"a", "b">>` and what the operator appends is one more word. An apply is a
server-side apply by the one field manager of the operator: it replaces owner and labels of an object
that is already there. Runs go side by side for different names. A KafkaCluster is deleted with
propagation policy Background (it goes at once) or Foreground (it stays until nothing that blocks its
deletion is left, and is reconciled meanwhile); the garbage collector deletes an object whose owner,
told by uid, is gone. The steps inside a run are coarser than in `KafkaReconcile`: content is reduced
to the hosts of discovery ConfigMaps, and what fails is the whole run.

### BrokerRollout

One role group. The operator's run is reduced to its two writes that matter to a broker,
`ApplyConfigMap` and `ApplyStatefulSet`, and any number of steps of other actors may come between.
A pod has the settings of its `template` and, while its broker runs, those of the `config` it read.
`Boots` is when Kafka comes up; `Accepts` is what it takes to connect.
The StatefulSet controller is external: it creates pods in parallel (`podManagementPolicy`
`Parallel`) and replaces outdated ones from the highest ordinal down, each when all above it are
up to date and ready (`RollingUpdate`). So is Kafka: a listener that encrypts and has no keystore
does not come up; a broker answers kcat once registered.

With Kerberos the probe asks nobody (see the findings). `ProbedMeansRegistered` and `WaitsForQuorum`
therefore speak of pods whose own probe runs kcat (`Vouched`), in whatever mix of pods;
`ReadyMeansRegistered` is what the comment in the code claims, without the exception.

### BrokerFleet

Every role group is one StatefulSet that rolls by itself; a run writes the StatefulSets one after the
other and the budget last. `max_unavailable_brokers` is 1 unless the user says otherwise, and a
disabled budget is deleted as an orphan. A node is drained by asking the Eviction API until it
lets the broker go; the API counts ready brokers of the role against the budget. `taken` and `dropped`
are history: the wanted brokers that a rolling update or an eviction under a budget has taken down
while they were ready, until they are back, and those scaled away while they had a pod. A run starts only when something calls for it (`due`): one that does not would write what
the last one wrote.

### BrokerPod

The script of `kafka_container_commands`, line by line: remove the shutdown file, set traps, start
the broker in the background, `wait_for_termination`, create the file. A SIGTERM before the broker is
known is remembered in `term_kill_needed`, later it is forwarded; where no trap is set the container
ends. The helper functions come from the common operator library and are modelled as
the script uses them. The pod shares one process namespace, which is why SIGTERM ends the prober.
Time is one assumption: only a broker takes long to stop, so the grace period ends only when the pod
waits for nothing else. If SIGTERM comes before the traps are set there is neither a broker nor a
shutdown file, and a Vector agent that waits for the file holds the pod until the grace period is over;
`KilledOnlyIfBrokerOverruns` speaks of pods whose broker was running.

### BrokerSettings

The merge of defaults, role and role group, the overrides of properties, variables and pod templates,
and what is made of them: `server.properties` and the files of the ConfigMap, the variables, volumes
and pod template of the StatefulSet. A setting that no level mentions is absent from its function, so
that `Or(f, g)` is the merge. Security settings are left to `KafkaSecurity`. The precedence of levels for
overrides is that of the product configuration library. Each role group has one broker; it reads
the ConfigMap when its container starts, and only a change of its template replaces its pod.
`SettledAuthorizes` holds after one edit; after two it does not (`settings_revert`).

## Runs

All bounds are in the `.cfg` files: `MaxEdits` edits of the spec, `MaxFaults` faults (failed
calls, lost answers, restarts, deletions by outsiders, moved addresses, lost readiness),
`MaxCrashes` dead processes and lost pods. Deadlock is not checked: once the bounds are used up and
everything is done, the system rests.

| Run | Question | Bounds |
|---|---|---|
| `reconcile_safety` | Order of writes, truth of the status, orphans, lost changes, over every kind of spec | 2 role groups, 9 specs, 1 edit, 1 fault |
| `reconcile_liveness` | Does a healthy spec converge, does a paused cluster keep reporting, is every run a deployment, while outsiders delete objects and addresses move | 1 role group that comes and goes, 2 addresses, 4 specs, 1 edit, 1 fault |
| `reconcile_paused` | Is a pause always reported (finding) | 1 address, otherwise as above |
| `cluster_deployment` | What follows from the abstract specification alone | 5 objects, 8 plans |
| `namespace` | Do neighbours stay off each other, is a settled cluster complete, does nothing of a deleted one stay | 2 clusters of which one name begins with the other, a role group that comes and goes, 3 acts of the users, 1 failed run |
| `rollout` | Do clients and peers get through at every hop, does readiness follow registration, does the rolling update wait and end | 2 brokers, 13 configurations, 2 edits, 1 crash |
| `rollout_kerberos`, `rollout_keystore` | Statements of comments that the code does not keep (findings) | 2 brokers |
| `fleet` | How many brokers are lost at once, do rollouts and drains end | 2 role groups of 2 brokers, 3 specs, 1 edit, 2 drains, crashes or failed runs |
| `broker_pod` | Shutdown at any line of the script, restarts of the containers | Vector agent, 2 crashes |
| `settings_levels` | Do the two objects of a role group agree, is the broker's authorization that of the spec, is shutdown controlled | 2 role groups, 48 specs, 1 edit, 1 fault |
| `settings_revert` | A setting is changed and changed back (finding) | 1 role group, 2 specs, 2 edits |

Four more configurations are run by hand (`tlc -config X.cfg M`); each violates its one property, see
"Further disagreements": `BrokerRollout_internal.cfg`, `BrokerSettings_env.cfg`,
`BrokerFleet_offline.cfg`, `KafkaNamespace_nodeport.cfg`.

Why these bounds are enough. One edit suffices for a run over a spec that is no longer the user's,
because a spec can be edited at any of the run's steps and both specs can be any of the set. Two
role groups suffice for one that fails while another is healthy, and for one that is removed while
another stays; `Absent` objects, leftovers of an incomplete run and a second run over them come
with one fault. What one role group lacks for the refinement (an unpublished role group while another
stays) is in its proof, which has no bounds. In a rollout
two edits give three generations of settings. The
thirteen configurations are one for each branch of the listener configuration, the corners in
which keystores are missing, and those the operator refuses. Three acts in a namespace create, delete
and create a cluster again, or change one beside a neighbour. In the fleet, two drains beside a
rolling update in each of two role groups is what it takes to exceed a budget that was counted
per role group; the three specs are an upgrade that also drops a broker and a broken template under a
budget of zero. `LossBounded` was also checked on role groups of 3 and 2 brokers where the upgrade drops
a broker (1.6 million states), and on two of 2 brokers under two edits (0.6 million) and three (1.2
million); that evictions may exceed the budget while brokers are scaled away was found there, and its
bound counts it. Two crashes in a pod give a broker whose container has restarted once and dies again.
All safety properties of the passing runs are proved without these bounds (see "Proofs"; some under an
assumption on names or overrides, `SettledAuthorizes` for one edit).

Each property of a passing run has a mutant in `PROJECT.json`: a plausible bug in a definition
with which TLC finds the property violated. The mutated definitions stand before their originals
and are marked as such.

## Fairness

`KafkaReconcile`: kube-runtime delivers every watch event (watches are re-listed when they break),
wakes a requeued cluster when its timer elapses, starts a queued cluster and polls the run. Weak
fairness on the whole of `Reconcile` is enough, since a run has at every point some next step.
listener-operator gives a Listener addresses and the StatefulSet controller reports readiness, each
weakly fair per role group, which is the assumption that the rest of the platform works. Edits, faults,
outsiders and restarts are never fair.

`BrokerRollout`: the operator requeues until a run succeeds, so its two writes are weakly fair;
the controllers and the kubelet retry, so creating, replacing, starting, registering and probing are
weakly fair per pod. A broker that cannot boot stays where it is: its start is not enabled.

`KafkaNamespace`: the operator serves or goes on with some cluster as long as it can with any, and the
garbage collector finishes deletions and collects objects as long as there are any. Neither is assumed
to be fair to every cluster.

`BrokerFleet`: the operator finishes what is due; the StatefulSet controller and the kubelet go on with some
broker as long as they can with any; a drain that is refused asks again. Crashes, failed runs, drains
and edits are never fair, and neither is a broken template becoming ready.

`BrokerPod`: processes run and the kubelet restarts, ends and kills containers. A broker that stops is
not fair: it may overrun the grace period. Nobody has to delete the pod.

## Proofs

Proved for all values of the constants, under the named assumptions at their declarations
(`RoleGroupsAssumption`, `SpecsAssumption`, `DeletableAssumption`, `AbsentAssumption`,
`BoundsAssumption`, `DefaultClassAssumption`, `ReplicasAssumption`, `ConfigurationsAssumption`, and
their like in the other modules). The sets of role groups, addresses, specs, configurations, clusters
and kinds need not be finite, but for the role groups of `BrokerFleet`, which are counted
(`FleetRoleGroupsAssumption`; a spec is a finite text). `FleetAbsentAssumption` and its like say that
the value for an object that does not exist is not one of an object.

**A run and its objects** (`KafkaReconcileProofs`). No safety property of the control loop is
inductive: that a StatefulSet is never there without a ServiceAccount says nothing of the run that
is about to write one. `RunInv` adds what a run has behind it, in four parts: `Progress` (how far it
has come tells what it has added), `Bounded` (nothing is added that the snapshot does not ask for),
`Applied` (what it has added is in the API server as the run renders it, or an outsider deleted
it) and `NothingLeftOver` (at the status nothing else exists). `Invariance` proves
`TypeOK /\ RunInv` inductive, action by action; `ReportsAreTrue` and the action properties
`OnlyOrphansAreDeleted` and `StatefulSetsComeLast` follow, and `PodsAlwaysHaveIdentity` and
`PublishedHostsAlwaysExist` are inductive relative to it.

**No change is lost** (`KafkaReconcileGuarantees`). At rest everything is done, but rest says
nothing of how it was reached. `QInv` carries the reason through a run: either something is on its
way or queued that will start another one, or what the run has captured and written so far (snapshot,
addresses, readiness, objects) is still what the cluster holds. It has five parts: `SpecNoticed`,
`SpecUsable`, `SeenAdded`, `CaptureNoticed` and `RunDone`. Every action of the environment
that breaks the second half establishes the first. `QuiescenceIsDone` is the conclusion; it needs
`RunInv` for what is applied when a run ends.

**Rollout** (`BrokerRolloutProofs`). `RolloutInvariance` proves `TypeOK /\ PodsSound` inductive: all
settings that reach an object have passed the validation, and every running broker has a
keystore for each of its listeners that encrypts. From the second part, by cases over the branches of
`get_kafka_listener_config`, follow `ClientsAlwaysGetThrough` and `PeersAlwaysGetThrough`, for
every set of SecretClasses and configurations and any mix of old and new pods.
`ReadyOnlyAfterRegistration` is inductive relative to it (`ReadinessKept`), and `RollingUpdateWaits`
follows from what `ReplacePod` waits for.

**Refinement** (`KafkaReconcileGuarantees`, `ClusterDeploymentProofs`).
`ReconcileImplementsDeployment` maps every step to a step of `ClusterDeployment` or a stutter. `RunInv`
gives the guards: an apply comes after what it needs because `Progress` says what has been added
at each `pc`, a deletion or a report after everything is applied. `TypeOK` gives that what is rendered
is one of the forms of the plan (`RenderedForm`). The two theorems about `ClusterDeployment`,
`DoneStaysThere` and `NeedsAlwaysMet`, hold for any plans, contents and needs. `NeededObjectsStay`
carries the second one through the refinement to the control loop: the constants it gives the abstract
specification satisfy the assumptions there (`DeploymentAssumptions`), and the control loop's behaviours
are behaviours of it. What it says of objects the proofs of the loop never mention: across abandoned
runs, edits and restarts, none is there without those it needs, as long as every spec wants these and
no outsider may delete them.

**Namespace** (`KafkaNamespaceProofs`). The theorems about neighbours assume `Unrelated`: no cluster's
name is another one's with further parts behind it. From that follows what the proofs need, that no
two clusters give objects the same name (`UnrelatedApart`). Without an assumption on names they are
false (`KafkaNamespace_nodeport.cfg`). The run goes a step further than the theorems: its clusters are
`a` and `a-b`, which are related and share no name. `NamespaceInvariance` carries whose mark an object
has, and that what a run has applied is there as it rendered it unless the garbage collector is
entitled to it, which it only is if the cluster the run has read is gone, so that a new run is
asked for. From it follow `NeighboursStayOff` and `SettledClustersOwn`.

**Pod** (`BrokerPodProofs`). `PodInvariance` says which processes can be alive at which line, and where a
SIGTERM is kept until it is forwarded. Three safety theorems follow, with or without Vector.

**Settings** (`BrokerSettingsProofs`). `SettingsInvariance` says which of the two objects of each role
group a run has written. With it `MountsAlwaysResolve` says that at rest both are made of the user's
spec, and that the two independent computations from the merged levels
agree; it assumes that pod overrides leave the logging volume and the agent alone.
`ShutdownAlwaysControlled` needs no assumption on the specs. `AuthorizationSettles` is about the one order
that makes the reverted edit of `settings_revert` go wrong: `OpaInv` says that an edit of `opa` spreads
from the ConfigMap to the template, from there to the pod and last to the broker, so that
whatever agrees with the user agrees with what comes before it. The theorem assumes `OpaLeftAlone` (no
override sets the authorizer or its variable) and at most one edit, without which it is false.

**Fleet** (`BrokerFleetProofs`). `LossBounded` counts brokers, and nothing inductive can be said of
the count alone: an eviction looks at who is ready, a rolling update at the pods above. `FleetInvariance`
says that every broker that is down can be charged to someone. There is a function `at` that charges it
to the budget (0) or to one of the edits that have reached its role group. `RolledAt`: no edit is charged
with two brokers of a role group, and all pods above the one charged to the last edit are of the current
template, so that it must be back before the update goes on below it (`RollStep`), and the next
edit starts a new account. `RestWithinBudget`: what is charged to the budget is within the
largest budget and the number of brokers scaled away. An eviction settles all accounts at once: since it
is allowed only if enough brokers are ready, all that are down are within the budget, whoever has taken
them (`EvictStep`, `BudgetCounts`). How many edits have reached a role group is `Reached`: those made,
less those no run has seen or has not applied there; it never falls, and rises when a StatefulSet
changes (`ReachedStep`). `EditsReach`, `PodsOfFleet` and `TakenAreDown` relate pods and history to it.
`LossAlwaysBounded` follows because an account is a pair of a role group and an edit (`OneForEach`).

Only model-checked: all liveness properties, which are out of the prover's reach
(`Convergence`, `PausedStatusFollows`, `RolloutCompletes`, `NothingLeftBehind`, `RolloutFinishes`,
`DrainsFinish`, `LogsFlowAgain`), and the mutants.

## Findings

1. `reconcile_paused`. The CRD promises that the status of a paused cluster is still updated. A cluster
   paused before its objects exist fails at the first read, and its status is never written.
   `PausedStatusFollows` is the promise that holds: with all objects there, it is kept.
2. `rollout_kerberos`. A comment says that the readiness probe shows that the broker has registered.
   With Kerberos kcat and its arguments are positional parameters of the `bash -c` script and are not
   run.
3. `rollout_keystore`. A comment says which settings enable TLS for configuration, volume mounts and
   port. With a TLS AuthenticationClass without `clientCertSecretClass` and no server SecretClass
   there is no keystore volume. Kerberos without an internal SecretClass is a second such
   corner: INTERNAL is SSL and has no keystore.
4. `settings_revert`. The documentation makes authorization by OPA a matter of the field `opa`. The
   class of the authorizer reaches a broker through the ConfigMap, the address of OPA through the pod
   template. If the field is added and removed again while a pod of the old template starts, that
   broker has the authorizer without its address; its template is the current one again,
   so nothing restarts it.

Further disagreements between text and code, each with a configuration that shows it:

* `BrokerRollout_internal.cfg`. The comment at `crd/src/listener.rs:183` says that Kerberos and TLS
  authentication both require internal TLS. With a TLS AuthenticationClass and an empty internal
  SecretClass INTERNAL is plain text.
* `BrokerFleet_offline.cfg`. `pod-disruptions.adoc:9` allows "only a single Broker to be offline at any
  given time, regardless of the number of replicas or `roleGroups`". Role groups roll at the same time,
  and rolling updates do not ask the budget. `LossBounded` is what holds.
* `KafkaNamespace_nodeport.cfg`. `discovery.adoc:26` says that the discovery ConfigMap has the name of
  the cluster. The second one is called `{name}-nodeport`, the name of the first one of a cluster
  called so: the two overwrite each other's, and both come to rest.
* `BrokerSettings_env.cfg`. `configuration-environment-overrides.adoc:70` says that environment variables
  can be overridden. `KAFKA_HEAP_OPTS` is put behind the overrides, and the last entry counts.
* `storage-resources.adoc:22` gives a default volume of 1Gi, `crd/src/lib.rs:458` has 2Gi; the
  size is not modelled.

Observed, and not contradicted by any statement in the repository:

* A change of `server.properties` that leaves the pod template alone restarts no broker.
* Brokers whose settings disagree on internal TLS cannot talk to each other while a rolling update lasts;
  `PeersGetThrough` claims it for those that agree.
* With `Parallel`, several brokers can be down at once when a second edit or a lost pod meets a
  rolling update; `WaitsForQuorum` claims no more than what the controller waits for.
* Each further edit while a rolling update is stuck may cost one more broker in every role group: the
  StatefulSet controller starts again at the top, whatever is down below, and `Parallel` makes it
  wait for no other. `LossBounded` counts the edits.
* A scale-down lets evictions exceed the budget: brokers that are about to go count as healthy for the
  Eviction API until they stop, and other brokers can be evicted in their place. `LossBounded` counts
  one broker more for each that is scaled away.
* PodDisruptionBudgets are not watched: one that somebody deletes comes back with the next run,
  whenever that is. `QuiescentMeansDone` excepts them.
* One comment differs from the code in data the models leave out: what `internalSecretClass: null` means (`docs/.../security.adoc`, a plain `String` in
  the CRD, in which the empty string switches TLS off).

## Not modelled

* Affinities beyond their default, labels beyond the one orphans are found by, command line, CRD
  printing, tracing: plain I/O, or data that Kubernetes alone interprets.
* The product configuration library, the merge derive of the operator library and the bash helpers of
  the common library are external; they are modelled from how this repository uses them.
* Changes of AuthenticationClasses, of the OPA or the Vector aggregator address: a run reads them
  and nothing watches them, so they are part of the snapshot of a run.
* Timers: a requeue elapses some time, a grace period after everything else. The wait of 5 seconds,
  the 30 minutes and the lifetime of certificates are not told apart from other waits.
* Two operators at once: the Deployment of the Helm chart runs one.
* Contents of certificates, records and topics; what Kafka does between registering and stopping.

## Plan

Done: security settings, the control loop with its abstract specification, refinement and proofs, the
rollout, the pod, the settings, the namespace and the fleet. What remains:

1. `BrokerSettings` with several brokers in a role group, to see how many keep the settings of a
   reverted edit.
2. A composition of `BrokerFleet` and `BrokerRollout`, in which role groups of different security
   settings roll side by side.
