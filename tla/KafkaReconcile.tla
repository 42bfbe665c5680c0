----------------------------- MODULE KafkaReconcile -----------------------------
(***************************************************************************)
(* The control loop of the operator for one KafkaCluster: the user, the    *)
(* reflector and the work queue of kube-runtime, reconcile_kafka with one  *)
(* step per API call, error_policy, and the controllers that react to the  *)
(* objects it writes (listener-operator, StatefulSet controller).          *)
(*                                                                         *)
(* Between two steps anything else may happen: the user edits the spec,    *)
(* somebody deletes an owned object, a call fails, the operator restarts.  *)
(***************************************************************************)
EXTENDS KafkaSecurity

CONSTANTS
    RoleGroups,     \* names of broker role groups
    Addresses,      \* addresses a Listener can get
    Claims,         \* volume claim templates a role group can ask for
    ClusterSpecs,   \* the specs the user may write
    Deletable,      \* objects somebody other than the operator may delete
    Absent,         \* the value of an object that does not exist
    MaxEdits,       \* bound: edits of the spec
    MaxFaults       \* bound: failed calls, restarts, deletions, moved addresses, lost readiness

-----------------------------------------------------------------------------
(* Data *)

Operations == {"run", "stop", "pause"}

\* A spec.  form: "undecodable" does not pass the DeserializeGuard; "rejected" decodes
\* but has no broker role, an invalid product config or an unusable AuthenticationClass.
\* unbuildable: the role groups whose objects cannot be built (a Vector agent without
\* an aggregator address, an override that does not parse, ...).  claims: the volume
\* claim templates each role group asks for (size and class of the brokers' storage).
ClusterSpec == [form        : {"ok", "undecodable", "rejected"},
                groups      : SUBSET RoleGroups,
                unbuildable : SUBSET RoleGroups,
                security    : Security,
                claims      : [RoleGroups -> Claims],
                operation   : Operations,
                pdb         : BOOLEAN]

Cluster == "cluster"
GroupKinds == {"Listener", "Service", "ConfigMap", "StatefulSet"}
ClusterKinds == {"ServiceAccount", "RoleBinding", "PodDisruptionBudget",
                 "Discovery", "DiscoveryNodePort"}
Id == [kind : GroupKinds, group : RoleGroups] \cup [kind : ClusterKinds, group : {Cluster}]
Of(kind, g) == [kind |-> kind, group |-> g]
Single(kind) == [kind |-> kind, group |-> Cluster]

\* create_controller: PodDisruptionBudgets are the one kind it does not watch
Watched(id) == id.kind # "PodDisruptionBudget"

Ingress == [address : Addresses, ports : SUBSET PortNames]
Host == [group : RoleGroups, address : Addresses, port : PortNames]

\* What the properties tell apart in an object: the ports it was rendered with,
\* whether its pods may run, a StatefulSet's volume claim templates, and the hosts
\* a discovery ConfigMap lists.
Content == [ports : SUBSET PortNames, running : BOOLEAN, claims : SUBSET Claims,
            hosts : SUBSET Host]

ASSUME RoleGroupsAssumption == Cluster \notin RoleGroups
ASSUME SpecsAssumption == ClusterSpecs \subseteq ClusterSpec /\ ClusterSpecs # {}
ASSUME DeletableAssumption == Deletable \subseteq Id
ASSUME AbsentAssumption == Absent \notin Content /\ Absent \notin ClusterSpec
ASSUME BoundsAssumption == MaxEdits \in Nat /\ MaxFaults \in Nat

ClusterStatus == [operation : Operations \cup {"unknown"}, available : BOOLEAN]

PCs == {"idle", "resolve", "serviceAccount", "roleBinding", "roleGroups", "listener",
        "service", "configMap", "statefulSet", "pdb", "discovery", "discoveryNodePort",
        "orphans", "status"}

\* Between the build of a role group's objects and the last apply of them
InGroup == {"listener", "service", "configMap", "statefulSet"}

VARIABLES
    spec,           \* the user's spec, in the API server
    cached,         \* the spec in the reflector's store
    clusterEvent,   \* a watch event of the KafkaCluster is on its way
    ownedEvent,     \* a watch event of an owned object is on its way
    request,        \* the queue's entry for this cluster: "none", "later" or "now"
    pc,             \* where reconcile_kafka is
    snap,           \* the spec this run works on
    group,          \* the role group the loop is at
    added,          \* the ids recorded by ClusterResources in this run
    listeners,      \* bootstrap_listeners: the addresses returned by the applies
    readySeen,      \* the StatefulSets whose captured status says ready
    api,            \* owned objects in the API server
    addresses,      \* ingress addresses in the status of each Listener
    ready,          \* role groups whose StatefulSet reports all replicas available
    status,         \* the status of the KafkaCluster
    edits, faults   \* bounds

user == <<spec, edits>>
queue == <<cached, clusterEvent, ownedEvent, request>>
locals == <<snap, group, added, listeners, readySeen>>
cluster == <<api, addresses, ready, status>>
vars == <<user, queue, pc, locals, cluster, faults>>

-----------------------------------------------------------------------------
(* What reconcile_kafka builds from a spec *)

\* listener_hosts and build_discovery_configmaps: one host per ingress address
Hosts(s, lsts) ==
    UNION {{[group |-> g, address |-> i.address, port |-> DiscoveryPortName(s.security)] :
                i \in lsts[g]} : g \in s.groups}

\* The build_* functions and, for a stopped cluster, replicas = 0
Render(id, s, lsts) ==
    [ports   |-> IF id.kind \in {"Listener", "ConfigMap", "StatefulSet"}
                 THEN ListenerPortNames(s.security) ELSE {},
     running |-> id.kind = "StatefulSet" /\ s.operation # "stop",
     claims  |-> IF id.kind = "StatefulSet" THEN {s.claims[id.group]} ELSE {},
     hosts   |-> IF id.kind \in {"Discovery", "DiscoveryNodePort"} THEN Hosts(s, lsts) ELSE {}]

\* Everything a complete run over s adds to ClusterResources
Desired(s) == {id \in Id : /\ id.kind \in GroupKinds => id.group \in s.groups
                           /\ id.kind = "PodDisruptionBudget" => s.pdb}

\* NoServicePort: an address whose ports lack the one to publish
Publishable(s, lsts) ==
    \A g \in s.groups : \A i \in lsts[g] : DiscoveryPortName(s.security) \in i.ports

NoListeners == [g \in RoleGroups |-> {}]

-----------------------------------------------------------------------------
(* The user, an administrator and the controllers of the owned objects *)

UserEdits ==
    /\ edits < MaxEdits
    /\ edits' = edits + 1
    /\ spec' \in ClusterSpecs \ {spec}
    /\ clusterEvent' = TRUE
    /\ UNCHANGED <<cached, ownedEvent, request, pc, locals, cluster, faults>>

Fault == faults < MaxFaults /\ faults' = faults + 1

Exists(id) == api[id] # Absent

Touched(id) == ownedEvent' = (ownedEvent \/ Watched(id))

\* An object disappears, and with a Listener or a StatefulSet its status.
Remove(id) ==
    /\ api[id] # Absent
    /\ api' = [api EXCEPT ![id] = Absent]
    /\ addresses' = IF id.kind = "Listener" THEN [addresses EXCEPT ![id.group] = {}]
                                            ELSE addresses
    /\ ready' = IF id.kind = "StatefulSet" THEN ready \ {id.group} ELSE ready
    /\ Touched(id)

OutsiderDeletes(id) ==
    /\ id \in Deletable
    /\ Fault
    /\ Remove(id)
    /\ UNCHANGED <<user, cached, clusterEvent, request, pc, locals, status>>

\* listener-operator writes the addresses of a Listener into its status: those
\* a Listener still lacks, or has with the ports of an earlier spec ...
SetAddresses(g, as) ==
    /\ as # {}
    /\ addresses' = [addresses EXCEPT ![g] =
                        {[address |-> a, ports |-> api[Of("Listener", g)].ports] : a \in as}]
    /\ ownedEvent' = TRUE
    /\ UNCHANGED <<user, cached, clusterEvent, request, pc, locals, api, ready, status>>

PublishAddresses(g) ==
    /\ Exists(Of("Listener", g))
    /\ \/ addresses[g] = {}
       \/ \E i \in addresses[g] : i.ports # api[Of("Listener", g)].ports
    /\ \E as \in SUBSET Addresses : SetAddresses(g, as)
    /\ UNCHANGED faults

\* ... and others when its pods or nodes move.
MoveAddresses(g) ==
    /\ Exists(Of("Listener", g))
    /\ addresses[g] # {}
    /\ Fault
    /\ \E as \in SUBSET Addresses : as # {i.address : i \in addresses[g]} /\ SetAddresses(g, as)

\* The StatefulSet controller reports all replicas available, or no longer.
BecomeReady(g) ==
    /\ Exists(Of("StatefulSet", g)) /\ g \notin ready
    /\ ready' = ready \cup {g}
    /\ ownedEvent' = TRUE
    /\ UNCHANGED <<user, cached, clusterEvent, request, pc, locals, api, addresses, status, faults>>

BecomeUnready(g) ==
    /\ g \in ready
    /\ Fault
    /\ ready' = ready \ {g}
    /\ ownedEvent' = TRUE
    /\ UNCHANGED <<user, cached, clusterEvent, request, pc, locals, api, addresses, status>>

-----------------------------------------------------------------------------
(* kube-runtime: the reflector, the deduplicating queue and its timer *)

\* Mutant: an event that arrives during a run is dropped.
ClusterEventDroppedInRun ==
    /\ clusterEvent
    /\ clusterEvent' = FALSE
    /\ cached' = spec
    /\ request' = IF pc = "idle" THEN "now" ELSE request
    /\ UNCHANGED <<user, ownedEvent, pc, locals, cluster, faults>>

ClusterEvent ==
    /\ clusterEvent
    /\ clusterEvent' = FALSE
    /\ cached' = spec
    /\ request' = "now"
    /\ UNCHANGED <<user, ownedEvent, pc, locals, cluster, faults>>

\* Mutant: an event that arrives during a run is dropped.
OwnedEventDroppedInRun ==
    /\ ownedEvent
    /\ ownedEvent' = FALSE
    /\ request' = IF pc = "idle" THEN "now" ELSE request
    /\ UNCHANGED <<user, cached, clusterEvent, pc, locals, cluster, faults>>

OwnedEvent ==
    /\ ownedEvent
    /\ ownedEvent' = FALSE
    /\ request' = "now"
    /\ UNCHANGED <<user, cached, clusterEvent, pc, locals, cluster, faults>>

RequeueElapses ==
    /\ request = "later"
    /\ request' = "now"
    /\ UNCHANGED <<user, cached, clusterEvent, ownedEvent, pc, locals, cluster, faults>>

\* A cluster has at most one run at a time; what arrives meanwhile stays queued.
StartReconcile ==
    /\ pc = "idle" /\ request = "now"
    /\ request' = "none"
    /\ snap' = cached
    /\ pc' = "resolve"
    /\ UNCHANGED <<user, cached, clusterEvent, ownedEvent, group, added, listeners, readySeen,
                   cluster, faults>>

\* Mutant: ClusterResources outlives the run.
EndRunKeepsAdded(next) ==
    /\ pc' = "idle"
    /\ request' = next
    /\ group' = Cluster /\ listeners' = NoListeners /\ readySeen' = {}
    /\ UNCHANGED <<user, cached, snap, added>>

\* The run returns and its local variables are dropped; next is the entry left in the queue.
EndRun(next) ==
    /\ pc' = "idle"
    /\ request' = next
    /\ group' = Cluster /\ added' = {} /\ listeners' = NoListeners /\ readySeen' = {}
    /\ UNCHANGED <<user, cached, snap>>

\* Mutant: every error awaits a change.
EndWithErrorAwaitsChange == EndRun(request)

\* error_policy: every error but InvalidKafkaCluster is retried after 5 s, or at once
\* if an event arrived during the run.
EndWithError == EndRun(IF request = "now" THEN "now" ELSE "later")

-----------------------------------------------------------------------------
(* reconcile_kafka *)

Paused == snap.operation = "pause"
Rendered(id) == Render(id, snap, listeners)

\* The spec is refused before anything is applied.
Refused(s) == s.form = "rejected" \/ ~ValidAuthenticationMethods(s.security)

RejectUndecodable ==
    /\ pc = "resolve" /\ snap.form = "undecodable"
    /\ EndRun(request)
    /\ UNCHANGED <<clusterEvent, ownedEvent, cluster, faults>>

Refuse ==
    /\ pc = "resolve" /\ snap.form # "undecodable" /\ Refused(snap)
    /\ EndWithError
    /\ UNCHANGED <<clusterEvent, ownedEvent, cluster, faults>>

\* Product config, AuthenticationClass, OPA and Vector aggregator are resolved.
Resolve ==
    /\ pc = "resolve" /\ snap.form = "ok" /\ ~Refused(snap)
    /\ pc' = "serviceAccount"
    /\ UNCHANGED <<user, queue, locals, cluster, faults>>

\* ClusterResources::add: a server-side apply; a paused cluster is only read.
Add(id, next) ==
    /\ IF Paused
       THEN api[id] # Absent /\ UNCHANGED <<api, ownedEvent>>
       ELSE /\ api' = [api EXCEPT ![id] = Rendered(id)]
            /\ IF api[id] = Rendered(id) THEN UNCHANGED ownedEvent ELSE Touched(id)
    /\ added' = added \cup {id}
    /\ pc' = next
    /\ UNCHANGED <<user, cached, clusterEvent, request, snap, addresses, ready, status, faults>>

\* Mutant: the RoleBinding is skipped.
ApplyServiceAccountOnly ==
    /\ pc = "serviceAccount"
    /\ Add(Single("ServiceAccount"), "roleGroups")
    /\ UNCHANGED <<group, listeners, readySeen>>

ApplyServiceAccount ==
    /\ pc = "serviceAccount"
    /\ Add(Single("ServiceAccount"), "roleBinding")
    /\ UNCHANGED <<group, listeners, readySeen>>

ApplyRoleBinding ==
    /\ pc = "roleBinding"
    /\ Add(Single("RoleBinding"), "roleGroups")
    /\ UNCHANGED <<group, listeners, readySeen>>

\* The loop over the role groups, in the arbitrary order of a HashMap: the four
\* objects of a group are all built before the first of them is applied.
Remaining == {g \in snap.groups : Of("StatefulSet", g) \notin added}

BuildRoleGroup(g) ==
    /\ pc = "roleGroups" /\ g \in Remaining \ snap.unbuildable
    /\ group' = g
    /\ pc' = "listener"
    /\ UNCHANGED <<user, queue, snap, added, listeners, readySeen, cluster, faults>>

BuildRoleGroupFails ==
    /\ pc = "roleGroups" /\ Remaining \cap snap.unbuildable # {}
    /\ EndWithError
    /\ UNCHANGED <<clusterEvent, ownedEvent, cluster, faults>>

ApplyListener ==
    /\ pc = "listener"
    /\ Add(Of("Listener", group), "service")
    /\ listeners' = [listeners EXCEPT ![group] = addresses[group]]
    /\ UNCHANGED <<group, readySeen>>

\* Mutant: the StatefulSet is applied without waiting for the ConfigMap.
ApplyServiceSkipsConfigMap ==
    /\ pc = "service"
    /\ Add(Of("Service", group), "statefulSet")
    /\ UNCHANGED <<group, listeners, readySeen>>

ApplyService ==
    /\ pc = "service"
    /\ Add(Of("Service", group), "configMap")
    /\ UNCHANGED <<group, listeners, readySeen>>

ApplyConfigMap ==
    /\ pc = "configMap"
    /\ Add(Of("ConfigMap", group), "statefulSet")
    /\ UNCHANGED <<group, listeners, readySeen>>

\* Kubernetes refuses a change of the volume claim templates of a StatefulSet.
Immutable(id, s) == Exists(id) /\ api[id].claims # {s.claims[id.group]}

\* The StatefulSet is applied, unless it is there with other claims.
ApplyStatefulSet ==
    /\ pc = "statefulSet"
    /\ Paused \/ ~Immutable(Of("StatefulSet", group), snap)
    /\ Add(Of("StatefulSet", group), "roleGroups")
    /\ readySeen' = readySeen \cup ({group} \cap ready)
    /\ group' = Cluster
    /\ UNCHANGED listeners

\* The apply is refused: the Listener, Service and ConfigMap of the role group are
\* those of the new spec already, nothing after it is reached.
StatefulSetRefused ==
    /\ pc = "statefulSet"
    /\ ~Paused /\ Immutable(Of("StatefulSet", group), snap)
    /\ EndWithError
    /\ UNCHANGED <<clusterEvent, ownedEvent, cluster, faults>>

LeaveRoleGroups ==
    /\ pc = "roleGroups" /\ Remaining = {}
    /\ pc' = "pdb"
    /\ UNCHANGED <<user, queue, locals, cluster, faults>>

\* add_pdbs
ApplyPdb ==
    /\ pc = "pdb" /\ snap.pdb
    /\ Add(Single("PodDisruptionBudget"), "discovery")
    /\ UNCHANGED <<group, listeners, readySeen>>

SkipPdb ==
    /\ pc = "pdb" /\ ~snap.pdb
    /\ pc' = "discovery"
    /\ UNCHANGED <<user, queue, locals, cluster, faults>>

\* Both ConfigMaps are built before the first is applied.
BuildDiscoveryFails ==
    /\ pc = "discovery" /\ ~Publishable(snap, listeners)
    /\ EndWithError
    /\ UNCHANGED <<clusterEvent, ownedEvent, cluster, faults>>

ApplyDiscovery ==
    /\ pc = "discovery" /\ Publishable(snap, listeners)
    /\ Add(Single("Discovery"), "discoveryNodePort")
    /\ UNCHANGED <<group, listeners, readySeen>>

ApplyDiscoveryNodePort ==
    /\ pc = "discoveryNodePort"
    /\ Add(Single("DiscoveryNodePort"), "orphans")
    /\ UNCHANGED <<group, listeners, readySeen>>

\* Mutant: orphans are told by the spec in the reflector's store.
OrphansOfCachedSpec == IF Paused THEN {} ELSE {id \in Id \ Desired(cached) : api[id] # Absent}

\* delete_orphaned_resources: whatever carries the cluster's labels and was not
\* added in this run, in any order; nothing when paused.
Orphans == IF Paused THEN {} ELSE {id \in Id \ added : api[id] # Absent}

\* Mutant: role groups are cleaned up before the discovery ConfigMaps are rewritten.
DeleteOrphanEarly(id) ==
    /\ pc \in {"pdb", "orphans"} /\ id \in Orphans
    /\ pc = "pdb" => id.kind \in GroupKinds
    /\ Remove(id)
    /\ UNCHANGED <<user, cached, clusterEvent, request, pc, locals, status, faults>>

DeleteOrphan(id) ==
    /\ pc = "orphans" /\ id \in Orphans
    /\ Remove(id)
    /\ UNCHANGED <<user, cached, clusterEvent, request, pc, locals, status, faults>>

\* Mutant: a failed deletion is passed over.
OrphansPassedOver ==
    /\ pc = "orphans"
    /\ pc' = "status"
    /\ UNCHANGED <<user, queue, locals, cluster, faults>>

OrphansDeleted ==
    /\ pc = "orphans" /\ Orphans = {}
    /\ pc' = "status"
    /\ UNCHANGED <<user, queue, locals, cluster, faults>>

\* Mutant: the conditions of a paused cluster are left alone.
WriteStatusUnlessPaused ==
    /\ pc = "status"
    /\ status' = [operation |-> snap.operation,
                  available |-> IF Paused THEN status.available
                                          ELSE snap.groups \subseteq readySeen]
    /\ clusterEvent' = (clusterEvent \/ status' # status)
    /\ UNCHANGED <<ownedEvent, api, addresses, ready>>

\* compute_conditions works on the StatefulSets as the applies returned them.
WriteStatus ==
    /\ pc = "status"
    /\ status' = [operation |-> snap.operation, available |-> snap.groups \subseteq readySeen]
    /\ clusterEvent' = (clusterEvent \/ status' # status)
    /\ UNCHANGED <<ownedEvent, api, addresses, ready>>

PatchStatus ==
    /\ WriteStatus
    /\ EndRun(request)
    /\ UNCHANGED faults

\* A paused cluster lacks an object of its spec: the GET fails.
Target ==
    CASE pc = "serviceAccount"    -> Single("ServiceAccount")
      [] pc = "roleBinding"       -> Single("RoleBinding")
      [] pc = "listener"          -> Of("Listener", group)
      [] pc = "service"           -> Of("Service", group)
      [] pc = "configMap"         -> Of("ConfigMap", group)
      [] pc = "statefulSet"       -> Of("StatefulSet", group)
      [] pc = "pdb"               -> Single("PodDisruptionBudget")
      [] pc = "discovery"         -> Single("Discovery")
      [] pc = "discoveryNodePort" -> Single("DiscoveryNodePort")

Applying == {"serviceAccount", "roleBinding", "listener", "service", "configMap",
             "statefulSet", "pdb", "discovery", "discoveryNodePort"}

PausedAddFails ==
    /\ Paused /\ pc \in Applying
    /\ pc = "pdb" => snap.pdb
    /\ pc = "discovery" => Publishable(snap, listeners)
    /\ api[Target] = Absent
    /\ EndWithError
    /\ UNCHANGED <<clusterEvent, ownedEvent, cluster, faults>>

\* A call fails.  A write that happened although its answer was lost is the write
\* followed by this step, for everything a run remembers is dropped with it.
CallFails ==
    /\ pc # "idle"
    /\ Fault
    /\ EndWithError
    /\ UNCHANGED <<clusterEvent, ownedEvent, cluster>>

PatchStatusUnacknowledged ==
    /\ WriteStatus
    /\ Fault
    /\ EndWithError

\* The operator stops anywhere and starts again: nothing is persisted, the
\* reflector lists the cluster afresh and queues it.
Restart ==
    /\ Fault
    /\ pc' = "idle" /\ request' = "now"
    /\ cached' = spec
    /\ clusterEvent' = FALSE /\ ownedEvent' = FALSE
    /\ group' = Cluster /\ added' = {} /\ listeners' = NoListeners /\ readySeen' = {}
    /\ UNCHANGED <<user, snap, cluster>>

-----------------------------------------------------------------------------
Init ==
    /\ spec \in ClusterSpecs /\ cached = spec
    /\ clusterEvent = FALSE /\ ownedEvent = FALSE
    /\ request = "now"
    /\ pc = "idle" /\ snap = spec
    /\ group = Cluster /\ added = {} /\ listeners = NoListeners /\ readySeen = {}
    /\ api = [id \in Id |-> Absent]
    /\ addresses = NoListeners
    /\ ready = {}
    /\ status = [operation |-> "unknown", available |-> FALSE]
    /\ edits = 0 /\ faults = 0

Environment ==
    \/ UserEdits
    \/ \E id \in Id : OutsiderDeletes(id)
    \/ \E g \in RoleGroups : PublishAddresses(g) \/ MoveAddresses(g) \/ BecomeReady(g) \/ BecomeUnready(g)

Runtime == ClusterEvent \/ OwnedEvent \/ RequeueElapses \/ StartReconcile

\* The steps of a run
Reconcile ==
    \/ RejectUndecodable \/ Refuse \/ Resolve
    \/ ApplyServiceAccount \/ ApplyRoleBinding
    \/ (\E g \in RoleGroups : BuildRoleGroup(g)) \/ BuildRoleGroupFails
    \/ ApplyListener \/ ApplyService \/ ApplyConfigMap \/ ApplyStatefulSet \/ StatefulSetRefused
    \/ LeaveRoleGroups
    \/ ApplyPdb \/ SkipPdb
    \/ BuildDiscoveryFails \/ ApplyDiscovery \/ ApplyDiscoveryNodePort
    \/ (\E id \in Id : DeleteOrphan(id)) \/ OrphansDeleted
    \/ PatchStatus
    \/ PausedAddFails

Failure == CallFails \/ PatchStatusUnacknowledged \/ Restart

Next == Environment \/ Runtime \/ Reconcile \/ Failure

Spec == Init /\ [][Next]_vars

\* kube-runtime delivers watch events, wakes requeued clusters and polls the run;
\* the other controllers do their work.  Edits and faults are never fair.
Fairness ==
    /\ WF_vars(ClusterEvent) /\ WF_vars(OwnedEvent) /\ WF_vars(RequeueElapses)
    /\ WF_vars(StartReconcile) /\ WF_vars(Reconcile)
    /\ \A g \in RoleGroups : WF_vars(PublishAddresses(g)) /\ WF_vars(BecomeReady(g))

FairSpec == Spec /\ Fairness

-----------------------------------------------------------------------------
(* Properties *)

\* Every variable has its type, and what a run remembers is empty between runs.
TypeOK ==
    /\ spec \in ClusterSpecs /\ cached \in ClusterSpecs /\ snap \in ClusterSpecs
    /\ clusterEvent \in BOOLEAN /\ ownedEvent \in BOOLEAN
    /\ request \in {"none", "later", "now"}
    /\ pc \in PCs
    /\ group \in RoleGroups \cup {Cluster}
    /\ added \subseteq Id
    /\ listeners \in [RoleGroups -> SUBSET Ingress]
    /\ readySeen \subseteq RoleGroups
    /\ api \in [Id -> Content \cup {Absent}]
    /\ addresses \in [RoleGroups -> SUBSET Ingress]
    /\ ready \subseteq RoleGroups
    /\ status \in ClusterStatus
    /\ edits \in 0 .. MaxEdits /\ faults \in 0 .. MaxFaults
    /\ pc \in InGroup => group \in RoleGroups
    /\ pc = "idle" => /\ group = Cluster /\ added = {} /\ readySeen = {}
                      /\ listeners = NoListeners

\* Deleted by somebody else since it was applied, or there.
ThereOrTampered(id) == Exists(id) \/ id \in Deletable

\* The pods of a StatefulSet run under the ServiceAccount and RoleBinding the
\* operator made: whatever fails, restarts or is scaled away, no StatefulSet is
\* there without them unless an outsider deletes them (apply order of
\* reconcile_kafka, orphan deletion).
PodsHaveIdentity ==
    \A g \in RoleGroups : Exists(Of("StatefulSet", g)) =>
        ThereOrTampered(Single("ServiceAccount")) /\ ThereOrTampered(Single("RoleBinding"))

\* Every host a discovery ConfigMap lists belongs to a role group whose Listener
\* exists: a role group is unpublished before its Listener is deleted, also when
\* the run that removes it fails or restarts half-way.
PublishedHostsExist ==
    \A k \in {"Discovery", "DiscoveryNodePort"} : Exists(Single(k)) =>
        \A h \in api[Single(k)].hosts : ThereOrTampered(Of("Listener", h.group))

\* id is in the API server exactly as a run over s with these addresses leaves it.
AsIn(id, s, lsts) ==
    IF id \in Desired(s) THEN api[id] = Render(id, s, lsts) ELSE ~Exists(id)

\* When a run comes to report its status, the objects in the API server are those
\* of the spec it reports on: none of another spec, none left over, none missing
\* but what an outsider deleted meanwhile (an earlier failed run, a changed role
\* group or a changed operation leave nothing behind).
ReportsWhatIsApplied ==
    pc = "status" /\ ~Paused =>
        \A id \in Id : AsIn(id, snap, listeners) \/ (id \in Deletable /\ ~Exists(id))

Quiescent == pc = "idle" /\ request = "none" /\ ~clusterEvent /\ ~ownedEvent

\* No change is lost: when nothing is queued, running or on its way, the operator
\* has worked on the user's current spec, and unless that does not decode, the
\* status tells the operation and the availability of now and, unless paused, every
\* watched object is what the spec asks for, with the current addresses in the
\* discovery ConfigMaps (captured listeners and readiness are never left stale,
\* no error is left without a retry).
QuiescentMeansDone ==
    Quiescent =>
        /\ cached = spec
        /\ spec.form # "undecodable" =>
            /\ ~Refused(spec)
            /\ status = [operation |-> spec.operation, available |-> spec.groups \subseteq ready]
            /\ spec.operation # "pause" =>
                /\ spec.groups \cap spec.unbuildable = {}
                /\ \A id \in Id : AsIn(id, spec, addresses) \/ (id \in Deletable /\ ~Watched(id))

\* The operator deletes an object only after everything its snapshot asks for has
\* been applied in the same run, and never something its snapshot asks for: a
\* role group that fails never costs another one its objects.
DeletesOnlyOrphans ==
    [][\A id \in Id : Exists(id) /\ ~Exists(id)' /\ faults' = faults =>
            /\ id \notin Desired(snap)
            /\ \A d \in Desired(snap) : ThereOrTampered(d) /\ (Exists(d) => AsIn(d, snap, listeners))
      ]_vars

\* When the operator creates or changes a StatefulSet, whose pods restart with it,
\* the Listener, Service, ConfigMap, ServiceAccount and RoleBinding its pods use are
\* there and rendered from the same snapshot of the spec.
StatefulSetComesLast ==
    [][\A g \in RoleGroups :
            LET sts == Of("StatefulSet", g)
            IN  Exists(sts)' /\ api'[sts] # api[sts] =>
                \A id \in {Single("ServiceAccount"), Single("RoleBinding"), Of("Listener", g),
                           Of("Service", g), Of("ConfigMap", g)} :
                    ThereOrTampered(id) /\ (Exists(id) => AsIn(id, snap, listeners))
      ]_vars

\* A spec a run can get through.
Healthy(s) ==
    /\ s.form = "ok" /\ ~Refused(s)
    /\ s.groups \cap s.unbuildable = {}
    /\ s.operation # "pause"

Converged ==
    /\ \A id \in Id : AsIn(id, spec, addresses)
    /\ \A g \in spec.groups : addresses[g] # {} /\ \A i \in addresses[g] : i.ports = ListenerPortNames(spec.security)
    /\ status = [operation |-> spec.operation, available |-> TRUE]

\* No StatefulSet is in the way with other volume claim templates than those of s.
Compatible(s) == \A g \in s.groups : ~Immutable(Of("StatefulSet", g), s)

\* Once the spec stays healthy and no StatefulSet has other volume claims (because it
\* never had, or somebody deleted it), the cluster becomes what the spec says and stays
\* so: all objects, nothing else, every role group published with its addresses, and
\* the status saying so, whatever failed, was refused, restarted or deleted before.
Convergence == <>[](Healthy(spec) /\ Compatible(spec)) => <>[]Converged

\* A paused run only reads: it gets through if every object is there and the
\* addresses have the port the discovery ConfigMaps publish.
Readable(s) == (\A id \in Desired(s) : Exists(id)) /\ Publishable(s, addresses)

PauseReported ==
    status = [operation |-> "pause", available |-> spec.groups \subseteq ready]

\* A cluster that stays paused, with all the objects of its spec, gets a status that
\* says so and follows the readiness of its StatefulSets, although the run works on
\* captured copies and is only woken by events.
PausedStatusFollows ==
    <>[](spec.operation = "pause" /\ Readable(spec)) => <>[]PauseReported

\* The CRD's words: while paused "the operator will however still watch the deployed
\* resources at the time and update the custom resource status field".
PauseIsAlwaysReported == <>[](spec.operation = "pause") => <>[]PauseReported

-----------------------------------------------------------------------------
(* What the control loop promises: ordered deployments of the user's specs *)

\* What has to be there before an object: a StatefulSet's pods use the other objects
\* of the role group and run under the ServiceAccount and its RoleBinding; a discovery
\* ConfigMap lists the addresses of Listeners.
NeededBy(id) ==
    CASE id.kind = "RoleBinding" -> {Single("ServiceAccount")}
      [] id.kind = "StatefulSet" -> {Single("ServiceAccount"), Single("RoleBinding"),
                                     Of("Listener", id.group), Of("Service", id.group),
                                     Of("ConfigMap", id.group)}
      [] id.kind \in {"Discovery", "DiscoveryNodePort"} -> {Of("Listener", g) : g \in RoleGroups}
      [] OTHER -> {}

\* The contents a spec can give an object, whatever the addresses.
FormsOf(id, s) ==
    LET r == Render(id, s, NoListeners)
        published == [group : s.groups, address : Addresses, port : {DiscoveryPortName(s.security)}]
    IN  [ports : {r.ports}, running : {r.running}, claims : {r.claims},
         hosts : IF id.kind \in {"Discovery", "DiscoveryNodePort"} THEN SUBSET published ELSE {{}}]

Deployment == INSTANCE ClusterDeployment WITH
    Objects    <- Id,
    Contents   <- Content,
    Plans      <- ClusterSpecs,
    NoPlan     <- Absent,
    Wanted     <- [s \in ClusterSpecs |-> Desired(s)],
    Forms      <- [s \in ClusterSpecs |-> [id \in Id |-> FormsOf(id, s)]],
    Needs      <- [id \in Id |-> NeededBy(id)],
    Frozen     <- {s \in ClusterSpecs : s.operation = "pause"},
    Tamperable <- Deletable,
    Reports    <- [s \in ClusterSpecs |-> [operation : {s.operation}, available : BOOLEAN]],
    NoReport   <- [operation |-> "unknown", available |-> FALSE],
    target     <- IF pc = "idle" THEN Absent ELSE snap,
    done       <- added,
    objects    <- api,
    report     <- status

\* Every run of reconcile_kafka is a deployment of its snapshot: needed objects first,
\* then what needs them, nothing pruned before all is applied, nothing reported before
\* all is pruned, and only in forms of the snapshot, whatever fails in between.
ImplementsDeployment == Deployment!Spec
=============================================================================
