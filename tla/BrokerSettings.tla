----------------------------- MODULE BrokerSettings -----------------------------
(***************************************************************************)
(* How settings get from the spec to a broker.  A role group's settings    *)
(* are merged from those of the group, of the role and the defaults; some  *)
(* reach the broker through the pod template and some through the          *)
(* ConfigMap of the role group, which a container reads when it starts.    *)
(* Only a change of the template makes Kubernetes replace a pod.           *)
(*                                                                         *)
(* Settings, properties and variables are functions of the names for which *)
(* something is said.  Each role group has one broker.                     *)
(***************************************************************************)
EXTENDS Naturals

CONSTANTS
    RoleGroups,     \* names of role groups
    Specs,          \* the specs the user may write
    MaxEdits,       \* bound: edits of the spec
    MaxFaults       \* bound: failed runs and broker processes that die

ASSUME SettingsBoundsAssumption == MaxEdits \in Nat /\ MaxFaults \in Nat

\* What can be said of a role and of a role group, each part for some names only
Level == {"config", "configOverrides", "envOverrides", "podOverrides"}

\* opa and vectorAggregator: the settings are there or not
ASSUME SettingsSpecsAssumption ==
    \A s \in Specs : /\ s.opa \in BOOLEAN /\ s.vectorAggregator \in BOOLEAN
                     /\ DOMAIN s.role = Level
                     /\ DOMAIN s.groups = RoleGroups
                     /\ \A g \in RoleGroups : DOMAIN s.groups[g] = Level

-----------------------------------------------------------------------------
(* What the operator makes of a spec *)

Just(name, value) == [n \in {name} |-> value]

\* What f says, and what g says of other names
Or(f, g) == [n \in DOMAIN f \cup DOMAIN g |-> IF n \in DOMAIN f THEN f[n] ELSE g[n]]

\* get_affinity: preferably on a node without another broker of the cluster
DefaultAffinity == "apart"

\* KafkaConfig::default_config; logging stands for the choice for the Kafka container,
\* memory is in Mi
DefaultConfig ==
    [logging |-> "automatic", enableVectorAgent |-> FALSE, memory |-> 1024,
     affinity |-> DefaultAffinity, gracefulShutdownTimeout |-> "30m",
     brokerListenerClass |-> "cluster-internal", bootstrapListenerClass |-> "cluster-internal",
     requestedSecretLifetime |-> "1d"]

\* The role group's word counts before the role's.
Overrides(s, g, kind) == Or(s.groups[g][kind], s.role[kind])

\* KafkaCluster::merged_config
MergedConfig(s, g) == Or(Overrides(s, g, "config"), DefaultConfig)

\* compute_files, next to what the product configuration recommends
ComputedProperties(s) ==
    Or(Just("log.dirs", "topicdata"),
       IF s.opa THEN Just("authorizer.class.name", "OpaAuthorizer") ELSE <<>>)

\* graceful_shutdown_config_properties
GracefulShutdown == Just("controlled.shutdown.enable", "true")

\* Mutant: the user has the last word.
ServerPropertiesOverridden(s, g) ==
    Or(Overrides(s, g, "configOverrides"), Or(GracefulShutdown, ComputedProperties(s)))

\* The user has the last word, except on what is added after the overrides: this, and the
\* keystores and listeners, for which KafkaSecurity has Keystores.
ServerProperties(s, g) ==
    Or(GracefulShutdown, Or(Overrides(s, g, "configOverrides"), ComputedProperties(s)))

\* JAVA_HEAP_RATIO
HeapSize(memory) == (memory * 8) \div 10

\* Variables that come later in the list replace those of the same name.
Env(s, g) ==
    Or(Just("KAFKA_HEAP_OPTS", HeapSize(MergedConfig(s, g).memory)),
       Overrides(s, g, "envOverrides"))

\* Mutant: the choice of the role decides where the logging configuration comes from.
LogConfigVolumeOfRole(s, g) ==
    IF "logging" \in DOMAIN s.role.config /\ s.role.config.logging # "automatic"
    THEN s.role.config.logging ELSE "role group"

\* The ConfigMap the volume log-config is made of: the user's own, or the role group's
LogConfigVolume(s, g) ==
    IF MergedConfig(s, g).logging # "automatic" THEN MergedConfig(s, g).logging ELSE "role group"

\* Settings that are taken over into the pod template
InTemplate == {"enableVectorAgent", "memory", "affinity", "gracefulShutdownTimeout",
               "brokerListenerClass", "requestedSecretLifetime"}

Taken(config) == [n \in InTemplate |-> config[n]]

\* Mutant: the URL of OPA is not part of the command line.
TemplateWithoutOpa(s, g) ==
    Or(Overrides(s, g, "podOverrides"),
       Or([opaUrl |-> FALSE, env |-> Env(s, g), logConfig |-> LogConfigVolume(s, g)],
          Taken(MergedConfig(s, g))))

\* build_broker_rolegroup_statefulset; the pod overrides are merged in last
Template(s, g) ==
    Or(Overrides(s, g, "podOverrides"),
       Or([opaUrl |-> s.opa, env |-> Env(s, g), logConfig |-> LogConfigVolume(s, g)],
          Taken(MergedConfig(s, g))))

\* extend_role_group_config_map
Files(s, g) ==
    (IF MergedConfig(s, g).logging = "automatic" THEN {"log4j.properties"} ELSE {})
        \cup (IF MergedConfig(s, g).enableVectorAgent THEN {"vector.yaml"} ELSE {})

\* build_broker_rolegroup_config_map
ConfigMap(s, g) == [server |-> ServerProperties(s, g), files |-> Files(s, g)]

\* The configuration of a Vector agent needs the address of the aggregator.
Buildable(s, g) == MergedConfig(s, g).enableVectorAgent => s.vectorAggregator

\* All there can be
Properties == {ServerProperties(s, g) : s \in Specs, g \in RoleGroups}
ConfigMaps == {ConfigMap(s, g) : s \in Specs, g \in RoleGroups}
Templates == {Template(s, g) : s \in Specs, g \in RoleGroups}

-----------------------------------------------------------------------------
VARIABLES
    spec,           \* the user's spec
    due,            \* something happened since the last run began, or it failed
    running, snap, todo, half,
                    \* a run: whether there is one, its spec, the role groups it has not
                    \* come to, the one whose ConfigMap is applied but not its StatefulSet
    configMaps, templates,  \* by role group, the object if it is there
    pods,           \* by role group, the broker's pod if it is there
    edits, faults

vars == <<spec, due, running, snap, todo, half, configMaps, templates, pods, edits, faults>>
run == <<running, snap, todo, half>>

\* A pod has its template, and its broker, once it runs, the properties it has read.
NewPod(t) == [template |-> t, server |-> {}]

UserEdits ==
    /\ edits < MaxEdits /\ edits' = edits + 1
    /\ spec' \in Specs \ {spec} /\ due' = TRUE
    /\ UNCHANGED <<run, configMaps, templates, pods, faults>>

StartRun ==
    /\ ~running /\ due
    /\ running' = TRUE /\ due' = FALSE
    /\ snap' = spec /\ todo' = RoleGroups /\ half' = {}
    /\ UNCHANGED <<spec, configMaps, templates, pods, edits, faults>>

ApplyConfigMap(g) ==
    /\ running /\ half = {} /\ g \in todo /\ Buildable(snap, g)
    /\ configMaps' = [configMaps EXCEPT ![g] = {ConfigMap(snap, g)}]
    /\ todo' = todo \ {g} /\ half' = {g}
    /\ UNCHANGED <<spec, due, running, snap, templates, pods, edits, faults>>

ApplyStatefulSet(g) ==
    /\ g \in half
    /\ templates' = [templates EXCEPT ![g] = {Template(snap, g)}]
    /\ half' = {}
    /\ UNCHANGED <<spec, due, running, snap, todo, configMaps, pods, edits, faults>>

EndRun ==
    /\ running /\ todo = {} /\ half = {}
    /\ running' = FALSE
    /\ UNCHANGED <<spec, due, snap, todo, half, configMaps, templates, pods, edits, faults>>

\* Mutant: the error leaves the rest of the run behind.
AbortHalfway == running' = FALSE /\ due' = TRUE /\ UNCHANGED <<todo, half>>

Abort == running' = FALSE /\ due' = TRUE /\ todo' = {} /\ half' = {}

\* A role group without the address its agent needs ends the run.
BuildFails(g) ==
    /\ running /\ half = {} /\ g \in todo /\ ~Buildable(snap, g)
    /\ Abort
    /\ UNCHANGED <<spec, snap, configMaps, templates, pods, edits, faults>>

RunFails ==
    /\ running /\ Abort
    /\ faults < MaxFaults /\ faults' = faults + 1
    /\ UNCHANGED <<spec, snap, configMaps, templates, pods, edits>>

\* Pods come and go in the status of the StatefulSet, which is watched.
CreatePod(g) ==
    /\ pods[g] = {}
    /\ \E t \in templates[g] : pods' = [pods EXCEPT ![g] = {NewPod(t)}]
    /\ due' = TRUE
    /\ UNCHANGED <<spec, run, configMaps, templates, edits, faults>>

ReplacePod(g) ==
    /\ \E p \in pods[g] : p.template \notin templates[g]
    /\ pods' = [pods EXCEPT ![g] = {}]
    /\ due' = TRUE
    /\ UNCHANGED <<spec, run, configMaps, templates, edits, faults>>

\* The broker reads the mounted ConfigMap as it is now.
StartBroker(g) ==
    /\ \E p \in pods[g], c \in configMaps[g] :
           /\ p.server = {}
           /\ pods' = [pods EXCEPT ![g] = {[p EXCEPT !.server = {c.server}]}]
    /\ due' = TRUE
    /\ UNCHANGED <<spec, run, configMaps, templates, edits, faults>>

\* The process dies and the kubelet starts the container again in the same pod.
BrokerDies(g) ==
    /\ faults < MaxFaults /\ faults' = faults + 1
    /\ \E p \in pods[g] : p.server # {} /\ pods' = [pods EXCEPT ![g] = {NewPod(p.template)}]
    /\ due' = TRUE
    /\ UNCHANGED <<spec, run, configMaps, templates, edits>>

Init ==
    /\ spec \in Specs /\ due = TRUE
    /\ running = FALSE /\ snap = spec /\ todo = {} /\ half = {}
    /\ configMaps = [g \in RoleGroups |-> {}] /\ templates = configMaps
    /\ pods = [g \in RoleGroups |-> {}]
    /\ edits = 0 /\ faults = 0

Next ==
    \/ UserEdits \/ StartRun \/ EndRun \/ RunFails
    \/ \E g \in RoleGroups :
           \/ ApplyConfigMap(g) \/ ApplyStatefulSet(g) \/ BuildFails(g)
           \/ CreatePod(g) \/ ReplacePod(g) \/ StartBroker(g) \/ BrokerDies(g)

Spec == Init /\ [][Next]_vars

-----------------------------------------------------------------------------
(* Properties *)

\* Every variable has its type, and nothing of a run is left when it ends.
TypeOK ==
    /\ spec \in Specs /\ snap \in Specs /\ due \in BOOLEAN /\ running \in BOOLEAN
    /\ todo \subseteq RoleGroups /\ half \subseteq RoleGroups /\ todo \cap half = {}
    /\ ~running => todo = {} /\ half = {}
    /\ configMaps \in [RoleGroups -> SUBSET ConfigMaps]
    /\ templates \in [RoleGroups -> SUBSET Templates]
    /\ pods \in [RoleGroups -> SUBSET [template : Templates, server : SUBSET Properties]]
    /\ edits \in 0 .. MaxEdits /\ faults \in 0 .. MaxFaults

AtRest == ~running /\ ~due

\* Brokers that run in a pod the StatefulSet controller will leave alone
Current(g) == {p \in pods[g] : p.template \in templates[g] /\ p.server # {}}

AsksOpa(p) == p.template.opaUrl /\ \E s \in p.server : "authorizer.class.name" \in DOMAIN s

\* At rest a broker has its authorization decided by OPA if the spec has an opa field, and
\* by nobody if not; the class of the authorizer comes from the ConfigMap and the URL of
\* OPA from the pod template.
SettledAuthorizes ==
    AtRest => \A g \in RoleGroups : \A p \in Current(g) :
        /\ AsksOpa(p) <=> spec.opa
        /\ ~spec.opa => \A s \in p.server : "authorizer.class.name" \notin DOMAIN s

\* Every broker shuts down in a controlled way, whatever the overrides of its role and its
\* role group say, and however often they change under it.
ShutdownIsControlled ==
    \A g \in RoleGroups : \A p \in pods[g] : \A s \in p.server :
        s["controlled.shutdown.enable"] = "true"

\* What a pod points at is there: at rest the ConfigMap of the role group has a logging
\* configuration just if the volume log-config is made of it, and a configuration of the
\* Vector agent just if there is one in the pod.  The two objects are built apart, from
\* levels that are merged.
MountsResolve ==
    AtRest => \A g \in RoleGroups : \A t \in templates[g] : \E c \in configMaps[g] :
        /\ t.logConfig = "role group" <=> "log4j.properties" \in c.files
        /\ t.enableVectorAgent <=> "vector.yaml" \in c.files

\* "Environment variables can be (over)written": the most specific level that sets one.
EnvOverridesCount ==
    AtRest => \A g \in RoleGroups : \A t \in templates[g] :
        \A v \in DOMAIN Overrides(spec, g, "envOverrides") :
            t.env[v] = Overrides(spec, g, "envOverrides")[v]
=============================================================================
