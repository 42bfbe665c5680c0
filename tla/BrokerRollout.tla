----------------------------- MODULE BrokerRollout -----------------------------
(***************************************************************************)
(* The broker pods of one role group while its security settings change.   *)
(* The operator writes the role group's ConfigMap and then its StatefulSet *)
(* (module KafkaReconcile has the run in full); the StatefulSet controller *)
(* creates the pods and replaces outdated ones; a broker reads the         *)
(* ConfigMap when its container starts, but its command line, its volumes  *)
(* and its readiness probe are those of the template its pod was made of.  *)
(***************************************************************************)
EXTENDS KafkaSecurity

CONSTANTS
    Replicas,           \* number of brokers; the pods are numbered 0 .. Replicas - 1
    Configurations,     \* what the user may ask for
    MaxEdits,           \* bound: edits of the configuration
    MaxCrashes          \* bound: broker processes that die and pods that are lost

Pods == 0 .. Replicas - 1

\* The part of the spec that concerns security, AuthenticationClasses looked up
Configuration == [authentication : Seq(AuthenticationClass), tls : Option(KafkaTls)]

\* created: the containers start up; started: Kafka runs; registered: it is in the quorum
Phases == {"created", "started", "registered"}
Pod == [template  : Security,           \* command line, volumes, probe
        config    : SUBSET Security,    \* server.properties the running broker has read
        phase     : Phases,
        joined    : BOOLEAN,            \* this pod's broker has once registered
        ready     : BOOLEAN]            \* result of the readiness probe

ASSUME ReplicasAssumption == Replicas \in Nat \ {0}
ASSUME ConfigurationsAssumption == Configurations \subseteq Configuration
ASSUME BoundsAssumption == MaxEdits \in Nat /\ MaxCrashes \in Nat

VARIABLES
    wanted,         \* the configuration in the spec
    configMap,      \* the settings in the role group's ConfigMap, once it exists
    template,       \* the settings in the StatefulSet's pod template, once it exists
    pod,            \* per ordinal, no pod or one
    edits, crashes  \* bounds

operator == <<wanted, configMap, template, edits>>
vars == <<operator, pod, crashes>>

-----------------------------------------------------------------------------
(* The user and the operator *)

Settings(c) == NewFromKafkaCluster(c.authentication, c.tls)

\* Mutant: Kerberos without TLS is let through.
AcceptedWithoutTls(c) == ValidAuthenticationClasses(c.authentication)

\* reconcile_kafka goes on to write objects only for such a configuration
Accepted(c) == /\ ValidAuthenticationClasses(c.authentication)
               /\ ValidAuthenticationMethods(Settings(c))

UserEdits ==
    /\ edits < MaxEdits
    /\ edits' = edits + 1
    /\ wanted' \in Configurations \ {wanted}
    /\ UNCHANGED <<configMap, template, pod, crashes>>

ApplyConfigMap ==
    /\ Accepted(wanted)
    /\ configMap' = {Settings(wanted)}
    /\ configMap' # configMap
    /\ UNCHANGED <<wanted, template, edits, pod, crashes>>

\* The second half of the same run, or of a later one that writes the same ConfigMap
ApplyStatefulSet ==
    /\ template # configMap
    /\ template' = configMap
    /\ UNCHANGED <<wanted, configMap, edits, pod, crashes>>

-----------------------------------------------------------------------------
(* The StatefulSet controller *)

Outdated(p) == p.template \notin template

\* podManagementPolicy Parallel: pods are created in any order
CreatePod(b) ==
    /\ pod[b] = {}
    /\ \E s \in template :
           pod' = [pod EXCEPT ![b] = {[template |-> s, config |-> {}, phase |-> "created",
                                       joined |-> FALSE, ready |-> FALSE]}]
    /\ UNCHANGED <<operator, crashes>>

\* RollingUpdate: outdated pods from the highest ordinal down, each once all the pods
\* above it are up to date and ready
ReplacePod(b) ==
    /\ \E p \in pod[b] : Outdated(p)
    /\ \A c \in Pods : c > b => \E p \in pod[c] : ~Outdated(p) /\ p.ready
    /\ pod' = [pod EXCEPT ![b] = {}]
    /\ UNCHANGED <<operator, crashes>>

-----------------------------------------------------------------------------
(* The broker of a pod *)

\* Kafka does not come up with a listener that encrypts and has no keystore to do it with.
Boots(t, c) ==
    \A l \in KafkaListeners(t) : Encrypted(l.protocol) =>
        \E k \in Keystores(c) : k.listener = l.name /\ \E v \in Volumes(t) : v.dir = k.dir

\* kafka_container_commands runs: the command line of the template, the mounted ConfigMap
StartBroker(b) ==
    /\ \E p \in pod[b], c \in configMap :
           /\ p.phase = "created"
           /\ Boots(p.template, c)
           /\ pod' = [pod EXCEPT ![b] = {[p EXCEPT !.phase = "started", !.config = {c}]}]
    /\ UNCHANGED <<operator, crashes>>

Register(b) ==
    /\ \E p \in pod[b] :
           /\ p.phase = "started"
           /\ pod' = [pod EXCEPT ![b] = {[p EXCEPT !.phase = "registered", !.joined = TRUE]}]
    /\ UNCHANGED <<operator, crashes>>

\* What it takes to connect to a broker as `host` on `port`: a listener there, reachable
\* through the ports of the Listener if need be, that speaks the protocol, a certificate
\* for that name if it encrypts, and a principal and key for that name if it is Kerberos.
Accepts(p, host, port, protocol) ==
    \E l \in KafkaListeners(p.template), c \in p.config :
        /\ l.port = port /\ l.protocol = protocol
        /\ host \in {"broker", "bootstrap"} => \E q \in ContainerPorts(p.template) : q.port = port
        /\ Encrypted(protocol) =>
               \E k \in Keystores(c), v \in Volumes(p.template) :
                   k.listener = l.name /\ v.dir = k.dir /\ (host \in v.scopes \/ host = "localhost")
        /\ protocol = "SASL_SSL" =>
               /\ [listener |-> l.name, host |-> host] \in Principals(p.template)
               /\ host \in Keytab(p.template)

\* Mutant: it is enough that the process runs.
ProbeOfProcess(b) ==
    /\ \E p \in pod[b] :
           /\ (p.phase # "created") # p.ready
           /\ pod' = [pod EXCEPT ![b] = {[p EXCEPT !.ready = p.phase # "created"]}]
    /\ UNCHANGED <<operator, crashes>>

\* The kubelet runs kcat_prober_container_commands: kcat lists the cluster's brokers
\* through the client port, which a broker answers once it has registered.
Probe(b) ==
    /\ \E p \in pod[b] :
           LET passes == ProbeRunsKcat(p.template) =>
                   p.phase = "registered" /\ Accepts(p, "localhost", ClientPort(p.template),
                                                     KcatProtocol(p.template))
           IN  /\ passes # p.ready
               /\ pod' = [pod EXCEPT ![b] = {[p EXCEPT !.ready = passes]}]
    /\ UNCHANGED <<operator, crashes>>

Crash == crashes < MaxCrashes /\ crashes' = crashes + 1

\* The process dies; the kubelet starts the container again in the same pod.
BrokerDies(b) ==
    /\ Crash
    /\ \E p \in pod[b] : p.phase # "created" /\
           pod' = [pod EXCEPT ![b] = {[p EXCEPT !.phase = "created", !.config = {}]}]
    /\ UNCHANGED operator

\* The pod is evicted or its node fails.
PodLost(b) ==
    /\ Crash
    /\ pod[b] # {}
    /\ pod' = [pod EXCEPT ![b] = {}]
    /\ UNCHANGED operator

-----------------------------------------------------------------------------
Init ==
    /\ wanted \in Configurations
    /\ configMap = {} /\ template = {}
    /\ pod = [b \in Pods |-> {}]
    /\ edits = 0 /\ crashes = 0

Operator == ApplyConfigMap \/ ApplyStatefulSet
Kubernetes(b) == CreatePod(b) \/ ReplacePod(b) \/ StartBroker(b) \/ Register(b) \/ Probe(b)
Next == \/ UserEdits
        \/ Operator
        \/ \E b \in Pods : Kubernetes(b) \/ BrokerDies(b) \/ PodLost(b)

Spec == Init /\ [][Next]_vars

\* The operator requeues until a run succeeds; the controllers and the kubelet retry.
Fairness ==
    /\ WF_vars(ApplyConfigMap) /\ WF_vars(ApplyStatefulSet)
    /\ \A b \in Pods : /\ WF_vars(CreatePod(b)) /\ WF_vars(ReplacePod(b))
                       /\ WF_vars(StartBroker(b)) /\ WF_vars(Register(b)) /\ WF_vars(Probe(b))
FairSpec == Spec /\ Fairness

-----------------------------------------------------------------------------
(* Properties *)

AtMostOne(o) == \A x, y \in o : x = y

\* Every variable has its type; a broker has read a configuration exactly while it runs;
\* only pods of accepted settings are ever made.
TypeOK ==
    /\ wanted \in Configurations
    /\ configMap \subseteq Security /\ AtMostOne(configMap)
    /\ template \subseteq Security /\ AtMostOne(template)
    /\ pod \in [Pods -> SUBSET Pod]
    /\ \A b \in Pods : AtMostOne(pod[b]) /\ \A p \in pod[b] :
           /\ AtMostOne(p.config) /\ (p.config = {} <=> p.phase = "created")
           /\ p.phase = "registered" => p.joined
           /\ ValidAuthenticationMethods(p.template)
    /\ edits \in 0 .. MaxEdits
    /\ crashes \in 0 .. MaxCrashes

Registered(b) == {p \in pod[b] : p.phase = "registered"}

\* Two settings that clients cannot tell apart
SameForClients(s, t) == ClientListener(s) = ClientListener(t) /\ Kerberos(s) = Kerberos(t)

\* A client takes a host and port from the discovery ConfigMap, reaches some broker through
\* the bootstrap Listener, is sent to any broker of the cluster that has the listener it
\* came in through, and is accepted by both: the port is bound and open, the protocol stays
\* the same, and certificate and Kerberos principal carry the name it dialled
\* (get_kafka_listener_config, config_settings, add_kerberos_pod_config, discovery).
\* Brokers of two settings that look alike to clients may be mixed, as in a rolling update.
ClientsGetThrough ==
    \A b, c \in Pods : \A p \in Registered(b), q \in Registered(c) :
        SameForClients(p.template, q.template) =>
            LET protocol == KcatProtocol(p.template)
                published == PortNamed(ListenerPorts(p.template), DiscoveryPortName(p.template))
            IN  /\ Accepts(p, "bootstrap", published, protocol)
                /\ \A l \in KafkaListeners(p.template) :
                       l.port = published =>
                           LET to == Advertised(q.template, l) IN
                               Accepts(q, to.host, to.port, protocol)

\* Two registered brokers whose settings agree on internal TLS can talk to each other on
\* the INTERNAL listener, whatever else differs between their templates and whichever
\* ConfigMap they have read (inter.broker.listener.name = INTERNAL, mutual TLS).
PeersGetThrough ==
    \A b, c \in Pods : \A p \in Registered(b), q \in Registered(c) :
        LET l == InternalListener(p.template) IN
            InternalListener(q.template) = l =>
                LET to == Advertised(q.template, l) IN Accepts(q, to.host, to.port, l.protocol)

\* The Service sends traffic only to pods whose broker has completed its registration at
\* some point: what the readiness probe is for (build_broker_rolegroup_statefulset).
ReadyMeansRegistered ==
    \A b \in Pods : \A p \in pod[b] : p.ready => p.joined

\* The probe says enough of pod p: its broker has joined, or it has no kcat to ask.
Vouched(p) == ProbeRunsKcat(p.template) => p.joined

\* So it is where the probe runs kcat, in whatever mix of templates the pod lives: neither
\* a crash nor a change of the settings makes a pod ready that has not joined.
ProbedMeansRegistered ==
    \A b \in Pods : \A p \in pod[b] : p.ready => Vouched(p)

\* A rolling update takes a pod down only when each pod above it runs the new template and,
\* if its probe can tell, has entered the quorum: the StatefulSet controller waits for it.
WaitsForQuorum ==
    [][\A b \in Pods :
           pod[b] # {} /\ pod'[b] = {} /\ crashes' = crashes =>
               \A c \in Pods : c > b => \E p \in pod[c] : ~Outdated(p) /\ Vouched(p)]_vars

\* Settings with which a broker comes up
Workable(c) == Accepted(c) /\ Boots(Settings(c), Settings(c))

\* If the user settles on a workable configuration, every broker ends up in a ready pod of
\* that configuration and registered, whatever half-rolled, unworkable or crashed state the
\* earlier configurations left behind.
RolloutCompletes ==
    <>[]Workable(wanted) =>
        <>[](\A b \in Pods : \E p \in Registered(b) :
                 p.template = Settings(wanted) /\ p.ready)

\* Every configuration that reconcile_kafka accepts gives pods that come up: with TLS or an
\* AuthenticationClass enabled, the volumes for the keystores are mounted (tls_enabled).
AcceptedMeansBootable ==
    \A b \in Pods : \A p \in pod[b] : {p.template} = configMap => Boots(p.template, p.template)

\* With an AuthenticationClass, brokers talk to each other over TLS (get_kafka_listener_config).
AuthenticationImpliesInternalTls ==
    \A b \in Pods : \A p \in Registered(b) :
        TlsClientAuthentication(p.template) \/ Kerberos(p.template) =>
            InternalListener(p.template).protocol = "SSL"
=============================================================================
