----------------------------- MODULE KafkaSecurity -----------------------------
(***************************************************************************)
(* The security settings of a KafkaCluster and everything that is derived  *)
(* from them: port names and numbers, the listeners a broker binds and     *)
(* advertises, the stores its configuration refers to and the volumes that *)
(* are mounted for them, and the command of the readiness probe.           *)
(*                                                                         *)
(* The module is constant-level: the state machines extend it.  An         *)
(* Option<T> of the code is a set with at most one element.                *)
(***************************************************************************)
EXTENDS Naturals, FiniteSets, Sequences

CONSTANT SecretClasses    \* names of SecretClasses, the default "tls" among them

\* InternalTlsDefault names a SecretClass.
ASSUME DefaultClassAssumption == "tls" \in SecretClasses

Option(S) == {{}} \cup {{x} : x \in S}
IsSome(o) == o # {}

-----------------------------------------------------------------------------
(* The part of the custom resource that concerns security. *)

Providers == {"Tls", "Kerberos", "Static", "Ldap", "Oidc"}

\* An AuthenticationClass; clientCert is clientCertSecretClass (Tls only).
AuthenticationClass ==
    {c \in [provider : Providers, clientCert : Option(SecretClasses)] :
        c.provider # "Tls" => c.clientCert = {}}

\* The empty string switches internal TLS off.
NoInternalClass == ""
InternalTlsDefault == "tls"
ServerTlsDefault == {"tls"}

KafkaTls == [internal : SecretClasses \cup {NoInternalClass},
             server   : Option(SecretClasses)]
DefaultKafkaTls == [internal |-> InternalTlsDefault, server |-> ServerTlsDefault]

\* What KafkaTlsSecurity holds once the AuthenticationClasses are resolved.
Security == [classes  : SUBSET AuthenticationClass,
             internal : SecretClasses \cup {NoInternalClass},
             server   : Option(SecretClasses)]

\* new_from_kafka_cluster: tls absent means the default internal class and no server class.
NewFromKafkaCluster(authentication, tls) ==
    [classes  |-> {authentication[i] : i \in DOMAIN authentication},
     internal |-> IF IsSome(tls) THEN (CHOOSE t \in tls : TRUE).internal
                                 ELSE InternalTlsDefault,
     server   |-> UNION {t.server : t \in tls}]

\* ResolvedAuthenticationClasses::validate
ValidAuthenticationClasses(authentication) ==
    /\ Len(authentication) <= 1
    /\ \A i \in DOMAIN authentication : authentication[i].provider \in {"Tls", "Kerberos"}

-----------------------------------------------------------------------------
(* The accessors of KafkaTlsSecurity. *)

TlsClientAuthentication(s) == \E c \in s.classes : c.provider = "Tls"
Kerberos(s) == \E c \in s.classes : c.provider = "Kerberos"
TlsServer(s) == IsSome(s.server)
TlsEnabled(s) == TlsClientAuthentication(s) \/ TlsServer(s)
TlsInternal(s) == s.internal # NoInternalClass

\* validate_authentication_methods: Kerberos requires a server SecretClass
ValidAuthenticationMethods(s) == Kerberos(s) => TlsServer(s)

\* get_tls_secret_class: the class of the client certificates, else the server's
TlsSecretClass(s) ==
    LET clientCert == UNION {c.clientCert : c \in {d \in s.classes : d.provider = "Tls"}}
    IN  IF IsSome(clientCert) THEN clientCert ELSE s.server

ClientPort(s) == IF TlsEnabled(s) THEN 9093 ELSE 9092
ClientPortName(s) == IF TlsEnabled(s) THEN "kafka-tls" ELSE "kafka"
BootstrapPort(s) == IF TlsEnabled(s) THEN 9095 ELSE 9094
BootstrapPortName == "bootstrap"
InternalPort(s) == IF TlsInternal(s) THEN 19093 ELSE 19092
MetricsPort == [name |-> "metrics", port |-> 9606]

PortNames == {"metrics", "kafka", "kafka-tls", "bootstrap"}

\* listener_ports (the bootstrap Listener) and container_ports (the Kafka container)
ListenerPorts(s) ==
    {MetricsPort, [name |-> ClientPortName(s), port |-> ClientPort(s)]} \cup
        (IF Kerberos(s) THEN {[name |-> BootstrapPortName, port |-> BootstrapPort(s)]} ELSE {})
ContainerPorts(s) == ListenerPorts(s)
PortNamed(ports, name) == (CHOOSE p \in ports : p.name = name).port
ListenerPortNames(s) == {p.name : p \in ListenerPorts(s)}

\* The port whose addresses build_discovery_configmaps publishes
DiscoveryPortName(s) == IF Kerberos(s) THEN BootstrapPortName ELSE ClientPortName(s)

-----------------------------------------------------------------------------
(* get_kafka_listener_config: the listeners a broker binds and advertises. *)

\* The names by which a broker can be dialled: the address of its own Listener, that of
\* the bootstrap Listener of its role group, its pod name, and localhost in the pod.
HostNames == {"broker", "bootstrap", "pod", "localhost"}
Protocols == {"PLAINTEXT", "SSL", "SASL_SSL"}
Encrypted(protocol) == protocol # "PLAINTEXT"

ClientListener(s) ==
    IF TlsClientAuthentication(s)
    THEN [name |-> "CLIENT_AUTH", port |-> ClientPort(s), protocol |-> "SSL"]
    ELSE IF Kerberos(s)
    THEN [name |-> "CLIENT", port |-> 9093, protocol |-> "SASL_SSL"]
    ELSE IF TlsServer(s)
    THEN [name |-> "CLIENT", port |-> ClientPort(s), protocol |-> "SSL"]
    ELSE [name |-> "CLIENT", port |-> 9092, protocol |-> "PLAINTEXT"]

InternalListener(s) ==
    IF Kerberos(s) \/ TlsInternal(s)
    THEN [name |-> "INTERNAL", port |-> 19093, protocol |-> "SSL"]
    ELSE [name |-> "INTERNAL", port |-> InternalPort(s), protocol |-> "PLAINTEXT"]

BootstrapListeners(s) ==
    IF Kerberos(s)
    THEN {[name |-> "BOOTSTRAP", port |-> BootstrapPort(s), protocol |-> "SASL_SSL"]}
    ELSE {}

KafkaListeners(s) == {ClientListener(s), InternalListener(s)} \cup BootstrapListeners(s)

\* Mutant: the BOOTSTRAP listener advertises the bootstrap address.
AdvertisedAsReached(s, l) ==
    IF l.name = "INTERNAL"
    THEN [host |-> "pod", port |-> l.port]
    ELSE [host |-> IF l.name = "BOOTSTRAP" THEN "bootstrap" ELSE "broker",
          port |-> PortNamed(ContainerPorts(s), ClientPortName(s))]

\* Where a client that came in through listener l is sent.  The port file of the broker's
\* Listener, named like the client port, holds the number of the container port.
Advertised(s, l) ==
    IF l.name = "INTERNAL"
    THEN [host |-> "pod", port |-> l.port]
    ELSE [host |-> "broker",
          port |-> PortNamed(ContainerPorts(s), ClientPortName(s))]

-----------------------------------------------------------------------------
(* config_settings, the volumes of the pod and the JAAS configuration. *)

\* The keystore directories server.properties names, by listener
Keystores(s) ==
    (IF TlsClientAuthentication(s) THEN {[listener |-> "CLIENT_AUTH", dir |-> "tls-kafka-server"]}
     ELSE IF TlsServer(s) THEN {[listener |-> "CLIENT", dir |-> "tls-kafka-server"]} ELSE {})
    \cup (IF Kerberos(s) THEN {[listener |-> "BOOTSTRAP", dir |-> "tls-kafka-server"]} ELSE {})
    \cup (IF TlsInternal(s) THEN {[listener |-> "INTERNAL", dir |-> "tls-kafka-internal"]} ELSE {})

\* Mutant: the certificates are issued for the Listeners only, as the keytab is.
VolumesWithoutPodScope(s) ==
    (IF IsSome(TlsSecretClass(s))
     THEN {[dir |-> "tls-kcat", scopes |-> {"pod"}],
           [dir |-> "tls-kafka-server", scopes |-> {"broker", "bootstrap"}]} ELSE {})
    \cup (IF TlsInternal(s)
     THEN {[dir |-> "tls-kafka-internal", scopes |-> {"broker", "bootstrap"}]} ELSE {})

\* add_volume_and_volume_mounts: the directories mounted, with the scopes of the
\* certificate in them
Volumes(s) ==
    (IF IsSome(TlsSecretClass(s))
     THEN {[dir |-> "tls-kcat", scopes |-> {"pod"}],
           [dir |-> "tls-kafka-server", scopes |-> {"pod", "broker", "bootstrap"}]} ELSE {})
    \cup (IF TlsInternal(s)
     THEN {[dir |-> "tls-kafka-internal", scopes |-> {"pod", "broker", "bootstrap"}]} ELSE {})

\* add_kerberos_pod_config: the names for which the keytab holds a principal
Keytab(s) == IF Kerberos(s) THEN {"broker", "bootstrap"} ELSE {}

\* kafka_container_commands: the principal in the JAAS configuration of a listener
Principals(s) ==
    IF Kerberos(s) THEN {[listener |-> "CLIENT", host |-> "broker"],
                         [listener |-> "BOOTSTRAP", host |-> "bootstrap"]} ELSE {}

-----------------------------------------------------------------------------
(* kcat_prober_container_commands: the readiness probe. *)

\* Mutant: client authentication alone does not switch kcat to TLS.
KcatProtocolOfServer(s) ==
    IF Kerberos(s) THEN "SASL_SSL" ELSE IF TlsServer(s) THEN "SSL" ELSE "PLAINTEXT"

\* The security.protocol of kcat's arguments; what a client of the cluster uses as well
KcatProtocol(s) ==
    IF TlsClientAuthentication(s) THEN "SSL"
    ELSE IF Kerberos(s) THEN "SASL_SSL"
    ELSE IF TlsServer(s) THEN "SSL" ELSE "PLAINTEXT"

\* With Kerberos the argument of bash -c is the export alone; kcat and its arguments are
\* the positional parameters of that script, which does not use them.
ProbeRunsKcat(s) == TlsClientAuthentication(s) \/ ~Kerberos(s)
=============================================================================
