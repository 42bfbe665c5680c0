-------------------------- MODULE BrokerRolloutProofs --------------------------
(***************************************************************************)
(* Proofs about BrokerRollout, for every number of replicas, every set of  *)
(* SecretClasses and of configurations, and every bound.                   *)
(***************************************************************************)
EXTENDS BrokerRollout, TLAPS

-----------------------------------------------------------------------------
(* What the settings of an accepted configuration look like *)

\* TLS and Kerberos exclude each other, and Kerberos comes with a server SecretClass.
Sound(s) ==
    /\ s \in Security
    /\ ~(Kerberos(s) /\ TlsClientAuthentication(s))
    /\ ValidAuthenticationMethods(s)

\* new_from_kafka_cluster gives well-typed settings.
LEMMA SettingsType == \A c \in Configuration : Settings(c) \in Security
<1> SUFFICES ASSUME NEW c \in Configuration PROVE Settings(c) \in Security
  OBVIOUS
<1>1. {c.authentication[i] : i \in DOMAIN c.authentication} \in SUBSET AuthenticationClass
  BY DEF Configuration
<1>2. c.tls = {} \/ \E t \in KafkaTls : c.tls = {t}
  BY DEF Configuration, Option
<1>3. CASE c.tls = {}
  <2>1. Settings(c) = [classes  |-> {c.authentication[i] : i \in DOMAIN c.authentication},
                       internal |-> "tls", server |-> {}]
    BY <1>3 DEF Settings, NewFromKafkaCluster, IsSome, InternalTlsDefault
  <2> QED
    BY <1>1, <2>1, DefaultClassAssumption DEF Security, Option
<1>4. CASE \E t \in KafkaTls : c.tls = {t}
  <2>1. PICK t \in KafkaTls : c.tls = {t}
    BY <1>4
  <2>2. Settings(c) = [classes  |-> {c.authentication[i] : i \in DOMAIN c.authentication},
                       internal |-> t.internal, server |-> t.server]
    BY <2>1 DEF Settings, NewFromKafkaCluster, IsSome
  <2> QED
    BY <1>1, <2>1, <2>2 DEF Security, KafkaTls
<1> QED
  BY <1>2, <1>3, <1>4

\* validate and validate_authentication_methods let only sound settings through.
LEMMA AcceptedSound == \A c \in Configuration : Accepted(c) => Sound(Settings(c))
<1> SUFFICES ASSUME NEW c \in Configuration, Accepted(c) PROVE Sound(Settings(c))
  OBVIOUS
<1>1. Settings(c).classes = {c.authentication[i] : i \in DOMAIN c.authentication}
  BY DEF Settings, NewFromKafkaCluster
<1>2. \A i, j \in DOMAIN c.authentication : i = j
  BY DEF Accepted, ValidAuthenticationClasses, Configuration
<1>3. \A x, y \in Settings(c).classes : x = y
  BY <1>1, <1>2
<1>4. ~(Kerberos(Settings(c)) /\ TlsClientAuthentication(Settings(c)))
  BY <1>3 DEF Kerberos, TlsClientAuthentication
<1> QED
  BY <1>4, SettingsType DEF Sound, Accepted
-----------------------------------------------------------------------------
(* The inductive invariant *)

\* All settings that reach an object are sound, and every running broker has a keystore
\* for each of its listeners that encrypts.
PodsSound ==
    /\ \A s \in configMap \cup template : Sound(s)
    /\ \A b \in Pods : \A p \in pod[b] :
           /\ Sound(p.template)
           /\ \A c \in p.config : Boots(p.template, c)

IInv == TypeOK /\ PodsSound

\* Init establishes the invariant.
LEMMA InitInv == Init => IInv
  BY BoundsAssumption DEF Init, IInv, TypeOK, PodsSound, AtMostOne, Pods

\* A pod that is replaced by a sound pod, or removed, leaves the invariant intact.
LEMMA PodStep ==
    ASSUME IInv, UNCHANGED operator, crashes' \in 0 .. MaxCrashes,
           NEW b \in Pods,
           NEW o \in SUBSET Pod, AtMostOne(o), pod' = [pod EXCEPT ![b] = o],
           \A p \in o : /\ AtMostOne(p.config) /\ (p.config = {} <=> p.phase = "created")
                        /\ p.phase = "registered" => p.joined
                        /\ Sound(p.template)
                        /\ \A c \in p.config : Boots(p.template, c)
    PROVE  IInv'
<1>1. /\ wanted' \in Configurations
      /\ (configMap' \subseteq Security /\ AtMostOne(configMap'))
      /\ (template' \subseteq Security /\ AtMostOne(template'))
      /\ edits' \in 0 .. MaxEdits /\ crashes' \in 0 .. MaxCrashes
  BY DEF IInv, TypeOK, operator
<1>2. pod' \in [Pods -> SUBSET Pod]
  BY DEF IInv, TypeOK
<1>3. \A c \in Pods : pod'[c] = pod[c] \/ pod'[c] = o
  BY DEF IInv, TypeOK
<1>4. \A s : Sound(s) => ValidAuthenticationMethods(s)
  BY DEF Sound
<1>5. \A c \in Pods : AtMostOne(pod'[c]) /\ \A p \in pod'[c] :
           /\ AtMostOne(p.config) /\ (p.config = {} <=> p.phase = "created")
           /\ p.phase = "registered" => p.joined
           /\ ValidAuthenticationMethods(p.template)
  BY <1>3, <1>4 DEF IInv, TypeOK
<1>6. \A c \in Pods : \A p \in pod'[c] :
           Sound(p.template) /\ \A d \in p.config : Boots(p.template, d)
  BY <1>3 DEF IInv, PodsSound
<1>7. \A s \in configMap' \cup template' : Sound(s)
  BY DEF IInv, PodsSound, operator
<1>8. TypeOK'
  BY <1>1, <1>2, <1>5 DEF TypeOK, AtMostOne
<1>9. PodsSound'
  BY <1>6, <1>7 DEF PodsSound
<1> QED
  BY <1>8, <1>9 DEF IInv

\* The same for a pod that becomes p.
LEMMA PodBecomes ==
    ASSUME IInv, UNCHANGED operator, crashes' \in 0 .. MaxCrashes,
           NEW b \in Pods, NEW p \in Pod, pod' = [pod EXCEPT ![b] = {p}],
           AtMostOne(p.config), p.config = {} <=> p.phase = "created",
           p.phase = "registered" => p.joined,
           Sound(p.template),
           \A c \in p.config : Boots(p.template, c)
    PROVE  IInv'
<1>1. {p} \in SUBSET Pod /\ AtMostOne({p})
  BY DEF AtMostOne
<1> QED
  BY <1>1, PodStep

\* The same for a pod that goes.
LEMMA PodGoes ==
    ASSUME IInv, UNCHANGED operator, crashes' \in 0 .. MaxCrashes,
           NEW b \in Pods, pod' = [pod EXCEPT ![b] = {}]
    PROVE  IInv'
<1>1. {} \in SUBSET Pod /\ AtMostOne({})
  BY DEF AtMostOne
<1> QED
  BY <1>1, PodStep

\* The user and the operator leave the pods alone and write sound settings only.
LEMMA OperatorInv == IInv /\ (UserEdits \/ Operator) => IInv'
<1> SUFFICES ASSUME IInv, UserEdits \/ Operator PROVE IInv'
  OBVIOUS
<1>1. pod' = pod /\ crashes' = crashes
  BY DEF UserEdits, Operator, ApplyConfigMap, ApplyStatefulSet
<1>2. wanted' \in Configurations /\ edits' \in 0 .. MaxEdits
  BY BoundsAssumption DEF UserEdits, Operator, ApplyConfigMap, ApplyStatefulSet, IInv, TypeOK
<1>3. /\ (configMap' \subseteq Security /\ AtMostOne(configMap'))
      /\ \A s \in configMap' : Sound(s)
  <2>1. CASE ApplyConfigMap
    <3>1. wanted \in Configuration /\ Accepted(wanted) /\ configMap' = {Settings(wanted)}
      BY <2>1, ConfigurationsAssumption DEF ApplyConfigMap, IInv, TypeOK
    <3> QED
      BY <3>1, SettingsType, AcceptedSound DEF AtMostOne
  <2>2. CASE configMap' = configMap
    BY <2>2 DEF IInv, TypeOK, PodsSound
  <2> QED
    BY <2>1, <2>2 DEF UserEdits, Operator, ApplyStatefulSet
<1>4. /\ (template' \subseteq Security /\ AtMostOne(template'))
      /\ \A s \in template' : Sound(s)
  BY DEF UserEdits, Operator, ApplyConfigMap, ApplyStatefulSet, IInv, TypeOK, PodsSound
<1>5. TypeOK'
  BY <1>1, <1>2, <1>3, <1>4 DEF IInv, TypeOK
<1>6. PodsSound'
  BY <1>1, <1>3, <1>4 DEF IInv, PodsSound
<1> QED
  BY <1>5, <1>6 DEF IInv

\* So does what the controllers, the kubelet and the broker do to a pod.
LEMMA KubernetesInv == \A b \in Pods : IInv /\ Kubernetes(b) => IInv'
<1> SUFFICES ASSUME NEW b \in Pods, IInv, Kubernetes(b) PROVE IInv'
  OBVIOUS
<1>1. crashes' \in 0 .. MaxCrashes /\ UNCHANGED operator
  BY DEF Kubernetes, CreatePod, ReplacePod, StartBroker, Register, Probe, IInv, TypeOK
<1>2. \A p \in pod[b] :
        /\ p \in Pod
        /\ AtMostOne(p.config) /\ (p.config = {} <=> p.phase = "created")
        /\ p.phase = "registered" => p.joined
        /\ Sound(p.template)
        /\ \A c \in p.config : Boots(p.template, c)
  BY DEF IInv, TypeOK, PodsSound
<1>3. CASE CreatePod(b)
  <2>1. PICK s \in template : pod' = [pod EXCEPT ![b] =
                {[template |-> s, config |-> {}, phase |-> "created",
                  joined |-> FALSE, ready |-> FALSE]}]
    BY <1>3 DEF CreatePod
  <2>2. s \in Security /\ Sound(s)
    BY DEF IInv, TypeOK, PodsSound
  <2> DEFINE p == [template |-> s, config |-> {}, phase |-> "created",
                   joined |-> FALSE, ready |-> FALSE]
  <2>3. p \in Pod
    BY <2>2 DEF Pod, Phases
  <2>4. /\ AtMostOne(p.config) /\ (p.config = {} <=> p.phase = "created")
        /\ (p.phase = "registered" => p.joined)
        /\ Sound(p.template) /\ \A c \in p.config : Boots(p.template, c)
    BY <2>2 DEF AtMostOne
  <2>5. pod' = [pod EXCEPT ![b] = {p}]
    BY <2>1
  <2> QED
    BY <1>1, <2>3, <2>4, <2>5, PodBecomes
<1>4. CASE ReplacePod(b)
  BY <1>1, <1>4, PodGoes DEF ReplacePod
<1>5. CASE StartBroker(b)
  <2>1. PICK p \in pod[b], c \in configMap :
            /\ Boots(p.template, c)
            /\ pod' = [pod EXCEPT ![b] = {[p EXCEPT !.phase = "started", !.config = {c}]}]
    BY <1>5 DEF StartBroker
  <2> DEFINE q == [p EXCEPT !.phase = "started", !.config = {c}]
  <2>2. q \in Pod
    BY <1>2 DEF IInv, TypeOK, Pod, Phases
  <2>3. /\ AtMostOne(q.config) /\ (q.config = {} <=> q.phase = "created")
        /\ (q.phase = "registered" => q.joined)
        /\ Sound(q.template) /\ \A d \in q.config : Boots(q.template, d)
    BY <1>2, <2>1 DEF AtMostOne, Pod
  <2>4. pod' = [pod EXCEPT ![b] = {q}]
    BY <2>1
  <2> QED
    BY <1>1, <2>2, <2>3, <2>4, PodBecomes
<1>6. CASE Register(b)
  <2>1. PICK p \in pod[b] :
            /\ p.phase = "started"
            /\ pod' = [pod EXCEPT ![b] = {[p EXCEPT !.phase = "registered", !.joined = TRUE]}]
    BY <1>6 DEF Register
  <2> DEFINE q == [p EXCEPT !.phase = "registered", !.joined = TRUE]
  <2>2. q \in Pod
    BY <1>2 DEF Pod, Phases
  <2>3. /\ AtMostOne(q.config) /\ (q.config = {} <=> q.phase = "created")
        /\ (q.phase = "registered" => q.joined)
        /\ Sound(q.template) /\ \A d \in q.config : Boots(q.template, d)
    BY <1>2, <2>1 DEF AtMostOne, Pod
  <2>4. pod' = [pod EXCEPT ![b] = {q}]
    BY <2>1
  <2> QED
    BY <1>1, <2>2, <2>3, <2>4, PodBecomes
<1>7. CASE Probe(b)
  <2>1. PICK p \in pod[b], r \in BOOLEAN : pod' = [pod EXCEPT ![b] = {[p EXCEPT !.ready = r]}]
    BY <1>7, Zenon DEF Probe
  <2> DEFINE q == [p EXCEPT !.ready = r]
  <2>2. q \in Pod
    BY <1>2 DEF Pod
  <2>3. /\ AtMostOne(q.config) /\ (q.config = {} <=> q.phase = "created")
        /\ (q.phase = "registered" => q.joined)
        /\ Sound(q.template) /\ \A d \in q.config : Boots(q.template, d)
    BY <1>2, <2>1 DEF AtMostOne, Pod
  <2>4. pod' = [pod EXCEPT ![b] = {q}]
    BY <2>1
  <2> QED
    BY <1>1, <2>2, <2>3, <2>4, PodBecomes
<1> QED
  BY <1>3, <1>4, <1>5, <1>6, <1>7 DEF Kubernetes

\* A broker that dies forgets what it has read, and a lost pod everything.
LEMMA CrashInv == \A b \in Pods : IInv /\ (BrokerDies(b) \/ PodLost(b)) => IInv'
<1> SUFFICES ASSUME NEW b \in Pods, IInv, BrokerDies(b) \/ PodLost(b) PROVE IInv'
  OBVIOUS
<1>1. crashes' \in 0 .. MaxCrashes /\ UNCHANGED operator
  <2>1. Crash /\ UNCHANGED operator
    BY DEF BrokerDies, PodLost
  <2>2. crashes \in 0 .. MaxCrashes
    BY DEF IInv, TypeOK
  <2> QED
    BY <2>1, <2>2, BoundsAssumption DEF Crash
<1>2. CASE BrokerDies(b)
  <2>1. PICK p \in pod[b] :
            pod' = [pod EXCEPT ![b] = {[p EXCEPT !.phase = "created", !.config = {}]}]
    BY <1>2 DEF BrokerDies
  <2> DEFINE q == [p EXCEPT !.phase = "created", !.config = {}]
  <2>2. p \in Pod /\ Sound(p.template)
    BY DEF IInv, TypeOK, PodsSound
  <2>3. q \in Pod
    BY <2>2 DEF Pod, Phases
  <2>4. /\ AtMostOne(q.config) /\ (q.config = {} <=> q.phase = "created")
        /\ (q.phase = "registered" => q.joined)
        /\ Sound(q.template) /\ \A d \in q.config : Boots(q.template, d)
    BY <2>2 DEF AtMostOne, Pod
  <2>5. pod' = [pod EXCEPT ![b] = {q}]
    BY <2>1
  <2> QED
    BY <1>1, <2>3, <2>4, <2>5, PodBecomes
<1>3. CASE PodLost(b)
  BY <1>1, <1>3, PodGoes DEF PodLost
<1> QED
  BY <1>2, <1>3

\* No step touches the invariant.
LEMMA NextInv == IInv /\ [Next]_vars => IInv'
<1> SUFFICES ASSUME IInv, [Next]_vars PROVE IInv'
  OBVIOUS
<1>1. CASE Next
  BY <1>1, OperatorInv, KubernetesInv, CrashInv DEF Next
<1>2. CASE UNCHANGED vars
  BY <1>2 DEF vars, operator, IInv, TypeOK, PodsSound
<1> QED
  BY <1>1, <1>2

\* The pods run sound settings with all the keystores they need, in every behaviour.
THEOREM RolloutInvariance == Spec => []IInv
  BY InitInv, NextInv, PTL DEF Spec

\* Every variable keeps its type, whatever configurations are asked for.
THEOREM RolloutTypeCorrect == Spec => []TypeOK
  BY RolloutInvariance, PTL DEF IInv
-----------------------------------------------------------------------------
(* Readiness *)

\* The probe of a pod passes only after its broker has joined.
LEMMA ReadinessKept ==
    IInv /\ ProbedMeansRegistered /\ [Next]_vars => ProbedMeansRegistered'
<1> SUFFICES ASSUME IInv, ProbedMeansRegistered, [Next]_vars PROVE ProbedMeansRegistered'
  OBVIOUS
<1>1. \A b \in Pods : \A p \in pod[b] :
        /\ p \in Pod
        /\ p.ready => Vouched(p)
        /\ p.phase = "registered" => p.joined
  BY DEF IInv, TypeOK, ProbedMeansRegistered
<1>2. ASSUME NEW b \in Pods, NEW q \in pod'[b]
      PROVE  q.ready => Vouched(q)
  <2>1. CASE q \in pod[b]
    BY <1>1, <2>1
  <2>2. CASE CreatePod(b)
    <3>1. PICK s \in template : pod' = [pod EXCEPT ![b] =
                {[template |-> s, config |-> {}, phase |-> "created",
                  joined |-> FALSE, ready |-> FALSE]}]
      BY <2>2 DEF CreatePod
    <3>2. q = [template |-> s, config |-> {}, phase |-> "created",
               joined |-> FALSE, ready |-> FALSE]
      BY <3>1 DEF IInv, TypeOK
    <3> QED
      BY <3>2
  <2>3. CASE StartBroker(b)
    <3>1. PICK p \in pod[b], c \in configMap :
            q = [p EXCEPT !.phase = "started", !.config = {c}]
      BY <2>3 DEF StartBroker, IInv, TypeOK
    <3> QED
      BY <1>1, <3>1 DEF Pod, Vouched
  <2>4. CASE Register(b)
    <3>1. PICK p \in pod[b] : q = [p EXCEPT !.phase = "registered", !.joined = TRUE]
      BY <2>4 DEF Register, IInv, TypeOK
    <3> QED
      BY <1>1, <3>1 DEF Pod, Vouched
  <2>5. CASE Probe(b)
    <3>1. PICK p \in pod[b], r \in BOOLEAN :
            /\ q = [p EXCEPT !.ready = r]
            /\ r /\ ProbeRunsKcat(p.template) => p.phase = "registered"
      <4>1. PICK p \in pod[b], r \in BOOLEAN :
              /\ pod' = [pod EXCEPT ![b] = {[p EXCEPT !.ready = r]}]
              /\ r = (ProbeRunsKcat(p.template) =>
                        p.phase = "registered" /\ Accepts(p, "localhost",
                            ClientPort(p.template), KcatProtocol(p.template)))
        BY <2>5, Zenon DEF Probe
      <4>2. q = [p EXCEPT !.ready = r]
        BY <4>1 DEF IInv, TypeOK
      <4> QED
        BY <4>1, <4>2
    <3> QED
      BY <1>1, <3>1 DEF Pod, Vouched
  <2>6. CASE BrokerDies(b)
    <3>1. PICK p \in pod[b] : q = [p EXCEPT !.phase = "created", !.config = {}]
      BY <2>6 DEF BrokerDies, IInv, TypeOK
    <3> QED
      BY <1>1, <3>1 DEF Pod, Vouched
  <2>7. \/ q \in pod[b] \/ CreatePod(b) \/ StartBroker(b) \/ Register(b) \/ Probe(b)
        \/ BrokerDies(b)
    <3>1. CASE \E c \in Pods \ {b} : Kubernetes(c) \/ BrokerDies(c) \/ PodLost(c)
      <4>1. pod'[b] = pod[b]
        BY <3>1 DEF Kubernetes, CreatePod, ReplacePod, StartBroker, Register, Probe,
           BrokerDies, PodLost, IInv, TypeOK
      <4> QED
        BY <4>1
    <3>2. CASE ReplacePod(b) \/ PodLost(b)
      BY <3>2 DEF ReplacePod, PodLost, IInv, TypeOK
    <3>3. CASE pod' = pod
      BY <3>3
    <3> QED
      BY <3>1, <3>2, <3>3 DEF Next, Kubernetes, UserEdits, Operator, ApplyConfigMap,
         ApplyStatefulSet, vars
  <2> QED
    BY <2>1, <2>2, <2>3, <2>4, <2>5, <2>6, <2>7
<1> QED
  BY <1>2 DEF ProbedMeansRegistered

\* A ready pod whose probe runs kcat, which is every pod without Kerberos, has a broker
\* that has joined the cluster: the Service never sends traffic to one that has not.
THEOREM ReadyOnlyAfterRegistration == Spec => []ProbedMeansRegistered
<1>1. Init => ProbedMeansRegistered
  BY DEF Init, ProbedMeansRegistered
<1>2. IInv /\ ProbedMeansRegistered /\ [Next]_vars => ProbedMeansRegistered'
  BY ReadinessKept
<1> QED
  BY <1>1, <1>2, RolloutInvariance, PTL DEF Spec

\* A rolling update takes down a pod only after each pod above it has the new template
\* and has entered the quorum, or runs with Kerberos.
THEOREM RollingUpdateWaits == Spec => WaitsForQuorum
<1>1. IInv /\ ProbedMeansRegistered /\ [Next]_vars =>
        [\A b \in Pods :
           pod[b] # {} /\ pod'[b] = {} /\ crashes' = crashes =>
               \A c \in Pods : c > b => \E p \in pod[c] : ~Outdated(p) /\ Vouched(p)]_vars
  <2> SUFFICES ASSUME IInv, ProbedMeansRegistered, Next,
                      NEW b \in Pods, pod[b] # {}, pod'[b] = {}, crashes' = crashes,
                      NEW c \in Pods, c > b
               PROVE  \E p \in pod[c] : ~Outdated(p) /\ Vouched(p)
    BY DEF vars
  <2>1. ReplacePod(b)
    <3>1. CASE \E d \in Pods : Kubernetes(d)
      <4>1. PICK d \in Pods : Kubernetes(d)
        BY <3>1
      <4>2. d = b
        BY <4>1 DEF Kubernetes, CreatePod, ReplacePod, StartBroker, Register, Probe, IInv, TypeOK
      <4>3. ~CreatePod(b)
        BY DEF CreatePod
      <4>4. pod \in [Pods -> SUBSET Pod]
        BY DEF IInv, TypeOK
      <4>5. ~StartBroker(b)
        BY <4>4 DEF StartBroker
      <4>6. ~Register(b)
        BY <4>4 DEF Register
      <4>7. ~Probe(b)
        BY <4>4 DEF Probe
      <4> QED
        BY <4>1, <4>2, <4>3, <4>5, <4>6, <4>7 DEF Kubernetes
    <3>2. CASE \E d \in Pods : BrokerDies(d) \/ PodLost(d)
      <4>1. Crash
        BY <3>2 DEF BrokerDies, PodLost
      <4>2. crashes \in Nat
        BY BoundsAssumption DEF IInv, TypeOK
      <4> QED
        BY <4>1, <4>2 DEF Crash
    <3> QED
      BY <3>1, <3>2 DEF Next, UserEdits, Operator, ApplyConfigMap, ApplyStatefulSet
  <2> QED
    BY <2>1 DEF ReplacePod, ProbedMeansRegistered
<1> QED
  BY <1>1, ReadyOnlyAfterRegistration, RolloutInvariance, PTL DEF Spec, WaitsForQuorum
-----------------------------------------------------------------------------
(* Connections *)

\* A name that only one of the ports has stands for the number of that port.
LEMMA PortNamedIs ==
    ASSUME NEW ports, NEW x \in ports, \A p \in ports : p.name = x.name => p = x
    PROVE  PortNamed(ports, x.name) = x.port
<1> DEFINE y == CHOOSE p \in ports : p.name = x.name
<1>1. y \in ports /\ y.name = x.name
  OBVIOUS
<1>2. y = x
  BY <1>1
<1> HIDE DEF y
<1>3. y.port = x.port
  BY <1>2
<1> QED
  BY <1>3 DEF PortNamed, y

\* The number behind the client port's name, and behind the name discovery publishes.
LEMMA PortNumbers ==
    ASSUME NEW s
    PROVE  /\ PortNamed(ContainerPorts(s), ClientPortName(s)) = ClientPort(s)
           /\ PortNamed(ListenerPorts(s), DiscoveryPortName(s)) =
                  IF Kerberos(s) THEN BootstrapPort(s) ELSE ClientPort(s)
<1> DEFINE client == [name |-> ClientPortName(s), port |-> ClientPort(s)]
           bootstrap == [name |-> BootstrapPortName, port |-> BootstrapPort(s)]
<1>1. /\ client \in ListenerPorts(s)
      /\ \A p \in ListenerPorts(s) : p.name = client.name => p = client
  BY DEF ListenerPorts, MetricsPort, ClientPortName, BootstrapPortName
<1>2. Kerberos(s) =>
        /\ bootstrap \in ListenerPorts(s)
        /\ \A p \in ListenerPorts(s) : p.name = bootstrap.name => p = bootstrap
  BY DEF ListenerPorts, MetricsPort, ClientPortName, BootstrapPortName
<1>3. PortNamed(ListenerPorts(s), ClientPortName(s)) = ClientPort(s)
  BY <1>1, PortNamedIs
<1>4. Kerberos(s) => PortNamed(ListenerPorts(s), BootstrapPortName) = BootstrapPort(s)
  BY <1>2, PortNamedIs
<1> QED
  BY <1>3, <1>4 DEF ContainerPorts, DiscoveryPortName

\* The certificate in every keystore directory carries all names but localhost.
LEMMA KeystoreScopes ==
    ASSUME NEW s, NEW c, NEW k \in Keystores(c), NEW v \in Volumes(s), v.dir = k.dir
    PROVE  {"pod", "broker", "bootstrap"} \subseteq v.scopes
<1>1. k.dir # "tls-kcat"
  BY DEF Keystores
<1> QED
  BY <1>1 DEF Volumes

\* A booted broker accepts whoever dials one of its listeners by its port and protocol,
\* under a name that listener has a principal for if it is a Kerberos one.
LEMMA ListenerAccepts ==
    ASSUME NEW p, NEW c \in p.config, Boots(p.template, c),
           NEW l \in KafkaListeners(p.template), NEW host \in {"pod", "broker", "bootstrap"},
           host # "pod" => \E q \in ContainerPorts(p.template) : q.port = l.port,
           l.protocol = "SASL_SSL" =>
               /\ [listener |-> l.name, host |-> host] \in Principals(p.template)
               /\ host \in Keytab(p.template)
    PROVE  Accepts(p, host, l.port, l.protocol)
<1>1. Encrypted(l.protocol) =>
        \E k \in Keystores(c), v \in Volumes(p.template) :
            k.listener = l.name /\ v.dir = k.dir /\ host \in v.scopes
  <2> SUFFICES ASSUME Encrypted(l.protocol)
               PROVE  \E k \in Keystores(c), v \in Volumes(p.template) :
                          k.listener = l.name /\ v.dir = k.dir /\ host \in v.scopes
    OBVIOUS
  <2>1. PICK k \in Keystores(c) : k.listener = l.name /\ \E v \in Volumes(p.template) : v.dir = k.dir
    BY DEF Boots
  <2>2. PICK v \in Volumes(p.template) : v.dir = k.dir
    BY <2>1
  <2> QED
    BY <2>1, <2>2, KeystoreScopes
<1> QED
  BY <1>1 DEF Accepts

\* The client listener speaks what clients speak, on the client port, which is open.
LEMMA ClientListenerReached ==
    ASSUME NEW s, Sound(s)
    PROVE  LET l == ClientListener(s) IN
           /\ l \in KafkaListeners(s)
           /\ l.port = ClientPort(s) /\ l.protocol = KcatProtocol(s)
           /\ \E q \in ContainerPorts(s) : q.port = l.port
           /\ l.protocol = "SASL_SSL" =>
                  /\ [listener |-> l.name, host |-> "broker"] \in Principals(s)
                  /\ "broker" \in Keytab(s)
<1>1. ~(Kerberos(s) /\ TlsClientAuthentication(s)) /\ (Kerberos(s) => TlsServer(s))
  BY DEF Sound, ValidAuthenticationMethods
<1>2. [name |-> ClientPortName(s), port |-> ClientPort(s)] \in ContainerPorts(s)
  BY DEF ContainerPorts, ListenerPorts
<1>3. ClientListener(s) \in KafkaListeners(s)
  BY DEF KafkaListeners
<1>4. ClientListener(s).port = ClientPort(s) /\ ClientListener(s).protocol = KcatProtocol(s)
  BY <1>1 DEF ClientListener, ClientPort, TlsEnabled, KcatProtocol
<1>5. ClientListener(s).protocol = "SASL_SSL" => Kerberos(s) /\ ClientListener(s).name = "CLIENT"
  BY DEF ClientListener
<1>6. \E q \in ContainerPorts(s) : q.port = ClientListener(s).port
  BY <1>2, <1>4
<1> QED
  BY <1>3, <1>4, <1>5, <1>6 DEF Principals, Keytab

\* So does, with Kerberos, the bootstrap listener, under the bootstrap name.
LEMMA BootstrapListenerReached ==
    ASSUME NEW s, Sound(s), Kerberos(s)
    PROVE  \E l \in KafkaListeners(s) :
           /\ l.port = BootstrapPort(s) /\ l.protocol = KcatProtocol(s)
           /\ \E q \in ContainerPorts(s) : q.port = l.port
           /\ [listener |-> l.name, host |-> "bootstrap"] \in Principals(s)
           /\ "bootstrap" \in Keytab(s)
<1> DEFINE l == [name |-> "BOOTSTRAP", port |-> BootstrapPort(s), protocol |-> "SASL_SSL"]
<1>1. ~TlsClientAuthentication(s)
  BY DEF Sound
<1>2. l \in KafkaListeners(s)
  BY DEF KafkaListeners, BootstrapListeners
<1>3. l.protocol = KcatProtocol(s)
  BY <1>1 DEF KcatProtocol
<1>4. [name |-> BootstrapPortName, port |-> BootstrapPort(s)] \in ContainerPorts(s)
  BY DEF ContainerPorts, ListenerPorts
<1>5. [listener |-> l.name, host |-> "bootstrap"] \in Principals(s) /\ "bootstrap" \in Keytab(s)
  BY DEF Principals, Keytab
<1>6. \E q \in ContainerPorts(s) : q.port = l.port
  BY <1>4
<1> QED
  BY <1>2, <1>3, <1>5, <1>6

\* A registered broker runs sound settings and has read a configuration it boots with.
LEMMA RegisteredBoots ==
    ASSUME IInv, NEW b \in Pods, NEW p \in Registered(b)
    PROVE  p \in pod[b] /\ Sound(p.template) /\ \E c \in p.config : Boots(p.template, c)
  BY DEF Registered, IInv, TypeOK, PodsSound

\* The name and port a client gets for listener l of a broker with settings t.
LEMMA AdvertisedTo ==
    ASSUME NEW t, NEW l
    PROVE  Advertised(t, l) = IF l.name = "INTERNAL" THEN [host |-> "pod", port |-> l.port]
                              ELSE [host |-> "broker", port |-> ClientPort(t)]
  BY PortNumbers DEF Advertised

\* Whatever accepted configurations the brokers run, a client of any of them that follows
\* discovery and the advertised addresses is accepted at every hop.
THEOREM ClientsAlwaysGetThrough == Spec => []ClientsGetThrough
<1>1. IInv => ClientsGetThrough
  <2> SUFFICES ASSUME IInv, NEW b \in Pods, NEW c \in Pods,
                      NEW p \in Registered(b), NEW q \in Registered(c),
                      SameForClients(p.template, q.template)
               PROVE  LET protocol == KcatProtocol(p.template)
                          published == PortNamed(ListenerPorts(p.template),
                                                 DiscoveryPortName(p.template))
                      IN  /\ Accepts(p, "bootstrap", published, protocol)
                          /\ \A l \in KafkaListeners(p.template) :
                                 l.port = published =>
                                     LET to == Advertised(q.template, l) IN
                                         Accepts(q, to.host, to.port, protocol)
    BY DEF ClientsGetThrough
  <2> DEFINE s == p.template
             t == q.template
             published == PortNamed(ListenerPorts(s), DiscoveryPortName(s))
  <2>1. Sound(s) /\ Sound(t)
    BY RegisteredBoots
  <2>2. PICK d \in p.config : Boots(s, d)
    BY RegisteredBoots
  <2>3. PICK e \in q.config : Boots(t, e)
    BY RegisteredBoots
  <2>4. published = IF Kerberos(s) THEN BootstrapPort(s) ELSE ClientPort(s)
    BY PortNumbers
  <2>5. Accepts(p, "bootstrap", published, KcatProtocol(s))
    <3>1. CASE Kerberos(s)
      <4>1. PICK l \in KafkaListeners(s) :
               /\ l.port = BootstrapPort(s) /\ l.protocol = KcatProtocol(s)
               /\ \E x \in ContainerPorts(s) : x.port = l.port
               /\ [listener |-> l.name, host |-> "bootstrap"] \in Principals(s)
               /\ "bootstrap" \in Keytab(s)
        BY <2>1, <3>1, BootstrapListenerReached
      <4>2. Accepts(p, "bootstrap", l.port, l.protocol)
        BY <2>2, <4>1, ListenerAccepts
      <4> QED
        BY <2>4, <3>1, <4>1, <4>2
    <3>2. CASE ~Kerberos(s)
      <4>1. KcatProtocol(s) # "SASL_SSL"
        BY <3>2 DEF KcatProtocol
      <4>2. Accepts(p, "bootstrap", ClientListener(s).port, ClientListener(s).protocol)
        BY <2>1, <2>2, <4>1, ClientListenerReached, ListenerAccepts
      <4> QED
        BY <2>1, <2>4, <3>2, <4>2, ClientListenerReached
    <3> QED
      BY <3>1, <3>2
  <2>6. Accepts(q, "broker", ClientPort(t), KcatProtocol(s))
    <3>1. Accepts(q, "broker", ClientListener(t).port, ClientListener(t).protocol)
      BY <2>1, <2>3, ClientListenerReached, ListenerAccepts
    <3>2. ClientListener(t).protocol = KcatProtocol(s) /\ ClientListener(t).port = ClientPort(t)
      BY <2>1, ClientListenerReached DEF SameForClients
    <3> QED
      BY <3>1, <3>2
  <2>7. ASSUME NEW l \in KafkaListeners(s), l.port = published
        PROVE  Advertised(t, l) = [host |-> "broker", port |-> ClientPort(t)]
    <3>1. published \notin {19092, 19093}
      BY <2>4 DEF BootstrapPort, ClientPort
    <3>2. l # InternalListener(s)
      BY <2>7, <3>1 DEF InternalListener, InternalPort
    <3>3. l.name # "INTERNAL"
      BY <3>2 DEF KafkaListeners, ClientListener, BootstrapListeners
    <3> QED
      BY <3>3, AdvertisedTo
  <2> QED
    BY <2>5, <2>6, <2>7
<1> QED
  BY <1>1, RolloutInvariance, PTL

\* Whatever else differs between two brokers, if they agree on internal TLS they can talk.
THEOREM PeersAlwaysGetThrough == Spec => []PeersGetThrough
<1>1. IInv => PeersGetThrough
  <2> SUFFICES ASSUME IInv, NEW b \in Pods, NEW c \in Pods,
                      NEW p \in Registered(b), NEW q \in Registered(c),
                      InternalListener(q.template) = InternalListener(p.template)
               PROVE  LET l == InternalListener(p.template)
                          to == Advertised(q.template, l)
                      IN  Accepts(q, to.host, to.port, l.protocol)
    BY DEF PeersGetThrough
  <2> DEFINE l == InternalListener(q.template)
  <2>1. PICK e \in q.config : Boots(q.template, e)
    BY RegisteredBoots
  <2>2. l \in KafkaListeners(q.template) /\ l.name = "INTERNAL" /\ l.protocol # "SASL_SSL"
    BY DEF KafkaListeners, InternalListener
  <2>3. Accepts(q, "pod", l.port, l.protocol)
    BY <2>1, <2>2, ListenerAccepts
  <2>4. Advertised(q.template, l) = [host |-> "pod", port |-> l.port]
    BY <2>2, AdvertisedTo
  <2> QED
    BY <2>3, <2>4
<1> QED
  BY <1>1, RolloutInvariance, PTL
=============================================================================
