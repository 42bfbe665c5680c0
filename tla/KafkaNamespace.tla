----------------------------- MODULE KafkaNamespace -----------------------------
(***************************************************************************)
(* Several KafkaClusters in one namespace: the names and owners of the     *)
(* objects each of them gets, runs of reconcile_kafka of different         *)
(* clusters side by side, clusters that are deleted and created again      *)
(* under the same name while a run is under way, orphan deletion by label, *)
(* and the garbage collector of Kubernetes.                                *)
(*                                                                         *)
(* A name is the sequence of its parts, which hyphens join.  The steps of  *)
(* a run are taken from KafkaReconcile in coarser form: what it leaves out *)
(* here is the content of objects but for the hosts of discovery           *)
(* ConfigMaps.                                                             *)
(***************************************************************************)
EXTENDS Naturals, Sequences

CONSTANTS
    Parts,          \* the words that names are put together from
    Clusters,       \* names of clusters
    RoleGroups,     \* names of role groups
    Specs,          \* sets of role groups the user may ask for
    Kinds,          \* the kinds of objects that are looked at
    Absent,         \* the value of what does not exist
    MaxActs,        \* bound: clusters created, edited or deleted
    MaxFaults       \* bound: failed runs

AllKinds == {"ServiceAccount", "RoleBinding", "Listener", "Service", "ConfigMap",
             "StatefulSet", "PodDisruptionBudget"}

\* The words that the operator puts behind the name of a cluster
Suffixes == {"serviceaccount", "rolebinding", "broker", "nodeport", "bootstrap"}

ASSUME NamesAssumption ==
    /\ \A c \in Clusters : c \in Seq(Parts)
    /\ \A g \in RoleGroups : g \in Seq(Parts)
    /\ Suffixes \subseteq Parts
ASSUME KindsAssumption == Kinds \subseteq AllKinds
ASSUME NamespaceSpecsAssumption == Specs \subseteq SUBSET RoleGroups
ASSUME NamespaceBoundsAssumption == MaxActs \in Nat /\ MaxFaults \in Nat

-----------------------------------------------------------------------------
(* Names *)

\* RoleGroupRef::object_name
GroupName(c, g) == c \o <<"broker">> \o g

\* Mutant: one ServiceAccount for all clusters of a namespace, as before #793.
SharedIdentityName(c) == <<"kafka", "serviceaccount">>

IdentityName(c) == c \o <<"serviceaccount">>

\* Names of the objects of cluster c that belong to role group g ...
GroupNames(kind, c, g) ==
    CASE kind \in {"Service", "ConfigMap", "StatefulSet"} -> {GroupName(c, g)}
      [] kind = "Listener" -> {GroupName(c, g) \o <<"bootstrap">>}
      [] OTHER -> {}

\* ... and of those it has once.
ClusterNames(kind, c) ==
    CASE kind = "ServiceAccount"      -> {IdentityName(c)}
      [] kind = "RoleBinding"         -> {c \o <<"rolebinding">>}
      [] kind = "PodDisruptionBudget" -> {c \o <<"broker">>}
      [] kind = "ConfigMap"           -> {c, c \o <<"nodeport">>}
      [] OTHER -> {}

\* Everything a complete run for a cluster with these role groups applies
Desired ==
    [c \in Clusters |-> [groups \in SUBSET RoleGroups |->
        UNION {{[kind |-> k, name |-> n] :
                    n \in ClusterNames(k, c) \cup UNION {GroupNames(k, c, g) : g \in groups}} :
                k \in Kinds}]]

Object == UNION {Desired[c][RoleGroups] : c \in Clusters}

IsDiscovery(o, c) == o.kind = "ConfigMap" /\ o.name \in {c, c \o <<"nodeport">>}

\* RBAC first, the discovery ConfigMaps last; the objects of the role groups and the
\* PodDisruptionBudget between them.
Stage(o, c) ==
    CASE o.kind = "ServiceAccount" -> 1
      [] o.kind = "RoleBinding" -> 2
      [] o.kind = "PodDisruptionBudget" -> 4
      [] IsDiscovery(o, c) -> 5
      [] OTHER -> 3

-----------------------------------------------------------------------------
VARIABLES
    clusters,   \* the KafkaClusters in the API server
    uid,        \* the last uid given to one
    queue,      \* clusters with a reconcile request
    runs,       \* the run under way for each name
    objects,    \* the objects in the API server
    acts, faults

vars == <<clusters, uid, queue, runs, objects, acts, faults>>

\* A KafkaCluster; deleting: its foreground deletion has begun.
Cluster == [uid : Nat, groups : Specs, deleting : BOOLEAN]
\* A run works on the cluster it has read; added: what it has applied.
Run == [uid : Nat, groups : Specs, added : SUBSET Object]
\* owner: uid and name of the controller; instance: the label orphans are found by.
Content == [owner : Nat, ownerName : Clusters, instance : Clusters,
            hosts : SUBSET (Clusters \X RoleGroups)]

ASSUME NamespaceAbsentAssumption == Absent \notin Cluster \cup Run \cup Content

Exists(o) == objects[o] # Absent
Alive(c) == clusters[c] # Absent
Watched(o) == o.kind # "PodDisruptionBudget"

\* A watch event of an object asks for a run of the cluster that owns it.
Notify(o, content) == IF Watched(o) THEN {content.ownerName} ELSE {}

-----------------------------------------------------------------------------
(* The users of the namespace *)

Act == acts < MaxActs /\ acts' = acts + 1

Create(c) ==
    /\ Act /\ ~Alive(c)
    /\ uid' = uid + 1
    /\ \E s \in Specs :
        clusters' = [clusters EXCEPT ![c] = [uid |-> uid', groups |-> s, deleting |-> FALSE]]
    /\ queue' = queue \cup {c}
    /\ UNCHANGED <<runs, objects, faults>>

Edit(c) ==
    /\ Act /\ Alive(c)
    /\ \E s \in Specs \ {clusters[c].groups} : clusters' = [clusters EXCEPT ![c].groups = s]
    /\ queue' = queue \cup {c}
    /\ UNCHANGED <<uid, runs, objects, faults>>

\* Propagation policy Background ...
Delete(c) ==
    /\ Act /\ Alive(c)
    /\ clusters' = [clusters EXCEPT ![c] = Absent]
    /\ UNCHANGED <<uid, queue, runs, objects, faults>>

\* ... or Foreground: the cluster stays until nothing that blocks its deletion is left.
DeleteForeground(c) ==
    /\ Act /\ Alive(c) /\ ~clusters[c].deleting
    /\ clusters' = [clusters EXCEPT ![c].deleting = TRUE]
    /\ queue' = queue \cup {c}
    /\ UNCHANGED <<uid, runs, objects, faults>>

-----------------------------------------------------------------------------
(* The operator: one run for each name at a time, side by side for different names *)

\* A request for a cluster that is gone is dropped.
StartRun(c) ==
    /\ c \in queue /\ runs[c] = Absent
    /\ queue' = queue \ {c}
    /\ runs' = IF Alive(c)
               THEN [runs EXCEPT ![c] = [uid |-> clusters[c].uid, groups |-> clusters[c].groups,
                                         added |-> {}]]
               ELSE runs
    /\ UNCHANGED <<clusters, uid, objects, acts, faults>>

\* Mutant: the run looks at the spec as it is now.
TodoOfCurrentSpec(c) ==
    Desired[c][IF Alive(c) THEN clusters[c].groups ELSE runs[c].groups] \ runs[c].added

Todo(c) == Desired[c][runs[c].groups] \ runs[c].added

Render(o, c) ==
    [owner     |-> runs[c].uid,
     ownerName |-> c,
     instance  |-> c,
     hosts     |-> IF IsDiscovery(o, c) THEN {c} \X runs[c].groups ELSE {}]

\* Mutant: an object that is there is left to its owner.
ApplyIfAbsent(c, o) ==
    /\ runs[c] # Absent /\ o \in Todo(c)
    /\ \A p \in Todo(c) : Stage(p, c) >= Stage(o, c)
    /\ objects' = IF Exists(o) THEN objects ELSE [objects EXCEPT ![o] = Render(o, c)]
    /\ runs' = [runs EXCEPT ![c].added = @ \cup {o}]
    /\ queue' = IF objects' = objects THEN queue ELSE queue \cup Notify(o, Render(o, c))
    /\ UNCHANGED <<clusters, uid, acts, faults>>

\* Server-side apply by one field manager: the last writer's owner and labels replace
\* those of an object with the same name, and only the new owner hears of it.
Apply(c, o) ==
    /\ runs[c] # Absent /\ o \in Todo(c)
    /\ \A p \in Todo(c) : Stage(p, c) >= Stage(o, c)
    /\ objects' = [objects EXCEPT ![o] = Render(o, c)]
    /\ runs' = [runs EXCEPT ![c].added = @ \cup {o}]
    /\ queue' = IF objects' = objects THEN queue ELSE queue \cup Notify(o, Render(o, c))
    /\ UNCHANGED <<clusters, uid, acts, faults>>

\* Mutant: orphans are what carries the labels of the product.
OrphansOfProduct(c) == {o \in Object : Exists(o) /\ o \notin runs[c].added}

\* What carries the labels of this cluster and was not applied by the run.
Orphans(c) == {o \in Object : Exists(o) /\ objects[o].instance = c /\ o \notin runs[c].added}

DeleteOrphan(c, o) ==
    /\ runs[c] # Absent /\ Todo(c) = {}
    /\ o \in Orphans(c)
    /\ objects' = [objects EXCEPT ![o] = Absent]
    /\ queue' = queue \cup Notify(o, objects[o])
    /\ UNCHANGED <<clusters, uid, runs, acts, faults>>

EndRun(c) ==
    /\ runs[c] # Absent /\ Todo(c) = {} /\ Orphans(c) = {}
    /\ runs' = [runs EXCEPT ![c] = Absent]
    /\ UNCHANGED <<clusters, uid, queue, objects, acts, faults>>

RunFails(c) ==
    /\ runs[c] # Absent
    /\ faults < MaxFaults /\ faults' = faults + 1
    /\ runs' = [runs EXCEPT ![c] = Absent]
    /\ queue' = queue \cup {c}
    /\ UNCHANGED <<clusters, uid, objects, acts>>

-----------------------------------------------------------------------------
(* The garbage collector *)

\* Mutant: ownerreference_from_resource(.., Some(true), ..)
OwnerDeletionBlocked == TRUE

\* blockOwnerDeletion of the owner references: None
BlockOwnerDeletion == FALSE

OwnedBy(o, c) == Exists(o) /\ Alive(c) /\ objects[o].owner = clusters[c].uid

Garbage(o) ==
    /\ Exists(o)
    /\ \A c \in Clusters : OwnedBy(o, c) => clusters[c].deleting /\ BlockOwnerDeletion

Collect(o) ==
    /\ Garbage(o)
    /\ objects' = [objects EXCEPT ![o] = Absent]
    /\ queue' = queue \cup Notify(o, objects[o])
    /\ UNCHANGED <<clusters, uid, runs, acts, faults>>

\* Nothing blocks the deletion any more.
FinishDeletion(c) ==
    /\ Alive(c) /\ clusters[c].deleting
    /\ BlockOwnerDeletion => \A o \in Object : ~OwnedBy(o, c)
    /\ clusters' = [clusters EXCEPT ![c] = Absent]
    /\ UNCHANGED <<uid, queue, runs, objects, acts, faults>>

-----------------------------------------------------------------------------
Init ==
    /\ clusters = [c \in Clusters |-> Absent] /\ uid = 0
    /\ queue = {}
    /\ runs = [c \in Clusters |-> Absent]
    /\ objects = [o \in Object |-> Absent]
    /\ acts = 0 /\ faults = 0

Users(c) == Create(c) \/ Edit(c) \/ Delete(c) \/ DeleteForeground(c)
Step(c) == (\E o \in Object : Apply(c, o) \/ DeleteOrphan(c, o)) \/ EndRun(c)

Next ==
    \/ \E c \in Clusters : Users(c) \/ StartRun(c) \/ Step(c) \/ RunFails(c) \/ FinishDeletion(c)
    \/ \E o \in Object : Collect(o)

Spec == Init /\ [][Next]_vars

\* The operator goes on with some cluster, and the garbage collector with something.
Fairness ==
    /\ WF_vars(\E c \in Clusters : StartRun(c) \/ Step(c))
    /\ WF_vars((\E c \in Clusters : FinishDeletion(c)) \/ (\E o \in Object : Collect(o)))

FairSpec == Spec /\ Fairness

-----------------------------------------------------------------------------
(* Properties *)

\* Every variable has its type, and a run has only applied what its own copy of the
\* spec asks for.
TypeOK ==
    /\ clusters \in [Clusters -> Cluster \cup {Absent}]
    /\ uid \in Nat
    /\ queue \subseteq Clusters
    /\ runs \in [Clusters -> Run \cup {Absent}]
    /\ \A c \in Clusters : runs[c] # Absent => runs[c].added \subseteq Desired[c][runs[c].groups]
    /\ objects \in [Object -> Content \cup {Absent}]
    /\ acts \in 0 .. MaxActs /\ faults \in 0 .. MaxFaults

\* Objects keep their cluster, and one is deleted only as garbage or by a run of its own
\* cluster that has applied everything it wants: no run takes over or deletes what
\* a neighbour has applied.
StaysOffOthers ==
    [][\A o \in Object : Exists(o) /\ objects'[o] # objects[o] =>
            LET c == objects[o].ownerName
            IN  IF Exists(o)'
                THEN objects'[o].ownerName = c
                ELSE Garbage(o) \/ (runs[c] # Absent /\ Todo(c) = {} /\ o \notin runs[c].added)]_vars

\* A cluster that lives and for which nothing is asked for or under way
Settled(c) == Alive(c) /\ c \notin queue /\ runs[c] = Absent

\* An object as cluster c has it by its spec
Own(o, c) ==
    /\ Exists(o)
    /\ objects[o] = [owner |-> clusters[c].uid, ownerName |-> c, instance |-> c,
                     hosts |-> IF IsDiscovery(o, c) THEN {c} \X clusters[c].groups ELSE {}]

\* A settled cluster has exactly the objects of its spec, with its own hosts, and they
\* belong to the cluster that lives now: neither an earlier cluster of the same name,
\* nor a run that outlived it, nor the garbage collector, nor a neighbour left a mark.
SettledMeansOwn ==
    \A c \in Clusters : Settled(c) =>
        /\ \A o \in Desired[c][clusters[c].groups] : Own(o, c)
        /\ \A o \in Object \ Desired[c][clusters[c].groups] :
            Exists(o) => objects[o].instance # c

\* "The name of the Kafka cluster, which is also the name of the created discovery
\* ConfigMap": with it, the clients of a settled cluster reach that cluster.
DiscoveryIsOwn ==
    \A c \in Clusters : Settled(c) => Own([kind |-> "ConfigMap", name |-> c], c)

\* A cluster that has been deleted for good goes, and nothing of it stays behind, whatever
\* propagation policy was chosen and whichever runs were under way.
NothingLeftBehind ==
    \A c \in Clusters :
        <>[](~Alive(c) \/ clusters[c].deleting) =>
            <>[](~Alive(c) /\ \A o \in Object : Exists(o) => objects[o].ownerName # c)
=============================================================================
