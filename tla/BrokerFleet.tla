------------------------------ MODULE BrokerFleet ------------------------------
(***************************************************************************)
(* How many brokers of a cluster are offline, and whether changes and      *)
(* drains get through: runs of reconcile_kafka write one StatefulSet for   *)
(* each role group and then one PodDisruptionBudget for the whole role;    *)
(* the StatefulSet controller rolls every role group by itself, an         *)
(* administrator drains nodes, brokers crash.                              *)
(***************************************************************************)
EXTENDS Naturals, FiniteSets

CONSTANTS
    RoleGroups,     \* names of broker role groups
    Templates,      \* pod templates, one for each product version or configuration
    Broken,         \* templates whose brokers never become ready
    MaxReplicas,    \* replicas a role group can ask for
    ClusterSpecs,   \* the specs the user may write
    Absent,         \* the value of an object that does not exist
    MaxEdits,       \* bound: edits of the spec
    MaxTrouble      \* bound: drained nodes, broker crashes and failed runs together

\* role_config.pod_disruption_budget; max holds max_unavailable, if there is one
PdbConfig == [enabled : BOOLEAN, max : SUBSET Nat]

ClusterSpec == [template : [RoleGroups -> Templates],
                replicas : [RoleGroups -> 0 .. MaxReplicas],
                pdb      : PdbConfig]

ASSUME FleetSpecsAssumption ==
    /\ ClusterSpecs \subseteq ClusterSpec /\ ClusterSpecs # {}
    /\ \A s \in ClusterSpecs : Cardinality(s.pdb.max) <= 1
ASSUME FleetRoleGroupsAssumption == IsFiniteSet(RoleGroups)
ASSUME FleetBrokenAssumption == Broken \subseteq Templates
ASSUME FleetBoundsAssumption == {MaxReplicas, MaxEdits, MaxTrouble} \subseteq Nat

\* A broker: its role group and its ordinal in the StatefulSet
Broker == RoleGroups \X (0 .. MaxReplicas - 1)

StatefulSet == [template : Templates, replicas : 0 .. MaxReplicas]
Pod == [template : Templates, state : {"starting", "ready", "stopping"}]

ASSUME FleetAbsentAssumption == Absent \notin StatefulSet \cup Pod \cup Nat

VARIABLES
    spec,           \* the user's spec
    due,            \* the spec has changed since the last run began, or that run failed
    pc, snap, todo, \* a run: where it is, its spec, the role groups it has not applied
    sts,            \* the StatefulSet of each role group
    pdb,            \* maxUnavailable of the PodDisruptionBudget
    pods,           \* the pod of each broker
    cordoned,       \* brokers on nodes being drained
    taken,          \* history: wanted brokers that a rolling update or an eviction under
                    \* a budget has taken down while they were ready, until they are back
    dropped,        \* history: brokers scaled away
    edits, trouble

vars == <<spec, due, pc, snap, todo, sts, pdb, pods, cordoned, taken, dropped, edits, trouble>>
run == <<due, pc, snap, todo>>
objects == <<sts, pdb>>
fleet == <<pods, cordoned, taken, dropped>>
bounds == <<edits, trouble>>

Wanted(b) == sts[b[1]] # Absent /\ b[2] < sts[b[1]].replicas
There(b) == pods[b] # Absent
In(b, state) == There(b) /\ pods[b].state = state
Current(b) == There(b) /\ pods[b].template = sts[b[1]].template

Trouble == trouble < MaxTrouble /\ trouble' = trouble + 1

-----------------------------------------------------------------------------
(* The user and the runs of the operator *)

UserEdits ==
    /\ edits < MaxEdits /\ edits' = edits + 1
    /\ spec' \in ClusterSpecs \ {spec} /\ due' = TRUE
    /\ UNCHANGED <<pc, snap, todo, objects, fleet, trouble>>

\* A run that nothing calls for would write what the last one wrote.
StartRun ==
    /\ pc = "idle" /\ due
    /\ due' = FALSE /\ pc' = "groups" /\ snap' = spec /\ todo' = RoleGroups
    /\ UNCHANGED <<spec, objects, fleet, bounds>>

ApplyStatefulSet(g) ==
    /\ pc = "groups" /\ g \in todo
    /\ sts' = [sts EXCEPT ![g] = [template |-> snap.template[g], replicas |-> snap.replicas[g]]]
    /\ LET away == {b \in Broker : b[1] = g /\ b[2] >= snap.replicas[g]}
       IN  /\ taken' = taken \ away
           /\ dropped' = dropped \cup {b \in away : There(b)}
    /\ todo' = todo \ {g}
    /\ UNCHANGED <<spec, due, pc, snap, pdb, pods, cordoned, bounds>>

\* max_unavailable_brokers
MaxUnavailable(config) == IF config.max = {} THEN 1 ELSE CHOOSE n \in config.max : TRUE

\* Mutant: a PodDisruptionBudget that exists is left as it is.
ApplyPdbOnce ==
    /\ pc = "groups" /\ todo = {}
    /\ pdb' = IF pdb = Absent /\ snap.pdb.enabled THEN MaxUnavailable(snap.pdb) ELSE pdb
    /\ pc' = "idle"
    /\ UNCHANGED <<spec, due, snap, todo, sts, fleet, bounds>>

\* add_pdbs, after all role groups; a disabled budget is an orphan and deleted.
ApplyPdb ==
    /\ pc = "groups" /\ todo = {}
    /\ pdb' = IF snap.pdb.enabled THEN MaxUnavailable(snap.pdb) ELSE Absent
    /\ pc' = "idle"
    /\ UNCHANGED <<spec, due, snap, todo, sts, fleet, bounds>>

\* Mutant: the error leaves the rest of the run behind.
RunFailsHalfway ==
    /\ pc = "groups"
    /\ Trouble
    /\ pc' = "idle" /\ due' = TRUE
    /\ UNCHANGED <<spec, snap, todo, objects, fleet, edits>>

RunFails ==
    /\ pc = "groups"
    /\ Trouble
    /\ pc' = "idle" /\ todo' = {} /\ due' = TRUE
    /\ UNCHANGED <<spec, snap, objects, fleet, edits>>

-----------------------------------------------------------------------------
(* The StatefulSet controller, one role group at a time *)

\* The pod of b is told to stop; a node it leaves is drained of it.
Stop(b) ==
    /\ pods' = [pods EXCEPT ![b].state = "stopping"]
    /\ cordoned' = cordoned \ {b}

Siblings(b) == {c \in Broker : c[1] = b[1] /\ c # b /\ Wanted(c)}

\* Mutant: the default policy, which touches no pod unless all others are ready.
OrderedReady(b) == \A c \in Siblings(b) : In(c, "ready")

\* podManagementPolicy Parallel: pods do not wait for others to become ready, but in a
\* rolling update for those of higher ordinals.
Parallel(b) == TRUE

CreatePod(b) ==
    /\ Wanted(b) /\ ~There(b)
    /\ pods' = [pods EXCEPT ![b] = [template |-> sts[b[1]].template, state |-> "starting"]]
    /\ UNCHANGED <<spec, run, objects, cordoned, taken, dropped, bounds>>

ScaleDown(b) ==
    /\ sts[b[1]] # Absent /\ ~Wanted(b)
    /\ There(b) /\ ~In(b, "stopping")
    /\ Stop(b)
    /\ UNCHANGED <<spec, run, objects, taken, dropped, bounds>>

RollPod(b) ==
    /\ Wanted(b) /\ There(b) /\ ~Current(b) /\ ~In(b, "stopping")
    /\ \A c \in Siblings(b) : c[2] > b[2] => Current(c) /\ In(c, "ready")
    /\ Parallel(b)
    /\ Stop(b)
    /\ taken' = IF In(b, "ready") THEN taken \cup {b} ELSE taken
    /\ UNCHANGED <<spec, run, objects, dropped, bounds>>

-----------------------------------------------------------------------------
(* The nodes: kubelet, crashes, and an administrator who drains them *)

\* The broker's prober succeeds.
PodReady(b) ==
    /\ In(b, "starting") /\ pods[b].template \notin Broken
    /\ pods' = [pods EXCEPT ![b].state = "ready"]
    /\ taken' = taken \ {b}
    /\ UNCHANGED <<spec, run, objects, cordoned, dropped, bounds>>

\* The broker has shut down or its grace period is over.
PodStopped(b) ==
    /\ In(b, "stopping")
    /\ pods' = [pods EXCEPT ![b] = Absent]
    /\ UNCHANGED <<spec, run, objects, cordoned, taken, dropped, bounds>>

BrokerCrashes(b) ==
    /\ In(b, "ready")
    /\ Trouble
    /\ pods' = [pods EXCEPT ![b].state = "starting"]
    /\ UNCHANGED <<spec, run, objects, cordoned, taken, dropped, edits>>

DrainNode(b) ==
    /\ There(b) /\ ~In(b, "stopping") /\ b \notin cordoned
    /\ Trouble
    /\ cordoned' = cordoned \cup {b}
    /\ UNCHANGED <<spec, run, objects, pods, taken, dropped, edits>>

\* Mutant: a budget for each role group.
SelectedInRoleGroup(b) == {c \in Broker : c[1] = b[1]}

\* The pods the budget that protects b selects: those of its role (new_with_role).
Selected(b) == Broker

\* The Eviction API lets b go.
EvictionAllowed(b) ==
    LET healthy  == Cardinality({c \in Selected(b) : In(c, "ready")})
        expected == Cardinality({c \in Selected(b) : Wanted(c)})
        needed   == IF expected > pdb THEN expected - pdb ELSE 0
    IN  \/ healthy > needed
        \/ ~In(b, "ready") /\ needed > 0 /\ healthy = needed

Evict(b) ==
    /\ b \in cordoned /\ There(b)
    /\ pdb # Absent => EvictionAllowed(b)
    /\ Stop(b)
    /\ taken' = IF In(b, "ready") /\ Wanted(b) /\ pdb # Absent THEN taken \cup {b} ELSE taken
    /\ UNCHANGED <<spec, run, objects, dropped, bounds>>

-----------------------------------------------------------------------------
Init ==
    /\ spec \in ClusterSpecs
    /\ due = TRUE /\ pc = "idle" /\ snap = spec /\ todo = {}
    /\ sts = [g \in RoleGroups |-> Absent] /\ pdb = Absent
    /\ pods = [b \in Broker |-> Absent]
    /\ cordoned = {} /\ taken = {} /\ dropped = {}
    /\ edits = 0 /\ trouble = 0

Operator ==
    \/ StartRun
    \/ \E g \in RoleGroups : ApplyStatefulSet(g)
    \/ ApplyPdb

Kubernetes(b) == CreatePod(b) \/ ScaleDown(b) \/ RollPod(b) \/ PodReady(b) \/ PodStopped(b)

Next ==
    \/ UserEdits \/ Operator \/ RunFails
    \/ \E b \in Broker : Kubernetes(b) \/ BrokerCrashes(b) \/ DrainNode(b) \/ Evict(b)

Spec == Init /\ [][Next]_vars

\* Something always makes the operator run again, the controllers do their work on each
\* pod, and a drain asks again when it is refused.
Fairness ==
    /\ WF_vars(Operator)
    /\ WF_vars(\E b \in Broker : Kubernetes(b))
    /\ WF_vars(\E b \in Broker : Evict(b))

FairSpec == Spec /\ Fairness

-----------------------------------------------------------------------------
(* Properties *)

\* Every variable has its type, nothing of a run is left when it ends, and a broker on a
\* node being drained has a pod there.
TypeOK ==
    /\ spec \in ClusterSpecs /\ snap \in ClusterSpecs
    /\ due \in BOOLEAN /\ pc \in {"idle", "groups"} /\ todo \subseteq RoleGroups
    /\ pc = "idle" => todo = {}
    /\ sts \in [RoleGroups -> StatefulSet \cup {Absent}]
    /\ pdb = Absent \/ pdb \in Nat
    /\ pods \in [Broker -> Pod \cup {Absent}]
    /\ {cordoned, taken, dropped} \subseteq SUBSET Broker
    /\ \A b \in cordoned : There(b) /\ ~In(b, "stopping")
    /\ edits \in 0 .. MaxEdits /\ trouble \in 0 .. MaxTrouble

Budgets == {MaxUnavailable(s.pdb) : s \in ClusterSpecs}

\* Without an edit, evictions cost a cluster no more than the budget of the whole role.
\* Every edit may cost one broker more in each role group, which rolls again from the top
\* whatever is down below, and one for each broker that is scaled away, which counts as
\* healthy until it stops.  Whichever pods they pick, the budget is not multiplied by the
\* role groups.
LossBounded ==
    \A n \in Budgets :
        (\A m \in Budgets : m <= n) =>
            Cardinality(taken) <= n + edits * Cardinality(RoleGroups) + Cardinality(dropped)

\* "Allow only a single Broker to be offline at any given time, regardless of the number
\* of replicas or roleGroups": with the default budget, none but crashed ones.
SingleBrokerOffline == Budgets = {1} => Cardinality(taken) <= 1

UpToDate ==
    \A b \in Broker :
        IF b[2] < spec.replicas[b[1]]
        THEN In(b, "ready") /\ pods[b].template = spec.template[b[1]]
        ELSE ~There(b)

Sound(s) == \A g \in RoleGroups : s.template[g] \notin Broken

\* A sound spec rolls out completely, also over a broken one that was rolled out
\* half-way, and after crashes, failed runs and drains.
RolloutFinishes == <>[]Sound(spec) => <>[]UpToDate

\* Every drain gets its turn once the spec stays sound and its budget is not zero: a
\* budget of an earlier spec, a broken rollout or other drains do not block it forever.
DrainsFinish ==
    <>[](Sound(spec) /\ (spec.pdb.enabled => MaxUnavailable(spec.pdb) > 0)) => <>[](cordoned = {})
=============================================================================
