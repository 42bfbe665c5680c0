-------------------------- MODULE KafkaReconcileProofs --------------------------
(***************************************************************************)
(* Proofs about KafkaReconcile, for every set of role groups, of specs and *)
(* of objects an outsider may delete, and for every bound.                 *)
(***************************************************************************)
EXTENDS KafkaReconcile, TLAPS

-----------------------------------------------------------------------------
(* The inductive invariant: how far a run has come tells what it has added, and *)
(* what it has added is in the API server as the run rendered it.              *)

AfterServiceAccount == PCs \ {"idle", "resolve", "serviceAccount"}
AfterRoleBinding == AfterServiceAccount \ {"roleBinding"}
AfterGroups == {"pdb", "discovery", "discoveryNodePort", "orphans", "status"}

\* Which of its steps a run has taken.
Progress ==
    /\ pc \in AfterServiceAccount => Single("ServiceAccount") \in added
    /\ pc \in AfterRoleBinding => Single("RoleBinding") \in added
    /\ pc \in InGroup => group \in snap.groups
    /\ pc \in {"service", "configMap", "statefulSet"} => Of("Listener", group) \in added
    /\ pc \in {"configMap", "statefulSet"} => Of("Service", group) \in added
    /\ pc = "statefulSet" => Of("ConfigMap", group) \in added
    /\ \A g \in RoleGroups : Of("StatefulSet", g) \in added =>
        \A k \in GroupKinds : Of(k, g) \in added
    /\ pc \in AfterGroups => \A g \in snap.groups : Of("StatefulSet", g) \in added
    /\ pc \in AfterGroups \ {"pdb"} /\ snap.pdb => Single("PodDisruptionBudget") \in added
    /\ Single("Discovery") \in added <=> pc \in {"discoveryNodePort", "orphans", "status"}
    /\ Single("DiscoveryNodePort") \in added <=> pc \in {"orphans", "status"}

\* Nothing is added that the snapshot does not ask for, and addresses are
\* captured from added Listeners only.
Bounded ==
    /\ added \subseteq Desired(snap)
    /\ \A g \in RoleGroups : listeners[g] # {} => Of("Listener", g) \in added

\* What has been added is there, and as this run renders it.
Applied ==
    \A id \in added :
        /\ ThereOrTampered(id)
        /\ ~Paused /\ Exists(id) => api[id] = Rendered(id)

NothingLeftOver == pc = "status" /\ ~Paused => \A id \in Id \ added : ~Exists(id)

RunInv == Progress /\ Bounded /\ Applied /\ NothingLeftOver

-----------------------------------------------------------------------------
(* What the operators return *)

\* Ports are rendered and published under known names only.
LEMMA PortNamesType ==
    ASSUME NEW s
    PROVE  /\ ListenerPortNames(s) \subseteq PortNames
           /\ DiscoveryPortName(s) \in PortNames
  BY DEF ListenerPortNames, ListenerPorts, MetricsPort, DiscoveryPortName, ClientPortName,
         BootstrapPortName, PortNames

\* Discovery ConfigMaps list hosts of the role groups whose Listener has an address.
LEMMA HostsType ==
    ASSUME NEW s, s.groups \subseteq RoleGroups,
           NEW lsts \in [RoleGroups -> SUBSET Ingress]
    PROVE  /\ Hosts(s, lsts) \subseteq Host
           /\ \A h \in Hosts(s, lsts) : h.group \in s.groups /\ lsts[h.group] # {}
<1>1. SUFFICES ASSUME NEW h \in Hosts(s, lsts)
               PROVE  h \in Host /\ h.group \in s.groups /\ lsts[h.group] # {}
  OBVIOUS
<1>2. PICK g \in s.groups : \E i \in lsts[g] :
            h = [group |-> g, address |-> i.address, port |-> DiscoveryPortName(s.security)]
  BY DEF Hosts
<1>3. PICK i \in lsts[g] :
            h = [group |-> g, address |-> i.address, port |-> DiscoveryPortName(s.security)]
  BY <1>2
<1>4. i \in Ingress
  OBVIOUS
<1> QED
  BY <1>3, <1>4, PortNamesType DEF Host, Ingress

\* An applied object has the content of an object.
LEMMA RenderType ==
    ASSUME NEW id \in Id, NEW s \in ClusterSpec, NEW lsts \in [RoleGroups -> SUBSET Ingress]
    PROVE  Render(id, s, lsts) \in Content
<1>1. ListenerPortNames(s.security) \subseteq PortNames
  BY PortNamesType
<1>2. Hosts(s, lsts) \subseteq Host
  BY HostsType DEF ClusterSpec
<1>3. (id.kind = "StatefulSet" /\ s.operation # "stop") \in BOOLEAN
  OBVIOUS
<1>4. id.kind = "StatefulSet" => s.claims[id.group] \in Claims
  BY DEF Id, GroupKinds, ClusterKinds, ClusterSpec
<1> QED
  BY <1>1, <1>2, <1>3, <1>4 DEF Render, Content

\* Only discovery ConfigMaps depend on the captured addresses.
LEMMA RenderIgnoresListeners ==
    ASSUME NEW id, NEW s, NEW l1, NEW l2, id.kind \notin {"Discovery", "DiscoveryNodePort"}
    PROVE  Render(id, s, l1) = Render(id, s, l2)
  BY DEF Render

\* The constructors Of and Single make ids.
LEMMA IdType ==
    /\ \A k \in GroupKinds, g \in RoleGroups : Of(k, g) \in Id
    /\ \A k \in ClusterKinds : Single(k) \in Id
  BY DEF Of, Single, Id

-----------------------------------------------------------------------------
(* Type correctness *)

\* A spec of the user names role groups only.
LEMMA SpecsType == \A s \in ClusterSpecs : s \in ClusterSpec /\ s.groups \subseteq RoleGroups
  BY SpecsAssumption DEF ClusterSpec

\* The bound on faults is kept.
LEMMA FaultType == TypeOK /\ Fault => faults' \in 0 .. MaxFaults
  BY BoundsAssumption DEF TypeOK, Fault

\* An object that disappears leaves the rest well-typed.
LEMMA RemoveType ==
    ASSUME TypeOK, NEW id \in Id, Remove(id)
    PROVE  /\ api' \in [Id -> Content \cup {Absent}]
           /\ addresses' \in [RoleGroups -> SUBSET Ingress]
           /\ ready' \subseteq RoleGroups
           /\ ownedEvent' \in BOOLEAN
<1>1. id.kind = "Listener" => id.group \in RoleGroups
  BY DEF Id, GroupKinds, ClusterKinds
<1>2. addresses' \in [RoleGroups -> SUBSET Ingress]
  BY <1>1 DEF TypeOK, Remove
<1>3. api' \in [Id -> Content \cup {Absent}]
  BY DEF TypeOK, Remove
<1>4. ready' \subseteq RoleGroups
  BY DEF TypeOK, Remove
<1>5. ownedEvent' \in BOOLEAN
  BY Zenon DEF TypeOK, Remove, Touched, Watched
<1> QED
  BY <1>2, <1>3, <1>4, <1>5

\* The environment's steps keep the types.
LEMMA EnvironmentType == TypeOK /\ Environment => TypeOK'
<1> SUFFICES ASSUME TypeOK, Environment PROVE TypeOK'
  OBVIOUS
<1> USE DEF TypeOK, user, queue, locals, cluster
<1> USE BoundsAssumption
<1>1. CASE UserEdits
  BY <1>1 DEF UserEdits
<1>2. ASSUME NEW id \in Id, OutsiderDeletes(id) PROVE TypeOK'
  BY <1>2, RemoveType, FaultType DEF OutsiderDeletes
<1>3. ASSUME NEW g \in RoleGroups, NEW as \in SUBSET Addresses,
             api[Of("Listener", g)] # Absent, SetAddresses(g, as)
      PROVE  addresses' \in [RoleGroups -> SUBSET Ingress]
  <2>1. api[Of("Listener", g)] \in Content
    BY <1>3, IdType DEF GroupKinds
  <2>2. {[address |-> a, ports |-> api[Of("Listener", g)].ports] : a \in as} \subseteq Ingress
    <3>1. api[Of("Listener", g)].ports \subseteq PortNames
      BY <2>1 DEF Content
    <3>2. \A a \in as : [address |-> a, ports |-> api[Of("Listener", g)].ports] \in Ingress
      BY <3>1 DEF Ingress
    <3> QED
      BY <3>2
  <2> QED
    BY <1>3, <2>2 DEF SetAddresses
<1>4. ASSUME NEW g \in RoleGroups, PublishAddresses(g) PROVE TypeOK'
  <2>1. PICK as \in SUBSET Addresses : SetAddresses(g, as)
    BY <1>4 DEF PublishAddresses
  <2> QED
    BY <1>3, <1>4, <2>1 DEF PublishAddresses, SetAddresses, Exists
<1>5. ASSUME NEW g \in RoleGroups, MoveAddresses(g) PROVE TypeOK'
  <2>1. PICK as \in SUBSET Addresses : SetAddresses(g, as)
    BY <1>5 DEF MoveAddresses
  <2> QED
    BY <1>3, <1>5, <2>1, FaultType DEF MoveAddresses, SetAddresses, Exists
<1>6. ASSUME NEW g \in RoleGroups, BecomeReady(g) PROVE TypeOK'
  BY <1>6 DEF BecomeReady
<1>7. ASSUME NEW g \in RoleGroups, BecomeUnready(g) PROVE TypeOK'
  BY <1>7, FaultType DEF BecomeUnready
<1> QED
  BY <1>1, <1>2, <1>4, <1>5, <1>6, <1>7 DEF Environment

\* So do the steps of kube-runtime.
LEMMA RuntimeType == TypeOK /\ Runtime => TypeOK'
<1> SUFFICES ASSUME TypeOK, Runtime PROVE TypeOK'
  OBVIOUS
<1> USE DEF TypeOK, user, queue, locals, cluster
<1>1. CASE ClusterEvent
  BY <1>1 DEF ClusterEvent
<1>2. CASE OwnedEvent
  BY <1>2 DEF OwnedEvent
<1>3. CASE RequeueElapses
  BY <1>3 DEF RequeueElapses
<1>4. CASE StartReconcile
  BY <1>4 DEF StartReconcile, PCs, InGroup
<1> QED
  BY <1>1, <1>2, <1>3, <1>4 DEF Runtime

\* ClusterResources::add keeps the types of what it writes.
LEMMA AddType ==
    ASSUME TypeOK, NEW id \in Id, NEW next \in PCs \ {"idle"}, Add(id, next)
    PROVE  /\ api' \in [Id -> Content \cup {Absent}]
           /\ added' \subseteq Id
           /\ ownedEvent' \in BOOLEAN
           /\ pc' = next
           /\ UNCHANGED <<user, cached, clusterEvent, request, snap, addresses, ready, status, faults>>
<1>1. Rendered(id) \in Content
  BY RenderType, SpecsType DEF TypeOK, Rendered
<1>2. api' \in [Id -> Content \cup {Absent}]
  BY <1>1 DEF TypeOK, Add
<1>3. ownedEvent' \in BOOLEAN
  BY Zenon DEF TypeOK, Add, Touched, Watched
<1> QED
  BY <1>2, <1>3 DEF TypeOK, Add

\* The end of a run keeps the types.
LEMMA EndRunType ==
    ASSUME TypeOK, NEW next \in {"none", "later", "now"}, EndRun(next)
    PROVE  /\ pc' = "idle" /\ request' = next
           /\ group' = Cluster /\ added' = {} /\ readySeen' = {} /\ listeners' = NoListeners
           /\ listeners' \in [RoleGroups -> SUBSET Ingress]
           /\ UNCHANGED <<user, cached, snap>>
  BY DEF EndRun, NoListeners
\* The steps of a run keep the types.
LEMMA ReconcileType == TypeOK /\ Reconcile => TypeOK'
<1> SUFFICES ASSUME TypeOK, Reconcile PROVE TypeOK'
  OBVIOUS
<1> USE DEF user, queue, locals, cluster
<1> DEFINE NextGroup == /\ pc' \in InGroup => group' \in RoleGroups
                        /\ group' \in RoleGroups \cup {Cluster}
\* A step that ends the run
<1>1. ASSUME NEW next \in {"none", "later", "now"}, EndRun(next),
             UNCHANGED <<api, addresses, ready, faults>>,
             ownedEvent' \in BOOLEAN, clusterEvent' \in BOOLEAN, status' \in ClusterStatus
      PROVE  TypeOK'
  BY <1>1, EndRunType DEF TypeOK, PCs, InGroup
<1>2. ASSUME EndWithError, UNCHANGED <<clusterEvent, ownedEvent, cluster, faults>> PROVE TypeOK'
  BY <1>1, <1>2 DEF TypeOK, EndWithError
\* A step that applies an object
<1>3. ASSUME NEW id \in Id, NEW next \in PCs \ {"idle"}, Add(id, next), NextGroup,
             listeners' \in [RoleGroups -> SUBSET Ingress], readySeen' \subseteq RoleGroups
      PROVE  TypeOK'
  BY <1>3, AddType DEF TypeOK
<1>4. ASSUME NEW kind \in ClusterKinds, NEW next \in PCs \ ({"idle"} \cup InGroup),
             Add(Single(kind), next), UNCHANGED <<group, listeners, readySeen>>
      PROVE  TypeOK'
  BY <1>3, <1>4, IdType DEF TypeOK, Add
<1>5. ASSUME NEW kind \in GroupKinds, pc \in InGroup, NEW next \in PCs \ {"idle"},
             Add(Of(kind, group), next), NextGroup,
             listeners' \in [RoleGroups -> SUBSET Ingress], readySeen' \subseteq RoleGroups
      PROVE  TypeOK'
  BY <1>3, <1>5, IdType DEF TypeOK
<1>6. CASE RejectUndecodable
  BY <1>1, <1>6 DEF RejectUndecodable, TypeOK
<1>7. CASE Refuse \/ BuildRoleGroupFails \/ BuildDiscoveryFails \/ PausedAddFails \/ StatefulSetRefused
  BY <1>2, <1>7 DEF Refuse, BuildRoleGroupFails, BuildDiscoveryFails, PausedAddFails, StatefulSetRefused
<1>8. CASE Resolve \/ LeaveRoleGroups \/ SkipPdb \/ OrphansDeleted
  BY <1>8 DEF Resolve, LeaveRoleGroups, SkipPdb, OrphansDeleted, TypeOK, PCs, InGroup
<1>9. CASE ApplyServiceAccount \/ ApplyRoleBinding
  BY <1>4, <1>9 DEF ApplyServiceAccount, ApplyRoleBinding, ClusterKinds, PCs, InGroup
<1>10. CASE ApplyPdb \/ ApplyDiscovery \/ ApplyDiscoveryNodePort
  BY <1>4, <1>10 DEF ApplyPdb, ApplyDiscovery, ApplyDiscoveryNodePort, ClusterKinds, PCs, InGroup
<1>11. ASSUME NEW g \in RoleGroups, BuildRoleGroup(g) PROVE TypeOK'
  BY <1>11 DEF BuildRoleGroup, TypeOK, PCs, InGroup
<1>12. CASE ApplyListener
  <2>1. listeners' \in [RoleGroups -> SUBSET Ingress]
    BY <1>12 DEF ApplyListener, TypeOK, InGroup
  <2> QED
    BY <1>5, <1>12, <2>1 DEF ApplyListener, TypeOK, GroupKinds, PCs, InGroup, Add
<1>13. CASE ApplyService \/ ApplyConfigMap
  BY <1>5, <1>13 DEF ApplyService, ApplyConfigMap, TypeOK, GroupKinds, PCs, InGroup, Add
<1>14. CASE ApplyStatefulSet
  BY <1>5, <1>14 DEF ApplyStatefulSet, TypeOK, GroupKinds, PCs, InGroup, Add
<1>15. ASSUME NEW id \in Id, DeleteOrphan(id) PROVE TypeOK'
  BY <1>15, RemoveType DEF DeleteOrphan, TypeOK
<1>16. CASE PatchStatus
  <2>1. status' \in ClusterStatus
    BY <1>16, SpecsType DEF PatchStatus, WriteStatus, ClusterStatus, TypeOK, ClusterSpec
  <2>2. clusterEvent' \in BOOLEAN
    BY <1>16 DEF PatchStatus, WriteStatus, TypeOK
  <2> QED
    BY <1>1, <1>16, <2>1, <2>2 DEF PatchStatus, WriteStatus, TypeOK
<1> QED
  BY <1>6, <1>7, <1>8, <1>9, <1>10, <1>11, <1>12, <1>13, <1>14, <1>15, <1>16 DEF Reconcile

\* So do failures.
LEMMA FailureType == TypeOK /\ Failure => TypeOK'
<1> SUFFICES ASSUME TypeOK, Failure PROVE TypeOK'
  OBVIOUS
<1> USE FaultType DEF user, queue, locals, cluster
<1>1. ASSUME EndWithError PROVE /\ pc' = "idle" /\ request' \in {"none", "later", "now"}
                                /\ group' = Cluster /\ added' = {} /\ readySeen' = {}
                                /\ listeners' = NoListeners
                                /\ listeners' \in [RoleGroups -> SUBSET Ingress]
                                /\ UNCHANGED <<user, cached, snap>>
  BY <1>1, EndRunType DEF EndWithError
<1>2. CASE CallFails
  BY <1>1, <1>2 DEF CallFails, TypeOK, PCs, InGroup
<1>3. CASE PatchStatusUnacknowledged
  <2>1. status' \in ClusterStatus
    BY <1>3, SpecsType DEF PatchStatusUnacknowledged, WriteStatus, ClusterStatus, TypeOK, ClusterSpec
  <2>2. clusterEvent' \in BOOLEAN
    BY <1>3 DEF PatchStatusUnacknowledged, WriteStatus, TypeOK
  <2> QED
    BY <1>1, <1>3, <2>1, <2>2 DEF PatchStatusUnacknowledged, WriteStatus, TypeOK, PCs, InGroup
<1>4. CASE Restart
  BY <1>4 DEF Restart, TypeOK, PCs, InGroup, NoListeners
<1> QED
  BY <1>2, <1>3, <1>4 DEF Failure

\* Every reachable state is well-typed.
THEOREM TypeCorrect == Spec => []TypeOK
<1>1. ASSUME Init PROVE TypeOK
  <2>1. NoListeners \in [RoleGroups -> SUBSET Ingress]
    BY DEF NoListeners
  <2>2. api \in [Id -> Content \cup {Absent}]
    BY <1>1 DEF Init
  <2>3. edits \in 0 .. MaxEdits /\ faults \in 0 .. MaxFaults
    BY <1>1, BoundsAssumption DEF Init
  <2>4. status \in ClusterStatus
    BY <1>1 DEF Init, ClusterStatus
  <2> QED
    BY <1>1, <2>1, <2>2, <2>3, <2>4 DEF Init, TypeOK, PCs, InGroup
<1>2. TypeOK /\ [Next]_vars => TypeOK'
  <2>1. TypeOK /\ UNCHANGED vars => TypeOK'
    BY DEF TypeOK, vars, user, queue, locals, cluster
  <2> QED
    BY <2>1, EnvironmentType, RuntimeType, ReconcileType, FailureType DEF Next
<1> QED
  BY <1>1, <1>2, PTL DEF Spec

-----------------------------------------------------------------------------
(* The inductive invariant holds *)

IInv == TypeOK /\ RunInv

\* Names of objects differ when their kinds or their groups do.
LEMMA IdsDiffer ==
    /\ \A k1, k2, g1, g2 : Of(k1, g1) = Of(k2, g2) <=> k1 = k2 /\ g1 = g2
    /\ \A k1, k2 : Single(k1) = Single(k2) <=> k1 = k2
    /\ \A k1, k2, g : k1 # k2 => Of(k1, g) # Single(k2)
    /\ \A k, g : Of(k, g).kind = k /\ Of(k, g).group = g
    /\ \A k : Single(k).kind = k
  BY DEF Of, Single

\* A snapshot asks for the objects of its groups and those of the cluster.
LEMMA DesiredIds ==
    ASSUME NEW s, s.groups \subseteq RoleGroups
    PROVE  /\ \A k \in GroupKinds, g \in s.groups : Of(k, g) \in Desired(s)
           /\ \A k \in ClusterKinds \ {"PodDisruptionBudget"} : Single(k) \in Desired(s)
           /\ s.pdb => Single("PodDisruptionBudget") \in Desired(s)
  BY IdsDiffer, IdType DEF Desired, GroupKinds, ClusterKinds

\* Between runs there is nothing to claim.
LEMMA IdleInv ==
    ASSUME added' = {}, listeners' = NoListeners, pc' \in {"idle", "resolve"}
    PROVE  RunInv'
  BY DEF RunInv, Progress, Bounded, Applied, NothingLeftOver, NoListeners, PCs, InGroup,
         AfterServiceAccount, AfterRoleBinding, AfterGroups

\* Steps that leave the run alone and only remove what outsiders may delete.
LEMMA UntouchedInv ==
    ASSUME RunInv, UNCHANGED <<pc, locals>>,
           \A id \in Id : api'[id] = api[id] \/ (api'[id] = Absent /\ id \in Deletable),
           added \subseteq Id
    PROVE  RunInv'
<1> USE DEF locals
<1>1. Progress'
  BY DEF RunInv, Progress
<1>2. Bounded'
  BY DEF RunInv, Bounded
<1>3. Applied'
  BY DEF RunInv, Applied, ThereOrTampered, Exists, Paused, Rendered
<1>4. NothingLeftOver'
  BY DEF RunInv, NothingLeftOver, Exists, Paused
<1> QED
  BY <1>1, <1>2, <1>3, <1>4 DEF RunInv

\* What the user, outsiders and other controllers do keeps RunInv: of the objects a run
\* has added, only deletable ones can go.
LEMMA EnvironmentInv == IInv /\ Environment => RunInv'
<1> SUFFICES ASSUME IInv, Environment PROVE RunInv'
  OBVIOUS
<1> USE DEF IInv, user, queue, cluster
<1>1. CASE UserEdits
  BY <1>1, UntouchedInv DEF UserEdits, TypeOK
<1>2. ASSUME NEW id \in Id, OutsiderDeletes(id) PROVE RunInv'
  BY <1>2, UntouchedInv DEF OutsiderDeletes, Remove, TypeOK
<1>3. ASSUME NEW g \in RoleGroups, PublishAddresses(g) \/ MoveAddresses(g) PROVE RunInv'
  BY <1>3, UntouchedInv DEF PublishAddresses, MoveAddresses, SetAddresses, TypeOK
<1>4. ASSUME NEW g \in RoleGroups, BecomeReady(g) \/ BecomeUnready(g) PROVE RunInv'
  BY <1>4, UntouchedInv DEF BecomeReady, BecomeUnready, TypeOK
<1> QED
  BY <1>1, <1>2, <1>3, <1>4 DEF Environment

\* kube-runtime touches the queue only, and a run starts with nothing added.
LEMMA RuntimeInv == IInv /\ Runtime => RunInv'
<1> SUFFICES ASSUME IInv, Runtime PROVE RunInv'
  OBVIOUS
<1> USE DEF IInv, user, queue, cluster
<1>1. CASE ClusterEvent \/ OwnedEvent \/ RequeueElapses
  BY <1>1, UntouchedInv DEF ClusterEvent, OwnedEvent, RequeueElapses, TypeOK
<1>2. CASE StartReconcile
  BY <1>2, IdleInv DEF StartReconcile, TypeOK
<1> QED
  BY <1>1, <1>2 DEF Runtime

\* A failed call or a restart drops everything a run remembers.
LEMMA FailureInv == IInv /\ Failure => RunInv'
  BY IdleInv DEF Failure, CallFails, PatchStatusUnacknowledged, Restart, EndWithError, EndRun

\* What Add leaves behind: the new object joins those that are there as rendered,
\* provided that capturing addresses does not change what has been rendered.
LEMMA AddApplied ==
    ASSUME IInv, NEW id \in Id, NEW next, Add(id, next),
           \A j \in added \cup {id} : Render(j, snap, listeners') = Rendered(j)
    PROVE  Applied'
<1> USE DEF IInv
<1>1. ASSUME NEW j \in added \cup {id} PROVE ThereOrTampered(j)'
  <2>1. CASE Paused
    BY <1>1, <2>1 DEF Add, RunInv, Applied, ThereOrTampered, Exists
  <2>2. CASE ~Paused
    <3>1. Rendered(id) # Absent
      BY RenderType, SpecsType, AbsentAssumption DEF TypeOK, Rendered
    <3>2. api'[id] # Absent /\ \A i \in Id \ {id} : api'[i] = api[i]
      BY <2>2, <3>1 DEF Add, TypeOK
    <3> QED
      BY <1>1, <3>2 DEF RunInv, Applied, ThereOrTampered, Exists, TypeOK
  <2> QED
    BY <2>1, <2>2
<1>2. ASSUME NEW j \in added \cup {id}, ~Paused, api'[j] # Absent PROVE api'[j] = Rendered(j)
  <2>1. api' = [api EXCEPT ![id] = Rendered(id)]
    BY <1>2 DEF Add
  <2> QED
    BY <1>2, <2>1 DEF RunInv, Applied, Exists, TypeOK
<1>3. snap' = snap /\ added' = added \cup {id}
  BY DEF Add
<1>4. \A j \in added' : Rendered(j)' = Rendered(j)
  BY <1>3 DEF Rendered
<1>5. Paused' = Paused
  BY <1>3 DEF Paused
<1> QED
  BY <1>1, <1>2, <1>3, <1>4, <1>5 DEF Applied, Exists

\* The snapshot is a spec of the user.
LEMMA SnapGroups == TypeOK => snap.groups \subseteq RoleGroups /\ snap \in ClusterSpec
  BY SpecsType DEF TypeOK

\* A step of a run that adds what the snapshot asks for and captures no address.
LEMMA AddInv ==
    ASSUME IInv, NEW id \in Desired(snap), NEW next \in PCs \ {"status"}, Add(id, next),
           UNCHANGED listeners, Progress'
    PROVE  RunInv'
<1> USE DEF IInv
<1>1. Applied'
  BY AddApplied DEF Rendered, Desired
<1>2. Bounded'
  BY DEF RunInv, Bounded, Add
<1>3. NothingLeftOver'
  BY DEF Add, NothingLeftOver
<1> QED
  BY <1>1, <1>2, <1>3 DEF RunInv

\* A step of a run that only moves on.
LEMMA MoveInv ==
    ASSUME IInv, UNCHANGED <<snap, added, listeners, api>>, Progress', NothingLeftOver'
    PROVE  RunInv'
<1>1. Bounded'
  BY DEF IInv, RunInv, Bounded
<1>2. Applied'
  BY DEF IInv, RunInv, Applied, ThereOrTampered, Exists, Paused, Rendered
<1> QED
  BY <1>1, <1>2 DEF RunInv

\* Every step of a run keeps what the run has added in place.
LEMMA ReconcileInv == IInv /\ Reconcile => RunInv'
<1> SUFFICES ASSUME IInv, Reconcile PROVE RunInv'
  OBVIOUS
<1> USE DEF IInv, user, queue, locals, cluster
<1>1. CASE RejectUndecodable \/ Refuse \/ BuildRoleGroupFails \/ BuildDiscoveryFails
           \/ StatefulSetRefused \/ PausedAddFails \/ PatchStatus
  BY <1>1, IdleInv DEF RejectUndecodable, Refuse, BuildRoleGroupFails, BuildDiscoveryFails,
                       StatefulSetRefused, PausedAddFails, PatchStatus, EndWithError, EndRun
<1>2. ASSUME NEW kind \in ClusterKinds \ {"PodDisruptionBudget"} PROVE Single(kind) \in Desired(snap)
  BY DesiredIds, SnapGroups
<1>3. ASSUME NEW kind \in GroupKinds, pc \in InGroup PROVE Of(kind, group) \in Desired(snap)
  BY <1>3, DesiredIds, SnapGroups DEF RunInv, Progress
<1>4. CASE Resolve
  <2>1. Progress'
    BY <1>4 DEF Resolve, RunInv, Progress, PCs, InGroup, AfterServiceAccount, AfterRoleBinding, AfterGroups
  <2> QED
    BY <1>4, <2>1, MoveInv DEF Resolve, NothingLeftOver
<1>5. CASE ApplyServiceAccount
  <2>1. Progress'
    BY <1>5, IdsDiffer DEF ApplyServiceAccount, Add, RunInv, Progress, PCs, InGroup,
       AfterServiceAccount, AfterRoleBinding, AfterGroups
  <2> QED
    BY <1>2, <1>5, <2>1, AddInv DEF ApplyServiceAccount, ClusterKinds, PCs
<1>6. CASE ApplyRoleBinding
  <2>1. Progress'
    BY <1>6, IdsDiffer DEF ApplyRoleBinding, Add, RunInv, Progress, PCs, InGroup,
       AfterServiceAccount, AfterRoleBinding, AfterGroups
  <2> QED
    BY <1>2, <1>6, <2>1, AddInv DEF ApplyRoleBinding, ClusterKinds, PCs
<1>7. ASSUME NEW g \in RoleGroups, BuildRoleGroup(g) PROVE RunInv'
  <2>1. Progress'
    BY <1>7 DEF BuildRoleGroup, Remaining, RunInv, Progress, PCs, InGroup,
       AfterServiceAccount, AfterRoleBinding, AfterGroups
  <2> QED
    BY <1>7, <2>1, MoveInv DEF BuildRoleGroup, NothingLeftOver
<1>8. CASE ApplyListener
  <2>1. Progress'
    BY <1>8, IdsDiffer DEF ApplyListener, Add, RunInv, Progress, PCs, InGroup,
       AfterServiceAccount, AfterRoleBinding, AfterGroups
  <2>2. Of("Listener", group) \in Desired(snap)
    BY <1>3, <1>8 DEF ApplyListener, InGroup, GroupKinds
  <2>3. \A j \in added \cup {Of("Listener", group)} : j.kind \notin {"Discovery", "DiscoveryNodePort"}
    <3>1. \A j \in Id : j.kind \in {"Discovery", "DiscoveryNodePort"} => j = Single(j.kind)
      BY DEF Id, Single, GroupKinds
    <3>2. Single("Discovery") \notin added /\ Single("DiscoveryNodePort") \notin added
      BY <1>8 DEF ApplyListener, RunInv, Progress
    <3> QED
      BY <3>1, <3>2, IdsDiffer DEF TypeOK
  <2>4. Applied'
    BY <1>8, <2>2, <2>3, AddApplied, RenderIgnoresListeners DEF ApplyListener, Rendered, Desired
  <2>5. Bounded'
    BY <1>8, <2>2 DEF ApplyListener, Add, RunInv, Bounded, TypeOK
  <2> QED
    BY <1>8, <2>1, <2>4, <2>5 DEF ApplyListener, Add, RunInv, NothingLeftOver
<1>9. CASE ApplyService
  <2>1. Progress'
    BY <1>9, IdsDiffer DEF ApplyService, Add, RunInv, Progress, PCs, InGroup,
       AfterServiceAccount, AfterRoleBinding, AfterGroups
  <2> QED
    BY <1>3, <1>9, <2>1, AddInv DEF ApplyService, GroupKinds, PCs, InGroup
<1>10. CASE ApplyConfigMap
  <2>1. Progress'
    BY <1>10, IdsDiffer DEF ApplyConfigMap, Add, RunInv, Progress, PCs, InGroup,
       AfterServiceAccount, AfterRoleBinding, AfterGroups
  <2> QED
    BY <1>3, <1>10, <2>1, AddInv DEF ApplyConfigMap, GroupKinds, PCs, InGroup
<1>11. CASE ApplyStatefulSet
  <2>1. Progress'
    BY <1>11, IdsDiffer DEF ApplyStatefulSet, Add, RunInv, Progress, PCs, InGroup, GroupKinds,
       AfterServiceAccount, AfterRoleBinding, AfterGroups
  <2> QED
    BY <1>3, <1>11, <2>1, AddInv DEF ApplyStatefulSet, GroupKinds, PCs, InGroup
<1>12. CASE LeaveRoleGroups
  <2>1. Progress'
    BY <1>12 DEF LeaveRoleGroups, Remaining, RunInv, Progress, PCs, InGroup,
       AfterServiceAccount, AfterRoleBinding, AfterGroups
  <2> QED
    BY <1>12, <2>1, MoveInv DEF LeaveRoleGroups, NothingLeftOver
<1>13. CASE ApplyPdb
  <2>1. Progress'
    BY <1>13, IdsDiffer DEF ApplyPdb, Add, RunInv, Progress, PCs, InGroup,
       AfterServiceAccount, AfterRoleBinding, AfterGroups
  <2>2. Single("PodDisruptionBudget") \in Desired(snap)
    BY <1>13, DesiredIds, SnapGroups DEF ApplyPdb
  <2> QED
    BY <1>13, <2>1, <2>2, AddInv DEF ApplyPdb, PCs
<1>14. CASE SkipPdb
  <2>1. Progress'
    BY <1>14 DEF SkipPdb, RunInv, Progress, PCs, InGroup,
       AfterServiceAccount, AfterRoleBinding, AfterGroups
  <2> QED
    BY <1>14, <2>1, MoveInv DEF SkipPdb, NothingLeftOver
<1>15. CASE ApplyDiscovery
  <2>1. Progress'
    BY <1>15, IdsDiffer DEF ApplyDiscovery, Add, RunInv, Progress, PCs, InGroup,
       AfterServiceAccount, AfterRoleBinding, AfterGroups
  <2> QED
    BY <1>2, <1>15, <2>1, AddInv DEF ApplyDiscovery, ClusterKinds, PCs
<1>16. CASE ApplyDiscoveryNodePort
  <2>1. Progress'
    BY <1>16, IdsDiffer DEF ApplyDiscoveryNodePort, Add, RunInv, Progress, PCs, InGroup,
       AfterServiceAccount, AfterRoleBinding, AfterGroups
  <2> QED
    BY <1>2, <1>16, <2>1, AddInv DEF ApplyDiscoveryNodePort, ClusterKinds, PCs
<1>17. ASSUME NEW id \in Id, DeleteOrphan(id) PROVE RunInv'
  <2>1. Progress' /\ Bounded'
    BY <1>17 DEF DeleteOrphan, RunInv, Progress, Bounded
  <2>2. Applied'
    BY <1>17 DEF DeleteOrphan, Orphans, Remove, RunInv, Applied, ThereOrTampered, Exists, Paused,
                 Rendered, TypeOK
  <2> QED
    BY <1>17, <2>1, <2>2 DEF DeleteOrphan, RunInv, NothingLeftOver
<1>18. CASE OrphansDeleted
  <2>1. Progress'
    BY <1>18 DEF OrphansDeleted, RunInv, Progress, PCs, InGroup,
       AfterServiceAccount, AfterRoleBinding, AfterGroups
  <2>2. NothingLeftOver'
    BY <1>18 DEF OrphansDeleted, Orphans, NothingLeftOver, Paused, Exists
  <2> QED
    BY <1>18, <2>1, <2>2, MoveInv DEF OrphansDeleted
<1> QED
  BY <1>1, <1>4, <1>5, <1>6, <1>7, <1>8, <1>9, <1>10, <1>11, <1>12, <1>13, <1>14, <1>15, <1>16,
     <1>17, <1>18 DEF Reconcile

\* The invariant holds in every reachable state.
THEOREM Invariance == Spec => []IInv
<1>1. Init => RunInv
  BY DEF Init, RunInv, Progress, Bounded, Applied, NothingLeftOver, NoListeners, PCs, InGroup,
         AfterServiceAccount, AfterRoleBinding, AfterGroups
<1>2. TypeOK /\ RunInv /\ [Next]_vars => RunInv'
  <2>1. ASSUME IInv, UNCHANGED vars PROVE RunInv'
    BY <2>1, UntouchedInv DEF IInv, TypeOK, vars, user, queue, locals, cluster
  <2> QED
    BY <2>1, EnvironmentInv, RuntimeInv, ReconcileInv, FailureInv DEF IInv, Next
<1> QED
  BY <1>1, <1>2, TypeCorrect, PTL DEF Spec, IInv

-----------------------------------------------------------------------------
(* Who writes and who deletes *)

\* The steps of a run that apply an object, by program counter.
WritesAt(id) ==
    \/ pc = "serviceAccount" /\ id = Single("ServiceAccount")
    \/ pc = "roleBinding" /\ id = Single("RoleBinding")
    \/ pc = "listener" /\ id = Of("Listener", group)
    \/ pc = "service" /\ id = Of("Service", group)
    \/ pc = "configMap" /\ id = Of("ConfigMap", group)
    \/ pc = "statefulSet" /\ id = Of("StatefulSet", group)
    \/ pc = "pdb" /\ id = Single("PodDisruptionBudget")
    \/ pc = "discovery" /\ id = Single("Discovery")
    \/ pc = "discoveryNodePort" /\ id = Single("DiscoveryNodePort")

\* Deleted by the orphan deletion, or by an outsider at the price of a fault.
DeletedBy(id) ==
    \/ pc = "orphans" /\ ~Paused /\ id \notin added
    \/ id \in Deletable /\ faults' = faults + 1

\* A step that changes an object is an apply of a run that is not paused, or removes it.
LEMMA Writers ==
    ASSUME TypeOK, [Next]_vars, NEW id \in Id, api'[id] # api[id]
    PROVE  \/ ~Paused /\ api'[id] = Rendered(id) /\ WritesAt(id)
           \/ api'[id] = Absent /\ DeletedBy(id)
<1> USE DEF user, queue, locals, cluster
<1> SUFFICES ASSUME Next PROVE \/ ~Paused /\ api'[id] = Rendered(id) /\ WritesAt(id)
                               \/ api'[id] = Absent /\ DeletedBy(id)
  BY DEF vars
<1>1. ASSUME NEW i \in Id, NEW next, Add(i, next)
      PROVE  ~Paused /\ id = i /\ api'[id] = Rendered(id)
  BY <1>1 DEF Add, TypeOK
<1>2. CASE Environment
  <2>1. PICK i \in Id : OutsiderDeletes(i)
    BY <1>2 DEF Environment, UserEdits, PublishAddresses, MoveAddresses, SetAddresses,
                BecomeReady, BecomeUnready
  <2>2. id = i /\ api'[id] = Absent
    BY <2>1 DEF OutsiderDeletes, Remove, TypeOK
  <2> QED
    BY <2>1, <2>2 DEF OutsiderDeletes, Fault, DeletedBy
<1>3. CASE Runtime
  BY <1>3 DEF Runtime, ClusterEvent, OwnedEvent, RequeueElapses, StartReconcile
<1>4. CASE Failure
  BY <1>4 DEF Failure, CallFails, PatchStatusUnacknowledged, WriteStatus, Restart
<1>5. CASE Reconcile
  <2>1. ASSUME NEW i \in Id, DeleteOrphan(i) PROVE api'[id] = Absent /\ DeletedBy(id)
    BY <2>1 DEF DeleteOrphan, Orphans, Remove, DeletedBy, TypeOK
  <2>2. CASE ApplyServiceAccount \/ ApplyRoleBinding \/ ApplyPdb \/ ApplyDiscovery \/ ApplyDiscoveryNodePort
    BY <1>1, <2>2, IdType DEF ApplyServiceAccount, ApplyRoleBinding, ApplyPdb, ApplyDiscovery,
       ApplyDiscoveryNodePort, ClusterKinds, WritesAt
  <2>3. CASE ApplyListener \/ ApplyService \/ ApplyConfigMap \/ ApplyStatefulSet
    <3>1. group \in RoleGroups
      BY <2>3 DEF ApplyListener, ApplyService, ApplyConfigMap, ApplyStatefulSet, TypeOK, InGroup
    <3> QED
      BY <1>1, <2>3, <3>1, IdType DEF ApplyListener, ApplyService, ApplyConfigMap, ApplyStatefulSet,
         GroupKinds, WritesAt
  <2>4. CASE \/ RejectUndecodable \/ Refuse \/ Resolve \/ BuildRoleGroupFails \/ LeaveRoleGroups
             \/ SkipPdb \/ BuildDiscoveryFails \/ OrphansDeleted \/ PatchStatus \/ PausedAddFails
             \/ StatefulSetRefused
             \/ \E g \in RoleGroups : BuildRoleGroup(g)
    BY <2>4 DEF RejectUndecodable, Refuse, Resolve, BuildRoleGroupFails, LeaveRoleGroups, SkipPdb,
       BuildDiscoveryFails, OrphansDeleted, PatchStatus, WriteStatus, PausedAddFails, BuildRoleGroup,
       StatefulSetRefused
  <2> QED
    BY <1>5, <2>1, <2>2, <2>3, <2>4 DEF Reconcile
<1> QED
  BY <1>2, <1>3, <1>4, <1>5 DEF Next

\* What is there stays there, but for outsiders and the orphan deletion.
LEMMA StaysThere ==
    ASSUME TypeOK, [Next]_vars, NEW id \in Id, ThereOrTampered(id)
    PROVE  ThereOrTampered(id)' \/ (pc = "orphans" /\ ~Paused /\ id \notin added)
  BY Writers, RenderType, SpecsType, AbsentAssumption
     DEF ThereOrTampered, Exists, DeletedBy, TypeOK, Rendered

\* When orphans are deleted, the run has added all its snapshot asks for.
LEMMA AddedAll == IInv /\ pc \in {"orphans", "status"} => added = Desired(snap)
<1> SUFFICES ASSUME IInv, pc \in {"orphans", "status"}, NEW id \in Desired(snap)
             PROVE  id \in added
  BY DEF IInv, RunInv, Bounded
<1> USE DEF IInv, RunInv, Progress, PCs, InGroup, AfterServiceAccount, AfterRoleBinding, AfterGroups
<1>1. CASE id.kind \in GroupKinds
  <2>1. id = Of(id.kind, id.group) /\ id.group \in snap.groups
    BY <1>1 DEF Desired, Id, Of, GroupKinds, ClusterKinds
  <2> QED
    BY <1>1, <2>1, SnapGroups
<1>2. CASE id.kind \in ClusterKinds
  <2>1. id = Single(id.kind) /\ (id.kind = "PodDisruptionBudget" => snap.pdb)
    BY <1>2 DEF Desired, Id, Single, GroupKinds, ClusterKinds
  <2> QED
    BY <1>2, <2>1 DEF ClusterKinds
<1> QED
  BY <1>1, <1>2 DEF Desired, Id

-----------------------------------------------------------------------------
(* The safety properties *)

\* No StatefulSet without the ServiceAccount and RoleBinding of its pods, for every
\* choice of specs, edits, failures, restarts and deletions.
THEOREM PodsAlwaysHaveIdentity == Spec => []PodsHaveIdentity
<1>1. Init => PodsHaveIdentity
  BY IdType DEF Init, PodsHaveIdentity, Exists, GroupKinds
<1>2. ASSUME IInv, PodsHaveIdentity, [Next]_vars PROVE PodsHaveIdentity'
  <2> SUFFICES ASSUME NEW g \in RoleGroups, Exists(Of("StatefulSet", g))',
                      NEW k \in {"ServiceAccount", "RoleBinding"}
               PROVE  ThereOrTampered(Single(k))'
    BY DEF PodsHaveIdentity
  <2>1. Of("StatefulSet", g) \in Id /\ Single(k) \in Id
    BY IdType DEF GroupKinds, ClusterKinds
  <2>2. ThereOrTampered(Single(k))
    <3>1. CASE Exists(Of("StatefulSet", g))
      BY <1>2, <3>1 DEF PodsHaveIdentity
    <3>2. CASE ~Exists(Of("StatefulSet", g))
      <4>1. pc = "statefulSet"
        BY <1>2, <2>1, <3>2, Writers, IdsDiffer DEF Exists, WritesAt, IInv
      <4> QED
        BY <1>2, <4>1 DEF IInv, RunInv, Progress, Applied, PCs, AfterServiceAccount, AfterRoleBinding
    <3> QED
      BY <3>1, <3>2
  <2>3. pc = "orphans" => Single(k) \in added
    BY <1>2 DEF IInv, RunInv, Progress, PCs, AfterServiceAccount, AfterRoleBinding
  <2> QED
    BY <1>2, <2>1, <2>2, <2>3, StaysThere DEF IInv
<1> QED
  BY <1>1, <1>2, Invariance, PTL DEF Spec

\* What a discovery ConfigMap lists has a Listener: the loop adds the Listener whose
\* addresses it captures, and a run replaces both ConfigMaps before it deletes any.
THEOREM PublishedHostsAlwaysExist == Spec => []PublishedHostsExist
<1>1. Init => PublishedHostsExist
  BY IdType DEF Init, PublishedHostsExist, Exists, ClusterKinds
<1>2. ASSUME IInv, PublishedHostsExist, [Next]_vars PROVE PublishedHostsExist'
  <2> SUFFICES ASSUME NEW k \in {"Discovery", "DiscoveryNodePort"}, Exists(Single(k))',
                      NEW h \in api'[Single(k)].hosts
               PROVE  ThereOrTampered(Of("Listener", h.group))'
    BY DEF PublishedHostsExist
  <2>1. Single(k) \in Id
    BY IdType DEF ClusterKinds
  \* The hosts this run publishes are those of Listeners it has added.
  <2>2. ASSUME h \in Rendered(Single(k)).hosts
        PROVE  h.group \in RoleGroups /\ Of("Listener", h.group) \in added
    <3>1. h \in Hosts(snap, listeners)
      BY <2>2, IdsDiffer DEF Rendered, Render
    <3> QED
      BY <1>2, <3>1, HostsType, SnapGroups DEF IInv, TypeOK, RunInv, Bounded
  <2>3. CASE api'[Single(k)] # api[Single(k)]
    <3>1. h \in Rendered(Single(k)).hosts /\ WritesAt(Single(k))
      BY <1>2, <2>1, <2>3, Writers DEF Exists, IInv
    <3>2. pc # "orphans"
      BY <3>1 DEF WritesAt
    <3> QED
      BY <1>2, <2>2, <3>1, <3>2, StaysThere DEF IInv, TypeOK, RunInv, Applied
  <2>4. CASE api'[Single(k)] = api[Single(k)]
    <3>1. ThereOrTampered(Of("Listener", h.group))
      BY <1>2, <2>4 DEF PublishedHostsExist, Exists
    <3>2. h.group \in RoleGroups
      <4>1. api[Single(k)] \in Content
        BY <1>2, <2>1, <2>4 DEF IInv, TypeOK, Exists
      <4> QED
        BY <2>4, <4>1 DEF Content, Host
    <3>3. Of("Listener", h.group) \in Id
      BY <3>2, IdType DEF GroupKinds
    <3>4. pc = "orphans" /\ ~Paused => Of("Listener", h.group) \in added
      <4> SUFFICES ASSUME pc = "orphans", ~Paused PROVE Of("Listener", h.group) \in added
        OBVIOUS
      <4>1. Single(k) \in added
        BY <1>2 DEF IInv, RunInv, Progress
      <4> QED
        BY <1>2, <2>2, <2>4, <4>1 DEF IInv, RunInv, Applied, Exists
    <3> QED
      BY <1>2, <3>1, <3>3, <3>4, StaysThere DEF IInv
  <2> QED
    BY <2>3, <2>4
<1> QED
  BY <1>1, <1>2, Invariance, PTL DEF Spec

\* A status is reported only on objects that are those of the snapshot.
THEOREM ReportsAreTrue == Spec => []ReportsWhatIsApplied
<1>1. ASSUME IInv, pc = "status", ~Paused, NEW id \in Id
      PROVE  AsIn(id, snap, listeners) \/ (id \in Deletable /\ ~Exists(id))
  BY <1>1, AddedAll DEF IInv, RunInv, Applied, NothingLeftOver, AsIn, ThereOrTampered, Rendered
<1>2. IInv => ReportsWhatIsApplied
  BY <1>1 DEF ReportsWhatIsApplied
<1> QED
  BY <1>2, Invariance, PTL

\* The operator deletes nothing its snapshot asks for, and nothing before the rest is applied.
THEOREM OnlyOrphansAreDeleted == Spec => DeletesOnlyOrphans
<1>1. ASSUME IInv, [Next]_vars, NEW id \in Id, Exists(id), ~Exists(id)', faults' = faults
      PROVE  /\ id \notin Desired(snap)
             /\ \A d \in Desired(snap) : ThereOrTampered(d) /\ (Exists(d) => AsIn(d, snap, listeners))
  <2>1. pc = "orphans" /\ ~Paused /\ id \notin added
    <3>1. Rendered(id) # Absent
      BY <1>1, RenderType, SpecsType, AbsentAssumption DEF IInv, TypeOK, Rendered
    <3>2. DeletedBy(id)
      BY <1>1, <3>1, Writers DEF IInv, Exists
    <3>3. faults + 1 # faults
      BY <1>1 DEF IInv, TypeOK
    <3> QED
      BY <1>1, <3>2, <3>3 DEF DeletedBy
  <2> QED
    BY <1>1, <2>1, AddedAll DEF IInv, RunInv, Applied, AsIn, Rendered
<1>2. IInv /\ [Next]_vars =>
        \A id \in Id : Exists(id) /\ ~Exists(id)' /\ faults' = faults =>
            /\ id \notin Desired(snap)
            /\ \A d \in Desired(snap) : ThereOrTampered(d) /\ (Exists(d) => AsIn(d, snap, listeners))
  BY <1>1
<1> QED
  BY <1>2, Invariance, PTL DEF Spec, DeletesOnlyOrphans

\* A StatefulSet changes only when what its pods use is there in the same version.
THEOREM StatefulSetsComeLast == Spec => StatefulSetComesLast
<1> DEFINE Inputs(g) == {Single("ServiceAccount"), Single("RoleBinding"), Of("Listener", g),
                         Of("Service", g), Of("ConfigMap", g)}
<1>1. ASSUME IInv, [Next]_vars, NEW g \in RoleGroups, Exists(Of("StatefulSet", g))',
             api'[Of("StatefulSet", g)] # api[Of("StatefulSet", g)], NEW id \in Inputs(g)
      PROVE  ThereOrTampered(id) /\ (Exists(id) => AsIn(id, snap, listeners))
  <2>1. ~Paused /\ pc = "statefulSet" /\ g = group
    BY <1>1, Writers, IdType, IdsDiffer DEF IInv, Exists, WritesAt, GroupKinds
  <2>2. id \in added
    BY <1>1, <2>1 DEF IInv, RunInv, Progress, PCs, AfterServiceAccount, AfterRoleBinding
  <2> QED
    BY <1>1, <2>1, <2>2 DEF IInv, RunInv, Applied, Bounded, AsIn, Rendered
<1>2. IInv /\ [Next]_vars =>
        \A g \in RoleGroups :
            LET sts == Of("StatefulSet", g)
            IN  Exists(sts)' /\ api'[sts] # api[sts] =>
                \A id \in Inputs(g) :
                    ThereOrTampered(id) /\ (Exists(id) => AsIn(id, snap, listeners))
  BY <1>1
<1> QED
  BY <1>2, Invariance, PTL DEF Spec, StatefulSetComesLast
=============================================================================
