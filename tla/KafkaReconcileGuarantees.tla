------------------------ MODULE KafkaReconcileGuarantees ------------------------
(***************************************************************************)
(* What the invariant of a run gives the user: no change is lost, and the  *)
(* control loop implements ClusterDeployment.                              *)
(***************************************************************************)
EXTENDS KafkaReconcileProofs

-----------------------------------------------------------------------------
(* No change is lost: when the operator has nothing queued, running or under *)
(* way, the cluster is what the current spec asks for.                       *)


-----------------------------------------------------------------------------
(* The inductive invariant: whatever a run has captured is still true, or an *)
(* event that leads to another run is on its way or already queued.          *)

Woken == ownedEvent \/ request = "now"

AfterResolve == PCs \ {"idle", "resolve"}

\* The spec of the run is the one in the store, which is the user's.
SpecNoticed ==
    /\ cached # spec => clusterEvent
    /\ pc # "idle" /\ snap # cached => request = "now"

\* A run past "resolve" is over a valid spec, and past the loop over a buildable one.
SpecUsable ==
    /\ pc \in AfterResolve => snap.form = "ok" /\ ~Refused(snap)
    /\ pc \in InGroup => group \notin snap.unbuildable
    /\ \A g \in RoleGroups : Of("StatefulSet", g) \in added => g \notin snap.unbuildable

\* Readiness is captured from applied StatefulSets.
SeenAdded == \A g \in readySeen : Of("StatefulSet", g) \in added

\* What the run captured or applied has not changed unnoticed.
CaptureNoticed ==
    \/ Woken
    \/ /\ \A g \in RoleGroups : Of("Listener", g) \in added => listeners[g] = addresses[g]
       /\ \A g \in RoleGroups : Of("StatefulSet", g) \in added => (g \in readySeen <=> g \in ready)
       /\ \A id \in added : Exists(id) \/ ~Watched(id)

StatusOf(s) == [operation |-> s.operation, available |-> s.groups \subseteq ready]

\* The objects are those of s, but for unwatched ones that outsiders deleted.
ObjectsOf(s) ==
    /\ s.groups \cap s.unbuildable = {}
    /\ \A id \in Id : AsIn(id, s, addresses) \/ (id \in Deletable /\ ~Watched(id))

\* A run that left nothing in the queue has done its work.
RunDone ==
    pc = "idle" /\ request = "none" =>
        /\ snap = cached
        /\ snap.form # "undecodable" =>
            /\ ~Refused(snap)
            /\ ownedEvent \/ status = StatusOf(snap)
            /\ ~Paused => ownedEvent \/ ObjectsOf(snap)

QInv == SpecNoticed /\ SpecUsable /\ SeenAdded /\ CaptureNoticed /\ RunDone

-----------------------------------------------------------------------------
(* The five parts are kept *)

\* A spec that differs from the cached one always has its watch event on the way.
LEMMA SpecNoticedKept == TypeOK /\ SpecNoticed /\ [Next]_vars => SpecNoticed'
<1> SUFFICES ASSUME TypeOK, SpecNoticed, [Next]_vars PROVE SpecNoticed'
  OBVIOUS
<1> USE DEF SpecNoticed, user, queue, locals, cluster
<1>1. CASE Environment
  BY <1>1 DEF Environment, UserEdits, OutsiderDeletes, PublishAddresses, MoveAddresses, SetAddresses,
     BecomeReady, BecomeUnready
<1>2. CASE Runtime
  BY <1>2 DEF Runtime, ClusterEvent, OwnedEvent, RequeueElapses, StartReconcile
<1>3. CASE Failure
  BY <1>3 DEF Failure, CallFails, PatchStatusUnacknowledged, WriteStatus, Restart, EndWithError, EndRun
<1>4. CASE Reconcile
  BY <1>4 DEF Reconcile, RejectUndecodable, Refuse, Resolve, ApplyServiceAccount, ApplyRoleBinding,
     BuildRoleGroup, BuildRoleGroupFails, ApplyListener, ApplyService, ApplyConfigMap,
     ApplyStatefulSet, LeaveRoleGroups, ApplyPdb, SkipPdb, BuildDiscoveryFails, ApplyDiscovery,
     ApplyDiscoveryNodePort, DeleteOrphan, OrphansDeleted, PatchStatus, WriteStatus, PausedAddFails,
     StatefulSetRefused, Add, EndWithError, EndRun
<1>5. CASE UNCHANGED vars
  BY <1>5 DEF vars
<1> QED
  BY <1>1, <1>2, <1>3, <1>4, <1>5 DEF Next

\* A run keeps working on a spec that is valid and whose finished groups can be built.
LEMMA SpecUsableKept == IInv /\ SpecUsable /\ [Next]_vars => SpecUsable'
<1> SUFFICES ASSUME IInv, SpecUsable, [Next]_vars PROVE SpecUsable'
  OBVIOUS
<1> USE DEF SpecUsable, user, queue, locals, cluster, AfterResolve
<1>1. CASE Environment
  BY <1>1 DEF Environment, UserEdits, OutsiderDeletes, PublishAddresses, MoveAddresses, SetAddresses,
     BecomeReady, BecomeUnready
<1>2. CASE Runtime
  BY <1>2 DEF Runtime, ClusterEvent, OwnedEvent, RequeueElapses, StartReconcile, IInv, TypeOK, InGroup
<1>3. ASSUME pc' = "idle", added' = {} PROVE SpecUsable'
  BY <1>3 DEF InGroup
<1>4. CASE Failure
  BY <1>3, <1>4 DEF Failure, CallFails, PatchStatusUnacknowledged, Restart, EndWithError, EndRun
<1>5. CASE \/ RejectUndecodable \/ Refuse \/ BuildRoleGroupFails \/ BuildDiscoveryFails
           \/ PatchStatus \/ PausedAddFails \/ StatefulSetRefused
  BY <1>3, <1>5 DEF RejectUndecodable, Refuse, BuildRoleGroupFails, BuildDiscoveryFails, PatchStatus,
     PausedAddFails, StatefulSetRefused, EndWithError, EndRun
<1>6. CASE \/ ApplyServiceAccount \/ ApplyRoleBinding \/ ApplyListener \/ ApplyService
           \/ ApplyConfigMap \/ ApplyPdb \/ ApplyDiscovery \/ ApplyDiscoveryNodePort
  BY <1>6, IdsDiffer DEF ApplyServiceAccount, ApplyRoleBinding, ApplyListener, ApplyService,
     ApplyConfigMap, ApplyPdb, ApplyDiscovery, ApplyDiscoveryNodePort, Add, InGroup, PCs
<1>7. CASE ApplyStatefulSet
  BY <1>7, IdsDiffer DEF ApplyStatefulSet, Add, InGroup, PCs
<1>8. ASSUME NEW g \in RoleGroups, BuildRoleGroup(g) PROVE SpecUsable'
  BY <1>8 DEF BuildRoleGroup, InGroup, PCs
<1>9. CASE Resolve \/ LeaveRoleGroups \/ SkipPdb \/ OrphansDeleted
  BY <1>9 DEF Resolve, LeaveRoleGroups, SkipPdb, OrphansDeleted, InGroup, PCs
<1>10. ASSUME NEW id \in Id, DeleteOrphan(id) PROVE SpecUsable'
  BY <1>10 DEF DeleteOrphan
<1>11. CASE UNCHANGED vars
  BY <1>11 DEF vars
<1> QED
  BY <1>1, <1>2, <1>4, <1>5, <1>6, <1>7, <1>8, <1>9, <1>10, <1>11 DEF Next, Reconcile

\* Readiness is captured from StatefulSets applied in the same run.
LEMMA SeenAddedKept == TypeOK /\ SeenAdded /\ [Next]_vars => SeenAdded'
<1> SUFFICES ASSUME TypeOK, SeenAdded, [Next]_vars PROVE SeenAdded'
  OBVIOUS
<1> USE DEF SeenAdded, user, queue, locals, cluster
<1>1. ASSUME readySeen' = {} PROVE SeenAdded'
  BY <1>1
<1>2. ASSUME readySeen' = readySeen, added \subseteq added' PROVE SeenAdded'
  BY <1>2
<1>3. CASE ApplyStatefulSet
  BY <1>3 DEF ApplyStatefulSet, Add
<1>4. CASE Environment \/ Runtime \/ UNCHANGED vars
  BY <1>2, <1>4 DEF Environment, UserEdits, OutsiderDeletes, PublishAddresses, MoveAddresses,
     SetAddresses, BecomeReady, BecomeUnready, Runtime, ClusterEvent, OwnedEvent, RequeueElapses,
     StartReconcile, vars
<1>5. CASE Failure
  BY <1>1, <1>5 DEF Failure, CallFails, PatchStatusUnacknowledged, Restart, EndWithError, EndRun
<1>6. CASE Reconcile /\ ~ApplyStatefulSet
  BY <1>1, <1>2, <1>6 DEF Reconcile, RejectUndecodable, Refuse, Resolve, ApplyServiceAccount,
     ApplyRoleBinding, BuildRoleGroup, BuildRoleGroupFails, ApplyListener, ApplyService,
     ApplyConfigMap, LeaveRoleGroups, ApplyPdb, SkipPdb, BuildDiscoveryFails, ApplyDiscovery,
     ApplyDiscoveryNodePort, DeleteOrphan, OrphansDeleted, PatchStatus, PausedAddFails,
     StatefulSetRefused, Add, EndWithError, EndRun
<1> QED
  BY <1>3, <1>4, <1>5, <1>6 DEF Next

\* A Listener or a StatefulSet that disappears, or its status, wakes the operator.
LEMMA RemoveWakes ==
    ASSUME TypeOK, NEW id \in Id, Remove(id)
    PROVE  /\ ownedEvent' \/ (~Watched(id) /\ UNCHANGED <<addresses, ready>>)
           /\ ownedEvent => ownedEvent'
           /\ api' = [api EXCEPT ![id] = Absent]
  BY DEF Remove, Touched, Watched, TypeOK

\* What a run has captured is current, or an event that says so is under way.
LEMMA CaptureNoticedKept == IInv /\ SeenAdded /\ CaptureNoticed /\ [Next]_vars => CaptureNoticed'
<1> SUFFICES ASSUME IInv, SeenAdded, CaptureNoticed, [Next]_vars PROVE CaptureNoticed'
  OBVIOUS
<1> USE DEF CaptureNoticed, Woken, Exists, user, queue, locals, cluster
<1>1. ASSUME NEW id \in Id, Remove(id), UNCHANGED <<request, locals>> PROVE CaptureNoticed'
  <2>1. CASE ownedEvent'
    BY <2>1
  <2>2. CASE ~ownedEvent'
    BY <1>1, <2>2, RemoveWakes DEF IInv, TypeOK
  <2> QED
    BY <2>1, <2>2
<1>2. CASE Environment
  <2>1. CASE UserEdits
    BY <2>1 DEF UserEdits
  <2>2. ASSUME NEW id \in Id, OutsiderDeletes(id) PROVE CaptureNoticed'
    BY <1>1, <2>2 DEF OutsiderDeletes
  <2>3. ASSUME NEW g \in RoleGroups, \/ PublishAddresses(g) \/ MoveAddresses(g)
                                     \/ BecomeReady(g) \/ BecomeUnready(g)
        PROVE  CaptureNoticed'
    BY <2>3 DEF PublishAddresses, MoveAddresses, SetAddresses, BecomeReady, BecomeUnready
  <2> QED
    BY <1>2, <2>1, <2>2, <2>3 DEF Environment
<1>3. ASSUME added' = {} PROVE CaptureNoticed'
  BY <1>3
<1>4. CASE Runtime
  BY <1>3, <1>4 DEF Runtime, ClusterEvent, OwnedEvent, RequeueElapses, StartReconcile, IInv, TypeOK
<1>5. CASE Failure
  BY <1>3, <1>5 DEF Failure, CallFails, PatchStatusUnacknowledged, Restart, EndWithError, EndRun
<1>6. CASE \/ RejectUndecodable \/ Refuse \/ BuildRoleGroupFails \/ BuildDiscoveryFails
           \/ PatchStatus \/ PausedAddFails \/ StatefulSetRefused
  BY <1>3, <1>6 DEF RejectUndecodable, Refuse, BuildRoleGroupFails, BuildDiscoveryFails, PatchStatus,
     PausedAddFails, StatefulSetRefused, EndWithError, EndRun
\* An apply: the new object exists, and only the Listener's captures addresses and
\* the StatefulSet's captures readiness.
<1>7. ASSUME NEW id \in Id, NEW next, Add(id, next),
             \/ UNCHANGED listeners /\ id.kind # "Listener"
             \/ id = Of("Listener", group) /\ listeners' = [listeners EXCEPT ![group] = addresses[group]],
             \/ UNCHANGED readySeen /\ id.kind # "StatefulSet"
             \/ id = Of("StatefulSet", group) /\ readySeen' = readySeen \cup ({group} \cap ready)
      PROVE  CaptureNoticed'
  <2>1. CASE Woken'
    BY <2>1
  <2>2. CASE ~Woken'
    <3>1. ~Woken
      <4>1. request' = request
        BY <1>7 DEF Add
      <4>2. ownedEvent => ownedEvent'
        BY <1>7 DEF Add, Touched
      <4> QED
        BY <2>2, <4>1, <4>2
    <3>2. Rendered(id) # Absent
      BY RenderType, SpecsType, AbsentAssumption DEF IInv, TypeOK, Rendered
    <3>3. \A j \in added' : api'[j] # Absent \/ ~Watched(j)
      BY <1>7, <3>1, <3>2 DEF Add, IInv, TypeOK
    <3>4. \A g \in RoleGroups : Of("Listener", g) \in added' => listeners'[g] = addresses'[g]
      BY <1>7, <3>1, IdsDiffer DEF Add, IInv, TypeOK
    <3>5. \A g \in RoleGroups : Of("StatefulSet", g) \in added' => (g \in readySeen' <=> g \in ready')
      <4> SUFFICES ASSUME NEW g \in RoleGroups, Of("StatefulSet", g) \in added'
                   PROVE  g \in readySeen' <=> g \in ready'
        OBVIOUS
      <4>1. ready' = ready /\ added' = added \cup {id}
        BY <1>7 DEF Add
      <4>2. CASE id = Of("StatefulSet", g)
        <5>1. g = group /\ readySeen' = readySeen \cup ({group} \cap ready)
          BY <1>7, <4>2, IdsDiffer
        <5> QED
          BY <3>1, <4>1, <4>2, <5>1 DEF SeenAdded
      <4>3. CASE id # Of("StatefulSet", g)
        <5>1. Of("StatefulSet", g) \in added
          BY <4>1, <4>3
        <5>2. g \in readySeen' <=> g \in readySeen
          BY <1>7, <4>3
        <5> QED
          BY <3>1, <4>1, <5>1, <5>2
      <4> QED
        BY <4>2, <4>3
    <3> QED
      BY <3>3, <3>4, <3>5
  <2> QED
    BY <2>1, <2>2
<1>8. CASE ApplyServiceAccount \/ ApplyRoleBinding \/ ApplyPdb \/ ApplyDiscovery \/ ApplyDiscoveryNodePort
  BY <1>7, <1>8, IdType, IdsDiffer DEF ApplyServiceAccount, ApplyRoleBinding, ApplyPdb, ApplyDiscovery,
     ApplyDiscoveryNodePort, ClusterKinds
<1>9. CASE ApplyListener \/ ApplyService \/ ApplyConfigMap \/ ApplyStatefulSet
  <2>1. group \in RoleGroups
    BY <1>9 DEF ApplyListener, ApplyService, ApplyConfigMap, ApplyStatefulSet, IInv, TypeOK, InGroup
  <2> QED
    BY <1>7, <1>9, <2>1, IdType, IdsDiffer DEF ApplyListener, ApplyService, ApplyConfigMap,
       ApplyStatefulSet, GroupKinds
<1>10. ASSUME NEW g \in RoleGroups, BuildRoleGroup(g) PROVE CaptureNoticed'
  BY <1>10 DEF BuildRoleGroup
<1>11. CASE Resolve \/ LeaveRoleGroups \/ SkipPdb \/ OrphansDeleted
  BY <1>11 DEF Resolve, LeaveRoleGroups, SkipPdb, OrphansDeleted
<1>12. ASSUME NEW id \in Id, DeleteOrphan(id) PROVE CaptureNoticed'
  BY <1>1, <1>12 DEF DeleteOrphan
<1>13. CASE UNCHANGED vars
  BY <1>13 DEF vars
<1> QED
  BY <1>2, <1>4, <1>5, <1>6, <1>8, <1>9, <1>10, <1>11, <1>12, <1>13 DEF Next, Reconcile

\* Equal addresses are rendered equally.
LEMMA RenderSameAddresses ==
    ASSUME NEW id, NEW s, NEW l1, NEW l2, \A g \in s.groups : l1[g] = l2[g]
    PROVE  Render(id, s, l1) = Render(id, s, l2)
<1>1. \A g \in s.groups :
        {[group |-> g, address |-> i.address, port |-> DiscoveryPortName(s.security)] : i \in l1[g]} =
        {[group |-> g, address |-> i.address, port |-> DiscoveryPortName(s.security)] : i \in l2[g]}
  OBVIOUS
<1>2. Hosts(s, l1) = Hosts(s, l2)
  BY <1>1 DEF Hosts
<1> QED
  BY <1>2 DEF Render

\* A run that comes to its status unwoken finds the cluster as its snapshot asks.
LEMMA StatusStep ==
    ASSUME IInv, QInv, PatchStatus, request = "none", ~ownedEvent
    PROVE  /\ status' = StatusOf(snap)
           /\ ~Paused => ObjectsOf(snap)
<1> USE DEF IInv, RunInv
<1>1. pc = "status"
  BY DEF PatchStatus, WriteStatus
<1>2. added = Desired(snap)
  BY <1>1, AddedAll
<1>3. \A g \in snap.groups : Of("StatefulSet", g) \in added /\ Of("Listener", g) \in added
  BY <1>1, SnapGroups DEF Progress, AfterGroups, PCs, GroupKinds
<1>4. /\ \A g \in snap.groups : listeners[g] = addresses[g] /\ (g \in readySeen <=> g \in ready)
      /\ \A id \in added : Exists(id) \/ ~Watched(id)
  BY <1>3, SnapGroups DEF QInv, CaptureNoticed, Woken
<1>5. status' = StatusOf(snap)
  BY <1>4, SnapGroups DEF PatchStatus, WriteStatus, StatusOf
<1>6. snap.groups \cap snap.unbuildable = {}
  BY <1>3, SnapGroups DEF QInv, SpecUsable
<1>7. ASSUME ~Paused, NEW id \in Id
      PROVE  AsIn(id, snap, addresses) \/ (id \in Deletable /\ ~Watched(id))
  <2>1. CASE id \in Desired(snap)
    <3>1. Exists(id) => api[id] = Render(id, snap, addresses)
      BY <1>2, <1>4, <1>7, <2>1, RenderSameAddresses DEF Applied, Rendered
    <3> QED
      BY <1>2, <1>4, <2>1, <3>1 DEF Applied, ThereOrTampered, AsIn
  <2>2. CASE id \notin Desired(snap)
    BY <1>1, <1>2, <1>7, <2>2 DEF NothingLeftOver, AsIn, Exists
  <2> QED
    BY <2>1, <2>2
<1> QED
  BY <1>5, <1>6, <1>7 DEF ObjectsOf

\* What a finished run has established stays until an event is under way.
LEMMA RunDoneKept == IInv /\ QInv /\ [Next]_vars => RunDone'
<1> SUFFICES ASSUME IInv, QInv, [Next]_vars, pc' = "idle", request' = "none"
             PROVE  /\ snap' = cached'
                    /\ snap'.form # "undecodable" =>
                        /\ ~Refused(snap')
                        /\ ownedEvent' \/ status' = StatusOf(snap)'
                        /\ ~Paused' => ownedEvent' \/ ObjectsOf(snap)'
  BY DEF RunDone, StatusOf, ObjectsOf, AsIn, Render, Hosts, Exists
<1> USE DEF IInv, user, queue, locals, cluster
<1>1. CASE PatchStatus
  <2>1. request = "none" /\ snap' = snap /\ cached' = cached /\ Paused' = Paused
    BY <1>1 DEF PatchStatus, EndRun, Paused
  <2>2. snap = cached /\ ~Refused(snap)
    BY <1>1, <2>1 DEF PatchStatus, WriteStatus, QInv, SpecNoticed, SpecUsable, AfterResolve, PCs
  <2>3. UNCHANGED <<ownedEvent, api, addresses, ready>>
    BY <1>1 DEF PatchStatus, WriteStatus
  <2>4. StatusOf(snap)' = StatusOf(snap) /\ (ObjectsOf(snap)' <=> ObjectsOf(snap))
    BY <2>1, <2>3 DEF StatusOf, ObjectsOf, AsIn, Exists
  <2> QED
    BY <1>1, <2>1, <2>2, <2>3, <2>4, StatusStep
<1>2. CASE RejectUndecodable
  BY <1>2 DEF RejectUndecodable, EndRun, QInv, SpecNoticed
\* Every other end of a run leaves a request, every other step of one goes on.
<1>3. ASSUME EndWithError PROVE FALSE
  BY <1>3 DEF EndWithError, EndRun
<1>4. CASE \/ Refuse \/ BuildRoleGroupFails \/ BuildDiscoveryFails \/ PausedAddFails
           \/ StatefulSetRefused \/ CallFails \/ PatchStatusUnacknowledged \/ Restart
  BY <1>3, <1>4 DEF Refuse, BuildRoleGroupFails, BuildDiscoveryFails, PausedAddFails, StatefulSetRefused,
     CallFails,
     PatchStatusUnacknowledged, Restart
<1>5. CASE \/ Resolve \/ ApplyServiceAccount \/ ApplyRoleBinding \/ (\E g \in RoleGroups : BuildRoleGroup(g))
           \/ ApplyListener \/ ApplyService \/ ApplyConfigMap \/ ApplyStatefulSet \/ LeaveRoleGroups
           \/ ApplyPdb \/ SkipPdb \/ ApplyDiscovery \/ ApplyDiscoveryNodePort
           \/ (\E id \in Id : DeleteOrphan(id)) \/ OrphansDeleted
  BY <1>5 DEF Resolve, ApplyServiceAccount, ApplyRoleBinding, BuildRoleGroup, ApplyListener,
     ApplyService, ApplyConfigMap, ApplyStatefulSet, LeaveRoleGroups, ApplyPdb, SkipPdb,
     ApplyDiscovery, ApplyDiscoveryNodePort, DeleteOrphan, OrphansDeleted, Add
<1>6. CASE Runtime
  BY <1>6 DEF Runtime, ClusterEvent, OwnedEvent, RequeueElapses, StartReconcile
<1>7. ASSUME UNCHANGED <<snap, cached, pc, request, status, api, addresses, ready, ownedEvent>>
      PROVE  RunDone'
  BY <1>7 DEF QInv, RunDone, Paused, StatusOf, ObjectsOf, AsIn, Exists
<1>8. CASE Environment
  <2>1. CASE UserEdits
    BY <1>7, <2>1 DEF UserEdits, RunDone
  <2>2. ASSUME NEW id \in Id, OutsiderDeletes(id)
        PROVE  ownedEvent' \/ (/\ UNCHANGED <<addresses, ready>>
                               /\ id \in Deletable /\ ~Watched(id) /\ api' = [api EXCEPT ![id] = Absent])
    BY <2>2, RemoveWakes DEF OutsiderDeletes
  <2>3. ASSUME NEW id \in Id, OutsiderDeletes(id), ~ownedEvent'
        PROVE  /\ StatusOf(snap)' = StatusOf(snap)
               /\ ObjectsOf(snap) => ObjectsOf(snap)'
    <3>1. snap' = snap /\ status' = status
      BY <2>3 DEF OutsiderDeletes
    <3> QED
      BY <2>2, <2>3, <3>1 DEF StatusOf, ObjectsOf, AsIn, Exists, TypeOK
  <2>4. ASSUME NEW id \in Id, OutsiderDeletes(id), ~ownedEvent' PROVE ~ownedEvent
    BY <2>4, RemoveWakes DEF OutsiderDeletes
  <2>5. ASSUME NEW id \in Id, OutsiderDeletes(id)
        PROVE  UNCHANGED <<snap, cached, pc, request, status>> /\ Paused' = Paused
    BY <2>5 DEF OutsiderDeletes, Paused
  <2>6. ASSUME NEW g \in RoleGroups, \/ PublishAddresses(g) \/ MoveAddresses(g)
                                     \/ BecomeReady(g) \/ BecomeUnready(g)
        PROVE  ownedEvent' /\ UNCHANGED <<snap, cached, pc, request>>
    BY <2>6 DEF PublishAddresses, MoveAddresses, SetAddresses, BecomeReady, BecomeUnready
  <2> QED
    BY <1>8, <2>1, <2>3, <2>4, <2>5, <2>6 DEF Environment, QInv, RunDone
<1>9. CASE UNCHANGED vars
  BY <1>7, <1>9 DEF vars, RunDone
<1> QED
  BY <1>1, <1>2, <1>4, <1>5, <1>6, <1>8, <1>9 DEF Next, Reconcile, Failure

-----------------------------------------------------------------------------
\* When nothing is queued, running or on its way, the status and the objects are
\* those of the current spec: captured addresses and readiness are never left stale
\* and no error is left without a retry, whatever the spec, the bounds, and the order
\* of edits, events, failures, restarts and deletions.
THEOREM QuiescenceIsDone == Spec => []QuiescentMeansDone
<1>1. Init => QInv
  BY DEF Init, QInv, SpecNoticed, SpecUsable, SeenAdded, CaptureNoticed, Woken, RunDone, AfterResolve, InGroup, PCs
<1>2. IInv /\ QInv /\ [Next]_vars => QInv'
  BY SpecNoticedKept, SpecUsableKept, SeenAddedKept, CaptureNoticedKept, RunDoneKept DEF QInv, IInv
<1>3. QInv => QuiescentMeansDone
  BY DEF QInv, SpecNoticed, RunDone, StatusOf, ObjectsOf, Paused, QuiescentMeansDone, Quiescent
<1> QED
  BY <1>1, <1>2, <1>3, Invariance, PTL DEF Spec

-----------------------------------------------------------------------------
(* Refinement: every step of a run is a step of the deployment of its        *)
(* snapshot, or changes nothing of it.                                       *)


\* The loop's steps see a plan of the deployment.
Running == pc # "idle"

\* The names the instance gives to what it is built from.
LEMMA Mapping ==
    ASSUME TypeOK
    PROVE  /\ \A s \in ClusterSpecs : s # Absent
           /\ \A s \in ClusterSpecs : [x \in ClusterSpecs |-> Desired(x)][s] = Desired(s)
           /\ snap \in ClusterSpecs
  BY AbsentAssumption, SpecsAssumption DEF TypeOK

\* What a run renders is a form its snapshot can give.
LEMMA RenderedForm ==
    ASSUME NEW id \in Id, NEW s \in ClusterSpec, NEW lsts \in [RoleGroups -> SUBSET Ingress]
    PROVE  Render(id, s, lsts) \in FormsOf(id, s)
<1> DEFINE r == Render(id, s, NoListeners)
           published == [group : s.groups, address : Addresses, port : {DiscoveryPortName(s.security)}]
<1>1. Hosts(s, lsts) \subseteq published
  <2> SUFFICES ASSUME NEW h \in Hosts(s, lsts) PROVE h \in published
    OBVIOUS
  <2>1. PICK g \in s.groups : \E i \in lsts[g] :
            h = [group |-> g, address |-> i.address, port |-> DiscoveryPortName(s.security)]
    BY DEF Hosts
  <2>2. g \in RoleGroups
    BY DEF ClusterSpec
  <2> QED
    BY <2>1, <2>2 DEF Ingress
<1>2. /\ Render(id, s, lsts).ports = r.ports /\ Render(id, s, lsts).running = r.running
      /\ Render(id, s, lsts).claims = r.claims
      /\ Render(id, s, lsts).hosts = IF id.kind \in {"Discovery", "DiscoveryNodePort"}
                                     THEN Hosts(s, lsts) ELSE {}
  BY DEF Render
<1>3. Render(id, s, lsts) = [ports |-> Render(id, s, lsts).ports, running |-> Render(id, s, lsts).running,
                             claims |-> Render(id, s, lsts).claims, hosts |-> Render(id, s, lsts).hosts]
  BY DEF Render
<1> HIDE DEF r, published
<1>4. Render(id, s, lsts) \in
        [ports : {r.ports}, running : {r.running}, claims : {r.claims},
         hosts : IF id.kind \in {"Discovery", "DiscoveryNodePort"} THEN SUBSET published ELSE {{}}]
  BY <1>1, <1>2, <1>3
<1> QED
  BY <1>4 DEF FormsOf, r, published

\* An apply of the loop is an apply of the deployment, if what the object needs is done.
LEMMA AddRefines ==
    ASSUME IInv, Running, NEW id \in Desired(snap), NEW next \in PCs \ {"idle"}, Add(id, next),
           NeededBy(id) \cap Desired(snap) \subseteq added
    PROVE  Deployment!Apply(id)
<1> USE DEF IInv, Running
<1>0. id \in Id
  BY DEF Desired
<1>1. Rendered(id) \in FormsOf(id, snap)
  BY <1>0, RenderedForm, SnapGroups DEF Rendered, TypeOK
<1>2. pc' # "idle" /\ snap' = snap /\ added' = added \cup {id} /\ status' = status
  BY DEF Add
<1>3. IF Paused THEN api[id] # Absent /\ UNCHANGED api ELSE api' = [api EXCEPT ![id] = Rendered(id)]
  BY DEF Add
<1> QED
  BY <1>0, <1>1, <1>2, <1>3, Mapping DEF Deployment!Apply, Deployment!There, Paused

\* Between runs, or with nothing written, the deployment stutters or is abandoned.
LEMMA QuietRefines ==
    ASSUME IInv, UNCHANGED <<api, status, added>>, (pc = "idle") <=> (pc' = "idle"),
           pc # "idle" => snap' = snap
    PROVE  UNCHANGED Deployment!vars
  BY DEF Deployment!vars

LEMMA EndRefines ==
    ASSUME IInv, pc' = "idle", added' = {}, UNCHANGED <<api, status>>
    PROVE  Deployment!Abandon \/ UNCHANGED Deployment!vars
<1>1. CASE pc = "idle"
  BY <1>1 DEF IInv, TypeOK, Deployment!vars
<1>2. CASE pc # "idle"
  BY <1>2, Mapping DEF IInv, Deployment!Abandon
<1> QED
  BY <1>1, <1>2

\* Applies by program counter: what each object needs has been added before.
LEMMA NeedsAdded ==
    ASSUME IInv
    PROVE  /\ pc \in AfterServiceAccount => NeededBy(Single("RoleBinding")) \subseteq added
           /\ pc = "statefulSet" => NeededBy(Of("StatefulSet", group)) \subseteq added
           /\ pc \in AfterGroups =>
                \A k \in {"Discovery", "DiscoveryNodePort"} :
                    NeededBy(Single(k)) \cap Desired(snap) \subseteq added
<1> USE DEF IInv, RunInv
<1>1. pc \in AfterServiceAccount => NeededBy(Single("RoleBinding")) \subseteq added
  BY DEF NeededBy, Single, Progress
<1>2. ASSUME pc = "statefulSet" PROVE NeededBy(Of("StatefulSet", group)) \subseteq added
  <2>1. NeededBy(Of("StatefulSet", group)) =
            {Single("ServiceAccount"), Single("RoleBinding"), Of("Listener", group),
             Of("Service", group), Of("ConfigMap", group)}
    BY DEF NeededBy, Of
  <2> QED
    BY <1>2, <2>1 DEF Progress, PCs, AfterServiceAccount, AfterRoleBinding
<1>3. ASSUME pc \in AfterGroups, NEW k \in {"Discovery", "DiscoveryNodePort"},
             NEW n \in NeededBy(Single(k)), n \in Desired(snap)
      PROVE  n \in added
  <2>1. NeededBy(Single(k)) = {Of("Listener", g) : g \in RoleGroups}
    BY DEF NeededBy, Single
  <2>2. PICK g \in RoleGroups : n = Of("Listener", g)
    BY <1>3, <2>1
  <2>3. g \in snap.groups
    BY <1>3, <2>2 DEF Desired, Of, GroupKinds
  <2> QED
    BY <1>3, <2>2, <2>3 DEF Progress, GroupKinds
<1> QED
  BY <1>1, <1>2, <1>3

\* Kinds without needs.
LEMMA NeedsNothing ==
    ASSUME NEW id, id.kind \in {"ServiceAccount", "Listener", "Service", "ConfigMap", "PodDisruptionBudget"}
    PROVE  NeededBy(id) = {}
  BY DEF NeededBy

\* A status is written when everything is applied and, unless paused, pruned.
LEMMA StatusRefines ==
    ASSUME IInv, WriteStatus, pc' = "idle", added' = {}
    PROVE  Deployment!Report
<1>1. pc = "status" /\ api' = api
  BY DEF WriteStatus
<1>2. added = Desired(snap) /\ snap \in ClusterSpecs
  BY <1>1, AddedAll DEF IInv, TypeOK
<1>3. Paused \/ \A id \in Id \ Desired(snap) : api[id] = Absent
  BY <1>1, <1>2 DEF IInv, RunInv, NothingLeftOver, Exists
<1>4. status' \in [operation : {snap.operation}, available : BOOLEAN]
  BY DEF WriteStatus
<1> QED
  BY <1>1, <1>2, <1>3, <1>4, Mapping
     DEF Deployment!Report, Deployment!Applied, Deployment!Pruned, Deployment!There, Paused, IInv

\* Every step of a run.
LEMMA ReconcileRefines == IInv /\ Reconcile => [Deployment!Next]_(Deployment!vars)
<1> SUFFICES ASSUME IInv, Reconcile PROVE Deployment!Next \/ UNCHANGED Deployment!vars
  OBVIOUS
<1> USE DEF user, queue, locals, cluster
<1> DEFINE Refined == Deployment!Next \/ UNCHANGED Deployment!vars
<1>1. ASSUME NEW id \in Desired(snap), Deployment!Apply(id) PROVE Refined
  BY <1>1 DEF Deployment!Next, Desired
<1>2. ASSUME pc' = "idle", added' = {}, UNCHANGED <<api, status>> PROVE Refined
  BY <1>2, EndRefines DEF Deployment!Next
<1>3. ASSUME UNCHANGED <<api, status, added, snap>>, pc # "idle", pc' # "idle" PROVE Refined
  BY <1>3, QuietRefines
<1>4. ASSUME NEW kind \in ClusterKinds \ {"PodDisruptionBudget"} PROVE Single(kind) \in Desired(snap)
  BY DesiredIds, SnapGroups DEF IInv
<1>5. ASSUME NEW kind \in GroupKinds, pc \in InGroup PROVE Of(kind, group) \in Desired(snap)
  BY <1>5, DesiredIds, SnapGroups DEF IInv, RunInv, Progress
<1>6. CASE RejectUndecodable \/ Refuse \/ BuildRoleGroupFails \/ BuildDiscoveryFails
           \/ StatefulSetRefused \/ PausedAddFails
  BY <1>2, <1>6 DEF RejectUndecodable, Refuse, BuildRoleGroupFails, BuildDiscoveryFails,
     StatefulSetRefused, PausedAddFails, EndWithError, EndRun
<1>7. CASE Resolve \/ LeaveRoleGroups \/ SkipPdb \/ OrphansDeleted \/ \E g \in RoleGroups : BuildRoleGroup(g)
  BY <1>3, <1>7 DEF Resolve, LeaveRoleGroups, SkipPdb, OrphansDeleted, BuildRoleGroup
<1>8. CASE ApplyServiceAccount
  <2>1. Deployment!Apply(Single("ServiceAccount"))
    BY <1>4, <1>8, AddRefines, NeedsNothing, IdsDiffer DEF ApplyServiceAccount, Running, PCs, ClusterKinds
  <2> QED
    BY <1>1, <1>4, <2>1 DEF ClusterKinds
<1>9. CASE ApplyRoleBinding
  <2>1. NeededBy(Single("RoleBinding")) \subseteq added
    BY <1>9, NeedsAdded DEF ApplyRoleBinding, AfterServiceAccount, PCs
  <2>2. Deployment!Apply(Single("RoleBinding"))
    BY <1>4, <1>9, <2>1, AddRefines DEF ApplyRoleBinding, Running, PCs, ClusterKinds
  <2> QED
    BY <1>1, <1>4, <2>2 DEF ClusterKinds
<1>10. ASSUME NEW kind \in {"Listener", "Service", "ConfigMap"}, pc \in InGroup,
              NEW next \in PCs \ {"idle"}, Add(Of(kind, group), next)
       PROVE  Refined
  <2>1. Of(kind, group) \in Desired(snap)
    BY <1>5, <1>10 DEF GroupKinds
  <2>2. Deployment!Apply(Of(kind, group))
    BY <1>10, <2>1, AddRefines, NeedsNothing, IdsDiffer DEF Running, InGroup
  <2> QED
    BY <1>1, <2>1, <2>2
<1>11. CASE ApplyListener \/ ApplyService \/ ApplyConfigMap
  BY <1>10, <1>11 DEF ApplyListener, ApplyService, ApplyConfigMap, PCs, InGroup
<1>12. CASE ApplyStatefulSet
  <2>1. Of("StatefulSet", group) \in Desired(snap)
    BY <1>5, <1>12 DEF GroupKinds, ApplyStatefulSet, InGroup
  <2>2. Deployment!Apply(Of("StatefulSet", group))
    BY <1>12, <2>1, AddRefines, NeedsAdded DEF ApplyStatefulSet, Running, PCs
  <2> QED
    BY <1>1, <2>1, <2>2
<1>13. CASE ApplyPdb
  <2>1. Single("PodDisruptionBudget") \in Desired(snap)
    BY <1>13, DesiredIds, SnapGroups DEF ApplyPdb, IInv
  <2>2. Deployment!Apply(Single("PodDisruptionBudget"))
    BY <1>13, <2>1, AddRefines, NeedsNothing, IdsDiffer DEF ApplyPdb, Running, PCs
  <2> QED
    BY <1>1, <2>1, <2>2
<1>14. CASE ApplyDiscovery
  <2>1. NeededBy(Single("Discovery")) \cap Desired(snap) \subseteq added
    BY <1>14, NeedsAdded DEF ApplyDiscovery, AfterGroups
  <2>2. Deployment!Apply(Single("Discovery"))
    BY <1>4, <1>14, <2>1, AddRefines DEF ApplyDiscovery, Running, PCs, ClusterKinds
  <2> QED
    BY <1>1, <1>4, <2>2 DEF ClusterKinds
<1>15. CASE ApplyDiscoveryNodePort
  <2>1. NeededBy(Single("DiscoveryNodePort")) \cap Desired(snap) \subseteq added
    BY <1>15, NeedsAdded DEF ApplyDiscoveryNodePort, AfterGroups
  <2>2. Deployment!Apply(Single("DiscoveryNodePort"))
    BY <1>4, <1>15, <2>1, AddRefines DEF ApplyDiscoveryNodePort, Running, PCs, ClusterKinds
  <2> QED
    BY <1>1, <1>4, <2>2 DEF ClusterKinds
<1>16. ASSUME NEW id \in Id, DeleteOrphan(id) PROVE Deployment!Prune(id)
  <2>1. added = Desired(snap)
    BY <1>16, AddedAll DEF DeleteOrphan
  <2>2. ~Paused /\ id \notin added /\ Exists(id)
    BY <1>16 DEF DeleteOrphan, Orphans, Exists
  <2>3. pc # "idle" /\ UNCHANGED <<pc, snap, added, status>> /\ api' = [api EXCEPT ![id] = Absent]
    BY <1>16 DEF DeleteOrphan, Remove
  <2> QED
    BY <2>1, <2>2, <2>3, Mapping DEF Deployment!Prune, Deployment!Applied, Deployment!There, Paused, Exists, IInv
<1>17. CASE PatchStatus
  <2>1. Deployment!Report
    BY <1>17, StatusRefines DEF PatchStatus, EndRun
  <2> QED
    BY <2>1 DEF Deployment!Next
<1> QED
  BY <1>6, <1>7, <1>8, <1>9, <1>11, <1>12, <1>13, <1>14, <1>15, <1>16, <1>17 DEF Reconcile, Deployment!Next

\* Failures abandon the deployment; a status whose answer is lost was reported.
LEMMA FailureRefines == IInv /\ Failure => [Deployment!Next]_(Deployment!vars)
<1> SUFFICES ASSUME IInv, Failure PROVE Deployment!Next \/ UNCHANGED Deployment!vars
  OBVIOUS
<1>1. CASE CallFails \/ Restart
  BY <1>1, EndRefines DEF CallFails, Restart, EndWithError, EndRun, cluster, user, Deployment!Next
<1>2. CASE PatchStatusUnacknowledged
  <2>1. Deployment!Report
    BY <1>2, StatusRefines DEF PatchStatusUnacknowledged, EndWithError, EndRun
  <2> QED
    BY <2>1 DEF Deployment!Next
<1> QED
  BY <1>1, <1>2 DEF Failure

\* The user, other controllers and the queue: a run starts, or an object vanishes.
LEMMA OthersRefine == IInv /\ (Environment \/ Runtime) => [Deployment!Next]_(Deployment!vars)
<1> SUFFICES ASSUME IInv, Environment \/ Runtime PROVE Deployment!Next \/ UNCHANGED Deployment!vars
  OBVIOUS
<1> USE DEF user, queue, locals, cluster
<1>1. ASSUME NEW id \in Id, OutsiderDeletes(id) PROVE Deployment!Tamper(id)
  BY <1>1 DEF OutsiderDeletes, Remove, Deployment!Tamper, Deployment!There
<1>2. CASE StartReconcile
  <2>1. Deployment!Begin(cached)
    BY <1>2 DEF StartReconcile, Deployment!Begin, IInv, TypeOK
  <2> QED
    BY <2>1 DEF Deployment!Next, IInv, TypeOK
<1>3. CASE \/ UserEdits \/ ClusterEvent \/ OwnedEvent \/ RequeueElapses
           \/ \E g \in RoleGroups : PublishAddresses(g) \/ MoveAddresses(g) \/ BecomeReady(g) \/ BecomeUnready(g)
  <2>1. UNCHANGED <<api, status, added, pc, snap>>
    BY <1>3 DEF UserEdits, ClusterEvent, OwnedEvent, RequeueElapses, PublishAddresses, MoveAddresses,
       SetAddresses, BecomeReady, BecomeUnready
  <2> QED
    BY <2>1 DEF Deployment!vars
<1> QED
  BY <1>1, <1>2, <1>3 DEF Environment, Runtime, Deployment!Next

\* The control loop implements ordered deployment, for every set of role groups, of
\* specs and of deletable objects, and whatever fails.
THEOREM ReconcileImplementsDeployment == Spec => ImplementsDeployment
<1>1. Init => Deployment!Init
  BY DEF Init, Deployment!Init
<1>2. IInv /\ [Next]_vars => [Deployment!Next]_(Deployment!vars)
  <2>1. UNCHANGED vars => UNCHANGED Deployment!vars
    BY DEF vars, user, queue, locals, cluster, Deployment!vars
  <2> QED
    BY <2>1, ReconcileRefines, FailureRefines, OthersRefine DEF Next
<1> QED
  BY <1>1, <1>2, Invariance, PTL DEF Spec, ImplementsDeployment, Deployment!Spec

-----------------------------------------------------------------------------
(* What ClusterDeployment proves of its specification holds of the control   *)
(* loop: the assumptions it makes about plans, forms and needs are met.      *)

Ordered == INSTANCE ClusterDeploymentProofs WITH
    Objects    <- Id,
    Contents   <- Content,
    Plans      <- ClusterSpecs,
    NoPlan     <- Absent,
    Wanted     <- [s \in ClusterSpecs |-> Desired(s)],
    Forms      <- [s \in ClusterSpecs |-> [id \in Id |-> FormsOf(id, s)]],
    Needs      <- [id \in Id |-> NeededBy(id)],
    Frozen     <- {s \in ClusterSpecs : s.operation = "pause"},
    Tamperable <- Deletable,
    Reports    <- [s \in ClusterSpecs |-> [operation : {s.operation}, available : BOOLEAN]],
    NoReport   <- [operation |-> "unknown", available |-> FALSE],
    target     <- IF pc = "idle" THEN Absent ELSE snap,
    done       <- added,
    objects    <- api,
    report     <- status

\* Everything an object needs is an object.
LEMMA NeedsAreIds == \A id \in Id : NeededBy(id) \subseteq Id
<1> SUFFICES ASSUME NEW id \in Id PROVE NeededBy(id) \subseteq Id
  OBVIOUS
<1>1. CASE id.kind = "RoleBinding"
  BY <1>1, IdType DEF NeededBy, ClusterKinds
<1>2. CASE id.kind = "StatefulSet"
  <2>1. id.group \in RoleGroups
    BY <1>2 DEF Id, ClusterKinds
  <2> QED
    BY <1>2, <2>1, IdType DEF NeededBy, ClusterKinds, GroupKinds
<1>3. CASE id.kind \in {"Discovery", "DiscoveryNodePort"}
  BY <1>3, IdType DEF NeededBy, GroupKinds
<1>4. CASE id.kind \notin {"RoleBinding", "StatefulSet", "Discovery", "DiscoveryNodePort"}
  BY <1>4 DEF NeededBy
<1> QED
  BY <1>1, <1>2, <1>3, <1>4

\* Every form of an object is the content of one.
LEMMA FormsAreContents ==
    ASSUME NEW s \in ClusterSpecs, NEW id \in Id
    PROVE  FormsOf(id, s) \subseteq Content
<1> DEFINE r == Render(id, s, NoListeners)
           published == [group : s.groups, address : Addresses, port : {DiscoveryPortName(s.security)}]
<1>1. r \in Content
  BY SpecsType, RenderType DEF NoListeners
<1>2. r.ports \subseteq PortNames /\ r.running \in BOOLEAN /\ r.claims \subseteq Claims
  BY <1>1 DEF Content
<1>3. published \subseteq Host
  BY SpecsType, PortNamesType DEF Host
<1> HIDE DEF r, published
<1>4. [ports : {r.ports}, running : {r.running}, claims : {r.claims},
       hosts : IF id.kind \in {"Discovery", "DiscoveryNodePort"} THEN SUBSET published ELSE {{}}]
          \subseteq Content
  BY <1>2, <1>3 DEF Content
<1> QED
  BY <1>4 DEF FormsOf, r, published

LEMMA DeploymentAssumptions ==
    /\ [s \in ClusterSpecs |-> Desired(s)] \in [ClusterSpecs -> SUBSET Id]
    /\ [id \in Id |-> NeededBy(id)] \in [Id -> SUBSET Id]
    /\ Absent \notin ClusterSpecs
    /\ \A p \in ClusterSpecs : \A o \in Id :
           /\ [s \in ClusterSpecs |-> [id \in Id |-> FormsOf(id, s)]][p][o] \subseteq Content
           /\ Absent \notin [s \in ClusterSpecs |-> [id \in Id |-> FormsOf(id, s)]][p][o]
<1>1. \A s \in ClusterSpecs : Desired(s) \subseteq Id
  BY DEF Desired
<1>2. \A s \in ClusterSpecs, id \in Id : FormsOf(id, s) \subseteq Content /\ Absent \notin FormsOf(id, s)
  BY FormsAreContents, AbsentAssumption
<1> QED
  BY <1>1, <1>2, NeedsAreIds, AbsentAssumption, SpecsAssumption

\* After whatever runs were abandoned half-way, over whatever specs, an object is not there
\* without those it needs, if every spec wants these and nobody deletes them by hand: the
\* order of one run's applies survives failures, edits, orphan deletion and restarts.
THEOREM NeededObjectsStay ==
    Spec => [](\A id \in Id : Exists(id) =>
                  \A n \in NeededBy(id) \ Deletable :
                      (\A s \in ClusterSpecs : n \in Desired(s)) => Exists(n))
<1>1. Ordered!Spec => []Ordered!NeedsMet
  BY Ordered!NeedsAlwaysMet, DeploymentAssumptions
<1>2. Deployment!Spec => Ordered!Spec
  <2>1. Deployment!Init => Ordered!Init
    BY DEF Deployment!Init, Ordered!Init
  <2>2. [Deployment!Next]_(Deployment!vars) => [Ordered!Next]_(Ordered!vars)
    BY DEF Deployment!Next, Deployment!vars, Deployment!Begin, Deployment!Apply, Deployment!Prune,
       Deployment!Tamper, Deployment!Report, Deployment!Abandon, Deployment!Applied, Deployment!Pruned,
       Deployment!There, Ordered!Next, Ordered!vars, Ordered!Begin, Ordered!Apply, Ordered!Prune,
       Ordered!Tamper, Ordered!Report, Ordered!Abandon, Ordered!Applied, Ordered!Pruned, Ordered!There
  <2> QED
    BY <2>1, <2>2, PTL DEF Deployment!Spec, Ordered!Spec
<1>3. Ordered!NeedsMet =>
          \A id \in Id : Exists(id) =>
              \A n \in NeededBy(id) \ Deletable :
                  (\A s \in ClusterSpecs : n \in Desired(s)) => Exists(n)
  BY NeedsAreIds DEF Ordered!NeedsMet, Ordered!Core, Ordered!There, Exists
<1> QED
  BY <1>1, <1>2, <1>3, ReconcileImplementsDeployment, PTL DEF ImplementsDeployment

===============================================================================
