--------------------------- MODULE BrokerFleetProofs ---------------------------
(***************************************************************************)
(* How many brokers edits, drains, crashes and failed runs can take down   *)
(* together, for every number of role groups and replicas, every budget    *)
(* and every sequence of edits.                                            *)
(***************************************************************************)
EXTENDS BrokerFleet, FiniteSetTheorems, TLAPS

-----------------------------------------------------------------------------
(* Types *)

\* A budget is a number.
LEMMA BudgetType == \A s \in ClusterSpecs : MaxUnavailable(s.pdb) \in Nat
<1> SUFFICES ASSUME NEW s \in ClusterSpecs PROVE MaxUnavailable(s.pdb) \in Nat
  OBVIOUS
<1>1. s.pdb.max \in SUBSET Nat
  BY FleetSpecsAssumption DEF ClusterSpec, PdbConfig
<1> QED
  BY <1>1 DEF MaxUnavailable

\* What a spec asks of a role group.
Asked(s, g) == [template |-> s.template[g], replicas |-> s.replicas[g]]

LEMMA AskedType == \A s \in ClusterSpecs, g \in RoleGroups : Asked(s, g) \in StatefulSet
  BY FleetSpecsAssumption DEF Asked, ClusterSpec, StatefulSet

LEMMA BrokerType == \A b \in Broker : b[1] \in RoleGroups /\ b[2] \in Nat
  BY FleetBoundsAssumption DEF Broker

LEMMA TroubleType == TypeOK /\ Trouble => trouble' \in 0 .. MaxTrouble
  BY FleetBoundsAssumption DEF TypeOK, Trouble

LEMMA FleetTypeStep ==
    ASSUME TypeOK, [Next]_vars
    PROVE  TypeOK'
<1> USE FleetBoundsAssumption DEF TypeOK, run, objects, fleet, bounds
<1>1. CASE UserEdits
  BY <1>1 DEF UserEdits, There, In
<1>2. CASE StartRun
  BY <1>2 DEF StartRun, There, In
<1>3. ASSUME NEW g \in RoleGroups, ApplyStatefulSet(g) PROVE TypeOK'
  <2>1. Asked(snap, g) \in StatefulSet
    BY AskedType
  <2>2. sts' \in [RoleGroups -> StatefulSet \cup {Absent}]
    BY <1>3, <2>1 DEF ApplyStatefulSet, Asked
  <2> QED
    BY <1>3, <2>2 DEF ApplyStatefulSet, There, In
<1>4. CASE ApplyPdb
  <2>1. pdb' = Absent \/ pdb' \in Nat
    BY <1>4, BudgetType DEF ApplyPdb
  <2> QED
    BY <1>4, <2>1 DEF ApplyPdb, There, In
<1>5. CASE RunFails
  BY <1>5, TroubleType DEF RunFails, There, In
<1>6. ASSUME NEW b \in Broker, CreatePod(b) PROVE TypeOK'
  <2>1. b[1] \in RoleGroups /\ sts[b[1]] \in StatefulSet
    BY <1>6, BrokerType DEF CreatePod, Wanted
  <2>2. [template |-> sts[b[1]].template, state |-> "starting"] \in Pod
    BY <2>1 DEF StatefulSet, Pod
  <2> QED
    BY <1>6, <2>2 DEF CreatePod, There, In
<1>7. ASSUME NEW b \in Broker, There(b), Stop(b) PROVE /\ pods' \in [Broker -> Pod \cup {Absent}]
                                                      /\ cordoned' \in SUBSET Broker
                                                      /\ \A c \in cordoned' : There(c)' /\ ~In(c, "stopping")'
  <2>1. pods' = [pods EXCEPT ![b].state = "stopping"] /\ cordoned' = cordoned \ {b}
    BY <1>7 DEF Stop
  <2>2. [pods[b] EXCEPT !.state = "stopping"] \in Pod
    BY <1>7 DEF There, Pod
  <2>3. \A c \in Broker \ {b} : pods'[c] = pods[c]
    BY <2>1
  <2> QED
    BY <2>1, <2>2, <2>3 DEF There, In
<1>8. ASSUME NEW b \in Broker, ScaleDown(b) \/ RollPod(b) \/ Evict(b) PROVE TypeOK'
  <2>1. There(b) /\ Stop(b)
    BY <1>8 DEF ScaleDown, RollPod, Evict
  <2>2. /\ UNCHANGED <<spec, run, objects, dropped, bounds>>
        /\ taken' \in SUBSET Broker
    BY <1>8 DEF ScaleDown, RollPod, Evict
  <2> QED
    BY <1>7, <2>1, <2>2
<1>9. ASSUME NEW b \in Broker, There(b), NEW state \in {"starting", "ready"},
             pods' = [pods EXCEPT ![b].state = state], cordoned' = cordoned
      PROVE  /\ pods' \in [Broker -> Pod \cup {Absent}]
             /\ \A c \in cordoned' : There(c)' /\ ~In(c, "stopping")'
  <2>1. [pods[b] EXCEPT !.state = state] \in Pod
    BY <1>9 DEF There, Pod
  <2>2. \A c \in Broker \ {b} : pods'[c] = pods[c]
    BY <1>9
  <2> QED
    BY <1>9, <2>1, <2>2, FleetAbsentAssumption DEF There, In
<1>10. ASSUME NEW b \in Broker, PodReady(b) PROVE TypeOK'
  BY <1>9, <1>10 DEF PodReady, In
<1>11. ASSUME NEW b \in Broker, BrokerCrashes(b) PROVE TypeOK'
  BY <1>9, <1>11, TroubleType DEF BrokerCrashes, In
<1>12. ASSUME NEW b \in Broker, PodStopped(b) PROVE TypeOK'
  BY <1>12 DEF PodStopped, There, In
<1>13. ASSUME NEW b \in Broker, DrainNode(b) PROVE TypeOK'
  BY <1>13, TroubleType DEF DrainNode, There, In
<1>14. CASE UNCHANGED vars
  BY <1>14 DEF vars, There, In
<1> QED
  BY <1>1, <1>2, <1>3, <1>4, <1>5, <1>6, <1>8, <1>10, <1>11, <1>12, <1>13, <1>14
     DEF Next, Operator, Kubernetes

\* Every variable has its type, and a broker whose node is drained has a pod there.
THEOREM FleetTypeCorrect == Spec => []TypeOK
<1>1. Init => TypeOK
  BY FleetBoundsAssumption DEF Init, TypeOK
<1>2. TypeOK /\ [Next]_vars => TypeOK'
  BY FleetTypeStep
<1> QED
  BY <1>1, <1>2, PTL DEF Spec

-----------------------------------------------------------------------------
(* The inductive invariant *)

\* Of the edits so far, those that have not changed the StatefulSet of g because a run has
\* yet to apply it, or because no run has seen them; and those that may have.
Unapplied(g) == IF sts[g] \in {Absent, Asked(snap, g)} THEN 0 ELSE 1
Unseen == IF snap = spec THEN 0 ELSE 1
Reached(g) == edits - (Unapplied(g) + Unseen)

\* Until an edit reaches a role group no pod of it is of an old template.
EditsReach ==
    \A g \in RoleGroups :
        /\ Unapplied(g) + Unseen <= edits
        /\ Reached(g) = 0 => \A b \in Broker : b[1] = g /\ There(b) => Current(b)

\* A pod has its StatefulSet, and is wanted or has been scaled away.
PodsOfFleet == \A b \in Broker : There(b) => sts[b[1]] # Absent /\ (Wanted(b) \/ b \in dropped)

\* A broker that was taken down is wanted and not back.
TakenAreDown == \A b \in taken : Wanted(b) /\ ~In(b, "ready")

\* at[b] is the edit whose rolling update has taken b down, or 0.  A rolling update has no
\* more than one broker down, and all above the one of the last edit are done.
RolledAt(at) ==
    /\ \A b \in Broker : at[b] <= Reached(b[1])
    /\ \A b, c \in Broker : b[1] = c[1] /\ at[b] = at[c] /\ at[b] # 0 => b = c
    /\ \A b \in Broker : at[b] # 0 /\ at[b] = Reached(b[1]) =>
           \A c \in Siblings(b) : c[2] > b[2] /\ There(c) => Current(c)

\* Evictions alone account for the rest of those that are down.
Evicted(at) == {b \in taken : at[b] = 0}

RestWithinBudget(at) ==
    \A n \in Budgets :
        (\A m \in Budgets : m <= n) => Cardinality(Evicted(at)) <= n + Cardinality(dropped)

LossInv == \E at \in [Broker -> Nat] : RolledAt(at) /\ RestWithinBudget(at)

\* The budget in force is one of those the specs ask for.
BudgetKnown == pdb = Absent \/ pdb \in Budgets

IInv == TypeOK /\ BudgetKnown /\ EditsReach /\ PodsOfFleet /\ TakenAreDown /\ LossInv

-----------------------------------------------------------------------------
(* Counting *)

LEMMA BrokersFinite == IsFiniteSet(Broker)
<1>1. IsFiniteSet(0 .. MaxReplicas - 1)
  BY FleetBoundsAssumption, FS_Interval
<1> QED
  BY <1>1, FleetRoleGroupsAssumption, FS_Product DEF Broker

\* Sets of brokers can be counted, and larger ones count more.
LEMMA Counting ==
    ASSUME NEW S \in SUBSET Broker, NEW T \in SUBSET S
    PROVE  /\ IsFiniteSet(S) /\ Cardinality(S) \in Nat
           /\ Cardinality(T) \in Nat /\ Cardinality(T) <= Cardinality(S)
<1>1. IsFiniteSet(S)
  BY BrokersFinite, FS_Subset
<1>2. IsFiniteSet(T) /\ Cardinality(T) <= Cardinality(S)
  BY <1>1, FS_Subset
<1> QED
  BY <1>1, <1>2, FS_CardinalityType

\* One broker of each role group for each of n numbers.
LEMMA OneForEach ==
    ASSUME NEW n \in Nat, NEW R \in SUBSET Broker, NEW at \in [Broker -> Nat],
           \A b \in R : at[b] \in 1 .. n,
           \A b, c \in R : b[1] = c[1] /\ at[b] = at[c] => b = c
    PROVE  Cardinality(R) <= n * Cardinality(RoleGroups)
<1> DEFINE S == RoleGroups \X (1 .. n)
           f == [b \in R |-> <<b[1], at[b]>>]
<1>1. IsFiniteSet(1 .. n) /\ Cardinality(1 .. n) = n
  BY FS_Interval
<1>2. IsFiniteSet(S) /\ Cardinality(S) = Cardinality(RoleGroups) * n
  BY <1>1, FleetRoleGroupsAssumption, FS_Product
<1>3. f \in Injection(R, S)
  BY BrokerType DEF Injection, IsInjective
<1>4. Cardinality(R) <= Cardinality(S)
  BY <1>2, <1>3, FS_Injection
<1>5. Cardinality(RoleGroups) \in Nat
  BY FleetRoleGroupsAssumption, FS_CardinalityType
<1>6. \A m \in Nat : m * n = n * m
  OBVIOUS
<1> QED
  BY <1>2, <1>4, <1>5, <1>6

\* What the budget is about: if all ready brokers are no fewer than those wanted, short of
\* n, the wanted ones that are not ready are at most n and one for each ready unwanted one.
LEMMA BudgetCounts ==
    ASSUME NEW H \in SUBSET Broker, NEW W \in SUBSET Broker, NEW n \in Nat,
           Cardinality(W) <= Cardinality(H) + n
    PROVE  Cardinality(W \ H) <= n + Cardinality(H \ W)
<1>1. IsFiniteSet(H) /\ IsFiniteSet(W)
  BY Counting
<1>2. Cardinality(W \ H) = Cardinality(W) - Cardinality(W \cap H)
  BY <1>1, FS_Difference
<1>3. Cardinality(H \ W) = Cardinality(H) - Cardinality(H \cap W)
  BY <1>1, FS_Difference
<1>4. Cardinality(H \cap W) = Cardinality(W \cap H)
  <2>1. H \cap W = W \cap H
    OBVIOUS
  <2> QED
    BY <2>1
<1>5. Cardinality(H) \in Nat /\ Cardinality(W) \in Nat
  BY Counting
<1>6. Cardinality(W \cap H) \in Nat
  BY Counting
<1>7. ASSUME NEW w \in Nat, NEW h \in Nat, NEW both \in Nat, w <= h + n PROVE w - both <= n + (h - both)
  BY <1>7
<1> QED
  BY <1>2, <1>3, <1>4, <1>5, <1>6, <1>7

LEMMA BudgetsType == Budgets \subseteq Nat
  BY BudgetType DEF Budgets

-----------------------------------------------------------------------------
(* What steps do to StatefulSets and pods *)

\* A StatefulSet is written by a run.
LEMMA StatefulSetStep ==
    ASSUME TypeOK, [Next]_vars, NEW g \in RoleGroups
    PROVE  sts'[g] = sts[g] \/ (ApplyStatefulSet(g) /\ sts'[g] = Asked(snap, g))
<1>1. CASE UserEdits \/ StartRun \/ ApplyPdb \/ RunFails \/ UNCHANGED vars
  BY <1>1 DEF UserEdits, StartRun, ApplyPdb, RunFails, objects, vars
<1>2. ASSUME NEW h \in RoleGroups, ApplyStatefulSet(h)
      PROVE  sts'[g] = sts[g] \/ (ApplyStatefulSet(g) /\ sts'[g] = Asked(snap, g))
  BY <1>2 DEF ApplyStatefulSet, Asked, TypeOK
<1>3. ASSUME NEW b \in Broker, Kubernetes(b) \/ BrokerCrashes(b) \/ DrainNode(b) \/ Evict(b)
      PROVE  sts' = sts
  BY <1>3 DEF Kubernetes, CreatePod, ScaleDown, RollPod, PodReady, PodStopped, BrokerCrashes, DrainNode,
     Evict, objects
<1> QED
  BY <1>1, <1>2, <1>3 DEF Next, Operator

\* Only the user edits, and a run keeps the spec it has begun with.
LEMMA SpecStep ==
    ASSUME [Next]_vars
    PROVE  UserEdits \/ StartRun \/ UNCHANGED <<spec, edits, snap>>
<1>1. CASE ApplyPdb \/ RunFails \/ UNCHANGED vars
  BY <1>1 DEF ApplyPdb, RunFails, bounds, vars
<1>2. ASSUME NEW g \in RoleGroups, ApplyStatefulSet(g) PROVE UNCHANGED <<spec, edits, snap>>
  BY <1>2 DEF ApplyStatefulSet, bounds
<1>3. ASSUME NEW b \in Broker, Kubernetes(b) \/ BrokerCrashes(b) \/ DrainNode(b) \/ Evict(b)
      PROVE  UNCHANGED <<spec, edits, snap>>
  BY <1>3 DEF Kubernetes, CreatePod, ScaleDown, RollPod, PodReady, PodStopped, BrokerCrashes, DrainNode,
     Evict, run, bounds
<1> QED
  BY <1>1, <1>2, <1>3 DEF Next, Operator

\* A pod keeps its template, and has the one of the StatefulSet when it is created, for
\* a broker that is wanted.
LEMMA PodStep ==
    ASSUME TypeOK, [Next]_vars, NEW b \in Broker, There(b)'
    PROVE  \/ There(b) /\ pods'[b].template = pods[b].template
           \/ Wanted(b) /\ pods'[b].template = sts[b[1]].template /\ UNCHANGED sts
<1> USE DEF TypeOK, There
<1>1. ASSUME pods' = pods PROVE There(b) /\ pods'[b].template = pods[b].template
  BY <1>1
<1>2. CASE UserEdits \/ Operator \/ RunFails \/ UNCHANGED vars
  BY <1>1, <1>2 DEF UserEdits, Operator, StartRun, ApplyStatefulSet, ApplyPdb, RunFails, fleet, vars
<1>3. ASSUME NEW c \in Broker, There(c), NEW state, pods' = [pods EXCEPT ![c].state = state]
      PROVE  There(b) /\ pods'[b].template = pods[b].template
  BY <1>3 DEF Pod
<1>4. ASSUME NEW c \in Broker, CreatePod(c)
      PROVE  \/ There(b) /\ pods'[b].template = pods[b].template
             \/ Wanted(b) /\ pods'[b].template = sts[b[1]].template /\ UNCHANGED sts
  BY <1>4 DEF CreatePod, objects
<1>5. ASSUME NEW c \in Broker, ScaleDown(c) \/ RollPod(c) \/ Evict(c)
      PROVE  There(b) /\ pods'[b].template = pods[b].template
  BY <1>3, <1>5 DEF ScaleDown, RollPod, Evict, Stop
<1>6. ASSUME NEW c \in Broker, PodReady(c) \/ BrokerCrashes(c)
      PROVE  There(b) /\ pods'[b].template = pods[b].template
  BY <1>3, <1>6 DEF PodReady, BrokerCrashes, In
<1>7. ASSUME NEW c \in Broker, PodStopped(c)
      PROVE  There(b) /\ pods'[b].template = pods[b].template
  BY <1>7 DEF PodStopped
<1>8. ASSUME NEW c \in Broker, DrainNode(c)
      PROVE  There(b) /\ pods'[b].template = pods[b].template
  BY <1>1, <1>8 DEF DrainNode
<1> QED
  BY <1>2, <1>4, <1>5, <1>6, <1>7, <1>8 DEF Next, Kubernetes

-----------------------------------------------------------------------------
(* Edits reach one role group after the other *)

LEMMA ReachedType ==
    ASSUME TypeOK, EditsReach, NEW g \in RoleGroups
    PROVE  Reached(g) \in Nat /\ Reached(g) <= edits /\ edits \in Nat
  BY FleetBoundsAssumption DEF Reached, EditsReach, Unapplied, Unseen, TypeOK

LEMMA ReachedTypeNext ==
    ASSUME TypeOK', EditsReach', NEW g \in RoleGroups
    PROVE  Reached(g)' \in Nat
<1>1. (Unapplied(g) + Unseen <= edits)'
  BY DEF EditsReach
<1>2. edits' \in Nat /\ Unapplied(g)' \in {0, 1} /\ Unseen' \in {0, 1}
  BY FleetBoundsAssumption DEF TypeOK, Unapplied, Unseen
<1> QED
  BY <1>1, <1>2 DEF Reached

\* Edits do not unreach a role group, and a StatefulSet changes by one that had not
\* reached it.
LEMMA ReachedStep ==
    ASSUME TypeOK, EditsReach, [Next]_vars, NEW g \in RoleGroups
    PROVE  /\ (Unapplied(g) + Unseen <= edits)'
           /\ Reached(g)' >= Reached(g)
           /\ sts'[g] # sts[g] /\ sts[g] # Absent => Reached(g)' > Reached(g)
<1> USE DEF Reached, Unapplied, Unseen
<1>1. edits \in Nat /\ Unapplied(g) + Unseen <= edits
  BY FleetBoundsAssumption DEF EditsReach, TypeOK
<1>2. CASE UserEdits
  <2>1. edits' = edits + 1 /\ UNCHANGED <<snap, sts>>
    BY <1>2 DEF UserEdits, objects
  <2> QED
    BY <1>1, <2>1 DEF Asked
<1>3. CASE StartRun
  <2>1. snap' = spec /\ UNCHANGED <<spec, sts, edits>>
    BY <1>3 DEF StartRun, objects, bounds
  <2>2. Asked(snap, g)' = Asked(spec, g)
    BY <2>1 DEF Asked
  <2>3. CASE snap = spec
    BY <1>1, <2>1, <2>2, <2>3
  <2>4. CASE snap # spec
    BY <1>1, <2>1, <2>2, <2>4
  <2> QED
    BY <2>3, <2>4
<1>4. CASE ~UserEdits /\ ~StartRun
  <2>1. UNCHANGED <<spec, snap, edits>>
    BY <1>4, SpecStep
  <2>2. Asked(snap, g)' = Asked(snap, g) /\ Unseen' = Unseen
    BY <2>1 DEF Asked
  <2>3. CASE sts'[g] = sts[g]
    BY <1>1, <2>1, <2>2, <2>3
  <2>4. CASE sts'[g] # sts[g]
    <3>1. sts'[g] = Asked(snap, g)
      BY <2>4, StatefulSetStep
    <3>2. Unapplied(g)' = 0
      BY <2>2, <3>1
    <3>3. sts[g] # Absent => Unapplied(g) = 1
      BY <2>4, <3>1
    <3> QED
      BY <1>1, <2>1, <2>2, <3>2, <3>3
  <2> QED
    BY <2>3, <2>4
<1> QED
  BY <1>2, <1>3, <1>4

\* Pods become outdated only when their StatefulSet changes.
LEMMA CurrentStep ==
    ASSUME TypeOK, PodsOfFleet, [Next]_vars, NEW b \in Broker, There(b)', There(b) => Current(b),
           sts'[b[1]] = sts[b[1]] \/ sts[b[1]] = Absent
    PROVE  Current(b)'
<1>1. CASE There(b) /\ pods'[b].template = pods[b].template
  <2>1. sts'[b[1]] = sts[b[1]]
    BY <1>1 DEF PodsOfFleet
  <2> QED
    BY <1>1, <2>1 DEF Current, There
<1>2. CASE pods'[b].template = sts[b[1]].template /\ UNCHANGED sts
  BY <1>2 DEF Current, There
<1> QED
  BY <1>1, <1>2, PodStep

LEMMA EditsReachStep ==
    ASSUME TypeOK, EditsReach, PodsOfFleet, [Next]_vars
    PROVE  EditsReach'
<1> SUFFICES ASSUME NEW g \in RoleGroups
             PROVE  /\ (Unapplied(g) + Unseen <= edits)'
                    /\ Reached(g)' = 0 => \A b \in Broker : b[1] = g /\ There(b)' => Current(b)'
  BY DEF EditsReach
<1>1. ASSUME Reached(g)' = 0, NEW b \in Broker, b[1] = g, There(b)' PROVE Current(b)'
  <2>1. Reached(g) = 0 /\ (sts'[g] = sts[g] \/ sts[g] = Absent)
    BY <1>1, ReachedStep, ReachedType
  <2>2. There(b) => Current(b)
    BY <1>1, <2>1 DEF EditsReach
  <2> QED
    BY <1>1, <2>1, <2>2, CurrentStep
<1> QED
  BY <1>1, ReachedStep

-----------------------------------------------------------------------------
(* What steps do to the fleet *)

\* Only becoming ready makes a broker ready; only a rolling update, or an eviction under
\* a budget, takes one down that was ready.
LEMMA ReadyStep ==
    ASSUME TypeOK, [Next]_vars, NEW b \in Broker, In(b, "ready")'
    PROVE  In(b, "ready") \/ PodReady(b)
<1> USE DEF In, There, TypeOK
<1>1. CASE UNCHANGED pods
  BY <1>1
<1>2. CASE UserEdits \/ Operator \/ RunFails \/ UNCHANGED vars
  BY <1>1, <1>2 DEF UserEdits, Operator, StartRun, ApplyStatefulSet, ApplyPdb, RunFails, fleet, vars
<1>3. ASSUME NEW c \in Broker, CreatePod(c) PROVE In(b, "ready")
  BY <1>3 DEF CreatePod
<1>4. ASSUME NEW c \in Broker, There(c), NEW state \in {"starting", "stopping"},
             pods' = [pods EXCEPT ![c].state = state]
      PROVE  In(b, "ready")
  BY <1>4 DEF Pod
<1>5. ASSUME NEW c \in Broker, ScaleDown(c) \/ RollPod(c) \/ Evict(c) \/ BrokerCrashes(c) PROVE In(b, "ready")
  BY <1>4, <1>5 DEF ScaleDown, RollPod, Evict, Stop, BrokerCrashes
<1>6. ASSUME NEW c \in Broker, PodReady(c) PROVE In(b, "ready") \/ PodReady(b)
  BY <1>6 DEF PodReady, Pod
<1>7. ASSUME NEW c \in Broker, PodStopped(c) PROVE In(b, "ready")
  BY <1>7 DEF PodStopped
<1>8. ASSUME NEW c \in Broker, DrainNode(c) PROVE In(b, "ready")
  BY <1>1, <1>8 DEF DrainNode
<1> QED
  BY <1>2, <1>3, <1>5, <1>6, <1>7, <1>8 DEF Next, Kubernetes

LEMMA TakenStep ==
    ASSUME TypeOK, [Next]_vars, NEW b \in taken', b \notin taken
    PROVE  /\ b \in Broker /\ In(b, "ready") /\ Wanted(b)
           /\ RollPod(b) \/ (Evict(b) /\ pdb # Absent)
<1>1. CASE UserEdits \/ Operator \/ RunFails \/ UNCHANGED vars
  BY <1>1 DEF UserEdits, Operator, StartRun, ApplyStatefulSet, ApplyPdb, RunFails, fleet, vars
<1>2. ASSUME NEW c \in Broker,
             CreatePod(c) \/ ScaleDown(c) \/ PodReady(c) \/ PodStopped(c) \/ BrokerCrashes(c) \/ DrainNode(c)
      PROVE  FALSE
  BY <1>2 DEF CreatePod, ScaleDown, PodReady, PodStopped, BrokerCrashes, DrainNode
<1>3. ASSUME NEW c \in Broker, RollPod(c) PROVE b = c /\ In(b, "ready") /\ Wanted(b)
  BY <1>3 DEF RollPod
<1>4. ASSUME NEW c \in Broker, Evict(c) PROVE b = c /\ In(b, "ready") /\ Wanted(b) /\ pdb # Absent
  BY <1>4 DEF Evict
<1> QED
  BY <1>1, <1>2, <1>3, <1>4 DEF Next, Kubernetes

\* Writing a StatefulSet forgets nothing that is scaled away.
LEMMA ScaledStep ==
    ASSUME TypeOK, [Next]_vars
    PROVE  /\ dropped \subseteq dropped'
           /\ \A b \in Broker : Wanted(b) /\ ~Wanted(b)' =>
                  b \notin taken' /\ (There(b) => b \in dropped')
<1>1. ASSUME NEW g \in RoleGroups, ApplyStatefulSet(g)
      PROVE  /\ dropped \subseteq dropped'
             /\ \A b \in Broker : Wanted(b) /\ ~Wanted(b)' =>
                    b \notin taken' /\ (There(b) => b \in dropped')
  <2> DEFINE away == {b \in Broker : b[1] = g /\ b[2] >= snap.replicas[g]}
  <2>1. /\ sts' = [sts EXCEPT ![g] = Asked(snap, g)]
        /\ taken' = taken \ away /\ dropped' = dropped \cup {b \in away : There(b)}
    BY <1>1 DEF ApplyStatefulSet, Asked
  <2>2. Asked(snap, g) # Absent /\ Asked(snap, g).replicas = snap.replicas[g] /\ snap.replicas[g] \in Nat
    BY AskedType, FleetAbsentAssumption, FleetBoundsAssumption DEF TypeOK, Asked, StatefulSet
  <2>3. ASSUME NEW b \in Broker, Wanted(b), ~Wanted(b)' PROVE b \in away
    <3>1. b[1] = g
      BY <2>1, <2>3, BrokerType DEF Wanted, TypeOK
    <3>2. ~(b[2] < snap.replicas[g])
      BY <2>1, <2>2, <2>3, <3>1 DEF Wanted, TypeOK
    <3> QED
      BY <2>2, <3>1, <3>2, BrokerType
  <2> QED
    BY <2>1, <2>3
<1>2. ASSUME UNCHANGED <<sts, dropped>>
      PROVE  /\ dropped \subseteq dropped'
             /\ \A b \in Broker : Wanted(b) => Wanted(b)'
  BY <1>2 DEF Wanted
<1>3. CASE UserEdits \/ StartRun \/ ApplyPdb \/ RunFails \/ UNCHANGED vars
  BY <1>2, <1>3 DEF UserEdits, StartRun, ApplyPdb, RunFails, objects, fleet, vars
<1>4. ASSUME NEW b \in Broker, Kubernetes(b) \/ BrokerCrashes(b) \/ DrainNode(b) \/ Evict(b)
      PROVE  UNCHANGED <<sts, dropped>>
  BY <1>4 DEF Kubernetes, CreatePod, ScaleDown, RollPod, PodReady, PodStopped, BrokerCrashes, DrainNode,
     Evict, objects
<1> QED
  BY <1>1, <1>2, <1>3, <1>4 DEF Next, Operator

LEMMA PodsOfFleetStep ==
    ASSUME TypeOK, PodsOfFleet, [Next]_vars
    PROVE  PodsOfFleet'
<1> SUFFICES ASSUME NEW b \in Broker, There(b)'
             PROVE  sts'[b[1]] # Absent /\ (Wanted(b)' \/ b \in dropped')
  BY DEF PodsOfFleet
<1>1. sts[b[1]] # Absent /\ (Wanted(b) \/ b \in dropped) /\ (There(b) \/ (Wanted(b) /\ UNCHANGED sts))
  BY PodStep DEF PodsOfFleet, Wanted
<1>2. sts'[b[1]] # Absent
  BY <1>1, StatefulSetStep, BrokerType, AskedType, FleetAbsentAssumption DEF TypeOK
<1>3. CASE UNCHANGED sts
  BY <1>1, <1>2, <1>3, ScaledStep DEF Wanted
<1>4. CASE There(b)
  BY <1>1, <1>2, <1>4, ScaledStep
<1> QED
  BY <1>1, <1>2, <1>3, <1>4

LEMMA TakenAreDownStep ==
    ASSUME TypeOK, TypeOK', TakenAreDown, [Next]_vars
    PROVE  TakenAreDown'
<1> SUFFICES ASSUME NEW b \in taken' PROVE Wanted(b)' /\ ~In(b, "ready")'
  BY DEF TakenAreDown
<1>1. b \in Broker
  BY DEF TypeOK
<1>2. Wanted(b)
  BY TakenStep DEF TakenAreDown
<1>3. Wanted(b)'
  BY <1>1, <1>2, ScaledStep
<1>4. ASSUME In(b, "ready")' PROVE FALSE
  <2>1. ~PodReady(b)
    BY DEF PodReady
  <2>2. In(b, "ready")
    BY <1>1, <1>4, <2>1, ReadyStep
  <2>3. RollPod(b) \/ Evict(b)
    BY <2>2, TakenStep DEF TakenAreDown
  <2>4. There(b) /\ pods' = [pods EXCEPT ![b].state = "stopping"]
    BY <2>3 DEF RollPod, Evict, Stop
  <2> QED
    BY <1>1, <1>4, <2>4 DEF In, There, TypeOK, Pod
<1> QED
  BY <1>3, <1>4

LEMMA BudgetStep ==
    ASSUME TypeOK, BudgetKnown, [Next]_vars
    PROVE  BudgetKnown'
<1>1. CASE ApplyPdb
  BY <1>1 DEF ApplyPdb, BudgetKnown, Budgets, TypeOK
<1>2. ASSUME UNCHANGED pdb PROVE BudgetKnown'
  BY <1>2 DEF BudgetKnown, Budgets
<1>3. CASE ~ApplyPdb
  BY <1>2, <1>3 DEF Next, Operator, Kubernetes, UserEdits, StartRun, ApplyStatefulSet, RunFails, CreatePod,
     ScaleDown, RollPod, PodReady, PodStopped, BrokerCrashes, DrainNode, Evict, objects, vars
<1> QED
  BY <1>1, <1>3

-----------------------------------------------------------------------------
(* Losses *)

LEMMA RolledAtKept ==
    ASSUME TypeOK, TypeOK', EditsReach, EditsReach', PodsOfFleet, [Next]_vars,
           NEW at \in [Broker -> Nat], RolledAt(at)
    PROVE  RolledAt(at)'
<1>1. ASSUME NEW b \in Broker PROVE at[b] <= Reached(b[1])'
  <2>1. b[1] \in RoleGroups /\ at[b] \in Nat /\ at[b] <= Reached(b[1])
    BY <1>1, BrokerType DEF RolledAt
  <2>2. Reached(b[1])' >= Reached(b[1]) /\ Reached(b[1])' \in Nat /\ Reached(b[1]) \in Nat
    BY <2>1, ReachedStep, ReachedType, ReachedTypeNext
  <2> QED
    BY <2>1, <2>2
<1>2. ASSUME NEW b \in Broker, at[b] # 0, at[b] = Reached(b[1])',
             NEW c \in Siblings(b)', c[2] > b[2], There(c)'
      PROVE  Current(c)'
  <2>1. b[1] \in RoleGroups /\ at[b] \in Nat /\ at[b] <= Reached(b[1]) /\ c \in Broker /\ c[1] = b[1] /\ c # b
    BY <1>2, BrokerType DEF RolledAt, Siblings
  <2>2. at[b] = Reached(b[1]) /\ (sts'[b[1]] = sts[b[1]] \/ sts[b[1]] = Absent)
    BY <1>2, <2>1, ReachedStep, ReachedType
  <2>3. There(c) => Current(c)
    <3>1. ASSUME There(c) PROVE sts'[b[1]] = sts[b[1]]
      BY <2>1, <2>2, <3>1 DEF PodsOfFleet
    <3>2. ASSUME There(c) PROVE c \in Siblings(b)
      BY <1>2, <2>1, <3>1, <3>2 DEF Siblings, Wanted
    <3> QED
      BY <1>2, <2>2, <3>2 DEF RolledAt
  <2> QED
    BY <1>2, <2>1, <2>2, <2>3, CurrentStep
<1> QED
  BY <1>1, <1>2 DEF RolledAt

\* No step but a rolling update's or an eviction adds to what is lost.
LEMMA RestKept ==
    ASSUME TypeOK, TypeOK', [Next]_vars, NEW at, NEW new, RestWithinBudget(at),
           Evicted(new)' \subseteq Evicted(at)
    PROVE  RestWithinBudget(new)'
<1> SUFFICES ASSUME NEW n \in Budgets, \A m \in Budgets : m <= n
             PROVE  Cardinality(Evicted(new)') <= n + Cardinality(dropped')
  BY DEF RestWithinBudget, Budgets
<1>1. Cardinality(Evicted(at)) <= n + Cardinality(dropped)
  BY DEF RestWithinBudget
<1>2. Evicted(at) \in SUBSET Broker /\ dropped' \in SUBSET Broker
  BY DEF Evicted, TypeOK
<1>3. /\ Cardinality(Evicted(new)') <= Cardinality(Evicted(at))
      /\ Cardinality(Evicted(new)') \in Nat /\ Cardinality(Evicted(at)) \in Nat
  BY <1>2, Counting
<1>4. /\ Cardinality(dropped) <= Cardinality(dropped')
      /\ Cardinality(dropped) \in Nat /\ Cardinality(dropped') \in Nat
  BY <1>2, ScaledStep, Counting
<1>5. n \in Nat
  BY BudgetsType
<1> QED
  BY <1>1, <1>3, <1>4, <1>5

\* The broker a role group rolls for its last edit is back before it rolls the next one.
LEMMA RollStep ==
    ASSUME IInv, TypeOK', EditsReach', [Next]_vars, NEW b \in Broker, RollPod(b)
    PROVE  LossInv'
<1>1. PICK at \in [Broker -> Nat] : RolledAt(at) /\ RestWithinBudget(at)
  BY DEF IInv, LossInv
\* Constants, so that they do not change with the step.
<1>2. PICK last : last = Reached(b[1])
  OBVIOUS
<1>3. PICK new : new = [c \in Broker |-> IF c = b THEN last
                                     ELSE IF c[1] = b[1] /\ at[c] = last THEN 0 ELSE at[c]]
  OBVIOUS
<1>4. /\ Wanted(b) /\ There(b) /\ ~Current(b)
      /\ \A c \in Siblings(b) : c[2] > b[2] => Current(c) /\ In(c, "ready")
      /\ taken' \subseteq taken \cup {b}
  BY DEF RollPod
<1>5. last \in Nat /\ last # 0 /\ b[1] \in RoleGroups
  BY <1>2, <1>4, ReachedType, BrokerType DEF IInv, EditsReach
<1>6. new \in [Broker -> Nat]
  BY <1>5, <1>3
<1>7. RolledAt(new)
  <2>1. \A c \in Broker : new[c] <= Reached(c[1])
    <3>1. \A c \in Broker : Reached(c[1]) \in Nat
      BY ReachedType, BrokerType DEF IInv
    <3> QED
      BY <1>2, <1>1, <1>3, <3>1 DEF RolledAt
  <2>2. ASSUME NEW c \in Broker, NEW d \in Broker, c[1] = d[1], new[c] = new[d], new[c] # 0 PROVE c = d
    <3>1. CASE c[1] # b[1]
      BY <1>1, <1>3, <2>2, <3>1 DEF RolledAt
    <3>2. CASE c[1] = b[1]
      <4>1. \A e \in Broker : e[1] = b[1] /\ new[e] # 0 /\ e # b => new[e] = at[e] /\ new[e] # last
        BY <1>3
      <4> QED
        BY <1>1, <1>3, <2>2, <3>2, <4>1 DEF RolledAt
    <3> QED
      BY <3>1, <3>2
  <2>3. ASSUME NEW c \in Broker, new[c] # 0, new[c] = Reached(c[1]), NEW d \in Siblings(c), d[2] > c[2]
        PROVE  There(d) => Current(d)
    <3>1. CASE c = b
      BY <1>4, <2>3, <3>1
    <3>2. CASE c # b
      <4>1. new[c] = at[c]
        BY <1>3, <2>3, <3>2
      <4> QED
        BY <1>1, <2>3, <4>1 DEF RolledAt
    <3> QED
      BY <3>1, <3>2
  <2> QED
    BY <2>1, <2>2, <2>3 DEF RolledAt
<1>8. RolledAt(new)'
  BY <1>6, <1>7, RolledAtKept DEF IInv
<1>9. Evicted(new)' \subseteq Evicted(at)
  <2> SUFFICES ASSUME NEW c \in taken', new[c] = 0 PROVE c \in taken /\ at[c] = 0
    BY DEF Evicted
  <2>1. c \in Broker /\ c # b /\ c \in taken
    BY <1>4, <1>5, <1>3 DEF TypeOK
  <2>2. ASSUME at[c] # 0 PROVE FALSE
    <3>1. c[1] = b[1] /\ at[c] = last
      BY <1>3, <2>1, <2>2
    <3>2. c \in Siblings(b) /\ b \in Siblings(c) /\ ~In(c, "ready")
      BY <1>4, <2>1, <3>1 DEF Siblings, IInv, TakenAreDown
    <3>3. ~(c[2] > b[2])
      BY <1>4, <3>2
    <3>4. ~(b[2] > c[2])
      BY <1>2, <1>1, <1>4, <2>1, <2>2, <3>1, <3>2 DEF RolledAt
    <3>5. c[2] = b[2]
      BY <2>1, <3>3, <3>4, BrokerType
    <3> QED
      BY <2>1, <3>1, <3>5 DEF Broker
  <2> QED
    BY <2>1, <2>2
<1>10. RestWithinBudget(new)'
  BY <1>1, <1>9, RestKept DEF IInv
<1> QED
  BY <1>6, <1>8, <1>10 DEF LossInv

\* A budget lets a ready broker go only if enough others of the role are ready.
LEMMA EvictStep ==
    ASSUME IInv, TypeOK', EditsReach', PodsOfFleet', TakenAreDown', [Next]_vars,
           NEW b \in Broker, Evict(b), In(b, "ready"), pdb # Absent
    PROVE  LossInv'
<1> DEFINE H == {c \in Broker : In(c, "ready")}
           W == {c \in Broker : Wanted(c)}
           none == [c \in Broker |-> 0]
<1>1. /\ EvictionAllowed(b) /\ pods' = [pods EXCEPT ![b].state = "stopping"]
      /\ UNCHANGED sts
  BY DEF Evict, Stop, objects
<1>2. H' = H \ {b}
  BY <1>1 DEF In, There, IInv, TypeOK, Pod
<1>3. W' = W
  BY <1>1 DEF Wanted
<1>4. H \in SUBSET Broker /\ W \in SUBSET Broker /\ H' \in SUBSET Broker /\ b \in H
  BY <1>2
<1>5. pdb \in Nat /\ pdb \in Budgets
  BY BudgetsType DEF IInv, BudgetKnown
<1>6. Cardinality(W) <= Cardinality(H \ {b}) + pdb
  <2>1. IsFiniteSet(H) /\ Cardinality(H) \in Nat /\ Cardinality(W) \in Nat
    BY <1>4, Counting
  <2>2. Cardinality(H \ {b}) = Cardinality(H) - 1
    BY <1>4, <2>1, FS_RemoveElement
  <2>3. Cardinality(H) > (IF Cardinality(W) > pdb THEN Cardinality(W) - pdb ELSE 0)
    BY <1>1 DEF EvictionAllowed, Selected
  <2> QED
    BY <1>5, <2>1, <2>2, <2>3
<1>7. Cardinality(W \ H') <= pdb + Cardinality(H' \ W)
  BY <1>2, <1>4, <1>5, <1>6, BudgetCounts
<1>8. H' \ W \subseteq dropped'
  BY <1>3 DEF PodsOfFleet, In
<1>9. Evicted(none)' \subseteq W \ H'
  BY <1>3 DEF Evicted, TakenAreDown, TypeOK
<1>10. RestWithinBudget(none)'
  <2> SUFFICES ASSUME NEW n \in Budgets, \A m \in Budgets : m <= n
               PROVE  Cardinality(Evicted(none)') <= n + Cardinality(dropped')
    BY DEF RestWithinBudget, Budgets
  <2>1. dropped' \in SUBSET Broker
    BY DEF TypeOK
  <2>2. /\ Cardinality(H' \ W) <= Cardinality(dropped')
        /\ Cardinality(H' \ W) \in Nat /\ Cardinality(dropped') \in Nat
    BY <1>8, <2>1, Counting
  <2>3. W \ H' \in SUBSET Broker
    OBVIOUS
  <2>4. /\ Cardinality(Evicted(none)') <= Cardinality(W \ H')
        /\ Cardinality(Evicted(none)') \in Nat /\ Cardinality(W \ H') \in Nat
    BY <1>9, <2>3, Counting
  <2>5. n \in Nat /\ pdb <= n
    BY <1>5, BudgetsType
  <2> QED
    BY <1>5, <1>7, <2>2, <2>4, <2>5
<1>11. RolledAt(none)'
  <2>1. \A c \in Broker : 0 <= Reached(c[1])'
    BY BrokerType, ReachedTypeNext
  <2> QED
    BY <2>1 DEF RolledAt
<1> QED
  BY <1>10, <1>11 DEF LossInv

LEMMA LossStep ==
    ASSUME IInv, TypeOK', EditsReach', PodsOfFleet', TakenAreDown', [Next]_vars
    PROVE  LossInv'
<1>1. ASSUME NEW b \in Broker, RollPod(b) PROVE LossInv'
  BY <1>1, RollStep
<1>2. ASSUME NEW b \in Broker, Evict(b), In(b, "ready"), pdb # Absent PROVE LossInv'
  BY <1>2, EvictStep
<1>3. ASSUME \A b \in Broker : In(b, "ready") => ~RollPod(b) /\ ~(Evict(b) /\ pdb # Absent)
      PROVE  LossInv'
  <2>1. PICK at \in [Broker -> Nat] : RolledAt(at) /\ RestWithinBudget(at)
    BY DEF IInv, LossInv
  <2>2. taken' \subseteq taken
    BY <1>3, TakenStep DEF IInv
  <2>3. Evicted(at)' \subseteq Evicted(at)
    BY <2>2 DEF Evicted
  <2> QED
    BY <2>1, <2>3, RolledAtKept, RestKept DEF LossInv, IInv
<1> QED
  BY <1>1, <1>2, <1>3

-----------------------------------------------------------------------------
(* The theorems *)

\* However many role groups, replicas and edits there are, the inductive invariant holds.
THEOREM FleetInvariance == Spec => []IInv
<1>1. Init => IInv
  <2> SUFFICES ASSUME Init PROVE IInv
    OBVIOUS
  <2> DEFINE none == [c \in Broker |-> 0]
  <2>1. TypeOK
    BY FleetBoundsAssumption DEF Init, TypeOK
  <2>2. BudgetKnown /\ PodsOfFleet /\ TakenAreDown
    BY DEF Init, BudgetKnown, PodsOfFleet, TakenAreDown, There
  <2>3. \A g \in RoleGroups : Unapplied(g) + Unseen <= edits /\ Reached(g) = 0
    <3>1. \A g \in RoleGroups : Unapplied(g) = 0 /\ Unseen = 0 /\ edits = 0
      BY DEF Init, Unapplied, Unseen
    <3> QED
      BY <3>1 DEF Reached
  <2>4. EditsReach
    BY <2>3 DEF Init, EditsReach, There
  <2>5. Evicted(none) = {} /\ dropped \in SUBSET Broker
    BY DEF Evicted, Init
  <2>6. RestWithinBudget(none)
    BY <2>5, BudgetsType, Counting, FS_EmptySet DEF RestWithinBudget
  <2>7. RolledAt(none)
    BY <2>3, BrokerType DEF RolledAt
  <2> QED
    BY <2>1, <2>2, <2>4, <2>6, <2>7 DEF IInv, LossInv
<1>2. IInv /\ [Next]_vars => IInv'
  <2> SUFFICES ASSUME IInv, [Next]_vars PROVE IInv'
    OBVIOUS
  <2>1. TypeOK' /\ BudgetKnown'
    BY FleetTypeStep, BudgetStep DEF IInv
  <2>2. EditsReach' /\ PodsOfFleet' /\ TakenAreDown'
    BY <2>1, EditsReachStep, PodsOfFleetStep, TakenAreDownStep DEF IInv
  <2> QED
    BY <2>1, <2>2, LossStep DEF IInv
<1> QED
  BY <1>1, <1>2, PTL DEF Spec

\* Evictions and rolling updates never have more wanted brokers down than the largest
\* budget, one of each role group for each edit, and one for each broker scaled away.
THEOREM LossAlwaysBounded == Spec => []LossBounded
<1>1. IInv => LossBounded
  <2> SUFFICES ASSUME IInv, NEW n \in Budgets, \A m \in Budgets : m <= n
               PROVE  Cardinality(taken) <= n + edits * Cardinality(RoleGroups) + Cardinality(dropped)
    BY DEF LossBounded
  <2>1. PICK at \in [Broker -> Nat] : RolledAt(at) /\ RestWithinBudget(at)
    BY DEF IInv, LossInv
  <2> DEFINE R == {b \in Broker : at[b] # 0}
  <2>2. Cardinality(Evicted(at)) <= n + Cardinality(dropped)
    BY <2>1 DEF RestWithinBudget
  <2>3. taken \in SUBSET Broker /\ dropped \in SUBSET Broker /\ edits \in Nat
    BY FleetBoundsAssumption DEF IInv, TypeOK
  <2>4. /\ IsFiniteSet(taken) /\ Cardinality(taken) \in Nat
        /\ Cardinality(dropped) \in Nat /\ Cardinality(R) \in Nat
        /\ Cardinality(taken \cap R) \in Nat /\ Cardinality(taken \cap R) <= Cardinality(R)
    BY <2>3, Counting
  <2>5. Evicted(at) = taken \ R
    BY <2>3 DEF Evicted
  <2>6. Cardinality(taken \ R) = Cardinality(taken) - Cardinality(taken \cap R)
    BY <2>4, FS_Difference
  <2>7. Cardinality(R) <= edits * Cardinality(RoleGroups)
    <3>1. \A b \in R : at[b] \in 1 .. edits
      BY <2>1, <2>3, ReachedType, BrokerType DEF RolledAt, IInv
    <3>2. \A b, c \in R : b[1] = c[1] /\ at[b] = at[c] => b = c
      BY <2>1 DEF RolledAt
    <3> QED
      BY <2>3, <3>1, <3>2, OneForEach
  <2>8. n \in Nat /\ edits * Cardinality(RoleGroups) \in Nat
    <3>1. Cardinality(RoleGroups) \in Nat
      BY FleetRoleGroupsAssumption, FS_CardinalityType
    <3> QED
      BY <2>3, <3>1, BudgetsType
  <2> QED
    BY <2>2, <2>4, <2>5, <2>6, <2>7, <2>8
<1> QED
  BY <1>1, FleetInvariance, PTL
=============================================================================
