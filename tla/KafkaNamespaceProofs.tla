-------------------------- MODULE KafkaNamespaceProofs --------------------------
(***************************************************************************)
(* Clusters whose names do not extend each other share a namespace without *)
(* touching each other's objects, and a settled cluster has what its spec  *)
(* asks for, however often clusters of its name came and went.             *)
(***************************************************************************)
EXTENDS KafkaNamespace, SequenceTheorems, TLAPS

\* No two clusters have a name for an object in common.
Apart == \A c, d \in Clusters : c # d => Desired[c][RoleGroups] \cap Desired[d][RoleGroups] = {}

LEMMA DesiredSubset ==
    ASSUME NEW c \in Clusters, NEW s \in SUBSET RoleGroups
    PROVE  Desired[c][s] \subseteq Desired[c][RoleGroups] /\ Desired[c][s] \subseteq Object
<1>1. Desired[c][s] \subseteq Desired[c][RoleGroups]
  BY DEF Desired
<1>2. Desired[c][RoleGroups] \subseteq Object
  BY DEF Object
<1> QED
  BY <1>1, <1>2

\* An object's labels and owner are those of the cluster its name belongs to.
InHands ==
    \A o \in Object : Exists(o) =>
        /\ objects[o].ownerName = objects[o].instance
        /\ o \in Desired[objects[o].instance][RoleGroups]

\* What holds of a cluster that nobody has asked to be looked at again.
Fresh(c) ==
    Alive(c) /\ c \notin queue =>
        /\ runs[c] = Absent =>
            /\ \A o \in Desired[c][clusters[c].groups] : Own(o, c)
            /\ \A o \in Object \ Desired[c][clusters[c].groups] :
                Exists(o) => objects[o].instance # c
        /\ runs[c] # Absent =>
            /\ runs[c].uid = clusters[c].uid /\ runs[c].groups = clusters[c].groups
            /\ \A o \in runs[c].added : Own(o, c)

NamespaceInv == TypeOK /\ InHands /\ \A c \in Clusters : Fresh(c)

-----------------------------------------------------------------------------
(* Types *)

LEMMA RenderType ==
    ASSUME TypeOK, NEW c \in Clusters, NEW o \in Object, runs[c] # Absent
    PROVE  Render(o, c) \in Content
<1>1. runs[c] \in Run
  BY DEF TypeOK
<1>2. runs[c].uid \in Nat /\ runs[c].groups \in SUBSET RoleGroups
  BY <1>1, NamespaceSpecsAssumption DEF Run
<1> QED
  BY <1>2 DEF Render, Content

LEMMA TypeStep ==
    ASSUME TypeOK, [Next]_vars
    PROVE  TypeOK'
<1> USE DEF TypeOK
<1>1. ASSUME NEW c \in Clusters, Create(c) PROVE TypeOK'
  <2> PICK s \in Specs : clusters' = [clusters EXCEPT ![c] = [uid |-> uid', groups |-> s, deleting |-> FALSE]]
    BY <1>1 DEF Create
  <2>1. clusters' \in [Clusters -> Cluster \cup {Absent}]
    BY <1>1 DEF Create, Cluster
  <2>2. acts' \in 0 .. MaxActs
    BY <1>1, NamespaceBoundsAssumption DEF Create, Act
  <2> QED
    BY <1>1, <2>1, <2>2 DEF Create
<1>2. ASSUME NEW c \in Clusters, Edit(c) PROVE TypeOK'
  <2>1. clusters' \in [Clusters -> Cluster \cup {Absent}]
    BY <1>2 DEF Edit, Cluster, Alive
  <2>2. acts' \in 0 .. MaxActs
    BY <1>2, NamespaceBoundsAssumption DEF Edit, Act
  <2> QED
    BY <1>2, <2>1, <2>2 DEF Edit
<1>3. ASSUME NEW c \in Clusters, Delete(c) PROVE TypeOK'
  <2>2. acts' \in 0 .. MaxActs
    BY <1>3, NamespaceBoundsAssumption DEF Delete, Act
  <2> QED
    BY <1>3, <2>2 DEF Delete
<1>4. ASSUME NEW c \in Clusters, DeleteForeground(c) PROVE TypeOK'
  <2>1. clusters' \in [Clusters -> Cluster \cup {Absent}]
    BY <1>4 DEF DeleteForeground, Cluster, Alive
  <2>2. acts' \in 0 .. MaxActs
    BY <1>4, NamespaceBoundsAssumption DEF DeleteForeground, Act
  <2> QED
    BY <1>4, <2>1, <2>2 DEF DeleteForeground
<1>5. ASSUME NEW c \in Clusters, StartRun(c) PROVE TypeOK'
  <2>1. CASE Alive(c)
    <3>1. clusters[c] \in Cluster
      BY <2>1 DEF Alive
    <3>2. [uid |-> clusters[c].uid, groups |-> clusters[c].groups, added |-> {}] \in Run
      BY <3>1 DEF Cluster, Run
    <3>3. runs' \in [Clusters -> Run \cup {Absent}]
      BY <1>5, <2>1, <3>2 DEF StartRun
    <3>4. \A d \in Clusters : runs'[d] # Absent => runs'[d].added \subseteq Desired[d][runs'[d].groups]
      BY <1>5, <2>1 DEF StartRun
    <3> QED
      BY <1>5, <3>3, <3>4 DEF StartRun
  <2>2. CASE ~Alive(c)
    BY <1>5, <2>2 DEF StartRun
  <2> QED
    BY <2>1, <2>2
<1>6. ASSUME NEW c \in Clusters, NEW o \in Object, Apply(c, o) PROVE TypeOK'
  <2>1. runs[c] \in Run /\ runs[c] # Absent
    BY <1>6 DEF Apply
  <2>2. o \in Desired[c][runs[c].groups]
    BY <1>6 DEF Apply, Todo
  <2>3. runs' = [runs EXCEPT ![c].added = @ \cup {o}]
    BY <1>6 DEF Apply
  <2>4. runs'[c] = [runs[c] EXCEPT !.added = @ \cup {o}] /\ \A d \in Clusters \ {c} : runs'[d] = runs[d]
    BY <2>3
  <2>5. /\ runs'[c] \in Run
        /\ runs'[c].groups = runs[c].groups /\ runs'[c].added = runs[c].added \cup {o}
    BY <2>1, <2>4 DEF Run
  <2>6. runs' \in [Clusters -> Run \cup {Absent}]
    BY <2>3, <2>4, <2>5
  <2>7. \A d \in Clusters : runs'[d] # Absent => runs'[d].added \subseteq Desired[d][runs'[d].groups]
    BY <2>1, <2>2, <2>4, <2>5
  <2>8. objects' \in [Object -> Content \cup {Absent}]
    BY <1>6, <2>1, RenderType DEF Apply
  <2>9. queue' \subseteq Clusters
    BY <1>6 DEF Apply, Notify, Render
  <2> QED
    BY <1>6, <2>6, <2>7, <2>8, <2>9 DEF Apply
<1>7. ASSUME NEW c \in Clusters, NEW o \in Object, DeleteOrphan(c, o) PROVE TypeOK'
  <2>1. objects[o] \in Content
    BY <1>7 DEF DeleteOrphan, Orphans, Exists
  <2> QED
    BY <1>7, <2>1 DEF DeleteOrphan, Notify, Content
<1>8. ASSUME NEW c \in Clusters, EndRun(c) PROVE TypeOK'
  BY <1>8 DEF EndRun
<1>9. ASSUME NEW c \in Clusters, RunFails(c) PROVE TypeOK'
  BY <1>9, NamespaceBoundsAssumption DEF RunFails
<1>10. ASSUME NEW c \in Clusters, FinishDeletion(c) PROVE TypeOK'
  BY <1>10 DEF FinishDeletion
<1>11. ASSUME NEW o \in Object, Collect(o) PROVE TypeOK'
  <2>1. objects[o] \in Content
    BY <1>11 DEF Collect, Garbage, Exists
  <2> QED
    BY <1>11, <2>1 DEF Collect, Notify, Content
<1>12. CASE UNCHANGED vars
  BY <1>12 DEF vars
<1> QED
  BY <1>1, <1>2, <1>3, <1>4, <1>5, <1>6, <1>7, <1>8, <1>9, <1>10, <1>11, <1>12
     DEF Next, Users, Step

-----------------------------------------------------------------------------
(* Objects stay with their cluster *)

LEMMA HandsStep ==
    ASSUME TypeOK, InHands, [Next]_vars
    PROVE  InHands'
<1>1. ASSUME NEW c \in Clusters, NEW o \in Object, Apply(c, o) PROVE InHands'
  <2>1. runs[c] \in Run /\ o \in Desired[c][runs[c].groups]
    BY <1>1 DEF Apply, Todo, TypeOK
  <2>2. o \in Desired[c][RoleGroups]
    BY <2>1, DesiredSubset, NamespaceSpecsAssumption DEF Run
  <2>3. \A p \in Object \ {o} : objects'[p] = objects[p]
    BY <1>1 DEF Apply, TypeOK
  <2>4. objects'[o].instance = c /\ objects'[o].ownerName = c
    BY <1>1 DEF Apply, TypeOK, Render
  <2> QED
    BY <2>2, <2>3, <2>4 DEF InHands, Exists
<1>2. ASSUME NEW c \in Clusters, NEW o \in Object, DeleteOrphan(c, o) PROVE InHands'
  BY <1>2 DEF DeleteOrphan, InHands, Exists, TypeOK
<1>3. ASSUME UNCHANGED objects PROVE InHands'
  BY <1>3 DEF InHands, Exists
<1>4. ASSUME NEW o \in Object, Collect(o) PROVE InHands'
  BY <1>4 DEF Collect, InHands, Exists, TypeOK
<1>5. ASSUME NEW c \in Clusters, Users(c) \/ StartRun(c) \/ EndRun(c) \/ RunFails(c) \/ FinishDeletion(c)
      PROVE InHands'
  BY <1>3, <1>5 DEF Users, Create, Edit, Delete, DeleteForeground, StartRun, EndRun, RunFails, FinishDeletion
<1>6. CASE UNCHANGED vars
  BY <1>3, <1>6 DEF vars
<1> QED
  BY <1>1, <1>2, <1>4, <1>5, <1>6 DEF Next, Step

\* Where names are apart, an object with a name of c that exists carries c's labels.
LEMMA NameTellsInstance ==
    ASSUME Apart, TypeOK, InHands, NEW c \in Clusters, NEW o \in Desired[c][RoleGroups],
           o \in Object, Exists(o)
    PROVE  objects[o].instance = c
<1>1. objects[o] \in Content
  BY DEF TypeOK, Exists
<1>2. objects[o].instance \in Clusters
  BY <1>1 DEF Content
<1> QED
  BY <1>2 DEF InHands, Apart

LEMMA OffOthersStep ==
    ASSUME Apart, TypeOK, InHands, [Next]_vars, NEW o \in Object, Exists(o), objects'[o] # objects[o]
    PROVE  LET c == objects[o].ownerName
           IN  IF Exists(o)'
               THEN objects'[o].ownerName = c
               ELSE Garbage(o) \/ (runs[c] # Absent /\ Todo(c) = {} /\ o \notin runs[c].added)
<1>1. objects[o].ownerName = objects[o].instance
  BY DEF InHands
<1>2. ASSUME NEW c \in Clusters, NEW p \in Object, Apply(c, p)
      PROVE  Exists(o)' /\ objects'[o].ownerName = objects[o].ownerName
  <2>1. o = p
    BY <1>2 DEF Apply, TypeOK
  <2>2. runs[c] \in Run /\ o \in Desired[c][runs[c].groups]
    BY <1>2, <2>1 DEF Apply, Todo, TypeOK
  <2>3. o \in Desired[c][RoleGroups]
    BY <2>2, DesiredSubset, NamespaceSpecsAssumption DEF Run
  <2>4. objects[o].instance = c
    BY <2>3, NameTellsInstance
  <2>5. objects'[o] = Render(o, c)
    BY <1>2, <2>1 DEF Apply, TypeOK
  <2>6. Exists(o)'
    BY <1>2, <2>5, RenderType, NamespaceAbsentAssumption DEF Exists, Apply
  <2> QED
    BY <1>1, <2>4, <2>5, <2>6 DEF Render
<1>3. ASSUME NEW c \in Clusters, NEW p \in Object, DeleteOrphan(c, p)
      PROVE  /\ ~Exists(o)'
             /\ runs[objects[o].ownerName] # Absent /\ Todo(objects[o].ownerName) = {}
             /\ o \notin runs[objects[o].ownerName].added
  <2>1. o = p /\ ~Exists(o)'
    BY <1>3 DEF DeleteOrphan, TypeOK, Exists
  <2>2. objects[o].ownerName = c
    BY <1>1, <1>3, <2>1 DEF DeleteOrphan, Orphans
  <2> QED
    BY <1>3, <2>1, <2>2 DEF DeleteOrphan, Orphans
<1>4. ASSUME NEW p \in Object, Collect(p)
      PROVE  ~Exists(o)' /\ Garbage(o)
  BY <1>4 DEF Collect, TypeOK, Exists
<1>5. ASSUME UNCHANGED objects PROVE FALSE
  BY <1>5
<1>6. ASSUME NEW c \in Clusters, Users(c) \/ StartRun(c) \/ EndRun(c) \/ RunFails(c) \/ FinishDeletion(c)
      PROVE  FALSE
  BY <1>5, <1>6 DEF Users, Create, Edit, Delete, DeleteForeground, StartRun, EndRun, RunFails, FinishDeletion
<1>7. CASE UNCHANGED vars
  BY <1>5, <1>7 DEF vars
<1>8. CASE \E c \in Clusters, p \in Object : Apply(c, p)
  BY <1>2, <1>8
<1>9. CASE \E c \in Clusters, p \in Object : DeleteOrphan(c, p)
  BY <1>3, <1>9
<1>10. CASE \E p \in Object : Collect(p)
  BY <1>4, <1>10
<1> QED
  BY <1>6, <1>7, <1>8, <1>9, <1>10 DEF Next, Step

-----------------------------------------------------------------------------
(* A cluster nobody asks about is as its spec says *)

LEMMA RenderIsOwn ==
    ASSUME TypeOK, NEW c \in Clusters, NEW o \in Object, Apply(c, o), Alive(c),
           runs[c].uid = clusters[c].uid, runs[c].groups = clusters[c].groups
    PROVE  Own(o, c)'
<1>1. objects'[o] = Render(o, c) /\ UNCHANGED clusters
  BY DEF Apply, TypeOK
<1>2. Render(o, c) # Absent
  BY RenderType, NamespaceAbsentAssumption DEF Apply
<1> QED
  BY <1>1, <1>2 DEF Own, Exists, Render, IsDiscovery

LEMMA OwnKept ==
    ASSUME NEW c \in Clusters, NEW o \in Object, Own(o, c),
           clusters'[c] = clusters[c], objects'[o] = objects[o]
    PROVE  Own(o, c)'
  BY DEF Own, Exists, IsDiscovery

LEMMA OwnIsNoGarbage ==
    ASSUME TypeOK, NEW c \in Clusters, NEW o \in Object, Alive(c), Own(o, c)
    PROVE  ~Garbage(o)
<1>1. OwnedBy(o, c)
  BY DEF Own, OwnedBy
<1> QED
  BY <1>1 DEF Garbage, BlockOwnerDeletion

\* What d has by its own copy of the spec lies within the objects there are.
LEMMA DesiredObjects ==
    ASSUME TypeOK, NEW d \in Clusters
    PROVE  /\ Alive(d) => Desired[d][clusters[d].groups] \subseteq Object
           /\ runs[d] # Absent => /\ Desired[d][runs[d].groups] \subseteq Desired[d][RoleGroups]
                                 /\ runs[d].added \subseteq Object
<1>1. /\ Alive(d) => clusters[d].groups \in SUBSET RoleGroups
      /\ runs[d] # Absent => runs[d].groups \in SUBSET RoleGroups
  BY NamespaceSpecsAssumption DEF TypeOK, Alive, Cluster, Run
<1> QED
  BY <1>1, DesiredSubset DEF TypeOK

\* A step that leaves d alone, and objects but for some that are not its own.
LEMMA FreshKept ==
    ASSUME TypeOK, NEW d \in Clusters, Fresh(d),
           clusters'[d] = clusters[d], runs'[d] = runs[d], d \in queue => d \in queue',
           \A o \in Object : \/ objects'[o] = objects[o]
                             \/ ~Own(o, d) /\ (Exists(o)' => objects'[o].instance # d)
    PROVE  Fresh(d)'
<1> SUFFICES ASSUME Alive(d), d \notin queue
             PROVE  Fresh(d)'
  BY DEF Fresh, Alive
<1>1. \A o \in Object : Own(o, d) => Own(o, d)'
  BY OwnKept
<1>2. CASE runs[d] = Absent
  <2>1. \A o \in Desired[d][clusters[d].groups] : Own(o, d)'
    BY <1>1, <1>2, DesiredObjects DEF Fresh
  <2>2. \A o \in Object \ Desired[d][clusters[d].groups] : Exists(o)' => objects'[o].instance # d
    BY <1>2 DEF Fresh, Exists
  <2> QED
    BY <1>2, <2>1, <2>2 DEF Fresh
<1>3. CASE runs[d] # Absent
  <2>1. \A o \in runs[d].added : Own(o, d)'
    BY <1>1, <1>3, DesiredObjects DEF Fresh
  <2> QED
    BY <1>3, <2>1 DEF Fresh
<1> QED
  BY <1>2, <1>3

\* What the run of c and everybody else leave of a cluster d that stays unasked-for.
LEMMA FreshStep ==
    ASSUME Apart, NamespaceInv, [Next]_vars, NEW d \in Clusters
    PROVE  Fresh(d)'
<1> USE DEF NamespaceInv
<1> SUFFICES ASSUME Alive(d)', d \notin queue'
             PROVE  Fresh(d)'
  BY DEF Fresh
<1>1. ASSUME NEW c \in Clusters, Create(c) PROVE Fresh(d)'
  <2>1. c # d
    BY <1>1 DEF Create
  <2>2. clusters'[d] = clusters[d] /\ runs'[d] = runs[d] /\ d \notin queue /\ UNCHANGED objects
    BY <1>1, <2>1 DEF Create, TypeOK
  <2> QED
    BY FreshKept, <2>2
<1>2. ASSUME NEW c \in Clusters, Edit(c) PROVE Fresh(d)'
  <2>1. clusters'[d] = clusters[d] /\ runs'[d] = runs[d] /\ d \notin queue /\ UNCHANGED objects
    BY <1>2 DEF Edit, TypeOK
  <2> QED
    BY FreshKept, <2>1
<1>3. ASSUME NEW c \in Clusters, Delete(c) \/ FinishDeletion(c) PROVE Fresh(d)'
  <2>1. c # d
    BY <1>3 DEF Delete, FinishDeletion, Alive, TypeOK
  <2>2. clusters'[d] = clusters[d] /\ runs'[d] = runs[d] /\ d \notin queue /\ UNCHANGED objects
    BY <1>3, <2>1 DEF Delete, FinishDeletion, TypeOK
  <2> QED
    BY FreshKept, <2>2
<1>4. ASSUME NEW c \in Clusters, DeleteForeground(c) PROVE Fresh(d)'
  <2>1. clusters'[d] = clusters[d] /\ runs'[d] = runs[d] /\ d \notin queue /\ UNCHANGED objects
    BY <1>4 DEF DeleteForeground, TypeOK
  <2> QED
    BY FreshKept, <2>1
<1>5. ASSUME NEW c \in Clusters, StartRun(c) PROVE Fresh(d)'
  <2>1. CASE c = d
    <3>1. Alive(d)
      BY <1>5 DEF StartRun, Alive
    <3>2. runs'[d] = [uid |-> clusters[d].uid, groups |-> clusters[d].groups, added |-> {}]
      BY <1>5, <2>1, <3>1 DEF StartRun, TypeOK
    <3>3. runs'[d] # Absent
      BY <3>1, <3>2, NamespaceAbsentAssumption DEF TypeOK, Alive, Cluster, Run
    <3> QED
      BY <1>5, <3>2, <3>3 DEF StartRun, Fresh
  <2>2. CASE c # d
    <3>1. clusters'[d] = clusters[d] /\ runs'[d] = runs[d] /\ d \notin queue /\ UNCHANGED objects
      BY <1>5, <2>2 DEF StartRun, TypeOK
    <3> QED
      BY FreshKept, <3>1
  <2> QED
    BY <2>1, <2>2
<1>6. ASSUME NEW c \in Clusters, NEW p \in Object, Apply(c, p) PROVE Fresh(d)'
  <2>1. runs[c] \in Run /\ p \in Desired[c][runs[c].groups] /\ UNCHANGED clusters
    BY <1>6 DEF Apply, Todo, TypeOK
  <2>2. \A o \in Object \ {p} : objects'[o] = objects[o]
    BY <1>6 DEF Apply, TypeOK
  <2>3. d \notin queue
    BY <1>6 DEF Apply
  <2>4. CASE c = d
    <3>1. runs[d].uid = clusters[d].uid /\ runs[d].groups = clusters[d].groups
      BY <1>6, <2>1, <2>3, <2>4 DEF Fresh, Alive, Apply
    <3>2. Own(p, d)'
      BY <1>6, <2>1, <2>4, <3>1, RenderIsOwn DEF Alive
    <3>3. \A o \in runs[d].added : o # p => Own(o, d)'
      BY <1>6, DesiredObjects, <2>1, <2>2, <2>3, <2>4, OwnKept DEF Fresh, Alive, Apply
    <3>4. /\ runs'[d].uid = runs[d].uid /\ runs'[d].groups = runs[d].groups
          /\ runs'[d].added = runs[d].added \cup {p} /\ runs'[d] # Absent
      <4>1. runs'[d] = [runs[d] EXCEPT !.added = @ \cup {p}]
        BY <1>6, <2>4 DEF Apply, TypeOK
      <4>2. runs'[d] \in Run
        BY <2>1, <2>4, <4>1 DEF Run
      <4> QED
        BY <2>1, <2>4, <4>1, <4>2, NamespaceAbsentAssumption DEF Run
    <3> QED
      BY <2>1, <3>1, <3>2, <3>3, <3>4 DEF Fresh
  <2>5. CASE c # d
    <3>1. p \in Desired[c][RoleGroups]
      BY <1>6, <2>1, DesiredObjects DEF Apply
    <3>2. objects'[p].instance = c
      BY <1>6 DEF Apply, TypeOK, Render
    <3>3. ~Own(p, d)
      <4>1. Exists(p) => objects[p].instance = c
        BY <3>1, NameTellsInstance
      <4> QED
        BY <2>5, <4>1 DEF Own
    <3>4. runs'[d] = runs[d]
      BY <1>6, <2>5 DEF Apply, TypeOK
    <3> QED
      BY FreshKept, <2>1, <2>2, <2>3, <2>5, <3>2, <3>3, <3>4
  <2> QED
    BY <2>4, <2>5
<1>7. ASSUME NEW c \in Clusters, NEW p \in Object, DeleteOrphan(c, p) PROVE Fresh(d)'
  <2>1. /\ UNCHANGED <<clusters, runs>> /\ d \notin queue
        /\ \A o \in Object \ {p} : objects'[o] = objects[o]
        /\ ~Exists(p)'
    BY <1>7 DEF DeleteOrphan, TypeOK, Exists
  <2>2. CASE c = d
    <3>1. runs[d] # Absent /\ p \notin runs[d].added
      BY <1>7, <2>2 DEF DeleteOrphan, Orphans
    <3>2. /\ runs[d].uid = clusters[d].uid /\ runs[d].groups = clusters[d].groups
          /\ \A o \in runs[d].added : Own(o, d)
      BY <2>1, <3>1 DEF Fresh, Alive
    <3>3. \A o \in runs[d].added : Own(o, d)'
      BY DesiredObjects, <2>1, <3>1, <3>2, OwnKept
    <3> QED
      BY <2>1, <3>1, <3>2, <3>3 DEF Fresh
  <2>3. CASE c # d
    <3>1. ~Own(p, d)
      BY <1>7, <2>3 DEF DeleteOrphan, Orphans, Own
    <3> QED
      BY FreshKept, <2>1, <3>1
  <2> QED
    BY <2>2, <2>3
<1>8. ASSUME NEW c \in Clusters, EndRun(c) PROVE Fresh(d)'
  <2>1. CASE c = d
    <3>1. /\ runs[d] # Absent /\ UNCHANGED <<clusters, queue, objects>> /\ runs'[d] = Absent
          /\ Todo(d) = {} /\ Orphans(d) = {}
      BY <1>8, <2>1 DEF EndRun, TypeOK
    <3>2. runs[d].groups = clusters[d].groups /\ \A o \in runs[d].added : Own(o, d)
      BY <3>1 DEF Fresh, Alive
    <3>3. runs[d].added = Desired[d][clusters[d].groups]
      BY <3>1, <3>2 DEF Todo, TypeOK
    <3>4. \A o \in Desired[d][clusters[d].groups] : Own(o, d)'
      BY DesiredObjects, <3>1, <3>2, <3>3, OwnKept
    <3>5. \A o \in Object \ Desired[d][clusters[d].groups] : Exists(o) => objects[o].instance # d
      BY <3>1, <3>3 DEF Orphans
    <3> QED
      BY <3>1, <3>4, <3>5 DEF Exists, Fresh
  <2>2. CASE c # d
    <3>1. clusters'[d] = clusters[d] /\ runs'[d] = runs[d] /\ d \notin queue /\ UNCHANGED objects
      BY <1>8, <2>2 DEF EndRun, TypeOK
    <3> QED
      BY FreshKept, <3>1
  <2> QED
    BY <2>1, <2>2
<1>9. ASSUME NEW c \in Clusters, RunFails(c) PROVE Fresh(d)'
  <2>1. clusters'[d] = clusters[d] /\ runs'[d] = runs[d] /\ d \notin queue /\ UNCHANGED objects
    BY <1>9 DEF RunFails, TypeOK
  <2> QED
    BY FreshKept, <2>1
<1>10. ASSUME NEW p \in Object, Collect(p) PROVE Fresh(d)'
  <2>1. /\ UNCHANGED <<clusters, runs>> /\ d \notin queue
        /\ \A o \in Object \ {p} : objects'[o] = objects[o]
        /\ ~Exists(p)' /\ Garbage(p)
    BY <1>10 DEF Collect, TypeOK, Exists
  <2>2. ~Own(p, d)
    BY <2>1, OwnIsNoGarbage DEF Alive
  <2> QED
    BY FreshKept, <2>1, <2>2
<1>11. ASSUME UNCHANGED vars PROVE Fresh(d)'
  <2>1. clusters'[d] = clusters[d] /\ runs'[d] = runs[d] /\ d \notin queue /\ UNCHANGED objects
    BY <1>11 DEF vars
  <2> QED
    BY FreshKept, <2>1
<1> QED
  BY <1>1, <1>2, <1>3, <1>4, <1>5, <1>6, <1>7, <1>8, <1>9, <1>10, <1>11 DEF Next, Users, Step

-----------------------------------------------------------------------------
(* Names *)

\* Name n is c, possibly with further parts behind it.
Extends(n, c) == \E t \in Seq(Parts) : n = c \o t

\* No cluster's name is another one's with further parts behind it.
Unrelated == \A c, d \in Clusters : c # d => ~Extends(d, c)

LEMMA PartsAreNames == \A w \in Parts : <<w>> \in Seq(Parts)
<1> SUFFICES ASSUME NEW w \in Parts
             PROVE  <<w>> \in Seq(Parts)
  OBVIOUS
<1>1. <<>> \in Seq(Parts)
  BY EmptySeq
<1>2. Append(<<>>, w) \in Seq(Parts)
  BY <1>1, AppendProperties
<1>3. Append(<<>>, w) = <<w>>
  OBVIOUS
<1> QED
  BY <1>2, <1>3

\* The parts that the operator puts behind a cluster's name.
LEMMA SuffixesAreNames ==
    /\ <<"serviceaccount">> \in Seq(Parts) /\ <<"rolebinding">> \in Seq(Parts)
    /\ <<"broker">> \in Seq(Parts) /\ <<"nodeport">> \in Seq(Parts)
    /\ <<"bootstrap">> \in Seq(Parts)
<1> QED
  BY NamesAssumption, PartsAreNames DEF Suffixes

LEMMA NamesExtend ==
    ASSUME NEW c \in Clusters, NEW o \in Desired[c][RoleGroups]
    PROVE  Extends(o.name, c)
<1> c \in Seq(Parts)
  BY NamesAssumption
<1>1. PICK k \in Kinds : \/ o.name \in ClusterNames(k, c)
                        \/ \E g \in RoleGroups : o.name \in GroupNames(k, c, g)
  BY DEF Desired
<1>2. CASE o.name \in ClusterNames(k, c)
  <2>1. \/ o.name = c
        \/ o.name \in {c \o <<"serviceaccount">>, c \o <<"rolebinding">>, c \o <<"broker">>,
                      c \o <<"nodeport">>}
    <3>1. CASE k = "ServiceAccount"
      BY <1>2, <3>1 DEF ClusterNames, IdentityName
    <3>2. CASE k = "RoleBinding"
      BY <1>2, <3>2 DEF ClusterNames
    <3>3. CASE k = "PodDisruptionBudget"
      BY <1>2, <3>3 DEF ClusterNames
    <3>4. CASE k = "ConfigMap"
      BY <1>2, <3>4 DEF ClusterNames
    <3> QED
      BY <1>2, <3>1, <3>2, <3>3, <3>4, KindsAssumption DEF ClusterNames, AllKinds
  <2>2. <<>> \in Seq(Parts) /\ c = c \o <<>>
    BY EmptySeq, ConcatEmptySeq
  <2>3. /\ <<"serviceaccount">> \in Seq(Parts) /\ <<"rolebinding">> \in Seq(Parts)
        /\ <<"broker">> \in Seq(Parts) /\ <<"nodeport">> \in Seq(Parts)
    BY SuffixesAreNames
  <2> QED
    BY <2>1, <2>2, <2>3 DEF Extends
<1>3. ASSUME NEW g \in RoleGroups, o.name \in GroupNames(k, c, g)
      PROVE  Extends(o.name, c)
  <2> g \in Seq(Parts)
    BY NamesAssumption
  <2>1. o.name = (c \o <<"broker">>) \o g \/ o.name = ((c \o <<"broker">>) \o g) \o <<"bootstrap">>
    BY <1>3 DEF GroupNames, GroupName
  <2> <<"broker">> \in Seq(Parts) /\ <<"bootstrap">> \in Seq(Parts)
    BY SuffixesAreNames
  <2>2. /\ (c \o <<"broker">>) \o g = c \o (<<"broker">> \o g)
        /\ ((c \o <<"broker">>) \o g) \o <<"bootstrap">> = c \o ((<<"broker">> \o g) \o <<"bootstrap">>)
    BY ConcatAssociative
  <2>3. <<"broker">> \o g \in Seq(Parts) /\ (<<"broker">> \o g) \o <<"bootstrap">> \in Seq(Parts)
    BY ConcatProperties
  <2> QED
    BY <2>1, <2>2, <2>3 DEF Extends
<1> QED
  BY <1>1, <1>2, <1>3

\* Of two sequences with a common extension the shorter one begins the longer one.
LEMMA CommonExtension ==
    ASSUME NEW c \in Seq(Parts), NEW d \in Seq(Parts), NEW n, Len(c) <= Len(d),
           Extends(n, c), Extends(n, d)
    PROVE  Extends(d, c)
<1> PICK t \in Seq(Parts) : n = c \o t
  BY DEF Extends
<1> PICK u \in Seq(Parts) : n = d \o u
  BY DEF Extends
<1> c \o t = d \o u
  OBVIOUS
<1> DEFINE v == SubSeq(d, Len(c) + 1, Len(d))
<1>1. v \in Seq(Parts) /\ Len(v) = Len(d) - Len(c)
  OBVIOUS
<1>2. \A i \in 1 .. Len(c) : d[i] = c[i]
  <2>1. \A i \in 1 .. Len(c) : (c \o t)[i] = c[i] /\ (d \o u)[i] = d[i]
    OBVIOUS
  <2> QED
    BY <2>1
<1>3. \A i \in 1 .. Len(d) - Len(c) : v[i] = d[Len(c) + i]
  OBVIOUS
<1>4. d = c \o v
  BY <1>1, <1>2, <1>3
<1> QED
  BY <1>1, <1>4 DEF Extends

LEMMA UnrelatedApart ==
    ASSUME Unrelated
    PROVE  Apart
<1> SUFFICES ASSUME NEW c \in Clusters, NEW d \in Clusters, c # d,
                    NEW o \in Desired[c][RoleGroups], o \in Desired[d][RoleGroups]
             PROVE  FALSE
  BY DEF Apart
<1> c \in Seq(Parts) /\ d \in Seq(Parts)
  BY NamesAssumption
<1>1. Extends(o.name, c)
  BY NamesExtend
<1>2. Extends(o.name, d)
  BY NamesExtend
<1>3. CASE Len(c) <= Len(d)
  <2>1. Extends(d, c)
    BY <1>1, <1>2, <1>3, CommonExtension
  <2> QED
    BY <2>1 DEF Unrelated
<1>4. CASE Len(d) <= Len(c)
  <2>1. Extends(c, d)
    BY <1>1, <1>2, <1>4, CommonExtension
  <2> QED
    BY <2>1 DEF Unrelated
<1>5. Len(c) \in Nat /\ Len(d) \in Nat
  OBVIOUS
<1> QED
  BY <1>3, <1>4, <1>5

-----------------------------------------------------------------------------
(* The theorems *)

LEMMA NamespaceInit ==
    ASSUME Init
    PROVE  NamespaceInv
<1>1. TypeOK
  BY NamespaceBoundsAssumption DEF Init, TypeOK
<1> QED
  BY <1>1 DEF Init, NamespaceInv, InHands, Exists, Fresh, Alive

\* Every variable has its type, and a run has applied only what its copy of the spec wants.
THEOREM NamespaceTypeCorrect == Spec => []TypeOK
<1>1. Init => TypeOK
  BY NamespaceInit DEF NamespaceInv
<1>2. TypeOK /\ [Next]_vars => TypeOK'
  BY TypeStep
<1> QED
  BY <1>1, <1>2, PTL DEF Spec

\* The invariant of clusters whose names do not extend each other.
THEOREM NamespaceInvariance ==
    ASSUME Unrelated
    PROVE  Spec => []NamespaceInv
<1>1. Init => NamespaceInv
  BY NamespaceInit
<1>2. NamespaceInv /\ [Next]_vars => NamespaceInv'
  BY UnrelatedApart, TypeStep, HandsStep, FreshStep DEF NamespaceInv
<1> QED
  BY <1>1, <1>2, PTL DEF Spec

\* Such clusters never take over or delete each other's objects.
THEOREM NeighboursStayOff ==
    ASSUME Unrelated
    PROVE  Spec => StaysOffOthers
<1>1. NamespaceInv /\ [Next]_vars =>
        [\A o \in Object : Exists(o) /\ objects'[o] # objects[o] =>
            LET c == objects[o].ownerName
            IN  IF Exists(o)'
                THEN objects'[o].ownerName = c
                ELSE Garbage(o) \/ (runs[c] # Absent /\ Todo(c) = {} /\ o \notin runs[c].added)]_vars
  BY UnrelatedApart, OffOthersStep DEF NamespaceInv
<1> QED
  BY <1>1, NamespaceInvariance, PTL DEF Spec, StaysOffOthers

\* A settled cluster among such neighbours has exactly the objects of its spec.
THEOREM SettledClustersOwn ==
    ASSUME Unrelated
    PROVE  Spec => []SettledMeansOwn
<1>1. NamespaceInv => SettledMeansOwn
  BY DEF NamespaceInv, Fresh, Settled, SettledMeansOwn
<1> QED
  BY <1>1, NamespaceInvariance, PTL
=============================================================================
