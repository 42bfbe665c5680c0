------------------------ MODULE ClusterDeploymentProofs ------------------------
(***************************************************************************)
(* What follows from ordered deployment, for every set of objects, plans   *)
(* and needs.                                                              *)
(***************************************************************************)
EXTENDS ClusterDeployment, TLAPS

\* Deployments stay among their objects and contents.
LEMMA DeploymentType == Spec => []TypeOK
<1> USE DEF TypeOK
<1>1. Init => TypeOK
  BY DEF Init
<1>2. TypeOK /\ [Next]_vars => TypeOK'
  <2> SUFFICES ASSUME TypeOK, [Next]_vars PROVE TypeOK'
    OBVIOUS
  <2>1. ASSUME NEW p \in Plans, Begin(p) PROVE TypeOK'
    BY <2>1 DEF Begin
  <2>2. ASSUME NEW o \in Objects, Apply(o) PROVE TypeOK'
    <3>1. target \in Plans /\ Forms[target][o] \subseteq Contents
      BY <2>2, FormsType DEF Apply
    <3> QED
      BY <2>2, <3>1 DEF Apply
  <2>3. ASSUME NEW o \in Objects, Prune(o) \/ Tamper(o) PROVE TypeOK'
    BY <2>3 DEF Prune, Tamper
  <2>4. CASE Report \/ Abandon
    BY <2>4 DEF Report, Abandon
  <2> QED
    BY <2>1, <2>2, <2>3, <2>4 DEF Next, vars
<1> QED
  BY <1>1, <1>2, PTL DEF Spec

\* What a deployment has applied stays as applied, but for objects others delete.
THEOREM DoneStaysThere == Spec => []DoneIsThere
<1>1. Init => DoneIsThere
  BY DEF Init, DoneIsThere
<1>2. TypeOK /\ DoneIsThere /\ [Next]_vars => DoneIsThere'
  <2> SUFFICES ASSUME TypeOK, DoneIsThere, [Next]_vars PROVE DoneIsThere'
    OBVIOUS
  <2> USE DEF DoneIsThere, There
  <2>1. ASSUME NEW p \in Plans, Begin(p) PROVE DoneIsThere'
    BY <2>1 DEF Begin
  <2>2. ASSUME NEW o \in Objects, Apply(o) PROVE DoneIsThere'
    <3>1. CASE target \in Frozen
      BY <2>2, <3>1 DEF Apply
    <3>2. CASE target \notin Frozen
      <4>1. PICK v \in Forms[target][o] : objects' = [objects EXCEPT ![o] = v]
        BY <2>2, <3>2 DEF Apply
      <4>2. v # Absent
        BY <2>2, <4>1, FormsType DEF Apply, TypeOK
      <4>3. done' = done \cup {o} /\ target' = target
        BY <2>2 DEF Apply
      <4>4. \A x \in done' : objects'[x] = IF x = o THEN v ELSE objects[x]
        BY <2>2, <4>1, <4>3 DEF TypeOK
      <4>5. o \in Wanted[target]
        BY <2>2 DEF Apply
      <4> QED
        BY <4>1, <4>2, <4>3, <4>4, <4>5
    <3> QED
      BY <3>1, <3>2
  <2>3. ASSUME NEW o \in Objects, Prune(o) PROVE DoneIsThere'
    BY <2>3 DEF Prune, TypeOK
  <2>4. ASSUME NEW o \in Objects, Tamper(o) PROVE DoneIsThere'
    BY <2>4 DEF Tamper, TypeOK
  <2>5. CASE Report \/ Abandon
    BY <2>5 DEF Report, Abandon
  <2>6. CASE UNCHANGED vars
    BY <2>6 DEF vars
  <2> QED
    BY <2>1, <2>2, <2>3, <2>4, <2>5, <2>6 DEF Next
<1> QED
  BY <1>1, <1>2, DeploymentType, PTL DEF Spec

\* However many deployments were abandoned, an object has what it needs of what all want.
THEOREM NeedsAlwaysMet == Spec => []NeedsMet
<1>1. Init => NeedsMet
  BY DEF Init, NeedsMet, There
<1>2. TypeOK /\ DoneIsThere /\ NeedsMet /\ [Next]_vars => NeedsMet'
  <2> SUFFICES ASSUME TypeOK, DoneIsThere, NeedsMet, [Next]_vars,
                      NEW x \in Objects, There(x)', NEW n \in Needs[x], n \in Core
               PROVE  There(n)'
    BY DEF NeedsMet, Core
  <2> USE DEF There
  <2>0. n \in Objects \ Tamperable /\ \A p \in Plans : n \in Wanted[p]
    BY DEF Core
  \* Nobody removes what all plans want and nobody tampers with.
  <2>1. There(n) => There(n)'
    <3> SUFFICES ASSUME There(n) PROVE There(n)'
      OBVIOUS
    <3>1. ASSUME NEW o \in Objects, Apply(o) PROVE There(n)'
      <4>1. CASE target \in Frozen
        BY <3>1, <4>1 DEF Apply
      <4>2. CASE target \notin Frozen
        <5>1. PICK v \in Forms[target][o] : objects' = [objects EXCEPT ![o] = v]
          BY <3>1, <4>2 DEF Apply
        <5>2. v # Absent
          BY <3>1, <5>1, FormsType DEF Apply, TypeOK
        <5> QED
          BY <2>0, <5>1, <5>2 DEF TypeOK
      <4> QED
        BY <4>1, <4>2
    <3>2. ASSUME NEW o \in Objects, Prune(o) PROVE There(n)'
      BY <2>0, <3>2 DEF Prune, Applied, TypeOK
    <3>3. ASSUME NEW o \in Objects, Tamper(o) PROVE There(n)'
      BY <2>0, <3>3 DEF Tamper, TypeOK
    <3>4. (\E p \in Plans : Begin(p)) \/ Report \/ Abandon \/ UNCHANGED vars => objects' = objects
      BY DEF Begin, Report, Abandon, vars
    <3> QED
      BY <3>1, <3>2, <3>3, <3>4 DEF Next
  <2>2. CASE There(x)
    BY <2>0, <2>1, <2>2 DEF NeedsMet, Core
  <2>3. CASE ~There(x)
    <3>1. PICK o \in Objects : Apply(o)
      <4>1. \A o \in Objects : ~Prune(o) /\ ~Tamper(o)
        BY <2>3 DEF Prune, Tamper, TypeOK
      <4>2. ~(\E p \in Plans : Begin(p)) /\ ~Report /\ ~Abandon /\ ~UNCHANGED vars
        BY <2>3 DEF Begin, Report, Abandon, vars
      <4> QED
        BY <4>1, <4>2 DEF Next
    <3>2. target \in Plans /\ target \notin Frozen
      BY <2>3, <3>1 DEF Apply, TypeOK
    <3>3. x = o
      BY <2>3, <3>1, <3>2 DEF Apply, TypeOK
    <3>4. n \in done
      BY <2>0, <3>1, <3>2, <3>3 DEF Apply
    <3> QED
      BY <2>0, <2>1, <3>2, <3>4, NoPlanType DEF DoneIsThere
  <2> QED
    BY <2>2, <2>3
<1> QED
  BY <1>1, <1>2, DeploymentType, DoneStaysThere, PTL DEF Spec
=============================================================================
